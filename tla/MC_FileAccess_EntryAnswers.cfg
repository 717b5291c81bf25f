CONSTANTS
  Owner = 1000
  Group = 100
  Stranger = 1001
  StrangerG = 101
  DefineFileMode = 420
  DefineDirMode = 493
SPECIFICATION Spec
INVARIANTS EntryAnswersAsSpecified

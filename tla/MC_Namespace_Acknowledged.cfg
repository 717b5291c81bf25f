CONSTANTS
  Paths <- MCPaths
  RootPath <- MCRoot
  InitObjects <- MCInitObjects
  Renames <- MCRenames
  MTimes <- MCMTimes
  NoNode = NoNode
  MaxNodes = 7
  MaxOps = 4
  MaxTime = 2
SPECIFICATION NamespaceSpec
INVARIANTS NamespaceAcknowledged

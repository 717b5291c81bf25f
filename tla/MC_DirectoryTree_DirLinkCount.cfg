CONSTANTS
  Paths <- MCPaths
  RootPath <- MCRoot
  MaxNodes = 8
  NoNode = NoNode
  MTimes = {1}
SPECIFICATION Spec
INVARIANT DirLinkCount

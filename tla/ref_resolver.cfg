SPECIFICATION RSpec
CONSTANTS
  PropertyNames = {"p", "q"}
  Definitions = {"A", "B"}
  Dangling = "Z"
  MaxDepth = 3
  Nodes <- MCNodes
  Height <- MCHeight
  Nesting = 3
  Roots <- MCRoots
  Bodies <- MCBodies
INVARIANTS
  RefusedExactly
  MergeKeepsMeaning
CHECK_DEADLOCK FALSE

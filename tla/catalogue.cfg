SPECIFICATION CSpec
CONSTANTS
  Alphabet <- MCAlphabet
  Width <- MCWidth
  Lower <- MCLower
  Registries <- MCRegistries
  Filters <- MCFilters
  Requests <- MCRequests
  Calls <- MCCalls
  DescribedIds <- MCDescribed
  DescLimit = 8
  MaxLines = 2
INVARIANTS
  EachModuleOnOneList
  OrderAsAsked
  GlobsAsDocumented
  DescriptionsFit

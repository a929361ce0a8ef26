SPECIFICATION SSpec
CONSTANTS
  Paths = {p1, p2}
  Names = {"m", "n", "sys"}
  SystemName = "sys"
  AclRoots = {"/a", "/b", "./acl"}
  Contents <- MCContents
  Yamls <- MCYamls
  Worlds <- MCWorlds
  MaxEdits = 1
INVARIANTS
  SettledModulesAgree
  AclFailsClosed
  GroupAsConfigured
CHECK_DEADLOCK FALSE

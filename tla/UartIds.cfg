\* Three devices probed and removed concurrently; fewer free numbers than devices.
CONSTANTS
  d1 = d1
  d2 = d2
  d3 = d3
  NoId = NoId
  Null = Null
  Freed = Freed
  Devices <- ThreeDevices
  MaxId = 3
  Alias <- Alias3
  AliasIds <- AliasIds3
  Requested <- Alias3
  ConsoleId = 0
  Threads = 3
SPECIFICATION Spec
INVARIANTS
  TypeOK
  UniqueIds
  NoLeakedIds
  ConflictOnlyInRemove
PROPERTY ImplementsIdPool
CHECK_DEADLOCK FALSE

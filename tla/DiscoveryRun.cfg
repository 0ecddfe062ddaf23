SPECIFICATION FairDiscovery
CONSTANTS
  flp1 = flp1
  flp10 = flp10
  b1 = b1
  twin = twin
  sched1 = sched1
  sched2 = sched2
  p1 = p1
  p2 = p2
  Processes = {b1, twin, flp1}
  Key <- KeyOf
  Erases <- ErasedWith
  Checked = {b1, twin}
  PartitionOf <- AllInP1
  Crashing = {b1}
  Schedulers = {sched1}
  Requests <- InvalidThenValid
  Values = {"v1"}
  StoredFirst = {"v1"}
  MaxFailures = 1
INVARIANTS
  RequestsAreNotMixed
PROPERTIES
  
  RequestsAreServed
  LookingEnds
  ConfiguredValueIsUsed
CHECK_DEADLOCK FALSE

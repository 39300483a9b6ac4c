SPECIFICATION FairSpec
CONSTANTS
  VMs = {v1, v2}
  MaxEvents = 1
INVARIANTS
  WorkersOfLastScan
PROPERTIES
  ClosedOnlyIfGone
  ServedIfListenWorks
  ClosedIfGone

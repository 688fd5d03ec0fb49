SPECIFICATION FairSpec
CONSTANTS
  Sandboxes = {s1, s2}
INVARIANTS
  TypeOK
  AliveIsOwned
  EntryIsWatched
  WatchedIsCleaned
  FailureUndone
PROPERTIES
  ImplementsVM
  EveryVMEnds
CHECK_DEADLOCK FALSE

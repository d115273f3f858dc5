\* Nothing is assumed of the pace or the interleaving of the two threads.
CONSTANTS
  N = 6
  Window = 3
  MaxArrived = 16
  MaxTaken = 16
SPECIFICATION FairSpec
INVARIANTS IInv Fifo TornReadOnlyAtStart
PROPERTIES ImplementsQueue AllButNewestTaken
CHECK_DEADLOCK FALSE

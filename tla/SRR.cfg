SPECIFICATION Spec
CONSTANTS
  Names = {0, 1, 2}
  Legacy = 0
  Modules = {m1, m2, m3}
  MaxReplacements = 2
INVARIANTS RegistryInv MeetUnlessSharedLate OrderUntilReplaced
PROPERTY QueueStays
CHECK_DEADLOCK FALSE

SPECIFICATION Spec
CONSTANTS
  s1 = s1
  s2 = s2
  a1 = a1
  a2 = a2
  Slots <- TwoSlots
  Approvals <- TwoApprovals
  TaskRetries = 1
  SlotRetries = 1
  MaxBatches = 3
  MaxLosses = 1
SYMMETRY Symmetry
INVARIANTS TypeOK OneCalendar SlotsQueued VoiceCounted

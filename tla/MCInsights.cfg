SPECIFICATION FairSpec
CONSTANTS
  a1 = a1
  a2 = a2
  p1 = p1
  p2 = p2
  Accounts <- TwoAccounts
  Posts <- TwoPosts
  AccountOf <- Owner
  SlotOf <- Published
  Hours = 2
INVARIANTS TypeOK NextIsNext
PROPERTIES SlotsLearned

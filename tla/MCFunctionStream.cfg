SPECIFICATION Spec
CONSTANTS
  i1 = i1
  i2 = i2
  i3 = i3
  c1 = c1
  c2 = c2
  c3 = c3
  Absent = Absent
  ItemIds <- MCItemIds
  CallIds <- MCCallIds
  Locators <- MCLocators
  OtherLocators <- MCOtherLocators
  ReservedItems = {i3}
  ReservedCalls = {c3}
  MaxCalls = 2
  MaxSearches = 1
  MaxFrames = 5
INVARIANTS
  TypeOK
  CallsCommitted
  ToldOnce
  CallsDistinct
  AsAnnounced
SYMMETRY CallSymmetry
CHECK_DEADLOCK FALSE

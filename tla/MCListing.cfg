\* Rows in pages of one and two, seconds of two ticks.
SPECIFICATION Spec
CONSTANTS
  MaxRows = 3
  MaxTime = 2
  LateRows = {2}
  Ticks = 2
  DefaultPageSize = 1
  PageSizes = {0, 2}
  Windows <- SomeWindows
  PhoneOf <- TwoPhones
  PhoneSets <- NoneOrOne
INVARIANTS
  TypeOK
  NoRowTwice
  CreationListingComplete
  TimeListingGaps
  UnorderedListingEnds
PROPERTIES
  ShownWasAllowed
CHECK_DEADLOCK FALSE

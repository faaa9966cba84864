SPECIFICATION FairSpec
CONSTANTS
  Types = {"spot", "futures"}
  Keys = {"s", "p"}
  TypeOf <- MCTypeOf
  Column <- MCColumn
  MaxEdits = 2  MaxFaults = 1
CHECK_DEADLOCK FALSE
INVARIANT TypeOK
PROPERTIES Subscribed

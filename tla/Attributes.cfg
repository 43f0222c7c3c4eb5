SPECIFICATION Spec
CONSTANTS
  key = key
  otherKey = otherKey
  longKey = longKey
  trusted = trusted
  NoData = NoData
  Cut = Cut
  RootNote = RootNote
  Empty = ""
  Custom <- Custom_two
  Foreign <- Foreign_one
  Values <- Values_all
  Dates <- Dates_two
  NameLength <- NameLength_all
  ValueLength <- ValueLength_all
  ListLength <- ListLength_all
  Sizes <- Sizes_all
  OtherNotes <- AnyNote
  SetRequests <- AnySet
  RemoveRequests <- AnyRemoval
  GetRequests <- AnyGet
CHECK_DEADLOCK FALSE
INVARIANT TypeOK
PROPERTY KeepsAttributes

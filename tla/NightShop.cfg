\* A worker that was cancelled while it holds two shelves stops the shop.
CHECK_DEADLOCK FALSE
SPECIFICATION FairSpec
CONSTANTS
  N = 3
  Employees = 2
  Nights = {{"INT", "ALRM"}, {"INT", "USR2"}, {"USR1", "USR2"}}
INVARIANTS
  ProductsStay
  BlockedOnlyByCancel
PROPERTIES
  OrderImproves
  CancelsLiveThread
  ShiftEnds

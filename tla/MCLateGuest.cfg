SPECIFICATION PartySpec
CONSTANTS
  Uploads = {1}
  HostDevice = h
  Early = {a}
  Late = {b}
  PickList <- OneSong
  Limits <- OneMix
  NoTitle = NoTitle
INVARIANT LateGuestSynced
CHECK_DEADLOCK FALSE

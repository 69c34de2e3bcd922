SPECIFICATION PartyFairSpec
CONSTANTS
  Uploads = {1, 2, 3}
  HostDevice = h
  Early = {a}
  Late = {b}
  PickList <- TwoSongs
  Limits <- Mixes
  NoTitle = NoTitle
INVARIANT ServedSong
PROPERTY Settles
CHECK_DEADLOCK FALSE

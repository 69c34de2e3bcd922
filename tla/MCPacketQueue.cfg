SPECIFICATION Spec
CONSTANTS
  Producers = {p1, p2}
  Consumers = {c1, c2}
  Clearers = {k1}
  Capacity = 2
  Modulus = 6
  MaxPackets = 4
  Nobody = Nobody
SYMMETRY Symmetry
INVARIANTS
  LengthAccounting
  ExactlyOnce
PROPERTY
  ImplementsBoundedFifo

SPECIFICATION Spec
CONSTANTS
  bob = bob
  m1 = m1
  m2 = m2
  altered = altered
  Me = me
  Peers = {bob}
  NoPeer = NoPeer
  Workers = {w1, w2}
  Messages = {m1, m2, altered}
  From <- FromBob
  Wire <- WireFields
  MaxSends = 2
  MaxArrivals = 2
  MaxFaults = 1
PROPERTIES
  OutOfOrderRejected
CHECK_DEADLOCK FALSE

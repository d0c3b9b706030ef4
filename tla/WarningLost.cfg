SPECIFICATION Spec
CONSTANTS
  me = me
  p1 = p1
  i1 = i1
  o1 = o1
  w1 = w1
  w2 = w2
  Me = me
  Peers = {p1}
  NoPeer = NoPeer
  Incoming = {i1}
  Outgoing = {o1}
  With <- MCWith
  Workers = {w1, w2}
  MaxKeys <- MCMaxKeys
  MaxQueue = 1
  MaxFaults = 0
PROPERTY
  ChangeIsWarned
CHECK_DEADLOCK FALSE

\* An Android phone that connects once, one session.
CONSTANTS
  p1 = p1
  ch1 = ch1
  ch2 = ch2
  s1 = s1
  s2 = s2
  NoChannel = NoChannel
  Sessions = {s1}
  Channels = {ch1}
  Clients = {p1}
  Android = {p1}
  Owner <- OnePhone
SPECIFICATION Spec
INVARIANT AndroidFollows
CHECK_DEADLOCK FALSE

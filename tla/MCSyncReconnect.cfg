\* An iOS phone that may reconnect once, one session.
CONSTANTS
  p1 = p1
  ch1 = ch1
  ch2 = ch2
  s1 = s1
  s2 = s2
  NoChannel = NoChannel
  Sessions = {s1}
  Channels = {ch1, ch2}
  Clients = {p1}
  Android = {}
  Owner <- OnePhone
SPECIFICATION FairSpec
INVARIANT TypeOK
INVARIANT NoSessionMissed
INVARIANT NoGhostSession
INVARIANT ListComesFirst
PROPERTY EventuallyShown
CHECK_DEADLOCK FALSE

SPECIFICATION Spec
CONSTANTS
  m1 = m1
  m2 = m2
  m3 = m3
  m4 = m4
  x1 = x1
  s1 = s1
  s2 = s2
  u = u
  ra = ra
  rb = rb
  rc = rc
  rd = rd
  h1 = h1
  h2 = h2
  h3 = h3
  p1 = p1
  p2 = p2
  Calls = {m1, m2, m3, m4}
  Keys = {s1, s2}
  KeyOf <- MCKeyOf
  PerMin = 2
  Window = 2
  MaxDelay = 1
  MaxTime = 3
  Relays = {ra, rb, rc, rd}
  RelayID <- MCRelayID
  Listens <- MCListens
  NoHost = NoHost
  NoPort = NoPort
  DefaultPort = p80
  Home <- MCHome
  Foreign = {x1}
  Payload <- MCPayload
INVARIANTS FedTypeOK WindowBudget AtMostOnce RightMailbox RepliesReachSender ForwardedIsTaken
PROPERTY RefusedOnlyIfSpent
CHECK_DEADLOCK FALSE

SPECIFICATION Spec
CONSTANTS
  Req = {q1, q2, q3, q4, q5}
  Token = {t1, t2, t3}
  alice = alice
  bob = bob
  p1 = p1
  p2 = p2
  guest = guest
  reader = reader
  writer = writer
  Name = {alice, bob}
  Pass = {p1, p2}
  Perms = {guest, reader, writer}
  NoUser = NoUser
  NoToken = NoToken
  Configs <- SomeConfigs
  MaxBoots = 1
SYMMETRY Symmetric
INVARIANTS TypeOK
PROPERTIES LoggedOutStaysOut SameGrant OnlyOwnersEnd

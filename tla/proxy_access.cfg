SPECIFICATION Spec
CONSTANTS
  r1 = r1
  r2 = r2
  c1 = c1
  c2 = c2
  c3 = c3
  NoCred = NoCred
  First = c1
  Legacy = {c1}
  Creds = {c1, c2, c3}
  Requests = {r1, r2}
  Rotatable = {c1}
  MaxRotations = 1
  TTL = 1
  RefreshMax = 1
  MaxRotated = 2
  MaxTime = 3
INVARIANTS TypeOK GrantsAreFresh LostAccessIsAccountedFor CountedRotationsHappened
PROPERTY RevokedIsForGood
SYMMETRY Symmetry
CHECK_DEADLOCK FALSE

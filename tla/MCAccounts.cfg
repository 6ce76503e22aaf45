SPECIFICATION Spec
CONSTANTS
  r1 = r1
  r2 = r2
  r3 = r3
  t1 = t1
  t2 = t2
  Users = {u1, u2}
  External = {u2}
  Requests = {r1, r2, r3}
  Tokens = {t1, t2}
  Concurrency = 2
  MaxFailures = 2
  MaxPasswords = 2
INVARIANTS
  SessionsOfActive
  
SYMMETRY Symmetry

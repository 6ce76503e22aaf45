SPECIFICATION Spec
CONSTANTS
  r1 = r1
  r2 = r2
  s1 = s1
  s2 = s2
  p1 = p1
  p2 = p2
  Records = {r1}
  Shares = {s1, s2}
  Pictures = {p1}
  Session = session
  NoPicture = NoPicture
  Width = 2
INVARIANTS
  
  SharesKeepPictures
SYMMETRY Symmetry

\* Two emitters on separate paths, one slow client that resumes.
CONSTANTS
  c1 = c1
  c2 = c2
  s1 = s1
  s2 = s2
  a = a
  b = b
  v1 = v1
  v2 = v2
  Unset = Unset
  Callers <- TwoCallers
  Subs = {s1}
  Paths <- TwoPaths
  Values <- TwoValues
  Owned <- OwnsApart
  Setters <- Nobody
  Faulty <- Nobody
  Resuming = {s1}
  SwitchesAway = FALSE
  OutCap = 2
  ReplayCap = 2
  MaxSeq = 5
SPECIFICATION Spec
INVARIANTS TypeOK NoGap Converged
SYMMETRY Symmetric

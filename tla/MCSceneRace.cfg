\* Two emitters of the same path.
CONSTANTS
  c1 = c1
  c2 = c2
  s1 = s1
  s2 = s2
  a = a
  b = b
  v1 = v1
  v2 = v2
  Unset = Unset
  Callers <- TwoCallers
  Subs = {s1}
  Paths <- OnePath
  Values <- TwoValues
  Owned <- OwnsAll
  Setters <- Nobody
  Faulty <- Nobody
  Resuming <- Nobody
  SwitchesAway = FALSE
  OutCap = 2
  ReplayCap = 2
  MaxSeq = 4
SPECIFICATION Spec
INVARIANT Converged

\* One caller that seeds, emits and fails half way; the live endpoint may leave; no resume.
CONSTANTS
  c1 = c1
  c2 = c2
  s1 = s1
  s2 = s2
  a = a
  b = b
  v1 = v1
  v2 = v2
  Unset = Unset
  Callers <- OneCaller
  Subs = {s1}
  Paths <- TwoPaths
  Values <- OneValue
  Owned <- OwnsAll
  Setters = {c1}
  Faulty = {c1}
  Resuming <- Nobody
  SwitchesAway = TRUE
  OutCap = 2
  ReplayCap = 2
  MaxSeq = 4
SPECIFICATION FairSpec
INVARIANT Converged
PROPERTY Delivered

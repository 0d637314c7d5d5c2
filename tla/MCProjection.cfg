\* Two emitters with revisions of their own, one of which also seeds; one client
\* that resumes, a queue and a window shorter than the history.
CONSTANTS
  c1 = c1
  c2 = c2
  s1 = s1
  a = a
  v1 = v1
  m1 = m1
  m2 = m2
  Unset = Unset
  Nil = Nil
  Callers <- TwoCallers
  Subs = {s1}
  Paths = {a}
  Values = {v1}
  Owned <- OwnsAll
  Revision <- Revisions
  Setters = {c1}
  Faulty = {}
  Resuming = {s1}
  SwitchesAway = FALSE
  OutCap = 2
  ReplayCap = 2
  MaxSeq = 5
SPECIFICATION ProjectionSpec
INVARIANT IdentityMatchesNumber

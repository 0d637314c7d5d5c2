\* Inputs, answers, pings and every way a session ends.
CONSTANTS
  x = x
  y = y
  in1 = in1
  in2 = in2
  bad = bad
  ping = ping
  pong = pong
  bye = bye
  again = again
  junk = junk
  None = None
  Captured = x
  Other = y
  Msgs <- MCMsgs
  Sessions <- MCSessions
  Kind <- Kinded
  TracksErrors = FALSE
  OutCap = 2
SPECIFICATION FairSpec
INVARIANTS ClientCurrent AnswersInOrder
PROPERTIES DirectAnswered SessionEnds
CHECK_DEADLOCK FALSE

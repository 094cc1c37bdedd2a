SPECIFICATION PromisesSpec
CONSTANTS
  cx = cx
  cy = cy
  m1 = m1
  m2 = m2
  m3 = m3
  Chan <- Chans
  Cap <- Caps
  Msg <- Msgs
  ta = ta
  tb = tb
  Guji = Guji
  Err = Err
  Task <- Tasks
  PipeMax = 1
  Amounts <- Writes
  Chunk = 1
  Failures = TRUE
INVARIANTS
  Once
  AnswersStand
  Outcome
  NothingLeft
PROPERTY
  EveryRunReturns

SPECIFICATION PartsSpec
CONSTANTS
  tm = tm
  ta = ta
  c1 = c1
  c2 = c2
  s1 = s1
  s2 = s2
  f1 = f1
  Main = tm
  Null = Null
  Task <- Tasks
  Var <- Vars
  Chan <- TwoChans
  Text <- TwoTexts
  Closure <- OneFn
  Slots = 1
  Budget <- Shared
  Rebinds <- OnlyX
  SelfRebind = FALSE
  FnCapture = FALSE
  Leader = Leader
  Helper = Helper
  PipeRoom = 2
  Limit = 2
  InputLen = 1
  MaxSaid <- Sayings
  Faults = TRUE
INVARIANTS
  NoUseAfterFree
  TaskLocal
  NothingLeaks
  ReportHonest
PROPERTY
  CaptureEnds
\* Tasks that block for ever end in a panic: see GujiConc.
CHECK_DEADLOCK FALSE

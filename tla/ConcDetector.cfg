SPECIFICATION FairSpec
CONSTANTS
  tm = tm
  ta = ta
  tb = tb
  td = td
  te = te
  cx = cx
  cy = cy
  Main = tm
  NoTask = NoTask
  NoMsg = NoMsg
  Task <- TwoTasks
  Chan <- TwoChans
  Cap <- XRing1
  Msg <- Msgs1
  MaxMsg = 1
  Programs <- Idler
  Prompt = TRUE
  Spurious = FALSE
PROPERTIES
  DeadlockDetected

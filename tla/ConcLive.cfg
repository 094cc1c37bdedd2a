SPECIFICATION FairSpec
CONSTANTS
  tm = tm
  ta = ta
  tb = tb
  td = td
  te = te
  cx = cx
  cy = cy
  Main = tm
  NoTask = NoTask
  NoMsg = NoMsg
  Task <- ThreeTasks
  Chan <- OneChan
  Cap <- Rendezvous
  Msg <- Msgs2
  MaxMsg = 2
  Programs <- Few
  Prompt = TRUE
  Spurious = FALSE
PROPERTIES
  LoneWindowPanics
  SelectSendEnds

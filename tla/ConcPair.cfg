SPECIFICATION Spec
CONSTANTS
  tm = tm
  ta = ta
  tb = tb
  td = td
  te = te
  cx = cx
  cy = cy
  Main = tm
  NoTask = NoTask
  NoMsg = NoMsg
  Task <- TwoTasks
  Chan <- OneChan
  Cap <- Rendezvous
  Msg <- Msgs1
  MaxMsg = 1
  Programs <- Pair
  Prompt = TRUE
  Spurious = FALSE
PROPERTIES
  NothingLeftToDo

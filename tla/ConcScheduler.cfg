SPECIFICATION Spec
CONSTANTS
  tm = tm
  ta = ta
  tb = tb
  td = td
  te = te
  cx = cx
  cy = cy
  Main = tm
  NoTask = NoTask
  NoMsg = NoMsg
  Task <- FiveTasks
  Chan <- TwoChans
  Cap <- Rendezvous
  Msg <- Msgs2
  MaxMsg = 2
  Programs <- Schedules
  Prompt = TRUE
  Spurious = FALSE
INVARIANTS
  Accounting
  WaitersCounted
  NoLostSelect
  Watched
  Reaped
PROPERTIES
  ExitStands
  PanicSound

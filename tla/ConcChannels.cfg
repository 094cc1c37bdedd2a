SPECIFICATION Spec
CONSTANTS
  tm = tm
  ta = ta
  tb = tb
  td = td
  te = te
  cx = cx
  cy = cy
  Main = tm
  NoTask = NoTask
  NoMsg = NoMsg
  Task <- ThreeTasks
  Chan <- TwoChans
  Cap <- YRing2
  Msg <- Msgs3
  MaxMsg = 3
  Programs <- Channels
  Prompt = TRUE
  Spurious = TRUE
INVARIANTS
  TypeOK
  OneOffer
  OnePlace
  NoLostWakeup
PROPERTIES
  ChannelPromise

SPECIFICATION Spec
CONSTANTS
  tm = tm
  ta = ta
  c1 = c1
  c2 = c2
  s1 = s1
  s2 = s2
  f1 = f1
  Main = tm
  Null = Null
  Task <- Tasks
  Var <- Vars
  Chan <- OneChan
  Text <- OneText
  Closure <- OneFn
  Slots = 1
  Budget <- Closures
  Rebinds <- NoVars
  SelfRebind = FALSE
  FnCapture = TRUE
INVARIANTS
  TaskLocal
\* Tasks that block for ever end in a panic: see GujiConc.
CHECK_DEADLOCK FALSE

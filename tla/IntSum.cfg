SPECIFICATION Spec
CONSTANTS
  IntMax = 15
  Panic = Panic
  Minus = Minus
  Plus = Plus
  Space = Space
  Nul = Nul
  Letter = Letter
  Err = Err
  Input <- WithFifth
INVARIANTS
  SumExact

SPECIFICATION LibrarySpec
CONSTANTS
  IntMax = 15
  Panic = Panic
  Minus = Minus
  Plus = Plus
  Space = Space
  Nul = Nul
  Letter = Letter
  Unparsed = Unparsed
  FILE = {f, g}
  Stdin = Stdin
  Handle = {h, i}
  CapMin = 2
  MaxCalls = 3
  Absent = Absent
  Ok = Ok
  Failure = Failure
  Content <- MCContent
  Typed <- MCTyped
  RegexWork <- MCRegexWork
  ValueWork <- MCValueWork
INVARIANTS
  Exact
  EveryOnce
  ParsedRight
  ParsedBack
  FirstMatch
  HostCaptures
  ReplacedAll
  TextRepaired
  RunesAgree
  PiecesMeant
  CopyStands
  NothingKept
  EqualAsMeant
  Reported
  NoStreamLeft
PROPERTIES
  EveryCallReturns

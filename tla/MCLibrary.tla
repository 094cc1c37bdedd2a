----------------------------- MODULE MCLibrary ------------------------------
(* One call of a function of the runtime's library: an integer operation, a *)
(* range loop, parse_int, an operation on a regular expression, text that   *)
(* comes from outside, split or lines, a copy or a comparison of values; or *)
(* some calls with a file and handles.                                      *)
(* Only the part that is called works.                                      *)
EXTENDS GujiRange, GujiFile, TLC

CONSTANTS Minus, Plus, Space, Nul, Letter, Unparsed,
          RegexWork, ValueWork   \* MCRegexWork and MCValueWork

\* What is written to a file, and what comes from standard input.
MCContent == {<<>>, <<1, 2, 3>>}
MCTyped == <<1, 2>>

\* Short Strs around the ends of a five-bit integer, -16 to 15.
Alphabet  == {0, 1, 5, 6, Minus, Plus, Space, Nul, Letter}
UptoFour  == UNION {[1 .. k -> Alphabet] : k \in 0 .. 4}
WithFifth == UptoFour \cup {s \o <<d>> : s \in [1 .. 4 -> {0, 1, 6, Minus, Space}], d \in {5, 6, Space}}

\* Bytes around the borders of the forms of UTF-8, up to three of them, and four
\* after a byte that begins a long form.
Bytes    == {65, 128, 144, 160, 191, 194, 224, 237, 240, 244, 245}
FromBytes == UNION {[1 .. k -> Bytes] : k \in 0 .. 3}
             \cup {<<lead>> \o rest : lead \in {224, 240, 244},
                                     rest \in [1 .. 3 -> {65, 128, 144, 160, 191, 194, 244}]}

Words(letters, n) == UNION {[1 .. k -> letters] : k \in 0 .. n}
TextCalls == [op : {"split"}, s : Words({"a", "b"}, 6), sep : Words({"a", "b"}, 3) \ {<<>>}]
             \cup [op : {"lines"}, s : Words({"a", "CR", "LF"}, 6)]

VARIABLES part,      \* the part that is called
          aPc, aOp, aLeft, aRight, aResult, aBase, aExp,
          pStage, pStr, pRest, pNeg, pVal, pRes,
          xRequest, xStage, xCompiled, xMachine, xTrying, xReplacing, xAnswer,
          uInput, uAt, uPos, uOut, uChars,
          tCall, tTurn, tStart, tPieces,
          vHeap, vWork, vNow, vOriginal, vCopy, vResult

Arith == INSTANCE GujiArith WITH pc <- aPc, op <- aOp, a <- aLeft, b <- aRight, result <- aResult,
                                 base <- aBase, exp <- aExp
Parse == INSTANCE GujiParse WITH Input <- WithFifth, Err <- Unparsed, stage <- pStage, str <- pStr, rest <- pRest,
                                 neg <- pNeg, val <- pVal, res <- pRes
RegexRequests == INSTANCE RegexCalls
Regex == INSTANCE GujiRegex WITH Requests <- RegexWork, request <- xRequest, stage <- xStage,
                                 compiled <- xCompiled, machine <- xMachine, trying <- xTrying,
                                 replacing <- xReplacing, answer <- xAnswer
Utf8 == INSTANCE GujiUtf8 WITH External <- FromBytes, input <- uInput, at <- uAt, pos <- uPos, out <- uOut,
                               chars <- uChars
Splits == INSTANCE GujiText WITH TextCall <- TextCalls, CR <- "CR", LF <- "LF", call <- tCall, turn <- tTurn,
                               start <- tStart, pieces <- tPieces
ValueTerms == INSTANCE ValueCalls WITH Work <- {}, heap <- vHeap, work <- vWork, now <- vNow,
                                   original <- vOriginal, copy <- vCopy, result <- vResult
Values == INSTANCE GujiValue WITH Work <- ValueWork, heap <- vHeap, work <- vWork, now <- vNow,
                                  original <- vOriginal, copy <- vCopy, result <- vResult
MCRegexWork == RegexRequests!AllRequests
MCValueWork == ValueTerms!AllWork

arith == <<aPc, aOp, aLeft, aRight, aResult, aBase, aExp>>
parse == <<pStage, pStr, pRest, pNeg, pVal, pRes>>
regex == <<xRequest, xStage, xCompiled, xMachine, xTrying, xReplacing, xAnswer>>
utf8 == <<uInput, uAt, uPos, uOut, uChars>>
text == <<tCall, tTurn, tStart, tPieces>>
values == <<vHeap, vWork, vNow, vOriginal, vCopy, vResult>>
library == <<part, arith, rangeVars, parse, regex, utf8, text, values, fileVars>>

NoArith ==
  aPc = "off" /\ aOp = "add" /\ aLeft = 0 /\ aRight = 0 /\ aResult = 1 /\ aBase = 0 /\ aExp = 0
NoRange ==
  /\ rangeAt = "off" /\ halfOpen = FALSE /\ rangeFrom = 0 /\ rangeTo = 0
  /\ loopLo = 0 /\ loopHi = 0 /\ counter = 0 /\ seen = <<>>
NoParse ==
  /\ pStage = "off" /\ pStr = <<>>
  /\ pRest = <<>> /\ pNeg = FALSE /\ pVal = 0 /\ pRes = 0
NoRegex  == Regex!NoRegex
NoUtf8   == uInput = <<>> /\ uAt = "off" /\ uPos = 0 /\ uOut = <<>> /\ uChars = <<>>
NoText   == tCall = [op |-> "none"] /\ tTurn = "off" /\ tStart = 0 /\ tPieces = <<>>
NoValues == /\ vHeap = <<>> /\ vWork = [op |-> "none"] /\ vNow = "off"
            /\ vOriginal = 0 /\ vCopy = <<>> /\ vResult = Values!Empty
NoFile   == disk = Absent /\ NoCalls("off")

LibraryInit ==
  \/ part = "arith" /\ Arith!ArithInit /\ NoRange /\ NoParse /\ NoRegex /\ NoUtf8 /\ NoText /\ NoValues /\ NoFile
  \/ part = "range" /\ NoArith /\ RangeInit /\ NoParse /\ NoRegex /\ NoUtf8 /\ NoText /\ NoValues /\ NoFile
  \/ part = "parse" /\ NoArith /\ NoRange /\ Parse!ParseInit /\ NoRegex /\ NoUtf8 /\ NoText /\ NoValues /\ NoFile
  \/ part = "regex" /\ NoArith /\ NoRange /\ NoParse /\ Regex!RegexInit /\ NoUtf8 /\ NoText /\ NoValues /\ NoFile
  \/ part = "utf8" /\ NoArith /\ NoRange /\ NoParse /\ NoRegex /\ Utf8!Utf8Init /\ NoText /\ NoValues /\ NoFile
  \/ part = "text" /\ NoArith /\ NoRange /\ NoParse /\ NoRegex /\ NoUtf8 /\ Splits!TextInit /\ NoValues /\ NoFile
  \/ part = "values" /\ NoArith /\ NoRange /\ NoParse /\ NoRegex /\ NoUtf8 /\ NoText /\ Values!ValueInit /\ NoFile
  \/ part = "file" /\ NoArith /\ NoRange /\ NoParse /\ NoRegex /\ NoUtf8 /\ NoText /\ NoValues /\ FileInit

\* The call has returned, or the program has ended.
Stopped ==
  \/ part = "regex" /\ ~Regex!Working
  \/ part = "utf8" /\ uAt = "done"
  \/ part = "text" /\ tTurn = "done"
  \/ part = "values" /\ vNow = "done"
  \/ part = "file" /\ call.stage \in {"idle", "panic"}

LibraryNext ==
  /\ UNCHANGED part
  /\ \/ part = "arith" /\ Arith!ArithNext /\ UNCHANGED <<rangeVars, parse, regex, utf8, text, values, fileVars>>
     \/ part = "range" /\ RangeNext /\ UNCHANGED <<arith, parse, regex, utf8, text, values, fileVars>>
     \/ part = "parse" /\ Parse!ParseNext /\ UNCHANGED <<arith, rangeVars, regex, utf8, text, values, fileVars>>
     \/ part = "regex" /\ Regex!RegexNext /\ UNCHANGED <<arith, rangeVars, parse, utf8, text, values, fileVars>>
     \/ part = "utf8" /\ Utf8!Utf8Next /\ UNCHANGED <<arith, rangeVars, parse, regex, text, values, fileVars>>
     \/ part = "text" /\ Splits!TextNext /\ UNCHANGED <<arith, rangeVars, parse, regex, utf8, values, fileVars>>
     \/ part = "values" /\ Values!ValueNext /\ UNCHANGED <<arith, rangeVars, parse, regex, utf8, text, fileVars>>
     \/ part = "file" /\ FileNext /\ UNCHANGED <<arith, rangeVars, parse, regex, utf8, text, values>>
     \/ Stopped /\ UNCHANGED library

LibrarySpec == LibraryInit /\ [][LibraryNext]_library /\ Regex!RegexFairness

-----------------------------------------------------------------------------
(* The properties of the parts.                                            *)

Exact == Arith!Exact
ParsedRight == Parse!ParsedRight
ParsedBack == Regex!ParsedBack
FirstMatch == Regex!FirstMatch
HostCaptures == Regex!HostCaptures
ReplacedAll == Regex!ReplacedAll
TextRepaired == Utf8!TextRepaired
RunesAgree == Utf8!RunesAgree
PiecesMeant == Splits!PiecesMeant
CopyStands == Values!CopyStands
NothingKept == Values!NothingKept
EqualAsMeant == Values!EqualAsMeant
EveryCallReturns == Regex!EveryCallReturns
=============================================================================

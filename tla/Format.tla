-------------------------------- MODULE Format --------------------------------
(***************************************************************************)
(* kprintf (kernel/common/io.c) and snprintf (print.c), which share their  *)
(* loop: each turn prints a run of plain text or converts one argument.    *)
(*                                                                         *)
(* A width ("%04d") is not read where its conversion is: the turn that     *)
(* prints the text before it looks ahead, notes the width and steps over   *)
(* all of "%04" but one character, which the next turn takes for the %.    *)
(* The turn that begins a format looks at its first two characters only.   *)
(***************************************************************************)
EXTENDS Numbers, FiniteSets

CONSTANTS Calls       \* calls: device, size of the buffer, tokens of the format, arguments

VARIABLES call,       \* the call in progress
          fmt,        \* the rest of its format
          used,       \* words of the argument list consumed
          written,    \* what the code counts as written, skipped format included
          real,       \* snprintf's writtenReal
          lead,       \* leadingNumberChar
          width,      \* leadingNumberCount
          out,        \* characters that reached the screen, the port or the buffer
          ended,      \* snprintf stored its terminator
          ret         \* what the call returned, or None while it runs

formatVars == <<call, fmt, used, written, real, lead, width, out, ended, ret>>

None == -2                 \* no call answers it
EOFChar == "byte 255"
Buffered == call.device = "buffer"

FormatInit ==
  /\ call \in Calls /\ fmt = FlattenSeq(call.tokens)
  /\ used = 0 /\ written = 0 /\ real = 0 /\ lead = NUL /\ width = 0
  /\ out = <<>> /\ ended = FALSE /\ ret = None

------------------------------------------------------------------------------
(* Output *)

At(f, i) == IF i < Len(f) THEN f[i + 1] ELSE NUL
Least(a, b) == IF a < b THEN a ELSE b
Drop(f, n) == SubSeq(f, n + 1, Len(f))

(* _kprint and _dsprint stop after byte 255, snprintf_cpy where only the    *)
(* terminator has room.                                                    *)
RoomToTheEnd(text) == real + Len(text) <= call.size     \* mutant: the last byte too
RoomFor(text) == real + Len(text) <= call.size - 1
Complete(text) == IF Buffered THEN RoomFor(text) ELSE ~Contains(text, EOFChar)
Shown(text) ==
  IF Complete(text) THEN text
  ELSE IF Buffered THEN SubSeq(text, 1, Least(Len(text), call.size - 1 - real))
       ELSE SubSeq(text, 1, CHOOSE i \in 1..Len(text) :
                              text[i] = EOFChar /\ \A j \in 1..i-1 : text[j] # EOFChar)

Emit(text, counted) ==
  /\ out' = out \o Shown(text)
  /\ written' = written + counted /\ real' = real + Len(text)

Fails(result, text) ==
  /\ out' = out \o Shown(text) /\ ret' = result
  /\ UNCHANGED <<call, fmt, used, written, real, lead, width, ended>>

------------------------------------------------------------------------------
(* Plain text *)

CustomAnywhere(f) == At(f, 1) \in Decimal             \* mutant: at every turn
isCustomFormat(f) == written = 0 /\ At(f, 1) \in Decimal

TakesText ==
  /\ written = 0 \/ width = 0
  /\ At(fmt, 0) # "%" \/ At(fmt, 1) = "%" \/ isCustomFormat(fmt)

(* The first character of %% is stepped over, except at the beginning.     *)
Stepped == IF written > 0 /\ At(fmt, 0) = "%" THEN Drop(fmt, 1) ELSE fmt
Run(f) ==                                   \* up to the next %, at least one
  LET stops == {n \in 1..Len(f) : n = Len(f) \/ f[n + 1] = "%"} IN
    CHOOSE n \in stops : \A k \in stops : n <= k
Amount(f) == IF isCustomFormat(f) THEN 0
             ELSE IF written > 0 THEN Run(f) ELSE 1

(* The digits after a "%0" that follows amount characters; 6 at most.      *)
HasWidth(f, amount) == At(f, amount) = "%" /\ At(f, amount + 1) = "0"
WidthDigits(f, amount) ==
  LET n == CHOOSE n \in 0..6 : /\ \A i \in 1..n : At(f, amount + 1 + i) \in Decimal
                               /\ n = 6 \/ At(f, amount + 2 + n) \notin Decimal
  IN SubSeq(f, amount + 3, amount + 2 + n)

Skipped(f, amount) == 1 + Len(WidthDigits(f, amount))

Literal ==
  LET f == Stepped
      amount == Amount(f)
      text == SubSeq(f, 1, amount)
      skip == IF HasWidth(f, amount) THEN Skipped(f, amount) ELSE 0 IN
    /\ ret = None /\ fmt # <<>> /\ TakesText
    /\ IF ~Complete(text) THEN Fails(IF Buffered THEN written ELSE -1, text)
       ELSE /\ Emit(text, amount + skip) /\ fmt' = Drop(f, amount + skip)
            /\ lead' = IF skip > 0 THEN "0" ELSE lead
            /\ width' = IF skip > 1 THEN atoi(WidthDigits(f, amount)) ELSE width
            /\ UNCHANGED <<call, used, ended, ret>>

------------------------------------------------------------------------------
(* Conversions *)

Arg(i) == IF i < Len(call.args) THEN call.args[i + 1] ELSE call.stack
Conversions == {"c", "s", "d", "i", "x", "X", "p", "u", "o"}

(* The words va_arg takes: kprintf reads %u as 64 bits.                    *)
WordsOf(c) == IF c = "u" /\ ~Buffered THEN 2 ELSE 1
Converted(c, i) ==
  CASE c = "c" -> <<call.char>>
    [] c = "s" -> call.str
    [] c \in {"d", "i"} -> itoa_s2(Arg(i), 10, lead, width)
    [] c = "x" -> itoa_s2(Arg(i), 16, lead, width)
    [] c = "X" -> LET text == itoa_s2(Arg(i), 16, lead, width) IN
                    IF Buffered THEN text ELSE kstr_toupper(text)
    [] c = "p" -> ultoa(Arg(i) % UINT, 16)
    [] c = "o" -> ultoa(Arg(i) % UINT, 8)
    [] c = "u" -> ultoa((Arg(i) % UINT) +
                        (IF Buffered THEN 0 ELSE UINT * (Arg(i + 1) % UINT)), 10)

NoWidth == lead' = NUL /\ width' = 0

\* Only snprintf, and kprintf of a number, look at what printing answers.
Convert ==
  LET c == At(fmt, 1) IN
    /\ ret = None /\ fmt # <<>> /\ ~TakesText /\ c \in Conversions
    /\ \E text \in {Converted(c, used)} :
         IF ~Complete(text) /\ (Buffered \/ c \notin {"c", "s"}) THEN Fails(-1, text)
         ELSE /\ Emit(text, Len(text)) /\ fmt' = Drop(fmt, 2)
              /\ used' = used + WordsOf(c) /\ NoWidth
              /\ UNCHANGED <<call, ended, ret>>

\* Anything else after the % prints all that is left of the format.
Rest ==
  /\ ret = None /\ fmt # <<>> /\ ~TakesText /\ At(fmt, 1) \notin Conversions
  /\ IF ~Complete(fmt) THEN Fails(-1, fmt)
     ELSE /\ Emit(fmt, Len(fmt)) /\ fmt' = <<>> /\ NoWidth
          /\ UNCHANGED <<call, used, ended, ret>>

\* snprintf ends the text if a byte is left for it and counts it anyway.
Finish ==
  /\ ret = None /\ fmt = <<>>
  /\ ended' = (Buffered /\ real < call.size - 1)
  /\ ret' = IF Buffered THEN real + 1 ELSE written
  /\ UNCHANGED <<call, fmt, used, written, real, lead, width, out>>

FormatNext == Literal \/ Convert \/ Rest \/ Finish

------------------------------------------------------------------------------
(* What the documentation of kprintf promises for a format: each token by    *)
(* itself, a conversion given the next argument.                           *)

Pad(text, n) == [i \in 1..(IF Len(text) < n THEN n - Len(text) ELSE 0) |-> "0"] \o text
Meaning(token, i) ==
  LET c == token[Len(token)]
      digits == SubSeq(token, 2, Len(token) - 1)
      number == ltoa(Arg(i), 10) IN
    CASE token[1] # "%" -> token
      [] token = <<"%", "%">> -> <<"%">>
      [] c = "d" -> IF number[1] = "-" THEN <<"-">> \o Pad(Tail(number), atoi(digits) - 1)
                    ELSE Pad(number, atoi(digits))
      [] c = "s" -> call.str
      [] c = "u" -> ultoa(Arg(i) % UINT, 10)
      [] c = "X" -> kstr_toupper(ultoa(Arg(i) % UINT, 16))

IsConversion(token) == token[1] = "%" /\ token # <<"%", "%">>
Before(i) == Cardinality({j \in 1..i-1 : IsConversion(call.tokens[j])})
Documented == FlattenSeq([i \in 1..Len(call.tokens) |-> Meaning(call.tokens[i], Before(i))])

(* What the code makes of other formats; each disjunct is one cause.       *)
Silent == {i \in 1..Len(call.tokens) :          \* nothing written before token i
             \A j \in 1..i-1 : call.tokens[j] = <<"%", "s">> /\ call.str = <<>>}
Second(i) ==
  LET ts == call.tokens IN
    IF Len(ts[i]) > 1 THEN ts[i][2] ELSE IF i < Len(ts) THEN ts[i + 1][1] ELSE NUL
Padded(token) == IsConversion(token) /\ Len(token) > 2

(* A digit as second character, if it is not the zero of a padded number.  *)
Hangs == \E i \in Silent :
           Second(i) \in Decimal /\ ~(IsConversion(call.tokens[i]) /\ Second(i) = "0")

(* Padding keeps a digit less of a negative number, and overwrites digits   *)
(* it has yet to move when both ends happen to be aligned.                 *)
LosesDigits(token, n) ==
  LET w == Written(n, 10)
      gap == ValueOf(token[Len(token) - 1]) - w IN
    gap > 0 /\ (n < 0 \/ (w >= Word /\ gap % Word = 0 /\ (Str + w - 1) % Word = 0))

Irregular ==
  LET ts == call.tokens IN
    \E i \in 1..Len(ts) :
      \/ ts[i] = <<"%", "%">> /\ i \in Silent                   \* its second % begins a conversion
      \/ Padded(ts[i]) /\ ts[i][2] # "0"                        \* a width that does not pad
      \/ Padded(ts[i]) /\ i \notin Silent /\ IsConversion(ts[i - 1])   \* nobody looked ahead
      \/ Padded(ts[i]) /\ LosesDigits(ts[i], Arg(Before(i)))
      \/ ts[i] = <<"%", "u">> /\ ~Buffered                      \* two words are read
      \/ ts[i] = <<"%", "X">> /\ Buffered                       \* prints small letters
      \/ ts[i] = <<"%", "s">> /\ ~Buffered /\ Contains(call.str, EOFChar)

------------------------------------------------------------------------------
(* A call that returns has printed what the documentation says, except for the *)
(* causes above; a buffer that is too small holds its beginning, filled up   *)
(* to the byte kept for the terminator, and the code never stores past it.   *)
FormatsAsDocumented ==
  /\ Buffered => Len(out) <= call.size - 1
  /\ ret # None /\ ~Irregular =>
       IF Buffered /\ Len(Documented) > call.size - 1
         THEN out = SubSeq(Documented, 1, call.size - 1) /\ ~ended
         ELSE /\ out = Documented
              /\ Buffered => ret = Len(out) + 1 /\ (ended <=> Len(out) < call.size - 1)

(* Every call returns, unless its format hangs: the look-ahead of the first   *)
(* turn keeps the loop where it is.                                        *)
Returns == ~Hangs ~> ret # None

FormatSpec == FormatInit /\ [][FormatNext]_formatVars /\ WF_formatVars(FormatNext)
==============================================================================

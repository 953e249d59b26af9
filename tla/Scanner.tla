-------------------------------- MODULE Scanner --------------------------------
(***************************************************************************)
(* The scanner over input that arrives in pieces (efterscript-vm,          *)
(* scanner.rs, and ChunkSource of source.rs).  Bytes are their codes.  A   *)
(* call takes bytes until it has a token, the end, an error, or no byte;   *)
(* all it keeps from one call to the next is in `reader`.                  *)
(***************************************************************************)
EXTENDS Integers, Sequences, SequencesExt, FiniteSets, FiniteSetsExt

CONSTANTS
    Texts,           \* the inputs
    Pieces,          \* sizes of the pieces they arrive in
    MaxProcDepth, MaxStringLen, MaxNameLen,
    MaxInt,          \* integers are -MaxInt - 1 .. MaxInt
    MaxDigits,       \* a real has at most this many digits before its point
    Base, GroupDigits, GroupBytes,   \* base 85: digits of a group, bytes it stands for
    Defined          \* what //name finds: name -> is the value a local composite

\* What is assumed of them, for the modules that instantiate this one.
ScannerParameters ==
    /\ {MaxProcDepth, MaxStringLen, MaxNameLen, MaxInt, MaxDigits, GroupBytes} \subseteq Nat
    /\ Base \in 2 .. 85 /\ GroupDigits = GroupBytes + 1
    /\ DOMAIN Defined \subseteq Seq(Nat)

VARIABLES
    text,      \* what the producer will send
    global,    \* VM mode: objects are allocated in global VM
    fed,       \* bytes sent
    reader,    \* the source, the scanner, the answer of the last call and its notes
    from       \* position where the token being scanned, or just scanned, was asked for

vars == <<text, global, fed, reader, from>>
-----------------------------------------------------------------------------
(* Bytes                                                                   *)

NUL == 0        BackSpace == 8   Tab == 9       LF == 10      FF == 12      CR == 13
Space == 32     Bang == 33       Hash == 35     Percent == 37 LParen == 40  RParen == 41
Plus == 43      Minus == 45      Dot == 46      Slash == 47   Zero == 48    Less == 60
Greater == 62   LBracket == 91   Backslash == 92 RBracket == 93 LBrace == 123 RBrace == 125
Tilde == 126    LowerZ == 122
NoByte == -1

Newlines == {CR, LF}
Whitespace == {Space, Tab, CR, LF, FF, NUL}
Delimiters == {LParen, RParen, Less, Greater, LBracket, RBracket, LBrace, RBrace, Slash, Percent}
IsRegular(b) == b \notin Whitespace \cup Delimiters \cup {NoByte}
Digits == 48 .. 57
OctalDigits == 48 .. 55
Exponents == {69, 101}      \* E e
BinaryLeads == 128 .. 159
A85Digits == 33 .. 117      \* ! .. u

NoDigit == 99
DigitValue(b) ==
    CASE b \in Digits -> b - 48
      [] b \in 97 .. 122 -> b - 87
      [] b \in 65 .. 90 -> b - 55
      [] OTHER -> NoDigit
HexValue(b) == IF DigitValue(b) < 16 THEN DigitValue(b) ELSE NoDigit
-----------------------------------------------------------------------------
(* Objects and answers                                                     *)

Object(kind, v) == [kind |-> kind, v |-> v, items |-> <<>>, local |-> FALSE]
Integer(n) == Object("integer", <<n>>)
RealOf(n, e) == Object("real", <<n, e>>)              \* n * 10^e, n no multiple of ten
Name(bytes) == Object("name", bytes)
Literal(bytes) == Object("literal", bytes)
String(bytes) == [Object("string", bytes) EXCEPT !.local = ~global]
Procedure(items) == [Object("array", <<>>) EXCEPT !.items = items, !.local = ~global]
Resolved(name) == [Object("value", name) EXCEPT !.local = Defined[name]]
NoObject == Object("none", <<>>)

Answer(what, object, span, byte) == [what |-> what, object |-> object, span |-> span, byte |-> byte]
NoAnswer == Answer("none", NoObject, <<0, 0>>, NoByte)
End == [NoAnswer EXCEPT !.what = "end"]
More == [NoAnswer EXCEPT !.what = "more"]
Token(object, span) == Answer("token", object, span, NoByte)
Errors == {"syntaxerror", "limitcheck", "undefined", "binary", "invalidaccess"}
-----------------------------------------------------------------------------
(* Numbers                                                                 *)

AllDigits(s) == \A k \in DOMAIN s : s[k] \in Digits
Decimal(s) == FoldLeft(LAMBDA v, b : 10 * v + (b - 48), 0, s)
IsSign(b) == b \in {Plus, Minus}
SplitSign(s) == IF s # <<>> /\ IsSign(Head(s)) THEN Tail(s) ELSE s
Signed(s, n) == IF s # <<>> /\ Head(s) = Minus THEN -n ELSE n
Before(s, k) == SubSeq(s, 1, k - 1)
After(s, k) == SubSeq(s, k + 1, Len(s))
First(s, S) == LET at == {k \in DOMAIN s : s[k] \in S} IN IF at = {} THEN 0 ELSE Min(at)

NotANumber == [is |-> "no", object |-> NoObject]
Number(object) == [is |-> "number", object |-> object]
TooLarge == [is |-> "limit", object |-> NoObject]

\* The conversion of the text of a real: n * 10^e, or no finite value.
Finite(s, n, e) ==
    LET zeros == IF n = 0 THEN 0 ELSE Max({k \in 0 .. 9 : n % (10 ^ k) = 0})
        m == n \div (10 ^ zeros)
        size == CHOOSE d \in 0 .. 9 : m < 10 ^ d /\ (d = 0 \/ m >= 10 ^ (d - 1))
    IN  CASE n = 0 -> Number(RealOf(0, 0))
          [] n # 0 /\ size + e + zeros > MaxDigits -> TooLarge
          [] n # 0 /\ size + e + zeros <= MaxDigits -> Number(RealOf(Signed(s, m), e + zeros))

ParseDecimal(s) ==
    LET digits == SplitSign(s)
        n == Signed(s, Decimal(digits))
    IN  CASE digits = <<>> \/ ~AllDigits(digits) -> NotANumber
          [] OTHER -> IF n \in -MaxInt - 1 .. MaxInt THEN Number(Integer(n))
                      ELSE Finite(s, Decimal(digits), 0)

\* base#digits, an unsigned pattern of the width of an integer, checked digit by digit
Width == 2 * (MaxInt + 1)
Pattern(n) == IF n > MaxInt THEN n - Width ELSE n
ParseRadix(s) ==
    LET hash == First(s, {Hash})
        base == Before(s, hash)
        n == Decimal(base)
        digit(v, b) ==
            CASE v.is # "number" -> v
              [] v.is = "number" /\ DigitValue(b) >= n -> [is |-> "no", value |-> 0]
              [] v.is = "number" /\ DigitValue(b) < n ->
                    LET next == v.value * n + DigitValue(b)
                    IN  [is |-> IF next < Width THEN "number" ELSE "limit", value |-> next]
        value == FoldLeft(digit, [is |-> "number", value |-> 0], After(s, hash))
    IN  CASE hash = 0 -> NotANumber
          [] hash # 0 /\ (base = <<>> \/ hash = Len(s) \/ ~AllDigits(base)) -> NotANumber
          [] OTHER -> IF n \notin 2 .. 36 \/ value.is = "no" THEN NotANumber
                      ELSE IF value.is = "limit" THEN TooLarge
                      ELSE Number(Integer(Pattern(value.value)))

ParseReal(s) ==
    LET body == SplitSign(s)
        e == First(body, Exponents)
        mantissa == IF e = 0 THEN body ELSE Before(body, e)
        exponent == IF e = 0 THEN <<Zero>> ELSE After(body, e)
        point == First(mantissa, {Dot})
        int == IF point = 0 THEN mantissa ELSE Before(mantissa, point)
        frac == IF point = 0 THEN <<>> ELSE After(mantissa, point)
    IN  IF \/ ~AllDigits(int) \/ ~AllDigits(frac)
           \/ int = <<>> /\ frac = <<>>
           \/ point = 0 /\ e = 0
           \/ SplitSign(exponent) = <<>> \/ ~AllDigits(SplitSign(exponent))
        THEN NotANumber
        ELSE Finite(s, Decimal(int \o frac), Signed(exponent, Decimal(SplitSign(exponent))) - Len(frac))

ParseNumber(s) ==
    IF ParseDecimal(s).is # "no" THEN ParseDecimal(s)
    ELSE IF ParseRadix(s).is # "no" THEN ParseRadix(s)
    ELSE ParseReal(s)
-----------------------------------------------------------------------------
(* The source: consumed bytes are dropped when more are appended           *)

NewSource == [buffer |-> <<>>, position |-> 0, base |-> 0, finished |-> FALSE]

Peek(r) ==
    IF r.source.position < Len(r.source.buffer) THEN r.source.buffer[r.source.position + 1] ELSE NoByte
Position(r) == r.source.base + r.source.position
Compact(s) ==
    [s EXCEPT !.buffer = SubSeq(s.buffer, s.position + 1, Len(s.buffer)),
              !.base = s.base + s.position, !.position = 0]

Take(r) ==
    [r EXCEPT !.source.position = @ + (IF Peek(r) = NoByte THEN 0 ELSE 1),
              !.atLineStart = Peek(r) \in Newlines]
-----------------------------------------------------------------------------
(* Finishing a token                                                       *)

Between == [at |-> "Between"]
Str(depth) == [at |-> "Str", depth |-> depth]
A85(group) == [at |-> "A85", group |-> group]

Reset_shallow(r) == [r EXCEPT !.state = Between, !.buf = <<>>]

Reset(r) == [r EXCEPT !.state = Between, !.buf = <<>>, !.procs = <<>>]
Fail(r, kind, span, byte) == [Reset(r) EXCEPT !.answer = Answer(kind, NoObject, span, byte)]
Goto(r, state) == [r EXCEPT !.state = state]
Here(r) == <<r.start, Position(r)>>
Failed(r) == r.answer.what \in Errors

\* To the enclosing procedure, which may not hold a local object in global VM; or out.
Emit(r, object, span) ==
    IF r.procs = <<>>
    THEN [r EXCEPT !.state = Between, !.buf = <<>>, !.answer = Token(object, span)]
    ELSE IF global /\ object.local THEN Fail(r, "invalidaccess", span, NoByte)
    ELSE [r EXCEPT !.state = Between, !.buf = <<>>, !.procs[Len(r.procs)].items = Append(@, object)]

EmitName(r, name, span) ==
    IF Len(name.v) > MaxNameLen THEN Fail(r, "limitcheck", span, NoByte) ELSE Emit(r, name, span)

FinishWord(r) ==
    LET number == ParseNumber(r.buf)
    IN  CASE number.is = "number" -> Emit(r, number.object, Here(r))
          [] number.is = "limit" -> Fail(r, "limitcheck", Here(r), NoByte)
          [] number.is = "no" -> EmitName(r, Name(r.buf), Here(r))

FinishName(r) ==
    IF ~r.state.immediate THEN EmitName(r, Literal(r.buf), Here(r))
    ELSE IF Len(r.buf) > MaxNameLen THEN Fail(r, "limitcheck", Here(r), NoByte)
    ELSE IF r.buf \notin DOMAIN Defined THEN Fail(r, "undefined", Here(r), NoByte)
    ELSE Emit(r, Resolved(r.buf), Here(r))

\* One whitespace byte goes with the token it ends; not with an error.
EndedBy(r, finished) ==
    IF ~Failed(finished) /\ Peek(r) \in Whitespace THEN Take(finished) ELSE finished

\* Bytes of a string, one after another: `at` is the position of the byte being scanned.
RECURSIVE PushBytes(_, _, _)
PushBytes(r, bytes, at) ==
    IF bytes = <<>> \/ Failed(r) THEN r
    ELSE IF Len(r.buf) >= MaxStringLen THEN Fail(r, "limitcheck", <<r.start, at>>, Head(bytes))
    ELSE PushBytes([r EXCEPT !.buf = Append(@, Head(bytes))], Tail(bytes), at)

Then(r, state) == IF Failed(r) THEN r ELSE Goto(r, state)

FinishString(r, end) == IF Failed(r) THEN r ELSE Emit(r, String(r.buf), <<r.start, end>>)

EndComment(r) ==
    [r EXCEPT !.notes = IF r.state.dsc = "yes"
                        THEN Append(@, [text |-> r.buf, span |-> Here(r)]) ELSE @,
              !.buf = <<>>, !.state = Between]

\* The value of a group, short digits standing at their highest; its first bytes.
GroupValue(group) ==
    FoldLeft(LAMBDA v, d : Base * v + d, 0,
             [k \in 1 .. GroupDigits |-> IF k <= Len(group) THEN group[k] ELSE Base - 1])
BigEndian(value) == [k \in 1 .. GroupBytes |-> (value \div (256 ^ (GroupBytes - k))) % 256]

DecodeA85(r, group, at) ==
    IF GroupValue(group) >= 256 ^ GroupBytes THEN Fail(r, "syntaxerror", <<r.start, at>>, NoByte)
    ELSE PushBytes(r, SubSeq(BigEndian(GroupValue(group)), 1, Len(group) - 1), at)
-----------------------------------------------------------------------------
(* One step of each state: the byte is there, or the input has ended       *)

OnBetween(r0) ==
    LET b == Peek(r0)
        pos == Position(r0)
        next == <<pos, pos + 1>>
        r == [r0 EXCEPT !.start = pos, !.buf = <<>>]
        taken == Take(r)
        frame == Last(r.procs)
        popped == [taken EXCEPT !.procs = Front(@)]
    IN  CASE b = NoByte /\ r0.procs # <<>> ->
                Fail(r0, "syntaxerror", <<Head(r0.procs).start, pos>>, NoByte)
          [] b = NoByte /\ r0.procs = <<>> -> [r0 EXCEPT !.answer = End]
          [] b \in Whitespace -> taken
          [] b = Percent ->
                [taken EXCEPT !.buf = <<b>>,
                              !.state = [at |-> "Comment", lineStart |-> r.atLineStart, dsc |-> "unknown"]]
          [] b = LParen -> Goto(taken, Str(1))
          [] b = RParen -> Fail(taken, "syntaxerror", next, b)
          [] b = Less -> Goto(taken, [at |-> "Less"])
          [] b = Greater -> Goto(taken, [at |-> "Greater"])
          [] b \in {LBracket, RBracket} -> EmitName(taken, Name(<<b>>), next)
          [] b = LBrace ->
                IF Len(r.procs) >= MaxProcDepth THEN Fail(taken, "limitcheck", next, b)
                ELSE [taken EXCEPT !.procs = Append(@, [items |-> <<>>, start |-> pos])]
          [] b = RBrace ->
                IF r.procs = <<>> THEN Fail(taken, "syntaxerror", next, b)
                ELSE Emit(popped, Procedure(frame.items), <<frame.start, pos + 1>>)
          [] b = Slash -> Goto(taken, [at |-> "Slash"])
          [] b \in BinaryLeads -> Fail(taken, "binary", next, b)
          [] IsRegular(b) /\ b \notin BinaryLeads -> Goto(r, [at |-> "Word"])

OnComment(r) ==
    LET b == Peek(r)
        taken == Take(r)
        isDsc == r.state.lineStart /\ b \in {Percent, Bang}
    IN  CASE b = NoByte -> EndComment(r)
          [] b \in Newlines -> Take(EndComment(r))
          [] OTHER ->
                (CASE r.state.dsc = "unknown" ->
                        [taken EXCEPT !.buf = IF isDsc THEN Append(@, b) ELSE <<>>,
                                      !.state.dsc = IF isDsc THEN "yes" ELSE "no"]
                   [] r.state.dsc = "yes" -> [taken EXCEPT !.buf = Append(@, b)]
                   [] r.state.dsc = "no" -> taken)

OnWord(r) ==
    IF IsRegular(Peek(r)) THEN [Take(r) EXCEPT !.buf = Append(@, Peek(r))]
    ELSE EndedBy(r, FinishWord(r))

OnSlash(r) ==
    IF Peek(r) = Slash THEN Goto(Take(r), [at |-> "Name", immediate |-> TRUE])
    ELSE Goto(r, [at |-> "Name", immediate |-> FALSE])

OnName(r) ==
    IF IsRegular(Peek(r)) THEN [Take(r) EXCEPT !.buf = Append(@, Peek(r))]
    ELSE EndedBy(r, FinishName(r))

OnLess(r) ==
    CASE Peek(r) = NoByte -> Fail(r, "syntaxerror", Here(r), NoByte)
      [] Peek(r) = Less -> EmitName(Take(r), Name(<<Less, Less>>), <<r.start, Position(r) + 1>>)
      [] Peek(r) = Tilde -> Goto(Take(r), A85(<<>>))
      [] OTHER -> Goto(r, [at |-> "Hex", high |-> NoDigit])

OnGreater(r) ==
    IF Peek(r) = Greater
    THEN EmitName(Take(r), Name(<<Greater, Greater>>), <<r.start, Position(r) + 1>>)
    ELSE Fail(r, "syntaxerror", Here(r), Peek(r))

OnStr(r) ==
    LET b == Peek(r)
        pos == Position(r)
        depth == r.state.depth
    IN  CASE b = NoByte -> Fail(r, "syntaxerror", Here(r), NoByte)
          [] b = Backslash -> Goto(Take(r), [at |-> "StrEscape", depth |-> depth])
          [] b = LParen -> Then(PushBytes(Take(r), <<b>>, pos), Str(depth + 1))
          [] b = RParen /\ depth = 1 -> FinishString(Take(r), pos + 1)
          [] b = RParen /\ depth > 1 -> Then(PushBytes(Take(r), <<b>>, pos), Str(depth - 1))
          [] OTHER -> PushBytes(Take(r), <<b>>, pos)

\* \n \r \t \b \f
Escapes == [b \in {110, 114, 116, 98, 102} |->
              CASE b = 110 -> LF [] b = 114 -> CR [] b = 116 -> Tab [] b = 98 -> BackSpace [] b = 102 -> FF]

OnStrEscape(r) ==
    LET b == Peek(r)
        depth == r.state.depth
        in == Goto(Take(r), Str(depth))
    IN  CASE b = NoByte -> Fail(r, "syntaxerror", Here(r), NoByte)
          [] b \in DOMAIN Escapes -> PushBytes(in, <<Escapes[b]>>, Position(r))
          [] b \in OctalDigits ->
                Goto(in, [at |-> "StrOctal", depth |-> depth, value |-> b - 48, digits |-> 1])
          [] b = CR -> Goto(in, [at |-> "StrCr", depth |-> depth])
          [] b = LF -> in
          [] OTHER -> PushBytes(in, <<b>>, Position(r))

OnStrOctal(r) ==
    LET b == Peek(r)
        st == r.state
        value == 8 * st.value + (b - 48)
    IN  IF b \in OctalDigits /\ st.digits < 3
        THEN IF st.digits = 2 THEN Then(PushBytes(Take(r), <<value % 256>>, Position(r)), Str(st.depth))
             ELSE Goto(Take(r), [st EXCEPT !.value = value, !.digits = @ + 1])
        ELSE Then(PushBytes(r, <<st.value % 256>>, Position(r)), Str(st.depth))

OnStrCr(r) == Goto(IF Peek(r) = LF THEN Take(r) ELSE r, Str(r.state.depth))

OnHex(r) ==
    LET b == Peek(r)
        pos == Position(r)
        high == r.state.high
        digit == HexValue(b)
    IN  CASE b = NoByte -> Fail(r, "syntaxerror", Here(r), NoByte)
          [] b = Greater ->
                FinishString(IF high = NoDigit THEN Take(r) ELSE PushBytes(Take(r), <<16 * high>>, pos),
                             pos + 1)
          [] b \in Whitespace -> Take(r)
          [] digit # NoDigit /\ high = NoDigit -> Goto(Take(r), [r.state EXCEPT !.high = digit])
          [] digit # NoDigit /\ high # NoDigit ->
                Then(PushBytes(Take(r), <<16 * high + digit>>, pos), [r.state EXCEPT !.high = NoDigit])
          [] OTHER -> Fail(Take(r), "syntaxerror", <<pos, pos + 1>>, b)

OnA85(r) ==
    LET b == Peek(r)
        pos == Position(r)
        group == Append(r.state.group, b - Bang)
    IN  CASE b = NoByte -> Fail(r, "syntaxerror", Here(r), NoByte)
          [] b = Tilde -> Goto(Take(r), [at |-> "A85Tilde", group |-> r.state.group])
          [] b \in Whitespace -> Take(r)
          [] b = LowerZ /\ r.state.group = <<>> ->
                PushBytes(Take(r), [k \in 1 .. GroupBytes |-> 0], pos)
          [] b \in A85Digits ->
                IF Len(group) = GroupDigits THEN Then(DecodeA85(Take(r), group, pos), A85(<<>>))
                ELSE Goto(Take(r), A85(group))
          [] OTHER -> Fail(Take(r), "syntaxerror", <<pos, pos + 1>>, b)

OnA85Tilde(r) ==
    LET group == r.state.group
        taken == Take(r)
        pos == Position(r)
    IN  IF Peek(r) # Greater THEN Fail(r, "syntaxerror", Here(r), Peek(r))
        ELSE IF Len(group) = 1 THEN Fail(taken, "syntaxerror", Here(r), NoByte)
        ELSE FinishString(IF group = <<>> THEN taken ELSE DecodeA85(taken, group, pos), pos + 1)

Step(r) ==
    LET at == r.state.at
    IN  CASE at = "Between" -> OnBetween(r)
          [] at = "Comment" -> OnComment(r)
          [] at = "Word" -> OnWord(r)
          [] at = "Slash" -> OnSlash(r)
          [] at = "Name" -> OnName(r)
          [] at = "Less" -> OnLess(r)
          [] at = "Greater" -> OnGreater(r)
          [] at = "Str" -> OnStr(r)
          [] at = "StrEscape" -> OnStrEscape(r)
          [] at = "StrOctal" -> OnStrOctal(r)
          [] at = "StrCr" -> OnStrCr(r)
          [] at = "Hex" -> OnHex(r)
          [] at = "A85" -> OnA85(r)
          [] at = "A85Tilde" -> OnA85Tilde(r)

\* `next`: steps until there is an answer; no byte, and more may come: suspend.
RECURSIVE Scanned(_)
Scanned(r) ==
    IF r.answer # NoAnswer THEN r
    ELSE IF Peek(r) = NoByte /\ ~r.source.finished THEN [r EXCEPT !.answer = More]
    ELSE Scanned(Step(r))
-----------------------------------------------------------------------------
NewReader ==
    [source |-> NewSource, state |-> Between, start |-> 0, buf |-> <<>>, procs |-> <<>>,
     atLineStart |-> TRUE, notes |-> <<>>, answer |-> NoAnswer]

Init ==
    /\ text \in Texts
    /\ global \in BOOLEAN
    /\ fed = 0
    /\ reader = NewReader
    /\ from = 0

\* A call that was answered is over: the next one starts at the unread byte.
Pending == reader.answer \in {NoAnswer, More}
Resumed ==
    [reader EXCEPT !.answer = NoAnswer, !.notes = IF Pending THEN @ ELSE <<>>]
Asked == from' = IF Pending THEN from ELSE Position(reader)

\* The producer appends a piece, or declares the end.
AppendPiece(n) ==
    /\ fed < Len(text)
    /\ LET to == Min({fed + n, Len(text)})
       IN  /\ fed' = to
           /\ reader' = [Resumed EXCEPT !.source = [Compact(@) EXCEPT
                            !.buffer = @ \o SubSeq(text, fed + 1, to)]]
    /\ Asked
    /\ UNCHANGED <<text, global>>

Finish ==
    /\ fed = Len(text)
    /\ ~reader.source.finished
    /\ reader' = [Resumed EXCEPT !.source.finished = TRUE]
    /\ Asked
    /\ UNCHANGED <<text, global, fed>>

\* The interpreter asks for a token, after an error too.
Call ==
    /\ reader.answer \notin {End, More}
    /\ reader' = Scanned(Resumed)
    /\ Asked
    /\ UNCHANGED <<text, global, fed>>

Next == (\E n \in Pieces : AppendPiece(n)) \/ Finish \/ Call

Spec == Init /\ [][Next]_vars
===============================================================================

-------------------------------- MODULE Grammar --------------------------------
(***************************************************************************)
(* What the tokens of a text are, said of the whole text at once: where    *)
(* each ends, what it denotes, where reading goes on.  The scanner must    *)
(* answer this however the text is cut into pieces.                        *)
(***************************************************************************)
EXTENDS Scanner

At(p) == IF p < Len(text) THEN text[p + 1] ELSE NoByte
Slice(p, q) == SubSeq(text, p + 1, q)
Ends == Len(text)

\* The first position from p on whose byte is in S, or the end.
Reaching(p, S) == Min({q \in p .. Ends : q = Ends \/ At(q) \in S})
Leaving(p, S) == Min({q \in p .. Ends : q = Ends \/ At(q) \notin S})

\* An answer, the position after it, the notes on the way.  Where a limit or a
\* group too large is met inside a string is not said.
Reading(answer, to) == [answer |-> answer, to |-> to, notes |-> <<>>]
Wrong(kind, p, q, byte, to) == Reading(Answer(kind, NoObject, <<p, q>>, byte), to)
Inside == -1
Somewhere(kind) == Wrong(kind, Inside, Inside, NoByte, Inside)
Good(object, p, q) == Reading(Token(object, <<p, q>>), q)
-----------------------------------------------------------------------------
(* Words: every way to cut the text of one into the parts of a number      *)

Value(s, base) == FoldLeft(LAMBDA v, b : base * v + DigitValue(b), 0, s)
Of(s, n) == IF s # <<>> /\ s[1] = Minus THEN -n ELSE n
SignLengths(s) == {0} \cup {k \in {1} : s # <<>> /\ s[1] \in {Plus, Minus}}

Decimals(w) == {k \in SignLengths(w) : Len(w) > k /\ \A i \in k + 1 .. Len(w) : w[i] \in Digits}

Radixes(w) ==
    {h \in 2 .. Len(w) - 1 :
        /\ w[h] = Hash
        /\ \A i \in 1 .. h - 1 : w[i] \in Digits
        /\ Value(SubSeq(w, 1, h - 1), 10) \in 2 .. 36}

\* <<sign, end of the integer part, end of the mantissa, end of the exponent's sign>>
Reals(w) ==
    {c \in SignLengths(w) \X (0 .. Len(w)) \X (0 .. Len(w)) \X (0 .. Len(w)) :
        LET s == c[1]  a == c[2]  b == c[3]  e == c[4]
        IN  /\ s <= a /\ a <= b
            /\ b = a \/ w[a + 1] = Dot
            /\ \A i \in s + 1 .. b : i = a + 1 \/ w[i] \in Digits
            /\ \A i \in s + 1 .. a : w[i] \in Digits
            /\ a > s \/ b > a + 1
            /\ \/ b = Len(w) /\ e = b /\ b > a
               \/ /\ b < Len(w) /\ w[b + 1] \in Exponents
                  /\ \/ e = b + 1
                     \/ e = b + 2 /\ w[e] \in {Plus, Minus}
                  /\ e < Len(w)
                  /\ \A i \in e + 1 .. Len(w) : w[i] \in Digits}

RealMeant(w, c) ==
    LET digits == SubSeq(w, c[1] + 1, c[2]) \o SubSeq(w, c[2] + 2, c[3])
        power == IF c[4] = c[3] THEN 0
                 ELSE Of(SubSeq(w, c[3] + 2, c[4]), Value(SubSeq(w, c[4] + 1, Len(w)), 10))
        fraction == IF c[3] > c[2] THEN c[3] - c[2] - 1 ELSE 0
    IN  Finite(w, Value(digits, 10), power - fraction)

Meant(w) ==
    IF Decimals(w) # {}
    THEN LET n == Value(SubSeq(w, Max(Decimals(w)) + 1, Len(w)), 10)
         IN  IF Of(w, n) <= MaxInt /\ Of(w, n) >= -(MaxInt + 1) THEN Number(Integer(Of(w, n)))
             ELSE Finite(w, n, 0)
    ELSE IF Radixes(w) # {}
    THEN LET h == Min(Radixes(w))
             base == Value(SubSeq(w, 1, h - 1), 10)
             digits == SubSeq(w, h + 1, Len(w))
             good == Min({k \in 0 .. Len(digits) : k = Len(digits) \/ DigitValue(digits[k + 1]) >= base})
         IN  IF Value(SubSeq(digits, 1, good), base) >= Width THEN TooLarge
             ELSE IF good < Len(digits) THEN NotANumber
             ELSE Number(Integer(CHOOSE v \in -(MaxInt + 1) .. MaxInt : v % Width = Value(digits, base)))
    ELSE IF Reals(w) # {} THEN RealMeant(w, CHOOSE c \in Reals(w) : TRUE)
    ELSE NotANumber

\* A token that ends where no regular byte is; one whitespace byte is read with it.
EndOfWord(p) == Min({q \in p .. Ends : ~IsRegular(At(q))})
With1(reading) ==
    IF At(reading.to) \in Whitespace THEN [reading EXCEPT !.to = @ + 1] ELSE reading

Word(p) ==
    LET q == EndOfWord(p)
        w == Slice(p, q)
    IN  CASE Meant(w).is = "number" -> With1(Good(Meant(w).object, p, q))
          [] Meant(w).is = "limit" -> Wrong("limitcheck", p, q, NoByte, q)
          [] Meant(w).is = "no" ->
                IF Len(w) > MaxNameLen THEN Wrong("limitcheck", p, q, NoByte, q)
                ELSE With1(Good(Name(w), p, q))

SlashName(p) ==
    LET immediate == At(p + 1) = Slash
        start == IF immediate THEN p + 2 ELSE p + 1
        q == EndOfWord(start)
        w == Slice(start, q)
    IN  IF Len(w) > MaxNameLen THEN Wrong("limitcheck", p, q, NoByte, q)
        ELSE IF ~immediate THEN With1(Good(Literal(w), p, q))
        ELSE IF w \in DOMAIN Defined THEN With1(Good(Resolved(w), p, q))
        ELSE Wrong("undefined", p, q, NoByte, q)
-----------------------------------------------------------------------------
(* Strings                                                                 *)

\* A byte after an odd number of backslashes is escaped; the string ends at the
\* parenthesis that balances, of those that are not.
Escaped(p, q) ==
    LET run == {k \in 0 .. q - p : \A i \in q - k .. q - 1 : At(i) = Backslash}
    IN  Max(run \cup {0}) % 2 = 1
Parens(p, q, b) == Cardinality({i \in p .. q : At(i) = b /\ ~Escaped(p + 1, i)})
StringEnd(p) ==
    Min({q \in p + 1 .. Ends :
            \/ q = Ends
            \/ /\ At(q) = RParen
               /\ ~Escaped(p + 1, q)
               /\ Parens(p, q, LParen) = Parens(p, q, RParen)})

RECURSIVE Unescaped(_)
Unescaped(s) ==
    LET run == Max({k \in 0 .. 3 : k < Len(s) /\ \A i \in 2 .. k + 1 : s[i] \in OctalDigits})
    IN  CASE s = <<>> \/ s = <<Backslash>> -> <<>>
          [] s # <<>> /\ s[1] # Backslash -> <<s[1]>> \o Unescaped(Tail(s))
          [] OTHER ->
                (CASE s[2] \in OctalDigits ->
                        <<Value(SubSeq(s, 2, run + 1), 8) % 256>> \o Unescaped(SubSeq(s, run + 2, Len(s)))
                   [] s[2] = CR /\ Len(s) > 2 /\ s[3] = LF -> Unescaped(SubSeq(s, 4, Len(s)))
                   [] s[2] \in Newlines /\ ~(s[2] = CR /\ Len(s) > 2 /\ s[3] = LF) ->
                        Unescaped(SubSeq(s, 3, Len(s)))
                   [] s[2] \notin OctalDigits \cup Newlines ->
                        <<IF s[2] \in DOMAIN Escapes THEN Escapes[s[2]] ELSE s[2]>>
                          \o Unescaped(SubSeq(s, 3, Len(s))))

Parenthesised(p) ==
    LET q == StringEnd(p)
        bytes == Unescaped(Slice(p + 1, q))
    IN  IF Len(bytes) > MaxStringLen THEN Somewhere("limitcheck")
        ELSE IF q = Ends THEN Wrong("syntaxerror", p, q, NoByte, q)
        ELSE Good(String(bytes), p, q + 1)

HexBytes == {b \in 0 .. 127 : HexValue(b) # NoDigit}
Hexadecimal(p) ==
    LET q == Leaving(p + 1, HexBytes \cup Whitespace)
        digits == SelectSeq(Slice(p + 1, q), LAMBDA b : b \in HexBytes)
        whole == Len(digits) \div 2 + (IF At(q) = Greater THEN Len(digits) % 2 ELSE 0)
        bytes == [k \in 1 .. whole |->
                    Value(<<digits[2 * k - 1], IF 2 * k <= Len(digits) THEN digits[2 * k] ELSE Zero>>, 16)]
    IN  IF whole > MaxStringLen THEN Somewhere("limitcheck")
        ELSE IF q = Ends THEN Wrong("syntaxerror", p, q, NoByte, q)
        ELSE IF At(q) # Greater THEN Wrong("syntaxerror", q, q + 1, At(q), q + 1)
        ELSE Good(String(bytes), p, q + 1)

\* The highest number whose base-85 digits begin so, and the bytes it begins with.
Highest(d) ==
    MapThenFoldSet(+, Base ^ (GroupDigits - Len(d)) - 1,
                   LAMBDA k : d[k] * Base ^ (GroupDigits - k), LAMBDA S : CHOOSE k \in S : TRUE, DOMAIN d)
Bytes(n) == [k \in 1 .. GroupBytes |-> (n \div 256 ^ (GroupBytes - k)) % 256]

\* The bytes of base-85 text without its whitespace, up to the first group that is
\* none: `left` is what could not be read.
RECURSIVE Groups(_, _)
Groups(s, bytes) ==
    LET group == [k \in 1 .. GroupDigits |-> s[k] - Bang]
    IN  IF s # <<>> /\ s[1] = LowerZ THEN Groups(Tail(s), bytes \o [k \in 1 .. GroupBytes |-> 0])
        ELSE IF Len(s) < GroupDigits \/ \E k \in 1 .. GroupDigits : s[k] \notin A85Digits
        THEN [bytes |-> bytes, left |-> s]
        ELSE IF Highest(group) >= 256 ^ GroupBytes THEN [bytes |-> bytes, left |-> s]
        ELSE Groups(SubSeq(s, GroupDigits + 1, Len(s)), bytes \o Bytes(Highest(group)))

Base85(p) ==
    LET tilde == Reaching(p + 2, {Tilde})
        read == Groups(SelectSeq(Slice(p + 2, tilde), LAMBDA b : b \notin Whitespace), <<>>)
        left == read.left
        bad == {k \in DOMAIN left : left[k] \notin A85Digits}
        last == [k \in DOMAIN left |-> left[k] - Bang]
        bytes == read.bytes \o SubSeq(Bytes(Highest(last)), 1, Len(last) - 1)
    IN  IF Len(read.bytes) > MaxStringLen THEN Somewhere("limitcheck")
        ELSE IF bad # {} \/ Len(left) >= GroupDigits THEN Somewhere("syntaxerror")
        ELSE IF tilde = Ends THEN Wrong("syntaxerror", p, tilde, NoByte, tilde)
        ELSE IF At(tilde + 1) # Greater THEN Wrong("syntaxerror", p, tilde + 1, At(tilde + 1), tilde + 1)
        ELSE IF left = <<>> THEN Good(String(read.bytes), p, tilde + 2)
        ELSE IF Len(left) = 1 THEN Wrong("syntaxerror", p, tilde + 1, NoByte, tilde + 2)
        ELSE IF Highest(last) >= 256 ^ GroupBytes THEN Somewhere("syntaxerror")
        ELSE IF Len(bytes) > MaxStringLen THEN Somewhere("limitcheck")
        ELSE Good(String(bytes), p, tilde + 2)

Angle(p) ==
    CASE p + 1 = Ends -> Wrong("syntaxerror", p, Ends, NoByte, Ends)
      [] At(p + 1) = Less -> Good(Name(<<Less, Less>>), p, p + 2)
      [] At(p + 1) = Tilde -> Base85(p)
      [] OTHER -> Hexadecimal(p)
-----------------------------------------------------------------------------
(* Objects, comments and procedures                                        *)

Closing == Answer("close", NoObject, <<0, 0>>, RBrace)
StartsLine(p) == p = 0 \/ At(p - 1) \in Newlines

Note(p, q) ==
    IF StartsLine(p) /\ q > p + 1 /\ At(p + 1) \in {Percent, Bang}
    THEN <<[text |-> Slice(p, q), span |-> <<p, q>>]>> ELSE <<>>

\* The first object from p on, inside d procedures; an end of input inside one is
\* said of the outermost.
RECURSIVE Written(_, _), Body(_, _, _, _, _)
Written(p, d) ==
    LET q == Leaving(p, Whitespace)
        b == At(q)
        eol == Reaching(q, Newlines)
        after == Written(eol, d)
    IN  CASE b = NoByte -> Reading(End, q)
          [] b = Percent -> [after EXCEPT !.notes = Note(q, eol) \o @]
          [] b = LParen -> Parenthesised(q)
          [] b = Less -> Angle(q)
          [] b = Greater ->
                IF At(q + 1) = Greater THEN Good(Name(<<Greater, Greater>>), q, q + 2)
                ELSE Wrong("syntaxerror", q, q + 1, At(q + 1), q + 1)
          [] b \in {LBracket, RBracket} -> Good(Name(<<b>>), q, q + 1)
          [] b = Slash -> SlashName(q)
          [] b = RBrace /\ d > 0 -> Reading(Closing, q + 1)
          [] b = RParen \/ (b = RBrace /\ d = 0) -> Wrong("syntaxerror", q, q + 1, b, q + 1)
          [] b = LBrace ->
                IF d = MaxProcDepth THEN Wrong("limitcheck", q, q + 1, b, q + 1)
                ELSE Body(q, q + 1, d, <<>>, <<>>)
          [] b \in BinaryLeads -> Wrong("binary", q, q + 1, b, q + 1)
          [] IsRegular(b) /\ b \notin BinaryLeads -> Word(q)

Body(open, p, d, items, notes) ==
    LET item == Written(p, d + 1)
        answer == item.answer
        said == [item EXCEPT !.notes = notes \o @]
    IN  CASE answer = Closing -> [said EXCEPT !.answer = Token(Procedure(items), <<open, item.to>>)]
          [] answer = End ->
                IF d > 0 THEN said
                ELSE [said EXCEPT !.answer = Answer("syntaxerror", NoObject, <<open, Ends>>, NoByte)]
          [] answer.what = "token" /\ global /\ answer.object.local ->
                [said EXCEPT !.answer = Answer("invalidaccess", NoObject, answer.span, NoByte),
                             !.to = answer.span[2]]
          [] answer.what = "token" /\ ~(global /\ answer.object.local) ->
                Body(open, item.to, d, Append(items, answer.object), said.notes)
          [] answer.what \in Errors -> said

Agrees(reading) ==
    /\ reader.answer.what = reading.answer.what
    /\ reader.notes = reading.notes
    /\ \/ reading.to = Inside
       \/ reader.answer = reading.answer /\ Position(reader) = reading.to

\* Whatever pieces the text came in, the scanner answers the token, error or end
\* that is written where it was asked, has told the observer of the structuring
\* comments before it, and has read no more than the token and the whitespace byte
\* that ended it; it asks for more only when it has read all there is
\* (scanner.rs:488).
TokensAsWritten ==
    CASE reader.answer = NoAnswer -> TRUE
      [] reader.answer = More -> Position(reader) = fed /\ ~reader.source.finished
      [] OTHER -> Agrees(Written(from, 0))
===============================================================================

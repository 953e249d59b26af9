-------------------------------- MODULE Filters --------------------------------
(***************************************************************************)
(* The filters of the interpreter that compress nothing or little          *)
(* (efterscript-vm, encoders.rs and decoders.rs): hexadecimal and base-85  *)
(* text, run lengths, sub-files, and the cipher of eexec                   *)
(* (efterscript-fonts, type1).  Encoders take slices and hold what they    *)
(* cannot write yet; decoders take a byte at a time and say whether the    *)
(* data has ended with it, or before it.                                   *)
(***************************************************************************)
EXTENDS Bits, FiniteSetsExt, Bitwise

CONSTANTS
    ByteBits,      \* 8 in the program
    HexLine,       \* digits of a line, 64,
    Base85Line,    \* and 75
    GroupBytes,    \* bytes of a base-85 group, 4,
    GroupDigits,   \* its digits, 5,
    Base,          \* and 85
    Key, C1, C2    \* of the cipher

ByteValues == 2 ^ ByteBits
HexBase == 2 ^ (ByteBits \div 2)
MaxRun == ByteValues \div 2     \* 128

\* What makes the text forms possible.
FilterParameters ==
    /\ ByteBits % 2 = 0
    /\ ByteValues ^ GroupBytes <= Base ^ GroupDigits
    /\ GroupDigits = GroupBytes + 1 /\ Base <= ByteValues

None == <<>>
Least(a, b) == IF a < b THEN a ELSE b
-----------------------------------------------------------------------------
(* Text                                                                    *)

Digit(value) == [kind |-> "digit", value |-> value]
Sign(kind) == [kind |-> kind, value |-> 0]

\* Text::put.
Put(e, line, char) ==
    IF e.column = line THEN [e EXCEPT !.column = 1, !.out = @ \o <<Sign("newline"), char>>]
    ELSE [e EXCEPT !.column = @ + 1, !.out = Append(@, char)]

HexEncoder == [column |-> 0, out |-> <<>>]
HexPut(e, byte) ==
    Put(Put(e, HexLine, Digit(byte \div HexBase)), HexLine, Digit(byte % HexBase))
HexFinish(e) == [e EXCEPT !.out = Append(@, Sign(">"))]

HexDecoder == [high |-> None, status |-> "more", out |-> <<>>]

\* A final odd digit is the high half of a byte.
HexEnd(d) ==
    IF d.high = None THEN d
    ELSE [d EXCEPT !.high = None, !.out = Append(@, d.high[1] * HexBase)]

HexPush(d, char) ==
    CASE char.kind = "digit" /\ d.high = None -> [d EXCEPT !.high = <<char.value>>]
      [] char.kind = "digit" /\ d.high # None ->
            [d EXCEPT !.high = None, !.out = Append(@, d.high[1] * HexBase + char.value)]
      [] char.kind = ">" -> [HexEnd(d) EXCEPT !.status = "end"]
      [] char.kind = "newline" -> d
      [] OTHER -> [d EXCEPT !.status = "error"]

\* The number a group makes in a base, the first element the highest.
InBase(base, group) == FoldLeft(LAMBDA value, x : base * value + x, 0, group)
InDigits(base, n, value) == [k \in 1 .. n |-> (value \div base ^ (n - k)) % base]

Base85Encoder == [column |-> 0, group |-> <<>>, out |-> <<>>]

\* One digit more than the bytes held, the missing ones being zero.
PutDigits(e) ==
    LET held == Len(e.group)
        value == InBase(ByteValues, e.group \o Zeros(GroupBytes - held))
        digits == SubSeq(InDigits(Base, GroupDigits, value), 1, held + 1)
    IN  FoldLeft(LAMBDA f, x : Put(f, Base85Line, Digit(x)), [e EXCEPT !.group = <<>>], digits)

Base85Put(e, byte) ==
    LET held == [e EXCEPT !.group = Append(@, byte)]
    IN  CASE Len(held.group) < GroupBytes -> held
          [] held.group = Zeros(GroupBytes) -> Put([e EXCEPT !.group = <<>>], Base85Line, Sign("z"))
          [] OTHER -> PutDigits(held)

Base85Finish(e) ==
    LET last == IF e.group = <<>> THEN e ELSE PutDigits(e)
    IN  [last EXCEPT !.out = @ \o <<Sign("~"), Sign(">")>>]

Base85Decoder == [group |-> <<>>, tilde |-> FALSE, status |-> "more", out |-> <<>>]

\* A group gives one byte less than its digits; the missing ones are the largest.
Decoded(d) ==
    LET held == Len(d.group)
        value == InBase(Base, d.group \o [k \in 1 .. GroupDigits - held |-> Base - 1])
    IN  IF value >= ByteValues ^ GroupBytes THEN [d EXCEPT !.status = "error"]
        ELSE [d EXCEPT !.group = <<>>,
                       !.out = @ \o SubSeq(InDigits(ByteValues, GroupBytes, value), 1, held - 1)]

\* A single digit left over cannot make a byte.
Base85End(d) ==
    CASE Len(d.group) = 0 -> d
      [] Len(d.group) = 1 -> [d EXCEPT !.status = "error"]
      [] Len(d.group) > 1 -> Decoded(d)

Base85Push(d, char) ==
    LET held == [d EXCEPT !.group = Append(@, char.value)]
        error == [d EXCEPT !.status = "error"]
    IN  CASE d.tilde -> IF char.kind = ">" THEN [d EXCEPT !.status = "end"] ELSE error
          [] ~ d.tilde /\ char.kind = "digit" ->
                IF Len(held.group) = GroupDigits THEN Decoded(held) ELSE held
          [] ~ d.tilde /\ char.kind = "z" /\ d.group = <<>> ->
                [d EXCEPT !.out = @ \o Zeros(GroupBytes)]
          [] ~ d.tilde /\ char.kind = "~" -> [Base85End(d) EXCEPT !.tilde = TRUE]
          [] ~ d.tilde /\ char.kind = "newline" -> d
          [] OTHER -> error
-----------------------------------------------------------------------------
(* Run lengths                                                             *)

RunEncoder(record) == [pending |-> <<>>, record |-> record, inRecord |-> 0, out |-> <<>>]

LeadingRun(bytes) ==
    LET others == {k \in DOMAIN bytes : bytes[k] # bytes[1]}
    IN  IF others = {} THEN Len(bytes) ELSE Min(others) - 1

\* The bytes before the first that repeats its predecessor.
LeadingLiteral(bytes) ==
    LET repeats == {k \in 1 .. Len(bytes) - 1 : bytes[k + 1] = bytes[k]}
    IN  IF repeats = {} THEN Len(bytes) ELSE Min(repeats) - 1

Drop(e, n, coded) == [e EXCEPT !.pending = SubSeq(@, n + 1, Len(@)), !.out = @ \o coded]

\* Every run whose extent is decided goes out; with `all`, the rest as well.
RECURSIVE Drain(_, _)
Drain(e, all) ==
    LET run == LeadingRun(e.pending)
        repeat == Least(run, MaxRun)
        literal == Least(LeadingLiteral(e.pending), MaxRun)
        held == Len(e.pending)
    IN  CASE held = 0 -> e
          [] run >= 2 /\ run = held /\ run < MaxRun /\ ~ all -> e
          [] run >= 2 /\ ~ (run = held /\ run < MaxRun /\ ~ all) ->
                Drain(Drop(e, repeat, <<2 * MaxRun + 1 - repeat, e.pending[1]>>), all)
          [] run = 1 /\ literal = held /\ ~ all -> e
          [] run = 1 /\ ~ (literal = held /\ ~ all) ->
                Drain(Drop(e, literal, <<literal - 1>> \o SubSeq(e.pending, 1, literal)), all)

\* A slice is taken record by record, every run decided at a record's end.
RECURSIVE RunWrite(_, _)
RunWrite(e, bytes) ==
    LET taken == Least(e.record - e.inRecord, Len(bytes))
        ends == e.inRecord + taken = e.record
        more == [e EXCEPT !.pending = @ \o SubSeq(bytes, 1, taken),
                          !.inRecord = IF ends THEN 0 ELSE @ + taken]
    IN  CASE e.record = 0 -> Drain([e EXCEPT !.pending = @ \o bytes], FALSE)
          [] e.record > 0 /\ bytes = <<>> -> e
          [] e.record > 0 /\ bytes # <<>> ->
                RunWrite(Drain(more, ends), SubSeq(bytes, taken + 1, Len(bytes)))

RunFinish(e) == [Drain(e, TRUE) EXCEPT !.out = Append(@, MaxRun)]

\* left: bytes to copy, or times to repeat the next.
RunDecoder == [state |-> "start", left |-> 0, status |-> "more", out |-> <<>>]

RunPush(d, byte) ==
    CASE d.state = "start" /\ byte = MaxRun -> [d EXCEPT !.status = "end"]
      [] d.state = "start" /\ byte < MaxRun -> [d EXCEPT !.state = "literal", !.left = byte + 1]
      [] d.state = "start" /\ byte > MaxRun ->
            [d EXCEPT !.state = "repeat", !.left = 2 * MaxRun + 1 - byte]
      [] d.state = "literal" ->
            [d EXCEPT !.out = Append(@, byte), !.left = @ - 1,
                      !.state = IF d.left > 1 THEN "literal" ELSE "start"]
      [] d.state = "repeat" ->
            [d EXCEPT !.out = @ \o [k \in 1 .. d.left |-> byte], !.state = "start"]
-----------------------------------------------------------------------------
(* Sub-files                                                               *)

\* kmp_failure: for each prefix, the longest proper prefix that ends it.
Failure(pattern) ==
    [n \in DOMAIN pattern |->
        Max({m \in 0 .. n - 1 : SubSeq(pattern, 1, m) = SubSeq(pattern, n - m + 1, n)})]

SubFileDecoder(count, pattern) ==
    [remaining |-> count, pattern |-> pattern, failure |-> Failure(pattern), matched |-> 0,
     held |-> <<>>, status |-> "more", out |-> <<>>]

\* The longest match the byte may extend.
RECURSIVE Fallback(_, _)
Fallback(d, byte) ==
    IF d.matched = 0 \/ d.pattern[d.matched + 1] = byte THEN d.matched
    ELSE Fallback([d EXCEPT !.matched = d.failure[@]], byte)

\* What is held is exactly what matches.
Matched(d, byte) ==
    LET back == Fallback(d, byte)
        matched == IF d.pattern[back + 1] = byte THEN back + 1 ELSE back
        held == Append(d.held, byte)
        out == Len(held) - matched
    IN  [d EXCEPT !.matched = matched, !.held = SubSeq(held, out + 1, Len(held)),
                  !.out = @ \o SubSeq(held, 1, out)]

\* With a count an occurrence is data and counts down, without it is the
\* marker.
Occurred(d) ==
    CASE d.remaining = 0 -> [d EXCEPT !.matched = 0, !.held = <<>>, !.status = "end"]
      [] d.remaining > 0 ->
            [d EXCEPT !.matched = 0, !.held = <<>>, !.out = @ \o d.held, !.remaining = @ - 1,
                      !.status = IF d.remaining = 1 THEN "end" ELSE "more"]

SubFilePush(d, byte) ==
    CASE d.pattern = <<>> ->
            [d EXCEPT !.out = Append(@, byte), !.remaining = IF @ = 0 THEN 0 ELSE @ - 1,
                      !.status = IF d.remaining = 1 THEN "end" ELSE "more"]
      [] d.pattern # <<>> /\ Matched(d, byte).matched < Len(d.pattern) -> Matched(d, byte)
      [] OTHER -> Occurred(Matched(d, byte))

SubFileEnd(d) == [d EXCEPT !.out = @ \o d.held, !.held = <<>>]
-----------------------------------------------------------------------------
(* The cipher of eexec                                                     *)

\* Characters of the hexadecimal form are bytes: digits, white space, others.
IsHex(byte) == byte < HexBase
White == HexBase
Foreign == HexBase + 1

State == ByteValues ^ 2
NextKey(r, cipher) == ((cipher + r) * C1 + C2) % State
Crypt(r, byte) == byte ^^ (r \div ByteValues)

\* encrypt, without lead bytes of its own.
Encrypt(plain) ==
    FoldLeft(LAMBDA e, byte : LET c == Crypt(e.r, byte)
                              IN  [r |-> NextKey(e.r, c), out |-> Append(e.out, c)],
             [r |-> Key, out |-> <<>>], plain).out

IsHexSection(cipher) == \A k \in 1 .. 4 : IsHex(cipher[k])

\* encrypt_section_binary: lead bytes that cannot be taken for digits.
EncryptBinary(plain) ==
    LET section(lead) == Encrypt(<<lead, 0, 0, 0>> \o plain)
        fits(lead) == ~ IsHexSection(section(lead)) /\ section(lead)[1] # White
    IN  section(Min({lead \in 0 .. ByteValues - 1 : fits(lead)}))

\* The hexadecimal form, broken by white space after the first four digits,
\* and what follows it.
EncryptHex(plain) ==
    LET digits(c) == <<c \div HexBase, c % HexBase>>
        cipher == Encrypt(<<0, 0, 0, 0>> \o plain)
        text == FlattenSeq([k \in DOMAIN cipher |-> digits(cipher[k])])
    IN  SubSeq(text, 1, 5) \o <<White>> \o SubSeq(text, 6, Len(text)) \o <<White, Foreign>>

EexecDecoder ==
    [r |-> Key, form |-> "open", first |-> <<>>, skip |-> 4, high |-> None, status |-> "more",
     out |-> <<>>]

Plain(d, cipher) ==
    LET e == [d EXCEPT !.r = NextKey(@, cipher)]
    IN  IF d.skip > 0 THEN [e EXCEPT !.skip = @ - 1]
        ELSE [e EXCEPT !.out = Append(@, Crypt(d.r, cipher))]

DecidedPush(d, byte) ==
    CASE d.form = "binary" -> Plain(d, byte)
      [] d.form = "hex" /\ IsHex(byte) /\ d.high = None -> [d EXCEPT !.high = <<byte>>]
      [] d.form = "hex" /\ IsHex(byte) /\ d.high # None ->
            Plain([d EXCEPT !.high = None], d.high[1] * HexBase + byte)
      [] d.form = "hex" /\ byte = White -> d
      [] OTHER -> [d EXCEPT !.status = "before"]

Decide(d, form) == FoldLeft(DecidedPush, [d EXCEPT !.form = form, !.first = <<>>], d.first)

\* The form is decided by the first four bytes, which are held until then.
EexecPush(d, byte) ==
    LET held == [d EXCEPT !.first = Append(@, byte)]
    IN  CASE d.form # "open" -> DecidedPush(d, byte)
          [] d.form = "open" /\ Len(held.first) < 4 -> held
          [] OTHER -> Decide(held, IF IsHexSection(held.first) THEN "hex" ELSE "binary")

\* Fewer than four bytes are a binary section.
EexecEnd(d) == IF d.form = "open" THEN Decide(d, "binary") ELSE d
=============================================================================

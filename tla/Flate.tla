--------------------------------- MODULE Flate ---------------------------------
(***************************************************************************)
(* Flate (efterscript-codec, deflate.rs and inflate.rs): an encoder that   *)
(* takes a whole buffer, matches it against itself, and writes blocks in   *)
(* the cheapest of three forms, and a decoder that takes a byte at a time  *)
(* and may stop at any of them.                                            *)
(*                                                                         *)
(* Alphabets, code lengths and field widths are constants, in the          *)
(* proportions of the program's.  Lengths of a Huffman code are a sequence *)
(* whose element k + 1 is the length of symbol k.                          *)
(***************************************************************************)
EXTENDS Bits, FiniteSetsExt, Functions

CONSTANTS
    ByteBits,       \* 8 in the program
    LengthBase, LengthExtra,   \* smallest length and extra bits of each length code
    DistBase, DistExtra,       \* the same of each distance code
    RepeatBase, RepeatExtra,   \* the same of the three repeats of a code length: the
                               \* last length, zeros, and many zeros
    ClOrder,        \* transmission order of the code-length code
    FixedLengths,   \* code lengths of the fixed literal code, and of the
    FixedDistBits,  \* fixed distance code
    FieldBits,      \* widths of a dynamic header's fields
    Window,         \* 32 768
    MaxBlock,       \* input bytes of a block, 65 535
    MaxMatch,       \* 258
    ChainLimit,     \* candidates examined, 64
    GoodEnough,     \* a match that ends the search, 128
    Hashes,         \* values of the hash of three bytes
    MaxCodeBits,    \* 15, and
    MaxClBits,      \* 7 for the code-length code
    AdlerMod,       \* 65 521
    ZlibHeader,     \* the two bytes the encoder begins with, and
    Headers         \* those the decoder accepts

MinMatch == 3
EndOfBlock == 2 ^ ByteBits
LitSymbols == EndOfBlock + 1 + Len(LengthBase)
DistSymbols == Len(DistBase)
ClSymbols == MaxCodeBits + 4
MaxBits == Max(ToSet(FixedLengths) \cup {MaxCodeBits, FixedDistBits})
MinHlit == EndOfBlock + 1
MinHdist == 1
MinHclen == 4
LenBits == 2 * ByteBits     \* of a stored block's length and its complement

\* What holds of the format's tables.
FlateParameters ==
    /\ MinMatch = LengthBase[1] /\ MaxMatch = Last(LengthBase)
    /\ Window < DistBase[DistSymbols] + 2 ^ DistExtra[DistSymbols]
    /\ MaxBlock < 2 ^ LenBits /\ AdlerMod < 2 ^ LenBits
    /\ ZlibHeader \in Headers
    /\ ToSet(ClOrder) = 0 .. ClSymbols - 1

None == <<>>
-----------------------------------------------------------------------------
(* Codes                                                                   *)

Total(numbers) == FoldLeft(LAMBDA x, y : x + y, 0, numbers)

\* The first code of each length, one bit more at a time (RFC 1951, 3.2.2).
FirstCodes(lengths) ==
    LET count(n) == Cardinality({s \in DOMAIN lengths : lengths[s] = n})
        first[n \in Nat] == IF n <= 1 THEN 0 ELSE 2 * (first[n - 1] + count(n - 1))
    IN  first

\* Code::from_lengths: the bits of each symbol's code, as they are packed.
CodeOf(lengths) ==
    LET first == FirstCodes(lengths)
    IN  [s \in DOMAIN lengths |->
            IF lengths[s] = 0 THEN None
            ELSE HighFirst(first[lengths[s]]
                             + Cardinality({t \in 1 .. s - 1 : lengths[t] = lengths[s]}),
                           lengths[s])]

Upto(n) == [k \in 1 .. n |-> k]

\* Equal weights: the lower symbol takes the shorter code.
Leaves(freqs) ==
    LET used == SelectSeq(Upto(Len(freqs)), LAMBDA s : freqs[s] # 0)
        sorted == SortSeq(used, LAMBDA s, t : freqs[s] < freqs[t] \/ (freqs[s] = freqs[t] /\ s > t))
    IN  [k \in DOMAIN sorted |-> [weight |-> freqs[sorted[k]], parts |-> <<sorted[k]>>]]

\* Mutant: a package weighs what its second part does.
Package_light(list) ==
    [k \in 1 .. Len(list) \div 2 |->
        [weight |-> list[2 * k].weight, parts |-> list[2 * k - 1].parts \o list[2 * k].parts]]

Package(list) ==
    [k \in 1 .. Len(list) \div 2 |->
        [weight |-> list[2 * k - 1].weight + list[2 * k].weight,
         parts |-> list[2 * k - 1].parts \o list[2 * k].parts]]

\* A leaf goes before a package of its weight.
RECURSIVE Merge(_, _)
Merge(leaves, packages) ==
    CASE leaves = <<>> -> packages
      [] packages = <<>> -> leaves
      [] leaves # <<>> /\ packages # <<>> ->
            IF leaves[1].weight <= packages[1].weight
            THEN <<leaves[1]>> \o Merge(Tail(leaves), packages)
            ELSE <<packages[1]>> \o Merge(leaves, Tail(packages))

\* code_lengths, by package-merge: a symbol's length is how many of the 2n - 2
\* lightest items of the last level contain it.
CodeLengths(freqs, limit) ==
    LET leaves == Leaves(freqs)
        n == Len(leaves)
        levels == FoldLeft(LAMBDA list, k : Merge(leaves, Package(list)), leaves,
                           Upto(limit - 1))
        parts == FlattenSeq([k \in 1 .. 2 * n - 2 |-> levels[k].parts])
    IN  IF n <= 1 THEN [s \in DOMAIN freqs |-> IF freqs[s] = 0 THEN 0 ELSE 1]
        ELSE [s \in DOMAIN freqs |-> Cardinality({k \in DOMAIN parts : parts[k] = s})]

Frequencies(symbols, n) ==
    [s \in 1 .. n |-> Cardinality({k \in DOMAIN symbols : symbols[k] = s - 1})]
-----------------------------------------------------------------------------
(* Code lengths as they travel                                             *)

Lasting == MaxCodeBits + 1
ZerosFew == MaxCodeBits + 2
ZerosMany == MaxCodeBits + 3
RepeatOf(sym) == sym - MaxCodeBits
Longest(sym) == RepeatBase[RepeatOf(sym)] + 2 ^ RepeatExtra[RepeatOf(sym)] - 1

Plainly(value, n) == [k \in 1 .. n |-> <<value, 0>>]
Repeated(sym, n) == << <<sym, n - RepeatBase[RepeatOf(sym)]>> >>
Shorter(a, b) == IF a < b THEN a ELSE b

RECURSIVE RunOfZeros(_)
RunOfZeros(n) ==
    LET taken == Shorter(n, Longest(ZerosMany))
    IN  CASE n >= RepeatBase[3] -> Repeated(ZerosMany, taken) \o RunOfZeros(n - taken)
          [] n < RepeatBase[3] /\ n >= RepeatBase[2] -> Repeated(ZerosFew, n)
          [] OTHER -> Plainly(0, n)

RECURSIVE RunOf(_, _)
RunOf(value, n) ==
    LET taken == Shorter(n, Longest(Lasting))
    IN  IF n >= RepeatBase[1] THEN Repeated(Lasting, taken) \o RunOf(value, n - taken)
        ELSE Plainly(value, n)

\* run_lengths: symbols of the code-length alphabet with their extra values.
RECURSIVE RunLengths(_)
RunLengths(lengths) ==
    IF lengths = <<>> THEN <<>>
    ELSE LET value == Head(lengths)
             others == {k \in DOMAIN lengths : lengths[k] # value}
             run == IF others = {} THEN Len(lengths) ELSE Min(others) - 1
         IN  (IF value = 0 THEN RunOfZeros(run) ELSE Plainly(value, 1) \o RunOf(value, run - 1))
               \o RunLengths(SubSeq(lengths, run + 1, Len(lengths)))

RunExtraBits(sym) == IF sym <= MaxCodeBits THEN 0 ELSE RepeatExtra[RepeatOf(sym)]
-----------------------------------------------------------------------------
(* Matching                                                                *)

\* Positions count from 0.
At(data, pos) == data[pos + 1]
Hash(data, pos) == (At(data, pos) + 2 * At(data, pos + 1) + 3 * At(data, pos + 2)) % Hashes
Nowhere == -1

NewMatcher == [head |-> [h \in 0 .. Hashes - 1 |-> Nowhere],
               prev |-> [k \in 0 .. Window - 1 |-> Nowhere]]

\* A slot of prev is reused after a window's length.
Insert(m, data, pos) ==
    LET h == Hash(data, pos)
    IN  IF pos + MinMatch > Len(data) THEN m
        ELSE [m EXCEPT !.prev[pos % Window] = m.head[h], !.head[h] = pos]

Common(data, a, b, limit) ==
    LET differ == {k \in 0 .. limit - 1 : At(data, a + k) # At(data, b + k)}
    IN  IF differ = {} THEN limit ELSE Min(differ)

\* Matcher::longest: candidates from the newest on, while they are inside the
\* window; a longer match alone replaces a newer one.
Nothing == [len |-> MinMatch - 1, dist |-> 0]

RECURSIVE Search(_, _, _, _, _, _)
Search(m, data, pos, limit, next, s) ==
    IF next = Nowhere \/ s.left = 0 \/ pos - next > Window THEN s.best
    ELSE LET len == Common(data, next, pos, limit)
             best == IF len > s.best.len THEN [len |-> len, dist |-> pos - next] ELSE s.best
             ended == len > s.best.len /\ (len = limit \/ len >= GoodEnough)
         IN  IF ended THEN best
             ELSE Search(m, data, pos, limit, m.prev[next % Window],
                         [best |-> best, left |-> s.left - 1])

Found(m, data, pos, limit) ==
    IF limit < MinMatch THEN Nothing
    ELSE Search(m, data, pos, limit, m.head[Hash(data, pos)],
                [best |-> Nothing, left |-> ChainLimit])

Lit(byte) == [len |-> 1, lit |-> byte, dist |-> 0]
Match(found) == [len |-> found.len, lit |-> 0, dist |-> found.dist]

\* The symbols of a block ending before `end`; every position passed becomes
\* a candidate.
RECURSIVE Symbols(_, _, _, _)
Symbols(m, data, pos, end) ==
    IF pos = end THEN [matcher |-> m, syms |-> <<>>]
    ELSE LET found == Found(m, data, pos, Shorter(MaxMatch, end - pos))
             sym == IF found = Nothing THEN Lit(At(data, pos)) ELSE Match(found)
             passed == FoldLeft(LAMBDA n, k : Insert(n, data, pos + k - 1), m,
                                Upto(sym.len))
             rest == Symbols(passed, data, pos + sym.len, end)
         IN  [rest EXCEPT !.syms = <<sym>> \o @]
-----------------------------------------------------------------------------
(* Blocks                                                                  *)

\* length_code and dist_code: the last code whose base is no longer.
CodeFor(base, n) == Max({k \in DOMAIN base : base[k] <= n})

\* A symbol's codes and extra bits; dist is empty for a literal.
Coded(sym) ==
    LET l == CodeFor(LengthBase, sym.len)
        d == CodeFor(DistBase, sym.dist)
    IN  IF sym.dist = 0 THEN [lit |-> sym.lit, extra |-> <<>>, dist |-> None, distExtra |-> <<>>]
        ELSE [lit |-> EndOfBlock + l,
              extra |-> LowFirst(sym.len - LengthBase[l], LengthExtra[l]),
              dist |-> <<d - 1>>,
              distExtra |-> LowFirst(sym.dist - DistBase[d], DistExtra[d])]

CodedOf(syms) == [k \in DOMAIN syms |-> Coded(syms[k])]
IsMatch(c) == c.dist # None

\* coded_bits: with the end of the block.
CodedBits(coded, lit, dist) ==
    lit[EndOfBlock + 1]
      + Total([k \in DOMAIN coded |->
                 lit[coded[k].lit + 1] + Len(coded[k].extra)
                   + (IF IsMatch(coded[k])
                      THEN dist[coded[k].dist[1] + 1] + Len(coded[k].distExtra) ELSE 0)])

\* How many leading lengths a header declares.
Declared(lengths, least) == Max({least} \cup {k \in DOMAIN lengths : lengths[k] # 0})

\* A header for these codes: their lengths as runs, and the code of the runs.
Headed(lit, dist, runs) ==
    LET cl == CodeLengths(Frequencies([k \in DOMAIN runs |-> runs[k][1]], ClSymbols), MaxClBits)
    IN  [lit |-> lit, dist |-> dist, runs |-> runs, cl |-> cl,
         hclen |-> Declared([k \in DOMAIN ClOrder |-> cl[ClOrder[k] + 1]], MinHclen)]

Declaring(lit, dist) ==
    LET hlit == Declared(lit, MinHlit)
        hdist == Declared(dist, MinHdist)
        p == Headed(lit, dist, RunLengths(SubSeq(lit, 1, hlit) \o SubSeq(dist, 1, hdist)))
    IN  [hlit |-> hlit, hdist |-> hdist] @@ p

HeaderBits(p) ==
    3 + FieldBits.hlit + FieldBits.hdist + FieldBits.hclen + FieldBits.cl * p.hclen
      + Total([k \in DOMAIN p.runs |-> p.cl[p.runs[k][1] + 1] + RunExtraBits(p.runs[k][1])])

Costed(coded, p) == [bits |-> HeaderBits(p) + CodedBits(coded, p.lit, p.dist)] @@ p

\* Dynamic::plan: a block's codes and header, costed before it is written.
Plan(coded) ==
    LET dists == SelectSeq(coded, IsMatch)
        lit == Frequencies([k \in DOMAIN coded |-> coded[k].lit] \o <<EndOfBlock>>, LitSymbols)
        dist == Frequencies([k \in DOMAIN dists |-> dists[k].dist[1]], DistSymbols)
    IN  Costed(coded, Declaring(CodeLengths(lit, MaxCodeBits), CodeLengths(dist, MaxCodeBits)))

Header(last, form) == LowFirst(IF last THEN 1 ELSE 0, 1) \o LowFirst(form, 2)
FixedDist == [k \in 1 .. DistSymbols |-> FixedDistBits]

\* The symbols of a block and its end, under a pair of codes.
CodedSymbols(coded, lit, dist) ==
    FlattenSeq([k \in DOMAIN coded |->
        lit[coded[k].lit + 1] \o coded[k].extra
          \o (IF IsMatch(coded[k]) THEN dist[coded[k].dist[1] + 1] ELSE <<>>) \o coded[k].distExtra])
      \o lit[EndOfBlock + 1]

Bytes(bytes) == FlattenSeq([k \in DOMAIN bytes |-> LowFirst(bytes[k], ByteBits)])

\* The length in two bytes and its complement, aligned.
Stored(bits, input, last) ==
    LET opened == bits \o Header(last, 0)
    IN  opened \o Padding(opened, ByteBits)
          \o LowFirst(Len(input), LenBits) \o LowFirst(2 ^ LenBits - 1 - Len(input), LenBits)
          \o Bytes(input)

FixedBlock(bits, coded, last) ==
    bits \o Header(last, 1) \o CodedSymbols(coded, CodeOf(FixedLengths), CodeOf(FixedDist))

DynamicBlock(bits, coded, plan, last) ==
    LET cl == CodeOf(plan.cl)
    IN  bits \o Header(last, 2)
          \o LowFirst(plan.hlit - MinHlit, FieldBits.hlit)
          \o LowFirst(plan.hdist - MinHdist, FieldBits.hdist)
          \o LowFirst(plan.hclen - MinHclen, FieldBits.hclen)
          \o FlattenSeq([k \in 1 .. plan.hclen |-> LowFirst(plan.cl[ClOrder[k] + 1], FieldBits.cl)])
          \o FlattenSeq([k \in DOMAIN plan.runs |->
                cl[plan.runs[k][1] + 1] \o LowFirst(plan.runs[k][2], RunExtraBits(plan.runs[k][1]))])
          \o CodedSymbols(coded, CodeOf(plan.lit), CodeOf(plan.dist))

FixedBits(coded) == 3 + CodedBits(coded, FixedLengths, FixedDist)
StoredBits(bits, input) ==
    3 + Len(Padding(bits \o Zeros(3), ByteBits)) + 2 * LenBits + ByteBits * Len(input)

\* Emitter::block: ties go to the form that is simpler to decode.
Smallest(bits, input, coded, plan, last) ==
    LET stored == StoredBits(bits, input)
        fixed == FixedBits(coded)
    IN  CASE stored <= fixed /\ stored <= plan.bits -> Stored(bits, input, last)
          [] ~ (stored <= fixed /\ stored <= plan.bits) /\ fixed <= plan.bits ->
                FixedBlock(bits, coded, last)
          [] OTHER -> DynamicBlock(bits, coded, plan, last)

Block(bits, input, coded, last) == Smallest(bits, input, coded, Plan(coded), last)

\* adler32: two running sums.
Sums(data) ==
    FoldLeft(LAMBDA s, byte : [a |-> (s.a + byte) % AdlerMod, b |-> (s.b + s.a + byte) % AdlerMod],
             [a |-> 1, b |-> 0], data)

\* e is the bits so far and the matcher.
WithBlock(e, data, pos, end, found) ==
    [bits |-> Block(e.bits, SubSeq(data, pos + 1, end), CodedOf(found.syms), end = Len(data)),
     matcher |-> found.matcher]

\* A block of every MaxBlock bytes; one, of none, when there are none.
Blocks(data) ==
    LET end(k) == Shorter(Len(data), k * MaxBlock)
        block(e, k) == WithBlock(e, data, (k - 1) * MaxBlock, end(k),
                                 Symbols(e.matcher, data, (k - 1) * MaxBlock, end(k)))
    IN  FoldLeft(block, [bits |-> <<>>, matcher |-> NewMatcher],
                 Upto(Max({1, (Len(data) + MaxBlock - 1) \div MaxBlock})))

Packed(bits) ==
    LET units == Units(bits \o Padding(bits, ByteBits), ByteBits)
    IN  [k \in DOMAIN units |-> FromLow(units[k])]

\* The sums go out with their most significant byte first.
Trailer(sums) ==
    LET bytes == Units(HighFirst(sums.b, LenBits) \o HighFirst(sums.a, LenBits), ByteBits)
    IN  [k \in DOMAIN bytes |-> FromHigh(bytes[k])]

Compress(data) == ZlibHeader \o Packed(Blocks(data).bits) \o Trailer(Sums(data))
-----------------------------------------------------------------------------
(* Inflating: a byte at a time                                             *)

\* Table::from_lengths: how many codes each length has, and the symbols in
\* code order.
Table(lengths) ==
    [counts |-> [n \in 1 .. MaxBits |-> Cardinality({s \in DOMAIN lengths : lengths[s] = n})],
     symbols |-> SortSeq(SelectSeq(Upto(Len(lengths)), LAMBDA s : lengths[s] # 0), LAMBDA s, t :
                    lengths[s] < lengths[t] \/ (lengths[s] = lengths[t] /\ s < t))]

NoTable == Table(<<>>)
NoSymbol == [code |-> 0, first |-> 0, index |-> 0, len |-> 0]

\* A code is read bit by bit through the counts, so it can wait within a word.
WithBit(symbol, bit) == [symbol EXCEPT !.code = @ + bit, !.len = @ + 1]
IsWhole(symbol, table) == symbol.code - table.counts[symbol.len] < symbol.first
Longer(symbol, table) ==
    LET count == table.counts[symbol.len]
    IN  [symbol EXCEPT !.index = @ + count, !.first = 2 * (@ + count), !.code = 2 * @]

Inflater ==
    [bits |-> <<>>, state |-> "Header", n |-> 0, got |-> <<>>, len |-> 0, index |-> 0,
     last |-> FALSE, symbol |-> NoSymbol, lit |-> NoTable, dist |-> NoTable,
     window |-> [k \in 0 .. Window - 1 |-> 0], written |-> 0, a |-> 1, b |-> 0,
     hlit |-> 0, hdist |-> 0, hclen |-> 0, cl |-> <<>>, clTable |-> NoTable, lengths |-> <<>>,
     status |-> "more", out |-> <<>>]

Failed(d) == [d EXCEPT !.status = "error"]
To(d, state) == [d EXCEPT !.state = state, !.n = 0, !.got = <<>>]
Reading(d, state) == [To(d, state) EXCEPT !.symbol = NoSymbol]

Emit(d, byte) ==
    LET a == (d.a + byte) % AdlerMod
    IN  [d EXCEPT !.window[d.written % Window] = byte, !.written = @ + 1,
                  !.a = a, !.b = (@ + a) % AdlerMod, !.out = Append(@, byte)]

\* Byte by byte, so that an overlapping reference repeats.
Copied(d, len, distance) ==
    IF distance > d.written \/ distance = 0 THEN Failed(d)
    ELSE FoldLeft(LAMBDA e, k : Emit(e, e.window[(e.written - distance) % Window]), d, Upto(len))

Aligned(d) == [d EXCEPT !.bits = SubSeq(@, 1 + (Len(@) % ByteBits), Len(@))]
AfterBlock(d) == IF d.last THEN To(Aligned(d), "Trailer") ELSE To(d, "BlockHeader")

\* The bits a step takes, a code one at a time; none if it only changes state.
Needs(d) ==
    CASE d.state = "BlockHeader" -> 3
      [] d.state \in {"StoredHeader", "Trailer"} -> ByteBits
      [] d.state = "StoredData" -> IF d.len = 0 THEN 0 ELSE ByteBits
      [] d.state = "DynamicHeader" -> FieldBits.hlit + FieldBits.hdist + FieldBits.hclen
      [] d.state = "CodeLengthCode" -> IF d.n = d.hclen THEN 0 ELSE FieldBits.cl
      [] d.state = "CodeLengths" -> IF Len(d.lengths) = d.hlit + d.hdist THEN 0 ELSE 1
      [] d.state = "Repeat" -> RunExtraBits(d.index)
      [] d.state \in {"Symbol", "DistanceSymbol"} -> 1
      [] d.state = "LengthExtra" -> LengthExtra[d.index]
      [] d.state = "DistanceExtra" -> DistExtra[d.index]

BlockHeader(d, v) ==
    LET form == v \div 2
        e == [d EXCEPT !.last = v % 2 = 1]
    IN  CASE form = 0 -> To(Aligned(e), "StoredHeader")
          [] form = 1 -> [Reading(e, "Symbol") EXCEPT !.lit = Table(FixedLengths),
                                                      !.dist = Table(FixedDist)]
          [] form = 2 -> To(e, "DynamicHeader")
          [] OTHER -> Failed(e)

\* Two bytes of length and two of its complement, the low one first.
StoredHeader(d, v) ==
    LET got == d.got \o LowFirst(v, ByteBits)
        len == FromLow(SubSeq(got, 1, LenBits))
        complement == FromLow(SubSeq(got, LenBits + 1, 2 * LenBits))
    IN  CASE Len(got) < 2 * LenBits -> [d EXCEPT !.got = got]
          [] Len(got) = 2 * LenBits /\ complement # 2 ^ LenBits - 1 - len -> Failed(d)
          [] OTHER -> [To(d, "StoredData") EXCEPT !.len = len]

StoredData(d, v) == IF d.len = 0 THEN AfterBlock(d) ELSE Emit([d EXCEPT !.len = @ - 1], v)

DynamicHeader(d, v) ==
    LET hlit == (v % (2 ^ FieldBits.hlit)) + MinHlit
        hdist == ((v \div 2 ^ FieldBits.hlit) % (2 ^ FieldBits.hdist)) + MinHdist
        hclen == (v \div 2 ^ (FieldBits.hlit + FieldBits.hdist)) + MinHclen
    IN  IF hlit > LitSymbols \/ hdist > DistSymbols THEN Failed(d)
        ELSE [To(d, "CodeLengthCode") EXCEPT !.hlit = hlit, !.hdist = hdist, !.hclen = hclen,
                                             !.cl = [k \in 1 .. ClSymbols |-> 0]]

CodeLengthCode(d, v) ==
    IF d.n = d.hclen THEN [Reading(d, "CodeLengths") EXCEPT !.clTable = Table(d.cl), !.lengths = <<>>]
    ELSE [d EXCEPT !.cl[ClOrder[d.n + 1] + 1] = v, !.n = @ + 1]

GotLength(d, sym) ==
    IF sym <= MaxCodeBits THEN [d EXCEPT !.lengths = Append(@, sym)]
    ELSE [To(d, "Repeat") EXCEPT !.index = sym]

GotSymbol(d, sym) ==
    CASE sym < EndOfBlock -> Emit(d, sym)
      [] sym = EndOfBlock -> AfterBlock(d)
      [] sym > EndOfBlock /\ sym < LitSymbols -> [To(d, "LengthExtra") EXCEPT !.index = sym - EndOfBlock]
      [] OTHER -> Failed(d)

GotDistance(d, sym) == [To(d, "DistanceExtra") EXCEPT !.index = sym + 1]

\* A bit of a code word: the code fails, goes on, or is one of a symbol.
Read(d, table, bit) ==
    LET symbol == WithBit(d.symbol, bit)
        sym == table.symbols[symbol.index + symbol.code - symbol.first + 1] - 1
        ready == [d EXCEPT !.symbol = NoSymbol]
    IN  CASE IsWhole(symbol, table) ->
                (CASE d.state = "CodeLengths" -> GotLength(ready, sym)
                   [] d.state = "Symbol" -> GotSymbol(ready, sym)
                   [] d.state = "DistanceSymbol" -> GotDistance(ready, sym))
          [] ~ IsWhole(symbol, table) /\ symbol.len = MaxBits -> Failed(d)
          [] OTHER -> [d EXCEPT !.symbol = Longer(symbol, table)]

CodeLengthsState(d, bit) ==
    CASE Len(d.lengths) < d.hlit + d.hdist -> Read(d, d.clTable, bit)
      [] Len(d.lengths) = d.hlit + d.hdist /\ d.lengths[EndOfBlock + 1] = 0 -> Failed(d)
      [] OTHER -> [Reading(d, "Symbol") EXCEPT
                     !.lit = Table(SubSeq(d.lengths, 1, d.hlit)),
                     !.dist = Table(SubSeq(d.lengths, d.hlit + 1, Len(d.lengths)))]

RepeatState(d, v) ==
    LET times == RepeatBase[RepeatOf(d.index)] + v
    IN  IF (d.index = Lasting /\ d.lengths = <<>>) \/ Len(d.lengths) + times > d.hlit + d.hdist
        THEN Failed(d)
        ELSE [To(d, "CodeLengths") EXCEPT
                !.lengths = @ \o [k \in 1 .. times |-> IF d.index = Lasting THEN Last(@) ELSE 0]]

LengthExtraState(d, v) == [Reading(d, "DistanceSymbol") EXCEPT !.len = LengthBase[d.index] + v]

DistanceExtraState(d, v) == Copied(Reading(d, "Symbol"), d.len, DistBase[d.index] + v)

\* The sums, their most significant byte first.
TrailerState(d, v) ==
    LET got == d.got \o HighFirst(v, ByteBits)
    IN  CASE Len(got) < 2 * LenBits -> [d EXCEPT !.got = got]
          [] Len(got) = 2 * LenBits /\ FromHigh(SubSeq(got, 1, LenBits)) = d.b
               /\ FromHigh(SubSeq(got, LenBits + 1, 2 * LenBits)) = d.a ->
                [To(d, "Done") EXCEPT !.status = "end"]
          [] OTHER -> Failed(d)

Step(d, v) ==
    CASE d.state = "BlockHeader" -> BlockHeader(d, v)
      [] d.state = "StoredHeader" -> StoredHeader(d, v)
      [] d.state = "StoredData" -> StoredData(d, v)
      [] d.state = "DynamicHeader" -> DynamicHeader(d, v)
      [] d.state = "CodeLengthCode" -> CodeLengthCode(d, v)
      [] d.state = "CodeLengths" -> CodeLengthsState(d, v)
      [] d.state = "Repeat" -> RepeatState(d, v)
      [] d.state = "Symbol" -> Read(d, d.lit, v)
      [] d.state = "LengthExtra" -> LengthExtraState(d, v)
      [] d.state = "DistanceSymbol" -> Read(d, d.dist, v)
      [] d.state = "DistanceExtra" -> DistanceExtraState(d, v)
      [] d.state = "Trailer" -> TrailerState(d, v)

\* Steps until bits are missing or the stream is done.
RECURSIVE Steps(_)
Steps(d) ==
    IF d.status # "more" \/ Len(d.bits) < Needs(d) THEN d
    ELSE Steps(Step([d EXCEPT !.bits = SubSeq(@, Needs(d) + 1, Len(@))],
                    FromLow(SubSeq(d.bits, 1, Needs(d)))))

HeaderByte(d, byte) ==
    LET got == Append(d.got, byte)
        fits == {h \in Headers : IsPrefix(got, h)}
    IN  CASE fits = {} -> Failed(d)
          [] fits # {} /\ Len(got) = 1 -> [d EXCEPT !.got = got]
          [] OTHER -> To(d, "BlockHeader")

\* Inflater::push.
Push(d, byte) ==
    CASE d.state = "Done" -> Failed(d)
      [] d.state = "Header" -> HeaderByte(d, byte)
      [] OTHER -> Steps([d EXCEPT !.bits = @ \o LowFirst(byte, ByteBits)])
=============================================================================

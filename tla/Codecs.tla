-------------------------------- MODULE Codecs --------------------------------
(***************************************************************************)
(* An encode filter, the data between, and a decode filter over it         *)
(* (efterscript-vm, encoders.rs and decoders.rs, on efterscript-codec and  *)
(* the cipher of efterscript-fonts).  A program writes slices, flushes and *)
(* closes; a reader takes what has been written a unit at a time, and the  *)
(* data may end under it anywhere.  A unit is a byte, or a character of a  *)
(* text form.  Each filter has bytes as narrow as its cases allow.         *)
(***************************************************************************)
EXTENDS Integers, FiniteSets, Sequences, SequencesExt, Functions

CONSTANTS
    Kinds,          \* the filters: records with the parameters of each
    Inputs(_),      \* what a reader of a kind is meant to get, or a sub-file's base
    FlateBits, LzwBits, TextBits, RunBits,   \* bits of a byte
    LengthBase, LengthExtra, DistBase, DistExtra, RepeatBase, RepeatExtra, ClOrder,
    FixedLengths, FixedDistBits, FieldBits, Window, MaxBlock, MaxMatch, ChainLimit, GoodEnough,
    Hashes, MaxCodeBits, MaxClBits, AdlerMod, ZlibHeader, Headers,
    MinWidth, MaxWidth,
    HexLine, Base85Line, GroupBytes, GroupDigits, Base, Key, C1, C2,
    MaxUsed         \* alphabets up to this size are searched for a better code

VARIABLES
    kind,
    meant,     \* what the reader should get
    source,    \* what is written, and
    written,   \* how much of it has been
    encoder,   \* its `out` is the data between
    flushed,   \* how much had been at the last flush
    closed,
    decoder,
    fed,       \* units the decoder has had
    cut        \* the data ended

vars == <<kind, meant, source, written, encoder, flushed, closed, decoder, fed, cut>>

F == INSTANCE Flate WITH ByteBits <- FlateBits
L == INSTANCE Lzw WITH ByteBits <- LzwBits
T == INSTANCE Filters WITH ByteBits <- TextBits
R == INSTANCE Filters WITH ByteBits <- RunBits
PF == INSTANCE Predictor WITH ByteBits <- FlateBits
PL == INSTANCE Predictor WITH ByteBits <- LzwBits

ASSUME Parameters ==
    F!FlateParameters /\ L!LzwParameters /\ T!FilterParameters /\ RunBits \in Nat \ {0, 1}

IsPredicted == kind.row # <<>>
-----------------------------------------------------------------------------
(* What a reader should get                                                *)

\* Prediction is the writer's: each byte less what its neighbours predict, each
\* sample less the one a pixel before; a partial row as it is.
PngRow(p, tag, previous, row) ==
    LET before(r, i) == IF i > p.bpp THEN r[i - p.bpp] ELSE 0
    IN  [i \in DOMAIN row |->
            (row[i] - PF!Predicted(tag, before(row, i), previous[i], before(previous, i)))
              % (IF kind.codec = "flate" THEN 2 ^ FlateBits ELSE 2 ^ LzwBits)]

TiffRow(p, row) ==
    LET bits == PL!Spread(row, LzwBits)
        used == p.columns * p.colors * p.bits
        samples == PL!Gathered(SubSeq(bits, 1, used), p.bits)
        less == [k \in DOMAIN samples |->
                    IF k <= p.colors THEN samples[k]
                    ELSE (samples[k] - samples[k - p.colors]) % (2 ^ p.bits)]
    IN  PL!Gathered(PL!Spread(less, p.bits) \o SubSeq(bits, used + 1, Len(bits)), LzwBits)

Unpredicted ==
    IF kind.codec = "flate"
    THEN PF!Predictor(kind.row.kind, kind.row.colors, kind.row.bits, kind.row.columns)
    ELSE PL!Predictor(kind.row.kind, kind.row.colors, kind.row.bits, kind.row.columns)

RECURSIVE Rows(_, _, _)
Rows(p, data, n) ==
    LET row == SubSeq(data, 1, p.row)
        tag == kind.row.tags[1 + (n % Len(kind.row.tags))]
        now == CASE Len(data) < p.row -> data
                 [] Len(data) >= p.row /\ p.kind = "png" -> PngRow(p, tag, p.previous, row)
                 [] Len(data) >= p.row /\ p.kind = "tiff" -> TiffRow(p, row)
    IN  IF data = <<>> THEN <<>>
        ELSE (IF p.kind = "png" THEN <<tag>> ELSE <<>>) \o now
               \o Rows([p EXCEPT !.previous = row], SubSeq(data, p.row + 1, Len(data)), n + 1)

\* Where the data of a sub-file ends in its base, the marker included; None if
\* nowhere.  Occurrences do not overlap.
RECURSIVE SubFileEnd(_, _, _)
SubFileEnd(count, data, from) ==
    LET n == Len(kind.pattern)
        ends == {k \in from + n .. Len(data) : SubSeq(data, k - n + 1, k) = kind.pattern}
        next == CHOOSE k \in ends : \A other \in ends : k <= other
    IN  CASE n = 0 -> IF count \in 1 .. Len(data) THEN <<count>> ELSE <<>>
          [] n > 0 /\ ends = {} -> <<>>
          [] n > 0 /\ ends # {} ->
                IF count <= 1 THEN <<next>> ELSE SubFileEnd(count - 1, data, next)

SubFileData(data) ==
    LET end == SubFileEnd(kind.count, data, 0)
    IN  CASE end = <<>> -> data
          [] end # <<>> /\ (kind.count > 0 \/ kind.pattern = <<>>) -> SubSeq(data, 1, end[1])
          [] OTHER -> SubSeq(data, 1, end[1] - Len(kind.pattern))
-----------------------------------------------------------------------------
(* Encoders                                                                *)

NewEncoder ==
    CASE kind.codec = "hex" -> T!HexEncoder
      [] kind.codec = "base85" -> T!Base85Encoder
      [] kind.codec = "runlength" -> R!RunEncoder(kind.record)
      [] kind.codec \in {"flate", "lzw", "eexec"} -> [buffer |-> <<>>, out |-> <<>>]
      [] kind.codec = "subfile" -> [out |-> <<>>]

\* Flate and LZW hold everything, Null holds nothing.
Pushed(e, bytes) ==
    CASE kind.codec = "hex" -> FoldLeft(T!HexPut, e, bytes)
      [] kind.codec = "base85" -> FoldLeft(T!Base85Put, e, bytes)
      [] kind.codec = "runlength" -> R!RunWrite(e, bytes)
      [] kind.codec \in {"flate", "lzw", "eexec"} -> [e EXCEPT !.buffer = @ \o bytes]
      [] kind.codec = "subfile" -> [e EXCEPT !.out = @ \o bytes]

\* Runs are decided where they are; a flush of another encoder does nothing.
Flushed(e) == R!Drain(e, TRUE)

Finished(e) ==
    CASE kind.codec = "hex" -> T!HexFinish(e)
      [] kind.codec = "base85" -> T!Base85Finish(e)
      [] kind.codec = "runlength" -> R!RunFinish(e)
      [] kind.codec = "flate" -> [e EXCEPT !.out = F!Compress(e.buffer)]
      [] kind.codec = "lzw" -> [e EXCEPT !.out = L!Encode(e.buffer, kind.early)]
      [] kind.codec = "eexec" ->
            [e EXCEPT !.out = IF kind.hex THEN T!EncryptHex(e.buffer) ELSE T!EncryptBinary(e.buffer)]
      [] kind.codec = "subfile" -> e
-----------------------------------------------------------------------------
(* Decoders                                                                *)

\* A decompressor and, when there is one, the predictor after it.
Decompressor(inner) ==
    [inner |-> inner, predictor |-> IF IsPredicted THEN <<Unpredicted>> ELSE <<>>,
     status |-> "more", out |-> <<>>]

NewDecoder ==
    CASE kind.codec = "hex" -> T!HexDecoder
      [] kind.codec = "base85" -> T!Base85Decoder
      [] kind.codec = "runlength" -> R!RunDecoder
      [] kind.codec = "flate" -> Decompressor(F!Inflater)
      [] kind.codec = "lzw" -> Decompressor(L!Decoder(kind.early))
      [] kind.codec = "subfile" -> T!SubFileDecoder(kind.count, kind.pattern)
      [] kind.codec = "eexec" -> T!EexecDecoder

PredictorPush(w, byte) == IF kind.codec = "flate" THEN PF!PushByte(w, byte) ELSE PL!PushByte(w, byte)

\* predicted: what was decompressed goes through the predictor.
Routed(d, inner) ==
    LET w == FoldLeft(PredictorPush, [predictor |-> d.predictor[1], out |-> d.out], inner.out)
        taken == [d EXCEPT !.inner = [inner EXCEPT !.out = <<>>], !.status = inner.status]
    IN  CASE inner.status = "error" -> [d EXCEPT !.status = "error"]
          [] inner.status # "error" /\ d.predictor = <<>> -> [taken EXCEPT !.out = @ \o inner.out]
          [] OTHER -> [taken EXCEPT !.predictor = <<w.predictor>>, !.out = w.out]

\* The row a predictor holds goes out as it is.
Unheld(d) ==
    LET w == PF!Flush([predictor |-> d.predictor[1], out |-> d.out])
    IN  IF d.predictor = <<>> THEN d ELSE [d EXCEPT !.predictor = <<w.predictor>>, !.out = w.out]

\* So it does when the data ends by itself.
Closed(d) == IF d.status = "end" THEN Unheld(d) ELSE d
DecompressorPush(d, inner) == Closed(Routed(d, inner))

Push(d, unit) ==
    CASE kind.codec = "hex" -> T!HexPush(d, unit)
      [] kind.codec = "base85" -> T!Base85Push(d, unit)
      [] kind.codec = "runlength" -> R!RunPush(d, unit)
      [] kind.codec = "flate" -> DecompressorPush(d, F!Push(d.inner, unit))
      [] kind.codec = "lzw" -> DecompressorPush(d, L!Push(d.inner, unit))
      [] kind.codec = "subfile" -> T!SubFilePush(d, unit)
      [] kind.codec = "eexec" -> T!EexecPush(d, unit)

\* The data ended: what a partial unit still yields.
Ended(d) ==
    CASE kind.codec = "hex" -> T!HexEnd(d)
      [] kind.codec = "base85" -> T!Base85End(d)
      [] kind.codec = "runlength" -> d
      [] kind.codec \in {"flate", "lzw"} -> Unheld(d)
      [] kind.codec = "subfile" -> T!SubFileEnd(d)
      [] kind.codec = "eexec" -> T!EexecEnd(d)

\* Whether the data ends by itself: the cipher's binary form, and a sub-file
\* whose end its base does not hold, do not.
EndsItself ==
    CASE kind.codec = "subfile" -> SubFileEnd(kind.count, source, 0) # <<>>
      [] kind.codec = "eexec" -> kind.hex
      [] OTHER -> TRUE
-----------------------------------------------------------------------------
(* Writing and reading                                                     *)

Init ==
    /\ kind \in Kinds
    /\ \E data \in Inputs(kind) :
          /\ meant = IF kind.codec = "subfile" THEN SubFileData(data) ELSE data
          /\ source = IF IsPredicted THEN Rows(Unpredicted, data, 0) ELSE data
    /\ written = 0 /\ flushed = 0 /\ fed = 0
    /\ closed = FALSE /\ cut = FALSE
    /\ encoder = NewEncoder /\ decoder = NewDecoder

Write(n) ==
    /\ ~ closed /\ written + n <= Len(source)
    /\ encoder' = Pushed(encoder, SubSeq(source, written + 1, written + n))
    /\ written' = written + n
    /\ UNCHANGED <<kind, meant, source, flushed, closed, decoder, fed, cut>>

Flush ==
    /\ ~ closed /\ kind.codec = "runlength"
    /\ encoder' = Flushed(encoder) /\ flushed' = written
    /\ UNCHANGED <<kind, meant, source, written, closed, decoder, fed, cut>>

Close ==
    /\ ~ closed /\ written = Len(source)
    /\ encoder' = Finished(encoder) /\ closed' = TRUE
    /\ UNCHANGED <<kind, meant, source, written, flushed, decoder, fed, cut>>

Feed ==
    /\ decoder.status = "more" /\ ~ cut /\ fed < Len(encoder.out)
    /\ decoder' = Push(decoder, encoder.out[fed + 1])
    /\ fed' = fed + 1
    /\ UNCHANGED <<kind, meant, source, written, encoder, flushed, closed, cut>>

\* Wherever the reader has come to.
BaseEnds ==
    /\ closed /\ decoder.status = "more" /\ ~ cut
    /\ decoder' = Ended(decoder) /\ cut' = TRUE
    /\ UNCHANGED <<kind, meant, source, written, encoder, flushed, closed, fed>>

Next == (\E n \in 1 .. kind.slice : Write(n)) \/ Flush \/ Close \/ Feed \/ BaseEnds

Spec == Init /\ [][Next]_vars
-----------------------------------------------------------------------------
(* Properties                                                              *)

\* Bytes an encoder may not be holding: a flush releases runs, not whole buffers.
Promised ==
    CASE kind.codec = "hex" -> written
      [] kind.codec = "base85" -> written - (written % GroupBytes)
      [] kind.codec = "runlength" -> flushed
      [] OTHER -> 0

\* Partial units yield what they can, which need not be what was meant: a lone
\* digit the high half of a byte, a part of a group its highest value, a part of
\* a row its differences, a part of a marker data.
PartialUnits == kind.codec \in {"hex", "base85", "subfile"} \/ IsPredicted

\* What was written comes back (encoders.rs and decoders.rs, the codec crate):
\* whatever the slices, no byte is wrong on the way; what the encoder may not hold,
\* after a flush above all, has come when the reader has caught up; the data
\* ends with the last unit of its marker, never before, never after, with all
\* of it out; and data cut short gives the beginning of what was meant.
RoundTrip ==
    /\ ~ cut => decoder.status # "error"
    /\ (~ cut \/ ~ PartialUnits) => IsPrefix(decoder.out, meant)
    /\ decoder.status \in {"end", "before"} =>
          /\ decoder.out = meant
          /\ fed = IF kind.codec = "subfile" THEN SubFileEnd(kind.count, source, 0)[1]
                   ELSE Len(encoder.out)
    /\ closed /\ fed = Len(encoder.out) =>
          /\ EndsItself => decoder.status # "more"
          /\ (~ EndsItself /\ cut) => decoder.out = meant
    /\ (kind.codec = "subfile" /\ cut) => decoder.out = SubFileData(SubSeq(source, 1, fed))
    /\ (fed = Len(encoder.out) /\ ~ cut) => Len(decoder.out) >= Promised

\* Codes of the symbols in use, none longer than the limit.
Lengths(used, limit) == [used -> 1 .. limit]
SumOf(numbers) == FoldFunction(LAMBDA x, y : x + y, 0, numbers)
Fits(lengths, used, limit) == SumOf([s \in used |-> 2 ^ (limit - lengths[s])]) <= 2 ^ limit
Cost(lengths, freqs, used) == SumOf([s \in used |-> lengths[s] * freqs[s]])

IsBest(lengths, freqs, limit) ==
    LET used == {s \in DOMAIN freqs : freqs[s] # 0}
    IN  (Cardinality(used) \in 2 .. MaxUsed) =>
          /\ \A s \in used : lengths[s] \in 1 .. limit
          /\ Fits(lengths, used, limit)
          /\ \A other \in Lengths(used, limit) :
                Fits(other, used, limit) => Cost(lengths, freqs, used) <= Cost(other, freqs, used)

\* Of each length the best code, of the three forms the smallest.
Frugal(coded, plan) ==
    LET sizes == {plan.bits, F!FixedBits(coded), F!StoredBits(<<>>, source)}
        best == CHOOSE b \in sizes : \A other \in sizes : b <= other
        runs == [k \in DOMAIN plan.runs |-> plan.runs[k][1]]
        literals == [k \in DOMAIN coded |-> coded[k].lit] \o <<F!EndOfBlock>>
    IN  /\ IsBest(plan.cl, F!Frequencies(runs, F!ClSymbols), MaxClBits)
        /\ IsBest(plan.lit, F!Frequencies(literals, F!LitSymbols), MaxCodeBits)
        /\ Len(encoder.out) = Len(ZlibHeader) + (2 * F!LenBits) \div FlateBits
                                + PF!UpDiv(best, FlateBits)

FrugalOf(coded) == Frugal(coded, F!Plan(coded))

\* What the formats leave open (encoders.rs:10, deflate.rs:580 and :306): lines are
\* full before they break; no run crosses the end of a record; the codes of a
\* dynamic block are the best of their length, and the form of a block the
\* smallest of the three.
ChoicesKept ==
    /\ kind.codec \in {"hex", "base85"} =>
          LET line == IF kind.codec = "hex" THEN HexLine ELSE Base85Line
          IN  \A k \in DOMAIN encoder.out :
                (encoder.out[k].kind = "newline") <=> (k % (line + 1) = 0 /\ encoder.out[k].kind \notin {">", "~"})
    /\ (kind.codec = "runlength" /\ kind.record > 0 /\ decoder.state # "start") =>
          Len(decoder.out) \div kind.record = (Len(decoder.out) + decoder.left - 1) \div kind.record
    /\ (kind.codec = "flate" /\ closed /\ fed = 0 /\ ~ cut /\ Len(source) <= MaxBlock) =>
          FrugalOf(F!CodedOf(F!Symbols(F!NewMatcher, source, 0, Len(source)).syms))
===============================================================================

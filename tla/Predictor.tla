------------------------------- MODULE Predictor -------------------------------
(***************************************************************************)
(* The row predictors of the Flate and LZW filters (efterscript-codec,     *)
(* predictor.rs): what is decompressed is collected into rows, and a whole *)
(* row is unfiltered against the one before it.                            *)
(***************************************************************************)
EXTENDS Bits

CONSTANT ByteBits   \* 8 in the program

UpDiv(a, b) == (a + b - 1) \div b
ByteValues == 2 ^ ByteBits

None == <<>>

\* Predictor::new; tag is what stands before a row of the PNG kind.
Predictor(kind, colors, bits, columns) ==
    LET row == UpDiv(colors * bits * columns, ByteBits)
    IN  [kind |-> kind, colors |-> colors, bits |-> bits, columns |-> columns, row |-> row,
         bpp |-> UpDiv(colors * bits, ByteBits), previous |-> Zeros(row), current |-> <<>>,
         tag |-> None]

Distance(a, b) == IF a > b THEN a - b ELSE b - a

\* The neighbour closest to their linear estimate, ties going left, then up.
Paeth(left, up, corner) ==
    LET p == left + up - corner
        a == Distance(p, left)  b == Distance(p, up)  c == Distance(p, corner)
    IN  CASE a <= b /\ a <= c -> left
          [] ~ (a <= b /\ a <= c) /\ b <= c -> up
          [] OTHER -> corner

Predicted(tag, left, up, corner) ==
    CASE tag = 1 -> left
      [] tag = 2 -> up
      [] tag = 3 -> (left + up) \div 2
      [] tag = 4 -> Paeth(left, up, corner)
      [] OTHER -> 0

\* In place: what is left of a byte has been unfiltered already.
UnfilterPng(tag, bpp, previous, row) ==
    LET before(r, i) == IF i > bpp THEN r[i - bpp] ELSE 0
        unfilter(r, i) ==
            [r EXCEPT ![i] = (@ + Predicted(tag, before(r, i), previous[i], before(previous, i)))
                               % ByteValues]
    IN  FoldLeft(unfilter, row, [i \in DOMAIN row |-> i])

\* Bits of bytes and back, samples and back.
Spread(values, n) == FlattenSeq([k \in DOMAIN values |-> HighFirst(values[k], n)])
Gathered(bits, n) == LET units == Units(bits, n) IN [k \in DOMAIN units |-> FromHigh(units[k])]

\* undo_tiff: each sample is a difference from the one a pixel before it, of
\* whatever width; the padding of a row stays.
UndoTiff(p, row) ==
    LET bits == Spread(row, ByteBits)
        used == p.columns * p.colors * p.bits
        undo(s, k) == IF k <= p.colors THEN s
                      ELSE [s EXCEPT ![k] = (@ + s[k - p.colors]) % (2 ^ p.bits)]
        deltas == Gathered(SubSeq(bits, 1, used), p.bits)
        samples == FoldLeft(undo, deltas, [k \in DOMAIN deltas |-> k])
    IN  Gathered(Spread(samples, p.bits) \o SubSeq(bits, used + 1, Len(bits)), ByteBits)

\* A completed row goes out and is what the next one is unfiltered against.
FinishRow(p, out) ==
    LET row == IF p.kind = "png" THEN UnfilterPng(p.tag[1], p.bpp, p.previous, p.current)
               ELSE UndoTiff(p, p.current)
    IN  [predictor |-> [p EXCEPT !.tag = None, !.previous = row, !.current = <<>>],
         out |-> out \o row]

\* w is a predictor and what it has put out.
PushByte(w, byte) ==
    LET p == w.predictor
        grown == [p EXCEPT !.current = Append(@, byte)]
    IN  CASE p.kind = "png" /\ p.tag = None -> [w EXCEPT !.predictor.tag = <<byte>>]
          [] (p.kind = "tiff" \/ p.tag # None) /\ Len(grown.current) = p.row ->
                FinishRow(grown, w.out)
          [] OTHER -> [w EXCEPT !.predictor = grown]

\* A partial last row is passed as it is.
Flush(w) ==
    [predictor |-> [w.predictor EXCEPT !.current = <<>>, !.tag = None],
     out |-> w.out \o w.predictor.current]
=============================================================================

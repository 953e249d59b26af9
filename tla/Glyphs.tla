-------------------------------- MODULE Glyphs --------------------------------
(***************************************************************************)
(* What the two charstring interpreters of efterscript-fonts share: the    *)
(* numbers of a charstring and the outline its operators draw.  Numbers    *)
(* are kept to halves, so that a fraction is told from an integer.         *)
(***************************************************************************)
EXTENDS Integers, Sequences, SequencesExt, FiniteSets, FiniteSetsExt

Unit == 2
Number(n) == n * Unit
Whole(v) == v % Unit = 0
Trunc(v) == IF v >= 0 THEN v \div Unit ELSE -((-v) \div Unit)   \* as i32
Size(v) == IF v < 0 THEN -v ELSE v

FirstOf(s, n) == SubSeq(s, 1, n)
LastOf(s, n) == SubSeq(s, Len(s) - n + 1, Len(s))
Groups(s, n) == [k \in 1 .. Len(s) \div n |-> SubSeq(s, n * (k - 1) + 1, n * k)]
-----------------------------------------------------------------------------
(* Numbers in a charstring.  pc counts the bytes read.                     *)

Byte(code, pc, k) == code[pc + 1 + k]
Signed16(high, low) == LET n == 256 * high + low IN IF n < 32768 THEN n ELSE n - 65536
Signed8(b) == IF b < 128 THEN b ELSE b - 256

Operator == [is |-> "operator"]
Truncated == [is |-> "truncated"]
Read(v, to) == [is |-> "number", value |-> v, to |-> to]

\* The forms of one and two bytes, the same in both charstring types.
ShortNumber(code, pc) ==
    LET v == Byte(code, pc, 0)
        w == Byte(code, pc, 1)
    IN  CASE v \in 32 .. 246 -> Read(Number(v - 139), pc + 1)
          [] v \in 247 .. 254 /\ Len(code) < pc + 2 -> Truncated
          [] v \in 247 .. 250 /\ Len(code) >= pc + 2 -> Read(Number((v - 247) * 256 + w + 108), pc + 2)
          [] v \in 251 .. 254 /\ Len(code) >= pc + 2 -> Read(Number(-(v - 251) * 256 - w - 108), pc + 2)
          [] OTHER -> Operator

IsShort(n) == n \in -1131 .. 1131
EncodeShort(n) ==
    CASE n \in -107 .. 107 -> <<n + 139>>
      [] n \in 108 .. 1131 -> <<(n - 108) \div 256 + 247, (n - 108) % 256>>
      [] n \in -1131 .. -108 -> <<(-n - 108) \div 256 + 251, (-n - 108) % 256>>
-----------------------------------------------------------------------------
(* Outlines: moves, lines and curves by their points                       *)

Path(op, points) == [op |-> op, points |-> points]
Closed == Path("close", <<>>)
Translated(ops, dx, dy) ==
    [k \in DOMAIN ops |->
        [ops[k] EXCEPT !.points = [i \in DOMAIN @ |-> <<@[i][1] + dx, @[i][2] + dy>>]]]

Pen == [ops |-> <<>>, x |-> 0, y |-> 0]
At(pen, x, y) == [pen EXCEPT !.x = x, !.y = y]
Moved(pen, dx, dy) == At(pen, pen.x + dx, pen.y + dy)
MoveTo(pen, dx, dy) ==
    LET to == Moved(pen, dx, dy) IN [to EXCEPT !.ops = Append(@, Path("move", <<<<to.x, to.y>>>>))]

\* A line or a curve, by its steps from point to point.
Stroke(pen, d) ==
    LET points == FoldLeft(LAMBDA ps, step : Append(ps, <<Last(ps)[1] + step[1], Last(ps)[2] + step[2]>>),
                           <<<<pen.x, pen.y>>>>, Groups(d, 2))
        op == Path(IF Len(d) = 2 THEN "line" ELSE "curve", Tail(points))
    IN  [At(pen, Last(points)[1], Last(points)[2]) EXCEPT !.ops = Append(@, op)]
===============================================================================

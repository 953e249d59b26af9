--------------------------------- MODULE Type2 --------------------------------
(***************************************************************************)
(* The Type 2 charstring interpreter (efterscript-fonts,                   *)
(* cff/charstring.rs) and what it traces for the subset writer: the        *)
(* subroutines it ran and how many bytes each hint mask took.              *)
(*                                                                         *)
(* A font is keyed by names or CIDs; names and code give the name (or CID) *)
(* and the charstring of a glyph index, select the dictionary it runs      *)
(* under, of which name-keyed fonts have one.  Subroutines are numbered    *)
(* from 0, the first is subrs[1].  Charstrings are sequences of bytes.     *)
(***************************************************************************)
EXTENDS Glyphs

CONSTANTS
    Few, Many,       \* counts of subroutines from which the bias is larger
    StemsPerByte,    \* stems a byte of a hint mask stands for
    MaxStack, MaxCallDepth,
    Slots,           \* places put and get address
    StandardNames    \* the standard encoding: code -> glyph name

\* What is assumed of them, for the module that instantiates this one.
Type2Parameters ==
    /\ {Few, Many, MaxStack, MaxCallDepth, Slots} \subseteq Nat
    /\ Few <= Many /\ StemsPerByte \in Nat \ {0}
    /\ DOMAIN StandardNames \subseteq 0 .. 255

Bias(count) == IF count < Few THEN 107 ELSE IF count < Many THEN 1131 ELSE 32768

NumberAt(code, pc) ==
    LET v == Byte(code, pc, 0)
        length == IF v = 28 THEN 3 ELSE 5
        high == Signed16(Byte(code, pc, 1), Byte(code, pc, 2))
        low == 256 * Byte(code, pc, 3) + Byte(code, pc, 4)
    IN  CASE v \notin {28, 255} -> ShortNumber(code, pc)
          [] v \in {28, 255} /\ Len(code) < pc + length -> Truncated
          [] v = 28 /\ Len(code) >= pc + 3 -> Read(Number(high), pc + 3)
          [] v = 255 /\ Len(code) >= pc + 5 -> Read(high * Unit + (low * Unit) \div 65536, pc + 5)

\* The glyph of a name or CID: the first, if there are several.
Having(font, name) == {g \in DOMAIN font.names : font.names[g] = name}
Gid(font, name) == Min(Having(font, name))
DictOf(font, gid) == font.dicts[font.select[gid]]
-----------------------------------------------------------------------------
NoWidth == <<>>

Frame(code, site) == [code |-> code, pc |-> 0, site |-> site]
GlyphSite(gid) == <<"glyph", gid>>
LocalSite(k) == <<"local", k>>
GlobalSite(k) == <<"global", k>>

NothingReached == [local |-> {}, global |-> {}, masks |-> {}]
Together(reaches) ==
    [local |-> UNION {r.local : r \in reaches}, global |-> UNION {r.global : r \in reaches},
     masks |-> UNION {r.masks : r \in reaches}]

Machine(font, gid) ==
    [font |-> font, dict |-> DictOf(font, gid), stack |-> <<>>,
     slots |-> [k \in 0 .. Slots - 1 |-> 0], pen |-> Pen, open |-> FALSE, width |-> NoWidth,
     stems |-> 0, seac |-> <<>>, reached |-> NothingReached,
     frames |-> <<Frame(font.code[gid], GlyphSite(gid))>>, end |-> "no"]

Failed(m) == [m EXCEPT !.end = "failed"]
Cleared(m) == [m EXCEPT !.stack = <<>>]
Depth(m) == Len(m.stack)
Advance(m, pc) == [m EXCEPT !.frames[Len(m.frames)].pc = pc]

\* The last k operands give way to others, if there are so many, and room.
Replace(m, k, results) ==
    IF Depth(m) < k \/ Depth(m) - k + Len(results) > MaxStack THEN Failed(m)
    ELSE [m EXCEPT !.stack = FirstOf(@, Len(@) - k) \o results]

\* The first operator that clears the stack may be given the width before the rest.
TakeWidth(m, has) ==
    CASE m.width # NoWidth -> m
      [] m.width = NoWidth /\ has /\ m.stack # <<>> ->
            [m EXCEPT !.width = <<m.dict.nominal + Head(m.stack)>>, !.stack = Tail(@)]
      [] OTHER -> [m EXCEPT !.width = <<m.dict.default>>]

\* hstem, vstem, hstemhm, vstemhm, and what precedes a mask.
TakeStems(m) ==
    LET taken == TakeWidth(m, Depth(m) % 2 = 1)
    IN  Cleared([taken EXCEPT !.stems = @ + Depth(taken) \div 2])

UpDiv(a, b) == (a + b - 1) \div b
Mask(m, at) ==
    LET taken == TakeStems(m)
        bytes == UpDiv(taken.stems, StemsPerByte)
        frame == Last(m.frames)
    IN  IF Len(frame.code) < at + 1 + bytes THEN Failed(m)
        ELSE Advance([taken EXCEPT !.reached.masks = @ \cup {<<frame.site, at, bytes>>}], at + 1 + bytes)

Call(m, local) ==
    LET subrs == IF local THEN m.dict.subrs ELSE m.font.globals
        k == Trunc(Last(m.stack)) + Bias(Len(subrs))
        popped == [m EXCEPT !.stack = Front(@)]
        frame == Frame(subrs[k + 1], IF local THEN LocalSite(k) ELSE GlobalSite(k))
    IN  IF m.stack = <<>> \/ k \notin 0 .. Len(subrs) - 1 \/ Len(m.frames) > MaxCallDepth THEN Failed(m)
        ELSE [popped EXCEPT
                !.frames = Append(@, frame),
                !.reached.local = IF local THEN @ \cup {k} ELSE @,
                !.reached.global = IF local THEN @ ELSE @ \cup {k}]
-----------------------------------------------------------------------------
(* Painting                                                                *)

ClosePath(m) ==
    IF m.open THEN [m EXCEPT !.pen.ops = Append(@, Closed), !.open = FALSE] ELSE m

\* rmoveto, hmoveto, vmoveto
Move(m, op) ==
    LET n == IF op = 21 THEN 2 ELSE 1
        taken == TakeWidth(m, Depth(m) > n)
        d == LastOf(taken.stack, n)
    IN  IF Depth(taken) < n THEN Failed(m)
        ELSE [Cleared(ClosePath(taken)) EXCEPT
                !.pen = CASE op = 21 -> MoveTo(@, d[1], d[2])
                          [] op = 22 -> MoveTo(@, d[1], 0)
                          [] op = 4 -> MoveTo(@, 0, d[1])]

Lines(op, a) ==
    [k \in DOMAIN a |-> IF (k % 2 = 1) = (op = 6) THEN <<a[k], 0>> ELSE <<0, a[k]>>]

\* vvcurveto, hhcurveto: a first operand too many is the other coordinate's.
Straight(op, a) ==
    LET odd == Len(a) % 4
        g == Groups(LastOf(a, Len(a) - odd), 4)
        off(k) == IF k = 1 /\ odd = 1 THEN a[1] ELSE 0
    IN  [k \in DOMAIN g |->
            IF op = 26 THEN <<off(k), g[k][1], g[k][2], g[k][3], 0, g[k][4]>>
            ELSE <<g[k][1], off(k), g[k][2], g[k][3], g[k][4], 0>>]

\* vhcurveto, hvcurveto: a last operand too many is the last point's.
Alternating(op, a) ==
    LET g == Groups(a, 4)
        off(k) == IF k = Len(g) /\ Len(a) % 4 = 1 THEN Last(a) ELSE 0
    IN  [k \in DOMAIN g |->
            IF (k % 2 = 1) = (op = 30) THEN <<0, g[k][1], g[k][2], g[k][3], g[k][4], off(k)>>
            ELSE <<g[k][1], 0, g[k][2], g[k][3], off(k), g[k][4]>>]

Painting == {5, 6, 7, 8, 24, 25, 26, 27, 30, 31}
WellCounted(op, n) ==
    CASE op = 5 -> n > 0 /\ n % 2 = 0
      [] op \in {6, 7} -> n > 0
      [] op = 8 -> n > 0 /\ n % 6 = 0
      [] op = 24 -> n >= 8 /\ (n - 2) % 6 = 0
      [] op = 25 -> n >= 8 /\ (n - 6) % 2 = 0
      [] op \in {26, 27, 30, 31} -> n >= 4 /\ n % 4 \in {0, 1}

Strokes(op, a) ==
    CASE op = 5 -> Groups(a, 2)
      [] op \in {6, 7} -> Lines(op, a)
      [] op = 8 -> Groups(a, 6)
      [] op = 24 -> Append(Groups(FirstOf(a, Len(a) - 2), 6), LastOf(a, 2))
      [] op = 25 -> Append(Groups(FirstOf(a, Len(a) - 6), 2), LastOf(a, 6))
      [] op \in {26, 27} -> Straight(op, a)
      [] op \in {30, 31} -> Alternating(op, a)

Paint(m, strokes) == [Cleared(m) EXCEPT !.pen = FoldLeft(Stroke, @, strokes), !.open = TRUE]

\* hflex, flex, hflex1, flex1: operands, and the two curves they are
FlexSize == [op \in 34 .. 37 |-> <<7, 13, 9, 11>>[op - 33]]
Flex(op, a) ==
    LET dx == a[1] + a[3] + a[5] + a[7] + a[9]
        dy == a[2] + a[4] + a[6] + a[8] + a[10]
    IN  CASE op = 34 -> <<<<a[1], 0, a[2], a[3], a[4], 0>>, <<a[5], 0, a[6], -a[3], a[7], 0>>>>
          [] op = 35 -> Groups(FirstOf(a, 12), 6)
          [] op = 36 -> <<<<a[1], a[2], a[3], a[4], a[5], 0>>,
                          <<a[6], 0, a[7], a[8], a[9], -(a[2] + a[4] + a[8])>>>>
          [] op = 37 -> <<FirstOf(a, 6),
                          SubSeq(a, 7, 10) \o (IF Size(dx) > Size(dy) THEN <<a[11], -dy>> ELSE <<-dx, a[11]>>)>>

\* Also the accent form: displacement, then the codes of base and accent.
EndChar(m) ==
    LET taken == TakeWidth(m, Depth(m) \in {1, 5})
        a == taken.stack
        has(v) == /\ ~m.font.cids
                  /\ Trunc(v) \in DOMAIN StandardNames
                  /\ Having(m.font, StandardNames[Trunc(v)]) # {}
        glyph(v) == Gid(m.font, StandardNames[Trunc(v)])
    IN  IF Len(a) = 4 /\ ~(has(a[3]) /\ has(a[4])) THEN Failed(m)
        ELSE [Cleared(ClosePath(taken)) EXCEPT
                !.seac = IF Len(a) = 4 THEN <<a[1], a[2], glyph(a[3]), glyph(a[4])>> ELSE @,
                !.end = "done"]
-----------------------------------------------------------------------------
(* Arithmetic                                                              *)

Bool(b) == IF b THEN Number(1) ELSE 0
Root(v) == CHOOSE r \in 0 .. v + 1 : r * r <= v * Unit /\ (r + 1) * (r + 1) > v * Unit

\* Operands taken, and what they give.
Arithmetic == {3, 4, 5, 9, 10, 11, 12, 14, 15, 18, 22, 23, 24, 26, 27, 28}
Taken == [e \in Arithmetic |-> IF e = 22 THEN 4
                               ELSE IF e = 23 THEN 0
                               ELSE IF e \in {5, 9, 14, 18, 26, 27} THEN 1 ELSE 2]
Given(e, a) ==
    CASE e = 3 -> <<Bool(a[1] # 0 /\ a[2] # 0)>>
      [] e = 4 -> <<Bool(a[1] # 0 \/ a[2] # 0)>>
      [] e = 5 -> <<Bool(a[1] = 0)>>
      [] e = 9 -> <<Size(a[1])>>
      [] e = 10 -> <<a[1] + a[2]>>
      [] e = 11 -> <<a[1] - a[2]>>
      [] e = 12 -> <<(IF (a[1] < 0) = (a[2] < 0) THEN 1 ELSE -1) * ((Size(a[1]) * Unit) \div Size(a[2]))>>
      [] e = 14 -> <<-a[1]>>
      [] e = 15 -> <<Bool(a[1] = a[2])>>
      [] e = 18 -> <<>>
      [] e = 22 -> <<IF a[3] <= a[4] THEN a[1] ELSE a[2]>>
      [] e = 23 -> <<0>>
      [] e = 24 -> <<(a[1] * a[2]) \div Unit>>
      [] e = 26 -> <<Root(a[1])>>
      [] e = 27 -> <<a[1], a[1]>>
      [] e = 28 -> <<a[2], a[1]>>
Unfit(e, a) == (e = 12 /\ a[2] = 0) \/ (e = 26 /\ a[1] < 0)

Put(m) ==
    LET slot == Trunc(Last(m.stack))
    IN  IF Depth(m) < 2 \/ slot \notin DOMAIN m.slots THEN Failed(m)
        ELSE Replace([m EXCEPT !.slots[slot] = m.stack[Depth(m) - 1]], 2, <<>>)

Get(m) ==
    LET slot == Trunc(Last(m.stack))
    IN  IF m.stack = <<>> \/ slot \notin DOMAIN m.slots THEN Failed(m)
        ELSE Replace(m, 1, <<m.slots[slot]>>)

Index(m) ==
    LET i == IF Last(m.stack) < 0 THEN 0 ELSE Trunc(Last(m.stack))
    IN  IF m.stack = <<>> \/ i + 1 > Depth(m) - 1 THEN Failed(m)
        ELSE Replace(m, 1, <<m.stack[Depth(m) - 1 - i]>>)

Roll(m) ==
    LET n == Trunc(m.stack[Depth(m) - 1])
        j == Trunc(Last(m.stack)) % n
        turned == LastOf(FirstOf(m.stack, Depth(m) - 2), n)
    IN  IF Depth(m) < 2 \/ n < 1 \/ n > Depth(m) - 2 THEN Failed(m)
        ELSE Replace(m, n + 2, LastOf(turned, j) \o FirstOf(turned, n - j))

Escape(m, e) ==
    CASE e = 0 -> Cleared(m)
      [] e = 20 -> Put(m)
      [] e = 21 -> Get(m)
      [] e = 29 -> Index(m)
      [] e = 30 -> Roll(m)
      [] e \in DOMAIN FlexSize ->
            IF Depth(m) < FlexSize[e] THEN Failed(m) ELSE Paint(m, Flex(e, LastOf(m.stack, FlexSize[e])))
      [] e \in Arithmetic ->
            LET a == LastOf(m.stack, Taken[e])
            IN  IF Depth(m) < Taken[e] \/ Unfit(e, a) THEN Failed(m) ELSE Replace(m, Taken[e], Given(e, a))
      [] OTHER -> Failed(m)
-----------------------------------------------------------------------------
(* Running                                                                 *)

Return(m) == LET left == Front(m.frames)
             IN  [m EXCEPT !.frames = left, !.end = IF left = <<>> THEN "done" ELSE @]

Operate(m, op, at) ==
    CASE op = 10 -> Call(m, TRUE)
      [] op = 29 -> Call(m, FALSE)
      [] op = 11 -> Return(m)
      [] op = 12 ->
            LET code == Last(m.frames).code
            IN  IF Len(code) < at + 2 THEN Failed(m) ELSE Escape(Advance(m, at + 2), Byte(code, at, 1))
      [] op = 14 -> EndChar(m)
      [] op \in {19, 20} -> Mask(m, at)
      [] op \in {1, 3, 18, 23} -> TakeStems(m)
      [] op \in {4, 21, 22} -> Move(m, op)
      [] op \in Painting -> IF WellCounted(op, Depth(m)) THEN Paint(m, Strokes(op, m.stack)) ELSE Failed(m)
      [] OTHER -> Failed(m)

\* A subroutine may run off its end, the glyph's own charstring may not.
Step(m) ==
    LET frame == Last(m.frames)
        read == NumberAt(frame.code, frame.pc)
    IN  IF frame.pc >= Len(frame.code)
        THEN IF Len(m.frames) = 1 THEN Failed(m) ELSE Return(m)
        ELSE CASE read.is = "truncated" -> Failed(m)
               [] read.is = "number" -> Advance(Replace(m, 0, <<read.value>>), read.to)
               [] read.is = "operator" ->
                    Operate(Advance(m, frame.pc + 1), Byte(frame.code, frame.pc, 0), frame.pc)

\* 2^k steps, unless it ends before; doubling keeps the recursion shallow.
RECURSIVE Steps(_, _)
Steps(m, k) == IF m.end # "no" THEN m ELSE IF k = 0 THEN Step(m) ELSE Steps(Steps(m, k - 1), k - 1)

RECURSIVE Run(_)
Run(m) == IF m.end # "no" THEN m ELSE Run(Steps(m, 6))

WidthOf(m) == IF m.width = NoWidth THEN m.dict.default ELSE m.width[1]

NoGlyph == [advance |-> 0, outline |-> <<>>, ok |-> FALSE]
Interpreted(glyph, components, reached) == [glyph |-> glyph, components |-> components, reached |-> reached]
Uninterpreted == Interpreted(NoGlyph, {}, NothingReached)

\* What m drew; an accented glyph is its base and its accent displaced.
Accented(m, base, accent) ==
    IF \E c \in {base, accent} : c.end = "failed" \/ c.seac # <<>> THEN Uninterpreted
    ELSE Interpreted([advance |-> WidthOf(m), ok |-> TRUE,
                      outline |-> base.pen.ops \o Translated(accent.pen.ops, m.seac[1], m.seac[2])],
                     {m.seac[3], m.seac[4]}, Together({m.reached, base.reached, accent.reached}))
Drawn(font, m) ==
    CASE m.end = "failed" -> Uninterpreted
      [] m.end # "failed" /\ m.seac = <<>> ->
            Interpreted([advance |-> WidthOf(m), ok |-> TRUE, outline |-> m.pen.ops], {}, m.reached)
      [] OTHER -> Accented(m, Run(Machine(font, m.seac[3])), Run(Machine(font, m.seac[4])))

\* The glyph of each index.
Interpret(font) == [gid \in DOMAIN font.code |-> Drawn(font, Run(Machine(font, gid)))]
===============================================================================

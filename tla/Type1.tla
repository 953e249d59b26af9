--------------------------------- MODULE Type1 ---------------------------------
(***************************************************************************)
(* The Type 1 charstring interpreter and the subset writer for Type 1      *)
(* programs (efterscript-fonts, type1/charstring.rs and type1/write.rs).   *)
(*                                                                         *)
(* A font is the charstrings of its names and the subroutines, numbered    *)
(* from 0: the first is subrs[1].  Charstrings are sequences of bytes.     *)
(***************************************************************************)
EXTENDS Glyphs

CONSTANTS
    MaxStack, MaxCallDepth,
    StandardNames,   \* the standard encoding: code -> glyph name
    Notdef           \* the name every program must define

\* What is assumed of them, for the module that instantiates this one.
Type1Parameters ==
    /\ {MaxStack, MaxCallDepth} \subseteq Nat
    /\ DOMAIN StandardNames \subseteq 0 .. 255

NumberAt(code, pc) ==
    LET word(k) == 256 * Byte(code, pc, k) + Byte(code, pc, k + 1)
    IN  CASE Byte(code, pc, 0) # 255 -> ShortNumber(code, pc)
          [] Byte(code, pc, 0) = 255 /\ Len(code) < pc + 5 -> Truncated
          [] Byte(code, pc, 0) = 255 /\ Len(code) >= pc + 5 ->
                Read(Number(65536 * Signed16(Byte(code, pc, 1), Byte(code, pc, 2)) + word(3)), pc + 5)
-----------------------------------------------------------------------------
(* The interpreter                                                         *)

NoFlex == <<FALSE>>
FlexOf(points) == <<TRUE, points>>

Machine(font, name) ==
    [font |-> font, stack |-> <<>>, left |-> <<>>, pen |-> Pen, sbx |-> 0, advance |-> <<0, 0>>,
     flex |-> NoFlex, seac |-> <<>>, subrs |-> {}, frames |-> <<[code |-> font.code[name], pc |-> 0]>>,
     end |-> "no"]

Failed(m) == [m EXCEPT !.end = "failed"]
Cleared(m) == [m EXCEPT !.stack = <<>>]
Depth(m) == Len(m.stack)
Advance(m, pc) == [m EXCEPT !.frames[Len(m.frames)].pc = pc]
Push(m, v) == IF Depth(m) >= MaxStack THEN Failed(m) ELSE [m EXCEPT !.stack = Append(@, v)]

Call(m) ==
    LET k == Trunc(Last(m.stack))
    IN  IF m.stack = <<>> \/ k \notin 0 .. Len(m.font.subrs) - 1 \/ Len(m.frames) >= MaxCallDepth
        THEN Failed(m)
        ELSE [m EXCEPT !.stack = Front(@), !.subrs = @ \cup {k},
                       !.frames = Append(@, [code |-> m.font.subrs[k + 1], pc |-> 0])]

Return(m) == LET left == Front(m.frames)
             IN  [m EXCEPT !.frames = left, !.end = IF left = <<>> THEN "done" ELSE @]

\* In a flex a move is one of its points.
Move(m, dx, dy) ==
    LET to == Moved(m.pen, dx, dy)
    IN  IF m.flex = NoFlex THEN [m EXCEPT !.pen = MoveTo(@, dx, dy)]
        ELSE [m EXCEPT !.pen = to, !.flex = FlexOf(Append(@[2], <<to.x, to.y>>))]

\* The operators that take their operands from the bottom of the stack.
Operands(op) ==
    CASE op \in {4, 6, 7, 22} -> 1
      [] op \in {1, 3, 5, 13, 21} -> 2
      [] op \in {30, 31} -> 4
      [] op = 8 -> 6
      [] op \in {9, 14} -> 0
EscapeOperands(e) ==
    CASE e = 0 -> 0
      [] e \in {1, 2} -> 6
      [] e = 6 -> 5
      [] e = 7 -> 4
      [] e = 33 -> 2

Draw(m, d) == [m EXCEPT !.pen = Stroke(@, d)]
Plain(m, op, a) ==
    CASE op \in {1, 3} -> m
      [] op = 4 -> Move(m, 0, a[1])
      [] op = 5 -> Draw(m, a)
      [] op = 6 -> Draw(m, <<a[1], 0>>)
      [] op = 7 -> Draw(m, <<0, a[1]>>)
      [] op = 8 -> Draw(m, a)
      [] op = 9 -> [m EXCEPT !.pen.ops = Append(@, Closed)]
      [] op = 13 -> [m EXCEPT !.sbx = a[1], !.pen = At(@, a[1], 0), !.advance = <<a[2], 0>>]
      [] op = 14 -> [m EXCEPT !.end = "done"]
      [] op = 21 -> Move(m, a[1], a[2])
      [] op = 22 -> Move(m, a[1], 0)
      [] op = 30 -> Draw(m, <<0, a[1], a[2], a[3], a[4], 0>>)
      [] op = 31 -> Draw(m, <<a[1], 0, a[2], a[3], 0, a[4]>>)

Seac(m, a) ==
    IF ~({Trunc(a[4]), Trunc(a[5])} \subseteq DOMAIN StandardNames) THEN Failed(m)
    ELSE [m EXCEPT !.seac = <<a[1], a[2], a[3], StandardNames[Trunc(a[4])], StandardNames[Trunc(a[5])]>>,
                   !.end = "done"]
EscapedPlain(m, e, a) ==
    CASE e \in {0, 1, 2} -> m
      [] e = 6 -> Seac(m, a)
      [] e = 7 -> [m EXCEPT !.sbx = a[1], !.pen = At(@, a[1], a[2]), !.advance = <<a[3], a[4]>>]
      [] e = 33 -> [m EXCEPT !.pen = At(@, a[1], a[2])]

\* Other subroutines: 0 ends a flex, 1 starts one, 2 is between its points, 3 replaces
\* hints; any other leaves its operands for pop.
FlexEnds(m, a) ==
    LET curve(k) == Path("curve", SubSeq(m.flex[2], k, k + 2))
    IN  IF m.flex = NoFlex \/ Len(a) # 3 \/ Len(m.flex[2]) # 7 THEN Failed(m)
        ELSE [m EXCEPT !.flex = NoFlex, !.left = @ \o <<a[3], a[2]>>,
                       !.pen = [At(@, a[2], a[3]) EXCEPT !.ops = @ \o <<curve(2), curve(5)>>]]
OtherSubr(m, which, a) ==
    CASE which = 0 -> FlexEnds(m, a)
      [] which = 1 -> IF m.flex # NoFlex THEN Failed(m) ELSE [m EXCEPT !.flex = FlexOf(<<>>)]
      [] which = 2 -> m
      [] which = 3 -> [m EXCEPT !.left = Append(@, IF a = <<>> THEN Number(3) ELSE a[1])]
      [] OTHER -> [m EXCEPT !.left = @ \o a]
CallOtherSubr(m) ==
    LET which == Trunc(Last(m.stack))
        n == Trunc(m.stack[Depth(m) - 1])
        rest == FirstOf(m.stack, Depth(m) - 2)
    IN  IF Depth(m) < 2 \/ n \notin 0 .. Depth(m) - 2 THEN Failed(m)
        ELSE OtherSubr([m EXCEPT !.stack = FirstOf(rest, Len(rest) - n)], which, LastOf(rest, n))

Divided(a, b) == (IF (a < 0) = (b < 0) THEN 1 ELSE -1) * ((Size(a) * Unit) \div Size(b))
Escape(m, e) ==
    CASE e = 12 ->
            IF Depth(m) < 2 \/ Last(m.stack) = 0 THEN Failed(m)
            ELSE [m EXCEPT !.stack = Append(FirstOf(@, Len(@) - 2), Divided(@[Len(@) - 1], Last(@)))]
      [] e = 16 -> CallOtherSubr(m)
      [] e = 17 -> IF m.left = <<>> THEN Failed(m) ELSE Push([m EXCEPT !.left = Front(@)], Last(m.left))
      [] e \in {0, 1, 2, 6, 7, 33} ->
            LET n == EscapeOperands(e)
            IN  IF Depth(m) < n THEN Failed(m) ELSE EscapedPlain(Cleared(m), e, FirstOf(m.stack, n))
      [] OTHER -> Failed(m)

Operate(m, op, at) ==
    CASE op = 10 -> Call(m)
      [] op = 11 -> Return(m)
      [] op = 12 ->
            LET code == Last(m.frames).code
            IN  IF Len(code) < at + 2 THEN Failed(m) ELSE Escape(Advance(m, at + 2), Byte(code, at, 1))
      [] op \in {1, 3} \cup 4 .. 9 \cup {13, 14, 21, 22, 30, 31} ->
            IF Depth(m) < Operands(op) THEN Failed(m)
            ELSE Plain(Cleared(m), op, FirstOf(m.stack, Operands(op)))
      [] OTHER -> Failed(m)

\* A subroutine may run off its end, the glyph's own charstring may not.
Step(m) ==
    LET frame == Last(m.frames)
        read == NumberAt(frame.code, frame.pc)
    IN  IF frame.pc >= Len(frame.code)
        THEN IF Len(m.frames) = 1 THEN Failed(m) ELSE Return(m)
        ELSE CASE read.is = "truncated" -> Failed(m)
               [] read.is = "number" -> Advance(Push(m, read.value), read.to)
               [] read.is = "operator" ->
                    Operate(Advance(m, frame.pc + 1), Byte(frame.code, frame.pc, 0), frame.pc)

\* 2^k steps, unless it ends before; doubling keeps the recursion shallow.
RECURSIVE Steps(_, _)
Steps(m, k) == IF m.end # "no" THEN m ELSE IF k = 0 THEN Step(m) ELSE Steps(Steps(m, k - 1), k - 1)

RECURSIVE Run(_)
Run(m) == IF m.end # "no" THEN m ELSE Run(Steps(m, 6))

NoGlyph == [advance |-> <<0, 0>>, outline |-> <<>>, ok |-> FALSE]
Interpreted(glyph, components, subrs) == [glyph |-> glyph, components |-> components, subrs |-> subrs]
Uninterpreted == Interpreted(NoGlyph, {}, {})

Has(font, name) == name \in DOMAIN font.code

Bad(part) == part.end = "failed" \/ part.seac # <<>>
Accented(m, base, accent) ==
    IF Bad(base) \/ Bad(accent) THEN Uninterpreted
    ELSE Interpreted([advance |-> m.advance, ok |-> TRUE,
                      outline |-> base.pen.ops
                          \o Translated(accent.pen.ops, m.sbx - m.seac[1] + m.seac[2], m.seac[3])],
                     {m.seac[4], m.seac[5]}, m.subrs \cup base.subrs \cup accent.subrs)
Drawn(font, m) ==
    CASE m.end = "failed" -> Uninterpreted
      [] m.end # "failed" /\ m.seac = <<>> ->
            Interpreted([advance |-> m.advance, ok |-> TRUE, outline |-> m.pen.ops], {}, m.subrs)
      [] OTHER -> IF Has(font, m.seac[4]) /\ Has(font, m.seac[5])
                  THEN Accented(m, Run(Machine(font, m.seac[4])), Run(Machine(font, m.seac[5])))
                  ELSE Uninterpreted

\* The glyph of each name.
Interpret(font) == [name \in DOMAIN font.code |-> Drawn(font, Run(Machine(font, name)))]
-----------------------------------------------------------------------------
(* The subset                                                              *)

BlankNotdef == <<139, 139, 13, 14>>
Conventional == 4      \* flex and hint replacement
StubCode == <<11>>

\* drawn is what the interpreter makes of each glyph.
Kept(font, drawn, used) ==
    LET has == {n \in used : Has(font, n)}
    IN  {Notdef} \cup has \cup {c \in UNION {drawn[n].components : n \in has} : Has(font, c)}

Traceable(font, drawn, names) == \A n \in names : Has(font, n) => drawn[n].glyph.ok
Reachable(font, drawn, names) ==
    {k \in 0 .. Conventional - 1 : k < Len(font.subrs)}
      \cup UNION {drawn[n].subrs : n \in {i \in names : Has(font, i)}}

KeptCode(font, names) ==
    [n \in {i \in names : Has(font, i) \/ i = Notdef} |-> IF Has(font, n) THEN font.code[n] ELSE BlankNotdef]

Op(b) == [is |-> "op", value |-> b]
Esc(b) == [is |-> "escape", value |-> b]
Num(n) == [is |-> "number", value |-> Number(n)]
NoToken == Op(-1)

TokenRead(r, token, to) == [r EXCEPT !.tokens = Append(@, token), !.pc = to]
TakeToken(r, code) ==
    LET read == NumberAt(code, r.pc)
        op == Byte(code, r.pc, 0)
    IN  IF r.pc >= Len(code) THEN [r EXCEPT !.end = "all"]
        ELSE IF read.is = "truncated" \/ (read.is = "operator" /\ op = 12 /\ Len(code) < r.pc + 2)
        THEN [r EXCEPT !.end = "bad"]
        ELSE IF read.is = "number" THEN TokenRead(r, [is |-> "number", value |-> read.value], read.to)
        ELSE IF op = 12 THEN TokenRead(r, Esc(Byte(code, r.pc, 1)), r.pc + 2)
        ELSE TokenRead(r, Op(op), r.pc + 1)

RECURSIVE TakeTokens(_, _, _)
TakeTokens(r, code, k) ==
    IF r.end # "no" THEN r
    ELSE IF k = 0 THEN TakeToken(r, code)
    ELSE TakeTokens(TakeTokens(r, code, k - 1), code, k - 1)
RECURSIVE AllTokens(_, _)
AllTokens(r, code) == IF r.end # "no" THEN r ELSE AllTokens(TakeTokens(r, code, 6), code)
Tokens(code) ==
    LET read == AllTokens([pc |-> 0, tokens |-> <<>>, end |-> "no"], code)
    IN  [ok |-> read.end = "all", tokens |-> read.tokens]

EncodeNumber(n) ==
    LET word(k) == <<(k % 65536) \div 256, k % 256>>
    IN  IF IsShort(n) THEN EncodeShort(n) ELSE <<255>> \o word(n \div 65536) \o word(n)
Encode(tokens) ==
    FlattenSeq([k \in DOMAIN tokens |->
        CASE tokens[k].is = "number" -> EncodeNumber(Trunc(tokens[k].value))
          [] tokens[k].is = "op" -> <<tokens[k].value>>
          [] tokens[k].is = "escape" -> <<12, tokens[k].value>>])

\* A subroutine that replaces hints for its caller, who pushes the number.
IsHintHelper(code) ==
    Tokens(code) = [ok |-> TRUE, tokens |-> <<Num(1), Num(3), Esc(16), Esc(17), Op(10), Op(11)>>]

\* The places of a charstring that hold the number of a subroutine: the operand of a
\* call, the operand before it when the call is of a helper, and what hint replacement
\* is given; what pop brings from there is called as it comes.
Token(tokens, k) == IF k \in DOMAIN tokens THEN tokens[k] ELSE NoToken
NumberIn(tokens, k) == Trunc(Token(tokens, k).value)
All(tokens, token) == {k \in DOMAIN tokens : tokens[k] = token}
LastOther(tokens, others, k) ==
    LET before == {o \in others : o < k} IN IF before = {} THEN -1 ELSE NumberIn(tokens, Max(before) - 1)

Places(tokens, calls, others, helpers) ==
    LET direct == {k \in calls : Token(tokens, k - 1).is = "number"}
        hinted == {k \in others : NumberIn(tokens, k - 1) = 3}
    IN  [direct |-> direct, hinted |-> hinted,
         popped |-> {k \in calls : Token(tokens, k - 1) = Esc(17) /\ LastOther(tokens, others, k) = 3},
         holding |-> {k - 1 : k \in direct}
                       \cup {k - 2 : k \in {c \in direct : NumberIn(tokens, c - 1) \in helpers}}
                       \cup {k - 3 : k \in hinted}]
Visible(tokens, calls, others, places, map) ==
    /\ calls = places.direct \cup places.popped
    /\ \A k \in others : Token(tokens, k - 1).is = "number"
    /\ \A k \in places.hinted : Token(tokens, k - 2) = Num(1)
    /\ \A k \in places.holding : Token(tokens, k).is = "number" /\ NumberIn(tokens, k) \in DOMAIN map

RewrittenAt(tokens, calls, others, places, map) ==
    IF Visible(tokens, calls, others, places, map)
    THEN [ok |-> TRUE,
          code |-> Encode([k \in DOMAIN tokens |->
                              IF k \in places.holding THEN Num(map[NumberIn(tokens, k)]) ELSE tokens[k]])]
    ELSE [ok |-> FALSE, code |-> <<>>]
RewrittenIn(tokens, calls, others, map, helpers) ==
    RewrittenAt(tokens, calls, others, Places(tokens, calls, others, helpers), map)
RewrittenFrom(read, map, helpers) ==
    IF read.ok THEN RewrittenIn(read.tokens, All(read.tokens, Op(10)), All(read.tokens, Esc(16)), map, helpers)
    ELSE [ok |-> FALSE, code |-> <<>>]
Rewritten(code, map, helpers) ==
    IF IsHintHelper(code) THEN [ok |-> TRUE, code |-> code] ELSE RewrittenFrom(Tokens(code), map, helpers)

Dense(keep) == [old \in keep |-> Cardinality({k \in keep : k < old})]

Helpers(font, keep) == {k \in keep : IsHintHelper(font.subrs[k + 1])}
AllOk(rewritten) == \A k \in DOMAIN rewritten : rewritten[k].ok
Codes(rewritten) == [k \in DOMAIN rewritten |-> rewritten[k].code]
Densely(code) ==
    LET keep == DOMAIN code
    IN  [k \in 1 .. Cardinality(keep) |-> code[CHOOSE old \in keep : Dense(keep)[old] = k - 1]]
Assembled(subrs, glyphs) ==
    [ok |-> AllOk(subrs) /\ AllOk(glyphs), font |-> [code |-> Codes(glyphs), subrs |-> Densely(Codes(subrs))]]
RenumberedBy(font, keep, code, map, helpers) ==
    Assembled([k \in keep |-> Rewritten(font.subrs[k + 1], map, helpers)],
              [n \in DOMAIN code |-> Rewritten(code[n], map, helpers)])
Renumbered(font, keep, code) == RenumberedBy(font, keep, code, Dense(keep), Helpers(font, keep))

PrunedSubrs(font, keep) ==
    [k \in DOMAIN font.subrs |-> IF k - 1 \in keep THEN font.subrs[k] ELSE StubCode]

Pruned(font, keep, code, dense) ==
    IF dense.ok THEN dense.font ELSE [code |-> code, subrs |-> PrunedSubrs(font, keep)]
KeptOf(font, drawn, names, keep, code) ==
    IF Traceable(font, drawn, names) THEN Pruned(font, keep, code, Renumbered(font, keep, code))
    ELSE [code |-> code, subrs |-> font.subrs]
SubsetOf(font, drawn, names) == KeptOf(font, drawn, names, Reachable(font, drawn, names), KeptCode(font, names))
SubsetFrom(font, drawn, used) == SubsetOf(font, drawn, Kept(font, drawn, used))
Subset(font, used) == SubsetFrom(font, Interpret(font), used)
-----------------------------------------------------------------------------
(* Is the subset what the program is, for the glyphs used?                 *)

GlyphOf(font, drawn, name) == IF Has(font, name) THEN drawn[name].glyph ELSE NoGlyph

\* A glyph that is used draws the same, or fails as it did, and .notdef is there; what
\* is in the subset is used, or a part of what is; and each subroutine left in it is
\* called, conventional or a stub, unless a glyph could not be traced.
Means(font, drawn, used, subset, redrawn) ==
    LET names == DOMAIN subset.code
    IN  /\ \A n \in used \cup (IF Has(font, Notdef) THEN {Notdef} ELSE {}) :
              GlyphOf(subset, redrawn, n) = GlyphOf(font, drawn, n)
        /\ Has(subset, Notdef)
        /\ names \subseteq used \cup {Notdef} \cup UNION {redrawn[n].components : n \in names}
        /\ Traceable(subset, redrawn, names) =>
              \A k \in DOMAIN subset.subrs :
                 subset.subrs[k] = StubCode \/ k - 1 \in Reachable(subset, redrawn, names)
SubsetMeans(font, used, subset) == Means(font, Interpret(font), used, subset, Interpret(subset))
================================================================================

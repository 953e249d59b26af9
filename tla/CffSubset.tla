------------------------------- MODULE CffSubset -------------------------------
(***************************************************************************)
(* The subset writer for CFF programs (efterscript-fonts, cff/write.rs):   *)
(* the glyphs kept, and the subroutines they reach, renumbered densely     *)
(* with every call rewritten; where a call cannot be rewritten the         *)
(* numbering stays and the others become stubs; where a glyph cannot be    *)
(* run everything stays.                                                   *)
(***************************************************************************)
EXTENDS Type2

Op(b) == [is |-> "op", value |-> b]
Esc(b) == [is |-> "escape", value |-> b]
Num(v) == [is |-> "number", value |-> v]
MaskOf(bytes) == [is |-> "mask", value |-> bytes]

(* The tokens of a charstring.  lengths is the sizes of the masks that ran, *)
(* by offset; others are taken from the stems declared so far.              *)
TokenRead(r, tokens, to) == [r EXCEPT !.tokens = @ \o tokens, !.pc = to]
TakeToken(r, code, lengths) ==
    LET read == NumberAt(code, r.pc)
        op == Byte(code, r.pc, 0)
        declared == r.stems + r.args \div 2
        size == IF r.pc \in DOMAIN lengths THEN lengths[r.pc] ELSE UpDiv(declared, StemsPerByte)
        bad == [r EXCEPT !.end = "bad"]
    IN  IF r.pc >= Len(code) THEN [r EXCEPT !.end = "all"]
        ELSE CASE read.is = "truncated" -> bad
               [] read.is = "number" -> [TokenRead(r, <<Num(read.value)>>, read.to) EXCEPT !.args = @ + 1]
               [] read.is = "operator" ->
                    (CASE op = 12 ->
                            IF Len(code) < r.pc + 2 THEN bad
                            ELSE [TokenRead(r, <<Esc(Byte(code, r.pc, 1))>>, r.pc + 2) EXCEPT !.args = 0]
                       [] op \in {1, 3, 18, 23} ->
                            [TokenRead(r, <<Op(op)>>, r.pc + 1) EXCEPT !.stems = declared, !.args = 0]
                       [] op \in {19, 20} ->
                            IF Len(code) < r.pc + 1 + size THEN bad
                            ELSE [TokenRead(r, <<Op(op), MaskOf(SubSeq(code, r.pc + 2, r.pc + 1 + size))>>,
                                        r.pc + 1 + size) EXCEPT !.stems = declared, !.args = 0]
                       [] OTHER -> [TokenRead(r, <<Op(op)>>, r.pc + 1) EXCEPT !.args = 0])

RECURSIVE TakeTokens(_, _, _, _)
TakeTokens(r, code, lengths, k) ==
    IF r.end # "no" THEN r
    ELSE IF k = 0 THEN TakeToken(r, code, lengths)
    ELSE TakeTokens(TakeTokens(r, code, lengths, k - 1), code, lengths, k - 1)
RECURSIVE AllTokens(_, _, _)
AllTokens(r, code, lengths) == IF r.end # "no" THEN r ELSE AllTokens(TakeTokens(r, code, lengths, 6), code, lengths)
Tokens(code, lengths) ==
    LET read == AllTokens([pc |-> 0, stems |-> 0, args |-> 0, tokens |-> <<>>, end |-> "no"], code, lengths)
    IN  [ok |-> read.end = "all", tokens |-> read.tokens]

\* Integers in their shortest form; the long form keeps a fraction.
EncodeNumber(v) ==
    LET n == Trunc(v)
        bits == (v % Unit) * (65536 \div Unit)
        word(k) == <<(k % 65536) \div 256, k % 256>>
    IN  IF Whole(v) /\ Size(n) < 32768
        THEN IF IsShort(n) THEN EncodeShort(n) ELSE <<28>> \o word(n)
        ELSE <<255>> \o word(v \div Unit) \o word(bits)

Encode(tokens) ==
    FlattenSeq([k \in DOMAIN tokens |->
        CASE tokens[k].is = "number" -> EncodeNumber(tokens[k].value)
          [] tokens[k].is = "op" -> <<tokens[k].value>>
          [] tokens[k].is = "escape" -> <<12, tokens[k].value>>
          [] tokens[k].is = "mask" -> tokens[k].value])
-----------------------------------------------------------------------------
(* Tracing                                                                 *)

\* drawn is what the interpreter makes of each glyph.
Kept(font, drawn, used) ==
    LET has == {k \in used : Having(font, k) # {}}
        components(k) == {font.names[g] : g \in drawn[Gid(font, k)].components}
    IN  {font.names[0]} \cup has
          \cup (IF font.cids THEN {} ELSE UNION {components(k) : k \in has})
KeptGids(font, keys) == {0} \cup {Gid(font, k) : k \in keys}

\* The kept glyphs by the dictionary they run under.
DictsOf(font, gids) == {font.select[g] : g \in gids}
GroupOf(font, gids, d) == {g \in gids : font.select[g] = d}

Traceable(font, drawn, gids) == \A g \in gids : font.code[g] = <<>> \/ drawn[g].glyph.ok
Trace(font, drawn, gids) == Together({drawn[g].reached : g \in {i \in gids : font.code[i] # <<>>}})

\* The sizes of the masks of a charstring; runs that disagree leave none.
MasksAt(reached, site) == {m \in reached.masks : m[1] = site}
MasksAgree(masks) == \A m, n \in masks : m[2] = n[2] => m[3] = n[3]
MaskLengths(masks) ==
    [at \in {m[2] : m \in masks} |-> (CHOOSE m \in masks : m[2] = at)[3]]
-----------------------------------------------------------------------------
(* Renumbering                                                             *)

Dense(keep) == [old \in keep |-> Cardinality({k \in keep : k < old})]
\* Mutant: the calls keep the old bias.
Numbering_oldbias(keep, count) == [map |-> Dense(keep), from |-> Bias(count), to |-> Bias(count)]

Numbering(keep, count) == [map |-> Dense(keep), from |-> Bias(count), to |-> Bias(Cardinality(keep))]
NoNumbering == [map |-> <<>>, from |-> 0, to |-> 0]

\* read is the tokens of a charstring, of which calls are those that call.
Renumbered(read, calls, local, global) ==
    LET tokens == read.tokens
        numbering(k) == IF tokens[k] = Op(10) THEN local ELSE global
        old(k) == Trunc(tokens[k - 1].value) + numbering(k).from
        new(k) == Num(Number(numbering(k).map[old(k)] - numbering(k).to))
    IN  IF read.ok /\ \A k \in calls : /\ k > 1 /\ tokens[k - 1].is = "number"
                                      /\ Whole(tokens[k - 1].value) /\ old(k) \in DOMAIN numbering(k).map
        THEN [ok |-> TRUE,
              code |-> Encode([k \in DOMAIN tokens |-> IF k + 1 \in calls THEN new(k + 1) ELSE tokens[k]])]
        ELSE [ok |-> FALSE, code |-> <<>>]

CallsOf(tokens) == {k \in DOMAIN tokens : tokens[k] \in {Op(10), Op(29)}}
RenumberedIn(read, local, global) == Renumbered(read, CallsOf(read.tokens), local, global)
Rewritten(code, masks, local, global) ==
    IF MasksAgree(masks) THEN RenumberedIn(Tokens(code, MaskLengths(masks)), local, global)
    ELSE [ok |-> FALSE, code |-> <<>>]

\* The subroutines of a kind that are kept, in order.
Densely(code) ==
    LET keep == DOMAIN code
    IN  [k \in 1 .. Cardinality(keep) |-> code[CHOOSE old \in keep : Dense(keep)[old] = k - 1]]

StubCode == <<11>>
Stubbed(subrs, keep) == [k \in DOMAIN subrs |-> IF k - 1 \in keep THEN subrs[k] ELSE StubCode]

\* What the subset runs: globals, the locals of each kept dictionary, the charstrings.
\* Unpruned where a glyph cannot be run, stubbed where a call cannot be rewritten.
Unpruned(font, dicts) ==
    [globals |-> font.globals, code |-> font.code, locals |-> [d \in dicts |-> font.dicts[d].subrs]]
Stubs(font, trace, all) ==
    [globals |-> Stubbed(font.globals, all.global), code |-> font.code,
     locals |-> [d \in DOMAIN trace |-> Stubbed(font.dicts[d].subrs, trace[d].local)]]

\* A global subroutine calls the local ones of its caller.
Callers(local) == IF Cardinality(DOMAIN local) = 1 THEN local[CHOOSE d \in DOMAIN local : TRUE] ELSE NoNumbering

RewrittenAll(font, gids, trace, all, global, local) ==
    [code |-> [g \in gids |->
                LET d == font.select[g]
                IN  Rewritten(font.code[g], MasksAt(trace[d], GlyphSite(g)), local[d], global)],
     locals |-> [d \in DOMAIN trace |-> [k \in trace[d].local |->
                Rewritten(font.dicts[d].subrs[k + 1], MasksAt(trace[d], LocalSite(k)), local[d], global)]],
     globals |-> [k \in all.global |->
                Rewritten(font.globals[k + 1], MasksAt(all, GlobalSite(k)), Callers(local), global)]]

Codes(rewritten) == [k \in DOMAIN rewritten |-> rewritten[k].code]
AllRewritten(r) ==
    \A part \in {r.code, r.globals} \cup Range(r.locals) : \A k \in DOMAIN part : part[k].ok
Pruned(font, trace, all, rewritten) ==
    IF AllRewritten(rewritten)
    THEN [globals |-> Densely(Codes(rewritten.globals)), code |-> Codes(rewritten.code),
          locals |-> [d \in DOMAIN trace |-> Densely(Codes(rewritten.locals[d]))]]
    ELSE Stubs(font, trace, all)
PrunedBy(font, gids, trace, all) ==
    Pruned(font, trace, all,
           RewrittenAll(font, gids, trace, all, Numbering(all.global, Len(font.globals)),
                        [d \in DOMAIN trace |-> Numbering(trace[d].local, Len(font.dicts[d].subrs))]))
PrunedFrom(font, drawn, gids) ==
    IF Traceable(font, drawn, gids)
    THEN PrunedBy(font, gids, [d \in DictsOf(font, gids) |-> Trace(font, drawn, GroupOf(font, gids, d))],
                  Trace(font, drawn, gids))
    ELSE Unpruned(font, DictsOf(font, gids))

\* In glyph order; by CID if keyed by them.
SubsetOrder(font, gids) ==
    LET before(g) == {h \in gids : IF font.cids THEN font.names[h] < font.names[g] ELSE h < g}
    IN  [k \in 1 .. Cardinality(gids) |-> CHOOSE g \in gids : Cardinality(before(g)) = k - 1]

Assembled(font, pruned, order, dicts) ==
    LET old(g) == order[g + 1]
    IN  [cids |-> font.cids,
         names |-> [g \in 0 .. Len(order) - 1 |-> font.names[old(g)]],
         code |-> [g \in 0 .. Len(order) - 1 |-> pruned.code[old(g)]],
         select |-> [g \in 0 .. Len(order) - 1 |-> CHOOSE d \in DOMAIN dicts : dicts[d] = font.select[old(g)]],
         dicts |-> [d \in DOMAIN dicts |-> [font.dicts[dicts[d]] EXCEPT !.subrs = pruned.locals[dicts[d]]]],
         globals |-> pruned.globals]
SubsetOf(font, drawn, gids) ==
    Assembled(font, PrunedFrom(font, drawn, gids), SubsetOrder(font, gids), SetToSortSeq(DictsOf(font, gids), <))
KeptOf(font, drawn, used) == SubsetOf(font, drawn, KeptGids(font, Kept(font, drawn, used)))
Subset(font, used) == KeptOf(font, Interpret(font), used)
-----------------------------------------------------------------------------
(* Is the subset what the program is, for the glyphs used?                 *)

GlyphOf(font, drawn, key) == IF Having(font, key) = {} THEN NoGlyph ELSE drawn[Gid(font, key)].glyph

\* A glyph that is used draws the same, or fails as it did; what is in the subset is
\* used, or a part of what is; and each subroutine left in it is called or a stub,
\* unless a glyph could not be traced.
Means(font, drawn, used, subset, redrawn) ==
    LET gids == DOMAIN subset.names
        parts == UNION {redrawn[g].components : g \in gids}
    IN  /\ \A k \in used \cup {font.names[0]} : GlyphOf(subset, redrawn, k) = GlyphOf(font, drawn, k)
        /\ Range(subset.names) \subseteq used \cup {font.names[0]} \cup {subset.names[g] : g \in parts}
        /\ Traceable(subset, redrawn, gids) =>
              /\ \A k \in DOMAIN subset.globals :
                    subset.globals[k] = StubCode \/ k - 1 \in Trace(subset, redrawn, gids).global
              /\ \A d \in DOMAIN subset.dicts : \A k \in DOMAIN subset.dicts[d].subrs :
                    \/ subset.dicts[d].subrs[k] = StubCode
                    \/ k - 1 \in Trace(subset, redrawn, GroupOf(subset, gids, d)).local
SubsetMeans(font, used, subset) == Means(font, Interpret(font), used, subset, Interpret(subset))
================================================================================

-------------------------------- MODULE TrueType --------------------------------
(***************************************************************************)
(* TrueType programs (efterscript-fonts, truetype/mod.rs) and their subset *)
(* writer (truetype/write.rs), with the two ways efterscript-remelt        *)
(* addresses a subset: by code through its cmap, by CID through a table.   *)
(*                                                                         *)
(* A program is the tables glyphs are read from, in words of 16 bits:      *)
(* loca, by glyph and one past the last, where each begins in glyf;        *)
(* metrics, <<advance, sidebearing>>; bearings, the sidebearings of the    *)
(* glyphs past the metrics; names and post, what its glyphs are called;    *)
(* cmap, one subtable of format 4 from its segment count on, without the   *)
(* search fields.  The record of a glyph is five words, the first the      *)
(* count of contours, and its description: one word for a simple glyph.    *)
(***************************************************************************)
EXTENDS Integers, Sequences, SequencesExt, FiniteSets, FiniteSetsExt

CONSTANTS
    MaxComponentDepth,
    Notdef               \* the name .notdef

\* The place of a number among those kept, from 0; and the numbers in order.
Dense(keep) == [old \in keep |-> Cardinality({k \in keep : k < old})]
InOrder(keep) == [k \in 1 .. Cardinality(keep) |-> CHOOSE old \in keep : Dense(keep)[old] = k - 1]

NoGlyph == [ok |-> FALSE, advance |-> 0, outline |-> <<>>]
NoData == [ok |-> FALSE, words |-> <<>>]

Glyphs(font) == 0 .. Cardinality(DOMAIN font.loca) - 2

Data(font, gid) ==
    LET first == font.loca[gid]
        end == font.loca[gid + 1]
    IN  IF gid \in Glyphs(font) /\ first <= end /\ end <= Len(font.glyf)
        THEN [ok |-> TRUE, words |-> SubSeq(font.glyf, first + 1, end)]
        ELSE NoData

\* Glyphs past the metrics share the last advance.
AdvanceOf(font, gid) == font.metrics[Min({gid + 1, Len(font.metrics)})][1]
BearingGiven(font, gid) == gid < Len(font.metrics) + Len(font.bearings)
Bearing(font, gid) ==
    IF gid < Len(font.metrics) THEN font.metrics[gid + 1][2] ELSE font.bearings[gid - Len(font.metrics) + 1]

\* The names given with the program come before its own.
GidOf(font, name) ==
    LET own == {k \in DOMAIN font.post : font.post[k] = name}
    IN  IF name \in DOMAIN font.names THEN {font.names[name]}
        ELSE IF own # {} THEN {Min(own) - 1} ELSE {}

\* CidMap: a table, or an offset over a count of CIDs.
CidGid(map, cid) ==
    IF map.is = "table" THEN IF cid < Len(map.table) THEN map.table[cid + 1] ELSE 0
    ELSE IF cid < map.count /\ cid + map.offset < 65536 THEN cid + map.offset ELSE 0
-----------------------------------------------------------------------------
(* Composite glyphs                                                        *)

Flag(flags, bit) == (flags \div bit) % 2 = 1
ArgWords(flags) == IF Flag(flags, 1) THEN 2 ELSE 1
ScaleWords(flags) ==
    IF Flag(flags, 8) THEN 1 ELSE IF Flag(flags, 64) THEN 2 ELSE IF Flag(flags, 128) THEN 4 ELSE 0

Signed(v, bits) == IF v < 2 ^ (bits - 1) THEN v ELSE v - 2 ^ bits

\* Points matched by number land unshifted.
Offset(data, at, flags) ==
    IF ~Flag(flags, 2) THEN <<0, 0>>
    ELSE IF Flag(flags, 1) THEN <<Signed(data[at + 3], 16), Signed(data[at + 4], 16)>>
    ELSE <<Signed(data[at + 3] \div 256, 8), Signed(data[at + 3] % 256, 8)>>

\* The components of a composite, the first of which begins after word at.
RECURSIVE PartsFrom(_, _)
PartsFrom(data, at) ==
    LET flags == data[at + 1]
        end == at + 2 + ArgWords(flags) + ScaleWords(flags)
        part == [at |-> at, component |-> data[at + 2], offset |-> Offset(data, at, flags),
                 scale |-> LET n == ScaleWords(flags) IN SubSeq(data, end - n + 1, end)]
        rest == PartsFrom(data, end)
    IN  IF Len(data) < at + 2 \/ Len(data) < end THEN [ok |-> FALSE, parts |-> <<>>]
        ELSE IF Flag(flags, 32) THEN [ok |-> rest.ok, parts |-> <<part>> \o rest.parts]
        ELSE [ok |-> TRUE, parts |-> <<part>>]

Header == 5
IsComposite(data) == Len(data) >= Header /\ data[1] < 0
Parts(data) == IF IsComposite(data) THEN PartsFrom(data, Header) ELSE [ok |-> TRUE, parts |-> <<>>]

\* The shapes a glyph draws, each with what it goes through, from the inside out.
Placed(shapes, part) ==
    [k \in DOMAIN shapes |-> [shapes[k] EXCEPT !.by = Append(@, <<part.offset, part.scale>>)]]

RECURSIVE Outline(_, _, _)
Outline(font, gid, depth) ==
    LET data == Data(font, gid).words
        parts == Parts(data).parts
        inner == [k \in DOMAIN parts |-> Outline(font, parts[k].component, depth + 1)]
        bad == [ok |-> FALSE, shapes |-> <<>>]
    IN  IF ~Data(font, gid).ok THEN bad
        ELSE IF data = <<>> THEN [ok |-> TRUE, shapes |-> <<>>]
        ELSE IF ~IsComposite(data)
        THEN IF Len(data) <= Header THEN bad
             ELSE [ok |-> TRUE, shapes |-> <<[shape |-> data[Header + 1], by |-> <<>>]>>]
        ELSE IF depth >= MaxComponentDepth \/ ~Parts(data).ok \/ \E k \in DOMAIN parts : ~inner[k].ok
        THEN bad
        ELSE [ok |-> TRUE,
              shapes |-> FlattenSeq([k \in DOMAIN parts |-> Placed(inner[k].shapes, parts[k])])]

\* glyph_by_index
Interpret(font, gid) ==
    LET outline == Outline(font, gid, 0)
    IN  IF gid \notin Glyphs(font) \/ ~outline.ok THEN NoGlyph
        ELSE [ok |-> TRUE, advance |-> AdvanceOf(font, gid), outline |-> outline.shapes]
-----------------------------------------------------------------------------
(* The cmap: codes to glyphs, in segments of consecutive codes             *)

Segments(map) ==
    FoldLeft(LAMBDA runs, code :
                IF runs # <<>> /\ Last(Last(runs)) + 1 = code
                THEN Append(Front(runs), Append(Last(runs), code)) ELSE Append(runs, <<code>>),
             <<>>, InOrder(DOMAIN map \ {65535}))

CmapWords(map) ==
    LET runs == Segments(map)
        n == Len(runs) + 1
        ids == [k \in DOMAIN runs |-> [i \in DOMAIN runs[k] |-> map[runs[k][i]]]]
        before(k) == Len(FlattenSeq(SubSeq(ids, 1, k - 1)))
        each(Of(_), end) == Append([k \in DOMAIN runs |-> Of(k)], end)
    IN  <<2 * n>> \o each(LAMBDA k : Last(runs[k]), 65535) \o <<0>>
          \o each(LAMBDA k : Head(runs[k]), 65535) \o each(LAMBDA k : 0, 1)
          \o each(LAMBDA k : 2 * (n - k + 1) + 2 * before(k), 0) \o FlattenSeq(ids)

\* cmap, which leaves out what maps to glyph 0.
ReadCmap(words) ==
    LET n == words[1] \div 2
        end(k) == words[1 + k]
        start(k) == words[n + 2 + k]
        delta(k) == words[2 * n + 2 + k]
        at(k) == 3 * n + 2 + k
        gid(k, code) ==
            IF words[at(k)] = 0 THEN (code + delta(k)) % 65536
            ELSE LET id == words[at(k) + words[at(k)] \div 2 + code - start(k)]
                 IN  IF id = 0 THEN 0 ELSE (id + delta(k)) % 65536
        mapped == {<<code, gid(k, code)>> : <<k, code>> \in
                      {p \in UNION {{<<k, c>> : c \in start(k) .. end(k)} : k \in 1 .. n} : p[2] # 65535}}
        found == {m \in mapped : m[2] # 0}
    IN  [code \in {m[1] : m \in found} |-> (CHOOSE m \in found : m[1] = code)[2]]
-----------------------------------------------------------------------------
(* The subset                                                              *)

RECURSIVE Closure(_, _)
Closure(font, gids) ==
    LET parts == UNION {Range(Parts(Data(font, g).words).parts) : g \in gids}
        more == {p.component : p \in parts} \cap Glyphs(font)
    IN  IF more \subseteq gids THEN gids ELSE Closure(font, gids \cup more)
Kept(font, used) == Closure(font, {0} \cup (used \cap Glyphs(font)))

\* Every record is padded to four bytes.
Padded(data) == IF Len(data) % 2 = 0 THEN data ELSE Append(data, 0)

Renumbered(data, map) ==
    LET parts == Parts(data).parts
        at == {parts[k].at + 2 : k \in DOMAIN parts}
    IN  [i \in DOMAIN data |-> IF i \in at THEN map[data[i]] ELSE data[i]]

CodeMap(codes, map) ==
    LET kept == {c \in DOMAIN codes : codes[c] \in DOMAIN map}
    IN  [c \in kept \cup {61440 + k : k \in kept} |-> map[codes[IF c \in kept THEN c ELSE c - 61440]]]

\* subset_with_map: what is kept, and the glyphs' new numbers.
Subset(font, used, codes) ==
    LET keep == Kept(font, used)
        map == Dense(keep)
        order == InOrder(keep)
        data(g) == Data(font, g).words
        records == [k \in DOMAIN order |-> Padded(Renumbered(data(order[k]), map))]
    IN  IF \E g \in keep : \/ ~Data(font, g).ok \/ ~Parts(data(g)).ok \/ ~BearingGiven(font, g)
                           \/ \E p \in Range(Parts(data(g)).parts) : p.component \notin keep
        THEN [ok |-> FALSE, font |-> font, map |-> [g \in Glyphs(font) |-> g]]
        ELSE [ok |-> TRUE, map |-> map,
              font |-> [loca |-> [g \in 0 .. Len(order) |-> Len(FlattenSeq(SubSeq(records, 1, g)))],
                        glyf |-> FlattenSeq(records),
                        metrics |-> [k \in DOMAIN order |->
                                        <<AdvanceOf(font, order[k]), Bearing(font, order[k])>>],
                        bearings |-> <<>>, names |-> <<>>, post |-> <<>>,
                        cmap |-> CmapWords(CodeMap(codes, map))]]

\* truetype_glyphs: what a code draws; encoding gives the names of some codes.
CodeGid(font, encoding, code) ==
    LET named == IF code \in DOMAIN encoding THEN GidOf(font, encoding[code]) ELSE {}
        blank == GidOf(font, Notdef)
    IN  IF named # {} THEN CHOOSE g \in named : TRUE
        ELSE IF blank # {} THEN CHOOSE g \in blank : TRUE ELSE 0

\* What write_font embeds of a simple font: codes are looked up in the cmap.
Simple(font, encoding, used, whole) ==
    LET codes == [c \in used |-> CodeGid(font, encoding, c)]
    IN  Subset(font, IF whole THEN Glyphs(font) ELSE Range(codes), codes)

\* What write_truetype_descendant embeds, with a table from CID to glyph.
Composite(font, map, used) ==
    LET subset == Subset(font, {CidGid(map, c) : c \in used}, <<>>)
        new(c) == LET old == CidGid(map, c) IN IF old \in DOMAIN subset.map THEN subset.map[old] ELSE 0
    IN  [font |-> subset.font, ok |-> subset.ok,
         table |-> [c \in 0 .. Max(used \cup {0}) |-> IF c \in used THEN new(c) ELSE 0]]
-----------------------------------------------------------------------------
(* Is the subset what the program is, for the glyphs used?                 *)

Same(font, old, subset, new) ==
    Interpret(font, old).ok =>
        /\ Interpret(subset, new) = Interpret(font, old)
        /\ BearingGiven(font, old) => Bearing(subset, new) = Bearing(font, old)

\* Nothing is left that neither is glyph 0, nor used, nor a part of what is.
OnlyNeeded(subset, gids) == Glyphs(subset) = Closure(subset, {0} \cup gids)

\* A code that draws in the program draws the same through the cmap written, in both
\* of its ranges, and the cmap has no other codes.
SimpleMeans(font, encoding, used, whole, subset) ==
    subset.ok =>
        LET cmap == ReadCmap(subset.font.cmap)
            gid(c) == IF c \in DOMAIN cmap THEN cmap[c] ELSE 0
        IN  /\ \A c \in used : \A entry \in {c, 61440 + c} :
                  Same(font, CodeGid(font, encoding, c), subset.font, gid(entry))
            /\ DOMAIN cmap \subseteq used \cup {61440 + c : c \in used}
            /\ whole \/ OnlyNeeded(subset.font, Range(cmap))

\* A CID that draws in the program draws the same through the table; one that was not
\* shown draws glyph 0.
CompositeMeans(font, map, used, subset) ==
    /\ \A c \in used : Same(font, CidGid(map, c), subset.font, subset.table[c])
    /\ \A c \in DOMAIN subset.table \ used : subset.table[c] = 0
    /\ subset.ok => OnlyNeeded(subset.font, Range(subset.table))
================================================================================

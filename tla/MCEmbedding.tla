------------------------------ MODULE MCEmbedding ------------------------------
(* The fonts Embedding is checked on, beside the pages and marks of Document. *)
EXTENDS MCDocument

CONSTANTS Few, Many, StemsPerByte, MaxStack, MaxCallDepth, Slots, Notdef, MaxComponentDepth, MaxShown

VARIABLES
    embedding,                    \* which of the two
    font, whole, used, written    \* of Embedding

MCStandardNames == 65 :> "A" @@ 66 :> "acute"

\* Charstrings.
N(n) == IF n \in -107 .. 107 THEN <<n + 139>>
        ELSE IF n > 0 THEN <<(n - 108) \div 256 + 247, (n - 108) % 256>>
        ELSE <<(-n - 108) \div 256 + 251, (-n - 108) % 256>>
Word(n) == <<28, (n % 65536) \div 256, n % 256>>
Ns(ns) == FlattenSeq([k \in DOMAIN ns |-> N(ns[k])])
BiasOf(count) == IF count < Few THEN 107 ELSE IF count < Many THEN 1131 ELSE 32768
Operand(k, count) == IF count < Many THEN N(k - BiasOf(count)) ELSE Word(k - 32768)
Local(k, count) == Operand(k, count) \o <<10>>
Global(k, count) == Operand(k, count) \o <<29>>
Box == Ns(<<1, 1>>) \o <<21>> \o Ns(<<2, 2>>) \o <<6>>      \* a move, two lines

\* Each curve operator, and each arithmetic one.
Curves ==
    Ns(<<1, 1>>) \o <<21>> \o Ns(<<1, 2, 3, 4, 5, 6>>) \o <<8>> \o Ns(<<1, 2, 3, 4, 5>>) \o <<31>>
    \o Ns(<<1, 2, 3, 4>>) \o <<30>> \o Ns(<<9, 1, 2, 3, 4>>) \o <<26>> \o Ns(<<9, 1, 2, 3, 4>>) \o <<27>>
    \o Ns(<<1, 2, 3, 4, 5, 6, 7, 8>>) \o <<24>> \o Ns(<<1, 2, 3, 4, 5, 6, 7, 8>>) \o <<25>>
    \o Ns(<<5, 6, 7>>) \o <<7>> \o Ns(<<1, 2, 3, 4, 5, 6, 7>>) \o <<12, 34>>
    \o Ns(<<1, 2, 3, 4, 5, 6, 7, 8, 9, 1, 2, 3, 4>>) \o <<12, 35>>
    \o Ns(<<1, 2, 3, 4, 5, 6, 7, 8, 9>>) \o <<12, 36>>
    \o Ns(<<1, 2, 3, 4, 5, 6, 7, 8, 9, 1, 2>>) \o <<12, 37, 14>>
Maths ==
    Ns(<<3, 4>>) \o <<12, 10>> \o N(2) \o <<12, 24>> \o N(4) \o <<12, 12, 12, 14, 12, 9>>   \* 3.5
    \o N(9) \o <<12, 26, 12, 28, 12, 27>> \o N(0) \o <<12, 29, 12, 18>>                      \* 3 3.5 3.5
    \o Ns(<<3, 1>>) \o <<12, 30>> \o N(0) \o <<12, 20>> \o N(0) \o <<12, 21, 12, 11>>        \* 3.5 -0.5
    \o Ns(<<1, 2, 3, 4>>) \o <<12, 22, 12, 5>> \o N(0) \o <<12, 15>> \o N(1) \o <<12, 3>>
    \o N(0) \o <<12, 4, 12, 23, 12, 10, 12, 10, 21>>
    \o <<255, 0, 3, 128, 0, 6, 12, 0, 14>>

\* A name-keyed font with n local subroutines, of which the first four mean something:
\* a line; a move that calls a global one; a mask, of which few stems leave a call that
\* many take as its bytes; another line.
Names == <<".notdef", "A", "acute", "Aacute", "stem", "few", "many", "calc", "bad", "blank", "dead", "curves", "maths">>
NameSubrs(n, globals) ==
    [k \in 1 .. n |->
        CASE k = 1 -> Ns(<<3, 4>>) \o <<5>>
          [] k = 2 -> N(5) \o <<22>> \o Global(1, globals) \o <<11>>
          [] k = 3 -> <<19, 160>> \o Local(0, n) \o N(3) \o <<22, 11>>
          [] k = 4 -> Ns(<<6, 7>>) \o <<5, 11>>
          [] OTHER -> <<10>>]
NameCode(n, globals) ==
    <<<<14>>,                                                               \* .notdef
      Box \o Local(0, n) \o <<14>>,                                         \* A
      N(9) \o Word(300) \o N(2) \o <<21>> \o Local(1, n) \o <<14>>,  \* acute
      Ns(<<7, 8, 65, 66>>) \o <<14>>,                                       \* Aacute
      N(20) \o Ns(<<1, 2>>) \o <<18>> \o Ns(<<3, 4>>) \o <<19, 10, 29>>     \* stem
        \o N(2) \o <<22>> \o Local(1, n) \o <<14>>,
      Ns(<<1, 2>>) \o <<18>> \o Local(2, n) \o Box \o <<14>>,               \* few
      Ns([k \in 1 .. 2 + 2 * Len(Local(0, n)) |-> k]) \o <<18>> \o Local(2, n) \o Box \o <<14>>, \* many
      Box \o Operand(3, n) \o N(0) \o <<12, 10, 10, 14>>,                \* calc
      N(1) \o <<21>> \o Local(3, n) \o <<14>>,                              \* bad
      <<>>,                                                                 \* blank
      Box \o <<14, 10, 29, 255>>, Curves, Maths>>                           \* dead, curves, maths
Named(n, globals) ==
    [format |-> "cff",
     program |-> [cids |-> FALSE, names |-> [g \in 0 .. Len(Names) - 1 |-> Names[g + 1]],
                  code |-> [g \in 0 .. Len(Names) - 1 |-> NameCode(n, globals)[g + 1]],
                  select |-> [g \in 0 .. Len(Names) - 1 |-> 1],
                  dicts |-> <<[nominal |-> 100, default |-> 50, subrs |-> NameSubrs(n, globals)]>>,
                  globals |-> [k \in 1 .. globals |->
                      IF k = 2 THEN Ns(<<1, -1>>) \o <<5>> \o Local(0, n) \o <<11>> ELSE <<29>>]]]

\* A CID-keyed font with two dictionaries, whose glyphs share a global subroutine that
\* calls the local ones of its caller.
Keyed ==
    [format |-> "cid",
     program |-> [cids |-> TRUE, names |-> <<5, 3, 9, 12>> @@ 0 :> 0,
                  code |-> 0 :> <<14>> @@
                           <<Box \o Local(0, 3) \o <<14>>, Box \o Local(1, 3) \o <<14>>,
                             N(4) \o Box \o Global(1, 2) \o <<14>>,
                             N(3) \o <<22>> \o Global(1, 2) \o <<14>>>>,
                  select |-> <<1, 2, 1, 2>> @@ 0 :> 2,
                  dicts |-> <<[nominal |-> 100, default |-> 50,
                               subrs |-> <<Ns(<<3, 4>>) \o <<5>>, Ns(<<5, 5>>) \o <<5, 11>>, <<11>>>>],
                              [nominal |-> 200, default |-> 60,
                               subrs |-> <<<<10>>, Ns(<<6, 6>>) \o <<5, 11>>, <<11>>>>]>>,
                  globals |-> <<<<29>>, N(7) \o <<6>> \o Local(1, 3) \o <<11>>>>]]

\* A Type 1 font with the conventional subroutines, one that fails, a helper that
\* replaces hints, hints, and a line.
Calling(k) == N(k) \o <<10>>
Start1(w) == Ns(<<1, w>>) \o <<13>>
FlexPoint == Ns(<<1, 2>>) \o <<21>> \o Calling(2)
Type1Subrs ==
    <<Ns(<<3, 0>>) \o <<12, 16, 12, 17, 12, 17, 12, 33, 11>>, Ns(<<0, 1>>) \o <<12, 16, 11>>,
      Ns(<<0, 2>>) \o <<12, 16, 11>>, <<11>>, <<10>>,
      Ns(<<1, 3>>) \o <<12, 16, 12, 17, 10, 11>>,
      Ns(<<9, 9>>) \o <<3, 11>>, Ns(<<3, 4>>) \o <<5, 11>>>>
Strokes1 ==
    Ns(<<1, 2, 3, 4, 5, 6>>) \o <<8>> \o Ns(<<1, 2, 3, 4>>) \o <<30>> \o Ns(<<1, 2, 3, 4>>) \o <<31>>
    \o N(3) \o <<7>> \o N(2) \o <<4>> \o N(2) \o <<22, 12, 0>> \o Ns(<<5, 6>>) \o <<1>> \o Ns(<<5, 6>>) \o <<5, 9, 14>>
Type1Code ==
    ".notdef" :> Start1(10) \o <<14>>
    @@ "A" :> Start1(20) \o Box \o Calling(7) \o <<9, 14>>
    @@ "acute" :> Start1(30) \o <<255, 0, 0, 4, 0>> \o N(256) \o <<12, 12>> \o N(2) \o <<21>> \o Strokes1
    @@ "Aacute" :> Start1(20) \o Ns(<<2, 3, 4, 65, 66>>) \o <<12, 6>>
    @@ "hints" :> Start1(40) \o Ns(<<6, 1, 3>>) \o <<12, 16, 12, 17, 10>> \o Box \o <<14>>
    @@ "helped" :> Ns(<<1, 2, 40, 3>>) \o <<12, 7>> \o Box \o Ns(<<6, 5>>) \o <<10>> \o Calling(7) \o <<14>>
    @@ "flex" :> Start1(50) \o Calling(1) \o FlattenSeq([k \in 1 .. 7 |-> FlexPoint]) \o Ns(<<50, 7, 14>>) \o Calling(0) \o <<14>>
    @@ "calc" :> Start1(60) \o Box \o Ns(<<14, 2>>) \o <<12, 12, 10, 14>>
    @@ "bad" :> Start1(70) \o Calling(4) \o <<14>>
Type1Font(names) ==
    [format |-> "type1",
     program |-> [code |-> [n \in names |-> Type1Code[n]], subrs |-> Type1Subrs]]

\* A TrueType font: simple glyphs, an empty one, a composite scaled and moved, one of it,
\* one that names a glyph the font has not, one that names itself.
Simple(shape) == <<1, 0, 0, 0, 0, shape>>
Records ==
    <<Simple(1), Simple(2) \o <<7>>, <<>>,
      <<-1, 0, 0, 0, 0>> \o <<1 + 2 + 8 + 32, 1, 5, 65535, 8192>> \o <<2 + 128, 6, 513, 1, 2, 3, 4>>,
      <<-1, 0, 0, 0, 0>> \o <<2 + 64 + 32, 3, 510, 9, 9>> \o <<0, 1, 257>>,
      <<-1, 0, 0, 0, 0, 2, 99, 0>>, Simple(3), <<-1, 0, 0, 0, 0, 2, 7, 0>>, <<-1, 0, 0, 0, 0, 3, 1>>>>
TrueTypeProgram(bearings) ==
    [loca |-> [g \in 0 .. Len(Records) |-> Len(FlattenSeq(SubSeq(Records, 1, g)))],
     glyf |-> FlattenSeq(Records),
     metrics |-> <<<<10, 1>>, <<20, 2>>, <<30, 3>>>>, bearings |-> bearings,
     names |-> "three" :> 3 @@ "four" :> 4 @@ "self" :> 7 @@ "short" :> 8 @@ "none" :> 40,
     post |-> <<".notdef", "one", "two", "none", "one", "lost", "six">>, cmap |-> <<>>]
Coded(bearings) ==
    [format |-> "truetype", program |-> TrueTypeProgram(bearings),
     encoding |-> 32 :> "two" @@ 33 :> "one" @@ 34 :> "four" @@ 36 :> "three" @@ 37 :> "lost" @@ 38 :> "self"
                  @@ 40 :> "absent" @@ 41 :> "six" @@ 42 :> "none"]
Mapped(map) == [format |-> "cidtype2", program |-> TrueTypeProgram(<<4, 5, 6, 7, 8, 9>>), map |-> map]

MCFonts == {Named(4, 2), Named(6, 3), Keyed, Type1Font(DOMAIN Type1Code), Type1Font(DOMAIN Type1Code \ {".notdef"}),
            Type1Font({"A", "Aacute", "hints", ".notdef"}),
            Coded(<<4, 5, 6, 7, 8, 9>>), Coded(<<4, 5>>),
            Mapped([is |-> "table", table |-> <<0, 4, 3, 1, 5>>]), Mapped([is |-> "offset", offset |-> 1, count |-> 6])}
MCShown(f) ==
    CASE f.format = "cff" -> Range(f.program.names) \cup {"absent"}
      [] f.format = "cid" -> Range(f.program.names) \cup {4}
      [] f.format = "type1" -> DOMAIN f.program.code \cup {"absent"}
      [] f.format = "truetype" -> DOMAIN f.encoding \cup {35}
      [] f.format = "cidtype2" -> 0 .. 5

fontVars == <<font, whole, used, written>>
Programs == INSTANCE Embedding WITH Fonts <- MCFonts, Shown <- MCShown, StandardNames <- MCStandardNames

ASSUME EmbeddingAssumption == Programs!EmbeddingParameters

EmbeddingInit ==
    \/ embedding = TRUE
       /\ Programs!Init
       /\ Init /\ embedAll = FALSE
    \/ embedding = FALSE
       /\ Init
       /\ font = [format |-> "none"] /\ whole = FALSE /\ used = {} /\ written = Programs!Unwritten

EmbeddingNext ==
    \/ embedding /\ Programs!Next /\ UNCHANGED <<embedding, vars>>
    \/ ~embedding /\ Next /\ UNCHANGED <<embedding, fontVars>>

EmbeddingSpec == EmbeddingInit /\ [][EmbeddingNext]_<<embedding, vars, fontVars>>

SubsetsDrawTheSame == Programs!SubsetsDrawTheSame
================================================================================

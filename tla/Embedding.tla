------------------------------- MODULE Embedding -------------------------------
(***************************************************************************)
(* The program of an embedded font (efterscript-remelt, embedded.rs and    *)
(* composite.rs over the subset writers of efterscript-fonts): glyphs are  *)
(* shown one by one, and when the document closes the program is written   *)
(* with the glyphs shown, or whole.                                        *)
(*                                                                         *)
(* A font is its format and program; encoding gives the names of the codes *)
(* of a simple TrueType font, map its glyphs by CID of a composite one.    *)
(* Glyphs are shown by name in the other simple fonts, by CID in           *)
(* composite ones.                                                         *)
(***************************************************************************)
EXTENDS Integers, FiniteSets, Functions

CONSTANTS
    Fonts, Shown(_),     \* the fonts, and the glyphs of one that may be shown
    Few, Many, StemsPerByte, MaxStack, MaxCallDepth, Slots, StandardNames, Notdef,
    MaxComponentDepth,   \* see Type2, Type1 and TrueType
    MaxShown             \* bound: glyphs shown

VARIABLES
    font,      \* the font's snapshot, with its program
    whole,     \* SubsetFonts is off
    used,      \* the glyphs shown so far
    written    \* the program written, once the document is closed

vars == <<font, whole, used, written>>

Cff == INSTANCE CffSubset
T1 == INSTANCE Type1
TT == INSTANCE TrueType

EmbeddingParameters == Cff!Type2Parameters /\ T1!Type1Parameters /\ MaxComponentDepth \in Nat

Unwritten == [format |-> "none"]

\* The names kept; a composite font is always subset.
Kept ==
    CASE font.format = "cff" /\ whole -> Range(font.program.names)
      [] font.format = "type1" /\ whole -> DOMAIN font.program.code
      [] OTHER -> used

Embedded ==
    CASE font.format \in {"cff", "cid"} -> Cff!Subset(font.program, Kept)
      [] font.format = "type1" -> T1!Subset(font.program, Kept)
      [] font.format = "truetype" -> TT!Simple(font.program, font.encoding, used, whole)
      [] font.format = "cidtype2" -> TT!Composite(font.program, font.map, used)

Init ==
    /\ font \in Fonts /\ whole \in BOOLEAN
    /\ used = {}
    /\ written = Unwritten

\* EmbeddedTable::use_font: what is shown joins what was.
Show(key) ==
    /\ written = Unwritten
    /\ Cardinality(used \cup {key}) <= MaxShown
    /\ used' = used \cup {key}
    /\ UNCHANGED <<font, whole, written>>

\* EmbeddedTable::write_all.
Write ==
    /\ written = Unwritten
    /\ written' = [format |-> font.format, program |-> Embedded]
    /\ UNCHANGED <<font, whole, used>>

Next == (\E key \in Shown(font) : Show(key)) \/ Write
-----------------------------------------------------------------------------
\* Whatever is shown, the program written draws it as the font does: its outline and its
\* advance, through subroutines that are renumbered, stubbed or kept, accents whose
\* parts were not shown themselves, and glyphs that got another number.  It holds no
\* more than is needed for that, if it is a subset, and a glyph that cannot be run, or a
\* call that cannot be rewritten, spoils no other glyph.
SubsetsDrawTheSame ==
    written # Unwritten =>
        CASE font.format \in {"cff", "cid"} -> Cff!SubsetMeans(font.program, Kept, written.program)
          [] font.format = "type1" -> T1!SubsetMeans(font.program, Kept, written.program)
          [] font.format = "truetype" ->
                TT!SimpleMeans(font.program, font.encoding, used, whole, written.program)
          [] font.format = "cidtype2" -> TT!CompositeMeans(font.program, font.map, used, written.program)
================================================================================

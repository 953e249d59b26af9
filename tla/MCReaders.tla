------------------------------- MODULE MCReaders -------------------------------
(* Readers of data that arrives in pieces: a filter of Codecs, or the scanner. *)
EXTENDS MCCodecs

VARIABLES
    scanning,                          \* which of the two
    text, global, sent, reader, from   \* the scanner's, see Scanner

CONSTANTS MaxProcDepth, MaxStringLen, MaxNameLen, MaxInt, MaxDigits, Pieces,
          AsciiBase, AsciiDigits, AsciiBytes

Led(lead, tails) == {lead \o t : t \in tails}

\* Texts by what they exercise: numbers, the three forms of string, procedures and
\* names, comments, what no token starts with.  97 is a, 98 b, 110 n, 102 f.
Texts ==
    BoundedSeq({49, 101, 46, 45, 35}, 4)                               \* 1 e . - #
      \cup Led(<<50, 35>>, BoundedSeq({49, 50, 98}, 3))                \* 2#
      \cup Led(<<49, 49>>, BoundedSeq({49, 46, 101}, 3))
      \cup Led(<<45>>, BoundedSeq({50, 51, 52}, 2))
      \cup Led(<<40>>, BoundedSeq({40, 41, 92, 49, 13}, 4))            \* (
      \cup Led(<<40, 92>>, BoundedSeq({13, 10, 41, 110}, 3))
      \cup Led(<<40, 92, 55>>, BoundedSeq({55, 56, 41, 92}, 3))
      \cup Led(<<60>>, BoundedSeq({49, 102, 62, 32, 126}, 4))          \* <
      \cup Led(<<60, 49, 49, 49>>, BoundedSeq({49, 62}, 4))
      \cup {<<60, 126>> \o t \o e :                                    \* <~
              t \in BoundedSeq({33, 117, 122}, 4), e \in {<<>>, <<126>>, <<32, 126, 62>>}}
      \cup BoundedSeq({123, 125, 47, 97}, 4)                           \* { } / a
      \cup Led(<<123, 47, 47>>, BoundedSeq({97, 98, 125, 32}, 3))
      \cup Led(<<47>>, BoundedSeq({97, 47, 32}, 4))
      \cup BoundedSeq({37, 33, 97, 13}, 4)                             \* % !
      \cup Led(<<123, 10, 37, 37>>, BoundedSeq({97, 10, 125}, 3))
      \cup BoundedSeq({60, 62, 91, 41, 128, 37}, 3)
Defined == [n \in {<<97>>, <<>>} |-> n = <<97>>]

scanVars == <<text, global, sent, reader, from>>
Scan == INSTANCE Grammar WITH fed <- sent, Base <- AsciiBase,
                              GroupDigits <- AsciiDigits, GroupBytes <- AsciiBytes

ASSUME ReadersAssumption == Scan!ScannerParameters

ReadersInit ==
    \/ /\ scanning = TRUE
       /\ kind = Of("hex") /\ meant = <<>> /\ Init
       /\ Scan!Init
    \/ /\ scanning = FALSE /\ Init
       /\ text = <<>> /\ global = FALSE /\ sent = 0 /\ reader = Scan!NewReader /\ from = 0

ReadersNext ==
    \/ scanning /\ Scan!Next /\ UNCHANGED <<scanning, vars>>
    \/ ~scanning /\ Next /\ UNCHANGED <<scanning, scanVars>>

ReadersSpec == ReadersInit /\ [][ReadersNext]_<<scanning, vars, scanVars>>

TokensAsWritten == Scan!TokensAsWritten
================================================================================

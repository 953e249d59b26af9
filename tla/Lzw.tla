---------------------------------- MODULE Lzw ----------------------------------
(***************************************************************************)
(* LZW (efterscript-codec, lzw.rs): an encoder that takes a whole buffer   *)
(* and a decoder that takes a byte at a time.  The code width grows with   *)
(* the table on both sides, the decoder's being one entry behind.  A table *)
(* entry is the text it stands for; the code keeps it as a prefix and a    *)
(* byte.                                                                   *)
(***************************************************************************)
EXTENDS Bits

CONSTANTS
    ByteBits,   \* 8 in the program
    MinWidth,   \* MIN_WIDTH, 9
    MaxWidth    \* MAX_WIDTH, 12

Clear == 2 ^ ByteBits
End == Clear + 1
First == Clear + 2
TableSize == 2 ^ MaxWidth

\* The first code after a clear needs no wider one.
LzwParameters ==
    /\ ByteBits \in Nat \ {0} /\ MinWidth \in Nat /\ MaxWidth \in Nat
    /\ MinWidth <= MaxWidth /\ First + 1 < 2 ^ MinWidth

None == <<>>
-----------------------------------------------------------------------------
(* Encoding                                                                *)

Put(e, code) == [e EXCEPT !.bits = @ \o HighFirst(code, e.width)]

\* Mutant: the encoder widens when the code no longer fits.
Widen_late(e) ==
    IF e.next + e.early > 2 ^ e.width /\ e.width < MaxWidth
    THEN [e EXCEPT !.width = @ + 1] ELSE e

\* As the decoder does once it has read the code just written.
Widen(e) ==
    IF e.next + e.early >= 2 ^ e.width /\ e.width < MaxWidth
    THEN [e EXCEPT !.width = @ + 1] ELSE e

Emptied(e) == [Put(e, Clear) EXCEPT !.table = {}, !.next = First, !.width = MinWidth]

Defined(e, prefix, byte) ==
    [e EXCEPT !.table = @ \cup {[prefix |-> prefix, byte |-> byte, code |-> e.next]},
              !.next = @ + 1]

\* The code of the text read so far grows as long as the table has it.
Extended(e, byte) ==
    LET prefix == e.current[1]
        known == {t \in e.table : t.prefix = prefix /\ t.byte = byte}
        ahead == Widen(Put(e, prefix))
    IN  CASE e.current = None -> [e EXCEPT !.current = <<byte>>]
          [] e.current # None /\ known # {} ->
                [e EXCEPT !.current = <<(CHOOSE t \in known : TRUE).code>>]
          [] e.current # None /\ known = {} ->
                [(IF ahead.next >= TableSize THEN Emptied(ahead) ELSE Defined(ahead, prefix, byte))
                   EXCEPT !.current = <<byte>>]

Encoded(data, early) ==
    LET start == Put([bits |-> <<>>, width |-> MinWidth, next |-> First, table |-> {},
                      current |-> None, early |-> early], Clear)
        read == FoldLeft(Extended, start, data)
        last == IF read.current = None THEN read ELSE Widen(Put(read, read.current[1]))
        all == Put(last, End).bits
    IN  Units(all \o Padding(all, ByteBits), ByteBits)

Encode(data, early) ==
    LET bytes == Encoded(data, early) IN [k \in DOMAIN bytes |-> FromHigh(bytes[k])]
-----------------------------------------------------------------------------
(* Decoding                                                                *)

Decoder(early) ==
    [early |-> early, bits |-> <<>>, width |-> MinWidth, entries |-> <<>>, prev |-> None,
     status |-> "more", out |-> <<>>]

NextCode(d) == First + Len(d.entries)
Text(d, code) == IF code < Clear THEN <<code>> ELSE d.entries[code - First + 1]

Add(d, text) ==
    LET added == [d EXCEPT !.entries = Append(@, text)]
    IN  CASE NextCode(d) >= TableSize -> d
          [] NextCode(d) < TableSize /\ NextCode(added) + d.early >= 2 ^ d.width
               /\ d.width < MaxWidth -> [added EXCEPT !.width = @ + 1]
          [] OTHER -> added

\* The text of a code adds an entry: the one before it and its first byte.  The
\* entry being defined is the previous text and that text's own first byte.
Expanded(d, code) ==
    LET before == Text(d, d.prev[1])
        text == IF code < NextCode(d) THEN Text(d, code) ELSE Append(before, Head(before))
    IN  [Add(d, Append(before, Head(text))) EXCEPT !.out = @ \o text, !.prev = <<code>>]

Code(d, code) ==
    CASE code = Clear -> [d EXCEPT !.entries = <<>>, !.width = MinWidth, !.prev = None]
      [] code = End -> [d EXCEPT !.status = "end"]
      [] code \notin {Clear, End} /\ d.prev = None ->
            IF code >= First THEN [d EXCEPT !.status = "error"]
            ELSE [d EXCEPT !.out = Append(@, code), !.prev = <<code>>]
      [] OTHER ->
            IF code > NextCode(d) THEN [d EXCEPT !.status = "error"] ELSE Expanded(d, code)

RECURSIVE Codes(_)
Codes(d) ==
    IF d.status # "more" \/ Len(d.bits) < d.width THEN d
    ELSE Codes(Code([d EXCEPT !.bits = SubSeq(@, d.width + 1, Len(@))],
                    FromHigh(SubSeq(d.bits, 1, d.width))))

Push(d, byte) == Codes([d EXCEPT !.bits = @ \o HighFirst(byte, ByteBits)])
=============================================================================

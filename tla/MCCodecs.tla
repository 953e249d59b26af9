------------------------------- MODULE MCCodecs -------------------------------
(* Instances of Codecs: formats in the program's proportions, a few bits wide. *)
EXTENDS Codecs

Plain == [codec |-> "hex", slice |-> 2, record |-> 0, early |-> 1, hex |-> FALSE, row |-> <<>>,
          count |-> 0, pattern |-> <<>>]
Of(codec) == [Plain EXCEPT !.codec = codec]

Png(colors, columns, tags) ==
    [kind |-> "png", colors |-> colors, bits |-> 4, columns |-> columns, tags |-> tags]

MCKinds ==
    {Of("hex"), Of("base85"), Of("flate"), Of("eexec"),
     [Of("eexec") EXCEPT !.hex = TRUE],
     [Of("flate") EXCEPT !.row = Png(1, 2, <<1, 2, 3, 4, 0>>)],
     [Of("flate") EXCEPT !.row = Png(2, 1, <<4, 3, 4>>)],
     [Of("lzw") EXCEPT !.row = [kind |-> "png", colors |-> 1, bits |-> 2, columns |-> 2, tags |-> <<3, 2, 1>>]],
     [Of("lzw") EXCEPT !.row = [kind |-> "tiff", colors |-> 2, bits |-> 1, columns |-> 2, tags |-> <<0>>]],
     [Of("lzw") EXCEPT !.row = [kind |-> "tiff", colors |-> 1, bits |-> 4, columns |-> 2, tags |-> <<0>>]]}
      \cup {[Of("runlength") EXCEPT !.record = n] : n \in {0, 3}}
      \cup {[Of("lzw") EXCEPT !.early = e] : e \in {0, 1}}
      \cup {[Of("subfile") EXCEPT !.count = n, !.pattern = p] :
              n \in 0 .. 2, p \in {<<>>, <<1>>, <<1, 1>>, <<1, 1, 2>>, <<1, 2, 1>>}}

Repeating(letters, period, n) ==
    {[k \in 1 .. n |-> p[1 + ((k - 1) % period)]] : p \in [1 .. period -> letters]}

MCInputs(k) ==
    CASE k.codec = "hex" -> BoundedSeq({0, 9, 15}, 3)
      [] k.codec = "base85" -> BoundedSeq({0, 7, 15}, 4)
      [] k.codec = "runlength" -> BoundedSeq({0, 3}, 6)
      [] k.codec = "flate" /\ k.row = <<>> -> BoundedSeq({0, 9}, 9) \cup BoundedSeq({9, 12, 15}, 6) \cup {h \o h \o <<9, 9, 9, 12>> \o h : h \in [1 .. 6 -> {9, 12}]}
      [] k.codec = "flate" /\ k.row # <<>> -> BoundedSeq({2, 15}, 7)
      [] k.codec = "lzw" /\ k.row = <<>> ->
            BoundedSeq({0, 3}, 7) \cup Repeating({0, 1, 3}, 4, 16) \cup Repeating({0, 1, 2}, 5, 20)
      [] k.codec = "lzw" /\ k.row # <<>> -> BoundedSeq({0, 1, 3}, 5)
      [] k.codec = "subfile" -> BoundedSeq({1, 2}, 6)
      [] k.codec = "eexec" -> BoundedSeq({0, 5, 15}, 3)

MCFixedLengths == [k \in 1 .. 21 |-> CASE k <= 8 -> 5 [] k \in 9 .. 16 -> 6 [] OTHER -> 3]
MCLengthBase == <<3, 4, 7>>
MCLengthExtra == <<0, 2, 0>>
MCDistBase == <<1, 2, 3, 5>>
MCDistExtra == <<0, 0, 1, 1>>
MCRepeatBase == <<3, 3, 5>>
MCRepeatExtra == <<1, 1, 2>>
MCClOrder == <<5, 6, 7, 0, 2, 1, 3, 4>>
MCFieldBits == [hlit |-> 2, hdist |-> 2, hclen |-> 3, cl |-> 2]
MCZlibHeader == <<7, 8>>
MCHeaders == {<<7, 8>>, <<7, 3>>}
===============================================================================

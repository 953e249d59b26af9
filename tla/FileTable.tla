------------------------------ MODULE FileTable ------------------------------
(***************************************************************************)
(* The reading side of the file table (efterscript-vm, files.rs, with the  *)
(* hexadecimal decoders of decoders.rs and the reading operators): streams *)
(* that may run dry in the middle of an operator, layers that decode them  *)
(* a byte at a time, and the snapshots that undo an operator's reads so it *)
(* can run again when bytes have come.                                     *)
(*                                                                         *)
(* Two decoders stand for all: the hexadecimal filter, whose data ends     *)
(* with a marker of its own, and the cipher of eexec, which ends before    *)
(* the first byte that is not its own and gives it back.                   *)
(***************************************************************************)
EXTENDS Integers, Sequences, FiniteSets, SequencesExt

CONSTANTS
    Bytes,        \* the bytes streams deliver
    Kinds,        \* entries the program opens; "planes" for operators on two files,
                  \* "close" for closing the job's own source, directly or
                  \* through a layer that closes its source
    Behind,       \* whether it uses a file that an open layer reads
    Contents,     \* length of what strings and reusable streams hold
    MaxFiles,     \* bound: entries of the table
    MaxFed,       \* bound: bytes fed to an entry in its life
    MaxWaiting,   \* bound: operators waiting at once
    MaxJobs       \* bound: jobs

Digits == {"d", "e"}
AllBytes == Digits \cup {"_", ">", "f"}    \* white space, the marker, anything else

ASSUME FileAssumption ==
    /\ Bytes \subseteq AllBytes
    /\ Kinds \subseteq {"string", "procedure", "hex", "cipher", "reusable", "planes", "close"}
    /\ Behind \in BOOLEAN
    /\ Contents \in Nat /\ MaxFiles \in Nat \ {0} /\ MaxFed \in Nat
    /\ MaxWaiting \in Nat /\ MaxJobs \in Nat \ {0}

VARIABLES
    table,     \* the file table: [entries, saved, wanted]
    waiting,   \* operators to run again, the innermost last
    job,       \* jobs begun
    seen       \* history: what each entry was fed, where its base stood when
               \* it was opened, and what it delivered in the last step

vars == <<table, waiting, job, seen>>

-----------------------------------------------------------------------------
(* Entries *)

Nobody == 0
Run == 1       \* the entry of the job's own source
Handles == 1 .. MaxFiles

NoByte == "none"
NoLayer == [high |-> NoByte, pending |-> <<>>, ended |-> FALSE, raw |-> <<>>, lookahead |-> <<>>]

\* last: no byte will come after those in data.  The first byte of pushback
\* is the next to read.
Entry(kind, data, last, base, closeSource) ==
    [kind |-> kind, open |-> TRUE, data |-> data, last |-> last, pushback |-> <<>>,
     position |-> 0, base |-> base, closeSource |-> closeSource, layer |-> NoLayer]

\* The run's source: grows until the host says it is finished.
RunEntry == Entry("run", <<>>, FALSE, Nobody, FALSE)

IsLayer(e) == e.kind \in {"hex", "cipher"}
IsFilter(e) == e.kind = "hex"
HasMarker(e) == e.kind = "hex"
ReturnsLookahead(e) == e.kind = "cipher"

Issued(t) == 1 .. Len(t.entries)
IsOpen(t, h) == h \in Issued(t) /\ t.entries[h].open

RECURSIVE MayGrow(_, _)
MayGrow(t, h) ==
    /\ IsOpen(t, h)
    /\ LET e == t.entries[h] IN IF IsLayer(e) THEN MayGrow(t, e.base) ELSE ~ e.last

-----------------------------------------------------------------------------
(* Snapshots: taken at an operator's first read of an entry *)

\* A snapshot at the first read of an entry whose bytes may still be coming.
Guard(t, h) ==
    IF (\E i \in DOMAIN t.saved : t.saved[i].handle = h) \/ ~ MayGrow(t, h) THEN t
    ELSE [t EXCEPT !.saved = Append(@, [handle |-> h, pushback |-> t.entries[h].pushback,
                                        position |-> t.entries[h].position,
                                        layer |-> t.entries[h].layer, taken |-> <<>>])]

NoteTaken(t, h, byte) ==
    LET Of(s) == s.handle = h
        at == SelectInSeq(t.saved, Of)
    IN  IF at = 0 THEN t ELSE [t EXCEPT !.saved[at].taken = Append(@, byte)]

Commit(t) == [t EXCEPT !.saved = <<>>]

\* Mutant: the layer keeps what it decoded.
Undone_keepLayer(t, s) ==
    IF ~ t.entries[s.handle].open THEN t
    ELSE [t EXCEPT !.entries[s.handle].pushback = s.pushback,
                   !.entries[s.handle].position = s.position,
                   !.entries[s.handle].data = s.taken \o @]

\* One entry back at its snapshot, the bytes taken since handed back.
Undone(t, s) ==
    IF ~ t.entries[s.handle].open THEN t
    ELSE [t EXCEPT !.entries[s.handle].pushback = s.pushback,
                   !.entries[s.handle].position = s.position,
                   !.entries[s.handle].layer = s.layer,
                   !.entries[s.handle].data = s.taken \o @]

Rollback(t) == Commit(FoldLeft(Undone, t, Reverse(t.saved)))

-----------------------------------------------------------------------------
(* Decoders *)

\* The byte of two digits.
Pair(high, low) ==
    CASE high = "d" /\ low = "d" -> "d" [] high = "d" /\ low = "e" -> "e"
      [] high = "e" /\ low = "d" -> ">" [] high = "e" /\ low = "e" -> "f"

\* An odd last digit is the high half of a byte; the cipher drops it.
Half(e) == IF e.kind = "hex" /\ e.layer.high # NoByte THEN <<Pair(e.layer.high, "d")>> ELSE <<>>

Fed(layer, out, led) == [layer |-> layer, out |-> out, led |-> led]

\* Mutant: the marker drops an odd digit.
Push_oddLost(e, byte) ==
    LET layer == e.layer
    IN  IF byte \in Digits
          THEN IF layer.high = NoByte THEN Fed([layer EXCEPT !.high = byte], <<>>, "more")
               ELSE Fed([layer EXCEPT !.high = NoByte], <<Pair(layer.high, byte)>>, "more")
        ELSE IF byte = "_" THEN Fed(layer, <<>>, "more")
        ELSE IF e.kind = "cipher" THEN Fed(layer, <<>>, "before")
        ELSE IF byte = ">" THEN Fed([layer EXCEPT !.high = NoByte], <<>>, "end")
        ELSE Fed(layer, <<>>, "error")

\* One base byte fed to e's decoder, what comes out and what it led to.
Push(e, byte) ==
    LET layer == e.layer
    IN  IF byte \in Digits
          THEN IF layer.high = NoByte THEN Fed([layer EXCEPT !.high = byte], <<>>, "more")
               ELSE Fed([layer EXCEPT !.high = NoByte], <<Pair(layer.high, byte)>>, "more")
        ELSE IF byte = "_" THEN Fed(layer, <<>>, "more")
        ELSE IF e.kind = "cipher" THEN Fed(layer, <<>>, "before")
        ELSE IF byte = ">" THEN Fed([layer EXCEPT !.high = NoByte], Half(e), "end")
        ELSE Fed(layer, <<>>, "error")

\* The base ended.
Finish(e) == Fed([e.layer EXCEPT !.high = NoByte], Half(e), "end")

-----------------------------------------------------------------------------
(* Reading.  A result is the table and what came: a byte, "end", "more"    *)
(* (no byte yet) or "error".                                               *)

Came(t, got) == [t |-> t, got |-> got]
IsByte(got) == got \in AllBytes

\* Bytes that turned out not to be the layer's are its base's next.
GiveBack(t, base, raw) ==
    [t EXCEPT !.entries[base].position = @ - Len(raw),
              !.entries[base].pushback = raw \o @]

\* A byte off a stream that is not a layer.
StreamByte(t, h) ==
    LET e == t.entries[h]
    IN  IF e.data # <<>>
          THEN Came(NoteTaken([t EXCEPT !.entries[h].data = Tail(@)], h, Head(e.data)), Head(e.data))
        ELSE IF e.last THEN Came(t, "end")
        ELSE Came([t EXCEPT !.wanted = IF e.kind = "procedure" THEN h ELSE @], "more")

\* The layer of h after a byte was fed to it: what came out is pending, with
\* the base bytes behind it as its lookahead.
Received(t, h, fed, raw) ==
    LET out == fed.out # <<>>
        ended == fed.led # "more"
    IN  [t EXCEPT !.entries[h].layer =
           [fed.layer EXCEPT !.pending = @ \o fed.out,
                             !.ended = ended,
                             !.lookahead = IF out THEN raw ELSE @,
                             !.raw = IF out \/ fed.led = "before" THEN <<>> ELSE raw]]

RECURSIVE ReadByte(_, _)
RECURSIVE LayerByte(_, _)

\* What the decoder of h made of a byte: an error, bytes the base gets back,
\* or decoded bytes to deliver, if any.
Decoded(after, h, led, raw) ==
    IF led = "error" THEN Came(after, "error")
    ELSE IF led = "before" THEN LayerByte(GiveBack(after, after.entries[h].base, raw), h)
    ELSE LayerByte(after, h)

Decode(t, h, fed, raw) == Decoded(Received(t, h, fed, raw), h, fed.led, raw)

\* What came off the base of h is fed to its decoder.
FeedLayer(below, h) ==
    LET e == below.t.entries[h]
    IN  IF below.got \in {"more", "error"} THEN below
        ELSE Decode(below.t, h,
                    IF below.got = "end" THEN Finish(e) ELSE Push(e, below.got),
                    IF IsByte(below.got) /\ ReturnsLookahead(e)
                      THEN Append(e.layer.raw, below.got) ELSE e.layer.raw)

\* The next decoded byte of layer h: a byte at a time off its base.
LayerByte(t, h) ==
    LET e == t.entries[h]
    IN  IF e.layer.pending # <<>>
          THEN Came([t EXCEPT !.entries[h].layer.pending = Tail(@)], Head(e.layer.pending))
        ELSE IF e.layer.ended THEN Came(t, "end")
        ELSE FeedLayer(ReadByte(t, e.base), h)

\* A byte off the stream or the layer behind h's pushback.
Fetch(t, h) == IF IsLayer(t.entries[h]) THEN LayerByte(t, h) ELSE StreamByte(t, h)

ClearLookahead(t, h) ==
    IF IsLayer(t.entries[h]) THEN [t EXCEPT !.entries[h].layer.lookahead = <<>>] ELSE t

Advanced(t, h) == [t EXCEPT !.entries[h].position = @ + 1]

\* read, one byte of it: a peeked one first.
Arrived(r, h) ==
    IF IsByte(r.got) THEN Came(ClearLookahead(Advanced(r.t, h), h), r.got) ELSE r

ReadByte(t, h) ==
    LET peeked == t.entries[h].pushback
    IN  IF ~ IsOpen(t, h) THEN Came(t, "error")
        ELSE IF peeked # <<>>
          THEN Came(Advanced([Guard(t, h) EXCEPT !.entries[h].pushback = Tail(@)], h), Head(peeked))
        ELSE Arrived(Fetch(Guard(t, h), h), h)

Kept(r, h) == IF IsByte(r.got) THEN Came([r.t EXCEPT !.entries[h].pushback = <<r.got>>], r.got) ELSE r

Peek(t, h) ==
    LET peeked == t.entries[h].pushback
    IN  IF ~ IsOpen(t, h) THEN Came(t, "error")
        ELSE IF peeked # <<>> THEN Came(Guard(t, h), Head(peeked))
        ELSE Kept(Fetch(Guard(t, h), h), h)

\* consume, of a byte that was peeked.
Consumed(t, h) ==
    ClearLookahead(Advanced([t EXCEPT !.entries[h].pushback = Tail(@)], h), h)

-----------------------------------------------------------------------------
(* Closing *)

\* The base bytes behind a byte peeked through the cipher go back.
Returned(t, h) ==
    LET e == t.entries[h]
    IN  IF ReturnsLookahead(e) /\ e.pushback # <<>> /\ IsOpen(t, e.base)
          THEN GiveBack(t, e.base, e.layer.lookahead) ELSE t

RECURSIVE Close(_, _)
Close(t, h) ==
    IF ~ IsOpen(t, h) THEN t
    ELSE LET e == t.entries[h]
             closed == [Returned(t, h) EXCEPT !.entries[h].open = FALSE]
         IN  IF IsLayer(e) /\ e.closeSource THEN Close(closed, e.base) ELSE closed

\* The entries from h on, the youngest first.
RECURSIVE CloseFrom(_, _)
CloseFrom(t, h) == IF h > Len(t.entries) THEN t ELSE Close(CloseFrom(t, h + 1), h)

\* Mutant: the peeked byte stays.
EmptyRun_keepPeeked(t) ==
    [t EXCEPT !.entries[Run].data = <<>>, !.entries[Run].last = TRUE]

\* discard_run_input and reset_run_input: the buffer is emptied and one byte
\* read, which drops a peeked one.
EmptyRun(t) ==
    ReadByte([t EXCEPT !.entries[Run].data = <<>>, !.entries[Run].last = TRUE], Run).t

ResetRun(t) == [EmptyRun(t) EXCEPT !.entries[Run].last = FALSE]

-----------------------------------------------------------------------------
(* Operators: what a reading operator does to a table, in order.  A result *)
(* is the table, how the last read ended, and the bytes of each file read. *)

Nothing == [h \in Handles |-> <<>>]
Did(t, got, bytes) == [t |-> t, got |-> got, bytes |-> bytes]
With(bytes, h, byte) == [bytes EXCEPT ![h] = Append(@, byte)]

\* n bytes of h, or to its end.
RECURSIVE Take(_, _, _, _)
Took(r, h, n, bytes) ==
    IF IsByte(r.got) THEN Take(r.t, h, n - 1, With(bytes, h, r.got)) ELSE Did(r.t, r.got, bytes)

Take(t, h, n, bytes) ==
    IF n = 0 THEN Did(t, "end", bytes) ELSE Took(ReadByte(t, h), h, n, bytes)

\* More bytes than any file has.
AllOf == MaxFed + Contents + 1

\* drain_to_marker: through the markers of a filter and of those below it.
RECURSIVE Drain(_, _, _)
Drained(d, h) ==
    LET base == d.t.entries[h].base
    IN  IF d.got = "end" /\ IsOpen(d.t, h) /\ IsOpen(d.t, base) /\ IsFilter(d.t.entries[base])
          THEN Drain(d.t, base, d.bytes) ELSE d

Drain(t, h, bytes) ==
    LET e == t.entries[h]
    IN  IF HasMarker(e) /\ IsOpen(t, h) /\ ~ e.layer.ended
          THEN Drained(Take(t, h, AllOf, bytes), h) ELSE Drained(Did(t, "end", bytes), h)

\* A token: white space is skipped, a byte that is no digit is a token of its
\* own, a word takes one white space after it and leaves any other byte.
RECURSIVE Token(_, _, _, _)
Met(p, h, inWord, bytes) ==
    LET on == Consumed(p.t, h)
        taken == With(bytes, h, p.got)
    IN  IF ~ IsByte(p.got) THEN Did(p.t, p.got, bytes)
        ELSE IF p.got \in Digits THEN Token(on, h, TRUE, taken)
        ELSE IF inWord THEN (IF p.got = "_" THEN Did(on, "end", taken) ELSE Did(p.t, "end", bytes))
        ELSE IF p.got = "_" THEN Token(on, h, FALSE, taken)
        ELSE Did(on, "end", taken)

Token(t, h, inWord, bytes) == Met(Peek(t, h), h, inWord, bytes)

\* A sample of one file, which is then read through its marker.
Sampled(s, h) == IF s.got = "end" THEN Drain(s.t, h, s.bytes) ELSE s
Sample(t, h, bytes) == Sampled(Take(t, h, 1, bytes), h)
Second(first, h) == IF first.got = "end" THEN Sample(first.t, h, first.bytes) ELSE first

\* closefile, once the markers are behind it.
Closed(d, h) == IF d.got = "end" THEN [d EXCEPT !.t = Close(@, h)] ELSE d

Performed(t, op) ==
    CASE op.name = "readstring" -> Take(t, op.file, op.n, Nothing)
      [] op.name = "token" -> Token(t, op.file, FALSE, Nothing)
      [] op.name = "flushfile" -> Take(t, op.file, AllOf, Nothing)
      [] op.name = "closefile" ->
           IF op.file = Run THEN Did(EmptyRun(t), "end", Nothing)
           ELSE Closed(Drain(t, op.file, Nothing), op.file)
      [] op.name = "colorimage" -> Second(Sample(t, op.file, Nothing), op.n)

Op(name, file, n) == [name |-> name, file |-> file, n |-> n]

\* Files the program uses: none that an open layer reads, unless Behind.
Usable(h) ==
    /\ IsOpen(table, h)
    /\ Behind \/ \A l \in Issued(table) : table.entries[l].open => table.entries[l].base # h

\* What is on record of the run once closefile or the next job has discarded
\* its bytes: those consumed, and those it failed to discard.
Cut(record, t) ==
    LET run == t.entries[Run]
    IN  [record EXCEPT !.fed[Run] = SubSeq(@, 1, run.position + Len(run.pushback)), !.got = Nothing]

Delivered(record, bytes) == [record EXCEPT !.got = bytes]

-----------------------------------------------------------------------------
(* The program.  The top of waiting is run again once its file has grown;  *)
(* while it waits for a procedure, that procedure is the program running.  *)

Waits(op, needs) == [op |-> op, needs |-> needs]
ProcedureRuns == waiting # <<>> /\ Last(waiting).needs # Nobody
Executing == waiting = <<>> \/ ProcedureRuns

\* op starved: its reads are undone and it waits.
Starve(undone, op, below, record) ==
    /\ Len(below) < MaxWaiting
    /\ table' = [undone EXCEPT !.wanted = Nobody]
    /\ waiting' = Append(below, Waits(op, undone.wanted))
    /\ seen' = Delivered(record, Nothing)

Complete(r, op, below, record) ==
    /\ table' = r.t
    /\ waiting' = below
    /\ seen' = Delivered(IF op = Op("closefile", Run, 0) THEN Cut(record, r.t) ELSE record, r.bytes)

Conclude(r, op, below, record) ==
    IF r.got = "more" THEN Starve(Rollback(r.t), op, below, record)
                      ELSE Complete(r, op, below, record)

\* op, executed over t, what it has read before being committed.
Execute(t, op, below, record) == Conclude(Performed(Commit(t), op), op, below, record)

Invoke(op) ==
    /\ Executing
    /\ Execute(table, op, waiting, seen)
    /\ UNCHANGED job

\* Whether the scanner stopped inside a word.
InWord(inWord, bytes) == IF bytes = <<>> THEN inWord ELSE Last(bytes) \in Digits

\* The scanner reads on its own behalf: what it took of a token it keeps, and
\* the object it makes commits its reads when executed.
Scanned(r, inWord, h, below, record) ==
    /\ seen' = Delivered(record, r.bytes)
    /\ IF r.got = "more"
         THEN /\ Len(below) < MaxWaiting
              /\ table' = [r.t EXCEPT !.wanted = Nobody]
              /\ waiting' = Append(below,
                              Waits(Op("scan", h, IF InWord(inWord, r.bytes[h]) THEN 1 ELSE 0),
                                    r.t.wanted))
         ELSE /\ table' = Commit(r.t)
              /\ waiting' = below

ScanWith(t, inWord, h, below, record) ==
    Scanned(Token(t, h, inWord, Nothing), inWord, h, below, record)

Scan(h) ==
    /\ Executing /\ Usable(h)
    /\ ScanWith(table, FALSE, h, waiting, seen)
    /\ UNCHANGED job

\* The waiting operator or scanner takes its turn again over t.
Again(t, record) ==
    LET op == Last(waiting).op
    IN  IF op.name = "scan" THEN ScanWith(t, op.n = 1, op.file, Front(waiting), record)
        ELSE Execute(t, op, Front(waiting), record)

\* The host appends a byte, or declares the end.
Resume(chunk, last) ==
    /\ waiting # <<>> /\ ~ ProcedureRuns
    /\ Len(seen.fed[Run]) + Len(chunk) <= MaxFed
    /\ LET e == table.entries[Run]
           kept == IF e.last THEN <<>> ELSE chunk
       IN  Again([table EXCEPT !.entries[Run].data = @ \o kept, !.entries[Run].last = @ \/ last],
                 [seen EXCEPT !.fed[Run] = @ \o kept])
    /\ UNCHANGED job

\* The wanted procedure delivers its next string; an empty one is its last.
Deliver(chunk) ==
    /\ ProcedureRuns
    /\ LET h == Last(waiting).needs
           kept == IF table.entries[h].open THEN chunk ELSE <<>>
       IN  /\ Len(seen.fed[h]) + Len(chunk) <= MaxFed
           /\ Again([table EXCEPT !.entries[h].data = @ \o kept,
                                  !.entries[h].last = @ \/ (chunk = <<>> /\ table.entries[h].open)],
                    [seen EXCEPT !.fed[h] = @ \o kept])
    /\ UNCHANGED job

Opened(t, entry, record) ==
    [t |-> [t EXCEPT !.entries = Append(@, entry)],
     seen |-> [record EXCEPT !.got = Nothing,
                             !.fed[Len(t.entries) + 1] = entry.data,
                             !.from[Len(t.entries) + 1] =
                               IF entry.base = Nobody THEN 0 ELSE t.entries[entry.base].position]]

Open(entry) ==
    /\ Executing
    /\ Len(table.entries) < MaxFiles
    /\ LET o == Opened(Commit(table), entry, seen) IN table' = o.t /\ seen' = o.seen
    /\ UNCHANGED <<waiting, job>>

\* filter over a string, or making a reusable stream, its content read to the
\* end; filter over a procedure, over a file; eexec.
OpenBytes(kind, data) == kind \in Kinds /\ Open(Entry(kind, data, TRUE, Nobody, FALSE))
OpenProcedure == "procedure" \in Kinds /\ Open(Entry("procedure", <<>>, FALSE, Nobody, FALSE))
OpenLayer(kind, base, closeSource) ==
    /\ kind \in Kinds /\ Usable(base)
    /\ closeSource /\ base = Run => "close" \in Kinds
    /\ Behind \/ \A w \in Range(waiting) : w.op.file # base
    /\ Open(Entry(kind, <<>>, FALSE, base, closeSource))

\* Mutant: a peeked byte survives the positioning.
SetPosition_keepPeeked(h, p) ==
    /\ Executing
    /\ IsOpen(table, h) /\ table.entries[h].kind = "reusable" /\ p <= Len(seen.fed[h])
    /\ Behind \/ Usable(h)
    /\ table' = [Commit(table) EXCEPT !.entries[h].data = SubSeq(seen.fed[h], p + 1, Len(seen.fed[h])),
                                      !.entries[h].position = p]
    /\ seen' = Delivered(seen, Nothing)
    /\ UNCHANGED <<waiting, job>>

\* setfileposition, and resetfile and a re-read at position 0.
SetPosition(h, p) ==
    /\ Executing
    /\ IsOpen(table, h) /\ table.entries[h].kind = "reusable" /\ p <= Len(seen.fed[h])
    /\ Behind \/ Usable(h)
    /\ table' = [Commit(table) EXCEPT !.entries[h].data = SubSeq(seen.fed[h], p + 1, Len(seen.fed[h])),
                                      !.entries[h].pushback = <<>>,
                                      !.entries[h].position = p]
    /\ seen' = Delivered(seen, Nothing)
    /\ UNCHANGED <<waiting, job>>

\* The job ends, by quit, by an error or abandoned: its files are closed and
\* its source emptied, and emptied once more as the next one is run.
NextJob ==
    /\ job < MaxJobs
    /\ job' = job + 1
    /\ waiting' = <<>>
    /\ LET t == ResetRun(ResetRun(CloseFrom(table, Run + 1)))
       IN  table' = t /\ seen' = Cut(seen, t)

-----------------------------------------------------------------------------
Init ==
    /\ table = [entries |-> <<RunEntry>>, saved |-> <<>>, wanted |-> Nobody]
    /\ waiting = <<>>
    /\ job = 1
    /\ seen = [fed |-> Nothing, from |-> [h \in Handles |-> 0], got |-> Nothing]

Operators ==
    LET own == IF "close" \in Kinds THEN {} ELSE {Op("closefile", Run, 0)}
    IN  {Op("readstring", h, n) : h \in Handles, n \in 1 .. 2}
          \cup ({Op(name, h, 0) : name \in {"token", "flushfile", "closefile"}, h \in Handles} \ own)

Chunks == {<<>>} \cup {<<b>> : b \in Bytes}

Next ==
    \/ \E op \in Operators : Usable(op.file) /\ Invoke(op)
    \/ \E h, k \in Handles : /\ "planes" \in Kinds /\ h # k /\ Usable(h) /\ Usable(k)
                             /\ Invoke(Op("colorimage", h, k))
    \/ \E h \in Handles : Scan(h)
    \/ \E chunk \in Chunks, last \in BOOLEAN : Resume(chunk, last)
    \/ \E chunk \in Chunks : Deliver(chunk)
    \/ \E kind \in {"string", "reusable"}, data \in [1 .. Contents -> Bytes] : OpenBytes(kind, data)
    \/ OpenProcedure
    \/ \E kind \in {"hex", "cipher"}, base \in Handles, closeSource \in BOOLEAN :
         OpenLayer(kind, base, closeSource)
    \/ \E h \in Handles, p \in 0 .. Contents : SetPosition(h, p)
    \/ NextJob

Spec == Init /\ [][Next]_vars

-----------------------------------------------------------------------------
(* Properties *)

Layers ==
    [high : Digits \cup {NoByte}, pending : Seq(AllBytes), ended : BOOLEAN,
     raw : Seq(AllBytes), lookahead : Seq(AllBytes)]

Entries ==
    [kind : {"run", "string", "procedure", "reusable", "hex", "cipher"}, open : BOOLEAN,
     data : Seq(AllBytes), last : BOOLEAN, pushback : Seq(AllBytes), position : Nat,
     base : 0 .. MaxFiles, closeSource : BOOLEAN, layer : Layers]

\* Every variable keeps its type; a layer is younger than its base, and no
\* procedure is wanted but by what waits for it.
TypeOK ==
    /\ table.entries \in Seq(Entries) /\ Len(table.entries) \in 1 .. MaxFiles
    /\ \A h \in Issued(table) : table.entries[h].base < h
    /\ table.wanted = Nobody
    /\ \A s \in Range(table.saved) : s.handle \in Issued(table)
    /\ \A w \in Range(waiting) :
         w.needs # Nobody => table.entries[w.needs].kind = "procedure"

\* The bytes of h not read yet, layers over it apart.
Unread(t, h) == t.entries[h].pushback \o t.entries[h].data

Streams(t) == {h \in Issued(t) : t.entries[h].open /\ ~ IsLayer(t.entries[h])}

\* position is what it is documented to be (files.rs:737): the bytes consumed
\* from the stream so far, peeked bytes excluded.
PositionExact ==
    \A h \in Streams(table) :
      /\ table.entries[h].position = Len(seen.fed[h]) - Len(Unread(table, h))
      /\ table.entries[h].position >= 0

\* No stream loses, repeats or reorders a byte: what is unread is all that
\* came after the bytes consumed - however often operators that had read were
\* undone, and layers took bytes and gave them back.
UnreadIsTheRest ==
    \A h \in Streams(table) :
      Unread(table, h) = SubSeq(seen.fed[h], table.entries[h].position + 1, Len(seen.fed[h]))

\* A reference for the decoders: the digits of s up to the first byte that is
\* neither digit nor white space, in pairs.
IsDigit(b) == b \in Digits
Foreign(b) == b \notin Digits \cup {"_"}
Terminator(s) == SelectInSeq(s, Foreign)
Own(s) == IF Terminator(s) = 0 THEN s ELSE SubSeq(s, 1, Terminator(s) - 1)

Decoding(kind, s) ==
    LET ds == SelectSeq(Own(s), IsDigit)
        odd == Len(ds) % 2 = 1 /\ kind = "hex" /\ (Terminator(s) # 0 => s[Terminator(s)] = ">")
    IN  [i \in 1 .. Len(ds) \div 2 |-> Pair(ds[2 * i - 1], ds[2 * i])]
          \o (IF odd THEN <<Pair(Last(ds), "d")>> ELSE <<>>)

\* Everything each entry delivers, and what a layer reads of its base.
Content ==
    LET c[h \in Issued(table)] ==
          LET e == table.entries[h]
          IN  IF IsLayer(e)
                THEN Decoding(e.kind, SubSeq(c[e.base], seen.from[h] + 1, Len(c[e.base])))
                ELSE seen.fed[h]
    IN  c

Source(h) ==
    LET base == table.entries[h].base
    IN  SubSeq(Content[base], seen.from[h] + 1, Len(Content[base]))

\* What the program reads of a file is its content, from where the file
\* stands and to its last byte: for a layer, the decoding of its base's bytes
\* from where it was opened - in whatever pieces the bytes came, and whichever
\* operators ran again.
ReadsContent ==
    \A h \in Issued(table) :
      LET e == table.entries[h]
          n == Len(seen.got[h])
      IN  /\ n > 0 => seen.got[h] = SubSeq(Content[h], e.position - n + 1, e.position)
          /\ e.open /\ e.layer.ended /\ e.layer.pending \o e.pushback = <<>>
               => e.position = Len(Content[h])

\* Whatever operators starve and run again, no stream loses a byte and no
\* reader is given one that is not its content.
NothingMisread == TypeOK /\ UnreadIsTheRest /\ ReadsContent

\* An operator on one source is undone, having starved.
Grew == \E h \in Issued(table) : Len(seen'.fed[h]) > Len(seen.fed[h])

OperatorStarves ==
    /\ waiting' # <<>> /\ Last(waiting').op.name \notin {"scan", "colorimage"}
    /\ Len(table'.entries) = Len(table.entries)
    /\ \/ Len(waiting') > Len(waiting)
       \/ Len(waiting') = Len(waiting) /\ Grew

\* An operator that starves has read nothing: every file is as it found it,
\* but for the bytes that came while it waited.  One on two sources is left
\* out: rollback does not cover a source that is complete (files.rs:514).
ReadsUndone ==
    [][OperatorStarves =>
         \A h \in Issued(table) :
           /\ Unread(table', h) = Unread(table, h) \o
                SubSeq(seen'.fed[h], Len(seen.fed[h]) + 1, Len(seen'.fed[h]))
           /\ table'.entries[h].position = table.entries[h].position
           /\ table'.entries[h].layer = table.entries[h].layer]_vars

\* Where n digits of s end.
EndOfDigits(s, n) ==
    IF n = 0 THEN 0
    ELSE CHOOSE i \in 1 .. Len(s) : s[i] \in Digits /\ Len(SelectSeq(SubSeq(s, 1, i), IsDigit)) = n

\* How much of its base the data of h takes, terminated as it should be.
Terminated(h) ==
    LET s == Source(h)
    IN  Terminator(s) # 0 /\ (IsFilter(table.entries[h]) => s[Terminator(s)] = ">")

Extent(h) ==
    LET s == Source(h)
    IN  IF IsFilter(table.entries[h]) THEN Terminator(s)
        ELSE EndOfDigits(s, 2 * Len(Content[h]))

\* A stream left open continues right after the data a layer took from it: after
\* the filter's marker, after the last whole byte of the cipher's section, and
\* when a section no layer read from is closed early, after the last byte
\* read through it.  (closefile reads a chain of filters through all its
\* markers at once, so a base that is a layer moves on further.)
BaseContinues ==
    [][\A h \in Issued(table) :
         LET e == table.entries[h]
             stood == table'.entries[e.base].position - seen.from[h]
         IN  job' = job /\ IsLayer(e) /\ e.base \in Streams(table)
             /\ table'.entries[e.base].open =>
             /\ table'.entries[h].layer.ended /\ ~ e.layer.ended /\ Terminated(h)'
                  => stood = Extent(h)'
             /\ e.kind = "cipher" /\ e.open /\ ~ table'.entries[h].open /\ ~ e.layer.ended
                  /\ waiting = <<>>
                  /\ (\A k \in Issued(table) : table.entries[k].base # h)
                  => stood = EndOfDigits(Source(h), 2 * e.position)]_vars

\* The job's source is never closed as an entry, whatever a program closes
\* (discard_run_input: "The entry itself stays open", interp/mod.rs:1443).
RunStaysOpen == table.entries[Run].open

\* A job begins with none of the bytes the one before it left unread, layers
\* over the job's source and bytes they gave back included.
JobStartsEmpty ==
    [][job' # job /\ table'.entries[Run].open => Unread(table', Run) = <<>>]_vars

\* What is left of a source is read on from there by the same job, and by no
\* other.
RestContinues == BaseContinues /\ JobStartsEmpty
=============================================================================

----------------------------- MODULE MCFileTable -----------------------------
(* Instances of FileTable: two families of small tables. *)
EXTENDS FileTable

OpenedOnly(kinds) == \A h \in 2 .. Len(table.entries) : table.entries[h].kind \in kinds
Given(n, bytes) == \A h \in Issued(table) : Len(seen.fed[h]) <= n /\ Range(seen.fed[h]) \subseteq bytes

\* One file besides the job's own source, over two jobs.
OneFile == Len(table.entries) <= 2 /\ OpenedOnly({"reusable", "hex", "cipher"})

\* Procedures and strings, alone and below a filter, besides the job's source.
Chained ==
    /\ OpenedOnly({"string", "procedure", "hex"}) /\ Given(2, {"d", ">"}) /\ job = 1
    /\ table.entries[Run].open
    /\ MapThenSumSet(LAMBDA h : Len(seen.fed[h]), Issued(table)) <= 3
    /\ \A w \in Range(waiting) : w.op.name # "colorimage"

Small == OneFile \/ Chained
==============================================================================

------------------------------ MODULE Composites ------------------------------
(* Objects, the storage of arrays, strings and dictionaries, and the checked *)
(* ways to it (object.rs, dict.rs, memory.rs). An object is a value: what    *)
(* two objects share is the slot they name. All composites are local here;   *)
(* VM says which spaces a slot may refer to.                                 *)
EXTENDS Integers, Sequences, SequencesExt, TLC

Unlimited == 0
ReadOnly == 1
ExecuteOnly == 2
NoAccess == 3

(* `v` is the value of a simple object, FALSE and TRUE being 0 and 1, and    *)
(* the slot of a composite one.                                              *)
Simple(ty, v) == [ty |-> ty, v |-> v, off |-> 0, len |-> 0, access |-> Unlimited, exec |-> FALSE]
Integer(n) == Simple("integer", n)
Real(n) == Simple("real", n)
Bool(b) == Simple("boolean", IF b THEN 1 ELSE 0)
Null == Simple("null", 0)
Mark == Simple("mark", 0)
Name(n) == Simple("name", n)
Operator(n) == [Simple("operator", n) EXCEPT !.exec = TRUE]
Composite(ty, slot, n) == [Simple(ty, slot) EXCEPT !.len = n]
PackedArray(slot, n) == [Composite("packedarray", slot, n) EXCEPT !.access = ReadOnly]

Arrays == {"array", "packedarray"}
HasInterval == Arrays \cup {"string"}
IsComposite(o) == o.ty \in HasInterval \cup {"dict"}
IsNumber(o) == o.ty \in {"integer", "real"}
Readable(o) == o.access <= ReadOnly

WithInterval_fresh(o, off, n) == [o EXCEPT !.off = o.off + off, !.len = n, !.access = Unlimited]
WithInterval(o, off, n) == [o EXCEPT !.off = o.off + off, !.len = n]
Fits(o, off, n) == off >= 0 /\ n >= 0 /\ off + n <= o.len

(* eq: attributes are ignored, packed arrays are arrays, numbers compare by  *)
(* value, composites by the interval they name.                              *)
RawType(o) == IF o.ty \in Arrays THEN "array" ELSE IF IsNumber(o) THEN "number" ELSE o.ty
SameObject(a, b) ==
    /\ RawType(a) = RawType(b)
    /\ a.v = b.v
    /\ a.off = b.off
    /\ a.len = b.len

(* A name is its text, as a number; bytes are below Letters. *)
Letters == 3
Atom(text) == FoldLeft(LAMBDA n, byte : n * (Letters + 1) + byte + 1, 0, text)
AtomLength[atom \in Nat] == IF atom = 0 THEN 0 ELSE AtomLength[atom \div (Letters + 1)] + 1

-------------------------------------------------------------------------------
(* Dictionaries: entries in the order of insertion, and where each key is.   *)

NewDict(n) ==
    [kind |-> "dict", items |-> <<>>, entries |-> <<>>, index |-> <<>>, access |-> Unlimited, maxlength |-> n]
NewItems(kind, items) == [NewDict(0) EXCEPT !.kind = kind, !.items = items]

(* What a key is hashed as: reals that are integers fold onto them. All      *)
(* reals here are integers.                                                  *)
KeyOf(o) == <<RawType(o), o.v, o.off, o.len>>

HasKey(dict, key) == KeyOf(key) \in DOMAIN dict.index
ValueOf(dict, key) == dict.entries[dict.index[KeyOf(key)]][2]

DictInsert_last(dict, key, value) ==
    LET others == SelectSeq(dict.entries, LAMBDA entry : KeyOf(entry[1]) # KeyOf(key))
        entries == Append(others, <<key, value>>)
    IN  [dict EXCEPT !.entries = entries,
                     !.index = [k \in DOMAIN @ \cup {KeyOf(key)} |->
                                    CHOOSE at \in DOMAIN entries : KeyOf(entries[at][1]) = k]]

DictInsert(dict, key, value) ==
    IF HasKey(dict, key)
    THEN [dict EXCEPT !.entries[dict.index[KeyOf(key)]] = <<@[1], value>>]
    ELSE [dict EXCEPT !.entries = Append(@, <<key, value>>),
                      !.index = @ @@ (KeyOf(key) :> Len(dict.entries) + 1)]

DictRemove_unshifted(dict, key) ==
    IF ~HasKey(dict, key) THEN dict
    ELSE [dict EXCEPT !.entries = RemoveAt(@, dict.index[KeyOf(key)]),
                      !.index = [k \in DOMAIN @ \ {KeyOf(key)} |-> @[k]]]

DictRemove(dict, key) ==
    IF ~HasKey(dict, key) THEN dict
    ELSE LET at == dict.index[KeyOf(key)]
         IN  [dict EXCEPT !.entries = RemoveAt(@, at),
                          !.index = [k \in DOMAIN @ \ {KeyOf(key)} |->
                                        IF @[k] > at THEN @[k] - 1 ELSE @[k]]]

MaxLength(dict) == IF Len(dict.entries) > dict.maxlength THEN Len(dict.entries) ELSE dict.maxlength

-------------------------------------------------------------------------------
(* The machine: operand stack, dictionary stack, slots, the loops running,   *)
(* and the error of the operator that ran last.                              *)

Err(m, error) == [m EXCEPT !.error = error]

Items(m, o) == SubSeq(m.heap[o.v].items, o.off + 1, o.off + o.len)
Elements(m, o) == IF o.ty = "string" THEN [k \in 1 .. o.len |-> Integer(Items(m, o)[k])] ELSE Items(m, o)
Alloc(m, slot) == [m EXCEPT !.heap = Append(@, slot)]
Allocated(m) == Len(m.heap) + 1
ReplaceItems(items, at, new) ==
    [k \in DOMAIN items |-> IF k \in at + 1 .. at + Len(new) THEN new[k - at] ELSE items[k]]

(* Storing into an array or a string, all at once: what is stored was read   *)
(* before, so that source and destination may overlap.                       *)
PutItems(m, o, at, items) ==
    IF m.error # "none" THEN m
    ELSE IF o.access # Unlimited THEN Err(m, "invalidaccess")
    ELSE IF ~Fits(o, at, Len(items)) THEN Err(m, "rangecheck")
    ELSE [m EXCEPT !.heap[o.v].items = ReplaceItems(@, o.off + at, items)]

PutInterval(m, o, at, source) ==
    IF ~Readable(source) THEN Err(m, "invalidaccess") ELSE PutItems(m, o, at, Items(m, source))

PutAt(m, o, at, item) ==
    IF o.access # Unlimited THEN Err(m, "invalidaccess")
    ELSE IF at >= o.len THEN Err(m, "rangecheck")
    ELSE PutItems(m, o, at, <<item>>)

(* A string as a key becomes a name, which takes reading it. *)
BadKey(key) == key.ty = "string" /\ ~Readable(key)
DictKey(m, key) == IF key.ty = "string" THEN Name(Atom(Items(m, key))) ELSE key

DictPut(m, d, key, value) ==
    IF m.error # "none" THEN m
    ELSE IF BadKey(key) THEN Err(m, "invalidaccess")
    ELSE IF m.heap[d.v].access # Unlimited THEN Err(m, "invalidaccess")
    ELSE [m EXCEPT !.heap[d.v] = DictInsert(@, DictKey(m, key), value)]

DictUndef(m, d, key) ==
    IF BadKey(key) THEN Err(m, "invalidaccess")
    ELSE IF m.heap[d.v].access # Unlimited THEN Err(m, "invalidaccess")
    ELSE [m EXCEPT !.heap[d.v] = DictRemove(@, DictKey(m, key))]

DictReadable(m, d) == m.heap[d.v].access <= ReadOnly

DictCopy(m, source, d) ==
    IF ~DictReadable(m, source) \/ m.heap[d.v].access # Unlimited THEN Err(m, "invalidaccess")
    ELSE [m EXCEPT !.heap[d.v] =
            FoldLeft(LAMBDA dict, entry : DictInsert(dict, entry[1], entry[2]), @, m.heap[source.v].entries)]
===============================================================================

------------------------------- MODULE Operators -------------------------------
(* The operators on the operand and dictionary stacks, on arrays, strings    *)
(* and dictionaries, and the loops that read them while they run             *)
(* (ops/stack.rs, array.rs, dict.rs, types.rs, arith.rs, control.rs). An     *)
(* operator checks its operands with peek and pops them when it can no       *)
(* longer fail; most do. An error takes the program to the context of        *)
(* `stopped` around it, where it goes on.                                    *)
EXTENDS Composites, FiniteSets

CONSTANTS
    Programs,       \* programs: the operators and objects each uses, where it starts, and how long it runs
    OperandLimit, DictLimit, LoopLimit,   \* the limits of the three stacks
    MaxInt,         \* the largest integer
    MaxCompositeLen,    \* the longest array or string that is made by its size
    MaxSlots        \* a bound: how many composites there are

ASSUME OperatorsAssumption ==
    /\ {OperandLimit, DictLimit, LoopLimit, MaxInt, MaxCompositeLen, MaxSlots} \subseteq Nat
    /\ DictLimit >= 1
    /\ OperandLimit < MaxInt

VARIABLES
    program,        \* the program that runs
    machine,        \* [stack, dicts, heap, loops, error, ran]: the last two of what ran last
    steps,          \* what it has executed
    complete        \* ghost: every loop that ended had taken what it should
vars == <<program, machine, steps, complete>>

MinInt == -MaxInt - 1
InRange(n) == MinInt <= n /\ n <= MaxInt

Peek(m, n) == m.stack[Len(m.stack) - n]
Below(m, n) == SubSeq(m.stack, 1, Len(m.stack) - n)
Top(m, n) == SubSeq(m.stack, Len(m.stack) - n + 1, Len(m.stack))
Popped(m, n) == [m EXCEPT !.stack = Below(m, n)]

(* Push one after another: what finds no room is lost, with all after it. *)
Pushed(m, out) ==
    IF Len(m.stack) + Len(out) <= OperandLimit THEN [m EXCEPT !.stack = @ \o out]
    ELSE Err([m EXCEPT !.stack = @ \o SubSeq(out, 1, OperandLimit - Len(@))], "stackoverflow")

(* The end of an operator: nothing is popped if it has failed. *)
Yield(m, n, out) == IF m.error # "none" THEN m ELSE Pushed(Popped(m, n), out)

-------------------------------------------------------------------------------
(* Stack operators. *)

CopyTop(m, n) ==
    IF n < 0 THEN Err(m, "rangecheck")
    ELSE IF n > Len(m.stack) - 1 THEN Err(Popped(m, 1), "stackunderflow")
    ELSE Yield(m, 1, Top(Popped(m, 1), n))

CopyInto(m, source, target) ==
    IF RawType(source) # RawType(target) THEN Err(m, "typecheck")
    ELSE IF target.ty = "dict" THEN Yield(DictCopy(m, source, target), 2, <<target>>)
    ELSE Yield(PutInterval(m, target, 0, source), 2, <<WithInterval(target, 0, source.len)>>)

Copy(m) ==
    IF Peek(m, 0).ty = "integer" THEN CopyTop(m, Peek(m, 0).v)
    ELSE IF ~IsComposite(Peek(m, 0)) THEN Err(m, "typecheck")
    ELSE IF Len(m.stack) < 2 THEN Err(m, "stackunderflow")
    ELSE CopyInto(m, Peek(m, 1), Peek(m, 0))

Index(m) ==
    IF Peek(m, 0).v < 0 THEN Err(m, "rangecheck")
    ELSE IF Peek(m, 0).v + 1 >= Len(m.stack) THEN Err(m, "stackunderflow")
    ELSE Yield(m, 1, <<Peek(m, Peek(m, 0).v + 1)>>)

RotateRight(s, k) == SubSeq(s, Len(s) - k + 1, Len(s)) \o SubSeq(s, 1, Len(s) - k)
Rolled(m, n, j) ==
    IF n < 0 THEN Err(m, "rangecheck")
    ELSE IF n > Len(m.stack) - 2 THEN Err(m, "stackunderflow")
    ELSE [m EXCEPT !.stack =
            SubSeq(@, 1, Len(@) - 2 - n)
              \o (IF n = 0 THEN <<>> ELSE RotateRight(Top(Popped(m, 2), n), j % n))]
Roll(m) == Rolled(m, Peek(m, 1).v, Peek(m, 0).v)

Marks(m) == {k \in DOMAIN m.stack : m.stack[k].ty = "mark"}
TopMark(m) == CHOOSE k \in Marks(m) : \A l \in Marks(m) : l <= k
AboveMark(m) == Len(m.stack) - TopMark(m)
ToMark(m, after) == IF Marks(m) = {} THEN Err(m, "unmatchedmark") ELSE after

-------------------------------------------------------------------------------
(* Arrays and strings. *)

New(m, n, slot, object) == Yield(Alloc(m, slot), n, <<object>>)
NewArray(m, n, items) == New(m, n, NewItems("array", items), Composite("array", Allocated(m), Len(items)))

(* `count`: the size of what is made, checked before anything is popped. *)
SizeError(n) == IF n < 0 THEN "rangecheck" ELSE IF n > MaxCompositeLen THEN "limitcheck" ELSE "none"

(* `array` and `string` *)
Blank(m, ty, item) ==
    IF SizeError(Peek(m, 0).v) # "none" THEN Err(m, SizeError(Peek(m, 0).v))
    ELSE New(m, 1, NewItems(ty, [k \in 1 .. Peek(m, 0).v |-> item]), Composite(ty, Allocated(m), Peek(m, 0).v))

CloseBracket(m) == ToMark(m, NewArray(m, AboveMark(m) + 1, Top(m, AboveMark(m))))

AStore(m) ==
    IF Peek(m, 0).len > Len(m.stack) - 1 THEN Err(m, "stackunderflow")
    ELSE Yield(PutItems(m, Peek(m, 0), 0, Top(Popped(m, 1), Peek(m, 0).len)),
               Peek(m, 0).len + 1, <<Peek(m, 0)>>)

ALoad(m) ==
    IF ~Readable(Peek(m, 0)) THEN Err(m, "invalidaccess")
    ELSE IF Len(m.stack) + Peek(m, 0).len > OperandLimit THEN Err(m, "stackoverflow")
    ELSE Yield(m, 1, Append(Items(m, Peek(m, 0)), Peek(m, 0)))

GetInterval(m) ==
    IF Peek(m, 2).ty \notin HasInterval THEN Err(m, "typecheck")
    ELSE IF ~Readable(Peek(m, 2)) THEN Err(m, "invalidaccess")
    ELSE IF ~Fits(Peek(m, 2), Peek(m, 1).v, Peek(m, 0).v) THEN Err(m, "rangecheck")
    ELSE Yield(m, 3, <<WithInterval(Peek(m, 2), Peek(m, 1).v, Peek(m, 0).v)>>)

IntervalTypes == {<<"array", "array">>, <<"array", "packedarray">>, <<"string", "string">>}
PutIntervalAt(m) ==
    IF Peek(m, 1).v < 0 THEN Err(m, "rangecheck")
    ELSE IF <<Peek(m, 2).ty, Peek(m, 0).ty>> \notin IntervalTypes THEN Err(m, "typecheck")
    ELSE Yield(PutInterval(m, Peek(m, 2), Peek(m, 1).v, Peek(m, 0)), 3, <<>>)

StartsAt(text, seek, at) ==
    at + Len(seek) <= Len(text) /\ SubSeq(text, at + 1, at + Len(seek)) = seek
Found(text, seek, anchored) ==
    {at \in IF anchored THEN {0} ELSE 0 .. Len(text) :
        StartsAt(text, seek, at) /\ \A k \in 0 .. at - 1 : anchored \/ ~StartsAt(text, seek, k)}

Search(m, anchored) ==
    LET string == Peek(m, 1)
        n == Peek(m, 0).len
    IN  IF ~Readable(Peek(m, 0)) \/ ~Readable(string) THEN Err(m, "invalidaccess")
        ELSE IF Found(Items(m, string), Items(m, Peek(m, 0)), anchored) = {}
        THEN Yield(m, 2, <<string, Bool(FALSE)>>)
        ELSE LET at == CHOOSE k \in Found(Items(m, string), Items(m, Peek(m, 0)), anchored) : TRUE
             IN  Yield(m, 2, <<WithInterval(string, at + n, string.len - at - n), WithInterval(string, at, n)>>
                               \o (IF anchored THEN <<>> ELSE <<WithInterval(string, 0, at)>>)
                               \o <<Bool(TRUE)>>)

MakePacked(m) ==
    IF SizeError(Peek(m, 0).v) # "none" THEN Err(m, SizeError(Peek(m, 0).v))
    ELSE IF Peek(m, 0).v > Len(m.stack) - 1 THEN Err(m, "stackunderflow")
    ELSE New(m, Peek(m, 0).v + 1, NewItems("array", Top(Popped(m, 1), Peek(m, 0).v)),
             PackedArray(Allocated(m), Peek(m, 0).v))

-------------------------------------------------------------------------------
(* Dictionaries and the dictionary stack, whose bottom cannot be popped. *)

Current(m) == m.dicts[Len(m.dicts)]
Defining(m, key) == {k \in DOMAIN m.dicts : HasKey(m.heap[m.dicts[k].v], key)}
FindDict(m, key) == m.dicts[CHOOSE k \in Defining(m, key) : \A l \in Defining(m, key) : l <= k]
Lookup(m, key) == ValueOf(m.heap[FindDict(m, key).v], key)

(* `dict` has popped its operand when it finds it negative. *)
MakeDict(m) ==
    IF Peek(m, 0).v < 0 THEN Err(Popped(m, 1), "rangecheck")
    ELSE New(m, 1, NewDict(Peek(m, 0).v), Composite("dict", Allocated(m), 0))

Begin_popped(m) ==
    IF Len(m.dicts) >= DictLimit THEN Err(Popped(m, 1), "dictstackoverflow")
    ELSE [m EXCEPT !.dicts = Append(@, Peek(m, 0)), !.stack = Below(m, 1)]

Begin(m) ==
    IF Len(m.dicts) >= DictLimit THEN Err(m, "dictstackoverflow")
    ELSE [m EXCEPT !.dicts = Append(@, Peek(m, 0)), !.stack = Below(m, 1)]

End(m) == IF Len(m.dicts) <= 1 THEN Err(m, "dictstackunderflow") ELSE [m EXCEPT !.dicts = Front(@)]

Def(m) == Yield(DictPut(m, Current(m), Peek(m, 1), Peek(m, 0)), 2, <<>>)

Load(m) ==
    IF BadKey(Peek(m, 0)) THEN Err(m, "invalidaccess")
    ELSE IF Defining(m, DictKey(m, Peek(m, 0))) = {} THEN Err(m, "undefined")
    ELSE Yield(m, 1, <<Lookup(m, DictKey(m, Peek(m, 0)))>>)

StoreInto(m, key) == IF Defining(m, key) = {} THEN Current(m) ELSE FindDict(m, key)
Store(m) ==
    IF BadKey(Peek(m, 1)) THEN Err(m, "invalidaccess")
    ELSE Yield(DictPut(m, StoreInto(m, DictKey(m, Peek(m, 1))), Peek(m, 1), Peek(m, 0)), 2, <<>>)

Known(m) ==
    IF BadKey(Peek(m, 0)) \/ ~DictReadable(m, Peek(m, 1)) THEN Err(m, "invalidaccess")
    ELSE Yield(m, 2, <<Bool(HasKey(m.heap[Peek(m, 1).v], DictKey(m, Peek(m, 0))))>>)

Where(m) ==
    IF BadKey(Peek(m, 0)) THEN Err(m, "invalidaccess")
    ELSE Yield(m, 1, IF Defining(m, DictKey(m, Peek(m, 0))) = {} THEN <<Bool(FALSE)>>
                     ELSE <<FindDict(m, DictKey(m, Peek(m, 0))), Bool(TRUE)>>)

IndexError(key) == IF key.ty # "integer" THEN "typecheck" ELSE IF key.v < 0 THEN "rangecheck" ELSE "none"

Get(m) ==
    LET key == Peek(m, 0)
        container == Peek(m, 1)
    IN  IF container.ty = "dict"
        THEN IF BadKey(key) \/ ~DictReadable(m, container) THEN Err(m, "invalidaccess")
             ELSE IF ~HasKey(m.heap[container.v], DictKey(m, key)) THEN Err(m, "undefined")
             ELSE Yield(m, 2, <<ValueOf(m.heap[container.v], DictKey(m, key))>>)
        ELSE IF container.ty \notin HasInterval THEN Err(m, "typecheck")
        ELSE IF IndexError(key) # "none" THEN Err(m, IndexError(key))
        ELSE IF ~Readable(container) THEN Err(m, "invalidaccess")
        ELSE IF key.v >= container.len THEN Err(m, "rangecheck")
        ELSE Yield(m, 2, <<Elements(m, container)[key.v + 1]>>)

IsByte(o) == o.v \in 0 .. Letters - 1
Put(m) ==
    LET value == Peek(m, 0)
        key == Peek(m, 1)
        container == Peek(m, 2)
    IN  IF container.ty = "dict" THEN Yield(DictPut(m, container, key, value), 3, <<>>)
        ELSE IF container.ty \notin HasInterval THEN Err(m, "typecheck")
        ELSE IF container.ty = "string" /\ value.ty # "integer" THEN Err(m, "typecheck")
        ELSE IF container.ty = "string" /\ ~IsByte(value) THEN Err(m, "rangecheck")
        ELSE IF IndexError(key) # "none" THEN Err(m, IndexError(key))
        ELSE Yield(PutAt(m, container, key.v, IF container.ty = "string" THEN value.v ELSE value), 3, <<>>)

Undef(m) == Yield(DictUndef(m, Peek(m, 1), Peek(m, 0)), 2, <<>>)

(* Of an array, a string or a name it is known without reading it. *)
Length(m) ==
    IF Peek(m, 0).ty \in HasInterval THEN Yield(m, 1, <<Integer(Peek(m, 0).len)>>)
    ELSE IF Peek(m, 0).ty = "name" THEN Yield(m, 1, <<Integer(AtomLength[Peek(m, 0).v])>>)
    ELSE IF Peek(m, 0).ty # "dict" THEN Err(m, "typecheck")
    ELSE IF ~DictReadable(m, Peek(m, 0)) THEN Err(m, "invalidaccess")
    ELSE Yield(m, 1, <<Integer(Len(m.heap[Peek(m, 0).v].entries))>>)

DictMaxLength(m) ==
    IF ~DictReadable(m, Peek(m, 0)) THEN Err(m, "invalidaccess")
    ELSE Yield(m, 1, <<Integer(MaxLength(m.heap[Peek(m, 0).v]))>>)

DictStack(m) ==
    Yield(PutItems(m, Peek(m, 0), 0, m.dicts), 1, <<WithInterval(Peek(m, 0), 0, Len(m.dicts))>>)

(* `>>` stores the pairs one by one; a key that cannot be read fails it with *)
(* the mark and what is above it still there.                                *)
Pairs(m) == [k \in 1 .. AboveMark(m) \div 2 |-> SubSeq(Top(m, AboveMark(m)), 2 * k - 1, 2 * k)]
Stored(m, d, pairs) == FoldLeft(LAMBDA n, pair : DictPut(n, d, pair[1], pair[2]), m, pairs)
DictEnd(m) ==
    ToMark(m, IF AboveMark(m) % 2 = 1 THEN Err(m, "rangecheck")
              ELSE Yield(Stored(Alloc(m, NewDict(AboveMark(m) \div 2)),
                                Composite("dict", Allocated(m), 0), Pairs(m)),
                         AboveMark(m) + 1, <<Composite("dict", Allocated(m), 0)>>))

(* `bind`: the names in an array, and in every executable array in it, that  *)
(* are operators. A writable array is one that gives its object that access, *)
(* and of two objects for one interval the first that is met decides.        *)
IsOperator(m, o) == o.ty = "name" /\ o.exec /\ Defining(m, o) # {} /\ Lookup(m, o).ty = "operator"
Bound(m, array) ==
    [k \in 1 .. array.len |-> IF IsOperator(m, Items(m, array)[k]) THEN Lookup(m, Items(m, array)[k])
                              ELSE Items(m, array)[k]]
Procedures(m, array) == SelectSeq(Items(m, array), LAMBDA o : o.exec /\ o.ty \in Arrays)
Interval(o) == <<o.v, o.off, o.len>>

RECURSIVE BindFrom(_, _, _)
BindFrom(m, pending, visited) ==
    IF pending = <<>> THEN m
    ELSE LET array == Last(pending)
         IN  IF Interval(array) \in visited THEN BindFrom(m, Front(pending), visited)
             ELSE BindFrom(IF array.access = Unlimited THEN PutItems(m, array, 0, Bound(m, array)) ELSE m,
                           Front(pending) \o Procedures(m, array), visited \cup {Interval(array)})
Bind(m) == BindFrom(m, <<Peek(m, 0)>>, {})

-------------------------------------------------------------------------------
(* Attributes: access only ever tightens. That of an array or a string is    *)
(* the object's, that of a dictionary is shared.                             *)

Tighten(m, access, dictAllowed) ==
    LET o == Peek(m, 0)
    IN  IF o.ty = "dict" /\ dictAllowed
        THEN IF access < m.heap[o.v].access THEN Err(m, "invalidaccess")
             ELSE [m EXCEPT !.heap[o.v].access = access]
        ELSE IF o.ty \notin HasInterval THEN Err(m, "typecheck")
        ELSE IF o.access > access THEN Err(m, "invalidaccess")
        ELSE Yield(m, 1, <<[o EXCEPT !.access = access]>>)

AccessOf(m, o) == IF o.ty = "dict" THEN m.heap[o.v].access ELSE o.access
CheckAccess(m, limit) ==
    IF ~IsComposite(Peek(m, 0)) THEN Err(m, "typecheck")
    ELSE Yield(m, 1, <<Bool(AccessOf(m, Peek(m, 0)) <= limit)>>)

WithExec(m, exec) == Yield(m, 1, <<[Peek(m, 0) EXCEPT !.exec = exec]>>)

MakeName(m) ==
    IF ~Readable(Peek(m, 0)) THEN Err(m, "invalidaccess")
    ELSE Yield(m, 1, <<[Name(Atom(Items(m, Peek(m, 0)))) EXCEPT !.exec = Peek(m, 0).exec]>>)

-------------------------------------------------------------------------------
(* Arithmetic: an integer that does not fit becomes a real. *)

Number(n, real) == IF real \/ ~InRange(n) THEN Real(n) ELSE Integer(n)
AnyReal(m, n) == \E k \in 0 .. n - 1 : Peek(m, k).ty = "real"
Binary(m, n) == Yield(m, 2, <<Number(n, AnyReal(m, 2))>>)

Quotient(a, b) == IF (a < 0) = (b < 0) THEN (IF a < 0 THEN (-a) \div (-b) ELSE a \div b)
                  ELSE IF a < 0 THEN -((-a) \div b) ELSE -(a \div (-b))
Divided(m, a, b) ==
    IF b = 0 \/ ~InRange(Quotient(a, b)) THEN Err(m, "undefinedresult") ELSE Yield(m, 2, <<Integer(Quotient(a, b))>>)
Modulo(m, a, b) ==
    IF b = 0 THEN Err(m, "undefinedresult") ELSE Yield(m, 2, <<Integer(a - b * Quotient(a, b))>>)

Unary(m, n) == Yield(m, 1, <<Number(n, AnyReal(m, 1))>>)
Abs(n) == IF n < 0 THEN -n ELSE n

(* Shifts are of the pattern of bits, and wrap. *)
Width == 2 * (MaxInt + 1)
Unsigned(n) == n % Width
Signed(n) == IF n > MaxInt THEN n - Width ELSE n
Shifted(n, by) == Signed(IF by >= 0 THEN (Unsigned(n) * 2 ^ by) % Width ELSE Unsigned(n) \div 2 ^ (-by))

Equal(m, a, b) ==
    IF "string" \in {a.ty, b.ty} /\ {a.ty, b.ty} \subseteq {"string", "name"}
    THEN DictKey(m, a).v = DictKey(m, b).v ELSE SameObject(a, b)

(* The order of bytes. *)
Before(x, y) ==
    \E k \in 1 .. Len(y) :
        /\ k > Len(x) \/ x[k] < y[k]
        /\ \A l \in 1 .. k - 1 : l <= Len(x) /\ x[l] = y[l]

Less(m, a, b) ==
    IF IsNumber(a) /\ IsNumber(b) THEN Yield(m, 2, <<Bool(a.v < b.v)>>)
    ELSE IF a.ty = "string" /\ b.ty = "string" THEN Yield(m, 2, <<Bool(Before(Items(m, a), Items(m, b)))>>)
    ELSE Err(m, "typecheck")

Negated(m) ==
    IF Peek(m, 0).ty = "boolean" THEN Yield(m, 1, <<Bool(Peek(m, 0).v = 0)>>)
    ELSE IF Peek(m, 0).ty = "integer" THEN Yield(m, 1, <<Integer(-Peek(m, 0).v - 1)>>)
    ELSE Err(m, "typecheck")

-------------------------------------------------------------------------------
(* Loops. A loop is a frame: what it runs over, and the body that runs when  *)
(* it has put its next values on the stack. `seen` is history: what it put   *)
(* there; `start` where it began; `removed` that a key was.                  *)

Frame(kind, of) ==
    [kind |-> kind, of |-> of, next |-> 0, increment |-> 0, limit |-> 0, done |-> FALSE,
     seen |-> <<>>, start |-> 0, removed |-> FALSE]

(* The operands are gone when the frame finds no room. *)
Enter(m, n, frame) ==
    IF m.error # "none" THEN m
    ELSE IF Len(m.loops) >= LoopLimit THEN Err(Popped(m, n), "execstackoverflow")
    ELSE [Popped(m, n) EXCEPT !.loops = Append(@, frame)]

ForAll(m) ==
    LET container == Peek(m, 1)
    IN  IF container.ty = "dict" /\ ~DictReadable(m, container) THEN Err(m, "invalidaccess")
        ELSE IF container.ty \in HasInterval /\ ~Readable(container) THEN Err(m, "invalidaccess")
        ELSE IF ~IsComposite(container) THEN Err(m, "typecheck")
        ELSE Enter(m, 2, Frame("forall", container))

For(m) ==
    LET ty == IF \E k \in 1 .. 3 : Peek(m, k).ty = "real" THEN "real" ELSE "integer"
    IN  Enter(m, 4, [Frame("for", Simple(ty, 0)) EXCEPT
                        !.next = Peek(m, 3).v, !.start = Peek(m, 3).v,
                        !.increment = Peek(m, 2).v, !.limit = Peek(m, 1).v])

Repeat(m) ==
    IF Peek(m, 1).v < 0 THEN Err(m, "rangecheck")
    ELSE IF Peek(m, 1).v = 0 THEN Popped(m, 2)
    ELSE Enter(m, 2, [Frame("repeat", Null) EXCEPT !.limit = Peek(m, 1).v])

Past(f) ==
    CASE f.kind = "for" -> f.done \/ (IF f.increment >= 0 THEN f.next > f.limit ELSE f.next < f.limit)
      [] f.kind = "repeat" -> f.next >= f.limit
      [] f.kind = "forall" /\ f.of.ty # "dict" -> f.next >= f.of.len
PastEntries(m, f) == f.next >= Len(m.heap[f.of.v].entries)
Ended(m, f) == IF f.of.ty = "dict" THEN PastEntries(m, f) ELSE Past(f)

Values(m, f) ==
    CASE f.kind = "for" -> <<Simple(f.of.ty, f.next)>>
      [] f.kind = "repeat" -> <<>>
      [] f.kind = "forall" -> IF f.of.ty = "dict" THEN m.heap[f.of.v].entries[f.next + 1]
                              ELSE <<Elements(m, f.of)[f.next + 1]>>

(* The last integer a loop can reach is its last value. *)
Advanced(f, values) ==
    IF f.kind # "for" THEN [f EXCEPT !.next = @ + 1, !.seen = Append(@, values)]
    ELSE IF f.of.ty = "integer" /\ ~InRange(f.next + f.increment)
    THEN [f EXCEPT !.done = TRUE, !.seen = Append(@, values)]
    ELSE [f EXCEPT !.next = @ + f.increment, !.seen = Append(@, values)]

Unreadable(m, f) == f.of.ty = "dict" /\ ~DictReadable(m, f.of)

Turn(m, f) ==
    IF Unreadable(m, f) THEN Err([m EXCEPT !.loops = Front(@)], "invalidaccess")
    ELSE IF Ended(m, f) THEN [m EXCEPT !.loops = Front(@)]
    ELSE Pushed([m EXCEPT !.loops = Append(Front(@), Advanced(f, Values(m, f)))], Values(m, f))

-------------------------------------------------------------------------------
(* The classes of operands an operator declares, deepest first. *)
Sig(op) ==
    CASE op \in {"pop", "dup", "copy", "load", "where", "length", "xcheck", "cvlit", "cvx", "readonly",
                 "executeonly", "noaccess", "rcheck", "wcheck", "not"} -> <<"any">>
      [] op \in {"exch", "def", "store", "get", "eq", "lt"} -> <<"any", "any">>
      [] op = "put" -> <<"any", "any", "any">>
      [] op \in {"index", "array", "string", "packedarray", "dict"} -> <<"int">>
      [] op \in {"roll", "idiv", "mod", "bitshift"} -> <<"int", "int">>
      [] op \in {"add", "sub", "mul"} -> <<"num", "num">>
      [] op \in {"neg", "abs"} -> <<"num">>
      [] op \in {"astore", "aload", "dictstack", "bind"} -> <<"array">>
      [] op = "getinterval" -> <<"any", "int", "int">>
      [] op = "putinterval" -> <<"any", "int", "any">>
      [] op \in {"search", "anchorsearch"} -> <<"string", "string">>
      [] op = "cvn" -> <<"string">>
      [] op \in {"begin", "maxlength"} -> <<"dict">>
      [] op \in {"known", "undef"} -> <<"dict", "any">>
      [] op = "forall" -> <<"any", "array">>
      [] op = "repeat" -> <<"int", "array">>
      [] op = "for" -> <<"num", "num", "num", "array">>
      [] OTHER -> <<>>

Accepts(class, o) ==
    CASE class = "any" -> TRUE
      [] class = "int" -> o.ty = "integer"
      [] class = "num" -> IsNumber(o)
      [] class = "array" -> o.ty \in Arrays
      [] OTHER -> o.ty = class

Call(op, m) ==
    CASE op = "pop" -> Popped(m, 1)
      [] op = "dup" -> Yield(m, 0, <<Peek(m, 0)>>)
      [] op = "exch" -> Yield(m, 2, <<Peek(m, 0), Peek(m, 1)>>)
      [] op = "copy" -> Copy(m)
      [] op = "index" -> Index(m)
      [] op = "roll" -> Roll(m)
      [] op = "clear" -> [m EXCEPT !.stack = <<>>]
      [] op = "count" -> Yield(m, 0, <<Integer(Len(m.stack))>>)
      [] op \in {"mark", "[", "<<"} -> Yield(m, 0, <<Mark>>)
      [] op = "cleartomark" -> ToMark(m, Popped(m, AboveMark(m) + 1))
      [] op = "counttomark" -> ToMark(m, Yield(m, 0, <<Integer(AboveMark(m))>>))
      [] op = "array" -> Blank(m, "array", Null)
      [] op = "string" -> Blank(m, "string", 0)
      [] op = "]" -> CloseBracket(m)
      [] op = "astore" -> AStore(m)
      [] op = "aload" -> ALoad(m)
      [] op = "getinterval" -> GetInterval(m)
      [] op = "putinterval" -> PutIntervalAt(m)
      [] op = "search" -> Search(m, FALSE)
      [] op = "anchorsearch" -> Search(m, TRUE)
      [] op = "packedarray" -> MakePacked(m)
      [] op = "forall" -> ForAll(m)
      [] op = "for" -> For(m)
      [] op = "repeat" -> Repeat(m)
      [] op = "dict" -> MakeDict(m)
      [] op = "begin" -> Begin(m)
      [] op = "end" -> End(m)
      [] op = "def" -> Def(m)
      [] op = "load" -> Load(m)
      [] op = "store" -> Store(m)
      [] op = "known" -> Known(m)
      [] op = "where" -> Where(m)
      [] op = "get" -> Get(m)
      [] op = "put" -> Put(m)
      [] op = "undef" -> Undef(m)
      [] op = "length" -> Length(m)
      [] op = "maxlength" -> DictMaxLength(m)
      [] op = "currentdict" -> Yield(m, 0, <<Current(m)>>)
      [] op = "countdictstack" -> Yield(m, 0, <<Integer(Len(m.dicts))>>)
      [] op = "dictstack" -> DictStack(m)
      [] op = "cleardictstack" -> [m EXCEPT !.dicts = SubSeq(@, 1, 1)]
      [] op = ">>" -> DictEnd(m)
      [] op = "bind" -> Bind(m)
      [] op = "cvlit" -> WithExec(m, FALSE)
      [] op = "cvx" -> WithExec(m, TRUE)
      [] op = "xcheck" -> Yield(m, 1, <<Bool(Peek(m, 0).exec)>>)
      [] op = "readonly" -> Tighten(m, ReadOnly, TRUE)
      [] op = "executeonly" -> Tighten(m, ExecuteOnly, FALSE)
      [] op = "noaccess" -> Tighten(m, NoAccess, TRUE)
      [] op = "rcheck" -> CheckAccess(m, ReadOnly)
      [] op = "wcheck" -> CheckAccess(m, Unlimited)
      [] op = "cvn" -> MakeName(m)
      [] op = "add" -> Binary(m, Peek(m, 1).v + Peek(m, 0).v)
      [] op = "sub" -> Binary(m, Peek(m, 1).v - Peek(m, 0).v)
      [] op = "mul" -> Binary(m, Peek(m, 1).v * Peek(m, 0).v)
      [] op = "neg" -> Unary(m, -Peek(m, 0).v)
      [] op = "abs" -> Unary(m, Abs(Peek(m, 0).v))
      [] op = "idiv" -> Divided(m, Peek(m, 1).v, Peek(m, 0).v)
      [] op = "mod" -> Modulo(m, Peek(m, 1).v, Peek(m, 0).v)
      [] op = "bitshift" -> Yield(m, 2, <<Integer(Shifted(Peek(m, 1).v, Peek(m, 0).v))>>)
      [] op = "eq" -> Yield(m, 2, <<Bool(Equal(m, Peek(m, 1), Peek(m, 0)))>>)
      [] op = "lt" -> Less(m, Peek(m, 1), Peek(m, 0))
      [] op = "not" -> Negated(m)

Performed(op, m) ==
    IF Len(m.stack) < Len(Sig(op)) THEN Err(m, "stackunderflow")
    ELSE IF \E k \in DOMAIN Sig(op) : ~Accepts(Sig(op)[k], Top(m, Len(Sig(op)))[k]) THEN Err(m, "typecheck")
    ELSE Call(op, m)

-------------------------------------------------------------------------------
Init ==
    /\ program \in DOMAIN Programs
    /\ machine = Programs[program].start
    /\ steps = 0
    /\ complete = TRUE

(* History of the loops over a dictionary that lost a key. *)
Lost(m, n, f) == f.of.ty = "dict" /\ ~(DOMAIN m.heap[f.of.v].index \subseteq DOMAIN n.heap[f.of.v].index)
Noted(m, n) == [n EXCEPT !.loops = [k \in DOMAIN @ |-> [@[k] EXCEPT !.removed = @ \/ Lost(m, n, n.loops[k])]]]

(* An error unwinds to `stopped`, which leaves `true` for it. *)
Stopped(m) == IF m.error = "none" THEN m ELSE [m EXCEPT !.stack = Append(@, Bool(TRUE)), !.loops = <<>>]

Step(op, m) ==
    /\ steps < Programs[program].steps
    /\ Len(m.heap) <= MaxSlots
    /\ machine' = [Stopped(Noted(machine, m)) EXCEPT !.ran = op]
    /\ steps' = steps + 1
    /\ UNCHANGED program

Ready == [machine EXCEPT !.error = "none"]

(* An object that is not executable is pushed. *)
Push(o) == Step("push", Pushed(Ready, <<o>>)) /\ UNCHANGED complete

Execute(op) == Step(op, Performed(op, Ready)) /\ UNCHANGED complete

(* What a loop that ends should have taken: every value from the first to    *)
(* the limit, every element, every entry of a dictionary that lost none.     *)
Reached(f) ==
    {k \in 0 .. 2 * MaxInt : IF f.increment >= 0 THEN f.start + k * f.increment <= f.limit
                             ELSE f.start + k * f.increment >= f.limit}
TookAll(m, f) ==
    CASE f.kind = "for" -> f.seen = [k \in 1 .. Cardinality(Reached(f)) |->
                                        <<Simple(f.of.ty, f.start + (k - 1) * f.increment)>>]
      [] f.kind = "repeat" -> Len(f.seen) = f.limit
      [] f.kind = "forall" /\ f.of.ty # "dict" -> Len(f.seen) = f.of.len
      [] f.kind = "forall" /\ f.of.ty = "dict" ->
            f.removed \/ [k \in DOMAIN f.seen |-> f.seen[k][1]] = [k \in DOMAIN m.heap[f.of.v].entries |->
                                                                    m.heap[f.of.v].entries[k][1]]

(* The body of the innermost loop has run. *)
Iterate ==
    /\ machine.loops # <<>>
    /\ Step("iterate", Turn(Ready, Last(machine.loops)))
    /\ complete' = (complete /\ (Ended(machine, Last(machine.loops)) /\ ~Unreadable(machine, Last(machine.loops))
                                    => TookAll(machine, Last(machine.loops))))

Next ==
    \/ \E o \in Programs[program].objects : Push(o)
    \/ \E op \in Programs[program].ops : Execute(op)
    \/ Iterate

Spec == Init /\ [][Next]_vars

-------------------------------------------------------------------------------
(* Everything that names a slot. *)
ItemsOf(slot) == {slot.items[k] : k \in DOMAIN slot.items}
EntriesOf(slot) == {slot.entries[k][1] : k \in DOMAIN slot.entries} \cup {slot.entries[k][2] : k \in DOMAIN slot.entries}
Objects(m) ==
    {m.stack[k] : k \in DOMAIN m.stack} \cup {m.dicts[k] : k \in DOMAIN m.dicts}
      \cup {m.loops[k].of : k \in DOMAIN m.loops}
      \cup UNION {ItemsOf(m.heap[h]) : h \in {g \in DOMAIN m.heap : m.heap[g].kind = "array"}}
      \cup UNION {EntriesOf(m.heap[h]) : h \in DOMAIN m.heap}

(* An operator that fails has done nothing: its operands are on the stack,   *)
(* nothing that existed has changed. Known to lose their operands: `dict` of *)
(* a negative size and `copy` of more than there is pop first, and what has  *)
(* popped to push more, or to enter a loop, may find no room; over the limit *)
(* - `stopped` pushes its `true` onto a full stack - any operator may.       *)
MayLose(op, error) ==
    \/ op = "dict" /\ error = "rangecheck"
    \/ op = "copy" /\ error \in {"stackunderflow", "stackoverflow"}
    \/ op \in {"search", "anchorsearch", "where", "iterate"} /\ error = "stackoverflow"
    \/ op \in {"forall", "for", "repeat"} /\ error = "execstackoverflow"
    \/ Len(machine.stack) > OperandLimit /\ error = "stackoverflow"

Kept(op, error) == IF MayLose(op, error) THEN Len(machine.stack) - Len(Sig(op)) ELSE Len(machine.stack)

AllOrNothing ==
    [][machine'.error # "none" =>
        /\ machine'.dicts = machine.dicts
        /\ \A h \in DOMAIN machine.heap : machine'.heap[h] = machine.heap[h]
        /\ IsPrefix(SubSeq(machine.stack, 1, Kept(machine'.ran, machine'.error)), machine'.stack)
        /\ MayLose(machine'.ran, machine'.error) \/ Len(machine'.stack) = Len(machine.stack) + 1]_vars

(* Access only ever tightens: a slot no object allows to write is never      *)
(* written, and no operator makes an object that does.                       *)
Writable(m, h) ==
    \/ m.heap[h].kind = "dict" /\ m.heap[h].access = Unlimited
    \/ \E o \in Objects(m) : o.ty \in HasInterval /\ o.v = h /\ o.len > 0 /\ o.access = Unlimited
Content(slot) == <<slot.items, slot.entries, slot.index>>

AccessTightens ==
    [][\A h \in DOMAIN machine.heap :
        ~Writable(machine, h) => /\ ~Writable(machine', h)
                                 /\ Content(machine'.heap[h]) = Content(machine.heap[h])]_vars

(* Each dictionary finds each of its keys where it is, and holds no key      *)
(* twice that `eq` does not tell apart; each interval lies within its slot.  *)
IndexIsEntries(dict) ==
    /\ DOMAIN dict.index = {KeyOf(dict.entries[k][1]) : k \in DOMAIN dict.entries}
    /\ \A k \in DOMAIN dict.entries : dict.index[KeyOf(dict.entries[k][1])] = k
    /\ \A k, l \in DOMAIN dict.entries : SameObject(dict.entries[k][1], dict.entries[l][1]) => k = l

StorageAgrees ==
    /\ \A h \in DOMAIN machine.heap : IndexIsEntries(machine.heap[h])
    /\ \A o \in Objects(machine) : o.ty \in HasInterval => o.off + o.len <= Len(machine.heap[o.v].items)
    /\ \A o \in Objects(machine) : o.ty = "integer" => InRange(o.v)

(* A loop takes every value between its limits and every element of what it  *)
(* runs over, once and in order, whatever its body does, unless the body     *)
(* removes an entry.                                                         *)
LoopsTakeAll == complete
===============================================================================

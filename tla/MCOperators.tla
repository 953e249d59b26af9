----------------------------- MODULE MCOperators -----------------------------
(* Programs for Operators: vocabularies, with what they start from. *)
EXTENDS Operators

(* The first slot is a dictionary that defines an operator, the second one  *)
(* two names, the third an array, the fourth a string.                      *)
Holding(pairs) == FoldLeft(LAMBDA dict, p : DictInsert(dict, p[1], p[2]), NewDict(2), pairs)
Heap == <<Holding(<<<<Name(1), Operator(1)>>>>),
          Holding(<<<<Name(2), Integer(1)>>, <<Name(3), Integer(2)>>>>),
          NewItems("array", <<Integer(1), [Name(1) EXCEPT !.exec = TRUE], Null>>),
          NewItems("string", <<1, 2, 1>>)>>
TheDict == Composite("dict", 2, 0)
TheArray == Composite("array", 3, 3)
TheString == Composite("string", 4, 3)
Body == [Composite("array", 3, 0) EXCEPT !.exec = TRUE]

From(stack) ==
    [stack |-> stack, dicts |-> <<Composite("dict", 1, 0)>>, heap |-> Heap, loops |-> <<>>,
     error |-> "none", ran |-> "start"]

Using(ops, objects, stack, n) == [ops |-> ops, objects |-> objects, start |-> From(stack), steps |-> n]

MCPrograms ==
    <<Using({"pop", "dup", "exch", "copy", "index", "roll", "count", "mark", "cleartomark", "counttomark", "clear"},
            {Integer(2), Integer(-1)}, <<Null, Integer(1)>>, 5),
      Using({"copy", "dup", "]", "astore", "aload", "getinterval", "putinterval", "array", "packedarray", "get",
             "put", "length"},
            {Integer(1), Integer(2)}, <<Mark, TheArray>>, 5),
      Using({"dup", "exch", "readonly", "executeonly", "noaccess", "rcheck", "wcheck", "getinterval", "put", "copy",
             "aload", "astore"},
            {Integer(0), Integer(1)}, <<TheArray>>, 5),
      Using({"dup", "exch", "string", "getinterval", "putinterval", "search", "anchorsearch", "cvn", "length", "eq",
             "lt", "readonly", "noaccess"},
            {Integer(1)}, <<TheString, Composite("string", 4, 1)>>, 5),
      Using({"dup", "begin", "end", "def", "load", "store", "where", "known", "undef", "readonly", "noaccess",
             "currentdict", "put"},
            {Name(2), Integer(1)}, <<TheDict>>, 5),
      Using({"dict", "<<", ">>", "dup", "put", "get", "maxlength", "length", "copy", "undef", "exch"},
            {Real(1), Integer(-1), Integer(1)}, <<TheDict>>, 5),
      Using({"forall", "put", "undef", "pop", "exch", "noaccess"}, {Body}, <<TheDict, TheDict, Body>>, 8),
      Using({"for", "pop", "add", "clear"}, {Integer(1), Integer(7), Integer(-4), Body}, <<Integer(5)>>, 6),
      Using({"for", "pop"}, {Body}, <<Integer(1), Integer(4), Integer(7), Body>>, 8),
      Using({"repeat", "forall", "pop", "dup", "put"}, {Integer(2), Body}, <<TheString, TheArray>>, 7),
      Using({"bind", "dup", "cvx", "cvlit", "xcheck", "readonly", "]", "get", "eq"},
            {Integer(0), [Name(1) EXCEPT !.exec = TRUE]}, <<Mark, TheArray>>, 5),
      Using({"dictstack", "countdictstack", "cleardictstack", "begin", "dup", "exch", "readonly"},
            {Integer(1)}, <<TheDict, TheArray>>, 5),
      Using({"add", "sub", "mul", "neg", "abs", "idiv", "mod", "bitshift", "eq", "not"},
            {Integer(7), Integer(-8), Integer(2)}, <<Integer(-1), Real(1)>>, 5)>>
===============================================================================

------------------------- MODULE MCInstrumentation -------------------------
(***************************************************************************)
(* Four targets.  The executable holds the functions that start and stop   *)
(* the profile, a library that is loaded later those of the allocator.     *)
(***************************************************************************)
EXTENDS Instrumentation

HeaderAt(depth, tag, offset) == [kind |-> "header", depth |-> depth, tag |-> tag, offset |-> offset]
Header(tag, offset) == HeaderAt(IF tag = "formal_parameter" THEN 2 ELSE 1, tag, offset)
Name(name) == [kind |-> "name", value |-> name]
Type(offset) == [kind |-> "type", value |-> offset]

\* Pointer types that are described after the functions; a variable.
MCLatePointers ==
  << Header("subprogram", 1), Name("foo"),
     Header("formal_parameter", 2), Name("a"), Type(7),
     Header("formal_parameter", 3), Name("n"), Type(8),
     Header("variable", 4), Name("x"), Type(7),
     Header("subprogram", 5), Name("bar"), Type(7),
     Header("formal_parameter", 6), Name("b"), Type(9),
     Header("pointer_type", 7), Type(8),
     Header("base_type", 8), Name("int"),
     Header("restrict_type", 9), Type(7) >>

\* Two overloaded functions; a function type, whose parameter has no name.
MCOverloads ==
  << Header("base_type", 1), Name("int"),
     Header("pointer_type", 2), Type(1),
     Header("subprogram", 3), Name("add"), Type(1),
     Header("formal_parameter", 4), Name("i"), Type(1),
     Header("subprogram", 5), Name("add"), Type(1),
     Header("formal_parameter", 6), Name("p"), Type(2),
     Header("subprogram", 7), Name("bar"),
     Header("formal_parameter", 8), Name("b"), Type(2),
     Header("subroutine_type", 9), Type(1),
     Header("formal_parameter", 10), Type(2) >>

\* An instance of a function that is described elsewhere, without a name.
MCInstance ==
  << Header("pointer_type", 1),
     Header("subprogram", 2),
     Header("formal_parameter", 3),
     Header("subprogram", 4), Name("add"), Type(1),
     Header("formal_parameter", 5), Name("p"), Type(1) >>

\* An operator; a function with a pointer to a type of its own.
MCLocalType ==
  << Header("base_type", 1), Name("int"),
     Header("subprogram", 2), Name("operator new"),
     Header("subprogram", 3), Name("bar"),
     Header("formal_parameter", 4), Name("a"), Type(1),
     Header("formal_parameter", 5), Name("b"), Type(8),
     HeaderAt(2, "structure_type", 6), Name("local"),
     HeaderAt(2, "pointer_type", 7), Type(6),
     Header("pointer_type", 8), Type(1) >>

MCOutputs == {MCLatePointers, MCOverloads, MCInstance, MCLocalType}

\* Zeroes, like those of a type that has not been written, or an offset.
MCLeftover == {Uninit, 1}

MCImage == {[main |-> TRUE, defines |-> {"start_profile", "stop_profile"}],
            [main |-> FALSE, defines |-> {"malloc", "free"}]}

MCRoutine == {"main", "foo.part.0", "bar", "_Z3addPd"}
MCExcluded == {"main"}
MCBeforeDot ==
  [r \in MCRoutine |-> IF r = "foo.part.0" THEN "foo" ELSE r]
MCWord == {"foo", "bar", "add", "a", "n", "b", "x", "int", "p", "i", "new", "local"}
MCLastWord ==
  [n \in MCWord \cup {"operator new"} |-> IF n = "operator new" THEN "new" ELSE n]
MCUndecorated ==
  [n \in MCRoutine \cup MCWord \cup {Uninit} |-> IF n = "_Z3addPd" THEN "add" ELSE n]

MCIns ==
  [add |-> [stack |-> FALSE, reads |-> 1, writes |-> 1],
   push |-> [stack |-> TRUE, reads |-> 1, writes |-> 1]]
=============================================================================

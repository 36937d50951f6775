----------------------------- MODULE DebugReader -----------------------------
(***************************************************************************)
(* read_debug (src/debug_reader.cpp): the functions, their parameters and  *)
(* the pointer types, read line by line from what objdump prints of the    *)
(* target's debug information.  An entry is a header line that names its   *)
(* tag and its offset, followed by indented lines for its attributes; only *)
(* the lines of the two attributes that are read are kept.                 *)
(***************************************************************************)
EXTENDS Naturals, Sequences, FiniteSets

CONSTANTS
  Outputs,  \* of objdump -g -Wi: sequences of headers [kind |-> "header", depth, tag, offset]
            \* and of attributes [kind |-> "name" or "type", value]
  LastWord, \* LastWord[n]: what follows the last space of the name n
  Leftover, \* what realloc may leave in a new element of ptr_types
  Uninit    \* a field that read_debug has not written

Entry(o, i, tag) == o[i].kind = "header" /\ o[i].tag = tag

\* A parameter before the first function would be written to functions[-1].
ASSUME OutputsAssumption ==
  \A o \in Outputs :
    /\ Len(o) \in Nat
    /\ \A i \in 1 .. Len(o) :
         /\ o[i].kind \in {"header", "name", "type"}
         /\ Entry(o, i, "formal_parameter") => \E j \in 1 .. i : Entry(o, j, "subprogram")

ASSUME LeftoverAssumption == Leftover # {}

VARIABLES
  output,       \* what objdump prints of the target
  position,     \* the lines of it that have been read
  get_function, get_parameter,
  functions, ptr_types

readerVars == << output, position, get_function, get_parameter, functions, ptr_types >>

PointerTag == {"pointer_type", "restrict_type"}

ReaderInit ==
  /\ output \in Outputs
  /\ position = 0
  /\ get_function = FALSE /\ get_parameter = FALSE
  /\ functions = << >> /\ ptr_types = << >>

NewParameter == [name |-> Uninit, type |-> Uninit]
NewFunction == [name |-> Uninit, type |-> Uninit, parameters |-> << >>]

\* A parameter belongs to the last function there is.
Extended(line) ==
  CASE line.tag = "subprogram" -> Append(functions, NewFunction)
    [] line.tag = "formal_parameter" ->
         [functions EXCEPT ![Len(functions)].parameters = Append(@, NewParameter)]
    [] OTHER -> functions

\* sscanf matches the headers of depth 1; of any other header it says so, the
\* assertion of its result is compiled out and the new element stays as it was.
Scanned(line) == IF line.depth = 1 THEN {line.offset} ELSE Leftover

\* A wrong read_debug: a header does not end the function before it.
ReadHeaderFlagKept(line) ==
  /\ get_function' = (get_function \/ line.tag = "subprogram")
  /\ get_parameter' = (line.tag = "formal_parameter")
  /\ IF line.tag \in PointerTag
     THEN \E type \in Scanned(line) : ptr_types' = Append(ptr_types, type)
     ELSE ptr_types' = ptr_types
  /\ functions' = Extended(line)

\* Lines that are not indented reset both flags.
ReadHeader(line) ==
  /\ get_function' = (line.tag = "subprogram")
  /\ get_parameter' = (line.tag = "formal_parameter")
  /\ IF line.tag \in PointerTag
     THEN \E type \in Scanned(line) : ptr_types' = Append(ptr_types, type)
     ELSE ptr_types' = ptr_types
  /\ functions' = Extended(line)

\* last_token: of a name with spaces ("operator new") the last word is kept.
Token(line) == IF line.kind = "name" THEN LastWord[line.value] ELSE line.value

\* DW_AT_name and DW_AT_type: of the last function, of its last parameter, or
\* of an entry that is of no interest.
SetAttribute(f, line) ==
  LET last == Len(f.parameters)
      g == IF get_function THEN [f EXCEPT ![line.kind] = Token(line)] ELSE f
  IN  IF get_parameter THEN [g EXCEPT !.parameters[last][line.kind] = Token(line)] ELSE g

ReadAttribute(line) ==
  /\ functions' = IF functions = << >> THEN functions
                  ELSE [functions EXCEPT ![Len(functions)] = SetAttribute(@, line)]
  /\ UNCHANGED << get_function, get_parameter, ptr_types >>

\* One iteration of the loop.
ReadLine ==
  /\ position < Len(output)
  /\ position' = position + 1
  /\ LET line == output[position + 1]
     IN  IF line.kind = "header" THEN ReadHeader(line) ELSE ReadAttribute(line)
  /\ UNCHANGED output

-----------------------------------------------------------------------------
(* The same, read off the first n lines of an output o as a whole. *)

Nth(S, k) == CHOOSE i \in S : Cardinality({j \in S : j < i}) = k - 1

Subprograms(o, n) == {i \in 1 .. n : Entry(o, i, "subprogram")}

\* The parameters after the subprogram at line h and before the next one.
ParametersAfter(o, h, n) ==
  {i \in h + 1 .. n :
     Entry(o, i, "formal_parameter") /\ \A j \in h + 1 .. i : ~Entry(o, j, "subprogram")}

\* The attribute of the entry at line h; of its name, the last word.
Attribute(o, h, kind, n) ==
  LET found == {i \in h + 1 .. n :
                  o[i].kind = kind /\ \A j \in h + 1 .. i : o[j].kind # "header"}
  IN  IF found = {} THEN Uninit ELSE Token(o[CHOOSE i \in found : \A j \in found : j <= i])

ParameterAt(o, h, n) ==
  [name |-> Attribute(o, h, "name", n), type |-> Attribute(o, h, "type", n)]

FunctionAt(o, h, n) ==
  LET parameters == ParametersAfter(o, h, n)
  IN  [name |-> Attribute(o, h, "name", n), type |-> Attribute(o, h, "type", n),
       parameters |-> [p \in 1 .. Cardinality(parameters) |-> ParameterAt(o, Nth(parameters, p), n)]]

DescribedBy ==
  [o \in Outputs |-> [n \in 0 .. Len(o) |->
    [k \in 1 .. Cardinality(Subprograms(o, n)) |-> FunctionAt(o, Nth(Subprograms(o, n), k), n)]]]

Described == DescribedBy[output][position]
=============================================================================

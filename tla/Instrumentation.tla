--------------------------- MODULE Instrumentation ---------------------------
(***************************************************************************)
(* What the profiler inserts into the target and what the inserted calls   *)
(* record: ImageLoad with the functions it replaces (src/imgload.cpp),     *)
(* inspect_ptr_args, Inspector and print_fnargmap (src/debug_reader.cpp),  *)
(* Instruction with memRead and memWrite (src/pincpt.cpp).  An access is   *)
(* only counted here; what RD_accessBlock does with it is the matter of    *)
(* Profiler.                                                               *)
(***************************************************************************)
EXTENDS DebugReader, Datastructs

CONSTANTS
  Image,        \* [main |-> is it the executable, defines |-> functions it contains]
  Routine,      \* the names of the executable's routines
  Excluded,     \* those for which ImageLoad creates no region
  BeforeDot,    \* BeforeDot[n]: the name n up to its first dot
  Undecorated,  \* Undecorated[n]: the C++ name n without its arguments
  Ins,          \* instructions: [stack |-> BOOLEAN, reads |-> Nat, writes |-> Nat] by name
  None,
  Address, Size,
  Pointer,      \* what the routines' arguments point to
  MaxObjects,   \* bound: allocations
  MaxCalls,     \* bound: calls of routines
  MaxExecuted   \* bound: executions of instructions

ASSUME InstrumentationAssumption ==
  /\ Address \subseteq Nat \ {0} /\ Size \subseteq Nat /\ Pointer \subseteq Nat
  /\ MaxObjects \in Nat /\ MaxCalls \in Nat /\ MaxExecuted \in Nat
  /\ Excluded \subseteq Routine
  /\ \A ins \in DOMAIN Ins : Ins[ins].reads \in Nat /\ Ins[ins].writes \in Nat

VARIABLES
  loading,      \* the image ImageLoad is called for, or None
  loaded,       \* the images it has returned for
  opened,       \* routines of the executable it has looked at
  inspected,    \* per routine with a region: the inserted calls of Inspector
  replaced,     \* the functions of images that have been replaced
  datastructs,  \* Datastruct::datastructs
  g_fnargs,     \* triples <<function, parameter, data object>>
  g_pindist_do_profile,
  codeCache,    \* per instruction in Pin's code cache: is it analysed
  analysed,     \* calls of memRead and of memWrite
  heap,         \* history: the target's objects [address, nbytes, live]
  passed,       \* history: <<function, parameter, object>> of the calls so far
  calls,        \* history: their number
  executed      \* history: executions of instructions

loadVars == << loading, loaded, opened, inspected, replaced >>
objectVars == << datastructs, g_fnargs, heap, passed, calls >>
accessVars == << g_pindist_do_profile, codeCache, analysed, executed >>
vars == << readerVars, loadVars, objectVars, accessVars >>

Replaceable == {"malloc", "free", "start_profile", "stop_profile"}

Init ==
  /\ ReaderInit
  /\ loading = None /\ loaded = {} /\ opened = {} /\ replaced = {}
  /\ inspected = << >>
  /\ datastructs = << NewDatastruct(0, 0) >> /\ heap = << >>
  /\ g_fnargs = {} /\ passed = {} /\ calls = 0
  /\ g_pindist_do_profile = TRUE
  /\ codeCache = << >>
  /\ analysed = [reads |-> 0, writes |-> 0]
  /\ executed = 0

-----------------------------------------------------------------------------
(* ImageLoad *)

\* The executable is loaded before any other image and before anything runs.
BeginImageLoad(img) ==
  /\ loading = None /\ img \notin loaded
  /\ img.main <=> loaded = {}
  /\ loading' = img
  /\ UNCHANGED << readerVars, loaded, opened, inspected, replaced, objectVars, accessVars >>

ReadDebug ==
  /\ loading # None /\ loading.main
  /\ ReadLine
  /\ UNCHANGED << loadVars, objectVars, accessVars >>

\* A wrong is_ptr_type: the loop ends after the first type.
is_ptr_type_first(type) == ptr_types # << >> /\ ptr_types[1] = type

is_ptr_type(type) == \E i \in DOMAIN ptr_types : ptr_types[i] = type

FoundFor(rtn) ==
  {f \in DOMAIN functions : Undecorated[functions[f].name] = Undecorated[BeforeDot[rtn]]}

\* The calls that inspect_ptr_args inserts: for the pointers among the
\* parameters of the first function of that name.  A name that read_debug has
\* not written is none's: reading it is undefined, and this is what it does
\* when realloc has given out zeroes.
inspect_ptr_args(rtn) ==
  LET f == functions[CHOOSE i \in FoundFor(rtn) : \A j \in FoundFor(rtn) : i <= j]
  IN  IF FoundFor(rtn) = {} THEN {}
      ELSE {[arg |-> p, fn |-> f.name, var |-> f.parameters[p].name] :
              p \in {q \in DOMAIN f.parameters : is_ptr_type(f.parameters[q].type)}}

\* One routine of the loop; the calls for its region surround Inspector's.
OpenRoutine(rtn) ==
  /\ loading # None /\ loading.main /\ position = Len(output)
  /\ rtn \notin opened
  /\ opened' = opened \cup {rtn}
  /\ inspected' = IF rtn \in Excluded THEN inspected
                  ELSE [r \in DOMAIN inspected \cup {rtn} |->
                          IF r = rtn THEN inspect_ptr_args(rtn) ELSE inspected[r]]
  /\ UNCHANGED << readerVars, loading, loaded, replaced, objectVars, accessVars >>

\* malloc stands for the functions of the allocator that NewMalloc and its likes
\* replace; the functions that mark regions are the matter of Regions.
ReplacedIn(img) == {<< img, f >> : f \in img.defines \cap Replaceable}

EndImageLoad ==
  /\ loading # None
  /\ loading.main => position = Len(output) /\ opened = Routine
  /\ replaced' = replaced \cup ReplacedIn(loading)
  /\ loaded' = loaded \cup {loading} /\ loading' = None
  /\ UNCHANGED << readerVars, opened, inspected, objectVars, accessVars >>

\* The target runs, also while one of its threads loads a library.
Running == loaded # {}

\* The target has the function f; is it replaced?
Defined(f) == \E img \in loaded : f \in img.defines
Replaced(f) == \E img \in loaded : << img, f >> \in replaced

-----------------------------------------------------------------------------
(* The data objects, and the arguments that point to them *)

Null == 0

\* An allocation may fail, and its return address may have no source line; the
\* result is not looked at before it is registered.  (A failed allocation of
\* more bytes than the addresses of the others would hide these.)
Malloc(address, nbytes, source) ==
  /\ Running /\ Defined("malloc") /\ Len(heap) < MaxObjects
  /\ address = Null => \A a \in Address : nbytes <= a
  /\ address # Null => \A i \in DOMAIN heap : heap[i].live =>
       \/ address + nbytes <= heap[i].address
       \/ heap[i].address + heap[i].nbytes <= address
  /\ heap' = Append(heap, [address |-> address, nbytes |-> nbytes, source |-> source,
                            live |-> address # Null])
  /\ datastructs' =
       IF Replaced("malloc") /\ source /\ nbytes > DatastructThreshold
       THEN Append(datastructs, NewDatastruct(address, nbytes))
       ELSE datastructs
  /\ UNCHANGED << readerVars, loadVars, g_fnargs, passed, calls, accessVars >>

\* The target frees what it has allocated, or null.
Free(address) ==
  /\ Running /\ Defined("free")
  /\ address # Null => \E i \in DOMAIN heap : heap[i].live /\ heap[i].address = address
  /\ heap' = [i \in DOMAIN heap |->
               IF heap[i].address = address THEN [heap[i] EXCEPT !.live = FALSE] ELSE heap[i]]
  /\ datastructs' =
       IF Replaced("free")
       THEN [datastructs EXCEPT ![DatastructNum(datastructs, address) + 1].is_freed = TRUE]
       ELSE datastructs
  /\ UNCHANGED << readerVars, loadVars, g_fnargs, passed, calls, accessVars >>

\* A wrong Inspector: it does not look at is_freed.
InspectorAny(c, addr) ==
  {<< c.fn, c.var, i - 1 >> : i \in {j \in DOMAIN datastructs :
     datastructs[j].address <= addr /\ addr < datastructs[j].address + datastructs[j].nbytes}}

\* What the inserted call c of Inspector adds to g_fnargs.
Inspector(c, addr) ==
  {<< c.fn, c.var, i - 1 >> : i \in {j \in DOMAIN datastructs : Contains(datastructs[j], addr)}}

\* Allocations that are to be followed, and the place among them of the i-th.
Followed(i) == heap[i].source /\ heap[i].nbytes > DatastructThreshold
NumberOf(i) == Cardinality({j \in 1 .. i : Followed(j)})

InObject(i, addr) ==
  /\ Followed(i) /\ heap[i].live
  /\ heap[i].address <= addr /\ addr < heap[i].address + heap[i].nbytes

\* The arguments that Inspector is called with.
Arguments(rtn) == {c.arg : c \in inspected[rtn]}

\* A routine is entered; an argument it does not have is some address.
EnterRoutine(rtn, args) ==
  /\ Running /\ calls < MaxCalls
  /\ calls' = calls + 1
  /\ g_fnargs' = g_fnargs \cup UNION {Inspector(c, args[c.arg]) : c \in inspected[rtn]}
  /\ passed' = passed \cup
       UNION {{<< c.fn, c.var, NumberOf(i) >> : i \in {j \in DOMAIN heap : InObject(j, args[c.arg])}} :
                c \in inspected[rtn]}
  /\ UNCHANGED << readerVars, loadVars, datastructs, heap, accessVars >>

-----------------------------------------------------------------------------
(* Instructions *)

\* The calls of memRead and memWrite that Instruction inserts.
CallsFor(ins) == [reads |-> Ins[ins].reads, writes |-> Ins[ins].writes]

NoCalls == [reads |-> 0, writes |-> 0]
Plus(a, b) == [reads |-> a.reads + b.reads, writes |-> a.writes + b.writes]

\* Pin calls Instruction when it puts ins into its code cache, and never
\* during another instrumentation callback.
Instruction(ins) ==
  /\ Running /\ loading = None /\ ins \notin DOMAIN codeCache
  /\ codeCache' = [i \in DOMAIN codeCache \cup {ins} |->
       IF i # ins THEN codeCache[i]
       ELSE IF g_pindist_do_profile /\ ~Ins[ins].stack THEN CallsFor(ins) ELSE NoCalls]
  /\ UNCHANGED << readerVars, loadVars, objectVars,
                  g_pindist_do_profile, analysed, executed >>

\* A predicated instruction may have no effect, and then its calls are not made.
Execute(ins, predicate) ==
  /\ Running /\ ins \in DOMAIN codeCache /\ executed < MaxExecuted
  /\ executed' = executed + 1
  /\ analysed' = IF predicate THEN Plus(analysed, codeCache[ins]) ELSE analysed
  /\ UNCHANGED << readerVars, loadVars, objectVars, g_pindist_do_profile, codeCache >>

\* Pin may drop what it has cached, and instrument it again.
Flush ==
  /\ codeCache' = << >>
  /\ UNCHANGED << readerVars, loadVars, objectVars,
                  g_pindist_do_profile, analysed, executed >>

StartProfile ==
  /\ Running /\ Defined("start_profile")
  /\ g_pindist_do_profile' = (g_pindist_do_profile \/ Replaced("start_profile"))
  /\ UNCHANGED << readerVars, loadVars, objectVars,
                  codeCache, analysed, executed >>

StopProfile ==
  /\ Running /\ Defined("stop_profile")
  /\ g_pindist_do_profile' = (g_pindist_do_profile /\ ~Replaced("stop_profile"))
  /\ UNCHANGED << readerVars, loadVars, objectVars, codeCache, analysed, executed >>

Next ==
  \/ \E img \in Image : BeginImageLoad(img)
  \/ ReadDebug
  \/ \E rtn \in Routine : OpenRoutine(rtn)
  \/ EndImageLoad
  \/ \E address \in Address \cup {Null}, nbytes \in Size, source \in BOOLEAN : Malloc(address, nbytes, source)
  \/ \E address \in Address \cup {Null} : Free(address)
  \/ \E rtn \in DOMAIN inspected : \E args \in [Arguments(rtn) -> Pointer] : EnterRoutine(rtn, args)
  \/ \E ins \in DOMAIN Ins : Instruction(ins)
  \/ \E ins \in DOMAIN Ins, predicate \in BOOLEAN : Execute(ins, predicate)
  \/ Flush
  \/ StartProfile
  \/ StopProfile

Spec == Init /\ [][Next]_vars

-----------------------------------------------------------------------------
\* Whatever part of objdump's output is read, read_debug knows every function
\* described in it with its own type and the last word of its own name, and
\* with those of each of its parameters: no attribute of a variable, a type or
\* another function has got into it.
FunctionsRead == functions = Described

Pointers(o) == {i \in 1 .. Len(o) : \E tag \in PointerTag : Entry(o, i, tag)}
PointerTypes(o) == {o[i].offset : i \in {j \in Pointers(o) : o[j].depth = 1}}

\* The calls of Inspector for the parameters of f that have one of these types.
CallsForTypes(f, types) ==
  {[arg |-> p, fn |-> f.name, var |-> f.parameters[p].name] :
     p \in {q \in DOMAIN f.parameters : f.parameters[q].type \in types}}

\* A routine whose name belongs to one function gets a call of Inspector for
\* each parameter described after that function whose type is a pointer at
\* depth 1, wherever in the output that type is described; and, unless a
\* pointer type of another depth has left an element of ptr_types unwritten, no
\* other call.  (The parameters of a function type in the same scope are among
\* those of the function, see debug_reader.cpp:118.)
InspectsPointerArguments ==
  \A rtn \in DOMAIN inspected :
    LET named == {k \in DOMAIN Described : Undecorated[Described[k].name] = Undecorated[BeforeDot[rtn]]}
    IN  \A k \in named : named = {k} =>
          /\ CallsForTypes(Described[k], PointerTypes(output)) \subseteq inspected[rtn]
          /\ (\A i \in Pointers(output) : output[i].depth = 1) =>
                inspected[rtn] = CallsForTypes(Described[k], PointerTypes(output))

\* g_fnargs, and with it the file of function arguments, holds exactly the
\* objects that inspected arguments pointed into when their routine was
\* entered: none that had been freed, though its memory is in use again, and
\* each under the number of the caches that isolate it.  What it holds beyond
\* are failed allocations, to which null arguments are attributed
\* (imgload.cpp:47).
Failed == {NumberOf(i) : i \in {j \in DOMAIN heap : Followed(j) /\ heap[j].address = Null}}
ArgumentsMapped == {entry \in g_fnargs : entry[3] \notin Failed} = passed
=============================================================================

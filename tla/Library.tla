------------------------------ MODULE Library ------------------------------
(***************************************************************************)
(* The public functions of lib.cpp, called by main and by the lambdas that *)
(* run on threads of their own: printing under print_mutex, allocation     *)
(* under malloc_mutex, and do_work_ms under neither.                       *)
(*                                                                         *)
(* printf and the allocator are the C library's.  They are taken at their  *)
(* weakest, as code that only a lock makes atomic: printf writes a line in *)
(* two pieces, the allocator looks for a free place and then occupies it.  *)
(*                                                                         *)
(* The functions for int and for float differ in the type of the element,  *)
(* of 8 bytes for both.  int64_t has LongBits bits here, int has IntBits.  *)
(***************************************************************************)
EXTENDS Integers, Sequences

CONSTANTS
  Thread,
  NoThread,
  LongBits, IntBits,
  Arena,           \* bytes the allocator has
  Counts,          \* the arguments of malloc_int and calloc_int, by function
  Numbers,         \* the arguments of print_int
  MaxCalls         \* bound on the calls of a thread

ASSUME WidthAssumption ==
  LongBits \in Nat /\ IntBits \in Nat /\ NoThread \notin Thread /\ MaxCalls \in Nat

Element == 8

(***************************************************************************)
(* Arguments are int64_t, and malloc_int is given no count whose size in   *)
(* bytes wraps: what it returns then is too small for the program's array. *)
(***************************************************************************)
ASSUME ArgumentAssumption ==
  /\ Arena \in Nat
  /\ Numbers \subseteq Int
  /\ DOMAIN Counts = {"malloc_int", "calloc_int"}
  /\ \A f \in DOMAIN Counts : Counts[f] \subseteq -(2 ^ LongBits) .. 2 ^ LongBits - 1
  /\ \A s \in Counts["malloc_int"] : s * Element < 2 ^ LongBits

VARIABLES
  pc,        \* where a thread is
  call,      \* the function it called, with its argument
  calls,     \* how many it has called
  holder,    \* the thread that holds each mutex
  place,     \* the place the allocator found for a thread
  blocks,    \* allocated blocks
  stdout     \* the pieces written

libVars == <<pc, call, calls, holder, place, blocks, stdout>>

NoCall == [fun |-> "none", arg |-> 0]

\* Narrowing to an unsigned and to a signed integer of w bits.
Unsigned(i, w) == i % 2 ^ w
Signed(i, w) == IF Unsigned(i, w) < 2 ^ (w - 1) THEN Unsigned(i, w) ELSE Unsigned(i, w) - 2 ^ w

Init ==
  /\ pc = [t \in Thread |-> "idle"]
  /\ call = [t \in Thread |-> NoCall]
  /\ calls = [t \in Thread |-> 0]
  /\ holder = [m \in {"print", "malloc"} |-> NoThread]
  /\ place = [t \in Thread |-> 0]
  /\ blocks = {}
  /\ stdout = << >>

Goto(t, l) == pc' = [pc EXCEPT ![t] = l]

Return(t) == Goto(t, "idle") /\ call' = [call EXCEPT ![t] = NoCall]

\* A call: a program frees a block it was given, and no block twice.
Arguments(fun) ==
  CASE fun = "print_int" -> Numbers
    [] fun \in DOMAIN Counts -> Counts[fun]
    [] fun = "free_int" ->
         {b.base : b \in blocks} \ {call[t].arg : t \in {u \in Thread : call[u].fun = fun}}
    [] OTHER -> {0}

Functions == {"print_int", "free_int", "do_work_ms"} \cup DOMAIN Counts

Enter(t) ==
  /\ pc[t] = "idle"
  /\ calls[t] < MaxCalls
  /\ \E fun \in Functions : \E arg \in Arguments(fun) :
       /\ call' = [call EXCEPT ![t] = [fun |-> fun, arg |-> arg]]
       /\ Goto(t, IF fun = "do_work_ms" THEN "sleeping" ELSE "locking")
  /\ calls' = [calls EXCEPT ![t] = @ + 1]
  /\ UNCHANGED <<holder, place, blocks, stdout>>

mutexOf(fun) == IF fun = "print_int" THEN "print" ELSE "malloc"

\* lock() returns when nobody holds the mutex m.
FreeMutexUnlessPrint(m) == m = "print" \/ holder[m] = NoThread

FreeMutexUnlessMalloc(m) == m = "malloc" \/ holder[m] = NoThread

FreeMutex(m) == holder[m] = NoThread

Lock(t) ==
  /\ pc[t] = "locking"
  /\ FreeMutex(mutexOf(call[t].fun))
  /\ holder' = [holder EXCEPT ![mutexOf(call[t].fun)] = t]
  /\ Goto(t, "first")
  /\ UNCHANGED <<call, calls, place, blocks, stdout>>

\* printf, in two pieces: the text, then the argument narrowed to an int.  print_float
\* is the same without narrowing.
PrintFirst(t) ==
  /\ pc[t] = "first" /\ call[t].fun = "print_int"
  /\ stdout' = Append(stdout, <<t>>)
  /\ Goto(t, "second")
  /\ UNCHANGED <<call, calls, holder, place, blocks>>

PrintSecond(t) ==
  /\ pc[t] = "second" /\ call[t].fun = "print_int"
  /\ stdout' = Append(stdout, <<t, Signed(call[t].arg, IntBits)>>)
  /\ Goto(t, "unlocking")
  /\ UNCHANGED <<call, calls, holder, place, blocks>>

\* The size asked of the allocator: malloc(s*8) wraps, calloc(s,8) does not.
Size(fun, s) ==
  IF fun = "malloc_int" THEN Unsigned(s * Element, LongBits)
                        ELSE Unsigned(s, LongBits) * Element

Overlap(a, n, b, m) == a < b + m /\ b < a + n

Free(n) ==
  {a \in {k * Element : k \in 0 .. Arena \div Element} :
     a + n <= Arena /\ \A b \in blocks : ~Overlap(a, n, b.base, b.size)}

FindPlace(t) ==
  /\ pc[t] = "first" /\ call[t].fun \in DOMAIN Counts
  /\ LET free == Free(Size(call[t].fun, call[t].arg))
     IN  IF free = {}
         THEN Goto(t, "unlocking") /\ UNCHANGED place
         ELSE /\ Goto(t, "second")
              /\ \E a \in free : place' = [place EXCEPT ![t] = a]
  /\ UNCHANGED <<call, calls, holder, blocks, stdout>>

TakePlace(t) ==
  /\ pc[t] = "second" /\ call[t].fun \in DOMAIN Counts
  /\ blocks' = blocks \cup {[base |-> place[t], size |-> Size(call[t].fun, call[t].arg),
                             count |-> call[t].arg]}
  /\ Goto(t, "unlocking")
  /\ UNCHANGED <<call, calls, holder, place, stdout>>

FreeBlock(t) ==
  /\ pc[t] = "first" /\ call[t].fun = "free_int"
  /\ blocks' = {b \in blocks : b.base # call[t].arg}
  /\ Goto(t, "unlocking")
  /\ UNCHANGED <<call, calls, holder, place, stdout>>

\* The mutexes once thread t has unlocked m.
ReleasedUnlessFree(t, m) ==
  IF call[t].fun = "free_int" THEN holder ELSE [holder EXCEPT ![m] = NoThread]

Released(t, m) == [holder EXCEPT ![m] = NoThread]

Unlock(t) ==
  /\ pc[t] = "unlocking"
  /\ holder' = Released(t, mutexOf(call[t].fun))
  /\ Return(t)
  /\ UNCHANGED <<calls, place, blocks, stdout>>

WakeUp(t) ==
  /\ pc[t] = "sleeping"
  /\ Return(t)
  /\ UNCHANGED <<calls, holder, place, blocks, stdout>>

Inside(t) ==
  \/ Lock(t) \/ PrintFirst(t) \/ PrintSecond(t) \/ FindPlace(t) \/ TakePlace(t)
  \/ FreeBlock(t) \/ Unlock(t) \/ WakeUp(t)

Next == \E t \in Thread : Enter(t) \/ Inside(t)

(***************************************************************************)
(* A thread inside a library call that can run is run.  A mutex is not     *)
(* fair, but the threads make finitely many calls.                         *)
(***************************************************************************)
Spec == Init /\ [][Next]_libVars /\ \A t \in Thread : WF_libVars(Inside(t))

-----------------------------------------------------------------------------

(***************************************************************************)
(* "Never garble writing to the output stream" (lib.cpp): a line's pieces  *)
(* are written one after the other by one thread, whoever else prints, and *)
(* an integer that fits an int is printed as it is.                        *)
(***************************************************************************)
NeverGarbled ==
  /\ \A i \in DOMAIN stdout : i % 2 = 0 => stdout[i][1] = stdout[i - 1][1]
  /\ \A t \in Thread : pc[t] = "unlocking" /\ call[t].fun = "print_int" =>
       /\ stdout[Len(stdout)][1] = t
       /\ Signed(call[t].arg, IntBits) = call[t].arg => stdout[Len(stdout)] = <<t, call[t].arg>>

(***************************************************************************)
(* The elements a program asked for are its own: those of two allocated    *)
(* blocks do not overlap and all of them exist, for every count whose size *)
(* malloc_int does not wrap, and for every count given to calloc_int.      *)
(***************************************************************************)
ElementsDisjoint ==
  \A a \in blocks :
    /\ a.count * Element <= a.size
    /\ \A b \in blocks \ {a} :
         ~Overlap(a.base, a.count * Element, b.base, b.count * Element)

\* Every library call returns, whatever the other threads call meanwhile.
CallsReturn == \A t \in Thread : pc[t] # "idle" ~> pc[t] = "idle"

=============================================================================

--------------------------- MODULE LibraryProofs ---------------------------
(***************************************************************************)
(* Printing and allocation of module Library are safe for any number of    *)
(* threads and calls, any arena and any arguments: one invariant says that *)
(* the mutexes exclude, one what stdout looks like while a line is being   *)
(* written, one that the place the allocator found is still free.          *)
(***************************************************************************)
EXTENDS Library, TLAPS

Piece ==
  {<<t>> : t \in Thread} \cup {<<t, Signed(n, IntBits)>> : t \in Thread, n \in Int}

LibTypeOK ==
  /\ pc \in [Thread -> {"idle", "locking", "sleeping", "first", "second", "unlocking"}]
  /\ call \in [Thread -> [fun : Functions \cup {"none"}, arg : Int]]
  /\ holder \in [{"print", "malloc"} -> Thread \cup {NoThread}]
  /\ place \in [Thread -> Int]
  /\ blocks \subseteq [base : Int, size : Int, count : Int]
  /\ stdout \in Seq(Piece)

InSection(t) == pc[t] \in {"first", "second", "unlocking"}

\* A thread between lock() and unlock() holds the mutex of its function.
Exclusion ==
  \A t \in Thread : InSection(t) => holder[mutexOf(call[t].fun)] = t

\* What a thread asks of the allocator is one of the program's counts.
Asked ==
  \A t \in Thread : call[t].fun \in DOMAIN Counts => call[t].arg \in Counts[call[t].fun]

MidLine(t) == pc[t] = "second" /\ call[t].fun = "print_int"

(***************************************************************************)
(* The last line is complete unless a thread is between its two pieces,    *)
(* and then the last piece is that thread's.                               *)
(***************************************************************************)
PrintInv ==
  /\ \A i \in 1 .. Len(stdout) : i % 2 = 0 => stdout[i][1] = stdout[i - 1][1]
  /\ \A t \in Thread : MidLine(t) => Len(stdout) % 2 = 1 /\ stdout[Len(stdout)][1] = t
  /\ Len(stdout) % 2 = 1 => \E t \in Thread : MidLine(t)
  /\ \A t \in Thread : pc[t] = "unlocking" /\ call[t].fun = "print_int" =>
       stdout[Len(stdout)] = <<t, Signed(call[t].arg, IntBits)>>

\* Blocks hold what was asked for and are apart; a place found is still free.
AllocInv ==
  /\ \A b \in blocks : b.count * Element <= b.size
  /\ \A a \in blocks : \A b \in blocks \ {a} : ~Overlap(a.base, a.size, b.base, b.size)
  /\ \A t \in Thread : pc[t] = "second" /\ call[t].fun \in DOMAIN Counts =>
       \A b \in blocks :
         ~Overlap(place[t], Size(call[t].fun, call[t].arg), b.base, b.size)

LibInv == LibTypeOK /\ Exclusion /\ Asked /\ PrintInv /\ AllocInv

-----------------------------------------------------------------------------

LEMMA SizeFits ==
  ASSUME NEW fun \in DOMAIN Counts, NEW s \in Counts[fun]
  PROVE  Size(fun, s) \in Int /\ s * Element <= Size(fun, s)
<1>1. 2 ^ LongBits \in Int
  BY WidthAssumption
<1> DEFINE w == 2 ^ LongBits
<1>2. s \in Int /\ s >= -w /\ s < w /\ (fun = "malloc_int" => s * 8 < w)
  BY <1>1, ArgumentAssumption DEF Element
<1>3. fun \in {"malloc_int", "calloc_int"}
  BY ArgumentAssumption
<1> HIDE DEF w
<1>4. w \in Nat \ {0}
  BY <1>1, <1>2 DEF w
<1>5. CASE fun = "malloc_int"
  <2>1. Size(fun, s) = (s * 8) % w
    BY <1>5 DEF Size, Unsigned, Element, w
  <2>2. (s * 8) \in Int /\ (s * 8) % w >= 0 /\ (s * 8) % w \in Int
    BY <1>2, <1>4
  <2>3. s * 8 >= 0 => (s * 8) % w = s * 8
    BY <1>2, <1>4, <1>5
  <2> QED
    BY <1>2, <2>1, <2>2, <2>3 DEF Element
<1>6. CASE fun = "calloc_int"
  <2>1. Size(fun, s) = (s % w) * 8
    BY <1>6 DEF Size, Unsigned, Element, w
  <2>2. s % w >= 0 /\ s % w \in Int
    BY <1>2, <1>4
  <2>3. s >= 0 => s % w = s
    BY <1>2, <1>4
  <2> QED
    BY <1>2, <2>1, <2>2, <2>3 DEF Element
<1> QED
  BY <1>3, <1>5, <1>6

LEMMA LibInit == Init => LibInv
<1> SUFFICES ASSUME Init PROVE LibInv
  OBVIOUS
<1>1. LibTypeOK
  BY DEF Init, LibTypeOK, NoCall
<1>2. Exclusion /\ PrintInv /\ AllocInv
  BY DEF Init, Exclusion, InSection, PrintInv, MidLine, AllocInv
<1>3. Asked
  BY ArgumentAssumption DEF Init, NoCall, Asked
<1> QED
  BY <1>1, <1>2, <1>3 DEF LibInv

\* The arguments a program passes.
LEMMA ArgumentTypes ==
  ASSUME LibTypeOK, NEW fun \in Functions, NEW arg \in Arguments(fun)
  PROVE  arg \in Int /\ (fun \in DOMAIN Counts => arg \in Counts[fun])
<1>1. CASE fun = "print_int"
  BY <1>1, ArgumentAssumption DEF Arguments
<1>2. CASE fun \in DOMAIN Counts
  <2>1. arg \in Counts[fun]
    BY <1>2, ArgumentAssumption DEF Arguments
  <2>2. Counts[fun] \subseteq Int
    BY <1>2, ArgumentAssumption, WidthAssumption
  <2> QED
    BY <2>1, <2>2
<1>3. CASE fun = "free_int"
  BY <1>3, ArgumentAssumption DEF Arguments, LibTypeOK
<1>4. CASE fun = "do_work_ms"
  BY <1>4, ArgumentAssumption DEF Arguments
<1> QED
  BY <1>1, <1>2, <1>3, <1>4 DEF Functions

\* Two threads are never in sections of the same mutex.
LEMMA Alone ==
  ASSUME LibInv, NEW t \in Thread, NEW u \in Thread, InSection(t), InSection(u),
         mutexOf(call[t].fun) = mutexOf(call[u].fun)
  PROVE  t = u
BY DEF LibInv, Exclusion

(***************************************************************************)
(* Enter, Lock, Unlock and WakeUp write nothing and allocate nothing.      *)
(***************************************************************************)
LEMMA EnterStep ==
  ASSUME LibInv, NEW t \in Thread, Enter(t)
  PROVE  LibInv'
<1> USE DEF LibTypeOK
<1>1. PICK fun \in Functions : \E arg \in Arguments(fun) :
        /\ call' = [call EXCEPT ![t] = [fun |-> fun, arg |-> arg]]
        /\ Goto(t, IF fun = "do_work_ms" THEN "sleeping" ELSE "locking")
  BY Zenon DEF Enter
<1>2. PICK arg \in Arguments(fun) :
        /\ call' = [call EXCEPT ![t] = [fun |-> fun, arg |-> arg]]
        /\ Goto(t, IF fun = "do_work_ms" THEN "sleeping" ELSE "locking")
  BY <1>1
<1>3. arg \in Int /\ (fun \in DOMAIN Counts => arg \in Counts[fun])
  BY ArgumentTypes DEF LibInv
<1>4. /\ pc[t] = "idle" /\ UNCHANGED <<holder, place, blocks, stdout>>
      /\ pc' = [pc EXCEPT ![t] = IF fun = "do_work_ms" THEN "sleeping" ELSE "locking"]
      /\ \A u \in Thread : u # t => call'[u] = call[u]
      /\ call'[t].fun = fun /\ call'[t].arg = arg
  BY <1>2 DEF Enter, Goto, LibInv
<1>5. LibTypeOK'
  BY <1>2, <1>3, <1>4 DEF LibInv
<1>6. Exclusion' /\ Asked'
  BY <1>3, <1>4 DEF LibInv, Exclusion, Asked, InSection
<1>7. PrintInv'
  BY <1>4 DEF LibInv, PrintInv, MidLine
<1>8. AllocInv'
  BY <1>4 DEF LibInv, AllocInv
<1> QED
  BY <1>5, <1>6, <1>7, <1>8 DEF LibInv

LEMMA LockStep ==
  ASSUME LibInv, NEW t \in Thread, Lock(t)
  PROVE  LibInv'
<1> USE DEF LibTypeOK
<1> DEFINE m == mutexOf(call[t].fun)
<1>1. /\ pc[t] = "locking" /\ UNCHANGED <<call, place, blocks, stdout>>
      /\ pc' = [pc EXCEPT ![t] = "first"] /\ holder[m] = NoThread
      /\ holder' = [holder EXCEPT ![m] = t] /\ m \in {"print", "malloc"}
  BY DEF Lock, Goto, FreeMutex, mutexOf
<1> HIDE DEF m
<1>2. LibTypeOK'
  BY <1>1 DEF LibInv
<1>3. Exclusion'
  <2> SUFFICES ASSUME NEW u \in Thread, InSection(u)'
               PROVE  holder'[mutexOf(call[u].fun)] = u
    BY <1>1 DEF Exclusion, mutexOf
  <2>1. CASE u = t
    BY <1>1, <2>1 DEF LibInv, m
  <2>2. CASE u # t
    BY <1>1, <2>2, WidthAssumption DEF LibInv, Exclusion, InSection, mutexOf
  <2> QED
    BY <2>1, <2>2
<1>4. Asked'
  BY <1>1 DEF LibInv, Asked
<1>5. PrintInv'
  BY <1>1 DEF LibInv, PrintInv, MidLine
<1>6. AllocInv'
  BY <1>1 DEF LibInv, AllocInv
<1> QED
  BY <1>2, <1>3, <1>4, <1>5, <1>6 DEF LibInv

LEMMA ReturnStep ==
  ASSUME LibInv, NEW t \in Thread, Unlock(t) \/ WakeUp(t)
  PROVE  LibInv'
<1> USE DEF LibTypeOK
<1> DEFINE m == mutexOf(call[t].fun)
<1>1. /\ pc[t] \in {"unlocking", "sleeping"} /\ UNCHANGED <<place, blocks, stdout>>
      /\ pc' = [pc EXCEPT ![t] = "idle"] /\ call' = [call EXCEPT ![t] = NoCall]
      /\ \/ holder' = holder
         \/ pc[t] = "unlocking" /\ holder' = [holder EXCEPT ![m] = NoThread]
      /\ m \in {"print", "malloc"}
  BY DEF Unlock, WakeUp, Return, Goto, Released, mutexOf
<1> HIDE DEF m
<1>2. LibTypeOK'
  BY <1>1 DEF LibInv, NoCall
<1>3. Exclusion'
  <2> SUFFICES ASSUME NEW u \in Thread, InSection(u)'
               PROVE  holder'[mutexOf(call'[u].fun)] = u
    BY DEF Exclusion, mutexOf
  <2>1. u # t /\ InSection(u) /\ call'[u] = call[u]
    BY <1>1 DEF InSection, LibInv
  <2>2. holder[mutexOf(call[u].fun)] = u
    BY <2>1 DEF LibInv, Exclusion
  <2>3. pc[t] = "unlocking" => mutexOf(call[u].fun) # m
    BY <2>1, Alone DEF InSection, m
  <2> QED
    BY <1>1, <2>1, <2>2, <2>3 DEF LibInv, mutexOf
<1>4. Asked'
  BY <1>1, ArgumentAssumption DEF LibInv, Asked, NoCall
<1>5. PrintInv'
  BY <1>1 DEF LibInv, PrintInv, MidLine, NoCall
<1>6. AllocInv'
  BY <1>1 DEF LibInv, AllocInv, NoCall
<1> QED
  BY <1>2, <1>3, <1>4, <1>5, <1>6 DEF LibInv

(***************************************************************************)
(* The two pieces of a line.  No other thread is in the section of         *)
(* print_mutex, so no line is being written, or this thread's is.          *)
(***************************************************************************)
LEMMA PrintFirstStep ==
  ASSUME LibInv, NEW t \in Thread, PrintFirst(t)
  PROVE  LibInv'
<1> USE DEF LibTypeOK
<1>1. /\ pc[t] = "first" /\ call[t].fun = "print_int"
      /\ pc' = [pc EXCEPT ![t] = "second"] /\ stdout' = Append(stdout, <<t>>)
      /\ UNCHANGED <<call, holder, place, blocks>>
  BY DEF PrintFirst, Goto
<1>2. ASSUME NEW u \in Thread, InSection(u), call[u].fun = "print_int" PROVE u = t
  BY <1>1, <1>2, Alone DEF InSection
<1>3. \A u \in Thread : ~MidLine(u)
  BY <1>1, <1>2 DEF MidLine, InSection
<1>4. Len(stdout) \in Nat /\ Len(stdout) % 2 = 0
  BY <1>3 DEF LibInv, PrintInv
<1>5. /\ stdout' \in Seq(Piece) /\ Len(stdout') = Len(stdout) + 1
      /\ \A i \in 1 .. Len(stdout) : stdout'[i] = stdout[i]
      /\ stdout'[Len(stdout) + 1] = <<t>>
  <2>1. <<t>> \in Piece
    BY DEF Piece
  <2> QED
    BY <1>1, <2>1 DEF LibInv
<1>6. LibTypeOK'
  BY <1>1, <1>5 DEF LibInv
<1>7. Exclusion' /\ Asked' /\ AllocInv'
  BY <1>1, ArgumentAssumption DEF LibInv, Exclusion, Asked, AllocInv, InSection
<1>8. PrintInv'
  <2>1. ASSUME NEW i \in 1 .. Len(stdout'), i % 2 = 0 PROVE stdout'[i][1] = stdout'[i - 1][1]
    <3>1. i \in 1 .. Len(stdout) /\ i - 1 \in 1 .. Len(stdout)
      BY <1>4, <1>5, <2>1
    <3>2. stdout[i][1] = stdout[i - 1][1]
      BY <2>1, <3>1 DEF LibInv, PrintInv
    <3>3. stdout'[i] = stdout[i] /\ stdout'[i - 1] = stdout[i - 1]
      BY <1>5, <3>1
    <3> QED
      BY <3>2, <3>3
  <2>2. Len(stdout') % 2 = 1
    BY <1>4, <1>5
  <2>3. MidLine(t)' /\ stdout'[Len(stdout')][1] = t
    BY <1>1, <1>5 DEF MidLine, LibInv
  <2>4. \A u \in Thread : MidLine(u)' => u = t
    BY <1>1, <1>2 DEF MidLine, InSection
  <2>5. \A u \in Thread : ~(pc'[u] = "unlocking" /\ call'[u].fun = "print_int")
    BY <1>1, <1>2 DEF InSection
  <2> QED
    BY <2>1, <2>2, <2>3, <2>4, <2>5 DEF PrintInv
<1> QED
  BY <1>6, <1>7, <1>8 DEF LibInv

LEMMA PrintSecondStep ==
  ASSUME LibInv, NEW t \in Thread, PrintSecond(t)
  PROVE  LibInv'
<1> USE DEF LibTypeOK
<1> DEFINE v == Signed(call[t].arg, IntBits)
<1>1. /\ pc[t] = "second" /\ call[t].fun = "print_int"
      /\ pc' = [pc EXCEPT ![t] = "unlocking"] /\ stdout' = Append(stdout, <<t, v>>)
      /\ UNCHANGED <<call, holder, place, blocks>>
  BY DEF PrintSecond, Goto
<1>2. ASSUME NEW u \in Thread, InSection(u), call[u].fun = "print_int" PROVE u = t
  BY <1>1, <1>2, Alone DEF InSection
<1>3. Len(stdout) \in Nat /\ Len(stdout) % 2 = 1 /\ stdout[Len(stdout)][1] = t
  BY <1>1 DEF MidLine, LibInv, PrintInv
<1>4. <<t, v>> \in Piece
  BY DEF Piece, LibInv
<1>5. /\ stdout' \in Seq(Piece) /\ Len(stdout') = Len(stdout) + 1
      /\ \A i \in 1 .. Len(stdout) : stdout'[i] = stdout[i]
      /\ stdout'[Len(stdout) + 1] = <<t, v>>
  BY <1>1, <1>4 DEF LibInv
<1>6. LibTypeOK'
  BY <1>1, <1>5 DEF LibInv
<1>7. Exclusion' /\ Asked' /\ AllocInv'
  BY <1>1, ArgumentAssumption DEF LibInv, Exclusion, Asked, AllocInv, InSection
<1>8. PrintInv'
  <2>1. ASSUME NEW i \in 1 .. Len(stdout'), i % 2 = 0 PROVE stdout'[i][1] = stdout'[i - 1][1]
    <3>1. CASE i = Len(stdout) + 1
      <4>1. i - 1 = Len(stdout) /\ Len(stdout) \in 1 .. Len(stdout)
        BY <1>3, <3>1
      <4>2. stdout'[i][1] = t
        BY <1>5, <3>1
      <4> QED
        BY <1>3, <1>5, <4>1, <4>2
    <3>2. CASE i # Len(stdout) + 1
      <4>1. i \in 1 .. Len(stdout) /\ i - 1 \in 1 .. Len(stdout)
        BY <1>3, <1>5, <2>1, <3>2
      <4>2. stdout[i][1] = stdout[i - 1][1]
        BY <2>1, <4>1 DEF LibInv, PrintInv
      <4>3. stdout'[i] = stdout[i] /\ stdout'[i - 1] = stdout[i - 1]
        BY <1>5, <4>1
      <4> QED
        BY <4>2, <4>3
    <3> QED
      BY <3>1, <3>2
  <2>2. Len(stdout') % 2 # 1
    BY <1>3, <1>5
  <2>3. \A u \in Thread : ~MidLine(u)'
    BY <1>1, <1>2 DEF MidLine, InSection, LibInv
  <2>4. ASSUME NEW u \in Thread, pc'[u] = "unlocking", call'[u].fun = "print_int"
        PROVE  stdout'[Len(stdout')] = <<u, Signed(call'[u].arg, IntBits)>>
    <3>1. u = t
      BY <1>1, <1>2, <2>4 DEF InSection, LibInv
    <3> QED
      BY <1>1, <1>5, <3>1
  <2> QED
    BY <2>1, <2>2, <2>3, <2>4 DEF PrintInv
<1> QED
  BY <1>6, <1>7, <1>8 DEF LibInv

(***************************************************************************)
(* The allocator: only the holder of malloc_mutex changes the blocks.      *)
(***************************************************************************)
LEMMA FindPlaceStep ==
  ASSUME LibInv, NEW t \in Thread, FindPlace(t)
  PROVE  LibInv'
<1> USE DEF LibTypeOK
<1> DEFINE n == Size(call[t].fun, call[t].arg)
<1>1. PICK l \in {"second", "unlocking"} :
        /\ pc[t] = "first" /\ call[t].fun \in DOMAIN Counts
        /\ pc' = [pc EXCEPT ![t] = l]
        /\ l = "unlocking" => place' = place
        /\ l = "second" => \E a \in Free(n) : place' = [place EXCEPT ![t] = a]
        /\ UNCHANGED <<call, holder, blocks, stdout>>
  BY DEF FindPlace, Goto
<1>2. Free(n) \subseteq Int
  BY ArgumentAssumption DEF Free, Element
<1>3. call[t].fun # "print_int"
  BY <1>1, ArgumentAssumption
<1> HIDE DEF n
<1>4. LibTypeOK'
  BY <1>1, <1>2 DEF LibInv
<1>5. Exclusion' /\ Asked'
  BY <1>1 DEF LibInv, Exclusion, Asked, InSection
<1>6. PrintInv'
  BY <1>1, <1>3 DEF LibInv, PrintInv, MidLine
<1>7. AllocInv'
  <2>1. ASSUME NEW u \in Thread, pc'[u] = "second", call[u].fun \in DOMAIN Counts,
               NEW b \in blocks
        PROVE  ~Overlap(place'[u], Size(call[u].fun, call[u].arg), b.base, b.size)
    <3>1. CASE u = t
      <4>1. PICK a \in Free(n) : place' = [place EXCEPT ![t] = a]
        BY <1>1, <2>1, <3>1 DEF LibInv
      <4>2. place'[u] = a
        BY <1>2, <3>1, <4>1 DEF LibInv
      <4>3. ~Overlap(a, n, b.base, b.size)
        BY DEF Free
      <4> QED
        BY <3>1, <4>2, <4>3 DEF n
    <3>2. CASE u # t
      <4>1. pc[u] = "second" /\ place'[u] = place[u]
        BY <1>1, <2>1, <3>2 DEF LibInv
      <4> QED
        BY <2>1, <4>1 DEF LibInv, AllocInv
    <3> QED
      BY <3>1, <3>2
  <2> QED
    BY <1>1, <2>1 DEF LibInv, AllocInv, Size
<1> QED
  BY <1>4, <1>5, <1>6, <1>7 DEF LibInv

LEMMA OverlapSymmetric ==
  ASSUME NEW a, NEW n, NEW b, NEW m, ~Overlap(a, n, b, m)
  PROVE  ~Overlap(b, m, a, n)
BY DEF Overlap

LEMMA TakePlaceStep ==
  ASSUME LibInv, NEW t \in Thread, TakePlace(t)
  PROVE  LibInv'
<1> USE DEF LibTypeOK
<1>1. PICK n : n = Size(call[t].fun, call[t].arg)
  OBVIOUS
<1>2. PICK new : new = [base |-> place[t], size |-> n, count |-> call[t].arg]
  OBVIOUS
<1>3. new.base = place[t] /\ new.size = n /\ new.count = call[t].arg
  BY <1>2
<1>4. /\ pc[t] = "second" /\ call[t].fun \in DOMAIN Counts
      /\ pc' = [pc EXCEPT ![t] = "unlocking"] /\ blocks' = blocks \cup {new}
      /\ UNCHANGED <<call, holder, place, stdout>>
  BY <1>1, <1>2 DEF TakePlace, Goto
<1>5. call[t].fun # "print_int" /\ mutexOf(call[t].fun) = "malloc"
  BY <1>4, ArgumentAssumption DEF mutexOf
<1>6. n \in Int /\ call[t].arg * Element <= n
  BY <1>1, <1>4, SizeFits DEF LibInv, Asked
<1>7. LibTypeOK'
  BY <1>2, <1>4, <1>6 DEF LibInv
<1>8. Exclusion' /\ Asked'
  BY <1>4 DEF LibInv, Exclusion, Asked, InSection
<1>9. PrintInv'
  BY <1>4, <1>5 DEF LibInv, PrintInv, MidLine
<1>10. AllocInv'
  <2>1. \A b \in blocks' : b.count * Element <= b.size
    BY <1>3, <1>4, <1>6 DEF LibInv, AllocInv
  <2>2. \A b \in blocks : ~Overlap(new.base, new.size, b.base, b.size)
    BY <1>1, <1>3, <1>4 DEF LibInv, AllocInv
  <2>3. \A b \in blocks : ~Overlap(b.base, b.size, new.base, new.size)
    BY <2>2, OverlapSymmetric
  <2>4. \A a \in blocks' : \A b \in blocks' \ {a} : ~Overlap(a.base, a.size, b.base, b.size)
    BY <1>4, <2>2, <2>3 DEF LibInv, AllocInv
  <2>5. \A u \in Thread : ~(pc'[u] = "second" /\ call'[u].fun \in DOMAIN Counts)
    <3> SUFFICES ASSUME NEW u \in Thread, pc'[u] = "second", call[u].fun \in DOMAIN Counts
                 PROVE  FALSE
      BY <1>4
    <3>1. u # t /\ pc[u] = "second"
      BY <1>4 DEF LibInv
    <3>2. mutexOf(call[u].fun) = "malloc"
      BY ArgumentAssumption DEF mutexOf
    <3> QED
      BY <1>4, <1>5, <3>1, <3>2, Alone DEF InSection
  <2> QED
    BY <2>1, <2>4, <2>5 DEF AllocInv
<1> QED
  BY <1>7, <1>8, <1>9, <1>10 DEF LibInv

LEMMA FreeBlockStep ==
  ASSUME LibInv, NEW t \in Thread, FreeBlock(t)
  PROVE  LibInv'
<1> USE DEF LibTypeOK
<1>1. /\ pc[t] = "first" /\ call[t].fun = "free_int"
      /\ pc' = [pc EXCEPT ![t] = "unlocking"] /\ blocks' \subseteq blocks
      /\ UNCHANGED <<call, holder, place, stdout>>
  BY DEF FreeBlock, Goto
<1>2. LibTypeOK'
  BY <1>1 DEF LibInv
<1>3. Exclusion' /\ Asked'
  BY <1>1 DEF LibInv, Exclusion, Asked, InSection
<1>4. PrintInv'
  BY <1>1 DEF LibInv, PrintInv, MidLine
<1>5. AllocInv'
  BY <1>1 DEF LibInv, AllocInv, Size
<1> QED
  BY <1>2, <1>3, <1>4, <1>5 DEF LibInv

LEMMA LibInvariant == Spec => []LibInv
<1>1. LibInv /\ [Next]_libVars => LibInv'
  <2> SUFFICES ASSUME LibInv, [Next]_libVars PROVE LibInv'
    OBVIOUS
  <2>1. CASE UNCHANGED libVars
    BY <2>1 DEF libVars, LibInv, LibTypeOK, Exclusion, Asked, PrintInv, AllocInv, InSection,
      MidLine, Functions, Size
  <2>2. ASSUME NEW t \in Thread, Enter(t) \/ Inside(t) PROVE LibInv'
    BY <2>2, EnterStep, LockStep, PrintFirstStep, PrintSecondStep, FindPlaceStep,
      TakePlaceStep, FreeBlockStep, ReturnStep DEF Inside
  <2> QED
    BY <2>1, <2>2 DEF Next
<1> QED
  BY <1>1, LibInit, PTL DEF Spec

(***************************************************************************)
(* Lines printed by different threads are never mixed, and a printed       *)
(* integer that fits an int is the one the program printed.                *)
(***************************************************************************)
THEOREM OutputNeverGarbled == Spec => []NeverGarbled
<1>1. LibInv => NeverGarbled
  <2> SUFFICES ASSUME LibInv PROVE NeverGarbled
    OBVIOUS
  <2>1. DOMAIN stdout = 1 .. Len(stdout)
    BY DEF LibInv, LibTypeOK
  <2>2. \A i \in DOMAIN stdout : i % 2 = 0 => stdout[i][1] = stdout[i - 1][1]
    BY <2>1 DEF LibInv, PrintInv
  <2>3. ASSUME NEW t \in Thread, pc[t] = "unlocking", call[t].fun = "print_int"
        PROVE  /\ stdout[Len(stdout)][1] = t
               /\ Signed(call[t].arg, IntBits) = call[t].arg =>
                    stdout[Len(stdout)] = <<t, call[t].arg>>
    <3>1. stdout[Len(stdout)] = <<t, Signed(call[t].arg, IntBits)>>
      BY <2>3 DEF LibInv, PrintInv
    <3> QED
      BY <3>1
  <2> QED
    BY <2>2, <2>3 DEF NeverGarbled
<1> QED
  BY <1>1, LibInvariant, PTL

(***************************************************************************)
(* The elements of two allocated blocks never overlap and all of them      *)
(* exist, also when threads allocate and free at the same time.            *)
(***************************************************************************)
THEOREM ElementsNeverShared == Spec => []ElementsDisjoint
<1>1. LibInv => ElementsDisjoint
  <2> SUFFICES ASSUME LibInv, NEW a \in blocks
               PROVE  /\ a.count * Element <= a.size
                      /\ \A b \in blocks \ {a} :
                           ~Overlap(a.base, a.count * Element, b.base, b.count * Element)
    BY DEF ElementsDisjoint
  <2>1. \A b \in blocks : /\ b.base \in Int /\ b.size \in Int /\ b.count * Element \in Int
                          /\ b.count * Element <= b.size
    BY DEF LibInv, LibTypeOK, AllocInv, Element
  <2>2. ASSUME NEW b \in blocks \ {a}
        PROVE  ~Overlap(a.base, a.count * Element, b.base, b.count * Element)
    <3>1. ~Overlap(a.base, a.size, b.base, b.size)
      BY DEF LibInv, AllocInv
    <3> QED
      BY <2>1, <3>1 DEF Overlap
  <2> QED
    BY <2>1, <2>2
<1> QED
  BY <1>1, LibInvariant, PTL

=============================================================================

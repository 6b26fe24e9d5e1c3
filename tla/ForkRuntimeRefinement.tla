----------------------- MODULE ForkRuntimeRefinement -----------------------
(***************************************************************************)
(* When every statement is reconciled before its context is destroyed,     *)
(* ForkRuntime implements ForkJoin: every step of a task is a fork, the    *)
(* end of a statement, a join, or invisible.                               *)
(***************************************************************************)
EXTENDS ForkRuntimeGroupProofs

\* The statements of the group k, but for the first r.
Rest(k, r) == [i \in 1 .. (Len(k) - r) |-> k[r + i].task]

LEMMA RestSeq ==
  ASSUME NEW k \in Seq(Entry), NEW r \in 0 .. Len(k)
  PROVE  /\ Rest(k, r) \in Seq(Task) /\ Len(Rest(k, r)) = Len(k) - r
         /\ \A i \in 1 .. (Len(k) - r) : Rest(k, r)[i] = k[r + i].task
<1>1. Len(k) - r \in Nat
  OBVIOUS
<1>2. \A i \in 1 .. (Len(k) - r) : k[r + i].task \in Task
  <2> SUFFICES ASSUME NEW i \in 1 .. (Len(k) - r) PROVE k[r + i].task \in Task
    OBVIOUS
  <2>1. r + i \in 1 .. Len(k)
    OBVIOUS
  <2>2. k[r + i] \in Entry
    BY <2>1, ElementOfSeq
  <2> QED
    BY <2>2 DEF Entry
<1>3. Rest(k, r) \in [1 .. (Len(k) - r) -> Task]
  BY <1>2 DEF Rest
<1>4. Rest(k, r) \in Seq(Task)
  BY <1>1, <1>3, SeqDef
<1>5. Len(Rest(k, r)) = Len(k) - r
  BY <1>1, <1>3, <1>4, LenProperties
<1> QED
  BY <1>4, <1>5 DEF Rest

LEMMA RestEmpty ==
  ASSUME NEW k \in Seq(Entry)
  PROVE  Rest(k, Len(k)) = << >>
<1>1. Rest(k, Len(k)) \in Seq(Task) /\ Len(Rest(k, Len(k))) = 0
  BY RestSeq, LenProperties
<1> QED
  BY <1>1, EmptySeq

LEMMA RestTail ==
  ASSUME NEW k \in Seq(Entry), NEW r \in Nat, r < Len(k)
  PROVE  /\ Rest(k, r) # << >>
         /\ Head(Rest(k, r)) = k[r + 1].task
         /\ Tail(Rest(k, r)) = Rest(k, r + 1)
<1>1. Len(k) \in Nat /\ r \in 0 .. Len(k) /\ r + 1 \in 0 .. Len(k)
  BY LenProperties
<1>2. /\ Rest(k, r) \in Seq(Task) /\ Len(Rest(k, r)) = Len(k) - r
      /\ \A i \in 1 .. (Len(k) - r) : Rest(k, r)[i] = k[r + i].task
  BY <1>1, RestSeq
<1>3. /\ Rest(k, r + 1) \in Seq(Task) /\ Len(Rest(k, r + 1)) = Len(k) - (r + 1)
      /\ \A i \in 1 .. (Len(k) - (r + 1)) : Rest(k, r + 1)[i] = k[(r + 1) + i].task
  BY <1>1, RestSeq
<1>4. Rest(k, r) # << >>
  BY <1>1, <1>2
<1>5. Head(Rest(k, r)) = k[r + 1].task
  BY <1>1, <1>2, <1>4
<1>6. Tail(Rest(k, r)) = Rest(k, r + 1)
  <2>1. /\ Tail(Rest(k, r)) \in Seq(Task) /\ Len(Tail(Rest(k, r))) = Len(k) - (r + 1)
        /\ \A i \in 1 .. Len(Tail(Rest(k, r))) : Tail(Rest(k, r))[i] = Rest(k, r)[i + 1]
    BY <1>1, <1>2, <1>4, HeadTailProperties
  <2>2. \A i \in 1 .. (Len(k) - (r + 1)) : Tail(Rest(k, r))[i] = Rest(k, r + 1)[i]
    <3> SUFFICES ASSUME NEW i \in 1 .. (Len(k) - (r + 1))
                 PROVE  Rest(k, r)[i + 1] = Rest(k, r + 1)[i]
      BY <2>1
    <3>1. i + 1 \in 1 .. (Len(k) - r) /\ r + (i + 1) = (r + 1) + i
      BY <1>1
    <3> QED
      BY <1>2, <1>3, <3>1
  <2> QED
    BY <1>3, <2>1, <2>2, SeqEqual
<1> QED
  BY <1>4, <1>5, <1>6

LEMMA RestAppend ==
  ASSUME NEW k \in Seq(Entry), NEW ty \in Type, NEW s \in Task
  PROVE  Rest(Append(k, [type |-> ty, task |-> s]), 0) = Append(Rest(k, 0), s)
<1> DEFINE k2 == Append(k, [type |-> ty, task |-> s])
<1>1. /\ k2 \in Seq(Entry) /\ Len(k) \in Nat /\ Len(k2) = Len(k) + 1
      /\ \A i \in 1 .. Len(k) : k2[i] = k[i]
      /\ k2[Len(k) + 1].task = s
  BY AppendGroup
<1> HIDE DEF k2
<1>2. /\ Rest(k, 0) \in Seq(Task) /\ Len(Rest(k, 0)) = Len(k)
      /\ \A i \in 1 .. Len(k) : Rest(k, 0)[i] = k[i].task
  <2>1. 0 \in 0 .. Len(k) /\ Len(k) - 0 = Len(k) /\ \A i \in 1 .. Len(k) : 0 + i = i
    BY <1>1
  <2> QED
    BY <2>1, RestSeq
<1>3. /\ Rest(k2, 0) \in Seq(Task) /\ Len(Rest(k2, 0)) = Len(k) + 1
      /\ \A i \in 1 .. Len(k) + 1 : Rest(k2, 0)[i] = k2[i].task
  <2>1. /\ 0 \in 0 .. Len(k2) /\ Len(k2) - 0 = Len(k) + 1
        /\ \A i \in 1 .. Len(k) + 1 : 0 + i = i
    BY <1>1
  <2> QED
    BY <1>1, <2>1, RestSeq
<1>4. /\ Append(Rest(k, 0), s) \in Seq(Task)
      /\ Len(Append(Rest(k, 0), s)) = Len(k) + 1
      /\ \A i \in 1 .. Len(k) : Append(Rest(k, 0), s)[i] = k[i].task
      /\ Append(Rest(k, 0), s)[Len(k) + 1] = s
  BY <1>1, <1>2, AppendProperties
<1>5. \A i \in 1 .. Len(k) + 1 : Rest(k2, 0)[i] = Append(Rest(k, 0), s)[i]
  <2> SUFFICES ASSUME NEW i \in 1 .. Len(k) + 1
               PROVE  k2[i].task = Append(Rest(k, 0), s)[i]
    BY <1>3
  <2>1. i \in 1 .. Len(k) \/ i = Len(k) + 1
    BY <1>1
  <2> QED
    BY <1>1, <1>4, <2>1
<1> QED
  BY <1>3, <1>4, <1>5, SeqEqual DEF k2

-----------------------------------------------------------------------------

LEMMA Phases ==
  ASSUME TypeOK, NEW t \in Task
  PROVE  /\ PhaseOf(t) = "unborn" <=> status[t] = "none"
         /\ PhaseOf(t) = "live" <=> status[t] \in {"deferred", "running"}
         /\ PhaseOf(t) = "finished" <=> status[t] = "ready"
         /\ PhaseOf(t) = "joined" <=> status[t] = "joined"
BY DEF TypeOK, ManagerTypeOK, Status, PhaseOf

LEMMA InitRefines == Init => FJ!Init
<1> SUFFICES ASSUME Init PROVE FJ!Init
  OBVIOUS
<1>1. \A t \in Task : PhaseOf(t) = IF t = Main THEN "live" ELSE "unborn"
  BY DEF Init, ManagerInit, PhaseOf
<1>2. \A t \in Task : Unreconciled(t) = << >>
  <2> SUFFICES ASSUME NEW t \in Task PROVE Unreconciled(t) = << >>
    OBVIOUS
  <2>1. kids[t] = << >> /\ ri[t] = 0
    BY DEF Init
  <2>2. Unreconciled(t) = Rest(kids[t], ri[t])
    BY DEF Unreconciled, Rest
  <2>3. Rest(<< >>, Len(<< >>)) = << >>
    BY RestEmpty, EmptyGroup
  <2> QED
    BY <2>1, <2>2, <2>3
<1> QED
  BY <1>1, <1>2 DEF FJ!Init

LEMMA Invisible ==
  ASSUME \A t \in Task : PhaseOf(t)' = PhaseOf(t),
         \A t \in Task : Unreconciled(t)' = Unreconciled(t)
  PROVE  UNCHANGED FJ!absVars
BY DEF FJ!absVars

LEMMA SchedRefines ==
  ASSUME TypeOK, TypeOK', Inv, NEW p \in Task, Sched(p)
  PROVE  FJ!Next
<1>1. PICK s \in Children[p], ty \in Type :
        /\ status[s] = "none" /\ mutex = NoTask
        /\ kids' = [kids EXCEPT ![p] = Append(@, [type |-> ty, task |-> s])]
        /\ Scheduled(p, s, ty)
  BY SchedSucceeds
<1>2. s \in Task /\ status[p] = "running"
  BY ProgramAssumption DEF Inv, ControlInv, Sched, TypeOK, ManagerTypeOK, Status
<1>3. PhaseOf(p) = "live" /\ PhaseOf(s) = "unborn"
  BY <1>1, <1>2, Phases
<1>4. /\ PhaseOf(s)' = "live"
      /\ \A t \in Task : t # s => PhaseOf(t)' = PhaseOf(t)
  BY <1>1, <1>2 DEF Scheduled, PhaseOf, TypeOK, ManagerTypeOK
<1>5. Unreconciled(p)' = Append(Unreconciled(p), s)
  <2>1. kids[p] \in Seq(Entry) /\ ri[p] = 0 /\ ri'[p] = 0
    BY DEF TypeOK, Entry, Sched
  <2>2. kids'[p] = Append(kids[p], [type |-> ty, task |-> s])
    BY <1>1 DEF TypeOK
  <2>3. Rest(kids'[p], 0) = Append(Rest(kids[p], 0), s)
    BY <1>2, <2>1, <2>2, RestAppend
  <2> QED
    BY <2>1, <2>3 DEF Unreconciled, Rest
<1>6. \A t \in Task : t # p => Unreconciled(t)' = Unreconciled(t)
  BY <1>1 DEF Unreconciled, Sched, TypeOK
<1>7. FJ!Fork(p, s)
  BY <1>2, <1>3, <1>4, <1>5, <1>6 DEF FJ!Fork
<1> QED
  BY <1>1, <1>7 DEF FJ!Next

LEMMA ReconReturnRefines ==
  ASSUME TypeOK, HoldsFuture, Inv, NEW p \in Task, ReturnDeferred(p) \/ Retire(p)
  PROVE  FJ!Next
<1>1. PICK s \in Task :
        /\ pc[p] \in {"get", "retire"} /\ fv[p] = s /\ status[s] = "ready"
        /\ ri' = [ri EXCEPT ![p] = @ + 1]
        /\ status' = [status EXCEPT ![s] = "joined"]
        /\ kids' = kids
  BY DEF ReturnDeferred, reconReturnDeferred, Retire, reconRetire, HoldsFuture
<1>2. kids[p] \in Seq(Entry) /\ ri[p] \in Nat /\ ri'[p] = ri[p] + 1 /\ ri[p] < Len(kids[p])
  <2>1. ri[p] + 1 <= Len(kids[p])
    BY <1>1 DEF Inv, GroupInv, Taken, Waiting
  <2>2. ri[p] < Len(kids[p])
    BY <2>1, GroupCounters
  <2>3. kids[p] \in Seq(Entry)
    BY DEF TypeOK, Entry
  <2> QED
    BY <1>1, <2>2, <2>3 DEF TypeOK
<1>3. /\ Unreconciled(p) # << >>
      /\ Head(Unreconciled(p)) = s
      /\ Unreconciled(p)' = Tail(Unreconciled(p))
  <2>1. Unreconciled(p) = Rest(kids[p], ri[p]) /\ Unreconciled(p)' = Rest(kids[p], ri[p] + 1)
    BY <1>1, <1>2 DEF Unreconciled, Rest
  <2>2. s = kids[p][ri[p] + 1].task
    BY <1>1 DEF Inv, ReconOwn
  <2> QED
    BY <1>2, <2>1, <2>2, RestTail
<1>4. \A t \in Task : t # p => Unreconciled(t)' = Unreconciled(t)
  BY <1>1 DEF Unreconciled, TypeOK
<1>5. /\ PhaseOf(s) = "finished" /\ PhaseOf(s)' = "joined"
      /\ \A t \in Task : t # s => PhaseOf(t)' = PhaseOf(t)
  BY <1>1 DEF PhaseOf, TypeOK, ManagerTypeOK
<1>6. FJ!Join(p)
  BY <1>1, <1>3, <1>4, <1>5 DEF FJ!Join
<1> QED
  BY <1>6 DEF FJ!Next

LEMMA FinishRefines ==
  ASSUME JoinsAll, TypeOK, Inv, NEW p \in Task, Finish(p)
  PROVE  FJ!Next
<1>1. /\ pc[p] = "body" /\ status[p] = "running"
      /\ status' = [status EXCEPT ![p] = "ready"]
      /\ UNCHANGED <<kids, ri>>
  BY DEF Finish, StatementReturns
<1>2. Unreconciled(p) = << >>
  <2>1. kids[p] \in Seq(Entry) /\ ri[p] = Len(kids[p])
    BY <1>1 DEF Inv, GroupInv, TypeOK, Entry
  <2> QED
    BY <2>1, RestEmpty DEF Unreconciled, Rest
<1>3. \A t \in Task : Unreconciled(t)' = Unreconciled(t)
  BY <1>1 DEF Unreconciled
<1>4. /\ PhaseOf(p) = "live" /\ PhaseOf(p)' = "finished"
      /\ \A t \in Task : t # p => PhaseOf(t)' = PhaseOf(t)
  BY <1>1 DEF PhaseOf, TypeOK, ManagerTypeOK
<1>5. FJ!Finish(p)
  BY <1>2, <1>3, <1>4 DEF FJ!Finish
<1> QED
  BY <1>5 DEF FJ!Next

LEMMA MakeContextRefines ==
  ASSUME JoinsAll, TypeOK, Inv, NEW p \in Task, MakeContext(p)
  PROVE  UNCHANGED FJ!absVars
<1>1. /\ pc[p] = "body" /\ status' = status
      /\ kids' = [kids EXCEPT ![p] = << >>] /\ ri' = [ri EXCEPT ![p] = 0]
  BY DEF MakeContext, make_context
<1>2. \A t \in Task : PhaseOf(t)' = PhaseOf(t)
  BY <1>1 DEF PhaseOf
<1>3. \A t \in Task : t # p => Unreconciled(t)' = Unreconciled(t)
  BY <1>1 DEF Unreconciled, TypeOK
<1>4. Unreconciled(p) = << >>
  <2>1. kids[p] \in Seq(Entry) /\ ri[p] = Len(kids[p])
    BY <1>1 DEF Inv, GroupInv, TypeOK, Entry
  <2> QED
    BY <2>1, RestEmpty DEF Unreconciled, Rest
<1>5. Unreconciled(p)' = << >>
  <2>1. kids'[p] = << >> /\ ri'[p] = 0 /\ Len(<< >>) = 0
    BY <1>1 DEF TypeOK
  <2>2. Unreconciled(p)' = Rest(<< >>, Len(<< >>))
    BY <2>1 DEF Unreconciled, Rest
  <2> QED
    BY <2>2, EmptyGroup, RestEmpty
<1> QED
  BY <1>2, <1>3, <1>4, <1>5, Invisible

LEMMA OtherStepsInvisible ==
  ASSUME TypeOK, HoldsFuture, Inv, NEW p \in Task,
         \/ Take(p) \/ RunDeferred(p) \/ GetAsync(p) \/ DestroyLock(p) \/ DestroyErase(p)
  PROVE  UNCHANGED FJ!absVars
<1>1. UNCHANGED <<kids, ri>>
  BY DEF Take, RunDeferred, GetAsync, DestroyLock, DestroyErase
<1>2. \A t \in Task : Unreconciled(t)' = Unreconciled(t)
  BY <1>1 DEF Unreconciled
<1>3. CASE RunDeferred(p)
  <2>1. \A t \in Task : PhaseOf(t)' = PhaseOf(t)
    BY <1>3 DEF RunDeferred, reconRunDeferred, PhaseOf, TypeOK, ManagerTypeOK
  <2> QED
    BY <1>2, <2>1, Invisible
<1>4. CASE Take(p) \/ GetAsync(p) \/ DestroyLock(p) \/ DestroyErase(p)
  <2>1. status' = status
    BY <1>4 DEF Take, reconTake, GetAsync, reconGetAsync, managerVars, DestroyLock,
      destroyLock, DestroyErase, destroyErase, Abort
  <2>2. \A t \in Task : PhaseOf(t)' = PhaseOf(t)
    BY <2>1 DEF PhaseOf
  <2> QED
    BY <1>2, <2>2, Invisible
<1> QED
  BY <1>3, <1>4

(***************************************************************************)
(* Contexts, thread slots, deferred execution and the three-step recon     *)
(* implement fork-join: statements are joined by their parent only after   *)
(* they ended and in the order of scheduling, and a task ends only when it *)
(* has joined all it forked.                                               *)
(***************************************************************************)
THEOREM ImplementsForkJoinSafety ==
  ASSUME JoinsAll
  PROVE  Spec => ForkJoinSafety
<1>1. ASSUME TypeOK, TypeOK', HoldsFuture, Inv, [Next]_vars
      PROVE  [FJ!Next]_(FJ!absVars)
  <2>1. CASE UNCHANGED vars
    <3>1. \A t \in Task : PhaseOf(t)' = PhaseOf(t) /\ Unreconciled(t)' = Unreconciled(t)
      BY <2>1 DEF vars, managerVars, clientVars, PhaseOf, Unreconciled
    <3> QED
      BY <3>1, Invisible
  <2>2. ASSUME NEW p \in Task, Step(p) PROVE [FJ!Next]_(FJ!absVars)
    BY <1>1, <2>2, SchedRefines, ReconReturnRefines, FinishRefines, MakeContextRefines,
      OtherStepsInvisible DEF Step
  <2> QED
    BY <1>1, <2>1, <2>2 DEF Next
<1>2. TypeOK /\ TypeOK' /\ (SingleOwner /\ HoldsFuture /\ SlotInv) /\ Inv /\ [Next]_vars
        => [FJ!Next]_(FJ!absVars)
  BY <1>1
<1> QED
  BY <1>2, InitRefines, TypeCorrect, CoreInvariant, GroupInvariant, PTL
  DEF Spec, ForkJoinSafety, FJ!SafeSpec

=============================================================================

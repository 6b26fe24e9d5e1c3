------------------------- MODULE ForkRuntimeProofs -------------------------
(***************************************************************************)
(* Safety of ForkRuntime for every program (Task, Children), every machine *)
(* (HardwareConcurrency) and every set of result types.                    *)
(***************************************************************************)
EXTENDS ForkRuntime, FiniteSetTheorems, TLAPS

Entry == [type : Type, task : Task]

LEMMA EmptyGroup == << >> \in Seq(Entry)
OBVIOUS

LEMMA AppendGroup ==
  ASSUME NEW g \in Seq(Entry), NEW ty \in Type, NEW s \in Task
  PROVE  Append(g, [type |-> ty, task |-> s]) \in Seq(Entry)
BY DEF Entry

(***************************************************************************)
(* What a __fork_sched call does: it launches a fresh statement and stores *)
(* its future, or the process ends.                                        *)
(***************************************************************************)
Scheduled(p, s, ty) ==
  /\ cid[p] \in context_map
  /\ policy' = [policy EXCEPT ![s] = LaunchPolicy]
  /\ status' = [status EXCEPT ![s] = IF LaunchPolicy = "async"
                                     THEN "running" ELSE "deferred"]
  /\ thread_count' = IF LaunchPolicy = "async" THEN thread_count + 1 ELSE thread_count
  /\ future_id_map' = future_id_map \cup
       {[cid |-> cid[p], type |-> ty, id |-> Len(kids[p]), task |-> s]}
  /\ pc' = [pc EXCEPT ![s] = IF LaunchPolicy = "async" THEN "body" ELSE "idle"]
  /\ UNCHANGED <<context_map, next_cid, mutex, fv, process>>

LEMMA SchedEffect ==
  ASSUME NEW p \in Task, process = "alive", Sched(p)
  PROVE  \E s \in Task, ty \in Type :
           /\ s \in Children[p] /\ status[s] = "none"
           /\ kids' = [kids EXCEPT ![p] = Append(@, [type |-> ty, task |-> s])]
           /\ (Abort /\ pc' = pc) \/ Scheduled(p, s, ty)
<1>1. PICK s \in Fresh(p), ty \in Type :
        /\ sched(s, ty, Len(kids[p]), cid[p])
        /\ kids' = [kids EXCEPT ![p] = Append(@, [type |-> ty, task |-> s])]
        /\ Goto(s, IF LaunchPolicy = "async" THEN "body" ELSE "idle")
  BY Zenon DEF Sched
<1>2. s \in Task /\ s \in Children[p] /\ status[s] = "none"
  BY ProgramAssumption DEF Fresh
<1>3. CASE Abort
  BY <1>1, <1>2, <1>3 DEF Abort, Goto
<1>4. CASE ~Abort
  <2>1. Scheduled(p, s, ty)
    BY <1>1, <1>4 DEF sched, Launch, addFuture, Goto, Scheduled
  <2> QED
    BY <1>1, <1>2, <2>1
<1> QED
  BY <1>3, <1>4

(***************************************************************************)
(* Every variable keeps its type: in particular the counters of the        *)
(* manager are integers and the group of a task is a sequence of           *)
(* statements with their result types.                                     *)
(***************************************************************************)
THEOREM TypeCorrect == Spec => []TypeOK
<1>1. Init => TypeOK
  <2> SUFFICES ASSUME Init PROVE TypeOK
    OBVIOUS
  <2>1. ManagerTypeOK
    BY ProgramAssumption DEF Init, ManagerInit, ManagerTypeOK, Status
  <2>2. pc \in [Task -> PC] /\ cid \in [Task -> Nat] /\ ri \in [Task -> Nat]
    BY DEF Init, PC
  <2>3. kids \in [Task -> Seq(Entry)]
    BY EmptyGroup DEF Init
  <2> QED
    BY <2>1, <2>2, <2>3 DEF TypeOK, Entry
<1>2. TypeOK /\ [Next]_vars => TypeOK'
  <2> SUFFICES ASSUME TypeOK, [Next]_vars PROVE TypeOK'
    OBVIOUS
  <2>1. CASE UNCHANGED vars
    BY <2>1 DEF TypeOK, ManagerTypeOK, vars, managerVars, clientVars
  <2>2. ASSUME NEW p \in Task, Step(p) PROVE TypeOK'
    <3> USE DEF TypeOK, Entry
    <3>1. CASE MakeContext(p)
      <4>1. ManagerTypeOK'
        BY <3>1 DEF MakeContext, make_context, ManagerTypeOK, Status
      <4>2. pc' \in [Task -> PC]
        BY <3>1 DEF MakeContext, Goto, PC
      <4>3. cid' \in [Task -> Nat] /\ ri' \in [Task -> Nat]
        BY <3>1 DEF MakeContext, ManagerTypeOK
      <4>4. kids' \in [Task -> Seq(Entry)]
        BY <3>1, EmptyGroup DEF MakeContext
      <4> QED
        BY <4>1, <4>2, <4>3, <4>4
    <3>2. CASE Sched(p)
      <4>1. PICK s \in Task, ty \in Type :
              /\ kids' = [kids EXCEPT ![p] = Append(@, [type |-> ty, task |-> s])]
              /\ (Abort /\ pc' = pc) \/ Scheduled(p, s, ty)
        BY <2>2, <3>2, SchedEffect DEF Step
      <4>2. Append(kids[p], [type |-> ty, task |-> s]) \in Seq(Entry)
        BY AppendGroup
      <4>3. kids' \in [Task -> Seq(Entry)] /\ cid' = cid /\ ri' = ri
        BY <3>2, <4>1, <4>2 DEF Sched
      <4>4. CASE Abort /\ pc' = pc
        BY <4>3, <4>4 DEF ManagerTypeOK, Abort
      <4>5. CASE Scheduled(p, s, ty)
        <5>1. LaunchPolicy \in {"async", "deferred"}
          BY DEF LaunchPolicy
        <5>2. [cid |-> cid[p], type |-> ty, id |-> Len(kids[p]), task |-> s]
                \in StoredFuture
          BY DEF StoredFuture
        <5>3. thread_count' \in Int
          BY <4>5 DEF Scheduled, ManagerTypeOK
        <5>4. policy' \in [Task -> {"none", "async", "deferred"}]
          BY <4>5, <5>1 DEF Scheduled, ManagerTypeOK
        <5>5. status' \in [Task -> Status]
          BY <4>5 DEF Scheduled, ManagerTypeOK, Status
        <5>6. pc' \in [Task -> PC]
          BY <4>5 DEF Scheduled, PC
        <5> QED
          BY <4>3, <4>5, <5>2, <5>3, <5>4, <5>5, <5>6 DEF Scheduled, ManagerTypeOK
      <4> QED
        BY <4>1, <4>4, <4>5
    <3>3. CASE Take(p)
      <4>1. ManagerTypeOK'
        BY <3>3 DEF Take, reconTake, Abort, FuturesAt, StoredFuture, ManagerTypeOK, Status
      <4>2. pc' \in [Task -> PC]
        BY <3>3 DEF Take, Goto, PC
      <4>3. cid' = cid /\ kids' = kids /\ ri' \in [Task -> Nat]
        BY <3>3 DEF Take
      <4> QED
        BY <4>1, <4>2, <4>3
    <3>4. CASE RunDeferred(p)
      <4>1. ManagerTypeOK'
        BY <3>4 DEF RunDeferred, reconRunDeferred, ManagerTypeOK, Status
      <4>2. pc' \in [Task -> PC]
        BY <3>4 DEF RunDeferred, Goto, PC
      <4>3. cid' = cid /\ kids' = kids /\ ri' \in [Task -> Nat]
        BY <3>4 DEF RunDeferred
      <4> QED
        BY <4>1, <4>2, <4>3
    <3>5. CASE ReturnDeferred(p)
      <4>1. ManagerTypeOK'
        BY <3>5 DEF ReturnDeferred, reconReturnDeferred, ManagerTypeOK, Status
      <4>2. pc' \in [Task -> PC]
        BY <3>5 DEF ReturnDeferred, Goto, PC
      <4>3. cid' = cid /\ kids' = kids /\ ri' \in [Task -> Nat]
        BY <3>5 DEF ReturnDeferred
      <4> QED
        BY <4>1, <4>2, <4>3
    <3>6. CASE GetAsync(p)
      <4>1. ManagerTypeOK'
        BY <3>6 DEF GetAsync, reconGetAsync, managerVars, ManagerTypeOK, Status
      <4>2. pc' \in [Task -> PC]
        BY <3>6 DEF GetAsync, Goto, PC
      <4>3. cid' = cid /\ kids' = kids /\ ri' \in [Task -> Nat]
        BY <3>6 DEF GetAsync
      <4> QED
        BY <4>1, <4>2, <4>3
    <3>7. CASE Retire(p)
      <4>1. ManagerTypeOK'
        <5>1. thread_count' \in Int
          BY <3>7 DEF Retire, reconRetire, ManagerTypeOK
        <5>2. status' \in [Task -> Status] /\ fv' \in [Task -> Task \cup {NoTask}]
          BY <3>7 DEF Retire, reconRetire, ManagerTypeOK, Status
        <5> QED
          BY <3>7, <5>1, <5>2 DEF Retire, reconRetire, ManagerTypeOK
      <4>2. pc' \in [Task -> PC]
        BY <3>7 DEF Retire, Goto, PC
      <4>3. cid' = cid /\ kids' = kids /\ ri' \in [Task -> Nat]
        BY <3>7 DEF Retire
      <4> QED
        BY <4>1, <4>2, <4>3
    <3>8. CASE DestroyLock(p)
      <4>1. ManagerTypeOK'
        BY <3>8 DEF DestroyLock, destroyLock, Abort, ManagerTypeOK, Status
      <4>2. pc' \in [Task -> PC]
        BY <3>8 DEF DestroyLock, Goto, PC
      <4>3. cid' = cid /\ kids' = kids /\ ri' \in [Task -> Nat]
        BY <3>8 DEF DestroyLock
      <4> QED
        BY <4>1, <4>2, <4>3
    <3>9. CASE DestroyErase(p)
      <4>1. ManagerTypeOK'
        BY <3>9 DEF DestroyErase, destroyErase, ManagerTypeOK, Status
      <4>2. pc' \in [Task -> PC]
        BY <3>9 DEF DestroyErase, Goto, PC
      <4>3. cid' = cid /\ kids' = kids /\ ri' \in [Task -> Nat]
        BY <3>9 DEF DestroyErase
      <4> QED
        BY <4>1, <4>2, <4>3
    <3>10. CASE Finish(p)
      <4>1. ManagerTypeOK'
        BY <3>10 DEF Finish, StatementReturns, ManagerTypeOK, Status
      <4>2. pc' \in [Task -> PC]
        BY <3>10 DEF Finish, Goto, PC
      <4>3. cid' = cid /\ kids' = kids /\ ri' \in [Task -> Nat]
        BY <3>10 DEF Finish
      <4> QED
        BY <4>1, <4>2, <4>3
    <3> QED
      BY <2>2, <3>1, <3>2, <3>3, <3>4, <3>5, <3>6, <3>7, <3>8, <3>9, <3>10 DEF Step
  <2> QED
    BY <2>1, <2>2 DEF Next
<1> QED
  BY <1>1, <1>2, PTL DEF Spec

-----------------------------------------------------------------------------

(***************************************************************************)
(* A future has one owner and a recon call holds what it will retire: the  *)
(* part of the invariant that makes the slot counter exact.                *)
(***************************************************************************)
LEMMA OwnerStep ==
  ASSUME TypeOK, TypeOK', SingleOwner, HoldsFuture, [Next]_vars
  PROVE  SingleOwner' /\ HoldsFuture'
<1> USE DEF TypeOK, ManagerTypeOK
<1>1. CASE UNCHANGED vars
  BY <1>1 DEF SingleOwner, HoldsFuture, vars, managerVars, clientVars
<1>2. ASSUME NEW p \in Task, Step(p) PROVE SingleOwner' /\ HoldsFuture'
  <2>1. CASE MakeContext(p)
    <3>1. SingleOwner'
      BY <2>1, TaskAssumption DEF MakeContext, make_context, SingleOwner, HoldsFuture, StoredFuture
    <3>2. HoldsFuture'
      BY <2>1, TaskAssumption DEF MakeContext, make_context, SingleOwner, HoldsFuture, StoredFuture, Goto
    <3> QED
      BY <3>1, <3>2
  <2>2. CASE Sched(p)
    <3>1. PICK s \in Task, ty \in Type :
            /\ status[s] = "none"
            /\ (Abort /\ pc' = pc) \/ Scheduled(p, s, ty)
      BY <1>2, <2>2, SchedEffect DEF Step
    <3>2. CASE Abort /\ pc' = pc
      BY <3>2 DEF SingleOwner, HoldsFuture, Abort
    <3>3. CASE Scheduled(p, s, ty)
      <4> DEFINE f0 == [cid |-> cid[p], type |-> ty, id |-> Len(kids[p]), task |-> s]
      <4>1. /\ \A f \in future_id_map : f.task # s
            /\ \A t \in Task : fv[t] # s
        BY <3>1, TaskAssumption DEF SingleOwner
      <4>2. future_id_map' = future_id_map \cup {f0} /\ f0.task = s /\ fv' = fv
        BY <3>3 DEF Scheduled
      <4>3. status'[s] \in {"running", "deferred"} /\ \A t \in Task \ {s} :
              status'[t] = status[t] /\ policy'[t] = policy[t] /\ pc'[t] = pc[t]
        BY <3>3 DEF Scheduled
      <4>4. \A f \in future_id_map : f.task \in Task
        BY DEF StoredFuture
      <4> HIDE DEF f0
      <4>5. SingleOwner'
        <5>1. \A f \in future_id_map' :
                \/ f = f0
                \/ f \in future_id_map /\ f.task # s /\ status'[f.task] = status[f.task]
          BY <4>1, <4>2, <4>3, <4>4
        <5>2. \A t \in Task : fv[t] # NoTask =>
                fv[t] \in Task /\ status'[fv[t]] = status[fv[t]]
          BY <4>1, <4>3
        <5>3. \A f, g \in future_id_map' : f.task = g.task => f = g
          BY <4>2, <5>1 DEF SingleOwner
        <5>4. \A f \in future_id_map' : status'[f.task] \in {"deferred", "running", "ready"}
          BY <4>2, <4>3, <5>1 DEF SingleOwner
        <5>5. \A f \in future_id_map', t \in Task : fv'[t] # f.task
          BY <4>1, <4>2, <5>1 DEF SingleOwner
        <5>6. \A t \in Task : fv'[t] # NoTask =>
                status'[fv'[t]] \in {"deferred", "running", "ready"}
          BY <4>2, <5>2 DEF SingleOwner
        <5> QED
          BY <4>2, <5>3, <5>4, <5>5, <5>6 DEF SingleOwner
      <4>6. pc'[s] \in {"body", "idle"}
        BY <3>3 DEF Scheduled
      <4>7. HoldsFuture'
        <5> SUFFICES ASSUME NEW q \in Task, pc'[q] \in {"get", "retire"}
                     PROVE  /\ fv'[q] \in Task
                            /\ pc'[q] = "retire" => /\ policy'[fv'[q]] = "async"
                                                    /\ status'[fv'[q]] = "ready"
          BY DEF HoldsFuture
        <5>1. q # s /\ pc'[q] = pc[q] /\ fv'[q] = fv[q]
          BY <4>2, <4>3, <4>6
        <5>2. fv[q] \in Task \ {s}
          BY <4>1, <5>1 DEF HoldsFuture
        <5> QED
          BY <4>3, <5>1, <5>2 DEF HoldsFuture
      <4> QED
        BY <4>5, <4>7
    <3> QED
      BY <3>1, <3>2, <3>3
  <2>3. CASE Take(p)
    <3>1. SingleOwner'
      <4>1. CASE Abort
        BY <4>1 DEF SingleOwner, Abort
      <4>2. CASE ~Abort
        <5>1. PICK f \in future_id_map :
                /\ fv' = [fv EXCEPT ![p] = f.task]
                /\ future_id_map' = future_id_map \ {f}
                /\ status' = status
          BY <2>3, <4>2 DEF Take, reconTake, FuturesAt
        <5>2. f.task \in Task
          BY DEF StoredFuture
        <5> QED
          BY <5>1, <5>2, TaskAssumption DEF SingleOwner
      <4> QED
        BY <4>1, <4>2
    <3>2. HoldsFuture'
      BY <2>3, TaskAssumption DEF Take, reconTake, Abort, FuturesAt, SingleOwner, HoldsFuture, StoredFuture, Goto
    <3> QED
      BY <3>1, <3>2
  <2>4. CASE RunDeferred(p)
    <3>1. SingleOwner'
      BY <2>4, TaskAssumption DEF RunDeferred, reconRunDeferred, SingleOwner, HoldsFuture, StoredFuture
    <3>2. HoldsFuture'
      BY <2>4, TaskAssumption DEF RunDeferred, reconRunDeferred, SingleOwner, HoldsFuture, StoredFuture, Goto
    <3> QED
      BY <3>1, <3>2
  <2>5. CASE ReturnDeferred(p)
    <3>1. SingleOwner'
      BY <2>5, TaskAssumption DEF ReturnDeferred, reconReturnDeferred, SingleOwner, HoldsFuture, StoredFuture
    <3>2. HoldsFuture'
      <4>1. /\ pc[p] \in {"get", "retire"} /\ fv[p] \in Task
            /\ \A q \in Task \ {p} : pc'[q] = pc[q] /\ fv'[q] = fv[q]
            /\ pc'[p] = "group"
            /\ policy' = policy
            /\ \A t \in Task : t # fv[p] => status'[t] = status[t]
        BY <1>2, <2>5 DEF ReturnDeferred, reconReturnDeferred, Goto, Step, HoldsFuture
      <4>2. \A q \in Task \ {p} : fv[q] # fv[p]
        BY <4>1, TaskAssumption DEF SingleOwner
      <4>3. ASSUME NEW q \in Task, pc'[q] \in {"get", "retire"}
            PROVE  /\ fv'[q] \in Task
                   /\ pc'[q] = "retire" => /\ policy'[fv'[q]] = "async"
                                           /\ status'[fv'[q]] = "ready"
        <5>1. q # p /\ pc'[q] = pc[q] /\ fv'[q] = fv[q]
          BY <4>1, <4>3
        <5>2. fv[q] \in Task /\ fv[q] # fv[p]
          BY <4>2, <4>3, <5>1 DEF HoldsFuture
        <5> QED
          BY <4>1, <4>3, <5>1, <5>2 DEF HoldsFuture
      <4> QED
        BY <4>3 DEF HoldsFuture
    <3> QED
      BY <3>1, <3>2
  <2>6. CASE GetAsync(p)
    <3>1. SingleOwner'
      BY <2>6, TaskAssumption DEF GetAsync, reconGetAsync, managerVars, SingleOwner, HoldsFuture, StoredFuture
    <3>2. HoldsFuture'
      BY <2>6, TaskAssumption DEF GetAsync, reconGetAsync, managerVars, SingleOwner, HoldsFuture, StoredFuture, Goto
    <3> QED
      BY <3>1, <3>2
  <2>7. CASE Retire(p)
    <3>1. SingleOwner'
      BY <2>7, TaskAssumption DEF Retire, reconRetire, SingleOwner, HoldsFuture, StoredFuture
    <3>2. HoldsFuture'
      <4>1. /\ pc[p] \in {"get", "retire"} /\ fv[p] \in Task
            /\ \A q \in Task \ {p} : pc'[q] = pc[q] /\ fv'[q] = fv[q]
            /\ pc'[p] = "group"
            /\ policy' = policy
            /\ \A t \in Task : t # fv[p] => status'[t] = status[t]
        BY <1>2, <2>7 DEF Retire, reconRetire, Goto, Step, HoldsFuture
      <4>2. \A q \in Task \ {p} : fv[q] # fv[p]
        BY <4>1, TaskAssumption DEF SingleOwner
      <4>3. ASSUME NEW q \in Task, pc'[q] \in {"get", "retire"}
            PROVE  /\ fv'[q] \in Task
                   /\ pc'[q] = "retire" => /\ policy'[fv'[q]] = "async"
                                           /\ status'[fv'[q]] = "ready"
        <5>1. q # p /\ pc'[q] = pc[q] /\ fv'[q] = fv[q]
          BY <4>1, <4>3
        <5>2. fv[q] \in Task /\ fv[q] # fv[p]
          BY <4>2, <4>3, <5>1 DEF HoldsFuture
        <5> QED
          BY <4>1, <4>3, <5>1, <5>2 DEF HoldsFuture
      <4> QED
        BY <4>3 DEF HoldsFuture
    <3> QED
      BY <3>1, <3>2
  <2>8. CASE DestroyLock(p)
    <3>1. SingleOwner'
      BY <2>8, TaskAssumption DEF DestroyLock, destroyLock, Abort, SingleOwner, HoldsFuture, StoredFuture
    <3>2. HoldsFuture'
      BY <2>8, TaskAssumption DEF DestroyLock, destroyLock, Abort, SingleOwner, HoldsFuture, StoredFuture, Goto
    <3> QED
      BY <3>1, <3>2
  <2>9. CASE DestroyErase(p)
    <3>1. SingleOwner'
      BY <2>9, TaskAssumption DEF DestroyErase, destroyErase, FuturesOf, SingleOwner, HoldsFuture, StoredFuture
    <3>2. HoldsFuture'
      BY <2>9, TaskAssumption DEF DestroyErase, destroyErase, FuturesOf, SingleOwner, HoldsFuture, StoredFuture, Goto
    <3> QED
      BY <3>1, <3>2
  <2>10. CASE Finish(p)
    <3>1. SingleOwner'
      BY <2>10, TaskAssumption DEF Finish, StatementReturns, SingleOwner, HoldsFuture, StoredFuture
    <3>2. HoldsFuture'
      BY <2>10, TaskAssumption DEF Finish, StatementReturns, SingleOwner, HoldsFuture, StoredFuture, Goto
    <3> QED
      BY <3>1, <3>2
  <2> QED
    BY <1>2, <2>1, <2>2, <2>3, <2>4, <2>5, <2>6, <2>7, <2>8, <2>9, <2>10 DEF Step
<1> QED
  BY <1>1, <1>2 DEF Next

(***************************************************************************)
(* The slots change by at most one task per step, and thread_count with    *)
(* them.                                                                   *)
(***************************************************************************)
LEMMA SlotsFinite ==
  /\ IsFiniteSet(Slots) /\ Slots \subseteq Task
  /\ Workers \subseteq Slots
BY TaskAssumption, FS_Subset DEF Slots, Workers

SlotInv == SlotAccounting /\ thread_count <= max_threads

LEMMA SameSlots ==
  ASSUME SlotInv, Slots' = Slots, thread_count' = thread_count
  PROVE  SlotInv'
BY DEF SlotInv, SlotAccounting, max_threads

LEMMA SlotStep ==
  ASSUME TypeOK, TypeOK', SingleOwner, HoldsFuture, SlotInv, [Next]_vars
  PROVE  SlotInv'
<1> USE DEF TypeOK, ManagerTypeOK
<1>1. CASE UNCHANGED vars
  BY <1>1, SameSlots DEF Slots, vars, managerVars
<1>2. ASSUME NEW p \in Task, Step(p) PROVE SlotInv'
  <2>1. CASE MakeContext(p) \/ Take(p) \/ GetAsync(p) \/ DestroyLock(p) \/ DestroyErase(p)
    <3>1. UNCHANGED <<policy, status, thread_count>>
      BY <2>1 DEF MakeContext, make_context, Take, reconTake, GetAsync, reconGetAsync,
        managerVars, DestroyLock, destroyLock, DestroyErase, destroyErase, Abort
    <3> QED
      BY <3>1, SameSlots DEF Slots
  <2>2. CASE Sched(p)
    <3>1. PICK s \in Task, ty \in Type :
            /\ status[s] = "none"
            /\ (Abort /\ pc' = pc) \/ Scheduled(p, s, ty)
      BY <1>2, <2>2, SchedEffect DEF Step
    <3>2. CASE Abort \/ (Scheduled(p, s, ty) /\ thread_count >= max_threads)
      <4>1. thread_count' = thread_count
        BY <3>2 DEF Abort, Scheduled, LaunchPolicy
      <4>2. Slots' = Slots
        BY <3>1, <3>2 DEF Abort, Scheduled, LaunchPolicy, Slots
      <4> QED
        BY <4>1, <4>2, SameSlots
    <3>3. CASE Scheduled(p, s, ty) /\ ~(thread_count >= max_threads)
      <4>1. thread_count' = thread_count + 1
        BY <3>3 DEF Scheduled, LaunchPolicy
      <4>2. Slots' = Slots \cup {s} /\ s \notin Slots
        BY <3>1, <3>3 DEF Scheduled, LaunchPolicy, Slots
      <4>3. Cardinality(Slots') = Cardinality(Slots) + 1
        BY <4>2, SlotsFinite, FS_AddElement
      <4>4. max_threads \in Int /\ max_threads' = max_threads
        BY HardwareAssumption DEF max_threads
      <4> QED
        BY <3>3, <4>1, <4>3, <4>4 DEF SlotInv, SlotAccounting
    <3> QED
      BY <3>1, <3>2, <3>3
  <2>3. CASE RunDeferred(p) \/ ReturnDeferred(p)
    <3>1. /\ policy[fv[p]] = "deferred" /\ UNCHANGED <<policy, thread_count>>
          /\ \A t \in Task : t # fv[p] => status'[t] = status[t]
      BY <2>3 DEF RunDeferred, reconRunDeferred, ReturnDeferred, reconReturnDeferred
    <3>2. Slots' = Slots
      BY <3>1 DEF Slots
    <3> QED
      BY <3>1, <3>2, SameSlots
  <2>4. CASE Retire(p)
    <3>1. fv[p] \in Slots
      BY <2>4 DEF Retire, HoldsFuture, Slots
    <3>2. Slots' = Slots \ {fv[p]} /\ thread_count' = thread_count - 1
      BY <2>4, <3>1 DEF Retire, reconRetire, Slots
    <3>3. Cardinality(Slots') = Cardinality(Slots) - 1
      BY <3>1, <3>2, SlotsFinite, FS_RemoveElement
    <3>4. max_threads \in Int /\ max_threads' = max_threads
      BY HardwareAssumption DEF max_threads
    <3> QED
      BY <3>2, <3>3, <3>4 DEF SlotInv, SlotAccounting
  <2>5. CASE Finish(p)
    <3>1. Slots' = Slots /\ thread_count' = thread_count
      BY <2>5 DEF Finish, StatementReturns, Slots
    <3> QED
      BY <3>1, SameSlots
  <2> QED
    BY <1>2, <2>1, <2>2, <2>3, <2>4, <2>5 DEF Step
<1> QED
  BY <1>1, <1>2 DEF Next

LEMMA CoreInit == Init => SingleOwner /\ HoldsFuture /\ SlotInv
<1> SUFFICES ASSUME Init PROVE SingleOwner /\ HoldsFuture /\ SlotInv
  OBVIOUS
<1>1. SingleOwner
  BY DEF Init, ManagerInit, SingleOwner
<1>2. HoldsFuture
  BY DEF Init, HoldsFuture
<1>3. Slots = {}
  BY DEF Init, ManagerInit, Slots
<1>4. SlotInv
  BY <1>3, FS_EmptySet, HardwareAssumption
  DEF Init, ManagerInit, SlotInv, SlotAccounting, max_threads
<1> QED
  BY <1>1, <1>2, <1>4

LEMMA CoreInvariant == Spec => [](SingleOwner /\ HoldsFuture /\ SlotInv)
<1>1. TypeOK /\ TypeOK' /\ (SingleOwner /\ HoldsFuture /\ SlotInv) /\ [Next]_vars
        => (SingleOwner /\ HoldsFuture /\ SlotInv)'
  BY OwnerStep, SlotStep
<1> QED
  BY <1>1, CoreInit, TypeCorrect, PTL DEF Spec

(***************************************************************************)
(* Each future is in one context or in one recon call, for any number of   *)
(* callers: no statement is reconciled twice.                              *)
(***************************************************************************)
THEOREM FuturesHaveOneOwner == Spec => []SingleOwner
BY CoreInvariant, PTL

(***************************************************************************)
(* thread_count is the number of statements that were given a thread and   *)
(* whose recon has not completed.                                          *)
(***************************************************************************)
THEOREM SlotsCounted == Spec => []SlotAccounting
<1>1. SlotInv => SlotAccounting
  BY DEF SlotInv
<1> QED
  BY <1>1, CoreInvariant, PTL

(***************************************************************************)
(* The bound set_max_threads announces holds at every moment of every run, *)
(* for every machine and every program.                                    *)
(***************************************************************************)
THEOREM ThreadsBounded == Spec => []WorkersBounded
<1>1. SlotInv => WorkersBounded
  <2> SUFFICES ASSUME SlotInv PROVE WorkersBounded
    OBVIOUS
  <2>1. /\ Cardinality(Workers) \in Nat /\ Cardinality(Slots) \in Nat
        /\ Cardinality(Workers) <= Cardinality(Slots)
    BY SlotsFinite, FS_Subset, FS_CardinalityType
  <2> QED
    BY <2>1, HardwareAssumption DEF SlotInv, SlotAccounting, WorkersBounded, max_threads
<1> QED
  BY <1>1, CoreInvariant, PTL

=============================================================================

----------------------- MODULE ForkRuntimeGroupProofs -----------------------
(***************************************************************************)
(* What the groups of ForkRuntime guarantee, for every program, machine    *)
(* and set of result types: the manager never aborts, every recon call     *)
(* returns the value of its own statement, the frame of a running          *)
(* statement's parent exists and nothing is left when main returns.        *)
(***************************************************************************)
EXTENDS ForkRuntimeProofs, WellFoundedInduction, SequenceTheorems

InGroup(p) == pc[p] \in {"group", "get", "retire", "erasing"}

Waiting(p) == pc[p] \in {"get", "retire"}

\* How many statements of p's group have left the context.
Taken(p) == IF Waiting(p) THEN ri[p] + 1 ELSE ri[p]

(***************************************************************************)
(* Where a task is tells the state of its future, whether it holds the     *)
(* mutex and whether a recon call of it holds a future.                    *)
(***************************************************************************)
ControlInv ==
  /\ \A t \in Task :
       /\ pc[t] = "idle" <=> status[t] \in {"none", "deferred"}
       /\ pc[t] = "done" <=> status[t] \in {"ready", "joined"}
       /\ pc[t] = "erasing" <=> mutex = t
       /\ ~Waiting(t) => fv[t] = NoTask
  /\ policy[Main] = "none"

\* The counters of a group, and whose statements are in it.
GroupInv ==
  \A p \in Task :
    /\ Taken(p) <= Len(kids[p])
    /\ \A i \in 1 .. Len(kids[p]) : kids[p][i].task \in Children[p]
    /\ JoinsAll /\ pc[p] \notin {"group", "get", "retire"} => ri[p] = Len(kids[p])

\* The live contexts are those of the open groups, one each.
ContextInv ==
  /\ \A p \in Task : InGroup(p) => cid[p] \in context_map
  /\ \A p, q \in Task : InGroup(p) /\ InGroup(q) /\ cid[p] = cid[q] => p = q
  /\ \A c \in context_map : c < next_cid /\ \E p \in Task : InGroup(p) /\ cid[p] = c

\* f is the future of a statement of p's group that has not been reconciled.
StoredBy(p, f) ==
  /\ InGroup(p) /\ f.cid = cid[p]
  /\ f.id >= Taken(p) /\ f.id < Len(kids[p])
  /\ f.type = kids[p][f.id + 1].type
  /\ f.task = kids[p][f.id + 1].task

(***************************************************************************)
(* The futures stored are those of the statements not reconciled yet, each *)
(* under its place in the group.                                           *)
(***************************************************************************)
StoreInv ==
  /\ \A f \in future_id_map : \E p \in Task : StoredBy(p, f)
  /\ \A p \in Task : InGroup(p) =>
       \A i \in Taken(p) .. Len(kids[p]) - 1 :
         FuturesAt(cid[p], kids[p][i + 1].type, i) # {}

\* A deferred statement does not run while its future is stored.
DeferredInv ==
  \A f \in future_id_map : policy[f.task] = "async" \/ status[f.task] = "deferred"

\* Some context or some recon call holds the future of s.
Owned(s) == (\E f \in future_id_map : f.task = s) \/ (\E q \in Task : fv[q] = s)

(***************************************************************************)
(* A running statement can be waited for.  When every statement is         *)
(* reconciled, none is forgotten.                                          *)
(***************************************************************************)
OwnedInv ==
  \A s \in Task \ {Main} :
    status[s] = "running" \/ (JoinsAll /\ status[s] \in {"deferred", "ready"}) => Owned(s)

\* A statement's group is opened after the group it is itself in.
NestingInv ==
  \A p \in Task : \A s \in Children[p] :
    InGroup(p) /\ InGroup(s) => cid[p] < cid[s]

Inv ==
  /\ NoAbort /\ ReconOwn
  /\ ControlInv /\ GroupInv /\ ContextInv /\ StoreInv
  /\ DeferredInv /\ OwnedInv /\ NestingInv

-----------------------------------------------------------------------------

LEMMA InvInit == Init => Inv
<1> SUFFICES ASSUME Init PROVE Inv
  OBVIOUS
<1>1. /\ \A t \in Task : /\ kids[t] = << >> /\ ri[t] = 0 /\ fv[t] = NoTask
                         /\ pc[t] = IF t = Main THEN "body" ELSE "idle"
                         /\ status[t] = IF t = Main THEN "running" ELSE "none"
                         /\ policy[t] = "none"
      /\ mutex = NoTask /\ process = "alive" /\ context_map = {} /\ future_id_map = {}
  BY DEF Init, ManagerInit
<1>2. /\ NoAbort /\ ReconOwn /\ ContextInv /\ StoreInv
      /\ DeferredInv /\ OwnedInv /\ NestingInv
  BY <1>1, ProgramAssumption
  DEF NoAbort, ReconOwn, ContextInv, StoreInv, DeferredInv, OwnedInv, NestingInv, InGroup
<1>3. ControlInv
  BY <1>1, TaskAssumption, ProgramAssumption DEF ControlInv, Waiting
<1>4. GroupInv
  BY <1>1 DEF GroupInv, Taken, Waiting
<1> QED
  BY <1>2, <1>3, <1>4 DEF Inv

(***************************************************************************)
(* In a group the asserts hold and the at() calls find what they ask for.  *)
(***************************************************************************)
LEMMA SchedSucceeds ==
  ASSUME TypeOK, Inv, NEW p \in Task, Sched(p)
  PROVE  \E s \in Children[p], ty \in Type :
           /\ status[s] = "none" /\ mutex = NoTask
           /\ kids' = [kids EXCEPT ![p] = Append(@, [type |-> ty, task |-> s])]
           /\ Scheduled(p, s, ty)
<1> USE DEF TypeOK, ManagerTypeOK
<1>1. PICK s \in Fresh(p), ty \in Type :
        /\ sched(s, ty, Len(kids[p]), cid[p])
        /\ kids' = [kids EXCEPT ![p] = Append(@, [type |-> ty, task |-> s])]
        /\ Goto(s, IF LaunchPolicy = "async" THEN "body" ELSE "idle")
  BY Zenon DEF Sched
<1>2. InGroup(p)
  BY DEF Sched, InGroup
<1>3. cid[p] \in context_map
  BY <1>2 DEF Inv, ContextInv
<1>4. FuturesAt(cid[p], ty, Len(kids[p])) = {}
  <2> SUFFICES ASSUME NEW f \in future_id_map, f.cid = cid[p], f.id = Len(kids[p])
               PROVE  FALSE
    BY DEF FuturesAt
  <2>1. PICK q \in Task : StoredBy(q, f)
    BY DEF Inv, StoreInv
  <2>2. q = p
    BY <1>2, <2>1 DEF Inv, ContextInv, StoredBy
  <2> QED
    BY <2>1, <2>2 DEF StoredBy
<1>5. process = "alive"
  BY DEF Inv, NoAbort
<1>6. Scheduled(p, s, ty) /\ mutex = NoTask
  BY <1>1, <1>3, <1>4, <1>5 DEF sched, Launch, addFuture, Goto, Scheduled
<1> QED
  BY <1>1, <1>6 DEF Fresh

\* The first critical section of recon_*, when it does not throw.
TookOut(p, f) ==
  /\ mutex = NoTask
  /\ fv' = [fv EXCEPT ![p] = f.task]
  /\ future_id_map' = future_id_map \ {f}
  /\ pc' = [pc EXCEPT ![p] = "get"]
  /\ UNCHANGED <<context_map, thread_count, next_cid, mutex, policy, status, process,
                 cid, kids, ri>>

LEMMA TakeSucceeds ==
  ASSUME TypeOK, Inv, NEW p \in Task, Take(p)
  PROVE  \E f \in future_id_map : StoredBy(p, f) /\ f.id = ri[p] /\ TookOut(p, f)
<1> USE DEF TypeOK, ManagerTypeOK
<1>1. InGroup(p) /\ Taken(p) = ri[p] /\ ri[p] < Len(kids[p])
  BY DEF Take, InGroup, Taken, Waiting
<1>2. cid[p] \in context_map
  BY <1>1 DEF Inv, ContextInv
<1>3. FuturesAt(cid[p], kids[p][ri[p] + 1].type, ri[p]) # {}
  <2>1. ri[p] \in Taken(p) .. Len(kids[p]) - 1
    BY <1>1
  <2> QED
    BY <1>1, <2>1 DEF Inv, StoreInv
<1>4. process = "alive"
  BY DEF Inv, NoAbort
<1>5. PICK f \in future_id_map : f.cid = cid[p] /\ f.id = ri[p] /\ TookOut(p, f)
  BY <1>2, <1>3, <1>4 DEF Take, reconTake, FuturesAt, Goto, TookOut
<1>6. PICK q \in Task : StoredBy(q, f)
  BY DEF Inv, StoreInv
<1>7. q = p
  BY <1>1, <1>5, <1>6 DEF Inv, ContextInv, StoredBy
<1> QED
  BY <1>5, <1>6, <1>7

LEMMA DestroySucceeds ==
  ASSUME TypeOK, Inv, NEW p \in Task, DestroyLock(p)
  PROVE  /\ mutex = NoTask /\ mutex' = p
         /\ pc' = [pc EXCEPT ![p] = "erasing"]
         /\ UNCHANGED <<context_map, future_id_map, thread_count, next_cid, policy, status,
                        fv, process, cid, kids, ri>>
<1>1. cid[p] \in context_map
  BY DEF DestroyLock, Inv, ContextInv, InGroup
<1> QED
  BY <1>1 DEF DestroyLock, destroyLock, Goto, Inv, NoAbort

(***************************************************************************)
(* A future that exists is that of a statement of an open group of its     *)
(* parent.                                                                 *)
(***************************************************************************)
LEMMA PositionOfId ==
  ASSUME NEW i \in Nat, NEW n \in Nat, i < n
  PROVE  i + 1 \in 1 .. n
OBVIOUS

LEMMA NextIds ==
  ASSUME NEW r \in Nat, NEW n \in Nat, NEW i \in r + 1 .. n - 1
  PROVE  i \in r .. n - 1 /\ i # r
OBVIOUS

LEMMA GroupCounters ==
  ASSUME TypeOK, NEW p \in Task
  PROVE  Len(kids[p]) \in Nat /\ ri[p] \in Nat /\ cid[p] \in Nat
BY DEF TypeOK

LEMMA OwnerIsParent ==
  ASSUME TypeOK, HoldsFuture, Inv, NEW s \in Task, Owned(s)
  PROVE  \E p \in Task : InGroup(p) /\ s \in Children[p]
<1> USE DEF TypeOK, ManagerTypeOK
<1>1. CASE \E f \in future_id_map : f.task = s
  <2>1. PICK f \in future_id_map : f.task = s
    BY <1>1
  <2>2. PICK p \in Task : StoredBy(p, f)
    BY DEF Inv, StoreInv
  <2>3. f.id \in Nat
    BY DEF StoredFuture
  <2>4. f.id + 1 \in 1 .. Len(kids[p])
    <3>1. f.id < Len(kids[p]) /\ Len(kids[p]) \in Nat
      BY <2>2, GroupCounters DEF StoredBy
    <3> QED
      BY <2>3, <3>1, PositionOfId
  <2>5. kids[p][f.id + 1].task \in Children[p]
    BY <2>4 DEF Inv, GroupInv
  <2> QED
    BY <2>1, <2>2, <2>5 DEF StoredBy
<1>2. CASE \E q \in Task : fv[q] = s
  <2>1. PICK q \in Task : fv[q] = s
    BY <1>2
  <2>2. Waiting(q)
    BY <2>1, TaskAssumption DEF Inv, ControlInv
  <2>3. ri[q] + 1 \in 1 .. Len(kids[q])
    BY <2>2 DEF Inv, GroupInv, Taken
  <2>4. fv[q] = kids[q][ri[q] + 1].task /\ kids[q][ri[q] + 1].task \in Children[q]
    BY <2>2, <2>3 DEF Inv, GroupInv, ReconOwn, Waiting
  <2> QED
    BY <2>1, <2>2, <2>4 DEF Waiting, InGroup
<1> QED
  BY <1>1, <1>2 DEF Owned

LEMMA FramesLive ==
  ASSUME TypeOK, HoldsFuture, Inv
  PROVE  EnvAlive
<1> SUFFICES ASSUME NEW p \in Task, NEW s \in Children[p], pc[s] \notin {"idle", "done"}
             PROVE  InGroup(p)
  BY DEF EnvAlive, InGroup
<1>1. s \in Task /\ s # Main
  BY ProgramAssumption
<1>2. status[s] = "running"
  BY <1>1 DEF Inv, ControlInv, TypeOK, ManagerTypeOK, Status
<1>3. PICK q \in Task : InGroup(q) /\ s \in Children[q]
  BY <1>1, <1>2, OwnerIsParent DEF Inv, OwnedInv
<1>4. q = p
  BY <1>3, ProgramAssumption
<1> QED
  BY <1>3, <1>4

(***************************************************************************)
(* The steps preserve the invariant.                                       *)
(***************************************************************************)
LEMMA MakeContextStep ==
  ASSUME TypeOK, HoldsFuture, Inv, NEW p \in Task, MakeContext(p)
  PROVE  Inv'
<1> USE DEF TypeOK, ManagerTypeOK
<1>1. /\ pc[p] = "body" /\ pc' = [pc EXCEPT ![p] = "group"]
      /\ cid' = [cid EXCEPT ![p] = next_cid]
      /\ kids' = [kids EXCEPT ![p] = << >>] /\ ri' = [ri EXCEPT ![p] = 0]
      /\ next_cid' = next_cid + 1 /\ context_map' = context_map \cup {next_cid}
      /\ UNCHANGED <<future_id_map, mutex, policy, status, fv, process>>
  BY DEF MakeContext, make_context, Goto, Inv, NoAbort
<1>2. NoAbort' /\ ControlInv' /\ DeferredInv' /\ OwnedInv'
  BY <1>1, TaskAssumption
  DEF Inv, NoAbort, ControlInv, DeferredInv, OwnedInv, Waiting, Owned
<1>3. ReconOwn' /\ GroupInv'
  <2>1. ReconOwn'
    BY <1>1 DEF Inv, ReconOwn
  <2>2. ASSUME NEW q \in Task
        PROVE  /\ Taken(q)' <= Len(kids'[q])
               /\ \A i \in 1 .. Len(kids'[q]) : kids'[q][i].task \in Children[q]
               /\ JoinsAll /\ pc'[q] \notin {"group", "get", "retire"} =>
                    ri'[q] = Len(kids'[q])
    <3>1. CASE q = p
      BY <1>1, <3>1 DEF Taken, Waiting
    <3>2. CASE q # p
      BY <1>1, <3>2 DEF Inv, GroupInv, Taken, Waiting
    <3> QED
      BY <3>1, <3>2
  <2> QED
    BY <2>1, <2>2 DEF GroupInv
<1>4. ContextInv'
  <2>1. \A q \in Task : InGroup(q)' => cid'[q] \in context_map'
    BY <1>1 DEF Inv, ContextInv, InGroup
  <2>2. ASSUME NEW q \in Task, NEW r \in Task, InGroup(q)', InGroup(r)', cid'[q] = cid'[r]
        PROVE  q = r
    BY <1>1, <2>2 DEF Inv, ContextInv, InGroup
  <2>3. ASSUME NEW c \in context_map'
        PROVE  c < next_cid' /\ \E q \in Task : InGroup(q)' /\ cid'[q] = c
    <3>1. CASE c = next_cid
      BY <1>1, <3>1 DEF InGroup
    <3>2. CASE c \in context_map
      <4>1. c < next_cid /\ c \in Nat /\ \E q \in Task : InGroup(q) /\ cid[q] = c
        BY <3>2 DEF Inv, ContextInv
      <4> QED
        BY <1>1, <4>1 DEF InGroup
    <3> QED
      BY <1>1, <3>1, <3>2
  <2> QED
    BY <2>1, <2>2, <2>3 DEF ContextInv
<1>5. StoreInv'
  <2>1. ASSUME NEW f \in future_id_map PROVE \E q \in Task : StoredBy(q, f)'
    <3>1. PICK q \in Task : StoredBy(q, f)
      BY DEF Inv, StoreInv
    <3>2. q # p
      BY <1>1, <3>1 DEF StoredBy, InGroup
    <3> QED
      BY <1>1, <3>1, <3>2 DEF StoredBy, InGroup, Taken, Waiting
  <2>2. ASSUME NEW q \in Task, InGroup(q)', NEW i \in Taken(q)' .. Len(kids'[q]) - 1
        PROVE  FuturesAt(cid[q], kids[q][i + 1].type, i)' # {}
    <3>1. q # p
      BY <1>1, <2>2 DEF Taken, Waiting
    <3>2. InGroup(q) /\ i \in Taken(q) .. Len(kids[q]) - 1
      BY <1>1, <2>2, <3>1 DEF InGroup, Taken, Waiting
    <3>3. FuturesAt(cid[q], kids[q][i + 1].type, i) # {}
      BY <3>2 DEF Inv, StoreInv
    <3> QED
      BY <1>1, <3>1, <3>3 DEF FuturesAt
  <2> QED
    BY <1>1, <2>1, <2>2 DEF Inv, StoreInv
<1>6. NestingInv'
  <2> SUFFICES ASSUME NEW q \in Task, NEW s \in Children[q], InGroup(q)', InGroup(s)'
               PROVE  cid'[q] < cid'[s]
    BY DEF NestingInv
  <2>1. s \in Task
    BY ProgramAssumption
  <2>2. InGroup(s) => InGroup(q)
    BY <2>1, FramesLive DEF EnvAlive, InGroup
  <2>3. CASE s = p
    <3>1. q # p /\ InGroup(q)
      BY <1>1, <2>2, <2>3, ProgramAssumption, FramesLive DEF InGroup, EnvAlive
    <3>2. cid[q] \in context_map
      BY <3>1 DEF Inv, ContextInv
    <3> QED
      BY <1>1, <2>3, <3>1, <3>2 DEF Inv, ContextInv
  <2>4. CASE s # p
    BY <1>1, <2>1, <2>2, <2>4 DEF Inv, NestingInv, InGroup
  <2> QED
    BY <2>3, <2>4
<1> QED
  BY <1>2, <1>3, <1>4, <1>5, <1>6 DEF Inv

LEMMA SchedStep ==
  ASSUME TypeOK, SingleOwner, Inv, NEW p \in Task, Sched(p)
  PROVE  Inv'
<1> USE DEF TypeOK, ManagerTypeOK
<1>1. PICK s \in Children[p], ty \in Type :
        /\ status[s] = "none" /\ mutex = NoTask
        /\ kids' = [kids EXCEPT ![p] = Append(@, [type |-> ty, task |-> s])]
        /\ Scheduled(p, s, ty)
  BY SchedSucceeds
<1> DEFINE n == Len(kids[p])
<1>e. PICK f0 : f0 = [cid |-> cid[p], type |-> ty, id |-> n, task |-> s]
  OBVIOUS
<1>f. f0.cid = cid[p] /\ f0.type = ty /\ f0.id = n /\ f0.task = s
  BY <1>e
<1>2. /\ pc[p] = "group" /\ ri[p] = 0 /\ cid' = cid /\ ri' = ri
      /\ status' = [status EXCEPT ![s] = IF LaunchPolicy = "async"
                                         THEN "running" ELSE "deferred"]
      /\ policy' = [policy EXCEPT ![s] = LaunchPolicy]
      /\ pc' = [pc EXCEPT ![s] = IF LaunchPolicy = "async" THEN "body" ELSE "idle"]
      /\ future_id_map' = future_id_map \cup {f0}
      /\ UNCHANGED <<context_map, next_cid, mutex, fv, process>>
  BY <1>1, <1>e DEF Sched, Scheduled
<1>3. s \in Task /\ s # Main /\ pc[s] = "idle" /\ s # p
  BY <1>1, <1>2, ProgramAssumption DEF Inv, ControlInv
<1>4. LaunchPolicy \in {"async", "deferred"}
  BY DEF LaunchPolicy
<1>5. /\ n \in Nat /\ Len(kids'[p]) = n + 1
      /\ kids'[p][n + 1] = [type |-> ty, task |-> s]
      /\ \A i \in 1 .. n : kids'[p][i] = kids[p][i]
      /\ \A q \in Task : q # p => kids'[q] = kids[q]
  BY <1>1, <1>3
<1>7. \A t \in Task : /\ pc'[t] = "group" <=> pc[t] = "group"
                      /\ pc'[t] = "get" <=> pc[t] = "get"
                      /\ pc'[t] = "retire" <=> pc[t] = "retire"
                      /\ pc'[t] = "erasing" <=> pc[t] = "erasing"
  BY <1>2, <1>3
<1> HIDE DEF n
<1>8. NoAbort' /\ ControlInv'
  BY <1>2, <1>3, <1>4, <1>7 DEF Inv, NoAbort, ControlInv, Waiting
<1>9. ReconOwn' /\ GroupInv'
  <2>1. ASSUME NEW q \in Task, pc'[q] \in {"get", "retire"}
        PROVE  fv'[q] = kids'[q][ri'[q] + 1].task
    <3>1. q # p /\ pc[q] \in {"get", "retire"}
      BY <1>2, <1>7, <2>1
    <3> QED
      BY <1>2, <1>5, <3>1 DEF Inv, ReconOwn
  <2>2. ASSUME NEW q \in Task
        PROVE  /\ Taken(q)' <= Len(kids'[q])
               /\ \A i \in 1 .. Len(kids'[q]) : kids'[q][i].task \in Children[q]
               /\ JoinsAll /\ pc'[q] \notin {"group", "get", "retire"} =>
                    ri'[q] = Len(kids'[q])
    <3>1. CASE q = p
      <4>1. Taken(q)' <= Len(kids'[q]) /\ pc'[q] = "group"
        BY <1>2, <1>5, <1>7, <3>1 DEF Taken, Waiting
      <4>2. ASSUME NEW i \in 1 .. Len(kids'[q]) PROVE kids'[q][i].task \in Children[q]
        <5>1. i \in 1 .. n \/ i = n + 1
          BY <1>5, <3>1
        <5> QED
          BY <1>1, <1>5, <3>1, <5>1 DEF Inv, GroupInv, n
      <4> QED
        BY <4>1, <4>2
    <3>2. CASE q # p
      BY <1>2, <1>5, <1>7, <3>2 DEF Inv, GroupInv, Taken, Waiting
    <3> QED
      BY <3>1, <3>2
  <2> QED
    BY <2>1, <2>2 DEF ReconOwn, GroupInv
<1>10. ContextInv' /\ NestingInv'
  BY <1>2, <1>7, ProgramAssumption DEF Inv, ContextInv, NestingInv, InGroup
<1>11. StoreInv'
  <2>1. ASSUME NEW f \in future_id_map' PROVE \E q \in Task : StoredBy(q, f)'
    <3>1. CASE f = f0
      <4>1. f0.id >= Taken(p)' /\ f0.id < Len(kids'[p]) /\ InGroup(p)' /\ f0.cid = cid'[p]
        BY <1>2, <1>5, <1>f, <1>7 DEF InGroup, Taken, Waiting
      <4>2. StoredBy(p, f0)'
        BY <1>5, <1>f, <4>1 DEF StoredBy
      <4> QED
        BY <3>1, <4>2
    <3>2. CASE f \in future_id_map
      <4>1. PICK q \in Task : StoredBy(q, f)
        BY <3>2 DEF Inv, StoreInv
      <4>2. PICK k \in Nat : k = f.id /\ k + 1 \in 1 .. Len(kids[q]) /\ k < Len(kids[q])
        BY <3>2, <4>1, GroupCounters, PositionOfId DEF StoredBy, StoredFuture
      <4>3. kids'[q][k + 1] = kids[q][k + 1] /\ k < Len(kids'[q])
        <5>1. CASE q = p
          <6>1. k + 1 \in 1 .. n /\ k < n
            BY <4>2, <5>1 DEF n
          <6> QED
            BY <1>5, <5>1, <6>1
        <5>2. CASE q # p
          BY <1>5, <4>2, <5>2
        <5> QED
          BY <5>1, <5>2
      <4>4. Taken(q)' = Taken(q) /\ (InGroup(q)' <=> InGroup(q)) /\ cid'[q] = cid[q]
        BY <1>2, <1>7 DEF Taken, Waiting, InGroup
      <4>5. StoredBy(q, f)'
        BY <4>1, <4>2, <4>3, <4>4 DEF StoredBy
      <4> QED
        BY <4>5
    <3> QED
      BY <1>2, <3>1, <3>2
  <2>2. ASSUME NEW q \in Task, InGroup(q)', NEW i \in Taken(q)' .. Len(kids'[q]) - 1
        PROVE  FuturesAt(cid[q], kids[q][i + 1].type, i)' # {}
    <3>1. CASE q = p /\ i = n
      <4>1. f0 \in FuturesAt(cid[q], kids[q][i + 1].type, i)'
        BY <1>2, <1>5, <1>f, <3>1 DEF FuturesAt
      <4> QED
        BY <4>1
    <3>2. CASE ~(q = p /\ i = n)
      <4>1. InGroup(q) /\ Taken(q)' = Taken(q) /\ cid'[q] = cid[q] /\ Taken(q) \in Nat
        BY <1>2, <1>7, <2>2 DEF InGroup, Taken, Waiting
      <4>2. i \in Taken(q) .. Len(kids[q]) - 1
        BY <1>5, <3>2, <4>1 DEF n
      <4>3. kids'[q][i + 1] = kids[q][i + 1]
        <5>1. CASE q = p
          <6>1. i + 1 \in 1 .. n
            BY <1>5, <4>1, <4>2, <5>1 DEF n
          <6> QED
            BY <1>5, <5>1, <6>1
        <5>2. CASE q # p
          BY <1>5, <5>2
        <5> QED
          BY <5>1, <5>2
      <4>4. FuturesAt(cid[q], kids[q][i + 1].type, i) # {}
        BY <4>1, <4>2 DEF Inv, StoreInv
      <4> QED
        BY <1>2, <4>1, <4>3, <4>4 DEF FuturesAt
    <3> QED
      BY <3>1, <3>2
  <2> QED
    BY <2>1, <2>2 DEF StoreInv
<1>12. DeferredInv'
  <2> SUFFICES ASSUME NEW f \in future_id_map'
               PROVE  policy'[f.task] = "async" \/ status'[f.task] = "deferred"
    BY DEF DeferredInv
  <2>1. CASE f = f0
    BY <1>2, <1>3, <1>4, <1>f, <2>1
  <2>2. CASE f \in future_id_map
    <3>1. f.task \in Task /\ f.task # s
      BY <1>1, <2>2 DEF SingleOwner, StoredFuture
    <3> QED
      BY <1>2, <2>2, <3>1 DEF Inv, DeferredInv
  <2> QED
    BY <1>2, <2>1, <2>2
<1>13. OwnedInv'
  BY <1>2, <1>3, <1>f DEF Inv, OwnedInv, Owned
<1> QED
  BY <1>8, <1>9, <1>10, <1>11, <1>12, <1>13 DEF Inv

LEMMA TakeStep ==
  ASSUME TypeOK, SingleOwner, Inv, NEW p \in Task, Take(p)
  PROVE  Inv'
<1> USE DEF TypeOK, ManagerTypeOK
<1>1. PICK f \in future_id_map : StoredBy(p, f) /\ f.id = ri[p] /\ TookOut(p, f)
  BY TakeSucceeds
<1>2. /\ pc[p] = "group" /\ ri[p] < Len(kids[p])
      /\ pc' = [pc EXCEPT ![p] = "get"] /\ fv' = [fv EXCEPT ![p] = f.task]
      /\ future_id_map' = future_id_map \ {f}
      /\ f.cid = cid[p] /\ f.task = kids[p][ri[p] + 1].task /\ f.task \in Task
      /\ UNCHANGED <<context_map, next_cid, mutex, policy, status, process, cid, kids, ri>>
  BY <1>1 DEF Take, TookOut, StoredBy, StoredFuture
<1>3. \A q \in Task : InGroup(q)' <=> InGroup(q)
  BY <1>2 DEF InGroup
<1>4. NoAbort' /\ ControlInv'
  BY <1>2 DEF Inv, NoAbort, ControlInv, Waiting
<1>5. ReconOwn' /\ GroupInv'
  <2>1. ReconOwn'
    BY <1>2 DEF Inv, ReconOwn
  <2>2. ASSUME NEW q \in Task PROVE Taken(q)' <= Len(kids'[q])
    <3>1. CASE q = p
      BY <1>2, <3>1, GroupCounters DEF Taken, Waiting
    <3>2. CASE q # p
      BY <1>2, <3>2 DEF Inv, GroupInv, Taken, Waiting
    <3> QED
      BY <3>1, <3>2
  <2> QED
    BY <1>2, <2>1, <2>2 DEF Inv, GroupInv
<1>6. ContextInv' /\ NestingInv'
  BY <1>2, <1>3, ProgramAssumption DEF Inv, ContextInv, NestingInv
<1>7. StoreInv'
  <2>1. ASSUME NEW g \in future_id_map' PROVE \E q \in Task : StoredBy(q, g)'
    <3>1. PICK q \in Task : StoredBy(q, g)
      BY <1>2 DEF Inv, StoreInv
    <3>2. g.id >= Taken(q)'
      <4>1. CASE q = p
        <5>1. PICK k \in Nat : k = g.id /\ k >= ri[p]
          BY <1>2, <3>1, <4>1 DEF StoredBy, StoredFuture, Taken, Waiting
        <5>2. k # ri[p]
          BY <1>2, <3>1, <4>1, <5>1 DEF StoredBy, SingleOwner
        <5>3. k >= ri[p] + 1
          BY <5>1, <5>2, GroupCounters
        <5> QED
          BY <1>2, <4>1, <5>1, <5>3 DEF Taken, Waiting
      <4>2. CASE q # p
        BY <1>2, <3>1, <4>2 DEF StoredBy, Taken, Waiting
      <4> QED
        BY <4>1, <4>2
    <3> QED
      BY <1>2, <1>3, <3>1, <3>2 DEF StoredBy
  <2>2. ASSUME NEW q \in Task, InGroup(q)', NEW i \in Taken(q)' .. Len(kids'[q]) - 1
        PROVE  FuturesAt(cid[q], kids[q][i + 1].type, i)' # {}
    <3>1. InGroup(q) /\ i \in Taken(q) .. Len(kids[q]) - 1 /\ (q = p => i # ri[p])
      <4>1. CASE q = p
        <5>1. Taken(q) = ri[p] /\ Taken(q)' = ri[p] + 1 /\ kids'[q] = kids[q]
          BY <1>2, <4>1 DEF Taken, Waiting
        <5>2. ri[p] \in Nat /\ Len(kids[q]) \in Nat
          BY GroupCounters
        <5>3. i \in ri[p] + 1 .. Len(kids[q]) - 1
          BY <5>1
        <5>4. i \in ri[p] .. Len(kids[q]) - 1 /\ i # ri[p]
          BY <5>2, <5>3, NextIds
        <5>5. InGroup(q)
          BY <1>3, <2>2
        <5> QED
          BY <5>1, <5>4, <5>5
      <4>2. CASE q # p
        BY <1>2, <1>3, <2>2, <4>2 DEF Taken, Waiting
      <4> QED
        BY <4>1, <4>2
    <3>2. PICK g \in future_id_map :
            g.cid = cid[q] /\ g.type = kids[q][i + 1].type /\ g.id = i
      BY <3>1 DEF Inv, StoreInv, FuturesAt
    <3>3. g # f
      <4>1. CASE q = p
        BY <1>1, <3>1, <3>2, <4>1
      <4>2. CASE q # p
        <5>1. InGroup(p) /\ cid[p] # cid[q]
          BY <1>2, <3>1, <4>2 DEF Inv, ContextInv, InGroup
        <5> QED
          BY <1>2, <3>2, <5>1
      <4> QED
        BY <4>1, <4>2
    <3> QED
      BY <1>2, <3>2, <3>3 DEF FuturesAt
  <2> QED
    BY <2>1, <2>2 DEF StoreInv
<1>8. DeferredInv'
  BY <1>2 DEF Inv, DeferredInv
<1>9. OwnedInv'
  <2>1. fv[p] = NoTask
    BY <1>2 DEF Inv, ControlInv, Waiting
  <2>2. ASSUME NEW s \in Task, Owned(s) PROVE Owned(s)'
    BY <1>2, <2>1, <2>2, TaskAssumption DEF Owned
  <2> QED
    BY <1>2, <2>2 DEF Inv, OwnedInv
<1> QED
  BY <1>4, <1>5, <1>6, <1>7, <1>8, <1>9 DEF Inv

(***************************************************************************)
(* A step that opens, closes, fills or empties no group.                   *)
(***************************************************************************)
LEMMA SameGroups ==
  ASSUME TypeOK, Inv,
         UNCHANGED <<cid, kids, context_map, next_cid, future_id_map>>,
         \A t \in Task : (InGroup(t)' <=> InGroup(t)) /\ Taken(t)' = Taken(t)
  PROVE  ContextInv' /\ StoreInv' /\ NestingInv'
<1>1. ContextInv' /\ NestingInv'
  BY ProgramAssumption DEF Inv, ContextInv, NestingInv
<1>2. StoreInv'
  BY DEF Inv, StoreInv, StoredBy, FuturesAt
<1> QED
  BY <1>1, <1>2

LEMMA RunDeferredStep ==
  ASSUME TypeOK, SingleOwner, HoldsFuture, Inv, NEW p \in Task, RunDeferred(p)
  PROVE  Inv'
<1> USE DEF TypeOK, ManagerTypeOK
<1>1. /\ pc[p] = "get" /\ fv[p] \in Task /\ status[fv[p]] = "deferred" /\ pc[fv[p]] = "idle"
      /\ pc' = [pc EXCEPT ![fv[p]] = "body"]
      /\ status' = [status EXCEPT ![fv[p]] = "running"]
      /\ UNCHANGED <<context_map, future_id_map, next_cid, mutex, policy, fv, process,
                     cid, kids, ri>>
  BY DEF RunDeferred, reconRunDeferred, Goto, Inv, NoAbort, HoldsFuture, ControlInv
<1>2. \A t \in Task : (InGroup(t)' <=> InGroup(t)) /\ Taken(t)' = Taken(t)
  BY <1>1 DEF InGroup, Taken, Waiting
<1>3. NoAbort' /\ ControlInv'
  BY <1>1 DEF Inv, NoAbort, ControlInv, Waiting
<1>4. ReconOwn' /\ GroupInv'
  BY <1>1, <1>2 DEF Inv, ReconOwn, GroupInv
<1>5. ContextInv' /\ StoreInv' /\ NestingInv'
  BY <1>1, <1>2, SameGroups
<1>6. DeferredInv'
  BY <1>1 DEF Inv, DeferredInv, SingleOwner, StoredFuture
<1>7. OwnedInv'
  BY <1>1 DEF Inv, OwnedInv, Owned
<1> QED
  BY <1>3, <1>4, <1>5, <1>6, <1>7 DEF Inv

\* A recon call returns: ReturnDeferred and Retire differ only in thread_count.
LEMMA ReconReturnStep ==
  ASSUME TypeOK, SingleOwner, HoldsFuture, Inv, NEW p \in Task,
         ReturnDeferred(p) \/ Retire(p)
  PROVE  Inv'
<1> USE DEF TypeOK, ManagerTypeOK
<1>1. /\ pc[p] \in {"get", "retire"} /\ fv[p] \in Task /\ status[fv[p]] = "ready"
      /\ pc' = [pc EXCEPT ![p] = "group"] /\ ri' = [ri EXCEPT ![p] = @ + 1]
      /\ status' = [status EXCEPT ![fv[p]] = "joined"]
      /\ fv' = [fv EXCEPT ![p] = NoTask]
      /\ UNCHANGED <<context_map, future_id_map, next_cid, mutex, policy, process,
                     cid, kids>>
  BY DEF ReturnDeferred, reconReturnDeferred, Retire, reconRetire, Goto, Inv, NoAbort,
    HoldsFuture
<1>2. \A t \in Task : (InGroup(t)' <=> InGroup(t)) /\ Taken(t)' = Taken(t)
  BY <1>1 DEF InGroup, Taken, Waiting
<1>3. NoAbort' /\ ControlInv'
  BY <1>1 DEF Inv, NoAbort, ControlInv, Waiting
<1>4. ReconOwn' /\ GroupInv'
  BY <1>1, <1>2 DEF Inv, ReconOwn, GroupInv
<1>5. ContextInv' /\ StoreInv' /\ NestingInv'
  BY <1>1, <1>2, SameGroups
<1>6. DeferredInv'
  BY <1>1 DEF Inv, DeferredInv, SingleOwner, StoredFuture
<1>7. OwnedInv'
  BY <1>1 DEF Inv, OwnedInv, Owned
<1> QED
  BY <1>3, <1>4, <1>5, <1>6, <1>7 DEF Inv

LEMMA GetAsyncStep ==
  ASSUME TypeOK, Inv, NEW p \in Task, GetAsync(p)
  PROVE  Inv'
<1> USE DEF TypeOK, ManagerTypeOK
<1>1. /\ pc[p] = "get" /\ pc' = [pc EXCEPT ![p] = "retire"]
      /\ UNCHANGED <<context_map, future_id_map, next_cid, mutex, policy, status, fv, process,
                     cid, kids, ri>>
  BY DEF GetAsync, reconGetAsync, managerVars, Goto, Inv, NoAbort
<1>2. \A t \in Task : (InGroup(t)' <=> InGroup(t)) /\ Taken(t)' = Taken(t)
  BY <1>1 DEF InGroup, Taken, Waiting
<1>3. NoAbort' /\ ControlInv'
  BY <1>1 DEF Inv, NoAbort, ControlInv, Waiting
<1>4. ReconOwn' /\ GroupInv'
  BY <1>1, <1>2 DEF Inv, ReconOwn, GroupInv
<1>5. ContextInv' /\ StoreInv' /\ NestingInv'
  BY <1>1, <1>2, SameGroups
<1>6. DeferredInv' /\ OwnedInv'
  BY <1>1 DEF Inv, DeferredInv, OwnedInv, Owned
<1> QED
  BY <1>3, <1>4, <1>5, <1>6 DEF Inv

LEMMA DestroyLockStep ==
  ASSUME TypeOK, Inv, NEW p \in Task, DestroyLock(p)
  PROVE  Inv'
<1> USE DEF TypeOK, ManagerTypeOK
<1>1. /\ pc[p] = "group" /\ (JoinsAll => ri[p] = Len(kids[p]))
      /\ mutex = NoTask /\ mutex' = p
      /\ pc' = [pc EXCEPT ![p] = "erasing"]
      /\ UNCHANGED <<context_map, future_id_map, next_cid, policy, status, fv, process,
                     cid, kids, ri>>
  BY DestroySucceeds DEF DestroyLock
<1>2. \A t \in Task : (InGroup(t)' <=> InGroup(t)) /\ Taken(t)' = Taken(t)
  BY <1>1 DEF InGroup, Taken, Waiting
<1>3. NoAbort' /\ ControlInv'
  BY <1>1, TaskAssumption DEF Inv, NoAbort, ControlInv, Waiting
<1>4. ReconOwn' /\ GroupInv'
  BY <1>1, <1>2 DEF Inv, ReconOwn, GroupInv
<1>5. ContextInv' /\ StoreInv' /\ NestingInv'
  BY <1>1, <1>2, SameGroups
<1>6. DeferredInv' /\ OwnedInv'
  BY <1>1 DEF Inv, DeferredInv, OwnedInv, Owned
<1> QED
  BY <1>3, <1>4, <1>5, <1>6 DEF Inv

LEMMA FinishStep ==
  ASSUME TypeOK, SingleOwner, Inv, NEW p \in Task, Finish(p)
  PROVE  Inv'
<1> USE DEF TypeOK, ManagerTypeOK
<1>1. /\ pc[p] = "body" /\ status[p] = "running"
      /\ pc' = [pc EXCEPT ![p] = "done"]
      /\ status' = [status EXCEPT ![p] = "ready"]
      /\ UNCHANGED <<context_map, future_id_map, next_cid, mutex, policy, fv, process,
                     cid, kids, ri>>
  BY DEF Finish, StatementReturns, Goto, Inv, NoAbort
<1>2. \A t \in Task : (InGroup(t)' <=> InGroup(t)) /\ Taken(t)' = Taken(t)
  BY <1>1 DEF InGroup, Taken, Waiting
<1>3. NoAbort' /\ ControlInv'
  BY <1>1 DEF Inv, NoAbort, ControlInv, Waiting
<1>4. ReconOwn' /\ GroupInv'
  BY <1>1, <1>2 DEF Inv, ReconOwn, GroupInv
<1>5. ContextInv' /\ StoreInv' /\ NestingInv'
  BY <1>1, <1>2, SameGroups
<1>6. DeferredInv'
  BY <1>1 DEF Inv, DeferredInv, StoredFuture
<1>7. OwnedInv'
  BY <1>1 DEF Inv, OwnedInv, Owned
<1> QED
  BY <1>3, <1>4, <1>5, <1>6, <1>7 DEF Inv

LEMMA DestroyEraseStep ==
  ASSUME TypeOK, SingleOwner, Inv, NEW p \in Task, DestroyErase(p)
  PROVE  Inv'
<1> USE DEF TypeOK, ManagerTypeOK
<1>1. /\ pc[p] = "erasing" /\ mutex = p /\ mutex' = NoTask
      /\ \A f \in future_id_map : f.cid = cid[p] /\ policy[f.task] = "async"
                                    => status[f.task] = "ready"
      /\ pc' = [pc EXCEPT ![p] = "body"]
      /\ context_map' = context_map \ {cid[p]}
      /\ future_id_map' = {f \in future_id_map : f.cid # cid[p]}
      /\ UNCHANGED <<next_cid, policy, status, fv, process, cid, kids, ri>>
  BY DEF DestroyErase, destroyErase, FuturesOf, Goto, Inv, NoAbort
<1>2. /\ InGroup(p) /\ ~InGroup(p)'
      /\ \A t \in Task : Taken(t)' = Taken(t) /\ (t # p => (InGroup(t)' <=> InGroup(t)))
  BY <1>1 DEF InGroup, Taken, Waiting
<1>3. \A t \in Task \ {p} : InGroup(t) => cid[t] # cid[p]
  BY <1>2 DEF Inv, ContextInv
<1>4. NoAbort' /\ ControlInv'
  BY <1>1, TaskAssumption DEF Inv, NoAbort, ControlInv, Waiting
<1>5. ReconOwn' /\ GroupInv'
  BY <1>1, <1>2 DEF Inv, ReconOwn, GroupInv
<1>6. ContextInv' /\ NestingInv'
  BY <1>1, <1>2, <1>3, ProgramAssumption DEF Inv, ContextInv, NestingInv
<1>7. StoreInv'
  <2>1. ASSUME NEW f \in future_id_map' PROVE \E q \in Task : StoredBy(q, f)'
    BY <1>1, <1>2 DEF Inv, StoreInv, StoredBy
  <2>2. ASSUME NEW q \in Task, InGroup(q)', NEW i \in Taken(q)' .. Len(kids'[q]) - 1
        PROVE  FuturesAt(cid[q], kids[q][i + 1].type, i)' # {}
    <3>1. q # p /\ InGroup(q) /\ Taken(q)' = Taken(q) /\ kids' = kids /\ cid' = cid
      BY <1>1, <1>2, <2>2
    <3>2. FuturesAt(cid[q], kids[q][i + 1].type, i) # {}
      BY <3>1 DEF Inv, StoreInv
    <3>3. cid[q] # cid[p]
      BY <1>3, <3>1
    <3> QED
      BY <1>1, <3>1, <3>2, <3>3 DEF FuturesAt
  <2> QED
    BY <2>1, <2>2 DEF StoreInv
<1>8. DeferredInv'
  BY <1>1 DEF Inv, DeferredInv
<1>9. OwnedInv'
  <2> SUFFICES ASSUME NEW s \in Task \ {Main},
                      \/ status[s] = "running"
                      \/ JoinsAll /\ status[s] \in {"deferred", "ready"}
               PROVE  Owned(s)'
    BY <1>1 DEF OwnedInv
  <2>1. Owned(s)
    BY DEF Inv, OwnedInv
  <2>2. ASSUME NEW f \in future_id_map, f.task = s PROVE f.cid # cid[p]
    <3> SUFFICES ASSUME f.cid = cid[p] PROVE FALSE
      OBVIOUS
    <3>1. CASE status[s] = "running"
      BY <1>1, <2>2, <3>1 DEF Inv, DeferredInv
    <3>2. CASE JoinsAll
      <4>1. StoredBy(p, f)
        BY <1>3 DEF Inv, StoreInv, StoredBy
      <4>2. Taken(p) = Len(kids[p])
        BY <1>1, <3>2 DEF Inv, GroupInv, Taken, Waiting
      <4>3. f.id \in Nat
        BY DEF StoredFuture
      <4> QED
        BY <4>1, <4>2, <4>3, GroupCounters DEF StoredBy
    <3> QED
      BY <3>1, <3>2
  <2> QED
    BY <1>1, <2>1, <2>2 DEF Owned
<1> QED
  BY <1>4, <1>5, <1>6, <1>7, <1>8, <1>9 DEF Inv

LEMMA InvStep ==
  ASSUME TypeOK, SingleOwner, HoldsFuture, Inv, [Next]_vars
  PROVE  Inv'
<1>1. CASE UNCHANGED vars
  BY <1>1 DEF vars, managerVars, clientVars, Inv, NoAbort, ReconOwn, ControlInv, GroupInv,
    ContextInv, StoreInv, DeferredInv, OwnedInv, NestingInv, InGroup, Waiting, Taken,
    StoredBy, FuturesAt, Owned
<1>2. ASSUME NEW p \in Task, Step(p) PROVE Inv'
  BY <1>2, MakeContextStep, SchedStep, TakeStep, RunDeferredStep, ReconReturnStep,
    GetAsyncStep, DestroyLockStep, DestroyEraseStep, FinishStep DEF Step
<1> QED
  BY <1>1, <1>2 DEF Next

(***************************************************************************)
(* The state of the groups and the state of the manager agree in every     *)
(* reachable state.                                                        *)
(***************************************************************************)
LEMMA GroupInvariant == Spec => []Inv
<1>1. TypeOK /\ (SingleOwner /\ HoldsFuture /\ SlotInv) /\ Inv /\ [Next]_vars => Inv'
  BY InvStep
<1> QED
  BY <1>1, InvInit, TypeCorrect, CoreInvariant, PTL DEF Spec

(***************************************************************************)
(* No assert of the manager fails and no at() throws, whatever the program *)
(* forks and however its tasks interleave; also when contexts are          *)
(* destroyed before all their statements are reconciled.                   *)
(***************************************************************************)
THEOREM ManagerNeverAborts == Spec => []NoAbort
<1>1. Inv => NoAbort
  BY DEF Inv
<1> QED
  BY <1>1, GroupInvariant, PTL

(***************************************************************************)
(* Every recon call returns the value of the statement that was scheduled  *)
(* at its place of the group.                                              *)
(***************************************************************************)
THEOREM ReconReturnsOwn == Spec => []ReconOwn
<1>1. Inv => ReconOwn
  BY DEF Inv
<1> QED
  BY <1>1, GroupInvariant, PTL

(***************************************************************************)
(* While a statement executes, the frame its env structure points into     *)
(* exists.                                                                 *)
(***************************************************************************)
THEOREM FramesOutliveStatements == Spec => []EnvAlive
<1>1. TypeOK /\ (SingleOwner /\ HoldsFuture /\ SlotInv) /\ Inv => EnvAlive
  BY FramesLive
<1> QED
  BY <1>1, GroupInvariant, TypeCorrect, CoreInvariant, PTL

-----------------------------------------------------------------------------

(***************************************************************************)
(* When any group is open, main's is: the group with the smallest context  *)
(* id is in no other group.                                                *)
(***************************************************************************)
LEMMA MainIsOutermost ==
  ASSUME TypeOK, HoldsFuture, Inv, NEW p \in Task, InGroup(p)
  PROVE  InGroup(Main)
<1>1. cid[p] \in context_map /\ context_map \subseteq Nat
  BY DEF Inv, ContextInv, TypeOK, ManagerTypeOK
<1>2. PICK c \in context_map : \A d \in context_map : ~(<<d, c>> \in OpToRel(<, Nat))
  BY <1>1, NatLessThanWellFounded, WFMin, Zenon
<1>3. \A d \in context_map : ~(d < c)
  BY <1>1, <1>2 DEF OpToRel
<1>4. PICK q \in Task : InGroup(q) /\ cid[q] = c
  BY DEF Inv, ContextInv
<1>5. CASE q = Main
  BY <1>4, <1>5
<1>6. CASE q # Main
  <2>1. status[q] = "running"
    BY <1>4 DEF Inv, ControlInv, InGroup, TypeOK, ManagerTypeOK, Status
  <2>2. PICK r \in Task : InGroup(r) /\ q \in Children[r]
    BY <1>6, <2>1, OwnerIsParent DEF Inv, OwnedInv
  <2>3. cid[r] < cid[q] /\ cid[r] \in context_map
    BY <1>4, <2>2 DEF Inv, NestingInv, ContextInv
  <2> QED
    BY <1>3, <1>4, <2>3
<1> QED
  BY <1>5, <1>6

(***************************************************************************)
(* If every statement is reconciled before its context is destroyed, main  *)
(* returns with no statement running, no thread slot taken, no context and *)
(* no future stored, and the mutex free.                                   *)
(***************************************************************************)
THEOREM NothingLeftAtExit ==
  ASSUME JoinsAll
  PROVE  Spec => []QuiescentExit
<1>1. ASSUME TypeOK, HoldsFuture, SlotInv, Inv PROVE QuiescentExit
  <2> SUFFICES ASSUME pc[Main] = "done"
               PROVE  /\ \A t \in Task \ {Main} : status[t] \in {"none", "joined"}
                      /\ thread_count = 0
                      /\ context_map = {} /\ future_id_map = {} /\ mutex = NoTask
    BY DEF QuiescentExit
  <2>1. \A p \in Task : ~InGroup(p)
    BY <1>1, MainIsOutermost DEF InGroup
  <2>2. context_map = {} /\ future_id_map = {} /\ mutex = NoTask
    BY <1>1, <2>1 DEF Inv, ContextInv, StoreInv, StoredBy, ControlInv, InGroup, TypeOK,
      ManagerTypeOK
  <2>3. \A t \in Task : ~Owned(t)
    BY <1>1, <2>1, OwnerIsParent
  <2>4. \A t \in Task \ {Main} : status[t] \in {"none", "joined"}
    BY <1>1, <2>3 DEF Inv, OwnedInv, TypeOK, ManagerTypeOK, Status
  <2>5. Slots = {}
    BY <1>1, <2>4 DEF Slots, Inv, ControlInv
  <2>6. thread_count = 0
    BY <1>1, <2>5, FS_EmptySet DEF SlotInv, SlotAccounting
  <2> QED
    BY <2>2, <2>4, <2>6
<1>2. TypeOK /\ (SingleOwner /\ HoldsFuture /\ SlotInv) /\ Inv => QuiescentExit
  BY <1>1
<1> QED
  BY <1>2, GroupInvariant, TypeCorrect, CoreInvariant, PTL

=============================================================================

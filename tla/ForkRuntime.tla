---------------------------- MODULE ForkRuntime ----------------------------
(***************************************************************************)
(* Fork programs running on the manager of module ParContextManager.       *)
(*                                                                         *)
(* visitBlock (codeGenVisitor.cpp) compiles a group of parallel statements *)
(* to the calls                                                            *)
(*                                                                         *)
(*   cid = __make_context()                                                *)
(*   __fork_sched_<type>(f, e, 0, cid) ... __fork_sched_<type>(f, e, n, cid) *)
(*   __recon_<type>(..., 0, n, cid)    ... __recon_<type>(..., n, n, cid)  *)
(*   __destroy_context(cid)                                                *)
(*                                                                         *)
(* that lib.cpp forwards to the one manager.  Every running task may       *)
(* execute such groups, one after the other, between its own work.  The    *)
(* program text is the constant Children: the statements a task may fork.  *)
(* With Callers = {Main} this is what the compiler emits today; with more  *)
(* callers it is the contract of parContextManager.h, "All methods can be  *)
(* safely called from any thread and in parallel".                         *)
(***************************************************************************)
EXTENDS ParContextManager, Sequences

CONSTANTS
  Main,        \* the task that runs the compiled main function
  Children,    \* the statements of each task's groups
  JoinsAll     \* every statement is reconciled before its context is destroyed

ASSUME ProgramAssumption ==
  /\ Main \in Task
  /\ Children \in [Task -> SUBSET Task]
  /\ \A p \in Task : Main \notin Children[p]
  /\ \A p, q \in Task : p # q => Children[p] \cap Children[q] = {}
  /\ JoinsAll \in BOOLEAN

VARIABLES
  pc,      \* where a task is
  cid,     \* the local variable cid: the context of the open group
  kids,    \* statements scheduled in the group so far; the id is the position - 1
  ri       \* how many of them have been reconciled

clientVars == <<pc, cid, kids, ri>>

vars == <<managerVars, clientVars>>

PC == {"idle",      \* not started
       "body",      \* executing inline code
       "group",     \* a group is open, between two calls
       "get",       \* in recon_*, the future moved out: wait_for and get()
       "retire",    \* in recon_*, before its second critical section
       "erasing",   \* in destroy_context, mutex held
       "done"}      \* returned

Init ==
  /\ ManagerInit({Main})
  /\ pc = [t \in Task |-> IF t = Main THEN "body" ELSE "idle"]
  /\ cid = [t \in Task |-> 0]
  /\ kids = [t \in Task |-> << >>]
  /\ ri = [t \in Task |-> 0]

\* The statements of p that have not been scheduled yet.
Fresh(p) == {s \in Children[p] : status[s] = "none"}

\* A call that fails does not return.
Goto(p, l) == pc' = IF process' = "aborted" THEN pc ELSE [pc EXCEPT ![p] = l]

-----------------------------------------------------------------------------

\* int cid = __make_context();
MakeContext(p) ==
  /\ pc[p] = "body"
  /\ Fresh(p) # {}
  /\ make_context
  /\ cid' = [cid EXCEPT ![p] = next_cid]
  /\ kids' = [kids EXCEPT ![p] = << >>]
  /\ ri' = [ri EXCEPT ![p] = 0]
  /\ Goto(p, "group")

\* __fork_sched_<ty>(lambda, &e0, currId++, cid);
Sched(p) ==
  /\ pc[p] = "group"
  /\ ri[p] = 0
  /\ \E s \in Fresh(p), ty \in Type :
       /\ sched(s, ty, Len(kids[p]), cid[p])
       /\ kids' = [kids EXCEPT ![p] = Append(@, [type |-> ty, task |-> s])]
       /\ Goto(s, IF LaunchPolicy = "async" THEN "body" ELSE "idle")
  /\ UNCHANGED <<cid, ri>>

\* __recon_<ty>(..., id, max, cid), up to the first mutex.unlock().
Take(p) ==
  /\ pc[p] = "group"
  /\ ri[p] < Len(kids[p])
  /\ reconTake(p, kids[p][ri[p] + 1].type, ri[p], cid[p])
  /\ Goto(p, "get")
  /\ UNCHANGED <<cid, kids, ri>>

RunDeferred(p) ==
  /\ pc[p] = "get"
  /\ reconRunDeferred(p)
  /\ Goto(fv[p], "body")
  /\ UNCHANGED <<cid, kids, ri>>

ReturnDeferred(p) ==
  /\ pc[p] = "get"
  /\ reconReturnDeferred(p)
  /\ ri' = [ri EXCEPT ![p] = @ + 1]
  /\ Goto(p, "group")
  /\ UNCHANGED <<cid, kids>>

GetAsync(p) ==
  /\ pc[p] = "get"
  /\ reconGetAsync(p)
  /\ Goto(p, "retire")
  /\ UNCHANGED <<cid, kids, ri>>

Retire(p) ==
  /\ pc[p] = "retire"
  /\ reconRetire(p)
  /\ ri' = [ri EXCEPT ![p] = @ + 1]
  /\ Goto(p, "group")
  /\ UNCHANGED <<cid, kids>>

\* __destroy_context(cid); a group is never empty.
DestroyLockEarly(p) ==
  /\ pc[p] = "group"
  /\ kids[p] # << >>
  /\ destroyLock(p, cid[p])
  /\ Goto(p, "erasing")
  /\ UNCHANGED <<cid, kids, ri>>

DestroyLock(p) ==
  /\ pc[p] = "group"
  /\ kids[p] # << >>
  /\ JoinsAll => ri[p] = Len(kids[p])
  /\ destroyLock(p, cid[p])
  /\ Goto(p, "erasing")
  /\ UNCHANGED <<cid, kids, ri>>

DestroyErase(p) ==
  /\ pc[p] = "erasing"
  /\ destroyErase(p, cid[p])
  /\ Goto(p, "body")
  /\ UNCHANGED <<cid, kids, ri>>

\* The task returns; its inline code has run to the end.
Finish(p) ==
  /\ pc[p] = "body"
  /\ StatementReturns(p)
  /\ Goto(p, "done")
  /\ UNCHANGED <<cid, kids, ri>>

Step(p) ==
  /\ process = "alive"
  /\ \/ MakeContext(p) \/ Sched(p) \/ Take(p)
     \/ RunDeferred(p) \/ ReturnDeferred(p) \/ GetAsync(p) \/ Retire(p)
     \/ DestroyLock(p) \/ DestroyErase(p) \/ Finish(p)

Next == \E p \in Task : Step(p)

(***************************************************************************)
(* Every thread that can run is eventually run, which std::async and the   *)
(* operating system provide; inline code and statements are assumed to     *)
(* terminate.  std::mutex is not fair: weak fairness is all there is.      *)
(***************************************************************************)
Fairness == \A p \in Task : WF_vars(Step(p))

Spec == Init /\ [][Next]_vars

FairSpec == Spec /\ Fairness

-----------------------------------------------------------------------------

TypeOK ==
  /\ ManagerTypeOK
  /\ pc \in [Task -> PC]
  /\ cid \in [Task -> Nat]
  /\ kids \in [Task -> Seq([type : Type, task : Task])]
  /\ ri \in [Task -> Nat]

\* A task inside a recon call holds a future; with a thread it has ended by "retire".
HoldsFuture ==
  \A p \in Task :
    /\ pc[p] \in {"get", "retire"} => fv[p] \in Task
    /\ pc[p] = "retire" => policy[fv[p]] = "async" /\ status[fv[p]] = "ready"

(***************************************************************************)
(* No assert of the manager fails and no at() throws: a context is never   *)
(* shared, an id is never scheduled twice and never reconciled twice,      *)
(* however the callers interleave.                                         *)
(***************************************************************************)
NoAbort == process = "alive"

(***************************************************************************)
(* The value a recon call returns is that of the statement that was        *)
(* scheduled at its place, and not of one scheduled meanwhile by another   *)
(* task or in an earlier context.                                          *)
(***************************************************************************)
ReconOwn ==
  \A p \in Task :
    pc[p] \in {"get", "retire"} => fv[p] = kids[p][ri[p] + 1].task

(***************************************************************************)
(* The env structure of a statement (e0 in visitBlock) is on the stack of  *)
(* the task that scheduled it.  While the statement executes, the task     *)
(* that scheduled it is still in its group, so the frame exists.           *)
(***************************************************************************)
EnvAlive ==
  \A p \in Task : \A s \in Children[p] :
    pc[s] \notin {"idle", "done"} => pc[p] \in {"group", "get", "retire", "erasing"}

(***************************************************************************)
(* When the main function returns nothing is left behind: no statement     *)
(* runs, no thread slot is taken, no context is live, the mutex is free.   *)
(***************************************************************************)
QuiescentExit ==
  pc[Main] = "done" =>
    /\ \A t \in Task \ {Main} : status[t] \in {"none", "joined"}
    /\ thread_count = 0
    /\ context_map = {}
    /\ future_id_map = {}
    /\ mutex = NoTask

(***************************************************************************)
(* The program ends: callers never wait for each other for ever, although  *)
(* get() and the destructors of futures block and statements may call the  *)
(* manager themselves.                                                     *)
(***************************************************************************)
Termination == <>(pc[Main] = "done")

(***************************************************************************)
(* "All methods can be safely called from any thread and in parallel": a   *)
(* destroy_context call that holds the mutex returns.                      *)
(***************************************************************************)
DestroyReturns == \A p \in Task : pc[p] = "erasing" ~> pc[p] # "erasing"

-----------------------------------------------------------------------------

\* The fork-join view of the state: a deferred statement is live, whoever runs it.
PhaseOf(t) ==
  CASE status[t] = "none" -> "unborn"
    [] status[t] \in {"deferred", "running"} -> "live"
    [] status[t] = "ready" -> "finished"
    [] status[t] = "joined" -> "joined"

Unreconciled(p) ==
  [i \in 1 .. (Len(kids[p]) - ri[p]) |-> kids[p][ri[p] + i].task]

FJ == INSTANCE ForkJoin WITH
        phase <- [t \in Task |-> PhaseOf(t)],
        pending <- [t \in Task |-> Unreconciled(t)]

(***************************************************************************)
(* Contexts, thread slots, deferred execution and the three-step recon     *)
(* implement fork-join: statements are joined by their parent only after   *)
(* they ended and in the order of scheduling, and each is joined.          *)
(***************************************************************************)
ForkJoinSafety == FJ!SafeSpec

ImplementsForkJoin == FJ!Spec

=============================================================================

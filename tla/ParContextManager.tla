------------------------- MODULE ParContextManager -------------------------
(***************************************************************************)
(* The run-time manager of parallel statements: classes StatementContext   *)
(* and ParContextManager (parContextManager.h, parContextManager.cpp).     *)
(*                                                                         *)
(* Compiled Fork code opens a context, schedules statements in it, takes   *)
(* their results back one by one ("recon") and destroys the context.  Each *)
(* method is an operator here; the caller (module ForkRuntime) supplies    *)
(* the arguments.  A critical section of the manager's mutex is one step   *)
(* when nothing in it can block; destroy_context, whose erase() runs the   *)
(* blocking destructors of futures inside the critical section, is two     *)
(* steps between which the mutex is held.                                  *)
(*                                                                         *)
(* Abstractions.  A statement is a member of Task and stands for its own   *)
(* result.  The five methods of a family (sched_int ... sched_void,        *)
(* recon_int ... recon_void, add/getIntFuture ...) differ only in the C++  *)
(* type, which selects the map the future is kept in: the type is a        *)
(* parameter.  The int64_t counters are unbounded integers: they count     *)
(* calls the program makes.                                                *)
(***************************************************************************)
EXTENDS Integers, FiniteSets

CONSTANTS
  Task,                  \* the main program and every statement it may fork
  NoTask,                \* nobody: the mutex is free, no future is held
  Type,                  \* result types: int, float, intptr, floatptr, void
  HardwareConcurrency    \* std::thread::hardware_concurrency()

ASSUME TaskAssumption == IsFiniteSet(Task) /\ NoTask \notin Task

ASSUME HardwareAssumption == HardwareConcurrency \in Nat

VARIABLES
  context_map,    \* ids of the live contexts (the keys of context_map)
  future_id_map,  \* the futures stored in all contexts: [cid, type, id, task]
  thread_count,   \* statements launched with a thread and not yet retired
  next_cid,       \* id of the next context
  mutex,          \* the task inside destroy_context's critical section
  policy,         \* how std::async launched a task: "none", "async", "deferred"
  status,         \* the shared state of the task's future
  fv,             \* the future a task's recon call has moved out of its context
  process         \* "aborted": an assert failed or an exception escaped

managerVars == <<context_map, future_id_map, thread_count, next_cid, mutex,
                 policy, status, fv, process>>

Status == {"none", "deferred", "running", "ready", "joined"}

StoredFuture == [cid : Nat, type : Type, id : Nat, task : Task]

(***************************************************************************)
(* set_max_threads: the detected number of compute elements, kept within   *)
(* 2 .. 4.                                                                 *)
(***************************************************************************)
max_threads ==
  IF HardwareConcurrency < 2 THEN 2
  ELSE IF HardwareConcurrency > 4 THEN 4
  ELSE HardwareConcurrency

(***************************************************************************)
(* The constructor.  `running' is the set of tasks that run from the       *)
(* start: the main program.                                                *)
(***************************************************************************)
ManagerInit(running) ==
  /\ context_map = {}
  /\ future_id_map = {}
  /\ thread_count = 0
  /\ next_cid = 0
  /\ mutex = NoTask
  /\ policy = [t \in Task |-> "none"]
  /\ status = [t \in Task |-> IF t \in running THEN "running" ELSE "none"]
  /\ fv = [t \in Task |-> NoTask]
  /\ process = "alive"

\* A failed assert, or an exception: std::terminate ends the process.
Abort ==
  /\ process' = "aborted"
  /\ UNCHANGED <<context_map, future_id_map, thread_count, next_cid, mutex,
                 policy, status, fv>>

\* The entries of the maps of context c under a type and a statement id.
FuturesAt(c, ty, id) ==
  {f \in future_id_map : f.cid = c /\ f.type = ty /\ f.id = id}

FuturesOf(c) == {f \in future_id_map : f.cid = c}

-----------------------------------------------------------------------------

make_contextReusesId ==
  /\ mutex = NoTask
  /\ next_cid' = next_cid
  /\ context_map' = context_map \cup {next_cid}
  /\ UNCHANGED <<future_id_map, thread_count, mutex, policy, status, fv, process>>

(***************************************************************************)
(* make_context: the new context is next_cid, which the caller reads       *)
(* before the step.                                                        *)
(***************************************************************************)
make_context ==
  /\ mutex = NoTask
  /\ next_cid' = next_cid + 1
  /\ context_map' = context_map \cup {next_cid}
  /\ UNCHANGED <<future_id_map, thread_count, mutex, policy, status, fv, process>>

\* addIntFuture ... addVoidFuture.
addFutureOffByOne(s, ty, id, c) ==
  future_id_map' = future_id_map \cup {[cid |-> c, type |-> ty, id |-> id - 1, task |-> s]}

addFuture(s, ty, id, c) ==
  future_id_map' = future_id_map \cup {[cid |-> c, type |-> ty, id |-> id, task |-> s]}

\* std::async: a deferred statement waits for get(), the other gets a thread.
Launch(s, p) ==
  /\ policy' = [policy EXCEPT ![s] = p]
  /\ status' = [status EXCEPT ![s] = IF p = "async" THEN "running" ELSE "deferred"]

\* The launch policy sched_* picks.
LaunchPolicyOffByOne == IF thread_count > max_threads THEN "deferred" ELSE "async"

LaunchPolicy == IF thread_count >= max_threads THEN "deferred" ELSE "async"

(***************************************************************************)
(* sched_int ... sched_void: launch statement s and store its future under *)
(* id in context c.  context_map.at(c) throws for an unknown context, and  *)
(* add*Future asserts that the id is unused in the map of its type.        *)
(***************************************************************************)
sched(s, ty, id, c) ==
  /\ mutex = NoTask
  /\ IF c \in context_map /\ FuturesAt(c, ty, id) = {}
     THEN /\ Launch(s, LaunchPolicy)
          /\ thread_count' = IF LaunchPolicy = "async" THEN thread_count + 1
                             ELSE thread_count
          /\ addFuture(s, ty, id, c)
          /\ UNCHANGED <<context_map, next_cid, mutex, fv, process>>
     ELSE Abort

(***************************************************************************)
(* recon_*, first critical section: move the future out of the context.    *)
(* Both at() calls throw when there is nothing under the key.              *)
(***************************************************************************)
reconTakeCopies(t, ty, id, c) ==
  /\ mutex = NoTask
  /\ IF c \in context_map /\ FuturesAt(c, ty, id) # {}
     THEN /\ \E f \in FuturesAt(c, ty, id) : fv' = [fv EXCEPT ![t] = f.task]
          /\ UNCHANGED <<context_map, future_id_map, thread_count, next_cid, mutex,
                         policy, status, process>>
     ELSE Abort

reconTakeAny(t, ty, id, c) ==
  /\ mutex = NoTask
  /\ IF c \in context_map /\ FuturesOf(c) # {}
     THEN /\ \E f \in FuturesOf(c) :
               /\ fv' = [fv EXCEPT ![t] = f.task]
               /\ future_id_map' = future_id_map \ {f}
          /\ UNCHANGED <<context_map, thread_count, next_cid, mutex, policy, status,
                         process>>
     ELSE Abort

reconTakeHoldsMutex(t, ty, id, c) ==
  /\ mutex = NoTask
  /\ IF c \in context_map /\ FuturesAt(c, ty, id) # {}
     THEN /\ \E f \in FuturesAt(c, ty, id) :
               /\ fv' = [fv EXCEPT ![t] = f.task]
               /\ future_id_map' = future_id_map \ {f}
          /\ mutex' = t
          /\ UNCHANGED <<context_map, thread_count, next_cid, policy, status, process>>
     ELSE Abort

reconTake(t, ty, id, c) ==
  /\ mutex = NoTask
  /\ IF c \in context_map /\ FuturesAt(c, ty, id) # {}
     THEN /\ \E f \in FuturesAt(c, ty, id) :
               /\ fv' = [fv EXCEPT ![t] = f.task]
               /\ future_id_map' = future_id_map \ {f}
          /\ UNCHANGED <<context_map, thread_count, next_cid, mutex, policy, status,
                         process>>
     ELSE Abort

\* wait_for(0) says deferred: get() runs the statement on the calling thread.
reconRunDeferred(t) ==
  /\ policy[fv[t]] = "deferred"
  /\ status[fv[t]] = "deferred"
  /\ status' = [status EXCEPT ![fv[t]] = "running"]
  /\ UNCHANGED <<context_map, future_id_map, thread_count, next_cid, mutex, policy, fv,
                 process>>

\* get() of a deferred statement returns its value, and so does recon_*.
reconReturnDeferred(t) ==
  /\ policy[fv[t]] = "deferred"
  /\ status[fv[t]] = "ready"
  /\ status' = [status EXCEPT ![fv[t]] = "joined"]
  /\ fv' = [fv EXCEPT ![t] = NoTask]
  /\ UNCHANGED <<context_map, future_id_map, thread_count, next_cid, mutex, policy,
                 process>>

reconGetAsyncNoWait(t) ==
  /\ policy[fv[t]] = "async"
  /\ UNCHANGED managerVars

\* get() of a statement that has a thread returns once the thread has ended.
reconGetAsync(t) ==
  /\ policy[fv[t]] = "async"
  /\ status[fv[t]] = "ready"
  /\ UNCHANGED managerVars

\* recon_*, second critical section: the statement's thread is given back.
reconRetireUncounted(t) ==
  /\ mutex = NoTask
  /\ status' = [status EXCEPT ![fv[t]] = "joined"]
  /\ fv' = [fv EXCEPT ![t] = NoTask]
  /\ UNCHANGED <<context_map, future_id_map, thread_count, next_cid, mutex, policy,
                 process>>

reconRetire(t) ==
  /\ mutex = NoTask
  /\ thread_count' = thread_count - 1
  /\ status' = [status EXCEPT ![fv[t]] = "joined"]
  /\ fv' = [fv EXCEPT ![t] = NoTask]
  /\ UNCHANGED <<context_map, future_id_map, next_cid, mutex, policy, process>>

(***************************************************************************)
(* destroy_context: the assert that the context exists, then erase().  The *)
(* destructor of a future whose statement has a thread blocks until the    *)
(* statement ends, with the mutex held; a deferred statement that nobody   *)
(* reconciled is dropped.                                                  *)
(***************************************************************************)
destroyLock(t, c) ==
  /\ mutex = NoTask
  /\ IF c \in context_map
     THEN /\ mutex' = t
          /\ UNCHANGED <<context_map, future_id_map, thread_count, next_cid, policy,
                         status, fv, process>>
     ELSE Abort

destroyErase(t, c) ==
  /\ mutex = t
  /\ \A f \in FuturesOf(c) : policy[f.task] = "async" => status[f.task] = "ready"
  /\ context_map' = context_map \ {c}
  /\ future_id_map' = future_id_map \ FuturesOf(c)
  /\ mutex' = NoTask
  /\ UNCHANGED <<thread_count, next_cid, policy, status, fv, process>>

\* The statement function returns: the shared state of its future is ready.
StatementReturns(s) ==
  /\ status[s] = "running"
  /\ status' = [status EXCEPT ![s] = "ready"]
  /\ UNCHANGED <<context_map, future_id_map, thread_count, next_cid, mutex, policy, fv,
                 process>>

-----------------------------------------------------------------------------

ManagerTypeOK ==
  /\ context_map \subseteq Nat
  /\ future_id_map \subseteq StoredFuture
  /\ thread_count \in Int
  /\ next_cid \in Nat
  /\ mutex \in Task \cup {NoTask}
  /\ policy \in [Task -> {"none", "async", "deferred"}]
  /\ status \in [Task -> Status]
  /\ fv \in [Task -> Task \cup {NoTask}]
  /\ process \in {"alive", "aborted"}

\* The tasks that hold one of the max_threads thread slots.
Slots == {t \in Task : policy[t] = "async" /\ status[t] \in {"running", "ready"}}

\* The tasks executing on a thread of their own.
Workers == {t \in Task : policy[t] = "async" /\ status[t] = "running"}

(***************************************************************************)
(* sched_* increments thread_count and the second critical section of      *)
(* recon_* decrements it, in calls made by different threads and far       *)
(* apart: the counter is exactly the number of statements that were given  *)
(* a thread and whose recon has not completed.                             *)
(***************************************************************************)
SlotAccounting == thread_count = Cardinality(Slots)

(***************************************************************************)
(* "Setting max execution threads" (set_max_threads): at no time do more   *)
(* than four statements run on threads of their own, nor more than there   *)
(* are compute elements, except that two always may.                       *)
(***************************************************************************)
WorkersBounded ==
  \/ Cardinality(Workers) <= 2
  \/ Cardinality(Workers) <= 4 /\ Cardinality(Workers) <= HardwareConcurrency

(***************************************************************************)
(* std::future is move-only and every shared state has one future: a       *)
(* scheduled statement's future is in one context under one key or in one  *)
(* recon call, and its slot has not been given back.  No statement can be  *)
(* reconciled twice.                                                       *)
(***************************************************************************)
SingleOwner ==
  /\ \A f, g \in future_id_map : f.task = g.task => f = g
  /\ \A f \in future_id_map : status[f.task] \in {"deferred", "running", "ready"}
  /\ \A f \in future_id_map, t \in Task : fv[t] # f.task
  /\ \A t, u \in Task : fv[t] = fv[u] /\ fv[t] # NoTask => t = u
  /\ \A t \in Task : fv[t] # NoTask => status[fv[t]] \in {"deferred", "running", "ready"}

=============================================================================

-------------------------- MODULE CompiledProgram --------------------------
(***************************************************************************)
(* A Fork program from its source to its result: module BlockCodegen       *)
(* compiles it, the JIT runs main's instructions, and the groups in them   *)
(* run on the manager of module ParContextManager.                         *)
(*                                                                         *)
(* A scheduled statement works on its env structure, a copy of main's      *)
(* variables as they were when it was scheduled; the target of a           *)
(* concurrent assignment is written by main when the statement is          *)
(* reconciled.                                                             *)
(*                                                                         *)
(* Abstractions.  A value is a term: the statement that computed it and    *)
(* the variables it was computed from.  Every expression may read every    *)
(* variable, and conditions are chosen freely.  A call prints its argument *)
(* in one step (module Library).  A statement adds to BlockCodegen's       *)
(* record the fields target, the variable it assigns, and pointee, the     *)
(* variables it reads through pointers, which no copy protects.            *)
(***************************************************************************)
EXTENDS BlockCodegen, ParContextManager, SequencesExt

CONSTANTS
  Vars,    \* variables of main
  Main     \* the task that runs main; statement i of its body is <<"main", i>>

\* Every statement that may be scheduled is a task of its own.
ASSUME StatementsAssumption ==
  /\ Main \in Task
  /\ \A p \in Programs : \A b \in DOMAIN p : \A i \in DOMAIN p[b] :
       ~commitVector(p[b], i) => <<b, i>> \in Task \ {Main}

VARIABLES
  ip,        \* main's next instruction, 0 before the start
  rpc,       \* where main is inside a library call, "next" outside of one
  cids,      \* the context each make instruction returned
  store,     \* main's variables
  env,       \* the env structure of each scheduled statement
  result,    \* what the lambda of an assignment returned
  output,    \* what was printed
  taken      \* the branches chosen

mainVars == <<ip, rpc, cids, store, env, result, output, taken>>

vars == <<cgVars, managerVars, mainVars>>

NoValue == << >>

ProgramInit ==
  /\ Init
  /\ ManagerInit({})
  /\ ip = 0
  /\ rpc = "next"
  /\ cids = << >>
  /\ store = [v \in Vars |-> NoValue]
  /\ env = [t \in Task |-> store]
  /\ result = [t \in Task |-> NoValue]
  /\ output = << >>
  /\ taken = {}

-----------------------------------------------------------------------------

\* What the statement s at position at computes from the variables e and the memory m.
Value(at, s, e, m) == <<at, e, [v \in s.pointee |-> m[v]]>>

(***************************************************************************)
(* The statement run in place on a machine: its variables, what it printed *)
(* and whether it has returned.                                            *)
(***************************************************************************)
Machine(s, o) == [store |-> s, out |-> o, live |-> TRUE]

Execute(m, at, s, e) ==
  LET v == Value(at, s, e, e)
  IN  CASE ~m.live -> m
        [] m.live /\ s.kind = "assign" -> [m EXCEPT !.store[s.target] = v]
        [] m.live /\ s.kind = "call" -> [m EXCEPT !.out = Append(@, v)]
        [] OTHER -> [m EXCEPT !.live = FALSE]

ExecuteBlock(m, b) ==
  FoldLeft(LAMBDA n, i : Execute(n, <<b, i>>, prog[b][i], n.store),
           m, [i \in 1 .. Len(prog[b]) |-> i])

-----------------------------------------------------------------------------

\* The position of the next instruction of a basic block.
FirstOf(n) == Min({k \in DOMAIN code : code[k].bb = n})
After(k) == Min({j \in DOMAIN code : j > k /\ code[j].bb = code[k].bb})

Compile ==
  /\ Next
  /\ UNCHANGED <<managerVars, mainVars>>

\* executeMain refuses to run after an error or without a function to run.
Start ==
  /\ Compiled /\ WellFormed /\ code # << >>
  /\ ip = 0
  /\ ip' = 1
  /\ cids' = [k \in DOMAIN code |-> 0]
  /\ status' = [status EXCEPT ![Main] = "running"]
  /\ UNCHANGED <<cgVars, context_map, future_id_map, thread_count, next_cid, mutex, policy,
                 fv, process, rpc, store, env, result, output, taken>>

Fetched(op) ==
  /\ process = "alive"
  /\ status[Main] = "running"
  /\ code[ip].op = op

\* A call that fails does not return.
Continue(p) ==
  IF process' = "aborted" THEN UNCHANGED <<ip, rpc>>
  ELSE rpc' = p /\ ip' = IF p = "next" THEN After(ip) ELSE ip

ExecMake ==
  /\ Fetched("make")
  /\ make_context
  /\ cids' = [cids EXCEPT ![ip] = next_cid]
  /\ Continue("next")
  /\ UNCHANGED <<cgVars, store, env, result, output, taken>>

\* The env structure is filled before the call.
ExecSched ==
  /\ Fetched("sched")
  /\ LET c == code[ip]
     IN  /\ sched(c.at, c.ty, c.id, cids[c.cid])
         /\ env' = [env EXCEPT ![c.at] = store]
  /\ Continue("next")
  /\ UNCHANGED <<cgVars, cids, store, result, output, taken>>

\* The value of a recon call goes to the target the instruction names.
StoreResult ==
  store' = IF code[ip].ty = "void" THEN store
           ELSE LET to == code[ip].to
                IN  [store EXCEPT ![prog[to[1]][to[2]].target] = result[fv[Main]]]

ReconTake ==
  /\ Fetched("recon")
  /\ rpc = "next"
  /\ LET c == code[ip] IN reconTake(Main, c.ty, c.id, cids[c.cid])
  /\ Continue("get")
  /\ UNCHANGED <<cgVars, cids, store, env, result, output, taken>>

ReconRun ==
  /\ Fetched("recon")
  /\ rpc = "get"
  /\ reconRunDeferred(Main)
  /\ UNCHANGED <<cgVars, mainVars>>

ReconReturn ==
  /\ Fetched("recon")
  /\ rpc = "get"
  /\ reconReturnDeferred(Main)
  /\ StoreResult
  /\ Continue("next")
  /\ UNCHANGED <<cgVars, cids, env, result, output, taken>>

ReconGet ==
  /\ Fetched("recon")
  /\ rpc = "get"
  /\ reconGetAsync(Main)
  /\ Continue("retire")
  /\ UNCHANGED <<cgVars, cids, store, env, result, output, taken>>

ReconRetire ==
  /\ Fetched("recon")
  /\ rpc = "retire"
  /\ reconRetire(Main)
  /\ StoreResult
  /\ Continue("next")
  /\ UNCHANGED <<cgVars, cids, env, result, output, taken>>

ExecDestroy ==
  /\ Fetched("destroy")
  /\ LET c == cids[code[ip].cid]
     IN  \/ rpc = "next" /\ destroyLock(Main, c) /\ Continue("erasing")
         \/ rpc = "erasing" /\ destroyErase(Main, c) /\ Continue("next")
  /\ UNCHANGED <<cgVars, cids, store, env, result, output, taken>>

\* A statement compiled in place.
ExecStmt ==
  /\ Fetched("stmt")
  /\ LET at == code[ip].at
         m == Execute(Machine(store, output), at, prog[at[1]][at[2]], store)
     IN  store' = m.store /\ output' = m.out
  /\ ip' = After(ip)
  /\ UNCHANGED <<cgVars, managerVars, rpc, cids, env, result, taken>>

ExecCondBr ==
  /\ Fetched("condbr")
  /\ \E way \in {1, 2} :
       /\ taken' = taken \cup {<<code[ip].at, way>>}
       /\ ip' = FirstOf(code[ip].dest[way])
  /\ UNCHANGED <<cgVars, managerVars, rpc, cids, store, env, result, output>>

ExecBr ==
  /\ Fetched("br")
  /\ ip' = FirstOf(code[ip].dest)
  /\ UNCHANGED <<cgVars, managerVars, rpc, cids, store, env, result, output, taken>>

ExecRet ==
  /\ Fetched("ret")
  /\ StatementReturns(Main)
  /\ UNCHANGED <<cgVars, mainVars>>

-----------------------------------------------------------------------------

\* The variables a lambda sees.
LambdaVarsLive(s) == store

LambdaVars(s) == env[s]

\* The lambda of an assignment returns the right side.
RunAssign(s) ==
  /\ prog[s[1]][s[2]].kind = "assign"
  /\ result' = [result EXCEPT ![s] = Value(s, prog[s[1]][s[2]], LambdaVars(s), store)]
  /\ UNCHANGED <<output, taken>>

RunCall(s) ==
  /\ prog[s[1]][s[2]].kind = "call"
  /\ output' = Append(output, Value(s, prog[s[1]][s[2]], LambdaVars(s), store))
  /\ UNCHANGED <<result, taken>>

\* A conditional assigns the lambda's own variables.  Its blocks print at most once.
RunIf(s) ==
  /\ prog[s[1]][s[2]].kind = "if"
  /\ \E way \in {1, 2} :
       /\ taken' = taken \cup {<<s, way>>}
       /\ LET blocks == <<prog[s[1]][s[2]].then, prog[s[1]][s[2]].else>>
          IN  output' = IF blocks[way] = "none" THEN output
                        ELSE ExecuteBlock(Machine(LambdaVars(s), output), blocks[way]).out
  /\ UNCHANGED result

Lambda(s) ==
  /\ process = "alive"
  /\ s # Main
  /\ StatementReturns(s)
  /\ RunAssign(s) \/ RunCall(s) \/ RunIf(s)
  /\ UNCHANGED <<cgVars, ip, rpc, cids, store, env>>

MainStep ==
  \/ Start \/ ExecMake \/ ExecSched
  \/ ReconTake \/ ReconRun \/ ReconReturn \/ ReconGet \/ ReconRetire
  \/ ExecDestroy \/ ExecStmt \/ ExecCondBr \/ ExecBr \/ ExecRet

ProgramNext == Compile \/ MainStep \/ \E s \in Task : Lambda(s)

ProgramSpec == ProgramInit /\ [][ProgramNext]_vars

(***************************************************************************)
(* The compiler and main run on one thread, every other lambda on the      *)
(* thread std::async gives it or inside main's get(): each of them that    *)
(* can run is eventually run.                                              *)
(***************************************************************************)
ProgramFairSpec ==
  /\ ProgramSpec
  /\ WF_vars(Compile)
  /\ WF_vars(MainStep)
  /\ \A s \in Task : WF_vars(Lambda(s))

-----------------------------------------------------------------------------

(***************************************************************************)
(* The meaning of the source, independent of the compiler.  A group is a   *)
(* maximal run of statements up to one that commits; a statement that is   *)
(* not lambdable is a group of its own.  The statements of a group all     *)
(* start from the variables as the group before left them, and take effect *)
(* in the order of the text.                                               *)
(***************************************************************************)
lambdable(s) == s.kind \in {"assign", "call"}

GroupOf(b, i) ==
  Max({1} \cup {j \in 2 .. i : statementCommits(b[j - 1]) \/ ~lambdable(b[j])})

\* One statement of the body: base is what the statements of its group read.
Perform(m, i) ==
  LET b == prog["main"]
      base == IF GroupOf(b, i) = i THEN m.run.store ELSE m.base
      way == IF <<<<"main", i>>, 1>> \in taken THEN b[i].then ELSE b[i].else
  IN  [base |-> base,
       run |-> IF b[i].kind # "if" THEN Execute(m.run, <<"main", i>>, b[i], base)
               ELSE IF ~m.run.live \/ way = "none" THEN m.run
               ELSE ExecuteBlock(m.run, way)]

Meaning ==
  LET start == [v \in Vars |-> NoValue]
  IN  FoldLeft(Perform, [base |-> start, run |-> Machine(start, << >>)],
               [i \in 1 .. Len(prog["main"]) |-> i]).run

Returned == status[Main] = "ready"

(***************************************************************************)
(* When main returns, its variables are what the source means, whichever   *)
(* statements had threads, whichever were deferred to their recon call,    *)
(* and however they interleaved with each other and with the recon calls   *)
(* that already store results: visitBlock, sched_* and recon_* together.   *)
(***************************************************************************)
SourceStore == Returned => store = Meaning.store

(***************************************************************************)
(* Everything the source prints is printed once, with the values it means, *)
(* and in its order except within a group.                                 *)
(***************************************************************************)
SourceOutput ==
  Returned =>
    LET out == Meaning.out
        Together(p, q) ==
          /\ p[1][1] = "main" /\ q[1][1] = "main"
          /\ GroupOf(prog["main"], p[1][2]) = GroupOf(prog["main"], q[1][2])
    IN  /\ Len(output) = Len(out)
        /\ ToSet(output) = ToSet(out)
        /\ \A i, j \in DOMAIN output :
             i < j /\ ~Together(output[i], output[j]) =>
               \E k, l \in DOMAIN out : k < l /\ out[k] = output[i] /\ out[l] = output[j]

(***************************************************************************)
(* The ids, types and contexts visitBlock emits are ones the manager       *)
(* knows: no assert of add*Future or destroy_context fails and no at()     *)
(* throws while a compiled program runs.                                   *)
(***************************************************************************)
NeverAborts == process = "alive"

(***************************************************************************)
(* main returns only when no statement it scheduled still uses its frame,  *)
(* and has given back every thread slot and destroyed every context.       *)
(***************************************************************************)
NothingLeft ==
  Returned =>
    /\ \A t \in Task \ {Main} : status[t] \in {"none", "joined"}
    /\ thread_count = 0 /\ context_map = {} /\ mutex = NoTask

\* The compiled program ends: main's recon calls and destroy_context return.
Ends == <>Returned

=============================================================================

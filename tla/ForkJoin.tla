------------------------------ MODULE ForkJoin ------------------------------
(***************************************************************************)
(* What running parallel statements promises, with no contexts, futures,   *)
(* thread slots or locks: a task forks statements, each statement finishes *)
(* once, its parent joins it afterwards and in the order of forking, and a *)
(* task finishes only when it has joined everything it forked.             *)
(***************************************************************************)
EXTENDS Sequences

CONSTANTS Task, Main, Children

VARIABLES
  phase,     \* "unborn", "live", "finished" or "joined"
  pending    \* the statements a task has forked and not joined, oldest first

absVars == <<phase, pending>>

Init ==
  /\ phase = [t \in Task |-> IF t = Main THEN "live" ELSE "unborn"]
  /\ pending = [t \in Task |-> << >>]

Fork(p, s) ==
  /\ phase[p] = "live"
  /\ phase[s] = "unborn"
  /\ phase' = [phase EXCEPT ![s] = "live"]
  /\ pending' = [pending EXCEPT ![p] = Append(@, s)]

Finish(s) ==
  /\ phase[s] = "live"
  /\ pending[s] = << >>
  /\ phase' = [phase EXCEPT ![s] = "finished"]
  /\ UNCHANGED pending

Join(p) ==
  /\ pending[p] # << >>
  /\ phase[Head(pending[p])] = "finished"
  /\ phase' = [phase EXCEPT ![Head(pending[p])] = "joined"]
  /\ pending' = [pending EXCEPT ![p] = Tail(@)]

Next ==
  \/ \E p \in Task : \E s \in Children[p] : Fork(p, s)
  \/ \E s \in Task : Finish(s)
  \/ \E p \in Task : Join(p)

SafeSpec == Init /\ [][Next]_absVars

(***************************************************************************)
(* Every statement that has joined its own statements finishes and every   *)
(* finished statement is joined.                                           *)
(***************************************************************************)
Spec ==
  /\ SafeSpec
  /\ \A t \in Task : WF_absVars(Finish(t)) /\ WF_absVars(Join(t))

=============================================================================

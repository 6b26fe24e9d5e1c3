--------------------------- MODULE MCForkRuntime ---------------------------
(***************************************************************************)
(* Small programs for TLC.  m is the main function.                        *)
(***************************************************************************)
EXTENDS ForkRuntime

CONSTANTS m, a, b, c, d, e

\* Main forks a and b; a forks c and d, b forks e: three callers at a time.
NestedProgram ==
  [t \in {m, a, b, c, d, e} |->
     CASE t = m -> {a, b}
       [] t = a -> {c, d}
       [] t = b -> {e}
       [] OTHER -> {}]

=============================================================================

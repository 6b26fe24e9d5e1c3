---------------------------- MODULE BlockCodegen ----------------------------
(***************************************************************************)
(* How CodeGenVisitor (codeGenVisitor.cpp) turns blocks of statements into *)
(* calls of the run-time manager: visitBlock, with the visits of functions,*)
(* conditionals and returns it recurses through.                           *)
(*                                                                         *)
(* A statement without a semicolon does not commit: it runs in parallel    *)
(* with the statements after it, up to the first one that commits.  Such a *)
(* group is compiled to                                                    *)
(*                                                                         *)
(*   make, sched 0, ..., sched n, recon 0, ..., recon n, destroy           *)
(*                                                                         *)
(* The visitor recurses over the syntax tree with state in its members, so *)
(* executeCommit, currId, reconVector and justReturned survive from one    *)
(* block to the next; the recursion is the variable stack.                 *)
(*                                                                         *)
(* Abstractions.  Names, values and expressions are left out and programs  *)
(* are well typed.  What is compiled into a lambda is one step: insideLambda *)
(* keeps visitBlock from opening groups there.  The first error ends the   *)
(* compilation: the visitor reports more, but executeMain refuses to run.  *)
(***************************************************************************)
EXTENDS Integers, Sequences

CONSTANT Programs    \* functions from block names to sequences of statements

StatementType == {"void", "int", "float", "pointer"}

\* What the parser builds for a statement whose inner blocks are among blocks.
IsStatement(s, blocks) ==
  /\ s.kind \in {"assign", "call", "vardef", "declaration", "if", "return", "function"}
  /\ s.kind \in {"assign", "call", "vardef"} => s.semi \in BOOLEAN /\ s.ty \in StatementType
  /\ s.kind = "if" => s.then \in blocks /\ s.else \in blocks \cup {"none"}
  /\ s.kind = "function" => s.body \in blocks

(***************************************************************************)
(* A program is a syntax tree: a root block that no statement contains,    *)
(* and the blocks of its functions and conditionals.  Other statements     *)
(* than functions and declarations are inside of functions: elsewhere they *)
(* have no basic block, or only the last one of the function before.       *)
(***************************************************************************)
ASSUME ProgramsAssumption ==
  \A p \in Programs :
    /\ "root" \in DOMAIN p /\ "none" \notin DOMAIN p
    /\ \A b \in DOMAIN p :
         /\ p[b] \in Seq({p[b][i] : i \in DOMAIN p[b]})
         /\ \A i \in DOMAIN p[b] : IsStatement(p[b][i], DOMAIN p \ {"root"})
    /\ \A i \in DOMAIN p["root"] : p["root"][i].kind \in {"function", "declaration"}

VARIABLES
  prog,            \* the program being compiled
  stack,           \* the blocks being visited, innermost last
  executeCommit,   \* no group is open
  currId,          \* id of the next statement of the group
  currCid,         \* the open context: position of its make instruction
  reconVector,     \* result type and statement (for its target) of each lambda
  namedValues,     \* whether the variable cid is defined
  justReturned,    \* the last statement visited was a return
  bb, nextBB,      \* basic block of the insertion point; next unused one
  error,           \* ErrorV was called
  code             \* instructions emitted

cgVars == <<prog, stack, executeCommit, currId, currCid, reconVector, namedValues,
            justReturned, bb, nextBB, error, code>>

-----------------------------------------------------------------------------

(***************************************************************************)
(* Statements.  parser.y gives assignments, expression statements and      *)
(* initialised definitions the commit flag of their semicolon (semi); the  *)
(* other statements always commit (statementCommits of node.cpp).          *)
(***************************************************************************)
Plain(k, semi, ty) == [kind |-> k, semi |-> semi, ty |-> ty]
If(t, e) == [kind |-> "if", then |-> t, else |-> e]
Return == [kind |-> "return"]
Declaration == [kind |-> "declaration"]   \* an extern or the definition of a structure
FunctionDefinition(b) == [kind |-> "function", body |-> b]

statementCommits(s) ==
  s.kind \in {"assign", "call", "vardef"} => s.semi

(***************************************************************************)
(* The second loop of visitBlock: "the last commit is concurrent as well". *)
(* prev is the flag of the statement before, TRUE for the first.           *)
(***************************************************************************)
commitVector(b, i) ==
  statementCommits(b[i]) /\ (i > 1 => statementCommits(b[i - 1]))

\* LambdaReconVisitor and makeSched: only an assignment has a result.
lambdaKeyword(s) == IF s.kind = "assign" THEN s.ty ELSE "void"

-----------------------------------------------------------------------------

Top == stack[Len(stack)]
Block == prog[Top.blk]
Current == Block[Top.i]

Visiting == stack # << >> /\ ~error

Frame(b, role, base) == [blk |-> b, i |-> 1, role |-> role, base |-> base]

\* The innermost frame moves to its next statement.
Advance(st) == [st EXCEPT ![Len(st)].i = @ + 1]

Pop(st) == SubSeq(st, 1, Len(st) - 1)

Source(op, b) == [op |-> op, bb |-> b, at |-> <<Top.blk, Top.i>>]

\* A branch from basic block b to the merge block of the conditional.
Branch(b) == [op |-> "br", bb |-> b, dest |-> Top.base + 2]

Init ==
  /\ prog \in Programs
  /\ stack = <<Frame("root", "root", 0)>>
  /\ executeCommit = TRUE
  /\ currId = 0
  /\ currCid = 0
  /\ reconVector = << >>
  /\ namedValues = FALSE
  /\ justReturned = FALSE
  /\ bb = 0
  /\ nextBB = 0
  /\ error = FALSE
  /\ code = << >>

Fail ==
  /\ error' = TRUE
  /\ UNCHANGED <<prog, stack, executeCommit, currId, currCid, reconVector, namedValues,
                 justReturned, bb, nextBB, code>>

-----------------------------------------------------------------------------

\* justReturned after a lambda: visitBlock ends its body with a return statement.
LambdaReturnedRestored == justReturned

LambdaReturned == TRUE

(***************************************************************************)
(* visitBlock, the branch "must create lambda".  The first statement of a  *)
(* group defines cid, which fails when cid is still defined; an assignment *)
(* to a pointer is not implemented.  The lambda's body ends with a return. *)
(***************************************************************************)
ScheduleStatement ==
  /\ Visiting
  /\ Top.i <= Len(Block)
  /\ ~commitVector(Block, Top.i)
  /\ IF (executeCommit /\ namedValues) \/ lambdaKeyword(Current) = "pointer"
     THEN Fail
     ELSE LET make == IF executeCommit
                      THEN <<[op |-> "make", bb |-> bb, cid |-> Len(code) + 1]>>
                      ELSE << >>
              id == IF executeCommit THEN 0 ELSE currId
              cid == IF executeCommit THEN Len(code) + 1 ELSE currCid
              sched == [op |-> "sched", bb |-> bb, at |-> <<Top.blk, Top.i>>,
                        ty |-> lambdaKeyword(Current), id |-> id, cid |-> cid]
          IN /\ code' = Append(code \o make, sched)
             /\ currId' = id + 1
             /\ currCid' = cid
             /\ reconVector' = Append(reconVector, [ty |-> sched.ty, at |-> sched.at])
             /\ executeCommit' = FALSE
             /\ namedValues' = TRUE
             /\ justReturned' = LambdaReturned
             /\ stack' = Advance(stack)
             /\ UNCHANGED <<prog, bb, nextBB, error>>

(***************************************************************************)
(* visitBlock, the commit before an inline statement.                      *)
(***************************************************************************)
ReconCode(k) ==
  [op |-> "recon", bb |-> bb, ty |-> reconVector[k].ty, to |-> reconVector[k].at,
   id |-> k - 1, max |-> currId - 1, cid |-> currCid]

DestroyCode == [op |-> "destroy", bb |-> bb, cid |-> currCid]

CommitCodeWithoutDestroy ==
  IF executeCommit THEN << >>
  ELSE [k \in 1 .. Len(reconVector) |-> ReconCode(k)]

CommitCodeSkipsLast ==
  IF executeCommit THEN << >>
  ELSE Append([k \in 1 .. Len(reconVector) - 1 |-> ReconCode(k)], DestroyCode)

CommitCodeSwapsTargets ==
  IF executeCommit THEN << >>
  ELSE Append([k \in 1 .. Len(reconVector) |->
                 [ReconCode(k) EXCEPT !.id = Len(reconVector) - k]], DestroyCode)

CommitCode ==
  IF executeCommit THEN << >>
  ELSE Append([k \in 1 .. Len(reconVector) |-> ReconCode(k)], DestroyCode)

CommitAlwaysDecrements ==
  /\ executeCommit' = TRUE
  /\ currId' = currId - 1

Commit ==
  /\ executeCommit' = TRUE
  /\ currId' = IF executeCommit THEN currId ELSE currId - 1

Inline(kinds) ==
  /\ Visiting
  /\ Top.i <= Len(Block)
  /\ commitVector(Block, Top.i)
  /\ Current.kind \in kinds

\* Statements that are compiled in place.
VisitPlain ==
  /\ Inline({"assign", "call", "vardef"})
  /\ Commit
  /\ code' = Append(code \o CommitCode, Source("stmt", bb))
  /\ namedValues' = (executeCommit /\ namedValues)
  /\ stack' = Advance(stack)
  /\ UNCHANGED <<prog, currCid, reconVector, justReturned, bb, nextBB, error>>

\* visitExternStatement and visitStructureDefinition, which emit no instruction.
VisitDeclaration ==
  /\ Inline({"declaration"})
  /\ Commit
  /\ code' = code \o CommitCode
  /\ namedValues' = (executeCommit /\ namedValues)
  /\ stack' = Advance(stack)
  /\ UNCHANGED <<prog, currCid, reconVector, justReturned, bb, nextBB, error>>

\* visitReturnStatement.
VisitReturn ==
  /\ Inline({"return"})
  /\ Commit
  /\ code' = Append(code \o CommitCode, Source("ret", bb))
  /\ namedValues' = (executeCommit /\ namedValues)
  /\ justReturned' = TRUE
  /\ stack' = Advance(stack)
  /\ UNCHANGED <<prog, currCid, reconVector, bb, nextBB, error>>

\* visitFunctionDefinition: namedValues is cleared; the root block has no groups.
VisitFunction ==
  /\ Inline({"function"})
  /\ Commit
  /\ code' = code \o CommitCode
  /\ namedValues' = FALSE
  /\ bb' = nextBB
  /\ nextBB' = nextBB + 1
  /\ stack' = Append(stack, Frame(Current.body, "body", nextBB))
  /\ UNCHANGED <<prog, currCid, reconVector, justReturned, error>>

\* visitIfStatement, up to the visit of the then block.
VisitIf ==
  /\ Inline({"if"})
  /\ Commit
  /\ code' = Append(code \o CommitCode,
                    [op |-> "condbr", bb |-> bb, at |-> <<Top.blk, Top.i>>,
                     dest |-> <<nextBB, nextBB + 1>>])
  /\ namedValues' = (executeCommit /\ namedValues)
  /\ justReturned' = FALSE
  /\ bb' = nextBB
  /\ nextBB' = nextBB + 3
  /\ stack' = Append(stack, Frame(Current.then, "then", nextBB))
  /\ UNCHANGED <<prog, currCid, reconVector, error>>

-----------------------------------------------------------------------------

AtEnd(role) == Visiting /\ Top.i > Len(Block) /\ Top.role = role

\* The branch to the merge block, unless the block has just returned.
BranchToMergeAlways == <<Branch(bb)>>

BranchToMerge == IF justReturned THEN << >> ELSE <<Branch(bb)>>

\* visitIfStatement after the then block: "else" is visited next, if there is one.
\* visitBlock forgets an open group, except that it skips a block without statements.
LeaveThen ==
  /\ AtEnd("then")
  /\ LET else == prog[stack[Len(stack) - 1].blk][stack[Len(stack) - 1].i].else
     IN IF else # "none"
        THEN /\ code' = code \o BranchToMerge
             /\ stack' = Append(Pop(stack), Frame(else, "else", Top.base))
             /\ bb' = Top.base + 1
             /\ executeCommit' = (executeCommit \/ prog[else] # << >>)
        ELSE /\ code' = Append(code \o BranchToMerge, Branch(Top.base + 1))
             /\ stack' = Advance(Pop(stack))
             /\ bb' = Top.base + 2
             /\ UNCHANGED executeCommit
  /\ justReturned' = FALSE
  /\ UNCHANGED <<prog, currId, currCid, reconVector, namedValues, nextBB, error>>

LeaveElse ==
  /\ AtEnd("else")
  /\ code' = code \o BranchToMerge
  /\ stack' = Advance(Pop(stack))
  /\ bb' = Top.base + 2
  /\ justReturned' = FALSE
  /\ UNCHANGED <<prog, executeCommit, currId, currCid, reconVector, namedValues, nextBB,
                 error>>

LeaveFunction ==
  /\ AtEnd("body")
  /\ stack' = Advance(Pop(stack))
  /\ UNCHANGED <<prog, executeCommit, currId, currCid, reconVector, namedValues,
                 justReturned, bb, nextBB, error, code>>

LeaveRoot ==
  /\ AtEnd("root")
  /\ stack' = << >>
  /\ UNCHANGED <<prog, executeCommit, currId, currCid, reconVector, namedValues,
                 justReturned, bb, nextBB, error, code>>

Next ==
  \/ ScheduleStatement
  \/ VisitPlain \/ VisitDeclaration \/ VisitReturn \/ VisitFunction \/ VisitIf
  \/ LeaveThen \/ LeaveElse \/ LeaveFunction \/ LeaveRoot

Spec == Init /\ [][Next]_cgVars

-----------------------------------------------------------------------------

TypeOK ==
  /\ \A n \in 1 .. Len(stack) :
       /\ stack[n].blk \in DOMAIN prog
       /\ stack[n].i \in 1 .. Len(prog[stack[n].blk]) + 1
  /\ {executeCommit, namedValues, justReturned, error} \subseteq BOOLEAN
  /\ currId \in Nat /\ currCid \in 0 .. Len(code)
  /\ \A k \in 1 .. Len(reconVector) : reconVector[k].ty \in StatementType
  /\ bb \in 0 .. nextBB

Compiled == stack = << >> /\ ~error

At(op) == {k \in DOMAIN code : code[k].op = op}

\* Every basic block ends with a branch or a return and has none before its end.
WellFormed ==
  \A n \in 0 .. nextBB - 1 :
    LET ks == {k \in DOMAIN code : code[k].bb = n}
    IN /\ ks # {}
       /\ \A k \in ks :
            code[k].op \in {"ret", "br", "condbr"} <=> \A q \in ks : q <= k

\* A block whose last statement is in a group, which the block leaves open.
LeavesOpen(b) == b # << >> /\ ~commitVector(b, Len(b))

(***************************************************************************)
(* A statement that is compiled in place runs when no group is open: every *)
(* context made before it has been destroyed, so the statement sees what   *)
(* the group computed.  Blocks left open are the matter of GroupsClosed.   *)
(***************************************************************************)
CommittedBeforeInline ==
  (\A b \in DOMAIN prog : ~LeavesOpen(prog[b])) =>
  \A k \in At("stmt") \cup At("ret") \cup At("condbr"), j \in At("make") :
    j < k => \E d \in At("destroy") : j < d /\ d < k /\ code[d].cid = code[j].cid

\* The context of the first group compiled: a make instruction names its position.
FirstContext(c) == \A m \in At("make") : c <= m

(***************************************************************************)
(* Before the context of the first group is destroyed, every statement     *)
(* scheduled in it has been reconciled, by one recon call that asks for    *)
(* its id in the map of its type and stores into its target: no future is  *)
(* dropped or waited for by a destructor.  It is what JoinsAll says of the *)
(* callers in module ForkRuntime.  Programs may have any number of groups, *)
(* but of the first only can it be said: a later commit finds entries of   *)
(* the groups before in reconVector (see ReconIdValid), with their types.  *)
(***************************************************************************)
GroupReconciled ==
  \A d \in At("destroy"), j \in At("sched") :
    j < d /\ code[j].cid = code[d].cid /\ FirstContext(code[j].cid) =>
      \E r \in At("recon") :
        /\ j < r /\ r < d
        /\ code[r].cid = code[j].cid /\ code[r].id = code[j].id
        /\ code[r].ty = code[j].ty /\ code[r].to = code[j].at
        /\ \A q \in At("recon") \ {r} :
             code[q].cid = code[r].cid => code[q].id # code[r].id

(***************************************************************************)
(* A recon call asks for a statement of its own context, in the map its    *)
(* future is in, so that getIntFuture and its siblings find it, and stores *)
(* the result in the target of that very statement.                        *)
(***************************************************************************)
ReconMatchesSched ==
  \A r \in At("recon") : \E j \in At("sched") :
    /\ j < r
    /\ code[j].cid = code[r].cid /\ code[j].id = code[r].id
    /\ code[j].ty = code[r].ty /\ code[j].at = code[r].to

(***************************************************************************)
(* "id - index of statement being reconned in this commit, starting at     *)
(* zero", "max - maximum valid index of statements in this commit"         *)
(* (lib.cpp): no id is beyond max.                                         *)
(***************************************************************************)
ReconIdValid == \A r \in At("recon") : code[r].id <= code[r].max

(***************************************************************************)
(* A compiled function is well formed: every basic block ends with a       *)
(* branch or a return and has none before its end.                         *)
(***************************************************************************)
BlocksTerminated == Compiled => WellFormed

(***************************************************************************)
(* visitBlock forgets a group that is open at the end of a block, or       *)
(* commits it in whatever basic block comes next.  No such code is well    *)
(* formed, because the return of the last lambda passes for a return of    *)
(* the block: in well-formed code a context is destroyed on the path that  *)
(* made it, and on no other.                                               *)
(***************************************************************************)
GroupsClosed ==
  Compiled /\ WellFormed =>
    /\ \A m \in At("make") : \E d \in At("destroy") :
         m < d /\ code[d].cid = code[m].cid /\ code[d].bb = code[m].bb
    /\ \A d \in At("destroy") : \A e \in At("destroy") \ {d} : code[e].cid # code[d].cid

=============================================================================

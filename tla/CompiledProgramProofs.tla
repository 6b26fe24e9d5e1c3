----------------------- MODULE CompiledProgramProofs -----------------------
(***************************************************************************)
(* A compiled program with one group never makes the manager abort, and    *)
(* returns with nothing left.  The proof has two halves: how the code of a *)
(* group lies among the basic blocks, and where main is in it.             *)
(***************************************************************************)
EXTENDS CompiledProgram, BlockCodegenClosing, FiniteSetTheorems, WellFoundedInduction

(***************************************************************************)
(* The code of a program.  A group lies in the basic block of its make,    *)
(* before its destroy, and branches lead to basic blocks further on.       *)
(***************************************************************************)
MadeBefore ==
  \A k \in 1 .. Len(code) :
    /\ code[k].op = "make" => code[k].cid = k
    /\ code[k].op \in {"sched", "recon", "destroy"} =>
         /\ code[k].cid \in 1 .. k - 1
         /\ code[code[k].cid].op = "make" /\ code[code[k].cid].bb = code[k].bb

\* No two statements of a context have an id or a position in the source in common.
Apart ==
  \A j, k \in 1 .. Len(code) :
    /\ code[j].op = "sched" /\ code[k].op = "sched" /\ code[j].cid = code[k].cid
    /\ code[j].at = code[k].at \/ code[j].id = code[k].id
    => j = k

Closes ==
  \A k \in 1 .. Len(code) : code[k].op \in {"make", "sched", "recon"} =>
    \/ ~executeCommit /\ currCid = code[k].cid
    \/ \E d \in k + 1 .. Len(code) : code[d].op = "destroy" /\ code[d].cid = code[k].cid

\* The statements of the open group precede the current one in its block.
OpenHead ==
  /\ justReturned /\ Len(stack) >= 2
  /\ currCid \in 1 .. Len(code) /\ code[currCid].op = "make" /\ code[currCid].bb = bb

OpenStatements ==
  \A j \in 1 .. Len(code) : code[j].op = "sched" /\ code[j].cid = currCid =>
    code[j].at[1] = Top.blk /\ code[j].at[2] \in Nat /\ code[j].at[2] < Top.i

\* A statement of a group is one of the source.
FromSource ==
  \A j \in 1 .. Len(code) : code[j].op = "sched" =>
    \E b \in DOMAIN prog : \E i \in 1 .. Len(prog[b]) :
      code[j].at = <<b, i>> /\ ~commitVector(prog[b], i)

\* The basic blocks instruction k may branch to.
Leads(k, n) ==
  \/ code[k].op = "br" /\ n = code[k].dest
  \/ code[k].op = "condbr" /\ n \in {code[k].dest[1], code[k].dest[2]}

Forward ==
  \A k \in 1 .. Len(code) : \A n : Leads(k, n) =>
    /\ n \in Nat /\ n < nextBB
    /\ \A q \in 1 .. Len(code) : code[q].bb = n => k < q

Layout ==
  /\ MadeBefore /\ Apart /\ Closes /\ FromSource /\ Forward
  /\ ~executeCommit => OpenHead /\ OpenStatements

LayoutInv == Structured => Layout

\* Where a statement of a group is in the source.
LEMMA ScheduledAt ==
  ASSUME MemberInv, StackInv, ScheduleStatement, ~Fail
  PROVE  code'[Len(code')].at = <<Top.blk, Top.i>>
<1>1. stack # << >> /\ Top.i <= Len(Block)
  BY DEF ScheduleStatement, Visiting
<1>2. /\ Top.blk \in DOMAIN prog /\ Top.i \in Nat
      /\ IsStatement(Current, DOMAIN prog \ {"root"})
  BY <1>1, TopFrame
<1>3. lambdaKeyword(Current) \in StatementType
  BY <1>2 DEF IsStatement, lambdaKeyword, StatementType
<1>4. PICK e : /\ e = [ty |-> lambdaKeyword(Current), at |-> <<Top.blk, Top.i>>]
               /\ reconVector' = Append(reconVector, e)
  BY DEF ScheduleStatement, LambdaReturned
<1>5. e \in ReconType /\ e.at = <<Top.blk, Top.i>>
  BY <1>2, <1>3, <1>4 DEF ReconType
<1>6. reconVector'[Len(reconVector) + 1] = e
  BY <1>4, <1>5, AppendProperties DEF MemberInv
<1>7. Schedules
  BY ScheduleEmits
<1>8. e = [ty |-> code'[Len(code')].ty, at |-> code'[Len(code')].at]
  BY <1>6, <1>7 DEF Schedules
<1> QED
  BY <1>5, <1>8

\* The merge block of a conditional is where its branches lead.
LEMMA MergeDestination ==
  ASSUME StackInv, MemberInv, LeaveThen \/ LeaveElse, NEW k \in Len(code) + 1 .. Len(code')
  PROVE  code'[k].op = "br" /\ code'[k].dest = Top.base + 2
<1>1. PICK S : code \in Seq(S)
  BY DEF MemberInv
<1>2. PICK n \in Nat : n = Len(code)
  BY <1>1, LenProperties
<1>3. PICK m, c : m = BranchToMerge /\ c = code \o m
  OBVIOUS
<1>4. /\ m \in Seq({Branch(bb)}) /\ Len(m) \in {0, 1}
      /\ \A i \in 1 .. Len(m) : m[i] = Branch(bb)
  <2>1. PICK e : e = Branch(bb)
    OBVIOUS
  <2>2. << >> \in Seq({e}) /\ <<e>> \in Seq({e}) /\ Len(<<e>>) = 1 /\ <<e>>[1] = e
        /\ Len(<< >>) = 0
    OBVIOUS
  <2>3. m = << >> \/ m = <<e>>
    BY <1>3, <2>1 DEF BranchToMerge
  <2>4. CASE m = << >>
    BY <2>1, <2>2, <2>4
  <2>5. CASE m = <<e>>
    BY <2>1, <2>2, <2>5
  <2> QED
    BY <2>3, <2>4, <2>5
<1>5. /\ c \in Seq(Range(c)) /\ Len(c) = n + Len(m)
      /\ \A i \in 1 .. Len(m) : c[n + i] = m[i]
  BY <1>1, <1>2, <1>3, <1>4, Emission
<1>6. \A i \in n + 1 .. Len(c) : c[i] = Branch(bb)
  <2>1. SUFFICES ASSUME NEW i \in n + 1 .. Len(c) PROVE c[i] = Branch(bb)
    OBVIOUS
  <2>2. i - n \in 1 .. Len(m) /\ i = n + (i - n)
    BY <1>2, <1>4, <1>5
  <2> QED
    BY <1>4, <1>5, <2>2
<1>7. \A x : Branch(x).op = "br" /\ Branch(x).dest = Top.base + 2
  BY DEF Branch
<1>8. code' = c \/ code' = Append(c, Branch(Top.base + 1))
  BY <1>3 DEF LeaveThen, LeaveElse
<1>9. CASE code' = c
  BY <1>2, <1>6, <1>7, <1>9
<1>10. CASE code' = Append(c, Branch(Top.base + 1))
  <2>1. PICK e : e = Branch(Top.base + 1)
    OBVIOUS
  <2>2. /\ Len(c) \in Nat /\ Len(code') = Len(c) + 1
        /\ \A i \in 1 .. Len(c) : code'[i] = c[i]
        /\ code'[Len(c) + 1] = e
    <3>1. PICK T : c \in Seq(T)
      BY <1>5, Zenon
    <3>2. code' = Append(c, e)
      BY <1>10, <2>1, Zenon
    <3> QED
      BY <3>1, <3>2, EmitOne
  <2>3. CASE k = Len(c) + 1
    BY <1>7, <2>1, <2>2, <2>3
  <2>4. CASE k # Len(c) + 1
    <3>1. k \in n + 1 .. Len(c) /\ k \in 1 .. Len(c)
      BY <1>2, <2>2, <2>4
    <3> QED
      BY <1>6, <1>7, <2>2, <3>1
  <2> QED
    BY <2>3, <2>4
<1> QED
  BY <1>8, <1>9, <1>10

\* The only instruction with which a commit branches is that of a conditional.
LEMMA ConditionDestination ==
  ASSUME MemberInv, VisitPlain \/ VisitDeclaration \/ VisitReturn \/ VisitFunction \/ VisitIf,
         NEW k \in Len(code) + 1 .. Len(code'), code'[k].op \in {"br", "condbr"}
  PROVE  VisitIf /\ code'[k].op = "condbr" /\ code'[k].dest = <<nextBB, nextBB + 1>>
<1>1. Commits /\ Extends
  BY InlineCommits DEF Commits
<1>2. k = Len(code')
  BY <1>1, CommitContinues DEF Terminates
<1>3. CASE VisitPlain
  <2>1. code'[Len(code')] = Source("stmt", bb)
    BY <1>3, LastEmitted DEF VisitPlain
  <2> QED
    BY <1>2, <2>1 DEF Source
<1>4. CASE VisitReturn
  <2>1. code'[Len(code')] = Source("ret", bb)
    BY <1>4, LastEmitted DEF VisitReturn
  <2> QED
    BY <1>2, <2>1 DEF Source
<1>5. CASE VisitDeclaration \/ VisitFunction
  <2>1. Continues
    BY <1>5, DeclarationContinues
  <2> QED
    BY <2>1 DEF Continues, Terminates
<1>6. CASE VisitIf
  <2>1. code'[Len(code')] = [op |-> "condbr", bb |-> bb, at |-> <<Top.blk, Top.i>>,
                             dest |-> <<nextBB, nextBB + 1>>]
    BY <1>6, LastEmitted DEF VisitIf
  <2> QED
    BY <1>2, <1>6, <2>1
<1> QED
  BY <1>3, <1>4, <1>5, <1>6

LEMMA ForwardStep ==
  ASSUME StackInv, MemberInv, BasicBlockInv, Flow, Forward, [Next]_cgVars
  PROVE  Forward'
<1>1. Extends /\ Len(code) \in Nat /\ Len(code') \in Nat /\ bb \in Nat /\ nextBB \in Nat
  BY Extended, LenProperties DEF MemberInv, Extends
<1>2. nextBB' \in Nat /\ nextBB' >= nextBB
  BY <1>1, MemberStep, Moves DEF Stays, Begins, Begun, ResumesElse, ResumesMerge
<1>3. SUFFICES ASSUME NEW k \in 1 .. Len(code'), NEW n, Leads(k, n)'
               PROVE  /\ n \in Nat /\ n < nextBB'
                      /\ \A q \in 1 .. Len(code') : code'[q].bb = n => k < q
  BY DEF Forward
<1>4. CASE k \in 1 .. Len(code)
  <2>1. Leads(k, n)
    BY <1>1, <1>3, <1>4 DEF Leads, Extends
  <2>2. n \in Nat /\ n < nextBB /\ \A q \in 1 .. Len(code) : code[q].bb = n => k < q
    BY <1>4, <2>1 DEF Forward
  <2>3. ASSUME NEW q \in 1 .. Len(code'), code'[q].bb = n PROVE k < q
    <3>1. CASE q \in 1 .. Len(code)
      BY <1>1, <2>2, <2>3, <3>1 DEF Extends
    <3>2. CASE q \notin 1 .. Len(code)
      BY <1>1, <1>4, <3>2
    <3> QED
      BY <3>1, <3>2
  <2> QED
    BY <1>1, <1>2, <2>2, <2>3
<1>5. CASE k \notin 1 .. Len(code)
  <2>1. k \in Len(code) + 1 .. Len(code') /\ code'[k].op \in {"br", "condbr"}
    BY <1>1, <1>3, <1>5 DEF Leads
  <2>2. CASE VisitPlain \/ VisitDeclaration \/ VisitReturn \/ VisitFunction \/ VisitIf
    <3>1. VisitIf /\ code'[k].op = "condbr" /\ code'[k].dest = <<nextBB, nextBB + 1>>
      BY <2>1, <2>2, ConditionDestination
    <3>2. n \in {nextBB, nextBB + 1} /\ nextBB' = nextBB + 3
      BY <1>3, <3>1 DEF Leads, VisitIf
    <3>3. bb < nextBB
      <4>1. stack # << >> /\ Len(stack) # 1
        <5>1. stack # << >> /\ Top.i <= Len(Block) /\ Current.kind = "if"
          BY <3>1 DEF VisitIf, Inline, Visiting
        <5> QED
          BY <5>1, RootFrame
      <4>2. PICK t \in Nat : t = Len(stack) /\ t >= 1 /\ t # 1
        BY <4>1, TopFrame, Zenon
      <4>3. t >= 2
        BY <4>2
      <4> QED
        BY <4>2, <4>3 DEF BasicBlockInv, CurrentInside
    <3>4. ASSUME NEW q \in 1 .. Len(code') PROVE code'[q].bb \in Nat /\ code'[q].bb < nextBB
      <4>1. CASE q \in 1 .. Len(code)
        BY <1>1, <4>1 DEF Flow, Placed, Extends
      <4>2. CASE q \notin 1 .. Len(code)
        <5>1. q \in Len(code) + 1 .. Len(code') /\ Commits
          BY <1>1, <2>2, <4>2, InlineCommits
        <5>2. code'[q].bb = bb
          BY <5>1, CommitContinues
        <5> QED
          BY <1>1, <3>3, <5>2
      <4> QED
        BY <4>1, <4>2
    <3>5. n \in Nat /\ n < nextBB' /\ n >= nextBB
      BY <1>1, <3>2
    <3> QED
      BY <1>1, <3>4, <3>5
  <2>3. CASE LeaveThen \/ LeaveElse
    <3>1. n = Top.base + 2
      BY <1>3, <2>1, <2>3, MergeDestination DEF Leads
    <3>2. stack # << >> /\ Top.role \in {"then", "else"}
      BY <2>3 DEF LeaveThen, LeaveElse, AtEnd, Visiting
    <3>3. Len(stack) \in 1 .. Len(stack) /\ Top.base \in Nat
      BY <3>2, EmptySeq, TopFrame DEF StackInv
    <3>4. n \in Nat /\ n < nextBB
      <4>1. PICK b \in Nat, x \in Nat : b = Top.base /\ x = nextBB
        BY <1>1, <3>3
      <4>2. b + 3 <= x
        BY <3>2, <3>3, <4>1, FrameBase DEF Top
      <4>3. b + 2 \in Nat /\ b + 2 < x
        BY <4>2
      <4> QED
        BY <3>1, <4>1, <4>3
    <3>5. n # bb /\ \A q \in 1 .. Len(code) : code[q].bb # n
      BY <3>1, <3>2, <3>4, SetAsideEmpty
    <3>6. ASSUME NEW q \in 1 .. Len(code') PROVE code'[q].bb # n
      <4>1. CASE q \in 1 .. Len(code)
        BY <1>1, <3>5, <4>1 DEF Extends
      <4>2. CASE q \notin 1 .. Len(code)
        <5>1. q \in Len(code) + 1 .. Len(code')
          BY <1>1, <4>2
        <5>2. code'[q].bb = bb \/ code'[q].bb = Top.base + 1
          BY <5>1, Where
        <5> QED
          BY <3>1, <3>3, <3>5, <5>2
      <4> QED
        BY <4>1, <4>2
    <3> QED
      BY <1>1, <1>2, <3>4, <3>6
  <2>4. CASE ScheduleStatement /\ ~Fail
    <3>1. Continues
      BY <2>4, ScheduleContinues
    <3> QED
      BY <2>1, <3>1 DEF Continues, Terminates
  <2>5. CASE UNCHANGED cgVars \/ Fail \/ LeaveFunction \/ LeaveRoot
    <3>1. code' = code
      BY <2>5 DEF cgVars, Fail, LeaveFunction, LeaveRoot
    <3> QED
      BY <1>1, <2>1, <3>1
  <2> QED
    BY <2>2, <2>3, <2>4, <2>5 DEF Next
<1> QED
  BY <1>4, <1>5

\* A group is not left open at the end of a block.
LEMMA ClosedAtBlockEnd ==
  ASSUME StackInv, MemberInv, BasicBlockInv, Flow, ~executeCommit => OpenHead,
         LeaveThen \/ LeaveElse \/ LeaveFunction \/ LeaveRoot
  PROVE  executeCommit
<1>1. stack # << >> /\ Top.i > Len(Block) /\ Top.role \in {"then", "else", "body", "root"}
  BY DEF LeaveThen, LeaveElse, LeaveFunction, LeaveRoot, AtEnd, Visiting
<1>2. PICK t \in Nat : t = Len(stack) /\ t >= 1
  BY <1>1, TopFrame
<1>3. CASE Top.role \in {"then", "else"}
  <2>1. CASE EndsWithReturn(Block)
    BY <1>1, <2>1 DEF Flow, CurrentBlock, Settled
  <2>2. CASE ~EndsWithReturn(Block)
    <3>1. Top.i .. Len(Block) = {}
      BY <1>1, TopFrame
    <3>2. ~justReturned
      BY <1>1, <1>3, <2>2, <3>1 DEF Flow, ReturnKnown
    <3> QED
      BY <3>2 DEF OpenHead
  <2> QED
    BY <2>1, <2>2
<1>4. CASE Top.role = "root"
  <2>1. Len(stack) = 1
    BY <1>1, <1>4, RootFrame
  <2> QED
    BY <2>1 DEF OpenHead
<1>5. CASE Top.role = "body"
  <2>1. t # 1
    BY <1>1, <1>2, <1>5, RootFrame
  <2>2. t \in 2 .. Len(stack) /\ stack[t].role = "body" /\ Block = prog[stack[t].blk]
    BY <1>2, <1>5, <2>1 DEF Top, Block
  <2>3. EndsWithReturn(Block)
    BY <2>2 DEF Flow, FramesBranch
  <2> QED
    BY <1>1, <2>3 DEF Flow, CurrentBlock, Settled
<1> QED
  BY <1>1, <1>3, <1>4, <1>5

LEMMA OldInstruction ==
  ASSUME MemberInv, Extends, NEW k \in 1 .. Len(code')
  PROVE  /\ Old(k) \/ k \in Len(code) + 1 .. Len(code')
         /\ Old(k) => k \in 1 .. Len(code) /\ code'[k] = code[k]
         /\ \A d \in 1 .. Len(code) : d \in 1 .. Len(code') /\ code'[d] = code[d]
         /\ Len(code) \in Nat /\ Len(code') \in Nat
<1>1. Len(code) \in Nat /\ Len(code') \in Nat /\ Len(code') >= Len(code)
  BY LenProperties DEF MemberInv, Extends
<1> QED
  BY <1>1 DEF Extends, Old

\* Instructions of no group leave the groups as they are.
LEMMA LayoutBranches ==
  ASSUME MemberInv, EmitsBranches, MadeBefore, Apart, Closes, FromSource, executeCommit,
         prog' = prog
  PROVE  (MadeBefore /\ Apart /\ Closes /\ FromSource)'
<1>1. Extends
  BY DEF EmitsBranches
<1>2. \A k \in 1 .. Len(code') :
        \/ k \in 1 .. Len(code) /\ code'[k] = code[k]
        \/ code'[k].op = "br"
  BY BranchCases DEF Old
<1>3. /\ Len(code) \in Nat /\ Len(code') \in Nat /\ Len(code') >= Len(code)
      /\ \A k \in 1 .. Len(code) : code'[k] = code[k]
  BY <1>1, LenProperties DEF MemberInv, Extends
<1>4. MadeBefore'
  <2>1. SUFFICES ASSUME NEW k \in 1 .. Len(code')
                 PROVE  /\ code'[k].op = "make" => code'[k].cid = k
                        /\ code'[k].op \in {"sched", "recon", "destroy"} =>
                             /\ code'[k].cid \in 1 .. k - 1
                             /\ code'[code'[k].cid].op = "make"
                             /\ code'[code'[k].cid].bb = code'[k].bb
    BY DEF MadeBefore
  <2>2. CASE code'[k].op = "br"
    BY <2>2
  <2>3. CASE k \in 1 .. Len(code) /\ code'[k] = code[k]
    <3>1. /\ code[k].op = "make" => code[k].cid = k
          /\ code[k].op \in {"sched", "recon", "destroy"} =>
               /\ code[k].cid \in 1 .. k - 1
               /\ code[code[k].cid].op = "make" /\ code[code[k].cid].bb = code[k].bb
      BY <2>3 DEF MadeBefore
    <3>2. \A c \in 1 .. k - 1 : code'[c] = code[c]
      BY <1>3, <2>3
    <3> QED
      BY <2>3, <3>1, <3>2
  <2> QED
    BY <1>2, <2>2, <2>3
<1>5. Apart'
  BY <1>2 DEF Apart
<1>6. Closes'
  <2>1. SUFFICES ASSUME NEW k \in 1 .. Len(code'), code'[k].op \in {"make", "sched", "recon"}
                 PROVE  \E d \in k + 1 .. Len(code') :
                          code'[d].op = "destroy" /\ code'[d].cid = code'[k].cid
    BY DEF Closes
  <2>2. k \in 1 .. Len(code) /\ code'[k] = code[k]
    BY <1>2, <2>1
  <2>3. PICK d \in k + 1 .. Len(code) : code[d].op = "destroy" /\ code[d].cid = code[k].cid
    BY <2>1, <2>2 DEF Closes
  <2>4. d \in k + 1 .. Len(code') /\ code'[d] = code[d]
    BY <1>3, <2>2, <2>3
  <2> QED
    BY <2>2, <2>3, <2>4
<1>7. FromSource'
  BY <1>2 DEF FromSource
<1> QED
  BY <1>4, <1>5, <1>6, <1>7

LEMMA LayoutCommits ==
  ASSUME MemberInv, Commits, MadeBefore, Apart, Closes, FromSource,
         ~executeCommit => OpenHead, prog' = prog
  PROVE  (MadeBefore /\ Apart /\ Closes /\ FromSource)'
<1>1. Extends /\ executeCommit' = TRUE
  BY DEF Commits
<1>2. \A k \in 1 .. Len(code') :
        \/ k \in 1 .. Len(code) /\ code'[k] = code[k]
        \/ code'[k].op \in InlineOps
        \/ /\ ~executeCommit /\ code'[k].op \in {"recon", "destroy"} /\ k > Len(code)
           /\ code'[k].cid = currCid /\ code'[k].bb = bb
  <2>1. SUFFICES ASSUME NEW k \in 1 .. Len(code')
                 PROVE  \/ k \in 1 .. Len(code) /\ code'[k] = code[k]
                        \/ code'[k].op \in InlineOps
                        \/ /\ ~executeCommit /\ code'[k].op \in {"recon", "destroy"}
                           /\ k > Len(code) /\ code'[k].cid = currCid /\ code'[k].bb = bb
    OBVIOUS
  <2>2. Old(k) \/ k \in Len(code) + 1 .. Len(code')
    BY <1>1, OldInstruction
  <2>3. Len(code) \in Nat
    BY LenProperties DEF MemberInv
  <2>4. CASE Old(k)
    BY <2>4 DEF Old
  <2>5. CASE ~Old(k)
    <3>1. k > Len(code)
      BY <2>2, <2>3, <2>5
    <3> QED
      BY <2>5, <3>1, CommitCases
  <2> QED
    BY <2>4, <2>5
<1>3. /\ Len(code) \in Nat /\ Len(code') \in Nat /\ Len(code') >= Len(code)
      /\ \A k \in 1 .. Len(code) : code'[k] = code[k]
  BY <1>1, LenProperties DEF MemberInv, Extends
<1>4. MadeBefore'
  <2>1. SUFFICES ASSUME NEW k \in 1 .. Len(code')
                 PROVE  /\ code'[k].op = "make" => code'[k].cid = k
                        /\ code'[k].op \in {"sched", "recon", "destroy"} =>
                             /\ code'[k].cid \in 1 .. k - 1
                             /\ code'[code'[k].cid].op = "make"
                             /\ code'[code'[k].cid].bb = code'[k].bb
    BY DEF MadeBefore
  <2>2. CASE code'[k].op \in InlineOps
    BY <2>2 DEF InlineOps
  <2>3. CASE k \in 1 .. Len(code) /\ code'[k] = code[k]
    <3>1. /\ code[k].op = "make" => code[k].cid = k
          /\ code[k].op \in {"sched", "recon", "destroy"} =>
               /\ code[k].cid \in 1 .. k - 1
               /\ code[code[k].cid].op = "make" /\ code[code[k].cid].bb = code[k].bb
      BY <2>3 DEF MadeBefore
    <3>2. \A c \in 1 .. k - 1 : code'[c] = code[c]
      BY <1>3, <2>3
    <3> QED
      BY <2>3, <3>1, <3>2
  <2>4. CASE /\ ~executeCommit /\ code'[k].op \in {"recon", "destroy"} /\ k > Len(code)
             /\ code'[k].cid = currCid /\ code'[k].bb = bb
    <3>1. currCid \in 1 .. Len(code) /\ code[currCid].op = "make" /\ code[currCid].bb = bb
      BY <2>4 DEF OpenHead
    <3>2. currCid \in 1 .. k - 1 /\ code'[currCid] = code[currCid]
      BY <1>3, <2>4, <3>1
    <3> QED
      BY <2>4, <3>1, <3>2
  <2> QED
    BY <1>2, <2>2, <2>3, <2>4
<1>5. Apart'
  BY <1>2 DEF Apart, InlineOps
<1>6. Closes'
  <2>1. SUFFICES ASSUME NEW k \in 1 .. Len(code'), code'[k].op \in {"make", "sched", "recon"}
                 PROVE  \E d \in k + 1 .. Len(code') :
                          code'[d].op = "destroy" /\ code'[d].cid = code'[k].cid
    BY DEF Closes
  <2>2. ASSUME ~executeCommit
        PROVE  \E d \in Len(code) + 1 .. Len(code') :
                 /\ code'[d].op = "destroy" /\ code'[d].cid = currCid
                 /\ code'[k].op = "recon" /\ k > Len(code) => k < d
    <3>1. PICK n \in Nat, r \in Nat : n = Len(code) /\ r = Len(reconVector)
      BY LenProperties DEF MemberInv
    <3>2. Len(code') >= n + r + 1 /\ NewDestroy(r + 1)
      BY <2>2, <3>1 DEF Commits
    <3>3. n + (r + 1) \in n + 1 .. Len(code')
      BY <1>3, <3>1, <3>2
    <3>4. code'[n + (r + 1)].op = "destroy" /\ code'[n + (r + 1)].cid = currCid
      BY <3>1, <3>2 DEF NewDestroy, DestroyCode
    <3>5. ASSUME code'[k].op = "recon", k > Len(code) PROVE k < n + (r + 1)
      <4>1. ~Old(k)
        BY <1>3, <3>5 DEF Old
      <4>2. k \in n + 1 .. n + r
        BY <3>1, <3>5, <4>1, CommitCases DEF InlineOps
      <4> QED
        BY <3>1, <4>2
    <3> QED
      BY <3>1, <3>3, <3>4, <3>5
  <2>3. CASE k \in 1 .. Len(code) /\ code'[k] = code[k]
    <3>1. \/ ~executeCommit /\ currCid = code[k].cid
          \/ \E d \in k + 1 .. Len(code) : code[d].op = "destroy" /\ code[d].cid = code[k].cid
      BY <2>1, <2>3 DEF Closes
    <3>2. CASE ~executeCommit /\ currCid = code[k].cid
      <4>1. PICK d \in Len(code) + 1 .. Len(code') :
              code'[d].op = "destroy" /\ code'[d].cid = currCid
        BY <2>2, <3>2
      <4>2. d \in k + 1 .. Len(code')
        BY <1>3, <2>3, <4>1
      <4> QED
        BY <2>3, <3>2, <4>1, <4>2
    <3>3. CASE \E d \in k + 1 .. Len(code) :
                 code[d].op = "destroy" /\ code[d].cid = code[k].cid
      <4>1. PICK d \in k + 1 .. Len(code) :
              code[d].op = "destroy" /\ code[d].cid = code[k].cid
        BY <3>3
      <4>2. d \in k + 1 .. Len(code') /\ code'[d] = code[d]
        BY <1>3, <2>3, <4>1
      <4> QED
        BY <2>3, <4>1, <4>2
    <3> QED
      BY <3>1, <3>2, <3>3
  <2>4. CASE /\ ~executeCommit /\ code'[k].op \in {"recon", "destroy"} /\ k > Len(code)
             /\ code'[k].cid = currCid /\ code'[k].bb = bb
    <3>1. code'[k].op = "recon"
      BY <2>1, <2>4
    <3>2. PICK d \in Len(code) + 1 .. Len(code') :
            code'[d].op = "destroy" /\ code'[d].cid = currCid /\ k < d
      BY <2>2, <2>4, <3>1
    <3>3. d \in k + 1 .. Len(code')
      BY <1>3, <3>2
    <3> QED
      BY <2>4, <3>2, <3>3
  <2> QED
    BY <1>2, <2>1, <2>3, <2>4 DEF InlineOps
<1>7. FromSource'
  BY <1>2 DEF FromSource, InlineOps
<1> QED
  BY <1>4, <1>5, <1>6, <1>7

LEMMA LayoutSchedules ==
  ASSUME StackInv, MemberInv, ContextInv, BasicBlockInv, Layout, ScheduleStatement, ~Fail
  PROVE  /\ (MadeBefore /\ Apart /\ Closes /\ FromSource)'
         /\ (OpenHead /\ OpenStatements)'
<1>1. Schedules /\ justReturned' = TRUE /\ stack' = Advance(stack) /\ prog' = prog /\ bb' = bb
  BY ScheduleEmits
<1>2. /\ Extends /\ executeCommit' = FALSE
      /\ currCid' = IF executeCommit THEN Len(code) + 1 ELSE currCid
  BY <1>1 DEF Schedules
<1>3. PICK n \in Nat, l \in Nat :
        /\ n = Len(code) /\ l = Len(code') /\ l >= n
        /\ \A k \in 1 .. n : code'[k] = code[k]
  BY <1>2, LenProperties DEF MemberInv, Extends
<1>4. /\ l > n /\ code'[l].op = "sched" /\ code'[l].bb = bb /\ code'[l].cid = currCid'
      /\ code'[l].id = currId' - 1 /\ code'[l].at = <<Top.blk, Top.i>>
  BY <1>1, <1>3, ScheduledAt DEF Schedules
<1>5. ASSUME NEW k \in 1 .. l
      PROVE  \/ k \in 1 .. n /\ code'[k] = code[k]
             \/ /\ executeCommit /\ k = n + 1 /\ k < l /\ currCid' = k
                /\ code'[k].op = "make" /\ code'[k].cid = k /\ code'[k].bb = bb
             \/ k = l
  BY <1>1, <1>3, ScheduleCases DEF Old
<1>6. stack # << >> /\ Top.i <= Len(Block) /\ ~commitVector(Block, Top.i)
  BY DEF ScheduleStatement, Visiting
<1>7. /\ Len(stack) \in Nat /\ Len(stack) >= 2 /\ Top.blk \in DOMAIN prog
      /\ Top.i \in Nat /\ Top.i >= 1 /\ Top \in Frames(DOMAIN prog)
  BY <1>6, ScheduledInside, TopFrame
<1>8. Len(stack') = Len(stack) /\ Top'.blk = Top.blk /\ Top'.i = Top.i + 1
  <2>1. Len(stack') = Len(stack) /\ stack'[Len(stack)] = [Top EXCEPT !.i = @ + 1]
    BY <1>1, <1>6, AdvanceFrames DEF StackInv, Top
  <2> QED
    BY <1>7, <2>1 DEF Top, Frames
<1>9. /\ currCid' \in 1 .. l - 1 /\ code'[currCid'].op = "make" /\ code'[currCid'].bb = bb
  <2>1. CASE executeCommit
    <3>1. code'[n + 1].op = "make" /\ code'[n + 1].bb = bb /\ l = n + 2
      BY <1>1, <1>3, <2>1 DEF Schedules
    <3> QED
      BY <1>2, <1>3, <2>1, <3>1
  <2>2. CASE ~executeCommit
    <3>1. currCid \in 1 .. n /\ code[currCid].op = "make" /\ code[currCid].bb = bb
      BY <1>3, <2>2 DEF Layout, OpenHead
    <3>2. currCid \in 1 .. l - 1 /\ code'[currCid] = code[currCid]
      BY <1>3, <1>4, <3>1
    <3> QED
      BY <1>2, <2>2, <3>1, <3>2
  <2> QED
    BY <2>1, <2>2
<1>10. MadeBefore'
  <2>1. SUFFICES ASSUME NEW k \in 1 .. l
                 PROVE  /\ code'[k].op = "make" => code'[k].cid = k
                        /\ code'[k].op \in {"sched", "recon", "destroy"} =>
                             /\ code'[k].cid \in 1 .. k - 1
                             /\ code'[code'[k].cid].op = "make"
                             /\ code'[code'[k].cid].bb = code'[k].bb
    BY <1>3 DEF MadeBefore
  <2>2. CASE k \in 1 .. n /\ code'[k] = code[k]
    <3>1. /\ code[k].op = "make" => code[k].cid = k
          /\ code[k].op \in {"sched", "recon", "destroy"} =>
               /\ code[k].cid \in 1 .. k - 1
               /\ code[code[k].cid].op = "make" /\ code[code[k].cid].bb = code[k].bb
      BY <1>3, <2>2 DEF Layout, MadeBefore
    <3>2. \A c \in 1 .. k - 1 : code'[c] = code[c]
      BY <1>3, <2>2
    <3> QED
      BY <2>2, <3>1, <3>2
  <2>3. CASE code'[k].op = "make" /\ code'[k].cid = k
    BY <2>3
  <2>4. CASE k = l
    BY <1>4, <1>9, <2>4
  <2> QED
    BY <1>5, <2>2, <2>3, <2>4
\* No statement was scheduled in the context under the new id or from the new position.
<1>11. ASSUME NEW j \in 1 .. n, code[j].op = "sched", code[j].cid = currCid'
       PROVE  /\ ~executeCommit /\ code[j].cid = currCid
              /\ code[j].at # <<Top.blk, Top.i>> /\ code[j].id # currId' - 1
  <2>1. code[j].cid \in 1 .. j - 1
    BY <1>3, <1>11 DEF Layout, MadeBefore
  <2>2. ~executeCommit
    <3>1. code[j].cid # n + 1
      BY <1>3, <2>1
    <3> QED
      BY <1>2, <1>3, <1>11, <3>1
  <2>3. currCid' = currCid /\ currId' = currId + 1
    BY <1>1, <2>2 DEF Schedules
  <2>4. code[j].at[2] \in Nat /\ code[j].at[2] < Top.i
    BY <1>3, <1>11, <2>2, <2>3 DEF Layout, OpenStatements
  <2>5. code[j].id \in Nat /\ code[j].id < currId
    BY <1>3, <1>11, <2>2, <2>3 DEF ContextInv, OpenContext
  <2>6. code[j].at # <<Top.blk, Top.i>>
    <3>1. <<Top.blk, Top.i>>[2] = Top.i
      OBVIOUS
    <3> QED
      BY <1>7, <2>4, <3>1
  <2> QED
    BY <1>11, <2>2, <2>3, <2>5, <2>6 DEF MemberInv
<1>12. Apart'
  <2>1. SUFFICES ASSUME NEW j \in 1 .. l, NEW k \in 1 .. l,
                        code'[j].op = "sched", code'[k].op = "sched",
                        code'[j].cid = code'[k].cid,
                        code'[j].at = code'[k].at \/ code'[j].id = code'[k].id
                 PROVE  j = k
    BY <1>3 DEF Apart
  <2>2. (j \in 1 .. n /\ code'[j] = code[j]) \/ j = l
    BY <1>5, <2>1
  <2>3. (k \in 1 .. n /\ code'[k] = code[k]) \/ k = l
    BY <1>5, <2>1
  <2>4. CASE j = l /\ k = l
    BY <2>4
  <2>5. CASE j = l /\ k \in 1 .. n /\ code'[k] = code[k]
    BY <1>4, <1>11, <2>1, <2>5
  <2>6. CASE k = l /\ j \in 1 .. n /\ code'[j] = code[j]
    BY <1>4, <1>11, <2>1, <2>6
  <2>7. CASE j \in 1 .. n /\ code'[j] = code[j] /\ k \in 1 .. n /\ code'[k] = code[k]
    BY <1>3, <2>1, <2>7 DEF Layout, Apart
  <2> QED
    BY <2>2, <2>3, <2>4, <2>5, <2>6, <2>7
<1>13. Closes'
  <2>1. SUFFICES ASSUME NEW k \in 1 .. l, code'[k].op \in {"make", "sched", "recon"}
                 PROVE  \/ currCid' = code'[k].cid
                        \/ \E d \in k + 1 .. l :
                             code'[d].op = "destroy" /\ code'[d].cid = code'[k].cid
    BY <1>2, <1>3 DEF Closes
  <2>2. CASE k \in 1 .. n /\ code'[k] = code[k]
    <3>1. \/ ~executeCommit /\ currCid = code[k].cid
          \/ \E d \in k + 1 .. n : code[d].op = "destroy" /\ code[d].cid = code[k].cid
      BY <1>3, <2>1, <2>2 DEF Layout, Closes
    <3>2. CASE ~executeCommit /\ currCid = code[k].cid
      BY <1>2, <2>2, <3>2
    <3>3. CASE \E d \in k + 1 .. n : code[d].op = "destroy" /\ code[d].cid = code[k].cid
      <4>1. PICK d \in k + 1 .. n : code[d].op = "destroy" /\ code[d].cid = code[k].cid
        BY <3>3
      <4>2. d \in k + 1 .. l /\ code'[d] = code[d]
        BY <1>3, <2>2, <4>1
      <4> QED
        BY <2>2, <4>1, <4>2
    <3> QED
      BY <3>1, <3>2, <3>3
  <2>3. CASE currCid' = k /\ code'[k].cid = k
    BY <2>3
  <2>4. CASE k = l
    BY <1>4, <2>4
  <2> QED
    BY <1>5, <2>2, <2>3, <2>4
<1>14. FromSource'
  <2>1. SUFFICES ASSUME NEW j \in 1 .. l, code'[j].op = "sched"
                 PROVE  \E b \in DOMAIN prog : \E i \in 1 .. Len(prog[b]) :
                          code'[j].at = <<b, i>> /\ ~commitVector(prog[b], i)
    BY <1>1, <1>3 DEF FromSource
  <2>2. CASE j \in 1 .. n /\ code'[j] = code[j]
    BY <1>3, <2>1, <2>2 DEF Layout, FromSource
  <2>3. CASE j = l
    <3>1. Top.i \in 1 .. Len(prog[Top.blk]) /\ ~commitVector(prog[Top.blk], Top.i)
      BY <1>6, <1>7, TopFrame DEF Block
    <3> QED
      BY <1>4, <1>7, <2>3, <3>1
  <2> QED
    BY <1>5, <2>1, <2>2, <2>3
<1>15. OpenHead'
  <2>1. currCid' \in 1 .. l
    BY <1>3, <1>9
  <2> QED
    BY <1>1, <1>3, <1>7, <1>8, <1>9, <2>1 DEF OpenHead
<1>16. OpenStatements'
  <2>1. SUFFICES ASSUME NEW j \in 1 .. l, code'[j].op = "sched", code'[j].cid = currCid'
                 PROVE  /\ code'[j].at[1] = Top.blk /\ code'[j].at[2] \in Nat
                        /\ code'[j].at[2] < Top.i + 1
    BY <1>3, <1>8 DEF OpenStatements
  <2>2. CASE j = l
    <3>1. <<Top.blk, Top.i>>[1] = Top.blk /\ <<Top.blk, Top.i>>[2] = Top.i
      OBVIOUS
    <3> QED
      BY <1>4, <1>7, <2>2, <3>1
  <2>3. CASE j \in 1 .. n /\ code'[j] = code[j]
    <3>1. ~executeCommit /\ code[j].cid = currCid
      BY <1>11, <2>1, <2>3
    <3>2. /\ code[j].at[1] = Top.blk /\ code[j].at[2] \in Nat
          /\ code[j].at[2] < Top.i
      BY <1>3, <2>1, <2>3, <3>1 DEF Layout, OpenStatements
    <3> QED
      BY <1>7, <2>3, <3>2
  <2> QED
    BY <1>5, <2>1, <2>2, <2>3
<1> QED
  BY <1>10, <1>12, <1>13, <1>14, <1>15, <1>16

LEMMA LayoutStep ==
  ASSUME StackInv, MemberInv, ContextInv, BasicBlockInv, FlowInv, LayoutInv, [Next]_cgVars
  PROVE  LayoutInv'
<1>1. prog' = prog
  BY ProgramKept
<1>2. SUFFICES ASSUME Structured PROVE Layout'
  BY <1>1 DEF LayoutInv, Structured
<1>3. Flow /\ Layout
  BY <1>2 DEF FlowInv, LayoutInv
<1>4. Forward'
  BY <1>3, ForwardStep DEF Layout
<1>5. /\ MadeBefore /\ Apart /\ Closes /\ FromSource
      /\ ~executeCommit => OpenHead /\ OpenStatements
  BY <1>3 DEF Layout
<1>6. CASE ScheduleStatement /\ ~Fail
  BY <1>3, <1>4, <1>6, LayoutSchedules DEF Layout
<1>7. CASE VisitPlain \/ VisitDeclaration \/ VisitReturn \/ VisitFunction \/ VisitIf
  <2>1. Commits /\ executeCommit' = TRUE
    BY <1>7, InlineCommits DEF Commits
  <2>2. (MadeBefore /\ Apart /\ Closes /\ FromSource)'
    BY <1>1, <1>5, <2>1, LayoutCommits
  <2> QED
    BY <1>4, <2>1, <2>2 DEF Layout
<1>8. CASE LeaveThen \/ LeaveElse \/ LeaveFunction \/ LeaveRoot
  <2>1. executeCommit
    BY <1>3, <1>5, <1>8, ClosedAtBlockEnd
  <2>2. EmitsBranches /\ executeCommit'
    BY <1>8, <2>1, LeaveEmits DEF EmitsBranches
  <2>3. (MadeBefore /\ Apart /\ Closes /\ FromSource)'
    BY <1>1, <1>5, <2>1, <2>2, LayoutBranches
  <2> QED
    BY <1>4, <2>2, <2>3 DEF Layout
<1>9. CASE UNCHANGED cgVars \/ Fail
  <2>1. UNCHANGED <<prog, stack, executeCommit, currCid, justReturned, bb, code>>
    BY <1>9 DEF cgVars, Fail
  <2>2. (MadeBefore /\ Apart /\ Closes /\ FromSource)'
    BY <1>5, <2>1 DEF MadeBefore, Apart, Closes, FromSource
  <2>3. (~executeCommit => OpenHead /\ OpenStatements)'
    BY <1>5, <2>1 DEF OpenHead, OpenStatements, Top
  <2> QED
    BY <1>4, <2>2, <2>3 DEF Layout
<1> QED
  BY <1>6, <1>7, <1>8, <1>9 DEF Next

LEMMA LayoutInit ==
  ASSUME Init
  PROVE  LayoutInv
<1>1. Len(code) = 0 /\ executeCommit
  BY EmptySeq DEF Init
<1>2. 1 .. Len(code) = {}
  BY <1>1
<1> QED
  BY <1>1, <1>2 DEF LayoutInv, Layout, MadeBefore, Apart, Closes, FromSource, Forward

-----------------------------------------------------------------------------

(***************************************************************************)
(* The code main runs: that of a structured program with one group.        *)
(***************************************************************************)
GroupOp(k) == k \in 1 .. Len(code) /\ code[k].op \in {"sched", "recon", "destroy"}

\* The group lies between its make and its destroy, in one basic block.
Bracketed ==
  /\ \A k : GroupOp(k) => \E m \in 1 .. Len(code) : Is(m, "make")
  /\ \A m, k : Is(m, "make") /\ GroupOp(k) =>
       m < k /\ code[k].bb = code[m].bb /\ code[k].cid = m
  /\ \A m : Is(m, "make") => \E d \in 1 .. Len(code) : Is(d, "destroy")
  /\ \A k, d : Is(d, "destroy") /\ (Is(k, "sched") \/ Is(k, "recon")) => k < d
  /\ \A d, e : Is(d, "destroy") /\ Is(e, "destroy") => d = e

\* Each statement of the group has one recon call, after it is scheduled.
Paired ==
  /\ \A j, k :
       /\ Is(j, "sched") /\ Is(k, "sched")
       /\ code[j].at = code[k].at \/ code[j].id = code[k].id
       => j = k
  /\ \A q, r : Is(q, "recon") /\ Is(r, "recon") /\ code[q].id = code[r].id => q = r
  /\ \A r : Is(r, "recon") => \E j \in 1 .. r - 1 :
       Is(j, "sched") /\ code[j].id = code[r].id /\ code[j].ty = code[r].ty
  /\ \A j : Is(j, "sched") => \E r \in j + 1 .. Len(code) :
       Is(r, "recon") /\ code[j].id = code[r].id
  /\ \A j : Is(j, "sched") => code[j].at \in Task \ {Main}

\* Main can follow the instructions of a basic block to its terminator and beyond.
Followed ==
  /\ Len(code) \in Nat /\ DOMAIN code = 1 .. Len(code)
  /\ \A k \in 1 .. Len(code) :
       IF Terminates(k) THEN \A q \in 1 .. Len(code) : code[q].bb = code[k].bb => q <= k
       ELSE \E q \in k + 1 .. Len(code) : code[q].bb = code[k].bb
  /\ \A k \in 1 .. Len(code) : \A n : Leads(k, n) =>
       /\ \E q \in 1 .. Len(code) : code[q].bb = n
       /\ \A q \in 1 .. Len(code) : code[q].bb = n => k < q

Executable == Bracketed /\ Paired /\ Followed

CodeInv ==
  /\ StackInv /\ MemberInv /\ ContextInv /\ BasicBlockInv
  /\ FlowInv /\ LayoutInv /\ OneGroupInv

LEMMA CodeExecutable ==
  ASSUME CodeInv, Structured, OneGroup, Compiled, WellFormed
  PROVE  Executable
<1>1. /\ StackInv /\ MemberInv /\ ContextInv /\ Flow /\ Layout
      /\ ReconMatched
  BY DEF CodeInv, FlowInv, LayoutInv, OneGroupInv
<1>2. /\ Len(code) \in Nat /\ DOMAIN code = 1 .. Len(code) /\ nextBB \in Nat
  BY <1>1, LenProperties DEF MemberInv
<1>3. executeCommit
  <2>1. stack = << >> /\ Len(stack) = 0
    BY EmptySeq DEF Compiled
  <2>2. Len(stack) <= 1
    BY <2>1
  <2> QED
    BY <1>1, <2>2 DEF Flow, CurrentBlock, Settled
<1>4. ASSUME NEW m, NEW k, Is(m, "make"), GroupOp(k)
      PROVE  m < k /\ code[k].bb = code[m].bb /\ code[k].cid = m
  <2>1. /\ code[k].cid \in 1 .. k - 1
        /\ code[code[k].cid].op = "make" /\ code[code[k].cid].bb = code[k].bb
    BY <1>1, <1>4 DEF Layout, MadeBefore, GroupOp
  <2>2. k \in 1 .. Len(code) /\ m \in 1 .. Len(code) /\ code[m].op = "make"
    BY <1>4 DEF GroupOp, Is
  <2>3. code[k].cid \in 1 .. Len(code)
    BY <1>2, <2>1, <2>2
  <2>4. code[k].cid = m
    BY <2>1, <2>2, <2>3 DEF OneGroup
  <2> QED
    BY <1>2, <2>1, <2>2, <2>4
<1>5. ASSUME NEW k, GroupOp(k) PROVE \E m \in 1 .. Len(code) : Is(m, "make")
  <2>1. k \in 1 .. Len(code) /\ code[k].cid \in 1 .. k - 1 /\ code[code[k].cid].op = "make"
    BY <1>1, <1>5 DEF Layout, MadeBefore, GroupOp
  <2>2. code[k].cid \in 1 .. Len(code)
    BY <1>2, <2>1
  <2> QED
    BY <2>1, <2>2 DEF Is
<1>6. ASSUME NEW k, Is(k, "make") \/ Is(k, "sched") \/ Is(k, "recon")
      PROVE  \E d \in k + 1 .. Len(code) : Is(d, "destroy") /\ code[d].cid = code[k].cid
  <2>1. k \in 1 .. Len(code) /\ code[k].op \in {"make", "sched", "recon"}
    BY <1>6 DEF Is
  <2>2. PICK d \in k + 1 .. Len(code) : code[d].op = "destroy" /\ code[d].cid = code[k].cid
    BY <1>1, <1>3, <2>1 DEF Layout, Closes
  <2>3. d \in 1 .. Len(code)
    BY <1>2, <2>1, <2>2
  <2> QED
    BY <2>2, <2>3 DEF Is
<1>7. ASSUME NEW d, NEW e, Is(d, "destroy"), Is(e, "destroy") PROVE d = e
  <2>1. GroupOp(d) /\ GroupOp(e)
    BY <1>7 DEF GroupOp, Is
  <2>2. PICK m \in 1 .. Len(code) : Is(m, "make")
    BY <1>5, <2>1
  <2>3. code[d].cid = code[e].cid
    BY <1>4, <2>1, <2>2
  <2> QED
    BY <1>1, <1>7, <2>3 DEF ContextInv, DestroyedOnce, Is
<1>8. Bracketed
  <2>1. ASSUME NEW m, Is(m, "make") PROVE \E d \in 1 .. Len(code) : Is(d, "destroy")
    BY <1>6, <2>1 DEF Is
  <2>2. ASSUME NEW k, NEW d, Is(d, "destroy"), Is(k, "sched") \/ Is(k, "recon") PROVE k < d
    <3>1. PICK e \in k + 1 .. Len(code) : Is(e, "destroy")
      BY <1>6, <2>2
    <3>2. e = d /\ k \in 1 .. Len(code)
      BY <1>7, <2>2, <3>1 DEF Is
    <3> QED
      BY <1>2, <3>1, <3>2
  <2> QED
    BY <1>4, <1>5, <1>7, <2>1, <2>2 DEF Bracketed
<1>9. ASSUME NEW j, NEW k, GroupOp(j), GroupOp(k) PROVE code[j].cid = code[k].cid
  <2>1. PICK m \in 1 .. Len(code) : Is(m, "make")
    BY <1>5, <1>9
  <2> QED
    BY <1>4, <1>9, <2>1
<1>10. ASSUME NEW j, NEW k, Is(j, "sched"), Is(k, "sched"),
              code[j].at = code[k].at \/ code[j].id = code[k].id
       PROVE  j = k
  <2>1. GroupOp(j) /\ GroupOp(k)
    BY <1>10 DEF GroupOp, Is
  <2>2. code[j].cid = code[k].cid
    BY <1>9, <2>1
  <2> QED
    BY <1>1, <1>10, <2>2 DEF Layout, Apart, Is
<1>11. ASSUME NEW j, Is(j, "sched")
       PROVE  \E r \in j + 1 .. Len(code) :
                /\ Is(r, "recon") /\ code[j].id = code[r].id
                /\ \A q : Is(q, "recon") /\ code[q].id = code[r].id => q = r
  <2>1. PICK d \in j + 1 .. Len(code) : Is(d, "destroy") /\ code[d].cid = code[j].cid
    BY <1>6, <1>11
  <2>2. PICK r \in 1 .. Len(code) : JoinedBy(j, d, r)
    <3>1. /\ j \in 1 .. Len(code) /\ d \in 1 .. Len(code) /\ j < d
          /\ code[d].op = "destroy" /\ code[j].op = "sched"
      BY <1>2, <1>11, <2>1 DEF Is
    <3> QED
      BY <1>1, <2>1, <3>1 DEF ContextInv, JoinedInv
  <2>3. /\ Is(r, "recon") /\ j < r /\ code[r].id = code[j].id
        /\ \A q \in 1 .. Len(code) :
             code[q].op = "recon" /\ q # r /\ code[q].cid = code[r].cid =>
               code[q].id # code[r].id
    BY <2>2 DEF JoinedBy
  <2>4. r \in j + 1 .. Len(code)
    BY <1>2, <1>11, <2>3 DEF Is
  <2>5. ASSUME NEW q, Is(q, "recon"), code[q].id = code[r].id PROVE q = r
    <3>1. code[q].cid = code[r].cid
      BY <1>9, <2>3, <2>5 DEF GroupOp, Is
    <3> QED
      BY <2>3, <2>5, <3>1 DEF Is
  <2> QED
    BY <2>3, <2>4, <2>5
<1>12. ASSUME NEW r, Is(r, "recon")
       PROVE  \E j \in 1 .. r - 1 :
                Is(j, "sched") /\ code[j].id = code[r].id /\ code[j].ty = code[r].ty
  <2>1. PICK j \in 1 .. Len(code) :
          /\ code[j].op = "sched" /\ j < r
          /\ code[j].id = code[r].id /\ code[j].ty = code[r].ty
    BY <1>1, <1>12 DEF ReconMatched, Is
  <2>2. j \in 1 .. r - 1
    BY <1>2, <1>12, <2>1 DEF Is
  <2> QED
    BY <2>1, <2>2 DEF Is
<1>13. Paired
  <2>1. ASSUME NEW q, NEW r, Is(q, "recon"), Is(r, "recon"), code[q].id = code[r].id
        PROVE  q = r
    <3>1. PICK j \in 1 .. r - 1 : Is(j, "sched") /\ code[j].id = code[r].id
      BY <1>12, <2>1
    <3>2. PICK x \in j + 1 .. Len(code) :
            /\ code[j].id = code[x].id
            /\ \A y : Is(y, "recon") /\ code[y].id = code[x].id => y = x
      BY <1>11, <3>1
    <3> QED
      BY <2>1, <3>1, <3>2
  <2>2. ASSUME NEW j, Is(j, "sched") PROVE code[j].at \in Task \ {Main}
    <3>1. PICK b \in DOMAIN prog : \E i \in 1 .. Len(prog[b]) :
            code[j].at = <<b, i>> /\ ~commitVector(prog[b], i)
      BY <1>1, <2>2 DEF Layout, FromSource, Is
    <3>2. PICK i \in 1 .. Len(prog[b]) : code[j].at = <<b, i>> /\ ~commitVector(prog[b], i)
      BY <3>1
    <3>3. prog \in Programs
      BY <1>1 DEF StackInv
    <3>4. i \in DOMAIN prog[b]
      BY <3>1, <3>2, <3>3, ProgramsAssumption, LenProperties
    <3> QED
      BY <3>1, <3>2, <3>3, <3>4, StatementsAssumption
  <2> QED
    BY <1>10, <1>11, <1>12, <2>1, <2>2 DEF Paired
<1>14. ASSUME NEW k \in 1 .. Len(code)
       PROVE  /\ code[k].bb \in 0 .. nextBB - 1
              /\ Terminates(k) <=> \A q \in 1 .. Len(code) : code[q].bb = code[k].bb => q <= k
  <2>1. PICK n \in 0 .. nextBB - 1 : n = code[k].bb
    <3>1. code[k].bb \in Nat /\ code[k].bb < nextBB
      BY <1>1 DEF Flow, Placed
    <3>2. code[k].bb \in 0 .. nextBB - 1
      BY <1>2, <3>1
    <3> QED
      BY <3>2
  <2> QED
    BY <1>2, <2>1 DEF WellFormed, Terminates
<1>15. Followed
  <2>1. ASSUME NEW k \in 1 .. Len(code), ~Terminates(k)
        PROVE  \E q \in k + 1 .. Len(code) : code[q].bb = code[k].bb
    <3>1. PICK q \in 1 .. Len(code) : code[q].bb = code[k].bb /\ ~(q <= k)
      BY <1>14, <2>1
    <3>2. q \in k + 1 .. Len(code)
      BY <1>2, <3>1
    <3> QED
      BY <3>1, <3>2
  <2>2. ASSUME NEW k \in 1 .. Len(code), NEW n, Leads(k, n)
        PROVE  /\ \E q \in 1 .. Len(code) : code[q].bb = n
               /\ \A q \in 1 .. Len(code) : code[q].bb = n => k < q
    <3>1. /\ n \in Nat /\ n < nextBB
          /\ \A q \in 1 .. Len(code) : code[q].bb = n => k < q
      BY <1>1, <2>2 DEF Layout, Forward
    <3>2. n \in 0 .. nextBB - 1
      BY <1>2, <3>1
    <3>3. {q \in DOMAIN code : code[q].bb = n} # {}
      BY <3>2 DEF WellFormed
    <3> QED
      BY <1>2, <3>1, <3>3
  <2> QED
    BY <1>2, <1>14, <2>1, <2>2 DEF Followed
<1> QED
  BY <1>8, <1>13, <1>15 DEF Executable

LEMMA MinOf ==
  ASSUME NEW S, S \subseteq Nat, S # {}
  PROVE  Min(S) \in S /\ \A y \in S : Min(S) <= y
<1>1. PICK x \in S : \A y \in S : ~(<<y, x>> \in OpToRel(<, Nat))
  BY NatLessThanWellFounded, WFMin, Zenon
<1>2. \A y \in S : ~(y < x)
  BY <1>1 DEF OpToRel
<1>3. \A y \in S : x <= y
  BY <1>2
<1> QED
  BY <1>3 DEF Min

LEMMA AfterNext ==
  ASSUME Followed, NEW k \in 1 .. Len(code), ~Terminates(k)
  PROVE  /\ After(k) \in 1 .. Len(code) /\ k < After(k)
         /\ code[After(k)].bb = code[k].bb
         /\ \A q \in 1 .. Len(code) : code[q].bb = code[k].bb /\ k < q => After(k) <= q
<1>1. Len(code) \in Nat /\ DOMAIN code = 1 .. Len(code)
  BY DEF Followed
<1>2. PICK S : S = {j \in DOMAIN code : j > k /\ code[j].bb = code[k].bb}
  OBVIOUS
<1>3. PICK q \in k + 1 .. Len(code) : code[q].bb = code[k].bb
  BY DEF Followed
<1>4. q \in S
  BY <1>1, <1>2, <1>3
<1>5. S \subseteq Nat /\ S # {}
  BY <1>1, <1>2, <1>4
<1>6. Min(S) \in S /\ \A y \in S : Min(S) <= y
  BY <1>5, MinOf
<1>7. After(k) = Min(S)
  BY <1>2 DEF After
<1> QED
  BY <1>1, <1>2, <1>6, <1>7

LEMMA FirstNext ==
  ASSUME Followed, NEW k \in 1 .. Len(code), NEW n, Leads(k, n)
  PROVE  /\ FirstOf(n) \in 1 .. Len(code) /\ k < FirstOf(n) /\ code[FirstOf(n)].bb = n
         /\ \A q \in 1 .. Len(code) : code[q].bb = n => FirstOf(n) <= q
<1>1. Len(code) \in Nat /\ DOMAIN code = 1 .. Len(code)
  BY DEF Followed
<1>2. PICK S : S = {j \in DOMAIN code : code[j].bb = n}
  OBVIOUS
<1>3. /\ \E q \in 1 .. Len(code) : code[q].bb = n
      /\ \A q \in 1 .. Len(code) : code[q].bb = n => k < q
  BY DEF Followed
<1>4. S \subseteq Nat /\ S # {}
  BY <1>1, <1>2, <1>3
<1>5. Min(S) \in S /\ \A y \in S : Min(S) <= y
  BY <1>4, MinOf
<1>6. FirstOf(n) = Min(S)
  BY <1>2 DEF FirstOf
<1> QED
  BY <1>1, <1>2, <1>3, <1>5, <1>6

-----------------------------------------------------------------------------

(***************************************************************************)
(* The run.  Main is inside the group between its make and its destroy.    *)
(***************************************************************************)
Inside ==
  \E m \in 1 .. Len(code) :
    /\ code[m].op = "make" /\ m < ip /\ code[ip].bb = code[m].bb
    /\ \A d \in 1 .. Len(code) : code[d].op = "destroy" => ip <= d

Scheduled(j) == j \in 1 .. Len(code) /\ code[j].op = "sched" /\ j < ip

\* Recon call r, for the statement of j, has returned or has at least taken its future.
Reconciled(j) ==
  \E r \in 1 .. Len(code) : code[r].op = "recon" /\ r < ip /\ code[r].id = code[j].id

Reconciling(j) ==
  rpc \in {"get", "retire"} /\ code[ip].id = code[j].id

Pending(j) == Scheduled(j) /\ ~Reconciled(j) /\ ~Reconciling(j)

Future(j, c) ==
  [cid |-> c, type |-> code[j].ty, id |-> code[j].id, task |-> code[j].at]

Live(t) == status[t] \in {"deferred", "running", "ready"}

GroupRuns(m) ==
  /\ context_map = {cids[m]}
  /\ future_id_map = {Future(j, cids[m]) : j \in {k \in 1 .. Len(code) : Pending(k)}}
  /\ \A j \in 1 .. Len(code) : Scheduled(j) =>
       IF Reconciled(j) THEN status[code[j].at] = "joined"
       ELSE Live(code[j].at) /\ (Reconciling(j) => fv[Main] = code[j].at)
  /\ \A t \in Task \ {Main} :
       (\A j \in 1 .. Len(code) : Scheduled(j) => code[j].at # t) => status[t] = "none"

Quiet ==
  /\ context_map = {} /\ future_id_map = {}
  /\ \A t \in Task \ {Main} : status[t] \in {"none", "joined"}
  /\ (\A m \in 1 .. Len(code) : code[m].op = "make" => ip <= m) =>
       \A t \in Task \ {Main} : status[t] = "none"

\* Where main is in a library call.
CallInv ==
  /\ rpc \in {"next", "get", "retire", "erasing"}
  /\ rpc # "next" => ip \in 1 .. Len(code) /\ status[Main] = "running"
  /\ rpc \in {"get", "retire"} =>
       /\ code[ip].op = "recon"
       /\ \E j \in 1 .. Len(code) : Scheduled(j) /\ Reconciling(j)
  /\ rpc = "retire" => policy[fv[Main]] = "async" /\ status[fv[Main]] = "ready"
  /\ rpc = "erasing" => code[ip].op = "destroy"
  /\ mutex = IF rpc = "erasing" THEN Main ELSE NoTask

RunTypes ==
  /\ policy \in [Task -> {"none", "async", "deferred"}]
  /\ status \in [Task -> Status]
  /\ fv \in [Task -> Task \cup {NoTask}]
  /\ policy[Main] = "none"

Started ==
  /\ Compiled /\ WellFormed
  /\ ip \in 1 .. Len(code)
  /\ cids = [k \in DOMAIN code |-> cids[k]]
  /\ status[Main] \in {"running", "ready"}

RunInv ==
  /\ process = "alive"
  /\ RunTypes /\ CallInv /\ SlotAccounting
  /\ IF ip = 0 THEN status[Main] = "none" ELSE Started
  /\ IF ip # 0 /\ Inside
     THEN /\ status[Main] = "running"
          /\ \A m \in 1 .. Len(code) : code[m].op = "make" => GroupRuns(m)
     ELSE Quiet
  /\ status[Main] = "ready" => rpc = "next" /\ code[ip].op = "ret"

CompiledInv == Structured /\ OneGroup => RunInv

-----------------------------------------------------------------------------

(***************************************************************************)
(* Where the next instruction of main is, inside and outside of the group. *)
(***************************************************************************)
LEMMA GroupInside ==
  ASSUME Executable, GroupOp(ip)
  PROVE  Inside
<1>1. PICK m \in 1 .. Len(code) : Is(m, "make")
  BY DEF Executable, Bracketed
<1>2. m < ip /\ code[ip].bb = code[m].bb
  BY <1>1 DEF Executable, Bracketed
<1>3. Len(code) \in Nat /\ ip \in 1 .. Len(code)
  BY DEF Executable, Followed, GroupOp
<1>4. ASSUME NEW d \in 1 .. Len(code), code[d].op = "destroy" PROVE ip <= d
  <2>1. Is(d, "destroy")
    BY <1>4 DEF Is
  <2>2. CASE Is(ip, "destroy")
    BY <1>3, <2>1, <2>2 DEF Executable, Bracketed
  <2>3. CASE Is(ip, "sched") \/ Is(ip, "recon")
    <3>1. ip < d
      BY <2>1, <2>3 DEF Executable, Bracketed
    <3> QED
      BY <1>3, <3>1
  <2> QED
    BY <2>2, <2>3 DEF GroupOp, Is
<1> QED
  BY <1>1, <1>2, <1>4 DEF Inside, Is

LEMMA InsideGroup ==
  ASSUME Executable, OneGroup, ip \in 1 .. Len(code), Inside
  PROVE  /\ ~Terminates(ip) /\ code[ip].op # "make"
         /\ \E m \in 1 .. Len(code) : Is(m, "make") /\ m < ip /\ code[ip].bb = code[m].bb
<1>1. PICK m \in 1 .. Len(code) :
        /\ code[m].op = "make" /\ m < ip /\ code[ip].bb = code[m].bb
        /\ \A d \in 1 .. Len(code) : code[d].op = "destroy" => ip <= d
  BY DEF Inside
<1>2. Is(m, "make") /\ Len(code) \in Nat
  BY <1>1 DEF Is, Executable, Followed
<1>3. PICK d \in 1 .. Len(code) : Is(d, "destroy")
  BY <1>2 DEF Executable, Bracketed
<1>4. GroupOp(d) /\ ip <= d
  BY <1>1, <1>3 DEF GroupOp, Is
<1>5. code[d].bb = code[ip].bb
  BY <1>1, <1>2, <1>4 DEF Executable, Bracketed
<1>6. ~Terminates(ip)
  <2>1. SUFFICES ASSUME Terminates(ip) PROVE FALSE
    OBVIOUS
  <2>2. d <= ip
    BY <1>3, <1>5, <2>1 DEF Executable, Followed
  <2>3. d = ip
    BY <1>2, <1>4, <2>2
  <2> QED
    BY <1>3, <2>1, <2>3 DEF Terminates, Is
<1>7. code[ip].op # "make"
  <2>1. SUFFICES ASSUME code[ip].op = "make" PROVE FALSE
    OBVIOUS
  <2>2. ip = m
    BY <1>1, <2>1 DEF OneGroup
  <2> QED
    BY <1>1, <1>2, <2>2
<1> QED
  BY <1>1, <1>2, <1>6, <1>7

LEMMA InsideNext ==
  ASSUME Executable, OneGroup, ip \in 1 .. Len(code), Inside, code[ip].op # "destroy",
         code' = code, ip' = After(ip)
  PROVE  /\ Inside' /\ ip' \in 1 .. Len(code) /\ ip < ip'
         /\ \A j \in 1 .. Len(code) :
              /\ Scheduled(j)' <=> Scheduled(j) \/ (j = ip /\ code[ip].op = "sched")
              /\ Reconciled(j)' <=>
                   Reconciled(j) \/ (code[ip].op = "recon" /\ code[ip].id = code[j].id)
<1>1. PICK m \in 1 .. Len(code) :
        /\ code[m].op = "make" /\ m < ip /\ code[ip].bb = code[m].bb
        /\ \A d \in 1 .. Len(code) : code[d].op = "destroy" => ip <= d
  BY DEF Inside
<1>2. Is(m, "make") /\ Len(code) \in Nat
  BY <1>1 DEF Is, Executable, Followed
<1>3. /\ ip' \in 1 .. Len(code) /\ ip < ip' /\ code[ip'].bb = code[ip].bb
      /\ \A q \in 1 .. Len(code) : code[q].bb = code[ip].bb /\ ip < q => ip' <= q
  BY InsideGroup, AfterNext DEF Executable
<1>4. ASSUME NEW k \in 1 .. Len(code), GroupOp(k) PROVE k < ip' <=> k < ip \/ k = ip
  <2>1. code[k].bb = code[ip].bb
    BY <1>1, <1>2, <1>4 DEF Executable, Bracketed
  <2>2. ip < k => ip' <= k
    BY <1>3, <2>1
  <2> QED
    BY <1>2, <1>3, <2>2
<1>5. Inside'
  <2>1. ASSUME NEW d \in 1 .. Len(code), code[d].op = "destroy" PROVE ip' <= d
    <3>1. ip <= d /\ d # ip /\ GroupOp(d)
      BY <1>1, <2>1 DEF GroupOp
    <3> QED
      BY <1>2, <1>3, <1>4, <3>1
  <2>2. m < ip' /\ code[ip'].bb = code[m].bb
    BY <1>1, <1>2, <1>3
  <2> QED
    BY <1>1, <2>1, <2>2 DEF Inside
<1>6. ASSUME NEW j \in 1 .. Len(code)
      PROVE  Scheduled(j)' <=> Scheduled(j) \/ (j = ip /\ code[ip].op = "sched")
  BY <1>4 DEF Scheduled, GroupOp
<1>7. ASSUME NEW j \in 1 .. Len(code)
      PROVE  Reconciled(j)' <=>
               Reconciled(j) \/ (code[ip].op = "recon" /\ code[ip].id = code[j].id)
  BY <1>4 DEF Reconciled, GroupOp
<1> QED
  BY <1>3, <1>5, <1>6, <1>7

LEMMA OutsideNext ==
  ASSUME Executable, ip \in 1 .. Len(code), ~Inside, code[ip].op # "make", code' = code,
         \/ ~Terminates(ip) /\ ip' = After(ip)
         \/ \E n : Leads(ip, n) /\ ip' = FirstOf(n)
  PROVE  ~Inside' /\ ip' \in 1 .. Len(code) /\ ip < ip'
<1>1. Len(code) \in Nat
  BY DEF Executable, Followed
<1>2. CASE ~Terminates(ip) /\ ip' = After(ip)
  <2>1. /\ ip' \in 1 .. Len(code) /\ ip < ip' /\ code[ip'].bb = code[ip].bb
        /\ \A q \in 1 .. Len(code) : code[q].bb = code[ip].bb /\ ip < q => ip' <= q
    BY <1>2, AfterNext DEF Executable
  <2>2. ~Inside'
    <3>1. SUFFICES ASSUME NEW m \in 1 .. Len(code), code[m].op = "make", m < ip',
                          code[ip'].bb = code[m].bb,
                          \A d \in 1 .. Len(code) : code[d].op = "destroy" => ip' <= d
                   PROVE  FALSE
      BY DEF Inside
    <3>2. m < ip
      <4>1. ~(ip < m) /\ m # ip
        BY <1>1, <2>1, <3>1
      <4> QED
        BY <1>1, <4>1
    <3>3. \A d \in 1 .. Len(code) : code[d].op = "destroy" => ip <= d
      BY <1>1, <2>1, <3>1
    <3> QED
      BY <2>1, <3>1, <3>2, <3>3 DEF Inside
  <2> QED
    BY <2>1, <2>2
<1>3. CASE \E n : Leads(ip, n) /\ ip' = FirstOf(n)
  <2>1. PICK n : Leads(ip, n) /\ ip' = FirstOf(n)
    BY <1>3
  <2>2. /\ ip' \in 1 .. Len(code) /\ ip < ip' /\ code[ip'].bb = n
        /\ \A q \in 1 .. Len(code) : code[q].bb = n => ip' <= q
    BY <2>1, FirstNext DEF Executable
  <2>3. ~Inside'
    <3>1. SUFFICES ASSUME NEW m \in 1 .. Len(code), m < ip', code[ip'].bb = code[m].bb
                   PROVE  FALSE
      BY DEF Inside
    <3>2. ip' <= m
      BY <2>2, <3>1
    <3> QED
      BY <1>1, <2>2, <3>1, <3>2
  <2> QED
    BY <2>2, <2>3
<1> QED
  BY <1>2, <1>3

LEMMA EnterGroup ==
  ASSUME Executable, OneGroup, Is(ip, "make"), code' = code, ip' = After(ip)
  PROVE  /\ Inside' /\ ~Inside /\ ip' \in 1 .. Len(code) /\ ip < ip'
         /\ \A j \in 1 .. Len(code) : ~Scheduled(j)'
         /\ \A m \in 1 .. Len(code) : code[m].op = "make" => m = ip
<1>1. Len(code) \in Nat /\ ip \in 1 .. Len(code) /\ code[ip].op = "make" /\ ~Terminates(ip)
  BY DEF Executable, Followed, Is, Terminates
<1>2. /\ ip' \in 1 .. Len(code) /\ ip < ip' /\ code[ip'].bb = code[ip].bb
      /\ \A q \in 1 .. Len(code) : code[q].bb = code[ip].bb /\ ip < q => ip' <= q
  BY <1>1, AfterNext DEF Executable
<1>3. ASSUME NEW k \in 1 .. Len(code), GroupOp(k) PROVE ip' <= k
  BY <1>2, <1>3 DEF Executable, Bracketed
<1>4. Inside'
  BY <1>1, <1>2, <1>3 DEF Inside, GroupOp
<1>5. ASSUME NEW j \in 1 .. Len(code) PROVE ~Scheduled(j)'
  <2>1. SUFFICES ASSUME code[j].op = "sched", j < ip' PROVE FALSE
    BY DEF Scheduled
  <2>2. ip' <= j
    BY <1>3, <2>1 DEF GroupOp
  <2> QED
    BY <1>1, <1>2, <2>1, <2>2
<1>6. \A m \in 1 .. Len(code) : code[m].op = "make" => m = ip
  BY <1>1 DEF OneGroup
<1>7. ~Inside
  BY <1>1, InsideGroup
<1> QED
  BY <1>2, <1>4, <1>5, <1>6, <1>7

-----------------------------------------------------------------------------

(***************************************************************************)
(* What steps that change little preserve.                                 *)
(***************************************************************************)
LEMMA SlotsSame ==
  ASSUME SlotAccounting, thread_count' = thread_count, policy' = policy,
         \A t \in Task : policy[t] = "async" =>
           (status'[t] \in {"running", "ready"} <=> status[t] \in {"running", "ready"})
  PROVE  SlotAccounting'
<1>1. Slots' = Slots
  BY DEF Slots
<1> QED
  BY <1>1 DEF SlotAccounting

LEMMA GroupKept ==
  ASSUME Paired, NEW m \in 1 .. Len(code), GroupRuns(m), code' = code, cids'[m] = cids[m],
         UNCHANGED <<context_map, future_id_map, fv>>,
         \A t \in Task \ {Main} : status'[t] = status[t] \/ (Live(t) /\ Live(t)'),
         \A j \in 1 .. Len(code) :
           /\ Scheduled(j)' <=> Scheduled(j)
           /\ Reconciled(j)' <=> Reconciled(j)
           /\ Reconciling(j)' <=> Reconciling(j)
  PROVE  GroupRuns(m)'
<1>1. {k \in 1 .. Len(code') : Pending(k)'} = {k \in 1 .. Len(code) : Pending(k)}
  BY DEF Pending
<1>2. future_id_map' =
        {Future(j, cids[m])' : j \in {k \in 1 .. Len(code) : Pending(k)}}
  BY DEF GroupRuns, Future
<1>3. future_id_map' = {Future(j, cids[m])' : j \in {k \in 1 .. Len(code') : Pending(k)'}}
  BY <1>1, <1>2
<1>4. ASSUME NEW j \in 1 .. Len(code), Scheduled(j)'
      PROVE  IF Reconciled(j)' THEN status'[code[j].at] = "joined"
             ELSE Live(code[j].at)' /\ (Reconciling(j)' => fv'[Main] = code[j].at)
  <2>1. code[j].at \in Task \ {Main} /\ Scheduled(j)
    BY <1>4 DEF Paired, Scheduled, Is
  <2>2. IF Reconciled(j) THEN status[code[j].at] = "joined"
        ELSE Live(code[j].at) /\ (Reconciling(j) => fv[Main] = code[j].at)
    BY <2>1 DEF GroupRuns
  <2> QED
    BY <2>1, <2>2 DEF Live
<1>5. ASSUME NEW t \in Task \ {Main},
             \A j \in 1 .. Len(code) : Scheduled(j)' => code[j].at # t
      PROVE  status'[t] = "none"
  BY <1>5 DEF GroupRuns, Live
<1>6. context_map' = {cids'[m]}
  BY DEF GroupRuns
<1> QED
  BY <1>3, <1>4, <1>5, <1>6 DEF GroupRuns, Future

LEMMA QuietKept ==
  ASSUME Quiet, code' = code, UNCHANGED <<context_map, future_id_map>>, Len(code) \in Nat,
         ip \in Nat, ip' \in Nat, ip <= ip',
         \A t \in Task \ {Main} : status'[t] = status[t]
  PROVE  Quiet'
<1>1. ASSUME \A m \in 1 .. Len(code) : code[m].op = "make" => ip' <= m
      PROVE  \A m \in 1 .. Len(code) : code[m].op = "make" => ip <= m
  BY <1>1
<1> QED
  BY <1>1 DEF Quiet

LEMMA StartedKept ==
  ASSUME Started, UNCHANGED cgVars, ip' \in 1 .. Len(code),
         cids' = [k \in DOMAIN code |-> cids'[k]], status'[Main] \in {"running", "ready"}
  PROVE  Started'
BY DEF Started, cgVars, Compiled, WellFormed

\* Outside of the calls that block, main is between two calls.
LEMMA BetweenCalls ==
  ASSUME CallInv, code[ip].op \notin {"recon", "destroy"}
  PROVE  rpc = "next" /\ mutex = NoTask
BY DEF CallInv

\* The group main is inside of.
LEMMA CurrentGroup ==
  ASSUME Executable, OneGroup, RunInv, ip # 0, Inside
  PROVE  \E m \in 1 .. Len(code) :
           /\ Is(m, "make") /\ GroupRuns(m) /\ m < ip /\ code[ip].bb = code[m].bb
           /\ \A n \in 1 .. Len(code) : code[n].op = "make" => n = m
<1>1. ip \in 1 .. Len(code)
  BY DEF RunInv, Started
<1>2. PICK m \in 1 .. Len(code) : Is(m, "make") /\ m < ip /\ code[ip].bb = code[m].bb
  BY <1>1, InsideGroup
<1>3. GroupRuns(m)
  BY <1>2 DEF RunInv, Is
<1>4. \A n \in 1 .. Len(code) : code[n].op = "make" => n = m
  BY <1>2 DEF OneGroup, Is
<1> QED
  BY <1>2, <1>3, <1>4

\* A call of the group names its context.
LEMMA CurrentCall ==
  ASSUME Executable, OneGroup, RunInv, ip # 0,
         code[ip].op \in {"sched", "recon", "destroy"}
  PROVE  /\ Inside
         /\ \E m \in 1 .. Len(code) :
              /\ Is(m, "make") /\ GroupRuns(m) /\ m < ip /\ code[ip].cid = m
              /\ \A n \in 1 .. Len(code) : code[n].op = "make" => n = m
<1>1. ip \in 1 .. Len(code)
  BY DEF RunInv, Started
<1>2. GroupOp(ip)
  BY <1>1 DEF GroupOp
<1>3. Inside
  BY <1>2, GroupInside
<1>4. PICK m \in 1 .. Len(code) :
        /\ Is(m, "make") /\ GroupRuns(m) /\ m < ip /\ code[ip].bb = code[m].bb
        /\ \A n \in 1 .. Len(code) : code[n].op = "make" => n = m
  BY <1>3, CurrentGroup
<1>5. code[ip].cid = m
  BY <1>2, <1>4 DEF Executable, Bracketed
<1> QED
  BY <1>3, <1>4, <1>5

\* The future a recon call holds is that of the statement it names.
LEMMA HeldFuture ==
  ASSUME Executable, OneGroup, RunInv, ip # 0, rpc \in {"get", "retire"}
  PROVE  \E j \in 1 .. Len(code) :
           /\ Scheduled(j) /\ ~Reconciled(j) /\ code[ip].id = code[j].id
           /\ code[j].at \in Task \ {Main} /\ fv[Main] = code[j].at /\ Live(code[j].at)
<1>1. code[ip].op = "recon" /\ ip \in 1 .. Len(code) /\ Len(code) \in Nat
  BY DEF RunInv, CallInv, Executable, Followed
<1>2. PICK j \in 1 .. Len(code) : Scheduled(j) /\ Reconciling(j)
  BY DEF RunInv, CallInv
<1>3. PICK m \in 1 .. Len(code) : GroupRuns(m)
  BY <1>1, CurrentCall
<1>4. code[ip].id = code[j].id /\ Is(j, "sched")
  BY <1>2 DEF Reconciling, Scheduled, Is
<1>5. ~Reconciled(j)
  <2>1. SUFFICES ASSUME NEW r \in 1 .. Len(code), code[r].op = "recon", r < ip,
                        code[r].id = code[j].id
                 PROVE  FALSE
    BY DEF Reconciled
  <2>2. r = ip
    BY <1>1, <1>4, <2>1 DEF Executable, Paired, Is
  <2> QED
    BY <1>1, <2>1, <2>2
<1>6. fv[Main] = code[j].at /\ Live(code[j].at)
  BY <1>2, <1>3, <1>5 DEF GroupRuns
<1>7. code[j].at \in Task \ {Main}
  BY <1>4 DEF Executable, Paired
<1> QED
  BY <1>2, <1>4, <1>5, <1>6, <1>7

-----------------------------------------------------------------------------

(***************************************************************************)
(* The steps of main outside of the manager.                               *)
(***************************************************************************)
LEMMA PlainStep ==
  ASSUME Executable, OneGroup, RunInv, ExecStmt \/ ExecCondBr \/ ExecBr
  PROVE  RunInv'
<1>1. /\ status[Main] = "running" /\ code[ip].op \in {"stmt", "condbr", "br"}
      /\ UNCHANGED <<cgVars, managerVars, rpc, cids>>
  BY DEF ExecStmt, ExecCondBr, ExecBr, Fetched
<1>2. /\ code' = code
      /\ UNCHANGED <<context_map, future_id_map, thread_count, mutex, policy, status, fv,
                     process, rpc, cids>>
  BY <1>1 DEF cgVars, managerVars
<1>3. /\ ip # 0 /\ Started /\ RunTypes /\ CallInv /\ SlotAccounting /\ process = "alive"
      /\ ip \in 1 .. Len(code)
  BY <1>1 DEF RunInv, Started
<1>4. rpc = "next" /\ mutex = NoTask
  BY <1>1, <1>3, BetweenCalls
<1>5. Len(code) \in Nat
  BY DEF Executable, Followed
<1>6. RunTypes' /\ CallInv' /\ SlotAccounting'
  BY <1>2, <1>3, <1>4, SlotsSame DEF RunTypes, CallInv
<1>7. CASE Inside
  <2>1. ~Terminates(ip)
    BY <1>3, <1>7, InsideGroup
  <2>2. ip' = After(ip) /\ code[ip].op = "stmt"
    BY <1>1, <2>1 DEF Terminates, ExecStmt, ExecCondBr, ExecBr, Fetched
  <2>3. /\ Inside' /\ ip' \in 1 .. Len(code) /\ ip < ip'
        /\ \A j \in 1 .. Len(code) :
             (Scheduled(j)' <=> Scheduled(j)) /\ (Reconciled(j)' <=> Reconciled(j))
    BY <1>2, <1>3, <1>7, <2>2, InsideNext
  <2>4. PICK m \in 1 .. Len(code) :
          GroupRuns(m) /\ \A n \in 1 .. Len(code) : code[n].op = "make" => n = m
    BY <1>3, <1>7, CurrentGroup
  <2>5. \A j \in 1 .. Len(code) : Reconciling(j)' <=> Reconciling(j)
    BY <1>2, <1>4 DEF Reconciling
  <2>6. GroupRuns(m)'
    BY <1>2, <2>3, <2>4, <2>5, GroupKept DEF Executable
  <2>7. Started' /\ ip' # 0
    BY <1>1, <1>2, <1>3, <2>3, StartedKept DEF Started
  <2> QED
    BY <1>1, <1>2, <1>3, <1>6, <2>3, <2>4, <2>6, <2>7 DEF RunInv
<1>8. CASE ~Inside
  <2>1. \/ ~Terminates(ip) /\ ip' = After(ip)
        \/ \E n : Leads(ip, n) /\ ip' = FirstOf(n)
    BY DEF ExecStmt, ExecCondBr, ExecBr, Fetched, Terminates, Leads
  <2>2. ~Inside' /\ ip' \in 1 .. Len(code) /\ ip < ip'
    BY <1>1, <1>2, <1>3, <1>8, <2>1, OutsideNext
  <2>3. Quiet
    BY <1>8 DEF RunInv
  <2>4. ip \in Nat /\ ip' \in Nat /\ ip <= ip' /\ ip' # 0
    BY <1>3, <1>5, <2>2
  <2>5. Quiet'
    BY <1>2, <1>5, <2>3, <2>4, QuietKept
  <2>6. Started'
    BY <1>1, <1>2, <1>3, <2>2, StartedKept DEF Started
  <2> QED
    BY <1>1, <1>2, <1>3, <1>6, <2>2, <2>4, <2>5, <2>6 DEF RunInv
<1> QED
  BY <1>7, <1>8

LEMMA ReturnsStep ==
  ASSUME Executable, OneGroup, RunInv, ExecRet
  PROVE  RunInv'
<1>1. /\ status[Main] = "running" /\ code[ip].op = "ret"
      /\ status' = [status EXCEPT ![Main] = "ready"]
      /\ UNCHANGED <<cgVars, ip>>
      /\ UNCHANGED <<context_map, future_id_map, thread_count, mutex, policy, fv, process,
                     rpc, cids>>
  BY DEF ExecRet, Fetched, StatementReturns, mainVars
<1>2. /\ ip # 0 /\ Started /\ RunTypes /\ CallInv /\ SlotAccounting /\ process = "alive"
      /\ ip \in 1 .. Len(code) /\ code' = code
  BY <1>1 DEF RunInv, Started, cgVars
<1>3. rpc = "next" /\ mutex = NoTask
  BY <1>1, <1>2, BetweenCalls
<1>4. Len(code) \in Nat
  BY DEF Executable, Followed
<1>5. ~Inside
  BY <1>1, <1>2, InsideGroup DEF Terminates
<1>6. ~Inside'
  BY <1>1, <1>2, <1>5 DEF Inside
<1>7. status'[Main] = "ready" /\ \A t \in Task \ {Main} : status'[t] = status[t]
  BY <1>1, <1>2, StatementsAssumption DEF RunTypes
<1>8. SlotAccounting'
  BY <1>1, <1>2, <1>7, SlotsSame DEF RunTypes
<1>9. RunTypes'
  BY <1>1, <1>2 DEF RunTypes, Status
<1>10. CallInv'
  BY <1>1, <1>2, <1>3 DEF CallInv
<1>11. Quiet
  BY <1>5 DEF RunInv
<1>12. Quiet'
  BY <1>1, <1>2, <1>4, <1>7, <1>11, QuietKept
<1>13. Started'
  BY <1>1, <1>2, <1>7, StartedKept DEF Started
<1> QED
  BY <1>1, <1>2, <1>3, <1>6, <1>8, <1>9, <1>10, <1>12, <1>13 DEF RunInv

LEMMA StartStep ==
  ASSUME MemberInv, RunInv, Start
  PROVE  RunInv'
<1>1. /\ ip = 0 /\ ip' = 1 /\ Compiled /\ WellFormed /\ code # << >>
      /\ cids' = [k \in DOMAIN code |-> 0]
      /\ status' = [status EXCEPT ![Main] = "running"]
      /\ UNCHANGED <<cgVars, context_map, future_id_map, thread_count, mutex, policy, fv,
                     process, rpc>>
  BY DEF Start
<1>2. /\ code' = code /\ Quiet /\ RunTypes /\ CallInv /\ SlotAccounting
      /\ process = "alive" /\ status[Main] = "none"
  BY <1>1 DEF RunInv, cgVars
<1>3. Len(code) \in Nat /\ 1 \in 1 .. Len(code)
  <2>1. Len(code) \in Nat /\ Len(code) # 0
    BY <1>1, EmptySeq, LenProperties DEF MemberInv
  <2> QED
    BY <2>1
<1>4. rpc = "next" /\ mutex = NoTask
  BY <1>1, <1>2 DEF CallInv
<1>5. status'[Main] = "running" /\ \A t \in Task \ {Main} : status'[t] = status[t]
  BY <1>1, <1>2, StatementsAssumption DEF RunTypes
<1>6. SlotAccounting'
  BY <1>1, <1>2, <1>5, SlotsSame DEF RunTypes
<1>7. RunTypes'
  BY <1>1, <1>2 DEF RunTypes, Status
<1>8. CallInv'
  BY <1>1, <1>4 DEF CallInv
<1>9. Quiet'
  BY <1>1, <1>2, <1>3, <1>5, QuietKept
<1>10. Started'
  BY <1>1, <1>2, <1>3, <1>5 DEF Started, cgVars, Compiled, WellFormed
<1>11. ~Inside'
  BY <1>1, <1>2, <1>3 DEF Inside
<1> QED
  BY <1>1, <1>2, <1>5, <1>6, <1>7, <1>8, <1>9, <1>10, <1>11 DEF RunInv

\* The compiler has finished before main starts.
LEMMA CompileStep ==
  ASSUME MemberInv, MemberInv', RunInv, Compile
  PROVE  RunInv'
<1>1. Next /\ UNCHANGED <<managerVars, mainVars>>
  BY DEF Compile
<1>2. UNCHANGED <<context_map, future_id_map, thread_count, mutex, policy, status, fv,
                  process, ip, rpc, cids>>
  BY <1>1 DEF managerVars, mainVars
<1>3. ip = 0
  <2>1. Visiting
    BY <1>1 DEF Next, ScheduleStatement, VisitPlain, VisitDeclaration, VisitReturn,
      VisitFunction, VisitIf, LeaveThen, LeaveElse, LeaveFunction, LeaveRoot, Inline,
      AtEnd, Visiting
  <2> QED
    BY <2>1 DEF RunInv, Started, Compiled, Visiting
<1>4. rpc = "next" /\ CallInv /\ status[Main] = "none"
  BY <1>3 DEF RunInv, CallInv
<1>5. Quiet
  BY <1>3 DEF RunInv
<1>6. Len(code) \in Nat /\ Len(code') \in Nat
  BY LenProperties DEF MemberInv
<1>7. Quiet'
  <2>1. \A m \in 1 .. Len(code) : 0 <= m
    BY <1>6
  <2> QED
    BY <1>2, <1>3, <1>5, <2>1 DEF Quiet
<1>8. CallInv'
  BY <1>2, <1>4 DEF CallInv
<1>9. SlotAccounting' /\ RunTypes'
  BY <1>2, SlotsSame DEF RunInv, RunTypes
<1> QED
  BY <1>2, <1>3, <1>4, <1>7, <1>8, <1>9 DEF RunInv

-----------------------------------------------------------------------------

(***************************************************************************)
(* The calls into the manager.                                             *)
(***************************************************************************)
LEMMA MakeStep ==
  ASSUME Executable, OneGroup, RunInv, ExecMake
  PROVE  RunInv'
<1>1. /\ status[Main] = "running" /\ code[ip].op = "make" /\ process = "alive"
      /\ context_map' = context_map \cup {next_cid}
      /\ cids' = [cids EXCEPT ![ip] = next_cid]
      /\ ip' = After(ip) /\ rpc' = "next"
      /\ UNCHANGED <<cgVars, future_id_map, thread_count, mutex, policy, status, fv, process>>
  BY DEF ExecMake, Fetched, make_context, Continue
<1>2. /\ ip # 0 /\ Started /\ RunTypes /\ CallInv /\ SlotAccounting
      /\ ip \in 1 .. Len(code) /\ code' = code /\ Is(ip, "make")
  BY <1>1 DEF RunInv, Started, cgVars, Is
<1>3. rpc = "next" /\ mutex = NoTask
  BY <1>1, <1>2, BetweenCalls
<1>4. Len(code) \in Nat /\ DOMAIN code = 1 .. Len(code)
  BY DEF Executable, Followed
<1>5. /\ Inside' /\ ~Inside /\ ip' \in 1 .. Len(code) /\ ip < ip'
      /\ \A j \in 1 .. Len(code) : ~Scheduled(j)'
      /\ \A m \in 1 .. Len(code) : code[m].op = "make" => m = ip
  BY <1>1, <1>2, EnterGroup
<1>6. Quiet
  BY <1>5 DEF RunInv
<1>7. context_map = {} /\ future_id_map = {} /\ \A t \in Task \ {Main} : status[t] = "none"
  <2>1. \A m \in 1 .. Len(code) : code[m].op = "make" => ip <= m
    BY <1>2, <1>4, <1>5
  <2> QED
    BY <1>6, <2>1 DEF Quiet
<1>8. cids'[ip] = next_cid /\ cids' = [k \in DOMAIN code |-> cids'[k]]
  BY <1>1, <1>2, <1>4 DEF Started
<1>9. PICK m \in 1 .. Len(code) : m = ip
  BY <1>2
<1>10. GroupRuns(m)'
  <2>1. {k \in 1 .. Len(code') : Pending(k)'} = {}
    BY <1>2, <1>5 DEF Pending
  <2>2. future_id_map' = {Future(j, cids[m])' : j \in {k \in 1 .. Len(code') : Pending(k)'}}
    BY <1>1, <1>7, <2>1
  <2>3. context_map' = {cids'[m]}
    BY <1>1, <1>7, <1>8, <1>9
  <2>4. \A t \in Task \ {Main} : status'[t] = "none"
    BY <1>1, <1>7
  <2>5. \A j \in 1 .. Len(code') : ~Scheduled(j)'
    BY <1>2, <1>5
  <2> QED
    BY <2>2, <2>3, <2>4, <2>5 DEF GroupRuns
<1>11. RunTypes' /\ CallInv' /\ SlotAccounting'
  BY <1>1, <1>2, <1>3, SlotsSame DEF RunTypes, CallInv
<1>12. Started' /\ ip' # 0
  BY <1>1, <1>2, <1>4, <1>5, <1>8, StartedKept
<1> QED
  BY <1>1, <1>2, <1>5, <1>9, <1>10, <1>11, <1>12 DEF RunInv

LEMMA SlotsOfTasks ==
  IsFiniteSet(Slots) /\ Cardinality(Slots) \in Nat
<1>1. Slots \subseteq Task
  BY DEF Slots
<1> QED
  BY <1>1, TaskAssumption, FS_Subset, FS_CardinalityType

LEMMA SlotTaken ==
  ASSUME SlotAccounting, RunTypes, NEW s \in Task, NEW p \in {"async", "deferred"},
         Launch(s, p), status[s] = "none",
         thread_count' = IF p = "async" THEN thread_count + 1 ELSE thread_count
  PROVE  SlotAccounting'
<1>1. CASE p = "async"
  <2>1. Slots' = Slots \cup {s} /\ s \notin Slots
    BY <1>1 DEF Launch, Slots, RunTypes
  <2>2. Cardinality(Slots') = Cardinality(Slots) + 1
    BY <2>1, SlotsOfTasks, FS_AddElement
  <2> QED
    BY <1>1, <2>2 DEF SlotAccounting
<1>2. CASE p = "deferred"
  <2>1. Slots' = Slots
    BY <1>2 DEF Launch, Slots, RunTypes
  <2> QED
    BY <1>2, <2>1 DEF SlotAccounting
<1> QED
  BY <1>1, <1>2

LEMMA SchedStep ==
  ASSUME Executable, OneGroup, RunInv, ExecSched
  PROVE  RunInv'
<1>1. /\ status[Main] = "running" /\ code[ip].op = "sched" /\ process = "alive"
      /\ sched(code[ip].at, code[ip].ty, code[ip].id, cids[code[ip].cid])
      /\ Continue("next") /\ UNCHANGED <<cgVars, cids>>
  BY DEF ExecSched, Fetched
<1>2. /\ ip # 0 /\ Started /\ RunTypes /\ CallInv /\ SlotAccounting
      /\ ip \in 1 .. Len(code) /\ code' = code /\ Is(ip, "sched")
  BY <1>1 DEF RunInv, Started, cgVars, Is
<1>3. rpc = "next" /\ mutex = NoTask
  BY <1>1, <1>2, BetweenCalls
<1>4. Len(code) \in Nat
  BY DEF Executable, Followed
<1>5. PICK m \in 1 .. Len(code) :
        /\ GroupRuns(m) /\ code[ip].cid = m
        /\ \A n \in 1 .. Len(code) : code[n].op = "make" => n = m
  BY <1>1, <1>2, CurrentCall
<1>6. Inside
  BY <1>1, <1>2, CurrentCall
<1>7. PICK i \in 1 .. Len(code), s \in {code[ip].at} : i = ip /\ s = code[i].at
  BY <1>2
<1>8. s \in Task \ {Main}
  BY <1>2, <1>7 DEF Executable, Paired
<1>9. ASSUME NEW j \in 1 .. Len(code), Scheduled(j)
      PROVE  j # i /\ code[j].at # s /\ code[j].id # code[i].id
  <2>1. Is(j, "sched") /\ j < i
    BY <1>7, <1>9 DEF Scheduled, Is
  <2>2. j # i
    BY <1>4, <2>1
  <2> QED
    BY <1>2, <1>7, <2>1, <2>2 DEF Executable, Paired
<1>10. status[s] = "none"
  BY <1>5, <1>8, <1>9 DEF GroupRuns
<1>11. cids[m] \in context_map /\ FuturesAt(cids[m], code[i].ty, code[i].id) = {}
  BY <1>5, <1>9 DEF GroupRuns, Pending, Future, FuturesAt
<1>12. /\ Launch(s, LaunchPolicy)
       /\ thread_count' = IF LaunchPolicy = "async" THEN thread_count + 1 ELSE thread_count
       /\ future_id_map' = future_id_map \cup {Future(i, cids[m])}
       /\ UNCHANGED <<context_map, mutex, fv, process>>
  BY <1>1, <1>5, <1>7, <1>11 DEF sched, addFuture, Future
<1>13. ip' = After(ip) /\ rpc' = "next"
  BY <1>1, <1>12 DEF Continue
<1>14. /\ Inside' /\ ip' \in 1 .. Len(code) /\ ip < ip'
       /\ \A j \in 1 .. Len(code) :
            /\ Scheduled(j)' <=> Scheduled(j) \/ j = i
            /\ Reconciled(j)' <=> Reconciled(j)
  BY <1>1, <1>2, <1>6, <1>7, <1>13, InsideNext
<1>15. ~Reconciled(i)
  <2>1. SUFFICES ASSUME NEW r \in 1 .. Len(code), code[r].op = "recon", r < ip,
                        code[r].id = code[i].id
                 PROVE  FALSE
    BY DEF Reconciled
  <2>2. PICK q \in i + 1 .. Len(code) : Is(q, "recon") /\ code[i].id = code[q].id
    BY <1>2, <1>7 DEF Executable, Paired
  <2>3. q = r
    BY <2>1, <2>2 DEF Executable, Paired, Is
  <2> QED
    BY <1>4, <1>7, <2>1, <2>2, <2>3
<1>16. \A j \in 1 .. Len(code) : ~Reconciling(j) /\ ~Reconciling(j)'
  BY <1>3, <1>13 DEF Reconciling
<1>17. {k \in 1 .. Len(code') : Pending(k)'} = {k \in 1 .. Len(code) : Pending(k)} \cup {i}
  BY <1>2, <1>14, <1>15, <1>16 DEF Pending
<1>18. /\ LaunchPolicy \in {"async", "deferred"}
       /\ status'[s] \in {"running", "deferred"}
       /\ \A t \in Task : t # s => status'[t] = status[t]
  BY <1>2, <1>8, <1>12 DEF Launch, LaunchPolicy, RunTypes
<1>19. GroupRuns(m)'
  <2>1. \A j : Future(j, cids[m])' = Future(j, cids[m])
    BY <1>1, <1>2 DEF Future
  <2>2. future_id_map' = {Future(j, cids[m])' : j \in {k \in 1 .. Len(code') : Pending(k)'}}
    BY <1>5, <1>12, <1>17, <2>1 DEF GroupRuns
  <2>3. ASSUME NEW j \in 1 .. Len(code), Scheduled(j)'
        PROVE  IF Reconciled(j)' THEN status'[code[j].at] = "joined" ELSE Live(code[j].at)'
    <3>1. CASE j = i
      BY <1>2, <1>7, <1>14, <1>15, <1>18, <3>1 DEF Live
    <3>2. CASE Scheduled(j)
      <4>1. code[j].at \in Task \ {s}
        BY <1>9, <3>2 DEF Scheduled, Executable, Paired, Is
      <4> QED
        BY <1>2, <1>5, <1>14, <1>18, <3>2, <4>1 DEF GroupRuns, Live
    <3> QED
      BY <1>14, <2>3, <3>1, <3>2
  <2>4. ASSUME NEW t \in Task \ {Main},
               \A j \in 1 .. Len(code) : Scheduled(j)' => code[j].at # t
        PROVE  status'[t] = "none"
    BY <1>5, <1>7, <1>14, <1>18, <2>4 DEF GroupRuns
  <2>5. context_map' = {cids'[m]}
    BY <1>1, <1>5, <1>12 DEF GroupRuns
  <2> QED
    BY <1>2, <1>16, <2>2, <2>3, <2>4, <2>5 DEF GroupRuns
<1>20. SlotAccounting'
  BY <1>2, <1>8, <1>10, <1>12, <1>18, SlotTaken
<1>21. RunTypes'
  BY <1>2, <1>8, <1>12, <1>18, StatementsAssumption DEF RunTypes, Launch, Status
<1>22. CallInv'
  BY <1>3, <1>12, <1>13 DEF CallInv
<1>23. status'[Main] = "running"
  BY <1>1, <1>8, <1>18, StatementsAssumption
<1>24. Started' /\ ip' # 0
  BY <1>1, <1>2, <1>4, <1>14, <1>23, StartedKept DEF Started
<1> QED
  BY <1>1, <1>2, <1>5, <1>12, <1>14, <1>19, <1>20, <1>21, <1>22, <1>23, <1>24 DEF RunInv

LEMMA TakeStep ==
  ASSUME Executable, OneGroup, RunInv, ReconTake
  PROVE  RunInv'
<1>1. /\ status[Main] = "running" /\ code[ip].op = "recon" /\ process = "alive"
      /\ rpc = "next" /\ reconTake(Main, code[ip].ty, code[ip].id, cids[code[ip].cid])
      /\ Continue("get") /\ UNCHANGED <<cgVars, cids>>
  BY DEF ReconTake, Fetched
<1>2. /\ ip # 0 /\ Started /\ RunTypes /\ CallInv /\ SlotAccounting
      /\ ip \in 1 .. Len(code) /\ code' = code /\ Is(ip, "recon")
  BY <1>1 DEF RunInv, Started, cgVars, Is
<1>3. Len(code) \in Nat
  BY DEF Executable, Followed
<1>4. PICK m \in 1 .. Len(code) :
        /\ GroupRuns(m) /\ code[ip].cid = m
        /\ \A n \in 1 .. Len(code) : code[n].op = "make" => n = m
  BY <1>1, <1>2, CurrentCall
<1>5. Inside
  BY <1>1, <1>2, CurrentCall
<1>6. PICK j \in 1 .. ip - 1 :
        Is(j, "sched") /\ code[j].id = code[ip].id /\ code[j].ty = code[ip].ty
  BY <1>2 DEF Executable, Paired
<1>7. j \in 1 .. Len(code) /\ Scheduled(j) /\ code[j].at \in Task \ {Main}
  BY <1>2, <1>3, <1>6 DEF Scheduled, Is, Executable, Paired
<1>8. ~Reconciled(j)
  <2>1. SUFFICES ASSUME NEW r \in 1 .. Len(code), code[r].op = "recon", r < ip,
                        code[r].id = code[j].id
                 PROVE  FALSE
    BY DEF Reconciled
  <2>2. r = ip
    BY <1>2, <1>6, <2>1 DEF Executable, Paired, Is
  <2> QED
    BY <1>2, <1>3, <2>1, <2>2
<1>9. \A k \in 1 .. Len(code) : Scheduled(k) /\ code[k].id = code[ip].id => k = j
  BY <1>6 DEF Executable, Paired, Scheduled, Is
<1>10. \A k \in 1 .. Len(code) : ~Reconciling(k)
  BY <1>1 DEF Reconciling
<1>11. Pending(j)
  BY <1>7, <1>8, <1>10 DEF Pending
<1>12. FuturesAt(cids[m], code[ip].ty, code[ip].id) = {Future(j, cids[m])}
  <2>1. Future(j, cids[m]) \in future_id_map
    BY <1>4, <1>7, <1>11 DEF GroupRuns
  <2>2. ASSUME NEW f \in future_id_map, f.id = code[ip].id PROVE f = Future(j, cids[m])
    <3>1. PICK k \in 1 .. Len(code) : Pending(k) /\ f = Future(k, cids[m])
      BY <1>4 DEF GroupRuns
    <3>2. code[k].id = code[ip].id
      BY <2>2, <3>1 DEF Future
    <3> QED
      BY <1>9, <3>1, <3>2 DEF Pending
  <2>3. LET f == Future(j, cids[m])
        IN  f.cid = cids[m] /\ f.type = code[ip].ty /\ f.id = code[ip].id
    BY <1>6 DEF Future
  <2> QED
    BY <2>1, <2>2, <2>3 DEF FuturesAt
<1>13. /\ fv' = [fv EXCEPT ![Main] = code[j].at]
       /\ future_id_map' = future_id_map \ {Future(j, cids[m])}
       /\ UNCHANGED <<context_map, thread_count, mutex, policy, status, process>>
  <2>1. cids[m] \in context_map
    BY <1>4 DEF GroupRuns
  <2>2. Future(j, cids[m]).task = code[j].at
    BY DEF Future
  <2> QED
    BY <1>1, <1>4, <1>12, <2>1, <2>2 DEF reconTake
<1>14. ip' = ip /\ rpc' = "get"
  BY <1>1, <1>13 DEF Continue
<1>15. \A k \in 1 .. Len(code) :
         /\ Scheduled(k)' <=> Scheduled(k)
         /\ Reconciled(k)' <=> Reconciled(k)
         /\ Reconciling(k)' <=> code[ip].id = code[k].id
  BY <1>2, <1>14 DEF Scheduled, Reconciled, Reconciling
<1>16. {k \in 1 .. Len(code') : Pending(k)'} = {k \in 1 .. Len(code) : Pending(k)} \ {j}
  BY <1>2, <1>6, <1>9, <1>10, <1>15 DEF Pending
<1>17. GroupRuns(m)'
  <2>1. \A k : Future(k, cids[m])' = Future(k, cids[m])
    BY <1>1, <1>2 DEF Future
  <2>2. \A k \in 1 .. Len(code) :
          Pending(k) /\ Future(k, cids[m]) = Future(j, cids[m]) => k = j
    BY <1>6, <1>9 DEF Pending, Future
  <2>3. future_id_map' = {Future(k, cids[m])' : k \in {x \in 1 .. Len(code') : Pending(x)'}}
    <3>1. future_id_map = {Future(k, cids[m]) : k \in {x \in 1 .. Len(code) : Pending(x)}}
      BY <1>4 DEF GroupRuns
    <3> QED
      BY <1>13, <1>16, <2>1, <2>2, <3>1
  <2>4. fv'[Main] = code[j].at
    BY <1>2, <1>13, StatementsAssumption DEF RunTypes
  <2>5. ASSUME NEW k \in 1 .. Len(code), Scheduled(k)'
        PROVE  IF Reconciled(k)' THEN status'[code[k].at] = "joined"
               ELSE Live(code[k].at)' /\ (Reconciling(k)' => fv'[Main] = code[k].at)
    BY <1>2, <1>4, <1>9, <1>13, <1>15, <2>4, <2>5 DEF GroupRuns, Live
  <2>6. ASSUME NEW t \in Task \ {Main},
               \A k \in 1 .. Len(code) : Scheduled(k)' => code[k].at # t
        PROVE  status'[t] = "none"
    BY <1>4, <1>13, <1>15, <2>6 DEF GroupRuns
  <2>7. context_map' = {cids'[m]}
    BY <1>1, <1>4, <1>13 DEF GroupRuns
  <2> QED
    BY <1>2, <2>3, <2>5, <2>6, <2>7 DEF GroupRuns
<1>18. Inside'
  BY <1>2, <1>5, <1>14 DEF Inside
<1>19. SlotAccounting'
  BY <1>2, <1>13, SlotsSame
<1>20. RunTypes'
  BY <1>2, <1>7, <1>13 DEF RunTypes
<1>21. CallInv'
  BY <1>1, <1>2, <1>6, <1>7, <1>13, <1>14, <1>15 DEF CallInv
<1>22. Started'
  BY <1>1, <1>2, <1>13, <1>14, StartedKept DEF Started
<1> QED
  BY <1>1, <1>2, <1>4, <1>13, <1>14, <1>17, <1>18, <1>19, <1>20, <1>21, <1>22 DEF RunInv

\* get(): main runs a deferred statement itself or waits for a thread to end.
LEMMA GetStep ==
  ASSUME Executable, OneGroup, RunInv, ReconRun \/ ReconGet
  PROVE  RunInv'
<1>1. /\ status[Main] = "running" /\ code[ip].op = "recon" /\ process = "alive"
      /\ rpc = "get" /\ UNCHANGED <<cgVars, cids, ip>>
      /\ UNCHANGED <<context_map, future_id_map, thread_count, mutex, policy, fv, process>>
  BY DEF ReconRun, ReconGet, Fetched, reconRunDeferred, reconGetAsync, managerVars,
    mainVars, Continue
<1>2. /\ ip # 0 /\ Started /\ RunTypes /\ CallInv /\ SlotAccounting
      /\ ip \in 1 .. Len(code) /\ code' = code
  BY <1>1 DEF RunInv, Started, cgVars
<1>3. PICK j \in 1 .. Len(code) :
        /\ Scheduled(j) /\ code[ip].id = code[j].id
        /\ code[j].at \in Task \ {Main} /\ fv[Main] = code[j].at
  BY <1>1, <1>2, HeldFuture
<1>4. \/ /\ rpc' = "get" /\ policy[fv[Main]] = "deferred" /\ status[fv[Main]] = "deferred"
         /\ status' = [status EXCEPT ![fv[Main]] = "running"]
      \/ /\ rpc' = "retire" /\ policy[fv[Main]] = "async" /\ status[fv[Main]] = "ready"
         /\ status' = status
  BY <1>1 DEF ReconRun, ReconGet, reconRunDeferred, reconGetAsync, managerVars, mainVars,
    Continue
<1>5. /\ status'[Main] = "running" /\ status' \in [Task -> Status]
      /\ \A t \in Task : t # fv[Main] => status'[t] = status[t]
      /\ \A t \in Task \ {Main} : status'[t] = status[t] \/ (Live(t) /\ Live(t)')
  BY <1>1, <1>2, <1>3, <1>4, StatementsAssumption DEF RunTypes, Status, Live
<1>6. PICK m \in 1 .. Len(code) :
        GroupRuns(m) /\ \A n \in 1 .. Len(code) : code[n].op = "make" => n = m
  BY <1>1, <1>2, CurrentCall
<1>7. Inside /\ Inside'
  BY <1>1, <1>2, CurrentCall DEF Inside
<1>8. \A k \in 1 .. Len(code) :
        /\ Scheduled(k)' <=> Scheduled(k)
        /\ Reconciled(k)' <=> Reconciled(k)
        /\ Reconciling(k)' <=> Reconciling(k)
  BY <1>1, <1>2, <1>4 DEF Scheduled, Reconciled, Reconciling
<1>9. GroupRuns(m)'
  BY <1>1, <1>2, <1>5, <1>6, <1>8, GroupKept DEF Executable
<1>10. SlotAccounting'
  <2>1. \A t \in Task : policy[t] = "async" => status'[t] = status[t]
    BY <1>4, <1>5
  <2> QED
    BY <1>1, <1>2, <2>1, SlotsSame
<1>11. RunTypes'
  BY <1>1, <1>2, <1>5 DEF RunTypes
<1>12. CallInv'
  <2>1. Scheduled(j)' /\ Reconciling(j)'
    BY <1>1, <1>3, <1>4, <1>8 DEF Reconciling
  <2>2. rpc' = "retire" => policy'[fv'[Main]] = "async" /\ status'[fv'[Main]] = "ready"
    BY <1>1, <1>4
  <2> QED
    BY <1>1, <1>2, <1>3, <1>4, <1>5, <2>1, <2>2 DEF CallInv
<1>13. Started'
  BY <1>1, <1>2, <1>5, StartedKept DEF Started
<1> QED
  BY <1>1, <1>2, <1>5, <1>6, <1>7, <1>9, <1>10, <1>11, <1>12, <1>13 DEF RunInv

LEMMA SlotReturned ==
  ASSUME SlotAccounting, RunTypes, NEW s \in Task, policy' = policy,
         status' = [status EXCEPT ![s] = "joined"],
         \/ policy[s] = "deferred" /\ thread_count' = thread_count
         \/ /\ policy[s] = "async" /\ status[s] = "ready"
            /\ thread_count' = thread_count - 1
  PROVE  SlotAccounting'
<1>1. CASE policy[s] = "deferred" /\ thread_count' = thread_count
  <2>1. Slots' = Slots
    BY <1>1 DEF Slots, RunTypes
  <2> QED
    BY <1>1, <2>1 DEF SlotAccounting
<1>2. CASE policy[s] = "async" /\ status[s] = "ready" /\ thread_count' = thread_count - 1
  <2>1. Slots' = Slots \ {s} /\ s \in Slots
    BY <1>2 DEF Slots, RunTypes
  <2>2. Cardinality(Slots') = Cardinality(Slots) - 1
    BY <2>1, SlotsOfTasks, FS_RemoveElement
  <2> QED
    BY <1>2, <2>2 DEF SlotAccounting
<1> QED
  BY <1>1, <1>2

\* The recon call returns: its statement is joined.
LEMMA ReconciledStep ==
  ASSUME Executable, OneGroup, RunInv, ReconReturn \/ ReconRetire
  PROVE  RunInv'
<1>1. /\ status[Main] = "running" /\ code[ip].op = "recon" /\ process = "alive"
      /\ rpc \in {"get", "retire"} /\ UNCHANGED <<cgVars, cids>>
      /\ status' = [status EXCEPT ![fv[Main]] = "joined"]
      /\ fv' = [fv EXCEPT ![Main] = NoTask]
      /\ UNCHANGED <<context_map, future_id_map, mutex, policy, process>>
      /\ ip' = After(ip) /\ rpc' = "next"
  BY DEF ReconReturn, ReconRetire, Fetched, reconReturnDeferred, reconRetire, Continue
<1>2. /\ ip # 0 /\ Started /\ RunTypes /\ CallInv /\ SlotAccounting
      /\ ip \in 1 .. Len(code) /\ code' = code
  BY <1>1 DEF RunInv, Started, cgVars
<1>3. Len(code) \in Nat
  BY DEF Executable, Followed
<1>4. PICK j \in 1 .. Len(code) :
        /\ Scheduled(j) /\ ~Reconciled(j) /\ code[ip].id = code[j].id
        /\ code[j].at \in Task \ {Main} /\ fv[Main] = code[j].at
  BY <1>1, <1>2, HeldFuture
<1>5. \/ policy[fv[Main]] = "deferred" /\ thread_count' = thread_count
      \/ /\ policy[fv[Main]] = "async" /\ status[fv[Main]] = "ready"
         /\ thread_count' = thread_count - 1
  BY <1>2 DEF ReconReturn, ReconRetire, reconReturnDeferred, reconRetire, CallInv
<1>6. PICK m \in 1 .. Len(code) :
        GroupRuns(m) /\ \A n \in 1 .. Len(code) : code[n].op = "make" => n = m
  BY <1>1, <1>2, CurrentCall
<1>7. Inside
  BY <1>1, <1>2, CurrentCall
<1>8. /\ Inside' /\ ip' \in 1 .. Len(code) /\ ip < ip'
      /\ \A k \in 1 .. Len(code) :
           /\ Scheduled(k)' <=> Scheduled(k)
           /\ Reconciled(k)' <=> Reconciled(k) \/ code[ip].id = code[k].id
  BY <1>1, <1>2, <1>7, InsideNext
<1>9. \A k \in 1 .. Len(code) :
        ~Reconciling(k)' /\ (Reconciling(k) <=> code[ip].id = code[k].id)
  BY <1>1 DEF Reconciling
<1>10. {k \in 1 .. Len(code') : Pending(k)'} = {k \in 1 .. Len(code) : Pending(k)}
  BY <1>2, <1>8, <1>9 DEF Pending
<1>11. /\ status'[code[j].at] = "joined" /\ status'[Main] = "running"
       /\ \A t \in Task : t # code[j].at => status'[t] = status[t]
  BY <1>1, <1>2, <1>4, StatementsAssumption DEF RunTypes
<1>12. GroupRuns(m)'
  <2>1. future_id_map' =
          {Future(k, cids[m])' : k \in {x \in 1 .. Len(code) : Pending(x)}}
    BY <1>1, <1>2, <1>6 DEF GroupRuns, Future
  <2>2. future_id_map' = {Future(k, cids[m])' : k \in {x \in 1 .. Len(code') : Pending(x)'}}
    BY <1>10, <2>1
  <2>3. ASSUME NEW k \in 1 .. Len(code), Scheduled(k)'
        PROVE  IF Reconciled(k)' THEN status'[code[k].at] = "joined" ELSE Live(code[k].at)'
    <3>1. CASE k = j
      BY <1>4, <1>8, <1>11, <3>1
    <3>2. CASE k # j
      <4>1. Is(k, "sched") /\ Is(j, "sched") /\ Scheduled(k)
        BY <1>4, <1>8, <2>3 DEF Scheduled, Is
      <4>2. code[k].id # code[ip].id /\ code[k].at # code[j].at /\ code[k].at \in Task
        BY <1>4, <3>2, <4>1 DEF Executable, Paired
      <4>3. /\ status'[code[k].at] = status[code[k].at]
            /\ Reconciled(k)' <=> Reconciled(k)
        BY <1>8, <1>11, <4>2
      <4> QED
        BY <1>2, <1>6, <4>1, <4>3 DEF GroupRuns, Live
    <3> QED
      BY <3>1, <3>2
  <2>4. ASSUME NEW t \in Task \ {Main},
               \A k \in 1 .. Len(code) : Scheduled(k)' => code[k].at # t
        PROVE  status'[t] = "none"
    BY <1>4, <1>6, <1>8, <1>11, <2>4 DEF GroupRuns
  <2>5. context_map' = {cids'[m]}
    BY <1>1, <1>6 DEF GroupRuns
  <2> QED
    BY <1>2, <1>9, <2>2, <2>3, <2>4, <2>5 DEF GroupRuns
<1>13. SlotAccounting'
  BY <1>1, <1>2, <1>4, <1>5, SlotReturned
<1>14. RunTypes'
  BY <1>1, <1>2, <1>4 DEF RunTypes, Status
<1>15. CallInv'
  BY <1>1, <1>2 DEF CallInv
<1>16. Started' /\ ip' # 0
  BY <1>1, <1>2, <1>3, <1>8, <1>11, StartedKept DEF Started
<1> QED
  BY <1>1, <1>2, <1>6, <1>8, <1>11, <1>12, <1>13, <1>14, <1>15, <1>16 DEF RunInv

LEMMA LockStep ==
  ASSUME Executable, OneGroup, RunInv, ExecDestroy, rpc = "next"
  PROVE  RunInv'
<1>1. /\ status[Main] = "running" /\ code[ip].op = "destroy" /\ process = "alive"
      /\ destroyLock(Main, cids[code[ip].cid]) /\ Continue("erasing")
      /\ UNCHANGED <<cgVars, cids>>
  BY DEF ExecDestroy, Fetched
<1>2. /\ ip # 0 /\ Started /\ RunTypes /\ CallInv /\ SlotAccounting
      /\ ip \in 1 .. Len(code) /\ code' = code
  BY <1>1 DEF RunInv, Started, cgVars
<1>3. PICK m \in 1 .. Len(code) :
        /\ GroupRuns(m) /\ code[ip].cid = m
        /\ \A n \in 1 .. Len(code) : code[n].op = "make" => n = m
  BY <1>1, <1>2, CurrentCall
<1>4. /\ mutex' = Main
      /\ UNCHANGED <<context_map, future_id_map, thread_count, policy, status, fv, process>>
  BY <1>1, <1>3 DEF destroyLock, GroupRuns
<1>5. ip' = ip /\ rpc' = "erasing"
  BY <1>1, <1>4 DEF Continue
<1>6. Inside /\ Inside'
  BY <1>1, <1>2, <1>5, CurrentCall DEF Inside
<1>7. \A k \in 1 .. Len(code) :
        /\ Scheduled(k)' <=> Scheduled(k)
        /\ Reconciled(k)' <=> Reconciled(k)
        /\ Reconciling(k)' <=> Reconciling(k)
  BY <1>2, <1>5 DEF Scheduled, Reconciled, Reconciling
<1>8. GroupRuns(m)'
  BY <1>1, <1>2, <1>3, <1>4, <1>7, GroupKept DEF Executable
<1>9. SlotAccounting' /\ RunTypes'
  BY <1>2, <1>4, SlotsSame DEF RunTypes
<1>10. CallInv'
  BY <1>1, <1>2, <1>4, <1>5 DEF CallInv
<1>11. Started'
  BY <1>1, <1>2, <1>4, <1>5, StartedKept DEF Started
<1> QED
  BY <1>1, <1>2, <1>3, <1>4, <1>5, <1>6, <1>8, <1>9, <1>10, <1>11 DEF RunInv

\* Every statement of the group is joined when its context is erased.
LEMMA EraseStep ==
  ASSUME Executable, OneGroup, RunInv, ExecDestroy, rpc # "next"
  PROVE  RunInv'
<1>1. /\ status[Main] = "running" /\ code[ip].op = "destroy" /\ process = "alive"
      /\ rpc = "erasing" /\ destroyErase(Main, cids[code[ip].cid]) /\ Continue("next")
      /\ UNCHANGED <<cgVars, cids>>
  BY DEF ExecDestroy, Fetched
<1>2. /\ ip # 0 /\ Started /\ RunTypes /\ CallInv /\ SlotAccounting
      /\ ip \in 1 .. Len(code) /\ code' = code /\ Is(ip, "destroy")
  BY <1>1 DEF RunInv, Started, cgVars, Is
<1>3. Len(code) \in Nat
  BY DEF Executable, Followed
<1>4. PICK m \in 1 .. Len(code) :
        /\ Is(m, "make") /\ GroupRuns(m) /\ m < ip /\ code[ip].cid = m
  BY <1>1, <1>2, CurrentCall
<1>5. /\ mutex' = NoTask /\ context_map' = context_map \ {cids[m]}
      /\ future_id_map' = future_id_map \ FuturesOf(cids[m])
      /\ UNCHANGED <<thread_count, policy, status, fv, process>>
      /\ ip' = After(ip) /\ rpc' = "next"
  BY <1>1, <1>4 DEF destroyErase, Continue
<1>6. ip' \in 1 .. Len(code) /\ ip < ip' /\ ip' # 0
  <2>1. ~Terminates(ip)
    BY <1>1 DEF Terminates
  <2>2. ip' \in 1 .. Len(code) /\ ip < ip'
    BY <1>2, <1>5, <2>1, AfterNext DEF Executable
  <2> QED
    BY <1>3, <2>2
<1>7. ~Inside'
  <2>1. ~(ip' <= ip)
    BY <1>2, <1>3, <1>6
  <2> QED
    BY <1>1, <1>2, <2>1 DEF Inside
<1>8. context_map' = {} /\ future_id_map' = {}
  BY <1>4, <1>5 DEF GroupRuns, FuturesOf, Future
<1>9. ASSUME NEW t \in Task \ {Main} PROVE status'[t] \in {"none", "joined"}
  <2>1. CASE \A j \in 1 .. Len(code) : Scheduled(j) => code[j].at # t
    BY <1>4, <1>5, <2>1 DEF GroupRuns
  <2>2. CASE \E j \in 1 .. Len(code) : Scheduled(j) /\ code[j].at = t
    <3>1. PICK j \in 1 .. Len(code) : Scheduled(j) /\ code[j].at = t
      BY <2>2
    <3>2. PICK r \in j + 1 .. Len(code) : Is(r, "recon") /\ code[j].id = code[r].id
      BY <3>1 DEF Executable, Paired, Scheduled, Is
    <3>3. r < ip
      BY <1>2, <3>2 DEF Executable, Bracketed
    <3>4. Reconciled(j)
      BY <3>2, <3>3 DEF Reconciled, Is
    <3> QED
      BY <1>4, <1>5, <3>1, <3>4 DEF GroupRuns
  <2> QED
    BY <2>1, <2>2
<1>10. Quiet'
  <2>1. ~(ip' <= m)
    BY <1>2, <1>3, <1>4, <1>6
  <2> QED
    BY <1>2, <1>4, <1>8, <1>9, <2>1 DEF Quiet, Is
<1>11. SlotAccounting' /\ RunTypes'
  BY <1>2, <1>5, SlotsSame DEF RunTypes
<1>12. CallInv'
  BY <1>5 DEF CallInv
<1>13. Started'
  BY <1>1, <1>2, <1>5, <1>6, StartedKept DEF Started
<1> QED
  BY <1>1, <1>2, <1>5, <1>6, <1>7, <1>10, <1>11, <1>12, <1>13 DEF RunInv

\* A statement of the group returns, on its thread or inside main's get().
LEMMA LambdaStep ==
  ASSUME ip # 0 => Executable, OneGroup, RunInv, NEW s \in Task, Lambda(s)
  PROVE  RunInv'
<1>1. /\ s # Main /\ status[s] = "running"
      /\ status' = [status EXCEPT ![s] = "ready"]
      /\ UNCHANGED <<context_map, future_id_map, thread_count, mutex, policy, fv, process>>
      /\ UNCHANGED <<cgVars, ip, rpc, cids>>
  BY DEF Lambda, StatementReturns
<1>2. ip # 0 /\ Inside
  <2>1. ~Quiet
    BY <1>1 DEF Quiet
  <2> QED
    BY <2>1 DEF RunInv
<1>3. /\ Executable /\ Started /\ RunTypes /\ CallInv /\ SlotAccounting /\ process = "alive"
      /\ ip \in 1 .. Len(code) /\ code' = code /\ status[Main] = "running"
  BY <1>1, <1>2 DEF RunInv, Started, cgVars
<1>4. PICK m \in 1 .. Len(code) :
        GroupRuns(m) /\ \A n \in 1 .. Len(code) : code[n].op = "make" => n = m
  BY <1>2, <1>3, CurrentGroup
<1>5. /\ status'[s] = "ready" /\ status'[Main] = "running"
      /\ \A t \in Task : t # s => status'[t] = status[t]
  BY <1>1, <1>3, StatementsAssumption DEF RunTypes
<1>6. \A t \in Task \ {Main} : status'[t] = status[t] \/ (Live(t) /\ Live(t)')
  BY <1>1, <1>5 DEF Live
<1>7. \A k \in 1 .. Len(code) :
        /\ Scheduled(k)' <=> Scheduled(k)
        /\ Reconciled(k)' <=> Reconciled(k)
        /\ Reconciling(k)' <=> Reconciling(k)
  BY <1>1, <1>3 DEF Scheduled, Reconciled, Reconciling
<1>8. GroupRuns(m)'
  BY <1>1, <1>3, <1>4, <1>6, <1>7, GroupKept DEF Executable
<1>9. Inside'
  BY <1>1, <1>2, <1>3 DEF Inside
<1>10. SlotAccounting'
  BY <1>1, <1>3, <1>5, SlotsSame
<1>11. RunTypes'
  BY <1>1, <1>3 DEF RunTypes, Status
<1>12. CallInv'
  <2>1. rpc = "retire" => policy[fv[Main]] = "async" /\ status'[fv[Main]] = "ready"
    BY <1>1, <1>3 DEF CallInv, RunTypes
  <2>2. rpc \in {"get", "retire"} =>
          /\ code[ip].op = "recon"
          /\ \E j \in 1 .. Len(code) : Scheduled(j)' /\ Reconciling(j)'
    BY <1>3, <1>7 DEF CallInv
  <2> QED
    BY <1>1, <1>3, <1>5, <2>1, <2>2 DEF CallInv
<1>13. Started'
  BY <1>1, <1>3, <1>5, StartedKept DEF Started
<1> QED
  BY <1>1, <1>2, <1>3, <1>4, <1>5, <1>8, <1>9, <1>10, <1>11, <1>12, <1>13 DEF RunInv

-----------------------------------------------------------------------------

(***************************************************************************)
(* The whole program.                                                      *)
(***************************************************************************)
LEMMA CompiledStep ==
  ASSUME CodeInv, CompiledInv, [ProgramNext]_vars
  PROVE  CodeInv' /\ CompiledInv'
<1>1. [Next]_cgVars
  BY DEF ProgramNext, vars, Compile, MainStep, Start, ExecMake, ExecSched, ReconTake,
    ReconRun, ReconReturn, ReconGet, ReconRetire, ExecDestroy, ExecStmt, ExecCondBr,
    ExecBr, ExecRet, Lambda
<1>2. CodeInv'
  BY <1>1, StackStep, MemberStep, ContextStep, BasicBlockStep, FlowStep, LayoutStep,
    OneGroupStep DEF CodeInv
<1>3. SUFFICES ASSUME Structured', OneGroup' PROVE RunInv'
  BY <1>2 DEF CompiledInv
<1>4. Structured
  BY <1>1, <1>3, ProgramKept DEF Structured
<1>5. OneGroup
  BY <1>1, <1>3, Extended, OneGroupBefore DEF CodeInv
<1>6. RunInv
  BY <1>4, <1>5 DEF CompiledInv
<1>7. ip # 0 => Executable
  BY <1>4, <1>5, <1>6, CodeExecutable DEF RunInv, Started
<1>8. status[Main] = "running" => ip # 0
  BY <1>6 DEF RunInv
<1>9. CASE Compile
  BY <1>2, <1>6, <1>9, CompileStep DEF CodeInv
<1>10. CASE Start
  BY <1>6, <1>10, StartStep DEF CodeInv
<1>11. ASSUME NEW s \in Task, Lambda(s) PROVE RunInv'
  BY <1>5, <1>6, <1>7, <1>11, LambdaStep
<1>12. CASE MainStep /\ ~Start
  <2>1. Executable
    BY <1>7, <1>8, <1>12 DEF MainStep, ExecMake, ExecSched, ReconTake, ReconRun,
      ReconReturn, ReconGet, ReconRetire, ExecDestroy, ExecStmt, ExecCondBr, ExecBr,
      ExecRet, Fetched
  <2> QED
    BY <1>5, <1>6, <1>12, <2>1, MakeStep, SchedStep, TakeStep, GetStep, ReconciledStep,
      LockStep, EraseStep, PlainStep, ReturnsStep DEF MainStep
<1>13. CASE UNCHANGED vars
  <2>1. UNCHANGED <<prog, stack, error, nextBB, code, context_map, future_id_map,
                    thread_count, mutex, policy, status, fv, process, ip, rpc, cids>>
    BY <1>13 DEF vars, cgVars, managerVars, mainVars
  <2>2. RunTypes' /\ SlotAccounting'
    BY <1>6, <2>1, SlotsSame DEF RunInv, RunTypes
  <2>3. /\ CallInv' <=> CallInv
        /\ Inside' <=> Inside
        /\ Quiet' <=> Quiet
        /\ Started' <=> Started
        /\ \A m : GroupRuns(m)' <=> GroupRuns(m)
    BY <2>1 DEF CallInv, Inside, Quiet, Started, Compiled, WellFormed, GroupRuns, Pending,
      Future, Live, Scheduled, Reconciled, Reconciling
  <2> QED
    BY <1>6, <2>1, <2>2, <2>3 DEF RunInv
<1> QED
  BY <1>9, <1>10, <1>11, <1>12, <1>13 DEF ProgramNext

LEMMA CompiledInit ==
  ASSUME ProgramInit
  PROVE  CodeInv /\ CompiledInv
<1>1. Init
  BY DEF ProgramInit
<1>2. CodeInv
  BY <1>1, StackInit, MemberInit, ContextInit, BasicBlockInit, FlowInit, LayoutInit,
    OneGroupInit DEF CodeInv
<1>3. /\ context_map = {} /\ future_id_map = {} /\ thread_count = 0 /\ mutex = NoTask
      /\ policy = [t \in Task |-> "none"] /\ status = [t \in Task |-> "none"]
      /\ fv = [t \in Task |-> NoTask] /\ process = "alive" /\ ip = 0 /\ rpc = "next"
  BY DEF ProgramInit, ManagerInit
<1>4. RunTypes
  BY <1>3, StatementsAssumption DEF RunTypes, Status
<1>5. CallInv
  BY <1>3 DEF CallInv
<1>6. Slots = {}
  BY <1>3 DEF Slots
<1>7. SlotAccounting
  BY <1>3, <1>6, FS_EmptySet DEF SlotAccounting
<1>8. Quiet
  BY <1>3 DEF Quiet
<1>9. status[Main] = "none"
  BY <1>3, StatementsAssumption
<1> QED
  BY <1>2, <1>3, <1>4, <1>5, <1>7, <1>8, <1>9 DEF CompiledInv, RunInv

LEMMA CompiledInvariant == ProgramSpec => [](CodeInv /\ CompiledInv)
<1>1. CodeInv /\ CompiledInv /\ [ProgramNext]_vars => (CodeInv /\ CompiledInv)'
  BY CompiledStep
<1>2. ProgramInit => CodeInv /\ CompiledInv
  BY CompiledInit
<1> QED
  BY <1>1, <1>2, PTL DEF ProgramSpec

(***************************************************************************)
(* The context, id and type of every call visitBlock and its commit emit   *)
(* for a group are ones the manager knows when main makes the call: no     *)
(* assert of add*Future or destroy_context fails and no at() throws, for   *)
(* every structured program with one group, whatever the other threads do. *)
(***************************************************************************)
THEOREM CompiledNeverAborts == ProgramSpec => [](Structured /\ OneGroup => NeverAborts)
<1>1. CompiledInv => (Structured /\ OneGroup => NeverAborts)
  BY DEF CompiledInv, RunInv, NeverAborts
<1> QED
  BY <1>1, CompiledInvariant, PTL

(***************************************************************************)
(* main of such a program returns only after each statement it scheduled   *)
(* is joined by its recon call: none still uses main's frame, every thread *)
(* slot is given back, the context is destroyed and the mutex is free.     *)
(***************************************************************************)
THEOREM CompiledLeavesNothing == ProgramSpec => [](Structured /\ OneGroup => NothingLeft)
<1>1. ASSUME RunInv, Returned PROVE NothingLeft
  <2>1. ip # 0 => ~Inside
    BY <1>1 DEF RunInv, Returned
  <2>2. Quiet
    BY <1>1, <2>1 DEF RunInv
  <2>3. \A t \in Task \ {Main} : status[t] \in {"none", "joined"}
    BY <2>2 DEF Quiet
  <2>4. Slots = {}
    BY <1>1, <2>3, StatementsAssumption DEF RunInv, RunTypes, Slots
  <2>5. thread_count = 0
    BY <1>1, <2>4, FS_EmptySet DEF RunInv, SlotAccounting
  <2>6. mutex = NoTask
    BY <1>1 DEF RunInv, CallInv, Returned
  <2> QED
    BY <2>2, <2>3, <2>5, <2>6 DEF NothingLeft, Quiet
<1>2. CompiledInv => (Structured /\ OneGroup => NothingLeft)
  BY <1>1 DEF CompiledInv, NothingLeft
<1> QED
  BY <1>2, CompiledInvariant, PTL

=============================================================================

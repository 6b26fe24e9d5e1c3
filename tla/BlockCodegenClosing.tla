------------------------- MODULE BlockCodegenClosing -------------------------
(***************************************************************************)
(* In well-formed code every context is destroyed in the basic block that  *)
(* made it.  visitBlock does not see to it: a block may leave a group      *)
(* open.  But the return of the last lambda then stands for a return of    *)
(* the block, so that the visitor leaves the basic block without a branch; *)
(* nothing is emitted into it any more, and the code is not well formed.   *)
(* The second part says which programs have well-formed code.              *)
(***************************************************************************)
EXTENDS BlockCodegenProofs

\* The visitor will never emit into basic block n again.
Sealed(n) ==
  /\ n < nextBB /\ n # bb
  /\ \A f \in 1 .. Len(stack) :
       /\ stack[f].role = "then" => n # stack[f].base + 1
       /\ stack[f].role \in {"then", "else"} => n # stack[f].base + 2

\* A basic block was left without a branch or a return at its end.
Broken ==
  \E k \in 1 .. Len(code) :
    /\ code[k].bb \in Nat /\ Sealed(code[k].bb)
    /\ code[k].op \notin {"ret", "br", "condbr"}
    /\ \A q \in k + 1 .. Len(code) : code[q].bb # code[k].bb

\* The basic blocks that conditionals being visited have set aside.
CurrentInside == Len(stack) >= 2 => bb < nextBB

NotReserved ==
  \A f \in 1 .. Len(stack) :
    /\ stack[f].role = "then" => bb # stack[f].base + 1
    /\ stack[f].role \in {"then", "else"} => bb # stack[f].base + 2

InOrder ==
  \A f, g \in 1 .. Len(stack) :
    f < g /\ stack[f].role \in {"then", "else"} /\ stack[g].role \in {"then", "else"} =>
      stack[f].base + 3 <= stack[g].base

BasicBlockInv == CurrentInside /\ NotReserved /\ InOrder

ClosedInBlock(m) ==
  \E d \in 1 .. Len(code) :
    m < d /\ code[d].op = "destroy" /\ code[d].cid = code[m].cid /\ code[d].bb = code[m].bb

\* The group of m is open and the code ends in its basic block, without a terminator.
OpenHere(m) ==
  /\ ~executeCommit /\ currCid = code[m].cid /\ code[m].bb = bb
  /\ code[Len(code)].op = "sched" /\ code[Len(code)].bb = bb
  /\ justReturned /\ bb < nextBB

ClosingInv ==
  \/ Broken
  \/ \A m \in 1 .. Len(code) : code[m].op = "make" => ClosedInBlock(m) \/ OpenHere(m)

-----------------------------------------------------------------------------

(***************************************************************************)
(* Where the frames of the stack after a step come from: the same frame    *)
(* before, the then block whose else block is visited next, or a visit     *)
(* that begins.                                                            *)
(***************************************************************************)
Same(g) ==
  /\ g \in 1 .. Len(stack)
  /\ stack'[g].base = stack[g].base /\ stack'[g].role = stack[g].role

ThenToElse(g) ==
  /\ g = Len(stack) /\ g = Len(stack')
  /\ stack[g].role = "then" /\ stack'[g].role = "else" /\ stack'[g].base = stack[g].base
  /\ bb' = stack[g].base + 1

Begun(g) ==
  /\ g = Len(stack) + 1 /\ g = Len(stack') /\ bb' = nextBB
  /\ stack'[g].base = nextBB
  /\ \/ stack'[g].role = "body" /\ nextBB' = nextBB + 1
     \/ stack'[g].role = "then" /\ nextBB' = nextBB + 3

\* How a step moves the insertion point.
Stays ==
  /\ bb' = bb /\ nextBB' = nextBB /\ Len(stack') \in Nat /\ Len(stack') <= Len(stack)
  /\ \A g \in 1 .. Len(stack') : Same(g)

Begins == Begun(Len(stack')) /\ \A g \in 1 .. Len(stack) : Same(g)

ResumesElse ==
  /\ nextBB' = nextBB /\ Len(stack) >= 2 /\ Len(stack') = Len(stack)
  /\ ThenToElse(Len(stack))
  /\ \A g \in 1 .. Len(stack') : Same(g) \/ ThenToElse(g)

ResumesMerge ==
  /\ nextBB' = nextBB /\ Len(stack) >= 2 /\ Len(stack') = Len(stack) - 1
  /\ stack[Len(stack)].role \in {"then", "else"} /\ bb' = stack[Len(stack)].base + 2
  /\ \A g \in 1 .. Len(stack') : Same(g)

LEMMA AdvanceSame ==
  ASSUME StackInv, stack # << >>, stack' = Advance(stack)
  PROVE  Len(stack') = Len(stack) /\ \A g \in 1 .. Len(stack') : Same(g)
<1>1. Len(stack) \in Nat /\ Top \in Frames(DOMAIN prog)
  BY TopFrame
<1>2. /\ Len(stack') = Len(stack)
      /\ \A n \in 1 .. Len(stack) - 1 : stack'[n] = stack[n]
      /\ stack'[Len(stack)] = [Top EXCEPT !.i = @ + 1]
  BY AdvanceFrames DEF StackInv, Top
<1>3. stack'[Len(stack)].base = Top.base /\ stack'[Len(stack)].role = Top.role
  BY <1>1, <1>2 DEF Frames
<1>4. ASSUME NEW g \in 1 .. Len(stack') PROVE Same(g)
  <2>1. CASE g = Len(stack)
    BY <1>2, <1>3, <2>1 DEF Same, Top
  <2>2. CASE g # Len(stack)
    <3>1. g \in 1 .. Len(stack) - 1
      BY <1>1, <1>2, <2>2
    <3> QED
      BY <1>2, <3>1 DEF Same
  <2> QED
    BY <2>1, <2>2
<1> QED
  BY <1>2, <1>4

LEMMA PushSame ==
  ASSUME StackInv, NEW b \in DOMAIN prog, NEW base \in Nat,
         NEW role \in {"root", "body", "then", "else"},
         stack' = Append(stack, Frame(b, role, base))
  PROVE  /\ Len(stack') = Len(stack) + 1
         /\ \A g \in 1 .. Len(stack) : Same(g)
         /\ stack'[Len(stack')].base = base /\ stack'[Len(stack')].role = role
<1>1. PICK f \in Frames(DOMAIN prog) : f = Frame(b, role, base)
  BY FrameInFrames
<1>2. /\ Len(stack') = Len(stack) + 1
      /\ \A g \in 1 .. Len(stack) : stack'[g] = stack[g]
      /\ stack'[Len(stack) + 1] = f
  BY <1>1, AppendProperties DEF StackInv
<1>3. f.base = base /\ f.role = role
  BY <1>1 DEF Frame
<1> QED
  BY <1>2, <1>3 DEF Same

LEMMA PopSame ==
  ASSUME StackInv, stack # << >>, Top.role # "root", stack' = Advance(Pop(stack))
  PROVE  Len(stack') = Len(stack) - 1 /\ \A g \in 1 .. Len(stack') : Same(g)
<1>1. /\ Len(stack) \in Nat /\ Len(stack) >= 2
      /\ Pop(stack) # << >> /\ Pop(stack) \in Seq(Frames(DOMAIN prog))
      /\ Len(Pop(stack)) = Len(stack) - 1
      /\ \A n \in 1 .. Len(stack) - 1 : Pop(stack)[n] = stack[n]
      /\ stack[Len(stack) - 1] \in Frames(DOMAIN prog)
  BY Parent
<1>2. PICK p \in Seq(Frames(DOMAIN prog)) : p = Pop(stack) /\ p # << >>
  BY <1>1, Zenon
<1>3. PICK m \in Nat : m = Len(stack) - 1 /\ m >= 1
  BY <1>1
<1>4. Len(p) = m /\ \A n \in 1 .. m : p[n] = stack[n]
  BY <1>1, <1>2, <1>3
<1>5. /\ Len(stack') = Len(p)
      /\ \A n \in 1 .. Len(p) - 1 : stack'[n] = p[n]
      /\ stack'[Len(p)] = [p[Len(p)] EXCEPT !.i = @ + 1]
  BY <1>2, AdvanceFrames, Zenon
<1>6. stack[m] \in Frames(DOMAIN prog) /\ p[m] = stack[m]
  BY <1>1, <1>3, <1>4
<1>7. stack'[m] = [stack[m] EXCEPT !.i = @ + 1]
  BY <1>4, <1>5, <1>6, Zenon
<1>8. stack'[m].base = stack[m].base /\ stack'[m].role = stack[m].role
  BY <1>6, <1>7 DEF Frames
<1>9. ASSUME NEW g \in 1 .. m PROVE Same(g)
  <2>1. g \in 1 .. Len(stack)
    BY <1>1, <1>3
  <2>2. CASE g = m
    BY <1>8, <2>1, <2>2 DEF Same
  <2>3. CASE g # m
    <3>1. g \in 1 .. m - 1
      BY <1>3, <2>3
    <3>2. stack'[g] = p[g] /\ p[g] = stack[g]
      BY <1>4, <1>5, <3>1
    <3> QED
      BY <2>1, <3>2 DEF Same
  <2> QED
    BY <2>2, <2>3
<1> QED
  BY <1>3, <1>4, <1>5, <1>9

LEMMA ElseSame ==
  ASSUME StackInv, stack # << >>, Top.role = "then", NEW b \in DOMAIN prog,
         stack' = Append(Pop(stack), Frame(b, "else", Top.base)), bb' = Top.base + 1
  PROVE  /\ Len(stack') = Len(stack)
         /\ \A g \in 1 .. Len(stack') : Same(g) \/ ThenToElse(g)
         /\ ThenToElse(Len(stack))
<1>1. /\ Len(stack) \in Nat /\ Len(stack) >= 2
      /\ Pop(stack) \in Seq(Frames(DOMAIN prog))
      /\ Len(Pop(stack)) = Len(stack) - 1
      /\ \A n \in 1 .. Len(stack) - 1 : Pop(stack)[n] = stack[n]
  BY Parent
<1>2. Top.base \in Nat
  BY TopFrame
<1>3. PICK f \in Frames(DOMAIN prog) : f = Frame(b, "else", Top.base)
  BY <1>2, FrameInFrames
<1>4. f.base = Top.base /\ f.role = "else"
  BY <1>3 DEF Frame
<1>5. PICK p \in Seq(Frames(DOMAIN prog)) : p = Pop(stack)
  BY <1>1
<1>6. /\ Len(stack') = Len(p) + 1 /\ \A n \in 1 .. Len(p) : stack'[n] = p[n]
      /\ stack'[Len(p) + 1] = f
  BY <1>3, <1>5, AppendProperties
<1>7. PICK n \in Nat : n = Len(stack) /\ n >= 2 /\ Len(p) = n - 1
  BY <1>1, <1>5
<1>8. Len(stack') = n /\ stack'[n] = f /\ \A g \in 1 .. n - 1 : stack'[g] = stack[g]
  BY <1>1, <1>5, <1>6, <1>7
<1>9. ThenToElse(n)
  BY <1>4, <1>7, <1>8 DEF ThenToElse, Top
<1>10. ASSUME NEW g \in 1 .. n PROVE Same(g) \/ ThenToElse(g)
  <2>1. CASE g = n
    BY <1>9, <2>1
  <2>2. CASE g # n
    <3>1. g \in 1 .. n - 1 /\ g \in 1 .. Len(stack)
      BY <1>7, <2>2
    <3> QED
      BY <1>8, <3>1 DEF Same
  <2> QED
    BY <2>1, <2>2
<1> QED
  BY <1>7, <1>8, <1>9, <1>10

LEMMA Moves ==
  ASSUME StackInv, MemberInv, [Next]_cgVars
  PROVE  Stays \/ Begins \/ ResumesElse \/ ResumesMerge
<1>0. Len(stack) \in Nat
  BY LenProperties DEF StackInv
<1>1. ASSUME UNCHANGED <<stack, bb, nextBB>> PROVE Stays
  BY <1>0, <1>1 DEF Stays, Same
<1>2. ASSUME stack # << >>, stack' = Advance(stack), UNCHANGED <<bb, nextBB>> PROVE Stays
  <2>1. Len(stack') = Len(stack) /\ \A g \in 1 .. Len(stack') : Same(g)
    BY <1>2, AdvanceSame
  <2> QED
    BY <1>0, <1>2, <2>1 DEF Stays
<1>3. CASE UNCHANGED cgVars
  BY <1>1, <1>3 DEF cgVars
<1>4. CASE ScheduleStatement
  <2>1. CASE Fail
    BY <1>1, <2>1 DEF Fail
  <2>2. CASE ~Fail
    BY <1>2, <1>4, <2>2, ScheduleEmits DEF ScheduleStatement, Visiting
  <2> QED
    BY <2>1, <2>2
<1>5. CASE VisitPlain \/ VisitDeclaration \/ VisitReturn
  BY <1>2, <1>5 DEF VisitPlain, VisitDeclaration, VisitReturn, Inline, Visiting
<1>6. CASE VisitFunction
  <2>1. /\ stack # << >> /\ Top.i <= Len(Block) /\ Current.kind = "function"
        /\ bb' = nextBB /\ nextBB' = nextBB + 1 /\ nextBB \in Nat
        /\ stack' = Append(stack, Frame(Current.body, "body", nextBB))
    BY <1>6 DEF VisitFunction, Inline, Visiting, MemberInv
  <2>2. PICK b \in DOMAIN prog : b = Current.body
    BY <2>1, TopFrame DEF IsStatement
  <2>3. /\ Len(stack') = Len(stack) + 1 /\ \A g \in 1 .. Len(stack) : Same(g)
        /\ stack'[Len(stack')].base = nextBB /\ stack'[Len(stack')].role = "body"
    <3>1. PICK n \in Nat : n = nextBB
      BY <2>1
    <3> QED
      BY <2>1, <2>2, <3>1, PushSame
  <2> QED
    BY <2>1, <2>3 DEF Begins, Begun
<1>7. CASE VisitIf
  <2>1. /\ stack # << >> /\ Top.i <= Len(Block) /\ Current.kind = "if"
        /\ bb' = nextBB /\ nextBB' = nextBB + 3 /\ nextBB \in Nat
        /\ stack' = Append(stack, Frame(Current.then, "then", nextBB))
    BY <1>7 DEF VisitIf, Inline, Visiting, MemberInv
  <2>2. PICK b \in DOMAIN prog : b = Current.then
    BY <2>1, TopFrame DEF IsStatement
  <2>3. /\ Len(stack') = Len(stack) + 1 /\ \A g \in 1 .. Len(stack) : Same(g)
        /\ stack'[Len(stack')].base = nextBB /\ stack'[Len(stack')].role = "then"
    <3>1. PICK n \in Nat : n = nextBB
      BY <2>1
    <3> QED
      BY <2>1, <2>2, <3>1, PushSame
  <2> QED
    BY <2>1, <2>3 DEF Begins, Begun
<1>8. CASE LeaveThen
  <2>1. stack # << >> /\ Top.role = "then" /\ nextBB' = nextBB
    BY <1>8 DEF LeaveThen, AtEnd, Visiting
  <2>2. PICK else :
          /\ else = prog[stack[Len(stack) - 1].blk][stack[Len(stack) - 1].i].else
          /\ IF else # "none"
             THEN stack' = Append(Pop(stack), Frame(else, "else", Top.base)) /\ bb' = Top.base + 1
             ELSE stack' = Advance(Pop(stack)) /\ bb' = Top.base + 2
    BY <1>8 DEF LeaveThen
  <2>3. Len(stack) >= 2
    BY <2>1, Parent
  <2>4. CASE else # "none"
    <3>1. prog[stack[Len(stack) - 1].blk][stack[Len(stack) - 1].i].kind = "if"
      BY <2>1, TopFrame DEF FrameOK, ThenOK, Top
    <3>2. else \in DOMAIN prog
      BY <2>1, <2>2, <2>4, <3>1, Parent DEF IsStatement
    <3>3. /\ Len(stack') = Len(stack) /\ ThenToElse(Len(stack))
          /\ \A g \in 1 .. Len(stack') : Same(g) \/ ThenToElse(g)
      BY <2>1, <2>2, <2>4, <3>2, ElseSame
    <3> QED
      BY <2>1, <2>3, <3>3 DEF ResumesElse
  <2>5. CASE else = "none"
    BY <2>1, <2>2, <2>3, <2>5, PopSame DEF ResumesMerge, Top
  <2> QED
    BY <2>4, <2>5
<1>9. CASE LeaveElse
  <2>1. /\ stack # << >> /\ Top.role = "else" /\ nextBB' = nextBB
        /\ stack' = Advance(Pop(stack)) /\ bb' = Top.base + 2
    BY <1>9 DEF LeaveElse, AtEnd, Visiting
  <2>2. Len(stack) >= 2
    BY <2>1, Parent
  <2> QED
    BY <2>1, <2>2, PopSame DEF ResumesMerge, Top
<1>10. CASE LeaveFunction
  <2>1. /\ stack # << >> /\ Top.role = "body" /\ nextBB' = nextBB /\ bb' = bb
        /\ stack' = Advance(Pop(stack))
    BY <1>10 DEF LeaveFunction, AtEnd, Visiting
  <2>2. Len(stack) >= 2
    BY <2>1, Parent
  <2>3. Len(stack') = Len(stack) - 1 /\ \A g \in 1 .. Len(stack') : Same(g)
    BY <2>1, PopSame
  <2> QED
    BY <1>0, <2>1, <2>2, <2>3 DEF Stays
<1>11. CASE LeaveRoot
  <2>1. stack' = << >> /\ bb' = bb /\ nextBB' = nextBB /\ Len(<< >>) = 0
    BY <1>11, EmptySeq DEF LeaveRoot
  <2> QED
    BY <1>0, <2>1 DEF Stays
<1> QED
  BY <1>3, <1>4, <1>5, <1>6, <1>7, <1>8, <1>9, <1>10, <1>11 DEF Next

LEMMA FrameBase ==
  ASSUME StackInv, NEW f \in 1 .. Len(stack)
  PROVE  /\ stack[f].base \in Nat
         /\ stack[f].role \in {"then", "else"} => stack[f].base + 3 <= nextBB
<1>1. stack[f] \in Frames(DOMAIN prog) /\ BaseOK(f)
  BY ElementOfSeq DEF StackInv, FrameOK
<1> QED
  BY <1>1 DEF Frames, BaseOK

LEMMA SealedStep ==
  ASSUME StackInv, MemberInv, [Next]_cgVars, NEW n \in Nat, Sealed(n)
  PROVE  Sealed(n)'
<1>1. /\ n < nextBB /\ n # bb /\ nextBB \in Nat /\ bb \in Nat
      /\ \A f \in 1 .. Len(stack) :
           /\ stack[f].role = "then" => n # stack[f].base + 1
           /\ stack[f].role \in {"then", "else"} => n # stack[f].base + 2
  BY DEF Sealed, MemberInv
<1>2. Len(stack) \in Nat
  BY LenProperties DEF StackInv
<1>3. CASE Stays
  BY <1>1, <1>3 DEF Stays, Same, Sealed
<1>4. CASE Begins
  <2>1. n < nextBB' /\ n # bb'
    BY <1>1, <1>4 DEF Begins, Begun
  <2>2. ASSUME NEW g \in 1 .. Len(stack')
        PROVE  /\ stack'[g].role = "then" => n # stack'[g].base + 1
               /\ stack'[g].role \in {"then", "else"} => n # stack'[g].base + 2
    <3>1. CASE g \in 1 .. Len(stack)
      BY <1>1, <1>4, <3>1 DEF Begins, Same
    <3>2. CASE g \notin 1 .. Len(stack)
      <4>1. g = Len(stack') /\ stack'[g].base = nextBB
        BY <1>2, <1>4, <3>2 DEF Begins, Begun
      <4> QED
        BY <1>1, <4>1
    <3> QED
      BY <3>1, <3>2
  <2> QED
    BY <2>1, <2>2 DEF Sealed
<1>5. CASE ResumesElse
  <2>1. Len(stack) \in 1 .. Len(stack)
    BY <1>2, <1>5 DEF ResumesElse
  <2>2. n < nextBB' /\ n # bb'
    BY <1>1, <1>5, <2>1 DEF ResumesElse, ThenToElse
  <2>3. ASSUME NEW g \in 1 .. Len(stack')
        PROVE  /\ stack'[g].role = "then" => n # stack'[g].base + 1
               /\ stack'[g].role \in {"then", "else"} => n # stack'[g].base + 2
    <3>1. g \in 1 .. Len(stack) /\ (Same(g) \/ ThenToElse(g))
      BY <1>5 DEF ResumesElse
    <3> QED
      BY <1>1, <3>1 DEF Same, ThenToElse
  <2> QED
    BY <2>2, <2>3 DEF Sealed
<1>6. CASE ResumesMerge
  <2>1. Len(stack) \in 1 .. Len(stack)
    BY <1>2, <1>6 DEF ResumesMerge
  <2>2. n < nextBB' /\ n # bb'
    BY <1>1, <1>6, <2>1 DEF ResumesMerge
  <2>3. ASSUME NEW g \in 1 .. Len(stack')
        PROVE  /\ stack'[g].role = "then" => n # stack'[g].base + 1
               /\ stack'[g].role \in {"then", "else"} => n # stack'[g].base + 2
    BY <1>1, <1>6 DEF ResumesMerge, Same
  <2> QED
    BY <2>2, <2>3 DEF Sealed
<1> QED
  BY <1>3, <1>4, <1>5, <1>6, Moves

LEMMA BasicBlockStep ==
  ASSUME StackInv, MemberInv, BasicBlockInv, [Next]_cgVars
  PROVE  BasicBlockInv'
<1>1. Len(stack) \in Nat /\ bb \in Nat /\ nextBB \in Nat
  BY LenProperties DEF StackInv, MemberInv
<1>2. CurrentInside /\ NotReserved /\ InOrder
  BY DEF BasicBlockInv
<1>3. \A f \in 1 .. Len(stack) :
        /\ stack[f].base \in Nat
        /\ stack[f].role \in {"then", "else"} => stack[f].base + 3 <= nextBB
  BY FrameBase
<1>4. CASE Stays
  <2>1. CurrentInside'
    BY <1>1, <1>2, <1>4 DEF Stays, CurrentInside
  <2>2. NotReserved'
    BY <1>2, <1>4 DEF Stays, Same, NotReserved
  <2>3. InOrder'
    BY <1>2, <1>4 DEF Stays, Same, InOrder
  <2> QED
    BY <2>1, <2>2, <2>3 DEF BasicBlockInv
<1>5. CASE Begins
  <2>1. /\ Len(stack') = Len(stack) + 1 /\ bb' = nextBB /\ nextBB' > nextBB
        /\ stack'[Len(stack')].base = nextBB /\ nextBB' \in Nat
    BY <1>1, <1>5 DEF Begins, Begun
  <2>2. CurrentInside'
    BY <1>1, <2>1 DEF CurrentInside
  <2>3. NotReserved'
    <3>1. SUFFICES ASSUME NEW g \in 1 .. Len(stack')
                   PROVE  /\ stack'[g].role = "then" => bb' # stack'[g].base + 1
                          /\ stack'[g].role \in {"then", "else"} => bb' # stack'[g].base + 2
      BY DEF NotReserved
    <3>2. CASE g \in 1 .. Len(stack)
      BY <1>1, <1>3, <1>5, <2>1, <3>2 DEF Begins, Same
    <3>3. CASE g \notin 1 .. Len(stack)
      <4>1. g = Len(stack')
        BY <1>1, <2>1, <3>3
      <4> QED
        BY <1>1, <2>1, <4>1
    <3> QED
      BY <3>2, <3>3
  <2>4. InOrder'
    <3>1. SUFFICES ASSUME NEW f \in 1 .. Len(stack'), NEW g \in 1 .. Len(stack'), f < g,
                          stack'[f].role \in {"then", "else"},
                          stack'[g].role \in {"then", "else"}
                   PROVE  stack'[f].base + 3 <= stack'[g].base
      BY DEF InOrder
    <3>2. f \in 1 .. Len(stack) /\ Same(f)
      BY <1>1, <1>5, <2>1, <3>1 DEF Begins
    <3>3. CASE g \in 1 .. Len(stack)
      BY <1>2, <1>5, <3>1, <3>2, <3>3 DEF Begins, Same, InOrder
    <3>4. CASE g \notin 1 .. Len(stack)
      <4>1. g = Len(stack')
        BY <1>1, <2>1, <3>4
      <4> QED
        BY <1>3, <2>1, <3>1, <3>2, <4>1 DEF Same
    <3> QED
      BY <3>3, <3>4
  <2> QED
    BY <2>2, <2>3, <2>4 DEF BasicBlockInv
<1>6. ASSUME NEW t \in 1 .. Len(stack), t = Len(stack), stack[t].role \in {"then", "else"},
             NEW b \in {stack[t].base + 1, stack[t].base + 2},
             NEW f \in 1 .. Len(stack), f # t, stack[f].role \in {"then", "else"}
      PROVE  b # stack[f].base + 1 /\ b # stack[f].base + 2
  <2>1. f < t
    BY <1>1, <1>6
  <2>2. stack[f].base + 3 <= stack[t].base
    BY <1>2, <1>6, <2>1 DEF InOrder
  <2> QED
    BY <1>3, <1>6, <2>2
<1>7. CASE ResumesElse
  <2>1. PICK t \in 1 .. Len(stack) : t = Len(stack)
    BY <1>1, <1>7 DEF ResumesElse
  <2>2. /\ Len(stack') = Len(stack) /\ nextBB' = nextBB /\ bb' = stack[t].base + 1
        /\ stack[t].role = "then" /\ stack'[t].role = "else" /\ stack'[t].base = stack[t].base
    BY <1>7, <2>1 DEF ResumesElse, ThenToElse
  <2>3. CurrentInside'
    BY <1>1, <1>3, <2>1, <2>2 DEF CurrentInside
  <2>4. NotReserved'
    <3>1. SUFFICES ASSUME NEW g \in 1 .. Len(stack')
                   PROVE  /\ stack'[g].role = "then" => bb' # stack'[g].base + 1
                          /\ stack'[g].role \in {"then", "else"} => bb' # stack'[g].base + 2
      BY DEF NotReserved
    <3>2. CASE g = t
      BY <1>3, <2>2, <3>2
    <3>3. CASE g # t
      <4>1. Same(g)
        BY <1>7, <2>1, <3>3 DEF ResumesElse, ThenToElse
      <4> QED
        BY <1>6, <2>1, <2>2, <3>3, <4>1 DEF Same
    <3> QED
      BY <3>2, <3>3
  <2>5. InOrder'
    <3>1. \A g \in 1 .. Len(stack') :
            /\ stack'[g].base = stack[g].base
            /\ stack'[g].role \in {"then", "else"} => stack[g].role \in {"then", "else"}
      BY <1>7 DEF ResumesElse, Same, ThenToElse
    <3> QED
      BY <1>2, <2>2, <3>1 DEF InOrder
  <2> QED
    BY <2>3, <2>4, <2>5 DEF BasicBlockInv
<1>8. CASE ResumesMerge
  <2>1. PICK t \in 1 .. Len(stack) : t = Len(stack)
    BY <1>1, <1>8 DEF ResumesMerge
  <2>2. /\ Len(stack') = t - 1 /\ nextBB' = nextBB /\ bb' = stack[t].base + 2
        /\ stack[t].role \in {"then", "else"}
        /\ \A g \in 1 .. Len(stack') : Same(g)
    BY <1>8, <2>1 DEF ResumesMerge
  <2>3. CurrentInside'
    BY <1>1, <1>3, <2>1, <2>2 DEF CurrentInside
  <2>4. NotReserved'
    <3>1. SUFFICES ASSUME NEW g \in 1 .. Len(stack')
                   PROVE  /\ stack'[g].role = "then" => bb' # stack'[g].base + 1
                          /\ stack'[g].role \in {"then", "else"} => bb' # stack'[g].base + 2
      BY DEF NotReserved
    <3>2. g # t /\ Same(g)
      BY <2>1, <2>2
    <3> QED
      BY <1>6, <2>1, <2>2, <3>2 DEF Same
  <2>5. InOrder'
    BY <1>2, <2>2 DEF InOrder, Same
  <2> QED
    BY <2>3, <2>4, <2>5 DEF BasicBlockInv
<1> QED
  BY <1>4, <1>5, <1>7, <1>8, Moves

LEMMA BasicBlockInit ==
  ASSUME Init
  PROVE  BasicBlockInv
<1>1. PICK f : f = Frame("root", "root", 0)
  OBVIOUS
<1>2. stack = <<f>> /\ f.role = "root"
  BY <1>1 DEF Init, Frame
<1>3. Len(stack) = 1 /\ stack[1].role = "root"
  BY <1>2
<1>4. \A g \in 1 .. Len(stack) : stack[g].role = "root"
  BY <1>3
<1> QED
  BY <1>3, <1>4 DEF BasicBlockInv, CurrentInside, NotReserved, InOrder

\* New instructions go to the current block, or to the else block of a conditional.
LEMMA Where ==
  ASSUME StackInv, MemberInv, [Next]_cgVars, NEW k \in Len(code) + 1 .. Len(code')
  PROVE  \/ code'[k].bb = bb
         \/ stack # << >> /\ Top.role = "then" /\ code'[k].bb = Top.base + 1
<1>0. Len(code) \in Nat /\ k \in 1 .. Len(code') /\ ~Old(k)
  <2>1. Len(code) \in Nat
    BY LenProperties DEF MemberInv
  <2> QED
    BY <2>1 DEF Old
<1>1. CASE UNCHANGED cgVars \/ Fail
  BY <1>0, <1>1 DEF cgVars, Fail
<1>2. CASE ScheduleStatement /\ ~Fail
  <2>1. Schedules
    BY <1>2, ScheduleEmits
  <2> QED
    BY <1>0, <2>1, ScheduleCases
<1>3. CASE VisitPlain \/ VisitDeclaration \/ VisitReturn \/ VisitFunction \/ VisitIf
  <2>1. Commits
    BY <1>3, InlineCommits
  <2> QED
    BY <1>0, <2>1, CommitCases
<1>4. CASE LeaveThen \/ LeaveElse \/ LeaveFunction \/ LeaveRoot
  <2>1. NewBranch(k)
    BY <1>4, LeaveEmits
  <2>2. stack # << >>
    BY <1>4 DEF LeaveThen, LeaveElse, LeaveFunction, LeaveRoot, AtEnd, Visiting
  <2> QED
    BY <2>1, <2>2 DEF NewBranch
<1> QED
  BY <1>1, <1>2, <1>3, <1>4 DEF Next

LEMMA Extended ==
  ASSUME StackInv, MemberInv, [Next]_cgVars
  PROVE  Extends
BY Effects DEF Commits, Schedules, EmitsBranches

LEMMA BrokenStep ==
  ASSUME StackInv, MemberInv, [Next]_cgVars, Broken
  PROVE  Broken'
<1>1. PICK k \in 1 .. Len(code) :
        /\ code[k].bb \in Nat /\ Sealed(code[k].bb)
        /\ code[k].op \notin {"ret", "br", "condbr"}
        /\ \A q \in k + 1 .. Len(code) : code[q].bb # code[k].bb
  BY DEF Broken
<1>2. PICK n \in Nat : n = code[k].bb
  BY <1>1
<1>3. Sealed(n) /\ Sealed(n)'
  BY <1>1, <1>2, SealedStep
<1>4. Extends /\ Len(code) \in Nat
  BY Extended, LenProperties DEF MemberInv
<1>5. code'[k] = code[k] /\ k \in 1 .. Len(code')
  BY <1>4 DEF Extends
<1>6. ASSUME NEW q \in k + 1 .. Len(code') PROVE code'[q].bb # n
  <2>1. CASE q <= Len(code)
    BY <1>1, <1>2, <1>4, <2>1 DEF Extends
  <2>2. CASE q > Len(code)
    <3>1. q \in Len(code) + 1 .. Len(code')
      BY <1>4, <2>2
    <3>2. \/ code'[q].bb = bb
          \/ stack # << >> /\ Top.role = "then" /\ code'[q].bb = Top.base + 1
      BY <3>1, Where
    <3>3. stack # << >> => Len(stack) \in 1 .. Len(stack)
      BY EmptySeq DEF StackInv
    <3> QED
      BY <1>3, <3>2, <3>3 DEF Sealed, Top
  <2> QED
    BY <1>4, <2>1, <2>2
<1> QED
  BY <1>1, <1>2, <1>3, <1>5, <1>6 DEF Broken

-----------------------------------------------------------------------------

LEMMA ClosedStays ==
  ASSUME MemberInv, Extends, NEW m \in 1 .. Len(code), ClosedInBlock(m)
  PROVE  ClosedInBlock(m)'
<1>1. Len(code) \in Nat
  BY LenProperties DEF MemberInv
<1> QED
  BY <1>1 DEF Extends, ClosedInBlock

\* No statement outside of functions is part of a group.
LEMMA ScheduledInside ==
  ASSUME StackInv, ScheduleStatement
  PROVE  Len(stack) >= 2
<1>1. stack # << >> /\ Top.i <= Len(Block) /\ ~commitVector(Block, Top.i)
  BY DEF ScheduleStatement, Visiting
<1>2. /\ Len(stack) \in Nat /\ Len(stack) >= 1 /\ Len(Block) \in Nat
      /\ Top.i \in Nat /\ Top.i >= 1 /\ Top.blk \in DOMAIN prog
  BY <1>1, TopFrame
<1>3. FrameOK(Len(stack))
  BY <1>1, TopFrame
<1>4. Len(stack) # 1
  <2>1. SUFFICES ASSUME Len(stack) = 1 PROVE FALSE
    OBVIOUS
  <2>2. Top.blk = "root"
    BY <1>3, <2>1 DEF FrameOK, RoleOK, Top
  <2>3. \A j \in 1 .. Len(Block) : Block[j].kind \in {"function", "declaration"}
    BY <1>2, <2>2, Statements DEF Block
  <2>4. \A j \in 1 .. Len(Block) : statementCommits(Block[j])
    BY <2>3 DEF statementCommits
  <2>5. Top.i \in 1 .. Len(Block) /\ (Top.i > 1 => Top.i - 1 \in 1 .. Len(Block))
    BY <1>1, <1>2
  <2>6. commitVector(Block, Top.i)
    BY <2>4, <2>5 DEF commitVector
  <2> QED
    BY <1>1, <2>6
<1>5. PICK n \in Nat : n = Len(stack) /\ n >= 1 /\ n # 1
  BY <1>2, <1>4, Zenon
<1>6. n >= 2
  BY <1>5
<1> QED
  BY <1>5, <1>6, Zenon

LEMMA ClosingCommits ==
  ASSUME MemberInv, Commits,
         \A m \in 1 .. Len(code) : code[m].op = "make" => ClosedInBlock(m) \/ OpenHere(m)
  PROVE  \A m \in 1 .. Len(code') : code'[m].op = "make" => ClosedInBlock(m)'
<1>1. PICK n \in Nat, r \in Nat : n = Len(code) /\ r = Len(reconVector)
  BY LenProperties DEF MemberInv
<1>2. SUFFICES ASSUME NEW m \in 1 .. Len(code'), code'[m].op = "make"
               PROVE  ClosedInBlock(m)'
  OBVIOUS
<1>3. Old(m) /\ Extends
  BY <1>2, CommitCases DEF InlineOps, Commits
<1>4. CASE ClosedInBlock(m)
  BY <1>3, <1>4, ClosedStays DEF Old
<1>5. CASE OpenHere(m)
  <2>1. ~executeCommit /\ currCid = code[m].cid /\ code[m].bb = bb
    BY <1>5 DEF OpenHere
  <2>2. Len(code') >= n + r + 1 /\ NewDestroy(r + 1)
    BY <1>1, <2>1 DEF Commits
  <2>3. /\ n + (r + 1) \in 1 .. Len(code') /\ m < n + (r + 1)
    BY <1>1, <1>3, <2>2 DEF Old, Extends
  <2>4. /\ code'[n + (r + 1)].op = "destroy" /\ code'[n + (r + 1)].cid = code'[m].cid
        /\ code'[n + (r + 1)].bb = code'[m].bb
    BY <1>1, <1>3, <2>1, <2>2 DEF NewDestroy, DestroyCode, Old
  <2> QED
    BY <2>3, <2>4 DEF ClosedInBlock
<1> QED
  BY <1>2, <1>3, <1>4, <1>5 DEF Old

LEMMA ClosingSchedules ==
  ASSUME MemberInv, Schedules, bb < nextBB, bb' = bb, nextBB' = nextBB, justReturned' = TRUE,
         \A m \in 1 .. Len(code) : code[m].op = "make" => ClosedInBlock(m) \/ OpenHere(m)
  PROVE  \A m \in 1 .. Len(code') :
           code'[m].op = "make" => ClosedInBlock(m)' \/ OpenHere(m)'
<1>1. SUFFICES ASSUME NEW m \in 1 .. Len(code'), code'[m].op = "make"
               PROVE  ClosedInBlock(m)' \/ OpenHere(m)'
  OBVIOUS
<1>2. /\ Extends /\ executeCommit' = FALSE
      /\ code'[Len(code')].op = "sched" /\ code'[Len(code')].bb = bb
  BY DEF Schedules
<1>3. ASSUME currCid' = code'[m].cid, code'[m].bb = bb PROVE OpenHere(m)'
  BY <1>2, <1>3 DEF OpenHere
<1>4. CASE Old(m)
  <2>1. CASE ClosedInBlock(m)
    BY <1>2, <1>4, <2>1, ClosedStays DEF Old
  <2>2. CASE OpenHere(m)
    <3>1. ~executeCommit /\ currCid = code[m].cid /\ code[m].bb = bb
      BY <2>2 DEF OpenHere
    <3>2. currCid' = currCid
      BY <3>1 DEF Schedules
    <3> QED
      BY <1>3, <1>4, <3>1, <3>2 DEF Old
  <2> QED
    BY <1>1, <1>4, <2>1, <2>2 DEF Old
<1>5. CASE ~Old(m)
  BY <1>1, <1>3, <1>5, ScheduleCases
<1> QED
  BY <1>4, <1>5

\* A conditional left with a group open: its basic block stays without a terminator.
LEMMA LeftOpen ==
  ASSUME StackInv, MemberInv, BasicBlockInv, LeaveThen \/ LeaveElse,
         NEW m \in 1 .. Len(code), OpenHere(m)
  PROVE  Broken'
<1>1. [Next]_cgVars
  BY DEF Next
<1>2. PICK k \in Nat : k = Len(code)
  BY LenProperties DEF MemberInv
<1>3. PICK n \in Nat : n = bb
  BY DEF MemberInv
<1>4. k \in 1 .. Len(code) /\ code[k].op = "sched" /\ code[k].bb = n /\ justReturned
  BY <1>2, <1>3 DEF OpenHere
<1>5. Extends
  BY <1>1, Extended
<1>6. code'[k] = code[k] /\ k \in 1 .. Len(code')
  BY <1>2, <1>4, <1>5 DEF Extends
<1>7. /\ stack # << >> /\ Len(stack) \in 1 .. Len(stack) /\ Len(stack) \in Nat
      /\ Top.role \in {"then", "else"}
  BY EmptySeq DEF LeaveThen, LeaveElse, AtEnd, Visiting, StackInv
<1>8. ASSUME NEW q \in k + 1 .. Len(code') PROVE code'[q].bb # n
  <2>1. NewBranch(q)
    BY <1>2, LeaveEmits
  <2>2. code'[q].bb = Top.base + 1 /\ Top.role = "then"
    BY <1>4, <2>1 DEF NewBranch
  <2> QED
    BY <1>3, <1>7, <2>2 DEF BasicBlockInv, NotReserved, Top
<1>9. Sealed(n)'
  <2>1. n < nextBB' /\ n # bb'
    <3>1. nextBB' = nextBB /\ bb < nextBB
      BY DEF LeaveThen, LeaveElse, OpenHere
    <3>2. \/ bb' = Top.base + 1 /\ Top.role = "then"
          \/ bb' = Top.base + 2
      BY DEF LeaveThen, LeaveElse, AtEnd
    <3>3. bb' # bb
      BY <1>7, <3>2 DEF BasicBlockInv, NotReserved, Top
    <3> QED
      BY <1>3, <3>1, <3>3
  <2>2. ASSUME NEW g \in 1 .. Len(stack')
        PROVE  /\ stack'[g].role = "then" => n # stack'[g].base + 1
               /\ stack'[g].role \in {"then", "else"} => n # stack'[g].base + 2
    <3>1. Stays \/ ResumesElse \/ ResumesMerge
      <4>1. ~Begins
        <5>1. nextBB' = nextBB /\ nextBB \in Nat
          BY DEF LeaveThen, LeaveElse, MemberInv
        <5> QED
          BY <5>1 DEF Begins, Begun
      <4> QED
        BY <1>1, <4>1, Moves
    <3>2. Same(g) \/ ThenToElse(g)
      BY <3>1 DEF Stays, ResumesElse, ResumesMerge
    <3>3. /\ g \in 1 .. Len(stack) /\ stack'[g].base = stack[g].base
          /\ stack'[g].role = "then" => stack[g].role = "then"
          /\ stack'[g].role \in {"then", "else"} => stack[g].role \in {"then", "else"}
      BY <1>7, <3>2 DEF Same, ThenToElse
    <3> QED
      BY <1>3, <3>3 DEF BasicBlockInv, NotReserved
  <2> QED
    BY <2>1, <2>2 DEF Sealed
<1> QED
  BY <1>3, <1>4, <1>6, <1>8, <1>9 DEF Broken

LEMMA ClosingStep ==
  ASSUME StackInv, MemberInv, BasicBlockInv, ClosingInv, [Next]_cgVars
  PROVE  ClosingInv'
<1>1. CASE Broken
  BY <1>1, BrokenStep DEF ClosingInv
<1>2. CASE ~Broken
  <2>1. \A m \in 1 .. Len(code) : code[m].op = "make" => ClosedInBlock(m) \/ OpenHere(m)
    BY <1>2 DEF ClosingInv
  <2>2. ASSUME UNCHANGED <<code, executeCommit, currCid, bb, nextBB, justReturned>>
        PROVE  ClosingInv'
    BY <2>1, <2>2 DEF ClosingInv, ClosedInBlock, OpenHere
  <2>3. CASE UNCHANGED cgVars \/ Fail \/ LeaveFunction \/ LeaveRoot
    BY <2>2, <2>3 DEF cgVars, Fail, LeaveFunction, LeaveRoot
  <2>4. CASE ScheduleStatement /\ ~Fail
    <3>1. /\ Schedules /\ bb' = bb /\ nextBB' = nextBB /\ justReturned' = TRUE
      BY <2>4, ScheduleEmits
    <3>2. bb < nextBB
      BY <2>4, ScheduledInside DEF BasicBlockInv, CurrentInside
    <3> QED
      BY <2>1, <3>1, <3>2, ClosingSchedules DEF ClosingInv
  <2>5. CASE VisitPlain \/ VisitDeclaration \/ VisitReturn \/ VisitFunction \/ VisitIf
    <3>1. Commits
      BY <2>5, InlineCommits
    <3> QED
      BY <2>1, <3>1, ClosingCommits DEF ClosingInv
  <2>6. CASE LeaveThen \/ LeaveElse
    <3>1. CASE \E m \in 1 .. Len(code) : OpenHere(m)
      BY <2>6, <3>1, LeftOpen DEF ClosingInv
    <3>2. CASE \A m \in 1 .. Len(code) : ~OpenHere(m)
      <4>1. EmitsBranches /\ Extends
        BY <2>6, LeaveEmits DEF EmitsBranches
      <4>2. ASSUME NEW m \in 1 .. Len(code'), code'[m].op = "make" PROVE ClosedInBlock(m)'
        <5>1. Old(m)
          BY <4>1, <4>2, BranchCases
        <5>2. ClosedInBlock(m) /\ m \in 1 .. Len(code)
          BY <2>1, <3>2, <4>2, <5>1 DEF Old
        <5> QED
          BY <4>1, <5>2, ClosedStays
      <4> QED
        BY <4>2 DEF ClosingInv
    <3> QED
      BY <3>1, <3>2
  <2> QED
    BY <2>3, <2>4, <2>5, <2>6 DEF Next
<1> QED
  BY <1>1, <1>2

LEMMA ClosingInit ==
  ASSUME Init
  PROVE  ClosingInv
<1>1. Len(code) = 0
  BY EmptySeq DEF Init
<1>2. 1 .. Len(code) = {}
  BY <1>1
<1> QED
  BY <1>2 DEF ClosingInv

\* The last instruction of a basic block of well-formed code is a terminator.
LEMMA LastTerminates ==
  ASSUME MemberInv, WellFormed, NEW k \in 1 .. Len(code), code[k].bb \in Nat,
         code[k].bb < nextBB, \A q \in k + 1 .. Len(code) : code[q].bb # code[k].bb
  PROVE  code[k].op \in {"ret", "br", "condbr"}
<1>1. Len(code) \in Nat /\ DOMAIN code = 1 .. Len(code) /\ nextBB \in Nat
  BY LenProperties DEF MemberInv
<1>2. PICK n \in 0 .. nextBB - 1 : n = code[k].bb
  <2>1. code[k].bb \in 0 .. nextBB - 1
    BY <1>1
  <2> QED
    BY <2>1
<1>3. PICK ks : ks = {j \in DOMAIN code : code[j].bb = n}
  OBVIOUS
<1>4. \A j \in ks : code[j].op \in {"ret", "br", "condbr"} <=> \A q \in ks : q <= j
  BY <1>2, <1>3, Zenon DEF WellFormed
<1>5. k \in ks
  BY <1>1, <1>2, <1>3
<1>6. \A q \in ks : q <= k
  BY <1>1, <1>2, <1>3
<1> QED
  BY <1>4, <1>5, <1>6

LEMMA WellFormedCloses ==
  ASSUME MemberInv, ContextInv, ClosingInv
  PROVE  GroupsClosed
<1>1. SUFFICES ASSUME WellFormed
               PROVE  /\ \A m \in At("make") : \E d \in At("destroy") :
                           m < d /\ code[d].cid = code[m].cid /\ code[d].bb = code[m].bb
                      /\ \A d \in At("destroy") : \A e \in At("destroy") \ {d} :
                           code[e].cid # code[d].cid
  BY DEF GroupsClosed
<1>2. ~Broken
  <2>1. SUFFICES ASSUME NEW k \in 1 .. Len(code), code[k].bb \in Nat, Sealed(code[k].bb),
                        code[k].op \notin {"ret", "br", "condbr"},
                        \A q \in k + 1 .. Len(code) : code[q].bb # code[k].bb
                 PROVE  FALSE
    BY DEF Broken
  <2>2. code[k].bb < nextBB
    BY <2>1 DEF Sealed
  <2> QED
    BY <1>1, <2>1, <2>2, LastTerminates
<1>3. ASSUME NEW m \in 1 .. Len(code) PROVE ~OpenHere(m)
  <2>1. SUFFICES ASSUME OpenHere(m) PROVE FALSE
    OBVIOUS
  <2>2. PICK k \in 1 .. Len(code) : k = Len(code)
    BY LenProperties DEF MemberInv
  <2>3. code[k].op = "sched" /\ code[k].bb \in Nat /\ code[k].bb < nextBB
    BY <2>1, <2>2 DEF OpenHere, MemberInv
  <2>4. k + 1 .. Len(code) = {}
    BY <2>2
  <2>5. code[k].op \in {"ret", "br", "condbr"}
    BY <1>1, <2>3, <2>4, LastTerminates
  <2> QED
    BY <2>3, <2>5
<1>4. \A m \in 1 .. Len(code) : code[m].op = "make" => ClosedInBlock(m)
  BY <1>2, <1>3 DEF ClosingInv
<1>5. ASSUME NEW m \in At("make")
      PROVE  \E d \in At("destroy") :
               m < d /\ code[d].cid = code[m].cid /\ code[d].bb = code[m].bb
  BY <1>4, AtPositions DEF ClosedInBlock
<1>6. ASSUME NEW d \in At("destroy"), NEW e \in At("destroy") \ {d}
      PROVE  code[e].cid # code[d].cid
  BY AtPositions DEF ContextInv, DestroyedOnce
<1> QED
  BY <1>5, <1>6

(***************************************************************************)
(* For every program, those with blocks that leave their last group open   *)
(* included: when the compiler produces code whose basic blocks are well   *)
(* formed, each context is destroyed in the basic block that made it, and  *)
(* no context is destroyed twice.  What visitBlock forgets always shows as *)
(* a basic block without a terminator.                                     *)
(***************************************************************************)
THEOREM WellFormedCodeClosesGroups == Spec => []GroupsClosed
<1> DEFINE Inv == StackInv /\ MemberInv /\ ContextInv /\ BasicBlockInv /\ ClosingInv
<1>1. Init => Inv
  BY StackInit, MemberInit, ContextInit, BasicBlockInit, ClosingInit
<1>2. Inv /\ [Next]_cgVars => Inv'
  BY StackStep, MemberStep, ContextStep, BasicBlockStep, ClosingStep
<1>3. Inv => GroupsClosed
  BY WellFormedCloses
<1> QED
  BY <1>1, <1>2, <1>3, PTL DEF Spec

-----------------------------------------------------------------------------

(***************************************************************************)
(* Which programs have well-formed code.  visitIfStatement leaves out the  *)
(* branch to the merge block when justReturned is set, and a lambda sets   *)
(* it as a return does.  Only the next conditional resets it.              *)
(***************************************************************************)
InlineAt(b, i, kind) == i \in 1 .. Len(b) /\ commitVector(b, i) /\ b[i].kind = kind

EndsWithReturn(b) == InlineAt(b, Len(b), "return")

\* A branch of a conditional that returns, or has a conditional after its last group.
Branching(b) ==
  \/ EndsWithReturn(b)
  \/ \A i \in 1 .. Len(b) :
       ~commitVector(b, i) => \E j \in i + 1 .. Len(b) : InlineAt(b, j, "if")

(***************************************************************************)
(* No statement follows a return, a function ends with one, and a group in *)
(* a branch of a conditional is followed by a conditional or a return.     *)
(***************************************************************************)
Structured ==
  \A b \in DOMAIN prog : \A i \in 1 .. Len(prog[b]) :
    /\ InlineAt(prog[b], i, "return") => i = Len(prog[b])
    /\ InlineAt(prog[b], i, "function") =>
         b = "root" /\ EndsWithReturn(prog[prog[b][i].body])
    /\ InlineAt(prog[b], i, "if") =>
         /\ Branching(prog[prog[b][i].then])
         /\ prog[b][i].else # "none" => Branching(prog[prog[b][i].else])

Terminates(k) == code[k].op \in {"ret", "br", "condbr"}

\* Basic block n has one terminator, at its end.
Done(n) ==
  \E k \in 1 .. Len(code) :
    /\ code[k].bb = n /\ Terminates(k)
    /\ \A q \in 1 .. Len(code) : code[q].bb = n => q <= k /\ (Terminates(q) => q = k)

Unfinished(n) == \A k \in 1 .. Len(code) : code[k].bb = n => ~Terminates(k)

\* The visitor is outside of functions, or has compiled the return that ends a block.
Settled ==
  \/ Len(stack) <= 1
  \/ Top.i > Len(Block) /\ EndsWithReturn(Block)

FramesBranch ==
  \A f \in 2 .. Len(stack) :
    /\ stack[f].role = "body" <=> f = 2
    /\ stack[f].role = "body" => EndsWithReturn(prog[stack[f].blk])
    /\ stack[f].role \in {"then", "else"} => Branching(prog[stack[f].blk])
    /\ f < Len(stack) => InlineAt(prog[stack[f].blk], stack[f].i, "if")

CurrentBlock ==
  IF Settled THEN executeCommit /\ (bb < nextBB => Done(bb)) ELSE Unfinished(bb)

SealedDone == \A n \in Nat : Sealed(n) => Done(n)

Placed ==
  \A k \in 1 .. Len(code) :
    /\ code[k].bb \in Nat /\ code[k].bb < nextBB
    /\ code[k].bb = bb \/ Sealed(code[k].bb)

\* At the end of a branch of a conditional justReturned tells whether it returned.
ReturnKnown ==
  stack # << >> /\ Top.role \in {"then", "else"} =>
    IF EndsWithReturn(Block)
    THEN Top.i > Len(Block) => justReturned
    ELSE justReturned => \E j \in Top.i .. Len(Block) : InlineAt(Block, j, "if")

Flow == FramesBranch /\ CurrentBlock /\ SealedDone /\ Placed /\ ReturnKnown

FlowInv == Structured => Flow

\* What a step adds to the current basic block: nothing that ends it, or its end.
Continues ==
  Extends /\ \A k \in Len(code) + 1 .. Len(code') : code'[k].bb = bb /\ ~Terminates(k)'

Finishes ==
  /\ Extends /\ Len(code') > Len(code)
  /\ code'[Len(code')].bb = bb /\ code'[Len(code')].op \in {"ret", "br", "condbr"}
  /\ \A k \in Len(code) + 1 .. Len(code') - 1 : code'[k].bb = bb /\ ~Terminates(k)'

LEMMA DoneStays ==
  ASSUME MemberInv, Extends, NEW n \in Nat, Done(n),
         \A k \in Len(code) + 1 .. Len(code') : code'[k].bb # n
  PROVE  Done(n)'
<1>1. Len(code) \in Nat /\ Len(code') \in Nat /\ Len(code') >= Len(code)
  BY LenProperties DEF MemberInv, Extends
<1>2. PICK k \in 1 .. Len(code) :
        /\ code[k].bb = n /\ Terminates(k)
        /\ \A q \in 1 .. Len(code) : code[q].bb = n => q <= k /\ (Terminates(q) => q = k)
  BY DEF Done
<1>3. k \in 1 .. Len(code') /\ code'[k].bb = n /\ Terminates(k)'
  BY <1>1, <1>2 DEF Extends, Terminates
<1>4. ASSUME NEW q \in 1 .. Len(code'), code'[q].bb = n
      PROVE  q <= k /\ (Terminates(q)' => q = k)
  <2>1. q \in 1 .. Len(code)
    BY <1>1, <1>4
  <2>2. code'[q] = code[q]
    BY <2>1 DEF Extends
  <2> QED
    BY <1>2, <1>4, <2>1, <2>2 DEF Terminates
<1> QED
  BY <1>3, <1>4 DEF Done

LEMMA UnfinishedStays ==
  ASSUME MemberInv, Extends, NEW n, Unfinished(n),
         \A k \in Len(code) + 1 .. Len(code') : code'[k].bb = n => ~Terminates(k)'
  PROVE  Unfinished(n)'
<1>1. Len(code) \in Nat /\ Len(code') \in Nat /\ Len(code') >= Len(code)
  BY LenProperties DEF MemberInv, Extends
<1>2. ASSUME NEW q \in 1 .. Len(code'), code'[q].bb = n PROVE ~Terminates(q)'
  <2>1. CASE q \in 1 .. Len(code)
    <3>1. code'[q] = code[q]
      BY <2>1 DEF Extends
    <3> QED
      BY <1>2, <2>1, <3>1 DEF Unfinished, Terminates
  <2>2. CASE q \notin 1 .. Len(code)
    BY <1>1, <1>2, <2>2
  <2> QED
    BY <2>1, <2>2
<1> QED
  BY <1>2 DEF Unfinished

LEMMA FinishesBlock ==
  ASSUME MemberInv, Finishes, NEW n \in Nat, n = bb, Unfinished(n)
  PROVE  Done(n)'
<1>1. /\ Len(code) \in Nat /\ Len(code') \in Nat /\ Len(code') > Len(code)
      /\ \A q \in 1 .. Len(code) : code'[q] = code[q]
  BY LenProperties DEF MemberInv, Finishes, Extends
<1>2. PICK k \in 1 .. Len(code') : k = Len(code')
  BY <1>1
<1>3. code'[k].bb = n /\ Terminates(k)'
  BY <1>2 DEF Finishes, Terminates
<1>4. ASSUME NEW q \in 1 .. Len(code'), code'[q].bb = n, Terminates(q)' PROVE q = k
  <2>1. CASE q \in 1 .. Len(code)
    BY <1>1, <1>4, <2>1 DEF Unfinished, Terminates
  <2>2. CASE q \notin 1 .. Len(code)
    <3>1. q = k \/ q \in Len(code) + 1 .. Len(code') - 1
      BY <1>1, <1>2, <2>2
    <3> QED
      BY <1>4, <3>1 DEF Finishes
  <2> QED
    BY <2>1, <2>2
<1>5. \A q \in 1 .. Len(code') : q <= k
  BY <1>1, <1>2
<1> QED
  BY <1>3, <1>4, <1>5 DEF Done

\* The instruction a step ends with.
LEMMA LastEmitted ==
  ASSUME MemberInv, NEW e, code' = Append(code \o CommitCode, e)
  PROVE  Len(code') > Len(code) /\ code'[Len(code')] = e
<1>1. PICK c : c = code \o CommitCode
  OBVIOUS
<1>2. /\ c \in Seq(Range(c)) /\ Len(c) \in Nat /\ Len(code) \in Nat
      /\ executeCommit => Len(c) = Len(code)
      /\ ~executeCommit => Len(c) = Len(code) + Len(reconVector) + 1
  BY <1>1, CommitEmits
<1>3. Len(reconVector) \in Nat /\ executeCommit \in BOOLEAN
  BY CommitCodeShape DEF MemberInv
<1>4. Len(c) >= Len(code)
  BY <1>2, <1>3
<1>5. Len(code') = Len(c) + 1 /\ code'[Len(c) + 1] = e
  <2>1. PICK S : c \in Seq(S)
    BY <1>2, Zenon
  <2>2. code' = Append(c, e)
    BY <1>1
  <2> QED
    BY <2>1, <2>2, EmitOne
<1> QED
  BY <1>2, <1>4, <1>5

\* An instruction that a commit emits before the last one is no terminator.
LEMMA CommitContinues ==
  ASSUME MemberInv, Commits, NEW k \in Len(code) + 1 .. Len(code')
  PROVE  code'[k].bb = bb /\ (k # Len(code') => ~Terminates(k)')
<1>1. Len(code) \in Nat /\ k \in 1 .. Len(code') /\ ~Old(k)
  <2>1. Len(code) \in Nat
    BY LenProperties DEF MemberInv
  <2> QED
    BY <2>1 DEF Old
<1> QED
  BY <1>1, CommitCases DEF Terminates

LEMMA PlainContinues ==
  ASSUME MemberInv, VisitPlain
  PROVE  Continues
<1>1. Commits /\ Extends
  BY InlineCommits DEF Commits
<1>2. PICK e : e = Source("stmt", bb) /\ code' = Append(code \o CommitCode, e)
  BY DEF VisitPlain
<1>3. code'[Len(code')].op = "stmt"
  BY <1>2, LastEmitted DEF Source
<1> QED
  BY <1>1, <1>3, CommitContinues DEF Continues, Terminates

LEMMA DeclarationContinues ==
  ASSUME MemberInv, VisitDeclaration \/ VisitFunction
  PROVE  Continues /\ (executeCommit => code' = code)
<1>1. Commits /\ Extends
  BY InlineCommits DEF Commits
<1>2. PICK c : c = code \o CommitCode /\ code' = c
  BY DEF VisitDeclaration, VisitFunction
<1>3. /\ Len(c) \in Nat /\ Len(code) \in Nat
      /\ executeCommit => Len(c) = Len(code)
      /\ ~executeCommit =>
           /\ Len(c) = Len(code) + Len(reconVector) + 1
           /\ c[Len(code) + Len(reconVector) + 1] = DestroyCode
  BY <1>2, CommitEmits
<1>4. CASE executeCommit
  <2>1. CommitCode = << >>
    BY <1>4 DEF CommitCode
  <2>2. PICK S : code \in Seq(S)
    BY DEF MemberInv
  <2>3. code' = code
    BY <1>2, <2>1, <2>2, ConcatEmptySeq
  <2>4. Len(code) + 1 .. Len(code') = {}
    BY <1>3, <2>3
  <2> QED
    BY <1>1, <2>3, <2>4 DEF Continues
<1>5. CASE ~executeCommit
  <2>1. code'[Len(code')] = DestroyCode
    BY <1>2, <1>3, <1>5
  <2>2. code'[Len(code')].op = "destroy"
    BY <2>1 DEF DestroyCode
  <2> QED
    BY <1>1, <1>5, <2>2, CommitContinues DEF Continues, Terminates
<1> QED
  BY <1>4, <1>5 DEF MemberInv

LEMMA ScheduleContinues ==
  ASSUME StackInv, MemberInv, ScheduleStatement, ~Fail
  PROVE  Continues
<1>1. Schedules /\ Extends
  BY ScheduleEmits DEF Schedules
<1>2. ASSUME NEW k \in Len(code) + 1 .. Len(code') PROVE code'[k].bb = bb /\ ~Terminates(k)'
  <2>1. Len(code) \in Nat /\ k \in 1 .. Len(code') /\ ~Old(k)
    <3>1. Len(code) \in Nat
      BY LenProperties DEF MemberInv
    <3> QED
      BY <3>1 DEF Old
  <2> QED
    BY <1>1, <2>1, ScheduleCases DEF Terminates
<1> QED
  BY <1>1, <1>2 DEF Continues

LEMMA BranchFinishes ==
  ASSUME MemberInv, VisitReturn \/ VisitIf
  PROVE  Finishes
<1>1. Commits /\ Extends
  BY InlineCommits DEF Commits
<1>2. PICK e : /\ e.op \in {"ret", "condbr"} /\ e.bb = bb
               /\ code' = Append(code \o CommitCode, e)
  <2>1. CASE VisitReturn
    <3>1. Source("ret", bb).op = "ret" /\ Source("ret", bb).bb = bb
      BY DEF Source
    <3> QED
      BY <2>1, <3>1 DEF VisitReturn
  <2>2. CASE VisitIf
    <3>1. PICK e : /\ e = [op |-> "condbr", bb |-> bb, at |-> <<Top.blk, Top.i>>,
                           dest |-> <<nextBB, nextBB + 1>>]
                   /\ code' = Append(code \o CommitCode, e)
      BY <2>2 DEF VisitIf
    <3>2. e.op = "condbr" /\ e.bb = bb
      BY <3>1
    <3> QED
      BY <3>1, <3>2
  <2> QED
    BY <2>1, <2>2
<1>3. Len(code') > Len(code) /\ code'[Len(code')] = e
  BY <1>2, LastEmitted
<1>4. code'[Len(code')].bb = bb /\ code'[Len(code')].op \in {"ret", "br", "condbr"}
  BY <1>2, <1>3
<1>5. ASSUME NEW k \in Len(code) + 1 .. Len(code') - 1
      PROVE  code'[k].bb = bb /\ ~Terminates(k)'
  <2>1. Len(code) \in Nat /\ Len(code') \in Nat
    BY <1>1, LenProperties DEF MemberInv, Extends
  <2>2. k \in Len(code) + 1 .. Len(code') /\ k # Len(code')
    BY <2>1
  <2> QED
    BY <1>1, <2>2, CommitContinues
<1> QED
  BY <1>1, <1>3, <1>4, <1>5 DEF Finishes

\* The end of a branch of a conditional: a branch to the merge block, unless it returned.
LEMMA LeaveFinishes ==
  ASSUME MemberInv, NEW n \in Nat, n = bb, NEW e, NEW c, c = code \o BranchToMerge,
         code' = c \/ (code' = Append(c, e) /\ e.bb # n),
         IF justReturned THEN Done(n) ELSE Unfinished(n)
  PROVE  Done(n)'
<1>1. /\ c \in Seq(Range(c)) /\ Len(c) \in Nat /\ Len(code) \in Nat
      /\ Len(c) = Len(code) + IF justReturned THEN 0 ELSE 1
      /\ \A k \in 1 .. Len(code) : c[k] = code[k]
      /\ ~justReturned => c[Len(code) + 1].op = "br" /\ c[Len(code) + 1].bb = bb
  BY MergeCode
<1>2. /\ Len(code') \in Nat /\ Len(code') >= Len(c)
      /\ \A k \in 1 .. Len(c) : code'[k] = c[k]
      /\ \A k \in Len(c) + 1 .. Len(code') : code'[k].bb # n
  <2>1. CASE code' = c
    <3>1. Len(c) + 1 .. Len(c) = {}
      BY <1>1
    <3> QED
      BY <1>1, <2>1, <3>1
  <2>2. CASE code' = Append(c, e) /\ e.bb # n
    <3>1. PICK S : c \in Seq(S)
      BY <1>1, Zenon
    <3>2. /\ Len(code') = Len(c) + 1 /\ code'[Len(c) + 1] = e
          /\ \A k \in 1 .. Len(c) : code'[k] = c[k]
      BY <2>2, <3>1, EmitOne
    <3> QED
      BY <1>1, <2>2, <3>2
  <2> QED
    BY <2>1, <2>2
<1>3. \A k \in 1 .. Len(code) : k \in 1 .. Len(c) /\ code'[k] = code[k]
  <2>1. Len(c) >= Len(code)
    BY <1>1 DEF MemberInv
  <2>2. \A k \in 1 .. Len(code) : k \in 1 .. Len(c)
    BY <1>1, <2>1
  <2> QED
    BY <1>1, <1>2, <2>2
<1>4. CASE justReturned
  <2>1. Len(c) = Len(code)
    BY <1>1, <1>4
  <2>2. PICK k \in 1 .. Len(code) :
          /\ code[k].bb = n /\ Terminates(k)
          /\ \A q \in 1 .. Len(code) : code[q].bb = n => q <= k /\ (Terminates(q) => q = k)
    BY <1>4 DEF Done
  <2>3. k \in 1 .. Len(code') /\ code'[k].bb = n /\ Terminates(k)'
    BY <1>1, <1>2, <1>3, <2>1, <2>2 DEF Terminates
  <2>4. ASSUME NEW q \in 1 .. Len(code'), code'[q].bb = n
        PROVE  q <= k /\ (Terminates(q)' => q = k)
    <3>1. q \in 1 .. Len(code)
      BY <1>1, <1>2, <2>1, <2>4
    <3> QED
      BY <1>3, <2>2, <2>4, <3>1 DEF Terminates
  <2> QED
    BY <2>3, <2>4 DEF Done
<1>5. CASE ~justReturned
  <2>1. PICK k \in 1 .. Len(c) : k = Len(code) + 1 /\ k = Len(c)
    BY <1>1, <1>5
  <2>2. k \in 1 .. Len(code') /\ code'[k].bb = n /\ Terminates(k)'
    BY <1>1, <1>2, <1>5, <2>1 DEF Terminates
  <2>3. ASSUME NEW q \in 1 .. Len(code'), code'[q].bb = n
        PROVE  q <= k /\ (Terminates(q)' => q = k)
    <3>1. q \in 1 .. Len(c)
      BY <1>1, <1>2, <2>3
    <3>2. CASE q = k
      BY <3>2
    <3>3. CASE q # k
      <4>1. q \in 1 .. Len(code) /\ q <= k
        BY <1>1, <2>1, <3>1, <3>3
      <4>2. ~Terminates(q)'
        BY <1>3, <1>5, <2>3, <4>1 DEF Unfinished, Terminates
      <4> QED
        BY <4>1, <4>2
    <3> QED
      BY <3>2, <3>3
  <2> QED
    BY <2>2, <2>3 DEF Done
<1> QED
  BY <1>4, <1>5 DEF MemberInv

\* The missing else block has only the branch to the merge block.
LEMMA MissingElse ==
  ASSUME MemberInv, NEW m \in Nat, m # bb, NEW e, e.op = "br", e.bb = m,
         code' = Append(code \o BranchToMerge, e),
         \A k \in 1 .. Len(code) : code[k].bb # m
  PROVE  Done(m)'
<1>1. PICK c : c = code \o BranchToMerge
  OBVIOUS
<1>2. /\ c \in Seq(Range(c)) /\ Len(c) \in Nat /\ Len(code) \in Nat
      /\ Len(c) = Len(code) + IF justReturned THEN 0 ELSE 1
      /\ \A k \in 1 .. Len(code) : c[k] = code[k]
      /\ ~justReturned => c[Len(code) + 1].op = "br" /\ c[Len(code) + 1].bb = bb
  BY <1>1, MergeCode
<1>3. /\ Len(code') = Len(c) + 1 /\ code'[Len(c) + 1] = e
      /\ \A k \in 1 .. Len(c) : code'[k] = c[k]
  <2>1. PICK S : c \in Seq(S)
    BY <1>2, Zenon
  <2>2. code' = Append(c, e)
    BY <1>1
  <2> QED
    BY <2>1, <2>2, EmitOne
<1>4. PICK k \in 1 .. Len(code') : k = Len(c) + 1 /\ k = Len(code')
  BY <1>2, <1>3
<1>5. code'[k].bb = m /\ Terminates(k)'
  BY <1>3, <1>4 DEF Terminates
<1>6. ASSUME NEW q \in 1 .. Len(code'), q # k PROVE code'[q].bb # m
  <2>1. q \in 1 .. Len(c)
    BY <1>2, <1>3, <1>4, <1>6
  <2>2. CASE q \in 1 .. Len(code)
    BY <1>2, <1>3, <2>1, <2>2
  <2>3. CASE q \notin 1 .. Len(code)
    <3>1. q = Len(code) + 1 /\ ~justReturned
      BY <1>2, <2>1, <2>3 DEF MemberInv
    <3> QED
      BY <1>2, <1>3, <2>1, <3>1
  <2> QED
    BY <2>2, <2>3
<1>7. \A q \in 1 .. Len(code') : q <= k
  BY <1>2, <1>3, <1>4
<1> QED
  BY <1>5, <1>6, <1>7 DEF Done

\* A basic block that the visitor leaves is sealed.
LEMMA LeftSealed ==
  ASSUME StackInv, MemberInv, BasicBlockInv, [Next]_cgVars, NEW n \in Nat, n = bb,
         bb < nextBB, bb' # bb
  PROVE  Sealed(n)'
<1>1. Len(stack) \in Nat /\ nextBB \in Nat /\ NotReserved
  BY LenProperties DEF StackInv, MemberInv, BasicBlockInv
<1>2. CASE Stays
  BY <1>2 DEF Stays
<1>3. CASE Begins
  <2>1. /\ Len(stack') = Len(stack) + 1 /\ bb' = nextBB /\ nextBB' > nextBB /\ nextBB' \in Nat
        /\ stack'[Len(stack')].base = nextBB
    BY <1>1, <1>3 DEF Begins, Begun
  <2>2. ASSUME NEW g \in 1 .. Len(stack')
        PROVE  /\ stack'[g].role = "then" => n # stack'[g].base + 1
               /\ stack'[g].role \in {"then", "else"} => n # stack'[g].base + 2
    <3>1. CASE g \in 1 .. Len(stack)
      BY <1>1, <1>3, <3>1 DEF Begins, Same, NotReserved
    <3>2. CASE g \notin 1 .. Len(stack)
      <4>1. g = Len(stack')
        BY <1>1, <2>1, <3>2
      <4> QED
        BY <1>1, <2>1, <4>1
    <3> QED
      BY <3>1, <3>2
  <2>3. n < nextBB' /\ n # bb'
    BY <1>1, <2>1
  <2> QED
    BY <2>2, <2>3 DEF Sealed
<1>4. CASE ResumesElse \/ ResumesMerge
  <2>1. n < nextBB' /\ n # bb'
    BY <1>4 DEF ResumesElse, ResumesMerge
  <2>2. ASSUME NEW g \in 1 .. Len(stack')
        PROVE  /\ stack'[g].role = "then" => n # stack'[g].base + 1
               /\ stack'[g].role \in {"then", "else"} => n # stack'[g].base + 2
    <3>1. Same(g) \/ (ThenToElse(g) /\ g \in 1 .. Len(stack))
      BY <1>1, <1>4 DEF ResumesElse, ResumesMerge, ThenToElse
    <3>2. /\ g \in 1 .. Len(stack) /\ stack'[g].base = stack[g].base
          /\ stack'[g].role = "then" => stack[g].role = "then"
          /\ stack'[g].role \in {"then", "else"} => stack[g].role \in {"then", "else"}
      BY <3>1 DEF Same, ThenToElse
    <3> QED
      BY <1>1, <3>2 DEF NotReserved
  <2> QED
    BY <2>1, <2>2 DEF Sealed
<1> QED
  BY <1>2, <1>3, <1>4, Moves

\* A basic block that is sealed was left by this step, or is a missing else block.
LEMMA NewlySealed ==
  ASSUME StackInv, MemberInv, [Next]_cgVars, NEW n \in Nat, Sealed(n)',
         bb' = bb => \A g \in 1 .. Len(stack) :
                       g <= Len(stack') \/ stack[g].role \notin {"then", "else"}
  PROVE  \/ Sealed(n) \/ n = bb
         \/ /\ stack # << >> /\ Top.role = "then" /\ n = Top.base + 1
            /\ Len(stack') = Len(stack) - 1
<1>1. Len(stack) \in Nat /\ nextBB \in Nat /\ bb \in Nat
  BY LenProperties DEF StackInv, MemberInv
<1>2. /\ n < nextBB' /\ n # bb'
      /\ \A g \in 1 .. Len(stack') :
           /\ stack'[g].role = "then" => n # stack'[g].base + 1
           /\ stack'[g].role \in {"then", "else"} => n # stack'[g].base + 2
  BY DEF Sealed
<1>3. CASE Stays
  <2>1. ASSUME NEW g \in 1 .. Len(stack)
        PROVE  /\ stack[g].role = "then" => n # stack[g].base + 1
               /\ stack[g].role \in {"then", "else"} => n # stack[g].base + 2
    <3>1. bb' = bb /\ Len(stack') \in Nat
      BY <1>3 DEF Stays
    <3>2. CASE g \in 1 .. Len(stack')
      BY <1>2, <1>3, <3>2 DEF Stays, Same
    <3>3. CASE g \notin 1 .. Len(stack')
      <4>1. ~(g <= Len(stack'))
        BY <1>1, <3>1, <3>3
      <4>2. stack[g].role \notin {"then", "else"}
        BY <3>1, <4>1
      <4> QED
        BY <4>2
    <3> QED
      BY <3>2, <3>3
  <2> QED
    BY <1>2, <1>3, <2>1 DEF Stays, Sealed
<1>4. CASE Begins
  <2>1. PICK t : t = Len(stack')
    OBVIOUS
  <2>2. /\ t = Len(stack) + 1 /\ bb' = nextBB /\ stack'[t].base = nextBB
        /\ \/ stack'[t].role = "body" /\ nextBB' = nextBB + 1
           \/ stack'[t].role = "then" /\ nextBB' = nextBB + 3
    BY <1>4, <2>1 DEF Begins, Begun
  <2>3. t \in 1 .. Len(stack')
    BY <1>1, <2>1, <2>2
  <2>4. n < nextBB
    <3>1. stack'[t].role = "then" => n # nextBB + 1 /\ n # nextBB + 2
      BY <1>2, <2>2, <2>3
    <3>2. n # nextBB
      BY <1>2, <2>2
    <3>3. CASE nextBB' = nextBB + 1
      BY <1>1, <1>2, <3>2, <3>3
    <3>4. CASE stack'[t].role = "then" /\ nextBB' = nextBB + 3
      BY <1>1, <1>2, <3>1, <3>2, <3>4
    <3> QED
      BY <2>2, <3>3, <3>4
  <2>5. \A g \in 1 .. Len(stack) : g \in 1 .. Len(stack') /\ Same(g)
    BY <1>1, <1>4, <2>1, <2>2 DEF Begins
  <2> QED
    BY <1>2, <2>4, <2>5 DEF Same, Sealed
<1>5. CASE ResumesElse
  <2>1. PICK t \in 1 .. Len(stack) : t = Len(stack)
    BY <1>1, <1>5 DEF ResumesElse
  <2>2. /\ Len(stack') = Len(stack) /\ nextBB' = nextBB /\ bb' = stack[t].base + 1
        /\ stack[t].role = "then" /\ stack'[t].role = "else" /\ stack'[t].base = stack[t].base
    BY <1>5, <2>1 DEF ResumesElse, ThenToElse
  <2>3. ASSUME NEW g \in 1 .. Len(stack)
        PROVE  /\ stack[g].role = "then" => n # stack[g].base + 1
               /\ stack[g].role \in {"then", "else"} => n # stack[g].base + 2
    <3>1. CASE g = t
      BY <1>2, <2>2, <3>1
    <3>2. CASE g # t
      <4>1. Same(g)
        BY <1>5, <2>1, <2>2, <3>2 DEF ResumesElse, ThenToElse
      <4> QED
        BY <1>2, <2>2, <4>1 DEF Same
    <3> QED
      BY <3>1, <3>2
  <2> QED
    BY <1>2, <2>2, <2>3 DEF Sealed
<1>6. CASE ResumesMerge
  <2>1. PICK t \in 1 .. Len(stack) : t = Len(stack)
    BY <1>1, <1>6 DEF ResumesMerge
  <2>2. /\ Len(stack') = t - 1 /\ nextBB' = nextBB /\ bb' = stack[t].base + 2
        /\ \A g \in 1 .. Len(stack') : Same(g)
    BY <1>6, <2>1 DEF ResumesMerge
  <2>3. CASE stack[t].role = "then" /\ n = stack[t].base + 1
    <3>1. stack # << >>
      BY <2>1, EmptySeq
    <3> QED
      BY <2>1, <2>2, <2>3, <3>1 DEF Top
  <2>4. CASE ~(stack[t].role = "then" /\ n = stack[t].base + 1)
    <3>1. ASSUME NEW g \in 1 .. Len(stack)
          PROVE  /\ stack[g].role = "then" => n # stack[g].base + 1
                 /\ stack[g].role \in {"then", "else"} => n # stack[g].base + 2
      <4>1. CASE g = t
        BY <1>2, <2>2, <2>4, <4>1
      <4>2. CASE g # t
        <5>1. g \in 1 .. Len(stack')
          BY <1>1, <2>1, <2>2, <4>2
        <5> QED
          BY <1>2, <2>2, <5>1 DEF Same
      <4> QED
        BY <4>1, <4>2
    <3> QED
      BY <1>2, <2>2, <3>1 DEF Sealed
  <2> QED
    BY <2>3, <2>4
<1> QED
  BY <1>3, <1>4, <1>5, <1>6, Moves

\* Basic blocks of the code after a step: the current one and sealed ones.
LEMMA PlacedStep ==
  ASSUME StackInv, MemberInv, BasicBlockInv, Placed, [Next]_cgVars,
         \A k \in Len(code) + 1 .. Len(code') : \E n \in Nat :
           n = code'[k].bb /\ n < nextBB /\ (n = bb \/ Sealed(n)')
  PROVE  Placed'
<1>1. Extends /\ Len(code) \in Nat /\ Len(code') \in Nat
  BY Extended, LenProperties DEF MemberInv, Extends
<1>2. nextBB \in Nat /\ nextBB' \in Nat /\ nextBB <= nextBB' /\ bb \in Nat
  BY Moves DEF MemberInv, Stays, Begins, Begun, ResumesElse, ResumesMerge
<1>3. ASSUME NEW k \in 1 .. Len(code')
      PROVE  \E n \in Nat : n = code'[k].bb /\ n < nextBB /\ (n = bb \/ Sealed(n)')
  <2>1. CASE k \in 1 .. Len(code)
    <3>1. PICK n \in Nat : n = code[k].bb
      BY <2>1 DEF Placed
    <3>2. code'[k] = code[k] /\ n < nextBB /\ (n = bb \/ Sealed(n))
      BY <1>1, <2>1, <3>1 DEF Placed, Extends
    <3>3. Sealed(n) => Sealed(n)'
      BY SealedStep
    <3> QED
      BY <3>1, <3>2, <3>3
  <2>2. CASE k \notin 1 .. Len(code)
    BY <1>1, <2>2
  <2> QED
    BY <2>1, <2>2
<1>4. ASSUME NEW k \in 1 .. Len(code')
      PROVE  /\ code'[k].bb \in Nat /\ code'[k].bb < nextBB'
             /\ code'[k].bb = bb' \/ Sealed(code[k].bb)'
  <2>1. PICK n \in Nat : n = code'[k].bb /\ n < nextBB /\ (n = bb \/ Sealed(n)')
    BY <1>3
  <2>2. n = bb' \/ Sealed(n)'
    <3>1. CASE n = bb /\ bb' # bb
      BY <2>1, <3>1, LeftSealed
    <3> QED
      BY <2>1, <3>1
  <2>3. n < nextBB'
    BY <1>2, <2>1
  <2>4. Sealed(n)' => Sealed(code[k].bb)'
    BY <2>1
  <2> QED
    BY <2>1, <2>2, <2>3, <2>4
<1> QED
  BY <1>4 DEF Placed

LEMMA SealedDoneStep ==
  ASSUME StackInv, MemberInv, SealedDone, [Next]_cgVars,
         bb' = bb => \A g \in 1 .. Len(stack) :
                       g <= Len(stack') \/ stack[g].role \notin {"then", "else"},
         \A n \in Nat : n = bb /\ bb' # bb => Done(n)',
         stack # << >> /\ Top.role = "then" /\ Len(stack') = Len(stack) - 1 =>
           \A n \in Nat : n = Top.base + 1 => Done(n)'
  PROVE  SealedDone'
<1>1. SUFFICES ASSUME NEW n \in Nat, Sealed(n)' PROVE Done(n)'
  BY DEF SealedDone
<1>2. \/ Sealed(n) \/ n = bb
      \/ /\ stack # << >> /\ Top.role = "then" /\ n = Top.base + 1
         /\ Len(stack') = Len(stack) - 1
  BY <1>1, NewlySealed
<1>3. n # bb'
  BY <1>1 DEF Sealed
<1>4. CASE Sealed(n)
  <2>1. ASSUME NEW k \in Len(code) + 1 .. Len(code') PROVE code'[k].bb # n
    <3>1. \/ code'[k].bb = bb
          \/ stack # << >> /\ Top.role = "then" /\ code'[k].bb = Top.base + 1
      BY Where
    <3>2. stack # << >> => Len(stack) \in 1 .. Len(stack)
      BY EmptySeq DEF StackInv
    <3> QED
      BY <1>4, <3>1, <3>2 DEF Sealed, Top
  <2>2. Done(n)
    BY <1>4 DEF SealedDone
  <2> QED
    BY <2>1, <2>2, Extended, DoneStays
<1> QED
  BY <1>2, <1>3, <1>4

-----------------------------------------------------------------------------

LEMMA RootFrame ==
  ASSUME StackInv, stack # << >>
  PROVE  /\ Len(stack) = 1 <=> Top.blk = "root"
         /\ Len(stack) = 1 <=> Top.role = "root"
         /\ Top.blk = "root" /\ Top.i <= Len(Block) =>
              Current.kind \in {"function", "declaration"}
<1>1. /\ FrameOK(Len(stack)) /\ Top.blk \in DOMAIN prog /\ Top.i \in Nat /\ Top.i >= 1
      /\ Len(Block) \in Nat
  BY TopFrame
<1>2. \A i \in 1 .. Len(prog["root"]) : prog["root"][i].kind \in {"function", "declaration"}
  BY <1>1, Statements
<1> QED
  BY <1>1, <1>2 DEF FrameOK, RoleOK, Top, Current, Block

\* How the stack moves, with what FramesBranch says of it.
LEMMA FlowAdvance ==
  ASSUME StackInv, stack # << >>, stack' = Advance(stack), prog' = prog
  PROVE  /\ Len(stack') = Len(stack) /\ stack' # << >>
         /\ Top'.i = Top.i + 1 /\ Top'.blk = Top.blk /\ Top'.role = Top.role
         /\ Block' = Block
         /\ FramesBranch => FramesBranch'
<1>1. PICK t \in Nat : t = Len(stack) /\ t >= 1
  BY TopFrame
<1>2. /\ Len(stack') = t /\ \A n \in 1 .. t - 1 : stack'[n] = stack[n]
      /\ stack'[t] = [Top EXCEPT !.i = @ + 1] /\ stack' \in Seq(Frames(DOMAIN prog))
  BY <1>1, AdvanceFrames DEF StackInv, Top
<1>3. stack'[t].i = Top.i + 1 /\ stack'[t].blk = Top.blk /\ stack'[t].role = Top.role
  BY <1>2, TopFrame DEF Frames
<1>4. stack' # << >>
  BY <1>1, <1>2, EmptySeq
<1>5. Top'.i = Top.i + 1 /\ Top'.blk = Top.blk /\ Top'.role = Top.role /\ Block' = Block
  BY <1>1, <1>2, <1>3 DEF Top, Block
<1>6. ASSUME FramesBranch, NEW f \in 2 .. t
      PROVE  /\ stack'[f].role = "body" <=> f = 2
             /\ stack'[f].role = "body" => EndsWithReturn(prog[stack'[f].blk])
             /\ stack'[f].role \in {"then", "else"} => Branching(prog[stack'[f].blk])
             /\ f < t => InlineAt(prog[stack'[f].blk], stack'[f].i, "if")
  <2>1. CASE f = t
    BY <1>1, <1>3, <1>6, <2>1 DEF FramesBranch, Top
  <2>2. CASE f # t
    <3>1. f \in 1 .. t - 1
      BY <1>1, <2>2
    <3> QED
      BY <1>1, <1>2, <1>6, <3>1 DEF FramesBranch
  <2> QED
    BY <2>1, <2>2
<1> QED
  BY <1>1, <1>2, <1>4, <1>5, <1>6 DEF FramesBranch

LEMMA FlowPush ==
  ASSUME StackInv, FramesBranch, NEW b \in DOMAIN prog, NEW base \in Nat,
         NEW role \in {"body", "then"}, stack # << >>,
         stack' = Append(stack, Frame(b, role, base)), prog' = prog,
         role = "body" <=> Len(stack) = 1,
         role = "body" => EndsWithReturn(prog[b]),
         role = "then" => Branching(prog[b]) /\ InlineAt(Block, Top.i, "if")
  PROVE  /\ Len(stack') = Len(stack) + 1 /\ stack' # << >>
         /\ Top'.i = 1 /\ Top'.role = role /\ Block' = prog[b]
         /\ FramesBranch'
<1>1. PICK t \in Nat : t = Len(stack) /\ t >= 1
  BY TopFrame
<1>2. PICK x \in Frames(DOMAIN prog) : x = Frame(b, role, base)
  BY FrameInFrames
<1>3. x.blk = b /\ x.i = 1 /\ x.role = role
  BY <1>2 DEF Frame
<1>4. /\ Len(stack') = t + 1 /\ stack' # << >>
      /\ \A n \in 1 .. t : stack'[n] = stack[n]
      /\ stack'[t + 1] = x
  BY <1>1, <1>2, AppendProperties, EmptySeq DEF StackInv
<1>5. Top'.i = 1 /\ Top'.role = role /\ Block' = prog[b]
  BY <1>3, <1>4 DEF Top, Block
<1>6. ASSUME NEW f \in 2 .. t + 1
      PROVE  /\ stack'[f].role = "body" <=> f = 2
             /\ stack'[f].role = "body" => EndsWithReturn(prog[stack'[f].blk])
             /\ stack'[f].role \in {"then", "else"} => Branching(prog[stack'[f].blk])
             /\ f < t + 1 => InlineAt(prog[stack'[f].blk], stack'[f].i, "if")
  <2>1. CASE f = t + 1
    BY <1>1, <1>3, <1>4, <2>1
  <2>2. CASE f = t
    <3>1. role = "then" /\ stack'[f] = Top
      BY <1>1, <1>4, <2>2 DEF Top
    <3> QED
      BY <1>1, <2>2, <3>1 DEF FramesBranch, Block, Top
  <2>3. CASE f # t /\ f # t + 1
    <3>1. f \in 1 .. t /\ f < t
      BY <1>1, <2>3
    <3> QED
      BY <1>1, <1>4, <3>1 DEF FramesBranch
  <2> QED
    BY <2>1, <2>2, <2>3
<1> QED
  BY <1>1, <1>4, <1>5, <1>6 DEF FramesBranch

\* The visitor returns to the block around the one it leaves.
LEMMA FlowPop ==
  ASSUME StackInv, FramesBranch, stack # << >>, Top.role # "root",
         stack' = Advance(Pop(stack)), prog' = prog
  PROVE  /\ Len(stack') = Len(stack) - 1 /\ stack' # << >> /\ FramesBranch'
         /\ Len(stack) >= 3 =>
              /\ Top'.i \in Nat /\ InlineAt(Block', Top'.i - 1, "if")
              /\ Top'.blk \in DOMAIN prog
<1>1. /\ Len(stack) \in Nat /\ Len(stack) >= 2
      /\ Pop(stack) # << >> /\ Pop(stack) \in Seq(Frames(DOMAIN prog))
      /\ Len(Pop(stack)) = Len(stack) - 1
      /\ \A n \in 1 .. Len(stack) - 1 : Pop(stack)[n] = stack[n]
      /\ stack[Len(stack) - 1] \in Frames(DOMAIN prog)
  BY Parent
<1>2. PICK p \in Seq(Frames(DOMAIN prog)) : p = Pop(stack) /\ p # << >>
  BY <1>1, Zenon
<1>3. PICK m \in Nat : m = Len(stack) - 1 /\ m >= 1
  BY <1>1
<1>4. Len(p) = m /\ \A n \in 1 .. m : p[n] = stack[n]
  BY <1>1, <1>2, <1>3
<1>5. /\ Len(stack') = m /\ stack' \in Seq(Frames(DOMAIN prog))
      /\ \A n \in 1 .. m - 1 : stack'[n] = stack[n]
      /\ stack'[m] = [stack[m] EXCEPT !.i = @ + 1]
  <2>1. /\ stack' \in Seq(Frames(DOMAIN prog)) /\ Len(stack') = Len(p)
        /\ \A n \in 1 .. Len(p) - 1 : stack'[n] = p[n]
        /\ stack'[Len(p)] = [p[Len(p)] EXCEPT !.i = @ + 1]
    BY <1>2, AdvanceFrames, Zenon
  <2>2. p[m] = stack[m] /\ \A n \in 1 .. m - 1 : p[n] = stack[n]
    BY <1>3, <1>4
  <2> QED
    BY <1>4, <2>1, <2>2, Zenon
<1>6. /\ stack'[m].i = stack[m].i + 1 /\ stack[m].i \in Nat
      /\ stack'[m].blk = stack[m].blk /\ stack'[m].role = stack[m].role
      /\ stack[m].blk \in DOMAIN prog
  BY <1>1, <1>3, <1>5 DEF Frames
<1>7. stack' # << >>
  BY <1>3, <1>5, EmptySeq
<1>8. ASSUME NEW f \in 2 .. m
      PROVE  /\ stack'[f].role = "body" <=> f = 2
             /\ stack'[f].role = "body" => EndsWithReturn(prog[stack'[f].blk])
             /\ stack'[f].role \in {"then", "else"} => Branching(prog[stack'[f].blk])
             /\ f < m => InlineAt(prog[stack'[f].blk], stack'[f].i, "if")
  <2>1. f \in 2 .. Len(stack) /\ f < Len(stack)
    BY <1>1, <1>3
  <2>2. CASE f = m
    BY <1>6, <2>1, <2>2 DEF FramesBranch
  <2>3. CASE f # m
    <3>1. f \in 1 .. m - 1
      BY <1>3, <2>3
    <3> QED
      BY <1>5, <2>1, <3>1 DEF FramesBranch
  <2> QED
    BY <2>2, <2>3
<1>9. FramesBranch'
  BY <1>5, <1>8 DEF FramesBranch
<1>10. ASSUME Len(stack) >= 3
       PROVE  /\ Top'.i \in Nat /\ InlineAt(Block', Top'.i - 1, "if")
              /\ Top'.blk \in DOMAIN prog
  <2>1. m \in 2 .. Len(stack) /\ m < Len(stack)
    BY <1>1, <1>3, <1>10
  <2>2. InlineAt(prog[stack[m].blk], stack[m].i, "if")
    BY <2>1 DEF FramesBranch
  <2>3. stack'[m].i - 1 = stack[m].i /\ stack'[m].i \in Nat
    BY <1>6
  <2> QED
    BY <1>5, <1>6, <2>2, <2>3 DEF Top, Block
<1> QED
  BY <1>3, <1>5, <1>7, <1>9, <1>10

LEMMA FlowElse ==
  ASSUME StackInv, FramesBranch, stack # << >>, Top.role = "then",
         NEW b \in DOMAIN prog, Branching(prog[b]), Len(stack) >= 3,
         stack' = Append(Pop(stack), Frame(b, "else", Top.base)), prog' = prog
  PROVE  /\ Len(stack') = Len(stack) /\ stack' # << >> /\ FramesBranch'
         /\ Top'.i = 1 /\ Top'.role = "else" /\ Block' = prog[b]
<1>1. /\ Len(stack) \in Nat /\ Pop(stack) \in Seq(Frames(DOMAIN prog))
      /\ Len(Pop(stack)) = Len(stack) - 1
      /\ \A n \in 1 .. Len(stack) - 1 : Pop(stack)[n] = stack[n]
  BY Parent
<1>2. Top.base \in Nat
  BY TopFrame
<1>3. PICK x \in Frames(DOMAIN prog) : x = Frame(b, "else", Top.base)
  BY <1>2, FrameInFrames
<1>4. x.blk = b /\ x.i = 1 /\ x.role = "else"
  BY <1>3 DEF Frame
<1>5. PICK p \in Seq(Frames(DOMAIN prog)) : p = Pop(stack)
  BY <1>1
<1>6. PICK t \in Nat : t = Len(stack) /\ t >= 3 /\ Len(p) = t - 1
  BY <1>1, <1>5
<1>7. /\ Len(stack') = t /\ stack' # << >> /\ stack'[t] = x
      /\ \A n \in 1 .. t - 1 : stack'[n] = stack[n]
  <2>1. /\ Len(stack') = Len(p) + 1 /\ \A n \in 1 .. Len(p) : stack'[n] = p[n]
        /\ stack'[Len(p) + 1] = x /\ stack' \in Seq(Frames(DOMAIN prog))
    BY <1>3, <1>5, AppendProperties
  <2>2. Len(stack') = t /\ stack'[t] = x /\ \A n \in 1 .. t - 1 : stack'[n] = stack[n]
    BY <1>1, <1>5, <1>6, <2>1
  <2>3. stack' # << >>
    BY <1>6, <2>2, EmptySeq
  <2> QED
    BY <2>2, <2>3
<1>8. Top'.i = 1 /\ Top'.role = "else" /\ Block' = prog[b]
  BY <1>4, <1>7 DEF Top, Block
<1>9. ASSUME NEW f \in 2 .. t
      PROVE  /\ stack'[f].role = "body" <=> f = 2
             /\ stack'[f].role = "body" => EndsWithReturn(prog[stack'[f].blk])
             /\ stack'[f].role \in {"then", "else"} => Branching(prog[stack'[f].blk])
             /\ f < t => InlineAt(prog[stack'[f].blk], stack'[f].i, "if")
  <2>1. CASE f = t
    BY <1>4, <1>6, <1>7, <2>1
  <2>2. CASE f # t
    <3>1. f \in 1 .. t - 1 /\ f < t
      BY <1>6, <2>2
    <3> QED
      BY <1>6, <1>7, <3>1 DEF FramesBranch
  <2> QED
    BY <2>1, <2>2
<1> QED
  BY <1>6, <1>7, <1>8, <1>9 DEF FramesBranch

-----------------------------------------------------------------------------

\* A statement that is no return and no conditional, or one of a group, in a function.
LEMMA FlowContinues ==
  ASSUME StackInv, MemberInv, BasicBlockInv, Flow, [Next]_cgVars, Continues,
         stack # << >>, stack' = Advance(stack), UNCHANGED <<prog, bb, nextBB>>,
         Len(stack) >= 2, Top.i <= Len(Block), ~InlineAt(Block, Top.i, "return")
  PROVE  FramesBranch' /\ CurrentBlock' /\ SealedDone' /\ Placed'
<1>1. /\ Len(stack) \in Nat /\ Top.i \in Nat /\ Len(Block) \in Nat
      /\ Top.i >= 1 /\ nextBB \in Nat /\ bb < nextBB
  BY TopFrame DEF MemberInv, BasicBlockInv, CurrentInside
<1>2. PICK n \in Nat : n = bb
  BY DEF MemberInv
<1>3. /\ Len(stack') = Len(stack) /\ Top'.i = Top.i + 1 /\ Block' = Block
      /\ FramesBranch'
  BY FlowAdvance DEF Flow
<1>4. ~Settled
  BY <1>1 DEF Settled
<1>5. ~Settled'
  <2>1. Top.i + 1 > Len(Block) => Top.i = Len(Block)
    BY <1>1
  <2>2. ~(Top.i + 1 > Len(Block) /\ EndsWithReturn(Block))
    BY <2>1 DEF EndsWithReturn
  <2>3. ~(Len(stack') <= 1)
    BY <1>1, <1>3
  <2> QED
    BY <1>3, <2>2, <2>3 DEF Settled
<1>6. CurrentBlock'
  <2>1. Unfinished(n)'
    BY <1>2, <1>4, UnfinishedStays DEF Flow, CurrentBlock, Continues
  <2>2. Unfinished(bb)'
    BY <1>2, <2>1
  <2> QED
    BY <1>5, <2>2 DEF CurrentBlock
<1>7. SealedDone'
  <2>1. Len(stack') # Len(stack) - 1 /\ \A g \in 1 .. Len(stack) : g <= Len(stack')
    BY <1>1, <1>3
  <2> QED
    BY <2>1, SealedDoneStep DEF Flow
<1>8. Placed'
  BY <1>1, <1>2, PlacedStep DEF Flow, Continues
<1> QED
  BY <1>3, <1>6, <1>7, <1>8

\* Declarations at the root emit no instruction.
LEMMA FlowOutside ==
  ASSUME StackInv, MemberInv, BasicBlockInv, Flow, [Next]_cgVars,
         Len(stack) <= 1, Len(stack') <= 1, code' = code, executeCommit',
         UNCHANGED <<bb, nextBB, prog>>
  PROVE  CurrentBlock' /\ SealedDone' /\ Placed'
<1>1. Len(stack) \in Nat /\ Len(code) \in Nat /\ nextBB \in Nat
  BY LenProperties DEF StackInv, MemberInv
<1>2. PICK n \in Nat : n = bb
  BY DEF MemberInv
<1>3. Len(code) + 1 .. Len(code') = {}
  BY <1>1
<1>4. Settled /\ Settled'
  BY DEF Settled
<1>5. CurrentBlock'
  <2>1. bb < nextBB => Done(bb)
    BY <1>4 DEF Flow, CurrentBlock
  <2>2. bb' < nextBB' => Done(bb)'
    BY <2>1 DEF Done, Terminates
  <2> QED
    BY <1>4, <2>2 DEF CurrentBlock
<1>6. \A g \in 1 .. Len(stack) : stack[g].role = "root"
  <2>1. ASSUME NEW g \in 1 .. Len(stack) PROVE stack[g].role = "root"
    <3>1. g = 1
      BY <1>1
    <3>2. FrameOK(1)
      BY <3>1 DEF StackInv
    <3> QED
      BY <3>1, <3>2 DEF FrameOK, RoleOK
  <2> QED
    BY <2>1
<1>7. SealedDone'
  <2>1. stack # << >> => Top.role # "then"
    <3>1. stack # << >> => Len(stack) \in 1 .. Len(stack)
      BY EmptySeq DEF StackInv
    <3> QED
      BY <1>6, <3>1 DEF Top
  <2> QED
    BY <1>6, <2>1, SealedDoneStep DEF Flow
<1>8. Placed'
  BY <1>3, PlacedStep DEF Flow
<1> QED
  BY <1>5, <1>7, <1>8

LEMMA FlowSchedule ==
  ASSUME StackInv, MemberInv, BasicBlockInv, Flow, ScheduleStatement, ~Fail
  PROVE  Flow'
<1>1. /\ stack # << >> /\ Top.i <= Len(Block) /\ ~commitVector(Block, Top.i)
      /\ [Next]_cgVars
  BY DEF ScheduleStatement, Visiting, Next
<1>2. /\ stack' = Advance(stack) /\ justReturned' = TRUE /\ UNCHANGED <<prog, bb, nextBB>>
  BY ScheduleEmits
<1>3. /\ Len(stack) >= 2 /\ Continues
  BY ScheduledInside, ScheduleContinues
<1>4. ~InlineAt(Block, Top.i, "return")
  BY <1>1 DEF InlineAt
<1>5. FramesBranch' /\ CurrentBlock' /\ SealedDone' /\ Placed'
  BY <1>1, <1>2, <1>3, <1>4, FlowContinues
<1>6. /\ Top'.i = Top.i + 1 /\ Top'.role = Top.role /\ Block' = Block
  BY <1>1, <1>2, FlowAdvance
<1>7. Len(stack) \in Nat /\ Top.i \in Nat /\ Len(Block) \in Nat /\ Top.i >= 1
  BY <1>1, TopFrame
<1>8. ReturnKnown'
  <2>1. SUFFICES ASSUME Top.role \in {"then", "else"}
                 PROVE  IF EndsWithReturn(Block) THEN Top.i + 1 > Len(Block) => justReturned'
                        ELSE \E j \in Top.i + 1 .. Len(Block) : InlineAt(Block, j, "if")
    BY <1>2, <1>6 DEF ReturnKnown
  <2>2. CASE EndsWithReturn(Block)
    BY <1>2, <2>2
  <2>3. CASE ~EndsWithReturn(Block)
    <3>1. Branching(Block)
      <4>1. PICK t \in 2 .. Len(stack) : t = Len(stack)
        BY <1>3, <1>7
      <4> QED
        BY <2>1, <4>1 DEF Flow, FramesBranch, Top, Block
    <3>2. Top.i \in 1 .. Len(Block)
      BY <1>1, <1>7
    <3> QED
      BY <1>1, <2>3, <3>1, <3>2 DEF Branching
  <2> QED
    BY <2>2, <2>3
<1> QED
  BY <1>5, <1>8 DEF Flow

LEMMA FlowPlain ==
  ASSUME StackInv, MemberInv, BasicBlockInv, Flow, VisitPlain \/ VisitDeclaration
  PROVE  Flow'
<1>1. /\ stack # << >> /\ Top.i <= Len(Block) /\ [Next]_cgVars
      /\ Current.kind \in {"assign", "call", "vardef", "declaration"}
      /\ stack' = Advance(stack) /\ executeCommit' = TRUE
      /\ UNCHANGED <<prog, bb, nextBB, justReturned>>
  BY DEF VisitPlain, VisitDeclaration, Inline, Visiting, Commit, Next
<1>2. ~InlineAt(Block, Top.i, "return") /\ ~InlineAt(Block, Top.i, "if")
  BY <1>1 DEF InlineAt, Current
<1>3. /\ Len(stack') = Len(stack) /\ FramesBranch'
      /\ Top'.i = Top.i + 1 /\ Top'.role = Top.role /\ Block' = Block
  BY <1>1, FlowAdvance DEF Flow
<1>4. /\ Len(stack) \in Nat /\ Len(stack) >= 1
      /\ Top.i \in Nat /\ Len(Block) \in Nat /\ Top.i >= 1
  BY <1>1, TopFrame
<1>5. CASE Len(stack) >= 2
  <2>1. Continues
    BY PlainContinues, DeclarationContinues
  <2>2. FramesBranch' /\ CurrentBlock' /\ SealedDone' /\ Placed'
    BY <1>1, <1>2, <1>5, <2>1, FlowContinues
  <2>3. ReturnKnown'
    <3>1. SUFFICES ASSUME Top.role \in {"then", "else"}
                   PROVE  IF EndsWithReturn(Block) THEN Top.i + 1 > Len(Block) => justReturned
                          ELSE justReturned =>
                                 \E j \in Top.i + 1 .. Len(Block) : InlineAt(Block, j, "if")
      BY <1>1, <1>3 DEF ReturnKnown
    <3>2. CASE EndsWithReturn(Block)
      <4>1. Top.i # Len(Block)
        BY <1>2, <3>2 DEF EndsWithReturn
      <4>2. ~(Top.i + 1 > Len(Block))
        BY <1>1, <1>4, <4>1
      <4> QED
        BY <3>2, <4>2
    <3>3. CASE ~EndsWithReturn(Block)
      <4>1. SUFFICES ASSUME justReturned
                     PROVE  \E j \in Top.i + 1 .. Len(Block) : InlineAt(Block, j, "if")
        BY <3>3
      <4>2. PICK j \in Top.i .. Len(Block) : InlineAt(Block, j, "if")
        BY <1>1, <3>1, <3>3, <4>1 DEF Flow, ReturnKnown
      <4>3. j # Top.i
        BY <1>2, <4>2
      <4>4. j \in Top.i + 1 .. Len(Block)
        BY <1>4, <4>3
      <4> QED
        BY <4>2, <4>4
    <3> QED
      BY <3>2, <3>3
  <2> QED
    BY <2>2, <2>3 DEF Flow
<1>6. CASE ~(Len(stack) >= 2)
  <2>1. Len(stack) = 1
    <3>1. PICK t \in Nat : t = Len(stack) /\ t >= 1 /\ ~(t >= 2)
      BY <1>4, <1>6, Zenon
    <3>2. t = 1
      BY <3>1
    <3> QED
      BY <3>1, <3>2, Zenon
  <2>2. Settled /\ executeCommit
    BY <2>1 DEF Settled, Flow, CurrentBlock
  <2>3. Current.kind = "declaration" /\ Top.role = "root"
    BY <1>1, <2>1, RootFrame
  <2>4. VisitDeclaration
    BY <2>3 DEF VisitPlain, Inline
  <2>5. code' = code
    BY <2>2, <2>4, DeclarationContinues
  <2>6. CurrentBlock' /\ SealedDone' /\ Placed'
    <3>1. Len(stack) <= 1 /\ Len(stack') <= 1
      BY <1>3, <2>1
    <3> QED
      BY <1>1, <2>5, <3>1, FlowOutside
  <2>7. ReturnKnown'
    BY <1>3, <2>3 DEF ReturnKnown
  <2> QED
    BY <1>3, <2>6, <2>7 DEF Flow
<1> QED
  BY <1>5, <1>6

\* The block being visited and its statement, as Structured sees them.
LEMMA StructuredHere ==
  ASSUME StackInv, Structured, stack # << >>, Top.i <= Len(Block), commitVector(Block, Top.i)
  PROVE  /\ Current.kind = "return" => EndsWithReturn(Block) /\ Top.i = Len(Block)
         /\ Current.kind = "function" =>
              Top.blk = "root" /\ EndsWithReturn(prog[Current.body])
         /\ Current.kind = "if" =>
              InlineAt(Block, Top.i, "if") /\ Branching(prog[Current.then])
<1>1. Top.blk \in DOMAIN prog /\ Top.i \in 1 .. Len(Block)
  BY TopFrame
<1>2. \A kind : Current.kind = kind => InlineAt(Block, Top.i, kind)
  BY <1>1 DEF InlineAt, Current
<1>3. /\ InlineAt(Block, Top.i, "return") => Top.i = Len(Block)
      /\ InlineAt(Block, Top.i, "function") =>
           Top.blk = "root" /\ EndsWithReturn(prog[Current.body])
      /\ InlineAt(Block, Top.i, "if") => Branching(prog[Current.then])
  BY <1>1 DEF Structured, Block, Current
<1> QED
  BY <1>2, <1>3 DEF EndsWithReturn

LEMMA FlowReturn ==
  ASSUME StackInv, MemberInv, BasicBlockInv, Structured, Flow, VisitReturn
  PROVE  Flow'
<1>1. /\ stack # << >> /\ Top.i <= Len(Block) /\ commitVector(Block, Top.i)
      /\ Current.kind = "return" /\ [Next]_cgVars
      /\ stack' = Advance(stack) /\ executeCommit' = TRUE /\ justReturned' = TRUE
      /\ UNCHANGED <<prog, bb, nextBB>>
  BY DEF VisitReturn, Inline, Visiting, Commit, Next
<1>2. EndsWithReturn(Block) /\ Top.i = Len(Block)
  BY <1>1, StructuredHere
<1>3. /\ Len(stack') = Len(stack) /\ FramesBranch'
      /\ Top'.i = Top.i + 1 /\ Top'.role = Top.role /\ Block' = Block
  BY <1>1, FlowAdvance DEF Flow
<1>4. /\ Len(stack) \in Nat /\ Len(stack) >= 1
      /\ Top.i \in Nat /\ Len(Block) \in Nat /\ nextBB \in Nat
  BY <1>1, TopFrame DEF MemberInv
<1>5. Len(stack) >= 2 /\ bb < nextBB
  <2>1. Len(stack) # 1
    BY <1>1, RootFrame
  <2>2. PICK t \in Nat : t = Len(stack) /\ t >= 1 /\ t # 1
    BY <1>4, <2>1, Zenon
  <2>3. t >= 2
    BY <2>2
  <2>4. Len(stack) >= 2
    BY <2>2, <2>3, Zenon
  <2> QED
    BY <2>4 DEF BasicBlockInv, CurrentInside
<1>6. PICK n \in Nat : n = bb
  BY DEF MemberInv
<1>7. Finishes
  BY BranchFinishes
<1>8. CurrentBlock'
  <2>1. Unfinished(n)
    <3>1. ~Settled
      BY <1>1, <1>4, <1>5 DEF Settled
    <3> QED
      BY <1>6, <3>1 DEF Flow, CurrentBlock
  <2>2. Done(n)'
    BY <1>6, <1>7, <2>1, FinishesBlock
  <2>3. Done(bb)'
    BY <1>1, <1>6, <2>2
  <2>4. Top.i + 1 > Len(Block)
    BY <1>2, <1>4
  <2>5. Settled'
    BY <1>2, <1>3, <2>4 DEF Settled
  <2> QED
    BY <1>1, <2>3, <2>5 DEF CurrentBlock
<1>9. SealedDone'
  <2>1. Len(stack') # Len(stack) - 1 /\ \A g \in 1 .. Len(stack) : g <= Len(stack')
    BY <1>3, <1>4
  <2> QED
    BY <1>1, <2>1, SealedDoneStep DEF Flow
<1>10. Placed'
  <2>1. ASSUME NEW k \in Len(code) + 1 .. Len(code') PROVE code'[k].bb = n
    BY <1>6, CommitContinues, InlineCommits
  <2> QED
    BY <1>1, <1>5, <1>6, <2>1, PlacedStep DEF Flow
<1>11. ReturnKnown'
  BY <1>1, <1>2, <1>3 DEF ReturnKnown
<1> QED
  BY <1>3, <1>8, <1>9, <1>10, <1>11 DEF Flow

LEMMA FlowFunction ==
  ASSUME StackInv, MemberInv, BasicBlockInv, Structured, Flow, VisitFunction
  PROVE  Flow'
<1>1. /\ stack # << >> /\ Top.i <= Len(Block) /\ commitVector(Block, Top.i)
      /\ Current.kind = "function" /\ [Next]_cgVars /\ executeCommit' = TRUE
      /\ stack' = Append(stack, Frame(Current.body, "body", nextBB))
      /\ bb' = nextBB /\ nextBB' = nextBB + 1 /\ prog' = prog
  BY DEF VisitFunction, Inline, Visiting, Commit, Next
<1>2. PICK n \in Nat : n = nextBB
  BY DEF MemberInv
<1>3. PICK b \in DOMAIN prog : b = Current.body
  BY <1>1, TopFrame DEF IsStatement
<1>4. Top.blk = "root" /\ EndsWithReturn(prog[b])
  BY <1>1, <1>3, StructuredHere
<1>5. Len(stack) = 1
  BY <1>1, <1>4, RootFrame
<1>6. /\ Len(stack') = 2 /\ stack' # << >> /\ FramesBranch'
      /\ Top'.i = 1 /\ Top'.role = "body" /\ Block' = prog[b]
  BY <1>1, <1>2, <1>3, <1>4, <1>5, FlowPush DEF Flow
<1>7. Settled /\ executeCommit /\ (bb < nextBB => Done(bb))
  BY <1>5 DEF Settled, Flow, CurrentBlock
<1>8. code' = code
  BY <1>7, DeclarationContinues
<1>9. Len(code) \in Nat /\ bb \in Nat /\ bb <= nextBB /\ Len(code) + 1 .. Len(code') = {}
  <2>1. Len(code) \in Nat
    BY LenProperties DEF MemberInv
  <2> QED
    BY <1>8, <2>1 DEF MemberInv
<1>10. CurrentBlock'
  <2>1. Unfinished(n)'
    BY <1>2, <1>8 DEF Unfinished, Flow, Placed
  <2>2. Unfinished(bb)'
    BY <1>1, <1>2, <2>1
  <2>3. Len(prog[b]) >= 1
    BY <1>4, Statements DEF EndsWithReturn, InlineAt
  <2>4. ~Settled'
    <3>1. ~(1 > Len(prog[b])) /\ ~(Len(stack') <= 1)
      BY <1>6, <2>3, Statements
    <3> QED
      BY <1>6, <3>1 DEF Settled
  <2> QED
    BY <2>2, <2>4 DEF CurrentBlock
<1>11. SealedDone'
  <2>1. ASSUME NEW m \in Nat, m = bb, bb' # bb PROVE Done(m)'
    <3>1. bb < nextBB
      BY <1>1, <1>2, <1>9, <2>1
    <3> QED
      BY <1>7, <1>8, <2>1, <3>1 DEF Done, Terminates
  <2>2. Len(stack') # Len(stack) - 1 /\ \A g \in 1 .. Len(stack) : g <= Len(stack')
    BY <1>5, <1>6
  <2> QED
    BY <1>1, <2>1, <2>2, SealedDoneStep DEF Flow
<1>12. Placed'
  BY <1>1, <1>9, PlacedStep DEF Flow
<1>13. ReturnKnown'
  BY <1>6 DEF ReturnKnown
<1> QED
  BY <1>6, <1>10, <1>11, <1>12, <1>13 DEF Flow

\* A visitor at a new block has not reached its return.
LEMMA UnsettledAtStart ==
  ASSUME StackInv, NEW b \in DOMAIN prog, Len(stack') >= 2, Len(stack') \in Nat,
         Top'.i = 1, Block' = prog[b]
  PROVE  ~Settled' /\ (EndsWithReturn(Block') => ~(Top'.i > Len(Block')))
<1>1. Len(prog[b]) \in Nat
  BY Statements
<1>2. EndsWithReturn(prog[b]) => ~(1 > Len(prog[b]))
  BY <1>1 DEF EndsWithReturn, InlineAt
<1>3. ~(Len(stack') <= 1)
  OBVIOUS
<1> QED
  BY <1>2, <1>3 DEF Settled

LEMMA FlowIf ==
  ASSUME StackInv, MemberInv, BasicBlockInv, Structured, Flow, VisitIf
  PROVE  Flow'
<1>1. /\ stack # << >> /\ Top.i <= Len(Block) /\ commitVector(Block, Top.i)
      /\ Current.kind = "if" /\ [Next]_cgVars /\ justReturned' = FALSE
      /\ stack' = Append(stack, Frame(Current.then, "then", nextBB))
      /\ bb' = nextBB /\ nextBB' = nextBB + 3 /\ prog' = prog
  BY DEF VisitIf, Inline, Visiting, Next
<1>2. PICK n \in Nat : n = nextBB
  BY DEF MemberInv
<1>3. PICK b \in DOMAIN prog : b = Current.then
  BY <1>1, TopFrame DEF IsStatement
<1>4. InlineAt(Block, Top.i, "if") /\ Branching(prog[b])
  BY <1>1, <1>3, StructuredHere
<1>5. PICK t \in Nat : t = Len(stack) /\ t >= 2
  <2>1. Len(stack) # 1
    BY <1>1, RootFrame
  <2>2. PICK t \in Nat : t = Len(stack) /\ t >= 1 /\ t # 1
    BY <1>1, <2>1, TopFrame, Zenon
  <2>3. t >= 2
    BY <2>2
  <2> QED
    BY <2>2, <2>3
<1>6. /\ Len(stack') = t + 1 /\ stack' # << >> /\ FramesBranch'
      /\ Top'.i = 1 /\ Top'.role = "then" /\ Block' = prog[b]
  BY <1>1, <1>2, <1>3, <1>4, <1>5, FlowPush DEF Flow
<1>7. ~Settled' /\ (EndsWithReturn(Block') => ~(Top'.i > Len(Block')))
  <2>1. Len(stack') >= 2 /\ Len(stack') \in Nat
    BY <1>5, <1>6
  <2> QED
    BY <1>6, <2>1, UnsettledAtStart
<1>8. PICK m \in Nat : m = bb /\ m < n
  BY <1>2, <1>5 DEF MemberInv, BasicBlockInv, CurrentInside
<1>9. Finishes /\ Extends /\ Len(code) \in Nat /\ Len(code') \in Nat
  BY BranchFinishes, LenProperties DEF Finishes, Extends, MemberInv
<1>10. \A k \in Len(code) + 1 .. Len(code') : code'[k].bb = m
  BY <1>8, CommitContinues, InlineCommits
<1>11. Done(m)'
  <2>1. ~Settled
    BY <1>1, <1>5, TopFrame DEF Settled
  <2>2. Unfinished(m)
    BY <1>8, <2>1 DEF Flow, CurrentBlock
  <2> QED
    BY <1>8, <1>9, <2>2, FinishesBlock
<1>12. CurrentBlock'
  <2>1. Unfinished(n)
    BY <1>2 DEF Unfinished, Flow, Placed
  <2>2. Unfinished(n)'
    BY <1>8, <1>9, <1>10, <2>1, UnfinishedStays
  <2>3. Unfinished(bb)'
    BY <1>1, <1>2, <2>2
  <2> QED
    BY <1>7, <2>3 DEF CurrentBlock
<1>13. SealedDone'
  <2>1. Len(stack') # Len(stack) - 1 /\ \A g \in 1 .. Len(stack) : g <= Len(stack')
    BY <1>5, <1>6
  <2> QED
    BY <1>1, <1>8, <1>11, <2>1, SealedDoneStep DEF Flow
<1>14. Placed'
  BY <1>1, <1>2, <1>8, <1>10, PlacedStep DEF Flow
<1>15. ReturnKnown'
  BY <1>1, <1>7 DEF ReturnKnown
<1> QED
  BY <1>6, <1>12, <1>13, <1>14, <1>15 DEF Flow

\* At the end of a branch of a conditional the current basic block can be left.
LEMMA BranchAtEnd ==
  ASSUME StackInv, MemberInv, BasicBlockInv, Flow, stack # << >>, Top.i > Len(Block),
         Top.role \in {"then", "else"}
  PROVE  /\ Len(stack) >= 3 /\ bb < nextBB
         /\ IF justReturned THEN Done(bb) ELSE Unfinished(bb)
<1>1. PICK t \in Nat : t = Len(stack) /\ t >= 1
  BY TopFrame
<1>2. t >= 3
  <2>1. t # 1
    BY <1>1, RootFrame
  <2>2. t # 2
    <3>1. SUFFICES ASSUME t = 2 PROVE FALSE
      OBVIOUS
    <3>2. stack[2].role = "body"
      BY <1>1, <3>1 DEF Flow, FramesBranch
    <3> QED
      BY <1>1, <3>1, <3>2 DEF Top
  <2> QED
    BY <1>1, <2>1, <2>2
<1>3. bb < nextBB
  BY <1>1, <1>2 DEF BasicBlockInv, CurrentInside
<1>4. CASE EndsWithReturn(Block)
  <2>1. Settled
    BY <1>4 DEF Settled
  <2>2. Done(bb) /\ justReturned
    BY <1>3, <1>4, <2>1 DEF Flow, CurrentBlock, ReturnKnown
  <2> QED
    BY <1>1, <1>2, <1>3, <2>2
<1>5. CASE ~EndsWithReturn(Block)
  <2>1. ~Settled
    BY <1>1, <1>2, <1>5 DEF Settled
  <2>2. ~justReturned
    <3>1. Top.i .. Len(Block) = {}
      BY TopFrame
    <3> QED
      BY <1>5, <3>1 DEF Flow, ReturnKnown
  <2> QED
    BY <1>1, <1>2, <1>3, <2>1, <2>2 DEF Flow, CurrentBlock
<1> QED
  BY <1>4, <1>5

\* No instruction is in a basic block that a conditional has set aside.
LEMMA SetAsideEmpty ==
  ASSUME StackInv, BasicBlockInv, Flow, stack # << >>, NEW n \in Nat,
         \/ Top.role = "then" /\ n = Top.base + 1
         \/ Top.role \in {"then", "else"} /\ n = Top.base + 2
  PROVE  n # bb /\ \A k \in 1 .. Len(code) : code[k].bb # n
<1>1. Len(stack) \in 1 .. Len(stack)
  BY EmptySeq DEF StackInv
<1>2. n # bb
  BY <1>1 DEF BasicBlockInv, NotReserved, Top
<1>3. ~Sealed(n)
  BY <1>1 DEF Sealed, Top
<1>4. ASSUME NEW k \in 1 .. Len(code) PROVE code[k].bb # n
  BY <1>2, <1>3 DEF Flow, Placed
<1> QED
  BY <1>2, <1>4

\* A visitor back in the block around a conditional has not reached its return.
LEMMA UnsettledAfterIf ==
  ASSUME StackInv, Len(stack') >= 2, Len(stack') \in Nat, Top'.i \in Nat,
         InlineAt(Block', Top'.i - 1, "if"), Top'.blk \in DOMAIN prog, prog' = prog
  PROVE  ~Settled' /\ (EndsWithReturn(Block') => ~(Top'.i > Len(Block')))
<1>1. Len(Block') \in Nat
  <2>1. Len(prog[Top'.blk]) \in Nat
    BY Statements
  <2> QED
    BY <2>1 DEF Block
<1>2. Top'.i - 1 \in 1 .. Len(Block') /\ Block'[Top'.i - 1].kind = "if"
  BY DEF InlineAt
<1>3. ASSUME EndsWithReturn(Block'), Top'.i > Len(Block') PROVE FALSE
  <2>1. Top'.i - 1 = Len(Block')
    BY <1>1, <1>2, <1>3
  <2>2. Block'[Top'.i - 1].kind = "return"
    BY <1>3, <2>1 DEF EndsWithReturn, InlineAt
  <2> QED
    BY <1>2, <2>2
<1>4. ~(Len(stack') <= 1)
  OBVIOUS
<1> QED
  BY <1>3, <1>4 DEF Settled

\* The missing else block of a conditional is sealed with the conditional.
LEMMA ElseSealed ==
  ASSUME StackInv, MemberInv, BasicBlockInv, [Next]_cgVars, stack # << >>,
         Top.role = "then", Len(stack') = Len(stack) - 1, NEW q \in Nat, q = Top.base + 1,
         bb' # bb, nextBB' = nextBB
  PROVE  Sealed(q)' /\ q < nextBB
<1>1. PICK t \in 1 .. Len(stack) : t = Len(stack)
  BY EmptySeq DEF StackInv
<1>2. Len(stack) \in Nat /\ nextBB \in Nat
  BY LenProperties DEF StackInv, MemberInv
<1>3. ResumesMerge
  BY <1>2, Moves DEF Stays, Begins, Begun, ResumesElse
<1>4. stack[t].base \in Nat /\ stack[t].base + 3 <= nextBB /\ q = stack[t].base + 1
  BY <1>1, FrameBase DEF Top
<1>5. q < nextBB' /\ q # bb'
  BY <1>1, <1>2, <1>3, <1>4 DEF ResumesMerge
<1>6. ASSUME NEW g \in 1 .. Len(stack')
      PROVE  /\ stack'[g].role = "then" => q # stack'[g].base + 1
             /\ stack'[g].role \in {"then", "else"} => q # stack'[g].base + 2
  <2>1. Same(g) /\ g \in 1 .. Len(stack) /\ g < t
    BY <1>1, <1>2, <1>3 DEF ResumesMerge
  <2>2. stack[g].base \in Nat
    BY <2>1, FrameBase
  <2>3. stack[g].role \in {"then", "else"} => stack[g].base + 3 <= stack[t].base
    BY <1>1, <2>1 DEF BasicBlockInv, InOrder, Top
  <2>4. ASSUME stack[g].role \in {"then", "else"}
        PROVE  q # stack[g].base + 1 /\ q # stack[g].base + 2
    <3>1. PICK x \in Nat, y \in Nat : x = stack[g].base /\ y = stack[t].base
      BY <1>4, <2>2
    <3>2. x + 3 <= y /\ q = y + 1
      BY <1>4, <2>3, <2>4, <3>1
    <3>3. q # x + 1 /\ q # x + 2
      BY <3>2
    <3> QED
      BY <3>1, <3>3
  <2> QED
    BY <2>1, <2>4 DEF Same
<1> QED
  BY <1>4, <1>5, <1>6 DEF Sealed

\* The end of a branch of a conditional, whichever block is visited next.
LEMMA FlowLeave ==
  ASSUME StackInv, MemberInv, BasicBlockInv, Flow, LeaveThen \/ LeaveElse,
         NEW n \in Nat, n = bb',
         NEW c, c = code \o BranchToMerge, NEW e,
         \/ /\ code' = c
            /\ \/ Top.role = "then" /\ n = Top.base + 1 /\ Len(stack') = Len(stack)
               \/ Top.role = "else" /\ n = Top.base + 2
         \/ /\ code' = Append(c, e) /\ e.op = "br" /\ e.bb = Top.base + 1
            /\ Top.role = "then" /\ n = Top.base + 2 /\ Len(stack') = Len(stack) - 1,
         FramesBranch', ~Settled', EndsWithReturn(Block') => ~(Top'.i > Len(Block'))
  PROVE  Flow'
<1>1. /\ stack # << >> /\ Top.i > Len(Block) /\ Top.role \in {"then", "else"}
      /\ [Next]_cgVars /\ prog' = prog /\ nextBB' = nextBB /\ justReturned' = FALSE
  BY DEF LeaveThen, LeaveElse, AtEnd, Visiting, Next
<1>2. /\ Len(stack) >= 3 /\ bb < nextBB
      /\ IF justReturned THEN Done(bb) ELSE Unfinished(bb)
  BY <1>1, BranchAtEnd
<1>3. PICK m \in Nat : m = bb
  BY DEF MemberInv
<1>4. PICK q \in Nat : q = Top.base + 1 /\ q # Top.base + 2
  <2>1. Top.base \in Nat
    BY <1>1, TopFrame
  <2>2. Top.base + 1 \in Nat /\ Top.base + 1 # Top.base + 2
    BY <2>1
  <2> QED
    BY <2>2
<1>5. n # m /\ \A k \in 1 .. Len(code) : code[k].bb # n
  BY <1>1, <1>3, SetAsideEmpty
<1>6. Top.role = "then" => q # m /\ \A k \in 1 .. Len(code) : code[k].bb # q
  BY <1>1, <1>3, <1>4, SetAsideEmpty
<1>7. ASSUME NEW k \in Len(code) + 1 .. Len(code')
      PROVE  /\ code'[k].bb # n
             /\ \/ code'[k].bb = m
                \/ code'[k].bb = q /\ Top.role = "then" /\ Len(stack') = Len(stack) - 1
  <2>1. CASE code' = c
    <3>1. code'[k].bb = m
      <4>1. /\ Len(code) \in Nat /\ Len(c) = Len(code) + IF justReturned THEN 0 ELSE 1
            /\ ~justReturned => c[Len(code) + 1].bb = bb
        BY MergeCode
      <4>2. k = Len(code) + 1 /\ ~justReturned
        BY <2>1, <4>1 DEF MemberInv
      <4> QED
        BY <1>3, <2>1, <4>1, <4>2
    <3> QED
      BY <1>5, <3>1
  <2>2. CASE code' # c
    <3>1. NewBranch(k)
      BY LeaveEmits
    <3>2. /\ q # n /\ Top.role = "then" /\ Len(stack') = Len(stack) - 1
      BY <1>4, <2>2
    <3> QED
      BY <1>3, <1>4, <1>5, <3>1, <3>2 DEF NewBranch
  <2> QED
    BY <2>1, <2>2
<1>8. Done(m)'
  <2>1. code' = c \/ (code' = Append(c, e) /\ e.bb # m)
    BY <1>4, <1>6
  <2>2. IF justReturned THEN Done(m) ELSE Unfinished(m)
    BY <1>2, <1>3
  <2> QED
    BY <1>3, <2>1, <2>2, LeaveFinishes
<1>9. CurrentBlock'
  <2>1. Unfinished(n)
    BY <1>5 DEF Unfinished
  <2>2. Unfinished(n)'
    BY <1>1, <1>7, <2>1, Extended, UnfinishedStays
  <2>3. Unfinished(bb)'
    BY <2>2
  <2> QED
    BY <2>3 DEF CurrentBlock
<1>10. SealedDone'
  <2>1. ASSUME Top.role = "then", Len(stack') = Len(stack) - 1 PROVE Done(q)'
    <3>1. code' = Append(code \o BranchToMerge, e) /\ e.op = "br" /\ e.bb = q
      <4>1. Len(stack) \in Nat
        BY LenProperties DEF StackInv
      <4>2. Len(stack') # Len(stack)
        BY <2>1, <4>1
      <4> QED
        BY <1>4, <2>1, <4>2
    <3>2. q # bb /\ \A k \in 1 .. Len(code) : code[k].bb # q
      BY <1>3, <1>6, <2>1
    <3> QED
      BY <3>1, <3>2, MissingElse
  <2>2. bb' # bb
    BY <1>3, <1>5
  <2> QED
    BY <1>1, <1>3, <1>4, <1>8, <2>1, <2>2, SealedDoneStep DEF Flow
<1>11. Placed'
  <2>1. ASSUME NEW k \in Len(code) + 1 .. Len(code')
        PROVE  \E p \in Nat : p = code'[k].bb /\ p < nextBB /\ (p = bb \/ Sealed(p)')
    <3>1. CASE code'[k].bb = m
      BY <1>2, <1>3, <3>1
    <3>2. CASE code'[k].bb = q /\ Top.role = "then" /\ Len(stack') = Len(stack) - 1
      <4>1. bb' # bb
        BY <1>3, <1>5
      <4>2. Sealed(q)' /\ q < nextBB
        BY <1>1, <1>4, <3>2, <4>1, ElseSealed
      <4> QED
        BY <3>2, <4>2
    <3> QED
      BY <1>7, <3>1, <3>2
  <2> QED
    BY <1>1, <2>1, PlacedStep DEF Flow
<1>12. ReturnKnown'
  BY <1>1 DEF ReturnKnown
<1> QED
  BY <1>9, <1>10, <1>11, <1>12 DEF Flow

LEMMA FlowConditional ==
  ASSUME StackInv, MemberInv, BasicBlockInv, Structured, Flow, LeaveThen \/ LeaveElse
  PROVE  Flow'
<1>1. /\ stack # << >> /\ Top.i > Len(Block) /\ Top.role \in {"then", "else"}
      /\ prog' = prog
  BY DEF LeaveThen, LeaveElse, AtEnd, Visiting
<1>2. PICK t \in Nat : t = Len(stack) /\ t >= 3
  <2>1. Len(stack) >= 3 /\ Len(stack) \in Nat
    BY <1>1, BranchAtEnd, TopFrame
  <2> QED
    BY <2>1
<1>3. Top.base \in Nat
  BY <1>1, TopFrame
<1>4. PICK c : c = code \o BranchToMerge
  OBVIOUS
<1>5. ASSUME stack' = Advance(Pop(stack))
      PROVE  /\ Len(stack') = t - 1 /\ FramesBranch' /\ ~Settled'
             /\ EndsWithReturn(Block') => ~(Top'.i > Len(Block'))
  <2>1. Top.role # "root" /\ Len(stack) >= 3
    BY <1>1, <1>2
  <2>2. /\ Len(stack') = t - 1 /\ FramesBranch' /\ Top'.i \in Nat
        /\ InlineAt(Block', Top'.i - 1, "if") /\ Top'.blk \in DOMAIN prog
    BY <1>1, <1>2, <1>5, <2>1, FlowPop DEF Flow
  <2>3. Len(stack') \in Nat /\ Len(stack') >= 2
    BY <1>2, <2>2
  <2> QED
    BY <1>1, <2>2, <2>3, UnsettledAfterIf
<1>6. CASE LeaveElse
  <2>1. /\ code' = c /\ stack' = Advance(Pop(stack)) /\ bb' = Top.base + 2
        /\ Top.role = "else"
    BY <1>4, <1>6 DEF LeaveElse, AtEnd
  <2>2. PICK n \in Nat : n = bb' /\ n = Top.base + 2
    BY <1>3, <2>1
  <2> QED
    BY <1>4, <1>5, <1>6, <2>1, <2>2, FlowLeave
<1>7. CASE LeaveThen
  <2>1. Top.role = "then"
    BY <1>7 DEF LeaveThen, AtEnd
  <2>2. PICK else :
          /\ else = prog[stack[Len(stack) - 1].blk][stack[Len(stack) - 1].i].else
          /\ IF else # "none"
             THEN /\ code' = c /\ bb' = Top.base + 1
                  /\ stack' = Append(Pop(stack), Frame(else, "else", Top.base))
             ELSE /\ code' = Append(c, Branch(Top.base + 1)) /\ bb' = Top.base + 2
                  /\ stack' = Advance(Pop(stack))
    BY <1>4, <1>7 DEF LeaveThen
  <2>3. CASE else # "none"
    <3>1. PICK p \in 2 .. Len(stack) : p = t - 1 /\ p = Len(stack) - 1 /\ p < Len(stack)
      BY <1>2
    <3>2. InlineAt(prog[stack[p].blk], stack[p].i, "if")
      BY <3>1 DEF Flow, FramesBranch
    <3>3. stack[p].blk \in DOMAIN prog
      <4>1. stack[p] \in Frames(DOMAIN prog)
        BY <1>1, <2>1, <3>1, Parent
      <4> QED
        BY <4>1 DEF Frames
    <3>4. else \in DOMAIN prog
      BY <1>1, <2>1, <2>2, <2>3, <3>1, <3>2, Parent DEF IsStatement, InlineAt
    <3>5. Branching(prog[else])
      BY <2>2, <2>3, <3>1, <3>2, <3>3 DEF Structured, InlineAt
    <3>6. /\ Len(stack') = Len(stack) /\ FramesBranch'
          /\ Top'.i = 1 /\ Block' = prog[else]
      <4>1. Len(stack) >= 3
        BY <1>2
      <4> QED
        BY <1>1, <2>1, <2>2, <2>3, <3>4, <3>5, <4>1, FlowElse DEF Flow
    <3>7. ~Settled' /\ (EndsWithReturn(Block') => ~(Top'.i > Len(Block')))
      <4>1. Len(stack') >= 2 /\ Len(stack') \in Nat
        BY <1>2, <3>6
      <4> QED
        BY <3>4, <3>6, <4>1, UnsettledAtStart
    <3>8. PICK n \in Nat : n = bb' /\ n = Top.base + 1
      BY <1>3, <2>2, <2>3
    <3>9. code' = c /\ Top.role = "then" /\ n = Top.base + 1 /\ Len(stack') = Len(stack)
      BY <2>1, <2>2, <2>3, <3>6, <3>8
    <3> QED
      BY <1>4, <1>7, <3>6, <3>7, <3>8, <3>9, FlowLeave
  <2>4. CASE else = "none"
    <3>1. PICK e : e = Branch(Top.base + 1)
      OBVIOUS
    <3>2. e.op = "br" /\ e.bb = Top.base + 1
      BY <3>1 DEF Branch
    <3>3. code' = Append(c, e) /\ stack' = Advance(Pop(stack)) /\ bb' = Top.base + 2
      BY <2>2, <2>4, <3>1
    <3>4. PICK n \in Nat : n = bb' /\ n = Top.base + 2
      BY <1>3, <3>3
    <3>5. Len(stack') = Len(stack) - 1
      BY <1>2, <1>5, <3>3
    <3> QED
      BY <1>4, <1>5, <1>7, <2>1, <3>2, <3>3, <3>4, <3>5, FlowLeave
  <2> QED
    BY <2>3, <2>4
<1> QED
  BY <1>6, <1>7

\* A function ends with a return, and nothing is compiled at the root.
LEMMA FlowEnd ==
  ASSUME StackInv, MemberInv, BasicBlockInv, Flow, LeaveFunction \/ LeaveRoot
  PROVE  Flow'
<1>1. /\ stack # << >> /\ Top.i > Len(Block) /\ Top.role \in {"body", "root"}
      /\ [Next]_cgVars /\ UNCHANGED <<prog, executeCommit, bb, nextBB, code>>
  BY DEF LeaveFunction, LeaveRoot, AtEnd, Visiting, Next
<1>2. PICK t \in Nat : t = Len(stack) /\ t >= 1
  BY <1>1, TopFrame
<1>3. Settled /\ executeCommit /\ (bb < nextBB => Done(bb))
  <2>1. Settled
    <3>1. CASE t = 1
      BY <1>2, <3>1 DEF Settled
    <3>2. CASE t # 1
      <4>1. t \in 2 .. Len(stack) /\ Top.role # "root"
        BY <1>1, <1>2, <3>2, RootFrame
      <4>2. EndsWithReturn(Block)
        BY <1>1, <1>2, <4>1 DEF Flow, FramesBranch, Top, Block
      <4> QED
        BY <1>1, <4>2 DEF Settled
    <3> QED
      BY <3>1, <3>2
  <2> QED
    BY <2>1 DEF Flow, CurrentBlock
<1>4. /\ Len(stack') <= 1 /\ FramesBranch' /\ ReturnKnown'
      /\ \A g \in 1 .. Len(stack) : stack[g].role \notin {"then", "else"}
  <2>1. CASE LeaveRoot
    <3>1. stack' = << >> /\ Len(stack') = 0 /\ t = 1
      BY <1>1, <1>2, <2>1, RootFrame, EmptySeq DEF LeaveRoot, AtEnd
    <3>2. 2 .. Len(stack') = {}
      BY <3>1
    <3>3. \A g \in 1 .. Len(stack) : g = 1
      BY <1>2, <3>1
    <3>4. stack[1].role = "root"
      BY <1>2, <2>1, <3>1 DEF LeaveRoot, AtEnd, Top
    <3> QED
      BY <3>1, <3>2, <3>3, <3>4 DEF FramesBranch, ReturnKnown
  <2>2. CASE LeaveFunction
    <3>1. Top.role = "body" /\ stack' = Advance(Pop(stack))
      BY <2>2 DEF LeaveFunction, AtEnd
    <3>2. /\ Len(stack') = t - 1 /\ stack' # << >> /\ FramesBranch'
      BY <1>1, <1>2, <3>1, FlowPop DEF Flow
    <3>3. t = 2
      <4>1. t # 1
        BY <1>1, <1>2, <3>1, RootFrame
      <4>2. t \in 2 .. Len(stack)
        BY <1>2, <4>1
      <4> QED
        BY <1>2, <3>1, <4>2 DEF Flow, FramesBranch, Top
    <3>4. Len(stack') = 1
      BY <3>2, <3>3
    <3>5. Top'.role = "root"
      <4>1. StackInv'
        BY <1>1, StackStep
      <4>2. FrameOK(1)'
        BY <3>4, <4>1 DEF StackInv
      <4> QED
        BY <3>4, <4>2 DEF FrameOK, RoleOK, Top
    <3>6. ASSUME NEW g \in 1 .. Len(stack) PROVE stack[g].role \notin {"then", "else"}
      <4>1. g = 1 \/ g = 2
        BY <1>2, <3>3
      <4>2. FrameOK(g)
        BY DEF StackInv
      <4> QED
        BY <1>2, <3>1, <3>3, <4>1, <4>2 DEF FrameOK, RoleOK, Top
    <3>7. ReturnKnown'
      BY <3>5 DEF ReturnKnown
    <3>8. Len(stack') <= 1
      BY <3>4
    <3> QED
      BY <3>2, <3>6, <3>7, <3>8, Zenon
  <2> QED
    BY <2>1, <2>2
<1>5. CurrentBlock'
  <2>1. Settled'
    BY <1>4 DEF Settled
  <2>2. bb' < nextBB' => Done(bb)'
    BY <1>1, <1>3 DEF Done, Terminates
  <2> QED
    BY <1>1, <1>3, <2>1, <2>2 DEF CurrentBlock
<1>6. SealedDone'
  BY <1>1, <1>4, SealedDoneStep DEF Flow
<1>7. Placed'
  <2>1. Len(code) \in Nat
    BY LenProperties DEF MemberInv
  <2>2. Len(code) + 1 .. Len(code') = {}
    BY <1>1, <2>1
  <2> QED
    BY <1>1, <2>2, PlacedStep DEF Flow
<1> QED
  BY <1>4, <1>5, <1>6, <1>7 DEF Flow

LEMMA FlowStep ==
  ASSUME StackInv, MemberInv, BasicBlockInv, FlowInv, [Next]_cgVars
  PROVE  FlowInv'
<1>1. SUFFICES ASSUME Structured PROVE Flow'
  BY ProgramKept DEF FlowInv, Structured
<1>2. Flow
  BY <1>1 DEF FlowInv
<1>3. CASE UNCHANGED cgVars \/ Fail
  <2>1. UNCHANGED <<prog, stack, executeCommit, justReturned, bb, nextBB, code>>
    BY <1>3 DEF cgVars, Fail
  <2>2. FramesBranch' /\ ReturnKnown'
    BY <1>2, <2>1 DEF Flow, FramesBranch, ReturnKnown, Top, Block
  <2>3. SealedDone' /\ Placed'
    BY <1>2, <2>1 DEF Flow, SealedDone, Placed, Sealed, Done, Terminates
  <2>4. CurrentBlock'
    BY <1>2, <2>1 DEF Flow, CurrentBlock, Settled, Top, Block, Done, Unfinished, Terminates
  <2> QED
    BY <2>2, <2>3, <2>4 DEF Flow
<1>4. CASE ScheduleStatement /\ ~Fail
  BY <1>2, <1>4, FlowSchedule
<1>5. CASE VisitPlain \/ VisitDeclaration
  BY <1>2, <1>5, FlowPlain
<1>6. CASE VisitReturn
  BY <1>1, <1>2, <1>6, FlowReturn
<1>7. CASE VisitFunction
  BY <1>1, <1>2, <1>7, FlowFunction
<1>8. CASE VisitIf
  BY <1>1, <1>2, <1>8, FlowIf
<1>9. CASE LeaveThen \/ LeaveElse
  BY <1>1, <1>2, <1>9, FlowConditional
<1>10. CASE LeaveFunction \/ LeaveRoot
  BY <1>2, <1>10, FlowEnd
<1> QED
  BY <1>3, <1>4, <1>5, <1>6, <1>7, <1>8, <1>9, <1>10 DEF Next

LEMMA FlowInit ==
  ASSUME Init
  PROVE  FlowInv
<1>1. PICK x : x = Frame("root", "root", 0)
  OBVIOUS
<1>2. stack = <<x>> /\ x.role = "root"
  BY <1>1 DEF Init, Frame
<1>3. Len(stack) = 1 /\ Top.role = "root"
  BY <1>2 DEF Top
<1>4. Len(code) = 0 /\ bb = 0 /\ nextBB = 0 /\ executeCommit = TRUE
  BY EmptySeq DEF Init
<1>5. FramesBranch /\ Placed /\ ReturnKnown
  BY <1>3, <1>4 DEF FramesBranch, Placed, ReturnKnown
<1>6. SealedDone
  BY <1>4 DEF SealedDone, Sealed
<1>7. CurrentBlock
  BY <1>3, <1>4 DEF CurrentBlock, Settled
<1> QED
  BY <1>5, <1>6, <1>7 DEF FlowInv, Flow

LEMMA FlowTerminates ==
  ASSUME MemberInv, FlowInv, Structured
  PROVE  BlocksTerminated
<1>1. SUFFICES ASSUME stack = << >> PROVE WellFormed
  BY DEF BlocksTerminated, Compiled
<1>2. Flow /\ Len(stack) = 0 /\ nextBB \in Nat
  BY <1>1, EmptySeq DEF FlowInv, MemberInv
<1>3. DOMAIN code = 1 .. Len(code)
  BY LenProperties DEF MemberInv
<1>4. ASSUME NEW n \in 0 .. nextBB - 1 PROVE Done(n)
  <2>1. n \in Nat /\ n < nextBB
    BY <1>2
  <2>2. CASE n = bb
    BY <1>2, <2>1, <2>2 DEF Flow, CurrentBlock, Settled
  <2>3. CASE n # bb
    <3>1. Sealed(n)
      BY <1>2, <2>1, <2>3 DEF Sealed
    <3> QED
      BY <1>2, <2>1, <3>1 DEF Flow, SealedDone
  <2> QED
    BY <2>2, <2>3
<1>5. ASSUME NEW n \in 0 .. nextBB - 1, NEW ks, ks = {k \in DOMAIN code : code[k].bb = n}
      PROVE  /\ ks # {}
             /\ \A k \in ks :
                  code[k].op \in {"ret", "br", "condbr"} <=> \A q \in ks : q <= k
  <2>1. PICK k \in 1 .. Len(code) :
          /\ code[k].bb = n /\ Terminates(k)
          /\ \A q \in 1 .. Len(code) : code[q].bb = n => q <= k /\ (Terminates(q) => q = k)
    BY <1>4 DEF Done
  <2>2. k \in ks /\ \A q \in ks : q <= k /\ (Terminates(q) => q = k)
    BY <1>3, <1>5, <2>1
  <2>3. ASSUME NEW j \in ks PROVE Terminates(j) <=> \A q \in ks : q <= j
    <3>1. j \in 1 .. Len(code)
      BY <1>3, <1>5
    <3>2. Terminates(j) => \A q \in ks : q <= j
      BY <2>2
    <3>3. (\A q \in ks : q <= j) => j = k
      BY <2>2, <3>1
    <3> QED
      BY <2>1, <3>2, <3>3
  <2> QED
    BY <2>2, <2>3 DEF Terminates
<1> QED
  BY <1>5 DEF WellFormed

(***************************************************************************)
(* For every program in which no statement follows a return, functions end *)
(* with one and a group in a branch of a conditional is followed by a      *)
(* conditional or a return, however its blocks nest: the compiled code is  *)
(* well formed.  visitBlock and visitIfStatement give every basic block    *)
(* one terminator, at its end, although they set justReturned for lambdas  *)
(* and reset it in the visits of inner conditionals only.                  *)
(***************************************************************************)
THEOREM StructuredCodeTerminates == Spec => [](Structured => BlocksTerminated)
<1> DEFINE Inv == StackInv /\ MemberInv /\ BasicBlockInv /\ FlowInv
<1>1. Init => Inv
  BY StackInit, MemberInit, BasicBlockInit, FlowInit
<1>2. Inv /\ [Next]_cgVars => Inv'
  BY StackStep, MemberStep, BasicBlockStep, FlowStep
<1>3. Inv => (Structured => BlocksTerminated)
  BY FlowTerminates
<1> QED
  BY <1>1, <1>2, <1>3, PTL DEF Spec

=============================================================================

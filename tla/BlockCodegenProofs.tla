------------------------- MODULE BlockCodegenProofs -------------------------
(***************************************************************************)
(* What visitBlock guarantees of the code of groups for every program, of  *)
(* any number and nesting of blocks: the visitor stays on the syntax tree, *)
(* every statement of a destroyed context was reconciled, and inline code  *)
(* runs when no group is open.                                             *)
(***************************************************************************)
EXTENDS BlockCodegen, SequenceTheorems, TLAPS

Frames(B) == [blk : B, i : Nat, role : {"root", "body", "then", "else"}, base : Nat]

\* A frame stands at a statement, whose block is being visited, or at the end.
InBlock(n) ==
  /\ stack[n].i >= 1 /\ stack[n].i <= Len(prog[stack[n].blk]) + 1
  /\ n < Len(stack) => stack[n].i <= Len(prog[stack[n].blk])

RoleOK(n) ==
  /\ (stack[n].role = "root") <=> (n = 1)
  /\ (stack[n].role = "root") <=> (stack[n].blk = "root")

ThenOK(n) ==
  stack[n].role = "then" => prog[stack[n - 1].blk][stack[n - 1].i].kind = "if"

BaseOK(n) == stack[n].role \in {"then", "else"} => stack[n].base + 3 <= nextBB

FrameOK(n) == InBlock(n) /\ RoleOK(n) /\ ThenOK(n) /\ BaseOK(n)

StackInv ==
  /\ prog \in Programs
  /\ stack \in Seq(Frames(DOMAIN prog))
  /\ \A n \in 1 .. Len(stack) : FrameOK(n)

ReconType == [ty : StatementType, at : (DOMAIN prog) \X Nat]

\* The members of the visitor; an open group has a statement.
MemberInv ==
  /\ executeCommit \in BOOLEAN /\ namedValues \in BOOLEAN
  /\ justReturned \in BOOLEAN /\ error \in BOOLEAN
  /\ currId \in Nat /\ currCid \in Nat /\ currCid <= Len(code)
  /\ reconVector \in Seq(ReconType)
  /\ bb \in Nat /\ nextBB \in Nat /\ bb <= nextBB
  /\ code \in Seq(Range(code))
  /\ ~executeCommit => currId >= 1 /\ currId <= Len(reconVector) /\ currCid >= 1

GroupOps == {"make", "sched", "recon", "destroy"}

Is(k, op) == k \in 1 .. Len(code) /\ code[k].op = op

\* Contexts are named by instructions that exist; a context that is open is not closed.
ContextNamed ==
  \A k \in 1 .. Len(code) : code[k].op \in GroupOps =>
    code[k].cid \in Nat /\ code[k].cid <= Len(code)

OpenContext ==
  ~executeCommit => \A k \in 1 .. Len(code) :
    /\ code[k].op \in {"recon", "destroy"} => code[k].cid # currCid
    /\ code[k].op = "sched" /\ code[k].cid = currCid =>
         code[k].id \in Nat /\ code[k].id < currId

DestroyedOnce ==
  \A d, e \in 1 .. Len(code) :
    code[d].op = "destroy" /\ code[e].op = "destroy" /\ code[d].cid = code[e].cid => d = e

\* Recon call r is for statement j before destroy d, and the only one.
JoinedBy(j, d, r) ==
  /\ Is(r, "recon") /\ j < r /\ r < d
  /\ code[r].cid = code[j].cid /\ code[r].id = code[j].id
  /\ \A q \in 1 .. Len(code) :
       code[q].op = "recon" /\ q # r /\ code[q].cid = code[r].cid => code[q].id # code[r].id

JoinedInv ==
  \A d, j \in 1 .. Len(code) :
    code[d].op = "destroy" /\ code[j].op = "sched" /\ j < d /\ code[j].cid = code[d].cid =>
      \E r \in 1 .. Len(code) : JoinedBy(j, d, r)

ContextInv == ContextNamed /\ OpenContext /\ DestroyedOnce /\ JoinedInv

\* Every block of the program closes its groups.
ClosedProgram == \A b \in DOMAIN prog : ~LeavesOpen(prog[b])

DestroyedBefore(m, k) ==
  \E d \in 1 .. Len(code) :
    /\ m < d /\ d < k
    /\ code[d].op = "destroy" /\ code[d].cid = code[m].cid

\* A context is destroyed, or it is the open one.
MadeClosed ==
  \A m \in 1 .. Len(code) : code[m].op = "make" =>
    DestroyedBefore(m, Len(code) + 1) \/ (~executeCommit /\ currCid = code[m].cid)

\* The open group is that of the statement before.
OpenIsPrevious ==
  ~executeCommit /\ stack # << >> => Top.i > 1 /\ ~commitVector(Block, Top.i - 1)

InlineClosed ==
  \A k, m \in 1 .. Len(code) :
    code[k].op \in {"stmt", "ret", "condbr"} /\ code[m].op = "make" /\ m < k =>
      DestroyedBefore(m, k)

OpenGroupInv == ClosedProgram => MadeClosed /\ OpenIsPrevious /\ InlineClosed

-----------------------------------------------------------------------------

LEMMA FrameInFrames ==
  ASSUME NEW B, NEW b \in B, NEW base \in Nat,
         NEW role \in {"root", "body", "then", "else"}
  PROVE  Frame(b, role, base) \in Frames(B)
BY DEF Frame, Frames

LEMMA AdvanceFrames ==
  ASSUME NEW B, NEW st \in Seq(Frames(B)), st # << >>
  PROVE  /\ Advance(st) \in Seq(Frames(B))
         /\ Len(Advance(st)) = Len(st)
         /\ \A n \in 1 .. Len(st) - 1 : Advance(st)[n] = st[n]
         /\ Advance(st)[Len(st)] = [st[Len(st)] EXCEPT !.i = @ + 1]
<1>1. Len(st) \in Nat /\ Len(st) >= 1 /\ Len(st) \in 1 .. Len(st)
  BY EmptySeq
<1>2. st[Len(st)] \in Frames(B)
  BY <1>1, ElementOfSeq
<1>3. [st[Len(st)] EXCEPT !.i = @ + 1] \in Frames(B)
  BY <1>2 DEF Frames
<1>4. Advance(st) = [st EXCEPT ![Len(st)] = [st[Len(st)] EXCEPT !.i = @ + 1]]
  BY DEF Advance
<1> HIDE DEF Frames
<1> QED
  BY <1>1, <1>3, <1>4, ExceptSeq

LEMMA PopFrames ==
  ASSUME NEW S, NEW st \in Seq(S), st # << >>
  PROVE  /\ Pop(st) \in Seq(S)
         /\ Len(Pop(st)) = Len(st) - 1
         /\ \A n \in 1 .. Len(st) - 1 : Pop(st)[n] = st[n]
<1>1. Len(st) \in Nat /\ Len(st) >= 1
  BY EmptySeq
<1>2. \A n \in 1 .. Len(st) - 1 : st[n] \in S
  BY <1>1, ElementOfSeq
<1>3. PICK n \in Nat : n = Len(st) - 1
  BY <1>1
<1>4. /\ SubSeq(st, 1, n) \in Seq(S)
      /\ Len(SubSeq(st, 1, n)) = IF 1 <= n THEN n - 1 + 1 ELSE 0
      /\ \A i \in 1 .. n - 1 + 1 : SubSeq(st, 1, n)[i] = st[1 + i - 1]
  <2>1. 1 \in Int /\ n \in Int /\ \A i \in 1 .. n : st[i] \in S
    BY <1>2, <1>3
  <2> QED
    BY <2>1, SubSeqProperties
<1>5. n - 1 + 1 = n /\ \A i \in 1 .. n : 1 + i - 1 = i
  BY <1>3
<1>6. \A i \in 1 .. n : SubSeq(st, 1, n)[i] = st[i]
  BY <1>4, <1>5
<1> QED
  BY <1>3, <1>4, <1>6 DEF Pop

\* The statement a frame stands at is one the parser built.
LEMMA Statements ==
  ASSUME StackInv, NEW b \in DOMAIN prog
  PROVE  /\ Len(prog[b]) \in Nat
         /\ \A i \in 1 .. Len(prog[b]) : IsStatement(prog[b][i], DOMAIN prog \ {"root"})
         /\ "root" \in DOMAIN prog /\ "none" \notin DOMAIN prog
         /\ \A i \in 1 .. Len(prog["root"]) :
              prog["root"][i].kind \in {"function", "declaration"}
<1>1. \A c \in DOMAIN prog : prog[c] \in Seq({prog[c][i] : i \in DOMAIN prog[c]})
  BY ProgramsAssumption DEF StackInv
<1>2. \A c \in DOMAIN prog : Len(prog[c]) \in Nat /\ DOMAIN prog[c] = 1 .. Len(prog[c])
  BY <1>1, LenProperties
<1> QED
  BY <1>2, ProgramsAssumption DEF StackInv

LEMMA TopFrame ==
  ASSUME StackInv, stack # << >>
  PROVE  /\ Len(stack) \in Nat /\ Len(stack) >= 1
         /\ Top \in Frames(DOMAIN prog)
         /\ Top.blk \in DOMAIN prog /\ Top.i \in Nat /\ Top.base \in Nat
         /\ FrameOK(Len(stack))
         /\ Len(Block) \in Nat /\ Top.i >= 1 /\ Top.i <= Len(Block) + 1
         /\ Top.i <= Len(Block) => IsStatement(Current, DOMAIN prog \ {"root"})
<1>1. Len(stack) \in Nat /\ Len(stack) >= 1 /\ Len(stack) \in 1 .. Len(stack)
  BY EmptySeq DEF StackInv
<1>2. Top \in Frames(DOMAIN prog)
  BY <1>1, ElementOfSeq DEF StackInv, Top
<1>3. Top.blk \in DOMAIN prog /\ Top.i \in Nat /\ Top.base \in Nat
  BY <1>2 DEF Frames
<1>4. FrameOK(Len(stack))
  BY <1>1 DEF StackInv
<1>5. Len(Block) \in Nat /\ Top.i >= 1 /\ Top.i <= Len(Block) + 1
  BY <1>3, <1>4, Statements DEF FrameOK, InBlock, Top, Block
<1>6. ASSUME Top.i <= Len(Block) PROVE IsStatement(Current, DOMAIN prog \ {"root"})
  <2>1. Top.i \in 1 .. Len(prog[Top.blk])
    BY <1>3, <1>5, <1>6 DEF Block
  <2> QED
    BY <1>3, <2>1, Statements, Zenon DEF Block, Current
<1> QED
  BY <1>1, <1>2, <1>3, <1>4, <1>5, <1>6

-----------------------------------------------------------------------------

LEMMA FrameKept ==
  ASSUME StackInv, NEW n \in 1 .. Len(stack), prog' = prog, stack'[n] = stack[n],
         nextBB \in Nat, nextBB' \in Nat, nextBB' >= nextBB,
         n > 1 => stack'[n - 1] = stack[n - 1],
         n < Len(stack') => stack[n].i <= Len(prog[stack[n].blk])
  PROVE  FrameOK(n)'
<1>1. FrameOK(n) /\ stack[n] \in Frames(DOMAIN prog) /\ n \in Nat
  BY ElementOfSeq DEF StackInv
<1>2. InBlock(n)'
  BY <1>1 DEF FrameOK, InBlock
<1>3. RoleOK(n)'
  BY <1>1 DEF FrameOK, RoleOK
<1>4. ThenOK(n)'
  <2>1. n = 1 => stack[n].role # "then"
    BY <1>1 DEF FrameOK, RoleOK
  <2>2. n = 1 \/ n > 1
    BY <1>1
  <2> QED
    BY <1>1, <2>1, <2>2 DEF FrameOK, ThenOK
<1>5. BaseOK(n)'
  BY <1>1 DEF FrameOK, BaseOK, Frames
<1> QED
  BY <1>2, <1>3, <1>4, <1>5 DEF FrameOK

LEMMA FrameMoved ==
  ASSUME StackInv, NEW n \in 1 .. Len(stack), prog' = prog,
         stack'[n] = [stack[n] EXCEPT !.i = @ + 1], n = Len(stack'),
         nextBB \in Nat, nextBB' \in Nat, nextBB' >= nextBB,
         n > 1 => stack'[n - 1] = stack[n - 1],
         stack[n].i <= Len(prog[stack[n].blk])
  PROVE  FrameOK(n)'
<1>1. FrameOK(n) /\ stack[n] \in Frames(DOMAIN prog) /\ n \in Nat
  BY ElementOfSeq DEF StackInv
<1>2. /\ stack'[n].i = stack[n].i + 1 /\ stack[n].i \in Nat /\ stack[n].base \in Nat
      /\ stack'[n].blk = stack[n].blk /\ stack[n].blk \in DOMAIN prog
      /\ stack'[n].role = stack[n].role /\ stack'[n].base = stack[n].base
  BY <1>1 DEF Frames
<1>3. Len(prog[stack[n].blk]) \in Nat
  BY <1>2, Statements
<1>4. InBlock(n)'
  BY <1>1, <1>2, <1>3 DEF InBlock
<1>5. RoleOK(n)'
  BY <1>1, <1>2 DEF FrameOK, RoleOK
<1>6. ThenOK(n)'
  <2>1. n = 1 => stack[n].role # "then"
    BY <1>1 DEF FrameOK, RoleOK
  <2>2. n = 1 \/ n > 1
    BY <1>1
  <2> QED
    BY <1>1, <1>2, <2>1, <2>2 DEF FrameOK, ThenOK
<1>7. BaseOK(n)'
  BY <1>1, <1>2 DEF FrameOK, BaseOK
<1> QED
  BY <1>4, <1>5, <1>6, <1>7 DEF FrameOK

\* The four ways the visitor moves on the syntax tree keep it there.
LEMMA AdvanceStack ==
  ASSUME StackInv, stack # << >>, Top.i <= Len(Block), stack' = Advance(stack),
         prog' = prog, nextBB \in Nat, nextBB' \in Nat, nextBB' >= nextBB
  PROVE  StackInv'
<1>1. Len(stack) \in Nat /\ Len(stack) >= 1
  BY TopFrame
<1>2. /\ stack' \in Seq(Frames(DOMAIN prog)) /\ Len(stack') = Len(stack)
      /\ \A n \in 1 .. Len(stack) - 1 : stack'[n] = stack[n]
      /\ stack'[Len(stack)] = [stack[Len(stack)] EXCEPT !.i = @ + 1]
  BY AdvanceFrames DEF StackInv
<1>3. ASSUME NEW n \in 1 .. Len(stack) PROVE FrameOK(n)'
  <2>1. n > 1 => stack'[n - 1] = stack[n - 1]
    BY <1>1, <1>2
  <2>2. CASE n < Len(stack)
    <3>1. stack'[n] = stack[n]
      BY <1>1, <1>2, <2>2
    <3>2. stack[n].i <= Len(prog[stack[n].blk])
      BY <2>2 DEF StackInv, FrameOK, InBlock
    <3> QED
      BY <2>1, <3>1, <3>2, FrameKept
  <2>3. CASE n = Len(stack)
    BY <1>2, <2>1, <2>3, FrameMoved DEF Top, Block
  <2> QED
    BY <1>1, <2>2, <2>3
<1> QED
  BY <1>2, <1>3 DEF StackInv

LEMMA PushStack ==
  ASSUME StackInv, stack # << >>, Top.i <= Len(Block), prog' = prog,
         NEW b \in DOMAIN prog \ {"root"}, NEW role \in {"body", "then"}, NEW base \in Nat,
         role = "then" => Current.kind = "if" /\ base + 3 <= nextBB',
         stack' = Append(stack, Frame(b, role, base)),
         nextBB \in Nat, nextBB' \in Nat, nextBB' >= nextBB
  PROVE  StackInv'
<1>1. Len(stack) \in Nat /\ Len(stack) >= 1
  BY TopFrame
<1>2. /\ stack' \in Seq(Frames(DOMAIN prog)) /\ Len(stack') = Len(stack) + 1
      /\ \A n \in 1 .. Len(stack) : stack'[n] = stack[n]
      /\ stack'[Len(stack) + 1] = Frame(b, role, base)
  <2>1. Frame(b, role, base) \in Frames(DOMAIN prog)
    BY FrameInFrames
  <2> QED
    BY <2>1, AppendProperties DEF StackInv
<1>3. ASSUME NEW n \in 1 .. Len(stack) + 1 PROVE FrameOK(n)'
  <2>1. n > 1 => stack'[n - 1] = stack[n - 1]
    BY <1>1, <1>2
  <2>2. CASE n <= Len(stack)
    <3>1. stack'[n] = stack[n] /\ n \in 1 .. Len(stack)
      BY <1>1, <1>2, <2>2
    <3>2. stack[n].i <= Len(prog[stack[n].blk])
      <4>1. n = Len(stack) \/ n < Len(stack)
        BY <1>1, <2>2
      <4> QED
        BY <3>1, <4>1 DEF StackInv, FrameOK, InBlock, Top, Block
    <3> QED
      BY <2>1, <3>1, <3>2, FrameKept
  <2>3. CASE n = Len(stack) + 1
    <3>1. /\ stack'[n].blk = b /\ stack'[n].i = 1 /\ stack'[n].role = role
          /\ stack'[n].base = base /\ n = Len(stack')
      BY <1>2, <2>3 DEF Frame
    <3>2. Len(prog[b]) \in Nat
      BY Statements
    <3>3. InBlock(n)'
      BY <1>1, <3>1, <3>2 DEF InBlock
    <3>4. RoleOK(n)'
      BY <1>1, <2>3, <3>1 DEF RoleOK
    <3>5. ThenOK(n)'
      <4>1. stack'[n - 1] = Top
        BY <1>1, <2>1, <2>3 DEF Top
      <4> QED
        BY <3>1, <4>1 DEF ThenOK, Current, Block
    <3>6. BaseOK(n)'
      BY <3>1 DEF BaseOK
    <3> QED
      BY <3>3, <3>4, <3>5, <3>6 DEF FrameOK
  <2> QED
    BY <1>1, <2>2, <2>3
<1> QED
  BY <1>2, <1>3 DEF StackInv

\* The frame below the innermost one stands at the statement being visited.
LEMMA Parent ==
  ASSUME StackInv, stack # << >>, Top.role # "root"
  PROVE  /\ Len(stack) \in Nat /\ Len(stack) >= 2
         /\ Pop(stack) # << >> /\ Pop(stack) \in Seq(Frames(DOMAIN prog))
         /\ Len(Pop(stack)) = Len(stack) - 1
         /\ \A n \in 1 .. Len(stack) - 1 : Pop(stack)[n] = stack[n]
         /\ stack[Len(stack) - 1] \in Frames(DOMAIN prog)
         /\ FrameOK(Len(stack) - 1)
         /\ stack[Len(stack) - 1].i <= Len(prog[stack[Len(stack) - 1].blk])
         /\ IsStatement(prog[stack[Len(stack) - 1].blk][stack[Len(stack) - 1].i],
                        DOMAIN prog \ {"root"})
<1>1. Len(stack) \in Nat /\ Len(stack) >= 1
  BY TopFrame
<1>2. Len(stack) >= 2
  <2>1. FrameOK(Len(stack))
    BY TopFrame
  <2>2. Len(stack) # 1
    BY <2>1 DEF FrameOK, RoleOK, Top
  <2>3. PICK n \in Nat : n = Len(stack) /\ n >= 1 /\ n # 1
    BY <1>1, <2>2, Zenon
  <2>4. n >= 2
    BY <2>3
  <2> QED
    BY <2>3, <2>4, Zenon
<1>3. /\ Pop(stack) \in Seq(Frames(DOMAIN prog)) /\ Len(Pop(stack)) = Len(stack) - 1
      /\ \A n \in 1 .. Len(stack) - 1 : Pop(stack)[n] = stack[n]
  BY PopFrames DEF StackInv
<1>4. Pop(stack) # << >>
  <2>1. Len(Pop(stack)) # 0
    BY <1>1, <1>2, <1>3
  <2> QED
    BY <2>1, EmptySeq
<1>5. PICK n \in 1 .. Len(stack) : n = Len(stack) - 1
  <2>1. Len(stack) - 1 \in 1 .. Len(stack)
    BY <1>1, <1>2
  <2> QED
    BY <2>1
<1>6. stack[n] \in Frames(DOMAIN prog) /\ FrameOK(n)
  BY ElementOfSeq DEF StackInv
<1>7. stack[n].blk \in DOMAIN prog /\ stack[n].i \in Nat
  BY <1>6 DEF Frames
<1>8. stack[n].i >= 1 /\ stack[n].i <= Len(prog[stack[n].blk])
  BY <1>1, <1>5, <1>6 DEF FrameOK, InBlock
<1>9. IsStatement(prog[stack[n].blk][stack[n].i], DOMAIN prog \ {"root"})
  <2>1. stack[n].i \in 1 .. Len(prog[stack[n].blk])
    BY <1>7, <1>8, Statements
  <2> QED
    BY <1>7, <2>1, Statements, Zenon
<1> QED
  BY <1>1, <1>2, <1>3, <1>4, <1>5, <1>6, <1>8, <1>9

LEMMA PopStack ==
  ASSUME StackInv, stack # << >>, Top.role # "root", stack' = Advance(Pop(stack)),
         prog' = prog, nextBB \in Nat, nextBB' = nextBB
  PROVE  StackInv'
<1>1. /\ Len(stack) \in Nat /\ Len(stack) >= 2
      /\ Pop(stack) # << >> /\ Pop(stack) \in Seq(Frames(DOMAIN prog))
      /\ Len(Pop(stack)) = Len(stack) - 1
      /\ \A n \in 1 .. Len(stack) - 1 : Pop(stack)[n] = stack[n]
      /\ stack[Len(stack) - 1].i <= Len(prog[stack[Len(stack) - 1].blk])
      /\ stack[Len(stack) - 1] \in Frames(DOMAIN prog)
  BY Parent
<1>2. PICK m \in Nat : m = Len(stack) - 1 /\ m >= 1
  BY <1>1
<1>3. /\ stack' \in Seq(Frames(DOMAIN prog)) /\ Len(stack') = m
      /\ \A n \in 1 .. m - 1 : stack'[n] = stack[n]
      /\ stack'[m] = [stack[m] EXCEPT !.i = @ + 1]
  <2>1. PICK p \in Seq(Frames(DOMAIN prog)) : p = Pop(stack) /\ p # << >>
    BY <1>1, Zenon
  <2>2. /\ Len(p) = m /\ m \in 1 .. m /\ \A n \in 1 .. m : p[n] = stack[n]
    BY <1>1, <1>2, <2>1
  <2>3. /\ stack' \in Seq(Frames(DOMAIN prog)) /\ Len(stack') = Len(p)
        /\ \A n \in 1 .. Len(p) - 1 : stack'[n] = p[n]
        /\ stack'[Len(p)] = [p[Len(p)] EXCEPT !.i = @ + 1]
    BY <2>1, AdvanceFrames, Zenon
  <2>4. p[m] = stack[m]
    BY <2>2
  <2>5. stack'[m] = [stack[m] EXCEPT !.i = @ + 1]
    BY <2>2, <2>3, <2>4, Zenon
  <2>6. \A n \in 1 .. m - 1 : n \in 1 .. m
    BY <1>2
  <2> QED
    BY <2>2, <2>3, <2>5, <2>6, Zenon
<1>4. ASSUME NEW n \in 1 .. m PROVE FrameOK(n)'
  <2>1. /\ n \in 1 .. Len(stack) /\ (n > 1 => stack'[n - 1] = stack[n - 1])
        /\ stack[n].i <= Len(prog[stack[n].blk])
    <3>1. n \in 1 .. Len(stack) /\ (n > 1 => stack'[n - 1] = stack[n - 1])
      BY <1>1, <1>2, <1>3
    <3>2. InBlock(n) /\ n < Len(stack)
      BY <1>1, <1>2, <3>1 DEF StackInv, FrameOK
    <3> QED
      BY <3>1, <3>2 DEF InBlock
  <2>2. CASE n < m
    <3>1. stack'[n] = stack[n]
      BY <1>2, <1>3, <2>2
    <3> QED
      BY <2>1, <3>1, FrameKept
  <2>3. CASE n = m
    BY <1>3, <2>1, <2>3, FrameMoved
  <2> QED
    BY <1>2, <2>2, <2>3
<1> QED
  BY <1>3, <1>4 DEF StackInv

LEMMA ElseStack ==
  ASSUME StackInv, stack # << >>, Top.role = "then", prog' = prog,
         nextBB \in Nat, nextBB' = nextBB, NEW b \in DOMAIN prog \ {"root"},
         stack' = Append(Pop(stack), Frame(b, "else", Top.base))
  PROVE  StackInv'
<1>1. /\ Len(stack) \in Nat /\ Len(stack) >= 2
      /\ Pop(stack) # << >> /\ Pop(stack) \in Seq(Frames(DOMAIN prog))
      /\ Len(Pop(stack)) = Len(stack) - 1
      /\ \A n \in 1 .. Len(stack) - 1 : Pop(stack)[n] = stack[n]
  BY Parent
<1>2. Top.base \in Nat /\ FrameOK(Len(stack))
  BY TopFrame
<1>3. Frame(b, "else", Top.base) \in Frames(DOMAIN prog)
  BY <1>2, FrameInFrames
<1>4. PICK m \in Nat : m = Len(stack) - 1 /\ m >= 1
  BY <1>1
<1>5. /\ stack' \in Seq(Frames(DOMAIN prog)) /\ Len(stack') = m + 1
      /\ \A n \in 1 .. m : stack'[n] = stack[n]
      /\ stack'[m + 1] = Frame(b, "else", Top.base)
  BY <1>1, <1>3, <1>4, AppendProperties
<1>6. ASSUME NEW n \in 1 .. m + 1 PROVE FrameOK(n)'
  <2>1. CASE n <= m
    <3>1. /\ n \in 1 .. Len(stack) /\ (n > 1 => stack'[n - 1] = stack[n - 1])
          /\ stack'[n] = stack[n]
      BY <1>1, <1>4, <1>5, <2>1
    <3>2. stack[n].i <= Len(prog[stack[n].blk])
      <4>1. InBlock(n) /\ n < Len(stack)
        BY <1>1, <1>4, <2>1, <3>1 DEF StackInv, FrameOK
      <4> QED
        BY <4>1 DEF InBlock
    <3>3. nextBB' \in Nat /\ nextBB' >= nextBB
      OBVIOUS
    <3> QED
      BY <3>1, <3>2, <3>3, FrameKept
  <2>2. CASE n = m + 1
    <3>1. /\ stack'[n].blk = b /\ stack'[n].i = 1 /\ stack'[n].role = "else"
          /\ stack'[n].base = Top.base /\ n = Len(stack')
      BY <1>5, <2>2 DEF Frame
    <3>2. Len(prog[b]) \in Nat
      BY Statements
    <3>3. InBlock(n)'
      BY <1>4, <3>1, <3>2 DEF InBlock
    <3>4. RoleOK(n)'
      BY <1>4, <2>2, <3>1 DEF RoleOK
    <3>5. ThenOK(n)'
      BY <3>1 DEF ThenOK
    <3>6. BaseOK(n)'
      BY <1>2, <3>1 DEF FrameOK, BaseOK, Top
    <3> QED
      BY <3>3, <3>4, <3>5, <3>6 DEF FrameOK
  <2> QED
    BY <1>4, <2>1, <2>2
<1> QED
  BY <1>5, <1>6 DEF StackInv

-----------------------------------------------------------------------------

LEMMA RangeSeq ==
  ASSUME NEW S, NEW s \in Seq(S)
  PROVE  s \in Seq(Range(s))
<1>1. Len(s) \in Nat /\ DOMAIN s = 1 .. Len(s) /\ s \in [1 .. Len(s) -> S]
  BY LenProperties
<1>2. s \in [1 .. Len(s) -> Range(s)]
  BY <1>1 DEF Range
<1> QED
  BY <1>1, <1>2, SeqDef

\* Instructions appended to the code leave those before them where they are.
LEMMA Emission ==
  ASSUME NEW S, NEW c \in Seq(S), NEW T, NEW m \in Seq(T)
  PROVE  /\ c \o m \in Seq(Range(c \o m))
         /\ Len(c) \in Nat /\ Len(m) \in Nat /\ Len(c \o m) = Len(c) + Len(m)
         /\ \A k \in 1 .. Len(c) : (c \o m)[k] = c[k]
         /\ \A k \in 1 .. Len(m) : (c \o m)[Len(c) + k] = m[k]
<1>1. c \in Seq(S \cup T) /\ m \in Seq(S \cup T)
  BY SeqMonotonic
<1>2. /\ c \o m \in Seq(S \cup T) /\ Len(c \o m) = Len(c) + Len(m)
      /\ Len(c) \in Nat /\ Len(m) \in Nat
      /\ \A i \in 1 .. Len(c) + Len(m) :
           (c \o m)[i] = IF i <= Len(c) THEN c[i] ELSE m[i - Len(c)]
  BY <1>1, ConcatProperties, LenProperties
<1>3. \A k \in 1 .. Len(c) : (c \o m)[k] = c[k]
  BY <1>2
<1>4. ASSUME NEW k \in 1 .. Len(m) PROVE (c \o m)[Len(c) + k] = m[k]
  <2>1. /\ Len(c) + k \in 1 .. Len(c) + Len(m) /\ ~(Len(c) + k <= Len(c))
        /\ Len(c) + k - Len(c) = k
    BY <1>2
  <2> QED
    BY <1>2, <2>1
<1>5. c \o m \in Seq(Range(c \o m))
  BY <1>2, RangeSeq
<1> QED
  BY <1>2, <1>3, <1>4, <1>5

LEMMA EmitOne ==
  ASSUME NEW S, NEW c \in Seq(S), NEW e
  PROVE  /\ Append(c, e) \in Seq(Range(Append(c, e))) /\ Len(c) \in Nat
         /\ Len(Append(c, e)) = Len(c) + 1
         /\ \A k \in 1 .. Len(c) : Append(c, e)[k] = c[k]
         /\ Append(c, e)[Len(c) + 1] = e
<1>1. c \in Seq(S \cup {e}) /\ e \in S \cup {e}
  BY SeqMonotonic
<1>2. /\ Append(c, e) \in Seq(S \cup {e}) /\ Len(Append(c, e)) = Len(c) + 1
      /\ \A k \in 1 .. Len(c) : Append(c, e)[k] = c[k]
      /\ Append(c, e)[Len(c) + 1] = e
  BY <1>1, AppendProperties
<1>3. Append(c, e) \in Seq(Range(Append(c, e)))
  BY <1>2, RangeSeq
<1>4. Len(c) \in Nat
  BY LenProperties
<1> QED
  BY <1>2, <1>3, <1>4

\* The code that closes a group: one recon call per element of reconVector, a destroy.
LEMMA CommitCodeShape ==
  ASSUME MemberInv
  PROVE  /\ CommitCode \in Seq(Range(CommitCode))
         /\ Len(reconVector) \in Nat
         /\ executeCommit => Len(CommitCode) = 0
         /\ ~executeCommit =>
              /\ Len(CommitCode) = Len(reconVector) + 1
              /\ \A k \in 1 .. Len(reconVector) : CommitCode[k] = ReconCode(k)
              /\ CommitCode[Len(reconVector) + 1] = DestroyCode
<1>1. Len(reconVector) \in Nat
  BY LenProperties DEF MemberInv
<1>2. CASE executeCommit
  <2>1. CommitCode = << >>
    BY <1>2 DEF CommitCode
  <2>2. << >> \in Seq({}) /\ Len(<< >>) = 0
    BY EmptySeq
  <2> QED
    BY <1>1, <1>2, <2>1, <2>2, RangeSeq
<1>3. CASE ~executeCommit
  <2>1. PICK n \in Nat : n = Len(reconVector)
    BY <1>1
  <2>2. PICK r : r = [k \in 1 .. n |-> ReconCode(k)]
    OBVIOUS
  <2>3. r \in [1 .. n -> Range(r)] /\ DOMAIN r = 1 .. n
    BY <2>2 DEF Range
  <2>4. r \in Seq(Range(r)) /\ Len(r) = n
    <3>1. r \in Seq(Range(r))
      BY <2>3, SeqDef
    <3> QED
      BY <2>3, <3>1, LenProperties
  <2>5. CommitCode = Append(r, DestroyCode)
    BY <1>3, <2>1, <2>2 DEF CommitCode
  <2>6. \A k \in 1 .. n : r[k] = ReconCode(k)
    BY <2>2
  <2> QED
    BY <1>3, <2>1, <2>4, <2>5, <2>6, EmitOne
<1> QED
  BY <1>2, <1>3 DEF MemberInv

-----------------------------------------------------------------------------

(***************************************************************************)
(* What the actions do to the code: a statement in place commits the open  *)
(* group and then emits at most one instruction, a statement of a group is *)
(* scheduled, the end of a branch of a conditional emits branches.         *)
(***************************************************************************)
Extends ==
  /\ code' \in Seq(Range(code'))
  /\ Len(code') \in Nat /\ Len(code') >= Len(code)
  /\ \A k \in 1 .. Len(code) : code'[k] = code[k]

InlineOps == {"stmt", "ret", "condbr"}

NewRecon(k) ==
  /\ code'[Len(code) + k].op = "recon" /\ code'[Len(code) + k].bb = bb
  /\ code'[Len(code) + k].cid = currCid /\ code'[Len(code) + k].id = k - 1
  /\ code'[Len(code) + k].ty = reconVector[k].ty
  /\ code'[Len(code) + k].to = reconVector[k].at

NewDestroy(k) == code'[Len(code) + k] = DestroyCode

NewInline(k) ==
  /\ Len(code') = Len(code) + k
  /\ code'[Len(code) + k].op \in InlineOps /\ code'[Len(code) + k].bb = bb

Commits ==
  /\ Extends
  /\ executeCommit' = TRUE
  /\ executeCommit => \A k \in 1 .. Len(code') - Len(code) : NewInline(k)
  /\ ~executeCommit =>
       /\ Len(code') >= Len(code) + Len(reconVector) + 1
       /\ \A k \in 1 .. Len(reconVector) : NewRecon(k)
       /\ NewDestroy(Len(reconVector) + 1)
       /\ \A k \in Len(reconVector) + 2 .. Len(code') - Len(code) : NewInline(k)

Schedules ==
  /\ Extends
  /\ executeCommit' = FALSE
  /\ Len(code') = Len(code) + IF executeCommit THEN 2 ELSE 1
  /\ currId' = (IF executeCommit THEN 0 ELSE currId) + 1
  /\ currCid' = IF executeCommit THEN Len(code) + 1 ELSE currCid
  /\ executeCommit => /\ code'[Len(code) + 1].op = "make"
                      /\ code'[Len(code) + 1].cid = Len(code) + 1
                      /\ code'[Len(code) + 1].bb = bb
  /\ code'[Len(code')].op = "sched" /\ code'[Len(code')].bb = bb
  /\ code'[Len(code')].cid = currCid' /\ code'[Len(code')].id = currId' - 1
  /\ Len(reconVector') = Len(reconVector) + 1
  /\ \A k \in 1 .. Len(reconVector) : reconVector'[k] = reconVector[k]
  /\ reconVector'[Len(reconVector) + 1] =
       [ty |-> code'[Len(code')].ty, at |-> code'[Len(code')].at]

EmitsBranches ==
  /\ Extends
  /\ \A k \in Len(code) + 1 .. Len(code') : code'[k].op = "br"
  /\ UNCHANGED <<currId, currCid, reconVector>>
  /\ executeCommit' \in BOOLEAN /\ (executeCommit => executeCommit')

LEMMA CommitEmits ==
  ASSUME MemberInv, NEW c, c = code \o CommitCode
  PROVE  /\ c \in Seq(Range(c)) /\ Len(c) \in Nat /\ Len(code) \in Nat
         /\ \A k \in 1 .. Len(code) : c[k] = code[k]
         /\ executeCommit => Len(c) = Len(code)
         /\ ~executeCommit =>
              /\ Len(c) = Len(code) + Len(reconVector) + 1
              /\ \A k \in 1 .. Len(reconVector) : c[Len(code) + k] = ReconCode(k)
              /\ c[Len(code) + Len(reconVector) + 1] = DestroyCode
<1>1. /\ CommitCode \in Seq(Range(CommitCode)) /\ Len(reconVector) \in Nat
      /\ executeCommit => Len(CommitCode) = 0
      /\ ~executeCommit =>
           /\ Len(CommitCode) = Len(reconVector) + 1
           /\ \A k \in 1 .. Len(reconVector) : CommitCode[k] = ReconCode(k)
           /\ CommitCode[Len(reconVector) + 1] = DestroyCode
  BY CommitCodeShape
<1>2. code \in Seq(Range(code))
  BY DEF MemberInv
<1>3. PICK m : m = CommitCode
  OBVIOUS
<1>4. /\ c \in Seq(Range(c)) /\ Len(code) \in Nat /\ Len(m) \in Nat
      /\ Len(c) = Len(code) + Len(m)
      /\ \A k \in 1 .. Len(code) : c[k] = code[k]
      /\ \A k \in 1 .. Len(m) : c[Len(code) + k] = m[k]
  <2>1. c = code \o m /\ m \in Seq(Range(m))
    BY <1>1, <1>3
  <2>2. /\ code \o m \in Seq(Range(code \o m))
        /\ Len(code) \in Nat /\ Len(m) \in Nat /\ Len(code \o m) = Len(code) + Len(m)
        /\ \A k \in 1 .. Len(code) : (code \o m)[k] = code[k]
        /\ \A k \in 1 .. Len(m) : (code \o m)[Len(code) + k] = m[k]
    <3>1. PICK S : code \in Seq(S)
      BY <1>2, Zenon
    <3>2. PICK T : m \in Seq(T)
      BY <2>1, Zenon
    <3> QED
      BY <3>1, <3>2, Emission
  <2> QED
    BY <2>1, <2>2, Zenon
<1>5. CASE executeCommit
  BY <1>1, <1>3, <1>4, <1>5
<1>6. CASE ~executeCommit
  <2>1. \A k \in 1 .. Len(reconVector) : k \in 1 .. Len(m)
    BY <1>1, <1>3, <1>6
  <2>2. \A k \in 1 .. Len(reconVector) : c[Len(code) + k] = ReconCode(k)
    BY <1>1, <1>3, <1>4, <1>6, <2>1, Zenon
  <2>3. Len(reconVector) + 1 \in 1 .. Len(m)
    BY <1>1, <1>3, <1>6
  <2>4. c[Len(code) + (Len(reconVector) + 1)] = DestroyCode
    BY <1>1, <1>3, <1>4, <1>6, <2>3, Zenon
  <2>5. Len(code) + (Len(reconVector) + 1) = Len(code) + Len(reconVector) + 1
    BY <1>1, <1>4
  <2>6. Len(c) = Len(code) + Len(reconVector) + 1
    <3>1. Len(m) = Len(reconVector) + 1 /\ Len(c) = Len(code) + Len(m)
      BY <1>1, <1>3, <1>4, <1>6, Zenon
    <3> QED
      BY <2>5, <3>1, Zenon
  <2> QED
    BY <1>4, <1>6, <2>2, <2>4, <2>5, <2>6
<1> QED
  BY <1>5, <1>6 DEF MemberInv

LEMMA ReconFields ==
  ASSUME NEW d, NEW k, d = ReconCode(k)
  PROVE  /\ d.op = "recon" /\ d.bb = bb /\ d.cid = currCid /\ d.id = k - 1
         /\ d.ty = reconVector[k].ty /\ d.to = reconVector[k].at
BY DEF ReconCode

LEMMA CommitOnly ==
  ASSUME MemberInv, code' = code \o CommitCode, executeCommit' = TRUE
  PROVE  Commits
<1>1. PICK c : c = code \o CommitCode
  OBVIOUS
<1>2. /\ c \in Seq(Range(c)) /\ Len(c) \in Nat /\ Len(code) \in Nat
      /\ \A k \in 1 .. Len(code) : c[k] = code[k]
      /\ executeCommit => Len(c) = Len(code)
      /\ ~executeCommit =>
           /\ Len(c) = Len(code) + Len(reconVector) + 1
           /\ \A k \in 1 .. Len(reconVector) : c[Len(code) + k] = ReconCode(k)
           /\ c[Len(code) + Len(reconVector) + 1] = DestroyCode
  BY <1>1, CommitEmits
<1>3. code' = c /\ Len(reconVector) \in Nat
  BY <1>1, CommitCodeShape
<1>4. Extends
  <2>1. Len(c) >= Len(code)
    BY <1>2, <1>3 DEF MemberInv
  <2> QED
    BY <1>2, <1>3, <2>1 DEF Extends
<1>5. CASE executeCommit
  <2>1. 1 .. Len(c) - Len(code) = {}
    BY <1>2, <1>5
  <2> QED
    BY <1>3, <1>4, <1>5, <2>1 DEF Commits
<1>6. CASE ~executeCommit
  <2>1. ASSUME NEW k \in 1 .. Len(reconVector) PROVE NewRecon(k)
    <3>1. PICK d : d = code'[Len(code) + k]
      OBVIOUS
    <3>2. d = ReconCode(k)
      BY <1>2, <1>3, <1>6, <3>1
    <3> QED
      BY <3>1, <3>2, ReconFields DEF NewRecon
  <2>2. NewDestroy(Len(reconVector) + 1)
    <3>1. Len(code) + (Len(reconVector) + 1) = Len(code) + Len(reconVector) + 1
      BY <1>2, <1>3
    <3> QED
      BY <1>2, <1>3, <1>6, <3>1 DEF NewDestroy
  <2>3. Len(reconVector) + 2 .. Len(c) - Len(code) = {}
    BY <1>2, <1>3, <1>6
  <2>4. Len(c) >= Len(code) + Len(reconVector) + 1
    BY <1>2, <1>3, <1>6
  <2> QED
    BY <1>3, <1>4, <1>6, <2>1, <2>2, <2>3, <2>4 DEF Commits
<1> QED
  BY <1>5, <1>6 DEF MemberInv

LEMMA CommitThen ==
  ASSUME MemberInv, NEW e, e.op \in InlineOps, e.bb = bb,
         code' = Append(code \o CommitCode, e), executeCommit' = TRUE
  PROVE  Commits
<1>1. PICK c : c = code \o CommitCode
  OBVIOUS
<1>2. /\ c \in Seq(Range(c)) /\ Len(c) \in Nat /\ Len(code) \in Nat
      /\ \A k \in 1 .. Len(code) : c[k] = code[k]
      /\ executeCommit => Len(c) = Len(code)
      /\ ~executeCommit =>
           /\ Len(c) = Len(code) + Len(reconVector) + 1
           /\ \A k \in 1 .. Len(reconVector) : c[Len(code) + k] = ReconCode(k)
           /\ c[Len(code) + Len(reconVector) + 1] = DestroyCode
  BY <1>1, CommitEmits
<1>3. Len(reconVector) \in Nat
  BY CommitCodeShape
<1>4. /\ code' \in Seq(Range(code')) /\ Len(code') = Len(c) + 1
      /\ \A k \in 1 .. Len(c) : code'[k] = c[k]
      /\ code'[Len(c) + 1] = e
  <2>1. PICK S : c \in Seq(S)
    BY <1>2, Zenon
  <2>2. code' = Append(c, e)
    BY <1>1
  <2> QED
    BY <2>1, <2>2, EmitOne
<1>5. Extends
  <2>1. Len(c) >= Len(code)
    BY <1>2, <1>3 DEF MemberInv
  <2>2. \A k \in 1 .. Len(code) : k \in 1 .. Len(c)
    BY <1>2, <2>1
  <2>3. Len(code') \in Nat /\ Len(code') >= Len(code)
    BY <1>2, <1>4, <2>1
  <2> QED
    BY <1>2, <1>4, <2>2, <2>3 DEF Extends
<1>6. CASE executeCommit
  <2>1. ASSUME NEW k \in 1 .. Len(code') - Len(code) PROVE NewInline(k)
    <3>1. k = 1 /\ Len(c) = Len(code)
      BY <1>2, <1>4, <1>6
    <3> QED
      BY <1>4, <3>1 DEF NewInline
  <2> QED
    BY <1>5, <1>6, <2>1 DEF Commits
<1>7. CASE ~executeCommit
  <2>1. ASSUME NEW k \in 1 .. Len(reconVector) PROVE NewRecon(k)
    <3>1. Len(code) + k \in 1 .. Len(c)
      BY <1>2, <1>3, <1>7
    <3>2. PICK d : d = code'[Len(code) + k]
      OBVIOUS
    <3>3. d = ReconCode(k)
      BY <1>2, <1>4, <1>7, <3>1, <3>2
    <3> QED
      BY <3>2, <3>3, ReconFields DEF NewRecon
  <2>2. NewDestroy(Len(reconVector) + 1)
    <3>1. /\ Len(code) + (Len(reconVector) + 1) = Len(code) + Len(reconVector) + 1
          /\ Len(code) + (Len(reconVector) + 1) \in 1 .. Len(c)
      BY <1>2, <1>3, <1>7
    <3> QED
      BY <1>2, <1>4, <1>7, <3>1 DEF NewDestroy
  <2>3. ASSUME NEW k \in Len(reconVector) + 2 .. Len(code') - Len(code) PROVE NewInline(k)
    <3>1. Len(code) + k = Len(c) + 1
      <4>1. PICK n \in Nat, r \in Nat : n = Len(code) /\ r = Len(reconVector)
        BY <1>2, <1>3, Zenon
      <4>2. Len(c) = n + r + 1 /\ Len(code') = n + r + 1 + 1
        BY <1>2, <1>4, <1>7, <4>1
      <4>3. k \in r + 2 .. (n + r + 1 + 1) - n
        BY <4>1, <4>2
      <4>4. n + k = n + r + 1 + 1
        BY <4>3
      <4> QED
        BY <4>1, <4>2, <4>4
    <3> QED
      BY <1>4, <3>1 DEF NewInline
  <2>4. Len(code') >= Len(code) + Len(reconVector) + 1
    BY <1>2, <1>3, <1>4, <1>7
  <2> QED
    BY <1>5, <1>7, <2>1, <2>2, <2>3, <2>4 DEF Commits
<1> QED
  BY <1>6, <1>7 DEF MemberInv

LEMMA InlineCommits ==
  ASSUME MemberInv, VisitPlain \/ VisitDeclaration \/ VisitReturn \/ VisitFunction \/ VisitIf
  PROVE  Commits
<1>1. CASE VisitPlain
  <2>1. Source("stmt", bb).op \in InlineOps /\ Source("stmt", bb).bb = bb
    BY DEF Source, InlineOps
  <2> QED
    BY <1>1, <2>1, CommitThen DEF VisitPlain, Commit
<1>2. CASE VisitReturn
  <2>1. Source("ret", bb).op \in InlineOps /\ Source("ret", bb).bb = bb
    BY DEF Source, InlineOps
  <2> QED
    BY <1>2, <2>1, CommitThen DEF VisitReturn, Commit
<1>3. CASE VisitDeclaration \/ VisitFunction
  BY <1>3, CommitOnly DEF VisitDeclaration, VisitFunction, Commit
<1>4. CASE VisitIf
  <2>1. PICK e : /\ e = [op |-> "condbr", bb |-> bb, at |-> <<Top.blk, Top.i>>,
                         dest |-> <<nextBB, nextBB + 1>>]
                /\ code' = Append(code \o CommitCode, e)
    BY <1>4 DEF VisitIf
  <2>2. e.op \in InlineOps /\ e.bb = bb
    BY <2>1 DEF InlineOps
  <2> QED
    BY <1>4, <2>1, <2>2, CommitThen DEF VisitIf, Commit
<1> QED
  BY <1>1, <1>2, <1>3, <1>4

LEMMA ScheduleEmits ==
  ASSUME MemberInv, StackInv, ScheduleStatement, ~Fail
  PROVE  /\ Schedules
         /\ reconVector' \in Seq(ReconType)
         /\ stack' = Advance(stack) /\ justReturned' = TRUE /\ namedValues' = TRUE
         /\ UNCHANGED <<prog, bb, nextBB, error>>
<1>1. stack # << >> /\ Top.i <= Len(Block)
  BY DEF ScheduleStatement, Visiting
<1>2. /\ Top.blk \in DOMAIN prog /\ Top.i \in Nat
      /\ IsStatement(Current, DOMAIN prog \ {"root"})
  BY <1>1, TopFrame
<1>3. lambdaKeyword(Current) \in StatementType
  BY <1>2 DEF IsStatement, lambdaKeyword, StatementType
<1>4. PICK make, id, cid, sched :
        /\ make = IF executeCommit
                  THEN <<[op |-> "make", bb |-> bb, cid |-> Len(code) + 1]>>
                  ELSE << >>
        /\ id = IF executeCommit THEN 0 ELSE currId
        /\ cid = IF executeCommit THEN Len(code) + 1 ELSE currCid
        /\ sched = [op |-> "sched", bb |-> bb, at |-> <<Top.blk, Top.i>>,
                    ty |-> lambdaKeyword(Current), id |-> id, cid |-> cid]
        /\ code' = Append(code \o make, sched)
        /\ currId' = id + 1 /\ currCid' = cid
        /\ reconVector' = Append(reconVector, [ty |-> sched.ty, at |-> sched.at])
  BY DEF ScheduleStatement, LambdaReturned
<1>5. /\ executeCommit' = FALSE
      /\ stack' = Advance(stack) /\ justReturned' = TRUE /\ namedValues' = TRUE
      /\ UNCHANGED <<prog, bb, nextBB, error>>
  BY DEF ScheduleStatement, LambdaReturned
<1>6. /\ sched.op = "sched" /\ sched.bb = bb /\ sched.id = id /\ sched.cid = cid
      /\ sched.ty = lambdaKeyword(Current) /\ sched.at = <<Top.blk, Top.i>>
  BY <1>4
<1>7. [ty |-> sched.ty, at |-> sched.at] \in ReconType
  BY <1>2, <1>3, <1>6 DEF ReconType
<1>8. /\ reconVector' \in Seq(ReconType) /\ Len(reconVector') = Len(reconVector) + 1
      /\ \A k \in 1 .. Len(reconVector) : reconVector'[k] = reconVector[k]
      /\ reconVector'[Len(reconVector) + 1] = [ty |-> sched.ty, at |-> sched.at]
  <2>1. PICK e \in ReconType : e = [ty |-> sched.ty, at |-> sched.at]
    BY <1>7
  <2> QED
    BY <1>4, <2>1, AppendProperties DEF MemberInv
<1>9. PICK c : c = code \o make
  OBVIOUS
<1>10. PICK S : code \in Seq(S)
  BY DEF MemberInv
<1>11. /\ c \in Seq(Range(c)) /\ Len(code) \in Nat
       /\ Len(c) = Len(code) + IF executeCommit THEN 1 ELSE 0
       /\ \A k \in 1 .. Len(code) : c[k] = code[k]
       /\ executeCommit =>
            c[Len(code) + 1] = [op |-> "make", bb |-> bb, cid |-> Len(code) + 1]
  <2>1. CASE executeCommit
    <3>1. PICK e : e = [op |-> "make", bb |-> bb, cid |-> Len(code) + 1]
      OBVIOUS
    <3>2. make = <<e>> /\ <<e>> \in Seq({e}) /\ Len(<<e>>) = 1 /\ <<e>>[1] = e
      BY <1>4, <2>1, <3>1
    <3>3. PICK T : make \in Seq(T)
      BY <3>2
    <3>4. /\ c \in Seq(Range(c)) /\ Len(code) \in Nat /\ Len(c) = Len(code) + Len(make)
          /\ \A k \in 1 .. Len(code) : c[k] = code[k]
          /\ \A k \in 1 .. Len(make) : c[Len(code) + k] = make[k]
      BY <1>9, <1>10, <3>3, Emission
    <3>5. Len(make) = 1 /\ make[1] = e
      BY <3>2
    <3> QED
      BY <2>1, <3>1, <3>4, <3>5
  <2>2. CASE ~executeCommit
    <3>1. make = << >>
      BY <1>4, <2>2
    <3>2. c = code
      BY <1>9, <1>10, <3>1, ConcatEmptySeq
    <3>3. Len(code) \in Nat /\ code \in Seq(Range(code))
      BY <1>10, LenProperties, RangeSeq
    <3> QED
      BY <2>2, <3>2, <3>3
  <2> QED
    BY <2>1, <2>2 DEF MemberInv
<1>12. /\ code' \in Seq(Range(code')) /\ Len(c) \in Nat /\ Len(code') = Len(c) + 1
       /\ \A k \in 1 .. Len(c) : code'[k] = c[k]
       /\ code'[Len(c) + 1] = sched
  <2>1. PICK T : c \in Seq(T)
    BY <1>11
  <2>2. code' = Append(c, sched)
    BY <1>4, <1>9
  <2> QED
    BY <2>1, <2>2, EmitOne
<1>13. Extends
  <2>1. Len(c) >= Len(code)
    BY <1>11 DEF MemberInv
  <2>2. \A k \in 1 .. Len(code) : k \in 1 .. Len(c)
    BY <1>11, <1>12, <2>1
  <2>3. Len(code') \in Nat /\ Len(code') >= Len(code)
    BY <1>11, <1>12, <2>1
  <2> QED
    BY <1>11, <1>12, <2>2, <2>3 DEF Extends
<1>14. Schedules
  <2>1. Len(code') = Len(code) + IF executeCommit THEN 2 ELSE 1
    BY <1>11, <1>12 DEF MemberInv
  <2>2. currId' = (IF executeCommit THEN 0 ELSE currId) + 1
    BY <1>4
  <2>3. currCid' = IF executeCommit THEN Len(code) + 1 ELSE currCid
    BY <1>4
  <2>4. executeCommit => /\ code'[Len(code) + 1].op = "make"
                         /\ code'[Len(code) + 1].cid = Len(code) + 1
                         /\ code'[Len(code) + 1].bb = bb
    <3>1. executeCommit => code'[Len(code) + 1] = c[Len(code) + 1]
      BY <1>11, <1>12
    <3> QED
      BY <1>11, <3>1
  <2>5. code'[Len(code')] = sched
    BY <1>12
  <2>6. code'[Len(code')].cid = currCid' /\ code'[Len(code')].id = currId' - 1
    <3>1. id \in Int /\ currId' = id + 1
      BY <1>4 DEF MemberInv
    <3>2. id = currId' - 1
      BY <3>1
    <3> QED
      BY <1>4, <1>6, <2>5, <3>2
  <2>7. reconVector'[Len(reconVector) + 1] =
          [ty |-> code'[Len(code')].ty, at |-> code'[Len(code')].at]
    BY <1>8, <2>5
  <2>8. code'[Len(code')].op = "sched" /\ code'[Len(code')].bb = bb
    BY <1>6, <2>5
  <2> QED
    BY <1>5, <1>8, <1>13, <2>1, <2>2, <2>3, <2>4, <2>6, <2>7, <2>8 DEF Schedules
<1> QED
  BY <1>5, <1>8, <1>14

\* A branch ends the current basic block, or the else block of a conditional without one.
NewBranch(k) ==
  /\ code'[k].op = "br"
  /\ \/ code'[k].bb = bb /\ ~justReturned
     \/ code'[k].bb = Top.base + 1 /\ Top.role = "then"

LEMMA MergeCode ==
  ASSUME MemberInv, NEW c, c = code \o BranchToMerge
  PROVE  /\ c \in Seq(Range(c)) /\ Len(c) \in Nat /\ Len(code) \in Nat
         /\ Len(c) = Len(code) + IF justReturned THEN 0 ELSE 1
         /\ \A k \in 1 .. Len(code) : c[k] = code[k]
         /\ ~justReturned => c[Len(code) + 1].op = "br" /\ c[Len(code) + 1].bb = bb
<1>1. PICK S : code \in Seq(S)
  BY DEF MemberInv
<1>2. Len(code) \in Nat /\ code \in Seq(Range(code))
  BY <1>1, LenProperties, RangeSeq
<1>3. CASE justReturned
  <2>1. c = code
    BY <1>1, <1>3, ConcatEmptySeq DEF BranchToMerge
  <2> QED
    BY <1>2, <1>3, <2>1
<1>4. CASE ~justReturned
  <2>1. PICK e : e = Branch(bb)
    OBVIOUS
  <2>2. e.op = "br" /\ e.bb = bb
    BY <2>1 DEF Branch
  <2>3. PICK m : m = BranchToMerge
    OBVIOUS
  <2>4. m = <<e>>
    BY <1>4, <2>1, <2>3 DEF BranchToMerge
  <2>5. m \in Seq({e}) /\ Len(m) = 1 /\ m[1] = e
    BY <2>4
  <2>6. PICK T : m \in Seq(T)
    BY <2>5
  <2>7. /\ c \in Seq(Range(c)) /\ Len(c) = Len(code) + Len(m)
        /\ \A k \in 1 .. Len(code) : c[k] = code[k]
        /\ \A k \in 1 .. Len(m) : c[Len(code) + k] = m[k]
    BY <1>1, <2>3, <2>6, Emission
  <2> QED
    BY <1>2, <1>4, <2>2, <2>5, <2>7
<1> QED
  BY <1>3, <1>4 DEF MemberInv

LEMMA MergeOnly ==
  ASSUME MemberInv, code' = code \o BranchToMerge
  PROVE  Extends /\ \A k \in Len(code) + 1 .. Len(code') : NewBranch(k)
<1>1. PICK c : c = code \o BranchToMerge
  OBVIOUS
<1>2. /\ c \in Seq(Range(c)) /\ Len(c) \in Nat /\ Len(code) \in Nat
      /\ Len(c) = Len(code) + IF justReturned THEN 0 ELSE 1
      /\ \A k \in 1 .. Len(code) : c[k] = code[k]
      /\ ~justReturned => c[Len(code) + 1].op = "br" /\ c[Len(code) + 1].bb = bb
  BY <1>1, MergeCode
<1>3. code' = c
  BY <1>1
<1>4. Extends
  <2>1. Len(c) >= Len(code)
    BY <1>2 DEF MemberInv
  <2> QED
    BY <1>2, <1>3, <2>1 DEF Extends
<1>5. ASSUME NEW k \in Len(code) + 1 .. Len(code') PROVE NewBranch(k)
  <2>1. k = Len(code) + 1 /\ ~justReturned
    BY <1>2, <1>3
  <2> QED
    BY <1>2, <1>3, <2>1 DEF NewBranch
<1> QED
  BY <1>4, <1>5

LEMMA MergeAndElse ==
  ASSUME MemberInv, Top.role = "then",
         code' = Append(code \o BranchToMerge, Branch(Top.base + 1))
  PROVE  Extends /\ \A k \in Len(code) + 1 .. Len(code') : NewBranch(k)
<1>1. PICK c : c = code \o BranchToMerge
  OBVIOUS
<1>2. /\ c \in Seq(Range(c)) /\ Len(c) \in Nat /\ Len(code) \in Nat
      /\ Len(c) = Len(code) + IF justReturned THEN 0 ELSE 1
      /\ \A k \in 1 .. Len(code) : c[k] = code[k]
      /\ ~justReturned => c[Len(code) + 1].op = "br" /\ c[Len(code) + 1].bb = bb
  BY <1>1, MergeCode
<1>3. PICK e : e = Branch(Top.base + 1)
  OBVIOUS
<1>4. e.op = "br" /\ e.bb = Top.base + 1
  BY <1>3 DEF Branch
<1>5. /\ code' \in Seq(Range(code')) /\ Len(code') = Len(c) + 1
      /\ \A k \in 1 .. Len(c) : code'[k] = c[k]
      /\ code'[Len(c) + 1] = e
  <2>1. PICK T : c \in Seq(T)
    BY <1>2
  <2>2. code' = Append(c, e)
    BY <1>1, <1>3
  <2>3. /\ Append(c, e) \in Seq(Range(Append(c, e))) /\ Len(Append(c, e)) = Len(c) + 1
        /\ \A k \in 1 .. Len(c) : Append(c, e)[k] = c[k]
        /\ Append(c, e)[Len(c) + 1] = e
    BY <2>1, EmitOne
  <2> QED
    BY <2>2, <2>3, Zenon
<1>6. Extends
  <2>1. Len(c) >= Len(code)
    BY <1>2 DEF MemberInv
  <2>2. \A k \in 1 .. Len(code) : k \in 1 .. Len(c)
    BY <1>2, <2>1
  <2>3. Len(code') \in Nat /\ Len(code') >= Len(code)
    BY <1>2, <1>5, <2>1
  <2> QED
    BY <1>2, <1>5, <2>2, <2>3 DEF Extends
<1>7. ASSUME NEW k \in Len(code) + 1 .. Len(code') PROVE NewBranch(k)
  <2>1. CASE k = Len(c) + 1
    BY <1>4, <1>5, <2>1 DEF NewBranch
  <2>2. CASE k # Len(c) + 1
    <3>1. k = Len(code) + 1 /\ ~justReturned /\ k \in 1 .. Len(c)
      BY <1>2, <1>5, <2>2 DEF MemberInv
    <3> QED
      BY <1>2, <1>5, <3>1 DEF NewBranch
  <2> QED
    BY <2>1, <2>2
<1> QED
  BY <1>6, <1>7

LEMMA LeaveEmits ==
  ASSUME MemberInv, LeaveThen \/ LeaveElse \/ LeaveFunction \/ LeaveRoot
  PROVE  EmitsBranches /\ \A k \in Len(code) + 1 .. Len(code') : NewBranch(k)
<1>1. Extends /\ \A k \in Len(code) + 1 .. Len(code') : NewBranch(k)
  <2>1. CASE LeaveThen
    BY <2>1, MergeOnly, MergeAndElse DEF LeaveThen, AtEnd
  <2>2. CASE LeaveElse
    BY <2>2, MergeOnly DEF LeaveElse
  <2>3. CASE LeaveFunction \/ LeaveRoot
    <3>1. code' = code /\ code \in Seq(Range(code)) /\ Len(code) \in Nat
      BY <2>3, LenProperties DEF LeaveFunction, LeaveRoot, MemberInv
    <3>2. Len(code) + 1 .. Len(code) = {} /\ Len(code) >= Len(code)
      BY <3>1
    <3> QED
      BY <3>1, <3>2 DEF Extends
  <2> QED
    BY <2>1, <2>2, <2>3
<1>2. executeCommit' \in BOOLEAN /\ (executeCommit => executeCommit')
  BY DEF LeaveThen, LeaveElse, LeaveFunction, LeaveRoot, MemberInv
<1>3. UNCHANGED <<currId, currCid, reconVector>>
  BY DEF LeaveThen, LeaveElse, LeaveFunction, LeaveRoot
<1> QED
  BY <1>1, <1>2, <1>3 DEF EmitsBranches, NewBranch

-----------------------------------------------------------------------------

LEMMA StackInit ==
  ASSUME Init
  PROVE  StackInv
<1>1. PICK f : f = Frame("root", "root", 0)
  OBVIOUS
<1>2. stack = <<f>> /\ Len(stack) = 1 /\ stack[1] = f
  BY <1>1 DEF Init
<1>3. /\ "root" \in DOMAIN prog
      /\ prog["root"] \in Seq({prog["root"][i] : i \in DOMAIN prog["root"]})
  BY ProgramsAssumption DEF Init
<1>4. f \in Frames(DOMAIN prog)
  BY <1>1, <1>3, FrameInFrames
<1>5. stack \in Seq(Frames(DOMAIN prog))
  BY <1>2, <1>4
<1>6. f.blk = "root" /\ f.i = 1 /\ f.role = "root" /\ f.base = 0
  BY <1>1 DEF Frame
<1>7. Len(prog["root"]) \in Nat
  BY <1>3, LenProperties
<1>8. ASSUME NEW n \in 1 .. Len(stack) PROVE FrameOK(n)
  <2>1. n = 1 /\ stack[n] = f /\ ~(n < Len(stack))
    BY <1>2
  <2>2. InBlock(n)
    BY <1>6, <1>7, <2>1 DEF InBlock
  <2>3. RoleOK(n) /\ ThenOK(n) /\ BaseOK(n)
    BY <1>6, <2>1 DEF RoleOK, ThenOK, BaseOK
  <2> QED
    BY <2>2, <2>3 DEF FrameOK
<1>9. prog \in Programs
  BY DEF Init
<1> QED
  BY <1>5, <1>8, <1>9 DEF StackInv

LEMMA MemberInit ==
  ASSUME Init
  PROVE  MemberInv
<1>1. << >> \in Seq(ReconType) /\ << >> \in Seq(Range(<< >>)) /\ Len(<< >>) = 0
  BY EmptySeq
<1>2. code \in Seq(Range(code)) /\ reconVector \in Seq(ReconType) /\ Len(code) = 0
  BY <1>1, Zenon DEF Init
<1>3. /\ currId \in Nat /\ currCid \in Nat /\ currCid <= Len(code)
      /\ bb \in Nat /\ nextBB \in Nat /\ bb <= nextBB
  BY <1>2 DEF Init
<1>4. /\ executeCommit = TRUE /\ executeCommit \in BOOLEAN /\ namedValues \in BOOLEAN
      /\ justReturned \in BOOLEAN /\ error \in BOOLEAN
  BY DEF Init
<1> QED
  BY <1>2, <1>3, <1>4 DEF MemberInv

LEMMA StackKept ==
  ASSUME StackInv, stack' = stack, prog' = prog, nextBB' = nextBB
  PROVE  StackInv'
BY DEF StackInv, FrameOK, InBlock, RoleOK, ThenOK, BaseOK, Frames

LEMMA StackStep ==
  ASSUME StackInv, MemberInv, [Next]_cgVars
  PROVE  StackInv'
<1>1. CASE UNCHANGED cgVars
  BY <1>1, StackKept DEF cgVars
<1>2. CASE ScheduleStatement
  <2>1. CASE Fail
    BY <2>1, StackKept DEF Fail
  <2>2. CASE ~Fail
    <3>1. /\ stack # << >> /\ Top.i <= Len(Block) /\ stack' = Advance(stack)
          /\ prog' = prog /\ nextBB' = nextBB /\ nextBB \in Nat
      BY <1>2, <2>2, ScheduleEmits DEF ScheduleStatement, Visiting, MemberInv
    <3> QED
      BY <3>1, AdvanceStack
  <2> QED
    BY <2>1, <2>2
<1>3. CASE VisitPlain \/ VisitDeclaration \/ VisitReturn
  <2>1. /\ stack # << >> /\ Top.i <= Len(Block) /\ stack' = Advance(stack)
        /\ prog' = prog /\ nextBB' = nextBB /\ nextBB \in Nat
    BY <1>3 DEF VisitPlain, VisitDeclaration, VisitReturn, Inline, Visiting, MemberInv
  <2> QED
    BY <2>1, AdvanceStack
<1>4. CASE VisitFunction
  <2>1. /\ stack # << >> /\ Top.i <= Len(Block) /\ Current.kind = "function"
        /\ prog' = prog /\ nextBB' = nextBB + 1 /\ nextBB \in Nat
        /\ stack' = Append(stack, Frame(Current.body, "body", nextBB))
    BY <1>4 DEF VisitFunction, Inline, Visiting, MemberInv
  <2>2. Current.body \in DOMAIN prog \ {"root"}
    BY <2>1, TopFrame DEF IsStatement
  <2> QED
    BY <2>1, <2>2, PushStack
<1>5. CASE VisitIf
  <2>1. /\ stack # << >> /\ Top.i <= Len(Block) /\ Current.kind = "if"
        /\ prog' = prog /\ nextBB' = nextBB + 3 /\ nextBB \in Nat
        /\ stack' = Append(stack, Frame(Current.then, "then", nextBB))
    BY <1>5 DEF VisitIf, Inline, Visiting, MemberInv
  <2>2. Current.then \in DOMAIN prog \ {"root"}
    BY <2>1, TopFrame DEF IsStatement
  <2> QED
    BY <2>1, <2>2, PushStack
<1>6. CASE LeaveThen
  <2>1. /\ stack # << >> /\ Top.role = "then" /\ prog' = prog /\ nextBB' = nextBB
        /\ nextBB \in Nat
    BY <1>6 DEF LeaveThen, AtEnd, Visiting, MemberInv
  <2>2. PICK else :
          /\ else = prog[stack[Len(stack) - 1].blk][stack[Len(stack) - 1].i].else
          /\ IF else # "none"
             THEN stack' = Append(Pop(stack), Frame(else, "else", Top.base))
             ELSE stack' = Advance(Pop(stack))
    BY <1>6 DEF LeaveThen
  <2>3. CASE else # "none"
    <3>1. prog[stack[Len(stack) - 1].blk][stack[Len(stack) - 1].i].kind = "if"
      BY <2>1, TopFrame DEF FrameOK, ThenOK, Top
    <3>2. else \in DOMAIN prog \ {"root"}
      BY <2>1, <2>2, <2>3, <3>1, Parent DEF IsStatement
    <3> QED
      BY <2>1, <2>2, <2>3, <3>2, ElseStack
  <2>4. CASE else = "none"
    BY <2>1, <2>2, <2>4, PopStack
  <2> QED
    BY <2>3, <2>4
<1>7. CASE LeaveElse \/ LeaveFunction
  <2>1. /\ stack # << >> /\ Top.role # "root" /\ prog' = prog /\ nextBB' = nextBB
        /\ nextBB \in Nat /\ stack' = Advance(Pop(stack))
    BY <1>7 DEF LeaveElse, LeaveFunction, AtEnd, Visiting, MemberInv
  <2> QED
    BY <2>1, PopStack
<1>8. CASE LeaveRoot
  <2>1. stack' = << >> /\ prog' = prog
    BY <1>8 DEF LeaveRoot
  <2>2. << >> \in Seq(Frames(DOMAIN prog)) /\ Len(<< >>) = 0
    BY EmptySeq
  <2> QED
    BY <2>1, <2>2 DEF StackInv
<1> QED
  BY <1>1, <1>2, <1>3, <1>4, <1>5, <1>6, <1>7, <1>8 DEF Next

LEMMA MemberStep ==
  ASSUME StackInv, MemberInv, [Next]_cgVars
  PROVE  MemberInv'
<1>0. Len(code) \in Nat /\ Len(reconVector) \in Nat
  BY LenProperties DEF MemberInv
<1>1. CASE UNCHANGED cgVars
  BY <1>1 DEF cgVars, MemberInv, ReconType
<1>2. CASE ScheduleStatement
  <2>1. CASE Fail
    BY <2>1 DEF Fail, MemberInv, ReconType
  <2>2. CASE ~Fail
    <3>1. /\ Schedules /\ reconVector' \in Seq(ReconType)
          /\ justReturned' = TRUE /\ namedValues' = TRUE
          /\ UNCHANGED <<prog, bb, nextBB, error>>
      BY <1>2, <2>2, ScheduleEmits
    <3>2. /\ currId' \in Nat /\ currId' >= 1 /\ currId' <= Len(reconVector')
          /\ currCid' \in Nat /\ currCid' >= 1 /\ currCid' <= Len(code')
      BY <1>0, <3>1 DEF Schedules, MemberInv
    <3>3. /\ executeCommit' = FALSE /\ code' \in Seq(Range(code'))
          /\ reconVector' \in Seq(ReconType')
      BY <3>1 DEF Schedules, Extends, ReconType
    <3> QED
      BY <3>1, <3>2, <3>3 DEF MemberInv
  <2> QED
    BY <2>1, <2>2
<1>3. CASE VisitPlain \/ VisitDeclaration \/ VisitReturn \/ VisitFunction \/ VisitIf
  <2>1. Commits
    BY <1>3, InlineCommits
  <2>2. /\ prog' = prog /\ currCid' = currCid /\ reconVector' = reconVector
        /\ error' = error
        /\ currId' = IF executeCommit THEN currId ELSE currId - 1
    BY <1>3 DEF VisitPlain, VisitDeclaration, VisitReturn, VisitFunction, VisitIf, Commit
  <2>3. namedValues' \in BOOLEAN /\ justReturned' \in BOOLEAN
    BY <1>3 DEF VisitPlain, VisitDeclaration, VisitReturn, VisitFunction, VisitIf, MemberInv
  <2>4. bb' \in Nat /\ nextBB' \in Nat /\ bb' <= nextBB'
    BY <1>3 DEF VisitPlain, VisitDeclaration, VisitReturn, VisitFunction, VisitIf, MemberInv
  <2>5. currId' \in Nat
    BY <2>2 DEF MemberInv
  <2>6. /\ code' \in Seq(Range(code')) /\ executeCommit' = TRUE
        /\ currCid' \in Nat /\ currCid' <= Len(code')
    BY <1>0, <2>1, <2>2 DEF Commits, Extends, MemberInv
  <2>7. reconVector' \in Seq(ReconType')
    BY <2>2 DEF ReconType, MemberInv
  <2> QED
    BY <2>2, <2>3, <2>4, <2>5, <2>6, <2>7 DEF MemberInv
<1>4. CASE LeaveThen \/ LeaveElse \/ LeaveFunction \/ LeaveRoot
  <2>1. EmitsBranches
    BY <1>4, LeaveEmits
  <2>2. /\ prog' = prog /\ nextBB' = nextBB /\ error' = error
        /\ namedValues' = namedValues
    BY <1>4 DEF LeaveThen, LeaveElse, LeaveFunction, LeaveRoot
  <2>3. justReturned' \in BOOLEAN
    BY <1>4 DEF LeaveThen, LeaveElse, LeaveFunction, LeaveRoot, MemberInv
  <2>4. bb' \in Nat /\ bb' <= nextBB
    <3>1. CASE LeaveThen \/ LeaveElse
      <4>1. /\ stack # << >> /\ Top.role \in {"then", "else"}
            /\ bb' \in {Top.base + 1, Top.base + 2}
        BY <3>1 DEF LeaveThen, LeaveElse, AtEnd, Visiting
      <4>2. Top.base \in Nat /\ Top.base + 3 <= nextBB /\ nextBB \in Nat
        BY <4>1, TopFrame DEF FrameOK, BaseOK, Top, MemberInv
      <4> QED
        BY <4>1, <4>2
    <3>2. CASE LeaveFunction \/ LeaveRoot
      BY <3>2 DEF LeaveFunction, LeaveRoot, MemberInv
    <3> QED
      BY <1>4, <3>1, <3>2
  <2>5. /\ code' \in Seq(Range(code')) /\ executeCommit' \in BOOLEAN
        /\ currCid' <= Len(code') /\ (~executeCommit' => ~executeCommit)
    <3>1. executeCommit' \in BOOLEAN /\ (~executeCommit' => ~executeCommit)
      BY <2>1 DEF EmitsBranches
    <3>2. Extends /\ currCid' = currCid
      BY <2>1 DEF EmitsBranches
    <3>3. currCid' <= Len(code')
      BY <1>0, <3>2 DEF Extends, MemberInv
    <3> QED
      BY <3>1, <3>2, <3>3 DEF Extends
  <2>6. reconVector' \in Seq(ReconType') /\ UNCHANGED <<currId, currCid, reconVector>>
    BY <2>1, <2>2 DEF EmitsBranches, ReconType, MemberInv
  <2> QED
    BY <2>2, <2>3, <2>4, <2>5, <2>6 DEF MemberInv
<1> QED
  BY <1>1, <1>2, <1>3, <1>4 DEF Next

LEMMA MembersTyped ==
  ASSUME StackInv, MemberInv
  PROVE  TypeOK
<1>1. ASSUME NEW n \in 1 .. Len(stack)
      PROVE  /\ stack[n].blk \in DOMAIN prog
             /\ stack[n].i \in 1 .. Len(prog[stack[n].blk]) + 1
  <2>1. InBlock(n) /\ stack[n] \in Frames(DOMAIN prog)
    BY ElementOfSeq DEF StackInv, FrameOK
  <2>2. stack[n].blk \in DOMAIN prog /\ stack[n].i \in Nat
    BY <2>1 DEF Frames
  <2>3. Len(prog[stack[n].blk]) \in Nat
    BY <2>2, Statements
  <2> QED
    BY <2>1, <2>2, <2>3 DEF InBlock
<1>2. ASSUME NEW k \in 1 .. Len(reconVector) PROVE reconVector[k].ty \in StatementType
  <2>1. reconVector[k] \in ReconType
    BY ElementOfSeq DEF MemberInv
  <2> QED
    BY <2>1 DEF ReconType
<1>3. Len(code) \in Nat
  BY LenProperties DEF MemberInv
<1> QED
  BY <1>1, <1>2, <1>3 DEF TypeOK, MemberInv

(***************************************************************************)
(* While CodeGenVisitor compiles any program the parser builds, every      *)
(* block it visits is one of the program and it stands at a statement of   *)
(* the block or at its end; the id of the next statement of a group never  *)
(* becomes negative and the open context names an instruction that exists. *)
(***************************************************************************)
THEOREM VisitorTyped == Spec => []TypeOK
<1>1. Init => StackInv /\ MemberInv
  BY StackInit, MemberInit
<1>2. StackInv /\ MemberInv /\ [Next]_cgVars => StackInv' /\ MemberInv'
  BY StackStep, MemberStep
<1>3. StackInv /\ MemberInv => TypeOK
  BY MembersTyped
<1> QED
  BY <1>1, <1>2, <1>3, PTL DEF Spec

-----------------------------------------------------------------------------

\* Where an instruction is after a step that commits, schedules or leaves a block.
Old(k) == k \in 1 .. Len(code) /\ code'[k] = code[k]

LEMMA CommitCases ==
  ASSUME MemberInv, Commits, NEW k \in 1 .. Len(code')
  PROVE  \/ Old(k)
         \/ /\ k > Len(code) /\ k = Len(code')
            /\ code'[k].op \in InlineOps /\ code'[k].bb = bb
         \/ /\ ~executeCommit /\ k = Len(code) + Len(reconVector) + 1
            /\ code'[k].op = "destroy" /\ code'[k].cid = currCid /\ code'[k].bb = bb
         \/ /\ ~executeCommit /\ k \in Len(code) + 1 .. Len(code) + Len(reconVector)
            /\ code'[k].op = "recon" /\ code'[k].cid = currCid /\ code'[k].bb = bb
            /\ code'[k].id = k - Len(code) - 1
            /\ code'[k].ty = reconVector[k - Len(code)].ty
            /\ code'[k].to = reconVector[k - Len(code)].at
<1>1. PICK n \in Nat, r \in Nat : n = Len(code) /\ r = Len(reconVector)
  BY LenProperties DEF MemberInv
<1>2. CASE k <= n
  BY <1>1, <1>2 DEF Commits, Extends, Old
<1>3. CASE k > n
  <2>1. PICK j \in Nat : j = k - n
    BY <1>3
  <2>2. j >= 1 /\ k = n + j /\ j \in 1 .. Len(code') - n
    BY <1>3, <2>1 DEF Commits, Extends
  <2>3. CASE executeCommit
    BY <1>1, <1>3, <2>2, <2>3 DEF Commits, NewInline
  <2>4. CASE ~executeCommit
    <3>1. CASE j <= r
      <4>1. NewRecon(j)
        BY <1>1, <2>2, <2>4, <3>1 DEF Commits
      <4>2. k \in n + 1 .. n + r /\ k - n = j /\ j - 1 = k - n - 1
        BY <2>1, <2>2, <3>1
      <4> QED
        BY <1>1, <2>2, <2>4, <4>1, <4>2 DEF NewRecon
    <3>2. CASE j = r + 1
      <4>1. NewDestroy(j)
        BY <1>1, <2>4, <3>2 DEF Commits
      <4>2. k = n + r + 1
        BY <2>2, <3>2
      <4> QED
        BY <1>1, <2>2, <2>4, <4>1, <4>2 DEF NewDestroy, DestroyCode
    <3>3. CASE j > r + 1
      <4>1. j \in r + 2 .. Len(code') - n
        BY <2>2, <3>3 DEF Commits, Extends
      <4>2. NewInline(j)
        BY <1>1, <2>4, <4>1 DEF Commits
      <4> QED
        BY <1>1, <1>3, <2>2, <4>2 DEF NewInline
    <3> QED
      BY <3>1, <3>2, <3>3
  <2> QED
    BY <2>3, <2>4 DEF MemberInv
<1> QED
  BY <1>2, <1>3

LEMMA ScheduleCases ==
  ASSUME MemberInv, Schedules, NEW k \in 1 .. Len(code')
  PROVE  \/ Old(k)
         \/ /\ executeCommit /\ k = Len(code) + 1 /\ k < Len(code') /\ currCid' = k
            /\ code'[k].op = "make" /\ code'[k].cid = k /\ code'[k].bb = bb
         \/ /\ k > Len(code) /\ k = Len(code') /\ code'[k].op = "sched"
            /\ code'[k].cid = currCid' /\ code'[k].id = currId' - 1 /\ code'[k].bb = bb
<1>1. Len(code) \in Nat
  BY LenProperties DEF MemberInv
<1>2. CASE k <= Len(code)
  BY <1>1, <1>2 DEF Schedules, Extends, Old
<1>3. CASE k > Len(code) /\ executeCommit
  BY <1>1, <1>3 DEF Schedules
<1>4. CASE k > Len(code) /\ ~executeCommit
  BY <1>1, <1>4 DEF Schedules
<1> QED
  BY <1>1, <1>2, <1>3, <1>4 DEF MemberInv

LEMMA BranchCases ==
  ASSUME MemberInv, EmitsBranches, NEW k \in 1 .. Len(code')
  PROVE  Old(k) \/ (k > Len(code) /\ code'[k].op = "br")
<1>1. Len(code) \in Nat
  BY LenProperties DEF MemberInv
<1> QED
  BY <1>1 DEF EmitsBranches, Extends, Old

\* Every step commits, schedules or emits nothing but branches.
LEMMA Effects ==
  ASSUME StackInv, MemberInv, [Next]_cgVars
  PROVE  \/ Commits /\ UNCHANGED <<currCid, reconVector>>
         \/ Schedules
         \/ EmitsBranches
<1>1. ASSUME UNCHANGED <<code, currId, currCid, reconVector, executeCommit>>
      PROVE  EmitsBranches
  <2>1. Len(code) \in Nat
    BY LenProperties DEF MemberInv
  <2>2. Len(code) + 1 .. Len(code) = {} /\ Len(code) >= Len(code)
    BY <2>1
  <2>3. Extends
    BY <1>1, <2>1, <2>2 DEF Extends, MemberInv
  <2> QED
    BY <1>1, <2>2, <2>3 DEF EmitsBranches, MemberInv
<1>2. CASE UNCHANGED cgVars
  BY <1>1, <1>2 DEF cgVars
<1>3. CASE ScheduleStatement
  <2>1. CASE Fail
    BY <1>1, <2>1 DEF Fail
  <2>2. CASE ~Fail
    BY <1>3, <2>2, ScheduleEmits
  <2> QED
    BY <2>1, <2>2
<1>4. CASE VisitPlain \/ VisitDeclaration \/ VisitReturn \/ VisitFunction \/ VisitIf
  BY <1>4, InlineCommits DEF VisitPlain, VisitDeclaration, VisitReturn, VisitFunction, VisitIf
<1>5. CASE LeaveThen \/ LeaveElse \/ LeaveFunction \/ LeaveRoot
  BY <1>5, LeaveEmits
<1> QED
  BY <1>2, <1>3, <1>4, <1>5 DEF Next

LEMMA ContextCommits ==
  ASSUME MemberInv, ContextInv, Commits, UNCHANGED <<currCid, reconVector>>
  PROVE  ContextInv'
<1>1. PICK n \in Nat, r \in Nat : n = Len(code) /\ r = Len(reconVector)
  BY LenProperties DEF MemberInv
<1>2. /\ Len(code') \in Nat /\ Len(code') >= n
      /\ \A k \in 1 .. n : k \in 1 .. Len(code') /\ code'[k] = code[k]
  BY <1>1 DEF Commits, Extends
<1>3. ContextNamed'
  <2>1. SUFFICES ASSUME NEW k \in 1 .. Len(code'), code'[k].op \in GroupOps
                 PROVE  code'[k].cid \in Nat /\ code'[k].cid <= Len(code')
    BY DEF ContextNamed
  <2>2. CASE Old(k)
    BY <1>1, <1>2, <2>1, <2>2 DEF Old, ContextInv, ContextNamed
  <2>3. CASE code'[k].cid = currCid
    BY <1>1, <1>2, <2>3 DEF MemberInv
  <2> QED
    BY <2>1, <2>2, <2>3, CommitCases DEF GroupOps, InlineOps
<1>4. OpenContext'
  BY DEF OpenContext, Commits
<1>5. DestroyedOnce'
  <2>1. SUFFICES ASSUME NEW d \in 1 .. Len(code'), NEW e \in 1 .. Len(code'),
                        code'[d].op = "destroy", code'[e].op = "destroy",
                        code'[d].cid = code'[e].cid
                 PROVE  d = e
    BY DEF DestroyedOnce
  <2>2. \/ Old(d)
        \/ ~executeCommit /\ d = Len(code) + Len(reconVector) + 1 /\ code'[d].cid = currCid
    BY <2>1, CommitCases DEF InlineOps
  <2>3. \/ Old(e)
        \/ ~executeCommit /\ e = Len(code) + Len(reconVector) + 1 /\ code'[e].cid = currCid
    BY <2>1, CommitCases DEF InlineOps
  <2>4. CASE Old(d) /\ Old(e)
    BY <2>1, <2>4 DEF Old, ContextInv, DestroyedOnce
  <2>5. ASSUME NEW k \in 1 .. Len(code'), Old(k), code'[k].op = "destroy", ~executeCommit
        PROVE  code'[k].cid # currCid
    BY <2>5 DEF Old, ContextInv, OpenContext
  <2> QED
    BY <2>1, <2>2, <2>3, <2>4, <2>5
<1>6. JoinedInv'
  <2>1. SUFFICES ASSUME NEW d \in 1 .. Len(code'), NEW j \in 1 .. Len(code'),
                        code'[d].op = "destroy", code'[j].op = "sched", j < d,
                        code'[j].cid = code'[d].cid
                 PROVE  \E q \in 1 .. Len(code') : JoinedBy(j, d, q)'
    BY DEF JoinedInv
  <2>2. Old(j)
    BY <2>1, CommitCases DEF InlineOps
  <2>3. CASE Old(d)
    <3>1. PICK q \in 1 .. n : JoinedBy(j, d, q)
      BY <1>1, <2>1, <2>2, <2>3 DEF Old, ContextInv, JoinedInv
    <3>2. /\ q \in 1 .. Len(code') /\ code'[q] = code[q] /\ code[q].op = "recon"
          /\ j < q /\ q < d /\ code[q].cid = code[j].cid /\ code[q].id = code[j].id
      BY <1>1, <1>2, <3>1 DEF JoinedBy, Is
    <3>3. ASSUME NEW p \in 1 .. Len(code'), code'[p].op = "recon", p # q,
                 code'[p].cid = code'[q].cid
          PROVE  code'[p].id # code'[q].id
      <4>1. CASE Old(p)
        BY <1>1, <3>1, <3>2, <3>3, <4>1 DEF JoinedBy, Old
      <4>2. CASE ~executeCommit /\ code'[p].cid = currCid
        BY <1>1, <3>2, <3>3, <4>2 DEF ContextInv, OpenContext
      <4> QED
        BY <3>3, <4>1, <4>2, CommitCases DEF InlineOps
    <3>4. JoinedBy(j, d, q)'
      BY <1>1, <2>2, <3>2, <3>3 DEF JoinedBy, Is, Old
    <3> QED
      BY <3>2, <3>4
  <2>4. CASE ~Old(d)
    <3>1. ~executeCommit /\ d = n + r + 1 /\ code'[d].cid = currCid
      BY <1>1, <2>1, <2>4, CommitCases DEF InlineOps
    <3>2. /\ code[j].id \in Nat /\ code[j].id < currId /\ currId \in Nat /\ currId <= r
          /\ j \in 1 .. n /\ code'[j] = code[j] /\ code[j].cid = currCid
      BY <1>1, <2>1, <2>2, <3>1 DEF Old, ContextInv, OpenContext, MemberInv
    <3>3. PICK i \in 1 .. r : i = code[j].id + 1
      <4>1. code[j].id + 1 \in 1 .. r
        BY <3>2
      <4> QED
        BY <4>1
    <3>4. NewRecon(i)
      BY <1>1, <3>1 DEF Commits
    <3>5. PICK q \in 1 .. Len(code') : q = n + i
      <4>1. n + i \in 1 .. Len(code')
        BY <1>2, <3>1, <3>3
      <4> QED
        BY <4>1
    <3>6. /\ code'[q].op = "recon" /\ code'[q].cid = currCid /\ code'[q].id = i - 1
      BY <1>1, <3>4, <3>5 DEF NewRecon
    <3>7. j < q /\ q < d /\ code'[q].id = code'[j].id
      <4>1. j < q /\ q < d
        BY <3>1, <3>2, <3>5
      <4>2. PICK x \in Nat : x = code[j].id /\ i = x + 1
        BY <3>2, <3>3
      <4>3. i - 1 = x
        BY <4>2
      <4> QED
        BY <3>2, <3>6, <4>1, <4>2, <4>3
    <3>8. ASSUME NEW p \in 1 .. Len(code'), code'[p].op = "recon", p # q,
                 code'[p].cid = code'[q].cid
          PROVE  code'[p].id # code'[q].id
      <4>1. CASE Old(p)
        BY <1>1, <3>1, <3>6, <3>8, <4>1 DEF ContextInv, OpenContext, Old
      <4>2. CASE p \in n + 1 .. n + r /\ code'[p].id = p - n - 1
        BY <3>5, <3>6, <3>8, <4>2
      <4> QED
        BY <1>1, <3>8, <4>1, <4>2, CommitCases DEF InlineOps
    <3>9. JoinedBy(j, d, q)'
      BY <3>2, <3>6, <3>7, <3>8 DEF JoinedBy, Is
    <3> QED
      BY <3>9
  <2> QED
    BY <2>3, <2>4
<1> QED
  BY <1>3, <1>4, <1>5, <1>6 DEF ContextInv

LEMMA Predecessor ==
  ASSUME NEW x \in Nat, x >= 1
  PROVE  x - 1 \in Nat /\ x - 1 < x
OBVIOUS

LEMMA ContextSchedules ==
  ASSUME MemberInv, ContextInv, Schedules
  PROVE  ContextInv'
<1>1. PICK n \in Nat : n = Len(code)
  BY LenProperties DEF MemberInv
<1>2. /\ Len(code') \in Nat /\ Len(code') > n /\ currCid' \in Nat /\ currCid' <= Len(code')
      /\ currId' \in Nat /\ currId' >= 1
      /\ \A k \in 1 .. n : k \in 1 .. Len(code') /\ code'[k] = code[k]
  BY <1>1 DEF Schedules, Extends, MemberInv
<1>3. ContextNamed'
  <2>1. SUFFICES ASSUME NEW k \in 1 .. Len(code'), code'[k].op \in GroupOps
                 PROVE  code'[k].cid \in Nat /\ code'[k].cid <= Len(code')
    BY DEF ContextNamed
  <2>2. CASE Old(k)
    BY <1>1, <1>2, <2>1, <2>2 DEF Old, ContextInv, ContextNamed
  <2>3. CASE code'[k].cid = currCid'
    BY <1>2, <2>3
  <2> QED
    BY <2>1, <2>2, <2>3, ScheduleCases
<1>4. OpenContext'
  <2>1. SUFFICES ASSUME NEW k \in 1 .. Len(code')
                 PROVE  /\ code'[k].op \in {"recon", "destroy"} => code'[k].cid # currCid'
                        /\ code'[k].op = "sched" /\ code'[k].cid = currCid' =>
                             code'[k].id \in Nat /\ code'[k].id < currId'
    BY DEF OpenContext
  <2>2. CASE Old(k)
    <3>1. CASE executeCommit
      <4>1. currCid' = n + 1
        BY <1>1, <3>1 DEF Schedules
      <4>2. code[k].op \in GroupOps => code'[k].cid # currCid'
        BY <1>1, <2>2, <4>1 DEF Old, ContextInv, ContextNamed
      <4> QED
        BY <2>2, <4>2 DEF Old, GroupOps
    <3>2. CASE ~executeCommit
      <4>1. currCid' = currCid /\ currId' = currId + 1 /\ currId \in Nat
        BY <3>2 DEF Schedules, MemberInv
      <4>2. /\ code[k].op \in {"recon", "destroy"} => code[k].cid # currCid
            /\ code[k].op = "sched" /\ code[k].cid = currCid =>
                 code[k].id \in Nat /\ code[k].id < currId
        BY <2>2, <3>2 DEF Old, ContextInv, OpenContext
      <4> QED
        BY <2>2, <4>1, <4>2 DEF Old
    <3> QED
      BY <3>1, <3>2 DEF MemberInv
  <2>3. CASE code'[k].op = "make"
    BY <2>3
  <2>4. CASE code'[k].op = "sched" /\ code'[k].id = currId' - 1
    <3>1. PICK x \in Nat : x = currId' /\ x >= 1
      BY <1>2
    <3>2. x - 1 \in Nat /\ x - 1 < x
      BY <3>1, Predecessor, Zenon
    <3> QED
      BY <2>4, <3>1, <3>2, Zenon
  <2> QED
    BY <2>2, <2>3, <2>4, ScheduleCases
<1>5. DestroyedOnce'
  <2>1. SUFFICES ASSUME NEW d \in 1 .. Len(code'), NEW e \in 1 .. Len(code'),
                        code'[d].op = "destroy", code'[e].op = "destroy",
                        code'[d].cid = code'[e].cid
                 PROVE  d = e
    BY DEF DestroyedOnce
  <2>2. Old(d) /\ Old(e)
    BY <2>1, ScheduleCases
  <2> QED
    BY <2>1, <2>2 DEF Old, ContextInv, DestroyedOnce
<1>6. JoinedInv'
  <2>1. SUFFICES ASSUME NEW d \in 1 .. Len(code'), NEW j \in 1 .. Len(code'),
                        code'[d].op = "destroy", code'[j].op = "sched", j < d,
                        code'[j].cid = code'[d].cid
                 PROVE  \E q \in 1 .. Len(code') : JoinedBy(j, d, q)'
    BY DEF JoinedInv
  <2>2. Old(d)
    BY <2>1, ScheduleCases
  <2>3. Old(j)
    BY <1>1, <1>2, <2>1, <2>2 DEF Old
  <2>4. PICK q \in 1 .. n : JoinedBy(j, d, q)
    BY <1>1, <2>1, <2>2, <2>3 DEF Old, ContextInv, JoinedInv
  <2>5. /\ q \in 1 .. Len(code') /\ code'[q] = code[q] /\ code[q].op = "recon"
        /\ j < q /\ q < d /\ code[q].cid = code[j].cid /\ code[q].id = code[j].id
    BY <1>1, <1>2, <2>4 DEF JoinedBy, Is
  <2>6. ASSUME NEW p \in 1 .. Len(code'), code'[p].op = "recon", p # q,
               code'[p].cid = code'[q].cid
        PROVE  code'[p].id # code'[q].id
    <3>1. Old(p)
      BY <2>6, ScheduleCases
    <3> QED
      BY <1>1, <2>4, <2>5, <2>6, <3>1 DEF JoinedBy, Old
  <2>7. JoinedBy(j, d, q)'
    BY <2>3, <2>5, <2>6 DEF JoinedBy, Is, Old
  <2> QED
    BY <2>5, <2>7
<1> QED
  BY <1>3, <1>4, <1>5, <1>6 DEF ContextInv

LEMMA ContextBranches ==
  ASSUME MemberInv, ContextInv, EmitsBranches
  PROVE  ContextInv'
<1>1. PICK n \in Nat : n = Len(code)
  BY LenProperties DEF MemberInv
<1>2. /\ Len(code') \in Nat /\ Len(code') >= n
      /\ \A k \in 1 .. n : k \in 1 .. Len(code') /\ code'[k] = code[k]
  BY <1>1 DEF EmitsBranches, Extends
<1>3. /\ currCid' = currCid /\ currId' = currId /\ (~executeCommit' => ~executeCommit)
  BY DEF EmitsBranches
<1>4. \A k \in 1 .. Len(code') :
        Old(k) \/ code'[k].op = "br"
  BY BranchCases
<1>5. ContextNamed'
  BY <1>1, <1>2, <1>4 DEF ContextNamed, ContextInv, Old, GroupOps
<1>6. OpenContext'
  BY <1>3, <1>4 DEF OpenContext, ContextInv, Old
<1>7. DestroyedOnce'
  BY <1>4 DEF DestroyedOnce, ContextInv, Old
<1>8. JoinedInv'
  <2>1. SUFFICES ASSUME NEW d \in 1 .. Len(code'), NEW j \in 1 .. Len(code'),
                        code'[d].op = "destroy", code'[j].op = "sched", j < d,
                        code'[j].cid = code'[d].cid
                 PROVE  \E q \in 1 .. Len(code') : JoinedBy(j, d, q)'
    BY DEF JoinedInv
  <2>2. Old(d) /\ Old(j)
    BY <1>4, <2>1
  <2>3. PICK q \in 1 .. n : JoinedBy(j, d, q)
    BY <1>1, <2>1, <2>2 DEF Old, ContextInv, JoinedInv
  <2>4. /\ q \in 1 .. Len(code') /\ code'[q] = code[q] /\ code[q].op = "recon"
        /\ j < q /\ q < d /\ code[q].cid = code[j].cid /\ code[q].id = code[j].id
    BY <1>1, <1>2, <2>3 DEF JoinedBy, Is
  <2>5. ASSUME NEW p \in 1 .. Len(code'), code'[p].op = "recon", p # q,
               code'[p].cid = code'[q].cid
        PROVE  code'[p].id # code'[q].id
    <3>1. Old(p)
      BY <1>4, <2>5
    <3> QED
      BY <1>1, <2>3, <2>4, <2>5, <3>1 DEF JoinedBy, Old
  <2>6. JoinedBy(j, d, q)'
    BY <2>2, <2>4, <2>5 DEF JoinedBy, Is, Old
  <2> QED
    BY <2>4, <2>6
<1> QED
  BY <1>5, <1>6, <1>7, <1>8 DEF ContextInv

LEMMA AtPositions ==
  ASSUME MemberInv, NEW op
  PROVE  At(op) = {k \in 1 .. Len(code) : code[k].op = op}
<1>1. DOMAIN code = 1 .. Len(code)
  BY LenProperties DEF MemberInv
<1> QED
  BY <1>1 DEF At

LEMMA ContextInit ==
  ASSUME Init
  PROVE  ContextInv
<1>1. Len(code) = 0
  BY EmptySeq DEF Init
<1>2. 1 .. Len(code) = {}
  BY <1>1
<1> QED
  BY <1>2 DEF ContextInv, ContextNamed, OpenContext, DestroyedOnce, JoinedInv

LEMMA ContextStep ==
  ASSUME StackInv, MemberInv, ContextInv, [Next]_cgVars
  PROVE  ContextInv'
BY Effects, ContextCommits, ContextSchedules, ContextBranches

-----------------------------------------------------------------------------

\* In a closed program no group is open where a block ends.
LEMMA ClosedAtEnd ==
  ASSUME StackInv, MemberInv, ClosedProgram, OpenIsPrevious, stack # << >>,
         Top.i > Len(Block)
  PROVE  executeCommit = TRUE
<1>1. SUFFICES ASSUME ~executeCommit PROVE FALSE
  BY DEF MemberInv
<1>2. /\ Top.blk \in DOMAIN prog /\ Top.i \in Nat /\ Len(Block) \in Nat
      /\ Top.i <= Len(Block) + 1
  BY TopFrame
<1>3. Top.i > 1 /\ ~commitVector(Block, Top.i - 1)
  BY <1>1 DEF OpenIsPrevious
<1>4. Top.i - 1 = Len(Block) /\ Len(Block) # 0
  BY <1>2, <1>3
<1>5. Block # << >>
  BY <1>4, EmptySeq
<1>6. LeavesOpen(prog[Top.blk])
  BY <1>3, <1>4, <1>5 DEF LeavesOpen, Block
<1> QED
  BY <1>2, <1>6 DEF ClosedProgram

LEMMA ClosedCommits ==
  ASSUME MemberInv, MadeClosed, InlineClosed, Commits, UNCHANGED <<currCid, reconVector>>
  PROVE  MadeClosed' /\ OpenIsPrevious' /\ InlineClosed'
<1>1. PICK n \in Nat, r \in Nat : n = Len(code) /\ r = Len(reconVector)
  BY LenProperties DEF MemberInv
<1>2. /\ Len(code') \in Nat /\ Len(code') >= n
      /\ \A k \in 1 .. n : k \in 1 .. Len(code') /\ code'[k] = code[k]
  BY <1>1 DEF Commits, Extends
<1>3. ASSUME NEW m \in 1 .. n, NEW k \in Nat, DestroyedBefore(m, k)
      PROVE  DestroyedBefore(m, k)'
  BY <1>1, <1>2, <1>3 DEF DestroyedBefore
<1>4. ASSUME NEW m \in 1 .. n, ~executeCommit, currCid = code[m].cid, NEW k \in Nat,
             k > n + r + 1
      PROVE  DestroyedBefore(m, k)'
  <2>1. /\ Len(code') >= n + r + 1
        /\ NewDestroy(r + 1)
    BY <1>1, <1>4 DEF Commits
  <2>2. n + (r + 1) = n + r + 1 /\ n + r + 1 \in 1 .. Len(code') /\ m < n + r + 1
    BY <1>2, <2>1
  <2>3. code'[n + r + 1].op = "destroy" /\ code'[n + r + 1].cid = code'[m].cid
    BY <1>1, <1>2, <1>4, <2>1, <2>2 DEF NewDestroy, DestroyCode
  <2> QED
    BY <1>4, <2>2, <2>3 DEF DestroyedBefore
<1>5. MadeClosed'
  <2>1. SUFFICES ASSUME NEW m \in 1 .. Len(code'), code'[m].op = "make"
                 PROVE  DestroyedBefore(m, Len(code) + 1)'
    BY DEF MadeClosed
  <2>2. Old(m)
    BY <2>1, CommitCases DEF InlineOps
  <2>3. PICK k \in Nat : k = Len(code') + 1
    BY <1>2
  <2>4. CASE DestroyedBefore(m, Len(code) + 1)
    <3>1. DestroyedBefore(m, n + 1)'
      BY <1>1, <1>3, <2>2, <2>4 DEF Old
    <3>2. \A d : d < n + 1 /\ d \in 1 .. Len(code') => d < k
      BY <1>2, <2>3
    <3>3. DestroyedBefore(m, k)'
      BY <3>1, <3>2 DEF DestroyedBefore
    <3> QED
      BY <2>3, <3>3 DEF DestroyedBefore
  <2>5. CASE ~executeCommit /\ currCid = code[m].cid
    <3>1. k > n + r + 1
      BY <1>1, <2>3, <2>5 DEF Commits
    <3>2. DestroyedBefore(m, k)'
      BY <1>1, <1>4, <2>2, <2>5, <3>1 DEF Old
    <3> QED
      BY <2>3, <3>2 DEF DestroyedBefore
  <2> QED
    BY <2>1, <2>2, <2>4, <2>5 DEF MadeClosed, Old
<1>6. OpenIsPrevious'
  BY DEF OpenIsPrevious, Commits
<1>7. InlineClosed'
  <2>1. SUFFICES ASSUME NEW k \in 1 .. Len(code'), NEW m \in 1 .. Len(code'),
                        code'[k].op \in {"stmt", "ret", "condbr"},
                        code'[m].op = "make", m < k
                 PROVE  DestroyedBefore(m, k)'
    BY DEF InlineClosed
  <2>2. Old(m)
    BY <2>1, CommitCases DEF InlineOps
  <2>3. CASE Old(k)
    <3>1. DestroyedBefore(m, k)
      BY <2>1, <2>2, <2>3 DEF InlineClosed, Old
    <3> QED
      BY <1>1, <1>3, <2>2, <3>1 DEF Old
  <2>4. CASE ~Old(k)
    <3>1. k > n /\ k = Len(code')
      BY <1>1, <2>1, <2>4, CommitCases
    <3>2. CASE DestroyedBefore(m, Len(code) + 1)
      <4>1. DestroyedBefore(m, n + 1)'
        BY <1>1, <1>3, <2>2, <3>2 DEF Old
      <4>2. \A d : d < n + 1 /\ d \in 1 .. Len(code') => d < k
        BY <1>2, <3>1
      <4> QED
        BY <4>1, <4>2 DEF DestroyedBefore
    <3>3. CASE ~executeCommit /\ currCid = code[m].cid
      <4>1. Len(code') >= n + r + 1 /\ code'[n + (r + 1)].op = "destroy"
        BY <1>1, <3>3 DEF Commits, NewDestroy, DestroyCode
      <4>2. n + (r + 1) = n + r + 1
        OBVIOUS
      <4>3. k > n + r + 1
        BY <2>1, <3>1, <4>1, <4>2
      <4> QED
        BY <1>1, <1>4, <2>2, <3>3, <4>3 DEF Old
    <3> QED
      BY <2>1, <2>2, <3>2, <3>3 DEF MadeClosed, Old
  <2> QED
    BY <2>3, <2>4
<1> QED
  BY <1>5, <1>6, <1>7

LEMMA ClosedOthers ==
  ASSUME MemberInv, MadeClosed, InlineClosed,
         \/ Schedules
         \/ EmitsBranches /\ executeCommit' = executeCommit
  PROVE  MadeClosed' /\ InlineClosed'
<1>1. PICK n \in Nat : n = Len(code)
  BY LenProperties DEF MemberInv
<1>2. /\ Len(code') \in Nat /\ Len(code') >= n
      /\ \A k \in 1 .. n : k \in 1 .. Len(code') /\ code'[k] = code[k]
  BY <1>1 DEF Schedules, EmitsBranches, Extends
<1>3. ASSUME NEW m \in 1 .. n, NEW k, DestroyedBefore(m, k)
      PROVE  DestroyedBefore(m, k)'
  BY <1>1, <1>2, <1>3 DEF DestroyedBefore
<1>4. ASSUME NEW m \in 1 .. Len(code'), code'[m].op = "make"
      PROVE  DestroyedBefore(m, Len(code) + 1)' \/ (~executeCommit' /\ currCid' = code'[m].cid)
  <2>1. CASE Old(m)
    <3>1. CASE DestroyedBefore(m, Len(code) + 1)
      <4>1. DestroyedBefore(m, n + 1)'
        BY <1>1, <1>3, <2>1, <3>1 DEF Old
      <4>2. \A d : d < n + 1 /\ d \in 1 .. Len(code') => d < Len(code') + 1
        BY <1>2
      <4> QED
        BY <4>1, <4>2 DEF DestroyedBefore
    <3>2. CASE ~executeCommit /\ currCid = code[m].cid
      BY <2>1, <3>2 DEF Old, Schedules, EmitsBranches
    <3> QED
      BY <1>4, <2>1, <3>1, <3>2 DEF Old, MadeClosed
  <2>2. CASE ~Old(m)
    BY <1>4, <2>2, ScheduleCases, BranchCases DEF Schedules
  <2> QED
    BY <2>1, <2>2
<1>5. ASSUME NEW k \in 1 .. Len(code'), NEW m \in 1 .. Len(code'),
             code'[k].op \in {"stmt", "ret", "condbr"}, code'[m].op = "make", m < k
      PROVE  DestroyedBefore(m, k)'
  <2>1. Old(k)
    BY <1>5, ScheduleCases, BranchCases
  <2>2. Old(m)
    BY <1>1, <1>2, <1>5, <2>1 DEF Old
  <2>3. DestroyedBefore(m, k)
    BY <1>5, <2>1, <2>2 DEF InlineClosed, Old
  <2> QED
    BY <1>1, <1>3, <2>2, <2>3 DEF Old
<1> QED
  BY <1>4, <1>5 DEF MadeClosed, InlineClosed

LEMMA ProgramKept ==
  ASSUME [Next]_cgVars
  PROVE  prog' = prog
BY DEF Next, cgVars, ScheduleStatement, Fail, VisitPlain, VisitDeclaration, VisitReturn,
       VisitFunction, VisitIf, LeaveThen, LeaveElse, LeaveFunction, LeaveRoot

LEMMA OpenAdvances ==
  ASSUME StackInv, stack # << >>, stack' = Advance(stack), prog' = prog,
         ~commitVector(Block, Top.i)
  PROVE  OpenIsPrevious'
<1>1. Len(stack) \in Nat /\ Top.i \in Nat /\ Top.i >= 1 /\ Top \in Frames(DOMAIN prog)
  BY TopFrame
<1>2. Len(stack') = Len(stack) /\ stack'[Len(stack)] = [Top EXCEPT !.i = @ + 1]
  BY AdvanceFrames DEF StackInv, Top
<1>3. stack'[Len(stack')].i = Top.i + 1 /\ stack'[Len(stack')].blk = Top.blk
  BY <1>1, <1>2 DEF Frames
<1>4. Top.i + 1 > 1 /\ (Top.i + 1) - 1 = Top.i
  BY <1>1
<1>5. ~commitVector(prog'[stack'[Len(stack')].blk], stack'[Len(stack')].i - 1)
  BY <1>3, <1>4 DEF Block
<1> QED
  BY <1>3, <1>4, <1>5 DEF OpenIsPrevious, Top, Block

LEMMA OpenGroupStep ==
  ASSUME StackInv, MemberInv, OpenGroupInv, [Next]_cgVars
  PROVE  OpenGroupInv'
<1>1. SUFFICES ASSUME ClosedProgram
               PROVE  MadeClosed' /\ OpenIsPrevious' /\ InlineClosed'
  BY ProgramKept DEF OpenGroupInv, ClosedProgram
<1>2. MadeClosed /\ OpenIsPrevious /\ InlineClosed
  BY <1>1 DEF OpenGroupInv
<1>3. ASSUME UNCHANGED <<prog, stack, executeCommit, currCid, code>>
      PROVE  MadeClosed' /\ OpenIsPrevious' /\ InlineClosed'
  <2>1. OpenIsPrevious'
    BY <1>2, <1>3 DEF OpenIsPrevious, Top, Block
  <2> QED
    BY <1>2, <1>3, <2>1 DEF MadeClosed, InlineClosed, DestroyedBefore
<1>4. CASE UNCHANGED cgVars
  BY <1>3, <1>4 DEF cgVars
<1>5. CASE ScheduleStatement
  <2>1. CASE Fail
    BY <1>3, <2>1 DEF Fail
  <2>2. CASE ~Fail
    <3>1. Schedules /\ stack' = Advance(stack) /\ prog' = prog
      BY <1>5, <2>2, ScheduleEmits
    <3>2. stack # << >> /\ ~commitVector(Block, Top.i)
      BY <1>5 DEF ScheduleStatement, Visiting
    <3> QED
      BY <1>2, <3>1, <3>2, OpenAdvances, ClosedOthers
  <2> QED
    BY <2>1, <2>2
<1>6. CASE VisitPlain \/ VisitDeclaration \/ VisitReturn \/ VisitFunction \/ VisitIf
  <2>1. Commits /\ UNCHANGED <<currCid, reconVector>>
    BY <1>6, InlineCommits DEF VisitPlain, VisitDeclaration, VisitReturn, VisitFunction, VisitIf
  <2> QED
    BY <1>2, <2>1, ClosedCommits
<1>7. CASE LeaveThen \/ LeaveElse \/ LeaveFunction \/ LeaveRoot
  <2>1. stack # << >> /\ Top.i > Len(Block)
    BY <1>7 DEF LeaveThen, LeaveElse, LeaveFunction, LeaveRoot, AtEnd, Visiting
  <2>2. executeCommit = TRUE
    BY <1>1, <1>2, <2>1, ClosedAtEnd
  <2>3. EmitsBranches
    BY <1>7, LeaveEmits
  <2>4. executeCommit' = TRUE
    BY <2>2, <2>3 DEF EmitsBranches
  <2>5. OpenIsPrevious'
    BY <2>4 DEF OpenIsPrevious
  <2> QED
    BY <1>2, <2>2, <2>3, <2>4, <2>5, ClosedOthers
<1> QED
  BY <1>4, <1>5, <1>6, <1>7 DEF Next

LEMMA OpenGroupInit ==
  ASSUME Init
  PROVE  OpenGroupInv
<1>1. Len(code) = 0
  BY EmptySeq DEF Init
<1>2. 1 .. Len(code) = {}
  BY <1>1
<1>3. executeCommit = TRUE
  BY DEF Init
<1> QED
  BY <1>2, <1>3 DEF OpenGroupInv, MadeClosed, OpenIsPrevious, InlineClosed

LEMMA InlineAfterCommit ==
  ASSUME MemberInv, OpenGroupInv
  PROVE  CommittedBeforeInline
<1>1. SUFFICES ASSUME ClosedProgram,
                      NEW k \in At("stmt") \cup At("ret") \cup At("condbr"),
                      NEW j \in At("make"), j < k
               PROVE  \E d \in At("destroy") : j < d /\ d < k /\ code[d].cid = code[j].cid
  BY DEF CommittedBeforeInline, ClosedProgram
<1>2. DestroyedBefore(j, k)
  BY <1>1, AtPositions DEF OpenGroupInv, InlineClosed
<1> QED
  BY <1>2, AtPositions DEF DestroyedBefore

(***************************************************************************)
(* For every program whose blocks close their groups, however they nest:   *)
(* when visitBlock compiles a statement in place, a return or the branch   *)
(* of a conditional, every context made before has been destroyed before,  *)
(* so the statement sees what the groups before it computed.               *)
(***************************************************************************)
THEOREM InlineSeesGroups == Spec => []CommittedBeforeInline
<1>1. Init => StackInv /\ MemberInv /\ OpenGroupInv
  BY StackInit, MemberInit, OpenGroupInit
<1>2. StackInv /\ MemberInv /\ OpenGroupInv /\ [Next]_cgVars =>
        StackInv' /\ MemberInv' /\ OpenGroupInv'
  BY StackStep, MemberStep, OpenGroupStep
<1>3. MemberInv /\ OpenGroupInv => CommittedBeforeInline
  BY InlineAfterCommit
<1> QED
  BY <1>1, <1>2, <1>3, PTL DEF Spec

-----------------------------------------------------------------------------

(***************************************************************************)
(* reconVector and currId are members of the visitor that no commit        *)
(* resets, so that the code of a second group is wrong: a recon call is    *)
(* right for certain only in a program with one group.                     *)
(***************************************************************************)
OneGroup == \A a, b \in 1 .. Len(code) : code[a].op = "make" /\ code[b].op = "make" => a = b

\* Element k of reconVector is what the visitor noted of instruction j of the open context.
Noted(j, k) ==
  /\ Is(j, "sched") /\ code[j].cid = currCid /\ code[j].id = k - 1
  /\ code[j].ty = reconVector[k].ty /\ code[j].at = reconVector[k].at

VectorNoted == \A k \in 1 .. Len(reconVector) : \E j \in 1 .. Len(code) : Noted(j, k)

NoneYet ==
  (\A m \in 1 .. Len(code) : code[m].op # "make") => executeCommit /\ Len(reconVector) = 0

ReconMatched ==
  \A r \in 1 .. Len(code) : code[r].op = "recon" =>
    \E j \in 1 .. Len(code) :
      /\ code[j].op = "sched" /\ j < r
      /\ code[j].cid = code[r].cid /\ code[j].id = code[r].id
      /\ code[j].ty = code[r].ty /\ code[j].at = code[r].to

OneGroupInv ==
  OneGroup =>
    /\ VectorNoted /\ NoneYet /\ ReconMatched
    /\ ~executeCommit => currId = Len(reconVector)

LEMMA OneGroupBefore ==
  ASSUME MemberInv, Extends, OneGroup'
  PROVE  OneGroup
<1>1. Len(code) \in Nat
  BY LenProperties DEF MemberInv
<1> QED
  BY <1>1 DEF OneGroup, Extends

LEMMA MatchesStay ==
  ASSUME MemberInv, Extends, ReconMatched, NEW r \in 1 .. Len(code'), code'[r].op = "recon",
         Old(r)
  PROVE  \E j \in 1 .. Len(code') :
           /\ code'[j].op = "sched" /\ j < r
           /\ code'[j].cid = code'[r].cid /\ code'[j].id = code'[r].id
           /\ code'[j].ty = code'[r].ty /\ code'[j].at = code'[r].to
<1>1. Len(code) \in Nat
  BY LenProperties DEF MemberInv
<1>2. PICK j \in 1 .. Len(code) :
        /\ code[j].op = "sched" /\ j < r
        /\ code[j].cid = code[r].cid /\ code[j].id = code[r].id
        /\ code[j].ty = code[r].ty /\ code[j].at = code[r].to
  BY DEF ReconMatched, Old
<1>3. j \in 1 .. Len(code') /\ code'[j] = code[j]
  BY <1>1 DEF Extends
<1> QED
  BY <1>2, <1>3 DEF Old

LEMMA NotesStay ==
  ASSUME MemberInv, Extends, VectorNoted, currCid' = currCid, NEW k \in 1 .. Len(reconVector),
         reconVector'[k] = reconVector[k]
  PROVE  \E j \in 1 .. Len(code') : Noted(j, k)'
<1>1. Len(code) \in Nat
  BY LenProperties DEF MemberInv
<1>2. PICK j \in 1 .. Len(code) : Noted(j, k)
  BY DEF VectorNoted
<1>3. j \in 1 .. Len(code') /\ code'[j] = code[j]
  BY <1>1 DEF Extends
<1> QED
  BY <1>2, <1>3 DEF Noted, Is

LEMMA OneGroupCommits ==
  ASSUME MemberInv, OneGroupInv, Commits, UNCHANGED <<currCid, reconVector>>, OneGroup'
  PROVE  VectorNoted' /\ NoneYet' /\ ReconMatched'
<1>1. /\ Extends /\ executeCommit' = TRUE
  BY DEF Commits
<1>2. VectorNoted /\ NoneYet /\ ReconMatched
  BY <1>1, OneGroupBefore DEF OneGroupInv
<1>3. PICK n \in Nat, z \in Nat : n = Len(code) /\ z = Len(reconVector)
  BY LenProperties DEF MemberInv
<1>4. \A m \in 1 .. n : m \in 1 .. Len(code') /\ code'[m] = code[m]
  BY <1>1, <1>3 DEF Extends
<1>5. VectorNoted'
  BY <1>1, <1>2, NotesStay DEF VectorNoted
<1>6. NoneYet'
  BY <1>1, <1>2, <1>3, <1>4 DEF NoneYet
<1>7. ReconMatched'
  <2>1. SUFFICES ASSUME NEW r \in 1 .. Len(code'), code'[r].op = "recon"
                 PROVE  \E j \in 1 .. Len(code') :
                          /\ code'[j].op = "sched" /\ j < r
                          /\ code'[j].cid = code'[r].cid /\ code'[j].id = code'[r].id
                          /\ code'[j].ty = code'[r].ty /\ code'[j].at = code'[r].to
    BY DEF ReconMatched
  <2>2. CASE Old(r)
    BY <1>1, <1>2, <2>1, <2>2, MatchesStay
  <2>3. CASE ~Old(r)
    <3>1. /\ r \in n + 1 .. n + z /\ code'[r].cid = currCid
          /\ code'[r].id = r - n - 1 /\ code'[r].ty = reconVector[r - n].ty
          /\ code'[r].to = reconVector[r - n].at
      BY <1>3, <2>1, <2>3, CommitCases DEF InlineOps
    <3>2. PICK k \in 1 .. z : k = r - n
      <4>1. r - n \in 1 .. z
        BY <3>1
      <4> QED
        BY <4>1
    <3>3. PICK j \in 1 .. n : Noted(j, k)
      BY <1>2, <1>3 DEF VectorNoted
    <3>4. j < r /\ j \in 1 .. Len(code') /\ code'[j] = code[j]
      BY <1>4, <3>1
    <3>5. code'[r].id = k - 1
      BY <3>1, <3>2
    <3> QED
      BY <3>1, <3>2, <3>3, <3>4, <3>5 DEF Noted, Is
  <2> QED
    BY <2>2, <2>3
<1> QED
  BY <1>5, <1>6, <1>7

LEMMA OneGroupBranches ==
  ASSUME MemberInv, OneGroupInv, EmitsBranches, OneGroup'
  PROVE  VectorNoted' /\ NoneYet' /\ ReconMatched'
<1>1. Extends /\ UNCHANGED <<currCid, reconVector>> /\ (executeCommit => executeCommit')
  BY DEF EmitsBranches
<1>2. VectorNoted /\ NoneYet /\ ReconMatched
  BY <1>1, OneGroupBefore DEF OneGroupInv
<1>3. \A m \in 1 .. Len(code) : m \in 1 .. Len(code') /\ code'[m] = code[m]
  <2>1. Len(code) \in Nat
    BY LenProperties DEF MemberInv
  <2> QED
    BY <1>1, <2>1 DEF Extends
<1>4. VectorNoted'
  BY <1>1, <1>2, NotesStay DEF VectorNoted
<1>5. NoneYet'
  BY <1>1, <1>2, <1>3 DEF NoneYet
<1>6. ReconMatched'
  <2>1. ASSUME NEW r \in 1 .. Len(code'), code'[r].op = "recon" PROVE Old(r)
    BY <2>1, BranchCases
  <2> QED
    BY <1>1, <1>2, <2>1, MatchesStay DEF ReconMatched
<1> QED
  BY <1>4, <1>5, <1>6

LEMMA OneGroupSchedules ==
  ASSUME MemberInv, OneGroupInv, Schedules, reconVector' \in Seq(ReconType), OneGroup'
  PROVE  VectorNoted' /\ NoneYet' /\ ReconMatched' /\ currId' = Len(reconVector')
<1>1. Extends
  BY DEF Schedules
<1>2. /\ VectorNoted /\ NoneYet /\ ReconMatched
      /\ ~executeCommit => currId = Len(reconVector)
  BY <1>1, OneGroupBefore DEF OneGroupInv
<1>3. PICK n \in Nat, z \in Nat : n = Len(code) /\ z = Len(reconVector)
  BY LenProperties DEF MemberInv
<1>4. /\ Len(code') \in Nat /\ Len(code') > n
      /\ \A m \in 1 .. n : m \in 1 .. Len(code') /\ code'[m] = code[m]
  BY <1>1, <1>3 DEF Extends, Schedules
<1>5. executeCommit => z = 0
  <2>1. SUFFICES ASSUME executeCommit, NEW m \in 1 .. n, code[m].op = "make" PROVE FALSE
    BY <1>2, <1>3 DEF NoneYet
  <2>2. code'[n + 1].op = "make" /\ n + 1 \in 1 .. Len(code')
    BY <1>3, <1>4, <2>1 DEF Schedules
  <2>3. m = n + 1
    BY <1>4, <2>1, <2>2 DEF OneGroup
  <2> QED
    BY <2>3
<1>6. Len(reconVector') = z + 1 /\ currId' = z + 1
  <2>1. Len(reconVector') = z + 1
    BY <1>3 DEF Schedules
  <2>2. currId' = z + 1
    BY <1>2, <1>3, <1>5 DEF Schedules, MemberInv
  <2> QED
    BY <2>1, <2>2
<1>7. VectorNoted'
  <2>1. SUFFICES ASSUME NEW k \in 1 .. z + 1
                 PROVE  \E j \in 1 .. Len(code') : Noted(j, k)'
    BY <1>6 DEF VectorNoted
  <2>2. CASE k = z + 1
    <3>1. /\ Len(code') \in 1 .. Len(code') /\ (z + 1) - 1 = z
      BY <1>4
    <3>2. /\ code'[Len(code')].op = "sched" /\ code'[Len(code')].cid = currCid'
          /\ code'[Len(code')].id = currId' - 1
          /\ reconVector'[z + 1] = [ty |-> code'[Len(code')].ty, at |-> code'[Len(code')].at]
      BY <1>3 DEF Schedules
    <3>3. code'[Len(code')].id = k - 1
      BY <1>6, <2>2, <3>2
    <3>4. PICK j \in 1 .. Len(code') : j = Len(code')
      BY <3>1
    <3>5. Noted(j, k)'
      BY <2>2, <3>1, <3>2, <3>3, <3>4 DEF Noted, Is
    <3> QED
      BY <3>5
  <2>3. CASE k # z + 1
    <3>1. k \in 1 .. z /\ ~executeCommit
      BY <1>5, <2>3 DEF MemberInv
    <3>2. currCid' = currCid /\ reconVector'[k] = reconVector[k]
      BY <1>3, <3>1 DEF Schedules
    <3> QED
      BY <1>1, <1>2, <1>3, <3>1, <3>2, NotesStay
  <2> QED
    BY <2>2, <2>3
<1>8. NoneYet'
  <2>1. SUFFICES ASSUME \A m \in 1 .. Len(code') : code'[m].op # "make" PROVE FALSE
    BY DEF NoneYet
  <2>2. CASE executeCommit
    BY <1>3, <1>4, <2>1, <2>2 DEF Schedules
  <2>3. CASE ~executeCommit
    BY <1>2, <1>3, <1>4, <2>1, <2>3 DEF NoneYet
  <2> QED
    BY <2>2, <2>3 DEF MemberInv
<1>9. ReconMatched'
  <2>1. ASSUME NEW r \in 1 .. Len(code'), code'[r].op = "recon" PROVE Old(r)
    BY <2>1, ScheduleCases
  <2> QED
    BY <1>1, <1>2, <2>1, MatchesStay DEF ReconMatched
<1> QED
  BY <1>6, <1>7, <1>8, <1>9

LEMMA OneGroupStep ==
  ASSUME StackInv, MemberInv, OneGroupInv, [Next]_cgVars
  PROVE  OneGroupInv'
<1>1. SUFFICES ASSUME OneGroup'
               PROVE  /\ VectorNoted' /\ NoneYet' /\ ReconMatched'
                      /\ ~executeCommit' => currId' = Len(reconVector')
  BY DEF OneGroupInv
<1>2. CASE Commits /\ UNCHANGED <<currCid, reconVector>>
  BY <1>1, <1>2, OneGroupCommits DEF Commits
<1>3. CASE Schedules
  <2>1. reconVector' \in Seq(ReconType)
    <3>1. MemberInv' /\ prog' = prog
      BY MemberStep, ProgramKept
    <3> QED
      BY <3>1 DEF MemberInv, ReconType
  <2> QED
    BY <1>1, <1>3, <2>1, OneGroupSchedules
<1>4. CASE EmitsBranches
  <2>1. VectorNoted' /\ NoneYet' /\ ReconMatched'
    BY <1>1, <1>4, OneGroupBranches
  <2>2. OneGroup /\ UNCHANGED <<currId, reconVector>> /\ (executeCommit => executeCommit')
    BY <1>1, <1>4, OneGroupBefore DEF EmitsBranches
  <2>3. ~executeCommit' => currId' = Len(reconVector')
    BY <2>2 DEF OneGroupInv
  <2> QED
    BY <2>1, <2>3
<1> QED
  BY <1>2, <1>3, <1>4, Effects

LEMMA OneGroupInit ==
  ASSUME Init
  PROVE  OneGroupInv
<1>1. Len(code) = 0 /\ Len(reconVector) = 0 /\ executeCommit = TRUE
  BY EmptySeq DEF Init
<1>2. 1 .. Len(code) = {} /\ 1 .. Len(reconVector) = {}
  BY <1>1
<1> QED
  BY <1>1, <1>2 DEF OneGroupInv, VectorNoted, NoneYet, ReconMatched

LEMMA MatchedInCode ==
  ASSUME MemberInv, OneGroupInv, OneGroup
  PROVE  ReconMatchesSched
<1>1. ReconMatched
  BY DEF OneGroupInv
<1> QED
  BY <1>1, AtPositions DEF ReconMatched, ReconMatchesSched

(***************************************************************************)
(* For every program, up to the second group of it: a recon call asks for  *)
(* a statement scheduled before in its own context, with the type under    *)
(* which the manager keeps its future, and stores the result in the target *)
(* of that statement.                                                      *)
(***************************************************************************)
THEOREM FirstGroupMatches == Spec => [](OneGroup => ReconMatchesSched)
<1>1. Init => StackInv /\ MemberInv /\ OneGroupInv
  BY StackInit, MemberInit, OneGroupInit
<1>2. StackInv /\ MemberInv /\ OneGroupInv /\ [Next]_cgVars =>
        StackInv' /\ MemberInv' /\ OneGroupInv'
  BY StackStep, MemberStep, OneGroupStep
<1>3. MemberInv /\ OneGroupInv => (OneGroup => ReconMatchesSched)
  BY MatchedInCode
<1> QED
  BY <1>1, <1>2, <1>3, PTL DEF Spec

-----------------------------------------------------------------------------

(***************************************************************************)
(* The first group in a program with more of them: its context stays       *)
(* matched, because what is emitted later is for the last context made.    *)
(***************************************************************************)
IsFirst(c) == \A m \in 1 .. Len(code) : code[m].op = "make" => c <= m

\* The open context is the last one made.
OpenIsLast ==
  ~executeCommit => \A m \in 1 .. Len(code) : code[m].op = "make" => m <= currCid

\* A context has one statement of each id.
IdsApart ==
  \A i, j \in 1 .. Len(code) :
    /\ code[i].op = "sched" /\ code[j].op = "sched"
    /\ code[i].cid = code[j].cid /\ code[i].id = code[j].id
    => i = j

\* Recon call r is for statement j: its id, its type and its target.
For(r, j) ==
  /\ code[j].op = "sched" /\ j < r
  /\ code[j].cid = code[r].cid /\ code[j].id = code[r].id
  /\ code[j].ty = code[r].ty /\ code[j].at = code[r].to

FirstMatched ==
  \A r \in 1 .. Len(code) : code[r].op = "recon" /\ IsFirst(code[r].cid) =>
    \E j \in 1 .. Len(code) : For(r, j)

FirstInv == OpenIsLast /\ IdsApart /\ FirstMatched

LEMMA FirstInit ==
  ASSUME Init
  PROVE  FirstInv
<1>1. Len(code) = 0
  BY EmptySeq DEF Init
<1>2. 1 .. Len(code) = {}
  BY <1>1
<1> QED
  BY <1>2 DEF FirstInv, OpenIsLast, IdsApart, FirstMatched

LEMMA OpenIsLastStep ==
  ASSUME StackInv, MemberInv, OpenIsLast, [Next]_cgVars
  PROVE  OpenIsLast'
<1>1. PICK n \in Nat : n = Len(code)
  BY LenProperties DEF MemberInv
<1>2. SUFFICES ASSUME ~executeCommit', NEW m \in 1 .. Len(code'), code'[m].op = "make"
               PROVE  m <= currCid'
  BY DEF OpenIsLast
<1>3. CASE Commits
  BY <1>2, <1>3 DEF Commits
<1>4. CASE Schedules
  <2>1. CASE Old(m)
    BY <1>1, <1>2, <1>4, <2>1 DEF Old, Schedules, OpenIsLast, MemberInv
  <2>2. CASE ~Old(m)
    BY <1>2, <1>4, <2>2, ScheduleCases
  <2> QED
    BY <2>1, <2>2
<1>5. CASE EmitsBranches
  <2>1. Old(m) /\ ~executeCommit /\ currCid' = currCid
    BY <1>2, <1>5, BranchCases DEF EmitsBranches
  <2> QED
    BY <1>2, <2>1 DEF Old, OpenIsLast
<1> QED
  BY <1>3, <1>4, <1>5, Effects

\* A statement scheduled now has an id above those of its context.
LEMMA NewIdApart ==
  ASSUME MemberInv, ContextInv, Schedules, NEW i \in 1 .. Len(code), code[i].op = "sched",
         code[i].cid = currCid'
  PROVE  code[i].id # currId' - 1
<1>1. PICK n \in Nat : n = Len(code)
  BY LenProperties DEF MemberInv
<1>2. CASE executeCommit
  <2>1. code[i].cid \in Nat /\ code[i].cid <= n
    BY <1>1 DEF ContextInv, ContextNamed, GroupOps
  <2>2. currCid' = n + 1
    BY <1>1, <1>2 DEF Schedules
  <2> QED
    BY <2>1, <2>2
<1>3. CASE ~executeCommit
  <2>1. currCid' = currCid /\ currId' = currId + 1 /\ currId \in Nat
    BY <1>3 DEF Schedules, MemberInv
  <2>2. code[i].id \in Nat /\ code[i].id < currId
    BY <1>3, <2>1 DEF ContextInv, OpenContext
  <2> QED
    BY <2>1, <2>2
<1> QED
  BY <1>2, <1>3 DEF MemberInv

LEMMA IdsApartStep ==
  ASSUME StackInv, MemberInv, ContextInv, IdsApart, [Next]_cgVars
  PROVE  IdsApart'
<1>1. SUFFICES ASSUME NEW i \in 1 .. Len(code'), NEW j \in 1 .. Len(code'),
                      code'[i].op = "sched", code'[j].op = "sched",
                      code'[i].cid = code'[j].cid, code'[i].id = code'[j].id
               PROVE  i = j
  BY DEF IdsApart
<1>2. CASE Old(i) /\ Old(j)
  BY <1>1, <1>2 DEF Old, IdsApart
<1>3. CASE Commits \/ EmitsBranches
  <2>1. Old(i) /\ Old(j)
    BY <1>1, <1>3, CommitCases, BranchCases DEF InlineOps
  <2> QED
    BY <1>2, <2>1
<1>4. CASE Schedules
  <2>1. ASSUME NEW k \in 1 .. Len(code'), code'[k].op = "sched", ~Old(k)
        PROVE  k = Len(code') /\ code'[k].cid = currCid' /\ code'[k].id = currId' - 1
    BY <1>4, <2>1, ScheduleCases
  <2>2. CASE ~Old(i) /\ ~Old(j)
    BY <1>1, <2>1, <2>2
  <2>3. CASE Old(i) /\ ~Old(j)
    BY <1>1, <1>4, <2>1, <2>3, NewIdApart DEF Old
  <2>4. CASE ~Old(i) /\ Old(j)
    BY <1>1, <1>4, <2>1, <2>4, NewIdApart DEF Old
  <2> QED
    BY <1>2, <2>2, <2>3, <2>4
<1> QED
  BY <1>3, <1>4, Effects

LEMMA FirstBefore ==
  ASSUME MemberInv, Extends, NEW c, IsFirst(c)'
  PROVE  IsFirst(c)
<1>1. Len(code) \in Nat
  BY LenProperties DEF MemberInv
<1> QED
  BY <1>1 DEF IsFirst, Extends

\* A commit of the first context is one of the only context.
LEMMA FirstIsOnly ==
  ASSUME MemberInv, OpenIsLast, Commits, ~executeCommit, IsFirst(currCid)
  PROVE  OneGroup'
<1>1. SUFFICES ASSUME NEW a \in 1 .. Len(code'), NEW b \in 1 .. Len(code'),
                      code'[a].op = "make", code'[b].op = "make"
               PROVE  a = b
  BY DEF OneGroup
<1>2. Old(a) /\ Old(b)
  BY <1>1, CommitCases DEF InlineOps
<1>3. currCid <= a /\ currCid <= b /\ a <= currCid /\ b <= currCid
  BY <1>1, <1>2 DEF Old, IsFirst, OpenIsLast
<1>4. currCid \in Nat
  BY DEF MemberInv
<1> QED
  BY <1>3, <1>4

LEMMA FirstMatchedStep ==
  ASSUME StackInv, MemberInv, OpenIsLast, OneGroupInv, FirstMatched, [Next]_cgVars
  PROVE  FirstMatched'
<1>1. PICK n \in Nat : n = Len(code)
  BY LenProperties DEF MemberInv
<1>2. SUFFICES ASSUME NEW r \in 1 .. Len(code'), code'[r].op = "recon",
                      IsFirst(code[r].cid)'
               PROVE  \E j \in 1 .. Len(code') : For(r, j)'
  BY DEF FirstMatched
<1>3. Extends
  BY Effects DEF Commits, Schedules, EmitsBranches
<1>4. CASE Old(r)
  <2>1. PICK c : c = code'[r].cid
    OBVIOUS
  <2>2. IsFirst(c)'
    BY <1>2, <2>1 DEF IsFirst
  <2>3. IsFirst(code[r].cid)
    BY <1>3, <1>4, <2>1, <2>2, FirstBefore DEF Old
  <2>4. PICK j \in 1 .. Len(code) : For(r, j)
    BY <1>2, <1>4, <2>3 DEF FirstMatched, Old
  <2>5. j \in 1 .. Len(code') /\ code'[j] = code[j]
    BY <1>1, <1>3 DEF Extends
  <2>6. For(r, j)'
    BY <1>4, <2>4, <2>5 DEF For, Old
  <2> QED
    BY <2>5, <2>6
<1>5. CASE ~Old(r)
  <2>1. Commits /\ ~executeCommit /\ code'[r].cid = currCid
    BY <1>2, <1>5, Effects, CommitCases, ScheduleCases, BranchCases DEF InlineOps
  <2>2. PICK c : c = currCid
    OBVIOUS
  <2>3. IsFirst(c)'
    BY <1>2, <2>1, <2>2 DEF IsFirst
  <2>4. IsFirst(currCid)
    BY <1>3, <2>2, <2>3, FirstBefore
  <2>5. OneGroup'
    BY <2>1, <2>4, FirstIsOnly
  <2>6. ReconMatched'
    BY <2>5, OneGroupStep DEF OneGroupInv
  <2> QED
    BY <1>2, <2>6 DEF ReconMatched, For
<1> QED
  BY <1>4, <1>5

LEMMA FirstStep ==
  ASSUME StackInv, MemberInv, ContextInv, OneGroupInv, FirstInv, [Next]_cgVars
  PROVE  FirstInv'
BY OpenIsLastStep, IdsApartStep, FirstMatchedStep DEF FirstInv

LEMMA FirstJoined ==
  ASSUME MemberInv, ContextInv, FirstInv
  PROVE  GroupReconciled
<1>1. SUFFICES ASSUME NEW d \in At("destroy"), NEW j \in At("sched"),
                      j < d, code[j].cid = code[d].cid, FirstContext(code[j].cid)
               PROVE  \E r \in At("recon") :
                        /\ j < r /\ r < d
                        /\ code[r].cid = code[j].cid /\ code[r].id = code[j].id
                        /\ code[r].ty = code[j].ty /\ code[r].to = code[j].at
                        /\ \A q \in At("recon") \ {r} :
                             code[q].cid = code[r].cid => code[q].id # code[r].id
  BY DEF GroupReconciled
<1>2. PICK r \in 1 .. Len(code) : JoinedBy(j, d, r)
  BY <1>1, AtPositions DEF ContextInv, JoinedInv
<1>3. r \in At("recon")
  BY <1>2, AtPositions DEF JoinedBy, Is
<1>4. ASSUME NEW q \in At("recon") \ {r}, code[q].cid = code[r].cid
      PROVE  code[q].id # code[r].id
  BY <1>2, <1>4, AtPositions DEF JoinedBy
<1>5. IsFirst(code[r].cid)
  BY <1>1, <1>2, AtPositions DEF FirstContext, IsFirst, JoinedBy
<1>6. PICK i \in 1 .. Len(code) : For(r, i)
  BY <1>2, <1>5 DEF FirstInv, FirstMatched, JoinedBy, Is
<1>7. i = j
  BY <1>2, <1>6, AtPositions DEF FirstInv, IdsApart, For, JoinedBy
<1>8. code[r].ty = code[j].ty /\ code[r].to = code[j].at
  BY <1>6, <1>7 DEF For
<1> QED
  BY <1>2, <1>3, <1>4, <1>8 DEF JoinedBy

(***************************************************************************)
(* For every program, with groups that are committed, forgotten at the end *)
(* of a block or left to another function: when the code destroys the      *)
(* context of the first group, each statement scheduled in it has been     *)
(* reconciled before, by one recon call and no other, which names its      *)
(* type and its target.  It is what JoinsAll asks of the callers of the    *)
(* run-time manager.                                                       *)
(***************************************************************************)
THEOREM GroupsReconciled == Spec => []GroupReconciled
<1>1. Init => StackInv /\ MemberInv /\ ContextInv /\ OneGroupInv /\ FirstInv
  BY StackInit, MemberInit, ContextInit, OneGroupInit, FirstInit
<1>2. StackInv /\ MemberInv /\ ContextInv /\ OneGroupInv /\ FirstInv /\ [Next]_cgVars =>
        StackInv' /\ MemberInv' /\ ContextInv' /\ OneGroupInv' /\ FirstInv'
  BY StackStep, MemberStep, ContextStep, OneGroupStep, FirstStep
<1>3. MemberInv /\ ContextInv /\ FirstInv => GroupReconciled
  BY FirstJoined
<1> QED
  BY <1>1, <1>2, <1>3, PTL DEF Spec

=============================================================================

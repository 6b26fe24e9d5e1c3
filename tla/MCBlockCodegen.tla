--------------------------- MODULE MCBlockCodegen ---------------------------
(***************************************************************************)
(* Programs of one or two functions for TLC: a body of at most BodyLength  *)
(* statements before its return (PairLength when there are two functions), *)
(* whose conditionals have blocks of at most BranchLength statements.      *)
(***************************************************************************)
EXTENDS BlockCodegen, TLC

CONSTANTS BodyLength, BranchLength, PairLength

Calls == {Plain("call", s, "void") : s \in BOOLEAN}

Assigns == {Plain("assign", s, ty) : s \in BOOLEAN, ty \in {"int", "float"}}

SeqsUpTo(S, n) == UNION {[1 .. k -> S] : k \in 0 .. n}

EndsInline(b) == b # << >> => commitVector(b, Len(b))

HasGroup(b) == \E i \in DOMAIN b : ~commitVector(b, i)

\* The number of groups: maximal runs of statements compiled to lambdas.
Groups(b) ==
  {i \in DOMAIN b : ~commitVector(b, i) /\ (i > 1 => commitVector(b, i - 1))}

Branches ==
  {b \in SeqsUpTo(Calls, BranchLength) : EndsInline(b)}
    \cup {Append(b, Return) : b \in {c \in SeqsUpTo(Calls, BranchLength) : EndsInline(c)}}

Conditionals == {If("then", "none"), If("then", "else")}

BodiesUpTo(S, n) ==
  {b \in {Append(c, Return) : c \in SeqsUpTo(S, n)} : EndsInline(b)}

Bodies(S) == BodiesUpTo(S, BodyLength)

OneFunction(body) == ("root" :> <<FunctionDefinition("main")>>) @@ ("main" :> body)

WithBranches(body, t, e) == OneFunction(body) @@ ("then" :> t) @@ ("else" :> e)

\* Any number of groups, in the body and in the branches of conditionals.
GroupPrograms ==
  {OneFunction(b) : b \in Bodies(Calls)}
    \cup {WithBranches(b, t, e) : b \in Bodies(Calls \cup Conditionals) \ Bodies(Calls),
                                 t \in Branches, e \in Branches}

\* Two functions after an injected extern, a group in the first of them and any in the
\* second, whose statements differ in type.
TwoFunctions ==
  {("root" :> <<Declaration, FunctionDefinition("f"), FunctionDefinition("main")>>)
     @@ ("f" :> b) @@ ("main" :> c) :
     b \in {x \in BodiesUpTo(Calls \cup Assigns, PairLength) : Groups(x) # {}},
     c \in BodiesUpTo(Calls \cup Assigns, PairLength)}

\* At most one group, in the body of the only function.
OneGroupPrograms ==
  {OneFunction(b) : b \in {x \in Bodies(Assigns \cup Calls) : \A i, j \in Groups(x) : i = j}}
    \cup {WithBranches(b, t, e) :
            b \in {x \in Bodies(Calls \cup Conditionals) \ Bodies(Calls) :
                     \A i, j \in Groups(x) : i = j},
            t \in {x \in Branches : ~HasGroup(x)}, e \in {x \in Branches : ~HasGroup(x)}}

\* Blocks that leave a group open, in a function or in a branch of a conditional.
OpenBranches ==
  SeqsUpTo(Calls, 2) \cup {Append(b, Return) : b \in SeqsUpTo(Calls, 2)}

OpenPrograms ==
  {("root" :> <<FunctionDefinition("f"), FunctionDefinition("main")>>)
     @@ ("f" :> b) @@ ("main" :> <<Return>>) : b \in SeqsUpTo(Calls \cup {Return}, 3)}
    \cup {WithBranches(Append(b, Return), t, e) :
            b \in SeqsUpTo(Calls \cup Conditionals, 2), t \in OpenBranches, e \in OpenBranches}

SomePrograms == GroupPrograms \cup TwoFunctions \cup OpenPrograms

=============================================================================

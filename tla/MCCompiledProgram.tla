------------------------- MODULE MCCompiledProgram -------------------------
(***************************************************************************)
(* Programs of one function for TLC, of at most BodyLength statements      *)
(* before the return.                                                      *)
(***************************************************************************)
EXTENDS CompiledProgram

CONSTANT BodyLength

MCMain == <<"main", 0>>
MCNoTask == <<"none", 0>>
MCTask == {<<"main", i>> : i \in 0 .. BodyLength + 1}

Assign(v, semi) == Plain("assign", semi, "int") @@ [target |-> v, pointee |-> {}]

Call(pointee, semi) == Plain("call", semi, "void") @@ [target |-> "none", pointee |-> pointee]

Assigns == {Assign(v, semi) : v \in Vars, semi \in BOOLEAN}

Calls == {Call({}, semi) : semi \in BOOLEAN}

DerefCalls == {Call({"y"}, semi) : semi \in BOOLEAN}

Conditionals == {If("then", "none"), If("then", "else")}

SeqsUpTo(S, n) == UNION {[1 .. k -> S] : k \in 0 .. n}

\* The statements compiled to lambdas, and the runs of them visitBlock sees.
Concurrent(b) == {i \in DOMAIN b : ~commitVector(b, i)}

Contexts(b) == {i \in Concurrent(b) : i - 1 \notin Concurrent(b)}

\* No two groups, merged by visitBlock or not, and no conditional in a lambda.
OneGroup(b) ==
  /\ \A i, j \in Contexts(b) : i = j
  /\ \A i, j \in Concurrent(b) : GroupOf(b, i) = GroupOf(b, j)

\* No statement reads through a pointer what its own group assigns.
NoRace(b) ==
  \A i, j \in Concurrent(b) : b[j].kind = "assign" => b[j].target \notin b[i].pointee

\* The last group is committed: an inline return follows it.
Bodies(S) ==
  {b \in {Append(c, Return) : c \in SeqsUpTo(S, BodyLength)} : Len(b) \notin Concurrent(b)}

Program(body, t, e) ==
  ("root" :> <<FunctionDefinition("main")>>) @@ ("main" :> body)
    @@ ("then" :> t) @@ ("else" :> e)

Branches == {<< >>, <<Assign("x", TRUE), Call({}, TRUE)>>, <<Call({}, TRUE), Return>>}

CompiledPrograms ==
  {Program(b, << >>, << >>) :
     b \in {c \in Bodies(Assigns \cup Calls \cup DerefCalls) : OneGroup(c) /\ NoRace(c)}}
    \cup {Program(b, t, e) :
            b \in {c \in Bodies({Assign("x", FALSE), Call({}, FALSE), Assign("y", TRUE)}
                                  \cup Conditionals) :
                     /\ OneGroup(c)
                     /\ \E i \in DOMAIN c : c[i].kind = "if"},
            t \in Branches, e \in Branches}

\* Two groups that follow each other without an inline statement between them.
MergedPrograms ==
  {Program(b, << >>, << >>) :
     b \in {c \in Bodies(Assigns) : /\ \A i, j \in Contexts(c) : i = j
                                   /\ ~OneGroup(c)}}

\* A conditional next to a statement that does not commit.
MovedPrograms ==
  {Program(b, <<Assign("x", TRUE)>>, << >>) :
     b \in {c \in Bodies(Calls \cup Conditionals) :
              /\ \A i, j \in Contexts(c) : i = j
              /\ \E i \in Concurrent(c) : c[i].kind = "if"}}

=============================================================================

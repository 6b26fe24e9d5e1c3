# Fork-Lang: a TLA+ verification project

Fork is a language in which a statement without a semicolon runs in parallel
with the statements after it, up to the first one that commits. This directory
models the places where that idea lives: the run-time manager of parallel
statements, the code generator that compiles blocks of statements to calls of
the manager, the run of a compiled program on the manager, the library functions
its statements call, and the type checks by which the code generator decides what
it may compile.

## Inventory of the system

| part | state | operations | interaction |
|---|---|---|---|
| `ParContextManager`, `StatementContext` (parContextManager.*) | contexts with one map of futures per result type, `thread_count`, `next_cid`, a mutex | `make_context`, `sched_*`, `recon_*`, `destroy_context` | called by compiled code through lib.cpp, from any thread; starts threads with `std::async` |
| run-time library (lib.*) | the one manager, a printing and an allocation mutex | `__make_context`, `__fork_sched_*`, `__recon_*`, `__destroy_context`; printing, allocation, `do_work_ms` | symbols resolved by the JIT |
| `CodeGenVisitor` (codeGenVisitor.*) | `executeCommit`, `currId`, `currCid`, `reconVector`, `namedValues`, `structTypes`, `justReturned`, `error`, two LLVM modules | one visit per kind of node | recursion over the tree; members survive from one visit to the next |
| syntax tree (node.*, statementVisitor.*) | commit flags | `statementCommits`, `setCommit`, `lambdable`, `getVariables` | built by the parser, read by the visitor |
| parser and lexer (parser.y, lex.l) | the tree being built | grammar actions | sets the commit flags |
| injected declarations (yy_overrides.h) | none | `buildInjections` | adds the library's signatures to every program |
| drivers (main.cpp, fc.py) | none | read, parse, visit, run | |
| llvm/, gc/ | | | vendored, not modelled |

What is hard here: calls of the manager from several threads with critical
sections that end before the call does; futures whose `get()` and destructors
block, one of them inside a critical section; deferred statements that run on the
thread of whoever asks for them; a recursive visitor whose mutable members carry
information from one block to the next; statements that work on copies of
variables which main overwrites meanwhile; types checked by hand before LLVM asserts
them, in two LLVM contexts at once. The list, line by line, is under
`hazards` in PROJECT.json. A hazard without properties there is one the code does not
guard against and the passing runs exclude; its note says what admitting it violates.

## Modules

- **ParContextManager** - the manager. One operator per method and critical
  section. A statement is a member of `Task`; the five methods of a typed family
  are one operator with the type as parameter. `context_map` is the set of live
  context ids and `future_id_map` the set of futures stored in all contexts.
  `policy` and `status` are the launch policy and the shared state of each
  statement's future, `fv` the future that a recon call has moved out. An assert
  that fails or an exception that escapes sets `process` to `"aborted"`.
  `destroy_context` is two steps, with `mutex` held in between, because `erase`
  runs blocking destructors; the other critical sections cannot block and are one
  step each.
- **ForkRuntime** - tasks that call the manager: the sequence of calls visitBlock
  emits for a group (`MakeContext`, `Sched`, `Take` to `Retire`, `DestroyLock`,
  `DestroyErase`), and `Finish` when a task returns. `Children` is the program
  text. With only `Main` forking it is what the compiler emits today: a lambda opens
  no group, because visitBlock opens none when `insideLambda`, and cannot call a
  function that does, because the lambda's JIT does not resolve the program's
  functions. With other tasks forking it is the contract of parContextManager.h.
  `JoinsAll` says whether callers reconcile every statement before they destroy a
  context.
- **ForkJoin** - the abstract specification: fork, finish, join in order, and no
  task finishes with unjoined statements. ForkRuntime implements it under the
  mapping at its end: `status` gives the phase, the unreconciled part of `kids`
  the pending statements.
- **ForkRuntimeProofs** - theorems about ForkRuntime that do not depend on groups:
  types, owners of futures, thread slots.
- **ForkRuntimeGroupProofs** - theorems about its groups: contexts, what recon calls
  find in them, and how groups nest.
- **ForkRuntimeRefinement** - the safety part of ForkJoin.
- **BlockCodegen** - visitBlock and the visits it recurses through, as a machine
  with an explicit stack that emits instructions into basic blocks. The commit
  vector, the opening of a group, the numbering of statements, the commit before
  an inline statement and the branches of a conditional follow the code; names,
  values and expressions are left out. Declarations (an extern, a structure
  definition) commit an open group and emit no instruction of their own.
- **BlockCodegenProofs**, **BlockCodegenClosing** - the theorems about BlockCodegen;
  the second module has those about basic blocks.
- **CompiledProgram** - the composition: BlockCodegen compiles a program, `Start`
  (executeMain) runs main's instructions, and the groups in them run on
  ParContextManager. One action per kind of instruction, those of a recon call as in
  ForkRuntime, and `Lambda` for a statement on its own thread or inside `get()`. A
  statement has its env structure, the copy of main's variables made when it was
  scheduled; `StoreResult` is the store after a recon call. A value is a term (who
  computed it, from which variables), so two values are equal only if they were
  computed the same way. `Meaning` is the source's meaning, written without the
  compiler: the statements of a group start from the variables as the group before
  left them and take effect in the order of the text.
- **CompiledProgramProofs** - the theorems about CompiledProgram.
- **Library** - the public functions of lib.cpp, called from several threads.
  printf and the allocator are external and taken at their weakest, as code in two
  steps that only the mutex makes atomic. Integers have a width: `(int)i` narrows and
  `s*8` wraps.
- **LibraryProofs** - the theorems about Library.
- **TypeRules** - the types CodeGenVisitor works with. A value is its LLVM type
  (base, pointer depth, context), an operator of the visitor maps types to a type,
  to `Error` (ErrorV, which returns null) or to `Abort` (an LLVM constructor
  asserts). The visits in progress are the variable `stack`, so one action is one
  visit returning to the one above it, and the expressions covered are those that
  need at most `MaxStack` values. `lambda` says what is being compiled into a
  lambda, whose builder has a context of its own while variables, structures and
  callees keep the main one's types; `namedValues` is put back when the lambda ends.
  There is one name for a structure; `structTypes` has the fields and the context it
  was registered with, `VisitStructureDefinition` registers it or rejects the
  definition. `decl`, next to the type of a variable and to the fields of the
  structure, records what the source declared last and is read by a property only.
- **TypeRulesProofs** - the theorems about TypeRules.
- **MCForkRuntime**, **MCBlockCodegen**, **MCCompiledProgram**, **MCTypeRules**,
  **MCLibrary** - programs and arguments for TLC.

Operators whose name extends that of the operator below them
(`reconTakeCopies`, `CommitCodeSkipsLast`, ...) are deliberate faults used to
check that the properties notice them; no specification uses them.

## Runs

| run | shows |
|---|---|
| `nested` | Six tasks, three of them callers, two slots: the slot counter is exact, the thread bound holds, futures have one owner, no assert or `at()` fails, recon returns the result of its own statement, a statement never outlives the frame of its env, and nothing is left when main returns. Under fairness the program ends, destroy_context always returns, and the run implements ForkJoin including its fairness. |
| `early_destroy` (violation) | With unreconciled statements in the context, destroy_context can block for ever. |
| `groups` | All programs of up to three statements before the return, with branches of up to three, pairs of functions whose groups have statements of all types, and blocks that leave a group open: groups are committed before the next inline statement, everything the first group of the program schedules is reconciled, with its type and target, before its context goes, and in well-formed code a context is destroyed on the path that made it. |
| `one_group` | All programs of up to four statements with at most one group: recon calls match scheduled statements in id, type and target; every basic block has exactly one terminator, at its end. |
| `stale_recon` (violation) | The second group reconciles ids beyond its maximum, because `reconVector` is never cleared. |
| `group_in_branch` (violation) | A group in a branch removes the branch to the merge block. |
| `compiled` | All programs of up to four statements with one group in main, calls that read through pointers, and conditionals before and after the group: whichever statements get threads and however they interleave, main's variables and the output are what the source means, the manager never aborts, main returns with nothing left, and it does return. |
| `merged_groups` (violation) | Two groups that follow each other directly become one: the second computes with variables from before the commit of the first. |
| `moved_statement` (violation) | A conditional after a statement without semicolon is moved into a lambda and its assignments are lost. |
| `types` | Every sequence of visits with two variables, two values held at once, a function of two parameters and seven definitions of a structure: the compiler never dies in an LLVM assertion on a program it reported no error for, variables and structures are what was declared last, and each operator gives for two numbers of either context the number type of the current one it should, which is an i1 only for `\|\|` and `&&` of integers. |
| `float_recon` (violation) | The commit of a concurrent assignment to a float calls `__recon_float` with an integer where the injected declaration has a float. |
| `library` | Two threads with two calls each: the pieces of a line stay together, an integer that fits an int is printed as it is, allocated elements exist and do not overlap, and every call returns. |

**What `compiled` excludes.** Programs with two groups (the second one reconciles
ids of the first, `stale_recon`; without an inline statement between them they
merge, `merged_groups`), a group in a branch (`group_in_branch`), a conditional in
a lambda (`moved_statement`), and a statement that reads through a pointer what
its own group assigns, which races with the store of main's recon call and whose
meaning the code does not define. Assignments to floats are those to ints here
(`float_recon` is about their types).

**Unchecked constructs.** `types` holds with `Admitted = {}`. TypeRules lists
thirteen constructs that the visitor lets through without the check they would need
(integer `||` and `&&`; initialisers and indices whose type is not compared; a
structure declared over an existing name; in lambdas unknown callees, mixed
contexts, calls of the program's own functions and structure definitions;
concurrent assignment to floats and to elements or fields; a structure without
fields, and one defined twice; before the first function, where the builder has no
basic block, a definition, declaration, return, conditional or concurrent statement).
Each is described by what the program writes,
never by its outcome, and each one alone, added to `Admitted`, violates
`DiagnosedAbort` or `DeclaredType`: the run shows that the list is complete at
these bounds and that none of it is superfluous. It is a claim about the programs
TypeRules considers: with one name for a structure, functions defined and declared
outside of lambdas (visitFunctionDefinition takes one inside for the lambda itself), and
no identifier that the compiler makes up (`cid`, `e0`, `env`, `lambda0`, the injected
functions). An expression or an assignment before the first function is typed like any
other; its instructions are in no block. A concurrent `x = a`, or `x =
f()` with an extern function, is rejected with an error: the lambda's return has
the lambda's type and the value the main one's. `x = a + 1` is accepted, because
operators convert.

In the same way `library` gives malloc_int only counts whose size in bytes does
not wrap: with a count that wraps to one element `ElementsDisjoint` is violated,
because `malloc(s*8)` multiplies without a check. calloc_int gets such a count
too, and holds.

Deadlock checking is off because the systems stop: a program ends, a compilation
ends. That they stop nowhere else is `Termination` for the runtime, `Ends` for
compiled programs and `CallsReturn` for the library; the code generator is
sequential and takes one step per statement.

**Bounds.** Every task forks at most once and there are six tasks. With two slots
that is enough for statements with a thread, deferred statements, deferred
statements that fork and find slots free again, and two contexts live while a
third task is inside a recon call. `nested` has one result type and `compiled`
two, which is enough to tell the maps of a context apart. The cap of four threads
needs more statements than a run has; `ThreadsBounded` proves it. The code
generator's members carry over from one group to the next, and from a branch to
what follows, so two groups, a group in either branch, and two functions are the
cases; bodies of three or four statements (`BodyLength`, and `PairLength` where
there are two functions) have all of them. A type rule looks at
no more than two values and one variable, so two of each, pointers of depth two
and one concurrent statement reach every combination of its operands; the
definitions of the structure have each kind of accepted and rejected field.

In `compiled` (`BodyLength` 4, two slots, two variables) a group can have four
statements, so some have threads and some are deferred to their recon call, after
main has stored results of others. In `library` int64_t has `LongBits` = 6 bits,
int has `IntBits` = 4 and the heap has `Arena` = 24 bytes, three elements: full
heaps, -1, counts that wrap and numbers on either side of the largest int all
occur within `MaxCalls` = 2 calls of two threads.

**Fairness.** Weak fairness of each task's steps: the operating system runs every
thread that can run, and statements are assumed to terminate. std::mutex promises
no order, so no strong fairness is assumed; it is not needed because every task
makes finitely many calls. CompiledProgram has weak fairness of the compiler and of
main, which are one thread, and of each lambda; Library of a thread inside a call,
not of making one.

## Proofs

The theorems hold for every value of the constants that satisfies the ASSUMEs of
the modules, which TLC evaluates on the programs and arguments of the runs.

**The manager and its callers.** For every finite set of tasks, program text,
hardware concurrency and set of result types:

| theorem | states |
|---|---|
| `TypeCorrect` | `Spec => []TypeOK` |
| `FuturesHaveOneOwner` | `Spec => []SingleOwner` |
| `SlotsCounted` | `Spec => []SlotAccounting` |
| `ThreadsBounded` | `Spec => []WorkersBounded` |
| `ManagerNeverAborts` | `Spec => []NoAbort` |
| `ReconReturnsOwn` | `Spec => []ReconOwn` |
| `FramesOutliveStatements` | `Spec => []EnvAlive` |
| `NothingLeftAtExit` | `Spec => []QuiescentExit`, if callers join everything |
| `ImplementsForkJoinSafety` | `Spec` implies the initial condition and the steps of ForkJoin, if callers join everything |

The first seven also hold when callers destroy contexts with unreconciled
statements. The last two need `JoinsAll`, and `GroupsReconciled` below shows that
the code of the first group of a program has that property.

`SlotAccounting` is not inductive. The step that gives a slot back removes one task
from the slots only if the future held by the recon call belongs to a statement
with a thread that has ended and has not been given back before. The first half is
`HoldsFuture`; that no other call gives the same slot back is `SingleOwner`, which
is inductive together with `HoldsFuture` (lemma `OwnerStep`): only a fresh
statement's future is stored, and taking one removes it from its context. With both,
the slots change by one element when `thread_count` changes by one (lemma
`SlotStep`), and since a thread is given only below `max_threads`, the counter never
exceeds it. `Workers` is a subset of `Slots`.

`NoAbort` needs to know what a context contains. `ContextInv` says that the live
contexts are those of the open groups, one each; `StoreInv` that the futures of a
context are exactly those of the statements its caller has not reconciled, each
under its place in the group and in the map of its type. An insertion therefore
finds its key free and a lookup finds a future, and it is the right one, which is
`ReconOwn`. `ControlInv` ties `pc` to `status`, `GroupInv` bounds the counters of a
group, and `DeferredInv` and `OwnedInv` say who may still run or wait for a
statement. `EnvAlive` follows: a running statement's future is in its parent's
context or in its parent's recon call, and either keeps the parent in its group.

`QuiescentExit` is about all tasks at the moment when one of them ends, so an
argument from parent to child is not enough: a task with an open group might be
deep inside the program. `NestingInv` says that a statement's group has a larger
context id than the group it is in. If any group were open when main is done, take
the one with the smallest id (the order of the naturals is well founded); its task
runs, so it is owned by a group, with a smaller id (lemma `MainIsOutermost`).

The refinement maps `status` to the phase of a statement and the unreconciled part
of `kids` to the pending statements. `Sched` is a fork, `Finish` the end of a
statement, the last step of a recon call (`ReturnDeferred`, `Retire`) the join of the
head of the pending statements, and every other step is a stutter.

**The code generator.** For every set of programs, with any number and nesting of
blocks, functions and groups. `ProgramsAssumption` says that a program is a syntax tree as
parser.y builds it: statements of the known kinds, whose blocks exist and are not
the root, and at the root only functions and declarations: before the first function another
statement has no basic block to go into (TypeRules has that case), and after it the
statement would go into the last basic block of the function before.

| theorem | states |
|---|---|
| `VisitorTyped` | `Spec => []TypeOK` |
| `GroupsReconciled` | `Spec => []GroupReconciled` |
| `InlineSeesGroups` | `Spec => []CommittedBeforeInline` |
| `FirstGroupMatches` | `Spec => [](OneGroup => ReconMatchesSched)` |
| `WellFormedCodeClosesGroups` | `Spec => []GroupsClosed` |
| `StructuredCodeTerminates` | `Spec => [](Structured => BlocksTerminated)` |

`StackInv` and `MemberInv` keep the recursion on the tree and the members of the
visitor in range; an open group has a context, a statement and an entry in
`reconVector` for each of its ids. `ContextInv` adds that the open context has no recon
and no destroy yet and that only ids below `currId` are scheduled in it. The actions
are summarised by what they append to the code (lemma `Effects`: a commit, one
scheduled statement, or instructions of no group), so each invariant has three cases.

`GroupReconciled` is about the first context of a program, however many follow. A later
commit emits one recon call for each id too, but takes type and target from the entries
of earlier groups (`stale_recon`), and the manager looks an id up in the map of its type.
`JoinedInv`, a part of `ContextInv`, finds one recon call for the id; `OneGroupInv` says
that, as long as there is one group, each entry of `reconVector` is that of a scheduled
instruction; `FirstInv` keeps this when more groups come, because an open context is
the last one made and a context has one statement of each id.

For `CommittedBeforeInline`, `OpenGroupInv` says that a context is destroyed or open,
and if one is open, the statement before the current one is in it.

`ReconMatchesSched` is false for programs with a second group (`stale_recon`): its
recon calls repeat the entries of the first. `FirstGroupMatches` states exactly
what is left, that it holds in every state with at most one group: there every
entry of `reconVector` is that of a scheduled instruction of the one context.

`GroupsClosed` is about code that visitBlock does not close. Its blocks may end with
an open group; but the lambda's return has set `justReturned`, so the visitor leaves
the basic block without a branch. `Sealed` says that nothing is emitted into a basic
block any more: it is not the current one and no conditional in progress has set it
aside (`BasicBlockInv` says which are set aside, and that they are apart). `Broken`
says that a sealed block ends without a terminator, which no later step mends, and
`ClosingInv` that the code is broken or every context is destroyed in its basic
block or still open in the current one, with its last `sched` at the end.

`BlocksTerminated` is false for a program with a group at the end of a branch
(`group_in_branch`). `Structured` says which programs are left: no statement follows a
return in its block, a function ends with a return, and in a branch of a conditional a
group is followed by another conditional, which resets `justReturned`, or by the return
that ends the branch. Every program of `one_group` is structured. `FlowInv` says of
such a program that the current basic block has no terminator yet, unless the visitor
is between functions or past the return that ends a block; that every sealed block has one
terminator, at its end; that all code is in the current or in sealed blocks; and that at
the end of a branch `justReturned` is set exactly if the branch returned. The last part
is what `visitIfStatement` relies on when it leaves out the branch to the merge block.

**Compiled programs.** The two theorems compose the code generator with the manager.

| theorem | states |
|---|---|
| `CompiledNeverAborts` | `ProgramSpec => [](Structured /\ OneGroup => NeverAborts)` |
| `CompiledLeavesNothing` | `ProgramSpec => [](Structured /\ OneGroup => NothingLeft)` |

They hold for any number of statements, conditionals nested to any depth, any machine and
any interleaving of main with the statements' threads. `StatementsAssumption` says that
each statement visitBlock may put in a group is a task of its own. Both hypotheses are
needed: a second group is reconciled with the entries of the first (`stale_recon`), and
a program that is not structured may have a basic block without an end
(`group_in_branch`). `OneGroup` speaks of the code, so groups that visitBlock merges
into one context are covered.

`LayoutInv` is an invariant of the code generator: a `sched`, `recon` or
`destroy` is in the basic block of the `make` of its context and after it; the
statements of a context have ids and places in the source that are all different; a
group is open or has its `destroy`; and a branch leads to a basic block whose
instructions all come later. With the code generator's other invariants it makes
finished code `Executable`: one bracketed group, each `sched` with one `recon` of
its id and type behind it, and a next instruction wherever main can be.

As branches lead forward, main is before the group, inside of it or past it, and the
position of main says what the manager must hold (`RunInv`). Inside, `GroupRuns`: the
context is the one the `make` returned; its futures are those of the
statements main has scheduled and not yet begun to reconcile; a
reconciled statement is joined, any other scheduled one is not, and the recon call in
progress holds its own future. Outside, `Quiet`: no context, no future and every
statement joined or never scheduled. Slots are counted as in the manager's proof.

**The library.** For any number of threads and calls, any heap, and integers of any
width: `OutputNeverGarbled` (`Spec => []NeverGarbled`) and `ElementsNeverShared`
(`Spec => []ElementsDisjoint`). `ArgumentAssumption` says that arguments are in the
range of int64_t and that malloc_int gets no count whose size in bytes wraps, which
the code does not check (see "Unchecked constructs"). `Exclusion` says that the
mutexes exclude; `PrintInv` that the output has an odd number of pieces only while a thread
is between its two, and that the last piece is that thread's; `AllocInv` that the
place found in the first step of an allocation is still free in the second.

**The type rules.** For any set of names, signatures and structure definitions, and any
bound on pointers, values and concurrent statements. `ProgramAssumption` says that a
signature has a result type and a list of parameters and a structure definition has
fields, each with a type as parser.y builds it, a name that need not exist and an
optional star; `BoundsAssumption` that the bounds are numbers and that there is room
for the one star a declaration can have.

| theorem | states |
|---|---|
| `RulesTyped` | `Spec => []TypeOK` |
| `OperatorsTakeNumbers` | `Spec => []OperatorsClosed` |
| `AbortsAreDiagnosed` | `Spec => []DiagnosedAbort`, if `Admitted = {}` |
| `VariablesAsDeclared` | `Spec => []DeclaredType`, if `Admitted = {}` |

The first two hold whatever constructs are admitted. `TypeInv` adds to the types that
the structure is undefined or registered with definitions of the program in one
context, and that a visited target finds room in `reconVector`. `OperatorsClosed` follows from lemmas
about each operator: it first brings its operands to the builder's context, so that the
comparison or the conversion below it gets two operands of one type. Its operands may
be an i1 here, which `types` does not produce.

The last two say that the list of unchecked constructs is complete for every program
TypeRules considers (see "Unchecked constructs"), and not only at the bounds of `types`. The properties are
not inductive: whether an LLVM constructor asserts depends on types that earlier visits
left on the stack, in variables, in the structure or in `reconVector`. `AcceptedInv` says
that, as long as no error was reported, all of these are `Clean`: no value is a boolean or
a pointer to void, and none in main has a type of a lambda's context; a variable, and
the copy of it that comes back when the lambda ends, has the type of its declaration;
a variable of a structure type means that the structure is registered, in main's
context, with the fields declared last; and `reconVector` has only results that a
recon function exists for. Each visit either keeps this or reports.

**Only model-checked.**

- Liveness under fairness is beyond the prover: `Termination`, `DestroyReturns`,
  `Ends`, `CallsReturn`, and the fairness of ForkJoin in `ImplementsForkJoin`.
- `SourceStore` and `SourceOutput` of compiled programs: `Meaning` is a fold over the
  program, and what a fold computes for every program would need induction over
  data, which the prover does not have.

## Not modelled, and plan

Done: the manager, its callers, the compilation of groups, the execution of what
is compiled, the library, the type rules and structure definitions; the proofs of
all safety properties of the manager, of the library, of the type rules and of the code
generator, and that the code generator and the manager fit together. Every invariant of
a passing run is the subject of a theorem, except `SourceStore` and `SourceOutput`.

Left out:

- The grammar and the lexer beyond the commit flags: they are input of bison and
  flex, whose conflict resolution and longest match decide what a text means. That a
  comment swallows the line end a statement needs, and that `return exp;` takes none, is
  therefore not checked.
- The drivers except executeMain: straight-line I/O. `Start` requires
  that there is code to run; that it is a function called main is assumed, as every
  program considered has one.
- Functions defined or declared inside a lambda, several structure names, and
  identifiers that collide with those of the compiler.
- Node constructors, descriptions and visitor dispatch, which have no behaviour of
  their own, and validate() with its type table, which nobody calls.
- llvm/ and gc/, vendored. LLVM appears as the assertions of the constructors the
  code generator calls, the collector not at all.

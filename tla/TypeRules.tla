----------------------------- MODULE TypeRules -----------------------------
(***************************************************************************)
(* How CodeGenVisitor (codeGenVisitor.cpp) types expressions and           *)
(* statements: which it accepts, which it rejects through ErrorV, and with *)
(* which operand types it calls LLVM.                                      *)
(*                                                                         *)
(* The code generator checks types by hand and hands the result to LLVM,   *)
(* whose constructors assert that operand types agree.  The build keeps    *)
(* those assertions (Release+Asserts in the Makefile), so an ill-typed     *)
(* instruction kills the compiler.  What should never happen is that it    *)
(* dies on a program it found nothing wrong with.                          *)
(*                                                                         *)
(* LLVM types belong to an LLVMContext.  A concurrent statement is         *)
(* compiled inside a lambda, in a context of its own, but its variables,   *)
(* structures and callees keep the types of the main context: the types    *)
(* of two contexts are different even when both are i64.                   *)
(*                                                                         *)
(* The visitor walks a syntax tree in postorder; the values its calls hold *)
(* are the variable stack, so the expressions considered are all those     *)
(* whose evaluation needs at most MaxStack values.  Every value is its     *)
(* type.  Programs have one name for a structure, define and declare their *)
(* functions outside of lambdas (visitFunctionDefinition takes a function  *)
(* in a lambda for the lambda itself), and use no identifier the compiler  *)
(* makes up (cid, e0, env, lambda0, the functions parser.y declares).      *)
(***************************************************************************)
EXTENDS Naturals, Sequences

CONSTANTS
  Names,          \* identifiers of variables
  FieldNames,     \* identifiers after a dot
  StructDefs,     \* definitions of the structure a program may have
  Signatures,     \* functions of the program: result type and parameters
  Admitted,       \* unchecked constructs the programs may use, see below
  MaxStack,       \* bound on the values held at once
  MaxPtr,         \* bound on the depth of pointers
  MaxRecon        \* bound on the concurrent statements

VARIABLES
  namedValues,    \* the variables of the function: type and declaration
  copyValues,     \* namedValues when the lambda was entered
  stack,          \* values held by the visits in progress
  structTypes,    \* the structure: fields registered, fields declared last, context
  module,         \* functions known to the module: absent, declared, defined
  function,       \* the function being compiled, "none" before the first
  lambda,         \* what is compiled into a lambda, "none" outside of one
  executeCommit,  \* "yes" when no group is open
  reconVector,    \* types of the targets of concurrent statements
  error,          \* "yes" once ErrorV was called
  process         \* "alive", or the assertion that ended the compiler

typeVars == <<namedValues, copyValues, stack, structTypes, module, function, lambda,
              executeCommit, reconVector, error, process>>

ASSUME BoundsAssumption ==
  MaxStack \in Nat /\ MaxPtr \in Nat \ {0} /\ MaxRecon \in Nat

\* A type as the parser names it: the keyword or identifier, and whether a * follows.
IsSource(src) == src = [name |-> src.name, ptr |-> src.ptr] /\ src.ptr \in BOOLEAN

(***************************************************************************)
(* The text of a program: functions have a result type and a list of       *)
(* parameters, structures have fields, each with a type of the source,     *)
(* which need not name anything that exists.                               *)
(***************************************************************************)
ASSUME ProgramAssumption ==
  /\ \A f \in DOMAIN Signatures :
       LET args == Signatures[f].args
       IN  /\ IsSource(Signatures[f].ret)
           /\ args \in Seq({args[i] : i \in DOMAIN args})
           /\ \A i \in DOMAIN args : IsSource(args[i].type)
  /\ \A def \in StructDefs : \A f \in DOMAIN def :
       IsSource(def[f].type) /\ def[f].init \in BOOLEAN

-----------------------------------------------------------------------------

(***************************************************************************)
(* LLVM types.  A null llvm::Value* is the value of NULL and of everything *)
(* ErrorV was called for.                                                  *)
(***************************************************************************)
context == IF lambda \in {"none", "target"} THEN "main" ELSE "lambda"

Type(b, c) == [base |-> b, ptr |-> 0, ctx |-> c]

Int64Ty == Type("i64", context)
DoubleTy == Type("double", context)

Nullptr == Type("nullptr", "none")
Error == Type("error", "none")

\* LLVM's assertion a fails.
Abort(a) == Type(a, "abort")
Aborts(r) == r.ctx = "abort"

isIntegerTy(t) == t.ptr = 0 /\ t.base \in {"i64", "i1"}
isDoubleTy(t) == t.ptr = 0 /\ t.base = "double"
isVoidTy(t) == t.ptr = 0 /\ t.base = "void"
isStructTy(t) == t.ptr = 0 /\ t.base = "struct"
isPointerTy(t) == t.ptr > 0

PointerTo(t) == [t EXCEPT !.ptr = @ + 1]
getPointedType(t) == [t EXCEPT !.ptr = @ - 1]

\* A type of the source: int, float, void or the structure, or a pointer.
Source(name, isPointer) == [name |-> name, ptr |-> isPointer]

\* structTypes before the structure is defined.
NoStruct == [fields |-> << >>, decl |-> << >>, ctx |-> "none"]

\* The base a source type names in context c; a void pointer is an i64*.
BaseFromString(src, c) ==
  CASE src.name = "int" -> Type("i64", c)
    [] src.name = "float" -> Type("double", c)
    [] src.name = "void" -> Type(IF src.ptr THEN "i64" ELSE "void", c)
    [] src.name = "struct" /\ structTypes # NoStruct -> Type("struct", structTypes.ctx)
    [] OTHER -> Error

getTypeFromStringAnyVoid(src, allowsVoid, c) ==
  LET t == BaseFromString(src, c)
  IN  IF t # Error /\ src.ptr THEN PointerTo(t) ELSE t

getTypeFromString(src, allowsVoid, c) ==
  LET t == BaseFromString(src, c)
  IN  CASE t = Error \/ (isVoidTy(t) /\ ~allowsVoid) -> Error
        [] t # Error /\ src.ptr -> PointerTo(t)
        [] OTHER -> t

getIntNullPointer == PointerTo(Int64Ty)
getFloatNullPointer == PointerTo(DoubleTy)

\* The null pointer chosen for a place of type t.
NullFor(t) ==
  CASE ~isPointerTy(t) -> Error
    [] isPointerTy(t) /\ isIntegerTy(getPointedType(t)) -> getIntNullPointer
    [] isPointerTy(t) /\ isDoubleTy(getPointedType(t)) -> getFloatNullPointer
    [] isPointerTy(t) /\ isStructTy(getPointedType(t)) -> t
    [] OTHER -> Error

-----------------------------------------------------------------------------

\* What LLVM asserts of the instructions the visitor builds.
CreateICmp(l, r) == IF l = r THEN Type("i1", l.ctx) ELSE Abort("icmp")
CreateFCmp(l, r) == IF l = r THEN Type("i1", l.ctx) ELSE Abort("fcmp")
CreateStore(v, t) == IF v = Error THEN Error ELSE IF v = t THEN v ELSE Abort("store")
CreateAlloca(t) == IF isVoidTy(t) THEN Abort("alloca") ELSE t
CreateCall(sig, args) == IF args = sig.args THEN sig.ret ELSE Abort("signature")
CreateGEP(t, offset) ==
  IF isPointerTy(t) /\ isIntegerTy(offset) THEN t ELSE Abort("gep")

castIntToFloat(t) == DoubleTy
castIntToBoolean(t) == CreateICmp(t, Int64Ty)
castFloatToBoolean(t) == CreateFCmp(t, DoubleTy)
castBooleantoIntNone(t) == t
castBooleantoInt(t) == IF Aborts(t) THEN t ELSE Int64Ty
castPointerToInt(t) == Int64Ty
castIntToPointer(t) == IF Aborts(t) THEN t ELSE PointerTo(Int64Ty)

WidenedIntegers(t) == IF isIntegerTy(t) THEN castBooleantoInt(t) ELSE t

\* Integers and floats are brought to the builder's own i64 and double.
Widened(t) ==
  CASE isIntegerTy(t) -> castBooleantoInt(t)
    [] isDoubleTy(t) -> DoubleTy
    [] OTHER -> t

NullAsPointer(t) == IF t = Nullptr THEN getIntNullPointer ELSE t

visitUnaryOperator(op, exp) ==
  LET t == Widened(NullAsPointer(exp))
  IN  CASE isPointerTy(t) /\ op = "-" -> castIntToPointer(castPointerToInt(t))
        [] isPointerTy(t) /\ op = "!" ->
             castIntToPointer(castBooleantoInt(castIntToBoolean(castPointerToInt(t))))
        [] (isDoubleTy(t) \/ isIntegerTy(t)) /\ op = "-" -> t
        [] isDoubleTy(t) /\ op = "!" -> castBooleantoInt(castFloatToBoolean(t))
        [] isIntegerTy(t) /\ op = "!" -> castBooleantoInt(castIntToBoolean(t))
        [] OTHER -> Error

\* The operators by the shape of their result.
Arithmetic == {"+", "-", "*", "/"}
Comparisons == {"!=", "==", ">=", "<=", ">", "<"}
Logical == {"||", "&&"}

\* Both operands are the builder's i64.
IntOperator(op, t) ==
  CASE op \in Arithmetic -> t
    [] op \in Comparisons -> castBooleantoInt(CreateICmp(t, t))
    [] op \in Logical -> castIntToBoolean(t)

FloatOperator(op, t) ==
  CASE op \in Arithmetic -> t
    [] op \in Comparisons -> castBooleantoInt(CreateFCmp(t, t))
    [] op \in Logical -> castBooleantoInt(castFloatToBoolean(t))

visitBinaryOperator(op, left, right) ==
  LET l0 == NullAsPointer(left)
      r0 == NullAsPointer(right)
      l1 == Widened(IF isIntegerTy(l0) /\ isDoubleTy(r0) THEN castIntToFloat(l0) ELSE l0)
      r1 == Widened(IF isDoubleTy(l0) /\ isIntegerTy(r0) THEN castIntToFloat(r0) ELSE r0)
      pointer == isPointerTy(l1) \/ isPointerTy(r1)
      l == IF isPointerTy(l1) THEN castPointerToInt(l1) ELSE l1
      r == IF isPointerTy(r1) THEN castPointerToInt(r1) ELSE r1
  IN  CASE isVoidTy(l0) \/ isVoidTy(r0) -> Error
        [] l # r -> Error
        [] l = r /\ pointer -> castIntToPointer(IntOperator(op, l))
        [] l = r /\ ~pointer /\ l = DoubleTy -> FloatOperator(op, l)
        [] l = r /\ ~pointer /\ l = Int64Ty -> IntOperator(op, l)
        [] OTHER -> Error

-----------------------------------------------------------------------------

(***************************************************************************)
(* Functions.  Their types are those of the main context also when a       *)
(* lambda declares them again: it takes the main module's function type.   *)
(***************************************************************************)
generateFunction(sig) ==
  [ret |-> getTypeFromString(sig.ret, TRUE, "main"),
   args |-> [i \in DOMAIN sig.args |-> getTypeFromString(sig.args[i].type, FALSE, "main")]]

ValidSignature(sig) ==
  /\ generateFunction(sig).ret # Error
  /\ \A i \in DOMAIN sig.args : generateFunction(sig).args[i] # Error

\* One argument of a call, for a parameter of type p.
Argument(a, p) ==
  LET v == IF a = Nullptr THEN NullFor(p) ELSE a
  IN  CASE v = p -> v
        [] v # p /\ isIntegerTy(v) /\ isDoubleTy(p) -> castIntToFloat(v)
        [] v # p /\ isIntegerTy(v) /\ isIntegerTy(p) -> p
        [] v # p /\ isDoubleTy(v) /\ isDoubleTy(p) -> p
        [] OTHER -> Error

visitFunctionCall(f, args) ==
  LET sig == generateFunction(Signatures[f])
      vals == [i \in DOMAIN args |-> Argument(args[i], sig.args[i])]
  IN  IF \E i \in DOMAIN args : vals[i] = Error THEN Error ELSE CreateCall(sig, vals)

\* The declarations parser.y puts before every program.
schedSignature == [ret |-> Type("void", "main"),
                   args |-> <<PointerTo(Type("i64", "main")), PointerTo(Type("i64", "main")),
                              Type("i64", "main"), Type("i64", "main")>>]

reconSignature(keyword) ==
  LET int == Type("i64", "main")
      value == getTypeFromString(Source(keyword, FALSE), TRUE, "main")
  IN  [ret |-> value,
       args |-> IF keyword = "void" THEN <<int, int, int>>
                                    ELSE <<value, value, int, int, int>>]

\* lambdaKeyword, as makeSched sets it for a target of type t.
makeSched(t) == CASE isIntegerTy(t) -> "int" [] isDoubleTy(t) -> "float" [] OTHER -> "none"

\* A target whose address was computed by instructions that are in no basic block.
Detached(t) == [t EXCEPT !.ctx = "detached"]

\* The reconciling call for a target of type t.
reconCall(t) ==
  LET int == Type("i64", "main")
  IN  CASE t.ctx = "detached" -> Abort("detached")
        [] t.ctx # "detached" /\ isVoidTy(t) ->
             CreateCall(reconSignature("void"), <<int, int, int>>)
        [] t.ctx # "detached" /\ (isIntegerTy(t) \/ isDoubleTy(t)) ->
             CreateCall(reconSignature(makeSched(t)), <<t, int, int, int, int>>)
        [] OTHER -> Error

-----------------------------------------------------------------------------

InitialisedFloatToInt(src, v) ==
  CASE src.ptr /\ v = Nullptr /\ src.name = "int" -> getIntNullPointer
    [] src.ptr /\ v = Nullptr /\ src.name = "float" -> getFloatNullPointer
    [] src.ptr /\ isPointerTy(v) /\ (isIntegerTy(getPointedType(v)) => src.name = "int")
               /\ (isDoubleTy(getPointedType(v)) => src.name = "float") -> v
    [] ~src.ptr /\ src.name = "float" /\ isIntegerTy(v) -> castIntToFloat(v)
    [] ~src.ptr /\ v # Nullptr /\ ~isPointerTy(v)
                /\ ~(src.name = "float" /\ isIntegerTy(v)) -> v
    [] OTHER -> Error

\* A definition of the declared type src, initialised to the value v.
Initialised(src, v) ==
  CASE src.ptr /\ v = Nullptr /\ src.name = "int" -> getIntNullPointer
    [] src.ptr /\ v = Nullptr /\ src.name = "float" -> getFloatNullPointer
    [] src.ptr /\ isPointerTy(v) /\ (isIntegerTy(getPointedType(v)) => src.name = "int")
               /\ (isDoubleTy(getPointedType(v)) => src.name = "float") -> v
    [] ~src.ptr /\ src.name = "float" /\ isIntegerTy(v) -> castIntToFloat(v)
    [] ~src.ptr /\ v # Nullptr /\ ~isPointerTy(v) /\ ~(src.name = "int" /\ isDoubleTy(v))
                /\ ~(src.name = "float" /\ isIntegerTy(v)) -> v
    [] OTHER -> Error

\* A definition without initialiser.
DefaultValue(src) ==
  IF src.ptr THEN Initialised(src, Nullptr)
             ELSE getTypeFromString(src, FALSE, context)

\* A store of right into a place of type t.  Only a named place takes NULL.
AssignTo(t, right, named) ==
  CASE right = Nullptr /\ named -> CreateStore(NullFor(t), t)
    [] right # Nullptr /\ right = t -> right
    [] right # t /\ isIntegerTy(right) /\ isDoubleTy(t) -> CreateStore(castIntToFloat(right), t)
    [] OTHER -> Error

\* An unknown field is reported, and a null instruction returned.
getStructField(field) ==
  IF field \in DOMAIN structTypes.fields
  THEN getTypeFromString(structTypes.fields[field].type, FALSE, structTypes.ctx)
  ELSE Abort("field")

\* The condition of a conditional.
Condition(c) ==
  LET t == IF c = Nullptr \/ isPointerTy(c) THEN castPointerToInt(c) ELSE c
  IN  CASE isDoubleTy(t) -> castFloatToBoolean(t)
        [] isIntegerTy(t) -> castIntToBoolean(t)
        [] OTHER -> Error

\* The result type of the function being compiled.
getFuncRetType ==
  IF lambda = "none" THEN generateFunction(Signatures[function]).ret
  ELSE getTypeFromString(
         Source(IF lambda \in {"int", "float"} THEN lambda ELSE "void", FALSE), TRUE, "lambda")

\* The value v is returned.
Returned(v) ==
  CASE v = Nullptr -> NullFor(getFuncRetType)
    [] v # Nullptr /\ isVoidTy(v) /\ isVoidTy(getFuncRetType) -> v
    [] v # Nullptr /\ v = getFuncRetType -> v
    [] isIntegerTy(v) /\ isDoubleTy(getFuncRetType) -> castIntToFloat(v)
    [] OTHER -> Error

-----------------------------------------------------------------------------

\* A variable: the type of its alloca, and the type it was declared with.
Variable(t, src) == [alloca |-> t, decl |-> src]

\* No entry, and the null entry namedValues[name] leaves behind.
Unset == Variable(Type("unset", "none"), Source("void", FALSE))
NullEntry == Variable(Nullptr, Source("void", FALSE))

Present(n) == namedValues[n] \notin {Unset, NullEntry}

\* The places an expression or an assignment may name.
PlaceKinds == {"ident", "deref", "derefField", "field"}
Indexed(kind) == kind \in {"deref", "derefField"}

\* The type of the place n, n[offset], n[offset].field or n.field.
Place(kind, n, field, offset) ==
  LET t == namedValues[n].alloca
      ref == CreateGEP(t, offset)
      struct == IF kind = "field" THEN t ELSE getPointedType(ref)
  IN  CASE ~Present(n) -> Error
        [] Present(n) /\ kind = "ident" -> t
        [] Present(n) /\ Indexed(kind) /\ Aborts(ref) -> ref
        [] Present(n) /\ kind = "deref" /\ ~Aborts(ref) -> getPointedType(ref)
        [] OTHER -> IF isStructTy(struct) THEN getStructField(field) ELSE Error

\* A place read: the offset is checked first, and the null instruction of
\* an unknown field is the value.  An assignment dereferences it.
Read(kind, n, field, offset) ==
  LET t == Place(kind, n, field, offset)
  IN  IF (Indexed(kind) /\ ~isIntegerTy(offset)) \/ t = Abort("field") THEN Error ELSE t

(***************************************************************************)
(* Constructs the visitor accepts without the check they would need.  A    *)
(* program may use those in Admitted.                                      *)
(*                                                                         *)
(*   int_logical  || or && of two integers, whose result stays an i1       *)
(*   loose_init   an initialiser whose type is not compared: a structure,  *)
(*                a void value, a pointer to neither int nor float, or the *)
(*                keyword void                                             *)
(*   loose_index  an index on what is not a pointer, or assigning through  *)
(*                an index that is not an integer                          *)
(*   redeclare    a structure declared under a name already in use         *)
(*   unknown_call a call, in a lambda, of a function nobody declared       *)
(*   mixed        in a lambda: a number of the main context as condition,  *)
(*                an integer for a float parameter, an integer or NULL     *)
(*                assigned to a variable of another type                   *)
(*   float_recon  a concurrent assignment to a float                       *)
(*   detached     a concurrent assignment to p[i], s.f or p[i].f, whose    *)
(*                address is computed while the builder has no block       *)
(*   user_call    a call, in a lambda, of a function of the program: the   *)
(*                main module is in no JIT yet, and the one of the lambdas *)
(*                dies on a name it cannot resolve                         *)
(*   empty_struct a structure without fields: its block has no statements  *)
(*   redefine     a second definition of the structure, with other fields  *)
(*   local_struct a structure defined in a lambda                          *)
(*   no_function  before the first function, while the builder has no      *)
(*                block: a definition or declaration of a variable, a      *)
(*                return, a conditional or a concurrent statement          *)
(***************************************************************************)
Admits(construct, uses) == uses => construct \in Admitted

LooseInit(src, v) ==
  \/ src.name = "void"
  \/ ~src.ptr /\ (isStructTy(v) \/ isVoidTy(v))
  \/ src.ptr /\ isPointerTy(v) /\ (v.ptr # 1 \/ v.base = "struct")

MixedArgument(f, args) ==
  \E i \in DOMAIN args :
    isIntegerTy(args[i]) /\ isDoubleTy(generateFunction(Signatures[f]).args[i])

-----------------------------------------------------------------------------

Init ==
  /\ namedValues = [n \in Names |-> Unset]
  /\ copyValues = namedValues
  /\ stack = << >>
  /\ structTypes = NoStruct
  /\ module = [f \in DOMAIN Signatures |-> "absent"]
  /\ function = "none"
  /\ lambda = "none"
  /\ executeCommit = "yes"
  /\ reconVector = << >>
  /\ error = "no"
  /\ process = "alive"

\* GetInsertBlock()->getParent(), before the visit can return r: the block is null as long
\* as no function was defined.
InsertBlock(r) == IF function = "none" THEN Abort("insert_block") ELSE r

\* What a visit reports: an error, a failed assertion, or nothing.
Report(r) ==
  /\ error' = IF r \in {Error, Abort("field")} THEN "yes" ELSE error
  /\ process' = IF Aborts(r) THEN r.base ELSE process

\* The visit of an expression returns r to the visit above it.
Yield(rest, r) ==
  /\ stack' = Append(rest, IF r = Error \/ Aborts(r) THEN Nullptr ELSE r)
  /\ Report(r)
  /\ UNCHANGED <<copyValues, structTypes, module, function, lambda, executeCommit, reconVector>>

\* The visit of a statement ends with the result r.
EndVisit(r) ==
  /\ stack' = << >>
  /\ Report(r)
  /\ lambda' = IF lambda = "statement" THEN "done" ELSE lambda
  /\ UNCHANGED <<copyValues, module, function, executeCommit, reconVector>>

Finish(r) == EndVisit(r) /\ UNCHANGED structTypes

\* A statement or an expression can be visited; an open group admits only lambdas.
Visiting ==
  /\ process = "alive"
  /\ lambda # "done"
  /\ lambda = "none" => executeCommit = "yes"

\* No visit of a statement is in progress, and no group is open.
TopLevel ==
  /\ process = "alive"
  /\ lambda = "none"
  /\ executeCommit = "yes"
  /\ stack = << >>

Room == Visiting /\ Len(stack) < MaxStack

Holds(k) == Visiting /\ Len(stack) = k

\* The last k values, and the ones below them.
LastOf(k) == SubSeq(stack, Len(stack) - k + 1, Len(stack))
Below(k) == SubSeq(stack, 1, Len(stack) - k)
Top == stack[Len(stack)]

-----------------------------------------------------------------------------

(***************************************************************************)
(* Expressions.                                                            *)
(***************************************************************************)
VisitInteger == Room /\ Yield(stack, Int64Ty) /\ UNCHANGED namedValues

VisitFloat == Room /\ Yield(stack, DoubleTy) /\ UNCHANGED namedValues

VisitNullLiteral == Room /\ Yield(stack, Nullptr) /\ UNCHANGED namedValues

\* An unknown variable, however it is used: the lookup adds a null entry.
VisitUnknown(n) ==
  /\ Room
  /\ ~Present(n)
  /\ namedValues' = [namedValues EXCEPT ![n] = NullEntry]
  /\ Yield(stack, Error)

\* Identifier, PointerExpression and StructureExpression.
VisitPlace(kind, n, field) ==
  /\ Present(n)
  /\ IF Indexed(kind)
     THEN /\ Visiting
          /\ stack # << >>
          /\ Admits("loose_index", isIntegerTy(Top) /\ ~isPointerTy(namedValues[n].alloca))
          /\ Yield(Below(1), Read(kind, n, field, Top))
     ELSE Room /\ Yield(stack, Read(kind, n, field, Nullptr))
  /\ UNCHANGED namedValues

VisitAddressOf(n) ==
  /\ Room
  /\ Present(n)
  /\ namedValues[n].alloca.ptr < MaxPtr
  /\ Yield(stack, PointerTo(namedValues[n].alloca))
  /\ UNCHANGED namedValues

\* The address of n[offset]: the GEP keeps the type of the pointer.
VisitAddressOfOffset(n) ==
  /\ Visiting
  /\ stack # << >>
  /\ Present(n)
  /\ Admits("loose_index", isIntegerTy(Top) /\ ~isPointerTy(namedValues[n].alloca))
  /\ Yield(Below(1), IF isIntegerTy(Top) THEN CreateGEP(namedValues[n].alloca, Top) ELSE Error)
  /\ UNCHANGED namedValues

VisitUnaryOperator(op) ==
  /\ Visiting
  /\ stack # << >>
  /\ Yield(Below(1), visitUnaryOperator(op, Top))
  /\ UNCHANGED namedValues

VisitBinaryOperator(op) ==
  /\ Visiting
  /\ Len(stack) > 1
  /\ LET left == stack[Len(stack) - 1]
     IN  /\ Admits("int_logical", op \in Logical /\ isIntegerTy(left) /\ isIntegerTy(Top))
         /\ Yield(Below(2), visitBinaryOperator(op, left, Top))
  /\ UNCHANGED namedValues

\* A lambda that calls a function of the program is refused by the JIT as soon as the
\* lambda is complete.
VisitFunctionCall(f) ==
  LET k == Len(Signatures[f].args)
  IN  /\ Visiting
      /\ module[f] # "absent"
      /\ Len(stack) \in k .. MaxStack + k - 1
      /\ Admits("mixed", context = "lambda" /\ MixedArgument(f, LastOf(k)))
      /\ LET unresolved == context = "lambda" /\ module[f] = "defined"
         IN  /\ Admits("user_call", unresolved)
             /\ Yield(Below(k), IF unresolved THEN Abort("unresolved")
                                ELSE visitFunctionCall(f, LastOf(k)))
      /\ UNCHANGED namedValues

\* A call of an unknown function, or with the wrong number of arguments:
\* the arguments are not visited.
VisitBadCall(f) ==
  /\ Room
  /\ LET unknown == context = "lambda" /\ module[f] = "absent"
     IN  /\ Admits("unknown_call", unknown)
         /\ Yield(stack, IF unknown THEN Abort("unknown_call") ELSE Error)
  /\ UNCHANGED namedValues

-----------------------------------------------------------------------------

(***************************************************************************)
(* Statements.  A lambda holds one statement, or a conditional and the     *)
(* statements of its blocks; an assignment is a lambda of its own kind.    *)
(***************************************************************************)
StatementHere == lambda \in {"none", "statement", "if"}

VisitExpressionStatement ==
  /\ Holds(1)
  /\ StatementHere
  /\ Finish(Top)
  /\ UNCHANGED namedValues

\* namedValues.insert leaves an entry that is already there alone.
Insert(n, t, src) ==
  [namedValues EXCEPT ![n] = CASE @ = Unset -> Variable(t, src)
                               [] @ = NullEntry -> @
                               [] OTHER -> Variable(@.alloca, src)]

Define(n, t, src) ==
  /\ namedValues' = IF t = Error \/ Aborts(t) THEN namedValues ELSE Insert(n, t, src)
  /\ Finish(t)

\* Outside of functions the visit ends before the initialiser, which may itself have added
\* the null entry.
VisitVariableDefinition(n, src) ==
  /\ StatementHere
  /\ \/ /\ Holds(0)
        /\ namedValues[n] = Unset
        /\ Admits("no_function", function = "none")
        /\ Define(n, InsertBlock(DefaultValue(src)), src)
     \/ /\ Holds(1)
        /\ function # "none"
        /\ ~Present(n)
        /\ Admits("loose_init", LooseInit(src, Top))
        /\ Define(n, CreateAlloca(Initialised(src, Top)), src)

\* Attempt to redefine variable: the initialiser is not visited.
VisitRedefinition(n) ==
  /\ Holds(0)
  /\ StatementHere
  /\ namedValues[n] # Unset
  /\ Finish(Error)
  /\ UNCHANGED namedValues

VisitStructureDeclaration(n, isPointer) ==
  LET src == Source("struct", isPointer)
  IN  /\ Holds(0)
      /\ StatementHere
      /\ Admits("no_function", function = "none")
      /\ Admits("redeclare", Present(n))
      /\ Define(n, InsertBlock(getTypeFromString(src, FALSE, "main")), src)

\* A field the definition of a structure rejects: one with an initial value, of type void,
\* of the structure itself or of one nobody defined.
BadField(d) ==
  \/ d.init
  \/ d.type.name = "unknown"
  \/ d.type.name \in {"void", "struct"} /\ ~d.type.ptr

\* structTypes.insert leaves a structure that is already there alone.
VisitStructureDefinition(def) ==
  LET r == CASE DOMAIN def = {} -> Abort("empty_struct")
             [] \E f \in DOMAIN def : BadField(def[f]) -> Error
             [] OTHER -> Nullptr
  IN  /\ TopLevel \/ (Holds(0) /\ lambda \in {"statement", "if"})
      /\ Admits("empty_struct", DOMAIN def = {})
      /\ Admits("local_struct", context = "lambda")
      /\ Admits("redefine", r = Nullptr /\ structTypes # NoStruct /\ structTypes.fields # def)
      /\ structTypes' = CASE r # Nullptr -> structTypes
                          [] r = Nullptr /\ structTypes = NoStruct ->
                               [fields |-> def, decl |-> def, ctx |-> context]
                          [] OTHER -> [structTypes EXCEPT !.decl = def]
      /\ EndVisit(r)
      /\ UNCHANGED namedValues

\* Its blocks need a function: the condition is visited and converted before that.
VisitIfStatement ==
  LET c == Condition(Top)
      branch == IF c = Error \/ Aborts(c) THEN c ELSE InsertBlock(c)
  IN  /\ Holds(1)
      /\ StatementHere
      /\ Admits("mixed", /\ context = "lambda"
                         /\ Top.ctx = "main"
                         /\ isIntegerTy(Top) \/ isDoubleTy(Top))
      /\ Admits("no_function", branch = Abort("insert_block"))
      /\ stack' = << >>
      /\ Report(branch)
      /\ lambda' = CASE lambda = "none" -> "none"
                     [] c = Error /\ lambda = "statement" -> "done"
                     [] OTHER -> "if"
      /\ UNCHANGED <<namedValues, copyValues, structTypes, module, function, executeCommit,
                     reconVector>>

\* Outside of functions the visit ends before the value returned.
VisitReturnStatement ==
  /\ StatementHere
  /\ \/ Holds(1) /\ function # "none" /\ Finish(Returned(Top))
     \/ /\ Holds(0)
        /\ Admits("no_function", function = "none")
        /\ Finish(InsertBlock(IF isVoidTy(getFuncRetType) THEN Nullptr ELSE Error))
  /\ UNCHANGED namedValues

\* The right side is visited before the offset of the left one.
VisitAssignStatement(kind, n, field) ==
  LET right == stack[1]
      offset == stack[2]
      place == Place(kind, n, field, offset)
  IN  /\ lambda \in {"none", "if"}
      /\ IF Indexed(kind) /\ Present(n) THEN Holds(2) ELSE Holds(1)
      /\ Admits("loose_index", /\ Indexed(kind) /\ Present(n)
                               /\ ~isPointerTy(namedValues[n].alloca) \/ ~isIntegerTy(offset))
      /\ Admits("mixed", /\ context = "lambda"
                         /\ place.ctx = "main"
                         /\ \/ right = Nullptr /\ isPointerTy(place)
                            \/ isIntegerTy(right) /\ isDoubleTy(place))
      /\ Finish(IF place = Error \/ Aborts(place) THEN place
                ELSE AssignTo(place, right, kind # "deref"))
      /\ namedValues' = IF Present(n) THEN namedValues
                        ELSE [namedValues EXCEPT ![n] = NullEntry]

-----------------------------------------------------------------------------

(***************************************************************************)
(* Concurrent statements.  The first of a group defines the variable cid.  *)
(* The environment is built from namedValues, so a null entry is           *)
(* dereferenced; then the statement is visited in the lambda's context,    *)
(* for an assignment after its target in the main one.                     *)
(***************************************************************************)
EnterLambda(kind) ==
  /\ process = "alive"
  /\ lambda = "none"
  /\ stack = << >>
  /\ Len(reconVector) < MaxRecon
  /\ Admits("no_function", function = "none")
  /\ executeCommit' = "no"
  /\ copyValues' = namedValues
  /\ lambda' = kind
  /\ reconVector' = IF kind = "target" THEN reconVector
                    ELSE Append(reconVector, Type("void", "main"))
  /\ Report(InsertBlock(IF \E n \in Names : namedValues[n] = NullEntry
                        THEN Abort("entry") ELSE Nullptr))
  /\ UNCHANGED <<namedValues, stack, structTypes, module, function>>

\* makeSched: the target's type decides what the lambda returns.  Without
\* one the lambda's signature is invalid and its body is not visited.
VisitTarget(kind, n, field) ==
  LET offset == stack[1]
      place == Place(kind, n, field, offset)
      keyword == makeSched(place)
  IN  /\ lambda = "target"
      /\ IF Indexed(kind) /\ Present(n) THEN Holds(1) ELSE Holds(0)
      /\ Admits("loose_index", /\ Indexed(kind) /\ Present(n)
                               /\ ~isPointerTy(namedValues[n].alloca) \/ ~isIntegerTy(offset))
      /\ Admits("float_recon", keyword = "float")
      /\ Admits("detached", keyword # "none" /\ kind # "ident")
      /\ stack' = << >>
      /\ Report(IF keyword = "none" /\ ~Aborts(place) THEN Error ELSE place)
      /\ lambda' = IF keyword = "none" THEN "done" ELSE keyword
      /\ reconVector' = IF place = Error \/ Aborts(place) THEN reconVector
                        ELSE Append(reconVector, IF kind = "ident" THEN place
                                                                   ELSE Detached(place))
      /\ UNCHANGED <<namedValues, copyValues, structTypes, module, function, executeCommit>>

\* The right side is what the lambda of an assignment returns.
ReturnFromLambda ==
  /\ Holds(1)
  /\ lambda \in {"int", "float"}
  /\ stack' = << >>
  /\ Report(Returned(Top))
  /\ lambda' = "done"
  /\ UNCHANGED <<namedValues, copyValues, structTypes, module, function, executeCommit, reconVector>>

\* The main context again: the variables of before and the scheduling call.
LeaveLambda ==
  LET int == Type("i64", "main")
  IN  /\ process = "alive"
      /\ lambda \in {"done", "if"}
      /\ stack = << >>
      /\ namedValues' = copyValues
      /\ copyValues' = [n \in Names |-> Unset]
      /\ lambda' = "none"
      /\ Report(CreateCall(schedSignature, <<PointerTo(int), PointerTo(int), int, int>>))
      /\ UNCHANGED <<stack, structTypes, module, function, executeCommit, reconVector>>

\* The reconciling calls, up to the first target no call exists for.
Commit ==
  LET stops == {i \in DOMAIN reconVector : reconCall(reconVector[i]) = Error}
      calls == {reconCall(reconVector[i]) :
                  i \in {j \in DOMAIN reconVector : \A k \in stops : j < k}}
  IN  /\ process = "alive"
      /\ lambda = "none"
      /\ executeCommit = "no"
      /\ executeCommit' = "yes"
      /\ Report(IF \E c \in calls : Aborts(c) THEN CHOOSE c \in calls : Aborts(c) ELSE Nullptr)
      /\ UNCHANGED <<namedValues, copyValues, stack, structTypes, module, function, lambda, reconVector>>

-----------------------------------------------------------------------------

(***************************************************************************)
(* Functions.                                                              *)
(***************************************************************************)
VisitFunctionDefinition(f) ==
  LET params == Signatures[f].args
  IN  /\ TopLevel
      /\ IF module[f] = "defined" \/ ~ValidSignature(Signatures[f])
         THEN Report(Error) /\ UNCHANGED <<namedValues, module, function>>
         ELSE /\ Report(Nullptr)
              /\ function' = f
              /\ module' = [module EXCEPT ![f] = "defined"]
              /\ namedValues' = [n \in Names |->
                   IF \E i \in DOMAIN params : params[i].ident = n
                   THEN LET src == (CHOOSE p \in {params[i] : i \in DOMAIN params} :
                                      p.ident = n).type
                        IN  Variable(getTypeFromString(src, FALSE, "main"), src)
                   ELSE Unset]
      /\ UNCHANGED <<copyValues, stack, structTypes, lambda, executeCommit, reconVector>>

VisitExternStatement(f) ==
  /\ TopLevel
  /\ LET valid == module[f] # "absent" \/ ValidSignature(Signatures[f])
     IN  /\ Report(IF valid THEN Nullptr ELSE Error)
         /\ module' = IF valid /\ module[f] = "absent"
                      THEN [module EXCEPT ![f] = "declared"] ELSE module
  /\ UNCHANGED <<namedValues, copyValues, stack, structTypes, function, lambda, executeCommit,
                 reconVector>>

-----------------------------------------------------------------------------

SourceTypes == [name : {"int", "float", "void"}, ptr : BOOLEAN]

Next ==
  \/ VisitInteger \/ VisitFloat \/ VisitNullLiteral
  \/ \E n \in Names : VisitUnknown(n) \/ VisitAddressOf(n) \/ VisitAddressOfOffset(n)
                        \/ VisitRedefinition(n)
  \/ \E kind \in PlaceKinds, n \in Names, field \in FieldNames :
       \/ VisitPlace(kind, n, field)
       \/ VisitAssignStatement(kind, n, field)
       \/ VisitTarget(kind, n, field)
  \/ \E op \in {"-", "!", "new"} : VisitUnaryOperator(op)
  \/ \E op \in Arithmetic \cup Comparisons \cup Logical : VisitBinaryOperator(op)
  \/ \E f \in DOMAIN Signatures : \/ VisitFunctionCall(f) \/ VisitBadCall(f)
                                  \/ VisitFunctionDefinition(f) \/ VisitExternStatement(f)
  \/ \E n \in Names, src \in SourceTypes : VisitVariableDefinition(n, src)
  \/ \E n \in Names, isPointer \in BOOLEAN : VisitStructureDeclaration(n, isPointer)
  \/ \E def \in StructDefs : VisitStructureDefinition(def)
  \/ VisitExpressionStatement \/ VisitIfStatement \/ VisitReturnStatement
  \/ \E kind \in {"statement", "target"} : EnterLambda(kind)
  \/ ReturnFromLambda \/ LeaveLambda \/ Commit

Spec == Init /\ [][Next]_typeVars

-----------------------------------------------------------------------------

Bases == {"i64", "i1", "double", "void", "struct"}
Types == [base : Bases, ptr : 0 .. MaxPtr, ctx : {"main", "lambda"}]
Keywords == [name : {"int", "float", "void", "struct"}, ptr : BOOLEAN]
Variables ==
  [alloca : {t \in Types : ~isVoidTy(t)}, decl : Keywords] \cup {Unset, NullEntry}

(***************************************************************************)
(* Types of the variables: what the visits of CodeGenVisitor hold is a     *)
(* value of an LLVM type or null, and no variable is of type void.         *)
(***************************************************************************)
TypeOK ==
  /\ namedValues \in [Names -> Variables]
  /\ copyValues \in [Names -> Variables]
  /\ stack \in Seq(Types \cup {Nullptr}) /\ Len(stack) <= MaxStack
  /\ structTypes = NoStruct \/ structTypes.fields \in StructDefs
  /\ module \in [DOMAIN Signatures -> {"absent", "declared", "defined"}]
  /\ function \in DOMAIN Signatures \cup {"none"}
  /\ lambda \in {"none", "target", "statement", "if", "int", "float", "done"}
  /\ executeCommit \in {"yes", "no"}
  /\ reconVector \in Seq(Types \cup {Detached(t) : t \in Types}) /\ Len(reconVector) <= MaxRecon
  /\ error \in {"yes", "no"}
  /\ process \in {"alive", "icmp", "fcmp", "store", "alloca", "signature", "gep", "field",
                  "entry", "unknown_call", "unresolved", "detached", "empty_struct",
                  "insert_block"}

(***************************************************************************)
(* The checks of codeGenVisitor.cpp cover LLVM's: the compiler is only     *)
(* ever ended by an assertion or a null pointer after it reported an error *)
(* of the program.  It is claimed of the programs this module considers    *)
(* (see its head) that use none of the constructs listed before Admits.    *)
(***************************************************************************)
DiagnosedAbort == process # "alive" => error = "yes"

(***************************************************************************)
(* LLVM's assertion in CallInst::init (llvm/lib/IR/Instructions.cpp:240),  *)
(* "Calling a function with a bad signature!": the calls visitBlock and    *)
(* visitFunctionCall build have the parameter types of the callee.         *)
(***************************************************************************)
CallsMatchSignature == process = "signature" => error = "yes"

(***************************************************************************)
(* A variable of an accepted program holds what it was declared to hold:   *)
(* the alloca of visitVariableDefinition and visitStructureDeclaration,    *)
(* made from the type of the initial value, has the declared type, and a   *)
(* structure has the fields of its latest definition.                      *)
(***************************************************************************)
DeclaredType ==
  error = "no" =>
    /\ structTypes.fields = structTypes.decl
    /\ \A n \in Names : Present(n) =>
         namedValues[n].alloca =
           getTypeFromString(namedValues[n].decl, FALSE, namedValues[n].alloca.ctx)

IsNumber(t) == isIntegerTy(t) \/ isDoubleTy(t)

\* The type an operator should give for two numbers.
NumberType(op, l, r) ==
  CASE op \in Logical /\ isIntegerTy(l) /\ isIntegerTy(r) -> Type("i1", context)
    [] op \in Arithmetic /\ (isDoubleTy(l) \/ isDoubleTy(r)) -> DoubleTy
    [] OTHER -> Int64Ty

(***************************************************************************)
(* Operators on numbers give numbers: visitUnaryOperator and               *)
(* visitBinaryOperator accept any two numbers the visitor holds, whichever *)
(* context they come from.  The result is of the context being compiled: a *)
(* double for arithmetic with a double, an i64 otherwise.  Only || and &&  *)
(* of two integers leave the i1 LLVM made, where every other operator and  *)
(* the float case widen it (the construct int_logical).                    *)
(***************************************************************************)
OperatorsClosed ==
  \A i, j \in DOMAIN stack : i < j /\ IsNumber(stack[i]) /\ IsNumber(stack[j]) =>
    /\ \A op \in Arithmetic \cup Comparisons \cup Logical :
         visitBinaryOperator(op, stack[i], stack[j]) = NumberType(op, stack[i], stack[j])
    /\ visitUnaryOperator("-", stack[i]) = IF isDoubleTy(stack[i]) THEN DoubleTy ELSE Int64Ty
    /\ visitUnaryOperator("!", stack[i]) = Int64Ty

=============================================================================

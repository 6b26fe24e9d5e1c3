-------------------------- MODULE TypeRulesProofs --------------------------
(***************************************************************************)
(* What the type rules of CodeGenVisitor guarantee for every program: any  *)
(* number of variables, functions and structures, expressions of any size  *)
(* and pointers of any depth.                                              *)
(***************************************************************************)
EXTENDS TypeRules, SequenceTheorems, TLAPS

Contexts == {"main", "lambda"}

Values == Types \cup {Nullptr}

Assertions ==
  {"icmp", "fcmp", "store", "alloca", "signature", "gep", "field", "entry", "unknown_call",
   "unresolved", "detached", "empty_struct", "insert_block"}

\* What a visit can return: a value, nothing, an error or the end of the compiler.
Result == Values \cup {Error} \cup {Abort(a) : a \in Assertions}

\* The structure is not defined, or registered with the types of one context.
StructInv ==
  structTypes = NoStruct \/
  structTypes \in [fields : StructDefs, decl : StructDefs, ctx : Contexts]

\* The statement whose target is visited will have its place in reconVector.
TargetInv == lambda = "target" => Len(reconVector) < MaxRecon

TypeInv == TypeOK /\ StructInv /\ TargetInv

-----------------------------------------------------------------------------

LEMMA ContextIsOne == context \in Contexts
BY DEF context, Contexts

LEMMA TypeIsType ==
  ASSUME NEW b \in Bases, NEW c \in Contexts
  PROVE  Type(b, c) \in Types /\ PointerTo(Type(b, c)) \in Types
BY BoundsAssumption DEF Type, Types, PointerTo, Contexts

LEMMA BuilderTypes ==
  /\ Int64Ty \in Types /\ DoubleTy \in Types
  /\ PointerTo(Int64Ty) \in Types /\ PointerTo(DoubleTy) \in Types
BY ContextIsOne, TypeIsType DEF Int64Ty, DoubleTy, Bases

\* The values, errors and failed assertions are told apart by their context.
LEMMA Kinds ==
  /\ \A t \in Types : t # Nullptr /\ t # Error /\ ~Aborts(t)
  /\ Nullptr # Error /\ ~Aborts(Nullptr) /\ ~Aborts(Error)
  /\ \A a : Aborts(Abort(a)) /\ Abort(a).base = a
BY DEF Types, Nullptr, Error, Aborts, Abort, Type

LEMMA ResultReported ==
  ASSUME NEW r \in Result
  PROVE  /\ r = Error \/ Aborts(r) \/ r \in Values
         /\ Aborts(r) => r.base \in Assertions
BY Kinds DEF Result, Values

LEMMA SourceTypesTyped ==
  ASSUME StructInv, NEW src, IsSource(src), NEW allowsVoid \in BOOLEAN, NEW c \in Contexts
  PROVE  LET t == getTypeFromString(src, allowsVoid, c)
         IN  \/ t = Error
             \/ /\ t \in Types
                /\ src \in Keywords
                /\ ~allowsVoid => ~isVoidTy(t)
<1>1. PICK b : b = BaseFromString(src, c)
  OBVIOUS
<1>2. src.ptr \in BOOLEAN /\ src = [name |-> src.name, ptr |-> src.ptr]
  BY DEF IsSource
<1>3. \/ b = Error
      \/ /\ src.name \in {"int", "float", "void", "struct"}
         /\ \E base \in Bases, x \in Contexts : b = Type(base, x) /\ (src.ptr => base # "void")
  BY <1>1, <1>2 DEF BaseFromString, StructInv, Bases
<1>4. CASE b = Error
  BY <1>1, <1>4 DEF getTypeFromString
<1>5. CASE b # Error
  <2>1. PICK base \in Bases, x \in Contexts : b = Type(base, x) /\ (src.ptr => base # "void")
    BY <1>3, <1>5
  <2>2. src \in Keywords
    BY <1>2, <1>3, <1>5 DEF Keywords
  <2>3. b \in Types /\ PointerTo(b) \in Types /\ ~isVoidTy(PointerTo(b))
    BY <2>1, TypeIsType DEF isVoidTy, PointerTo, Type
  <2> QED
    BY <1>1, <1>2, <1>5, <2>2, <2>3 DEF getTypeFromString
<1> QED
  BY <1>4, <1>5

LEMMA NullForTyped ==
  ASSUME NEW t \in Types \cup {Error}
  PROVE  NullFor(t) \in Types \cup {Error}
BY BuilderTypes DEF NullFor, getIntNullPointer, getFloatNullPointer

-----------------------------------------------------------------------------

(***************************************************************************)
(* Operators.  Their operands are brought to the types of the builder.     *)
(***************************************************************************)
LEMMA Casts ==
  /\ castIntToBoolean(Int64Ty) = Type("i1", context)
  /\ castFloatToBoolean(DoubleTy) = Type("i1", context)
  /\ castBooleantoInt(Type("i1", context)) = Int64Ty
  /\ castIntToPointer(Type("i1", context)) = PointerTo(Int64Ty)
  /\ castIntToPointer(Int64Ty) = PointerTo(Int64Ty)
<1>1. ~Aborts(Type("i1", context)) /\ ~Aborts(Int64Ty)
  BY ContextIsOne DEF Aborts, Type, Contexts, Int64Ty
<1>2. Int64Ty.ctx = context /\ DoubleTy.ctx = context
  BY DEF Int64Ty, DoubleTy, Type
<1> QED
  BY <1>1, <1>2 DEF castIntToBoolean, castFloatToBoolean, castBooleantoInt,
    castIntToPointer, CreateICmp, CreateFCmp

LEMMA BuilderKinds ==
  /\ isIntegerTy(Int64Ty) /\ isDoubleTy(DoubleTy) /\ Int64Ty # DoubleTy
  /\ ~isDoubleTy(Int64Ty) /\ ~isIntegerTy(DoubleTy)
  /\ ~isPointerTy(Int64Ty) /\ ~isPointerTy(DoubleTy)
  /\ isPointerTy(PointerTo(Int64Ty))
BY DEF Int64Ty, DoubleTy, Type, isIntegerTy, isDoubleTy, isPointerTy, PointerTo

LEMMA Shapes ==
  ASSUME NEW t \in Types
  PROVE  /\ isPointerTy(t) => ~isIntegerTy(t) /\ ~isDoubleTy(t) /\ ~isVoidTy(t) /\ ~isStructTy(t)
         /\ isIntegerTy(t) => ~isDoubleTy(t) /\ ~isVoidTy(t) /\ ~isStructTy(t)
         /\ isDoubleTy(t) => ~isVoidTy(t) /\ ~isStructTy(t)
         /\ isPointerTy(t) \/ isIntegerTy(t) \/ isDoubleTy(t) \/ isVoidTy(t) \/ isStructTy(t)
BY DEF Types, Bases, isPointerTy, isIntegerTy, isDoubleTy, isVoidTy, isStructTy

LEMMA NumbersAreValues ==
  ASSUME NEW t, IsNumber(t)
  PROVE  NullAsPointer(t) = t /\ ~isVoidTy(t) /\ ~isPointerTy(t)
BY DEF IsNumber, isIntegerTy, isDoubleTy, isVoidTy, isPointerTy, NullAsPointer, Nullptr, Type

LEMMA WidenedOwn ==
  ASSUME NEW t
  PROVE  /\ isIntegerTy(t) => Widened(t) \in {Int64Ty, t}
         /\ isIntegerTy(t) /\ ~Aborts(t) => Widened(t) = Int64Ty
         /\ isDoubleTy(t) => Widened(t) = DoubleTy
         /\ ~isIntegerTy(t) /\ ~isDoubleTy(t) => Widened(t) = t
BY DEF Widened, castBooleantoInt, isIntegerTy, isDoubleTy

\* What an operand is when the operator is applied.
LEMMA WidenedTypes ==
  ASSUME NEW t \in Types
  PROVE  \/ isIntegerTy(t) /\ Widened(t) = Int64Ty
         \/ isDoubleTy(t) /\ Widened(t) = DoubleTy
         \/ /\ isPointerTy(t) \/ isVoidTy(t) \/ isStructTy(t)
            /\ Widened(t) = t
BY WidenedOwn, Shapes, Kinds

LEMMA NullAsPointerTyped ==
  ASSUME NEW t \in Values
  PROVE  NullAsPointer(t) \in Types
BY BuilderTypes DEF NullAsPointer, Values, getIntNullPointer

LEMMA UnaryResults ==
  ASSUME NEW exp \in Values, NEW op
  PROVE  visitUnaryOperator(op, exp) \in {PointerTo(Int64Ty), Int64Ty, DoubleTy, Error}
<1>1. PICK t : t = Widened(NullAsPointer(exp))
  OBVIOUS
<1>2. /\ isIntegerTy(t) => t = Int64Ty
      /\ isDoubleTy(t) => t = DoubleTy
  BY <1>1, NullAsPointerTyped, WidenedTypes, Shapes, BuilderKinds
<1> QED
  BY <1>1, <1>2, Casts DEF visitUnaryOperator, castPointerToInt

LEMMA IntResults ==
  ASSUME NEW op \in Arithmetic \cup Comparisons \cup Logical
  PROVE  /\ op \notin Logical => IntOperator(op, Int64Ty) = Int64Ty
         /\ op \in Logical => IntOperator(op, Int64Ty) = Type("i1", context)
<1>1. CreateICmp(Int64Ty, Int64Ty) = Type("i1", context)
  BY DEF CreateICmp, Int64Ty, Type
<1>2. Arithmetic \cap Logical = {} /\ Comparisons \cap Logical = {}
      /\ Arithmetic \cap Comparisons = {}
  BY DEF Arithmetic, Comparisons, Logical
<1> QED
  BY <1>1, <1>2, Casts DEF IntOperator

LEMMA FloatResults ==
  ASSUME NEW op \in Arithmetic \cup Comparisons \cup Logical
  PROVE  FloatOperator(op, DoubleTy) = IF op \in Arithmetic THEN DoubleTy ELSE Int64Ty
<1>1. CreateFCmp(DoubleTy, DoubleTy) = Type("i1", context)
  BY DEF CreateFCmp, DoubleTy, Type
<1>2. Arithmetic \cap Logical = {} /\ Comparisons \cap Logical = {}
      /\ Arithmetic \cap Comparisons = {}
  BY DEF Arithmetic, Comparisons, Logical
<1> QED
  BY <1>1, <1>2, Casts DEF FloatOperator

LEMMA BinaryResults ==
  ASSUME NEW left \in Values, NEW right \in Values,
         NEW op \in Arithmetic \cup Comparisons \cup Logical
  PROVE  LET r == visitBinaryOperator(op, left, right)
         IN  \/ r \in {PointerTo(Int64Ty), Int64Ty, DoubleTy, Error}
             \/ /\ r = Type("i1", context)
                /\ op \in Logical /\ isIntegerTy(left) /\ isIntegerTy(right)
<1>1. PICK l0, r0 : l0 = NullAsPointer(left) /\ r0 = NullAsPointer(right)
  OBVIOUS
<1>2. PICK l1, r1 :
        /\ l1 = Widened(IF isIntegerTy(l0) /\ isDoubleTy(r0) THEN castIntToFloat(l0) ELSE l0)
        /\ r1 = Widened(IF isDoubleTy(l0) /\ isIntegerTy(r0) THEN castIntToFloat(r0) ELSE r0)
  OBVIOUS
<1>3. PICK l, r : /\ l = IF isPointerTy(l1) THEN castPointerToInt(l1) ELSE l1
                  /\ r = IF isPointerTy(r1) THEN castPointerToInt(r1) ELSE r1
  OBVIOUS
<1>4. visitBinaryOperator(op, left, right) =
        CASE isVoidTy(l0) \/ isVoidTy(r0) -> Error
          [] l # r -> Error
          [] l = r /\ (isPointerTy(l1) \/ isPointerTy(r1)) -> castIntToPointer(IntOperator(op, l))
          [] l = r /\ ~(isPointerTy(l1) \/ isPointerTy(r1)) /\ l = DoubleTy -> FloatOperator(op, l)
          [] l = r /\ ~(isPointerTy(l1) \/ isPointerTy(r1)) /\ l = Int64Ty -> IntOperator(op, l)
          [] OTHER -> Error
  BY <1>1, <1>2, <1>3 DEF visitBinaryOperator
<1>5. l0 \in Types /\ r0 \in Types
  BY <1>1, NullAsPointerTyped
<1>6. Widened(castIntToFloat(l0)) = DoubleTy /\ Widened(castIntToFloat(r0)) = DoubleTy
  BY BuilderTypes, BuilderKinds, WidenedTypes, Shapes DEF castIntToFloat
<1>7. /\ l1 = Int64Ty => isIntegerTy(l0)
      /\ r1 = Int64Ty => isIntegerTy(r0)
  BY <1>2, <1>5, <1>6, WidenedTypes, Shapes, BuilderKinds, BuilderTypes
<1>8. /\ isIntegerTy(l0) => isIntegerTy(left)
      /\ isIntegerTy(r0) => isIntegerTy(right)
  BY <1>1, BuilderKinds, BuilderTypes, Shapes DEF NullAsPointer, getIntNullPointer
<1>9. isPointerTy(l1) \/ isPointerTy(r1) => l = Int64Ty \/ r = Int64Ty
  BY <1>3 DEF castPointerToInt
<1>10. castIntToPointer(IntOperator(op, Int64Ty)) = PointerTo(Int64Ty)
  BY IntResults, Casts
<1>11. FloatOperator(op, DoubleTy) \in {Int64Ty, DoubleTy}
  BY FloatResults
<1>12. CASE isVoidTy(l0) \/ isVoidTy(r0) \/ l # r
  <2>1. visitBinaryOperator(op, left, right) = Error
    <3>1. CASE isVoidTy(l0) \/ isVoidTy(r0)
      <4>1. /\ isVoidTy(l0) => l = l0 /\ l1 = l0 /\ ~isPointerTy(l0)
            /\ isVoidTy(r0) => r = r0 /\ r1 = r0 /\ ~isPointerTy(r0)
        BY <1>2, <1>3, <1>5, WidenedTypes, Shapes
      <4>2. /\ ~isVoidTy(Int64Ty) /\ ~isVoidTy(DoubleTy)
        BY BuilderTypes, BuilderKinds, Shapes
      <4>3. l = r => l # Int64Ty /\ l # DoubleTy /\ ~(isPointerTy(l1) \/ isPointerTy(r1))
        BY <1>3, <3>1, <4>1, <4>2 DEF castPointerToInt
      <4> QED
        BY <1>4, <3>1, <4>3
    <3>2. CASE ~(isVoidTy(l0) \/ isVoidTy(r0)) /\ l # r
      BY <1>4, <3>2
    <3> QED
      BY <1>12, <3>1, <3>2
  <2> QED
    BY <2>1
<1>13. CASE ~isVoidTy(l0) /\ ~isVoidTy(r0) /\ l = r /\ (isPointerTy(l1) \/ isPointerTy(r1))
  BY <1>4, <1>9, <1>10, <1>13
<1>14. CASE ~isVoidTy(l0) /\ ~isVoidTy(r0) /\ l = r /\ ~(isPointerTy(l1) \/ isPointerTy(r1))
  <2>1. l = l1 /\ r = r1
    BY <1>3, <1>14
  <2>2. CASE l = DoubleTy
    <3>1. visitBinaryOperator(op, left, right) = FloatOperator(op, l)
      BY <1>4, <1>14, <2>2, BuilderKinds
    <3> QED
      BY <1>11, <2>2, <3>1
  <2>3. CASE l = Int64Ty
    BY <1>4, <1>7, <1>8, <1>14, <2>1, <2>3, IntResults, BuilderKinds
  <2>4. CASE l # DoubleTy /\ l # Int64Ty
    BY <1>4, <1>14, <2>4
  <2> QED
    BY <2>2, <2>3, <2>4
<1> QED
  BY <1>12, <1>13, <1>14

\* Two numbers, of any context, give a number of the builder's own.
LEMMA NumbersClosed ==
  ASSUME NEW left \in Types, NEW right \in Types, IsNumber(left), IsNumber(right),
         NEW op \in Arithmetic \cup Comparisons \cup Logical
  PROVE  visitBinaryOperator(op, left, right) = NumberType(op, left, right)
<1>1. NullAsPointer(left) = left /\ NullAsPointer(right) = right
      /\ ~isVoidTy(left) /\ ~isVoidTy(right)
  BY NumbersAreValues
<1>2. Widened(castIntToFloat(left)) = DoubleTy /\ Widened(castIntToFloat(right)) = DoubleTy
  BY BuilderTypes, BuilderKinds, WidenedTypes, Shapes DEF castIntToFloat
<1>3. op \in Logical => op \notin Arithmetic
  BY DEF Arithmetic, Logical
<1>4. CASE isIntegerTy(left) /\ isIntegerTy(right)
  <2>1. Widened(left) = Int64Ty /\ Widened(right) = Int64Ty
        /\ ~isDoubleTy(left) /\ ~isDoubleTy(right)
    BY <1>4, WidenedTypes, Shapes
  <2>2. visitBinaryOperator(op, left, right) = IntOperator(op, Int64Ty)
    BY <1>1, <2>1, BuilderKinds DEF visitBinaryOperator
  <2> QED
    BY <1>4, <2>1, <2>2, IntResults DEF NumberType
<1>5. CASE isDoubleTy(left) \/ isDoubleTy(right)
  <2>1. Widened(IF isIntegerTy(left) /\ isDoubleTy(right) THEN castIntToFloat(left) ELSE left)
          = DoubleTy
    BY <1>2, <1>5, WidenedTypes, Shapes DEF IsNumber
  <2>2. Widened(IF isDoubleTy(left) /\ isIntegerTy(right) THEN castIntToFloat(right) ELSE right)
          = DoubleTy
    BY <1>2, <1>5, WidenedTypes, Shapes DEF IsNumber
  <2>3. visitBinaryOperator(op, left, right) = FloatOperator(op, DoubleTy)
    BY <1>1, <2>1, <2>2, BuilderKinds DEF visitBinaryOperator
  <2>4. ~(isIntegerTy(left) /\ isIntegerTy(right))
    BY <1>5, Shapes
  <2> QED
    BY <1>3, <1>5, <2>3, <2>4, FloatResults DEF NumberType
<1> QED
  BY <1>4, <1>5 DEF IsNumber

LEMMA NumberClosed ==
  ASSUME NEW exp \in Types, IsNumber(exp)
  PROVE  /\ visitUnaryOperator("-", exp) = IF isDoubleTy(exp) THEN DoubleTy ELSE Int64Ty
         /\ visitUnaryOperator("!", exp) = Int64Ty
<1>1. NullAsPointer(exp) = exp
  BY NumbersAreValues
<1>2. \/ isIntegerTy(exp) /\ ~isDoubleTy(exp) /\ Widened(exp) = Int64Ty
      \/ isDoubleTy(exp) /\ Widened(exp) = DoubleTy
  BY WidenedTypes, Shapes DEF IsNumber
<1> QED
  BY <1>1, <1>2, Casts, BuilderKinds DEF visitUnaryOperator

-----------------------------------------------------------------------------

(***************************************************************************)
(* Calls, places and statements.                                           *)
(***************************************************************************)
LEMMA ParameterTyped ==
  ASSUME StructInv, NEW f \in DOMAIN Signatures
  PROVE  /\ generateFunction(Signatures[f]).ret \in Types \cup {Error}
         /\ DOMAIN generateFunction(Signatures[f]).args = DOMAIN Signatures[f].args
         /\ \A i \in DOMAIN Signatures[f].args :
              /\ generateFunction(Signatures[f]).args[i] \in Types \cup {Error}
              /\ ~isVoidTy(generateFunction(Signatures[f]).args[i])
<1>1. "main" \in Contexts /\ ~isVoidTy(Error)
  BY DEF Contexts, isVoidTy, Error, Type
<1> QED
  BY <1>1, ProgramAssumption, SourceTypesTyped DEF generateFunction

LEMMA ArgumentTyped ==
  ASSUME NEW a \in Values, NEW p \in Types \cup {Error}
  PROVE  Argument(a, p) \in Types \cup {Error}
<1>1. NullFor(p) \in Types \cup {Error}
  BY NullForTyped
<1> QED
  BY <1>1, BuilderTypes DEF Argument, castIntToFloat, Values

LEMMA CallTyped ==
  ASSUME StructInv, NEW f \in DOMAIN Signatures, NEW args
  PROVE  visitFunctionCall(f, args) \in Result
BY ParameterTyped DEF visitFunctionCall, CreateCall, Result, Values, Assertions

LEMMA InitialisedTyped ==
  ASSUME NEW src, IsSource(src), NEW v \in Values
  PROVE  Initialised(src, v) \in Types \cup {Error}
BY BuilderTypes
DEF Initialised, getIntNullPointer, getFloatNullPointer, castIntToFloat, Values,
  isPointerTy, Nullptr, Type

LEMMA AllocaTyped ==
  ASSUME NEW t \in Types \cup {Error}
  PROVE  \/ CreateAlloca(t) = Abort("alloca")
         \/ CreateAlloca(t) = t /\ ~isVoidTy(t)
BY DEF CreateAlloca

LEMMA DefaultTyped ==
  ASSUME StructInv, NEW src, IsSource(src)
  PROVE  LET t == DefaultValue(src)
         IN  t = Error \/ (t \in Types /\ ~isVoidTy(t))
<1>1. src.ptr \in BOOLEAN
  BY DEF IsSource
<1>2. CASE src.ptr
  <2>1. Initialised(src, Nullptr) \in {getIntNullPointer, getFloatNullPointer, Error}
    BY <1>2 DEF Initialised, isPointerTy, Nullptr, Type
  <2>2. /\ getIntNullPointer \in Types /\ ~isVoidTy(getIntNullPointer)
        /\ getFloatNullPointer \in Types /\ ~isVoidTy(getFloatNullPointer)
    BY BuilderTypes
    DEF getIntNullPointer, getFloatNullPointer, isVoidTy, PointerTo, Int64Ty, DoubleTy, Type
  <2> QED
    BY <1>2, <2>1, <2>2 DEF DefaultValue
<1>3. CASE ~src.ptr
  BY <1>3, ContextIsOne, SourceTypesTyped DEF DefaultValue
<1> QED
  BY <1>1, <1>2, <1>3

LEMMA FieldTyped ==
  ASSUME StructInv, NEW field
  PROVE  getStructField(field) \in Types \cup {Error, Abort("field")}
<1>1. CASE structTypes = NoStruct
  <2>1. structTypes.fields = << >>
    BY <1>1 DEF NoStruct
  <2>2. field \notin DOMAIN structTypes.fields
    BY <2>1
  <2> QED
    BY <2>2 DEF getStructField
<1>2. CASE structTypes \in [fields : StructDefs, decl : StructDefs, ctx : Contexts]
  <2>1. CASE field \in DOMAIN structTypes.fields
    BY <1>2, <2>1, ProgramAssumption, SourceTypesTyped DEF getStructField
  <2>2. CASE field \notin DOMAIN structTypes.fields
    BY <2>2 DEF getStructField
  <2> QED
    BY <2>1, <2>2
<1> QED
  BY <1>1, <1>2 DEF StructInv

LEMMA PointedTyped ==
  ASSUME NEW t \in Types, isPointerTy(t)
  PROVE  getPointedType(t) \in Types
BY BoundsAssumption DEF Types, isPointerTy, getPointedType

LEMMA PlaceTyped ==
  ASSUME TypeInv, NEW n \in Names, NEW field, NEW offset, NEW kind \in PlaceKinds
  PROVE  /\ Place(kind, n, field, offset) \in Types \cup {Error, Abort("gep"), Abort("field")}
         /\ Read(kind, n, field, offset) \in Types \cup {Error, Abort("gep")}
<1>1. PICK t : t = namedValues[n].alloca
  OBVIOUS
<1>2. Present(n) => t \in Types
  BY <1>1 DEF TypeInv, TypeOK, Variables, Present
<1>3. getStructField(field) \in Types \cup {Error, Abort("field")}
  BY FieldTyped DEF TypeInv
<1>4. \/ CreateGEP(t, offset) = Abort("gep")
      \/ CreateGEP(t, offset) = t /\ isPointerTy(t)
  BY DEF CreateGEP
<1>5. Place(kind, n, field, offset) \in Types \cup {Error, Abort("gep"), Abort("field")}
  BY <1>1, <1>2, <1>3, <1>4, PointedTyped, Kinds DEF Place, PlaceKinds, Indexed
<1> QED
  BY <1>5, Kinds DEF Read

LEMMA AssignTyped ==
  ASSUME NEW t \in Types, NEW right \in Values, NEW named \in BOOLEAN
  PROVE  AssignTo(t, right, named) \in Result
<1>1. NullFor(t) \in Types \cup {Error}
  BY NullForTyped
<1>2. \A v \in Types \cup {Error} : CreateStore(v, t) \in Result
  BY DEF CreateStore, Result, Values, Assertions
<1>3. castIntToFloat(right) \in Types
  BY BuilderTypes DEF castIntToFloat
<1> QED
  BY <1>1, <1>2, <1>3 DEF AssignTo, Result, Values

LEMMA ConditionTyped ==
  ASSUME NEW c \in Values
  PROVE  Condition(c) \in Result
<1>1. PICK t : t = IF c = Nullptr \/ isPointerTy(c) THEN castPointerToInt(c) ELSE c
  OBVIOUS
<1>2. t \in Types
  BY <1>1, BuilderTypes DEF castPointerToInt, Values
<1>3. CreateFCmp(t, DoubleTy) \in Result /\ CreateICmp(t, Int64Ty) \in Result
  <2>1. t.ctx \in Contexts
    BY <1>2 DEF Types, Contexts
  <2>2. Type("i1", t.ctx) \in Types
    BY <2>1, TypeIsType DEF Bases
  <2> QED
    BY <2>2 DEF CreateFCmp, CreateICmp, Result, Values, Assertions
<1>4. Condition(c) = CASE isDoubleTy(t) -> castFloatToBoolean(t)
                       [] isIntegerTy(t) -> castIntToBoolean(t)
                       [] OTHER -> Error
  BY <1>1 DEF Condition
<1>5. ~(isDoubleTy(t) /\ isIntegerTy(t))
  BY <1>2, Shapes
<1>6. Condition(c) \in {CreateFCmp(t, DoubleTy), CreateICmp(t, Int64Ty), Error}
  BY <1>4, <1>5 DEF castFloatToBoolean, castIntToBoolean
<1> QED
  BY <1>3, <1>6 DEF Result

LEMMA ReturnTypeTyped ==
  ASSUME TypeInv, function # "none" \/ lambda # "none"
  PROVE  getFuncRetType \in Types \cup {Error}
<1>1. CASE lambda = "none"
  BY <1>1, ParameterTyped DEF getFuncRetType, TypeInv, TypeOK
<1>2. CASE lambda # "none"
  <2>1. PICK src : src = Source(IF lambda \in {"int", "float"} THEN lambda ELSE "void", FALSE)
    OBVIOUS
  <2>2. IsSource(src) /\ "lambda" \in Contexts
    <3>1. PICK name : src = [name |-> name, ptr |-> FALSE]
      BY <2>1 DEF Source
    <3>2. src.name = name /\ src.ptr = FALSE
      BY <3>1
    <3> QED
      BY <3>1, <3>2 DEF IsSource, Contexts
  <2>3. getFuncRetType = getTypeFromString(src, TRUE, "lambda")
    BY <1>2, <2>1 DEF getFuncRetType
  <2> QED
    BY <2>2, <2>3, SourceTypesTyped DEF TypeInv
<1> QED
  BY <1>1, <1>2

LEMMA ReturnedTyped ==
  ASSUME TypeInv, function # "none" \/ lambda # "none", NEW v \in Values
  PROVE  Returned(v) \in Types \cup {Error}
<1>1. PICK t \in Types \cup {Error} : t = getFuncRetType
  BY ReturnTypeTyped
<1>2. NullFor(t) \in Types \cup {Error}
  BY NullForTyped
<1>3. Returned(v) = CASE v = Nullptr -> NullFor(t)
                      [] v # Nullptr /\ isVoidTy(v) /\ isVoidTy(t) -> v
                      [] v # Nullptr /\ v = t -> v
                      [] isIntegerTy(v) /\ isDoubleTy(t) -> castIntToFloat(v)
                      [] OTHER -> Error
  BY <1>1 DEF Returned
<1>4. CASE v = Nullptr
  BY <1>2, <1>3, <1>4 DEF isIntegerTy, Nullptr, Type
<1>5. CASE v # Nullptr
  BY <1>3, <1>5, BuilderTypes DEF castIntToFloat, Values
<1> QED
  BY <1>4, <1>5

\* A reconciling call can only fail for its target.
LEMMA ReconCallAborts ==
  ASSUME NEW t
  PROVE  Aborts(reconCall(t)) => reconCall(t) \in {Abort("detached"), Abort("signature")}
<1>1. \A keyword \in {"int", "float", "void"} : ~Aborts(reconSignature(keyword).ret)
  BY DEF reconSignature, getTypeFromString, BaseFromString, Source, Type, Aborts, isVoidTy, Error
<1>2. isIntegerTy(t) \/ isDoubleTy(t) => makeSched(t) \in {"int", "float"}
  BY DEF makeSched, isIntegerTy, isDoubleTy
<1>3. \A sig, args : CreateCall(sig, args) \in {sig.ret, Abort("signature")}
  BY DEF CreateCall
<1> QED
  BY <1>1, <1>2, <1>3, Kinds DEF reconCall, isVoidTy, isIntegerTy, isDoubleTy

-----------------------------------------------------------------------------

(***************************************************************************)
(* Steps keep the types.                                                   *)
(***************************************************************************)
LEMMA ReportTyped ==
  ASSUME TypeInv, NEW r \in Result, Report(r)
  PROVE  error' \in {"yes", "no"} /\ process' \in {"alive"} \cup Assertions
BY ResultReported DEF Report, TypeInv, TypeOK, Assertions

LEMMA YieldTyped ==
  ASSUME TypeInv, NEW rest \in Seq(Values), Len(rest) < MaxStack, NEW r \in Result,
         Yield(rest, r), namedValues' \in [Names -> Variables]
  PROVE  TypeInv'
<1>1. error' \in {"yes", "no"} /\ process' \in {"alive"} \cup Assertions
  BY ReportTyped DEF Yield
<1>2. stack' \in Seq(Values) /\ Len(stack') <= MaxStack
  <2>1. PICK x \in Values : stack' = Append(rest, x)
    BY ResultReported DEF Yield, Values
  <2> QED
    BY <2>1, BoundsAssumption, AppendProperties
<1>3. StructInv'
  BY DEF Yield, TypeInv, StructInv
<1> QED
  BY <1>1, <1>2, <1>3 DEF TypeInv, TypeOK, TargetInv, Yield, Values, Assertions

LEMMA EndVisitTyped ==
  ASSUME TypeInv, NEW r \in Result, EndVisit(r), namedValues' \in [Names -> Variables],
         StructInv'
  PROVE  TypeInv'
<1>1. error' \in {"yes", "no"} /\ process' \in {"alive"} \cup Assertions
  BY ReportTyped DEF EndVisit
<1>2. stack' \in Seq(Values) /\ Len(stack') <= MaxStack
  BY BoundsAssumption DEF EndVisit
<1>3. structTypes' = NoStruct \/ structTypes'.fields \in StructDefs
  BY DEF StructInv
<1>4. lambda' \in {"none", "target", "statement", "if", "int", "float", "done"}
  BY DEF EndVisit, TypeInv, TypeOK
<1> QED
  BY <1>1, <1>2, <1>3, <1>4 DEF TypeInv, TypeOK, TargetInv, EndVisit, Values, Assertions

LEMMA FinishTyped ==
  ASSUME TypeInv, NEW r \in Result, Finish(r), namedValues' \in [Names -> Variables]
  PROVE  TypeInv'
<1>1. StructInv'
  BY DEF Finish, TypeInv, StructInv
<1> QED
  BY <1>1, EndVisitTyped DEF Finish

LEMMA NullEntryTyped ==
  ASSUME TypeInv, NEW n \in Names
  PROVE  [namedValues EXCEPT ![n] = NullEntry] \in [Names -> Variables]
BY DEF TypeInv, TypeOK, Variables

LEMMA VariableTyped ==
  ASSUME NEW t \in Types, ~isVoidTy(t), NEW src \in Keywords
  PROVE  Variable(t, src) \in Variables
BY DEF Variable, Variables

LEMMA StackParts ==
  ASSUME TypeInv, NEW k \in Nat, k <= Len(stack)
  PROVE  /\ Below(k) \in Seq(Values) /\ Len(Below(k)) = Len(stack) - k
         /\ \A i \in 1 .. Len(stack) - k : Below(k)[i] = stack[i]
         /\ LastOf(k) \in Seq(Values) /\ Len(LastOf(k)) = k
         /\ \A i \in 1 .. k : LastOf(k)[i] = stack[Len(stack) - k + i]
         /\ stack # << >> => Top \in Values
<1>1. stack \in Seq(Values) /\ Len(stack) \in Nat
  BY DEF TypeInv, TypeOK, Values
<1>2. PICK m \in Nat : m = Len(stack) - k
  BY <1>1
<1>3. PICK n \in Nat : n = Len(stack)
  BY <1>1
<1>4. \A i \in 1 .. n : stack[i] \in Values
  BY <1>1, <1>3, ElementOfSeq
<1>5. SubSeq(stack, 1, m) \in Seq(Values) /\ Len(SubSeq(stack, 1, m)) = m
      /\ \A i \in 1 .. m : SubSeq(stack, 1, m)[i] = stack[i]
  BY <1>1, <1>2, <1>3, <1>4, SubSeqProperties
<1>6. SubSeq(stack, m + 1, n) \in Seq(Values) /\ Len(SubSeq(stack, m + 1, n)) = k
      /\ \A i \in 1 .. k : SubSeq(stack, m + 1, n)[i] = stack[m + i]
  BY <1>1, <1>2, <1>3, <1>4, SubSeqProperties
<1>7. stack # << >> => Top \in Values
  BY <1>1, <1>3, <1>4, EmptySeq DEF Top
<1> QED
  BY <1>2, <1>3, <1>5, <1>6, <1>7 DEF Below, LastOf

LEMMA ExpressionStep ==
  ASSUME TypeInv,
         \/ VisitInteger \/ VisitFloat \/ VisitNullLiteral
         \/ \E n \in Names : VisitUnknown(n) \/ VisitAddressOf(n) \/ VisitAddressOfOffset(n)
         \/ \E kind \in PlaceKinds, n \in Names, field \in FieldNames : VisitPlace(kind, n, field)
         \/ \E op \in {"-", "!", "new"} : VisitUnaryOperator(op)
         \/ \E op \in Arithmetic \cup Comparisons \cup Logical : VisitBinaryOperator(op)
         \/ \E f \in DOMAIN Signatures : VisitFunctionCall(f) \/ VisitBadCall(f)
  PROVE  TypeInv'
<1>1. stack \in Seq(Values) /\ Len(stack) \in Nat /\ Len(stack) <= MaxStack
      /\ namedValues \in [Names -> Variables] /\ (stack # << >> => Len(stack) >= 1)
  BY EmptySeq DEF TypeInv, TypeOK, Values
<1>2. \A t \in Types \cup {Nullptr, Error} : t \in Result
  BY DEF Result, Values
<1>3. \A a \in Assertions : Abort(a) \in Result
  BY DEF Result
<1>4. \A n \in Names : Present(n) => namedValues[n].alloca \in Types
  BY DEF TypeInv, TypeOK, Variables, Present
<1>5. stack # << >> => Top \in Values /\ Below(1) \in Seq(Values) /\ Len(Below(1)) < MaxStack
  BY <1>1, StackParts, BoundsAssumption
<1>6. CASE VisitInteger \/ VisitFloat \/ VisitNullLiteral
  BY <1>1, <1>2, <1>6, BuilderTypes, YieldTyped DEF VisitInteger, VisitFloat, VisitNullLiteral, Room
<1>7. ASSUME NEW n \in Names,
             VisitUnknown(n)
      PROVE  TypeInv'
  BY <1>1, <1>2, <1>7, NullEntryTyped, YieldTyped DEF VisitUnknown, Room
<1>8. ASSUME NEW kind \in PlaceKinds, NEW n \in Names, NEW field \in FieldNames,
             VisitPlace(kind, n, field)
      PROVE  TypeInv'
  <2>1. \A offset : Read(kind, n, field, offset) \in Result
    BY <1>2, <1>3, PlaceTyped DEF Assertions
  <2>2. CASE Indexed(kind)
    BY <1>1, <1>5, <1>8, <2>1, <2>2, YieldTyped DEF VisitPlace
  <2>3. CASE ~Indexed(kind)
    BY <1>1, <1>8, <2>1, <2>3, YieldTyped DEF VisitPlace, Room
  <2> QED
    BY <2>2, <2>3
<1>9. ASSUME NEW n \in Names,
             VisitAddressOf(n)
      PROVE  TypeInv'
  <2>1. PointerTo(namedValues[n].alloca) \in Types
    BY <1>4, <1>9, BoundsAssumption DEF VisitAddressOf, PointerTo, Types
  <2> QED
    BY <1>1, <1>2, <1>9, <2>1, YieldTyped DEF VisitAddressOf, Room
<1>10. ASSUME NEW n \in Names,
             VisitAddressOfOffset(n)
      PROVE  TypeInv'
  <2>1. CreateGEP(namedValues[n].alloca, Top) \in Result
    BY <1>2, <1>3, <1>4, <1>10 DEF VisitAddressOfOffset, CreateGEP, Assertions
  <2> QED
    BY <1>1, <1>2, <1>5, <1>10, <2>1, YieldTyped DEF VisitAddressOfOffset
<1>11. ASSUME NEW uop,
             VisitUnaryOperator(uop)
      PROVE  TypeInv'
  BY <1>1, <1>2, <1>5, <1>11, UnaryResults, BuilderTypes, YieldTyped DEF VisitUnaryOperator
<1>12. ASSUME NEW op \in Arithmetic \cup Comparisons \cup Logical,
             VisitBinaryOperator(op)
      PROVE  TypeInv'
  <2>1. /\ Len(stack) > 1 /\ stack # << >> /\ Len(stack) - 1 \in 1 .. Len(stack)
    BY <1>1, <1>12, EmptySeq DEF VisitBinaryOperator
  <2>2. stack[Len(stack) - 1] \in Values
    BY <1>1, <2>1, ElementOfSeq
  <2>3. Below(2) \in Seq(Values) /\ Len(Below(2)) < MaxStack
    BY <1>1, <2>1, StackParts, BoundsAssumption
  <2>4. Type("i1", context) \in Types
    BY ContextIsOne, TypeIsType DEF Bases
  <2>5. visitBinaryOperator(op, stack[Len(stack) - 1], Top) \in Result
    BY <1>2, <1>5, <2>1, <2>2, <2>4, BinaryResults, BuilderTypes
  <2> QED
    BY <1>1, <1>12, <2>3, <2>5, YieldTyped DEF VisitBinaryOperator
<1>13. ASSUME NEW f \in DOMAIN Signatures,
             VisitFunctionCall(f)
      PROVE  TypeInv'
  <2>1. PICK k \in Nat : k = Len(Signatures[f].args)
    BY ProgramAssumption, LenProperties
  <2>2. k <= Len(stack) /\ Len(stack) - k < MaxStack
    BY <1>1, <1>13, <2>1, BoundsAssumption DEF VisitFunctionCall
  <2>3. Below(k) \in Seq(Values) /\ Len(Below(k)) < MaxStack
    BY <2>2, StackParts
  <2>4. visitFunctionCall(f, LastOf(k)) \in Result
    BY CallTyped DEF TypeInv
  <2>5. \E r \in Result : Yield(Below(k), r)
    BY <1>3, <1>13, <2>1, <2>4 DEF VisitFunctionCall, Assertions
  <2> QED
    BY <1>1, <1>13, <2>3, <2>5, YieldTyped DEF VisitFunctionCall
<1>14. ASSUME NEW f \in DOMAIN Signatures,
             VisitBadCall(f)
      PROVE  TypeInv'
  <2>1. \E r \in Result : Yield(stack, r)
    BY <1>2, <1>3, <1>14 DEF VisitBadCall, Assertions
  <2> QED
    BY <1>1, <1>14, <2>1, YieldTyped DEF VisitBadCall, Room
<1> QED
  BY <1>6, <1>7, <1>8, <1>9, <1>10, <1>11, <1>12, <1>13, <1>14

LEMMA DefineTyped ==
  ASSUME TypeInv, NEW n \in Names, NEW src, IsSource(src), NEW t,
         \/ t = Error \/ t = Abort("alloca") \/ t = Abort("insert_block")
         \/ t \in Types /\ ~isVoidTy(t) /\ src \in Keywords,
         Define(n, t, src)
  PROVE  TypeInv'
<1>1. t \in Result
  BY DEF Result, Values, Assertions
<1>2. namedValues' \in [Names -> Variables]
  <2>1. CASE t = Error \/ Aborts(t)
    BY <2>1 DEF Define, TypeInv, TypeOK
  <2>2. CASE ~(t = Error \/ Aborts(t))
    <3>1. t \in Types /\ ~isVoidTy(t) /\ src \in Keywords
      BY <2>2 DEF Aborts, Abort, Type
    <3>2. namedValues[n] \in Variables
      BY DEF TypeInv, TypeOK
    <3>3. PICK v : v = CASE namedValues[n] = Unset -> Variable(t, src)
                          [] namedValues[n] = NullEntry -> namedValues[n]
                          [] OTHER -> Variable(namedValues[n].alloca, src)
      OBVIOUS
    <3>4. v \in Variables
      <4>1. CASE namedValues[n] = Unset
        <5>1. Unset # NullEntry
          BY DEF Unset, NullEntry, Variable, Type, Nullptr
        <5> QED
          BY <3>1, <3>3, <4>1, <5>1, VariableTyped
      <4>2. CASE namedValues[n] = NullEntry
        <5>1. Unset # NullEntry
          BY DEF Unset, NullEntry, Variable, Type, Nullptr
        <5> QED
          BY <3>2, <3>3, <4>2, <5>1
      <4>3. CASE namedValues[n] # Unset /\ namedValues[n] # NullEntry
        <5>1. namedValues[n].alloca \in Types /\ ~isVoidTy(namedValues[n].alloca)
          BY <3>2, <4>3 DEF Variables
        <5> QED
          BY <3>1, <3>3, <4>3, <5>1, VariableTyped
      <4> QED
        BY <4>1, <4>2, <4>3
    <3>5. namedValues' = [namedValues EXCEPT ![n] = v]
      BY <2>2, <3>3 DEF Define, Insert
    <3> QED
      BY <3>4, <3>5 DEF TypeInv, TypeOK
  <2> QED
    BY <2>1, <2>2
<1> QED
  BY <1>1, <1>2, FinishTyped DEF Define

LEMMA StatementStep ==
  ASSUME TypeInv,
         \/ VisitExpressionStatement \/ VisitReturnStatement
         \/ \E n \in Names : VisitRedefinition(n)
         \/ \E n \in Names, src \in SourceTypes : VisitVariableDefinition(n, src)
         \/ \E n \in Names, isPointer \in BOOLEAN : VisitStructureDeclaration(n, isPointer)
         \/ \E kind \in PlaceKinds, n \in Names, field \in FieldNames :
              VisitAssignStatement(kind, n, field)
  PROVE  TypeInv'
<1>1. stack \in Seq(Values) /\ Len(stack) \in Nat /\ namedValues \in [Names -> Variables]
      /\ Len(<< >>) = 0
  BY DEF TypeInv, TypeOK, Values
<1>2. \A t \in Types \cup {Nullptr, Error} : t \in Result
  BY DEF Result, Values
<1>3. Len(stack) = 1 => Top \in Values
  BY <1>1, StackParts
<1>4. CASE VisitExpressionStatement
  BY <1>1, <1>2, <1>3, <1>4, FinishTyped DEF VisitExpressionStatement, Holds, Values
<1>5. ASSUME NEW n \in Names, NEW src \in SourceTypes,
             VisitVariableDefinition(n, src)
      PROVE  TypeInv'
  <2>1. IsSource(src) /\ src \in Keywords
    BY DEF SourceTypes, IsSource, Keywords
  <2>2. ASSUME Define(n, InsertBlock(DefaultValue(src)), src) PROVE TypeInv'
    BY <2>1, <2>2, DefaultTyped, DefineTyped DEF TypeInv, InsertBlock
  <2>3. ASSUME Len(stack) = 1, Define(n, CreateAlloca(Initialised(src, Top)), src)
        PROVE  TypeInv'
    <3>1. PICK t : t = CreateAlloca(Initialised(src, Top))
      OBVIOUS
    <3>2. \/ t = Error \/ t = Abort("alloca")
          \/ t \in Types /\ ~isVoidTy(t)
      BY <1>3, <2>1, <2>3, <3>1, InitialisedTyped, AllocaTyped
    <3> QED
      BY <2>1, <2>3, <3>1, <3>2, DefineTyped
  <2> QED
    BY <1>5, <2>2, <2>3 DEF VisitVariableDefinition, Holds
<1>6. ASSUME NEW n \in Names,
             VisitRedefinition(n)
      PROVE  TypeInv'
  BY <1>1, <1>2, <1>6, FinishTyped DEF VisitRedefinition
<1>7. ASSUME NEW n \in Names, NEW isPointer \in BOOLEAN,
             VisitStructureDeclaration(n, isPointer)
      PROVE  TypeInv'
  <2>1. PICK s : s = Source("struct", isPointer)
    OBVIOUS
  <2>2. IsSource(s) /\ "main" \in Contexts
    BY <2>1 DEF IsSource, Source, Contexts
  <2>3. PICK t : t = getTypeFromString(s, FALSE, "main")
    OBVIOUS
  <2>4. t = Error \/ (t \in Types /\ ~isVoidTy(t) /\ s \in Keywords)
    BY <2>2, <2>3, SourceTypesTyped DEF TypeInv
  <2>5. Define(n, InsertBlock(t), s)
    BY <1>7, <2>1, <2>3 DEF VisitStructureDeclaration
  <2> QED
    BY <2>2, <2>4, <2>5, DefineTyped DEF InsertBlock
<1>8. CASE VisitReturnStatement
  <2>1. Abort("insert_block") \in Result
    BY DEF Result, Assertions
  <2>2. \E r \in Result : Finish(r)
    BY <1>2, <1>3, <1>8, <2>1, ReturnedTyped DEF VisitReturnStatement, Holds, InsertBlock
  <2> QED
    BY <1>1, <1>8, <2>2, FinishTyped DEF VisitReturnStatement
<1>9. ASSUME NEW kind \in PlaceKinds, NEW n \in Names, NEW field \in FieldNames,
             VisitAssignStatement(kind, n, field)
      PROVE  TypeInv'
  <2>1. PICK place, r : /\ place = Place(kind, n, field, stack[2])
                        /\ r = IF place = Error \/ Aborts(place) THEN place
                               ELSE AssignTo(place, stack[1], kind # "deref")
    OBVIOUS
  <2>2. place \in Types \cup {Error, Abort("gep"), Abort("field")}
    BY <2>1, PlaceTyped
  <2>3. Len(stack) \in {1, 2}
    BY <1>9 DEF VisitAssignStatement, Holds
  <2>4. stack[1] \in Values
    BY <1>1, <2>3, ElementOfSeq
  <2>5. r \in Result
    BY <2>1, <2>2, <2>4, AssignTyped, Kinds DEF Result, Values, Assertions
  <2>6. Finish(r)
    BY <1>9, <2>1 DEF VisitAssignStatement
  <2>7. namedValues' \in [Names -> Variables]
    BY <1>1, <1>9, NullEntryTyped DEF VisitAssignStatement
  <2> QED
    BY <2>5, <2>6, <2>7, FinishTyped
<1> QED
  BY <1>4, <1>5, <1>6, <1>7, <1>8, <1>9

LEMMA ReportedTyped ==
  ASSUME TypeInv, NEW r \in Result, Report(r),
         namedValues' \in [Names -> Variables], copyValues' \in [Names -> Variables],
         stack' = stack \/ stack' = << >>,
         UNCHANGED structTypes,
         module' \in [DOMAIN Signatures -> {"absent", "declared", "defined"}],
         function' \in DOMAIN Signatures \cup {"none"},
         lambda' \in {"none", "target", "statement", "if", "int", "float", "done"},
         executeCommit' \in {"yes", "no"},
         reconVector' \in Seq(Types \cup {Detached(t) : t \in Types}),
         Len(reconVector') <= MaxRecon, TargetInv'
  PROVE  TypeInv'
<1>1. error' \in {"yes", "no"} /\ process' \in {"alive"} \cup Assertions
  BY ReportTyped
<1>2. stack' \in Seq(Values) /\ Len(stack') <= MaxStack
  <2>1. << >> \in Seq(Values) /\ Len(<< >>) <= MaxStack
    BY BoundsAssumption
  <2> QED
    BY <2>1 DEF TypeInv, TypeOK, Values
<1>3. StructInv'
  BY DEF TypeInv, StructInv
<1> QED
  BY <1>1, <1>2, <1>3 DEF TypeInv, TypeOK, Values, Assertions

LEMMA LambdaStep ==
  ASSUME TypeInv,
         \/ VisitIfStatement \/ ReturnFromLambda \/ LeaveLambda \/ Commit
         \/ \E kind \in {"statement", "target"} : EnterLambda(kind)
         \/ \E kind \in PlaceKinds, n \in Names, field \in FieldNames :
              VisitTarget(kind, n, field)
  PROVE  TypeInv'
<1>1. stack \in Seq(Values) /\ Len(stack) \in Nat /\ Len(<< >>) = 0
  BY DEF TypeInv, TypeOK, Values
<1>2. \A t \in Types \cup {Nullptr, Error} : t \in Result
  BY DEF Result, Values
<1>3. \A a \in Assertions : Abort(a) \in Result
  BY DEF Result
<1>4. Len(stack) = 1 => Top \in Values
  BY <1>1, StackParts
<1>5. CASE VisitIfStatement
  <2>1. Condition(Top) \in Result /\ Abort("insert_block") \in Result
    BY <1>3, <1>4, <1>5, ConditionTyped DEF VisitIfStatement, Holds, Assertions
  <2>2. PICK r \in Result : Report(r)
    BY <1>5, <2>1 DEF VisitIfStatement, InsertBlock
  <2> QED
    BY <1>5, <2>2, ReportedTyped DEF VisitIfStatement, TypeInv, TypeOK, TargetInv
<1>6. ASSUME NEW lkind \in {"statement", "target"},
             EnterLambda(lkind)
      PROVE  TypeInv'
  <2>1. \E r \in Result : Report(r)
    BY <1>2, <1>3, <1>6 DEF EnterLambda, InsertBlock, Assertions
  <2>2. Type("void", "main") \in Types
    BY TypeIsType DEF Bases, Contexts
  <2>3. /\ reconVector' \in Seq(Types \cup {Detached(t) : t \in Types})
        /\ Len(reconVector') <= MaxRecon
    BY <1>6, <2>2, BoundsAssumption, AppendProperties, LenProperties
    DEF EnterLambda, TypeInv, TypeOK
  <2> QED
    BY <1>6, <2>1, <2>3, ReportedTyped DEF EnterLambda, TypeInv, TypeOK, TargetInv
<1>7. ASSUME NEW kind \in PlaceKinds, NEW n \in Names, NEW field \in FieldNames,
             VisitTarget(kind, n, field)
      PROVE  TypeInv'
  <2>1. PICK place : place = Place(kind, n, field, stack[1])
    OBVIOUS
  <2>2. place \in Types \cup {Error, Abort("gep"), Abort("field")}
    BY <2>1, PlaceTyped
  <2>3. \E r \in Result : Report(r)
    <3>1. Report(IF makeSched(place) = "none" /\ ~Aborts(place) THEN Error ELSE place)
      BY <1>7, <2>1 DEF VisitTarget
    <3> QED
      BY <1>2, <1>3, <2>2, <3>1 DEF Assertions
  <2>4. lambda' \in {"done", "int", "float"}
    BY <1>7, <2>1 DEF VisitTarget, makeSched
  <2>5. \/ reconVector' = reconVector
        \/ /\ place \in Types
           /\ reconVector' = Append(reconVector, IF kind = "ident" THEN place ELSE Detached(place))
    BY <1>7, <2>1, <2>2, Kinds DEF VisitTarget
  <2>6. Len(reconVector) \in Nat /\ Len(reconVector) + 1 <= MaxRecon
    BY <1>7, BoundsAssumption, LenProperties DEF VisitTarget, TypeInv, TypeOK, TargetInv
  <2>7. /\ reconVector' \in Seq(Types \cup {Detached(t) : t \in Types})
        /\ Len(reconVector') <= MaxRecon
    <3>1. CASE reconVector' = reconVector
      BY <3>1 DEF TypeInv, TypeOK
    <3>2. CASE reconVector' # reconVector
      <4>1. PICK x \in Types \cup {Detached(t) : t \in Types} :
              reconVector' = Append(reconVector, x)
        BY <2>5, <3>2
      <4>2. reconVector \in Seq(Types \cup {Detached(t) : t \in Types})
        BY DEF TypeInv, TypeOK
      <4>3. Len(reconVector') = Len(reconVector) + 1
        BY <4>1, <4>2, AppendProperties
      <4> QED
        BY <2>6, <4>1, <4>2, <4>3, AppendProperties
    <3> QED
      BY <3>1, <3>2
  <2> QED
    BY <1>7, <2>3, <2>4, <2>7, ReportedTyped DEF VisitTarget, TypeInv, TypeOK, TargetInv
<1>8. CASE ReturnFromLambda
  <2>1. Returned(Top) \in Result
    BY <1>2, <1>4, <1>8, ReturnedTyped DEF ReturnFromLambda, Holds, Visiting
  <2> QED
    BY <1>8, <2>1, ReportedTyped DEF ReturnFromLambda, TypeInv, TypeOK, TargetInv
<1>9. CASE LeaveLambda
  <2>1. Type("void", "main") \in Result
    BY <1>2, TypeIsType DEF Bases, Contexts
  <2>2. \E r \in Result : Report(r)
    BY <1>3, <1>9, <2>1 DEF LeaveLambda, CreateCall, schedSignature, Assertions
  <2>3. [m \in Names |-> Unset] \in [Names -> Variables]
    BY DEF Variables
  <2> QED
    BY <1>9, <2>2, <2>3, ReportedTyped DEF LeaveLambda, TypeInv, TypeOK, TargetInv
<1>10. CASE Commit
  <2>1. PICK calls : /\ \A c \in calls : \E i \in DOMAIN reconVector : c = reconCall(reconVector[i])
                     /\ Report(IF \E c \in calls : Aborts(c) THEN CHOOSE c \in calls : Aborts(c)
                               ELSE Nullptr)
    BY <1>10 DEF Commit
  <2>2. \A c \in calls : Aborts(c) => c \in Result
    BY <1>3, <2>1, ReconCallAborts DEF Assertions
  <2>3. PICK r : /\ r = IF \E c \in calls : Aborts(c) THEN CHOOSE c \in calls : Aborts(c)
                        ELSE Nullptr
                 /\ Report(r)
    BY <2>1
  <2>4. r \in Result
    BY <1>2, <2>2, <2>3
  <2> QED
    BY <1>10, <2>3, <2>4, ReportedTyped DEF Commit, TypeInv, TypeOK, TargetInv
<1> QED
  BY <1>5, <1>6, <1>7, <1>8, <1>9, <1>10

LEMMA DeclarationStep ==
  ASSUME TypeInv,
         \/ \E f \in DOMAIN Signatures : VisitFunctionDefinition(f) \/ VisitExternStatement(f)
         \/ \E def \in StructDefs : VisitStructureDefinition(def)
  PROVE  TypeInv'
<1>1. Nullptr \in Result /\ Error \in Result /\ Abort("empty_struct") \in Result
  BY DEF Result, Values, Assertions
<1>2. ASSUME NEW f \in DOMAIN Signatures,
             VisitFunctionDefinition(f)
      PROVE  TypeInv'
  <2>1. CASE module[f] = "defined" \/ ~ValidSignature(Signatures[f])
    BY <1>1, <1>2, <2>1, ReportedTyped
    DEF VisitFunctionDefinition, TypeInv, TypeOK, TargetInv
  <2>2. CASE ~(module[f] = "defined" \/ ~ValidSignature(Signatures[f]))
    <3>1. namedValues' \in [Names -> Variables]
      <4> DEFINE params == Signatures[f].args
      <4>2. \A i \in DOMAIN params :
              Variable(getTypeFromString(params[i].type, FALSE, "main"), params[i].type)
                \in Variables
        <5> TAKE i \in DOMAIN params
        <5>1. IsSource(params[i].type) /\ "main" \in Contexts
          BY ProgramAssumption DEF Contexts
        <5>2. getTypeFromString(params[i].type, FALSE, "main") # Error
          BY <2>2 DEF ValidSignature, generateFunction
        <5> QED
          BY <5>1, <5>2, SourceTypesTyped, VariableTyped DEF TypeInv
      <4>3. PICK g : g = [n \in Names |->
                   IF \E i \in DOMAIN params : params[i].ident = n
                   THEN LET src == (CHOOSE p \in {params[i] : i \in DOMAIN params} :
                                      p.ident = n).type
                        IN  Variable(getTypeFromString(src, FALSE, "main"), src)
                   ELSE Unset]
        OBVIOUS
      <4>4. \A n \in Names : g[n] \in Variables
        <5> TAKE n \in Names
        <5>1. CASE \E i \in DOMAIN params : params[i].ident = n
          <6>1. PICK i \in DOMAIN params :
                  params[i] = CHOOSE p \in {params[j] : j \in DOMAIN params} : p.ident = n
            BY <5>1
          <6>2. g[n] = Variable(getTypeFromString(params[i].type, FALSE, "main"), params[i].type)
            BY <4>3, <5>1, <6>1
          <6> QED
            BY <4>2, <6>2
        <5>2. CASE ~\E i \in DOMAIN params : params[i].ident = n
          BY <4>3, <5>2 DEF Variables
        <5> QED
          BY <5>1, <5>2
      <4>5. namedValues' = g
        BY <1>2, <2>2, <4>3 DEF VisitFunctionDefinition
      <4> QED
        BY <4>3, <4>4, <4>5
    <3> QED
      BY <1>1, <1>2, <2>2, <3>1, ReportedTyped
      DEF VisitFunctionDefinition, TypeInv, TypeOK, TargetInv
  <2> QED
    BY <2>1, <2>2
<1>3. ASSUME NEW f \in DOMAIN Signatures,
             VisitExternStatement(f)
      PROVE  TypeInv'
  BY <1>1, <1>3, ReportedTyped DEF VisitExternStatement, TypeInv, TypeOK, TargetInv
<1>4. ASSUME NEW def \in StructDefs,
             VisitStructureDefinition(def)
      PROVE  TypeInv'
  <2>1. PICK r : /\ r = CASE DOMAIN def = {} -> Abort("empty_struct")
                          [] \E x \in DOMAIN def : BadField(def[x]) -> Error
                          [] OTHER -> Nullptr
                 /\ EndVisit(r)
                 /\ structTypes' = CASE r # Nullptr -> structTypes
                          [] r = Nullptr /\ structTypes = NoStruct ->
                               [fields |-> def, decl |-> def, ctx |-> context]
                          [] OTHER -> [structTypes EXCEPT !.decl = def]
    BY <1>4 DEF VisitStructureDefinition
  <2>2. r \in Result
    BY <1>1, <2>1
  <2>3. StructInv'
    BY <2>1, ContextIsOne DEF TypeInv, StructInv
  <2> QED
    BY <1>4, <2>1, <2>2, <2>3, EndVisitTyped DEF VisitStructureDefinition, TypeInv, TypeOK
<1> QED
  BY <1>2, <1>3, <1>4

LEMMA TypeInit == Init => TypeInv
<1> SUFFICES ASSUME Init PROVE TypeInv
  OBVIOUS
<1>1. [n \in Names |-> Unset] \in [Names -> Variables]
  BY DEF Variables
<1> QED
  BY <1>1, BoundsAssumption DEF Init, TypeInv, TypeOK, StructInv, TargetInv

LEMMA TypeStep == TypeInv /\ [Next]_typeVars => TypeInv'
<1> SUFFICES ASSUME TypeInv, [Next]_typeVars PROVE TypeInv'
  OBVIOUS
<1>1. CASE UNCHANGED typeVars
  BY <1>1 DEF typeVars, TypeInv, TypeOK, StructInv, TargetInv
<1>2. CASE Next
  <2> QED
    BY <1>2, ExpressionStep, StatementStep, LambdaStep, DeclarationStep DEF Next
<1> QED
  BY <1>1, <1>2

(***************************************************************************)
(* Every visit of CodeGenVisitor returns a value of an LLVM type, null, an *)
(* error or a failed assertion, and no variable is ever of type void: for  *)
(* every program, whichever unchecked constructs it uses.                  *)
(***************************************************************************)
THEOREM RulesTyped == Spec => []TypeOK
<1>1. TypeInv => TypeOK
  BY DEF TypeInv
<1> QED
  BY <1>1, TypeInit, TypeStep, PTL DEF Spec

(***************************************************************************)
(* visitUnaryOperator and visitBinaryOperator accept any numbers the       *)
(* visitor can hold, an i1 and those of another context included, and give *)
(* a double of the context being compiled for arithmetic with a double, an *)
(* i64 for the rest, except for || and && of integers, which give an i1.   *)
(***************************************************************************)
THEOREM OperatorsTakeNumbers == Spec => []OperatorsClosed
<1>1. TypeInv => OperatorsClosed
  <2> SUFFICES ASSUME TypeInv, NEW i \in DOMAIN stack, NEW j \in DOMAIN stack,
                      IsNumber(stack[i]), IsNumber(stack[j])
               PROVE  /\ \A op \in Arithmetic \cup Comparisons \cup Logical :
                           visitBinaryOperator(op, stack[i], stack[j])
                             = NumberType(op, stack[i], stack[j])
                      /\ visitUnaryOperator("-", stack[i])
                           = IF isDoubleTy(stack[i]) THEN DoubleTy ELSE Int64Ty
                      /\ visitUnaryOperator("!", stack[i]) = Int64Ty
    BY DEF OperatorsClosed
  <2>1. stack[i] \in Types \cup {Nullptr} /\ stack[j] \in Types \cup {Nullptr}
    BY ElementOfSeq DEF TypeInv, TypeOK
  <2>2. ~IsNumber(Nullptr)
    BY DEF IsNumber, isIntegerTy, isDoubleTy, Nullptr, Type
  <2> QED
    BY <2>1, <2>2, NumbersClosed, NumberClosed
<1> QED
  BY <1>1, TypeInit, TypeStep, PTL DEF Spec

-----------------------------------------------------------------------------

(***************************************************************************)
(* Programs without the constructs of Admitted.  As long as no error was   *)
(* reported, a value is no i1, no pointer to void and, in the main         *)
(* context, of that context; a variable is what it was declared as.        *)
(***************************************************************************)
Sound(t, c) ==
  /\ t.base # "i1"
  /\ t.base = "void" => t.ptr = 0
  /\ c = "main" => t.ctx # "lambda"

SourceBase(src) ==
  CASE src.name = "float" -> "double" [] src.name = "struct" -> "struct" [] OTHER -> "i64"

\* A variable of the type its declaration names.
Lawful(v, c) ==
  \/ v = Unset
  \/ /\ v.alloca \in Types
     /\ v.decl \in Keywords
     /\ v.alloca.base = SourceBase(v.decl)
     /\ v.alloca.ptr = IF v.decl.ptr THEN 1 ELSE 0
     /\ v.decl.name = "void" => v.decl.ptr
     /\ v.decl.name = "struct" \/ c = "main" => v.alloca.ctx = "main"

StackSound == \A i \in 1 .. Len(stack) : Sound(stack[i], context)

VariablesLawful ==
  \A n \in Names :
    /\ Lawful(namedValues[n], context)
    /\ Lawful(copyValues[n], "main")
    /\ "struct" \in {namedValues[n].decl.name, copyValues[n].decl.name} => structTypes # NoStruct

StructLawful == structTypes.fields = structTypes.decl /\ structTypes.ctx # "lambda"

ReconLawful ==
  \A i \in 1 .. Len(reconVector) : reconVector[i] \in {Type("void", "main"), Type("i64", "main")}

Clean == process = "alive" /\ StackSound /\ VariablesLawful /\ StructLawful /\ ReconLawful

AcceptedInv == error = "no" => Clean

\* A result that ends no compiler unreported.
Fine(r) == r \in {Nullptr, Error, Abort("field")} \/ (r \in Types /\ Sound(r, context))

LEMMA BuilderSound ==
  /\ Sound(Int64Ty, context) /\ Sound(DoubleTy, context)
  /\ Sound(PointerTo(Int64Ty), context) /\ Sound(PointerTo(DoubleTy), context)
  /\ Sound(Nullptr, context)
BY DEF Sound, Int64Ty, DoubleTy, PointerTo, Type, Nullptr

\* What a declaration makes of a source type.
LEMMA SourceLawful ==
  ASSUME StructInv, StructLawful, NEW src, IsSource(src), NEW c \in Contexts,
         NEW allowsVoid \in BOOLEAN, NEW t, t = getTypeFromString(src, allowsVoid, c), t # Error
  PROVE  /\ t \in Types /\ src \in Keywords
         /\ src.name = "struct" => structTypes # NoStruct /\ t.ctx = "main"
         /\ src.name # "struct" => t.ctx = c
         /\ t.base = "void" => t.ptr = 0
         /\ t.base # "i1"
         /\ ~allowsVoid => /\ t.base = SourceBase(src) /\ t.ptr = IF src.ptr THEN 1 ELSE 0
                           /\ src.name = "void" => src.ptr
<1>1. PICK b : b = BaseFromString(src, c)
  OBVIOUS
<1>2. src.ptr \in BOOLEAN
  BY DEF IsSource
<1>3. t \in Types /\ src \in Keywords
  BY SourceTypesTyped
<1>4. b # Error
  BY <1>1 DEF getTypeFromString
<1>5. src.name \in {"int", "float", "void", "struct"}
  BY <1>3 DEF Keywords
<1>6. structTypes # NoStruct => structTypes.ctx = "main"
  BY DEF StructInv, StructLawful, Contexts
<1>7. \/ src.name = "int" /\ b = Type("i64", c)
      \/ src.name = "float" /\ b = Type("double", c)
      \/ src.name = "void" /\ src.ptr /\ b = Type("i64", c)
      \/ src.name = "void" /\ ~src.ptr /\ b = Type("void", c)
      \/ src.name = "struct" /\ structTypes # NoStruct /\ b = Type("struct", "main")
  BY <1>1, <1>2, <1>4, <1>5, <1>6 DEF BaseFromString
<1>8. t = IF src.ptr THEN PointerTo(b) ELSE b
  BY <1>1, <1>2, <1>4 DEF getTypeFromString
<1>9. ~allowsVoid => ~isVoidTy(b)
  <2>1. isVoidTy(b) => ~src.ptr
    BY <1>7 DEF isVoidTy, Type
  <2> QED
    BY <1>1, <1>4, <2>1 DEF getTypeFromString
<1> QED
  BY <1>2, <1>3, <1>7, <1>8, <1>9 DEF SourceBase, Type, PointerTo, isVoidTy

\* Fields, parameters and results have types of the main context.
LEMMA MainSource ==
  ASSUME StructInv, StructLawful, NEW src, IsSource(src), NEW allowsVoid \in BOOLEAN,
         getTypeFromString(src, allowsVoid, "main") # Error
  PROVE  /\ getTypeFromString(src, allowsVoid, "main").ctx = "main"
         /\ getTypeFromString(src, allowsVoid, "main") \in Types
         /\ Sound(getTypeFromString(src, allowsVoid, "main"), context)
<1>1. PICK t : t = getTypeFromString(src, allowsVoid, "main")
  OBVIOUS
<1>2. "main" \in Contexts /\ t # Error
  BY <1>1 DEF Contexts
<1>3. t \in Types /\ t.ctx = "main" /\ t.base # "i1" /\ (t.base = "void" => t.ptr = 0)
  BY <1>1, <1>2, SourceLawful
<1> QED
  BY <1>1, <1>3 DEF Sound

\* The structure and pointers to it.
LEMMA StructureDeclared ==
  ASSUME StructInv, StructLawful, NEW src, IsSource(src), src.name = "struct",
         getTypeFromString(src, FALSE, "main") # Error
  PROVE  LET t == getTypeFromString(src, FALSE, "main")
         IN  /\ t \in Types /\ src \in Keywords /\ structTypes # NoStruct
             /\ t.ctx = "main" /\ t.base = SourceBase(src)
             /\ t.ptr = IF src.ptr THEN 1 ELSE 0
<1>1. PICK t : t = getTypeFromString(src, FALSE, "main") /\ t # Error
  OBVIOUS
<1>2. "main" \in Contexts
  BY DEF Contexts
<1>3. t \in Types /\ src \in Keywords /\ structTypes # NoStruct /\ t.ctx = "main"
  <2>1. t \in Types
    BY <1>1, <1>2, SourceLawful
  <2>2. src \in Keywords
    BY DEF IsSource, Keywords
  <2>3. structTypes # NoStruct
    BY <1>1 DEF getTypeFromString, BaseFromString
  <2>4. t.ctx = "main"
    BY <1>1, <1>2, SourceLawful
  <2> QED
    BY <2>1, <2>2, <2>3, <2>4
<1>4. t.base = SourceBase(src) /\ t.ptr = IF src.ptr THEN 1 ELSE 0
  BY <1>1, <1>2, SourceLawful
<1> QED
  BY <1>1, <1>3, <1>4

LEMMA LawfulDeclared ==
  ASSUME StructInv, StructLawful, NEW v, NEW c, Lawful(v, c), v # Unset,
         v.decl.name = "struct" => structTypes # NoStruct
  PROVE  v.alloca = getTypeFromString(v.decl, FALSE, v.alloca.ctx)
<1>1. PICK t, src : t = v.alloca /\ src = v.decl
  OBVIOUS
<1>2. /\ t \in Types /\ src \in Keywords /\ t.base = SourceBase(src)
      /\ t.ptr = IF src.ptr THEN 1 ELSE 0
      /\ src.name = "void" => src.ptr
      /\ src.name = "struct" => t.ctx = "main"
  BY <1>1 DEF Lawful
<1>3. t = [base |-> t.base, ptr |-> t.ptr, ctx |-> t.ctx] /\ src.ptr \in BOOLEAN
      /\ src.name \in {"int", "float", "void", "struct"}
  BY <1>2 DEF Types, Keywords
<1>4. structTypes # NoStruct => structTypes.ctx = "main"
  BY DEF StructInv, StructLawful, Contexts
<1>5. PICK b : b = BaseFromString(src, t.ctx)
  OBVIOUS
<1>6. b = Type(SourceBase(src), t.ctx)
  BY <1>1, <1>2, <1>3, <1>4, <1>5 DEF BaseFromString, SourceBase
<1>7. b # Error /\ ~isVoidTy(b)
  BY <1>2, <1>3, <1>6 DEF Error, Type, SourceBase, isVoidTy
<1>8. getTypeFromString(src, FALSE, t.ctx) = IF src.ptr THEN PointerTo(b) ELSE b
  BY <1>3, <1>5, <1>7 DEF getTypeFromString
<1>9. t = IF src.ptr THEN PointerTo(b) ELSE b
  BY <1>2, <1>3, <1>6 DEF Type, PointerTo
<1> QED
  BY <1>1, <1>8, <1>9

\* A variable that is there and lawful has a type every expression can use.
LEMMA LawfulSound ==
  ASSUME Clean, NEW n \in Names, Present(n), NEW t, t = namedValues[n].alloca
  PROVE  /\ t \in Types /\ t.base \in {"i64", "double", "struct"} /\ t.ptr \in {0, 1}
         /\ context = "main" => t.ctx = "main"
         /\ Sound(t, context)
BY DEF Clean, VariablesLawful, Lawful, Present, SourceBase, Keywords, Sound

\* No null entry before the first error.
LEMMA NoNullEntry ==
  ASSUME Clean, NEW n \in Names
  PROVE  namedValues[n] # NullEntry /\ (~Present(n) => namedValues[n] = Unset)
<1>1. NullEntry.alloca \notin Types /\ NullEntry # Unset
  BY DEF NullEntry, Unset, Variable, Nullptr, Type, Types
<1> QED
  BY <1>1 DEF Clean, VariablesLawful, Lawful, Present

LEMMA FieldSound ==
  ASSUME StructInv, StructLawful, NEW field
  PROVE  Fine(getStructField(field))
<1>1. CASE field \notin DOMAIN structTypes.fields
  BY <1>1 DEF getStructField, Fine
<1>2. CASE field \in DOMAIN structTypes.fields
  <2>1. structTypes \in [fields : StructDefs, decl : StructDefs, ctx : Contexts]
    <3>1. CASE structTypes = NoStruct
      BY <1>2, <3>1 DEF NoStruct
    <3> QED
      BY <3>1 DEF StructInv
  <2>2. PICK src : src = structTypes.fields[field].type
    OBVIOUS
  <2>3. IsSource(src) /\ structTypes.ctx = "main" /\ "main" \in Contexts
    BY <1>2, <2>1, <2>2, ProgramAssumption DEF StructLawful, Contexts
  <2>4. getStructField(field) = getTypeFromString(src, FALSE, "main")
    BY <1>2, <2>2, <2>3 DEF getStructField
  <2> QED
    BY <2>3, <2>4, MainSource DEF Fine
<1> QED
  BY <1>1, <1>2

\* A place, indexed only when it is a pointer and the index an integer.
LEMMA PlaceSound ==
  ASSUME TypeInv, Clean, NEW n \in Names, NEW field, NEW offset, NEW kind \in PlaceKinds,
         Indexed(kind) /\ Present(n) => isPointerTy(namedValues[n].alloca) /\ isIntegerTy(offset)
  PROVE  Fine(Place(kind, n, field, offset))
<1>1. CASE ~Present(n)
  BY <1>1 DEF Place, Fine
<1>2. CASE Present(n)
  <2>1. PICK t : t = namedValues[n].alloca
    OBVIOUS
  <2>2. /\ t \in Types /\ t.base \in {"i64", "double", "struct"} /\ t.ptr \in {0, 1}
        /\ Sound(t, context)
    BY <1>2, <2>1, LawfulSound
  <2>3. Fine(getStructField(field)) /\ Fine(Error)
    BY FieldSound DEF TypeInv, Clean, Fine
  <2>4. CASE Indexed(kind)
    <3>1. CreateGEP(t, offset) = t /\ ~Aborts(t)
      BY <1>2, <2>1, <2>2, <2>4, Kinds DEF CreateGEP
    <3>2. getPointedType(t) \in Types /\ Sound(getPointedType(t), context)
      <4>1. isPointerTy(t)
        BY <1>2, <2>1, <2>4
      <4>2. getPointedType(t).base = t.base /\ getPointedType(t).ctx = t.ctx
        BY <2>2 DEF getPointedType, Types
      <4> QED
        BY <2>2, <4>1, <4>2, PointedTyped DEF Sound
    <3> QED
      BY <1>2, <2>1, <2>3, <2>4, <3>1, <3>2 DEF Place, Fine, Indexed
  <2>5. CASE ~Indexed(kind)
    BY <1>2, <2>1, <2>2, <2>3, <2>5 DEF Place, Fine, Indexed, PlaceKinds
  <2> QED
    BY <2>4, <2>5
<1> QED
  BY <1>1, <1>2

\* A constant pointer, or the builder's own double, is what the place holds.
LEMMA StoreFine ==
  ASSUME NEW t \in Types, Sound(t, context), NEW right \in Values, NEW named \in BOOLEAN,
         ~(/\ context = "lambda" /\ t.ctx = "main"
           /\ \/ right = Nullptr /\ isPointerTy(t)
              \/ isIntegerTy(right) /\ isDoubleTy(t)),
         Sound(right, context)
  PROVE  Fine(AssignTo(t, right, named))
<1>1. t = [base |-> t.base, ptr |-> t.ptr, ctx |-> t.ctx] /\ t.ctx \in Contexts
      /\ t.ptr \in Nat /\ t.base \in Bases
  BY BoundsAssumption DEF Types, Contexts
<1>2. ASSUME context = "main" \/ t.ctx # "main" PROVE t.ctx = context
  BY <1>1, <1>2, ContextIsOne DEF Contexts, Sound
<1>3. CASE right = Nullptr
  <2>1. NullFor(t) \in {t, Error}
    <3>1. CASE ~isPointerTy(t)
      BY <3>1 DEF NullFor
    <3>2. CASE isPointerTy(t)
      <4>1. t.ctx = context
        BY <1>1, <1>2, <1>3, <3>2, ContextIsOne DEF Contexts
      <4>2. isIntegerTy(getPointedType(t)) => t = getIntNullPointer
        BY <1>1, <4>1 DEF isIntegerTy, getPointedType, getIntNullPointer, Int64Ty, PointerTo,
          Type, Sound
      <4>3. isDoubleTy(getPointedType(t)) => t = getFloatNullPointer
        BY <1>1, <4>1 DEF isDoubleTy, getPointedType, getFloatNullPointer, DoubleTy, PointerTo,
          Type
      <4> QED
        BY <3>2, <4>2, <4>3 DEF NullFor
    <3> QED
      BY <3>1, <3>2
  <2>2. ~isIntegerTy(right) /\ right # t
    BY <1>3, Kinds DEF isIntegerTy, Nullptr, Type
  <2>3. AssignTo(t, right, named) \in {CreateStore(NullFor(t), t), Error}
    BY <1>3, <2>2 DEF AssignTo
  <2> QED
    BY <2>1, <2>3 DEF CreateStore, Fine
<1>4. CASE right # Nullptr
  <2>1. isIntegerTy(right) /\ isDoubleTy(t) => t = DoubleTy
    BY <1>1, <1>2, ContextIsOne DEF isDoubleTy, DoubleTy, Type, Contexts
  <2>2. CASE right = t
    <3>1. AssignTo(t, right, named) = t
      BY <1>4, <2>2 DEF AssignTo
    <3> QED
      BY <3>1 DEF Fine
  <2>3. CASE right # t /\ isIntegerTy(right) /\ isDoubleTy(t)
    <3>1. AssignTo(t, right, named) = CreateStore(castIntToFloat(right), t)
      BY <1>4, <2>3 DEF AssignTo
    <3> QED
      BY <2>1, <2>3, <3>1 DEF CreateStore, castIntToFloat, Fine
  <2>4. CASE right # t /\ ~(isIntegerTy(right) /\ isDoubleTy(t))
    <3>1. AssignTo(t, right, named) = Error
      BY <1>4, <2>4 DEF AssignTo
    <3> QED
      BY <3>1 DEF Fine
  <2> QED
    BY <2>2, <2>3, <2>4
<1> QED
  BY <1>3, <1>4

\* An argument that is accepted has the type of its parameter.
LEMMA ArgumentFine ==
  ASSUME NEW a \in Values, NEW p \in Types \cup {Error}, p # Error => p.ctx = "main",
         ~(context = "lambda" /\ isIntegerTy(a) /\ isDoubleTy(p)),
         Argument(a, p) # Error
  PROVE  Argument(a, p) = p
<1>1. PICK v : v = IF a = Nullptr THEN NullFor(p) ELSE a
  OBVIOUS
<1>2. Argument(a, p) = CASE v = p -> v
                         [] v # p /\ isIntegerTy(v) /\ isDoubleTy(p) -> castIntToFloat(v)
                         [] v # p /\ isIntegerTy(v) /\ isIntegerTy(p) -> p
                         [] v # p /\ isDoubleTy(v) /\ isDoubleTy(p) -> p
                         [] OTHER -> Error
  BY <1>1 DEF Argument
<1>3. CASE v # p /\ isIntegerTy(v) /\ isDoubleTy(p)
  <2>1. p # Error /\ ~isIntegerTy(Error)
    BY <1>3 DEF isDoubleTy, isIntegerTy, Error, Type
  <2>2. p \in Types /\ ~isPointerTy(p) /\ ~isIntegerTy(p)
    BY <1>3, <2>1, Shapes
  <2>3. a # Nullptr
    BY <1>1, <1>3, <2>1, <2>2 DEF NullFor
  <2>4. context = "main"
    BY <1>1, <1>3, <2>3, ContextIsOne DEF Contexts
  <2>5. p = DoubleTy
    BY <1>3, <2>1, <2>2, <2>4 DEF Types, isDoubleTy, DoubleTy, Type
  <2>6. ~isDoubleTy(v)
    BY <1>3 DEF isDoubleTy, isIntegerTy
  <2> QED
    BY <1>2, <1>3, <2>2, <2>5, <2>6 DEF castIntToFloat
<1>4. CASE ~(v # p /\ isIntegerTy(v) /\ isDoubleTy(p))
  BY <1>2, <1>4
<1> QED
  BY <1>3, <1>4

LEMMA CallFine ==
  ASSUME StructInv, StructLawful, NEW f \in DOMAIN Signatures,
         NEW args \in Seq(Values), Len(args) = Len(Signatures[f].args),
         ~(context = "lambda" /\ MixedArgument(f, args))
  PROVE  Fine(visitFunctionCall(f, args))
<1>1. PICK sig : sig = generateFunction(Signatures[f])
  OBVIOUS
<1>2. PICK vals : vals = [i \in DOMAIN args |-> Argument(args[i], sig.args[i])]
  OBVIOUS
<1>3. Signatures[f].args \in Seq({Signatures[f].args[i] : i \in DOMAIN Signatures[f].args})
  BY ProgramAssumption
<1>4. DOMAIN args = DOMAIN Signatures[f].args
  BY <1>3, LenProperties
<1>5. /\ sig.ret \in Types \cup {Error}
      /\ DOMAIN sig.args = DOMAIN args
      /\ \A i \in DOMAIN args : sig.args[i] \in Types \cup {Error}
  BY <1>1, <1>4, ParameterTyped
<1>7. \A i \in DOMAIN args : sig.args[i] # Error => sig.args[i].ctx = "main"
  <2> SUFFICES ASSUME NEW i \in DOMAIN args, sig.args[i] # Error PROVE sig.args[i].ctx = "main"
    OBVIOUS
  <2>1. PICK src : src = Signatures[f].args[i].type /\ IsSource(src)
    BY <1>4, ProgramAssumption
  <2>2. sig.args[i] = getTypeFromString(src, FALSE, "main")
    BY <1>1, <1>4, <2>1 DEF generateFunction
  <2> QED
    BY <2>1, <2>2, MainSource
<1>8. sig.ret # Error => Sound(sig.ret, context)
  <2> SUFFICES ASSUME sig.ret # Error PROVE Sound(sig.ret, context)
    OBVIOUS
  <2>1. PICK src : src = Signatures[f].ret /\ IsSource(src)
    BY ProgramAssumption
  <2>2. sig.ret = getTypeFromString(src, TRUE, "main")
    BY <1>1, <2>1 DEF generateFunction
  <2> QED
    BY <2>1, <2>2, MainSource
<1>9. CASE \E i \in DOMAIN args : vals[i] = Error
  BY <1>1, <1>2, <1>9 DEF visitFunctionCall, Fine
<1>10. CASE ~\E i \in DOMAIN args : vals[i] = Error
  <2>1. \A i \in DOMAIN args : vals[i] = sig.args[i]
    <3> SUFFICES ASSUME NEW i \in DOMAIN args PROVE vals[i] = sig.args[i]
      OBVIOUS
    <3>1. args[i] \in Values
      BY ElementOfSeq
    <3>2. ~(context = "lambda" /\ isIntegerTy(args[i]) /\ isDoubleTy(sig.args[i]))
      BY <1>1 DEF MixedArgument
    <3> QED
      BY <1>2, <1>5, <1>7, <1>10, <3>1, <3>2, ArgumentFine
  <2>2. sig.args = [i \in DOMAIN sig.args |-> sig.args[i]]
    <3>1. sig.args = [i \in DOMAIN Signatures[f].args |->
                        getTypeFromString(Signatures[f].args[i].type, FALSE, "main")]
      BY <1>1 DEF generateFunction
    <3> QED
      BY <3>1
  <2>3. vals = sig.args
    BY <1>2, <1>5, <2>1, <2>2
  <2>4. visitFunctionCall(f, args) = sig.ret
    BY <1>1, <1>2, <1>10, <2>3 DEF visitFunctionCall, CreateCall
  <2> QED
    BY <1>5, <1>8, <2>4 DEF Fine
<1> QED
  BY <1>9, <1>10

\* A definition whose initial value is compared.
LEMMA InitialisedLawful ==
  ASSUME NEW src \in SourceTypes, NEW v \in Values, Sound(v, context), ~LooseInit(src, v),
         NEW t, t = Initialised(src, v), t # Error
  PROVE  /\ t \in Types /\ ~isVoidTy(t)
         /\ Lawful(Variable(t, src), context)
<1>1. src.name \in {"int", "float"} /\ src.ptr \in BOOLEAN
  BY DEF SourceTypes, LooseInit
<1>2. src \in Keywords /\ IsSource(src)
  BY DEF SourceTypes, Keywords, IsSource
<1>3. t \in Types
  BY <1>2, InitialisedTyped
<1>4. v # Nullptr => v.base \in Bases /\ v.ptr \in Nat /\ v.ctx \in Contexts
  BY BoundsAssumption DEF Values, Types, Contexts
<1>5. ~isPointerTy(Nullptr) /\ ~isIntegerTy(Nullptr)
  BY DEF isPointerTy, isIntegerTy, Nullptr, Type
<1>6. /\ t.base = SourceBase(src) /\ t.ptr = IF src.ptr THEN 1 ELSE 0
      /\ context = "main" => t.ctx = "main"
  <2>1. CASE src.ptr /\ v = Nullptr
    <3>1. t = PointerTo(Type(SourceBase(src), context))
      BY <1>1, <1>5, <2>1 DEF Initialised, SourceBase, getIntNullPointer, getFloatNullPointer,
        Int64Ty, DoubleTy
    <3> QED
      BY <2>1, <3>1 DEF PointerTo, Type
  <2>2. CASE src.ptr /\ v # Nullptr
    <3>1. /\ t = v /\ isPointerTy(v)
          /\ isIntegerTy(getPointedType(v)) => src.name = "int"
          /\ isDoubleTy(getPointedType(v)) => src.name = "float"
      BY <2>2 DEF Initialised
    <3>2. v.ptr = 1 /\ v.base \in {"i64", "double"}
      BY <1>4, <2>2, <3>1 DEF LooseInit, Sound, Bases
    <3>3. getPointedType(v).ptr = 0 /\ getPointedType(v).base = v.base
      BY <1>3, <3>1, <3>2 DEF getPointedType, Types
    <3>4. v.base = SourceBase(src)
      BY <1>1, <3>1, <3>2, <3>3 DEF isIntegerTy, isDoubleTy, SourceBase
    <3> QED
      BY <1>4, <2>2, <3>1, <3>2, <3>4 DEF Sound, Contexts
  <2>3. CASE ~src.ptr /\ src.name = "float" /\ isIntegerTy(v)
    <3>1. t = DoubleTy
      BY <2>3 DEF Initialised, castIntToFloat
    <3> QED
      BY <2>3, <3>1 DEF DoubleTy, Type, SourceBase
  <2>4. CASE ~src.ptr /\ ~(src.name = "float" /\ isIntegerTy(v))
    <3>1. t = v /\ v # Nullptr /\ ~isPointerTy(v) /\ ~(src.name = "int" /\ isDoubleTy(v))
      BY <2>4 DEF Initialised
    <3>2. v.ptr = 0 /\ v.base \in {"i64", "double"}
      BY <1>4, <2>4, <3>1 DEF LooseInit, Sound, Bases, isPointerTy, isStructTy, isVoidTy
    <3>3. v.base = SourceBase(src)
      BY <1>1, <2>4, <3>1, <3>2 DEF isIntegerTy, isDoubleTy, SourceBase
    <3> QED
      BY <1>4, <2>4, <3>1, <3>2, <3>3 DEF Sound, Contexts
  <2> QED
    BY <1>1, <2>1, <2>2, <2>3, <2>4
<1>7. ~isVoidTy(t)
  BY <1>1, <1>6 DEF isVoidTy, SourceBase
<1>8. Lawful(Variable(t, src), context)
  BY <1>1, <1>2, <1>3, <1>6 DEF Lawful, Variable
<1> QED
  BY <1>3, <1>7, <1>8

LEMMA ConditionFine ==
  ASSUME NEW c \in Values, Sound(c, context),
         ~(context = "lambda" /\ c.ctx = "main" /\ (isIntegerTy(c) \/ isDoubleTy(c)))
  PROVE  ~Aborts(Condition(c))
<1>1. PICK t : t = IF c = Nullptr \/ isPointerTy(c) THEN castPointerToInt(c) ELSE c
  OBVIOUS
<1>2. t = Int64Ty \/ (t = c /\ c \in Types /\ ~isPointerTy(c))
  BY <1>1 DEF castPointerToInt, Values
<1>3. isIntegerTy(t) => t = Int64Ty
  BY <1>2, ContextIsOne DEF Types, Sound, isIntegerTy, Int64Ty, Type, Contexts
<1>4. isDoubleTy(t) => t = DoubleTy
  BY <1>2, ContextIsOne, BuilderKinds DEF Types, Sound, isDoubleTy, DoubleTy, Type, Contexts
<1>5. Condition(c) = CASE isDoubleTy(t) -> castFloatToBoolean(t)
                       [] isIntegerTy(t) -> castIntToBoolean(t)
                       [] OTHER -> Error
  BY <1>1 DEF Condition
<1>6. ~(isDoubleTy(t) /\ isIntegerTy(t))
  BY DEF isDoubleTy, isIntegerTy
<1>7. Condition(c) \in {Type("i1", context), Error}
  BY <1>3, <1>4, <1>5, <1>6, Casts
<1>8. ~Aborts(Type("i1", context))
  BY ContextIsOne DEF Aborts, Type, Contexts
<1> QED
  BY <1>7, <1>8, Kinds

\* The declarations of parser.y fit the targets that are void or integers.
LEMMA ReconFine ==
  ASSUME NEW t \in {Type("void", "main"), Type("i64", "main")}
  PROVE  ~Aborts(reconCall(t))
<1>1. PICK int : int = Type("i64", "main")
  OBVIOUS
<1>2. /\ reconSignature("void").args = <<int, int, int>>
      /\ reconSignature("void").ret = Type("void", "main")
  BY <1>1 DEF reconSignature, getTypeFromString, BaseFromString, Source, Type, Error, isVoidTy
<1>3. /\ reconSignature("int").args = <<int, int, int, int, int>>
      /\ reconSignature("int").ret = int
  BY <1>1 DEF reconSignature, getTypeFromString, BaseFromString, Source, Type, Error, isVoidTy
<1>4. ~Aborts(Type("void", "main")) /\ ~Aborts(int)
  BY <1>1 DEF Aborts, Type
<1>5. CASE t = Type("void", "main")
  BY <1>1, <1>2, <1>4, <1>5 DEF reconCall, CreateCall, isVoidTy, isIntegerTy, isDoubleTy, Type
<1>6. CASE t = Type("i64", "main")
  <2>1. makeSched(t) = "int" /\ isIntegerTy(t) /\ ~isVoidTy(t) /\ t.ctx # "detached"
    BY <1>6 DEF makeSched, isIntegerTy, isDoubleTy, isVoidTy, Type
  <2>2. reconCall(t) = CreateCall(reconSignature("int"), <<int, int, int, int, int>>)
    BY <1>1, <1>6, <2>1 DEF reconCall
  <2> QED
    BY <1>3, <1>4, <2>2 DEF CreateCall
<1> QED
  BY <1>5, <1>6

-----------------------------------------------------------------------------

(***************************************************************************)
(* Steps of an accepted program keep it clean.                             *)
(***************************************************************************)
LEMMA ReportClean ==
  ASSUME TypeInv, NEW r, Report(r), error' = "no"
  PROVE  /\ error = "no" /\ r # Error /\ r # Abort("field")
         /\ ~Aborts(r) => process' = process
BY DEF Report, TypeInv, TypeOK

LEMMA VariablesKept ==
  ASSUME VariablesLawful, UNCHANGED <<namedValues, copyValues, structTypes>>,
         context' = context \/ context' = "lambda"
  PROVE  VariablesLawful'
<1>1. \A v : Lawful(v, context) => Lawful(v, "lambda")
  BY DEF Lawful
<1>2. \A n \in Names : Lawful(namedValues[n], context')
  BY <1>1 DEF VariablesLawful
<1> QED
  BY <1>2 DEF VariablesLawful

LEMMA YieldClean ==
  ASSUME TypeInv, Clean, NEW rest \in Seq(Values), NEW r, Fine(r), Yield(rest, r),
         \A i \in 1 .. Len(rest) : Sound(rest[i], context),
         UNCHANGED namedValues, error' = "no"
  PROVE  Clean'
<1>1. r # Error /\ r # Abort("field")
  BY ReportClean DEF Yield
<1>2. ~Aborts(r) /\ Sound(r, context) /\ r \in Values
  BY <1>1, Kinds, BuilderSound DEF Fine, Values
<1>3. process' = "alive"
  BY <1>2, ReportClean DEF Yield, Clean
<1>4. context' = context
  BY DEF Yield, context
<1>5. StackSound'
  <2>1. stack' = Append(rest, r)
    BY <1>1, <1>2 DEF Yield
  <2>2. Len(rest) \in Nat /\ Len(stack') = Len(rest) + 1 /\ stack'[Len(rest) + 1] = r
        /\ \A i \in 1 .. Len(rest) : stack'[i] = rest[i]
    BY <1>2, <2>1, AppendProperties, LenProperties
  <2>3. \A i \in 1 .. Len(stack') : Sound(stack'[i], context)
    BY <1>2, <2>2
  <2> QED
    BY <1>4, <2>3 DEF StackSound
<1>6. VariablesLawful'
  BY <1>4, VariablesKept DEF Yield, Clean
<1>7. StructLawful' /\ ReconLawful'
  BY DEF Yield, Clean, StructLawful, ReconLawful
<1> QED
  BY <1>3, <1>5, <1>6, <1>7 DEF Clean

LEMMA EndVisitClean ==
  ASSUME TypeInv, Clean, NEW r, ~Aborts(r), EndVisit(r), VariablesLawful', StructLawful',
         error' = "no"
  PROVE  Clean'
<1>1. process' = "alive"
  BY ReportClean DEF EndVisit, Clean
<1>2. StackSound'
  BY DEF EndVisit, StackSound
<1>3. ReconLawful'
  BY DEF EndVisit, Clean, ReconLawful
<1> QED
  BY <1>1, <1>2, <1>3 DEF Clean

LEMMA FinishClean ==
  ASSUME TypeInv, Clean, NEW r, ~Aborts(r), Finish(r), UNCHANGED namedValues, error' = "no"
  PROVE  Clean'
<1>1. context' = context
  BY DEF Finish, EndVisit, context
<1>2. VariablesLawful'
  BY <1>1, VariablesKept DEF Finish, EndVisit, Clean
<1>3. StructLawful'
  BY DEF Finish, Clean, StructLawful
<1> QED
  BY <1>2, <1>3, EndVisitClean DEF Finish

LEMMA StackSoundParts ==
  ASSUME TypeInv, StackSound, NEW k \in Nat, k <= Len(stack)
  PROVE  /\ \A i \in 1 .. Len(Below(k)) : Sound(Below(k)[i], context)
         /\ Below(k) \in Seq(Values)
         /\ stack # << >> => Sound(Top, context) /\ Top \in Values
<1>1. stack \in Seq(Values) /\ Len(stack) \in Nat
  BY DEF TypeInv, TypeOK, Values
<1>2. stack # << >> => Len(stack) \in 1 .. Len(stack)
  BY <1>1, EmptySeq
<1>3. stack # << >> => Sound(Top, context) /\ Top \in Values
  BY <1>2, StackParts DEF StackSound, Top
<1>4. /\ Below(k) \in Seq(Values) /\ Len(Below(k)) = Len(stack) - k
      /\ \A i \in 1 .. Len(stack) - k : Below(k)[i] = stack[i]
  BY StackParts
<1>5. \A i \in 1 .. Len(stack) - k : i \in 1 .. Len(stack)
  BY <1>1
<1> QED
  BY <1>3, <1>4, <1>5 DEF StackSound

LEMMA ExpressionClean ==
  ASSUME TypeInv, Clean, Admitted = {}, error' = "no",
         \/ VisitInteger \/ VisitFloat \/ VisitNullLiteral
         \/ \E n \in Names : VisitUnknown(n) \/ VisitAddressOf(n) \/ VisitAddressOfOffset(n)
         \/ \E kind \in PlaceKinds, n \in Names, field \in FieldNames : VisitPlace(kind, n, field)
         \/ \E op \in {"-", "!", "new"} : VisitUnaryOperator(op)
         \/ \E op \in Arithmetic \cup Comparisons \cup Logical : VisitBinaryOperator(op)
         \/ \E f \in DOMAIN Signatures : VisitFunctionCall(f) \/ VisitBadCall(f)
  PROVE  Clean'
<1>1. stack \in Seq(Values) /\ Len(stack) \in Nat /\ (stack # << >> => Len(stack) >= 1)
      /\ StackSound /\ \A i \in 1 .. Len(stack) : Sound(stack[i], context)
  BY EmptySeq DEF TypeInv, TypeOK, Values, Clean, StackSound
<1>2. Fine(Int64Ty) /\ Fine(DoubleTy) /\ Fine(PointerTo(Int64Ty)) /\ Fine(Nullptr) /\ Fine(Error)
  BY BuilderTypes, BuilderSound DEF Fine
<1>3. stack # << >> => /\ Top \in Values /\ Sound(Top, context) /\ Below(1) \in Seq(Values)
                       /\ \A i \in 1 .. Len(Below(1)) : Sound(Below(1)[i], context)
  BY <1>1, StackSoundParts
<1>4. CASE VisitInteger \/ VisitFloat \/ VisitNullLiteral
  BY <1>1, <1>2, <1>4, YieldClean DEF VisitInteger, VisitFloat, VisitNullLiteral
<1>5. ASSUME NEW n \in Names, VisitUnknown(n)
      PROVE  Clean'
  BY <1>5, ReportClean DEF VisitUnknown, Yield
<1>6. ASSUME NEW n \in Names, VisitAddressOf(n)
      PROVE  Clean'
  <2>1. PICK t : t = namedValues[n].alloca
    OBVIOUS
  <2>2. /\ t \in Types /\ t.base \in {"i64", "double", "struct"} /\ t.ptr \in {0, 1}
        /\ Sound(t, context) /\ t.ptr < MaxPtr
    BY <1>6, <2>1, LawfulSound DEF VisitAddressOf
  <2>3. PointerTo(t) \in Types /\ Sound(PointerTo(t), context)
    BY <2>2, BoundsAssumption DEF PointerTo, Types, Sound
  <2> QED
    BY <1>1, <1>6, <2>1, <2>3, YieldClean DEF VisitAddressOf, Fine
<1>7. ASSUME NEW n \in Names, VisitAddressOfOffset(n)
      PROVE  Clean'
  <2>1. PICK r : /\ r = IF isIntegerTy(Top) THEN CreateGEP(namedValues[n].alloca, Top) ELSE Error
                 /\ Yield(Below(1), r)
    BY <1>7 DEF VisitAddressOfOffset
  <2>2. Fine(r)
    BY <1>2, <1>7, <2>1, LawfulSound DEF VisitAddressOfOffset, CreateGEP, Admits, Fine
  <2> QED
    BY <1>3, <1>7, <2>1, <2>2, YieldClean DEF VisitAddressOfOffset
<1>8. ASSUME NEW kind \in PlaceKinds, NEW n \in Names, NEW field \in FieldNames,
             VisitPlace(kind, n, field)
      PROVE  Clean'
  <2>1. CASE Indexed(kind)
    <3>1. PICK r : r = Read(kind, n, field, Top) /\ Yield(Below(1), r)
      BY <1>8, <2>1 DEF VisitPlace
    <3>2. Fine(r)
      <4>1. CASE ~isIntegerTy(Top)
        BY <1>2, <2>1, <3>1, <4>1 DEF Read
      <4>2. CASE isIntegerTy(Top)
        <5>1. isPointerTy(namedValues[n].alloca)
          BY <1>8, <2>1, <4>2 DEF VisitPlace, Admits
        <5>2. Fine(Place(kind, n, field, Top))
          BY <4>2, <5>1, PlaceSound
        <5> QED
          BY <1>2, <3>1, <5>2 DEF Read
      <4> QED
        BY <4>1, <4>2
    <3> QED
      BY <1>3, <1>8, <2>1, <3>1, <3>2, YieldClean DEF VisitPlace
  <2>2. CASE ~Indexed(kind)
    <3>1. PICK r : r = Read(kind, n, field, Nullptr) /\ Yield(stack, r)
      BY <1>8, <2>2 DEF VisitPlace
    <3>2. Fine(Place(kind, n, field, Nullptr))
      BY <2>2, PlaceSound
    <3>3. Fine(r)
      BY <1>2, <3>1, <3>2 DEF Read
    <3> QED
      BY <1>1, <1>8, <3>1, <3>3, YieldClean DEF VisitPlace
  <2> QED
    BY <2>1, <2>2
<1>9. ASSUME NEW op, VisitUnaryOperator(op)
      PROVE  Clean'
  <2>1. Fine(visitUnaryOperator(op, Top))
    BY <1>2, <1>3, <1>9, UnaryResults DEF VisitUnaryOperator
  <2> QED
    BY <1>3, <1>9, <2>1, YieldClean DEF VisitUnaryOperator
<1>10. ASSUME NEW op \in Arithmetic \cup Comparisons \cup Logical, VisitBinaryOperator(op)
      PROVE  Clean'
  <2>1. PICK left : left = stack[Len(stack) - 1]
    OBVIOUS
  <2>2. stack # << >> /\ 2 <= Len(stack) /\ Len(stack) - 1 \in 1 .. Len(stack)
    BY <1>1, <1>10, EmptySeq DEF VisitBinaryOperator
  <2>3. left \in Values
    BY <1>1, <2>1, <2>2, ElementOfSeq
  <2>4. /\ ~(op \in Logical /\ isIntegerTy(left) /\ isIntegerTy(Top))
        /\ Yield(Below(2), visitBinaryOperator(op, left, Top))
    BY <1>10, <2>1 DEF VisitBinaryOperator, Admits
  <2>5. Fine(visitBinaryOperator(op, left, Top))
    <3>1. visitBinaryOperator(op, left, Top) \in {PointerTo(Int64Ty), Int64Ty, DoubleTy, Error}
      BY <1>3, <2>2, <2>3, <2>4, BinaryResults
    <3> QED
      BY <1>2, <3>1
  <2>6. Below(2) \in Seq(Values) /\ \A i \in 1 .. Len(Below(2)) : Sound(Below(2)[i], context)
    BY <1>1, <2>2, StackSoundParts
  <2> QED
    BY <1>10, <2>4, <2>5, <2>6, YieldClean DEF VisitBinaryOperator
<1>11. ASSUME NEW f \in DOMAIN Signatures, VisitFunctionCall(f)
      PROVE  Clean'
  <2>1. PICK k \in Nat : k = Len(Signatures[f].args)
    BY ProgramAssumption, LenProperties
  <2>2. k <= Len(stack)
    BY <1>1, <1>11, <2>1, BoundsAssumption DEF VisitFunctionCall
  <2>3. Below(k) \in Seq(Values) /\ \A i \in 1 .. Len(Below(k)) : Sound(Below(k)[i], context)
    BY <1>1, <2>2, StackSoundParts
  <2>4. LastOf(k) \in Seq(Values) /\ Len(LastOf(k)) = Len(Signatures[f].args)
    BY <2>1, <2>2, StackParts
  <2>5. /\ ~(context = "lambda" /\ MixedArgument(f, LastOf(k)))
        /\ Yield(Below(k), visitFunctionCall(f, LastOf(k)))
    BY <1>11, <2>1 DEF VisitFunctionCall, Admits
  <2>6. Fine(visitFunctionCall(f, LastOf(k)))
    BY <2>4, <2>5, CallFine DEF TypeInv, Clean
  <2> QED
    BY <1>11, <2>3, <2>5, <2>6, YieldClean DEF VisitFunctionCall
<1>12. ASSUME NEW f \in DOMAIN Signatures, VisitBadCall(f)
      PROVE  Clean'
  BY <1>12, ReportClean DEF VisitBadCall, Admits, Yield
<1> QED
  BY <1>4, <1>5, <1>6, <1>7, <1>8, <1>9, <1>10, <1>11, <1>12

\* A new variable is lawful; the name was free.
LEMMA DefineClean ==
  ASSUME TypeInv, Clean, NEW n \in Names, NEW t, NEW src, Define(n, t, src), ~Present(n),
         ~Aborts(t), t # Error => Lawful(Variable(t, src), context),
         src.name = "struct" /\ t # Error => structTypes # NoStruct,
         error' = "no"
  PROVE  Clean'
<1>1. t # Error
  BY ReportClean DEF Define, Finish, EndVisit
<1>2. namedValues[n] = Unset /\ Unset # NullEntry
  BY NoNullEntry DEF Unset, NullEntry, Variable, Type, Nullptr
<1>3. namedValues' = [namedValues EXCEPT ![n] = Variable(t, src)]
  BY <1>1, <1>2 DEF Define, Insert
<1>4. namedValues \in [Names -> Variables] /\ UNCHANGED <<copyValues, structTypes>>
  BY DEF TypeInv, TypeOK, Define, Finish, EndVisit
<1>5. context' = context
  BY DEF Define, Finish, EndVisit, context
<1>6. Variable(t, src).decl = src
  BY DEF Variable
<1>7. VariablesLawful'
  BY <1>1, <1>3, <1>4, <1>5, <1>6 DEF Clean, VariablesLawful
<1>8. StructLawful'
  BY <1>4 DEF Clean, StructLawful
<1> QED
  BY <1>7, <1>8, EndVisitClean DEF Define, Finish

LEMMA StatementClean ==
  ASSUME TypeInv, Clean, Admitted = {}, error' = "no",
         \/ VisitExpressionStatement \/ VisitReturnStatement
         \/ \E n \in Names : VisitRedefinition(n)
         \/ \E n \in Names, src \in SourceTypes : VisitVariableDefinition(n, src)
         \/ \E n \in Names, isPointer \in BOOLEAN : VisitStructureDeclaration(n, isPointer)
         \/ \E kind \in PlaceKinds, n \in Names, field \in FieldNames :
              VisitAssignStatement(kind, n, field)
  PROVE  Clean'
<1>1. stack \in Seq(Values) /\ Len(stack) \in Nat /\ StackSound /\ StructInv /\ StructLawful
  BY DEF TypeInv, TypeOK, Values, Clean
<1>2. Len(stack) = 1 => Top \in Values /\ Sound(Top, context)
  <2>1. Len(stack) = 1 => stack # << >> /\ 1 <= Len(stack)
    BY EmptySeq
  <2> QED
    BY <1>1, <2>1, StackSoundParts
<1>3. \A t \in Types \cup {Nullptr, Error} : ~Aborts(t)
  BY Kinds
<1>4. CASE VisitExpressionStatement
  BY <1>2, <1>3, <1>4, FinishClean DEF VisitExpressionStatement, Holds, Values
<1>5. CASE VisitReturnStatement
  <2>1. function # "none"
    BY <1>5 DEF VisitReturnStatement, Admits
  <2>2. \E r : ~Aborts(r) /\ Finish(r)
    BY <1>2, <1>3, <1>5, <2>1, ReturnedTyped DEF VisitReturnStatement, Holds, InsertBlock
  <2> QED
    BY <1>5, <2>2, FinishClean DEF VisitReturnStatement
<1>6. ASSUME NEW n \in Names, VisitRedefinition(n)
      PROVE  Clean'
  BY <1>6, ReportClean DEF VisitRedefinition, Finish, EndVisit
<1>7. ASSUME NEW n \in Names, NEW src \in SourceTypes, VisitVariableDefinition(n, src)
      PROVE  Clean'
  <2>1. IsSource(src) /\ src \in Keywords /\ src.ptr \in BOOLEAN /\ src.name # "struct"
    BY DEF SourceTypes, IsSource, Keywords
  <2>2. ASSUME namedValues[n] = Unset, Define(n, DefaultValue(src), src)
        PROVE  Clean'
    <3>1. PICK t : t = DefaultValue(src)
      OBVIOUS
    <3>2. ~Aborts(t)
      BY <1>1, <1>3, <2>1, <3>1, DefaultTyped
    <3>3. t # Error => Lawful(Variable(t, src), context)
      <4> SUFFICES ASSUME t # Error PROVE Lawful(Variable(t, src), context)
        OBVIOUS
      <4>1. CASE src.ptr
        <5>1. t = Initialised(src, Nullptr)
          BY <3>1, <4>1 DEF DefaultValue
        <5>2. src.name # "void"
          BY <4>1, <5>1 DEF Initialised, isPointerTy, Nullptr, Type
        <5>3. ~LooseInit(src, Nullptr) /\ Nullptr \in Values /\ Sound(Nullptr, context)
          BY <4>1, <5>2, BuilderSound DEF LooseInit, isPointerTy, Nullptr, Type, Values
        <5> QED
          BY <5>1, <5>3, InitialisedLawful
      <4>2. CASE ~src.ptr
        <5>1. t = getTypeFromString(src, FALSE, context)
          BY <3>1, <4>2 DEF DefaultValue
        <5>2. /\ t \in Types /\ t.ctx = context /\ t.base = SourceBase(src)
              /\ t.ptr = IF src.ptr THEN 1 ELSE 0
              /\ src.name = "void" => src.ptr
          BY <1>1, <2>1, <5>1, SourceLawful, ContextIsOne
        <5> QED
          BY <2>1, <5>2 DEF Lawful, Variable
      <4> QED
        BY <2>1, <4>1, <4>2
    <3>4. ~Present(n)
      BY <2>2 DEF Present
    <3> QED
      BY <2>1, <2>2, <3>1, <3>2, <3>3, <3>4, DefineClean
  <2>3. ASSUME Len(stack) = 1, ~Present(n), ~LooseInit(src, Top),
               Define(n, CreateAlloca(Initialised(src, Top)), src)
        PROVE  Clean'
    <3>1. PICK t : t = Initialised(src, Top)
      OBVIOUS
    <3>2. t = Error \/ (t \in Types /\ ~isVoidTy(t) /\ Lawful(Variable(t, src), context))
      BY <1>2, <2>3, <3>1, InitialisedLawful
    <3>3. CreateAlloca(t) = t
      BY <3>2 DEF CreateAlloca, isVoidTy, Error, Type
    <3> QED
      BY <1>3, <2>1, <2>3, <3>1, <3>2, <3>3, DefineClean
  <2> QED
    BY <1>7, <2>2, <2>3 DEF VisitVariableDefinition, Holds, Admits, InsertBlock
<1>8. ASSUME NEW n \in Names, NEW isPointer \in BOOLEAN, VisitStructureDeclaration(n, isPointer)
      PROVE  Clean'
  <2>1. PICK s : s = Source("struct", isPointer)
    OBVIOUS
  <2>2. IsSource(s) /\ "main" \in Contexts /\ s.name = "struct"
    BY <2>1 DEF IsSource, Source, Contexts
  <2>3. PICK t : t = getTypeFromString(s, FALSE, "main")
    OBVIOUS
  <2>4. t # Error => /\ t \in Types /\ s \in Keywords /\ structTypes # NoStruct
                     /\ t.ctx = "main" /\ t.base = SourceBase(s)
                     /\ t.ptr = IF s.ptr THEN 1 ELSE 0
    BY <1>1, <2>2, <2>3, StructureDeclared
  <2>5. Define(n, t, s) /\ ~Present(n)
    BY <1>8, <2>1, <2>3 DEF VisitStructureDeclaration, Admits, InsertBlock
  <2>6. t # Error => Lawful(Variable(t, s), context)
    BY <2>2, <2>4 DEF Lawful, Variable
  <2>7. ~Aborts(t)
    BY <1>3, <2>4
  <2> QED
    BY <2>2, <2>4, <2>5, <2>6, <2>7, DefineClean
<1>9. ASSUME NEW kind \in PlaceKinds, NEW n \in Names, NEW field \in FieldNames,
             VisitAssignStatement(kind, n, field)
      PROVE  Clean'
  <2>1. PICK place, right, r :
          /\ place = Place(kind, n, field, stack[2])
          /\ right = stack[1]
          /\ r = IF place = Error \/ Aborts(place) THEN place
                 ELSE AssignTo(place, right, kind # "deref")
    OBVIOUS
  <2>2. Finish(r)
    BY <1>9, <2>1 DEF VisitAssignStatement
  <2>3. Len(stack) \in {1, 2}
    BY <1>9 DEF VisitAssignStatement, Holds
  <2>4. right \in Values /\ Sound(right, context)
    <3>1. 1 \in 1 .. Len(stack)
      BY <2>3
    <3> QED
      BY <1>1, <2>1, <3>1, ElementOfSeq DEF StackSound
  <2>5. Fine(place)
    <3>1. Indexed(kind) /\ Present(n) =>
            isPointerTy(namedValues[n].alloca) /\ isIntegerTy(stack[2])
      BY <1>9 DEF VisitAssignStatement, Admits
    <3> QED
      BY <2>1, <3>1, PlaceSound
  <2>6. ~(/\ context = "lambda" /\ place.ctx = "main"
          /\ \/ right = Nullptr /\ isPointerTy(place)
             \/ isIntegerTy(right) /\ isDoubleTy(place))
    BY <1>9, <2>1 DEF VisitAssignStatement, Admits
  <2>7. r # Error /\ r # Abort("field")
    BY <2>2, ReportClean DEF Finish, EndVisit
  <2>8. place \in Types /\ Sound(place, context)
    <3>1. place # Error /\ place # Abort("field")
      BY <2>1, <2>7, Kinds
    <3>2. place # Nullptr
      <4>1. place \in Types \cup {Error, Abort("gep"), Abort("field")}
        BY <2>1, PlaceTyped
      <4> QED
        BY <4>1, Kinds
    <3> QED
      BY <2>5, <3>1, <3>2 DEF Fine
  <2>9. r = AssignTo(place, right, kind # "deref")
    BY <2>1, <2>8, Kinds
  <2>10. Fine(r)
    BY <2>4, <2>6, <2>8, <2>9, StoreFine
  <2>11. ~Aborts(r)
    BY <1>3, <2>7, <2>10 DEF Fine
  <2>12. Present(n)
    BY <2>1, <2>8, Kinds DEF Place
  <2>13. UNCHANGED namedValues
    BY <1>9, <2>12 DEF VisitAssignStatement
  <2> QED
    BY <2>2, <2>11, <2>13, FinishClean
<1> QED
  BY <1>4, <1>5, <1>6, <1>7, <1>8, <1>9

\* The steps of lambdas and commits, which visit no declaration.
LEMMA LambdaClean ==
  ASSUME TypeInv, Clean, Admitted = {}, error' = "no",
         \/ VisitIfStatement \/ ReturnFromLambda \/ LeaveLambda \/ Commit
         \/ \E kind \in {"statement", "target"} : EnterLambda(kind)
         \/ \E kind \in PlaceKinds, n \in Names, field \in FieldNames :
              VisitTarget(kind, n, field)
  PROVE  Clean'
<1>1. stack \in Seq(Values) /\ Len(stack) \in Nat /\ StackSound
      /\ reconVector \in Seq(Types \cup {Detached(t) : t \in Types}) /\ Len(reconVector) \in Nat
  BY DEF TypeInv, TypeOK, Values, Clean
<1>2. Len(stack) = 1 => Top \in Values /\ Sound(Top, context)
  <2>1. Len(stack) = 1 => stack # << >> /\ 1 <= Len(stack)
    BY EmptySeq
  <2> QED
    BY <1>1, <2>1, StackSoundParts
<1>3. \A t \in Types \cup {Nullptr, Error} : ~Aborts(t)
  BY Kinds
<1>4. ASSUME NEW r, Report(r), ~Aborts(r), stack' = << >>, VariablesLawful',
             UNCHANGED structTypes, ReconLawful'
      PROVE  Clean'
  <2>1. process' = "alive"
    BY <1>4, ReportClean DEF Clean
  <2>2. StackSound'
    BY <1>4 DEF StackSound
  <2>3. StructLawful'
    BY <1>4 DEF Clean, StructLawful
  <2> QED
    BY <1>4, <2>1, <2>2, <2>3 DEF Clean
<1>5. UNCHANGED reconVector => ReconLawful'
  BY DEF Clean, ReconLawful
<1>6. ASSUME NEW x \in {Type("void", "main"), Type("i64", "main")},
             reconVector' = Append(reconVector, x)
      PROVE  ReconLawful'
  <2>1. x \in Types
    BY TypeIsType DEF Bases, Contexts
  <2>2. /\ Len(reconVector') = Len(reconVector) + 1
        /\ reconVector'[Len(reconVector) + 1] = x
        /\ \A i \in 1 .. Len(reconVector) : reconVector'[i] = reconVector[i]
    BY <1>1, <1>6, <2>1, AppendProperties, LenProperties
  <2>3. \A i \in 1 .. Len(reconVector') :
          reconVector'[i] \in {Type("void", "main"), Type("i64", "main")}
    BY <1>1, <2>2 DEF Clean, ReconLawful
  <2> QED
    BY <2>3 DEF ReconLawful
<1>7. CASE VisitIfStatement
  <2>1. PICK r : Report(r) /\ ~Aborts(r)
    <3>1. ~Aborts(Condition(Top))
      BY <1>2, <1>7, ConditionFine DEF VisitIfStatement, Holds, Admits
    <3>2. Aborts(Abort("insert_block"))
      BY DEF Aborts, Abort, Type
    <3> QED
      BY <1>7, <3>1, <3>2 DEF VisitIfStatement, InsertBlock, Admits
  <2>2. context' = context
    BY <1>7 DEF VisitIfStatement, context, StatementHere
  <2>3. VariablesLawful'
    BY <1>7, <2>2, VariablesKept DEF VisitIfStatement, Clean
  <2> QED
    BY <1>4, <1>5, <1>7, <2>1, <2>3 DEF VisitIfStatement
<1>8. CASE ReturnFromLambda
  <2>1. ~Aborts(Returned(Top))
    BY <1>2, <1>3, <1>8, ReturnedTyped DEF ReturnFromLambda, Holds
  <2>2. context' = context
    BY <1>8 DEF ReturnFromLambda, context
  <2>3. VariablesLawful'
    BY <1>8, <2>2, VariablesKept DEF ReturnFromLambda, Clean
  <2> QED
    BY <1>4, <1>5, <1>8, <2>1, <2>3 DEF ReturnFromLambda
<1>9. CASE LeaveLambda
  <2>1. PICK int : int = Type("i64", "main")
    OBVIOUS
  <2>2. CreateCall(schedSignature, <<PointerTo(int), PointerTo(int), int, int>>)
          = Type("void", "main")
    BY <2>1 DEF CreateCall, schedSignature
  <2>3. ~Aborts(Type("void", "main"))
    BY DEF Aborts, Type
  <2>4. context' = "main"
    BY <1>9 DEF LeaveLambda, context
  <2>5. Lawful(Unset, "main") /\ Unset.decl.name # "struct"
    BY DEF Lawful, Unset, Variable, Source
  <2>6. VariablesLawful'
    BY <1>9, <2>4, <2>5 DEF LeaveLambda, Clean, VariablesLawful
  <2> QED
    BY <1>4, <1>5, <1>9, <2>1, <2>2, <2>3, <2>6 DEF LeaveLambda
<1>10. CASE Commit
  <2>1. PICK calls : /\ \A c \in calls : \E i \in DOMAIN reconVector : c = reconCall(reconVector[i])
                     /\ Report(IF \E c \in calls : Aborts(c) THEN CHOOSE c \in calls : Aborts(c)
                               ELSE Nullptr)
    BY <1>10 DEF Commit
  <2>2. DOMAIN reconVector = 1 .. Len(reconVector)
    BY <1>1, LenProperties
  <2>3. \A c \in calls : ~Aborts(c)
    BY <2>1, <2>2, ReconFine DEF Clean, ReconLawful
  <2>4. Report(Nullptr)
    BY <2>1, <2>3
  <2>5. context' = context
    BY <1>10 DEF Commit, context
  <2>6. VariablesLawful'
    BY <1>10, <2>5, VariablesKept DEF Commit, Clean
  <2>7. process' = "alive"
    BY <1>3, <2>4, ReportClean DEF Clean
  <2>8. StackSound' /\ StructLawful'
    BY <1>10, <2>5 DEF Commit, Clean, StackSound, StructLawful
  <2> QED
    BY <1>5, <1>10, <2>6, <2>7, <2>8 DEF Commit, Clean
<1>11. ASSUME NEW kind \in {"statement", "target"}, EnterLambda(kind)
       PROVE  Clean'
  <2>1. Report(Nullptr)
    BY <1>11, NoNullEntry DEF EnterLambda, InsertBlock, Admits
  <2>2. context = "main" /\ context' \in {"main", "lambda"} /\ stack' = << >>
    BY <1>11 DEF EnterLambda, context
  <2>3. \A v : Lawful(v, "main") => Lawful(v, "lambda")
    BY DEF Lawful
  <2>4. VariablesLawful'
    BY <1>11, <2>2, <2>3 DEF EnterLambda, Clean, VariablesLawful
  <2>5. ReconLawful'
    BY <1>5, <1>6, <1>11 DEF EnterLambda
  <2> QED
    BY <1>3, <1>4, <1>11, <2>1, <2>2, <2>4, <2>5 DEF EnterLambda
<1>12. ASSUME NEW kind \in PlaceKinds, NEW n \in Names, NEW field \in FieldNames,
              VisitTarget(kind, n, field)
       PROVE  Clean'
  <2>1. PICK place : place = Place(kind, n, field, stack[1])
    OBVIOUS
  <2>2. Fine(place)
    <3>1. Indexed(kind) /\ Present(n) =>
            isPointerTy(namedValues[n].alloca) /\ isIntegerTy(stack[1])
      BY <1>12 DEF VisitTarget, Admits
    <3> QED
      BY <2>1, <3>1, PlaceSound
  <2>3. place \in Types \cup {Error, Abort("gep"), Abort("field")}
    BY <2>1, PlaceTyped
  <2>4. Report(IF makeSched(place) = "none" /\ ~Aborts(place) THEN Error ELSE place)
    BY <1>12, <2>1 DEF VisitTarget
  <2>5. makeSched(place) # "none" /\ place \in Types
    <3>1. place # Error /\ place # Abort("field")
      <4>1. makeSched(Error) = "none" /\ ~Aborts(Error)
        BY Kinds DEF makeSched, Error, Type, isIntegerTy, isDoubleTy
      <4>2. makeSched(Abort("field")) = "none" /\ Aborts(Abort("field"))
        BY Kinds DEF makeSched, Abort, Type, isIntegerTy, isDoubleTy
      <4> QED
        BY <2>4, <4>1, <4>2, ReportClean
    <3>2. place \in Types
      BY <2>2, <2>3, <3>1, Kinds DEF Fine
    <3> QED
      BY <2>4, <3>1, <3>2, Kinds, ReportClean
  <2>6. kind = "ident" /\ makeSched(place) = "int"
    BY <1>12, <2>1, <2>5 DEF VisitTarget, Admits, makeSched
  <2>7. place = Type("i64", "main")
    <3>1. place = namedValues[n].alloca /\ Present(n)
      <4>1. Present(n)
        BY <2>1, <2>5, Kinds DEF Place
      <4> QED
        BY <2>1, <2>6, <4>1 DEF Place, Indexed
    <3>2. context = "main"
      BY <1>12 DEF VisitTarget, context
    <3>3. isIntegerTy(place)
      BY <2>6 DEF makeSched
    <3> QED
      BY <2>5, <3>1, <3>2, <3>3, LawfulSound DEF isIntegerTy, Type, Types
  <2>8. Report(place) /\ ~Aborts(place)
    BY <2>4, <2>5, Kinds
  <2>9. ReconLawful'
    BY <1>6, <1>12, <2>1, <2>5, <2>6, <2>7, Kinds DEF VisitTarget
  <2>10. context' = "lambda"
    BY <1>12, <2>1, <2>6 DEF VisitTarget, context
  <2>11. VariablesLawful'
    BY <1>12, <2>10, VariablesKept DEF VisitTarget, Clean
  <2> QED
    BY <1>4, <1>12, <2>8, <2>9, <2>11 DEF VisitTarget
<1> QED
  BY <1>7, <1>8, <1>9, <1>10, <1>11, <1>12

LEMMA DeclarationClean ==
  ASSUME TypeInv, Clean, Admitted = {}, error' = "no",
         \/ \E f \in DOMAIN Signatures : VisitFunctionDefinition(f) \/ VisitExternStatement(f)
         \/ \E def \in StructDefs : VisitStructureDefinition(def)
  PROVE  Clean'
<1>1. StructInv /\ StructLawful /\ ~Aborts(Nullptr)
  BY Kinds DEF TypeInv, Clean
<1>2. ASSUME NEW f \in DOMAIN Signatures, VisitFunctionDefinition(f)
      PROVE  Clean'
  <2>1. ~(module[f] = "defined" \/ ~ValidSignature(Signatures[f]))
    BY <1>2, ReportClean DEF VisitFunctionDefinition
  <2>2. context = "main" /\ context' = "main"
    BY <1>2 DEF VisitFunctionDefinition, TopLevel, context
  <2> DEFINE params == Signatures[f].args
  <2>3. \A i \in DOMAIN params :
          LET v == Variable(getTypeFromString(params[i].type, FALSE, "main"), params[i].type)
          IN  Lawful(v, "main") /\ (v.decl.name = "struct" => structTypes # NoStruct)
    <3> TAKE i \in DOMAIN params
    <3>1. PICK src : src = params[i].type
      OBVIOUS
    <3>2. IsSource(src) /\ "main" \in Contexts
      BY <3>1, ProgramAssumption DEF Contexts
    <3>3. PICK t : t = getTypeFromString(src, FALSE, "main") /\ t # Error
      BY <2>1, <3>1 DEF ValidSignature, generateFunction
    <3>4. /\ t \in Types /\ t.ctx = "main" /\ t.base = SourceBase(src)
          /\ t.ptr = IF src.ptr THEN 1 ELSE 0
          /\ src.name = "void" => src.ptr
      BY <1>1, <3>2, <3>3, SourceLawful
    <3>5. src \in Keywords
      BY <1>1, <3>2, <3>3, SourceTypesTyped
    <3>6. src.name = "struct" => structTypes # NoStruct
      BY <3>3 DEF getTypeFromString, BaseFromString
    <3> QED
      BY <3>1, <3>3, <3>4, <3>5, <3>6 DEF Lawful, Variable
  <2>4. namedValues' = [n \in Names |->
                   IF \E i \in DOMAIN params : params[i].ident = n
                   THEN LET src == (CHOOSE p \in {params[i] : i \in DOMAIN params} :
                                      p.ident = n).type
                        IN  Variable(getTypeFromString(src, FALSE, "main"), src)
                   ELSE Unset]
    BY <1>2, <2>1 DEF VisitFunctionDefinition
  <2>5. \A n \in Names : /\ Lawful(namedValues'[n], "main")
                         /\ namedValues'[n].decl.name = "struct" => structTypes # NoStruct
    <3> TAKE n \in Names
    <3>1. CASE \E i \in DOMAIN params : params[i].ident = n
      <4>1. PICK i \in DOMAIN params :
              params[i] = CHOOSE p \in {params[j] : j \in DOMAIN params} : p.ident = n
        BY <3>1
      <4>2. namedValues'[n] =
              Variable(getTypeFromString(params[i].type, FALSE, "main"), params[i].type)
        BY <2>4, <3>1, <4>1
      <4> QED
        BY <2>3, <4>2
    <3>2. CASE ~\E i \in DOMAIN params : params[i].ident = n
      <4>1. Lawful(Unset, "main") /\ Unset.decl.name # "struct"
        BY DEF Lawful, Unset, Variable, Source
      <4> QED
        BY <2>4, <3>2, <4>1
    <3> QED
      BY <3>1, <3>2
  <2>6. UNCHANGED <<copyValues, stack, structTypes, reconVector>> /\ Report(Nullptr)
    BY <1>2, <2>1 DEF VisitFunctionDefinition
  <2>7. VariablesLawful'
    BY <2>2, <2>5, <2>6 DEF Clean, VariablesLawful
  <2>8. StackSound' /\ StructLawful' /\ ReconLawful'
    BY <2>2, <2>6 DEF Clean, StackSound, StructLawful, ReconLawful
  <2>9. process' = "alive"
    BY <1>1, <2>6, ReportClean DEF Clean
  <2> QED
    BY <2>7, <2>8, <2>9 DEF Clean
<1>3. ASSUME NEW f \in DOMAIN Signatures, VisitExternStatement(f)
      PROVE  Clean'
  <2>1. context' = context
    BY <1>3 DEF VisitExternStatement, context
  <2>2. VariablesLawful'
    BY <1>3, <2>1, VariablesKept DEF VisitExternStatement, Clean
  <2>3. StackSound' /\ StructLawful' /\ ReconLawful'
    BY <1>3, <2>1 DEF VisitExternStatement, Clean, StackSound, StructLawful, ReconLawful
  <2>4. process' = "alive"
    BY <1>1, <1>3, Kinds, ReportClean DEF VisitExternStatement, Clean
  <2> QED
    BY <2>2, <2>3, <2>4 DEF Clean
<1>4. ASSUME NEW def \in StructDefs, VisitStructureDefinition(def)
      PROVE  Clean'
  <2>1. PICK r : /\ r = CASE DOMAIN def = {} -> Abort("empty_struct")
                          [] \E x \in DOMAIN def : BadField(def[x]) -> Error
                          [] OTHER -> Nullptr
                 /\ EndVisit(r)
                 /\ ~(r = Nullptr /\ structTypes # NoStruct /\ structTypes.fields # def)
                 /\ structTypes' = CASE r # Nullptr -> structTypes
                          [] r = Nullptr /\ structTypes = NoStruct ->
                               [fields |-> def, decl |-> def, ctx |-> context]
                          [] OTHER -> [structTypes EXCEPT !.decl = def]
    BY <1>4 DEF VisitStructureDefinition, Admits
  <2>2. DOMAIN def # {} /\ context = "main" /\ UNCHANGED namedValues
    BY <1>4, ContextIsOne DEF VisitStructureDefinition, Admits, Contexts
  <2>3. r = Nullptr
    BY <2>1, <2>2, ReportClean DEF EndVisit
  <2>4. context' = context
    BY <2>1 DEF EndVisit, context
  <2>5. structTypes' # NoStruct /\ StructLawful'
    <3>1. CASE structTypes = NoStruct
      <4>1. structTypes' = [fields |-> def, decl |-> def, ctx |-> "main"]
        BY <2>1, <2>2, <2>3, <3>1
      <4> QED
        BY <4>1 DEF StructLawful, NoStruct
    <3>2. CASE structTypes # NoStruct
      <4>1. structTypes' = [structTypes EXCEPT !.decl = def] /\ structTypes.fields = def
        BY <2>1, <2>3, <3>2
      <4>2. structTypes \in [fields : StructDefs, decl : StructDefs, ctx : Contexts]
        BY <1>1, <3>2 DEF StructInv
      <4>3. structTypes'.fields = def /\ structTypes'.decl = def
            /\ structTypes'.ctx = structTypes.ctx /\ structTypes.ctx = "main"
        BY <1>1, <4>1, <4>2 DEF StructLawful, Contexts
      <4> QED
        BY <4>3 DEF StructLawful, NoStruct
    <3> QED
      BY <3>1, <3>2
  <2>6. UNCHANGED copyValues
    BY <2>1 DEF EndVisit
  <2>7. VariablesLawful'
    BY <2>2, <2>4, <2>5, <2>6 DEF Clean, VariablesLawful
  <2> QED
    BY <1>1, <2>1, <2>3, <2>5, <2>7, EndVisitClean
<1> QED
  BY <1>2, <1>3, <1>4

LEMMA AcceptedInit == Init => AcceptedInv
<1> SUFFICES ASSUME Init PROVE Clean
  BY DEF AcceptedInv
<1>1. Lawful(Unset, "main") /\ Unset.decl.name # "struct"
  BY DEF Lawful, Unset, Variable, Source
<1>2. context = "main"
  BY DEF Init, context
<1>3. VariablesLawful
  BY <1>1, <1>2 DEF Init, VariablesLawful
<1>4. StackSound /\ ReconLawful
  BY DEF Init, StackSound, ReconLawful
<1>5. StructLawful
  BY DEF Init, StructLawful, NoStruct
<1> QED
  BY <1>3, <1>4, <1>5 DEF Init, Clean

\* No step takes an error back.
LEMMA ErrorsStay ==
  ASSUME TypeInv, Next, error' = "no"
  PROVE  error = "no"
<1>1. \E r : Report(r)
  <2>1. \A rest, r : Yield(rest, r) => Report(r)
    BY DEF Yield
  <2>2. \A r : EndVisit(r) => Report(r)
    BY DEF EndVisit
  <2>3. \A r : Finish(r) => Report(r)
    BY <2>2 DEF Finish
  <2>4. \A n, t, src : Define(n, t, src) => Report(t)
    BY <2>3 DEF Define
  <2>5. CASE VisitInteger \/ VisitFloat \/ VisitNullLiteral
    BY <2>1, <2>5 DEF VisitInteger, VisitFloat, VisitNullLiteral
  <2>6. ASSUME NEW n \in Names,
               VisitUnknown(n) \/ VisitAddressOf(n) \/ VisitAddressOfOffset(n)
                 \/ VisitRedefinition(n)
        PROVE  \E r : Report(r)
    BY <2>1, <2>3, <2>6
    DEF VisitUnknown, VisitAddressOf, VisitAddressOfOffset, VisitRedefinition
  <2>7. ASSUME NEW kind \in PlaceKinds, NEW n \in Names, NEW field \in FieldNames,
               VisitPlace(kind, n, field) \/ VisitAssignStatement(kind, n, field)
                 \/ VisitTarget(kind, n, field)
        PROVE  \E r : Report(r)
    BY <2>1, <2>3, <2>7 DEF VisitPlace, VisitAssignStatement, VisitTarget
  <2>8. ASSUME NEW op, VisitUnaryOperator(op) \/ VisitBinaryOperator(op)
        PROVE  \E r : Report(r)
    BY <2>1, <2>8 DEF VisitUnaryOperator, VisitBinaryOperator
  <2>9. ASSUME NEW f \in DOMAIN Signatures,
               VisitFunctionCall(f) \/ VisitBadCall(f) \/ VisitFunctionDefinition(f)
                 \/ VisitExternStatement(f)
        PROVE  \E r : Report(r)
    BY <2>1, <2>9
    DEF VisitFunctionCall, VisitBadCall, VisitFunctionDefinition, VisitExternStatement
  <2>10. ASSUME NEW n \in Names, NEW src \in SourceTypes, VisitVariableDefinition(n, src)
         PROVE  \E r : Report(r)
    BY <2>4, <2>10 DEF VisitVariableDefinition
  <2>11. ASSUME NEW n \in Names, NEW isPointer \in BOOLEAN,
                VisitStructureDeclaration(n, isPointer)
         PROVE  \E r : Report(r)
    BY <2>4, <2>11 DEF VisitStructureDeclaration
  <2>12. ASSUME NEW def \in StructDefs, VisitStructureDefinition(def)
         PROVE  \E r : Report(r)
    BY <2>2, <2>12 DEF VisitStructureDefinition
  <2>13. CASE VisitExpressionStatement \/ VisitIfStatement \/ VisitReturnStatement
              \/ ReturnFromLambda \/ LeaveLambda \/ Commit
    BY <2>3, <2>13 DEF VisitExpressionStatement, VisitIfStatement, VisitReturnStatement,
      ReturnFromLambda, LeaveLambda, Commit
  <2>14. ASSUME NEW kind \in {"statement", "target"}, EnterLambda(kind)
         PROVE  \E r : Report(r)
    BY <2>14 DEF EnterLambda
  <2> QED
    BY <2>5, <2>6, <2>7, <2>8, <2>9, <2>10, <2>11, <2>12, <2>13, <2>14 DEF Next
<1> QED
  BY <1>1, ReportClean

LEMMA AcceptedStep ==
  ASSUME Admitted = {}
  PROVE  TypeInv /\ AcceptedInv /\ [Next]_typeVars => AcceptedInv'
<1> SUFFICES ASSUME TypeInv, AcceptedInv, [Next]_typeVars, error' = "no" PROVE Clean'
  BY DEF AcceptedInv
<1>1. CASE UNCHANGED typeVars
  <2>1. Clean /\ context' = context
    BY <1>1 DEF AcceptedInv, typeVars, context
  <2>2. VariablesLawful'
    BY <1>1, <2>1, VariablesKept DEF typeVars, Clean
  <2> QED
    BY <1>1, <2>1, <2>2 DEF typeVars, Clean, StackSound, StructLawful, ReconLawful
<1>2. CASE Next
  <2>1. Clean
    BY <1>2, ErrorsStay DEF AcceptedInv
  <2> QED
    BY <1>2, <2>1, ExpressionClean, StatementClean, LambdaClean, DeclarationClean DEF Next
<1> QED
  BY <1>1, <1>2

(***************************************************************************)
(* The hand-written checks of CodeGenVisitor cover LLVM's assertions: in a *)
(* program TypeRules considers (see its head) that uses none of the        *)
(* thirteen constructs listed there before Admits, the compiler is only    *)
(* ended by an assertion or a null pointer after it reported an error.     *)
(***************************************************************************)
THEOREM AbortsAreDiagnosed ==
  ASSUME Admitted = {}
  PROVE  Spec => []DiagnosedAbort
<1>1. TypeInv /\ AcceptedInv => DiagnosedAbort
  BY DEF TypeInv, TypeOK, AcceptedInv, Clean, DiagnosedAbort
<1>2. TypeInv /\ AcceptedInv /\ [Next]_typeVars => AcceptedInv'
  BY AcceptedStep
<1> QED
  BY <1>1, <1>2, TypeInit, TypeStep, AcceptedInit, PTL DEF Spec

(***************************************************************************)
(* The alloca visitVariableDefinition and visitStructureDeclaration make   *)
(* from the type of an initial value has the declared type, and a          *)
(* structure the fields of its latest definition, in every program without *)
(* the constructs of Admitted that is accepted so far.                     *)
(***************************************************************************)
THEOREM VariablesAsDeclared ==
  ASSUME Admitted = {}
  PROVE  Spec => []DeclaredType
<1>1. TypeInv /\ AcceptedInv => DeclaredType
  <2> SUFFICES ASSUME TypeInv, AcceptedInv, error = "no"
               PROVE  /\ structTypes.fields = structTypes.decl
                      /\ \A n \in Names : Present(n) =>
                           namedValues[n].alloca =
                             getTypeFromString(namedValues[n].decl, FALSE,
                                               namedValues[n].alloca.ctx)
    BY DEF DeclaredType
  <2>1. StructInv /\ StructLawful /\ VariablesLawful
    BY DEF TypeInv, AcceptedInv, Clean
  <2>2. \A n \in Names : Present(n) =>
          namedValues[n].alloca =
            getTypeFromString(namedValues[n].decl, FALSE, namedValues[n].alloca.ctx)
    <3> SUFFICES ASSUME NEW n \in Names, Present(n)
                 PROVE  namedValues[n].alloca =
                          getTypeFromString(namedValues[n].decl, FALSE, namedValues[n].alloca.ctx)
      OBVIOUS
    <3>1. PICK v : v = namedValues[n]
      OBVIOUS
    <3>2. /\ Lawful(v, context) /\ v # Unset
          /\ v.decl.name = "struct" => structTypes # NoStruct
      BY <2>1, <3>1 DEF VariablesLawful, Present
    <3> QED
      BY <2>1, <3>1, <3>2, LawfulDeclared
  <2> QED
    BY <2>1, <2>2 DEF StructLawful
<1>2. TypeInv /\ AcceptedInv /\ [Next]_typeVars => AcceptedInv'
  BY AcceptedStep
<1> QED
  BY <1>1, <1>2, TypeInit, TypeStep, AcceptedInit, PTL DEF Spec

=============================================================================

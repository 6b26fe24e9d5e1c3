---------------------------- MODULE MCTypeRules ----------------------------
(***************************************************************************)
(* A small program text for TypeRules: one structure with a pointer to     *)
(* itself, and functions taking and returning each kind of type.           *)
(***************************************************************************)
EXTENDS TypeRules

Field(name, isPointer, init) == [type |-> Source(name, isPointer), init |-> init]

\* The structure, without fields, with other fields, and with a field that is rejected.
MCStructDefs ==
  {[c |-> Field("float", FALSE, FALSE), e |-> Field("struct", TRUE, FALSE)],
   << >>,
   [c |-> Field("int", FALSE, FALSE)],
   [c |-> Field("int", FALSE, TRUE)],
   [c |-> Field("void", FALSE, FALSE)],
   [c |-> Field("float", FALSE, FALSE), e |-> Field("struct", FALSE, FALSE)],
   [e |-> Field("unknown", TRUE, FALSE)]}

Parameter(ident, type) == [ident |-> ident, type |-> type]

MCSignatures ==
  [main |-> [ret |-> Source("void", FALSE), args |-> << >>],
   f    |-> [ret |-> Source("int", TRUE),
             args |-> <<Parameter("a", Source("float", FALSE)),
                        Parameter("b", Source("int", TRUE))>>],
   bad  |-> [ret |-> Source("struct", TRUE),
             args |-> <<Parameter("a", Source("void", FALSE))>>]]

=============================================================================

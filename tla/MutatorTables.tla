---------------------------- MODULE MutatorTables ----------------------------
(***************************************************************************)
(* The mutators of lib/Mutators, named by their identifiers.  A mutator    *)
(* says which IR opcodes its low level mutators accept and what they turn  *)
(* them into, and which source operator it replaces (as its diagnostics    *)
(* say) by which (as its replacement says).  Several mutators accept the same opcode: "add" may   *)
(* come from +, +=, x++, ++x or x--.  The tables of lib/AST and of the     *)
(* junk detector are what tells them apart again.                          *)
(***************************************************************************)
EXTENDS Integers, Sequences, FiniteSets, TLC, SequencesExt

Mutator(id, ir, from, to) == [id |-> id, ir |-> ir, from |-> from, to |-> to]

-----------------------------------------------------------------------------
(***************************************************************************)
(* The mutators.                                                           *)
(***************************************************************************)

GetAddToSub == [add |-> "sub", fadd |-> "fsub", sadd_ov |-> "ssub_ov"]
AddMutators ==
  {Mutator("cxx_add_to_sub", GetAddToSub, "+", "-"),
   Mutator("cxx_add_assign_to_sub_assign", GetAddToSub, "+=", "-="),
   Mutator("cxx_post_inc_to_post_dec", GetAddToSub, "x++", "x--"),
   Mutator("cxx_pre_inc_to_pre_dec", GetAddToSub, "++x", "--x")}

GetSubToAdd == [sub |-> "add", fsub |-> "fadd", ssub_ov |-> "sadd_ov"]
\* A decrement is compiled to "add x, -1".
GetDecToInc == [add |-> "sub", sub |-> "add", fsub |-> "fadd", ssub_ov |-> "sadd_ov"]
SubMutators ==
  {Mutator("cxx_sub_to_add", GetSubToAdd, "-", "+"),
   Mutator("cxx_sub_assign_to_add_assign", GetSubToAdd, "-=", "+="),
   Mutator("cxx_post_dec_to_post_inc", GetDecToInc, "x--", "x++"),
   Mutator("cxx_pre_dec_to_pre_inc", GetDecToInc, "--x", "++x")}

GetMulToDiv == [mul |-> "sdiv", fmul |-> "fdiv"]
MulMutators ==
  {Mutator("cxx_mul_to_div", GetMulToDiv, "*", "/"),
   Mutator("cxx_mul_assign_to_div_assign", GetMulToDiv, "*=", "/=")}

GetDivToMul == [fdiv |-> "fmul", sdiv |-> "mul", udiv |-> "mul"]
DivMutators ==
  {Mutator("cxx_div_to_mul", GetDivToMul, "/", "*"),
   Mutator("cxx_div_assign_to_mul_assign", GetDivToMul, "/=", "*=")}

\* Mutant: the remainder of unsigned numbers becomes a signed division.
GetRemToSDiv == [frem |-> "fdiv", srem |-> "sdiv", urem |-> "sdiv"]

GetRemToDiv == [frem |-> "fdiv", srem |-> "sdiv", urem |-> "udiv"]
RemMutators ==
  {Mutator("cxx_rem_to_div", GetRemToDiv, "%", "/"),
   Mutator("cxx_rem_assign_to_div_assign", GetRemToDiv, "%=", "/=")}

\* "x ^ -1" becomes "x & -1".
NotMutators ==
  {Mutator("cxx_bitwise_not_to_noop", [xor |-> "and"], "~x", "x")}

\* Swaps the operands of a subtraction from zero: the opcodes that end in 0.
MinusMutators ==
  {Mutator("cxx_minus_to_noop", [sub0 |-> "swapped", fsub0 |-> "swapped"], "-x", "x")}

GetRShiftToLShift == [lshr |-> "shl", ashr |-> "shl"]
ShiftMutators ==
  {Mutator("cxx_lshift_to_rshift", [shl |-> "lshr"], "<<", ">>"),
   Mutator("cxx_lshift_assign_to_rshift_assign", [shl |-> "lshr"], "<<=", ">>="),
   Mutator("cxx_rshift_to_lshift", GetRShiftToLShift, ">>", ">>"),
   Mutator("cxx_rshift_assign_to_lshift_assign", GetRShiftToLShift, ">>=", "<<=")}

BitMutators ==
  {Mutator("cxx_or_to_and", [or |-> "and"], "|", "&"),
   Mutator("cxx_or_assign_to_and_assign", [or |-> "and"], "|=", "&="),
   Mutator("cxx_and_to_or", [and |-> "or"], "&", "|"),
   Mutator("cxx_and_assign_to_or_assign", [and |-> "or"], "&=", "|="),
   Mutator("cxx_xor_to_or", [xor |-> "or"], "^", "|"),
   Mutator("cxx_xor_assign_to_or_assign", [xor |-> "or"], "^=", "|=")}

\* A relational mutator has a replacement for the signed, the unsigned, the
\* ordered and the unordered predicate.
LtToLe == [slt |-> "sle", ult |-> "ule", folt |-> "fole", fult |-> "fule"]
LeToLt == [sle |-> "slt", ule |-> "ult", fole |-> "folt", fule |-> "fult"]
GtToGe == [sgt |-> "sge", ugt |-> "uge", fogt |-> "foge", fugt |-> "fuge"]
GeToGt == [sge |-> "sgt", uge |-> "ugt", foge |-> "fogt", fuge |-> "fugt"]
BoundaryMutators ==
  {Mutator("cxx_lt_to_le", LtToLe, "<", "<="),
   Mutator("cxx_le_to_lt", LeToLt, "<=", "<"),
   Mutator("cxx_gt_to_ge", GtToGe, ">", ">="),
   Mutator("cxx_ge_to_gt", GeToGt, ">=", ">")}

EqToNe == [eq |-> "ne", foeq |-> "fone", fueq |-> "fune"]
NeToEq == [ne |-> "eq", fone |-> "foeq", fune |-> "fueq"]
EqualMutators ==
  {Mutator("cxx_eq_to_ne", EqToNe, "==", "!="),
   Mutator("cxx_ne_to_eq", NeToEq, "!=", "==")}

GtToLe == [sgt |-> "sle", ugt |-> "ule", fogt |-> "fole", fugt |-> "fule"]
GeToLt == [sge |-> "slt", uge |-> "ult", foge |-> "folt", fuge |-> "fult"]
LtToGe == [slt |-> "sge", ult |-> "uge", folt |-> "foge", fult |-> "fuge"]
LeToGt == [sle |-> "sgt", ule |-> "ugt", fole |-> "fogt", fule |-> "fugt"]
ComparisonMutators ==
  {Mutator("cxx_gt_to_le", GtToLe, ">", "<="),
   Mutator("cxx_ge_to_lt", GeToLt, ">=", "<"),
   Mutator("cxx_lt_to_ge", LtToGe, "<", ">="),
   Mutator("cxx_le_to_gt", LeToGt, "<=", ">")}

GetNumberMutators == [store_int |-> "store_42", store_double |-> "store_42",
                      store_float |-> "store_42"]
NumberMutators ==
  {Mutator("cxx_assign_const", GetNumberMutators, "a=b", "a=42"),
   Mutator("cxx_init_const", GetNumberMutators, "T=b", "T=42")}

NegateMutator ==
  {Mutator("negate_mutator", [eq |-> "ne", foeq |-> "fone", fueq |-> "fune",
                              ne |-> "eq", fone |-> "foeq", fune |-> "fueq"], "!x", "x")}

RemoveVoidMutator ==
  {Mutator("remove_void_function_mutator",
           [call_void |-> "nothing", intrinsic_void |-> "nothing"], "v()", "noop")}

ReplaceCallMutator ==
  {Mutator("replace_call_mutator",
           [call_int |-> "42", call_float |-> "42", call_double |-> "42"], "f()", "42")}

\* Takes any instruction with a constant among its first five operands.
ScalarMutator == {Mutator("scalar_value_mutator", << >>, "constant", "0|42")}

\* The branches these two take are those of module LogicalMutators.
LogicalMutators ==
  {Mutator("cxx_logical_and_to_or", [br_and |-> "br_or"], "&&", "||"),
   Mutator("cxx_logical_or_to_and", [br_or |-> "br_and"], "||", "&&")}

\* MutatorsFactory::init: the mutators by their identifiers.
Created ==
  NegateMutator \union ReplaceCallMutator \union RemoveVoidMutator \union ScalarMutator \union
  NumberMutators \union AddMutators \union SubMutators \union MulMutators \union
  DivMutators \union RemMutators \union BitMutators \union ShiftMutators \union
  MinusMutators \union NotMutators \union LogicalMutators \union EqualMutators \union
  ComparisonMutators \union BoundaryMutators
AllMutators ==
  [id \in {m.id : m \in Created} |-> CHOOSE m \in Created : m.id = id]

-----------------------------------------------------------------------------
(***************************************************************************)
(* The groups of the factory.                                              *)
(***************************************************************************)

GroupsMapping ==
  ("cxx_const_assignment" :> {"cxx_assign_const", "cxx_init_const"}) @@
  ("cxx_bitwise_assignment" :> {"cxx_and_assign_to_or_assign",
     "cxx_or_assign_to_and_assign", "cxx_xor_assign_to_or_assign",
     "cxx_lshift_assign_to_rshift_assign", "cxx_rshift_assign_to_lshift_assign"}) @@
  ("cxx_arithmetic_assignment" :> {"cxx_add_assign_to_sub_assign",
     "cxx_sub_assign_to_add_assign", "cxx_mul_assign_to_div_assign",
     "cxx_div_assign_to_mul_assign", "cxx_rem_assign_to_div_assign"}) @@
  ("cxx_increment" :> {"cxx_pre_inc_to_pre_dec", "cxx_post_inc_to_post_dec"}) @@
  ("cxx_decrement" :> {"cxx_pre_dec_to_pre_inc", "cxx_post_dec_to_post_inc"}) @@
  ("cxx_arithmetic" :> {"cxx_minus_to_noop", "cxx_add_to_sub", "cxx_sub_to_add",
     "cxx_mul_to_div", "cxx_div_to_mul", "cxx_rem_to_div"}) @@
  ("cxx_bitwise" :> {"cxx_bitwise_not_to_noop", "cxx_and_to_or", "cxx_or_to_and",
     "cxx_xor_to_or", "cxx_lshift_to_rshift", "cxx_rshift_to_lshift"}) @@
  ("cxx_logical" :> {"cxx_logical_and_to_or", "cxx_logical_or_to_and"}) @@
  ("cxx_comparison" :> {"cxx_eq_to_ne", "cxx_ne_to_eq", "cxx_le_to_gt",
     "cxx_lt_to_ge", "cxx_ge_to_lt", "cxx_gt_to_le"}) @@
  ("cxx_boundary" :> {"cxx_le_to_lt", "cxx_lt_to_le", "cxx_ge_to_gt", "cxx_gt_to_ge"}) @@
  ("cxx_assignment" :> {"cxx_bitwise_assignment", "cxx_arithmetic_assignment",
     "cxx_const_assignment"}) @@
  ("cxx_all" :> {"cxx_assignment", "cxx_increment", "cxx_decrement", "cxx_arithmetic",
     "cxx_comparison", "cxx_boundary", "cxx_bitwise"}) @@
  ("cxx_default" :> {"cxx_increment", "cxx_arithmetic", "cxx_comparison",
     "cxx_boundary"}) @@
  ("experimental" :> {"negate_mutator", "remove_void_function_mutator",
     "scalar_value_mutator", "replace_call_mutator", "cxx_logical"}) @@
  ("all" :> {"cxx_all", "experimental"})

\* The mutators of a group, those of its subgroups included.
GroupMutators[g \in DOMAIN GroupsMapping] ==
  UNION {IF h \in DOMAIN GroupsMapping THEN GroupMutators[h] ELSE {h} : h \in GroupsMapping[g]}

\* expandGroups.
ExpandGroups(groups) ==
  UNION {IF g \in DOMAIN GroupsMapping THEN GroupMutators[g] ELSE {g} : g \in groups}

\* What -mutators accepts: commandLineOptions of the factory.
CommandLineOptions == DOMAIN GroupsMapping \union ExpandGroups({"all"})

-----------------------------------------------------------------------------
(***************************************************************************)
(* The tables that go back from the source to the mutators.                *)
(***************************************************************************)

\* BINARY_MUTATIONS of the AST search: of several mutators of an operator the
\* first that is enabled counts.
BINARY_MUTATIONS == <<
  << "+", "cxx_add_to_sub" >>, << "-", "cxx_sub_to_add" >>,
  << "*", "cxx_mul_to_div" >>, << "/", "cxx_div_to_mul" >>,
  << "%", "cxx_rem_to_div" >>, << "+=", "cxx_add_assign_to_sub_assign" >>,
  << "-=", "cxx_sub_assign_to_add_assign" >>,
  << "*=", "cxx_mul_assign_to_div_assign" >>,
  << "/=", "cxx_div_assign_to_mul_assign" >>,
  << "%=", "cxx_rem_assign_to_div_assign" >>, << "==", "cxx_eq_to_ne" >>,
  << "!=", "cxx_ne_to_eq" >>, << ">", "cxx_gt_to_le" >>,
  << "<", "cxx_lt_to_ge" >>, << ">=", "cxx_ge_to_lt" >>,
  << "<=", "cxx_le_to_gt" >>, << ">", "cxx_gt_to_ge" >>,
  << "<", "cxx_lt_to_le" >>, << ">=", "cxx_ge_to_gt" >>,
  << "<=", "cxx_le_to_lt" >>, << "&", "cxx_and_to_or" >>,
  << "|", "cxx_or_to_and" >>, << "^", "cxx_xor_to_or" >>,
  << "<<", "cxx_lshift_to_rshift" >>, << ">>", "cxx_rshift_to_lshift" >>,
  << "&=", "cxx_and_assign_to_or_assign" >>,
  << "|=", "cxx_or_assign_to_and_assign" >>,
  << "^=", "cxx_xor_assign_to_or_assign" >>,
  << "<<=", "cxx_lshift_assign_to_rshift_assign" >>,
  << ">>=", "cxx_rshift_assign_to_lshift_assign" >>,
  << "&&", "cxx_logical_and_to_or" >>, << "||", "cxx_logical_or_to_and" >>
>>

\* The visitors of the junk detector that look for the mutant at the exact location
\* of the point, with the operator each accepts.
BinaryVisitors == {
  << "<", "cxx_lt_to_le" >>, << "<", "cxx_lt_to_ge" >>,
  << "<=", "cxx_le_to_lt" >>, << "<=", "cxx_le_to_gt" >>,
  << ">", "cxx_gt_to_ge" >>, << ">", "cxx_gt_to_le" >>,
  << ">=", "cxx_ge_to_gt" >>, << ">=", "cxx_ge_to_lt" >>,
  << "==", "cxx_eq_to_ne" >>, << "!=", "cxx_ne_to_eq" >>,
  << "+", "cxx_add_to_sub" >>, << "+=", "cxx_add_assign_to_sub_assign" >>,
  << "-", "cxx_sub_to_add" >>, << "-=", "cxx_sub_assign_to_add_assign" >>,
  << "*", "cxx_mul_to_div" >>, << "*=", "cxx_mul_assign_to_div_assign" >>,
  << "/", "cxx_div_to_mul" >>, << "/=", "cxx_div_assign_to_mul_assign" >>,
  << "%", "cxx_rem_to_div" >>, << "%=", "cxx_rem_assign_to_div_assign" >>,
  << "<<", "cxx_lshift_to_rshift" >>,
  << "<<=", "cxx_lshift_assign_to_rshift_assign" >>,
  << ">>", "cxx_rshift_to_lshift" >>,
  << ">>=", "cxx_rshift_assign_to_lshift_assign" >>,
  << "&", "cxx_and_to_or" >>, << "&=", "cxx_and_assign_to_or_assign" >>,
  << "|", "cxx_or_to_and" >>, << "|=", "cxx_or_assign_to_and_assign" >>,
  << "^", "cxx_xor_to_or" >>, << "^=", "cxx_xor_assign_to_or_assign" >>,
  << "a=b", "cxx_assign_const" >>,
  << "&&", "cxx_logical_and_to_or" >>, << "||", "cxx_logical_or_to_and" >>
}
UnaryVisitors == {
  << "++x", "cxx_pre_inc_to_pre_dec" >>, << "x++", "cxx_post_inc_to_post_dec" >>,
  << "--x", "cxx_pre_dec_to_pre_inc" >>, << "x--", "cxx_post_dec_to_post_inc" >>,
  << "~x", "cxx_bitwise_not_to_noop" >>, << "-x", "cxx_minus_to_noop" >>
}
VarDeclVisitor == << "T=b", "cxx_init_const" >>
RemoveVoidFunctionVisitor == << "v()", "remove_void_function_mutator" >>

\* isJunk: the visitor of each mutator.  The three that are not here have a visitor
\* that looks for the smallest expression around the location.
ExactVisitors ==
  BinaryVisitors \union UnaryVisitors \union {VarDeclVisitor, RemoveVoidFunctionVisitor}
RangeVisitors == {"negate_mutator", "replace_call_mutator", "scalar_value_mutator"}
=============================================================================

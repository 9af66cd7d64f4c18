--------------------------- MODULE LogicalMutators ---------------------------
(***************************************************************************)
(* LogicalAndToOr and LogicalOrToAnd: the mutators that rewrite branches.  *)
(* C++ compiles "a && b" to branches, so there is no instruction to        *)
(* replace: the mutator looks for a second branch that shares a target     *)
(* with the first (patterns 1 and 2), or that tests the PHI node the two   *)
(* operands meet in (pattern 3), and redirects the first one.              *)
(*                                                                         *)
(* A function is a sequence of block names, and for every block its PHI    *)
(* node (the incoming values in order, empty if it has none) and its       *)
(* terminator.  A value is an atom or its negation; "true" is an atom too, *)
(* and a PHI node is the atom named after its block.  The operands of a    *)
(* branch are left, where a true condition goes (operand 2 in LLVM), and   *)
(* right, where a false one goes (operand 1).                              *)
(***************************************************************************)
EXTENDS Integers, Sequences, FiniteSets, FiniteSetsExt, Functions

CONSTANTS
  Program,  \* the functions to mutate, with the condition they were written as
  Atom      \* the operands of the conditions

Nowhere == "nowhere"

Successors(f, b) ==
  LET t == f.block[b].term IN
  CASE t.kind = "branch" -> {t.left, t.right}
    [] t.kind = "jump" -> {t.left}
    [] t.kind = "return" -> {}

Blocks(f) == DOMAIN f.block
Values(f) == [atom : Atom \union Blocks(f) \union {"true"}, neg : BOOLEAN]
FunctionType(f) ==
  [order : Seq(Blocks(f)),
   block : [Blocks(f) -> [phi : Seq([value : Values(f), block : Blocks(f)]),
                          term : [kind : {"branch", "jump", "return"}, value : Values(f),
                                  left : Blocks(f) \union {Nowhere},
                                  right : Blocks(f) \union {Nowhere}]]]]

\* The entries that the PHI node of block c has for block b.
EntriesFor(f, c, b) == {i \in DOMAIN f.block[c].phi : f.block[c].phi[i].block = b}

\* What LLVM's verifier accepts: blocks come once, terminators lead to blocks, and a
\* PHI node has one value for every predecessor and none for other blocks.  (A branch
\* with two equal targets, which needs two values, is not made from a condition.)
Verified(f) ==
  /\ f \in FunctionType(f)
  /\ \A i, j \in DOMAIN f.order : f.order[i] = f.order[j] => i = j
  /\ \A b \in Blocks(f) :
       /\ \E i \in DOMAIN f.order : f.order[i] = b
       /\ Successors(f, b) \subseteq Blocks(f)
       /\ f.block[b].term.kind = "branch" => f.block[b].term.left # f.block[b].term.right
  /\ \A b, c \in Blocks(f) :
       f.block[c].phi # << >> =>
         Cardinality(EntriesFor(f, c, b)) = IF c \in Successors(f, b) THEN 1 ELSE 0

\* clang merges the values of one && or || in a block of its own; each branch to it
\* has the next operand as its other target, so no two have both targets in common.
MergesOneCondition(f) ==
  \A b, c \in Blocks(f) :
    /\ b # c /\ f.block[b].term.kind = "branch" /\ f.block[c].term.kind = "branch"
    /\ Successors(f, b) = Successors(f, c)
    => \A d \in Successors(f, b) : f.block[d].phi = << >>

-----------------------------------------------------------------------------
(***************************************************************************)
(* What clang makes of a condition at -O0.  The condition of a program is  *)
(* its operands in order, each an atom or its negation, the operators      *)
(* between them, whether the whole is negated, and how it is parenthesised.*)
(***************************************************************************)

Condition(p) ==
  /\ p.operand \in Seq([atom : Atom, neg : BOOLEAN]) /\ Len(p.operand) >= 2
  /\ \A i, j \in DOMAIN p.operand : p.operand[i].atom = p.operand[j].atom => i = j
  /\ p.ops \in Seq({"and", "or"}) /\ Len(p.ops) = Len(p.operand) - 1
  /\ p.neg \in BOOLEAN /\ p.context \in {"if", "value", "while"}

\* Operands of one operator, all "and" or all "or".
IsChain(p) == Cardinality(Range(p.ops)) = 1

Literal(atom, neg) == [atom |-> atom, neg |-> neg]
Bool(t) == Literal("true", ~t)
Terminator(kind, v, left, right) == [kind |-> kind, value |-> v, left |-> left, right |-> right]
BlockOf(phi, term) == [phi |-> phi, term |-> term]
ReturnOf(t) == BlockOf(<< >>, Terminator("return", Bool(t), Nowhere, Nowhere))
Ends(f) == f.block["yes"] = ReturnOf(TRUE) /\ f.block["no"] = ReturnOf(FALSE)

\* The block of operand i branches on its atom, to where the operand leads when it is
\* true and when it is false.
BranchesTo(p, i, ifTrue, ifFalse) ==
  LET o == p.operand[i] IN
  p.function.block[o.atom] =
    BlockOf(<< >>, Terminator("branch", Literal(o.atom, FALSE),
                              IF o.neg THEN ifFalse ELSE ifTrue,
                              IF o.neg THEN ifTrue ELSE ifFalse))

\* A chain that is branched on: every operand decides it or leads to the next one.
BranchesOnOperands(p) ==
  LET n == Len(p.operand)
      f == p.function
      yes == IF p.neg THEN "no" ELSE "yes"
      no == IF p.neg THEN "yes" ELSE "no"
      next(i, last) == IF i = n THEN last ELSE p.operand[i + 1].atom
  IN  /\ Len(f.order) = n + 2 /\ f.order[n + 1] = "yes" /\ f.order[n + 2] = "no"
      /\ \A i \in 1 .. n :
           /\ f.order[i] = p.operand[i].atom
           /\ IF p.ops[1] = "and" THEN BranchesTo(p, i, next(i, yes), no)
              ELSE BranchesTo(p, i, yes, next(i, no))
      /\ Ends(f)

\* The block in which operand i and what is on its right are merged.
MergeOf(p, i) == p.function.order[2 * Len(p.operand) - i]

\* A condition grouped to the right whose value is needed: operand i decides what is
\* merged or leads to the next operand, and the value of what is on its right, merged
\* or the last operand, is merged with it.
MergesOperands(p) ==
  LET n == Len(p.operand)
      f == p.function
      atom(i) == p.operand[i].atom
      entry(v, from) == [value |-> v, block |-> from]
      whole == Literal(MergeOf(p, 1), p.neg)
  IN  /\ \A i \in 1 .. n : f.order[i] = atom(i)
      /\ \A i \in 1 .. n - 1 :
           /\ IF p.ops[i] = "and" THEN BranchesTo(p, i, atom(i + 1), MergeOf(p, i))
              ELSE BranchesTo(p, i, MergeOf(p, i), atom(i + 1))
           /\ f.block[MergeOf(p, i)] =
                BlockOf(<< entry(Bool(p.ops[i] = "or"), atom(i)),
                           IF i = n - 1 THEN entry(p.operand[n], atom(n))
                           ELSE entry(Literal(MergeOf(p, i + 1), FALSE), MergeOf(p, i + 1)) >>,
                        CASE i > 1 -> Terminator("jump", Bool(TRUE), MergeOf(p, i - 1), Nowhere)
                          [] i = 1 /\ p.context = "value" ->
                               Terminator("return", whole, Nowhere, Nowhere)
                          [] i = 1 /\ p.context = "while" ->
                               Terminator("branch", whole, "yes", "no"))
      /\ f.block[atom(n)] =
           BlockOf(<< >>, Terminator("jump", Bool(TRUE), MergeOf(p, n - 1), Nowhere))
      /\ IF p.context = "value" THEN Len(f.order) = 2 * n - 1
         ELSE Len(f.order) = 2 * n + 1 /\ f.order[2 * n] = "yes" /\ f.order[2 * n + 1] = "no"
              /\ Ends(f)

Lowered(p) ==
  /\ p.context = "if" /\ IsChain(p) => BranchesOnOperands(p)
  /\ p.context # "if" /\ (Len(p.ops) = 1 \/ p.shape = "right") => MergesOperands(p)

ASSUME LogicalMutatorsAssumption ==
  /\ Atom \intersect {"true", "yes", "no", Nowhere} = {}
  /\ \A p \in Program :
       /\ Verified(p.function) /\ MergesOneCondition(p.function)
       /\ Condition(p) /\ Lowered(p) /\ "true" \notin Blocks(p.function)

VARIABLES
  program,   \* the program under mutation
  mutator,   \* "AndToOr" or "OrToAnd"
  function,  \* its function, the clone that is mutated
  point,     \* the block whose branch is the mutation point
  env,       \* the truth of the atoms in this execution
  phase,     \* "search", "apply", "run" or "done"
  at,        \* the block being executed
  value,     \* what the atoms and the PHI nodes computed so far are
  result     \* what the function returned

vars == << program, mutator, function, point, env, phase, at, value, result >>

Constant(v) == v.atom = "true"
Not(v) == Literal(v.atom, ~v.neg)

IsBranch(f, b) == f.block[b].term.kind = "branch"
Position(f, b) == CHOOSE i \in DOMAIN f.order : f.order[i] = b

-----------------------------------------------------------------------------
(***************************************************************************)
(* findPossibleMutationInBranch of the two mutators.                       *)
(***************************************************************************)

\* The candidate's block merges a value of some block other than b's.
MergesOther(f, b, c) == \E e \in Range(f.block[c].phi) : e.block # b

\* Mutant: any PHI node that merges another block's value will do.
AND_OR_PatternAnyMerge(f, b, c) ==
  LET first == f.block[b].term
      second == f.block[c].term
  IN  CASE second.right = first.right -> 1
        [] second.right # first.right /\ second.right = first.left -> 2
        [] OTHER -> IF MergesOther(f, b, c) THEN 3 ELSE 0

AND_OR_Pattern(f, b, c) ==
  LET first == f.block[b].term
      second == f.block[c].term
  IN  CASE second.right = first.right -> 1
        [] second.right # first.right /\ second.right = first.left -> 2
        [] OTHER -> IF MergesOther(f, b, c) /\ c = first.right THEN 3 ELSE 0

OR_AND_Pattern(f, b, c) ==
  LET first == f.block[b].term
      second == f.block[c].term
  IN  CASE second.left = first.left -> 1
        [] second.left # first.left /\ second.left = first.right -> 2
        [] OTHER -> IF MergesOther(f, b, c) /\ c = first.left THEN 3 ELSE 0

Pattern(f, b, c) ==
  IF mutator = "AndToOr" THEN AND_OR_Pattern(f, b, c) ELSE OR_AND_Pattern(f, b, c)

\* The conditional branches after b's, in the order of the blocks, that match.
Candidates(f, b) ==
  {i \in Position(f, b) + 1 .. Len(f.order) :
     IsBranch(f, f.order[i]) /\ Pattern(f, b, f.order[i]) # 0}

\* Mutant: the candidate found last is taken.
SecondBranchLast(f, b) == f.order[Max(Candidates(f, b))]

SecondBranch(f, b) == f.order[Min(Candidates(f, b))]

-----------------------------------------------------------------------------
(***************************************************************************)
(* applyMutation of the two mutators.                                      *)
(***************************************************************************)

\* BranchInst::Create(left, right, condition) in place of b's branch.
Replace(f, b, left, right) ==
  [f EXCEPT !.block[b].term.left = left, !.block[b].term.right = right]

\* Mutant: the PHI node of the new target is left as it is.
AcceptJumpNot(f, second, target, b) == f

\* The PHI node of target, which the second branch jumps to, also accepts a
\* jump from b, with the value it has for the second branch.
AcceptJump(f, second, target, b) ==
  LET phi == f.block[target].phi
      known == EntriesFor(f, target, second)
  IN  IF known = {} THEN f
      ELSE [f EXCEPT !.block[target].phi =
              Append(@, [value |-> phi[Min(known)].value, block |-> b])]

ANDToOR_Pattern1(f, b, c) ==
  LET left == f.block[c].term.left IN
  AcceptJump(Replace(f, b, left, f.block[b].term.left), c, left, b)

ANDToOR_Pattern2(f, b, c) ==
  LET left == f.block[c].term.left IN
  AcceptJump(Replace(f, b, f.block[b].term.right, left), c, left, b)

\* Mutant: pattern 3 swaps the targets and leaves the PHI node.
SwapOnly(f, b, c) == Replace(f, b, f.block[b].term.right, f.block[b].term.left)

\* The first incoming value of the second branch's PHI node, which must be a
\* constant, is negated and the targets of the first branch are swapped.
ANDToOR_Pattern3(f, b, c) ==
  Replace([f EXCEPT !.block[c].phi[1].value = Not(@)],
          b, f.block[b].term.right, f.block[b].term.left)

ORToAND_Pattern1(f, b, c) ==
  LET right == f.block[c].term.right IN
  AcceptJump(Replace(f, b, f.block[b].term.right, right), c, right, b)

ORToAND_Pattern2(f, b, c) ==
  LET right == f.block[c].term.right IN
  AcceptJump(Replace(f, b, right, f.block[b].term.left), c, right, b)

ORToAND_Pattern3(f, b, c) ==
  Replace([f EXCEPT !.block[c].phi[1].value = Not(@)],
          b, f.block[b].term.right, f.block[b].term.left)

ApplyLogicalAndToOr(f, b) ==
  LET c == SecondBranch(f, b) IN
  CASE Pattern(f, b, c) = 1 -> ANDToOR_Pattern1(f, b, c)
    [] Pattern(f, b, c) = 2 -> ANDToOR_Pattern2(f, b, c)
    [] Pattern(f, b, c) = 3 -> ANDToOR_Pattern3(f, b, c)

ApplyLogicalOrToAnd(f, b) ==
  LET c == SecondBranch(f, b) IN
  CASE Pattern(f, b, c) = 1 -> ORToAND_Pattern1(f, b, c)
    [] Pattern(f, b, c) = 2 -> ORToAND_Pattern2(f, b, c)
    [] Pattern(f, b, c) = 3 -> ORToAND_Pattern3(f, b, c)

-----------------------------------------------------------------------------
(***************************************************************************)
(* A behaviour: one mutation point of one function is found, applied to    *)
(* the clone, and the clone is executed with one assignment to the atoms.  *)
(***************************************************************************)

Init ==
  /\ program \in Program
  /\ mutator \in {"AndToOr", "OrToAnd"}
  /\ function = program.function
  /\ point = Nowhere
  /\ env \in [Atom -> BOOLEAN]
  /\ phase = "search"
  /\ at = Nowhere
  /\ value = env
  /\ result = Nowhere

\* getMutations: every instruction of the function, selected or not, is tried.
\* findPossibleMutation takes conditional branches only.
Points(f) ==
  {b \in DOMAIN f.block : IsBranch(f, b) /\ Candidates(f, b) # {}}

GetMutations ==
  /\ phase = "search"
  /\ IF Points(function) = {}
     THEN phase' = "done" /\ UNCHANGED point
     ELSE point' \in Points(function) /\ phase' = "apply"
  /\ UNCHANGED << program, mutator, function, env, at, value, result >>

\* applyMutation looks for the second branch again, in the clone.
ApplyMutation ==
  /\ phase = "apply"
  /\ function' = IF mutator = "AndToOr" THEN ApplyLogicalAndToOr(function, point)
                 ELSE ApplyLogicalOrToAnd(function, point)
  /\ phase' = "run"
  /\ at' = Head(function.order)
  /\ UNCHANGED << program, mutator, point, env, value, result >>

IsTrue(v, values) ==
  IF Constant(v) THEN ~v.neg ELSE (values[v.atom] # v.neg)

\* The PHI node of block b when it is entered from block "from".
Incoming(b, from) ==
  LET phi == function.block[b].phi
      known == EntriesFor(function, b, from)
  IN  IF phi = << >> \/ known = {} THEN value
      ELSE [a \in DOMAIN value \union {b} |->
              IF a = b THEN IsTrue(phi[Min(known)].value, value) ELSE value[a]]

\* The terminator of the block is executed.
Execute ==
  /\ phase = "run"
  /\ LET t == function.block[at].term
         next == IF t.kind = "branch" /\ ~IsTrue(t.value, value) THEN t.right ELSE t.left
     IN  IF t.kind = "return"
         THEN /\ result' = IsTrue(t.value, value)
              /\ phase' = "done"
              /\ UNCHANGED << at, value >>
         ELSE /\ at' = next
              /\ value' = Incoming(next, at)
              /\ UNCHANGED << phase, result >>
  /\ UNCHANGED << program, mutator, function, point, env >>

Done ==
  /\ phase = "done"
  /\ UNCHANGED vars

Next == GetMutations \/ ApplyMutation \/ Execute \/ Done

Spec == Init /\ [][Next]_vars

-----------------------------------------------------------------------------
(***************************************************************************)
(* Properties: what a mutant computes, as a condition of its operands.     *)
(***************************************************************************)

Operand(i) == env[program.operand[i].atom] # program.operand[i].neg
Combine(op, x, y) == IF op = "and" THEN x /\ y ELSE x \/ y
Dual(op) == IF op = "and" THEN "or" ELSE "and"

\* What the condition is when it is grouped to the right and its operators are ops.
Meaning(ops) ==
  LET from[i \in 1 .. Len(ops) + 1] ==
        IF i = Len(ops) + 1 THEN Operand(i) ELSE Combine(ops[i], Operand(i), from[i + 1])
  IN  from[1] # program.neg

\* The number of the operator the mutation point stands for: the one after the
\* operand its block evaluates.
Mutated == CHOOSE i \in DOMAIN program.operand : program.operand[i].atom = point
Swapped == [program.ops EXCEPT ![Mutated] = Dual(@)]

\* A block that merges values has exactly one for every jump that can reach it,
\* however the branches were redirected: otherwise the code is not valid LLVM
\* and what it computes is undefined.
EveryJumpHasOneValue ==
  \A b, c \in Blocks(function) :
    c \in Successors(function, b) /\ function.block[c].phi # << >> =>
      Cardinality(EntriesFor(function, c, b)) = 1

\* In a chain a && b && ... (or a || b || ...) that is branched on, the mutant of
\* one operator combines its two neighbouring operands with the other operator and
\* leaves the rest of the chain: a && b && c becomes (a || b) && c or a && (b || c),
\* whatever the parentheses and the negations of a, of the whole and, if there are
\* only two operands, of b.  (A negated operand further on swaps the targets the
\* patterns compare, and other operands are combined.)
ChainMutantIsLocal ==
  /\ phase = "done" /\ point # Nowhere /\ IsChain(program)
  /\ Len(program.ops) = 1 \/ program.context = "if"
  /\ \A i \in DOMAIN program.operand : program.operand[i].neg =>
       i = 1 \/ Len(program.operand) = 2
  => LET op == program.ops[1]
         pair == Combine(Dual(op), Operand(Mutated), Operand(Mutated + 1))
         rest == DOMAIN program.operand \ {Mutated, Mutated + 1}
     IN  result = ((IF op = "and" THEN pair /\ \A i \in rest : Operand(i)
                    ELSE pair \/ \E i \in rest : Operand(i)) # program.neg)

\* Where the operands meet in a PHI node, the mutant of a condition that is
\* grouped to the right is the condition with that operator replaced.
MergedMutantIsExact ==
  /\ phase = "done" /\ point # Nowhere
  /\ program.context # "if"
  /\ Len(program.ops) = 1 \/ program.shape = "right"
  => result = Meaning(Swapped)

\* A condition with two operands that is branched on is a mutation point of the
\* mutator whose description names its operator ("Replaces && with ||", "Replaces ||
\* with &&"), and of that one only; one that is only computed as a value is a point of
\* neither.  The patterns tell && from || by the targets of one branch: the right
\* operand's where both operands are branched on, the left one's where they meet in a
\* PHI node.  A negation of that operand swaps its targets, and a && !b is then a
\* point of LogicalOrToAnd, against its description; the property is about conditions
\* without that negation.
PointIsOfItsOperator ==
  phase = "done" /\ Len(program.ops) = 1 =>
    LET compared == program.operand[IF program.context = "if" THEN 2 ELSE 1] IN
    ~compared.neg =>
      (point # Nowhere <=>
         /\ program.context # "value"
         /\ program.ops[1] = IF mutator = "AndToOr" THEN "and" ELSE "or")

=============================================================================

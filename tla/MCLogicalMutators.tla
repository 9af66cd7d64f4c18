-------------------------- MODULE MCLogicalMutators --------------------------
(***************************************************************************)
(* All conditions of two and three operands, with any operand or the whole *)
(* negated, in the three contexts in which clang compiles a condition:     *)
(* "if" branches on every operand, "value" merges the operands in a PHI    *)
(* node and returns it, "while" merges them and branches on the PHI node.  *)
(* The lowering is clang's at -O0.                                         *)
(***************************************************************************)
EXTENDS LogicalMutators, SequencesExt

CONSTANT MaxOperands

MCAtom == {"a", "b", "c"}
Names == << "a", "b", "c" >>

Leaf(v) == [kind |-> "leaf", value |-> v]
Node(op, l, r, end) == [kind |-> "node", op |-> op, l |-> l, r |-> r, end |-> end]

RECURSIVE Entry(_)
Entry(e) == IF e.kind = "leaf" THEN e.value.atom ELSE Entry(e.l)

Block(name, phi, term) == << name, BlockOf(phi, term) >>
Jump(to) == Terminator("jump", Bool(TRUE), to, Nowhere)

\* EmitBranchOnBoolExpr.
RECURSIVE BranchOn(_, _, _)
BranchOn(e, t, f) ==
  IF e.kind = "leaf"
  THEN << Block(e.value.atom, << >>,
                IF e.value.neg THEN Terminator("branch", Literal(e.value.atom, FALSE), f, t)
                ELSE Terminator("branch", e.value, t, f)) >>
  ELSE IF e.op = "and" THEN BranchOn(e.l, Entry(e.r), f) \o BranchOn(e.r, t, f)
       ELSE BranchOn(e.l, t, Entry(e.r)) \o BranchOn(e.r, t, f)

ValueOf(e) == IF e.kind = "leaf" THEN e.value ELSE Literal(e.end, FALSE)
ExitOf(e) == IF e.kind = "leaf" THEN e.value.atom ELSE e.end

\* VisitBinLAnd and VisitBinLOr: the predecessors of the merging block are
\* listed most recent first, and the right operand last.
RECURSIVE Merge(_, _)
Merge(e, term) ==
  IF e.kind = "leaf" THEN << Block(e.value.atom, << >>, term) >>
  ELSE LET left == IF e.op = "and" THEN BranchOn(e.l, Entry(e.r), e.end)
                   ELSE BranchOn(e.l, e.end, Entry(e.r))
           short == SelectSeq(left, LAMBDA x :
                      x[2].term.left = e.end \/ x[2].term.right = e.end)
           phi == [i \in DOMAIN short |->
                     [value |-> Bool(e.op = "or"), block |-> Reverse(short)[i][1]]]
       IN  left \o Merge(e.r, Jump(e.end))
           \o << Block(e.end, Append(phi, [value |-> ValueOf(e.r), block |-> ExitOf(e.r)]),
                       term) >>

Returns == << Block("yes", << >>, Terminator("return", Bool(TRUE), Nowhere, Nowhere)),
              Block("no", << >>, Terminator("return", Bool(FALSE), Nowhere, Nowhere)) >>

Lower(e, neg, context) ==
  LET cond == Literal(e.end, neg)
      blocks ==
        CASE context = "if" -> (IF neg THEN BranchOn(e, "no", "yes")
                                ELSE BranchOn(e, "yes", "no")) \o Returns
          [] context = "value" -> Merge(e, Terminator("return", cond, Nowhere, Nowhere))
          [] context = "while" -> Merge(e, Terminator("branch", cond, "yes", "no")) \o Returns
      names == [i \in DOMAIN blocks |-> blocks[i][1]]
  IN  [order |-> names,
       block |-> [b \in Range(names) |->
                    blocks[CHOOSE i \in DOMAIN names : names[i] = b][2]]]

\* The condition itself, parenthesised to the left or to the right.
Tree(operand, ops, shape) ==
  LET L(i) == Leaf(operand[i]) IN
  CASE Len(ops) = 1 -> Node(ops[1], L(1), L(2), "end1")
    [] shape = "left" -> Node(ops[2], Node(ops[1], L(1), L(2), "end2"), L(3), "end1")
    [] shape = "right" -> Node(ops[1], L(1), Node(ops[2], L(2), L(3), "end2"), "end1")

ProgramsOf(n) ==
  {[operand |-> [i \in 1 .. n |-> Literal(Names[i], negs[i])], ops |-> ops,
    shape |-> shape, neg |-> neg, context |-> context,
    function |-> Lower(Tree([i \in 1 .. n |-> Literal(Names[i], negs[i])], ops, shape),
                       neg, context)] :
     negs \in [1 .. n -> BOOLEAN], ops \in [1 .. n - 1 -> {"and", "or"}],
     shape \in IF n = 2 THEN {"left"} ELSE {"left", "right"},
     neg \in BOOLEAN, context \in {"if", "value", "while"}}

MCProgram == UNION {ProgramsOf(n) : n \in 2 .. MaxOperands}
=============================================================================

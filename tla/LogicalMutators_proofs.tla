----------------------- MODULE LogicalMutators_proofs -----------------------
(***************************************************************************)
(* Proofs about LogicalMutators, for every program that meets              *)
(* LogicalMutatorsAssumption: conditions of any number of operands, both   *)
(* mutators and every truth of the atoms.                                  *)
(*                                                                         *)
(* A mutation of patterns 1 and 2 sends the side of the point's branch     *)
(* that did not decide the condition past the operand it is paired with,   *)
(* and the side that did decide it to the next operand; pattern 3 makes    *)
(* the clone the lowering of the condition with its first operator         *)
(* replaced.  What the clone returns is then an invariant of its run.      *)
(***************************************************************************)
EXTENDS LogicalMutators, FiniteSetTheorems, SequenceTheorems, WellFoundedInduction, TLAPS

-----------------------------------------------------------------------------
(* The second branch.                                                      *)

\* A set of natural numbers has a least one.
LEMMA LeastNatural ==
  ASSUME NEW T \in SUBSET Nat, T # {}
  PROVE  \E x \in T : \A y \in T : x <= y
<1>1. \E x \in T : \A y \in T : ~(<< y, x >> \in OpToRel(<, Nat))
  BY WFMin, NatLessThanWellFounded, Zenon
<1>2. \A x, y \in Nat : y < x => << y, x >> \in OpToRel(<, Nat)
  BY Zenon DEF OpToRel
<1>3. \E x \in T : \A y \in T : ~(y < x)
  BY <1>1, <1>2, Zenon
<1> QED BY <1>3

\* The minimum of a set of natural numbers.
LEMMA MinIs ==
  ASSUME NEW T \in SUBSET Nat, T # {}
  PROVE  Min(T) \in T /\ \A y \in T : Min(T) <= y
<1>1. \E x \in T : \A y \in T : x <= y
  BY LeastNatural
<1> QED BY <1>1, Zenon DEF Min

\* The terminator of a block of a function.
LEMMA TermFacts ==
  ASSUME NEW f, Verified(f), NEW b \in Blocks(f)
  PROVE  /\ f.block[b].term.kind \in {"branch", "jump", "return"}
         /\ f.block[b].phi \in Seq([value : Values(f), block : Blocks(f)])
         /\ IsBranch(f, b) => /\ f.block[b].term.left \in Blocks(f)
                              /\ f.block[b].term.right \in Blocks(f)
                              /\ f.block[b].term.left # f.block[b].term.right
                              /\ Successors(f, b) = {f.block[b].term.left, f.block[b].term.right}
         /\ f.block[b].term = [kind |-> f.block[b].term.kind, value |-> f.block[b].term.value,
                               left |-> f.block[b].term.left, right |-> f.block[b].term.right]
<1>1. f.block[b] \in [phi : Seq([value : Values(f), block : Blocks(f)]),
                          term : [kind : {"branch", "jump", "return"}, value : Values(f),
                                  left : Blocks(f) \union {Nowhere},
                                  right : Blocks(f) \union {Nowhere}]]
  BY DEF Verified, FunctionType
<1>2. Successors(f, b) \subseteq Blocks(f) /\ (IsBranch(f, b) => f.block[b].term.left # f.block[b].term.right)
  BY DEF Verified, IsBranch
<1>3. IsBranch(f, b) => Successors(f, b) = {f.block[b].term.left, f.block[b].term.right}
  BY DEF IsBranch, Successors
<1> QED BY <1>1, <1>2, <1>3

\* The targets of a branch.
LEMMA SuccessorsOfBranch ==
  ASSUME NEW f, NEW b, NEW v, NEW left, NEW right,
         f.block[b].term = [kind |-> "branch", value |-> v, left |-> left, right |-> right]
  PROVE  Successors(f, b) = {left, right}
BY DEF Successors

\* The second branch is another branch, after b's, and matches.
LEMMA SecondIs ==
  ASSUME NEW f, Verified(f), NEW b \in Points(f)
  PROVE  /\ b \in Blocks(f) /\ IsBranch(f, b)
         /\ SecondBranch(f, b) \in Blocks(f) /\ SecondBranch(f, b) # b
         /\ IsBranch(f, SecondBranch(f, b))
         /\ Pattern(f, b, SecondBranch(f, b)) # 0
<1>1. b \in Blocks(f) /\ IsBranch(f, b) /\ Candidates(f, b) # {}
  BY DEF Points, Blocks
<1>2. f.order \in Seq(Blocks(f))
  BY DEF Verified, FunctionType
<1>3. Position(f, b) \in DOMAIN f.order /\ f.order[Position(f, b)] = b
  <2>1. \E i \in DOMAIN f.order : f.order[i] = b
    BY <1>1 DEF Verified
  <2> QED BY <2>1, Zenon DEF Position
<1>4. Position(f, b) \in Nat
  BY <1>2, <1>3
<1>5. Candidates(f, b) \in SUBSET Nat
  BY <1>2, <1>4 DEF Candidates
<1>6. PICK i \in Candidates(f, b) : i = Min(Candidates(f, b))
  BY <1>1, <1>5, MinIs
<1>7. i \in DOMAIN f.order /\ i # Position(f, b)
  BY <1>2, <1>4, <1>6 DEF Candidates
<1>8. SecondBranch(f, b) = f.order[i]
  BY <1>6 DEF SecondBranch
<1>9. f.order[i] # b
  BY <1>3, <1>7 DEF Verified
<1>10. IsBranch(f, f.order[i]) /\ Pattern(f, b, f.order[i]) # 0
  BY <1>6, Zenon DEF Candidates
<1>11. f.order[i] \in Blocks(f)
  BY <1>2, <1>7
<1> QED BY <1>1, <1>8, <1>9, <1>10, <1>11, Zenon

-----------------------------------------------------------------------------
(* What the rewriting changes.                                             *)

\* f is made of the records of a function with the blocks B.
Shaped(f, B) ==
  /\ f = [order |-> f.order, block |-> f.block]
  /\ f.block = [c \in B |-> f.block[c]]
  /\ \A c \in B : f.block[c] = [phi |-> f.block[c].phi, term |-> f.block[c].term]

\* g is f with the branch of b replaced.
Replaced(f, b, left, right, g) ==
  /\ Blocks(g) = Blocks(f)
  /\ \A c \in Blocks(f) : g.block[c].phi = f.block[c].phi
  /\ \A c \in Blocks(f) : c # b => g.block[c].term = f.block[c].term
  /\ g.block[b].term = [kind |-> "branch", value |-> f.block[b].term.value,
                        left |-> left, right |-> right]
  /\ g.order = f.order /\ Shaped(g, Blocks(f))

\* A branch that is replaced.
LEMMA ReplaceIs ==
  ASSUME NEW f, Shaped(f, Blocks(f)), NEW b \in Blocks(f), IsBranch(f, b),
         f.block[b].term = [kind |-> f.block[b].term.kind, value |-> f.block[b].term.value,
                            left |-> f.block[b].term.left, right |-> f.block[b].term.right],
         NEW left, NEW right, NEW g, g = Replace(f, b, left, right)
  PROVE  Replaced(f, b, left, right, g)
<1>1. f = [order |-> f.order, block |-> f.block] /\ b \in DOMAIN f.block
  BY DEF Shaped, Blocks
<1>2. \A c \in DOMAIN f.block : f.block[c] = [phi |-> f.block[c].phi, term |-> f.block[c].term]
  BY DEF Shaped, Blocks
<1>3. f.block = [c \in DOMAIN f.block |-> f.block[c]]
  BY DEF Shaped, Blocks
<1> DEFINE t == [kind |-> f.block[b].term.kind, value |-> f.block[b].term.value,
                 left |-> left, right |-> right]
<1>4. /\ g = [order |-> f.order, block |-> g.block]
      /\ g.block = [c \in DOMAIN f.block |->
                      IF c = b THEN [phi |-> f.block[b].phi, term |-> t] ELSE f.block[c]]
  <2>1. PICK o, bl : o = f.order /\ bl = f.block
    OBVIOUS
  <2>2. PICK p, k, v, l, r : /\ p = bl[b].phi /\ k = bl[b].term.kind /\ v = bl[b].term.value
                             /\ l = bl[b].term.left /\ r = bl[b].term.right
    OBVIOUS
  <2>3. bl[b] = [phi |-> p, term |-> [kind |-> k, value |-> v, left |-> l, right |-> r]]
    BY <1>1, <1>2, <2>1, <2>2
  <2>4. f = [order |-> o, block |-> bl] /\ bl = [c \in DOMAIN bl |-> bl[c]] /\ b \in DOMAIN bl
    BY <1>1, <1>3, <2>1
  <2>5. PICK h : h = [f EXCEPT !.block[b].term.left = left]
    OBVIOUS
  <2>6. h = [order |-> o, block |-> [bl EXCEPT ![b] =
               [phi |-> p, term |-> [kind |-> k, value |-> v, left |-> left, right |-> r]]]]
    BY <2>3, <2>4, <2>5
  <2>7. g = [h EXCEPT !.block[b].term.right = right]
    BY <2>5 DEF Replace
  <2>8. g.block = [bl EXCEPT ![b] =
               [phi |-> p, term |-> [kind |-> k, value |-> v, left |-> left, right |-> right]]]
    <3>1. PICK bm : bm = [bl EXCEPT ![b] =
               [phi |-> p, term |-> [kind |-> k, value |-> v, left |-> left, right |-> r]]]
      OBVIOUS
    <3>2. h = [order |-> o, block |-> bm] /\ bm = [c \in DOMAIN bm |-> bm[c]] /\ b \in DOMAIN bm
      BY <2>4, <2>6, <3>1
    <3>3. bm[b] = [phi |-> p, term |-> [kind |-> k, value |-> v, left |-> left, right |-> r]]
      BY <2>4, <3>1
    <3>4. g = [order |-> o, block |-> [bm EXCEPT ![b] =
               [phi |-> p, term |-> [kind |-> k, value |-> v, left |-> left, right |-> right]]]]
      BY <2>7, <3>2, <3>3
    <3> DEFINE x == [phi |-> p, term |-> [kind |-> k, value |-> v, left |-> left, right |-> right]]
    <3>5. g.block = [bm EXCEPT ![b] = x]
      BY <3>4
    <3>6. [bm EXCEPT ![b] = x] = [bl EXCEPT ![b] = x]
      BY <2>4, <3>1
    <3> QED BY <3>5, <3>6
  <2>9. g = [order |-> o, block |-> g.block]
    <3>1. \A x, y : [[order |-> o, block |-> x] EXCEPT !.block = y] = [order |-> o, block |-> y]
      OBVIOUS
    <3> QED BY <2>6, <2>7, <3>1
  <2> QED BY <2>1, <2>2, <2>4, <2>8, <2>9
<1>5. Blocks(g) = Blocks(f)
  BY <1>4 DEF Blocks
<1>6. \A c \in Blocks(f) : g.block[c].phi = f.block[c].phi
  BY <1>4 DEF Blocks
<1>7. \A c \in Blocks(f) : c # b => g.block[c].term = f.block[c].term
  BY <1>4 DEF Blocks
<1>8. g.block[b].term = t
  BY <1>1, <1>4
<1>11. \A c \in Blocks(f) : g.block[c] = [phi |-> g.block[c].phi, term |-> g.block[c].term]
  BY <1>2, <1>4 DEF Blocks
<1>12. t.kind = "branch"
  BY DEF IsBranch
<1>13. g.block = [c \in Blocks(f) |-> g.block[c]]
  BY <1>4 DEF Blocks
<1>14. g.order = f.order /\ Shaped(g, Blocks(f))
  BY <1>4, <1>11, <1>13 DEF Shaped
<1> QED BY <1>5, <1>6, <1>7, <1>8, <1>12, <1>14 DEF Replaced

\* f with the PHI node p in block b.
SetPhi(f, b, p) == [f EXCEPT !.block[b].phi = p]

\* g is f, a function of the blocks B, with the PHI node p in block b.
PhiIsSet(f, B, b, p, g) ==
  /\ g.order = f.order /\ Shaped(g, B) /\ Blocks(g) = B
  /\ g.block[b].phi = p
  /\ \A c \in B : c # b => g.block[c].phi = f.block[c].phi
  /\ \A c \in B : g.block[c].term = f.block[c].term

\* A PHI node that is replaced.
LEMMA PhiReplaced ==
  ASSUME NEW f, NEW B, Shaped(f, B), NEW b \in B, NEW p
  PROVE  PhiIsSet(f, B, b, p, SetPhi(f, b, p))
<1> DEFINE g == SetPhi(f, b, p)
<1>1. PICK o, bl : o = f.order /\ bl = f.block
  OBVIOUS
<1>2. PICK q, t : q = bl[b].phi /\ t = bl[b].term
  OBVIOUS
<1>3. f = [order |-> o, block |-> bl] /\ bl = [c \in B |-> bl[c]] /\ DOMAIN bl = B
  BY <1>1 DEF Shaped
<1>4. bl[b] = [phi |-> q, term |-> t]
  BY <1>1, <1>2 DEF Shaped
<1>5. g = [order |-> o, block |-> [bl EXCEPT ![b] = [phi |-> p, term |-> t]]]
  BY <1>3, <1>4 DEF SetPhi
<1> HIDE DEF g
<1>6. g.order = f.order /\ g = [order |-> g.order, block |-> g.block]
  BY <1>1, <1>5
<1>7. g.block = [c \in B |-> IF c = b THEN [phi |-> p, term |-> t] ELSE bl[c]]
  BY <1>3, <1>5
<1>8. Blocks(g) = B /\ g.block = [c \in B |-> g.block[c]]
  BY <1>7 DEF Blocks
<1>9. \A c \in B : g.block[c] = [phi |-> g.block[c].phi, term |-> g.block[c].term]
  BY <1>1, <1>7 DEF Shaped
<1>10. g.block[b].phi = p /\ g.block[b].term = bl[b].term
  BY <1>2, <1>7
<1>11. \A c \in B : c # b => g.block[c] = bl[c]
  BY <1>7
<1>12. PhiIsSet(f, B, b, p, g)
  BY <1>1, <1>6, <1>8, <1>9, <1>10, <1>11 DEF Shaped, PhiIsSet
<1> QED BY <1>12 DEF g

\* The records a function is made of.
LEMMA FunctionIs ==
  ASSUME NEW f, Verified(f)
  PROVE  Shaped(f, Blocks(f))
BY DEF Verified, FunctionType, Shaped

\* Every jump has one value.
OneValue(f) ==
  \A b, c \in Blocks(f) :
    c \in Successors(f, b) /\ f.block[c].phi # << >> => Cardinality(EntriesFor(f, c, b)) = 1

\* The entries of a PHI node are finitely many.
LEMMA EntriesFinite ==
  ASSUME NEW f, Verified(f), NEW b, NEW c \in Blocks(f)
  PROVE  IsFiniteSet(EntriesFor(f, c, b)) /\ EntriesFor(f, c, b) \in SUBSET Nat
<1>1. f.block[c].phi \in Seq([value : Values(f), block : Blocks(f)])
  BY TermFacts
<1>2. DOMAIN f.block[c].phi = 1 .. Len(f.block[c].phi) /\ Len(f.block[c].phi) \in Nat
  BY <1>1
<1>3. IsFiniteSet(1 .. Len(f.block[c].phi))
  BY <1>2, FS_Interval
<1>4. EntriesFor(f, c, b) \subseteq 1 .. Len(f.block[c].phi)
  BY <1>2 DEF EntriesFor
<1> QED BY <1>2, <1>3, <1>4, FS_Subset

\* The branch of b is redirected to a target of c's, whose PHI node accepts the new jump.
LEMMA Redirected ==
  ASSUME NEW f, Verified(f), NEW b \in Blocks(f), NEW c \in Blocks(f), b # c,
         IsBranch(f, b), NEW target \in Successors(f, c), NEW keep \in Successors(f, b),
         target \notin Successors(f, b) \/ f.block[target].phi = << >>,
         NEW left \in Blocks(f), NEW right \in Blocks(f), {left, right} = {target, keep},
         NEW h, h = AcceptJump(Replace(f, b, left, right), c, target, b)
  PROVE  OneValue(h)
<1>1. PICK g : g = Replace(f, b, left, right)
  OBVIOUS
<1>a. Replaced(f, b, left, right, g)
  BY <1>1, ReplaceIs, TermFacts, FunctionIs
<1>2. /\ Blocks(g) = Blocks(f)
      /\ \A x \in Blocks(f) : g.block[x].phi = f.block[x].phi
      /\ \A x \in Blocks(f) : x # b => g.block[x].term = f.block[x].term
      /\ Shaped(g, Blocks(f))
  BY <1>a, Zenon DEF Replaced
<1>b. Successors(g, b) = {left, right}
  BY <1>a DEF Replaced, Successors
<1>3. \A x \in Blocks(f) : x # b => Successors(g, x) = Successors(f, x)
  BY <1>2 DEF Successors
<1>4. target \in Blocks(f) /\ keep \in Blocks(f)
  BY DEF Verified
<1>5. \A x, y \in Blocks(f) : EntriesFor(g, x, y) = EntriesFor(f, x, y)
  BY <1>2 DEF EntriesFor
<1>6. \A x, y \in Blocks(f) :
        f.block[x].phi # << >> =>
          Cardinality(EntriesFor(f, x, y)) = IF x \in Successors(f, y) THEN 1 ELSE 0
  BY DEF Verified
<1>7. CASE f.block[target].phi = << >>
  <2>1. EntriesFor(g, target, c) = {}
    BY <1>2, <1>4, <1>7 DEF EntriesFor
  <2>2. h = g
    BY <1>1, <2>1 DEF AcceptJump
  <2> SUFFICES ASSUME NEW y \in Blocks(f), NEW x \in Blocks(f), x \in Successors(g, y),
                      f.block[x].phi # << >>
               PROVE  Cardinality(EntriesFor(f, x, y)) = 1
    BY <1>2, <1>5, <2>2 DEF OneValue
  <2>3. x \in Successors(f, y)
    BY <1>3, <1>7, <1>b
  <2> QED BY <1>6, <2>3
<1>8. CASE f.block[target].phi # << >>
  <2>1. PICK phi : phi = f.block[target].phi
    OBVIOUS
  <2>2. phi \in Seq([value : Values(f), block : Blocks(f)])
    BY <1>4, <2>1, TermFacts
  <2>3. Cardinality(EntriesFor(f, target, c)) = 1 /\ Cardinality(EntriesFor(f, target, b)) = 0
    BY <1>4, <1>6, <1>8
  <2>4. EntriesFor(f, target, c) # {}
    BY <1>4, <2>3, EntriesFinite, FS_EmptySet
  <2>5. EntriesFor(f, target, b) = {}
    BY <1>4, <2>3, EntriesFinite, FS_EmptySet
  <2>6. PICK e : e = [value |-> phi[Min(EntriesFor(f, target, c))].value, block |-> b]
    OBVIOUS
  <2>7. h = SetPhi(g, target, Append(phi, e))
    BY <1>1, <1>2, <1>4, <1>5, <2>1, <2>4, <2>6 DEF AcceptJump, SetPhi
  <2>8. /\ Blocks(h) = Blocks(f)
        /\ \A x \in Blocks(f) : h.block[x].phi = IF x = target THEN Append(phi, e)
                                                ELSE f.block[x].phi
        /\ \A x \in Blocks(f) : h.block[x].term = g.block[x].term
    <3>1. PhiIsSet(g, Blocks(f), target, Append(phi, e), h)
      BY <1>2, <1>4, <2>7, PhiReplaced
    <3> QED BY <1>2, <3>1 DEF PhiIsSet
  <2>a. /\ Len(Append(phi, e)) = Len(phi) + 1 /\ Len(phi) \in Nat
        /\ DOMAIN phi = 1 .. Len(phi) /\ DOMAIN Append(phi, e) = 1 .. Len(phi) + 1
        /\ \A i \in 1 .. Len(phi) : Append(phi, e)[i] = phi[i]
        /\ Append(phi, e)[Len(phi) + 1] = e
    <3> DEFINE S == [value : Values(f), block : Blocks(f)]
    <3>1. phi \in Seq(S)
      BY <2>2
    <3>2. Min(EntriesFor(f, target, c)) \in EntriesFor(f, target, c)
      BY <1>4, <2>4, EntriesFinite, MinIs
    <3>3. Min(EntriesFor(f, target, c)) \in DOMAIN phi
      BY <2>1, <3>2 DEF EntriesFor
    <3>4. phi[Min(EntriesFor(f, target, c))] \in S
      <4> HIDE DEF S
      <4> QED BY <3>1, <3>3, ElementOfSeq
    <3>5. e \in S
      BY <2>6, <3>4
    <3> HIDE DEF S
    <3> QED BY <3>1, <3>5, AppendProperties
  <2>b. e.block = b
    BY <2>6
  <2>c. h.block[target].phi = Append(phi, e)
    BY <1>4, <2>8
  <2>9. \A y \in Blocks(f) : Successors(h, y) = Successors(g, y)
    BY <2>8 DEF Successors
  <2>10. \A x, y \in Blocks(f) : x # target => EntriesFor(h, x, y) = EntriesFor(f, x, y)
    BY <2>8 DEF EntriesFor
  <2>11. \A y \in Blocks(f) : y # b => EntriesFor(h, target, y) = EntriesFor(f, target, y)
    BY <2>1, <2>a, <2>b, <2>c DEF EntriesFor
  <2>12. EntriesFor(h, target, b) = {Len(phi) + 1}
    BY <2>1, <2>5, <2>a, <2>b, <2>c DEF EntriesFor
  <2> SUFFICES ASSUME NEW y \in Blocks(f), NEW x \in Blocks(f), x \in Successors(g, y),
                      h.block[x].phi # << >>
               PROVE  Cardinality(EntriesFor(h, x, y)) = 1
    BY <2>8, <2>9 DEF OneValue
  <2>13. CASE y = b /\ x = target
    BY <2>12, <2>13, FS_Singleton
  <2>14. CASE y # b \/ x # target
    <3>1. x \in Successors(f, y)
      BY <1>3, <1>b, <2>14
    <3>2. f.block[x].phi # << >>
      BY <1>8, <2>8
    <3>3. EntriesFor(h, x, y) = EntriesFor(f, x, y)
      BY <2>10, <2>11, <2>14
    <3> QED BY <1>6, <3>1, <3>2, <3>3
  <2> QED BY <2>13, <2>14
<1> QED BY <1>7, <1>8

\* Patterns 1 and 2: b's branch shares one target with c's and takes over the other.
LEMMA Joined ==
  ASSUME NEW f, Verified(f), MergesOneCondition(f), NEW b \in Blocks(f), NEW c \in Blocks(f),
         b # c, IsBranch(f, b), IsBranch(f, c),
         NEW shared, NEW keep, Successors(f, b) = {shared, keep},
         NEW target, target # shared, Successors(f, c) = {shared, target},
         NEW left, NEW right, {left, right} = {target, keep},
         NEW h, h = AcceptJump(Replace(f, b, left, right), c, target, b)
  PROVE  OneValue(h)
<1>1. target \notin Successors(f, b) \/ f.block[target].phi = << >>
  <2> SUFFICES ASSUME target \in Successors(f, b) PROVE f.block[target].phi = << >>
    OBVIOUS
  <2>1. Successors(f, b) = Successors(f, c)
    OBVIOUS
  <2> QED BY <2>1 DEF MergesOneCondition, IsBranch
<1>2. Successors(f, b) \subseteq Blocks(f) /\ Successors(f, c) \subseteq Blocks(f)
  BY DEF Verified
<1>3. left \in Blocks(f) /\ right \in Blocks(f)
  BY <1>2
<1> QED BY <1>1, <1>3, Redirected

\* The PHI node with its first value negated.
FirstNegated(phi) == [phi EXCEPT ![1] = [phi[1] EXCEPT !.value = Not(phi[1].value)]]

\* h is f with the PHI node q in c and the targets of b's branch exchanged.
Exchange(f, b, c, q, h) ==
  /\ Blocks(h) = Blocks(f)
  /\ \A x \in Blocks(f) : h.block[x].phi = IF x = c THEN q ELSE f.block[x].phi
  /\ \A x \in Blocks(f) : x # b => h.block[x].term = f.block[x].term
  /\ h.block[b].term = [kind |-> "branch", value |-> f.block[b].term.value,
                        left |-> f.block[b].term.right, right |-> f.block[b].term.left]

\* Pattern 3: the first value of c's PHI node is negated, b's targets are exchanged.
LEMMA ExchangeIs ==
  ASSUME NEW f, Verified(f), NEW b \in Blocks(f), NEW c \in Blocks(f), IsBranch(f, b), NEW h,
         h = Replace([f EXCEPT !.block[c].phi[1].value = Not(@)],
                     b, f.block[b].term.right, f.block[b].term.left)
  PROVE  Exchange(f, b, c, FirstNegated(f.block[c].phi), h)
<1>1. PICK phi : phi = f.block[c].phi
  OBVIOUS
<1>3. PICK q : q = FirstNegated(phi)
  OBVIOUS
<1>4. PICK g : g = SetPhi(f, c, q)
  OBVIOUS
<1>5. [f EXCEPT !.block[c].phi[1].value = Not(@)] = g
  BY <1>1, <1>3, <1>4 DEF SetPhi, FirstNegated
<1>6. PhiIsSet(f, Blocks(f), c, q, g)
  BY <1>4, FunctionIs, PhiReplaced
<1>7. h = Replace(g, b, f.block[b].term.right, f.block[b].term.left)
  BY <1>5, Zenon
<1>8. Replaced(g, b, f.block[b].term.right, f.block[b].term.left, h)
  <2>1. Shaped(g, Blocks(g)) /\ b \in Blocks(g) /\ g.block[b].term = f.block[b].term
    BY <1>6, Zenon DEF PhiIsSet
  <2>2. IsBranch(g, b)
    BY <2>1, Zenon DEF IsBranch
  <2>3. f.block[b].term = [kind |-> f.block[b].term.kind, value |-> f.block[b].term.value,
                           left |-> f.block[b].term.left, right |-> f.block[b].term.right]
    BY TermFacts
  <2>4. g.block[b].term = [kind |-> g.block[b].term.kind, value |-> g.block[b].term.value,
                           left |-> g.block[b].term.left, right |-> g.block[b].term.right]
    BY <2>1, <2>3, Zenon
  <2> QED BY <1>7, <2>1, <2>2, <2>4, ReplaceIs, Zenon
<1>9. /\ Blocks(h) = Blocks(f)
      /\ \A x \in Blocks(f) : h.block[x].phi = IF x = c THEN q ELSE f.block[x].phi
  BY <1>6, <1>8 DEF PhiIsSet, Replaced
<1>10. \A x \in Blocks(f) : x # b => h.block[x].term = f.block[x].term
  BY <1>6, <1>8 DEF PhiIsSet, Replaced
<1>11. h.block[b].term = [kind |-> "branch", value |-> g.block[b].term.value,
                          left |-> f.block[b].term.right, right |-> f.block[b].term.left]
  BY <1>8, Zenon DEF Replaced
<1>12. g.block[b].term = f.block[b].term
  BY <1>6, Zenon DEF PhiIsSet
<1> QED BY <1>1, <1>3, <1>9, <1>10, <1>11, <1>12, Zenon DEF Exchange

\* The branch goes where it went.
LEMMA ExchangeSuccessors ==
  ASSUME NEW f, NEW b, NEW c, NEW q, NEW h, Exchange(f, b, c, q, h)
  PROVE  Successors(h, b) = {f.block[b].term.right, f.block[b].term.left}
<1>1. PICK v, left, right : /\ v = f.block[b].term.value /\ left = f.block[b].term.right
                            /\ right = f.block[b].term.left
  OBVIOUS
<1>2. h.block[b].term = [kind |-> "branch", value |-> v, left |-> left, right |-> right]
  BY <1>1, Zenon DEF Exchange
<1>3. Successors(h, b) = {left, right}
  BY <1>2, SuccessorsOfBranch
<1> QED BY <1>1, <1>3, Zenon

\* Every jump still has one value.
LEMMA Exchanged ==
  ASSUME NEW f, Verified(f), NEW b \in Blocks(f), NEW c \in Blocks(f), IsBranch(f, b),
         f.block[c].phi # << >>, NEW h,
         h = Replace([f EXCEPT !.block[c].phi[1].value = Not(@)],
                     b, f.block[b].term.right, f.block[b].term.left)
  PROVE  OneValue(h)
<1>1. PICK phi : phi = f.block[c].phi
  OBVIOUS
<1>2. phi \in Seq([value : Values(f), block : Blocks(f)])
  BY <1>1, TermFacts
<1>3. PICK q : q = FirstNegated(phi)
  OBVIOUS
<1>8. Exchange(f, b, c, q, h)
  BY <1>1, <1>3, ExchangeIs
<1>9. /\ Blocks(h) = Blocks(f)
      /\ \A x \in Blocks(f) : h.block[x].phi = IF x = c THEN q ELSE f.block[x].phi
  BY <1>8 DEF Exchange
<1>10. ASSUME NEW x \in Blocks(f) PROVE Successors(h, x) = Successors(f, x)
  <2>1. \A y \in Blocks(f) : y # b => h.block[y].term = f.block[y].term
    BY <1>8, Zenon DEF Exchange
  <2>2. CASE x # b
    BY <2>1, <2>2, Zenon DEF Successors
  <2>3. CASE x = b
    <3>1. Successors(h, b) = {f.block[b].term.right, f.block[b].term.left}
      BY <1>8, ExchangeSuccessors
    <3>2. Successors(f, b) = {f.block[b].term.left, f.block[b].term.right}
      BY TermFacts
    <3> QED BY <2>3, <3>1, <3>2
  <2> QED BY <2>2, <2>3
<1>11. DOMAIN q = DOMAIN phi /\ \A i \in DOMAIN phi : q[i].block = phi[i].block
  BY <1>2, <1>3 DEF FirstNegated
<1>12. ASSUME NEW x \in Blocks(f), NEW y \in Blocks(f)
       PROVE  EntriesFor(h, x, y) = EntriesFor(f, x, y)
  <2>1. CASE x # c
    <3>1. h.block[x].phi = f.block[x].phi
      BY <1>9, <2>1
    <3> QED BY <3>1, Zenon DEF EntriesFor
  <2>2. CASE x = c
    <3>1. h.block[x].phi = q /\ f.block[x].phi = phi
      BY <1>1, <1>9, <2>2
    <3> QED BY <1>11, <3>1 DEF EntriesFor
  <2> QED BY <2>1, <2>2
<1>a. Blocks(h) = Blocks(f)
  BY <1>9
<1> SUFFICES ASSUME NEW y \in Blocks(h), NEW x \in Blocks(h), x \in Successors(h, y),
                    h.block[x].phi # << >>
             PROVE  Cardinality(EntriesFor(h, x, y)) = 1
  BY Zenon DEF OneValue
<1>b. x \in Blocks(f) /\ y \in Blocks(f) /\ x \in Successors(f, y)
  BY <1>10, <1>a, Zenon
<1>c. EntriesFor(h, x, y) = EntriesFor(f, x, y)
  BY <1>12, <1>b, Zenon
<1>13. f.block[x].phi # << >>
  <2>1. CASE x = c
    BY <2>1
  <2>2. CASE x # c
    BY <1>9, <1>b, <2>2
  <2> QED BY <2>1, <2>2
<1> QED BY <1>13, <1>b, <1>c DEF Verified

-----------------------------------------------------------------------------
(* Every jump to a block that merges values has one there.                 *)

\* The mutation of either mutator.
LEMMA MutationKeepsValues ==
  ASSUME NEW f, Verified(f), MergesOneCondition(f), NEW b \in Points(f),
         NEW h, h = IF mutator = "AndToOr" THEN ApplyLogicalAndToOr(f, b)
                    ELSE ApplyLogicalOrToAnd(f, b)
  PROVE  OneValue(h)
<1>1. PICK c : c = SecondBranch(f, b)
  OBVIOUS
<1>2. /\ b \in Blocks(f) /\ IsBranch(f, b) /\ c \in Blocks(f) /\ c # b
      /\ IsBranch(f, c) /\ Pattern(f, b, c) # 0
  BY <1>1, SecondIs
<1>3. PICK bl, br, cl, cr : /\ bl = f.block[b].term.left /\ br = f.block[b].term.right
                            /\ cl = f.block[c].term.left /\ cr = f.block[c].term.right
  OBVIOUS
<1>4. /\ Successors(f, b) = {bl, br} /\ bl # br
      /\ Successors(f, c) = {cl, cr} /\ cl # cr
  BY <1>2, <1>3, TermFacts
<1>5. CASE mutator = "AndToOr"
  <2>1. Pattern(f, b, c) = AND_OR_Pattern(f, b, c) /\ h = ApplyLogicalAndToOr(f, b)
    BY <1>5 DEF Pattern
  <2>2. CASE cr = br
    <3>1. Pattern(f, b, c) = 1
      BY <1>3, <2>1, <2>2 DEF AND_OR_Pattern
    <3>2. h = AcceptJump(Replace(f, b, cl, bl), c, cl, b)
      BY <1>1, <1>3, <2>1, <3>1 DEF ApplyLogicalAndToOr, ANDToOR_Pattern1
    <3> QED BY <1>2, <1>4, <2>2, <3>2, Joined
  <2>3. CASE cr # br /\ cr = bl
    <3>1. Pattern(f, b, c) = 2
      BY <1>3, <2>1, <2>3 DEF AND_OR_Pattern
    <3>2. h = AcceptJump(Replace(f, b, br, cl), c, cl, b)
      BY <1>1, <1>3, <2>1, <3>1 DEF ApplyLogicalAndToOr, ANDToOR_Pattern2
    <3> QED BY <1>2, <1>4, <2>3, <3>2, Joined
  <2>4. CASE cr # br /\ cr # bl
    <3>1. Pattern(f, b, c) = 3 /\ MergesOther(f, b, c)
      BY <1>2, <1>3, <2>1, <2>4 DEF AND_OR_Pattern
    <3>2. f.block[c].phi # << >>
      BY <3>1 DEF MergesOther, Range
    <3>3. h = Replace([f EXCEPT !.block[c].phi[1].value = Not(@)], b, f.block[b].term.right,
                      f.block[b].term.left)
      BY <1>1, <2>1, <3>1 DEF ApplyLogicalAndToOr, ANDToOR_Pattern3
    <3> QED BY <1>2, <3>2, <3>3, Exchanged
  <2> QED BY <2>2, <2>3, <2>4
<1>6. CASE mutator # "AndToOr"
  <2>1. Pattern(f, b, c) = OR_AND_Pattern(f, b, c) /\ h = ApplyLogicalOrToAnd(f, b)
    BY <1>6 DEF Pattern
  <2>2. CASE cl = bl
    <3>1. Pattern(f, b, c) = 1
      BY <1>3, <2>1, <2>2 DEF OR_AND_Pattern
    <3>2. h = AcceptJump(Replace(f, b, br, cr), c, cr, b)
      BY <1>1, <1>3, <2>1, <3>1 DEF ApplyLogicalOrToAnd, ORToAND_Pattern1
    <3>3. Successors(f, c) = {bl, cr} /\ cr # bl /\ {br, cr} = {cr, br}
      BY <1>4, <2>2
    <3> QED BY <1>2, <1>4, <3>2, <3>3, Joined
  <2>3. CASE cl # bl /\ cl = br
    <3>1. Pattern(f, b, c) = 2
      BY <1>3, <2>1, <2>3 DEF OR_AND_Pattern
    <3>2. h = AcceptJump(Replace(f, b, cr, bl), c, cr, b)
      BY <1>1, <1>3, <2>1, <3>1 DEF ApplyLogicalOrToAnd, ORToAND_Pattern2
    <3> QED BY <1>2, <1>4, <2>3, <3>2, Joined
  <2>4. CASE cl # bl /\ cl # br
    <3>1. Pattern(f, b, c) = 3 /\ MergesOther(f, b, c)
      BY <1>2, <1>3, <2>1, <2>4 DEF OR_AND_Pattern
    <3>2. f.block[c].phi # << >>
      BY <3>1 DEF MergesOther, Range
    <3>3. h = Replace([f EXCEPT !.block[c].phi[1].value = Not(@)], b, f.block[b].term.right,
                      f.block[b].term.left)
      BY <1>1, <2>1, <3>1 DEF ApplyLogicalOrToAnd, ORToAND_Pattern3
    <3> QED BY <1>2, <3>2, <3>3, Exchanged
  <2> QED BY <2>2, <2>3, <2>4
<1> QED BY <1>5, <1>6

\* Until the mutation is applied the function is the program's.
SearchInv ==
  /\ program \in Program
  /\ phase \in {"search", "apply"} => function = program.function
  /\ phase = "apply" => point \in Points(function)
  /\ OneValue(function)

\* What LLVM's verifier accepts has one value for every jump.
LEMMA VerifiedHasValues ==
  ASSUME NEW f, Verified(f)
  PROVE  OneValue(f)
BY DEF Verified, OneValue

\* Steps of the mutator and of the mutated function.
LEMMA SearchStep ==
  ASSUME SearchInv, [Next]_vars
  PROVE  SearchInv'
<1>1. CASE GetMutations
  <2>1. UNCHANGED << program, mutator, function >> /\ phase = "search"
    BY <1>1 DEF GetMutations
  <2>2. Points(function)' = Points(function)
    BY <2>1 DEF Points, Candidates, Pattern
  <2>3. phase' = "apply" => point' \in Points(function)
    BY <1>1 DEF GetMutations
  <2> QED BY <2>1, <2>2, <2>3 DEF SearchInv, OneValue
<1>2. CASE ApplyMutation
  <2>1. /\ phase = "apply" /\ phase' = "run" /\ UNCHANGED program
        /\ function' = IF mutator = "AndToOr" THEN ApplyLogicalAndToOr(function, point)
                        ELSE ApplyLogicalOrToAnd(function, point)
    BY <1>2 DEF ApplyMutation
  <2>2. Verified(function) /\ MergesOneCondition(function) /\ point \in Points(function)
    BY <2>1, LogicalMutatorsAssumption DEF SearchInv
  <2>3. OneValue(function')
    BY <2>1, <2>2, MutationKeepsValues
  <2> QED BY <2>1, <2>3 DEF SearchInv, OneValue
<1>3. CASE Execute
  <2>1. UNCHANGED << program, function >> /\ phase = "run" /\ phase' \in {"run", "done"}
    BY <1>3 DEF Execute
  <2> QED BY <2>1 DEF SearchInv, OneValue
<1>4. CASE UNCHANGED vars
  BY <1>4 DEF vars, SearchInv, Points, Candidates, Pattern
<1> QED BY <1>1, <1>2, <1>3, <1>4 DEF Next, Done

\* For every function that LLVM's verifier accepts, every point and both mutators: a block
\* that merges values has exactly one for each jump that can reach it, also when applyMutation
\* has redirected a branch (addIncoming of patterns 1 and 2).
THEOREM EveryJumpHasOneValueHolds == Spec => []EveryJumpHasOneValue
<1>1. Init => SearchInv
  BY LogicalMutatorsAssumption, VerifiedHasValues DEF Init, SearchInv
<1>2. SearchInv /\ [Next]_vars => SearchInv'
  BY SearchStep
<1>3. SearchInv => EveryJumpHasOneValue
  BY DEF SearchInv, OneValue, EveryJumpHasOneValue
<1> QED BY <1>1, <1>2, <1>3, PTL DEF Spec
-----------------------------------------------------------------------------
(* A chain that is branched on.                                            *)

AtomOf(p, i) == p.operand[i].atom

\* An operand of this truth leaves the chain undecided.
Going(p) == p.ops[1] = "and"

\* Where an operand that decides the chain leads.
Short(p) == IF Going(p) <=> ~p.neg THEN "no" ELSE "yes"

\* The block of operand i, or the outcome after the last one.
Node(p, i) ==
  IF i = Len(p.operand) + 1 THEN (IF Going(p) <=> ~p.neg THEN "yes" ELSE "no")
  ELSE AtomOf(p, i)

\* The left target of operand i is the next one.
GoesLeft(p, i) == Going(p) <=> ~p.operand[i].neg

OnLeft(p, i, next) == IF GoesLeft(p, i) THEN next ELSE Short(p)
OnRight(p, i, next) == IF GoesLeft(p, i) THEN Short(p) ELSE next

\* The branch of operand i.
OperandBranch(p, i, left, right) ==
  BlockOf(<< >>, Terminator("branch", Literal(AtomOf(p, i), FALSE), left, right))

ChainFacts(p) ==
  LET n == Len(p.operand)
      f == p.function
  IN  /\ n \in Nat /\ n >= 2
      /\ \A i \in 1 .. n : /\ AtomOf(p, i) \in Atom /\ AtomOf(p, i) \in Blocks(f)
                           /\ AtomOf(p, i) # "true" /\ AtomOf(p, i) # Nowhere
                           /\ p.operand[i].neg \in BOOLEAN
      /\ p.neg \in BOOLEAN
      /\ \A i, j \in 1 .. n + 1 : Node(p, i) = Node(p, j) => i = j
      /\ \A i \in 1 .. n + 1 : Node(p, i) # Short(p)
      /\ \A i \in 1 .. n : f.block[AtomOf(p, i)] =
           OperandBranch(p, i, OnLeft(p, i, Node(p, i + 1)), OnRight(p, i, Node(p, i + 1)))
      /\ Len(f.order) = n + 2 /\ f.order[n + 1] = "yes" /\ f.order[n + 2] = "no"
      /\ \A i \in 1 .. n : f.order[i] = AtomOf(p, i)
      /\ \A i, j \in 1 .. n + 2 : f.order[i] = f.order[j] => i = j
      /\ \A b \in Blocks(f) : b \in {"yes", "no"} \/ \E i \in 1 .. n : b = AtomOf(p, i)
      /\ f.block["yes"] = ReturnOf(TRUE) /\ f.block["no"] = ReturnOf(FALSE)

\* What clang makes of a chain.
LEMMA ChainShape ==
  ASSUME NEW p \in Program, p.context = "if", IsChain(p)
  PROVE  ChainFacts(p)
<1> DEFINE n == Len(p.operand)
           f == p.function
<1>1. Verified(f) /\ Condition(p) /\ BranchesOnOperands(p)
  BY LogicalMutatorsAssumption DEF Lowered
<1>2. /\ p.operand \in Seq([atom : Atom, neg : BOOLEAN]) /\ n >= 2 /\ p.neg \in BOOLEAN
      /\ n \in Nat /\ DOMAIN p.operand = 1 .. n
  BY <1>1 DEF Condition
<1>3. \A i \in 1 .. n : p.operand[i] \in [atom : Atom, neg : BOOLEAN]
  BY <1>2, ElementOfSeq, Zenon
<1>4. \A i \in 1 .. n : /\ AtomOf(p, i) \in Atom /\ p.operand[i].neg \in BOOLEAN
                        /\ AtomOf(p, i) # "true" /\ AtomOf(p, i) # Nowhere
  BY <1>3, LogicalMutatorsAssumption DEF AtomOf
<1>5. /\ Len(f.order) = n + 2 /\ f.order[n + 1] = "yes" /\ f.order[n + 2] = "no"
      /\ \A i \in 1 .. n : f.order[i] = AtomOf(p, i)
      /\ f.block["yes"] = ReturnOf(TRUE) /\ f.block["no"] = ReturnOf(FALSE)
  BY <1>1 DEF BranchesOnOperands, Ends, AtomOf
<1>6. f.order \in Seq(Blocks(f)) /\ DOMAIN f.order = 1 .. n + 2
  BY <1>1, <1>5 DEF Verified, FunctionType
<1>7. \A i, j \in 1 .. n + 2 : f.order[i] = f.order[j] => i = j
  BY <1>1, <1>6 DEF Verified
<1>8. \A i \in 1 .. n : AtomOf(p, i) \in Blocks(f)
  BY <1>2, <1>5, <1>6
<1>9. \A b \in Blocks(f) : b \in {"yes", "no"} \/ \E i \in 1 .. n : b = AtomOf(p, i)
  <2> SUFFICES ASSUME NEW b \in Blocks(f) PROVE b \in {"yes", "no"} \/ \E i \in 1 .. n : b = AtomOf(p, i)
    OBVIOUS
  <2>1. PICK i \in 1 .. n + 2 : f.order[i] = b
    BY <1>1, <1>6 DEF Verified
  <2>2. i \in 1 .. n \/ i = n + 1 \/ i = n + 2
    BY <1>2
  <2>3. CASE i \in 1 .. n
    BY <1>5, <2>1, <2>3, Zenon
  <2>4. CASE i \notin 1 .. n
    BY <1>5, <2>1, <2>2, <2>4
  <2> QED BY <2>3, <2>4
<1>10. \A i \in 1 .. n : AtomOf(p, i) # "yes" /\ AtomOf(p, i) # "no"
  BY <1>4, LogicalMutatorsAssumption
<1>11. \A i, j \in 1 .. n : AtomOf(p, i) = AtomOf(p, j) => i = j
  BY <1>2, <1>5, <1>7
<1>12. \A i, j \in 1 .. n + 1 : Node(p, i) = Node(p, j) => i = j
  BY <1>2, <1>10, <1>11 DEF Node
<1>13. \A i \in 1 .. n + 1 : Node(p, i) # Short(p)
  BY <1>2, <1>10 DEF Node, Short
<1>14. ASSUME NEW i \in 1 .. n
       PROVE  f.block[AtomOf(p, i)] =
           OperandBranch(p, i, OnLeft(p, i, Node(p, i + 1)), OnRight(p, i, Node(p, i + 1)))
  <2> DEFINE yes == IF p.neg THEN "no" ELSE "yes"
             no == IF p.neg THEN "yes" ELSE "no"
             next(last) == IF i = n THEN last ELSE p.operand[i + 1].atom
  <2>1. IF p.ops[1] = "and" THEN BranchesTo(p, i, next(yes), no)
              ELSE BranchesTo(p, i, yes, next(no))
    BY <1>1, Zenon DEF BranchesOnOperands
  <2>2. i + 1 = n + 1 <=> i = n
    BY <1>2
  <2>3. CASE p.ops[1] = "and"
    <3>1. next(yes) = Node(p, i + 1) /\ no = Short(p)
      BY <1>2, <2>2, <2>3 DEF Node, AtomOf, Going, Short
    <3>2. BranchesTo(p, i, Node(p, i + 1), Short(p))
      BY <2>1, <2>3, <3>1, Zenon
    <3>3. GoesLeft(p, i) <=> ~p.operand[i].neg
      BY <2>3 DEF GoesLeft, Going
    <3> QED BY <3>2, <3>3 DEF BranchesTo, OperandBranch, OnLeft, OnRight, AtomOf
  <2>4. CASE p.ops[1] # "and"
    <3>1. next(no) = Node(p, i + 1) /\ yes = Short(p)
      BY <1>2, <2>2, <2>4 DEF Node, AtomOf, Going, Short
    <3>2. BranchesTo(p, i, Short(p), Node(p, i + 1))
      BY <2>1, <2>4, <3>1, Zenon
    <3>3. GoesLeft(p, i) <=> p.operand[i].neg
      BY <2>4 DEF GoesLeft, Going
    <3> QED BY <3>2, <3>3 DEF BranchesTo, OperandBranch, OnLeft, OnRight, AtomOf
  <2> QED BY <2>3, <2>4
<1> QED BY <1>2, <1>4, <1>5, <1>7, <1>8, <1>9, <1>12, <1>13, <1>14 DEF ChainFacts

\* Operand j is what the mutator looks for.
Matches(p, j) == GoesLeft(p, j) <=> mutator = "AndToOr"

\* The branches of two operands match if the second one leads to the shared outcome on the
\* side that the mutator compares.
LEMMA ChainPattern ==
  ASSUME NEW p, ChainFacts(p), NEW m \in 1 .. Len(p.operand), NEW j \in 1 .. Len(p.operand),
         m # j
  PROVE  Pattern(p.function, AtomOf(p, m), AtomOf(p, j)) =
           IF Matches(p, j) THEN (IF GoesLeft(p, m) <=> GoesLeft(p, j) THEN 1 ELSE 2) ELSE 0
<1> DEFINE f == p.function
           b == AtomOf(p, m)
           c == AtomOf(p, j)
<1>1. PICK s, nm, nj : s = Short(p) /\ nm = Node(p, m + 1) /\ nj = Node(p, j + 1)
  OBVIOUS
<1>2. s # nm /\ s # nj /\ nm # nj
  BY <1>1 DEF ChainFacts
<1>a. /\ f.block[b] = OperandBranch(p, m, OnLeft(p, m, nm), OnRight(p, m, nm))
      /\ f.block[c] = OperandBranch(p, j, OnLeft(p, j, nj), OnRight(p, j, nj))
  BY <1>1, Zenon DEF ChainFacts
<1>3. /\ f.block[b].term.left = OnLeft(p, m, nm) /\ f.block[b].term.right = OnRight(p, m, nm)
      /\ f.block[c].term.left = OnLeft(p, j, nj) /\ f.block[c].term.right = OnRight(p, j, nj)
  BY <1>a DEF OperandBranch, BlockOf, Terminator
<1>4. f.block[c].phi = << >>
  BY <1>a DEF OperandBranch, BlockOf, Terminator
<1>5. ~MergesOther(f, b, c)
  BY <1>4 DEF MergesOther, Range
<1>6. PICK bl, br, cl, cr : /\ bl = f.block[b].term.left /\ br = f.block[b].term.right
                            /\ cl = f.block[c].term.left /\ cr = f.block[c].term.right
  OBVIOUS
<1>7. AND_OR_Pattern(f, b, c) = (IF cr = br THEN 1 ELSE IF cr = bl THEN 2 ELSE 0)
  BY <1>5, <1>6 DEF AND_OR_Pattern
<1>8. OR_AND_Pattern(f, b, c) = (IF cl = bl THEN 1 ELSE IF cl = br THEN 2 ELSE 0)
  BY <1>5, <1>6 DEF OR_AND_Pattern
<1>9. /\ bl = OnLeft(p, m, nm) /\ br = OnRight(p, m, nm)
      /\ cl = OnLeft(p, j, nj) /\ cr = OnRight(p, j, nj)
  BY <1>3, <1>6
<1>10. /\ AND_OR_Pattern(f, b, c) = IF GoesLeft(p, j) THEN (IF GoesLeft(p, m) THEN 1 ELSE 2) ELSE 0
       /\ OR_AND_Pattern(f, b, c) = IF GoesLeft(p, j) THEN 0 ELSE (IF GoesLeft(p, m) THEN 2 ELSE 1)
  BY <1>1, <1>2, <1>7, <1>8, <1>9 DEF OnLeft, OnRight
<1> QED BY <1>10 DEF Pattern, Matches

\* The position of an operand's block.
LEMMA ChainPosition ==
  ASSUME NEW p, ChainFacts(p), NEW m \in 1 .. Len(p.operand)
  PROVE  Position(p.function, AtomOf(p, m)) = m
<1> DEFINE n == Len(p.operand)
           f == p.function
<1>1. /\ n \in Nat /\ DOMAIN f.order = 1 .. n + 2 /\ f.order[m] = AtomOf(p, m)
      /\ \A i, j \in 1 .. n + 2 : f.order[i] = f.order[j] => i = j
  BY DEF ChainFacts
<1>2. m \in 1 .. n + 2
  BY <1>1
<1>3. \A i \in DOMAIN f.order : f.order[i] = AtomOf(p, m) <=> i = m
  BY <1>1, <1>2
<1> QED BY <1>1, <1>2, <1>3 DEF Position

\* j is the first operand after m that the mutator looks for.
Paired(p, m, j) ==
  /\ m \in 1 .. Len(p.operand) /\ j \in m + 1 .. Len(p.operand)
  /\ Matches(p, j) /\ \A l \in m + 1 .. j - 1 : ~Matches(p, l)

\* The operands of a chain that can be mutated, and their second branch.
LEMMA ChainPoint ==
  ASSUME NEW p, ChainFacts(p), p.function.order \in Seq(Blocks(p.function))
  PROVE  /\ \A b \in Points(p.function) : \E m, j \in 1 .. Len(p.operand) :
              /\ b = AtomOf(p, m) /\ Paired(p, m, j)
              /\ SecondBranch(p.function, b) = AtomOf(p, j)
         /\ \A m, j \in 1 .. Len(p.operand) :
              m < j /\ Matches(p, j) => AtomOf(p, m) \in Points(p.function)
<1> DEFINE n == Len(p.operand)
           f == p.function
<1>1. /\ n \in Nat /\ Len(f.order) = n + 2 /\ f.order[n + 1] = "yes" /\ f.order[n + 2] = "no"
      /\ \A i \in 1 .. n : f.order[i] = AtomOf(p, i) /\ AtomOf(p, i) \in Blocks(f)
      /\ \A b \in Blocks(f) : b \in {"yes", "no"} \/ \E i \in 1 .. n : b = AtomOf(p, i)
  BY DEF ChainFacts
<1>2. ~IsBranch(f, "yes") /\ ~IsBranch(f, "no")
  <2>1. f.block["yes"] = ReturnOf(TRUE) /\ f.block["no"] = ReturnOf(FALSE)
    BY DEF ChainFacts
  <2> QED BY <2>1 DEF IsBranch, ReturnOf, BlockOf, Terminator
<1>3. \A i \in 1 .. n : IsBranch(f, AtomOf(p, i))
  <2> SUFFICES ASSUME NEW i \in 1 .. n PROVE IsBranch(f, AtomOf(p, i))
    OBVIOUS
  <2>1. f.block[AtomOf(p, i)] =
          OperandBranch(p, i, OnLeft(p, i, Node(p, i + 1)), OnRight(p, i, Node(p, i + 1)))
    BY Zenon DEF ChainFacts
  <2> QED BY <2>1 DEF IsBranch, OperandBranch, BlockOf, Terminator
<1>4. ASSUME NEW m \in 1 .. n
      PROVE  Candidates(f, AtomOf(p, m)) = {i \in m + 1 .. n : Matches(p, i)}
  <2>1. Position(f, AtomOf(p, m)) = m
    BY ChainPosition
  <2>2. Candidates(f, AtomOf(p, m)) =
          {i \in m + 1 .. n + 2 : IsBranch(f, f.order[i]) /\ Pattern(f, AtomOf(p, m), f.order[i]) # 0}
    BY <1>1, <2>1 DEF Candidates
  <2>3. \A i \in m + 1 .. n + 2 : i \in m + 1 .. n \/ i = n + 1 \/ i = n + 2
    BY <1>1
  <2>4. \A i \in m + 1 .. n + 2 : IsBranch(f, f.order[i]) => i \in m + 1 .. n
    BY <1>1, <1>2, <2>3, Zenon
  <2>5. \A i \in m + 1 .. n : i \in 1 .. n /\ i # m /\ i \in m + 1 .. n + 2
    BY <1>1
  <2>6. ASSUME NEW i \in m + 1 .. n
        PROVE  IsBranch(f, f.order[i]) /\ (Pattern(f, AtomOf(p, m), f.order[i]) # 0 <=> Matches(p, i))
    <3>1. i \in 1 .. n /\ i # m /\ f.order[i] = AtomOf(p, i)
      BY <1>1, <2>5
    <3>2. Pattern(f, AtomOf(p, m), AtomOf(p, i)) =
           IF Matches(p, i) THEN (IF GoesLeft(p, m) <=> GoesLeft(p, i) THEN 1 ELSE 2) ELSE 0
      BY <3>1, ChainPattern
    <3>3. Pattern(f, AtomOf(p, m), AtomOf(p, i)) # 0 <=> Matches(p, i)
      BY <3>2
    <3> QED BY <1>3, <3>1, <3>3, Zenon
  <2> QED BY <2>2, <2>4, <2>5, <2>6
<1>5. ASSUME NEW b \in Points(f)
      PROVE  \E m, j \in 1 .. n :
              b = AtomOf(p, m) /\ Paired(p, m, j) /\ SecondBranch(f, b) = AtomOf(p, j)
  <2>1. b \in Blocks(f) /\ IsBranch(f, b) /\ Candidates(f, b) # {}
    BY DEF Points, Blocks
  <2>2. PICK m \in 1 .. n : b = AtomOf(p, m)
    BY <1>1, <1>2, <2>1
  <2>3. PICK C : C = {i \in m + 1 .. n : Matches(p, i)}
    OBVIOUS
  <2>4. Candidates(f, b) = C /\ C # {} /\ C \in SUBSET Nat
    BY <1>1, <1>4, <2>1, <2>2, <2>3
  <2>5. PICK j : j = Min(C) /\ j \in C /\ \A y \in C : j <= y
    BY <2>4, MinIs
  <2>6. j \in m + 1 .. n /\ j \in 1 .. n /\ Matches(p, j)
    BY <1>1, <2>3, <2>5
  <2>7. ASSUME NEW l \in m + 1 .. j - 1 PROVE ~Matches(p, l)
    <3>1. l \in m + 1 .. n /\ ~(j <= l)
      BY <1>1, <2>6
    <3> QED BY <2>3, <2>5, <3>1
  <2>8. SecondBranch(f, b) = AtomOf(p, j)
    BY <1>1, <2>4, <2>5, <2>6 DEF SecondBranch
  <2>9. Paired(p, m, j)
    BY <2>6, <2>7, Zenon DEF Paired
  <2> QED BY <2>2, <2>6, <2>8, <2>9
<1>6. ASSUME NEW m \in 1 .. n, NEW j \in 1 .. n, m < j, Matches(p, j)
      PROVE  AtomOf(p, m) \in Points(f)
  <2>1. j \in Candidates(f, AtomOf(p, m))
    <3>1. j \in m + 1 .. n
      BY <1>1, <1>6
    <3> QED BY <1>4, <1>6, <3>1
  <2> QED BY <1>1, <1>3, <2>1 DEF Points, Blocks
<1> QED BY <1>5, <1>6

\* Every operand leads to a block without a PHI node.
LEMMA NodeIsBlock ==
  ASSUME NEW p, ChainFacts(p), Verified(p.function), NEW i \in 1 .. Len(p.operand) + 1
  PROVE  /\ Node(p, i) \in Blocks(p.function) /\ p.function.block[Node(p, i)].phi = << >>
         /\ Short(p) \in Blocks(p.function) /\ p.function.block[Short(p)].phi = << >>
<1> DEFINE n == Len(p.operand)
           f == p.function
<1>1. /\ n \in Nat /\ f.block["yes"] = ReturnOf(TRUE) /\ f.block["no"] = ReturnOf(FALSE)
      /\ Len(f.order) = n + 2 /\ f.order[n + 1] = "yes" /\ f.order[n + 2] = "no"
  BY DEF ChainFacts
<1>2. f.block["yes"].phi = << >> /\ f.block["no"].phi = << >>
  BY <1>1 DEF ReturnOf, BlockOf
<1>3. f.order \in Seq(Blocks(f))
  BY DEF Verified, FunctionType
<1>4. "yes" \in Blocks(f) /\ "no" \in Blocks(f)
  BY <1>1, <1>3
<1>5. CASE i = n + 1
  BY <1>2, <1>4, <1>5 DEF Node, Short
<1>6. CASE i # n + 1
  <2>1. i \in 1 .. n /\ Node(p, i) = AtomOf(p, i)
    BY <1>1, <1>6 DEF Node
  <2>2. f.block[AtomOf(p, i)] =
          OperandBranch(p, i, OnLeft(p, i, Node(p, i + 1)), OnRight(p, i, Node(p, i + 1)))
    BY <2>1, Zenon DEF ChainFacts
  <2>3. f.block[AtomOf(p, i)].phi = << >> /\ AtomOf(p, i) \in Blocks(f)
    BY <2>1, <2>2 DEF OperandBranch, BlockOf, ChainFacts
  <2> QED BY <1>2, <1>4, <2>1, <2>3 DEF Short
<1> QED BY <1>5, <1>6

\* The mutant of a chain: operand m leads past j if it leaves the chain undecided, and to the
\* next operand if not.
ChainMutant(p, m, j, h) ==
  Replaced(p.function, AtomOf(p, m),
           IF GoesLeft(p, m) THEN Node(p, j + 1) ELSE Node(p, m + 1),
           IF GoesLeft(p, m) THEN Node(p, m + 1) ELSE Node(p, j + 1), h)

\* The four patterns come to the same.
LEMMA ChainApplied ==
  ASSUME NEW p, ChainFacts(p), Verified(p.function), NEW b \in Points(p.function),
         mutator \in {"AndToOr", "OrToAnd"},
         NEW h, h = IF mutator = "AndToOr" THEN ApplyLogicalAndToOr(p.function, b)
                    ELSE ApplyLogicalOrToAnd(p.function, b)
  PROVE  \E m, j \in 1 .. Len(p.operand) :
           b = AtomOf(p, m) /\ Paired(p, m, j) /\ ChainMutant(p, m, j, h)
<1> DEFINE n == Len(p.operand)
           f == p.function
<1>1. f.order \in Seq(Blocks(f))
  BY DEF Verified, FunctionType
<1>2. PICK m \in 1 .. n, j \in 1 .. n :
        b = AtomOf(p, m) /\ Paired(p, m, j) /\ SecondBranch(f, b) = AtomOf(p, j)
  BY <1>1, ChainPoint
<1>3. n \in Nat /\ m # j /\ Matches(p, j)
  BY <1>2 DEF Paired, ChainFacts
<1>4. PICK c : c = AtomOf(p, j)
  OBVIOUS
<1>5. PICK s, nm, nj : s = Short(p) /\ nm = Node(p, m + 1) /\ nj = Node(p, j + 1)
  OBVIOUS
<1>6. /\ f.block[b] = OperandBranch(p, m, OnLeft(p, m, nm), OnRight(p, m, nm))
      /\ f.block[c] = OperandBranch(p, j, OnLeft(p, j, nj), OnRight(p, j, nj))
  BY <1>2, <1>4, <1>5, Zenon DEF ChainFacts
<1>7. /\ f.block[b].term.left = OnLeft(p, m, nm) /\ f.block[b].term.right = OnRight(p, m, nm)
      /\ f.block[c].term.left = OnLeft(p, j, nj) /\ f.block[c].term.right = OnRight(p, j, nj)
  BY <1>6 DEF OperandBranch, BlockOf, Terminator
<1>8. Pattern(f, b, c) =
           IF Matches(p, j) THEN (IF GoesLeft(p, m) <=> GoesLeft(p, j) THEN 1 ELSE 2) ELSE 0
  BY <1>2, <1>3, <1>4, ChainPattern
<1>9. IsBranch(f, b) /\ b \in Blocks(f) /\ c \in Blocks(f)
  BY <1>2, <1>4 DEF ChainFacts, Points
<1>10. ASSUME NEW left, NEW right, NEW target, target = nj,
              h = AcceptJump(Replace(f, b, left, right), c, target, b)
       PROVE  Replaced(f, b, left, right, h)
  <2>1. PICK g : g = Replace(f, b, left, right)
    OBVIOUS
  <2>2. Replaced(f, b, left, right, g)
    BY <1>9, <2>1, ReplaceIs, TermFacts, FunctionIs
  <2>3. target \in Blocks(f) /\ f.block[target].phi = << >>
    BY <1>5, <1>10, NodeIsBlock
  <2>4. g.block[target].phi = << >>
    BY <2>2, <2>3, Zenon DEF Replaced
  <2>5. EntriesFor(g, target, c) = {}
    BY <2>4 DEF EntriesFor
  <2>6. h = g
    BY <1>10, <2>1, <2>5 DEF AcceptJump
  <2> QED BY <2>2, <2>6, Zenon
<1>11. CASE mutator = "AndToOr"
  <2>1. GoesLeft(p, j) /\ f.block[c].term.left = nj
    BY <1>3, <1>7, <1>11 DEF Matches, OnLeft
  <2>2. h = ApplyLogicalAndToOr(f, b)
    BY <1>11
  <2>3. CASE GoesLeft(p, m)
    <3>1. Pattern(f, b, c) = 1 /\ f.block[b].term.left = nm
      BY <1>3, <1>7, <1>8, <2>1, <2>3 DEF OnLeft
    <3>2. h = ANDToOR_Pattern1(f, b, c)
      BY <1>2, <1>4, <2>2, <3>1 DEF ApplyLogicalAndToOr
    <3>3. Replaced(f, b, nj, nm, h)
      BY <1>10, <2>1, <3>1, <3>2 DEF ANDToOR_Pattern1
    <3>4. ChainMutant(p, m, j, h)
      BY <1>2, <1>5, <2>3, <3>3 DEF ChainMutant
    <3> QED BY <1>2, <3>4
  <2>4. CASE ~GoesLeft(p, m)
    <3>1. Pattern(f, b, c) = 2 /\ f.block[b].term.right = nm
      BY <1>3, <1>7, <1>8, <2>1, <2>4 DEF OnRight
    <3>2. h = ANDToOR_Pattern2(f, b, c)
      BY <1>2, <1>4, <2>2, <3>1 DEF ApplyLogicalAndToOr
    <3>3. Replaced(f, b, nm, nj, h)
      BY <1>10, <2>1, <3>1, <3>2 DEF ANDToOR_Pattern2
    <3>4. ChainMutant(p, m, j, h)
      BY <1>2, <1>5, <2>4, <3>3 DEF ChainMutant
    <3> QED BY <1>2, <3>4
  <2> QED BY <2>3, <2>4
<1>12. CASE mutator # "AndToOr"
  <2>1. ~GoesLeft(p, j) /\ f.block[c].term.right = nj
    BY <1>3, <1>7, <1>12 DEF Matches, OnRight
  <2>2. h = ApplyLogicalOrToAnd(f, b)
    BY <1>12
  <2>3. CASE ~GoesLeft(p, m)
    <3>1. Pattern(f, b, c) = 1 /\ f.block[b].term.right = nm
      BY <1>3, <1>7, <1>8, <2>1, <2>3 DEF OnRight
    <3>2. h = ORToAND_Pattern1(f, b, c)
      BY <1>2, <1>4, <2>2, <3>1 DEF ApplyLogicalOrToAnd
    <3>3. Replaced(f, b, nm, nj, h)
      BY <1>10, <2>1, <3>1, <3>2 DEF ORToAND_Pattern1
    <3>4. ChainMutant(p, m, j, h)
      BY <1>2, <1>5, <2>3, <3>3 DEF ChainMutant
    <3> QED BY <1>2, <3>4
  <2>4. CASE GoesLeft(p, m)
    <3>1. Pattern(f, b, c) = 2 /\ f.block[b].term.left = nm
      BY <1>3, <1>7, <1>8, <2>1, <2>4 DEF OnLeft
    <3>2. h = ORToAND_Pattern2(f, b, c)
      BY <1>2, <1>4, <2>2, <3>1 DEF ApplyLogicalOrToAnd
    <3>3. Replaced(f, b, nj, nm, h)
      BY <1>10, <2>1, <3>1, <3>2 DEF ORToAND_Pattern2
    <3>4. ChainMutant(p, m, j, h)
      BY <1>2, <1>5, <2>4, <3>3 DEF ChainMutant
    <3> QED BY <1>2, <3>4
  <2> QED BY <2>3, <2>4
<1> QED BY <1>11, <1>12

\* Operand i leaves the chain undecided.
Keeps(i) == Operand(i) <=> Going(program)

\* The operands that do.
Kept == {l \in 1 .. Len(program.operand) : Keeps(l)}

\* No operand of the mutated chain of n operands decides it.
Undecided(K, n, m, j) ==
  /\ \A l \in 1 .. n : l \notin m .. j => l \in K
  /\ m \in K \/ \A l \in m + 1 .. j : l \in K

\* What is known of the operands before operand i when it is reached.
Sofar(K, m, j, i) ==
  /\ \A l \in 1 .. i - 1 : l \notin m .. j => l \in K
  /\ i \in m + 1 .. j => m \notin K /\ \A l \in m + 1 .. i - 1 : l \in K
  /\ i > j => m \in K \/ \A l \in m + 1 .. j : l \in K

\* What is known when operand i has been evaluated.
Onward(K, n, m, j, i) ==
  /\ i = m /\ m \in K => Sofar(K, m, j, j + 1)
  /\ i = m /\ m \notin K => Sofar(K, m, j, m + 1)
  /\ i # m /\ i \in K => Sofar(K, m, j, i + 1)
  /\ i # m /\ i \notin K => ~Undecided(K, n, m, j)

\* From one operand to the next.
LEMMA SofarStep ==
  ASSUME NEW n \in Nat, NEW m \in 1 .. n, NEW j \in 1 .. n, m < j, NEW K
  PROVE  /\ Sofar(K, m, j, 1)
         /\ Sofar(K, m, j, n + 1) => Undecided(K, n, m, j)
         /\ \A i \in 1 .. n : Sofar(K, m, j, i) => Onward(K, n, m, j, i)
<1>1. Sofar(K, m, j, 1)
  BY DEF Sofar
<1>2. Sofar(K, m, j, n + 1) => Undecided(K, n, m, j)
  BY DEF Sofar, Undecided
<1>3. ASSUME NEW i \in 1 .. n, Sofar(K, m, j, i), i = m, m \in K PROVE Sofar(K, m, j, j + 1)
  BY <1>3 DEF Sofar
<1>4. ASSUME NEW i \in 1 .. n, Sofar(K, m, j, i), i = m, m \notin K PROVE Sofar(K, m, j, m + 1)
  BY <1>4 DEF Sofar
<1>5. ASSUME NEW i \in 1 .. n, Sofar(K, m, j, i), i # m, i \in K PROVE Sofar(K, m, j, i + 1)
  BY <1>5 DEF Sofar
<1>6. ASSUME NEW i \in 1 .. n, Sofar(K, m, j, i), i # m, i \notin K PROVE ~Undecided(K, n, m, j)
  BY <1>6 DEF Sofar, Undecided
<1> QED BY <1>1, <1>2, <1>3, <1>4, <1>5, <1>6 DEF Onward

Reached(p, K, m, j) ==
  \/ \E i \in 1 .. Len(p.operand) + 1 : at = Node(p, i) /\ Sofar(K, m, j, i)
  \/ at = Short(p) /\ ~Undecided(K, Len(p.operand), m, j)

\* What the branch of an operand does.
LEMMA OperandIsTrue ==
  ASSUME NEW p, p = program, ChainFacts(p), NEW i \in 1 .. Len(p.operand),
         env \in [Atom -> BOOLEAN], value = env
  PROVE  IsTrue(Literal(AtomOf(p, i), FALSE), value) <=> (Keeps(i) <=> GoesLeft(p, i))
<1>1. /\ AtomOf(p, i) \in Atom /\ AtomOf(p, i) # "true" /\ p.operand[i].neg \in BOOLEAN
  BY DEF ChainFacts
<1>2. PICK e : e = env[AtomOf(p, i)] /\ e \in BOOLEAN
  BY <1>1
<1>3. IsTrue(Literal(AtomOf(p, i), FALSE), value) <=> e
  BY <1>1, <1>2 DEF IsTrue, Literal, Constant
<1>4. PICK g : g = p.operand[i].neg /\ g \in BOOLEAN
  BY <1>1
<1>5. Operand(i) <=> ~(e <=> g)
  <2>1. Operand(i) = (e # g)
    BY <1>2, <1>4 DEF Operand, AtomOf
  <2>2. (e # g) <=> ~(e <=> g)
    BY <1>2, <1>4
  <2> QED BY <2>1, <2>2
<1>6. GoesLeft(p, i) <=> (Going(p) <=> ~g)
  BY <1>4 DEF GoesLeft
<1> QED BY <1>3, <1>5, <1>6 DEF Keeps

\* The state in which a chain's mutant is executed.
ChainRun(p, m, j) ==
  /\ p = program /\ ChainFacts(p) /\ Verified(p.function) /\ phase = "run"
  /\ m \in 1 .. Len(p.operand) /\ j \in 1 .. Len(p.operand) /\ m < j
  /\ ChainMutant(p, m, j, function) /\ env \in [Atom -> BOOLEAN] /\ value = env

\* The blocks of the mutant have no PHI nodes.
LEMMA ChainHasNoPhi ==
  ASSUME NEW p, NEW m, NEW j, ChainRun(p, m, j), NEW i \in 1 .. Len(p.operand) + 1
  PROVE  function.block[Node(p, i)].phi = << >> /\ function.block[Short(p)].phi = << >>
<1>1. ChainFacts(p) /\ Verified(p.function)
  BY DEF ChainRun
<1>2. /\ Node(p, i) \in Blocks(p.function) /\ p.function.block[Node(p, i)].phi = << >>
      /\ Short(p) \in Blocks(p.function) /\ p.function.block[Short(p)].phi = << >>
  BY <1>1, NodeIsBlock
<1>3. \A c \in Blocks(p.function) : function.block[c].phi = p.function.block[c].phi
  BY Zenon DEF ChainRun, ChainMutant, Replaced
<1> QED BY <1>2, <1>3

\* The branch of an operand that is not the mutated one.
LEMMA OtherOperand ==
  ASSUME NEW p, NEW m, NEW j, ChainRun(p, m, j), NEW i \in 1 .. Len(p.operand), i # m
  PROVE  function.block[AtomOf(p, i)].term =
           Terminator("branch", Literal(AtomOf(p, i), FALSE),
                      OnLeft(p, i, Node(p, i + 1)), OnRight(p, i, Node(p, i + 1)))
<1>1. ChainFacts(p) /\ m \in 1 .. Len(p.operand)
  BY DEF ChainRun
<1>2. AtomOf(p, i) # AtomOf(p, m) /\ AtomOf(p, i) \in Blocks(p.function)
  <2>1. i \in 1 .. Len(p.operand) + 1 /\ m \in 1 .. Len(p.operand) + 1 /\ Len(p.operand) \in Nat
    BY <1>1 DEF ChainFacts
  <2>2. Node(p, i) = AtomOf(p, i) /\ Node(p, m) = AtomOf(p, m)
    BY <1>1, <2>1 DEF Node
  <2> QED BY <1>1, <2>1, <2>2 DEF ChainFacts
<1>3. \A c \in Blocks(p.function) :
        c # AtomOf(p, m) => function.block[c].term = p.function.block[c].term
  BY Zenon DEF ChainRun, ChainMutant, Replaced
<1>4. p.function.block[AtomOf(p, i)] =
          OperandBranch(p, i, OnLeft(p, i, Node(p, i + 1)), OnRight(p, i, Node(p, i + 1)))
  BY <1>1, Zenon DEF ChainFacts
<1>5. p.function.block[AtomOf(p, i)].term =
           Terminator("branch", Literal(AtomOf(p, i), FALSE),
                      OnLeft(p, i, Node(p, i + 1)), OnRight(p, i, Node(p, i + 1)))
  BY <1>4 DEF OperandBranch, BlockOf
<1> QED BY <1>2, <1>3, <1>5, Zenon

\* The branch of the mutated operand.
LEMMA MutatedOperand ==
  ASSUME NEW p, NEW m, NEW j, ChainRun(p, m, j)
  PROVE  function.block[AtomOf(p, m)].term =
           Terminator("branch", Literal(AtomOf(p, m), FALSE),
                      IF GoesLeft(p, m) THEN Node(p, j + 1) ELSE Node(p, m + 1),
                      IF GoesLeft(p, m) THEN Node(p, m + 1) ELSE Node(p, j + 1))
<1>1. ChainFacts(p) /\ m \in 1 .. Len(p.operand)
  BY DEF ChainRun
<1>2. p.function.block[AtomOf(p, m)] =
          OperandBranch(p, m, OnLeft(p, m, Node(p, m + 1)), OnRight(p, m, Node(p, m + 1)))
  BY <1>1, Zenon DEF ChainFacts
<1>3. p.function.block[AtomOf(p, m)].term.value = Literal(AtomOf(p, m), FALSE)
  <2>1. PICK v, l, r : /\ v = Literal(AtomOf(p, m), FALSE)
                       /\ l = OnLeft(p, m, Node(p, m + 1)) /\ r = OnRight(p, m, Node(p, m + 1))
    OBVIOUS
  <2>2. p.function.block[AtomOf(p, m)] = BlockOf(<< >>, Terminator("branch", v, l, r))
    BY <1>2, <2>1 DEF OperandBranch
  <2>3. BlockOf(<< >>, Terminator("branch", v, l, r)).term = Terminator("branch", v, l, r)
    BY DEF BlockOf
  <2>4. Terminator("branch", v, l, r).value = v
    BY DEF Terminator
  <2> QED BY <2>1, <2>2, <2>3, <2>4, Zenon
<1> QED BY <1>3 DEF ChainRun, ChainMutant, Replaced, Terminator

\* A branch to blocks without PHI nodes is executed.
LEMMA BranchIsTaken ==
  ASSUME Execute, NEW v, NEW left, NEW right,
         function.block[at].term = Terminator("branch", v, left, right),
         function.block[left].phi = << >>, function.block[right].phi = << >>
  PROVE  /\ at' = IF IsTrue(v, value) THEN left ELSE right
         /\ UNCHANGED << program, mutator, function, point, env, phase, value, result >>
<1>1. PICK t : t = function.block[at].term
  OBVIOUS
<1>2. t.kind = "branch" /\ t.value = v /\ t.left = left /\ t.right = right
  BY <1>1 DEF Terminator
<1>3. PICK next : next = IF IsTrue(v, value) THEN left ELSE right
  OBVIOUS
<1>4. at' = next /\ value' = Incoming(next, at) /\ UNCHANGED << phase, result >>
  BY <1>1, <1>2, <1>3 DEF Execute
<1>5. Incoming(next, at) = value
  BY <1>3 DEF Incoming
<1>6. UNCHANGED << program, mutator, function, point, env >>
  BY DEF Execute
<1> QED BY <1>3, <1>4, <1>5, <1>6

\* Where operand i leads.
LEMMA ChainStep ==
  ASSUME NEW p, NEW m, NEW j, ChainRun(p, m, j), Execute, NEW i \in 1 .. Len(p.operand),
         at = AtomOf(p, i)
  PROVE  /\ UNCHANGED << program, mutator, function, point, env, phase, value, result >>
         /\ at' = IF i = m THEN (IF Keeps(m) THEN Node(p, j + 1) ELSE Node(p, m + 1))
                  ELSE IF Keeps(i) THEN Node(p, i + 1) ELSE Short(p)
<1>1. /\ p = program /\ ChainFacts(p) /\ m \in 1 .. Len(p.operand) /\ j \in 1 .. Len(p.operand)
      /\ env \in [Atom -> BOOLEAN] /\ value = env
  BY DEF ChainRun
<1>2. IsTrue(Literal(AtomOf(p, i), FALSE), value) <=> (Keeps(i) <=> GoesLeft(p, i))
  BY <1>1, OperandIsTrue
<1>3. \A l \in 1 .. Len(p.operand) : function.block[Node(p, l + 1)].phi = << >>
  <2>1. \A l \in 1 .. Len(p.operand) : l + 1 \in 1 .. Len(p.operand) + 1
    BY <1>1 DEF ChainFacts
  <2> QED BY <2>1, ChainHasNoPhi, Zenon
<1>4. function.block[Short(p)].phi = << >>
  <2>1. 1 \in 1 .. Len(p.operand) + 1
    BY <1>1 DEF ChainFacts
  <2> QED BY <2>1, ChainHasNoPhi, Zenon
<1>5. CASE i = m
  <2>1. PICK nj, nm : nj = Node(p, j + 1) /\ nm = Node(p, m + 1)
    OBVIOUS
  <2>2. function.block[nj].phi = << >> /\ function.block[nm].phi = << >>
    BY <1>1, <1>3, <2>1
  <2>3. PICK left, right : /\ left = IF GoesLeft(p, m) THEN nj ELSE nm
                           /\ right = IF GoesLeft(p, m) THEN nm ELSE nj
    OBVIOUS
  <2>4. function.block[at].term = Terminator("branch", Literal(AtomOf(p, i), FALSE), left, right)
    BY <1>5, <2>1, <2>3, MutatedOperand
  <2>5. function.block[left].phi = << >> /\ function.block[right].phi = << >>
    BY <2>2, <2>3
  <2>6. /\ at' = IF IsTrue(Literal(AtomOf(p, i), FALSE), value) THEN left ELSE right
        /\ UNCHANGED << program, mutator, function, point, env, phase, value, result >>
    BY <2>4, <2>5, BranchIsTaken
  <2> QED BY <1>2, <1>5, <2>1, <2>3, <2>6
<1>6. CASE i # m
  <2>1. PICK n, s : n = Node(p, i + 1) /\ s = Short(p)
    OBVIOUS
  <2>3. PICK left, right : left = OnLeft(p, i, n) /\ right = OnRight(p, i, n)
    OBVIOUS
  <2>a. /\ left = IF GoesLeft(p, i) THEN n ELSE s
        /\ right = IF GoesLeft(p, i) THEN s ELSE n
    BY <2>1, <2>3 DEF OnLeft, OnRight
  <2>4. function.block[at].term = Terminator("branch", Literal(AtomOf(p, i), FALSE), left, right)
    BY <1>6, <2>1, <2>3, OtherOperand
  <2>5. function.block[left].phi = << >> /\ function.block[right].phi = << >>
    BY <1>3, <1>4, <2>1, <2>a
  <2>6. /\ at' = IF IsTrue(Literal(AtomOf(p, i), FALSE), value) THEN left ELSE right
        /\ UNCHANGED << program, mutator, function, point, env, phase, value, result >>
    BY <2>4, <2>5, BranchIsTaken
  <2> QED BY <1>2, <1>6, <2>1, <2>a, <2>6
<1> QED BY <1>5, <1>6

\* A return is executed.
LEMMA ReturnIsTaken ==
  ASSUME Execute, NEW v, function.block[at].term = Terminator("return", v, Nowhere, Nowhere)
  PROVE  /\ result' = IsTrue(v, value) /\ phase' = "done"
         /\ UNCHANGED << program, mutator, function, point, env, at, value >>
<1>1. PICK t : t = function.block[at].term
  OBVIOUS
<1>2. t.kind = "return" /\ t.value = v
  BY <1>1 DEF Terminator
<1>3. result' = IsTrue(v, value) /\ phase' = "done" /\ UNCHANGED << at, value >>
  BY <1>1, <1>2 DEF Execute
<1>4. UNCHANGED << program, mutator, function, point, env >>
  BY DEF Execute
<1> QED BY <1>3, <1>4

\* An outcome is returned.
LEMMA OutcomeIs ==
  ASSUME Execute, NEW t \in BOOLEAN, function.block[at].term = ReturnOf(t).term
  PROVE  /\ result' = t /\ phase' = "done"
         /\ UNCHANGED << program, mutator, function, point, env, at, value >>
<1>1. PICK v : v = Bool(t)
  OBVIOUS
<1>2. ReturnOf(t).term = Terminator("return", v, Nowhere, Nowhere)
  BY <1>1 DEF ReturnOf, BlockOf
<1>3. IsTrue(v, value) = t
  BY <1>1 DEF IsTrue, Constant, Bool, Literal
<1> QED BY <1>2, <1>3, ReturnIsTaken

\* What a chain's mutant computes: the chain is undecided, or not.
ChainOutcome(p, K, m, j) == (Going(p) <=> Undecided(K, Len(p.operand), m, j)) <=> ~p.neg

\* A step of the mutant.
LEMMA ChainReaches ==
  ASSUME NEW p, NEW m, NEW j, ChainRun(p, m, j), Execute, NEW K, K = Kept, Reached(p, K, m, j)
  PROVE  /\ UNCHANGED << program, mutator, function, point, env, value >>
         /\ \/ phase' = "run" /\ Reached(p, K, m, j)'
            \/ phase' = "done" /\ result' = ChainOutcome(p, K, m, j)
<1> DEFINE n == Len(p.operand)
<1>1. /\ p = program /\ ChainFacts(p) /\ m \in 1 .. n /\ j \in 1 .. n /\ m < j /\ phase = "run"
      /\ n \in Nat
  BY DEF ChainRun, ChainFacts
<1>2. \A i \in 1 .. n : i \in K <=> Keeps(i)
  BY <1>1 DEF Kept
<1>3. ASSUME NEW i \in 1 .. n, at = AtomOf(p, i), Sofar(K, m, j, i)
      PROVE  /\ UNCHANGED << program, mutator, function, point, env, value, phase >>
             /\ Reached(p, K, m, j)'
  <2>1. /\ UNCHANGED << program, mutator, function, point, env, phase, value, result >>
         /\ at' = IF i = m THEN (IF Keeps(m) THEN Node(p, j + 1) ELSE Node(p, m + 1))
                  ELSE IF Keeps(i) THEN Node(p, i + 1) ELSE Short(p)
    BY <1>3, ChainStep
  <2>2. /\ i = m /\ m \in K => Sofar(K, m, j, j + 1)
        /\ i = m /\ m \notin K => Sofar(K, m, j, m + 1)
        /\ i # m /\ i \in K => Sofar(K, m, j, i + 1)
        /\ i # m /\ i \notin K => ~Undecided(K, n, m, j)
    <3>1. Onward(K, n, m, j, i)
      BY <1>1, <1>3, SofarStep
    <3> QED BY <3>1 DEF Onward
  <2>3. j + 1 \in 1 .. n + 1 /\ m + 1 \in 1 .. n + 1 /\ i + 1 \in 1 .. n + 1
    BY <1>1
  <2>4. \/ \E l \in 1 .. n + 1 : at' = Node(p, l) /\ Sofar(K, m, j, l)
        \/ at' = Short(p) /\ ~Undecided(K, n, m, j)
    <3>1. CASE i = m /\ m \in K
      BY <1>1, <1>2, <2>1, <2>2, <2>3, <3>1
    <3>2. CASE i = m /\ m \notin K
      BY <1>1, <1>2, <2>1, <2>2, <2>3, <3>2
    <3>3. CASE i # m /\ i \in K
      BY <1>1, <1>2, <2>1, <2>2, <2>3, <3>3
    <3>4. CASE i # m /\ i \notin K
      BY <1>1, <1>2, <2>1, <2>2, <2>3, <3>4
    <3> QED BY <3>1, <3>2, <3>3, <3>4
  <2> QED BY <2>1, <2>4 DEF Reached
<1>4. ASSUME NEW t \in BOOLEAN, at = (IF t THEN "yes" ELSE "no")
      PROVE  /\ result' = t /\ phase' = "done"
             /\ UNCHANGED << program, mutator, function, point, env, value >>
  <2>1. /\ p.function.block["yes"] = ReturnOf(TRUE) /\ p.function.block["no"] = ReturnOf(FALSE)
        /\ p.function.order \in Seq(Blocks(p.function)) /\ Len(p.function.order) = n + 2
        /\ p.function.order[n + 1] = "yes" /\ p.function.order[n + 2] = "no"
    BY DEF ChainFacts, ChainRun, Verified, FunctionType
  <2>2. at \in Blocks(p.function)
    BY <1>1, <1>4, <2>1
  <2>3. \A c \in Blocks(p.function) :
          c # AtomOf(p, m) => function.block[c].term = p.function.block[c].term
    BY Zenon DEF ChainRun, ChainMutant, Replaced
  <2>4. at # AtomOf(p, m)
    <3>1. AtomOf(p, m) \in Atom
      BY <1>1 DEF ChainFacts
    <3> QED BY <1>4, <3>1, LogicalMutatorsAssumption
  <2>5. function.block[at].term = ReturnOf(t).term
    BY <1>4, <2>1, <2>2, <2>3, <2>4
  <2> QED BY <2>5, OutcomeIs
<1>5. CASE \E i \in 1 .. n : at = AtomOf(p, i) /\ Sofar(K, m, j, i)
  BY <1>1, <1>3, <1>5
<1>6. CASE at = Node(p, n + 1) /\ Sofar(K, m, j, n + 1)
  <2>1. Undecided(K, n, m, j)
    BY <1>1, <1>6, SofarStep
  <2>2. PICK t \in BOOLEAN : t = (Going(p) <=> ~p.neg)
    OBVIOUS
  <2>3. at = IF t THEN "yes" ELSE "no"
    BY <1>6, <2>2 DEF Node
  <2>4. ChainOutcome(p, K, m, j) = t
    BY <2>1, <2>2 DEF ChainOutcome
  <2> QED BY <1>4, <2>3, <2>4
<1>7. CASE at = Short(p) /\ ~Undecided(K, n, m, j)
  <2>2. PICK t \in BOOLEAN : t = ~(Going(p) <=> ~p.neg)
    OBVIOUS
  <2>3. at = IF t THEN "yes" ELSE "no"
    BY <1>7, <2>2 DEF Short
  <2>4. ChainOutcome(p, K, m, j) = t
    BY <1>7, <2>2 DEF ChainOutcome
  <2> QED BY <1>4, <2>3, <2>4
<1>8. \A i \in 1 .. n + 1 : i = n + 1 \/ (i \in 1 .. n /\ Node(p, i) = AtomOf(p, i))
  BY <1>1 DEF Node
<1> QED BY <1>5, <1>6, <1>7, <1>8 DEF Reached

-----------------------------------------------------------------------------
(* The points of a program, and the mutants of chains.                     *)

\* The point is one of the program's, unless it has none.
PointInv ==
  /\ program \in Program /\ mutator \in {"AndToOr", "OrToAnd"} /\ env \in [Atom -> BOOLEAN]
  /\ phase \in {"search", "apply", "run", "done"}
  /\ phase \in {"search", "apply"} => function = program.function /\ value = env
  /\ phase = "search" => point = Nowhere
  /\ phase \in {"apply", "run"} => point \in Points(program.function)
  /\ phase = "done" => \/ point \in Points(program.function)
                       \/ point = Nowhere /\ Points(program.function) = {}

\* It holds initially and is kept.
LEMMA PointStep ==
  /\ Init => PointInv
  /\ PointInv /\ [Next]_vars => PointInv'
<1>1. Init => PointInv
  BY DEF Init, PointInv
<1>2. ASSUME PointInv, GetMutations PROVE PointInv'
  <2>1. /\ UNCHANGED << program, mutator, function, env, value >> /\ phase = "search"
        /\ function = program.function
    BY <1>2 DEF GetMutations, PointInv
  <2>2. Points(program.function)' = Points(function)
    BY <2>1 DEF Points, Candidates, Pattern
  <2>3. \/ phase' = "done" /\ point' = point /\ Points(function) = {}
        \/ phase' = "apply" /\ point' \in Points(function)
    BY <1>2 DEF GetMutations
  <2>4. phase' = "done" => point = Nowhere
    BY <1>2, <2>1 DEF PointInv
  <2> QED BY <1>2, <2>1, <2>2, <2>3, <2>4 DEF PointInv
<1>3. ASSUME PointInv, ApplyMutation PROVE PointInv'
  <2>1. /\ UNCHANGED << program, mutator, point, env, value >> /\ phase = "apply" /\ phase' = "run"
    BY <1>3 DEF ApplyMutation
  <2>2. Points(program.function)' = Points(program.function)
    BY <2>1 DEF Points, Candidates, Pattern
  <2> QED BY <1>3, <2>1, <2>2 DEF PointInv
<1>4. ASSUME PointInv, Execute PROVE PointInv'
  <2>1. /\ UNCHANGED << program, mutator, point, env >> /\ phase = "run" /\ phase' \in {"run", "done"}
    BY <1>4 DEF Execute
  <2>2. Points(program.function)' = Points(program.function)
    BY <2>1 DEF Points, Candidates, Pattern
  <2> QED BY <1>4, <2>1, <2>2 DEF PointInv
<1>5. ASSUME PointInv, UNCHANGED vars PROVE PointInv'
  <2>1. UNCHANGED << program, mutator, point, env, function, value, phase >>
    BY <1>5 DEF vars
  <2>2. Points(program.function)' = Points(program.function)
    BY <2>1 DEF Points, Candidates, Pattern
  <2> QED BY <1>5, <2>1, <2>2 DEF PointInv
<1> QED BY <1>1, <1>2, <1>3, <1>4, <1>5 DEF Next, Done

\* The pair of operands of a chain that a mutant combines.
PairOf(m, j) ==
  /\ m \in 1 .. Len(program.operand) /\ j \in 1 .. Len(program.operand)
  /\ point = AtomOf(program, m) /\ Paired(program, m, j)

\* A chain's mutant is executed as its operands say.
ChainInv ==
  program.context = "if" /\ IsChain(program) =>
    /\ phase = "run" => \E m, j : /\ PairOf(m, j) /\ ChainRun(program, m, j)
                                  /\ Reached(program, Kept, m, j)
    /\ phase = "done" /\ point # Nowhere =>
         \E m, j : PairOf(m, j) /\ result = ChainOutcome(program, Kept, m, j)

\* The pair stays while the mutant is executed.
LEMMA PairStays ==
  ASSUME NEW m, NEW j, UNCHANGED << program, mutator, point, env >>
  PROVE  Kept' = Kept /\ (PairOf(m, j)' <=> PairOf(m, j))
<1>1. Kept' = Kept
  BY DEF Kept, Keeps, Operand, Going
<1>2. PairOf(m, j)' <=> PairOf(m, j)
  BY DEF PairOf, Paired, Matches
<1> QED BY <1>1, <1>2

\* It is kept.
LEMMA ChainInvStep ==
  ASSUME PointInv, ChainInv, [Next]_vars
  PROVE  ChainInv'
<1>1. CASE GetMutations
  <2>1. phase' = "apply" \/ (phase' = "done" /\ point' = point /\ phase = "search")
    BY <1>1 DEF GetMutations
  <2>2. phase' = "done" => point' = Nowhere
    BY <2>1 DEF PointInv
  <2> QED BY <2>1, <2>2 DEF ChainInv
<1>2. CASE ApplyMutation
  <2> SUFFICES ASSUME program.context = "if", IsChain(program)
               PROVE  \E m, j : /\ PairOf(m, j)' /\ ChainRun(program, m, j)'
                                /\ Reached(program, Kept, m, j)'
    <3>1. phase' = "run" /\ UNCHANGED program
      BY <1>2 DEF ApplyMutation
    <3> QED BY <3>1 DEF ChainInv
  <2>1. PICK p : p = program
    OBVIOUS
  <2>2. /\ UNCHANGED << program, mutator, point, env, value >> /\ phase = "apply" /\ phase' = "run"
        /\ function' = IF mutator = "AndToOr" THEN ApplyLogicalAndToOr(function, point)
                       ELSE ApplyLogicalOrToAnd(function, point)
        /\ at' = Head(function.order)
    BY <1>2 DEF ApplyMutation
  <2>3. /\ p \in Program /\ function = p.function /\ point \in Points(p.function)
        /\ mutator \in {"AndToOr", "OrToAnd"} /\ env \in [Atom -> BOOLEAN] /\ value = env
    BY <2>1, <2>2 DEF PointInv
  <2>4. ChainFacts(p) /\ Verified(p.function)
    BY <2>1, <2>3, ChainShape, LogicalMutatorsAssumption
  <2>5. PICK m \in 1 .. Len(p.operand), j \in 1 .. Len(p.operand) :
          point = AtomOf(p, m) /\ Paired(p, m, j) /\ ChainMutant(p, m, j, function')
    BY <2>2, <2>3, <2>4, ChainApplied
  <2>6. m < j /\ Len(p.operand) \in Nat
    BY <2>4, <2>5 DEF Paired, ChainFacts
  <2>7. PairOf(m, j)
    BY <2>1, <2>5 DEF PairOf
  <2>8. ChainRun(program, m, j)'
    BY <2>1, <2>2, <2>3, <2>4, <2>5, <2>6 DEF ChainRun
  <2>9. at' = Node(p, 1)
    <3>1. p.function.order \in Seq(Blocks(p.function))
      BY <2>4 DEF Verified, FunctionType
    <3>2. /\ Len(p.function.order) = Len(p.operand) + 2 /\ Len(p.operand) >= 2
          /\ \A i \in 1 .. Len(p.operand) : p.function.order[i] = AtomOf(p, i)
      BY <2>4 DEF ChainFacts
    <3>3. p.function.order[1] = AtomOf(p, 1) /\ Node(p, 1) = AtomOf(p, 1)
      BY <2>6, <3>2 DEF Node
    <3> QED BY <2>2, <2>3, <2>6, <3>1, <3>2, <3>3
  <2>10. Sofar(Kept, m, j, 1)
    BY <2>5, <2>6, SofarStep
  <2>11. Reached(program, Kept, m, j)'
    <3>1. Kept' = Kept
      BY <2>2, PairStays
    <3>2. \E i \in 1 .. Len(p.operand) + 1 : at' = Node(p, i) /\ Sofar(Kept, m, j, i)
      BY <2>6, <2>9, <2>10
    <3>3. PICK K : K = Kept
      OBVIOUS
    <3>4. Reached(p, K, m, j)'
      BY <3>2, <3>3 DEF Reached
    <3> QED BY <2>1, <2>2, <3>1, <3>3, <3>4
  <2> QED BY <2>2, <2>7, <2>8, <2>11, PairStays
<1>3. CASE Execute
  <2>1. phase = "run" /\ UNCHANGED << program, mutator, point, env >>
    BY <1>3 DEF Execute
  <2> SUFFICES ASSUME program.context = "if", IsChain(program)
               PROVE  /\ phase' = "run" => \E m, j : /\ PairOf(m, j)' /\ ChainRun(program, m, j)'
                                                     /\ Reached(program, Kept, m, j)'
                      /\ phase' = "done" =>
                          \E m, j : PairOf(m, j)' /\ result' = ChainOutcome(program, Kept, m, j)'
    BY <2>1 DEF ChainInv
  <2>2. PICK m, j : PairOf(m, j) /\ ChainRun(program, m, j) /\ Reached(program, Kept, m, j)
    BY <2>1 DEF ChainInv
  <2>3. PICK p, K : p = program /\ K = Kept
    OBVIOUS
  <2>4. /\ UNCHANGED << program, mutator, function, point, env, value >>
        /\ \/ phase' = "run" /\ Reached(p, K, m, j)'
           \/ phase' = "done" /\ result' = ChainOutcome(p, K, m, j)
    BY <1>3, <2>2, <2>3, ChainReaches
  <2>5. Kept' = K /\ PairOf(m, j)' /\ p = program'
    BY <2>1, <2>2, <2>3, PairStays
  <2>6. phase' = "run" => ChainRun(program, m, j)'
    BY <2>2, <2>4 DEF ChainRun
  <2>7. ChainOutcome(program, Kept, m, j)' = ChainOutcome(p, K, m, j)
    BY <2>5 DEF ChainOutcome
  <2>8. Reached(p, K, m, j)' => Reached(program, Kept, m, j)'
    BY <2>5 DEF Reached
  <2> QED BY <2>4, <2>5, <2>6, <2>7, <2>8
<1>4. CASE UNCHANGED vars
  BY <1>4, PairStays DEF vars, ChainInv, ChainRun, Reached
<1> QED BY <1>1, <1>2, <1>3, <1>4 DEF Next, Done

\* The hypotheses of ChainMutantIsLocal about negations pair an operand with the next one.
LEMMA NextOperand ==
  ASSUME NEW p, ChainFacts(p), NEW m, NEW j, Paired(p, m, j),
         \A i \in 1 .. Len(p.operand) : p.operand[i].neg => i = 1 \/ Len(p.operand) = 2
  PROVE  j = m + 1
<1>1. /\ m \in 1 .. Len(p.operand) /\ j \in m + 1 .. Len(p.operand) /\ Len(p.operand) \in Nat
      /\ \A i \in 1 .. Len(p.operand) : p.operand[i].neg \in BOOLEAN
  BY DEF Paired, ChainFacts
<1> SUFFICES ASSUME j # m + 1 PROVE FALSE
  OBVIOUS
<1>2. /\ m + 1 \in m + 1 .. j - 1 /\ Len(p.operand) # 2 /\ m + 1 # 1 /\ j # 1
      /\ m + 1 \in 1 .. Len(p.operand) /\ j \in 1 .. Len(p.operand)
  BY <1>1
<1>3. p.operand[m + 1].neg = FALSE /\ p.operand[j].neg = FALSE
  BY <1>1, <1>2
<1>4. GoesLeft(p, m + 1) <=> GoesLeft(p, j)
  BY <1>3 DEF GoesLeft
<1>5. ~Matches(p, m + 1) /\ Matches(p, j)
  BY <1>2 DEF Paired
<1> QED BY <1>4, <1>5 DEF Matches

\* What the mutant of neighbouring operands computes.
LEMMA LocalOutcome ==
  ASSUME NEW m, NEW n, n = Len(program.operand), ChainFacts(program), m \in 1 .. n, m + 1 \in 1 .. n,
         DOMAIN program.operand = 1 .. n, NEW op, op = program.ops[1]
  PROVE  ChainOutcome(program, Kept, m, m + 1) <=>
           ((IF op = "and" THEN /\ Operand(m) \/ Operand(m + 1)
                                /\ \A i \in DOMAIN program.operand \ {m, m + 1} : Operand(i)
             ELSE \/ Operand(m) /\ Operand(m + 1)
                  \/ \E i \in DOMAIN program.operand \ {m, m + 1} : Operand(i)) # program.neg)
<1>1. program.neg \in BOOLEAN /\ n \in Nat
  BY DEF ChainFacts
<1>2. m .. m + 1 = {m, m + 1} /\ m + 1 .. m + 1 = {m + 1}
  BY <1>1
<1>3. \A l \in 1 .. n : l \in Kept <=> (Operand(l) <=> op = "and")
  BY DEF Kept, Keeps, Going
<1>4. Undecided(Kept, n, m, m + 1) <=>
        /\ \A l \in 1 .. n \ {m, m + 1} : l \in Kept
        /\ m \in Kept \/ m + 1 \in Kept
  BY <1>2 DEF Undecided
<1>5. CASE op = "and"
  <2>1. Undecided(Kept, n, m, m + 1) <=>
          /\ Operand(m) \/ Operand(m + 1)
          /\ \A i \in DOMAIN program.operand \ {m, m + 1} : Operand(i)
    BY <1>3, <1>4, <1>5
  <2>2. ChainOutcome(program, Kept, m, m + 1) <=> (Undecided(Kept, n, m, m + 1) <=> ~program.neg)
    BY <1>5 DEF ChainOutcome, Going
  <2> QED BY <1>1, <1>5, <2>1, <2>2
<1>6. CASE op # "and"
  <2>1. ~Undecided(Kept, n, m, m + 1) <=>
          \/ Operand(m) /\ Operand(m + 1)
          \/ \E i \in DOMAIN program.operand \ {m, m + 1} : Operand(i)
    BY <1>3, <1>4, <1>6
  <2>2. ChainOutcome(program, Kept, m, m + 1) <=> (~Undecided(Kept, n, m, m + 1) <=> ~program.neg)
    BY <1>6 DEF ChainOutcome, Going
  <2> QED BY <1>1, <1>6, <2>1, <2>2
<1> QED BY <1>5, <1>6

-----------------------------------------------------------------------------
(* A condition whose operands are merged.                                  *)

\* The names of its blocks.
MergeNames(p) ==
  LET n == Len(p.operand)
      f == p.function
  IN  /\ n \in Nat /\ n >= 2 /\ p.neg \in BOOLEAN /\ p.context \in {"value", "while"}
      /\ p.ops \in Seq({"and", "or"}) /\ Len(p.ops) = n - 1
      /\ \A i \in 1 .. n : /\ AtomOf(p, i) \in Atom /\ AtomOf(p, i) \in Blocks(f)
                           /\ AtomOf(p, i) \notin {"true", "yes", "no", Nowhere}
                           /\ p.operand[i] = Literal(AtomOf(p, i), p.operand[i].neg)
                           /\ p.operand[i].neg \in BOOLEAN
                           /\ f.order[i] = AtomOf(p, i)
      /\ \A i \in 1 .. n - 1 : MergeOf(p, i) \in Blocks(f) /\ MergeOf(p, i) # "true"
      /\ \A i, j \in 1 .. n : AtomOf(p, i) = AtomOf(p, j) => i = j
      /\ \A i, j \in 1 .. n - 1 : MergeOf(p, i) = MergeOf(p, j) => i = j
      /\ \A i \in 1 .. n, j \in 1 .. n - 1 : AtomOf(p, i) # MergeOf(p, j)
      /\ p.context = "while" =>
           /\ "yes" \in Blocks(f) /\ "no" \in Blocks(f)
           /\ \A i \in 1 .. n - 1 : MergeOf(p, i) # "yes" /\ MergeOf(p, i) # "no"

\* Where they are.
MergeOrder(p) ==
  LET n == Len(p.operand)
      f == p.function
  IN  /\ f.order \in Seq(Blocks(f))
      /\ \A i, j \in DOMAIN f.order : f.order[i] = f.order[j] => i = j
      /\ DOMAIN f.order = 1 .. IF p.context = "value" THEN 2 * n - 1 ELSE 2 * n + 1
      /\ \A i \in n + 1 .. 2 * n - 1 : f.order[i] = MergeOf(p, 2 * n - i)
      /\ p.context = "while" => f.order[2 * n] = "yes" /\ f.order[2 * n + 1] = "no"
      /\ \A b \in Blocks(f) : \E i \in DOMAIN f.order : f.order[i] = b

\* The left target of operand i, of operator op, is the next operand.
OnwardLeft(p, op, i) == op = "and" <=> ~p.operand[i].neg

JumpTo(b) == Terminator("jump", Bool(TRUE), b, Nowhere)
ValueFrom(v, from) == [value |-> v, block |-> from]

\* The value of what is on the right of operand i, and where it comes from.
FromRight(p, i) ==
  IF i = Len(p.operand) - 1 THEN ValueFrom(p.operand[Len(p.operand)], AtomOf(p, Len(p.operand)))
  ELSE ValueFrom(Literal(MergeOf(p, i + 1), FALSE), MergeOf(p, i + 1))

\* f evaluates the condition p with the operators ops.
MergeShape(p, ops, f) ==
  LET n == Len(p.operand) IN
  /\ \A i \in 1 .. n : f.block[AtomOf(p, i)].phi = << >>
  /\ \A i \in 1 .. n - 1 :
       /\ f.block[AtomOf(p, i)].term =
            Terminator("branch", Literal(AtomOf(p, i), FALSE),
                       IF OnwardLeft(p, ops[i], i) THEN AtomOf(p, i + 1) ELSE MergeOf(p, i),
                       IF OnwardLeft(p, ops[i], i) THEN MergeOf(p, i) ELSE AtomOf(p, i + 1))
       /\ f.block[MergeOf(p, i)].phi =
            << ValueFrom(Bool(ops[i] = "or"), AtomOf(p, i)), FromRight(p, i) >>
       /\ i > 1 => f.block[MergeOf(p, i)].term = JumpTo(MergeOf(p, i - 1))
  /\ f.block[AtomOf(p, n)].term = JumpTo(MergeOf(p, n - 1))
  /\ p.context = "value" => f.block[MergeOf(p, 1)].term.kind = "return"
  /\ p.context = "while" =>
       /\ f.block[MergeOf(p, 1)].term =
            Terminator("branch", Literal(MergeOf(p, 1), p.neg), "yes", "no")
       /\ f.block["yes"].phi = << >> /\ f.block["yes"].term = ReturnOf(TRUE).term
       /\ f.block["no"].phi = << >> /\ f.block["no"].term = ReturnOf(FALSE).term

\* The blocks of a merged condition are where the lowering puts them.
LEMMA MergeIsNamed ==
  ASSUME NEW p \in Program, MergesOperands(p), p.context # "if"
  PROVE  MergeNames(p) /\ MergeOrder(p)
<1> DEFINE n == Len(p.operand)
           f == p.function
           X == [atom : Atom, neg : BOOLEAN]
<1>1. Verified(f) /\ Condition(p) /\ "true" \notin Blocks(f)
  BY LogicalMutatorsAssumption
<1>2. /\ p.operand \in Seq(X) /\ n >= 2 /\ p.neg \in BOOLEAN
      /\ n \in Nat /\ p.ops \in Seq({"and", "or"}) /\ Len(p.ops) = n - 1
      /\ p.context \in {"value", "while"}
  BY <1>1 DEF Condition
<1>3. \A i \in 1 .. n : p.operand[i] \in X
  <2> HIDE DEF X
  <2> QED BY <1>2, ElementOfSeq, Zenon
<1>4. \A i \in 1 .. n : /\ AtomOf(p, i) \in Atom /\ p.operand[i].neg \in BOOLEAN
                        /\ p.operand[i] = Literal(AtomOf(p, i), p.operand[i].neg)
                        /\ AtomOf(p, i) \notin {"true", "yes", "no", Nowhere}
  BY <1>3, LogicalMutatorsAssumption DEF AtomOf, Literal
<1>5. \A i \in 1 .. n : f.order[i] = AtomOf(p, i)
  BY DEF MergesOperands, AtomOf
<1>6. /\ p.context = "value" => Len(f.order) = 2 * n - 1
      /\ p.context = "while" => /\ Len(f.order) = 2 * n + 1 /\ f.order[2 * n] = "yes"
                                /\ f.order[2 * n + 1] = "no"
  BY DEF MergesOperands
<1>7. /\ f.order \in Seq(Blocks(f))
      /\ \A i, j \in DOMAIN f.order : f.order[i] = f.order[j] => i = j
      /\ \A b \in Blocks(f) : \E i \in DOMAIN f.order : f.order[i] = b
  BY <1>1 DEF Verified, FunctionType
<1>8. DOMAIN f.order = 1 .. IF p.context = "value" THEN 2 * n - 1 ELSE 2 * n + 1
  BY <1>2, <1>6, <1>7
<1>9. /\ \A i \in 1 .. 2 * n - 1 : i \in DOMAIN f.order
      /\ p.context = "while" => 2 * n \in DOMAIN f.order /\ 2 * n + 1 \in DOMAIN f.order
  BY <1>2, <1>8
<1>10. \A i \in 1 .. n - 1 : MergeOf(p, i) = f.order[2 * n - i] /\ 2 * n - i \in n + 1 .. 2 * n - 1
  BY <1>2 DEF MergeOf
<1>11. \A i \in n + 1 .. 2 * n - 1 : f.order[i] = MergeOf(p, 2 * n - i)
  <2> SUFFICES ASSUME NEW i \in n + 1 .. 2 * n - 1 PROVE f.order[i] = MergeOf(p, 2 * n - i)
    OBVIOUS
  <2>1. 2 * n - (2 * n - i) = i
    BY <1>2
  <2> QED BY <2>1 DEF MergeOf
<1>12. MergeOrder(p)
  BY <1>6, <1>7, <1>8, <1>11 DEF MergeOrder
<1>13. \A i \in DOMAIN f.order : f.order[i] \in Blocks(f)
  BY <1>7
<1>14. \A i \in 1 .. n : AtomOf(p, i) \in Blocks(f)
  BY <1>2, <1>5, <1>9, <1>13
<1>15. \A i \in 1 .. n - 1 : MergeOf(p, i) \in Blocks(f) /\ MergeOf(p, i) # "true"
  BY <1>1, <1>2, <1>9, <1>10, <1>13
<1>a. /\ \A i \in 1 .. n : i \in DOMAIN f.order
      /\ \A i \in 1 .. n - 1 : 2 * n - i \in DOMAIN f.order
  <2>1. \A i \in 1 .. n : i \in 1 .. 2 * n - 1
    BY <1>2
  <2>2. \A i \in 1 .. n - 1 : 2 * n - i \in 1 .. 2 * n - 1
    BY <1>2
  <2> QED BY <1>9, <2>1, <2>2, Zenon
<1>16. \A i, j \in 1 .. n : AtomOf(p, i) = AtomOf(p, j) => i = j
  BY <1>5, <1>7, <1>a, Zenon
<1>17. \A i, j \in 1 .. n - 1 : MergeOf(p, i) = MergeOf(p, j) => i = j
  <2> SUFFICES ASSUME NEW i \in 1 .. n - 1, NEW j \in 1 .. n - 1, MergeOf(p, i) = MergeOf(p, j)
               PROVE  i = j
    OBVIOUS
  <2>1. f.order[2 * n - i] = f.order[2 * n - j]
    BY <1>10, Zenon
  <2>2. 2 * n - i = 2 * n - j
    BY <1>7, <1>a, <2>1, Zenon
  <2> QED BY <1>2, <2>2
<1>18. \A i \in 1 .. n, j \in 1 .. n - 1 : AtomOf(p, i) # MergeOf(p, j)
  <2> SUFFICES ASSUME NEW i \in 1 .. n, NEW j \in 1 .. n - 1, AtomOf(p, i) = MergeOf(p, j)
               PROVE  FALSE
    OBVIOUS
  <2>1. i \in DOMAIN f.order /\ 2 * n - j \in DOMAIN f.order
    BY <1>2, <1>9, <1>10
  <2>2. i = 2 * n - j
    BY <1>5, <1>7, <1>10, <2>1
  <2> QED BY <1>2, <2>2
<1>19. ASSUME p.context = "while"
       PROVE  /\ "yes" \in Blocks(f) /\ "no" \in Blocks(f)
              /\ \A i \in 1 .. n - 1 : MergeOf(p, i) # "yes" /\ MergeOf(p, i) # "no"
  <2>1. "yes" \in Blocks(f) /\ "no" \in Blocks(f)
    BY <1>6, <1>9, <1>13, <1>19
  <2> SUFFICES ASSUME NEW i \in 1 .. n - 1 PROVE MergeOf(p, i) # "yes" /\ MergeOf(p, i) # "no"
    BY <2>1
  <2>2. 2 * n - i \in DOMAIN f.order /\ 2 * n - i # 2 * n /\ 2 * n - i # 2 * n + 1
    BY <1>2, <1>9, <1>10
  <2>3. f.order[2 * n - i] # f.order[2 * n] /\ f.order[2 * n - i] # f.order[2 * n + 1]
    BY <1>7, <1>9, <1>19, <2>2
  <2> QED BY <1>6, <1>10, <1>19, <2>3
<1>20. MergeNames(p)
  BY <1>2, <1>4, <1>5, <1>14, <1>15, <1>16, <1>17, <1>18, <1>19 DEF MergeNames
<1> QED BY <1>12, <1>20

\* The blocks of a merged condition evaluate it.
LEMMA MergeIsShaped ==
  ASSUME NEW p \in Program, MergesOperands(p), p.context # "if"
  PROVE  MergeShape(p, p.ops, p.function)
<1> DEFINE n == Len(p.operand)
           f == p.function
<1>1. MergeNames(p)
  BY MergeIsNamed
<1>2. /\ n \in Nat /\ n >= 2 /\ p.context \in {"value", "while"}
  BY <1>1 DEF MergeNames
<1>3. ASSUME NEW i \in 1 .. n - 1
      PROVE  /\ IF p.ops[i] = "and" THEN BranchesTo(p, i, AtomOf(p, i + 1), MergeOf(p, i))
                ELSE BranchesTo(p, i, MergeOf(p, i), AtomOf(p, i + 1))
             /\ f.block[MergeOf(p, i)].phi =
                  << ValueFrom(Bool(p.ops[i] = "or"), AtomOf(p, i)), FromRight(p, i) >>
             /\ i > 1 => f.block[MergeOf(p, i)].term = JumpTo(MergeOf(p, i - 1))
             /\ i = 1 /\ p.context = "value" => f.block[MergeOf(p, i)].term.kind = "return"
             /\ i = 1 /\ p.context = "while" => f.block[MergeOf(p, i)].term =
                  Terminator("branch", Literal(MergeOf(p, 1), p.neg), "yes", "no")
  <2>1. IF p.ops[i] = "and" THEN BranchesTo(p, i, AtomOf(p, i + 1), MergeOf(p, i))
                ELSE BranchesTo(p, i, MergeOf(p, i), AtomOf(p, i + 1))
    BY Zenon DEF MergesOperands, AtomOf
  <2>2. PICK phi, term :
          /\ phi = << ValueFrom(Bool(p.ops[i] = "or"), AtomOf(p, i)), FromRight(p, i) >>
          /\ term = (CASE i > 1 -> Terminator("jump", Bool(TRUE), MergeOf(p, i - 1), Nowhere)
                       [] i = 1 /\ p.context = "value" ->
                            Terminator("return", Literal(MergeOf(p, 1), p.neg), Nowhere, Nowhere)
                       [] i = 1 /\ p.context = "while" ->
                            Terminator("branch", Literal(MergeOf(p, 1), p.neg), "yes", "no"))
    OBVIOUS
  <2>3. f.block[MergeOf(p, i)] = BlockOf(phi, term)
    BY <2>2 DEF MergesOperands, AtomOf, FromRight, ValueFrom
  <2>4. f.block[MergeOf(p, i)].phi = phi /\ f.block[MergeOf(p, i)].term = term
    BY <2>3 DEF BlockOf
  <2>5. ASSUME i > 1 PROVE term = JumpTo(MergeOf(p, i - 1))
    <3>1. i # 1
      BY <2>5
    <3> QED BY <2>2, <2>5, <3>1, Zenon DEF JumpTo
  <2>6. i = 1 /\ p.context = "value" => term.kind = "return"
    BY <1>2, <2>2 DEF Terminator
  <2>7. i = 1 /\ p.context = "while" =>
          term = Terminator("branch", Literal(MergeOf(p, 1), p.neg), "yes", "no")
    BY <1>2, <2>2
  <2> QED BY <2>1, <2>2, <2>4, <2>5, <2>6, <2>7
<1>4. f.block[AtomOf(p, n)] = BlockOf(<< >>, JumpTo(MergeOf(p, n - 1)))
  BY DEF MergesOperands, AtomOf, JumpTo
<1>5. f.block[AtomOf(p, n)].phi = << >> /\ f.block[AtomOf(p, n)].term = JumpTo(MergeOf(p, n - 1))
  BY <1>4 DEF BlockOf
<1>6. ASSUME NEW i \in 1 .. n - 1
      PROVE  f.block[AtomOf(p, i)] =
               BlockOf(<< >>, Terminator("branch", Literal(AtomOf(p, i), FALSE),
                       IF OnwardLeft(p, p.ops[i], i) THEN AtomOf(p, i + 1) ELSE MergeOf(p, i),
                       IF OnwardLeft(p, p.ops[i], i) THEN MergeOf(p, i) ELSE AtomOf(p, i + 1)))
  <2>1. i \in 1 .. n
    BY <1>2
  <2>2. p.operand[i].neg \in BOOLEAN
    BY <1>1, <2>1 DEF MergeNames
  <2>3. IF p.ops[i] = "and" THEN BranchesTo(p, i, AtomOf(p, i + 1), MergeOf(p, i))
                ELSE BranchesTo(p, i, MergeOf(p, i), AtomOf(p, i + 1))
    BY <1>3
  <2>4. CASE p.ops[i] = "and"
    BY <2>2, <2>3, <2>4 DEF BranchesTo, OnwardLeft, AtomOf
  <2>5. CASE p.ops[i] # "and"
    BY <2>2, <2>3, <2>5 DEF BranchesTo, OnwardLeft, AtomOf
  <2> QED BY <2>4, <2>5
<1>7. \A i \in 1 .. n - 1 :
        /\ f.block[AtomOf(p, i)].phi = << >>
        /\ f.block[AtomOf(p, i)].term = Terminator("branch", Literal(AtomOf(p, i), FALSE),
                       IF OnwardLeft(p, p.ops[i], i) THEN AtomOf(p, i + 1) ELSE MergeOf(p, i),
                       IF OnwardLeft(p, p.ops[i], i) THEN MergeOf(p, i) ELSE AtomOf(p, i + 1))
  <2>1. \A t : BlockOf(<< >>, t).phi = << >> /\ BlockOf(<< >>, t).term = t
    BY DEF BlockOf
  <2> QED BY <1>6, <2>1, Zenon
<1>8. \A i \in 1 .. n : f.block[AtomOf(p, i)].phi = << >>
  <2>1. \A i \in 1 .. n : i = n \/ i \in 1 .. n - 1
    BY <1>2
  <2> QED BY <1>5, <1>7, <2>1
<1>9. p.context = "while" =>
        /\ f.block["yes"].phi = << >> /\ f.block["yes"].term = ReturnOf(TRUE).term
        /\ f.block["no"].phi = << >> /\ f.block["no"].term = ReturnOf(FALSE).term
  <2>1. p.context = "while" => f.block["yes"] = ReturnOf(TRUE) /\ f.block["no"] = ReturnOf(FALSE)
    BY DEF MergesOperands, Ends
  <2>2. ReturnOf(TRUE).phi = << >> /\ ReturnOf(FALSE).phi = << >>
    BY DEF ReturnOf, BlockOf
  <2> QED BY <2>1, <2>2
<1>10. 1 \in 1 .. n - 1
  BY <1>2
<1> QED BY <1>3, <1>5, <1>7, <1>8, <1>9, <1>10 DEF MergeShape

\* The branch of operand i of a merged condition.
LEMMA MergeBranch ==
  ASSUME NEW p, NEW ops, NEW f, MergeShape(p, ops, f), NEW i \in 1 .. Len(p.operand) - 1
  PROVE  /\ f.block[AtomOf(p, i)].term.kind = "branch"
         /\ f.block[AtomOf(p, i)].term.left =
              IF OnwardLeft(p, ops[i], i) THEN AtomOf(p, i + 1) ELSE MergeOf(p, i)
         /\ f.block[AtomOf(p, i)].term.right =
              IF OnwardLeft(p, ops[i], i) THEN MergeOf(p, i) ELSE AtomOf(p, i + 1)
<1>1. PICK l, r : /\ l = IF OnwardLeft(p, ops[i], i) THEN AtomOf(p, i + 1) ELSE MergeOf(p, i)
                  /\ r = IF OnwardLeft(p, ops[i], i) THEN MergeOf(p, i) ELSE AtomOf(p, i + 1)
  OBVIOUS
<1>2. f.block[AtomOf(p, i)].term = Terminator("branch", Literal(AtomOf(p, i), FALSE), l, r)
  BY <1>1, Zenon DEF MergeShape
<1>3. PICK v : v = Literal(AtomOf(p, i), FALSE)
  OBVIOUS
<1>4. /\ Terminator("branch", v, l, r).kind = "branch" /\ Terminator("branch", v, l, r).left = l
      /\ Terminator("branch", v, l, r).right = r
  BY DEF Terminator
<1> QED BY <1>1, <1>2, <1>3, <1>4, Zenon

\* Two operands that are merged share no target and do not match.
LEMMA MergedOperandsDiffer ==
  ASSUME NEW p, MergeNames(p), MergeShape(p, p.ops, p.function),
         NEW m \in 1 .. Len(p.operand) - 1, NEW j \in 1 .. Len(p.operand) - 1, m # j
  PROVE  Pattern(p.function, AtomOf(p, m), AtomOf(p, j)) = 0
<1> DEFINE n == Len(p.operand)
           f == p.function
           b == AtomOf(p, m)
           c == AtomOf(p, j)
<1>1. n \in Nat /\ m + 1 \in 1 .. n /\ j + 1 \in 1 .. n /\ m + 1 # j + 1 /\ j \in 1 .. n
  BY DEF MergeNames
<1>2. PICK am, aj, mm, mj : /\ am = AtomOf(p, m + 1) /\ aj = AtomOf(p, j + 1)
                            /\ mm = MergeOf(p, m) /\ mj = MergeOf(p, j)
  OBVIOUS
<1>3. am # aj
  BY <1>1, <1>2, Zenon DEF MergeNames
<1>4. mm # mj
  BY <1>2, Zenon DEF MergeNames
<1>5. am # mj /\ aj # mm
  BY <1>1, <1>2 DEF MergeNames
<1>6. ~MergesOther(f, b, c)
  <2>1. f.block[c].phi = << >>
    BY <1>1, Zenon DEF MergeShape
  <2> QED BY <2>1 DEF MergesOther, Range
<1>7. /\ f.block[b].term.left = IF OnwardLeft(p, p.ops[m], m) THEN am ELSE mm
      /\ f.block[b].term.right = IF OnwardLeft(p, p.ops[m], m) THEN mm ELSE am
      /\ f.block[c].term.left = IF OnwardLeft(p, p.ops[j], j) THEN aj ELSE mj
      /\ f.block[c].term.right = IF OnwardLeft(p, p.ops[j], j) THEN mj ELSE aj
  BY <1>2, MergeBranch
<1>8. PICK bl, br, cl, cr : /\ bl = f.block[b].term.left /\ br = f.block[b].term.right
                            /\ cl = f.block[c].term.left /\ cr = f.block[c].term.right
  OBVIOUS
<1>9. bl \in {am, mm} /\ br \in {am, mm} /\ cl \in {aj, mj} /\ cr \in {aj, mj}
  BY <1>7, <1>8
<1>10. AND_OR_Pattern(f, b, c) = 0
  BY <1>3, <1>4, <1>5, <1>6, <1>8, <1>9 DEF AND_OR_Pattern
<1>11. OR_AND_Pattern(f, b, c) = 0
  BY <1>3, <1>4, <1>5, <1>6, <1>8, <1>9 DEF OR_AND_Pattern
<1> QED BY <1>10, <1>11 DEF Pattern

\* The mutator looks for the merging of the first operand.
MergeMatches(p) == OnwardLeft(p, p.ops[1], 1) <=> mutator = "AndToOr"

\* Only the first operand matches the branch on the merged value.
LEMMA MergePattern ==
  ASSUME NEW p, MergeNames(p), MergeShape(p, p.ops, p.function), p.context = "while",
         NEW m \in 1 .. Len(p.operand) - 1
  PROVE  Pattern(p.function, AtomOf(p, m), MergeOf(p, 1)) =
           IF m = 1 /\ MergeMatches(p) THEN 3 ELSE 0
<1>0. PICK n : n = Len(p.operand)
  OBVIOUS
<1> DEFINE f == p.function
           b == AtomOf(p, m)
           c == MergeOf(p, 1)
<1>1. n \in Nat /\ n >= 2 /\ m + 1 \in 1 .. n /\ 1 \in 1 .. n - 1 /\ 1 \in 1 .. n
  BY <1>0 DEF MergeNames
<1>2. PICK am, mm : am = AtomOf(p, m + 1) /\ mm = MergeOf(p, m)
  OBVIOUS
<1>3. am # "yes" /\ am # "no" /\ mm # "yes" /\ mm # "no"
  BY <1>0, <1>1, <1>2 DEF MergeNames
<1>4. am # c /\ (mm = c <=> m = 1)
  BY <1>0, <1>1, <1>2 DEF MergeNames
<1>5. f.block[c].term.left = "yes" /\ f.block[c].term.right = "no"
  <2>1. f.block[c].term = Terminator("branch", Literal(c, p.neg), "yes", "no")
    BY <1>0, Zenon DEF MergeShape
  <2> QED BY <2>1 DEF Terminator
<1>6. /\ f.block[b].term.left = IF OnwardLeft(p, p.ops[m], m) THEN am ELSE mm
      /\ f.block[b].term.right = IF OnwardLeft(p, p.ops[m], m) THEN mm ELSE am
  BY <1>0, <1>2, MergeBranch
<1>7. m = 1 => MergesOther(f, b, c)
  <2> SUFFICES ASSUME m = 1 PROVE MergesOther(f, b, c)
    OBVIOUS
  <2>1. PICK v, w : v = ValueFrom(Bool(p.ops[1] = "or"), AtomOf(p, 1)) /\ w = FromRight(p, 1)
    OBVIOUS
  <2>2. f.block[c].phi = << v, w >>
    BY <1>0, <1>1, <2>1, Zenon DEF MergeShape
  <2>3. w.block # b
    <3>1. CASE n = 2
      <4>1. w.block = AtomOf(p, n)
        BY <1>0, <2>1, <3>1 DEF FromRight, ValueFrom
      <4>2. n \in 1 .. n /\ n # 1
        BY <1>1
      <4> QED BY <1>0, <1>1, <4>1, <4>2 DEF MergeNames
    <3>2. CASE n # 2
      <4>1. 1 # n - 1 /\ 2 \in 1 .. n - 1 /\ 1 + 1 = 2
        BY <1>1, <3>2
      <4>2. w.block = MergeOf(p, 2)
        BY <1>0, <2>1, <4>1 DEF FromRight, ValueFrom
      <4> QED BY <1>0, <1>1, <4>1, <4>2 DEF MergeNames
    <3> QED BY <3>1, <3>2
  <2>4. w \in Range(f.block[c].phi)
    <3>1. << v, w >>[2] = w /\ 2 \in DOMAIN << v, w >>
      OBVIOUS
    <3> QED BY <2>2, <3>1 DEF Range
  <2> QED BY <2>3, <2>4 DEF MergesOther
<1>8. PICK bl, br, cl, cr : /\ bl = f.block[b].term.left /\ br = f.block[b].term.right
                            /\ cl = f.block[c].term.left /\ cr = f.block[c].term.right
  OBVIOUS
<1>9. cl \notin {bl, br} /\ cr \notin {bl, br}
  BY <1>3, <1>5, <1>6, <1>8
<1>10. AND_OR_Pattern(f, b, c) = IF MergesOther(f, b, c) /\ c = br THEN 3 ELSE 0
  BY <1>8, <1>9 DEF AND_OR_Pattern
<1>11. OR_AND_Pattern(f, b, c) = IF MergesOther(f, b, c) /\ c = bl THEN 3 ELSE 0
  BY <1>8, <1>9 DEF OR_AND_Pattern
<1>12. /\ c = br <=> m = 1 /\ OnwardLeft(p, p.ops[1], 1)
       /\ c = bl <=> m = 1 /\ ~OnwardLeft(p, p.ops[1], 1)
  BY <1>4, <1>6, <1>8
<1> QED BY <1>7, <1>10, <1>11, <1>12 DEF Pattern, MergeMatches

\* A merged condition has a point only if it is branched on, its first operand.
LEMMA MergePoints ==
  ASSUME NEW p, MergeNames(p), MergeOrder(p), MergeShape(p, p.ops, p.function)
  PROVE  /\ \A b \in Points(p.function) :
              /\ b = AtomOf(p, 1) /\ p.context = "while"
              /\ SecondBranch(p.function, b) = MergeOf(p, 1)
              /\ Pattern(p.function, b, MergeOf(p, 1)) = 3
         /\ p.context = "while" => (AtomOf(p, 1) \in Points(p.function) <=> MergeMatches(p))
<1>0. PICK n : n = Len(p.operand)
  OBVIOUS
<1> DEFINE f == p.function
<1>1. /\ n \in Nat /\ n >= 2 /\ p.context \in {"value", "while"}
      /\ \A i \in 1 .. n : AtomOf(p, i) \in Blocks(f) /\ f.order[i] = AtomOf(p, i)
      /\ \A i \in 1 .. n - 1 : MergeOf(p, i) \in Blocks(f)
  BY <1>0 DEF MergeNames
<1>2. /\ f.order \in Seq(Blocks(f))
      /\ \A i, j \in DOMAIN f.order : f.order[i] = f.order[j] => i = j
      /\ DOMAIN f.order = 1 .. IF p.context = "value" THEN 2 * n - 1 ELSE 2 * n + 1
      /\ \A i \in n + 1 .. 2 * n - 1 : f.order[i] = MergeOf(p, 2 * n - i)
      /\ p.context = "while" => f.order[2 * n] = "yes" /\ f.order[2 * n + 1] = "no"
      /\ \A b \in Blocks(f) : \E i \in DOMAIN f.order : f.order[i] = b
  BY <1>0 DEF MergeOrder
<1>3. \A i \in 1 .. n - 1 : IsBranch(f, AtomOf(p, i))
  BY <1>0, MergeBranch DEF IsBranch
<1>4. ~IsBranch(f, AtomOf(p, n))
  BY <1>0 DEF IsBranch, MergeShape, JumpTo, Terminator
<1>5. \A i \in 2 .. n - 1 : ~IsBranch(f, MergeOf(p, i))
  <2> SUFFICES ASSUME NEW i \in 2 .. n - 1 PROVE f.block[MergeOf(p, i)].term.kind = "jump"
    BY DEF IsBranch
  <2>1. i \in 1 .. n - 1 /\ i > 1
    BY <1>1
  <2>2. f.block[MergeOf(p, i)].term = JumpTo(MergeOf(p, i - 1))
    BY <1>0, <2>1, Zenon DEF MergeShape
  <2> QED BY <2>2 DEF JumpTo, Terminator
<1>6. IsBranch(f, MergeOf(p, 1)) <=> p.context = "while"
  <2>1. p.context = "value" => f.block[MergeOf(p, 1)].term.kind = "return"
    BY <1>0, Zenon DEF MergeShape
  <2>2. p.context = "while" => f.block[MergeOf(p, 1)].term =
            Terminator("branch", Literal(MergeOf(p, 1), p.neg), "yes", "no")
    BY <1>0, Zenon DEF MergeShape
  <2>3. p.context = "while" => f.block[MergeOf(p, 1)].term.kind = "branch"
    BY <2>2 DEF Terminator
  <2> QED BY <1>1, <2>1, <2>3 DEF IsBranch
<1>7. p.context = "while" => ~IsBranch(f, "yes") /\ ~IsBranch(f, "no")
  BY <1>0 DEF IsBranch, MergeShape, ReturnOf, BlockOf, Terminator
<1>8. ASSUME NEW i \in DOMAIN f.order, IsBranch(f, f.order[i])
      PROVE  i \in 1 .. n - 1 \/ (p.context = "while" /\ i = 2 * n - 1 /\ f.order[i] = MergeOf(p, 1))
  <2>1. CASE i \in 1 .. n
    <3>1. i # n
      BY <1>1, <1>4, <1>8, <2>1
    <3> QED BY <1>1, <2>1, <3>1
  <2>2. CASE i \in n + 1 .. 2 * n - 1
    <3>1. f.order[i] = MergeOf(p, 2 * n - i)
      BY <1>2, <2>2
    <3>2. 2 * n - i \in 1 .. n - 1
      BY <1>1, <2>2
    <3>3. 2 * n - i = 1 \/ 2 * n - i \in 2 .. n - 1
      BY <1>1, <3>2
    <3>4. 2 * n - i = 1
      BY <1>5, <1>8, <3>1, <3>3, Zenon
    <3>5. i = 2 * n - 1
      BY <1>1, <2>2, <3>4
    <3> QED BY <1>6, <1>8, <3>1, <3>4, <3>5
  <2>3. CASE i > 2 * n - 1
    <3>a. i \in 1 .. (IF p.context = "value" THEN 2 * n - 1 ELSE 2 * n + 1)
      BY <1>2
    <3>b. p.context # "value"
      BY <1>1, <2>3, <3>a
    <3>c. i \in 1 .. 2 * n + 1
      BY <3>a, <3>b
    <3>1. p.context = "while" /\ (i = 2 * n \/ i = 2 * n + 1)
      BY <1>1, <2>3, <3>b, <3>c
    <3> QED BY <1>2, <1>7, <1>8, <3>1
  <2>4. i \in Nat /\ i >= 1
    BY <1>1, <1>2
  <2> QED BY <1>1, <2>1, <2>2, <2>3, <2>4
<1>9. ASSUME NEW i \in DOMAIN f.order PROVE Position(f, f.order[i]) = i
  BY <1>2 DEF Position
<1>10. Len(f.order) = IF p.context = "value" THEN 2 * n - 1 ELSE 2 * n + 1
  <2>1. PICK k \in Nat : k = IF p.context = "value" THEN 2 * n - 1 ELSE 2 * n + 1
    BY <1>1
  <2>2. DOMAIN f.order = 1 .. k /\ f.order \in Seq(Blocks(f))
    BY <1>2, <2>1
  <2> QED BY <2>1, <2>2
<1>11. ASSUME NEW m \in 1 .. n - 1
       PROVE  /\ Candidates(f, AtomOf(p, m)) \subseteq {2 * n - 1}
              /\ Candidates(f, AtomOf(p, m)) # {} => p.context = "while" /\ m = 1 /\ MergeMatches(p)
              /\ p.context = "while" /\ m = 1 /\ MergeMatches(p) =>
                   2 * n - 1 \in Candidates(f, AtomOf(p, m))
  <2>1. m \in 1 .. n /\ m \in DOMAIN f.order /\ 2 * n - 1 \in m + 1 .. Len(f.order)
    BY <1>1, <1>2, <1>10
  <2>2. Position(f, AtomOf(p, m)) = m
    BY <1>1, <1>9, <2>1
  <2>3. ASSUME NEW i \in Candidates(f, AtomOf(p, m))
        PROVE  p.context = "while" /\ i = 2 * n - 1 /\ m = 1 /\ MergeMatches(p)
    <3>1. /\ i \in m + 1 .. Len(f.order) /\ IsBranch(f, f.order[i])
          /\ Pattern(f, AtomOf(p, m), f.order[i]) # 0
      BY <2>2 DEF Candidates
    <3>2. i \in DOMAIN f.order /\ i # m
      BY <1>1, <1>2, <3>1
    <3>3. CASE i \in 1 .. n - 1
      <4>1. i \in 1 .. n
        BY <1>1, <3>3
      <4>2. f.order[i] = AtomOf(p, i)
        BY <1>1, <4>1
      <4>3. Pattern(f, AtomOf(p, m), AtomOf(p, i)) = 0
        BY <1>0, <3>2, <3>3, MergedOperandsDiffer
      <4> QED BY <3>1, <4>2, <4>3
    <3>4. CASE p.context = "while" /\ i = 2 * n - 1 /\ f.order[i] = MergeOf(p, 1)
      <4>1. Pattern(f, AtomOf(p, m), MergeOf(p, 1)) = IF m = 1 /\ MergeMatches(p) THEN 3 ELSE 0
        BY <1>0, <3>4, MergePattern
      <4> QED BY <3>1, <3>4, <4>1
    <3> QED BY <1>8, <3>1, <3>2, <3>3, <3>4
  <2>4. ASSUME p.context = "while", m = 1, MergeMatches(p)
        PROVE  2 * n - 1 \in Candidates(f, AtomOf(p, m))
    <3>1. f.order[2 * n - 1] = MergeOf(p, 1)
      <4>1. 2 * n - 1 \in n + 1 .. 2 * n - 1 /\ 2 * n - (2 * n - 1) = 1
        BY <1>1
      <4> QED BY <1>2, <4>1
    <3>2. Pattern(f, AtomOf(p, m), MergeOf(p, 1)) = 3
      BY <1>0, <2>4, MergePattern
    <3>3. IsBranch(f, f.order[2 * n - 1]) /\ Pattern(f, AtomOf(p, m), f.order[2 * n - 1]) # 0
      BY <1>6, <2>4, <3>1, <3>2
    <3> QED BY <2>1, <2>2, <3>3, Zenon DEF Candidates
  <2> QED BY <2>3, <2>4
<1>12. ASSUME p.context = "while" PROVE Candidates(f, MergeOf(p, 1)) = {}
  <2>1. 2 * n - 1 \in DOMAIN f.order /\ f.order[2 * n - 1] = MergeOf(p, 1)
    <3>1. 2 * n - 1 \in n + 1 .. 2 * n - 1 /\ 2 * n - (2 * n - 1) = 1
      BY <1>1
    <3>2. f.order[2 * n - 1] = MergeOf(p, 1)
      BY <1>2, <3>1
    <3> QED BY <1>1, <1>2, <3>2
  <2>2. Position(f, MergeOf(p, 1)) = 2 * n - 1
    BY <1>9, <2>1
  <2> SUFFICES ASSUME NEW i \in Candidates(f, MergeOf(p, 1)) PROVE FALSE
    OBVIOUS
  <2>3. i \in (2 * n - 1) + 1 .. Len(f.order) /\ IsBranch(f, f.order[i])
    BY <2>2 DEF Candidates
  <2>4. i = 2 * n \/ i = 2 * n + 1
    BY <1>1, <1>10, <1>12, <2>3
  <2> QED BY <1>2, <1>7, <1>12, <2>3, <2>4
<1>13. ASSUME NEW b \in Points(f)
       PROVE  /\ b = AtomOf(p, 1) /\ p.context = "while" /\ MergeMatches(p)
              /\ SecondBranch(f, b) = MergeOf(p, 1) /\ Pattern(f, b, MergeOf(p, 1)) = 3
  <2>1. b \in Blocks(f) /\ IsBranch(f, b) /\ Candidates(f, b) # {}
    BY DEF Points, Blocks
  <2>2. PICK m \in DOMAIN f.order : f.order[m] = b
    BY <1>2, <2>1
  <2>3. m \in 1 .. n - 1
    BY <1>8, <1>12, <2>1, <2>2
  <2>4. b = AtomOf(p, m)
    <3>1. m \in 1 .. n
      BY <1>1, <2>3
    <3> QED BY <1>1, <2>2, <3>1
  <2>5. p.context = "while" /\ m = 1 /\ MergeMatches(p) /\ Candidates(f, b) = {2 * n - 1}
    BY <1>11, <2>1, <2>3, <2>4
  <2>6. Min({2 * n - 1}) = 2 * n - 1
    <3>1. {2 * n - 1} \in SUBSET Nat
      BY <1>1
    <3> QED BY <3>1, MinIs
  <2>7. f.order[2 * n - 1] = MergeOf(p, 1)
    <3>1. 2 * n - 1 \in n + 1 .. 2 * n - 1 /\ 2 * n - (2 * n - 1) = 1
      BY <1>1
    <3> QED BY <1>2, <3>1
  <2>8. SecondBranch(f, b) = MergeOf(p, 1)
    BY <2>5, <2>6, <2>7 DEF SecondBranch
  <2>9. Pattern(f, b, MergeOf(p, 1)) = 3
    BY <1>0, <2>3, <2>4, <2>5, MergePattern
  <2> QED BY <2>4, <2>5, <2>8, <2>9
<1>14. ASSUME p.context = "while", MergeMatches(p) PROVE AtomOf(p, 1) \in Points(f)
  <2>1. 1 \in 1 .. n - 1 /\ 1 \in 1 .. n
    BY <1>1
  <2>2. Candidates(f, AtomOf(p, 1)) # {}
    BY <1>11, <1>14, <2>1
  <2> QED BY <1>1, <1>3, <2>1, <2>2 DEF Points, Blocks
<1> QED BY <1>13, <1>14

\* The operators with the first one replaced.
FirstSwapped(p) == [p.ops EXCEPT ![1] = Dual(p.ops[1])]

\* The value that a constant operand brings, negated.
LEMMA NegatedPhi ==
  ASSUME NEW t \in BOOLEAN, NEW from, NEW second
  PROVE  FirstNegated(<< ValueFrom(Bool(t), from), second >>) = << ValueFrom(Bool(~t), from), second >>
<1>1. PICK v : v = ValueFrom(Bool(t), from)
  OBVIOUS
<1>2. v = [value |-> [atom |-> "true", neg |-> ~t], block |-> from]
  BY <1>1 DEF ValueFrom, Bool, Literal
<1>3. Not(v.value) = [atom |-> "true", neg |-> t]
  <2>1. PICK x : x = v.value
    OBVIOUS
  <2>2. PICK g \in BOOLEAN : g = ~t
    OBVIOUS
  <2>3. x = [atom |-> "true", neg |-> g]
    BY <1>2, <2>1, <2>2
  <2>4. x.atom = "true" /\ (~x.neg) = t
    BY <2>2, <2>3
  <2>5. Not(x) = Literal("true", t)
    BY <2>4 DEF Not
  <2> QED BY <2>1, <2>5 DEF Literal
<1>4. [v EXCEPT !.value = Not(v.value)] = ValueFrom(Bool(~t), from)
  BY <1>2, <1>3 DEF ValueFrom, Bool, Literal
<1>5. PICK w : w = ValueFrom(Bool(~t), from)
  OBVIOUS
<1>6. << v, second >>[1] = v
  OBVIOUS
<1>7. FirstNegated(<< v, second >>) = [<< v, second >> EXCEPT ![1] = w]
  BY <1>4, <1>5, <1>6 DEF FirstNegated
<1>8. [<< v, second >> EXCEPT ![1] = w] = << w, second >>
  OBVIOUS
<1> QED BY <1>1, <1>5, <1>7, <1>8

\* The mutant of a merged condition is the lowering of the condition with the other operator.
LEMMA MergeMutant ==
  ASSUME NEW p, MergeNames(p), MergeShape(p, p.ops, p.function), p.context = "while",
         Verified(p.function), NEW h, Exchange(p.function, AtomOf(p, 1), MergeOf(p, 1),
                     FirstNegated(p.function.block[MergeOf(p, 1)].phi), h)
  PROVE  MergeShape(p, FirstSwapped(p), h)
<1>0. PICK n : n = Len(p.operand)
  OBVIOUS
<1> DEFINE f == p.function
<1>1. /\ n \in Nat /\ n >= 2 /\ p.ops \in Seq({"and", "or"}) /\ Len(p.ops) = n - 1
      /\ \A i \in 1 .. n : /\ AtomOf(p, i) \in Blocks(f) /\ p.operand[i].neg \in BOOLEAN
                           /\ AtomOf(p, i) # "yes" /\ AtomOf(p, i) # "no"
      /\ \A i \in 1 .. n - 1 : /\ MergeOf(p, i) \in Blocks(f)
                               /\ MergeOf(p, i) # "yes" /\ MergeOf(p, i) # "no"
      /\ \A i, j \in 1 .. n : AtomOf(p, i) = AtomOf(p, j) => i = j
      /\ \A i, j \in 1 .. n - 1 : MergeOf(p, i) = MergeOf(p, j) => i = j
      /\ \A i \in 1 .. n, j \in 1 .. n - 1 : AtomOf(p, i) # MergeOf(p, j)
      /\ "yes" \in Blocks(f) /\ "no" \in Blocks(f)
  BY <1>0 DEF MergeNames
<1>2. 1 \in 1 .. n - 1 /\ 1 \in 1 .. n
  BY <1>1
<1>3. PICK a, c, q : /\ a = AtomOf(p, 1) /\ c = MergeOf(p, 1) /\ q = FirstNegated(f.block[c].phi)
  OBVIOUS
<1>4. /\ \A x \in Blocks(f) : h.block[x].phi = IF x = c THEN q ELSE f.block[x].phi
      /\ \A x \in Blocks(f) : x # a => h.block[x].term = f.block[x].term
      /\ h.block[a].term = [kind |-> "branch", value |-> f.block[a].term.value,
                            left |-> f.block[a].term.right, right |-> f.block[a].term.left]
  BY <1>3, Zenon DEF Exchange
<1>5. PICK D : D = FirstSwapped(p)
  OBVIOUS
<1>6. D[1] = Dual(p.ops[1]) /\ \A i \in 1 .. n - 1 : i # 1 => D[i] = p.ops[i]
  BY <1>1, <1>2, <1>5 DEF FirstSwapped
<1>7. p.ops[1] \in {"and", "or"}
  BY <1>1, <1>2
<1>8. (D[1] = "and" <=> p.ops[1] # "and") /\ (D[1] = "or" <=> p.ops[1] # "or")
  BY <1>6, <1>7 DEF Dual
<1>9. \A i \in 1 .. n : h.block[AtomOf(p, i)].phi = << >>
  <2> SUFFICES ASSUME NEW i \in 1 .. n PROVE h.block[AtomOf(p, i)].phi = << >>
    OBVIOUS
  <2>1. f.block[AtomOf(p, i)].phi = << >>
    BY <1>0, Zenon DEF MergeShape
  <2>2. AtomOf(p, i) # c /\ AtomOf(p, i) \in Blocks(f)
    BY <1>1, <1>2, <1>3
  <2> QED BY <1>4, <2>1, <2>2
<1>10. ASSUME NEW i \in 1 .. n - 1
       PROVE  h.block[AtomOf(p, i)].term =
            Terminator("branch", Literal(AtomOf(p, i), FALSE),
                       IF OnwardLeft(p, D[i], i) THEN AtomOf(p, i + 1) ELSE MergeOf(p, i),
                       IF OnwardLeft(p, D[i], i) THEN MergeOf(p, i) ELSE AtomOf(p, i + 1))
  <2>1. PICK v, l, r :
          /\ v = Literal(AtomOf(p, i), FALSE)
          /\ l = IF OnwardLeft(p, p.ops[i], i) THEN AtomOf(p, i + 1) ELSE MergeOf(p, i)
          /\ r = IF OnwardLeft(p, p.ops[i], i) THEN MergeOf(p, i) ELSE AtomOf(p, i + 1)
    OBVIOUS
  <2>2. f.block[AtomOf(p, i)].term = Terminator("branch", v, l, r)
    BY <1>0, <2>1, Zenon DEF MergeShape
  <2>3. i \in 1 .. n
    BY <1>1
  <2>4. CASE i # 1
    <3>1. AtomOf(p, i) # a /\ AtomOf(p, i) \in Blocks(f)
      BY <1>1, <1>2, <1>3, <2>3, <2>4
    <3>2. h.block[AtomOf(p, i)].term = f.block[AtomOf(p, i)].term
      BY <1>4, <3>1
    <3> QED BY <1>6, <2>1, <2>2, <2>4, <3>2
  <2>5. CASE i = 1
    <3>1. OnwardLeft(p, D[1], 1) <=> ~OnwardLeft(p, p.ops[1], 1)
      BY <1>1, <1>2, <1>8 DEF OnwardLeft
    <3>2. f.block[a].term.value = v /\ f.block[a].term.left = l /\ f.block[a].term.right = r
      BY <1>3, <2>2, <2>5 DEF Terminator
    <3>3. h.block[a].term = Terminator("branch", v, r, l)
      BY <1>4, <3>2 DEF Terminator
    <3> QED BY <1>3, <2>1, <2>5, <3>1, <3>3
  <2> QED BY <2>4, <2>5
<1>11. ASSUME NEW i \in 1 .. n - 1
       PROVE  h.block[MergeOf(p, i)].phi =
                << ValueFrom(Bool(D[i] = "or"), AtomOf(p, i)), FromRight(p, i) >>
  <2>1. f.block[MergeOf(p, i)].phi =
            << ValueFrom(Bool(p.ops[i] = "or"), AtomOf(p, i)), FromRight(p, i) >>
    BY <1>0, Zenon DEF MergeShape
  <2>2. CASE i # 1
    <3>1. MergeOf(p, i) # c /\ MergeOf(p, i) \in Blocks(f)
      BY <1>1, <1>2, <1>3, <2>2
    <3> QED BY <1>4, <1>6, <2>1, <2>2, <3>1
  <2>3. CASE i = 1
    <3>1. PICK t \in BOOLEAN : t = (p.ops[1] = "or")
      OBVIOUS
    <3>2. (D[1] = "or") = ~t
      BY <1>8, <3>1
    <3>3. f.block[c].phi = << ValueFrom(Bool(t), a), FromRight(p, 1) >>
      BY <1>3, <2>1, <2>3, <3>1
    <3>4. q = << ValueFrom(Bool(~t), a), FromRight(p, 1) >>
      BY <1>3, <3>3, NegatedPhi
    <3>5. h.block[c].phi = q
      BY <1>1, <1>2, <1>3, <1>4
    <3> QED BY <1>3, <2>3, <3>2, <3>4, <3>5
  <2> QED BY <2>2, <2>3
<1>12. \A i \in 1 .. n - 1 : /\ MergeOf(p, i) # a
                             /\ h.block[MergeOf(p, i)].term = f.block[MergeOf(p, i)].term
  BY <1>1, <1>2, <1>3, <1>4
<1>13. ASSUME NEW i \in 1 .. n - 1, i > 1
       PROVE  h.block[MergeOf(p, i)].term = JumpTo(MergeOf(p, i - 1))
  <2>1. f.block[MergeOf(p, i)].term = JumpTo(MergeOf(p, i - 1))
    BY <1>0, <1>13, Zenon DEF MergeShape
  <2> QED BY <1>12, <2>1
<1>14. h.block[AtomOf(p, n)].term = JumpTo(MergeOf(p, n - 1))
  <2>1. n \in 1 .. n /\ n # 1
    BY <1>1
  <2>2. AtomOf(p, n) # a /\ AtomOf(p, n) \in Blocks(f)
    BY <1>1, <1>2, <1>3, <2>1
  <2>3. f.block[AtomOf(p, n)].term = JumpTo(MergeOf(p, n - 1))
    BY <1>0, Zenon DEF MergeShape
  <2> QED BY <1>4, <2>2, <2>3
<1>15. h.block[MergeOf(p, 1)].term =
         Terminator("branch", Literal(MergeOf(p, 1), p.neg), "yes", "no")
  <2>1. f.block[MergeOf(p, 1)].term =
         Terminator("branch", Literal(MergeOf(p, 1), p.neg), "yes", "no")
    BY <1>0, Zenon DEF MergeShape
  <2> QED BY <1>2, <1>12, <2>1
<1>16. /\ h.block["yes"].phi = << >> /\ h.block["yes"].term = ReturnOf(TRUE).term
       /\ h.block["no"].phi = << >> /\ h.block["no"].term = ReturnOf(FALSE).term
  <2>1. /\ f.block["yes"].phi = << >> /\ f.block["yes"].term = ReturnOf(TRUE).term
        /\ f.block["no"].phi = << >> /\ f.block["no"].term = ReturnOf(FALSE).term
    BY <1>0, Zenon DEF MergeShape
  <2>2. a # "yes" /\ a # "no" /\ c # "yes" /\ c # "no"
    BY <1>1, <1>2, <1>3
  <2> QED BY <1>1, <1>4, <2>1, <2>2
<1> QED BY <1>0, <1>5, <1>9, <1>10, <1>11, <1>13, <1>14, <1>15, <1>16 DEF MergeShape

-----------------------------------------------------------------------------
(* What a merged condition means, and what its mutant computes.            *)

\* F has the value of the condition from every operand on; O are the true operands.
Evaluates(F, ops, O, n) ==
  /\ F \in [1 .. n -> BOOLEAN] /\ F[n] = (n \in O)
  /\ \A i \in 1 .. n - 1 : F[i] = Combine(ops[i], i \in O, F[i + 1])

\* There is such a function: a condition has the value of the operand that decides it.
LEMMA ShortCircuit ==
  ASSUME NEW n \in Nat, n >= 1, NEW ops, NEW O
  PROVE  \E F : Evaluates(F, ops, O, n)
<1> DEFINE Holds(i) == \E d \in i .. n :
             /\ d \in O /\ (d = n \/ ops[d] # "and")
             /\ \A j \in i .. d - 1 : ~(j \in O <=> ops[j] # "and")
           F == [i \in 1 .. n |-> Holds(i)]
<1>1. F \in [1 .. n -> BOOLEAN]
  OBVIOUS
<1>2. Holds(n) <=> n \in O
  OBVIOUS
<1>3. ASSUME NEW i \in 1 .. n - 1 PROVE Holds(i) <=> Combine(ops[i], i \in O, Holds(i + 1))
  <2>1. ASSUME Holds(i + 1), ~(i \in O <=> ops[i] # "and") PROVE Holds(i)
    <3>1. PICK d \in i + 1 .. n :
             /\ d \in O /\ (d = n \/ ops[d] # "and")
             /\ \A j \in i + 1 .. d - 1 : ~(j \in O <=> ops[j] # "and")
      BY <2>1
    <3>2. d \in i .. n
      OBVIOUS
    <3>3. \A j \in i .. d - 1 : j = i \/ j \in i + 1 .. d - 1
      OBVIOUS
    <3>4. \A j \in i .. d - 1 : ~(j \in O <=> ops[j] # "and")
      BY <2>1, <3>1, <3>3
    <3> QED BY <3>1, <3>2, <3>4
  <2>2. ASSUME i \in O, ops[i] # "and" PROVE Holds(i)
    <3>1. i \in i .. n /\ \A j \in i .. i - 1 : FALSE
      OBVIOUS
    <3> QED BY <2>2, <3>1
  <2>3. ASSUME Holds(i) PROVE (i \in O /\ ops[i] # "and") \/ (Holds(i + 1) /\ ~(i \in O <=> ops[i] # "and"))
    <3>1. PICK d \in i .. n :
             /\ d \in O /\ (d = n \/ ops[d] # "and")
             /\ \A j \in i .. d - 1 : ~(j \in O <=> ops[j] # "and")
      BY <2>3
    <3>2. CASE d = i
      BY <3>1, <3>2
    <3>3. CASE d # i
      <4>1. d \in i + 1 .. n /\ i \in i .. d - 1 /\ \A j \in i + 1 .. d - 1 : j \in i .. d - 1
        BY <3>3
      <4> QED BY <3>1, <4>1
    <3> QED BY <3>2, <3>3
  <2> HIDE DEF Holds
  <2> QED BY <2>1, <2>2, <2>3 DEF Combine
<1>4. \A i \in 1 .. n : F[i] \in BOOLEAN /\ (F[i] <=> Holds(i))
  OBVIOUS
<1>5. \A i \in 1 .. n - 1 : i \in 1 .. n /\ i + 1 \in 1 .. n
  OBVIOUS
<1> HIDE DEF Holds, F
<1>6. F[n] = (n \in O)
  <2>1. F[n] \in BOOLEAN /\ (F[n] <=> n \in O)
    BY <1>2, <1>4
  <2> QED BY <2>1
<1>7. ASSUME NEW i \in 1 .. n - 1 PROVE F[i] = Combine(ops[i], i \in O, F[i + 1])
  <2>1. /\ F[i] \in BOOLEAN /\ F[i + 1] \in BOOLEAN
        /\ (F[i] <=> Holds(i)) /\ (F[i + 1] <=> Holds(i + 1))
    BY <1>4, <1>5
  <2>2. F[i] <=> Combine(ops[i], i \in O, F[i + 1])
    BY <1>3, <2>1 DEF Combine
  <2> QED BY <2>1, <2>2 DEF Combine
<1>8. Evaluates(F, ops, O, n)
  BY <1>1, <1>6, <1>7 DEF Evaluates
<1> QED BY <1>8

\* The true operands.
TrueOperands(n) == {i \in 1 .. n : Operand(i)}

\* Meaning is the value from the first operand on.
LEMMA MeaningIs ==
  ASSUME NEW ops, NEW n \in Nat, n >= 1, n = Len(ops) + 1
  PROVE  \E F : /\ Evaluates(F, ops, TrueOperands(n), n)
                /\ Meaning(ops) = (F[1] # program.neg)
<1>1. PICK O : O = TrueOperands(n)
  OBVIOUS
<1>2. \A i \in 1 .. n : (i \in O) = Operand(i)
  <2>1. \A i : Operand(i) \in BOOLEAN
    BY DEF Operand
  <2> QED BY <1>1, <2>1 DEF TrueOperands
<1>3. PICK k : Evaluates(k, ops, O, n)
  BY ShortCircuit
<1> DEFINE Fix(g) == g = [i \in 1 .. n |->
                            IF i = n THEN Operand(i) ELSE Combine(ops[i], Operand(i), g[i + 1])]
           F == CHOOSE g : Fix(g)
<1>4. Fix(k)
  <2>1. k = [i \in 1 .. n |-> k[i]]
    BY <1>3 DEF Evaluates
  <2>2. ASSUME NEW i \in 1 .. n
        PROVE  k[i] = IF i = n THEN Operand(i) ELSE Combine(ops[i], Operand(i), k[i + 1])
    <3>1. CASE i = n
      BY <1>2, <1>3, <3>1 DEF Evaluates
    <3>2. CASE i # n
      <4>1. i \in 1 .. n - 1
        BY <3>2
      <4>2. k[i] = Combine(ops[i], i \in O, k[i + 1])
        BY <1>3, <4>1 DEF Evaluates
      <4> QED BY <1>2, <3>2, <4>2
    <3> QED BY <3>1, <3>2
  <2> QED BY <2>1, <2>2, Zenon
<1>5. Fix(F)
  <2> HIDE DEF Fix
  <2> QED BY <1>4
<1>6. Meaning(ops) = (F[1] # program.neg)
  BY DEF Meaning
<1>7. PICK g : g = F /\ Fix(g)
  BY <1>5
<1> HIDE DEF F
<1>8. /\ DOMAIN g = 1 .. n
      /\ \A i \in 1 .. n :
           g[i] = IF i = n THEN Operand(i) ELSE Combine(ops[i], Operand(i), g[i + 1])
  BY <1>7, Zenon
<1>9. Evaluates(g, ops, O, n)
  <2>1. \A i \in 1 .. n - 1 : i \in 1 .. n /\ i # n
    OBVIOUS
  <2>2. n \in 1 .. n
    OBVIOUS
  <2>3. \A i \in 1 .. n - 1 : g[i] = Combine(ops[i], i \in O, g[i + 1])
    BY <1>2, <1>8, <2>1, Zenon
  <2>4. g[n] = (n \in O)
    BY <1>2, <1>8, <2>2, Zenon
  <2>5. \A i \in 1 .. n : g[i] \in BOOLEAN
    <3>1. \A i \in 1 .. n : i = n \/ i \in 1 .. n - 1
      OBVIOUS
    <3>3. g[n] \in BOOLEAN
      BY <2>4
    <3>4. ASSUME NEW i \in 1 .. n - 1 PROVE g[i] \in BOOLEAN
      <4>1. g[i] = Combine(ops[i], i \in O, g[i + 1])
        BY <2>3
      <4> QED BY <4>1 DEF Combine
    <3> QED BY <3>1, <3>3, <3>4, Zenon
  <2>6. g \in [1 .. n -> BOOLEAN]
    <3>1. g = [i \in 1 .. n |-> g[i]]
      BY <1>7, <1>8
    <3> QED BY <2>5, <3>1
  <2> QED BY <2>3, <2>4, <2>6 DEF Evaluates
<1> QED BY <1>1, <1>6, <1>7, <1>9

\* The condition is the same from every operand up to i on.
Same(F, i) == \A l \in 1 .. i : F[l] = F[i]

\* The state in which the mutant of a merged condition is executed.
MergeRun(p, ops) ==
  /\ p = program /\ MergeNames(p) /\ p.context = "while" /\ phase = "run"
  /\ MergeShape(p, ops, function) /\ env \in [Atom -> BOOLEAN]
  /\ \A i \in 1 .. Len(p.operand) - 1 : ops[i] \in {"and", "or"}

\* The atoms keep their truth.
AtomsStay(p) ==
  \A i \in 1 .. Len(p.operand) :
    AtomOf(p, i) \in DOMAIN value /\ value[AtomOf(p, i)] = env[AtomOf(p, i)]

\* How far it is.
MergeReached(p, F) ==
  /\ AtomsStay(p)
  /\ \/ \E i \in 1 .. Len(p.operand) : at = AtomOf(p, i) /\ Same(F, i)
     \/ \E i \in 1 .. Len(p.operand) - 1 :
          at = MergeOf(p, i) /\ Same(F, i) /\ value[MergeOf(p, i)] = F[i]
     \/ at = "yes" /\ F[1] # p.neg
     \/ at = "no" /\ F[1] = p.neg

\* A branch and a jump are executed.
LEMMA StepIsTaken ==
  ASSUME Execute, NEW kind, kind \in {"branch", "jump"}, NEW v, NEW left, NEW right,
         function.block[at].term = Terminator(kind, v, left, right)
  PROVE  LET next == IF kind = "branch" /\ ~IsTrue(v, value) THEN right ELSE left IN
         /\ at' = next /\ value' = Incoming(next, at)
         /\ UNCHANGED << program, mutator, function, point, env, phase, result >>
<1>1. PICK t : t = function.block[at].term
  OBVIOUS
<1>2. t.kind = kind /\ t.value = v /\ t.left = left /\ t.right = right
  BY <1>1 DEF Terminator
<1>3. PICK next : next = IF kind = "branch" /\ ~IsTrue(v, value) THEN right ELSE left
  OBVIOUS
<1>4. at' = next /\ value' = Incoming(next, at) /\ UNCHANGED << phase, result >>
  BY <1>1, <1>2, <1>3 DEF Execute
<1>5. UNCHANGED << program, mutator, function, point, env >>
  BY DEF Execute
<1> QED BY <1>3, <1>4, <1>5

\* What the values are when block b has the value t.
Valued(b, t) == [a \in DOMAIN value \union {b} |-> IF a = b THEN t ELSE value[a]]

\* A merging block is entered.
LEMMA MergeEntered ==
  ASSUME NEW b, NEW from, NEW v, NEW w, function.block[b].phi = << v, w >>, v.block # w.block,
         NEW x, (x = v \/ x = w), x.block = from
  PROVE  Incoming(b, from) = Valued(b, IsTrue(x.value, value))
<1>1. PICK phi : phi = << v, w >> /\ DOMAIN phi = {1, 2} /\ phi[1] = v /\ phi[2] = w
  OBVIOUS
<1>2. PICK known : known = EntriesFor(function, b, from)
  OBVIOUS
<1>3. known = {i \in {1, 2} : phi[i].block = from}
  BY <1>1, <1>2 DEF EntriesFor
<1>4. \E i \in {1, 2} : known = {i} /\ phi[i] = x
  <2>1. CASE x = v
    <3>1. known = {1}
      BY <1>1, <1>3, <2>1
    <3> QED BY <1>1, <2>1, <3>1
  <2>2. CASE x = w
    <3>1. known = {2}
      BY <1>1, <1>3, <2>2
    <3> QED BY <1>1, <2>2, <3>1
  <2> QED BY <2>1, <2>2
<1>5. PICK i \in {1, 2} : known = {i} /\ phi[i] = x
  BY <1>4
<1>6. Min(known) = i
  BY <1>5, MinIs
<1>7. phi # << >>
  <2>1. 1 \in DOMAIN phi /\ 1 \notin DOMAIN << >>
    BY <1>1
  <2> QED BY <2>1
<1>8. function.block[b].phi = phi /\ phi[Min(known)] = x /\ known # {}
  BY <1>1, <1>5, <1>6
<1> QED BY <1>2, <1>7, <1>8 DEF Incoming, Valued

\* The atoms stay, and the merging block has its value.
LEMMA MergeValue ==
  ASSUME NEW p, MergeNames(p), AtomsStay(p), NEW i \in 1 .. Len(p.operand) - 1, NEW t,
         UNCHANGED env,
         value' = Valued(MergeOf(p, i), t)
  PROVE  AtomsStay(p)' /\ value'[MergeOf(p, i)] = t
<1>1. value'[MergeOf(p, i)] = t
  BY DEF Valued
<1>2. \A l \in 1 .. Len(p.operand) : AtomOf(p, l) # MergeOf(p, i)
  BY DEF MergeNames
<1>3. \A l \in 1 .. Len(p.operand) :
        AtomOf(p, l) \in DOMAIN value' /\ value'[AtomOf(p, l)] = env[AtomOf(p, l)]
  BY <1>2 DEF AtomsStay, Valued
<1> QED BY <1>1, <1>3 DEF AtomsStay

\* The truth of an operand's atom.
LEMMA AtomIsTrue ==
  ASSUME NEW p, p = program, MergeNames(p), AtomsStay(p), env \in [Atom -> BOOLEAN],
         NEW i \in 1 .. Len(p.operand)
  PROVE  /\ IsTrue(Literal(AtomOf(p, i), FALSE), value) <=> (Operand(i) <=> ~p.operand[i].neg)
         /\ IsTrue(p.operand[i], value) = Operand(i)
<1>1. /\ AtomOf(p, i) \in Atom /\ AtomOf(p, i) # "true" /\ p.operand[i].neg \in BOOLEAN
      /\ p.operand[i] = Literal(AtomOf(p, i), p.operand[i].neg)
  BY DEF MergeNames
<1>2. PICK e : e = env[AtomOf(p, i)] /\ e \in BOOLEAN /\ value[AtomOf(p, i)] = e
  BY <1>1 DEF AtomsStay
<1>3. PICK g : g = p.operand[i].neg /\ g \in BOOLEAN
  BY <1>1
<1>4. Operand(i) = (e # g)
  BY <1>2, <1>3 DEF Operand, AtomOf
<1>5. IsTrue(Literal(AtomOf(p, i), FALSE), value) <=> e
  BY <1>1, <1>2 DEF IsTrue, Literal, Constant
<1>6. IsTrue(Literal(AtomOf(p, i), g), value) = (e # g)
  BY <1>1, <1>2 DEF IsTrue, Literal, Constant
<1>7. IsTrue(p.operand[i], value) = Operand(i)
  BY <1>1, <1>3, <1>4, <1>6
<1>8. Operand(i) <=> ~(e <=> g)
  BY <1>2, <1>3, <1>4
<1> QED BY <1>3, <1>5, <1>7, <1>8

\* The two values a merging block can have come from different blocks.
LEMMA TwoSources ==
  ASSUME NEW p, MergeNames(p), NEW i \in 1 .. Len(p.operand) - 1
  PROVE  /\ FromRight(p, i).block # AtomOf(p, i)
         /\ i = Len(p.operand) - 1 => FromRight(p, i).block = AtomOf(p, Len(p.operand))
         /\ i = Len(p.operand) - 1 => FromRight(p, i).value = p.operand[Len(p.operand)]
         /\ i # Len(p.operand) - 1 => FromRight(p, i).block = MergeOf(p, i + 1)
         /\ i # Len(p.operand) - 1 => FromRight(p, i).value = Literal(MergeOf(p, i + 1), FALSE)
<1>1. PICK n : n = Len(p.operand) /\ n \in Nat /\ n >= 2
  BY DEF MergeNames
<1>2. i \in 1 .. n - 1
  BY <1>1
<1>3. CASE i = n - 1
  <2>1. FromRight(p, i) = [value |-> p.operand[n], block |-> AtomOf(p, n)]
    BY <1>1, <1>3 DEF FromRight, ValueFrom
  <2>2. FromRight(p, i).block = AtomOf(p, n) /\ FromRight(p, i).value = p.operand[n]
    BY <2>1
  <2>3. n \in 1 .. n /\ i \in 1 .. n /\ i # n
    BY <1>1, <1>2, <1>3
  <2>4. AtomOf(p, n) # AtomOf(p, i)
    BY <1>1, <2>3 DEF MergeNames
  <2> QED BY <1>1, <1>3, <2>2, <2>4
<1>4. CASE i # n - 1
  <2>1. FromRight(p, i) = [value |-> Literal(MergeOf(p, i + 1), FALSE), block |-> MergeOf(p, i + 1)]
    BY <1>1, <1>4 DEF FromRight, ValueFrom
  <2>2. FromRight(p, i).block = MergeOf(p, i + 1) /\ FromRight(p, i).value = Literal(MergeOf(p, i + 1), FALSE)
    BY <2>1
  <2>3. i + 1 \in 1 .. n - 1 /\ i \in 1 .. n
    BY <1>1, <1>2, <1>4
  <2>4. MergeOf(p, i + 1) # AtomOf(p, i)
    BY <1>1, <2>3 DEF MergeNames
  <2> QED BY <1>1, <1>4, <2>2, <2>4
<1> QED BY <1>3, <1>4

\* An operand that is not the last one is evaluated.
LEMMA MergeOperandStep ==
  ASSUME NEW p, NEW ops, MergeRun(p, ops), NEW F, Execute, AtomsStay(p),
         Evaluates(F, ops, TrueOperands(Len(p.operand)), Len(p.operand)),
         NEW i \in 1 .. Len(p.operand) - 1, at = AtomOf(p, i), Same(F, i)
  PROVE  /\ UNCHANGED << program, mutator, function, point, env, phase >>
         /\ MergeReached(p, F)'
<1>0. PICK n : n = Len(p.operand)
  OBVIOUS
<1>1. /\ p = program /\ MergeNames(p) /\ MergeShape(p, ops, function) /\ env \in [Atom -> BOOLEAN]
      /\ \A l \in 1 .. n - 1 : ops[l] \in {"and", "or"}
  BY <1>0 DEF MergeRun
<1>2. n \in Nat /\ n >= 2 /\ i \in 1 .. n - 1 /\ i \in 1 .. n /\ i + 1 \in 1 .. n
  BY <1>0, <1>1 DEF MergeNames
<1>3. PICK v, l, r, left : /\ v = Literal(AtomOf(p, i), FALSE) /\ left \in BOOLEAN
                           /\ left = OnwardLeft(p, ops[i], i)
                           /\ l = IF left THEN AtomOf(p, i + 1) ELSE MergeOf(p, i)
                           /\ r = IF left THEN MergeOf(p, i) ELSE AtomOf(p, i + 1)
  BY DEF OnwardLeft
<1>4. function.block[at].term = Terminator("branch", v, l, r)
  BY <1>0, <1>1, <1>2, <1>3 DEF MergeShape
<1>5. PICK next : next = IF ~IsTrue(v, value) THEN r ELSE l
  OBVIOUS
<1>6. /\ at' = next /\ value' = Incoming(next, at)
      /\ UNCHANGED << program, mutator, function, point, env, phase, result >>
  BY <1>4, <1>5, StepIsTaken
<1>7. p.operand[i].neg \in BOOLEAN
  BY <1>0, <1>1, <1>2 DEF MergeNames
<1>8. IsTrue(v, value) <=> (Operand(i) <=> ~p.operand[i].neg)
  BY <1>0, <1>1, <1>2, <1>3, AtomIsTrue
<1>9. left <=> (ops[i] = "and" <=> ~p.operand[i].neg)
  BY <1>3 DEF OnwardLeft
<1>10. next = IF Operand(i) <=> ops[i] = "and" THEN AtomOf(p, i + 1) ELSE MergeOf(p, i)
  BY <1>3, <1>5, <1>7, <1>8, <1>9
<1>11. /\ F[i] = Combine(ops[i], i \in TrueOperands(n), F[i + 1])
       /\ F[i] \in BOOLEAN /\ F[i + 1] \in BOOLEAN
  BY <1>0, <1>2 DEF Evaluates
<1>12. i \in TrueOperands(n) <=> Operand(i)
  BY <1>2 DEF TrueOperands
<1>13. CASE Operand(i) <=> ops[i] = "and"
  <2>1. next = AtomOf(p, i + 1)
    BY <1>10, <1>13
  <2>2. function.block[next].phi = << >>
    BY <1>0, <1>1, <1>2, <2>1 DEF MergeShape
  <2>3. Incoming(next, at) = value
    BY <2>2 DEF Incoming
  <2>4. F[i] = F[i + 1]
    BY <1>11, <1>12, <1>13 DEF Combine
  <2>5. Same(F, i + 1)
    <3>1. \A x \in 1 .. i + 1 : x \in 1 .. i \/ x = i + 1
      BY <1>2
    <3> QED BY <2>4, <3>1 DEF Same
  <2>6. AtomsStay(p)'
    BY <1>6, <2>3 DEF AtomsStay
  <2>7. at' = AtomOf(p, i + 1) /\ i + 1 \in 1 .. Len(p.operand)
    BY <1>0, <1>2, <1>6, <2>1
  <2>8. MergeReached(p, F)'
    BY <2>5, <2>6, <2>7 DEF MergeReached
  <2> QED BY <1>6, <2>8
<1>14. CASE ~(Operand(i) <=> ops[i] = "and")
  <2>1. next = MergeOf(p, i)
    BY <1>10, <1>14
  <2>2. PICK e, w : e = ValueFrom(Bool(ops[i] = "or"), AtomOf(p, i)) /\ w = FromRight(p, i)
    OBVIOUS
  <2>3. function.block[next].phi = << e, w >>
    BY <1>0, <1>1, <1>2, <2>1, <2>2 DEF MergeShape
  <2>4. e.block = at /\ e.value = Bool(ops[i] = "or")
    BY <2>2 DEF ValueFrom
  <2>5. e.block # w.block
    BY <1>0, <1>1, <2>2, <2>4, TwoSources
  <2>6. Incoming(next, at) = Valued(next, IsTrue(e.value, value))
    BY <2>3, <2>4, <2>5, MergeEntered, Zenon
  <2>7. IsTrue(e.value, value) = (ops[i] = "or")
    <3>1. PICK x \in BOOLEAN : x = (ops[i] = "or")
      OBVIOUS
    <3>2. Bool(x).atom = "true" /\ Bool(x).neg = ~x
      BY DEF Bool, Literal
    <3>3. IsTrue(Bool(x), value) = ~~x
      BY <3>2, Zenon DEF IsTrue, Constant
    <3> QED BY <2>4, <3>1, <3>3
  <2>8. F[i] = (ops[i] = "or")
    BY <1>1, <1>2, <1>11, <1>12, <1>14 DEF Combine
  <2>9. PICK t : t = IsTrue(e.value, value)
    OBVIOUS
  <2>10. AtomsStay(p)' /\ value'[MergeOf(p, i)] = t
    BY <1>1, <1>6, <2>1, <2>6, <2>9, MergeValue
  <2>11. value'[MergeOf(p, i)] = F[i]
    BY <2>7, <2>8, <2>9, <2>10
  <2>12. at' = MergeOf(p, i)
    BY <1>6, <2>1
  <2>13. MergeReached(p, F)'
    BY <2>10, <2>11, <2>12 DEF MergeReached
  <2> QED BY <1>6, <2>13
<1> QED BY <1>13, <1>14

\* A value is merged: the last operand's, or the one of what is on the right of operand i.
LEMMA MergeJumpStep ==
  ASSUME NEW p, NEW ops, MergeRun(p, ops), NEW F, Execute, AtomsStay(p),
         NEW i \in 1 .. Len(p.operand) - 1, function.block[at].term = JumpTo(MergeOf(p, i)),
         at = FromRight(p, i).block, IsTrue(FromRight(p, i).value, value) = F[i + 1],
         Same(F, i + 1)
  PROVE  /\ UNCHANGED << program, mutator, function, point, env, phase >>
         /\ MergeReached(p, F)'
<1>0. PICK n : n = Len(p.operand)
  OBVIOUS
<1>1. MergeNames(p) /\ MergeShape(p, ops, function)
  BY DEF MergeRun
<1>2. n \in Nat /\ n >= 2 /\ i \in 1 .. n - 1 /\ i \in 1 .. i + 1
  BY <1>0, <1>1 DEF MergeNames
<1>3. PICK next : next = MergeOf(p, i)
  OBVIOUS
<1>4. /\ at' = next /\ value' = Incoming(next, at)
      /\ UNCHANGED << program, mutator, function, point, env, phase, result >>
  <2>1. PICK v : v = Bool(TRUE)
    OBVIOUS
  <2>2. function.block[at].term = Terminator("jump", v, next, Nowhere)
    BY <1>3, <2>1 DEF JumpTo
  <2> QED BY <2>2, StepIsTaken
<1>5. PICK e, w : e = ValueFrom(Bool(ops[i] = "or"), AtomOf(p, i)) /\ w = FromRight(p, i)
  OBVIOUS
<1>6. function.block[next].phi = << e, w >>
  BY <1>0, <1>1, <1>2, <1>3, <1>5 DEF MergeShape
<1>7. e.block = AtomOf(p, i)
  BY <1>5 DEF ValueFrom
<1>8. e.block # w.block /\ w.block = at
  BY <1>1, <1>5, <1>7, TwoSources
<1>9. Incoming(next, at) = Valued(next, IsTrue(w.value, value))
  <2>1. w = e \/ w = w
    OBVIOUS
  <2> QED BY <1>6, <1>8, <2>1, MergeEntered
<1>10. PICK t : t = IsTrue(w.value, value)
  OBVIOUS
<1>11. AtomsStay(p)' /\ value'[MergeOf(p, i)] = t
  BY <1>1, <1>3, <1>4, <1>9, <1>10, MergeValue
<1>12. t = F[i] /\ Same(F, i)
  <2>1. \A x \in 1 .. i : x \in 1 .. i + 1
    BY <1>2
  <2> QED BY <1>2, <1>5, <1>10, <2>1 DEF Same
<1>13. MergeReached(p, F)'
  BY <1>3, <1>4, <1>11, <1>12 DEF MergeReached
<1> QED BY <1>4, <1>13

\* The merged value is branched on.
LEMMA MergeBranchStep ==
  ASSUME NEW p, NEW ops, MergeRun(p, ops), NEW F, Execute, AtomsStay(p),
         at = MergeOf(p, 1), value[MergeOf(p, 1)] = F[1], F[1] \in BOOLEAN
  PROVE  /\ UNCHANGED << program, mutator, function, point, env, phase >>
         /\ MergeReached(p, F)'
<1>1. MergeNames(p) /\ MergeShape(p, ops, function) /\ p.context = "while"
  BY DEF MergeRun
<1>2. PICK v : v = Literal(MergeOf(p, 1), p.neg)
  OBVIOUS
<1>3. function.block[at].term = Terminator("branch", v, "yes", "no")
  BY <1>1, <1>2 DEF MergeShape
<1>4. function.block["yes"].phi = << >> /\ function.block["no"].phi = << >>
  BY <1>1 DEF MergeShape
<1>5. /\ at' = IF IsTrue(v, value) THEN "yes" ELSE "no"
      /\ UNCHANGED << program, mutator, function, point, env, phase, value, result >>
  BY <1>3, <1>4, BranchIsTaken
<1>6. MergeOf(p, 1) # "true" /\ p.neg \in BOOLEAN
  <2>1. 1 \in 1 .. Len(p.operand) - 1
    BY <1>1 DEF MergeNames
  <2> QED BY <1>1, <2>1 DEF MergeNames
<1>7. IsTrue(v, value) <=> F[1] # p.neg
  <2>1. v.atom = MergeOf(p, 1) /\ v.neg = p.neg
    BY <1>2 DEF Literal
  <2> QED BY <1>6, <2>1 DEF IsTrue, Constant
<1>8. AtomsStay(p)'
  BY <1>5 DEF AtomsStay
<1>9. (at' = "yes" /\ F[1] # p.neg) \/ (at' = "no" /\ F[1] = p.neg)
  BY <1>5, <1>6, <1>7
<1>10. MergeReached(p, F)'
  BY <1>8, <1>9 DEF MergeReached
<1> QED BY <1>5, <1>10

\* A step of the mutant of a merged condition.
LEMMA MergeReaches ==
  ASSUME NEW p, NEW ops, MergeRun(p, ops), NEW F, Execute, MergeReached(p, F),
         Evaluates(F, ops, TrueOperands(Len(p.operand)), Len(p.operand))
  PROVE  /\ UNCHANGED << program, mutator, function, point, env >>
         /\ \/ phase' = "run" /\ MergeReached(p, F)'
            \/ phase' = "done" /\ result' = (F[1] # p.neg)
<1>0. PICK n : n = Len(p.operand)
  OBVIOUS
<1>1. /\ p = program /\ MergeNames(p) /\ MergeShape(p, ops, function) /\ env \in [Atom -> BOOLEAN]
      /\ phase = "run" /\ p.context = "while" /\ AtomsStay(p)
  BY DEF MergeRun, MergeReached
<1>2. n \in Nat /\ n >= 2 /\ p.neg \in BOOLEAN
  BY <1>0, <1>1 DEF MergeNames
<1>3. \A i \in 1 .. n : F[i] \in BOOLEAN
  BY <1>0 DEF Evaluates
<1>4. ASSUME NEW i \in 1 .. n, at = AtomOf(p, i), Same(F, i)
      PROVE  /\ UNCHANGED << program, mutator, function, point, env, phase >>
             /\ MergeReached(p, F)'
  <2>1. CASE i # n
    <3>1. i \in 1 .. Len(p.operand) - 1
      BY <1>0, <1>2, <2>1
    <3> QED BY <1>1, <1>4, <3>1, MergeOperandStep
  <2>2. CASE i = n
    <3>1. PICK k \in 1 .. Len(p.operand) - 1 : k = Len(p.operand) - 1 /\ k + 1 = n
      BY <1>0, <1>2
    <3>2. function.block[at].term = JumpTo(MergeOf(p, k))
      BY <1>0, <1>1, <1>4, <2>2, <3>1 DEF MergeShape
    <3>3. FromRight(p, k).block = at /\ FromRight(p, k).value = p.operand[n]
      BY <1>0, <1>1, <1>4, <2>2, <3>1, TwoSources
    <3>4. IsTrue(p.operand[n], value) = Operand(n)
      BY <1>0, <1>1, <2>2, AtomIsTrue
    <3>5. F[n] = Operand(n)
      <4>1. F[n] = (n \in TrueOperands(n)) /\ Operand(n) \in BOOLEAN
        BY <1>0 DEF Evaluates, Operand
      <4>2. n \in TrueOperands(n) <=> Operand(n)
        BY <2>2 DEF TrueOperands
      <4> QED BY <4>1, <4>2
    <3>6. IsTrue(FromRight(p, k).value, value) = F[k + 1] /\ Same(F, k + 1)
      BY <1>4, <2>2, <3>1, <3>3, <3>4, <3>5
    <3> QED BY <1>1, <3>2, <3>3, <3>6, MergeJumpStep
  <2> QED BY <2>1, <2>2
<1>5. ASSUME NEW i \in 1 .. n - 1, at = MergeOf(p, i), Same(F, i), value[MergeOf(p, i)] = F[i]
      PROVE  /\ UNCHANGED << program, mutator, function, point, env, phase >>
             /\ MergeReached(p, F)'
  <2>1. CASE i = 1
    <3>1. F[1] \in BOOLEAN
      BY <1>2, <1>3
    <3> QED BY <1>1, <1>5, <2>1, <3>1, MergeBranchStep
  <2>2. CASE i # 1
    <3>1. PICK k \in 1 .. Len(p.operand) - 1 : k = i - 1 /\ k + 1 = i /\ k # Len(p.operand) - 1 /\ i > 1
      BY <1>0, <1>2, <2>2
    <3>2. function.block[at].term = JumpTo(MergeOf(p, k))
      BY <1>0, <1>1, <1>5, <3>1 DEF MergeShape
    <3>3. FromRight(p, k).block = at /\ FromRight(p, k).value = Literal(MergeOf(p, i), FALSE)
      BY <1>1, <1>5, <3>1, TwoSources
    <3>4. IsTrue(Literal(MergeOf(p, i), FALSE), value) = F[i]
      <4>1. MergeOf(p, i) # "true"
        BY <1>0, <1>1 DEF MergeNames
      <4>2. i \in 1 .. n
        BY <1>2
      <4>3. PICK v : v = Literal(MergeOf(p, i), FALSE)
        OBVIOUS
      <4>a. v.atom = MergeOf(p, i) /\ v.neg = FALSE
        BY <4>3 DEF Literal
      <4>4. IsTrue(v, value) = (F[i] # FALSE)
        BY <1>5, <4>1, <4>a DEF IsTrue, Constant
      <4>5. F[i] \in BOOLEAN
        BY <1>3, <4>2
      <4> QED BY <4>3, <4>4, <4>5
    <3>5. IsTrue(FromRight(p, k).value, value) = F[k + 1] /\ Same(F, k + 1)
      BY <1>5, <3>1, <3>3, <3>4
    <3> QED BY <1>1, <3>2, <3>3, <3>5, MergeJumpStep
  <2> QED BY <2>1, <2>2
<1>6. ASSUME NEW t \in BOOLEAN, at = (IF t THEN "yes" ELSE "no")
      PROVE  /\ result' = t /\ phase' = "done"
             /\ UNCHANGED << program, mutator, function, point, env >>
  <2>1. function.block["yes"].term = ReturnOf(TRUE).term /\ function.block["no"].term = ReturnOf(FALSE).term
    BY <1>1 DEF MergeShape
  <2>2. function.block[at].term = ReturnOf(t).term
    BY <1>6, <2>1
  <2> QED BY <2>2, OutcomeIs
<1>7. PICK t \in BOOLEAN : t = (F[1] # p.neg)
  OBVIOUS
<1>8. CASE at = "yes" /\ F[1] # p.neg
  BY <1>6, <1>7, <1>8
<1>9. CASE at = "no" /\ F[1] = p.neg
  BY <1>6, <1>7, <1>9
<1>10. CASE \E i \in 1 .. n : at = AtomOf(p, i) /\ Same(F, i)
  BY <1>1, <1>4, <1>10
<1>11. CASE \E i \in 1 .. n - 1 : at = MergeOf(p, i) /\ Same(F, i) /\ value[MergeOf(p, i)] = F[i]
  BY <1>1, <1>5, <1>11
<1> QED BY <1>0, <1>8, <1>9, <1>10, <1>11 DEF MergeReached

\* The condition is merged, grouped to the right.
Merged(p) == p.context # "if" /\ (Len(p.ops) = 1 \/ p.shape = "right")

\* The mutant of a merged condition is executed as the condition with the other operator says.
MergeInv ==
  Merged(program) =>
    /\ phase = "run" =>
         /\ point = AtomOf(program, 1) /\ MergeRun(program, FirstSwapped(program))
         /\ \E F : /\ Evaluates(F, FirstSwapped(program), TrueOperands(Len(program.operand)),
                                Len(program.operand))
                   /\ Meaning(FirstSwapped(program)) = (F[1] # program.neg)
                   /\ MergeReached(program, F)
    /\ phase = "done" /\ point # Nowhere =>
         point = AtomOf(program, 1) /\ result = Meaning(FirstSwapped(program))

\* What the condition means stays.
LEMMA MeaningStays ==
  ASSUME UNCHANGED << program, env >>, NEW n, NEW ops
  PROVE  TrueOperands(n)' = TrueOperands(n) /\ Meaning(ops)' = Meaning(ops)
BY DEF TrueOperands, Meaning, Operand

\* It is kept.
LEMMA MergeInvStep ==
  ASSUME PointInv, MergeInv, [Next]_vars
  PROVE  MergeInv'
<1>1. CASE GetMutations
  <2>1. phase' = "apply" \/ (phase' = "done" /\ point' = point /\ phase = "search")
    BY <1>1 DEF GetMutations
  <2>2. phase' = "done" => point' = Nowhere
    BY <2>1 DEF PointInv
  <2> QED BY <2>1, <2>2 DEF MergeInv
<1>2. CASE ApplyMutation
  <2>1. PICK p : p = program
    OBVIOUS
  <2>2. /\ UNCHANGED << program, mutator, point, env, value >> /\ phase = "apply" /\ phase' = "run"
        /\ function' = IF mutator = "AndToOr" THEN ApplyLogicalAndToOr(function, point)
                       ELSE ApplyLogicalOrToAnd(function, point)
        /\ at' = Head(function.order)
    BY <1>2 DEF ApplyMutation
  <2>3. /\ p \in Program /\ function = p.function /\ point \in Points(p.function)
        /\ env \in [Atom -> BOOLEAN] /\ value = env
    BY <2>1, <2>2 DEF PointInv
  <2> SUFFICES ASSUME Merged(p)
               PROVE  /\ point = AtomOf(p, 1) /\ MergeRun(p, FirstSwapped(p))'
                      /\ \E F : /\ Evaluates(F, FirstSwapped(p), TrueOperands(Len(p.operand))',
                                             Len(p.operand))
                                /\ Meaning(FirstSwapped(p))' = (F[1] # p.neg)
                                /\ MergeReached(p, F)'
    BY <2>1, <2>2 DEF MergeInv
  <2>4. Verified(p.function) /\ MergesOperands(p)
    BY <2>3, LogicalMutatorsAssumption DEF Merged, Lowered
  <2>5. MergeNames(p) /\ MergeOrder(p) /\ MergeShape(p, p.ops, p.function)
    BY <2>3, <2>4, MergeIsNamed, MergeIsShaped DEF Merged
  <2>6. /\ point = AtomOf(p, 1) /\ p.context = "while"
        /\ SecondBranch(p.function, point) = MergeOf(p, 1)
        /\ Pattern(p.function, point, MergeOf(p, 1)) = 3
    BY <2>3, <2>5, MergePoints
  <2>7. function' = Replace([p.function EXCEPT !.block[MergeOf(p, 1)].phi[1].value = Not(@)], point,
                            p.function.block[point].term.right, p.function.block[point].term.left)
    BY <2>2, <2>3, <2>6 DEF ApplyLogicalAndToOr, ApplyLogicalOrToAnd, ANDToOR_Pattern3, ORToAND_Pattern3
  <2>8. PICK n : n = Len(p.operand) /\ n \in Nat /\ n >= 2 /\ 1 \in 1 .. n /\ 1 \in 1 .. n - 1
    BY <2>5 DEF MergeNames
  <2>9. point \in Blocks(p.function) /\ IsBranch(p.function, point) /\ MergeOf(p, 1) \in Blocks(p.function)
    BY <2>3, <2>5, <2>8 DEF MergeNames, Points, Blocks
  <2>10. Exchange(p.function, AtomOf(p, 1), MergeOf(p, 1),
                  FirstNegated(p.function.block[MergeOf(p, 1)].phi), function')
    BY <2>4, <2>6, <2>7, <2>9, ExchangeIs
  <2>11. PICK D : D = FirstSwapped(p)
    OBVIOUS
  <2>12. MergeShape(p, D, function')
    BY <2>4, <2>5, <2>6, <2>10, <2>11, MergeMutant
  <2>13. Len(D) = n - 1 /\ \A i \in 1 .. n - 1 : D[i] \in {"and", "or"}
    <3>1. p.ops \in Seq({"and", "or"}) /\ Len(p.ops) = n - 1
      BY <2>5, <2>8 DEF MergeNames
    <3>2. Dual(p.ops[1]) \in {"and", "or"}
      BY DEF Dual
    <3>3. D \in Seq({"and", "or"}) /\ Len(D) = Len(p.ops)
      BY <2>8, <2>11, <3>1, <3>2 DEF FirstSwapped
    <3> QED BY <3>1, <3>3
  <2>14. MergeRun(p, D)'
    BY <2>1, <2>2, <2>3, <2>5, <2>6, <2>8, <2>12, <2>13 DEF MergeRun
  <2>15. PICK F : /\ Evaluates(F, D, TrueOperands(n), n) /\ Meaning(D) = (F[1] # program.neg)
    <3>1. n = Len(D) + 1 /\ n >= 1
      BY <2>8, <2>13
    <3> QED BY <2>8, <3>1, MeaningIs
  <2>16. TrueOperands(n)' = TrueOperands(n) /\ Meaning(D)' = Meaning(D)
    BY <2>2, MeaningStays
  <2>17. MergeReached(p, F)'
    <3>1. AtomsStay(p)'
      <4>1. \A i \in 1 .. Len(p.operand) : AtomOf(p, i) \in Atom
        BY <2>5 DEF MergeNames
      <4> QED BY <2>2, <2>3, <4>1 DEF AtomsStay
    <3>2. at' = AtomOf(p, 1)
      <4>1. p.function.order \in Seq(Blocks(p.function)) /\ 1 \in DOMAIN p.function.order
        BY <2>5, <2>8 DEF MergeOrder
      <4>2. p.function.order[1] = AtomOf(p, 1)
        BY <2>5, <2>8 DEF MergeNames
      <4> QED BY <2>2, <2>3, <4>1, <4>2
    <3>3. Same(F, 1)
      BY DEF Same
    <3> QED BY <2>8, <3>1, <3>2, <3>3 DEF MergeReached
  <2> QED BY <2>1, <2>6, <2>8, <2>11, <2>14, <2>15, <2>16, <2>17
<1>3. CASE Execute
  <2>1. phase = "run" /\ UNCHANGED << program, mutator, point, env >>
    BY <1>3 DEF Execute
  <2>2. PICK p, D : p = program /\ D = FirstSwapped(p)
    OBVIOUS
  <2> SUFFICES ASSUME Merged(p)
               PROVE  /\ phase' = "run" =>
                         /\ point = AtomOf(p, 1) /\ MergeRun(p, D)'
                         /\ \E F : /\ Evaluates(F, D, TrueOperands(Len(p.operand))', Len(p.operand))
                                   /\ Meaning(D)' = (F[1] # p.neg)
                                   /\ MergeReached(p, F)'
                      /\ phase' = "done" => point = AtomOf(p, 1) /\ result' = Meaning(D)'
    BY <2>1, <2>2 DEF MergeInv
  <2>3. point = AtomOf(p, 1) /\ MergeRun(p, D)
    BY <2>1, <2>2 DEF MergeInv
  <2>4. PICK F : /\ Evaluates(F, D, TrueOperands(Len(p.operand)), Len(p.operand))
                 /\ Meaning(D) = (F[1] # p.neg) /\ MergeReached(p, F)
    BY <2>1, <2>2 DEF MergeInv
  <2>5. /\ UNCHANGED << program, mutator, function, point, env >>
        /\ \/ phase' = "run" /\ MergeReached(p, F)'
           \/ phase' = "done" /\ result' = (F[1] # p.neg)
    BY <1>3, <2>3, <2>4, MergeReaches
  <2>6. phase' = "run" => MergeRun(p, D)'
    BY <2>3, <2>5 DEF MergeRun
  <2>7. TrueOperands(Len(p.operand))' = TrueOperands(Len(p.operand)) /\ Meaning(D)' = Meaning(D)
    BY <2>1, MeaningStays
  <2> QED BY <2>3, <2>4, <2>5, <2>6, <2>7
<1>4. CASE UNCHANGED vars
  BY <1>4, MeaningStays DEF vars, MergeInv, MergeRun, MergeReached, AtomsStay
<1> QED BY <1>1, <1>2, <1>3, <1>4 DEF Next, Done

\* The number of the operand at the point.
LEMMA MutatedIs ==
  ASSUME program \in Program, NEW m, m \in 1 .. Len(program.operand), point = AtomOf(program, m)
  PROVE  Mutated = m /\ DOMAIN program.operand = 1 .. Len(program.operand)
<1>1. /\ program.operand \in Seq([atom : Atom, neg : BOOLEAN])
      /\ \A i, j \in DOMAIN program.operand : program.operand[i].atom = program.operand[j].atom => i = j
  BY LogicalMutatorsAssumption DEF Condition
<1>2. DOMAIN program.operand = 1 .. Len(program.operand)
  BY <1>1
<1>3. \A i \in DOMAIN program.operand : program.operand[i].atom = point <=> i = m
  BY <1>1, <1>2 DEF AtomOf
<1>4. Mutated = m
  BY <1>2, <1>3 DEF Mutated
<1> QED BY <1>2, <1>4

\* Every step of the specification keeps the three invariants.
LEMMA MutantInvariants == Spec => [](PointInv /\ ChainInv /\ MergeInv)
<1>1. Init => PointInv /\ ChainInv /\ MergeInv
  <2>1. Init => phase = "search"
    BY DEF Init
  <2> QED BY <2>1, PointStep DEF ChainInv, MergeInv
<1>2. (PointInv /\ ChainInv /\ MergeInv) /\ [Next]_vars => (PointInv /\ ChainInv /\ MergeInv)'
  BY PointStep, ChainInvStep, MergeInvStep
<1> QED BY <1>1, <1>2, PTL DEF Spec

\* For every program that clang lowers this way, with any number of operands, both mutators and
\* every truth of the atoms: where the operands meet in a PHI node (VisitBinLAnd, VisitBinLOr), the
\* mutant of a condition grouped to the right is the condition with that operator replaced.
THEOREM MergedMutantIsExactHolds == Spec => []MergedMutantIsExact
<1>1. ASSUME PointInv, MergeInv PROVE MergedMutantIsExact
  <2> SUFFICES ASSUME phase = "done", point # Nowhere, Merged(program)
               PROVE  result = Meaning(Swapped)
    BY DEF MergedMutantIsExact, Merged
  <2>1. point = AtomOf(program, 1) /\ result = Meaning(FirstSwapped(program)) /\ program \in Program
    BY <1>1 DEF MergeInv, PointInv
  <2>2. 1 \in 1 .. Len(program.operand)
    BY <2>1, LogicalMutatorsAssumption DEF Condition
  <2>3. Mutated = 1
    BY <2>1, <2>2, MutatedIs
  <2>4. Swapped = FirstSwapped(program)
    BY <2>3 DEF Swapped, FirstSwapped
  <2> QED BY <2>1, <2>4
<1> QED BY <1>1, MutantInvariants, PTL

\* A condition of one operator has two operands.
LEMMA OneOperator ==
  ASSUME NEW p \in Program, Len(p.ops) = 1
  PROVE  /\ Len(p.operand) = 2 /\ p.ops \in Seq({"and", "or"})
         /\ p.operand \in Seq([atom : Atom, neg : BOOLEAN])
<1>1. /\ p.operand \in Seq([atom : Atom, neg : BOOLEAN])
      /\ p.ops \in Seq({"and", "or"}) /\ Len(p.ops) = Len(p.operand) - 1
  BY LogicalMutatorsAssumption DEF Condition
<1>2. PICK n \in Nat : n = Len(p.operand)
  BY <1>1
<1>3. 1 = n - 1
  BY <1>1, <1>2
<1>4. n = 2
  BY <1>3
<1> QED BY <1>1, <1>2, <1>4

\* A chain of two operands that are merged.
LEMMA TwoMerged ==
  ASSUME PointInv, MergeInv, phase = "done", point # Nowhere, program.context # "if",
         Len(program.ops) = 1
  PROVE  /\ Mutated = 1 /\ Len(program.operand) = 2 /\ DOMAIN program.operand = 1 .. 2
         /\ result = (Combine(Dual(program.ops[1]), Operand(1), Operand(2)) # program.neg)
<1>1. /\ point = AtomOf(program, 1) /\ result = Meaning(FirstSwapped(program)) /\ program \in Program
  BY DEF MergeInv, PointInv, Merged
<1>2. /\ Len(program.operand) = 2 /\ program.ops \in Seq({"and", "or"})
      /\ program.operand \in Seq([atom : Atom, neg : BOOLEAN])
  BY <1>1, OneOperator
<1>3. Mutated = 1 /\ DOMAIN program.operand = 1 .. 2
  BY <1>1, <1>2, MutatedIs
<1>4. PICK D : D = FirstSwapped(program)
  OBVIOUS
<1>5. Len(D) = 1 /\ D[1] = Dual(program.ops[1])
  <2>1. Dual(program.ops[1]) \in {"and", "or"}
    BY DEF Dual
  <2> QED BY <1>2, <1>4, <2>1 DEF FirstSwapped
<1>6. PICK F : Evaluates(F, D, TrueOperands(2), 2) /\ Meaning(D) = (F[1] # program.neg)
  <2>1. 2 = Len(D) + 1 /\ 2 >= 1
    BY <1>5
  <2> QED BY <2>1, MeaningIs
<1>7. /\ F[2] = (2 \in TrueOperands(2)) /\ F[1] = Combine(D[1], 1 \in TrueOperands(2), F[2])
      /\ F[1] \in BOOLEAN /\ F[2] \in BOOLEAN
  BY <1>6 DEF Evaluates
<1>8. (1 \in TrueOperands(2) <=> Operand(1)) /\ (2 \in TrueOperands(2) <=> Operand(2))
  BY DEF TrueOperands
<1>9. F[1] = Combine(D[1], Operand(1), Operand(2))
  BY <1>7, <1>8 DEF Combine
<1> QED BY <1>1, <1>2, <1>3, <1>4, <1>5, <1>6, <1>9

\* What ChainMutantIsLocal says the mutant of the operator after operand m computes.
LocalMutant(op, m) ==
  LET pair == Combine(Dual(op), Operand(m), Operand(m + 1))
      rest == DOMAIN program.operand \ {m, m + 1}
  IN  (IF op = "and" THEN pair /\ \A i \in rest : Operand(i)
       ELSE pair \/ \E i \in rest : Operand(i)) # program.neg

\* For any number of operands, both mutators and every truth of the atoms: in a chain of one
\* operator that is branched on (EmitBranchOnBoolExpr), the mutant combines the operand of the
\* point and the next one with the other operator and leaves the rest.
THEOREM ChainMutantIsLocalHolds == Spec => []ChainMutantIsLocal
<1>1. ASSUME PointInv, ChainInv, MergeInv PROVE ChainMutantIsLocal
  <2> SUFFICES ASSUME phase = "done", point # Nowhere, IsChain(program),
                      Len(program.ops) = 1 \/ program.context = "if",
                      \A i \in DOMAIN program.operand : program.operand[i].neg =>
                        i = 1 \/ Len(program.operand) = 2,
                      NEW op, op = program.ops[1]
               PROVE  result = LocalMutant(op, Mutated)
    BY DEF ChainMutantIsLocal, LocalMutant
  <2> DEFINE rest == DOMAIN program.operand \ {Mutated, Mutated + 1}
             pair == Combine(Dual(op), Operand(Mutated), Operand(Mutated + 1))
  <2>0. LocalMutant(op, Mutated) = ((IF op = "and" THEN pair /\ \A i \in rest : Operand(i)
                                     ELSE pair \/ \E i \in rest : Operand(i)) # program.neg)
    BY DEF LocalMutant
  <2>1. program \in Program
    BY <1>1 DEF PointInv
  <2>2. CASE program.context = "if"
    <3>1. PICK m, j : PairOf(m, j) /\ result = ChainOutcome(program, Kept, m, j)
      BY <1>1, <2>2 DEF ChainInv
    <3>2. ChainFacts(program)
      BY <2>1, <2>2, ChainShape
    <3>3. /\ m \in 1 .. Len(program.operand) /\ j \in 1 .. Len(program.operand)
          /\ point = AtomOf(program, m) /\ Paired(program, m, j)
      BY <3>1 DEF PairOf
    <3>4. Mutated = m /\ DOMAIN program.operand = 1 .. Len(program.operand)
      BY <2>1, <3>3, MutatedIs
    <3>5. j = m + 1
      BY <3>2, <3>3, <3>4, NextOperand
    <3>6. Len(program.operand) \in Nat
      BY <3>2 DEF ChainFacts
    <3>7. ChainOutcome(program, Kept, m, m + 1) <=>
           ((IF op = "and" THEN /\ Operand(m) \/ Operand(m + 1)
                                /\ \A i \in DOMAIN program.operand \ {m, m + 1} : Operand(i)
             ELSE \/ Operand(m) /\ Operand(m + 1)
                  \/ \E i \in DOMAIN program.operand \ {m, m + 1} : Operand(i)) # program.neg)
      BY <3>2, <3>3, <3>4, <3>5, LocalOutcome
    <3>8. /\ op = "and" => (pair <=> Operand(m) \/ Operand(m + 1))
          /\ op # "and" => (pair <=> Operand(m) /\ Operand(m + 1))
      BY <3>4 DEF Combine, Dual
    <3>9. result \in BOOLEAN /\ (result <=> ChainOutcome(program, Kept, m, m + 1))
      BY <3>1, <3>5 DEF ChainOutcome
    <3> QED BY <2>0, <3>4, <3>7, <3>8, <3>9
  <2>3. CASE program.context # "if"
    <3>1. /\ Mutated = 1 /\ DOMAIN program.operand = 1 .. 2
          /\ result = (Combine(Dual(program.ops[1]), Operand(1), Operand(2)) # program.neg)
      BY <1>1, <2>3, TwoMerged
    <3>2. rest = {}
      BY <3>1
    <3>3. pair = Combine(Dual(program.ops[1]), Operand(1), Operand(2))
      BY <3>1
    <3>4. pair \in BOOLEAN
      BY <3>3 DEF Combine
    <3>5. (IF op = "and" THEN pair /\ \A i \in rest : Operand(i)
           ELSE pair \/ \E i \in rest : Operand(i)) = pair
      BY <3>2, <3>4
    <3> QED BY <2>0, <3>1, <3>3, <3>5
  <2> QED BY <2>2, <2>3
<1> QED BY <1>1, MutantInvariants, PTL

\* A condition of two operands has one operator.
LEMMA TwoIsChain ==
  ASSUME NEW p \in Program, Len(p.ops) = 1
  PROVE  IsChain(p) /\ Len(p.operand) = 2
<1>1. p.ops \in Seq({"and", "or"}) /\ Len(p.operand) = 2
  BY OneOperator
<1>2. Range(p.ops) = {p.ops[1]}
  BY <1>1 DEF Range
<1> QED BY <1>1, <1>2, FS_Singleton DEF IsChain

\* For every condition of two operands whose compared operand is not negated: it is a point of the
\* mutator whose description names its operator and not of the other one, and of neither if it is only
\* computed as a value.
THEOREM PointIsOfItsOperatorHolds == Spec => []PointIsOfItsOperator
<1>1. ASSUME PointInv PROVE PointIsOfItsOperator
  <2>1. PICK p : p = program
    OBVIOUS
  <2> SUFFICES ASSUME phase = "done", Len(p.ops) = 1, NEW compared,
                      compared = p.operand[IF p.context = "if" THEN 2 ELSE 1], ~compared.neg
               PROVE  point # Nowhere <=>
                        /\ p.context # "value"
                        /\ p.ops[1] = IF mutator = "AndToOr" THEN "and" ELSE "or"
    BY <2>1 DEF PointIsOfItsOperator
  <2>2. /\ p \in Program
        /\ \/ point \in Points(p.function)
           \/ point = Nowhere /\ Points(p.function) = {}
    BY <1>1, <2>1 DEF PointInv
  <2>3. IsChain(p) /\ Len(p.operand) = 2 /\ Verified(p.function)
    BY <2>2, TwoIsChain, LogicalMutatorsAssumption
  <2>4. p.ops[1] \in {"and", "or"}
    BY <2>2, OneOperator
  <2>5. CASE p.context = "if"
    <3>1. ChainFacts(p) /\ p.function.order \in Seq(Blocks(p.function))
      BY <2>2, <2>3, <2>5, ChainShape DEF Verified, FunctionType
    <3>2. compared = p.operand[2] /\ p.operand[2].neg \in BOOLEAN /\ AtomOf(p, 1) # Nowhere
      BY <2>3, <2>5, <3>1 DEF ChainFacts
    <3>3. Matches(p, 2) <=> p.ops[1] = IF mutator = "AndToOr" THEN "and" ELSE "or"
      BY <2>4, <3>2 DEF Matches, GoesLeft, Going
    <3>4. ASSUME point \in Points(p.function) PROVE Matches(p, 2) /\ point = AtomOf(p, 1)
      <4>1. PICK m \in 1 .. 2, j \in 1 .. 2 : point = AtomOf(p, m) /\ Paired(p, m, j)
        BY <2>3, <3>1, <3>4, ChainPoint
      <4>2. j \in m + 1 .. 2 /\ Matches(p, j)
        BY <2>3, <4>1 DEF Paired
      <4>3. m = 1 /\ j = 2
        BY <4>2
      <4> QED BY <4>1, <4>2, <4>3
    <3>5. ASSUME Matches(p, 2) PROVE Points(p.function) # {}
      <4>1. 1 \in 1 .. Len(p.operand) /\ 2 \in 1 .. Len(p.operand) /\ 1 < 2
        BY <2>3
      <4> QED BY <3>1, <3>5, <4>1, ChainPoint
    <3> QED BY <2>2, <2>5, <3>2, <3>3, <3>4, <3>5
  <2>6. CASE p.context # "if"
    <3>1. MergesOperands(p)
      BY <2>2, <2>6, LogicalMutatorsAssumption DEF Lowered
    <3>2. MergeNames(p) /\ MergeOrder(p) /\ MergeShape(p, p.ops, p.function)
      BY <2>2, <2>6, <3>1, MergeIsNamed, MergeIsShaped
    <3>3. /\ \A b \in Points(p.function) : b = AtomOf(p, 1) /\ p.context = "while"
          /\ p.context = "while" => (AtomOf(p, 1) \in Points(p.function) <=> MergeMatches(p))
      BY <3>2, MergePoints
    <3>4. /\ compared = p.operand[1] /\ p.operand[1].neg \in BOOLEAN /\ AtomOf(p, 1) # Nowhere
          /\ p.context \in {"value", "while"}
      BY <2>3, <2>6, <3>2 DEF MergeNames
    <3>5. MergeMatches(p) <=> p.ops[1] = IF mutator = "AndToOr" THEN "and" ELSE "or"
      BY <2>4, <3>4 DEF MergeMatches, OnwardLeft
    <3> QED BY <2>2, <3>3, <3>4, <3>5
  <2> QED BY <2>5, <2>6
<1> QED BY <1>1, MutantInvariants, PTL
=============================================================================

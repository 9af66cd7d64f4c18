----------------------- MODULE DynamicCallTree_proofs -----------------------
(***************************************************************************)
(* Proofs about DynamicCallTree, for any number of functions, any program, *)
(* with or without unwinding: the recorded parents have no cycle and, as   *)
(* long as nothing is unwound, are callers; no pop finds the stack empty;  *)
(* the assertion in fillInCallTree holds and the tree it builds has every  *)
(* called function once; and what is stored for a test is reached from it. *)
(***************************************************************************)
EXTENDS DynamicCallTree, SequenceTheorems, FiniteSetTheorems, TLAPS

\* The types the argument needs.
ParentTypeOK ==
  /\ phase \in {"running", "build", "extract", "collect", "done"}
  /\ mapping \in [Node -> Node]
  /\ stack \in Seq(Fun)
  /\ frames \in Seq(Fun)
  /\ index \in Int
  /\ pending \in Seq([node : Fun, parent : Node])
  /\ treeRoot \subseteq Node

\* While the test runs no node has been made, the callback's stack holds only
\* functions that have an entry, and it is at least as deep as the program's.
StackIsRecorded ==
  phase = "running" =>
    /\ pending = << >>
    /\ \A i \in 1 .. Len(stack) : mapping[stack[i]] # 0
    /\ Len(stack) >= Len(frames)

\* The phony root has no parent and has a node.
PhonyRoot == mapping[0] = 0 /\ 0 \in treeRoot

\* A function is known if it waits in the mapping or has its node.
Known(f) == mapping[f] # 0 \/ f \in treeRoot

\* The parent of a function, in the mapping or in a call of fillInCallTree, is
\* known, and fillInCallTree works on functions that have their node.
ParentsAreKnown ==
  /\ phase = "running" => \A f \in Fun : mapping[f] # 0 => mapping[mapping[f]] # 0
  /\ \A f \in Fun : mapping[f] # 0 => Known(mapping[f])
  /\ \A i \in 1 .. Len(pending) :
       pending[i].node \in treeRoot /\ Known(pending[i].parent)

IInv ==
  /\ ParentTypeOK
  /\ StackIsRecorded
  /\ PhonyRoot
  /\ ParentsAreKnown
  /\ NoParentCycle

\* The initial state: nothing recorded, nothing built.
LEMMA InitIInv == Init => IInv
<1> SUFFICES ASSUME Init PROVE IInv
  OBVIOUS
<1>1. ParentTypeOK
  BY CallTreeAssumption DEF Init, ParentTypeOK, Fun, Node
<1>2. StackIsRecorded
  BY DEF Init, StackIsRecorded
<1>3. mapping[0] = 0 /\ \A f \in Fun : mapping[f] = 0
  BY CallTreeAssumption DEF Init, Fun, Node
<1>4. PhonyRoot
  BY <1>3 DEF Init, PhonyRoot
<1>5. ParentsAreKnown
  BY <1>3 DEF Init, ParentsAreKnown
<1>6. NoParentCycle
  BY <1>3 DEF NoParentCycle
<1> QED
  BY <1>1, <1>2, <1>4, <1>5, <1>6 DEF IInv

\* Last and Front of a nonempty sequence.
LEMMA LastFront ==
  ASSUME NEW S, NEW s \in Seq(S), s # << >>
  PROVE  /\ Last(s) \in S
         /\ Len(s) \in 1 .. Len(s)
         /\ Last(s) = s[Len(s)]
         /\ Front(s) \in Seq(S)
         /\ Len(Front(s)) = Len(s) - 1
         /\ \A i \in 1 .. Len(s) - 1 : Front(s)[i] = s[i]
<1>1. Len(s) \in Nat /\ Len(s) # 0 /\ Len(s) \in 1 .. Len(s)
  OBVIOUS
<1>2. Last(s) = s[Len(s)] /\ s[Len(s)] \in S
  BY <1>1 DEF Last
<1>3. /\ SubSeq(s, 1, Len(s) - 1) \in Seq(S)
      /\ Len(SubSeq(s, 1, Len(s) - 1)) = Len(s) - 1
      /\ \A i \in 1 .. Len(s) - 1 : SubSeq(s, 1, Len(s) - 1)[i] = s[i]
  <2>1. 1 \in Int /\ Len(s) - 1 \in Int /\ \A i \in 1 .. Len(s) - 1 : s[i] \in S
    BY <1>1
  <2> DEFINE t == SubSeq(s, 1, Len(s) - 1)
  <2>2. /\ t \in Seq(S)
        /\ Len(t) = IF 1 <= Len(s) - 1 THEN Len(s) - 1 - 1 + 1 ELSE 0
        /\ \A i \in 1 .. Len(s) - 1 - 1 + 1 : t[i] = s[1 + i - 1]
    BY <2>1, SubSeqProperties
  <2> HIDE DEF t
  <2>3. Len(t) = Len(s) - 1
    <3> DEFINE n == Len(s)
    <3>1. n \in Nat /\ n # 0
      BY <1>1
    <3>2. Len(t) = IF 1 <= n - 1 THEN n - 1 - 1 + 1 ELSE 0
      BY <2>2
    <3> HIDE DEF n
    <3>3. Len(t) = n - 1
      BY <3>1, <3>2
    <3> QED BY <3>3 DEF n
  <2>4. ASSUME NEW i \in 1 .. Len(s) - 1 PROVE t[i] = s[i]
    <3>1. i \in 1 .. Len(s) - 1 - 1 + 1 /\ 1 + i - 1 = i
      BY <1>1
    <3> QED BY <3>1, <2>2
  <2> QED BY <2>2, <2>3, <2>4 DEF t
<1> QED BY <1>1, <1>2, <1>3 DEF Front

\* A step that leaves the callbacks' and the builder's state alone and does not
\* go back to running.
LEMMA Frame ==
  ASSUME IInv,
         UNCHANGED << mapping, frames, index, pending, treeRoot >>,
         phase' \in {"running", "build", "extract", "collect", "done"},
         phase' = "running" => phase = "running" /\ stack' = stack,
         stack' \in Seq(Fun)
  PROVE  IInv'
  BY DEF IInv, ParentTypeOK, StackIsRecorded, PhonyRoot, ParentsAreKnown,
         NoParentCycle, Known

\* enterFunction makes a root of a function or hangs a function without an
\* entry under one that has an entry: neither closes a cycle.
LEMMA EnterAcyclic ==
  ASSUME IInv, NEW f \in Fun, phase = "running", EnterFunction(f)
  PROVE  /\ NoParentCycle'
         /\ mapping' \in [Node -> Node]
         /\ mapping'[f] # 0
         /\ \A g \in Node : mapping[g] # 0 => mapping'[g] # 0
         /\ \A g \in Fun : mapping'[g] # 0 => mapping'[mapping'[g]] # 0
         /\ mapping'[0] = 0
<1> USE DEF IInv, ParentTypeOK, PhonyRoot, Fun, Node
<1>1. CASE stack = << >>
  <2>1. mapping' = [mapping EXCEPT ![f] = f]
    BY <1>1 DEF EnterFunction
  <2>2. NoParentCycle'
    <3> SUFFICES ASSUME NEW S \in SUBSET {g \in Fun : mapping'[g] # 0},
                        S # {}, \A g \in S : mapping'[g] \in S
                 PROVE  \E g \in S : mapping'[g] = g
      BY DEF NoParentCycle
    <3>1. CASE f \in S
      BY <3>1, <2>1
    <3>2. CASE f \notin S
      <4>1. \A g \in S : mapping'[g] = mapping[g]
        BY <3>2, <2>1
      <4> QED BY <4>1 DEF NoParentCycle
    <3> QED BY <3>1, <3>2
  <2> QED BY <2>1, <2>2 DEF ParentsAreKnown
<1>2. CASE stack # << >> /\ mapping[f] = 0
  <2> DEFINE p == Last(stack)
  <2>1. mapping' = [mapping EXCEPT ![f] = p]
    BY <1>2 DEF EnterFunction
  <2>2. p \in Fun /\ mapping[p] # 0
    <3>1. p \in Fun /\ Len(stack) \in 1 .. Len(stack) /\ p = stack[Len(stack)]
      BY <1>2, LastFront
    <3> QED BY <3>1 DEF StackIsRecorded
  <2> HIDE DEF p
  <2>3. NoParentCycle'
    <3> SUFFICES ASSUME NEW S \in SUBSET {g \in Fun : mapping'[g] # 0},
                        S # {}, \A g \in S : mapping'[g] \in S
                 PROVE  \E g \in S : mapping'[g] = g
      BY DEF NoParentCycle
    <3> DEFINE T == S \ {f}
    <3>1. \A g \in T : mapping'[g] = mapping[g] /\ mapping[g] # 0
      BY <2>1
    <3>2. \A g \in T : mapping[g] \in T
      <4> SUFFICES ASSUME NEW g \in T PROVE mapping[g] \in T
        OBVIOUS
      <4>1. mapping[g] \in S /\ mapping[mapping[g]] # 0
        BY <3>1 DEF ParentsAreKnown
      <4> QED BY <4>1, <1>2
    <3>3. T # {}
      BY <2>1, <2>2, <1>2
    <3>4. T \in SUBSET {g \in Fun : mapping[g] # 0}
      BY <3>1
    <3>5. \E g \in T : mapping[g] = g
      BY <3>2, <3>3, <3>4 DEF NoParentCycle
    <3> QED BY <3>5, <3>1
  <2> QED BY <2>1, <2>2, <2>3, <1>2 DEF ParentsAreKnown
<1>3. CASE stack # << >> /\ mapping[f] # 0
  BY <1>3 DEF EnterFunction, NoParentCycle, ParentsAreKnown
<1> QED BY <1>1, <1>2, <1>3

\* A call records the callee and pushes it on both stacks.
LEMMA CallStep ==
  ASSUME IInv, NEW f \in Fun, Call(f)
  PROVE  IInv'
<1> USE DEF Call
<1>1. phase = "running" /\ EnterFunction(f) /\ UNCHANGED << phase, index, pending, treeRoot >>
  BY DEF treeVars
<1>2. /\ NoParentCycle'
      /\ mapping' \in [Node -> Node]
      /\ mapping'[f] # 0
      /\ \A g \in Node : mapping[g] # 0 => mapping'[g] # 0
      /\ \A g \in Fun : mapping'[g] # 0 => mapping'[mapping'[g]] # 0
      /\ mapping'[0] = 0
  BY <1>1, EnterAcyclic
<1>3. stack' = Append(stack, f) /\ frames' = Append(frames, f)
  BY <1>1 DEF EnterFunction
<1>4. ParentTypeOK'
  BY <1>1, <1>2, <1>3 DEF IInv, ParentTypeOK
<1>5. StackIsRecorded'
  <2>1. \A i \in 1 .. Len(stack') : mapping'[stack'[i]] # 0
    <3> SUFFICES ASSUME NEW i \in 1 .. Len(stack') PROVE mapping'[stack'[i]] # 0
      OBVIOUS
    <3>1. CASE i = Len(stack) + 1
      BY <3>1, <1>2, <1>3 DEF IInv, ParentTypeOK
    <3>2. CASE i \in 1 .. Len(stack)
      <4>0. stack \in Seq(Fun) /\ Fun \subseteq Node
        BY DEF IInv, ParentTypeOK, Fun, Node
      <4>1. stack'[i] = stack[i] /\ stack[i] \in Node
        BY <4>0, <3>2, <1>3
      <4> QED BY <4>1, <3>2, <1>1, <1>2 DEF IInv, StackIsRecorded
    <3> QED BY <3>1, <3>2, <1>3 DEF IInv, ParentTypeOK
  <2> QED BY <2>1, <1>1, <1>3 DEF IInv, StackIsRecorded, ParentTypeOK
<1>6. ParentsAreKnown'
  BY <1>1, <1>2 DEF IInv, ParentsAreKnown, StackIsRecorded, Known, ParentTypeOK
<1>7. PhonyRoot'
  BY <1>1, <1>2 DEF IInv, PhonyRoot
<1> QED BY <1>2, <1>4, <1>5, <1>6, <1>7 DEF IInv

\* A return pops both stacks.
LEMMA LeaveStep ==
  ASSUME IInv, Leave
  PROVE  IInv'
<1>1. /\ phase = "running" /\ frames # << >>
      /\ UNCHANGED << phase, mapping, index, pending, treeRoot >>
      /\ stack' = Front(stack) /\ frames' = Front(frames)
  BY DEF Leave, LeaveFunction, treeVars
<1>2. stack # << >>
  BY <1>1 DEF IInv, StackIsRecorded, ParentTypeOK
<1>3. /\ stack' \in Seq(Fun) /\ Len(stack') = Len(stack) - 1
      /\ \A i \in 1 .. Len(stack) - 1 : stack'[i] = stack[i]
      /\ frames' \in Seq(Fun) /\ Len(frames') = Len(frames) - 1
  BY <1>1, <1>2, LastFront DEF IInv, ParentTypeOK
<1>4. ParentTypeOK' /\ StackIsRecorded'
  BY <1>1, <1>3 DEF IInv, ParentTypeOK, StackIsRecorded
<1> QED
  BY <1>1, <1>4 DEF IInv, PhonyRoot, ParentsAreKnown, NoParentCycle, Known

\* Unwinding shortens the program's stack only.
LEMMA UnwindStep ==
  ASSUME IInv, NEW k \in 0 .. MaxDepth, Unwind(k)
  PROVE  IInv'
<1>1. /\ UNCHANGED << phase, mapping, stack, index, pending, treeRoot >>
      /\ k < Len(frames) /\ frames' = SubSeq(frames, 1, k)
  BY DEF Unwind, treeVars
<1>2. frames' \in Seq(Fun) /\ Len(frames') = k
  BY <1>1, CallTreeAssumption DEF IInv, ParentTypeOK
<1>3. ParentTypeOK' /\ StackIsRecorded'
  BY <1>1, <1>2 DEF IInv, ParentTypeOK, StackIsRecorded
<1> QED
  BY <1>1, <1>3 DEF IInv, PhonyRoot, ParentsAreKnown, NoParentCycle, Known

\* A call of fillInCallTree past its early return: its function has an entry,
\* whose parent is known.
LEMMA ActivationKnown ==
  ASSUME IInv, NEW i \in Node, mapping[i] # 0
  PROVE  /\ i \in Fun
         /\ Activation(i) \in [node : Fun, parent : Node]
         /\ Activation(i).node = i
         /\ Known(Activation(i).parent)
<1>1. i \in Fun /\ mapping[i] \in Node /\ 0 \in Node
  BY CallTreeAssumption DEF IInv, ParentTypeOK, PhonyRoot, Fun, Node
<1>2. Known(mapping[i]) /\ Known(0)
  BY <1>1 DEF IInv, ParentsAreKnown, PhonyRoot, Known
<1> QED BY <1>1, <1>2 DEF Activation

\* The loop of createCallTree starts fillInCallTree for the next function.
LEMMA FillInStep ==
  ASSUME IInv, FillIn
  PROVE  IInv'
<1>1. /\ phase = "build" /\ pending = << >> /\ index \in Fun /\ index' = index + 1
      /\ UNCHANGED << phase, mapping, stack, frames >>
  BY DEF FillIn, programVars
<1>2. CASE mapping[index] = 0
  BY <1>1, <1>2
     DEF FillIn, IInv, ParentTypeOK, StackIsRecorded, PhonyRoot, ParentsAreKnown,
         NoParentCycle, Known, Fun
<1>3. CASE mapping[index] # 0
  <2>1. pending' = << Activation(index) >> /\ treeRoot' = treeRoot \union {index}
    BY <1>3 DEF FillIn
  <2>2. /\ index \in Fun
        /\ Activation(index) \in [node : Fun, parent : Node]
        /\ Activation(index).node = index
        /\ Known(Activation(index).parent)
    BY <1>1, <1>3, ActivationKnown DEF Fun, Node
  <2>3. ParentTypeOK'
    BY <1>1, <2>1, <2>2 DEF IInv, ParentTypeOK, Fun, Node
  <2> QED
    BY <1>1, <2>1, <2>2, <2>3
       DEF IInv, StackIsRecorded, PhonyRoot, ParentsAreKnown, NoParentCycle, Known
<1> QED BY <1>2, <1>3

\* fillInCallTree calls itself for a parent that has an entry.
LEMMA FillInParentStep ==
  ASSUME IInv, FillInParent
  PROVE  IInv'
<1> DEFINE p == Last(pending).parent
<1>1. /\ phase = "build" /\ pending # << >> /\ mapping[p] # 0
      /\ pending' = Append(pending, Activation(p))
      /\ treeRoot' = treeRoot \union {p}
      /\ UNCHANGED << phase, mapping, stack, frames, index >>
  BY DEF FillInParent, programVars
<1>2. p \in Node
  <2>1. Last(pending) \in [node : Fun, parent : Node]
    BY <1>1, LastFront DEF IInv, ParentTypeOK
  <2> QED BY <2>1
<1> HIDE DEF p
<1>3. /\ p \in Fun
      /\ Activation(p) \in [node : Fun, parent : Node]
      /\ Activation(p).node = p
      /\ Known(Activation(p).parent)
  BY <1>1, <1>2, ActivationKnown
<1>4. ParentTypeOK'
  BY <1>1, <1>2, <1>3 DEF IInv, ParentTypeOK
<1>5. ParentsAreKnown'
  <2>1. \A i \in 1 .. Len(pending') :
          pending'[i].node \in treeRoot' /\ (Known(pending[i].parent))'
    <3> SUFFICES ASSUME NEW i \in 1 .. Len(pending')
                 PROVE  pending'[i].node \in treeRoot' /\ (Known(pending[i].parent))'
      OBVIOUS
    <3>1. CASE i = Len(pending) + 1
      <4>1. pending'[i] = Activation(p)
        BY <3>1, <1>1 DEF IInv, ParentTypeOK
      <4>2. mapping'[Activation(p).parent] # 0 \/ Activation(p).parent \in treeRoot'
        BY <1>1, <1>3 DEF Known
      <4> QED BY <4>1, <4>2, <1>1, <1>3 DEF Known
    <3>2. CASE i \in 1 .. Len(pending)
      <4>1. pending'[i] = pending[i]
        BY <3>2, <1>1 DEF IInv, ParentTypeOK
      <4>2. pending[i].node \in treeRoot /\ Known(pending[i].parent)
        BY <3>2 DEF IInv, ParentsAreKnown
      <4> QED BY <4>1, <4>2, <1>1 DEF Known
    <3> QED BY <3>1, <3>2, <1>1 DEF IInv, ParentTypeOK
  <2>2. \A g \in Fun : mapping'[g] # 0 => (Known(mapping[g]))'
    BY <1>1 DEF IInv, ParentsAreKnown, Known
  <2> QED BY <2>1, <2>2, <1>1 DEF ParentsAreKnown
<1> QED
  BY <1>1, <1>4, <1>5 DEF IInv, StackIsRecorded, PhonyRoot, NoParentCycle

\* fillInCallTree attaches a node and clears its entry: the node stays known.
LEMMA AttachNodeStep ==
  ASSUME IInv, AttachNode
  PROVE  IInv'
<1> DEFINE n == Last(pending).node
<1>1. /\ phase = "build" /\ pending # << >>
      /\ mapping' = [mapping EXCEPT ![n] = 0]
      /\ pending' = Front(pending)
      /\ UNCHANGED << phase, stack, frames, index, treeRoot >>
  BY DEF AttachNode, programVars
<1>2. /\ Len(pending) \in 1 .. Len(pending) /\ Last(pending) = pending[Len(pending)]
      /\ n \in Fun
      /\ pending' \in Seq([node : Fun, parent : Node])
      /\ Len(pending') = Len(pending) - 1
      /\ \A i \in 1 .. Len(pending) - 1 : pending'[i] = pending[i]
  <2>1. pending \in Seq([node : Fun, parent : Node])
    BY DEF IInv, ParentTypeOK
  <2>2. Last(pending) \in [node : Fun, parent : Node]
    BY <2>1, <1>1, LastFront
  <2> QED BY <2>1, <2>2, <1>1, LastFront
<1>3. n \in treeRoot
  BY <1>2 DEF IInv, ParentsAreKnown
<1> HIDE DEF n
<1>4. ParentTypeOK'
  <2>0. mapping \in [Node -> Node] /\ 0 \in Node
    BY CallTreeAssumption DEF IInv, ParentTypeOK, Node
  <2>1. mapping' \in [Node -> Node]
    BY <2>0, <1>1
  <2> QED BY <2>1, <1>1, <1>2 DEF IInv, ParentTypeOK
<1>5. \A g \in Fun : mapping'[g] # 0 => mapping'[g] = mapping[g]
  BY <1>1, <1>2 DEF IInv, ParentTypeOK, Fun, Node
<1>6. ParentsAreKnown'
  <2>1. \A g \in Fun : mapping'[g] # 0 => (Known(mapping[g]))'
    <3> SUFFICES ASSUME NEW g \in Fun, mapping'[g] # 0
                 PROVE  (Known(mapping[g]))'
      OBVIOUS
    <3>0. mapping'[g] = mapping[g] /\ mapping[g] \in Node
      BY <1>5 DEF IInv, ParentTypeOK, Fun, Node
    <3>1. mapping'[g] = mapping[g] /\ mapping[g] \in Node /\ Known(mapping[g])
      BY <3>0 DEF IInv, ParentsAreKnown
    <3> QED BY <3>1, <1>1, <1>2, <1>3 DEF IInv, ParentTypeOK, Known, Fun, Node
  <2>2. \A i \in 1 .. Len(pending') :
          pending'[i].node \in treeRoot' /\ (Known(pending[i].parent))'
    <3> SUFFICES ASSUME NEW i \in 1 .. Len(pending')
                 PROVE  pending'[i].node \in treeRoot' /\ (Known(pending[i].parent))'
      OBVIOUS
    <3>1. i \in 1 .. Len(pending) /\ pending'[i] = pending[i]
      BY <1>2 DEF IInv, ParentTypeOK
    <3>2. pending[i].node \in treeRoot /\ Known(pending[i].parent)
      BY <3>1 DEF IInv, ParentsAreKnown
    <3>3. pending[i].parent \in Node
      <4>1. pending \in Seq([node : Fun, parent : Node])
        BY DEF IInv, ParentTypeOK
      <4>2. pending[i] \in [node : Fun, parent : Node]
        BY <4>1, <3>1, ElementOfSeq
      <4> QED BY <4>2
    <3> QED BY <3>1, <3>2, <3>3, <1>1, <1>2, <1>3
            DEF IInv, ParentTypeOK, Known, Fun, Node
  <2> QED BY <2>1, <2>2, <1>1 DEF ParentsAreKnown
<1>7. NoParentCycle'
  <2> SUFFICES ASSUME NEW S \in SUBSET {g \in Fun : mapping'[g] # 0},
                      S # {}, \A g \in S : mapping'[g] \in S
               PROVE  \E g \in S : mapping'[g] = g
    BY DEF NoParentCycle
  <2>1. \A g \in S : mapping'[g] = mapping[g]
    BY <1>5
  <2> QED BY <2>1 DEF IInv, NoParentCycle
<1>8. StackIsRecorded' /\ PhonyRoot'
  BY <1>1, <1>2 DEF IInv, StackIsRecorded, PhonyRoot, ParentTypeOK, Fun, Node
<1> QED BY <1>4, <1>6, <1>7, <1>8 DEF IInv

\* Every step preserves the invariant.
LEMMA NextIInv ==
  ASSUME IInv, [Next]_vars
  PROVE  IInv'
<1>1. ASSUME NEW f \in Fun, Call(f) PROVE IInv'
  BY <1>1, CallStep
<1>2. CASE Leave
  BY <1>2, LeaveStep
<1>3. ASSUME NEW k \in 0 .. MaxDepth, Unwind(k) PROVE IInv'
  BY <1>3, UnwindStep
<1>4. ASSUME NEW result \in {"Passed", "Failed"}, TestFinishes(result) PROVE IInv'
  BY <1>4, Frame DEF TestFinishes, programVars, treeVars, IInv, ParentTypeOK
<1>5. CASE FillIn
  BY <1>5, FillInStep
<1>6. CASE FillInParent
  BY <1>6, FillInParentStep
<1>7. CASE AttachNode
  BY <1>7, AttachNodeStep
<1>8. CASE StartExtraction \/ ExtractNode \/ StartCollection \/ CollectSubtree
           \/ CollectNode
  BY <1>8, Frame
     DEF StartExtraction, ExtractNode, StartCollection, CollectSubtree,
         CollectNode, programVars, treeVars, IInv, ParentTypeOK
<1>9. CASE Store
  BY <1>9, Frame DEF Store, programVars, treeVars, IInv, ParentTypeOK
<1>10. CASE Done \/ UNCHANGED vars
  BY <1>10, Frame DEF Done, vars, programVars, treeVars, IInv, ParentTypeOK
<1> QED
  BY <1>1, <1>2, <1>3, <1>4, <1>5, <1>6, <1>7, <1>8, <1>9, <1>10
     DEF Next, Program, Collecting

\* The inductive invariant holds in every reachable state.
THEOREM Invariance == Spec => []IInv
<1>1. Init => IInv
  BY InitIInv
<1>2. IInv /\ [Next]_vars => IInv'
  BY NextIInv
<1> QED BY <1>1, <1>2, PTL DEF Spec

\* The parents recorded by enterFunction never form a cycle, so the recursion
\* of fillInCallTree is well founded.
THEOREM ParentsAcyclic == Spec => []NoParentCycle
<1>1. IInv => NoParentCycle
  BY DEF IInv
<1> QED BY <1>1, Invariance, PTL

\* leaveFunction never pops an empty stack, even after unwinding.
THEOREM PopDefined == Spec => []PopIsDefined
<1>1. IInv => PopIsDefined
  BY DEF IInv, PopIsDefined, StackIsRecorded, ParentTypeOK
<1> QED BY <1>1, Invariance, PTL

\* The assertion assert(root.treeRoot) in fillInCallTree never fails.
THEOREM AssertionHolds == Spec => []RootHasNode
<1>1. IInv => RootHasNode
  <2> SUFFICES ASSUME IInv, pending # << >>, mapping[Last(pending).parent] = 0
               PROVE  Last(pending).parent \in treeRoot
    BY DEF RootHasNode
  <2>1. pending \in Seq([node : Fun, parent : Node])
    BY DEF IInv, ParentTypeOK
  <2>2. Len(pending) \in 1 .. Len(pending) /\ Last(pending) = pending[Len(pending)]
    BY <2>1, LastFront
  <2> QED BY <2>2 DEF IInv, ParentsAreKnown, Known
<1> QED BY <1>1, Invariance, PTL

-----------------------------------------------------------------------------
(* The two stacks, the tree and the searches.                              *)

\* As long as they are equally deep, the callbacks' stack is the program's.
StacksAgree == phase = "running" /\ Len(stack) = Len(frames) => stack = frames

\* The node that f is to hang under.
Caller(f) == IF mapping[f] = f THEN 0 ELSE mapping[f]

TreeTypeOK ==
  /\ calls \subseteq Node \X Fun
  /\ children \in [Node -> Seq(Fun)]
  /\ level \in [Node -> Nat]
  /\ index \in Nat \ {0}

\* f hangs under p in the tree ch, at position i.
Hangs(ch, p, i, f) == i \in 1 .. Len(ch[p]) /\ ch[p][i] = f

\* The called functions are those that wait in the mapping and those in the tree.
CalledInv ==
  \A f \in Fun :
    f \in Called <=> mapping[f] # 0 \/ \E p \in Node : \E i \in Nat : Hangs(children, p, i, f)

\* A node hangs one level below its parent, and neither waits in the mapping.
EdgesInv ==
  \A p \in Node : \A i \in Nat : \A f \in Fun :
    Hangs(children, p, i, f) =>
      mapping[p] = 0 /\ mapping[f] = 0 /\ level[f] = level[p] + 1

\* No node hangs in two places of the tree ch.
HangsOnce(ch) ==
  \A p, q \in Node : \A i, j \in Nat : \A f \in Fun :
    Hangs(ch, p, i, f) /\ Hangs(ch, q, j, f) => p = q /\ i = j

\* The active calls of fillInCallTree follow the parents.
ChainInv ==
  \A i \in 1 .. Len(pending) :
    /\ mapping[pending[i].node] # 0
    /\ pending[i].parent = Caller(pending[i].node)
    /\ i < Len(pending) => pending[i + 1].node = pending[i].parent

\* How far createCallTree has come.
ProgressInv ==
  /\ phase = "running" => index = 1 /\ \A p \in Node : children[p] = << >>
  /\ \A g \in Fun :
       g < index => mapping[g] = 0 \/ (pending # << >> /\ pending[1].node = g)
  /\ phase \in {"extract", "collect"} => \A g \in Node : mapping[g] = 0

\* Unless frames were unwound, the recorded parents and the edges of the tree are calls.
CallersInv ==
  phase # "done" /\ stack = frames =>
    /\ \A f \in Fun : mapping[f] # 0 => << Caller(f), f >> \in calls
    /\ \A p \in Node : \A i \in Nat : \A f \in Fun :
         Hangs(children, p, i, f) => << p, f >> \in calls

TreeInv ==
  /\ StacksAgree /\ TreeTypeOK /\ CalledInv /\ EdgesInv /\ HangsOnce(children)
  /\ ChainInv /\ ProgressInv /\ CallersInv

\* x is in the queue q.
Queued(q, x) == \E i \in 1 .. Len(q) : q[i] = x

\* Nothing is twice in q.
Distinct(q) == \A i, j \in 1 .. Len(q) : q[i] = q[j] => i = j

\* extractTestSubtrees has visited the nodes in P and has those of q to visit: where
\* it has come to, it has come through the parent.
Extracting(P, q, ch, s) ==
  /\ q \in Seq(Node) /\ Distinct(q)
  /\ \A x \in Node : Queued(q, x) => x \notin P
  /\ \A p \in Node : \A i \in Nat : \A f \in Fun :
       Hangs(ch, p, i, f) /\ (f \in P \/ Queued(q, f)) => p \in P
  /\ s = IF TestBody \in P THEN << TestBody >> ELSE << >>

\* x is in the result r of createReachableFunctions.
Reached(r, x) == \E i \in 1 .. Len(r) : r[i].function = x

\* x is the test body or below it, at most MaxDistance levels.
InReach(x, lv) ==
  /\ x = TestBody \/ lv[x] > lv[TestBody]
  /\ lv[x] <= lv[TestBody] + MaxDistance

\* What createReachableFunctions has put into r.
Collected(r, lv) ==
  /\ r \in Seq([function : Fun, distance : Nat])
  /\ r # << >> => r[1].function = TestBody
  /\ \A i, j \in 1 .. Len(r) : r[i].function = r[j].function => i = j
  /\ \A i \in 1 .. Len(r) :
       InReach(r[i].function, lv) /\ r[i].distance = lv[r[i].function] - lv[TestBody]

\* createReachableFunctions has visited what is in r and has the nodes of q to visit:
\* where it has come to below the test body, it has come through the parent.
Visiting(q, r, ch, lv) ==
  /\ q \in Seq(Fun) /\ Distinct(q)
  /\ q # << >> /\ r = << >> => q[1] = TestBody
  /\ \A x \in Fun : Queued(q, x) => ~Reached(r, x) /\ InReach(x, lv)
  /\ \A p \in Node : \A i \in Nat : \A f \in Fun :
       Hangs(ch, p, i, f) /\ (Reached(r, f) \/ Queued(q, f)) /\ f # TestBody
         => p \in Fun /\ Reached(r, p)

\* The subtrees that are left: at most one is ever taken.
SubtreeLeft(q, s, r) ==
  /\ s = << >> \/ s = << TestBody >>
  /\ s = << >> => q = << >>
  /\ s = << TestBody >> /\ q = << >> => r = << >>

\* The two searches.
SearchInv ==
  /\ phase # "done" => storage = << >>
  /\ phase \in {"running", "build", "extract"} => reachable = << >>
  /\ phase \in {"running", "build"} => subtrees = << >> /\ queue = << >>
  /\ phase = "extract" =>
       \E P \in SUBSET Node : Extracting(P, queue, children, subtrees)
  /\ phase = "collect" =>
       /\ Collected(reachable, level) /\ Visiting(queue, reachable, children, level)
       /\ SubtreeLeft(queue, subtrees, reachable)

\* What is collected is as many calls away as its level says.
DistanceInv ==
  phase = "collect" /\ stack = frames =>
    \A x \in Fun : Queued(queue, x) \/ Reached(reachable, x) =>
      x \in CallsAway(level[x] - level[TestBody])

\* Nothing hangs in an empty tree.
LEMMA NothingHangs ==
  ASSUME \A p \in Node : children[p] = << >>, NEW p \in Node, NEW i \in Nat, NEW f
  PROVE  ~Hangs(children, p, i, f)
<1>1. Len(children[p]) = 0
  OBVIOUS
<1> QED BY <1>1 DEF Hangs

\* The initial state.
LEMMA TreeInit == Init => TreeInv
<1> SUFFICES ASSUME Init PROVE TreeInv
  OBVIOUS
<1>1. /\ \A f \in Node : mapping[f] = 0 /\ children[f] = << >> /\ level[f] = 0
      /\ Called = {} /\ calls = {} /\ pending = << >> /\ index = 1 /\ phase = "running"
      /\ stack = << >> /\ frames = << >>
  BY DEF Init, Called
<1>2. Fun \subseteq Node
  BY DEF Fun, Node
<1>3. \A p \in Node : \A i \in Nat : \A f \in Fun : ~Hangs(children, p, i, f)
  BY <1>1, NothingHangs
<1>4. TreeTypeOK
  BY <1>1 DEF Init, TreeTypeOK
<1>5. StacksAgree /\ CalledInv /\ EdgesInv /\ HangsOnce(children) /\ CallersInv
  BY <1>1, <1>2, <1>3 DEF StacksAgree, CalledInv, EdgesInv, HangsOnce, CallersInv
<1>6. ChainInv /\ ProgressInv
  BY <1>1, <1>2 DEF ChainInv, ProgressInv
<1> QED BY <1>4, <1>5, <1>6 DEF TreeInv

\* A step after the test that leaves the tree alone.
LEMMA TreeQuiet ==
  ASSUME TreeInv, UNCHANGED << mapping, frames, calls, index, pending, children, level >>,
         phase' = "running" => phase = "running",
         phase' = "done" \/ stack' = stack,
         phase' # "done" => phase # "done",
         phase' \in {"extract", "collect"} => \A g \in Node : mapping[g] = 0
  PROVE  TreeInv'
<1>1. TreeTypeOK' /\ CalledInv' /\ EdgesInv' /\ HangsOnce(children)' /\ ChainInv'
  BY DEF TreeInv, TreeTypeOK, CalledInv, Called, EdgesInv, HangsOnce, ChainInv, Caller
<1>2. StacksAgree' /\ CallersInv'
  BY DEF TreeInv, StacksAgree, CallersInv, Caller
<1>3. ProgressInv'
  BY DEF TreeInv, ProgressInv
<1> QED BY <1>1, <1>2, <1>3 DEF TreeInv

\* What enterFunction records.
LEMMA EnterRecords ==
  ASSUME IInv, TreeInv, NEW f \in Fun, phase = "running", EnterFunction(f)
  PROVE  /\ \A g \in Fun : mapping'[g] # 0 <=> mapping[g] # 0 \/ g = f
         /\ \A g \in Fun : g # f => mapping'[g] = mapping[g]
         /\ stack = frames =>
              \/ mapping[f] # 0 /\ mapping'[f] = mapping[f]
              \/ Caller(f)' = IF frames = << >> THEN 0 ELSE Last(frames)
<1>1. f \in Node /\ Fun \subseteq Node /\ 0 \notin Fun /\ mapping \in [Node -> Node]
  BY DEF IInv, ParentTypeOK, Fun, Node
<1>2. CASE stack = << >>
  <2>1. mapping' = [mapping EXCEPT ![f] = f]
    BY <1>2 DEF EnterFunction
  <2> QED BY <1>1, <1>2, <2>1 DEF Caller
<1>3. CASE stack # << >> /\ mapping[f] = 0
  <2>1. PICK p : p = Last(stack)
    OBVIOUS
  <2>2. p \in Fun /\ mapping[p] # 0
    <3>1. stack \in Seq(Fun)
      BY DEF IInv, ParentTypeOK
    <3>2. p \in Fun /\ Len(stack) \in 1 .. Len(stack) /\ p = stack[Len(stack)]
      BY <1>3, <2>1, <3>1, LastFront
    <3> QED BY <3>2 DEF IInv, StackIsRecorded
  <2>3. mapping' = [mapping EXCEPT ![f] = p]
    BY <1>3, <2>1 DEF EnterFunction
  <2>4. p # f
    BY <1>3, <2>2
  <2> QED BY <1>1, <1>3, <2>1, <2>2, <2>3, <2>4 DEF Caller
<1>4. CASE stack # << >> /\ mapping[f] # 0
  BY <1>4 DEF EnterFunction
<1> QED BY <1>2, <1>3, <1>4

\* A call.
LEMMA TreeCall ==
  ASSUME IInv, TreeInv, NEW f \in Fun, Call(f)
  PROVE  TreeInv'
<1>1. /\ phase = "running" /\ EnterFunction(f)
      /\ UNCHANGED << phase, index, pending, children, level >>
      /\ stack' = Append(stack, f) /\ frames' = Append(frames, f)
      /\ calls' = calls \union {<< IF frames = << >> THEN 0 ELSE Last(frames), f >>}
  BY DEF Call, EnterFunction, treeVars
<1>2. /\ \A g \in Fun : mapping'[g] # 0 <=> mapping[g] # 0 \/ g = f
      /\ \A g \in Fun : g # f => mapping'[g] = mapping[g]
      /\ stack = frames =>
           \/ mapping[f] # 0 /\ mapping'[f] = mapping[f]
           \/ Caller(f)' = IF frames = << >> THEN 0 ELSE Last(frames)
  BY <1>1, EnterRecords
<1>3. /\ stack \in Seq(Fun) /\ frames \in Seq(Fun) /\ pending = << >>
      /\ index = 1 /\ \A p \in Node : children[p] = << >>
  BY <1>1 DEF IInv, ParentTypeOK, StackIsRecorded, TreeInv, ProgressInv
<1>4. PICK c \in Node : c = IF frames = << >> THEN 0 ELSE Last(frames)
  <2>1. 0 \in Node /\ Fun \subseteq Node
    BY CallTreeAssumption DEF Fun, Node
  <2>2. frames # << >> => Last(frames) \in Fun
    BY <1>3, LastFront
  <2> QED BY <2>1, <2>2
<1>5. calls' = calls \union {<< c, f >>}
  BY <1>1, <1>4
<1>6. Called' = Called \union {f}
  <2>1. PICK e : e = << c, f >>
    OBVIOUS
  <2>2. e[2] = f /\ calls' = calls \union {e}
    BY <1>5, <2>1
  <2> QED BY <2>2, Zenon DEF Called
<1>7. \A p \in Node : \A i \in Nat : \A g \in Fun : ~Hangs(children', p, i, g)
  BY <1>1, <1>3, NothingHangs
<1>8. TreeTypeOK'
  BY <1>1, <1>4, <1>5 DEF TreeInv, TreeTypeOK
<1>9. CalledInv'
  <2>1. \A g \in Fun : g \in Called <=> mapping[g] # 0
    <3>1. \A p \in Node : \A i \in Nat : \A g \in Fun : ~Hangs(children, p, i, g)
      BY <1>3, NothingHangs
    <3> QED BY <3>1 DEF TreeInv, CalledInv
  <2> QED BY <1>2, <1>6, <1>7, <2>1 DEF CalledInv
<1>10. EdgesInv' /\ HangsOnce(children)'
  BY <1>7 DEF EdgesInv, HangsOnce
<1>11. ChainInv' /\ ProgressInv'
  BY <1>1, <1>3, CallTreeAssumption DEF ChainInv, ProgressInv, Fun
<1>12. stack' = frames' => stack = frames
  <2>1. Len(stack') = Len(frames') => Len(stack) = Len(frames)
    BY <1>1, <1>3
  <2> QED BY <1>1, <2>1 DEF TreeInv, StacksAgree
<1>13. StacksAgree'
  <2> SUFFICES ASSUME Len(stack') = Len(frames') PROVE stack' = frames'
    BY DEF StacksAgree
  <2>1. Len(stack) = Len(frames)
    BY <1>1, <1>3
  <2> QED BY <1>1, <2>1 DEF TreeInv, StacksAgree
<1>14. CallersInv'
  <2> SUFFICES ASSUME stack' = frames', NEW g \in Fun, mapping'[g] # 0
               PROVE  << Caller(g)', g >> \in calls'
    BY <1>7 DEF CallersInv
  <2>1. \A h \in Fun : mapping[h] # 0 => << Caller(h), h >> \in calls
    BY <1>1, <1>12 DEF TreeInv, CallersInv
  <2>2. CASE mapping[g] # 0 /\ mapping'[g] = mapping[g]
    <3>1. Caller(g)' = Caller(g)
      BY <2>2 DEF Caller
    <3> QED BY <1>5, <2>1, <2>2, <3>1
  <2>3. CASE g = f /\ Caller(f)' = c
    BY <1>5, <2>3
  <2> QED BY <1>2, <1>4, <1>12, <2>2, <2>3
<1> QED BY <1>8, <1>9, <1>10, <1>11, <1>13, <1>14 DEF TreeInv

\* A return pops both stacks: they agree afterwards only if they did before.
LEMMA TreeLeave ==
  ASSUME IInv, TreeInv, Leave
  PROVE  TreeInv'
<1>1. /\ phase = "running" /\ frames # << >>
      /\ UNCHANGED << phase, mapping, index, pending, children, level, calls >>
      /\ stack' = Front(stack) /\ frames' = Front(frames)
  BY DEF Leave, LeaveFunction, treeVars
<1>2. stack \in Seq(Fun) /\ frames \in Seq(Fun) /\ stack # << >>
  BY <1>1 DEF IInv, StackIsRecorded, ParentTypeOK
<1>3. Len(stack') = Len(stack) - 1 /\ Len(frames') = Len(frames) - 1
  BY <1>1, <1>2, LastFront
<1>4. Len(stack') = Len(frames') => stack = frames
  BY <1>1, <1>2, <1>3 DEF TreeInv, StacksAgree
<1>5. StacksAgree' /\ CallersInv'
  BY <1>1, <1>4 DEF TreeInv, StacksAgree, CallersInv, Caller
<1>6. TreeTypeOK' /\ CalledInv' /\ EdgesInv' /\ HangsOnce(children)' /\ ChainInv'
  BY <1>1 DEF TreeInv, TreeTypeOK, CalledInv, Called, EdgesInv, HangsOnce, ChainInv, Caller
<1>7. ProgressInv'
  BY <1>1 DEF TreeInv, ProgressInv
<1> QED BY <1>5, <1>6, <1>7 DEF TreeInv

\* Unwinding leaves the callbacks' stack deeper than the program's.
LEMMA TreeUnwind ==
  ASSUME IInv, TreeInv, NEW k \in 0 .. MaxDepth, Unwind(k)
  PROVE  TreeInv'
<1>1. /\ phase = "running" /\ k < Len(frames) /\ frames' = SubSeq(frames, 1, k)
      /\ UNCHANGED << phase, mapping, index, pending, children, level, calls, stack >>
  BY DEF Unwind, treeVars
<1>2. stack \in Seq(Fun) /\ frames \in Seq(Fun) /\ Len(stack) >= Len(frames)
  BY <1>1 DEF IInv, StackIsRecorded, ParentTypeOK
<1>3. Len(frames') = k
  BY <1>1, <1>2, CallTreeAssumption
<1>4. Len(stack') # Len(frames')
  BY <1>1, <1>2, <1>3, CallTreeAssumption
<1>5. StacksAgree' /\ CallersInv'
  BY <1>4 DEF StacksAgree, CallersInv
<1>6. TreeTypeOK' /\ CalledInv' /\ EdgesInv' /\ HangsOnce(children)' /\ ChainInv'
  BY <1>1 DEF TreeInv, TreeTypeOK, CalledInv, Called, EdgesInv, HangsOnce, ChainInv, Caller
<1>7. ProgressInv'
  BY <1>1 DEF TreeInv, ProgressInv
<1> QED BY <1>5, <1>6, <1>7 DEF TreeInv

\* The loop of createCallTree goes on.
LEMMA TreeFillIn ==
  ASSUME IInv, TreeInv, FillIn
  PROVE  TreeInv'
<1>1. /\ phase = "build" /\ pending = << >> /\ index \in Fun /\ index' = index + 1
      /\ UNCHANGED << phase, mapping, stack, frames, calls, children, level >>
      /\ IF mapping[index] = 0 THEN pending' = pending
         ELSE pending' = << Activation(index) >>
  BY DEF FillIn, programVars
<1>2. index \in Nat \ {0} /\ index \in Node
  BY <1>1 DEF Fun, Node
<1>3. TreeTypeOK'
  BY <1>1, <1>2 DEF TreeInv, TreeTypeOK
<1>4. StacksAgree' /\ CalledInv' /\ EdgesInv' /\ HangsOnce(children)' /\ CallersInv'
  BY <1>1 DEF TreeInv, StacksAgree, CalledInv, Called, EdgesInv, HangsOnce, CallersInv, Caller
<1>5. \A g \in Fun : g < index' => mapping[g] = 0 \/ g = index
  BY <1>1, <1>2 DEF TreeInv, ProgressInv, Fun
<1>6. CASE mapping[index] = 0
  BY <1>1, <1>3, <1>4, <1>5, <1>6 DEF TreeInv, ChainInv, ProgressInv
<1>7. CASE mapping[index] # 0
  <2>1. /\ pending' = << Activation(index) >> /\ Activation(index).node = index
        /\ Activation(index).parent = Caller(index)
    BY <1>1, <1>7 DEF Activation, Caller
  <2>2. Len(pending') = 1 /\ pending'[1] = Activation(index) /\ pending' # << >>
    BY <2>1
  <2>3. ChainInv'
    BY <1>1, <1>7, <2>1, <2>2 DEF ChainInv, Caller
  <2>4. ProgressInv'
    BY <1>1, <1>5, <2>1, <2>2 DEF ProgressInv
  <2> QED BY <1>3, <1>4, <2>3, <2>4 DEF TreeInv
<1> QED BY <1>6, <1>7

\* fillInCallTree calls itself for the parent.
LEMMA TreeFillInParent ==
  ASSUME IInv, TreeInv, FillInParent
  PROVE  TreeInv'
<1>1. PICK p : p = Last(pending).parent
  OBVIOUS
<1>2. /\ phase = "build" /\ pending # << >> /\ mapping[p] # 0
      /\ pending' = Append(pending, Activation(p))
      /\ UNCHANGED << phase, mapping, stack, frames, calls, index, children, level >>
  BY <1>1 DEF FillInParent, programVars
<1>3. PICK s \in Seq([node : Fun, parent : Node]) : s = pending
  BY DEF IInv, ParentTypeOK
<1>4. Len(s) \in 1 .. Len(s) /\ p = s[Len(s)].parent /\ p \in Node
  <2>1. Len(s) \in 1 .. Len(s) /\ Last(s) = s[Len(s)] /\ Last(s) \in [node : Fun, parent : Node]
    BY <1>2, <1>3, LastFront
  <2> QED BY <1>1, <1>3, <2>1
<1>5. PICK a \in [node : Fun, parent : Node] : a = Activation(p)
  BY <1>2, <1>4, ActivationKnown
<1>6. a.node = p /\ a.parent = Caller(p)
  BY <1>5 DEF Activation, Caller
<1>7. PICK n \in Nat : n = Len(s)
  OBVIOUS
<1>8. /\ n # 0 /\ Len(pending') = n + 1 /\ pending'[n + 1] = a
      /\ \A i \in 1 .. n : pending'[i] = s[i]
  BY <1>2, <1>3, <1>4, <1>5, <1>7
<1>9. ChainInv'
  <2> SUFFICES ASSUME NEW i \in 1 .. n + 1
               PROVE  /\ mapping'[pending'[i].node] # 0
                      /\ pending'[i].parent = Caller(pending[i].node)'
                      /\ i < n + 1 => pending'[i + 1].node = pending'[i].parent
    BY <1>8 DEF ChainInv
  <2>1. CASE i = n + 1
    BY <1>2, <1>6, <1>8, <2>1 DEF Caller
  <2>2. CASE i \in 1 .. n
    <3>1. /\ mapping[s[i].node] # 0 /\ s[i].parent = Caller(s[i].node)
          /\ i < n => s[i + 1].node = s[i].parent
      BY <1>3, <1>7, <2>2 DEF TreeInv, ChainInv
    <3>2. CASE i = n
      BY <1>2, <1>4, <1>6, <1>7, <1>8, <2>2, <3>1, <3>2 DEF Caller
    <3>3. CASE i # n
      <4>1. i < n /\ i + 1 \in 1 .. n
        BY <2>2, <3>3
      <4> QED BY <1>2, <1>8, <2>2, <3>1, <4>1 DEF Caller
    <3> QED BY <3>2, <3>3
  <2> QED BY <2>1, <2>2
<1>10. ProgressInv'
  <2>1. pending' # << >> /\ pending'[1] = pending[1]
    <3>1. 1 \in 1 .. n
      BY <1>8
    <3> QED BY <1>3, <1>8, <3>1
  <2> QED BY <1>2, <2>1 DEF TreeInv, ProgressInv
<1>11. /\ TreeTypeOK' /\ StacksAgree' /\ CalledInv' /\ EdgesInv' /\ HangsOnce(children)'
       /\ CallersInv'
  BY <1>2 DEF TreeInv, TreeTypeOK, StacksAgree, CalledInv, Called, EdgesInv, HangsOnce,
              CallersInv, Caller
<1> QED BY <1>9, <1>10, <1>11 DEF TreeInv

\* No function has two active calls of fillInCallTree: the parents would have a cycle.
LEMMA PendingDistinct ==
  ASSUME IInv, TreeInv, NEW i \in 1 .. Len(pending), i < Len(pending),
         pending[i].node = pending[Len(pending)].node
  PROVE  FALSE
<1>1. PICK s \in Seq([node : Fun, parent : Node]) : s = pending
  BY DEF IInv, ParentTypeOK
<1>2. PICK m \in Nat : m = Len(s)
  OBVIOUS
<1>3. \A k \in 1 .. m : s[k].node \in Fun
  <2> SUFFICES ASSUME NEW k \in 1 .. m PROVE s[k].node \in Fun
    OBVIOUS
  <2>1. s[k] \in [node : Fun, parent : Node]
    BY <1>2, ElementOfSeq
  <2> QED BY <2>1
<1>4. i \in 1 .. m /\ i < m /\ s[i].node = s[m].node
  BY <1>1, <1>2
<1> DEFINE S == {s[k].node : k \in i .. m - 1}
<1>5. ASSUME NEW k \in i .. m - 1
      PROVE  /\ s[k].node \in Fun /\ mapping[s[k].node] # 0
             /\ mapping[s[k].node] # s[k].node /\ mapping[s[k].node] \in S
  <2>1. k \in 1 .. m /\ k + 1 \in 1 .. m /\ k < m
    BY <1>4
  <2>2. /\ mapping[s[k].node] # 0 /\ s[k].parent = Caller(s[k].node)
        /\ s[k + 1].node = s[k].parent
    BY <1>1, <1>2, <2>1 DEF TreeInv, ChainInv
  <2>3. s[k + 1].node \in Fun /\ s[k].node \in Fun
    BY <1>3, <2>1
  <2>4. mapping[s[k].node] # s[k].node /\ mapping[s[k].node] = s[k + 1].node
    BY <2>2, <2>3 DEF Caller, Fun
  <2>5. s[k + 1].node \in S
    <3>1. CASE k + 1 = m
      <4>1. i \in i .. m - 1
        BY <1>4
      <4> QED BY <1>4, <3>1, <4>1
    <3>2. CASE k + 1 # m
      <4>1. k + 1 \in i .. m - 1
        BY <1>4, <3>2
      <4> QED BY <4>1
    <3> QED BY <3>1, <3>2
  <2> QED BY <2>2, <2>3, <2>4, <2>5
<1>6. i \in i .. m - 1
  BY <1>4
<1>7. S \in SUBSET {f \in Fun : mapping[f] # 0} /\ S # {} /\ \A f \in S : mapping[f] \in S
  BY <1>5, <1>6
<1>8. \A f \in S : mapping[f] # f
  BY <1>5
<1> HIDE DEF S
<1> QED BY <1>7, <1>8 DEF IInv, NoParentCycle

\* What hangs in the tree when f is added to p.
LEMMA HangsAppended ==
  ASSUME NEW ch \in [Node -> Seq(Fun)], NEW p \in Node, NEW n \in Fun,
         NEW q \in Node, NEW i \in Nat, NEW f \in Fun
  PROVE  Hangs([ch EXCEPT ![p] = Append(@, n)], q, i, f)
           <=> Hangs(ch, q, i, f) \/ (q = p /\ i = Len(ch[p]) + 1 /\ f = n)
<1>1. PICK dh : dh = [ch EXCEPT ![p] = Append(@, n)]
  OBVIOUS
<1>2. CASE q # p
  BY <1>1, <1>2 DEF Hangs
<1>3. CASE q = p
  <2>1. PICK s \in Seq(Fun) : s = ch[p]
    OBVIOUS
  <2>2. dh[q] = Append(s, n)
    BY <1>1, <1>3, <2>1
  <2>3. PICK t \in Seq(Fun) : t = Append(s, n)
    BY AppendProperties
  <2>4. PICK m \in Nat : m = Len(s)
    OBVIOUS
  <2>5. Len(t) = m + 1 /\ t[m + 1] = n /\ \A j \in 1 .. m : t[j] = s[j]
    BY <2>3, <2>4
  <2>6. (i \in 1 .. m + 1 /\ t[i] = f) <=> (i \in 1 .. m /\ s[i] = f) \/ (i = m + 1 /\ f = n)
    <3>1. CASE i = m + 1
      BY <2>5, <3>1
    <3>2. CASE i # m + 1
      <4>1. i \in 1 .. m + 1 <=> i \in 1 .. m
        BY <3>2
      <4> QED BY <2>5, <3>2, <4>1
    <3> QED BY <3>1, <3>2
  <2>7. Hangs(dh, q, i, f) <=> i \in 1 .. m + 1 /\ t[i] = f
    BY <2>2, <2>3, <2>5 DEF Hangs
  <2>8. Hangs(ch, q, i, f) <=> i \in 1 .. m /\ s[i] = f
    BY <1>3, <2>1, <2>4 DEF Hangs
  <2>9. Len(ch[p]) = m
    BY <2>1, <2>4
  <2> QED BY <1>1, <1>3, <2>6, <2>7, <2>8, <2>9
<1> QED BY <1>1, <1>2, <1>3

\* A node is added to its parent.
LEMMA TreeAttach ==
  ASSUME IInv, TreeInv, AttachNode
  PROVE  TreeInv'
<1>1. PICK s \in Seq([node : Fun, parent : Node]) : s = pending
  BY DEF IInv, ParentTypeOK
<1>2. PICK n, p : n = Last(pending).node /\ p = Last(pending).parent
  OBVIOUS
<1>3. /\ phase = "build" /\ pending # << >> /\ mapping[p] = 0
      /\ level' = [level EXCEPT ![n] = level[p] + 1]
      /\ children' = [children EXCEPT ![p] = Append(@, n)]
      /\ mapping' = [mapping EXCEPT ![n] = 0]
      /\ pending' = Front(pending)
      /\ UNCHANGED << phase, stack, frames, calls, index >>
  BY <1>2 DEF AttachNode, programVars
<1>4. PICK m \in Nat : m = Len(s)
  OBVIOUS
<1>5. /\ m \in 1 .. m /\ n = s[m].node /\ p = s[m].parent /\ n \in Fun /\ p \in Node
      /\ pending' \in Seq([node : Fun, parent : Node]) /\ Len(pending') = m - 1
      /\ \A i \in 1 .. m - 1 : pending'[i] = s[i]
  <2>1. s # << >>
    BY <1>1, <1>3
  <2>2. /\ Last(s) \in [node : Fun, parent : Node] /\ Len(s) \in 1 .. Len(s)
        /\ Last(s) = s[Len(s)] /\ Front(s) \in Seq([node : Fun, parent : Node])
        /\ Len(Front(s)) = Len(s) - 1 /\ \A i \in 1 .. Len(s) - 1 : Front(s)[i] = s[i]
    BY <2>1, LastFront
  <2> QED BY <1>1, <1>2, <1>3, <1>4, <2>2
<1>6. mapping[n] # 0 /\ p = Caller(n) /\ p # n
  BY <1>1, <1>3, <1>4, <1>5 DEF TreeInv, ChainInv
<1>7. /\ mapping \in [Node -> Node] /\ n \in Node /\ 0 \notin Fun /\ Fun \subseteq Node
      /\ children \in [Node -> Seq(Fun)] /\ level \in [Node -> Nat]
  <2>1. 0 \notin Fun /\ Fun \subseteq Node
    BY DEF Fun, Node
  <2>2. mapping \in [Node -> Node]
    BY DEF IInv, ParentTypeOK
  <2>3. children \in [Node -> Seq(Fun)] /\ level \in [Node -> Nat]
    BY DEF TreeInv, TreeTypeOK
  <2> QED BY <1>5, <2>1, <2>2, <2>3
<1>8. /\ mapping'[n] = 0 /\ mapping'[p] = 0
      /\ \A f \in Node : f # n => mapping'[f] = mapping[f] /\ level'[f] = level[f]
      /\ level'[n] = level[p] + 1 /\ level'[p] = level[p]
  BY <1>3, <1>5, <1>6, <1>7
<1>9. \A q \in Node : \A i \in Nat : \A f \in Fun :
        Hangs(children', q, i, f)
          <=> Hangs(children, q, i, f) \/ (q = p /\ i = Len(children[p]) + 1 /\ f = n)
  <2>1. PICK ch \in [Node -> Seq(Fun)] : ch = children
    BY <1>7
  <2>2. \A q \in Node : \A i \in Nat : \A f \in Fun :
          Hangs([ch EXCEPT ![p] = Append(@, n)], q, i, f)
            <=> Hangs(ch, q, i, f) \/ (q = p /\ i = Len(ch[p]) + 1 /\ f = n)
    <3>1. p \in Node /\ n \in Fun
      BY <1>5
    <3> QED BY <3>1, HangsAppended, Zenon
  <2>3. children' = [ch EXCEPT ![p] = Append(@, n)]
    BY <1>3, <2>1, Zenon
  <2> QED BY <2>1, <2>2, <2>3, Zenon
<1>10. \A q \in Node : \A i \in Nat : \A f \in Fun :
         Hangs(children, q, i, f) =>
           mapping[q] = 0 /\ mapping[f] = 0 /\ level[f] = level[q] + 1 /\ f # n /\ q # n
  BY <1>6 DEF TreeInv, EdgesInv
<1>11. Len(children[p]) + 1 \in Nat
  BY <1>5, <1>7
<1>12. TreeTypeOK'
  <2>1. children' \in [Node -> Seq(Fun)]
    <3>1. Append(children[p], n) \in Seq(Fun)
      BY <1>5, <1>7, AppendProperties
    <3> QED BY <1>3, <1>5, <1>7, <3>1
  <2>2. level' \in [Node -> Nat]
    <3>1. level[p] \in Nat
      BY <1>5, <1>7
    <3>2. level[p] + 1 \in Nat
      BY <3>1
    <3> QED BY <1>3, <1>7, <3>2, Zenon
  <2> QED BY <1>3, <2>1, <2>2 DEF TreeInv, TreeTypeOK
<1>13. CalledInv'
  <2> SUFFICES ASSUME NEW f \in Fun
               PROVE  f \in Called'
                        <=> mapping'[f] # 0 \/ \E q \in Node : \E i \in Nat :
                                                 Hangs(children', q, i, f)
    BY DEF CalledInv
  <2>1. Called' = Called
    BY <1>3 DEF Called
  <2>2. f \in Called
          <=> mapping[f] # 0 \/ \E q \in Node : \E i \in Nat : Hangs(children, q, i, f)
    BY DEF TreeInv, CalledInv
  <2>3. CASE f = n
    BY <1>5, <1>6, <1>9, <1>11, <2>1, <2>2, <2>3
  <2>4. CASE f # n
    BY <1>7, <1>8, <1>9, <2>1, <2>2, <2>4
  <2> QED BY <2>3, <2>4
<1>14. EdgesInv'
  <2> SUFFICES ASSUME NEW q \in Node, NEW i \in Nat, NEW f \in Fun,
                      Hangs(children', q, i, f)
               PROVE  mapping'[q] = 0 /\ mapping'[f] = 0 /\ level'[f] = level'[q] + 1
    BY DEF EdgesInv
  <2>1. CASE Hangs(children, q, i, f)
    BY <1>7, <1>8, <1>10, <2>1
  <2>2. CASE q = p /\ f = n
    BY <1>8, <2>2
  <2> QED BY <1>9, <2>1, <2>2
<1>15. HangsOnce(children)'
  <2> SUFFICES ASSUME NEW q \in Node, NEW r \in Node, NEW i \in Nat, NEW j \in Nat,
                      NEW f \in Fun, Hangs(children', q, i, f), Hangs(children', r, j, f)
               PROVE  q = r /\ i = j
    BY DEF HangsOnce
  <2>1. CASE f = n
    BY <1>9, <1>10, <2>1
  <2>2. CASE f # n
    <3>1. Hangs(children, q, i, f) /\ Hangs(children, r, j, f)
      BY <1>9, <2>2
    <3> QED BY <3>1 DEF TreeInv, HangsOnce
  <2> QED BY <2>1, <2>2
<1>16. ChainInv'
  <2> SUFFICES ASSUME NEW i \in 1 .. m - 1
               PROVE  /\ mapping'[pending'[i].node] # 0
                      /\ pending'[i].parent = Caller(pending[i].node)'
                      /\ i < m - 1 => pending'[i + 1].node = pending'[i].parent
    BY <1>5 DEF ChainInv
  <2>1. i \in 1 .. m /\ i < m /\ pending'[i] = s[i]
    BY <1>5
  <2>2. /\ mapping[s[i].node] # 0 /\ s[i].parent = Caller(s[i].node)
        /\ s[i + 1].node = s[i].parent
    BY <1>1, <1>4, <2>1 DEF TreeInv, ChainInv
  <2>3. s[i].node \in Node
    <3>1. s[i] \in [node : Fun, parent : Node]
      BY <1>4, <2>1, ElementOfSeq
    <3> QED BY <1>7, <3>1
  <2>4. s[i].node # n
    BY <1>1, <1>4, <1>5, <2>1, PendingDistinct
  <2>5. mapping'[s[i].node] = mapping[s[i].node]
    BY <1>8, <2>3, <2>4
  <2>6. i < m - 1 => pending'[i + 1] = s[i + 1]
    BY <1>5
  <2> QED BY <2>1, <2>2, <2>5, <2>6 DEF Caller
<1>17. ProgressInv'
  <2> SUFFICES ASSUME NEW g \in Fun, g < index
               PROVE  mapping'[g] = 0 \/ (pending' # << >> /\ pending'[1].node = g)
    BY <1>3 DEF ProgressInv
  <2>1. mapping[g] = 0 \/ s[1].node = g
    BY <1>1 DEF TreeInv, ProgressInv
  <2>2. CASE mapping[g] = 0
    BY <1>7, <1>8, <2>2
  <2>3. CASE s[1].node = g /\ m = 1
    BY <1>5, <1>8, <2>3
  <2>4. CASE s[1].node = g /\ m # 1
    <3>1. 1 \in 1 .. m - 1
      BY <1>5, <2>4
    <3>2. pending'[1] = s[1] /\ Len(pending') # 0
      BY <1>5, <3>1
    <3> QED BY <1>5, <2>4, <3>2
  <2> QED BY <2>1, <2>2, <2>3, <2>4
<1>18. StacksAgree'
  BY <1>3 DEF StacksAgree
<1>19. CallersInv'
  <2> SUFFICES ASSUME stack = frames
               PROVE  /\ \A f \in Fun : mapping'[f] # 0 => << Caller(f)', f >> \in calls
                      /\ \A q \in Node : \A i \in Nat : \A f \in Fun :
                           Hangs(children', q, i, f) => << q, f >> \in calls
    BY <1>3 DEF CallersInv
  <2>1. /\ \A f \in Fun : mapping[f] # 0 => << Caller(f), f >> \in calls
        /\ \A q \in Node : \A i \in Nat : \A f \in Fun :
             Hangs(children, q, i, f) => << q, f >> \in calls
    BY <1>3 DEF TreeInv, CallersInv
  <2>2. \A f \in Fun : mapping'[f] # 0 => mapping[f] # 0 /\ Caller(f)' = Caller(f)
    BY <1>7, <1>8 DEF Caller
  <2>3. << p, n >> \in calls
    BY <1>5, <1>6, <2>1
  <2> QED BY <1>9, <2>1, <2>2, <2>3
<1> QED BY <1>12, <1>13, <1>14, <1>15, <1>16, <1>17, <1>18, <1>19 DEF TreeInv

\* Every step preserves the invariant of the tree.
LEMMA TreeStep ==
  ASSUME IInv, TreeInv, [Next]_vars
  PROVE  TreeInv'
<1>1. ASSUME NEW f \in Fun, Call(f) PROVE TreeInv'
  BY <1>1, TreeCall
<1>2. CASE Leave
  BY <1>2, TreeLeave
<1>3. ASSUME NEW k \in 0 .. MaxDepth, Unwind(k) PROVE TreeInv'
  BY <1>3, TreeUnwind
<1>4. ASSUME NEW result \in {"Passed", "Failed"}, TestFinishes(result) PROVE TreeInv'
  BY <1>4, TreeQuiet DEF TestFinishes, programVars, treeVars
<1>5. CASE FillIn
  BY <1>5, TreeFillIn
<1>6. CASE FillInParent
  BY <1>6, TreeFillInParent
<1>7. CASE AttachNode
  BY <1>7, TreeAttach
<1>8. CASE StartExtraction
  <2>1. /\ phase = "build" /\ pending = << >> /\ index > N /\ phase' = "extract"
        /\ UNCHANGED << mapping, stack, frames, calls, index, pending, children, level >>
    BY <1>8 DEF StartExtraction, programVars, treeVars
  <2>2. \A g \in Node : mapping[g] = 0
    <3> SUFFICES ASSUME NEW g \in Node PROVE mapping[g] = 0
      OBVIOUS
    <3>1. g = 0 \/ (g \in Fun /\ g < index)
      BY <2>1, CallTreeAssumption DEF Fun, Node, TreeInv, TreeTypeOK
    <3> QED BY <2>1, <3>1 DEF IInv, PhonyRoot, TreeInv, ProgressInv
  <2> QED BY <2>1, <2>2, TreeQuiet
<1>9. CASE ExtractNode \/ StartCollection \/ CollectSubtree \/ CollectNode
  <2>1. /\ phase \in {"extract", "collect"} /\ phase' \in {"extract", "collect"}
        /\ UNCHANGED << mapping, stack, frames, calls, index, pending, children, level >>
    BY <1>9 DEF ExtractNode, StartCollection, CollectSubtree, CollectNode, programVars,
                treeVars
  <2>2. \A g \in Node : mapping[g] = 0
    BY <2>1 DEF TreeInv, ProgressInv
  <2> QED BY <2>1, <2>2, TreeQuiet
<1>10. CASE Store
  BY <1>10, TreeQuiet DEF Store, programVars, treeVars
<1>11. CASE Done \/ UNCHANGED vars
  BY <1>11, TreeQuiet DEF Done, vars, programVars, treeVars, TreeInv, ProgressInv
<1> QED
  BY <1>1, <1>2, <1>3, <1>4, <1>5, <1>6, <1>7, <1>8, <1>9, <1>10, <1>11
     DEF Next, Program, Collecting

\* ... which holds in every reachable state.
LEMMA TreeInvariance == Spec => [](IInv /\ TreeInv)
<1>1. Init => IInv /\ TreeInv
  BY InitIInv, TreeInit
<1>2. IInv /\ TreeInv /\ [Next]_vars => (IInv /\ TreeInv)'
  BY NextIInv, TreeStep
<1> QED BY <1>1, <1>2, PTL DEF Spec

\* The three states of the mapping: unless frames were unwound, a function has an
\* entry exactly when it was called, and the entry is one of its callers.
THEOREM CallersAreRecorded == Spec => []ParentIsACallerUntilUnwound
<1>1. IInv /\ TreeInv => ParentIsACallerUntilUnwound
  <2> SUFFICES ASSUME IInv, TreeInv, stack = frames, phase = "running"
               PROVE  /\ \A f \in Fun : mapping[f] # 0 <=> f \in Called
                      /\ \A f \in Called :
                           << IF mapping[f] = f THEN 0 ELSE mapping[f], f >> \in calls
    BY DEF ParentIsACallerUntilUnwound, NothingUnwound, ParentIsACaller
  <2>1. \A p \in Node : \A i \in Nat : \A f \in Fun : ~Hangs(children, p, i, f)
    BY NothingHangs DEF TreeInv, ProgressInv
  <2>2. \A f \in Fun : mapping[f] # 0 <=> f \in Called
    BY <2>1 DEF TreeInv, CalledInv
  <2>3. Called \subseteq Fun
    BY DEF Called, TreeInv, TreeTypeOK
  <2>4. \A f \in Fun : mapping[f] # 0 => << Caller(f), f >> \in calls
    BY DEF TreeInv, CallersInv
  <2> QED BY <2>2, <2>3, <2>4 DEF Caller
<1> QED BY <1>1, TreeInvariance, PTL

\* When the tree is built each called function is in it exactly once, one level below
\* its parent, and the mapping is used up.
THEOREM EveryCallIsInTheTree == Spec => []TreeHasEveryCall
<1>1. IInv /\ TreeInv => TreeHasEveryCall
  <2> SUFFICES ASSUME IInv, TreeInv, phase \in {"extract", "collect"}
               PROVE  /\ \A f \in Fun : Occurrences(f) = IF f \in Called THEN 1 ELSE 0
                      /\ \A p \in Node : \A i \in DOMAIN children[p] :
                           level[children[p][i]] = level[p] + 1
                      /\ mapping = [f \in Node |-> 0]
    BY DEF TreeHasEveryCall
  <2>1. /\ children \in [Node -> Seq(Fun)] /\ mapping \in [Node -> Node]
        /\ \A g \in Node : mapping[g] = 0
    BY DEF IInv, ParentTypeOK, TreeInv, TreeTypeOK, ProgressInv
  <2>2. \A p \in Node : DOMAIN children[p] = 1 .. Len(children[p])
    <3> SUFFICES ASSUME NEW p \in Node PROVE DOMAIN children[p] = 1 .. Len(children[p])
      OBVIOUS
    <3>1. children[p] \in Seq(Fun)
      BY <2>1
    <3> QED BY <3>1, LenProperties
  <2>3. ASSUME NEW p \in Node, NEW i \in DOMAIN children[p]
        PROVE  i \in Nat /\ children[p][i] \in Fun /\ Hangs(children, p, i, children[p][i])
    <3>1. i \in 1 .. Len(children[p])
      BY <2>2, <2>3, Zenon
    <3>2. children[p] \in Seq(Fun)
      BY <2>1
    <3> QED BY <3>1, <3>2 DEF Hangs
  <2>4. \A p \in Node : \A i \in DOMAIN children[p] :
          level[children[p][i]] = level[p] + 1
    BY <2>3 DEF TreeInv, EdgesInv
  <2>5. mapping = [f \in Node |-> 0]
    BY <2>1
  <2>6. ASSUME NEW f \in Fun PROVE Occurrences(f) = IF f \in Called THEN 1 ELSE 0
    <3>1. PICK O : O = {c \in Places : children[c[1]][c[2]] = f}
      OBVIOUS
    <3>2. \A c : c \in Places <=> \E p \in Node : \E i \in DOMAIN children[p] : c = << p, i >>
      <4>1. \A c : c \in Places <=> \E p \in Node : c \in {p} \X DOMAIN children[p]
        BY DEF Places
      <4>2. \A p, D, c : c \in {p} \X D <=> \E i \in D : c = << p, i >>
        OBVIOUS
      <4> SUFFICES ASSUME NEW c
                   PROVE  c \in Places
                            <=> \E p \in Node : \E i \in DOMAIN children[p] : c = << p, i >>
        OBVIOUS
      <4>3. ASSUME NEW p \in Node
            PROVE  c \in {p} \X DOMAIN children[p] <=> \E i \in DOMAIN children[p] : c = << p, i >>
        BY <4>2
      <4> QED BY <4>1, <4>3, Zenon
    <3>3. f \in Called <=> \E p \in Node : \E i \in Nat : Hangs(children, p, i, f)
      <4>1. Fun \subseteq Node
        BY DEF Fun, Node
      <4> QED BY <2>1, <4>1 DEF TreeInv, CalledInv
    <3>4. CASE f \in Called
      <4>1. PICK p \in Node, i \in Nat : Hangs(children, p, i, f)
        BY <3>3, <3>4
      <4>2. PICK c : c = << p, i >>
        OBVIOUS
      <4>3. c \in O
        <5>1. i \in 1 .. Len(children[p]) /\ children[p][i] = f
          BY <4>1 DEF Hangs
        <5>2. i \in DOMAIN children[p]
          BY <2>2, <5>1, Zenon
        <5>3. c \in Places
          BY <3>2, <4>2, <5>2, Zenon
        <5>4. c[1] = p /\ c[2] = i
          BY <4>2
        <5> QED BY <3>1, <5>1, <5>3, <5>4, Zenon
      <4>4. ASSUME NEW d \in O PROVE d = c
        <5>1. PICK q \in Node : \E j \in DOMAIN children[q] : d = << q, j >>
          BY <3>1, <3>2, <4>4, Zenon
        <5>2. PICK j \in DOMAIN children[q] : d = << q, j >>
          BY <5>1
        <5>3. d[1] = q /\ d[2] = j
          BY <5>2
        <5>4. children[q][j] = f
          BY <3>1, <4>4, <5>3, Zenon
        <5>5. Hangs(children, q, j, f) /\ j \in Nat
          BY <2>3, <5>2, <5>4, Zenon
        <5>6. q = p /\ j = i
          BY <4>1, <5>5 DEF TreeInv, HangsOnce
        <5> QED BY <4>2, <5>2, <5>6
      <4>5. O = {c}
        BY <4>3, <4>4
      <4> QED BY <3>1, <3>4, <4>5, FS_Singleton, Zenon DEF Occurrences
    <3>5. CASE f \notin Called
      <4>1. ASSUME NEW d \in O PROVE FALSE
        <5>1. PICK q \in Node : \E j \in DOMAIN children[q] : d = << q, j >>
          BY <3>1, <3>2, <4>1, Zenon
        <5>2. PICK j \in DOMAIN children[q] : d = << q, j >>
          BY <5>1
        <5>3. d[1] = q /\ d[2] = j
          BY <5>2
        <5>4. children[q][j] = f
          BY <3>1, <4>1, <5>3, Zenon
        <5> QED BY <2>3, <3>3, <3>5, <5>2, <5>4, Zenon
      <4>2. O = {}
        BY <4>1
      <4> QED BY <3>1, <3>5, <4>2, FS_EmptySet, Zenon DEF Occurrences
    <3> QED BY <3>4, <3>5
  <2> QED BY <2>4, <2>5, <2>6
<1> QED BY <1>1, TreeInvariance, PTL

-----------------------------------------------------------------------------
(* The queue of a search: its head is replaced by what hangs under it.     *)

\* What is in the queue after a step.
LEMMA QueueStep ==
  ASSUME NEW X, NEW q \in Seq(X), q # << >>, Distinct(q), NEW c \in Seq(X), Distinct(c),
         \A x \in X : Queued(c, x) => ~Queued(q, x)
  PROVE  /\ Tail(q) \o c \in Seq(X) /\ Distinct(Tail(q) \o c)
         /\ \A x \in X : Queued(Tail(q) \o c, x)
                           <=> (Queued(q, x) /\ x # Head(q)) \/ Queued(c, x)
<1>1. PICK t \in Seq(X) : t = Tail(q)
  BY HeadTailProperties
<1>2. PICK n \in Nat : n = Len(t)
  OBVIOUS
<1>3. PICK m \in Nat : m = Len(c)
  OBVIOUS
<1>4. Len(q) = n + 1 /\ Head(q) = q[1] /\ \A i \in 1 .. n : t[i] = q[i + 1]
  BY <1>1, <1>2
<1>5. PICK u \in Seq(X) : u = t \o c
  BY ConcatProperties
<1>6. /\ Len(u) = n + m
      /\ \A i \in 1 .. n : u[i] = t[i]
      /\ \A i \in 1 .. m : u[n + i] = c[i]
  BY <1>2, <1>3, <1>5
<1>7. \A i \in 1 .. n + m : i \in 1 .. n \/ (i - n \in 1 .. m /\ i = n + (i - n))
  OBVIOUS
<1>8. /\ \A i \in 1 .. n : u[i] = q[i + 1] /\ i + 1 \in 1 .. n + 1
      /\ \A i \in 1 .. n + m : i \in 1 .. n \/ (i - n \in 1 .. m /\ u[i] = c[i - n])
  BY <1>4, <1>6, <1>7
<1>9. /\ \A i \in 1 .. n + 1 : q[i] \in X
      /\ \A i \in 1 .. m : c[i] \in X
  BY <1>3, <1>4
<1>10. /\ \A i, j \in 1 .. n + 1 : q[i] = q[j] => i = j
       /\ \A i, j \in 1 .. m : c[i] = c[j] => i = j
       /\ \A i \in 1 .. n + 1 : \A j \in 1 .. m : q[i] # c[j]
  BY <1>3, <1>4, <1>9 DEF Distinct, Queued
<1>11. Distinct(u)
  <2> SUFFICES ASSUME NEW i \in 1 .. n + m, NEW j \in 1 .. n + m, u[i] = u[j]
               PROVE  i = j
    BY <1>6 DEF Distinct
  <2>1. CASE i \in 1 .. n /\ j \in 1 .. n
    <3>1. i + 1 = j + 1
      BY <1>8, <1>10, <2>1
    <3> QED BY <3>1
  <2>2. CASE i \in 1 .. n /\ j \notin 1 .. n
    BY <1>8, <1>10, <2>2
  <2>3. CASE i \notin 1 .. n /\ j \in 1 .. n
    BY <1>8, <1>10, <2>3
  <2>4. CASE i \notin 1 .. n /\ j \notin 1 .. n
    <3>1. i - n = j - n
      BY <1>8, <1>10, <2>4
    <3> QED BY <3>1
  <2> QED BY <2>1, <2>2, <2>3, <2>4
<1>12. ASSUME NEW x \in X
       PROVE  Queued(u, x) <=> (Queued(q, x) /\ x # Head(q)) \/ Queued(c, x)
  <2>1. ASSUME Queued(u, x) PROVE (Queued(q, x) /\ x # Head(q)) \/ Queued(c, x)
    <3>1. PICK i \in 1 .. n + m : u[i] = x
      BY <1>6, <2>1 DEF Queued
    <3>2. CASE i \in 1 .. n
      <4>1. q[i + 1] = x /\ i + 1 \in 1 .. n + 1 /\ i + 1 # 1 /\ 1 \in 1 .. n + 1
        BY <1>8, <3>1, <3>2
      <4>2. x # q[1]
        BY <1>10, <4>1
      <4> QED BY <1>4, <4>1, <4>2 DEF Queued
    <3>3. CASE i \notin 1 .. n
      <4>1. i - n \in 1 .. m /\ c[i - n] = x
        BY <1>8, <3>1, <3>3
      <4> QED BY <1>3, <4>1 DEF Queued
    <3> QED BY <3>2, <3>3
  <2>2. ASSUME Queued(q, x), x # Head(q) PROVE Queued(u, x)
    <3>1. PICK i \in 1 .. n + 1 : q[i] = x
      BY <1>4, <2>2 DEF Queued
    <3>2. i # 1
      BY <1>4, <2>2, <3>1
    <3>3. i - 1 \in 1 .. n /\ (i - 1) + 1 = i /\ i - 1 \in 1 .. n + m
      BY <3>2
    <3>4. u[i - 1] = x
      BY <1>8, <3>1, <3>3
    <3> QED BY <1>6, <3>3, <3>4 DEF Queued
  <2>3. ASSUME Queued(c, x) PROVE Queued(u, x)
    <3>1. PICK i \in 1 .. m : c[i] = x
      BY <1>3, <2>3 DEF Queued
    <3>2. n + i \in 1 .. n + m /\ u[n + i] = x
      BY <1>6, <3>1
    <3> QED BY <1>6, <3>2 DEF Queued
  <2> QED BY <2>1, <2>2, <2>3
<1> QED BY <1>1, <1>5, <1>11, <1>12

\* The children of a node are distinct, and hang under it.
LEMMA ChildrenDistinct ==
  ASSUME NEW ch \in [Node -> Seq(Fun)], HangsOnce(ch), NEW h \in Node
  PROVE  /\ ch[h] \in Seq(Fun) /\ Distinct(ch[h])
         /\ \A f : Queued(ch[h], f) => f \in Fun /\ \E i \in Nat : Hangs(ch, h, i, f)
<1>1. PICK c \in Seq(Fun) : c = ch[h]
  OBVIOUS
<1>2. PICK m \in Nat : m = Len(c)
  OBVIOUS
<1>3. \A i \in 1 .. m : i \in Nat /\ c[i] \in Fun /\ Hangs(ch, h, i, c[i])
  BY <1>1, <1>2 DEF Hangs
<1>4. \A i, j \in 1 .. m : c[i] = c[j] => i = j
  BY <1>3 DEF HangsOnce
<1>5. \A f : Queued(c, f) => f \in Fun /\ \E i \in Nat : Hangs(ch, h, i, f)
  BY <1>2, <1>3 DEF Queued
<1> QED BY <1>1, <1>2, <1>4, <1>5 DEF Distinct

\* The head of a queue.
LEMMA HeadQueued ==
  ASSUME NEW X, NEW q \in Seq(X), q # << >>
  PROVE  Head(q) \in X /\ Queued(q, Head(q)) /\ Head(q) = q[1]
<1>1. 1 \in 1 .. Len(q) /\ q[1] = Head(q)
  OBVIOUS
<1> QED BY <1>1 DEF Queued

\* One iteration of extractTestSubtrees.
LEMMA ExtractStep ==
  ASSUME NEW ch \in [Node -> Seq(Fun)], HangsOnce(ch), NEW P \in SUBSET Node, NEW q, NEW s,
         Extracting(P, q, ch, s), q # << >>
  PROVE  Extracting(P \union {Head(q)}, Tail(q) \o ch[Head(q)], ch,
                    IF Head(q) = TestBody THEN Append(s, TestBody) ELSE s)
<1>1. PICK h \in Node : h = Head(q) /\ Queued(q, h)
  BY HeadQueued DEF Extracting
<1>2. q \in Seq(Node) /\ Distinct(q) /\ h \notin P
  BY <1>1 DEF Extracting
<1>3. PICK c \in Seq(Fun) : c = ch[h]
  OBVIOUS
<1>4. /\ Distinct(c)
      /\ \A f : Queued(c, f) => f \in Fun /\ \E i \in Nat : Hangs(ch, h, i, f)
  BY <1>3, ChildrenDistinct
<1>5. \A f \in Fun : Queued(c, f) => f \notin P /\ ~Queued(q, f)
  BY <1>2, <1>4 DEF Extracting
<1>6. c \in Seq(Node) /\ \A x \in Node : Queued(c, x) => ~Queued(q, x)
  <2>1. Fun \subseteq Node
    BY DEF Fun, Node
  <2>2. c \in Seq(Node)
    BY <2>1
  <2> QED BY <1>4, <1>5, <2>2
<1>7. PICK t : t = Tail(q) \o c
  OBVIOUS
<1>8. /\ t \in Seq(Node) /\ Distinct(t)
      /\ \A x \in Node : Queued(t, x) <=> (Queued(q, x) /\ x # h) \/ Queued(c, x)
  <2>1. /\ Tail(q) \o c \in Seq(Node) /\ Distinct(Tail(q) \o c)
        /\ \A x \in Node : Queued(Tail(q) \o c, x)
                             <=> (Queued(q, x) /\ x # Head(q)) \/ Queued(c, x)
    BY <1>2, <1>4, <1>6, QueueStep
  <2> QED BY <1>1, <1>7, <2>1, Zenon
<1>9. PICK R \in SUBSET Node : R = P \union {h}
  OBVIOUS
<1>10. \A x \in Node : Queued(t, x) => x \notin R
  <2> SUFFICES ASSUME NEW x \in Node, Queued(t, x) PROVE x \notin P /\ x # h
    BY <1>9
  <2>1. CASE Queued(q, x) /\ x # h
    BY <2>1 DEF Extracting
  <2>2. CASE Queued(c, x)
    BY <1>1, <1>4, <1>5, <2>2
  <2> QED BY <1>8, <2>1, <2>2
<1>11. ASSUME NEW p \in Node, NEW i \in Nat, NEW f \in Fun, Hangs(ch, p, i, f),
              f \in R \/ Queued(t, f)
       PROVE  p \in R
  <2>1. f \in Node
    BY DEF Fun, Node
  <2>2. CASE f \in P \/ Queued(q, f)
    BY <1>9, <1>11, <2>2 DEF Extracting
  <2>3. CASE Queued(c, f)
    <3>1. PICK j \in Nat : Hangs(ch, h, j, f)
      BY <1>4, <2>3
    <3> QED BY <1>9, <1>11, <3>1 DEF HangsOnce
  <2> QED BY <1>1, <1>8, <1>9, <1>11, <2>1, <2>2, <2>3
<1>12. (IF h = TestBody THEN Append(s, TestBody) ELSE s)
          = IF TestBody \in R THEN << TestBody >> ELSE << >>
  <2>1. s = IF TestBody \in P THEN << TestBody >> ELSE << >>
    BY DEF Extracting
  <2>2. CASE h = TestBody
    <3>1. s = << >>
      BY <1>2, <2>1, <2>2
    <3> QED BY <1>9, <2>2, <3>1
  <2>3. CASE h # TestBody
    BY <1>9, <2>1, <2>3
  <2> QED BY <2>2, <2>3
<1>13. Extracting(R, t, ch, IF h = TestBody THEN Append(s, TestBody) ELSE s)
  BY <1>8, <1>10, <1>11, <1>12 DEF Extracting
<1> QED BY <1>1, <1>3, <1>7, <1>9, <1>13, Zenon

-----------------------------------------------------------------------------
(* createReachableFunctions.                                               *)

\* What is in the result when an entry is added to it.
LEMMA ReachedAppended ==
  ASSUME NEW E, NEW r \in Seq(E), NEW e \in E
  PROVE  /\ Append(r, e) \in Seq(E) /\ Append(r, e) # << >>
         /\ \A x : Reached(Append(r, e), x) <=> Reached(r, x) \/ x = e.function
         /\ r # << >> => Append(r, e)[1] = r[1]
         /\ r = << >> => Append(r, e)[1] = e
<1>1. PICK n \in Nat : n = Len(r)
  OBVIOUS
<1>2. PICK u \in Seq(E) : u = Append(r, e)
  BY AppendProperties
<1>3. Len(u) = n + 1 /\ u[n + 1] = e /\ \A i \in 1 .. n : u[i] = r[i]
  BY <1>1, <1>2
<1>4. \A i \in 1 .. n + 1 : i \in 1 .. n \/ i = n + 1
  OBVIOUS
<1>5. n + 1 \in 1 .. n + 1 /\ \A i \in 1 .. n : i \in 1 .. n + 1
  OBVIOUS
<1>6. ASSUME NEW x PROVE Reached(u, x) <=> Reached(r, x) \/ x = e.function
  BY <1>1, <1>3, <1>4, <1>5 DEF Reached
<1>7. u # << >>
  BY <1>3
<1>8. r # << >> => u[1] = r[1]
  <2> SUFFICES ASSUME r # << >> PROVE 1 \in 1 .. n
    BY <1>3
  <2> QED BY <1>1
<1>9. r = << >> => u[1] = e
  BY <1>1, <1>3
<1> QED BY <1>2, <1>6, <1>7, <1>8, <1>9

\* An iteration with h at distance d takes the search from q and r to t and u.
Goes(q, r, h, d, t, u, ch, lv) ==
  /\ h \in Fun /\ Queued(q, h) /\ d \in 0 .. MaxDistance
  /\ Collected(u, lv) /\ Visiting(t, u, ch, lv) /\ u # << >>
  /\ \A x : Reached(u, x) <=> Reached(r, x) \/ x = h
  /\ \A x \in Fun : Queued(t, x) =>
       \/ Queued(q, x)
       \/ d < MaxDistance /\ lv[x] = lv[h] + 1 /\ \E i \in Nat : Hangs(ch, h, i, x)

\* One iteration of the inner loop of createReachableFunctions.
LEMMA VisitStep ==
  ASSUME NEW ch \in [Node -> Seq(Fun)], HangsOnce(ch), NEW lv \in [Node -> Nat],
         \A p \in Node : \A i \in Nat : \A f \in Fun :
           Hangs(ch, p, i, f) => lv[f] = lv[p] + 1,
         NEW q, NEW r, q # << >>, Collected(r, lv), Visiting(q, r, ch, lv),
         NEW h, h = Head(q), NEW d, d = lv[h] - lv[TestBody],
         NEW c, c = IF d < MaxDistance THEN ch[h] ELSE << >>,
         NEW t, t = Tail(q) \o c,
         NEW u, u = Append(r, [function |-> h, distance |-> d])
  PROVE  Goes(q, r, h, d, t, u, ch, lv)
<1>1. q \in Seq(Fun) /\ Distinct(q)
  BY DEF Visiting
<1>2. h \in Fun /\ Queued(q, h) /\ h = q[1]
  BY <1>1, HeadQueued
<1>3. Fun \subseteq Node /\ TestBody \in Fun /\ MaxDistance \in Nat
  BY CallTreeAssumption DEF Fun, Node
<1>4. ~Reached(r, h) /\ InReach(h, lv)
  BY <1>2 DEF Visiting
<1>5. \A x \in Fun : lv[x] \in Nat
  BY <1>3
<1>6. d \in 0 .. MaxDistance
  BY <1>2, <1>3, <1>4, <1>5 DEF InReach
<1>7. /\ c \in Seq(Fun) /\ Distinct(c)
      /\ \A x : Queued(c, x) => x \in Fun /\ d < MaxDistance /\ \E i \in Nat : Hangs(ch, h, i, x)
  <2>1. CASE d < MaxDistance
    BY <1>2, <1>3, <2>1, ChildrenDistinct
  <2>2. CASE ~(d < MaxDistance)
    <3>1. c = << >> /\ Len(c) = 0
      BY <2>2
    <3>2. << >> \in Seq(Fun)
      OBVIOUS
    <3>3. Distinct(c) /\ \A x : ~Queued(c, x)
      BY <3>1 DEF Queued, Distinct
    <3> QED BY <3>1, <3>2, <3>3
  <2> QED BY <2>1, <2>2
<1>8. \A x \in Fun : Queued(c, x) => lv[x] = lv[h] + 1
  BY <1>2, <1>3, <1>7
<1>9. \A x \in Fun : Queued(c, x) => x # TestBody /\ InReach(x, lv)
  <2> SUFFICES ASSUME NEW x \in Fun, Queued(c, x) PROVE x # TestBody /\ InReach(x, lv)
    OBVIOUS
  <2>1. lv[x] = lv[h] + 1 /\ d < MaxDistance
    BY <1>7, <1>8
  <2>2. lv[h] >= lv[TestBody]
    BY <1>2, <1>3, <1>4, <1>5 DEF InReach
  <2>3. lv[x] > lv[TestBody] /\ lv[x] <= lv[TestBody] + MaxDistance
    BY <1>2, <1>3, <1>5, <2>1, <2>2
  <2> QED BY <1>3, <1>5, <2>3 DEF InReach
<1>10. \A x \in Fun : Queued(c, x) => ~Queued(q, x) /\ ~Reached(r, x)
  <2> SUFFICES ASSUME NEW x \in Fun, Queued(c, x), Queued(q, x) \/ Reached(r, x) PROVE FALSE
    OBVIOUS
  <2>1. PICK i \in Nat : Hangs(ch, h, i, x)
    BY <1>7
  <2>2. Reached(r, h)
    BY <1>2, <1>3, <1>9, <2>1 DEF Visiting
  <2> QED BY <1>4, <2>2
<1>11. /\ t \in Seq(Fun) /\ Distinct(t)
       /\ \A x \in Fun : Queued(t, x) <=> (Queued(q, x) /\ x # h) \/ Queued(c, x)
  <2>1. \A x \in Fun : Queued(c, x) => ~Queued(q, x)
    BY <1>10
  <2>2. /\ Tail(q) \o c \in Seq(Fun) /\ Distinct(Tail(q) \o c)
        /\ \A x \in Fun : Queued(Tail(q) \o c, x)
                            <=> (Queued(q, x) /\ x # Head(q)) \/ Queued(c, x)
    BY <1>1, <1>7, <2>1, QueueStep
  <2> QED BY <2>2, Zenon
<1> DEFINE E == [function : Fun, distance : Nat]
<1>12. PICK e \in E : e = [function |-> h, distance |-> d]
  BY <1>2, <1>3, <1>6
<1>13. e.function = h /\ e.distance = d
  BY <1>12
<1>14. r \in Seq(E)
  BY DEF Collected
<1>15. u = Append(r, e)
  BY <1>12, Zenon
<1> HIDE DEF E
<1>16. /\ u \in Seq(E) /\ u # << >>
       /\ \A x : Reached(u, x) <=> Reached(r, x) \/ x = h
       /\ r # << >> => u[1] = r[1]
       /\ r = << >> => u[1] = e
  <2>1. /\ Append(r, e) \in Seq(E) /\ Append(r, e) # << >>
        /\ \A x : Reached(Append(r, e), x) <=> Reached(r, x) \/ x = e.function
        /\ r # << >> => Append(r, e)[1] = r[1]
        /\ r = << >> => Append(r, e)[1] = e
    BY <1>14, ReachedAppended
  <2> QED BY <1>13, <1>15, <2>1, Zenon
<1>17. Collected(u, lv)
  <2>1. u[1].function = TestBody
    <3>1. CASE r = << >>
      BY <1>2, <1>13, <1>16, <3>1 DEF Visiting
    <3>2. CASE r # << >>
      BY <1>16, <3>2 DEF Collected
    <3> QED BY <3>1, <3>2
  <2>2. PICK n \in Nat : n = Len(r)
    BY <1>14
  <2>3. Len(u) = n + 1 /\ u[n + 1] = e /\ \A i \in 1 .. n : u[i] = r[i]
    BY <1>14, <1>15, <2>2
  <2>4. \A i \in 1 .. n + 1 : i \in 1 .. n \/ i = n + 1
    OBVIOUS
  <2>5. /\ \A i, j \in 1 .. n : r[i].function = r[j].function => i = j
        /\ \A i \in 1 .. n :
             /\ InReach(r[i].function, lv)
             /\ r[i].distance = lv[r[i].function] - lv[TestBody]
    BY <2>2 DEF Collected
  <2>6. \A i \in 1 .. n : r[i].function # h
    BY <1>4, <2>2 DEF Reached
  <2>7. \A i, j \in 1 .. n + 1 : u[i].function = u[j].function => i = j
    BY <1>13, <2>3, <2>4, <2>5, <2>6
  <2>8. \A i \in 1 .. n + 1 :
          /\ InReach(u[i].function, lv)
          /\ u[i].distance = lv[u[i].function] - lv[TestBody]
    BY <1>4, <1>13, <2>3, <2>4, <2>5
  <2>9. u \in Seq([function : Fun, distance : Nat])
    BY <1>16 DEF E
  <2> QED BY <2>1, <2>3, <2>7, <2>8, <2>9 DEF Collected
<1>18. \A x \in Fun : Queued(t, x) => ~Reached(u, x) /\ InReach(x, lv)
  <2> SUFFICES ASSUME NEW x \in Fun, Queued(t, x)
               PROVE  ~Reached(r, x) /\ x # h /\ InReach(x, lv)
    BY <1>16
  <2>1. CASE Queued(q, x) /\ x # h
    BY <2>1 DEF Visiting
  <2>2. CASE Queued(c, x)
    BY <1>2, <1>9, <1>10, <2>2
  <2> QED BY <1>11, <2>1, <2>2
<1>19. ASSUME NEW p \in Node, NEW i \in Nat, NEW f \in Fun, Hangs(ch, p, i, f),
              Reached(u, f) \/ Queued(t, f), f # TestBody
       PROVE  p \in Fun /\ Reached(u, p)
  <2>1. CASE Reached(r, f) \/ Queued(q, f)
    BY <1>16, <1>19, <2>1 DEF Visiting
  <2>2. CASE Queued(c, f)
    <3>1. PICK j \in Nat : Hangs(ch, h, j, f)
      BY <1>7, <2>2
    <3>2. p = h
      BY <1>2, <1>3, <1>19, <3>1 DEF HangsOnce
    <3> QED BY <1>2, <1>16, <3>2
  <2> QED BY <1>2, <1>11, <1>16, <1>19, <2>1, <2>2
<1>20. Visiting(t, u, ch, lv)
  BY <1>11, <1>16, <1>18, <1>19 DEF Visiting
<1> QED BY <1>2, <1>6, <1>7, <1>8, <1>11, <1>16, <1>17, <1>20 DEF Goes

-----------------------------------------------------------------------------
(* Calls from the test body.                                               *)

\* The test body is no call away from itself.
LEMMA NoCallAway == TestBody \in CallsAway(0)
<1>1. TestBody \in Fun
  BY CallTreeAssumption DEF Fun
<1>2. PICK w \in [0 .. 0 -> Fun] : w = [i \in 0 .. 0 |-> TestBody]
  BY <1>1
<1>3. w[0] = TestBody /\ \A i \in 1 .. 0 : << w[i - 1], w[i] >> \in calls
  BY <1>2
<1> QED BY <1>1, <1>3 DEF CallsAway

\* What a function calls is one call further away.
LEMMA OneCallFurther ==
  ASSUME NEW d \in Nat, NEW p \in Fun, NEW f \in Fun, p \in CallsAway(d),
         << p, f >> \in calls
  PROVE  f \in CallsAway(d + 1)
<1>1. PICK w \in [0 .. d -> Fun] :
        w[0] = TestBody /\ w[d] = p /\ \A i \in 1 .. d : << w[i - 1], w[i] >> \in calls
  BY DEF CallsAway
<1>2. PICK v \in [0 .. d + 1 -> Fun] : v = [i \in 0 .. d + 1 |-> IF i = d + 1 THEN f ELSE w[i]]
  <2>1. \A i \in 0 .. d + 1 : i = d + 1 \/ i \in 0 .. d
    OBVIOUS
  <2> QED BY <2>1
<1>3. v[d + 1] = f /\ \A i \in 0 .. d : v[i] = w[i]
  BY <1>2
<1>4. v[0] = TestBody
  BY <1>1, <1>3
<1>5. ASSUME NEW i \in 1 .. d + 1 PROVE << v[i - 1], v[i] >> \in calls
  <2>1. CASE i = d + 1
    <3>1. i - 1 = d /\ d \in 0 .. d
      BY <2>1
    <3> QED BY <1>1, <1>3, <2>1, <3>1
  <2>2. CASE i # d + 1
    <3>1. i \in 1 .. d /\ i \in 0 .. d /\ i - 1 \in 0 .. d
      BY <2>2
    <3> QED BY <1>1, <1>3, <3>1
  <2> QED BY <2>1, <2>2
<1> QED BY <1>3, <1>4, <1>5 DEF CallsAway

-----------------------------------------------------------------------------
(* The invariant of the searches.                                          *)

\* The searches have not begun.
LEMMA SearchInit == Init => SearchInv /\ DistanceInv
BY DEF Init, SearchInv, DistanceInv

\* The types of what the searches read, and the two facts about the tree they rest on.
LEMMA TreeFacts ==
  ASSUME TreeInv
  PROVE  /\ children \in [Node -> Seq(Fun)] /\ level \in [Node -> Nat] /\ HangsOnce(children)
         /\ \A p \in Node : \A i \in Nat : \A f \in Fun :
              Hangs(children, p, i, f) => level[f] = level[p] + 1
<1>1. children \in [Node -> Seq(Fun)] /\ level \in [Node -> Nat]
  BY DEF TreeInv, TreeTypeOK
<1>2. HangsOnce(children)
  BY DEF TreeInv
<1>3. \A p \in Node : \A i \in Nat : \A f \in Fun :
        Hangs(children, p, i, f) => level[f] = level[p] + 1
  BY DEF TreeInv, EdgesInv
<1> QED BY <1>1, <1>2, <1>3

\* extractTestSubtrees starts at the phony root.
LEMMA SearchStarts ==
  ASSUME SearchInv, StartExtraction
  PROVE  SearchInv' /\ DistanceInv'
<1>1. /\ phase = "build" /\ phase' = "extract" /\ queue' = << 0 >>
      /\ UNCHANGED << children, subtrees, reachable, storage >>
  BY DEF StartExtraction, treeVars
<1>2. subtrees = << >> /\ reachable = << >> /\ storage = << >>
  BY <1>1 DEF SearchInv
<1>3. 0 \in Node /\ 0 \notin Fun
  BY CallTreeAssumption DEF Fun, Node
<1>4. PICK q : q = << 0 >>
  OBVIOUS
<1>5. q \in Seq(Node)
  BY <1>3, <1>4
<1>6. Distinct(q) /\ \A x : Queued(q, x) => x = 0
  BY <1>4 DEF Distinct, Queued
<1>7. Extracting({}, q, children, << >>)
  BY <1>3, <1>5, <1>6 DEF Extracting
<1>8. \E P \in SUBSET Node : Extracting(P, queue', children', subtrees')
  BY <1>1, <1>2, <1>4, <1>7
<1>9. SearchInv'
  BY <1>1, <1>2, <1>8 DEF SearchInv
<1> QED BY <1>1, <1>9 DEF DistanceInv

\* An iteration of extractTestSubtrees.
LEMMA SearchExtracts ==
  ASSUME TreeInv, SearchInv, ExtractNode
  PROVE  SearchInv' /\ DistanceInv'
<1>1. /\ phase = "extract" /\ phase' = "extract" /\ queue # << >>
      /\ queue' = Tail(queue) \o children[Head(queue)]
      /\ subtrees' = IF Head(queue) = TestBody THEN Append(subtrees, TestBody) ELSE subtrees
      /\ UNCHANGED << children, reachable, storage >>
  BY DEF ExtractNode, treeVars
<1>2. PICK ch \in [Node -> Seq(Fun)] : ch = children
  BY TreeFacts
<1>3. HangsOnce(ch)
  BY <1>2, TreeFacts
<1>4. PICK q, s : q = queue /\ s = subtrees
  OBVIOUS
<1>5. PICK P \in SUBSET Node : Extracting(P, q, ch, s)
  BY <1>1, <1>2, <1>4 DEF SearchInv
<1>6. Extracting(P \union {Head(q)}, Tail(q) \o ch[Head(q)], ch,
                 IF Head(q) = TestBody THEN Append(s, TestBody) ELSE s)
  BY <1>1, <1>3, <1>4, <1>5, ExtractStep
<1>7. Extracting(P \union {Head(q)}, queue', children', subtrees')
  BY <1>1, <1>2, <1>4, <1>6, Zenon
<1>8. P \union {Head(q)} \in SUBSET Node
  <2>1. q \in Seq(Node)
    BY <1>5 DEF Extracting
  <2>2. Head(q) \in Node
    BY <1>1, <1>4, <2>1, HeadQueued
  <2> QED BY <2>2
<1>9. \E R \in SUBSET Node : Extracting(R, queue', children', subtrees')
  BY <1>7, <1>8
<1>10. SearchInv'
  BY <1>1, <1>9 DEF SearchInv
<1> QED BY <1>1, <1>10 DEF DistanceInv

\* createReachableFunctions starts.
LEMMA SearchTurns ==
  ASSUME SearchInv, StartCollection
  PROVE  SearchInv' /\ DistanceInv'
<1>1. /\ phase = "extract" /\ phase' = "collect" /\ queue = << >>
      /\ UNCHANGED << children, level, queue, subtrees, reachable, storage >>
  BY DEF StartCollection, treeVars, searchVars
<1>2. reachable = << >> /\ storage = << >>
  BY <1>1 DEF SearchInv
<1>3. SubtreeLeft(queue, subtrees, reachable)
  BY <1>1, <1>2 DEF SearchInv, Extracting, SubtreeLeft
<1>4. PICK e : e = << >> /\ Len(e) = 0
  OBVIOUS
<1>5. e \in Seq(Fun) /\ e \in Seq([function : Fun, distance : Nat])
  BY <1>4
<1>6. Collected(e, level)
  BY <1>4, <1>5 DEF Collected
<1>7. Visiting(e, e, children, level) /\ \A x : ~Queued(e, x) /\ ~Reached(e, x)
  BY <1>4, <1>5 DEF Visiting, Distinct, Queued, Reached
<1>8. SearchInv'
  BY <1>1, <1>2, <1>3, <1>4, <1>6, <1>7 DEF SearchInv
<1> QED BY <1>1, <1>2, <1>4, <1>7, <1>8 DEF DistanceInv

\* ... and takes the test's subtree.
LEMMA SearchTakes ==
  ASSUME TreeInv, SearchInv, CollectSubtree
  PROVE  SearchInv' /\ DistanceInv'
<1>1. /\ phase = "collect" /\ phase' = "collect" /\ queue = << >> /\ subtrees # << >>
      /\ queue' = << Head(subtrees) >>
      /\ UNCHANGED << calls, children, level, subtrees, reachable, storage >>
  BY DEF CollectSubtree, treeVars, programVars
<1>2. /\ Collected(reachable, level) /\ subtrees = << TestBody >> /\ reachable = << >>
      /\ storage = << >>
  BY <1>1 DEF SearchInv, SubtreeLeft
<1>3. TestBody \in Fun /\ Fun \subseteq Node /\ MaxDistance \in Nat
  BY CallTreeAssumption DEF Fun, Node
<1>4. PICK q : q = << TestBody >>
  OBVIOUS
<1>5. queue' = q
  BY <1>1, <1>2, <1>4
<1>6. /\ q \in Seq(Fun) /\ Distinct(q) /\ q[1] = TestBody /\ q # << >>
      /\ \A x : Queued(q, x) => x = TestBody
  <2>1. q \in Seq(Fun) /\ q # << >> /\ q[1] = TestBody
    BY <1>3, <1>4
  <2> QED BY <1>4, <2>1 DEF Distinct, Queued
<1>7. \A x : ~Reached(reachable, x)
  <2>1. Len(reachable) = 0
    BY <1>2
  <2> QED BY <2>1 DEF Reached
<1>8. level[TestBody] \in Nat
  BY <1>3, TreeFacts
<1>9. InReach(TestBody, level)
  BY <1>3, <1>8 DEF InReach
<1>10. Visiting(q, reachable, children, level)
  BY <1>6, <1>7, <1>9 DEF Visiting
<1>11. SubtreeLeft(q, subtrees, reachable)
  BY <1>2, <1>6 DEF SubtreeLeft
<1>12. SearchInv'
  BY <1>1, <1>2, <1>5, <1>10, <1>11 DEF SearchInv
<1>13. TestBody \in CallsAway(level[TestBody] - level[TestBody])
  <2>1. level[TestBody] - level[TestBody] = 0
    BY <1>8
  <2> QED BY <2>1, NoCallAway
<1>14. \A x \in Fun : Queued(queue', x) \/ Reached(reachable', x) => x = TestBody
  BY <1>1, <1>5, <1>6, <1>7
<1>15. CallsAway(level[TestBody] - level[TestBody])'
         = CallsAway(level[TestBody] - level[TestBody])
  BY <1>1 DEF CallsAway
<1>16. DistanceInv'
  BY <1>13, <1>14, <1>15 DEF DistanceInv
<1> QED BY <1>12, <1>16

\* An iteration of its inner loop.
LEMMA SearchCollects ==
  ASSUME TreeInv, SearchInv, DistanceInv, CollectNode
  PROVE  SearchInv' /\ DistanceInv'
<1>1. PICK q, r, s : q = queue /\ r = reachable /\ s = subtrees
  OBVIOUS
<1>2. PICK ch \in [Node -> Seq(Fun)] : ch = children
  BY TreeFacts
<1>3. PICK lv \in [Node -> Nat] : lv = level
  BY TreeFacts
<1>4. /\ HangsOnce(ch)
      /\ \A p \in Node : \A i \in Nat : \A f \in Fun :
           Hangs(ch, p, i, f) => lv[f] = lv[p] + 1
  BY <1>2, <1>3, TreeFacts
<1>5. /\ phase = "collect" /\ phase' = "collect" /\ q # << >>
      /\ UNCHANGED << stack, frames, calls, children, level, storage >>
  BY <1>1 DEF CollectNode, treeVars, programVars
<1>6. Collected(r, lv) /\ Visiting(q, r, ch, lv) /\ SubtreeLeft(q, s, r) /\ storage = << >>
  BY <1>1, <1>2, <1>3, <1>5 DEF SearchInv
<1>7. s = << TestBody >> /\ Head(s) = TestBody /\ Tail(s) = << >>
  <2>1. s = << TestBody >>
    BY <1>5, <1>6 DEF SubtreeLeft
  <2> QED BY <2>1
<1>8. PICK h : h = Head(q)
  OBVIOUS
<1>9. PICK d : d = lv[h] - lv[TestBody]
  OBVIOUS
<1>10. PICK c : c = IF d < MaxDistance THEN ch[h] ELSE << >>
  OBVIOUS
<1>11. PICK t : t = Tail(q) \o c
  OBVIOUS
<1>12. PICK u : u = Append(r, [function |-> h, distance |-> d])
  OBVIOUS
<1>13. queue' = t /\ reachable' = u /\ subtrees' = IF t = << >> THEN << >> ELSE s
  <2>1. Distance(Head(queue), Head(subtrees)) = d
    BY <1>1, <1>3, <1>7, <1>8, <1>9 DEF Distance
  <2>2. /\ reachable' = Append(reachable, [function |-> Head(queue),
                                           distance |-> Distance(Head(queue), Head(subtrees))])
        /\ queue' = Tail(queue) \o (IF Distance(Head(queue), Head(subtrees)) < MaxDistance
                                    THEN children[Head(queue)] ELSE << >>)
        /\ subtrees' = IF queue' = << >> THEN Tail(subtrees) ELSE subtrees
    BY DEF CollectNode, WithinDistance
  <2> QED BY <1>1, <1>2, <1>7, <1>8, <1>10, <1>11, <1>12, <2>1, <2>2, Zenon
<1>14. /\ h \in Fun /\ Queued(q, h) /\ d \in 0 .. MaxDistance
       /\ Collected(u, lv) /\ Visiting(t, u, ch, lv) /\ u # << >>
       /\ \A x : Reached(u, x) <=> Reached(r, x) \/ x = h
       /\ \A x \in Fun : Queued(t, x) =>
            \/ Queued(q, x)
            \/ d < MaxDistance /\ lv[x] = lv[h] + 1 /\ \E i \in Nat : Hangs(ch, h, i, x)
  <2>1. Goes(q, r, h, d, t, u, ch, lv)
    BY <1>4, <1>5, <1>6, <1>8, <1>9, <1>10, <1>11, <1>12, VisitStep, Zenon
  <2> QED BY <2>1 DEF Goes
<1>15. SubtreeLeft(t, IF t = << >> THEN << >> ELSE s, u)
  BY <1>7, <1>14 DEF SubtreeLeft
<1>16. SearchInv'
  BY <1>2, <1>3, <1>5, <1>6, <1>13, <1>14, <1>15 DEF SearchInv
<1>17. DistanceInv'
  <2> SUFFICES ASSUME stack = frames, NEW x \in Fun, Queued(t, x) \/ Reached(u, x)
               PROVE  x \in CallsAway(lv[x] - lv[TestBody])'
    BY <1>3, <1>5, <1>13 DEF DistanceInv
  <2>1. \A y \in Fun : Queued(q, y) \/ Reached(r, y) => y \in CallsAway(lv[y] - lv[TestBody])
    BY <1>1, <1>3, <1>5 DEF DistanceInv
  <2>2. CallsAway(lv[x] - lv[TestBody])' = CallsAway(lv[x] - lv[TestBody])
    BY <1>5 DEF CallsAway
  <2>3. CASE Queued(q, x) \/ Reached(r, x)
    BY <2>1, <2>2, <2>3
  <2>4. CASE x = h
    BY <1>14, <2>1, <2>2, <2>4
  <2>5. CASE d < MaxDistance /\ lv[x] = lv[h] + 1 /\ \E i \in Nat : Hangs(ch, h, i, x)
    <3>1. PICK i \in Nat : Hangs(ch, h, i, x)
      BY <2>5
    <3>2. h \in Node /\ TestBody \in Node
      BY <1>14, CallTreeAssumption DEF Fun, Node
    <3>3. << h, x >> \in calls
      BY <1>2, <1>5, <3>1, <3>2 DEF TreeInv, CallersInv
    <3>4. h \in CallsAway(d)
      BY <1>9, <1>14, <2>1
    <3>5. d \in Nat /\ lv[x] - lv[TestBody] = d + 1
      <4>1. lv[h] \in Nat /\ lv[TestBody] \in Nat
        BY <3>2
      <4> QED BY <1>9, <1>14, <2>5, <4>1, CallTreeAssumption
    <3>6. x \in CallsAway(d + 1)
      BY <1>14, <3>3, <3>4, <3>5, OneCallFurther
    <3> QED BY <2>2, <3>5, <3>6
  <2> QED BY <1>14, <2>3, <2>4, <2>5
<1> QED BY <1>16, <1>17

\* Every step preserves the invariant of the searches.
LEMMA SearchStep ==
  ASSUME IInv, TreeInv, SearchInv, DistanceInv, [Next]_vars
  PROVE  SearchInv' /\ DistanceInv'
<1>1. ASSUME phase \in {"running", "build"}, phase' \in {"running", "build", "done"},
             UNCHANGED searchVars
      PROVE  SearchInv' /\ DistanceInv'
  BY <1>1 DEF SearchInv, DistanceInv, searchVars
<1>2. ASSUME NEW f \in Fun, Call(f) PROVE SearchInv' /\ DistanceInv'
  BY <1>1, <1>2 DEF Call
<1>3. CASE Leave
  BY <1>1, <1>3 DEF Leave
<1>4. ASSUME NEW k \in 0 .. MaxDepth, Unwind(k) PROVE SearchInv' /\ DistanceInv'
  BY <1>1, <1>4 DEF Unwind
<1>5. ASSUME NEW result \in {"Passed", "Failed"}, TestFinishes(result)
      PROVE  SearchInv' /\ DistanceInv'
  BY <1>1, <1>5 DEF TestFinishes
<1>6. CASE FillIn \/ FillInParent \/ AttachNode
  BY <1>1, <1>6 DEF FillIn, FillInParent, AttachNode
<1>7. CASE StartExtraction
  BY <1>7, SearchStarts
<1>8. CASE ExtractNode
  BY <1>8, SearchExtracts
<1>9. CASE StartCollection
  BY <1>9, SearchTurns
<1>10. CASE CollectSubtree
  BY <1>10, SearchTakes
<1>11. CASE CollectNode
  BY <1>11, SearchCollects
<1>12. CASE Store
  BY <1>12 DEF Store, SearchInv, DistanceInv
<1>13. CASE Done \/ UNCHANGED vars
  <2>1. UNCHANGED vars
    BY <1>13 DEF Done
  <2>2. SearchInv'
    BY <2>1 DEF vars, treeVars, searchVars, SearchInv
  <2>3. DistanceInv'
    BY <2>1 DEF vars, programVars, treeVars, searchVars, DistanceInv, CallsAway
  <2> QED BY <2>2, <2>3
<1> QED
  BY <1>2, <1>3, <1>4, <1>5, <1>6, <1>7, <1>8, <1>9, <1>10, <1>11, <1>12, <1>13
     DEF Next, Program, Collecting

\* What Store writes.
LEMMA StoreWrites ==
  ASSUME IInv, TreeInv, SearchInv, DistanceInv, Store
  PROVE  /\ \A i \in DOMAIN storage' :
              /\ storage'[i].distance \in 1 .. MaxDistance
              /\ NothingUnwound => storage'[i].function \in CallsAway(storage'[i].distance)
         /\ \A i, j \in DOMAIN storage' :
              storage'[i].function = storage'[j].function => i = j
<1>1. /\ phase = "collect"
      /\ storage' = IF reachable = << >> THEN << >> ELSE Tail(reachable)
  BY DEF Store
<1>2. CASE reachable = << >>
  BY <1>1, <1>2
<1>3. CASE reachable # << >>
  <2> DEFINE E == [function : Fun, distance : Nat]
  <2>1. Collected(reachable, level)
    BY <1>1 DEF SearchInv
  <2>2. PICK r \in Seq(E) : r = reachable
    BY <2>1 DEF Collected
  <2>3. PICK t \in Seq(E) : t = Tail(r)
    BY <1>3, <2>2, HeadTailProperties
  <2>4. PICK n \in Nat : n = Len(t)
    OBVIOUS
  <2>5. Len(r) = n + 1 /\ \A i \in 1 .. n : t[i] = r[i + 1]
    BY <1>3, <2>2, <2>3, <2>4
  <2>6. DOMAIN t = 1 .. n
    BY <2>4, LenProperties
  <2>7. storage' = t
    BY <1>1, <1>3, <2>2, <2>3
  <2>8. /\ r[1].function = TestBody
        /\ \A i, j \in 1 .. n + 1 : r[i].function = r[j].function => i = j
        /\ \A i \in 1 .. n + 1 : InReach(r[i].function, level)
                                   /\ r[i].distance = level[r[i].function] - level[TestBody]
    BY <1>3, <2>1, <2>2, <2>5 DEF Collected
  <2>9. \A i \in 1 .. n + 1 : r[i].function \in Fun
    <3> SUFFICES ASSUME NEW i \in 1 .. n + 1 PROVE r[i].function \in Fun
      OBVIOUS
    <3>1. r[i] \in E
      BY <2>5, ElementOfSeq
    <3> QED BY <3>1
  <2> HIDE DEF E
  <2>10. ASSUME NEW i \in 1 .. n
         PROVE  /\ t[i].distance \in 1 .. MaxDistance
                /\ NothingUnwound => t[i].function \in CallsAway(t[i].distance)
    <3>1. i + 1 \in 1 .. n + 1 /\ i + 1 # 1 /\ 1 \in 1 .. n + 1
      BY <2>10
    <3>2. PICK f \in Fun : f = r[i + 1].function
      BY <2>9, <3>1
    <3>3. f # TestBody /\ InReach(f, level)
      BY <2>8, <3>1, <3>2
    <3>4. r[i + 1].distance = level[f] - level[TestBody]
      BY <2>8, <3>1, <3>2
    <3>5. t[i] = r[i + 1]
      BY <2>5
    <3>6. level[f] \in Nat /\ level[TestBody] \in Nat /\ MaxDistance \in Nat
      <4>1. f \in Node /\ TestBody \in Node
        BY CallTreeAssumption DEF Fun, Node
      <4> QED BY <4>1, TreeFacts, CallTreeAssumption
    <3>7. t[i].distance \in 1 .. MaxDistance
      BY <3>3, <3>4, <3>5, <3>6 DEF InReach
    <3>8. Reached(reachable, f)
      BY <2>2, <2>5, <3>1, <3>2 DEF Reached
    <3>9. NothingUnwound => f \in CallsAway(level[f] - level[TestBody])
      BY <1>1, <3>8 DEF DistanceInv, NothingUnwound
    <3> QED BY <3>2, <3>4, <3>5, <3>7, <3>9
  <2>11. ASSUME NEW i \in 1 .. n, NEW j \in 1 .. n, t[i].function = t[j].function
         PROVE  i = j
    <3>1. i + 1 \in 1 .. n + 1 /\ j + 1 \in 1 .. n + 1
      OBVIOUS
    <3>2. i + 1 = j + 1
      BY <2>5, <2>8, <2>11, <3>1
    <3> QED BY <3>2
  <2> QED BY <2>6, <2>7, <2>10, <2>11
<1> QED BY <1>2, <1>3

\* Every function stored for a test is at most MaxDistance away and never the test
\* body, and is stored once; unless frames were unwound it is reached from the test
\* body by as many calls as its distance says.
THEOREM StoredAreReached == Spec => StoredWereReached
<1> DEFINE All == IInv /\ TreeInv /\ SearchInv /\ DistanceInv
           Writes ==
             phase # "done" /\ phase' = "done" =>
               /\ \A i \in DOMAIN storage' :
                    /\ storage'[i].distance \in 1 .. MaxDistance
                    /\ NothingUnwound =>
                         storage'[i].function \in CallsAway(storage'[i].distance)
               /\ \A i, j \in DOMAIN storage' :
                    storage'[i].function = storage'[j].function => i = j
<1>1. Init => All
  BY InitIInv, TreeInit, SearchInit
<1>2. All /\ [Next]_vars => All'
  BY NextIInv, TreeStep, SearchStep
<1>3. All /\ [Next]_vars => [Writes]_vars
  <2> SUFFICES ASSUME All, Next, phase # "done", phase' = "done" PROVE Writes
    OBVIOUS
  <2>1. CASE Store
    BY <2>1, StoreWrites
  <2>2. CASE ~Store
    <3>1. PICK result \in {"Passed", "Failed"} : TestFinishes(result)
      BY <2>2 DEF Next, Program, Collecting, Call, Leave, Unwind, FillIn, FillInParent, AttachNode,
                  StartExtraction, ExtractNode, StartCollection, CollectSubtree, CollectNode, Done
    <3>2. storage' = << >>
      BY <3>1 DEF TestFinishes, searchVars, SearchInv
    <3> QED BY <3>2
  <2> QED BY <2>1, <2>2
<1>4. [][Writes]_vars => StoredWereReached
  BY DEF StoredWereReached
<1> HIDE DEF All, Writes
<1> QED BY <1>1, <1>2, <1>3, <1>4, PTL DEF Spec
=============================================================================

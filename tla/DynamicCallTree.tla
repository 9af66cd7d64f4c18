--------------------------- MODULE DynamicCallTree ---------------------------
(***************************************************************************)
(* How one original test is turned into the functions it reaches: the      *)
(* callbacks that the instrumentation puts into every function write the   *)
(* call tree mapping while the test runs in its sandbox                    *)
(* (lib/Instrumentation/Callbacks.cpp, DynamicCallTree.cpp), and after it  *)
(* the parent process builds the tree, cuts out the test's subtree and     *)
(* collects the functions in it (Instrumentation::getReachableFunctions,   *)
(* OriginalTestExecutionTask).                                             *)
(*                                                                         *)
(* Functions are their indices 1 .. N in Instrumentation::functions; index *)
(* 0 is the phony root.  The running program is an environment that calls  *)
(* functions, returns from them and, when Unwinding, leaves several frames *)
(* at once without returning (an exception, longjmp): the code injects     *)
(* mull_leaveFunction only before return instructions.                     *)
(***************************************************************************)
EXTENDS Integers, Sequences, FiniteSets

CONSTANTS
  N,           \* functions with a body: Instrumentation::functions.size() - 1
  TestBody,    \* index of Test::getTestBody()
  MaxDistance, \* Configuration::maxDistance
  Unwinding,   \* whether the program under test leaves frames by unwinding
  MaxDepth,    \* bound: depth of the program's call stack
  MaxCalls     \* bound: calls the program makes

ASSUME CallTreeAssumption ==
  /\ N \in Nat \ {0}
  /\ TestBody \in 1 .. N
  /\ MaxDistance \in Nat
  /\ Unwinding \in BOOLEAN
  /\ MaxDepth \in Nat
  /\ MaxCalls \in Nat

Fun == 1 .. N
Node == 0 .. N

VARIABLES
  phase,     \* where OriginalTestExecutionTask::operator() is with the test
  status,    \* ExecutionResult::status of the test
  mapping,   \* InstrumentationInfo::callTreeMapping
  stack,     \* InstrumentationInfo::callstack
  frames,    \* the program's own call stack (environment)
  calls,     \* pairs <<caller, callee>> made so far, caller 0 = none (history)
  entered,   \* number of calls made so far
  index,     \* createCallTree's loop variable
  pending,   \* active calls of fillInCallTree, innermost last
  treeRoot,  \* functions whose CallTreeFunction::treeRoot is set
  level,     \* CallTree::level of each node
  children,  \* CallTree::children of each node
  queue,     \* the breadth-first searches' queue
  subtrees,  \* result of extractTestSubtrees
  reachable, \* result of createReachableFunctions
  storage    \* what the task stores for the test

programVars == << frames, calls, entered >>
treeVars == << index, pending, treeRoot, level, children >>
searchVars == << queue, subtrees, reachable, storage >>
vars == << phase, status, mapping, stack, programVars, treeVars, searchVars >>

Last(s) == s[Len(s)]
Front(s) == SubSeq(s, 1, Len(s) - 1)

Entry == [function : Fun, distance : Nat]

-----------------------------------------------------------------------------
(***************************************************************************)
(* The test runs.                                                          *)
(***************************************************************************)

\* setupInstrumentationInfo gives the test a zeroed mapping; createCallTree
\* works on a copy of the functions, whose treeRoots are null.
Init ==
  /\ phase = "running"
  /\ status = "Invalid"
  /\ mapping = [f \in Node |-> 0]
  /\ stack = << >>
  /\ frames = << >>
  /\ calls = {}
  /\ entered = 0
  /\ index = 1
  /\ pending = << >>
  /\ treeRoot = {0}
  /\ level = [f \in Node |-> 0]
  /\ children = [f \in Node |-> << >>]
  /\ queue = << >>
  /\ subtrees = << >>
  /\ reachable = << >>
  /\ storage = << >>

\* Mutant: the latest caller replaces the first one.
EnterFunctionLatest(f) ==
  /\ mapping' = [mapping EXCEPT ![f] = IF stack = << >> THEN f ELSE Last(stack)]
  /\ stack' = Append(stack, f)

\* Mutant: the outermost active function is recorded, not the caller.
EnterFunctionOldest(f) ==
  /\ mapping' = IF stack = << >> THEN [mapping EXCEPT ![f] = f]
                ELSE IF mapping[f] = 0 THEN [mapping EXCEPT ![f] = Head(stack)]
                ELSE mapping
  /\ stack' = Append(stack, f)

\* DynamicCallTree::enterFunction: a function entered on an empty stack is a
\* root, even if it had a parent; any other keeps its first parent.
EnterFunction(f) ==
  /\ mapping' = IF stack = << >> THEN [mapping EXCEPT ![f] = f]
                ELSE IF mapping[f] = 0 THEN [mapping EXCEPT ![f] = Last(stack)]
                ELSE mapping
  /\ stack' = Append(stack, f)

\* Mutant: leaving a function drops everything above the outermost one.
LeaveFunctionAll ==
  /\ stack' = << >>
  /\ UNCHANGED mapping

\* DynamicCallTree::leaveFunction.
LeaveFunction ==
  /\ stack' = Front(stack)
  /\ UNCHANGED mapping

\* The program calls f, whose first instruction is mull_enterFunction.
Call(f) ==
  /\ phase = "running"
  /\ Len(frames) < MaxDepth
  /\ entered < MaxCalls
  /\ EnterFunction(f)
  /\ frames' = Append(frames, f)
  /\ calls' = calls \union {<< IF frames = << >> THEN 0 ELSE Last(frames), f >>}
  /\ entered' = entered + 1
  /\ UNCHANGED << phase, status, treeVars, searchVars >>

\* A return instruction, preceded by mull_leaveFunction.
Leave ==
  /\ phase = "running"
  /\ frames # << >>
  /\ LeaveFunction
  /\ frames' = Front(frames)
  /\ UNCHANGED << phase, status, calls, entered, treeVars, searchVars >>

\* An exception or longjmp leaves the frames above the k innermost without
\* running a return instruction: no callback is called.
Unwind(k) ==
  /\ phase = "running"
  /\ Unwinding
  /\ k < Len(frames)
  /\ frames' = SubSeq(frames, 1, k)
  /\ UNCHANGED << phase, status, mapping, stack, calls, entered, treeVars,
                  searchVars >>

\* sandbox.run returns.  A test passes when runTest returned, so no function is
\* active; any other result may come at any point.  Only a passed test has its
\* reachable functions collected.
TestFinishes(result) ==
  /\ phase = "running"
  /\ result = "Passed" => frames = << >>
  /\ status' = result
  /\ phase' = IF result = "Passed" THEN "build" ELSE "done"
  /\ UNCHANGED << mapping, stack, programVars, treeVars, searchVars >>

-----------------------------------------------------------------------------
(***************************************************************************)
(* createCallTree: fillInCallTree for every index.                         *)
(***************************************************************************)

\* fillInCallTree(i) past its early return: a root hangs under the phony root.
Activation(i) == [node |-> i, parent |-> IF mapping[i] = i THEN 0 ELSE mapping[i]]

\* Mutant: the loop stays at a function that was never called.
FillInNoAdvance ==
  /\ phase = "build"
  /\ pending = << >>
  /\ index \in Fun
  /\ mapping[index] # 0
  /\ index' = index + 1
  /\ pending' = << Activation(index) >>
  /\ treeRoot' = treeRoot \union {index}
  /\ UNCHANGED << phase, status, mapping, stack, programVars, level, children,
                  searchVars >>

\* One iteration of the loop of createCallTree, up to the recursive call.
FillIn ==
  /\ phase = "build"
  /\ pending = << >>
  /\ index \in Fun
  /\ index' = index + 1
  /\ IF mapping[index] = 0
     THEN UNCHANGED << pending, treeRoot >>
     ELSE /\ pending' = << Activation(index) >>
          /\ treeRoot' = treeRoot \union {index}
  /\ UNCHANGED << phase, status, mapping, stack, programVars, level, children,
                  searchVars >>

\* Mutant: the parent's node is not recorded in functions.
FillInParentNoNode ==
  /\ phase = "build"
  /\ pending # << >>
  /\ LET p == Last(pending).parent IN
     /\ mapping[p] # 0
     /\ pending' = Append(pending, Activation(p))
  /\ UNCHANGED << phase, status, mapping, stack, programVars, index, treeRoot,
                  level, children, searchVars >>

\* The recursive call for a parent that is not in the tree yet.
FillInParent ==
  /\ phase = "build"
  /\ pending # << >>
  /\ LET p == Last(pending).parent IN
     /\ mapping[p] # 0
     /\ pending' = Append(pending, Activation(p))
     /\ treeRoot' = treeRoot \union {p}
  /\ UNCHANGED << phase, status, mapping, stack, programVars, index, level,
                  children, searchVars >>

\* Mutant: the mapping is not cleared, so a node is attached again.
AttachNodeNoClear ==
  /\ phase = "build"
  /\ pending # << >>
  /\ LET n == Last(pending).node
         p == Last(pending).parent
     IN
     /\ mapping[p] = 0 \/ level[p] # 0
     /\ level' = [level EXCEPT ![n] = level[p] + 1]
     /\ children' = [children EXCEPT ![p] = Append(@, n)]
  /\ pending' = Front(pending)
  /\ UNCHANGED << phase, status, mapping, stack, programVars, index, treeRoot,
                  searchVars >>

\* The recursive call has returned (or returned at once, the parent being in
\* the tree): the node is added to its parent.
AttachNode ==
  /\ phase = "build"
  /\ pending # << >>
  /\ LET n == Last(pending).node
         p == Last(pending).parent
     IN
     /\ mapping[p] = 0
     /\ level' = [level EXCEPT ![n] = level[p] + 1]
     /\ children' = [children EXCEPT ![p] = Append(@, n)]
     /\ mapping' = [mapping EXCEPT ![n] = 0]
  /\ pending' = Front(pending)
  /\ UNCHANGED << phase, status, stack, programVars, index, treeRoot, searchVars >>

\* createCallTree returns the phony root, and extractTestSubtrees starts.
StartExtraction ==
  /\ phase = "build"
  /\ pending = << >>
  /\ index > N
  /\ phase' = "extract"
  /\ queue' = << 0 >>
  /\ UNCHANGED << status, mapping, stack, programVars, treeVars, subtrees,
                  reachable, storage >>

-----------------------------------------------------------------------------
(***************************************************************************)
(* extractTestSubtrees and createReachableFunctions.                       *)
(***************************************************************************)

\* One iteration of extractTestSubtrees.
ExtractNode ==
  /\ phase = "extract"
  /\ queue # << >>
  /\ queue' = Tail(queue) \o children[Head(queue)]
  /\ subtrees' = IF Head(queue) = TestBody THEN Append(subtrees, TestBody)
                 ELSE subtrees
  /\ UNCHANGED << phase, status, mapping, stack, programVars, treeVars,
                  reachable, storage >>

StartCollection ==
  /\ phase = "extract"
  /\ queue = << >>
  /\ phase' = "collect"
  /\ UNCHANGED << status, mapping, stack, programVars, treeVars, searchVars >>

\* The outer loop of createReachableFunctions takes the next subtree.
CollectSubtree ==
  /\ phase = "collect"
  /\ queue = << >>
  /\ subtrees # << >>
  /\ queue' = << Head(subtrees) >>
  /\ UNCHANGED << phase, status, mapping, stack, programVars, treeVars,
                  subtrees, reachable, storage >>

\* Mutant: off by one.
WithinDistanceOrAt(distance) == distance <= MaxDistance

\* Whether the search goes on below a node at this distance.
WithinDistance(distance) == distance < MaxDistance

\* Levels between a node and the root of its subtree.
Distance(node, root) == level[node] - level[root]

\* One iteration of the inner loop; the last one ends the subtree.
CollectNode ==
  /\ phase = "collect"
  /\ queue # << >>
  /\ LET node == Head(queue)
         distance == Distance(node, Head(subtrees))
     IN
     /\ reachable' = Append(reachable, [function |-> node, distance |-> distance])
     /\ queue' = Tail(queue) \o (IF WithinDistance(distance) THEN children[node]
                                 ELSE << >>)
  /\ subtrees' = IF queue' = << >> THEN Tail(subtrees) ELSE subtrees
  /\ UNCHANGED << phase, status, mapping, stack, programVars, treeVars, storage >>

\* The task skips the first reachable function, the test body, and stores the
\* others; cleanupInstrumentationInfo empties the call stack.
Store ==
  /\ phase = "collect"
  /\ queue = << >>
  /\ subtrees = << >>
  /\ storage' = IF reachable = << >> THEN << >> ELSE Tail(reachable)
  /\ stack' = << >>
  /\ phase' = "done"
  /\ UNCHANGED << status, mapping, programVars, treeVars, queue, subtrees,
                  reachable >>

Done ==
  /\ phase = "done"
  /\ UNCHANGED vars

Program ==
  \/ \E f \in Fun : Call(f)
  \/ Leave
  \/ \E k \in 0 .. MaxDepth : Unwind(k)
  \/ \E result \in {"Passed", "Failed"} : TestFinishes(result)

Collecting ==
  \/ FillIn
  \/ FillInParent
  \/ AttachNode
  \/ StartExtraction
  \/ ExtractNode
  \/ StartCollection
  \/ CollectSubtree
  \/ CollectNode
  \/ Store

Next == Program \/ Collecting \/ Done

Spec == Init /\ [][Next]_vars

\* The task's thread keeps running once the test has finished.
FairSpec == Spec /\ WF_vars(Collecting)

-----------------------------------------------------------------------------
(***************************************************************************)
(* Properties.                                                             *)
(***************************************************************************)

Called == {c[2] : c \in calls}

\* leaveFunction pops a stack that is not empty: std::stack::pop on an empty
\* stack is undefined, and nothing in leaveFunction checks.
PopIsDefined ==
  phase = "running" /\ frames # << >> => stack # << >>

\* The parents recorded by enterFunction have no cycle, whatever the program
\* does: a set of called functions that contains the parent of each member
\* contains a root.  fillInCallTree recurses along parents, so a cycle would
\* recurse for ever.
NoParentCycle ==
  \A S \in SUBSET {f \in Fun : mapping[f] # 0} :
    (S # {} /\ \A f \in S : mapping[f] \in S) => \E f \in S : mapping[f] = f

\* The assertion assert(root.treeRoot) of fillInCallTree: when a node is
\* attached, its parent has a node.
RootHasNode ==
  pending # << >> /\ mapping[Last(pending).parent] = 0
    => Last(pending).parent \in treeRoot

\* The three states of the mapping (comment in createCallTree), read against
\* what the program did: a function has an entry exactly when it was called,
\* and the entry names one of its callers, itself for a call from outside.
ParentIsACaller ==
  phase = "running" =>
    /\ \A f \in Fun : mapping[f] # 0 <=> f \in Called
    /\ \A f \in Called :
         << IF mapping[f] = f THEN 0 ELSE mapping[f], f >> \in calls

\* No frame has been left other than by return: the callbacks' stack is the
\* program's.
NothingUnwound == stack = frames

\* ... which is so as long as functions are left by return only.
ParentIsACallerUntilUnwound == NothingUnwound => ParentIsACaller

\* Where something hangs in the tree: a node and a position among its children.
Places == UNION {{p} \X DOMAIN children[p] : p \in Node}

\* How often f occurs among the children of all nodes.
Occurrences(f) == Cardinality({c \in Places : children[c[1]][c[2]] = f})

\* When the tree is built each called function is in it exactly once, one level
\* below the node it hangs under, and the mapping has been used up.
TreeHasEveryCall ==
  phase \in {"extract", "collect"} =>
    /\ \A f \in Fun : Occurrences(f) = IF f \in Called THEN 1 ELSE 0
    /\ \A p \in Node : \A i \in DOMAIN children[p] :
         level[children[p][i]] = level[p] + 1
    /\ mapping = [f \in Node |-> 0]

\* Functions that d calls lead to from the test body.
CallsAway(d) ==
  {f \in Fun : \E walk \in [0 .. d -> Fun] :
                 /\ walk[0] = TestBody /\ walk[d] = f
                 /\ \A i \in 1 .. d : << walk[i - 1], walk[i] >> \in calls}

\* Every function stored for a test is at most MaxDistance away and never the
\* test body, and is stored once; unless frames were unwound it is reached from
\* the test body by as many calls as its distance says.
StoredWereReached ==
  [][phase # "done" /\ phase' = "done" =>
       /\ \A i \in DOMAIN storage' :
            /\ storage'[i].distance \in 1 .. MaxDistance
            /\ NothingUnwound =>
                 storage'[i].function \in CallsAway(storage'[i].distance)
       /\ \A i, j \in DOMAIN storage' :
            storage'[i].function = storage'[j].function => i = j]_vars

\* Once a test has finished its reachable functions are collected: the
\* recursion of fillInCallTree and both searches end.
CollectionEnds ==
  phase = "build" ~> phase = "done"
=============================================================================

------------------------- MODULE TimerSandbox_proofs -------------------------
(***************************************************************************)
(* Proofs about TimerSandbox for any number of threads, every capacity of  *)
(* the pipes, every amount of output and every set of calls that fail.     *)
(***************************************************************************)
EXTENDS TimerSandbox, FiniteSetTheorems, SequenceTheorems, WellFoundedInduction, TLAPS

-----------------------------------------------------------------------------
(* The inductive invariant.                                                *)

Text == {"mull", "test"}
Chunk == Text \cup {"nul"}
BeforeFork == {"openOut", "openErr", "fork"}
AfterWait == {"closeOut", "readOut", "closeErr", "readErr", "decode", "done"}
Setup == {"none", "redirectOut", "redirectErr", "arm"}
Gone == {"exited", "reaped"}

\* What each variable may hold.
TypeOK ==
  /\ pc \in [Thread -> BeforeFork \cup {"wait"} \cup AfterWait]
  /\ shouldCapture \in [Thread -> [Stream -> BOOLEAN]]
  /\ writers \in [Thread -> [Stream -> SUBSET (Thread \cup {Mull})]]
  /\ pipe \in [Thread -> [Stream -> Seq(Chunk)]]
  /\ cpc \in [Thread -> Setup \cup {"run", "flush", "stuck"} \cup Gone]
  /\ redirected \in [Thread -> [Stream -> BOOLEAN]]
  /\ pending \in [Thread -> [Stream -> Seq(Chunk)]]
  /\ written \in [Thread -> [Stream -> Nat]]
  /\ binary \in [Thread -> [Stream -> BOOLEAN]]
  /\ sharedStatus \in [Thread -> TestStatus \cup {"Invalid"}]
  /\ code \in [Thread -> 0..255]
  /\ wstatus \in [Thread -> [how : {"running", "exited", "signaled"}, code : 0..255]]
  /\ fate \in [Thread -> {"none", "returned", "exit", "setup", "crash", "alarm"}]
  /\ captured \in [Thread -> [Stream -> Seq(Chunk)]]
  /\ result \in [Thread -> {"none", "Passed", "Failed", "Timedout", "Crashed",
                            "AbnormalExit"}]

\* The thread against its child.
OrderInv(t) ==
  /\ pc[t] \in BeforeFork <=> cpc[t] = "none"
  /\ pc[t] \in AfterWait <=> cpc[t] = "reaped"

\* A child that ends by itself has said how, in its exit code and in the memory it
\* shares with Mull.
EndsItself(t) ==
  \/ fate[t] = "returned" /\ code[t] = MullExitCode /\ sharedStatus[t] \in TestStatus
  \/ fate[t] = "exit" /\ sharedStatus[t] = "Invalid"
  \/ fate[t] = "setup" /\ sharedStatus[t] = "Invalid" /\ code[t] = 1

\* The wait status and the shared memory against what has happened to the child.
FateInv(t) ==
  /\ cpc[t] \notin {"flush"} \cup Gone => fate[t] = "none" /\ sharedStatus[t] = "Invalid"
  /\ cpc[t] = "flush" => EndsItself(t)
  /\ cpc[t] \in Gone =>
       \/ wstatus[t].how = "exited" /\ wstatus[t].code = code[t] /\ EndsItself(t)
       \/ wstatus[t].how = "exited" /\ wstatus[t].code = MullTimeoutCode /\ fate[t] = "alarm"
       \/ wstatus[t].how = "signaled" /\ fate[t] = "crash"

\* The result is there at the end, and nothing it was made from changes later.
ResultInv(t) == result[t] = IF pc[t] = "done" THEN Decode(t) ELSE "none"

\* Where Mull has its own write end of the pipe open.
WriterInv(t) ==
  /\ \A s \in Stream : Mull \in writers[t][s] => shouldCapture[t][s]
  /\ pc[t] \in {"openOut", "readOut", "closeErr", "readErr", "decode", "done"} =>
       Mull \notin writers[t]["out"]
  /\ pc[t] \in {"openOut", "openErr", "readErr", "decode", "done"} =>
       Mull \notin writers[t]["err"]

\* The places after the end of file of stream s.
AfterRead(s) ==
  IF s = "out" THEN {"closeErr", "readErr", "decode", "done"} ELSE {"decode", "done"}

\* A byte of text that the test has printed to a redirected stream is in the child's
\* buffer, in the pipe or in Mull, unless the child was killed with its buffer.
OutputInv(t, s) ==
  /\ redirected[t][s] => shouldCapture[t][s] /\ pc[t] \notin BeforeFork
  /\ cpc[t] \in Setup =>
       /\ written[t][s] = 0 /\ captured[t][s] = << >> /\ pipe[t][s] = << >>
       /\ Own(pending[t][s]) = 0
  /\ redirected[t][s] /\ fate[t] \notin {"crash", "alarm"} /\ ~binary[t][s] =>
       Own(captured[t][s]) + Own(pipe[t][s]) + Own(pending[t][s]) = written[t][s]
  /\ cpc[t] \in Gone => pending[t][s] = << >>
  /\ redirected[t][s] /\ pc[t] \in AfterRead(s) => pipe[t][s] = << >>

RunInv(t) ==
  /\ OrderInv(t) /\ FateInv(t) /\ ResultInv(t) /\ WriterInv(t)
  /\ \A s \in Stream : OutputInv(t, s)

IInv == TypeOK /\ \A t \in Thread : RunInv(t)

\* Where no NUL was printed none is on its way.
NulFree ==
  \A t \in Thread, s \in Stream :
    ~binary[t][s] => pending[t][s] \in Seq(Text) /\ pipe[t][s] \in Seq(Text)

-----------------------------------------------------------------------------
(* Counting the chunks of the test.                                        *)

\* The chunks of a sequence, by their places.
Places(q) == {i \in 1..Len(q) : q[i] = "test"}

\* Own counts them.
LEMMA OwnIs ==
  ASSUME NEW q \in Seq(Chunk)
  PROVE  /\ Own(q) = Cardinality(Places(q))
         /\ IsFiniteSet(Places(q))
         /\ Own(q) \in Nat
<1>1. Len(q) \in Nat /\ DOMAIN q = 1..Len(q)
  BY LenProperties
<1>2. IsFiniteSet(1..Len(q))
  BY <1>1, FS_Interval
<1>3. IsFiniteSet(Places(q))
  BY <1>2, FS_Subset DEF Places
<1>4. Own(q) = Cardinality(Places(q))
  BY <1>1 DEF Own, Places
<1> QED BY <1>3, <1>4, FS_CardinalityType

\* There is none in the empty sequence, and none in what Mull has printed.
LEMMA OwnNone == Own(<< >>) = 0 /\ Own(<< "mull" >>) = 0
<1>1. {i \in DOMAIN << >> : << >>[i] = "test"} = {}
  OBVIOUS
<1>2. {i \in DOMAIN << "mull" >> : << "mull" >>[i] = "test"} = {}
  OBVIOUS
<1> QED BY <1>1, <1>2, FS_EmptySet DEF Own

\* A chunk at the end counts for one if the test has printed it.
LEMMA OwnAppend ==
  ASSUME NEW q \in Seq(Chunk), NEW c \in Chunk
  PROVE  Own(Append(q, c)) = Own(q) + (IF c = "test" THEN 1 ELSE 0)
<1>1. Append(q, c) \in Seq(Chunk) /\ Len(Append(q, c)) = Len(q) + 1 /\ Len(q) \in Nat
  OBVIOUS
<1>2. /\ Append(q, c)[Len(q) + 1] = c
      /\ \A i \in 1..Len(q) : Append(q, c)[i] = q[i]
  OBVIOUS
<1>3. Len(q) + 1 \notin Places(q)
  BY <1>1 DEF Places
<1>4. /\ Own(q) = Cardinality(Places(q)) /\ Own(q) \in Nat /\ IsFiniteSet(Places(q))
      /\ Own(Append(q, c)) = Cardinality(Places(Append(q, c)))
  BY <1>1, OwnIs
<1>5. CASE c = "test"
  <2>1. Places(Append(q, c)) = Places(q) \cup {Len(q) + 1}
    BY <1>1, <1>2, <1>5 DEF Places
  <2>2. Cardinality(Places(q) \cup {Len(q) + 1}) = Cardinality(Places(q)) + 1
    BY <1>3, <1>4, FS_AddElement
  <2> QED BY <1>4, <1>5, <2>1, <2>2
<1>6. CASE c # "test"
  <2>1. Places(Append(q, c)) = Places(q)
    BY <1>1, <1>2, <1>6 DEF Places
  <2> QED BY <1>4, <1>6, <2>1
<1> QED BY <1>5, <1>6

\* So does the chunk at the front.
LEMMA OwnTail ==
  ASSUME NEW q \in Seq(Chunk), q # << >>
  PROVE  Own(q) = Own(Tail(q)) + (IF Head(q) = "test" THEN 1 ELSE 0)
<1>1. /\ Tail(q) \in Seq(Chunk) /\ Len(Tail(q)) = Len(q) - 1 /\ Len(q) \in Nat \ {0}
      /\ \A i \in 1..Len(Tail(q)) : Tail(q)[i] = q[i + 1]
      /\ Head(q) = q[1]
  BY HeadTailProperties, EmptySeq
<1>2. /\ Own(q) = Cardinality(Places(q)) /\ Own(q) \in Nat
      /\ Own(Tail(q)) = Cardinality(Places(Tail(q))) /\ Own(Tail(q)) \in Nat
  BY <1>1, OwnIs
<1>3. Cardinality(Places(Tail(q))) = Cardinality(Places(q) \ {1})
  <2> DEFINE shift == [i \in Places(Tail(q)) |-> i + 1]
  <2>1. \A i \in Places(Tail(q)) : i \in Nat /\ i + 1 \in Places(q) \ {1}
    BY <1>1 DEF Places
  <2>2. shift \in [Places(Tail(q)) -> Places(q) \ {1}]
    BY <2>1
  <2>3. \A i, j \in Places(Tail(q)) : shift[i] = shift[j] => i = j
    BY <2>1
  <2>4. ASSUME NEW k \in Places(q) \ {1} PROVE \E i \in Places(Tail(q)) : shift[i] = k
    <3>1. k - 1 \in 1..Len(Tail(q)) /\ (k - 1) + 1 = k
      BY <1>1, <2>4 DEF Places
    <3>2. k - 1 \in Places(Tail(q))
      BY <1>1, <2>4, <3>1 DEF Places
    <3> QED BY <3>1, <3>2
  <2>5. shift \in Bijection(Places(Tail(q)), Places(q) \ {1})
    BY <2>2, <2>3, <2>4 DEF Bijection, Injection, Surjection, IsInjective
  <2>6. IsFiniteSet(Places(Tail(q)))
    BY <1>1, OwnIs
  <2> QED BY <2>5, <2>6, FS_Bijection DEF ExistsBijection
<1>4. CASE Head(q) = "test"
  <2>1. 1 \in Places(q)
    BY <1>1, <1>4 DEF Places
  <2>2. Cardinality(Places(q) \ {1}) = Cardinality(Places(q)) - 1
    BY <2>1, OwnIs, FS_RemoveElement
  <2> QED BY <1>2, <1>3, <1>4, <2>2
<1>5. CASE Head(q) # "test"
  <2>1. Places(q) \ {1} = Places(q)
    BY <1>1, <1>5 DEF Places
  <2>2. Cardinality(Places(q) \ {1}) = Cardinality(Places(q))
    BY <2>1
  <2> QED BY <1>2, <1>3, <1>5, <2>2
<1> QED BY <1>4, <1>5

\* The bytes of two sequences together.
LEMMA OwnConcat ==
  ASSUME NEW p \in Seq(Chunk), NEW q \in Seq(Chunk)
  PROVE  Own(p \o q) = Own(p) + Own(q)
<1> DEFINE Later == {i \in (Len(p) + 1) .. (Len(p) + Len(q)) : q[i - Len(p)] = "test"}
           shift == [i \in Places(q) |-> i + Len(p)]
<1>1. /\ p \o q \in Seq(Chunk) /\ Len(p \o q) = Len(p) + Len(q)
      /\ Len(p) \in Nat /\ Len(q) \in Nat
      /\ \A i \in 1 .. (Len(p) + Len(q)) :
           (p \o q)[i] = IF i <= Len(p) THEN p[i] ELSE q[i - Len(p)]
  BY ConcatProperties, LenProperties
<1>2. Places(p \o q) = Places(p) \cup Later
  BY <1>1 DEF Places
<1>3. Places(p) \cap Later = {}
  BY <1>1 DEF Places
<1>4. shift \in Bijection(Places(q), Later)
  <2>1. \A i \in Places(q) : i \in Nat /\ i + Len(p) \in Later
    BY <1>1 DEF Places
  <2>2. shift \in [Places(q) -> Later]
    BY <2>1
  <2>3. \A i, j \in Places(q) : shift[i] = shift[j] => i = j
    BY <1>1, <2>1
  <2>4. ASSUME NEW k \in Later PROVE \E i \in Places(q) : shift[i] = k
    <3>1. k - Len(p) \in Places(q) /\ (k - Len(p)) + Len(p) = k
      BY <1>1 DEF Places
    <3> QED BY <3>1
  <2> QED BY <2>2, <2>3, <2>4 DEF Bijection, Injection, Surjection, IsInjective
<1>5. /\ Own(p) = Cardinality(Places(p)) /\ IsFiniteSet(Places(p))
      /\ Own(q) = Cardinality(Places(q)) /\ IsFiniteSet(Places(q))
      /\ Own(p \o q) = Cardinality(Places(p \o q))
  BY <1>1, OwnIs
<1>6. IsFiniteSet(Later) /\ Cardinality(Later) = Own(q)
  BY <1>4, <1>5, FS_Bijection DEF ExistsBijection
<1>7. Cardinality(Places(p) \cup Later) = Own(p) + Own(q)
  <2> HIDE DEF Later
  <2>1. /\ Cardinality(Places(p) \cap Later) = 0
        /\ Cardinality(Places(p)) \in Nat /\ Cardinality(Later) \in Nat
    BY <1>3, <1>5, <1>6, FS_EmptySet, FS_CardinalityType
  <2>2. Cardinality(Places(p) \cup Later) =
          Cardinality(Places(p)) + Cardinality(Later) - Cardinality(Places(p) \cap Later)
    BY <1>5, <1>6, FS_Union
  <2> QED BY <1>5, <1>6, <2>1, <2>2
<1> QED BY <1>2, <1>5, <1>7

\* A read takes bytes off the front.
LEMMA SplitAt ==
  ASSUME NEW S, NEW q \in Seq(S), NEW n \in Nat, n <= Len(q)
  PROVE  /\ SubSeq(q, 1, n) \in Seq(S)
         /\ SubSeq(q, n + 1, Len(q)) \in Seq(S)
         /\ q = SubSeq(q, 1, n) \o SubSeq(q, n + 1, Len(q))
<1> DEFINE a == SubSeq(q, 1, n)
           b == SubSeq(q, n + 1, Len(q))
<1>1. Len(q) \in Nat /\ \A i \in 1 .. Len(q) : q[i] \in S
  BY LenProperties, ElementOfSeq
<1>2. a \in Seq(S) /\ Len(a) = n /\ \A i \in 1 .. n : a[i] = q[i]
  BY <1>1, SubSeqProperties
<1>3. b \in Seq(S) /\ Len(b) = Len(q) - n /\ \A i \in 1 .. Len(b) : b[i] = q[n + i]
  BY <1>1, SubSeqProperties
<1> HIDE DEF a, b
<1>4. /\ a \o b \in Seq(S) /\ Len(a \o b) = Len(q)
      /\ \A i \in 1 .. Len(q) : (a \o b)[i] = IF i <= n THEN a[i] ELSE b[i - n]
  <2>1. /\ a \o b \in Seq(S) /\ Len(a \o b) = Len(a) + Len(b)
        /\ \A i \in 1 .. Len(a) + Len(b) :
             (a \o b)[i] = IF i <= Len(a) THEN a[i] ELSE b[i - Len(a)]
    BY <1>2, <1>3, ConcatProperties, Zenon
  <2>2. Len(a) + Len(b) = Len(q)
    BY <1>1, <1>2, <1>3
  <2> QED BY <1>2, <2>1, <2>2
<1>5. \A i \in 1 .. Len(q) : (a \o b)[i] = q[i]
  BY <1>1, <1>2, <1>3, <1>4
<1>6. a \o b = q
  BY <1>1, <1>4, <1>5, SeqEqual
<1> QED BY <1>2, <1>3, <1>6 DEF a, b

\* The first of some places in a sequence.
LEMMA FirstPlace ==
  ASSUME NEW T \in SUBSET Nat, T # {}
  PROVE  Min(T) \in T
<1>1. \E x \in T : \A y \in T : ~(<< y, x >> \in OpToRel(<, Nat))
  BY WFMin, NatLessThanWellFounded, Zenon
<1>2. \A x, y \in Nat : y < x => << y, x >> \in OpToRel(<, Nat)
  BY Zenon DEF OpToRel
<1>3. \E x \in T : \A y \in T : ~(y < x)
  BY <1>1, <1>2, Zenon
<1>4. \E x \in T : \A y \in T : x <= y
  BY <1>3
<1> QED BY <1>4, Zenon DEF Min

\* A buffer without a NUL is appended whole.
LEMMA CStringIs ==
  ASSUME NEW q \in Seq(Chunk)
  PROVE  CString(q) \in Seq(Chunk) /\ (q \in Seq(Text) => CString(q) = q)
<1>1. q \in Seq(Text) => \A i \in DOMAIN q : q[i] # "nul"
  BY ElementOfSeq, LenProperties DEF Text
<1>2. q \in Seq(Text) => CString(q) = q
  BY <1>1 DEF CString
<1>3. ASSUME NEW i \in DOMAIN q PROVE SubSeq(q, 1, i - 1) \in Seq(Chunk)
  BY LenProperties, SplitAt
<1>4. ASSUME {i \in DOMAIN q : q[i] = "nul"} # {} PROVE CString(q) \in Seq(Chunk)
  <2>1. PICK nuls : nuls = {i \in DOMAIN q : q[i] = "nul"}
    OBVIOUS
  <2>2. DOMAIN q \subseteq Nat /\ nuls \in SUBSET Nat /\ nuls \subseteq DOMAIN q
    BY <2>1, LenProperties
  <2>3. Min(nuls) \in DOMAIN q
    BY <1>4, <2>1, <2>2, FirstPlace
  <2>4. CString(q) = SubSeq(q, 1, Min(nuls) - 1)
    BY <1>4, <2>1, Zenon DEF CString
  <2> QED BY <1>3, <2>3, <2>4
<1>5. ASSUME {i \in DOMAIN q : q[i] = "nul"} = {} PROVE CString(q) \in Seq(Chunk)
  BY <1>5 DEF CString
<1> QED BY <1>2, <1>4, <1>5

-----------------------------------------------------------------------------
(* What a step that leaves a part of the state alone preserves.            *)

\* Nothing of run u has changed but, perhaps, who else holds its pipes.
SameChild(u) ==
  /\ cpc'[u] = cpc[u] /\ fate'[u] = fate[u] /\ code'[u] = code[u]
  /\ sharedStatus'[u] = sharedStatus[u] /\ wstatus'[u] = wstatus[u]

SameOutput(u) ==
  /\ shouldCapture'[u] = shouldCapture[u] /\ redirected'[u] = redirected[u]
  /\ written'[u] = written[u] /\ binary'[u] = binary[u] /\ pending'[u] = pending[u]
  /\ pipe'[u] = pipe[u] /\ captured'[u] = captured[u]

SameRun(u) ==
  SameChild(u) /\ SameOutput(u) /\ pc'[u] = pc[u] /\ result'[u] = result[u]

FewerMulls(u) == \A s \in Stream : Mull \in writers'[u][s] => Mull \in writers[u][s]

\* The clauses about the child.
LEMMA FateKept ==
  ASSUME NEW u \in Thread, FateInv(u), SameChild(u)
  PROVE  FateInv(u)'
  BY DEF FateInv, EndsItself, SameChild

\* A run that has no result yet.
LEMMA ResultKept ==
  ASSUME NEW u \in Thread, ResultInv(u), result'[u] = result[u],
         pc[u] # "done", pc'[u] # "done"
  PROVE  ResultInv(u)'
  BY DEF ResultInv

\* The clauses about the output.
LEMMA OutputKept ==
  ASSUME NEW u \in Thread, NEW s \in Stream, OutputInv(u, s), SameChild(u),
         SameOutput(u), pc'[u] = pc[u]
  PROVE  OutputInv(u, s)'
  BY DEF OutputInv, SameChild, SameOutput, Stream

\* A step of thread t or of its child leaves the other runs alone.
LEMMA StepOf ==
  ASSUME IInv, NEW t \in Thread, TypeOK', RunInv(t)',
         \A u \in Thread \ {t} : SameRun(u) /\ FewerMulls(u)
  PROVE  IInv'
<1>1. ASSUME NEW u \in Thread \ {t} PROVE RunInv(u)'
  <2>1. RunInv(u) /\ SameRun(u) /\ FewerMulls(u)
    BY DEF IInv
  <2>2. OrderInv(u)'
    BY <2>1 DEF RunInv, OrderInv, SameRun, SameChild
  <2>3. FateInv(u)'
    BY <2>1, FateKept DEF RunInv, SameRun
  <2>4. ResultInv(u)'
    BY <2>1 DEF RunInv, ResultInv, SameRun, SameChild, Decode, Exited
  <2>5. WriterInv(u)'
    BY <2>1 DEF RunInv, WriterInv, SameRun, SameOutput, FewerMulls, Stream
  <2>6. \A s \in Stream : OutputInv(u, s)'
    BY <2>1, OutputKept DEF RunInv, SameRun
  <2> QED BY <2>2, <2>3, <2>4, <2>5, <2>6 DEF RunInv
<1> QED BY <1>1 DEF IInv

\* A child that runs has its thread waiting for it.
LEMMA ChildRuns ==
  ASSUME TypeOK, NEW t \in Thread, OrderInv(t), cpc[t] \notin {"none", "reaped"}
  PROVE  pc[t] = "wait"
  BY DEF TypeOK, OrderInv

\* A step of a child: what is left to show is its fate and its output.
LEMMA ChildStep ==
  ASSUME IInv, NEW t \in Thread, TypeOK',
         cpc[t] \notin {"none", "reaped"}, cpc'[t] \notin {"none", "reaped"},
         pc' = pc, shouldCapture' = shouldCapture, result' = result,
         \A u \in Thread : FewerMulls(u),
         \A u \in Thread \ {t} : SameChild(u) /\ SameOutput(u),
         FateInv(t)', \A s \in Stream : OutputInv(t, s)'
  PROVE  IInv'
<1>1. pc[t] = "wait" /\ RunInv(t)
  BY ChildRuns DEF IInv, RunInv
<1>2. OrderInv(t)'
  BY <1>1 DEF OrderInv, BeforeFork, AfterWait
<1>3. ResultInv(t)'
  BY <1>1, ResultKept DEF RunInv
<1>4. WriterInv(t)'
  BY <1>1 DEF RunInv, WriterInv, FewerMulls
<1>5. RunInv(t)'
  BY <1>2, <1>3, <1>4 DEF RunInv
<1> QED BY <1>5, StepOf DEF SameRun

\* A step of Mull that is no step of a run.
LEMMA MullStep ==
  ASSUME IInv, UNCHANGED << pipeVars, parentVars, childVars >>
  PROVE  IInv'
<1> USE DEF pipeVars, parentVars, childVars
<1>1. TypeOK'
  BY DEF IInv, TypeOK
<1>2. ASSUME NEW u \in Thread PROVE SameRun(u) /\ FewerMulls(u)
  BY DEF SameRun, SameChild, SameOutput, FewerMulls
<1>3. ASSUME NEW u \in Thread PROVE RunInv(u)'
  <2>1. RunInv(u)
    BY DEF IInv
  <2>2. OrderInv(u)' /\ FateInv(u)' /\ WriterInv(u)'
    BY <2>1 DEF RunInv, OrderInv, FateInv, EndsItself, WriterInv
  <2>3. ResultInv(u)'
    BY <2>1 DEF RunInv, ResultInv, Decode, Exited
  <2>4. \A s \in Stream : OutputInv(u, s)'
    BY <1>2, <2>1, OutputKept DEF RunInv, SameRun
  <2> QED BY <2>2, <2>3, <2>4 DEF RunInv
<1> QED BY <1>1, <1>3 DEF IInv

\* The initial state satisfies the invariant.
LEMMA InitIInv == Init => IInv
<1> SUFFICES ASSUME Init PROVE IInv
  OBVIOUS
<1> USE DEF PerStream
<1>1. PICK c \in Capture : shouldCapture = PerStream(c)
  BY DEF Init
<1>2. c \in BOOLEAN
  BY <1>1, SandboxAssumption
<1>3. TypeOK
  <2>1. /\ pipe \in [Thread -> [Stream -> Seq(Chunk)]]
        /\ pending \in [Thread -> [Stream -> Seq(Chunk)]]
        /\ captured \in [Thread -> [Stream -> Seq(Chunk)]]
    BY DEF Init
  <2>2. shouldCapture \in [Thread -> [Stream -> BOOLEAN]]
    BY <1>1, <1>2
  <2>3. /\ redirected \in [Thread -> [Stream -> BOOLEAN]]
        /\ binary \in [Thread -> [Stream -> BOOLEAN]]
    BY DEF Init
  <2>4. /\ writers \in [Thread -> [Stream -> SUBSET (Thread \cup {Mull})]]
        /\ written \in [Thread -> [Stream -> Nat]]
    BY DEF Init
  <2>5. /\ pc \in [Thread -> BeforeFork \cup {"wait"} \cup AfterWait]
        /\ cpc \in [Thread -> Setup \cup {"run", "flush", "stuck"} \cup Gone]
    BY DEF Init, BeforeFork, Setup
  <2>6. /\ sharedStatus \in [Thread -> TestStatus \cup {"Invalid"}]
        /\ code \in [Thread -> 0..255]
        /\ wstatus \in [Thread -> [how : {"running", "exited", "signaled"}, code : 0..255]]
    BY DEF Init, NoEnd
  <2>7. /\ fate \in [Thread -> {"none", "returned", "exit", "setup", "crash", "alarm"}]
        /\ result \in [Thread -> {"none", "Passed", "Failed", "Timedout", "Crashed",
                                  "AbnormalExit"}]
    BY DEF Init
  <2> QED BY <2>1, <2>2, <2>3, <2>4, <2>5, <2>6, <2>7 DEF TypeOK
<1>4. ASSUME NEW t \in Thread PROVE RunInv(t)
  <2>1. OrderInv(t) /\ FateInv(t) /\ ResultInv(t)
    BY DEF Init, OrderInv, FateInv, ResultInv, BeforeFork, AfterWait, Gone
  <2>2. WriterInv(t)
    BY DEF Init, WriterInv, Stream
  <2>3. ASSUME NEW s \in Stream PROVE OutputInv(t, s)
    BY OwnNone DEF Init, OutputInv, Gone, AfterRead
  <2> QED BY <2>1, <2>2, <2>3 DEF RunInv
<1> QED BY <1>3, <1>4 DEF IInv

-----------------------------------------------------------------------------
(* The steps of run().                                                     *)

\* Pipe::Pipe: Mull gets a write end only of a pipe it will read.
LEMMA OpenPipeKeeps ==
  ASSUME IInv, NEW t \in Thread, NEW s \in Stream, NEW from, NEW to,
         OpenPipe(t, s, from, to),
         << s, from, to >> \in {<< "out", "openOut", "openErr" >>,
                               << "err", "openErr", "fork" >>}
  PROVE  IInv'
<1>1. /\ pc[t] = from /\ pc' = [pc EXCEPT ![t] = to] /\ from \in {"openOut", "openErr"}
      /\ to \in {"openErr", "fork"} /\ from # to
      /\ s = "out" => from = "openOut" /\ to = "openErr"
      /\ s = "err" => from = "openErr" /\ to = "fork"
  BY DEF OpenPipe, Goto
<1>2. TypeOK /\ RunInv(t)
  BY DEF IInv
<1>3. UNCHANGED << pipe, captured, result, childVars >>
  BY DEF OpenPipe
<1>4. /\ \/ writers' = [writers EXCEPT ![t][s] = {Mull}] /\ shouldCapture' = shouldCapture
            /\ shouldCapture[t][s]
         \/ writers' = writers /\ shouldCapture' = [shouldCapture EXCEPT ![t][s] = FALSE]
         \/ writers' = writers /\ shouldCapture' = shouldCapture
  BY DEF OpenPipe
<1>5. /\ shouldCapture' \in [Thread -> [Stream -> BOOLEAN]]
      /\ \A u \in Thread \ {t} : shouldCapture'[u] = shouldCapture[u]
      /\ \A r \in Stream \ {s} : shouldCapture'[t][r] = shouldCapture[t][r]
  <2>1. shouldCapture \in [Thread -> [Stream -> BOOLEAN]]
    BY <1>2 DEF TypeOK
  <2>2. CASE shouldCapture' = shouldCapture
    BY <2>1, <2>2
  <2>3. CASE shouldCapture' = [shouldCapture EXCEPT ![t][s] = FALSE]
    BY <2>1, <2>3
  <2> QED BY <1>4, <2>2, <2>3
<1>6. /\ writers' \in [Thread -> [Stream -> SUBSET (Thread \cup {Mull})]]
      /\ \A u \in Thread \ {t} : writers'[u] = writers[u]
      /\ \A r \in Stream \ {s} : writers'[t][r] = writers[t][r]
  <2>1. writers \in [Thread -> [Stream -> SUBSET (Thread \cup {Mull})]]
    BY <1>2 DEF TypeOK
  <2>2. CASE writers' = writers
    BY <2>1, <2>2
  <2>3. CASE writers' = [writers EXCEPT ![t][s] = {Mull}]
    BY <2>1, <2>3
  <2> QED BY <1>4, <2>2, <2>3
<1>7. /\ pc' \in [Thread -> BeforeFork \cup {"wait"} \cup AfterWait]
      /\ pc'[t] = to /\ \A u \in Thread \ {t} : pc'[u] = pc[u]
  BY <1>1, <1>2 DEF TypeOK, BeforeFork
<1>8. TypeOK'
  BY <1>2, <1>3, <1>5, <1>6, <1>7 DEF TypeOK, childVars
<1>9. ASSUME NEW u \in Thread \ {t} PROVE SameRun(u) /\ FewerMulls(u)
  BY <1>3, <1>5, <1>6, <1>7 DEF SameRun, SameChild, SameOutput, FewerMulls, childVars
<1>10. OrderInv(t)'
  BY <1>1, <1>2, <1>3, <1>7 DEF RunInv, OrderInv, BeforeFork, AfterWait, childVars
<1>11. FateInv(t)' /\ ResultInv(t)'
  <2>1. SameChild(t)
    BY <1>3 DEF SameChild, childVars
  <2> QED BY <1>1, <1>2, <1>3, <1>7, <2>1, FateKept, ResultKept DEF RunInv
<1>12. WriterInv(t)'
  <2>1. \/ Mull \in writers'[t][s] /\ shouldCapture'[t][s]
        \/ Mull \notin writers'[t][s]
    BY <1>1, <1>2, <1>4 DEF TypeOK, RunInv, WriterInv, Stream
  <2>2. ASSUME NEW r \in Stream \ {s}, Mull \in writers'[t][r] PROVE shouldCapture'[t][r]
    BY <1>2, <1>5, <1>6, <2>2 DEF RunInv, WriterInv
  <2>3. s = "out" => Mull \notin writers'[t]["err"]
    BY <1>1, <1>2, <1>6 DEF RunInv, WriterInv, Stream
  <2> QED BY <1>1, <1>7, <2>1, <2>2, <2>3 DEF WriterInv, Stream
<1>13. ASSUME NEW r \in Stream PROVE OutputInv(t, r)'
  <2>1. ~redirected[t][r] /\ cpc[t] = "none" /\ cpc'[t] = "none"
    BY <1>1, <1>2, <1>3 DEF RunInv, OutputInv, OrderInv, BeforeFork, childVars
  <2> QED BY <1>2, <1>3, <2>1 DEF RunInv, OutputInv, childVars, Setup, Gone
<1> QED BY <1>8, <1>9, <1>10, <1>11, <1>12, <1>13, StepOf DEF RunInv

\* fork() gives the child what Mull has open, and what is in stdout's buffer.
LEMMA ForkKeeps ==
  ASSUME IInv, NEW t \in Thread, Fork(t)
  PROVE  IInv'
<1>1. TypeOK /\ RunInv(t)
  BY DEF IInv
<1>2. /\ pc[t] = "fork" /\ pc' = [pc EXCEPT ![t] = "wait"]
      /\ cpc' = [cpc EXCEPT ![t] = "redirectOut"]
      /\ UNCHANGED << pipe, shouldCapture, captured, result, redirected, written,
                      binary, sharedStatus, code, wstatus, fate >>
  BY DEF Fork, Goto
<1>3. PICK q \in {<< >>, << "mull" >>} : pending' = [pending EXCEPT ![t]["out"] = q]
  BY DEF Fork
<1>4. q \in Seq(Chunk) /\ Own(q) = 0
  <2>1. CASE q = << >>
    BY <2>1, OwnNone
  <2>2. CASE q = << "mull" >>
    <3>1. q \in Seq(Chunk)
      BY <2>2 DEF Chunk, Text
    <3> QED BY <2>2, <3>1, OwnNone
  <2> QED BY <2>1, <2>2
<1>5. /\ pc' \in [Thread -> BeforeFork \cup {"wait"} \cup AfterWait]
      /\ pc'[t] = "wait" /\ \A u \in Thread \ {t} : pc'[u] = pc[u]
  BY <1>1, <1>2 DEF TypeOK
<1>6. /\ cpc' \in [Thread -> Setup \cup {"run", "flush", "stuck"} \cup Gone]
      /\ cpc'[t] = "redirectOut" /\ \A u \in Thread \ {t} : cpc'[u] = cpc[u]
  BY <1>1, <1>2 DEF TypeOK, Setup
<1>7. /\ pending' \in [Thread -> [Stream -> Seq(Chunk)]]
      /\ \A u \in Thread \ {t} : pending'[u] = pending[u]
      /\ pending'[t]["out"] = q /\ pending'[t]["err"] = pending[t]["err"]
  BY <1>1, <1>3, <1>4 DEF TypeOK, Stream
<1>8. ASSUME NEW u \in Thread, NEW s \in Stream
      PROVE  /\ writers'[u][s] \in SUBSET (Thread \cup {Mull})
             /\ Mull \in writers'[u][s] => Mull \in writers[u][s]
  BY <1>1 DEF Fork, TypeOK
<1>9. writers' \in [Thread -> [Stream -> SUBSET (Thread \cup {Mull})]]
  <2>1. writers' = [u \in Thread |-> [s \in Stream |-> writers'[u][s]]]
    BY DEF Fork
  <2> QED BY <1>8, <2>1
<1>10. TypeOK'
  BY <1>1, <1>2, <1>5, <1>6, <1>7, <1>9 DEF TypeOK
<1>11. ASSUME NEW u \in Thread \ {t} PROVE SameRun(u) /\ FewerMulls(u)
  BY <1>2, <1>5, <1>6, <1>7, <1>8 DEF SameRun, SameChild, SameOutput, FewerMulls
<1>12. OrderInv(t)'
  BY <1>5, <1>6 DEF OrderInv, BeforeFork, AfterWait
<1>13. FateInv(t)'
  BY <1>1, <1>2, <1>6 DEF RunInv, OrderInv, FateInv, BeforeFork, Gone
<1>14. ResultInv(t)'
  BY <1>1, <1>2, <1>5, ResultKept DEF RunInv
<1>15. WriterInv(t)'
  BY <1>1, <1>2, <1>5, <1>8 DEF RunInv, WriterInv
<1>16. ASSUME NEW s \in Stream PROVE OutputInv(t, s)'
  <2>1. ~redirected[t][s] /\ cpc[t] = "none"
    BY <1>1, <1>2 DEF RunInv, OutputInv, OrderInv, BeforeFork
  <2>2. Own(pending'[t][s]) = 0
    BY <1>1, <1>4, <1>7, <2>1 DEF RunInv, OutputInv, Stream, Setup
  <2> QED BY <1>1, <1>2, <1>6, <2>1, <2>2 DEF RunInv, OutputInv, Setup, Gone
<1> QED BY <1>10, <1>11, <1>12, <1>13, <1>14, <1>15, <1>16, StepOf DEF RunInv

\* Mull goes on when its own child has ended.
LEMMA ReapKeeps ==
  ASSUME IInv, NEW t \in Thread, Reap(t)
  PROVE  IInv'
<1>1. TypeOK /\ RunInv(t)
  BY DEF IInv
<1>2. /\ pc[t] = "wait" /\ pc' = [pc EXCEPT ![t] = "closeOut"]
      /\ cpc[t] = "exited" /\ cpc' = [cpc EXCEPT ![t] = "reaped"]
      /\ UNCHANGED << pipeVars, shouldCapture, captured, result, redirected, pending,
                      written, binary, sharedStatus, code, wstatus, fate >>
  BY DEF Reap, Goto
<1>3. /\ pc' \in [Thread -> BeforeFork \cup {"wait"} \cup AfterWait]
      /\ pc'[t] = "closeOut" /\ \A u \in Thread \ {t} : pc'[u] = pc[u]
  BY <1>1, <1>2 DEF TypeOK, AfterWait
<1>4. /\ cpc' \in [Thread -> Setup \cup {"run", "flush", "stuck"} \cup Gone]
      /\ cpc'[t] = "reaped" /\ \A u \in Thread \ {t} : cpc'[u] = cpc[u]
  BY <1>1, <1>2 DEF TypeOK, Gone
<1>5. TypeOK'
  BY <1>1, <1>2, <1>3, <1>4 DEF TypeOK, pipeVars
<1>6. ASSUME NEW u \in Thread \ {t} PROVE SameRun(u) /\ FewerMulls(u)
  BY <1>2, <1>3, <1>4 DEF SameRun, SameChild, SameOutput, FewerMulls, pipeVars
<1>7. OrderInv(t)'
  BY <1>3, <1>4 DEF OrderInv, BeforeFork, AfterWait
<1>8. FateInv(t)'
  BY <1>1, <1>2, <1>4 DEF RunInv, FateInv, EndsItself, Gone
<1>9. ResultInv(t)'
  BY <1>1, <1>2, <1>3, ResultKept DEF RunInv
<1>10. WriterInv(t)'
  BY <1>1, <1>2, <1>3 DEF RunInv, WriterInv, pipeVars
<1>11. ASSUME NEW s \in Stream PROVE OutputInv(t, s)'
  BY <1>1, <1>2, <1>3, <1>4 DEF RunInv, OutputInv, pipeVars, BeforeFork, Setup, Gone,
        AfterRead
<1> QED BY <1>5, <1>6, <1>7, <1>8, <1>9, <1>10, <1>11, StepOf DEF RunInv

\* What the steps of Mull after the wait have in common: the child is gone, and
\* the clauses about it stay as they are.
LEMMA AfterWaitStep ==
  ASSUME IInv, NEW t \in Thread, NEW to \in AfterWait,
         pc[t] \in AfterWait \ {"done"}, pc' = [pc EXCEPT ![t] = to],
         UNCHANGED << shouldCapture, childVars >>
  PROVE  /\ pc' \in [Thread -> BeforeFork \cup {"wait"} \cup AfterWait]
         /\ pc'[t] = to /\ \A u \in Thread \ {t} : pc'[u] = pc[u]
         /\ OrderInv(t)' /\ FateInv(t)'
         /\ \A u \in Thread : SameChild(u)
         /\ cpc[t] = "reaped" /\ cpc'[t] = "reaped"
<1>1. TypeOK /\ RunInv(t)
  BY DEF IInv
<1>2. /\ pc' \in [Thread -> BeforeFork \cup {"wait"} \cup AfterWait]
      /\ pc'[t] = to /\ \A u \in Thread \ {t} : pc'[u] = pc[u]
  BY <1>1 DEF TypeOK
<1>3. cpc[t] = "reaped" /\ cpc'[t] = "reaped"
  BY <1>1 DEF RunInv, OrderInv, childVars
<1>4. OrderInv(t)'
  BY <1>2, <1>3 DEF OrderInv, BeforeFork, AfterWait
<1>5. \A u \in Thread : SameChild(u)
  BY DEF SameChild, childVars
<1>6. FateInv(t)'
  BY <1>1, <1>5, FateKept DEF RunInv
<1> QED BY <1>2, <1>3, <1>4, <1>5, <1>6

\* Mull closes its write end before it reads.
LEMMA BeginCaptureKeeps ==
  ASSUME IInv, NEW t \in Thread, NEW s \in Stream, NEW from, NEW to,
         BeginCapture(t, s, from, to),
         << s, from, to >> \in {<< "out", "closeOut", "readOut" >>,
                               << "err", "closeErr", "readErr" >>}
  PROVE  IInv'
<1>1. TypeOK /\ RunInv(t)
  BY DEF IInv
<1>2. /\ pc[t] = from /\ pc' = [pc EXCEPT ![t] = to]
      /\ s = "out" => from = "closeOut" /\ to = "readOut"
      /\ s = "err" => from = "closeErr" /\ to = "readErr"
      /\ from \in AfterWait \ {"done"} /\ to \in AfterWait \ {"done"}
      /\ UNCHANGED << pipe, shouldCapture, captured, result, childVars >>
  BY DEF BeginCapture, Goto, AfterWait
<1>3. /\ pc' \in [Thread -> BeforeFork \cup {"wait"} \cup AfterWait]
      /\ pc'[t] = to /\ \A u \in Thread \ {t} : pc'[u] = pc[u]
      /\ OrderInv(t)' /\ FateInv(t)'
      /\ \A u \in Thread : SameChild(u)
      /\ cpc[t] = "reaped" /\ cpc'[t] = "reaped"
  BY <1>2, AfterWaitStep
<1>4. /\ writers' \in [Thread -> [Stream -> SUBSET (Thread \cup {Mull})]]
      /\ \A u \in Thread \ {t} : writers'[u] = writers[u]
      /\ \A r \in Stream \ {s} : writers'[t][r] = writers[t][r]
      /\ Mull \notin writers'[t][s]
  <2>1. /\ writers \in [Thread -> [Stream -> SUBSET (Thread \cup {Mull})]]
        /\ Mull \in writers[t][s] => shouldCapture[t][s]
    BY <1>1 DEF TypeOK, RunInv, WriterInv
  <2>2. CASE shouldCapture[t][s]
    <3>1. writers' = [writers EXCEPT ![t][s] = @ \ {Mull}]
      BY <2>2 DEF BeginCapture
    <3> QED BY <2>1, <3>1
  <2>3. CASE ~shouldCapture[t][s]
    BY <2>1, <2>3 DEF BeginCapture
  <2> QED BY <2>2, <2>3
<1>5. TypeOK'
  BY <1>1, <1>2, <1>3, <1>4 DEF TypeOK, childVars
<1>6. ASSUME NEW u \in Thread \ {t} PROVE SameRun(u) /\ FewerMulls(u)
  BY <1>2, <1>3, <1>4 DEF SameRun, SameOutput, FewerMulls, childVars
<1>7. ResultInv(t)'
  BY <1>1, <1>2, <1>3, ResultKept DEF RunInv
<1>8. WriterInv(t)'
  <2>1. WriterInv(t) /\ shouldCapture'[t] = shouldCapture[t]
    BY <1>1, <1>2 DEF RunInv
  <2>2. CASE s = "out"
    BY <1>2, <1>3, <1>4, <2>1, <2>2 DEF WriterInv, Stream
  <2>3. CASE s = "err"
    BY <1>2, <1>3, <1>4, <2>1, <2>3 DEF WriterInv, Stream
  <2> QED BY <2>2, <2>3 DEF Stream
<1>9. ASSUME NEW r \in Stream PROVE OutputInv(t, r)'
  <2>1. to \in AfterRead(r) => from \in AfterRead(r)
    BY <1>2 DEF AfterRead, Stream
  <2>2. from \notin BeforeFork /\ to \notin BeforeFork
    BY <1>2 DEF AfterWait, BeforeFork
  <2> QED BY <1>1, <1>2, <1>3, <2>1, <2>2 DEF RunInv, OutputInv, childVars
<1> QED BY <1>3, <1>5, <1>6, <1>7, <1>8, <1>9, StepOf DEF RunInv

\* read() moves a chunk from the pipe to Mull.
LEMMA ReadChunkKeeps ==
  ASSUME IInv, NulFree, NEW t \in Thread, NEW s \in Stream, NEW at \in {"readOut", "readErr"},
         ReadChunk(t, s, at)
  PROVE  IInv'
<1>1. TypeOK /\ RunInv(t)
  BY DEF IInv
<1>2. PICK count \in 1 .. ReadSize :
        /\ count <= Len(pipe[t][s])
        /\ captured' = [captured EXCEPT ![t][s] = @ \o CString(SubSeq(pipe[t][s], 1, count))]
        /\ pipe' = [pipe EXCEPT ![t][s] = SubSeq(pipe[t][s], count + 1, Len(pipe[t][s]))]
  BY DEF ReadChunk
<1>3. /\ pipe[t][s] \in Seq(Chunk) /\ captured[t][s] \in Seq(Chunk)
      /\ pending[t][s] \in Seq(Chunk)
  BY <1>1 DEF TypeOK
<1>4. PICK a, b : /\ a = SubSeq(pipe[t][s], 1, count)
                  /\ b = SubSeq(pipe[t][s], count + 1, Len(pipe[t][s]))
  OBVIOUS
<1>5. /\ a \in Seq(Chunk) /\ b \in Seq(Chunk) /\ pipe[t][s] = a \o b
      /\ CString(a) \in Seq(Chunk)
      /\ ~binary[t][s] => CString(a) = a
  <2>1. count \in Nat /\ ReadSize \in Nat
    BY SandboxAssumption
  <2>2. /\ a \in Seq(Chunk) /\ b \in Seq(Chunk) /\ pipe[t][s] = a \o b
    BY <1>2, <1>3, <1>4, <2>1, SplitAt
  <2>3. ~binary[t][s] => a \in Seq(Text)
    BY <1>2, <1>4, <2>1, SplitAt DEF NulFree
  <2> QED BY <2>2, <2>3, CStringIs
<1>6. /\ captured' \in [Thread -> [Stream -> Seq(Chunk)]]
      /\ captured'[t][s] = captured[t][s] \o CString(a)
      /\ \A u \in Thread \ {t} : captured'[u] = captured[u]
      /\ \A r \in Stream \ {s} : captured'[t][r] = captured[t][r]
  <2>1. captured \in [Thread -> [Stream -> Seq(Chunk)]]
    BY <1>1 DEF TypeOK
  <2>2. PICK q : q = captured[t][s] \o CString(a)
    OBVIOUS
  <2>3. q \in Seq(Chunk)
    BY <1>3, <1>5, <2>2, ConcatProperties, Zenon
  <2>4. captured' = [captured EXCEPT ![t][s] = q]
    BY <1>2, <1>4, <2>2
  <2> QED BY <2>1, <2>2, <2>3, <2>4
<1>7. /\ pipe' \in [Thread -> [Stream -> Seq(Chunk)]]
      /\ pipe'[t][s] = b
      /\ \A u \in Thread \ {t} : pipe'[u] = pipe[u]
      /\ \A r \in Stream \ {s} : pipe'[t][r] = pipe[t][r]
  <2>1. pipe \in [Thread -> [Stream -> Seq(Chunk)]]
    BY <1>1 DEF TypeOK
  <2>2. pipe' = [pipe EXCEPT ![t][s] = b]
    BY <1>2, <1>4
  <2> QED BY <1>5, <2>1, <2>2
<1>8. pc[t] = at /\ UNCHANGED << writers, pc, shouldCapture, result, childVars >>
  BY DEF ReadChunk
<1>9. TypeOK'
  BY <1>1, <1>8, <1>6, <1>7 DEF TypeOK, childVars
<1>10. ASSUME NEW u \in Thread \ {t} PROVE SameRun(u) /\ FewerMulls(u)
  BY <1>8, <1>6, <1>7 DEF SameRun, SameChild, SameOutput, FewerMulls, childVars
<1>11. cpc[t] = "reaped" /\ pc[t] # "done"
  BY <1>1, <1>8 DEF RunInv, OrderInv, AfterWait
<1>12. OrderInv(t)' /\ FateInv(t)' /\ ResultInv(t)' /\ WriterInv(t)'
  <2>1. SameChild(t)
    BY <1>8 DEF SameChild, childVars
  <2>2. FateInv(t)' /\ ResultInv(t)'
    BY <1>1, <1>8, <1>11, <2>1, FateKept, ResultKept DEF RunInv
  <2> QED BY <1>1, <1>8, <2>2 DEF RunInv, OrderInv, WriterInv, childVars
<1>13. ASSUME NEW r \in Stream PROVE OutputInv(t, r)'
  <2>1. CASE r # s
    BY <1>1, <1>8, <1>6, <1>7, <2>1 DEF RunInv, OutputInv, childVars
  <2>2. CASE r = s
    <3>1. ~binary[t][s] =>
            Own(captured'[t][s]) + Own(pipe'[t][s]) = Own(captured[t][s]) + Own(pipe[t][s])
      <4>1. ~binary[t][s] => Own(captured'[t][s]) = Own(captured[t][s]) + Own(a)
        BY <1>3, <1>5, <1>6, OwnConcat, Zenon
      <4>2. Own(pipe[t][s]) = Own(a) + Own(b) /\ pipe'[t][s] = b
        BY <1>5, <1>7, OwnConcat
      <4>3. Own(captured[t][s]) \in Nat /\ Own(a) \in Nat /\ Own(b) \in Nat
        BY <1>3, <1>5, OwnIs
      <4> QED BY <4>1, <4>2, <4>3
    <3>2. redirected[t][s] => pc[t] \notin AfterRead(s)
      <4>1. redirected[t][s] /\ pc[t] \in AfterRead(s) => pipe[t][s] = << >>
        BY <1>1 DEF RunInv, OutputInv
      <4>2. pipe[t][s] # << >>
        BY <1>2, SandboxAssumption
      <4> QED BY <4>1, <4>2
    <3>3. OutputInv(t, s) /\ cpc[t] \notin Setup
      BY <1>1, <1>11 DEF RunInv, Setup
    <3> QED BY <1>8, <2>2, <3>1, <3>2, <3>3 DEF OutputInv, childVars
  <2> QED BY <2>1, <2>2
<1> QED BY <1>9, <1>10, <1>12, <1>13, StepOf DEF RunInv

\* Mull leaves the pipe at its end of file.
LEMMA EndCaptureKeeps ==
  ASSUME IInv, NEW t \in Thread, NEW s \in Stream, NEW from, NEW to,
         EndCapture(t, s, from, to),
         << s, from, to >> \in {<< "out", "readOut", "closeErr" >>,
                               << "err", "readErr", "decode" >>}
  PROVE  IInv'
<1>1. TypeOK /\ RunInv(t)
  BY DEF IInv
<1>2. /\ pc[t] = from /\ pc' = [pc EXCEPT ![t] = to]
      /\ s = "out" => from = "readOut" /\ to = "closeErr"
      /\ s = "err" => from = "readErr" /\ to = "decode"
      /\ from \in AfterWait \ {"done"} /\ to \in AfterWait \ {"done"}
      /\ UNCHANGED << pipeVars, shouldCapture, captured, result, childVars >>
      /\ shouldCapture[t][s] => pipe[t][s] = << >>
  BY DEF EndCapture, EndOfFile, Goto, AfterWait
<1>3. /\ pc' \in [Thread -> BeforeFork \cup {"wait"} \cup AfterWait]
      /\ pc'[t] = to /\ \A u \in Thread \ {t} : pc'[u] = pc[u]
      /\ OrderInv(t)' /\ FateInv(t)'
      /\ \A u \in Thread : SameChild(u)
      /\ cpc[t] = "reaped" /\ cpc'[t] = "reaped"
  BY <1>2, AfterWaitStep
<1>4. TypeOK'
  BY <1>1, <1>2, <1>3 DEF TypeOK, childVars, pipeVars
<1>5. ASSUME NEW u \in Thread \ {t} PROVE SameRun(u) /\ FewerMulls(u)
  BY <1>2, <1>3 DEF SameRun, SameOutput, FewerMulls, childVars, pipeVars
<1>6. ResultInv(t)'
  BY <1>1, <1>2, <1>3, ResultKept DEF RunInv
<1>7. WriterInv(t)'
  BY <1>1, <1>2, <1>3 DEF RunInv, WriterInv, Stream, pipeVars
<1>8. ASSUME NEW r \in Stream PROVE OutputInv(t, r)'
  <2>1. to \in AfterRead(r) => from \in AfterRead(r) \/ r = s
    BY <1>2 DEF AfterRead, Stream
  <2>2. from \notin BeforeFork /\ to \notin BeforeFork
    BY <1>2 DEF AfterWait, BeforeFork
  <2> QED BY <1>1, <1>2, <1>3, <2>1, <2>2 DEF RunInv, OutputInv, childVars, pipeVars
<1> QED BY <1>3, <1>4, <1>5, <1>6, <1>7, <1>8, StepOf DEF RunInv

\* The result is decoded from the wait status and the shared memory.
LEMMA ReturnResultKeeps ==
  ASSUME IInv, NEW t \in Thread, ReturnResult(t)
  PROVE  IInv'
<1>1. TypeOK /\ RunInv(t)
  BY DEF IInv
<1>2. /\ pc[t] = "decode" /\ pc' = [pc EXCEPT ![t] = "done"]
      /\ result' = [result EXCEPT ![t] = Decode(t)]
      /\ UNCHANGED << pipeVars, shouldCapture, captured, childVars >>
  BY DEF ReturnResult, Goto
<1>3. /\ pc' \in [Thread -> BeforeFork \cup {"wait"} \cup AfterWait]
      /\ pc'[t] = "done" /\ \A u \in Thread \ {t} : pc'[u] = pc[u]
      /\ OrderInv(t)' /\ FateInv(t)'
      /\ \A u \in Thread : SameChild(u)
      /\ cpc[t] = "reaped" /\ cpc'[t] = "reaped"
  BY <1>2, AfterWaitStep DEF AfterWait
<1>4. Decode(t) \in {"Passed", "Failed", "Timedout", "Crashed", "AbnormalExit"}
  BY <1>1 DEF TypeOK, Decode, TestStatus
<1>5. /\ result' \in [Thread -> {"none", "Passed", "Failed", "Timedout", "Crashed",
                                 "AbnormalExit"}]
      /\ result'[t] = Decode(t) /\ \A u \in Thread \ {t} : result'[u] = result[u]
  <2> HIDE DEF Decode
  <2> QED BY <1>1, <1>2, <1>4 DEF TypeOK
<1>6. TypeOK'
  BY <1>1, <1>2, <1>3, <1>5 DEF TypeOK, childVars, pipeVars
<1>7. ASSUME NEW u \in Thread \ {t} PROVE SameRun(u) /\ FewerMulls(u)
  BY <1>2, <1>3, <1>5 DEF SameRun, SameOutput, FewerMulls, childVars, pipeVars
<1>8. ResultInv(t)'
  <2>1. Decode(t)' = Decode(t)
    BY <1>3 DEF Decode, Exited, SameChild
  <2> HIDE DEF Decode
  <2> QED BY <1>3, <1>5, <2>1 DEF ResultInv
<1>9. WriterInv(t)'
  BY <1>1, <1>2, <1>3 DEF RunInv, WriterInv, pipeVars
<1>10. ASSUME NEW s \in Stream PROVE OutputInv(t, s)'
  <2>1. "decode" \in AfterRead(s) /\ "decode" \notin BeforeFork /\ "done" \notin BeforeFork
    BY DEF AfterRead, BeforeFork
  <2> QED BY <1>1, <1>2, <1>3, <2>1 DEF RunInv, OutputInv, childVars, pipeVars
<1> QED BY <1>3, <1>6, <1>7, <1>8, <1>9, <1>10, StepOf DEF RunInv

-----------------------------------------------------------------------------
(* The steps of the child.                                                 *)

\* A diagnostic of the child blocks it, ends it, or lets it go on.
LEMMA DiagnosticIs ==
  ASSUME NEW t \in Thread, NEW fatal,
         NEW next \in {"redirectErr", "arm", "run"}, ChildDiagnostic(t, fatal, next)
  PROVE  \/ \E x \in {"redirectErr", "arm", "run", "stuck"} :
              cpc' = [cpc EXCEPT ![t] = x] /\ UNCHANGED << code, fate >>
         \/ StartExit(t, 1, "setup")
  BY DEF ChildDiagnostic

\* A step before the test runs: nothing has been printed yet.
LEMMA SetupKeeps ==
  ASSUME IInv, NEW t \in Thread, cpc[t] \in {"redirectOut", "redirectErr", "arm"},
         \/ \E x \in {"redirectErr", "arm", "run", "stuck"} :
              cpc' = [cpc EXCEPT ![t] = x] /\ UNCHANGED << code, fate >>
         \/ StartExit(t, 1, "setup"),
         writers' \in [Thread -> [Stream -> SUBSET (Thread \cup {Mull})]],
         \A u \in Thread : FewerMulls(u),
         redirected' \in [Thread -> [Stream -> BOOLEAN]],
         \A u \in Thread \ {t} : redirected'[u] = redirected[u],
         \A s \in Stream : redirected'[t][s] => redirected[t][s] \/ shouldCapture[t][s],
         UNCHANGED << parentVars, pipe, pending, written, binary, sharedStatus, wstatus >>
  PROVE  IInv'
<1>1. TypeOK /\ RunInv(t) /\ UNCHANGED << pc, shouldCapture, captured, result >>
  BY DEF IInv, parentVars
<1>2. /\ cpc' \in [Thread -> Setup \cup {"run", "flush", "stuck"} \cup Gone]
      /\ cpc'[t] \in {"redirectErr", "arm", "run", "stuck", "flush"}
      /\ \A u \in Thread \ {t} : cpc'[u] = cpc[u]
  <2>1. cpc \in [Thread -> Setup \cup {"run", "flush", "stuck"} \cup Gone]
    BY <1>1 DEF TypeOK
  <2>2. PICK x \in {"redirectErr", "arm", "run", "stuck", "flush"} :
          cpc' = [cpc EXCEPT ![t] = x]
    BY DEF StartExit
  <2>3. x \in Setup \cup {"run", "flush", "stuck"}
    BY DEF Setup
  <2> QED BY <2>1, <2>2, <2>3
<1>3. /\ code' \in [Thread -> 0..255]
      /\ fate' \in [Thread -> {"none", "returned", "exit", "setup", "crash", "alarm"}]
      /\ \A u \in Thread \ {t} : code'[u] = code[u] /\ fate'[u] = fate[u]
      /\ cpc'[t] = "flush" => code'[t] = 1 /\ fate'[t] = "setup"
      /\ cpc'[t] # "flush" => fate'[t] = fate[t]
  <2>1. /\ code \in [Thread -> 0..255] /\ DOMAIN cpc = Thread
        /\ fate \in [Thread -> {"none", "returned", "exit", "setup", "crash", "alarm"}]
    BY <1>1 DEF TypeOK
  <2>2. CASE StartExit(t, 1, "setup")
    BY <2>1, <2>2 DEF StartExit
  <2>3. CASE \E x \in {"redirectErr", "arm", "run", "stuck"} :
               cpc' = [cpc EXCEPT ![t] = x] /\ UNCHANGED << code, fate >>
    BY <2>1, <2>3
  <2> QED BY <2>2, <2>3
<1>4. TypeOK'
  BY <1>1, <1>2, <1>3 DEF TypeOK
<1>5. ASSUME NEW u \in Thread \ {t} PROVE SameChild(u) /\ SameOutput(u)
  BY <1>1, <1>2, <1>3 DEF SameChild, SameOutput
<1>6. fate[t] = "none" /\ sharedStatus[t] = "Invalid"
  BY <1>1 DEF RunInv, FateInv, Gone
<1>7. FateInv(t)'
  BY <1>2, <1>3, <1>6 DEF FateInv, EndsItself, Gone
<1>8. pc[t] = "wait"
  BY <1>1, ChildRuns DEF RunInv
<1>9. ASSUME NEW s \in Stream PROVE OutputInv(t, s)'
  <2>1. /\ written[t][s] = 0 /\ captured[t][s] = << >> /\ pipe[t][s] = << >>
        /\ Own(pending[t][s]) = 0
        /\ redirected[t][s] => shouldCapture[t][s]
    BY <1>1 DEF RunInv, OutputInv, Setup
  <2>2. Own(captured[t][s]) + Own(pipe[t][s]) + Own(pending[t][s]) = written[t][s]
    BY <2>1, OwnNone
  <2> QED BY <1>1, <1>2, <1>8, <2>1, <2>2 DEF OutputInv, BeforeFork, Gone, AfterRead
<1> QED BY <1>1, <1>2, <1>4, <1>5, <1>7, <1>9, ChildStep

\* Pipe::redirect
LEMMA RedirectKeeps ==
  ASSUME IInv, NEW t \in Thread, NEW s \in Stream,
         NEW from \in {"redirectOut", "redirectErr"}, NEW to \in {"redirectErr", "arm"},
         Redirect(t, s, from, to)
  PROVE  IInv'
<1>1. /\ writers \in [Thread -> [Stream -> SUBSET (Thread \cup {Mull})]]
      /\ redirected \in [Thread -> [Stream -> BOOLEAN]]
  BY DEF IInv, TypeOK
<1>2. writers' = writers \/ writers' = [writers EXCEPT ![t][s] = @ \ {t}]
  BY DEF Redirect
<1>3. /\ writers' \in [Thread -> [Stream -> SUBSET (Thread \cup {Mull})]]
      /\ \A u \in Thread : FewerMulls(u)
  <2>1. CASE writers' = writers
    BY <1>1, <2>1 DEF FewerMulls
  <2>2. CASE writers' = [writers EXCEPT ![t][s] = @ \ {t}]
    <3>1. writers[t][s] \ {t} \in SUBSET (Thread \cup {Mull})
      BY <1>1
    <3>2. writers' \in [Thread -> [Stream -> SUBSET (Thread \cup {Mull})]]
      BY <1>1, <2>2, <3>1
    <3>3. \A u \in Thread, r \in Stream : writers'[u][r] \subseteq writers[u][r]
      BY <1>1, <2>2
    <3> QED BY <3>2, <3>3 DEF FewerMulls
  <2> QED BY <1>2, <2>1, <2>2
<1>4. \/ redirected' = redirected
      \/ redirected' = [redirected EXCEPT ![t][s] = TRUE] /\ shouldCapture[t][s]
  BY DEF Redirect
<1>5. /\ redirected' \in [Thread -> [Stream -> BOOLEAN]]
      /\ \A u \in Thread \ {t} : redirected'[u] = redirected[u]
      /\ \A r \in Stream : redirected'[t][r] => redirected[t][r] \/ shouldCapture[t][r]
  <2>1. CASE redirected' = redirected
    BY <1>1, <2>1
  <2>2. CASE redirected' = [redirected EXCEPT ![t][s] = TRUE] /\ shouldCapture[t][s]
    <3>1. redirected' \in [Thread -> [Stream -> BOOLEAN]]
      BY <1>1, <2>2
    <3>2. /\ \A u \in Thread \ {t} : redirected'[u] = redirected[u]
          /\ \A r \in Stream \ {s} : redirected'[t][r] = redirected[t][r]
      BY <1>1, <2>2
    <3> QED BY <2>2, <3>1, <3>2
  <2> QED BY <1>4, <2>1, <2>2
<1>6. \/ \E x \in {"redirectErr", "arm", "run", "stuck"} :
           cpc' = [cpc EXCEPT ![t] = x] /\ UNCHANGED << code, fate >>
      \/ StartExit(t, 1, "setup")
  <2>1. \/ cpc' = [cpc EXCEPT ![t] = to] /\ UNCHANGED << code, fate >>
        \/ ChildDiagnostic(t, strictMode, to)
    BY DEF Redirect
  <2> QED BY <2>1, DiagnosticIs
<1>7. /\ cpc[t] \in {"redirectOut", "redirectErr", "arm"}
      /\ UNCHANGED << parentVars, pipe, pending, written, binary, sharedStatus, wstatus >>
  BY DEF Redirect
<1> QED BY <1>3, <1>5, <1>6, <1>7, SetupKeeps

\* handle_timeout
LEMMA ArmTimerKeeps ==
  ASSUME IInv, NEW t \in Thread, ArmTimer(t)
  PROVE  IInv'
<1>1. /\ writers \in [Thread -> [Stream -> SUBSET (Thread \cup {Mull})]]
      /\ redirected \in [Thread -> [Stream -> BOOLEAN]]
  BY DEF IInv, TypeOK
<1>2. writers' = writers /\ redirected' = redirected
  BY DEF ArmTimer, pipeVars
<1>3. \/ \E x \in {"redirectErr", "arm", "run", "stuck"} :
           cpc' = [cpc EXCEPT ![t] = x] /\ UNCHANGED << code, fate >>
      \/ StartExit(t, 1, "setup")
  <2>1. \/ cpc' = [cpc EXCEPT ![t] = "run"] /\ UNCHANGED << code, fate >>
        \/ ChildDiagnostic(t, TRUE, "run")
    BY DEF ArmTimer
  <2> QED BY <2>1, DiagnosticIs
<1>4. /\ cpc[t] \in {"redirectOut", "redirectErr", "arm"}
      /\ UNCHANGED << parentVars, pipe, pending, written, binary, sharedStatus, wstatus >>
  BY DEF ArmTimer, pipeVars
<1>5. \A u \in Thread : FewerMulls(u)
  BY <1>2 DEF FewerMulls
<1> QED BY <1>1, <1>2, <1>3, <1>4, <1>5, SetupKeeps

\* The test returns or calls exit(): what it has printed stays in the buffer.
LEMMA StartExitKeeps ==
  ASSUME IInv, NEW t \in Thread, NEW c \in 0..255, NEW why \in {"returned", "exit"},
         NEW status \in TestStatus \cup {"Invalid"},
         cpc[t] = "run", StartExit(t, c, why),
         sharedStatus' = [sharedStatus EXCEPT ![t] = status],
         \/ why = "returned" /\ c = MullExitCode /\ status \in TestStatus
         \/ why = "exit" /\ status = "Invalid",
         UNCHANGED << parentVars, pipeVars, redirected, pending, written, binary, wstatus >>
  PROVE  IInv'
<1>1. /\ TypeOK /\ RunInv(t)
      /\ UNCHANGED << pc, shouldCapture, captured, result, writers, pipe >>
  BY DEF IInv, parentVars, pipeVars
<1>2. /\ cpc' \in [Thread -> Setup \cup {"run", "flush", "stuck"} \cup Gone]
      /\ cpc'[t] = "flush" /\ \A u \in Thread \ {t} : cpc'[u] = cpc[u]
  BY <1>1 DEF TypeOK, StartExit
<1>3. /\ fate' \in [Thread -> {"none", "returned", "exit", "setup", "crash", "alarm"}]
      /\ fate'[t] = why /\ \A u \in Thread \ {t} : fate'[u] = fate[u]
  BY <1>1 DEF TypeOK, StartExit
<1>4. /\ code' \in [Thread -> 0..255]
      /\ code'[t] = c /\ \A u \in Thread \ {t} : code'[u] = code[u]
  BY <1>1 DEF TypeOK, StartExit
<1>5. /\ sharedStatus' \in [Thread -> TestStatus \cup {"Invalid"}]
      /\ sharedStatus'[t] = status
      /\ \A u \in Thread \ {t} : sharedStatus'[u] = sharedStatus[u]
  BY <1>1 DEF TypeOK
<1>6. TypeOK'
  BY <1>1, <1>2, <1>3, <1>4, <1>5 DEF TypeOK
<1>7. ASSUME NEW u \in Thread \ {t} PROVE SameChild(u) /\ SameOutput(u)
  BY <1>1, <1>2, <1>3, <1>4, <1>5 DEF SameChild, SameOutput
<1>8. FateInv(t)'
  BY <1>2, <1>3, <1>4, <1>5 DEF FateInv, EndsItself, Gone
<1>9. ASSUME NEW s \in Stream PROVE OutputInv(t, s)'
  <2>1. fate[t] = "none" /\ "flush" \notin Setup /\ "flush" \notin Gone
    BY <1>1 DEF RunInv, FateInv, Gone, Setup
  <2> QED BY <1>1, <1>2, <1>3, <2>1 DEF RunInv, OutputInv
<1>10. \A u \in Thread : FewerMulls(u)
  BY <1>1 DEF FewerMulls
<1> QED BY <1>1, <1>2, <1>6, <1>7, <1>8, <1>9, <1>10, ChildStep

\* The child is gone.  Its buffers are lost, but a child that ends by itself has
\* flushed them.
LEMMA EndKeeps ==
  ASSUME IInv, NEW t \in Thread, NEW how \in {"exited", "signaled"}, NEW c \in 0..255,
         NEW why \in {"none", "returned", "exit", "setup", "crash", "alarm"},
         cpc[t] \in {"run", "flush"}, End(t, how, c, why),
         \/ /\ how = "exited" /\ c = code[t] /\ why = fate[t] /\ EndsItself(t)
            /\ Flushed(t)
         \/ how = "exited" /\ c = MullTimeoutCode /\ why = "alarm"
         \/ how = "signaled" /\ why = "crash",
         UNCHANGED << parentVars, pipe, redirected, written, binary, sharedStatus, code >>
  PROVE  IInv'
<1>1. TypeOK /\ RunInv(t) /\ UNCHANGED << pc, shouldCapture, captured, result >>
  BY DEF IInv, parentVars
<1>2. /\ cpc' \in [Thread -> Setup \cup {"run", "flush", "stuck"} \cup Gone]
      /\ cpc'[t] = "exited" /\ \A u \in Thread \ {t} : cpc'[u] = cpc[u]
  BY <1>1 DEF TypeOK, End, Gone
<1>3. /\ fate' \in [Thread -> {"none", "returned", "exit", "setup", "crash", "alarm"}]
      /\ fate'[t] = why /\ \A u \in Thread \ {t} : fate'[u] = fate[u]
  BY <1>1 DEF TypeOK, End
<1>4. /\ wstatus' \in [Thread -> [how : {"running", "exited", "signaled"}, code : 0..255]]
      /\ wstatus'[t].how = how /\ wstatus'[t].code = c
      /\ \A u \in Thread \ {t} : wstatus'[u] = wstatus[u]
  <2>1. wstatus \in [Thread -> [how : {"running", "exited", "signaled"}, code : 0..255]]
    BY <1>1 DEF TypeOK
  <2>2. wstatus' = [wstatus EXCEPT ![t] = [how |-> how, code |-> c]]
    BY DEF End
  <2> QED BY <2>1, <2>2
<1>5. /\ pending' \in [Thread -> [Stream -> Seq(Chunk)]]
      /\ \A s \in Stream : pending'[t][s] = << >>
      /\ \A u \in Thread \ {t} : pending'[u] = pending[u]
  <2>1. /\ pending \in [Thread -> [Stream -> Seq(Chunk)]]
        /\ [s \in Stream |-> << >>] \in [Stream -> Seq(Chunk)]
    BY <1>1 DEF TypeOK
  <2>2. pending' = [pending EXCEPT ![t] = [s \in Stream |-> << >>]]
    BY DEF End
  <2> QED BY <2>1, <2>2
<1>6. /\ writers' \in [Thread -> [Stream -> SUBSET (Thread \cup {Mull})]]
      /\ \A u \in Thread : FewerMulls(u)
  <2>1. /\ writers \in [Thread -> [Stream -> SUBSET (Thread \cup {Mull})]]
        /\ writers' = [u \in Thread |-> [s \in Stream |-> writers[u][s] \ {t}]]
    BY <1>1 DEF TypeOK, End
  <2> QED BY <2>1 DEF FewerMulls
<1>7. TypeOK'
  BY <1>1, <1>2, <1>3, <1>4, <1>5, <1>6 DEF TypeOK
<1>8. ASSUME NEW u \in Thread \ {t} PROVE SameChild(u) /\ SameOutput(u)
  BY <1>1, <1>2, <1>3, <1>4, <1>5 DEF SameChild, SameOutput
<1>9. FateInv(t)'
  <2>1. "exited" \in Gone /\ "exited" # "flush"
    BY DEF Gone
  <2> QED BY <1>2, <1>3, <1>4, <2>1 DEF FateInv, EndsItself
<1>10. ASSUME NEW s \in Stream PROVE OutputInv(t, s)'
  <2>1. OutputInv(t, s)
    BY <1>1 DEF RunInv
  <2>2. why \notin {"crash", "alarm"} => pending[t][s] = << >> /\ fate[t] = why
    BY DEF Flushed
  <2>3. "exited" \notin Setup
    BY DEF Setup
  <2>4. pending'[t][s] = << >>
    BY <1>5
  <2>5. redirected[t][s] /\ why \notin {"crash", "alarm"} /\ ~binary[t][s] =>
          Own(captured[t][s]) + Own(pipe[t][s]) + Own(pending'[t][s]) = written[t][s]
    BY <2>1, <2>2, <2>4 DEF OutputInv
  <2> QED BY <1>1, <1>2, <1>3, <2>1, <2>3, <2>4, <2>5 DEF OutputInv
<1> QED BY <1>1, <1>2, <1>6, <1>7, <1>8, <1>9, <1>10, ChildStep

\* function() prints: the chunk is in the child's buffer.
LEMMA TestPrintsKeeps ==
  ASSUME IInv, NEW t \in Thread, NEW s \in Stream, NEW byte \in {"test", "nul"},
         TestPrints(t, s, byte)
  PROVE  IInv'
<1>1. TypeOK /\ RunInv(t) /\ cpc[t] = "run"
  BY DEF IInv, TestPrints
<1>2. /\ UNCHANGED << pc, shouldCapture, captured, result, writers, pipe, cpc, redirected,
                      sharedStatus, code, wstatus, fate >>
      /\ written' = [written EXCEPT ![t][s] = @ + 1]
      /\ pending' = [pending EXCEPT ![t][s] = Append(@, byte)]
      /\ binary' = [binary EXCEPT ![t][s] = @ \/ byte = "nul"]
  BY DEF TestPrints, parentVars, pipeVars
<1>3. /\ pending[t][s] \in Seq(Chunk) /\ pipe[t][s] \in Seq(Chunk)
      /\ captured[t][s] \in Seq(Chunk) /\ written[t][s] \in Nat
  BY <1>1 DEF TypeOK
<1>4. byte \in Chunk /\ Append(pending[t][s], byte) \in Seq(Chunk)
  BY <1>3 DEF Chunk, Text
<1>5. /\ binary' \in [Thread -> [Stream -> BOOLEAN]]
      /\ ~binary'[t][s] => ~binary[t][s] /\ byte = "test"
      /\ \A u \in Thread \ {t} : binary'[u] = binary[u]
      /\ \A r \in Stream \ {s} : binary'[t][r] = binary[t][r]
  <2>1. binary \in [Thread -> [Stream -> BOOLEAN]]
    BY <1>1 DEF TypeOK
  <2>2. (binary[t][s] \/ byte = "nul") \in BOOLEAN
    BY <2>1
  <2> QED BY <1>2, <2>1, <2>2
<1>6. /\ pending' \in [Thread -> [Stream -> Seq(Chunk)]]
      /\ pending'[t][s] = Append(pending[t][s], byte)
      /\ \A u \in Thread \ {t} : pending'[u] = pending[u]
      /\ \A r \in Stream \ {s} : pending'[t][r] = pending[t][r]
  <2>1. pending \in [Thread -> [Stream -> Seq(Chunk)]]
    BY <1>1 DEF TypeOK
  <2> QED BY <1>2, <1>4, <2>1
<1>7. /\ written' \in [Thread -> [Stream -> Nat]]
      /\ written'[t][s] = written[t][s] + 1
      /\ \A u \in Thread \ {t} : written'[u] = written[u]
      /\ \A r \in Stream \ {s} : written'[t][r] = written[t][r]
  <2>1. written \in [Thread -> [Stream -> Nat]]
    BY <1>1 DEF TypeOK
  <2> QED BY <1>2, <2>1
<1>8. TypeOK'
  BY <1>1, <1>2, <1>5, <1>6, <1>7 DEF TypeOK
<1>9. ASSUME NEW u \in Thread \ {t} PROVE SameChild(u) /\ SameOutput(u)
  BY <1>2, <1>5, <1>6, <1>7 DEF SameChild, SameOutput
<1>10. FateInv(t)' /\ \A u \in Thread : FewerMulls(u)
  BY <1>1, <1>2, FateKept DEF RunInv, SameChild, FewerMulls
<1>11. ASSUME NEW r \in Stream PROVE OutputInv(t, r)'
  <2>1. OutputInv(t, r) /\ cpc[t] \notin Setup \cup Gone
    BY <1>1 DEF RunInv, Setup, Gone
  <2>2. CASE r # s
    BY <1>2, <1>5, <1>6, <1>7, <2>1, <2>2 DEF OutputInv
  <2>3. CASE r = s
    <3>1. byte = "test" => Own(pending'[t][s]) = Own(pending[t][s]) + 1
      BY <1>3, <1>4, <1>6, OwnAppend
    <3>2. /\ Own(pending[t][s]) \in Nat /\ Own(pipe[t][s]) \in Nat
          /\ Own(captured[t][s]) \in Nat
      BY <1>3, OwnIs
    <3>3. byte = "test" /\ Own(captured[t][s]) + Own(pipe[t][s]) + Own(pending[t][s]) = written[t][s] =>
            Own(captured[t][s]) + Own(pipe[t][s]) + Own(pending'[t][s]) = written'[t][s]
      BY <1>3, <1>7, <3>1, <3>2
    <3> QED BY <1>2, <1>5, <2>1, <2>3, <3>3 DEF OutputInv
  <2> QED BY <2>2, <2>3
<1>12. cpc[t] \notin {"none", "reaped"} /\ cpc'[t] \notin {"none", "reaped"}
  BY <1>1, <1>2
<1> QED BY <1>2, <1>8, <1>9, <1>10, <1>11, <1>12, ChildStep

\* function() returns.
LEMMA TestReturnsKeeps ==
  ASSUME IInv, NEW t \in Thread, NEW status \in TestStatus, TestReturns(t, status)
  PROVE  IInv'
<1>1. MullExitCode \in 0..255
  BY DEF MullExitCode
<1>2. /\ cpc[t] = "run" /\ StartExit(t, MullExitCode, "returned")
      /\ sharedStatus' = [sharedStatus EXCEPT ![t] = status]
      /\ UNCHANGED << parentVars, pipeVars, redirected, pending, written, binary, wstatus >>
  BY DEF TestReturns
<1> QED BY <1>1, <1>2, StartExitKeeps

\* function() calls exit(c): the shared status stays as Mull has written it.
LEMMA TestExitsKeeps ==
  ASSUME IInv, NEW t \in Thread, NEW c \in ExitCode, TestExits(t, c)
  PROVE  IInv'
<1>1. c \in 0..255
  BY SandboxAssumption
<1>2. /\ cpc[t] = "run" /\ StartExit(t, c, "exit") /\ sharedStatus' = sharedStatus
      /\ UNCHANGED << parentVars, pipeVars, redirected, pending, written, binary, wstatus >>
  BY DEF TestExits
<1>3. TypeOK /\ sharedStatus[t] = "Invalid"
  BY <1>2 DEF IInv, RunInv, FateInv, Gone
<1>4. sharedStatus' = [sharedStatus EXCEPT ![t] = "Invalid"]
  BY <1>2, <1>3 DEF TypeOK
<1> QED BY <1>1, <1>2, <1>4, StartExitKeeps

\* function() dies of a signal.
LEMMA TestCrashesKeeps ==
  ASSUME IInv, NEW t \in Thread, TestCrashes(t)
  PROVE  IInv'
<1>1. /\ cpc[t] \in {"run", "flush"} /\ End(t, "signaled", 0, "crash")
      /\ UNCHANGED << parentVars, pipe, redirected, written, binary, sharedStatus, code >>
  BY DEF TestCrashes
<1> QED BY <1>1, EndKeeps

\* The alarm goes off.
LEMMA AlarmKeeps ==
  ASSUME IInv, NEW t \in Thread, Alarm(t)
  PROVE  IInv'
<1>1. /\ cpc[t] \in {"run", "flush"} /\ End(t, "exited", MullTimeoutCode, "alarm")
      /\ UNCHANGED << parentVars, pipe, redirected, written, binary, sharedStatus, code >>
      /\ MullTimeoutCode \in 0..255
  BY DEF Alarm, MullTimeoutCode
<1> QED BY <1>1, EndKeeps

\* The child ends by itself, after the flush.
LEMMA ChildExitsKeeps ==
  ASSUME IInv, NEW t \in Thread, ChildExits(t)
  PROVE  IInv'
<1>1. /\ cpc[t] \in {"run", "flush"} /\ End(t, "exited", code[t], fate[t]) /\ Flushed(t)
      /\ UNCHANGED << parentVars, pipe, redirected, written, binary, sharedStatus, code >>
      /\ cpc[t] = "flush"
  BY DEF ChildExits
<1>2. /\ code[t] \in 0..255 /\ EndsItself(t)
      /\ fate[t] \in {"none", "returned", "exit", "setup", "crash", "alarm"}
  BY <1>1 DEF IInv, TypeOK, RunInv, FateInv
<1> QED BY <1>1, <1>2, EndKeeps

\* write() moves a chunk from the buffer to the pipe, or to Mull's own stream.
LEMMA FlushChunkKeeps ==
  ASSUME IInv, NEW t \in Thread, NEW s \in Stream, FlushChunk(t, s)
  PROVE  IInv'
<1> DEFINE c == Head(pending[t][s])
<1>1. TypeOK /\ RunInv(t)
  BY DEF IInv
<1>2. /\ cpc[t] \in {"run", "flush"} /\ pending[t][s] # << >>
      /\ pending' = [pending EXCEPT ![t][s] = Tail(@)]
      /\ UNCHANGED << pc, shouldCapture, captured, result, writers, cpc, redirected,
                      written, binary, sharedStatus, code, wstatus, fate >>
  BY DEF FlushChunk, parentVars
<1>3. /\ pending[t][s] \in Seq(Chunk) /\ pipe[t][s] \in Seq(Chunk)
      /\ captured[t][s] \in Seq(Chunk)
  BY <1>1 DEF TypeOK
<1>4. c \in Chunk /\ Tail(pending[t][s]) \in Seq(Chunk)
  BY <1>2, <1>3, HeadTailProperties
<1>5. Append(pipe[t][s], c) \in Seq(Chunk)
  BY <1>3, <1>4
<1>6. /\ pending' \in [Thread -> [Stream -> Seq(Chunk)]]
      /\ pending'[t][s] = Tail(pending[t][s])
      /\ \A u \in Thread \ {t} : pending'[u] = pending[u]
      /\ \A r \in Stream \ {s} : pending'[t][r] = pending[t][r]
  <2>1. pending \in [Thread -> [Stream -> Seq(Chunk)]]
    BY <1>1 DEF TypeOK
  <2> QED BY <1>2, <1>4, <2>1
<1>7. /\ pipe' \in [Thread -> [Stream -> Seq(Chunk)]]
      /\ redirected[t][s] => pipe'[t][s] = Append(pipe[t][s], c)
      /\ \A u \in Thread \ {t} : pipe'[u] = pipe[u]
      /\ \A r \in Stream \ {s} : pipe'[t][r] = pipe[t][r]
  <2>1. pipe \in [Thread -> [Stream -> Seq(Chunk)]]
    BY <1>1 DEF TypeOK
  <2>2. CASE redirected[t][s]
    <3>1. pipe' = [pipe EXCEPT ![t][s] = Append(@, c)]
      BY <2>2 DEF FlushChunk
    <3> HIDE DEF c
    <3> QED BY <1>5, <2>1, <3>1
  <2>3. CASE ~redirected[t][s]
    BY <2>1, <2>3 DEF FlushChunk
  <2> QED BY <2>2, <2>3
<1>8. TypeOK'
  BY <1>1, <1>2, <1>6, <1>7 DEF TypeOK
<1>9. ASSUME NEW u \in Thread \ {t} PROVE SameChild(u) /\ SameOutput(u)
  BY <1>2, <1>6, <1>7 DEF SameChild, SameOutput
<1>10. FateInv(t)' /\ \A u \in Thread : FewerMulls(u)
  BY <1>1, <1>2, FateKept DEF RunInv, SameChild, FewerMulls
<1>11. pc[t] = "wait" /\ cpc[t] \notin {"none", "reaped"} /\ cpc'[t] \notin {"none", "reaped"}
  BY <1>1, <1>2, ChildRuns DEF RunInv
<1>12. ASSUME NEW r \in Stream PROVE OutputInv(t, r)'
  <2>1. OutputInv(t, r) /\ cpc[t] \notin Setup \cup Gone /\ pc[t] \notin AfterRead(r)
    BY <1>1, <1>2, <1>11 DEF RunInv, Setup, Gone, AfterRead
  <2>2. CASE r # s
    BY <1>2, <1>6, <1>7, <2>1, <2>2 DEF OutputInv
  <2>3. CASE r = s
    <3> HIDE DEF c
    <3>1. redirected[t][s] =>
            Own(pipe'[t][s]) + Own(pending'[t][s]) = Own(pipe[t][s]) + Own(pending[t][s])
      <4>1. redirected[t][s] =>
              Own(pipe'[t][s]) = Own(pipe[t][s]) + (IF c = "test" THEN 1 ELSE 0)
        BY <1>3, <1>4, <1>7, OwnAppend
      <4>2. Own(pending[t][s]) = Own(pending'[t][s]) + (IF c = "test" THEN 1 ELSE 0)
        BY <1>2, <1>3, <1>6, OwnTail DEF c
      <4>3. /\ Own(pending[t][s]) \in Nat /\ Own(pipe[t][s]) \in Nat
            /\ Own(pending'[t][s]) \in Nat
        BY <1>3, <1>4, <1>6, OwnIs
      <4> QED BY <4>1, <4>2, <4>3
    <3>2. /\ Own(pipe'[t][s]) \in Nat /\ Own(pending'[t][s]) \in Nat
          /\ Own(pipe[t][s]) \in Nat /\ Own(pending[t][s]) \in Nat
          /\ Own(captured[t][s]) \in Nat
      <4>1. pipe'[t][s] \in Seq(Chunk) /\ pending'[t][s] \in Seq(Chunk)
        BY <1>6, <1>7
      <4> QED BY <1>3, <4>1, OwnIs
    <3>3. redirected[t][s] =>
            Own(captured[t][s]) + Own(pipe'[t][s]) + Own(pending'[t][s]) =
            Own(captured[t][s]) + Own(pipe[t][s]) + Own(pending[t][s])
      BY <3>1, <3>2
    <3> QED BY <1>2, <2>1, <2>3, <3>3 DEF OutputInv
  <2> QED BY <2>2, <2>3
<1> QED BY <1>2, <1>8, <1>9, <1>10, <1>11, <1>12, ChildStep

-----------------------------------------------------------------------------
(* The bytes on their way.                                                 *)

\* Initially there are none.
LEMMA InitNulFree == Init => NulFree
<1> SUFFICES ASSUME Init, NEW t \in Thread, NEW s \in Stream
             PROVE  pending[t][s] \in Seq(Text) /\ pipe[t][s] \in Seq(Text)
  BY DEF NulFree
<1>1. pending[t][s] = << >> /\ pipe[t][s] = << >>
  BY DEF Init, PerStream
<1> QED BY <1>1

\* A NUL comes from the test alone.
LEMMA NextNulFree == IInv /\ NulFree /\ [Next]_vars => NulFree'
<1> SUFFICES ASSUME IInv, NulFree, [Next]_vars PROVE NulFree'
  OBVIOUS
<1>1. /\ pending \in [Thread -> [Stream -> Seq(Chunk)]]
      /\ pipe \in [Thread -> [Stream -> Seq(Chunk)]]
      /\ binary \in [Thread -> [Stream -> BOOLEAN]]
  BY DEF IInv, TypeOK
<1>2. ASSUME UNCHANGED << pending, pipe, binary >> PROVE NulFree'
  BY <1>2 DEF NulFree
<1>3. ASSUME NEW t \in Thread, Fork(t) PROVE NulFree'
  <2>1. PICK q \in {<< >>, << "mull" >>} : pending' = [pending EXCEPT ![t]["out"] = q]
    BY <1>3 DEF Fork
  <2>2. q \in Seq(Text)
    <3>1. << >> \in Seq(Text) /\ << "mull" >> \in Seq(Text)
      BY DEF Text
    <3> QED BY <3>1
  <2>3. UNCHANGED << pipe, binary >>
    BY <1>3 DEF Fork
  <2>4. \A u \in Thread, r \in Stream : pending'[u][r] = pending[u][r] \/ pending'[u][r] = q
    BY <1>1, <2>1
  <2> QED BY <2>2, <2>3, <2>4 DEF NulFree
<1>4. ASSUME NEW t \in Thread, NEW how, NEW c, NEW why, End(t, how, c, why),
             UNCHANGED << pipe, binary >>
      PROVE  NulFree'
  <2>1. pending' = [pending EXCEPT ![t] = [s \in Stream |-> << >>]]
    BY <1>4 DEF End
  <2>2. \A u \in Thread, r \in Stream : pending'[u][r] = pending[u][r] \/ pending'[u][r] = << >>
    BY <1>1, <2>1
  <2>3. << >> \in Seq(Text)
    OBVIOUS
  <2> QED BY <1>4, <2>2, <2>3 DEF NulFree
<1>5. ASSUME NEW t \in Thread, NEW s \in Stream, NEW at, ReadChunk(t, s, at) PROVE NulFree'
  <2>1. PICK count \in 1 .. ReadSize :
          /\ count <= Len(pipe[t][s])
          /\ pipe' = [pipe EXCEPT ![t][s] = SubSeq(pipe[t][s], count + 1, Len(pipe[t][s]))]
    BY <1>5 DEF ReadChunk
  <2>2. UNCHANGED << pending, binary >>
    BY <1>5 DEF ReadChunk, childVars
  <2>3. PICK q : q = SubSeq(pipe[t][s], count + 1, Len(pipe[t][s]))
    OBVIOUS
  <2>4. count \in Nat
    BY SandboxAssumption
  <2>5. ~binary[t][s] => q \in Seq(Text)
    BY <2>1, <2>3, <2>4, SplitAt DEF NulFree
  <2>6. \A u \in Thread, r \in Stream :
          pipe'[u][r] = IF u = t /\ r = s THEN q ELSE pipe[u][r]
    BY <1>1, <2>1, <2>3
  <2> QED BY <2>2, <2>5, <2>6 DEF NulFree
<1>6. ASSUME NEW t \in Thread, NEW s \in Stream, NEW byte \in {"test", "nul"},
             TestPrints(t, s, byte)
      PROVE  NulFree'
  <2>1. /\ pending' = [pending EXCEPT ![t][s] = Append(@, byte)]
        /\ binary' = [binary EXCEPT ![t][s] = @ \/ byte = "nul"]
        /\ pipe' = pipe
    BY <1>6 DEF TestPrints, pipeVars
  <2>2. PICK q : q = Append(pending[t][s], byte)
    OBVIOUS
  <2>3. \A u \in Thread, r \in Stream :
          pending'[u][r] = IF u = t /\ r = s THEN q ELSE pending[u][r]
    BY <1>1, <2>1, <2>2
  <2>4. (binary[t][s] \/ byte = "nul") \in BOOLEAN
    BY <1>1
  <2>5. \A u \in Thread, r \in Stream : ~binary'[u][r] => ~binary[u][r]
    BY <1>1, <2>1, <2>4
  <2>6. ~binary'[t][s] => byte = "test"
    BY <1>1, <2>1, <2>4
  <2>7. ~binary'[t][s] => q \in Seq(Text)
    <3>1. ~binary'[t][s] => pending[t][s] \in Seq(Text) /\ byte \in Text
      BY <2>5, <2>6 DEF NulFree, Text
    <3> QED BY <2>2, <3>1
  <2> SUFFICES ASSUME NEW u \in Thread, NEW r \in Stream, ~binary'[u][r]
               PROVE  pending'[u][r] \in Seq(Text) /\ pipe'[u][r] \in Seq(Text)
    BY DEF NulFree
  <2>8. pending[u][r] \in Seq(Text) /\ pipe[u][r] \in Seq(Text)
    BY <2>5 DEF NulFree
  <2>9. CASE u = t /\ r = s
    BY <2>1, <2>3, <2>7, <2>8, <2>9
  <2> QED BY <2>1, <2>3, <2>8, <2>9
<1>7. ASSUME NEW t \in Thread, NEW s \in Stream, FlushChunk(t, s) PROVE NulFree'
  <2>1. /\ pending' = [pending EXCEPT ![t][s] = Tail(@)] /\ binary' = binary
        /\ pending[t][s] # << >>
        /\ \/ pipe' = pipe
           \/ pipe' = [pipe EXCEPT ![t][s] = Append(@, Head(pending[t][s]))]
    BY <1>7 DEF FlushChunk
  <2>2. PICK p, q : p = Tail(pending[t][s]) /\ q = Append(pipe[t][s], Head(pending[t][s]))
    OBVIOUS
  <2>3. ~binary[t][s] => p \in Seq(Text) /\ q \in Seq(Text)
    <3>1. ~binary[t][s] => pending[t][s] \in Seq(Text) /\ pipe[t][s] \in Seq(Text)
      BY DEF NulFree
    <3>2. ~binary[t][s] => p \in Seq(Text) /\ Head(pending[t][s]) \in Text
      BY <2>1, <2>2, <3>1, HeadTailProperties
    <3> QED BY <2>2, <3>1, <3>2
  <2>4. /\ \A u \in Thread, r \in Stream :
             pending'[u][r] = IF u = t /\ r = s THEN p ELSE pending[u][r]
        /\ \A u \in Thread, r \in Stream :
             \/ pipe'[u][r] = pipe[u][r]
             \/ u = t /\ r = s /\ pipe'[u][r] = q
    BY <1>1, <2>1, <2>2
  <2> QED BY <2>1, <2>3, <2>4 DEF NulFree
<1>8. CASE ProgressBegin \/ ProgressEnd \/ Terminated \/ Deadlocked \/ UNCHANGED vars
  BY <1>2, <1>8 DEF ProgressBegin, ProgressEnd, Terminated, Deadlocked, vars, pipeVars,
        childVars
<1>9. ASSUME NEW t \in Thread, Parent(t) PROVE NulFree'
  <2>1. CASE \/ OpenPipe(t, "out", "openOut", "openErr")
             \/ OpenPipe(t, "err", "openErr", "fork")
             \/ ForkFails(t) \/ Reap(t) \/ ReturnResult(t)
    BY <1>2, <2>1 DEF OpenPipe, ForkFails, Reap, ReturnResult, pipeVars, childVars
  <2>2. CASE \/ BeginCapture(t, "out", "closeOut", "readOut")
             \/ BeginCapture(t, "err", "closeErr", "readErr")
             \/ EndCapture(t, "out", "readOut", "closeErr")
             \/ EndCapture(t, "err", "readErr", "decode")
    BY <1>2, <2>2 DEF BeginCapture, EndCapture, pipeVars, childVars
  <2>3. CASE ReadChunk(t, "out", "readOut") \/ ReadChunk(t, "err", "readErr")
    BY <1>5, <2>3 DEF Stream
  <2> QED BY <1>3, <1>9, <2>1, <2>2, <2>3 DEF Parent
<1>10. ASSUME NEW t \in Thread, ChildSetup(t) PROVE NulFree'
  BY <1>2, <1>10 DEF ChildSetup, Redirect, ArmTimer, pipeVars
<1>11. ASSUME NEW t \in Thread, Test(t) \/ ChildFinish(t) \/ Alarm(t) PROVE NulFree'
  <2>1. CASE TestCrashes(t) \/ ChildExits(t) \/ Alarm(t)
    BY <1>4, <2>1 DEF TestCrashes, ChildExits, Alarm
  <2>2. CASE \/ \E status \in TestStatus : TestReturns(t, status)
             \/ \E c \in ExitCode : TestExits(t, c)
    BY <1>2, <2>2 DEF TestReturns, TestExits, pipeVars
  <2> QED BY <1>6, <1>7, <1>11, <2>1, <2>2 DEF Test, ChildFinish
<1> QED BY <1>8, <1>9, <1>10, <1>11 DEF Next

-----------------------------------------------------------------------------
(* The invariant and what follows from it.                                 *)

\* Every step preserves the invariant.
LEMMA NextIInv == IInv /\ NulFree /\ [Next]_vars => IInv'
<1> SUFFICES ASSUME IInv, NulFree, [Next]_vars PROVE IInv'
  OBVIOUS
<1>1. CASE ProgressBegin \/ ProgressEnd
  BY <1>1, MullStep DEF ProgressBegin, ProgressEnd
<1>2. CASE Terminated \/ Deadlocked \/ UNCHANGED vars
  BY <1>2, MullStep DEF Terminated, Deadlocked, vars
<1>3. ASSUME NEW t \in Thread, Parent(t) PROVE IInv'
  <2>1. CASE \/ OpenPipe(t, "out", "openOut", "openErr")
             \/ OpenPipe(t, "err", "openErr", "fork")
    BY <2>1, OpenPipeKeeps DEF Stream
  <2>2. CASE Fork(t) \/ Reap(t) \/ ReturnResult(t)
    BY <2>2, ForkKeeps, ReapKeeps, ReturnResultKeeps
  <2>3. CASE ForkFails(t)
    BY <2>3, MullStep DEF ForkFails
  <2>4. CASE \/ BeginCapture(t, "out", "closeOut", "readOut")
             \/ BeginCapture(t, "err", "closeErr", "readErr")
    BY <2>4, BeginCaptureKeeps DEF Stream
  <2>5. CASE ReadChunk(t, "out", "readOut") \/ ReadChunk(t, "err", "readErr")
    BY <2>5, ReadChunkKeeps DEF Stream
  <2>6. CASE \/ EndCapture(t, "out", "readOut", "closeErr")
             \/ EndCapture(t, "err", "readErr", "decode")
    BY <2>6, EndCaptureKeeps DEF Stream
  <2> QED BY <1>3, <2>1, <2>2, <2>3, <2>4, <2>5, <2>6 DEF Parent
<1>4. ASSUME NEW t \in Thread, ChildSetup(t) PROVE IInv'
  BY <1>4, RedirectKeeps, ArmTimerKeeps DEF ChildSetup, Stream
<1>5. ASSUME NEW t \in Thread, Test(t) PROVE IInv'
  BY <1>5, TestPrintsKeeps, TestReturnsKeeps, TestExitsKeeps, TestCrashesKeeps DEF Test
<1>6. ASSUME NEW t \in Thread, ChildFinish(t) \/ Alarm(t) PROVE IInv'
  BY <1>6, FlushChunkKeeps, ChildExitsKeeps, AlarmKeeps DEF ChildFinish
<1> QED BY <1>1, <1>2, <1>3, <1>4, <1>5, <1>6 DEF Next

\* The invariant holds in every reachable state.
LEMMA Invariance == Spec => []IInv
  BY InitIInv, InitNulFree, NextIInv, NextNulFree, PTL DEF Spec

\* A verdict names what ended this run's own child.
THEOREM VerdictNamesTheFateHolds == Spec => []VerdictNamesTheFate
<1>1. IInv => VerdictNamesTheFate
  <2> SUFFICES ASSUME IInv, NEW t \in Thread
               PROVE  /\ result[t] = "Passed" =>
                           \/ fate[t] = "returned" /\ sharedStatus[t] = "Passed"
                           \/ fate[t] = "exit" /\ code[t] = 0
                      /\ result[t] = "Failed" =>
                           fate[t] = "returned" /\ sharedStatus[t] = "Failed"
                      /\ result[t] = "Crashed" <=> pc[t] = "done" /\ fate[t] = "crash"
                      /\ result[t] = "AbnormalExit" =>
                           /\ fate[t] \in {"exit", "setup"}
                           /\ code[t] \notin {MullExitCode, MullTimeoutCode}
                      /\ result[t] = "Timedout" =>
                           fate[t] = "alarm" \/ (fate[t] = "exit" /\ code[t] = MullTimeoutCode)
    BY DEF VerdictNamesTheFate
  <2>1. /\ code[t] \in 0..255 /\ sharedStatus[t] \in TestStatus \cup {"Invalid"}
        /\ OrderInv(t) /\ FateInv(t) /\ ResultInv(t)
    BY DEF IInv, TypeOK, RunInv
  <2>2. CASE pc[t] # "done"
    BY <2>1, <2>2 DEF ResultInv
  <2>3. CASE pc[t] = "done"
    <3>1. result[t] = Decode(t) /\ cpc[t] \in Gone
      BY <2>1, <2>3 DEF ResultInv, OrderInv, AfterWait, Gone
    <3>2. CASE wstatus[t].how = "exited" /\ wstatus[t].code = code[t] /\ EndsItself(t)
      BY <2>1, <2>3, <3>1, <3>2 DEF Decode, Exited, EndsItself, MullExitCode,
            MullTimeoutCode, TestStatus
    <3>3. CASE \/ /\ wstatus[t].how = "exited" /\ wstatus[t].code = MullTimeoutCode
                  /\ fate[t] = "alarm"
               \/ wstatus[t].how = "signaled" /\ fate[t] = "crash"
      BY <2>3, <3>1, <3>3 DEF Decode, Exited, MullExitCode, MullTimeoutCode
    <3> QED BY <2>1, <3>1, <3>2, <3>3 DEF FateInv
  <2> QED BY <2>2, <2>3
<1> QED BY <1>1, Invariance, PTL

\* run never loses output of a child that ended by itself.
THEOREM OutputIsWholeHolds == Spec => []OutputIsWhole
<1>1. IInv => OutputIsWhole
  <2> SUFFICES ASSUME IInv, NEW t \in Thread, NEW s \in Stream, pc[t] = "done",
                      redirected[t][s], fate[t] \in {"returned", "exit"}, ~binary[t][s]
               PROVE  Own(captured[t][s]) = written[t][s]
    BY DEF OutputIsWhole
  <2>1. /\ captured[t][s] \in Seq(Chunk) /\ OrderInv(t) /\ OutputInv(t, s)
    BY DEF IInv, TypeOK, RunInv
  <2>2. cpc[t] \in Gone /\ pc[t] \in AfterRead(s)
    BY <2>1 DEF OrderInv, AfterWait, Gone, AfterRead
  <2>3. /\ Own(captured[t][s]) + Own(pipe[t][s]) + Own(pending[t][s]) = written[t][s]
        /\ pipe[t][s] = << >> /\ pending[t][s] = << >>
    BY <2>1, <2>2 DEF OutputInv
  <2>4. Own(captured[t][s]) \in Nat
    BY <2>1, OwnIs
  <2>5. Own(captured[t][s]) + 0 + 0 = written[t][s]
    BY <2>3, OwnNone
  <2> QED BY <2>4, <2>5
<1> QED BY <1>1, Invariance, PTL

\* Who holds the write end of a pipe that Mull has closed: a step of the thread
\* itself, of a child, or a fork by any thread adds no process.
LEMMA NoNewWriter ==
  ASSUME IInv, [Next]_vars, NEW t \in Thread, NEW s \in Stream,
         pc[t] = IF s = "out" THEN "readOut" ELSE "readErr"
  PROVE  writers'[t][s] \subseteq writers[t][s]
<1>1. /\ writers \in [Thread -> [Stream -> SUBSET (Thread \cup {Mull})]]
      /\ Mull \notin writers[t][s]
  BY DEF IInv, TypeOK, RunInv, WriterInv, Stream
<1>2. CASE UNCHANGED writers
  BY <1>2
<1>3. ASSUME NEW u \in Thread, NEW r \in Stream, NEW from \in {"openOut", "openErr"}, NEW to,
             OpenPipe(u, r, from, to)
      PROVE  writers'[t][s] \subseteq writers[t][s]
  <2>1. pc[u] = from /\ u # t
    BY <1>3 DEF OpenPipe, Goto
  <2> QED BY <1>1, <1>3, <2>1 DEF OpenPipe
<1>4. ASSUME NEW u \in Thread, Fork(u) PROVE writers'[t][s] \subseteq writers[t][s]
  BY <1>1, <1>4 DEF Fork
<1>5. ASSUME NEW u \in Thread, NEW r \in Stream, NEW from, NEW to,
             BeginCapture(u, r, from, to) \/ Redirect(u, r, from, to)
      PROVE  writers'[t][s] \subseteq writers[t][s]
  <2>1. PICK p : writers' = writers \/ writers' = [writers EXCEPT ![u][r] = @ \ {p}]
    BY <1>5 DEF BeginCapture, Redirect
  <2> QED BY <1>1, <2>1
<1>6. ASSUME NEW u \in Thread, TestCrashes(u) \/ ChildExits(u) \/ Alarm(u)
      PROVE  writers'[t][s] \subseteq writers[t][s]
  <2>1. writers' = [v \in Thread |-> [r \in Stream |-> writers[v][r] \ {u}]]
    BY <1>6 DEF TestCrashes, ChildExits, Alarm, End
  <2> QED BY <2>1
<1>7. CASE ProgressBegin \/ ProgressEnd \/ Terminated \/ Deadlocked \/ UNCHANGED vars
  BY <1>2, <1>7 DEF ProgressBegin, ProgressEnd, Terminated, Deadlocked, vars, pipeVars
<1>8. ASSUME NEW u \in Thread, Parent(u) PROVE writers'[t][s] \subseteq writers[t][s]
  <2>1. CASE \/ ForkFails(u) \/ Reap(u) \/ ReturnResult(u)
             \/ \E r \in Stream, at \in {"readOut", "readErr"} : ReadChunk(u, r, at)
             \/ EndCapture(u, "out", "readOut", "closeErr")
             \/ EndCapture(u, "err", "readErr", "decode")
    BY <1>2, <2>1 DEF ForkFails, Reap, ReturnResult, ReadChunk, EndCapture, pipeVars
  <2>2. CASE \/ OpenPipe(u, "out", "openOut", "openErr")
             \/ OpenPipe(u, "err", "openErr", "fork")
    BY <1>3, <2>2 DEF Stream
  <2>3. CASE \/ BeginCapture(u, "out", "closeOut", "readOut")
             \/ BeginCapture(u, "err", "closeErr", "readErr")
    BY <1>5, <2>3 DEF Stream
  <2> QED BY <1>4, <1>8, <2>1, <2>2, <2>3 DEF Parent, Stream
<1>9. ASSUME NEW u \in Thread, ChildSetup(u) PROVE writers'[t][s] \subseteq writers[t][s]
  <2>1. CASE ArmTimer(u)
    BY <1>2, <2>1 DEF ArmTimer, pipeVars
  <2> QED BY <1>5, <1>9, <2>1 DEF ChildSetup, Stream
<1>10. ASSUME NEW u \in Thread, Test(u) \/ ChildFinish(u) \/ Alarm(u)
       PROVE  writers'[t][s] \subseteq writers[t][s]
  <2>1. CASE \/ \E r \in Stream : FlushChunk(u, r)
             \/ \E r \in Stream, byte \in {"test", "nul"} : TestPrints(u, r, byte)
             \/ \E status \in TestStatus : TestReturns(u, status)
             \/ \E c \in ExitCode : TestExits(u, c)
    BY <1>2, <2>1 DEF TestPrints, FlushChunk, TestReturns, TestExits, pipeVars
  <2> QED BY <1>6, <1>10, <2>1 DEF Test, ChildFinish
<1> QED BY <1>7, <1>8, <1>9, <1>10 DEF Next

\* Once a thread reads a pipe, no process can come to hold its write end.
THEOREM NoNewWriterWhileReadingHolds == Spec => NoNewWriterWhileReading
<1>1. IInv /\ [Next]_vars =>
        [\A t \in Thread, s \in Stream :
           pc[t] = (IF s = "out" THEN "readOut" ELSE "readErr")
             => writers'[t][s] \subseteq writers[t][s]]_vars
  BY NoNewWriter
<1> QED BY <1>1, Invariance, PTL DEF Spec, NoNewWriterWhileReading

=============================================================================

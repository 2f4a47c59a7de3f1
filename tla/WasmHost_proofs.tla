--------------------------- MODULE WasmHost_proofs ---------------------------
(***************************************************************************)
(* What holds of the Wasm host for any guests, keys and bounds: its types; *)
(* that a settlement belongs to one trace only (SettlementBinds), for      *)
(* traces of any length; that a job's result and the workspace agree with  *)
(* its receipts (ReceiptsFollow), a dense list of them (TraceIsDense);     *)
(* that one guest after the other finds what was said to be stored         *)
(* (ToldIsStored); and that a terminal call's answer does not pass for     *)
(* more than it is (AnswerIsWhole).                                        *)
(*                                                                         *)
(* Where one would use induction on the nodes of a tree the least          *)
(* counterexample is taken instead (LeastMember).                          *)
(***************************************************************************)
EXTENDS WasmHost, FiniteSetTheorems, SequenceTheorems, WellFoundedInduction, TLAPS

-----------------------------------------------------------------------------
(* The tree of a settlement.                                               *)

\* A trace has room for a receipt.
LEMMA SomeRoom == MaxReceipts \in Nat /\ MaxReceipts >= 1
BY TraceAssumption

\* A set of naturals that is not empty has a least member.
LEMMA LeastMember ==
    ASSUME NEW T, T \subseteq Nat, T # {}
    PROVE  \E x \in T : \A y \in T : x <= y
<1>1. IsWellFoundedOn(OpToRel(<, Nat), Nat)
  BY NatLessThanWellFounded
<1>2. PICK x \in T : \A y \in T : <<y, x>> \notin OpToRel(<, Nat)
  BY <1>1, WFMin
<1>3. \A y \in T : ~(y < x)
  BY <1>2, Zenon DEF OpToRel
<1>4. QED
  BY <1>3

\* The leaves fit in their power of two (next_power_of_two).
LEMMA PadIsPower ==
    ASSUME NEW n \in 1 .. MaxReceipts
    PROVE  Pad(n) \in Powers /\ Pad(n) \in Nat \ {0} /\ n <= Pad(n)
<1>0. n \in Nat /\ 1 <= n /\ n <= 65535
  BY TraceAssumption
<1>1. \E p \in Powers : p >= n /\ p < 2 * n
  <2>1. CASE n <= 16
    BY <1>0, <2>1 DEF Powers
  <2>2. CASE n > 16 /\ n <= 256
    BY <1>0, <2>2 DEF Powers
  <2>3. CASE n > 256 /\ n <= 4096
    BY <1>0, <2>3 DEF Powers
  <2>4. CASE n > 4096
    BY <1>0, <2>4 DEF Powers
  <2>5. QED
    BY <1>0, <2>1, <2>2, <2>3, <2>4
<1>2. Pad(n) \in Powers /\ n <= Pad(n)
  BY <1>1 DEF Pad
<1>3. \A p \in Powers : p \in Nat \ {0}
  BY DEF Powers
<1>4. QED
  BY <1>2, <1>3

\* A tree of p leaves from node k on: inner nodes over their two children.
TreeFrom(f, k, p, leaf) ==
    f = [i \in k .. 2 * p - 1 |-> IF i < p THEN Branch(f[2 * i], f[2 * i + 1]) ELSE leaf[i]]

\* It can be filled from the end, as build fills it.
LEMMA TreeGrows ==
    ASSUME NEW p \in Nat, NEW leaf, NEW k \in 2 .. p, NEW f, TreeFrom(f, k, p, leaf)
    PROVE  \E g : TreeFrom(g, k - 1, p, leaf)
<1> DEFINE g == [i \in k - 1 .. 2 * p - 1 |->
                   IF i < k THEN Branch(f[2 * i], f[2 * i + 1]) ELSE f[i]]
<1>1. \A i \in k .. 2 * p - 1 : g[i] = f[i]
  OBVIOUS
<1>2. \A i \in k .. 2 * p - 1 :
          f[i] = IF i < p THEN Branch(f[2 * i], f[2 * i + 1]) ELSE leaf[i]
  BY DEF TreeFrom
<1>3. ASSUME NEW i \in k - 1 .. 2 * p - 1
      PROVE  g[i] = IF i < p THEN Branch(g[2 * i], g[2 * i + 1]) ELSE leaf[i]
  <2>1. g[i] = IF i < p THEN Branch(f[2 * i], f[2 * i + 1]) ELSE leaf[i]
    <3>1. CASE i < k
      BY <3>1
    <3>2. CASE ~(i < k)
      <4>1. i \in k .. 2 * p - 1
        BY <3>2
      <4> HIDE DEF g
      <4>2. QED
        BY <1>1, <1>2, <4>1
    <3>3. QED
      BY <3>1, <3>2
  <2>2. i < p => 2 * i \in k .. 2 * p - 1 /\ 2 * i + 1 \in k .. 2 * p - 1
    OBVIOUS
  <2> HIDE DEF g
  <2>3. QED
    BY <1>1, <2>1, <2>2
<1>4. g = [i \in k - 1 .. 2 * p - 1 |-> g[i]]
  OBVIOUS
<1> HIDE DEF g
<1>5. TreeFrom(g, k - 1, p, leaf)
  BY <1>3, <1>4 DEF TreeFrom
<1>6. QED
  BY <1>5

LEMMA TreeExists ==
    ASSUME NEW p \in Nat \ {0}, NEW leaf
    PROVE  \E f : TreeFrom(f, 1, p, leaf)
<1> DEFINE Filled == {k \in 1 .. p : \E f : TreeFrom(f, k, p, leaf)}
<1>1. p \in Filled
  <2> DEFINE f == [i \in p .. 2 * p - 1 |-> leaf[i]]
  <2>1. f = [i \in p .. 2 * p - 1 |-> IF i < p THEN Branch(f[2 * i], f[2 * i + 1]) ELSE leaf[i]]
    OBVIOUS
  <2>2. TreeFrom(f, p, p, leaf)
    BY <2>1 DEF TreeFrom
  <2> HIDE DEF f
  <2>3. QED
    BY <2>2
<1>2. ASSUME NEW k \in Filled, k # 1
      PROVE  k - 1 \in Filled
  <2>1. k \in 2 .. p /\ k - 1 \in 1 .. p
    BY <1>2
  <2>2. PICK f : TreeFrom(f, k, p, leaf)
    OBVIOUS
  <2>3. \E g : TreeFrom(g, k - 1, p, leaf)
    BY <2>1, <2>2, TreeGrows
  <2>4. QED
    BY <2>1, <2>3
<1>3. Filled \subseteq 1 .. p
  OBVIOUS
<1>4. 1 \in Filled
  <2> HIDE DEF Filled
  <2>1. PICK k \in Filled : \A j \in Filled : k <= j
    <3>1. Filled \subseteq Nat /\ Filled # {}
      BY <1>1, <1>3
    <3>2. QED
      BY <3>1, LeastMember
  <2>2. k \in 1 .. p
    BY <1>3
  <2>3. k = 1 \/ k - 1 \in Filled
    BY <1>2
  <2>4. QED
    BY <2>1, <2>2, <2>3
<1>5. QED
  BY <1>4

\* The tree has the nodes that build says, and the leaves, the last of them repeated.
BuiltFrom(f, trace, n, p) ==
    f = [i \in 1 .. 2 * p - 1 |->
           IF i < p THEN Branch(f[2 * i], f[2 * i + 1])
           ELSE Leaf(trace[IF i - p < n THEN i - p + 1 ELSE n])]

LEMMA BuiltExists ==
    ASSUME NEW trace, NEW n, NEW p \in Nat \ {0}
    PROVE  \E f : BuiltFrom(f, trace, n, p)
<1> DEFINE leaf == [i \in 1 .. 2 * p - 1 |-> Leaf(trace[IF i - p < n THEN i - p + 1 ELSE n])]
<1>1. \A i \in 1 .. 2 * p - 1 : leaf[i] = Leaf(trace[IF i - p < n THEN i - p + 1 ELSE n])
  OBVIOUS
<1> HIDE DEF leaf
<1>2. PICK f : TreeFrom(f, 1, p, leaf)
  BY TreeExists
<1>3. BuiltFrom(f, trace, n, p)
  BY <1>1, <1>2 DEF TreeFrom, BuiltFrom
<1>4. QED
  BY <1>3

LEMMA BuildIsTree ==
    ASSUME NEW trace, NEW n \in 1 .. MaxReceipts, Len(trace) = n
    PROVE  \A i \in 1 .. 2 * Pad(n) - 1 : Build(trace)[i] =
               IF i < Pad(n) THEN Branch(Build(trace)[2 * i], Build(trace)[2 * i + 1])
               ELSE Leaf(trace[IF i - Pad(n) < n THEN i - Pad(n) + 1 ELSE n])
<1>1. Pad(n) \in Nat \ {0}
  BY PadIsPower
<1>2. Build(trace) = CHOOSE f : BuiltFrom(f, trace, n, Pad(n))
  BY DEF Build, BuiltFrom
<1>3. BuiltFrom(Build(trace), trace, n, Pad(n))
  BY <1>1, <1>2, BuiltExists
<1> DEFINE tree == Build(trace)
           p == Pad(n)
<1>4. BuiltFrom(tree, trace, n, p) /\ p \in Nat \ {0}
  BY <1>1, <1>3
<1> HIDE DEF tree, p
<1>5. \A i \in 1 .. 2 * p - 1 : tree[i] =
          IF i < p THEN Branch(tree[2 * i], tree[2 * i + 1])
          ELSE Leaf(trace[IF i - p < n THEN i - p + 1 ELSE n])
  BY <1>4 DEF BuiltFrom
<1>6. QED
  BY <1>5 DEF tree, p

LEMMA BranchBinds ==
    ASSUME NEW l, NEW r, NEW m, NEW s, Branch(l, r) = Branch(m, s)
    PROVE  l = m /\ r = s
BY DEF Branch

LEMMA LeafBinds ==
    ASSUME NEW r, NEW s, Leaf(r) = Leaf(s)
    PROVE  r = s
BY DEF Leaf

\* Two traces that settle in the same root and length are one (build, finalize): a node
\* in which their trees differ has a parent in which they differ.
LEMMA SettleBinds ==
    ASSUME NEW S, NEW t \in Seq(S), NEW u \in Seq(S), Len(t) \in 1 .. MaxReceipts,
           Settle(t) = Settle(u)
    PROVE  t = u
<1> DEFINE n == Len(t)
           p == Pad(n)
           T == Build(t)
           U == Build(u)
<1>1. Len(u) = n /\ T[1] = U[1]
  BY DEF Settle
<1>2. n \in 1 .. MaxReceipts /\ n \in Nat /\ n >= 1
  BY TraceAssumption
<1>3. p \in Nat /\ p >= 1 /\ n <= p
  <2> HIDE DEF n
  <2>1. QED
    BY <1>2, PadIsPower
<1>4. \A i \in 1 .. 2 * p - 1 :
          /\ T[i] = IF i < p THEN Branch(T[2 * i], T[2 * i + 1])
                    ELSE Leaf(t[IF i - p < n THEN i - p + 1 ELSE n])
          /\ U[i] = IF i < p THEN Branch(U[2 * i], U[2 * i + 1])
                    ELSE Leaf(u[IF i - p < n THEN i - p + 1 ELSE n])
  BY <1>1, <1>2, BuildIsTree
<1> HIDE DEF n, p, T, U
<1>5. ASSUME NEW j \in 1 .. p - 1, T[j] = U[j]
      PROVE  T[2 * j] = U[2 * j] /\ T[2 * j + 1] = U[2 * j + 1]
  <2>1. j \in 1 .. 2 * p - 1 /\ j < p
    BY <1>3
  <2>2. Branch(T[2 * j], T[2 * j + 1]) = Branch(U[2 * j], U[2 * j + 1])
    BY <1>4, <1>5, <2>1
  <2>3. QED
    BY <2>2, BranchBinds
<1> DEFINE Differ == {i \in 1 .. 2 * p - 1 : T[i] # U[i]}
<1>6. Differ = {}
  <2>1. Differ \subseteq 1 .. 2 * p - 1 /\ Differ \subseteq Nat
    BY <1>3
  <2> HIDE DEF Differ
  <2> SUFFICES ASSUME Differ # {} PROVE FALSE
    OBVIOUS
  <2>2. PICK i \in Differ : \A j \in Differ : i <= j
    BY <2>1, LeastMember
  <2>3. i \in 2 .. 2 * p - 1
    BY <1>1, <1>3, <2>1 DEF Differ
  <2>4. PICK j \in 1 .. p - 1 : j < i /\ (i = 2 * j \/ i = 2 * j + 1)
    <3>1. /\ (i \div 2) \in 1 .. p - 1 /\ (i \div 2) < i
          /\ i = 2 * (i \div 2) \/ i = 2 * (i \div 2) + 1
      BY <1>3, <2>3
    <3>2. QED
      BY <3>1
  <2>5. T[j] = U[j]
    <3>1. j \in 1 .. 2 * p - 1
      BY <1>3
    <3>2. j \notin Differ
      BY <2>1, <2>2, <2>3, <2>4
    <3>3. QED
      BY <3>1, <3>2 DEF Differ
  <2>6. T[i] = U[i]
    <3>1. T[2 * j] = U[2 * j] /\ T[2 * j + 1] = U[2 * j + 1]
      BY <1>5, <2>5
    <3>2. QED
      BY <2>4, <3>1
  <2>7. QED
    BY <2>6 DEF Differ
<1>7. \A k \in 1 .. n : t[k] = u[k]
  <2> SUFFICES ASSUME NEW k \in 1 .. n PROVE t[k] = u[k]
    OBVIOUS
  <2> DEFINE i == p + k - 1
  <2>1. i \in 1 .. 2 * p - 1 /\ ~(i < p) /\ i - p < n /\ i - p + 1 = k
    BY <1>2, <1>3
  <2>2. T[i] = Leaf(t[k]) /\ U[i] = Leaf(u[k])
    BY <1>4, <2>1
  <2>3. T[i] = U[i]
    BY <1>6, <2>1
  <2>4. Leaf(t[k]) = Leaf(u[k])
    BY <2>2, <2>3
  <2>5. QED
    BY <2>4, LeafBinds
<1>8. QED
  BY <1>1, <1>7 DEF n

-----------------------------------------------------------------------------
(* Types.  A trace is dense, or its settlement would not be one of Traces. *)

Whole(run) ==
    /\ run \in Run /\ IsDense(run)
    /\ run.phase = "collect" => run.answer \in Waited
Typed == TypeOK /\ \A g \in Guests : Whole(guest[g])

LEMMA FreshIsWhole ==
    ASSUME NEW ph \in Phases \ {"collect"}
    PROVE  Whole([Fresh EXCEPT !.phase = ph])
<1> DEFINE new == [Fresh EXCEPT !.phase = ph]
<1>1. <<>> \in Seq(Receipts) /\ 0 \in 0 .. Timeout /\ 0 < MaxReceipts
  BY HostAssumption, SomeRoom
<1>2. Fresh.store \in [Keys -> Values \cup {None}] /\ Unsettled \in Settlements
  BY DEF Fresh, Settlements
<1>3. NoChild \in ChildRun
  BY DEF NoChild, ChildRun
<1>4. new \in Run
  BY <1>1, <1>2, <1>3 DEF Fresh, Run
<1>5. new.trace = <<>> /\ new.instrumented = 0 /\ new.phase = ph
  BY DEF Fresh
<1>6. QED
  BY <1>1, <1>4, <1>5 DEF Whole, IsDense

\* A step that gives one guest a run that is whole leaves all of them whole.
LEMMA NewRunIsWhole ==
    ASSUME Typed, NEW g \in Guests, NEW new, Whole(new), guest' = [guest EXCEPT ![g] = new]
    PROVE  guest' \in [Guests -> Run] /\ \A h \in Guests : Whole(guest[h])'
<1>1. guest \in [Guests -> Run] /\ new \in Run
  BY DEF Typed, TypeOK, Whole
<1>2. \A h \in Guests : guest'[h] = IF h = g THEN new ELSE guest[h]
  BY <1>1
<1>3. ASSUME NEW h \in Guests PROVE Whole(guest'[h])
  BY <1>2, <1>3 DEF Typed
<1>4. ASSUME NEW h \in Guests PROVE Whole(guest[h])'
  BY <1>3 DEF Whole, IsDense
<1>5. QED
  BY <1>1, <1>4

\* A change of anything but the trace and its count.
LEMMA StaysWhole ==
    ASSUME NEW run, Whole(run), NEW new \in Run, new.phase # "collect",
           new.trace = run.trace, new.instrumented = run.instrumented
    PROVE  Whole(new)
BY DEF Whole, IsDense

LEMMA CalledIsWhole ==
    ASSUME NEW run, Whole(run), run.phase = "running"
    PROVE  Whole(Called(run))
<1>1. run \in Run /\ 0 \in 0 .. Timeout
  BY HostAssumption DEF Whole
<1>2. NoChild \in ChildRun
  BY DEF NoChild, ChildRun
<1>3. Called(run) \in Run
  <2> DEFINE c == run.calls + 1
  <2>1. c \in Nat
    BY <1>1 DEF Run
  <2>2. Called(run) = [run EXCEPT !.calls = c, !.polls = 0, !.child = NoChild, !.answer = None]
    BY DEF Called
  <2> HIDE DEF c
  <2>3. QED
    BY <1>1, <1>2, <2>1, <2>2 DEF Run
<1>4. /\ Called(run).phase = "running" /\ Called(run).trace = run.trace
      /\ Called(run).instrumented = run.instrumented
  BY <1>1 DEF Called, Run
<1>5. QED
  BY <1>3, <1>4, StaysWhole

LEMMA RecordedIsWhole ==
    ASSUME NEW run, Whole(run), run.phase = "running",
           NEW kind \in {"observe", "fs_write"}, NEW error \in BOOLEAN
    PROVE  Whole(Recorded(run, kind, error))
<1> DEFINE new == Recorded(run, kind, error)
           t == run.trace
           u == RecordEvent(t, kind, error)
           r == Receipt(Len(t), kind, error)
<1>1. /\ Whole(Called(run)) /\ Called(run) \in Run /\ Called(run).phase = "running"
      /\ Called(run).trace = t /\ Called(run).instrumented = run.instrumented
  <2>1. run \in Run
    BY DEF Whole
  <2>2. QED
    BY <2>1, CalledIsWhole DEF Whole, Called, Run
<1>2. t \in Seq(Receipts) /\ run.instrumented \in Nat /\ MaxReceipts \in Nat
  BY <1>1, HostAssumption, SomeRoom DEF Run
<1>3. /\ Len(t) = IF run.instrumented < MaxReceipts THEN run.instrumented ELSE MaxReceipts
      /\ \A i \in 1 .. Len(t) : t[i].seq = i - 1
  BY DEF Whole, IsDense
<1> HIDE DEF t
<1>4. /\ u \in Seq(Receipts)
      /\ Len(u) = IF run.instrumented + 1 < MaxReceipts THEN run.instrumented + 1 ELSE MaxReceipts
      /\ \A i \in 1 .. Len(u) : u[i].seq = i - 1
  <2>1. CASE Len(t) >= MaxReceipts
    <3>1. u = t
      BY <2>1 DEF RecordEvent
    <3>2. QED
      BY <1>2, <1>3, <2>1, <3>1
  <2>2. CASE ~(Len(t) >= MaxReceipts)
    <3>1. u = Append(t, r)
      BY <2>2 DEF RecordEvent
    <3>2. Len(t) \in 0 .. MaxReceipts - 1 /\ Len(t) = run.instrumented
      BY <1>2, <1>3, <2>2
    <3>3. r \in Receipts /\ r.seq = Len(t)
      BY <3>2 DEF Receipt, Receipts
    <3> HIDE DEF r
    <3>4. QED
      BY <1>2, <1>3, <3>1, <3>2, <3>3
  <2>3. QED
    BY <2>1, <2>2
<1> HIDE DEF u
<1>5. new = [Called(run) EXCEPT !.instrumented = run.instrumented + 1, !.trace = u]
  BY <1>1 DEF Recorded, u, t
<1>6. new \in Run
  <2> DEFINE n == run.instrumented + 1
  <2>1. n \in Nat
    BY <1>2
  <2>2. new = [Called(run) EXCEPT !.instrumented = n, !.trace = u]
    BY <1>5
  <2> HIDE DEF new, n
  <2>3. QED
    BY <1>1, <1>4, <2>1, <2>2 DEF Run
<1>7. new.phase = "running" /\ new.trace = u /\ new.instrumented = run.instrumented + 1
  <2> HIDE DEF new
  <2>1. QED
    BY <1>1, <1>5 DEF Run
<1>8. QED
  BY <1>4, <1>6, <1>7 DEF Whole, IsDense

LEMMA SettleIsSettlement ==
    ASSUME NEW run, Whole(run), run.trace # <<>>
    PROVE  Settle(run.trace) \in Settlements /\ Len(run.trace) \in 1 .. MaxReceipts
<1>1. run.trace \in Seq(Receipts) /\ run.instrumented \in Nat
  BY DEF Whole, Run
<1>2. Len(run.trace) \in 1 .. MaxReceipts
  <2>1. Len(run.trace) <= MaxReceipts
    BY <1>1, HostAssumption, SomeRoom DEF Whole, IsDense
  <2>2. QED
    BY <1>1, <2>1
<1>3. run.trace \in [1 .. Len(run.trace) -> Receipts]
  BY <1>1
<1>4. run.trace \in Traces
  BY <1>2, <1>3 DEF Traces
<1>5. QED
  BY <1>2, <1>4 DEF Settlements

LEMMA InitTypes ==
    ASSUME Init
    PROVE  Typed
<1>1. Whole(Fresh)
  <2>1. Fresh = [Fresh EXCEPT !.phase = "ready"]
    BY DEF Fresh
  <2>2. QED
    BY <2>1, FreshIsWhole DEF Phases
<1>2. guest = [g \in Guests |-> Fresh] /\ Fresh \in Run
  BY <1>1 DEF Init, Whole
<1>3. \A g \in Guests : Whole(guest[g])
  BY <1>1, <1>2
<1>4. TypeOK
  <2>1. guest \in [Guests -> Run]
    BY <1>2
  <2>2. /\ kv \in [Keys -> Values \cup {None}] /\ told \in [Keys -> Values \cup {None}]
        /\ beats \in SUBSET Guests /\ torn \in BOOLEAN /\ calls \in Nat /\ crashes \in Nat
    BY DEF Init
  <2>3. workspace \in Seq(Guests)
    BY DEF Init
  <2>4. QED
    BY <2>1, <2>2, <2>3 DEF TypeOK
<1>5. QED
  BY <1>3, <1>4 DEF Typed

\* The steps of a run that is not in a call.
LEMMA RunTypes ==
    ASSUME Typed, NEW g \in Guests,
           \/ BeginOwn(g) \/ Return(g) \/ Fail(g) \/ Crash(g) \/ AppendBeat(g) \/ WriteResult(g)
           \/ \E b \in Builtins : BeginBuiltin(g, b) \/ Unbuilt(g, b)
    PROVE  Typed'
<1> DEFINE run == guest[g]
<1>1. Whole(run) /\ run \in Run /\ guest \in [Guests -> Run]
  BY DEF Typed, TypeOK, Whole
<1>2. kv \in [Keys -> Values \cup {None}] /\ told \in [Keys -> Values \cup {None}]
      /\ workspace \in Seq(Guests) /\ beats \in SUBSET Guests
      /\ torn \in BOOLEAN /\ calls \in Nat /\ crashes \in Nat
  BY DEF Typed, TypeOK
<1>3. ASSUME NEW new, Whole(new), guest' = [guest EXCEPT ![g] = new],
             /\ UNCHANGED <<kv, workspace, calls>>
             /\ told' \in [Keys -> Values \cup {None}]
             /\ beats' \in SUBSET Guests /\ torn' \in BOOLEAN /\ crashes' \in Nat
      PROVE  Typed'
  <2>1. guest' \in [Guests -> Run] /\ \A h \in Guests : Whole(guest[h])'
    BY <1>3, NewRunIsWhole
  <2>2. TypeOK'
    BY <1>2, <1>3, <2>1 DEF TypeOK
  <2>3. QED
    BY <2>1, <2>2 DEF Typed
<1>4. ASSUME NEW new \in Run, new.phase # "collect", new.trace = run.trace,
             new.instrumented = run.instrumented
      PROVE  Whole(new)
  BY <1>1, <1>4, StaysWhole
<1>5. ASSUME NEW b \in Builtins \cup {None}, Begin(g, b) PROVE Typed'
  <2> DEFINE new == [run EXCEPT !.phase = "running", !.program = b]
  <2>1. guest' = [guest EXCEPT ![g] = new]
    BY <1>1, <1>5 DEF Begin
  <2>2. new \in Run
    BY <1>1, <1>5 DEF Phases, Run
  <2>3. new.phase # "collect" /\ new.trace = run.trace /\ new.instrumented = run.instrumented
    BY <1>1 DEF Run
  <2> HIDE DEF new
  <2>4. QED
    BY <1>2, <1>3, <1>4, <1>5, <2>1, <2>2, <2>3 DEF Begin
<1>6. ASSUME NEW b \in Builtins, Unbuilt(g, b) PROVE Typed'
  <2> DEFINE new == [run EXCEPT !.phase = "over"]
  <2>1. guest' = [guest EXCEPT ![g] = new]
    BY <1>1, <1>6 DEF Unbuilt
  <2>2. new \in Run
    BY <1>1 DEF Phases, Run
  <2>3. new.phase # "collect" /\ new.trace = run.trace /\ new.instrumented = run.instrumented
    BY <1>1 DEF Run
  <2> HIDE DEF new
  <2>4. QED
    BY <1>2, <1>3, <1>4, <1>6, <2>1, <2>2, <2>3 DEF Unbuilt
<1>7. CASE Return(g)
  <2> DEFINE s == IF run.trace # <<>> THEN Settle(run.trace) ELSE Unsettled
             new == [run EXCEPT !.phase = "returned", !.settled = s]
  <2>1. s \in Settlements
    BY <1>1, SettleIsSettlement DEF Settlements
  <2>2. guest' = [guest EXCEPT ![g] = new]
    BY <1>1, <1>7 DEF Return
  <2> HIDE DEF s
  <2>3. new \in Run
    BY <1>1, <2>1 DEF Phases, Run
  <2>4. new.phase # "collect" /\ new.trace = run.trace /\ new.instrumented = run.instrumented
    BY <1>1 DEF Run
  <2> HIDE DEF new
  <2>5. QED
    BY <1>2, <1>3, <1>4, <1>7, <2>2, <2>3, <2>4 DEF Return
<1>8. CASE Fail(g)
  <2>1. Whole([Fresh EXCEPT !.phase = "failed"])
    BY FreshIsWhole DEF Phases
  <2>2. QED
    BY <1>2, <1>3, <1>8, <2>1 DEF Fail
<1>9. CASE Crash(g)
  <2>1. Whole([Fresh EXCEPT !.phase = "dead"])
    BY FreshIsWhole DEF Phases
  <2>2. torn' \in BOOLEAN /\ crashes' \in Nat /\ told' \in [Keys -> Values \cup {None}]
    BY <1>2, <1>9 DEF Crash, Tear
  <2>3. QED
    BY <1>2, <1>3, <1>9, <2>1, <2>2 DEF Crash
<1>10. CASE AppendBeat(g)
  <2> DEFINE new == [run EXCEPT !.phase = "receipted"]
  <2>1. guest' = [guest EXCEPT ![g] = new]
    BY <1>1, <1>10 DEF AppendBeat
  <2>2. new \in Run
    BY <1>1 DEF Phases, Run
  <2>3. new.phase # "collect" /\ new.trace = run.trace /\ new.instrumented = run.instrumented
    BY <1>1 DEF Run
  <2> HIDE DEF new
  <2>4. QED
    BY <1>2, <1>3, <1>4, <1>10, <2>1, <2>2, <2>3 DEF AppendBeat
<1>11. CASE WriteResult(g)
  <2> DEFINE res == IF run.phase = "failed" THEN "failed" ELSE "completed"
             new == [run EXCEPT !.phase = "over", !.result = res]
  <2>1. res \in {"none", "completed", "failed"}
    OBVIOUS
  <2>2. guest' = [guest EXCEPT ![g] = new]
    BY <1>1, <1>11 DEF WriteResult
  <2> HIDE DEF res
  <2>3. new \in Run
    BY <1>1, <2>1 DEF Phases, Run
  <2>4. new.phase # "collect" /\ new.trace = run.trace /\ new.instrumented = run.instrumented
    BY <1>1 DEF Run
  <2> HIDE DEF new
  <2>5. QED
    BY <1>2, <1>3, <1>4, <1>11, <2>2, <2>3, <2>4 DEF WriteResult
<1>12. QED
  BY <1>5, <1>6, <1>7, <1>8, <1>9, <1>10, <1>11 DEF BeginOwn, BeginBuiltin

\* The steps that begin a call, and those that are one.
LEMMA CallTypes ==
    ASSUME Typed, NEW g \in Guests,
           \/ \E error \in BOOLEAN : Observe(g, error)
           \/ \E mode \in {"refused", "append", "replace"}, error \in BOOLEAN : FsWrite(g, mode, error)
           \/ Ask(g)
           \/ \E k \in Keys, v \in Values : KvLoad(g, k, v)
           \/ \E wants \in Children, takes \in BOOLEAN : Spawn(g, wants, takes)
    PROVE  Typed'
<1> DEFINE run == guest[g]
<1>1. Whole(run) /\ run \in Run /\ guest \in [Guests -> Run]
  BY DEF Typed, TypeOK, Whole
<1>2. kv \in [Keys -> Values \cup {None}] /\ told \in [Keys -> Values \cup {None}]
      /\ workspace \in Seq(Guests) /\ beats \in SUBSET Guests
      /\ torn \in BOOLEAN /\ calls \in Nat /\ crashes \in Nat
  BY DEF Typed, TypeOK
<1>3. ASSUME NEW new, Whole(new), guest' = [guest EXCEPT ![g] = new],
             /\ UNCHANGED <<beats, torn, crashes>>
             /\ kv' \in [Keys -> Values \cup {None}] /\ told' \in [Keys -> Values \cup {None}]
             /\ workspace' \in Seq(Guests) /\ calls' \in Nat
      PROVE  Typed'
  <2>1. guest' \in [Guests -> Run] /\ \A h \in Guests : Whole(guest[h])'
    BY <1>3, NewRunIsWhole
  <2>2. TypeOK'
    BY <1>2, <1>3, <2>1 DEF TypeOK
  <2>3. QED
    BY <2>1, <2>2 DEF Typed
<1>4. ASSUME NEW old, Whole(old), NEW new \in Run, new.phase # "collect",
             new.trace = old.trace, new.instrumented = old.instrumented
      PROVE  Whole(new)
  BY <1>4, StaysWhole
<1>5. ASSUME run.phase = "running"
      PROVE  Whole(Called(run)) /\ Called(run) \in Run /\ calls + 1 \in Nat
  BY <1>1, <1>2, <1>5, CalledIsWhole DEF Whole
<1>6. ASSUME NEW error \in BOOLEAN, Observe(g, error) PROVE Typed'
  <2>1. Whole(Recorded(run, "observe", error)) /\ calls + 1 \in Nat
    BY <1>1, <1>2, <1>6, RecordedIsWhole DEF Observe, Calls
  <2>2. guest' = [guest EXCEPT ![g] = Recorded(run, "observe", error)] /\ calls' = calls + 1
    BY <1>6 DEF Observe
  <2>3. UNCHANGED <<kv, workspace, beats, told, torn, crashes>>
    BY <1>6 DEF Observe
  <2>4. QED
    BY <1>2, <1>3, <2>1, <2>2, <2>3
<1>7. ASSUME NEW mode \in {"refused", "append", "replace"}, NEW error \in BOOLEAN,
             FsWrite(g, mode, error)
      PROVE  Typed'
  <2>1. Whole(Recorded(run, "fs_write", error)) /\ calls + 1 \in Nat
    BY <1>1, <1>2, <1>7, RecordedIsWhole DEF FsWrite, Calls
  <2>2. guest' = [guest EXCEPT ![g] = Recorded(run, "fs_write", error)] /\ calls' = calls + 1
    BY <1>7 DEF FsWrite
  <2>3. UNCHANGED <<kv, beats, told, torn, crashes>>
    BY <1>7 DEF FsWrite
  <2>4. workspace' \in Seq(Guests)
    BY <1>2, <1>7 DEF FsWrite
  <2>5. QED
    BY <1>2, <1>3, <2>1, <2>2, <2>3, <2>4
<1>8. CASE Ask(g)
  <2>1. Whole(Called(run)) /\ calls + 1 \in Nat
    BY <1>5, <1>8 DEF Ask, Calls
  <2>2. guest' = [guest EXCEPT ![g] = Called(run)] /\ calls' = calls + 1
    BY <1>8 DEF Ask
  <2>3. UNCHANGED <<kv, workspace, beats, told, torn, crashes>>
    BY <1>8 DEF Ask
  <2>4. QED
    BY <1>2, <1>3, <2>1, <2>2, <2>3
<1>9. ASSUME NEW k \in Keys, NEW v \in Values, KvLoad(g, k, v) PROVE Typed'
  <2> DEFINE old == Called(run)
             new == [old EXCEPT !.phase = "loaded", !.store = kv, !.key = k, !.value = v]
  <2>1. Whole(old) /\ old \in Run /\ calls + 1 \in Nat
    BY <1>5, <1>9 DEF KvLoad, Calls
  <2>2. guest' = [guest EXCEPT ![g] = new]
    BY <1>9 DEF KvLoad
  <2> HIDE DEF old
  <2>3. new \in Run
    BY <1>2, <2>1 DEF Phases, Run
  <2>4. new.phase # "collect" /\ new.trace = old.trace /\ new.instrumented = old.instrumented
    BY <2>1 DEF Run
  <2>5. told' \in [Keys -> Values \cup {None}] /\ calls' = calls + 1
        /\ UNCHANGED <<kv, workspace, beats, torn, crashes>>
    BY <1>2, <1>9 DEF KvLoad
  <2> HIDE DEF new
  <2>6. Whole(new)
    BY <1>4, <2>1, <2>3, <2>4
  <2>7. QED
    BY <1>2, <1>3, <2>1, <2>2, <2>5, <2>6
<1>10. ASSUME NEW wants \in Children, NEW takes \in BOOLEAN, Spawn(g, wants, takes) PROVE Typed'
  <2> DEFINE old == Called(run)
             c == [wants |-> wants, takes |-> takes, out |-> 0, state |-> "running"]
             new == [old EXCEPT !.phase = "feed", !.child = c]
  <2>1. Whole(old) /\ old \in Run /\ calls + 1 \in Nat
    BY <1>5, <1>10 DEF Spawn, Calls
  <2>2. guest' = [guest EXCEPT ![g] = new]
    BY <1>10 DEF Spawn
  <2>3. c \in ChildRun
    BY DEF ChildRun
  <2> HIDE DEF old, c
  <2>4. new \in Run
    BY <2>1, <2>3 DEF Phases, Run
  <2>5. new.phase # "collect" /\ new.trace = old.trace /\ new.instrumented = old.instrumented
    BY <2>1 DEF Run
  <2>6. calls' = calls + 1 /\ UNCHANGED <<kv, workspace, beats, told, torn, crashes>>
    BY <1>10 DEF Spawn
  <2> HIDE DEF new
  <2>7. Whole(new)
    BY <1>4, <2>1, <2>4, <2>5
  <2>8. QED
    BY <1>2, <1>3, <2>1, <2>2, <2>6, <2>7
<1>11. QED
  BY <1>6, <1>7, <1>8, <1>9, <1>10

\* The steps within a call that saves the store or waits for a child.
LEMMA WithinTypes ==
    ASSUME Typed, NEW g \in Guests,
           \/ KvEmpty(g) \/ KvFail(g) \/ \E fits \in BOOLEAN : KvSave(g, fits)
           \/ Feed(g) \/ ChildWrites(g) \/ ChildExits(g) \/ Poll(g) \/ Kill(g) \/ Collect(g)
    PROVE  Typed'
<1> DEFINE run == guest[g]
<1>1. Whole(run) /\ run \in Run /\ guest \in [Guests -> Run]
  BY DEF Typed, TypeOK, Whole
<1>2. kv \in [Keys -> Values \cup {None}] /\ told \in [Keys -> Values \cup {None}]
      /\ workspace \in Seq(Guests) /\ beats \in SUBSET Guests
      /\ torn \in BOOLEAN /\ calls \in Nat /\ crashes \in Nat
  BY DEF Typed, TypeOK
<1>3. ASSUME NEW new, Whole(new), guest' = [guest EXCEPT ![g] = new],
             /\ UNCHANGED <<beats, crashes>> /\ torn' \in BOOLEAN
             /\ kv' \in [Keys -> Values \cup {None}] /\ told' \in [Keys -> Values \cup {None}]
             /\ workspace' \in Seq(Guests) /\ calls' \in Nat
      PROVE  Typed'
  <2>1. guest' \in [Guests -> Run] /\ \A h \in Guests : Whole(guest[h])'
    BY <1>3, NewRunIsWhole
  <2>2. TypeOK'
    BY <1>2, <1>3, <2>1 DEF TypeOK
  <2>3. QED
    BY <2>1, <2>2 DEF Typed
<1>4. ASSUME NEW old, Whole(old), NEW new \in Run, new.phase # "collect",
             new.trace = old.trace, new.instrumented = old.instrumented
      PROVE  Whole(new)
  BY <1>4, StaysWhole
<1>5. CASE KvEmpty(g)
  <2> DEFINE new == [run EXCEPT !.phase = "emptied"]
  <2>1. guest' = [guest EXCEPT ![g] = new]
    BY <1>1, <1>5 DEF KvEmpty
  <2>2. new \in Run
    BY <1>1 DEF Phases, Run
  <2>3. new.phase # "collect" /\ new.trace = run.trace /\ new.instrumented = run.instrumented
    BY <1>1 DEF Run
  <2>4. kv' \in [Keys -> Values \cup {None}]
        /\ UNCHANGED <<workspace, beats, told, calls, crashes>> /\ torn' \in BOOLEAN
    BY <1>5 DEF KvEmpty
  <2> HIDE DEF new
  <2>5. Whole(new)
    BY <1>1, <1>4, <2>2, <2>3
  <2>6. QED
    BY <1>2, <1>3, <2>1, <2>4, <2>5
<1>6. ASSUME NEW fits \in BOOLEAN, KvSave(g, fits) PROVE Typed'
  <2> DEFINE new == [run EXCEPT !.phase = "running", !.store = Fresh.store,
                                !.key = None, !.value = None]
  <2>1. guest' = [guest EXCEPT ![g] = new]
    BY <1>1, <1>6 DEF KvSave
  <2>2. Fresh.store \in [Keys -> Values \cup {None}]
    BY DEF Fresh
  <2>3. new \in Run
    BY <1>1, <2>2 DEF Phases, Run
  <2>4. new.phase # "collect" /\ new.trace = run.trace /\ new.instrumented = run.instrumented
    BY <1>1 DEF Run
  <2>5. /\ run.store \in [Keys -> Values \cup {None}]
        /\ run.key \in Keys \cup {None} /\ run.value \in Values \cup {None}
    BY <1>1 DEF Run
  <2>6. kv' = [run.store EXCEPT ![run.key] = run.value]
        /\ told' = [told EXCEPT ![run.key] = IF fits THEN run.value ELSE None]
        /\ UNCHANGED <<workspace, beats, calls, crashes>> /\ torn' \in BOOLEAN
    BY <1>6 DEF KvSave
  <2> HIDE DEF new
  <2>7. Whole(new)
    BY <1>1, <1>4, <2>3, <2>4
  <2>8. kv' \in [Keys -> Values \cup {None}] /\ told' \in [Keys -> Values \cup {None}]
    BY <1>2, <2>5, <2>6
  <2>9. QED
    BY <1>2, <1>3, <2>1, <2>6, <2>7, <2>8
<1>16. CASE KvFail(g)
  <2> DEFINE new == [run EXCEPT !.phase = "running", !.store = Fresh.store,
                                !.key = None, !.value = None]
  <2>1. guest' = [guest EXCEPT ![g] = new]
    BY <1>1, <1>16 DEF KvFail
  <2>2. Fresh.store \in [Keys -> Values \cup {None}]
    BY DEF Fresh
  <2>3. new \in Run
    BY <1>1, <2>2 DEF Phases, Run
  <2>4. new.phase # "collect" /\ new.trace = run.trace /\ new.instrumented = run.instrumented
    BY <1>1 DEF Run
  <2>5. UNCHANGED <<kv, workspace, beats, calls, crashes>> /\ torn' \in BOOLEAN
        /\ told' \in [Keys -> Values \cup {None}]
    BY <1>16 DEF KvFail, Tear
  <2> HIDE DEF new
  <2>6. Whole(new)
    BY <1>1, <1>4, <2>3, <2>4
  <2>7. QED
    BY <1>2, <1>3, <2>1, <2>5, <2>6
<1>7. ASSUME NEW new \in Run, guest' = [guest EXCEPT ![g] = new], new.phase # "collect",
             new.trace = run.trace, new.instrumented = run.instrumented,
             UNCHANGED <<kv, workspace, beats, told, torn, calls, crashes>>
      PROVE  Typed'
  BY <1>1, <1>2, <1>3, <1>4, <1>7
<1>8. run.child \in ChildRun /\ run.child.out + 1 \in Nat
  BY <1>1 DEF Run, ChildRun
<1>17. CASE Feed(g)
  <2> DEFINE new == [run EXCEPT !.phase = "wait"]
  <2>1. guest' = [guest EXCEPT ![g] = new]
    BY <1>1, <1>17 DEF Feed
  <2>2. new \in Run
    BY <1>1 DEF Phases, Run
  <2>3. new.phase # "collect" /\ new.trace = run.trace /\ new.instrumented = run.instrumented
    BY <1>1 DEF Run
  <2> HIDE DEF new
  <2>4. QED
    BY <1>7, <1>17, <2>1, <2>2, <2>3 DEF Feed
<1>9. CASE ChildWrites(g)
  <2> DEFINE c == [run.child EXCEPT !.out = @ + 1]
             new == [run EXCEPT !.child = c]
  <2>1. guest' = [guest EXCEPT ![g] = new] /\ run.phase # "collect"
    BY <1>1, <1>9 DEF ChildWrites
  <2>2. c \in ChildRun
    BY <1>8 DEF ChildRun
  <2> HIDE DEF c
  <2>3. new \in Run
    BY <1>1, <2>2 DEF Run
  <2>4. new.phase # "collect" /\ new.trace = run.trace /\ new.instrumented = run.instrumented
    BY <1>1, <2>1 DEF Run
  <2> HIDE DEF new
  <2>5. QED
    BY <1>7, <1>9, <2>1, <2>3, <2>4 DEF ChildWrites
<1>10. CASE ChildExits(g)
  <2> DEFINE c == [run.child EXCEPT !.state = "exited"]
             new == [run EXCEPT !.child = c]
  <2>1. guest' = [guest EXCEPT ![g] = new] /\ run.phase # "collect"
    BY <1>1, <1>10 DEF ChildExits
  <2>2. c \in ChildRun
    BY <1>8 DEF ChildRun
  <2> HIDE DEF c
  <2>3. new \in Run
    BY <1>1, <2>2 DEF Run
  <2>4. new.phase # "collect" /\ new.trace = run.trace /\ new.instrumented = run.instrumented
    BY <1>1, <2>1 DEF Run
  <2> HIDE DEF new
  <2>5. QED
    BY <1>7, <1>10, <2>1, <2>3, <2>4 DEF ChildExits
<1>11. ASSUME NEW new \in Run, guest' = [guest EXCEPT ![g] = new], new.answer \in Waited,
              new.trace = run.trace, new.instrumented = run.instrumented,
              UNCHANGED <<kv, workspace, beats, told, torn, calls, crashes>>
       PROVE  Typed'
  <2>1. Whole(new)
    BY <1>1, <1>11 DEF Whole, IsDense
  <2>2. QED
    BY <1>2, <1>3, <1>11, <2>1
<1>12. CASE Poll(g)
  <2>1. UNCHANGED <<kv, workspace, beats, told, torn, calls, crashes>> /\ run.phase = "wait"
    BY <1>12 DEF Poll
  <2>2. CASE run.child.state # "running"
    <3> DEFINE a == [timed_out |-> FALSE]
               new == [run EXCEPT !.phase = "collect", !.answer = a]
    <3>1. guest' = [guest EXCEPT ![g] = new]
      BY <1>12, <2>2 DEF Poll
    <3>2. a \in Waited
      BY DEF Waited
    <3> HIDE DEF a
    <3>3. new \in Run
      BY <1>1, <3>2 DEF Phases, Run
    <3>4. new.answer = a /\ new.trace = run.trace /\ new.instrumented = run.instrumented
      BY <1>1 DEF Run
    <3> HIDE DEF new
    <3>5. QED
      BY <1>11, <2>1, <3>1, <3>2, <3>3, <3>4
  <2>3. CASE run.child.state = "running" /\ run.polls >= Timeout
    <3> DEFINE new == [run EXCEPT !.phase = "polled"]
    <3>1. guest' = [guest EXCEPT ![g] = new]
      BY <1>12, <2>3 DEF Poll
    <3>2. new \in Run
      BY <1>1 DEF Phases, Run
    <3>3. new.phase # "collect" /\ new.trace = run.trace /\ new.instrumented = run.instrumented
      BY <1>1 DEF Run
    <3> HIDE DEF new
    <3>4. QED
      BY <1>7, <2>1, <3>1, <3>2, <3>3
  <2>4. CASE run.child.state = "running" /\ ~(run.polls >= Timeout)
    <3> DEFINE n == run.polls + 1
               new == [run EXCEPT !.polls = n]
    <3>1. run.polls \in 0 .. Timeout /\ Timeout \in Nat
      BY <1>1, HostAssumption DEF Run
    <3>2. n \in 0 .. Timeout
      BY <2>4, <3>1
    <3>3. guest' = [guest EXCEPT ![g] = new]
      BY <1>12, <2>4 DEF Poll
    <3> HIDE DEF n
    <3>4. new \in Run
      BY <1>1, <3>2 DEF Run
    <3>5. new.phase # "collect" /\ new.trace = run.trace /\ new.instrumented = run.instrumented
      BY <1>1, <2>1 DEF Run
    <3> HIDE DEF new
    <3>6. QED
      BY <1>7, <2>1, <3>3, <3>4, <3>5
  <2>5. QED
    BY <2>2, <2>3, <2>4
<1>13. CASE Kill(g)
  <2> DEFINE a == [timed_out |-> TRUE]
             s == IF run.child.state = "running" THEN "killed" ELSE run.child.state
             c == [run.child EXCEPT !.state = s]
             new == [run EXCEPT !.phase = "collect", !.answer = a, !.child = c]
  <2>1. guest' = [guest EXCEPT ![g] = new]
    BY <1>1, <1>8, <1>13 DEF Kill, Run, ChildRun
  <2>2. c \in ChildRun
    BY <1>8 DEF ChildRun
  <2>3. a \in Waited
    BY DEF Waited
  <2> HIDE DEF a, c
  <2>4. new \in Run
    BY <1>1, <2>2, <2>3 DEF Phases, Run
  <2>5. new.answer = a /\ new.trace = run.trace /\ new.instrumented = run.instrumented
    BY <1>1 DEF Run
  <2> HIDE DEF new
  <2>6. QED
    BY <1>11, <1>13, <2>1, <2>3, <2>4, <2>5 DEF Kill
<1>14. CASE Collect(g)
  <2> DEFINE a == Answer(g)
             new == [run EXCEPT !.phase = "running", !.answer = a]
  <2>1. guest' = [guest EXCEPT ![g] = new] /\ run.phase = "collect"
    BY <1>1, <1>14 DEF Collect
  <2>2. a \in Answers
    <3>1. run.answer \in Waited /\ run.child.out \in Nat /\ MaxResponse \in Nat
      BY <1>1, <1>8, <2>1, HostAssumption DEF Whole, ChildRun
    <3>2. QED
      BY <3>1 DEF Answer, Answers, Waited
  <2> HIDE DEF a
  <2>3. new \in Run
    BY <1>1, <2>2 DEF Phases, Run
  <2>4. new.phase # "collect" /\ new.trace = run.trace /\ new.instrumented = run.instrumented
    BY <1>1 DEF Run
  <2> HIDE DEF new
  <2>5. QED
    BY <1>7, <1>14, <2>1, <2>3, <2>4 DEF Collect
<1>15. QED
  BY <1>5, <1>6, <1>9, <1>10, <1>12, <1>13, <1>14, <1>16, <1>17

\* The steps of Next by what they change.
LEMMA Steps ==
    ASSUME Next
    PROVE  \E g \in Guests :
             \/ \/ BeginOwn(g) \/ Return(g) \/ Fail(g) \/ Crash(g) \/ AppendBeat(g) \/ WriteResult(g)
                \/ \E b \in Builtins : BeginBuiltin(g, b) \/ Unbuilt(g, b)
             \/ \/ \E error \in BOOLEAN : Observe(g, error)
                \/ \E mode \in {"refused", "append", "replace"}, error \in BOOLEAN :
                       FsWrite(g, mode, error)
                \/ Ask(g)
                \/ \E k \in Keys, v \in Values : KvLoad(g, k, v)
                \/ \E wants \in Children, takes \in BOOLEAN : Spawn(g, wants, takes)
             \/ \/ KvEmpty(g) \/ KvFail(g) \/ \E fits \in BOOLEAN : KvSave(g, fits)
                \/ Feed(g) \/ ChildWrites(g) \/ ChildExits(g) \/ Poll(g) \/ Kill(g) \/ Collect(g)
BY DEF Next, Navigate, SystemInfo, FsRead, Infer, Denied, ScheduleHeartbeat, KvGet

LEMMA UnchangedTypes ==
    ASSUME Typed, UNCHANGED vars
    PROVE  Typed'
<1>1. \A g \in Guests : Whole(guest[g])'
  BY DEF Typed, vars, Whole, IsDense
<1>2. TypeOK'
  BY DEF Typed, TypeOK, vars
<1>3. QED
  BY <1>1, <1>2 DEF Typed

\* The state is what the comments of the variables say, and a trace is always dense.
LEMMA TypedHolds == Spec => []Typed
<1>1. Init => Typed
  BY InitTypes
<1>2. Typed /\ [Next]_vars => Typed'
  BY Steps, RunTypes, CallTypes, WithinTypes, UnchangedTypes
<1>3. QED
  BY <1>1, <1>2, PTL DEF Spec

\* The runs, the store and the files of the host have their types (wasm_host.rs).
THEOREM TypeCorrect == Spec => []TypeOK
<1>1. Typed => TypeOK
  BY DEF Typed
<1>2. QED
  BY <1>1, TypedHolds, PTL

\* A guest's trace is its instrumented calls, numbered without a gap until it is full
\* (record_event): an event that is refused does not use up a number.
THEOREM TraceIsDenseHolds == Spec => []TraceIsDense
<1>1. Typed => TraceIsDense
  BY DEF Typed, Whole, TraceIsDense
<1>2. QED
  BY <1>1, TypedHolds, PTL

-----------------------------------------------------------------------------
(* Jobs and their receipts.                                                *)

\* The phases between the entrypoint's call and its return.
Busy == {"running", "loaded", "emptied", "feed", "wait", "polled", "collect"}

\* A step of one guest says nothing of the jobs of the others.
LEMMA JobFrame ==
    ASSUME TypeOK, JobInv, NEW g \in Guests, NEW new, guest' = [guest EXCEPT ![g] = new],
           beats' = beats \/ beats' = beats \cup {g},
           guest'[g] = new => JobOf(g)'
    PROVE  JobInv'
<1>1. guest'[g] = new /\ \A h \in Guests \ {g} : guest'[h] = guest[h]
  BY DEF TypeOK
<1>2. ASSUME NEW h \in Guests \ {g} PROVE JobOf(h)'
  <2>1. guest'[h] = guest[h] /\ (h \in beats' <=> h \in beats) /\ JobOf(h)
    BY <1>1 DEF JobInv
  <2>2. QED
    BY <2>1 DEF JobOf
<1>3. QED
  BY <1>1, <1>2 DEF JobInv

\* A step within the guest's run has no part in what the job tells.
LEMMA JobBusy ==
    ASSUME NEW g \in Guests, JobOf(g), NEW new, guest'[g] = new, beats' = beats,
           guest[g].phase \in Busy, new.phase \in Busy, new.program = guest[g].program,
           new.settled = guest[g].settled, new.result = guest[g].result,
           new.program # None => Made(new)
    PROVE  JobOf(g)'
<1> DEFINE run == guest[g]
<1>1. run.result = "none" /\ run.settled = Unsettled /\ g \notin beats
  BY DEF JobOf, Busy
<1>2. QED
  BY <1>1 DEF JobOf, Busy

\* The built-in guest that records its call had recorded none.
LEMMA MadeOfRecorded ==
    ASSUME NEW run, Whole(run), run.phase = "running",
           NEW kind \in {"observe", "fs_write"}, NEW error \in BOOLEAN,
           run.program # None => /\ Made(run) /\ run.calls = 0
                                 /\ run.program.call \in Instrumented /\ Kind(run.program.call) = kind
    PROVE  LET new == Recorded(run, kind, error) IN
           /\ new.phase = "running" /\ new.program = run.program
           /\ new.settled = run.settled /\ new.result = run.result
           /\ new.trace = RecordEvent(run.trace, kind, error)
           /\ new.program # None => Made(new)
<1> DEFINE new == Recorded(run, kind, error)
<1>1. run \in Run
  BY DEF Whole
<1>2. /\ new.phase = "running" /\ new.program = run.program
      /\ new.settled = run.settled /\ new.result = run.result /\ new.calls = run.calls + 1
      /\ new.trace = RecordEvent(run.trace, kind, error)
  BY <1>1 DEF Recorded, Called, Run
<1> HIDE DEF new
<1>3. ASSUME run.program # None PROVE Made(new)
  <2>1. run.trace = <<>> /\ run.calls = 0
    BY <1>3 DEF Made
  <2>2. new.calls = 1
    BY <1>2, <2>1
  <2>3. new.trace = Append(<<>>, Receipt(0, kind, error))
    BY <1>2, <2>1, HostAssumption, SomeRoom DEF RecordEvent
  <2>4. Len(new.trace) = 1 /\ new.trace[1].kind = kind
    BY <2>3 DEF Receipt
  <2>5. QED
    BY <1>2, <1>3, <2>2, <2>4 DEF Made
<1>4. QED
  BY <1>2, <1>3 DEF new

LEMMA MadeOfCalled ==
    ASSUME NEW run, Whole(run), run.phase = "running",
           run.program # None => /\ Made(run) /\ run.calls = 0
                                 /\ run.program.call \notin Instrumented
    PROVE  LET new == Called(run) IN
           /\ new.phase = "running" /\ new.program = run.program
           /\ new.settled = run.settled /\ new.result = run.result /\ new.trace = run.trace
           /\ new.program # None => Made(new)
<1> DEFINE new == Called(run)
<1>1. run \in Run
  BY DEF Whole
<1>2. /\ new.phase = "running" /\ new.program = run.program
      /\ new.settled = run.settled /\ new.result = run.result /\ new.trace = run.trace
  BY <1>1 DEF Called, Run
<1> HIDE DEF new
<1>3. QED
  BY <1>2 DEF Made, new

\* What a job tells after the steps that begin and end a run (dispatch_wasm_worker).
LEMMA RunJobs ==
    ASSUME Typed, JobInv, NEW g \in Guests,
           \/ BeginOwn(g) \/ Return(g) \/ Fail(g) \/ Crash(g) \/ AppendBeat(g) \/ WriteResult(g)
           \/ \E b \in Builtins : BeginBuiltin(g, b) \/ Unbuilt(g, b)
    PROVE  JobInv'
<1> DEFINE run == guest[g]
<1>1. Whole(run) /\ run \in Run /\ guest \in [Guests -> Run] /\ TypeOK /\ JobOf(g)
  BY DEF Typed, TypeOK, Whole, JobInv
<1>2. ASSUME NEW new, guest' = [guest EXCEPT ![g] = new],
             beats' = beats \/ beats' = beats \cup {g},
             guest'[g] = new => JobOf(g)'
      PROVE  JobInv'
  BY <1>1, <1>2, JobFrame
<1>3. ASSUME run.phase = "ready"
      PROVE  /\ run.trace = <<>> /\ run.calls = 0 /\ run.result = "none" /\ run.program = None
             /\ run.settled = Unsettled /\ g \notin beats
  <2>1. run = [Fresh EXCEPT !.phase = "ready"]
    BY <1>1, <1>3 DEF JobOf
  <2>2. QED
    BY <1>1, <1>3, <2>1 DEF JobOf, Fresh
<1>4. ASSUME NEW b \in Builtins \cup {None}, Begin(g, b) PROVE JobInv'
  <2> DEFINE new == [run EXCEPT !.phase = "running", !.program = b]
  <2>1. guest' = [guest EXCEPT ![g] = new] /\ run.phase = "ready" /\ beats' = beats
    BY <1>1, <1>4 DEF Begin
  <2>2. /\ new.phase = "running" /\ new.trace = run.trace /\ new.calls = run.calls
        /\ new.result = run.result /\ new.settled = run.settled
    BY <1>1 DEF Run
  <2> HIDE DEF new
  <2>3. Made(new)
    BY <1>3, <2>1, <2>2 DEF Made
  <2>4. guest'[g] = new => JobOf(g)'
    BY <1>3, <2>1, <2>2, <2>3 DEF JobOf
  <2>5. QED
    BY <1>2, <2>1, <2>4
<1>5. ASSUME NEW b \in Builtins, Unbuilt(g, b) PROVE JobInv'
  <2> DEFINE new == [run EXCEPT !.phase = "over"]
  <2>1. guest' = [guest EXCEPT ![g] = new] /\ run.phase = "ready" /\ beats' = beats
    BY <1>1, <1>5 DEF Unbuilt
  <2>2. /\ new.phase = "over" /\ new.program = run.program
        /\ new.result = run.result /\ new.settled = run.settled
    BY <1>1 DEF Run
  <2> HIDE DEF new
  <2>3. guest'[g] = new => JobOf(g)'
    BY <1>3, <2>1, <2>2 DEF JobOf
  <2>4. QED
    BY <1>2, <2>1, <2>3
<1>6. CASE Return(g)
  <2> DEFINE s == IF run.trace # <<>> THEN Settle(run.trace) ELSE Unsettled
             new == [run EXCEPT !.phase = "returned", !.settled = s]
  <2>1. guest' = [guest EXCEPT ![g] = new] /\ run.phase = "running" /\ beats' = beats
        /\ (run.program # None /\ run.program.call # "none" => run.calls = 1)
    BY <1>1, <1>6 DEF Return
  <2>2. /\ new.phase = "returned" /\ new.program = run.program /\ new.calls = run.calls
        /\ new.result = run.result /\ new.settled = s /\ new.trace = run.trace
    BY <1>1 DEF Run
  <2>3. run.result = "none" /\ g \notin beats
    BY <1>1, <2>1 DEF JobOf
  <2>4. s = IF new.trace = <<>> THEN Unsettled ELSE Settle(new.trace)
    BY <2>2
  <2> HIDE DEF new, s
  <2>5. new.program # None => Made(new)
    BY <1>1, <2>2 DEF JobOf, Made
  <2>6. guest'[g] = new => JobOf(g)'
    BY <2>1, <2>2, <2>3, <2>4, <2>5 DEF JobOf
  <2>7. QED
    BY <1>2, <2>1, <2>6
<1>7. ASSUME NEW ph \in {"failed", "dead"}, guest' = [guest EXCEPT ![g] = [Fresh EXCEPT !.phase = ph]],
             beats' = beats, ph = "failed" => g \notin beats
      PROVE  JobInv'
  <2> DEFINE new == [Fresh EXCEPT !.phase = ph]
  <2>1. new.phase = ph /\ new.program = None /\ new.result = "none" /\ new.settled = Unsettled
    BY DEF Fresh
  <2>2. new = [Fresh EXCEPT !.phase = new.phase]
    BY <2>1
  <2> HIDE DEF new
  <2>3. guest'[g] = new => JobOf(g)'
    BY <1>7, <2>1, <2>2 DEF JobOf
  <2>4. QED
    BY <1>2, <1>7, <2>3 DEF new
<1>8. CASE Fail(g)
  <2>1. run.phase = "running" /\ guest' = [guest EXCEPT ![g] = [Fresh EXCEPT !.phase = "failed"]]
        /\ beats' = beats
    BY <1>8 DEF Fail
  <2>2. g \notin beats
    BY <1>1, <2>1 DEF JobOf
  <2>3. QED
    BY <1>7, <2>1, <2>2
<1>9. CASE Crash(g)
  <2>1. guest' = [guest EXCEPT ![g] = [Fresh EXCEPT !.phase = "dead"]] /\ beats' = beats
    BY <1>9 DEF Crash
  <2>2. QED
    BY <1>7, <2>1
<1>10. CASE AppendBeat(g)
  <2> DEFINE new == [run EXCEPT !.phase = "receipted"]
  <2>1. guest' = [guest EXCEPT ![g] = new] /\ run.phase = "returned" /\ beats' = beats \cup {g}
    BY <1>1, <1>10 DEF AppendBeat
  <2>2. /\ new.phase = "receipted" /\ new.program = run.program /\ new.calls = run.calls
        /\ new.result = run.result /\ new.settled = run.settled /\ new.trace = run.trace
    BY <1>1 DEF Run
  <2> HIDE DEF new
  <2>3. new.program # None => Made(new)
    BY <1>1, <2>2 DEF JobOf, Made
  <2>4. guest'[g] = new => JobOf(g)'
    BY <1>1, <2>1, <2>2, <2>3 DEF JobOf
  <2>5. QED
    BY <1>2, <2>1, <2>4
<1>11. CASE WriteResult(g)
  <2> DEFINE res == IF run.phase = "failed" THEN "failed" ELSE "completed"
             new == [run EXCEPT !.phase = "over", !.result = res]
  <2>1. guest' = [guest EXCEPT ![g] = new] /\ beats' = beats
    BY <1>1, <1>11 DEF WriteResult
  <2>2. run.phase \in {"returned", "receipted", "failed"}
        /\ (run.phase = "returned" => run.program # BeatGuest)
    BY <1>11 DEF WriteResult
  <2>3. /\ new.phase = "over" /\ new.program = run.program /\ new.calls = run.calls
        /\ new.result = res /\ new.settled = run.settled /\ new.trace = run.trace
    BY <1>1 DEF Run
  <2> HIDE DEF new
  <2>4. new.program # None => Made(new)
    BY <1>1, <2>3 DEF JobOf, Made
  <2>5. CASE run.phase = "failed"
    <3>1. run.settled = Unsettled /\ g \notin beats /\ res = "failed"
      BY <1>1, <2>5 DEF JobOf
    <3>2. guest'[g] = new => JobOf(g)'
      BY <1>1, <2>1, <2>3, <2>4, <2>5, <3>1 DEF JobOf
    <3>3. QED
      BY <1>2, <2>1, <3>2
  <2>6. CASE run.phase # "failed"
    <3>1. res = "completed" /\ run.phase \in {"returned", "receipted"}
      BY <2>2, <2>6
    <3>2. /\ run.settled = IF run.trace = <<>> THEN Unsettled ELSE Settle(run.trace)
          /\ run.program # None /\ run.program.call # "none" => run.calls = 1
          /\ run.program = BeatGuest => g \in beats
      BY <1>1, <2>2, <3>1 DEF JobOf
    <3>3. guest'[g] = new => JobOf(g)'
      BY <2>1, <2>3, <2>4, <3>1, <3>2 DEF JobOf
    <3>4. QED
      BY <1>2, <2>1, <3>3
  <2>7. QED
    BY <2>5, <2>6
<1>12. QED
  BY <1>4, <1>5, <1>6, <1>8, <1>9, <1>10, <1>11 DEF BeginOwn, BeginBuiltin

\* A step of a host call, which changes nothing of the run that its job tells of.
Keeps(g) ==
    /\ guest' = [guest EXCEPT ![g] = guest'[g]]
    /\ guest[g].phase \in Busy /\ guest'[g].phase \in Busy
    /\ guest'[g].program = guest[g].program
    /\ guest'[g].settled = guest[g].settled /\ guest'[g].result = guest[g].result
    /\ beats' = beats
    /\ guest'[g].program # None => Made(guest'[g])

LEMMA WithinKeeps ==
    ASSUME Typed, JobInv, NEW g \in Guests,
           \/ KvEmpty(g) \/ KvFail(g) \/ \E fits \in BOOLEAN : KvSave(g, fits)
           \/ Feed(g) \/ ChildWrites(g) \/ ChildExits(g) \/ Poll(g) \/ Kill(g) \/ Collect(g)
    PROVE  Keeps(g) /\ workspace' = workspace /\ guest'[g].trace = guest[g].trace
<1> DEFINE run == guest[g]
           new == guest'[g]
<1>1. run \in Run /\ guest \in [Guests -> Run] /\ (run.program # None => Made(run))
  BY DEF Typed, TypeOK, JobInv, JobOf
<1>2. ASSUME guest' = [guest EXCEPT ![g] = new], run.phase \in Busy, new.phase \in Busy,
             new.program = run.program, new.settled = run.settled, new.result = run.result,
             new.trace = run.trace, new.calls = run.calls, beats' = beats
      PROVE  Keeps(g) /\ new.trace = run.trace
  BY <1>1, <1>2 DEF Keeps, Made
<1>3. CASE KvEmpty(g)
  BY <1>1, <1>2, <1>3 DEF KvEmpty, Run, Busy
<1>4. ASSUME NEW fits \in BOOLEAN, KvSave(g, fits)
      PROVE  Keeps(g) /\ workspace' = workspace /\ new.trace = run.trace
  BY <1>1, <1>2, <1>4 DEF KvSave, Run, Busy
<1>11. CASE KvFail(g)
  BY <1>1, <1>2, <1>11 DEF KvFail, Run, Busy
<1>12. CASE Feed(g)
  BY <1>1, <1>2, <1>12 DEF Feed, Run, Busy
<1>5. CASE ChildWrites(g)
  BY <1>1, <1>2, <1>5 DEF ChildWrites, Run, Busy
<1>6. CASE ChildExits(g)
  BY <1>1, <1>2, <1>6 DEF ChildExits, Run, Busy
<1>7. CASE Poll(g)
  BY <1>1, <1>2, <1>7 DEF Poll, Run, Busy
<1>8. CASE Kill(g)
  BY <1>1, <1>2, <1>8 DEF Kill, Run, Busy
<1>9. CASE Collect(g)
  BY <1>1, <1>2, <1>9 DEF Collect, Run, Busy
<1>10. QED
  BY <1>3, <1>4, <1>5, <1>6, <1>7, <1>8, <1>9, <1>11, <1>12

\* A call without a receipt.
LEMMA CallKeeps ==
    ASSUME Typed, JobInv, NEW g \in Guests,
           \/ Denied(g) \/ ScheduleHeartbeat(g) \/ KvGet(g)
           \/ \E k \in Keys, v \in Values : KvLoad(g, k, v)
           \/ \E wants \in Children, takes \in BOOLEAN : Spawn(g, wants, takes)
    PROVE  Keeps(g) /\ workspace' = workspace /\ guest'[g].trace = guest[g].trace
<1> DEFINE run == guest[g]
           new == guest'[g]
           called == Called(run)
<1>1. Whole(run) /\ run \in Run /\ guest \in [Guests -> Run] /\ (run.program # None => Made(run))
  BY DEF Typed, TypeOK, Whole, JobInv, JobOf
<1>2. /\ run.phase = "running"
      /\ run.program # None => run.calls = 0 /\ run.program.call \notin Instrumented
      /\ UNCHANGED <<workspace, beats>>
  BY DEF Denied, ScheduleHeartbeat, KvGet, Ask, KvLoad, Spawn, May, Calls, Instrumented
<1>3. /\ called.phase = "running" /\ called.program = run.program
      /\ called.settled = run.settled /\ called.result = run.result /\ called.trace = run.trace
      /\ called.program # None => Made(called)
  BY <1>1, <1>2, MadeOfCalled
<1>4. called \in Run
  BY <1>1, <1>2, CalledIsWhole DEF Whole
<1> HIDE DEF called
<1>5. /\ guest' = [guest EXCEPT ![g] = new] /\ new.phase \in Busy
      /\ new.program = called.program /\ new.settled = called.settled
      /\ new.result = called.result /\ new.trace = called.trace /\ new.calls = called.calls
  <2>1. CASE Ask(g)
    <3>1. guest' = [guest EXCEPT ![g] = called]
      BY <2>1 DEF Ask, called
    <3>2. QED
      BY <1>1, <1>3, <3>1 DEF Busy
  <2>2. ASSUME NEW k \in Keys, NEW v \in Values, KvLoad(g, k, v) PROVE <1>5!:
    <3>1. guest' = [guest EXCEPT ![g] = [called EXCEPT !.phase = "loaded", !.store = kv,
                                                       !.key = k, !.value = v]]
      BY <2>2 DEF KvLoad, called
    <3>2. QED
      BY <1>1, <1>4, <3>1 DEF Busy, Run
  <2>3. ASSUME NEW wants \in Children, NEW takes \in BOOLEAN, Spawn(g, wants, takes) PROVE <1>5!:
    <3>1. guest' = [guest EXCEPT ![g] = [called EXCEPT
             !.phase = "feed",
             !.child = [wants |-> wants, takes |-> takes, out |-> 0, state |-> "running"]]]
      BY <2>3 DEF Spawn, called
    <3>2. QED
      BY <1>1, <1>4, <3>1 DEF Busy, Run
  <2>4. QED
    BY <2>1, <2>2, <2>3 DEF Denied, ScheduleHeartbeat, KvGet
<1>6. new.program # None => Made(new)
  BY <1>3, <1>5 DEF Made
<1>7. QED
  BY <1>2, <1>3, <1>5, <1>6 DEF Keeps, Busy

\* A call with a receipt.
LEMMA RecordKeeps ==
    ASSUME Typed, JobInv, NEW g \in Guests, NEW kind \in {"observe", "fs_write"},
           NEW error \in BOOLEAN,
           \/ /\ kind = "observe"
              /\ \/ Navigate(g, error) \/ SystemInfo(g, error) \/ FsRead(g, error)
                 \/ Infer(g, error)
           \/ kind = "fs_write" /\ \E mode \in {"refused", "append", "replace"} :
                                      FsWrite(g, mode, error)
    PROVE  Keeps(g) /\ guest'[g].trace = RecordEvent(guest[g].trace, kind, error)
<1> DEFINE run == guest[g]
           new == Recorded(run, kind, error)
<1>1. Whole(run) /\ run \in Run /\ guest \in [Guests -> Run] /\ (run.program # None => Made(run))
  BY DEF Typed, TypeOK, Whole, JobInv, JobOf
<1>2. guest' = [guest EXCEPT ![g] = new] /\ run.phase = "running" /\ beats' = beats
  BY DEF Navigate, SystemInfo, FsRead, Infer, Observe, FsWrite, Calls
<1>3. run.program # None => /\ run.calls = 0 /\ run.program.call \in Instrumented
                            /\ Kind(run.program.call) = kind
  BY DEF Navigate, SystemInfo, FsRead, Infer, FsWrite, May, Instrumented, Kind
<1>4. /\ new.phase = "running" /\ new.program = run.program
      /\ new.settled = run.settled /\ new.result = run.result
      /\ new.trace = RecordEvent(run.trace, kind, error)
      /\ new.program # None => Made(new)
  BY <1>1, <1>2, <1>3, MadeOfRecorded
<1> HIDE DEF new
<1>5. guest'[g] = new
  BY <1>1, <1>2
<1>6. QED
  BY <1>2, <1>4, <1>5 DEF Keeps, Busy

\* The steps of Next that are a call or a part of one.
LEMMA CallSteps ==
    ASSUME Next
    PROVE  \E g \in Guests :
             \/ \/ BeginOwn(g) \/ Return(g) \/ Fail(g) \/ Crash(g) \/ AppendBeat(g) \/ WriteResult(g)
                \/ \E b \in Builtins : BeginBuiltin(g, b) \/ Unbuilt(g, b)
             \/ \/ KvEmpty(g) \/ KvFail(g) \/ \E fits \in BOOLEAN : KvSave(g, fits)
                \/ Feed(g) \/ ChildWrites(g) \/ ChildExits(g) \/ Poll(g) \/ Kill(g) \/ Collect(g)
             \/ \/ Denied(g) \/ ScheduleHeartbeat(g) \/ KvGet(g)
                \/ \E k \in Keys, v \in Values : KvLoad(g, k, v)
                \/ \E wants \in Children, takes \in BOOLEAN : Spawn(g, wants, takes)
             \/ \E error \in BOOLEAN :
                   \/ Navigate(g, error) \/ SystemInfo(g, error) \/ FsRead(g, error)
                   \/ Infer(g, error)
                   \/ \E mode \in {"refused", "append", "replace"} : FsWrite(g, mode, error)
BY DEF Next

LEMMA KeepsJobs ==
    ASSUME Typed, JobInv, NEW g \in Guests, Keeps(g)
    PROVE  JobInv'
<1>1. JobOf(g) /\ TypeOK
  BY DEF JobInv, Typed
<1>2. JobOf(g)'
  BY <1>1, JobBusy DEF Keeps
<1>3. QED
  BY <1>1, <1>2, JobFrame DEF Keeps

LEMMA JobHolds == Spec => []JobInv
<1>1. Init => JobInv
  <2> SUFFICES ASSUME Init, NEW g \in Guests PROVE JobOf(g)
    BY DEF JobInv
  <2>1. guest[g] = Fresh /\ beats = {}
    BY DEF Init
  <2>2. Fresh = [Fresh EXCEPT !.phase = "ready"]
    BY DEF Fresh
  <2>3. /\ Fresh.phase = "ready" /\ Fresh.program = None /\ Fresh.result = "none"
        /\ Fresh.settled = Unsettled
    BY DEF Fresh
  <2>4. QED
    BY <2>1, <2>2, <2>3 DEF JobOf
<1>2. Typed /\ JobInv /\ [Next]_vars => JobInv'
  <2> SUFFICES ASSUME Typed, JobInv, [Next]_vars PROVE JobInv'
    OBVIOUS
  <2>1. CASE Next
    <3>1. ASSUME NEW g \in Guests, NEW error \in BOOLEAN,
                 \/ Navigate(g, error) \/ SystemInfo(g, error) \/ FsRead(g, error)
                 \/ Infer(g, error)
                 \/ \E mode \in {"refused", "append", "replace"} : FsWrite(g, mode, error)
          PROVE  Keeps(g)
      BY <3>1, RecordKeeps
    <3>2. QED
      BY <2>1, <3>1, CallSteps, RunJobs, WithinKeeps, CallKeeps, KeepsJobs
  <2>2. CASE UNCHANGED vars
    BY <2>2 DEF vars, JobInv, JobOf
  <2>3. QED
    BY <2>1, <2>2
<1>3. QED
  BY <1>1, <1>2, TypedHolds, PTL DEF Spec

LEMMA JobsAreTold ==
    ASSUME TypeOK, JobInv
    PROVE  JobsTell
<1> SUFFICES ASSUME NEW g \in Guests
             PROVE  LET run == guest[g] IN
                    /\ run.result = "completed" /\ run.program # None =>
                         IF run.program.call \in Instrumented
                           THEN /\ Len(run.trace) = 1 /\ run.trace[1].kind = Kind(run.program.call)
                                /\ run.settled # Unsettled
                           ELSE run.trace = <<>> /\ run.settled = Unsettled
                    /\ run.result = "completed" /\ run.program = BeatGuest => g \in beats
                    /\ run.result = "failed" => g \notin beats /\ run.settled = Unsettled
  BY DEF JobsTell
<1> DEFINE run == guest[g]
<1>1. JobOf(g)
  BY DEF JobInv
<1>2. ASSUME run.result = "completed", run.program # None, run.program.call \in Instrumented
      PROVE  /\ Len(run.trace) = 1 /\ run.trace[1].kind = Kind(run.program.call)
             /\ run.settled # Unsettled
  <2>1. run.calls = 1
    BY <1>1, <1>2 DEF JobOf, Instrumented
  <2>2. Len(run.trace) = 1 /\ run.trace[1].kind = Kind(run.program.call)
    BY <1>1, <1>2, <2>1 DEF JobOf, Made
  <2>3. run.trace # <<>>
    BY <2>2
  <2>4. run.settled = Settle(run.trace)
    BY <1>1, <1>2, <2>3 DEF JobOf
  <2>5. run.settled.len = 1 /\ Unsettled.len = 0
    BY <2>2, <2>4 DEF Settle, Unsettled
  <2>6. QED
    BY <2>2, <2>5
<1>3. ASSUME run.result = "completed", run.program # None, run.program.call \notin Instrumented
      PROVE  run.trace = <<>> /\ run.settled = Unsettled
  BY <1>1, <1>3 DEF JobOf, Made
<1>4. run.result = "completed" /\ run.program = BeatGuest => g \in beats
  BY <1>1 DEF JobOf
<1>5. run.result = "failed" => g \notin beats /\ run.settled = Unsettled
  BY <1>1 DEF JobOf
<1>6. QED
  BY <1>2, <1>3, <1>4, <1>5

LEMMA PiecesAreFinite ==
    ASSUME workspace \in Seq(Guests), NEW g \in Guests
    PROVE  IsFiniteSet(Pieces(g)) /\ Cardinality(Pieces(g)) \in Nat
<1>1. Len(workspace) \in Nat
  OBVIOUS
<1>2. IsFiniteSet(1 .. Len(workspace))
  BY <1>1, FS_Interval
<1>3. Pieces(g) \subseteq 1 .. Len(workspace)
  BY DEF Pieces
<1>4. IsFiniteSet(Pieces(g))
  BY <1>2, <1>3, FS_Subset
<1>5. QED
  BY <1>4, FS_CardinalityType

LEMMA WritesAreFinite ==
    ASSUME NEW trace \in Seq(Receipts)
    PROVE  IsFiniteSet(Writes(trace)) /\ Cardinality(Writes(trace)) \in Nat
<1>1. IsFiniteSet(1 .. Len(trace))
  BY FS_Interval
<1>2. Writes(trace) \subseteq 1 .. Len(trace)
  BY DEF Writes
<1>3. IsFiniteSet(Writes(trace))
  BY <1>1, <1>2, FS_Subset
<1>4. QED
  BY <1>3, FS_CardinalityType

\* A receipt that is recorded is one more of its kind (record_event).
LEMMA WritesGrow ==
    ASSUME NEW trace \in Seq(Receipts), NEW kind \in {"observe", "fs_write"},
           NEW error \in BOOLEAN, Len(RecordEvent(trace, kind, error)) < MaxReceipts
    PROVE  Cardinality(Writes(RecordEvent(trace, kind, error))) =
               Cardinality(Writes(trace)) + (IF kind = "fs_write" THEN 1 ELSE 0)
<1> DEFINE r == Receipt(Len(trace), kind, error)
           n == Len(trace)
<1>1. MaxReceipts \in Nat /\ n \in Nat
  BY HostAssumption, SomeRoom
<1>2. n < MaxReceipts
  BY <1>1 DEF RecordEvent
<1>3. RecordEvent(trace, kind, error) = Append(trace, r)
  BY <1>1, <1>2 DEF RecordEvent
<1>4. r.kind = kind /\ n \in 0 .. MaxReceipts - 1 /\ r \in Receipts
  BY <1>1, <1>2 DEF Receipt, Receipts
<1> HIDE DEF r
<1>5. Writes(Append(trace, r)) = IF kind = "fs_write" THEN Writes(trace) \cup {n + 1} ELSE Writes(trace)
  <2>1. /\ Len(Append(trace, r)) = n + 1
        /\ \A i \in 1 .. n : Append(trace, r)[i] = trace[i]
        /\ Append(trace, r)[n + 1] = r
    BY <1>4
  <2> HIDE DEF n
  <2>2. \A i : i \in 1 .. n + 1 <=> i \in 1 .. n \/ i = n + 1
    BY <1>1
  <2>3. QED
    BY <1>4, <2>1, <2>2 DEF Writes, n
<1>6. n + 1 \notin Writes(trace)
  BY <1>1 DEF Writes
<1>7. IsFiniteSet(Writes(trace)) /\ Cardinality(Writes(trace)) \in Nat
  BY WritesAreFinite
<1>8. Cardinality(Writes(trace) \cup {n + 1}) = Cardinality(Writes(trace)) + 1
  BY <1>6, <1>7, FS_AddElement
<1>9. QED
  BY <1>3, <1>5, <1>7, <1>8

\* What a write does to the pieces of its guest and to those of another.
LEMMA PiecesGrow ==
    ASSUME workspace \in Seq(Guests), NEW g \in Guests, NEW h \in Guests,
           NEW mode \in {"refused", "append", "replace"},
           workspace' = CASE mode = "refused" -> workspace
                          [] mode = "append"  -> Append(workspace, g)
                          [] OTHER            -> <<g>>
    PROVE  Cardinality(Pieces(h)') <= Cardinality(Pieces(h)) + (IF h = g THEN 1 ELSE 0)
<1> DEFINE n == Len(workspace)
<1>1. n \in Nat /\ IsFiniteSet(Pieces(h)) /\ Cardinality(Pieces(h)) \in Nat
  BY PiecesAreFinite
<1>2. CASE mode = "refused"
  <2>1. Pieces(h)' = Pieces(h)
    BY <1>2 DEF Pieces
  <2>2. QED
    BY <1>1, <2>1
<1>3. CASE mode = "append"
  <2>1. /\ Len(workspace') = n + 1 /\ workspace'[n + 1] = g
        /\ \A i \in 1 .. n : workspace'[i] = workspace[i]
    BY <1>3
  <2> HIDE DEF n
  <2>2. \A i : i \in 1 .. n + 1 <=> i \in 1 .. n \/ i = n + 1
    BY <1>1
  <2>3. Pieces(h)' = IF h = g THEN Pieces(h) \cup {n + 1} ELSE Pieces(h)
    BY <2>1, <2>2 DEF Pieces, n
  <2>4. n + 1 \notin Pieces(h)
    BY <1>1 DEF Pieces, n
  <2>5. Cardinality(Pieces(h) \cup {n + 1}) = Cardinality(Pieces(h)) + 1
    BY <1>1, <2>4, FS_AddElement
  <2>6. QED
    BY <1>1, <2>3, <2>5
<1>4. CASE mode = "replace"
  <2>1. workspace' = <<g>>
    BY <1>4
  <2>2. Pieces(h)' = IF h = g THEN {1} ELSE {}
    BY <2>1 DEF Pieces
  <2>3. Cardinality({1}) = 1 /\ Cardinality({}) = 0
    BY FS_Singleton, FS_EmptySet
  <2>4. QED
    BY <1>1, <2>2, <2>3
<1>5. QED
  BY <1>2, <1>3, <1>4

\* A step that writes nothing to the workspace leaves the receipts of each guest enough,
\* if a guest that has lost its receipts has failed or is dead and stays so.
LEMMA ReceiptsFrame ==
    ASSUME TypeOK, PiecesHaveReceipts, NEW g \in Guests, workspace' = workspace,
           guest' = [guest EXCEPT ![g] = guest'[g]],
           \/ guest'[g].phase \in {"failed", "dead"} \/ guest'[g].result = "failed"
           \/ /\ guest[g].phase \notin {"failed", "dead"} /\ guest[g].result # "failed"
              /\ guest'[g].trace = guest[g].trace
    PROVE  PiecesHaveReceipts'
<1> SUFFICES ASSUME NEW h \in Guests PROVE HasReceipts(h)'
  BY DEF PiecesHaveReceipts
<1>1. HasReceipts(h) /\ Pieces(h)' = Pieces(h)
  BY DEF PiecesHaveReceipts, Pieces
<1>2. h # g => guest'[h] = guest[h]
  BY DEF TypeOK
<1>3. CASE guest'[h] = guest[h]
  BY <1>1, <1>3 DEF HasReceipts, Writes
<1>4. CASE h = g
  <2>1. CASE guest'[g].phase \in {"failed", "dead"} \/ guest'[g].result = "failed"
    BY <1>4, <2>1 DEF HasReceipts
  <2>2. CASE /\ guest[g].phase \notin {"failed", "dead"} /\ guest[g].result # "failed"
             /\ guest'[g].trace = guest[g].trace
    BY <1>1, <1>4, <2>2 DEF HasReceipts, Writes
  <2>3. QED
    BY <2>1, <2>2
<1>5. QED
  BY <1>2, <1>3, <1>4

LEMMA RunReceipts ==
    ASSUME Typed, JobInv, PiecesHaveReceipts, NEW g \in Guests,
           \/ BeginOwn(g) \/ Return(g) \/ Fail(g) \/ Crash(g) \/ AppendBeat(g) \/ WriteResult(g)
           \/ \E b \in Builtins : BeginBuiltin(g, b) \/ Unbuilt(g, b)
    PROVE  PiecesHaveReceipts'
<1> DEFINE run == guest[g]
           new == guest'[g]
<1>1. run \in Run /\ guest \in [Guests -> Run] /\ TypeOK /\ (run.result # "none" => run.phase = "over")
  BY DEF Typed, TypeOK, JobInv, JobOf
<1>2. ASSUME guest' = [guest EXCEPT ![g] = new], workspace' = workspace,
             \/ new.phase \in {"failed", "dead"} \/ new.result = "failed"
             \/ /\ run.phase \notin {"failed", "dead", "over"} /\ new.trace = run.trace
      PROVE  PiecesHaveReceipts'
  <2>1. run.phase # "over" => run.result # "failed"
    BY <1>1
  <2>2. QED
    BY <1>1, <1>2, <2>1, ReceiptsFrame
<1>3. ASSUME NEW b, Begin(g, b) PROVE PiecesHaveReceipts'
  BY <1>1, <1>2, <1>3 DEF Begin, Run
<1>4. ASSUME NEW b \in Builtins, Unbuilt(g, b) PROVE PiecesHaveReceipts'
  BY <1>1, <1>2, <1>4 DEF Unbuilt, Run
<1>5. CASE Return(g)
  BY <1>1, <1>2, <1>5 DEF Return, Run
<1>6. CASE Fail(g)
  <2>1. [Fresh EXCEPT !.phase = "failed"].phase = "failed"
    BY DEF Fresh
  <2>2. QED
    BY <1>1, <1>2, <1>6, <2>1 DEF Fail
<1>7. CASE Crash(g)
  <2>1. [Fresh EXCEPT !.phase = "dead"].phase = "dead"
    BY DEF Fresh
  <2>2. QED
    BY <1>1, <1>2, <1>7, <2>1 DEF Crash
<1>8. CASE AppendBeat(g)
  BY <1>1, <1>2, <1>8 DEF AppendBeat, Run
<1>9. CASE WriteResult(g)
  BY <1>1, <1>2, <1>9 DEF WriteResult, Run
<1>10. QED
  BY <1>3, <1>4, <1>5, <1>6, <1>7, <1>8, <1>9 DEF BeginOwn, BeginBuiltin

\* A call that records its receipt may have written one piece, if it is of fs.write.
LEMMA RecordReceipts ==
    ASSUME Typed, JobInv, PiecesHaveReceipts, NEW g \in Guests, NEW error \in BOOLEAN,
           \/ Navigate(g, error) \/ SystemInfo(g, error) \/ FsRead(g, error) \/ Infer(g, error)
           \/ \E mode \in {"refused", "append", "replace"} : FsWrite(g, mode, error)
    PROVE  PiecesHaveReceipts'
<1> SUFFICES ASSUME NEW h \in Guests PROVE HasReceipts(h)'
  BY DEF PiecesHaveReceipts
<1> DEFINE run == guest[h]
           new == guest'[h]
<1>1. /\ workspace \in Seq(Guests) /\ HasReceipts(h) /\ run.trace \in Seq(Receipts)
      /\ guest \in [Guests -> Run] /\ MaxReceipts \in Nat
      /\ Cardinality(Pieces(h)) \in Nat /\ Cardinality(Writes(run.trace)) \in Nat
  <2>1. workspace \in Seq(Guests) /\ HasReceipts(h) /\ run.trace \in Seq(Receipts)
        /\ guest \in [Guests -> Run]
    BY DEF Typed, TypeOK, PiecesHaveReceipts, Run
  <2>2. QED
    BY <2>1, PiecesAreFinite, WritesAreFinite, HostAssumption, SomeRoom
<1>2. PICK kind \in {"observe", "fs_write"} :
          /\ Keeps(g) /\ guest'[g].trace = RecordEvent(guest[g].trace, kind, error)
          /\ \/ workspace' = workspace
             \/ kind = "fs_write" /\ \E mode \in {"refused", "append", "replace"} :
                    workspace' = CASE mode = "refused" -> workspace
                                   [] mode = "append"  -> Append(workspace, g)
                                   [] OTHER            -> <<g>>
  <2>1. CASE Navigate(g, error) \/ SystemInfo(g, error) \/ FsRead(g, error) \/ Infer(g, error)
    <3>1. workspace' = workspace
      BY <2>1 DEF Navigate, SystemInfo, FsRead, Infer, Observe
    <3>2. Keeps(g) /\ guest'[g].trace = RecordEvent(guest[g].trace, "observe", error)
      BY <2>1, RecordKeeps
    <3>3. QED
      BY <3>1, <3>2
  <2>2. ASSUME NEW mode \in {"refused", "append", "replace"}, FsWrite(g, mode, error)
        PROVE  /\ Keeps(g) /\ guest'[g].trace = RecordEvent(guest[g].trace, "fs_write", error)
               /\ workspace' = CASE mode = "refused" -> workspace
                                 [] mode = "append"  -> Append(workspace, g)
                                 [] OTHER            -> <<g>>
    <3>1. workspace' = CASE mode = "refused" -> workspace
                         [] mode = "append"  -> Append(workspace, g)
                         [] OTHER            -> <<g>>
      BY <2>2, Zenon DEF FsWrite
    <3>2. Keeps(g) /\ guest'[g].trace = RecordEvent(guest[g].trace, "fs_write", error)
      BY <2>2, RecordKeeps
    <3>3. QED
      BY <3>1, <3>2, Zenon
  <2>3. QED
    BY <2>1, <2>2
<1>3. Cardinality(Pieces(h)') <=
          Cardinality(Pieces(h)) + (IF h = g /\ kind = "fs_write" THEN 1 ELSE 0)
      /\ Cardinality(Pieces(h)') \in Nat
  <2>1. workspace' \in Seq(Guests)
    <3>1. \/ Observe(g, error)
          \/ \E mode \in {"refused", "append", "replace"} : FsWrite(g, mode, error)
      BY DEF Navigate, SystemInfo, FsRead, Infer
    <3>2. Typed'
      BY <3>1, CallTypes
    <3>3. QED
      BY <3>2 DEF Typed, TypeOK
  <2>2. Cardinality(Pieces(h)') \in Nat
    <3>1. IsFiniteSet(1 .. Len(workspace'))
      BY <2>1, FS_Interval
    <3>2. Pieces(h)' \subseteq 1 .. Len(workspace')
      BY DEF Pieces
    <3>3. QED
      BY <3>1, <3>2, FS_Subset, FS_CardinalityType
  <2>3. CASE workspace' = workspace
    <3>1. Pieces(h)' = Pieces(h)
      BY <2>3 DEF Pieces
    <3>2. QED
      BY <1>1, <2>2, <3>1
  <2>4. CASE workspace' # workspace
    <3>1. PICK mode \in {"refused", "append", "replace"} :
              workspace' = CASE mode = "refused" -> workspace
                             [] mode = "append"  -> Append(workspace, g)
                             [] OTHER            -> <<g>>
      BY <1>2, <2>4
    <3>2. Cardinality(Pieces(h)') <= Cardinality(Pieces(h)) + (IF h = g THEN 1 ELSE 0)
      BY <1>1, <3>1, PiecesGrow
    <3>3. kind = "fs_write"
      BY <1>2, <2>4
    <3>4. QED
      BY <2>2, <3>2, <3>3
  <2>5. QED
    BY <2>3, <2>4
<1>4. CASE h # g
  <2>1. new = run
    BY <1>1, <1>2, <1>4 DEF Keeps
  <2>2. Cardinality(Pieces(h)') <= Cardinality(Pieces(h))
    BY <1>1, <1>3, <1>4
  <2>3. QED
    BY <1>1, <1>3, <2>1, <2>2 DEF HasReceipts, Writes
<1>5. CASE h = g
  <2>1. /\ run.phase \in Busy /\ new.result = run.result
        /\ new.trace = RecordEvent(run.trace, kind, error)
    BY <1>2, <1>5 DEF Keeps
  <2> SUFFICES ASSUME new.phase \notin {"failed", "dead"}, new.result # "failed",
                      Len(new.trace) < MaxReceipts
               PROVE  Cardinality(Pieces(h)') <= Cardinality(Writes(new.trace))
    BY DEF HasReceipts, Writes
  <2>2. Cardinality(Writes(new.trace)) =
            Cardinality(Writes(run.trace)) + (IF kind = "fs_write" THEN 1 ELSE 0)
    BY <1>1, <2>1, WritesGrow
  <2>3. Len(run.trace) < MaxReceipts
    BY <1>1, <2>1 DEF RecordEvent
  <2>4. Cardinality(Pieces(h)) <= Cardinality(Writes(run.trace))
    BY <1>1, <2>1, <2>3 DEF HasReceipts, Busy
  <2>5. QED
    BY <1>1, <1>3, <1>5, <2>2, <2>4
<1>6. QED
  BY <1>4, <1>5

\* What the workspace and the job's files tell of a guest agrees with its receipts: each
\* piece it wrote has one, and a job that completed the one of its call
\* (dispatch_wasm_worker, record_event).
THEOREM ReceiptsFollowHolds == Spec => []ReceiptsFollow
<1>1. Init => PiecesHaveReceipts
  <2> SUFFICES ASSUME Init, NEW g \in Guests PROVE HasReceipts(g)
    BY DEF PiecesHaveReceipts
  <2>1. workspace = <<>> /\ guest[g].trace = <<>>
    BY DEF Init, Fresh
  <2>2. Pieces(g) = {} /\ Writes(guest[g].trace) = {}
    BY <2>1 DEF Pieces, Writes
  <2>3. QED
    BY <2>2, FS_EmptySet DEF HasReceipts
<1>2. Typed /\ JobInv /\ PiecesHaveReceipts /\ [Next]_vars => PiecesHaveReceipts'
  <2> SUFFICES ASSUME Typed, JobInv, PiecesHaveReceipts, [Next]_vars
               PROVE  PiecesHaveReceipts'
    OBVIOUS
  <2>1. CASE Next
    <3>1. ASSUME NEW g \in Guests, Keeps(g), workspace' = workspace,
                 guest'[g].trace = guest[g].trace
          PROVE  PiecesHaveReceipts'
      <4>1. TypeOK /\ (guest[g].result # "none" => guest[g].phase = "over")
        BY DEF Typed, JobInv, JobOf
      <4>2. QED
        BY <3>1, <4>1, ReceiptsFrame DEF Keeps, Busy
    <3>2. QED
      BY <2>1, <3>1, CallSteps, RunReceipts, WithinKeeps, CallKeeps, RecordReceipts
  <2>2. CASE UNCHANGED vars
    BY <2>2 DEF vars, PiecesHaveReceipts, HasReceipts, Pieces, Writes
  <2>3. QED
    BY <2>1, <2>2
<1>3. Typed /\ JobInv => JobsTell
  BY JobsAreTold DEF Typed
<1>4. QED
  BY <1>1, <1>2, <1>3, TypedHolds, JobHolds, PTL DEF Spec, ReceiptsFollow

\* What a trace is settled in tells it from its neighbours: no other trace with a receipt
\* changed, left out, repeated or moved has its root and length (finalize, build).
THEOREM SettlementBindsHolds == Spec => []SettlementBinds
<1>1. ASSUME Typed, JobInv PROVE SettlementBinds
  <2> SUFFICES ASSUME NEW g \in Guests, guest[g].settled # Unsettled,
                      NEW other \in Neighbours(guest[g].trace),
                      other # <<>>, Settle(other) = guest[g].settled
               PROVE  other = guest[g].trace
    BY DEF SettlementBinds, Settled
  <2> DEFINE trace == guest[g].trace
             n == Len(trace)
  <2>1. Whole(guest[g]) /\ trace \in Seq(Receipts) /\ JobOf(g)
    BY <1>1 DEF Typed, TypeOK, Run, JobInv
  <2>2. trace # <<>> /\ guest[g].settled = Settle(trace)
    BY <2>1 DEF JobOf
  <2>3. n \in 1 .. MaxReceipts /\ n \in Nat /\ n >= 1
    <3>1. n \in 1 .. MaxReceipts
      BY <2>1, <2>2, SettleIsSettlement
    <3> HIDE DEF n
    <3>2. QED
      BY <3>1, SomeRoom
  <2>4. Settle(trace) = Settle(other) /\ Len(other) = n
    BY <2>2 DEF Settle
  <2> HIDE DEF trace
  <2>5. other # SubSeq(trace, 1, n - 1)
    <3>1. Len(SubSeq(trace, 1, n - 1)) = n - 1
      <4>1. n - 1 \in Int /\ 1 \in Int /\ \A i \in 1 .. n - 1 : trace[i] \in Receipts
        BY <2>1, <2>3
      <4> HIDE DEF n
      <4>2. Len(SubSeq(trace, 1, n - 1)) = IF 1 <= n - 1 THEN n - 1 - 1 + 1 ELSE 0
        BY <4>1, SubSeqProperties
      <4>3. QED
        BY <2>3, <4>2
    <3>2. QED
      BY <2>3, <2>4, <3>1
  <2>6. other # Append(trace, Last(trace))
    <3> DEFINE l == Last(trace)
    <3> HIDE DEF l
    <3>1. Len(Append(trace, l)) = n + 1
      BY <2>1
    <3>2. QED
      BY <2>3, <2>4, <3>1 DEF l
  <2>7. DOMAIN other = 1 .. n /\ other = [i \in 1 .. n |-> other[i]]
    <3>1. \/ \E i \in DOMAIN trace : other = [trace EXCEPT ![i].error = ~@]
          \/ \E i, j \in DOMAIN trace : other = [trace EXCEPT ![i] = trace[j], ![j] = trace[i]]
      BY <2>5, <2>6 DEF Neighbours, trace
    <3>2. DOMAIN trace = 1 .. n
      BY <2>1
    <3>3. CASE \E i \in DOMAIN trace : other = [trace EXCEPT ![i].error = ~@]
      BY <3>2, <3>3
    <3>4. CASE \E i, j \in DOMAIN trace : other = [trace EXCEPT ![i] = trace[j], ![j] = trace[i]]
      BY <3>2, <3>4
    <3>5. QED
      BY <3>1, <3>3, <3>4
  <2> DEFINE S == Receipts \cup {other[i] : i \in 1 .. n}
  <2>8. trace \in Seq(S) /\ other \in Seq(S)
    <3>1. trace \in [1 .. n -> S] /\ other \in [1 .. n -> S] /\ n \in Nat
      BY <2>1, <2>3, <2>7
    <3> HIDE DEF S, n
    <3>2. QED
      BY <3>1
  <2> HIDE DEF S
  <2>9. trace = other
    BY <2>3, <2>4, <2>8, SettleBinds
  <2>10. QED
    BY <2>9 DEF trace
<1>2. QED
  BY <1>1, TypedHolds, JobHolds, PTL

-----------------------------------------------------------------------------
(* The store.                                                              *)

\* The others are not at work, before and after a step of one guest.
LEMMA OthersRest ==
    ASSUME Typed, Serial, StoreInv, NEW g \in Guests, guest' = [guest EXCEPT ![g] = guest'[g]],
           ~Over(g) \/ \A h \in Guests : Over(h)
    PROVE  /\ OneAtWork'
           /\ \A h \in Guests \ {g} : Over(h) /\ guest'[h] = guest[h] /\ StoreOf(h)'
<1>1. ASSUME NEW h \in Guests \ {g} PROVE Over(h) /\ guest'[h] = guest[h]
  BY <1>1 DEF Typed, TypeOK, StoreInv, OneAtWork
<1>2. ASSUME NEW h \in Guests \ {g} PROVE Over(h)' /\ StoreOf(h)'
  <2>1. guest'[h].phase \in {"ready", "over", "dead"}
    BY <1>1, <1>2 DEF Over
  <2>2. QED
    BY <2>1 DEF Over, StoreOf
<1>3. OneAtWork'
  BY <1>2 DEF OneAtWork
<1>4. QED
  BY <1>1, <1>2, <1>3

\* A step that does not touch the store, of a guest that is not writing it, unless what
\* was told is void.
LEMMA QuietStore ==
    ASSUME Typed, Serial, StoreInv, NEW g \in Guests, guest' = [guest EXCEPT ![g] = guest'[g]],
           ~Over(g) \/ \A h \in Guests : Over(h),
           kv' = kv,
           \/ told' = told /\ guest[g].phase # "emptied"
           \/ \A k \in Keys : told'[k] = None,
           guest'[g].phase \notin {"loaded", "emptied"}
    PROVE  StoreInv'
<1>1. OneAtWork' /\ \A h \in Guests \ {g} : Over(h) /\ StoreOf(h)'
  BY OthersRest
<1>2. StoreOf(g)'
  BY DEF StoreOf
<1>3. CASE told' = told /\ guest[g].phase # "emptied"
  <2>1. \A h \in Guests : guest[h].phase # "emptied"
    BY <1>1, <1>3 DEF Over
  <2>2. \A k \in Keys : told[k] # None => kv[k] = told[k]
    BY <2>1 DEF StoreInv, ToldIsStored
  <2>3. QED
    BY <1>1, <1>2, <1>3, <2>2 DEF StoreInv, ToldIsStored
<1>4. CASE \A k \in Keys : told'[k] = None
  BY <1>1, <1>2, <1>4 DEF StoreInv, ToldIsStored
<1>5. QED
  BY <1>3, <1>4

LEMMA RunStore ==
    ASSUME Typed, Serial, StoreInv, NEW g \in Guests,
           \/ BeginOwn(g) \/ Return(g) \/ Fail(g) \/ Crash(g) \/ AppendBeat(g) \/ WriteResult(g)
           \/ \E b \in Builtins : BeginBuiltin(g, b) \/ Unbuilt(g, b)
    PROVE  StoreInv'
<1> DEFINE run == guest[g]
           new == guest'[g]
           Writing == {"loaded", "emptied"}
<1>1. run \in Run /\ guest \in [Guests -> Run]
  BY DEF Typed, TypeOK
<1>2. ASSUME guest' = [guest EXCEPT ![g] = new], kv' = kv,
             ~Over(g) \/ \A h \in Guests : Over(h),
             \/ told' = told /\ run.phase # "emptied"
             \/ \A k \in Keys : told'[k] = None,
             new.phase \notin Writing
      PROVE  StoreInv'
  BY <1>2, QuietStore
<1>3. ASSUME NEW b, Begin(g, b) PROVE StoreInv'
  BY <1>1, <1>2, <1>3 DEF Begin, Run
<1>4. ASSUME NEW b \in Builtins, Unbuilt(g, b) PROVE StoreInv'
  BY <1>1, <1>2, <1>4 DEF Unbuilt, Run
<1>5. CASE Return(g)
  BY <1>1, <1>2, <1>5 DEF Return, Run, Over
<1>6. CASE Fail(g)
  <2>1. [Fresh EXCEPT !.phase = "failed"].phase = "failed"
    BY DEF Fresh
  <2>2. QED
    BY <1>1, <1>2, <1>6, <2>1 DEF Fail, Over
<1>7. CASE Crash(g)
  <2>1. [Fresh EXCEPT !.phase = "dead"].phase = "dead"
    BY DEF Fresh
  <2>2. QED
    BY <1>1, <1>2, <1>7, <2>1 DEF Crash, Tear
<1>8. CASE AppendBeat(g)
  BY <1>1, <1>2, <1>8 DEF AppendBeat, Run, Over
<1>9. CASE WriteResult(g)
  BY <1>1, <1>2, <1>9 DEF WriteResult, Run, Over
<1>10. QED
  BY <1>3, <1>4, <1>5, <1>6, <1>7, <1>8, <1>9 DEF BeginOwn, BeginBuiltin

\* The calls that have no part in the store.
LEMMA CallStore ==
    ASSUME Typed, Serial, StoreInv, NEW g \in Guests,
           \/ \E error \in BOOLEAN : Observe(g, error)
           \/ \E mode \in {"refused", "append", "replace"}, error \in BOOLEAN : FsWrite(g, mode, error)
           \/ Ask(g)
           \/ \E wants \in Children, takes \in BOOLEAN : Spawn(g, wants, takes)
           \/ Feed(g) \/ ChildWrites(g) \/ ChildExits(g) \/ Poll(g) \/ Kill(g) \/ Collect(g)
    PROVE  StoreInv'
<1> DEFINE run == guest[g]
           new == guest'[g]
<1>1. run \in Run /\ guest \in [Guests -> Run]
  BY DEF Typed, TypeOK
<1>2. ASSUME guest' = [guest EXCEPT ![g] = new], UNCHANGED <<kv, told>>,
             run.phase \in {"running", "feed", "wait", "polled", "collect"},
             new.phase \in {"running", "feed", "wait", "polled", "collect"}
      PROVE  StoreInv'
  BY <1>2, QuietStore DEF Over
<1>3. /\ run.phase = "running" => Called(run) \in Run
      /\ Called(run).phase = run.phase
      /\ \A kind \in {"observe", "fs_write"}, error \in BOOLEAN :
             Recorded(run, kind, error).phase = run.phase
  <2>1. run.phase = "running" => Called(run) \in Run
    BY CalledIsWhole DEF Typed, Whole
  <2>2. Called(run).phase = run.phase
    BY <1>1 DEF Called, Run
  <2>3. QED
    BY <1>1, <2>1, <2>2 DEF Recorded, Called, Run
<1>4. ASSUME NEW error \in BOOLEAN, Observe(g, error) PROVE StoreInv'
  BY <1>1, <1>2, <1>3, <1>4 DEF Observe, Calls
<1>5. ASSUME NEW mode \in {"refused", "append", "replace"}, NEW error \in BOOLEAN,
             FsWrite(g, mode, error)
      PROVE  StoreInv'
  BY <1>1, <1>2, <1>3, <1>5 DEF FsWrite, Calls
<1>6. CASE Ask(g)
  BY <1>1, <1>2, <1>3, <1>6 DEF Ask, Calls
<1>7. ASSUME NEW wants \in Children, NEW takes \in BOOLEAN, Spawn(g, wants, takes) PROVE StoreInv'
  BY <1>1, <1>2, <1>3, <1>7 DEF Spawn, Calls, Run
<1>14. CASE Feed(g)
  BY <1>1, <1>2, <1>14 DEF Feed, Run
<1>8. CASE ChildWrites(g)
  BY <1>1, <1>2, <1>8 DEF ChildWrites, Run
<1>9. CASE ChildExits(g)
  BY <1>1, <1>2, <1>9 DEF ChildExits, Run
<1>10. CASE Poll(g)
  BY <1>1, <1>2, <1>10 DEF Poll, Run
<1>11. CASE Kill(g)
  BY <1>1, <1>2, <1>11 DEF Kill, Run
<1>12. CASE Collect(g)
  BY <1>1, <1>2, <1>12 DEF Collect, Run
<1>13. QED
  BY <1>4, <1>5, <1>6, <1>7, <1>8, <1>9, <1>10, <1>11, <1>12, <1>14

\* kv.set: what is loaded is the store, which is emptied and written as it was loaded,
\* with the new value.
LEMMA SetStore ==
    ASSUME Typed, Serial, StoreInv, NEW g \in Guests,
           \/ \E k \in Keys, v \in Values : KvLoad(g, k, v)
           \/ KvEmpty(g) \/ KvFail(g) \/ \E fits \in BOOLEAN : KvSave(g, fits)
    PROVE  StoreInv'
<1> DEFINE run == guest[g]
           new == guest'[g]
<1>1. /\ Whole(run) /\ run \in Run /\ guest \in [Guests -> Run]
      /\ kv \in [Keys -> Values \cup {None}] /\ told \in [Keys -> Values \cup {None}]
      /\ run.store \in [Keys -> Values \cup {None}]
  BY DEF Typed, TypeOK, Whole, Run
<1>2. /\ guest' = [guest EXCEPT ![g] = new] /\ ~Over(g)
  BY <1>1 DEF KvLoad, KvEmpty, KvSave, KvFail, Over, Calls
<1>3. OneAtWork' /\ \A h \in Guests \ {g} : Over(h) /\ guest'[h] = guest[h] /\ StoreOf(h)'
  BY <1>2, OthersRest
<1>4. StoreOf(g) /\ ToldIsStored
  BY DEF StoreInv
<1>5. ASSUME NEW k \in Keys, NEW v \in Values, KvLoad(g, k, v)
      PROVE  StoreOf(g)' /\ ToldIsStored'
  <2>1. Called(run) \in Run /\ run.phase = "running"
    BY <1>1, <1>5, CalledIsWhole DEF KvLoad, Calls, Whole
  <2>2. new.phase = "loaded" /\ new.store = kv /\ new.key = k /\ new.value = v
    BY <1>1, <1>5, <2>1 DEF KvLoad, Run
  <2>3. kv' = kv /\ told' = [told EXCEPT ![k] = None]
    BY <1>5 DEF KvLoad
  <2>4. \A h \in Guests : guest[h].phase # "emptied"
    BY <1>3, <2>1 DEF Over
  <2>5. \A j \in Keys : told[j] # None => kv[j] = told[j]
    BY <1>4, <1>5, <2>4 DEF ToldIsStored
  <2>6. \A j \in Keys : told'[j] # None => kv'[j] = told'[j]
    BY <1>1, <2>3, <2>5
  <2>7. told'[k] = None
    BY <1>1, <2>3
  <2>8. QED
    BY <2>2, <2>3, <2>6, <2>7 DEF StoreOf, ToldIsStored
<1>6. ASSUME KvEmpty(g) PROVE StoreOf(g)' /\ ToldIsStored'
  <2>1. run.phase = "loaded" /\ told' = told
    BY <1>6 DEF KvEmpty
  <2>2. new.phase = "emptied" /\ new.store = run.store /\ new.key = run.key /\ new.value = run.value
    BY <1>1, <1>6 DEF KvEmpty, Run
  <2>3. \A h \in Guests : guest[h].phase # "emptied"
    BY <1>3, <2>1 DEF Over
  <2>4. \A j \in Keys : told[j] # None => kv[j] = told[j]
    BY <1>4, <1>6, <2>3 DEF ToldIsStored
  <2>5. StoreOf(g)'
    BY <1>4, <1>6, <2>1, <2>2, <2>4 DEF StoreOf
  <2>6. QED
    BY <2>2, <2>5 DEF ToldIsStored
<1>7. ASSUME NEW fits \in BOOLEAN, KvSave(g, fits) PROVE StoreOf(g)' /\ ToldIsStored'
  <2>1. /\ run.phase = "emptied" /\ kv' = [run.store EXCEPT ![run.key] = run.value]
        /\ told' = [told EXCEPT ![run.key] = IF fits THEN run.value ELSE None]
    BY <1>7 DEF KvSave
  <2>2. new.phase = "running"
    BY <1>1, <1>7 DEF KvSave, Run
  <2>3. run.key \in Keys /\ \A j \in Keys : told[j] # None => run.store[j] = told[j]
    BY <1>4, <1>7, <2>1 DEF StoreOf
  <2>4. \A j \in Keys : told'[j] # None => kv'[j] = told'[j]
    BY <1>1, <2>1, <2>3
  <2>5. QED
    BY <2>2, <2>4 DEF StoreOf, ToldIsStored
<1>8. ASSUME KvFail(g) PROVE StoreInv'
  <2>1. new.phase = "running" /\ kv' = kv /\ \A j \in Keys : told'[j] = None
    BY <1>1, <1>8 DEF KvFail, Tear, Run
  <2>2. QED
    BY <1>2, <2>1, QuietStore
<1>9. QED
  BY <1>2, <1>3, <1>5, <1>6, <1>7, <1>8 DEF StoreInv

\* Guests that run one after another find in the store what was answered stored, until
\* the key is set anew or a host fails or dies while it writes the file
\* (save_runtime_kv_store).
THEOREM ToldIsStoredHolds == Spec => []ToldIsStored
<1>1. Init => StoreInv
  BY DEF Init, Fresh, StoreInv, OneAtWork, Over, ToldIsStored, StoreOf
<1>2. Typed /\ StoreInv /\ [Next]_vars => StoreInv'
  <2> SUFFICES ASSUME Typed, StoreInv, [Next]_vars, Serial PROVE StoreInv'
    BY DEF StoreInv
  <2>1. CASE Next
    BY <2>1, Steps, RunStore, CallStore, SetStore
  <2>2. CASE UNCHANGED vars
    BY <2>2 DEF vars, StoreInv, OneAtWork, Over, ToldIsStored, StoreOf
  <2>3. QED
    BY <2>1, <2>2
<1>3. StoreInv => ToldIsStored
  BY DEF StoreInv, ToldIsStored
<1>4. QED
  BY <1>1, <1>2, <1>3, TypedHolds, PTL DEF Spec

-----------------------------------------------------------------------------
(* The answer of a terminal call.                                          *)

\* A step that leaves the child, the time and the answer alone, or answers nothing.
LEMMA QuietAnswer ==
    ASSUME Typed, AnswerInv, NEW g \in Guests, guest' = [guest EXCEPT ![g] = guest'[g]],
           guest[g].phase \notin {"feed", "wait", "polled", "collect"},
           guest'[g].phase \notin {"feed", "wait", "polled", "collect"},
           \/ guest'[g].answer = None
           \/ /\ guest'[g].answer = guest[g].answer /\ guest'[g].child = guest[g].child
              /\ guest'[g].polls = guest[g].polls
    PROVE  AnswerOf(g)'
BY DEF AnswerInv, AnswerOf

LEMMA RunAnswers ==
    ASSUME Typed, AnswerInv, NEW g \in Guests,
           \/ BeginOwn(g) \/ Return(g) \/ Fail(g) \/ Crash(g) \/ AppendBeat(g) \/ WriteResult(g)
           \/ \E b \in Builtins : BeginBuiltin(g, b) \/ Unbuilt(g, b)
    PROVE  AnswerOf(g)' /\ guest' = [guest EXCEPT ![g] = guest'[g]]
<1> DEFINE run == guest[g]
           new == guest'[g]
<1>1. run \in Run /\ guest \in [Guests -> Run]
  BY DEF Typed, TypeOK
<1>2. ASSUME guest' = [guest EXCEPT ![g] = new],
             run.phase \notin {"feed", "wait", "polled", "collect"},
             new.phase \notin {"feed", "wait", "polled", "collect"},
             new.answer = run.answer, new.child = run.child, new.polls = run.polls
      PROVE  AnswerOf(g)' /\ guest' = [guest EXCEPT ![g] = guest'[g]]
  BY <1>2, QuietAnswer
<1>3. ASSUME NEW b, Begin(g, b)
      PROVE  AnswerOf(g)' /\ guest' = [guest EXCEPT ![g] = guest'[g]]
  BY <1>1, <1>2, <1>3 DEF Begin, Run
<1>4. ASSUME NEW b \in Builtins, Unbuilt(g, b)
      PROVE  AnswerOf(g)' /\ guest' = [guest EXCEPT ![g] = guest'[g]]
  BY <1>1, <1>2, <1>4 DEF Unbuilt, Run
<1>5. CASE Return(g)
  BY <1>1, <1>2, <1>5 DEF Return, Run
<1>6. CASE Fail(g) \/ Crash(g)
  <2>1. \A ph \in {"failed", "dead"} :
            [Fresh EXCEPT !.phase = ph].phase = ph /\ [Fresh EXCEPT !.phase = ph].answer = None
    BY DEF Fresh
  <2>2. guest' = [guest EXCEPT ![g] = new] /\ new.phase \in {"failed", "dead"} /\ new.answer = None
    BY <1>1, <1>6, <2>1 DEF Fail, Crash
  <2>3. QED
    BY <2>2 DEF AnswerOf
<1>7. CASE AppendBeat(g)
  BY <1>1, <1>2, <1>7 DEF AppendBeat, Run
<1>8. CASE WriteResult(g)
  BY <1>1, <1>2, <1>8 DEF WriteResult, Run
<1>9. QED
  BY <1>3, <1>4, <1>5, <1>6, <1>7, <1>8 DEF BeginOwn, BeginBuiltin

\* A call that begins has no answer yet.
LEMMA CallAnswers ==
    ASSUME Typed, AnswerInv, NEW g \in Guests,
           \/ \E error \in BOOLEAN : Observe(g, error)
           \/ \E mode \in {"refused", "append", "replace"}, error \in BOOLEAN : FsWrite(g, mode, error)
           \/ Ask(g)
           \/ \E k \in Keys, v \in Values : KvLoad(g, k, v)
           \/ \E wants \in Children, takes \in BOOLEAN : Spawn(g, wants, takes)
    PROVE  AnswerOf(g)' /\ guest' = [guest EXCEPT ![g] = guest'[g]]
<1> DEFINE run == guest[g]
           new == guest'[g]
<1>1. Whole(run) /\ run \in Run /\ guest \in [Guests -> Run] /\ run.phase = "running"
  BY DEF Typed, TypeOK, Whole, Observe, FsWrite, Ask, KvLoad, Spawn, Calls
<1>2. Called(run) \in Run /\ Called(run).phase = "running" /\ Called(run).answer = None
  BY <1>1, CalledIsWhole DEF Whole, Called, Run
<1>3. \A kind \in {"observe", "fs_write"}, error \in BOOLEAN :
          Recorded(run, kind, error).phase = "running" /\ Recorded(run, kind, error).answer = None
  BY <1>2 DEF Recorded, Run
<1>4. ASSUME NEW error \in BOOLEAN, Observe(g, error)
      PROVE  AnswerOf(g)' /\ guest' = [guest EXCEPT ![g] = guest'[g]]
  BY <1>1, <1>3, <1>4, QuietAnswer DEF Observe
<1>5. ASSUME NEW mode \in {"refused", "append", "replace"}, NEW error \in BOOLEAN,
             FsWrite(g, mode, error)
      PROVE  AnswerOf(g)' /\ guest' = [guest EXCEPT ![g] = guest'[g]]
  BY <1>1, <1>3, <1>5, QuietAnswer DEF FsWrite
<1>6. CASE Ask(g)
  BY <1>1, <1>2, <1>6, QuietAnswer DEF Ask
<1>7. ASSUME NEW k \in Keys, NEW v \in Values, KvLoad(g, k, v)
      PROVE  AnswerOf(g)' /\ guest' = [guest EXCEPT ![g] = guest'[g]]
  BY <1>1, <1>2, <1>7, QuietAnswer DEF KvLoad, Run
<1>8. ASSUME NEW wants \in Children, NEW takes \in BOOLEAN, Spawn(g, wants, takes)
      PROVE  AnswerOf(g)' /\ guest' = [guest EXCEPT ![g] = guest'[g]]
  <2>1. guest' = [guest EXCEPT ![g] = new] /\ new.phase = "feed" /\ new.child.state = "running"
    BY <1>1, <1>2, <1>8 DEF Spawn, Run
  <2>2. QED
    BY <2>1 DEF AnswerOf
<1>9. QED
  BY <1>4, <1>5, <1>6, <1>7, <1>8

\* An answer that is not of a child's whole output says so (dispatch_terminal_exec).
LEMMA WithinAnswers ==
    ASSUME Typed, AnswerInv, NEW g \in Guests,
           \/ KvEmpty(g) \/ KvFail(g) \/ \E fits \in BOOLEAN : KvSave(g, fits)
           \/ Feed(g) \/ ChildWrites(g) \/ ChildExits(g) \/ Poll(g) \/ Kill(g) \/ Collect(g)
    PROVE  AnswerOf(g)' /\ guest' = [guest EXCEPT ![g] = guest'[g]]
<1> DEFINE run == guest[g]
           new == guest'[g]
<1>1. /\ Whole(run) /\ run \in Run /\ guest \in [Guests -> Run] /\ AnswerOf(g)
      /\ run.child \in ChildRun /\ run.polls \in 0 .. Timeout /\ Timeout \in Nat
  BY HostAssumption DEF Typed, TypeOK, Whole, AnswerInv, Run
<1>2. CASE KvEmpty(g)
  BY <1>1, <1>2, QuietAnswer DEF KvEmpty, Run
<1>3. ASSUME NEW fits \in BOOLEAN, KvSave(g, fits)
      PROVE  AnswerOf(g)' /\ guest' = [guest EXCEPT ![g] = guest'[g]]
  BY <1>1, <1>3, QuietAnswer DEF KvSave, Run
<1>10. CASE KvFail(g)
  BY <1>1, <1>10, QuietAnswer DEF KvFail, Run
<1>11. CASE Feed(g)
  <2>1. /\ guest' = [guest EXCEPT ![g] = new] /\ run.phase = "feed"
        /\ new.phase = "wait" /\ new.child = run.child
    BY <1>1, <1>11 DEF Feed, Run
  <2>2. QED
    BY <1>1, <2>1 DEF AnswerOf
<1>4. CASE ChildWrites(g)
  <2>1. /\ guest' = [guest EXCEPT ![g] = new] /\ run.phase \in {"feed", "wait", "polled"}
        /\ new.phase = run.phase /\ new.polls = run.polls /\ new.child.state = "running"
    BY <1>1, <1>4 DEF ChildWrites, Run, ChildRun
  <2>2. QED
    BY <1>1, <2>1 DEF AnswerOf
<1>5. CASE ChildExits(g)
  <2>1. /\ guest' = [guest EXCEPT ![g] = new] /\ run.phase \in {"feed", "wait", "polled"}
        /\ new.phase = run.phase /\ new.polls = run.polls
        /\ new.child.state = "exited" /\ new.child.out = new.child.wants
    BY <1>1, <1>5 DEF ChildExits, Run, ChildRun
  <2>2. QED
    BY <1>1, <2>1 DEF AnswerOf
<1>6. CASE Poll(g)
  <2>1. run.phase = "wait" /\ run.child.state \in {"running", "exited"}
        /\ (run.child.state = "exited" => run.child.out = run.child.wants)
    BY <1>1, <1>6 DEF Poll, AnswerOf
  <2>2. guest' = [guest EXCEPT ![g] = new] /\ new.child = run.child
    BY <1>1, <1>6 DEF Poll, Run
  <2>3. CASE run.child.state # "running"
    <3>1. new.phase = "collect" /\ new.answer = [timed_out |-> FALSE]
      BY <1>1, <1>6, <2>3 DEF Poll, Run
    <3>2. QED
      BY <2>1, <2>2, <2>3, <3>1 DEF AnswerOf
  <2>4. CASE run.child.state = "running" /\ run.polls >= Timeout
    <3>1. new.phase = "polled" /\ new.polls = run.polls /\ run.polls = Timeout
      BY <1>1, <1>6, <2>4 DEF Poll, Run
    <3>2. QED
      BY <2>2, <2>4, <3>1 DEF AnswerOf
  <2>5. CASE run.child.state = "running" /\ ~(run.polls >= Timeout)
    <3>1. new.phase = "wait"
      BY <1>1, <1>6, <2>1, <2>5 DEF Poll, Run
    <3>2. QED
      BY <2>2, <2>5, <3>1 DEF AnswerOf
  <2>6. QED
    BY <2>3, <2>4, <2>5
<1>7. CASE Kill(g)
  <2>1. /\ guest' = [guest EXCEPT ![g] = new] /\ run.phase = "polled"
        /\ new.phase = "collect" /\ new.polls = run.polls
        /\ new.answer = [timed_out |-> TRUE]
    BY <1>1, <1>7 DEF Kill, Run
  <2>2. QED
    BY <1>1, <2>1 DEF AnswerOf
<1>8. CASE Collect(g)
  <2>1. /\ guest' = [guest EXCEPT ![g] = new] /\ run.phase = "collect" /\ new.phase = "running"
        /\ new.polls = run.polls /\ new.child = run.child /\ new.answer = Answer(g)
    BY <1>1, <1>8 DEF Collect, Run
  <2>2. /\ run.answer.timed_out => run.polls = Timeout
        /\ ~run.answer.timed_out => run.child.state = "exited" /\ run.child.out = run.child.wants
    BY <1>1, <2>1 DEF AnswerOf
  <2>3. /\ Answer(g).timed_out = run.answer.timed_out
        /\ Answer(g).truncated = (run.child.out > MaxResponse)
        /\ Answer(g).out = IF run.child.out > MaxResponse THEN MaxResponse ELSE run.child.out
    BY DEF Answer
  <2>4. Answer(g).timed_out \in BOOLEAN /\ Answer(g).truncated \in BOOLEAN
    BY <1>1, <2>1, <2>3 DEF Whole, Waited
  <2>5. QED
    BY <2>1, <2>2, <2>3, <2>4 DEF AnswerOf
<1>9. QED
  BY <1>2, <1>3, <1>4, <1>5, <1>6, <1>7, <1>8, <1>10, <1>11

\* A terminal call that is not answered as timed out or truncated hands over all its
\* child wrote, and no child is killed before its time is up (dispatch_terminal_exec).
THEOREM AnswerIsWholeHolds == Spec => []AnswerIsWhole
<1>1. Init => AnswerInv
  BY DEF Init, Fresh, AnswerInv, AnswerOf
<1>2. Typed /\ AnswerInv /\ [Next]_vars => AnswerInv'
  <2> SUFFICES ASSUME Typed, AnswerInv, [Next]_vars PROVE AnswerInv'
    OBVIOUS
  <2>1. ASSUME NEW g \in Guests, AnswerOf(g)', guest' = [guest EXCEPT ![g] = guest'[g]]
        PROVE  AnswerInv'
    <3>1. \A h \in Guests \ {g} : guest'[h] = guest[h]
      BY <2>1 DEF Typed, TypeOK
    <3>2. ASSUME NEW h \in Guests \ {g} PROVE AnswerOf(h)'
      BY <3>1 DEF AnswerInv, AnswerOf
    <3>3. QED
      BY <2>1, <3>2 DEF AnswerInv
  <2>2. CASE Next
    BY <2>1, <2>2, Steps, RunAnswers, CallAnswers, WithinAnswers
  <2>3. CASE UNCHANGED vars
    BY <2>3 DEF vars, AnswerInv, AnswerOf
  <2>4. QED
    BY <2>2, <2>3
<1>3. AnswerInv => AnswerIsWhole
  BY DEF AnswerInv, AnswerOf, AnswerIsWhole
<1>4. QED
  BY <1>1, <1>2, <1>3, TypedHolds, PTL DEF Spec

=============================================================================

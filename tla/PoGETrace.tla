------------------------------- MODULE PoGETrace -------------------------------
(***************************************************************************)
(* Proofs of governed execution: the trace of receipts an interceptor      *)
(* keeps of one guest's host calls, the Merkle tree it is settled in, and  *)
(* the aggregation of several settled roots.  Hashes are symbolic: two     *)
(* digests are equal exactly if what was hashed is.                        *)
(***************************************************************************)
EXTENDS Integers, Sequences, FiniteSets, SequencesExt

CONSTANT MaxReceipts

\* MAX_TRACE_RECEIPTS is 65535.
ASSUME TraceAssumption == MaxReceipts \in Nat /\ 1 <= MaxReceipts /\ MaxReceipts <= 65535

\* The receipt of a call binds its place in the trace.
Receipt(n, kind, error) == [seq |-> n, kind |-> kind, error |-> error]

\* record_event: a full trace refuses the event and keeps its sequence number; the
\* shims ignore the refusal.
RecordEvent(trace, kind, error) ==
    IF Len(trace) >= MaxReceipts THEN trace
    ELSE Append(trace, Receipt(Len(trace), kind, error))

-----------------------------------------------------------------------------
(* The tree.                                                               *)

Leaf(receipt) == <<"leaf", receipt>>
Branch(left, right) == <<"branch", left, right>>

\* next_power_of_two: the leaves fill it, and more than half of it.
Powers == {1, 2, 4, 8, 16, 32, 64, 128, 256, 512, 1024, 2048, 4096, 8192, 16384, 32768, 65536}
Pad(n) == CHOOSE p \in Powers : p >= n /\ p < 2 * n

\* build: a complete tree in breadth-first order, root at 1, the last leaf repeated
\* in the slots that are left.
Build(trace) ==
    LET padded == Pad(Len(trace))
        node[i \in 1 .. 2 * padded - 1] ==
            IF i < padded THEN Branch(node[2 * i], node[2 * i + 1])
            ELSE Leaf(trace[IF i - padded < Len(trace) THEN i - padded + 1 ELSE Len(trace)])
    IN  node

\* A proof is the siblings from the leaf to the root.
Path(tree, index) ==
    LET up[i \in 1 .. Len(tree)] == IF i = 1 THEN <<>> ELSE <<i>> \o up[i \div 2]
    IN  up[(Len(tree) + 1) \div 2 + index]
ProofFor(tree, index) ==
    [k \in DOMAIN Path(tree, index) |->
        LET pos == Path(tree, index)[k] IN tree[IF pos % 2 = 0 THEN pos + 1 ELSE pos - 1]]

\* MerkleProof.verify of OpenZeppelin, which is given no index: of two digests, the
\* smaller one is on the left.
Verifies(smaller, leaf, proof, root) ==
    FoldLeft(LAMBDA hash, sibling : IF <<hash, sibling>> \in smaller THEN Branch(hash, sibling)
                                                                     ELSE Branch(sibling, hash),
             leaf, proof) = root

\* Digests compare in any way.
Orders(digests) ==
    {{pair \in digests \X digests : rank[pair[1]] < rank[pair[2]]} :
         rank \in Bijection(digests, 1 .. Cardinality(digests))}

SettleRoot(trace) == [root |-> Build(trace)[1], len |-> 0]

\* finalize: nothing is settled of an empty trace.
Settle(trace) == [root |-> Build(trace)[1], len |-> Len(trace)]

-----------------------------------------------------------------------------
(* Aggregation.                                                            *)

\* aggregate_proofs: pairs level by level, an odd last one is carried up.
LevelUp(level) ==
    [k \in 1 .. (Len(level) + 1) \div 2 |->
        IF 2 * k <= Len(level) THEN Branch(level[2 * k - 1], level[2 * k]) ELSE level[2 * k - 1]]
Aggregate(leaves) ==
    LET level[n \in 0 .. Len(leaves)] == IF n = 0 THEN leaves ELSE LevelUp(level[n - 1])
    IN  level[Len(leaves)][1]
=============================================================================

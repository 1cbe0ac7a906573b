---------------------------- MODULE RangeAssign ----------------------------
(***************************************************************************)
(* The placement algorithms, as operators: rangeAssign of the group        *)
(* coordinator (the cluster coordinator keeps an identical copy), the      *)
(* rebalance of the metadata state machine, and assignReplicas of the      *)
(* cluster coordinator.  Identifiers are naturals, so that < is the order  *)
(* the code sorts by; topics are assigned independently, so one topic with *)
(* partitions 0 .. n-1 stands for each of them.                            *)
(***************************************************************************)
EXTENDS Integers, FiniteSetsExt

(* Position, from 0, of id after sorting ids.                              *)
Rank(ids, id) == Cardinality({j \in ids : j < id})

(* Partitions the i-th of k members receives out of n: the first n % k     *)
(* members take one more than the others.                                  *)
ShareNoRemainder(i, n, k) == n \div k
Share(i, n, k) == n \div k + (IF i < n % k THEN 1 ELSE 0)

(* Where the range of the i-th member starts: the shares before it.        *)
Cursor(i, n, k) == MapThenSumSet(LAMBDA j : Share(j, n, k), 0 .. i - 1)

(* The slice of partitions of member id; members is not empty.             *)
RangeAssign(members, n) ==
    [id \in members |->
        LET k == Cardinality(members)
            i == Rank(members, id)
        IN  Cursor(i, n, k) .. Cursor(i, n, k) + Share(i, n, k) - 1]

(* eligible[lo:hi] of rebalance in the metadata state machine.             *)
HighRoundedUp(i, n, k) == ((i + 1) * n + k - 1) \div k
High(i, n, k) == ((i + 1) * n) \div k
Rebalance(members, n) ==
    [id \in members |->
        LET k == Cardinality(members)
            i == Rank(members, id)
        IN  (i * n) \div k .. High(i, n, k) - 1]

(* The replicas of partition p, as a sequence: rf nodes around the ring of *)
(* sorted nodes from the topic's hash.  hash is already reduced to an int. *)
RingSlotStride(hash, p, r, k) == (hash + p + 2 * r) % k
RingSlot(hash, p, r, k) == (hash + p + r) % k
AssignReplicas(nodes, hash, p, rf) ==
    [r \in 1 .. rf |->
        CHOOSE id \in nodes :
            Rank(nodes, id) = RingSlot(hash, p, r - 1, Cardinality(nodes))]
ReplicaNodes(nodes, hash, p, rf) == {AssignReplicas(nodes, hash, p, rf)[r] : r \in 1 .. rf}

=============================================================================

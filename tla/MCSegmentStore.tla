--------------------------- MODULE MCSegmentStore ---------------------------
(* Replicated logs of five batches over segments of six bytes: one that    *)
(* needs nearly the whole segment for small batches, and two that roll     *)
(* twice and once, with timestamps in order and out of order.              *)
EXTENDS SegmentStore

(* Batches with one record or two, alternating.                            *)
LogOf(size, stamp) ==
    [i \in DOMAIN size |->
        [base |-> 3 * ((i - 1) \div 2) + ((i - 1) % 2),
         n |-> 2 - (i % 2), len |-> size[i], ts |-> stamp[i]]]

MCLog == {LogOf(<<1, 1, 1, 1, 1>>, <<1, 2, 2, 3, 3>>),
          LogOf(<<3, 3, 2, 4, 1>>, <<1, 2, 2, 3, 4>>),
          LogOf(<<2, 1, 2, 1, 1>>, <<3, 2, 4, 1, 3>>)}

=============================================================================

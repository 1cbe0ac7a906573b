-------------------------- MODULE MCConsumerClient --------------------------
(* A calm environment, in which only JoinGroup itself fails, and rough     *)
(* ones: joinGroup fails half way, Fetch fails, retention removes records. *)
EXTENDS ConsumerClient

Calm == [calm |-> TRUE, joins |-> 1, joinFails |-> 1, initFails |-> 0,
         pollFails |-> 0, removed |-> 0]
Rough == [Calm EXCEPT !.calm = FALSE, !.joinFails = 0]
MCSetting == {Calm, [Rough EXCEPT !.initFails = 1], [Rough EXCEPT !.pollFails = 1],
              [Rough EXCEPT !.removed = 1]}
=============================================================================

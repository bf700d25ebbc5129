---------------------------- MODULE MCNodeSync ----------------------------
(* Instances of NodeSync: node na connects to nb and to nc.                *)
EXTENDS NodeSync
CONSTANTS na, nb, nc

Star == {<<na, nb>>, <<na, nc>>}

\* One chain of three blocks; nb and nc have all of it, na has none.
Line == <<0, 1, 2>>
HeadsLine == [n \in Nodes |-> IF n = na THEN 0 ELSE 3]

\* Two blocks after the first; nc has one of them, nb may produce the other.
Twigs == <<0, 1, 1>>
HeadsTwigs == [n \in Nodes |-> CASE n = na -> 0 [] n = nb -> 1 [] n = nc -> 3]

NoPairs == {}
MintsB == {<<nb, 2>>}
TrxsB == {<<nb, 101>>}
===========================================================================

---------------------------- MODULE MCPartitions ----------------------------
(* An instance of Partitions: tables of two entries; an MBR and at most two *)
(* extended tables, whose chain ends, breaks off or comes back.             *)
EXTENDS Partitions, TLC

E(k, s) == Entry(k, s)
None == E("none", 0)
Active == [E("data", 5) EXCEPT !.active = TRUE]
Mbrs == {<<Active, E("ext", 10)>>, <<E("bsd", 6), E("ext", 10)>>, <<E("ext", 10), Active>>}
Logical == {None, E("data", 5), E("ext", 1)}
Ends == {<<E("data", 5), None>>, <<E("data", 5), E("data", 6)>>, <<E("data", 5), E("ext", 0)>>,
         <<None, E("ext", 3)>>}
MCDisks ==
  {0 :> m @@ 10 :> <<c, d>> @@ 11 :> l : m \in Mbrs, c \in Logical, d \in Logical, l \in Ends}
  \cup {0 :> <<Active, E("bsd", 6)>> @@ 10 :> <<E("data", 5), None>>}
MCLabel == <<FALSE, TRUE>>
=============================================================================

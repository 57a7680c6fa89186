--------------------------- MODULE MCRelationStore ---------------------------
(***************************************************************************)
(* An instance of RelationStore for TLC: on the first date the stock is     *)
(* listed under two names of one topic, on the second under one of them    *)
(* and the name of another topic.                                          *)
(***************************************************************************)
EXTENDS RelationStore, TLC

CONSTANTS chips, wafers, robots, chip, robot

MCNames == {chips, wafers, robots}
MCTopics == {chip, robot}
MCNormalized == [n \in MCNames |-> IF n = robots THEN robot ELSE chip]
MCListed == [d \in Dates |-> IF d = 1 THEN {chips, wafers} ELSE {chips, robots}]

\* Every client may make every call.
MCSymmetry == Permutations(Clients)
===============================================================================

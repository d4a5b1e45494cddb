---------------------------- MODULE MCPlayerQueue ----------------------------
(* Instances of PlayerQueue for TLC. *)
EXTENDS PlayerQueue

(* The first command of the region thread finds no node. *)
RegionFails == {<<"region", 1>>}

=============================================================================

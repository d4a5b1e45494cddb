--------------------------- MODULE MCSwitchWatcher ---------------------------
(* Instances of SwitchWatcher for TLC. *)
EXTENDS SwitchWatcher

Tags == <<"lift1", "lift2", "lift3">>

=============================================================================

--------------------------- MODULE MCXmdsScheduler ---------------------------
(* Instances of XmdsScheduler for TLC. *)
EXTENDS XmdsScheduler

E(l, f, t, p) == [id |-> l, from |-> f, to |-> t, priority |-> p]

(* Version 1: an ordinary layout that has priority in the first time unit, *)
(* one shown in a lift as well, and one with priority in the third.        *)
(* Version 2: a layout with a media type that has no plugin.               *)
(* Version 3: a layout with a date that cannot be parsed.                  *)
AllEntries ==
    <<
      <<E("a", 0, 9, 0), E("b", 0, 9, 0), E("a", 0, 2, 1),
        E("p", 2, 9, 1)>>,
      <<E("b", 0, 9, 0), E("z", 0, 9, 0)>>,
      <<E("b", Bad, 9, 0)>>
    >>

AllTags ==
    [l \in {"a", "b", "p", "d", "z"} |->
       IF l = "b" THEN {"default", "lift"} ELSE {"default"}]

=============================================================================

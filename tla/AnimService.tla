----------------------------- MODULE AnimService -----------------------------
(* What a frame owes libavg's animations: between the timers and the         *)
(* rendering every animation that is running takes one step, and one that    *)
(* has stopped, whoever stopped it, takes none.                              *)
EXTENDS Sequences, SequencesExt

CONSTANTS Anims

VARIABLES running,     \* the animations that run
          owed,        \* those that still have to take their step of this frame
          starting     \* those whose start callbacks run, the innermost last

vars == <<running, owed, starting>>

Init == running = {} /\ owed = {} /\ starting = <<>>

(* An animation started while the steps are taken gets its first one as well. *)
StartAnim(a) == /\ a \notin running
                /\ running' = running \union {a}
                /\ owed' \in {owed, owed \union {a}}
                /\ starting' = Append(starting, a)

(* The first step, which may be the last one.                                *)
FirstStep(a) == /\ starting # <<>>
                /\ a = Last(starting)
                /\ a \in running
                /\ starting' = Front(starting)
                /\ \/ UNCHANGED <<running, owed>>
                   \/ running' = running \ {a} /\ owed' = owed \ {a}

AbortAnim(a) == /\ running' = running \ {a}
                /\ owed' = owed \ {a}
                /\ UNCHANGED starting

Begin == /\ owed = {}
         /\ owed' = running
         /\ UNCHANGED <<running, starting>>

(* The step may be the last one.                                             *)
Step(a) == /\ a \in owed
           /\ a \in running
           /\ owed' = owed \ {a}
           /\ running' \in {running, running \ {a}}
           /\ UNCHANGED starting

PlaybackEnd == /\ owed = {}
               /\ running' = {}
               /\ UNCHANGED <<owed, starting>>

Next == \/ \E a \in Anims : StartAnim(a) \/ FirstStep(a) \/ AbortAnim(a) \/ Step(a)
        \/ Begin \/ PlaybackEnd

Spec == Init /\ [][Next]_vars
=============================================================================

----------------------------- MODULE LayoutLife -----------------------------
(***************************************************************************)
(* What a layout promises to the display manager: its regions leave the    *)
(* screen one by one, and when the last has left, and nobody holds the     *)
(* layout on the screen, it asks for the next layout, exactly once.        *)
(***************************************************************************)
EXTENDS Naturals

CONSTANTS
    Region,   \* the regions of the layout
    Splash    \* whether the layout may start on hold

VARIABLES
    on,       \* regions still on the screen
    held,     \* the layout must stay until it is told otherwise
    asked     \* how often the layout asked for its successor

Init ==
    /\ on = Region
    /\ held \in BOOLEAN
    /\ held => Splash
    /\ asked = 0

Leave(r) ==
    /\ on' = on \ {r}
    /\ UNCHANGED <<held, asked>>

LetGo ==
    /\ held' = FALSE
    /\ UNCHANGED <<on, asked>>

AskNext ==
    /\ on = {}
    /\ ~held
    /\ asked = 0
    /\ asked' = 1
    /\ UNCHANGED <<on, held>>

Next == (\E r \in Region : Leave(r)) \/ LetGo \/ AskNext

Spec == Init /\ [][Next]_<<on, held, asked>>

=============================================================================

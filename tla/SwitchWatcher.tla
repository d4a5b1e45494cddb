---------------------------- MODULE SwitchWatcher ----------------------------
(***************************************************************************)
(* SwitchWatcher polls the lift switches, four on each serial port.  A     *)
(* lift that stays up for a few polls sets the scheduler's tag and has the *)
(* current layout disposed; one that stays down gives the screen back to   *)
(* the lift that came up before it and still is.  The display manager's    *)
(* hand-over from layout to layout runs beside it, in other threads.       *)
(***************************************************************************)
EXTENDS Integers, Sequences, FiniteSets, FiniteSetsExt

CONSTANTS
    NumLifts,     \* switches on the ports that could be opened
    Trigger,      \* polls that a switch must agree before it counts
    TagOf,        \* lift -> tag
    DefaultTag,   \* LiftTags.default of the configuration
    SchedulerTag, \* the one the scheduler starts with
    NoTag,        \* the splash layout is chosen by no tag
    Exits,        \* what may come of disposing of a layout, see exit
    MaxFlips      \* bound on the changes of all switches

Lift == 1 .. NumLifts
NoLift == 0

ASSUME SwitchAssumption ==
    /\ {NumLifts, Trigger} \subseteq Nat \ {0} /\ MaxFlips \in Nat
    /\ "handsOver" \in Exits /\ Exits \subseteq {"handsOver", "raises", "silent"}
    /\ DOMAIN TagOf = Lift

VARIABLES
    up, flips,                               \* the switches
    pc, state, liftHistory, activeLift, offFlag, liftStack,     \* run()
    validTag,                                \* of the scheduler
    phase, chosen, shown,                    \* the display manager's layouts
    exit,     \* of the current layout: do its regions get disposed, does one's
              \* dispose() raise, does an exit transition never report back?
    clash,    \* history: have two lifts come up in one poll?
    tagged    \* history: has run() changed the scheduler's tag?

switches == <<up, flips>>
watcher == <<pc, state, liftHistory, activeLift, offFlag, liftStack>>
display == <<phase, chosen, shown, exit>>
history == <<clash, tagged>>
vars == <<switches, watcher, validTag, display, history>>

Init ==
    /\ up = [l \in Lift |-> FALSE] /\ flips = 0
    /\ pc = "poll"
    /\ state = [l \in Lift |-> FALSE]
    /\ liftHistory = [l \in Lift |-> 0]
    /\ activeLift = NoLift /\ offFlag = FALSE /\ liftStack = <<>>
    /\ validTag = SchedulerTag
    /\ phase = "held" /\ chosen = NoTag /\ shown = NoTag /\ exit = "handsOver"
    /\ clash = FALSE /\ tagged = FALSE

Flip ==
    /\ flips < MaxFlips
    /\ flips' = flips + 1
    /\ \E l \in Lift : up' = [up EXCEPT ![l] = ~@]
    /\ UNCHANGED <<watcher, validTag, display, history>>

-----------------------------------------------------------------------------
(* run().                                                                  *)

(* A poll that finds a switch as it was counted leaves its count alone.    *)
Counted(l) ==
    IF up[l] = state[l] THEN liftHistory[l]
    ELSE IF up[l] THEN Min({liftHistory[l] + 1, Trigger})
    ELSE Max({liftHistory[l] - 1, 0})

Raised == { l \in Lift : up[l] /\ ~state[l] /\ Counted(l) = Trigger }
Lowered == { l \in Lift : ~up[l] /\ state[l] /\ Counted(l) = 0 }

StateAfter(l) == l \in Raised \/ (l \notin Lowered /\ state[l])

Poll ==
    /\ pc = "poll"
    /\ liftHistory' = [l \in Lift |-> Counted(l)]
    /\ state' = [l \in Lift |-> StateAfter(l)]
    /\ activeLift' = IF Raised = {} THEN NoLift ELSE Max(Raised)
    /\ offFlag' = (Lowered # {})
    /\ pc' = IF Raised # {} THEN "raise" ELSE IF Lowered # {} THEN "lower" ELSE "poll"
    /\ clash' = (clash \/ Cardinality(Raised) > 1)
    /\ UNCHANGED <<switches, liftStack, validTag, display, tagged>>

Raise ==
    /\ pc = "raise"
    /\ validTag' = TagOf[activeLift]
    /\ liftStack' = Append(liftStack, activeLift)
    /\ pc' = "disposeRaised"
    /\ tagged' = TRUE
    /\ UNCHANGED <<switches, state, liftHistory, activeLift, offFlag, display, clash>>

(* currentLM.dispose(): the held layout, one that is on its way out, or    *)
(* whose place the next one is about to take, takes no notice; one that is *)
(* still being built may or may not, as its regions so far are disposed.   *)
(* An exception ends the thread, and the region that raised it, like the   *)
(* one whose exit transition is silent, is never disposed: regionDisposed()*)
(* goes on waiting for it, and the layout stays.  The hand-over that       *)
(* dispose() may go through to before it returns is that of Display.       *)
Disposed == IF exit = "handsOver" THEN {"ending"} ELSE {"showing"}

DisposeCurrent(to) ==
    /\ \/ pc' = to /\ ~ (exit = "raises" /\ phase = "showing")
       \/ pc' = "dead" /\ exit = "raises"
    /\ phase' \in CASE phase = "showing"  -> Disposed
                    [] phase = "building" -> {"building", "ending"}
                    [] OTHER              -> {phase}
    /\ UNCHANGED <<chosen, shown, exit>>

DisposeRaised ==
    /\ pc = "disposeRaised"
    /\ DisposeCurrent(IF offFlag THEN "lower" ELSE "poll")
    /\ UNCHANGED <<switches, state, liftHistory, activeLift, offFlag, liftStack,
                   validTag, history>>

AllOff ==
    /\ pc = "lower"
    /\ \A l \in Lift : ~state[l]
    /\ liftStack' = <<>>
    /\ validTag' = DefaultTag
    /\ tagged' = TRUE
    /\ pc' = "disposeLowered"
    /\ UNCHANGED <<switches, state, liftHistory, activeLift, offFlag, display, clash>>

(* Take lifts off the stack until one is still up. *)
StillUp_Any == { i \in DOMAIN liftStack : i = Len(liftStack) }
StillUp == { i \in DOMAIN liftStack : state[liftStack[i]] }

BackToLast ==
    /\ pc = "lower"
    /\ \E l \in Lift : state[l]
    /\ IF StillUp = {}
       THEN /\ liftStack' = <<>>
            /\ pc' = "poll"
            /\ UNCHANGED <<validTag, tagged>>
       ELSE /\ liftStack' = SubSeq(liftStack, 1, Max(StillUp))
            /\ validTag' = TagOf[liftStack[Max(StillUp)]]
            /\ pc' = IF validTag' = validTag THEN "poll" ELSE "disposeLowered"
            /\ tagged' = (tagged \/ validTag' # validTag)
    /\ UNCHANGED <<switches, state, liftHistory, activeLift, offFlag, display, clash>>

DisposeLowered ==
    /\ pc = "disposeLowered"
    /\ DisposeCurrent("poll")
    /\ UNCHANGED <<switches, state, liftHistory, activeLift, offFlag, liftStack,
                   validTag, history>>

-----------------------------------------------------------------------------
(* The display manager: the splash layout is held until the display is     *)
(* registered; each layout ends by itself or is disposed, the next one is  *)
(* chosen by tag, takes its place as currentLM and is built.               *)

(* What was disposed of while it was held hands over now. *)
Release ==
    /\ phase = "held"
    /\ phase' \in {"showing", "ending"}
    /\ UNCHANGED <<switches, watcher, validTag, chosen, shown, exit, history>>

(* A layout that expires disposes of its regions, too. *)
Expire ==
    /\ phase = "showing" /\ exit = "handsOver"
    /\ phase' = "ending"
    /\ UNCHANGED <<switches, watcher, validTag, chosen, shown, exit, history>>

Choice_Same == shown
Choice == validTag

Choose ==
    /\ phase = "ending"
    /\ chosen' = Choice
    /\ phase' = "chosen"
    /\ UNCHANGED <<switches, watcher, validTag, shown, exit, history>>

Replace ==
    /\ phase = "chosen"
    /\ shown' = chosen
    /\ phase' = "building"
    /\ exit' \in Exits
    /\ UNCHANGED <<switches, watcher, validTag, chosen, history>>

(* A layout without a background colour hands over without being shown. *)
Built ==
    /\ phase = "building"
    /\ phase' \in {"showing", "ending"}
    /\ UNCHANGED <<switches, watcher, validTag, chosen, shown, exit, history>>

-----------------------------------------------------------------------------

WatcherStep ==
    Poll \/ Raise \/ DisposeRaised \/ AllOff \/ BackToLast \/ DisposeLowered

Display == Release \/ Expire \/ Choose \/ Replace \/ Built

Next == Flip \/ WatcherStep \/ Display

Spec == Init /\ [][Next]_vars

(* Both threads run on, the display is registered in the end, and every    *)
(* layout whose regions can be disposed ends by itself.                    *)
FairSpec == Spec /\ WF_vars(WatcherStep) /\ WF_vars(Display)

-----------------------------------------------------------------------------
(* Properties.                                                             *)

(* The type invariant; a count agrees with the state it leads to or left. *)
TypeOK ==
    /\ up \in [Lift -> BOOLEAN] /\ flips \in 0 .. MaxFlips
    /\ pc \in {"poll", "raise", "disposeRaised", "lower", "disposeLowered",
               "dead"}
    /\ state \in [Lift -> BOOLEAN] /\ liftHistory \in [Lift -> 0 .. Trigger]
    /\ \A l \in Lift : IF state[l] THEN liftHistory[l] > 0 ELSE liftHistory[l] < Trigger
    /\ activeLift \in Lift \cup {NoLift} /\ offFlag \in BOOLEAN
    /\ liftStack \in Seq(Lift)
    /\ {validTag, chosen, shown}
         \subseteq { TagOf[l] : l \in Lift } \cup {DefaultTag, SchedulerTag, NoTag}
    /\ phase \in {"held", "showing", "ending", "chosen", "building"} /\ exit \in Exits
    /\ {clash, tagged} \subseteq BOOLEAN

(* Between two polls the scheduler's tag is that of a lift that is up, and *)
(* the default one only when none is, whatever the order they came and     *)
(* went in; until a lift first comes up, it is the one the scheduler       *)
(* started with.  It is not so once two lifts have come up in the same     *)
(* poll: only one of them gets on the stack.                               *)
TagIsUp ==
    pc = "poll" /\ ~clash =>
        IF \A l \in Lift : ~state[l]
        THEN validTag = IF tagged THEN DefaultTag ELSE SchedulerTag
        ELSE \E l \in Lift : state[l] /\ validTag = TagOf[l]

(* A layout on the screen of which a region can never be disposed. *)
Stays == phase = "showing" /\ exit # "handsOver"

(* When the switches come to rest, the screen ends up with a layout of the *)
(* scheduler's tag, although a dispose() that meets the hand-over is lost, *)
(* unless a layout gets there that stays for ever because the dispose() of *)
(* one of its regions raises or an exit transition of it is silent.        *)
Follows == <>[](shown = validTag \/ Stays)

=============================================================================

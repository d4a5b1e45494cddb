----------------------------- MODULE TouchInput -----------------------------
(* Touches, from the TUIO packets to the nodes: TUIOInputDevice's thread     *)
(* keeps a TouchStatus per finger and the events not yet polled, under the   *)
(* device's mutex; the player's thread polls once per frame, keeps a Contact *)
(* and a CursorState per cursor, and calls listeners and nodes, whose        *)
(* handlers may connect, disconnect and delete.  Packets are UDP: any of     *)
(* them may be lost, repeated or late.  A message or a poll is one step, a   *)
(* callback is a state.  Event capture, the mouse and the event hook are     *)
(* left out; of positions it matters only whether a finger has moved.        *)
(* Cursors are given out in ascending order: the touches, and the events     *)
(* polled from them, are maps that the code goes through in that order.      *)
EXTENDS Naturals, Sequences, FiniteSets, FiniteSetsExt
CONSTANTS TUIOIDs,       \* identifiers the tracker gives to fingers, and gives again
          Nodes,         \* nodes that may be under a cursor
          MaxTouches,    \* bound of the model: touches in all
          MaxListeners   \* bound of the model: listeners connected in all

ASSUME TouchAssumption == /\ MaxTouches \in Nat /\ MaxListeners \in Nat

VARIABLES m_TouchIDMap,         \* the cursors of the fingers that are down, by identifier
          m_LastID,             \* cursors given out
          m_Touches,            \* the touches whose end has not been polled, by cursor
          mainPc,               \* the player's thread
          events,               \* the events polled and not handled, by cursor
          under,                \* nodes under the cursor of the event at hand
          fakes,                \* cursors that sendFakeEvents has yet to look at
          m_ContactMap,         \* the listeners of each contact, by cursor
          m_CurListenerID, m_bCurListenerIsDead,
          s_LastListenerID,
          m_pLastCursorStates,  \* the nodes under each cursor when it was last seen
          alive,                \* nodes that exist
          connected,            \* history: the listeners of each contact as its users see them
          over                  \* history: nodes told that a cursor is over them, and not out

device == <<m_TouchIDMap, m_LastID, m_Touches>>
listening == <<m_CurListenerID, m_bCurListenerIsDead>>
users == <<m_ContactMap, s_LastListenerID, connected>>
cursors == <<m_pLastCursorStates, over>>
touchVars == <<device, mainPc, events, under, fakes, users, listening, cursors, alive>>

Cursors == 1..MaxTouches
None == [c \in {} |-> {}]    \* a map without entries

TouchInit ==
    /\ m_TouchIDMap = None /\ m_LastID = 0 /\ m_Touches = None
    /\ mainPc = "idle" /\ events = None /\ under = {} /\ fakes = {}
    /\ m_ContactMap = None /\ m_CurListenerID = 0 /\ m_bCurListenerIsDead = FALSE
    /\ s_LastListenerID = 0
    /\ m_pLastCursorStates = None /\ alive = Nodes
    /\ connected = None /\ over = [c \in Cursors |-> {}]

With(f, x, e) == [y \in DOMAIN f \cup {x} |-> IF y = x THEN e ELSE f[y]]
Without(f, x) == [y \in DOMAIN f \ {x} |-> f[y]]

----------------------------------------------------------------------------
(* The device's thread *)

\* Mutant: an end in the first frame takes the place of the beginning.
PushEvent_LastOnly(t, new) ==
    [t EXCEPT !.new = IF t.first /\ new # "CURSORUP" THEN t.new ELSE <<new>>]

\* TouchStatus::pushEvent: at most one event waits to be polled, the last one,
\* but for a touch that begins and ends between two polls.
PushEvent(t, new) ==
    [t EXCEPT !.new = CASE ~t.first -> <<new>>
                        [] t.first /\ new = "CURSORUP" -> Append(t.new, new)
                        [] OTHER -> t.new]

\* The touches of the cursors in cs get an event.
PushAll(cs, new) ==
    m_Touches' = [c \in DOMAIN m_Touches |->
                     IF c \in cs THEN PushEvent(m_Touches[c], new) ELSE m_Touches[c]]

MainUnchanged == UNCHANGED <<mainPc, events, under, fakes, users, listening, cursors, alive>>

\* processSet: an unknown identifier is a new touch.
FingerDown(id) ==
    /\ id \notin DOMAIN m_TouchIDMap /\ m_LastID < MaxTouches
    /\ m_LastID' = m_LastID + 1
    /\ m_TouchIDMap' = With(m_TouchIDMap, id, m_LastID')
    /\ m_Touches' = With(m_Touches, m_LastID', [first |-> TRUE, new |-> <<"CURSORDOWN">>])
    /\ MainUnchanged

\* processSet: a known one is a motion, if the finger has moved.
FingerMoves(id) ==
    /\ id \in DOMAIN m_TouchIDMap
    /\ PushAll({m_TouchIDMap[id]}, "CURSORMOTION")
    /\ UNCHANGED <<m_TouchIDMap, m_LastID>> /\ MainUnchanged

\* processAlive: what is not in the packet has been lifted.
ProcessAlive(live) ==
    /\ ~(DOMAIN m_TouchIDMap \subseteq live)
    /\ PushAll({m_TouchIDMap[id]: id \in DOMAIN m_TouchIDMap \ live}, "CURSORUP")
    /\ m_TouchIDMap' = [id \in DOMAIN m_TouchIDMap \cap live |-> m_TouchIDMap[id]]
    /\ UNCHANGED m_LastID /\ MainUnchanged

----------------------------------------------------------------------------
(* The player's thread: polling *)

\* TouchStatus::pollEvent
PolledTouch(t) == IF t.new = <<>> THEN t
                  ELSE [t EXCEPT !.new = Tail(t.new), !.first = FALSE]

\* dispatch polls all touches; those whose end is polled are forgotten.
PollEvents ==
    /\ mainPc = "idle"
    /\ LET polled == {c \in DOMAIN m_Touches: m_Touches[c].new # <<>>}
           ended == {c \in polled: Head(m_Touches[c].new) = "CURSORUP"}
       IN  /\ events' = [c \in polled |-> Head(m_Touches[c].new)]
           /\ m_Touches' = [c \in DOMAIN m_Touches \ ended |-> PolledTouch(m_Touches[c])]
    /\ mainPc' = "dispatch"
    /\ UNCHANGED <<m_TouchIDMap, m_LastID, under, fakes, users, listening, cursors, alive>>

----------------------------------------------------------------------------
(* The player's thread: an event *)

\* The event at hand.
cursor == Min(DOMAIN events)
type == events[cursor]

\* Contact::hasListeners
HasListeners(c) == /\ m_ContactMap[c] # {}
                   /\ ~(Cardinality(m_ContactMap[c]) = 1 /\ m_bCurListenerIsDead)

\* testAddContact, and the beginning of handleCursorEvent: the nodes under the
\* cursor are wherever the application has put them by now.
HandleEvent ==
    /\ mainPc = "dispatch" /\ events # None
    /\ under' \in SUBSET alive
    /\ IF type = "CURSORDOWN"
       THEN /\ m_ContactMap' = With(m_ContactMap, cursor, {})
            /\ connected' = With(connected, cursor, {})
            /\ mainPc' = "over"
       ELSE /\ UNCHANGED <<m_ContactMap, connected>>
            /\ mainPc' = IF HasListeners(cursor) THEN "listen" ELSE "over"
    /\ UNCHANGED <<device, events, fakes, s_LastListenerID, listening, cursors, alive>>

\* sendEventToListeners: the listeners are called in the order of their
\* identifiers, also those connected meanwhile.
Later == {id \in m_ContactMap[cursor]: id > m_CurListenerID}

CallListener ==
    /\ mainPc = "listen" /\ Later # {}
    /\ m_CurListenerID' = Min(Later) /\ m_bCurListenerIsDead' = FALSE
    /\ mainPc' = "callback"
    /\ UNCHANGED <<device, events, under, fakes, users, cursors, alive>>

\* Mutant: the listener that disconnected itself stays in the map.
ListenerReturns_Keep ==
    /\ mainPc = "callback"
    /\ m_bCurListenerIsDead' = FALSE /\ mainPc' = "listen"
    /\ UNCHANGED <<device, events, under, fakes, users, m_CurListenerID, cursors, alive>>

\* One that disconnected itself is erased when its callback has returned.
ListenerReturns ==
    /\ mainPc = "callback"
    /\ m_ContactMap' = [m_ContactMap EXCEPT ![cursor] =
                            IF m_bCurListenerIsDead THEN @ \ {m_CurListenerID} ELSE @]
    /\ m_bCurListenerIsDead' = FALSE /\ mainPc' = "listen"
    /\ UNCHANGED <<device, events, under, fakes, s_LastListenerID, connected, m_CurListenerID,
                   cursors, alive>>

ListenersDone ==
    /\ mainPc = "listen" /\ Later = {}
    /\ m_CurListenerID' = 0 /\ mainPc' = "over"
    /\ UNCHANGED <<device, events, under, fakes, users, m_bCurListenerIsDead, cursors, alive>>

LastNodes(c) == IF c \in DOMAIN m_pLastCursorStates THEN m_pLastCursorStates[c] ELSE {}

\* CURSOROUT to the nodes left and CURSOROVER to the nodes entered, as far as
\* they still exist.
SendOver(c, nodes) ==
    over' = [over EXCEPT ![c] = (@ \ (LastNodes(c) \ nodes)) \cup ((nodes \ LastNodes(c)) \cap alive)]

SendOverEvents ==
    /\ mainPc = "over"
    /\ SendOver(cursor, under)
    /\ mainPc' = "deliver"
    /\ UNCHANGED <<device, events, under, fakes, users, listening, m_pLastCursorStates, alive>>

\* Mutant: no CURSOROUT when the cursor disappears.
EventDone_NoOut ==
    /\ mainPc = "deliver"
    /\ IF type = "CURSORUP"
       THEN /\ m_pLastCursorStates' = Without(m_pLastCursorStates, cursor)
            /\ m_ContactMap' = Without(m_ContactMap, cursor)
            /\ connected' = Without(connected, cursor)
            /\ UNCHANGED over
       ELSE /\ m_pLastCursorStates' = With(m_pLastCursorStates, cursor, under)
            /\ UNCHANGED <<over, m_ContactMap, connected>>
    /\ events' = Without(events, cursor) /\ under' = {} /\ mainPc' = "dispatch"
    /\ UNCHANGED <<device, fakes, s_LastListenerID, listening, alive>>

\* Mutant: the CursorState of a cursor that has disappeared is kept.
EventDone_KeepState ==
    /\ mainPc = "deliver"
    /\ IF type = "CURSORUP"
       THEN /\ over' = [over EXCEPT ![cursor] = @ \ under]
            /\ m_ContactMap' = Without(m_ContactMap, cursor)
            /\ connected' = Without(connected, cursor)
            /\ UNCHANGED m_pLastCursorStates
       ELSE /\ m_pLastCursorStates' = With(m_pLastCursorStates, cursor, under)
            /\ UNCHANGED <<over, m_ContactMap, connected>>
    /\ events' = Without(events, cursor) /\ under' = {} /\ mainPc' = "dispatch"
    /\ UNCHANGED <<device, fakes, s_LastListenerID, listening, alive>>

\* The end of handleCursorEvent, when the nodes have handled the event, and
\* testRemoveContact.
EventDone ==
    /\ mainPc = "deliver"
    /\ IF type = "CURSORUP"
       THEN /\ over' = [over EXCEPT ![cursor] = @ \ under]
            /\ m_pLastCursorStates' = Without(m_pLastCursorStates, cursor)
            /\ m_ContactMap' = Without(m_ContactMap, cursor)
            /\ connected' = Without(connected, cursor)
       ELSE /\ m_pLastCursorStates' = With(m_pLastCursorStates, cursor, under)
            /\ UNCHANGED <<over, m_ContactMap, connected>>
    /\ events' = Without(events, cursor) /\ under' = {} /\ mainPc' = "dispatch"
    /\ UNCHANGED <<device, fakes, s_LastListenerID, listening, alive>>

\* sendFakeEvents: nodes may have come or gone below a cursor that rests.
FakeEventsBegin ==
    /\ mainPc = "dispatch" /\ events = None
    /\ fakes' = DOMAIN m_pLastCursorStates /\ mainPc' = "fake"
    /\ UNCHANGED <<device, events, under, users, listening, cursors, alive>>

SendFakeEvent ==
    /\ mainPc = "fake" /\ fakes # {}
    /\ LET c == Min(fakes)
       IN  /\ fakes' = fakes \ {c}
           /\ \E nodes \in SUBSET alive:
                 /\ SendOver(c, nodes)
                 /\ m_pLastCursorStates' = [m_pLastCursorStates EXCEPT ![c] = nodes]
    /\ UNCHANGED <<device, mainPc, events, under, users, listening, alive>>

FrameDone ==
    /\ mainPc = "fake" /\ fakes = {}
    /\ mainPc' = "idle"
    /\ UNCHANGED <<device, events, under, fakes, users, listening, cursors, alive>>

----------------------------------------------------------------------------
(* What handlers do: at any callback, or between the frames *)

UserCode == mainPc \in {"idle", "callback", "deliver"}

ConnectListener(c) ==
    /\ UserCode /\ s_LastListenerID < MaxListeners
    /\ s_LastListenerID' = s_LastListenerID + 1
    /\ m_ContactMap' = [m_ContactMap EXCEPT ![c] = @ \cup {s_LastListenerID'}]
    /\ connected' = [connected EXCEPT ![c] = @ \cup {s_LastListenerID'}]
    /\ UNCHANGED <<device, mainPc, events, under, fakes, listening, cursors, alive>>

\* The listener being called is marked, any other is erased.
DisconnectListener(c, id) ==
    /\ UserCode /\ id \in connected[c]
    /\ connected' = [connected EXCEPT ![c] = @ \ {id}]
    /\ IF mainPc = "callback" /\ m_CurListenerID = id
       THEN m_bCurListenerIsDead' = TRUE /\ UNCHANGED m_ContactMap
       ELSE /\ m_ContactMap' = [m_ContactMap EXCEPT ![c] = @ \ {id}]
            /\ UNCHANGED m_bCurListenerIsDead
    /\ UNCHANGED <<device, mainPc, events, under, fakes, m_CurListenerID, s_LastListenerID,
                   cursors, alive>>

\* The last reference to a node is gone; lists of nodes hold weak pointers.
DeleteNode(n) ==
    /\ UserCode /\ n \in alive
    /\ alive' = alive \ {n}
    /\ over' = [c \in Cursors |-> over[c] \ {n}]
    /\ UNCHANGED <<device, mainPc, events, under, fakes, users, listening, m_pLastCursorStates>>

----------------------------------------------------------------------------
Player == \/ HandleEvent \/ CallListener \/ ListenerReturns \/ ListenersDone
          \/ SendOverEvents \/ EventDone \/ FakeEventsBegin \/ SendFakeEvent \/ FrameDone

TouchNext ==
    \/ \E id \in TUIOIDs: FingerDown(id) \/ FingerMoves(id)
    \/ \E live \in SUBSET TUIOIDs: ProcessAlive(live)
    \/ PollEvents \/ Player
    \/ \E c \in DOMAIN m_ContactMap:
          ConnectListener(c) \/ \E id \in connected[c]: DisconnectListener(c, id)
    \/ \E n \in Nodes: DeleteNode(n)

TouchSpec == TouchInit /\ [][TouchNext]_touchVars

\* The player draws frames without end, and callbacks return.
FairTouchSpec == TouchSpec /\ WF_touchVars(PollEvents) /\ WF_touchVars(Player)

----------------------------------------------------------------------------
(* Properties *)

BetweenEvents == mainPc \in {"idle", "dispatch", "fake"}

\* The finger of a cursor that was given out is no longer known to the device.
IsLifted(c) == c <= m_LastID /\ \A id \in DOMAIN m_TouchIDMap: m_TouchIDMap[id] # c

\* The events of a cursor on their way to the nodes.
Pipe(c) == (IF c \in DOMAIN events THEN <<events[c]>> ELSE <<>>)
               \o (IF c \in DOMAIN m_Touches THEN m_Touches[c].new ELSE <<>>)

\* Whatever packets come and get lost, a cursor is put down first and once, is
\* lifted last and once, and the end is on its way as soon as the finger is
\* gone: the assertions on contacts in EventDispatcher hold.
TouchesInOrder ==
    BetweenEvents => \A c \in Cursors:
        LET p == Pipe(c)
            known == c \in DOMAIN m_ContactMap
        IN  /\ p # <<>> /\ ~known => p[1] = "CURSORDOWN"
            /\ \A i \in DOMAIN p: /\ p[i] = "CURSORDOWN" => i = 1 /\ ~known
                                 /\ p[i] = "CURSORUP" => i = Len(p)
            /\ known \/ p # <<>> =>
                  ((\E i \in DOMAIN p: p[i] = "CURSORUP") <=> IsLifted(c))

\* Between events the nodes that were told of a cursor over them are those of
\* its CursorState, and no node is left with a cursor that is gone.
Paired == BetweenEvents =>
              \A c \in Cursors: over[c] = LastNodes(c) \cap alive

\* A listener is called only while it is connected, and all that are are called.
CallsConnected ==
    [][/\ CallListener => m_CurListenerID' \in connected[cursor]
       /\ SendOverEvents /\ type # "CURSORDOWN" =>
              m_ContactMap[cursor] = connected[cursor]]_touchVars

\* Every touch whose finger is gone disappears: contact, cursor state and all.
TouchesEnd ==
    \A c \in Cursors:
        IsLifted(c) ~> c \notin DOMAIN m_ContactMap \cup DOMAIN m_pLastCursorStates
=============================================================================

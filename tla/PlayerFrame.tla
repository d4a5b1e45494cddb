----------------------------- MODULE PlayerFrame -----------------------------
(* The frame of libavg's Player: its timers (handleTimers with its two       *)
(* lists), the scripts that run in callbacks and set and clear timers, start *)
(* and abort animations and stop the player meanwhile, and the Signal whose  *)
(* listeners are the running animations.  Everything is one thread: what     *)
(* makes it hard is that a callback changes the list that is being walked.   *)
(*                                                                           *)
(* Left out: what a callback or a failed assertion that raises does, the     *)
(* values the animations set, input events (TouchInput), videos (AsyncVideo). *)
EXTENDS Integers, Sequences, FiniteSets, SequencesExt

CONSTANTS Times,       \* the delays a script asks for
          Anims,       \* the animations of a script
          MaxTime,     \* bound: the display's clock
          MaxTimers,   \* bound: timers a script sets
          MaxScriptOps, \* bound: what scripts do in a run
          NoAnim

ASSUME PlayerFrameAssumption ==
  Times \subseteq Nat /\ MaxTime \in Nat /\ MaxTimers \in Nat /\ MaxScriptOps \in Nat
    /\ NoAnim \notin Anims

VARIABLES
  phase,                  \* where doFrame is: see Phases
  m_FrameTime, m_bStopping,
  m_PendingTimeouts,      \* sorted by the time of the next call
  m_NewTimeouts,          \* set, or to be called again, while timers are called
  m_bCurrentTimeoutDeleted,
  s_LastID,
  m_Listeners,            \* of the signal emitted before rendering
  it,                     \* the iterator of its emission, as an index
  m_pCurrentListener, m_bKillCurrentListener,
  m_bRunning,             \* the animations that run
  starting,               \* those whose start callbacks run, the innermost last
  scriptOps,              \* what scripts have done so far
  endedOwn                \* history: an animation was ended in a callback of its own

timerVars == <<m_PendingTimeouts, m_NewTimeouts, m_bCurrentTimeoutDeleted, s_LastID>>
signalVars == <<m_Listeners, it, m_pCurrentListener, m_bKillCurrentListener>>
animVars == <<m_bRunning, starting, endedOwn>>
frameVars == <<phase, m_FrameTime, m_bStopping, timerVars, signalVars, animVars, scriptOps>>

(* "off": no playback; "timers": the head of the loop in handleTimers;       *)
(* "timer", "events", "listener": a script runs; "signal": the head of emit. *)
Phases == {"off", "timers", "timer", "events", "signal", "listener"}

m_bInHandleTimers == phase \in {"timers", "timer"}

FrameInit ==
  /\ phase = "off"
  /\ m_FrameTime = 0
  /\ m_bStopping = FALSE
  /\ m_PendingTimeouts = <<>>
  /\ m_NewTimeouts = <<>>
  /\ m_bCurrentTimeoutDeleted = FALSE
  /\ s_LastID = 0
  /\ m_Listeners = <<>>
  /\ it = 1
  /\ m_pCurrentListener = NoAnim
  /\ m_bKillCurrentListener = FALSE
  /\ m_bRunning = {}
  /\ starting = <<>>
  /\ scriptOps = 0
  /\ endedOwn = FALSE

ScriptRuns == scriptOps < MaxScriptOps /\ scriptOps' = scriptOps + 1

-----------------------------------------------------------------------------
(* Timers.                                                                   *)

(* addTimeout: before the first timer that is not due earlier.               *)
AddTimeout(list, t) ==
  LET later == {i \in 1..Len(list) : ~(list[i].next < t.next)}
  IN  IF later = {} THEN Append(list, t)
      ELSE InsertAt(list, CHOOSE i \in later : \A j \in later : i <= j, t)

(* setTimeout and setInterval.                                               *)
SetTimeout ==
  /\ phase \in {"off", "timer", "events", "listener"}
  /\ s_LastID < MaxTimers
  /\ ScriptRuns
  /\ s_LastID' = s_LastID + 1
  /\ \E time \in Times, isInterval \in BOOLEAN :
       LET t == [id |-> s_LastID + 1, next |-> m_FrameTime + time,
                 interval |-> time, repeats |-> isInterval]
       IN  IF m_bInHandleTimers
           THEN /\ m_NewTimeouts' = Append(m_NewTimeouts, t)
                /\ UNCHANGED m_PendingTimeouts
           ELSE /\ m_PendingTimeouts' = AddTimeout(m_PendingTimeouts, t)
                /\ UNCHANGED m_NewTimeouts
  /\ UNCHANGED <<phase, m_FrameTime, m_bStopping, m_bCurrentTimeoutDeleted,
                 signalVars, animVars>>

(* clearInterval.                                                            *)
ClearInterval ==
  /\ phase \in {"off", "timer", "events", "listener"}
  /\ ScriptRuns
  /\ \/ \E i \in 1..Len(m_PendingTimeouts) :
          /\ m_PendingTimeouts' = RemoveAt(m_PendingTimeouts, i)
          /\ m_bCurrentTimeoutDeleted' =
               (m_bCurrentTimeoutDeleted \/ (i = 1 /\ m_bInHandleTimers))
          /\ UNCHANGED m_NewTimeouts
     \/ \E i \in 1..Len(m_NewTimeouts) :
          /\ m_NewTimeouts' = RemoveAt(m_NewTimeouts, i)
          /\ UNCHANGED <<m_PendingTimeouts, m_bCurrentTimeoutDeleted>>
  /\ UNCHANGED <<phase, m_FrameTime, m_bStopping, s_LastID, signalVars, animVars>>

IsReady == m_PendingTimeouts # <<>> /\ Head(m_PendingTimeouts).next <= m_FrameTime

(* fire: an interval has its next time before its callback runs.             *)
Fire ==
  /\ phase = "timers"
  /\ IsReady
  /\ ~m_bStopping
  /\ phase' = "timer"
  /\ m_PendingTimeouts' =
       IF Head(m_PendingTimeouts).repeats
       THEN [m_PendingTimeouts EXCEPT ![1].next = m_FrameTime + Head(m_PendingTimeouts).interval]
       ELSE m_PendingTimeouts
  /\ UNCHANGED <<m_FrameTime, m_bStopping, m_NewTimeouts, m_bCurrentTimeoutDeleted,
                 s_LastID, signalVars, animVars, scriptOps>>

(* A mutant: the interval goes back to the list the loop is walking.         *)
FireReturns_ToPending ==
  /\ phase = "timer"
  /\ starting = <<>>
  /\ phase' = "timers"
  /\ m_bCurrentTimeoutDeleted' = FALSE
  /\ m_PendingTimeouts' =
       IF m_bCurrentTimeoutDeleted THEN m_PendingTimeouts
       ELSE IF Head(m_PendingTimeouts).repeats
       THEN AddTimeout(Tail(m_PendingTimeouts), Head(m_PendingTimeouts))
       ELSE Tail(m_PendingTimeouts)
  /\ UNCHANGED <<m_FrameTime, m_bStopping, m_NewTimeouts, s_LastID, signalVars,
                 animVars, scriptOps>>

(* The rest of the loop's body, when the callback has returned.              *)
FireReturns ==
  /\ phase = "timer"
  /\ starting = <<>>
  /\ phase' = "timers"
  /\ m_bCurrentTimeoutDeleted' = FALSE
  /\ IF m_bCurrentTimeoutDeleted
     THEN UNCHANGED <<m_PendingTimeouts, m_NewTimeouts>>
     ELSE LET t == Head(m_PendingTimeouts)
          IN  /\ m_PendingTimeouts' = Tail(m_PendingTimeouts)
              /\ m_NewTimeouts' = IF t.repeats THEN <<t>> \o m_NewTimeouts
                                  ELSE m_NewTimeouts
  /\ UNCHANGED <<m_FrameTime, m_bStopping, s_LastID, signalVars, animVars, scriptOps>>

(* The new timers enter the pending ones, one after the other.               *)
Merge(list, new) ==
  LET merged[n \in 0..Len(new)] ==
        IF n = 0 THEN list ELSE AddTimeout(merged[n - 1], new[n])
  IN  merged[Len(new)]

(* The end of handleTimers; then input events are dispatched.                *)
TimersDone ==
  /\ phase = "timers"
  /\ ~IsReady \/ m_bStopping
  /\ phase' = "events"
  /\ m_PendingTimeouts' = Merge(m_PendingTimeouts, m_NewTimeouts)
  /\ m_NewTimeouts' = <<>>
  /\ UNCHANGED <<m_FrameTime, m_bStopping, m_bCurrentTimeoutDeleted, s_LastID,
                 signalVars, animVars, scriptOps>>

-----------------------------------------------------------------------------
(* The signal and its listeners.                                             *)

IndexOf(a) == CHOOSE i \in 1..Len(m_Listeners) :
                m_Listeners[i] = a /\ \A j \in 1..(i - 1) : m_Listeners[j] # a

(* A mutant: the listener that is being called is erased at once.            *)
Disconnect_AtOnce(a, current) ==
  /\ m_Listeners' = RemoveAt(m_Listeners, IndexOf(a))
  /\ it' = IF phase \in {"signal", "listener"} /\ IndexOf(a) < it THEN it - 1 ELSE it
  /\ UNCHANGED m_bKillCurrentListener

(* disconnect, with the listener whose call is in progress.  Erasing another *)
(* element of a std::list leaves the iterator on its element.                *)
Disconnect(a, current) ==
  IF a = current
  THEN /\ m_bKillCurrentListener' = TRUE
       /\ UNCHANGED <<m_Listeners, it>>
  ELSE /\ m_Listeners' = RemoveAt(m_Listeners, IndexOf(a))
       /\ it' = IF phase \in {"signal", "listener"} /\ IndexOf(a) < it THEN it - 1 ELSE it
       /\ UNCHANGED m_bKillCurrentListener

(* The animation has ended in the emission's call, which is in progress.     *)
Ending(a) == a = m_pCurrentListener /\ m_bKillCurrentListener

(* Anim::start, up to the start callback, in which the script goes on.  An   *)
(* animation that runs cannot be started, nor, by connect's assertion, one   *)
(* that is in the list, unless it is being erased from there.                *)
StartAnim(a) ==
  /\ phase \in {"timer", "events", "listener"}
  /\ ScriptRuns
  /\ a \notin m_bRunning
  /\ a \in ToSet(m_Listeners) => Ending(a)
  /\ m_bRunning' = m_bRunning \union {a}
  /\ m_Listeners' = Append(m_Listeners, a)
  /\ starting' = Append(starting, a)
  /\ UNCHANGED <<phase, m_FrameTime, m_bStopping, timerVars, it, m_pCurrentListener,
                 m_bKillCurrentListener, endedOwn>>

(* remove, with the start callbacks that go on: the animation ends inside a  *)
(* start callback of its own, or, started again there, inside its stop       *)
(* callback, where disconnect only sets the flag that is set already.        *)
RemoveAnim(a, callbacks) ==
  /\ m_bRunning' = m_bRunning \ {a}
  /\ Disconnect(a, m_pCurrentListener)
  /\ endedOwn' = (endedOwn \/ a \in ToSet(callbacks) \/ Ending(a))

(* The rest of SimpleAnim::start, when the start callback has returned: the  *)
(* first step, or, with no duration, the end.                                *)
StartReturns ==
  /\ starting # <<>>
  /\ starting' = Front(starting)
  /\ \/ UNCHANGED <<m_bRunning, m_Listeners, it, m_bKillCurrentListener, endedOwn>>
     \/ /\ Last(starting) \in ToSet(m_Listeners) \union {m_pCurrentListener}
        /\ RemoveAnim(Last(starting), Front(starting))
  /\ UNCHANGED <<phase, m_FrameTime, m_bStopping, timerVars, m_pCurrentListener, scriptOps>>

(* abort; the stop callback's own steps are those of the script that runs.   *)
AbortAnim(a) ==
  /\ phase \in {"timer", "events", "listener"}
  /\ ScriptRuns
  /\ a \in m_bRunning
  /\ RemoveAnim(a, starting)
  /\ UNCHANGED <<phase, m_FrameTime, m_bStopping, timerVars, m_pCurrentListener, starting>>

EventsDone == /\ phase = "events"
              /\ starting = <<>>
              /\ phase' = "signal"
              /\ it' = 1
              /\ UNCHANGED <<m_FrameTime, m_bStopping, timerVars, m_Listeners,
                             m_pCurrentListener, m_bKillCurrentListener, animVars, scriptOps>>

(* A listener's call: the animation takes a step, which is not its last one  *)
StepAnim == /\ phase = "signal"
            /\ it <= Len(m_Listeners)
            /\ m_pCurrentListener' = m_Listeners[it]
            /\ it' = it + 1
            /\ UNCHANGED <<phase, m_FrameTime, m_bStopping, timerVars, m_Listeners,
                           m_bKillCurrentListener, animVars, scriptOps>>

(* or is, and then setStopped calls the script.                              *)
LastStep == /\ phase = "signal"
            /\ it <= Len(m_Listeners)
            /\ phase' = "listener"
            /\ m_pCurrentListener' = m_Listeners[it]
            /\ m_bRunning' = m_bRunning \ {m_Listeners[it]}
            /\ Disconnect(m_Listeners[it], m_Listeners[it])
            /\ UNCHANGED <<m_FrameTime, m_bStopping, timerVars, starting, endedOwn, scriptOps>>

ListenerReturns ==
  /\ phase = "listener"
  /\ starting = <<>>
  /\ phase' = "signal"
  /\ IF m_bKillCurrentListener
     THEN m_Listeners' = RemoveAt(m_Listeners, it) /\ UNCHANGED it
     ELSE it' = it + 1 /\ UNCHANGED m_Listeners
  /\ m_bKillCurrentListener' = FALSE
  /\ UNCHANGED <<m_FrameTime, m_bStopping, timerVars, m_pCurrentListener, animVars, scriptOps>>

-----------------------------------------------------------------------------
(* The player.                                                               *)

(* cleanup: the timers are deleted, the animations' onPlaybackEnd drops      *)
(* their callbacks and aborts them, and the canvas and its signals go away.  *)
Cleanup == /\ phase' = "off"
           /\ m_PendingTimeouts' = <<>>
           /\ m_FrameTime' = 0
           /\ m_Listeners' = <<>>
           /\ it' = 1
           /\ m_pCurrentListener' = NoAnim
           /\ m_bRunning' = {}
           /\ UNCHANGED <<starting, endedOwn>>

(* play, up to the canvas's first frame, which has no timers and no events.  *)
Play == /\ phase = "off"
        /\ phase' = "signal"
        /\ m_bStopping' = FALSE
        /\ m_FrameTime' = 0
        /\ UNCHANGED <<timerVars, signalVars, animVars, scriptOps>>

StopPlayer ==
  /\ phase \in {"off", "timer", "events", "listener"}
  /\ ScriptRuns
  /\ IF phase = "off"
     THEN Cleanup /\ UNCHANGED m_bStopping
     ELSE /\ m_bStopping' = TRUE
          /\ UNCHANGED <<phase, m_PendingTimeouts, m_FrameTime, m_Listeners, it,
                         m_pCurrentListener, animVars>>
  /\ UNCHANGED <<m_NewTimeouts, m_bCurrentTimeoutDeleted, s_LastID,
                 m_bKillCurrentListener>>

(* The rendering and the next frame.                                         *)
NextFrame == /\ phase = "signal"
             /\ it > Len(m_Listeners)
             /\ ~m_bStopping
             /\ phase' = "timers"
             /\ m_FrameTime' \in m_FrameTime..MaxTime
             /\ m_pCurrentListener' = NoAnim
             /\ it' = 1
             /\ UNCHANGED <<m_bStopping, timerVars, m_Listeners, m_bKillCurrentListener,
                            animVars, scriptOps>>

PlaybackEnds == /\ phase = "signal"
                /\ it > Len(m_Listeners)
                /\ m_bStopping
                /\ Cleanup
                /\ UNCHANGED <<m_bStopping, m_NewTimeouts, m_bCurrentTimeoutDeleted,
                               s_LastID, m_bKillCurrentListener, scriptOps>>

-----------------------------------------------------------------------------
FrameNext ==
  \/ SetTimeout \/ ClearInterval \/ Fire \/ FireReturns \/ TimersDone
  \/ \E a \in Anims : StartAnim(a) \/ AbortAnim(a)
  \/ StartReturns \/ EventsDone \/ StepAnim \/ LastStep \/ ListenerReturns
  \/ Play \/ StopPlayer \/ NextFrame \/ PlaybackEnds

FrameSpec == FrameInit /\ [][FrameNext]_frameVars

-----------------------------------------------------------------------------
(* The timer whose callback runs, unless it has been cleared meanwhile.      *)
Current == IF phase = "timer" /\ ~m_bCurrentTimeoutDeleted
           THEN {Head(m_PendingTimeouts)} ELSE {}

Ready == IF m_bInHandleTimers
         THEN {t.id : t \in {u \in ToSet(m_PendingTimeouts) \ Current :
                               u.next <= m_FrameTime}}
         ELSE {}

Service == INSTANCE TimerService
             WITH now <- m_FrameTime, callable <- Ready, lastId <- s_LastID,
                  stopping <- m_bStopping,
                  timers <- (ToSet(m_PendingTimeouts) \union ToSet(m_NewTimeouts))
                              \ {t \in Current : ~t.repeats}

(* The two lists of timers, and the flag with which a callback tells the     *)
(* loop that its timer is gone, keep the promise of TimerService: in a frame *)
(* each timer that is due is called exactly once, in the order of the times, *)
(* unless it is cleared or the player stopped first; an interval of no time, *)
(* which is what an onFrame handler is, and a timer set in a callback wait   *)
(* for the next frame (Player.cpp:766-814, 1545-1575, 1626-1681).            *)
TimersServed == Service!Spec

Owed == CASE phase = "signal" -> ToSet(SubSeq(m_Listeners, it, Len(m_Listeners)))
          [] phase = "listener" -> ToSet(SubSeq(m_Listeners, it + 1, Len(m_Listeners)))
          [] OTHER -> {}

Animation == INSTANCE AnimService WITH running <- m_bRunning, owed <- Owed

(* The emission before rendering steps every running animation once, though  *)
(* the stop callbacks it calls end, abort and start animations in the list   *)
(* it walks, and never one that has stopped (Signal.h:67-110, Anim.cpp,      *)
(* SimpleAnim::step's assert); one whose start callback has returned takes   *)
(* its first step at once.  It ends with the first animation that is ended   *)
(* in a callback of its own, which is then stepped though it has stopped.    *)
AnimsStepped == Animation!Init /\ [][endedOwn' \/ Animation!Next]_(Animation!vars)
=============================================================================

---------------------------- MODULE TimerService ----------------------------
(* What libavg's Player promises about its timers, without lists, iterators  *)
(* or flags: in a frame every timer that was due when the frame began, and   *)
(* no other, is called at most once, in the order of the times; a timer that *)
(* has been cleared is not called; none is passed over unless the player is  *)
(* told to stop; nothing outlives the playback.                              *)
EXTENDS Naturals

CONSTANTS Times          \* the delays a script passes to setTimeout, setInterval

VARIABLES now,           \* the time of the frame
          timers,        \* the timers that will be called some day
          callable,      \* the timers this frame still has to call
          lastId,        \* the last number given out
          stopping       \* stop() has been called

vars == <<now, timers, callable, lastId, stopping>>

Init == /\ now = 0
        /\ timers = {}
        /\ callable = {}
        /\ lastId = 0
        /\ stopping = FALSE

(* A timer a script sets is not called in the frame it is set in.            *)
Set == /\ \E t \in Times, r \in BOOLEAN :
            timers' = timers \union
              {[id |-> lastId + 1, next |-> now + t, interval |-> t, repeats |-> r]}
       /\ lastId' = lastId + 1
       /\ UNCHANGED <<now, callable, stopping>>

Clear(t) == /\ timers' = timers \ {t}
            /\ callable' = callable \ {t.id}
            /\ UNCHANGED <<now, lastId, stopping>>

Begin == /\ callable = {}
         /\ now' >= now
         /\ callable' = {t.id : t \in {u \in timers : u.next <= now'}}
         /\ UNCHANGED <<timers, lastId, stopping>>

Call(t) == /\ t.id \in callable
           /\ ~stopping
           /\ \A u \in timers : u.id \in callable => t.next <= u.next
           /\ callable' = callable \ {t.id}
           /\ timers' = (timers \ {t}) \union
                          {[u EXCEPT !.next = now + u.interval] :
                              u \in {v \in {t} : v.repeats}}
           /\ UNCHANGED <<now, lastId, stopping>>

(* Only a player that stops leaves timers uncalled.                          *)
GiveUp == /\ stopping
          /\ callable' = {}
          /\ UNCHANGED <<now, timers, lastId, stopping>>

Stop == /\ stopping' = TRUE
        /\ UNCHANGED <<now, timers, callable, lastId>>

Start == /\ callable = {}
         /\ stopping' = FALSE
         /\ now' = 0
         /\ UNCHANGED <<timers, callable, lastId>>

PlaybackEnd == /\ callable = {}
               /\ timers' = {}
               /\ now' = 0
               /\ UNCHANGED <<callable, lastId, stopping>>

Next == \/ Set
        \/ \E t \in timers : Clear(t) \/ Call(t)
        \/ Begin \/ GiveUp \/ Stop \/ Start \/ PlaybackEnd

Spec == Init /\ [][Next]_vars
=============================================================================

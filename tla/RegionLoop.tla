----------------------------- MODULE RegionLoop -----------------------------
(***************************************************************************)
(* One region of a layout: XiboRegionManager.run and the callbacks next,   *)
(* tNext and disposeTransitionComplete.                                    *)
(*                                                                         *)
(* The region's thread shows its media one after the other.  It waits on   *)
(* the semaphore "lock" for a media item's time to be up, and on "tLock"   *)
(* for a transition to end and for a media item to dispose itself.  Timers *)
(* and transitions release them from other threads, and so does whoever    *)
(* disposes the region, so that its thread can leave the loop.             *)
(***************************************************************************)
EXTENDS Integers, FiniteSets

CONSTANTS
    NumMedia,     \* <media> elements of the region, in document order
    Unloadable,   \* media whose plugin, or an effect's, cannot be imported
    OutTrans,     \* media with a transOut option
    InTrans,      \* media with a transIn option
    SamePlugin,   \* the transOut and transIn options name the same plugin
    Disposers     \* calls of dispose() from outside the region's thread

Media == 1 .. NumMedia
NoMedia == 0

ASSUME RegionAssumption ==
    /\ NumMedia \in Nat \ {0}
    /\ Unloadable \subseteq Media
    /\ OutTrans \subseteq Media
    /\ InTrans \subseteq Media
    /\ SamePlugin \in BOOLEAN

VARIABLES
    pc,          \* where the region's thread is
    item,        \* the media element its for loop is at
    prev, cur,   \* previousMedia and currentMedia
    lock, tLock, \* values of the two semaphores
    disposing,
    disposed,
    oneItemOnly,
    due,         \* media -> pending timers that will call next()
    running,     \* transitions that will call tNext()
    shown,       \* media -> its nodes on the screen, each with its own id
    late,        \* media added since disposing was set
    dpc          \* disposer -> where its call of dispose() is

flags == <<disposing, disposed, oneItemOnly>>
sems == <<lock, tLock>>
vars == <<pc, item, prev, cur, lock, tLock, disposing, disposed, oneItemOnly,
          due, running, shown, late, dpc>>

Self == "self"                   \* dispose() called from regionElapsed
Disposer == Disposers \cup {Self}

(* run() starts by taking both semaphores, which are created with 1. *)
Taken_Not == 1
Taken == 0

Init ==
    /\ pc = "loop"
    /\ item = 1
    /\ prev = NoMedia
    /\ cur = NoMedia
    /\ lock = Taken
    /\ tLock = Taken
    /\ disposing = FALSE
    /\ disposed = FALSE
    /\ oneItemOnly = FALSE
    /\ due = [m \in Media |-> 0]
    /\ running = 0
    /\ shown = [m \in Media |-> 0]
    /\ late = 0
    /\ dpc = [d \in Disposer |-> "idle"]

-----------------------------------------------------------------------------
(* The loop of run().                                                      *)

Loop ==
    /\ pc = "loop"
    /\ item' = 1
    /\ pc' = IF disposed \/ oneItemOnly \/ disposing THEN "done" ELSE "item"
    /\ UNCHANGED <<prev, cur, sems, flags, due, running, shown, late, dpc>>

AtEnd == item > NumMedia

Going_Ignored == FALSE
Going == disposed \/ disposing

(* The next <media> element; a region on its way out skips it.  A missing  *)
(* plugin releases the semaphore that a media item's end would release.    *)
NextItem ==
    /\ pc = "item"
    /\ IF AtEnd
       THEN /\ pc' = "elapsed"
            /\ UNCHANGED <<item, cur, lock>>
       ELSE IF Going
       THEN /\ item' = item + 1
            /\ UNCHANGED <<pc, cur, lock>>
       ELSE IF item \in Unloadable
       THEN /\ item' = item + 1
            /\ lock' = lock + 1
            /\ UNCHANGED <<pc, cur>>
       ELSE /\ cur' = item
            /\ pc' = "begin"
            /\ UNCHANGED <<item, lock>>
    /\ UNCHANGED <<prev, tLock, flags, due, running, shown, late, dpc>>

HasOut == prev \in OutTrans
HasIn == cur \in InTrans
Matched == HasOut /\ HasIn /\ SamePlugin

(* currentMedia.add() and start(): a node of its own and the timer. *)
Add ==
    /\ shown' = [shown EXCEPT ![cur] = @ + 1]
    /\ due' = [due EXCEPT ![cur] = @ + 1]
    /\ late' = IF disposing THEN late + 1 ELSE late

NoAdd == UNCHANGED <<shown, due, late>>

(* A matching pair of transitions is one plugin, which has both media.     *)
Begin ==
    /\ pc = "begin"
    /\ \/ /\ Matched
          /\ Add
          /\ running' = running + 1
          /\ pc' = "trans"
       \/ /\ ~Matched /\ HasOut
          /\ NoAdd
          /\ running' = running + 1
          /\ pc' = "leaving"
       \/ /\ ~HasOut
          /\ NoAdd
          /\ pc' = "enter"
          /\ UNCHANGED running
    /\ UNCHANGED <<item, prev, cur, sems, flags, dpc>>

(* self.tLock.acquire() after the first of two transitions. *)
Left ==
    /\ pc = "leaving"
    /\ tLock > 0
    /\ tLock' = tLock - 1
    /\ pc' = "enter"
    /\ NoAdd
    /\ UNCHANGED <<item, prev, cur, lock, flags, running, dpc>>

Enter ==
    /\ pc = "enter"
    /\ Add
    /\ running' = IF HasIn THEN running + 1 ELSE running
    /\ pc' = IF HasIn THEN "trans" ELSE "clean"
    /\ UNCHANGED <<item, prev, cur, sems, flags, dpc>>

(* self.tLock.acquire() after the transition that shows the new media. *)
Entered ==
    /\ pc = "trans"
    /\ tLock > 0
    /\ tLock' = tLock - 1
    /\ pc' = "clean"
    /\ NoAdd
    /\ UNCHANGED <<item, prev, cur, lock, flags, running, dpc>>

(* tNext() does nothing once the region is disposed. *)
AfterTNext == IF disposed THEN tLock ELSE tLock + 1

Removed_Kept == shown
Removed == [shown EXCEPT ![prev] = @ - 1]

(* previousMedia.dispose(): the node goes and tNext is called, for the      *)
(* acquire that follows.                                                   *)
CleanUp ==
    /\ pc = "clean"
    /\ IF prev = NoMedia
       THEN /\ pc' = "test"
            /\ UNCHANGED <<tLock, shown>>
       ELSE /\ shown' = Removed
            /\ tLock' = AfterTNext
            /\ pc' = "cleaned"
    /\ UNCHANGED <<item, prev, cur, lock, flags, due, running, late, dpc>>

Cleaned ==
    /\ pc = "cleaned"
    /\ tLock > 0
    /\ tLock' = tLock - 1
    /\ pc' = "test"
    /\ NoAdd
    /\ UNCHANGED <<item, prev, cur, lock, flags, running, dpc>>

(* Wait for the media to finish, unless the region is on its way out. *)
TestWait ==
    /\ pc = "test"
    /\ pc' = IF Going THEN "next" ELSE "wait"
    /\ NoAdd
    /\ UNCHANGED <<item, prev, cur, sems, flags, running, dpc>>

Wake ==
    /\ pc = "wait"
    /\ lock > 0
    /\ lock' = lock - 1
    /\ pc' = "next"
    /\ NoAdd
    /\ UNCHANGED <<item, prev, cur, tLock, flags, running, dpc>>

Advance ==
    /\ pc = "next"
    /\ prev' = cur
    /\ cur' = NoMedia
    /\ item' = item + 1
    /\ pc' = "item"
    /\ NoAdd
    /\ UNCHANGED <<sems, flags, running, dpc>>

(* regionExpired = True and parent.regionElapsed(): False while another    *)
(* region has yet to expire; True when the layout is expiring, which this  *)
(* call may have started by disposing the regions itself.                  *)
Elapsed ==
    /\ pc = "elapsed"
    /\ \/ /\ pc' = "loop"
          /\ oneItemOnly' = (oneItemOnly \/ NumMedia = 1)
          /\ UNCHANGED dpc
       \/ /\ dpc[Self] \in {"idle", "done"}
          /\ disposing
          /\ pc' = "loop"
          /\ oneItemOnly' = TRUE
          /\ UNCHANGED dpc
       \/ /\ dpc[Self] = "idle"
          /\ dpc' = [dpc EXCEPT ![Self] = "start"]
          /\ pc' = "disposes"
          /\ UNCHANGED oneItemOnly
    /\ NoAdd
    /\ UNCHANGED <<item, prev, cur, sems, disposing, disposed, running>>

DisposedSelf ==
    /\ pc = "disposes"
    /\ dpc[Self] = "done"
    /\ oneItemOnly' = TRUE
    /\ pc' = "loop"
    /\ NoAdd
    /\ UNCHANGED <<item, prev, cur, sems, disposing, disposed, running, dpc>>

-----------------------------------------------------------------------------
(* Callbacks.                                                              *)

(* next(): ignored once the region is disposing. *)
MediaEnds(m) ==
    /\ due[m] > 0
    /\ due' = [due EXCEPT ![m] = @ - 1]
    /\ lock' = IF disposed \/ disposing THEN lock ELSE lock + 1
    /\ UNCHANGED <<pc, item, prev, cur, tLock, flags, running, shown, late,
                   dpc>>

(* A transition ends and calls tNext(). *)
TransitionEnds ==
    /\ running > 0
    /\ running' = running - 1
    /\ tLock' = AfterTNext
    /\ UNCHANGED <<pc, item, prev, cur, lock, flags, due, shown, late, dpc>>

-----------------------------------------------------------------------------
(* dispose() and disposeTransitionComplete(), in the thread of a disposer  *)
(* or of the exit transition that it starts.                               *)

DisposerUnchanged ==
    UNCHANGED <<pc, item, prev, cur, oneItemOnly, due, running, shown,
                late>>

Dispose(d) ==
    /\ \/ d # Self /\ dpc[d] = "idle"
       \/ dpc[d] = "start"
    /\ disposing' = TRUE
    /\ dpc' = [dpc EXCEPT ![d] = "complete"]
    /\ DisposerUnchanged /\ UNCHANGED <<sems, disposed>>

Complete(d) ==
    /\ dpc[d] = "complete"
    /\ disposed' = TRUE
    /\ dpc' = [dpc EXCEPT ![d] = "unlock"]
    /\ DisposerUnchanged /\ UNCHANGED <<sems, disposing>>

Released_Not == lock
Released == lock + 1

Unlock(d) ==
    /\ dpc[d] = "unlock"
    /\ lock' = Released
    /\ dpc' = [dpc EXCEPT ![d] = "tUnlock"]
    /\ DisposerUnchanged /\ UNCHANGED <<tLock, disposing, disposed>>

TUnlock(d) ==
    /\ dpc[d] = "tUnlock"
    /\ tLock' = tLock + 1
    /\ dpc' = [dpc EXCEPT ![d] = "done"]
    /\ DisposerUnchanged /\ UNCHANGED <<lock, disposing, disposed>>

-----------------------------------------------------------------------------

ThreadStep ==
    \/ Loop \/ NextItem \/ Begin \/ Left \/ Enter \/ Entered \/ CleanUp
    \/ Cleaned \/ TestWait \/ Wake \/ Advance \/ Elapsed \/ DisposedSelf

DisposerStep(d) == Complete(d) \/ Unlock(d) \/ TUnlock(d)

Next ==
    \/ ThreadStep
    \/ \E m \in Media : MediaEnds(m)
    \/ TransitionEnds
    \/ \E d \in Disposer : Dispose(d) \/ DisposerStep(d)

Spec == Init /\ [][Next]_vars

(* Threads run, timers fire, transitions end; a disposal that began goes   *)
(* on, and nothing says that it begins.                                    *)
FairSpec ==
    /\ Spec
    /\ WF_vars(ThreadStep)
    /\ \A m \in Media : WF_vars(MediaEnds(m))
    /\ WF_vars(TransitionEnds)
    /\ WF_vars(Dispose(Self))
    /\ \A d \in Disposer : WF_vars(DisposerStep(d))

-----------------------------------------------------------------------------
(* Properties.                                                             *)

(* The type invariant. *)
TypeOK ==
    /\ pc \in {"loop", "item", "begin", "leaving", "enter", "trans", "clean",
               "cleaned", "test", "wait", "next", "elapsed", "disposes", "done"}
    /\ item \in 1 .. NumMedia + 1
    /\ prev \in Media \cup {NoMedia}
    /\ cur \in Media \cup {NoMedia}
    /\ lock \in Nat
    /\ tLock \in Nat
    /\ disposing \in BOOLEAN
    /\ disposed \in BOOLEAN
    /\ oneItemOnly \in BOOLEAN
    /\ due \in [Media -> Nat]
    /\ running \in Nat
    /\ shown \in [Media -> Nat]
    /\ late \in Nat
    /\ dpc \in [Disposer -> {"idle", "start", "complete", "unlock", "tUnlock",
                             "done"}]

(* A media item keeps the screen until its own timer has called next(),    *)
(* unless the region is disposed ("Wait for the new media to finish").     *)
FullTime ==
    [][(pc = "wait" /\ pc' = "next" /\ ~disposing) => (due[cur] = 0)]_vars

(* Before the region is disposed, its thread goes past a transition only   *)
(* when the transition has ended.                                          *)
TransitionFirst ==
    [][(pc \in {"leaving", "trans"} /\ pc' # pc /\ ~disposed)
          => (running = 0)]_vars

(* While a media item has its time on the screen, it is alone on it: the   *)
(* one before has been removed.                                            *)
Alone == pc = "wait" => \A m \in Media : shown[m] = IF m = cur THEN 1 ELSE 0

(* A region on its way out shows at most the media item that its thread    *)
(* was about to show.                                                      *)
AtMostOneLate == late <= 1

(* A disposed region's thread is not left waiting for a media item to end: *)
(* it leaves the media loop, or it waits for a transition.                 *)
LeavesMedia ==
    (<>disposed) => <>[](pc \in {"done", "leaving", "trans", "cleaned"})

(* A disposed region's thread leaves the media loop ("Unlock the media     *)
(* loop and allow it to complete").  The code does not ensure it: a region *)
(* disposed during a transition spends the release of tLock that its       *)
(* disposal gives on that transition, and then waits for ever in the       *)
(* acquire after the exit of the previous media.                           *)
LeavesLoop == disposed ~> pc = "done"

=============================================================================

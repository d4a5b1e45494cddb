----------------------------- MODULE LayoutExit -----------------------------
(***************************************************************************)
(* How one layout leaves the screen: XiboLayoutManager and the exit half   *)
(* of XiboRegionManager (pyclient/client/python/XiboClient.py).            *)
(*                                                                         *)
(* The layout manager thread builds one region manager thread per region   *)
(* of the layout.  A region that has shown its media once is "expired";    *)
(* the thread that finds every region expired disposes them all.  A key    *)
(* press or a lift switch disposes them from another thread at any time.   *)
(* Whoever finds every region disposed calls DisplayManager.nextLayout().  *)
(*                                                                         *)
(* The scans of the region list in regionElapsed and regionDisposed are    *)
(* one step each: the flags they read never go back to False, so a scan is *)
(* equivalent to a read of all flags at the instant it ends (or meets the  *)
(* first False).  The scan and the lock that follows it are two steps.     *)
(***************************************************************************)
EXTENDS Integers

CONSTANTS
    NumRegions,      \* <region> elements of the layout, in document order
    Invalid,         \* regions missing a required attribute
    Empty,           \* regions without media
    Single,          \* regions with exactly one media item
    ExitTransition,  \* regions whose options name a transOut plugin
    DisposeRaises,   \* regions whose dispose() raises (see Dispose)
    NumExternal,     \* disposals asked for by a key press or a lift switch
    Splash,          \* this is the splash layout, created with hold=True
    NoColour,        \* or it is one whose XLF may lack the background colour
    Mistaken,        \* or the display manager may take it for the splash layout
    RunRaises,       \* run() may raise: a background image or a region's
                     \* attributes that cannot be read
    BuiltFirst,      \* timing: run() builds the last region before any media
                     \* time is up (milliseconds against seconds)
    OutsideLater     \* the layout is disposed by others, and its hold lifted,
                     \* only after run() has built the last region (nothing in
                     \* the code waits for that)

Region == 1 .. NumRegions

ASSUME LayoutAssumption ==
    /\ NumRegions \in Nat
    /\ NumExternal \in Nat
    /\ Invalid \subseteq Region
    /\ Empty \subseteq Region
    /\ Single \subseteq Region
    /\ ExitTransition \subseteq Region
    /\ DisposeRaises \subseteq Region
    /\ Splash \in BOOLEAN
    /\ NoColour \in BOOLEAN
    /\ Mistaken \in BOOLEAN
    /\ RunRaises \in BOOLEAN
    /\ BuiltFirst \in BOOLEAN
    /\ OutsideLater \in BOOLEAN

-----------------------------------------------------------------------------
(* Threads.  A region's exit transition runs in a thread of its own, one   *)
(* for each disposal that starts it.                                       *)

LM == <<"layout", 0>>                 \* XiboLayoutManager.run
MainT == <<"main", 0>>                \* XiboDisplayManager.run
RegionT(r) == <<"region", r>>         \* XiboRegionManager.run
ExternalT(e) == <<"external", e>>     \* SwitchWatcher.run, XiboPlayer.keyDown
TransT(t, r) == <<"trans", r, t>>     \* the transition plugin's run

RegionThread == { RegionT(r) : r \in Region }
ExternalThread == { ExternalT(e) : e \in 1 .. NumExternal }
Disposer == {LM} \cup RegionThread \cup ExternalThread
TransThread == { TransT(d, r) : d \in Disposer, r \in ExitTransition }
Thread == Disposer \cup TransThread \cup {MainT}

NoThread == <<"nobody", 0>>

VARIABLES
    built,        \* Len(self.regions): regions 1..built are in the list
    expired,      \* region -> regionExpired
    disposing,    \* region -> disposing
    disposed,     \* region -> disposed
    oneItemOnly,  \* region -> oneItemOnly
    token,        \* region -> value of the semaphore self.lock
    armed,        \* region -> a timer holding its next() callback is pending
    expiring,     \* the layout's expiring (and layoutExpired) flag
    triggered,    \* nextLayoutTriggered
    hold,         \* self.hold
    regionLock,   \* holder of __regionLock
    disposeLock,  \* holder of __regionDisposeLock
    handovers,    \* calls of parent.nextLayout() made by this layout
    pc,           \* thread -> where it is
    pos,          \* thread -> region its loop is at
    saw           \* thread -> what its last scan of disposed flags found

flags == <<expired, disposing, disposed, oneItemOnly>>
locks == <<regionLock, disposeLock>>
vars == <<built, expired, disposing, disposed, oneItemOnly, token, armed,
          expiring, triggered, hold, regionLock, disposeLock, handovers,
          pc, pos, saw>>

-----------------------------------------------------------------------------

(* The splash layout starts on hold, and the display manager's thread is   *)
(* in RegisterDisplay.  Any other layout is new to that thread, unless it  *)
(* replaces the splash layout just after its hold was lifted.              *)
Init ==
    /\ built = 0
    /\ expired = [r \in Region |-> FALSE]
    /\ disposing = [r \in Region |-> FALSE]
    /\ disposed = [r \in Region |-> FALSE]
    /\ oneItemOnly = [r \in Region |-> FALSE]
    /\ token = [r \in Region |-> 0]
    /\ armed = [r \in Region |-> FALSE]
    /\ expiring = FALSE
    /\ triggered = FALSE
    /\ regionLock = NoThread
    /\ disposeLock = NoThread
    /\ handovers = 0
    /\ \E skips, mistaken \in BOOLEAN :
          /\ skips => NoColour
          /\ mistaken => Mistaken
          /\ hold = (Splash /\ ~skips /\ ~mistaken)  \* resources/0.xlf has a colour
          /\ pc = [t \in Thread |->
                     IF t = LM THEN (IF skips THEN "skip" ELSE "build")
                     ELSE IF t = MainT /\ hold THEN "register"
                     ELSE IF t = MainT /\ mistaken THEN "late"
                     ELSE "idle"]
    /\ pos = [t \in Thread |-> 1]
    /\ saw = [t \in Thread |-> FALSE]

Goto(t, l) == pc' = [pc EXCEPT ![t] = l]

BuildOver == pc[LM] \in {"done", "skipped", "dead"}
AllExpired_Some == \E r \in 1 .. built : expired[r]
AllExpired == \A r \in 1 .. built : expired[r]
AllDisposed_Some == \E r \in 1 .. built : disposed[r]
AllDisposed == \A r \in 1 .. built : disposed[r]

-----------------------------------------------------------------------------
(* XiboLayoutManager.run: for each region construct, start, then append.   *)

AfterSkip == "skipped"

(* Without a background colour run() sleeps, asks for the next layout and  *)
(* returns, past nextLayoutTriggered and the lock.                         *)
SkipLayout ==
    /\ pc[LM] = "skip"
    /\ handovers' = handovers + 1
    /\ Goto(LM, AfterSkip)
    /\ UNCHANGED <<built, flags, token, armed, expiring, triggered, hold,
                   locks, pos, saw>>

(* The background image is missing or broken, or a region's width is no    *)
(* number: the thread ends, and the layout keeps the regions it has.       *)
RunFails ==
    /\ pc[LM] = "build"
    /\ built < NumRegions
    /\ RunRaises
    /\ Goto(LM, "dead")
    /\ UNCHANGED <<built, flags, token, armed, expiring, triggered, hold,
                   locks, handovers, pos, saw>>

Building == built + 1      \* the region run() is building

(* XiboRegionManager.__init__: a region missing an attribute marks itself  *)
(* expired and calls parent.regionElapsed() from the layout's own thread.  *)
Construct ==
    /\ pc[LM] = "build"
    /\ \/ /\ built = NumRegions
          /\ Goto(LM, "done")
          /\ UNCHANGED expired
       \/ /\ built < NumRegions
          /\ Building \in Invalid
          /\ expired' = [expired EXCEPT ![Building] = TRUE]
          /\ Goto(LM, "scanE")
       \/ /\ built < NumRegions
          /\ Building \notin Invalid
          /\ Goto(LM, "start")
          /\ UNCHANGED expired
    /\ UNCHANGED <<built, disposing, disposed, oneItemOnly, token, armed,
                   expiring, triggered, hold, locks, handovers, pos, saw>>

(* tmpRegion.start().  The thread of an invalid region dies on the first   *)
(* use of the missing attribute, if its media makes use of it.             *)
StartRegion ==
    /\ pc[LM] = "start"
    /\ \E l \in {"loop", "dead"} :
          /\ l = "dead" => Building \in Invalid
          /\ pc' = [pc EXCEPT ![LM] = "append", ![RegionT(Building)] = l]
    /\ UNCHANGED <<built, flags, token, armed, expiring, triggered, hold,
                   locks, handovers, pos, saw>>

(* self.regions.append(tmpRegion), after the thread has been started. *)
AppendRegion ==
    /\ pc[LM] = "append"
    /\ built' = Building
    /\ Goto(LM, "build")
    /\ UNCHANGED <<flags, token, armed, expiring, triggered, hold, locks,
                   handovers, pos, saw>>

-----------------------------------------------------------------------------
(* XiboRegionManager.run, its media reduced to one wait per round.         *)

(* while disposed == False and oneItemOnly == False and disposing == False *)
LoopTest(r) ==
    /\ pc[RegionT(r)] = "loop"
    /\ Goto(RegionT(r), IF disposed[r] \/ oneItemOnly[r] \/ disposing[r]
                        THEN "done" ELSE "show")
    /\ UNCHANGED <<built, flags, token, armed, expiring, triggered, hold,
                   locks, handovers, pos, saw>>

(* Shows the media unless the region is being disposed, and then waits on  *)
(* self.lock; a region without media sleeps for two seconds instead.       *)
Show(r) ==
    /\ pc[RegionT(r)] = "show"
    /\ IF r \in Empty
       THEN /\ BuiltFirst => BuildOver
            /\ oneItemOnly' = [oneItemOnly EXCEPT ![r] = TRUE]
            /\ Goto(RegionT(r), "expire")
            /\ UNCHANGED armed
       ELSE IF disposing[r] \/ disposed[r]
       THEN /\ Goto(RegionT(r), "expire")
            /\ UNCHANGED <<armed, oneItemOnly>>
       ELSE /\ armed' = [armed EXCEPT ![r] = TRUE]
            /\ Goto(RegionT(r), "wait")
            /\ UNCHANGED oneItemOnly
    /\ UNCHANGED <<built, expired, disposing, disposed, token, expiring,
                   triggered, hold, locks, handovers, pos, saw>>

(* next(), called back by the player when the media's time is up. *)
NextMedia(r) ==
    /\ armed[r]
    /\ BuiltFirst => BuildOver
    /\ armed' = [armed EXCEPT ![r] = FALSE]
    /\ token' = IF disposed[r] \/ disposing[r] THEN token
                ELSE [token EXCEPT ![r] = @ + 1]
    /\ UNCHANGED <<built, flags, expiring, triggered, hold, locks, handovers,
                   pc, pos, saw>>

(* self.lock.acquire() returns: the round is over. *)
Wake(r) ==
    /\ pc[RegionT(r)] = "wait"
    /\ token[r] > 0
    /\ token' = [token EXCEPT ![r] = @ - 1]
    /\ Goto(RegionT(r), "expire")
    /\ UNCHANGED <<built, flags, armed, expiring, triggered, hold, locks,
                   handovers, pos, saw>>

(* regionExpired = True, then parent.regionElapsed(). *)
Expire(r) ==
    /\ pc[RegionT(r)] = "expire"
    /\ expired' = [expired EXCEPT ![r] = TRUE]
    /\ Goto(RegionT(r), "scanE")
    /\ UNCHANGED <<built, disposing, disposed, oneItemOnly, token, armed,
                   expiring, triggered, hold, locks, handovers, pos, saw>>

-----------------------------------------------------------------------------
(* XiboLayoutManager.regionElapsed, run by a region thread or, from the    *)
(* constructor of an invalid region, by the layout's thread.               *)

(* The caller resumes: the layout's thread starts the region; a region     *)
(* thread stops looping when the result is True or it has a single item.   *)
ReturnElapsed(t, result) ==
    IF t = LM
    THEN /\ Goto(t, "start")
         /\ UNCHANGED oneItemOnly
    ELSE /\ oneItemOnly' = [oneItemOnly EXCEPT
                              ![t[2]] = @ \/ result \/ t[2] \in Single]
         /\ Goto(t, "loop")

ScanExpired(t) ==
    /\ pc[t] = "scanE"
    /\ IF AllExpired
       THEN /\ Goto(t, "lockE")
            /\ UNCHANGED oneItemOnly
       ELSE ReturnElapsed(t, FALSE)
    /\ UNCHANGED <<built, expired, disposing, disposed, token, armed,
                   expiring, triggered, hold, locks, handovers, pos, saw>>

(* With __regionLock: the first thread to come here with every region      *)
(* expired marks the layout as expiring and disposes the regions, still    *)
(* holding the lock.                                                       *)
FirstToExpire_Any == TRUE
FirstToExpire == ~expiring

LockExpired(t) ==
    /\ pc[t] = "lockE"
    /\ regionLock = NoThread
    /\ IF FirstToExpire
       THEN /\ expiring' = TRUE
            /\ regionLock' = t
            /\ Goto(t, "each")
            /\ UNCHANGED oneItemOnly
       ELSE /\ ReturnElapsed(t, TRUE)
            /\ UNCHANGED <<expiring, regionLock>>
    /\ UNCHANGED <<built, expired, disposing, disposed, token, armed,
                   triggered, hold, disposeLock, handovers, pos, saw>>

-----------------------------------------------------------------------------
(* The loop "for i in self.regions: i.dispose()" of regionElapsed and of   *)
(* XiboLayoutManager.dispose, over a list that may still grow.             *)

InList_Over(t) == pos[t] <= built + 1
InList(t) == pos[t] <= built

(* A key press or a lift switch calls dispose() on the layout. *)
StartDispose(t) ==
    /\ pc[t] = "idle"
    /\ OutsideLater => BuildOver
    /\ Goto(t, "each")
    /\ UNCHANGED <<built, flags, token, armed, expiring, triggered, hold,
                   locks, handovers, pos, saw>>

EndDispose(t) ==
    /\ pc[t] = "each"
    /\ ~InList(t)
    /\ IF t \in ExternalThread
       THEN /\ Goto(t, "done")
            /\ UNCHANGED <<regionLock, oneItemOnly>>
       ELSE /\ regionLock' = NoThread
            /\ ReturnElapsed(t, TRUE)
    /\ UNCHANGED <<built, expired, disposing, disposed, token, armed,
                   expiring, triggered, hold, disposeLock, handovers, pos,
                   saw>>

(* A region with several media is waiting for one of them: previousMedia   *)
(* may name the one before it, which has been deleted already.             *)
StalePrevious(r) == r \notin Single /\ pc[RegionT(r)] = "wait"

(* XiboRegionManager.dispose.  It raises where the region has no id, or an *)
(* <options> element that lacks transOut or has an empty option: the       *)
(* calling thread ends, with the locks it holds.  An exit transition runs  *)
(* in a thread of its own and calls disposeTransitionComplete when it ends;*)
(* it never does when it was given a media that the player does not have.  *)
(* Without one the caller goes on to disposeTransitionComplete itself.     *)
Dispose(t) ==
    /\ pc[t] = "each"
    /\ InList(t)
    /\ disposing' = [disposing EXCEPT ![pos[t]] = TRUE]
    /\ \/ /\ pos[t] \in DisposeRaises
          /\ Goto(t, "dead")
          /\ UNCHANGED pos
       \/ /\ pos[t] \in ExitTransition \ DisposeRaises
          /\ \E l \in {"complete", "stuck"} :
                /\ l = "stuck" => StalePrevious(pos[t])
                /\ Goto(TransT(t, pos[t]), l)
          /\ pos' = [pos EXCEPT ![t] = @ + 1]
       \/ /\ pos[t] \notin ExitTransition \cup DisposeRaises
          /\ Goto(t, "complete")
          /\ UNCHANGED pos
    /\ UNCHANGED <<built, expired, disposed, oneItemOnly, token, armed,
                   expiring, triggered, hold, locks, handovers, saw>>

(* The region whose disposeTransitionComplete thread t is in. *)
Subject(t) == IF t \in TransThread THEN t[2] ELSE pos[t]

Complete_Late(t) ==
    /\ pc[t] = "complete"
    /\ saw' = [saw EXCEPT ![t] = AllDisposed]
    /\ disposed' = [disposed EXCEPT ![Subject(t)] = TRUE]
    /\ Goto(t, "lockD")
    /\ UNCHANGED <<built, expired, disposing, oneItemOnly, token, armed,
                   expiring, triggered, hold, locks, handovers, pos>>

(* disposeTransitionComplete: disposed = True, then parent.regionDisposed().*)
Complete(t) ==
    /\ pc[t] = "complete"
    /\ disposed' = [disposed EXCEPT ![Subject(t)] = TRUE]
    /\ Goto(t, "scanD")
    /\ UNCHANGED <<built, expired, disposing, oneItemOnly, token, armed,
                   expiring, triggered, hold, locks, handovers, pos, saw>>

-----------------------------------------------------------------------------
(* XiboLayoutManager.regionDisposed.                                       *)

ScanDisposed(t) ==
    /\ pc[t] = "scanD"
    /\ saw' = [saw EXCEPT ![t] = AllDisposed]
    /\ Goto(t, "lockD")
    /\ UNCHANGED <<built, flags, token, armed, expiring, triggered, hold,
                   locks, handovers, pos>>

(* Where a thread goes after regionDisposed: the display manager's thread  *)
(* is done, every other one is in disposeTransitionComplete.               *)
AfterDisposed(t) == IF t = MainT THEN "done" ELSE "unlock"

MayTrigger_Again(t) == saw[t] /\ ~hold
MayTrigger_Held(t) == saw[t] /\ ~triggered
MayTrigger(t) == saw[t] /\ ~triggered /\ ~hold

(* With __regionDisposeLock: decide, and hand over with the lock held. *)
LockDisposed(t) ==
    /\ pc[t] = "lockD"
    /\ disposeLock = NoThread
    /\ IF MayTrigger(t)
       THEN /\ triggered' = TRUE
            /\ disposeLock' = t
            /\ Goto(t, "hand")
       ELSE /\ Goto(t, AfterDisposed(t))
            /\ UNCHANGED <<triggered, disposeLock>>
    /\ UNCHANGED <<built, flags, token, armed, expiring, hold, regionLock,
                   handovers, pos, saw>>

(* self.parent.nextLayout(), then the lock is released. *)
HandOver(t) ==
    /\ pc[t] = "hand"
    /\ handovers' = handovers + 1
    /\ disposeLock' = NoThread
    /\ Goto(t, AfterDisposed(t))
    /\ UNCHANGED <<built, flags, token, armed, expiring, triggered, hold,
                   regionLock, pos, saw>>

Release(r) == token' = [token EXCEPT ![r] = @ + 1]

(* disposeTransitionComplete ends with the release of the region's         *)
(* semaphores; a transition's thread ends, a disposing loop goes on.       *)
Unlock(t) ==
    /\ pc[t] = "unlock"
    /\ Release(Subject(t))
    /\ IF t \in TransThread
       THEN /\ Goto(t, "done")
            /\ UNCHANGED pos
       ELSE /\ Goto(t, "each")
            /\ pos' = [pos EXCEPT ![t] = @ + 1]
    /\ UNCHANGED <<built, flags, armed, expiring, triggered, hold, locks,
                   handovers, saw>>

(* XiboDisplayManager.run: RegisterDisplay() returned, and the hold of the *)
(* splash layout is lifted.                                                *)
LiftHold ==
    /\ pc[MainT] = "register"
    /\ OutsideLater => BuildOver
    /\ hold' = FALSE
    /\ Goto(MainT, "call")
    /\ UNCHANGED <<built, flags, token, armed, expiring, triggered, locks,
                   handovers, pos, saw>>

(* self.currentLM.regionDisposed() reads currentLM a second time.  The     *)
(* call goes to the splash layout, or to the layout that has replaced it.  *)
CallSplash ==
    /\ pc[MainT] = "call"
    /\ Goto(MainT, IF handovers = 0 THEN "scanD" ELSE "done")
    /\ UNCHANGED <<built, flags, token, armed, expiring, triggered, hold,
                   locks, handovers, pos, saw>>

(* The same call, seen from the layout that has replaced the splash layout.*)
CallSuccessor ==
    /\ pc[MainT] = "late"
    /\ OutsideLater => BuildOver
    /\ Goto(MainT, "scanD")
    /\ UNCHANGED <<built, flags, token, armed, expiring, triggered, hold,
                   locks, handovers, pos, saw>>

Register == LiftHold \/ CallSplash \/ CallSuccessor

-----------------------------------------------------------------------------

RegionStep(r) == LoopTest(r) \/ Show(r) \/ Wake(r) \/ Expire(r)
BuildStep == SkipLayout \/ RunFails \/ Construct \/ StartRegion \/ AppendRegion
ElapsedStep(t) == ScanExpired(t) \/ LockExpired(t)
DisposeStep(t) == EndDispose(t) \/ Dispose(t)
DisposedStep(t) ==
    Complete(t) \/ ScanDisposed(t) \/ LockDisposed(t) \/ HandOver(t) \/ Unlock(t)

Next ==
    \/ BuildStep
    \/ Register
    \/ \E r \in Region : RegionStep(r) \/ NextMedia(r)
    \/ \E t \in ExternalThread : StartDispose(t)
    \/ \E t \in Disposer : ElapsedStep(t) \/ DisposeStep(t)
    \/ \E t \in Thread : DisposedStep(t)

Spec == Init /\ [][Next]_vars

(* Threads keep running and timers fire.  Nothing says that a key is       *)
(* pressed, that the server ever answers RegisterDisplay, or that an exit  *)
(* transition which is stuck ever reports back.                            *)
Fairness ==
    /\ WF_vars(CallSplash)
    /\ WF_vars(BuildStep)
    /\ \A r \in Region : WF_vars(RegionStep(r)) /\ WF_vars(NextMedia(r))
    /\ \A t \in Disposer : WF_vars(ElapsedStep(t)) /\ WF_vars(DisposeStep(t))
    /\ \A t \in Thread : WF_vars(DisposedStep(t))

FairSpec == Spec /\ Fairness

-----------------------------------------------------------------------------
(* The abstract layout this one implements.                                *)

Life == INSTANCE LayoutLife
          WITH on <- {r \in Region : ~disposed[r]},
               held <- hold,
               asked <- handovers
LifeSpec == Life!Spec

-----------------------------------------------------------------------------
(* Properties.                                                             *)

Place == {"idle", "skip", "skipped", "build", "start", "append", "loop", "show", "wait",
          "expire", "scanE", "lockE", "each", "complete", "scanD", "lockD", "hand",
          "unlock", "register", "call", "late", "stuck", "done", "dead"}

(* Every variable keeps its type; a loop over the regions ends one past    *)
(* the last of them.                                                       *)
TypeOK ==
    /\ built \in 0 .. NumRegions
    /\ expired \in [Region -> BOOLEAN]
    /\ disposing \in [Region -> BOOLEAN]
    /\ disposed \in [Region -> BOOLEAN]
    /\ oneItemOnly \in [Region -> BOOLEAN]
    /\ token \in [Region -> Nat]
    /\ armed \in [Region -> BOOLEAN]
    /\ expiring \in BOOLEAN
    /\ triggered \in BOOLEAN
    /\ hold \in BOOLEAN
    /\ regionLock \in Disposer \cup {NoThread}
    /\ disposeLock \in Thread \cup {NoThread}
    /\ handovers \in Nat
    /\ pc \in [Thread -> Place]
    /\ pos \in [Thread -> 1 .. NumRegions + 1]
    /\ saw \in [Thread -> BOOLEAN]

(* A layout calls DisplayManager.nextLayout at most once, however many     *)
(* regions, transitions, key presses and switches find it disposed: two    *)
(* calls would put two layouts on the screen (nextLayoutTriggered).  The   *)
(* exception is a layout without background colour on which the display    *)
(* manager's thread, having lifted the hold of the layout before it, calls *)
(* regionDisposed(): that call and run() itself each ask for the next one. *)
HandoverOnce ==
    \/ handovers <= 1
    \/ handovers = 2 /\ pc[LM] = "skipped" /\ pc[MainT] = "done"

(* While the splash layout is on hold, nobody hands the screen over; the   *)
(* flag is read under a lock that the thread clearing it does not take     *)
(* ("Holding the splash screen until we're told otherwise").               *)
HoldRespected == hold => handovers = 0

(* When the layout is marked as expired, all of its regions have shown     *)
(* their media ("All regions have expired. Marking layout as expired").    *)
ExpiredWhole == expiring => \A r \in Region : expired[r]

(* Two exit transitions never run on the same region, unless somebody      *)
(* outside the layout disposes it as well.                                 *)
TransitionOnce ==
    \A r \in ExitTransition : \A d1, d2 \in Disposer \ ExternalThread :
        pc[TransT(d1, r)] # "idle" /\ pc[TransT(d2, r)] # "idle" => d1 = d2

(* Region r stays on the screen and an exit transition of it is stuck. *)
Stranded(r) == ~disposed[r] /\ \E d \in Disposer : pc[TransT(d, r)] = "stuck"

(* A layout that is not on hold hands the screen over in the end, unless   *)
(* it keeps a region whose exit transition was given a deleted media and   *)
(* never reports back.  (Of layouts whose run() and dispose() do not raise *)
(* and that are built before their media end or anybody disposes them.)    *)
HandsOver ==
    \/ \E r \in ExitTransition : <>[]Stranded(r)
    \/ ~hold ~> handovers > 0

=============================================================================

-------------------------- MODULE LayoutExit_proofs --------------------------
(***************************************************************************)
(* Theorems about LayoutExit, for any number of regions and of outside     *)
(* disposals: type correctness, the hand-over properties, and that the     *)
(* layout implements LayoutLife.                                           *)
(***************************************************************************)
EXTENDS LayoutExit, TLAPS

-----------------------------------------------------------------------------
(* Type correctness needs to know where a thread can be.                   *)

InDispose == {"complete", "scanD", "lockD", "hand", "unlock"}

(* run() is between two regions, or it still has one to build. *)
BuildRoom == pc[LM] \notin {"skip", "skipped", "build", "done", "dead"}
             => built < NumRegions

(* A loop over the regions that is disposing one is inside the list. *)
LoopInside == \A t \in Disposer : pc[t] \in InDispose => pos[t] <= built

(* The display manager's thread runs regionDisposed and nothing else. *)
MainOnly ==
    pc[MainT] \in {"idle", "register", "call", "late", "scanD", "lockD", "hand", "done"}

PlaceInv == TypeOK /\ BuildRoom /\ LoopInside /\ MainOnly

(* Threads of different kinds are different, and name their region. *)
LEMMA ThreadFacts ==
    /\ LM \in Disposer /\ LM \in Thread /\ MainT \in Thread
    /\ MainT \notin Disposer /\ MainT \notin TransThread
    /\ LM \notin ExternalThread /\ LM \notin TransThread
    /\ Disposer \subseteq Thread
    /\ \A r \in Region : RegionT(r) \in Disposer /\ RegionT(r) # LM
                         /\ RegionT(r) # MainT
    /\ \A t \in RegionThread : t[2] \in Region
    /\ \A t \in TransThread : t[2] \in Region /\ t \in Thread /\ t \notin Disposer
    /\ \A d \in Disposer, r \in ExitTransition : TransT(d, r) \in TransThread
    /\ NoThread \notin Thread
    /\ ExternalThread \cap RegionThread = {}
  <1> USE LayoutAssumption
  <1>1. LM \in Disposer /\ LM \in Thread /\ MainT \in Thread
        /\ Disposer \subseteq Thread
    BY DEF Disposer, Thread
  <1>2. /\ MainT \notin Disposer
        /\ LM \notin ExternalThread
        /\ \A r \in Region : RegionT(r) \in Disposer /\ RegionT(r) # LM
                             /\ RegionT(r) # MainT
        /\ ExternalThread \cap RegionThread = {}
    BY DEF Disposer, RegionThread, ExternalThread, MainT, LM, RegionT, ExternalT
  <1>3. \A t \in RegionThread : t[2] \in Region
    BY DEF RegionThread, RegionT
  <1>4. \A d \in Disposer, r \in ExitTransition : TransT(d, r) \in TransThread
    BY DEF TransThread
  <1>5. \A t \in TransThread : t[2] \in Region /\ t \in Thread
    BY DEF TransThread, TransT, Thread
  <1>6. \A t \in TransThread : t[1] = "trans"
    BY DEF TransThread, TransT
  <1>7. \A t \in Disposer : t[1] \in {"layout", "region", "external"}
    BY DEF Disposer, RegionThread, ExternalThread, LM, RegionT, ExternalT
  <1>8. MainT[1] = "main" /\ NoThread[1] = "nobody"
    BY DEF MainT, NoThread
  <1>9. \A t \in TransThread : t \notin Disposer
    BY <1>6, <1>7
  <1>10. MainT \notin TransThread /\ LM \notin TransThread
    BY <1>6, <1>8, <1>1, <1>9
  <1>11. NoThread \notin Thread
    BY <1>6, <1>7, <1>8 DEF Thread
  <1> QED BY <1>1, <1>2, <1>3, <1>4, <1>5, <1>9, <1>10, <1>11

(* Every variable keeps its type, and every thread its range of places. *)
LEMMA PlaceInit == Init => PlaceInv
  <1> SUFFICES ASSUME Init PROVE PlaceInv
    OBVIOUS
  <1> USE ThreadFacts, LayoutAssumption
  <1>1. \A t \in Thread : pc[t] \in {"skip", "build", "register", "late", "idle"}
    BY DEF Init
  <1>2. TypeOK
    <2>1. hold \in BOOLEAN /\ expiring \in BOOLEAN /\ triggered \in BOOLEAN
      BY DEF Init
    <2>2. /\ expired \in [Region -> BOOLEAN]
          /\ disposing \in [Region -> BOOLEAN]
          /\ disposed \in [Region -> BOOLEAN]
          /\ oneItemOnly \in [Region -> BOOLEAN]
          /\ armed \in [Region -> BOOLEAN]
          /\ saw \in [Thread -> BOOLEAN]
      BY DEF Init
    <2>3. pc \in [Thread -> Place]
      BY DEF Init, Place
    <2> QED BY <2>1, <2>2, <2>3 DEF Init, TypeOK
  <1> QED BY <1>1, <1>2 DEF Init, PlaceInv, BuildRoom, LoopInside, MainOnly, InDispose

LEMMA PlaceStep == PlaceInv /\ [Next]_vars => PlaceInv'
  <1> SUFFICES ASSUME PlaceInv, [Next]_vars PROVE PlaceInv'
    OBVIOUS
  <1> USE ThreadFacts, LayoutAssumption DEF PlaceInv, TypeOK, BuildRoom,
          LoopInside, MainOnly, InDispose, Place, flags, locks, Goto
  <1>1. ASSUME Construct PROVE PlaceInv'
    <2>1. TypeOK'
      <3>1. pc' \in [Thread -> Place]
        BY <1>1 DEF Construct
      <3>2. expired' \in [Region -> BOOLEAN]
        BY <1>1 DEF Construct
      <3>3. UNCHANGED <<built, disposing, disposed, oneItemOnly, token, armed,
                        expiring, triggered, hold, locks, handovers, pos, saw>>
        BY <1>1 DEF Construct
      <3> QED BY <3>1, <3>2, <3>3
    <2>2. BuildRoom'
      BY <1>1 DEF Construct, Building
    <2>3. LoopInside'
      BY <1>1 DEF Construct, Building
    <2>4. MainOnly'
      BY <1>1 DEF Construct, Building
    <2> QED BY <2>1, <2>2, <2>3, <2>4
  <1>2. ASSUME StartRegion PROVE PlaceInv'
    <2>1. TypeOK'
      <3>1. pc' \in [Thread -> Place]
        BY <1>2 DEF StartRegion, Building
      <3>2. UNCHANGED <<built, flags, token, armed, expiring, triggered, hold,
                        locks, handovers, pos, saw>>
        BY <1>2 DEF StartRegion
      <3> QED BY <3>1, <3>2
    <2>2. BuildRoom'
      BY <1>2 DEF StartRegion, Building
    <2>3. LoopInside'
      BY <1>2 DEF StartRegion, Building
    <2>4. MainOnly'
      BY <1>2 DEF StartRegion, Building, Region
    <2> QED BY <2>1, <2>2, <2>3, <2>4
  <1>3. ASSUME AppendRegion PROVE PlaceInv'
    BY <1>3 DEF AppendRegion, Building
  <1>4. ASSUME NEW r \in Region, LoopTest(r) PROVE PlaceInv'
    BY <1>4 DEF LoopTest
  <1>5. ASSUME NEW r \in Region, Show(r) PROVE PlaceInv'
    <2>1. TypeOK'
      <3>1. pc' \in [Thread -> Place]
        BY <1>5 DEF Show
      <3>2. oneItemOnly' \in [Region -> BOOLEAN] /\ armed' \in [Region -> BOOLEAN]
        BY <1>5 DEF Show
      <3>3. UNCHANGED <<built, expired, disposing, disposed, token, expiring,
                        triggered, hold, locks, handovers, pos, saw>>
        BY <1>5 DEF Show
      <3> QED BY <3>1, <3>2, <3>3
    <2>2. BuildRoom'
      BY <1>5 DEF Show
    <2>3. LoopInside'
      BY <1>5 DEF Show
    <2>4. MainOnly'
      BY <1>5 DEF Show
    <2> QED BY <2>1, <2>2, <2>3, <2>4
  <1>6. ASSUME NEW r \in Region, Wake(r) PROVE PlaceInv'
    BY <1>6 DEF Wake
  <1>7. ASSUME NEW r \in Region, Expire(r) PROVE PlaceInv'
    BY <1>7 DEF Expire
  <1>8. ASSUME NEW r \in Region, NextMedia(r) PROVE PlaceInv'
    BY <1>8 DEF NextMedia
  <1>9. ASSUME NEW t \in Disposer, ScanExpired(t) PROVE PlaceInv'
    <2>1. TypeOK'
      <3>1. pc' \in [Thread -> Place]
        BY <1>9 DEF ScanExpired, ReturnElapsed
      <3>2. oneItemOnly' \in [Region -> BOOLEAN]
        BY <1>9 DEF ScanExpired, ReturnElapsed, Disposer
      <3>3. UNCHANGED <<built, expired, disposing, disposed, token, armed,
                        expiring, triggered, hold, locks, handovers, pos, saw>>
        BY <1>9 DEF ScanExpired
      <3> QED BY <3>1, <3>2, <3>3
    <2>2. BuildRoom'
      BY <1>9 DEF ScanExpired, ReturnElapsed
    <2>3. LoopInside'
      BY <1>9 DEF ScanExpired, ReturnElapsed
    <2>4. MainOnly'
      BY <1>9 DEF ScanExpired, ReturnElapsed
    <2> QED BY <2>1, <2>2, <2>3, <2>4
  <1>10. ASSUME NEW t \in Disposer, LockExpired(t) PROVE PlaceInv'
    <2>1. TypeOK'
      <3>1. pc' \in [Thread -> Place]
        BY <1>10 DEF LockExpired, ReturnElapsed
      <3>2. /\ oneItemOnly' \in [Region -> BOOLEAN]
            /\ expiring' \in BOOLEAN
            /\ regionLock' \in Disposer \cup {NoThread}
        BY <1>10 DEF LockExpired, ReturnElapsed, Disposer
      <3>3. UNCHANGED <<built, expired, disposing, disposed, token, armed,
                        triggered, hold, disposeLock, handovers, pos, saw>>
        BY <1>10 DEF LockExpired
      <3> QED BY <3>1, <3>2, <3>3
    <2>2. BuildRoom'
      BY <1>10 DEF LockExpired, ReturnElapsed
    <2>3. LoopInside'
      BY <1>10 DEF LockExpired, ReturnElapsed
    <2>4. MainOnly'
      BY <1>10 DEF LockExpired, ReturnElapsed
    <2> QED BY <2>1, <2>2, <2>3, <2>4
  <1>11. ASSUME NEW t \in ExternalThread, StartDispose(t) PROVE PlaceInv'
    BY <1>11 DEF StartDispose, Disposer
  <1>12. ASSUME NEW t \in Disposer, EndDispose(t) PROVE PlaceInv'
    <2>1. TypeOK'
      <3>1. pc' \in [Thread -> Place]
        BY <1>12 DEF EndDispose, ReturnElapsed
      <3>2. oneItemOnly' \in [Region -> BOOLEAN]
        <4>1. CASE t = LM \/ t \in ExternalThread
          BY <1>12, <4>1 DEF EndDispose, ReturnElapsed
        <4>2. CASE t \in RegionThread
          BY <1>12, <4>2 DEF EndDispose, ReturnElapsed
        <4> QED BY <4>1, <4>2 DEF Disposer
      <3>3. regionLock' \in Disposer \cup {NoThread}
        BY <1>12 DEF EndDispose
      <3>4. UNCHANGED <<built, expired, disposing, disposed, token, armed,
                        expiring, triggered, hold, disposeLock, handovers, pos,
                        saw>>
        BY <1>12 DEF EndDispose
      <3> QED BY <3>1, <3>2, <3>3, <3>4
    <2>2. BuildRoom'
      BY <1>12 DEF EndDispose, InList, ReturnElapsed
    <2>3. LoopInside'
      BY <1>12 DEF EndDispose, InList, ReturnElapsed
    <2>4. MainOnly'
      BY <1>12 DEF EndDispose, InList, ReturnElapsed
    <2> QED BY <2>1, <2>2, <2>3, <2>4
  <1>13. ASSUME NEW t \in Disposer, Dispose(t) PROVE PlaceInv'
    <2>1. TypeOK'
      <3>1. pos[t] \in Region
        BY <1>13 DEF Dispose, InList, Region
      <3>2. disposing' \in [Region -> BOOLEAN]
        BY <1>13 DEF Dispose, InList
      <3>3. pos' \in [Thread -> 1 .. NumRegions + 1]
        <4>1. pos[t] + 1 \in 1 .. NumRegions + 1
          BY <3>1 DEF Region
        <4> QED BY <1>13, <4>1 DEF Dispose, InList
      <3>4. pc' \in [Thread -> Place]
        BY <1>13 DEF Dispose, InList
      <3> QED BY <1>13, <3>2, <3>3, <3>4 DEF Dispose, InList
    <2>2. BuildRoom'
      BY <1>13 DEF Dispose, InList
    <2>3. LoopInside'
      BY <1>13 DEF Dispose, InList
    <2>4. MainOnly'
      BY <1>13 DEF Dispose, InList
    <2> QED BY <2>1, <2>2, <2>3, <2>4
  <1>14. ASSUME NEW t \in Thread, Complete(t) PROVE PlaceInv'
    <2>1. TypeOK'
      BY <1>14 DEF Complete
    <2>2. BuildRoom'
      BY <1>14 DEF Complete, Thread
    <2>3. LoopInside'
      BY <1>14 DEF Complete, Thread
    <2>4. MainOnly'
      BY <1>14 DEF Complete, Thread
    <2> QED BY <2>1, <2>2, <2>3, <2>4
  <1>15. ASSUME NEW t \in Thread, ScanDisposed(t) PROVE PlaceInv'
    <2>1. TypeOK'
      <3>1. AllDisposed \in BOOLEAN
        BY DEF AllDisposed
      <3> QED BY <1>15, <3>1 DEF ScanDisposed
    <2>2. BuildRoom'
      BY <1>15 DEF ScanDisposed, Thread
    <2>3. LoopInside'
      BY <1>15 DEF ScanDisposed, Thread
    <2>4. MainOnly'
      BY <1>15 DEF ScanDisposed, Thread
    <2> QED BY <2>1, <2>2, <2>3, <2>4
  <1>16. ASSUME NEW t \in Thread, LockDisposed(t) PROVE PlaceInv'
    <2>1. TypeOK'
      <3>1. pc' \in [Thread -> Place]
        BY <1>16 DEF LockDisposed, AfterDisposed
      <3>2. disposeLock' \in Thread \cup {NoThread} /\ triggered' \in BOOLEAN
        BY <1>16 DEF LockDisposed
      <3> QED BY <1>16, <3>1, <3>2 DEF LockDisposed
    <2>2. BuildRoom'
      BY <1>16 DEF LockDisposed, AfterDisposed, Thread
    <2>3. LoopInside'
      BY <1>16 DEF LockDisposed, AfterDisposed, Thread
    <2>4. MainOnly'
      BY <1>16 DEF LockDisposed, AfterDisposed, Thread
    <2> QED BY <2>1, <2>2, <2>3, <2>4
  <1>17. ASSUME NEW t \in Thread, HandOver(t) PROVE PlaceInv'
    BY <1>17 DEF HandOver, AfterDisposed, Thread
  <1>18. ASSUME NEW t \in Thread, Unlock(t) PROVE PlaceInv'
    <2>1. TypeOK'
      <3>1. Subject(t) \in Region
        BY <1>18 DEF Unlock, Release, Subject, Thread, Region
      <3>2. token' \in [Region -> Nat]
        BY <1>18, <3>1 DEF Unlock, Release
      <3>3. pos' \in [Thread -> 1 .. NumRegions + 1]
        <4>1. CASE t \in TransThread
          BY <1>18, <4>1 DEF Unlock, Release
        <4>2. CASE t \notin TransThread
          <5>1. pos[t] + 1 \in 1 .. NumRegions + 1
            BY <3>1, <4>2 DEF Subject, Region
          <5> QED BY <1>18, <4>2, <5>1 DEF Unlock, Release
        <4> QED BY <4>1, <4>2
      <3>4. pc' \in [Thread -> Place]
        BY <1>18 DEF Unlock, Release
      <3> QED BY <1>18, <3>2, <3>3, <3>4 DEF Unlock, Release
    <2>2. BuildRoom'
      BY <1>18 DEF Unlock, Release, Subject, Thread
    <2>3. LoopInside'
      BY <1>18 DEF Unlock, Release, Subject, Thread
    <2>4. MainOnly'
      BY <1>18 DEF Unlock, Release, Subject, Thread
    <2> QED BY <2>1, <2>2, <2>3, <2>4
  <1>19. ASSUME LiftHold PROVE PlaceInv'
    BY <1>19 DEF LiftHold
  <1>20. ASSUME UNCHANGED vars PROVE PlaceInv'
    BY <1>20 DEF vars
  <1>21. ASSUME SkipLayout PROVE PlaceInv'
    BY <1>21 DEF SkipLayout, AfterSkip
  <1>22. ASSUME CallSplash PROVE PlaceInv'
    BY <1>22 DEF CallSplash
  <1>23. ASSUME CallSuccessor PROVE PlaceInv'
    BY <1>23 DEF CallSuccessor
  <1>24. ASSUME RunFails PROVE PlaceInv'
    BY <1>24 DEF RunFails
  <1> HIDE DEF PlaceInv, TypeOK, BuildRoom, LoopInside, MainOnly, flags, locks, Goto
  <1> QED
    BY <1>1, <1>2, <1>3, <1>4, <1>5, <1>6, <1>7, <1>8, <1>9, <1>10,
       <1>11, <1>12, <1>13, <1>14, <1>15, <1>16, <1>17, <1>18, <1>19, <1>20,
       <1>21, <1>22, <1>23, <1>24
    DEF Next, BuildStep, Register, RegionStep, ElapsedStep, DisposeStep, DisposedStep

(* Every variable of a layout keeps its type, however its threads run. *)
THEOREM TypeCorrect == Spec => []TypeOK
  <1>1. Spec => []PlaceInv
    BY PlaceInit, PlaceStep, PTL DEF Spec
  <1> QED BY <1>1, PTL DEF PlaceInv

-----------------------------------------------------------------------------
(* The hand-over: the thread that decided to hand over holds the dispose   *)
(* lock until it has done so, and nextLayoutTriggered stays True after.    *)

Colourless == pc[LM] \in {"skip", "skipped"}

HandoverInv ==
    /\ \A t \in Thread : pc[t] = "hand" =>
            /\ disposeLock = t
            /\ triggered
            /\ ~Colourless => handovers = 0
    /\ ~triggered /\ ~Colourless => handovers = 0
    /\ HandoverOnce
    /\ hold => ~triggered
    /\ hold => ~Colourless
    /\ Colourless =>
          /\ built = 0
          /\ handovers <= (IF pc[LM] = "skipped" THEN 1 ELSE 0)
                          + (IF pc[MainT] = "done" THEN 1 ELSE 0)
          /\ \A t \in Thread \ {LM, MainT} :
                \/ pc[t] = "idle"
                \/ t \in ExternalThread /\ pc[t] \in {"each", "done"}

LEMMA HandoverStep == PlaceInv /\ HandoverInv /\ [Next]_vars => HandoverInv'
  <1> SUFFICES ASSUME PlaceInv, HandoverInv, [Next]_vars PROVE HandoverInv'
    OBVIOUS
  <1> USE ThreadFacts, LayoutAssumption DEF PlaceInv, TypeOK, HandoverInv,
          HandoverOnce, Colourless, flags, locks, Goto
  <1>1. ASSUME Construct PROVE HandoverInv'
    BY <1>1 DEF Construct
  <1>2. ASSUME StartRegion PROVE HandoverInv'
    BY <1>2 DEF StartRegion, BuildRoom, Region, Building
  <1>3. ASSUME AppendRegion PROVE HandoverInv'
    BY <1>3 DEF AppendRegion
  <1>4. ASSUME NEW r \in Region, LoopTest(r) PROVE HandoverInv'
    BY <1>4 DEF LoopTest
  <1>5. ASSUME NEW r \in Region, Show(r) PROVE HandoverInv'
    BY <1>5 DEF Show
  <1>6. ASSUME NEW r \in Region, Wake(r) PROVE HandoverInv'
    BY <1>6 DEF Wake
  <1>7. ASSUME NEW r \in Region, Expire(r) PROVE HandoverInv'
    BY <1>7 DEF Expire
  <1>8. ASSUME NEW r \in Region, NextMedia(r) PROVE HandoverInv'
    BY <1>8 DEF NextMedia
  <1>9. ASSUME NEW t \in Disposer, ScanExpired(t) PROVE HandoverInv'
    BY <1>9 DEF ScanExpired, ReturnElapsed
  <1>10. ASSUME NEW t \in Disposer, LockExpired(t) PROVE HandoverInv'
    BY <1>10 DEF LockExpired, ReturnElapsed
  <1>11. ASSUME NEW t \in ExternalThread, StartDispose(t) PROVE HandoverInv'
    BY <1>11 DEF StartDispose, Disposer
  <1>12. ASSUME NEW t \in Disposer, EndDispose(t) PROVE HandoverInv'
    BY <1>12 DEF EndDispose, InList, ReturnElapsed
  <1>13. ASSUME NEW t \in Disposer, Dispose(t) PROVE HandoverInv'
    BY <1>13 DEF Dispose, InList
  <1>14. ASSUME NEW t \in Thread, Complete(t) PROVE HandoverInv'
    BY <1>14 DEF Complete
  <1>15. ASSUME NEW t \in Thread, ScanDisposed(t) PROVE HandoverInv'
    BY <1>15 DEF ScanDisposed
  <1>16. ASSUME NEW t \in Thread, LockDisposed(t) PROVE HandoverInv'
    BY <1>16 DEF LockDisposed, AfterDisposed, MayTrigger
  <1>17. ASSUME NEW t \in Thread, HandOver(t) PROVE HandoverInv'
    BY <1>17 DEF HandOver, AfterDisposed
  <1>18. ASSUME NEW t \in Thread, Unlock(t) PROVE HandoverInv'
    BY <1>18 DEF Unlock, Release
  <1>19. ASSUME LiftHold PROVE HandoverInv'
    BY <1>19 DEF LiftHold
  <1>20. ASSUME UNCHANGED vars PROVE HandoverInv'
    BY <1>20 DEF vars
  <1>21. ASSUME SkipLayout PROVE HandoverInv'
    BY <1>21 DEF SkipLayout, AfterSkip
  <1>22. ASSUME CallSplash PROVE HandoverInv'
    BY <1>22 DEF CallSplash
  <1>23. ASSUME CallSuccessor PROVE HandoverInv'
    BY <1>23 DEF CallSuccessor
  <1>24. ASSUME RunFails PROVE HandoverInv'
    BY <1>24 DEF RunFails
  <1> HIDE DEF PlaceInv, TypeOK, HandoverInv, HandoverOnce, Colourless, flags,
               locks, Goto
  <1> QED
    BY <1>1, <1>2, <1>3, <1>4, <1>5, <1>6, <1>7, <1>8, <1>9, <1>10,
       <1>11, <1>12, <1>13, <1>14, <1>15, <1>16, <1>17, <1>18, <1>19, <1>20,
       <1>21, <1>22, <1>23, <1>24
    DEF Next, BuildStep, Register, RegionStep, ElapsedStep, DisposeStep, DisposedStep

LEMMA HandoverInvariant == Spec => [](PlaceInv /\ HandoverInv)
  <1>1. ASSUME Init PROVE HandoverInv
    <2>1. PICK skips \in BOOLEAN, mistaken \in BOOLEAN :
            /\ hold = (Splash /\ ~skips /\ ~mistaken)
            /\ pc = [t \in Thread |->
                       IF t = LM THEN (IF skips THEN "skip" ELSE "build")
                       ELSE IF t = MainT /\ hold THEN "register"
                       ELSE IF t = MainT /\ mistaken THEN "late"
                       ELSE "idle"]
      BY <1>1 DEF Init
    <2>2. pc[LM] = IF skips THEN "skip" ELSE "build"
      BY <2>1, ThreadFacts
    <2>3. skips => ~hold
      BY <2>1
    <2>4. /\ \A t \in Thread \ {LM, MainT} : pc[t] = "idle"
          /\ pc[MainT] \in {"register", "late", "idle"}
      BY <2>1, ThreadFacts
    <2>5. handovers = 0 /\ built = 0 /\ ~triggered
      BY <1>1 DEF Init
    <2>6. \A t \in Thread : pc[t] # "hand"
      BY <2>2, <2>4
    <2>7. Colourless => ~hold /\ \A t \in Thread \ {LM, MainT} : pc[t] = "idle"
      BY <2>2, <2>3, <2>4 DEF Colourless
    <2> QED BY <2>5, <2>6, <2>7 DEF HandoverInv, HandoverOnce
  <1> QED BY <1>1, PlaceInit, PlaceStep, HandoverStep, PTL DEF Spec

(* A layout asks for its successor at most once: whichever threads find    *)
(* all regions disposed, only one passes the test of nextLayoutTriggered.  *)
(* One without background colour may ask twice, if the display manager's   *)
(* thread takes it for the splash layout, and no layout ever asks oftener. *)
THEOREM HandsOverOnce == Spec => []HandoverOnce
  <1> QED BY HandoverInvariant, PTL DEF HandoverInv

(* A layout on hold never asks for its successor.  The hold is lifted      *)
(* outside the dispose lock, but it is only ever lifted.                   *)
THEOREM HoldIsRespected == Spec => []HoldRespected
  <1>1. HandoverInv => HoldRespected
    BY DEF HandoverInv, HoldRespected
  <1> QED BY <1>1, HandoverInvariant, PTL

-----------------------------------------------------------------------------
(* One exit transition per region: of the layout's own threads only the    *)
(* one that set "expiring" ever disposes the regions, once, and it starts  *)
(* the transitions on its way.                                             *)

Inner == Disposer \ ExternalThread
Busy == {"each"} \cup InDispose

(* A thread of the layout that has begun to dispose the regions. *)
Began(d) ==
    \/ pc[d] \in Busy
    \/ \E r \in ExitTransition : pc[TransT(d, r)] # "idle"

SoleInv ==
    /\ \A d \in Inner : Began(d) => expiring
    /\ \A d1, d2 \in Inner : Began(d1) /\ Began(d2) => d1 = d2

LEMMA InnerFacts ==
    /\ LM \in Inner /\ Inner \subseteq Disposer
    /\ \A r \in Region : RegionT(r) \in Inner
    /\ \A d \in Inner, r \in ExitTransition :
           TransT(d, r) \in Thread /\ TransT(d, r) \notin Disposer
    /\ \A d1, d2 \in Disposer, r1, r2 \in ExitTransition :
           TransT(d1, r1) = TransT(d2, r2) => d1 = d2 /\ r1 = r2
  <1>1. \A r \in Region : RegionT(r) \in RegionThread /\ RegionT(r) \in Disposer
    BY DEF RegionThread, Disposer
  <1>2. \A d1, d2 \in Disposer, r1, r2 \in ExitTransition :
           TransT(d1, r1) = TransT(d2, r2) => d1 = d2 /\ r1 = r2
    BY DEF TransT
  <1> QED BY ThreadFacts, <1>1, <1>2 DEF Inner

\* A thread that moves on has not begun by doing so, unless it is from
\* outside or moves to where only those who have begun are.
LEMMA GoingOn ==
  ASSUME PlaceInv, NEW t \in Thread, NEW l, Goto(t, l),
         t \in Inner /\ l \in Busy => pc[t] \in Busy,
         t \in TransThread => pc[t] # "idle",
         NEW d \in Inner, Began(d)'
  PROVE  Began(d)
  <1>1. /\ pc \in [Thread -> Place] /\ d \in Thread /\ d \in Disposer
        /\ pc' = [pc EXCEPT ![t] = l]
    BY InnerFacts, ThreadFacts DEF PlaceInv, TypeOK, Goto
  <1>2. CASE pc'[d] \in Busy
    <2>1. pc[d] \in Busy
      BY <1>1, <1>2
    <2> QED BY <2>1 DEF Began
  <1>3. ASSUME NEW r \in ExitTransition, pc'[TransT(d, r)] # "idle"
        PROVE  Began(d)
    <2>1. TransT(d, r) \in Thread /\ TransT(d, r) \in TransThread
      BY InnerFacts, ThreadFacts, <1>1
    <2>2. pc[TransT(d, r)] # "idle"
      BY <1>1, <1>3, <2>1
    <2> QED BY <2>2 DEF Began
  <1>4. pc'[d] \in Busy \/ \E r \in ExitTransition : pc'[TransT(d, r)] # "idle"
    BY DEF Began
  <1> QED BY <1>2, <1>3, <1>4

\* Nobody begins but the first to find every region expired.
LEMMA NobodyBegins ==
  ASSUME PlaceInv, [Next]_vars,
         \A t \in Disposer : ~(LockExpired(t) /\ FirstToExpire),
         NEW d \in Inner, Began(d)'
  PROVE  Began(d)
  <1> USE InnerFacts, ThreadFacts
  <1>0. pc \in [Thread -> Place] /\ d \in Thread /\ d \in Disposer
    BY DEF PlaceInv, TypeOK
  <1>1. CASE \E t \in Thread, l \in Place :
               /\ Goto(t, l)
               /\ t \in Inner /\ l \in Busy => pc[t] \in Busy
               /\ t \in TransThread => pc[t] # "idle"
    BY <1>1, GoingOn
  <1>2. CASE UNCHANGED pc
    BY <1>2 DEF Began
  <1>3. CASE BuildStep
    <2>1. CASE StartRegion
      <3>1. PICK l \in {"loop", "dead"} :
              pc' = [pc EXCEPT ![LM] = "append", ![RegionT(Building)] = l]
        BY <2>1 DEF StartRegion
      <3>2. pc[LM] = "start"
        BY <2>1 DEF StartRegion
      <3>3. pc'[d] \in Busy => pc[d] \in Busy
        BY <1>0, <3>1, <3>2 DEF Busy, InDispose
      <3>4. ASSUME NEW r \in ExitTransition
            PROVE  pc'[TransT(d, r)] = pc[TransT(d, r)]
        <4>1. built < NumRegions /\ built \in Nat /\ NumRegions \in Nat
          BY <3>2, LayoutAssumption DEF PlaceInv, BuildRoom, TypeOK
        <4>2. Building \in Region
          BY <4>1 DEF Building, Region
        <4>3. TransT(d, r) # LM /\ TransT(d, r) # RegionT(Building)
          BY <1>0, <4>2
        <4> QED BY <1>0, <3>1, <4>3
      <3> QED BY <3>3, <3>4 DEF Began
    <2>2. CASE ~StartRegion
      <3>1. \E l \in Place \ Busy : Goto(LM, l)
        BY <1>3, <2>2 DEF BuildStep, SkipLayout, AfterSkip, RunFails, Construct, AppendRegion,
                          Place, Busy, InDispose
      <3> QED BY <1>1, <3>1
    <2> QED BY <2>1, <2>2
  <1>4. CASE Register
    <2>1. \E l \in {"call", "scanD", "done"} : Goto(MainT, l)
      BY <1>4 DEF Register, LiftHold, CallSplash, CallSuccessor
    <2>2. MainT \notin Inner /\ {"call", "scanD", "done"} \subseteq Place
      BY DEF Place, Inner
    <2> QED BY <1>1, <2>1, <2>2
  <1>5. ASSUME NEW r \in Region, RegionStep(r) PROVE Began(d)
    <2>1. \E l \in Place \ Busy : Goto(RegionT(r), l)
      BY <1>5 DEF RegionStep, LoopTest, Show, Wake, Expire, Place, Busy, InDispose
    <2> QED BY <1>1, <2>1
  <1>6. ASSUME NEW r \in Region, NextMedia(r) PROVE Began(d)
    BY <1>6, <1>2 DEF NextMedia
  <1>7. ASSUME NEW t \in ExternalThread, StartDispose(t) PROVE Began(d)
    <2>1. Goto(t, "each") /\ "each" \in Place /\ t \notin Inner /\ t \in Disposer
      BY <1>7 DEF StartDispose, Place, Inner, Disposer
    <2> QED BY <1>1, <2>1
  <1>8. ASSUME NEW t \in Disposer, ElapsedStep(t) PROVE Began(d)
    <2>1. \E l \in Place \ Busy : Goto(t, l)
      BY <1>8 DEF ElapsedStep, ScanExpired, LockExpired, ReturnElapsed, Place,
                  Busy, InDispose
    <2> QED BY <1>1, <2>1
  <1>9. ASSUME NEW t \in Disposer, EndDispose(t) PROVE Began(d)
    <2>1. \E l \in Place \ Busy : Goto(t, l)
      BY <1>9 DEF EndDispose, ReturnElapsed, Place, Busy, InDispose
    <2> QED BY <1>1, <2>1
  <1>10. ASSUME NEW t \in Disposer, Dispose(t) PROVE Began(d)
    <2>1. pc[t] = "each" /\ pc[t] \in Busy
      BY <1>10 DEF Dispose, Busy
    <2>2. CASE \E l \in Place : Goto(t, l)
      BY <1>1, <2>1, <2>2
    <2>3. CASE /\ pos[t] \in ExitTransition
               /\ \E l \in {"complete", "stuck"} : Goto(TransT(t, pos[t]), l)
      <3>1. CASE d = t
        BY <2>1, <3>1 DEF Began
      <3>2. CASE d # t
        <4>1. \A r \in ExitTransition : TransT(d, r) # TransT(t, pos[t])
          BY <1>0, <2>3, <3>2
        <4>2. d # TransT(t, pos[t])
          BY <1>0, <2>3
        <4>3. pc'[d] = pc[d] /\ \A r \in ExitTransition :
                                   pc'[TransT(d, r)] = pc[TransT(d, r)]
          BY <1>0, <2>3, <4>1, <4>2 DEF Goto
        <4> QED BY <4>3 DEF Began
      <3> QED BY <3>1, <3>2
    <2>4. \/ \E l \in Place : Goto(t, l)
          \/ /\ pos[t] \in ExitTransition
             /\ \E l \in {"complete", "stuck"} : Goto(TransT(t, pos[t]), l)
      <3>1. CASE Goto(t, "dead") \/ Goto(t, "complete")
        BY <3>1 DEF Place
      <3>2. CASE /\ pos[t] \in ExitTransition
                 /\ \E l \in {"complete", "stuck"} : Goto(TransT(t, pos[t]), l)
        BY <3>2
      <3> QED BY <1>10, <3>1, <3>2 DEF Dispose
    <2> QED BY <2>2, <2>3, <2>4
  <1>11. ASSUME NEW t \in Thread, DisposedStep(t) PROVE Began(d)
    <2>1. pc[t] \in Busy /\ pc[t] # "idle"
      BY <1>11 DEF DisposedStep, Complete, ScanDisposed, LockDisposed, HandOver,
                   Unlock, Busy, InDispose
    <2>2. \E l \in Place : Goto(t, l)
      BY <1>11 DEF DisposedStep, Complete, ScanDisposed, LockDisposed, HandOver,
                   Unlock, AfterDisposed, Place
    <2> QED BY <1>1, <2>1, <2>2
  <1>12. CASE UNCHANGED vars
    BY <1>12, <1>2 DEF vars
  <1> QED
    BY <1>3, <1>4, <1>5, <1>6, <1>7, <1>8, <1>9, <1>10, <1>11, <1>12
       DEF Next, DisposeStep

LEMMA SoleStep == PlaceInv /\ SoleInv /\ [Next]_vars => SoleInv'
  <1> SUFFICES ASSUME PlaceInv, SoleInv, [Next]_vars PROVE SoleInv'
    OBVIOUS
  <1>1. ASSUME NEW t \in Disposer, LockExpired(t), FirstToExpire PROVE SoleInv'
    <2>1. expiring' /\ ~expiring /\ Goto(t, "each")
      BY <1>1 DEF LockExpired, FirstToExpire
    <2>2. \A d \in Inner : ~Began(d)
      BY <2>1 DEF SoleInv
    <2>3. pc \in [Thread -> Place] /\ pc' = [pc EXCEPT ![t] = "each"]
      BY <2>1 DEF PlaceInv, TypeOK, Goto
    <2>4. ASSUME NEW d \in Inner, d # t PROVE ~Began(d)'
      <3>1. d \in Thread /\ pc'[d] = pc[d]
        BY <2>3, <2>4, InnerFacts, ThreadFacts
      <3>2. \A r \in ExitTransition : pc'[TransT(d, r)] = pc[TransT(d, r)]
        BY <2>3, InnerFacts
      <3> QED BY <2>2, <3>1, <3>2 DEF Began
    <2> QED BY <2>1, <2>4 DEF SoleInv
  <1>2. CASE \A t \in Disposer : ~(LockExpired(t) /\ FirstToExpire)
    <2>1. \A d \in Inner : Began(d)' => Began(d)
      BY <1>2, NobodyBegins
    <2>2. expiring => expiring'
      BY DEF PlaceInv, TypeOK, Next, vars, BuildStep, SkipLayout, Construct, StartRegion,
             AppendRegion, RunFails, Register,
             LiftHold, CallSplash, CallSuccessor, RegionStep, LoopTest, Show, Wake, Expire,
             NextMedia, StartDispose, ElapsedStep, ScanExpired, LockExpired,
             DisposeStep, EndDispose, Dispose, DisposedStep, Complete,
             ScanDisposed, LockDisposed, HandOver, Unlock
    <2> QED BY <2>1, <2>2 DEF SoleInv
  <1> QED BY <1>1, <1>2

(* No region has two exit transitions at a time, however many of the       *)
(* layout's threads find every region expired at once: __regionLock lets   *)
(* one of them set "expiring", and only that one disposes the regions.     *)
THEOREM TransitionOnceAlways == Spec => []TransitionOnce
  <1>1. ASSUME Init PROVE SoleInv
    <2>1. \A t \in Thread : pc[t] \notin Busy
      BY <1>1 DEF Init, Busy, InDispose
    <2>2. \A t \in TransThread : pc[t] = "idle"
      BY <1>1, ThreadFacts DEF Init
    <2>3. \A d \in Inner : ~Began(d)
      BY <2>1, <2>2, InnerFacts, ThreadFacts DEF Began
    <2> QED BY <2>3 DEF SoleInv
  <1>2. SoleInv => TransitionOnce
    BY DEF SoleInv, Began, TransitionOnce, Inner
  <1> QED BY <1>1, <1>2, PlaceInit, PlaceStep, SoleStep, PTL DEF Spec

-----------------------------------------------------------------------------
(* The layout implements LayoutLife, provided that its regions are valid   *)
(* and that nothing ends or is disposed before run() has built them all.   *)

Timely == BuiltFirst /\ OutsideLater /\ Invalid = {} /\ ~NoColour /\ ~RunRaises

(* What holds until the last region is built: nobody leaves. *)
Quiet ==
    /\ \A t \in Thread \ {LM} :
           pc[t] \in {"idle", "loop", "show", "wait", "register", "late"}
    /\ \A r \in Region : /\ token[r] = 0
                         /\ ~disposing[r]
                         /\ ~disposed[r]
                         /\ ~oneItemOnly[r]

AllGone == \A r \in Region : disposed[r]

LifeInv ==
    /\ pc[LM] \in {"build", "start", "append", "done"}
    /\ pc[LM] = "done" => built = NumRegions
    /\ pc[LM] # "done" => Quiet
    /\ \A t \in Thread : pc[t] = "lockD" /\ saw[t] => AllGone
    /\ triggered => AllGone

LEMMA LifeInit == Timely /\ Init => LifeInv
  <1> SUFFICES ASSUME Timely, Init PROVE LifeInv
    OBVIOUS
  <1>1. Quiet
    BY ThreadFacts DEF Init, Quiet
  <1> QED BY <1>1, ThreadFacts DEF Timely, Init, LifeInv

LEMMA LifeStep ==
  ASSUME Timely, PlaceInv, HandoverInv, LifeInv, [Next]_vars
  PROVE  LifeInv'
  <1> USE ThreadFacts, LayoutAssumption DEF Timely, PlaceInv, TypeOK, LifeInv,
          Quiet, AllGone, BuildOver, flags, locks, Goto
  <1>1. ASSUME Construct PROVE LifeInv'
    BY <1>1 DEF Construct, Building, Region
  <1>2. ASSUME StartRegion PROVE LifeInv'
    BY <1>2 DEF StartRegion, BuildRoom, Region, Building
  <1>3. ASSUME AppendRegion PROVE LifeInv'
    BY <1>3 DEF AppendRegion, Building
  <1>4. ASSUME NEW r \in Region, LoopTest(r) PROVE LifeInv'
    BY <1>4 DEF LoopTest
  <1>5. ASSUME NEW r \in Region, Show(r) PROVE LifeInv'
    BY <1>5 DEF Show
  <1>6. ASSUME NEW r \in Region, Wake(r) PROVE LifeInv'
    BY <1>6 DEF Wake
  <1>7. ASSUME NEW r \in Region, Expire(r) PROVE LifeInv'
    BY <1>7 DEF Expire
  <1>8. ASSUME NEW r \in Region, NextMedia(r) PROVE LifeInv'
    BY <1>8 DEF NextMedia
  <1>9. ASSUME NEW t \in Disposer, ScanExpired(t) PROVE LifeInv'
    BY <1>9 DEF ScanExpired, ReturnElapsed
  <1>10. ASSUME NEW t \in Disposer, LockExpired(t) PROVE LifeInv'
    BY <1>10 DEF LockExpired, ReturnElapsed
  <1>11. ASSUME NEW t \in ExternalThread, StartDispose(t) PROVE LifeInv'
    BY <1>11 DEF StartDispose, Disposer
  <1>12. ASSUME NEW t \in Disposer, EndDispose(t) PROVE LifeInv'
    BY <1>12 DEF EndDispose, InList, ReturnElapsed
  <1>13. ASSUME NEW t \in Disposer, Dispose(t) PROVE LifeInv'
    BY <1>13 DEF Dispose, InList
  <1>14. ASSUME NEW t \in Thread, Complete(t) PROVE LifeInv'
    BY <1>14 DEF Complete
  <1>15. ASSUME NEW t \in Thread, ScanDisposed(t) PROVE LifeInv'
    BY <1>15 DEF ScanDisposed, AllDisposed, Region
  <1>16. ASSUME NEW t \in Thread, LockDisposed(t) PROVE LifeInv'
    BY <1>16 DEF LockDisposed, AfterDisposed, MayTrigger
  <1>17. ASSUME NEW t \in Thread, HandOver(t) PROVE LifeInv'
    BY <1>17 DEF HandOver, AfterDisposed
  <1>18. ASSUME NEW t \in Thread, Unlock(t) PROVE LifeInv'
    BY <1>18 DEF Unlock, Release
  <1>19. ASSUME LiftHold PROVE LifeInv'
    BY <1>19 DEF LiftHold
  <1>20. ASSUME UNCHANGED vars PROVE LifeInv'
    BY <1>20 DEF vars
  <1>21. ASSUME SkipLayout PROVE LifeInv'
    BY <1>21 DEF SkipLayout, AfterSkip
  <1>22. ASSUME CallSplash PROVE LifeInv'
    BY <1>22 DEF CallSplash
  <1>23. ASSUME CallSuccessor PROVE LifeInv'
    BY <1>23 DEF CallSuccessor
  <1>24. ASSUME RunFails PROVE LifeInv'
    BY <1>24 DEF RunFails
  <1> HIDE DEF PlaceInv, TypeOK, LifeInv, Quiet, AllGone, BuildOver, flags, locks, Goto
  <1> QED
    BY <1>1, <1>2, <1>3, <1>4, <1>5, <1>6, <1>7, <1>8, <1>9, <1>10,
       <1>11, <1>12, <1>13, <1>14, <1>15, <1>16, <1>17, <1>18, <1>19, <1>20,
       <1>21, <1>22, <1>23, <1>24
    DEF Next, BuildStep, Register, RegionStep, ElapsedStep, DisposeStep, DisposedStep

LEMMA LifeInitRefined == Timely /\ Init => Life!Init
  <1> SUFFICES ASSUME Timely, Init PROVE Life!Init
    OBVIOUS
  <1>1. hold \in BOOLEAN /\ (hold => Splash)
    BY DEF Init
  <1> QED BY <1>1 DEF Init, Life!Init

(* A region's disposeTransitionComplete is its leaving; the return of      *)
(* RegisterDisplay lets go; parent.nextLayout() asks for the next layout.  *)
LEMMA LifeStepRefined ==
  ASSUME Timely, PlaceInv, HandoverInv, LifeInv, [Next]_vars
  PROVE  [Life!Next]_<<{r \in Region : ~disposed[r]}, hold, handovers>>
  <1> USE ThreadFacts, LayoutAssumption DEF PlaceInv, TypeOK, flags, locks
  <1> DEFINE on == {r \in Region : ~disposed[r]}
             Stays == UNCHANGED <<on, hold, handovers>>
             Same == UNCHANGED <<disposed, hold, handovers>>
  <1>1. Same => Stays
    OBVIOUS
  <1>2. ASSUME BuildStep PROVE Same
    BY <1>2 DEF LifeInv, BuildStep, SkipLayout, RunFails, Construct, StartRegion, AppendRegion
  <1>3. ASSUME NEW r \in Region, RegionStep(r) \/ NextMedia(r) PROVE Same
    BY <1>3 DEF RegionStep, LoopTest, Show, Wake, Expire, NextMedia
  <1>4. ASSUME NEW t \in Disposer, ElapsedStep(t) \/ DisposeStep(t) PROVE Same
    BY <1>4 DEF ElapsedStep, ScanExpired, LockExpired, DisposeStep,
                EndDispose, Dispose
  <1>5. ASSUME NEW t \in ExternalThread, StartDispose(t) PROVE Same
    BY <1>5 DEF StartDispose
  <1>6. ASSUME LiftHold PROVE Life!LetGo
    BY <1>6 DEF LiftHold, Life!LetGo
  <1>7. ASSUME NEW t \in Thread, Complete(t)
        PROVE  Subject(t) \in Region /\ Life!Leave(Subject(t))
    <2>1. Subject(t) \in Region
      <3>1. CASE t \in TransThread
        BY <3>1 DEF Subject
      <3>2. CASE t \in Disposer
        <4>1. pos[t] <= built
          BY <1>7, <3>2 DEF Complete, LoopInside, InDispose
        <4> QED BY <3>2, <4>1 DEF Subject, Region
      <3>3. CASE t = MainT
        BY <1>7, <3>3 DEF Complete, MainOnly
      <3> QED BY <3>1, <3>2, <3>3 DEF Thread
    <2>2. on' = on \ {Subject(t)}
      BY <1>7, <2>1 DEF Complete
    <2> QED BY <1>7, <2>1, <2>2 DEF Complete, Life!Leave
  <1>8. ASSUME NEW t \in Thread, HandOver(t) PROVE Life!AskNext
    <2>1. on = {} /\ ~hold /\ handovers = 0
      BY <1>8 DEF HandOver, HandoverInv, LifeInv, AllGone
    <2> QED BY <1>8, <2>1 DEF HandOver, Life!AskNext
  <1>9. ASSUME NEW t \in Thread,
               ScanDisposed(t) \/ LockDisposed(t) \/ Unlock(t)
        PROVE  Same
    BY <1>9 DEF ScanDisposed, LockDisposed, Unlock
  <1>10. ASSUME UNCHANGED vars PROVE Same
    BY <1>10 DEF vars
  <1>12. ASSUME CallSplash \/ CallSuccessor PROVE Same
    BY <1>12 DEF CallSplash, CallSuccessor
  <1>11. Life!Next \/ Stays
    <2>1. CASE LiftHold
      BY <2>1, <1>6 DEF Life!Next
    <2>2. CASE \E t \in Thread : HandOver(t)
      BY <2>2, <1>8 DEF Life!Next
    <2>3. CASE \E t \in Thread : Complete(t)
      <3>1. PICK t \in Thread : Complete(t)
        BY <2>3
      <3> QED BY <3>1, <1>7 DEF Life!Next, Life!Leave
    <2>4. CASE Same
      BY <2>4, <1>1
    <2> QED BY <2>1, <2>2, <2>3, <2>4, <1>2, <1>3, <1>4, <1>5, <1>9, <1>10, <1>12
            DEF Next, Register, DisposedStep
  <1> QED BY <1>11

(* Built in time, a layout is on the screen whole until its regions have   *)
(* left it one by one, and then asks for the next layout exactly once.     *)
THEOREM ImplementsLife ==
  ASSUME Timely
  PROVE  Spec => LifeSpec
  <1>1. Spec => [](PlaceInv /\ HandoverInv /\ LifeInv)
    <2>1. PlaceInv /\ HandoverInv /\ LifeInv /\ [Next]_vars => LifeInv'
      BY LifeStep
    <2> QED BY <2>1, LifeInit, HandoverInvariant, PTL DEF Spec
  <1>2. PlaceInv /\ HandoverInv /\ LifeInv /\ [Next]_vars
        => [Life!Next]_<<{r \in Region : ~disposed[r]}, hold, handovers>>
    BY LifeStepRefined
  <1> QED BY <1>1, <1>2, LifeInitRefined, PTL DEF Spec, LifeSpec, Life!Spec

-----------------------------------------------------------------------------
(* Expiry, under the same condition.  A thread waiting for __regionLock    *)
(* has found every region of the whole list expired, and no region's flag  *)
(* is ever reset.                                                          *)

AllShown == \A r \in Region : expired[r]

WholeInv ==
    /\ \A t \in Disposer : pc[t] = "lockE" => AllShown
    /\ expiring => AllShown

LEMMA WholeStep ==
  ASSUME Timely, PlaceInv, LifeInv, WholeInv, [Next]_vars
  PROVE  WholeInv'
  <1> USE ThreadFacts DEF WholeInv
  <1>0. pc \in [Thread -> Place] /\ expired \in [Region -> BOOLEAN]
    BY DEF PlaceInv, TypeOK
  <1>1. AllShown => AllShown'
    BY <1>0 DEF AllShown, Next, vars, flags, BuildStep, SkipLayout, Construct,
           StartRegion, AppendRegion, RunFails, Register, LiftHold, CallSplash,
           CallSuccessor, RegionStep, LoopTest, Show,
           Wake, Expire, NextMedia, StartDispose, ElapsedStep, ScanExpired,
           LockExpired, DisposeStep, EndDispose, Dispose, DisposedStep,
           Complete, ScanDisposed, LockDisposed, HandOver, Unlock
  <1>2. ASSUME NEW t \in Disposer, ScanExpired(t) PROVE WholeInv'
    <2>1. expiring' = expiring
      BY <1>2 DEF ScanExpired
    <2>2. ASSUME NEW u \in Disposer, pc'[u] = "lockE" PROVE AllShown'
      <3>1. CASE u # t
        <4>1. pc[u] = "lockE"
          BY <1>0, <1>2, <2>2, <3>1 DEF ScanExpired, ReturnElapsed, Goto
        <4> QED BY <1>1, <4>1
      <3>2. CASE u = t
        <4>1. AllExpired
          BY <1>0, <1>2, <2>2, <3>2 DEF ScanExpired, ReturnElapsed, Goto
        <4>2. pc[LM] = "done"
          BY <1>2 DEF LifeInv, Quiet, ScanExpired
        <4>3. built = NumRegions
          BY <4>2 DEF LifeInv
        <4> QED BY <1>1, <4>1, <4>3 DEF AllShown, AllExpired, Region
      <3> QED BY <3>1, <3>2
    <2> QED BY <1>1, <2>1, <2>2
  <1>3. ASSUME NEW t \in Disposer, LockExpired(t) PROVE WholeInv'
    <2>1. AllShown'
      BY <1>1, <1>3 DEF LockExpired
    <2> QED BY <2>1
  <1>4. CASE /\ expiring' = expiring
             /\ \A u \in Disposer : pc'[u] = "lockE" => pc[u] = "lockE"
    BY <1>1, <1>4
  <1>5. CASE BuildStep
    <2>1. expiring' = expiring
      BY <1>5 DEF BuildStep, SkipLayout, RunFails, Construct, StartRegion,
                        AppendRegion
    <2>2. \A u \in Disposer : pc'[u] = "lockE" => pc[u] = "lockE"
      BY <1>0, <1>5 DEF BuildStep, SkipLayout, AfterSkip, RunFails, Construct,
                        StartRegion, AppendRegion, Goto
    <2> QED BY <1>4, <2>1, <2>2
  <1>6. CASE Register
    <2>1. expiring' = expiring
      BY <1>6 DEF Register, LiftHold, CallSplash, CallSuccessor
    <2>2. \A u \in Disposer : pc'[u] = "lockE" => pc[u] = "lockE"
      BY <1>0, <1>6 DEF Register, LiftHold, CallSplash, CallSuccessor, Goto
    <2> QED BY <1>4, <2>1, <2>2
  <1>7. ASSUME NEW r \in Region, RegionStep(r) \/ NextMedia(r) PROVE WholeInv'
    <2>1. expiring' = expiring
      BY <1>7 DEF RegionStep, LoopTest, Show, Wake, Expire, NextMedia
    <2>2. \A u \in Disposer : pc'[u] = "lockE" => pc[u] = "lockE"
      BY <1>0, <1>7 DEF RegionStep, LoopTest, Show, Wake, Expire, NextMedia, Goto
    <2> QED BY <1>4, <2>1, <2>2
  <1>8. ASSUME NEW t \in ExternalThread, StartDispose(t) PROVE WholeInv'
    BY <1>0, <1>4, <1>8 DEF StartDispose, Goto
  <1>9. ASSUME NEW t \in Disposer, DisposeStep(t) PROVE WholeInv'
    <2>1. expiring' = expiring
      BY <1>9 DEF DisposeStep, EndDispose, Dispose
    <2>2. \A u \in Disposer : pc'[u] = "lockE" => pc[u] = "lockE"
      BY <1>0, <1>9 DEF DisposeStep, EndDispose, Dispose, ReturnElapsed, Goto
    <2> QED BY <1>4, <2>1, <2>2
  <1>10. ASSUME NEW t \in Thread, DisposedStep(t) PROVE WholeInv'
    <2>1. expiring' = expiring
      BY <1>10 DEF DisposedStep, Complete, ScanDisposed, LockDisposed, HandOver, Unlock
    <2>2. \A u \in Disposer : pc'[u] = "lockE" => pc[u] = "lockE"
      BY <1>0, <1>10 DEF DisposedStep, Complete, ScanDisposed, LockDisposed,
                         HandOver, Unlock, AfterDisposed, Goto
    <2> QED BY <1>4, <2>1, <2>2
  <1>11. CASE UNCHANGED vars
    BY <1>4, <1>11 DEF vars
  <1> QED
    BY <1>2, <1>3, <1>5, <1>6, <1>7, <1>8, <1>9, <1>10, <1>11
       DEF Next, ElapsedStep

(* A layout built in time is marked as expired only when every one of its  *)
(* regions has shown its media, those included that run() appended last.   *)
THEOREM ExpiredWholeAlways ==
  ASSUME Timely
  PROVE  Spec => []ExpiredWhole
  <1>1. Init => WholeInv
    BY ThreadFacts DEF Init, WholeInv
  <1>2. PlaceInv /\ HandoverInv /\ LifeInv /\ [Next]_vars => LifeInv'
    BY LifeStep
  <1>3. PlaceInv /\ LifeInv /\ WholeInv /\ [Next]_vars => WholeInv'
    BY WholeStep
  <1>4. WholeInv => ExpiredWhole
    BY DEF WholeInv, AllShown, ExpiredWhole
  <1> QED BY <1>1, <1>2, <1>3, <1>4, LifeInit, HandoverInvariant, PTL DEF Spec

=============================================================================

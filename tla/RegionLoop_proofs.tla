--------------------------- MODULE RegionLoop_proofs ---------------------------
(* Proofs about RegionLoop for any number of media, any transitions and any  *)
(* number of disposers.                                                      *)
EXTENDS RegionLoop, TLAPS

USE RegionAssumption DEF Media, NoMedia, Disposer, Self, Taken

\* Where the thread holds a media item that is to come, has come and is on its
\* own, and where the previous one has not been cleaned up.
Coming == {"begin", "leaving", "enter"}
AfterAdd == {"trans", "clean", "cleaned", "test", "wait", "next"}
BeforeClean == {"loop", "item", "elapsed", "disposes", "done", "begin", "leaving",
                "enter", "trans", "clean"}

WellTyped == TypeOK /\ (pc \in Coming \cup AfterAdd => cur \in Media /\ item \in Media)

\* The nodes on the screen: the previous media's until it is disposed, and the
\* current one's once it has been added.
OnScreen(m) == (IF pc \in BeforeClean /\ m = prev THEN 1 ELSE 0)
               + (IF pc \in AfterAdd /\ m = cur THEN 1 ELSE 0)

ScreenInv == \A m \in Media : shown[m] = OnScreen(m)

\* The release of lock that the thread is going to wait for: nobody owes it
\* before the media item is added; then its timer does, or has given it.  A
\* disposal gives more of them, and so does a media item that cannot be loaded.
LockInv ==
    ~disposing =>
        \/ /\ pc \in AfterAdd \ {"next"} /\ lock = 0 /\ due[cur] = 1
           /\ \A m \in Media : m # cur => due[m] = 0
        \/ /\ pc \in AfterAdd \ {"next"} /\ lock = 1 /\ \A m \in Media : due[m] = 0
        \/ /\ pc \notin AfterAdd \ {"next"} /\ lock = 0 /\ \A m \in Media : due[m] = 0

\* The release of tLock that the thread is waiting for is owed by one transition
\* or has been given, and no other is, until the region is disposed; that for the
\* previous media's exit is given before the wait.
TLockInv ==
    ~disposed => /\ tLock + running = IF pc \in {"leaving", "trans", "cleaned"} THEN 1 ELSE 0
                 /\ pc = "cleaned" => running = 0

\* A disposal gives its releases after it has set both flags, in this order.
DisposeInv ==
    /\ disposed => disposing
    /\ \A d \in Disposer : /\ dpc[d] \in {"complete", "unlock", "tUnlock"} => disposing
                           /\ dpc[d] \in {"unlock", "tUnlock"} => disposed

\* A region on its way out has no media item to come but the one it was at.
LateInv == late <= 1 /\ (~disposing \/ pc \in Coming => late = 0)

\* Adding a media item: one node and one timer more.
LEMMA AddTypes ==
    ASSUME TypeOK, cur \in Media, Add
    PROVE  /\ shown' \in [Media -> Nat] /\ due' \in [Media -> Nat] /\ late' \in Nat
           /\ \A m \in Media : shown'[m] = IF m = cur THEN shown[m] + 1 ELSE shown[m]
           /\ \A m \in Media : due'[m] = IF m = cur THEN due[m] + 1 ELSE due[m]
<1>1. shown \in [Media -> Nat] /\ due \in [Media -> Nat] /\ late \in Nat
  BY DEF TypeOK
<1>2. shown' \in [Media -> Nat] /\ \A m \in Media : shown'[m] = IF m = cur THEN shown[m] + 1 ELSE shown[m]
  BY <1>1 DEF Add
<1>3. due' \in [Media -> Nat] /\ \A m \in Media : due'[m] = IF m = cur THEN due[m] + 1 ELSE due[m]
  BY <1>1 DEF Add
<1> QED
  BY <1>1, <1>2, <1>3 DEF Add

\* Every step keeps the variables in their types and the media item current from
\* its choice to the end of its time.
LEMMA TypeStep == WellTyped /\ ScreenInv /\ [Next]_vars => WellTyped'
<1> SUFFICES ASSUME WellTyped, ScreenInv, [Next]_vars PROVE WellTyped'
  OBVIOUS
<1> USE DEF WellTyped, TypeOK, Coming, AfterAdd, sems, flags
<1>1. CASE UNCHANGED vars
  BY <1>1 DEF vars
<1>2. CASE Loop
  BY <1>2 DEF Loop
<1>3. CASE NextItem
  <2>1. CASE AtEnd
    BY <1>3, <2>1 DEF NextItem
  <2>2. CASE ~AtEnd
    <3>1. item \in Media /\ item + 1 \in 1 .. NumMedia + 1
      BY <2>2 DEF AtEnd
    <3>2. /\ pc = "item" /\ lock' \in Nat
          /\ \/ pc' = "item" /\ item' = item + 1 /\ cur' = cur
             \/ pc' = "begin" /\ item' = item /\ cur' = item
      BY <1>3, <2>2 DEF NextItem
    <3>3. UNCHANGED <<prev, tLock, disposing, disposed, oneItemOnly, due, running, shown, late, dpc>>
      BY <1>3 DEF NextItem
    <3> QED
      BY <3>1, <3>2, <3>3
  <2> QED
    BY <2>1, <2>2
<1>4. CASE Begin
  <2>1. cur \in Media /\ item \in Media
    BY <1>4 DEF Begin
  <2>2. CASE Matched
    <3>0. Add /\ running' = running + 1
      BY <1>4, <2>2 DEF Begin, Matched
    <3>1. shown' \in [Media -> Nat] /\ due' \in [Media -> Nat] /\ late' \in Nat /\ running' \in Nat
      BY <2>1, <3>0, AddTypes
    <3>2. pc' = "trans"
      BY <1>4, <2>2 DEF Begin, Matched
    <3> QED
      BY <1>4, <2>1, <3>1, <3>2 DEF Begin
  <2>3. CASE ~Matched
    BY <1>4, <2>1, <2>3 DEF Begin, NoAdd
  <2> QED
    BY <2>2, <2>3
<1>5. CASE Left
  BY <1>5 DEF Left, NoAdd
<1>6. CASE Enter
  <2>1. cur \in Media /\ item \in Media
    BY <1>6 DEF Enter
  <2>2. shown' \in [Media -> Nat] /\ due' \in [Media -> Nat] /\ late' \in Nat /\ running' \in Nat
    BY <1>6, <2>1, AddTypes DEF Enter
  <2>3. pc' \in {"trans", "clean"}
    BY <1>6 DEF Enter
  <2> QED
    BY <1>6, <2>1, <2>2, <2>3 DEF Enter
<1>7. CASE Entered
  BY <1>7 DEF Entered, NoAdd
<1>8. CASE Cleaned
  BY <1>8 DEF Cleaned, NoAdd
<1>9. CASE TestWait
  BY <1>9 DEF TestWait, NoAdd, Going
<1>10. CASE Wake
  BY <1>10 DEF Wake, NoAdd
<1>11. CASE Advance
  BY <1>11 DEF Advance, NoAdd
<1>12. CASE Elapsed
  BY <1>12 DEF Elapsed, NoAdd
<1>13. CASE DisposedSelf
  BY <1>13 DEF DisposedSelf, NoAdd
<1>14. ASSUME NEW m \in Media, MediaEnds(m) PROVE WellTyped'
  BY <1>14 DEF MediaEnds
<1>15. CASE TransitionEnds
  BY <1>15 DEF TransitionEnds, AfterTNext
<1>16. ASSUME NEW d \in Disposer, Dispose(d) PROVE WellTyped'
  BY <1>16 DEF Dispose, DisposerUnchanged
<1>17. ASSUME NEW d \in Disposer, DisposerStep(d) PROVE WellTyped'
  <2>1. CASE Complete(d)
    BY <2>1 DEF Complete, DisposerUnchanged
  <2>2. CASE Unlock(d)
    BY <2>2 DEF Unlock, DisposerUnchanged, Released
  <2>3. CASE TUnlock(d)
    BY <2>3 DEF TUnlock, DisposerUnchanged
  <2> QED
    BY <1>17, <2>1, <2>2, <2>3 DEF DisposerStep
<1>18. CASE CleanUp
  <2>1. CASE prev = NoMedia
    BY <1>18, <2>1 DEF CleanUp
  <2>2. CASE prev # NoMedia
    <3>1. shown[prev] - 1 \in Nat
      BY <1>18, <2>2 DEF CleanUp, ScreenInv, OnScreen, BeforeClean
    <3>2. shown' \in [Media -> Nat]
      BY <1>18, <2>2, <3>1 DEF CleanUp, Removed
    <3>3. tLock' \in Nat
      BY <1>18, <2>2 DEF CleanUp, AfterTNext
    <3> QED
      BY <1>18, <2>2, <3>2, <3>3 DEF CleanUp
  <2> QED
    BY <2>1, <2>2
<1> QED
  BY <1>1, <1>2, <1>3, <1>4, <1>5, <1>6, <1>7, <1>8, <1>9, <1>10, <1>11, <1>12,
     <1>13, <1>14, <1>15, <1>16, <1>17, <1>18 DEF Next, ThreadStep
\* The screen has the nodes that the thread's place says.
LEMMA ScreenStep == WellTyped /\ ScreenInv /\ [Next]_vars => ScreenInv'
<1> SUFFICES ASSUME WellTyped, ScreenInv, [Next]_vars PROVE ScreenInv'
  OBVIOUS
<1> USE DEF ScreenInv, OnScreen, BeforeClean, AfterAdd, sems, flags
<1>1. CASE UNCHANGED vars
  BY <1>1 DEF vars
<1>2. CASE Loop
  BY <1>2 DEF Loop
<1>3. CASE NextItem
  BY <1>3 DEF NextItem
<1>4. CASE Begin
  <2>1. cur \in Media /\ TypeOK
    BY <1>4 DEF Begin, WellTyped, Coming
  <2>2. CASE Matched
    <3>1. Add /\ pc = "begin" /\ pc' = "trans" /\ cur' = cur /\ prev' = prev
      BY <1>4, <2>2 DEF Begin, Matched
    <3>2. \A m \in Media : shown'[m] = IF m = cur THEN shown[m] + 1 ELSE shown[m]
      BY <2>1, <3>1, AddTypes
    <3> QED
      BY <3>1, <3>2
  <2>3. CASE ~Matched
    BY <1>4, <2>3 DEF Begin, NoAdd
  <2> QED
    BY <2>2, <2>3
<1>5. CASE Left
  BY <1>5 DEF Left, NoAdd
<1>6. CASE Enter
  <2>1. Add /\ pc = "enter" /\ pc' \in {"trans", "clean"} /\ cur' = cur /\ prev' = prev
    BY <1>6 DEF Enter
  <2>2. \A m \in Media : shown'[m] = IF m = cur THEN shown[m] + 1 ELSE shown[m]
    BY <2>1, AddTypes DEF WellTyped, Coming
  <2> QED
    BY <2>1, <2>2
<1>7. CASE Entered
  BY <1>7 DEF Entered, NoAdd
<1>8. CASE Cleaned
  BY <1>8 DEF Cleaned, NoAdd
<1>9. CASE TestWait
  BY <1>9 DEF TestWait, NoAdd
<1>10. CASE Wake
  BY <1>10 DEF Wake, NoAdd
<1>11. CASE Advance
  BY <1>11 DEF Advance, NoAdd
<1>12. CASE Elapsed
  BY <1>12 DEF Elapsed, NoAdd
<1>13. CASE DisposedSelf
  BY <1>13 DEF DisposedSelf, NoAdd
<1>14. ASSUME NEW m \in Media, MediaEnds(m) PROVE ScreenInv'
  BY <1>14 DEF MediaEnds
<1>15. CASE TransitionEnds
  BY <1>15 DEF TransitionEnds
<1>16. ASSUME NEW d \in Disposer, Dispose(d) PROVE ScreenInv'
  BY <1>16 DEF Dispose, DisposerUnchanged
<1>17. ASSUME NEW d \in Disposer, DisposerStep(d) PROVE ScreenInv'
  BY <1>17 DEF DisposerStep, Complete, Unlock, TUnlock, DisposerUnchanged
<1>18. CASE CleanUp
  <2>1. CASE prev = NoMedia
    BY <1>18, <2>1 DEF CleanUp
  <2>2. CASE prev # NoMedia
    <3>1. shown' = [shown EXCEPT ![prev] = @ - 1] /\ pc = "clean" /\ pc' = "cleaned"
          /\ cur' = cur /\ prev' = prev
      BY <1>18, <2>2 DEF CleanUp, Removed
    <3>2. \A m \in Media : shown'[m] = IF m = prev THEN shown[m] - 1 ELSE shown[m]
      BY <3>1 DEF WellTyped, TypeOK
    <3> QED
      BY <3>1, <3>2
  <2> QED
    BY <2>1, <2>2
<1> QED
  BY <1>1, <1>2, <1>3, <1>4, <1>5, <1>6, <1>7, <1>8, <1>9, <1>10, <1>11, <1>12,
     <1>13, <1>14, <1>15, <1>16, <1>17, <1>18 DEF Next, ThreadStep

\* The two flags of a disposal and the places of the disposers.
LEMMA DisposeStep == WellTyped /\ DisposeInv /\ [Next]_vars => DisposeInv'
<1> SUFFICES ASSUME WellTyped, DisposeInv, [Next]_vars PROVE DisposeInv'
  OBVIOUS
<1> USE DEF DisposeInv, sems, flags
<1>0. dpc \in [Disposer -> {"idle", "start", "complete", "unlock", "tUnlock", "done"}]
  BY DEF WellTyped, TypeOK
<1>1. CASE UNCHANGED <<disposing, disposed, dpc>>
  BY <1>1
<1>2. CASE Elapsed
  BY <1>0, <1>2 DEF Elapsed
<1>3. ASSUME NEW d \in Disposer, Dispose(d) PROVE DisposeInv'
  BY <1>0, <1>3 DEF Dispose
<1>4. ASSUME NEW d \in Disposer, Complete(d) PROVE DisposeInv'
  BY <1>0, <1>4 DEF Complete
<1>5. ASSUME NEW d \in Disposer, Unlock(d) PROVE DisposeInv'
  BY <1>0, <1>5 DEF Unlock
<1>6. ASSUME NEW d \in Disposer, TUnlock(d) PROVE DisposeInv'
  BY <1>0, <1>6 DEF TUnlock
<1>7. \/ UNCHANGED <<disposing, disposed, dpc>>
      \/ Elapsed
      \/ \E d \in Disposer : Dispose(d) \/ Complete(d) \/ Unlock(d) \/ TUnlock(d)
  BY DEF Next, ThreadStep, DisposerStep, vars, Loop, NextItem, Begin, Left, Enter, Entered,
         CleanUp, Cleaned, TestWait, Wake, Advance, DisposedSelf, MediaEnds, TransitionEnds
<1> QED
  BY <1>1, <1>2, <1>3, <1>4, <1>5, <1>6, <1>7

\* At most the media item that the thread was about to add comes late.
LEMMA LateStep == WellTyped /\ LateInv /\ [Next]_vars => LateInv'
<1> SUFFICES ASSUME WellTyped, LateInv, [Next]_vars PROVE LateInv'
  OBVIOUS
<1> USE DEF LateInv, Coming, sems, flags
<1>0. late \in Nat /\ disposing \in BOOLEAN
  BY DEF WellTyped, TypeOK
<1>1. CASE UNCHANGED <<disposing, late, pc>>
  BY <1>1
<1>2. CASE NextItem
  BY <1>0, <1>2 DEF NextItem, Going
<1>3. CASE Begin
  BY <1>0, <1>3 DEF Begin, Add, NoAdd
<1>4. CASE Enter
  BY <1>0, <1>4 DEF Enter, Add
<1>5. CASE Left
  BY <1>5 DEF Left, NoAdd
<1>6. CASE late' = late /\ disposing' = disposing /\ pc' \notin Coming
  BY <1>0, <1>6
<1>7. ASSUME NEW d \in Disposer, Dispose(d) PROVE LateInv'
  BY <1>0, <1>7 DEF Dispose, DisposerUnchanged
<1>8. Loop \/ CleanUp => late' = late /\ disposing' = disposing /\ pc' \notin Coming
  BY DEF Loop, CleanUp
<1>9. Entered \/ Cleaned \/ TestWait \/ Wake \/ Advance \/ Elapsed \/ DisposedSelf
         => late' = late /\ disposing' = disposing /\ pc' \notin Coming
  BY DEF Entered, Cleaned, TestWait, Wake, Advance, Elapsed, DisposedSelf, NoAdd
<1>10. \A m \in Media : MediaEnds(m) => UNCHANGED <<disposing, late, pc>>
  BY DEF MediaEnds
<1>11. TransitionEnds => UNCHANGED <<disposing, late, pc>>
  BY DEF TransitionEnds
<1>12. \A d \in Disposer : DisposerStep(d) => UNCHANGED <<disposing, late, pc>>
  BY DEF DisposerStep, Complete, Unlock, TUnlock, DisposerUnchanged
<1>13. UNCHANGED vars => UNCHANGED <<disposing, late, pc>>
  BY DEF vars
<1> QED
  BY <1>1, <1>2, <1>3, <1>4, <1>5, <1>6, <1>7, <1>8, <1>9, <1>10, <1>11, <1>12, <1>13
     DEF Next, ThreadStep

\* The releases of tLock and the transitions that owe one.
LEMMA TLockStep == WellTyped /\ DisposeInv /\ TLockInv /\ [Next]_vars => TLockInv'
<1> SUFFICES ASSUME WellTyped, DisposeInv, TLockInv, [Next]_vars, ~disposed' PROVE TLockInv'
  BY DEF TLockInv
<1> USE DEF TLockInv, sems, flags
<1>0. tLock \in Nat /\ running \in Nat /\ disposed \in BOOLEAN
  BY DEF WellTyped, TypeOK
<1>1. CASE UNCHANGED vars
  BY <1>1 DEF vars
<1>2. CASE Loop
  BY <1>2 DEF Loop
<1>3. CASE NextItem
  BY <1>3 DEF NextItem
<1>4. CASE Begin
  BY <1>0, <1>4 DEF Begin
<1>5. CASE Left
  BY <1>0, <1>5 DEF Left
<1>6. CASE Enter
  BY <1>0, <1>6 DEF Enter
<1>7. CASE Entered
  BY <1>0, <1>7 DEF Entered
<1>8. CASE Cleaned
  BY <1>0, <1>8 DEF Cleaned
<1>9. CASE TestWait
  BY <1>9 DEF TestWait
<1>10. CASE Wake
  BY <1>10 DEF Wake
<1>11. CASE Advance
  BY <1>11 DEF Advance
<1>12. CASE Elapsed
  BY <1>12 DEF Elapsed
<1>13. CASE DisposedSelf
  BY <1>13 DEF DisposedSelf
<1>14. ASSUME NEW m \in Media, MediaEnds(m) PROVE TLockInv'
  BY <1>14 DEF MediaEnds
<1>15. CASE TransitionEnds
  BY <1>0, <1>15 DEF TransitionEnds, AfterTNext
<1>16. ASSUME NEW d \in Disposer, Dispose(d) PROVE TLockInv'
  BY <1>16 DEF Dispose, DisposerUnchanged
<1>17. ASSUME NEW d \in Disposer, DisposerStep(d) PROVE TLockInv'
  BY <1>17 DEF DisposerStep, Complete, Unlock, TUnlock, DisposerUnchanged, DisposeInv
<1>18. CASE CleanUp
  BY <1>0, <1>18 DEF CleanUp, AfterTNext
<1> QED
  BY <1>1, <1>2, <1>3, <1>4, <1>5, <1>6, <1>7, <1>8, <1>9, <1>10, <1>11, <1>12,
     <1>13, <1>14, <1>15, <1>16, <1>17, <1>18 DEF Next, ThreadStep

\* The releases of lock and the timers that owe one, when every plugin loads.
LEMMA LockStep ==
    Unloadable = {} /\ WellTyped /\ DisposeInv /\ LockInv /\ [Next]_vars => LockInv'
<1> SUFFICES ASSUME Unloadable = {}, WellTyped, DisposeInv, LockInv, [Next]_vars, ~disposing'
             PROVE  LockInv'
  BY DEF LockInv
<1> USE DEF LockInv, AfterAdd, sems, flags
<1>0. lock \in Nat /\ due \in [Media -> Nat] /\ disposing \in BOOLEAN
  BY DEF WellTyped, TypeOK
<1>1. CASE UNCHANGED vars
  BY <1>1 DEF vars
<1>2. CASE Loop
  BY <1>2 DEF Loop
<1>3. CASE NextItem
  BY <1>3 DEF NextItem
<1>4. CASE Begin
  <2>1. cur \in Media /\ TypeOK
    BY <1>4 DEF Begin, WellTyped, Coming
  <2>2. CASE Matched
    <3>1. /\ Add /\ pc = "begin" /\ pc' = "trans" /\ cur' = cur
          /\ lock' = lock /\ disposing' = disposing
      BY <1>4, <2>2 DEF Begin, Matched
    <3>2. \A m \in Media : due'[m] = IF m = cur THEN due[m] + 1 ELSE due[m]
      BY <2>1, <3>1, AddTypes
    <3> QED
      BY <1>0, <2>1, <3>1, <3>2
  <2>3. CASE ~Matched
    BY <1>4, <2>3 DEF Begin, NoAdd
  <2> QED
    BY <2>2, <2>3
<1>5. CASE Left
  BY <1>5 DEF Left, NoAdd
<1>6. CASE Enter
  <2>1. /\ Add /\ pc = "enter" /\ pc' \in {"trans", "clean"} /\ cur' = cur
        /\ lock' = lock /\ disposing' = disposing
    BY <1>6 DEF Enter
  <2>2. cur \in Media /\ \A m \in Media : due'[m] = IF m = cur THEN due[m] + 1 ELSE due[m]
    BY <2>1, AddTypes DEF WellTyped, Coming
  <2> QED
    BY <1>0, <2>1, <2>2
<1>7. CASE Entered
  BY <1>7 DEF Entered, NoAdd
<1>8. CASE Cleaned
  BY <1>8 DEF Cleaned, NoAdd
<1>9. CASE TestWait
  BY <1>9 DEF TestWait, NoAdd, Going, DisposeInv
<1>10. CASE Wake
  BY <1>0, <1>10 DEF Wake, NoAdd
<1>11. CASE Advance
  BY <1>11 DEF Advance, NoAdd
<1>12. CASE Elapsed
  BY <1>12 DEF Elapsed, NoAdd
<1>13. CASE DisposedSelf
  BY <1>13 DEF DisposedSelf, NoAdd
<1>14. ASSUME NEW m \in Media, MediaEnds(m) PROVE LockInv'
  <2>1. /\ due[m] > 0 /\ lock' = lock + 1 /\ pc' = pc /\ cur' = cur /\ disposing' = disposing
    BY <1>14 DEF MediaEnds, DisposeInv
  <2>2. \A n \in Media : due'[n] = IF n = m THEN due[n] - 1 ELSE due[n]
    BY <1>0, <1>14 DEF MediaEnds
  <2>3. pc \in AfterAdd \ {"next"} /\ lock = 0 /\ due[cur] = 1 /\ m = cur
        /\ \A n \in Media : n # cur => due[n] = 0
    BY <1>0, <2>1
  <2> QED
    BY <2>1, <2>2, <2>3
<1>15. CASE TransitionEnds
  BY <1>15 DEF TransitionEnds
<1>16. ASSUME NEW d \in Disposer, Dispose(d) PROVE LockInv'
  BY <1>16 DEF Dispose
<1>17. ASSUME NEW d \in Disposer, DisposerStep(d) PROVE LockInv'
  BY <1>17 DEF DisposerStep, Complete, Unlock, TUnlock, DisposerUnchanged, DisposeInv
<1>18. CASE CleanUp
  BY <1>18 DEF CleanUp
<1> QED
  BY <1>1, <1>2, <1>3, <1>4, <1>5, <1>6, <1>7, <1>8, <1>9, <1>10, <1>11, <1>12,
     <1>13, <1>14, <1>15, <1>16, <1>17, <1>18 DEF Next, ThreadStep

\* What every theorem below rests on.
RegionInv == WellTyped /\ ScreenInv /\ DisposeInv /\ TLockInv /\ LateInv

LEMMA RegionInvariant == Spec => []RegionInv
<1>1. Init => RegionInv
  <2> SUFFICES ASSUME Init PROVE RegionInv
    OBVIOUS
  <2>1. due \in [Media -> Nat] /\ shown \in [Media -> Nat] /\ item \in 1 .. NumMedia + 1
    BY DEF Init
  <2>2. WellTyped
    BY <2>1 DEF Init, WellTyped, TypeOK, Coming, AfterAdd
  <2> QED
    BY <2>2 DEF Init, RegionInv, ScreenInv, OnScreen, BeforeClean, AfterAdd, DisposeInv,
               TLockInv, LateInv, Coming
<1>2. RegionInv /\ [Next]_vars => RegionInv'
  BY TypeStep, ScreenStep, DisposeStep, TLockStep, LateStep DEF RegionInv
<1> QED
  BY <1>1, <1>2, PTL DEF Spec

\* A region's semaphores never go below zero, nor does the number of a media
\* item's nodes, and its thread stays within its media (XiboRegionManager.run).
THEOREM TypeCorrect == Spec => []TypeOK
<1>1. RegionInv => TypeOK
  BY DEF RegionInv, WellTyped
<1> QED
  BY <1>1, RegionInvariant, PTL

\* A media item that has its time on the screen is alone on it, whatever media
\* cannot be loaded (the clean-up in XiboRegionManager.run).
THEOREM AloneAlways == Spec => []Alone
<1>1. RegionInv => Alone
  BY DEF RegionInv, WellTyped, ScreenInv, OnScreen, BeforeClean, AfterAdd, Alone
<1> QED
  BY <1>1, RegionInvariant, PTL

\* A region on its way out shows at most one media item more, whoever disposes it
\* and when.
THEOREM AtMostOneLateAlways == Spec => []AtMostOneLate
<1>1. RegionInv => AtMostOneLate
  BY DEF RegionInv, LateInv, AtMostOneLate
<1> QED
  BY <1>1, RegionInvariant, PTL

\* Before the region is disposed, its thread goes past a transition only when the
\* transition has ended (tLock in XiboRegionManager.run and tNext).
THEOREM TransitionFirstAlways == Spec => TransitionFirst
<1>1. RegionInv /\ [Next]_vars
        => [(pc \in {"leaving", "trans"} /\ pc' # pc /\ ~disposed) => (running = 0)]_vars
  <2> SUFFICES ASSUME RegionInv, [Next]_vars, pc \in {"leaving", "trans"}, pc' # pc, ~disposed
               PROVE  running = 0
    OBVIOUS
  <2>1. Left \/ Entered
    BY DEF Next, ThreadStep, Loop, NextItem, Begin, Enter, CleanUp, Cleaned, TestWait, Wake,
           Advance, Elapsed, DisposedSelf, MediaEnds, TransitionEnds, Dispose, DisposerStep,
           Complete, Unlock, TUnlock, DisposerUnchanged, vars
  <2>2. tLock > 0
    BY <2>1 DEF Left, Entered
  <2> QED
    BY <2>2 DEF RegionInv, WellTyped, TypeOK, TLockInv
<1> QED
  BY <1>1, RegionInvariant, PTL DEF Spec, TransitionFirst

\* When every plugin loads, a media item keeps the screen until its own timer has
\* called next(), unless the region is disposed (lock in XiboRegionManager.run).
THEOREM FullTimeAlways == Unloadable = {} => (Spec => FullTime)
<1> SUFFICES ASSUME Unloadable = {} PROVE Spec => FullTime
  OBVIOUS
<1>1. Init => LockInv
  BY DEF Init, LockInv, AfterAdd
<1>2. RegionInv /\ LockInv /\ [Next]_vars => LockInv'
  BY LockStep DEF RegionInv
<1>3. RegionInv /\ LockInv /\ [Next]_vars
        => [(pc = "wait" /\ pc' = "next" /\ ~disposing) => (due[cur] = 0)]_vars
  <2> SUFFICES ASSUME RegionInv, LockInv, [Next]_vars, pc = "wait", pc' = "next", ~disposing
               PROVE  due[cur] = 0
    OBVIOUS
  <2>1. Wake
    BY DEF Next, ThreadStep, Loop, NextItem, Begin, Enter, CleanUp, Cleaned, TestWait, Left,
           Entered, Advance, Elapsed, DisposedSelf, MediaEnds, TransitionEnds, Dispose,
           DisposerStep, Complete, Unlock, TUnlock, DisposerUnchanged, vars
  <2>2. lock > 0 /\ cur \in Media
    BY <2>1 DEF Wake, RegionInv, WellTyped, AfterAdd
  <2> QED
    BY <2>2 DEF LockInv
<1> QED
  BY <1>1, <1>2, <1>3, RegionInvariant, PTL DEF Spec, FullTime

================================================================================

------------------------- MODULE SwitchWatcher_proofs -------------------------
(* Proofs about SwitchWatcher for any number of lifts, any trigger count and *)
(* any tags.                                                                 *)
EXTENDS SwitchWatcher, FiniteSetTheorems, SequenceTheorems, TLAPS

USE SwitchAssumption DEF Lift, NoLift

\* A nonempty finite set of integers has a greatest element, which Max chooses:
\* the elements above some x form a smallest such set, which has to be empty.
LEMMA MaxOfFinite ==
    ASSUME NEW S \in SUBSET Int, IsFiniteSet(S), S # {}
    PROVE  Max(S) \in S /\ \A y \in S : Max(S) >= y
<1> DEFINE Above(x) == { y \in S : y > x }
           Tails == { T \in SUBSET S : \E x \in S : T = Above(x) }
<1>1. Tails \subseteq FiniteSubsetsOf(S)
  BY FS_FiniteSubsetsOfFinite
<1>2. Tails # {}
  <2>1. PICK x : x \in S
    OBVIOUS
  <2>2. Above(x) \in Tails
    BY <2>1
  <2> QED
    BY <2>2
<1>3. IsWellFoundedOn(StrictSubsetOrdering(S), FiniteSubsetsOf(S))
  BY FS_StrictSubsetOrderingWellFounded
<1> HIDE DEF Tails
<1>4. PICK T \in Tails : \A U \in Tails : <<U, T>> \notin StrictSubsetOrdering(S)
  BY <1>1, <1>2, <1>3, WFMin
<1> USE DEF Tails
<1>5. PICK x \in S : T = Above(x)
  BY <1>4
<1>6. ASSUME NEW y \in S PROVE x >= y
  <2> SUFFICES ASSUME y > x PROVE FALSE
    OBVIOUS
  <2>1. Above(y) \in Tails
    OBVIOUS
  <2>0. x \in Int /\ y \in Int /\ \A z \in S : z \in Int
    OBVIOUS
  <2>2. Above(y) \subseteq Above(x) /\ y \in Above(x) /\ y \notin Above(y)
    <3>1. ASSUME NEW z \in S, z > y PROVE z > x
      BY <2>0, <3>1
    <3>2. ~ (y > y)
      BY <2>0
    <3> QED
      BY <3>1, <3>2
  <2>3. Above(y) \in SUBSET S /\ Above(x) \in SUBSET S
    OBVIOUS
  <2>4. <<Above(y), Above(x)>> \in StrictSubsetOrdering(S)
    BY <2>2, <2>3 DEF StrictSubsetOrdering
  <2> QED
    BY <1>4, <1>5, <2>1, <2>4
<1> QED
  BY <1>6 DEF Max

LEMMA MinOfTwo ==
    ASSUME NEW a \in Int, NEW b \in Int
    PROVE  Min({a, b}) = IF a <= b THEN a ELSE b
<1>1. \E x \in {a, b} : \A y \in {a, b} : x <= y
  OBVIOUS
<1>2. Min({a, b}) \in {a, b} /\ Min({a, b}) <= a /\ Min({a, b}) <= b
  BY <1>1 DEF Min
<1> QED
  BY <1>2

LEMMA MaxOfTwo ==
    ASSUME NEW a \in Int, NEW b \in Int
    PROVE  Max({a, b}) = IF a >= b THEN a ELSE b
<1>1. \E x \in {a, b} : \A y \in {a, b} : x >= y
  OBVIOUS
<1>2. Max({a, b}) \in {a, b} /\ Max({a, b}) >= a /\ Max({a, b}) >= b
  BY <1>1 DEF Max
<1> QED
  BY <1>2

\* The poll's counting, without the extrema.
LEMMA CountedIs ==
    ASSUME TypeOK, NEW l \in Lift
    PROVE  Counted(l) = IF up[l] = state[l] THEN liftHistory[l]
                        ELSE IF up[l]
                        THEN IF liftHistory[l] < Trigger THEN liftHistory[l] + 1 ELSE Trigger
                        ELSE IF liftHistory[l] > 0 THEN liftHistory[l] - 1 ELSE 0
<1>1. liftHistory[l] \in 0 .. Trigger /\ Trigger \in Nat /\ Trigger # 0
  BY DEF TypeOK
<1>2. Min({liftHistory[l] + 1, Trigger})
        = IF liftHistory[l] + 1 <= Trigger THEN liftHistory[l] + 1 ELSE Trigger
  BY <1>1, MinOfTwo
<1>3. Max({liftHistory[l] - 1, 0})
        = IF liftHistory[l] - 1 >= 0 THEN liftHistory[l] - 1 ELSE 0
  BY <1>1, MaxOfTwo
<1> QED
  BY <1>1, <1>2, <1>3 DEF Counted

\* The lift that a poll hands to raise is one that came up in it, and when no
\* two came up it is the only one.
LEMMA RaisedMax ==
    /\ Raised # {} => Max(Raised) \in Raised
    /\ ~ (Cardinality(Raised) > 1) => \A l \in Raised : l = Max(Raised)
<1>1. Raised \in SUBSET (1 .. NumLifts) /\ NumLifts \in Nat
  BY DEF Raised
<1>2. IsFiniteSet(1 .. NumLifts)
  BY <1>1, FS_Interval
<1>4. IsFiniteSet(Raised)
  BY <1>1, <1>2, FS_Subset
<1>3. Raised # {} => Max(Raised) \in Raised
  BY <1>1, <1>4, MaxOfFinite
<1>5. Cardinality(Raised) \in Nat
  BY <1>4, FS_CardinalityType
<1>6. Raised # {} => Cardinality(Raised) # 0
  BY <1>4, FS_EmptySet
<1>7. Cardinality(Raised) = 1 => \E x : Raised = {x}
  BY <1>4, FS_Singleton
<1> QED
  BY <1>3, <1>5, <1>6, <1>7

\* The topmost lift still up is one, and no lift above it is up.
LEMMA StillUpMax ==
    ASSUME TypeOK, StillUp # {}
    PROVE  /\ Max(StillUp) \in 1 .. Len(liftStack)
           /\ state[liftStack[Max(StillUp)]]
           /\ \A i \in 1 .. Len(liftStack) : state[liftStack[i]] => i <= Max(StillUp)
<1>1. Len(liftStack) \in Nat /\ DOMAIN liftStack = 1 .. Len(liftStack)
  BY DEF TypeOK
<1>2. StillUp \in SUBSET (1 .. Len(liftStack)) /\ StillUp \in SUBSET Int
  BY <1>1 DEF StillUp
<1>3. IsFiniteSet(1 .. Len(liftStack))
  BY <1>1, FS_Interval
<1>4. IsFiniteSet(StillUp)
  BY <1>2, <1>3, FS_Subset
<1>5. Max(StillUp) \in StillUp /\ \A y \in StillUp : Max(StillUp) >= y
  BY <1>2, <1>4, MaxOfFinite
<1> QED
  BY <1>1, <1>5 DEF StillUp

\* A lift that is being raised is one of the lifts.
WellTyped == TypeOK /\ (pc = "raise" => activeLift \in Lift)

\* One step keeps every lift's count in line with its state, and the tags
\* among those of the lifts.
LEMMA TypeStep == WellTyped /\ [Next]_vars => WellTyped'
<1> SUFFICES ASSUME WellTyped, [Next]_vars PROVE WellTyped'
  OBVIOUS
<1> USE DEF WellTyped, TypeOK
<1>1. CASE UNCHANGED vars
  BY <1>1 DEF vars, switches, watcher, display, history
<1>2. CASE Flip
  BY <1>2 DEF Flip, watcher, display, history
<1>3. CASE Poll
  <2> USE DEF Poll, switches, display
  <2>1. state' \in [Lift -> BOOLEAN]
    BY <1>3 DEF StateAfter
  <2>2. ASSUME NEW l \in Lift
        PROVE  /\ Counted(l) \in 0 .. Trigger
               /\ IF StateAfter(l) THEN Counted(l) > 0 ELSE Counted(l) < Trigger
    <3>1. Counted(l) = IF up[l] = state[l] THEN liftHistory[l]
                        ELSE IF up[l]
                        THEN IF liftHistory[l] < Trigger THEN liftHistory[l] + 1 ELSE Trigger
                        ELSE IF liftHistory[l] > 0 THEN liftHistory[l] - 1 ELSE 0
      BY CountedIs
    <3>2. /\ Trigger \in Nat /\ Trigger # 0 /\ liftHistory[l] \in 0 .. Trigger
          /\ IF state[l] THEN liftHistory[l] > 0 ELSE liftHistory[l] < Trigger
      OBVIOUS
    <3> HIDE DEF TypeOK
    <3> QED
      BY <3>1, <3>2 DEF StateAfter, Raised, Lowered
  <2>3. liftHistory' \in [Lift -> 0 .. Trigger]
    BY <1>3, <2>2
  <2>4. \A l \in Lift : IF state'[l] THEN liftHistory'[l] > 0 ELSE liftHistory'[l] < Trigger
    BY <1>3, <2>2
  <2>5. activeLift' \in Lift \cup {NoLift}
    BY <1>3, RaisedMax DEF Raised
  <2>6. pc' = "raise" => activeLift' \in Lift
    BY <1>3, RaisedMax DEF Raised
  <2>7. up' = up /\ flips' = flips /\ liftStack' = liftStack /\ validTag' = validTag
        /\ phase' = phase /\ chosen' = chosen /\ shown' = shown /\ exit' = exit
        /\ pc' \in {"raise", "lower", "poll"} /\ offFlag' \in BOOLEAN /\ clash' \in BOOLEAN
        /\ tagged' = tagged
    BY <1>3
  <2> HIDE DEF Poll
  <2> QED
    BY <2>1, <2>3, <2>4, <2>5, <2>6, <2>7
<1>4. CASE Raise
  <2>1. validTag' \in { TagOf[l] : l \in Lift }
    BY <1>4 DEF Raise
  <2> QED
    BY <1>4, <2>1 DEF Raise, switches, display
<1>5. CASE DisposeRaised
  BY <1>5 DEF DisposeRaised, DisposeCurrent, Disposed, switches, history
<1>6. CASE AllOff
  BY <1>6 DEF AllOff, switches, display
<1>7. CASE BackToLast
  <2> USE DEF BackToLast, switches, display
  <2>1. CASE StillUp = {}
    BY <1>7, <2>1
  <2>2. CASE StillUp # {}
    <3>1. Max(StillUp) \in 1 .. Len(liftStack)
      BY <2>2, StillUpMax
    <3>2. liftStack' \in Seq(Lift)
      <4>1. PICK k \in 1 .. Len(liftStack) : k = Max(StillUp)
        BY <3>1
      <4>2. \A i \in 1 .. k : liftStack[i] \in Lift
        OBVIOUS
      <4>3. SubSeq(liftStack, 1, k) \in Seq(Lift)
        BY <4>2, SubSeqProperties
      <4> QED
        BY <1>7, <2>2, <4>1, <4>3
    <3>3. validTag' \in { TagOf[l] : l \in Lift }
      BY <1>7, <2>2, <3>1
    <3> QED
      BY <1>7, <2>2, <3>2, <3>3
  <2> QED
    BY <2>1, <2>2
<1>8. CASE DisposeLowered
  BY <1>8 DEF DisposeLowered, DisposeCurrent, Disposed, switches, history
<1>9. CASE Display
  BY <1>9 DEF Display, Release, Expire, Choose, Choice, Replace, Built, switches, watcher, history
<1> QED
  BY <1>1, <1>2, <1>3, <1>4, <1>5, <1>6, <1>7, <1>8, <1>9 DEF Next, WatcherStep

\* At first all lifts are down and counted as such.
LEMMA InitWellTyped == Init => WellTyped
<1> SUFFICES ASSUME Init PROVE WellTyped
  OBVIOUS
<1>1. 0 \in 0 .. Trigger /\ 0 < Trigger /\ 0 \in 0 .. MaxFlips
  OBVIOUS
<1>2. \A l \in Lift : liftHistory[l] = 0 /\ state[l] = FALSE
  BY DEF Init
<1>3. liftHistory \in [Lift -> 0 .. Trigger]
  BY <1>1 DEF Init
<1>4. liftStack \in Seq(Lift)
  BY DEF Init
<1>5. {validTag, chosen, shown}
        \subseteq { TagOf[l] : l \in Lift } \cup {DefaultTag, SchedulerTag, NoTag}
  BY DEF Init
<1>6. up \in [Lift -> BOOLEAN] /\ state \in [Lift -> BOOLEAN]
  BY DEF Init
<1> QED
  BY <1>1, <1>2, <1>3, <1>4, <1>5, <1>6 DEF Init, WellTyped, TypeOK

\* Every lift has a count, a place on the stack is a lift's, and the tag is that
\* of a lift or the default one (SwitchWatcher.run).
THEOREM TypeCorrect == Spec => []TypeOK
<1>2. WellTyped => TypeOK
  BY DEF WellTyped
<1> QED
  BY <1>2, InitWellTyped, TypeStep, PTL DEF Spec

\* A lift that is up is on the stack, or about to get there.
OnStack(l) == \E i \in 1 .. Len(liftStack) : liftStack[i] = l

UpIsOnStack == \A l \in Lift : state[l] => OnStack(l) \/ (pc = "raise" /\ l = activeLift)

\* The lift that run() has just raised is up.
RaisedIsUp == pc \in {"raise", "disposeRaised"} => activeLift \in Lift /\ state[activeLift]

\* The tag is that of a lift that is up, or of none when all are down.
TagFits ==
    IF \A l \in Lift : ~state[l]
    THEN validTag = IF tagged THEN DefaultTag ELSE SchedulerTag
    ELSE \E l \in Lift : state[l] /\ validTag = TagOf[l]

\* What makes TagIsUp inductive.  While two lifts have not come up in one poll,
\* run() knows every lift that is up, and the tag fits at every point of its loop
\* but the two at which it is about to set it.
TagInv ==
    /\ WellTyped
    /\ RaisedIsUp
    /\ ~clash => /\ UpIsOnStack
                 /\ pc = "disposeRaised" => validTag = TagOf[activeLift]
                 /\ pc \in {"poll", "disposeLowered"} => TagFits

\* A step that leaves the tag, the stack and the lifts' states alone, and goes
\* nowhere that needs more of them.
LEMMA TagKept ==
    ASSUME TagInv, WellTyped', UNCHANGED <<state, liftStack, validTag, activeLift>>,
           UNCHANGED history,
           \/ pc' = pc
           \/ pc' = "dead" /\ pc # "raise"
           \/ pc' = "poll" /\ pc = "disposeLowered"
    PROVE  TagInv'
<1> USE DEF TagInv, history
<1>1. RaisedIsUp'
  BY DEF RaisedIsUp
<1>2. ASSUME ~clash' PROVE UpIsOnStack'
  BY <1>2 DEF UpIsOnStack, OnStack
<1>3. ASSUME ~clash', pc' \in {"poll", "disposeLowered"} PROVE TagFits'
  BY <1>3 DEF TagFits
<1>4. ASSUME ~clash', pc' = "disposeRaised" PROVE validTag' = TagOf[activeLift']
  BY <1>4
<1> QED
  BY <1>1, <1>2, <1>3, <1>4

\* The display manager and the switches do not touch run()'s knowledge; every
\* step of run() keeps it.
LEMMA TagStep == TagInv /\ [Next]_vars => TagInv'
<1> SUFFICES ASSUME TagInv, [Next]_vars PROVE TagInv'
  OBVIOUS
<1>0. WellTyped'
  BY TypeStep DEF TagInv
<1> USE DEF TagInv
<1>1. CASE UNCHANGED vars
  BY <1>0, <1>1, TagKept DEF vars, watcher
<1>2. CASE Flip
  BY <1>0, <1>2, TagKept DEF Flip, watcher
<1>3. CASE Poll
  <2>1. state' = [l \in Lift |-> StateAfter(l)] /\ liftStack' = liftStack /\ validTag' = validTag
    BY <1>3 DEF Poll
  <2>2. RaisedIsUp'
    BY <1>3, <2>1, RaisedMax DEF Poll, RaisedIsUp, Raised, StateAfter
  <2>3. ASSUME ~clash' PROVE UpIsOnStack'
    <3> SUFFICES ASSUME NEW l \in Lift, state'[l] PROVE OnStack(l)' \/ (pc' = "raise" /\ l = activeLift')
      BY DEF UpIsOnStack
    <3>1. ~clash /\ ~ (Cardinality(Raised) > 1)
      BY <1>3, <2>3 DEF Poll
    <3>2. CASE l \in Raised
      BY <1>3, <3>1, <3>2, RaisedMax DEF Poll
    <3>3. CASE l \notin Raised
      BY <1>3, <2>1, <3>1, <3>3 DEF Poll, StateAfter, UpIsOnStack, OnStack
    <3> QED
      BY <3>2, <3>3
  <2>4. ASSUME ~clash', pc' \in {"poll", "disposeLowered"} PROVE TagFits'
    <3>1. ~clash /\ Raised = {} /\ Lowered = {} /\ TagFits /\ tagged' = tagged
      BY <1>3, <2>4 DEF Poll
    <3>2. \A l \in Lift : state'[l] = state[l]
      BY <2>1, <3>1 DEF StateAfter, WellTyped, TypeOK
    <3> QED
      BY <2>1, <3>1, <3>2 DEF TagFits
  <2>5. pc' # "disposeRaised"
    BY <1>3 DEF Poll
  <2> QED
    BY <1>0, <2>2, <2>3, <2>4, <2>5
<1>4. CASE Raise
  <2>1. RaisedIsUp'
    BY <1>4 DEF Raise, RaisedIsUp
  <2>2. ASSUME ~clash' PROVE UpIsOnStack'
    <3>1. Len(liftStack) \in Nat /\ liftStack' = Append(liftStack, activeLift)
      BY <1>4 DEF Raise, WellTyped, TypeOK
    <3>2. Len(liftStack') = Len(liftStack) + 1 /\ liftStack'[Len(liftStack) + 1] = activeLift
      BY <3>1 DEF WellTyped, TypeOK
    <3>3. \A i \in 1 .. Len(liftStack) : liftStack'[i] = liftStack[i]
      BY <3>1 DEF WellTyped, TypeOK
    <3>4. ASSUME NEW l \in Lift, OnStack(l) PROVE OnStack(l)'
      BY <3>1, <3>2, <3>3, <3>4 DEF OnStack
    <3>5. OnStack(activeLift)'
      BY <1>4, <3>1, <3>2 DEF OnStack, Raise
    <3> QED
      BY <1>4, <2>2, <3>4, <3>5 DEF Raise, UpIsOnStack
  <2> QED
    BY <1>0, <1>4, <2>1, <2>2 DEF Raise
<1>5. CASE DisposeRaised
  <2> USE DEF DisposeRaised, DisposeCurrent, history
  <2>1. RaisedIsUp'
    BY <1>5 DEF RaisedIsUp
  <2>2. ASSUME ~clash' PROVE UpIsOnStack'
    BY <1>5, <2>2 DEF UpIsOnStack, OnStack
  <2>3. ASSUME ~clash', pc' \in {"poll", "disposeLowered"} PROVE TagFits'
    BY <1>5, <2>3 DEF TagFits, RaisedIsUp
  <2>4. pc' # "disposeRaised"
    BY <1>5
  <2> QED
    BY <1>0, <2>1, <2>2, <2>3, <2>4
<1>6. CASE AllOff
  BY <1>0, <1>6 DEF AllOff, RaisedIsUp, UpIsOnStack, TagFits
<1>7. CASE BackToLast
  <2>0. state' = state /\ clash' = clash /\ activeLift' = activeLift /\ pc' \in {"poll", "disposeLowered"}
    BY <1>7 DEF BackToLast
  <2>1. RaisedIsUp'
    BY <2>0 DEF RaisedIsUp
  <2> SUFFICES ASSUME ~clash PROVE UpIsOnStack' /\ TagFits'
    BY <1>0, <2>0, <2>1
  <2>2. Len(liftStack) \in Nat /\ DOMAIN liftStack = 1 .. Len(liftStack)
    BY DEF WellTyped, TypeOK
  <2>3. \A l \in Lift : state[l] => OnStack(l)
    BY <1>7 DEF BackToLast, UpIsOnStack
  <2>4. StillUp # {}
    BY <1>7, <2>2, <2>3 DEF BackToLast, OnStack, StillUp
  <2>5. PICK k \in 1 .. Len(liftStack) :
          /\ k = Max(StillUp)
          /\ state[liftStack[k]]
          /\ \A i \in 1 .. Len(liftStack) : state[liftStack[i]] => i <= k
    BY <2>4, StillUpMax DEF WellTyped
  <2>6. liftStack' = SubSeq(liftStack, 1, k) /\ validTag' = TagOf[liftStack[k]]
    BY <1>7, <2>4, <2>5 DEF BackToLast
  <2>7. \A i \in 1 .. Len(liftStack) : liftStack[i] \in Lift
    BY DEF WellTyped, TypeOK
  <2>8. Len(liftStack') = k /\ \A i \in 1 .. k : liftStack'[i] = liftStack[i]
    <3>1. \A i \in 1 .. k : liftStack[i] \in Lift
      BY <2>7
    <3>2. /\ Len(SubSeq(liftStack, 1, k)) = IF 1 <= k THEN k - 1 + 1 ELSE 0
          /\ \A i \in 1 .. k - 1 + 1 : SubSeq(liftStack, 1, k)[i] = liftStack[1 + i - 1]
      BY <3>1, SubSeqProperties
    <3> QED
      BY <2>6, <3>2
  <2>9. ASSUME NEW l \in Lift, state[l] PROVE OnStack(l)'
    <3>1. PICK i \in 1 .. Len(liftStack) : liftStack[i] = l
      BY <2>3, <2>9 DEF OnStack
    <3>2. i \in 1 .. k
      BY <2>5, <2>9, <3>1
    <3> QED
      BY <2>8, <3>1, <3>2 DEF OnStack
  <2>10. UpIsOnStack'
    BY <2>0, <2>9 DEF UpIsOnStack
  <2>11. TagFits'
    BY <2>0, <2>5, <2>6, <2>7 DEF TagFits
  <2> QED
    BY <2>10, <2>11
<1>8. CASE DisposeLowered
  BY <1>0, <1>8, TagKept DEF DisposeLowered, DisposeCurrent
<1>9. CASE Display
  BY <1>0, <1>9, TagKept DEF Display, Release, Expire, Choose, Replace, Built, watcher
<1> QED
  BY <1>1, <1>2, <1>3, <1>4, <1>5, <1>6, <1>7, <1>8, <1>9 DEF Next, WatcherStep

\* Between two polls the scheduler's tag is that of a lift that is up, and the
\* default one only when none is, or the scheduler's first one until a lift
\* first comes up, unless two came up in the same poll.
THEOREM TagIsUpAlways == Spec => []TagIsUp
<1>1. Init => TagInv
  BY InitWellTyped DEF Init, TagInv, RaisedIsUp, UpIsOnStack, TagFits
<1>2. TagInv => TagIsUp
  BY DEF TagInv, TagFits, TagIsUp
<1> QED
  BY <1>1, <1>2, TagStep, PTL DEF Spec

=============================================================================

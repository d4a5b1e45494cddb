-------------------------- MODULE XmdsScheduler_proofs --------------------------
(***************************************************************************)
(* Theorems about XmdsScheduler, for any schedules, layouts, tags, callers *)
(* and bounds: type correctness, that the place in the round belongs to    *)
(* the list it is used on, that a call which is not disturbed overlooks no *)
(* layout, and that the round starves none.                                *)
(***************************************************************************)
EXTENDS XmdsScheduler, FiniteSetTheorems, SequenceTheorems, TLAPS

-----------------------------------------------------------------------------
(* The list, and how the next state is reached.                            *)

Position == 1 .. Number(live)

\* A schedule lists a whole number of layouts.
LEMMA NumberIsNat == \A v \in Listing : Number(v) \in Nat
  <1> SUFFICES ASSUME NEW v \in Listing PROVE Number(v) \in Nat
    OBVIOUS
  <1> DEFINE es == Entry(v)
             first == { i \in 1 .. Len(es) : \A j \in 1 .. i - 1 : es[j].id # es[i].id }
             k == Cardinality(first)
             name(n) == es[CHOOSE i \in first : Cardinality({ j \in first : j <= i }) = n].id
  <1>1. Len(es) \in Nat
    <2>1. CASE v = Blank
      BY <2>1 DEF Entry
    <2>2. CASE v # Blank
      <3>1. v \in Version
        BY <2>2 DEF Listing
      <3>2. es \in Seq([id : Layout, from : Int, to : Int, priority : Int])
        BY <2>2, <3>1, SchedulerAssumption DEF Entry
      <3> QED BY <3>2, LenProperties
    <2> QED BY <2>1, <2>2
  <1>2. k \in Nat
    <2>1. IsFiniteSet(1 .. Len(es))
      BY <1>1, FS_Interval
    <2>2. first \subseteq 1 .. Len(es)
      OBVIOUS
    <2> HIDE DEF first, es
    <2> QED BY <2>1, <2>2, FS_Subset, FS_CardinalityType
  <1>3. Ids[v] = [n \in 1 .. k |-> name(n)]
    BY DEF Ids
  <1> HIDE DEF k, name
  <1>4. Len(Ids[v]) = k
    BY <1>2, <1>3
  <1> QED BY <1>2, <1>4 DEF Number

Pace == <<live, clock, files, validTag>>

\* What a layout has a right to depends on the list, the time, the files and
\* the tag alone.
LEMMA PaceKept ==
  ASSUME UNCHANGED Pace
  PROVE  /\ Number(live)' = Number(live) /\ Position' = Position
         /\ AnyPriority' = AnyPriority
         /\ \A l \in Layout : Eligible(l)' = Eligible(l)
  BY DEF Pace, Number, Position, AnyPriority, Eligible, Listed, CanRun,
         IsPriority, Inside, Tagged

\* The thread of the scheduler between two swaps, its timers and the server
\* leave what nextLayout works on alone.
Aside ==
    /\ UNCHANGED <<Pace, lock, pointer, cpc, count, thereIsPriority, history>>
    /\ pc' = "swapped" => pc = "swapped"

\* Time, files and the tag change under the feet of a call.
Change ==
    /\ UNCHANGED <<pc, live, lock, pointer, cpc, count, thereIsPriority>>
    /\ Watch

CallStep(c) == Call(c) \/ CallerStep(c)

LEMMA Steps ==
  ASSUME [Next]_vars
  PROVE  \/ Aside \/ Change \/ Swap \/ SwapRelease \/ Crash
         \/ \E c \in Caller : CallStep(c)
  <1> USE DEF env, run, list, next, history
  <1>1. CASE XmdsAnswers \/ XmdsRaises \/ TimerFires \/ KeyR
    BY <1>1 DEF XmdsAnswers, XmdsRaises, TimerFires, KeyR, Aside, Pace
  <1>2. CASE RunStep
    <2>1. CASE OpenFile \/ WriteFile \/ FileError \/ Unchanged \/ Sleep \/ Awake
      BY <2>1 DEF OpenFile, WriteFile, FileError, Unchanged, Sleep, Awake,
                  Aside, Pace
    <2>2. CASE Parse
      <3>1. UNCHANGED <<Pace, lock, pointer, cpc, count, thereIsPriority, history>>
        BY <2>2 DEF Parse, Pace
      <3>2. pc' # "swapped"
        BY <2>2 DEF Parse
      <3> QED BY <3>1, <3>2 DEF Aside
    <2> QED BY <1>2, <2>1, <2>2 DEF RunStep
  <1>3. CASE Environment
    <2>1. CASE Publish
      BY <1>3, <2>1 DEF Environment, Publish, Aside, Pace
    <2>2. CASE Tick \/ ChangeFile \/ ChangeTag
      BY <1>3, <2>2 DEF Environment, Tick, ChangeFile, ChangeTag, Change
    <2> QED BY <1>3, <2>1, <2>2 DEF Environment
  <1>4. CASE UNCHANGED vars
    BY <1>4 DEF vars, Aside, Pace
  <1> HIDE DEF env, run, list, next, history
  <1> QED BY <1>1, <1>2, <1>3, <1>4 DEF Next, CallStep

-----------------------------------------------------------------------------
(* Types.                                                                  *)

Place == {"idle", "default", "lock", "scan", "point", "take",
          "defaultLocked", "release", "raised"}

EnvType ==
    /\ server \in Version /\ clock \in 1 .. MaxTime /\ files \subseteq Layout
    /\ validTag \in Tag /\ events \in 0 .. MaxEvents

RunType ==
    /\ disk \in {Absent, Torn, Blank} \cup Version
    /\ pc \in {"fetch", "open", "write", "compare", "swap", "swapped", "sleep",
               "wait", "dead"}
    /\ got \in {Torn, Blank} \cup Version
    /\ pc \in {"open", "write", "swap"} => got # Torn
    /\ previousSchedule \in {Torn, Blank} \cup Version
    /\ timers \in Nat /\ collectLock \in Nat
    /\ live \in Listing /\ defaultLayout \in {NoLayout, Default}

CallType ==
    /\ lock \in Nat /\ pointer \in Int /\ pointer >= -1
    /\ cpc \in [Caller -> Place]
    /\ count \in [Caller -> Nat]
    /\ thereIsPriority \in [Caller -> BOOLEAN]
    /\ steady \in [Caller -> SUBSET Layout]
    /\ shifted \in [Caller -> BOOLEAN]
    /\ missed \in [Layout -> Nat]

WellTyped == EnvType /\ RunType /\ CallType

LEMMA EnvTypeStep == EnvType /\ [Next]_vars => EnvType'
  <1> SUFFICES ASSUME EnvType, [Next]_vars PROVE EnvType'
    OBVIOUS
  <1> USE DEF env, EnvType
  <1>1. CASE UNCHANGED env
    BY <1>1
  <1>2. Event => events' \in 0 .. MaxEvents
    BY SchedulerAssumption DEF Event
  <1>3. CASE FileError \/ KeyR
    BY <1>2, <1>3 DEF FileError, KeyR
  <1>4. CASE Environment
    <2>1. CASE Publish
      BY <1>2, <2>1, SchedulerAssumption DEF Publish, Version
    <2>2. CASE Tick
      BY <2>2, SchedulerAssumption DEF Tick
    <2>3. CASE ChangeFile
      BY <2>3, SchedulerAssumption DEF ChangeFile
    <2>4. CASE ChangeTag
      BY <2>4 DEF ChangeTag
    <2> QED BY <1>4, <2>1, <2>2, <2>3, <2>4 DEF Environment
  <1>5. CASE Crash
    <2>1. "default" \in Tag
      BY DEF Tag
    <2> QED BY <1>2, <1>5, <2>1 DEF Crash
  <1>6. \/ UNCHANGED env \/ FileError \/ KeyR \/ Environment \/ Crash
    BY DEF Next, vars, XmdsAnswers, XmdsRaises, RunStep, OpenFile, WriteFile,
           Unchanged, Parse, Swap, SwapRelease, Sleep, Awake, TimerFires, Call,
           CallerStep, Lock, Scan, Point, NoneFits, Take, FallBack, Release
  <1> QED BY <1>1, <1>3, <1>4, <1>5, <1>6

LEMMA RunTypeStep == EnvType /\ RunType /\ [Next]_vars => RunType'
  <1> SUFFICES ASSUME EnvType, RunType, [Next]_vars PROVE RunType'
    OBVIOUS
  <1> USE DEF run, list, RunType
  <1>0. Blank # Torn /\ Blank # Absent /\ Torn # Absent
        /\ Blank \notin Version /\ Torn \notin Version /\ Absent \notin Version
    BY SchedulerAssumption DEF Blank, Torn, Absent, Version
  <1>1. CASE UNCHANGED <<disk, run, list>>
    BY <1>1
  <1>2. CASE XmdsAnswers
    BY <1>0, <1>2 DEF XmdsAnswers, EnvType
  <1>3. CASE XmdsRaises
    BY <1>0, <1>3 DEF XmdsRaises
  <1>4. CASE OpenFile \/ WriteFile \/ FileError \/ Unchanged
    BY <1>0, <1>4 DEF OpenFile, WriteFile, FileError, Unchanged
  <1>5. CASE Parse
    <2>1. defaultLayout' \in {NoLayout, Default}
      BY <1>5 DEF Parse, NewDefault
    <2>2. pc' \in {"dead", "swap"} /\ (pc' = "swap" => got # Torn)
      BY <1>5 DEF Parse
    <2> QED BY <1>5, <2>1, <2>2 DEF Parse
  <1>6. CASE Swap
    BY <1>0, <1>6 DEF Swap, Listing
  <1>7. CASE SwapRelease
    BY <1>7 DEF SwapRelease
  <1>8. CASE Sleep \/ Awake \/ TimerFires \/ KeyR
    BY <1>8 DEF Sleep, Timers, Awake, CollectDue, TimerFires, KeyR
  <1>9. CASE Crash
    BY <1>0, <1>9 DEF Crash, Listing
  <1>10. CASE Environment \/ UNCHANGED vars \/ \E c \in Caller : Call(c) \/ CallerStep(c)
    BY <1>1, <1>10 DEF Environment, vars, Call, CallerStep, Lock, Scan, Point,
                       NoneFits, Take, FallBack, Release
  <1> QED BY <1>2, <1>3, <1>4, <1>5, <1>6, <1>7, <1>8, <1>9, <1>10
          DEF Next, RunStep

\* Facts about one caller's step that every invariant needs: nothing of the
\* list or the environment changes, and the other callers stay where they are.
LEMMA CallKeeps ==
  ASSUME NEW c \in Caller, CallStep(c)
  PROVE  /\ UNCHANGED Pace
         /\ pc' = pc
         /\ CallType => \A d \in Caller \ {c} :
               /\ cpc'[d] = cpc[d] /\ count'[d] = count[d]
               /\ thereIsPriority'[d] = thereIsPriority[d]
               /\ steady'[d] = steady[d] /\ shifted'[d] = shifted[d]
  <1> USE DEF env, run, list, next, history
  <1>1. UNCHANGED Pace /\ pc' = pc
    BY DEF CallStep, CallerStep, Call, Lock, Scan, Point, NoneFits, Take,
           FallBack, Release, Pace
  <1>2. ASSUME CallType, NEW d \in Caller \ {c}
        PROVE  /\ cpc'[d] = cpc[d] /\ count'[d] = count[d]
               /\ thereIsPriority'[d] = thereIsPriority[d]
               /\ steady'[d] = steady[d] /\ shifted'[d] = shifted[d]
    BY <1>2 DEF CallType, CallStep, CallerStep, Call, Lock, Scan, Point,
                NoneFits, Take, FallBack, Release
  <1> QED BY <1>1, <1>2

\* The next place in the round, when the last one was a place of this list.
LEMMA PointerFacts ==
  ASSUME NEW n \in Nat, n > 0, NEW p \in Int
  PROVE  /\ (p + 1) % n \in 0 .. n - 1
         /\ p \in 0 .. n - 1 => (p + 1) % n = IF p + 1 = n THEN 0 ELSE p + 1
  OBVIOUS

LEMMA CallTypeStep == RunType /\ CallType /\ [Next]_vars => CallType'
  <1> SUFFICES ASSUME RunType, CallType, [Next]_vars PROVE CallType'
    OBVIOUS
  <1> USE DEF CallType, env, run, list, next, history
  <1>1. CASE Aside
    BY <1>1 DEF Aside
  <1>2. CASE Change
    <2>1. shifted' \in [Caller -> BOOLEAN]
      <3>1. \A c \in Caller : (cpc[c] \in {"point", "take", "defaultLocked"}
                       /\ (shifted[c] \/ AnyPriority' # AnyPriority)) \in BOOLEAN
        OBVIOUS
      <3> QED BY <1>2, <3>1 DEF Change, Watch
    <2>2. steady' \in [Caller -> SUBSET Layout]
      BY <1>2 DEF Change, Watch
    <2>3. missed' \in [Layout -> Nat]
      BY <1>2 DEF Change, Watch
    <2> QED BY <1>2, <2>1, <2>2, <2>3 DEF Change
  <1>3. CASE Swap
    BY <1>3 DEF Swap, MaySwap
  <1>4. CASE SwapRelease
    BY <1>4 DEF SwapRelease
  <1>5. CASE Crash
    BY <1>5 DEF Crash, Place
  <1>6. ASSUME NEW c \in Caller, CallStep(c) PROVE CallType'
    <2>1. CASE Call(c) \/ Lock(c) \/ NoneFits(c) \/ FallBack(c)
      BY <2>1 DEF Call, Lock, NoneFits, FallBack, Place
    <2>2. CASE Scan(c)
      <3>1. cpc' \in [Caller -> Place] /\ count' \in [Caller -> Nat]
        BY <2>2 DEF Scan, Place
      <3>2. thereIsPriority' \in [Caller -> BOOLEAN]
        <4>1. AnyPriority \in BOOLEAN
          BY DEF AnyPriority
        <4> QED BY <2>2, <4>1 DEF Scan
      <3>3. steady' \in [Caller -> SUBSET Layout]
        BY <2>2 DEF Scan
      <3> QED BY <2>2, <3>1, <3>2, <3>3 DEF Scan
    <2>3. CASE Point(c)
      <3>1. Number(live) \in Nat /\ count[c] \in Nat
        BY NumberIsNat DEF RunType
      <3>2. Number(live) > 0
        BY <2>3, <3>1 DEF Point, TriedAll
      <3>3. pointer' \in Int /\ pointer' >= -1
        BY <2>3, <3>1, <3>2, PointerFacts DEF Point, NextPointer
      <3> QED BY <2>3, <3>3 DEF Point, Place
    <2>4. CASE Take(c)
      <3>1. cpc' \in [Caller -> Place] /\ count' \in [Caller -> Nat]
        BY <2>4 DEF Take, Place
      <3>2. missed' \in [Layout -> Nat]
        BY <2>4 DEF Take
      <3> QED BY <2>4, <3>1, <3>2 DEF Take
    <2>5. CASE Release(c)
      BY <2>5 DEF Release, Place
    <2> QED BY <1>6, <2>1, <2>2, <2>3, <2>4, <2>5 DEF CallStep, CallerStep
  <1> QED BY <1>1, <1>2, <1>3, <1>4, <1>5, <1>6, Steps

LEMMA TypeInvariant == Spec => []WellTyped
  <1>1. ASSUME Init PROVE WellTyped
    <2>1. EnvType
      BY <1>1, SchedulerAssumption DEF Init, EnvType, Version, Tag
    <2>2. RunType
      BY <1>1, SchedulerAssumption DEF Init, RunType, Listing, Version
    <2>3. CallType
      BY <1>1 DEF Init, CallType, Place
    <2> QED BY <2>1, <2>2, <2>3 DEF WellTyped
  <1>2. WellTyped /\ [Next]_vars => WellTyped'
    BY EnvTypeStep, RunTypeStep, CallTypeStep DEF WellTyped
  <1> QED BY <1>1, <1>2, PTL DEF Spec

(* Every variable keeps its type: the lock never goes below zero, and the  *)
(* list in force is always one that could be parsed.                       *)
THEOREM TypeCorrect == Spec => []TypeOK
  <1>1. WellTyped => TypeOK
    BY DEF WellTyped, EnvType, RunType, CallType, TypeOK, Listing, Place
  <1> QED BY <1>1, TypeInvariant, PTL

-----------------------------------------------------------------------------
(* The lock: one caller, or the scheduler's swap, works on the list.       *)

Holding == {"scan", "point", "take", "defaultLocked", "release", "raised"}

NobodyHolds == \A c \in Caller : cpc[c] \notin Holding

LockInv ==
    /\ lock \in {0, 1}
    /\ lock = 1 => pc # "swapped" /\ NobodyHolds
    /\ pc = "swapped" => NobodyHolds
    /\ \A c, d \in Caller : cpc[c] \in Holding /\ cpc[d] \in Holding => c = d

LEMMA LockStep == WellTyped /\ LockInv /\ [Next]_vars => LockInv'
  <1> SUFFICES ASSUME WellTyped, LockInv, [Next]_vars PROVE LockInv'
    OBVIOUS
  <1>0. cpc \in [Caller -> Place]
    BY DEF WellTyped, CallType
  <1> USE DEF LockInv, NobodyHolds, Holding
  <1>1. CASE Aside
    BY <1>1 DEF Aside
  <1>2. CASE Change
    BY <1>2 DEF Change
  <1>3. CASE Swap
    BY <1>3 DEF Swap, MaySwap, next
  <1>4. CASE SwapRelease
    BY <1>4 DEF SwapRelease, next
  <1>5. CASE Crash
    BY <1>5 DEF Crash
  <1>6. ASSUME NEW c \in Caller, CallStep(c) PROVE LockInv'
    <2>0. pc' = pc
      BY <1>6, CallKeeps
    <2>1. CASE Call(c)
      BY <1>0, <2>0, <2>1 DEF Call
    <2>2. CASE Lock(c)
      BY <1>0, <2>0, <2>2 DEF Lock
    <2>3. CASE Scan(c) \/ Point(c) \/ NoneFits(c) \/ Take(c)
      <3>1. lock' = lock /\ cpc[c] \in Holding
        BY <2>3 DEF Scan, Point, NoneFits, Take
      <3>2. \A d \in Caller : cpc'[d] \in Holding => cpc[d] \in Holding
        BY <1>0, <2>3 DEF Scan, Point, NoneFits, Take
      <3> QED BY <2>0, <3>1, <3>2
    <2>4. CASE FallBack(c)
      <3>1. lock' = lock
        BY <2>4 DEF FallBack
      <3>2. \A d \in Caller : cpc'[d] \in Holding => cpc[d] \in Holding
        BY <1>0, <2>4 DEF FallBack
      <3> QED BY <2>0, <3>1, <3>2
    <2>5. CASE Release(c)
      BY <1>0, <2>0, <2>5 DEF Release
    <2> QED BY <1>6, <2>1, <2>2, <2>3, <2>4, <2>5 DEF CallStep, CallerStep
  <1> HIDE DEF LockInv, NobodyHolds, Holding
  <1> QED BY <1>1, <1>2, <1>3, <1>4, <1>5, <1>6, Steps

\* While a caller goes round the list, nobody else does and nobody swaps it.
LEMMA Alone ==
  ASSUME LockInv, NEW c \in Caller, cpc[c] \in Holding
  PROVE  ~Swap /\ pc # "swapped" /\ \A d \in Caller \ {c} : cpc[d] \notin Holding
  BY DEF LockInv, NobodyHolds, Swap, MaySwap

-----------------------------------------------------------------------------
(* The round of one call: how many layouts it has tried, and that its      *)
(* pointer is a place of the list it is on.                                *)

InList == pointer \in 0 .. Number(live) - 1

CountInv ==
    \A c \in Caller :
        /\ cpc[c] = "point" => count[c] <= Number(live) /\ (count[c] > 0 => InList)
        /\ cpc[c] = "take" => count[c] < Number(live) /\ InList

LEMMA CountStep == WellTyped /\ LockInv /\ CountInv /\ [Next]_vars => CountInv'
  <1> SUFFICES ASSUME WellTyped, LockInv, CountInv, [Next]_vars PROVE CountInv'
    OBVIOUS
  <1>0. /\ cpc \in [Caller -> Place] /\ count \in [Caller -> Nat]
        /\ pointer \in Int /\ Number(live) \in Nat
    BY NumberIsNat DEF WellTyped, CallType, RunType
  <1> DEFINE Fine(c) ==
               /\ cpc[c] = "point" => count[c] <= Number(live) /\ (count[c] > 0 => InList)
               /\ cpc[c] = "take" => count[c] < Number(live) /\ InList
  <1>1. \A c \in Caller : Fine(c)
    BY DEF CountInv
  <1> SUFFICES \A c \in Caller : Fine(c)'
    BY DEF CountInv
  <1>2. ASSUME Number(live)' = Number(live), pointer' = pointer,
               NEW c \in Caller, cpc'[c] = cpc[c], count'[c] = count[c]
        PROVE  Fine(c)'
    BY <1>1, <1>2 DEF InList
  <1>3. CASE Aside
    <2>1. UNCHANGED <<pointer, cpc, count>> /\ Number(live)' = Number(live)
      BY <1>3, PaceKept DEF Aside
    <2> QED BY <1>2, <2>1
  <1>4. CASE Change
    <2>1. UNCHANGED <<pointer, cpc, count>> /\ Number(live)' = Number(live)
      BY <1>4 DEF Change, Number
    <2> QED BY <1>2, <2>1
  <1>5. CASE Swap
    <2>1. \A c \in Caller : cpc'[c] = cpc[c] /\ cpc[c] \notin {"point", "take"}
      BY <1>5, Alone DEF Swap, next, Holding
    <2> QED BY <2>1
  <1>6. CASE SwapRelease
    <2>1. UNCHANGED <<pointer, cpc, count>> /\ Number(live)' = Number(live)
      BY <1>6 DEF SwapRelease, list, next, Number
    <2> QED BY <1>2, <2>1
  <1>7. CASE Crash
    BY <1>7 DEF Crash
  <1>8. ASSUME NEW c \in Caller, CallStep(c), NEW d \in Caller PROVE Fine(d)'
    <2>1. Number(live)' = Number(live)
      BY <1>8, CallKeeps, PaceKept
    <2>2. CASE d # c
      <3>1. cpc'[d] = cpc[d] /\ count'[d] = count[d]
        BY <1>8, <2>2, CallKeeps DEF WellTyped
      <3>2. CASE Point(c)
        <4>1. cpc[d] \notin {"point", "take"}
          BY <2>2, <3>2, Alone DEF Point, Holding
        <4> QED BY <3>1, <4>1
      <3>3. CASE ~Point(c)
        <4>1. pointer' = pointer
          BY <1>8, <3>3 DEF CallStep, CallerStep, Call, Lock, Scan, NoneFits,
                            Take, FallBack, Release
        <4> QED BY <1>2, <2>1, <3>1, <4>1
      <3> QED BY <3>2, <3>3
    <2>3. CASE d = c
      <3>1. CASE Scan(c)
        <4>1. cpc'[c] = "raised" \/ (cpc'[c] = "point" /\ count'[c] = 0)
          BY <1>0, <3>1 DEF Scan
        <4> QED BY <1>0, <2>1, <2>3, <4>1
      <3>2. CASE Point(c)
        <4>1. cpc'[c] = "take" /\ count'[c] = count[c] /\ count[c] < Number(live)
          BY <1>0, <3>2 DEF Point, TriedAll
        <4>2. pointer' \in 0 .. Number(live) - 1
          BY <1>0, <3>2, <4>1, PointerFacts DEF Point, NextPointer
        <4> QED BY <2>1, <2>3, <4>1, <4>2 DEF InList
      <3>3. CASE Take(c)
        <4>1. /\ count[c] < Number(live) /\ InList /\ pointer' = pointer
              /\ \/ cpc'[c] \in {"raised", "release"}
                 \/ (cpc'[c] = "point" /\ count'[c] = count[c] + 1)
          BY <1>0, <1>1, <3>3 DEF Take
        <4>2. InList'
          BY <2>1, <4>1 DEF InList
        <4> QED BY <1>0, <2>1, <2>3, <4>1, <4>2
      <3>4. CASE Call(c) \/ Lock(c) \/ NoneFits(c) \/ FallBack(c) \/ Release(c)
        <4>1. cpc'[c] \notin {"point", "take"}
          BY <1>0, <3>4 DEF Call, Lock, NoneFits, FallBack, Release
        <4> QED BY <2>3, <4>1
      <3> QED BY <1>8, <3>1, <3>2, <3>3, <3>4 DEF CallStep, CallerStep
    <2> QED BY <2>2, <2>3
  <1> HIDE DEF Fine
  <1> QED BY <1>3, <1>4, <1>5, <1>6, <1>7, <1>8, Steps

LEMMA CountInvariant == Spec => [](WellTyped /\ LockInv /\ CountInv)
  <1>1. Init => LockInv /\ CountInv
    BY DEF Init, LockInv, NobodyHolds, Holding, CountInv
  <1> QED BY <1>1, TypeInvariant, LockStep, CountStep, PTL DEF Spec

(* The place in the round is a place of the list it is used on: no swap    *)
(* comes between the two, whatever the length of the new list, because     *)
(* both run under the lock and the length is read again after it.          *)
THEOREM MathsRightAlways == Spec => []MathsRight
  <1>1. CountInv => MathsRight
    BY DEF CountInv, MathsRight, InList
  <1> QED BY <1>1, CountInvariant, PTL

-----------------------------------------------------------------------------
(* What a call knows of the layouts that had a right to be shown all along.*)

Trying == {"point", "take"}
Scanned == {"point", "take", "defaultLocked", "release", "raised"}

SteadyInv ==
    \A c \in Caller :
        /\ \A l \in steady[c] : Eligible(l)
        /\ cpc[c] \notin Scanned => steady[c] = {} /\ ~shifted[c]
        /\ cpc[c] \in Trying /\ ~shifted[c] => thereIsPriority[c] = AnyPriority

LEMMA SteadyStep == WellTyped /\ LockInv /\ SteadyInv /\ [Next]_vars => SteadyInv'
  <1> SUFFICES ASSUME WellTyped, LockInv, SteadyInv, [Next]_vars PROVE SteadyInv'
    OBVIOUS
  <1>0. /\ cpc \in [Caller -> Place] /\ thereIsPriority \in [Caller -> BOOLEAN]
        /\ steady \in [Caller -> SUBSET Layout] /\ shifted \in [Caller -> BOOLEAN]
    BY DEF WellTyped, CallType
  <1> DEFINE Fine(c) ==
               /\ \A l \in steady[c] : Eligible(l)
               /\ cpc[c] \notin Scanned => steady[c] = {} /\ ~shifted[c]
               /\ cpc[c] \in Trying /\ ~shifted[c] => thereIsPriority[c] = AnyPriority
  <1>1. \A c \in Caller : Fine(c)
    BY DEF SteadyInv
  <1> SUFFICES \A c \in Caller : Fine(c)'
    BY DEF SteadyInv
  <1>2. ASSUME UNCHANGED Pace, NEW c \in Caller,
               cpc'[c] = cpc[c], thereIsPriority'[c] = thereIsPriority[c],
               steady'[c] = steady[c], shifted'[c] = shifted[c]
        PROVE  Fine(c)'
    <2>1. AnyPriority' = AnyPriority /\ \A l \in Layout : Eligible(l)' = Eligible(l)
      BY <1>2, PaceKept
    <2>2. \A l \in steady'[c] : Eligible(l)'
      BY <1>0, <1>1, <1>2, <2>1
    <2> QED BY <1>1, <1>2, <2>1, <2>2
  <1>3. CASE Aside
    BY <1>2, <1>3 DEF Aside, history
  <1>4. ASSUME Change, NEW c \in Caller PROVE Fine(c)'
    <2>1. /\ cpc' = cpc /\ thereIsPriority' = thereIsPriority
          /\ steady'[c] = { l \in steady[c] : Eligible(l)' }
          /\ shifted'[c] = (/\ cpc[c] \in {"point", "take", "defaultLocked"}
                            /\ (shifted[c] \/ AnyPriority' # AnyPriority))
      BY <1>4 DEF Change, Watch
    <2>2. \A l \in steady'[c] : Eligible(l)'
      BY <2>1
    <2>3. cpc[c] \notin Scanned => steady'[c] = {} /\ ~shifted'[c]
      BY <1>1, <2>1 DEF Scanned
    <2>4. cpc[c] \in Trying /\ ~shifted'[c] => ~shifted[c] /\ AnyPriority' = AnyPriority
      BY <2>1 DEF Trying
    <2> QED BY <1>1, <2>1, <2>2, <2>3, <2>4
  <1>5. ASSUME Swap, NEW c \in Caller PROVE Fine(c)'
    <2>1. cpc[c] \notin Scanned /\ cpc[c] \notin Trying
      BY <1>5, Alone DEF Scanned, Trying, Holding
    <2>2. cpc' = cpc /\ steady' = steady /\ shifted' = shifted
      BY <1>5 DEF Swap, next
    <2> QED BY <1>1, <2>1, <2>2
  <1>6. CASE SwapRelease
    BY <1>2, <1>6 DEF SwapRelease, env, list, next, history, Pace
  <1>7. CASE Crash
    BY <1>7 DEF Crash, Scanned, Trying
  <1>8. ASSUME NEW c \in Caller, CallStep(c), NEW d \in Caller PROVE Fine(d)'
    <2>1. /\ UNCHANGED Pace
          /\ d # c => /\ cpc'[d] = cpc[d] /\ thereIsPriority'[d] = thereIsPriority[d]
                      /\ steady'[d] = steady[d] /\ shifted'[d] = shifted[d]
      BY <1>8, CallKeeps DEF WellTyped
    <2>2. AnyPriority' = AnyPriority /\ \A l \in Layout : Eligible(l)' = Eligible(l)
      BY <2>1, PaceKept
    <2>3. CASE d # c
      BY <1>2, <2>1, <2>3
    <2>4. CASE d = c
      <3>1. CASE Scan(c)
        <4>1. cpc[c] = "scan" /\ shifted' = shifted
          BY <3>1 DEF Scan
        <4>2. ~shifted[c] /\ steady[c] = {}
          BY <1>1, <4>1 DEF Scanned
        <4>3. CASE cpc' = [cpc EXCEPT ![c] = "raised"] /\ steady' = steady
          BY <1>0, <2>4, <4>1, <4>2, <4>3 DEF Scanned, Trying
        <4>4. CASE /\ thereIsPriority' = [thereIsPriority EXCEPT ![c] = AnyPriority]
                   /\ steady' = [steady EXCEPT ![c] = { l \in Layout : Eligible(l) }]
                   /\ cpc' = [cpc EXCEPT ![c] = "point"]
          <5>1. /\ cpc'[c] = "point" /\ thereIsPriority'[c] = AnyPriority
                /\ steady'[c] = { l \in Layout : Eligible(l) }
            BY <1>0, <4>4
          <5>2. \A l \in steady'[c] : Eligible(l)'
            BY <2>2, <5>1
          <5> QED BY <2>2, <2>4, <5>1, <5>2 DEF Scanned
        <4> QED BY <3>1, <4>3, <4>4 DEF Scan
      <3>2. CASE Point(c) \/ NoneFits(c) \/ Take(c)
        <4>1. /\ cpc[c] \in Trying /\ cpc'[c] \in Scanned
              /\ thereIsPriority' = thereIsPriority
              /\ steady' = steady /\ shifted' = shifted
          BY <1>0, <3>2 DEF Point, NoneFits, Take, history, Scanned, Trying
        <4>2. \A l \in steady'[c] : Eligible(l)'
          BY <1>0, <1>1, <2>2, <4>1
        <4> QED BY <1>1, <2>2, <2>4, <4>1, <4>2
      <3>3. CASE Call(c) \/ Lock(c)
        <4>1. /\ cpc[c] \notin Scanned /\ cpc'[c] \notin Scanned
              /\ cpc'[c] \notin Trying /\ steady' = steady /\ shifted' = shifted
          BY <1>0, <3>3 DEF Call, Lock, history, Scanned, Trying
        <4> QED BY <1>1, <2>4, <4>1
      <3>4. CASE FallBack(c)
        <4>1. /\ cpc'[c] \notin Trying /\ steady' = steady /\ shifted' = shifted
              /\ cpc'[c] \notin Scanned => cpc[c] \notin Scanned
          BY <1>0, <3>4 DEF FallBack, history, Scanned, Trying
        <4>2. \A l \in steady'[c] : Eligible(l)'
          BY <1>0, <1>1, <2>2, <4>1
        <4> QED BY <1>1, <2>4, <4>1, <4>2
      <3>5. CASE Release(c)
        <4>1. cpc'[c] = "idle" /\ steady'[c] = {} /\ ~shifted'[c]
          BY <1>0, <3>5 DEF Release
        <4> QED BY <2>4, <4>1 DEF Trying
      <3> QED BY <1>8, <3>1, <3>2, <3>3, <3>4, <3>5 DEF CallStep, CallerStep
    <2> QED BY <2>3, <2>4
  <1> HIDE DEF Fine
  <1> QED BY <1>3, <1>4, <1>5, <1>6, <1>7, <1>8, Steps

-----------------------------------------------------------------------------
(* The round as a distance: how many steps the pointer is past a place.    *)

Back(i) ==
    IF pointer >= i - 1 THEN pointer - (i - 1)
    ELSE pointer - (i - 1) + Number(live)

LEMMA DistanceFacts ==
  ASSUME NEW n \in Nat, NEW p \in 0 .. n - 1, NEW i \in 1 .. n,
         NEW d, d = IF p >= i - 1 THEN p - (i - 1) ELSE p - (i - 1) + n
  PROVE  d \in 0 .. n - 1 /\ (d = 0 <=> i = p + 1)
  OBVIOUS

\* All places are less than one round behind; only the candidate's is at the
\* pointer itself.
LEMMA BackFacts ==
  ASSUME WellTyped, InList
  PROVE  /\ \A i \in Position : Back(i) \in 0 .. Number(live) - 1
         /\ \A i \in Position : Back(i) = 0 <=> i = pointer + 1
         /\ pointer + 1 \in Position
  <1>1. Number(live) \in Nat /\ pointer \in Int
    BY NumberIsNat DEF WellTyped, CallType, RunType
  <1> QED BY <1>1 DEF InList, Back, Position

\* A step of the pointer takes it one further from every place but its own.
LEMMA BackMoves ==
  ASSUME WellTyped, NEW c \in Caller, Point(c), count[c] \in Nat
  PROVE  /\ Number(live)' = Number(live) /\ Position' = Position
         /\ InList'
         /\ \A i \in Position : i # pointer' + 1 => Back(i)' > 0
         /\ InList => \A i \in Position : i # pointer' + 1 => Back(i)' = Back(i) + 1
  <1>1. Number(live) \in Nat /\ pointer \in Int
    BY NumberIsNat DEF WellTyped, CallType, RunType
  <1>2. UNCHANGED Pace
    BY DEF Point, env, list, Pace
  <1>3. Number(live)' = Number(live) /\ Position' = Position
    BY <1>2, PaceKept
  <1>4. Number(live) > 0 /\ pointer' = (pointer + 1) % Number(live)
    BY <1>1 DEF Point, TriedAll, NextPointer
  <1>5. /\ pointer' \in 0 .. Number(live) - 1
        /\ InList => pointer' = IF pointer + 1 = Number(live) THEN 0 ELSE pointer + 1
    BY <1>1, <1>4, PointerFacts DEF InList
  <1>6. InList'
    BY <1>3, <1>5 DEF InList
  <1>7. ASSUME NEW i \in Position, i # pointer' + 1
        PROVE  Back(i)' > 0 /\ (InList => Back(i)' = Back(i) + 1)
    <2>1. i \in 1 .. Number(live)
      BY DEF Position
    <2>2. Back(i)' = IF pointer' >= i - 1 THEN pointer' - (i - 1)
                     ELSE pointer' - (i - 1) + Number(live)
      BY <1>3 DEF Back
    <2>3. Back(i)' > 0
      <3> DEFINE p == pointer'
                 d == Back(i)'
                 n == Number(live)
      <3>1. /\ n \in Nat /\ p \in 0 .. n - 1 /\ i \in 1 .. n /\ i # p + 1
            /\ d = IF p >= i - 1 THEN p - (i - 1) ELSE p - (i - 1) + n
        BY <1>1, <1>5, <1>7, <2>1, <2>2
      <3> HIDE DEF p, d, n
      <3>2. d \in 0 .. n - 1 /\ d # 0
        BY <3>1, DistanceFacts
      <3>3. d > 0
        BY <3>1, <3>2
      <3> QED BY <3>3 DEF d
    <2>4. ASSUME InList PROVE Back(i)' = Back(i) + 1
      <3>1. pointer \in 0 .. Number(live) - 1
        BY <2>4 DEF InList
      <3>2. CASE pointer + 1 = Number(live)
        <4>1. pointer' = 0
          BY <1>5, <2>4, <3>2
        <4> QED BY <1>1, <1>7, <2>1, <2>2, <3>1, <3>2, <4>1 DEF Back
      <3>3. CASE pointer + 1 # Number(live)
        <4>1. pointer' = pointer + 1
          BY <1>5, <2>4, <3>3
        <4> QED BY <1>1, <1>7, <2>1, <2>2, <3>1, <3>3, <4>1 DEF Back
      <3> QED BY <3>2, <3>3
    <2> QED BY <2>3, <2>4
  <1> QED BY <1>3, <1>6, <1>7

\* The candidate of a call that priority has not shifted under is refused
\* only if it has not had a right to be shown all along.
LEMMA RefusedHasNoRight ==
  ASSUME SteadyInv, NEW c \in Caller, cpc[c] = "take", ~shifted[c],
         ~Fits(c, Candidate)
  PROVE  ~Eligible(Candidate)
  <1>1. thereIsPriority[c] = AnyPriority
    BY DEF SteadyInv, Trying
  <1> QED BY <1>1 DEF Eligible, Fits

\* What a round has passed.
VisitInv ==
    \A c \in Caller :
        /\ cpc[c] = "point" /\ ~shifted[c] =>
              \A i \in Position : Back(i) < count[c] => Ids[live][i] \notin steady[c]
        /\ cpc[c] = "take" /\ ~shifted[c] =>
              \A i \in Position : Back(i) \in 1 .. count[c] => Ids[live][i] \notin steady[c]
        /\ cpc[c] = "defaultLocked" /\ ~shifted[c] => steady[c] = {}

BaseInv == WellTyped /\ LockInv /\ CountInv /\ SteadyInv

LEMMA VisitStep == BaseInv /\ VisitInv /\ [Next]_vars => VisitInv'
  <1> SUFFICES ASSUME BaseInv, VisitInv, [Next]_vars PROVE VisitInv'
    OBVIOUS
  <1> USE DEF BaseInv
  <1>0. /\ cpc \in [Caller -> Place] /\ count \in [Caller -> Nat]
        /\ pointer \in Int /\ Number(live) \in Nat
        /\ steady \in [Caller -> SUBSET Layout] /\ shifted \in [Caller -> BOOLEAN]
    BY NumberIsNat DEF WellTyped, CallType, RunType
  <1> DEFINE Fine(c) ==
        /\ cpc[c] = "point" /\ ~shifted[c] =>
              \A i \in Position : Back(i) < count[c] => Ids[live][i] \notin steady[c]
        /\ cpc[c] = "take" /\ ~shifted[c] =>
              \A i \in Position : Back(i) \in 1 .. count[c] => Ids[live][i] \notin steady[c]
        /\ cpc[c] = "defaultLocked" /\ ~shifted[c] => steady[c] = {}
  <1>1. \A c \in Caller : Fine(c)
    BY DEF VisitInv
  <1> SUFFICES \A c \in Caller : Fine(c)'
    BY DEF VisitInv
  <1>2. ASSUME live' = live, pointer' = pointer, NEW c \in Caller,
               cpc'[c] = cpc[c], count'[c] = count[c],
               steady'[c] \subseteq steady[c], ~shifted'[c] => ~shifted[c]
        PROVE  Fine(c)'
    <2>1. Position' = Position /\ \A i : Back(i)' = Back(i)
      BY <1>2 DEF Position, Back, Number
    <2>2. \A i : Ids[live'][i] = Ids[live][i]
      BY <1>2
    <2>3. cpc'[c] = "defaultLocked" /\ ~shifted'[c] => steady'[c] = {}
      BY <1>1, <1>2
    <2>4. cpc'[c] = "point" /\ ~shifted'[c] =>
             \A i \in Position : Back(i)' < count'[c] => Ids[live'][i] \notin steady'[c]
      BY <1>1, <1>2, <2>1, <2>2
    <2>5. cpc'[c] = "take" /\ ~shifted'[c] =>
             \A i \in Position : Back(i)' \in 1 .. count'[c] => Ids[live'][i] \notin steady'[c]
      BY <1>1, <1>2, <2>1, <2>2
    <2> QED BY <2>1, <2>3, <2>4, <2>5
  <1>3. ASSUME NEW c \in Caller, cpc'[c] \notin {"point", "take", "defaultLocked"}
        PROVE  Fine(c)'
    BY <1>3
  <1> HIDE DEF Fine
  <1>4. CASE Aside
    BY <1>2, <1>4 DEF Aside, history, Pace
  <1>5. ASSUME Change, NEW c \in Caller PROVE Fine(c)'
    <2>1. /\ live' = live /\ pointer' = pointer /\ cpc' = cpc /\ count' = count
          /\ steady'[c] = { l \in steady[c] : Eligible(l)' }
          /\ shifted'[c] = (/\ cpc[c] \in {"point", "take", "defaultLocked"}
                            /\ (shifted[c] \/ AnyPriority' # AnyPriority))
      BY <1>5 DEF Change, Watch
    <2>2. CASE cpc[c] \in {"point", "take", "defaultLocked"}
      <3>1. steady'[c] \subseteq steady[c] /\ (~shifted'[c] => ~shifted[c])
        BY <2>1, <2>2
      <3> QED BY <1>2, <2>1, <3>1
    <2>3. CASE cpc[c] \notin {"point", "take", "defaultLocked"}
      BY <1>3, <2>1, <2>3
    <2> QED BY <2>2, <2>3
  <1>6. ASSUME Swap, NEW c \in Caller PROVE Fine(c)'
    <2>1. cpc[c] \notin Holding /\ cpc' = cpc
      BY <1>6, Alone DEF Swap, next
    <2> QED BY <1>3, <2>1 DEF Holding
  <1>7. CASE SwapRelease
    BY <1>2, <1>7 DEF SwapRelease, list, next, history
  <1>8. ASSUME Crash, NEW c \in Caller PROVE Fine(c)'
    BY <1>3, <1>8 DEF Crash
  <1>9. ASSUME NEW c \in Caller, CallStep(c), NEW d \in Caller PROVE Fine(d)'
    <2>0. Number(live)' = Number(live) /\ Position' = Position /\ live' = live
      BY <1>9, CallKeeps, PaceKept DEF Pace
    <2>1. CASE d # c
      <3>1. /\ cpc'[d] = cpc[d] /\ count'[d] = count[d]
            /\ steady'[d] = steady[d] /\ shifted'[d] = shifted[d]
        BY <1>9, <2>1, CallKeeps DEF WellTyped
      <3>2. CASE Point(c)
        <4>1. cpc[d] \notin Holding
          BY <2>1, <3>2, Alone DEF Point, Holding
        <4> QED BY <1>3, <3>1, <4>1 DEF Holding
      <3>3. CASE ~Point(c)
        <4>1. pointer' = pointer
          BY <1>9, <3>3 DEF CallStep, CallerStep, Call, Lock, Scan, NoneFits,
                            Take, FallBack, Release
        <4> QED BY <1>2, <2>0, <3>1, <4>1
      <3> QED BY <3>2, <3>3
    <2>2. CASE d = c
      <3>1. CASE Scan(c)
        <4>1. CASE cpc'[c] = "raised"
          BY <1>3, <2>2, <4>1
        <4>2. CASE cpc'[c] = "point" /\ count'[c] = 0 /\ UNCHANGED <<live, pointer>>
          <5>1. ASSUME NEW i \in Position PROVE ~(Back(i)' < 0)
            <6>1. i \in 1 .. Number(live) /\ pointer >= -1
              BY DEF Position, WellTyped, CallType
            <6>2. Back(i)' = Back(i)
              BY <2>0, <4>2 DEF Back
            <6> QED BY <1>0, <6>1, <6>2 DEF Back
          <5> QED BY <2>0, <2>2, <4>2, <5>1 DEF Fine
        <4> QED BY <1>0, <3>1, <4>1, <4>2 DEF Scan, list
      <3>2. CASE Point(c)
        <4>1. /\ cpc[c] = "point" /\ cpc'[c] = "take" /\ count'[c] = count[c]
              /\ steady' = steady /\ shifted' = shifted
          BY <1>0, <3>2 DEF Point, history
        <4>2. ASSUME ~shifted[c], NEW i \in Position, Back(i)' \in 1 .. count[c]
              PROVE  Ids[live][i] \notin steady[c]
          <5>1. count[c] \in Nat /\ count[c] > 0
            BY <1>0, <4>2
          <5>2. InList
            BY <4>1, <5>1 DEF CountInv
          <5>3. i # pointer' + 1
            <6>1. ASSUME i = pointer' + 1 PROVE FALSE
              <7> DEFINE p == pointer'
                         b == Back(i)'
                         n == Number(live)
              <7>1. /\ n \in Nat /\ p \in 0 .. n - 1 /\ i \in 1 .. n /\ i = p + 1
                    /\ b = IF p >= i - 1 THEN p - (i - 1) ELSE p - (i - 1) + n
                BY <1>0, <2>0, <3>2, <6>1, BackMoves DEF InList, Back, Position
              <7> HIDE DEF p, b, n
              <7>2. b = 0
                BY <7>1, DistanceFacts
              <7> QED BY <4>2, <7>2 DEF b
            <6> QED BY <6>1
          <5>4. Back(i)' = Back(i) + 1
            BY <1>0, <3>2, <5>2, <5>3, BackMoves
          <5>5. Back(i) \in Int
            BY <1>0 DEF Back, Position
          <5>6. Back(i) < count[c]
            BY <1>0, <4>2, <5>4, <5>5
          <5> QED BY <1>1, <4>1, <4>2, <5>6 DEF Fine
        <4> QED BY <2>0, <2>2, <4>1, <4>2 DEF Fine
      <3>3. CASE Take(c)
        <4>1. CASE cpc'[c] \in {"raised", "release"}
          BY <1>3, <2>2, <4>1
        <4>2. CASE /\ ~Fits(c, Candidate)
                   /\ count' = [count EXCEPT ![c] = @ + 1]
                   /\ cpc' = [cpc EXCEPT ![c] = "point"]
          <5>1. /\ cpc[c] = "take" /\ cpc'[c] = "point" /\ count'[c] = count[c] + 1
                /\ steady' = steady /\ shifted' = shifted /\ pointer' = pointer
            BY <1>0, <3>3, <4>2 DEF Take
          <5>2. \A i \in Position : Back(i)' = Back(i)
            BY <2>0, <5>1 DEF Back
          <5>3. InList
            BY <5>1 DEF CountInv
          <5>4. ASSUME ~shifted[c], NEW i \in Position, Back(i) < count[c] + 1
                PROVE  Ids[live][i] \notin steady[c]
            <6>1. Back(i) \in 0 .. Number(live) - 1 /\ (Back(i) = 0 => i = pointer + 1)
              BY <5>3, BackFacts
            <6>2. CASE Back(i) = 0
              <7>1. Ids[live][i] = Candidate
                BY <6>1, <6>2 DEF Candidate
              <7>2. ~Eligible(Candidate)
                BY <4>2, <5>1, <5>4, RefusedHasNoRight
              <7> QED BY <7>1, <7>2 DEF SteadyInv
            <6>3. CASE Back(i) # 0
              <7>1. Back(i) \in 1 .. count[c]
                BY <1>0, <5>4, <6>1, <6>3
              <7> QED BY <1>1, <5>1, <5>4, <7>1 DEF Fine
            <6> QED BY <6>2, <6>3
          <5> QED BY <2>0, <2>2, <5>1, <5>2, <5>4 DEF Fine
        <4> QED BY <1>0, <3>3, <4>1, <4>2 DEF Take
      <3>4. CASE NoneFits(c)
        <4>1. /\ cpc[c] = "point" /\ cpc'[c] = "defaultLocked"
              /\ count[c] >= Number(live)
              /\ steady' = steady /\ shifted' = shifted
          BY <1>0, <3>4 DEF NoneFits, TriedAll, history
        <4>2. ASSUME ~shifted[c], NEW l \in steady[c] PROVE FALSE
          <5>1. l \in Listed
            BY <4>2 DEF SteadyInv, Eligible
          <5>2. PICK i \in Position : l = Ids[live][i]
            BY <5>1 DEF Listed, Position
          <5>3. count[c] > 0
            BY <1>0, <4>1, <5>2 DEF Position
          <5>4. InList
            BY <4>1, <5>3 DEF CountInv
          <5>5. Back(i) \in 0 .. Number(live) - 1
            BY <5>4, BackFacts
          <5>6. Back(i) < count[c]
            BY <1>0, <4>1, <5>5
          <5> QED BY <1>1, <4>1, <4>2, <5>2, <5>6 DEF Fine
        <4> QED BY <2>2, <4>1, <4>2 DEF Fine
      <3>5. CASE Call(c) \/ Lock(c) \/ Release(c)
        <4>1. cpc'[c] \notin {"point", "take", "defaultLocked"}
          BY <1>0, <3>5 DEF Call, Lock, Release
        <4> QED BY <1>3, <2>2, <4>1
      <3>6. CASE FallBack(c)
        <4>1. cpc'[c] \notin {"point", "take", "defaultLocked"}
          BY <1>0, <3>6 DEF FallBack
        <4> QED BY <1>3, <2>2, <4>1
      <3> QED BY <1>9, <3>1, <3>2, <3>3, <3>4, <3>5, <3>6 DEF CallStep, CallerStep
    <2> QED BY <2>1, <2>2
  <1> QED BY <1>4, <1>5, <1>6, <1>7, <1>8, <1>9, Steps

LEMMA VisitInvariant == Spec => [](BaseInv /\ VisitInv)
  <1>1. Init => SteadyInv /\ VisitInv
    BY DEF Init, SteadyInv, Scanned, Trying, VisitInv
  <1>2. WellTyped /\ LockInv /\ CountInv /\ SteadyInv /\ [Next]_vars => SteadyInv'
    BY SteadyStep
  <1>3. Spec => []BaseInv
    BY <1>1, <1>2, CountInvariant, PTL DEF Spec, BaseInv
  <1> QED BY <1>1, <1>3, VisitStep, PTL DEF Spec

(* A layout that could be shown all through a call is not passed over for  *)
(* the default one, unless priority came or went meanwhile: the call tries *)
(* every place of the list, and refuses only what has not had the right.   *)
THEOREM OverlookedOnShiftAlways == Spec => []OverlookedOnShift
  <1>1. VisitInv => OverlookedOnShift
    BY DEF VisitInv, OverlookedOnShift
  <1> QED BY <1>1, VisitInvariant, PTL

-----------------------------------------------------------------------------
(* No layout starves: it has missed at most as many turns as the pointer   *)
(* has moved since it was last the candidate.                              *)

MissInv ==
    /\ \A l \in Layout : missed[l] > 0 =>
           Eligible(l) /\ InList /\ missed[l] < Number(live)
    /\ \A c \in Caller : cpc[c] \in Trying /\ shifted[c] =>
           \A l \in Layout : missed[l] = 0
    /\ (\A c \in Caller : cpc[c] \notin {"take", "raised"}) =>
           \A l \in Layout, i \in Position :
               Ids[live][i] = l => missed[l] = 0 \/ missed[l] <= Back(i)
    /\ (\E c \in Caller : cpc[c] = "take") =>
           \A l \in Layout, i \in Position :
               Ids[live][i] = l /\ i # pointer + 1 => missed[l] < Back(i)

\* A step that moves neither the pointer nor the list, counts nobody out and
\* is not the end of a try leaves the counts within their bounds.
LEMMA MissKept ==
  ASSUME WellTyped, WellTyped', MissInv, live' = live, pointer' = pointer,
         \A l \in Layout : /\ missed'[l] \in {0, missed[l]}
                           /\ missed'[l] > 0 => Eligible(l)',
         \A c \in Caller : cpc'[c] \in Trying /\ shifted'[c] =>
             \/ cpc[c] \in Trying /\ shifted[c]
             \/ \A l \in Layout : missed'[l] = 0,
         \A c \in Caller : cpc[c] \in {"take", "raised"} => cpc'[c] = cpc[c],
         \A c \in Caller : cpc'[c] = "take" => cpc[c] = "take"
  PROVE  MissInv'
  <1>1. /\ Number(live)' = Number(live) /\ Position' = Position /\ InList' = InList
        /\ \A i : Back(i)' = Back(i)
    BY DEF Number, Position, InList, Back
  <1>2. \A l \in Layout : missed[l] \in Nat /\ missed'[l] \in Nat
    BY DEF WellTyped, CallType
  <1>3. \A l \in Layout : missed'[l] > 0 =>
           Eligible(l)' /\ InList' /\ missed'[l] < Number(live)'
    BY <1>1, <1>2 DEF MissInv
  <1>4. \A c \in Caller : cpc'[c] \in Trying /\ shifted'[c] =>
           \A l \in Layout : missed'[l] = 0
    <2> SUFFICES ASSUME NEW c \in Caller, cpc'[c] \in Trying, shifted'[c],
                        NEW l \in Layout
                 PROVE  missed'[l] = 0
      OBVIOUS
    <2>1. CASE cpc[c] \in Trying /\ shifted[c]
      BY <2>1 DEF MissInv
    <2> QED BY <2>1
  <1>5. ASSUME \A c \in Caller : cpc'[c] \notin {"take", "raised"},
               NEW l \in Layout, NEW i \in Position, Ids[live][i] = l
        PROVE  missed'[l] = 0 \/ missed'[l] <= Back(i)
    <2>1. \A c \in Caller : cpc[c] \notin {"take", "raised"}
      BY <1>5
    <2>2. missed[l] = 0 \/ missed[l] <= Back(i)
      BY <1>5, <2>1 DEF MissInv
    <2> QED BY <1>2, <2>2
  <1>6. ASSUME NEW c \in Caller, cpc'[c] = "take",
               NEW l \in Layout, NEW i \in Position, Ids[live][i] = l,
               i # pointer + 1
        PROVE  missed'[l] < Back(i)
    <2>1. missed[l] < Back(i)
      BY <1>6 DEF MissInv
    <2>2. Number(live) \in Nat /\ pointer \in Int
      BY NumberIsNat DEF WellTyped, RunType, CallType
    <2>3. Back(i) \in Int
      BY <2>2 DEF Back, Position
    <2>4. missed'[l] = 0 \/ missed'[l] = missed[l]
      OBVIOUS
    <2> QED BY <1>2, <2>1, <2>3, <2>4
  <1> QED BY <1>1, <1>3, <1>4, <1>5, <1>6 DEF MissInv

LEMMA MissStep == BaseInv /\ BaseInv' /\ MissInv /\ [Next]_vars => MissInv'
  <1> SUFFICES ASSUME BaseInv, BaseInv', MissInv, [Next]_vars PROVE MissInv'
    OBVIOUS
  <1> USE DEF BaseInv
  <1>0. /\ cpc \in [Caller -> Place] /\ count \in [Caller -> Nat]
        /\ pointer \in Int /\ Number(live) \in Nat /\ missed \in [Layout -> Nat]
        /\ steady \in [Caller -> SUBSET Layout]
    BY NumberIsNat DEF WellTyped, CallType, RunType
  <1>1. ASSUME UNCHANGED <<Pace, pointer, missed>>,
               \A c \in Caller : cpc'[c] \in Trying /\ shifted'[c] =>
                   cpc[c] \in Trying /\ shifted[c],
               \A c \in Caller : cpc[c] \in {"take", "raised"} => cpc'[c] = cpc[c],
               \A c \in Caller : cpc'[c] = "take" => cpc[c] = "take"
        PROVE  MissInv'
    <2>1. \A l \in Layout : Eligible(l)' = Eligible(l)
      BY <1>1, PaceKept
    <2>2. \A l \in Layout : /\ missed'[l] \in {0, missed[l]}
                            /\ missed'[l] > 0 => Eligible(l)'
      BY <1>1, <2>1 DEF MissInv
    <2>3. live' = live /\ pointer' = pointer
      BY <1>1 DEF Pace
    <2> QED BY <1>1, <2>2, <2>3, MissKept
  <1>2. CASE Aside
    BY <1>1, <1>2 DEF Aside, history
  <1>3. CASE Change
    <2>1. /\ live' = live /\ pointer' = pointer /\ cpc' = cpc
          /\ missed' = [l \in Layout |->
                          IF Eligible(l)' /\ \A c \in Caller : ~shifted'[c]
                          THEN missed[l] ELSE 0]
      BY <1>3 DEF Change, Watch
    <2>2. \A l \in Layout : /\ missed'[l] \in {0, missed[l]}
                            /\ missed'[l] > 0 => Eligible(l)'
      BY <2>1
    <2>3. \A c \in Caller : shifted'[c] => \A l \in Layout : missed'[l] = 0
      BY <2>1
    <2> QED BY <2>1, <2>2, <2>3, MissKept
  <1>4. CASE Swap
    <2>1. cpc' = cpc /\ \A l \in Layout : missed'[l] = 0
      BY <1>4 DEF Swap, next
    <2>2. \A c \in Caller : cpc[c] # "take"
      BY <1>4, Alone DEF Holding
    <2> QED BY <2>1, <2>2 DEF MissInv
  <1>5. CASE SwapRelease
    BY <1>1, <1>5 DEF SwapRelease, env, list, next, history, Pace
  <1>6. CASE Crash
    <2>1. \A l \in Layout : missed'[l] = 0
      BY <1>6 DEF Crash
    <2>2. \A c \in Caller : cpc'[c] = "idle"
      BY <1>6 DEF Crash
    <2> QED BY <2>1, <2>2 DEF MissInv, Trying
  <1>7. ASSUME NEW c \in Caller, CallStep(c) PROVE MissInv'
    <2>0. /\ UNCHANGED Pace /\ live' = live
          /\ \A d \in Caller \ {c} : cpc'[d] = cpc[d] /\ shifted'[d] = shifted[d]
      BY <1>7, CallKeeps DEF WellTyped, Pace
    <2>a. /\ Number(live)' = Number(live) /\ Position' = Position
          /\ \A l \in Layout : Eligible(l)' = Eligible(l)
      BY <2>0, PaceKept
    <2>1. CASE Call(c) \/ Lock(c) \/ Scan(c) \/ NoneFits(c) \/ FallBack(c) \/ Release(c)
      <3>1. UNCHANGED <<pointer, missed>>
        BY <2>1 DEF Call, Lock, Scan, NoneFits, FallBack, Release, history
      <3>2. cpc[c] \notin {"take", "raised"} /\ cpc'[c] # "take"
        BY <1>0, <2>1 DEF Call, Lock, Scan, NoneFits, FallBack, Release
      <3>3. cpc'[c] \in Trying => ~shifted'[c]
        <4>1. CASE Scan(c)
          <5>1. cpc[c] \notin Scanned /\ shifted' = shifted
            BY <4>1 DEF Scan, Scanned
          <5> QED BY <5>1 DEF SteadyInv
        <4>2. CASE Call(c) \/ Lock(c) \/ NoneFits(c) \/ FallBack(c) \/ Release(c)
          BY <1>0, <4>2 DEF Call, Lock, NoneFits, FallBack, Release, Trying
        <4> QED BY <2>1, <4>1, <4>2
      <3>4. /\ \A d \in Caller : cpc'[d] \in Trying /\ shifted'[d] =>
                   cpc[d] \in Trying /\ shifted[d]
            /\ \A d \in Caller : cpc[d] \in {"take", "raised"} => cpc'[d] = cpc[d]
            /\ \A d \in Caller : cpc'[d] = "take" => cpc[d] = "take"
        BY <2>0, <3>2, <3>3
      <3> QED BY <1>1, <2>0, <3>1, <3>4
    <2>2. CASE Point(c)
      <3>1. /\ cpc[c] = "point" /\ cpc'[c] = "take"
            /\ missed' = missed /\ shifted' = shifted
        BY <1>0, <2>2 DEF Point, history
      <3>2. \A d \in Caller \ {c} : cpc[d] \notin Holding
        BY <3>1, Alone DEF Holding
      <3>3. /\ InList'
            /\ \A i \in Position : i # pointer' + 1 => Back(i)' > 0
            /\ InList => \A i \in Position : i # pointer' + 1 => Back(i)' = Back(i) + 1
        BY <1>0, <2>2, BackMoves
      <3>4. \A l \in Layout : missed'[l] > 0 =>
                Eligible(l)' /\ InList' /\ missed'[l] < Number(live)'
        BY <2>a, <3>1, <3>3 DEF MissInv
      <3>5. \A d \in Caller : cpc'[d] \in Trying /\ shifted'[d] =>
                \A l \in Layout : missed'[l] = 0
        BY <2>0, <3>1 DEF MissInv, Trying
      <3>6. ASSUME NEW l \in Layout, NEW i \in Position, Ids[live][i] = l,
                   i # pointer' + 1
            PROVE  missed[l] < Back(i)'
        <4>1. missed[l] = 0 \/ missed[l] <= Back(i)
          BY <3>1, <3>2, <3>6 DEF MissInv, Holding
        <4>2. CASE missed[l] = 0
          BY <3>3, <3>6, <4>2
        <4>3. CASE missed[l] # 0
          <5>1. InList
            BY <1>0, <4>3 DEF MissInv
          <5>2. Back(i)' = Back(i) + 1
            BY <3>3, <3>6, <5>1
          <5>3. Back(i) \in Int /\ missed[l] \in Nat
            BY <1>0 DEF Back, Position
          <5> HIDE DEF Back
          <5> QED BY <4>1, <4>3, <5>2, <5>3
        <4> QED BY <4>2, <4>3
      <3> QED BY <2>0, <2>a, <3>1, <3>4, <3>5, <3>6 DEF MissInv
    <2>3. CASE Take(c)
      <3>1. cpc[c] = "take" /\ pointer' = pointer /\ shifted' = shifted
        BY <2>3 DEF Take
      <3>2. InList /\ \A d \in Caller \ {c} : cpc[d] \notin Holding
        BY <3>1, Alone DEF CountInv, Holding
      <3>3. InList' /\ \A i : Back(i)' = Back(i)
        BY <2>0, <2>a, <3>1, <3>2 DEF InList, Back
      <3>4. \A l \in Layout, i \in Position :
               Ids[live][i] = l /\ i # pointer + 1 => missed[l] < Back(i)
        BY <3>1 DEF MissInv
      <3>5. \A i \in Position : Back(i) \in 0 .. Number(live) - 1
        BY <3>2, BackFacts
      <3>6. \A d \in Caller \ {c} : cpc'[d] \notin Trying /\ cpc'[d] # "take"
        BY <2>0, <3>2 DEF Trying, Holding
      <3>7. CASE cpc'[c] = "raised" /\ missed' = missed
        <4>1. \A l \in Layout : missed'[l] > 0 =>
                  Eligible(l)' /\ InList' /\ missed'[l] < Number(live)'
          BY <2>a, <3>3, <3>7 DEF MissInv
        <4>2. cpc'[c] \notin Trying /\ cpc'[c] # "take"
          BY <3>7 DEF Trying
        <4> QED BY <3>6, <3>7, <4>1, <4>2 DEF MissInv
      <3>8. CASE /\ cpc'[c] = "release"
                 /\ missed' = [l \in Layout |-> IF l = Candidate THEN 0
                                                ELSE IF l \in steady[c] THEN missed[l] + 1
                                                ELSE missed[l]]
        <4>1. ASSUME NEW l \in Layout, NEW i \in Position, Ids[live][i] = l
              PROVE  missed'[l] = 0 \/ missed'[l] <= Back(i)
          <5>1. CASE l = Candidate
            BY <3>8, <5>1
          <5>2. CASE l # Candidate
            <6>1. i # pointer + 1
              BY <4>1, <5>2 DEF Candidate
            <6>2. missed[l] < Back(i) /\ missed[l] \in Nat /\ Back(i) \in Int
              BY <1>0, <3>4, <3>5, <4>1, <6>1
            <6>3. missed'[l] = missed[l] + 1 \/ missed'[l] = missed[l]
              BY <3>8, <5>2
            <6> HIDE DEF Back
            <6> QED BY <6>2, <6>3
          <5> QED BY <5>1, <5>2
        <4>2. ASSUME NEW l \in Layout, missed'[l] > 0
              PROVE  Eligible(l)' /\ InList' /\ missed'[l] < Number(live)'
          <5>1. Eligible(l)
            <6>1. CASE l \in steady[c]
              BY <6>1 DEF SteadyInv
            <6>2. CASE l \notin steady[c]
              <7>1. missed[l] > 0
                BY <3>8, <4>2, <6>2
              <7> QED BY <7>1 DEF MissInv
            <6> QED BY <6>1, <6>2
          <5>2. PICK i \in Position : l = Ids[live][i]
            BY <5>1 DEF Eligible, Listed, Position
          <5>3. missed'[l] = 0 \/ missed'[l] <= Back(i)
            BY <4>1, <5>2
          <5>4. Back(i) \in 0 .. Number(live) - 1 /\ missed'[l] \in Nat
            BY <3>5 DEF WellTyped, CallType
          <5>5. missed'[l] < Number(live)
            <6> DEFINE m == missed'[l]
                       b == Back(i)
            <6>1. m \in Nat /\ m > 0 /\ b \in 0 .. Number(live) - 1 /\ (m = 0 \/ m <= b)
              BY <4>2, <5>3, <5>4
            <6> HIDE DEF m, b
            <6>2. m < Number(live)
              BY <1>0, <6>1
            <6> QED BY <6>2 DEF m
          <5> QED BY <2>a, <3>3, <5>1, <5>5
        <4>3. cpc'[c] \notin Trying /\ cpc'[c] # "take"
          BY <3>8 DEF Trying
        <4> QED BY <2>0, <2>a, <3>3, <3>6, <4>1, <4>2, <4>3 DEF MissInv
      <3>9. CASE cpc'[c] = "point" /\ missed' = missed /\ ~Fits(c, Candidate)
        <4>1. \A l \in Layout : missed'[l] > 0 =>
                  Eligible(l)' /\ InList' /\ missed'[l] < Number(live)'
          BY <2>a, <3>3, <3>9 DEF MissInv
        <4>2. shifted'[c] => \A l \in Layout : missed'[l] = 0
          BY <3>1, <3>9 DEF MissInv, Trying
        <4>3. ASSUME NEW l \in Layout, NEW i \in Position, Ids[live][i] = l
              PROVE  missed'[l] = 0 \/ missed'[l] <= Back(i)
          <5>1. CASE i = pointer + 1
            <6>1. l = Candidate
              BY <4>3, <5>1 DEF Candidate
            <6>2. CASE shifted[c]
              BY <3>1, <4>2, <6>2
            <6>3. CASE ~shifted[c]
              <7>1. ~Eligible(l)
                BY <3>1, <3>9, <6>1, <6>3, RefusedHasNoRight
              <7>2. missed[l] \in Nat /\ ~(missed[l] > 0)
                BY <1>0, <7>1 DEF MissInv
              <7> QED BY <3>9, <7>2
            <6> QED BY <6>2, <6>3
          <5>2. CASE i # pointer + 1
            <6>1. missed[l] < Back(i) /\ missed[l] \in Nat /\ Back(i) \in Int
              BY <1>0, <3>4, <3>5, <4>3, <5>2
            <6> HIDE DEF Back
            <6> QED BY <3>9, <6>1
          <5> QED BY <5>1, <5>2
        <4>4. cpc'[c] # "take"
          BY <3>9
        <4> QED BY <2>0, <2>a, <3>3, <3>6, <4>1, <4>2, <4>3, <4>4 DEF MissInv
      <3> QED BY <1>0, <2>3, <3>7, <3>8, <3>9 DEF Take
    <2> QED BY <1>7, <2>1, <2>2, <2>3 DEF CallStep, CallerStep
  <1> QED BY <1>2, <1>3, <1>4, <1>5, <1>6, <1>7, Steps

(* No layout is passed over for ever: one that keeps its right to be shown *)
(* misses fewer turns in a row than the list is long, over any number of   *)
(* calls, schedules and changes of tag, time and files.                    *)
THEOREM NoStarvationAlways == Spec => []NoStarvation
  <1>1. ASSUME Init PROVE MissInv
    <2>1. \A l \in Layout : missed[l] = 0
      BY <1>1 DEF Init
    <2>2. \A c \in Caller : cpc[c] = "idle"
      BY <1>1 DEF Init
    <2> QED BY <2>1, <2>2 DEF MissInv, Trying
  <1>2. WellTyped /\ MissInv => NoStarvation
    <2> SUFFICES ASSUME WellTyped, MissInv, NEW l \in Layout
                 PROVE  missed[l] = 0 \/ missed[l] < Number(live)
      BY DEF NoStarvation
    <2>1. missed[l] \in Nat
      BY DEF WellTyped, CallType
    <2>2. missed[l] > 0 => missed[l] < Number(live)
      BY DEF MissInv
    <2> QED BY <2>1, <2>2
  <1>3. BaseInv => WellTyped
    BY DEF BaseInv
  <1> QED BY <1>1, <1>2, <1>3, MissStep, VisitInvariant, PTL DEF Spec

=============================================================================

---------------------------- MODULE XmdsScheduler ----------------------------
(***************************************************************************)
(* XmdsScheduler and the XiboLayout objects it keeps.  Its thread fetches  *)
(* the schedule from XMDS, or from the copy on disk when XMDS fails, and   *)
(* swaps the new list of layouts in under a lock.  Display manager threads *)
(* call nextLayout, which goes round that list.                            *)
(*                                                                         *)
(* The schedules the server publishes are Versions 1, 2, ..., in order.    *)
(***************************************************************************)
EXTENDS Integers, Sequences, FiniteSets, FiniteSetsExt

CONSTANTS
    Layout,      \* layout ids
    Default,     \* the layout that every published schedule has as default
    Entries,     \* version -> sequence of [id, from, to, priority]
    TagsOf,      \* layout -> its tags
    LiftEnabled, \* configuration Lift -> enabled
    ManualUpdate, \* configuration Main -> manualUpdate
    Alien,       \* layouts with a media type this client has no plugin for
    Caller,      \* threads that call nextLayout
    Changing,    \* layouts whose files come and go
    MaxVersion, MaxTime,
    MaxEvents    \* bound on schedules published, disk errors, key presses, crashes

Version == 1 .. MaxVersion
Blank  == 0      \* '<schedule/>'
Absent == -1     \* no schedule.xml
Torn   == -2     \* schedule.xml truncated, not parseable

NoLayout == "none"
Bad == -1        \* a from date that strptime rejects

Tag == {"default"} \cup UNION { TagsOf[l] : l \in Layout }

ASSUME SchedulerAssumption ==
    /\ Default \in Layout /\ NoLayout \notin Layout
    /\ MaxVersion \in Nat \ {0} /\ MaxTime \in Nat \ {0} /\ MaxEvents \in Nat
    /\ LiftEnabled \in BOOLEAN /\ ManualUpdate \in BOOLEAN
    /\ Alien \subseteq Layout /\ Changing \subseteq Layout
    /\ DOMAIN TagsOf = Layout /\ DOMAIN Entries = Version
    /\ \A v \in Version :
          Entries[v] \in Seq([id : Layout, from : Int, to : Int, priority : Int])

VARIABLES
    server, clock, files, validTag, events,                    \* environment
    disk,                                                      \* schedule.xml
    pc, got, previousSchedule, timers, collectLock,            \* run()
    live, defaultLayout, lock, pointer,                        \* shared
    cpc, count, thereIsPriority,                               \* nextLayout()
    steady,      \* history: caller -> layouts eligible ever since its Scan
    shifted,     \* history: caller -> has priority come or gone since its Scan?
    missed       \* history: layout -> turns in a row it had a right to and missed,
                 \* none of them in a call during which priority came or went

env  == <<server, clock, files, validTag, events>>
run  == <<pc, got, previousSchedule, timers, collectLock>>
list == <<live, defaultLayout>>
next == <<cpc, count, thereIsPriority>>
history == <<steady, shifted, missed>>
vars == <<env, disk, run, list, lock, pointer, next, history>>

-----------------------------------------------------------------------------
(* XiboLayout.                                                             *)

Listing == Version \cup {Blank}

Entry(v) == IF v = Blank THEN <<>> ELSE Entries[v]

(* One layout object per id, in the order of first appearance. *)
Ids ==
    [v \in Listing |->
       LET es == Entry(v)
           first == { i \in 1 .. Len(es) : \A j \in 1 .. i - 1 : es[j].id # es[i].id }
       IN  [n \in 1 .. Cardinality(first) |->
              es[CHOOSE i \in first : Cardinality({ j \in first : j <= i }) = n].id]]

Number(v) == Len(Ids[v])

(* A layout's periods.  A from date that cannot be parsed leaves fromDt as *)
(* the period before it had it; it is Bad if there is none before it.      *)
Schedule ==
    [v \in Listing |-> [l \in Layout |->
       LET es == SelectSeq(Entry(v), LAMBDA e : e.id = l)
           good(i) == { j \in 1 .. i : es[j].from # Bad }
       IN  { [from |-> IF good(i) = {} THEN Bad ELSE es[Max(good(i))].from,
              to |-> es[i].to, priority |-> es[i].priority] : i \in DOMAIN es }]]

(* UnboundLocalError. *)
DateRaises(l, v) == \E sc \in Schedule[v][l] : sc.from = Bad

Inside(sc) == sc.from < clock /\ clock < sc.to

IsPriority(l, v) == \E sc \in Schedule[v][l] : Inside(sc) /\ sc.priority = 1

(* The layout's XLF and all the files it needs are there and valid. *)
SetupRaises(l) == l \in files /\ l \in Alien

CanRun(l, v) ==
    /\ l \in files
    /\ \E sc \in Schedule[v][l] : Inside(sc) \/ sc.from > sc.to

-----------------------------------------------------------------------------

(* One more schedule, disk error, key press or crash. *)
Event == events < MaxEvents /\ events' = events + 1

(* __init__, and the thread about to fetch for the first time. *)
Init ==
    /\ pc = "fetch" /\ got = Blank /\ previousSchedule = Blank
    /\ timers = 0 /\ collectLock = 0
    /\ live = Blank /\ defaultLayout = NoLayout
    /\ lock = 1 /\ pointer = -1 /\ validTag = "default"
    /\ cpc = [c \in Caller |-> "idle"]
    /\ count = [c \in Caller |-> 0]
    /\ thereIsPriority = [c \in Caller |-> FALSE]
    /\ steady = [c \in Caller |-> {}]
    /\ shifted = [c \in Caller |-> FALSE]
    /\ missed = [l \in Layout |-> 0]
    /\ server = 1 /\ clock = 1 /\ files = Layout /\ events = 0
    /\ disk \in {Absent, 1}

-----------------------------------------------------------------------------
(* run().                                                                  *)

XmdsAnswers ==
    /\ pc = "fetch"
    /\ got' = server
    /\ pc' = "open"
    /\ UNCHANGED <<env, disk, previousSchedule, timers, collectLock, list, lock,
                   pointer, next, history>>

(* except XMDSException: the copy on disk is read, if there is one. *)
XmdsRaises ==
    /\ pc = "fetch"
    /\ got' = IF disk = Absent THEN Blank ELSE disk
    /\ pc' = "compare"
    /\ UNCHANGED <<env, disk, previousSchedule, timers, collectLock, list, lock,
                   pointer, next, history>>

(* open(..., 'w') truncates, write() and close() fill. *)
OpenFile ==
    /\ pc = "open"
    /\ disk' = Torn
    /\ pc' = "write"
    /\ UNCHANGED <<env, got, previousSchedule, timers, collectLock, list, lock,
                   pointer, next, history>>

WriteFile ==
    /\ pc = "write"
    /\ disk' = got
    /\ pc' = "compare"
    /\ UNCHANGED <<env, got, previousSchedule, timers, collectLock, list, lock,
                   pointer, next, history>>

(* except IOError: the schedule just received is used all the same. *)
FileError ==
    /\ Event
    /\ pc \in {"open", "write"}
    /\ pc' = "compare"
    /\ UNCHANGED <<server, clock, files, validTag, disk, got, previousSchedule,
                   timers, collectLock, list, lock, pointer, next, history>>

Unchanged ==
    /\ pc = "compare"
    /\ got = previousSchedule
    /\ pc' = "sleep"
    /\ UNCHANGED <<env, disk, got, previousSchedule, timers, collectLock, list,
                   lock, pointer, next, history>>

(* The new schedule is parsed and its layouts constructed; any exception   *)
(* here ends the thread.                                                   *)
NewDefault == IF got = Blank THEN defaultLayout ELSE Default

DefaultRaises == got # Blank /\ defaultLayout # Default /\ SetupRaises(Default)

Parse ==
    /\ pc = "compare"
    /\ got # previousSchedule
    /\ previousSchedule' = got
    /\ \/ /\ got = Torn \/ DefaultRaises
          /\ pc' = "dead"
          /\ UNCHANGED defaultLayout
       \/ /\ ~(got = Torn \/ DefaultRaises)
          /\ defaultLayout' = NewDefault
          /\ pc' = IF \E i \in 1 .. Number(got) : SetupRaises(Ids[got][i])
                   THEN "dead" ELSE "swap"
    /\ UNCHANGED <<env, disk, got, timers, collectLock, live, lock, pointer,
                   next, history>>

MaySwap_Always == TRUE
MaySwap == lock > 0

Swap ==
    /\ pc = "swap"
    /\ MaySwap
    /\ lock' = lock - 1
    /\ live' = got
    /\ missed' = [l \in Layout |-> 0]
    /\ pc' = "swapped"
    /\ UNCHANGED <<env, disk, got, previousSchedule, timers, collectLock,
                   defaultLayout, pointer, next, steady, shifted>>

SwapRelease ==
    /\ pc = "swapped"
    /\ lock' = lock + 1
    /\ pc' = "sleep"
    /\ UNCHANGED <<env, disk, got, previousSchedule, timers, collectLock, list,
                   pointer, next, history>>

Timers_None == timers
Timers == IF ManualUpdate THEN timers ELSE timers + 1

(* With manual updates no timer is set: the next round waits for the 'r' key. *)
Sleep ==
    /\ pc = "sleep"
    /\ timers' = Timers
    /\ pc' = "wait"
    /\ UNCHANGED <<env, disk, got, previousSchedule, collectLock, list, lock,
                   pointer, next, history>>

CollectDue == collectLock > 0

Awake ==
    /\ pc = "wait"
    /\ CollectDue
    /\ collectLock' = collectLock - 1
    /\ pc' = "fetch"
    /\ UNCHANGED <<env, disk, got, previousSchedule, timers, list, lock, pointer,
                   next, history>>

(* collect(), called by the player's timer or by the 'r' key. *)
TimerFires ==
    /\ timers > 0
    /\ timers' = timers - 1
    /\ collectLock' = collectLock + 1
    /\ UNCHANGED <<env, disk, pc, got, previousSchedule, list, lock, pointer,
                   next, history>>

KeyR ==
    /\ Event
    /\ collectLock' = collectLock + 1
    /\ UNCHANGED <<server, clock, files, validTag, disk, pc, got, previousSchedule,
                   timers, list, lock, pointer, next, history>>

-----------------------------------------------------------------------------
(* nextLayout().                                                           *)

Tagged(l) == LiftEnabled => validTag \in TagsOf[l]

Listed == { Ids[live][i] : i \in 1 .. Number(live) }

AnyPriority == \E l \in Listed : IsPriority(l, live)

(* A layout that a call starting now may return. *)
Eligible(l) ==
    /\ l \in Listed
    /\ \A k \in Listed : ~DateRaises(k, live)
    /\ CanRun(l, live)
    /\ AnyPriority => IsPriority(l, live)
    /\ Tagged(l)

(* The length is tested before the lock is taken. *)
Call(c) ==
    /\ cpc[c] = "idle"
    /\ cpc' = [cpc EXCEPT ![c] = IF Number(live) = 0 THEN "default" ELSE "lock"]
    /\ UNCHANGED <<env, disk, run, list, lock, pointer, count, thereIsPriority,
                   history>>

Lock(c) ==
    /\ cpc[c] = "lock"
    /\ lock > 0
    /\ lock' = lock - 1
    /\ cpc' = [cpc EXCEPT ![c] = "scan"]
    /\ UNCHANGED <<env, disk, run, list, pointer, count, thereIsPriority,
                   history>>

(* Check if any layout is a priority. *)
Scan(c) ==
    /\ cpc[c] = "scan"
    /\ \/ /\ \E l \in Listed : DateRaises(l, live)
          /\ cpc' = [cpc EXCEPT ![c] = "raised"]
          /\ UNCHANGED <<count, thereIsPriority, steady>>
       \/ /\ \A l \in Listed : ~DateRaises(l, live)
          /\ thereIsPriority' = [thereIsPriority EXCEPT ![c] = AnyPriority]
          /\ count' = [count EXCEPT ![c] = 0]
          /\ steady' = [steady EXCEPT ![c] = { l \in Layout : Eligible(l) }]
          /\ cpc' = [cpc EXCEPT ![c] = "point"]
    /\ UNCHANGED <<env, disk, run, list, lock, pointer, shifted, missed>>

TriedAll_Early(c) == count[c] + 1 >= Number(live)
TriedAll(c) == count[c] >= Number(live)

NextPointer_First == 0
NextPointer == (pointer + 1) % Number(live)

Point(c) ==
    /\ cpc[c] = "point"
    /\ ~TriedAll(c)
    /\ pointer' = NextPointer
    /\ cpc' = [cpc EXCEPT ![c] = "take"]
    /\ UNCHANGED <<env, disk, run, list, lock, count, thereIsPriority,
                   history>>

NoneFits(c) ==
    /\ cpc[c] = "point"
    /\ TriedAll(c)
    /\ cpc' = [cpc EXCEPT ![c] = "defaultLocked"]
    /\ UNCHANGED <<env, disk, run, list, lock, pointer, count, thereIsPriority,
                   history>>

Candidate == Ids[live][pointer + 1]

Fits(c, l) ==
    /\ CanRun(l, live)
    /\ thereIsPriority[c] => IsPriority(l, live)
    /\ Tagged(l)

Take(c) ==
    /\ cpc[c] = "take"
    /\ \/ /\ SetupRaises(Candidate)
          /\ cpc' = [cpc EXCEPT ![c] = "raised"]
          /\ UNCHANGED <<count, missed>>
       \/ /\ ~SetupRaises(Candidate)
          /\ Fits(c, Candidate)
          /\ missed' = [l \in Layout |-> IF l = Candidate THEN 0
                                         ELSE IF l \in steady[c] THEN missed[l] + 1
                                         ELSE missed[l]]
          /\ cpc' = [cpc EXCEPT ![c] = "release"]
          /\ UNCHANGED count
       \/ /\ ~SetupRaises(Candidate)
          /\ ~Fits(c, Candidate)
          /\ count' = [count EXCEPT ![c] = @ + 1]
          /\ cpc' = [cpc EXCEPT ![c] = "point"]
          /\ UNCHANGED missed
    /\ UNCHANGED <<env, disk, run, list, lock, pointer, thereIsPriority, steady,
                   shifted>>

(* The default layout is returned if it can run, the splash screen if not  *)
(* or if the test raises: either way the call ends.                        *)
FallBack(c) ==
    /\ cpc[c] \in {"default", "defaultLocked"}
    /\ cpc' = [cpc EXCEPT ![c] = IF @ = "default" THEN "idle" ELSE "release"]
    /\ UNCHANGED <<env, disk, run, list, lock, pointer, count, thereIsPriority,
                   history>>

Release(c) ==
    /\ cpc[c] = "release"
    /\ lock' = lock + 1
    /\ cpc' = [cpc EXCEPT ![c] = "idle"]
    /\ count' = [count EXCEPT ![c] = 0]
    /\ thereIsPriority' = [thereIsPriority EXCEPT ![c] = FALSE]
    /\ steady' = [steady EXCEPT ![c] = {}]
    /\ shifted' = [shifted EXCEPT ![c] = FALSE]
    /\ UNCHANGED <<env, disk, run, list, pointer, missed>>

-----------------------------------------------------------------------------
(* The environment: the server publishes a schedule, time passes, files    *)
(* come and go, a switch changes the tag.                                  *)

Watch ==
    /\ shifted' = [c \in Caller |->
                     cpc[c] \in {"point", "take", "defaultLocked"}
                       /\ (shifted[c] \/ AnyPriority' # AnyPriority)]
    /\ steady' = [c \in Caller |-> { l \in steady[c] : Eligible(l)' }]
    /\ missed' = [l \in Layout |->
                    IF Eligible(l)' /\ \A c \in Caller : ~shifted'[c]
                    THEN missed[l] ELSE 0]

Publish ==
    /\ server < MaxVersion
    /\ server' = server + 1
    /\ Event
    /\ UNCHANGED <<clock, files, validTag, history>>

Tick ==
    /\ clock < MaxTime
    /\ clock' = clock + 1
    /\ UNCHANGED <<server, files, validTag, events>>
    /\ Watch

ChangeFile ==
    /\ \E l \in Changing : files' = IF l \in files THEN files \ {l} ELSE files \cup {l}
    /\ UNCHANGED <<server, clock, validTag, events>>
    /\ Watch

ChangeTag ==
    /\ LiftEnabled
    /\ validTag' \in Tag \ {validTag}
    /\ UNCHANGED <<server, clock, files, events>>
    /\ Watch

Environment ==
    /\ UNCHANGED <<disk, run, list, lock, pointer, next>>
    /\ Publish \/ Tick \/ ChangeFile \/ ChangeTag

(* The client dies and is started again: schedule.xml is all it keeps. *)
Crash ==
    /\ Event
    /\ pc' = "fetch" /\ got' = Blank /\ previousSchedule' = Blank
    /\ timers' = 0 /\ collectLock' = 0
    /\ live' = Blank /\ defaultLayout' = NoLayout
    /\ lock' = 1 /\ pointer' = -1 /\ validTag' = "default"
    /\ cpc' = [c \in Caller |-> "idle"]
    /\ count' = [c \in Caller |-> 0]
    /\ thereIsPriority' = [c \in Caller |-> FALSE]
    /\ steady' = [c \in Caller |-> {}]
    /\ shifted' = [c \in Caller |-> FALSE]
    /\ missed' = [l \in Layout |-> 0]
    /\ UNCHANGED <<server, clock, files, disk>>

-----------------------------------------------------------------------------

RunStep ==
    \/ OpenFile \/ WriteFile \/ FileError \/ Unchanged \/ Parse \/ Swap
    \/ SwapRelease \/ Sleep \/ Awake

CallerStep(c) ==
    \/ Lock(c) \/ Scan(c) \/ Point(c) \/ NoneFits(c) \/ Take(c) \/ FallBack(c)
    \/ Release(c)

Next ==
    \/ XmdsAnswers \/ XmdsRaises \/ RunStep \/ TimerFires \/ KeyR
    \/ \E c \in Caller : Call(c) \/ CallerStep(c)
    \/ Environment
    \/ Crash

Spec == Init /\ [][Next]_vars

(* Threads run on and the player fires its timers; XMDS may fail, but not  *)
(* for ever; a caller shows a layout between two calls, so that the lock   *)
(* is free again and again while run() waits for it.                       *)
FairSpec ==
    /\ Spec
    /\ WF_vars(RunStep)
    /\ WF_vars(XmdsAnswers \/ XmdsRaises)
    /\ SF_vars(XmdsAnswers)
    /\ SF_vars(Swap)
    /\ WF_vars(TimerFires)
    /\ \A c \in Caller : WF_vars(CallerStep(c))

-----------------------------------------------------------------------------
(* Properties.                                                             *)

(* The type invariant. *)
TypeOK ==
    /\ server \in Version /\ clock \in 1 .. MaxTime /\ files \subseteq Layout
    /\ validTag \in Tag /\ events \in 0 .. MaxEvents
    /\ disk \in {Absent, Torn, Blank} \cup Version
    /\ pc \in {"fetch", "open", "write", "compare", "swap", "swapped", "sleep",
               "wait", "dead"}
    /\ got \in {Torn, Blank} \cup Version
    /\ previousSchedule \in {Torn, Blank} \cup Version
    /\ timers \in Nat /\ collectLock \in Nat
    /\ live \in {Blank} \cup Version /\ defaultLayout \in {NoLayout, Default}
    /\ lock \in Nat /\ pointer \in Int
    /\ cpc \in [Caller -> {"idle", "default", "lock", "scan", "point", "take",
                           "defaultLocked", "release", "raised"}]
    /\ count \in [Caller -> Nat]
    /\ thereIsPriority \in [Caller -> BOOLEAN]

(* A layout is taken from the list that its place was computed for: a new  *)
(* schedule is never swapped in between ("Lock out the scheduler while we  *)
(* do this so that the maths doesn't go horribly wrong!").                 *)
MathsRight ==
    \A c \in Caller : cpc[c] = "take" => pointer \in 0 .. Number(live) - 1

(* No layout is passed over for ever: as long as a layout has a right to   *)
(* be shown, the round gets to it before any other has had a second turn.  *)
(* A call during which priority comes or goes is not held to that: it      *)
(* tests its candidates against two answers and may pass one over.         *)
NoStarvation == \A l \in Layout : missed[l] = 0 \/ missed[l] < Number(live)

(* The default layout or the splash screen is shown only when no layout of *)
(* the schedule could be, all through the call ("Tried all layouts and     *)
(* none could run").  The code ensures it only as long as priority neither *)
(* comes nor goes during the call, which is the statement after it.        *)
NoneOverlooked == \A c \in Caller : cpc[c] = "defaultLocked" => steady[c] = {}

(* A layout of the schedule that could be shown all through a call is not  *)
(* passed over for the default one, unless priority shifted meanwhile.     *)
OverlookedOnShift ==
    \A c \in Caller : cpc[c] = "defaultLocked" /\ ~shifted[c] => steady[c] = {}

(* Unless an exception ended one of the threads, the schedule that the     *)
(* server stays with comes in force at a client that updates by itself.    *)
Unhurt == pc # "dead" /\ \A c \in Caller : cpc[c] # "raised"

InForce ==
    \A v \in Version :
        (~ManualUpdate /\ <>[](server = v) /\ []Unhurt) => []<>(live = v)

(* The scheduler's thread outlives a copy of the schedule that it cannot   *)
(* use ("Couldn't read or file doesn't exist. Either way, return the       *)
(* default blank schedule.").  The code does not ensure it: a client that  *)
(* dies while it rewrites schedule.xml and starts again without network    *)
(* parses the truncated copy.                                              *)
Survives == pc # "dead"

=============================================================================

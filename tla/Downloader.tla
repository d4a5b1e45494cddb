----------------------------- MODULE Downloader -----------------------------
(***************************************************************************)
(* XiboDownloadManager, its download threads, the md5 cache and the files  *)
(* of the library.  The manager asks XMDS which files are required, checks *)
(* each against the cache, queues the ones that differ, starts a thread    *)
(* for each while there are slots, saves the cache and sleeps.             *)
(*                                                                         *)
(* What a file holds stands for its md5.  A modification time matters only *)
(* when compared with the one recorded for the same file, so a record says *)
(* whether it is still the file's: a later write makes it old, unless the  *)
(* clock of the file system has not ticked since.                          *)
(***************************************************************************)
EXTENDS Integers, Sequences, FiniteSets

CONSTANTS
    File, LayoutFile,  \* the required files, and those of type layout
    Version,           \* what a file on the server can hold
    SizeOf,            \* version -> size
    First,             \* the version the server starts with
    MaxDownloads, MaxTries,
    MaxEvents          \* bound on all that goes wrong or is out of the routine

Missing == "missing"
Partial == "partial"        \* part of a version, a mixture, or nothing
NotCalculated == "NOT CALCULATED"
NoEntry == [md5 |-> NotCalculated, target |-> Missing, current |-> FALSE]
Blank == [f \in {} |-> Missing]     \* no file, or no XML

ASSUME DownloaderAssumption ==
    /\ LayoutFile \subseteq File /\ First \in Version
    /\ {Missing, Partial, NotCalculated} \cap Version = {}
    /\ {MaxDownloads - 1, MaxTries} \subseteq Nat \ {0}
    /\ MaxEvents \in Nat

VARIABLES
    server, events,                             \* environment
    disk, cacheXml, rfXml,                      \* on the client's disk
    md5Cache,
    pc, reqFiles, todo, checking, dlQueue, timers, lock,  \* the manager
    runningDownloads, dl,                       \* its threads
    trusted,     \* history: cache.xml was saved with a hash that is not the file's, or
                 \* the file written again within a tick, and no write after that
    misread      \* history: recorded with a checksum taken before the time, of other content

env == <<server, events>>
manager == <<pc, reqFiles, todo, checking, dlQueue, timers, lock>>
threads == <<runningDownloads, dl>>
history == <<trusted, misread>>
vars == <<env, disk, cacheXml, rfXml, md5Cache, manager, threads, history>>

(* Disk errors, failing downloads, key presses, changes on the server,     *)
(* crashes, and writes that a record's time does not tell.                 *)
Events(n) == events + n <= MaxEvents /\ events' = events + n
Event == Events(1)

-----------------------------------------------------------------------------
(* XiboFile.  update computes the checksum, then asks for the time: one    *)
(* step where nobody else writes the file, in its own download thread and  *)
(* when the client starts.                                                 *)

update(f, e) ==
    IF disk[f] = Missing THEN e
    ELSE [e EXCEPT !.md5 = disk[f], !.current = TRUE]

XiboFile(f, hash) ==
    update(f, [md5 |-> NotCalculated, target |-> hash, current |-> FALSE])

isExpired(f, e) == disk[f] # Missing /\ ~e.current

isValid(f, e) == disk[f] # Missing /\ e.md5 = e.target /\ e.current

Outdated(records, f) == [records EXCEPT ![f].current = FALSE]

(* A write gives the file a modification time that no record has, or, in   *)
(* the same tick of the clock, the one it had.                             *)
Write(f, content, failures) ==
    /\ disk' = [disk EXCEPT ![f] = content]
    /\ \/ /\ Events(failures)
          /\ md5Cache' = Outdated(md5Cache, f)
          /\ cacheXml' = Outdated(cacheXml, f)
          /\ trusted' = trusted \ {f} /\ misread' = misread \ {f}
       \/ /\ Events(failures + 1)
          /\ md5Cache[f].current \/ cacheXml[f].current
          /\ trusted' = trusted \cup {f}
          /\ UNCHANGED <<md5Cache, cacheXml, misread>>

-----------------------------------------------------------------------------

NoThread == [pc |-> "none", hash |-> Missing, tries |-> 0]
NoCheck == [file |-> Missing, how |-> "none", md5 |-> NotCalculated, again |-> FALSE]

(* cache.xml holds the target hash and the modification time: a file that  *)
(* still has that time is taken to hold the target, without a checksum.    *)
(* The time is kept to twelve digits: some files no longer have theirs.    *)
Loaded_Blindly(f, rounded) ==
    [cacheXml[f] EXCEPT !.md5 = cacheXml[f].target, !.current = TRUE]
Loaded(f, rounded) ==
    IF cacheXml[f].target = Missing THEN NoEntry
    ELSE IF cacheXml[f].current /\ f \notin rounded
         THEN [cacheXml[f] EXCEPT !.md5 = cacheXml[f].target]
    ELSE XiboFile(f, cacheXml[f].target)

Init ==
    /\ server = [f \in File |-> First] /\ events = 0
    /\ disk = [f \in File |-> Missing]
    /\ cacheXml = [f \in File |-> NoEntry] /\ rfXml = Blank
    /\ md5Cache = [f \in File |-> NoEntry]
    /\ pc = "fetch" /\ reqFiles = Blank /\ todo = {} /\ checking = NoCheck
    /\ dlQueue = <<>>
    /\ timers = 0 /\ lock = 0
    /\ runningDownloads = {} /\ dl = [f \in File |-> NoThread]
    /\ trusted = {} /\ misread = {}

-----------------------------------------------------------------------------
(* run() of the manager.                                                   *)

Fetched(files) ==
    /\ pc = "fetch"
    /\ reqFiles' = files
    /\ todo' = DOMAIN files
    /\ pc' = "check"
    /\ UNCHANGED <<server, disk, cacheXml, md5Cache, checking, dlQueue, timers, lock,
                   threads, history>>

XmdsAnswers ==
    /\ Fetched(server)
    /\ \/ rfXml' = server /\ UNCHANGED events
       \/ rfXml' \in {rfXml, Blank} /\ Event

XmdsRaises ==
    /\ Fetched(rfXml)
    /\ UNCHANGED <<rfXml, events>>

(* One file node: make or refresh its cache entry, queue it if it differs. *)
Fits_AnySize(f) == disk[f] # Missing
Fits(f) ==
    /\ disk[f] # Missing
    /\ f \notin LayoutFile => disk[f] \in Version /\ SizeOf[disk[f]] = SizeOf[reqFiles[f]]

(* How the file is gone about: as one that is amiss and is queued whatever *)
(* its checksum will be, as one that has a record, or as a new one.        *)
How(f) ==
    IF ~Fits(f) THEN "amiss" ELSE IF md5Cache[f] = NoEntry THEN "new" ELSE "cached"

Look ==
    /\ pc = "check"
    /\ \E f \in todo :
          /\ checking' = [NoCheck EXCEPT !.file = f, !.how = How(f)]
          /\ pc' = IF How(f) = "cached" /\ ~isExpired(f, md5Cache[f]) THEN "decide" ELSE "read"
          /\ todo' = todo \ {f}
    /\ UNCHANGED <<env, disk, cacheXml, rfXml, md5Cache, reqFiles, dlQueue, timers, lock,
                   threads, history>>

Done == pc' = "check" /\ checking' = NoCheck

QueueIf(differs) ==
    dlQueue' = IF differs
               THEN Append(dlQueue, [file |-> checking.file, hash |-> reqFiles[checking.file]])
               ELSE dlQueue

(* XiboFile() is done: the new record is put into the cache and tested.    *)
Record(f, e) ==
    /\ md5Cache' = [md5Cache EXCEPT ![f] = e]
    /\ QueueIf(checking.how = "amiss" \/ ~isValid(f, e))
    /\ Done

New == checking.how \in {"new", "amiss"}

(* The checksum; an update of a cached record leaves it there at once. *)
Read ==
    /\ pc = "read"
    /\ LET f == checking.file
       IN  \/ /\ disk[f] # Missing
              /\ checking' = [checking EXCEPT !.md5 = IF New THEN disk[f] ELSE @]
              /\ md5Cache' = IF checking.how = "cached"
                             THEN [md5Cache EXCEPT ![f].md5 = disk[f]] ELSE md5Cache
              /\ pc' = "stamp"
              /\ UNCHANGED dlQueue
           \/ /\ disk[f] = Missing /\ New
              /\ Record(f, [md5 |-> checking.md5, target |-> reqFiles[f], current |-> FALSE])
           \/ /\ disk[f] = Missing /\ ~New
              /\ pc' = "decide"
              /\ UNCHANGED <<checking, md5Cache, dlQueue>>
    /\ UNCHANGED <<env, disk, cacheXml, rfXml, reqFiles, todo, timers, lock, threads,
                   history>>

(* The time.  If the file has gone meanwhile, getmtime raises: __init__    *)
(* updates once more, and after that the node is passed over.              *)
Stamped(f, md5) ==
    misread' = IF md5 = disk[f] THEN misread ELSE misread \cup {f}

Stamp ==
    /\ pc = "stamp"
    /\ LET f == checking.file
       IN  \/ /\ disk[f] # Missing /\ New
              /\ Record(f, [md5 |-> checking.md5, target |-> reqFiles[f], current |-> TRUE])
              /\ Stamped(f, checking.md5)
           \/ /\ disk[f] # Missing /\ checking.how = "cached"
              /\ md5Cache' = [md5Cache EXCEPT ![f].current = TRUE]
              /\ Stamped(f, md5Cache[f].md5)
              /\ pc' = "decide"
              /\ UNCHANGED <<checking, dlQueue>>
           \/ /\ disk[f] # Missing /\ checking.how = "displaced"
              /\ pc' = "decide"
              /\ UNCHANGED <<checking, md5Cache, dlQueue, misread>>
           \/ /\ disk[f] = Missing /\ New /\ ~checking.again
              /\ checking' = [checking EXCEPT !.again = TRUE]
              /\ pc' = "read"
              /\ UNCHANGED <<md5Cache, dlQueue, misread>>
           \/ /\ disk[f] = Missing /\ (New => checking.again)
              /\ Done
              /\ UNCHANGED <<md5Cache, dlQueue, misread>>
    /\ UNCHANGED <<env, disk, cacheXml, rfXml, reqFiles, todo, timers, lock, threads,
                   trusted>>

(* The test of a cached record, for a layout after its hash is brought up  *)
(* to date.                                                                *)
Decide ==
    /\ pc = "decide"
    /\ LET f == checking.file
       IN  \/ /\ f \in LayoutFile /\ md5Cache[f].target # reqFiles[f]
              /\ md5Cache' = [md5Cache EXCEPT ![f].target = reqFiles[f]]
              /\ checking' = [checking EXCEPT !.how = "cached"]
              /\ pc' = "read"
              /\ UNCHANGED dlQueue
           \/ /\ f \in LayoutFile /\ md5Cache[f].target = reqFiles[f]
              /\ QueueIf(md5Cache[f].md5 # reqFiles[f])
              /\ Done /\ UNCHANGED md5Cache
           \/ /\ f \notin LayoutFile
              /\ QueueIf(~isValid(f, md5Cache[f]))
              /\ Done /\ UNCHANGED md5Cache
    /\ UNCHANGED <<env, disk, cacheXml, rfXml, reqFiles, todo, timers, lock, threads,
                   history>>

AllChecked ==
    /\ pc = "check"
    /\ todo = {}
    /\ reqFiles' = Blank
    /\ pc' = "drain"
    /\ UNCHANGED <<env, disk, cacheXml, rfXml, md5Cache, todo, checking, dlQueue, timers,
                   lock, threads, history>>

(* After a job has been taken, the next one, or the end, waits for a slot. *)
SlotFree ==
    \/ pc = "drain"
    \/ pc = "slots" /\ Cardinality(runningDownloads) < MaxDownloads - 1

Dequeue ==
    /\ SlotFree
    /\ dlQueue # <<>>
    /\ LET f == Head(dlQueue).file
       IN  IF f \in runningDownloads THEN UNCHANGED threads
           ELSE /\ runningDownloads' = runningDownloads \cup {f}
                /\ dl' = [dl EXCEPT ![f] = [pc |-> "remove", hash |-> Head(dlQueue).hash,
                                            tries |-> 0]]
    /\ dlQueue' = Tail(dlQueue)
    /\ pc' = "slots"
    /\ UNCHANGED <<env, disk, cacheXml, rfXml, md5Cache, reqFiles, todo, checking, timers,
                   lock, history>>

(* cache.xml is written from the cache.  Deleting an expired entry ends    *)
(* the loop over the cache: the entries after it are left out.             *)
Stale == { f \in File : /\ md5Cache[f] # NoEntry
                        /\ isExpired(f, md5Cache[f])
                        /\ f \notin runningDownloads }

WriteCacheXml(written) ==
    LET saved == [f \in File |-> IF f \in written THEN md5Cache[f] ELSE NoEntry]
        wrong == { f \in written : md5Cache[f].current /\ ~isValid(f, md5Cache[f]) }
    IN  \/ cacheXml' = saved /\ trusted' = trusted \cup wrong /\ UNCHANGED events
        \/ Event /\ cacheXml' \in {cacheXml, [f \in File |-> NoEntry]}
           /\ UNCHANGED trusted

Save ==
    /\ SlotFree
    /\ dlQueue = <<>>
    /\ \/ Stale = {} /\ WriteCacheXml(File) /\ UNCHANGED md5Cache
       \/ \E f \in Stale, before \in SUBSET (File \ Stale) :
             /\ WriteCacheXml(before \cup {f})
             /\ md5Cache' = [md5Cache EXCEPT ![f] = NoEntry]
    /\ timers' = timers + 1
    /\ pc' = "wait"
    /\ UNCHANGED <<server, disk, rfXml, reqFiles, todo, checking, dlQueue, lock, threads,
                   misread>>

CollectDue == lock > 0

Awake ==
    /\ pc = "wait"
    /\ CollectDue
    /\ lock' = lock - 1
    /\ pc' = "fetch"
    /\ UNCHANGED <<env, disk, cacheXml, rfXml, md5Cache, reqFiles, todo, checking, dlQueue,
                   timers, threads, history>>

(* collect(), called by the player's timer or by the 'r' key, does nothing *)
(* while a download is running.                                            *)
Collect_Always == lock' = lock + 1
Collect == lock' = IF runningDownloads = {} THEN lock + 1 ELSE lock

TimerFires ==
    /\ timers > 0
    /\ timers' = timers - 1
    /\ Collect
    /\ UNCHANGED <<env, disk, cacheXml, rfXml, md5Cache, pc, reqFiles, todo, checking,
                   dlQueue, threads, history>>

KeyR ==
    /\ Event
    /\ Collect
    /\ UNCHANGED <<server, disk, cacheXml, rfXml, md5Cache, pc,
                   reqFiles, todo, checking, dlQueue, timers, threads, history>>

-----------------------------------------------------------------------------
(* A download thread.                                                      *)

Goes(f, to) == dl' = [dl EXCEPT ![f].pc = to]

Fails(f) ==
    /\ Event
    /\ Goes(f, "notify")
    /\ UNCHANGED <<disk, md5Cache, cacheXml, history>>

Remove(f) ==
    /\ dl[f].pc = "remove"
    /\ \/ Write(f, Missing, 0) /\ Goes(f, "open")
       \/ disk[f] # Missing /\ Fails(f)
    /\ UNCHANGED <<server, rfXml, manager, runningDownloads>>

Open(f) ==
    /\ dl[f].pc = "open"
    /\ \/ Write(f, Partial, 0) /\ Goes(f, "get")
       \/ Fails(f)
    /\ UNCHANGED <<server, rfXml, manager, runningDownloads>>

(* The whole of what the server has now, in one chunk or more. *)
GetFile(f) ==
    /\ dl[f].pc = "get"
    /\ Write(f, server[f], 0)
    /\ Goes(f, "check")
    /\ UNCHANGED <<server, rfXml, manager, runningDownloads>>

(* XMDS raises, or the file changes between two chunks. *)
GetFails(f) ==
    /\ dl[f].pc = "get"
    /\ Write(f, Partial, 1)
    /\ Goes(f, "check")
    /\ UNCHANGED <<server, rfXml, manager, runningDownloads>>

(* An IOError of write() is not caught: the thread ends without a word. *)
ThreadDies(f) ==
    /\ Event
    /\ dl[f].pc = "get"
    /\ Goes(f, "dead")
    /\ UNCHANGED <<server, disk, cacheXml, rfXml, md5Cache, manager, runningDownloads,
                   history>>

(* A layout is opened and fetched again; the later tries of a media file   *)
(* find it closed, or all its bytes asked for, and change nothing.  A new  *)
(* record takes the place of one that the manager may be updating.         *)
Displaced(f) ==
    IF checking.file = f /\ checking.how = "cached"
    THEN [checking EXCEPT !.how = "displaced"] ELSE checking

CheckDownload(f) ==
    LET e == XiboFile(f, dl[f].hash)
    IN  /\ dl[f].pc = "check"
        /\ IF isValid(f, e)
           THEN /\ md5Cache' = [md5Cache EXCEPT ![f] = e]
                /\ checking' = Displaced(f)
                /\ Goes(f, "notify")
           ELSE /\ UNCHANGED <<md5Cache, checking>>
                /\ dl' = [dl EXCEPT ![f].tries = @ + 1,
                            ![f].pc = IF f \in LayoutFile /\ dl[f].tries + 1 < MaxTries
                                      THEN "open" ELSE "notify"]
        /\ UNCHANGED <<env, disk, cacheXml, rfXml, pc, reqFiles, todo, dlQueue, timers,
                       lock, runningDownloads, history>>

dlThreadCompleteNotify(f) ==
    /\ dl[f].pc = "notify"
    /\ runningDownloads' = runningDownloads \ {f}
    /\ dl' = [dl EXCEPT ![f] = NoThread]
    /\ UNCHANGED <<env, disk, cacheXml, rfXml, md5Cache, manager, history>>

-----------------------------------------------------------------------------

Publish ==
    /\ Event
    /\ \E f \in File, v \in Version :
          /\ v # server[f]
          /\ server' = [server EXCEPT ![f] = v]
    /\ UNCHANGED <<disk, cacheXml, rfXml, md5Cache, manager, threads, history>>

(* The client dies and is started again with the library it left. *)
Crash ==
    /\ Event
    /\ \E rounded \in SUBSET File : md5Cache' = [f \in File |-> Loaded(f, rounded)]
    /\ pc' = "fetch" /\ reqFiles' = Blank /\ todo' = {} /\ checking' = NoCheck
    /\ dlQueue' = <<>>
    /\ timers' = 0 /\ lock' = 0
    /\ runningDownloads' = {} /\ dl' = [f \in File |-> NoThread]
    /\ UNCHANGED <<server, disk, cacheXml, rfXml, history>>

ManagerStep ==
    Look \/ Read \/ Stamp \/ Decide \/ AllChecked \/ Dequeue \/ Save \/ Awake

ThreadStep(f) ==
    \/ Remove(f) \/ Open(f) \/ GetFile(f) \/ GetFails(f) \/ CheckDownload(f)
    \/ dlThreadCompleteNotify(f)

Next ==
    \/ XmdsAnswers \/ XmdsRaises \/ ManagerStep \/ TimerFires \/ KeyR
    \/ \E f \in File : ThreadStep(f) \/ ThreadDies(f)
    \/ Publish
    \/ Crash

Spec == Init /\ [][Next]_vars

(* Threads run on and the player fires its timers; XMDS answers again and  *)
(* again.                                                                  *)
FairSpec ==
    /\ Spec
    /\ WF_vars(ManagerStep)
    /\ WF_vars(XmdsAnswers \/ XmdsRaises)
    /\ SF_vars(XmdsAnswers)
    /\ WF_vars(TimerFires)
    /\ \A f \in File : WF_vars(ThreadStep(f))

-----------------------------------------------------------------------------
(* Properties.                                                             *)

Content == Version \cup {Missing, Partial}
Entry == [md5 : Content \cup {NotCalculated}, target : Version \cup {Missing},
          current : BOOLEAN]

(* The type invariant. *)
TypeOK ==
    /\ server \in [File -> Version] /\ disk \in [File -> Content]
    /\ events \in 0 .. MaxEvents
    /\ md5Cache \in [File -> Entry] /\ cacheXml \in [File -> Entry]
    /\ rfXml \in {Blank} \cup [File -> Version]
    /\ reqFiles \in {Blank} \cup [File -> Version]
    /\ pc \in {"fetch", "check", "read", "stamp", "decide", "drain", "slots", "wait"}
    /\ pc \in {"read", "stamp", "decide"} => checking.file \in File
    /\ checking.how \in {"none", "new", "amiss", "cached", "displaced"}
    /\ todo \subseteq File
    /\ dlQueue \in Seq([file : File, hash : Version])
    /\ timers \in Nat /\ lock \in Nat
    /\ runningDownloads \subseteq File
    /\ \A f \in File :
          /\ dl[f].pc \in {"none", "remove", "open", "get", "check", "notify", "dead"}
          /\ (dl[f].pc # "none") = (f \in runningDownloads)
          /\ dl[f].tries \in 0 .. MaxTries
    /\ trusted \subseteq File /\ misread \subseteq File

(* A layout runs only on files that the cache calls valid, and such a file *)
(* holds what its hash stands for: never half a download or an older       *)
(* version, after a restart either.  The ways round it: the client is      *)
(* killed after cache.xml was saved and before the thread that was to      *)
(* replace the file has touched it; the file is written twice in a tick;   *)
(* or it is written between its checksum and its time, which cannot be     *)
(* while one round is over before the next begins.                         *)
ValidIsWhole ==
    \A f \in File \ (trusted \cup misread) :
        isValid(f, md5Cache[f]) => disk[f] = md5Cache[f].target

(* The r key has not left a second timer, or a round already due.          *)
OneRound == lock + timers <= IF pc = "wait" THEN 1 ELSE 0

(* With one round at a time, a file that is what it should be, and that a  *)
(* layout may be showing, is not deleted to be downloaded once more, and   *)
(* none is recorded as holding what it held before.                        *)
Spared ==
    \A f \in File : dl[f].pc = "remove" =>
                        ~(isValid(f, md5Cache[f]) /\ disk[f] = dl[f].hash)

SparesFiles == []OneRound => [](Spared /\ misread = {})

(* If the manager keeps asking, one round at a time, and the server's      *)
(* files stay, the library gets to hold those files and keeps them: the    *)
(* layouts as they are, the media by their size.                           *)
Complete ==
    \A s \in [File -> Version] :
        (/\ <>[](server = s) /\ <>[](trusted = {} /\ misread = {}) /\ <>[]OneRound
         /\ []<>(pc = "fetch")) =>
            <>[](\A f \in File : /\ disk[f] \in Version
                                 /\ SizeOf[disk[f]] = SizeOf[s[f]]
                                 /\ f \in LayoutFile => disk[f] = s[f])

(* The manager asks for the required files again after every sleep         *)
(* ("XiboDownloadManager: Sleeping N seconds").  The code does not ensure  *)
(* it: collect ignores the only timer while a download is running.         *)
KeepsAsking == []<>(pc = "fetch")

=============================================================================

--------------------------- MODULE Downloader_proofs ---------------------------
(***************************************************************************)
(* Theorems about Downloader, for any files, versions, sizes and bounds:   *)
(* type correctness, that a file the cache calls valid is whole, and that  *)
(* a regular round spares the files that are what they should be.          *)
(***************************************************************************)
EXTENDS Downloader, SequenceTheorems, TLAPS

USE DownloaderAssumption

-----------------------------------------------------------------------------
(* Types.                                                                  *)

Hash == Version \cup {Missing}
Job == [file : File, hash : Version]
Thread == [pc : {"none", "remove", "open", "get", "check", "notify", "dead"},
           hash : Hash, tries : 0 .. MaxTries]

EnvType == server \in [File -> Version] /\ events \in 0 .. MaxEvents

StoreType ==
    /\ disk \in [File -> Content] /\ trusted \subseteq File /\ misread \subseteq File
    /\ md5Cache \in [File -> Entry] /\ cacheXml \in [File -> Entry]

CheckRecord == [file : File \cup {Missing},
                how : {"none", "new", "amiss", "cached", "displaced"},
                md5 : Content \cup {NotCalculated}, again : BOOLEAN]
Visiting == {"read", "stamp", "decide"}
Checking == {"check"} \cup Visiting

\* A file node is gone about only if the server listed it.
ManagerType ==
    /\ rfXml \in {Blank} \cup [File -> Version]
    /\ reqFiles \in {Blank} \cup [File -> Version]
    /\ pc \in {"fetch", "drain", "slots", "wait"} \cup Checking
    /\ todo \subseteq File
    /\ pc \in Checking => todo \subseteq DOMAIN reqFiles
    /\ checking \in CheckRecord
    /\ pc \in Visiting => checking.file \in File /\ checking.file \in DOMAIN reqFiles
    /\ dlQueue \in Seq(Job)
    /\ timers \in Nat /\ lock \in Nat

\* A thread that downloads has a try left.
ThreadType ==
    /\ runningDownloads \subseteq File
    /\ dl \in [File -> Thread]
    /\ \A f \in File : /\ (dl[f].pc # "none") = (f \in runningDownloads)
                       /\ dl[f].pc \in {"remove", "open", "get", "check"}
                             => dl[f].tries < MaxTries

WellTyped == EnvType /\ StoreType /\ ManagerType /\ ThreadType

\* What becomes of a record when its file is looked at.
LEMMA EntryFacts ==
  ASSUME StoreType, NEW f \in File
  PROVE  \A e \in Entry :
         /\ update(f, e) \in Entry /\ update(f, e).target = e.target
         /\ update(f, e).current =>
               update(f, e).md5 = disk[f] \/ (e.current /\ update(f, e).md5 = e.md5)
  <1> disk[f] \in Content
    BY DEF StoreType
  <1> QED BY DEF update, Entry, Hash

LEMMA NewFacts ==
  ASSUME StoreType, NEW f \in File, NEW h \in Hash
  PROVE  /\ XiboFile(f, h) \in Entry /\ XiboFile(f, h).target = h
         /\ XiboFile(f, h).current => XiboFile(f, h).md5 = disk[f]
  <1> DEFINE fresh == [md5 |-> NotCalculated, target |-> h, current |-> FALSE]
  <1>1. fresh \in Entry /\ ~fresh.current /\ fresh.target = h
    BY DEF Entry, Hash
  <1>2. XiboFile(f, h) = update(f, fresh)
    BY DEF XiboFile
  <1> HIDE DEF fresh
  <1> QED BY <1>1, <1>2, EntryFacts

LEMMA NoEntryFacts == NoEntry \in Entry /\ ~NoEntry.current
  BY DEF NoEntry, Entry

LEMMA NoCheckFacts ==
  /\ NoCheck \in CheckRecord
  /\ \A f \in File, how \in {"new", "amiss", "cached"} :
        LET c == [NoCheck EXCEPT !.file = f, !.how = how]
        IN  c \in CheckRecord /\ c.file = f /\ c.how = how
  BY DEF NoCheck, CheckRecord

LEMMA RequiredFacts ==
  ASSUME ManagerType, NEW f \in DOMAIN reqFiles
  PROVE  f \in File /\ reqFiles[f] \in Version
  <1>1. reqFiles # Blank
    BY DEF Blank
  <1> QED BY <1>1 DEF ManagerType

\* One step at a file node: the record is the file's own, keeps what it had, or
\* is misread; and the file is queued only if it was amiss or is not valid.
Visited(f, e) ==
    /\ reqFiles[f] \in Version
    /\ UNCHANGED <<disk, cacheXml, trusted>>
    /\ md5Cache' = [md5Cache EXCEPT ![f] = e]
    /\ e.current => \/ f \in misread' \/ e.md5 = disk[f]
                    \/ md5Cache[f].current /\ e.md5 = md5Cache[f].md5
    /\ misread \subseteq misread' /\ misread' \subseteq misread \cup {f}
    /\ \/ dlQueue' = dlQueue
       \/ /\ dlQueue' = Append(dlQueue, [file |-> f, hash |-> reqFiles[f]])
          /\ pc' = "check"
          /\ (checking.how = "amiss" /\ pc \in {"read", "stamp"}) \/ ~isValid(f, e)

LEMMA VisitFacts ==
  ASSUME WellTyped, Read \/ Stamp \/ Decide
  PROVE  /\ pc \in Visiting /\ checking.file \in File
         /\ \E e \in Entry : Visited(checking.file, e)
  <1> DEFINE f == checking.file
  <1>0. pc \in Visiting
    BY DEF Read, Stamp, Decide, Visiting
  <1>1. /\ f \in File /\ reqFiles[f] \in Version /\ disk[f] \in Content
        /\ md5Cache[f] \in Entry /\ md5Cache \in [File -> Entry] /\ misread \subseteq File
        /\ checking.md5 \in Content \cup {NotCalculated}
    BY <1>0, RequiredFacts DEF WellTyped, ManagerType, StoreType, CheckRecord
  <1>2. md5Cache = [md5Cache EXCEPT ![f] = md5Cache[f]]
    BY <1>1
  <1> DEFINE job == [file |-> f, hash |-> reqFiles[f]]
  <1>3. ASSUME NEW differs, QueueIf(differs)
        PROVE  dlQueue' = dlQueue \/ (dlQueue' = Append(dlQueue, job) /\ differs)
    BY <1>3 DEF QueueIf
  <1>4. ASSUME NEW e \in Entry, Record(f, e), UNCHANGED <<disk, cacheXml, trusted>>,
               misread \subseteq misread', misread' \subseteq misread \cup {f},
               e.current => f \in misread' \/ e.md5 = disk[f], pc \in {"read", "stamp"}
        PROVE  Visited(f, e)
    <2>1. dlQueue' = dlQueue \/ (/\ dlQueue' = Append(dlQueue, job)
                                 /\ checking.how = "amiss" \/ ~isValid(f, e))
      BY <1>3, <1>4 DEF Record
    <2> QED BY <1>1, <1>4, <2>1 DEF Record, Done, Visited
  <1>5. ASSUME NEW e \in Entry, md5Cache' = [md5Cache EXCEPT ![f] = e],
               UNCHANGED <<disk, cacheXml, trusted, dlQueue>>,
               misread \subseteq misread', misread' \subseteq misread \cup {f},
               e.current => \/ f \in misread' \/ e.md5 = disk[f]
                            \/ md5Cache[f].current /\ e.md5 = md5Cache[f].md5
        PROVE  Visited(f, e)
    BY <1>1, <1>5 DEF Visited
  <1>6. ASSUME NEW m \in Content \cup {NotCalculated}, NEW c \in BOOLEAN
        PROVE  [md5 |-> m, target |-> reqFiles[f], current |-> c] \in Entry
    BY <1>1 DEF Entry
  <1>7. CASE Read
    <2>1. UNCHANGED <<disk, cacheXml, trusted, misread>> /\ pc \in {"read", "stamp"}
      BY <1>7 DEF Read, history
    <2>2. CASE disk[f] # Missing
      <3> DEFINE e == IF checking.how = "cached" THEN [md5Cache[f] EXCEPT !.md5 = disk[f]]
                      ELSE md5Cache[f]
      <3>1. md5Cache' = [md5Cache EXCEPT ![f] = e] /\ dlQueue' = dlQueue
        BY <1>2, <1>7, <2>2 DEF Read
      <3>2. e \in Entry /\ (e.md5 = disk[f] \/ e = md5Cache[f])
        BY <1>1 DEF Entry
      <3> HIDE DEF e
      <3> QED BY <1>0, <1>1, <1>5, <2>1, <3>1, <3>2
    <2>3. CASE disk[f] = Missing /\ New
      <3> DEFINE e == [md5 |-> checking.md5, target |-> reqFiles[f], current |-> FALSE]
      <3>1. Record(f, e)
        BY <1>7, <2>3 DEF Read
      <3>2. e \in Entry /\ ~e.current
        BY <1>1, <1>6
      <3> HIDE DEF e
      <3> QED BY <1>0, <1>1, <1>4, <2>1, <3>1, <3>2
    <2>4. CASE disk[f] = Missing /\ ~New
      <3>1. UNCHANGED <<md5Cache, dlQueue>>
        BY <1>7, <2>4 DEF Read
      <3> QED BY <1>0, <1>1, <1>2, <1>5, <2>1, <3>1
    <2> QED BY <2>2, <2>3, <2>4
  <1>8. CASE Stamp
    <2>1. UNCHANGED <<disk, cacheXml, trusted>> /\ pc \in {"read", "stamp"}
      BY <1>8 DEF Stamp
    <2>2. ASSUME NEW m, Stamped(f, m)
          PROVE  /\ misread \subseteq misread' /\ misread' \subseteq misread \cup {f}
                 /\ m = disk[f] \/ f \in misread'
      BY <2>2 DEF Stamped
    <2>3. CASE disk[f] # Missing /\ New
      <3> DEFINE e == [md5 |-> checking.md5, target |-> reqFiles[f], current |-> TRUE]
      <3>1. Record(f, e) /\ Stamped(f, checking.md5)
        BY <1>8, <2>3 DEF Stamp, New
      <3>2. e \in Entry /\ e.md5 = checking.md5
        BY <1>1, <1>6
      <3> HIDE DEF e
      <3> QED BY <1>0, <1>1, <1>4, <2>1, <2>2, <3>1, <3>2
    <2>4. CASE disk[f] # Missing /\ checking.how = "cached"
      <3> DEFINE e == [md5Cache[f] EXCEPT !.current = TRUE]
      <3>1. md5Cache' = [md5Cache EXCEPT ![f] = e] /\ Stamped(f, md5Cache[f].md5)
            /\ dlQueue' = dlQueue
        BY <1>8, <2>4 DEF Stamp, New
      <3>2. e \in Entry /\ e.md5 = md5Cache[f].md5
        BY <1>1 DEF Entry
      <3> HIDE DEF e
      <3> QED BY <1>0, <1>1, <1>5, <2>1, <2>2, <3>1, <3>2
    <2>5. CASE disk[f] = Missing \/ ~(New \/ checking.how = "cached")
      <3>1. UNCHANGED <<md5Cache, dlQueue, misread>>
        BY <1>8, <2>5 DEF Stamp
      <3> QED BY <1>0, <1>1, <1>2, <1>5, <2>1, <3>1
    <2> QED BY <2>3, <2>4, <2>5
  <1>9. CASE Decide
    <2>1. UNCHANGED <<disk, cacheXml, trusted, misread>>
      BY <1>9 DEF Decide, history
    <2>2. CASE f \in LayoutFile /\ md5Cache[f].target # reqFiles[f]
      <3> DEFINE e == [md5Cache[f] EXCEPT !.target = reqFiles[f]]
      <3>1. md5Cache' = [md5Cache EXCEPT ![f] = e] /\ dlQueue' = dlQueue
        BY <1>9, <2>2 DEF Decide
      <3>2. e \in Entry /\ e.md5 = md5Cache[f].md5 /\ e.current = md5Cache[f].current
        BY <1>1 DEF Entry
      <3> HIDE DEF e
      <3> QED BY <1>0, <1>1, <1>5, <2>1, <3>1, <3>2
    <2>3. CASE ~(f \in LayoutFile /\ md5Cache[f].target # reqFiles[f])
      <3>1. /\ UNCHANGED md5Cache /\ Done
            /\ \/ f \in LayoutFile /\ md5Cache[f].target = reqFiles[f]
                  /\ QueueIf(md5Cache[f].md5 # reqFiles[f])
               \/ QueueIf(~isValid(f, md5Cache[f]))
        BY <1>9, <2>3 DEF Decide
      <3>2. dlQueue' = dlQueue \/ (dlQueue' = Append(dlQueue, job) /\ ~isValid(f, md5Cache[f]))
        <4>1. CASE QueueIf(~isValid(f, md5Cache[f]))
          BY <1>3, <4>1
        <4>2. CASE md5Cache[f].target = reqFiles[f] /\ QueueIf(md5Cache[f].md5 # reqFiles[f])
          BY <1>3, <4>2 DEF isValid
        <4> QED BY <3>1, <4>1, <4>2
      <3> QED BY <1>0, <1>1, <1>2, <2>1, <3>1, <3>2 DEF Visited, Done
    <2> QED BY <2>2, <2>3
  <1> QED BY <1>0, <1>1, <1>7, <1>8, <1>9

\* What a restarted client knows of a file: what the file holds, or what
\* cache.xml says of it.
LEMMA LoadedFacts ==
  ASSUME StoreType, NEW f \in File, NEW rounded
  PROVE  /\ Loaded(f, rounded) \in Entry
         /\ Loaded(f, rounded).current =>
               \/ Loaded(f, rounded).md5 = disk[f]
               \/ /\ cacheXml[f].current /\ cacheXml[f].target # Missing
                  /\ Loaded(f, rounded).md5 = cacheXml[f].target
  <1>1. cacheXml[f] \in Entry /\ cacheXml[f].target \in Hash
    BY DEF StoreType, Entry, Hash
  <1>2. CASE cacheXml[f].target = Missing
    BY <1>1, <1>2, NoEntryFacts DEF Loaded
  <1>3. CASE cacheXml[f].target # Missing /\ cacheXml[f].current /\ f \notin rounded
    BY <1>1, <1>3 DEF Loaded, Entry, Content
  <1>4. CASE cacheXml[f].target # Missing /\ ~(cacheXml[f].current /\ f \notin rounded)
    BY <1>1, <1>4, NewFacts DEF Loaded
  <1> QED BY <1>2, <1>3, <1>4

\* A write changes one file, whose records are then old, or trusted wrongly.
LEMMA WriteFacts ==
  ASSUME StoreType, NEW f \in File, NEW c \in Content, NEW n, Write(f, c, n)
  PROVE  /\ StoreType' /\ disk'[f] = c
         /\ f \in trusted' \/ (~md5Cache'[f].current /\ ~cacheXml'[f].current)
         /\ misread' \subseteq misread
         /\ \A g \in File \ {f} : /\ disk'[g] = disk[g] /\ md5Cache'[g] = md5Cache[g]
                                  /\ cacheXml'[g] = cacheXml[g]
                                  /\ (g \in trusted') = (g \in trusted)
                                  /\ (g \in misread') = (g \in misread)
  <1>1. \A e \in Entry : /\ [e EXCEPT !.current = FALSE] \in Entry
                        /\ ~[e EXCEPT !.current = FALSE].current
    BY DEF Entry
  <1>2. ASSUME NEW records \in [File -> Entry]
        PROVE  /\ Outdated(records, f) \in [File -> Entry] /\ ~Outdated(records, f)[f].current
               /\ \A g \in File \ {f} : Outdated(records, f)[g] = records[g]
    <2>1. Outdated(records, f) = [records EXCEPT ![f] = [records[f] EXCEPT !.current = FALSE]]
      BY DEF Outdated
    <2> HIDE DEF Entry
    <2> QED BY <1>1, <2>1
  <1>3. disk' = [disk EXCEPT ![f] = c]
    BY DEF Write
  <1>4. md5Cache \in [File -> Entry] /\ cacheXml \in [File -> Entry]
    BY DEF StoreType
  <1>5. CASE /\ md5Cache' = Outdated(md5Cache, f) /\ cacheXml' = Outdated(cacheXml, f)
             /\ trusted' = trusted \ {f} /\ misread' = misread \ {f}
    <2>1. /\ md5Cache' \in [File -> Entry] /\ ~md5Cache'[f].current
          /\ \A g \in File \ {f} : md5Cache'[g] = md5Cache[g]
      BY <1>2, <1>4, <1>5
    <2>2. /\ cacheXml' \in [File -> Entry] /\ ~cacheXml'[f].current
          /\ \A g \in File \ {f} : cacheXml'[g] = cacheXml[g]
      BY <1>2, <1>4, <1>5
    <2>3. disk' \in [File -> Content] /\ trusted' \subseteq File /\ misread' \subseteq File
      BY <1>3, <1>5 DEF StoreType
    <2>4. StoreType'
      BY <2>1, <2>2, <2>3 DEF StoreType
    <2>5. disk'[f] = c /\ \A g \in File \ {f} : disk'[g] = disk[g]
      BY <1>3 DEF StoreType
    <2> QED BY <1>5, <2>1, <2>2, <2>4, <2>5
  <1>6. CASE trusted' = trusted \cup {f} /\ UNCHANGED <<md5Cache, cacheXml, misread>>
    BY <1>3, <1>6 DEF StoreType
  <1> QED BY <1>5, <1>6 DEF Write

\* cache.xml gets the records or loses them; a record whose hash is not the
\* file's makes the file one that is trusted wrongly.
LEMMA SaveFacts ==
  ASSUME StoreType, Save
  PROVE  /\ StoreType' /\ disk' = disk /\ trusted \subseteq trusted' /\ misread' = misread
         /\ \A f \in File : md5Cache'[f] = md5Cache[f] \/ ~md5Cache'[f].current
         /\ \A f \in File \ trusted' :
               \/ cacheXml'[f] = cacheXml[f]
               \/ ~cacheXml'[f].current
               \/ cacheXml'[f] = md5Cache[f] /\ isValid(f, md5Cache[f])
  <1>1. PICK written \in SUBSET File :
           /\ WriteCacheXml(written)
           /\ \/ UNCHANGED md5Cache
              \/ \E f \in File : md5Cache' = [md5Cache EXCEPT ![f] = NoEntry]
    <2>1. CASE WriteCacheXml(File) /\ UNCHANGED md5Cache
      BY <2>1
    <2>2. CASE \E f \in Stale, before \in SUBSET (File \ Stale) :
                   /\ WriteCacheXml(before \cup {f})
                   /\ md5Cache' = [md5Cache EXCEPT ![f] = NoEntry]
      <3>1. PICK f \in Stale, before \in SUBSET (File \ Stale) :
                   /\ WriteCacheXml(before \cup {f})
                   /\ md5Cache' = [md5Cache EXCEPT ![f] = NoEntry]
        BY <2>2
      <3>2. f \in File /\ before \cup {f} \in SUBSET File
        BY DEF Stale
      <3> QED BY <3>1, <3>2
    <2> QED BY <2>1, <2>2 DEF Save
  <1>2. md5Cache' \in [File -> Entry]
        /\ \A f \in File : md5Cache'[f] = md5Cache[f] \/ ~md5Cache'[f].current
    BY <1>1, NoEntryFacts DEF StoreType
  <1>3. disk' = disk /\ misread' = misread
    BY DEF Save
  <1> DEFINE saved == [f \in File |-> IF f \in written THEN md5Cache[f] ELSE NoEntry]
             none == [f \in File |-> NoEntry]
             wrong == { f \in written : md5Cache[f].current /\ ~isValid(f, md5Cache[f]) }
  <1>4. /\ saved \in [File -> Entry] /\ none \in [File -> Entry] /\ wrong \subseteq File
        /\ \A f \in File : ~none[f].current
        /\ \A f \in File \ wrong : \/ ~saved[f].current
                                   \/ saved[f] = md5Cache[f] /\ isValid(f, md5Cache[f])
    BY NoEntryFacts DEF StoreType
  <1>5. \/ cacheXml' = saved /\ trusted' = trusted \cup wrong
        \/ cacheXml' \in {cacheXml, none} /\ trusted' = trusted
    BY <1>1 DEF WriteCacheXml
  <1> HIDE DEF saved, none, wrong
  <1>6. cacheXml' \in [File -> Entry] /\ trusted' \subseteq File /\ trusted \subseteq trusted'
    BY <1>4, <1>5 DEF StoreType
  <1>7. ASSUME NEW f \in File \ trusted'
        PROVE  \/ cacheXml'[f] = cacheXml[f]
               \/ ~cacheXml'[f].current
               \/ cacheXml'[f] = md5Cache[f] /\ isValid(f, md5Cache[f])
    BY <1>4, <1>5
  <1> QED BY <1>2, <1>3, <1>6, <1>7 DEF StoreType

\* The steps, by what they do to the files and their records.  A thread writes
\* its own file, and first of all removes it.
LEMMA StoreSteps ==
  ASSUME EnvType, [Next]_vars
  PROVE  \/ UNCHANGED <<disk, md5Cache, cacheXml, trusted, misread>>
         \/ \E f \in File, c \in Content, n \in {0, 1} :
               /\ Write(f, c, n) /\ dl[f].pc \in {"remove", "open", "get"}
               /\ dl[f].pc = "remove" => c = Missing
         \/ Read \/ Stamp \/ Decide \/ Save \/ Crash
         \/ \E f \in File : CheckDownload(f)
  <1>1. CASE UNCHANGED vars
    BY <1>1 DEF vars, history
  <1>2. CASE XmdsAnswers \/ XmdsRaises
    BY <1>2 DEF XmdsAnswers, XmdsRaises, Fetched, history
  <1>3. CASE ManagerStep
    BY <1>3 DEF ManagerStep, Look, AllChecked, Dequeue, Awake, env, history
  <1>4. CASE TimerFires \/ KeyR \/ Publish
    BY <1>4 DEF TimerFires, KeyR, Publish, env, history
  <1>5. ASSUME NEW f \in File, ThreadStep(f) \/ ThreadDies(f)
        PROVE  \/ UNCHANGED <<disk, md5Cache, cacheXml, trusted, misread>>
               \/ \E c \in Content, n \in {0, 1} :
                     /\ Write(f, c, n) /\ dl[f].pc \in {"remove", "open", "get"}
                     /\ dl[f].pc = "remove" => c = Missing
               \/ CheckDownload(f)
    <2>1. Missing \in Content /\ Partial \in Content /\ server[f] \in Content
      BY DEF Content, EnvType
    <2>2. CASE Remove(f) \/ Open(f)
      BY <2>1, <2>2 DEF Remove, Open, Fails, history
    <2>3. CASE GetFile(f) \/ GetFails(f)
      BY <2>1, <2>3 DEF GetFile, GetFails
    <2>4. CASE dlThreadCompleteNotify(f) \/ ThreadDies(f)
      BY <2>4 DEF dlThreadCompleteNotify, ThreadDies, env, history
    <2> QED BY <1>5, <2>2, <2>3, <2>4 DEF ThreadStep
  <1> QED BY <1>1, <1>2, <1>3, <1>4, <1>5 DEF Next

LEMMA StoreStep == WellTyped /\ [Next]_vars => StoreType'
  <1> SUFFICES ASSUME WellTyped, [Next]_vars PROVE StoreType'
    OBVIOUS
  <1>0. StoreType /\ EnvType
    BY DEF WellTyped
  <1>1. CASE UNCHANGED <<disk, md5Cache, cacheXml, trusted, misread>>
    BY <1>0, <1>1 DEF StoreType
  <1>2. ASSUME NEW f \in File, NEW c \in Content, NEW n \in {0, 1}, Write(f, c, n)
        PROVE  StoreType'
    BY <1>0, <1>2, WriteFacts
  <1>3. CASE Read \/ Stamp \/ Decide
    <2>1. checking.file \in File /\ \E e \in Entry : Visited(checking.file, e)
      BY <1>3, VisitFacts
    <2>2. PICK e \in Entry : Visited(checking.file, e)
      BY <2>1
    <2>3. /\ md5Cache' = [md5Cache EXCEPT ![checking.file] = e]
          /\ UNCHANGED <<disk, cacheXml, trusted>>
          /\ misread' \subseteq misread \cup {checking.file}
      BY <2>2 DEF Visited
    <2> QED BY <1>0, <2>1, <2>3 DEF StoreType
  <1>4. CASE Save
    BY <1>0, <1>4, SaveFacts
  <1>5. CASE Crash
    <2>1. \A r \in SUBSET File, f \in File : Loaded(f, r) \in Entry
      BY <1>0, LoadedFacts
    <2>2. PICK r \in SUBSET File : md5Cache' = [f \in File |-> Loaded(f, r)]
      BY <1>5 DEF Crash
    <2> QED BY <1>0, <1>5, <2>1, <2>2 DEF StoreType, Crash, history
  <1>6. ASSUME NEW f \in File, CheckDownload(f) PROVE StoreType'
    <2>1. dl[f].hash \in Hash
      BY DEF WellTyped, ThreadType, Thread
    <2>2. XiboFile(f, dl[f].hash) \in Entry
      BY <1>0, <2>1, NewFacts
    <2>3. /\ md5Cache' = md5Cache \/ md5Cache' = [md5Cache EXCEPT ![f] = XiboFile(f, dl[f].hash)]
          /\ UNCHANGED <<disk, cacheXml, trusted, misread>>
      BY <1>6 DEF CheckDownload, history
    <2> QED BY <1>0, <2>2, <2>3 DEF StoreType
  <1> QED BY <1>0, <1>1, <1>2, <1>3, <1>4, <1>5, <1>6, StoreSteps

LEMMA EnvStep == EnvType /\ [Next]_vars => EnvType'
  <1> SUFFICES ASSUME EnvType, [Next]_vars PROVE EnvType'
    OBVIOUS
  <1> USE DEF EnvType, env
  <1>0. /\ \A n \in {0, 1, 2} : Events(n) => events' \in 0 .. MaxEvents
        /\ Event => events' \in 0 .. MaxEvents
    BY DEF Event, Events
  <1>w. ASSUME NEW f, NEW c, NEW n \in {0, 1}, Write(f, c, n)
        PROVE  events' \in 0 .. MaxEvents
    <2>1. n + 1 \in {0, 1, 2} /\ n \in {0, 1, 2}
      OBVIOUS
    <2> QED BY <1>0, <1>w, <2>1 DEF Write
  <1>1. CASE UNCHANGED vars
    BY <1>1 DEF vars
  <1>2. CASE XmdsAnswers \/ XmdsRaises
    BY <1>0, <1>2 DEF XmdsAnswers, XmdsRaises, Fetched
  <1>3. CASE ManagerStep
    <2>1. CASE Save
      <3>1. server' = server /\ \E w \in SUBSET File : WriteCacheXml(w)
        <4>1. \A f \in Stale, b \in SUBSET (File \ Stale) : b \cup {f} \in SUBSET File
          BY DEF Stale
        <4> QED BY <2>1, <4>1 DEF Save
      <3> QED BY <1>0, <3>1 DEF WriteCacheXml
    <2>2. CASE ~Save
      BY <1>3, <2>2 DEF ManagerStep, Look, Read, Stamp, Decide, AllChecked, Dequeue, Awake
    <2> QED BY <2>1, <2>2
  <1>4. CASE TimerFires \/ KeyR \/ Publish \/ Crash
    BY <1>0, <1>4 DEF TimerFires, KeyR, Publish, Crash
  <1>5. ASSUME NEW f \in File, ThreadStep(f) \/ ThreadDies(f) PROVE EnvType'
    BY <1>0, <1>w, <1>5 DEF ThreadStep, ThreadDies, Remove, Open, GetFile, GetFails, Fails,
                      CheckDownload, dlThreadCompleteNotify
  <1> QED BY <1>1, <1>2, <1>3, <1>4, <1>5 DEF Next

LEMMA ManagerStepType == WellTyped /\ [Next]_vars => ManagerType'
  <1> SUFFICES ASSUME WellTyped, [Next]_vars PROVE ManagerType'
    OBVIOUS
  <1>0. ManagerType
    BY DEF WellTyped
  <1> USE DEF manager
  <1>b. Blank \in {Blank} \cup [File -> Version] /\ DOMAIN Blank = {}
    BY DEF Blank
  <1>1. CASE UNCHANGED vars
    BY <1>0, <1>1 DEF vars, ManagerType
  <1>2. ASSUME NEW files \in {Blank} \cup [File -> Version], Fetched(files),
               rfXml' \in {Blank} \cup [File -> Version]
        PROVE  ManagerType'
    <2>1. DOMAIN files \subseteq File
      BY <1>b
    <2> QED BY <1>0, <1>2, <2>1 DEF ManagerType, Fetched, Checking, Visiting
  <1>3. CASE XmdsAnswers \/ XmdsRaises
    <2>1. server \in [File -> Version] /\ rfXml \in {Blank} \cup [File -> Version]
      BY DEF WellTyped, EnvType, ManagerType
    <2>2. CASE XmdsAnswers
      BY <1>b, <1>2, <2>1, <2>2 DEF XmdsAnswers
    <2>3. CASE XmdsRaises
      BY <1>2, <2>1, <2>3 DEF XmdsRaises
    <2> QED BY <1>3, <2>2, <2>3
  <1>4. CASE Look
    <2>1. PICK f \in todo : /\ checking' = [NoCheck EXCEPT !.file = f, !.how = How(f)]
                            /\ pc' \in {"decide", "read"} /\ todo' = todo \ {f}
      BY <1>4 DEF Look
    <2>2. f \in File /\ f \in DOMAIN reqFiles /\ How(f) \in {"new", "amiss", "cached"}
      BY <1>0, <1>4, <2>1 DEF ManagerType, Look, Checking, How
    <2>3. checking' \in CheckRecord /\ checking'.file = f
      BY <2>1, <2>2, NoCheckFacts
    <2>4. UNCHANGED <<rfXml, reqFiles, dlQueue, timers, lock>> /\ pc = "check"
      BY <1>4 DEF Look
    <2> QED BY <1>0, <2>1, <2>2, <2>3, <2>4 DEF ManagerType, Checking, Visiting
  <1>v. CASE Read \/ Stamp \/ Decide
    <2>1. checking.file \in File /\ pc \in Visiting
      BY <1>v, VisitFacts
    <2>2. PICK e \in Entry : Visited(checking.file, e)
      BY <1>v, VisitFacts
    <2>3. dlQueue' \in Seq(Job)
      <3>1. [file |-> checking.file, hash |-> reqFiles[checking.file]] \in Job
        BY <2>1, <2>2 DEF Visited, Job
      <3> QED BY <1>0, <2>2, <3>1, AppendProperties DEF Visited, ManagerType
    <2>4. UNCHANGED <<rfXml, reqFiles, todo, timers, lock>>
      BY <1>v DEF Read, Stamp, Decide
    <2>5. disk[checking.file] \in Content
      BY <2>1 DEF WellTyped, StoreType
    <2>6. /\ checking' \in CheckRecord
          /\ pc' \in Checking /\ (pc' \in Visiting => checking'.file = checking.file)
      <3>1. CASE Done
        BY <3>1, NoCheckFacts DEF Done, Checking, Visiting
      <3>2. CASE Read /\ ~Done
        BY <1>0, <2>5, <3>2
           DEF Read, Record, ManagerType, CheckRecord, Checking, Visiting
      <3>3. CASE Stamp /\ ~Done
        BY <1>0, <3>3 DEF Stamp, Record, ManagerType, CheckRecord, Checking, Visiting
      <3>4. CASE Decide /\ ~Done
        BY <1>0, <3>4 DEF Decide, ManagerType, CheckRecord, Checking, Visiting
      <3> QED BY <1>v, <3>1, <3>2, <3>3, <3>4
    <2> QED BY <1>0, <2>1, <2>3, <2>4, <2>6 DEF ManagerType, Checking
  <1>5. CASE AllChecked
    BY <1>0, <1>5, <1>b DEF AllChecked, ManagerType, Checking, Visiting
  <1>6. CASE Dequeue
    <2>1. Tail(dlQueue) \in Seq(Job)
      BY <1>0, <1>6, HeadTailProperties DEF Dequeue, ManagerType
    <2> QED BY <1>0, <1>6, <2>1 DEF Dequeue, ManagerType, Checking, Visiting
  <1>7. CASE Awake
    <2>1. Awake => lock - 1 \in Nat
      BY <1>0 DEF Awake, CollectDue, ManagerType
    <2> QED BY <1>0, <1>7, <2>1 DEF Awake, ManagerType, Checking, Visiting
  <1>8. CASE Save
    BY <1>0, <1>8 DEF Save, ManagerType, Checking, Visiting
  <1>9. CASE TimerFires \/ KeyR
    BY <1>0, <1>9 DEF TimerFires, KeyR, Collect, ManagerType
  <1>10. CASE Publish
    BY <1>0, <1>10 DEF Publish, ManagerType
  <1>11. CASE Crash
    BY <1>0, <1>11, <1>b, EmptySeq, NoCheckFacts DEF Crash, ManagerType, Checking, Visiting
  <1>12. ASSUME NEW f \in File, ThreadStep(f) \/ ThreadDies(f) PROVE ManagerType'
    <2>1. /\ UNCHANGED <<rfXml, pc, reqFiles, todo, dlQueue, timers, lock>>
          /\ checking' = checking \/ checking' = Displaced(f)
      BY <1>12 DEF ThreadStep, ThreadDies, Remove, Open, GetFile, GetFails,
                   CheckDownload, dlThreadCompleteNotify
    <2>2. checking' \in CheckRecord /\ checking'.file = checking.file
      BY <1>0, <2>1 DEF ManagerType, Displaced, CheckRecord
    <2> QED BY <1>0, <2>1, <2>2 DEF ManagerType
  <1> QED BY <1>1, <1>3, <1>4, <1>v, <1>5, <1>6, <1>7, <1>8, <1>9, <1>10, <1>11, <1>12
             DEF Next, ManagerStep

LEMMA ThreadStepType == WellTyped /\ [Next]_vars => ThreadType'
  <1> SUFFICES ASSUME WellTyped, [Next]_vars PROVE ThreadType'
    OBVIOUS
  <1>0. ThreadType
    BY DEF WellTyped
  <1>n. NoThread \in Thread /\ NoThread.pc = "none"
    BY DEF NoThread, Thread, Hash
  <1>1. CASE UNCHANGED threads
    BY <1>0, <1>1 DEF threads, ThreadType
  \* A thread begins, goes on or ends.
  <1>2. ASSUME NEW f \in File, NEW t \in Thread, dl' = [dl EXCEPT ![f] = t],
               t.pc \in {"remove", "open", "get", "check"} => t.tries < MaxTries,
               t.pc # "none",
               runningDownloads' = runningDownloads \cup {f}
        PROVE  ThreadType'
    BY <1>0, <1>2 DEF ThreadType
  <1>3. ASSUME NEW f \in File, dl' = [dl EXCEPT ![f] = NoThread],
               runningDownloads' = runningDownloads \ {f}
        PROVE  ThreadType'
    BY <1>0, <1>n, <1>3 DEF ThreadType
  <1>4. ASSUME NEW f \in File, dl[f].pc # "none" PROVE f \in runningDownloads
    BY <1>0, <1>4 DEF ThreadType
  <1>5. ASSUME NEW f \in File, NEW to \in {"open", "get", "check", "notify", "dead"},
               Goes(f, to), UNCHANGED runningDownloads,
               dl[f].pc \in {"remove", "open", "get", "check"}
        PROVE  ThreadType'
    <2> DEFINE t == [dl[f] EXCEPT !.pc = to]
    <2>1. t \in Thread /\ t.pc = to /\ t.tries < MaxTries
      BY <1>0, <1>5 DEF ThreadType, Thread
    <2>2. dl' = [dl EXCEPT ![f] = t]
      BY <1>5 DEF Goes
    <2>3. runningDownloads' = runningDownloads \cup {f}
      BY <1>4, <1>5
    <2> HIDE DEF t
    <2> QED BY <1>2, <1>5, <2>1, <2>2, <2>3
  <1>6. CASE Dequeue
    <2> DEFINE job == Head(dlQueue)
               t == [pc |-> "remove", hash |-> job.hash, tries |-> 0]
    <2>1. job \in Job
      BY <1>6, HeadTailProperties DEF Dequeue, WellTyped, ManagerType
    <2>2. t \in Thread /\ t.pc = "remove" /\ t.tries < MaxTries
      BY <2>1 DEF Thread, Hash, Job
    <2>3. job.file \in File
      BY <2>1 DEF Job
    <2>4. \/ UNCHANGED threads
          \/ dl' = [dl EXCEPT ![job.file] = t]
             /\ runningDownloads' = runningDownloads \cup {job.file}
      BY <1>6 DEF Dequeue
    <2> HIDE DEF job, t
    <2> QED BY <1>1, <1>2, <2>2, <2>3, <2>4
  <1>7. CASE Crash
    BY <1>n, <1>7 DEF Crash, ThreadType
  <1>8. ASSUME NEW f \in File, CheckDownload(f) PROVE ThreadType'
    <2>1. dl[f].pc = "check" /\ UNCHANGED runningDownloads
      BY <1>8 DEF CheckDownload
    <2>2. CASE Goes(f, "notify")
      BY <1>5, <2>1, <2>2
    <2>3. CASE ~Goes(f, "notify")
      <3> DEFINE to == IF f \in LayoutFile /\ dl[f].tries + 1 < MaxTries THEN "open" ELSE "notify"
                 t == [dl[f] EXCEPT !.tries = dl[f].tries + 1, !.pc = to]
      <3>1. dl' = [dl EXCEPT ![f] = t]
        BY <1>8, <2>3 DEF CheckDownload
      <3>2. dl[f] \in Thread /\ dl[f].tries \in 0 .. MaxTries /\ dl[f].tries < MaxTries
        BY <1>0, <2>1 DEF ThreadType, Thread
      <3>3. to \in {"open", "notify"} /\ (to = "open" => dl[f].tries + 1 < MaxTries)
        OBVIOUS
      <3>4. dl[f].tries + 1 \in 0 .. MaxTries
        BY <3>2
      <3> HIDE DEF to
      <3>5. t \in Thread /\ t.pc = to /\ t.tries = dl[f].tries + 1
        BY <3>2, <3>3, <3>4 DEF Thread
      <3> HIDE DEF t
      <3>6. runningDownloads' = runningDownloads \cup {f}
        BY <1>4, <2>1
      <3> QED BY <1>2, <3>1, <3>3, <3>5, <3>6
    <2> QED BY <2>2, <2>3
  <1>9. ASSUME NEW f \in File, dlThreadCompleteNotify(f) PROVE ThreadType'
    BY <1>3, <1>9 DEF dlThreadCompleteNotify
  <1>10. ASSUME NEW f \in File, Remove(f) \/ Open(f) \/ GetFile(f) \/ GetFails(f) \/ ThreadDies(f)
         PROVE  ThreadType'
    <2>1. /\ dl[f].pc \in {"remove", "open", "get", "check"} /\ UNCHANGED runningDownloads
          /\ \E to \in {"open", "get", "check", "notify", "dead"} : Goes(f, to)
      BY <1>10 DEF Remove, Open, GetFile, GetFails, ThreadDies, Fails
    <2> QED BY <1>5, <2>1
  <1>11. CASE UNCHANGED vars
    BY <1>1, <1>11 DEF vars
  <1>12. CASE \/ XmdsAnswers \/ XmdsRaises \/ Look \/ Read \/ Stamp \/ Decide \/ AllChecked
              \/ Save \/ Awake \/ TimerFires \/ KeyR \/ Publish
    BY <1>1, <1>12 DEF XmdsAnswers, XmdsRaises, Fetched, Look, Read, Stamp, Decide, AllChecked,
                       Save, Awake, TimerFires, KeyR, Publish
  <1> QED BY <1>6, <1>7, <1>8, <1>9, <1>10, <1>11, <1>12 DEF Next, ManagerStep, ThreadStep

LEMMA InitTyped == Init => WellTyped
  <1> SUFFICES ASSUME Init PROVE WellTyped
    OBVIOUS
  <1>1. EnvType
    BY DEF Init, EnvType
  <1>2. StoreType
    BY NoEntryFacts DEF Init, StoreType, Content
  <1>3. ManagerType
    BY EmptySeq, NoCheckFacts DEF Init, ManagerType, Checking, Visiting
  <1>4. ThreadType
    BY DEF Init, ThreadType, NoThread, Thread, Hash
  <1> QED BY <1>1, <1>2, <1>3, <1>4 DEF WellTyped

LEMMA TypeInvariant == Spec => []WellTyped
  <1>1. WellTyped /\ [Next]_vars => WellTyped'
    BY EnvStep, StoreStep, ManagerStepType, ThreadStepType DEF WellTyped
  <1> QED BY <1>1, InitTyped, PTL DEF Spec

\* Records, queue and threads keep their types, a thread runs for each file
\* that is being downloaded, and none tries more often than it may (run of
\* the manager and of its threads).
THEOREM TypeCorrect == Spec => []TypeOK
  <1>1. WellTyped => TypeOK
    <2> SUFFICES ASSUME WellTyped PROVE TypeOK
      OBVIOUS
    <2>1. EnvType /\ StoreType /\ ManagerType
      BY DEF WellTyped
    <2>2. \A f \in File :
            /\ dl[f].pc \in {"none", "remove", "open", "get", "check", "notify", "dead"}
            /\ (dl[f].pc # "none") = (f \in runningDownloads)
            /\ dl[f].tries \in 0 .. MaxTries
      BY DEF WellTyped, ThreadType, Thread
    <2>3. runningDownloads \subseteq File
      BY DEF WellTyped, ThreadType
    <2>4. /\ pc \in {"fetch", "check", "read", "stamp", "decide", "drain", "slots", "wait"}
          /\ pc \in {"read", "stamp", "decide"} => checking.file \in File
          /\ checking.how \in {"none", "new", "amiss", "cached", "displaced"}
      BY <2>1 DEF ManagerType, Checking, Visiting, CheckRecord
    <2> QED BY <2>1, <2>2, <2>3, <2>4 DEF TypeOK, EnvType, StoreType, ManagerType, Job
  <1> QED BY <1>1, TypeInvariant, PTL

-----------------------------------------------------------------------------
(* A record that is current has the hash of what the file holds.           *)

\* In the cache and, as the hash the file should have, in cache.xml; but not
\* for the files that are trusted or misread.
RecordInv ==
    \A f \in File \ (trusted \cup misread) :
        /\ md5Cache[f].current => md5Cache[f].md5 = disk[f]
        /\ cacheXml[f].current /\ cacheXml[f].target # Missing => cacheXml[f].target = disk[f]

LEMMA RecordStep == WellTyped /\ RecordInv /\ [Next]_vars => RecordInv'
  <1> SUFFICES ASSUME WellTyped, RecordInv, [Next]_vars,
                      NEW g \in File, g \notin trusted', g \notin misread'
               PROVE  /\ md5Cache'[g].current => md5Cache'[g].md5 = disk'[g]
                      /\ cacheXml'[g].current /\ cacheXml'[g].target # Missing
                            => cacheXml'[g].target = disk'[g]
    BY DEF RecordInv
  <1>0. StoreType /\ EnvType
    BY DEF WellTyped
  <1>1. CASE UNCHANGED <<disk, md5Cache, cacheXml, trusted, misread>>
    BY <1>1 DEF RecordInv
  <1>2. ASSUME NEW f \in File, NEW c \in Content, NEW n \in {0, 1}, Write(f, c, n)
        PROVE  /\ md5Cache'[g].current => md5Cache'[g].md5 = disk'[g]
               /\ cacheXml'[g].current /\ cacheXml'[g].target # Missing
                     => cacheXml'[g].target = disk'[g]
    <2>1. CASE g = f
      BY <1>0, <1>2, <2>1, WriteFacts
    <2>2. CASE g # f
      <3>1. /\ disk'[g] = disk[g] /\ md5Cache'[g] = md5Cache[g] /\ cacheXml'[g] = cacheXml[g]
            /\ g \notin trusted /\ g \notin misread
        BY <1>0, <1>2, <2>2, WriteFacts
      <3> QED BY <3>1 DEF RecordInv
    <2> QED BY <2>1, <2>2
  <1>3. CASE Read \/ Stamp \/ Decide
    <2> DEFINE f == checking.file
    <2>1. f \in File
      BY <1>3, VisitFacts
    <2>2. PICK e \in Entry : Visited(f, e)
      BY <1>3, VisitFacts
    <2>3. UNCHANGED <<disk, cacheXml, trusted>> /\ g \notin misread /\ g \notin trusted
      BY <2>2 DEF Visited
    <2>4. md5Cache'[g] = IF g = f THEN e ELSE md5Cache[g]
      BY <1>0, <2>2 DEF Visited, StoreType
    <2>5. e.current => \/ f \in misread' \/ e.md5 = disk[f]
                       \/ md5Cache[f].current /\ e.md5 = md5Cache[f].md5
      BY <2>2 DEF Visited
    <2> HIDE DEF f
    <2> QED BY <2>3, <2>4, <2>5 DEF RecordInv
  <1>4. CASE Save
    <2>1. /\ disk' = disk /\ g \notin trusted /\ g \notin misread
          /\ md5Cache'[g] = md5Cache[g] \/ ~md5Cache'[g].current
          /\ \/ cacheXml'[g] = cacheXml[g]
             \/ ~cacheXml'[g].current
             \/ cacheXml'[g] = md5Cache[g] /\ isValid(g, md5Cache[g])
      BY <1>0, <1>4, SaveFacts
    <2>2. isValid(g, md5Cache[g]) => md5Cache[g].current /\ md5Cache[g].md5 = md5Cache[g].target
      BY DEF isValid
    <2> QED BY <2>1, <2>2 DEF RecordInv
  <1>5. CASE Crash
    <2>1. UNCHANGED <<disk, cacheXml, trusted, misread>>
      BY <1>5 DEF Crash, history
    <2>2. PICK r : md5Cache'[g] = Loaded(g, r)
      BY <1>5 DEF Crash
    <2>3. Loaded(g, r).current =>
             \/ Loaded(g, r).md5 = disk[g]
             \/ /\ cacheXml[g].current /\ cacheXml[g].target # Missing
                /\ Loaded(g, r).md5 = cacheXml[g].target
      BY <1>0, LoadedFacts
    <2> QED BY <2>1, <2>2, <2>3 DEF RecordInv
  <1>6. ASSUME NEW f \in File, CheckDownload(f)
        PROVE  /\ md5Cache'[g].current => md5Cache'[g].md5 = disk'[g]
               /\ cacheXml'[g].current /\ cacheXml'[g].target # Missing
                     => cacheXml'[g].target = disk'[g]
    <2> DEFINE e == XiboFile(f, dl[f].hash)
    <2>1. e.current => e.md5 = disk[f]
      <3>1. dl[f].hash \in Hash
        BY DEF WellTyped, ThreadType, Thread
      <3> QED BY <1>0, <3>1, NewFacts
    <2>2. /\ md5Cache' = md5Cache \/ md5Cache' = [md5Cache EXCEPT ![f] = e]
          /\ UNCHANGED <<disk, cacheXml, trusted, misread>>
      BY <1>6 DEF CheckDownload, history
    <2> HIDE DEF e
    <2>3. md5Cache'[g] = md5Cache[g] \/ (g = f /\ md5Cache'[g] = e)
      BY <1>0, <2>2 DEF StoreType
    <2> QED BY <2>1, <2>2, <2>3 DEF RecordInv
  <1> QED BY <1>0, <1>1, <1>2, <1>3, <1>4, <1>5, <1>6, StoreSteps

\* A file that the cache calls valid holds what its hash stands for, after any
\* failures, changes on the server and restarts (XiboFile.isValid), unless it
\* is one that cache.xml was saved for before its download began, or that was
\* written twice in a tick, or between its checksum and its time.
THEOREM ValidIsWholeAlways == Spec => []ValidIsWhole
  <1>1. Init => RecordInv
    BY NoEntryFacts DEF Init, RecordInv
  <1>2. RecordInv => ValidIsWhole
    BY DEF RecordInv, ValidIsWhole, isValid
  <1> QED BY <1>1, <1>2, RecordStep, TypeInvariant, PTL DEF Spec

-----------------------------------------------------------------------------
(* A regular round: what is queued is not what it should be, and nobody    *)
(* mends it before its thread begins.                                      *)

Whole(f, h) == isValid(f, md5Cache[f]) /\ disk[f] = h

\* The files that the round has still to deal with.
Ahead == todo \cup IF pc \in Visiting THEN {checking.file} ELSE {}

\* A round begins when no thread runs, and ends with an empty queue.
RoundInv ==
    /\ pc \in {"fetch", "wait"} => dlQueue = <<>>
    /\ pc \notin Checking => todo = {}
    /\ pc \in Visiting => checking.file \notin todo
    /\ pc \in {"fetch"} \cup Checking \/ lock > 0 => runningDownloads = {}

\* Nobody writes a file between its checksum and its time.
VisitInv ==
    /\ misread = {}
    /\ pc \in {"read", "stamp"} /\ checking.how = "amiss"
          => disk[checking.file] # reqFiles[checking.file]
    /\ pc = "stamp" /\ New => checking.md5 = disk[checking.file]
    /\ pc = "stamp" /\ checking.how = "cached"
          => md5Cache[checking.file].md5 = disk[checking.file]

\* It visits each file once, and queues those that are not what they should be.
QueueInv ==
    /\ \A i \in 1 .. Len(dlQueue) :
          /\ dlQueue[i].file \notin Ahead \cup runningDownloads
          /\ ~Whole(dlQueue[i].file, dlQueue[i].hash)
    /\ \A i, j \in 1 .. Len(dlQueue) : i # j => dlQueue[i].file # dlQueue[j].file

SpareInv == RoundInv /\ VisitInv /\ QueueInv /\ Spared

LEMMA JobFacts ==
  ASSUME ManagerType, NEW i \in 1 .. Len(dlQueue)
  PROVE  dlQueue[i].file \in File /\ dlQueue[i].hash \in Version
  <1>1. dlQueue[i] \in Job
    BY DEF ManagerType
  <1> QED BY <1>1 DEF Job

\* Only a look at the file, or its thread at the end of the download, can find
\* that a file has become what it should be.
LEMMA StaysBroken ==
  ASSUME WellTyped, [Next]_vars, ~Crash,
         NEW g \in File, g \notin Ahead, dl[g].pc \in {"none", "remove"}
  PROVE  \A h : ~Whole(g, h) => ~Whole(g, h)'
  <1>0. StoreType /\ EnvType
    BY DEF WellTyped
  <1>1. CASE UNCHANGED <<disk, md5Cache, cacheXml, trusted, misread>>
    BY <1>1 DEF Whole, isValid
  <1>2. ASSUME NEW f \in File, NEW c \in Content, NEW n \in {0, 1}, Write(f, c, n),
               dl[f].pc \in {"remove", "open", "get"}, dl[f].pc = "remove" => c = Missing
        PROVE  \A h : ~Whole(g, h) => ~Whole(g, h)'
    <2>1. disk'[g] = Missing \/ (disk'[g] = disk[g] /\ md5Cache'[g] = md5Cache[g])
      BY <1>0, <1>2, WriteFacts
    <2> QED BY <2>1 DEF Whole, isValid
  <1>3. CASE Read \/ Stamp \/ Decide
    <2>1. pc \in Visiting /\ checking.file \in File
      BY <1>3, VisitFacts
    <2>2. PICK e \in Entry : Visited(checking.file, e)
      BY <1>3, VisitFacts
    <2>3. checking.file # g
      BY <2>1 DEF Ahead
    <2>4. md5Cache'[g] = md5Cache[g] /\ disk' = disk
      BY <1>0, <2>2, <2>3 DEF Visited, StoreType
    <2> QED BY <2>4 DEF Whole, isValid
  <1>4. CASE Save
    <2>1. disk' = disk /\ (md5Cache'[g] = md5Cache[g] \/ ~md5Cache'[g].current)
      BY <1>0, <1>4, SaveFacts
    <2> QED BY <2>1 DEF Whole, isValid
  <1>5. ASSUME NEW f \in File, CheckDownload(f)
        PROVE  \A h : ~Whole(g, h) => ~Whole(g, h)'
    <2>1. f # g
      BY <1>5 DEF CheckDownload
    <2>2. md5Cache'[g] = md5Cache[g] /\ disk' = disk
      BY <1>0, <1>5, <2>1 DEF CheckDownload, StoreType, history
    <2> QED BY <2>2 DEF Whole, isValid
  <1> QED BY <1>0, <1>1, <1>2, <1>3, <1>4, <1>5, StoreSteps

\* A step that leaves the queue alone and adds nothing to what is to check,
\* starts no thread and no round while one runs.
LEMMA SpareKept ==
  ASSUME WellTyped, SpareInv, [Next]_vars, ~Crash,
         dlQueue' = dlQueue, Ahead' \subseteq Ahead, runningDownloads' \subseteq runningDownloads,
         \A f \in File : dl'[f].pc = "remove" => dl[f] = dl'[f]
  PROVE  Spared' /\ QueueInv'
  <1>1. ASSUME NEW f \in File, dl'[f].pc = "remove", NEW h, h = dl'[f].hash
        PROVE  ~Whole(f, h)'
    <2>1. dl[f].pc = "remove" /\ h = dl[f].hash /\ f \in runningDownloads
      BY <1>1 DEF WellTyped, ThreadType
    <2>2. f \notin Ahead
      BY <2>1 DEF SpareInv, RoundInv, Ahead, Checking
    <2>3. ~Whole(f, h)
      BY <2>1 DEF SpareInv, Spared, Whole
    <2> QED BY <2>1, <2>2, <2>3, StaysBroken
  <1>2. ASSUME NEW i \in 1 .. Len(dlQueue),
               NEW f, f = dlQueue[i].file, NEW h, h = dlQueue[i].hash
        PROVE  ~Whole(f, h)'
    <2>1. f \in File
      BY <1>2, JobFacts DEF WellTyped
    <2>2. f \notin Ahead /\ f \notin runningDownloads /\ ~Whole(f, h)
      BY <1>2 DEF SpareInv, QueueInv
    <2>3. dl[f].pc = "none"
      BY <2>1, <2>2 DEF WellTyped, ThreadType
    <2> QED BY <2>1, <2>2, <2>3, StaysBroken
  <1>3. Spared'
    BY <1>1 DEF Spared, Whole
  <1>4. QueueInv'
    <2>1. \A i \in 1 .. Len(dlQueue) : dlQueue[i].file \notin Ahead \cup runningDownloads
      BY DEF SpareInv, QueueInv
    <2>2. \A i, j \in 1 .. Len(dlQueue) : i # j => dlQueue[i].file # dlQueue[j].file
      BY DEF SpareInv, QueueInv
    <2>3. \A i \in 1 .. Len(dlQueue) : dlQueue[i].file \notin Ahead' \cup runningDownloads'
      BY <2>1
    <2> QED BY <1>2, <2>2, <2>3 DEF QueueInv, Whole, isValid
  <1> QED BY <1>3, <1>4

\* What a round finds in a file is still there when it records it.
LEMMA VisitStep == WellTyped /\ SpareInv /\ [Next]_vars => VisitInv'
  <1> SUFFICES ASSUME WellTyped, SpareInv, [Next]_vars PROVE VisitInv'
    OBVIOUS
  <1>0. /\ ManagerType /\ StoreType /\ EnvType /\ RoundInv /\ VisitInv
        /\ \A f \in File : dl[f].pc # "none" => f \in runningDownloads
    BY DEF WellTyped, ThreadType, SpareInv
  <1>1. CASE Look
    <2>1. PICK f, h : /\ f \in todo /\ h = How(f)
                      /\ checking' = [NoCheck EXCEPT !.file = f, !.how = h]
      BY <1>1 DEF Look
    <2>5. f \in DOMAIN reqFiles
      BY <1>0, <1>1, <2>1 DEF ManagerType, Look, Checking
    <2>2. f \in File /\ reqFiles[f] \in Version /\ h \in {"new", "amiss", "cached"}
      <3>1. f \in File /\ reqFiles[f] \in Version
        BY <1>0, <2>5, RequiredFacts
      <3> QED BY <2>1, <3>1 DEF How
    <2>3. checking'.file = f /\ checking'.how = h
      BY <2>1, <2>2 DEF NoCheck
    <2>4. h = "amiss" => disk[f] # reqFiles[f]
      BY <2>1, <2>2 DEF How, Fits
    <2>6. UNCHANGED <<disk, reqFiles, misread>> /\ pc' \in {"decide", "read"}
      BY <1>1 DEF Look, history
    <2> QED BY <1>0, <2>3, <2>4, <2>6 DEF VisitInv
  <1>2. CASE Read
    <2>1. UNCHANGED <<disk, reqFiles, misread>> /\ checking.file \in File
      BY <1>2, VisitFacts DEF Read, history
    <2>2. CASE pc' = "stamp"
      <3>1. /\ disk[checking.file] # Missing
            /\ checking' = [checking EXCEPT !.md5 = IF New THEN disk[checking.file] ELSE @]
            /\ checking.how = "cached"
                  => md5Cache' = [md5Cache EXCEPT ![checking.file].md5 = disk[checking.file]]
        BY <1>2, <2>2 DEF Read, Record, Done
      <3>2. /\ checking'.file = checking.file /\ checking'.how = checking.how
            /\ New => checking'.md5 = disk[checking.file]
        BY <1>0, <3>1 DEF ManagerType, CheckRecord
      <3>3. checking.how = "cached" => md5Cache'[checking.file].md5 = disk[checking.file]
        BY <1>0, <2>1, <3>1 DEF StoreType, Entry
      <3>4. New' <=> New
        BY <3>2 DEF New
      <3>5. pc = "read"
        BY <1>2 DEF Read
      <3> QED BY <1>0, <2>1, <2>2, <3>2, <3>3, <3>4, <3>5 DEF VisitInv
    <2>3. CASE pc' # "stamp"
      <3>1. pc' \in {"check", "decide"}
        BY <1>2, <2>3 DEF Read, Record, Done
      <3> QED BY <1>0, <2>1, <3>1 DEF VisitInv
    <2> QED BY <2>2, <2>3
  <1>3. CASE Stamp
    <2>1. UNCHANGED <<disk, reqFiles>> /\ pc = "stamp" /\ checking.file \in File
      BY <1>3, VisitFacts DEF Stamp
    <2>2. misread' = misread
      BY <1>0, <1>3, <2>1 DEF Stamp, Stamped, VisitInv
    <2>3. \/ pc' \in {"check", "decide"}
          \/ pc' = "read" /\ checking' = [checking EXCEPT !.again = TRUE]
      BY <1>3 DEF Stamp, Record, Done
    <2>4. pc' = "read" => checking'.file = checking.file /\ checking'.how = checking.how
      BY <1>0, <2>3 DEF ManagerType, CheckRecord
    <2> QED BY <1>0, <2>1, <2>2, <2>3, <2>4 DEF VisitInv
  <1>4. CASE Decide
    <2>1. misread' = misread
      BY <1>4 DEF Decide, history
    <2>2. \/ pc' = "check"
          \/ pc' = "read" /\ checking' = [checking EXCEPT !.how = "cached"]
      BY <1>4 DEF Decide, Done
    <2>3. pc' = "read" => checking'.how = "cached"
      BY <1>0, <2>2 DEF ManagerType, CheckRecord
    <2> QED BY <1>0, <2>1, <2>2, <2>3 DEF VisitInv
  <1>5. CASE XmdsAnswers \/ XmdsRaises \/ AllChecked \/ Dequeue \/ Save \/ Awake \/ Crash
    <2>1. misread' = misread /\ pc' \in {"check", "drain", "slots", "wait", "fetch"}
      BY <1>5 DEF XmdsAnswers, XmdsRaises, Fetched, AllChecked, Dequeue, Save, Awake, Crash,
                  history
    <2> QED BY <1>0, <2>1 DEF VisitInv
  <1>6. CASE TimerFires \/ KeyR \/ Publish \/ UNCHANGED vars
    <2>1. UNCHANGED <<misread, pc, checking, disk, reqFiles, md5Cache>>
      BY <1>6 DEF TimerFires, KeyR, Publish, vars, manager, history
    <2> QED BY <1>0, <2>1 DEF VisitInv, New
  <1>7. ASSUME NEW f \in File, ThreadStep(f) \/ ThreadDies(f) PROVE VisitInv'
    <2>1. dl[f].pc # "none" /\ pc' = pc
      BY <1>7 DEF ThreadStep, ThreadDies, Remove, Open, GetFile, GetFails, CheckDownload,
                  dlThreadCompleteNotify, manager
    <2>2. pc \notin {"read", "stamp"}
      BY <1>0, <2>1 DEF RoundInv, Checking, Visiting
    <2>3. misread' \subseteq misread
      <3>1. ASSUME NEW c, NEW n, Write(f, c, n) PROVE misread' \subseteq misread
        BY <3>1 DEF Write
      <3> QED BY <1>7, <3>1 DEF ThreadStep, ThreadDies, Remove, Open, GetFile, GetFails,
                   CheckDownload, dlThreadCompleteNotify, Fails, history
    <2> QED BY <1>0, <2>1, <2>2, <2>3 DEF VisitInv
  <1> QED BY <1>1, <1>2, <1>3, <1>4, <1>5, <1>6, <1>7 DEF Next, ManagerStep

\* Every step of a round that no other round overlaps.
LEMMA SpareStep == WellTyped /\ OneRound /\ SpareInv /\ [Next]_vars => SpareInv'
  <1> SUFFICES ASSUME WellTyped, OneRound, SpareInv, [Next]_vars PROVE SpareInv'
    OBVIOUS
  <1>0. ManagerType /\ StoreType /\ timers \in Nat /\ lock \in Nat
    BY DEF WellTyped, ManagerType
  <1>v. VisitInv'
    BY VisitStep
  \* Where no other round is due, lock is 0, and no thread is told to wait.
  <1>l. pc # "wait" => lock = 0 /\ timers = 0
    BY <1>0 DEF OneRound
  <1>d. dl \in [File -> Thread] /\ \A f \in File : dl[f].pc = "remove" => f \in runningDownloads
    BY DEF WellTyped, ThreadType
  <1>1. CASE Crash
    <2>1. dlQueue' = <<>> /\ todo' = {} /\ runningDownloads' = {} /\ pc' = "fetch"
          /\ \A f \in File : dl'[f].pc = "none"
      BY <1>1 DEF Crash, NoThread
    <2> QED BY <1>v, <2>1 DEF SpareInv, RoundInv, QueueInv, Spared, Checking, Visiting
  <1>2. ASSUME ~Crash, dlQueue' = dlQueue, Ahead' \subseteq Ahead,
               runningDownloads' \subseteq runningDownloads,
               \A f \in File : dl'[f].pc = "remove" => dl[f] = dl'[f],
               RoundInv'
        PROVE  SpareInv'
    BY <1>v, <1>2, SpareKept DEF SpareInv
  <1>3. CASE XmdsAnswers \/ XmdsRaises
    <2>1. PICK files : Fetched(files)
      BY <1>3 DEF XmdsAnswers, XmdsRaises
    <2>2. /\ dlQueue' = <<>> /\ runningDownloads' = {} /\ pc' = "check" /\ UNCHANGED <<dl, threads>>
      BY <2>1 DEF Fetched, threads, SpareInv, RoundInv
    <2>3. \A f \in File : dl'[f].pc # "remove"
      BY <1>d, <2>2 DEF threads
    <2> QED BY <1>v, <2>2, <2>3
            DEF SpareInv, RoundInv, QueueInv, Spared, Checking, Visiting
  <1>k. CASE Look
    <2>1. PICK f \in todo : /\ checking' = [NoCheck EXCEPT !.file = f, !.how = How(f)]
                            /\ pc' \in {"decide", "read"} /\ todo' = todo \ {f}
      BY <1>k DEF Look
    <2>2. f \in File /\ How(f) \in {"new", "amiss", "cached"}
      BY <1>0, <2>1 DEF ManagerType, How
    <2>3. checking'.file = f
      BY <2>1, <2>2, NoCheckFacts
    <2>4. UNCHANGED <<dlQueue, lock, runningDownloads, dl>> /\ ~Crash /\ pc = "check"
      BY <1>k DEF Look, threads, Crash
    <2>5. Ahead' \subseteq Ahead
      BY <2>1, <2>3 DEF Ahead
    <2>6. RoundInv'
      BY <2>1, <2>3, <2>4 DEF SpareInv, RoundInv, Checking, Visiting
    <2> QED BY <1>2, <2>4, <2>5, <2>6
  <1>4. CASE Read \/ Stamp \/ Decide
    <2>f. pc \in Visiting /\ checking.file \in File /\ \E e \in Entry : Visited(checking.file, e)
      BY <1>4, VisitFacts
    <2> DEFINE f == checking.file
    <2>1. PICK e \in Entry : Visited(f, e)
      BY <2>f
    <2>r. UNCHANGED <<disk, reqFiles, todo, lock, runningDownloads, dl>>
      BY <1>4, <2>1 DEF Read, Stamp, Decide, threads, Visited
    <2>p. pc' = "check" \/ (pc' \in Visiting /\ checking'.file = f)
      <3>1. CASE Done
        BY <3>1 DEF Done
      <3>2. CASE Read /\ ~Done
        BY <1>0, <3>2 DEF Read, Record, ManagerType, CheckRecord, Visiting
      <3>3. CASE Stamp /\ ~Done
        BY <1>0, <3>3 DEF Stamp, Record, ManagerType, CheckRecord, Visiting
      <3>4. CASE Decide /\ ~Done
        BY <1>0, <3>4 DEF Decide, ManagerType, CheckRecord, Visiting
      <3> QED BY <1>4, <3>1, <3>2, <3>3, <3>4
    <2>2. /\ runningDownloads = {} /\ f \notin todo /\ ~Crash
          /\ Ahead = todo \cup {f} /\ Ahead' \subseteq Ahead
          /\ pc' = "check" => Ahead' = todo
      BY <2>f, <2>r, <2>p DEF SpareInv, RoundInv, Ahead, Checking, Crash, Visiting
    <2>3. \A g \in File : dl'[g].pc # "remove"
      BY <1>d, <2>r, <2>2
    <2>4. RoundInv' /\ Spared'
      BY <2>p, <2>r, <2>2, <2>3 DEF RoundInv, Spared, Checking, Visiting
    <2>6. CASE dlQueue' = dlQueue
      BY <1>2, <2>2, <2>3, <2>4, <2>6, <2>r
    <2>5. ASSUME NEW i \in 1 .. Len(dlQueue),
                 NEW g, g = dlQueue[i].file, NEW h, h = dlQueue[i].hash
          PROVE  ~Whole(g, h)'
      <3>1. g \in File
        BY <2>5, <1>0, JobFacts
      <3>2. g \notin Ahead /\ g \notin runningDownloads /\ ~Whole(g, h)
        BY <2>5 DEF SpareInv, QueueInv
      <3>3. dl[g].pc = "none"
        BY <3>1, <3>2 DEF WellTyped, ThreadType
      <3> QED BY <2>2, <3>1, <3>2, <3>3, StaysBroken
    <2>7. CASE dlQueue' # dlQueue
      <3> DEFINE n == Len(dlQueue)
                 job == [file |-> f, hash |-> reqFiles[f]]
      <3>1. /\ dlQueue' = Append(dlQueue, job) /\ pc' = "check"
            /\ (checking.how = "amiss" /\ pc \in {"read", "stamp"}) \/ ~isValid(f, e)
        BY <2>1, <2>7 DEF Visited
      <3>2. job \in Job
        BY <2>1, <2>f DEF Visited, Job
      <3>3. /\ n \in Nat /\ Len(dlQueue') = n + 1 /\ dlQueue'[n + 1] = job
            /\ \A i \in 1 .. n : dlQueue'[i] = dlQueue[i]
        BY <1>0, <3>1, <3>2, AppendProperties DEF ManagerType
      <3>4. ASSUME NEW g, g = f, NEW h, h = reqFiles[f] PROVE ~Whole(g, h)'
        <4>1. md5Cache'[g] = e /\ disk' = disk
          BY <1>0, <2>1, <2>f, <2>r, <3>4 DEF Visited, StoreType
        <4>2. disk[g] # h \/ ~isValid(g, e)
          BY <3>1, <3>4 DEF SpareInv, VisitInv
        <4> QED BY <4>1, <4>2 DEF Whole, isValid
      <3>5. job.file = f /\ job.hash = reqFiles[f]
        OBVIOUS
      <3>6. \A i \in 1 .. n : dlQueue[i].file \notin todo /\ dlQueue[i].file # f
        BY <2>2 DEF SpareInv, QueueInv
      <3>7. \A i, j \in 1 .. n : i # j => dlQueue[i].file # dlQueue[j].file
        BY DEF SpareInv, QueueInv
      <3>r. reqFiles' = reqFiles /\ Ahead' = todo /\ runningDownloads' = {}
        BY <2>2, <2>r, <3>1
      <3> HIDE DEF n, job
      <3>8. ASSUME NEW i \in 1 .. n + 1
            PROVE  dlQueue'[i].file \notin Ahead' \cup runningDownloads'
        <4>1. CASE i = n + 1
          BY <2>2, <3>3, <3>5, <3>r, <4>1
        <4>2. CASE i # n + 1
          <5>1. i \in 1 .. n
            BY <3>3, <4>2
          <5> QED BY <3>3, <3>6, <3>r, <5>1
        <4> QED BY <4>1, <4>2
      <3>9. ASSUME NEW i \in 1 .. n + 1,
                   NEW g, g = dlQueue'[i].file, NEW h, h = dlQueue'[i].hash
            PROVE  ~Whole(g, h)'
        <4>1. CASE i = n + 1
          BY <3>3, <3>4, <3>5, <3>9, <4>1
        <4>2. CASE i # n + 1
          <5>1. i \in 1 .. n
            BY <3>3, <4>2
          <5>2. g = dlQueue[i].file /\ h = dlQueue[i].hash
            BY <3>3, <3>9, <5>1
          <5> QED BY <2>5, <5>1, <5>2 DEF n
        <4> QED BY <4>1, <4>2
      <3>10. ASSUME NEW i \in 1 .. n + 1, NEW j \in 1 .. n + 1, i # j
             PROVE  dlQueue'[i].file # dlQueue'[j].file
        <4>1. CASE i = n + 1
          <5>1. j \in 1 .. n
            BY <3>3, <3>10, <4>1
          <5> QED BY <3>3, <3>5, <3>6, <4>1, <5>1
        <4>2. CASE j = n + 1
          <5>1. i \in 1 .. n
            BY <3>3, <3>10, <4>2
          <5> QED BY <3>3, <3>5, <3>6, <4>2, <5>1
        <4>3. CASE i # n + 1 /\ j # n + 1
          <5>1. i \in 1 .. n /\ j \in 1 .. n
            BY <3>3, <4>3
          <5> QED BY <3>3, <3>7, <3>10, <5>1
        <4> QED BY <4>1, <4>2, <4>3
      <3>11. QueueInv'
        <4>1. \A i \in 1 .. Len(dlQueue') : ~(Whole(dlQueue[i].file, dlQueue[i].hash)')
          BY <3>3, <3>9 DEF Whole, isValid
        <4> QED BY <3>3, <3>8, <3>10, <4>1 DEF QueueInv
      <3> QED BY <1>v, <2>4, <3>11 DEF SpareInv
    <2> QED BY <2>6, <2>7
  <1>5. CASE AllChecked \/ Awake
    <2>1. /\ UNCHANGED <<dlQueue, todo, runningDownloads, dl>>
          /\ pc' \notin Visiting
      BY <1>5 DEF AllChecked, Awake, threads, Visiting
    <2>2. RoundInv'
      <3>1. CASE AllChecked
        BY <1>l, <3>1 DEF AllChecked, threads, SpareInv, RoundInv, Checking, Visiting
      <3>2. CASE Awake
        BY <3>2 DEF Awake, CollectDue, threads, SpareInv, RoundInv, Checking, Visiting
      <3> QED BY <1>5, <3>1, <3>2
    <2>3. Ahead' \subseteq Ahead
      BY <2>1 DEF Ahead
    <2> QED BY <1>1, <1>2, <2>1, <2>2, <2>3
  <1>6. CASE Dequeue
    <2> DEFINE job == Head(dlQueue)
               f == job.file
               n == Len(dlQueue)
    <2>1. /\ dlQueue # <<>> /\ job = dlQueue[1] /\ n \in Nat /\ n >= 1 /\ dlQueue' = Tail(dlQueue)
          /\ Len(dlQueue') = n - 1 /\ \A i \in 1 .. n - 1 : dlQueue'[i] = dlQueue[i + 1]
      BY <1>0, <1>6, HeadTailProperties, EmptySeq DEF Dequeue, ManagerType
    <2>2. 1 \in 1 .. n
      BY <2>1
    <2>3. f \in File /\ job.hash \in Version
      BY <1>0, <2>1, <2>2, JobFacts
    <2>4. f \notin runningDownloads /\ ~Whole(f, job.hash)
      BY <2>1, <2>2 DEF SpareInv, QueueInv
    <2>5. /\ runningDownloads' = runningDownloads \cup {f}
          /\ dl' = [dl EXCEPT ![f] = [pc |-> "remove", hash |-> job.hash, tries |-> 0]]
      BY <1>6, <2>4 DEF Dequeue
    <2>6. /\ UNCHANGED <<disk, md5Cache, todo, lock>> /\ pc \in {"drain", "slots"}
          /\ pc' = "slots" /\ Ahead = todo /\ Ahead' = todo
      BY <1>6 DEF Dequeue, SlotFree, Ahead, Visiting
    <2>7. \A i \in 1 .. n - 1 : i + 1 \in 1 .. n /\ i + 1 # 1
      BY <2>1
    <2>8. \A i \in 1 .. n : /\ dlQueue[i].file \notin Ahead \cup runningDownloads
                            /\ ~Whole(dlQueue[i].file, dlQueue[i].hash)
      BY DEF SpareInv, QueueInv
    <2>9. \A i, j \in 1 .. n : i # j => dlQueue[i].file # dlQueue[j].file
      BY DEF SpareInv, QueueInv
    <2>10. \A g, h : Whole(g, h)' <=> Whole(g, h)
      BY <2>6 DEF Whole, isValid
    <2>11. Spared'
      <3>1. ASSUME NEW g \in File, dl'[g].pc = "remove", NEW h, h = dl'[g].hash
            PROVE  ~Whole(g, h)
        <4>1. CASE g = f
          BY <1>d, <2>3, <2>4, <2>5, <3>1, <4>1
        <4>2. CASE g # f
          <5>1. dl'[g] = dl[g]
            BY <1>d, <2>5, <4>2
          <5> QED BY <3>1, <5>1 DEF SpareInv, Spared, Whole
        <4> QED BY <4>1, <4>2
      <3> QED BY <2>6, <3>1 DEF Spared, Whole, isValid
    <2>12. RoundInv'
      BY <1>l, <2>6 DEF SpareInv, RoundInv, Checking, Visiting
    <2>13. QueueInv'
      <3>0. job.file = dlQueue[1].file
        BY <2>1
      <3> HIDE DEF job, n
      <3>1. ASSUME NEW i \in 1 .. n - 1
            PROVE  dlQueue'[i].file \notin Ahead' \cup runningDownloads'
        <4>1. dlQueue'[i] = dlQueue[i + 1] /\ dlQueue[i + 1].file # f
          BY <2>1, <2>2, <2>7, <2>9, <3>0
        <4> QED BY <2>5, <2>6, <2>7, <2>8, <4>1
      <3>2. ASSUME NEW i \in 1 .. n - 1
            PROVE  ~(Whole(dlQueue[i].file, dlQueue[i].hash)')
        <4>1. ~Whole(dlQueue[i + 1].file, dlQueue[i + 1].hash)
          BY <2>7, <2>8
        <4> QED BY <2>1, <2>6, <4>1 DEF Whole, isValid
      <3>3. ASSUME NEW i \in 1 .. n - 1, NEW j \in 1 .. n - 1, i # j
            PROVE  dlQueue'[i].file # dlQueue'[j].file
        <4>1. i + 1 # j + 1
          BY <2>1, <3>3
        <4> QED BY <2>1, <2>7, <2>9, <4>1
      <3> QED BY <2>1, <3>1, <3>2, <3>3 DEF QueueInv
    <2> QED BY <1>v, <2>11, <2>12, <2>13 DEF SpareInv
  <1>7. CASE Save
    <2>1. /\ UNCHANGED <<dlQueue, todo, runningDownloads, dl, lock>> /\ ~Crash
          /\ dlQueue = <<>> /\ pc \in {"drain", "slots"} /\ pc' = "wait"
      BY <1>7 DEF Save, SlotFree, threads, Crash
    <2>2. RoundInv'
      BY <1>l, <2>1 DEF SpareInv, RoundInv, Checking, Visiting
    <2>3. Ahead' \subseteq Ahead
      BY <2>1 DEF Ahead, Visiting
    <2> QED BY <1>2, <2>1, <2>2, <2>3
  <1>8. CASE TimerFires \/ KeyR
    <2>1. UNCHANGED <<dlQueue, todo, checking, runningDownloads, dl, pc>> /\ Collect
      BY <1>8 DEF TimerFires, KeyR, threads
    <2>2. RoundInv'
      BY <1>0, <2>1 DEF SpareInv, RoundInv, Collect
    <2>3. Ahead' \subseteq Ahead
      BY <2>1 DEF Ahead
    <2> QED BY <1>1, <1>2, <2>1, <2>2, <2>3
  <1>9. CASE Publish \/ UNCHANGED vars
    <2>1. UNCHANGED <<dlQueue, todo, checking, runningDownloads, dl, pc, lock>>
      BY <1>9 DEF Publish, vars, manager, threads
    <2>2. RoundInv'
      BY <2>1 DEF SpareInv, RoundInv
    <2>3. Ahead' \subseteq Ahead
      BY <2>1 DEF Ahead
    <2> QED BY <1>1, <1>2, <2>1, <2>2, <2>3
  <1>10. ASSUME NEW f \in File, ThreadStep(f) \/ ThreadDies(f) PROVE SpareInv'
    <2>1. /\ UNCHANGED <<dlQueue, todo, pc, lock>> /\ runningDownloads' \subseteq runningDownloads
          /\ dl[f].pc # "none"
      BY <1>10 DEF ThreadStep, ThreadDies, Remove, Open, GetFile, GetFails, CheckDownload,
                   dlThreadCompleteNotify, manager
    <2>2. \E t : dl' = [dl EXCEPT ![f] = t] /\ t.pc # "remove"
      <3>1. ASSUME NEW to, to # "remove", Goes(f, to)
            PROVE  \E t : dl' = [dl EXCEPT ![f] = t] /\ t.pc # "remove"
        <4> DEFINE t == [dl[f] EXCEPT !.pc = to]
        <4>1. dl' = [dl EXCEPT ![f] = t] /\ t.pc = to
          BY <1>d, <3>1 DEF Goes, Thread
        <4> HIDE DEF t
        <4> QED BY <3>1, <4>1
      <3>2. CASE dlThreadCompleteNotify(f)
        <4>1. NoThread.pc # "remove"
          BY DEF NoThread
        <4> QED BY <3>2, <4>1 DEF dlThreadCompleteNotify
      <3>3. CASE CheckDownload(f)
        <4>1. CASE Goes(f, "notify")
          BY <3>1, <4>1
        <4>2. CASE ~Goes(f, "notify")
          <5> DEFINE to == IF f \in LayoutFile /\ dl[f].tries + 1 < MaxTries
                           THEN "open" ELSE "notify"
                     t == [dl[f] EXCEPT !.tries = dl[f].tries + 1, !.pc = to]
          <5>1. dl' = [dl EXCEPT ![f] = t]
            BY <3>3, <4>2 DEF CheckDownload
          <5>2. t.pc # "remove"
            BY <1>d DEF Thread
          <5> HIDE DEF t
          <5> QED BY <5>1, <5>2
        <4> QED BY <4>1, <4>2
      <3>4. CASE Remove(f) \/ Open(f) \/ GetFile(f) \/ GetFails(f) \/ ThreadDies(f)
        <4>1. \E to \in {"open", "get", "check", "notify", "dead"} : Goes(f, to)
          BY <3>4 DEF Remove, Open, GetFile, GetFails, ThreadDies, Fails
        <4> QED BY <3>1, <4>1
      <3> QED BY <1>10, <3>2, <3>3, <3>4 DEF ThreadStep
    <2>3. \A g \in File : dl'[g].pc = "remove" => dl[g] = dl'[g]
      BY <1>d, <2>2
    <2>5. pc \notin Visiting
      BY <1>10, <2>1 DEF WellTyped, ThreadType, SpareInv, RoundInv, Checking
    <2>4. RoundInv'
      BY <2>1, <2>5 DEF SpareInv, RoundInv
    <2>6. Ahead' \subseteq Ahead
      BY <2>1, <2>5 DEF Ahead
    <2> QED BY <1>1, <1>2, <2>1, <2>3, <2>4, <2>6
  <1> QED BY <1>1, <1>3, <1>k, <1>4, <1>5, <1>6, <1>7, <1>8, <1>9, <1>10 DEF Next, ManagerStep

\* As long as one round does not overlap another, no file that is what it
\* should be is deleted to be downloaded again, and none is recorded with the
\* checksum of what it held before (the rounds of run, and collect, which does
\* nothing while a download runs).
THEOREM SparesFilesAlways == Spec => SparesFiles
  <1>1. Init => SpareInv
    <2> SUFFICES ASSUME Init PROVE SpareInv
      OBVIOUS
    <2>1. dlQueue = <<>> /\ todo = {} /\ runningDownloads = {}
          /\ \A f \in File : dl[f].pc = "none"
      BY DEF Init, NoThread
    <2>2. pc = "fetch" /\ misread = {} /\ lock = 0
      BY DEF Init
    <2> QED BY <2>1, <2>2
            DEF SpareInv, RoundInv, VisitInv, QueueInv, Spared, Checking, Visiting
  <1>2. SpareInv => Spared /\ misread = {}
    BY DEF SpareInv, VisitInv
  <1> QED BY <1>1, <1>2, SpareStep, TypeInvariant, PTL DEF Spec, SparesFiles

=============================================================================

---------------------------- MODULE AsyncDemuxer ----------------------------
(* libavg's threaded demuxer: AsyncDemuxer (the calls of the decoder         *)
(* threads), VideoDemuxerThread (the worker thread that reads the file) and  *)
(* FFMpegDemuxer (the file and the packets of the other streams met on the   *)
(* way), with the end-of-file flags and the seek of FFMpegDecoder around     *)
(* them.  Every stream has a decoder thread, named after the stream; the     *)
(* first one also seeks; "main" deletes the demuxer once they are joined.    *)
(* A queue call is one step (module Queue).  A seek finds its position.      *)
EXTENDS Naturals, Sequences, FiniteSets
CONSTANTS StreamIndexes,  \* the streams in the order of their numbers: "video", "audio" or both
          File,           \* the file: the stream of its 1st, 2nd ... packet
          QueueLength,    \* PACKET_QUEUE_LENGTH
          Positions,      \* where seeks go: the number of a packet
          MaxSeeks        \* bound of the model: seeks in one run

Streams == {StreamIndexes[i] : i \in DOMAIN StreamIndexes}
\* A seek comes from the video's thread, or the audio's if there is no video.
Seeker == IF "video" \in Streams THEN "video" ELSE "audio"
Threads == Streams \cup {"main"}

ASSUME DemuxerAssumption ==
    /\ StreamIndexes \in {<<"video">>, <<"audio">>, <<"video", "audio">>, <<"audio", "video">>}
    /\ File \in Seq(Streams) /\ QueueLength \in Nat \ {0, 1}
    /\ Positions \subseteq DOMAIN File /\ MaxSeeks \in Nat

\* Messages of a packet queue: a packet is its place in the file; Eof is the
\* message without a packet, SeekDone the one that ends a seek.
Eof == Len(File) + 1
SeekDone == 0
Stop == 0       \* commands: a position to seek to, or Stop

VARIABLES filePos,     \* the next packet that av_read_frame returns
          cache,       \* m_PacketLists of FFMpegDemuxer
          q,           \* m_PacketQs
          qEOF,        \* m_PacketQbEOF
          cmdQ,        \* m_pCmdQ
          demuxPc,     \* where the demuxer thread is
          reading,     \* the stream that getPacket is looking for, or "nobody"
          toMark,      \* streams that the running seek has not marked yet
          shouldStop,  \* m_bShouldStop of the demuxer thread
          pc,          \* where each decoder thread and main are
          op,          \* the call it is in: "read", "seek" or "close"
          m_SeekMutex, \* its owner or "nobody"
          m_bSeekPending, m_bSeekDone,
          eof,         \* FFMpegDecoder: m_bVideoEOF, m_bAudioEOF
          m_AudioMutex, \* FFMpegDecoder: its owner or "nobody"
          m_bFirstPacket, \* FFMpegDecoder: no video packet has been read yet
          dest,        \* destTime of the running seek
          toDrain,     \* streams whose queue the running seek has not emptied
          got,         \* what the last getPacket of each stream returned
          overlapped,  \* history: readers waiting for a packet when a seek began
          endInSeek,   \* history: streams whose end was read while a seek ran
          failed,      \* an assertion ended the process
          seeks        \* bound: seeks so far

demux == <<filePos, cache, qEOF, demuxPc, reading, toMark, shouldStop>>
client == <<pc, op, m_SeekMutex, m_bSeekPending, m_bSeekDone, eof, m_AudioMutex,
            m_bFirstPacket, dest, toDrain, got, overlapped, endInSeek, failed, seeks>>
vars == <<demux, q, cmdQ, client>>

None == "nobody"

Init == /\ filePos = 1 /\ cache = [s \in Streams |-> <<>>]
        /\ q = [s \in Streams |-> <<>>] /\ qEOF = [s \in Streams |-> FALSE]
        /\ cmdQ = <<>> /\ demuxPc = "work" /\ reading = None
        /\ toMark = <<>> /\ shouldStop = FALSE
        /\ pc = [t \in Threads |-> "idle"] /\ op = [t \in Threads |-> None]
        /\ m_SeekMutex = None /\ m_bSeekPending = FALSE
        /\ m_bSeekDone = [s \in Streams |-> TRUE]
        /\ eof = [s \in Streams |-> FALSE] /\ m_AudioMutex = None /\ m_bFirstPacket = TRUE
        /\ dest = 1 /\ toDrain = <<>> /\ got = [s \in Streams |-> 0]
        /\ overlapped = {} /\ endInSeek = {} /\ failed = FALSE /\ seeks = 0

----------------------------------------------------------------------------
(* VideoDemuxerThread *)

m_bEOF == \A s \in Streams : qEOF[s]

Candidates == {i \in DOMAIN StreamIndexes : /\ Len(q[StreamIndexes[i]]) < QueueLength
                                           /\ ~qEOF[StreamIndexes[i]]}

\* The shortest queue with room whose stream goes on, the first of equals.
ShortestQ == StreamIndexes[CHOOSE i \in Candidates : \A j \in Candidates :
                               LET li == Len(q[StreamIndexes[i]])
                                   lj == Len(q[StreamIndexes[j]])
                               IN li < lj \/ (li = lj /\ i <= j)]

Work ==
    /\ demuxPc = "work" /\ ~m_bEOF
    /\ IF Candidates = {} THEN demuxPc' = "cmds" /\ UNCHANGED reading    \* takes a nap
       ELSE demuxPc' = "read" /\ reading' = ShortestQ
    /\ UNCHANGED <<filePos, cache, q, qEOF, toMark, shouldStop, cmdQ, client>>

\* The packet, or the end of the stream, is queued: there is room, as only
\* this thread fills the queues.
Queued(p) ==
    /\ q' = [q EXCEPT ![reading] = Append(@, p)]
    /\ qEOF' = [qEOF EXCEPT ![reading] = p = Eof]
    /\ demuxPc' = "cmds" /\ reading' = None

\* FFMpegDemuxer::getPacket: the packet met on the way to another stream's ...
CachedPacket ==
    /\ demuxPc = "read" /\ cache[reading] # <<>>
    /\ Queued(Head(cache[reading]))
    /\ cache' = [cache EXCEPT ![reading] = Tail(@)]
    /\ UNCHANGED <<filePos, toMark, shouldStop, cmdQ, client>>

\* ... or the next of the file; those of other streams are cached.
ReadFrame ==
    /\ demuxPc = "read" /\ cache[reading] = <<>>
    /\ IF filePos = Eof THEN Queued(Eof) /\ UNCHANGED <<filePos, cache>>
       ELSE /\ filePos' = filePos + 1
            /\ IF File[filePos] = reading THEN Queued(filePos) /\ UNCHANGED cache
               ELSE /\ cache' = [cache EXCEPT ![File[filePos]] = Append(@, filePos)]
                    /\ UNCHANGED <<q, qEOF, demuxPc, reading>>
    /\ UNCHANGED <<toMark, shouldStop, cmdQ, client>>

\* The command at the head of the queue begins: a seek moves the file and
\* forgets the cached packets.
Execute ==
    /\ cmdQ # <<>>
    /\ cmdQ' = Tail(cmdQ)
    /\ IF Head(cmdQ) = Stop
       THEN shouldStop' = TRUE /\ demuxPc' = "cmds" /\ UNCHANGED <<filePos, cache, toMark>>
       ELSE /\ filePos' = Head(cmdQ)
            /\ cache' = [s \in Streams |-> <<>>]
            /\ toMark' = StreamIndexes
            /\ demuxPc' = "mark"
            /\ UNCHANGED shouldStop
    /\ UNCHANGED <<q, qEOF, reading, client>>

WaitForCommand == demuxPc = "work" /\ m_bEOF /\ Execute

ProcessCommand == demuxPc = "cmds" /\ Execute

NoMoreCommands ==
    /\ demuxPc = "cmds" /\ cmdQ = <<>>
    /\ demuxPc' = IF shouldStop THEN "done" ELSE "work"
    /\ UNCHANGED <<filePos, cache, qEOF, reading, toMark, shouldStop, q, cmdQ, client>>

\* Mutant: the stream's end-of-file flag survives the seek.
Mark_KeepEOF ==
    /\ demuxPc = "mark" /\ Len(q[Head(toMark)]) < QueueLength
    /\ q' = [q EXCEPT ![Head(toMark)] = Append(@, SeekDone)]
    /\ toMark' = Tail(toMark)
    /\ demuxPc' = IF Len(toMark) = 1 THEN "cmds" ELSE "mark"
    /\ UNCHANGED <<filePos, cache, qEOF, reading, shouldStop, cmdQ, client>>

\* seek, one stream: wait for room, queue the mark, the stream goes on.
Mark ==
    /\ demuxPc = "mark" /\ Len(q[Head(toMark)]) < QueueLength
    /\ q' = [q EXCEPT ![Head(toMark)] = Append(@, SeekDone)]
    /\ qEOF' = [qEOF EXCEPT ![Head(toMark)] = FALSE]
    /\ toMark' = Tail(toMark)
    /\ demuxPc' = IF Len(toMark) = 1 THEN "cmds" ELSE "mark"
    /\ UNCHANGED <<filePos, cache, reading, shouldStop, cmdQ, client>>

DemuxThread == Work \/ CachedPacket \/ ReadFrame \/ WaitForCommand \/ ProcessCommand \/ NoMoreCommands \/ Mark

----------------------------------------------------------------------------
(* AsyncDemuxer: the calls of the decoder threads and of main *)

Closing == op["main"] = "close"

Go(t, where) == pc' = [pc EXCEPT ![t] = where]

\* Where a call goes on once no seek is outstanding.
AfterWait(t) == CASE op[t] = "read" -> "pop" [] op[t] = "seek" -> "push" [] op[t] = "close" -> "stop"

\* getPacket begins.  fillAudioBuffer holds m_AudioMutex around it.
BeginRead(s) ==
    /\ pc[s] = "idle" /\ ~Closing /\ ~eof[s]
    /\ IF s = "audio" THEN m_AudioMutex = None /\ m_AudioMutex' = s ELSE UNCHANGED m_AudioMutex
    /\ op' = [op EXCEPT ![s] = "read"] /\ Go(s, "wait")
    /\ UNCHANGED <<demux, q, cmdQ, m_SeekMutex, m_bSeekPending, m_bSeekDone, eof, m_bFirstPacket,
                   dest, toDrain, got, overlapped, endInSeek, failed, seeks>>

\* FFMpegDecoder::seek begins; it reads a first video packet before.
BeginSeek(d) ==
    /\ pc[Seeker] = "idle" /\ ~Closing /\ seeks < MaxSeeks
    /\ "video" \in Streams => ~m_bFirstPacket
    /\ op' = [op EXCEPT ![Seeker] = "seek"] /\ Go(Seeker, "wait")
    /\ dest' = d /\ seeks' = seeks + 1
    /\ UNCHANGED <<demux, q, cmdQ, m_SeekMutex, m_bSeekPending, m_bSeekDone, eof, m_AudioMutex,
                   m_bFirstPacket, toDrain, got, overlapped, endInSeek, failed>>

\* Mutant: the mutex is not held while the marks are waited for.
LockWait_Unlocked(t) ==
    /\ pc[t] = "wait" /\ m_SeekMutex = None
    /\ IF m_bSeekPending THEN m_bSeekPending' = FALSE /\ Go(t, "discard")
       ELSE UNCHANGED m_bSeekPending /\ Go(t, AfterWait(t))
    /\ UNCHANGED <<demux, q, cmdQ, op, m_SeekMutex, m_bSeekDone, eof, m_AudioMutex, m_bFirstPacket,
                   dest, toDrain, got, overlapped, endInSeek, failed, seeks>>

\* waitForSeekDone takes the mutex; without a seek outstanding it is over.
LockWait(t) ==
    /\ pc[t] = "wait" /\ m_SeekMutex = None
    /\ IF m_bSeekPending THEN m_bSeekPending' = FALSE /\ m_SeekMutex' = t /\ Go(t, "discard")
       ELSE UNCHANGED <<m_bSeekPending, m_SeekMutex>> /\ Go(t, AfterWait(t))
    /\ UNCHANGED <<demux, q, cmdQ, op, m_bSeekDone, eof, m_AudioMutex, m_bFirstPacket, dest, toDrain,
                   got, overlapped, endInSeek, failed, seeks>>

\* The first stream whose mark has not come.
Unmarked == {i \in DOMAIN StreamIndexes : ~m_bSeekDone[StreamIndexes[i]]}
FirstUnmarked == StreamIndexes[CHOOSE i \in Unmarked : \A j \in Unmarked : i <= j]

\* ... and throws away what precedes the marks, stream by stream.
Discard(t) ==
    /\ pc[t] = "discard"
    /\ IF Unmarked = {}
       THEN m_SeekMutex' = None /\ Go(t, AfterWait(t)) /\ UNCHANGED <<q, m_bSeekDone>>
       ELSE LET s == FirstUnmarked IN
            /\ q[s] # <<>>
            /\ q' = [q EXCEPT ![s] = Tail(@)]
            /\ m_bSeekDone' = [m_bSeekDone EXCEPT ![s] = Head(q[s]) = SeekDone]
            /\ UNCHANGED <<pc, m_SeekMutex>>
    /\ UNCHANGED <<demux, cmdQ, op, m_bSeekPending, eof, m_AudioMutex, m_bFirstPacket, dest, toDrain,
                   got, overlapped, endInSeek, failed, seeks>>

SeekRunning == op[Seeker] = "seek" /\ pc[Seeker] \in {"drain", "buffers", "flags"}

\* The packet is taken without the mutex; a mark here is an assertion failure,
\* which ends the process.
Pop(s) ==
    /\ pc[s] = "pop" /\ q[s] # <<>>
    /\ q' = [q EXCEPT ![s] = Tail(@)]
    /\ IF Head(q[s]) = SeekDone
       THEN failed' = TRUE /\ UNCHANGED <<pc, op, m_AudioMutex, m_bFirstPacket, eof, got, overlapped, endInSeek>>
       ELSE /\ got' = [got EXCEPT ![s] = Head(q[s])]
            /\ eof' = [eof EXCEPT ![s] = Head(q[s]) = Eof]
            /\ endInSeek' = IF Head(q[s]) = Eof /\ SeekRunning THEN endInSeek \cup {s} ELSE endInSeek
            /\ overlapped' = overlapped \ {s}
            /\ m_AudioMutex' = IF s = "audio" THEN None ELSE m_AudioMutex
            /\ m_bFirstPacket' = (m_bFirstPacket /\ s # "video")
            /\ op' = [op EXCEPT ![s] = None] /\ Go(s, "idle")
            /\ UNCHANGED failed
    /\ UNCHANGED <<demux, cmdQ, m_SeekMutex, m_bSeekPending, m_bSeekDone, dest, toDrain, seeks>>

\* seek: the command, then what is queued is thrown away, up to the marks.
\* m_bSeekDone is cleared queue by queue, which the mutex hides.
PushSeek ==
    /\ pc[Seeker] = "push" /\ m_SeekMutex = None
    /\ m_SeekMutex' = Seeker
    /\ cmdQ' = Append(cmdQ, dest)
    /\ m_bSeekPending' = TRUE
    /\ m_bSeekDone' = [s \in Streams |-> FALSE]
    /\ toDrain' = StreamIndexes
    /\ overlapped' = overlapped \cup {s \in Streams : pc[s] = "pop"}
    /\ Go(Seeker, "drain")
    /\ UNCHANGED <<demux, q, op, eof, m_AudioMutex, m_bFirstPacket, dest, got, endInSeek, failed, seeks>>

\* Mutant: the queue is emptied past its mark.
Drain_PastMark ==
    /\ pc[Seeker] = "drain" /\ toDrain # <<>>
    /\ LET s == Head(toDrain) IN
       IF q[s] = <<>> THEN toDrain' = Tail(toDrain) /\ UNCHANGED <<q, m_bSeekDone>>
       ELSE /\ q' = [q EXCEPT ![s] = Tail(@)]
            /\ m_bSeekDone' = [m_bSeekDone EXCEPT ![s] = @ \/ Head(q[s]) = SeekDone]
            /\ UNCHANGED toDrain
    /\ UNCHANGED <<demux, cmdQ, pc, op, m_SeekMutex, m_bSeekPending, eof, m_AudioMutex, m_bFirstPacket,
                   dest, got, overlapped, endInSeek, failed, seeks>>

Drain ==
    /\ pc[Seeker] = "drain" /\ toDrain # <<>>
    /\ LET s == Head(toDrain) IN
       IF q[s] = <<>> THEN toDrain' = Tail(toDrain) /\ UNCHANGED <<q, m_bSeekDone>>
       ELSE /\ q' = [q EXCEPT ![s] = Tail(@)]
            /\ m_bSeekDone' = [m_bSeekDone EXCEPT ![s] = Head(q[s]) = SeekDone]
            /\ toDrain' = IF Head(q[s]) = SeekDone THEN Tail(toDrain) ELSE toDrain
    /\ UNCHANGED <<demux, cmdQ, pc, op, m_SeekMutex, m_bSeekPending, eof, m_AudioMutex, m_bFirstPacket,
                   dest, got, overlapped, endInSeek, failed, seeks>>

EndDrain ==
    /\ pc[Seeker] = "drain" /\ toDrain = <<>>
    /\ m_bSeekPending' = (Unmarked # {})
    /\ m_SeekMutex' = None
    /\ Go(Seeker, "buffers")
    /\ UNCHANGED <<demux, q, cmdQ, op, m_bSeekDone, eof, m_AudioMutex, m_bFirstPacket, dest, toDrain,
                   got, overlapped, endInSeek, failed, seeks>>

\* FFMpegDecoder::seek waits for the audio mutex to forget decoded audio ...
ResetBuffers ==
    /\ pc[Seeker] = "buffers"
    /\ "audio" \in Streams => m_AudioMutex = None
    /\ Go(Seeker, "flags")
    /\ UNCHANGED <<demux, q, cmdQ, op, m_SeekMutex, m_bSeekPending, m_bSeekDone, eof, m_AudioMutex,
                   m_bFirstPacket, dest, toDrain, got, overlapped, endInSeek, failed, seeks>>

\* ... and resets both end-of-file flags, whatever was read meanwhile.
ResetFlags ==
    /\ pc[Seeker] = "flags"
    /\ eof' = [s \in Streams |-> FALSE]
    /\ op' = [op EXCEPT ![Seeker] = None] /\ Go(Seeker, "idle")
    /\ UNCHANGED <<demux, q, cmdQ, m_SeekMutex, m_bSeekPending, m_bSeekDone, m_AudioMutex,
                   m_bFirstPacket, dest, toDrain, got, overlapped, endInSeek, failed, seeks>>

MainOnly == UNCHANGED <<m_bSeekPending, m_SeekMutex, m_bSeekDone, eof, m_AudioMutex, m_bFirstPacket,
                        dest, got, overlapped, endInSeek, failed, seeks>>

\* main has stopped the decoder threads; a call under way is finished first.
BeginClose ==
    /\ ~Closing
    /\ op' = [op EXCEPT !["main"] = "close"] /\ Go("main", "join")
    /\ MainOnly /\ UNCHANGED <<demux, q, cmdQ, toDrain>>

JoinDecoders ==
    /\ pc["main"] = "join" /\ \A s \in Streams : pc[s] = "idle"
    /\ Go("main", "wait")
    /\ MainOnly /\ UNCHANGED <<demux, q, cmdQ, toDrain, op>>

PushStop ==
    /\ pc["main"] = "stop"
    /\ cmdQ' = Append(cmdQ, Stop)
    /\ toDrain' = StreamIndexes
    /\ Go("main", "unblock")
    /\ MainOnly /\ UNCHANGED <<demux, q, op>>

\* One message of each queue, in case the thread waits for room.
Unblock ==
    /\ pc["main"] = "unblock"
    /\ q' = [q EXCEPT ![Head(toDrain)] = IF @ = <<>> THEN @ ELSE Tail(@)]
    /\ toDrain' = Tail(toDrain)
    /\ Go("main", IF Len(toDrain) = 1 THEN "joinDemux" ELSE "unblock")
    /\ MainOnly /\ UNCHANGED <<demux, cmdQ, op>>

JoinDemux ==
    /\ pc["main"] = "joinDemux" /\ demuxPc = "done"
    /\ q' = [s \in Streams |-> <<>>]
    /\ Go("main", "closed")
    /\ MainOnly /\ UNCHANGED <<demux, cmdQ, toDrain, op>>

Continue(s) ==
    \/ LockWait(s) \/ Discard(s) \/ Pop(s)
    \/ s = Seeker /\ (PushSeek \/ Drain \/ EndDrain \/ ResetBuffers \/ ResetFlags)

Close == JoinDecoders \/ LockWait("main") \/ Discard("main") \/ PushStop \/ Unblock \/ JoinDemux

Next ==
    /\ ~failed
    /\ \/ DemuxThread
       \/ \E s \in Streams : BeginRead(s) \/ Continue(s)
       \/ \E d \in Positions : BeginSeek(d)
       \/ BeginClose \/ Close

\* The threads are scheduled and calls are carried on; nobody has to begin one.
Fairness == /\ WF_vars(~failed /\ DemuxThread) /\ WF_vars(~failed /\ Close)
            /\ \A s \in Streams : WF_vars(~failed /\ Continue(s))

Spec == Init /\ [][Next]_vars /\ Fairness

----------------------------------------------------------------------------
(* Properties *)

\* Marks of stream s still to be received: the demuxer thread has the command
\* before it, is at it, or has queued the mark.
MarksIn(s) == (IF \E i \in DOMAIN cmdQ : cmdQ[i] # Stop THEN 1 ELSE 0)
              + Cardinality({i \in DOMAIN toMark : toMark[i] = s})
              + Cardinality({i \in DOMAIN q[s] : q[s][i] = SeekDone})

\* The two sides agree on the seek: a stream has one mark to come exactly while
\* the clients wait for one, unless an assertion failed; so no wait for a mark
\* is in vain and no mark is left for a later read or seek.
MarksMatch ==
    ~failed => \A s \in Streams : MarksIn(s) = IF m_bSeekDone[s] THEN 0 ELSE 1

\* The streams from a place of the file on, each with its end.
FileFrom[p \in 1..Eof] ==
    [s \in Streams |-> IF p = Eof THEN <<Eof>>
                       ELSE IF File[p] = s THEN <<p>> \o FileFrom[p + 1][s]
                       ELSE FileFrom[p + 1][s]]

\* What the demuxer has still to queue for s.
Unread(s) == IF qEOF[s] /\ ~(\E i \in DOMAIN toMark : toMark[i] = s) THEN <<>>
             ELSE cache[s] \o FileFrom[filePos][s]

\* What the reader of s gets from now on.
PacketsFrom(s, d) == FileFrom[d][s]
AfterMark(s) == LET i == CHOOSE i \in DOMAIN q[s] : q[s][i] = SeekDone
                IN SubSeq(q[s], i + 1, Len(q[s]))
Deleting == pc["main"] \in {"unblock", "joinDemux", "closed"}
Rest == [s \in Streams |->
            IF Deleting THEN <<>>
            ELSE IF \E i \in DOMAIN cmdQ : cmdQ[i] # Stop
            THEN PacketsFrom(s, cmdQ[CHOOSE i \in DOMAIN cmdQ : cmdQ[i] # Stop])
            ELSE IF \E i \in DOMAIN toMark : toMark[i] = s THEN Unread(s)
            ELSE IF \E i \in DOMAIN q[s] : q[s][i] = SeekDone THEN AfterMark(s) \o Unread(s)
            ELSE q[s] \o Unread(s)]

\* Through queues, cache, marks and seeks each stream is handed out without
\* gap or repetition; only a read that a seek overtook may be served from the
\* old position or fail.
Source == INSTANCE PacketSource
          WITH Packets <- 1..Eof, From <- PacketsFrom, rest <- Rest, closed <- Deleting
PacketSpec == Source!Spec

\* Every call returns and the demuxer can be deleted, unless an assertion ended
\* the process or the end of a stream was read while a seek was about to reset
\* the end-of-file flags: that reader asks for a packet that never comes.
CallsReturn ==
    /\ \A s \in Streams : op[s] # None ~> (op[s] = None \/ failed \/ endInSeek # {})
    /\ Closing ~> (pc["main"] = "closed" \/ failed \/ endInSeek # {})
=============================================================================

----------------------------- MODULE AsyncVideo -----------------------------
(* A video on screen: VideoNode on the main thread, AsyncVideoDecoder with   *)
(* its message queues, VideoDecoderThread and AudioDecoderThread that fill   *)
(* them, FFMpegDecoder below, and the audio engine's thread that takes       *)
(* decoded sound.  A read of FFMpegDecoder is one step, unless it has to     *)
(* wait; a seek is two, the demuxer's and the reset of the flags.  What lies *)
(* below is AsyncDemuxer.  Time is counted in video frames; a node *)
(* is linked and visible; hardware acceleration and the frames' return to    *)
(* the pool are left out.                                                    *)
EXTENDS Naturals, Integers, Sequences, FiniteSets
CONSTANTS NumFrames,    \* video frames in the file, numbered from 1
          NumSounds,    \* audio buffers in the file, if it has audio
          QueueLength,  \* m_QueueLength: messages of decoded frames
          AudioQueue,   \* messages of decoded audio (8 in the code)
          MaxSkip,      \* most frames the movie time advances between two frames of the player
          HoldsBack,    \* the codec holds frames back until it is told of the end
          MaxOps        \* bound of the model: calls of play, pause, stop and seekToTime

ASSUME VideoAssumption ==
    /\ {NumFrames, NumSounds, QueueLength, AudioQueue, MaxSkip} \subseteq Nat \ {0}
    /\ MaxOps \in Nat /\ HoldsBack \in BOOLEAN

VARIABLES hasAudio, loop,   \* the file has audio; m_bLoop
          \* VideoNode
          m_VideoState, m_bFrameAvailable, nodeSeekPending, nodeEOFPending, movieTime,
          \* AsyncVideoDecoder
          m_bVideoEOF, m_bAudioEOF, m_bSeekPending, m_LastVideoFrameTime, seekOwner,
          vCmdQ, vMsgQ, aMsgQ,
          \* main and audio engine threads
          mainPc, dest, ret, want, avail, enginePc,
          \* the decoder threads
          vPc, vMsg, aPc, aStop,
          \* FFMpegDecoder
          syncFrame, syncEOFPending, syncVideoEOF, syncSound, syncAudioEOF,
          ops           \* calls so far

file == <<hasAudio, loop>>
node == <<m_VideoState, m_bFrameAvailable, nodeSeekPending, nodeEOFPending, movieTime>>
flags == <<m_bVideoEOF, m_bAudioEOF, m_LastVideoFrameTime>>
seeking == <<m_bSeekPending, seekOwner>>
main == <<mainPc, dest, ret, want, avail>>
vthread == <<vPc, vMsg>>
athread == <<aPc, aStop>>
sync == <<syncFrame, syncEOFPending, syncVideoEOF, syncSound, syncAudioEOF>>
vars == <<file, node, flags, seeking, vCmdQ, vMsgQ, aMsgQ, main, enginePc, vthread, athread, sync, ops>>

Frame(n) == [type |-> "FRAME", n |-> n]
EndOfFile == [type |-> "END_OF_FILE", n |-> 0]
NoMsg == [type |-> "none", n |-> 0]
StopCmd == 0    \* commands of the video thread: where to seek, or StopCmd

Init == /\ hasAudio \in BOOLEAN /\ loop \in BOOLEAN
        /\ m_VideoState = "Unloaded" /\ m_bFrameAvailable = FALSE
        /\ nodeSeekPending = FALSE /\ nodeEOFPending = FALSE /\ movieTime = 1
        /\ m_bVideoEOF = FALSE /\ m_bAudioEOF = FALSE /\ m_LastVideoFrameTime = -1
        /\ m_bSeekPending = FALSE /\ seekOwner = "nobody"
        /\ vCmdQ = <<>> /\ vMsgQ = <<>> /\ aMsgQ = <<>>
        /\ mainPc = "idle" /\ dest = 1 /\ ret = "idle" /\ want = 1
        /\ avail = "none"
        /\ enginePc = "idle"
        /\ vPc = "done" /\ vMsg = NoMsg /\ aPc = "done" /\ aStop = FALSE
        /\ syncFrame = 1 /\ syncEOFPending = FALSE /\ syncVideoEOF = FALSE
        /\ syncSound = 1 /\ syncAudioEOF = FALSE
        /\ ops = 0

----------------------------------------------------------------------------
(* FFMpegDecoder *)

\* readFrame: the picture and the state after it.  A codec that holds frames
\* back hands out the last one only when it is told that no packet is left.
ReadFrame ==
    IF syncEOFPending
    THEN syncEOFPending' = FALSE /\ syncVideoEOF' = TRUE /\ UNCHANGED syncFrame
    ELSE IF syncFrame <= NumFrames
    THEN /\ syncFrame' = syncFrame + 1
         /\ syncEOFPending' = (HoldsBack /\ syncFrame = NumFrames)
         /\ UNCHANGED syncVideoEOF
    ELSE syncVideoEOF' = TRUE /\ UNCHANGED <<syncFrame, syncEOFPending>>

\* seek begins: the demuxer goes on at the new position.
SyncSeek(d) ==
    /\ syncFrame' = d /\ syncSound' = 1
    /\ UNCHANGED <<syncEOFPending, syncVideoEOF, syncAudioEOF>>

\* The audio thread is in a read that has met no packet: it has taken the end
\* of the file before, and waits in getPacket with m_AudioMutex.
Waiting == aPc = "wait"

\* Nothing but a seek gives it another packet.
EndLost == Waiting /\ syncSound > NumSounds + 1

----------------------------------------------------------------------------
(* VideoDecoderThread, AudioDecoderThread *)

VUnchanged == UNCHANGED <<file, node, flags, seeking, aMsgQ, main, enginePc, athread, ops>>

\* work, when no command is there: a file without audio starts again by
\* itself at its end; with audio the thread naps until main seeks.
VWork ==
    /\ vPc = "work" /\ vCmdQ = <<>>
    /\ IF syncVideoEOF
       THEN ~hasAudio /\ SyncSeek(1) /\ vPc' = "reset" /\ UNCHANGED vMsg
       ELSE /\ ReadFrame
            /\ vMsg' = IF syncVideoEOF' THEN EndOfFile ELSE Frame(syncFrame)
            /\ vPc' = "push"
            /\ UNCHANGED <<syncSound, syncAudioEOF>>
    /\ UNCHANGED <<vCmdQ, vMsgQ>> /\ VUnchanged

VPush ==
    /\ vPc = "push" /\ Len(vMsgQ) < QueueLength
    /\ vMsgQ' = Append(vMsgQ, vMsg)
    /\ vMsg' = NoMsg /\ vPc' = "work"
    /\ UNCHANGED <<sync, vCmdQ>> /\ VUnchanged

\* processCommands: the thread's seek empties the queue first, so that the
\* mark fits.
VCommand ==
    /\ vPc = "work" /\ vCmdQ # <<>>
    /\ vCmdQ' = Tail(vCmdQ)
    /\ IF Head(vCmdQ) = StopCmd
       THEN vPc' = "done" /\ UNCHANGED <<vMsg, vMsgQ, sync>>
       ELSE /\ vMsgQ' = <<>>
            /\ SyncSeek(Head(vCmdQ))
            /\ vMsg' = [type |-> "SEEK_DONE", n |-> Head(vCmdQ)]
            /\ vPc' = "reset"
    /\ VUnchanged

\* Mutant: the end-of-file flag of the video outlives the seek.
SyncReset_KeepEOF ==
    /\ vPc = "reset" /\ ~Waiting
    /\ syncAudioEOF' = FALSE
    /\ vPc' = IF vMsg = NoMsg THEN "work" ELSE "push"
    /\ UNCHANGED <<syncFrame, syncEOFPending, syncVideoEOF, syncSound, vMsg, vCmdQ, vMsgQ>>
    /\ VUnchanged

\* The seek ends, once the audio thread has let m_AudioMutex go: both flags are
\* reset, m_bEOFPending is not.  The audio thread may have read the end of the
\* new position by now.
SyncReset ==
    /\ vPc = "reset" /\ ~Waiting
    /\ syncVideoEOF' = FALSE /\ syncAudioEOF' = FALSE
    /\ vPc' = IF vMsg = NoMsg THEN "work" ELSE "push"
    /\ UNCHANGED <<syncFrame, syncEOFPending, syncSound, vMsg, vCmdQ, vMsgQ>>
    /\ VUnchanged

VideoThread == VWork \/ VPush \/ VCommand \/ SyncReset

AUnchanged == UNCHANGED <<file, node, flags, seeking, vCmdQ, vMsgQ, main, enginePc, vthread, aStop,
                          syncFrame, syncEOFPending, syncVideoEOF, ops>>

\* work: a buffer of sound is read, or what is left before the end; the packet
\* with the end comes once.
AWork ==
    /\ (aPc = "work" /\ ~aStop /\ ~syncAudioEOF) \/ Waiting
    /\ syncSound <= NumSounds + 1
    /\ aPc' = "push"
    /\ syncSound' = syncSound + 1
    /\ syncAudioEOF' = (syncSound > NumSounds)
    /\ UNCHANGED aMsgQ /\ AUnchanged

\* It has come already, but the flag says otherwise: pop(true) waits.
AWait ==
    /\ aPc = "work" /\ ~aStop /\ ~syncAudioEOF
    /\ syncSound > NumSounds + 1
    /\ aPc' = "wait"
    /\ UNCHANGED <<aMsgQ, syncSound, syncAudioEOF>> /\ AUnchanged

\* The flag is read again after the push: a seek may have reset it.
APush ==
    /\ aPc \in {"push", "pushEnd"} /\ Len(aMsgQ) < AudioQueue
    /\ aMsgQ' = Append(aMsgQ, IF aPc = "push" THEN "AUDIO" ELSE "END_OF_FILE")
    /\ aPc' = IF aPc = "push" /\ syncAudioEOF THEN "pushEnd" ELSE "work"
    /\ UNCHANGED <<syncSound, syncAudioEOF>> /\ AUnchanged

\* Main only ever sends stop to this thread when there is video.
AStop ==
    /\ aPc = "work" /\ aStop /\ aPc' = "done"
    /\ UNCHANGED <<aMsgQ, syncSound, syncAudioEOF>> /\ AUnchanged

AudioThread == AWork \/ AWait \/ APush \/ AStop

----------------------------------------------------------------------------
(* The audio engine's thread *)

EngineUnchanged == UNCHANGED <<file, node, vCmdQ, main, vthread, athread, sync, ops>>

Closing == mainPc \in {"closePop", "joinV", "joinA"}

\* mixAudio calls fillAudioBuffer, unless the video has been removed from the
\* sources; m_AudioMutex is the engine's from here to the end of the fill.
FillBegin ==
    /\ enginePc = "idle" /\ hasAudio
    /\ m_VideoState = "Playing" /\ ~m_bAudioEOF
    /\ mainPc # "drain" /\ ~Closing
    /\ enginePc' = "fill"
    /\ UNCHANGED <<flags, seeking, vMsgQ, aMsgQ>> /\ EngineUnchanged

SeekDone == ~m_bSeekPending /\ seekOwner = "nobody"

\* waitForSeekDone begins: m_SeekMutex is kept until the seek is done.
WaitBegin(thread, waits) ==
    /\ waits /\ m_bSeekPending /\ seekOwner = "nobody"
    /\ seekOwner' = thread
    /\ UNCHANGED <<file, node, flags, m_bSeekPending, vCmdQ, vMsgQ, aMsgQ, main, enginePc, vthread,
                   athread, sync, ops>>

EngineWait == WaitBegin("engine", enginePc = "fill")

MainWait == WaitBegin("main", mainPc \in {"render", "renderAgain", "lock", "closePop"})

FillPop ==
    /\ enginePc = "fill" /\ SeekDone
    /\ IF aMsgQ = <<>>
       THEN enginePc' = "idle" /\ UNCHANGED <<aMsgQ, m_bAudioEOF>>
       ELSE /\ aMsgQ' = Tail(aMsgQ)
            /\ IF Head(aMsgQ) = "END_OF_FILE"
               THEN m_bAudioEOF' = TRUE /\ enginePc' = "idle"
               ELSE enginePc' \in {"fill", "idle"} /\ UNCHANGED m_bAudioEOF
    /\ UNCHANGED <<m_bVideoEOF, m_LastVideoFrameTime, seeking, vMsgQ>> /\ EngineUnchanged

\* waitForSeekDone, with m_SeekMutex: all that is no SEEK_DONE is dropped.
WaitPop(owner) ==
    /\ seekOwner = owner /\ vMsgQ # <<>>
    /\ vMsgQ' = Tail(vMsgQ)
    /\ IF Head(vMsgQ).type = "SEEK_DONE"
       THEN /\ m_bSeekPending' = FALSE /\ seekOwner' = "nobody"
            /\ m_LastVideoFrameTime' = Head(vMsgQ).n - 1
       ELSE UNCHANGED <<seeking, m_LastVideoFrameTime>>
    /\ UNCHANGED <<file, node, m_bVideoEOF, m_bAudioEOF, vCmdQ, aMsgQ, main, enginePc,
                   vthread, athread, sync, ops>>

Engine == FillBegin \/ EngineWait \/ FillPop \/ WaitPop("engine")

----------------------------------------------------------------------------
(* The main thread: calls on the node *)

\* open and startDecoding: both threads run, and all flags start afresh but
\* VideoNode's m_bEOFPending.
Load(state) ==
    /\ m_VideoState' = state /\ m_bFrameAvailable' = FALSE /\ nodeSeekPending' = TRUE
    /\ movieTime' = 1
    /\ m_bVideoEOF' = FALSE /\ m_bAudioEOF' = FALSE /\ m_LastVideoFrameTime' = -1
    /\ m_bSeekPending' = FALSE
    /\ vPc' = "work" /\ aPc' = IF hasAudio THEN "work" ELSE "done"
    /\ aStop' = FALSE
    /\ syncFrame' = 1 /\ syncEOFPending' = FALSE /\ syncVideoEOF' = FALSE
    /\ syncSound' = 1 /\ syncAudioEOF' = FALSE
    /\ UNCHANGED <<nodeEOFPending, mainPc, dest, ret, want, avail, vMsg, seekOwner>>

\* play and pause
SetState(state) ==
    /\ mainPc = "idle" /\ ops < MaxOps /\ m_VideoState # state
    /\ ops' = ops + 1
    /\ IF m_VideoState = "Unloaded"
       THEN Load(state)
       ELSE /\ m_VideoState' = state
            /\ UNCHANGED <<m_bFrameAvailable, nodeSeekPending, nodeEOFPending, movieTime, flags,
                           seeking, main, vthread, athread, sync>>
    /\ UNCHANGED <<file, vCmdQ, vMsgQ, aMsgQ, enginePc>>

\* stop: removeSource waits for the audio callback, then the video thread is
\* told to stop.  A frame is taken from it, since it may be stuck on a full queue.
Stop ==
    /\ mainPc = "idle" /\ ops < MaxOps /\ m_VideoState # "Unloaded" /\ enginePc = "idle"
    /\ ops' = ops + 1
    /\ vCmdQ' = Append(vCmdQ, StopCmd)
    /\ mainPc' = "closePop"
    /\ UNCHANGED <<file, node, flags, seeking, vMsgQ, aMsgQ, dest, ret, want, avail, enginePc,
                   vthread, athread, sync>>

ClosePop ==
    /\ mainPc = "closePop" /\ SeekDone
    /\ vMsgQ' = IF vMsgQ = <<>> THEN <<>> ELSE Tail(vMsgQ)
    /\ m_bVideoEOF' = (m_bVideoEOF \/ (vMsgQ # <<>> /\ Head(vMsgQ).type = "END_OF_FILE"))
    /\ mainPc' = "joinV"
    /\ UNCHANGED <<file, node, m_bAudioEOF, m_LastVideoFrameTime, seeking, vCmdQ, aMsgQ,
                   dest, ret, want, avail, enginePc, vthread, athread, sync, ops>>

\* Mutant: one message is taken from the audio thread's queue.
JoinVideo_PopOnce ==
    /\ mainPc = "joinV" /\ vPc = "done"
    /\ aStop' = TRUE
    /\ aMsgQ' = SubSeq(aMsgQ, 2, Len(aMsgQ))
    /\ vMsgQ' = <<>> /\ mainPc' = "joinA"
    /\ UNCHANGED <<file, node, flags, seeking, vCmdQ, dest, ret, want, avail, enginePc,
                   vthread, aPc, sync, ops>>

\* The audio thread may have two messages left to push, its last and the end.
JoinVideo ==
    /\ mainPc = "joinV" /\ vPc = "done"
    /\ aStop' = TRUE
    /\ aMsgQ' = SubSeq(aMsgQ, 3, Len(aMsgQ))
    /\ vMsgQ' = <<>> /\ mainPc' = "joinA"
    /\ UNCHANGED <<file, node, flags, seeking, vCmdQ, dest, ret, want, avail, enginePc,
                   vthread, aPc, sync, ops>>

JoinAudio ==
    /\ mainPc = "joinA" /\ aPc = "done"
    /\ aMsgQ' = <<>> /\ vCmdQ' = <<>>
    /\ m_VideoState' = "Unloaded" /\ mainPc' = "idle"
    /\ UNCHANGED <<file, m_bFrameAvailable, nodeSeekPending, nodeEOFPending, movieTime, flags,
                   seeking, vMsgQ, dest, ret, want, avail, enginePc, vthread, athread, sync, ops>>

(* The main thread: seeks *)

\* seekToTime; a loop takes the same way with ret = "again".
SeekToTime(d) ==
    /\ mainPc = "idle" /\ ops < MaxOps /\ m_VideoState # "Unloaded"
    /\ ops' = ops + 1
    /\ mainPc' = "lock" /\ dest' = d /\ ret' = "idle"
    /\ UNCHANGED <<file, node, flags, seeking, vCmdQ, vMsgQ, aMsgQ, want, avail, enginePc,
                   vthread, athread, sync>>

\* Mutant: a seek under way is not waited for.
SeekLock_NoWait ==
    /\ mainPc = "lock" /\ enginePc = "idle" /\ seekOwner = "nobody"
    /\ m_bVideoEOF' = FALSE /\ m_bAudioEOF' = FALSE /\ m_bSeekPending' = TRUE
    /\ vCmdQ' = Append(vCmdQ, dest)
    /\ mainPc' = "drain"
    /\ UNCHANGED <<file, node, m_LastVideoFrameTime, seekOwner, vMsgQ, aMsgQ, dest, ret, want,
                   avail, enginePc, vthread, athread, sync, ops>>

\* With both mutexes the flags are reset and the command is sent.
SeekLock ==
    /\ mainPc = "lock" /\ SeekDone /\ enginePc = "idle"
    /\ m_bVideoEOF' = FALSE /\ m_bAudioEOF' = FALSE /\ m_bSeekPending' = TRUE
    /\ vCmdQ' = Append(vCmdQ, dest)
    /\ mainPc' = "drain"
    /\ UNCHANGED <<file, node, m_LastVideoFrameTime, seekOwner, vMsgQ, aMsgQ, dest, ret, want,
                   avail, enginePc, vthread, athread, sync, ops>>

\* The end of the decoder's seek; VideoNode::seek then starts its clock anew.
SeekReturn ==
    /\ mainPc' = ret
    /\ IF ret = "idle"
       THEN /\ movieTime' = dest /\ m_bFrameAvailable' = FALSE /\ nodeSeekPending' = TRUE
            /\ dest' = 1
       ELSE UNCHANGED <<movieTime, m_bFrameAvailable, nodeSeekPending, dest>>

\* What is in the queue is dropped, unless the seek is done by then.
SeekDrain ==
    /\ mainPc = "drain"
    /\ IF vMsgQ = <<>>
       THEN SeekReturn /\ UNCHANGED <<vMsgQ, m_bSeekPending, m_LastVideoFrameTime>>
       ELSE /\ vMsgQ' = Tail(vMsgQ)
            /\ IF Head(vMsgQ).type = "SEEK_DONE"
               THEN /\ m_bSeekPending' = FALSE /\ m_LastVideoFrameTime' = Head(vMsgQ).n - 1
                    /\ SeekReturn
               ELSE UNCHANGED <<m_bSeekPending, m_LastVideoFrameTime, mainPc, movieTime,
                                m_bFrameAvailable, nodeSeekPending, dest>>
    /\ UNCHANGED <<file, m_VideoState, nodeEOFPending, m_bVideoEOF, m_bAudioEOF, seekOwner, vCmdQ,
                   aMsgQ, ret, want, avail, enginePc, vthread, athread, sync, ops>>

----------------------------------------------------------------------------
(* The main thread: frames *)

\* The first lines of getBmpsForTime: the last frame is still current, or the
\* end was met.
UsesLast(w) == \/ w = m_LastVideoFrameTime \/ m_LastVideoFrameTime > w + 1
               \/ m_bVideoEOF

\* renderToSurface for time w goes on at pc, unless the last frame will do.
Get(w, pc, otherwise) ==
    /\ want' = w
    /\ IF UsesLast(w)
       THEN avail' = "last" /\ mainPc' = otherwise
       ELSE mainPc' = pc /\ UNCHANGED avail
    /\ UNCHANGED <<file, node, flags, seeking, vCmdQ, vMsgQ, aMsgQ, dest, ret, enginePc,
                   vthread, athread, sync, ops>>

\* preRender: a frame of the player, skip frames of the video after the last.
\* A paused video counts the time up to the pause, with what it stood still.
PreRender(skip) ==
    /\ mainPc = "idle" /\ m_VideoState # "Unloaded"
    /\ m_VideoState = "Paused" => ~m_bFrameAvailable
    /\ Get(IF movieTime + skip > NumFrames THEN NumFrames + 1 ELSE movieTime + skip,
           "render", "rendered")

\* After a loop the end is not tested again.
RenderAgain == mainPc = "again" /\ Get(movieTime, "renderAgain", "final")

Rendered == IF mainPc = "render" THEN "rendered" ELSE "final"

\* The loop of getBmpsForTime: frames that come too late are dropped.
Render ==
    /\ mainPc \in {"render", "renderAgain"} /\ SeekDone
    /\ IF vMsgQ = <<>>
       THEN /\ avail' = "still" /\ mainPc' = Rendered
            /\ UNCHANGED <<vMsgQ, m_bVideoEOF, m_LastVideoFrameTime>>
       ELSE /\ vMsgQ' = Tail(vMsgQ)
            /\ CASE Head(vMsgQ).type = "END_OF_FILE" ->
                       /\ m_bVideoEOF' = TRUE
                       /\ avail' = "still" /\ mainPc' = Rendered
                       /\ UNCHANGED <<m_LastVideoFrameTime>>
                 [] Head(vMsgQ).type = "FRAME" /\ Head(vMsgQ).n >= want ->
                       /\ m_LastVideoFrameTime' = Head(vMsgQ).n
                       /\ avail' = "new" /\ mainPc' = Rendered
                       /\ UNCHANGED m_bVideoEOF
                 [] OTHER -> UNCHANGED <<m_bVideoEOF, m_LastVideoFrameTime, avail,
                                         mainPc>>
    /\ UNCHANGED <<file, node, m_bAudioEOF, seeking, vCmdQ, aMsgQ, dest, ret, want, enginePc,
                   vthread, athread, sync, ops>>

AtEnd == m_bVideoEOF /\ (hasAudio => m_bAudioEOF)

\* renderFrame tests the end: a loop starts at the first frame, with audio by a seek.
AtEndOfFile ==
    /\ mainPc = "rendered" /\ AtEnd
    /\ nodeEOFPending' = TRUE
    /\ IF loop
       THEN /\ movieTime' = 1 /\ m_bFrameAvailable' = FALSE
            /\ m_LastVideoFrameTime' = -1 /\ m_bVideoEOF' = FALSE /\ m_bAudioEOF' = FALSE
            /\ IF hasAudio
               THEN mainPc' = "lock" /\ dest' = 1 /\ ret' = "again"
               ELSE mainPc' = "again" /\ UNCHANGED <<dest, ret>>
            /\ UNCHANGED m_VideoState
       ELSE /\ m_VideoState' = "Paused" /\ mainPc' = "final"
            /\ UNCHANGED <<movieTime, m_bFrameAvailable, flags, dest, ret>>
    /\ UNCHANGED <<file, nodeSeekPending, seeking, vCmdQ, vMsgQ, aMsgQ, want, avail, enginePc,
                   vthread, athread, sync, ops>>

\* The switch of renderFrame, where the time stands still while a seek is
\* pending, and onFrameEnd, whose callback makes its calls from "idle".
FrameEnd ==
    /\ mainPc = "final" \/ (mainPc = "rendered" /\ ~AtEnd)
    /\ m_bFrameAvailable' = (m_bFrameAvailable \/ avail = "new")
    /\ nodeSeekPending' = (nodeSeekPending /\ avail = "still")
    /\ movieTime' = IF avail = "still" /\ nodeSeekPending /\ m_VideoState = "Playing"
                    THEN movieTime ELSE want
    /\ nodeEOFPending' = FALSE
    /\ mainPc' = "idle" /\ avail' = "none" /\ want' = 1 /\ dest' = 1 /\ ret' = "idle"
    /\ UNCHANGED <<file, m_VideoState, flags, seeking, vCmdQ, vMsgQ, aMsgQ, enginePc,
                   vthread, athread, sync, ops>>

----------------------------------------------------------------------------
Calls == \/ \E state \in {"Playing", "Paused"}: SetState(state)
         \/ \E d \in 1..NumFrames: SeekToTime(d)
         \/ Stop

\* What main has begun it goes on with.
Main == \/ ClosePop \/ JoinVideo \/ JoinAudio
        \/ MainWait \/ WaitPop("main") \/ SeekLock \/ SeekDrain
        \/ Render \/ RenderAgain \/ AtEndOfFile \/ FrameEnd

Next == \/ Calls \/ Main
        \/ \E skip \in 0..MaxSkip: PreRender(skip)
        \/ Engine
        \/ VideoThread \/ AudioThread

Spec == Init /\ [][Next]_vars

\* Threads run; sound is played all the time; time passes between the frames
\* of a player that draws without end.
FairSpec == /\ Spec
            /\ WF_vars(Main) /\ WF_vars(Engine) /\ WF_vars(VideoThread) /\ WF_vars(AudioThread)
            /\ SF_vars(PreRender(1))

(* Properties *)

Marks(q) == {i \in 1..Len(q): q[i].type = "SEEK_DONE"}

\* Seeks on their way to the video thread, and SEEK_DONE messages on their way back.
SeeksOut == Cardinality({i \in 1..Len(vCmdQ): vCmdQ[i] # StopCmd})
                + Cardinality(Marks(<<vMsg>>)) + Cardinality(Marks(vMsgQ))

\* AsyncVideoDecoder knows of every seek under way, and there is one at most:
\* getNextBmps, which has no case for SEEK_DONE, never meets one, and what it
\* takes was decoded after the last seek.
SeekDoneAwaited == SeeksOut = IF m_bSeekPending THEN 1 ELSE 0

\* stop() returns, whatever the decoder threads and the audio callback are at,
\* unless the audio thread waits for a packet after the end when it is joined.
Closes == []<>(~Closing \/ (mainPc = "joinA" /\ EndLost))

\* A video that plays on meets its end: it pauses, or the callback is due,
\* unless a seek has made the audio thread forget the end; then only another
\* seek of the script, of which there are MaxOps at most, gets it out of its wait.
PlaysToEnd == []<>(m_VideoState # "Playing" \/ nodeEOFPending \/ EndLost)
=============================================================================

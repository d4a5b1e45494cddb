---------------------------- MODULE Playback_proofs ----------------------------
(***************************************************************************)
(* Theorems about what a script sets going in the player.  Videos          *)
(* (AsyncVideo), for a file of any length, queues of any length and any    *)
(* number of calls: just the answers to seeks that are under way are       *)
(* awaited.  Animations and timers (PlayerFrame), for any numbers of them  *)
(* and whatever scripts do in callbacks: each frame steps each running     *)
(* animation once, and calls each timer that is due once, in order.        *)
(***************************************************************************)
EXTENDS AsyncVideo, PlayerFrame,
        FiniteSetTheorems, SequenceTheorems, WellFoundedInduction, TLAPS

-----------------------------------------------------------------------------
(* Seeking in a video.                                                       *)

Message == [type: {"FRAME", "END_OF_FILE", "SEEK_DONE", "none"}, n: Nat]
SeekCmd == 1 .. NumFrames
DoneMark == { m \in Message : m.type = "SEEK_DONE" }

\* The variables that the seeks pass through.
WellTyped ==
    /\ m_VideoState \in {"Unloaded", "Playing", "Paused"}
    /\ m_bSeekPending \in BOOLEAN
    /\ mainPc \in {"idle", "closePop", "joinV", "joinA", "lock", "drain", "render",
                   "renderAgain", "rendered", "again", "final"}
    /\ dest \in SeekCmd /\ ret \in {"idle", "again"}
    /\ vCmdQ \in Seq(SeekCmd \cup {StopCmd})
    /\ vMsgQ \in Seq(Message) /\ vMsg \in Message
    /\ vPc \in {"work", "reset", "push", "done"}
    /\ syncFrame \in Nat

\* Main calls nothing on an unloaded video but what loads it; it closes one only
\* when the seek under way has come back, and it is unloaded when the video
\* thread has ended; that thread holds a message only while it seeks or pushes it.
Protocol ==
    /\ mainPc # "idle" => m_VideoState # "Unloaded"
    /\ m_VideoState = "Unloaded" \/ mainPc \in {"joinV", "joinA"} => ~m_bSeekPending
    /\ m_VideoState = "Unloaded" \/ mainPc = "joinA" => vPc = "done"
    /\ vPc \notin {"reset", "push"} => vMsg = NoMsg

\* No place, or exactly one, of sequence q holds a member of D.
None(q, D) == \A i \in 1 .. Len(q) : q[i] \notin D
One(q, D) == \E i \in 1 .. Len(q) : /\ q[i] \in D
                                    /\ \A j \in 1 .. Len(q) : j # i => q[j] \notin D

\* The seek that m_bSeekPending stands for is a command on its way to the video
\* thread, the mark in that thread's hands, or the mark on its way back.
SeekInv ==
    IF m_bSeekPending
    THEN \/ One(vCmdQ, SeekCmd) /\ vMsg \notin DoneMark /\ None(vMsgQ, DoneMark)
         \/ None(vCmdQ, SeekCmd) /\ vMsg \in DoneMark /\ None(vMsgQ, DoneMark)
         \/ None(vCmdQ, SeekCmd) /\ vMsg \notin DoneMark /\ One(vMsgQ, DoneMark)
    ELSE None(vCmdQ, SeekCmd) /\ vMsg \notin DoneMark /\ None(vMsgQ, DoneMark)

VideoInv == WellTyped /\ Protocol /\ SeekInv

\* A member of D at the end of a queue or not, and one at its head or not.
LEMMA AppendMarks ==
    ASSUME NEW S, NEW D, NEW q \in Seq(S), NEW e \in S
    PROVE  /\ e \notin D /\ None(q, D) => None(Append(q, e), D)
           /\ e \notin D /\ One(q, D) => One(Append(q, e), D)
           /\ e \in D /\ None(q, D) => One(Append(q, e), D)
<1>1. /\ Len(q) \in Nat /\ Len(Append(q, e)) = Len(q) + 1
      /\ Append(q, e)[Len(q) + 1] = e
      /\ \A i \in 1 .. Len(q) : Append(q, e)[i] = q[i]
  BY AppendProperties
<1>2. e \notin D /\ None(q, D) => None(Append(q, e), D)
  BY <1>1 DEF None
<1>3. ASSUME e \notin D, One(q, D) PROVE One(Append(q, e), D)
  <2>1. PICK i \in 1 .. Len(q) : q[i] \in D /\ \A j \in 1 .. Len(q) : j # i => q[j] \notin D
    BY <1>3 DEF One
  <2>2. i \in 1 .. Len(Append(q, e)) /\ Append(q, e)[i] \in D
    BY <1>1, <2>1
  <2>3. ASSUME NEW j \in 1 .. Len(Append(q, e)), j # i PROVE Append(q, e)[j] \notin D
    BY <1>1, <1>3, <2>1, <2>3
  <2> QED
    BY <2>2, <2>3 DEF One
<1>4. ASSUME e \in D, None(q, D) PROVE One(Append(q, e), D)
  <2>1. Len(q) + 1 \in 1 .. Len(Append(q, e)) /\ Append(q, e)[Len(q) + 1] \in D
    BY <1>1, <1>4
  <2>2. \A j \in 1 .. Len(Append(q, e)) : j # Len(q) + 1 => Append(q, e)[j] \notin D
    BY <1>1, <1>4 DEF None
  <2> QED
    BY <2>1, <2>2 DEF One
<1> QED
  BY <1>2, <1>3, <1>4

LEMMA TailMarks ==
    ASSUME NEW S, NEW D, NEW q \in Seq(S), q # <<>>
    PROVE  /\ Head(q) \in S /\ Tail(q) \in Seq(S)
           /\ None(q, D) => Head(q) \notin D /\ None(Tail(q), D)
           /\ One(q, D) /\ Head(q) \in D => None(Tail(q), D)
           /\ One(q, D) /\ Head(q) \notin D => One(Tail(q), D)
<1>1. /\ Len(q) \in Nat /\ Len(q) >= 1 /\ Head(q) = q[1] /\ Head(q) \in S /\ Tail(q) \in Seq(S)
      /\ Len(Tail(q)) = Len(q) - 1
      /\ \A i \in 1 .. Len(Tail(q)) : Tail(q)[i] = q[i + 1]
  BY HeadTailProperties, EmptySeq
<1>2. \A i \in 1 .. Len(Tail(q)) : i + 1 \in 1 .. Len(q)
  BY <1>1
<1>3. None(q, D) => Head(q) \notin D /\ None(Tail(q), D)
  BY <1>1, <1>2 DEF None
<1>4. One(q, D) /\ Head(q) \in D => None(Tail(q), D)
  <2> SUFFICES ASSUME One(q, D), q[1] \in D, NEW k \in 1 .. Len(Tail(q)) PROVE q[k + 1] \notin D
    BY <1>1 DEF None
  <2>1. PICK i \in 1 .. Len(q) : q[i] \in D /\ \A j \in 1 .. Len(q) : j # i => q[j] \notin D
    BY DEF One
  <2>2. i = 1
    BY <1>1, <2>1
  <2> QED
    BY <1>1, <1>2, <2>1, <2>2
<1>5. ASSUME One(q, D), Head(q) \notin D PROVE One(Tail(q), D)
  <2>1. PICK i \in 1 .. Len(q) : q[i] \in D /\ \A j \in 1 .. Len(q) : j # i => q[j] \notin D
    BY <1>5 DEF One
  <2>2. i # 1 /\ i - 1 \in 1 .. Len(Tail(q)) /\ i - 1 + 1 = i
    BY <1>1, <1>5, <2>1
  <2>3. Tail(q)[i - 1] \in D
    BY <1>1, <2>1, <2>2
  <2>4. ASSUME NEW j \in 1 .. Len(Tail(q)), j # i - 1 PROVE Tail(q)[j] \notin D
    <3>1. j + 1 \in 1 .. Len(q) /\ j + 1 # i
      BY <1>2, <2>4
    <3> QED
      BY <1>1, <2>1, <3>1
  <2> QED
    BY <2>2, <2>3, <2>4 DEF One
<1> QED
  BY <1>1, <1>3, <1>4, <1>5

LEMMA NoneIsNotOne == ASSUME NEW q, NEW D PROVE ~ (None(q, D) /\ One(q, D))
  BY DEF None, One

\* The types of what the seeks pass through.
LEMMA TypeStep == VideoInv /\ [Next]_vars => WellTyped'
<1> SUFFICES ASSUME VideoInv, [Next]_vars PROVE WellTyped'
  OBVIOUS
<1>0. 1 \in SeekCmd /\ NumFrames \in Nat /\ SeekCmd \subseteq Nat
  BY VideoAssumption DEF SeekCmd
<1>a. NoMsg \in Message /\ EndOfFile \in Message /\ \A k \in Nat : Frame(k) \in Message
  BY DEF NoMsg, EndOfFile, Frame, Message
<1> USE DEF VideoInv, WellTyped, StopCmd, file, node, flags, seeking, main, vthread, athread, sync
<1>1. CASE UNCHANGED vars
  BY <1>1 DEF vars
<1>2. ASSUME NEW st \in {"Playing", "Paused"}, SetState(st) PROVE WellTyped'
  <2>1. CASE m_VideoState = "Unloaded"
    <3>1. Load(st) /\ vCmdQ' = vCmdQ /\ vMsgQ' = vMsgQ
      BY <1>2, <2>1 DEF SetState
    <3>2. /\ m_VideoState' = st /\ m_bSeekPending' = FALSE /\ vPc' = "work" /\ syncFrame' = 1
          /\ UNCHANGED <<mainPc, dest, ret, vMsg>>
      BY <3>1 DEF Load
    <3> QED
      BY <3>1, <3>2
  <2>2. CASE m_VideoState # "Unloaded"
    BY <1>2, <2>2 DEF SetState
  <2> QED
    BY <2>1, <2>2
<1>3. ASSUME NEW d \in 1 .. NumFrames, SeekToTime(d) PROVE WellTyped'
  BY <1>3 DEF SeekToTime, SeekCmd
<1>4. CASE Stop
  BY <1>4 DEF Stop
<1>5. CASE ClosePop
  BY <1>5, TailMarks DEF ClosePop
<1>6. CASE JoinVideo
  BY <1>6 DEF JoinVideo
<1>7. CASE JoinAudio
  BY <1>7 DEF JoinAudio
<1>8. CASE MainWait \/ EngineWait
  BY <1>8 DEF MainWait, EngineWait, WaitBegin
<1>9. ASSUME NEW o, WaitPop(o) PROVE WellTyped'
  BY <1>9, TailMarks DEF WaitPop
<1>10. CASE SeekLock
  BY <1>10 DEF SeekLock
<1>11. CASE SeekDrain
  <2>1. mainPc' \in {"drain", "idle", "again"} /\ dest' \in {dest, 1} /\ m_bSeekPending' \in BOOLEAN
    BY <1>11 DEF SeekDrain, SeekReturn
  <2>2. vMsgQ' \in Seq(Message)
    <3>1. vMsgQ' = vMsgQ \/ (vMsgQ # <<>> /\ vMsgQ' = Tail(vMsgQ))
      BY <1>11 DEF SeekDrain
    <3> QED
      BY <3>1, TailMarks
  <2> QED
    BY <1>0, <1>11, <2>1, <2>2 DEF SeekDrain
<1>12. CASE Render
  <2>1. mainPc' \in {"render", "renderAgain", "rendered", "final"}
    BY <1>12 DEF Render, Rendered
  <2>2. vMsgQ' \in Seq(Message)
    <3>1. vMsgQ' = vMsgQ \/ (vMsgQ # <<>> /\ vMsgQ' = Tail(vMsgQ))
      BY <1>12 DEF Render
    <3> QED
      BY <3>1, TailMarks
  <2> QED
    BY <1>12, <2>1, <2>2 DEF Render
<1>13. CASE RenderAgain
  BY <1>13 DEF RenderAgain, Get
<1>14. CASE AtEndOfFile
  <2>1. mainPc' \in {"lock", "again", "final"} /\ dest' \in {dest, 1} /\ ret' \in {ret, "again"}
        /\ m_VideoState' \in {m_VideoState, "Paused"}
    BY <1>14 DEF AtEndOfFile
  <2> QED
    BY <1>0, <1>14, <2>1 DEF AtEndOfFile
<1>15. CASE FrameEnd
  BY <1>0, <1>15 DEF FrameEnd
<1>16. ASSUME NEW k \in 0 .. MaxSkip, PreRender(k) PROVE WellTyped'
  BY <1>16 DEF PreRender, Get
<1>17. CASE FillBegin \/ FillPop
  BY <1>17 DEF FillBegin, FillPop, EngineUnchanged
<1>18. CASE VWork
  <2>1. syncFrame' \in Nat
    BY <1>0, <1>18 DEF VWork, ReadFrame, SyncSeek
  <2>2. vMsg' \in Message /\ vPc' \in {"reset", "push"}
    BY <1>a, <1>18 DEF VWork
  <2> QED
    BY <1>18, <2>1, <2>2 DEF VWork, VUnchanged
<1>19. CASE VPush
  BY <1>a, <1>19 DEF VPush, VUnchanged
<1>20. CASE VCommand
  <2>1. Head(vCmdQ) \in SeekCmd \cup {StopCmd} /\ Tail(vCmdQ) \in Seq(SeekCmd \cup {StopCmd})
    BY <1>20, TailMarks DEF VCommand
  <2>2. CASE Head(vCmdQ) = StopCmd
    BY <1>20, <2>1, <2>2 DEF VCommand, VUnchanged
  <2>3. CASE Head(vCmdQ) # StopCmd
    <3>1. syncFrame' \in Nat /\ vMsg' \in Message /\ vMsgQ' \in Seq(Message)
      <4>1. syncFrame' = Head(vCmdQ) /\ vMsgQ' = <<>>
        BY <1>20, <2>3 DEF VCommand, SyncSeek
      <4>2. vMsg' = [type |-> "SEEK_DONE", n |-> Head(vCmdQ)]
        BY <1>20, <2>3 DEF VCommand
      <4>3. Head(vCmdQ) \in Nat
        <5>1. Head(vCmdQ) \in SeekCmd
          BY <2>1, <2>3
        <5> QED
          BY <1>0, <5>1
      <4> QED
        BY <4>1, <4>2, <4>3 DEF Message
    <3> QED
      BY <1>20, <2>1, <2>3, <3>1 DEF VCommand, VUnchanged
  <2> QED
    BY <2>2, <2>3
<1>21. CASE AudioThread
  BY <1>21 DEF AudioThread, AWork, AWait, APush, AStop, AUnchanged
<1>22. CASE SyncReset
  BY <1>22 DEF SyncReset, VUnchanged
<1> QED
  BY <1>1, <1>2, <1>3, <1>4, <1>5, <1>6, <1>7, <1>8, <1>9, <1>10, <1>11, <1>12, <1>13, <1>14,
     <1>15, <1>16, <1>17, <1>18, <1>19, <1>20, <1>21, <1>22
     DEF Next, Calls, Main, Engine, VideoThread

\* Who may call what, and when a closing video has no seek under way.
LEMMA ProtocolStep == VideoInv /\ [Next]_vars => Protocol'
<1> SUFFICES ASSUME VideoInv, [Next]_vars PROVE Protocol'
  OBVIOUS
<1> USE DEF VideoInv, WellTyped, Protocol, file, node, flags, seeking, main, vthread, athread, sync
<1>1. CASE UNCHANGED vars
  BY <1>1 DEF vars
<1>2. ASSUME NEW st \in {"Playing", "Paused"}, SetState(st) PROVE Protocol'
  <2>1. CASE m_VideoState = "Unloaded"
    <3>1. Load(st)
      BY <1>2, <2>1 DEF SetState
    <3>2. m_VideoState' = st /\ mainPc' = mainPc /\ mainPc = "idle" /\ vMsg' = vMsg /\ vPc' = "work"
      BY <1>2, <3>1 DEF Load, SetState
    <3>3. vMsg = NoMsg
      BY <2>1
    <3> QED
      BY <3>2, <3>3
  <2>2. CASE m_VideoState # "Unloaded"
    BY <1>2, <2>2 DEF SetState
  <2> QED
    BY <2>1, <2>2
<1>3. ASSUME NEW d \in 1 .. NumFrames, SeekToTime(d) PROVE Protocol'
  BY <1>3 DEF SeekToTime
<1>4. CASE Stop
  BY <1>4 DEF Stop
<1>5. CASE ClosePop
  BY <1>5 DEF ClosePop, SeekDone
<1>6. CASE JoinVideo
  BY <1>6 DEF JoinVideo
<1>7. CASE JoinAudio
  BY <1>7 DEF JoinAudio
<1>8. CASE MainWait \/ EngineWait
  BY <1>8 DEF MainWait, EngineWait, WaitBegin
<1>9. ASSUME NEW o, WaitPop(o) PROVE Protocol'
  BY <1>9 DEF WaitPop
<1>10. CASE SeekLock
  BY <1>10 DEF SeekLock
<1>11. CASE SeekDrain
  <2>1. /\ mainPc = "drain" /\ mainPc' \in {"drain", "idle", "again"}
        /\ UNCHANGED <<m_VideoState, vMsg, vPc>>
    BY <1>11 DEF SeekDrain, SeekReturn
  <2> QED
    BY <2>1
<1>12. CASE Render
  <2>1. /\ mainPc \in {"render", "renderAgain"} /\ mainPc' \notin {"joinV", "joinA"}
        /\ UNCHANGED <<m_VideoState, m_bSeekPending, vMsg, vPc>>
    BY <1>12 DEF Render, Rendered
  <2> QED
    BY <2>1
<1>13. CASE RenderAgain
  BY <1>13 DEF RenderAgain, Get
<1>14. CASE AtEndOfFile
  <2>1. /\ mainPc = "rendered" /\ mainPc' \in {"lock", "again", "final"}
        /\ m_VideoState' \in {m_VideoState, "Paused"} /\ UNCHANGED <<m_bSeekPending, vMsg, vPc>>
    BY <1>14 DEF AtEndOfFile
  <2> QED
    BY <2>1
<1>15. CASE FrameEnd
  BY <1>15 DEF FrameEnd
<1>16. ASSUME NEW k \in 0 .. MaxSkip, PreRender(k) PROVE Protocol'
  BY <1>16 DEF PreRender, Get
<1>17. CASE FillBegin \/ FillPop
  BY <1>17 DEF FillBegin, FillPop, EngineUnchanged
<1>18. CASE VWork
  BY <1>18 DEF VWork, VUnchanged
<1>19. CASE VPush
  BY <1>19 DEF VPush, VUnchanged
<1>20. CASE VCommand
  BY <1>20 DEF VCommand, VUnchanged
<1>21. CASE AudioThread
  BY <1>21 DEF AudioThread, AWork, AWait, APush, AStop, AUnchanged
<1>22. CASE SyncReset
  BY <1>22 DEF SyncReset, VUnchanged
<1> QED
  BY <1>1, <1>2, <1>3, <1>4, <1>5, <1>6, <1>7, <1>8, <1>9, <1>10, <1>11, <1>12, <1>13, <1>14,
     <1>15, <1>16, <1>17, <1>18, <1>19, <1>20, <1>21, <1>22
     DEF Next, Calls, Main, Engine, VideoThread

\* A step that moves no seek.
LEMMA SeekKept ==
    ASSUME SeekInv, UNCHANGED <<m_bSeekPending, vCmdQ, vMsgQ, vMsg>>
    PROVE  SeekInv'
  BY DEF SeekInv

\* A message that is no mark leaves the queue; or a mark does, and the seek is
\* done.
LEMMA SeekTaken ==
    ASSUME WellTyped, SeekInv, vMsgQ # <<>>, vMsgQ' = Tail(vMsgQ),
           UNCHANGED <<vCmdQ, vMsg>>,
           m_bSeekPending' = IF Head(vMsgQ).type = "SEEK_DONE" THEN FALSE ELSE m_bSeekPending
    PROVE  SeekInv'
<1>1. /\ Head(vMsgQ) \in Message /\ (Head(vMsgQ).type = "SEEK_DONE" <=> Head(vMsgQ) \in DoneMark)
      /\ None(vMsgQ, DoneMark) => Head(vMsgQ) \notin DoneMark /\ None(Tail(vMsgQ), DoneMark)
      /\ One(vMsgQ, DoneMark) /\ Head(vMsgQ) \in DoneMark => None(Tail(vMsgQ), DoneMark)
      /\ One(vMsgQ, DoneMark) /\ Head(vMsgQ) \notin DoneMark => One(Tail(vMsgQ), DoneMark)
  BY TailMarks DEF WellTyped, DoneMark
<1>2. CASE Head(vMsgQ) \in DoneMark
  <2>1. One(vMsgQ, DoneMark) /\ None(vCmdQ, SeekCmd) /\ vMsg \notin DoneMark
    BY <1>1, <1>2 DEF SeekInv
  <2> QED
    BY <1>1, <1>2, <2>1 DEF SeekInv
<1>3. CASE Head(vMsgQ) \notin DoneMark
  BY <1>1, <1>3 DEF SeekInv
<1> QED
  BY <1>2, <1>3

\* The seek under way is in one place, at every step of every thread.
LEMMA SeekStep == VideoInv /\ [Next]_vars => SeekInv'
<1> SUFFICES ASSUME VideoInv, [Next]_vars PROVE SeekInv'
  OBVIOUS
<1>0. WellTyped /\ Protocol /\ SeekInv
  BY DEF VideoInv
<1>a. NoMsg \notin DoneMark /\ EndOfFile \notin DoneMark /\ \A k : Frame(k) \notin DoneMark
  BY DEF NoMsg, EndOfFile, Frame, DoneMark
<1>b. StopCmd \notin SeekCmd
  BY VideoAssumption DEF SeekCmd, StopCmd
<1>c. None(<<>>, DoneMark) /\ None(<<>>, SeekCmd)
  BY DEF None
<1> USE DEF file, node, flags, seeking, main, vthread, athread, sync
<1>1. CASE UNCHANGED vars
  BY <1>0, <1>1, SeekKept DEF vars
<1>2. ASSUME NEW st \in {"Playing", "Paused"}, SetState(st) PROVE SeekInv'
  <2>1. CASE m_VideoState = "Unloaded"
    <3>1. m_bSeekPending = FALSE
      BY <1>0, <2>1 DEF Protocol, WellTyped
    <3>2. m_bSeekPending' = FALSE /\ UNCHANGED <<vCmdQ, vMsgQ, vMsg>>
      BY <1>2, <2>1 DEF SetState, Load
    <3> QED
      BY <1>0, <3>1, <3>2, SeekKept
  <2>2. CASE m_VideoState # "Unloaded"
    BY <1>0, <1>2, <2>2, SeekKept DEF SetState
  <2> QED
    BY <2>1, <2>2
<1>3. ASSUME NEW d \in 1 .. NumFrames, SeekToTime(d) PROVE SeekInv'
  BY <1>0, <1>3, SeekKept DEF SeekToTime
<1>4. CASE Stop
  <2>1. vCmdQ' = Append(vCmdQ, StopCmd) /\ UNCHANGED <<m_bSeekPending, vMsgQ, vMsg>>
    BY <1>4 DEF Stop
  <2>2. vCmdQ \in Seq(SeekCmd \cup {StopCmd})
    BY <1>0 DEF WellTyped
  <2>3. /\ None(vCmdQ, SeekCmd) => None(vCmdQ', SeekCmd)
        /\ One(vCmdQ, SeekCmd) => One(vCmdQ', SeekCmd)
    BY <1>b, <2>1, <2>2, AppendMarks
  <2> QED
    BY <1>0, <2>1, <2>3 DEF SeekInv
<1>5. CASE ClosePop
  <2>1. m_bSeekPending = FALSE /\ UNCHANGED <<m_bSeekPending, vCmdQ, vMsg>>
    BY <1>0, <1>5 DEF ClosePop, SeekDone, WellTyped
  <2>2. CASE vMsgQ = <<>>
    BY <1>0, <1>5, <2>1, <2>2, SeekKept DEF ClosePop
  <2>3. CASE vMsgQ # <<>>
    <3>1. vMsgQ' = Tail(vMsgQ)
      BY <1>5, <2>3 DEF ClosePop
    <3> QED
      BY <1>0, <2>1, <2>3, <3>1, SeekTaken
  <2> QED
    BY <2>2, <2>3
<1>6. CASE JoinVideo
  BY <1>0, <1>6, <1>c DEF JoinVideo, Protocol, SeekInv
<1>7. CASE JoinAudio
  BY <1>0, <1>7, <1>c DEF JoinAudio, Protocol, SeekInv
<1>8. CASE MainWait \/ EngineWait
  BY <1>0, <1>8, SeekKept DEF MainWait, EngineWait, WaitBegin
<1>9. ASSUME NEW o, WaitPop(o) PROVE SeekInv'
  <2>1. /\ vMsgQ # <<>> /\ vMsgQ' = Tail(vMsgQ) /\ UNCHANGED <<vCmdQ, vMsg>>
        /\ m_bSeekPending' = IF Head(vMsgQ).type = "SEEK_DONE" THEN FALSE ELSE m_bSeekPending
    BY <1>9 DEF WaitPop
  <2> QED
    BY <1>0, <2>1, SeekTaken
<1>10. CASE SeekLock
  <2>1. /\ ~m_bSeekPending /\ m_bSeekPending' = TRUE /\ vCmdQ' = Append(vCmdQ, dest)
        /\ UNCHANGED <<vMsgQ, vMsg>>
    BY <1>10 DEF SeekLock, SeekDone
  <2>2. vCmdQ \in Seq(SeekCmd \cup {StopCmd}) /\ dest \in SeekCmd
    BY <1>0 DEF WellTyped
  <2>3. None(vCmdQ, SeekCmd) => One(vCmdQ', SeekCmd)
    BY <2>1, <2>2, AppendMarks
  <2> QED
    BY <1>0, <2>1, <2>3 DEF SeekInv
<1>11. CASE SeekDrain
  <2>1. CASE vMsgQ = <<>>
    BY <1>0, <1>11, <2>1, SeekKept DEF SeekDrain
  <2>2. CASE vMsgQ # <<>>
    <3>1. /\ vMsgQ' = Tail(vMsgQ) /\ UNCHANGED <<vCmdQ, vMsg>>
          /\ m_bSeekPending' = IF Head(vMsgQ).type = "SEEK_DONE" THEN FALSE ELSE m_bSeekPending
      BY <1>11, <2>2 DEF SeekDrain
    <3> QED
      BY <1>0, <2>2, <3>1, SeekTaken
  <2> QED
    BY <2>1, <2>2
<1>12. CASE Render
  <2>1. m_bSeekPending = FALSE /\ UNCHANGED <<m_bSeekPending, vCmdQ, vMsg>>
    BY <1>0, <1>12 DEF Render, SeekDone, WellTyped
  <2>2. CASE vMsgQ = <<>>
    BY <1>0, <1>12, <2>1, <2>2, SeekKept DEF Render
  <2>3. CASE vMsgQ # <<>>
    <3>1. vMsgQ' = Tail(vMsgQ)
      BY <1>12, <2>3 DEF Render
    <3> QED
      BY <1>0, <2>1, <2>3, <3>1, SeekTaken
  <2> QED
    BY <2>2, <2>3
<1>13. CASE RenderAgain
  BY <1>0, <1>13, SeekKept DEF RenderAgain, Get
<1>14. CASE AtEndOfFile
  BY <1>0, <1>14, SeekKept DEF AtEndOfFile
<1>15. CASE FrameEnd
  BY <1>0, <1>15, SeekKept DEF FrameEnd
<1>16. ASSUME NEW k \in 0 .. MaxSkip, PreRender(k) PROVE SeekInv'
  BY <1>0, <1>16, SeekKept DEF PreRender, Get
<1>17. CASE FillBegin \/ FillPop
  BY <1>0, <1>17, SeekKept DEF FillBegin, FillPop, EngineUnchanged
<1>18. CASE VWork
  <2>1. vMsg' \notin DoneMark /\ vMsg \notin DoneMark
    BY <1>0, <1>a, <1>18 DEF VWork, Protocol
  <2>2. UNCHANGED <<m_bSeekPending, vCmdQ, vMsgQ>>
    BY <1>18 DEF VWork, VUnchanged
  <2> QED
    BY <1>0, <2>1, <2>2 DEF SeekInv
<1>19. CASE VPush
  <2>1. vMsgQ' = Append(vMsgQ, vMsg) /\ vMsg' = NoMsg /\ UNCHANGED <<m_bSeekPending, vCmdQ>>
    BY <1>19 DEF VPush, VUnchanged
  <2>2. vMsgQ \in Seq(Message) /\ vMsg \in Message
    BY <1>0 DEF WellTyped
  <2>3. /\ vMsg \notin DoneMark /\ None(vMsgQ, DoneMark) => None(vMsgQ', DoneMark)
        /\ vMsg \notin DoneMark /\ One(vMsgQ, DoneMark) => One(vMsgQ', DoneMark)
        /\ vMsg \in DoneMark /\ None(vMsgQ, DoneMark) => One(vMsgQ', DoneMark)
    BY <2>1, <2>2, AppendMarks
  <2> QED
    BY <1>0, <1>a, <2>1, <2>3 DEF SeekInv
<1>20. CASE VCommand
  <2>1. /\ vCmdQ # <<>> /\ vCmdQ' = Tail(vCmdQ)
        /\ vMsg \notin DoneMark /\ m_bSeekPending' = m_bSeekPending
    BY <1>0, <1>a, <1>20 DEF VCommand, VUnchanged, Protocol
  <2>2. /\ Head(vCmdQ) \in SeekCmd \cup {StopCmd}
        /\ None(vCmdQ, SeekCmd) => Head(vCmdQ) \notin SeekCmd /\ None(vCmdQ', SeekCmd)
        /\ One(vCmdQ, SeekCmd) /\ Head(vCmdQ) \in SeekCmd => None(vCmdQ', SeekCmd)
        /\ One(vCmdQ, SeekCmd) /\ Head(vCmdQ) \notin SeekCmd => One(vCmdQ', SeekCmd)
    BY <1>0, <2>1, TailMarks DEF WellTyped
  <2>3. CASE Head(vCmdQ) = StopCmd
    BY <1>0, <1>b, <1>20, <2>1, <2>2, <2>3 DEF VCommand, SeekInv
  <2>4. CASE Head(vCmdQ) # StopCmd
    <3>1. vMsgQ' = <<>> /\ vMsg' = [type |-> "SEEK_DONE", n |-> Head(vCmdQ)]
      BY <1>20, <2>4 DEF VCommand
    <3>2. Head(vCmdQ) \in SeekCmd /\ Head(vCmdQ) \in Nat
      BY <2>2, <2>4, VideoAssumption DEF SeekCmd
    <3>3. vMsg' \in DoneMark
      BY <3>1, <3>2 DEF DoneMark, Message
    <3> QED
      BY <1>0, <1>c, <2>1, <2>2, <3>1, <3>2, <3>3 DEF SeekInv
  <2> QED
    BY <2>3, <2>4
<1>21. CASE AudioThread
  BY <1>0, <1>21, SeekKept DEF AudioThread, AWork, AWait, APush, AStop, AUnchanged
<1>22. CASE SyncReset
  BY <1>0, <1>22, SeekKept DEF SyncReset, VUnchanged
<1> QED
  BY <1>1, <1>2, <1>3, <1>4, <1>5, <1>6, <1>7, <1>8, <1>9, <1>10, <1>11, <1>12, <1>13, <1>14,
     <1>15, <1>16, <1>17, <1>18, <1>19, <1>20, <1>21, <1>22
     DEF Next, Calls, Main, Engine, VideoThread

\* The three counts of SeeksOut, from SeekInv.
LEMMA CountNone ==
    ASSUME NEW q, NEW D, None(q, D)
    PROVE  Cardinality({ i \in 1 .. Len(q) : q[i] \in D }) = 0
<1>1. { i \in 1 .. Len(q) : q[i] \in D } = {}
  BY DEF None
<1> QED
  BY <1>1, FS_EmptySet

LEMMA CountOne ==
    ASSUME NEW q, NEW D, One(q, D)
    PROVE  Cardinality({ i \in 1 .. Len(q) : q[i] \in D }) = 1
<1>1. PICK i \in 1 .. Len(q) : q[i] \in D /\ \A j \in 1 .. Len(q) : j # i => q[j] \notin D
  BY DEF One
<1>2. { j \in 1 .. Len(q) : q[j] \in D } = {i}
  BY <1>1
<1> QED
  BY <1>2, FS_Singleton

LEMMA SeekInvCounts == VideoInv => SeekDoneAwaited
<1> SUFFICES ASSUME VideoInv PROVE SeekDoneAwaited
  OBVIOUS
<1>0. WellTyped /\ SeekInv
  BY DEF VideoInv
<1> DEFINE Cmds == { i \in 1 .. Len(vCmdQ) : vCmdQ[i] # StopCmd }
<1>1. Cmds = { i \in 1 .. Len(vCmdQ) : vCmdQ[i] \in SeekCmd }
  <2>1. \A i \in 1 .. Len(vCmdQ) : vCmdQ[i] \in SeekCmd \cup {StopCmd}
    BY <1>0 DEF WellTyped
  <2>2. StopCmd \notin SeekCmd
    BY VideoAssumption DEF SeekCmd, StopCmd
  <2> QED
    BY <2>1, <2>2
<1>2. Marks(vMsgQ) = { i \in 1 .. Len(vMsgQ) : vMsgQ[i] \in DoneMark }
  <2>1. \A i \in 1 .. Len(vMsgQ) : vMsgQ[i] \in Message
    BY <1>0 DEF WellTyped
  <2> QED
    BY <2>1 DEF Marks, DoneMark
<1>3. vMsg \in DoneMark => Marks(<<vMsg>>) = {1}
  BY DEF Marks, DoneMark
<1>4. vMsg \notin DoneMark => Marks(<<vMsg>>) = {}
  BY <1>0 DEF Marks, DoneMark, WellTyped
<1>5. Cardinality(Marks(<<vMsg>>)) = IF vMsg \in DoneMark THEN 1 ELSE 0
  BY <1>3, <1>4, FS_Singleton, FS_EmptySet
<1>6. /\ None(vCmdQ, SeekCmd) => Cardinality(Cmds) = 0
      /\ One(vCmdQ, SeekCmd) => Cardinality(Cmds) = 1
  BY <1>1, CountNone, CountOne
<1>7. /\ None(vMsgQ, DoneMark) => Cardinality(Marks(vMsgQ)) = 0
      /\ One(vMsgQ, DoneMark) => Cardinality(Marks(vMsgQ)) = 1
  BY <1>2, CountNone, CountOne
<1>8. SeeksOut = Cardinality(Cmds) + Cardinality(Marks(<<vMsg>>)) + Cardinality(Marks(vMsgQ))
  BY DEF SeeksOut
<1> HIDE DEF Cmds
<1> QED
  BY <1>0, <1>5, <1>6, <1>7, <1>8 DEF SeekInv, SeekDoneAwaited

\* AsyncVideoDecoder knows of every seek under way and there is one at most,
\* whoever calls what when: getNextBmps never meets a SEEK_DONE.
THEOREM SeekDoneAwaitedAlways == Spec => []SeekDoneAwaited
<1>1. Init => VideoInv
  <2> SUFFICES ASSUME Init PROVE VideoInv
    OBVIOUS
  <2>1. 1 \in SeekCmd
    BY VideoAssumption DEF SeekCmd
  <2>2. WellTyped
    <3>1. NoMsg \in Message
      BY DEF NoMsg, Message
    <3>2. vCmdQ \in Seq(SeekCmd \cup {StopCmd}) /\ vMsgQ \in Seq(Message)
      BY DEF Init
    <3> QED
      BY <2>1, <3>1, <3>2 DEF Init, WellTyped
  <2>3. Protocol
    BY DEF Init, Protocol
  <2>4. SeekInv
    BY DEF Init, SeekInv, None, DoneMark, NoMsg
  <2> QED
    BY <2>2, <2>3, <2>4 DEF VideoInv
<1>2. VideoInv /\ [Next]_vars => VideoInv'
  BY TypeStep, ProtocolStep, SeekStep DEF VideoInv
<1> QED
  BY <1>1, <1>2, SeekInvCounts, PTL DEF Spec

-----------------------------------------------------------------------------
(* The animations and the signal that steps them.                            *)

USE PlayerFrameAssumption


(* The places of the signal's list whose animations run: all of it, but for  *)
(* that of the listener being called, which has stopped.                     *)
Places == (1..Len(m_Listeners)) \ (IF phase = "listener" THEN {it} ELSE {})

(* The list holds each running animation once, and only these; the listener  *)
(* that has stopped is erased after its call.                                *)
SignalInv ==
  /\ phase \in Phases
  /\ m_Listeners \in Seq(Anims) /\ it \in 1..(Len(m_Listeners) + 1)
  /\ m_bRunning \subseteq Anims
  /\ m_bKillCurrentListener \in BOOLEAN /\ (m_bKillCurrentListener <=> phase = "listener")
  /\ phase \in {"off", "timers", "timer", "events"} => m_pCurrentListener = NoAnim /\ it = 1
  /\ phase = "off" => m_Listeners = <<>>
  /\ phase = "listener" => it <= Len(m_Listeners) /\ m_pCurrentListener = m_Listeners[it]
  /\ \A i \in Places : m_Listeners[i] \in m_bRunning
  /\ \A a \in m_bRunning : \E i \in Places : m_Listeners[i] = a
  /\ \A i, j \in Places : m_Listeners[i] = m_Listeners[j] => i = j

LEMMA RemoveFacts ==
  ASSUME NEW S, NEW s \in Seq(S), NEW i \in 1 .. Len(s)
  PROVE  /\ RemoveAt(s, i) \in Seq(S) /\ Len(RemoveAt(s, i)) = Len(s) - 1
         /\ \A j \in 1 .. Len(s) - 1 : RemoveAt(s, i)[j] = IF j < i THEN s[j] ELSE s[j + 1]
  <1> DEFINE a == SubSeq(s, 1, i - 1)
             b == SubSeq(s, i + 1, Len(s))
  <1>0. Len(s) \in Nat /\ \A j \in 1 .. Len(s) : s[j] \in S
    BY ElementOfSeq
  <1>1. a \in Seq(S) /\ Len(a) = i - 1 /\ \A j \in 1 .. i - 1 : a[j] = s[j]
    BY <1>0, SubSeqProperties
  <1>2. b \in Seq(S) /\ Len(b) = Len(s) - i /\ \A j \in 1 .. Len(s) - i : b[j] = s[i + j]
    BY <1>0, SubSeqProperties
  <1>3. RemoveAt(s, i) = a \o b
    BY DEF RemoveAt
  <1> HIDE DEF a, b
  <1>4. /\ a \o b \in Seq(S) /\ Len(a \o b) = Len(a) + Len(b)
        /\ \A j \in 1 .. Len(a) + Len(b) : (a \o b)[j] = IF j <= Len(a) THEN a[j]
                                                       ELSE b[j - Len(a)]
    BY <1>1, <1>2, ConcatProperties
  <1>5. ASSUME NEW j \in 1 .. Len(s) - 1
        PROVE  (a \o b)[j] = IF j < i THEN s[j] ELSE s[j + 1]
    <2>1. CASE j < i
      BY <1>0, <1>1, <1>2, <1>4, <2>1
    <2>2. CASE ~(j < i)
      <3>1. j - Len(a) \in 1 .. Len(s) - i /\ i + (j - Len(a)) = j + 1 /\ ~(j <= Len(a))
        BY <1>0, <1>1, <2>2
      <3>2. (a \o b)[j] = b[j - Len(a)]
        BY <1>0, <1>1, <1>2, <1>4, <3>1
      <3> QED BY <1>2, <2>2, <3>1, <3>2
    <2> QED BY <2>1, <2>2
  <1>6. Len(a) + Len(b) = Len(s) - 1
    BY <1>0, <1>1, <1>2
  <1> QED BY <1>3, <1>4, <1>5, <1>6, Zenon

LEMMA InsertFacts ==
  ASSUME NEW S, NEW s \in Seq(S), NEW i \in 1 .. Len(s), NEW e \in S
  PROVE  /\ InsertAt(s, i, e) \in Seq(S) /\ Len(InsertAt(s, i, e)) = Len(s) + 1
         /\ \A j \in 1 .. Len(s) + 1 :
               InsertAt(s, i, e)[j] = IF j < i THEN s[j] ELSE IF j = i THEN e ELSE s[j - 1]
  <1> DEFINE a == SubSeq(s, 1, i - 1)
             m == <<e>>
             b == SubSeq(s, i, Len(s))
  <1>0. Len(s) \in Nat /\ \A j \in 1 .. Len(s) : s[j] \in S
    BY ElementOfSeq
  <1>1. a \in Seq(S) /\ Len(a) = i - 1 /\ \A j \in 1 .. i - 1 : a[j] = s[j]
    BY <1>0, SubSeqProperties
  <1>2. /\ b \in Seq(S) /\ Len(b) = Len(s) - i + 1
        /\ \A j \in 1 .. Len(s) - i + 1 : b[j] = s[i + j - 1]
    BY <1>0, SubSeqProperties
  <1>3. m \in Seq(S) /\ Len(m) = 1 /\ m[1] = e
    OBVIOUS
  <1>4. InsertAt(s, i, e) = a \o m \o b
    BY DEF InsertAt
  <1> HIDE DEF a, b, m
  <1> DEFINE c == a \o m
  <1>5. c \in Seq(S) /\ Len(c) = i /\ \A j \in 1 .. i : c[j] = IF j < i THEN s[j] ELSE e
    <2>1. /\ a \o m \in Seq(S) /\ Len(a \o m) = Len(a) + Len(m)
          /\ \A j \in 1 .. Len(a) + Len(m) : (a \o m)[j] = IF j <= Len(a) THEN a[j]
                                                         ELSE m[j - Len(a)]
      BY <1>1, <1>3, ConcatProperties
    <2>2. ASSUME NEW j \in 1 .. i PROVE (a \o m)[j] = IF j < i THEN s[j] ELSE e
      <3>1. CASE j < i
        BY <1>1, <1>3, <2>1, <3>1
      <3>2. CASE j = i
        <4>1. j - Len(a) = 1 /\ ~(j <= Len(a)) /\ j \in 1 .. Len(a) + Len(m) /\ ~(j < i)
          BY <1>1, <1>3, <3>2
        <4>2. (a \o m)[j] = m[1]
          BY <2>1, <4>1
        <4> QED BY <1>3, <4>1, <4>2
      <3>3. j < i \/ j = i
        BY <1>0
      <3> QED BY <3>1, <3>2, <3>3, Zenon
    <2> QED BY <1>1, <1>3, <2>1, <2>2
  <1> HIDE DEF c
  <1>6. /\ c \o b \in Seq(S) /\ Len(c \o b) = Len(c) + Len(b)
        /\ \A j \in 1 .. Len(c) + Len(b) : (c \o b)[j] = IF j <= Len(c) THEN c[j]
                                                       ELSE b[j - Len(c)]
    BY <1>2, <1>5, ConcatProperties
  <1>7. ASSUME NEW j \in 1 .. Len(s) + 1
        PROVE  (c \o b)[j] = IF j < i THEN s[j] ELSE IF j = i THEN e ELSE s[j - 1]
    <2>1. CASE j <= i
      <3>1. j \in 1 .. i /\ j \in 1 .. Len(c) + Len(b) /\ j <= Len(c) /\ (j < i \/ j = i)
        BY <1>0, <1>2, <1>5, <2>1
      <3>2. (c \o b)[j] = c[j]
        BY <1>6, <3>1
      <3> QED BY <1>5, <3>1, <3>2
    <2>2. CASE ~(j <= i)
      <3>1. j - Len(c) \in 1 .. Len(s) - i + 1 /\ i + (j - Len(c)) - 1 = j - 1 /\ ~(j <= Len(c))
        BY <1>0, <1>5, <2>2
      <3>2. (c \o b)[j] = b[j - Len(c)]
        BY <1>0, <1>2, <1>5, <1>6, <3>1
      <3>3. b[j - Len(c)] = s[j - 1]
        BY <1>2, <3>1
      <3>4. ~(j < i) /\ j # i
        BY <1>0, <2>2
      <3> QED BY <3>2, <3>3, <3>4
    <2> QED BY <2>1, <2>2
  <1> QED BY <1>0, <1>2, <1>4, <1>5, <1>6, <1>7 DEF c

LEMMA PrependFacts ==
  ASSUME NEW S, NEW s \in Seq(S), NEW e \in S
  PROVE  /\ <<e>> \o s \in Seq(S) /\ Len(<<e>> \o s) = Len(s) + 1
         /\ \A j \in 1 .. Len(s) + 1 : (<<e>> \o s)[j] = IF j = 1 THEN e ELSE s[j - 1]
  <1> DEFINE m == <<e>>
  <1>1. m \in Seq(S) /\ Len(m) = 1 /\ m[1] = e /\ Len(s) \in Nat
    OBVIOUS
  <1> HIDE DEF m
  <1>2. /\ m \o s \in Seq(S) /\ Len(m \o s) = Len(m) + Len(s)
        /\ \A j \in 1 .. Len(m) + Len(s) : (m \o s)[j] = IF j <= Len(m) THEN m[j]
                                                       ELSE s[j - Len(m)]
    BY <1>1, ConcatProperties
  <1>3. ASSUME NEW j \in 1 .. Len(s) + 1 PROVE (m \o s)[j] = IF j = 1 THEN e ELSE s[j - 1]
    BY <1>1, <1>2
  <1> QED BY <1>1, <1>2, <1>3 DEF m

(* What is from place m on.                                                  *)
LEMMA RestFacts ==
  ASSUME NEW S, NEW s \in Seq(S), NEW m \in Nat \ {0}
  PROVE  ToSet(SubSeq(s, m, Len(s))) = {s[i] : i \in m .. Len(s)}
  <1> DEFINE b == SubSeq(s, m, Len(s))
  <1>0. Len(s) \in Nat /\ \A j \in 1 .. Len(s) : s[j] \in S
    BY ElementOfSeq
  <1>1. /\ b \in Seq(S) /\ Len(b) = IF m <= Len(s) THEN Len(s) - m + 1 ELSE 0
        /\ \A j \in 1 .. Len(s) - m + 1 : b[j] = s[m + j - 1]
    BY <1>0, SubSeqProperties
  <1> HIDE DEF b
  <1>2. ASSUME NEW i \in m .. Len(s) PROVE \E j \in 1 .. Len(b) : b[j] = s[i]
    <2>1. i - m + 1 \in 1 .. Len(s) - m + 1 /\ m + (i - m + 1) - 1 = i /\ m <= Len(s)
      BY <1>0
    <2> QED BY <1>1, <2>1
  <1>3. ASSUME NEW j \in 1 .. Len(b) PROVE \E i \in m .. Len(s) : b[j] = s[i]
    <2>1. m <= Len(s) /\ j \in 1 .. Len(s) - m + 1 /\ m + j - 1 \in m .. Len(s)
      BY <1>0, <1>1
    <2> QED BY <1>1, <2>1
  <1>4. DOMAIN b = 1 .. Len(b)
    BY <1>1
  <1> QED BY <1>2, <1>3, <1>4 DEF ToSet, b

-----------------------------------------------------------------------------
(* The signal.                                                               *)

LEMMA SignalInit == FrameInit => SignalInv
  <1> SUFFICES ASSUME FrameInit PROVE SignalInv
    OBVIOUS
  <1>1. Len(m_Listeners) = 0 /\ m_Listeners \in Seq(Anims)
    BY DEF FrameInit
  <1>2. Places = {} /\ it = 1 /\ it \in 1 .. (Len(m_Listeners) + 1) /\ m_bRunning = {}
    BY <1>1 DEF FrameInit, Places
  <1>3. /\ phase = "off" /\ m_pCurrentListener = NoAnim /\ m_Listeners = <<>>
        /\ m_bKillCurrentListener = FALSE
    BY DEF FrameInit
  <1> QED BY <1>1, <1>2, <1>3 DEF SignalInv, Phases

(* The running animation that is not being called stands in one place.       *)
LEMMA PlaceOf ==
  ASSUME SignalInv, NEW a \in m_bRunning, phase = "listener" => a # m_pCurrentListener
  PROVE  /\ IndexOf(a) \in Places /\ m_Listeners[IndexOf(a)] = a
         /\ IndexOf(a) \in 1 .. Len(m_Listeners)
  <1>1. PICK i \in Places : m_Listeners[i] = a
    BY DEF SignalInv
  <1>2. i \in 1 .. Len(m_Listeners) /\ Len(m_Listeners) \in Nat
    BY DEF SignalInv, Places
  <1>3. \A j \in 1 .. Len(m_Listeners) : m_Listeners[j] = a => j = i
    BY <1>1, <1>2 DEF SignalInv, Places
  <1>4. \A j \in 1 .. (i - 1) : m_Listeners[j] # a
    BY <1>2, <1>3
  <1>5. m_Listeners[IndexOf(a)] = a /\ IndexOf(a) \in 1 .. Len(m_Listeners)
    <2> DEFINE P(k) == m_Listeners[k] = a /\ \A j \in 1 .. (k - 1) : m_Listeners[j] # a
    <2>1. P(i)
      BY <1>1, <1>4
    <2>2. IndexOf(a) = CHOOSE k \in 1 .. Len(m_Listeners) : P(k)
      BY DEF IndexOf
    <2>3. P(IndexOf(a)) /\ IndexOf(a) \in 1 .. Len(m_Listeners)
      <3> HIDE DEF P
      <3> QED BY <1>2, <2>1, <2>2
    <2> QED BY <2>3
  <1> QED BY <1>1, <1>3, <1>5

(* The animations that are still to take their step, by their places.        *)
Rest == IF phase = "signal" THEN it .. Len(m_Listeners)
        ELSE IF phase = "listener" THEN (it + 1) .. Len(m_Listeners) ELSE {}

LEMMA OwedIs ==
  /\ m_Listeners \in Seq(Anims) /\ it \in Nat \ {0} => Owed = {m_Listeners[i] : i \in Rest}
  /\ m_Listeners' \in Seq(Anims) /\ it' \in Nat \ {0}
        => Owed' = {m_Listeners'[i] : i \in Rest'}
  <1>1. ASSUME NEW s \in Seq(Anims), NEW k \in Nat \ {0}
        PROVE  /\ ToSet(SubSeq(s, k, Len(s))) = {s[i] : i \in k .. Len(s)}
               /\ ToSet(SubSeq(s, k + 1, Len(s))) = {s[i] : i \in (k + 1) .. Len(s)}
    <2>1. k + 1 \in Nat \ {0}
      OBVIOUS
    <2> QED BY <2>1, RestFacts
  <1>2. ASSUME m_Listeners \in Seq(Anims), it \in Nat \ {0}
        PROVE  Owed = {m_Listeners[i] : i \in Rest}
    BY <1>1, <1>2 DEF Owed, Rest
  <1>3. ASSUME m_Listeners' \in Seq(Anims), it' \in Nat \ {0}
        PROVE  Owed' = {m_Listeners'[i] : i \in Rest'}
    BY <1>1, <1>3 DEF Owed, Rest
  <1> QED BY <1>2, <1>3

SignalSame == UNCHANGED <<signalVars, m_bRunning, starting>>

LEMMA QuietSignal ==
  ASSUME SignalInv, SignalSame,
         phase' = phase \/ {phase, phase'} \subseteq {"timers", "timer", "events"}
  PROVE  SignalInv' /\ UNCHANGED <<m_bRunning, Owed, starting>>
  <1>1. Places' = Places
    BY DEF Places, SignalSame, signalVars
  <1>2. SignalInv'
    BY <1>1 DEF SignalInv, SignalSame, signalVars, Phases
  <1>3. Owed' = Owed
    BY DEF Owed, SignalSame, signalVars
  <1> QED BY <1>2, <1>3 DEF SignalSame

(* The list is empty when nothing is played.                                 *)
LEMMA EmptySignal ==
  ASSUME m_Listeners' = <<>>, it' = 1, m_bRunning' = {}, phase' \in {"off", "signal"},
         phase' = "off" => m_pCurrentListener' = NoAnim, m_bKillCurrentListener' = FALSE
  PROVE  SignalInv' /\ Owed' = {}
  <1>1. Len(m_Listeners') = 0 /\ m_Listeners' \in Seq(Anims)
    OBVIOUS
  <1>2. Places' = {} /\ Rest' = {} /\ it' \in 1 .. (Len(m_Listeners') + 1)
    BY <1>1 DEF Places, Rest
  <1>3. SignalInv'
    BY <1>1, <1>2 DEF SignalInv, Phases
  <1>4. Owed' = {}
    BY <1>1, <1>2, OwedIs
  <1> QED BY <1>3, <1>4

LEMMA StartStep ==
  ASSUME SignalInv, NEW a \in Anims, StartAnim(a)
  PROVE  SignalInv' /\ Animation!StartAnim(a)
  <1> DEFINE n == Len(m_Listeners)
  <1>1. /\ phase' = phase /\ it' = it /\ UNCHANGED <<m_pCurrentListener, m_bKillCurrentListener>>
        /\ phase \in {"timer", "events", "listener"} /\ a \notin m_bRunning
        /\ m_bRunning' = m_bRunning \cup {a} /\ m_Listeners' = Append(m_Listeners, a)
        /\ starting' = Append(starting, a)
    BY DEF StartAnim
  <1>2. /\ m_Listeners \in Seq(Anims) /\ n \in Nat /\ it \in 1 .. (n + 1)
        /\ m_bRunning \subseteq Anims /\ (phase = "listener" => it <= n)
    BY DEF SignalInv
  <1>3. /\ m_Listeners' \in Seq(Anims) /\ Len(m_Listeners') = n + 1
        /\ m_Listeners'[n + 1] = a /\ \A i \in 1 .. n : m_Listeners'[i] = m_Listeners[i]
    BY <1>1, <1>2, AppendProperties
  <1>4. Places' = Places \cup {n + 1} /\ Places \subseteq 1 .. n
    BY <1>1, <1>2, <1>3 DEF Places
  <1> HIDE DEF n
  <1>5. \A i \in Places : m_Listeners'[i] = m_Listeners[i] /\ m_Listeners[i] \in m_bRunning
    BY <1>3, <1>4 DEF SignalInv
  <1>6. /\ \A i \in Places' : m_Listeners'[i] \in m_bRunning'
        /\ \A i, j \in Places' : m_Listeners'[i] = m_Listeners'[j] => i = j
        /\ \A b \in m_bRunning' : \E i \in Places' : m_Listeners'[i] = b
    <2>1. \A i \in Places' : i = n + 1 \/ i \in Places
      BY <1>4
    <2>2. \A i, j \in Places : m_Listeners[i] = m_Listeners[j] => i = j
      BY DEF SignalInv
    <2>3. \A b \in m_bRunning : \E i \in Places : m_Listeners[i] = b
      BY DEF SignalInv
    <2>4. \A i \in Places' : m_Listeners'[i] \in m_bRunning'
      BY <1>1, <1>3, <1>5, <2>1
    <2>5. ASSUME NEW i \in Places', NEW j \in Places', m_Listeners'[i] = m_Listeners'[j]
          PROVE  i = j
      <3>1. \A k \in Places : m_Listeners'[k] # m_Listeners'[n + 1]
        BY <1>1, <1>3, <1>5
      <3>2. CASE i = n + 1
        BY <2>1, <2>5, <3>1, <3>2
      <3>3. CASE i \in Places
        <4>1. j \in Places
          BY <2>1, <2>5, <3>1, <3>3
        <4> QED BY <1>5, <2>2, <2>5, <3>3, <4>1
      <3> QED BY <2>1, <3>2, <3>3
    <2>6. \A b \in m_bRunning' : \E i \in Places' : m_Listeners'[i] = b
      BY <1>1, <1>3, <1>4, <1>5, <2>3
    <2> QED BY <2>4, <2>5, <2>6
  <1>7. SignalInv'
    <2>1. it' \in 1 .. (Len(m_Listeners') + 1) /\ (phase' = "listener" => it' <= Len(m_Listeners'))
      BY <1>1, <1>2, <1>3 DEF n
    <2>2. phase' = "listener" => m_pCurrentListener' = m_Listeners'[it']
      BY <1>1, <1>2, <1>3 DEF SignalInv, n
    <2>3. m_bRunning' \subseteq Anims
      BY <1>1, <1>2
    <2> QED BY <1>1, <1>3, <1>6, <2>1, <2>2, <2>3 DEF SignalInv, Phases
  <1>8. Owed' \in {Owed, Owed \cup {a}}
    <2>1. it \in Nat \ {0} /\ it' \in Nat \ {0}
      BY <1>1, <1>2
    <2>2. /\ Owed = {m_Listeners[i] : i \in Rest} /\ Owed' = {m_Listeners'[i] : i \in Rest'}
      BY <1>2, <1>3, <2>1, OwedIs
    <2>3. CASE phase = "listener"
      <3>1. Rest' = Rest \cup {n + 1} /\ Rest \subseteq 1 .. n
        BY <1>1, <1>2, <1>3, <2>3 DEF Rest, n
      <3> QED BY <1>3, <2>2, <3>1
    <2>4. CASE phase # "listener"
      <3>1. Rest = {} /\ Rest' = {}
        BY <1>1, <2>4 DEF Rest
      <3> QED BY <2>2, <3>1
    <2> QED BY <2>3, <2>4
  <1> QED BY <1>1, <1>7, <1>8 DEF Animation!StartAnim

(* An animation other than that being called leaves the list.                *)
LEMMA RemoveStep ==
  ASSUME SignalInv, NEW a \in m_bRunning, NEW callbacks, RemoveAnim(a, callbacks), ~endedOwn',
         phase \in {"timer", "events", "listener"}, UNCHANGED <<phase, m_pCurrentListener>>
  PROVE  SignalInv' /\ m_bRunning' = m_bRunning \ {a} /\ Owed' = Owed \ {a}
  <1> DEFINE n == Len(m_Listeners)
  <1>1. /\ phase' = phase /\ phase \in {"timer", "events", "listener"} /\ a \in m_bRunning
        /\ m_bRunning' = m_bRunning \ {a} /\ UNCHANGED m_pCurrentListener
        /\ ~Ending(a) /\ Disconnect(a, m_pCurrentListener) /\ a \in Anims
    BY DEF RemoveAnim, SignalInv
  <1>2. /\ m_Listeners \in Seq(Anims) /\ n \in Nat /\ it \in 1 .. (n + 1)
        /\ m_bRunning \subseteq Anims /\ (phase = "listener" => it <= n)
    BY DEF SignalInv
  <1>3. a # m_pCurrentListener
    <2>1. CASE phase = "listener"
      BY <1>1, <2>1 DEF Ending, SignalInv
    <2>2. CASE phase # "listener"
      BY <1>1, <2>2, PlayerFrameAssumption DEF SignalInv
    <2> QED BY <2>1, <2>2
  <1> SUFFICES ASSUME NEW k, k = IndexOf(a)
               PROVE  SignalInv' /\ m_bRunning' = m_bRunning \ {a} /\ Owed' = Owed \ {a}
    OBVIOUS
  <1>4. k \in Places /\ m_Listeners[k] = a /\ k \in 1 .. n
    BY <1>1, <1>3, PlaceOf
  <1>5. /\ m_Listeners' = RemoveAt(m_Listeners, k) /\ UNCHANGED m_bKillCurrentListener
        /\ it' = IF phase = "listener" /\ k < it THEN it - 1 ELSE it
    BY <1>1, <1>3 DEF Disconnect
  <1>6. /\ m_Listeners' \in Seq(Anims) /\ Len(m_Listeners') = n - 1
        /\ \A j \in 1 .. n - 1 : m_Listeners'[j] = IF j < k THEN m_Listeners[j]
                                                   ELSE m_Listeners[j + 1]
    BY <1>2, <1>4, <1>5, RemoveFacts
  <1> DEFINE From(j) == IF j < k THEN j ELSE j + 1
             To(i) == IF i < k THEN i ELSE i - 1
  <1>7. \A j \in 1 .. n - 1 : /\ From(j) \in 1 .. n /\ From(j) # k /\ To(From(j)) = j
                              /\ m_Listeners'[j] = m_Listeners[From(j)]
    BY <1>2, <1>4, <1>6
  <1>8. \A i \in 1 .. n : i # k => To(i) \in 1 .. n - 1 /\ From(To(i)) = i
    BY <1>2, <1>4
  <1>9. phase = "listener" => k # it /\ it' = To(it)
    BY <1>2, <1>4, <1>5 DEF Places
  <1>10. \A i \in 1 .. n : i # k => (i \in Places <=> To(i) \in Places')
    BY <1>1, <1>2, <1>4, <1>6, <1>8, <1>9 DEF Places
  <1>11. Places' \subseteq 1 .. n - 1 /\ \A j \in Places' : From(j) \in Places
    BY <1>1, <1>6, <1>7, <1>10 DEF Places
  <1>12. it' \in 1 .. (Len(m_Listeners') + 1) /\ (phase' = "listener" => it' <= Len(m_Listeners'))
    <2>1. CASE phase = "listener"
      BY <1>1, <1>2, <1>4, <1>5, <1>6, <1>9, <2>1
    <2>2. CASE phase # "listener"
      <3>1. it = 1 /\ it' = 1
        BY <1>1, <1>5, <2>2 DEF SignalInv
      <3> QED BY <1>1, <1>2, <1>4, <1>6, <2>2, <3>1
    <2> QED BY <2>1, <2>2
  <1> HIDE DEF n, From, To
  <1>13. /\ \A i \in Places : m_Listeners[i] \in m_bRunning
         /\ \A i, j \in Places : m_Listeners[i] = m_Listeners[j] => i = j
         /\ \A b \in m_bRunning : \E i \in Places : m_Listeners[i] = b
         /\ Places \subseteq 1 .. n
    BY DEF SignalInv, Places, n
  <1>14. /\ \A i \in Places' : m_Listeners'[i] \in m_bRunning'
         /\ \A i, j \in Places' : m_Listeners'[i] = m_Listeners'[j] => i = j
    <2>1. \A i \in Places' : /\ m_Listeners'[i] = m_Listeners[From(i)] /\ From(i) \in Places
                             /\ From(i) # k /\ To(From(i)) = i
      <3> SUFFICES ASSUME NEW i \in Places'
                   PROVE  /\ m_Listeners'[i] = m_Listeners[From(i)] /\ From(i) \in Places
                          /\ From(i) # k /\ To(From(i)) = i
        OBVIOUS
      <3>1. i \in 1 .. n - 1 /\ From(i) \in Places
        BY <1>11
      <3> QED BY <1>7, <3>1
    <2>2. \A i \in Places' : m_Listeners'[i] \in m_bRunning /\ m_Listeners'[i] # a
      <3> SUFFICES ASSUME NEW i \in Places', NEW x, x = From(i)
                   PROVE  m_Listeners'[i] \in m_bRunning /\ m_Listeners'[i] # a
        OBVIOUS
      <3>1. m_Listeners'[i] = m_Listeners[x] /\ x \in Places /\ x # k
        BY <2>1
      <3>2. m_Listeners[x] # m_Listeners[k]
        BY <1>4, <1>13, <3>1
      <3> QED BY <1>4, <1>13, <3>1, <3>2
    <2>3. ASSUME NEW i \in Places', NEW j \in Places', m_Listeners'[i] = m_Listeners'[j]
          PROVE  i = j
      <3>1. From(i) = From(j)
        <4> SUFFICES ASSUME NEW x, NEW y, x = From(i), y = From(j) PROVE x = y
          OBVIOUS
        <4>1. /\ x \in Places /\ y \in Places
              /\ m_Listeners'[i] = m_Listeners[x] /\ m_Listeners'[j] = m_Listeners[y]
          BY <2>1
        <4>2. m_Listeners[x] = m_Listeners[y]
          BY <2>3, <4>1
        <4> QED BY <1>13, <4>1, <4>2
      <3>2. To(From(i)) = i /\ To(From(j)) = j
        BY <2>1
      <3> QED BY <3>1, <3>2
    <2> QED BY <1>1, <2>2, <2>3
  <1>15. ASSUME NEW b \in m_bRunning' PROVE \E j \in Places' : m_Listeners'[j] = b
    <2>1. PICK i \in Places : m_Listeners[i] = b
      BY <1>1, <1>13
    <2>2. i # k /\ i \in 1 .. n
      BY <1>1, <1>4, <1>13, <2>1
    <2>3. To(i) \in Places' /\ To(i) \in 1 .. n - 1 /\ From(To(i)) = i
      BY <1>8, <1>10, <2>1, <2>2
    <2> QED BY <1>7, <2>1, <2>3
  <1>16. SignalInv'
    <2>1. phase' = "listener" => m_pCurrentListener' = m_Listeners'[it']
      <3> SUFFICES ASSUME phase = "listener" PROVE m_pCurrentListener' = m_Listeners'[it']
        BY <1>1
      <3>1. it \in 1 .. n /\ it # k /\ it' = To(it)
        BY <1>2, <1>9
      <3>2. m_Listeners'[it'] = m_Listeners[it]
        BY <1>7, <1>8, <3>1
      <3> QED BY <1>1, <3>2 DEF SignalInv
    <2>2. phase' \in {"timers", "timer", "events"} => m_pCurrentListener' = NoAnim /\ it' = 1
      BY <1>1, <1>5 DEF SignalInv
    <2>3. m_bRunning' \subseteq Anims
      BY <1>1, <1>2
    <2>4. m_bKillCurrentListener' \in BOOLEAN /\ (m_bKillCurrentListener' <=> phase' = "listener")
      BY <1>1, <1>5 DEF SignalInv
    <2> QED BY <1>1, <1>6, <1>12, <1>14, <1>15, <2>1, <2>2, <2>3, <2>4 DEF SignalInv, Phases
  <1>17. Owed' = Owed \ {a}
    <2>1. it \in Nat \ {0} /\ it' \in Nat \ {0}
      BY <1>2, <1>12
    <2>2. /\ Owed = {m_Listeners[i] : i \in Rest} /\ Owed' = {m_Listeners'[i] : i \in Rest'}
      BY <1>2, <1>6, <2>1, OwedIs
    <2>3. CASE phase = "listener"
      <3>1. Rest = it + 1 .. n /\ Rest' = it' + 1 .. n - 1 /\ Rest \subseteq Places
        BY <1>1, <1>2, <1>6, <2>3 DEF Rest, Places, n
      <3>2. \A i \in Rest : i # k => To(i) \in Rest'
        BY <1>2, <1>4, <1>9, <2>3, <3>1 DEF To, n
      <3>3. \A j \in Rest' : j \in 1 .. n - 1 /\ From(j) \in Rest
        <4> SUFFICES ASSUME NEW j \in Rest' PROVE j \in 1 .. n - 1 /\ From(j) \in Rest
          OBVIOUS
        <4>1. /\ it \in Nat /\ it >= 1 /\ n \in Nat /\ k \in 1 .. n /\ k # it
              /\ it' = IF it < k THEN it ELSE it - 1
          BY <1>2, <1>4, <1>9, <2>3 DEF To
        <4>2. j \in it' + 1 .. n - 1
          BY <3>1
        <4>3. j \in 1 .. n - 1 /\ (IF j < k THEN j ELSE j + 1) \in it + 1 .. n
          BY <4>1, <4>2
        <4> QED BY <3>1, <4>3 DEF From
      <3>4. \A i \in Rest : m_Listeners[i] = a <=> i = k
        BY <1>4, <1>13, <3>1
      <3>5. ASSUME NEW b \in Owed' PROVE b \in Owed \ {a}
        <4>1. PICK j \in Rest' : b = m_Listeners'[j]
          BY <2>2
        <4>2. b = m_Listeners[From(j)] /\ From(j) \in Rest /\ From(j) # k
          BY <1>7, <3>3, <4>1
        <4> QED BY <2>2, <3>4, <4>2
      <3>6. ASSUME NEW b \in Owed \ {a} PROVE b \in Owed'
        <4>1. PICK i \in Rest : b = m_Listeners[i]
          BY <2>2
        <4>2. i # k /\ i \in 1 .. n
          BY <1>13, <3>1, <3>4, <3>6, <4>1
        <4>3. To(i) \in Rest' /\ m_Listeners'[To(i)] = b
          BY <1>7, <1>8, <3>2, <4>1, <4>2
        <4> QED BY <2>2, <4>3
      <3> QED BY <3>5, <3>6
    <2>4. CASE phase # "listener"
      <3>1. Rest = {} /\ Rest' = {}
        BY <1>1, <2>4 DEF Rest
      <3> QED BY <2>2, <3>1
    <2> QED BY <2>3, <2>4
  <1> QED BY <1>1, <1>16, <1>17

LEMMA AbortStep ==
  ASSUME SignalInv, NEW a \in Anims, AbortAnim(a), ~endedOwn'
  PROVE  SignalInv' /\ Animation!AbortAnim(a)
  <1>1. /\ a \in m_bRunning /\ RemoveAnim(a, starting) /\ starting' = starting
        /\ phase \in {"timer", "events", "listener"} /\ UNCHANGED <<phase, m_pCurrentListener>>
    BY DEF AbortAnim
  <1>2. SignalInv' /\ m_bRunning' = m_bRunning \ {a} /\ Owed' = Owed \ {a}
    BY <1>1, RemoveStep
  <1> QED BY <1>1, <1>2 DEF Animation!AbortAnim

LEMMA FrontFacts ==
  ASSUME NEW S, NEW s \in Seq(S), s # <<>>
  PROVE  /\ Front(s) \in Seq(S) /\ Len(s) \in 1 .. Len(s) /\ Last(s) = s[Len(s)]
         /\ Last(s) \in S
         /\ \A i \in 1 .. Len(Front(s)) : i \in 1 .. Len(s) /\ Front(s)[i] = s[i]
  <1>1. Len(s) \in Nat \ {0} /\ \A i \in 1 .. Len(s) : s[i] \in S
    BY EmptySeq, ElementOfSeq
  <1>4. Len(s) - 1 \in Nat /\ \A i \in 1 .. Len(s) - 1 : i \in 1 .. Len(s) /\ 1 + i - 1 = i
    BY <1>1
  <1>2. /\ SubSeq(s, 1, Len(s) - 1) \in Seq(S) /\ Len(SubSeq(s, 1, Len(s) - 1)) = Len(s) - 1
        /\ \A i \in 1 .. Len(s) - 1 : SubSeq(s, 1, Len(s) - 1)[i] = s[i]
    <2> SUFFICES ASSUME NEW n \in Nat, n = Len(s) - 1
                 PROVE  /\ SubSeq(s, 1, n) \in Seq(S) /\ Len(SubSeq(s, 1, n)) = n
                        /\ \A i \in 1 .. n : SubSeq(s, 1, n)[i] = s[i]
      BY <1>4
    <2>1. 1 \in Int /\ n \in Int /\ \A i \in 1 .. n : s[i] \in S
      BY <1>1, <1>4
    <2>2. /\ SubSeq(s, 1, n) \in Seq(S) /\ Len(SubSeq(s, 1, n)) = IF 1 <= n THEN n - 1 + 1 ELSE 0
          /\ \A i \in 1 .. n - 1 + 1 : SubSeq(s, 1, n)[i] = s[1 + i - 1]
      BY <2>1, SubSeqProperties
    <2>3. n - 1 + 1 = n /\ (IF 1 <= n THEN n ELSE 0) = n /\ \A i \in 1 .. n : 1 + i - 1 = i
      OBVIOUS
    <2>4. Len(SubSeq(s, 1, n)) = n /\ \A i \in 1 .. n : SubSeq(s, 1, n)[i] = s[i]
      BY <2>2, <2>3, Zenon
    <2> QED BY <2>2, <2>4, Zenon
  <1>3. Front(s) = SubSeq(s, 1, Len(s) - 1) /\ Last(s) = s[Len(s)]
    BY DEF Front, Last
  <1> QED BY <1>1, <1>2, <1>3, <1>4

(* The animations whose start callbacks run.  Until one of them is ended in  *)
(* its own callback, they run.                                               *)
StartingInv ==
  /\ starting \in Seq(Anims)
  /\ starting # <<>> => phase \in {"timer", "events", "listener"}
  /\ \A i \in 1 .. Len(starting) : starting[i] \in m_bRunning

LEMMA StartReturnsStep ==
  ASSUME SignalInv, StartingInv, StartReturns, ~endedOwn'
  PROVE  SignalInv' /\ \E a \in Anims : Animation!FirstStep(a)
  <1>1. /\ starting # <<>> /\ starting' = Front(starting) /\ starting \in Seq(Anims)
        /\ phase \in {"timer", "events", "listener"} /\ UNCHANGED <<phase, m_pCurrentListener>>
    BY DEF StartReturns, StartingInv
  <1> SUFFICES ASSUME NEW a, a = Last(starting)
               PROVE  SignalInv' /\ \E b \in Anims : Animation!FirstStep(b)
    OBVIOUS
  <1>2. a \in Anims /\ a \in m_bRunning
    BY <1>1, FrontFacts DEF StartingInv
  <1>3. CASE UNCHANGED <<m_bRunning, m_Listeners, it, m_bKillCurrentListener, endedOwn>>
    <2>1. UNCHANGED <<m_bRunning, signalVars, phase>>
      BY <1>1, <1>3 DEF signalVars
    <2>2. Places' = Places /\ Owed' = Owed
      BY <2>1 DEF Places, Owed, signalVars
    <2>3. SignalInv'
      BY <2>1, <2>2 DEF SignalInv, signalVars
    <2>4. Animation!FirstStep(a)
      BY <1>1, <1>2, <2>1, <2>2
         DEF Animation!FirstStep, Animation!Front, Animation!Last, Front, Last
    <2> QED BY <1>2, <2>3, <2>4
  <1>4. CASE RemoveAnim(a, Front(starting))
    <2>1. SignalInv' /\ m_bRunning' = m_bRunning \ {a} /\ Owed' = Owed \ {a}
      BY <1>1, <1>2, <1>4, RemoveStep
    <2>2. Animation!FirstStep(a)
      BY <1>1, <1>2, <2>1
         DEF Animation!FirstStep, Animation!Front, Animation!Last, Front, Last
    <2> QED BY <1>2, <2>1, <2>2
  <1> QED BY <1>3, <1>4 DEF StartReturns

LEMMA StartingQuiet ==
  ASSUME StartingInv, starting' = starting,
         starting = <<>> \/ UNCHANGED <<phase, m_bRunning>>
  PROVE  StartingInv'
  <1>1. CASE starting = <<>>
    BY <1>1 DEF StartingInv
  <1>2. CASE UNCHANGED <<phase, m_bRunning>>
    BY <1>2 DEF StartingInv
  <1> QED BY <1>1, <1>2

LEMMA StartingStep ==
  ASSUME StartingInv, [FrameNext]_frameVars, ~endedOwn'
  PROVE  StartingInv'
  <1>0. starting = <<>> \/ phase \in {"timer", "events", "listener"}
    BY DEF StartingInv
  <1>1. CASE SetTimeout \/ ClearInterval \/ UNCHANGED frameVars
    BY <1>1, StartingQuiet DEF SetTimeout, ClearInterval, frameVars, animVars
  <1>2. CASE Fire \/ FireReturns \/ TimersDone
    BY <1>0, <1>2, StartingQuiet DEF Fire, FireReturns, TimersDone, animVars
  <1>3. ASSUME NEW a \in Anims, StartAnim(a) PROVE StartingInv'
    <2>1. /\ starting' = Append(starting, a) /\ m_bRunning' = m_bRunning \cup {a}
          /\ phase' \in {"timer", "events", "listener"} /\ starting \in Seq(Anims)
      BY <1>3 DEF StartAnim, StartingInv
    <2>2. /\ starting' \in Seq(Anims) /\ Len(starting') = Len(starting) + 1
          /\ starting'[Len(starting) + 1] = a
          /\ \A i \in 1 .. Len(starting) : starting'[i] = starting[i]
      BY <2>1, AppendProperties
    <2>3. \A i \in 1 .. Len(starting') : i = Len(starting) + 1 \/ i \in 1 .. Len(starting)
      BY <2>1, <2>2
    <2> QED BY <2>1, <2>2, <2>3 DEF StartingInv
  <1>4. ASSUME NEW a \in Anims, AbortAnim(a) PROVE StartingInv'
    <2>1. /\ starting' = starting /\ m_bRunning' = m_bRunning \ {a} /\ phase' = phase
          /\ a \notin ToSet(starting)
      BY <1>4 DEF AbortAnim, RemoveAnim
    <2>2. \A i \in 1 .. Len(starting) : starting[i] # a
      BY <2>1 DEF ToSet, StartingInv
    <2> QED BY <2>1, <2>2 DEF StartingInv
  <1>5. CASE StartReturns
    <2>1. /\ starting # <<>> /\ starting' = Front(starting) /\ phase' = phase
          /\ starting \in Seq(Anims) /\ phase \in {"timer", "events", "listener"}
      BY <1>5 DEF StartReturns, StartingInv
    <2>2. /\ Front(starting) \in Seq(Anims)
          /\ \A i \in 1 .. Len(Front(starting)) :
               i \in 1 .. Len(starting) /\ Front(starting)[i] = starting[i]
      BY <2>1, FrontFacts
    <2>3. ASSUME NEW i \in 1 .. Len(Front(starting)) PROVE Front(starting)[i] \in m_bRunning'
      <3>1. Front(starting)[i] \in m_bRunning
        BY <2>2 DEF StartingInv
      <3>2. Front(starting)[i] \in ToSet(Front(starting))
        BY <2>2 DEF ToSet
      <3>3. \/ m_bRunning' = m_bRunning
            \/ /\ m_bRunning' = m_bRunning \ {Last(starting)}
               /\ Last(starting) \notin ToSet(Front(starting))
        BY <1>5 DEF StartReturns, RemoveAnim
      <3> QED BY <3>1, <3>2, <3>3
    <2> QED BY <2>1, <2>2, <2>3 DEF StartingInv
  <1>6. CASE EventsDone \/ StepAnim \/ LastStep \/ ListenerReturns
    BY <1>0, <1>6, StartingQuiet DEF EventsDone, StepAnim, LastStep, ListenerReturns, animVars
  <1>7. CASE Play \/ NextFrame
    BY <1>0, <1>7, StartingQuiet DEF Play, NextFrame, animVars
  <1>8. CASE StopPlayer \/ PlaybackEnds
    BY <1>0, <1>8, StartingQuiet DEF StopPlayer, PlaybackEnds, Cleanup, animVars
  <1> QED BY <1>1, <1>2, <1>3, <1>4, <1>5, <1>6, <1>7, <1>8 DEF FrameNext

LEMMA EventsDoneStep ==
  ASSUME SignalInv, EventsDone
  PROVE  SignalInv' /\ Animation!Begin
  <1>1. /\ phase = "events" /\ phase' = "signal" /\ it' = 1
        /\ UNCHANGED <<m_Listeners, m_pCurrentListener, m_bKillCurrentListener, m_bRunning>>
        /\ starting' = starting
    BY DEF EventsDone, animVars
  <1>2. m_Listeners \in Seq(Anims) /\ Len(m_Listeners) \in Nat /\ it \in Nat \ {0}
    BY DEF SignalInv
  <1>3. /\ Places = 1 .. Len(m_Listeners) /\ Places' = 1 .. Len(m_Listeners)
        /\ Rest = {} /\ Rest' = 1 .. Len(m_Listeners)
    BY <1>1, <1>2 DEF Places, Rest
  <1>4. SignalInv'
    BY <1>1, <1>2, <1>3 DEF SignalInv, Phases
  <1>5. Owed = {} /\ Owed' = {m_Listeners[i] : i \in 1 .. Len(m_Listeners)}
    BY <1>1, <1>2, <1>3, OwedIs
  <1>6. /\ \A i \in 1 .. Len(m_Listeners) : m_Listeners[i] \in m_bRunning
        /\ \A a \in m_bRunning : \E i \in 1 .. Len(m_Listeners) : m_Listeners[i] = a
    BY <1>3 DEF SignalInv
  <1>7. Owed' = m_bRunning
    BY <1>5, <1>6
  <1> QED BY <1>1, <1>4, <1>5, <1>7 DEF Animation!Begin

(* The animation at the iterator has not had its step, and runs.             *)
LEMMA AtIterator ==
  ASSUME SignalInv, phase = "signal", it <= Len(m_Listeners)
  PROVE  /\ it \in Places /\ Places = 1 .. Len(m_Listeners) /\ Len(m_Listeners) \in Nat
         /\ m_Listeners[it] \in Owed /\ m_Listeners[it] \in m_bRunning
         /\ m_Listeners[it] \in Anims
         /\ \A i \in 1 .. Len(m_Listeners) : m_Listeners[i] = m_Listeners[it] => i = it
         /\ Owed \ {m_Listeners[it]} = {m_Listeners[i] : i \in it + 1 .. Len(m_Listeners)}
  <1>1. /\ m_Listeners \in Seq(Anims) /\ Len(m_Listeners) \in Nat /\ it \in 1 .. Len(m_Listeners)
    BY DEF SignalInv
  <1>2. it \in Places /\ Places = 1 .. Len(m_Listeners) /\ Rest = it .. Len(m_Listeners)
    BY <1>1 DEF Places, Rest
  <1>3. Owed = {m_Listeners[i] : i \in it .. Len(m_Listeners)}
    BY <1>1, <1>2, OwedIs
  <1>4. /\ m_Listeners[it] \in m_bRunning /\ m_Listeners[it] \in Anims
        /\ \A i \in 1 .. Len(m_Listeners) : m_Listeners[i] = m_Listeners[it] => i = it
    BY <1>2 DEF SignalInv
  <1>5. \A i : i \in it .. Len(m_Listeners) <=> i = it \/ i \in it + 1 .. Len(m_Listeners)
    BY <1>1
  <1>6. \A i \in it + 1 .. Len(m_Listeners) : m_Listeners[i] # m_Listeners[it]
    BY <1>1, <1>4
  <1> QED BY <1>1, <1>2, <1>3, <1>4, <1>5, <1>6

LEMMA StepAnimStep ==
  ASSUME SignalInv, StepAnim
  PROVE  SignalInv' /\ \E a \in Anims : Animation!Step(a)
  <1>1. /\ phase = "signal" /\ phase' = phase /\ it <= Len(m_Listeners) /\ it' = it + 1
        /\ UNCHANGED <<m_Listeners, m_bKillCurrentListener, m_bRunning, starting>>
    BY DEF StepAnim, animVars
  <1>2. m_Listeners \in Seq(Anims) /\ Len(m_Listeners) \in Nat /\ it \in 1 .. Len(m_Listeners)
    BY <1>1 DEF SignalInv
  <1>3. /\ Places' = Places /\ Rest' = it + 1 .. Len(m_Listeners) /\ it' \in Nat \ {0}
        /\ it' \in 1 .. (Len(m_Listeners) + 1)
    BY <1>1, <1>2 DEF Places, Rest
  <1>4. SignalInv'
    BY <1>1, <1>2, <1>3 DEF SignalInv, Phases
  <1>5. Owed' = Owed \ {m_Listeners[it]}
    BY <1>1, <1>2, <1>3, AtIterator, OwedIs
  <1>6. Animation!Step(m_Listeners[it]) /\ m_Listeners[it] \in Anims
    BY <1>1, <1>5, AtIterator DEF Animation!Step
  <1> QED BY <1>4, <1>6

LEMMA LastStepStep ==
  ASSUME SignalInv, LastStep
  PROVE  SignalInv' /\ \E a \in Anims : Animation!Step(a)
  <1>1. /\ phase = "signal" /\ phase' = "listener" /\ it <= Len(m_Listeners)
        /\ UNCHANGED <<m_Listeners, it, starting>> /\ m_bKillCurrentListener' = TRUE
        /\ m_pCurrentListener' = m_Listeners[it] /\ m_bRunning' = m_bRunning \ {m_Listeners[it]}
    BY DEF LastStep, Disconnect
  <1>2. m_Listeners \in Seq(Anims) /\ Len(m_Listeners) \in Nat /\ it \in 1 .. Len(m_Listeners)
    BY <1>1 DEF SignalInv
  <1>3. Places' = Places \ {it} /\ Rest' = it + 1 .. Len(m_Listeners) /\ it \in Nat \ {0}
    BY <1>1, <1>2 DEF Places, Rest
  <1>4. /\ \A i \in Places : m_Listeners[i] \in m_bRunning
        /\ \A i, j \in Places : m_Listeners[i] = m_Listeners[j] => i = j
        /\ \A b \in m_bRunning : \E i \in Places : m_Listeners[i] = b
        /\ it \in Places /\ m_bRunning \subseteq Anims
    BY <1>1, AtIterator DEF SignalInv
  <1>5. SignalInv'
    <2>1. /\ \A i \in Places' : m_Listeners'[i] \in m_bRunning'
          /\ \A i, j \in Places' : m_Listeners'[i] = m_Listeners'[j] => i = j
      BY <1>1, <1>3, <1>4
    <2>2. \A b \in m_bRunning' : \E i \in Places' : m_Listeners'[i] = b
      BY <1>1, <1>3, <1>4
    <2> QED BY <1>1, <1>2, <1>4, <2>1, <2>2 DEF SignalInv, Phases
  <1>6. Owed' = Owed \ {m_Listeners[it]}
    BY <1>1, <1>2, <1>3, AtIterator, OwedIs
  <1>7. Animation!Step(m_Listeners[it]) /\ m_Listeners[it] \in Anims
    BY <1>1, <1>6, AtIterator DEF Animation!Step
  <1> QED BY <1>5, <1>7

(* The place of the listener that has stopped is erased; nothing is owed for *)
(* it, also if the animation has been started again.                         *)
LEMMA ListenerReturnsStep ==
  ASSUME SignalInv, ListenerReturns
  PROVE  SignalInv' /\ UNCHANGED <<m_bRunning, Owed, starting>>
  <1> SUFFICES ASSUME NEW n, n = Len(m_Listeners)
               PROVE  SignalInv' /\ UNCHANGED <<m_bRunning, Owed, starting>>
    OBVIOUS
  <1>1. /\ phase = "listener" /\ phase' = "signal" /\ m_Listeners' = RemoveAt(m_Listeners, it)
        /\ UNCHANGED <<it, m_bRunning, starting>> /\ m_bKillCurrentListener' = FALSE
    BY DEF ListenerReturns, SignalInv, animVars
  <1>2. m_Listeners \in Seq(Anims) /\ n \in Nat /\ it \in 1 .. n /\ m_bRunning \subseteq Anims
    BY <1>1 DEF SignalInv
  <1>3. /\ m_Listeners' \in Seq(Anims) /\ Len(m_Listeners') = n - 1
        /\ \A j \in 1 .. n - 1 : m_Listeners'[j] = IF j < it THEN m_Listeners[j]
                                                   ELSE m_Listeners[j + 1]
    BY <1>1, <1>2, RemoveFacts
  <1>4. Places = (1 .. n) \ {it} /\ Places' = 1 .. n - 1
    BY <1>1, <1>2, <1>3 DEF Places
  <1> DEFINE From(j) == IF j < it THEN j ELSE j + 1
             To(i) == IF i < it THEN i ELSE i - 1
  <1>5. \A j \in Places' : /\ From(j) \in Places /\ To(From(j)) = j
                           /\ m_Listeners'[j] = m_Listeners[From(j)]
    BY <1>2, <1>3, <1>4
  <1>6. \A i \in Places : To(i) \in Places' /\ From(To(i)) = i
    BY <1>2, <1>4
  <1>7. Rest = it + 1 .. n /\ Rest' = it .. n - 1
    BY <1>1, <1>2, <1>3 DEF Rest
  <1>8. /\ \A j \in Rest' : j \in Places' /\ From(j) \in Rest
        /\ \A i \in Rest : i \in Places /\ To(i) \in Rest'
    BY <1>2, <1>4, <1>7
  <1> HIDE DEF From, To
  <1>9. /\ \A i \in Places : m_Listeners[i] \in m_bRunning
        /\ \A i, j \in Places : m_Listeners[i] = m_Listeners[j] => i = j
        /\ \A b \in m_bRunning : \E i \in Places : m_Listeners[i] = b
    BY DEF SignalInv
  <1>10. \A i \in Places' : m_Listeners'[i] \in m_bRunning'
    BY <1>1, <1>5, <1>9
  <1>11. ASSUME NEW i \in Places', NEW j \in Places', m_Listeners'[i] = m_Listeners'[j]
         PROVE  i = j
    <2> SUFFICES ASSUME NEW x, NEW y, x = From(i), y = From(j) PROVE i = j
      OBVIOUS
    <2>1. /\ x \in Places /\ y \in Places
          /\ m_Listeners'[i] = m_Listeners[x] /\ m_Listeners'[j] = m_Listeners[y]
          /\ To(x) = i /\ To(y) = j
      BY <1>5
    <2>2. x = y
      BY <1>9, <1>11, <2>1
    <2> QED BY <2>1, <2>2
  <1>12. ASSUME NEW b \in m_bRunning' PROVE \E j \in Places' : m_Listeners'[j] = b
    <2>1. PICK i \in Places : m_Listeners[i] = b
      BY <1>1, <1>9
    <2>2. To(i) \in Places' /\ From(To(i)) = i
      BY <1>6
    <2> QED BY <1>5, <2>1, <2>2
  <1>13. SignalInv'
    <2>1. it' \in 1 .. (Len(m_Listeners') + 1)
      BY <1>1, <1>2, <1>3
    <2> QED BY <1>1, <1>2, <1>3, <1>10, <1>11, <1>12, <2>1 DEF SignalInv, Phases
  <1>14. Owed' = Owed
    <2>1. /\ Owed = {m_Listeners[i] : i \in Rest} /\ Owed' = {m_Listeners'[i] : i \in Rest'}
      BY <1>1, <1>2, <1>3, OwedIs
    <2>2. ASSUME NEW b \in Owed' PROVE b \in Owed
      <3>1. PICK j \in Rest' : b = m_Listeners'[j]
        BY <2>1
      <3> QED BY <1>5, <1>8, <2>1, <3>1
    <2>3. ASSUME NEW b \in Owed PROVE b \in Owed'
      <3>1. PICK i \in Rest : b = m_Listeners[i]
        BY <2>1
      <3>2. To(i) \in Rest' /\ To(i) \in Places' /\ From(To(i)) = i
        BY <1>6, <1>8
      <3>3. m_Listeners'[To(i)] = b
        BY <1>5, <3>1, <3>2
      <3> QED BY <2>1, <3>2, <3>3
    <2> QED BY <2>2, <2>3
  <1> QED BY <1>1, <1>13, <1>14

LEMMA SignalStep ==
  ASSUME SignalInv, StartingInv, [FrameNext]_frameVars, ~endedOwn'
  PROVE  SignalInv' /\ [Animation!Next]_(Animation!vars)
  <1>0. UNCHANGED <<m_bRunning, Owed, starting>> => [Animation!Next]_(Animation!vars)
    BY DEF Animation!vars
  <1>1. CASE SetTimeout \/ ClearInterval
    BY <1>0, <1>1, QuietSignal DEF SetTimeout, ClearInterval, SignalSame, animVars
  <1>2. CASE Fire \/ FireReturns \/ TimersDone
    BY <1>0, <1>2, QuietSignal DEF Fire, FireReturns, TimersDone, SignalSame, animVars
  <1>3. ASSUME NEW a \in Anims, StartAnim(a) \/ AbortAnim(a)
        PROVE  SignalInv' /\ [Animation!Next]_(Animation!vars)
    BY <1>3, StartStep, AbortStep DEF Animation!Next
  <1>12. CASE StartReturns
    BY <1>12, StartReturnsStep DEF Animation!Next
  <1>4. CASE EventsDone
    BY <1>4, EventsDoneStep DEF Animation!Next
  <1>5. CASE StepAnim \/ LastStep
    BY <1>5, StepAnimStep, LastStepStep DEF Animation!Next
  <1>6. CASE ListenerReturns
    BY <1>0, <1>6, ListenerReturnsStep
  <1>7. CASE Play
    <2>1. /\ m_Listeners' = <<>> /\ it' = 1 /\ phase' = "signal" /\ phase = "off"
          /\ m_bKillCurrentListener' = FALSE /\ UNCHANGED <<m_bRunning, starting>>
      BY <1>7 DEF Play, SignalInv, signalVars, animVars
    <2>2. m_bRunning = {} /\ Owed = {}
      BY <2>1 DEF SignalInv, Places, Owed
    <2> QED BY <1>0, <2>1, <2>2, EmptySignal
  <1>8. CASE StopPlayer
    <2>1. CASE phase = "off"
      <3>1. /\ m_Listeners' = <<>> /\ it' = 1 /\ phase' = "off" /\ m_pCurrentListener' = NoAnim
            /\ m_bKillCurrentListener' = FALSE /\ m_bRunning' = {} /\ starting' = starting
        BY <1>8, <2>1 DEF StopPlayer, Cleanup, SignalInv
      <3>2. m_bRunning = {} /\ Owed = {}
        BY <2>1 DEF SignalInv, Places, Owed
      <3> QED BY <1>0, <3>1, <3>2, EmptySignal
    <2>2. CASE phase # "off"
      BY <1>0, <1>8, <2>2, QuietSignal DEF StopPlayer, SignalSame, signalVars, animVars
    <2> QED BY <2>1, <2>2
  <1>9. CASE NextFrame
    <2>1. /\ phase = "signal" /\ phase' = "timers" /\ it > Len(m_Listeners) /\ it' = 1
          /\ m_pCurrentListener' = NoAnim
          /\ UNCHANGED <<m_Listeners, m_bKillCurrentListener, m_bRunning, starting>>
      BY <1>9 DEF NextFrame, animVars
    <2>2. m_Listeners \in Seq(Anims) /\ Len(m_Listeners) \in Nat /\ it \in Nat \ {0}
      BY DEF SignalInv
    <2>3. Places' = Places /\ Rest = {} /\ Rest' = {} /\ 1 \in 1 .. (Len(m_Listeners) + 1)
      BY <2>1, <2>2 DEF Places, Rest
    <2>4. SignalInv'
      BY <2>1, <2>2, <2>3 DEF SignalInv, Phases
    <2>5. Owed = {} /\ Owed' = {}
      BY <2>1, <2>2, <2>3, OwedIs
    <2> QED BY <1>0, <2>1, <2>4, <2>5
  <1>10. CASE PlaybackEnds
    <2>1. /\ phase = "signal" /\ it > Len(m_Listeners)
          /\ m_Listeners' = <<>> /\ it' = 1 /\ phase' = "off" /\ m_pCurrentListener' = NoAnim
          /\ m_bKillCurrentListener' = FALSE /\ m_bRunning' = {} /\ starting' = starting
      BY <1>10 DEF PlaybackEnds, Cleanup, SignalInv
    <2>2. m_Listeners \in Seq(Anims) /\ Len(m_Listeners) \in Nat /\ it \in Nat \ {0}
      BY DEF SignalInv
    <2>3. Rest = {}
      BY <2>1, <2>2 DEF Rest
    <2>4. Owed = {}
      BY <2>2, <2>3, OwedIs
    <2>5. SignalInv' /\ Owed' = {}
      BY <2>1, EmptySignal
    <2>6. Animation!PlaybackEnd
      BY <2>1, <2>4, <2>5 DEF Animation!PlaybackEnd
    <2> QED BY <2>5, <2>6 DEF Animation!Next
  <1>11. CASE UNCHANGED frameVars
    BY <1>0, <1>11, QuietSignal DEF frameVars, SignalSame, signalVars, animVars
  <1> QED BY <1>1, <1>2, <1>3, <1>4, <1>5, <1>6, <1>7, <1>8, <1>9, <1>10, <1>11, <1>12
          DEF FrameNext

(* The history variable only ever becomes true.                              *)
LEMMA EndedStays ==
  ASSUME endedOwn, [FrameNext]_frameVars
  PROVE  endedOwn'
  <1>1. CASE UNCHANGED frameVars
    BY <1>1 DEF frameVars, animVars
  <1>2. CASE SetTimeout \/ ClearInterval \/ Fire \/ FireReturns \/ TimersDone
    BY <1>2 DEF SetTimeout, ClearInterval, Fire, FireReturns, TimersDone, animVars
  <1>3. ASSUME NEW a \in Anims, StartAnim(a) \/ AbortAnim(a) PROVE endedOwn'
    BY <1>3 DEF StartAnim, AbortAnim, RemoveAnim
  <1>4. CASE StartReturns
    BY <1>4 DEF StartReturns, RemoveAnim
  <1>5. CASE EventsDone \/ StepAnim \/ LastStep \/ ListenerReturns
    BY <1>5 DEF EventsDone, StepAnim, LastStep, ListenerReturns, animVars
  <1>6. CASE Play \/ NextFrame
    BY <1>6 DEF Play, NextFrame, animVars
  <1>7. CASE StopPlayer \/ PlaybackEnds
    BY <1>7 DEF StopPlayer, PlaybackEnds, Cleanup, animVars
  <1> QED BY <1>1, <1>2, <1>3, <1>4, <1>5, <1>6, <1>7 DEF FrameNext

AnimInv == endedOwn \/ (SignalInv /\ StartingInv)

(* Each running animation takes its first step when its start callback has   *)
(* returned and then one step in a frame, and one that has stopped none, for *)
(* any number of animations and whatever scripts start and abort in          *)
(* callbacks, until one is ended in a callback of its own (Signal::emit,     *)
(* connect, disconnect, Anim::start, setStopped, SimpleAnim::start, abort).  *)
THEOREM AnimsSteppedAlways == FrameSpec => AnimsStepped
  <1>1. FrameInit => Animation!Init
    BY DEF FrameInit, Animation!Init, Owed
  <1>2. FrameInit => AnimInv
    <2>1. FrameInit => StartingInv
      BY DEF FrameInit, StartingInv
    <2> QED BY <2>1, SignalInit DEF AnimInv
  <1>3. AnimInv /\ [FrameNext]_frameVars
          => AnimInv' /\ (endedOwn' \/ [Animation!Next]_(Animation!vars))
    BY EndedStays, SignalStep, StartingStep DEF AnimInv
  <1>4. (endedOwn' \/ [Animation!Next]_(Animation!vars))
          <=> [endedOwn' \/ Animation!Next]_(Animation!vars)
    OBVIOUS
  <1> QED BY <1>1, <1>2, <1>3, <1>4, PTL DEF FrameSpec, AnimsStepped

-----------------------------------------------------------------------------
(* The timers.                                                               *)

Timer == [id : Nat, next : Nat, interval : Nat, repeats : BOOLEAN]

(* From place k on the list is in the order of the times.                    *)
SortedFrom(list, k) == \A i, j \in k..Len(list) : i <= j => list[i].next <= list[j].next

Distinct(list) == \A i, j \in 1..Len(list) : list[i].id = list[j].id => i = j

Disjoint(list, other) ==
  \A i \in 1..Len(list), j \in 1..Len(other) : list[i].id # other[j].id

Within(list, n) == \A i \in 1..Len(list) : list[i].id <= n

(* The timer that is being called heads the list.                            *)
HasCurrent == phase = "timer" /\ ~m_bCurrentTimeoutDeleted

(* No timer is in the lists twice; the pending ones are sorted from place k. *)
Lists(pending, new, k, n) ==
  /\ pending \in Seq(Timer) /\ new \in Seq(Timer)
  /\ SortedFrom(pending, k)
  /\ Distinct(pending) /\ Distinct(new) /\ Disjoint(pending, new)
  /\ Within(pending, n) /\ Within(new, n)

(* The pending timers are sorted, but for the one that is being called,      *)
(* which has its next time already.                                          *)
TimerInv ==
  /\ phase \in Phases
  /\ m_FrameTime \in Nat /\ s_LastID \in Nat
  /\ m_bCurrentTimeoutDeleted \in BOOLEAN
  /\ m_bCurrentTimeoutDeleted => phase = "timer"
  /\ HasCurrent => m_PendingTimeouts # <<>>
  /\ ~m_bInHandleTimers => m_NewTimeouts = <<>>
  /\ Lists(m_PendingTimeouts, m_NewTimeouts, IF HasCurrent THEN 2 ELSE 1, s_LastID)

(* What the timers of TimerService are here.                                 *)
Timers == (ToSet(m_PendingTimeouts) \cup ToSet(m_NewTimeouts))
             \ {t \in Current : ~t.repeats}

(* The numbers of the timers that are due.                                   *)
Due(timers, time) == {t.id : t \in {u \in timers : u.next <= time}}

LEMMA LeastPlace ==
  ASSUME NEW T, T \subseteq Nat, T # {}
  PROVE  \E x \in T : \A y \in T : x <= y
  <1>1. PICK x \in T : \A y \in T : <<y, x>> \notin OpToRel(<, Nat)
    BY NatLessThanWellFounded, WFMin
  <1>2. ASSUME NEW y \in T PROVE x <= y
    <2>1. x \in Nat /\ y \in Nat /\ ~(y < x)
      BY <1>1 DEF OpToRel
    <2> QED BY <2>1
  <1> QED BY <1>2

LEMMA TimerFacts ==
  ASSUME NEW list \in Seq(Timer)
  PROVE  /\ Len(list) \in Nat /\ DOMAIN list = 1 .. Len(list)
         /\ \A i \in 1 .. Len(list) :
               list[i] \in Timer /\ list[i].next \in Nat /\ list[i].id \in Nat
  <1>1. \A i \in 1 .. Len(list) : list[i] \in Timer
    BY ElementOfSeq
  <1>2. \A t \in Timer : t.next \in Nat /\ t.id \in Nat
    BY DEF Timer
  <1> QED BY <1>1, <1>2

(* addTimeout puts the timer between those that are due earlier and those    *)
(* that are not.                                                             *)
LEMMA AddPlace ==
  ASSUME NEW list \in Seq(Timer), NEW t \in Timer, SortedFrom(list, 1)
  PROVE  LET new == AddTimeout(list, t) IN
         /\ new \in Seq(Timer) /\ Len(new) = Len(list) + 1
         /\ \E k \in 1 .. Len(list) + 1 :
              /\ \A j \in 1 .. Len(list) + 1 :
                    new[j] = IF j < k THEN list[j] ELSE IF j = k THEN t ELSE list[j - 1]
              /\ \A j \in 1 .. Len(list) : IF j < k THEN list[j].next < t.next
                                           ELSE t.next <= list[j].next
  <1> DEFINE later == {i \in 1 .. Len(list) : ~(list[i].next < t.next)}
             k == CHOOSE i \in later : \A j \in later : i <= j
  <1>0. /\ Len(list) \in Nat /\ t.next \in Nat
        /\ \A i \in 1 .. Len(list) : list[i] \in Timer /\ list[i].next \in Nat
    BY TimerFacts DEF Timer
  <1>1. CASE later = {}
    <2>1. AddTimeout(list, t) = Append(list, t)
      BY <1>1 DEF AddTimeout
    <2>2. \A j \in 1 .. Len(list) : list[j].next < t.next
      BY <1>1
    <2> DEFINE new == Append(list, t)
    <2>3. /\ new \in Seq(Timer) /\ Len(new) = Len(list) + 1
          /\ \A i \in 1 .. Len(list) : new[i] = list[i]
          /\ new[Len(list) + 1] = t
      BY AppendProperties
    <2> HIDE DEF new, later
    <2>4. \A j \in 1 .. Len(list) + 1 :
             new[j] = IF j < Len(list) + 1 THEN list[j]
                      ELSE IF j = Len(list) + 1 THEN t ELSE list[j - 1]
      BY <1>0, <2>3
    <2>5. /\ Len(list) + 1 \in 1 .. Len(list) + 1
          /\ \A j \in 1 .. Len(list) : j < Len(list) + 1
      BY <1>0
    <2> QED BY <2>1, <2>2, <2>3, <2>4, <2>5 DEF new
  <1>2. CASE later # {}
    <2>1. later \subseteq Nat
      OBVIOUS
    <2>2. k \in later /\ \A j \in later : k <= j
      <3> HIDE DEF later
      <3>1. \E x \in later : \A y \in later : x <= y
        BY <1>2, <2>1, LeastPlace
      <3> QED BY <3>1
    <2>3. AddTimeout(list, t) = InsertAt(list, k, t)
      BY <1>2 DEF AddTimeout
    <2> HIDE DEF k
    <2>4. k \in 1 .. Len(list) /\ ~(list[k].next < t.next)
      BY <2>2
    <2>5. \A j \in 1 .. Len(list) : j < k => list[j].next < t.next
      <3>1. \A j \in 1 .. Len(list) : j < k => j \notin later
        BY <1>0, <2>2, <2>4
      <3> QED BY <3>1
    <2>6. \A j \in 1 .. Len(list) : ~(j < k) => t.next <= list[j].next
      <3> SUFFICES ASSUME NEW j \in 1 .. Len(list), ~(j < k) PROVE t.next <= list[j].next
        OBVIOUS
      <3>1. list[k].next <= list[j].next
        BY <1>0, <2>4 DEF SortedFrom
      <3> QED BY <1>0, <2>4, <3>1
    <2>7. /\ InsertAt(list, k, t) \in Seq(Timer)
          /\ Len(InsertAt(list, k, t)) = Len(list) + 1
          /\ \A j \in 1 .. Len(list) + 1 :
                InsertAt(list, k, t)[j] = IF j < k THEN list[j]
                                          ELSE IF j = k THEN t ELSE list[j - 1]
      BY <2>4, InsertFacts
    <2>8. k \in 1 .. Len(list) + 1
      BY <1>0, <2>4
    <2> HIDE DEF later
    <2> QED BY <2>3, <2>5, <2>6, <2>7, <2>8
  <1> QED BY <1>1, <1>2

(* The list stays sorted and free of doubles.                                *)
LEMMA AddFacts ==
  ASSUME NEW list \in Seq(Timer), NEW t \in Timer, SortedFrom(list, 1), Distinct(list),
         \A i \in 1 .. Len(list) : list[i].id # t.id
  PROVE  LET new == AddTimeout(list, t) IN
         /\ new \in Seq(Timer) /\ SortedFrom(new, 1) /\ Distinct(new)
         /\ ToSet(new) = ToSet(list) \cup {t}
  <1> DEFINE new == AddTimeout(list, t)
             n == Len(list)
  <1>0. /\ n \in Nat /\ t.next \in Nat
        /\ \A i \in 1 .. n : list[i] \in Timer /\ list[i].next \in Nat
    BY TimerFacts DEF Timer
  <1>1. new \in Seq(Timer) /\ Len(new) = n + 1
    BY AddPlace
  <1>2. PICK k \in 1 .. n + 1 :
              /\ \A j \in 1 .. n + 1 :
                    new[j] = IF j < k THEN list[j] ELSE IF j = k THEN t ELSE list[j - 1]
              /\ \A j \in 1 .. n : IF j < k THEN list[j].next < t.next
                                   ELSE t.next <= list[j].next
    BY AddPlace
  <1>3. SortedFrom(list, 1) /\ Distinct(list) /\ DOMAIN list = 1 .. n
    OBVIOUS
  <1>4. DOMAIN new = 1 .. n + 1
    BY <1>1
  <1>a. \A i, j \in 1 .. n : i <= j => list[i].next <= list[j].next
    BY <1>3 DEF SortedFrom
  <1>b. \A i, j \in 1 .. n : list[i].id = list[j].id => i = j
    BY <1>3 DEF Distinct
  <1> HIDE DEF new, n
  <1>5. \A j \in 1 .. n + 1 : \/ j < k /\ j \in 1 .. n /\ new[j] = list[j]
                              \/ j = k /\ new[j] = t
                              \/ j > k /\ j - 1 \in 1 .. n /\ new[j] = list[j - 1]
    BY <1>0, <1>2
  <1>6. ASSUME NEW i \in 1 .. n + 1, NEW j \in 1 .. n + 1, i <= j
        PROVE  new[i].next <= new[j].next
    <2>1. CASE i < k
      <3>1. CASE j < k
        BY <1>5, <1>6, <1>a, <2>1, <3>1
      <3>2. CASE j = k
        BY <1>0, <1>2, <1>5, <2>1, <3>2
      <3>3. CASE j > k
        <4>1. i <= j - 1 /\ i \in 1 .. n /\ j - 1 \in 1 .. n
          BY <1>0, <2>1, <3>3
        <4> QED BY <1>5, <1>a, <2>1, <3>3, <4>1
      <3> QED BY <1>0, <3>1, <3>2, <3>3
    <2>2. CASE i = k
      <3>1. CASE j = k
        BY <1>0, <1>5, <2>2, <3>1
      <3>2. CASE j > k
        <4>1. j - 1 \in 1 .. n /\ ~(j - 1 < k)
          BY <1>0, <3>2
        <4> QED BY <1>2, <1>5, <2>2, <3>2, <4>1
      <3> QED BY <1>0, <1>6, <2>2, <3>1, <3>2
    <2>3. CASE i > k
      <3>1. j > k /\ i - 1 \in 1 .. n /\ j - 1 \in 1 .. n /\ i - 1 <= j - 1
        BY <1>0, <1>6, <2>3
      <3> QED BY <1>5, <1>a, <2>3, <3>1
    <2> QED BY <1>0, <2>1, <2>2, <2>3
  <1>7. ASSUME NEW i \in 1 .. n + 1, NEW j \in 1 .. n + 1, new[i].id = new[j].id
        PROVE  i = j
    <2> DEFINE p == IF i < k THEN i ELSE i - 1
               q == IF j < k THEN j ELSE j - 1
    <2>0. \A m \in 1 .. n : list[m].id # t.id
      BY DEF n
    <2>1. CASE i = k
      BY <1>0, <1>5, <1>7, <2>0, <2>1
    <2>2. CASE j = k
      BY <1>0, <1>5, <1>7, <2>0, <2>2
    <2>3. CASE i # k /\ j # k
      <3>1. p \in 1 .. n /\ q \in 1 .. n /\ new[i] = list[p] /\ new[j] = list[q]
        BY <1>0, <1>5, <2>3
      <3>2. p = q
        <4> HIDE DEF p, q
        <4> QED BY <1>7, <1>b, <3>1
      <3> QED BY <1>0, <2>3, <3>2
    <2> QED BY <2>1, <2>2, <2>3
  <1>8. ToSet(new) = ToSet(list) \cup {t}
    <2>1. ToSet(new) = {new[j] : j \in 1 .. n + 1} /\ ToSet(list) = {list[i] : i \in 1 .. n}
      BY <1>3, <1>4 DEF ToSet
    <2>2. ASSUME NEW i \in 1 .. n PROVE \E j \in 1 .. n + 1 : new[j] = list[i]
      <3>1. CASE i < k
        <4>1. i \in 1 .. n + 1 /\ new[i] = list[i]
          BY <1>0, <1>2, <3>1
        <4> QED BY <4>1
      <3>2. CASE ~(i < k)
        <4>1. i + 1 \in 1 .. n + 1 /\ ~(i + 1 < k) /\ i + 1 # k /\ (i + 1) - 1 = i
          BY <1>0, <3>2
        <4>2. new[i + 1] = list[i]
          BY <1>2, <4>1
        <4> QED BY <4>1, <4>2
      <3> QED BY <3>1, <3>2
    <2>3. \A j \in 1 .. n + 1 : new[j] = t \/ \E i \in 1 .. n : new[j] = list[i]
      BY <1>5
    <2>4. new[k] = t
      BY <1>0, <1>2
    <2> QED BY <2>1, <2>2, <2>3, <2>4
  <1>9. SortedFrom(new, 1) /\ Distinct(new)
    BY <1>1, <1>6, <1>7 DEF SortedFrom, Distinct
  <1> QED BY <1>1, <1>8, <1>9 DEF new

(* merged is what its equation says: such a function exists, as one for the  *)
(* first k new timers extends to one for k + 1.                              *)
LEMMA MergeExists ==
  ASSUME NEW list, NEW new \in Seq(Timer)
  PROVE  \E f : /\ Merge(list, new) = f[Len(new)]
                /\ f[0] = list
                /\ \A n \in 1 .. Len(new) : f[n] = AddTimeout(f[n - 1], new[n])
  <1> DEFINE At(f, n) == IF n = 0 THEN list ELSE AddTimeout(f[n - 1], new[n])
             Good(k) == \E f : \A n \in 0 .. k : f[n] = At(f, n)
             Bad == {k \in 0 .. Len(new) : ~Good(k)}
             Sat(f) == f = [n \in 0 .. Len(new) |->
                              IF n = 0 THEN list ELSE AddTimeout(f[n - 1], new[n])]
             merged == CHOOSE f : Sat(f)
  <1>0. Len(new) \in Nat
    BY TimerFacts
  <1>1. Good(0)
    <2> DEFINE f == [n \in {0} |-> list]
    <2>1. \A n \in 0 .. 0 : f[n] = At(f, n)
      OBVIOUS
    <2> HIDE DEF f, At
    <2> QED BY <2>1
  <1>2. ASSUME NEW k \in Nat, Good(k) PROVE Good(k + 1)
    <2>1. PICK f : \A n \in 0 .. k : f[n] = At(f, n)
      BY <1>2
    <2> DEFINE g == [n \in 0 .. k + 1 |-> IF n = k + 1 THEN At(f, n) ELSE f[n]]
    <2>2. \A n \in 0 .. k + 1 : g[n] = IF n = k + 1 THEN At(f, n) ELSE f[n]
      OBVIOUS
    <2> HIDE DEF g
    <2>3. ASSUME NEW n \in 0 .. k + 1 PROVE g[n] = At(g, n)
      <3>1. g[n] = At(f, n)
        <4> HIDE DEF At
        <4>1. n = k + 1 \/ n \in 0 .. k
          OBVIOUS
        <4> QED BY <2>1, <2>2, <4>1
      <3>2. At(g, n) = At(f, n)
        <4>1. CASE n = 0
          BY <4>1
        <4>2. CASE n # 0
          <5>1. n - 1 \in 0 .. k + 1 /\ n - 1 # k + 1
            BY <4>2
          <5>2. g[n - 1] = f[n - 1]
            BY <2>2, <5>1
          <5> QED BY <5>2
        <4> QED BY <4>1, <4>2
      <3> QED BY <3>1, <3>2
    <2> HIDE DEF At
    <2> QED BY <2>3
  <1>3. Bad = {}
    <2> HIDE DEF Good
    <2> SUFFICES ASSUME Bad # {} PROVE FALSE
      OBVIOUS
    <2>1. Bad \subseteq Nat
      BY <1>0
    <2>2. PICK k \in Bad : \A j \in Bad : k <= j
      <3> HIDE DEF Bad
      <3> QED BY <2>1, LeastPlace
    <2>3. k \in Nat /\ k <= Len(new) /\ k # 0 /\ ~Good(k)
      BY <1>0, <1>1, <2>2
    <2>4. k - 1 \in 0 .. Len(new) /\ k - 1 \in Nat /\ k - 1 + 1 = k /\ ~(k <= k - 1)
      BY <1>0, <2>3
    <2>5. Good(k - 1)
      BY <2>2, <2>4
    <2>6. Good(k)
      BY <1>2, <2>4, <2>5
    <2> QED BY <2>3, <2>6
  <1>4. Good(Len(new))
    <2> HIDE DEF Good
    <2> QED BY <1>0, <1>3
  <1>5. PICK f : \A n \in 0 .. Len(new) : f[n] = At(f, n)
    BY <1>4
  <1> DEFINE g == [n \in 0 .. Len(new) |-> f[n]]
  <1>6. Sat(g)
    <2>1. \A n \in 0 .. Len(new) : g[n] = f[n]
      OBVIOUS
    <2>2. g = [n \in 0 .. Len(new) |-> g[n]]
      OBVIOUS
    <2> HIDE DEF g
    <2>3. ASSUME NEW n \in 0 .. Len(new) PROVE g[n] = At(g, n)
      <3>1. CASE n = 0
        BY <1>5, <2>1, <3>1
      <3>2. CASE n # 0
        <4>1. n - 1 \in 0 .. Len(new)
          BY <1>0, <3>2
        <4>2. g[n - 1] = f[n - 1]
          BY <2>1, <4>1
        <4> QED BY <1>5, <2>1, <3>2, <4>2
      <3> QED BY <3>1, <3>2
    <2> QED BY <2>2, <2>3
  <1>7. Sat(merged)
    <2> HIDE DEF Sat, g
    <2> QED BY <1>6
  <1>8. Merge(list, new) = merged[Len(new)]
    BY DEF Merge
  <1> HIDE DEF merged
  <1>9. merged[0] = list
    BY <1>0, <1>7
  <1>10. ASSUME NEW n \in 1 .. Len(new) PROVE merged[n] = AddTimeout(merged[n - 1], new[n])
    <2>1. n \in 0 .. Len(new) /\ n # 0
      BY <1>0
    <2> QED BY <1>7, <2>1
  <1> QED BY <1>8, <1>9, <1>10

(* The merged list is sorted, has all timers and none of them twice.         *)
LEMMA MergeFacts ==
  ASSUME NEW list \in Seq(Timer), NEW new \in Seq(Timer),
         SortedFrom(list, 1), Distinct(list), Distinct(new), Disjoint(list, new)
  PROVE  /\ Merge(list, new) \in Seq(Timer) /\ SortedFrom(Merge(list, new), 1)
         /\ Distinct(Merge(list, new))
         /\ ToSet(Merge(list, new)) = ToSet(list) \cup ToSet(new)
  <1>0. /\ Len(new) \in Nat /\ DOMAIN new = 1 .. Len(new) /\ DOMAIN list = 1 .. Len(list)
        /\ Len(list) \in Nat /\ \A i \in 1 .. Len(new) : new[i] \in Timer
    BY TimerFacts
  <1>1. PICK f : /\ Merge(list, new) = f[Len(new)]
                 /\ f[0] = list
                 /\ \A n \in 1 .. Len(new) : f[n] = AddTimeout(f[n - 1], new[n])
    BY MergeExists
  <1> DEFINE Good(n) == /\ f[n] \in Seq(Timer) /\ SortedFrom(f[n], 1) /\ Distinct(f[n])
                        /\ ToSet(f[n]) = ToSet(list) \cup {new[i] : i \in 1 .. n}
             Bad == {n \in 0 .. Len(new) : ~Good(n)}
  <1>2. Good(0)
    <2>1. {new[i] : i \in 1 .. 0} = {}
      OBVIOUS
    <2> QED BY <1>1, <2>1
  <1>3. ASSUME NEW n \in 1 .. Len(new), Good(n - 1) PROVE Good(n)
    <2> SUFFICES ASSUME NEW l, l = f[n - 1] PROVE Good(n)
      OBVIOUS
    <2>1. /\ l \in Seq(Timer) /\ SortedFrom(l, 1) /\ Distinct(l)
          /\ ToSet(l) = ToSet(list) \cup {new[i] : i \in 1 .. n - 1}
      BY <1>3
    <2>2. f[n] = AddTimeout(l, new[n]) /\ new[n] \in Timer
      BY <1>0, <1>1
    <2>3. ASSUME NEW j \in 1 .. Len(l) PROVE l[j].id # new[n].id
      <3>1. l[j] \in ToSet(l)
        BY <2>1, TimerFacts DEF ToSet
      <3>2. CASE l[j] \in ToSet(list)
        <4>1. PICK i \in 1 .. Len(list) : l[j] = list[i]
          BY <1>0, <3>2 DEF ToSet
        <4> QED BY <4>1 DEF Disjoint
      <3>3. CASE \E i \in 1 .. n - 1 : l[j] = new[i]
        <4>1. PICK i \in 1 .. n - 1 : l[j] = new[i]
          BY <3>3
        <4>2. i \in 1 .. Len(new) /\ i # n
          BY <1>0, <4>1
        <4> QED BY <4>1, <4>2 DEF Distinct
      <3> QED BY <2>1, <3>1, <3>2, <3>3
    <2>4. /\ f[n] \in Seq(Timer) /\ SortedFrom(f[n], 1) /\ Distinct(f[n])
          /\ ToSet(f[n]) = ToSet(l) \cup {new[n]}
      BY <2>1, <2>2, <2>3, AddFacts
    <2>5. {new[i] : i \in 1 .. n} = {new[i] : i \in 1 .. n - 1} \cup {new[n]}
      <3>1. \A i : i \in 1 .. n <=> i \in 1 .. n - 1 \/ i = n
        BY <1>0
      <3> QED BY <3>1
    <2>6. ToSet(f[n]) = ToSet(list) \cup {new[i] : i \in 1 .. n}
      BY <2>1, <2>4, <2>5
    <2> QED BY <2>4, <2>6
  <1>4. Bad = {}
    <2> HIDE DEF Good
    <2> SUFFICES ASSUME Bad # {} PROVE FALSE
      OBVIOUS
    <2>1. Bad \subseteq Nat
      BY <1>0
    <2>2. PICK k \in Bad : \A j \in Bad : k <= j
      <3> HIDE DEF Bad
      <3> QED BY <2>1, LeastPlace
    <2>3. k \in 1 .. Len(new) /\ ~Good(k)
      BY <1>0, <1>2, <2>2
    <2>4. k - 1 \in 0 .. Len(new) /\ ~(k <= k - 1)
      BY <1>0, <2>3
    <2>5. Good(k - 1)
      BY <2>2, <2>4
    <2> QED BY <1>3, <2>3, <2>5
  <1>5. Good(Len(new))
    <2> HIDE DEF Good
    <2> QED BY <1>0, <1>4
  <1>6. ToSet(new) = {new[i] : i \in 1 .. Len(new)}
    BY <1>0 DEF ToSet
  <1> QED BY <1>1, <1>5, <1>6

(* A list and the set of its timers.                                         *)
LEMMA SetFacts ==
  ASSUME NEW list \in Seq(Timer)
  PROVE  /\ ToSet(list) = {list[i] : i \in 1 .. Len(list)} /\ ToSet(list) \subseteq Timer
         /\ list # <<>> => Head(list) = list[1] /\ 1 \in 1 .. Len(list) /\ list[1] \in ToSet(list)
         /\ list = <<>> => ToSet(list) = {} /\ Len(list) = 0
         /\ Distinct(list) => \A t, u \in ToSet(list) : t.id = u.id => t = u
         /\ \A n : Within(list, n) <=> \A t \in ToSet(list) : t.id <= n
  <1>1. /\ Len(list) \in Nat /\ DOMAIN list = 1 .. Len(list)
        /\ \A i \in 1 .. Len(list) : list[i] \in Timer
    BY TimerFacts
  <1>2. ToSet(list) = {list[i] : i \in 1 .. Len(list)}
    BY <1>1 DEF ToSet
  <1>3. list # <<>> => Head(list) = list[1] /\ 1 \in 1 .. Len(list)
    BY <1>1, EmptySeq, HeadTailProperties
  <1>4. list = <<>> => Len(list) = 0
    OBVIOUS
  <1>5. Distinct(list) => \A t, u \in ToSet(list) : t.id = u.id => t = u
    BY <1>2 DEF Distinct
  <1>6. ASSUME NEW n PROVE Within(list, n) <=> \A t \in ToSet(list) : t.id <= n
    BY <1>2 DEF Within
  <1> QED BY <1>1, <1>2, <1>3, <1>4, <1>5, <1>6

LEMMA DisjointFacts ==
  ASSUME NEW list \in Seq(Timer), NEW other \in Seq(Timer)
  PROVE  Disjoint(list, other) <=> \A t \in ToSet(list), u \in ToSet(other) : t.id # u.id
  <1>1. /\ ToSet(list) = {list[i] : i \in 1 .. Len(list)}
        /\ ToSet(other) = {other[i] : i \in 1 .. Len(other)}
    BY SetFacts
  <1> QED BY <1>1 DEF Disjoint

(* A list without its timer i.                                               *)
LEMMA DropFacts ==
  ASSUME NEW list \in Seq(Timer), NEW i \in 1 .. Len(list), NEW new \in Seq(Timer),
         Len(new) = Len(list) - 1, Distinct(list),
         \A j \in 1 .. Len(list) - 1 : new[j] = IF j < i THEN list[j] ELSE list[j + 1]
  PROVE  /\ Distinct(new) /\ ToSet(new) = ToSet(list) \ {list[i]}
         /\ SortedFrom(list, 1) => SortedFrom(new, 1)
         /\ SortedFrom(list, 2) /\ i = 1 => SortedFrom(new, 1)
         /\ SortedFrom(list, 2) /\ i # 1 => SortedFrom(new, 2)
         /\ i # 1 => new # <<>> /\ new[1] = list[1]
  <1> DEFINE From(j) == IF j < i THEN j ELSE j + 1
  <1>1. /\ Len(list) \in Nat
        /\ \A j \in 1 .. Len(list) : list[j] \in Timer /\ list[j].next \in Nat
    BY TimerFacts
  <1>2. ASSUME NEW j \in 1 .. Len(new)
        PROVE  From(j) \in 1 .. Len(list) /\ From(j) # i /\ new[j] = list[From(j)]
    BY <1>1
  <1>3. ASSUME NEW j \in 1 .. Len(new), NEW k \in 1 .. Len(new)
        PROVE  (From(j) = From(k) => j = k) /\ (j <= k => From(j) <= From(k))
    OBVIOUS
  <1>4. ASSUME NEW j \in 1 .. Len(list), j # i PROVE \E k \in 1 .. Len(new) : From(k) = j
    <2>1. CASE j < i
      <3>1. j \in 1 .. Len(new) /\ From(j) = j
        BY <1>1, <2>1
      <3> QED BY <3>1
    <2>2. CASE j > i
      <3>1. j - 1 \in 1 .. Len(new) /\ From(j - 1) = j
        BY <1>1, <2>2
      <3> QED BY <3>1
    <2> QED BY <1>1, <1>4, <2>1, <2>2
  <1>5. \A j \in 1 .. Len(new) : /\ From(j) >= 1 /\ (i = 1 => From(j) >= 2)
                                 /\ (j >= 2 => From(j) >= 2)
    OBVIOUS
  <1>6. i # 1 => 1 \in 1 .. Len(new) /\ From(1) = 1
    BY <1>1
  <1> HIDE DEF From
  <1>7. Distinct(new)
    <2> SUFFICES ASSUME NEW j \in 1 .. Len(new), NEW k \in 1 .. Len(new), new[j].id = new[k].id
                 PROVE  j = k
      BY DEF Distinct
    <2>1. list[From(j)].id = list[From(k)].id
      BY <1>2
    <2>2. From(j) = From(k)
      BY <1>2, <2>1 DEF Distinct
    <2> QED BY <1>3, <2>2
  <1>8. ToSet(new) = ToSet(list) \ {list[i]}
    <2>1. \A j \in 1 .. Len(list) : j # i => list[j] # list[i]
      BY DEF Distinct
    <2>2. /\ ToSet(new) = {new[j] : j \in 1 .. Len(new)}
          /\ ToSet(list) = {list[j] : j \in 1 .. Len(list)}
      BY SetFacts
    <2>3. ASSUME NEW j \in 1 .. Len(new) PROVE new[j] \in ToSet(list) \ {list[i]}
      BY <1>2, <2>1, <2>2
    <2>4. ASSUME NEW j \in 1 .. Len(list), j # i PROVE list[j] \in ToSet(new)
      <3>1. PICK k \in 1 .. Len(new) : From(k) = j
        BY <1>4, <2>4
      <3> QED BY <1>2, <2>2, <3>1
    <2>5. \A t \in ToSet(new) : t \in ToSet(list) \ {list[i]}
      BY <2>2, <2>3
    <2>6. \A t \in ToSet(list) \ {list[i]} : t \in ToSet(new)
      BY <2>2, <2>4
    <2> QED BY <2>5, <2>6
  <1>9. SortedFrom(list, 1) => SortedFrom(new, 1)
    <2> SUFFICES ASSUME SortedFrom(list, 1),
                        NEW j \in 1 .. Len(new), NEW k \in 1 .. Len(new), j <= k
                 PROVE  new[j].next <= new[k].next
      BY DEF SortedFrom
    <2> QED BY <1>2, <1>3 DEF SortedFrom
  <1>10. SortedFrom(list, 2) => SortedFrom(new, IF i = 1 THEN 1 ELSE 2)
    <2> SUFFICES ASSUME SortedFrom(list, 2),
                        NEW j \in (IF i = 1 THEN 1 ELSE 2) .. Len(new),
                        NEW k \in (IF i = 1 THEN 1 ELSE 2) .. Len(new), j <= k
                 PROVE  new[j].next <= new[k].next
      BY DEF SortedFrom
    <2>1. j \in 1 .. Len(new) /\ k \in 1 .. Len(new) /\ (i # 1 => j >= 2 /\ k >= 2)
      OBVIOUS
    <2>2. From(j) \in 2 .. Len(list) /\ From(k) \in 2 .. Len(list) /\ From(j) <= From(k)
      BY <1>1, <1>2, <1>3, <1>5, <2>1
    <2> QED BY <1>2, <2>1, <2>2 DEF SortedFrom
  <1>11. i # 1 => new # <<>> /\ new[1] = list[1]
    BY <1>2, <1>6
  <1> QED BY <1>7, <1>8, <1>9, <1>10, <1>11

-----------------------------------------------------------------------------
(* The two lists.                                                            *)

LEMMA ListsFacts ==
  ASSUME NEW P, NEW N, NEW k, NEW n, Lists(P, N, k, n)
  PROVE  /\ ToSet(P) \subseteq Timer /\ ToSet(N) \subseteq Timer
         /\ \A t, u \in ToSet(P) \cup ToSet(N) : t.id = u.id => t = u
         /\ \A t \in ToSet(P), u \in ToSet(N) : t.id # u.id
         /\ \A t \in ToSet(P) \cup ToSet(N) : t.id \in Nat /\ t.next \in Nat /\ t.id <= n
         /\ P # <<>> => Head(P) = P[1] /\ 1 \in 1 .. Len(P) /\ P[1] \in ToSet(P)
  <1>1. P \in Seq(Timer) /\ N \in Seq(Timer)
    BY DEF Lists
  <1>2. ToSet(P) \subseteq Timer /\ ToSet(N) \subseteq Timer
    BY <1>1, SetFacts
  <1>3. \A t \in ToSet(P), u \in ToSet(N) : t.id # u.id
    BY <1>1, DisjointFacts DEF Lists
  <1>4. \A t \in ToSet(P) \cup ToSet(N) : t.id <= n
    BY <1>1, SetFacts DEF Lists
  <1>5. /\ \A t, u \in ToSet(P) : t.id = u.id => t = u
        /\ \A t, u \in ToSet(N) : t.id = u.id => t = u
    BY <1>1, SetFacts DEF Lists
  <1>6. \A t \in Timer : t.id \in Nat /\ t.next \in Nat
    BY DEF Timer
  <1>7. P # <<>> => Head(P) = P[1] /\ 1 \in 1 .. Len(P) /\ P[1] \in ToSet(P)
    BY <1>1, SetFacts
  <1> QED BY <1>2, <1>3, <1>4, <1>5, <1>6, <1>7

(* A timer is set.                                                           *)
LEMMA ListsAdd ==
  ASSUME NEW P, NEW N, NEW n \in Nat, Lists(P, N, 1, n), NEW t \in Timer, t.id = n + 1
  PROVE  /\ Lists(AddTimeout(P, t), N, 1, n + 1)
         /\ ToSet(AddTimeout(P, t)) = ToSet(P) \cup {t}
  <1>1. P \in Seq(Timer) /\ N \in Seq(Timer) /\ \A i \in 1 .. Len(P) : P[i] \in ToSet(P)
    BY SetFacts DEF Lists
  <1>2. \A u \in ToSet(P) \cup ToSet(N) : u.id \in Nat /\ u.id <= n
    BY ListsFacts
  <1>3. \A i \in 1 .. Len(P) : P[i].id # t.id
    BY <1>1, <1>2
  <1> DEFINE L == AddTimeout(P, t)
  <1>4. /\ L \in Seq(Timer) /\ SortedFrom(L, 1) /\ Distinct(L) /\ ToSet(L) = ToSet(P) \cup {t}
    BY <1>1, <1>3, AddFacts DEF Lists
  <1> HIDE DEF L
  <1>5. Within(L, n + 1) /\ Within(N, n + 1)
    <2>1. \A u \in ToSet(L) \cup ToSet(N) : u.id <= n + 1
      BY <1>2, <1>4
    <2> QED BY <1>1, <1>4, <2>1, SetFacts
  <1>6. Disjoint(L, N)
    <2>1. \A u \in ToSet(L), v \in ToSet(N) : u.id # v.id
      BY <1>2, <1>4, ListsFacts
    <2> QED BY <1>1, <1>4, <2>1, DisjointFacts
  <1>7. Lists(L, N, 1, n + 1)
    BY <1>1, <1>4, <1>5, <1>6 DEF Lists
  <1> QED BY <1>4, <1>7 DEF L

LEMMA ListsAppend ==
  ASSUME NEW P, NEW N, NEW k, NEW n \in Nat, Lists(P, N, k, n), NEW t \in Timer, t.id = n + 1
  PROVE  /\ Lists(P, Append(N, t), k, n + 1)
         /\ ToSet(Append(N, t)) = ToSet(N) \cup {t}
  <1>1. /\ P \in Seq(Timer) /\ N \in Seq(Timer) /\ \A i \in 1 .. Len(N) : N[i] \in ToSet(N)
        /\ Len(N) \in Nat /\ ToSet(N) = {N[i] : i \in 1 .. Len(N)}
    BY SetFacts DEF Lists
  <1>2. \A u \in ToSet(P) \cup ToSet(N) : u.id \in Nat /\ u.id <= n
    BY ListsFacts
  <1> DEFINE L == Append(N, t)
  <1>3. /\ L \in Seq(Timer) /\ Len(L) = Len(N) + 1
        /\ \A i \in 1 .. Len(N) : L[i] = N[i]
        /\ L[Len(N) + 1] = t
    BY <1>1, AppendProperties
  <1> HIDE DEF L
  <1>4. \A i \in 1 .. Len(L) : \/ i \in 1 .. Len(N) /\ L[i] = N[i] /\ N[i].id # t.id
                               \/ i = Len(N) + 1 /\ L[i] = t
    BY <1>1, <1>2, <1>3
  <1>5. Distinct(L)
    <2>1. \A i, j \in 1 .. Len(N) : N[i].id = N[j].id => i = j
      BY DEF Lists, Distinct
    <2>2. \A i, j \in 1 .. Len(L) : L[i].id = L[j].id => i = j
      BY <1>4, <2>1
    <2> QED BY <2>2 DEF Distinct
  <1>6. ToSet(L) = ToSet(N) \cup {t}
    <2>1. ToSet(L) = {L[i] : i \in 1 .. Len(L)}
      BY <1>3, SetFacts
    <2>2. Len(N) + 1 \in 1 .. Len(L) /\ \A i \in 1 .. Len(N) : i \in 1 .. Len(L)
      BY <1>1, <1>3
    <2> QED BY <1>1, <1>3, <1>4, <2>1, <2>2
  <1>7. Within(P, n + 1) /\ Within(L, n + 1)
    <2>1. \A u \in ToSet(P) \cup ToSet(L) : u.id <= n + 1
      BY <1>2, <1>6
    <2> QED BY <1>1, <1>3, <2>1, SetFacts
  <1>8. Disjoint(P, L)
    <2>1. \A u \in ToSet(P), v \in ToSet(L) : u.id # v.id
      BY <1>2, <1>6, ListsFacts
    <2> QED BY <1>1, <1>3, <2>1, DisjointFacts
  <1>9. Lists(P, L, k, n + 1)
    BY <1>1, <1>3, <1>5, <1>7, <1>8 DEF Lists
  <1> QED BY <1>6, <1>9 DEF L

(* Timers leave: Lists holds of lists with fewer timers.                     *)
LEMMA ListsShrink ==
  ASSUME NEW P, NEW N, NEW k, NEW n, Lists(P, N, k, n),
         NEW Q \in Seq(Timer), NEW M \in Seq(Timer), NEW m, SortedFrom(Q, m),
         Distinct(Q), Distinct(M), ToSet(Q) \subseteq ToSet(P), ToSet(M) \subseteq ToSet(N)
  PROVE  Lists(Q, M, m, n)
  <1>1. Disjoint(Q, M)
    <2>1. \A t \in ToSet(Q), u \in ToSet(M) : t.id # u.id
      BY ListsFacts
    <2> QED BY <2>1, DisjointFacts
  <1>2. Within(Q, n) /\ Within(M, n)
    <2>1. \A t \in ToSet(Q) \cup ToSet(M) : t.id <= n
      BY ListsFacts
    <2> QED BY <2>1, SetFacts
  <1> QED BY <1>1, <1>2 DEF Lists

LEMMA ListsRemovePending ==
  ASSUME NEW P, NEW N, NEW k, k = 1 \/ k = 2, NEW n, Lists(P, N, k, n),
         NEW i \in 1 .. Len(P)
  PROVE  /\ i = 1 => Lists(RemoveAt(P, i), N, 1, n)
         /\ i # 1 => Lists(RemoveAt(P, i), N, k, n)
         /\ ToSet(RemoveAt(P, i)) = ToSet(P) \ {P[i]}
         /\ i # 1 => RemoveAt(P, i) # <<>> /\ Head(RemoveAt(P, i)) = P[1]
  <1> DEFINE Q == RemoveAt(P, i)
  <1>1. P \in Seq(Timer) /\ N \in Seq(Timer) /\ Distinct(P) /\ Distinct(N)
    BY DEF Lists
  <1>2. /\ Q \in Seq(Timer) /\ Len(Q) = Len(P) - 1
        /\ \A j \in 1 .. Len(P) - 1 : Q[j] = IF j < i THEN P[j] ELSE P[j + 1]
    BY <1>1, RemoveFacts
  <1> HIDE DEF Q
  <1>3. /\ Distinct(Q) /\ ToSet(Q) = ToSet(P) \ {P[i]}
        /\ SortedFrom(P, 1) => SortedFrom(Q, 1)
        /\ SortedFrom(P, 2) /\ i = 1 => SortedFrom(Q, 1)
        /\ SortedFrom(P, 2) /\ i # 1 => SortedFrom(Q, 2)
        /\ i # 1 => Q # <<>> /\ Q[1] = P[1]
    BY <1>1, <1>2, DropFacts
  <1>4. (i = 1 => SortedFrom(Q, 1)) /\ (i # 1 => SortedFrom(Q, k))
    BY <1>3 DEF Lists
  <1>5. (i = 1 => Lists(Q, N, 1, n)) /\ (i # 1 => Lists(Q, N, k, n))
    BY <1>1, <1>2, <1>3, <1>4, ListsShrink
  <1>6. i # 1 => Q # <<>> /\ Head(Q) = P[1]
    BY <1>2, <1>3, SetFacts
  <1> QED BY <1>3, <1>5, <1>6 DEF Q

LEMMA ListsRemoveNew ==
  ASSUME NEW P, NEW N, NEW k, NEW n, Lists(P, N, k, n), NEW i \in 1 .. Len(N)
  PROVE  /\ Lists(P, RemoveAt(N, i), k, n)
         /\ ToSet(RemoveAt(N, i)) = ToSet(N) \ {N[i]}
  <1> DEFINE M == RemoveAt(N, i)
  <1>1. P \in Seq(Timer) /\ N \in Seq(Timer) /\ Distinct(P) /\ Distinct(N) /\ SortedFrom(P, k)
    BY DEF Lists
  <1>2. /\ M \in Seq(Timer) /\ Len(M) = Len(N) - 1
        /\ \A j \in 1 .. Len(N) - 1 : M[j] = IF j < i THEN N[j] ELSE N[j + 1]
    BY <1>1, RemoveFacts
  <1> HIDE DEF M
  <1>3. Distinct(M) /\ ToSet(M) = ToSet(N) \ {N[i]}
    BY <1>1, <1>2, DropFacts
  <1>4. Lists(P, M, k, n)
    BY <1>1, <1>2, <1>3, ListsShrink
  <1> QED BY <1>3, <1>4 DEF M

LEMMA ListsTail ==
  ASSUME NEW P, NEW N, NEW k \in {1, 2}, NEW n, Lists(P, N, k, n), P # <<>>
  PROVE  Lists(Tail(P), N, 1, n) /\ ToSet(Tail(P)) = ToSet(P) \ {P[1]}
  <1>1. P \in Seq(Timer) /\ N \in Seq(Timer) /\ Distinct(P) /\ Distinct(N)
    BY DEF Lists
  <1>2. 1 \in 1 .. Len(P) /\ Len(P) \in Nat
    BY <1>1, SetFacts
  <1> DEFINE Q == Tail(P)
  <1>3. /\ Q \in Seq(Timer) /\ Len(Q) = Len(P) - 1
        /\ \A j \in 1 .. Len(P) - 1 : Q[j] = P[j + 1]
    BY <1>1, HeadTailProperties
  <1> HIDE DEF Q
  <1>4. \A j \in 1 .. Len(P) - 1 : Q[j] = IF j < 1 THEN P[j] ELSE P[j + 1]
    BY <1>3
  <1>5. /\ Distinct(Q) /\ ToSet(Q) = ToSet(P) \ {P[1]}
        /\ SortedFrom(P, 1) => SortedFrom(Q, 1)
        /\ SortedFrom(P, 2) => SortedFrom(Q, 1)
    BY <1>1, <1>2, <1>3, <1>4, DropFacts
  <1>6. SortedFrom(Q, 1)
    BY <1>5 DEF Lists
  <1>7. Lists(Q, N, 1, n)
    BY <1>1, <1>3, <1>5, <1>6, ListsShrink
  <1> QED BY <1>5, <1>7 DEF Q

(* The interval that has been called waits with the new timers.              *)
LEMMA ListsReturn ==
  ASSUME NEW P, NEW N, NEW k \in {1, 2}, NEW n, Lists(P, N, k, n), P # <<>>
  PROVE  /\ Lists(Tail(P), <<P[1]>> \o N, 1, n)
         /\ ToSet(<<P[1]>> \o N) = ToSet(N) \cup {P[1]}
  <1> DEFINE Q == Tail(P)
             t == P[1]
             M == <<t>> \o N
  <1>1. Lists(Q, N, 1, n) /\ ToSet(Q) = ToSet(P) \ {t}
    BY ListsTail
  <1>2. Q \in Seq(Timer) /\ N \in Seq(Timer) /\ Distinct(Q) /\ Distinct(N) /\ SortedFrom(Q, 1)
    BY <1>1 DEF Lists
  <1>3. t \in ToSet(P) /\ t \in Timer
    BY ListsFacts
  <1>4. /\ M \in Seq(Timer) /\ Len(M) = Len(N) + 1
        /\ \A j \in 1 .. Len(N) + 1 : M[j] = IF j = 1 THEN t ELSE N[j - 1]
    BY <1>2, <1>3, PrependFacts
  <1>5. /\ Len(N) \in Nat /\ ToSet(N) = {N[i] : i \in 1 .. Len(N)}
        /\ \A i \in 1 .. Len(N) : N[i] \in ToSet(N)
    BY <1>2, SetFacts
  <1>6. \A u, v \in ToSet(P) \cup ToSet(N) : u.id = v.id => u = v
    BY ListsFacts
  <1>7. \A u \in ToSet(P), v \in ToSet(N) : u.id # v.id
    BY ListsFacts
  <1>a. \A u \in ToSet(P) \cup ToSet(N) : u.id <= n
    BY ListsFacts
  <1> HIDE DEF Q, t, M
  <1>8. \A j \in 1 .. Len(M) : \/ j = 1 /\ M[j] = t
                               \/ j # 1 /\ j - 1 \in 1 .. Len(N) /\ M[j] = N[j - 1]
    BY <1>4, <1>5
  <1>9. Distinct(M)
    <2>1. \A i, j \in 1 .. Len(N) : N[i].id = N[j].id => i = j
      BY <1>2 DEF Distinct
    <2>2. \A i \in 1 .. Len(N) : N[i].id # t.id
      BY <1>3, <1>5, <1>7
    <2>3. ASSUME NEW i \in 1 .. Len(M), NEW j \in 1 .. Len(M), M[i].id = M[j].id PROVE i = j
      <3>1. CASE i = 1
        BY <1>8, <2>2, <2>3, <3>1
      <3>2. CASE j = 1
        BY <1>8, <2>2, <2>3, <3>2
      <3>3. CASE i # 1 /\ j # 1
        <4>1. /\ i - 1 \in 1 .. Len(N) /\ M[i] = N[i - 1]
              /\ j - 1 \in 1 .. Len(N) /\ M[j] = N[j - 1]
          BY <1>8, <3>3
        <4>2. N[i - 1].id = N[j - 1].id
          BY <2>3, <4>1
        <4>3. i - 1 = j - 1
          BY <2>1, <4>1, <4>2
        <4> QED BY <1>4, <1>5, <4>3
      <3> QED BY <3>1, <3>2, <3>3
    <2> QED BY <2>3 DEF Distinct
  <1>10. ToSet(M) = ToSet(N) \cup {t}
    <2>1. ToSet(M) = {M[i] : i \in 1 .. Len(M)}
      BY <1>4, SetFacts
    <2>2. ASSUME NEW i \in 1 .. Len(N) PROVE \E j \in 1 .. Len(M) : M[j] = N[i]
      <3>1. i + 1 \in 1 .. Len(M) /\ i + 1 # 1 /\ (i + 1) - 1 = i
        BY <1>4, <1>5
      <3> QED BY <1>4, <3>1
    <2>3. 1 \in 1 .. Len(M) /\ M[1] = t
      BY <1>4, <1>5
    <2>4. \A j \in 1 .. Len(M) : M[j] \in ToSet(N) \cup {t}
      BY <1>5, <1>8
    <2>5. \A u \in ToSet(N) : u \in ToSet(M)
      BY <1>5, <2>1, <2>2
    <2> QED BY <2>1, <2>3, <2>4, <2>5
  <1>11. Disjoint(Q, M)
    <2>1. \A u \in ToSet(Q), v \in ToSet(M) : u.id # v.id
      BY <1>1, <1>3, <1>6, <1>7, <1>10
    <2> QED BY <1>2, <1>4, <2>1, DisjointFacts
  <1>12. Within(Q, n) /\ Within(M, n)
    <2>1. \A u \in ToSet(Q) \cup ToSet(M) : u.id <= n
      BY <1>1, <1>3, <1>10, <1>a
    <2> QED BY <1>2, <1>4, <2>1, SetFacts
  <1>13. Lists(Q, M, 1, n)
    BY <1>2, <1>4, <1>9, <1>11, <1>12 DEF Lists
  <1> QED BY <1>10, <1>13 DEF Q, t, M

(* The head of the list is called: an interval gets its next time.           *)
LEMMA ListsCall ==
  ASSUME NEW P, NEW N, NEW n, Lists(P, N, 1, n), P # <<>>, NEW x \in Nat
  PROVE  LET t == P[1]
             u == [t EXCEPT !.next = x]
             Q == [P EXCEPT ![1].next = x]
         IN  /\ Lists(P, N, 2, n) /\ \A v \in ToSet(P) : t.next <= v.next
             /\ Lists(Q, N, 2, n) /\ Q # <<>> /\ Head(Q) = u
             /\ u.id = t.id /\ u \in Timer /\ u \notin ToSet(P) \ {t}
             /\ ToSet(Q) = (ToSet(P) \ {t}) \cup {u}
  <1> DEFINE t == P[1]
             u == [t EXCEPT !.next = x]
             Q == [P EXCEPT ![1].next = x]
  <1>1. /\ P \in Seq(Timer) /\ N \in Seq(Timer) /\ SortedFrom(P, 1) /\ Distinct(P)
        /\ Disjoint(P, N) /\ Within(P, n) /\ Distinct(N) /\ Within(N, n)
    BY DEF Lists
  <1>2. /\ Len(P) \in Nat /\ 1 \in 1 .. Len(P) /\ t \in Timer /\ DOMAIN P = 1 .. Len(P)
        /\ ToSet(P) = {P[i] : i \in 1 .. Len(P)}
    BY <1>1, SetFacts, TimerFacts
  <1>3. u \in Timer /\ u.id = t.id
    BY <1>2 DEF Timer
  <1>4. Q = [P EXCEPT ![1] = u]
    BY <1>2
  <1>5. Q \in Seq(Timer) /\ Len(Q) = Len(P)
    BY <1>1, <1>2, <1>3, <1>4, ExceptSeq
  <1>6. Q[1] = u /\ \A i \in 1 .. Len(P) : i # 1 => Q[i] = P[i]
    BY <1>2, <1>4
  <1> HIDE DEF Q, u, t
  <1>7. \A i \in 1 .. Len(P) : Q[i].id = P[i].id
    BY <1>3, <1>6 DEF t
  <1>8. Distinct(Q) /\ Within(Q, n) /\ Disjoint(Q, N)
    BY <1>1, <1>5, <1>7 DEF Distinct, Within, Disjoint
  <1>9. SortedFrom(P, 2)
    BY <1>1 DEF SortedFrom
  <1>10. SortedFrom(Q, 2)
    <2> SUFFICES ASSUME NEW i \in 2 .. Len(Q), NEW j \in 2 .. Len(Q), i <= j
                 PROVE  Q[i].next <= Q[j].next
      BY DEF SortedFrom
    <2>1. Q[i] = P[i] /\ Q[j] = P[j]
      BY <1>2, <1>5, <1>6
    <2> QED BY <1>5, <1>9, <2>1 DEF SortedFrom
  <1>11. Lists(P, N, 2, n) /\ Lists(Q, N, 2, n)
    BY <1>1, <1>5, <1>8, <1>9, <1>10 DEF Lists
  <1>12. \A v \in ToSet(P) : t.next <= v.next
    BY <1>1, <1>2 DEF SortedFrom, t
  <1>13. \A i \in 1 .. Len(P) : i # 1 => P[i] # t /\ P[i] # u
    BY <1>1, <1>2, <1>3 DEF Distinct, t
  <1>14. u \notin ToSet(P) \ {t}
    BY <1>2, <1>13 DEF t
  <1>15. ToSet(Q) = {Q[i] : i \in 1 .. Len(P)}
    BY <1>5, SetFacts
  <1>16. ToSet(Q) = (ToSet(P) \ {t}) \cup {u}
    BY <1>2, <1>6, <1>13, <1>15 DEF t
  <1>17. Q # <<>> /\ Head(Q) = u
    BY <1>2, <1>5, <1>6, SetFacts
  <1> QED BY <1>3, <1>11, <1>12, <1>14, <1>16, <1>17 DEF Q, u, t

LEMMA ListsMerge ==
  ASSUME NEW P, NEW N, NEW n, Lists(P, N, 1, n)
  PROVE  /\ Lists(Merge(P, N), <<>>, 1, n)
         /\ ToSet(Merge(P, N)) = ToSet(P) \cup ToSet(N)
  <1> DEFINE Q == Merge(P, N)
  <1>1. P \in Seq(Timer) /\ N \in Seq(Timer)
    BY DEF Lists
  <1>2. /\ Q \in Seq(Timer) /\ SortedFrom(Q, 1) /\ Distinct(Q)
        /\ ToSet(Q) = ToSet(P) \cup ToSet(N)
    BY <1>1, MergeFacts DEF Lists
  <1> HIDE DEF Q
  <1>3. <<>> \in Seq(Timer) /\ Len(<<>>) = 0
    OBVIOUS
  <1>4. Distinct(<<>>) /\ Within(<<>>, n) /\ Disjoint(Q, <<>>)
    BY <1>3 DEF Distinct, Within, Disjoint
  <1>5. Within(Q, n)
    <2>1. \A t \in ToSet(Q) : t.id <= n
      BY <1>2, ListsFacts
    <2> QED BY <1>2, <2>1, SetFacts
  <1>6. Lists(Q, <<>>, 1, n)
    BY <1>2, <1>3, <1>4, <1>5 DEF Lists
  <1> QED BY <1>2, <1>6 DEF Q

LEMMA ListsEmpty ==
  ASSUME NEW n
  PROVE  Lists(<<>>, <<>>, 1, n) /\ ToSet(<<>>) = {}
  <1>1. <<>> \in Seq(Timer) /\ Len(<<>>) = 0 /\ DOMAIN <<>> = {} /\ 1 .. 0 = {}
    OBVIOUS
  <1> QED BY <1>1 DEF Lists, SortedFrom, Distinct, Disjoint, Within, ToSet

-----------------------------------------------------------------------------
(* The steps of the timers.                                                  *)

LEMMA TimersInit == FrameInit => TimerInv /\ Service!Init
  <1> SUFFICES ASSUME FrameInit PROVE TimerInv /\ Service!Init
    OBVIOUS
  <1>1. /\ phase = "off" /\ m_FrameTime = 0 /\ m_bStopping = FALSE /\ s_LastID = 0
        /\ m_PendingTimeouts = <<>> /\ m_NewTimeouts = <<>> /\ m_bCurrentTimeoutDeleted = FALSE
    BY DEF FrameInit
  <1>2. Lists(m_PendingTimeouts, m_NewTimeouts, 1, s_LastID)
    BY <1>1, ListsEmpty
  <1>3. TimerInv
    BY <1>1, <1>2 DEF TimerInv, HasCurrent, m_bInHandleTimers, Phases
  <1>4. ToSet(m_PendingTimeouts) = {} /\ ToSet(m_NewTimeouts) = {}
    BY <1>1, ListsEmpty
  <1> QED BY <1>1, <1>3, <1>4 DEF Service!Init, Ready, m_bInHandleTimers

(* Where no timer is called, none is callable and all will be called.        *)
LEMMA IdleFacts ==
  /\ phase \notin {"timers", "timer"} => Current = {} /\ Ready = {}
  /\ phase' \notin {"timers", "timer"} => Current' = {} /\ Ready' = {}
  BY DEF Current, Ready, m_bInHandleTimers

LEMMA TimersQuiet ==
  ASSUME TimerInv, UNCHANGED <<timerVars, m_FrameTime, m_bStopping>>, phase' \in Phases,
         \/ phase' = phase
         \/ phase \notin {"timers", "timer"} /\ phase' \notin {"timers", "timer"}
  PROVE  TimerInv' /\ UNCHANGED Service!vars
  <1>1. UNCHANGED <<m_PendingTimeouts, m_NewTimeouts, m_bCurrentTimeoutDeleted, s_LastID,
                    m_FrameTime, m_bStopping>>
    BY DEF timerVars
  <1>2. HasCurrent' = HasCurrent /\ m_bInHandleTimers' = m_bInHandleTimers
    BY <1>1 DEF HasCurrent, m_bInHandleTimers
  <1>3. TimerInv'
    BY <1>1, <1>2 DEF TimerInv
  <1>4. Current' = Current /\ Ready' = Ready
    <2>1. CASE phase' = phase
      BY <1>1, <2>1 DEF Current, Ready, m_bInHandleTimers
    <2>2. CASE phase \notin {"timers", "timer"} /\ phase' \notin {"timers", "timer"}
      BY <2>2, IdleFacts
    <2> QED BY <2>1, <2>2
  <1> QED BY <1>1, <1>3, <1>4 DEF Service!vars

LEMMA SetStep ==
  ASSUME TimerInv, SetTimeout
  PROVE  TimerInv' /\ Service!Set
  <1>1. PICK time \in Times, isInterval \in BOOLEAN :
          LET t == [id |-> s_LastID + 1, next |-> m_FrameTime + time,
                    interval |-> time, repeats |-> isInterval]
          IN  IF m_bInHandleTimers
              THEN /\ m_NewTimeouts' = Append(m_NewTimeouts, t)
                   /\ UNCHANGED m_PendingTimeouts
              ELSE /\ m_PendingTimeouts' = AddTimeout(m_PendingTimeouts, t)
                   /\ UNCHANGED m_NewTimeouts
    BY DEF SetTimeout
  <1>2. /\ phase \in {"off", "timer", "events", "listener"} /\ s_LastID' = s_LastID + 1
        /\ UNCHANGED <<phase, m_FrameTime, m_bStopping, m_bCurrentTimeoutDeleted>>
    BY DEF SetTimeout
  <1>3. PICK t : t = [id |-> s_LastID + 1, next |-> m_FrameTime + time,
                      interval |-> time, repeats |-> isInterval]
    OBVIOUS
  <1>4. m_FrameTime \in Nat /\ s_LastID \in Nat /\ time \in Nat
    BY DEF TimerInv
  <1>5. t \in Timer /\ t.id = s_LastID + 1
    BY <1>3, <1>4 DEF Timer
  <1>6. HasCurrent' = HasCurrent /\ m_bInHandleTimers' = m_bInHandleTimers
    BY <1>2 DEF HasCurrent, m_bInHandleTimers
  <1>a. Lists(m_PendingTimeouts, m_NewTimeouts, IF HasCurrent THEN 2 ELSE 1, s_LastID)
    BY DEF TimerInv
  <1>7. /\ Lists(m_PendingTimeouts', m_NewTimeouts', IF HasCurrent THEN 2 ELSE 1, s_LastID')
        /\ ToSet(m_PendingTimeouts') \cup ToSet(m_NewTimeouts') =
              (ToSet(m_PendingTimeouts) \cup ToSet(m_NewTimeouts)) \cup {t}
        /\ Current' = Current /\ Ready' = Ready /\ t \notin Current
        /\ HasCurrent => m_PendingTimeouts' # <<>>
        /\ ~m_bInHandleTimers => m_NewTimeouts' = <<>>
    <2>0. /\ t \notin ToSet(m_PendingTimeouts)
          /\ HasCurrent => Head(m_PendingTimeouts) \in ToSet(m_PendingTimeouts)
      BY <1>4, <1>5, <1>a, ListsFacts DEF TimerInv
    <2>1. CASE m_bInHandleTimers
      <3>1. m_NewTimeouts' = Append(m_NewTimeouts, t) /\ UNCHANGED m_PendingTimeouts
        BY <1>1, <1>3, <2>1
      <3>2. /\ Lists(m_PendingTimeouts, Append(m_NewTimeouts, t),
                   IF HasCurrent THEN 2 ELSE 1, s_LastID + 1)
            /\ ToSet(Append(m_NewTimeouts, t)) = ToSet(m_NewTimeouts) \cup {t}
        BY <1>4, <1>5, <1>a, ListsAppend
      <3>3. Current' = Current
        BY <1>2, <3>1 DEF Current
      <3>4. Ready' = Ready
        BY <1>2, <1>6, <3>1, <3>3 DEF Ready
      <3>5. t \notin Current
        BY <2>0 DEF Current, HasCurrent
      <3>6. HasCurrent => m_PendingTimeouts' # <<>>
        BY <3>1 DEF TimerInv
      <3> QED BY <1>2, <2>1, <3>1, <3>2, <3>3, <3>4, <3>5, <3>6
    <2>2. CASE ~m_bInHandleTimers
      <3>1. m_PendingTimeouts' = AddTimeout(m_PendingTimeouts, t) /\ UNCHANGED m_NewTimeouts
        BY <1>1, <1>3, <2>2
      <3>2. phase \notin {"timers", "timer"} /\ ~HasCurrent
        BY <2>2 DEF m_bInHandleTimers, HasCurrent
      <3>3. /\ Lists(AddTimeout(m_PendingTimeouts, t), m_NewTimeouts, 1, s_LastID + 1)
            /\ ToSet(AddTimeout(m_PendingTimeouts, t)) = ToSet(m_PendingTimeouts) \cup {t}
        BY <1>4, <1>5, <1>a, <3>2, ListsAdd
      <3>4. Current' = {} /\ Current = {} /\ Ready' = {} /\ Ready = {}
        BY <1>2, <3>2, IdleFacts
      <3>5. m_NewTimeouts' = <<>>
        BY <2>2, <3>1 DEF TimerInv
      <3> QED BY <1>2, <3>1, <3>2, <3>3, <3>4, <3>5
    <2> QED BY <2>1, <2>2
  <1>8. TimerInv'
    <2>1. Lists(m_PendingTimeouts', m_NewTimeouts', IF HasCurrent' THEN 2 ELSE 1, s_LastID')
      BY <1>6, <1>7
    <2>2. s_LastID' \in Nat /\ m_FrameTime' \in Nat
      BY <1>2, <1>4
    <2>3. /\ phase' \in Phases /\ m_bCurrentTimeoutDeleted' \in BOOLEAN
          /\ m_bCurrentTimeoutDeleted' => phase' = "timer"
      BY <1>2 DEF TimerInv
    <2>4. /\ HasCurrent' => m_PendingTimeouts' # <<>>
          /\ ~m_bInHandleTimers' => m_NewTimeouts' = <<>>
      BY <1>6, <1>7
    <2> QED BY <2>1, <2>2, <2>3, <2>4 DEF TimerInv
  <1>9. Timers' = Timers \cup {t}
    BY <1>7 DEF Timers
  <1>10. Service!Set
    <2>1. Timers' = Timers \cup {[id |-> s_LastID + 1, next |-> m_FrameTime + time,
                                  interval |-> time, repeats |-> isInterval]}
      BY <1>3, <1>9
    <2> QED BY <1>2, <1>7, <2>1 DEF Service!Set, Timers
  <1> QED BY <1>8, <1>10

LEMMA DueFacts ==
  ASSUME NEW S, NEW t \in S, \A u, v \in S : u.id = v.id => u = v, NEW time
  PROVE  /\ Due(S \ {t}, time) = Due(S, time) \ {t.id}
         /\ t.next <= time => t.id \in Due(S, time)
  BY DEF Due

LEMMA ReadyIs ==
  /\ Ready = IF m_bInHandleTimers THEN Due(ToSet(m_PendingTimeouts) \ Current, m_FrameTime)
             ELSE {}
  /\ Ready' = IF m_bInHandleTimers'
              THEN Due(ToSet(m_PendingTimeouts') \ Current', m_FrameTime') ELSE {}
  BY DEF Ready, Due

LEMMA FireStep ==
  ASSUME TimerInv, Fire
  PROVE  TimerInv' /\ \E t \in Timers : Service!Call(t)
  <1> SUFFICES ASSUME NEW t, t = m_PendingTimeouts[1]
               PROVE  TimerInv' /\ \E v \in Timers : Service!Call(v)
    OBVIOUS
  <1> DEFINE P == m_PendingTimeouts
             N == m_NewTimeouts
             x == m_FrameTime + t.interval
             u == [t EXCEPT !.next = x]
  <1>1. /\ phase = "timers" /\ phase' = "timer" /\ ~m_bStopping /\ m_bCurrentTimeoutDeleted = FALSE
        /\ UNCHANGED <<m_FrameTime, m_bStopping, m_NewTimeouts, m_bCurrentTimeoutDeleted, s_LastID>>
        /\ P # <<>> /\ Head(P).next <= m_FrameTime
        /\ P' = IF Head(P).repeats
                THEN [P EXCEPT ![1].next = m_FrameTime + Head(P).interval] ELSE P
    BY DEF Fire, IsReady, TimerInv
  <1>2. Lists(P, N, 1, s_LastID) /\ m_FrameTime \in Nat /\ s_LastID \in Nat
    BY <1>1 DEF TimerInv, HasCurrent
  <1>3. /\ Head(P) = t /\ t \in ToSet(P) /\ t \in Timer
        /\ \A v, w \in ToSet(P) \cup ToSet(N) : v.id = w.id => v = w
        /\ \A v \in ToSet(P), w \in ToSet(N) : v.id # w.id
    BY <1>1, <1>2, ListsFacts
  <1>4. x \in Nat
    BY <1>2, <1>3 DEF Timer
  <1>5. /\ Lists(P, N, 2, s_LastID) /\ \A v \in ToSet(P) : t.next <= v.next
        /\ Lists([P EXCEPT ![1].next = x], N, 2, s_LastID)
        /\ [P EXCEPT ![1].next = x] # <<>> /\ Head([P EXCEPT ![1].next = x]) = u
        /\ u.id = t.id /\ u \in Timer /\ u \notin ToSet(P) \ {t}
        /\ ToSet([P EXCEPT ![1].next = x]) = (ToSet(P) \ {t}) \cup {u}
    <2>1. t = P[1] /\ P # <<>>
      BY <1>1
    <2> HIDE DEF P, N, x
    <2>2. LET first == P[1]
              next == [first EXCEPT !.next = x]
              Q == [P EXCEPT ![1].next = x]
          IN  /\ Lists(P, N, 2, s_LastID) /\ \A v \in ToSet(P) : first.next <= v.next
              /\ Lists(Q, N, 2, s_LastID) /\ Q # <<>> /\ Head(Q) = next
              /\ next.id = first.id /\ next \in Timer /\ next \notin ToSet(P) \ {first}
              /\ ToSet(Q) = (ToSet(P) \ {first}) \cup {next}
      BY <1>2, <1>4, <2>1, ListsCall
    <2> QED BY <2>1, <2>2
  <1>6. u.repeats = t.repeats /\ t.repeats \in BOOLEAN
    BY <1>3 DEF Timer
  <1> DEFINE c == IF t.repeats THEN u ELSE t
  <1>7. /\ Lists(P', N, 2, s_LastID) /\ P' # <<>> /\ Head(P') = c
        /\ ToSet(P') = (ToSet(P) \ {t}) \cup {c}
        /\ c \notin ToSet(P) \ {t} /\ c.repeats = t.repeats
    <2>1. CASE t.repeats
      <3>1. P' = [P EXCEPT ![1].next = x] /\ c = u
        BY <1>1, <1>3, <2>1
      <3> HIDE DEF P, N, u, x, c
      <3> QED BY <1>5, <1>6, <3>1
    <2>2. CASE ~t.repeats
      <3>1. P' = P /\ c = t
        BY <1>1, <1>3, <2>2
      <3>2. P # <<>>
        BY <1>1
      <3> HIDE DEF P, N, u, x, c
      <3> QED BY <1>3, <1>5, <3>1, <3>2
    <2> QED BY <1>6, <2>1, <2>2
  <1>8. TimerInv'
    <2>1. HasCurrent' /\ m_bInHandleTimers'
      BY <1>1 DEF HasCurrent, m_bInHandleTimers
    <2>2. Lists(m_PendingTimeouts', m_NewTimeouts', IF HasCurrent' THEN 2 ELSE 1, s_LastID')
      BY <1>1, <1>7, <2>1
    <2> QED BY <1>1, <1>2, <1>7, <2>1, <2>2 DEF TimerInv, Phases
  <1>9. Current = {} /\ Current' = {c}
    <2>1. Current' = {Head(P')}
      BY <1>1 DEF Current
    <2> QED BY <1>1, <1>7, <2>1 DEF Current
  <1> HIDE DEF c
  <1>10. Timers = ToSet(P) \cup ToSet(N)
    BY <1>9 DEF Timers
  <1>11. Timers' = (((ToSet(P) \ {t}) \cup {c}) \cup ToSet(N)) \ {v \in {c} : ~v.repeats}
    BY <1>1, <1>7, <1>9 DEF Timers
  <1>12. Ready = Due(ToSet(P), m_FrameTime) /\ Ready' = Due(ToSet(P) \ {t}, m_FrameTime)
    <2>1. ToSet(P') \ Current' = ToSet(P) \ {t} /\ ToSet(P) \ Current = ToSet(P)
      BY <1>7, <1>9
    <2>2. m_bInHandleTimers /\ m_bInHandleTimers'
      BY <1>1 DEF m_bInHandleTimers
    <2> QED BY <1>1, <2>1, <2>2, ReadyIs
  <1>13. Ready' = Ready \ {t.id} /\ t.id \in Ready
    <2>1. t \in ToSet(P) /\ t.next <= m_FrameTime /\ \A v, w \in ToSet(P) : v.id = w.id => v = w
      BY <1>1, <1>3
    <2>2. /\ Due(ToSet(P) \ {t}, m_FrameTime) = Due(ToSet(P), m_FrameTime) \ {t.id}
          /\ t.id \in Due(ToSet(P), m_FrameTime)
      BY <2>1, DueFacts
    <2> QED BY <1>12, <2>2
  <1>14. ASSUME NEW v \in Timers, v.id \in Ready PROVE t.next <= v.next
    <2>1. PICK w \in ToSet(P) : v.id = w.id
      BY <1>12, <1>14 DEF Due
    <2>2. v \in ToSet(P)
      BY <1>3, <1>10, <2>1
    <2> QED BY <1>5, <2>2
  <1>15. Timers' = (Timers \ {t}) \cup
                     {[v EXCEPT !.next = m_FrameTime + v.interval] : v \in {w \in {t} : w.repeats}}
    <2>1. t \notin ToSet(N)
      BY <1>3
    <2>2. CASE t.repeats
      <3>1. {[v EXCEPT !.next = m_FrameTime + v.interval] : v \in {w \in {t} : w.repeats}} = {u}
        BY <2>2
      <3>2. c = u /\ c.repeats
        BY <1>6, <2>2 DEF c
      <3> HIDE DEF u, P, N
      <3> QED BY <1>10, <1>11, <2>1, <3>1, <3>2
    <2>3. CASE ~t.repeats
      <3>1. {w \in {t} : w.repeats} = {}
        BY <2>3
      <3>2. c = t /\ ~c.repeats
        BY <2>3 DEF c
      <3> HIDE DEF u, P, N
      <3> QED BY <1>10, <1>11, <2>1, <3>1, <3>2
    <2> QED BY <1>6, <2>2, <2>3
  <1>16. t \in Timers
    BY <1>3, <1>10
  <1>17. Service!Call(t)
    BY <1>1, <1>13, <1>14, <1>15 DEF Service!Call, Timers
  <1> QED BY <1>8, <1>16, <1>17

LEMMA FireReturnsStep ==
  ASSUME TimerInv, FireReturns
  PROVE  TimerInv' /\ UNCHANGED Service!vars
  <1> DEFINE P == m_PendingTimeouts
             N == m_NewTimeouts
             t == P[1]
  <1>1. /\ phase = "timer" /\ phase' = "timers" /\ m_bCurrentTimeoutDeleted' = FALSE
        /\ UNCHANGED <<m_FrameTime, m_bStopping, s_LastID>>
        /\ m_FrameTime \in Nat /\ s_LastID \in Nat /\ m_bCurrentTimeoutDeleted \in BOOLEAN
    BY DEF FireReturns, TimerInv
  <1>2. Lists(P, N, IF m_bCurrentTimeoutDeleted THEN 1 ELSE 2, s_LastID)
    BY <1>1 DEF TimerInv, HasCurrent
  <1>3. /\ ~HasCurrent' /\ m_bInHandleTimers' /\ m_bInHandleTimers /\ Current' = {}
        /\ \A v \in ToSet(P), w \in ToSet(N) : v.id # w.id
    BY <1>1, <1>2, ListsFacts DEF HasCurrent, m_bInHandleTimers, Current
  <1>4. /\ Lists(P', N', 1, s_LastID)
        /\ Timers' = Timers /\ ToSet(P') \ Current' = ToSet(P) \ Current
    <2>1. CASE m_bCurrentTimeoutDeleted
      <3>1. P' = P /\ N' = N /\ Current = {}
        BY <2>1 DEF FireReturns, Current
      <3> QED BY <1>2, <1>3, <2>1, <3>1 DEF Timers
    <2>2. CASE ~m_bCurrentTimeoutDeleted
      <3>1. P # <<>> /\ Lists(P, N, 2, s_LastID) /\ Current = {Head(P)}
        BY <1>1, <1>2, <2>2 DEF TimerInv, HasCurrent, Current
      <3>2. Head(P) = t /\ t \in ToSet(P)
        BY <3>1, ListsFacts
      <3>3. P' = Tail(P) /\ N' = IF t.repeats THEN <<t>> \o N ELSE N
        BY <2>2, <3>2 DEF FireReturns
      <3>4. /\ Lists(Tail(P), N, 1, s_LastID) /\ ToSet(Tail(P)) = ToSet(P) \ {t}
            /\ Lists(Tail(P), <<t>> \o N, 1, s_LastID) /\ ToSet(<<t>> \o N) = ToSet(N) \cup {t}
        BY <3>1, ListsTail, ListsReturn
      <3>5. t \notin ToSet(N)
        BY <1>3, <3>2
      <3> HIDE DEF P, N, t
      <3>6. Timers = (ToSet(P) \cup ToSet(N)) \ {v \in {t} : ~v.repeats}
        BY <3>1, <3>2 DEF Timers, P, N
      <3>7. Timers' = ToSet(P') \cup ToSet(N')
        BY <1>3 DEF Timers, P, N
      <3>8. CASE t.repeats
        <4>1. N' = <<t>> \o N
          BY <3>3, <3>8
        <4> QED BY <1>3, <3>1, <3>2, <3>3, <3>4, <3>6, <3>7, <3>8, <4>1
      <3>9. CASE ~t.repeats
        <4>1. N' = N
          BY <3>3, <3>9
        <4> QED BY <1>3, <3>1, <3>2, <3>3, <3>4, <3>5, <3>6, <3>7, <3>9, <4>1
      <3> QED BY <3>8, <3>9
    <2> QED BY <1>1, <2>1, <2>2
  <1>5. TimerInv'
    BY <1>1, <1>3, <1>4 DEF TimerInv, Phases
  <1>6. Ready' = Ready
    BY <1>1, <1>3, <1>4, ReadyIs
  <1> QED BY <1>1, <1>4, <1>5, <1>6 DEF Service!vars, Timers

LEMMA TimersDoneStep ==
  ASSUME TimerInv, TimersDone
  PROVE  TimerInv' /\ (Service!GiveUp \/ UNCHANGED Service!vars)
  <1> DEFINE P == m_PendingTimeouts
             N == m_NewTimeouts
  <1>1. /\ phase = "timers" /\ phase' = "events" /\ m_bCurrentTimeoutDeleted = FALSE
        /\ P' = Merge(P, N) /\ N' = <<>> /\ (~IsReady \/ m_bStopping)
        /\ UNCHANGED <<m_FrameTime, m_bStopping, m_bCurrentTimeoutDeleted, s_LastID>>
        /\ m_FrameTime \in Nat /\ s_LastID \in Nat
    BY DEF TimersDone, TimerInv
  <1>2. Lists(P, N, 1, s_LastID)
    BY <1>1 DEF TimerInv, HasCurrent
  <1>3. /\ ~HasCurrent' /\ ~m_bInHandleTimers' /\ m_bInHandleTimers
        /\ Current = {} /\ Current' = {} /\ Ready' = {}
    BY <1>1, IdleFacts DEF HasCurrent, m_bInHandleTimers, Current
  <1>4. Lists(P', N', 1, s_LastID) /\ ToSet(P') = ToSet(P) \cup ToSet(N) /\ ToSet(N') = {}
    BY <1>1, <1>2, ListsMerge, ListsEmpty
  <1>5. TimerInv'
    BY <1>1, <1>3, <1>4 DEF TimerInv, Phases
  <1>6. Timers' = Timers
    BY <1>3, <1>4 DEF Timers
  <1>7. CASE m_bStopping
    <2>1. Service!GiveUp
      BY <1>1, <1>3, <1>6, <1>7 DEF Service!GiveUp, Timers
    <2> QED BY <1>5, <2>1
  <1>8. CASE ~m_bStopping
    <2>1. ~IsReady
      BY <1>1, <1>8
    <2>2. ASSUME NEW v \in ToSet(P) PROVE ~(v.next <= m_FrameTime)
      <3>1. P # <<>>
        BY <2>2, ListsEmpty
      <3>2. /\ Head(P) = P[1] /\ P[1] \in ToSet(P)
            /\ \A w \in ToSet(P) : w.next \in Nat
        BY <1>2, <3>1, ListsFacts
      <3>3. P[1].next <= v.next
        BY <1>2, <2>2, <3>1, ListsCall
      <3>4. ~(P[1].next <= m_FrameTime)
        BY <2>1, <3>1, <3>2 DEF IsReady
      <3> QED BY <1>1, <3>2, <3>3, <3>4
    <2>3. Ready = {}
      BY <1>3, <2>2, ReadyIs DEF Due
    <2> QED BY <1>1, <1>3, <1>5, <1>6, <2>3 DEF Service!vars, Timers
  <1> QED BY <1>7, <1>8

LEMMA ClearStep ==
  ASSUME TimerInv, ClearInterval
  PROVE  TimerInv' /\ ((\E t \in Timers : Service!Clear(t)) \/ UNCHANGED Service!vars)
  <1> DEFINE P == m_PendingTimeouts
             N == m_NewTimeouts
             k == IF HasCurrent THEN 2 ELSE 1
  <1>1. /\ phase \in {"off", "timer", "events", "listener"}
        /\ UNCHANGED <<phase, m_FrameTime, m_bStopping, s_LastID>>
        /\ m_FrameTime \in Nat /\ s_LastID \in Nat /\ m_bCurrentTimeoutDeleted \in BOOLEAN
    BY DEF ClearInterval, TimerInv
  <1>2. Lists(P, N, k, s_LastID) /\ (k = 1 \/ k = 2)
    BY DEF TimerInv
  <1>3. /\ \A v, w \in ToSet(P) \cup ToSet(N) : v.id = w.id => v = w
        /\ \A v \in ToSet(P), w \in ToSet(N) : v.id # w.id
    BY <1>2, ListsFacts
  <1>4. /\ HasCurrent => /\ P # <<>> /\ Head(P) = P[1] /\ P[1] \in ToSet(P)
                         /\ Current = {P[1]} /\ phase = "timer"
        /\ ~HasCurrent => Current = {}
        /\ m_bInHandleTimers' = m_bInHandleTimers
    <2>1. HasCurrent => P # <<>> /\ Current = {Head(P)} /\ phase = "timer"
      BY DEF TimerInv, HasCurrent, Current
    <2>2. ~HasCurrent => Current = {}
      BY DEF HasCurrent, Current
    <2> QED BY <1>1, <1>2, <2>1, <2>2, ListsFacts DEF m_bInHandleTimers
  <1>5. ASSUME NEW t \in Timers, Current' = Current, t \notin Current,
               \/ ToSet(P') = ToSet(P) \ {t} /\ ToSet(N') = ToSet(N) /\ t \in ToSet(P)
               \/ ToSet(P') = ToSet(P) /\ ToSet(N') = ToSet(N) \ {t} /\ t \in ToSet(N)
        PROVE  \E v \in Timers : Service!Clear(v)
    <2> HIDE DEF P, N
    <2>1. Timers' = Timers \ {t}
      <3>1. /\ Timers = (ToSet(P) \cup ToSet(N)) \ {v \in Current : ~v.repeats}
            /\ Timers' = (ToSet(P') \cup ToSet(N')) \ {v \in Current' : ~v.repeats}
        BY DEF Timers, P, N
      <3>2. t \in ToSet(P) => t \notin ToSet(N)
        BY <1>3
      <3> QED BY <1>5, <3>1, <3>2
    <2>2. Ready' = Ready \ {t.id}
      <3>1. CASE m_bInHandleTimers
        <4>1. /\ Ready = Due(ToSet(P) \ Current, m_FrameTime)
              /\ Ready' = Due(ToSet(P') \ Current, m_FrameTime)
          BY <1>1, <1>4, <1>5, <3>1, ReadyIs DEF P
        <4>2. CASE ToSet(P') = ToSet(P) \ {t} /\ t \in ToSet(P)
          <5>1. ToSet(P') \ Current = (ToSet(P) \ Current) \ {t} /\ t \in ToSet(P) \ Current
            BY <1>5, <4>2
          <5>2. \A u, v \in ToSet(P) \ Current : u.id = v.id => u = v
            BY <1>3
          <5>3. Due((ToSet(P) \ Current) \ {t}, m_FrameTime)
                  = Due(ToSet(P) \ Current, m_FrameTime) \ {t.id}
            <6> SUFFICES ASSUME NEW S, S = ToSet(P) \ Current
                         PROVE  Due(S \ {t}, m_FrameTime) = Due(S, m_FrameTime) \ {t.id}
              OBVIOUS
            <6> QED BY <5>1, <5>2, DueFacts
          <5> QED BY <4>1, <5>1, <5>3
        <4>3. CASE ToSet(P') = ToSet(P) /\ t \in ToSet(N)
          <5>1. t.id \notin Ready
            BY <1>3, <4>1, <4>3 DEF Due
          <5> QED BY <4>1, <4>3, <5>1
        <4> QED BY <1>5, <4>2, <4>3
      <3>2. CASE ~m_bInHandleTimers
        BY <1>4, <3>2, ReadyIs
      <3> QED BY <3>1, <3>2
    <2>3. Service!Clear(t)
      BY <1>1, <2>1, <2>2 DEF Service!Clear, Timers
    <2> QED BY <2>3
  <1>6. ASSUME NEW i \in 1 .. Len(P), P' = RemoveAt(P, i), N' = N,
               m_bCurrentTimeoutDeleted' =
                 (m_bCurrentTimeoutDeleted \/ (i = 1 /\ m_bInHandleTimers))
        PROVE  TimerInv' /\ ((\E t \in Timers : Service!Clear(t)) \/ UNCHANGED Service!vars)
    <2> SUFFICES ASSUME NEW t, t = P[i]
                 PROVE  TimerInv' /\ ((\E v \in Timers : Service!Clear(v))
                                        \/ UNCHANGED Service!vars)
      OBVIOUS
    <2>1. /\ i = 1 => Lists(P', N, 1, s_LastID)
          /\ i # 1 => Lists(P', N, k, s_LastID)
          /\ ToSet(P') = ToSet(P) \ {t}
          /\ i # 1 => P' # <<>> /\ Head(P') = P[1]
      <3> HIDE DEF P, N, k
      <3>1. /\ i = 1 => Lists(RemoveAt(P, i), N, 1, s_LastID)
            /\ i # 1 => Lists(RemoveAt(P, i), N, k, s_LastID)
            /\ ToSet(RemoveAt(P, i)) = ToSet(P) \ {P[i]}
            /\ i # 1 => RemoveAt(P, i) # <<>> /\ Head(RemoveAt(P, i)) = P[1]
        BY <1>2, ListsRemovePending
      <3>2. P' = RemoveAt(P, i) /\ t = P[i]
        BY <1>6 DEF P
      <3> QED BY <3>1, <3>2
    <2>2. t \in ToSet(P)
      <3>1. P \in Seq(Timer)
        BY <1>2 DEF Lists
      <3> QED BY <3>1, SetFacts
    <2>3. HasCurrent' <=> HasCurrent /\ i # 1
      BY <1>1, <1>6 DEF HasCurrent, m_bInHandleTimers
    <2>4. TimerInv'
      <3>1. Lists(P', N', IF HasCurrent' THEN 2 ELSE 1, s_LastID')
        BY <1>1, <1>6, <2>1, <2>3
      <3>2. /\ m_bCurrentTimeoutDeleted' \in BOOLEAN
            /\ m_bCurrentTimeoutDeleted' => phase' = "timer"
        BY <1>1, <1>6 DEF TimerInv, m_bInHandleTimers
      <3>3. /\ phase' \in Phases /\ m_FrameTime' \in Nat /\ s_LastID' \in Nat
            /\ HasCurrent' => P' # <<>>
            /\ ~m_bInHandleTimers' => N' = <<>>
        BY <1>1, <1>4, <1>6, <2>1, <2>3 DEF TimerInv
      <3> QED BY <3>1, <3>2, <3>3 DEF TimerInv
    <2>5. CASE HasCurrent /\ i = 1
      <3>1. Current = {t} /\ Current' = {} /\ t = P[1]
        BY <1>4, <2>3, <2>5 DEF Current, HasCurrent
      <3>2. ToSet(P') \ Current' = ToSet(P) \ Current
        BY <2>1, <3>1
      <3>3. Ready' = Ready /\ t.id \notin Ready
        <4>1. m_bInHandleTimers
          BY <1>4, <2>5 DEF m_bInHandleTimers
        <4>2. Ready' = Ready /\ Ready = Due(ToSet(P) \ {t}, m_FrameTime)
          BY <1>1, <1>4, <3>1, <3>2, <4>1, ReadyIs
        <4> QED BY <1>3, <2>2, <4>2 DEF Due
      <3>4. /\ Timers = (ToSet(P) \cup ToSet(N)) \ {v \in {t} : ~v.repeats}
            /\ Timers' = (ToSet(P) \ {t}) \cup ToSet(N)
        BY <1>6, <2>1, <3>1 DEF Timers
      <3>5. t \notin ToSet(N)
        BY <1>3, <2>2
      <3>6. CASE t.repeats
        <4>1. Timers' = Timers \ {t} /\ t \in Timers
          <5> HIDE DEF P, N
          <5> QED BY <2>2, <3>4, <3>5, <3>6
        <4>2. Service!Clear(t)
          BY <1>1, <3>3, <4>1 DEF Service!Clear, Timers
        <4> QED BY <2>4, <4>1, <4>2
      <3>7. CASE ~t.repeats
        <4>1. Timers' = Timers
          <5> HIDE DEF P, N
          <5> QED BY <2>2, <3>4, <3>5, <3>7
        <4>2. UNCHANGED Service!vars
          BY <1>1, <3>3, <4>1 DEF Service!vars, Timers
        <4> QED BY <2>4, <4>2
      <3> QED BY <3>6, <3>7
    <2>6. CASE ~(HasCurrent /\ i = 1)
      <3>1. t \notin Current
        <4>1. CASE HasCurrent
          <5>1. Distinct(P) /\ i # 1 /\ 1 \in 1 .. Len(P)
            BY <1>2, <1>4, <2>6, <4>1, ListsFacts DEF Lists
          <5>2. P[i] # P[1]
            BY <5>1 DEF Distinct
          <5> QED BY <1>4, <4>1, <5>2
        <4> QED BY <1>4, <4>1
      <3>2. Current' = Current
        <4>1. CASE HasCurrent
          <5>1. HasCurrent' /\ Head(P') = P[1]
            BY <2>1, <2>3, <2>6, <4>1
          <5>2. Current' = {Head(P')}
            BY <5>1 DEF HasCurrent, Current
          <5> QED BY <1>4, <4>1, <5>1, <5>2
        <4>2. CASE ~HasCurrent
          <5>1. ~HasCurrent'
            BY <2>3, <4>2
          <5> QED BY <1>4, <4>2, <5>1 DEF HasCurrent, Current
        <4> QED BY <4>1, <4>2
      <3>3. t \in Timers
        BY <2>2, <3>1 DEF Timers
      <3> QED BY <1>5, <1>6, <2>1, <2>2, <2>4, <3>1, <3>2, <3>3
    <2> QED BY <2>5, <2>6
  <1>7. ASSUME NEW i \in 1 .. Len(N), N' = RemoveAt(N, i), P' = P,
               UNCHANGED m_bCurrentTimeoutDeleted
        PROVE  TimerInv' /\ \E t \in Timers : Service!Clear(t)
    <2> SUFFICES ASSUME NEW t, t = N[i]
                 PROVE  TimerInv' /\ \E v \in Timers : Service!Clear(v)
      OBVIOUS
    <2>1. Lists(P, N', k, s_LastID) /\ ToSet(N') = ToSet(N) \ {t}
      <3> HIDE DEF P, N, k
      <3> QED BY <1>2, <1>7, ListsRemoveNew
    <2>2. t \in ToSet(N)
      <3>1. N \in Seq(Timer)
        BY <1>2 DEF Lists
      <3> QED BY <3>1, SetFacts
    <2>3. HasCurrent' = HasCurrent /\ Current' = Current
      BY <1>1, <1>7 DEF HasCurrent, Current
    <2>4. m_bInHandleTimers
      <3>1. N # <<>>
        BY <2>2, ListsEmpty
      <3> QED BY <3>1 DEF TimerInv
    <2>5. TimerInv'
      BY <1>1, <1>4, <1>7, <2>1, <2>3, <2>4 DEF TimerInv
    <2>6. t \notin Current
      BY <1>3, <1>4, <2>2
    <2>7. t \in Timers
      BY <2>2, <2>6 DEF Timers
    <2> QED BY <1>5, <1>7, <2>1, <2>2, <2>3, <2>5, <2>6, <2>7
  <1>8. \/ \E i \in 1 .. Len(P) :
             /\ P' = RemoveAt(P, i) /\ N' = N
             /\ m_bCurrentTimeoutDeleted' =
                  (m_bCurrentTimeoutDeleted \/ (i = 1 /\ m_bInHandleTimers))
        \/ \E i \in 1 .. Len(N) :
             N' = RemoveAt(N, i) /\ P' = P /\ UNCHANGED m_bCurrentTimeoutDeleted
    BY DEF ClearInterval
  <1> QED BY <1>6, <1>7, <1>8

LEMMA NextFrameStep ==
  ASSUME TimerInv, NextFrame
  PROVE  TimerInv' /\ Service!Begin
  <1>1. /\ phase = "signal" /\ phase' = "timers" /\ m_FrameTime' \in m_FrameTime .. MaxTime
        /\ UNCHANGED <<m_bStopping, m_PendingTimeouts, m_NewTimeouts, m_bCurrentTimeoutDeleted,
                       s_LastID>>
        /\ m_FrameTime \in Nat /\ s_LastID \in Nat
    BY DEF NextFrame, TimerInv, timerVars
  <1>2. m_FrameTime' \in Nat /\ m_FrameTime' >= m_FrameTime
    BY <1>1
  <1>3. /\ ~HasCurrent /\ ~HasCurrent' /\ m_bInHandleTimers' /\ ~m_bInHandleTimers
        /\ Current = {} /\ Current' = {} /\ Ready = {}
    BY <1>1, IdleFacts DEF HasCurrent, m_bInHandleTimers, Current
  <1>4. /\ Lists(m_PendingTimeouts, m_NewTimeouts, 1, s_LastID)
        /\ m_NewTimeouts = <<>> /\ m_bCurrentTimeoutDeleted = FALSE
    BY <1>1, <1>3 DEF TimerInv
  <1>5. TimerInv'
    BY <1>1, <1>2, <1>3, <1>4 DEF TimerInv, Phases
  <1>6. Timers = ToSet(m_PendingTimeouts) /\ Timers' = Timers
    BY <1>1, <1>3, <1>4, ListsEmpty DEF Timers
  <1>7. Ready' = {t.id : t \in {u \in Timers : u.next <= m_FrameTime'}}
    BY <1>1, <1>3, <1>6, ReadyIs DEF Due
  <1> QED BY <1>1, <1>2, <1>3, <1>5, <1>6, <1>7 DEF Service!Begin, Timers

LEMMA PlayStep ==
  ASSUME TimerInv, Play
  PROVE  TimerInv' /\ Service!Start
  <1>1. /\ phase = "off" /\ phase' = "signal" /\ m_FrameTime' = 0 /\ m_bStopping' = FALSE
        /\ UNCHANGED <<m_PendingTimeouts, m_NewTimeouts, m_bCurrentTimeoutDeleted, s_LastID>>
    BY DEF Play, timerVars
  <1>2. /\ ~HasCurrent /\ ~HasCurrent' /\ ~m_bInHandleTimers /\ ~m_bInHandleTimers'
        /\ Current = {} /\ Current' = {} /\ Ready = {} /\ Ready' = {}
    BY <1>1, IdleFacts DEF HasCurrent, m_bInHandleTimers
  <1>3. TimerInv'
    BY <1>1, <1>2 DEF TimerInv, Phases
  <1>4. Timers' = Timers
    BY <1>1, <1>2 DEF Timers
  <1> QED BY <1>1, <1>2, <1>3, <1>4 DEF Service!Start, Timers

(* All timers are deleted when no callback runs.                             *)
LEMMA CleanupStep ==
  ASSUME TimerInv, Cleanup, phase \in {"off", "signal"},
         UNCHANGED <<m_bStopping, m_NewTimeouts, m_bCurrentTimeoutDeleted, s_LastID>>
  PROVE  TimerInv' /\ Service!PlaybackEnd
  <1>1. phase' = "off" /\ m_PendingTimeouts' = <<>> /\ m_FrameTime' = 0
    BY DEF Cleanup
  <1>2. /\ ~HasCurrent' /\ ~m_bInHandleTimers /\ ~m_bInHandleTimers'
        /\ Current' = {} /\ Ready = {} /\ Ready' = {}
    BY <1>1, IdleFacts DEF HasCurrent, m_bInHandleTimers
  <1>3. m_NewTimeouts' = <<>> /\ m_bCurrentTimeoutDeleted' = FALSE /\ s_LastID \in Nat
    BY <1>2 DEF TimerInv
  <1>4. Lists(m_PendingTimeouts', m_NewTimeouts', 1, s_LastID')
    BY <1>1, <1>3, ListsEmpty
  <1>5. TimerInv'
    BY <1>1, <1>2, <1>3, <1>4 DEF TimerInv, Phases
  <1>6. Timers' = {}
    BY <1>1, <1>3, ListsEmpty DEF Timers
  <1> QED BY <1>1, <1>2, <1>5, <1>6 DEF Service!PlaybackEnd, Timers

LEMMA StopStep ==
  ASSUME TimerInv, StopPlayer
  PROVE  TimerInv' /\ (Service!PlaybackEnd \/ Service!Stop)
  <1>1. CASE phase = "off"
    BY <1>1, CleanupStep DEF StopPlayer
  <1>2. CASE phase # "off"
    <2>1. /\ m_bStopping' = TRUE
          /\ UNCHANGED <<phase, m_PendingTimeouts, m_FrameTime, m_NewTimeouts,
                         m_bCurrentTimeoutDeleted, s_LastID>>
      BY <1>2 DEF StopPlayer
    <2>2. HasCurrent' = HasCurrent /\ m_bInHandleTimers' = m_bInHandleTimers
          /\ Current' = Current /\ Ready' = Ready
      BY <2>1 DEF HasCurrent, m_bInHandleTimers, Current, Ready
    <2>3. TimerInv'
      BY <2>1, <2>2 DEF TimerInv
    <2> QED BY <2>1, <2>2, <2>3 DEF Service!Stop
  <1> QED BY <1>1, <1>2

LEMMA TimersStep ==
  ASSUME TimerInv, [FrameNext]_frameVars
  PROVE  TimerInv' /\ [Service!Next]_(Service!vars)
  <1>1. CASE SetTimeout
    BY <1>1, SetStep DEF Service!Next
  <1>2. CASE ClearInterval
    BY <1>2, ClearStep DEF Service!Next, Timers
  <1>3. CASE Fire
    BY <1>3, FireStep DEF Service!Next, Timers
  <1>4. CASE FireReturns
    BY <1>4, FireReturnsStep
  <1>5. CASE TimersDone
    BY <1>5, TimersDoneStep DEF Service!Next
  <1>6. ASSUME NEW a \in Anims, StartAnim(a) \/ AbortAnim(a)
        PROVE  TimerInv' /\ UNCHANGED Service!vars
    <2>1. UNCHANGED <<timerVars, m_FrameTime, m_bStopping, phase>> /\ phase' \in Phases
      BY <1>6 DEF StartAnim, AbortAnim, TimerInv
    <2> QED BY <2>1, TimersQuiet
  <1>13. CASE StartReturns
    <2>1. UNCHANGED <<timerVars, m_FrameTime, m_bStopping, phase>> /\ phase' \in Phases
      BY <1>13 DEF StartReturns, TimerInv
    <2> QED BY <2>1, TimersQuiet
  <1>7. CASE EventsDone \/ StepAnim \/ LastStep \/ ListenerReturns
    <2>1. /\ UNCHANGED <<timerVars, m_FrameTime, m_bStopping>>
          /\ phase \notin {"timers", "timer"} /\ phase' \in {"signal", "listener"}
      BY <1>7 DEF EventsDone, StepAnim, LastStep, ListenerReturns
    <2>2. phase' \in Phases /\ phase' \notin {"timers", "timer"}
      BY <2>1 DEF Phases
    <2> QED BY <2>1, <2>2, TimersQuiet
  <1>8. CASE Play
    BY <1>8, PlayStep DEF Service!Next
  <1>9. CASE StopPlayer
    BY <1>9, StopStep DEF Service!Next
  <1>10. CASE NextFrame
    BY <1>10, NextFrameStep DEF Service!Next
  <1>11. CASE PlaybackEnds
    <2>1. Service!PlaybackEnd /\ TimerInv'
      BY <1>11, CleanupStep DEF PlaybackEnds
    <2> QED BY <2>1 DEF Service!Next
  <1>12. CASE UNCHANGED frameVars
    <2>1. UNCHANGED <<timerVars, m_FrameTime, m_bStopping, phase>> /\ phase' \in Phases
      BY <1>12 DEF frameVars, TimerInv
    <2> QED BY <2>1, TimersQuiet
  <1> QED BY <1>1, <1>2, <1>3, <1>4, <1>5, <1>6, <1>7, <1>8, <1>9, <1>10, <1>11, <1>12,
             <1>13 DEF FrameNext

(* Each timer that is due is called once in a frame, in the order of the     *)
(* times, and a cleared one never, for any number of timers and whatever     *)
(* callbacks set and clear (Player::handleTimers, addTimeout, setTimeout,    *)
(* clearInterval).                                                           *)
THEOREM TimersServedAlways == FrameSpec => TimersServed
  BY TimersInit, TimersStep, PTL DEF FrameSpec, TimersServed, Service!Spec
================================================================================

------------------------- MODULE AsyncDemuxer_proofs -------------------------
(* Proofs about AsyncDemuxer: the marks of a seek, and the packets that each *)
(* stream is handed out, for any file, any queues and any number of seeks.   *)
EXTENDS AsyncDemuxer, FiniteSetTheorems, SequenceTheorems, WellFoundedInduction, TLAPS

Message == 0 .. Eof
Suffixes == {<<>>, StreamIndexes, Tail(StreamIndexes)}
Left(t) == {t[i] : i \in DOMAIN t}
DeletingPcs == {"unblock", "joinDemux", "closed"}
PastJoin == {"wait", "discard", "stop"} \cup DeletingPcs
PcValues == {"idle", "wait", "discard", "pop", "push", "drain", "buffers", "flags", "join", "stop",
             "unblock", "joinDemux", "closed"}
OpValues == {"nobody", "read", "seek", "close"}

\* Where a decoder thread is in which call.
ReaderAt(s) ==
    \/ op[s] = None /\ pc[s] = "idle"
    \/ op[s] = "read" /\ pc[s] \in {"wait", "discard", "pop"}
    \/ /\ s = Seeker /\ op[s] = "seek" /\ dest \in Positions
       /\ pc[s] \in {"wait", "discard", "push", "drain", "buffers", "flags"}
MainAt ==
    \/ op["main"] = None /\ pc["main"] = "idle"
    \/ op["main"] = "close" /\ pc["main"] \in {"join"} \cup PastJoin

DemuxTyped ==
    /\ filePos \in 1 .. Eof /\ cache \in [Streams -> Seq(1 .. Len(File))]
    /\ qEOF \in [Streams -> BOOLEAN]
    /\ demuxPc \in {"work", "read", "cmds", "mark", "done"}
    /\ toMark \in Suffixes /\ (demuxPc = "mark" <=> toMark # <<>>)
    /\ demuxPc = "read" => reading \in Streams /\ ~qEOF[reading]

QueuesTyped ==
    /\ q \in [Streams -> Seq(Message)]
    /\ cmdQ = <<>> \/ \E c \in Positions \cup {Stop} : cmdQ = <<c>>

ClientTyped ==
    /\ pc \in [Threads -> PcValues] /\ op \in [Threads -> OpValues]
    /\ (\A s \in Streams : ReaderAt(s)) /\ MainAt
    /\ m_SeekMutex \in Threads \cup {None} /\ m_bSeekPending \in BOOLEAN
    /\ m_bSeekDone \in [Streams -> BOOLEAN]
    /\ toDrain \in Suffixes /\ (pc["main"] = "unblock" => toDrain # <<>>)
    /\ got \in [Streams -> Message] /\ overlapped \subseteq Streams

WellTyped == DemuxTyped /\ QueuesTyped /\ ClientTyped

\* The mutex is held over every wait and every drain, so that a seek is known to
\* be outstanding whenever nobody holds it, and main is past it when it deletes.
ClientInv ==
    /\ \A t \in Threads : m_SeekMutex = t <=> \/ pc[t] = "discard"
                                              \/ t = Seeker /\ pc[t] = "drain"
    /\ m_SeekMutex = None /\ ~m_bSeekPending => \A s \in Streams : m_bSeekDone[s]
    /\ pc[Seeker] = "push" => m_SeekMutex = None /\ ~m_bSeekPending
    /\ pc[Seeker] = "drain" => /\ m_bSeekPending
                               /\ \A s \in Left(toDrain) : ~m_bSeekDone[s]
    /\ m_bSeekPending => m_SeekMutex = None \/ pc[Seeker] = "drain"
    /\ pc["main"] \in PastJoin => \A s \in Streams : pc[s] = "idle"
    /\ pc["main"] \in {"stop"} \cup DeletingPcs => m_SeekMutex = None /\ ~m_bSeekPending
    /\ cmdQ # <<>> /\ Head(cmdQ) = Stop => pc["main"] \in DeletingPcs
    /\ \A s \in Streams : pc[s] = "pop" /\ ~m_bSeekDone[s] => s \in overlapped

\* No place, or exactly one, of a packet queue holds a mark.
NoMark(w) == \A i \in 1 .. Len(w) : w[i] # SeekDone
OneMark(w) == \E i \in 1 .. Len(w) : /\ w[i] = SeekDone
                                     /\ \A j \in 1 .. Len(w) : j # i => w[j] # SeekDone

Ordered == cmdQ # <<>> /\ Head(cmdQ) # Stop

\* A stream that waits for its mark finds it in one place: the command, the
\* list of the seek that runs, or the queue.
MarkInv ==
    \A s \in Streams :
        IF m_bSeekDone[s] THEN ~Ordered /\ s \notin Left(toMark) /\ NoMark(q[s])
        ELSE \/ Ordered /\ s \notin Left(toMark) /\ NoMark(q[s])
             \/ ~Ordered /\ s \in Left(toMark) /\ NoMark(q[s])
             \/ ~Ordered /\ s \notin Left(toMark) /\ OneMark(q[s])

DemuxerInv == WellTyped /\ (~failed => ClientInv /\ MarkInv)

----------------------------------------------------------------------------
(* Streams, and what remains of a list of them *)

LEMMA StreamFacts ==
    /\ StreamIndexes \in Seq({"video", "audio"}) /\ Len(StreamIndexes) \in {1, 2}
    /\ DOMAIN StreamIndexes = 1 .. Len(StreamIndexes) /\ 1 \in DOMAIN StreamIndexes
    /\ \A i, j \in DOMAIN StreamIndexes : StreamIndexes[i] = StreamIndexes[j] => i = j
    /\ Seeker \in Streams /\ Streams \subseteq {"video", "audio"}
    /\ Streams \subseteq Threads /\ "main" \in Threads /\ "main" \notin Streams
    /\ None \notin Threads /\ \A t \in Threads : t \in Streams \/ t = "main"
<1>1. CASE StreamIndexes = <<"video">>
  BY <1>1 DEF Streams, Seeker, Threads, None
<1>2. CASE StreamIndexes = <<"audio">>
  BY <1>2 DEF Streams, Seeker, Threads, None
<1>3. CASE StreamIndexes = <<"video", "audio">>
  BY <1>3 DEF Streams, Seeker, Threads, None
<1>4. CASE StreamIndexes = <<"audio", "video">>
  BY <1>4 DEF Streams, Seeker, Threads, None
<1> QED
  BY <1>1, <1>2, <1>3, <1>4, DemuxerAssumption

LEMMA SuffixFacts ==
    ASSUME NEW t \in Suffixes
    PROVE  /\ Left(t) \subseteq Streams
           /\ t = <<>> => Left(t) = {}
           /\ t # <<>> => /\ Head(t) \in Left(t) /\ Tail(t) \in Suffixes
                          /\ Left(Tail(t)) = Left(t) \ {Head(t)}
                          /\ Len(t) = 1 <=> Tail(t) = <<>>
           /\ Left(StreamIndexes) = Streams
           /\ \A s \in Left(t) : \E i \in DOMAIN t : {j \in DOMAIN t : t[j] = s} = {i}
<1>0. /\ Left(<<>>) = {}
      /\ \A a : Left(<<a>>) = {a}
      /\ \A a, b : Left(<<a, b>>) = {a, b}
  BY DEF Left
<1>1. \A a : /\ Head(<<a>>) = a /\ Tail(<<a>>) = <<>> /\ Len(<<a>>) = 1 /\ <<a>> # <<>>
             /\ DOMAIN <<a>> = {1}
  OBVIOUS
<1>2. \A a, b : /\ Head(<<a, b>>) = a /\ Tail(<<a, b>>) = <<b>> /\ Len(<<a, b>>) = 2
                /\ <<a, b>> # <<>> /\ DOMAIN <<a, b>> = {1, 2}
                /\ <<a, b>>[1] = a /\ <<a, b>>[2] = b
  OBVIOUS
<1>3. ASSUME NEW a, StreamIndexes = <<a>> PROVE t = <<>> \/ t = <<a>>
  BY <1>1, <1>3 DEF Suffixes
<1>4. ASSUME NEW a, NEW b, StreamIndexes = <<a, b>>
      PROVE  t = <<>> \/ t = <<a, b>> \/ t = <<b>>
  BY <1>2, <1>4 DEF Suffixes
<1>5. Left(StreamIndexes) = Streams
  BY DEF Left, Streams
<1>6. CASE \E a : StreamIndexes = <<a>>
  <2>1. PICK a : StreamIndexes = <<a>>
    BY <1>6
  <2>2. Streams = {a} /\ Suffixes = {<<>>, <<a>>}
    BY <1>0, <1>1, <1>5, <2>1 DEF Suffixes
  <2>3. CASE t = <<>>
    BY <1>0, <1>5, <2>3
  <2>4. CASE t = <<a>>
    <3>1. Left(t) = {a} /\ Head(t) = a /\ Tail(t) = <<>> /\ Len(t) = 1 /\ t # <<>>
      BY <1>0, <1>1, <2>4
    <3>2. \A s \in Left(t) : {j \in DOMAIN t : t[j] = s} = {1} /\ 1 \in DOMAIN t
      BY <1>1, <2>4, <3>1
    <3> QED
      BY <1>0, <1>5, <2>2, <3>1, <3>2
  <2> QED
    BY <1>3, <2>1, <2>3, <2>4
<1>7. CASE \E a, b : StreamIndexes = <<a, b>> /\ a # b
  <2>1. PICK a, b : StreamIndexes = <<a, b>> /\ a # b
    BY <1>7
  <2>2. Streams = {a, b} /\ Suffixes = {<<>>, <<a, b>>, <<b>>}
    BY <1>0, <1>2, <1>5, <2>1 DEF Suffixes
  <2>3. CASE t = <<>>
    BY <1>0, <1>5, <2>3
  <2>4. CASE t = <<b>>
    <3>1. Left(t) = {b} /\ Head(t) = b /\ Tail(t) = <<>> /\ Len(t) = 1 /\ t # <<>>
      BY <1>0, <1>1, <2>4
    <3>2. \A s \in Left(t) : {j \in DOMAIN t : t[j] = s} = {1} /\ 1 \in DOMAIN t
      BY <1>1, <2>4, <3>1
    <3> QED
      BY <1>0, <1>5, <2>2, <3>1, <3>2
  <2>5. CASE t = <<a, b>>
    <3>1. Left(t) = {a, b} /\ Head(t) = a /\ Tail(t) = <<b>> /\ Len(t) = 2 /\ t # <<>>
      BY <1>0, <1>2, <2>5
    <3>2. Left(Tail(t)) = {b} /\ <<b>> # <<>>
      BY <1>0, <1>1, <3>1
    <3>3. /\ {j \in DOMAIN t : t[j] = a} = {1} /\ 1 \in DOMAIN t
          /\ {j \in DOMAIN t : t[j] = b} = {2} /\ 2 \in DOMAIN t
      BY <1>2, <2>1, <2>5
    <3>4. Left(Tail(t)) = Left(t) \ {Head(t)} /\ Tail(t) \in Suffixes
      BY <2>1, <2>2, <3>1, <3>2
    <3>5. \A s \in Left(t) : \E i \in DOMAIN t : {j \in DOMAIN t : t[j] = s} = {i}
      <4>1. \A s \in Left(t) : s = a \/ s = b
        BY <3>1
      <4> QED
        BY <3>3, <4>1
    <3>6. Left(t) \subseteq Streams /\ Head(t) \in Left(t) /\ Len(t) # 1 /\ Tail(t) # <<>> /\ t # <<>>
      BY <2>2, <3>1, <3>2
    <3> QED
      BY <1>5, <3>4, <3>5, <3>6
  <2> QED
    BY <1>4, <2>1, <2>3, <2>4, <2>5
<1> QED
  BY <1>6, <1>7, DemuxerAssumption

\* The first stream without its mark, and the queue to be filled next.
LEMMA FirstUnmarkedIs ==
    ASSUME m_bSeekDone \in [Streams -> BOOLEAN]
    PROVE  /\ Unmarked = {} <=> \A s \in Streams : m_bSeekDone[s]
           /\ Unmarked # {} => FirstUnmarked \in Streams /\ ~m_bSeekDone[FirstUnmarked]
<1>1. Unmarked = {} <=> \A s \in Streams : m_bSeekDone[s]
  BY DEF Unmarked, Streams
<1>2. ASSUME Unmarked # {} PROVE \E i \in Unmarked : \A j \in Unmarked : i <= j
  <2>1. Unmarked \subseteq {1, 2}
    BY StreamFacts DEF Unmarked
  <2>2. CASE 1 \in Unmarked
    <3>1. \A j \in Unmarked : 1 <= j
      BY <2>1
    <3> QED
      BY <2>2, <3>1
  <2>3. CASE 1 \notin Unmarked
    <3>1. Unmarked = {2}
      BY <1>2, <2>1, <2>3
    <3> QED
      BY <3>1
  <2> QED
    BY <2>2, <2>3
<1>3. ASSUME Unmarked # {} PROVE FirstUnmarked \in Streams /\ ~m_bSeekDone[FirstUnmarked]
  <2>1. PICK k \in Unmarked : FirstUnmarked = StreamIndexes[k]
    BY <1>2, <1>3 DEF FirstUnmarked
  <2> QED
    BY <2>1 DEF Unmarked, Streams
<1> QED
  BY <1>1, <1>3

LEMMA ShortestIs ==
    ASSUME q \in [Streams -> Seq(Message)], Candidates # {}
    PROVE  ShortestQ \in Streams /\ ~qEOF[ShortestQ]
<1> DEFINE L(i) == Len(q[StreamIndexes[i]])
           Before(i, j) == L(i) < L(j) \/ (L(i) = L(j) /\ i <= j)
<1>1. Candidates \subseteq {1, 2}
  BY StreamFacts DEF Candidates
<1>2. \A i \in Candidates : L(i) \in Nat
  BY EmptySeq DEF Candidates, Streams
<1>3. \E i \in Candidates : \A j \in Candidates : Before(i, j)
  <2> HIDE DEF L
  <2>1. CASE 1 \in Candidates /\ (2 \in Candidates => L(1) <= L(2))
    <3>1. \A j \in Candidates : Before(1, j)
      BY <1>1, <1>2, <2>1
    <3> QED
      BY <2>1, <3>1
  <2>2. CASE 2 \in Candidates /\ (1 \in Candidates => L(2) < L(1))
    <3>1. \A j \in Candidates : Before(2, j)
      BY <1>1, <1>2, <2>2
    <3> QED
      BY <2>2, <3>1
  <2>3. 1 \in Candidates \/ 2 \in Candidates
    BY <1>1
  <2> QED
    BY <1>2, <2>1, <2>2, <2>3
<1>4. PICK k \in Candidates : ShortestQ = StreamIndexes[k]
  BY <1>3 DEF ShortestQ
<1> QED
  BY <1>4 DEF Candidates, Streams

----------------------------------------------------------------------------
(* Marks in a packet queue *)

LEMMA AppendMark ==
    ASSUME NEW w \in Seq(Message), NEW e \in Message
    PROVE  /\ Append(w, e) \in Seq(Message)
           /\ e # SeekDone /\ NoMark(w) => NoMark(Append(w, e))
           /\ e # SeekDone /\ OneMark(w) => OneMark(Append(w, e))
           /\ e = SeekDone /\ NoMark(w) => OneMark(Append(w, e))
<1>1. /\ Append(w, e) \in Seq(Message)
      /\ Len(w) \in Nat /\ Len(Append(w, e)) = Len(w) + 1
      /\ Append(w, e)[Len(w) + 1] = e
      /\ \A i \in 1 .. Len(w) : Append(w, e)[i] = w[i]
  BY AppendProperties
<1>2. e # SeekDone /\ NoMark(w) => NoMark(Append(w, e))
  BY <1>1 DEF NoMark
<1>3. ASSUME e # SeekDone, OneMark(w) PROVE OneMark(Append(w, e))
  <2>1. PICK i \in 1 .. Len(w) : w[i] = SeekDone /\ \A j \in 1 .. Len(w) : j # i => w[j] # SeekDone
    BY <1>3 DEF OneMark
  <2>2. i \in 1 .. Len(Append(w, e)) /\ Append(w, e)[i] = SeekDone
    BY <1>1, <2>1
  <2>3. ASSUME NEW j \in 1 .. Len(Append(w, e)), j # i PROVE Append(w, e)[j] # SeekDone
    BY <1>1, <1>3, <2>1, <2>3
  <2> QED
    BY <2>2, <2>3 DEF OneMark
<1>4. ASSUME e = SeekDone, NoMark(w) PROVE OneMark(Append(w, e))
  <2>1. Len(w) + 1 \in 1 .. Len(Append(w, e)) /\ Append(w, e)[Len(w) + 1] = SeekDone
    BY <1>1, <1>4
  <2>2. \A j \in 1 .. Len(Append(w, e)) : j # Len(w) + 1 => Append(w, e)[j] # SeekDone
    BY <1>1, <1>4 DEF NoMark
  <2> QED
    BY <2>1, <2>2 DEF OneMark
<1> QED
  BY <1>1, <1>2, <1>3, <1>4

LEMMA TailMark ==
    ASSUME NEW w \in Seq(Message), w # <<>>
    PROVE  /\ Head(w) \in Message /\ Tail(w) \in Seq(Message)
           /\ NoMark(w) => Head(w) # SeekDone /\ NoMark(Tail(w))
           /\ OneMark(w) /\ Head(w) = SeekDone => NoMark(Tail(w))
           /\ OneMark(w) /\ Head(w) # SeekDone => OneMark(Tail(w))
<1>1. /\ Len(w) \in Nat /\ Len(w) >= 1 /\ Head(w) = w[1] /\ Head(w) \in Message
      /\ Tail(w) \in Seq(Message) /\ Len(Tail(w)) = Len(w) - 1
      /\ \A i \in 1 .. Len(Tail(w)) : Tail(w)[i] = w[i + 1]
  BY HeadTailProperties, EmptySeq
<1>2. \A i \in 1 .. Len(Tail(w)) : i + 1 \in 1 .. Len(w)
  BY <1>1
<1>3. NoMark(w) => Head(w) # SeekDone /\ NoMark(Tail(w))
  BY <1>1, <1>2 DEF NoMark
<1>4. ASSUME OneMark(w) PROVE IF Head(w) = SeekDone THEN NoMark(Tail(w)) ELSE OneMark(Tail(w))
  <2>1. PICK i \in 1 .. Len(w) : w[i] = SeekDone /\ \A j \in 1 .. Len(w) : j # i => w[j] # SeekDone
    BY <1>4 DEF OneMark
  <2>2. CASE i = 1
    <3>1. \A k \in 1 .. Len(Tail(w)) : k + 1 \in 1 .. Len(w) /\ k + 1 # 1
      BY <1>2
    <3>2. \A k \in 1 .. Len(Tail(w)) : Tail(w)[k] # SeekDone
      BY <1>1, <2>1, <2>2, <3>1
    <3> QED
      BY <1>1, <2>1, <2>2, <3>2 DEF NoMark
  <2>3. CASE i # 1
    <3>1. i - 1 \in 1 .. Len(Tail(w)) /\ i - 1 + 1 = i /\ Head(w) # SeekDone
      BY <1>1, <2>1, <2>3
    <3>2. Tail(w)[i - 1] = SeekDone
      BY <1>1, <2>1, <3>1
    <3>3. ASSUME NEW j \in 1 .. Len(Tail(w)), j # i - 1 PROVE Tail(w)[j] # SeekDone
      <4>1. j + 1 \in 1 .. Len(w) /\ j + 1 # i
        BY <1>2, <3>3
      <4> QED
        BY <1>1, <2>1, <4>1
    <3> QED
      BY <3>1, <3>2, <3>3 DEF OneMark
  <2> QED
    BY <2>2, <2>3
<1> QED
  BY <1>1, <1>3, <1>4

----------------------------------------------------------------------------
(* Types *)

LEMMA MessageFacts ==
    /\ Eof \in Nat /\ Eof = Len(File) + 1 /\ Len(File) \in Nat
    /\ 1 .. Len(File) \subseteq Message /\ Eof \in Message /\ SeekDone \in Message
    /\ SeekDone \notin 1 .. Eof /\ 1 \in 1 .. Eof
    /\ Positions \subseteq 1 .. Len(File) /\ Stop \notin Positions
    /\ \A p \in 1 .. Len(File) : p + 1 \in 1 .. Eof /\ File[p] \in Streams /\ p # Eof
    /\ \A p \in 1 .. Eof : p # Eof => p \in 1 .. Len(File)
<1>1. Len(File) \in Nat /\ DOMAIN File = 1 .. Len(File) /\ File \in [1 .. Len(File) -> Streams]
  BY DemuxerAssumption, LenProperties
<1> QED
  BY <1>1, DemuxerAssumption DEF Eof, Message, SeekDone, Stop

LEMMA ExecuteTypes ==
    ASSUME WellTyped, Execute, demuxPc # "mark"
    PROVE  DemuxTyped' /\ cmdQ' = <<>>
<1>1. PICK c \in Positions \cup {Stop} : cmdQ = <<c>>
  BY DEF WellTyped, QueuesTyped, Execute
<1>2. Head(cmdQ) = c /\ Tail(cmdQ) = <<>>
  BY <1>1
<1>3. CASE c = Stop
  BY <1>2, <1>3 DEF WellTyped, DemuxTyped, Execute
<1>4. CASE c # Stop
  <2>1. c \in 1 .. Eof
    BY <1>4, MessageFacts
  <2>2. StreamIndexes \in Suffixes /\ StreamIndexes # <<>>
    BY StreamFacts DEF Suffixes
  <2>3. [s \in Streams |-> <<>>] \in [Streams -> Seq(1 .. Len(File))]
    BY EmptySeq
  <2> QED
    BY <1>2, <1>4, <2>1, <2>2, <2>3 DEF WellTyped, DemuxTyped, Execute
<1> QED
  BY <1>2, <1>3, <1>4 DEF Execute

LEMMA QueuedTypes ==
    ASSUME WellTyped, demuxPc = "read", NEW p \in Message, Queued(p)
    PROVE  /\ q' \in [Streams -> Seq(Message)] /\ qEOF' \in [Streams -> BOOLEAN]
           /\ demuxPc' = "cmds"
<1>1. reading \in Streams /\ q \in [Streams -> Seq(Message)] /\ qEOF \in [Streams -> BOOLEAN]
  BY DEF WellTyped, DemuxTyped, QueuesTyped
<1>2. Append(q[reading], p) \in Seq(Message)
  BY <1>1, AppendMark
<1> QED
  BY <1>1, <1>2 DEF Queued

LEMMA DemuxTypeStep == DemuxerInv /\ DemuxThread => DemuxTyped' /\ QueuesTyped'
<1> SUFFICES ASSUME DemuxerInv, DemuxThread PROVE DemuxTyped' /\ QueuesTyped'
  OBVIOUS
<1>0. WellTyped /\ DemuxTyped /\ QueuesTyped
  BY DEF DemuxerInv, WellTyped
<1>1. CASE Work
  <2>1. demuxPc = "work" /\ demuxPc' \in {"cmds", "read"}
        /\ (demuxPc' = "read" => reading' = ShortestQ /\ Candidates # {})
        /\ UNCHANGED <<filePos, cache, q, qEOF, toMark, cmdQ>>
    BY <1>1 DEF Work
  <2>2. demuxPc' = "read" => reading' \in Streams /\ ~qEOF[reading']
    BY <1>0, <2>1, ShortestIs DEF QueuesTyped
  <2> QED
    BY <1>0, <2>1, <2>2 DEF DemuxTyped, QueuesTyped
<1>2. CASE CachedPacket
  <2>1. reading \in Streams /\ cache[reading] \in Seq(1 .. Len(File)) /\ cache[reading] # <<>>
        /\ demuxPc = "read" /\ Queued(Head(cache[reading]))
        /\ cache' = [cache EXCEPT ![reading] = Tail(cache[reading])]
        /\ UNCHANGED <<filePos, toMark, cmdQ>>
    BY <1>0, <1>2 DEF CachedPacket, DemuxTyped
  <2>2. Head(cache[reading]) \in Message /\ Tail(cache[reading]) \in Seq(1 .. Len(File))
    BY <2>1, HeadTailProperties, MessageFacts
  <2>3. q' \in [Streams -> Seq(Message)] /\ qEOF' \in [Streams -> BOOLEAN] /\ demuxPc' = "cmds"
    BY <1>0, <2>1, <2>2, QueuedTypes
  <2>4. cache' \in [Streams -> Seq(1 .. Len(File))]
    BY <1>0, <2>1, <2>2 DEF DemuxTyped
  <2> QED
    BY <1>0, <2>1, <2>3, <2>4 DEF DemuxTyped, QueuesTyped
<1>3. CASE ReadFrame
  <2>0. /\ demuxPc = "read" /\ reading \in Streams /\ filePos \in 1 .. Eof
        /\ UNCHANGED <<toMark, cmdQ>>
    BY <1>0, <1>3 DEF ReadFrame, DemuxTyped
  <2>1. CASE filePos = Eof
    <3>1. Queued(Eof) /\ UNCHANGED <<filePos, cache>>
      BY <1>3, <2>1 DEF ReadFrame
    <3>2. q' \in [Streams -> Seq(Message)] /\ qEOF' \in [Streams -> BOOLEAN] /\ demuxPc' = "cmds"
      BY <1>0, <2>0, <3>1, QueuedTypes, MessageFacts
    <3> QED
      BY <1>0, <2>0, <3>1, <3>2 DEF DemuxTyped, QueuesTyped
  <2>2. CASE filePos # Eof
    <3>1. filePos' = filePos + 1 /\ filePos' \in 1 .. Eof /\ filePos \in 1 .. Len(File)
          /\ filePos \in Message /\ File[filePos] \in Streams
      BY <1>3, <2>0, <2>2, MessageFacts DEF ReadFrame
    <3>2. CASE File[filePos] = reading
      <4>1. Queued(filePos) /\ UNCHANGED cache
        BY <1>3, <2>2, <3>2 DEF ReadFrame
      <4>2. q' \in [Streams -> Seq(Message)] /\ qEOF' \in [Streams -> BOOLEAN] /\ demuxPc' = "cmds"
        BY <1>0, <2>0, <3>1, <4>1, QueuedTypes
      <4> QED
        BY <1>0, <2>0, <3>1, <4>1, <4>2 DEF DemuxTyped, QueuesTyped
    <3>3. CASE File[filePos] # reading
      <4>1. /\ cache' = [cache EXCEPT ![File[filePos]] = Append(cache[File[filePos]], filePos)]
            /\ UNCHANGED <<q, qEOF, demuxPc, reading>>
        BY <1>3, <2>2, <3>3 DEF ReadFrame
      <4>2. Append(cache[File[filePos]], filePos) \in Seq(1 .. Len(File))
        BY <1>0, <3>1, AppendProperties DEF DemuxTyped
      <4>3. cache' \in [Streams -> Seq(1 .. Len(File))]
        BY <1>0, <3>1, <4>1, <4>2 DEF DemuxTyped
      <4> QED
        BY <1>0, <2>0, <3>1, <4>1, <4>3 DEF DemuxTyped, QueuesTyped
    <3> QED
      BY <3>2, <3>3
  <2> QED
    BY <2>1, <2>2
<1>4. CASE WaitForCommand \/ ProcessCommand
  <2>1. Execute /\ demuxPc # "mark"
    BY <1>4 DEF WaitForCommand, ProcessCommand
  <2>2. UNCHANGED q
    BY <2>1 DEF Execute
  <2> QED
    BY <1>0, <2>1, <2>2, ExecuteTypes DEF QueuesTyped
<1>5. CASE NoMoreCommands
  BY <1>0, <1>5 DEF NoMoreCommands, DemuxTyped, QueuesTyped
<1>6. CASE Mark
  <2>1. toMark # <<>> /\ Head(toMark) \in Streams /\ Tail(toMark) \in Suffixes
        /\ (Len(toMark) = 1 <=> Tail(toMark) = <<>>)
    BY <1>0, <1>6, SuffixFacts DEF Mark, DemuxTyped
  <2>2. /\ q' = [q EXCEPT ![Head(toMark)] = Append(q[Head(toMark)], SeekDone)]
        /\ qEOF' = [qEOF EXCEPT ![Head(toMark)] = FALSE]
        /\ toMark' = Tail(toMark)
        /\ demuxPc' = IF Tail(toMark) = <<>> THEN "cmds" ELSE "mark"
        /\ UNCHANGED <<filePos, cache, cmdQ>>
    BY <1>6, <2>1 DEF Mark
  <2>3. Append(q[Head(toMark)], SeekDone) \in Seq(Message)
    BY <1>0, <2>1, AppendMark, MessageFacts DEF QueuesTyped
  <2>4. q' \in [Streams -> Seq(Message)] /\ qEOF' \in [Streams -> BOOLEAN]
    BY <1>0, <2>1, <2>2, <2>3 DEF DemuxTyped, QueuesTyped
  <2> QED
    BY <1>0, <2>1, <2>2, <2>4 DEF DemuxTyped, QueuesTyped
<1> QED
  BY <1>1, <1>2, <1>3, <1>4, <1>5, <1>6 DEF DemuxThread

LEMMA GoesTo ==
    ASSUME ClientTyped, NEW t \in Threads, NEW w \in PcValues, Go(t, w)
    PROVE  /\ pc' \in [Threads -> PcValues] /\ pc'[t] = w
           /\ \A u \in Threads : u # t => pc'[u] = pc[u]
  BY DEF Go, ClientTyped

LEMMA Opened ==
    ASSUME ClientTyped, NEW t \in Threads, NEW w \in OpValues, op' = [op EXCEPT ![t] = w]
    PROVE  /\ op' \in [Threads -> OpValues] /\ op'[t] = w
           /\ \A u \in Threads : u # t => op'[u] = op[u]
  BY DEF ClientTyped

\* A wait ends where the call goes on.
LEMMA WaitEnds ==
    ASSUME ClientTyped, NEW t \in Threads, pc[t] \in {"wait", "discard"}
    PROVE  /\ AfterWait(t) \in PcValues
           /\ t = "main" => AfterWait(t) = "stop" /\ op[t] = "close"
           /\ t \in Streams => \/ op[t] = "read" /\ AfterWait(t) = "pop"
                               \/ /\ op[t] = "seek" /\ t = Seeker /\ dest \in Positions
                                  /\ AfterWait(t) = "push"
<1>1. /\ op[t] = "close" => AfterWait(t) = "stop"
      /\ op[t] = "read" => AfterWait(t) = "pop"
      /\ op[t] = "seek" => AfterWait(t) = "push"
      /\ {"stop", "pop", "push"} \subseteq PcValues
  BY DEF AfterWait, PcValues
<1>2. t = "main" => op[t] = "close" /\ t \notin Streams
  BY StreamFacts DEF ClientTyped, MainAt
<1>3. t \in Streams => \/ op[t] = "read"
                       \/ op[t] = "seek" /\ t = Seeker /\ dest \in Positions
  BY DEF ClientTyped, ReaderAt
<1>4. t \in Streams \/ t = "main"
  BY StreamFacts
<1> QED
  BY <1>1, <1>2, <1>3, <1>4

\* A thread takes a step of its call.
LEMMA StepPlaces ==
    ASSUME ClientTyped, NEW t \in Threads, NEW w \in PcValues, Go(t, w),
           UNCHANGED <<op, dest>>,
           t = "main" => op[t] = "close" /\ w \in {"join"} \cup PastJoin,
           t \in Streams => \/ op[t] = "read" /\ w \in {"wait", "discard", "pop"}
                            \/ /\ t = Seeker /\ op[t] = "seek" /\ dest \in Positions
                               /\ w \in {"wait", "discard", "push", "drain", "buffers", "flags"}
    PROVE  /\ pc' \in [Threads -> PcValues] /\ op' \in [Threads -> OpValues]
           /\ (\A s \in Streams : ReaderAt(s)') /\ MainAt'
<1>1. /\ pc' \in [Threads -> PcValues] /\ pc'[t] = w
      /\ \A u \in Threads : u # t => pc'[u] = pc[u]
  BY GoesTo
<1>2. ASSUME NEW s \in Streams PROVE ReaderAt(s)'
  <2>1. s \in Threads
    BY StreamFacts
  <2>2. CASE s = t
    BY <1>1, <2>2 DEF ReaderAt
  <2>3. CASE s # t
    BY <1>1, <2>1, <2>3 DEF ClientTyped, ReaderAt
  <2> QED
    BY <2>2, <2>3
<1>3. MainAt'
  <2>1. CASE t = "main"
    BY <1>1, <2>1 DEF MainAt
  <2>2. CASE t # "main"
    BY <1>1, <2>2, StreamFacts DEF ClientTyped, MainAt
  <2> QED
    BY <2>1, <2>2
<1> QED
  BY <1>1, <1>2, <1>3 DEF ClientTyped

\* ... and touches no list of streams and no packet received.
LEMMA StepTypes ==
    ASSUME ClientTyped, NEW t \in Threads, NEW w \in PcValues, Go(t, w),
           UNCHANGED <<op, dest, toDrain, got>>,
           t = "main" => op[t] = "close" /\ w \in {"join"} \cup PastJoin /\ w # "unblock",
           t \in Streams => \/ op[t] = "read" /\ w \in {"wait", "discard", "pop"}
                            \/ /\ t = Seeker /\ op[t] = "seek" /\ dest \in Positions
                               /\ w \in {"wait", "discard", "push", "drain", "buffers", "flags"}
    PROVE  /\ pc' \in [Threads -> PcValues] /\ op' \in [Threads -> OpValues]
           /\ (\A s \in Streams : ReaderAt(s)') /\ MainAt'
           /\ toDrain' \in Suffixes /\ (pc'["main"] = "unblock" => toDrain' # <<>>)
           /\ got' \in [Streams -> Message]
<1>1. pc'["main"] = "unblock" => pc["main"] = "unblock"
  BY GoesTo, StreamFacts
<1>2. /\ pc' \in [Threads -> PcValues] /\ op' \in [Threads -> OpValues]
      /\ (\A s \in Streams : ReaderAt(s)') /\ MainAt'
  BY StepPlaces
<1> QED
  BY <1>1, <1>2 DEF ClientTyped

LEMMA ReaderTypeStep ==
    ASSUME WellTyped,
           \/ \E s \in Streams : BeginRead(s) \/ Pop(s)
           \/ \E t \in Threads : LockWait(t) \/ Discard(t)
    PROVE  QueuesTyped' /\ ClientTyped'
<1>0. QueuesTyped /\ ClientTyped
  BY DEF WellTyped
<1>1. ASSUME NEW s \in Streams, BeginRead(s) PROVE QueuesTyped' /\ ClientTyped'
  <2>1. s \in Threads /\ s # "main" /\ "main" \in Threads
    BY StreamFacts
  <2>2. op' = [op EXCEPT ![s] = "read"] /\ Go(s, "wait")
        /\ UNCHANGED <<q, cmdQ, m_SeekMutex, m_bSeekPending, m_bSeekDone, dest, toDrain, got, overlapped>>
    BY <1>1 DEF BeginRead
  <2>3. /\ pc' \in [Threads -> PcValues] /\ pc'[s] = "wait"
        /\ \A u \in Threads : u # s => pc'[u] = pc[u]
    BY <1>0, <2>1, <2>2, GoesTo DEF PcValues
  <2>4. /\ op' \in [Threads -> OpValues] /\ op'[s] = "read"
        /\ \A u \in Threads : u # s => op'[u] = op[u]
    BY <1>0, <2>1, <2>2, Opened DEF OpValues
  <2>5. ASSUME NEW u \in Streams PROVE ReaderAt(u)'
    <3>1. u \in Threads
      BY StreamFacts
    <3> QED
      BY <1>0, <2>2, <2>3, <2>4, <3>1 DEF ClientTyped, ReaderAt
  <2>6. MainAt' /\ pc'["main"] = pc["main"]
    BY <1>0, <2>1, <2>3, <2>4 DEF ClientTyped, MainAt
  <2> QED
    BY <1>0, <2>2, <2>3, <2>4, <2>5, <2>6 DEF ClientTyped, QueuesTyped
<1>2. ASSUME NEW s \in Streams, Pop(s) PROVE QueuesTyped' /\ ClientTyped'
  <2>1. s \in Threads /\ s # "main" /\ "main" \in Threads
    BY StreamFacts
  <2>2. /\ pc[s] = "pop" /\ q[s] \in Seq(Message) /\ q[s] # <<>> /\ q' = [q EXCEPT ![s] = Tail(q[s])]
        /\ UNCHANGED <<cmdQ, m_SeekMutex, m_bSeekPending, m_bSeekDone, dest, toDrain>>
    BY <1>0, <1>2 DEF Pop, QueuesTyped
  <2>3. Tail(q[s]) \in Seq(Message) /\ Head(q[s]) \in Message
    BY <2>2, TailMark
  <2>4. q' \in [Streams -> Seq(Message)]
    BY <1>0, <2>2, <2>3 DEF QueuesTyped
  <2>5. QueuesTyped'
    BY <1>0, <2>2, <2>4 DEF QueuesTyped
  <2>6. CASE Head(q[s]) = SeekDone
    <3>1. UNCHANGED <<pc, op, got, overlapped>>
      BY <1>2, <2>6 DEF Pop
    <3> QED
      BY <1>0, <2>2, <2>5, <3>1 DEF ClientTyped, ReaderAt, MainAt
  <2>7. CASE Head(q[s]) # SeekDone
    <3>1. /\ op' = [op EXCEPT ![s] = None] /\ Go(s, "idle")
          /\ got' = [got EXCEPT ![s] = Head(q[s])] /\ overlapped' = overlapped \ {s}
      BY <1>2, <2>7 DEF Pop
    <3>2. /\ pc' \in [Threads -> PcValues] /\ pc'[s] = "idle"
          /\ \A u \in Threads : u # s => pc'[u] = pc[u]
      BY <1>0, <2>1, <3>1, GoesTo DEF PcValues
    <3>3. /\ op' \in [Threads -> OpValues] /\ op'[s] = None
          /\ \A u \in Threads : u # s => op'[u] = op[u]
      BY <1>0, <2>1, <3>1, Opened DEF None, OpValues
    <3>4. ASSUME NEW u \in Streams PROVE ReaderAt(u)'
      <4>1. u \in Threads
        BY StreamFacts
      <4> QED
        BY <1>0, <2>2, <3>2, <3>3, <4>1 DEF ClientTyped, ReaderAt
    <3>5. MainAt' /\ pc'["main"] = pc["main"]
      BY <1>0, <2>1, <3>2, <3>3 DEF ClientTyped, MainAt
    <3>6. got' \in [Streams -> Message] /\ overlapped' \subseteq Streams
      BY <1>0, <2>3, <3>1 DEF ClientTyped
    <3> QED
      BY <1>0, <2>2, <2>5, <3>2, <3>3, <3>4, <3>5, <3>6 DEF ClientTyped
  <2> QED
    BY <2>6, <2>7
<1>3. ASSUME NEW t \in Threads, LockWait(t) PROVE QueuesTyped' /\ ClientTyped'
  <2>1. /\ pc[t] = "wait" /\ UNCHANGED <<q, cmdQ, op, m_bSeekDone, dest, toDrain, got, overlapped>>
        /\ \/ Go(t, "discard") /\ m_SeekMutex' = t /\ m_bSeekPending' = FALSE
           \/ Go(t, AfterWait(t)) /\ UNCHANGED <<m_SeekMutex, m_bSeekPending>>
    BY <1>3 DEF LockWait
  <2>2. PICK w : Go(t, w) /\ (w = "discard" \/ w = AfterWait(t))
    BY <2>1
  <2>3. /\ pc' \in [Threads -> PcValues] /\ op' \in [Threads -> OpValues]
        /\ (\A s \in Streams : ReaderAt(s)') /\ MainAt'
        /\ toDrain' \in Suffixes /\ (pc'["main"] = "unblock" => toDrain' # <<>>)
        /\ got' \in [Streams -> Message]
    <3>1. w \in PcValues /\ pc[t] \in {"wait", "discard"}
      BY <1>0, <2>1, <2>2, WaitEnds DEF PcValues
    <3>2. t = "main" => /\ op[t] = "close" /\ w # "idle" /\ w # "unblock"
                        /\ w \in {"join"} \cup PastJoin
      BY <1>0, <2>2, <3>1, WaitEnds DEF PastJoin
    <3>3. t \in Streams => \/ op[t] = "read" /\ w \in {"wait", "discard", "pop"}
                           \/ /\ t = Seeker /\ op[t] = "seek" /\ dest \in Positions
                              /\ w \in {"wait", "discard", "push", "drain", "buffers", "flags"}
      BY <1>0, <2>2, <3>1, WaitEnds
    <3> QED
      BY <1>0, <2>1, <2>2, <3>1, <3>2, <3>3, StepTypes
  <2> QED
    BY <1>0, <2>1, <2>3 DEF ClientTyped, QueuesTyped
<1>4. ASSUME NEW t \in Threads, Discard(t) PROVE QueuesTyped' /\ ClientTyped'
  <2>1. pc[t] = "discard" /\ UNCHANGED <<cmdQ, op, m_bSeekPending, dest, toDrain, got, overlapped>>
    BY <1>4 DEF Discard
  <2>2. CASE Unmarked = {}
    <3>0. m_SeekMutex' = None /\ Go(t, AfterWait(t)) /\ UNCHANGED <<q, m_bSeekDone>>
      BY <1>4, <2>2 DEF Discard
    <3>1. AfterWait(t) \in PcValues /\ pc[t] \in {"wait", "discard"}
      BY <1>0, <2>1, WaitEnds
    <3>2. t = "main" => /\ op[t] = "close" /\ AfterWait(t) # "idle" /\ AfterWait(t) # "unblock"
                        /\ AfterWait(t) \in {"join"} \cup PastJoin
      BY <1>0, <3>1, WaitEnds DEF PastJoin
    <3>3. t \in Streams => \/ op[t] = "read" /\ AfterWait(t) \in {"wait", "discard", "pop"}
                           \/ /\ t = Seeker /\ op[t] = "seek" /\ dest \in Positions
                              /\ AfterWait(t) \in {"wait", "discard", "push", "drain", "buffers", "flags"}
      BY <1>0, <3>1, WaitEnds
    <3>4. /\ pc' \in [Threads -> PcValues] /\ op' \in [Threads -> OpValues]
          /\ (\A s \in Streams : ReaderAt(s)') /\ MainAt'
          /\ toDrain' \in Suffixes /\ (pc'["main"] = "unblock" => toDrain' # <<>>)
          /\ got' \in [Streams -> Message]
      BY <1>0, <2>1, <3>0, <3>1, <3>2, <3>3, StepTypes
    <3> QED
      BY <1>0, <2>1, <3>0, <3>4 DEF ClientTyped, QueuesTyped
  <2>3. CASE Unmarked # {}
    <3>1. FirstUnmarked \in Streams
      BY <1>0, <2>3, FirstUnmarkedIs DEF ClientTyped
    <3>2. /\ q[FirstUnmarked] # <<>> /\ q' = [q EXCEPT ![FirstUnmarked] = Tail(q[FirstUnmarked])]
          /\ m_bSeekDone' = [m_bSeekDone EXCEPT ![FirstUnmarked] = Head(q[FirstUnmarked]) = SeekDone]
          /\ UNCHANGED <<pc, m_SeekMutex>>
      BY <1>4, <2>3 DEF Discard
    <3>3. Tail(q[FirstUnmarked]) \in Seq(Message)
      BY <1>0, <3>1, <3>2, TailMark DEF QueuesTyped
    <3>4. q' \in [Streams -> Seq(Message)] /\ m_bSeekDone' \in [Streams -> BOOLEAN]
      BY <1>0, <3>1, <3>2, <3>3 DEF QueuesTyped, ClientTyped
    <3> QED
      BY <1>0, <2>1, <3>2, <3>4 DEF ClientTyped, QueuesTyped, ReaderAt, MainAt
  <2> QED
    BY <2>2, <2>3
<1> QED
  BY <1>1, <1>2, <1>3, <1>4

\* Commands and queues of streams that have been read to their mark.
LEMMA NothingOrdered ==
    ASSUME WellTyped, ClientInv, MarkInv, \A s \in Streams : m_bSeekDone[s],
           pc["main"] \notin DeletingPcs
    PROVE  cmdQ = <<>>
<1>1. ~Ordered
  BY StreamFacts DEF MarkInv
<1>2. ~(cmdQ # <<>> /\ Head(cmdQ) = Stop)
  BY DEF ClientInv
<1> QED
  BY <1>1, <1>2 DEF Ordered

LEMMA SeekerTypeStep ==
    ASSUME WellTyped, ClientInv, MarkInv,
           \/ \E d \in Positions : BeginSeek(d)
           \/ PushSeek \/ Drain \/ EndDrain \/ ResetBuffers \/ ResetFlags
    PROVE  QueuesTyped' /\ ClientTyped'
<1>0. QueuesTyped /\ ClientTyped
  BY DEF WellTyped
<1>1. Seeker \in Streams /\ Seeker \in Threads /\ Seeker # "main" /\ "main" \in Threads
      /\ Streams \subseteq Threads
  BY StreamFacts
<1>2. pc[Seeker] \in {"push", "drain", "buffers", "flags"} => op[Seeker] = "seek" /\ dest \in Positions
  BY <1>0, <1>1 DEF ClientTyped, ReaderAt
<1>3. ASSUME NEW d \in Positions, BeginSeek(d) PROVE QueuesTyped' /\ ClientTyped'
  <2>1. op' = [op EXCEPT ![Seeker] = "seek"] /\ Go(Seeker, "wait") /\ dest' = d
        /\ UNCHANGED <<q, cmdQ, m_SeekMutex, m_bSeekPending, m_bSeekDone, toDrain, got, overlapped>>
    BY <1>3 DEF BeginSeek
  <2>2. /\ pc' \in [Threads -> PcValues] /\ pc'[Seeker] = "wait"
        /\ \A u \in Threads : u # Seeker => pc'[u] = pc[u]
    BY <1>0, <1>1, <2>1, GoesTo DEF PcValues
  <2>3. /\ op' \in [Threads -> OpValues] /\ op'[Seeker] = "seek"
        /\ \A u \in Threads : u # Seeker => op'[u] = op[u]
    BY <1>0, <1>1, <2>1, Opened DEF OpValues
  <2>4. ASSUME NEW u \in Streams PROVE ReaderAt(u)'
    BY <1>0, <1>1, <2>1, <2>2, <2>3 DEF ClientTyped, ReaderAt
  <2>5. MainAt' /\ pc'["main"] = pc["main"]
    BY <1>0, <1>1, <2>2, <2>3 DEF ClientTyped, MainAt
  <2> QED
    BY <1>0, <2>1, <2>2, <2>3, <2>4, <2>5 DEF ClientTyped, QueuesTyped
<1>4. CASE PushSeek
  <2>1. /\ pc[Seeker] = "push" /\ Go(Seeker, "drain") /\ m_SeekMutex' = Seeker
        /\ cmdQ' = Append(cmdQ, dest) /\ m_bSeekPending' = TRUE
        /\ m_bSeekDone' = [s \in Streams |-> FALSE] /\ toDrain' = StreamIndexes
        /\ overlapped' = overlapped \cup {s \in Streams : pc[s] = "pop"}
        /\ UNCHANGED <<op, dest, q, got>>
    BY <1>4 DEF PushSeek
  <2>2. cmdQ = <<>>
    <3>1. \A s \in Streams : m_bSeekDone[s]
      BY <2>1 DEF ClientInv
    <3>2. pc["main"] \notin DeletingPcs
      BY <1>1, <2>1 DEF ClientInv, PastJoin
    <3> QED
      BY <3>1, <3>2, NothingOrdered
  <2>3. cmdQ' = <<dest>> /\ dest \in Positions
    BY <1>2, <2>1, <2>2
  <2>4. /\ pc' \in [Threads -> PcValues] /\ op' \in [Threads -> OpValues]
        /\ (\A s \in Streams : ReaderAt(s)') /\ MainAt'
    BY <1>0, <1>1, <1>2, <2>1, StepPlaces DEF PcValues
  <2>5. toDrain' \in Suffixes /\ toDrain' # <<>>
    BY <2>1, StreamFacts DEF Suffixes
  <2>6. m_bSeekDone' \in [Streams -> BOOLEAN] /\ overlapped' \subseteq Streams
    BY <1>0, <2>1 DEF ClientTyped
  <2> QED
    BY <1>0, <1>1, <2>1, <2>3, <2>4, <2>5, <2>6 DEF ClientTyped, QueuesTyped
<1>5. CASE Drain
  <2>1. /\ pc[Seeker] = "drain" /\ toDrain # <<>>
        /\ UNCHANGED <<cmdQ, pc, op, m_SeekMutex, m_bSeekPending, dest, got, overlapped>>
    BY <1>5 DEF Drain
  <2>2. Head(toDrain) \in Streams /\ Tail(toDrain) \in Suffixes
    BY <1>0, <2>1, SuffixFacts DEF ClientTyped
  <2>3. pc["main"] # "unblock"
    BY <1>1, <2>1 DEF ClientInv, PastJoin, DeletingPcs
  <2>4. q' \in [Streams -> Seq(Message)] /\ m_bSeekDone' \in [Streams -> BOOLEAN]
        /\ toDrain' \in Suffixes
    <3>1. CASE q[Head(toDrain)] = <<>>
      <4>1. toDrain' = Tail(toDrain) /\ UNCHANGED <<q, m_bSeekDone>>
        BY <1>5, <3>1 DEF Drain
      <4> QED
        BY <1>0, <2>2, <4>1 DEF ClientTyped, QueuesTyped
    <3>2. CASE q[Head(toDrain)] # <<>>
      <4> DEFINE s == Head(toDrain)
      <4>1. /\ q' = [q EXCEPT ![s] = Tail(q[s])]
            /\ m_bSeekDone' = [m_bSeekDone EXCEPT ![s] = Head(q[s]) = SeekDone]
            /\ toDrain' = Tail(toDrain) \/ toDrain' = toDrain
        BY <1>5, <3>2 DEF Drain
      <4>2. Tail(q[s]) \in Seq(Message)
        BY <1>0, <2>2, <3>2, TailMark DEF QueuesTyped
      <4> QED
        BY <1>0, <2>2, <4>1, <4>2 DEF ClientTyped, QueuesTyped
    <3> QED
      BY <3>1, <3>2
  <2> QED
    BY <1>0, <2>1, <2>3, <2>4 DEF ClientTyped, QueuesTyped, ReaderAt, MainAt
<1>6. CASE EndDrain
  <2>1. /\ pc[Seeker] = "drain" /\ Go(Seeker, "buffers") /\ m_SeekMutex' = None
        /\ m_bSeekPending' = (Unmarked # {})
        /\ UNCHANGED <<q, cmdQ, op, m_bSeekDone, dest, toDrain, got, overlapped>>
    BY <1>6 DEF EndDrain
  <2>2. /\ pc' \in [Threads -> PcValues] /\ op' \in [Threads -> OpValues]
        /\ (\A s \in Streams : ReaderAt(s)') /\ MainAt'
        /\ toDrain' \in Suffixes /\ (pc'["main"] = "unblock" => toDrain' # <<>>)
        /\ got' \in [Streams -> Message]
    BY <1>0, <1>1, <1>2, <2>1, StepTypes DEF PcValues
  <2>3. m_bSeekPending' \in BOOLEAN
    BY <2>1
  <2> QED
    BY <1>0, <2>1, <2>2, <2>3 DEF ClientTyped, QueuesTyped
<1>7. CASE ResetBuffers
  <2>1. /\ pc[Seeker] = "buffers" /\ Go(Seeker, "flags")
        /\ UNCHANGED <<q, cmdQ, op, m_SeekMutex, m_bSeekPending, m_bSeekDone, dest, toDrain, got, overlapped>>
    BY <1>7 DEF ResetBuffers
  <2>2. /\ pc' \in [Threads -> PcValues] /\ op' \in [Threads -> OpValues]
        /\ (\A s \in Streams : ReaderAt(s)') /\ MainAt'
        /\ toDrain' \in Suffixes /\ (pc'["main"] = "unblock" => toDrain' # <<>>)
        /\ got' \in [Streams -> Message]
    BY <1>0, <1>1, <1>2, <2>1, StepTypes DEF PcValues
  <2> QED
    BY <1>0, <2>1, <2>2 DEF ClientTyped, QueuesTyped
<1>8. CASE ResetFlags
  <2>1. op' = [op EXCEPT ![Seeker] = None] /\ Go(Seeker, "idle")
        /\ UNCHANGED <<q, cmdQ, m_SeekMutex, m_bSeekPending, m_bSeekDone, dest, toDrain, got, overlapped>>
    BY <1>8 DEF ResetFlags
  <2>2. /\ pc' \in [Threads -> PcValues] /\ pc'[Seeker] = "idle"
        /\ \A u \in Threads : u # Seeker => pc'[u] = pc[u]
    BY <1>0, <1>1, <2>1, GoesTo DEF PcValues
  <2>3. /\ op' \in [Threads -> OpValues] /\ op'[Seeker] = None
        /\ \A u \in Threads : u # Seeker => op'[u] = op[u]
    BY <1>0, <1>1, <2>1, Opened DEF OpValues, None
  <2>4. ASSUME NEW u \in Streams PROVE ReaderAt(u)'
    BY <1>0, <1>1, <2>1, <2>2, <2>3 DEF ClientTyped, ReaderAt
  <2>5. MainAt' /\ pc'["main"] = pc["main"]
    BY <1>0, <1>1, <2>2, <2>3 DEF ClientTyped, MainAt
  <2> QED
    BY <1>0, <2>1, <2>2, <2>3, <2>4, <2>5 DEF ClientTyped, QueuesTyped
<1> QED
  BY <1>3, <1>4, <1>5, <1>6, <1>7, <1>8

LEMMA MainTypeStep ==
    ASSUME WellTyped, ClientInv, MarkInv,
           BeginClose \/ JoinDecoders \/ PushStop \/ Unblock \/ JoinDemux
    PROVE  QueuesTyped' /\ ClientTyped'
<1>0. QueuesTyped /\ ClientTyped
  BY DEF WellTyped
<1>1. "main" \in Threads /\ "main" \notin Streams /\ Streams \subseteq Threads
  BY StreamFacts
<1>2. CASE BeginClose
  <2>1. op' = [op EXCEPT !["main"] = "close"] /\ Go("main", "join")
        /\ UNCHANGED <<q, cmdQ, toDrain, m_SeekMutex, m_bSeekPending, m_bSeekDone, dest, got, overlapped>>
    BY <1>2 DEF BeginClose, MainOnly
  <2>2. /\ pc' \in [Threads -> PcValues] /\ pc'["main"] = "join"
        /\ \A u \in Threads : u # "main" => pc'[u] = pc[u]
    BY <1>0, <1>1, <2>1, GoesTo DEF PcValues
  <2>3. /\ op' \in [Threads -> OpValues] /\ op'["main"] = "close"
        /\ \A u \in Threads : u # "main" => op'[u] = op[u]
    BY <1>0, <1>1, <2>1, Opened DEF OpValues
  <2>4. ASSUME NEW u \in Streams PROVE ReaderAt(u)'
    <3>1. u \in Threads /\ u # "main"
      BY <1>1
    <3> QED
      BY <1>0, <2>1, <2>2, <2>3, <3>1 DEF ClientTyped, ReaderAt
  <2>5. MainAt'
    BY <2>2, <2>3 DEF MainAt
  <2> QED
    BY <1>0, <2>1, <2>2, <2>3, <2>4, <2>5 DEF ClientTyped, QueuesTyped
<1>3. pc["main"] # "idle" => op["main"] = "close"
  BY <1>0 DEF ClientTyped, MainAt
<1>4. CASE JoinDecoders
  <2>1. /\ pc["main"] = "join" /\ Go("main", "wait")
        /\ UNCHANGED <<q, cmdQ, toDrain, op, m_SeekMutex, m_bSeekPending, m_bSeekDone, dest, got, overlapped>>
    BY <1>4 DEF JoinDecoders, MainOnly
  <2>2. /\ pc' \in [Threads -> PcValues] /\ op' \in [Threads -> OpValues]
        /\ (\A s \in Streams : ReaderAt(s)') /\ MainAt'
        /\ toDrain' \in Suffixes /\ (pc'["main"] = "unblock" => toDrain' # <<>>)
        /\ got' \in [Streams -> Message]
    BY <1>0, <1>1, <1>3, <2>1, StepTypes DEF PcValues, PastJoin
  <2> QED
    BY <1>0, <2>1, <2>2 DEF ClientTyped, QueuesTyped
<1>5. CASE PushStop
  <2>1. /\ pc["main"] = "stop" /\ Go("main", "unblock") /\ cmdQ' = Append(cmdQ, Stop)
        /\ toDrain' = StreamIndexes
        /\ UNCHANGED <<q, op, m_SeekMutex, m_bSeekPending, m_bSeekDone, dest, got, overlapped>>
    BY <1>5 DEF PushStop, MainOnly
  <2>2. cmdQ = <<>>
    <3>1. \A s \in Streams : m_bSeekDone[s]
      BY <2>1 DEF ClientInv
    <3> QED
      BY <2>1, <3>1, NothingOrdered DEF DeletingPcs
  <2>3. cmdQ' = <<Stop>> /\ Stop \in Positions \cup {Stop}
    BY <2>1, <2>2
  <2>4. /\ pc' \in [Threads -> PcValues] /\ op' \in [Threads -> OpValues]
        /\ (\A s \in Streams : ReaderAt(s)') /\ MainAt'
    BY <1>0, <1>1, <1>3, <2>1, StepPlaces DEF PcValues, PastJoin, DeletingPcs
  <2>5. toDrain' \in Suffixes /\ toDrain' # <<>>
    BY <2>1, StreamFacts DEF Suffixes
  <2> QED
    BY <1>0, <2>1, <2>3, <2>4, <2>5 DEF ClientTyped, QueuesTyped
<1>6. CASE Unblock
  <2>1. /\ pc["main"] = "unblock" /\ toDrain # <<>> /\ toDrain' = Tail(toDrain)
        /\ q' = [q EXCEPT ![Head(toDrain)] = IF q[Head(toDrain)] = <<>> THEN q[Head(toDrain)]
                                              ELSE Tail(q[Head(toDrain)])]
        /\ UNCHANGED <<cmdQ, op, m_SeekMutex, m_bSeekPending, m_bSeekDone, dest, got, overlapped>>
    BY <1>0, <1>6 DEF Unblock, MainOnly, ClientTyped
  <2>2. Head(toDrain) \in Streams /\ Tail(toDrain) \in Suffixes
        /\ (Len(toDrain) = 1 <=> Tail(toDrain) = <<>>)
    BY <1>0, <2>1, SuffixFacts DEF ClientTyped
  <2>3. PICK w : Go("main", w) /\ w = IF Tail(toDrain) = <<>> THEN "joinDemux" ELSE "unblock"
    BY <1>6, <2>2 DEF Unblock
  <2>4. w \in PcValues /\ w \in DeletingPcs
    BY <2>3 DEF PcValues, DeletingPcs
  <2>5. /\ pc' \in [Threads -> PcValues] /\ op' \in [Threads -> OpValues]
        /\ (\A s \in Streams : ReaderAt(s)') /\ MainAt'
    BY <1>0, <1>1, <1>3, <2>1, <2>3, <2>4, StepPlaces DEF PastJoin
  <2>6. pc'["main"] = w
    BY <1>0, <1>1, <2>3, <2>4, GoesTo
  <2>7. (IF q[Head(toDrain)] = <<>> THEN q[Head(toDrain)] ELSE Tail(q[Head(toDrain)])) \in Seq(Message)
    BY <1>0, <2>2, TailMark DEF QueuesTyped
  <2>8. q' \in [Streams -> Seq(Message)]
    BY <1>0, <2>1, <2>2, <2>7 DEF QueuesTyped
  <2> QED
    BY <1>0, <2>1, <2>2, <2>3, <2>5, <2>6, <2>8 DEF ClientTyped, QueuesTyped
<1>7. CASE JoinDemux
  <2>1. /\ pc["main"] = "joinDemux" /\ Go("main", "closed") /\ q' = [s \in Streams |-> <<>>]
        /\ UNCHANGED <<cmdQ, toDrain, op, m_SeekMutex, m_bSeekPending, m_bSeekDone, dest, got, overlapped>>
    BY <1>7 DEF JoinDemux, MainOnly
  <2>2. /\ pc' \in [Threads -> PcValues] /\ op' \in [Threads -> OpValues]
        /\ (\A s \in Streams : ReaderAt(s)') /\ MainAt'
        /\ toDrain' \in Suffixes /\ (pc'["main"] = "unblock" => toDrain' # <<>>)
        /\ got' \in [Streams -> Message]
    BY <1>0, <1>1, <1>3, <2>1, StepTypes DEF PcValues, PastJoin, DeletingPcs
  <2>3. q' \in [Streams -> Seq(Message)]
    BY <2>1, EmptySeq
  <2> QED
    BY <1>0, <2>1, <2>2, <2>3 DEF ClientTyped, QueuesTyped
<1> QED
  BY <1>2, <1>4, <1>5, <1>6, <1>7

LEMMA TypeStep == DemuxerInv /\ [Next]_vars => WellTyped'
<1> SUFFICES ASSUME DemuxerInv, [Next]_vars PROVE WellTyped'
  OBVIOUS
<1>0. WellTyped /\ DemuxTyped /\ QueuesTyped /\ ClientTyped
  BY DEF DemuxerInv, WellTyped
<1>1. ASSUME UNCHANGED demux PROVE DemuxTyped'
  BY <1>0, <1>1 DEF DemuxTyped, demux
<1>2. ASSUME UNCHANGED client PROVE ClientTyped'
  BY <1>0, <1>2 DEF ClientTyped, client, ReaderAt, MainAt
<1>3. CASE UNCHANGED vars
  <2>1. UNCHANGED <<demux, q, cmdQ, client>>
    BY <1>3 DEF vars
  <2> QED
    BY <1>0, <1>1, <1>2, <2>1 DEF WellTyped, QueuesTyped
<1>4. CASE DemuxThread
  <2>1. UNCHANGED client
    BY <1>4 DEF DemuxThread, Work, CachedPacket, ReadFrame, WaitForCommand, ProcessCommand,
                Execute, NoMoreCommands, Mark
  <2> QED
    BY <1>2, <1>4, <2>1, DemuxTypeStep DEF WellTyped
<1>5. CASE ~failed /\ (\/ \E s \in Streams : BeginRead(s) \/ Pop(s)
                       \/ \E t \in Threads : LockWait(t) \/ Discard(t))
  <2>1. UNCHANGED demux
    BY <1>5 DEF BeginRead, Pop, LockWait, Discard
  <2> QED
    BY <1>0, <1>1, <1>5, <2>1, ReaderTypeStep DEF WellTyped
<1>6. CASE ~failed /\ (\/ \E d \in Positions : BeginSeek(d)
                       \/ PushSeek \/ Drain \/ EndDrain \/ ResetBuffers \/ ResetFlags)
  <2>1. UNCHANGED demux
    BY <1>6 DEF BeginSeek, PushSeek, Drain, EndDrain, ResetBuffers, ResetFlags
  <2> QED
    BY <1>0, <1>1, <1>6, <2>1, SeekerTypeStep DEF WellTyped, DemuxerInv
<1>7. CASE ~failed /\ (BeginClose \/ JoinDecoders \/ PushStop \/ Unblock \/ JoinDemux)
  <2>1. UNCHANGED demux
    BY <1>7 DEF BeginClose, JoinDecoders, PushStop, Unblock, JoinDemux
  <2> QED
    BY <1>0, <1>1, <1>7, <2>1, MainTypeStep DEF WellTyped, DemuxerInv
<1> QED
  BY <1>3, <1>4, <1>5, <1>6, <1>7, StreamFacts DEF Next, Continue, Close

----------------------------------------------------------------------------
(* The clients' side of a seek *)

LEMMA DemuxClientStep == DemuxerInv /\ ~failed /\ DemuxThread => ClientInv'
<1> SUFFICES ASSUME DemuxerInv, ~failed, DemuxThread PROVE ClientInv'
  OBVIOUS
<1>1. UNCHANGED client
  BY DEF DemuxThread, Work, CachedPacket, ReadFrame, WaitForCommand, ProcessCommand, Execute,
         NoMoreCommands, Mark
<1>2. cmdQ' = cmdQ \/ cmdQ' = <<>>
  BY ExecuteTypes DEF DemuxThread, Work, CachedPacket, ReadFrame, WaitForCommand, ProcessCommand,
                      NoMoreCommands, Mark, DemuxerInv, WellTyped
<1>3. ClientInv
  BY DEF DemuxerInv
<1> QED
  BY <1>1, <1>2, <1>3 DEF ClientInv, client

LEMMA ReaderClientStep ==
    ASSUME WellTyped, ClientInv, ~failed',
           \/ \E s \in Streams : BeginRead(s) \/ Pop(s)
           \/ \E t \in Threads : LockWait(t) \/ Discard(t)
    PROVE  ClientInv'
<1>0. ClientTyped /\ QueuesTyped
  BY DEF WellTyped
<1>1. /\ Seeker \in Streams /\ Seeker \in Threads /\ Seeker # "main" /\ "main" \in Threads
      /\ Streams \subseteq Threads /\ None \notin Threads /\ "main" \notin Streams
      /\ \A t \in Threads : t \in Streams \/ t = "main"
  BY StreamFacts
<1>2. \A s \in Streams : pc["main"] \in PastJoin => pc[s] = "idle"
  BY DEF ClientInv
<1>3. ASSUME NEW s \in Streams, BeginRead(s) PROVE ClientInv'
  <2>1. /\ pc[s] = "idle" /\ op["main"] # "close" /\ Go(s, "wait")
        /\ UNCHANGED <<cmdQ, m_SeekMutex, m_bSeekPending, m_bSeekDone, toDrain, overlapped>>
    BY <1>3 DEF BeginRead, Closing
  <2>2. /\ pc' \in [Threads -> PcValues] /\ pc'[s] = "wait"
        /\ \A u \in Threads : u # s => pc'[u] = pc[u]
    BY <1>0, <1>1, <2>1, GoesTo DEF PcValues
  <2>3. pc["main"] = "idle"
    BY <1>0, <2>1 DEF ClientTyped, MainAt
  <2>4. pc'["main"] = "idle"
    BY <1>1, <2>2, <2>3
  <2> QED
    BY <1>1, <2>1, <2>2, <2>3, <2>4 DEF ClientInv, PastJoin, DeletingPcs
<1>4. ASSUME NEW s \in Streams, Pop(s) PROVE ClientInv'
  <2>1. /\ pc[s] = "pop" /\ Go(s, "idle") /\ overlapped' = overlapped \ {s}
        /\ UNCHANGED <<cmdQ, m_SeekMutex, m_bSeekPending, m_bSeekDone, toDrain>>
    BY <1>4 DEF Pop
  <2>2. /\ pc' \in [Threads -> PcValues] /\ pc'[s] = "idle"
        /\ \A u \in Threads : u # s => pc'[u] = pc[u]
    BY <1>0, <1>1, <2>1, GoesTo DEF PcValues
  <2>3. pc["main"] \notin PastJoin /\ pc'["main"] = pc["main"]
    BY <1>1, <1>2, <2>1, <2>2
  <2> QED
    BY <1>1, <2>1, <2>2, <2>3 DEF ClientInv, PastJoin, DeletingPcs
<1>5. ASSUME NEW t \in Threads, LockWait(t) PROVE ClientInv'
  <2>1. /\ pc[t] = "wait" /\ m_SeekMutex = None
        /\ UNCHANGED <<cmdQ, m_bSeekDone, toDrain, overlapped>>
    BY <1>5 DEF LockWait
  <2>2. pc[Seeker] # "drain" /\ \A u \in Threads : pc[u] # "discard"
    BY <1>1, <2>1 DEF ClientInv
  <2>3. t = "main" => \A s \in Streams : pc[s] = "idle"
    BY <1>2, <2>1 DEF PastJoin
  <2>4. CASE m_bSeekPending
    <3>1. m_bSeekPending' = FALSE /\ m_SeekMutex' = t /\ Go(t, "discard")
      BY <1>5, <2>4 DEF LockWait
    <3>2. /\ pc' \in [Threads -> PcValues] /\ pc'[t] = "discard"
          /\ \A u \in Threads : u # t => pc'[u] = pc[u]
      BY <1>0, <1>1, <3>1, GoesTo DEF PcValues
    <3>3. pc[Seeker] # "push" /\ pc["main"] \notin {"stop"} \cup DeletingPcs
      BY <2>4 DEF ClientInv
    <3>4. pc'["main"] \in PastJoin => pc["main"] \in PastJoin
      BY <1>1, <2>1, <3>2 DEF PastJoin
    <3>5. \A u \in Threads : m_SeekMutex' = u <=> \/ pc'[u] = "discard"
                                                  \/ u = Seeker /\ pc'[u] = "drain"
      BY <1>1, <2>2, <3>1, <3>2
    <3>6. pc'[Seeker] # "push" /\ pc'[Seeker] # "drain" /\ m_bSeekPending' = FALSE /\ m_SeekMutex' # None
          /\ pc'["main"] \notin {"stop"} \cup DeletingPcs
      BY <1>1, <2>2, <3>1, <3>2, <3>3 DEF DeletingPcs
    <3>7. pc'["main"] \in PastJoin => \A s \in Streams : pc'[s] = "idle"
      BY <1>1, <1>2, <2>1, <2>3, <3>2, <3>4 DEF PastJoin
    <3>8. \A s \in Streams : pc'[s] = "pop" /\ ~m_bSeekDone'[s] => s \in overlapped'
      BY <1>1, <2>1, <3>2 DEF ClientInv
    <3>9. cmdQ' # <<>> /\ Head(cmdQ') = Stop => pc'["main"] \in DeletingPcs
      BY <1>1, <2>1, <3>2 DEF ClientInv, DeletingPcs
    <3> QED
      BY <3>5, <3>6, <3>7, <3>8, <3>9 DEF ClientInv
  <2>5. CASE ~m_bSeekPending
    <3>1. UNCHANGED <<m_bSeekPending, m_SeekMutex>> /\ Go(t, AfterWait(t))
      BY <1>5, <2>5 DEF LockWait
    <3>2. AfterWait(t) \in PcValues /\ AfterWait(t) \in {"stop", "pop", "push"}
          /\ (t = "main" => AfterWait(t) = "stop") /\ (t \in Streams => AfterWait(t) # "stop")
      BY <1>0, <1>1, <2>1, WaitEnds
    <3>3. /\ pc' \in [Threads -> PcValues] /\ pc'[t] = AfterWait(t)
          /\ \A u \in Threads : u # t => pc'[u] = pc[u]
      BY <1>0, <1>1, <3>1, <3>2, GoesTo
    <3>4. \A s \in Streams : m_bSeekDone[s]
      BY <2>1, <2>5 DEF ClientInv
    <3>5. pc'["main"] \in PastJoin => pc["main"] \in PastJoin
      BY <1>1, <2>1, <3>2, <3>3 DEF PastJoin
    <3>6. \A u \in Threads : m_SeekMutex' = u <=> \/ pc'[u] = "discard"
                                                  \/ u = Seeker /\ pc'[u] = "drain"
      BY <1>1, <2>1, <2>2, <3>1, <3>2, <3>3
    <3>7. m_bSeekPending' = FALSE /\ m_SeekMutex' = None /\ pc'[Seeker] # "drain"
          /\ \A s \in Streams : m_bSeekDone'[s]
      BY <1>0, <1>1, <2>1, <2>2, <2>5, <3>1, <3>2, <3>3, <3>4 DEF ClientTyped
    <3>8. pc'["main"] \in PastJoin => \A s \in Streams : pc'[s] = "idle"
      BY <1>1, <1>2, <2>1, <2>3, <3>3, <3>5
    <3>9. cmdQ' # <<>> /\ Head(cmdQ') = Stop => pc'["main"] \in DeletingPcs
      BY <1>1, <2>1, <3>3 DEF ClientInv, DeletingPcs
    <3> QED
      BY <3>6, <3>7, <3>8, <3>9 DEF ClientInv
  <2> QED
    BY <2>4, <2>5
<1>6. ASSUME NEW t \in Threads, Discard(t) PROVE ClientInv'
  <2>1. /\ pc[t] = "discard" /\ m_SeekMutex = t
        /\ UNCHANGED <<cmdQ, m_bSeekPending, toDrain, overlapped>>
    BY <1>6 DEF Discard, ClientInv
  <2>2. /\ pc[Seeker] # "drain" /\ pc[Seeker] # "push" /\ ~m_bSeekPending /\ m_SeekMutex # None
        /\ \A u \in Threads : u # t => pc[u] # "discard"
    BY <1>0, <1>1, <2>1 DEF ClientInv, ClientTyped
  <2>3. t = "main" => \A s \in Streams : pc[s] = "idle"
    BY <1>2, <2>1 DEF PastJoin
  <2>4. CASE Unmarked = {}
    <3>1. m_SeekMutex' = None /\ Go(t, AfterWait(t)) /\ UNCHANGED m_bSeekDone
      BY <1>6, <2>4 DEF Discard
    <3>2. AfterWait(t) \in PcValues /\ AfterWait(t) \in {"stop", "pop", "push"}
          /\ (t = "main" => AfterWait(t) = "stop") /\ (t \in Streams => AfterWait(t) # "stop")
      BY <1>0, <1>1, <2>1, WaitEnds
    <3>3. /\ pc' \in [Threads -> PcValues] /\ pc'[t] = AfterWait(t)
          /\ \A u \in Threads : u # t => pc'[u] = pc[u]
      BY <1>0, <1>1, <3>1, <3>2, GoesTo
    <3>4. \A s \in Streams : m_bSeekDone[s]
      BY <1>0, <2>4, FirstUnmarkedIs DEF ClientTyped
    <3>5. pc'["main"] \in PastJoin => pc["main"] \in PastJoin
      BY <1>1, <2>1, <3>2, <3>3 DEF PastJoin
    <3>6. \A u \in Threads : m_SeekMutex' = u <=> \/ pc'[u] = "discard"
                                                  \/ u = Seeker /\ pc'[u] = "drain"
      BY <1>1, <2>1, <2>2, <3>1, <3>2, <3>3
    <3>7. m_bSeekPending' = FALSE /\ m_SeekMutex' = None /\ pc'[Seeker] # "drain"
          /\ \A s \in Streams : m_bSeekDone'[s]
      BY <1>0, <1>1, <2>1, <2>2, <3>1, <3>2, <3>3, <3>4 DEF ClientTyped
    <3>8. pc'["main"] \in PastJoin => \A s \in Streams : pc'[s] = "idle"
      BY <1>1, <1>2, <2>1, <2>3, <3>3, <3>5
    <3>9. cmdQ' # <<>> /\ Head(cmdQ') = Stop => pc'["main"] \in DeletingPcs
      BY <1>1, <2>1, <3>3 DEF ClientInv, DeletingPcs
    <3> QED
      BY <3>6, <3>7, <3>8, <3>9 DEF ClientInv
  <2>5. CASE Unmarked # {}
    <3>1. FirstUnmarked \in Streams /\ ~m_bSeekDone[FirstUnmarked]
      BY <1>0, <2>5, FirstUnmarkedIs DEF ClientTyped
    <3>2. m_bSeekDone' = [m_bSeekDone EXCEPT ![FirstUnmarked] = Head(q[FirstUnmarked]) = SeekDone]
          /\ UNCHANGED <<pc, m_SeekMutex>>
      BY <1>6, <2>5 DEF Discard
    <3>3. \A s \in Streams : ~m_bSeekDone'[s] => ~m_bSeekDone[s]
      BY <1>0, <3>1, <3>2 DEF ClientTyped
    <3> QED
      BY <2>1, <2>2, <3>2, <3>3 DEF ClientInv
  <2> QED
    BY <2>4, <2>5
<1> QED
  BY <1>3, <1>4, <1>5, <1>6

LEMMA SeekerClientStep ==
    ASSUME WellTyped, ClientInv, MarkInv,
           \/ \E d \in Positions : BeginSeek(d)
           \/ PushSeek \/ Drain \/ EndDrain \/ ResetBuffers \/ ResetFlags
    PROVE  ClientInv'
<1>0. ClientTyped /\ QueuesTyped
  BY DEF WellTyped
<1>1. /\ Seeker \in Streams /\ Seeker \in Threads /\ Seeker # "main" /\ "main" \in Threads
      /\ Streams \subseteq Threads /\ None \notin Threads /\ "main" \notin Streams
      /\ \A t \in Threads : t \in Streams \/ t = "main"
  BY StreamFacts
<1>2. pc[Seeker] # "idle" => pc["main"] \notin PastJoin
  BY <1>1 DEF ClientInv
<1>3. \A w : w \in {"stop"} \cup DeletingPcs => w \in PastJoin
  BY DEF PastJoin
<1>4. ASSUME NEW d \in Positions, BeginSeek(d) PROVE ClientInv'
  <2>1. /\ pc[Seeker] = "idle" /\ op["main"] # "close" /\ Go(Seeker, "wait")
        /\ UNCHANGED <<cmdQ, m_SeekMutex, m_bSeekPending, m_bSeekDone, toDrain, overlapped>>
    BY <1>4 DEF BeginSeek, Closing
  <2>2. /\ pc' \in [Threads -> PcValues] /\ pc'[Seeker] = "wait"
        /\ \A u \in Threads : u # Seeker => pc'[u] = pc[u]
    BY <1>0, <1>1, <2>1, GoesTo DEF PcValues
  <2>3. pc["main"] = "idle"
    BY <1>0, <2>1 DEF ClientTyped, MainAt
  <2>4. pc'["main"] = "idle"
    BY <1>1, <2>2, <2>3
  <2> QED
    BY <1>1, <2>1, <2>2, <2>3, <2>4 DEF ClientInv, PastJoin, DeletingPcs
<1>5. CASE PushSeek
  <2>1. /\ pc[Seeker] = "push" /\ Go(Seeker, "drain") /\ m_SeekMutex = None /\ m_SeekMutex' = Seeker
        /\ cmdQ' = Append(cmdQ, dest) /\ m_bSeekPending' = TRUE
        /\ m_bSeekDone' = [s \in Streams |-> FALSE] /\ toDrain' = StreamIndexes
        /\ overlapped' = overlapped \cup {s \in Streams : pc[s] = "pop"}
    BY <1>5 DEF PushSeek
  <2>2. /\ pc' \in [Threads -> PcValues] /\ pc'[Seeker] = "drain"
        /\ \A u \in Threads : u # Seeker => pc'[u] = pc[u]
    BY <1>0, <1>1, <2>1, GoesTo DEF PcValues
  <2>3. pc["main"] \notin PastJoin /\ pc'["main"] = pc["main"]
    BY <1>1, <1>2, <2>1, <2>2
  <2>4. Head(cmdQ') # Stop
    <3>1. cmdQ = <<>>
      <4>1. \A s \in Streams : m_bSeekDone[s]
        BY <2>1 DEF ClientInv
      <4> QED
        BY <1>3, <2>3, <4>1, NothingOrdered
    <3>2. dest \in Positions
      BY <1>0, <1>1, <2>1 DEF ClientTyped, ReaderAt
    <3> QED
      BY <2>1, <3>1, <3>2, MessageFacts
  <2>5. \A u \in Threads : m_SeekMutex' = u <=> \/ pc'[u] = "discard"
                                                \/ u = Seeker /\ pc'[u] = "drain"
    <3>1. \A u \in Threads : pc[u] # "discard"
      BY <1>1, <2>1 DEF ClientInv
    <3> QED
      BY <1>1, <2>1, <2>2, <3>1
  <2>6. \A s \in Left(toDrain') : ~m_bSeekDone'[s]
    BY <2>1 DEF Left, Streams
  <2>7. \A s \in Streams : pc'[s] = "pop" => s \in overlapped'
    BY <1>1, <2>1, <2>2
  <2> QED
    BY <1>1, <1>3, <2>1, <2>2, <2>3, <2>4, <2>5, <2>6, <2>7 DEF ClientInv
<1>6. CASE Drain
  <2>1. /\ pc[Seeker] = "drain" /\ toDrain # <<>>
        /\ UNCHANGED <<cmdQ, pc, m_SeekMutex, m_bSeekPending, overlapped>>
    BY <1>6 DEF Drain
  <2>2. /\ Head(toDrain) \in Streams /\ Head(toDrain) \in Left(toDrain)
        /\ Left(Tail(toDrain)) = Left(toDrain) \ {Head(toDrain)} /\ Left(toDrain) \subseteq Streams
    BY <1>0, <2>1, SuffixFacts DEF ClientTyped
  <2>3. \A s \in Left(toDrain) : ~m_bSeekDone[s]
    BY <2>1 DEF ClientInv
  <2>4. /\ \A s \in Left(toDrain') : ~m_bSeekDone'[s]
        /\ \A s \in Streams : ~m_bSeekDone'[s] => ~m_bSeekDone[s]
    <3>1. CASE q[Head(toDrain)] = <<>>
      <4>1. toDrain' = Tail(toDrain) /\ UNCHANGED m_bSeekDone
        BY <1>6, <3>1 DEF Drain
      <4> QED
        BY <2>2, <2>3, <4>1
    <3>2. CASE q[Head(toDrain)] # <<>>
      <4> DEFINE s == Head(toDrain)
      <4>1. /\ m_bSeekDone' = [m_bSeekDone EXCEPT ![s] = Head(q[s]) = SeekDone]
            /\ toDrain' = IF Head(q[s]) = SeekDone THEN Tail(toDrain) ELSE toDrain
        BY <1>6, <3>2 DEF Drain
      <4>2. CASE Head(q[s]) = SeekDone
        <5>1. \A r \in Streams : r # s => m_bSeekDone'[r] = m_bSeekDone[r]
          BY <1>0, <4>1 DEF ClientTyped
        <5> QED
          BY <2>2, <2>3, <4>1, <4>2, <5>1
      <4>3. CASE Head(q[s]) # SeekDone
        <5>1. \A r \in Streams : m_bSeekDone'[r] = IF r = s THEN FALSE ELSE m_bSeekDone[r]
          BY <1>0, <4>1, <4>3 DEF ClientTyped
        <5> QED
          BY <2>2, <2>3, <4>1, <4>3, <5>1
      <4> QED
        BY <4>2, <4>3
    <3> QED
      BY <3>1, <3>2
  <2>5. m_bSeekPending /\ m_SeekMutex = Seeker /\ pc["main"] \notin PastJoin
    BY <1>1, <1>2, <2>1 DEF ClientInv
  <2> QED
    BY <1>1, <1>3, <2>1, <2>4, <2>5 DEF ClientInv
<1>7. CASE EndDrain
  <2>1. /\ pc[Seeker] = "drain" /\ Go(Seeker, "buffers") /\ m_SeekMutex' = None
        /\ m_bSeekPending' = (Unmarked # {})
        /\ UNCHANGED <<cmdQ, m_bSeekDone, toDrain, overlapped>>
    BY <1>7 DEF EndDrain
  <2>2. /\ pc' \in [Threads -> PcValues] /\ pc'[Seeker] = "buffers"
        /\ \A u \in Threads : u # Seeker => pc'[u] = pc[u]
    BY <1>0, <1>1, <2>1, GoesTo DEF PcValues
  <2>3. pc["main"] \notin PastJoin /\ pc'["main"] = pc["main"] /\ m_SeekMutex = Seeker
    BY <1>1, <1>2, <2>1, <2>2 DEF ClientInv
  <2>4. ~m_bSeekPending' => \A s \in Streams : m_bSeekDone'[s]
    BY <1>0, <2>1, FirstUnmarkedIs DEF ClientTyped
  <2>5. \A u \in Threads : m_SeekMutex' = u <=> \/ pc'[u] = "discard"
                                                \/ u = Seeker /\ pc'[u] = "drain"
    <3>1. \A u \in Threads : u # Seeker => pc[u] # "discard"
      BY <1>1, <2>3 DEF ClientInv
    <3> QED
      BY <1>1, <2>1, <2>2, <3>1
  <2>6. \A s \in Streams : pc'[s] = "pop" /\ ~m_bSeekDone'[s] => s \in overlapped'
    BY <1>1, <2>1, <2>2 DEF ClientInv
  <2>7. ~(cmdQ' # <<>> /\ Head(cmdQ') = Stop)
    BY <1>3, <2>1, <2>3 DEF ClientInv
  <2> QED
    BY <1>3, <2>1, <2>2, <2>3, <2>4, <2>5, <2>6, <2>7 DEF ClientInv
<1>8. CASE ResetBuffers
  <2>1. /\ pc[Seeker] = "buffers" /\ Go(Seeker, "flags")
        /\ UNCHANGED <<cmdQ, m_SeekMutex, m_bSeekPending, m_bSeekDone, toDrain, overlapped>>
    BY <1>8 DEF ResetBuffers
  <2>2. /\ pc' \in [Threads -> PcValues] /\ pc'[Seeker] = "flags"
        /\ \A u \in Threads : u # Seeker => pc'[u] = pc[u]
    BY <1>0, <1>1, <2>1, GoesTo DEF PcValues
  <2>3. pc["main"] \notin PastJoin /\ pc'["main"] = pc["main"]
    BY <1>1, <1>2, <2>1, <2>2
  <2> QED
    BY <1>1, <1>3, <2>1, <2>2, <2>3 DEF ClientInv
<1>9. CASE ResetFlags
  <2>1. /\ pc[Seeker] = "flags" /\ Go(Seeker, "idle")
        /\ UNCHANGED <<cmdQ, m_SeekMutex, m_bSeekPending, m_bSeekDone, toDrain, overlapped>>
    BY <1>9 DEF ResetFlags
  <2>2. /\ pc' \in [Threads -> PcValues] /\ pc'[Seeker] = "idle"
        /\ \A u \in Threads : u # Seeker => pc'[u] = pc[u]
    BY <1>0, <1>1, <2>1, GoesTo DEF PcValues
  <2>3. pc["main"] \notin PastJoin /\ pc'["main"] = pc["main"]
    BY <1>1, <1>2, <2>1, <2>2
  <2> QED
    BY <1>1, <1>3, <2>1, <2>2, <2>3 DEF ClientInv
<1> QED
  BY <1>4, <1>5, <1>6, <1>7, <1>8, <1>9

LEMMA MainClientStep ==
    ASSUME WellTyped, ClientInv, MarkInv,
           BeginClose \/ JoinDecoders \/ PushStop \/ Unblock \/ JoinDemux
    PROVE  ClientInv'
<1>0. ClientTyped
  BY DEF WellTyped
<1>1. /\ Seeker \in Streams /\ Seeker \in Threads /\ Seeker # "main" /\ "main" \in Threads
      /\ Streams \subseteq Threads /\ "main" \notin Streams
  BY StreamFacts
<1>2. /\ UNCHANGED <<m_SeekMutex, m_bSeekPending, m_bSeekDone, overlapped>>
      /\ cmdQ' = cmdQ \/ pc["main"] = "stop"
      /\ toDrain' = toDrain \/ pc["main"] \in {"stop", "unblock"}
      /\ pc["main"] \notin {"wait", "discard"}
  <2>1. CASE BeginClose
    <3>1. pc["main"] = "idle"
      BY <1>0, <2>1 DEF BeginClose, Closing, ClientTyped, MainAt
    <3> QED
      BY <2>1, <3>1 DEF BeginClose, MainOnly
  <2>2. CASE JoinDecoders
    BY <2>2 DEF JoinDecoders, MainOnly
  <2>3. CASE PushStop
    BY <2>3 DEF PushStop, MainOnly
  <2>4. CASE Unblock
    BY <2>4 DEF Unblock, MainOnly
  <2>5. CASE JoinDemux
    BY <2>5 DEF JoinDemux, MainOnly
  <2> QED
    BY <2>1, <2>2, <2>3, <2>4, <2>5
<1>3. PICK w \in PcValues : /\ Go("main", w) /\ w \notin {"discard", "idle", "stop"}
                            /\ w \in DeletingPcs <=> pc["main"] \in {"stop"} \cup DeletingPcs
                            /\ w = "wait" => \A s \in Streams : pc[s] = "idle"
                            /\ w \in {"join", "wait"} \cup DeletingPcs
  <2>1. CASE BeginClose
    <3>1. pc["main"] = "idle"
      BY <1>0, <2>1 DEF BeginClose, Closing, ClientTyped, MainAt
    <3> QED
      BY <2>1, <3>1 DEF BeginClose, PcValues, DeletingPcs
  <2>2. CASE JoinDecoders
    BY <2>2 DEF JoinDecoders, PcValues, DeletingPcs
  <2>3. CASE PushStop
    BY <2>3 DEF PushStop, PcValues, DeletingPcs
  <2>4. CASE Unblock
    BY <2>4 DEF Unblock, PcValues, DeletingPcs
  <2>5. CASE JoinDemux
    BY <2>5 DEF JoinDemux, PcValues, DeletingPcs
  <2> QED
    BY <2>1, <2>2, <2>3, <2>4, <2>5
<1>4. /\ pc' \in [Threads -> PcValues] /\ pc'["main"] = w
      /\ \A u \in Threads : u # "main" => pc'[u] = pc[u]
  BY <1>0, <1>1, <1>3, GoesTo
<1>5. \A u \in Threads : m_SeekMutex' = u <=> \/ pc'[u] = "discard"
                                              \/ u = Seeker /\ pc'[u] = "drain"
  BY <1>1, <1>2, <1>3, <1>4 DEF ClientInv
<1>6. pc'["main"] \in PastJoin => \A s \in Streams : pc'[s] = "idle"
  BY <1>1, <1>3, <1>4 DEF ClientInv, PastJoin, DeletingPcs
<1>7. pc'["main"] \in {"stop"} \cup DeletingPcs => m_SeekMutex' = None /\ ~m_bSeekPending'
  BY <1>2, <1>3, <1>4 DEF ClientInv
<1>8. cmdQ' # <<>> /\ Head(cmdQ') = Stop => pc'["main"] \in DeletingPcs
  <2>1. CASE cmdQ' = cmdQ
    BY <1>3, <1>4, <2>1 DEF ClientInv
  <2>2. CASE pc["main"] = "stop"
    BY <1>3, <1>4, <2>2
  <2> QED
    BY <1>2, <2>1, <2>2
<1>9. pc'[Seeker] = "drain" => toDrain' = toDrain
  BY <1>1, <1>2, <1>4 DEF ClientInv, PastJoin, DeletingPcs
<1> QED
  BY <1>1, <1>2, <1>4, <1>5, <1>6, <1>7, <1>8, <1>9 DEF ClientInv

LEMMA ClientStep == DemuxerInv /\ [Next]_vars /\ ~failed' => ClientInv'
<1> SUFFICES ASSUME DemuxerInv, [Next]_vars, ~failed' PROVE ClientInv'
  OBVIOUS
<1>1. CASE UNCHANGED vars
  BY <1>1 DEF vars, client, DemuxerInv, ClientInv
<1>2. CASE ~failed /\ DemuxThread
  BY <1>2, DemuxClientStep
<1>3. CASE ~failed /\ (\/ \E s \in Streams : BeginRead(s) \/ Pop(s)
                       \/ \E t \in Threads : LockWait(t) \/ Discard(t))
  BY <1>3, ReaderClientStep DEF DemuxerInv
<1>4. CASE ~failed /\ (\/ \E d \in Positions : BeginSeek(d)
                       \/ PushSeek \/ Drain \/ EndDrain \/ ResetBuffers \/ ResetFlags)
  BY <1>4, SeekerClientStep DEF DemuxerInv
<1>5. CASE ~failed /\ (BeginClose \/ JoinDecoders \/ PushStop \/ Unblock \/ JoinDemux)
  BY <1>5, MainClientStep DEF DemuxerInv
<1> QED
  BY <1>1, <1>2, <1>3, <1>4, <1>5, StreamFacts DEF Next, Continue, Close

----------------------------------------------------------------------------
(* The marks *)

\* What a stream's place in MarkInv depends on.
MarkAt(s) ==
    IF m_bSeekDone[s] THEN ~Ordered /\ s \notin Left(toMark) /\ NoMark(q[s])
    ELSE \/ Ordered /\ s \notin Left(toMark) /\ NoMark(q[s])
         \/ ~Ordered /\ s \in Left(toMark) /\ NoMark(q[s])
         \/ ~Ordered /\ s \notin Left(toMark) /\ OneMark(q[s])

LEMMA MarkInvIs == MarkInv <=> \A s \in Streams : MarkAt(s)
  BY DEF MarkInv, MarkAt

\* The demuxer thread brings a packet to the queue of the stream it reads.
LEMMA QueuedMarks ==
    ASSUME WellTyped, MarkInv, demuxPc = "read", NEW p \in 1 .. Eof, Queued(p),
           UNCHANGED <<cmdQ, toMark, client>>
    PROVE  MarkInv'
<1>0. reading \in Streams /\ q \in [Streams -> Seq(Message)] /\ p \in Message /\ p # SeekDone
  BY MessageFacts DEF WellTyped, DemuxTyped, QueuesTyped, Message
<1>1. q' = [q EXCEPT ![reading] = Append(q[reading], p)] /\ Ordered' = Ordered
      /\ m_bSeekDone' = m_bSeekDone /\ Left(toMark') = Left(toMark)
  BY DEF Queued, Ordered, client
<1>2. ASSUME NEW s \in Streams PROVE MarkAt(s)'
  <2>1. MarkAt(s)
    BY MarkInvIs
  <2>2. CASE s # reading
    <3>1. q'[s] = q[s]
      BY <1>0, <1>1, <2>2
    <3> QED
      BY <1>1, <2>1, <3>1 DEF MarkAt
  <2>3. CASE s = reading
    <3>1. q'[s] = Append(q[s], p) /\ q[s] \in Seq(Message)
      BY <1>0, <1>1, <2>3
    <3>2. /\ NoMark(q[s]) => NoMark(q'[s])
          /\ OneMark(q[s]) => OneMark(q'[s])
      BY <1>0, <3>1, AppendMark
    <3> QED
      BY <1>1, <2>1, <3>2 DEF MarkAt
  <2> QED
    BY <2>2, <2>3
<1> QED
  BY <1>2, MarkInvIs DEF MarkInv, MarkAt

\* A packet queue loses its head, a mark or not, and its reader notes it.
LEMMA TakenMarks ==
    ASSUME WellTyped, MarkInv, NEW s \in Streams, q[s] # <<>>,
           q' = [q EXCEPT ![s] = Tail(q[s])], UNCHANGED <<cmdQ, toMark>>,
           \A r \in Streams : r # s => m_bSeekDone'[r] = m_bSeekDone[r],
           m_bSeekDone'[s] = (m_bSeekDone[s] \/ Head(q[s]) = SeekDone)
    PROVE  MarkInv'
<1>0. q \in [Streams -> Seq(Message)] /\ m_bSeekDone \in [Streams -> BOOLEAN]
  BY DEF WellTyped, ClientTyped, QueuesTyped
<1>1. Ordered' = Ordered /\ Left(toMark') = Left(toMark)
  BY DEF Ordered
<1>2. ASSUME NEW r \in Streams PROVE MarkAt(r)'
  <2>1. MarkAt(r)
    BY MarkInvIs
  <2>2. CASE r # s
    <3>1. q'[r] = q[r] /\ m_bSeekDone'[r] = m_bSeekDone[r]
      BY <1>0, <2>2
    <3> QED
      BY <1>1, <2>1, <3>1 DEF MarkAt
  <2>3. CASE r = s
    <3>1. q'[s] = Tail(q[s]) /\ q[s] \in Seq(Message)
      BY <1>0
    <3>2. /\ NoMark(q[s]) => Head(q[s]) # SeekDone /\ NoMark(q'[s])
          /\ OneMark(q[s]) /\ Head(q[s]) = SeekDone => NoMark(q'[s])
          /\ OneMark(q[s]) /\ Head(q[s]) # SeekDone => OneMark(q'[s])
      BY <3>1, TailMark
    <3>3. ~ (NoMark(q[s]) /\ OneMark(q[s]))
      BY DEF NoMark, OneMark
    <3> QED
      BY <1>1, <2>1, <2>3, <3>2, <3>3 DEF MarkAt
  <2> QED
    BY <2>2, <2>3
<1> QED
  BY <1>2, MarkInvIs DEF MarkInv, MarkAt

LEMMA ExecuteMarks ==
    ASSUME WellTyped, MarkInv, Execute, demuxPc # "mark"
    PROVE  MarkInv'
<1>1. PICK c \in Positions \cup {Stop} : cmdQ = <<c>>
  BY DEF WellTyped, QueuesTyped, Execute
<1>2. /\ Head(cmdQ) = c /\ cmdQ' = <<>> /\ ~Ordered' /\ UNCHANGED <<q, m_bSeekDone>>
      /\ toMark = <<>> /\ Left(toMark) = {} /\ (Ordered <=> c # Stop)
  <2>1. Head(cmdQ) = c /\ Tail(cmdQ) = <<>> /\ cmdQ # <<>>
    BY <1>1
  <2>2. toMark = <<>>
    BY DEF WellTyped, DemuxTyped
  <2> QED
    BY <2>1, <2>2, SuffixFacts DEF Execute, Ordered, client, Suffixes
<1>3. CASE c = Stop
  <2>1. toMark' = toMark
    BY <1>2, <1>3 DEF Execute
  <2> QED
    BY <1>2, <1>3, <2>1 DEF MarkInv
<1>4. CASE c # Stop
  <2>1. Left(toMark') = Streams
    BY <1>2, <1>4, SuffixFacts DEF Execute, Suffixes
  <2> QED
    BY <1>2, <1>4, <2>1 DEF MarkInv
<1> QED
  BY <1>3, <1>4

LEMMA DemuxMarkStep == DemuxerInv /\ ~failed /\ DemuxThread => MarkInv'
<1> SUFFICES ASSUME DemuxerInv, ~failed, DemuxThread PROVE MarkInv'
  OBVIOUS
<1>0. WellTyped /\ DemuxTyped /\ QueuesTyped /\ MarkInv
  BY DEF DemuxerInv, WellTyped
<1>1. CASE Work \/ NoMoreCommands
  <2>1. UNCHANGED <<q, cmdQ, toMark, m_bSeekDone>>
    BY <1>1 DEF Work, NoMoreCommands, client
  <2> QED
    BY <1>0, <2>1 DEF MarkInv, Ordered
<1>2. CASE CachedPacket
  <2>1. reading \in Streams /\ cache[reading] \in Seq(1 .. Len(File)) /\ cache[reading] # <<>>
    BY <1>0, <1>2 DEF CachedPacket, DemuxTyped
  <2>2. Head(cache[reading]) \in 1 .. Eof
    BY <2>1, HeadTailProperties, MessageFacts
  <2> QED
    BY <1>0, <1>2, <2>2, QueuedMarks DEF CachedPacket
<1>3. CASE ReadFrame
  <2>1. filePos \in 1 .. Eof /\ Eof \in 1 .. Eof /\ demuxPc = "read" /\ UNCHANGED <<cmdQ, toMark, client>>
    BY <1>0, <1>3, MessageFacts DEF ReadFrame, DemuxTyped
  <2>2. (\E p \in 1 .. Eof : Queued(p)) \/ UNCHANGED q
    BY <1>3, <2>1 DEF ReadFrame
  <2>3. CASE UNCHANGED q
    BY <1>0, <2>1, <2>3 DEF MarkInv, Ordered, client
  <2> QED
    BY <1>0, <2>1, <2>2, <2>3, QueuedMarks
<1>4. CASE WaitForCommand \/ ProcessCommand
  BY <1>0, <1>4, ExecuteMarks DEF WaitForCommand, ProcessCommand
<1>5. CASE Mark
  <2>1. /\ toMark # <<>> /\ Head(toMark) \in Streams /\ Head(toMark) \in Left(toMark)
        /\ Left(Tail(toMark)) = Left(toMark) \ {Head(toMark)}
    BY <1>0, <1>5, SuffixFacts DEF Mark, DemuxTyped
  <2>2. /\ q' = [q EXCEPT ![Head(toMark)] = Append(q[Head(toMark)], SeekDone)]
        /\ toMark' = Tail(toMark) /\ Ordered' = Ordered /\ UNCHANGED m_bSeekDone
    BY <1>5 DEF Mark, Ordered, client
  <2>3. ASSUME NEW s \in Streams PROVE MarkAt(s)'
    <3>1. MarkAt(s)
      BY <1>0, MarkInvIs
    <3>2. CASE s # Head(toMark)
      <4>1. q'[s] = q[s]
        BY <1>0, <2>1, <2>2, <3>2 DEF QueuesTyped
      <4> QED
        BY <2>1, <2>2, <3>1, <3>2, <4>1 DEF MarkAt
    <3>3. CASE s = Head(toMark)
      <4>1. q'[s] = Append(q[s], SeekDone) /\ q[s] \in Seq(Message)
        BY <1>0, <2>1, <2>2, <3>3 DEF QueuesTyped
      <4>2. NoMark(q[s]) => OneMark(q'[s])
        BY <4>1, AppendMark, MessageFacts
      <4> QED
        BY <2>1, <2>2, <3>1, <3>3, <4>2 DEF MarkAt
    <3> QED
      BY <3>2, <3>3
  <2> QED
    BY <2>3, MarkInvIs DEF MarkInv, MarkAt
<1> QED
  BY <1>1, <1>2, <1>3, <1>4, <1>5 DEF DemuxThread

LEMMA ReaderMarkStep ==
    ASSUME WellTyped, ClientInv, MarkInv, ~failed',
           \/ \E s \in Streams : BeginRead(s) \/ Pop(s)
           \/ \E t \in Threads : LockWait(t) \/ Discard(t)
    PROVE  MarkInv'
<1>0. QueuesTyped /\ ClientTyped
  BY DEF WellTyped
<1>1. ASSUME UNCHANGED <<q, cmdQ, toMark, m_bSeekDone>> PROVE MarkInv'
  BY <1>1 DEF MarkInv, Ordered
<1>2. ASSUME NEW s \in Streams, BeginRead(s) PROVE MarkInv'
  BY <1>1, <1>2 DEF BeginRead, demux
<1>3. ASSUME NEW s \in Streams, Pop(s) PROVE MarkInv'
  <2>1. /\ q[s] # <<>> /\ q' = [q EXCEPT ![s] = Tail(q[s])] /\ Head(q[s]) # SeekDone
        /\ UNCHANGED <<cmdQ, toMark, m_bSeekDone>>
    BY <1>3 DEF Pop, demux
  <2>2. m_bSeekDone'[s] = (m_bSeekDone[s] \/ Head(q[s]) = SeekDone)
    BY <1>0, <2>1 DEF ClientTyped
  <2> QED
    BY <2>1, <2>2, TakenMarks
<1>4. ASSUME NEW t \in Threads, LockWait(t) PROVE MarkInv'
  BY <1>1, <1>4 DEF LockWait, demux
<1>5. ASSUME NEW t \in Threads, Discard(t) PROVE MarkInv'
  <2>1. UNCHANGED <<cmdQ, toMark>>
    BY <1>5 DEF Discard, demux
  <2>2. CASE Unmarked = {}
    BY <1>1, <1>5, <2>1, <2>2 DEF Discard
  <2>3. CASE Unmarked # {}
    <3> DEFINE s == FirstUnmarked
    <3>1. s \in Streams /\ ~m_bSeekDone[s]
      BY <1>0, <2>3, FirstUnmarkedIs DEF ClientTyped
    <3>2. /\ q[s] # <<>> /\ q' = [q EXCEPT ![s] = Tail(q[s])]
          /\ m_bSeekDone' = [m_bSeekDone EXCEPT ![s] = Head(q[s]) = SeekDone]
      BY <1>5, <2>3 DEF Discard
    <3>3. /\ \A r \in Streams : r # s => m_bSeekDone'[r] = m_bSeekDone[r]
          /\ m_bSeekDone'[s] = (Head(q[s]) = SeekDone)
      BY <1>0, <3>1, <3>2 DEF ClientTyped
    <3>4. m_bSeekDone'[s] = (m_bSeekDone[s] \/ Head(q[s]) = SeekDone)
      BY <3>1, <3>3
    <3> HIDE DEF s
    <3> QED
      BY <2>1, <3>1, <3>2, <3>3, <3>4, TakenMarks
  <2> QED
    BY <2>2, <2>3
<1> QED
  BY <1>2, <1>3, <1>4, <1>5

LEMMA SeekerMarkStep ==
    ASSUME WellTyped, ClientInv, MarkInv,
           \/ \E d \in Positions : BeginSeek(d)
           \/ PushSeek \/ Drain \/ EndDrain \/ ResetBuffers \/ ResetFlags
    PROVE  MarkInv'
<1>0. QueuesTyped /\ ClientTyped
  BY DEF WellTyped
<1>1. ASSUME UNCHANGED <<q, cmdQ, toMark, m_bSeekDone>> PROVE MarkInv'
  BY <1>1 DEF MarkInv, Ordered
<1>2. CASE \E d \in Positions : BeginSeek(d)
  BY <1>1, <1>2 DEF BeginSeek, demux
<1>3. CASE EndDrain \/ ResetBuffers \/ ResetFlags
  BY <1>1, <1>3 DEF EndDrain, ResetBuffers, ResetFlags, demux
<1>4. CASE PushSeek
  <2>1. /\ pc[Seeker] = "push" /\ cmdQ' = Append(cmdQ, dest)
        /\ m_bSeekDone' = [s \in Streams |-> FALSE] /\ UNCHANGED <<q, toMark>>
    BY <1>4 DEF PushSeek, demux
  <2>2. \A s \in Streams : m_bSeekDone[s]
    BY <2>1 DEF ClientInv
  <2>3. pc["main"] \notin DeletingPcs
    BY <2>1, StreamFacts DEF ClientInv, PastJoin
  <2>4. cmdQ = <<>>
    BY <2>2, <2>3, NothingOrdered
  <2>5. dest \in Positions
    BY <1>0, <2>1, StreamFacts DEF ClientTyped, ReaderAt
  <2>6. Ordered'
    BY <2>1, <2>4, <2>5, MessageFacts DEF Ordered
  <2> QED
    BY <2>1, <2>2, <2>6 DEF MarkInv
<1>5. CASE Drain
  <2>1. /\ pc[Seeker] = "drain" /\ toDrain # <<>> /\ UNCHANGED <<cmdQ, toMark>>
    BY <1>5 DEF Drain, demux
  <2> DEFINE s == Head(toDrain)
  <2>2. s \in Streams /\ ~m_bSeekDone[s]
    BY <1>0, <2>1, SuffixFacts DEF ClientTyped, ClientInv
  <2>3. CASE q[s] = <<>>
    BY <1>1, <1>5, <2>1, <2>3 DEF Drain
  <2>4. CASE q[s] # <<>>
    <3>1. /\ q' = [q EXCEPT ![s] = Tail(q[s])]
          /\ m_bSeekDone' = [m_bSeekDone EXCEPT ![s] = Head(q[s]) = SeekDone]
      BY <1>5, <2>4 DEF Drain
    <3>2. /\ \A r \in Streams : r # s => m_bSeekDone'[r] = m_bSeekDone[r]
          /\ m_bSeekDone'[s] = (Head(q[s]) = SeekDone)
      BY <1>0, <2>2, <3>1 DEF ClientTyped
    <3>3. m_bSeekDone'[s] = (m_bSeekDone[s] \/ Head(q[s]) = SeekDone)
      BY <2>2, <3>2
    <3> HIDE DEF s
    <3> QED
      BY <2>1, <2>2, <2>4, <3>1, <3>2, <3>3, TakenMarks
  <2> QED
    BY <2>3, <2>4
<1> QED
  BY <1>2, <1>3, <1>4, <1>5

LEMMA MainMarkStep ==
    ASSUME WellTyped, ClientInv, MarkInv,
           BeginClose \/ JoinDecoders \/ PushStop \/ Unblock \/ JoinDemux
    PROVE  MarkInv'
<1>0. QueuesTyped /\ ClientTyped
  BY DEF WellTyped
<1>1. ASSUME UNCHANGED <<q, cmdQ, toMark, m_bSeekDone>> PROVE MarkInv'
  BY <1>1 DEF MarkInv, Ordered
<1>2. CASE BeginClose \/ JoinDecoders
  BY <1>1, <1>2 DEF BeginClose, JoinDecoders, MainOnly, demux
<1>3. ASSUME pc["main"] \in {"stop"} \cup DeletingPcs
      PROVE  \A s \in Streams : m_bSeekDone[s] /\ ~Ordered /\ s \notin Left(toMark) /\ NoMark(q[s])
  BY <1>3 DEF ClientInv, MarkInv
<1>4. CASE PushStop
  <2>1. /\ pc["main"] = "stop" /\ cmdQ' = Append(cmdQ, Stop) /\ UNCHANGED <<q, toMark, m_bSeekDone>>
    BY <1>4 DEF PushStop, MainOnly, demux
  <2>2. cmdQ = <<>>
    BY <1>3, <2>1, NothingOrdered DEF DeletingPcs
  <2>3. ~Ordered'
    BY <2>1, <2>2 DEF Ordered
  <2> QED
    BY <1>3, <2>1, <2>3 DEF MarkInv
<1>5. CASE Unblock
  <2>1. /\ pc["main"] = "unblock" /\ toDrain # <<>> /\ UNCHANGED <<cmdQ, toMark, m_bSeekDone>>
    BY <1>0, <1>5 DEF Unblock, MainOnly, demux, ClientTyped
  <2> DEFINE s == Head(toDrain)
  <2>2. s \in Streams
    BY <1>0, <2>1, SuffixFacts DEF ClientTyped
  <2>3. CASE q[s] = <<>>
    <3>1. q' = q
      BY <1>0, <1>5, <2>2, <2>3 DEF Unblock, QueuesTyped
    <3> QED
      BY <1>1, <2>1, <3>1
  <2>4. CASE q[s] # <<>>
    <3>1. q' = [q EXCEPT ![s] = Tail(q[s])]
      BY <1>5, <2>4 DEF Unblock
    <3>2. m_bSeekDone[s]
      BY <1>3, <2>1, <2>2 DEF DeletingPcs
    <3>3. m_bSeekDone'[s] = (m_bSeekDone[s] \/ Head(q[s]) = SeekDone)
      BY <1>0, <2>1, <2>2, <3>2 DEF ClientTyped
    <3> HIDE DEF s
    <3> QED
      BY <2>1, <2>2, <2>4, <3>1, <3>3, TakenMarks
  <2> QED
    BY <2>3, <2>4
<1>6. CASE JoinDemux
  <2>1. /\ pc["main"] = "joinDemux" /\ q' = [s \in Streams |-> <<>>]
        /\ UNCHANGED <<cmdQ, toMark, m_bSeekDone>>
    BY <1>6 DEF JoinDemux, MainOnly, demux
  <2>2. \A s \in Streams : NoMark(q'[s])
    BY <2>1 DEF NoMark
  <2> QED
    BY <1>3, <2>1, <2>2 DEF MarkInv, Ordered, DeletingPcs
<1> QED
  BY <1>2, <1>4, <1>5, <1>6

LEMMA MarkStep == DemuxerInv /\ [Next]_vars /\ ~failed' => MarkInv'
<1> SUFFICES ASSUME DemuxerInv, [Next]_vars, ~failed' PROVE MarkInv'
  OBVIOUS
<1>1. CASE UNCHANGED vars
  BY <1>1 DEF vars, demux, client, DemuxerInv, MarkInv, Ordered
<1>2. CASE ~failed /\ DemuxThread
  BY <1>2, DemuxMarkStep
<1>3. CASE ~failed /\ (\/ \E s \in Streams : BeginRead(s) \/ Pop(s)
                       \/ \E t \in Threads : LockWait(t) \/ Discard(t))
  BY <1>3, ReaderMarkStep DEF DemuxerInv
<1>4. CASE ~failed /\ (\/ \E d \in Positions : BeginSeek(d)
                       \/ PushSeek \/ Drain \/ EndDrain \/ ResetBuffers \/ ResetFlags)
  BY <1>4, SeekerMarkStep DEF DemuxerInv
<1>5. CASE ~failed /\ (BeginClose \/ JoinDecoders \/ PushStop \/ Unblock \/ JoinDemux)
  BY <1>5, MainMarkStep DEF DemuxerInv
<1> QED
  BY <1>1, <1>2, <1>3, <1>4, <1>5, StreamFacts DEF Next, Continue, Close

LEMMA InitDemuxer == Init => DemuxerInv
<1> SUFFICES ASSUME Init PROVE DemuxerInv
  OBVIOUS
<1>1. /\ Seeker \in Streams /\ Seeker \in Threads /\ "main" \in Threads
      /\ Streams \subseteq Threads /\ None \notin Threads
  BY StreamFacts
<1>2. DemuxTyped
  BY EmptySeq, MessageFacts DEF Init, DemuxTyped, Suffixes
<1>3. QueuesTyped
  BY EmptySeq DEF Init, QueuesTyped
<1>4. ClientTyped
  <2>1. pc \in [Threads -> PcValues] /\ op \in [Threads -> OpValues]
    BY DEF Init, PcValues, OpValues, None
  <2>2. got \in [Streams -> Message]
    BY MessageFacts DEF Init, SeekDone
  <2> QED
    BY <1>1, <2>1, <2>2 DEF Init, ClientTyped, ReaderAt, MainAt, Suffixes
<1>5. ClientInv
  BY <1>1 DEF Init, ClientInv, PastJoin, DeletingPcs
<1>6. MarkInv
  BY SuffixFacts DEF Init, MarkInv, Ordered, NoMark, Suffixes
<1> QED
  BY <1>2, <1>3, <1>4, <1>5, <1>6 DEF DemuxerInv, WellTyped

LEMMA DemuxerStep == DemuxerInv /\ [Next]_vars => DemuxerInv'
  BY TypeStep, ClientStep, MarkStep DEF DemuxerInv

\* The three counts of MarksIn are one or none.
LEMMA MarkInvCounts == DemuxerInv => MarksMatch
<1> SUFFICES ASSUME DemuxerInv, ~failed, NEW s \in Streams
             PROVE  MarksIn(s) = IF m_bSeekDone[s] THEN 0 ELSE 1
  BY DEF MarksMatch
<1>0. MarkAt(s) /\ q[s] \in Seq(Message) /\ toMark \in Suffixes
  BY MarkInvIs DEF DemuxerInv, WellTyped, QueuesTyped, DemuxTyped
<1> DEFINE Listed == {i \in DOMAIN toMark : toMark[i] = s}
           Queue == {i \in DOMAIN q[s] : q[s][i] = SeekDone}
<1>1. (\E i \in DOMAIN cmdQ : cmdQ[i] # Stop) <=> Ordered
  <2>1. CASE cmdQ = <<>>
    BY <2>1 DEF Ordered
  <2>2. CASE cmdQ # <<>>
    <3>1. PICK c : cmdQ = <<c>>
      BY <2>2 DEF DemuxerInv, WellTyped, QueuesTyped
    <3>2. DOMAIN cmdQ = {1} /\ cmdQ[1] = c /\ Head(cmdQ) = c /\ cmdQ # <<>>
      BY <3>1
    <3> QED
      BY <3>2 DEF Ordered
  <2> QED
    BY <2>1, <2>2
<1>2. Cardinality(Listed) = IF s \in Left(toMark) THEN 1 ELSE 0
  <2>1. CASE s \in Left(toMark)
    <3>1. PICK i : Listed = {i}
      BY <1>0, <2>1, SuffixFacts
    <3> QED
      BY <2>1, <3>1, FS_Singleton
  <2>2. CASE s \notin Left(toMark)
    <3>1. Listed = {}
      BY <2>2 DEF Left
    <3> QED
      BY <2>2, <3>1, FS_EmptySet
  <2> QED
    BY <2>1, <2>2
<1>3. DOMAIN q[s] = 1 .. Len(q[s])
  BY <1>0, LenProperties
<1>4. NoMark(q[s]) => Cardinality(Queue) = 0
  <2>1. NoMark(q[s]) => Queue = {}
    BY <1>3 DEF NoMark
  <2> QED
    BY <2>1, FS_EmptySet
<1>5. ASSUME OneMark(q[s]) PROVE Cardinality(Queue) = 1
  <2>1. PICK i \in 1 .. Len(q[s]) : /\ q[s][i] = SeekDone
                                    /\ \A j \in 1 .. Len(q[s]) : j # i => q[s][j] # SeekDone
    BY <1>5 DEF OneMark
  <2>2. Queue = {i}
    BY <1>3, <2>1
  <2> QED
    BY <2>2, FS_Singleton
<1>6. MarksIn(s) = (IF Ordered THEN 1 ELSE 0) + Cardinality(Listed) + Cardinality(Queue)
  BY <1>1 DEF MarksIn
<1> HIDE DEF Listed, Queue
<1> QED
  BY <1>0, <1>2, <1>4, <1>5, <1>6 DEF MarkAt

\* The demuxer thread and the clients agree on the marks that are still to come,
\* so that no wait for one is in vain and none is left behind, however seeks,
\* reads and the deletion interleave and however full the queues are.
THEOREM MarksMatchAlways == Spec => []MarksMatch
<1>1. Spec => []DemuxerInv
  BY InitDemuxer, DemuxerStep, PTL DEF Spec
<1> QED
  BY <1>1, MarkInvCounts, PTL

----------------------------------------------------------------------------
(* The packets from a place of the file on *)

LEMMA LeastNumber ==
    ASSUME NEW T, T \subseteq Nat, T # {}
    PROVE  \E x \in T : \A y \in T : x <= y
<1>1. PICK x \in T : \A y \in T : <<y, x>> \notin OpToRel(<, Nat)
  BY NatLessThanWellFounded, WFMin
<1>2. ASSUME NEW y \in T PROVE ~(y < x)
  BY <1>1 DEF OpToRel
<1> QED
  BY <1>2

\* FileFrom is what its equation says: such a function exists, as one for the
\* last k places of the file extends to one for the last k + 1.
LEMMA FileFromExists ==
    \A p \in 1 .. Eof :
        FileFrom[p] = [s \in Streams |-> IF p = Eof THEN <<Eof>>
                                         ELSE IF File[p] = s THEN <<p>> \o FileFrom[p + 1][s]
                                         ELSE FileFrom[p + 1][s]]
<1> DEFINE At(g, p) == [s \in Streams |-> IF p = Eof THEN <<Eof>>
                                         ELSE IF File[p] = s THEN <<p>> \o g[p + 1][s]
                                         ELSE g[p + 1][s]]
           Good(k) == \E g : \A p \in (Eof - k) .. Eof : g[p] = At(g, p)
           Bad == {k \in 0 .. Len(File) : ~Good(k)}
<1>0. Len(File) \in Nat /\ Eof = Len(File) + 1 /\ Eof \in Nat
  BY MessageFacts
<1>1. Good(0)
  <2> DEFINE g == [p \in {Eof} |-> [s \in Streams |-> <<Eof>>]]
  <2>1. g[Eof] = [s \in Streams |-> <<Eof>>]
    OBVIOUS
  <2>2. At(g, Eof) = [s \in Streams |-> <<Eof>>]
    OBVIOUS
  <2>3. \A p \in (Eof - 0) .. Eof : p = Eof
    BY <1>0
  <2> QED
    BY <2>1, <2>2, <2>3
<1>2. ASSUME NEW k \in Nat, k < Len(File), Good(k) PROVE Good(k + 1)
  <2>1. PICK g : \A p \in (Eof - k) .. Eof : g[p] = At(g, p)
    BY <1>2
  <2> DEFINE P == (Eof - (k + 1)) .. Eof
             h == [p \in P |-> IF p = Eof - (k + 1) THEN At(g, p) ELSE g[p]]
  <2>2. \A p \in P : p = Eof - (k + 1) \/ p \in (Eof - k) .. Eof
    BY <1>0, <1>2
  <2>3. \A p \in (Eof - k) .. Eof : p \in P /\ h[p] = g[p]
    BY <1>0, <1>2
  <2>4. ASSUME NEW p \in P PROVE At(h, p) = At(g, p)
    <3>1. CASE p = Eof
      BY <3>1
    <3>2. CASE p # Eof
      <4>1. p + 1 \in (Eof - k) .. Eof
        BY <1>0, <1>2, <3>2
      <4>2. h[p + 1] = g[p + 1]
        BY <2>3, <4>1
      <4> HIDE DEF h, P
      <4> QED
        BY <4>2
    <3> QED
      BY <3>1, <3>2
  <2>5. \A p \in P : h[p] = At(g, p)
    <3>1. \A p \in P : h[p] = IF p = Eof - (k + 1) THEN At(g, p) ELSE g[p]
      OBVIOUS
    <3> HIDE DEF h, P, At
    <3> QED
      BY <2>1, <2>2, <3>1
  <2>6. \A p \in P : h[p] = At(h, p)
    BY <2>4, <2>5
  <2>7. \A p \in (Eof - (k + 1)) .. Eof : h[p] = At(h, p)
    BY <2>6
  <2> HIDE DEF h, At
  <2> QED
    BY <2>7
<1>3. Bad = {}
  <2> SUFFICES ASSUME Bad # {} PROVE FALSE
    OBVIOUS
  <2> HIDE DEF Good
  <2>0. Bad \subseteq Nat
    BY <1>0
  <2>1. PICK k \in Bad : \A j \in Bad : k <= j
    <3> HIDE DEF Bad
    <3> QED
      BY <2>0, LeastNumber
  <2>2. k \in Nat /\ k <= Len(File) /\ k # 0 /\ ~Good(k)
    BY <1>0, <1>1, <2>1
  <2>3. k - 1 \in 0 .. Len(File) /\ k - 1 \in Nat /\ k - 1 < Len(File) /\ k - 1 + 1 = k
    BY <1>0, <2>2
  <2>4. Good(k - 1)
    BY <2>1, <2>2, <2>3
  <2> QED
    BY <1>2, <2>2, <2>3, <2>4
<1>4. Good(Len(File))
  <2> HIDE DEF Good
  <2>1. Len(File) \in 0 .. Len(File)
    BY <1>0
  <2> QED
    BY <1>3, <2>1
<1>5. PICK g : \A p \in (Eof - Len(File)) .. Eof : g[p] = At(g, p)
  BY <1>4
<1> DEFINE h == [p \in 1 .. Eof |-> g[p]]
<1>6. \A p \in 1 .. Eof : h[p] = At(g, p)
  BY <1>0, <1>5
<1>7. ASSUME NEW p \in 1 .. Eof PROVE At(h, p) = At(g, p)
  <2>1. CASE p = Eof
    BY <2>1
  <2>2. CASE p # Eof
    <3>1. h[p + 1] = g[p + 1]
      BY <1>0, <2>2
    <3> HIDE DEF h
    <3> QED
      BY <3>1
  <2> QED
    BY <2>1, <2>2
<1>8. h = [p \in 1 .. Eof |-> At(h, p)]
  <2>1. \A p \in 1 .. Eof : h[p] = At(h, p)
    BY <1>6, <1>7
  <2>2. h = [p \in 1 .. Eof |-> h[p]]
    OBVIOUS
  <2> HIDE DEF h, At
  <2> QED
    BY <2>1, <2>2
<1> DEFINE Sat(f) == f = [p \in 1 .. Eof |->
               [s \in Streams |-> IF p = Eof THEN <<Eof>>
                                  ELSE IF File[p] = s THEN <<p>> \o f[p + 1][s] ELSE f[p + 1][s]]]
<1>9. FileFrom = CHOOSE f : Sat(f)
  BY DEF FileFrom
<1>10. Sat(h)
  BY <1>8
<1>11. Sat(FileFrom)
  <2> HIDE DEF Sat, h
  <2> QED
    BY <1>9, <1>10
<1> QED
  BY <1>11

LEMMA FileFromIs ==
    ASSUME NEW p \in 1 .. Eof, NEW s \in Streams
    PROVE  FileFrom[p][s] = IF p = Eof THEN <<Eof>>
                            ELSE IF File[p] = s THEN <<p>> \o FileFrom[p + 1][s]
                            ELSE FileFrom[p + 1][s]
<1>1. FileFrom[p] = [r \in Streams |-> IF p = Eof THEN <<Eof>>
                                        ELSE IF File[p] = r THEN <<p>> \o FileFrom[p + 1][r]
                                        ELSE FileFrom[p + 1][r]]
  BY FileFromExists, Zenon
<1> QED
  BY <1>1, Zenon

LEMMA FileFromType ==
    \A p \in 1 .. Eof : \A s \in Streams : FileFrom[p][s] \in Seq(1 .. Eof)
<1> DEFINE Good(k) == \A s \in Streams : FileFrom[Eof - k][s] \in Seq(1 .. Eof)
           Bad == {k \in 0 .. Len(File) : ~Good(k)}
<1>0. Len(File) \in Nat /\ Eof = Len(File) + 1 /\ Eof \in Nat /\ Eof \in 1 .. Eof
  BY MessageFacts
<1>1. Good(0)
  <2>1. Eof - 0 = Eof
    BY <1>0
  <2>2. \A s \in Streams : FileFrom[Eof][s] = <<Eof>>
    BY <1>0, FileFromIs
  <2>3. <<Eof>> \in Seq(1 .. Eof)
    BY <1>0
  <2> QED
    BY <2>1, <2>2, <2>3
<1>2. ASSUME NEW k \in Nat, k < Len(File), Good(k) PROVE Good(k + 1)
  <2>1. /\ Eof - (k + 1) \in 1 .. Eof /\ Eof - (k + 1) # Eof
        /\ (Eof - (k + 1)) + 1 = Eof - k
    BY <1>0, <1>2
  <2>2. ASSUME NEW p \in 1 .. Eof, p # Eof, p + 1 = Eof - k, NEW s \in Streams
        PROVE FileFrom[p][s] \in Seq(1 .. Eof)
    <3>1. FileFrom[p][s] = IF File[p] = s THEN <<p>> \o FileFrom[p + 1][s] ELSE FileFrom[p + 1][s]
      BY <2>2, FileFromIs
    <3>2. FileFrom[p + 1][s] \in Seq(1 .. Eof) /\ <<p>> \in Seq(1 .. Eof)
      BY <1>2, <2>2
    <3>3. <<p>> \o FileFrom[p + 1][s] \in Seq(1 .. Eof)
      BY <3>2, ConcatProperties
    <3> QED
      BY <3>1, <3>2, <3>3
  <2> QED
    BY <2>1, <2>2
<1>3. Bad = {}
  <2> SUFFICES ASSUME Bad # {} PROVE FALSE
    OBVIOUS
  <2> HIDE DEF Good
  <2>0. Bad \subseteq Nat
    BY <1>0
  <2>1. PICK k \in Bad : \A j \in Bad : k <= j
    <3> HIDE DEF Bad
    <3> QED
      BY <2>0, LeastNumber
  <2>2. k \in Nat /\ k <= Len(File) /\ k # 0 /\ ~Good(k)
    BY <1>0, <1>1, <2>1
  <2>3. k - 1 \in 0 .. Len(File) /\ k - 1 \in Nat /\ k - 1 < Len(File) /\ k - 1 + 1 = k
    BY <1>0, <2>2
  <2>4. Good(k - 1)
    BY <2>1, <2>2, <2>3
  <2> QED
    BY <1>2, <2>2, <2>3, <2>4
<1>4. ASSUME NEW p \in 1 .. Eof, NEW s \in Streams PROVE FileFrom[p][s] \in Seq(1 .. Eof)
  <2>1. Eof - p \in 0 .. Len(File) /\ Eof - (Eof - p) = p
    BY <1>0
  <2>2. Good(Eof - p)
    <3> HIDE DEF Good
    <3> QED
      BY <1>3, <2>1
  <2> QED
    BY <2>1, <2>2
<1> QED
  BY <1>4

----------------------------------------------------------------------------
(* What is left of the streams *)

\* What follows the mark in a packet queue.
After(w) == LET i == CHOOSE i \in DOMAIN w : w[i] = SeekDone IN SubSeq(w, i + 1, Len(w))

LEMMA AfterIs ==
    ASSUME NEW w \in Seq(Message), NEW i \in 1 .. Len(w), w[i] = SeekDone,
           \A j \in 1 .. Len(w) : j # i => w[j] # SeekDone
    PROVE  /\ After(w) = SubSeq(w, i + 1, Len(w)) /\ After(w) \in Seq(1 .. Eof)
           /\ Len(After(w)) = Len(w) - i
           /\ \A k \in 1 .. (Len(w) - i) : After(w)[k] = w[i + k]
<1>1. Len(w) \in Nat /\ DOMAIN w = 1 .. Len(w) /\ \A j \in 1 .. Len(w) : w[j] \in 0 .. Eof
  BY LenProperties, ElementOfSeq DEF Message
<1>2. i = CHOOSE j \in DOMAIN w : w[j] = SeekDone
  BY <1>1
<1>3. After(w) = SubSeq(w, i + 1, Len(w))
  BY <1>2 DEF After
<1>4. \A j \in (i + 1) .. Len(w) : w[j] \in 1 .. Eof
  BY <1>1, MessageFacts DEF SeekDone
<1>5. /\ SubSeq(w, i + 1, Len(w)) \in Seq(1 .. Eof)
      /\ Len(SubSeq(w, i + 1, Len(w))) = IF i + 1 <= Len(w) THEN Len(w) - (i + 1) + 1 ELSE 0
      /\ \A k \in 1 .. (Len(w) - (i + 1) + 1) : SubSeq(w, i + 1, Len(w))[k] = w[(i + 1) + k - 1]
  BY <1>1, <1>4, SubSeqProperties
<1>6. Len(w) - (i + 1) + 1 = Len(w) - i
  BY <1>1
<1>7. ASSUME NEW k \in 1 .. (Len(w) - i) PROVE After(w)[k] = w[i + k]
  <2>1. SubSeq(w, i + 1, Len(w))[k] = w[(i + 1) + k - 1]
    BY <1>5, <1>6
  <2>2. (i + 1) + k - 1 = i + k
    BY <1>1
  <2> QED
    BY <1>3, <2>1, <2>2
<1>8. Len(After(w)) = Len(w) - i
  <2> DEFINE n == Len(w)
  <2>0. n \in Nat /\ i \in 1 .. n
    BY <1>1
  <2> HIDE DEF n
  <2>1. i < n \/ i = n
    BY <2>0
  <2>2. CASE i < n
    <3>1. i + 1 <= n
      BY <2>0, <2>2
    <3> QED
      BY <1>3, <1>5, <1>6, <3>1 DEF n
  <2>3. CASE i = n
    <3>1. ~(i + 1 <= n) /\ n - i = 0
      BY <2>0, <2>3
    <3> QED
      BY <1>3, <1>5, <3>1 DEF n
  <2> QED
    BY <2>1, <2>2, <2>3
<1> QED
  BY <1>3, <1>5, <1>7, <1>8

LEMMA AfterTail ==
    ASSUME NEW w \in Seq(Message), w # <<>>, OneMark(w)
    PROVE  IF Head(w) = SeekDone THEN After(w) = Tail(w) ELSE After(Tail(w)) = After(w)
<1>0. PICK i \in 1 .. Len(w) : w[i] = SeekDone /\ \A j \in 1 .. Len(w) : j # i => w[j] # SeekDone
  BY DEF OneMark
<1>1. /\ After(w) \in Seq(1 .. Eof) /\ Len(After(w)) = Len(w) - i
      /\ \A k \in 1 .. (Len(w) - i) : After(w)[k] = w[i + k]
  BY <1>0, AfterIs
<1>2. /\ Len(w) \in Nat /\ Len(w) >= 1 /\ Head(w) = w[1] /\ Tail(w) \in Seq(Message)
      /\ Len(Tail(w)) = Len(w) - 1 /\ \A k \in 1 .. Len(Tail(w)) : Tail(w)[k] = w[k + 1]
  BY HeadTailProperties, EmptySeq
<1>3. After(w) \in Seq(Message)
  BY <1>1, SeqMonotonic, MessageFacts DEF Message
<1>4. CASE Head(w) = SeekDone
  <2>1. i = 1
    BY <1>0, <1>2, <1>4
  <2>2. After(w) = Tail(w)
    BY <1>1, <1>2, <1>3, <2>1, SeqEqual
  <2> QED
    BY <1>4, <2>2
<1>5. CASE Head(w) # SeekDone
  <2>1. i - 1 \in 1 .. Len(Tail(w)) /\ (i - 1) + 1 = i
    BY <1>0, <1>2, <1>5
  <2>2. Tail(w)[i - 1] = SeekDone
    BY <1>0, <1>2, <2>1
  <2>3. ASSUME NEW j \in 1 .. Len(Tail(w)), j # i - 1 PROVE Tail(w)[j] # SeekDone
    <3>1. j + 1 \in 1 .. Len(w) /\ j + 1 # i
      BY <1>2, <2>3
    <3> QED
      BY <1>0, <1>2, <3>1
  <2>4. /\ After(Tail(w)) \in Seq(1 .. Eof) /\ Len(After(Tail(w))) = Len(Tail(w)) - (i - 1)
        /\ \A k \in 1 .. (Len(Tail(w)) - (i - 1)) : After(Tail(w))[k] = Tail(w)[i - 1 + k]
    BY <1>2, <2>1, <2>2, <2>3, AfterIs
  <2>5. Len(After(Tail(w))) = Len(After(w)) /\ Len(After(w)) = Len(w) - i
    BY <1>1, <1>2, <2>4
  <2>6. ASSUME NEW k \in 1 .. Len(After(Tail(w))) PROVE After(Tail(w))[k] = After(w)[k]
    <3>1. k \in 1 .. (Len(w) - i) /\ k \in 1 .. (Len(Tail(w)) - (i - 1))
          /\ i - 1 + k \in 1 .. Len(Tail(w)) /\ (i - 1 + k) + 1 = i + k
      BY <1>2, <2>1, <2>4
    <3> QED
      BY <1>1, <1>2, <2>4, <3>1
  <2>7. After(Tail(w)) = After(w)
    BY <1>1, <2>4, <2>5, <2>6, SeqEqual
  <2> QED
    BY <1>5, <2>7
<1> QED
  BY <1>4, <1>5

LEMMA AfterAppend ==
    ASSUME NEW w \in Seq(Message), NEW e \in Message
    PROVE  /\ e # SeekDone /\ OneMark(w) => After(Append(w, e)) = Append(After(w), e)
           /\ e = SeekDone /\ NoMark(w) => After(Append(w, e)) = <<>>
<1>1. /\ Append(w, e) \in Seq(Message)
      /\ Len(w) \in Nat /\ Len(Append(w, e)) = Len(w) + 1
      /\ Append(w, e)[Len(w) + 1] = e
      /\ \A i \in 1 .. Len(w) : Append(w, e)[i] = w[i]
  BY AppendProperties
<1>2. ASSUME e # SeekDone, OneMark(w) PROVE After(Append(w, e)) = Append(After(w), e)
  <2>0. PICK i \in 1 .. Len(w) : w[i] = SeekDone /\ \A j \in 1 .. Len(w) : j # i => w[j] # SeekDone
    BY <1>2 DEF OneMark
  <2>1. /\ After(w) \in Seq(1 .. Eof) /\ Len(After(w)) = Len(w) - i
        /\ \A k \in 1 .. (Len(w) - i) : After(w)[k] = w[i + k]
    BY <2>0, AfterIs
  <2>2. e \in 1 .. Eof
    BY <1>2, MessageFacts DEF Message, SeekDone
  <2>3. /\ Append(After(w), e) \in Seq(1 .. Eof) /\ Len(Append(After(w), e)) = Len(w) - i + 1
        /\ \A k \in 1 .. (Len(w) - i) : Append(After(w), e)[k] = w[i + k]
        /\ Append(After(w), e)[Len(w) - i + 1] = e
    BY <2>1, <2>2, AppendProperties
  <2>4. i \in 1 .. Len(Append(w, e)) /\ Append(w, e)[i] = SeekDone
    BY <1>1, <2>0
  <2>5. ASSUME NEW j \in 1 .. Len(Append(w, e)), j # i PROVE Append(w, e)[j] # SeekDone
    BY <1>1, <1>2, <2>0, <2>5
  <2>6. /\ After(Append(w, e)) \in Seq(1 .. Eof) /\ Len(After(Append(w, e))) = Len(Append(w, e)) - i
        /\ \A k \in 1 .. (Len(Append(w, e)) - i) : After(Append(w, e))[k] = Append(w, e)[i + k]
    BY <1>1, <2>4, <2>5, AfterIs
  <2>7. Len(After(Append(w, e))) = Len(Append(After(w), e))
    BY <1>1, <2>3, <2>6
  <2>8. ASSUME NEW k \in 1 .. Len(After(Append(w, e)))
        PROVE  After(Append(w, e))[k] = Append(After(w), e)[k]
    <3>1. k \in 1 .. (Len(w) - i) \/ k = Len(w) - i + 1
      <4>1. Len(Append(w, e)) - i = Len(w) - i + 1 /\ Len(w) - i \in Nat
        BY <1>1, <2>0
      <4>2. k \in 1 .. (Len(w) - i + 1)
        BY <2>6, <4>1
      <4> QED
        BY <4>1, <4>2
    <3>2. CASE k = Len(w) - i + 1
      <4>1. i + k = Len(w) + 1 /\ k \in 1 .. (Len(Append(w, e)) - i)
        BY <1>1, <2>0, <3>2
      <4> QED
        BY <1>1, <2>3, <2>6, <3>2, <4>1
    <3>3. CASE k \in 1 .. (Len(w) - i)
      <4>1. i + k \in 1 .. Len(w) /\ k \in 1 .. (Len(Append(w, e)) - i)
        BY <1>1, <2>0, <3>3
      <4> QED
        BY <1>1, <2>3, <2>6, <3>3, <4>1
    <3> QED
      BY <3>1, <3>2, <3>3
  <2> QED
    BY <2>3, <2>6, <2>7, <2>8, SeqEqual
<1>3. ASSUME e = SeekDone, NoMark(w) PROVE After(Append(w, e)) = <<>>
  <2>1. Len(w) + 1 \in 1 .. Len(Append(w, e)) /\ Append(w, e)[Len(w) + 1] = SeekDone
    BY <1>1, <1>3
  <2>2. \A j \in 1 .. Len(Append(w, e)) : j # Len(w) + 1 => Append(w, e)[j] # SeekDone
    BY <1>1, <1>3 DEF NoMark
  <2>3. /\ After(Append(w, e)) \in Seq(1 .. Eof)
        /\ Len(After(Append(w, e))) = Len(Append(w, e)) - (Len(w) + 1)
    BY <1>1, <2>1, <2>2, AfterIs
  <2> QED
    BY <1>1, <2>3, EmptySeq
<1> QED
  BY <1>2, <1>3

LEMMA TakeOfConcat ==
    ASSUME NEW S, NEW w \in Seq(S), NEW u \in Seq(S), w # <<>>
    PROVE  w \o u # <<>> /\ Head(w \o u) = Head(w) /\ Tail(w \o u) = Tail(w) \o u
<1>1. /\ Len(w) \in Nat /\ Len(w) >= 1 /\ Len(u) \in Nat /\ Head(w) = w[1]
      /\ Tail(w) \in Seq(S) /\ Len(Tail(w)) = Len(w) - 1
      /\ \A i \in 1 .. Len(Tail(w)) : Tail(w)[i] = w[i + 1]
  BY HeadTailProperties, EmptySeq
<1>2. /\ w \o u \in Seq(S) /\ Len(w \o u) = Len(w) + Len(u)
      /\ \A i \in 1 .. Len(w) + Len(u) :
             (w \o u)[i] = IF i <= Len(w) THEN w[i] ELSE u[i - Len(w)]
  BY ConcatProperties
<1>3. w \o u # <<>>
  BY <1>1, <1>2, EmptySeq
<1>4. /\ Head(w \o u) = (w \o u)[1]
      /\ Tail(w \o u) \in Seq(S) /\ Len(Tail(w \o u)) = Len(w \o u) - 1
      /\ \A i \in 1 .. Len(Tail(w \o u)) : Tail(w \o u)[i] = (w \o u)[i + 1]
  BY <1>2, <1>3, HeadTailProperties
<1>5. Head(w \o u) = Head(w)
  BY <1>1, <1>2, <1>4
<1>6. /\ Tail(w) \o u \in Seq(S) /\ Len(Tail(w) \o u) = Len(Tail(w)) + Len(u)
      /\ \A i \in 1 .. Len(Tail(w)) + Len(u) :
             (Tail(w) \o u)[i] = IF i <= Len(Tail(w)) THEN Tail(w)[i] ELSE u[i - Len(Tail(w))]
  BY <1>1, ConcatProperties
<1>7. Len(Tail(w \o u)) = Len(Tail(w) \o u)
  BY <1>1, <1>2, <1>4, <1>6
<1>8. ASSUME NEW i \in 1 .. Len(Tail(w \o u)) PROVE Tail(w \o u)[i] = (Tail(w) \o u)[i]
  <2>1. i \in Nat /\ i + 1 \in 1 .. Len(w) + Len(u) /\ i \in 1 .. Len(Tail(w)) + Len(u)
    BY <1>1, <1>2, <1>4, <1>8
  <2>2. CASE i <= Len(Tail(w))
    <3>1. i + 1 <= Len(w) /\ i \in 1 .. Len(Tail(w))
      BY <1>1, <2>1, <2>2
    <3> QED
      BY <1>1, <1>2, <1>4, <1>6, <2>1, <2>2, <3>1
  <2>3. CASE ~(i <= Len(Tail(w)))
    <3>1. ~(i + 1 <= Len(w)) /\ i + 1 - Len(w) = i - Len(Tail(w))
      BY <1>1, <2>1, <2>3
    <3> QED
      BY <1>2, <1>4, <1>6, <2>1, <2>3, <3>1
  <2> QED
    BY <2>2, <2>3
<1>9. Tail(w \o u) = Tail(w) \o u
  BY <1>4, <1>6, <1>7, <1>8, SeqEqual
<1> QED
  BY <1>3, <1>5, <1>9

LEMMA MoveOver ==
    ASSUME NEW S, NEW w \in Seq(S), NEW u \in Seq(S), NEW e \in S
    PROVE  Append(w, e) \o u = w \o (<<e>> \o u)
<1>1. Append(w, e) = w \o <<e>> /\ <<e>> \in Seq(S)
  BY AppendIsConcat
<1> QED
  BY <1>1, ConcatAssociative

LEMMA TakeOff ==
    ASSUME NEW S, NEW w \in Seq(S), NEW u \in Seq(S), w # <<>>
    PROVE  w \o u = <<Head(w)>> \o (Tail(w) \o u)
<1>1. Head(w) \in S /\ Tail(w) \in Seq(S) /\ <<Head(w)>> \in Seq(S)
  BY HeadTailProperties
<1>2. w = <<Head(w)>> \o Tail(w)
  <2>1. /\ Len(w) \in Nat /\ Len(w) >= 1 /\ Head(w) = w[1] /\ Len(Tail(w)) = Len(w) - 1
        /\ \A i \in 1 .. Len(Tail(w)) : Tail(w)[i] = w[i + 1]
    BY HeadTailProperties, EmptySeq
  <2>2. Len(<<Head(w)>>) = 1 /\ <<Head(w)>>[1] = Head(w)
    OBVIOUS
  <2>3. /\ <<Head(w)>> \o Tail(w) \in Seq(S) /\ Len(<<Head(w)>> \o Tail(w)) = 1 + Len(Tail(w))
        /\ \A i \in 1 .. 1 + Len(Tail(w)) :
               (<<Head(w)>> \o Tail(w))[i] = IF i <= 1 THEN <<Head(w)>>[i] ELSE Tail(w)[i - 1]
    BY <1>1, <2>2, ConcatProperties
  <2>4. Len(<<Head(w)>> \o Tail(w)) = Len(w)
    BY <2>1, <2>3
  <2>5. ASSUME NEW i \in 1 .. Len(w) PROVE w[i] = (<<Head(w)>> \o Tail(w))[i]
    <3>1. i \in 1 .. 1 + Len(Tail(w))
      BY <2>1
    <3>2. CASE i = 1
      BY <2>1, <2>2, <2>3, <3>1, <3>2
    <3>3. CASE i # 1
      <4>1. i - 1 \in 1 .. Len(Tail(w)) /\ (i - 1) + 1 = i /\ ~(i <= 1)
        BY <2>1, <3>3
      <4> QED
        BY <2>1, <2>3, <3>1, <4>1
    <3> QED
      BY <3>2, <3>3
  <2> QED
    BY <2>3, <2>4, <2>5, SeqEqual
<1>3. (<<Head(w)>> \o Tail(w)) \o u = <<Head(w)>> \o (Tail(w) \o u)
  BY <1>1, ConcatAssociative
<1> QED
  BY <1>2, <1>3

RestAt(s) ==
    IF Deleting THEN <<>>
    ELSE IF Ordered THEN FileFrom[Head(cmdQ)][s]
    ELSE IF s \in Left(toMark) THEN Unread(s)
    ELSE IF NoMark(q[s]) THEN q[s] \o Unread(s)
    ELSE After(q[s]) \o Unread(s)

LEMMA RestIs == WellTyped => Rest = [s \in Streams |-> RestAt(s)]
<1> SUFFICES ASSUME WellTyped PROVE Rest = [s \in Streams |-> RestAt(s)]
  OBVIOUS
<1>1. IF Ordered THEN /\ \E i \in DOMAIN cmdQ : cmdQ[i] # Stop
                      /\ cmdQ[CHOOSE i \in DOMAIN cmdQ : cmdQ[i] # Stop] = Head(cmdQ)
      ELSE ~ \E i \in DOMAIN cmdQ : cmdQ[i] # Stop
  <2>1. CASE cmdQ = <<>>
    BY <2>1 DEF Ordered
  <2>2. CASE cmdQ # <<>>
    <3>1. PICK c : cmdQ = <<c>>
      BY <2>2 DEF WellTyped, QueuesTyped
    <3>2. DOMAIN cmdQ = {1} /\ cmdQ[1] = c /\ Head(cmdQ) = c
      BY <3>1
    <3> QED
      BY <2>2, <3>2 DEF Ordered
  <2> QED
    BY <2>1, <2>2
<1>2. ASSUME NEW s \in Streams PROVE Rest[s] = RestAt(s)
  <2>1. q[s] \in Seq(Message) /\ DOMAIN q[s] = 1 .. Len(q[s])
    BY LenProperties DEF WellTyped, QueuesTyped
  <2>2. (\E i \in DOMAIN q[s] : q[s][i] = SeekDone) <=> ~NoMark(q[s])
    BY <2>1 DEF NoMark
  <2>3. (\E i \in DOMAIN toMark : toMark[i] = s) <=> s \in Left(toMark)
    BY DEF Left
  <2>4. AfterMark(s) = After(q[s])
    BY DEF AfterMark, After
  <2>5. Rest[s] = IF Deleting THEN <<>>
                  ELSE IF \E i \in DOMAIN cmdQ : cmdQ[i] # Stop
                  THEN FileFrom[cmdQ[CHOOSE i \in DOMAIN cmdQ : cmdQ[i] # Stop]][s]
                  ELSE IF \E i \in DOMAIN toMark : toMark[i] = s THEN Unread(s)
                  ELSE IF \E i \in DOMAIN q[s] : q[s][i] = SeekDone THEN AfterMark(s) \o Unread(s)
                  ELSE q[s] \o Unread(s)
    BY DEF Rest, PacketsFrom
  <2> QED
    BY <1>1, <2>2, <2>3, <2>4, <2>5 DEF RestAt
<1>3. Rest = [s \in Streams |-> Rest[s]]
  BY DEF Rest
<1> QED
  BY <1>2, <1>3

LEMMA RestIsNext == WellTyped' => Rest' = [s \in Streams |-> RestAt(s)']
<1>1. (WellTyped => Rest = [s \in Streams |-> RestAt(s)])'
  BY RestIs, PTL
<1> QED
  BY <1>1

LEMMA RestKept ==
    ASSUME WellTyped, WellTyped', \A s \in Streams : RestAt(s)' = RestAt(s)
    PROVE  Rest' = Rest
  BY RestIs, RestIsNext

\* Of what a stream is made up.
LEMMA PartTypes ==
    ASSUME WellTyped, NEW s \in Streams
    PROVE  /\ q[s] \in Seq(Message) /\ cache[s] \in Seq(Message)
           /\ FileFrom[filePos][s] \in Seq(Message) /\ Unread(s) \in Seq(Message)
           /\ OneMark(q[s]) => After(q[s]) \in Seq(Message)
           /\ Unread(s) = IF qEOF[s] /\ s \notin Left(toMark) THEN <<>>
                          ELSE cache[s] \o FileFrom[filePos][s]
<1>1. q[s] \in Seq(Message) /\ cache[s] \in Seq(1 .. Len(File)) /\ filePos \in 1 .. Eof
  BY DEF WellTyped, QueuesTyped, DemuxTyped
<1>2. 1 .. Len(File) \subseteq Message /\ 1 .. Eof \subseteq Message
  BY MessageFacts DEF Message
<1>3. cache[s] \in Seq(Message)
  BY <1>1, <1>2, SeqMonotonic
<1>4. FileFrom[filePos][s] \in Seq(Message)
  BY <1>1, <1>2, FileFromType, SeqMonotonic
<1>5. Unread(s) = IF qEOF[s] /\ s \notin Left(toMark) THEN <<>>
                  ELSE cache[s] \o FileFrom[filePos][s]
  BY DEF Unread, Left
<1>6. Unread(s) \in Seq(Message)
  BY <1>3, <1>4, <1>5, ConcatProperties, EmptySeq
<1>7. OneMark(q[s]) => After(q[s]) \in Seq(Message)
  <2>1. OneMark(q[s]) => After(q[s]) \in Seq(1 .. Eof)
    BY <1>1, AfterIs DEF OneMark
  <2> QED
    BY <1>2, <2>1, SeqMonotonic
<1> QED
  BY <1>1, <1>3, <1>4, <1>5, <1>6, <1>7

LEMMA UnreadType == WellTyped => \A s \in Streams : Unread(s) \in Seq(Message)
  BY PartTypes

LEMMA NotBoth == ASSUME NEW w PROVE ~(NoMark(w) /\ OneMark(w))
  BY DEF NoMark, OneMark

\* A packet moves from what is still to be read to the queue.
LEMMA QueuedRest ==
    ASSUME WellTyped, WellTyped', MarkInv, demuxPc = "read", NEW p \in 1 .. Eof, Queued(p),
           UNCHANGED <<cmdQ, toMark, client>>, NEW r \in Streams, r = reading,
           \A s \in Streams : s # r => Unread(s)' = Unread(s),
           Unread(r) = <<p>> \o Unread(r)', Unread(r)' \in Seq(Message)
    PROVE  Rest' = Rest
<1>0. q \in [Streams -> Seq(Message)] /\ p \in Message /\ p # SeekDone
  BY MessageFacts DEF WellTyped, DemuxTyped, QueuesTyped, Message
<1>1. q' = [q EXCEPT ![r] = Append(q[r], p)] /\ Ordered' = Ordered
      /\ Head(cmdQ)' = Head(cmdQ) /\ Left(toMark)' = Left(toMark) /\ Deleting' = Deleting
  BY DEF Queued, Ordered, client, Deleting
<1>2. toMark = <<>> /\ Left(toMark) = {}
  BY SuffixFacts DEF WellTyped, DemuxTyped, Suffixes
<1>3. ASSUME NEW s \in Streams PROVE RestAt(s)' = RestAt(s)
  <2>1. CASE s # r
    <3>1. q'[s] = q[s] /\ Unread(s)' = Unread(s)
      BY <1>0, <1>1, <2>1
    <3> QED
      BY <1>1, <3>1 DEF RestAt
  <2>2. CASE s = r
    <3>1. /\ q'[s] = Append(q[s], p) /\ q[s] \in Seq(Message)
          /\ Unread(s) = <<p>> \o Unread(s)' /\ Unread(s)' \in Seq(Message)
      BY <1>0, <1>1, <2>2
    <3>2. MarkAt(s)
      BY MarkInvIs
    <3>3. CASE NoMark(q[s])
      <4>1. NoMark(q[s])'
        BY <1>0, <3>1, <3>3, AppendMark
      <4>2. Append(q[s], p) \o Unread(s)' = q[s] \o (<<p>> \o Unread(s)')
        <5>1. q[s] \in Seq(Message) /\ p \in Message
          BY <1>0
        <5>2. Unread(s)' \in Seq(Message)
          BY <2>2
        <5>3. \A w, u \in Seq(Message), e \in Message : Append(w, e) \o u = w \o (<<e>> \o u)
          BY MoveOver
        <5> QED
          BY <5>1, <5>2, <5>3, Zenon
      <4>3. q'[s] \o Unread(s)' = q[s] \o Unread(s)
        BY <3>1, <4>2
      <4> QED
        BY <1>1, <1>2, <3>3, <4>1, <4>3 DEF RestAt
    <3>4. CASE OneMark(q[s])
      <4>1. OneMark(q'[s]) /\ ~NoMark(q[s]) /\ ~NoMark(q[s])'
        BY <1>0, <3>1, <3>4, AppendMark, NotBoth
      <4>2. After(q'[s]) = Append(After(q[s]), p) /\ After(q[s]) \in Seq(Message)
        BY <1>0, <3>1, <3>4, AfterAppend, PartTypes
      <4>3. Append(After(q[s]), p) \o Unread(s)' = After(q[s]) \o (<<p>> \o Unread(s)')
        <5>1. After(q[s]) \in Seq(Message) /\ Unread(s)' \in Seq(Message) /\ p \in Message
          BY <1>0, <3>1, <4>2
        <5> QED
          BY <5>1, MoveOver
      <4>4. After(q[s])' \o Unread(s)' = After(q[s]) \o Unread(s)
        BY <3>1, <4>2, <4>3
      <4> QED
        BY <1>1, <1>2, <4>1, <4>4 DEF RestAt
    <3> QED
      BY <3>2, <3>3, <3>4 DEF MarkAt
  <2> QED
    BY <2>1, <2>2
<1> QED
  BY <1>3, RestKept

\* What is still to be read, from one place of the file to the next.
LEMMA NextPlace ==
    ASSUME NEW p \in 1 .. Len(File), NEW s \in Streams
    PROVE  /\ File[p] = s => FileFrom[p][s] = <<p>> \o FileFrom[p + 1][s]
           /\ File[p] # s => FileFrom[p][s] = FileFrom[p + 1][s]
<1>1. p \in 1 .. Eof /\ p # Eof
  BY MessageFacts
<1> QED
  BY <1>1, FileFromIs

LEMMA FetchRest ==
    ASSUME WellTyped, WellTyped', MarkInv, CachedPacket \/ ReadFrame,
           NEW r \in Streams, r = reading
    PROVE  Rest' = Rest
<1>0. /\ demuxPc = "read" /\ ~qEOF[r] /\ UNCHANGED <<cmdQ, toMark, client>>
      /\ qEOF \in [Streams -> BOOLEAN] /\ cache \in [Streams -> Seq(1 .. Len(File))]
  BY DEF CachedPacket, ReadFrame, WellTyped, DemuxTyped
<1>1. Left(toMark) = {} /\ Left(toMark)' = {}
  BY <1>0, SuffixFacts DEF WellTyped, DemuxTyped, Suffixes
<1>2. \A s \in Streams : Unread(s) = IF qEOF[s] THEN <<>> ELSE cache[s] \o FileFrom[filePos][s]
  BY <1>1, PartTypes
<1>3. \A s \in Streams : Unread(s)' = IF qEOF'[s] THEN <<>> ELSE cache'[s] \o FileFrom[filePos'][s]
  BY <1>0, <1>1 DEF Unread, Left
<1>4. \A s \in Streams : Unread(s)' \in Seq(Message)
  <2>1. (WellTyped => \A s \in Streams : Unread(s) \in Seq(Message))'
    BY UnreadType, PTL
  <2> QED
    BY <2>1
<1>5. CASE CachedPacket
  <2> DEFINE p == Head(cache[r])
  <2>1. /\ cache[r] # <<>> /\ Queued(p) /\ UNCHANGED filePos
        /\ cache' = [cache EXCEPT ![r] = Tail(cache[r])]
    BY <1>5 DEF CachedPacket
  <2>2. p \in 1 .. Eof /\ p # Eof
    BY <1>0, <2>1, HeadTailProperties, MessageFacts
  <2>3. qEOF' = [qEOF EXCEPT ![r] = FALSE]
    BY <2>1, <2>2 DEF Queued
  <2>4. \A s \in Streams : s # r => Unread(s)' = Unread(s)
    BY <1>0, <1>2, <1>3, <2>1, <2>3
  <2>5. Unread(r) = <<p>> \o Unread(r)'
    <3>1. cache[r] \in Seq(Message) /\ FileFrom[filePos][r] \in Seq(Message)
      BY <1>0, PartTypes
    <3>2. cache[r] \o FileFrom[filePos][r]
              = <<p>> \o (Tail(cache[r]) \o FileFrom[filePos][r])
      BY <2>1, <3>1, TakeOff
    <3>3. cache'[r] = Tail(cache[r]) /\ ~qEOF'[r]
      BY <1>0, <2>1, <2>3
    <3> HIDE DEF p
    <3> QED
      BY <1>0, <1>2, <1>3, <2>1, <3>2, <3>3
  <2> HIDE DEF p
  <2> QED
    BY <1>0, <1>4, <2>1, <2>2, <2>4, <2>5, QueuedRest
<1>6. CASE ReadFrame
  <2>1. cache[r] = <<>> /\ filePos \in 1 .. Eof /\ Eof \in 1 .. Eof
    BY <1>6, MessageFacts DEF ReadFrame, WellTyped, DemuxTyped
  <2>2. \A s \in Streams : FileFrom[filePos][s] \in Seq(Message) /\ cache[s] \in Seq(Message)
    BY PartTypes
  <2>3. Unread(r) = FileFrom[filePos][r]
    BY <1>0, <1>2, <2>1, <2>2, ConcatEmptySeq
  <2>4. CASE filePos = Eof
    <3>1. Queued(Eof) /\ UNCHANGED <<filePos, cache>>
      BY <1>6, <2>4 DEF ReadFrame
    <3>2. qEOF' = [qEOF EXCEPT ![r] = TRUE]
      BY <3>1 DEF Queued
    <3>3. \A s \in Streams : s # r => Unread(s)' = Unread(s)
      BY <1>0, <1>2, <1>3, <3>1, <3>2
    <3>4. Unread(r)' = <<>>
      BY <1>0, <1>3, <3>2
    <3>5. FileFrom[filePos][r] = <<Eof>>
      BY <1>0, <2>1, <2>4, FileFromIs
    <3>6. Unread(r) = <<Eof>> \o Unread(r)'
      <4>1. <<Eof>> \in Seq(Message)
        BY MessageFacts
      <4> QED
        BY <2>3, <3>4, <3>5, <4>1, ConcatEmptySeq
    <3> QED
      BY <1>0, <1>4, <2>1, <3>1, <3>3, <3>6, QueuedRest
  <2>5. CASE filePos # Eof
    <3>1. filePos \in 1 .. Len(File) /\ File[filePos] \in Streams /\ filePos' = filePos + 1
          /\ filePos \in 1 .. Eof /\ filePos \in Message
      BY <1>6, <2>1, <2>5, MessageFacts DEF ReadFrame
    <3>2. /\ \A s \in Streams : File[filePos] = s =>
                 FileFrom[filePos][s] = <<filePos>> \o FileFrom[filePos'][s]
          /\ \A s \in Streams : File[filePos] # s => FileFrom[filePos][s] = FileFrom[filePos'][s]
      BY <3>1, NextPlace
    <3>3. CASE File[filePos] = r
      <4>1. Queued(filePos) /\ UNCHANGED cache
        BY <1>6, <2>5, <3>3 DEF ReadFrame
      <4>2. qEOF' = [qEOF EXCEPT ![r] = FALSE]
        BY <2>5, <4>1 DEF Queued
      <4>3. ASSUME NEW s \in Streams, s # r PROVE Unread(s)' = Unread(s)
        <5>1. qEOF'[s] = qEOF[s] /\ cache'[s] = cache[s]
          BY <1>0, <4>1, <4>2, <4>3
        <5>2. FileFrom[filePos][s] = FileFrom[filePos'][s]
          BY <3>2, <3>3, <4>3
        <5> QED
          BY <1>2, <1>3, <5>1, <5>2
      <4>4. Unread(r)' = <<>> \o FileFrom[filePos'][r] /\ ~qEOF'[r]
        BY <1>0, <1>3, <2>1, <4>1, <4>2
      <4>5. FileFrom[filePos'][r] \in Seq(Message)
        <5>1. filePos' \in 1 .. Eof
          BY DEF WellTyped, DemuxTyped
        <5>2. 1 .. Eof \subseteq Message
          BY MessageFacts DEF Message
        <5> QED
          BY <1>0, <5>1, <5>2, FileFromType, SeqMonotonic
      <4>6. Unread(r)' = FileFrom[filePos'][r]
        BY <4>4, <4>5, ConcatEmptySeq
      <4>7. Unread(r) = <<filePos>> \o Unread(r)'
        BY <1>0, <2>3, <3>2, <3>3, <4>6
      <4> QED
        BY <1>0, <1>4, <3>1, <4>1, <4>3, <4>7, QueuedRest
    <3>4. CASE File[filePos] # r
      <4> DEFINE m == File[filePos]
      <4>1. /\ cache' = [cache EXCEPT ![m] = Append(cache[m], filePos)]
            /\ UNCHANGED <<q, qEOF, demuxPc, reading>>
        BY <1>6, <2>5, <3>4 DEF ReadFrame
      <4>2. ASSUME NEW s \in Streams PROVE Unread(s)' = Unread(s)
        <5>1. CASE s # m
          <6>1. cache'[s] = cache[s] /\ qEOF'[s] = qEOF[s]
                /\ FileFrom[filePos][s] = FileFrom[filePos'][s]
            BY <1>0, <3>1, <3>2, <4>1, <5>1
          <6> QED
            BY <1>2, <1>3, <6>1
        <5>2. CASE s = m
          <6>1. cache'[s] = Append(cache[s], filePos) /\ qEOF'[s] = qEOF[s]
                /\ FileFrom[filePos][s] = <<filePos>> \o FileFrom[filePos'][s]
            BY <1>0, <3>1, <3>2, <4>1, <5>2
          <6>2. FileFrom[filePos'][s] \in Seq(Message)
            <7>1. filePos' \in 1 .. Eof
              BY DEF WellTyped, DemuxTyped
            <7>2. 1 .. Eof \subseteq Message
              BY MessageFacts DEF Message
            <7> QED
              BY <7>1, <7>2, FileFromType, SeqMonotonic
          <6>3. Append(cache[s], filePos) \o FileFrom[filePos'][s]
                    = cache[s] \o (<<filePos>> \o FileFrom[filePos'][s])
            <7>1. cache[s] \in Seq(Message) /\ filePos \in Message
              BY <2>2, <3>1
            <7> DEFINE w == cache[s]
                       u == FileFrom[filePos'][s]
            <7>2. w \in Seq(Message) /\ u \in Seq(Message)
              BY <6>2, <7>1
            <7> HIDE DEF w, u
            <7>3. Append(w, filePos) \o u = w \o (<<filePos>> \o u)
              BY <7>1, <7>2, MoveOver
            <7> QED
              BY <7>3 DEF w, u
          <6> QED
            BY <1>2, <1>3, <6>1, <6>3
        <5> QED
          BY <5>1, <5>2
      <4>3. ASSUME NEW s \in Streams PROVE RestAt(s)' = RestAt(s)
        <5>1. Ordered' = Ordered /\ Head(cmdQ)' = Head(cmdQ) /\ Deleting' = Deleting
              /\ Left(toMark)' = Left(toMark) /\ NoMark(q[s])' = NoMark(q[s])
              /\ After(q[s])' = After(q[s]) /\ q'[s] = q[s]
          BY <1>0, <4>1 DEF Ordered, Deleting, client
        <5> QED
          BY <4>2, <5>1 DEF RestAt
      <4> QED
        BY <4>3, RestKept
    <3> QED
      BY <3>3, <3>4
  <2> QED
    BY <2>4, <2>5
<1> QED
  BY <1>5, <1>6

LEMMA ExecuteRest ==
    ASSUME WellTyped, WellTyped', Execute, demuxPc # "mark"
    PROVE  Rest' = Rest
<1>1. PICK c \in Positions \cup {Stop} : cmdQ = <<c>>
  BY DEF WellTyped, QueuesTyped, Execute
<1>2. /\ Head(cmdQ) = c /\ cmdQ' = <<>> /\ ~Ordered' /\ UNCHANGED <<q, qEOF>>
      /\ Left(toMark) = {} /\ (Ordered <=> c # Stop) /\ Deleting' = Deleting
  <2>1. Head(cmdQ) = c /\ Tail(cmdQ) = <<>> /\ cmdQ # <<>>
    BY <1>1
  <2>2. Left(toMark) = {}
    BY SuffixFacts DEF WellTyped, DemuxTyped, Suffixes
  <2> QED
    BY <2>1, <2>2 DEF Execute, Ordered, client, Deleting
<1>3. CASE c = Stop
  <2>1. UNCHANGED <<filePos, cache, toMark>>
    BY <1>2, <1>3 DEF Execute
  <2>2. ASSUME NEW s \in Streams PROVE RestAt(s)' = RestAt(s)
    <3>1. Unread(s)' = Unread(s) /\ NoMark(q[s])' = NoMark(q[s]) /\ After(q[s])' = After(q[s])
          /\ Left(toMark)' = Left(toMark)
      BY <1>2, <2>1 DEF Unread
    <3> QED
      BY <1>2, <1>3, <3>1 DEF RestAt
  <2> QED
    BY <2>2, RestKept
<1>4. CASE c # Stop
  <2>1. /\ filePos' = c /\ cache' = [s \in Streams |-> <<>>] /\ toMark' = StreamIndexes
    BY <1>2, <1>4 DEF Execute
  <2>2. Left(toMark)' = Streams
    BY <2>1, SuffixFacts DEF Suffixes
  <2>3. ASSUME NEW s \in Streams PROVE RestAt(s)' = RestAt(s)
    <3>1. FileFrom[c][s] \in Seq(1 .. Eof)
      <4>1. c \in 1 .. Eof
        BY <1>4, MessageFacts
      <4> QED
        BY <4>1, FileFromType
    <3>2. Unread(s)' = cache'[s] \o FileFrom[filePos'][s]
      BY <2>2 DEF Unread, Left
    <3>3. Unread(s)' = <<>> \o FileFrom[c][s]
      BY <2>1, <3>2
    <3>4. Unread(s)' = FileFrom[c][s]
      BY <3>1, <3>3, ConcatEmptySeq
    <3> QED
      BY <1>2, <1>4, <2>2, <3>4 DEF RestAt
  <2> QED
    BY <2>3, RestKept
<1> QED
  BY <1>3, <1>4

LEMMA MarkRest ==
    ASSUME WellTyped, WellTyped', MarkInv, Mark
    PROVE  Rest' = Rest
<1>1. toMark # <<>> /\ toMark \in Suffixes /\ qEOF \in [Streams -> BOOLEAN]
      /\ q \in [Streams -> Seq(Message)]
  BY DEF Mark, WellTyped, DemuxTyped, QueuesTyped
<1>2. PICK m \in Streams : m = Head(toMark)
  BY <1>1, SuffixFacts
<1>3. /\ m \in Left(toMark) /\ Left(toMark)' = Left(toMark) \ {m}
      /\ q' = [q EXCEPT ![m] = Append(q[m], SeekDone)] /\ qEOF' = [qEOF EXCEPT ![m] = FALSE]
      /\ UNCHANGED <<filePos, cache, cmdQ>> /\ Deleting' = Deleting
      /\ Ordered' = Ordered /\ Head(cmdQ)' = Head(cmdQ)
  <2>1. Left(Tail(toMark)) = Left(toMark) \ {m} /\ m \in Left(toMark)
    BY <1>1, <1>2, SuffixFacts
  <2> QED
    BY <1>2, <2>1 DEF Mark, Deleting, Ordered, client
<1>4. ASSUME NEW s \in Streams PROVE RestAt(s)' = RestAt(s)
  <2>1. CASE s # m
    <3>1. q'[s] = q[s] /\ qEOF'[s] = qEOF[s] /\ (s \in Left(toMark) <=> s \in Left(toMark)')
      BY <1>1, <1>3, <2>1
    <3>2. NoMark(q[s])' = NoMark(q[s]) /\ After(q[s])' = After(q[s])
      BY <3>1
    <3>3. Unread(s)' = Unread(s)
      BY <1>3, <3>1 DEF Unread, Left
    <3> QED
      BY <1>3, <3>1, <3>2, <3>3 DEF RestAt
  <2>2. CASE s = m
    <3>1. q'[s] = Append(q[s], SeekDone) /\ ~qEOF'[s] /\ s \in Left(toMark) /\ s \notin Left(toMark)'
      BY <1>1, <1>3, <2>2
    <3>2. NoMark(q[s])
      BY <3>1, MarkInvIs DEF MarkAt
    <3>3. After(q'[s]) = <<>> /\ ~NoMark(q[s])'
      <4>1. OneMark(q'[s]) /\ After(q'[s]) = <<>>
        BY <1>1, <3>1, <3>2, AppendMark, AfterAppend, MessageFacts
      <4> QED
        BY <4>1, NotBoth
    <3>4. Unread(s)' = Unread(s)
      BY <1>3, <3>1 DEF Unread, Left
    <3>5. After(q[s])' \o Unread(s)' = Unread(s)
      BY <3>3, <3>4, PartTypes, ConcatEmptySeq
    <3> QED
      BY <1>3, <3>1, <3>3, <3>5 DEF RestAt
  <2> QED
    BY <2>1, <2>2
<1> QED
  BY <1>4, RestKept

\* What the demuxer thread does changes nothing of what is left of a stream.
LEMMA DemuxRestStep ==
    ASSUME WellTyped, WellTyped', MarkInv, DemuxThread
    PROVE  Rest' = Rest
<1>1. CASE Work \/ NoMoreCommands
  <2>1. UNCHANGED <<filePos, cache, q, qEOF, cmdQ, toMark>> /\ Deleting' = Deleting
    BY <1>1 DEF Work, NoMoreCommands, client, Deleting
  <2> QED
    BY <2>1 DEF Rest, Unread, AfterMark, PacketsFrom
<1>2. CASE CachedPacket \/ ReadFrame
  <2>1. reading \in Streams
    BY <1>2 DEF CachedPacket, ReadFrame, WellTyped, DemuxTyped
  <2>2. PICK r \in Streams : r = reading
    BY <2>1
  <2> QED
    BY <1>2, <2>2, FetchRest
<1>3. CASE WaitForCommand \/ ProcessCommand
  BY <1>3, ExecuteRest DEF WaitForCommand, ProcessCommand
<1>4. CASE Mark
  BY <1>4, MarkRest
<1> QED
  BY <1>1, <1>2, <1>3, <1>4 DEF DemuxThread

\* A packet or mark that precedes the position sought does not belong to it.
LEMMA OldTaken ==
    ASSUME WellTyped, WellTyped', MarkInv, NEW s \in Streams, ~m_bSeekDone[s], q[s] # <<>>,
           q' = [q EXCEPT ![s] = Tail(q[s])],
           UNCHANGED <<filePos, cache, qEOF, cmdQ, toMark>>, Deleting' = Deleting
    PROVE  Rest' = Rest
<1>0. q \in [Streams -> Seq(Message)]
  BY DEF WellTyped, QueuesTyped
<1>1. \A u \in Streams : Unread(u)' = Unread(u)
  BY DEF Unread
<1>2. Ordered' = Ordered /\ Head(cmdQ)' = Head(cmdQ) /\ Left(toMark)' = Left(toMark)
  BY DEF Ordered
<1>3. ASSUME NEW u \in Streams PROVE RestAt(u)' = RestAt(u)
  <2>1. CASE u # s
    <3>1. q'[u] = q[u]
      BY <1>0, <2>1
    <3> QED
      BY <1>1, <1>2, <3>1 DEF RestAt
  <2>2. CASE u = s
    <3>1. q'[u] = Tail(q[u]) /\ q[u] \in Seq(Message) /\ q[u] # <<>>
      BY <1>0, <2>2
    <3>2. CASE Ordered \/ u \in Left(toMark)
      BY <1>1, <1>2, <3>2 DEF RestAt
    <3>3. CASE ~Ordered /\ u \notin Left(toMark)
      <4>1. OneMark(q[u]) /\ ~NoMark(q[u])
        BY <2>2, <3>3, MarkInvIs, NotBoth DEF MarkAt
      <4>2. CASE Head(q[u]) = SeekDone
        <5>1. NoMark(q[u])' /\ After(q[u]) = q'[u]
          BY <3>1, <4>1, <4>2, TailMark, AfterTail
        <5> QED
          BY <1>1, <1>2, <3>3, <4>1, <5>1 DEF RestAt
      <4>3. CASE Head(q[u]) # SeekDone
        <5>1. OneMark(q'[u]) /\ After(q'[u]) = After(q[u])
          BY <3>1, <4>1, <4>3, TailMark, AfterTail
        <5>2. ~NoMark(q[u])' /\ After(q[u])' = After(q[u])
          BY <5>1, NotBoth
        <5> QED
          BY <1>1, <1>2, <3>3, <4>1, <5>2 DEF RestAt
      <4> QED
        BY <4>2, <4>3
    <3> QED
      BY <3>2, <3>3
  <2> QED
    BY <2>1, <2>2
<1> QED
  BY <1>3, RestKept

----------------------------------------------------------------------------
(* The steps of the demuxer as steps of PacketSource *)

Stutters == Rest' = Rest /\ Deleting' = Deleting /\ UNCHANGED <<got, overlapped, failed>>
Step == Stutters \/ (~Deleting /\ Source!Next)

LEMMA DeletingKept ==
    ASSUME ClientTyped, NEW t \in Threads, NEW w \in PcValues, Go(t, w),
           t = "main" => pc["main"] \notin DeletingPcs /\ w \notin DeletingPcs
    PROVE  Deleting' = Deleting
<1>1. pc'[t] = w /\ \A u \in Threads : u # t => pc'[u] = pc[u]
  BY GoesTo
<1>2. t # "main" => pc'["main"] = pc["main"]
  BY <1>1, StreamFacts
<1> QED
  BY <1>1, <1>2 DEF Deleting, DeletingPcs

LEMMA QuietStep ==
    ASSUME UNCHANGED <<filePos, cache, q, qEOF, cmdQ, toMark, got, overlapped, failed>>,
           Deleting' = Deleting
    PROVE  Stutters
  BY DEF Stutters, Rest, Unread, AfterMark, PacketsFrom

\* A reader gets the next packet of its stream, or, when a seek has overtaken
\* it, an old packet or the mark.
LEMMA PopRefined ==
    ASSUME WellTyped, WellTyped', ClientInv, MarkInv, ~failed, NEW s \in Streams, Pop(s)
    PROVE  ~Deleting /\ (Source!Deliver(s) \/ Source!DeliverOld(s) \/ Source!Fail(s))
<1>0. QueuesTyped /\ ClientTyped /\ s \in Threads /\ s # "main"
  BY StreamFacts DEF WellTyped
<1>1. /\ pc[s] = "pop" /\ q[s] # <<>> /\ q' = [q EXCEPT ![s] = Tail(q[s])]
      /\ UNCHANGED <<filePos, cache, qEOF, cmdQ, toMark>>
      /\ q[s] \in Seq(Message) /\ q \in [Streams -> Seq(Message)]
  BY <1>0 DEF Pop, demux, QueuesTyped
<1>2. ~Deleting
  BY <1>1 DEF ClientInv, Deleting, PastJoin, DeletingPcs
<1>3. CASE Head(q[s]) = SeekDone
  <2>1. failed' = TRUE /\ UNCHANGED <<pc, got, overlapped>>
    BY <1>3 DEF Pop
  <2>2. Deleting' = Deleting
    BY <2>1 DEF Deleting
  <2>3. ~m_bSeekDone[s]
    BY <1>1, <1>3, TailMark, MarkInvIs DEF MarkAt
  <2>4. Rest' = Rest
    BY <1>1, <2>2, <2>3, OldTaken
  <2>5. s \in overlapped
    BY <1>1, <2>3 DEF ClientInv
  <2> QED
    BY <1>2, <2>1, <2>2, <2>4, <2>5 DEF Source!Fail
<1>4. CASE Head(q[s]) # SeekDone
  <2>1. /\ got' = [got EXCEPT ![s] = Head(q[s])] /\ overlapped' = overlapped \ {s}
        /\ UNCHANGED failed /\ Go(s, "idle")
    BY <1>4 DEF Pop
  <2>2. Deleting' = Deleting
    BY <1>0, <2>1, DeletingKept DEF PcValues
  <2>3. Head(q[s]) \in 1 .. Eof
    BY <1>1, <1>4, TailMark, MessageFacts DEF Message, SeekDone
  <2>4. CASE ~m_bSeekDone[s]
    <3>1. Rest' = Rest
      BY <1>1, <2>2, <2>4, OldTaken
    <3>2. s \in overlapped
      BY <1>1, <2>4 DEF ClientInv
    <3> QED
      BY <1>2, <2>1, <2>2, <2>3, <3>1, <3>2 DEF Source!DeliverOld
  <2>5. CASE m_bSeekDone[s]
    <3>1. ~Ordered /\ s \notin Left(toMark) /\ NoMark(q[s])
      BY <2>5, MarkInvIs DEF MarkAt
    <3>2. /\ \A u \in Streams : Unread(u)' = Unread(u)
          /\ Ordered' = Ordered /\ Head(cmdQ)' = Head(cmdQ) /\ Left(toMark)' = Left(toMark)
      BY <1>1 DEF Unread, Ordered
    <3>3. RestAt(s) = q[s] \o Unread(s)
      BY <1>2, <3>1 DEF RestAt
    <3>4. NoMark(q[s])' /\ q'[s] = Tail(q[s])
      BY <1>1, <3>1, TailMark
    <3>5. RestAt(s)' = Tail(q[s]) \o Unread(s)
      BY <1>2, <2>2, <3>1, <3>2, <3>4 DEF RestAt
    <3>6. /\ RestAt(s) # <<>> /\ Head(RestAt(s)) = Head(q[s])
          /\ RestAt(s)' = Tail(RestAt(s))
      <4>1. Unread(s) \in Seq(Message)
        BY PartTypes
      <4>2. q[s] \in Seq(Message) /\ q[s] # <<>>
        BY <1>1
      <4>3. /\ q[s] \o Unread(s) # <<>> /\ Head(q[s] \o Unread(s)) = Head(q[s])
            /\ Tail(q[s] \o Unread(s)) = Tail(q[s]) \o Unread(s)
        BY <4>1, <4>2, TakeOfConcat
      <4> QED
        BY <3>3, <3>5, <4>3
    <3>7. ASSUME NEW u \in Streams, u # s PROVE RestAt(u)' = RestAt(u)
      <4>1. q'[u] = q[u]
        BY <1>1, <3>7
      <4> QED
        BY <2>2, <3>2, <4>1 DEF RestAt
    <3>8. Rest = [u \in Streams |-> RestAt(u)]
      BY RestIs
    <3>9. Rest' = [u \in Streams |-> RestAt(u)']
      BY RestIsNext
    <3>10. Rest' = [Rest EXCEPT ![s] = Tail(Rest[s])] /\ Rest[s] = RestAt(s)
      BY <3>6, <3>7, <3>8, <3>9
    <3> QED
      BY <1>2, <2>1, <2>2, <3>6, <3>10 DEF Source!Deliver
  <2> QED
    BY <2>4, <2>5
<1> QED
  BY <1>3, <1>4

LEMMA ReaderRefined ==
    ASSUME WellTyped, WellTyped', ClientInv, MarkInv, ~failed,
           \/ \E s \in Streams : BeginRead(s) \/ Pop(s)
           \/ \E t \in Threads : LockWait(t) \/ Discard(t)
    PROVE  Step
<1>0. QueuesTyped /\ ClientTyped /\ Streams \subseteq Threads /\ "main" \notin Streams
  BY StreamFacts DEF WellTyped
<1>1. ASSUME NEW s \in Streams, BeginRead(s) PROVE Step
  <2>1. Go(s, "wait") /\ UNCHANGED <<filePos, cache, q, qEOF, cmdQ, toMark, got, overlapped, failed>>
    BY <1>1 DEF BeginRead, demux
  <2>2. Deleting' = Deleting
    BY <1>0, <2>1, DeletingKept DEF PcValues
  <2> QED
    BY <2>1, <2>2, QuietStep DEF Step
<1>2. ASSUME NEW s \in Streams, Pop(s) PROVE Step
  BY <1>2, PopRefined DEF Step, Source!Next
<1>3. ASSUME NEW t \in Threads, pc[t] \in {"wait", "discard"},
             Go(t, "discard") \/ Go(t, AfterWait(t))
      PROVE  Deleting' = Deleting
  <2>1. "discard" \in PcValues /\ AfterWait(t) \in PcValues
        /\ (t = "main" => AfterWait(t) \notin DeletingPcs /\ pc["main"] \notin DeletingPcs)
        /\ "discard" \notin DeletingPcs
    BY <1>0, <1>3, WaitEnds DEF PcValues, DeletingPcs
  <2> QED
    BY <1>0, <1>3, <2>1, DeletingKept
<1>4. ASSUME NEW t \in Threads, LockWait(t) PROVE Step
  <2>1. /\ pc[t] = "wait" /\ (Go(t, "discard") \/ Go(t, AfterWait(t)))
        /\ UNCHANGED <<filePos, cache, q, qEOF, cmdQ, toMark, got, overlapped, failed>>
    BY <1>4 DEF LockWait, demux
  <2> QED
    BY <1>3, <2>1, QuietStep DEF Step
<1>5. ASSUME NEW t \in Threads, Discard(t) PROVE Step
  <2>1. pc[t] = "discard" /\ UNCHANGED <<filePos, cache, qEOF, cmdQ, toMark, got, overlapped, failed>>
    BY <1>5 DEF Discard, demux
  <2>2. CASE Unmarked = {}
    <3>1. Go(t, AfterWait(t)) /\ UNCHANGED q
      BY <1>5, <2>2 DEF Discard
    <3> QED
      BY <1>3, <2>1, <3>1, QuietStep DEF Step
  <2>3. CASE Unmarked # {}
    <3> DEFINE s == FirstUnmarked
    <3>1. s \in Streams /\ ~m_bSeekDone[s]
      BY <1>0, <2>3, FirstUnmarkedIs DEF ClientTyped
    <3>2. q[s] # <<>> /\ q' = [q EXCEPT ![s] = Tail(q[s])] /\ UNCHANGED pc
      BY <1>5, <2>3 DEF Discard
    <3>3. Deleting' = Deleting
      BY <3>2 DEF Deleting
    <3>4. Rest' = Rest
      <4> HIDE DEF s
      <4> QED
        BY <2>1, <3>1, <3>2, <3>3, OldTaken
    <3> QED
      BY <2>1, <3>3, <3>4 DEF Step, Stutters
  <2> QED
    BY <2>2, <2>3
<1> QED
  BY <1>1, <1>2, <1>4, <1>5

LEMMA SeekerRefined ==
    ASSUME WellTyped, WellTyped', ClientInv, MarkInv, ~failed,
           \/ \E d \in Positions : BeginSeek(d)
           \/ PushSeek \/ Drain \/ EndDrain \/ ResetBuffers \/ ResetFlags
    PROVE  Step
<1>0. /\ QueuesTyped /\ ClientTyped /\ Seeker \in Threads /\ Seeker # "main" /\ Seeker \in Streams
      /\ "main" \notin Streams
  BY StreamFacts DEF WellTyped
<1>1. ASSUME NEW w \in PcValues, Go(Seeker, w) PROVE Deleting' = Deleting
  BY <1>0, <1>1, DeletingKept
<1>2. CASE (\E d \in Positions : BeginSeek(d)) \/ EndDrain \/ ResetBuffers \/ ResetFlags
  <2>1. \E w \in PcValues : Go(Seeker, w)
    BY <1>2 DEF BeginSeek, EndDrain, ResetBuffers, ResetFlags, PcValues
  <2>2. UNCHANGED <<filePos, cache, q, qEOF, cmdQ, toMark, got, overlapped, failed>>
    BY <1>2 DEF BeginSeek, EndDrain, ResetBuffers, ResetFlags, demux
  <2> QED
    BY <1>1, <2>1, <2>2, QuietStep DEF Step
<1>3. CASE PushSeek
  <2>1. /\ pc[Seeker] = "push" /\ cmdQ' = Append(cmdQ, dest) /\ Go(Seeker, "drain")
        /\ overlapped' = overlapped \cup {s \in Streams : pc[s] = "pop"}
        /\ UNCHANGED <<got, failed>>
    BY <1>3 DEF PushSeek
  <2>2. Deleting' = Deleting
    BY <1>1, <2>1 DEF PcValues
  <2>3. ~Deleting /\ pc["main"] \notin DeletingPcs
    BY <1>0, <2>1 DEF ClientInv, Deleting, PastJoin, DeletingPcs
  <2>4. \A s \in Streams : m_bSeekDone[s]
    BY <2>1 DEF ClientInv
  <2>5. cmdQ = <<>>
    BY <2>3, <2>4, NothingOrdered
  <2>6. dest \in Positions /\ dest # Stop
    BY <1>0, <2>1, MessageFacts DEF ClientTyped, ReaderAt
  <2>7. cmdQ' = <<dest>>
    BY <2>1, <2>5
  <2>8. Ordered' /\ Head(cmdQ)' = dest
    BY <2>6, <2>7 DEF Ordered
  <2>9. Rest' = [s \in Streams |-> RestAt(s)']
    BY RestIsNext
  <2>10. \A s \in Streams : RestAt(s)' = PacketsFrom(s, dest)
    BY <2>2, <2>3, <2>8 DEF RestAt, PacketsFrom
  <2>11. Rest' = [s \in Streams |-> PacketsFrom(s, dest)]
    BY <2>9, <2>10
  <2> DEFINE readers == {s \in Streams : pc[s] = "pop"}
  <2>12. readers \in SUBSET Streams /\ readers # Streams
    BY <1>0, <2>1
  <2>13. Source!Seek
    BY <2>1, <2>2, <2>6, <2>11, <2>12 DEF Source!Seek
  <2> QED
    BY <2>3, <2>13 DEF Step, Source!Next
<1>4. CASE Drain
  <2>1. /\ pc[Seeker] = "drain" /\ toDrain # <<>>
        /\ UNCHANGED <<filePos, cache, qEOF, cmdQ, toMark, pc, got, overlapped, failed>>
    BY <1>4 DEF Drain, demux
  <2>2. Deleting' = Deleting
    BY <2>1 DEF Deleting
  <2> DEFINE s == Head(toDrain)
  <2>3. s \in Streams /\ ~m_bSeekDone[s]
    BY <1>0, <2>1, SuffixFacts DEF ClientTyped, ClientInv
  <2>4. CASE q[s] = <<>>
    <3>1. UNCHANGED q
      BY <1>4, <2>4 DEF Drain
    <3> QED
      BY <2>1, <2>2, <3>1, QuietStep DEF Step
  <2>5. CASE q[s] # <<>>
    <3>1. q' = [q EXCEPT ![s] = Tail(q[s])]
      BY <1>4, <2>5 DEF Drain
    <3>2. Rest' = Rest
      <4> HIDE DEF s
      <4> QED
        BY <2>1, <2>2, <2>3, <2>5, <3>1, OldTaken
    <3> QED
      BY <2>1, <2>2, <3>2 DEF Step, Stutters
  <2> QED
    BY <2>4, <2>5
<1> QED
  BY <1>2, <1>3, <1>4

LEMMA MainRefined ==
    ASSUME WellTyped, WellTyped', ClientInv, MarkInv, ~failed,
           BeginClose \/ JoinDecoders \/ PushStop \/ Unblock \/ JoinDemux
    PROVE  Step
<1>0. ClientTyped /\ "main" \in Threads
  BY StreamFacts DEF WellTyped
<1>2. Rest = [s \in Streams |-> RestAt(s)] /\ Rest' = [s \in Streams |-> RestAt(s)']
  BY RestIs, RestIsNext
<1>3. CASE BeginClose \/ JoinDecoders
  <2>1. UNCHANGED <<filePos, cache, q, qEOF, cmdQ, toMark, got, overlapped, failed>>
    BY <1>3 DEF BeginClose, JoinDecoders, MainOnly, demux
  <2>2. (Go("main", "join") \/ Go("main", "wait")) /\ pc["main"] \in {"idle", "join"}
    BY <1>0, <1>3 DEF BeginClose, JoinDecoders, Closing, ClientTyped, MainAt
  <2>3. Deleting' = Deleting
    BY <1>0, <2>2, DeletingKept DEF PcValues, DeletingPcs
  <2> QED
    BY <2>1, <2>3, QuietStep DEF Step
<1>4. CASE PushStop
  <2>1. /\ pc["main"] = "stop" /\ Go("main", "unblock") /\ UNCHANGED <<got, overlapped, failed>>
    BY <1>4 DEF PushStop, MainOnly
  <2>2. ~Deleting /\ Deleting'
    BY <1>0, <2>1, GoesTo DEF Deleting, PcValues
  <2>3. Rest' = [s \in Streams |-> <<>>]
    BY <1>2, <2>2 DEF RestAt
  <2>4. Source!Close
    BY <2>1, <2>2, <2>3 DEF Source!Close
  <2> QED
    BY <2>2, <2>4 DEF Step, Source!Next
<1>5. CASE Unblock \/ JoinDemux
  <2>1. /\ pc["main"] \in {"unblock", "joinDemux"} /\ UNCHANGED <<got, overlapped, failed>>
        /\ Go("main", "joinDemux") \/ Go("main", "unblock") \/ Go("main", "closed")
    BY <1>5 DEF Unblock, JoinDemux, MainOnly
  <2>2. Deleting /\ Deleting'
    BY <1>0, <2>1, GoesTo DEF Deleting, PcValues
  <2>3. Rest' = Rest
    BY <1>2, <2>2 DEF RestAt
  <2> QED
    BY <2>1, <2>2, <2>3 DEF Step, Stutters
<1> QED
  BY <1>3, <1>4, <1>5

LEMMA StepRefined ==
    ASSUME DemuxerInv, DemuxerInv', [Next]_vars
    PROVE  [~failed /\ ~Deleting /\ Source!Next]_(Source!vars)
<1>0. WellTyped /\ WellTyped' /\ (~failed => ClientInv /\ MarkInv)
  BY DEF DemuxerInv
<1>1. CASE UNCHANGED vars
  <2>1. UNCHANGED <<filePos, cache, q, qEOF, cmdQ, toMark, got, overlapped, failed>>
    BY <1>1 DEF vars, demux, client
  <2>2. Deleting' = Deleting
    BY <1>1 DEF vars, client, Deleting
  <2> QED
    BY <2>1, <2>2, QuietStep DEF Stutters, Source!vars
<1>2. CASE Next
  <2>1. ~failed
    BY <1>2 DEF Next
  <2>2. CASE DemuxThread
    <3>1. Rest' = Rest
      BY <1>0, <2>1, <2>2, DemuxRestStep
    <3>2. UNCHANGED client
      BY <2>2 DEF DemuxThread, Work, CachedPacket, ReadFrame, WaitForCommand, ProcessCommand, Execute,
                  NoMoreCommands, Mark
    <3>3. Deleting' = Deleting /\ UNCHANGED <<got, overlapped, failed>>
      BY <3>2 DEF client, Deleting
    <3> QED
      BY <3>1, <3>3 DEF Source!vars
  <2>3. CASE Step
    BY <2>1, <2>3 DEF Step, Stutters, Source!vars
  <2>4. CASE \/ \E s \in Streams : BeginRead(s) \/ Pop(s)
             \/ \E t \in Threads : LockWait(t) \/ Discard(t)
    BY <1>0, <2>1, <2>3, <2>4, ReaderRefined
  <2>5. CASE \/ \E d \in Positions : BeginSeek(d)
             \/ PushSeek \/ Drain \/ EndDrain \/ ResetBuffers \/ ResetFlags
    BY <1>0, <2>1, <2>3, <2>5, SeekerRefined
  <2>6. CASE BeginClose \/ JoinDecoders \/ PushStop \/ Unblock \/ JoinDemux
    BY <1>0, <2>1, <2>3, <2>6, MainRefined
  <2> QED
    BY <1>2, <2>2, <2>4, <2>5, <2>6, StreamFacts DEF Next, Continue, Close
<1> QED
  BY <1>1, <1>2

LEMMA InitRefined == Init => Source!Init
<1> SUFFICES ASSUME Init PROVE Source!Init
  OBVIOUS
<1>1. WellTyped
  BY InitDemuxer DEF DemuxerInv
<1>2. Rest = [s \in Streams |-> RestAt(s)]
  BY <1>1, RestIs
<1>3. ~Deleting /\ ~Ordered /\ Left(toMark) = {}
  <2>1. pc["main"] = "idle"
    BY StreamFacts DEF Init
  <2> QED
    BY <2>1, SuffixFacts DEF Init, Deleting, Ordered, Suffixes
<1>4. ASSUME NEW s \in Streams PROVE RestAt(s) = PacketsFrom(s, 1)
  <2>1. q[s] = <<>> /\ cache[s] = <<>> /\ filePos = 1 /\ ~qEOF[s]
    BY DEF Init
  <2>2. NoMark(q[s])
    BY <2>1 DEF NoMark
  <2>3. FileFrom[1][s] \in Seq(Message)
    BY <1>1, <2>1, PartTypes
  <2>4. Unread(s) = FileFrom[1][s]
    BY <2>1, <2>3, ConcatEmptySeq DEF Unread
  <2>5. RestAt(s) = FileFrom[1][s]
    BY <1>3, <2>1, <2>2, <2>3, <2>4, ConcatEmptySeq DEF RestAt
  <2> QED
    BY <2>5 DEF PacketsFrom
<1>5. got \in [Streams -> {0}] /\ overlapped = {} /\ failed = FALSE
  BY DEF Init
<1>6. Deleting = FALSE
  BY <1>3 DEF Deleting
<1> QED
  BY <1>2, <1>4, <1>5, <1>6 DEF Source!Init

\* The threaded demuxer implements PacketSource: through queues, cache, marks and
\* seeks each stream is handed out packet by packet without gap or repetition, and
\* only a read that a seek overtook may be served from the old position or fail.
THEOREM ImplementsPacketSource == Spec => PacketSpec
<1>1. Spec => []DemuxerInv
  BY InitDemuxer, DemuxerStep, PTL DEF Spec
<1>2. DemuxerInv /\ DemuxerInv' /\ [Next]_vars
          => [~failed /\ ~Deleting /\ Source!Next]_(Source!vars)
  BY StepRefined
<1> QED
  BY <1>1, <1>2, InitRefined, PTL DEF Spec, PacketSpec, Source!Spec
=============================================================================

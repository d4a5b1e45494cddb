---------------------------- MODULE Handover_proofs ----------------------------
(***************************************************************************)
(* Theorems about the three places where threads hand something on.  The   *)
(* queue of the player's commands (PlayerQueue), for any threads, any      *)
(* number of commands and any commands that fail: while no frame's backlog *)
(* fills Python's stack, mutual exclusion and that no command is left      *)
(* behind without a frame handler; and, whatever fills up, that commands   *)
(* run in the order they were sent, each once.  avg::Queue (Queue), for    *)
(* any number of readers, any capacity that is not smaller than that       *)
(* number, and any elements: no wake-up is lost, and it is like a queue    *)
(* whose calls are atomic.  Touches (TouchInput), for any fingers, nodes   *)
(* and listeners, whatever packets come and whatever handlers do: a cursor *)
(* is put down first and lifted last, nodes are told out as often as over, *)
(* and just the listeners that are connected are called.                   *)
(***************************************************************************)
EXTENDS PlayerQueue, Queue, TouchInput,
        FiniteSetTheorems, SequenceTheorems, WellFoundedInduction, TLAPS

-----------------------------------------------------------------------------
(* The queue of the player's commands.                                     *)

HandlerType == currentFH \in BOOLEAN /\ installed \in BOOLEAN

RestType ==
    /\ q \in Seq(Command)
    /\ lock \in Nat
    /\ pc \in [Thread -> {"idle", "put", "handler", "release"}]
    /\ sent \in [Thread -> 0 .. Count]
    /\ fh \in {"loading", "idle", "acquire", "get", "ran", "giveUp", "clear",
               "cleared"}
    /\ depth \in 0 .. MaxDepth
    /\ ran \in Seq(Command)
    /\ \A t \in Thread : pc[t] = "put" => sent[t] < Count

LEMMA HandlerTypeStep == HandlerType /\ [Next]_vars => HandlerType'
  BY DEF HandlerType, Next, FrameStep, EnqueueStep, vars, Play, Acquire, Put,
         Handler, EnsureHandler, Release, Frame, FrameAcquire, FrameRun,
         FrameAgain, FrameFails, FrameEmpty, FrameClear, FrameRelease

LEMMA RestTypeStep == RestType /\ [Next]_vars => RestType'
  <1> USE QueueAssumption
  <1> SUFFICES ASSUME RestType, [Next]_vars PROVE RestType'
    OBVIOUS
  <1> USE DEF RestType
  <1>1. ASSUME NEW t \in Thread, Acquire(t) PROVE RestType'
    BY <1>1 DEF Acquire, CanAcquire
  <1>2. ASSUME NEW t \in Thread, Put(t) PROVE RestType'
    <2>1. sent[t] \in Nat /\ sent[t] + 1 \in 1 .. Count + 1
      OBVIOUS
    <2>2. sent[t] < Count
      BY <1>2 DEF Put
    <2>3. <<t, sent[t] + 1>> \in Command
      BY <2>1, <2>2 DEF Command
    <2> QED
      BY <1>2, <2>1, <2>2, <2>3 DEF Put
  <1>3. ASSUME NEW t \in Thread, Handler(t) PROVE RestType'
    BY <1>3 DEF Handler
  <1>4. ASSUME NEW t \in Thread, Release(t) PROVE RestType'
    BY <1>4 DEF Release
  <1>5. CASE FrameRun
    <2>1. Head(q) \in Command /\ Tail(q) \in Seq(Command)
      BY <1>5, HeadTailProperties DEF FrameRun
    <2>2. q' \in Seq(Command) /\ fh' \in {"giveUp", "ran"}
      BY <1>5, <2>1 DEF FrameRun, AfterFailure
    <2>3. ran' \in Seq(Command)
      BY <1>5, <2>1, AppendProperties DEF FrameRun
    <2>4. UNCHANGED <<lock, pc, sent, depth>>
      BY <1>5 DEF FrameRun
    <2> QED
      BY <2>2, <2>3, <2>4
  <1>6. CASE Play \/ Frame \/ FrameAcquire
    BY <1>6 DEF Play, Frame, FrameAcquire, CanAcquire
  <1>7. CASE FrameAgain \/ FrameFails
    BY <1>7 DEF FrameAgain, FrameFails
  <1>8. CASE FrameEmpty \/ FrameClear \/ FrameRelease
    BY <1>8 DEF FrameEmpty, FrameClear, FrameRelease
  <1>9. CASE UNCHANGED vars
    BY <1>9 DEF vars
  <1> QED
    BY <1>1, <1>2, <1>3, <1>4, <1>5, <1>6, <1>7, <1>8, <1>9
       DEF Next, FrameStep, EnqueueStep

(* The queue and the log hold commands, the lock never goes below zero and *)
(* frameHandle never recurses deeper than Python lets it: Acquire and      *)
(* FrameAcquire wait, FrameAgain tests the stack.                          *)
THEOREM TypeCorrect == Spec => []TypeOK
  <1>1. Init => HandlerType
    BY DEF Init, HandlerType
  <1>2. Init => RestType
    BY QueueAssumption DEF Init, RestType
  <1>3. HandlerType /\ RestType => TypeOK
    BY DEF HandlerType, RestType, TypeOK
  <1> QED
    BY <1>1, <1>2, <1>3, HandlerTypeStep, RestTypeStep, PTL DEF Spec

-----------------------------------------------------------------------------
(* The lock is a lock: while it is free nobody is between acquire() and    *)
(* release().  The release in "giveUp" after a full stack would break it.  *)

Quiet == \A t \in Thread : pc[t] = "idle"

LockInv ==
    /\ RestType
    /\ Exclusive
    /\ lock \in {0, 1}
    /\ lock = 1 => ~FrameInside /\ Quiet

LEMMA LockInvInit == Init => LockInv
  <1> SUFFICES ASSUME Init PROVE LockInv
    OBVIOUS
  <1>1. RestType
    BY QueueAssumption DEF Init, RestType
  <1> QED
    BY <1>1 DEF Init, LockInv, Exclusive, FrameInside

(* Whoever takes the lock finds it free; whoever releases it held it. *)
LEMMA LockInvStep == LockInv /\ Shallow /\ [Next]_vars => LockInv'
  <1> SUFFICES ASSUME LockInv, Shallow, [Next]_vars PROVE LockInv'
    OBVIOUS
  <1>0. RestType /\ RestType'
    BY RestTypeStep DEF LockInv
  <1> DEFINE Locking == /\ Exclusive
                        /\ lock \in {0, 1}
                        /\ lock = 1 => ~FrameInside /\ Quiet
  <1>1. Locking
    BY DEF LockInv
  <1> SUFFICES Locking'
    BY <1>0 DEF LockInv
  <1> USE <1>0, <1>1 DEF RestType, Exclusive, FrameInside, Quiet
  <1>2. ASSUME NEW t \in Thread, Acquire(t) PROVE Locking'
    BY <1>2 DEF Acquire, CanAcquire
  <1>3. ASSUME NEW t \in Thread, Put(t) \/ Handler(t) PROVE Locking'
    BY <1>3 DEF Put, Handler
  <1>4. ASSUME NEW t \in Thread, Release(t) PROVE Locking'
    BY <1>4 DEF Release
  <1>5. CASE FrameRun
    BY <1>5 DEF FrameRun
  <1>6. CASE Play \/ Frame \/ FrameAcquire
    BY <1>6 DEF Play, Frame, FrameAcquire, CanAcquire
  <1>7. CASE FrameAgain
    <2>1. depth \in Nat /\ depth # MaxDepth
      BY QueueAssumption DEF Shallow
    <2> QED
      BY <1>7, <2>1 DEF FrameAgain
  <1>8. CASE FrameFails
    BY <1>8 DEF FrameFails
  <1>9. CASE FrameEmpty \/ FrameClear \/ FrameRelease
    BY <1>9 DEF FrameEmpty, FrameClear, FrameRelease
  <1>10. CASE UNCHANGED vars
    BY <1>10 DEF vars
  <1> HIDE DEF RestType, Exclusive, FrameInside, Quiet, Locking
  <1> QED
    BY <1>2, <1>3, <1>4, <1>5, <1>6, <1>7, <1>8, <1>9, <1>10
       DEF Next, FrameStep, EnqueueStep

(* enqueue and frameHandle exclude each other, whatever fails and however  *)
(* the threads interleave, as long as no frame's backlog of commands fills *)
(* Python's stack.                                                         *)
THEOREM ExclusiveHolds == Spec /\ []Shallow => []Exclusive
  <1>1. LockInv => Exclusive
    BY DEF LockInv
  <1> QED
    BY <1>1, LockInvInit, LockInvStep, PTL DEF Spec

-----------------------------------------------------------------------------
(* A queue that is not empty has a handler, or a thread that is about to   *)
(* see to one; the object and libavg agree on whether there is one.        *)

ServedInv ==
    /\ LockInv
    /\ HandlerType
    /\ currentFH = installed
    /\ fh \in {"clear", "cleared"} => q = <<>>
    /\ q # <<>> => installed \/ \E t \in Thread : pc[t] = "handler"

LEMMA ServedInvStep == ServedInv /\ Shallow /\ [Next]_vars => ServedInv'
  <1> SUFFICES ASSUME ServedInv, Shallow, [Next]_vars PROVE ServedInv'
    OBVIOUS
  <1>0. LockInv /\ LockInv' /\ HandlerType /\ HandlerType'
    BY LockInvStep, HandlerTypeStep DEF ServedInv
  <1> DEFINE Agree == currentFH = installed
             Cleared == fh \in {"clear", "cleared"} => q = <<>>
             Served == q # <<>> => installed \/ \E t \in Thread : pc[t] = "handler"
  <1>1. Agree /\ Cleared /\ Served
    BY DEF ServedInv
  <1>2. Agree'
    <2>1. CASE UNCHANGED <<currentFH, installed>>
      BY <1>1, <2>1
    <2>2. CASE Play
      BY <2>2 DEF Play
    <2>3. CASE FrameClear
      BY <2>3 DEF FrameClear
    <2>4. ASSUME NEW t \in Thread, Handler(t) PROVE Agree'
      BY <1>1, <2>4 DEF Handler, EnsureHandler
    <2>5. CASE UNCHANGED vars
      BY <1>1, <2>5 DEF vars
    <2> QED
      BY <2>1, <2>2, <2>3, <2>4, <2>5
         DEF Next, FrameStep, EnqueueStep, Acquire, Put, Release, Frame,
             FrameAcquire, FrameRun, FrameAgain, FrameFails, FrameEmpty,
             FrameRelease
  <1> SUFFICES Cleared' /\ Served'
    BY <1>0, <1>2 DEF ServedInv
  <1>3. pc \in [Thread -> {"idle", "put", "handler", "release"}]
        /\ q \in Seq(Command)
    BY <1>0 DEF LockInv, RestType
  <1>4. FrameInside => Quiet
    BY <1>0 DEF LockInv, Exclusive, Quiet
  <1>5. \A t1, t2 \in Thread : pc[t1] # "idle" /\ pc[t2] # "idle" => t1 = t2
    BY <1>0 DEF LockInv, Exclusive
  <1>6. ASSUME NEW t \in Thread, Acquire(t) PROVE Cleared' /\ Served'
    BY <1>1, <1>3, <1>6 DEF Acquire
  <1>7. ASSUME NEW t \in Thread, Put(t) PROVE Cleared' /\ Served'
    BY <1>1, <1>3, <1>4, <1>7 DEF Put, FrameInside, Quiet
  <1>8. ASSUME NEW t \in Thread, Handler(t) PROVE Cleared' /\ Served'
    <2>1. installed'
      BY <1>0, <1>1, <1>8 DEF Handler, EnsureHandler, HandlerType
    <2> QED
      BY <1>1, <1>8, <2>1 DEF Handler
  <1>9. ASSUME NEW t \in Thread, Release(t) PROVE Cleared' /\ Served'
    <2>1. ASSUME NEW u \in Thread, pc[u] = "handler" PROVE FALSE
      BY <1>5, <1>9, <2>1 DEF Release
    <2> QED
      BY <1>1, <1>9, <2>1 DEF Release
  <1>10. CASE FrameRun
    <2>1. /\ installed \/ \E t \in Thread : pc[t] = "handler"
          /\ UNCHANGED <<installed, pc>>
          /\ fh' \notin {"clear", "cleared"}
      BY <1>1, <1>10 DEF FrameRun
    <2> QED
      BY <2>1
  <1>11. CASE Play
    BY <1>1, <1>11 DEF Play
  <1>12. CASE Frame \/ FrameAcquire \/ FrameAgain \/ FrameFails
    <2>1. UNCHANGED <<q, installed, pc>> /\ fh' \notin {"clear", "cleared"}
      BY <1>12 DEF Frame, FrameAcquire, FrameAgain, FrameFails
    <2> QED
      BY <1>1, <2>1
  <1>13. CASE FrameEmpty \/ FrameClear \/ FrameRelease
    <2>1. q = <<>> /\ q' = q
      BY <1>1, <1>13 DEF FrameEmpty, FrameClear, FrameRelease
    <2> QED
      BY <2>1
  <1>14. CASE UNCHANGED vars
    BY <1>1, <1>14 DEF vars
  <1> HIDE DEF Cleared, Served, Agree
  <1> QED
    BY <1>6, <1>7, <1>8, <1>9, <1>10, <1>11, <1>12, <1>13,
     <1>14
     DEF Next, FrameStep, EnqueueStep

(* No command is left in the queue without a frame handler that will come  *)
(* for it: frameHandle tests the queue and removes the handler under the   *)
(* lock that enqueue takes, as long as that lock excludes.                 *)
THEOREM NoneStrandedHolds == Spec /\ []Shallow => []NoneStranded
  <1>1. Init => ServedInv
    BY LockInvInit DEF Init, ServedInv, HandlerType
  <1>2. ServedInv => NoneStranded
    BY DEF ServedInv, NoneStranded
  <1> QED
    BY <1>1, <1>2, ServedInvStep, PTL DEF Spec

-----------------------------------------------------------------------------
(* Commands leave the queue for the log in the order they entered it: of   *)
(* the two together only Put changes anything, at the end.                 *)

\* Running the command at the head of the queue moves it, and nothing else.
LEMMA RunMoves ==
  ASSUME NEW S, NEW r \in Seq(S), NEW w \in Seq(S), w # <<>>
  PROVE  Append(r, Head(w)) \o Tail(w) = r \o w
  <1>1. /\ Head(w) \in S /\ Head(w) = w[1]
        /\ Tail(w) \in Seq(S) /\ Len(Tail(w)) = Len(w) - 1 /\ Len(w) \in Nat \ {0}
        /\ \A i \in 1 .. Len(Tail(w)) : Tail(w)[i] = w[i + 1]
    BY HeadTailProperties, EmptySeq
  <1>2. /\ Append(r, Head(w)) \in Seq(S)
        /\ Len(r) \in Nat /\ Len(Append(r, Head(w))) = Len(r) + 1
        /\ \A i \in 1 .. Len(r) : Append(r, Head(w))[i] = r[i]
        /\ Append(r, Head(w))[Len(r) + 1] = Head(w)
    BY <1>1, AppendProperties
  <1> DEFINE a == Append(r, Head(w))
             b == Tail(w)
  <1>3. /\ a \o b \in Seq(S) /\ Len(a \o b) = Len(a) + Len(b)
        /\ \A i \in 1 .. Len(a) + Len(b) :
               (a \o b)[i] = IF i <= Len(a) THEN a[i] ELSE b[i - Len(a)]
    BY <1>1, <1>2, ConcatProperties
  <1>4. /\ r \o w \in Seq(S) /\ Len(r \o w) = Len(r) + Len(w)
        /\ \A i \in 1 .. Len(r) + Len(w) :
               (r \o w)[i] = IF i <= Len(r) THEN r[i] ELSE w[i - Len(r)]
    BY ConcatProperties
  <1> HIDE DEF a, b
  <1>5. /\ Len(a) = Len(r) + 1 /\ Len(b) = Len(w) - 1
        /\ \A i \in 1 .. Len(r) : a[i] = r[i]
        /\ a[Len(r) + 1] = w[1]
        /\ \A i \in 1 .. Len(b) : b[i] = w[i + 1]
    BY <1>1, <1>2 DEF a, b
  <1>6. ASSUME NEW i \in 1 .. Len(r) + Len(w) PROVE (a \o b)[i] = (r \o w)[i]
    <2>0. i \in 1 .. Len(a) + Len(b)
      BY <1>1, <1>2, <1>5
    <2>1. CASE i <= Len(r)
      BY <1>2, <1>3, <1>4, <1>5, <2>0, <2>1
    <2>2. CASE i = Len(r) + 1
      <3>1. i - Len(r) = 1 /\ i <= Len(a) /\ ~(i <= Len(r))
        BY <1>2, <1>5, <2>2
      <3>2. (a \o b)[i] = a[i] /\ (r \o w)[i] = w[1]
        BY <1>3, <1>4, <2>0, <3>1
      <3> QED BY <1>5, <2>2, <3>2
    <2>3. CASE i > Len(r) + 1
      <3>1. i - Len(a) \in 1 .. Len(b) /\ (i - Len(a)) + 1 = i - Len(r) /\ ~(i <= Len(a))
        BY <1>1, <1>2, <1>5, <2>3
      <3>2. (a \o b)[i] = b[i - Len(a)] /\ (r \o w)[i] = w[i - Len(r)]
        BY <1>2, <1>3, <1>4, <2>0, <2>3, <3>1
      <3> QED BY <1>5, <3>1, <3>2
    <2>4. i \in Nat /\ Len(r) \in Nat
      BY <1>1, <1>2
    <2>5. i <= Len(r) \/ i = Len(r) + 1 \/ i > Len(r) + 1
      BY <2>4
    <2> QED BY <2>1, <2>2, <2>3, <2>5
  <1>7. Len(a \o b) = Len(r \o w)
    BY <1>1, <1>2, <1>3, <1>4, <1>5
  <1>8. a \o b = r \o w
    BY <1>3, <1>4, <1>6, <1>7, SeqEqual
  <1> QED BY <1>8 DEF a, b

LEMMA KnownType == RestType => Known \in Seq(Command)
  BY ConcatProperties DEF RestType, Known

\* Everything but Put leaves the commands known and the counts as they are.
LEMMA KnownKept ==
  ASSUME RestType, [Next]_vars, \A t \in Thread : ~Put(t)
  PROVE  Known' = Known /\ sent' = sent
  <1>1. CASE FrameRun
    <2>1. ran' = Append(ran, Head(q)) /\ q' = Tail(q) /\ q # <<>> /\ sent' = sent
      BY <1>1 DEF FrameRun, AfterFailure
    <2>2. ran \in Seq(Command) /\ q \in Seq(Command)
      BY DEF RestType
    <2> QED BY <2>1, <2>2, RunMoves DEF Known
  <1>2. CASE UNCHANGED <<q, ran, sent>>
    BY <1>2 DEF Known
  <1>3. FrameRun \/ UNCHANGED <<q, ran, sent>>
    BY DEF Next, FrameStep, EnqueueStep, vars, Play, Acquire, Handler, Release,
           Frame, FrameAcquire, FrameAgain, FrameFails, FrameEmpty, FrameClear,
           FrameRelease
  <1> QED BY <1>1, <1>2, <1>3

LEMMA PutKnown ==
  ASSUME RestType, NEW t \in Thread, Put(t)
  PROVE  /\ sent[t] + 1 \in 1 .. Count
         /\ sent' = [sent EXCEPT ![t] = @ + 1]
         /\ Len(Known) \in Nat /\ Len(Known') = Len(Known) + 1
         /\ \A i \in 1 .. Len(Known) : Known'[i] = Known[i]
         /\ Known'[Len(Known) + 1] = <<t, sent[t] + 1>>
  <1> DEFINE c == <<t, sent[t] + 1>>
  <1>1. sent[t] \in 0 .. Count /\ sent[t] < Count /\ Count \in Nat
    BY QueueAssumption DEF RestType, Put
  <1>2. sent[t] + 1 \in 1 .. Count
    BY <1>1
  <1>3. c \in Command
    BY <1>2 DEF Command
  <1>4. q' = Append(q, c) /\ ran' = ran /\ sent' = [sent EXCEPT ![t] = @ + 1]
    BY DEF Put
  <1>5. q \in Seq(Command) /\ ran \in Seq(Command) /\ Known \in Seq(Command)
    BY KnownType DEF RestType
  <1> HIDE DEF c
  <1>6. /\ Append(q, c) = q \o <<c>> /\ Append(Known, c) = Known \o <<c>>
        /\ <<c>> \in Seq(Command)
    BY <1>3, <1>5, AppendIsConcat
  <1>7. ran \o (q \o <<c>>) = (ran \o q) \o <<c>>
    BY <1>5, <1>6, ConcatAssociative
  <1>8. Known' = Append(Known, c)
    BY <1>4, <1>6, <1>7 DEF Known
  <1>9. /\ Len(Known) \in Nat /\ Len(Append(Known, c)) = Len(Known) + 1
        /\ \A i \in 1 .. Len(Known) : Append(Known, c)[i] = Known[i]
        /\ Append(Known, c)[Len(Known) + 1] = c
    BY <1>3, <1>5, AppendProperties
  <1> QED BY <1>2, <1>4, <1>8, <1>9 DEF c

LEMMA InOrderStep == RestType /\ InOrder /\ [Next]_vars => InOrder'
  <1> SUFFICES ASSUME RestType, InOrder, [Next]_vars PROVE InOrder'
    OBVIOUS
  <1>1. CASE \A t \in Thread : ~Put(t)
    BY <1>1, KnownKept DEF InOrder
  <1>2. ASSUME NEW t \in Thread, Put(t) PROVE InOrder'
    <2> DEFINE K == Known
               L == Known'
               last == Len(K) + 1
    <2>1. /\ sent[t] + 1 \in 1 .. Count
          /\ sent' = [sent EXCEPT ![t] = @ + 1]
          /\ Len(K) \in Nat /\ Len(L) = last
          /\ \A i \in 1 .. Len(K) : L[i] = K[i]
          /\ L[last] = <<t, sent[t] + 1>>
      BY <1>2, PutKnown
    <2>2. /\ \A i \in 1 .. Len(K) : K[i] \in Thread \X (1 .. Count)
          /\ sent \in [Thread -> 0 .. Count]
      BY KnownType, ElementOfSeq DEF RestType, Command
    <2>3. \A u \in Thread : sent'[u] = IF u = t THEN sent[t] + 1 ELSE sent[u]
      BY <2>1, <2>2
    <2>4. \A i \in 1 .. last : i # last => i \in 1 .. Len(K)
      BY <2>1
    <2>5. /\ \A i \in 1 .. Len(K) : K[i][2] <= sent[K[i][1]]
          /\ \A i, j \in 1 .. Len(K) :
                 i < j /\ K[i][1] = K[j][1] => K[i][2] < K[j][2]
          /\ \A u \in Thread : \A n \in 1 .. sent[u] :
                 \E i \in 1 .. Len(K) : K[i] = <<u, n>>
      BY DEF InOrder
    <2>6. sent[t] \in Nat
      BY <2>2, QueueAssumption
    <2> HIDE DEF K, L
    <2>7. ASSUME NEW i \in 1 .. last PROVE L[i][2] <= sent'[L[i][1]]
      <3>1. CASE i = last
        BY <2>1, <2>3, <2>6, <3>1
      <3>2. CASE i # last
        <4>1. i \in 1 .. Len(K) /\ L[i] = K[i]
          BY <2>1, <2>4, <3>2
        <4>2. K[i][1] \in Thread /\ K[i][2] \in 1 .. Count /\ K[i][2] <= sent[K[i][1]]
          BY <2>2, <2>5, <4>1
        <4>3. sent[K[i][1]] \in 0 .. Count
          BY <2>2, <4>2
        <4> QED BY <2>3, <2>6, <4>1, <4>2, <4>3, QueueAssumption
      <3> QED BY <3>1, <3>2
    <2>8. ASSUME NEW i \in 1 .. last, NEW j \in 1 .. last, i < j, L[i][1] = L[j][1]
          PROVE  L[i][2] < L[j][2]
      <3>1. i \in 1 .. Len(K) /\ L[i] = K[i]
        BY <2>1, <2>8
      <3>2. CASE j = last
        <4>1. K[i][1] = t /\ L[j][2] = sent[t] + 1
          BY <2>1, <2>8, <3>1, <3>2
        <4>2. K[i][2] \in 1 .. Count /\ K[i][2] <= sent[t]
          BY <2>2, <2>5, <3>1, <4>1
        <4> QED BY <2>6, <3>1, <4>1, <4>2, QueueAssumption
      <3>3. CASE j # last
        <4>1. j \in 1 .. Len(K) /\ L[j] = K[j]
          BY <2>1, <2>4, <3>3
        <4> QED BY <2>5, <2>8, <3>1, <4>1
      <3> QED BY <3>2, <3>3
    <2>9. ASSUME NEW u \in Thread, NEW n \in 1 .. sent'[u]
          PROVE  \E i \in 1 .. last : L[i] = <<u, n>>
      <3>1. CASE u = t /\ n = sent[t] + 1
        <4>1. last \in 1 .. last /\ L[last] = <<u, n>>
          BY <2>1, <3>1
        <4> QED BY <4>1
      <3>2. CASE ~(u = t /\ n = sent[t] + 1)
        <4>1. n \in 1 .. sent[u]
          <5>1. CASE u = t
            <6>1. n \in 1 .. sent[t] + 1 /\ n # sent[t] + 1
              BY <2>3, <2>9, <3>2, <5>1
            <6> QED BY <2>6, <5>1, <6>1
          <5>2. CASE u # t
            BY <2>3, <2>9, <5>2
          <5> QED BY <5>1, <5>2
        <4>2. PICK i \in 1 .. Len(K) : K[i] = <<u, n>>
          BY <2>5, <4>1
        <4>3. i \in 1 .. last /\ L[i] = <<u, n>>
          BY <2>1, <4>2
        <4> QED BY <4>3
      <3> QED BY <3>1, <3>2
    <2>10. Len(Known') = last
      BY <2>1 DEF L
    <2> QED BY <2>7, <2>8, <2>9, <2>10 DEF InOrder, L
  <1> QED BY <1>1, <1>2

(* Nothing is lost, repeated or overtaken, whatever the player can run,    *)
(* however the threads interleave and whether or not Python's stack fills  *)
(* up: commands only enter the queue at the end and leave it, for the log, *)
(* at the head, and a thread numbers them as it sends them.                *)
THEOREM InOrderAlways == Spec => []InOrder
  <1>1. Init => RestType
    BY QueueAssumption DEF Init, RestType
  <1>2. ASSUME Init PROVE InOrder
    <2>1. Known = <<>> /\ Len(Known) = 0 /\ \A t \in Thread : sent[t] = 0
      BY <1>2 DEF Init, Known
    <2> QED BY <2>1 DEF InOrder
  <1> QED BY <1>1, <1>2, RestTypeStep, InOrderStep, PTL DEF Spec

-----------------------------------------------------------------------------
(* avg::Queue.                                                             *)

USE CapacityAssumption DEF Threads, Reads

\* A call of the mutex's holder keeps the deque, the calls and the condition
\* well-formed.
LEMMA TypeStep == QueueTypeOK /\ [QueueNext]_queueVars => QueueTypeOK'
<1> SUFFICES ASSUME QueueTypeOK, [QueueNext]_queueVars PROVE QueueTypeOK'
  OBVIOUS
<1> USE DEF QueueTypeOK
<1>1. CASE UNCHANGED queueVars
  BY <1>1 DEF queueVars
<1>2. ASSUME NEW t \in Threads, NEW op, Call(t, op) PROVE QueueTypeOK'
  BY <1>2 DEF Call
<1>3. CASE Push
  <2>1. m_pElements' \in Seq(Elems) /\ Len(m_pElements') <= MaxSize
    BY <1>3 DEF Push
  <2>2. call' \in [Threads -> Reads \cup {"none", "push"}] /\ \A c \in Consumers : call'[c] # "push"
    BY <1>3 DEF Push, Return
  <2>3. call'[Writer] = "none"
    BY <1>3 DEF Push, Return
  <2>4. waiting' \subseteq waiting /\ Writer \notin waiting'
    BY <1>3 DEF Push, NotifyOne, Ready
  <2>5. \A t \in waiting' : call'[t] = call[t]
    BY <1>3, <2>4 DEF Push, Return
  <2> QED
    BY <2>1, <2>2, <2>3, <2>4, <2>5
<1>4. CASE WaitNotFull
  BY <1>4 DEF WaitNotFull, Wait, Ready
<1>5. ASSUME NEW c \in Consumers, Pop(c) PROVE QueueTypeOK'
  <2>1. m_pElements' \in Seq(Elems) /\ Len(m_pElements') <= MaxSize
    BY <1>5 DEF Pop
  <2>2. call' \in [Threads -> Reads \cup {"none", "push"}] /\ \A d \in Consumers : call'[d] # "push"
    BY <1>5 DEF Pop, Return
  <2>3. call'[Writer] \in {"none", "push"}
    BY <1>5 DEF Pop, Return
  <2>4. waiting' \subseteq waiting /\ c \notin waiting'
    BY <1>5 DEF Pop, NotifyOne, Ready
  <2>5. \A t \in waiting' : call'[t] = call[t]
    BY <1>5, <2>4 DEF Pop, Return
  <2> QED
    BY <2>1, <2>2, <2>3, <2>4, <2>5
<1>6. ASSUME NEW c \in Consumers, PopNothing(c) PROVE QueueTypeOK'
  BY <1>6 DEF PopNothing, Return, Ready
<1>7. ASSUME NEW c \in Consumers, Peek(c) PROVE QueueTypeOK'
  <2>1. call' \in [Threads -> Reads \cup {"none", "push"}] /\ \A d \in Consumers : call'[d] # "push"
    BY <1>7 DEF Peek, Return
  <2>2. call'[Writer] \in {"none", "push"}
    BY <1>7 DEF Peek, Return
  <2>3. waiting' \subseteq waiting /\ c \notin waiting'
    BY <1>7 DEF Peek, NotifyOne, Ready
  <2>4. \A t \in waiting' : call'[t] = call[t]
    BY <1>7, <2>3 DEF Peek, Return
  <2> QED
    BY <1>7, <2>1, <2>2, <2>3, <2>4 DEF Peek
<1>8. ASSUME NEW c \in Consumers, WaitNotEmpty(c) PROVE QueueTypeOK'
  BY <1>8 DEF WaitNotEmpty, Wait, Ready
<1> QED
  BY <1>1, <1>2, <1>3, <1>4, <1>5, <1>6, <1>7, <1>8 DEF QueueNext, Write, Read

\* The deque stays within m_MaxSize and only threads inside a blocking call
\* sleep (Queue.h: push, pop, peek).
THEOREM QueueTypeCorrect == QueueSpec => []QueueTypeOK
<1>1. QueueInit => QueueTypeOK
  BY DEF QueueInit, QueueTypeOK
<1> QED
  BY <1>1, TypeStep, PTL DEF QueueSpec

\* The readers that are awake: how their number moves.
LEMMA AwakeFinite ==
    /\ IsFiniteSet(AwakeReaders) /\ Cardinality(AwakeReaders) \in Nat
    /\ Cardinality(AwakeReaders) <= Cardinality(Consumers)
    /\ SleepingReaders # {} => Cardinality(AwakeReaders) < Cardinality(Consumers)
<1>1. AwakeReaders \in SUBSET Consumers
  BY DEF AwakeReaders
<1>2. IsFiniteSet(AwakeReaders) /\ Cardinality(AwakeReaders) <= Cardinality(Consumers)
  BY <1>1, FS_Subset
<1>3. Cardinality(AwakeReaders) \in Nat /\ Cardinality(Consumers) \in Nat
  BY <1>2, FS_CardinalityType
<1>4. ASSUME SleepingReaders # {} PROVE Cardinality(AwakeReaders) # Cardinality(Consumers)
  <2>1. AwakeReaders # Consumers
    BY <1>4 DEF AwakeReaders, SleepingReaders, Ready
  <2> QED
    BY <1>1, <2>1, FS_Subset
<1> QED
  BY <1>2, <1>3, <1>4

\* A reader that returns makes one awake reader less, and the one it wakes,
\* when some reader sleeps and the writer does not, makes one more.
LEMMA AwakeAfterReturn ==
    ASSUME QueueTypeOK, NEW c \in Consumers, Ready(c), NotifyOne, Return(c), Writer \notin waiting
    PROVE  SleepingReaders # {} => Cardinality(AwakeReaders') = Cardinality(AwakeReaders)
<1> SUFFICES ASSUME SleepingReaders # {}
             PROVE Cardinality(AwakeReaders') = Cardinality(AwakeReaders)
  OBVIOUS
<1>1. PICK d \in waiting : waiting' = waiting \ {d}
  BY DEF NotifyOne, SleepingReaders
<1>2. d \in Consumers /\ d # c /\ d \notin AwakeReaders /\ call[d] # "none"
  BY <1>1 DEF QueueTypeOK, Ready, AwakeReaders
<1>3. c \in AwakeReaders
  BY DEF AwakeReaders
<1>4. AwakeReaders' = (AwakeReaders \ {c}) \cup {d}
  BY <1>1, <1>2 DEF AwakeReaders, Ready, Return, QueueTypeOK
<1>5. IsFiniteSet(AwakeReaders) /\ Cardinality(AwakeReaders) \in Nat
  BY AwakeFinite
<1>6. IsFiniteSet(AwakeReaders \ {c}) /\ Cardinality(AwakeReaders \ {c}) = Cardinality(AwakeReaders) - 1
  BY <1>3, <1>5, FS_RemoveElement
<1>7. Cardinality((AwakeReaders \ {c}) \cup {d}) = Cardinality(AwakeReaders \ {c}) + 1
  BY <1>2, <1>6, FS_AddElement
<1> QED
  BY <1>4, <1>5, <1>6, <1>7

\* The writer sleeps only while the queue is full, and then no reader sleeps.
LEMMA WriterSleepsAlone ==
    QueueTypeOK /\ NoLostWakeup /\ Writer \in waiting => SleepingReaders = {}
<1> SUFFICES ASSUME QueueTypeOK, NoLostWakeup, Writer \in waiting, SleepingReaders # {} PROVE FALSE
  OBVIOUS
<1>1. MaxSize <= Cardinality(AwakeReaders)
  BY DEF NoLostWakeup
<1>2. Cardinality(AwakeReaders) \in Nat /\ Cardinality(AwakeReaders) < Cardinality(Consumers)
  BY AwakeFinite
<1>3. Cardinality(Consumers) \in Nat
  BY FS_CardinalityType
<1> QED
  BY <1>1, <1>2, <1>3

LEMMA NoLostStep == QueueTypeOK /\ NoLostWakeup /\ [QueueNext]_queueVars => NoLostWakeup'
<1> SUFFICES ASSUME QueueTypeOK, NoLostWakeup, [QueueNext]_queueVars PROVE NoLostWakeup'
  OBVIOUS
<1>0. /\ m_pElements \in Seq(Elems) /\ Len(m_pElements) \in Nat /\ Len(m_pElements) <= MaxSize
      /\ IsFiniteSet(AwakeReaders) /\ Cardinality(AwakeReaders) \in Nat
  BY AwakeFinite DEF QueueTypeOK
<1>1. CASE UNCHANGED queueVars
  BY <1>1 DEF queueVars, NoLostWakeup, SleepingReaders, AwakeReaders, Ready
<1>2. ASSUME NEW t \in Threads, NEW op, Call(t, op) PROVE NoLostWakeup'
  <2>1. UNCHANGED <<m_pElements, waiting>> /\ SleepingReaders' = SleepingReaders
    BY <1>2 DEF Call, SleepingReaders
  <2>2. AwakeReaders' = AwakeReaders \/ AwakeReaders' = AwakeReaders \cup {t}
    BY <1>2 DEF Call, AwakeReaders, Ready, QueueTypeOK
  <2>3. Cardinality(AwakeReaders \cup {t}) = IF t \in AwakeReaders THEN Cardinality(AwakeReaders)
                                           ELSE Cardinality(AwakeReaders) + 1
    BY <1>0, FS_AddElement
  <2>4. Cardinality(AwakeReaders') \in Nat /\ Cardinality(AwakeReaders') >= Cardinality(AwakeReaders)
    <3>1. CASE AwakeReaders' = AwakeReaders
      BY <1>0, <3>1
    <3>2. CASE AwakeReaders' = AwakeReaders \cup {t}
      <4>1. Cardinality(AwakeReaders') = Cardinality(AwakeReaders \cup {t})
        BY <3>2
      <4> QED
        BY <1>0, <2>3, <4>1
    <3> QED
      BY <2>2, <3>1, <3>2
  <2>5. SleepingReaders' # {} => Len(m_pElements') <= Cardinality(AwakeReaders')
    BY <1>0, <2>1, <2>4 DEF NoLostWakeup
  <2>6. Writer \in waiting' => Len(m_pElements') = MaxSize
    BY <2>1 DEF NoLostWakeup
  <2> QED
    BY <2>5, <2>6 DEF NoLostWakeup
<1>3. CASE Push
  <2>1. Writer \notin waiting /\ Writer \notin waiting' /\ Len(m_pElements') = Len(m_pElements) + 1
    BY <1>0, <1>3 DEF Push, NotifyOne, Ready
  <2>2. ASSUME SleepingReaders' # {} PROVE Len(m_pElements') <= Cardinality(AwakeReaders')
    <3>1. PICK d \in waiting : waiting' = waiting \ {d}
      BY <1>3, <2>2 DEF Push, NotifyOne, SleepingReaders
    <3>0. d \in Consumers /\ d \in waiting /\ call[d] # "none"
      BY <2>1, <3>1 DEF QueueTypeOK
    <3>2. d \in Consumers /\ d \notin AwakeReaders /\ call[d] # "none" /\ SleepingReaders # {}
      BY <3>0 DEF AwakeReaders, Ready, SleepingReaders
    <3>3. AwakeReaders' = AwakeReaders \cup {d}
      BY <1>3, <3>1, <3>2 DEF AwakeReaders, Ready, Push, Return, QueueTypeOK
    <3>4. Cardinality(AwakeReaders') = Cardinality(AwakeReaders) + 1
      BY <1>0, <3>2, <3>3, FS_AddElement
    <3> QED
      BY <1>0, <2>1, <3>2, <3>4 DEF NoLostWakeup
  <2> QED
    BY <2>1, <2>2 DEF NoLostWakeup
<1>4. CASE WaitNotFull
  <2>1. /\ UNCHANGED <<m_pElements, call>>
        /\ waiting' = waiting \cup {Writer} /\ Len(m_pElements) = MaxSize
    BY <1>4 DEF WaitNotFull, Wait
  <2>2. SleepingReaders' = SleepingReaders /\ AwakeReaders' = AwakeReaders
    BY <2>1 DEF SleepingReaders, AwakeReaders, Ready
  <2> QED
    BY <2>1, <2>2 DEF NoLostWakeup
<1>5. ASSUME NEW c \in Consumers, Ready(c), NotifyOne, Return(c),
             m_pElements # <<>>, m_pElements' = Tail(m_pElements) \/ m_pElements' = m_pElements
      PROVE  NoLostWakeup'
  <2>1. /\ Len(m_pElements') \in Nat /\ Len(m_pElements') <= Len(m_pElements)
    BY <1>0, <1>5
  <2>2. CASE Writer \in waiting
    <3>1. waiting = {Writer}
      BY <2>2, WriterSleepsAlone DEF SleepingReaders, QueueTypeOK
    <3>2. waiting' = {}
      BY <1>5, <3>1 DEF NotifyOne
    <3> QED
      BY <3>2 DEF NoLostWakeup, SleepingReaders
  <2>3. CASE Writer \notin waiting
    <3>1. waiting' \subseteq waiting
      BY <1>5 DEF NotifyOne
    <3>2. SleepingReaders # {} => Cardinality(AwakeReaders') = Cardinality(AwakeReaders)
      BY <1>5, <2>3, AwakeAfterReturn
    <3>3. SleepingReaders' # {} => Len(m_pElements') <= Cardinality(AwakeReaders')
      BY <1>0, <2>1, <3>1, <3>2 DEF NoLostWakeup, SleepingReaders
    <3> QED
      BY <2>3, <3>1, <3>3 DEF NoLostWakeup
  <2> QED
    BY <2>2, <2>3
<1>6. ASSUME NEW c \in Consumers, PopNothing(c) PROVE NoLostWakeup'
  <2>1. m_pElements' = <<>> /\ UNCHANGED waiting /\ m_pElements = <<>>
    BY <1>6 DEF PopNothing
  <2>2. IsFiniteSet(AwakeReaders') /\ Cardinality(AwakeReaders') \in Nat
    <3>1. AwakeReaders' \in SUBSET Consumers
      BY DEF AwakeReaders
    <3> QED
      BY <3>1, FS_Subset, FS_CardinalityType
  <2> QED
    BY <2>1, <2>2 DEF NoLostWakeup
<1>7. ASSUME NEW c \in Consumers, WaitNotEmpty(c) PROVE NoLostWakeup'
  <2>1. m_pElements' = <<>> /\ m_pElements = <<>> /\ waiting' = waiting \cup {c}
    BY <1>7 DEF WaitNotEmpty, Wait
  <2>2. IsFiniteSet(AwakeReaders') /\ Cardinality(AwakeReaders') \in Nat
    <3>1. AwakeReaders' \in SUBSET Consumers
      BY DEF AwakeReaders
    <3> QED
      BY <3>1, FS_Subset, FS_CardinalityType
  <2> QED
    BY <2>1, <2>2 DEF NoLostWakeup
<1>8. ASSUME NEW c \in Consumers, Pop(c) PROVE NoLostWakeup'
  BY <1>5, <1>8 DEF Pop
<1>9. ASSUME NEW c \in Consumers, Peek(c) PROVE NoLostWakeup'
  BY <1>5, <1>9 DEF Peek
<1> QED
  BY <1>1, <1>2, <1>3, <1>4, <1>6, <1>7, <1>8, <1>9 DEF QueueNext, Write, Read

\* While a reader sleeps, each queued element has an awake reader of its own,
\* and the writer sleeps only while the queue is full: one condition for both
\* and notify_one are enough (Queue.h: push, pop, peek).
THEOREM NoWakeupIsLost == QueueSpec => []NoLostWakeup
<1>1. QueueInit => QueueTypeOK /\ NoLostWakeup
  BY DEF QueueInit, QueueTypeOK, NoLostWakeup, SleepingReaders
<1>2. QueueTypeOK /\ NoLostWakeup /\ [QueueNext]_queueVars => (QueueTypeOK /\ NoLostWakeup)'
  BY TypeStep, NoLostStep
<1> QED
  BY <1>1, <1>2, PTL DEF QueueSpec

\* Every step of a thread at the queue is a step, or no step, of the queue
\* with atomic calls.
THEOREM ImplementsAtomic == QueueSpec => Atomic!Safe
<1>1. QueueInit => Atomic!Init
  BY DEF QueueInit, Atomic!Init
<1>2. QueueTypeOK /\ [QueueNext]_queueVars => [Atomic!Next]_Atomic!vars
  <2> SUFFICES ASSUME QueueTypeOK, [QueueNext]_queueVars PROVE [Atomic!Next]_Atomic!vars
    OBVIOUS
  <2> USE DEF Atomic!vars, Atomic!Next
  <2>1. CASE UNCHANGED queueVars
    BY <2>1 DEF queueVars
  <2>2. ASSUME NEW t \in Threads, NEW op \in Reads \cup {"push"}, Call(t, op) PROVE Atomic!Next
    <3>1. Atomic!Call(t, op)
      BY <2>2 DEF Call, Atomic!Call
    <3> QED
      BY <3>1
  <2>3. CASE Push
    <3>1. Atomic!Push
      BY <2>3 DEF Push, Ready, Return, QueueTypeOK, Atomic!Push, Atomic!Return
    <3> QED
      BY <3>1
  <2>4. CASE WaitNotFull
    BY <2>4 DEF WaitNotFull, Wait
  <2>5. ASSUME NEW c \in Consumers, Pop(c) PROVE Atomic!Next
    <3>1. Atomic!Pop(c)
      BY <2>5 DEF Pop, Return, Atomic!Pop, Atomic!Return
    <3> QED
      BY <3>1 DEF Atomic!Take
  <2>6. ASSUME NEW c \in Consumers, PopNothing(c) PROVE Atomic!Next
    <3>1. Atomic!PopNothing(c)
      BY <2>6 DEF PopNothing, Return, Atomic!PopNothing, Atomic!Return
    <3> QED
      BY <3>1 DEF Atomic!Take
  <2>7. ASSUME NEW c \in Consumers, Peek(c) PROVE Atomic!Next
    <3>1. Atomic!Peek(c)
      BY <2>7 DEF Peek, Return, Atomic!Peek, Atomic!Return
    <3> QED
      BY <3>1 DEF Atomic!Take
  <2>8. ASSUME NEW c \in Consumers, WaitNotEmpty(c) PROVE UNCHANGED Atomic!vars
    BY <2>8 DEF WaitNotEmpty, Wait
  <2> HIDE DEF Atomic!vars, Atomic!Next
  <2> QED
    BY <2>1, <2>2, <2>3, <2>4, <2>5, <2>6, <2>7, <2>8 DEF QueueNext, Write, Read
<1> QED
  BY <1>1, <1>2, QueueTypeCorrect, PTL DEF QueueSpec, Atomic!Safe

-----------------------------------------------------------------------------
(* The touches, from the packets to the nodes.                             *)

USE TouchAssumption

\* A map that has some of the keys, with values in R.
IsMap(f, Keys_, R) == DOMAIN f \subseteq Keys_ /\ f \in [DOMAIN f -> R]

Kinds == {"CURSORDOWN", "CURSORMOTION", "CURSORUP"}

\* What can wait in a touch, before its first poll and after it.
Touch == [first : {TRUE}, new : {<<"CURSORDOWN">>, <<"CURSORDOWN", "CURSORUP">>}]
            \cup [first : {FALSE}, new : {<<>>, <<"CURSORMOTION">>, <<"CURSORUP">>}]

Ended(t) == t.new \in {<<"CURSORUP">>, <<"CURSORDOWN", "CURSORUP">>}

\* Each finger that is down has a touch of its own, and a touch holds an end
\* just if its finger is gone.
DeviceInv ==
    /\ IsMap(m_TouchIDMap, TUIOIDs, Cursors) /\ m_LastID \in 0 .. MaxTouches
    /\ IsMap(m_Touches, Cursors, Touch)
    /\ \A id \in DOMAIN m_TouchIDMap :
          /\ m_TouchIDMap[id] \in DOMAIN m_Touches
          /\ \A jd \in DOMAIN m_TouchIDMap : m_TouchIDMap[jd] = m_TouchIDMap[id] => jd = id
    /\ \A c \in DOMAIN m_Touches :
          c <= m_LastID /\ (Ended(m_Touches[c]) <=> IsLifted(c))

\* The player's thread is at an event.
InHand == mainPc \in {"listen", "callback", "over", "deliver"}

\* A polled end was the last of its touch; another event leaves the touch,
\* which has seen its first poll.
EventInv ==
    /\ mainPc \in {"idle", "dispatch", "fake", "listen", "callback", "over", "deliver"}
    /\ IsMap(events, Cursors, Kinds)
    /\ InHand => events # None
    /\ mainPc \in {"idle", "fake"} => events = None
    /\ \A c \in DOMAIN events :
          IF events[c] = "CURSORUP" THEN c \notin DOMAIN m_Touches /\ IsLifted(c)
          ELSE c \in DOMAIN m_Touches /\ ~m_Touches[c].first

\* The contacts are those of the touches whose beginning has been handled, or
\* is at hand, and whose end has not.
Begun(c) ==
    \/ c \in DOMAIN events /\ (events[c] # "CURSORDOWN" \/ (InHand /\ c = cursor))
    \/ c \in DOMAIN m_Touches \ DOMAIN events /\ ~m_Touches[c].first

ContactInv ==
    /\ DOMAIN m_ContactMap \subseteq Cursors
    /\ \A c \in Cursors : c \in DOMAIN m_ContactMap <=> Begun(c)

PipeInv == DeviceInv /\ EventInv /\ ContactInv

\* The map of listeners is what its users see, but for the listener that is being
\* called and has disconnected itself; no listener belongs to two contacts.
ListenInv ==
    /\ s_LastListenerID \in Nat
    /\ m_ContactMap \in [DOMAIN m_ContactMap -> SUBSET (1 .. s_LastListenerID)]
    /\ connected \in [DOMAIN m_ContactMap -> SUBSET (1 .. s_LastListenerID)]
    /\ m_bCurListenerIsDead \in BOOLEAN
    /\ m_bCurListenerIsDead => mainPc = "callback"
    /\ mainPc = "callback" => m_CurListenerID \in m_ContactMap[cursor]
    /\ \A c, d \in DOMAIN m_ContactMap : c # d => m_ContactMap[c] \cap m_ContactMap[d] = {}
    /\ \A c \in DOMAIN m_ContactMap :
          connected[c] = IF m_bCurListenerIsDead /\ c = cursor
                         THEN m_ContactMap[c] \ {m_CurListenerID} ELSE m_ContactMap[c]

\* The nodes told of a cursor are those of its CursorState, and at "deliver" those
\* under the event already, as far as they exist.
OverInv ==
    /\ IsMap(m_pLastCursorStates, Cursors, SUBSET Nodes)
    /\ over \in [Cursors -> SUBSET Nodes]
    /\ alive \subseteq Nodes /\ under \subseteq Nodes
    /\ fakes \subseteq DOMAIN m_pLastCursorStates
    /\ mainPc # "fake" => fakes = {}
    /\ \A c \in Cursors :
          over[c] = alive \cap (IF mainPc = "deliver" /\ c = cursor THEN under ELSE LastNodes(c))

\* Every set of numbers has a least one.
LEMMA LeastOfNumbers ==
  ASSUME NEW T, T \subseteq Nat, T # {}
  PROVE  Min(T) \in T
  <1>1. PICK x \in T : \A y \in T : <<y, x>> \notin OpToRel(<, Nat)
    BY NatLessThanWellFounded, WFMin
  <1>2. ASSUME NEW y \in T PROVE x <= y
    <2>1. x \in Nat /\ y \in Nat /\ ~(y < x)
      BY <1>1 DEF OpToRel
    <2> QED BY <2>1
  <1> QED BY <1>2 DEF Min

LEMMA CursorFacts ==
  ASSUME EventInv, events # None
  PROVE  cursor \in DOMAIN events /\ cursor \in Cursors /\ type \in Kinds
  <1>1. DOMAIN events \subseteq Nat /\ DOMAIN events \subseteq Cursors
    BY DEF EventInv, IsMap, Cursors
  <1>2. DOMAIN events # {}
    <2> SUFFICES ASSUME DOMAIN events = {} PROVE FALSE
      OBVIOUS
    <2>1. events = [c \in {} |-> {}]
      BY DEF EventInv, IsMap
    <2> QED BY <2>1 DEF None
  <1>3. cursor \in DOMAIN events
    BY <1>1, <1>2, LeastOfNumbers DEF cursor
  <1> QED BY <1>1, <1>3 DEF type, EventInv, IsMap

LEMMA SameEvent == events' = events => cursor' = cursor /\ type' = type
  BY DEF cursor, type, Min

-----------------------------------------------------------------------------
(* The device's thread. *)

Packet == \/ \E id \in TUIOIDs : FingerDown(id) \/ FingerMoves(id)
          \/ \E live \in SUBSET TUIOIDs : ProcessAlive(live)

\* What a packet leaves to the player's thread: each touch it knows, with as many
\* polls behind it, and each cursor that is lifted.
KeepsTouches ==
    /\ \A c \in DOMAIN m_Touches :
          c \in DOMAIN m_Touches' /\ m_Touches'[c].first = m_Touches[c].first
    /\ \A c \in DOMAIN m_Touches' \ DOMAIN m_Touches :
          ~(c <= m_LastID) /\ m_Touches'[c].first
    /\ \A c \in Cursors : IsLifted(c) => IsLifted(c)'

LEMMA AppendOne == Append(<<"CURSORDOWN">>, "CURSORUP") = <<"CURSORDOWN", "CURSORUP">>
  <1> SUFFICES ASSUME NEW s, s = <<"CURSORDOWN">>, NEW a, a = Append(s, "CURSORUP"),
                      NEW b, b = <<"CURSORDOWN", "CURSORUP">>
               PROVE  a = b
    OBVIOUS
  <1>1. s \in Seq(Kinds) /\ Len(s) = 1 /\ s[1] = "CURSORDOWN"
    BY DEF Kinds
  <1>2. b \in Seq(Kinds) /\ Len(b) = 2 /\ b[1] = "CURSORDOWN" /\ b[2] = "CURSORUP"
    BY DEF Kinds
  <1>3. "CURSORUP" \in Kinds
    BY DEF Kinds
  <1>4. a \in Seq(Kinds) /\ Len(a) = 2 /\ a[1] = "CURSORDOWN" /\ a[2] = "CURSORUP"
    <2>1. /\ a \in Seq(Kinds) /\ Len(a) = Len(s) + 1 /\ a[Len(s) + 1] = "CURSORUP"
          /\ \A i \in 1 .. Len(s) : a[i] = s[i]
      BY <1>1, <1>3, AppendProperties
    <2> QED BY <1>1, <2>1
  <1>5. \A i \in 1 .. Len(a) : a[i] = b[i]
    BY <1>2, <1>4
  <1> QED BY <1>2, <1>4, <1>5, SeqEqual

\* An event pushed to a touch.
LEMMA PushFacts ==
  ASSUME NEW t \in Touch, NEW new \in {"CURSORMOTION", "CURSORUP"}, ~Ended(t)
  PROVE  /\ PushEvent(t, new) \in Touch /\ PushEvent(t, new).first = t.first
         /\ Ended(PushEvent(t, new)) <=> new = "CURSORUP"
  <1>1. CASE t.first
    <2>1. t \in [first : {TRUE}, new : {<<"CURSORDOWN">>, <<"CURSORDOWN", "CURSORUP">>}]
      BY <1>1 DEF Touch
    <2>2. t.new = <<"CURSORDOWN">>
      BY <2>1 DEF Ended
    <2>3. CASE new = "CURSORUP"
      <3>1. Append(t.new, new) = <<"CURSORDOWN", "CURSORUP">>
        BY <2>2, <2>3, AppendOne
      <3>2. PushEvent(t, new) = [t EXCEPT !.new = Append(t.new, new)]
        BY <1>1, <2>3 DEF PushEvent
      <3>3. PushEvent(t, new) = [first |-> TRUE, new |-> <<"CURSORDOWN", "CURSORUP">>]
        BY <2>1, <3>1, <3>2
      <3>4. PushEvent(t, new) \in Touch /\ Ended(PushEvent(t, new))
        BY <3>3 DEF Touch, Ended
      <3>5. PushEvent(t, new).first = t.first
        BY <2>1, <3>2
      <3> QED BY <2>3, <3>4, <3>5
    <2>4. CASE new = "CURSORMOTION"
      <3>1. PushEvent(t, new) = [t EXCEPT !.new = t.new]
        BY <1>1, <2>4 DEF PushEvent
      <3>2. PushEvent(t, new) = t
        BY <2>1, <3>1
      <3> QED BY <2>4, <3>2
    <2> QED BY <2>3, <2>4
  <1>2. CASE ~t.first
    <2>1. t \in [first : {FALSE}, new : {<<>>, <<"CURSORMOTION">>, <<"CURSORUP">>}]
      BY <1>2 DEF Touch
    <2>2. PushEvent(t, new) = [t EXCEPT !.new = <<new>>]
      BY <1>2 DEF PushEvent
    <2>3. PushEvent(t, new) = [first |-> FALSE, new |-> <<new>>]
      BY <2>1, <2>2
    <2>4. <<new>> # <<"CURSORDOWN", "CURSORUP">>
      OBVIOUS
    <2>5. <<new>> = <<"CURSORUP">> <=> new = "CURSORUP"
      OBVIOUS
    <2>6. PushEvent(t, new) \in Touch
      <3>1. <<new>> = <<"CURSORMOTION">> \/ <<new>> = <<"CURSORUP">>
        OBVIOUS
      <3> QED BY <2>3, <3>1 DEF Touch
    <2>7. Ended(PushEvent(t, new)) <=> new = "CURSORUP"
      BY <2>3, <2>4, <2>5 DEF Ended
    <2>8. PushEvent(t, new).first = t.first
      BY <2>1, <2>2
    <2> QED BY <2>6, <2>7, <2>8
  <1> QED BY <1>1, <1>2

LEMMA PushAllFacts ==
  ASSUME DeviceInv, NEW cs, NEW new \in {"CURSORMOTION", "CURSORUP"}, PushAll(cs, new),
         cs \subseteq DOMAIN m_Touches, \A c \in cs : ~Ended(m_Touches[c])
  PROVE  /\ IsMap(m_Touches', Cursors, Touch) /\ DOMAIN m_Touches' = DOMAIN m_Touches
         /\ \A c \in DOMAIN m_Touches :
               /\ m_Touches'[c].first = m_Touches[c].first
               /\ Ended(m_Touches'[c]) <=> IF c \in cs THEN new = "CURSORUP"
                                           ELSE Ended(m_Touches[c])
  <1>1. /\ DOMAIN m_Touches' = DOMAIN m_Touches
        /\ m_Touches' = [c \in DOMAIN m_Touches |-> m_Touches'[c]]
        /\ \A c \in DOMAIN m_Touches :
              m_Touches'[c] = IF c \in cs THEN PushEvent(m_Touches[c], new) ELSE m_Touches[c]
    BY DEF PushAll
  <1>2. DOMAIN m_Touches \subseteq Cursors /\ \A c \in DOMAIN m_Touches : m_Touches[c] \in Touch
    BY DEF DeviceInv, IsMap
  <1>3. ASSUME NEW c \in DOMAIN m_Touches
        PROVE  /\ m_Touches'[c] \in Touch /\ m_Touches'[c].first = m_Touches[c].first
               /\ Ended(m_Touches'[c]) <=> IF c \in cs THEN new = "CURSORUP"
                                           ELSE Ended(m_Touches[c])
    BY <1>1, <1>2, PushFacts
  <1>4. m_Touches' \in [DOMAIN m_Touches' -> Touch]
    BY <1>1, <1>3
  <1> QED BY <1>1, <1>2, <1>3, <1>4 DEF IsMap

\* The packets keep what DeviceInv says.
LEMMA PacketFacts ==
  ASSUME DeviceInv, Packet
  PROVE  DeviceInv' /\ KeepsTouches
  <1>0. /\ m_TouchIDMap \in [DOMAIN m_TouchIDMap -> Cursors]
        /\ DOMAIN m_TouchIDMap \subseteq TUIOIDs
        /\ m_LastID \in 0 .. MaxTouches /\ m_LastID \in Nat
        /\ IsMap(m_Touches, Cursors, Touch)
        /\ \A id \in DOMAIN m_TouchIDMap :
              /\ m_TouchIDMap[id] \in DOMAIN m_Touches
              /\ \A jd \in DOMAIN m_TouchIDMap : m_TouchIDMap[jd] = m_TouchIDMap[id] => jd = id
        /\ \A c \in DOMAIN m_Touches :
              c \in Nat /\ c <= m_LastID /\ (Ended(m_Touches[c]) <=> IsLifted(c))
    BY DEF DeviceInv, IsMap, Cursors
  <1>d. \A id \in DOMAIN m_TouchIDMap :
           /\ m_TouchIDMap[id] <= m_LastID /\ ~IsLifted(m_TouchIDMap[id])
           /\ ~Ended(m_Touches[m_TouchIDMap[id]])
    BY <1>0 DEF IsLifted
  <1>1. ASSUME NEW id \in TUIOIDs, FingerDown(id) PROVE DeviceInv' /\ KeepsTouches
    <2> SUFFICES ASSUME NEW d, d = m_LastID + 1 PROVE DeviceInv' /\ KeepsTouches
      OBVIOUS
    <2>1. /\ id \notin DOMAIN m_TouchIDMap /\ m_LastID' = d /\ d \in Cursors /\ d \in Nat
          /\ m_LastID' \in 0 .. MaxTouches /\ ~(d <= m_LastID) /\ m_LastID <= d
      BY <1>0, <1>1 DEF FingerDown, Cursors
    <2>2. /\ m_TouchIDMap' = With(m_TouchIDMap, id, d)
          /\ m_Touches' = With(m_Touches, d, [first |-> TRUE, new |-> <<"CURSORDOWN">>])
      BY <1>1 DEF FingerDown
    <2>3. /\ DOMAIN m_TouchIDMap' = DOMAIN m_TouchIDMap \cup {id}
          /\ m_TouchIDMap'[id] = d /\ m_TouchIDMap' \in [DOMAIN m_TouchIDMap' -> Cursors]
          /\ \A jd \in DOMAIN m_TouchIDMap : m_TouchIDMap'[jd] = m_TouchIDMap[jd]
      BY <1>0, <2>1, <2>2 DEF With
    <2>4. /\ d \notin DOMAIN m_Touches /\ DOMAIN m_Touches' = DOMAIN m_Touches \cup {d}
          /\ m_Touches'[d] = [first |-> TRUE, new |-> <<"CURSORDOWN">>]
          /\ \A c \in DOMAIN m_Touches : m_Touches'[c] = m_Touches[c]
          /\ m_Touches' = [c \in DOMAIN m_Touches' |-> m_Touches'[c]]
      BY <1>0, <2>1, <2>2 DEF With
    <2>5. m_Touches'[d] \in Touch /\ ~Ended(m_Touches'[d]) /\ m_Touches'[d].first
      BY <2>4 DEF Touch, Ended
    <2>6. IsMap(m_Touches', Cursors, Touch)
      <3>1. \A c \in DOMAIN m_Touches' : c \in Cursors /\ m_Touches'[c] \in Touch
        BY <1>0, <2>1, <2>4, <2>5 DEF IsMap
      <3> QED BY <2>4, <3>1 DEF IsMap
    <2>7. ASSUME NEW c \in Nat, c <= m_LastID PROVE c <= m_LastID' /\ (IsLifted(c)' <=> IsLifted(c))
      <3>1. c # d /\ c <= m_LastID'
        BY <1>0, <2>1, <2>7
      <3> QED BY <2>3, <2>7, <3>1 DEF IsLifted
    <2>8. ~IsLifted(d)'
      BY <2>3 DEF IsLifted
    <2>9. ASSUME NEW c \in Cursors, IsLifted(c) PROVE IsLifted(c)'
      <3>1. c \in Nat /\ c <= m_LastID
        BY <2>9 DEF IsLifted, Cursors
      <3> QED BY <2>7, <2>9, <3>1
    <2>10. KeepsTouches
      BY <2>1, <2>4, <2>5, <2>9 DEF KeepsTouches
    <2>11. \A jd \in DOMAIN m_TouchIDMap' :
              /\ m_TouchIDMap'[jd] \in DOMAIN m_Touches'
              /\ \A kd \in DOMAIN m_TouchIDMap' : m_TouchIDMap'[kd] = m_TouchIDMap'[jd] => kd = jd
      BY <1>0, <2>3, <2>4
    <2>12. \A c \in DOMAIN m_Touches' :
              c <= m_LastID' /\ (Ended(m_Touches'[c]) <=> IsLifted(c)')
      <3>1. ASSUME NEW c \in DOMAIN m_Touches
            PROVE  c <= m_LastID' /\ (Ended(m_Touches'[c]) <=> IsLifted(c)')
        BY <1>0, <2>4, <2>7
      <3>2. d <= m_LastID' /\ (Ended(m_Touches'[d]) <=> IsLifted(d)')
        BY <2>1, <2>5, <2>8
      <3> QED BY <2>4, <3>1, <3>2
    <2>13. IsMap(m_TouchIDMap', TUIOIDs, Cursors)
      BY <1>0, <2>3 DEF IsMap
    <2> QED BY <2>1, <2>6, <2>10, <2>11, <2>12, <2>13 DEF DeviceInv
  <1>2. ASSUME NEW id \in TUIOIDs, FingerMoves(id) PROVE DeviceInv' /\ KeepsTouches
    <2> DEFINE cs == {m_TouchIDMap[id]}
    <2>1. /\ id \in DOMAIN m_TouchIDMap /\ PushAll(cs, "CURSORMOTION")
          /\ UNCHANGED <<m_TouchIDMap, m_LastID>>
      BY <1>2 DEF FingerMoves
    <2>2. cs \subseteq DOMAIN m_Touches /\ \A c \in cs : ~Ended(m_Touches[c])
      BY <1>0, <1>d, <2>1
    <2> HIDE DEF cs
    <2>3. /\ IsMap(m_Touches', Cursors, Touch) /\ DOMAIN m_Touches' = DOMAIN m_Touches
          /\ \A c \in DOMAIN m_Touches :
                /\ m_Touches'[c].first = m_Touches[c].first
                /\ Ended(m_Touches'[c]) <=> Ended(m_Touches[c])
      BY <2>1, <2>2, PushAllFacts
    <2>4. \A c : IsLifted(c)' <=> IsLifted(c)
      BY <2>1 DEF IsLifted
    <2>5. KeepsTouches
      BY <2>3, <2>4 DEF KeepsTouches
    <2> QED BY <2>1, <2>3, <2>4, <2>5 DEF DeviceInv
  <1>3. ASSUME NEW live \in SUBSET TUIOIDs, ProcessAlive(live) PROVE DeviceInv' /\ KeepsTouches
    <2> DEFINE cs == {m_TouchIDMap[id] : id \in DOMAIN m_TouchIDMap \ live}
    <2>1. /\ PushAll(cs, "CURSORUP") /\ m_LastID' = m_LastID
          /\ m_TouchIDMap' = [id \in DOMAIN m_TouchIDMap \cap live |-> m_TouchIDMap[id]]
      BY <1>3 DEF ProcessAlive
    <2>2. cs \subseteq DOMAIN m_Touches /\ \A c \in cs : ~Ended(m_Touches[c])
      BY <1>0, <1>d
    <2>3. /\ DOMAIN m_TouchIDMap' = DOMAIN m_TouchIDMap \cap live
          /\ \A id \in DOMAIN m_TouchIDMap' : m_TouchIDMap'[id] = m_TouchIDMap[id]
          /\ m_TouchIDMap' \in [DOMAIN m_TouchIDMap' -> Cursors]
      BY <1>0, <2>1
    <2>4. ASSUME NEW c PROVE IsLifted(c)' <=> IsLifted(c) \/ c \in cs
      <3>1. CASE c \in cs
        <4>1. PICK id \in DOMAIN m_TouchIDMap \ live : c = m_TouchIDMap[id]
          BY <3>1
        <4>2. \A jd \in DOMAIN m_TouchIDMap' : m_TouchIDMap'[jd] # c
          BY <1>0, <2>3, <4>1
        <4>3. c <= m_LastID'
          BY <1>d, <2>1, <4>1
        <4> QED BY <3>1, <4>2, <4>3 DEF IsLifted
      <3>2. CASE c \notin cs
        <4>1. ASSUME NEW id \in DOMAIN m_TouchIDMap, m_TouchIDMap[id] = c
              PROVE  id \in DOMAIN m_TouchIDMap' /\ m_TouchIDMap'[id] = c
          BY <2>3, <3>2, <4>1
        <4> QED BY <2>1, <2>3, <3>2, <4>1 DEF IsLifted
      <3> QED BY <3>1, <3>2
    <2> HIDE DEF cs
    <2>5. /\ IsMap(m_Touches', Cursors, Touch) /\ DOMAIN m_Touches' = DOMAIN m_Touches
          /\ \A c \in DOMAIN m_Touches :
                /\ m_Touches'[c].first = m_Touches[c].first
                /\ Ended(m_Touches'[c]) <=> c \in cs \/ Ended(m_Touches[c])
      BY <2>1, <2>2, PushAllFacts
    <2>6. KeepsTouches
      BY <2>4, <2>5 DEF KeepsTouches
    <2>7. \A c \in DOMAIN m_Touches' :
             c <= m_LastID' /\ (Ended(m_Touches'[c]) <=> IsLifted(c)')
      BY <1>0, <2>1, <2>4, <2>5
    <2>8. \A id \in DOMAIN m_TouchIDMap' :
             /\ m_TouchIDMap'[id] \in DOMAIN m_Touches'
             /\ \A jd \in DOMAIN m_TouchIDMap' : m_TouchIDMap'[jd] = m_TouchIDMap'[id] => jd = id
      BY <1>0, <2>3, <2>5
    <2>9. IsMap(m_TouchIDMap', TUIOIDs, Cursors)
      BY <1>0, <2>3 DEF IsMap
    <2> QED BY <1>0, <2>1, <2>5, <2>6, <2>7, <2>8, <2>9 DEF DeviceInv
  <1> QED BY <1>1, <1>2, <1>3 DEF Packet

LEMMA TailOfTwo == /\ Head(<<"CURSORDOWN", "CURSORUP">>) = "CURSORDOWN"
                   /\ Tail(<<"CURSORDOWN", "CURSORUP">>) = <<"CURSORUP">>
  <1> SUFFICES ASSUME NEW s, s = <<"CURSORDOWN", "CURSORUP">>, NEW a, a = Tail(s),
                      NEW b, b = <<"CURSORUP">>
               PROVE  Head(s) = "CURSORDOWN" /\ a = b
    OBVIOUS
  <1>1. s \in Seq(Kinds) /\ Len(s) = 2 /\ s[2] = "CURSORUP" /\ s # <<>>
    BY DEF Kinds
  <1>2. b \in Seq(Kinds) /\ Len(b) = 1 /\ b[1] = "CURSORUP"
    BY DEF Kinds
  <1>3. a \in Seq(Kinds) /\ Len(a) = 1 /\ a[1] = "CURSORUP"
    <2>1. /\ a \in Seq(Kinds) /\ Len(a) = Len(s) - 1
          /\ \A i \in 1 .. Len(a) : a[i] = s[i + 1]
      BY <1>1, HeadTailProperties
    <2> QED BY <1>1, <2>1
  <1>4. \A i \in 1 .. Len(a) : a[i] = b[i]
    BY <1>2, <1>3
  <1>5. a = b
    BY <1>2, <1>3, <1>4, SeqEqual
  <1> QED BY <1>5

LEMMA TuplesDiffer ==
  /\ <<>> # <<"CURSORDOWN">> /\ <<>> # <<"CURSORDOWN", "CURSORUP">>
  /\ <<>> # <<"CURSORMOTION">> /\ <<>> # <<"CURSORUP">>
  /\ <<"CURSORDOWN">> # <<"CURSORUP">> /\ <<"CURSORMOTION">> # <<"CURSORUP">>
  /\ <<"CURSORDOWN">> # <<"CURSORMOTION">>
  /\ \A e : <<e>> # <<"CURSORDOWN", "CURSORUP">>
  OBVIOUS

\* One event taken from a touch.
LEMMA PollFacts ==
  ASSUME NEW t \in Touch
  PROVE  /\ t.new = <<>> => PolledTouch(t) = t /\ ~t.first /\ ~Ended(t)
         /\ t.new # <<>> =>
               /\ Head(t.new) \in Kinds
               /\ Head(t.new) = "CURSORDOWN" <=> t.first
               /\ Head(t.new) = "CURSORUP" => Ended(t)
               /\ PolledTouch(t) \in Touch /\ ~PolledTouch(t).first
               /\ Head(t.new) # "CURSORUP" => (Ended(PolledTouch(t)) <=> Ended(t))
  <1>1. CASE t.new = <<>>
    <2>1. t \in [first : {FALSE}, new : {<<>>, <<"CURSORMOTION">>, <<"CURSORUP">>}]
      BY <1>1, TuplesDiffer DEF Touch
    <2>2. ~t.first /\ ~Ended(t)
      BY <1>1, <2>1, TuplesDiffer DEF Ended
    <2> QED BY <1>1, <2>2 DEF PolledTouch
  <1>2. CASE t.new # <<>>
    <2> DEFINE r == PolledTouch(t)
    <2>1. r = [t EXCEPT !.new = Tail(t.new), !.first = FALSE]
      BY <1>2 DEF PolledTouch
    <2>2. CASE t.new = <<"CURSORDOWN", "CURSORUP">>
      <3>1. t \in [first : {TRUE}, new : {<<"CURSORDOWN">>, <<"CURSORDOWN", "CURSORUP">>}]
        BY <2>2, TuplesDiffer DEF Touch
      <3>2. Head(t.new) = "CURSORDOWN" /\ Tail(t.new) = <<"CURSORUP">>
        BY <2>2, TailOfTwo
      <3>3. r = [first |-> FALSE, new |-> <<"CURSORUP">>] /\ t.first
        BY <2>1, <3>1, <3>2
      <3>4. r \in Touch /\ ~r.first /\ Ended(r) /\ Ended(t)
        BY <2>2, <3>3 DEF Touch, Ended
      <3> HIDE DEF r
      <3> QED BY <1>2, <3>2, <3>3, <3>4 DEF Kinds, r
    <2>3. ASSUME NEW e \in Kinds, t.new = <<e>>, t.first <=> e = "CURSORDOWN"
          PROVE  /\ Head(t.new) \in Kinds
                 /\ Head(t.new) = "CURSORDOWN" <=> t.first
                 /\ Head(t.new) = "CURSORUP" => Ended(t)
                 /\ r \in Touch /\ ~r.first
                 /\ Head(t.new) # "CURSORUP" => (Ended(r) <=> Ended(t))
      <3>1. Head(t.new) = e /\ Tail(t.new) = <<>>
        BY <2>3
      <3>2. DOMAIN t = {"first", "new"} /\ t = [first |-> t.first, new |-> t.new]
        BY DEF Touch
      <3>3. r = [first |-> FALSE, new |-> <<>>]
        BY <2>1, <3>1, <3>2
      <3>4. r \in Touch /\ ~r.first /\ ~Ended(r)
        BY <3>3 DEF Touch, Ended
      <3>5. Ended(t) <=> e = "CURSORUP"
        BY <2>3 DEF Ended
      <3> HIDE DEF r
      <3> QED BY <2>3, <3>1, <3>4, <3>5
    <2> HIDE DEF r
    <2>4. CASE t.new = <<"CURSORDOWN">>
      <3>1. t \in [first : {TRUE}, new : {<<"CURSORDOWN">>, <<"CURSORDOWN", "CURSORUP">>}]
        BY <2>4, TuplesDiffer DEF Touch
      <3>2. t.first
        BY <3>1
      <3> QED BY <1>2, <2>3, <2>4, <3>2 DEF r, Kinds
    <2>5. CASE t.new = <<"CURSORMOTION">> \/ t.new = <<"CURSORUP">>
      <3>1. t \in [first : {FALSE}, new : {<<>>, <<"CURSORMOTION">>, <<"CURSORUP">>}]
        BY <2>5, TuplesDiffer DEF Touch
      <3>2. ~t.first
        BY <3>1
      <3> QED BY <1>2, <2>3, <2>5, <3>2 DEF r, Kinds
    <2>6. \/ t.new = <<"CURSORDOWN", "CURSORUP">> \/ t.new = <<"CURSORDOWN">>
          \/ t.new = <<"CURSORMOTION">> \/ t.new = <<"CURSORUP">>
      BY <1>2 DEF Touch
    <2> QED BY <2>2, <2>4, <2>5, <2>6
  <1> QED BY <1>1, <1>2

LEMMA PollStep ==
  ASSUME PipeInv, PollEvents
  PROVE  PipeInv'
  <1>0. DeviceInv /\ EventInv /\ ContactInv
    BY DEF PipeInv
  <1>1. /\ mainPc = "idle" /\ mainPc' = "dispatch" /\ events = None /\ DOMAIN events = {}
        /\ UNCHANGED <<m_TouchIDMap, m_LastID, m_ContactMap>>
        /\ \A c : IsLifted(c)' <=> IsLifted(c)
    BY <1>0 DEF PollEvents, EventInv, None, IsLifted, users
  <1>2. PICK polled, ended :
           /\ polled = {c \in DOMAIN m_Touches : m_Touches[c].new # <<>>}
           /\ ended = {c \in polled : Head(m_Touches[c].new) = "CURSORUP"}
           /\ events' = [c \in polled |-> Head(m_Touches[c].new)]
           /\ m_Touches' = [c \in DOMAIN m_Touches \ ended |-> PolledTouch(m_Touches[c])]
    BY DEF PollEvents
  <1>3. /\ DOMAIN m_Touches \subseteq Cursors
        /\ \A c \in DOMAIN m_Touches : /\ m_Touches[c] \in Touch /\ c <= m_LastID
                                       /\ Ended(m_Touches[c]) <=> IsLifted(c)
    BY <1>0 DEF DeviceInv, IsMap
  <1>4. DOMAIN events' = polled /\ DOMAIN m_Touches' = DOMAIN m_Touches \ ended
    BY <1>2
  <1>5. ASSUME NEW c \in polled
        PROVE  /\ c \in DOMAIN m_Touches
               /\ events'[c] \in Kinds /\ (events'[c] = "CURSORDOWN" <=> m_Touches[c].first)
               /\ events'[c] = "CURSORUP" <=> c \notin DOMAIN m_Touches'
               /\ events'[c] = "CURSORUP" => IsLifted(c)
               /\ c \in DOMAIN m_Touches' =>
                     /\ m_Touches'[c] \in Touch /\ ~m_Touches'[c].first
                     /\ Ended(m_Touches'[c]) <=> IsLifted(c)
    <2>1. /\ c \in DOMAIN m_Touches /\ m_Touches[c].new # <<>> /\ m_Touches[c] \in Touch
          /\ Ended(m_Touches[c]) <=> IsLifted(c)
          /\ events'[c] = Head(m_Touches[c].new)
          /\ c \in ended <=> events'[c] = "CURSORUP"
      BY <1>2, <1>3
    <2>2. c \in DOMAIN m_Touches' => m_Touches'[c] = PolledTouch(m_Touches[c])
      BY <1>2
    <2> QED BY <1>4, <2>1, <2>2, PollFacts
  <1>6. ASSUME NEW c \in DOMAIN m_Touches \ polled
        PROVE  /\ c \in DOMAIN m_Touches' /\ m_Touches'[c] \in Touch
               /\ ~m_Touches'[c].first /\ ~m_Touches[c].first
               /\ Ended(m_Touches'[c]) <=> IsLifted(c)
    <2>1. /\ c \in DOMAIN m_Touches' /\ m_Touches'[c] = PolledTouch(m_Touches[c])
          /\ m_Touches[c].new = <<>>
      BY <1>2
    <2> QED BY <1>3, <2>1, PollFacts
  <1>7. DeviceInv'
    <2>1. IsMap(m_Touches', Cursors, Touch)
      <3>1. \A c \in DOMAIN m_Touches' : c \in Cursors /\ m_Touches'[c] \in Touch
        BY <1>3, <1>4, <1>5, <1>6
      <3>2. m_Touches' = [c \in DOMAIN m_Touches' |-> m_Touches'[c]]
        BY <1>2
      <3> QED BY <3>1, <3>2 DEF IsMap
    <2>2. \A id \in DOMAIN m_TouchIDMap : m_TouchIDMap[id] \in DOMAIN m_Touches'
      <3> SUFFICES ASSUME NEW id \in DOMAIN m_TouchIDMap
                   PROVE  m_TouchIDMap[id] \in DOMAIN m_Touches'
        OBVIOUS
      <3>1. m_TouchIDMap[id] \in DOMAIN m_Touches /\ ~IsLifted(m_TouchIDMap[id])
        BY <1>0 DEF DeviceInv, IsLifted
      <3> QED BY <1>5, <1>6, <3>1
    <2>3. \A c \in DOMAIN m_Touches' : c <= m_LastID /\ (Ended(m_Touches'[c]) <=> IsLifted(c))
      BY <1>3, <1>4, <1>5, <1>6
    <2> QED BY <1>0, <1>1, <2>1, <2>2, <2>3 DEF DeviceInv
  <1>8. EventInv'
    <2>1. IsMap(events', Cursors, Kinds)
      <3>1. events' = [c \in DOMAIN events' |-> events'[c]]
        BY <1>2
      <3> QED BY <1>3, <1>4, <1>5, <3>1 DEF IsMap
    <2>2. \A c \in DOMAIN events' :
             IF events'[c] = "CURSORUP" THEN c \notin DOMAIN m_Touches' /\ IsLifted(c)'
             ELSE c \in DOMAIN m_Touches' /\ ~m_Touches'[c].first
      BY <1>1, <1>4, <1>5
    <2> QED BY <1>1, <2>1, <2>2 DEF EventInv, InHand
  <1>9. ContactInv'
    <2>1. ASSUME NEW c \in Cursors PROVE Begun(c)' <=> Begun(c)
      <3>1. Begun(c) <=> c \in DOMAIN m_Touches /\ ~m_Touches[c].first
        BY <1>1 DEF Begun
      <3>2. Begun(c)' <=> \/ c \in DOMAIN events' /\ events'[c] # "CURSORDOWN"
                          \/ c \in DOMAIN m_Touches' \ DOMAIN events' /\ ~m_Touches'[c].first
        BY <1>1 DEF Begun, InHand
      <3> QED BY <1>4, <1>5, <1>6, <3>1, <3>2
    <2> QED BY <1>0, <1>1, <2>1 DEF ContactInv
  <1> QED BY <1>7, <1>8, <1>9 DEF PipeInv

LEMMA PacketStep ==
  ASSUME PipeInv, Packet
  PROVE  PipeInv'
  <1>0. DeviceInv /\ EventInv /\ ContactInv
    BY DEF PipeInv
  <1>1. DeviceInv' /\ KeepsTouches
    BY <1>0, PacketFacts
  <1>2. UNCHANGED <<mainPc, events, m_ContactMap>> /\ cursor' = cursor
    <2>1. MainUnchanged
      BY DEF Packet, FingerDown, FingerMoves, ProcessAlive
    <2> QED BY <2>1, SameEvent DEF MainUnchanged, users
  <1>3. ASSUME NEW c \in DOMAIN events
        PROVE  IF events[c] = "CURSORUP" THEN c \notin DOMAIN m_Touches' /\ IsLifted(c)'
               ELSE c \in DOMAIN m_Touches' /\ ~m_Touches'[c].first
    <2>1. c \in Cursors
      BY <1>0 DEF EventInv, IsMap
    <2>2. CASE events[c] = "CURSORUP"
      <3>1. c \notin DOMAIN m_Touches /\ IsLifted(c)
        BY <1>0, <2>2 DEF EventInv
      <3>2. c <= m_LastID
        BY <3>1 DEF IsLifted
      <3> QED BY <1>1, <2>1, <2>2, <3>1, <3>2 DEF KeepsTouches
    <2>3. CASE events[c] # "CURSORUP"
      BY <1>0, <1>1, <2>3 DEF EventInv, KeepsTouches
    <2> QED BY <2>2, <2>3
  <1>4. EventInv'
    BY <1>0, <1>2, <1>3 DEF EventInv, InHand
  <1>5. ASSUME NEW c \in Cursors PROVE Begun(c)' <=> Begun(c)
    <2>1. c \in DOMAIN m_Touches' /\ ~m_Touches'[c].first
            <=> c \in DOMAIN m_Touches /\ ~m_Touches[c].first
      BY <1>1 DEF KeepsTouches
    <2> QED BY <1>2, <2>1 DEF Begun, InHand
  <1>6. ContactInv'
    BY <1>0, <1>2, <1>5 DEF ContactInv
  <1> QED BY <1>1, <1>4, <1>6 DEF PipeInv

\* The user of contacts and nodes.
UserStep == \/ \E c \in DOMAIN m_ContactMap :
                  ConnectListener(c) \/ \E id \in connected[c] : DisconnectListener(c, id)
            \/ \E n \in Nodes : DeleteNode(n)

\* The steps that neither begin nor end an event, and leave the contacts.
LEMMA QuietStep ==
  ASSUME PipeInv, UNCHANGED <<device, events>>, DOMAIN m_ContactMap' = DOMAIN m_ContactMap,
         InHand' <=> InHand,
         mainPc' \in {"idle", "dispatch", "fake", "listen", "callback", "over", "deliver"},
         mainPc' \in {"idle", "fake"} => events = None
  PROVE  PipeInv'
  <1>0. DeviceInv /\ EventInv /\ ContactInv
    BY DEF PipeInv
  <1>1. cursor' = cursor
    BY SameEvent
  <1>2. DeviceInv'
    BY <1>0 DEF DeviceInv, device, IsLifted
  <1>3. EventInv'
    BY <1>0 DEF EventInv, device, IsLifted
  <1>4. \A c \in Cursors : Begun(c)' <=> Begun(c)
    BY <1>1 DEF Begun, device
  <1>5. ContactInv'
    BY <1>0, <1>4 DEF ContactInv
  <1> QED BY <1>2, <1>3, <1>5 DEF PipeInv

LEMMA HandleStep ==
  ASSUME PipeInv, HandleEvent
  PROVE  PipeInv'
  <1>0. DeviceInv /\ EventInv /\ ContactInv
    BY DEF PipeInv
  <1>1. /\ mainPc = "dispatch" /\ events # None /\ UNCHANGED <<device, events>>
        /\ mainPc' \in {"listen", "over"}
        /\ cursor \in DOMAIN events /\ cursor \in Cursors /\ type = events[cursor]
        /\ cursor' = cursor
    BY <1>0, CursorFacts, SameEvent DEF HandleEvent, type
  <1>2. InHand' /\ ~InHand
    BY <1>1 DEF InHand
  <1>3. DeviceInv'
    BY <1>0, <1>1 DEF DeviceInv, device, IsLifted
  <1>4. EventInv'
    BY <1>0, <1>1, <1>2 DEF EventInv, device, IsLifted
  <1>5. DOMAIN m_ContactMap' = DOMAIN m_ContactMap \cup {cursor}
    <2>1. CASE type = "CURSORDOWN"
      BY <2>1 DEF HandleEvent, With
    <2>2. CASE type # "CURSORDOWN"
      <3>1. cursor \in DOMAIN m_ContactMap
        BY <1>0, <1>1, <2>2 DEF ContactInv, Begun
      <3> QED BY <2>2, <3>1 DEF HandleEvent
    <2> QED BY <2>1, <2>2
  <1>6. \A c \in Cursors : Begun(c)' <=> Begun(c) \/ c = cursor
    BY <1>1, <1>2 DEF Begun, device
  <1>7. ContactInv'
    BY <1>0, <1>1, <1>5, <1>6 DEF ContactInv
  <1> QED BY <1>3, <1>4, <1>7 DEF PipeInv

LEMMA DoneStep ==
  ASSUME PipeInv, EventDone
  PROVE  PipeInv'
  <1>0. DeviceInv /\ EventInv /\ ContactInv
    BY DEF PipeInv
  <1>1. mainPc = "deliver" /\ mainPc' = "dispatch" /\ UNCHANGED device
    BY DEF EventDone
  <1>2. InHand /\ ~InHand' /\ events # None
    BY <1>0, <1>1 DEF InHand, EventInv
  <1>3. PICK d \in Cursors : d = cursor /\ d \in DOMAIN events
    BY <1>0, <1>2, CursorFacts
  <1>4. /\ events' = Without(events, d)
        /\ DOMAIN m_ContactMap' = IF events[d] = "CURSORUP" THEN DOMAIN m_ContactMap \ {d}
                                  ELSE DOMAIN m_ContactMap
    BY <1>3 DEF EventDone, Without, type
  <1>5. /\ DOMAIN events' = DOMAIN events \ {d}
        /\ \A c \in DOMAIN events' : events'[c] = events[c]
        /\ events' = [c \in DOMAIN events' |-> events'[c]]
    BY <1>4 DEF Without
  <1>6. DeviceInv'
    BY <1>0, <1>1 DEF DeviceInv, device, IsLifted
  <1>7. EventInv'
    <2>1. IsMap(events', Cursors, Kinds)
      BY <1>0, <1>5 DEF IsMap, EventInv
    <2>2. \A c \in DOMAIN events' :
             IF events'[c] = "CURSORUP" THEN c \notin DOMAIN m_Touches' /\ IsLifted(c)'
             ELSE c \in DOMAIN m_Touches' /\ ~m_Touches'[c].first
      BY <1>0, <1>1, <1>5 DEF EventInv, device, IsLifted
    <2> QED BY <1>1, <1>2, <2>1, <2>2 DEF EventInv
  <1>8. \A c \in Cursors : Begun(c)' <=> Begun(c) /\ ~(c = d /\ events[d] = "CURSORUP")
    <2>1. CASE events[d] = "CURSORUP"
      <3>1. d \notin DOMAIN m_Touches
        BY <1>0, <1>3, <2>1 DEF EventInv
      <3> QED BY <1>1, <1>2, <1>3, <1>5, <2>1, <3>1 DEF Begun, device
    <2>2. CASE events[d] # "CURSORUP"
      <3>1. d \in DOMAIN m_Touches /\ ~m_Touches[d].first
        BY <1>0, <1>3, <2>2 DEF EventInv
      <3> QED BY <1>1, <1>2, <1>3, <1>5, <2>2, <3>1 DEF Begun, device
    <2> QED BY <2>1, <2>2
  <1>9. ContactInv'
    BY <1>0, <1>4, <1>8 DEF ContactInv
  <1> QED BY <1>6, <1>7, <1>9 DEF PipeInv

LEMMA PipeStep == PipeInv /\ [TouchNext]_touchVars => PipeInv'
  <1> SUFFICES ASSUME PipeInv, [TouchNext]_touchVars PROVE PipeInv'
    OBVIOUS
  <1>1. CASE UNCHANGED touchVars
    <2>1. UNCHANGED <<device, events, m_ContactMap, mainPc>>
      BY <1>1 DEF touchVars, users
    <2> QED BY <2>1, QuietStep DEF InHand, PipeInv, EventInv
  <1>2. CASE CallListener \/ ListenerReturns \/ ListenersDone \/ SendOverEvents
    <2>1. /\ UNCHANGED <<device, events>> /\ InHand /\ InHand'
          /\ mainPc' \in {"listen", "callback", "over", "deliver"}
          /\ DOMAIN m_ContactMap' = DOMAIN m_ContactMap
      BY <1>2 DEF CallListener, ListenerReturns, ListenersDone, SendOverEvents, InHand, users
    <2> QED BY <2>1, QuietStep
  <1>3. CASE FakeEventsBegin \/ SendFakeEvent \/ FrameDone
    <2>1. /\ UNCHANGED <<device, events, m_ContactMap>> /\ ~InHand /\ ~InHand'
          /\ mainPc' \in {"fake", "idle"} /\ events = None
      BY <1>3 DEF FakeEventsBegin, SendFakeEvent, FrameDone, InHand, users, PipeInv, EventInv
    <2> QED BY <2>1, QuietStep
  <1>4. CASE UserStep
    <2>1. UNCHANGED <<device, events, mainPc>> /\ DOMAIN m_ContactMap' = DOMAIN m_ContactMap
      BY <1>4 DEF UserStep, ConnectListener, DisconnectListener, DeleteNode, users
    <2> QED BY <2>1, QuietStep DEF InHand, PipeInv, EventInv
  <1> QED BY <1>1, <1>2, <1>3, <1>4, PacketStep, PollStep, HandleStep, DoneStep
          DEF TouchNext, Player, Packet, UserStep

LEMMA PipeInit == TouchInit => PipeInv
  <1> SUFFICES ASSUME TouchInit PROVE PipeInv
    OBVIOUS
  <1>1. /\ m_LastID = 0 /\ mainPc = "idle" /\ events = None /\ m_TouchIDMap = None
        /\ m_Touches = None /\ m_ContactMap = None /\ DOMAIN None = {}
    BY DEF TouchInit, None
  <1>2. \A S, R : IsMap(None, S, R)
    BY DEF IsMap, None
  <1>3. DeviceInv
    BY <1>1, <1>2 DEF DeviceInv
  <1>4. EventInv
    BY <1>1, <1>2 DEF EventInv, InHand
  <1>5. ContactInv
    BY <1>1 DEF ContactInv, Begun
  <1> QED BY <1>3, <1>4, <1>5 DEF PipeInv

LEMMA WaitingFacts ==
  ASSUME NEW t \in Touch, NEW n, n = t.new
  PROVE  /\ n \in Seq(Kinds) /\ Len(n) \in 0 .. 2
         /\ t.first => /\ Len(n) # 0 /\ n[1] = "CURSORDOWN"
                       /\ Len(n) = 2 => n[2] = "CURSORUP"
         /\ ~t.first => /\ Len(n) # 2
                        /\ Len(n) = 1 => n[1] # "CURSORDOWN"
         /\ Ended(t) <=> Len(n) # 0 /\ n[Len(n)] = "CURSORUP"
  <1>1. CASE t \in [first : {TRUE}, new : {<<"CURSORDOWN">>, <<"CURSORDOWN", "CURSORUP">>}]
    <2>0. t.first
      BY <1>1
    <2>1. CASE n = <<"CURSORDOWN">>
      <3>1. n \in Seq(Kinds) /\ Len(n) = 1 /\ n[1] = "CURSORDOWN"
        BY <2>1 DEF Kinds
      <3>2. ~Ended(t)
        BY <2>1, TuplesDiffer DEF Ended
      <3> QED BY <2>0, <3>1, <3>2
    <2>2. CASE n = <<"CURSORDOWN", "CURSORUP">>
      <3>1. n \in Seq(Kinds) /\ Len(n) = 2 /\ n[1] = "CURSORDOWN" /\ n[2] = "CURSORUP"
        BY <2>2 DEF Kinds
      <3>2. Ended(t)
        BY <2>2 DEF Ended
      <3> QED BY <2>0, <3>1, <3>2
    <2> QED BY <1>1, <2>1, <2>2
  <1>2. CASE t \in [first : {FALSE}, new : {<<>>, <<"CURSORMOTION">>, <<"CURSORUP">>}]
    <2>0. ~t.first
      BY <1>2
    <2>1. CASE n = <<>>
      <3>1. n \in Seq(Kinds) /\ Len(n) = 0
        BY <2>1
      <3>2. ~Ended(t)
        BY <2>1, TuplesDiffer DEF Ended
      <3> QED BY <2>0, <3>1, <3>2
    <2>2. ASSUME NEW e \in {"CURSORMOTION", "CURSORUP"}, n = <<e>>
          PROVE  /\ n \in Seq(Kinds) /\ Len(n) = 1 /\ n[1] # "CURSORDOWN"
                 /\ Ended(t) <=> n[1] = "CURSORUP"
      <3>1. n \in Seq(Kinds) /\ Len(n) = 1 /\ n[1] = e
        BY <2>2 DEF Kinds
      <3>2. Ended(t) <=> e = "CURSORUP"
        BY <2>2, TuplesDiffer DEF Ended
      <3> QED BY <3>1, <3>2
    <2>3. CASE n = <<"CURSORMOTION">> \/ n = <<"CURSORUP">>
      <3>1. /\ n \in Seq(Kinds) /\ Len(n) = 1 /\ n[1] # "CURSORDOWN"
            /\ Ended(t) <=> n[1] = "CURSORUP"
        BY <2>2, <2>3
      <3> QED BY <2>0, <3>1
    <2> QED BY <1>2, <2>1, <2>3
  <1> QED BY <1>1, <1>2 DEF Touch

\* What of a cursor has not been polled.
Waiting(c) == IF c \in DOMAIN m_Touches THEN m_Touches[c].new ELSE <<>>

LEMMA PipeFacts ==
  ASSUME NEW c, Waiting(c) \in Seq(Kinds),
         c \in DOMAIN events => events[c] \in Kinds
  PROVE  /\ Pipe(c) \in Seq(Kinds)
         /\ c \notin DOMAIN events => Pipe(c) = Waiting(c)
         /\ c \in DOMAIN events =>
               /\ Len(Pipe(c)) = Len(Waiting(c)) + 1 /\ Pipe(c)[1] = events[c]
               /\ \A i \in 1 .. Len(Waiting(c)) : Pipe(c)[i + 1] = Waiting(c)[i]
  <1> SUFFICES ASSUME NEW n, n = Waiting(c), NEW p, p = Pipe(c)
               PROVE  /\ p \in Seq(Kinds)
                      /\ c \notin DOMAIN events => p = n
                      /\ c \in DOMAIN events =>
                            /\ Len(p) = Len(n) + 1 /\ p[1] = events[c]
                            /\ \A i \in 1 .. Len(n) : p[i + 1] = n[i]
    OBVIOUS
  <1>0. n \in Seq(Kinds)
    OBVIOUS
  <1>1. CASE c \notin DOMAIN events
    <2>1. p = <<>> \o n
      BY <1>1 DEF Pipe, Waiting
    <2>2. p = n
      BY <1>0, <2>1, ConcatEmptySeq
    <2> QED BY <1>0, <1>1, <2>2
  <1>2. CASE c \in DOMAIN events
    <2> SUFFICES ASSUME NEW a, a = <<events[c]>>
                 PROVE  /\ p \in Seq(Kinds) /\ Len(p) = Len(n) + 1 /\ p[1] = events[c]
                        /\ \A i \in 1 .. Len(n) : p[i + 1] = n[i]
      BY <1>2
    <2>1. a \in Seq(Kinds) /\ Len(a) = 1 /\ a[1] = events[c]
      BY <1>2
    <2>2. p = a \o n
      BY <1>2 DEF Pipe, Waiting
    <2>3. /\ p \in Seq(Kinds) /\ Len(p) = Len(a) + Len(n)
          /\ \A i \in 1 .. Len(a) + Len(n) : p[i] = IF i <= Len(a) THEN a[i] ELSE n[i - Len(a)]
      BY <1>0, <2>1, <2>2, ConcatProperties
    <2>4. Len(n) \in Nat
      BY <1>0
    <2>5. ASSUME NEW i \in 1 .. Len(n) PROVE p[i + 1] = n[i]
      <3>1. i + 1 \in 1 .. 1 + Len(n) /\ ~(i + 1 <= 1) /\ i + 1 - 1 = i
        BY <2>4
      <3> QED BY <2>1, <2>3, <3>1
    <2> QED BY <2>1, <2>3, <2>4, <2>5
  <1> QED BY <1>1, <1>2

\* Whatever packets come and get lost, down comes first and once to a contact, up
\* last and once, and an end is on its way as soon as the finger is gone
\* (TouchStatus::pushEvent, MultitouchInputDevice::pollEvents).
THEOREM TouchesInOrderAlways == TouchSpec => []TouchesInOrder
  <1>1. PipeInv => TouchesInOrder
    <2> SUFFICES ASSUME PipeInv, BetweenEvents, NEW c \in Cursors, NEW p, p = Pipe(c)
                 PROVE  /\ p # <<>> /\ c \notin DOMAIN m_ContactMap => p[1] = "CURSORDOWN"
                        /\ \A i \in DOMAIN p :
                              /\ p[i] = "CURSORDOWN" => i = 1 /\ c \notin DOMAIN m_ContactMap
                              /\ p[i] = "CURSORUP" => i = Len(p)
                        /\ c \in DOMAIN m_ContactMap \/ p # <<>> =>
                              ((\E i \in DOMAIN p : p[i] = "CURSORUP") <=> IsLifted(c))
      BY DEF TouchesInOrder
    <2> DEFINE known == c \in DOMAIN m_ContactMap
    <2>1. DeviceInv /\ EventInv /\ ContactInv /\ ~InHand
      BY DEF PipeInv, BetweenEvents, InHand
    <2>2. known <=> \/ c \in DOMAIN events /\ events[c] # "CURSORDOWN"
                    \/ c \in DOMAIN m_Touches \ DOMAIN events /\ ~m_Touches[c].first
      BY <2>1 DEF ContactInv, Begun
    <2>3. PICK n : n = Waiting(c)
      OBVIOUS
    <2>4. c \in DOMAIN m_Touches =>
             /\ m_Touches[c] \in Touch /\ n = m_Touches[c].new
             /\ Ended(m_Touches[c]) <=> IsLifted(c)
      BY <2>1, <2>3 DEF DeviceInv, IsMap, Waiting
    <2>5. c \in DOMAIN events =>
             /\ events[c] \in Kinds
             /\ IF events[c] = "CURSORUP" THEN c \notin DOMAIN m_Touches /\ IsLifted(c)
                ELSE c \in DOMAIN m_Touches /\ ~m_Touches[c].first
      BY <2>1 DEF EventInv, IsMap
    <2>6. /\ n \in Seq(Kinds) /\ Len(n) \in 0 .. 2
          /\ c \notin DOMAIN m_Touches => Len(n) = 0
      BY <2>3, <2>4, WaitingFacts DEF Waiting
    <2>7. /\ p \in Seq(Kinds)
          /\ c \notin DOMAIN events => p = n
          /\ c \in DOMAIN events => /\ Len(p) = Len(n) + 1 /\ p[1] = events[c]
                                    /\ \A i \in 1 .. Len(n) : p[i + 1] = n[i]
      BY <2>3, <2>5, <2>6, PipeFacts
    <2>8. DOMAIN p = 1 .. Len(p) /\ (p = <<>> <=> Len(p) = 0)
      BY <2>7, EmptySeq
    <2>9. CASE c \in DOMAIN events /\ c \notin DOMAIN m_Touches
      <3>1. Len(p) = 1 /\ p[1] = "CURSORUP" /\ known /\ IsLifted(c)
        BY <2>2, <2>5, <2>6, <2>7, <2>9
      <3> QED BY <2>8, <3>1
    <2>10. CASE c \in DOMAIN events /\ c \in DOMAIN m_Touches
      <3>1. /\ events[c] # "CURSORUP" /\ ~m_Touches[c].first
            /\ known <=> events[c] # "CURSORDOWN"
        BY <2>2, <2>5, <2>10
      <3>2. /\ Len(n) \in 0 .. 1 /\ (Len(n) = 1 => n[1] # "CURSORDOWN")
            /\ IsLifted(c) <=> Len(n) # 0 /\ n[Len(n)] = "CURSORUP"
        BY <2>4, <2>6, <2>10, <3>1, WaitingFacts
      <3>3. CASE Len(n) = 0
        <4>1. Len(p) = 1 /\ p[1] = events[c] /\ ~IsLifted(c)
          BY <2>7, <2>10, <3>2, <3>3
        <4> QED BY <2>8, <3>1, <4>1
      <3>4. CASE Len(n) = 1
        <4>1. /\ Len(p) = 2 /\ p[1] = events[c] /\ p[2] = n[1] /\ n[1] # "CURSORDOWN"
              /\ IsLifted(c) <=> n[1] = "CURSORUP"
          BY <2>7, <2>10, <3>2, <3>4
        <4>2. \A i \in DOMAIN p : i = 1 \/ i = 2
          BY <2>8, <4>1
        <4> QED BY <2>8, <3>1, <4>1, <4>2
      <3> QED BY <3>2, <3>3, <3>4
    <2>11. CASE c \notin DOMAIN events /\ c \in DOMAIN m_Touches
      <3>1. p = n /\ (known <=> ~m_Touches[c].first)
        BY <2>2, <2>7, <2>11
      <3>2. /\ m_Touches[c].first => /\ Len(p) # 0 /\ p[1] = "CURSORDOWN"
                                     /\ Len(p) = 2 => p[2] = "CURSORUP"
            /\ ~m_Touches[c].first => /\ Len(p) # 2
                                      /\ Len(p) = 1 => p[1] # "CURSORDOWN"
            /\ IsLifted(c) <=> Len(p) # 0 /\ p[Len(p)] = "CURSORUP"
        BY <2>4, <2>11, <3>1, WaitingFacts
      <3>3. \A i \in DOMAIN p : i = 1 \/ i = 2
        BY <2>6, <2>8, <3>1
      <3>4. CASE Len(p) = 0
        BY <2>8, <3>1, <3>2, <3>4
      <3>5. CASE Len(p) = 1
        <4>1. \A i \in DOMAIN p : i = 1
          BY <2>8, <3>5
        <4> QED BY <2>8, <3>1, <3>2, <3>5, <4>1
      <3>6. CASE Len(p) = 2
        <4>1. 1 \in DOMAIN p /\ 2 \in DOMAIN p
          BY <2>8, <3>6
        <4> QED BY <2>8, <3>1, <3>2, <3>3, <3>6, <4>1
      <3> QED BY <2>6, <3>1, <3>4, <3>5, <3>6
    <2>12. CASE c \notin DOMAIN events /\ c \notin DOMAIN m_Touches
      <3>1. Len(p) = 0 /\ ~known
        BY <2>2, <2>6, <2>7, <2>12
      <3> QED BY <2>8, <3>1
    <2> QED BY <2>9, <2>10, <2>11, <2>12
  <1> QED BY <1>1, PipeInit, PipeStep, PTL DEF TouchSpec

-----------------------------------------------------------------------------
(* The nodes that know a cursor over them. *)

LEMMA OverInit == TouchInit => OverInv
  <1> SUFFICES ASSUME TouchInit PROVE OverInv
    OBVIOUS
  <1>1. /\ m_pLastCursorStates = None /\ DOMAIN None = {} /\ \A S, R : IsMap(None, S, R)
    BY DEF TouchInit, None, IsMap
  <1>2. \A c : LastNodes(c) = {}
    BY <1>1 DEF LastNodes
  <1> QED BY <1>1, <1>2 DEF TouchInit, OverInv

\* CURSOROUT and CURSOROVER to the nodes in between.
LEMMA SendFacts ==
  ASSUME OverInv, NEW c \in Cursors, NEW nodes \in SUBSET Nodes, SendOver(c, nodes),
         over[c] = alive \cap LastNodes(c)
  PROVE  /\ over' \in [Cursors -> SUBSET Nodes]
         /\ over'[c] = alive \cap nodes
         /\ \A d \in Cursors : d # c => over'[d] = over[d]
  <1>1. over \in [Cursors -> SUBSET Nodes] /\ alive \subseteq Nodes
    BY DEF OverInv
  <1>2. over' = [over EXCEPT ![c] = (over[c] \ (LastNodes(c) \ nodes))
                                       \cup ((nodes \ LastNodes(c)) \cap alive)]
    BY DEF SendOver
  <1>3. over'[c] = (over[c] \ (LastNodes(c) \ nodes)) \cup ((nodes \ LastNodes(c)) \cap alive)
    BY <1>1, <1>2
  <1>4. over'[c] = alive \cap nodes
    BY <1>3
  <1> QED BY <1>1, <1>2, <1>4

LEMMA OverStep ==
  ASSUME EventInv, OverInv, [TouchNext]_touchVars
  PROVE  OverInv'
  <1>0. /\ m_pLastCursorStates \in [DOMAIN m_pLastCursorStates -> SUBSET Nodes]
        /\ DOMAIN m_pLastCursorStates \subseteq Cursors
        /\ over \in [Cursors -> SUBSET Nodes] /\ alive \subseteq Nodes /\ under \subseteq Nodes
        /\ fakes \subseteq DOMAIN m_pLastCursorStates /\ (mainPc # "fake" => fakes = {})
        /\ \A c \in Cursors :
              over[c] = alive \cap (IF mainPc = "deliver" /\ c = cursor THEN under
                                    ELSE LastNodes(c))
    BY DEF OverInv, IsMap
  <1>s. events' = events => cursor' = cursor
    BY SameEvent
  <1>l. m_pLastCursorStates' = m_pLastCursorStates => \A c : LastNodes(c)' = LastNodes(c)
    BY DEF LastNodes
  <1>1. CASE /\ UNCHANGED <<cursors, alive, under, fakes>>
             /\ \/ UNCHANGED <<events, mainPc>>
                \/ mainPc # "deliver" /\ mainPc' # "deliver"
             /\ mainPc' # "fake" => mainPc # "fake"
    BY <1>0, <1>1, <1>s, <1>l DEF OverInv, IsMap, cursors
  <1>2. CASE HandleEvent
    <2>1. /\ UNCHANGED <<cursors, alive, fakes>> /\ mainPc = "dispatch"
          /\ mainPc' \in {"over", "listen"} /\ under' \subseteq Nodes
      BY <1>0, <1>2 DEF HandleEvent
    <2> QED BY <1>0, <1>l, <2>1 DEF OverInv, IsMap, cursors
  <1>3. CASE SendOverEvents
    <2>1. /\ mainPc = "over" /\ mainPc' = "deliver" /\ SendOver(cursor, under)
          /\ UNCHANGED <<events, under, fakes, m_pLastCursorStates, alive>>
      BY <1>3 DEF SendOverEvents
    <2>2. cursor \in Cursors
      BY <2>1, CursorFacts DEF EventInv, InHand
    <2>3. over[cursor] = alive \cap LastNodes(cursor)
      BY <1>0, <2>1, <2>2
    <2>4. /\ over' \in [Cursors -> SUBSET Nodes] /\ over'[cursor] = alive \cap under
          /\ \A d \in Cursors : d # cursor => over'[d] = over[d]
      BY <1>0, <2>1, <2>2, <2>3, SendFacts
    <2> QED BY <1>0, <1>s, <1>l, <2>1, <2>4 DEF OverInv, IsMap
  <1>4. CASE EventDone
    <2>1. /\ mainPc = "deliver" /\ mainPc' = "dispatch" /\ under' = {}
          /\ UNCHANGED <<fakes, alive>>
      BY <1>4 DEF EventDone
    <2>2. cursor \in Cursors
      BY <2>1, CursorFacts DEF EventInv, InHand
    <2>3. over[cursor] = alive \cap under
      BY <1>0, <2>1, <2>2
    <2>4. CASE type = "CURSORUP"
      <3>1. /\ over' = [over EXCEPT ![cursor] = @ \ under]
            /\ m_pLastCursorStates' = Without(m_pLastCursorStates, cursor)
        BY <1>4, <2>4 DEF EventDone
      <3>2. /\ m_pLastCursorStates' \in [DOMAIN m_pLastCursorStates' -> SUBSET Nodes]
            /\ DOMAIN m_pLastCursorStates' \subseteq Cursors
        BY <1>0, <3>1 DEF Without
      <3>3. ASSUME NEW c \in Cursors
            PROVE  LastNodes(c)' = IF c = cursor THEN {} ELSE LastNodes(c)
        BY <3>1 DEF LastNodes, Without
      <3>4. over' \in [Cursors -> SUBSET Nodes]
            /\ \A c \in Cursors : over'[c] = IF c = cursor THEN {} ELSE over[c]
        BY <1>0, <2>2, <2>3, <3>1
      <3> QED BY <1>0, <2>1, <3>2, <3>3, <3>4 DEF OverInv, IsMap
    <2>5. CASE type # "CURSORUP"
      <3>1. over' = over /\ m_pLastCursorStates' = With(m_pLastCursorStates, cursor, under)
        BY <1>4, <2>5 DEF EventDone
      <3>2. /\ m_pLastCursorStates' \in [DOMAIN m_pLastCursorStates' -> SUBSET Nodes]
            /\ DOMAIN m_pLastCursorStates' \subseteq Cursors
        BY <1>0, <2>2, <3>1 DEF With
      <3>3. ASSUME NEW c \in Cursors
            PROVE  LastNodes(c)' = IF c = cursor THEN under ELSE LastNodes(c)
        BY <3>1 DEF LastNodes, With
      <3> QED BY <1>0, <2>1, <2>3, <3>1, <3>2, <3>3 DEF OverInv, IsMap
    <2> QED BY <2>4, <2>5
  <1>5. CASE FakeEventsBegin
    BY <1>0, <1>5, <1>l DEF FakeEventsBegin, OverInv, IsMap, cursors
  <1>6. CASE SendFakeEvent
    <2>1. PICK nodes \in SUBSET alive, c \in fakes :
             /\ SendOver(c, nodes) /\ fakes' = fakes \ {c}
             /\ m_pLastCursorStates' = [m_pLastCursorStates EXCEPT ![c] = nodes]
             /\ UNCHANGED <<mainPc, under, alive>> /\ mainPc = "fake"
      <3>1. fakes \subseteq Nat /\ fakes # {}
        BY <1>0, <1>6 DEF SendFakeEvent, Cursors
      <3>2. Min(fakes) \in fakes
        BY <3>1, LeastOfNumbers
      <3> QED BY <1>6, <3>2 DEF SendFakeEvent
    <2>2. c \in Cursors /\ c \in DOMAIN m_pLastCursorStates /\ nodes \in SUBSET Nodes
      BY <1>0, <2>1
    <2>3. over[c] = alive \cap LastNodes(c)
      BY <1>0, <2>1, <2>2
    <2>4. /\ over' \in [Cursors -> SUBSET Nodes] /\ over'[c] = alive \cap nodes
          /\ \A d \in Cursors : d # c => over'[d] = over[d]
      BY <2>1, <2>2, <2>3, SendFacts
    <2>5. /\ m_pLastCursorStates' \in [DOMAIN m_pLastCursorStates' -> SUBSET Nodes]
          /\ DOMAIN m_pLastCursorStates' = DOMAIN m_pLastCursorStates
      BY <1>0, <2>1, <2>2
    <2>6. \A d \in Cursors : LastNodes(d)' = IF d = c THEN nodes ELSE LastNodes(d)
      BY <1>0, <2>1, <2>2, <2>5 DEF LastNodes
    <2> QED BY <1>0, <2>1, <2>4, <2>5, <2>6 DEF OverInv, IsMap
  <1>7. CASE FrameDone
    BY <1>0, <1>7, <1>l DEF FrameDone, OverInv, IsMap, cursors
  <1>8. ASSUME NEW n \in Nodes, DeleteNode(n) PROVE OverInv'
    <2>1. /\ alive' = alive \ {n} /\ over' = [c \in Cursors |-> over[c] \ {n}]
          /\ UNCHANGED <<mainPc, events, under, fakes, m_pLastCursorStates>>
      BY <1>8 DEF DeleteNode
    <2>2. over' \in [Cursors -> SUBSET Nodes] /\ \A c \in Cursors : over'[c] = over[c] \ {n}
      BY <1>0, <2>1
    <2> QED BY <1>0, <1>s, <1>l, <2>1, <2>2 DEF OverInv, IsMap
  <1>9. CASE CallListener \/ ListenerReturns \/ ListenersDone
    BY <1>1, <1>9 DEF CallListener, ListenerReturns, ListenersDone
  <1>10. CASE PollEvents
    BY <1>1, <1>10 DEF PollEvents
  <1>11. CASE Packet
    BY <1>1, <1>11 DEF Packet, FingerDown, FingerMoves, ProcessAlive, MainUnchanged
  <1>12. ASSUME NEW c \in DOMAIN m_ContactMap,
                ConnectListener(c) \/ \E id \in connected[c] : DisconnectListener(c, id)
         PROVE  OverInv'
    BY <1>1, <1>12 DEF ConnectListener, DisconnectListener
  <1>13. CASE UNCHANGED touchVars
    BY <1>1, <1>13 DEF touchVars
  <1> QED BY <1>2, <1>3, <1>4, <1>5, <1>6, <1>7, <1>8, <1>9, <1>10, <1>11, <1>12, <1>13
          DEF TouchNext, Player, Packet

\* Between events the nodes that were told of a cursor over them are those of its
\* CursorState, for any nodes that move and disappear in handlers
\* (Player::handleCursorEvent, sendFakeEvents).
THEOREM PairedAlways == TouchSpec => []Paired
  <1>1. OverInv => Paired
    BY DEF OverInv, Paired, BetweenEvents
  <1>2. PipeInv => EventInv
    BY DEF PipeInv
  <1> QED BY <1>1, <1>2, PipeInit, PipeStep, OverInit, OverStep, PTL DEF TouchSpec

-----------------------------------------------------------------------------
(* The listeners of the contacts. *)

LEMMA ListenInit == TouchInit => ListenInv
  <1> SUFFICES ASSUME TouchInit PROVE ListenInv
    OBVIOUS
  <1>1. DOMAIN None = {} /\ \A R : None \in [{} -> R]
    BY DEF None
  <1> QED BY <1>1 DEF TouchInit, ListenInv

LEMMA ListenStep ==
  ASSUME EventInv, ContactInv, ListenInv, [TouchNext]_touchVars
  PROVE  ListenInv'
  <1>0. /\ s_LastListenerID \in Nat
        /\ m_ContactMap \in [DOMAIN m_ContactMap -> SUBSET (1 .. s_LastListenerID)]
        /\ connected \in [DOMAIN m_ContactMap -> SUBSET (1 .. s_LastListenerID)]
        /\ m_bCurListenerIsDead \in BOOLEAN
        /\ m_bCurListenerIsDead => mainPc = "callback"
        /\ mainPc = "callback" => m_CurListenerID \in m_ContactMap[cursor]
        /\ \A c, d \in DOMAIN m_ContactMap :
              c # d => m_ContactMap[c] \cap m_ContactMap[d] = {}
        /\ \A c \in DOMAIN m_ContactMap :
              connected[c] = IF m_bCurListenerIsDead /\ c = cursor
                             THEN m_ContactMap[c] \ {m_CurListenerID} ELSE m_ContactMap[c]
    BY DEF ListenInv
  <1>s. events' = events => cursor' = cursor
    BY SameEvent
  <1>h. InHand => cursor \in DOMAIN m_ContactMap
    BY CursorFacts DEF EventInv, ContactInv, Begun
  <1>1. CASE /\ UNCHANGED <<users, m_bCurListenerIsDead>>
             /\ \/ UNCHANGED <<events, mainPc, m_CurListenerID>>
                \/ mainPc # "callback" /\ mainPc' # "callback"
    BY <1>0, <1>1, <1>s DEF ListenInv, users
  <1>2. CASE HandleEvent
    <2>1. /\ mainPc = "dispatch" /\ mainPc' \in {"over", "listen"}
          /\ UNCHANGED <<s_LastListenerID, m_bCurListenerIsDead>> /\ ~m_bCurListenerIsDead
      BY <1>0, <1>2 DEF HandleEvent, listening
    <2>2. CASE type = "CURSORDOWN"
      <3>1. PICK d : /\ m_ContactMap' = With(m_ContactMap, d, {})
                     /\ connected' = With(connected, d, {})
        BY <1>2, <2>2 DEF HandleEvent
      <3>2. /\ DOMAIN m_ContactMap' = DOMAIN m_ContactMap \cup {d}
            /\ m_ContactMap' \in [DOMAIN m_ContactMap' -> SUBSET (1 .. s_LastListenerID)]
            /\ connected' \in [DOMAIN m_ContactMap' -> SUBSET (1 .. s_LastListenerID)]
            /\ \A c \in DOMAIN m_ContactMap' :
                  /\ m_ContactMap'[c] = IF c = d THEN {} ELSE m_ContactMap[c]
                  /\ connected'[c] = IF c = d THEN {} ELSE connected[c]
        BY <1>0, <3>1 DEF With
      <3> QED BY <1>0, <2>1, <3>2 DEF ListenInv
    <2>3. CASE type # "CURSORDOWN"
      <3>1. UNCHANGED <<m_ContactMap, connected>>
        BY <1>2, <2>3 DEF HandleEvent
      <3> QED BY <1>0, <2>1, <3>1 DEF ListenInv
    <2> QED BY <2>2, <2>3
  <1>3. CASE CallListener
    <2>1. /\ mainPc = "listen" /\ mainPc' = "callback" /\ UNCHANGED <<users, events>>
          /\ m_CurListenerID' = Min(Later) /\ ~m_bCurListenerIsDead' /\ ~m_bCurListenerIsDead
          /\ m_bCurListenerIsDead' \in BOOLEAN /\ Later # {}
      BY <1>0, <1>3 DEF CallListener
    <2>2. m_CurListenerID' \in m_ContactMap[cursor]
      <3>1. cursor \in DOMAIN m_ContactMap
        BY <1>h, <2>1 DEF InHand
      <3>2. Later \subseteq Nat /\ Later \subseteq m_ContactMap[cursor]
        BY <1>0, <3>1 DEF Later
      <3> QED BY <2>1, <3>2, LeastOfNumbers
    <2> QED BY <1>0, <1>s, <2>1, <2>2 DEF ListenInv, users
  <1>4. CASE ListenerReturns
    <2>1. /\ mainPc = "callback" /\ mainPc' = "listen"
          /\ UNCHANGED <<events, s_LastListenerID, connected, m_CurListenerID>>
          /\ m_bCurListenerIsDead' = FALSE
          /\ m_ContactMap' = [m_ContactMap EXCEPT ![cursor] =
                                 IF m_bCurListenerIsDead THEN @ \ {m_CurListenerID} ELSE @]
      BY <1>4 DEF ListenerReturns
    <2>2. cursor \in DOMAIN m_ContactMap
      BY <1>h, <2>1 DEF InHand
    <2>3. /\ DOMAIN m_ContactMap' = DOMAIN m_ContactMap
          /\ \A c \in DOMAIN m_ContactMap :
                /\ m_ContactMap'[c] \subseteq m_ContactMap[c]
                /\ m_ContactMap'[c] = IF m_bCurListenerIsDead /\ c = cursor
                                      THEN m_ContactMap[c] \ {m_CurListenerID}
                                      ELSE m_ContactMap[c]
      BY <1>0, <2>1, <2>2
    <2>4. m_ContactMap' \in [DOMAIN m_ContactMap -> SUBSET (1 .. s_LastListenerID)]
      BY <1>0, <2>1, <2>3
    <2>5. \A c \in DOMAIN m_ContactMap : connected'[c] = m_ContactMap'[c]
      BY <1>0, <2>1, <2>3
    <2>6. ASSUME NEW c \in DOMAIN m_ContactMap, NEW d \in DOMAIN m_ContactMap, c # d
          PROVE  m_ContactMap'[c] \cap m_ContactMap'[d] = {}
      <3>1. m_ContactMap[c] \cap m_ContactMap[d] = {}
        BY <1>0, <2>6
      <3> QED BY <2>3, <3>1
    <2>7. connected' \in [DOMAIN m_ContactMap' -> SUBSET (1 .. s_LastListenerID')]
      BY <1>0, <2>1, <2>3
    <2>8. m_bCurListenerIsDead' = FALSE /\ mainPc' # "callback" /\ s_LastListenerID' \in Nat
      BY <1>0, <2>1
    <2> QED BY <2>1, <2>3, <2>4, <2>5, <2>6, <2>7, <2>8 DEF ListenInv
  <1>5. CASE EventDone
    <2>1. /\ mainPc = "deliver" /\ mainPc' = "dispatch"
          /\ UNCHANGED <<s_LastListenerID, m_bCurListenerIsDead>> /\ ~m_bCurListenerIsDead
      BY <1>0, <1>5 DEF EventDone, listening
    <2>2. CASE type = "CURSORUP"
      <3>1. PICK d : /\ m_ContactMap' = Without(m_ContactMap, d)
                     /\ connected' = Without(connected, d)
        BY <1>5, <2>2 DEF EventDone
      <3>2. /\ DOMAIN m_ContactMap' = DOMAIN m_ContactMap \ {d}
            /\ m_ContactMap' \in [DOMAIN m_ContactMap' -> SUBSET (1 .. s_LastListenerID)]
            /\ connected' \in [DOMAIN m_ContactMap' -> SUBSET (1 .. s_LastListenerID)]
            /\ \A c \in DOMAIN m_ContactMap' : /\ m_ContactMap'[c] = m_ContactMap[c]
                                               /\ connected'[c] = connected[c]
        BY <1>0, <3>1 DEF Without
      <3> QED BY <1>0, <2>1, <3>2 DEF ListenInv
    <2>3. CASE type # "CURSORUP"
      <3>1. UNCHANGED <<m_ContactMap, connected>>
        BY <1>5, <2>3 DEF EventDone
      <3> QED BY <1>0, <2>1, <3>1 DEF ListenInv
    <2> QED BY <2>2, <2>3
  <1>6. ASSUME NEW c \in DOMAIN m_ContactMap, ConnectListener(c) PROVE ListenInv'
    <2> SUFFICES ASSUME NEW x, x = s_LastListenerID + 1 PROVE ListenInv'
      OBVIOUS
    <2>1. /\ s_LastListenerID' = x
          /\ m_ContactMap' = [m_ContactMap EXCEPT ![c] = @ \cup {x}]
          /\ connected' = [connected EXCEPT ![c] = @ \cup {x}]
          /\ UNCHANGED <<mainPc, events, m_CurListenerID, m_bCurListenerIsDead>>
      BY <1>6 DEF ConnectListener, listening
    <2>2. /\ x \in Nat /\ x \in 1 .. x /\ x \notin 1 .. s_LastListenerID
          /\ \A S \in SUBSET (1 .. s_LastListenerID) : S \subseteq 1 .. x /\ x \notin S
      BY <1>0
    <2>3. /\ DOMAIN m_ContactMap' = DOMAIN m_ContactMap
          /\ \A d \in DOMAIN m_ContactMap :
                /\ m_ContactMap'[d] = IF d = c THEN m_ContactMap[d] \cup {x} ELSE m_ContactMap[d]
                /\ connected'[d] = IF d = c THEN connected[d] \cup {x} ELSE connected[d]
                /\ m_ContactMap[d] \in SUBSET (1 .. s_LastListenerID)
                /\ connected[d] \in SUBSET (1 .. s_LastListenerID)
      BY <1>0, <2>1
    <2>4. /\ m_ContactMap' \in [DOMAIN m_ContactMap -> SUBSET (1 .. x)]
          /\ connected' \in [DOMAIN m_ContactMap -> SUBSET (1 .. x)]
      BY <1>0, <2>1, <2>2, <2>3
    <2>5. mainPc = "callback" =>
             /\ cursor \in DOMAIN m_ContactMap /\ m_CurListenerID \in m_ContactMap[cursor]
             /\ m_CurListenerID # x
      BY <1>0, <1>h, <2>2, <2>3 DEF InHand
    <2>6. ASSUME NEW d \in DOMAIN m_ContactMap, NEW e \in DOMAIN m_ContactMap, d # e
          PROVE  m_ContactMap'[d] \cap m_ContactMap'[e] = {}
      <3>1. m_ContactMap[d] \cap m_ContactMap[e] = {}
        BY <1>0, <2>6
      <3>2. x \notin m_ContactMap[d] /\ x \notin m_ContactMap[e]
        BY <2>2, <2>3
      <3>3. CASE d = c
        BY <2>3, <2>6, <3>1, <3>2, <3>3
      <3>4. CASE d # c
        BY <2>3, <2>6, <3>1, <3>2, <3>4
      <3> QED BY <3>3, <3>4
    <2>7. \A d \in DOMAIN m_ContactMap :
              connected'[d] = IF m_bCurListenerIsDead /\ d = cursor
                              THEN m_ContactMap'[d] \ {m_CurListenerID} ELSE m_ContactMap'[d]
      <3> SUFFICES ASSUME NEW d \in DOMAIN m_ContactMap
                   PROVE  connected'[d] = IF m_bCurListenerIsDead /\ d = cursor
                                          THEN m_ContactMap'[d] \ {m_CurListenerID}
                                          ELSE m_ContactMap'[d]
        OBVIOUS
      <3>1. connected[d] = IF m_bCurListenerIsDead /\ d = cursor
                           THEN m_ContactMap[d] \ {m_CurListenerID} ELSE m_ContactMap[d]
        BY <1>0
      <3>2. m_bCurListenerIsDead => m_CurListenerID # x
        BY <1>0, <2>5
      <3>3. CASE d = c
        BY <2>3, <3>1, <3>2, <3>3
      <3>4. CASE d # c
        BY <2>3, <3>1, <3>4
      <3> QED BY <3>3, <3>4
    <2>8. /\ s_LastListenerID' \in Nat /\ m_bCurListenerIsDead' \in BOOLEAN /\ cursor' = cursor
          /\ m_bCurListenerIsDead' => mainPc' = "callback"
          /\ mainPc' = "callback" => m_CurListenerID' \in m_ContactMap'[cursor']
      BY <1>0, <1>s, <2>1, <2>2, <2>3, <2>5
    <2> QED BY <2>1, <2>3, <2>4, <2>6, <2>7, <2>8 DEF ListenInv
  <1>7. ASSUME NEW c \in DOMAIN m_ContactMap, NEW id \in connected[c], DisconnectListener(c, id)
        PROVE  ListenInv'
    <2>1. /\ connected' = [connected EXCEPT ![c] = @ \ {id}]
          /\ UNCHANGED <<mainPc, events, m_CurListenerID, s_LastListenerID>>
      BY <1>7 DEF DisconnectListener
    <2>2. /\ connected' \in [DOMAIN m_ContactMap -> SUBSET (1 .. s_LastListenerID)]
          /\ \A d \in DOMAIN m_ContactMap :
                connected'[d] = IF d = c THEN connected[d] \ {id} ELSE connected[d]
      BY <1>0, <2>1
    <2>3. id \in m_ContactMap[c]
      BY <1>0
    <2>4. CASE mainPc = "callback" /\ m_CurListenerID = id
      <3>1. m_bCurListenerIsDead' = TRUE /\ UNCHANGED m_ContactMap
        BY <1>7, <2>4 DEF DisconnectListener
      <3>2. cursor \in DOMAIN m_ContactMap /\ id \in m_ContactMap[cursor]
        BY <1>0, <1>h, <2>4 DEF InHand
      <3>3. c = cursor
        BY <1>0, <2>3, <3>2
      <3>4. \A d \in DOMAIN m_ContactMap :
               connected'[d] = IF d = cursor THEN m_ContactMap[d] \ {id} ELSE m_ContactMap[d]
        <4> SUFFICES ASSUME NEW d \in DOMAIN m_ContactMap
                     PROVE  connected'[d] = IF d = cursor THEN m_ContactMap[d] \ {id}
                                            ELSE m_ContactMap[d]
          OBVIOUS
        <4>1. connected[d] = IF m_bCurListenerIsDead /\ d = cursor
                             THEN m_ContactMap[d] \ {id} ELSE m_ContactMap[d]
          BY <1>0, <2>4
        <4>2. CASE d = cursor
          BY <2>2, <3>3, <4>1, <4>2
        <4>3. CASE d # cursor
          BY <2>2, <3>3, <4>1, <4>3
        <4> QED BY <4>2, <4>3
      <3> QED BY <1>0, <1>s, <2>1, <2>2, <2>4, <3>1, <3>4 DEF ListenInv
    <2>5. CASE ~(mainPc = "callback" /\ m_CurListenerID = id)
      <3>1. /\ m_ContactMap' = [m_ContactMap EXCEPT ![c] = @ \ {id}]
            /\ UNCHANGED m_bCurListenerIsDead
        BY <1>7, <2>5 DEF DisconnectListener
      <3>2. /\ DOMAIN m_ContactMap' = DOMAIN m_ContactMap
            /\ m_ContactMap' \in [DOMAIN m_ContactMap -> SUBSET (1 .. s_LastListenerID)]
            /\ \A d \in DOMAIN m_ContactMap :
                  m_ContactMap'[d] = IF d = c THEN m_ContactMap[d] \ {id} ELSE m_ContactMap[d]
        BY <1>0, <3>1
      <3>3. mainPc = "callback" => m_CurListenerID \in m_ContactMap'[cursor]
        BY <1>0, <1>h, <2>5, <3>2 DEF InHand
      <3>4. \A d \in DOMAIN m_ContactMap :
               connected'[d] = IF m_bCurListenerIsDead /\ d = cursor
                               THEN m_ContactMap'[d] \ {m_CurListenerID} ELSE m_ContactMap'[d]
        <4> SUFFICES ASSUME NEW d \in DOMAIN m_ContactMap
                     PROVE  connected'[d] = IF m_bCurListenerIsDead /\ d = cursor
                                            THEN m_ContactMap'[d] \ {m_CurListenerID}
                                            ELSE m_ContactMap'[d]
          OBVIOUS
        <4>1. connected[d] = IF m_bCurListenerIsDead /\ d = cursor
                             THEN m_ContactMap[d] \ {m_CurListenerID} ELSE m_ContactMap[d]
          BY <1>0
        <4>2. CASE d = c
          BY <2>2, <3>2, <4>1, <4>2
        <4>3. CASE d # c
          BY <2>2, <3>2, <4>1, <4>3
        <4> QED BY <4>2, <4>3
      <3>5. \A d, e \in DOMAIN m_ContactMap :
               d # e => m_ContactMap'[d] \cap m_ContactMap'[e] = {}
        BY <1>0, <3>2
      <3>6. /\ s_LastListenerID' \in Nat /\ m_bCurListenerIsDead' \in BOOLEAN /\ cursor' = cursor
            /\ m_bCurListenerIsDead' => mainPc' = "callback"
        BY <1>0, <1>s, <2>1, <3>1
      <3> QED BY <2>1, <2>2, <3>1, <3>2, <3>3, <3>4, <3>5, <3>6 DEF ListenInv
    <2> QED BY <2>4, <2>5
  <1>8. CASE ListenersDone \/ SendOverEvents \/ FakeEventsBegin \/ SendFakeEvent \/ FrameDone
    BY <1>1, <1>8 DEF ListenersDone, SendOverEvents, FakeEventsBegin, SendFakeEvent, FrameDone,
                      listening
  <1>9. CASE PollEvents
    BY <1>1, <1>9 DEF PollEvents, listening
  <1>10. CASE Packet
    BY <1>1, <1>10 DEF Packet, FingerDown, FingerMoves, ProcessAlive, MainUnchanged, listening
  <1>11. ASSUME NEW n \in Nodes, DeleteNode(n) PROVE ListenInv'
    BY <1>1, <1>11 DEF DeleteNode, listening
  <1>12. CASE UNCHANGED touchVars
    BY <1>1, <1>12 DEF touchVars, listening
  <1> QED BY <1>2, <1>3, <1>4, <1>5, <1>6, <1>7, <1>8, <1>9, <1>10, <1>11, <1>12
          DEF TouchNext, Player, Packet

\* A listener is called only while it is connected, and all that are connected are
\* called, whatever listeners connect and disconnect in callbacks
\* (Contact::sendEventToListeners, disconnectListener).
THEOREM CallsConnectedAlways == TouchSpec => CallsConnected
  <1> DEFINE Inv == PipeInv /\ ListenInv
             Calls == /\ CallListener => m_CurListenerID' \in connected[cursor]
                      /\ SendOverEvents /\ type # "CURSORDOWN" =>
                            m_ContactMap[cursor] = connected[cursor]
  <1>1. TouchInit => Inv
    BY PipeInit, ListenInit
  <1>2. Inv /\ [TouchNext]_touchVars => Inv'
    BY PipeStep, ListenStep DEF PipeInv
  <1>3. Inv /\ [TouchNext]_touchVars => [Calls]_touchVars
    <2> SUFFICES ASSUME PipeInv, ListenInv PROVE Calls
      OBVIOUS
    <2>1. InHand => cursor \in DOMAIN m_ContactMap
      BY CursorFacts DEF PipeInv, EventInv, ContactInv, Begun
    <2>2. ASSUME mainPc \in {"listen", "over"}
          PROVE  cursor \in DOMAIN m_ContactMap /\ m_ContactMap[cursor] = connected[cursor]
      BY <2>1, <2>2 DEF InHand, ListenInv
    <2>3. ASSUME CallListener PROVE m_CurListenerID' \in connected[cursor]
      <3>1. /\ mainPc = "listen" /\ Later # {} /\ m_CurListenerID' = Min(Later)
        BY <2>3 DEF CallListener
      <3>2. Later \subseteq Nat /\ Later \subseteq connected[cursor]
        BY <2>2, <3>1 DEF Later, ListenInv
      <3> QED BY <3>1, <3>2, LeastOfNumbers
    <2>4. ASSUME SendOverEvents PROVE m_ContactMap[cursor] = connected[cursor]
      BY <2>2, <2>4 DEF SendOverEvents
    <2> QED BY <2>3, <2>4
  <1> QED BY <1>1, <1>2, <1>3, PTL DEF TouchSpec, CallsConnected
=============================================================================

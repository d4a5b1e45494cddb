------------------------------- MODULE Queue -------------------------------
(* avg::Queue (libavg base/Queue.h): a bounded deque behind one mutex, with  *)
(* ONE condition for "not empty" and "not full" alike, and notify_one.  An   *)
(* action is what a thread does between taking and giving back the mutex.    *)
(* One thread pushes, any number pop or peek: that is how VideoDecoderThread,*)
(* VideoDemuxerThread, BitmapManagerThread and the queues' readers use it.   *)
EXTENDS Naturals, Sequences, FiniteSets
CONSTANTS Writer,     \* the one thread that pushes
          Consumers,  \* the threads that pop or peek
          MaxSize,    \* m_MaxSize
          Elems       \* what is queued

\* The queue has at least as many places as threads read it (the smallest
\* queue of libavg has 8, read by at most two threads).
ASSUME CapacityAssumption ==
    /\ IsFiniteSet(Consumers) /\ Writer \notin Consumers
    /\ MaxSize \in Nat \ {0} /\ Cardinality(Consumers) <= MaxSize

Threads == Consumers \cup {Writer}
Reads == {"pop", "tryPop", "peek"}

VARIABLES m_pElements,  \* the deque
          call,         \* the call each thread is in, "none" outside
          waiting       \* the threads inside m_Cond.wait

queueVars == <<m_pElements, call, waiting>>

QueueTypeOK ==
    /\ m_pElements \in Seq(Elems) /\ Len(m_pElements) <= MaxSize
    /\ call \in [Threads -> Reads \cup {"none", "push"}]
    /\ \A c \in Consumers : call[c] # "push"
    /\ call[Writer] \in {"none", "push"}
    /\ waiting \in SUBSET {t \in Threads : call[t] \in {"push", "pop", "peek"}}

QueueInit ==
    /\ m_pElements = <<>>
    /\ call = [t \in Threads |-> "none"]
    /\ waiting = {}

\* A thread with a call under way that is awake: it holds the mutex next.
Ready(t) == call[t] # "none" /\ t \notin waiting

\* notify_one: some waiting thread is woken, or nobody when nobody waits.
NotifyOne == IF waiting = {} THEN UNCHANGED waiting
             ELSE \E t \in waiting : waiting' = waiting \ {t}

\* m_Cond.wait: the mutex is given back and the thread sleeps.
Wait(t) == waiting' = waiting \cup {t} /\ UNCHANGED <<m_pElements, call>>

Return(t) == call' = [call EXCEPT ![t] = "none"]

Call(t, op) ==
    /\ call[t] = "none"
    /\ op \in IF t = Writer THEN {"push"} ELSE Reads
    /\ call' = [call EXCEPT ![t] = op]
    /\ UNCHANGED <<m_pElements, waiting>>

Push ==
    /\ Ready(Writer) /\ Len(m_pElements) # MaxSize
    /\ \E e \in Elems : m_pElements' = Append(m_pElements, e)
    /\ NotifyOne
    /\ Return(Writer)

WaitNotFull == Ready(Writer) /\ Len(m_pElements) = MaxSize /\ Wait(Writer)

\* Mutant: pop tells nobody that there is room.
Pop_Silent(c) ==
    /\ Ready(c) /\ call[c] \in {"pop", "tryPop"} /\ m_pElements # <<>>
    /\ m_pElements' = Tail(m_pElements)
    /\ Return(c)
    /\ UNCHANGED waiting

Pop(c) ==
    /\ Ready(c) /\ call[c] \in {"pop", "tryPop"} /\ m_pElements # <<>>
    /\ m_pElements' = Tail(m_pElements)
    /\ NotifyOne
    /\ Return(c)

\* pop(false) of an empty queue returns a null pointer.
PopNothing(c) ==
    /\ Ready(c) /\ call[c] = "tryPop" /\ m_pElements = <<>>
    /\ Return(c)
    /\ UNCHANGED <<m_pElements, waiting>>

\* Mutant: peek keeps the wake-up it used up to itself.
Peek_Silent(c) ==
    /\ Ready(c) /\ call[c] = "peek" /\ m_pElements # <<>>
    /\ Return(c)
    /\ UNCHANGED <<m_pElements, waiting>>

\* peek wakes a thread as pop does: the wake-up that it used up is passed on.
Peek(c) ==
    /\ Ready(c) /\ call[c] = "peek" /\ m_pElements # <<>>
    /\ NotifyOne
    /\ Return(c)
    /\ UNCHANGED m_pElements

WaitNotEmpty(c) ==
    /\ Ready(c) /\ call[c] \in {"pop", "peek"} /\ m_pElements = <<>>
    /\ Wait(c)

Write == Push \/ WaitNotFull
Read(c) == Pop(c) \/ PopNothing(c) \/ Peek(c) \/ WaitNotEmpty(c)

QueueNext ==
    \/ \E t \in Threads, op \in Reads \cup {"push"} : Call(t, op)
    \/ Write
    \/ \E c \in Consumers : Read(c)

\* A thread that wants the mutex gets it: boost::mutex and the scheduler.
QueueSpec ==
    /\ QueueInit /\ [][QueueNext]_queueVars
    /\ WF_queueVars(Write) /\ \A c \in Consumers : WF_queueVars(Read(c))

----------------------------------------------------------------------------
(* Properties *)

SleepingReaders == waiting \cap Consumers
AwakeReaders == {c \in Consumers : Ready(c)}

\* No wake-up is lost although both kinds of waiters share one condition and
\* only one of them is woken: while a reader sleeps, every queued element has
\* an awake reader of its own on the way to it, and the writer sleeps only
\* while the queue is full.
NoLostWakeup ==
    /\ SleepingReaders # {} => Len(m_pElements) <= Cardinality(AwakeReaders)
    /\ Writer \in waiting => Len(m_pElements) = MaxSize

\* The queue with its mutex and condition behaves, to its threads, like one
\* whose blocking calls are atomic and fair.
Atomic == INSTANCE AtomicQueue WITH Producer <- Writer, elements <- m_pElements
AtomicSpec == Atomic!Spec
=============================================================================

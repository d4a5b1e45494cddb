----------------------------- MODULE PlayerQueue -----------------------------
(***************************************************************************)
(* XiboPlayer's command queue.  Any thread may enqueue a command for the   *)
(* player; the player's own thread runs them from a libavg frame handler,  *)
(* which is installed while there is something to do.                      *)
(*                                                                         *)
(* frameHandle runs one command and calls itself for the next, so that the *)
(* depth of its recursion is the number of commands run in one frame.      *)
(***************************************************************************)
EXTENDS Integers, Sequences, FiniteSets

CONSTANTS
    Producer,    \* threads other than the player's that enqueue commands
    Keys,        \* a producer that runs on the player's thread (keyDown)
    Count,       \* commands each of them enqueues
    Failing,     \* commands the player cannot run, for want of a node
    MaxDepth     \* how deep Python lets frameHandle recurse

Thread == Producer \cup {Keys}
Command == Thread \X (1 .. Count)       \* a thread's n-th command

ASSUME QueueAssumption ==
    /\ Keys \notin Producer
    /\ IsFiniteSet(Producer)
    /\ Count \in Nat
    /\ Failing \subseteq Command
    /\ MaxDepth \in Nat \ {0}

VARIABLES
    q,           \* the queue
    lock,        \* value of the semaphore __lock
    currentFH,   \* the frame handler the object believes is installed
    installed,   \* the frame handler that libavg has installed
    pc,          \* thread -> where its call of enqueue is
    sent,        \* thread -> commands enqueued so far
    fh,          \* where frameHandle is
    depth,       \* frameHandle calls on the player thread's stack
    ran          \* the commands run so far, in order

vars == <<q, lock, currentFH, installed, pc, sent, fh, depth, ran>>

Init ==
    /\ q = <<>>
    /\ lock = 0                    \* until run() has loaded the screen
    /\ currentFH = FALSE
    /\ installed = FALSE
    /\ pc = [t \in Thread |-> "idle"]
    /\ sent = [t \in Thread |-> 0]
    /\ fh = "loading"
    /\ depth = 0
    /\ ran = <<>>

-----------------------------------------------------------------------------
(* run() installs the handler and then lets the other threads in. *)
Play ==
    /\ fh = "loading"
    /\ currentFH' = TRUE
    /\ installed' = TRUE
    /\ lock' = lock + 1
    /\ fh' = "idle"
    /\ UNCHANGED <<q, pc, sent, depth, ran>>

-----------------------------------------------------------------------------
(* enqueue(command, data).                                                 *)

(* keyDown is called by the player between two frames. *)
MayEnqueue(t) == t = Keys => fh = "idle"

CanAcquire_Always == TRUE
CanAcquire == lock > 0

Acquire(t) ==
    /\ pc[t] = "idle"
    /\ sent[t] < Count
    /\ MayEnqueue(t)
    /\ CanAcquire
    /\ lock' = lock - 1
    /\ pc' = [pc EXCEPT ![t] = "put"]
    /\ UNCHANGED <<q, currentFH, installed, sent, fh, depth, ran>>

Put(t) ==
    /\ pc[t] = "put"
    /\ sent' = [sent EXCEPT ![t] = @ + 1]
    /\ q' = Append(q, <<t, sent[t] + 1>>)
    /\ pc' = [pc EXCEPT ![t] = "handler"]
    /\ UNCHANGED <<lock, currentFH, installed, fh, depth, ran>>

EnsureHandler_Never(t) == UNCHANGED <<currentFH, installed>>
EnsureHandler(t) ==
    IF currentFH
    THEN UNCHANGED <<currentFH, installed>>
    ELSE currentFH' = TRUE /\ installed' = TRUE

Handler(t) ==
    /\ pc[t] = "handler"
    /\ EnsureHandler(t)
    /\ pc' = [pc EXCEPT ![t] = "release"]
    /\ UNCHANGED <<q, lock, sent, fh, depth, ran>>

Release(t) ==
    /\ pc[t] = "release"
    /\ lock' = lock + 1
    /\ pc' = [pc EXCEPT ![t] = "idle"]
    /\ UNCHANGED <<q, currentFH, installed, sent, fh, depth, ran>>

-----------------------------------------------------------------------------
(* frameHandle().                                                          *)

(* libavg calls the handler for a frame, between two key events. *)
Frame ==
    /\ fh = "idle"
    /\ installed
    /\ pc[Keys] = "idle"
    /\ fh' = "acquire"
    /\ depth' = 1
    /\ UNCHANGED <<q, lock, currentFH, installed, pc, sent, ran>>

FrameAcquire ==
    /\ fh = "acquire"
    /\ CanAcquire
    /\ lock' = lock - 1
    /\ fh' = "get"
    /\ UNCHANGED <<q, currentFH, installed, pc, sent, depth, ran>>

(* A command that raises ends this frame's work; the queue stays as it is. *)
AfterFailure_Loses == <<>>
AfterFailure == Tail(q)

FrameRun ==
    /\ fh = "get"
    /\ q # <<>>
    /\ ran' = Append(ran, Head(q))
    /\ \/ /\ Head(q) \in Failing
          /\ q' = AfterFailure
          /\ fh' = "giveUp"
       \/ /\ Head(q) \notin Failing
          /\ q' = Tail(q)
          /\ fh' = "ran"
    /\ UNCHANGED <<lock, currentFH, installed, pc, sent, depth>>

(* The lock is released and frameHandle calls itself; when the stack is    *)
(* full, the call raises RuntimeError in this frameHandle.                 *)
FrameAgain ==
    /\ fh = "ran"
    /\ lock' = lock + 1
    /\ \/ /\ depth < MaxDepth
          /\ depth' = depth + 1
          /\ fh' = "acquire"
       \/ /\ depth = MaxDepth
          /\ fh' = "giveUp"
          /\ UNCHANGED depth
    /\ UNCHANGED <<q, currentFH, installed, pc, sent, ran>>

(* except RuntimeError, or anything else: the lock is released. *)
FrameFails ==
    /\ fh = "giveUp"
    /\ lock' = lock + 1
    /\ fh' = "idle"
    /\ depth' = 0
    /\ UNCHANGED <<q, currentFH, installed, pc, sent, ran>>

(* except Queue.Empty: the handler is removed, the lock released. *)
FrameEmpty ==
    /\ fh = "get"
    /\ q = <<>>
    /\ fh' = "clear"
    /\ UNCHANGED <<q, lock, currentFH, installed, pc, sent, depth, ran>>

FrameClear ==
    /\ fh = "clear"
    /\ currentFH' = FALSE
    /\ installed' = FALSE
    /\ fh' = "cleared"
    /\ UNCHANGED <<q, lock, pc, sent, depth, ran>>

FrameRelease ==
    /\ fh = "cleared"
    /\ lock' = lock + 1
    /\ fh' = "idle"
    /\ depth' = 0
    /\ UNCHANGED <<q, currentFH, installed, pc, sent, ran>>

-----------------------------------------------------------------------------

EnqueueStep(t) == Put(t) \/ Handler(t) \/ Release(t)

FrameStep ==
    \/ Play \/ Frame \/ FrameAcquire \/ FrameRun \/ FrameAgain \/ FrameFails
    \/ FrameEmpty \/ FrameClear \/ FrameRelease

Next == FrameStep \/ \E t \in Thread : Acquire(t) \/ EnqueueStep(t)

Spec == Init /\ [][Next]_vars

(* The player plays on, and a thread that entered enqueue runs on.         *)
FairSpec ==
    /\ Spec
    /\ WF_vars(FrameStep)
    /\ \A t \in Thread : WF_vars(EnqueueStep(t))

-----------------------------------------------------------------------------
(* Properties.                                                             *)

TypeOK ==
    /\ q \in Seq(Command)
    /\ lock \in Nat
    /\ currentFH \in BOOLEAN
    /\ installed \in BOOLEAN
    /\ pc \in [Thread -> {"idle", "put", "handler", "release"}]
    /\ sent \in [Thread -> 0 .. Count]
    /\ fh \in {"loading", "idle", "acquire", "get", "ran", "giveUp", "clear",
               "cleared"}
    /\ depth \in 0 .. MaxDepth
    /\ ran \in Seq(Command)

(* Where frameHandle, or run() before it, holds the lock. *)
FrameInside == fh \in {"loading", "get", "ran", "giveUp", "clear", "cleared"}

(* One thread at a time is between acquire() and release(): the queue is   *)
(* never tested by one and emptied by another.                             *)
Exclusive ==
    /\ \A t1, t2 \in Thread : pc[t1] # "idle" /\ pc[t2] # "idle" => t1 = t2
    /\ FrameInside => \A t \in Thread : pc[t] = "idle"

(* A command is never left in the queue with no frame handler to run it:   *)
(* when nobody holds the lock, there is a handler or the queue is empty.   *)
NoneStranded ==
    (~FrameInside /\ \A t \in Thread : pc[t] = "idle") => installed \/ q = <<>>

(* What has run, followed by what is still queued. *)
Known == ran \o q

(* Nothing is lost, repeated or overtaken: every command a thread has sent *)
(* has run or is queued, once, and after those it sent before.             *)
InOrder ==
    /\ \A i \in 1 .. Len(Known) : Known[i][2] <= sent[Known[i][1]]
    /\ \A i, j \in 1 .. Len(Known) :
           i < j /\ Known[i][1] = Known[j][1] => Known[i][2] < Known[j][2]
    /\ \A t \in Thread : \A n \in 1 .. sent[t] :
           \E i \in 1 .. Len(Known) : Known[i] = <<t, n>>

(* No frame's backlog has filled Python's stack. *)
Shallow == depth < MaxDepth

(* Every command sent is run in the end ("Takes queued commands and        *)
(* executes them").                                                        *)
AllRun == \A c \in Command :
              (sent[c[1]] >= c[2]) ~> (\E i \in 1 .. Len(ran) : ran[i] = c)

=============================================================================

---------------------------- MODULE AtomicQueue ----------------------------
(* What a bounded queue promises to the threads that share it: a blocking    *)
(* call is one atomic step, taken at some moment when the queue allows it,   *)
(* and a thread whose call stays possible is served.  The modules of the     *)
(* worker threads use queues this way; Queue shows that avg::Queue keeps the *)
(* promise.                                                                  *)
EXTENDS Naturals, Sequences
CONSTANTS Producer, Consumers, MaxSize, Elems

VARIABLES elements,  \* the content of the queue, the oldest first
          call       \* the call each thread is in

vars == <<elements, call>>

Init == /\ elements = <<>>
        /\ call = [t \in Consumers \cup {Producer} |-> "none"]

Call(t, op) == /\ call[t] = "none"
               /\ op \in IF t = Producer THEN {"push"} ELSE {"pop", "tryPop", "peek"}
               /\ call' = [call EXCEPT ![t] = op]
               /\ UNCHANGED elements

Return(t) == call' = [call EXCEPT ![t] = "none"]

Push == /\ call[Producer] = "push" /\ Len(elements) < MaxSize
        /\ \E e \in Elems : elements' = Append(elements, e)
        /\ Return(Producer)

Pop(c) == /\ call[c] \in {"pop", "tryPop"} /\ elements # <<>>
          /\ elements' = Tail(elements)
          /\ Return(c)

PopNothing(c) == /\ call[c] = "tryPop" /\ elements = <<>>
                 /\ UNCHANGED elements
                 /\ Return(c)

Peek(c) == /\ call[c] = "peek" /\ elements # <<>>
           /\ UNCHANGED elements
           /\ Return(c)

Take(c) == Pop(c) \/ PopNothing(c) \/ Peek(c)

Next == \/ \E t \in Consumers \cup {Producer}, op \in {"push", "pop", "tryPop", "peek"} : Call(t, op)
        \/ Push
        \/ \E c \in Consumers : Take(c)

Safe == Init /\ [][Next]_vars

Spec == Safe /\ WF_vars(Push) /\ \A c \in Consumers : WF_vars(Take(c))
=============================================================================

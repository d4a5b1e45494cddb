---------------------------- MODULE PacketSource ----------------------------
(* What a demuxer promises to the threads that decode a file: each stream is *)
(* handed out packet by packet, without gap or repetition, up to an end      *)
(* marker, and a seek makes every stream go on from the new position.  Only  *)
(* a read that a seek of another thread overtakes may still get a packet of  *)
(* the old position, or fail.                                                *)
EXTENDS Sequences
CONSTANTS Streams, Positions, Packets, From(_, _)   \* From(s, d): stream s from position d on

VARIABLES rest,        \* what is left of each stream
          got,         \* the packet each stream's reader got last
          overlapped,  \* the readers that a seek has overtaken
          failed,      \* a read has failed for good
          closed       \* the source has been deleted

vars == <<rest, got, overlapped, failed, closed>>

Init == /\ rest = [s \in Streams |-> From(s, 1)]
        /\ got \in [Streams -> {0}]
        /\ overlapped = {}
        /\ failed = FALSE /\ closed = FALSE

Deliver(s) == /\ rest[s] # <<>>
              /\ got' = [got EXCEPT ![s] = Head(rest[s])]
              /\ rest' = [rest EXCEPT ![s] = Tail(rest[s])]
              /\ overlapped' = overlapped \ {s}
              /\ UNCHANGED <<failed, closed>>

DeliverOld(s) == /\ s \in overlapped
                 /\ \E p \in Packets : got' = [got EXCEPT ![s] = p]
                 /\ overlapped' = overlapped \ {s}
                 /\ UNCHANGED <<rest, failed, closed>>

Fail(s) == s \in overlapped /\ failed' = TRUE /\ UNCHANGED <<rest, got, overlapped, closed>>

\* The seeking thread reads a stream itself: its own reads are never overtaken.
Seek == \E d \in Positions, readers \in SUBSET Streams :
            /\ readers # Streams
            /\ rest' = [s \in Streams |-> From(s, d)]
            /\ overlapped' = overlapped \cup readers
            /\ UNCHANGED <<got, failed, closed>>

Close == /\ closed' = TRUE
         /\ rest' = [s \in Streams |-> <<>>]
         /\ UNCHANGED <<got, overlapped, failed>>

Next == Close \/ Seek \/ \E s \in Streams : Deliver(s) \/ DeliverOld(s) \/ Fail(s)

Spec == Init /\ [][~failed /\ ~closed /\ Next]_vars
=============================================================================

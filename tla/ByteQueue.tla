----------------------------- MODULE ByteQueue -----------------------------
(***************************************************************************)
(* What a connection's outbound reply path promises: the bytes a handler   *)
(* queues for a client are delivered on the socket in the order they were *)
(* queued, each exactly once, in as many pieces as the socket accepts.     *)
(* A new reply is begun only once the previous one is fully delivered,    *)
(* at which point the client has consumed what was on the wire.           *)
(***************************************************************************)
EXTENDS Sequences, SequencesExt

VARIABLES
    queue,  \* bytes queued for the client and not yet sent
    wire    \* bytes of the current reply already sent on the socket

vars == <<queue, wire>>

Init == queue = <<>> /\ wire = <<>>

(* A handler queues some more bytes (any non-empty sequence). *)
Add == /\ IsStrictPrefix(queue, queue')
       /\ UNCHANGED wire

(* The socket accepts the first n queued bytes. *)
Send == \E n \in 1..Len(queue) :
          /\ wire' = wire \o SubSeq(queue, 1, n)
          /\ queue' = SubSeq(queue, n + 1, Len(queue))

(* The next command's reply starts once nothing of the last one is left. *)
NewReply == /\ queue = <<>>
            /\ queue' = <<>>
            /\ wire' = <<>>

Next == Add \/ Send \/ NewReply

Spec == Init /\ [][Next]_vars

=============================================================================

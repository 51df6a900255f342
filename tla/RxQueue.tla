------------------------------- MODULE RxQueue -------------------------------
(***************************************************************************)
(* What the receive ring of rust/transport.rs promises, without slots: a   *)
(* bounded queue of datagrams.  What is queued reaches the session whole,  *)
(* once, and in order; only an arrival is ever lost, and only where the    *)
(* queue is still full after a drain, or where no slot could hold it.      *)
(***************************************************************************)
EXTENDS Naturals, Sequences

CONSTANTS
    Datagrams,  \* what may arrive
    Capacity    \* how many may wait

VARIABLES
    queue,      \* waiting, oldest first
    taken,      \* what the running session was given, in order
    lost        \* arrivals given up

Init == queue = <<>> /\ taken = <<>> /\ lost = 0

Drop(n, q) == SubSeq(q, n + 1, Len(q))

(* The session takes the oldest n. *)
Take(n) == taken' = taken \o SubSeq(queue, 1, n)

(* A pump; also what an arrival that is used at once leads to, where it found the queue full. *)
Drain == \E n \in 0..Len(queue) : Take(n) /\ queue' = Drop(n, queue) /\ UNCHANGED lost

(* A media datagram is queued, after a drain if the queue was full. *)
Arrive(d) ==
    \E n \in 0..Len(queue) :
        /\ n > 0 => Len(queue) = Capacity
        /\ Len(queue) - n < Capacity
        /\ Take(n) /\ queue' = Append(Drop(n, queue), d) /\ UNCHANGED lost

(* One is given up: too long for a slot, or no drain made room. *)
Lose ==
    \E n \in 0..Len(queue) :
        /\ n > 0 => Len(queue) = Capacity
        /\ Take(n) /\ queue' = Drop(n, queue) /\ lost' = lost + 1

(* A session begins with nothing taken, and ends with nothing waiting. *)
Begin == taken' = <<>> /\ UNCHANGED <<queue, lost>>
Clear == queue' = <<>> /\ UNCHANGED <<taken, lost>>

Next == Drain \/ (\E d \in Datagrams : Arrive(d)) \/ Lose \/ Begin \/ Clear

Spec == Init /\ [][Next]_<<queue, taken, lost>>

=============================================================================

------------------------------- MODULE RxRing -------------------------------
(***************************************************************************)
(* The datagram path of packages/stream: the carrier's reader hands each   *)
(* datagram to carrier/feed.ts, which claims a slot of the ring in wasm    *)
(* memory (rust/transport.rs), writes it there and commits it; the session *)
(* pump (rust/session.rs) drains the ring.  All of it runs on one thread,  *)
(* so a call is one action; what may come in any order is datagrams, the   *)
(* task that pumps a burst, animation frames and the engine's resets and   *)
(* dials.                                                                  *)
(***************************************************************************)
EXTENDS Naturals, Sequences

CONSTANTS
    Slots,          \* RING_SLOTS
    MaxDatagrams,   \* bound: datagrams that arrive
    MaxConns        \* bound: connections dialled

ASSUME RingAssumption ==
    Slots \in Nat \ {0, 1} /\ MaxDatagrams \in Nat /\ MaxConns \in Nat

VARIABLES
    head, tail,     \* next slot JavaScript fills, next slot the pump reads
    buf,            \* what each slot holds
    dropped,        \* datagrams given up
    phase,          \* the session's
    queued,         \* the task that pumps this burst is posted
    conn, up,       \* the carrier's connection, counted; it is open
    greeted,        \* the connection that carried the last Hello: its host may send
    arrived,        \* history: datagrams so far
    taken           \* history: what the session was given

ring == <<head, tail, buf, dropped>>
line == <<conn, up, greeted>>
ringVars == <<ring, phase, queued, line, arrived, taken>>

Datagrams == [conn : 1..MaxConns, id : 1..MaxDatagrams]
NoDatagram == [conn |-> 0, id |-> 0]      \* a slot's zeroes

RingInit ==
    /\ head = 0 /\ tail = 0 /\ buf = [s \in 0..Slots - 1 |-> NoDatagram] /\ dropped = 0
    /\ phase = "Idle" /\ queued = FALSE /\ conn = 0 /\ up = FALSE
    /\ greeted = 0 /\ arrived = 0 /\ taken = <<>>

(***************************************************************************)
(* The ring.                                                               *)
(***************************************************************************)
AfterUnwrapped(slot, n) == slot + n   \* mutant
After(slot, n) == (slot + n) % Slots
Waiting == IF head >= tail THEN head - tail ELSE head + Slots - tail
Held(n) == [i \in 1..n |-> buf[After(tail, i - 1)]]   \* the oldest n, as pop reads them

IsFull(from) == After(head, 1) = from   \* one slot stays empty, so that full is not empty

(* pf_session_pump: a live session takes datagrams until the ring is empty, or until a batch of
   units or an empty one ends the call; each unit took one or more. *)
Pumps(n) == IF phase = "Live" /\ Waiting > 0 THEN n > 0 ELSE n = 0

Pop(n) == tail' = After(tail, n) /\ taken' = taken \o Held(n)

(* Feed.datagram: claim a slot, draining the ring once if there is none, then write and commit.
   Media moves head on; audio, host events and what this page does not read leave the slot to
   the next datagram. *)
DrainsNever(n) == n = 0   \* mutant
Drains(n) == IF IsFull(tail) THEN Pumps(n) ELSE n = 0

Datagram(kind) ==
    /\ up /\ greeted = conn /\ arrived < MaxDatagrams
    /\ \E n \in 0..Waiting : Drains(n) /\ Pop(n)
    /\ IF IsFull(tail') \/ kind = "long"
       THEN dropped' = dropped + 1 /\ UNCHANGED <<head, buf>>   \* pf_rx_lost
       ELSE /\ buf' = [buf EXCEPT ![head] = [conn |-> conn, id |-> arrived + 1]]
            /\ head' = IF kind = "media" THEN After(head, 1) ELSE head
            /\ UNCHANGED dropped
    /\ arrived' = arrived + 1 /\ queued' = TRUE
    /\ UNCHANGED <<phase, line>>

SessionPumped == (\E n \in 0..Waiting : Pumps(n) /\ Pop(n)) /\ UNCHANGED <<head, buf, dropped>>

(* The task posted with a burst. *)
BurstTask ==
    queued /\ queued' = FALSE /\ SessionPumped /\ UNCHANGED <<phase, line, arrived>>

(* engine.ts, frame(): every animation frame pumps too. *)
FrameAfterBurst == queued /\ SessionPumped /\ UNCHANGED <<phase, queued, line, arrived>>   \* mutant
SessionFrame == SessionPumped /\ UNCHANGED <<phase, queued, line, arrived>>

(***************************************************************************)
(* The session and the carrier, as engine.ts drives them.                  *)
(***************************************************************************)

ResetToSlotZero == tail' = 0 /\ UNCHANGED <<head, buf, dropped>>   \* mutant
RingReset == tail' = head /\ UNCHANGED <<head, buf, dropped>>

(* pf_session_reset, and pf_wt_close with it where the caller lets the host go: a connect and a
   restart do not. *)
SessionReset(closes) ==
    /\ RingReset /\ phase' = "Idle" /\ up' = (up /\ ~closes)
    /\ UNCHANGED <<queued, conn, greeted, arrived, taken>>

(* openCarrier: the carrier before this one is closed first. *)
Dial ==
    /\ phase = "Idle" /\ conn < MaxConns /\ conn' = conn + 1 /\ up' = TRUE
    /\ UNCHANGED <<ring, phase, queued, greeted, arrived, taken>>

CarrierCloses ==
    up /\ up' = FALSE /\ UNCHANGED <<ring, phase, queued, conn, greeted, arrived, taken>>

Hello ==
    /\ up /\ phase = "Idle" /\ phase' = "Offered" /\ greeted' = conn
    /\ UNCHANGED <<ring, queued, conn, up, arrived, taken>>

(* The ServerHello. *)
Accept ==
    /\ up /\ phase = "Offered" /\ phase' = "Live" /\ taken' = <<>>
    /\ UNCHANGED <<ring, queued, line, arrived>>

RingNext ==
    \/ \E kind \in {"media", "side", "long"} : Datagram(kind)
    \/ BurstTask \/ SessionFrame
    \/ \E closes \in BOOLEAN : SessionReset(closes)
    \/ Dial \/ CarrierCloses \/ Hello \/ Accept

RingSpec == RingInit /\ [][RingNext]_ringVars

(* The browser runs the frames of a page that shows a stream. *)
RingFair == WF_ringVars(SessionFrame)
RingFairSpec == RingSpec /\ RingFair

(***************************************************************************)
(* Correctness.                                                            *)
(***************************************************************************)

(* Every variable holds what the code's types allow; head and tail are slots. *)
RingTypeOK ==
    /\ head \in 0..Slots - 1 /\ tail \in 0..Slots - 1
    /\ buf \in [0..Slots - 1 -> Datagrams \cup {NoDatagram}]
    /\ dropped \in Nat /\ dropped <= arrived
    /\ phase \in {"Idle", "Offered", "Live"} /\ queued \in BOOLEAN /\ up \in BOOLEAN
    /\ conn \in 0..MaxConns /\ greeted \in 0..conn /\ arrived \in 0..MaxDatagrams
    /\ taken \in Seq(Datagrams)

(* The ring is a bounded queue of Slots - 1: a slot is never written while its datagram waits,
   and resets and wrapping neither lose, repeat nor reorder what waits. *)
Queue == INSTANCE RxQueue WITH
    Capacity <- Slots - 1, queue <- Held(Waiting), lost <- dropped
IsAQueue == Queue!Spec

(* "Only a datagram given up here is a drop", which the bitrate driver reads as the link's loss:
   a session that takes what comes is never charged one for a burst that outran its pump. *)
LiveDropsNothing ==
    [][phase = "Live" /\ (\E kind \in {"media", "side"} : Datagram(kind))
         => dropped' = dropped]_ringVars

(* What waits when a session goes live, or after a full batch, is taken without another datagram
   to wake the pump. *)
WaitingIsTaken == (phase = "Live" /\ Waiting > 0) ~> (phase # "Live" \/ Waiting = 0)

=============================================================================

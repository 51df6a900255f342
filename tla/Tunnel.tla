------------------------------- MODULE Tunnel -------------------------------
(***************************************************************************)
(* Management calls over the browser plane (packages/stream/src/tunnel.ts):*)
(* a fetch takes one of the slots of a session, dials the session if there *)
(* is none, opens a stream of it, and reads the head of the reply.         *)
(*                                                                         *)
(* An abort is heeded only before the slot: the reader that has locked the *)
(* stream keeps `cancel` from it, so an abort later changes nothing here.  *)
(***************************************************************************)
EXTENDS Integers, Sequences, FiniteSets, SequencesExt

CONSTANTS
    Fetches,        \* calls, each made once
    MAX_IN_FLIGHT,  \* slots: 16
    MaxSessions     \* bound: sessions dialled

ASSUME TunnelAssumption ==
    IsFiniteSet(Fetches) /\ MAX_IN_FLIGHT \in Nat \ {0} /\ MaxSessions \in Nat \ {0}

VARIABLES
    calls,          \* where each fetch is, and the session it is on
    inFlight,       \* Tunnel.inFlight
    queue,          \* Tunnel.waiting
    sessions,       \* each session: none, opening, closing (close() came first), open, gone
    session         \* Tunnel.session, 0 is null

tunnelVars == <<calls, inFlight, queue, sessions, session>>

TunnelInit ==
    /\ calls = [c \in Fetches |-> [at |-> "new", on |-> 0]]
    /\ inFlight = 0 /\ queue = <<>>
    /\ sessions = [s \in 1..MaxSessions |-> "none"] /\ session = 0

CallAt(c, at) == calls[c].at = at
Holding == {c \in Fetches : calls[c].at \in {"slotted", "dials", "reads"}}

Fetch(c) ==
    /\ CallAt(c, "new")
    /\ IF inFlight < MAX_IN_FLIGHT
       THEN inFlight' = inFlight + 1 /\ calls' = [calls EXCEPT ![c].at = "slotted"] /\ UNCHANGED queue
       ELSE queue' = Append(queue, c) /\ calls' = [calls EXCEPT ![c].at = "waits"] /\ UNCHANGED inFlight
    /\ UNCHANGED <<sessions, session>>
FetchAborted(c) ==
    /\ CallAt(c, "new") /\ calls' = [calls EXCEPT ![c].at = "over"]
    /\ UNCHANGED <<inFlight, queue, sessions, session>>

(* connect(): the live session, or a fresh one. *)
Connect(c) ==
    /\ CallAt(c, "slotted")
    /\ IF session # 0 THEN UNCHANGED <<sessions, session>>
       ELSE \E s \in DOMAIN sessions :
            /\ sessions[s] = "none" /\ \A t \in 1..s - 1 : sessions[t] # "none"
            /\ sessions' = [sessions EXCEPT ![s] = "opening"] /\ session' = s
    /\ calls' = [calls EXCEPT ![c] = [at |-> "dials", on |-> session']]
    /\ UNCHANGED <<inFlight, queue>>

(* The stream is made, and the request goes out while the reply is read. *)
StreamMade(c) ==
    /\ CallAt(c, "dials") /\ sessions[calls[c].on] = "open"
    /\ calls' = [calls EXCEPT ![c].at = "reads"]
    /\ UNCHANGED <<inFlight, queue, sessions, session>>

ReleaseBoth(c) ==   \* mutant: the slot is given on and given back
    /\ calls' = [k \in Fetches |-> IF k = c THEN [at |-> "over", on |-> 0]
                                   ELSE IF queue # <<>> /\ k = Head(queue) THEN [at |-> "slotted", on |-> 0]
                                   ELSE calls[k]]
    /\ queue' = IF queue = <<>> THEN queue ELSE Tail(queue)
    /\ inFlight' = inFlight - 1
(* The call ends.  release(): the slot goes to the call that waits longest. *)
Release(c) ==
    /\ calls' = [k \in Fetches |-> IF k = c THEN [at |-> "over", on |-> 0]
                                   ELSE IF queue # <<>> /\ k = Head(queue) THEN [at |-> "slotted", on |-> 0]
                                   ELSE calls[k]]
    /\ IF queue = <<>> THEN inFlight' = inFlight - 1 /\ UNCHANGED queue
       ELSE queue' = Tail(queue) /\ UNCHANGED inFlight

(* The head of the reply, or a stream that ended short of one. *)
ReplyRead(c) == CallAt(c, "reads") /\ Release(c) /\ UNCHANGED <<sessions, session>>
FetchFailed(c) ==
    /\ calls[c].at \in {"dials", "reads"} /\ sessions[calls[c].on] = "gone"
    /\ Release(c) /\ UNCHANGED <<sessions, session>>

(***************************************************************************)
(* The session.  The last one of the bound stays.                          *)
(***************************************************************************)
Opened(s) ==
    /\ sessions[s] \in {"opening", "closing"}
    /\ sessions' = [sessions EXCEPT ![s] = IF @ = "opening" THEN "open" ELSE "gone"]
    /\ UNCHANGED <<calls, inFlight, queue, session>>
(* The dial fails, or the host closes it: after a minute idle, or on a restart. *)
SessionGone(s) ==
    /\ s < MaxSessions /\ sessions[s] \in {"opening", "closing", "open"}
    /\ sessions' = [sessions EXCEPT ![s] = "gone"]
    /\ UNCHANGED <<calls, inFlight, queue, session>>
(* A later turn of the same session: forgotten, if it is still the one. *)
Forgets(s) ==
    /\ sessions[s] = "gone" /\ session = s /\ session' = 0
    /\ UNCHANGED <<calls, inFlight, queue, sessions>>
CloseTunnel ==
    /\ session \in 1..MaxSessions - 1
    /\ sessions' = [sessions EXCEPT ![session] = IF @ = "opening" THEN "closing" ELSE "gone"]
    /\ session' = 0 /\ UNCHANGED <<calls, inFlight, queue>>

TunnelNext ==
    \/ \E c \in Fetches :
        Fetch(c) \/ FetchAborted(c) \/ Connect(c) \/ StreamMade(c) \/ ReplyRead(c) \/ FetchFailed(c)
    \/ \E s \in 1..MaxSessions : Opened(s) \/ SessionGone(s) \/ Forgets(s)
    \/ CloseTunnel

TunnelSpec == TunnelInit /\ [][TunnelNext]_tunnelVars

(***************************************************************************)
(* Correctness.                                                            *)
(***************************************************************************)
TunnelTypeOK ==
    /\ inFlight \in 0..MAX_IN_FLIGHT /\ session \in 0..MaxSessions
    /\ queue \in Seq(Fetches) /\ \A c \in Fetches : calls[c].on \in 0..MaxSessions

(* No slot is lost or given twice, a call waits only for slots that calls hold, and no session is
   left open that the tunnel has let go of: the next call would dial a second (slot, release,
   connect, close). *)
NothingLeaks ==
    /\ inFlight = Cardinality(Holding)
    /\ ToSet(queue) = {c \in Fetches : CallAt(c, "waits")} /\ (queue # <<>> => inFlight = MAX_IN_FLIGHT)
    /\ \A s \in 1..MaxSessions : sessions[s] \in {"opening", "open"} => session = s
=============================================================================

------------------------------- MODULE Lanes -------------------------------
(***************************************************************************)
(* The pools of lanes.rs, and the life of a bridge session of bridge.rs    *)
(* (open, admission, session), which takes a place in one of them and      *)
(* gives it back.  Sessions run concurrently; an action is what one does   *)
(* between two awaits, or while it holds a lock.                           *)
(***************************************************************************)
EXTENDS Integers, FiniteSets

CONSTANTS
    Addresses,    \* visitors' addresses, one per subscriber, and the unknown one
    Sessions,     \* bridge sessions
    PAIRED, PAIRING, PAIRING_LIFE,   \* as in lanes.rs, the life in ticks
    Starts        \* pairing sessions an hour

ASSUME LanesAssumption ==
    /\ {PAIRED, PAIRING, PAIRING_LIFE, Starts} \subseteq Nat \ {0}
    /\ IsFiniteSet(Sessions)

VARIABLES
    starts,      \* the pairing pool's hourly tokens
    pools,       \* free permits of each pool, and the addresses of pairing_at
    sessions     \* bridge sessions

lanesVars == <<starts, pools, sessions>>

NoSession == [phase |-> "none", pool |-> "none", life |-> 0, who |-> "none"]
FreePools == [paired |-> PAIRED, pairing |-> PAIRING, at |-> {}]

LanesInit ==
    /\ starts = Starts /\ pools = FreePools
    /\ sessions = [s \in Sessions |-> NoSession]

(***************************************************************************)
(* Bridge sessions: bridge.rs.                                             *)
(***************************************************************************)
InPhase(s, phase) == sessions[s].phase = phase
Moves(s, r) == sessions' = [sessions EXCEPT ![s] = r]

(* open: the host is known and the socket upgraded.  Its first message is waited for. *)
Open(s, who) ==
    /\ InPhase(s, "none")
    /\ Moves(s, [phase |-> "first", pool |-> "none", life |-> 0, who |-> who])
    /\ UNCHANGED <<starts, pools>>

Refused == NoSession

(* admission: no message in time, one that asks for no pool, a pass this server does not know for
   the host, a plane the host did not publish. *)
NotAdmitted(s) ==
    /\ sessions[s].phase \in {"first", "published"}
    /\ Moves(s, Refused) /\ UNCHANGED <<starts, pools>>

(* admission, tag 5: a pass for this host, and Pools::paired. *)
AdmitPaired(s) ==
    /\ InPhase(s, "first")
    /\ IF pools.paired = 0 THEN Moves(s, Refused) /\ UNCHANGED pools
       ELSE /\ pools' = [pools EXCEPT !.paired = @ - 1]
            /\ Moves(s, [sessions[s] EXCEPT !.phase = "dials", !.pool = "paired"])
    /\ UNCHANGED starts

(* admission, tag 6: the host is asked which plane it publishes. *)
AsksPublished(s) ==
    /\ InPhase(s, "first") /\ Moves(s, [sessions[s] EXCEPT !.phase = "published"])
    /\ UNCHANGED <<starts, pools>>

AdmitPairingKeeps(s) ==   \* mutant: the hour's refusal keeps the permit
    /\ sessions[s].phase \in {"first", "published"}
    /\ sessions[s].who \notin pools.at /\ pools.pairing > 0
    /\ starts' = IF starts = 0 THEN 0 ELSE starts - 1
    /\ pools' = [pools EXCEPT !.pairing = @ - 1,
                              !.at = IF starts = 0 THEN @ ELSE @ \cup {sessions[s].who}]
    /\ Moves(s, IF starts = 0 THEN Refused ELSE [sessions[s] EXCEPT !.phase = "dials", !.pool = "pairing"])
(* Pools::pairing: an address at a time, a permit, and one of the hour's starts. *)
AdmitPairing(s) ==
    /\ sessions[s].phase \in {"first", "published"}
    /\ IF sessions[s].who \in pools.at \/ pools.pairing = 0 \/ starts = 0
       THEN Moves(s, Refused) /\ UNCHANGED <<starts, pools>>
       ELSE /\ pools' = [pools EXCEPT !.pairing = @ - 1, !.at = @ \cup {sessions[s].who}]
            /\ starts' = starts - 1
            /\ Moves(s, [sessions[s] EXCEPT !.phase = "dials", !.pool = "pairing"])

Dialed(s) ==
    /\ InPhase(s, "dials")
    /\ Moves(s, [sessions[s] EXCEPT !.phase = "relays",
                    !.life = IF sessions[s].pool = "pairing" THEN PAIRING_LIFE ELSE 0])
    /\ UNCHANGED <<starts, pools>>

(* The session's function returns: the dial failed, or the relay ended.  Slot's drop frees the
   address first. *)
Ends(s) ==
    /\ sessions[s].phase \in {"dials", "relays"}
    /\ Moves(s, [sessions[s] EXCEPT !.phase = "drops"])
    /\ pools' = IF sessions[s].pool = "pairing" THEN [pools EXCEPT !.at = @ \ {sessions[s].who}] ELSE pools
    /\ UNCHANGED starts

PairingOverHere(s) == FALSE   \* mutant: nothing ends the session for its time
(* A pairing session's time is up: the connection is closed, and the relay ends with it. *)
PairingOver(s) == InPhase(s, "relays") /\ sessions[s].pool = "pairing" /\ sessions[s].life = 0 /\ Ends(s)

(* The permit goes last. *)
PermitDropped(s) ==
    /\ InPhase(s, "drops") /\ Moves(s, NoSession)
    /\ pools' = IF sessions[s].pool = "paired" THEN [pools EXCEPT !.paired = @ + 1]
                ELSE [pools EXCEPT !.pairing = @ + 1]
    /\ UNCHANGED starts

(***************************************************************************)
(* Time, and a restart.                                                    *)
(***************************************************************************)
Lower(n) == IF n > 0 THEN n - 1 ELSE 0
LanesTick ==
    /\ starts' = IF starts < Starts THEN starts + 1 ELSE starts
    /\ sessions' = [s \in Sessions |-> [sessions[s] EXCEPT !.life = Lower(@)]]
    /\ UNCHANGED pools

(* The process ends and starts again. *)
Restart ==
    /\ starts' = Starts /\ pools' = FreePools
    /\ sessions' = [s \in Sessions |-> NoSession]

LanesNext ==
    \/ \E s \in Sessions :
        \/ \E who \in Addresses : Open(s, who)
        \/ AdmitPaired(s) \/ NotAdmitted(s) \/ AsksPublished(s) \/ AdmitPairing(s)
        \/ Dialed(s) \/ Ends(s) \/ PairingOver(s) \/ PermitDropped(s)
    \/ LanesTick \/ Restart

(* Time passes; a dial is over within its five seconds, and a session's task runs to its end. *)
DialOver(s) == InPhase(s, "dials") /\ (Dialed(s) \/ Ends(s))
LanesFair ==
    /\ WF_lanesVars(LanesTick)
    /\ \A s \in Sessions :
        WF_lanesVars(DialOver(s)) /\ WF_lanesVars(PairingOver(s)) /\ WF_lanesVars(PermitDropped(s))

LanesSpec == LanesInit /\ [][LanesNext]_lanesVars /\ LanesFair

(***************************************************************************)
(* Correctness.                                                            *)
(***************************************************************************)
LanesTypeOK ==
    /\ starts \in 0..Starts
    /\ pools \in [paired : 0..PAIRED, pairing : 0..PAIRING, at : SUBSET Addresses]

In(pool, phases) == {s \in Sessions : sessions[s].pool = pool /\ sessions[s].phase \in phases}
Running == {"dials", "relays"}

(* Every place taken is held by one session that has yet to give it back, and an address pairs
   once at a time: a refusal half way, a failed dial, a deadline and a restart lose no place
   (Pools, Slot). *)
PlacesAreHeld ==
    /\ pools.paired + Cardinality(In("paired", Running \cup {"drops"})) = PAIRED
    /\ pools.pairing + Cardinality(In("pairing", Running \cup {"drops"})) = PAIRING
    /\ pools.at = {sessions[s].who : s \in In("pairing", Running)}
    /\ Cardinality(pools.at) = Cardinality(In("pairing", Running))

(* A pairing session gives its place back, whatever its browser and its host do. *)
PairingGivesBack ==
    \A s \in Sessions : sessions[s].pool = "pairing" ~> sessions[s].pool # "pairing"
=============================================================================

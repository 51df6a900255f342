-------------------------------- MODULE Reach --------------------------------
(***************************************************************************)
(* What the list of hosts says of them (apps/web/src/app.ts): probe asks   *)
(* the stale ones, one probe at a time; wake asks after a host that boots; *)
(* and the server's own list is read again when a pass came, or when a     *)
(* read turned away may be tried again.                                    *)
(***************************************************************************)
EXTENDS Integers, FiniteSets

CONSTANTS
    Known,     \* hosts on the list
    TRIES      \* how often a host that wakes is asked after: 20

ASSUME ReachAssumption == TRIES \in Nat \ {0}

VARIABLES
    waking,    \* App.waking, with the asks each wake has left
    probe,     \* reachCache's fresh hosts; those the probe under way still asks
    config     \* readConfig: read, asks, or owed (turned away)

reachVars == <<waking, probe, config>>

ReachInit ==
    /\ waking = [o \in {} |-> 0] /\ probe = [fresh |-> {}, asks |-> {}]
    /\ config \in {"read", "owed"}

(* probe(), at every draw of a list. *)
Probe ==
    /\ probe.asks = {} /\ Known \ probe.fresh # {}
    /\ probe' = [probe EXCEPT !.asks = Known \ probe.fresh]
    /\ UNCHANGED <<waking, config>>

ProbedAny(o) ==   \* mutant: a host that answers as it wakes ends the probe's wait for it no more
    /\ o \in probe.asks \ probe.fresh
    /\ probe' = [asks |-> probe.asks \ {o}, fresh |-> probe.fresh \cup {o}]
    /\ UNCHANGED <<waking, config>>
(* reachTarget answers, or says that nothing did. *)
Probed(o) ==
    /\ o \in probe.asks
    /\ probe' = [asks |-> probe.asks \ {o}, fresh |-> probe.fresh \cup {o}]
    /\ UNCHANGED <<waking, config>>

(* REACH_TTL_MS; or the host is forgotten. *)
ReachStale(o) ==
    /\ o \in probe.fresh /\ probe' = [probe EXCEPT !.fresh = @ \ {o}]
    /\ UNCHANGED <<waking, config>>

Without(o) == [k \in DOMAIN waking \ {o} |-> waking[k]]

(* wake(): once at a time per host.  A packet the server refused or could not send ends it. *)
Wake(o) ==
    /\ o \notin DOMAIN waking
    /\ waking' = [k \in DOMAIN waking \cup {o} |-> IF k = o THEN TRIES ELSE waking[k]]
    /\ UNCHANGED <<probe, config>>
WakeRefused(o) ==
    /\ o \in DOMAIN waking /\ waking[o] = TRIES /\ waking' = Without(o)
    /\ UNCHANGED <<probe, config>>

Asks(o) == probe' = [probe EXCEPT !.fresh = @ \cup {o}] /\ UNCHANGED config
WakeForever(o) ==   \* mutant: only an answer ends it
    /\ o \in DOMAIN waking /\ Asks(o)
    /\ \/ waking' = [waking EXCEPT ![o] = IF @ > 1 THEN @ - 1 ELSE 1]
       \/ waking' = Without(o)
(* Asked after: it answers, or it is asked again, at most TRIES times. *)
WakeTried(o) ==
    /\ o \in DOMAIN waking /\ Asks(o)
    /\ \/ waking[o] > 1 /\ waking' = [waking EXCEPT ![o] = @ - 1]
       \/ waking' = Without(o)

(* refreshConfigured: a pass came, or the wait after a read turned away is over. *)
ConfigAsks == config' = "asks" /\ config # "asks" /\ UNCHANGED <<waking, probe>>
ConfigCame == config = "asks" /\ config' \in {"read", "owed"} /\ UNCHANGED <<waking, probe>>

ReachNext ==
    \/ Probe \/ ConfigAsks \/ ConfigCame
    \/ \E o \in Known : Probed(o) \/ ReachStale(o) \/ Wake(o) \/ WakeRefused(o) \/ WakeTried(o)

(* Fetches end: answered, refused or timed out. *)
ReachFair == \A o \in Known : WF_reachVars(Probed(o)) /\ WF_reachVars(WakeTried(o))

ReachSpec == ReachInit /\ [][ReachNext]_reachVars /\ ReachFair

ReachTypeOK ==
    /\ DOMAIN waking \subseteq Known /\ \A o \in DOMAIN waking : waking[o] \in 1..TRIES
    /\ probe \in [fresh : SUBSET Known, asks : SUBSET Known] /\ config \in {"read", "asks", "owed"}

(* A host said to wake is at some time said to be up, or not to have come; and no probe holds up
   the next for good, whichever hosts are woken meanwhile (wake, probe). *)
WaitsEnd ==
    /\ \A o \in Known : (o \in DOMAIN waking) ~> (o \notin DOMAIN waking)
    /\ (probe.asks # {}) ~> (probe.asks = {})
=============================================================================

------------------------------- MODULE Passes -------------------------------
(***************************************************************************)
(* The passes of lanes.rs: secrets the server gives to browsers a host     *)
(* knows.  It keeps the last proven of them, for a while each, and writes  *)
(* them to passes.json, which a restart reads.  A pass is numbered as it   *)
(* is made; the hash the code keeps of it is left out.                     *)
(***************************************************************************)
EXTENDS Integers, Sequences, SequencesExt

CONSTANTS
    Identities,                \* host identities
    PASSES, PASS_LIFE,    \* as in lanes.rs, the life in ticks
    MaxPasses             \* bound: passes ever made

ASSUME PassesAssumption == {PASSES, PASS_LIFE, MaxPasses} \subseteq Nat \ {0}

VARIABLES
    passes,      \* Passes.all, least recently proven first; `left` is what PASS_LIFE leaves of it
    disk,        \* passes.json
    given        \* history: for each pass, its life since it was last proven, and the hosts ever

passesVars == <<passes, disk, given>>

PassesInit == passes = <<>> /\ disk = <<>> /\ given = <<>>

HeldBy(all, pass) == {i \in DOMAIN all : all[i].pass = pass}
LivingOf(pass) == {i \in HeldBy(passes, pass) : passes[i].left > 0}

HostsOfAll(pass) == UNION {passes[i].hosts : i \in HeldBy(passes, pass)}   \* mutant: no life
(* Passes::hosts: those a pass was proven to, while it holds. *)
HostsOf(pass) == UNION {passes[i].hosts : i \in LivingOf(pass)}

(* The passes that live, but this one's, in the order they have. *)
OthersLiving(pass) ==
    LET others == {i \in DOMAIN passes : passes[i].left > 0 /\ passes[i].pass # pass}
        inOrder == {ids \in SetToSeqs(others) : \A i, j \in DOMAIN ids : i < j => ids[i] < ids[j]}
    IN  {[i \in DOMAIN ids |-> passes[ids[i]]] : ids \in inOrder}

KeptAll(others, record) == Append(others, record)   \* mutant: past PASSES none goes
(* What prove pushes comes last; past PASSES the first goes. *)
Kept(others, record) ==
    LET all == Append(others, record) IN IF Len(all) > PASSES THEN Tail(all) ELSE all

(* Passes::prove.  The file may fail to be written; the pass is given out all the same. *)
Prove(pass, host, written) ==
    LET known == LivingOf(pass) # {}
        id == IF known THEN pass ELSE Len(given) + 1
        record == [pass |-> id, hosts |-> HostsOf(id) \cup {host}, left |-> PASS_LIFE]
    IN  /\ id <= MaxPasses
        /\ \E others \in OthersLiving(id) : passes' = Kept(others, record)
        /\ disk' = IF written THEN passes' ELSE disk
        /\ given' = IF known THEN [given EXCEPT ![id] = [left |-> PASS_LIFE, to |-> @.to \cup {host}]]
                    ELSE Append(given, [left |-> PASS_LIFE, to |-> {host}])

Older(n) == IF n > 0 THEN n - 1 ELSE 0
Aged(records) == [i \in DOMAIN records |-> [records[i] EXCEPT !.left = Older(@)]]
PassesTick == passes' = Aged(passes) /\ disk' = Aged(disk) /\ given' = Aged(given)

LoadTrusts ==   \* mutant: a pass in the file is as new as the start
    passes' = [i \in DOMAIN disk |-> [disk[i] EXCEPT !.left = PASS_LIFE]] /\ UNCHANGED <<disk, given>>
(* The server starts again: Passes::load. *)
Load == passes' = disk /\ UNCHANGED <<disk, given>>

PassesNext ==
    \/ \E pass \in 0..MaxPasses, host \in Identities, written \in BOOLEAN : Prove(pass, host, written)
    \/ PassesTick \/ Load

PassesSpec == PassesInit /\ [][PassesNext]_passesVars

PassesTypeOK ==
    /\ Len(passes) <= PASSES /\ Len(given) <= MaxPasses
    /\ \A i \in DOMAIN passes :
        passes[i] \in [pass : 1..MaxPasses, hosts : SUBSET Identities, left : 0..PASS_LIFE]

(* A pass covers a host only if it was proven to that host, and proven at all within its life:
   evictions, files not written and restarts give no pass more (Passes). *)
CoversWhatWasProven ==
    \A pass \in 1..MaxPasses :
        HostsOf(pass) # {} => given[pass].left > 0 /\ HostsOf(pass) \subseteq given[pass].to

=============================================================================

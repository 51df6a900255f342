---------------------------- MODULE ServerProofs ----------------------------
(***************************************************************************)
(* The page's server, proved: its limits, and what it relays.              *)
(***************************************************************************)
EXTENDS Lanes, Meter, Bridge, FiniteSetTheorems, SequenceTheorems, TLAPS

(***************************************************************************)
(* The limits of lanes.rs.  No place of the two pools is lost or given     *)
(* twice, for any number of sessions, addresses and places: PlacesAreHeld  *)
(* needs two facts beside it, that a session has a pool exactly while it   *)
(* runs or drops, and that no two of those that pair came from one address *)
(* - else one's end would free the address the other holds.  And no        *)
(* address takes more of its bucket than its rate, for any sizes of a      *)
(* meter: what it took and what it has left never exceed a full bucket,    *)
(* which is what it has when the meter does not know it.                   *)
(***************************************************************************)
Phases == {"none", "first", "published", "dials", "relays", "drops"}
Holding == {"dials", "relays", "drops"}
Holders(pool) == In(pool, Holding)
Pairers == In("pairing", Running)

LanesTyped ==
    /\ sessions \in [Sessions -> [phase : Phases, pool : {"none", "paired", "pairing"},
                                  life : Nat, who : Addresses \cup {"none"}]]
    /\ pools \in [paired : Nat, pairing : Nat, at : SUBSET (Addresses \cup {"none"})]

Staged == \A s \in Sessions : sessions[s].pool = "none" <=> sessions[s].phase \notin Holding

OnePairsEach == \A s, t \in Pairers : sessions[s].who = sessions[t].who => s = t

(* PlacesAreHeld, with the image taken apart. *)
PoolsCounted ==
    /\ pools.paired + Cardinality(Holders("paired")) = PAIRED
    /\ pools.pairing + Cardinality(Holders("pairing")) = PAIRING
    /\ \A s \in Pairers : sessions[s].who \in pools.at
    /\ \A a \in pools.at : \E s \in Pairers : sessions[s].who = a
    /\ IsFiniteSet(pools.at)
    /\ Cardinality(pools.at) = Cardinality(Pairers)

LanesInv == LanesTyped /\ Staged /\ OnePairsEach /\ PoolsCounted

LEMMA InIsFinite ==
    ASSUME NEW pool, NEW phases
    PROVE  IsFiniteSet(In(pool, phases)) /\ Cardinality(In(pool, phases)) \in Nat
<1>1. In(pool, phases) \in SUBSET Sessions
  BY DEF In
<1>2. IsFiniteSet(In(pool, phases))
  BY <1>1, FS_Subset, LanesAssumption DEF LanesAssumption
<1> QED
  BY <1>2, FS_CardinalityType

(* One session moves: it joins the sets it fits, and leaves the others. *)
LEMMA OneMoves ==
    ASSUME LanesTyped, NEW s \in Sessions, NEW r, Moves(s, r), NEW pool, NEW phases
    PROVE  In(pool, phases)' = IF r.pool = pool /\ r.phase \in phases
                               THEN In(pool, phases) \cup {s} ELSE In(pool, phases) \ {s}
  BY DEF LanesTyped, Moves, In

LEMMA SameSide ==
    ASSUME LanesTyped, NEW s \in Sessions, NEW r, Moves(s, r), NEW pool, NEW phases,
           r.pool = pool /\ r.phase \in phases
             <=> sessions[s].pool = pool /\ sessions[s].phase \in phases
    PROVE  In(pool, phases)' = In(pool, phases)
  BY DEF LanesTyped, Moves, In

(* Where no set of holders changes and no pool does, nothing does. *)
LEMMA StaysPut ==
    ASSUME LanesInv, pools' = pools, Holders("paired")' = Holders("paired"),
           Holders("pairing")' = Holders("pairing"), Pairers' = Pairers,
           \A t \in Pairers : sessions'[t].who = sessions[t].who
    PROVE  OnePairsEach' /\ PoolsCounted'
<1>1. OnePairsEach'
  BY DEF LanesInv, OnePairsEach
<1> QED
  BY <1>1 DEF LanesInv, PoolsCounted

LEMMA MovesTyped ==
    ASSUME LanesTyped, NEW s \in Sessions, NEW r, Moves(s, r),
           r \in [phase : Phases, pool : {"none", "paired", "pairing"}, life : Nat,
                  who : Addresses \cup {"none"}],
           pools' \in [paired : Nat, pairing : Nat, at : SUBSET (Addresses \cup {"none"})]
    PROVE  LanesTyped'
  BY DEF LanesTyped, Moves

LEMMA MovesStaged ==
    ASSUME LanesTyped, Staged, NEW s \in Sessions, NEW r, Moves(s, r),
           r.pool = "none" <=> r.phase \notin Holding
    PROVE  Staged'
  BY DEF LanesTyped, Moves, Staged

(* A session without a place goes on, or is refused: the pools know nothing of it. *)
LEMMA Placeless ==
    ASSUME LanesInv, NEW s \in Sessions, NEW r, Moves(s, r), pools' = pools,
           sessions[s].phase \notin Holding,
           r \in [phase : Phases \ Holding, pool : {"none"}, life : Nat,
                  who : Addresses \cup {"none"}]
    PROVE  LanesInv'
<1>1. LanesTyped'
  BY MovesTyped DEF LanesInv, LanesTyped
<1>2. Staged'
  BY MovesStaged DEF LanesInv
<1>3. sessions[s].pool = "none" /\ r.pool = "none"
  BY DEF LanesInv, Staged
<1>4. /\ Holders("paired")' = Holders("paired") /\ Holders("pairing")' = Holders("pairing")
      /\ Pairers' = Pairers
  BY <1>3, SameSide DEF LanesInv, Holders, Pairers
<1>5. \A t \in Pairers : sessions'[t].who = sessions[t].who
  BY <1>3 DEF LanesInv, LanesTyped, Moves, Pairers, In
<1> QED
  BY <1>1, <1>2, <1>4, <1>5, StaysPut DEF LanesInv

LEMMA OpenKeeps ==
    ASSUME LanesInv, NEW s \in Sessions, NEW who \in Addresses, Open(s, who)
    PROVE  LanesInv'
<1> DEFINE r == [phase |-> "first", pool |-> "none", life |-> 0, who |-> who]
<1>1. Moves(s, r) /\ pools' = pools /\ sessions[s].phase \notin Holding
  BY DEF Open, InPhase, Holding
<1>2. r \in [phase : Phases \ Holding, pool : {"none"}, life : Nat, who : Addresses \cup {"none"}]
  BY DEF Phases, Holding
<1> QED
  BY <1>1, <1>2, Placeless

LEMMA RefusedFits ==
    /\ Refused \in [phase : Phases \ Holding, pool : {"none"}, life : Nat,
                    who : Addresses \cup {"none"}]
    /\ NoSession = Refused
  BY DEF Refused, NoSession, Phases, Holding

LEMMA NotAdmittedKeeps == ASSUME LanesInv, NEW s \in Sessions, NotAdmitted(s) PROVE LanesInv'
<1>1. Moves(s, Refused) /\ pools' = pools /\ sessions[s].phase \notin Holding
  BY DEF NotAdmitted, Holding
<1> QED
  BY <1>1, RefusedFits, Placeless

LEMMA AsksPublishedKeeps == ASSUME LanesInv, NEW s \in Sessions, AsksPublished(s) PROVE LanesInv'
<1> DEFINE r == [sessions[s] EXCEPT !.phase = "published"]
<1>1. Moves(s, r) /\ pools' = pools /\ sessions[s].phase = "first"
  BY DEF AsksPublished, InPhase
<1>2. sessions[s].pool = "none"
  BY <1>1 DEF LanesInv, Staged, Holding
<1>3. r \in [phase : Phases \ Holding, pool : {"none"}, life : Nat, who : Addresses \cup {"none"}]
  BY <1>2 DEF LanesInv, LanesTyped, Phases, Holding
<1> QED
  BY <1>1, <1>3, Placeless DEF Holding

(* A paired place is one permit: the session that takes it is one holder more. *)
LEMMA AdmitPairedKeeps == ASSUME LanesInv, NEW s \in Sessions, AdmitPaired(s) PROVE LanesInv'
<1>1. sessions[s].phase = "first" /\ sessions[s].pool = "none"
  BY DEF AdmitPaired, InPhase, LanesInv, Staged, Holding
<1>2. CASE pools.paired = 0
  BY <1>1, <1>2, RefusedFits, Placeless DEF AdmitPaired, Holding
<1>3. CASE pools.paired # 0
  <2> DEFINE r == [sessions[s] EXCEPT !.phase = "dials", !.pool = "paired"]
  <2>1. Moves(s, r) /\ pools' = [pools EXCEPT !.paired = @ - 1]
    BY <1>3 DEF AdmitPaired
  <2>2. r.phase = "dials" /\ r.pool = "paired"
    BY DEF LanesInv, LanesTyped
  <2>3. r \in [phase : Phases, pool : {"none", "paired", "pairing"}, life : Nat,
               who : Addresses \cup {"none"}]
    BY DEF LanesInv, LanesTyped, Phases
  <2>4. pools' \in [paired : Nat, pairing : Nat, at : SUBSET (Addresses \cup {"none"})]
    BY <1>3, <2>1 DEF LanesInv, LanesTyped
  <2>5. LanesTyped'
    BY <2>1, <2>3, <2>4, MovesTyped DEF LanesInv
  <2>6. Staged'
    BY <2>1, <2>2, MovesStaged DEF LanesInv, Holding
  <2> HIDE DEF r
  <2>7. Holders("pairing")' = Holders("pairing") /\ Pairers' = Pairers
    <3>1. In("pairing", Holding)' = In("pairing", Holding)
      BY <1>1, <2>1, <2>2, SameSide DEF LanesInv
    <3>2. In("pairing", Running)' = In("pairing", Running)
      BY <1>1, <2>1, <2>2, SameSide DEF LanesInv
    <3> QED  BY <3>1, <3>2 DEF Holders, Pairers
  <2>8. \A t \in Pairers : sessions'[t].who = sessions[t].who
    BY <1>1, <2>1 DEF LanesInv, LanesTyped, Moves, Pairers, In
  <2>9. Cardinality(Holders("paired")') = Cardinality(Holders("paired")) + 1
    <3>1. s \notin Holders("paired")
      BY <1>1 DEF Holders, In
    <3>2. "dials" \in Holding
      BY DEF Holding
    <3>3. Holders("paired")' = Holders("paired") \cup {s}
      BY <2>1, <2>2, <3>2, OneMoves DEF LanesInv, Holders
    <3> QED
      BY <3>1, <3>3, InIsFinite, FS_AddElement DEF Holders
  <2>10. pools'.paired = pools.paired - 1 /\ pools'.pairing = pools.pairing /\ pools'.at = pools.at
    BY <2>1 DEF LanesInv, LanesTyped
  <2>11. OnePairsEach'
    BY <2>7, <2>8 DEF LanesInv, OnePairsEach
  <2>12. PoolsCounted'
    <3>1. pools'.paired + Cardinality(Holders("paired")') = PAIRED
      BY <2>9, <2>10, InIsFinite DEF LanesInv, LanesTyped, PoolsCounted, Holders
    <3> QED
      BY <2>7, <2>8, <2>10, <3>1 DEF LanesInv, PoolsCounted
  <2> QED  BY <2>5, <2>6, <2>11, <2>12 DEF LanesInv
<1> QED
  BY <1>2, <1>3

(* A pairing place is a permit and an address: the session takes both. *)
LEMMA AdmitPairingKeepsAll == ASSUME LanesInv, NEW s \in Sessions, AdmitPairing(s) PROVE LanesInv'
<1>1. sessions[s].phase \in {"first", "published"} /\ sessions[s].pool = "none"
  BY DEF AdmitPairing, LanesInv, Staged, Holding
<1>2. CASE sessions[s].who \in pools.at \/ pools.pairing = 0 \/ starts = 0
  BY <1>1, <1>2, RefusedFits, Placeless DEF AdmitPairing, Holding
<1>3. CASE ~(sessions[s].who \in pools.at \/ pools.pairing = 0 \/ starts = 0)
  <2> DEFINE r == [sessions[s] EXCEPT !.phase = "dials", !.pool = "pairing"]
             w == sessions[s].who
  <2>1. Moves(s, r) /\ pools' = [pools EXCEPT !.pairing = @ - 1, !.at = @ \cup {w}]
    BY <1>3 DEF AdmitPairing
  <2>2. r.phase = "dials" /\ r.pool = "pairing" /\ r.who = w
    BY DEF LanesInv, LanesTyped
  <2>3. r \in [phase : Phases, pool : {"none", "paired", "pairing"}, life : Nat,
               who : Addresses \cup {"none"}]
    BY DEF LanesInv, LanesTyped, Phases
  <2>4. /\ pools'.paired = pools.paired /\ pools'.pairing = pools.pairing - 1
        /\ pools'.at = pools.at \cup {w}
    BY <2>1 DEF LanesInv, LanesTyped
  <2>5. pools' \in [paired : Nat, pairing : Nat, at : SUBSET (Addresses \cup {"none"})]
    <3>1. pools.pairing - 1 \in Nat /\ pools.paired \in Nat
      BY <1>3 DEF LanesInv, LanesTyped
    <3>2. pools.at \cup {w} \in SUBSET (Addresses \cup {"none"})
      BY DEF LanesInv, LanesTyped
    <3>3. pools' = [paired |-> pools.paired, pairing |-> pools.pairing - 1, at |-> pools.at \cup {w}]
      BY <2>1 DEF LanesInv, LanesTyped
    <3> QED  BY <3>1, <3>2, <3>3
  <2>6. w \notin pools.at
    BY <1>3
  <2> HIDE DEF r, w
  <2>7. LanesTyped'
    BY <2>1, <2>3, <2>5, MovesTyped DEF LanesInv
  <2>8. Staged'
    BY <2>1, <2>2, MovesStaged DEF LanesInv, Holding
  <2>9. "dials" \in Holding /\ "dials" \in Running
    BY DEF Holding, Running
  <2>10. Holders("paired")' = Holders("paired")
    BY <1>1, <2>1, <2>2, SameSide DEF LanesInv, Holders
  <2>11. Holders("pairing")' = Holders("pairing") \cup {s}
    BY <2>1, <2>2, <2>9, OneMoves DEF LanesInv, Holders
  <2>12. Pairers' = Pairers \cup {s}
    BY <2>1, <2>2, <2>9, OneMoves DEF LanesInv, Pairers
  <2>13. s \notin Holders("pairing") /\ s \notin Pairers
    BY <1>1 DEF Holders, Pairers, In
  <2>14. Cardinality(Holders("pairing")') = Cardinality(Holders("pairing")) + 1
    BY <2>11, <2>13, InIsFinite, FS_AddElement DEF Holders
  <2>15. Cardinality(Pairers') = Cardinality(Pairers) + 1
    BY <2>12, <2>13, InIsFinite, FS_AddElement DEF Pairers
  <2>16. IsFiniteSet(pools'.at) /\ Cardinality(pools'.at) = Cardinality(pools.at) + 1
    BY <2>4, <2>6, FS_AddElement DEF LanesInv, PoolsCounted
  <2>17. sessions'[s].who = w /\ \A t \in Pairers : sessions'[t].who = sessions[t].who
    BY <2>1, <2>2, <2>13 DEF LanesInv, LanesTyped, Moves, Pairers, In
  <2>18. \A t \in Pairers : sessions[t].who # w
    BY <2>6 DEF LanesInv, PoolsCounted
  <2>19. OnePairsEach'
    BY <2>12, <2>17, <2>18 DEF LanesInv, OnePairsEach
  <2>20. PoolsCounted'
    <3>1. pools'.paired + Cardinality(Holders("paired")') = PAIRED
      BY <2>4, <2>10 DEF LanesInv, PoolsCounted
    <3>2. pools'.pairing + Cardinality(Holders("pairing")') = PAIRING
      BY <2>4, <2>14, InIsFinite DEF LanesInv, LanesTyped, PoolsCounted, Holders
    <3>3. \A t \in Pairers' : sessions'[t].who \in pools'.at
      BY <2>4, <2>12, <2>17 DEF LanesInv, PoolsCounted
    <3>4. \A a \in pools'.at : \E t \in Pairers' : sessions'[t].who = a
      BY <2>4, <2>12, <2>17 DEF LanesInv, PoolsCounted
    <3>5. Cardinality(pools'.at) = Cardinality(Pairers')
      BY <2>15, <2>16 DEF LanesInv, PoolsCounted
    <3> QED  BY <2>16, <3>1, <3>2, <3>3, <3>4, <3>5 DEF PoolsCounted
  <2> QED  BY <2>7, <2>8, <2>19, <2>20 DEF LanesInv
<1> QED
  BY <1>2, <1>3

LEMMA DialedKeeps == ASSUME LanesInv, NEW s \in Sessions, Dialed(s) PROVE LanesInv'
<1> DEFINE r == [sessions[s] EXCEPT !.phase = "relays",
                   !.life = IF sessions[s].pool = "pairing" THEN PAIRING_LIFE ELSE 0]
<1>1. Moves(s, r) /\ pools' = pools /\ sessions[s].phase = "dials"
  BY DEF Dialed, InPhase
<1>2. r.phase = "relays" /\ r.pool = sessions[s].pool /\ r.who = sessions[s].who
  BY DEF LanesInv, LanesTyped
<1>3. r \in [phase : Phases, pool : {"none", "paired", "pairing"}, life : Nat,
             who : Addresses \cup {"none"}]
  BY LanesAssumption DEF LanesAssumption, LanesInv, LanesTyped, Phases
<1> HIDE DEF r
<1>4. LanesTyped'
  BY <1>1, <1>3, MovesTyped DEF LanesInv, LanesTyped
<1>5. Staged'
  BY <1>1, <1>2, MovesStaged DEF LanesInv, Staged, Holding
<1>6. \A p \in {"dials", "relays"} : p \in Holding /\ p \in Running
  BY DEF Holding, Running
<1>7. Holders("paired")' = Holders("paired")
  BY <1>1, <1>2, <1>6, SameSide DEF LanesInv, Holders
<1>8. Holders("pairing")' = Holders("pairing")
  BY <1>1, <1>2, <1>6, SameSide DEF LanesInv, Holders
<1>9. Pairers' = Pairers
  BY <1>1, <1>2, <1>6, SameSide DEF LanesInv, Pairers
<1>10. \A t \in Pairers : sessions'[t].who = sessions[t].who
  BY <1>1, <1>2 DEF LanesInv, LanesTyped, Moves, Pairers, In
<1> QED
  BY <1>1, <1>4, <1>5, <1>7, <1>8, <1>9, <1>10, StaysPut DEF LanesInv

(* A session ends: the address is free at once, as no other pairs from it; the permit is not. *)
LEMMA EndsKeeps == ASSUME LanesInv, NEW s \in Sessions, Ends(s) PROVE LanesInv'
<1> DEFINE r == [sessions[s] EXCEPT !.phase = "drops"]
           w == sessions[s].who
<1>1. Moves(s, r) /\ sessions[s].phase \in Running
  BY DEF Ends, Running
<1>2. r.phase = "drops" /\ r.pool = sessions[s].pool /\ r.who = w
  BY DEF LanesInv, LanesTyped
<1>3. r \in [phase : Phases, pool : {"none", "paired", "pairing"}, life : Nat,
             who : Addresses \cup {"none"}]
  BY DEF LanesInv, LanesTyped, Phases
<1>4. pools' = IF sessions[s].pool = "pairing" THEN [pools EXCEPT !.at = @ \ {w}] ELSE pools
  BY DEF Ends
<1> HIDE DEF r
<1>5. pools' \in [paired : Nat, pairing : Nat, at : SUBSET (Addresses \cup {"none"})]
  BY <1>4 DEF LanesInv, LanesTyped
<1>6. LanesTyped'
  BY <1>1, <1>3, <1>5, MovesTyped DEF LanesInv
<1>7. sessions[s].phase \in Holding /\ "drops" \in Holding /\ "drops" \notin Running
  BY <1>1 DEF Holding, Running
<1>8. Staged'
  BY <1>1, <1>2, <1>7, MovesStaged DEF LanesInv, Staged
<1>9. Holders("paired")' = Holders("paired")
  BY <1>1, <1>2, <1>7, SameSide DEF LanesInv, Holders
<1>10. Holders("pairing")' = Holders("pairing")
  BY <1>1, <1>2, <1>7, SameSide DEF LanesInv, Holders
<1>11. Pairers' = Pairers \ {s}
  BY <1>1, <1>2, <1>7, OneMoves DEF LanesInv, Pairers
<1>12. \A t \in Pairers : sessions'[t].who = sessions[t].who
  BY <1>1, <1>2 DEF LanesInv, LanesTyped, Moves, Pairers, In
<1>13. CASE sessions[s].pool # "pairing"
  <2>1. pools' = pools /\ Pairers' = Pairers
    BY <1>4, <1>11, <1>13 DEF Pairers, In
  <2> QED
    BY <1>6, <1>8, <1>9, <1>10, <1>12, <2>1, StaysPut DEF LanesInv
<1>14. CASE sessions[s].pool = "pairing"
  <2>1. s \in Pairers
    BY <1>1, <1>14 DEF Pairers, In
  <2>2. /\ pools'.paired = pools.paired /\ pools'.pairing = pools.pairing
        /\ pools'.at = pools.at \ {w}
    BY <1>4, <1>14 DEF LanesInv, LanesTyped
  <2>3. w \in pools.at /\ \A t \in Pairers : t # s => sessions[t].who # w
    BY <2>1 DEF LanesInv, PoolsCounted, OnePairsEach
  <2> HIDE DEF w
  <2>4. Cardinality(Pairers') = Cardinality(Pairers) - 1
    BY <1>11, <2>1, InIsFinite, FS_RemoveElement DEF Pairers
  <2>5. IsFiniteSet(pools'.at) /\ Cardinality(pools'.at) = Cardinality(pools.at) - 1
    <3>1. IsFiniteSet(pools.at)
      BY DEF LanesInv, PoolsCounted
    <3>2. /\ IsFiniteSet(pools.at \ {w})
          /\ Cardinality(pools.at \ {w}) = Cardinality(pools.at) - 1
      BY <2>3, <3>1, FS_RemoveElement
    <3> QED  BY <2>2, <3>2
  <2>6. OnePairsEach'
    BY <1>11, <1>12 DEF LanesInv, OnePairsEach
  <2>7. PoolsCounted'
    <3>1. pools'.paired + Cardinality(Holders("paired")') = PAIRED
      BY <1>9, <2>2 DEF LanesInv, PoolsCounted
    <3>2. pools'.pairing + Cardinality(Holders("pairing")') = PAIRING
      BY <1>10, <2>2 DEF LanesInv, PoolsCounted
    <3>3. \A t \in Pairers' : sessions'[t].who \in pools'.at
      BY <1>11, <1>12, <2>2, <2>3 DEF LanesInv, PoolsCounted
    <3>4. \A a \in pools'.at : \E t \in Pairers' : sessions'[t].who = a
      <4>1. sessions[s].who = w
        BY DEF w
      <4> QED
        BY <1>11, <1>12, <2>2, <4>1 DEF LanesInv, PoolsCounted
    <3>5. Cardinality(pools'.at) = Cardinality(Pairers')
      BY <2>4, <2>5 DEF LanesInv, PoolsCounted
    <3> QED  BY <2>5, <3>1, <3>2, <3>3, <3>4, <3>5 DEF PoolsCounted
  <2> QED  BY <1>6, <1>8, <2>6, <2>7 DEF LanesInv
<1> QED
  BY <1>13, <1>14

(* The permit goes last: the session is no holder any more, and the place is free. *)
LEMMA PermitDroppedKeeps == ASSUME LanesInv, NEW s \in Sessions, PermitDropped(s) PROVE LanesInv'
<1> DEFINE p == sessions[s].pool
<1>1. Moves(s, NoSession) /\ sessions[s].phase = "drops" /\ p \in {"paired", "pairing"}
  BY DEF PermitDropped, InPhase, LanesInv, LanesTyped, Staged, Holding
<1>2. NoSession.pool = "none" /\ NoSession.phase = "none"
  BY DEF NoSession
<1>3. pools' = IF p = "paired" THEN [pools EXCEPT !.paired = @ + 1]
               ELSE [pools EXCEPT !.pairing = @ + 1]
  BY DEF PermitDropped
<1>4. pools' \in [paired : Nat, pairing : Nat, at : SUBSET (Addresses \cup {"none"})]
  BY <1>3 DEF LanesInv, LanesTyped
<1>5. LanesTyped'
  <2>1. NoSession \in [phase : Phases, pool : {"none", "paired", "pairing"}, life : Nat,
                       who : Addresses \cup {"none"}]
    BY DEF NoSession, Phases
  <2> QED
    BY <1>1, <1>4, <2>1, MovesTyped DEF LanesInv
<1>6. "drops" \in Holding /\ "drops" \notin Running /\ "none" \notin Holding
  BY DEF Holding, Running
<1>7. Staged'
  BY <1>1, <1>2, <1>6, MovesStaged DEF LanesInv
<1>8. Pairers' = Pairers
  BY <1>1, <1>2, <1>6, SameSide DEF LanesInv, Pairers
<1>9. \A t \in Pairers : sessions'[t].who = sessions[t].who
  BY <1>1, <1>6 DEF LanesInv, LanesTyped, Moves, Pairers, In
<1>10. OnePairsEach'
  BY <1>8, <1>9 DEF LanesInv, OnePairsEach
<1>11. \A q \in {"paired", "pairing"} :
         /\ q = p => /\ Holders(q)' = Holders(q) \ {s} /\ s \in Holders(q)
                     /\ Cardinality(Holders(q)') = Cardinality(Holders(q)) - 1
         /\ q # p => Holders(q)' = Holders(q)
  <2> SUFFICES ASSUME NEW q \in {"paired", "pairing"}
               PROVE  /\ q = p => /\ Holders(q)' = Holders(q) \ {s} /\ s \in Holders(q)
                                  /\ Cardinality(Holders(q)') = Cardinality(Holders(q)) - 1
                      /\ q # p => Holders(q)' = Holders(q)
    OBVIOUS
  <2>1. CASE q = sessions[s].pool
    <3>1. Holders(q)' = Holders(q) \ {s}
      BY <1>1, <1>2, <1>6, OneMoves DEF LanesInv, Holders
    <3>2. s \in Holders(q)
      BY <1>1, <1>6, <2>1 DEF Holders, In
    <3>3. Cardinality(Holders(q)') = Cardinality(Holders(q)) - 1
      BY <3>1, <3>2, InIsFinite, FS_RemoveElement DEF Holders
    <3> QED  BY <2>1, <3>1, <3>2, <3>3
  <2>2. CASE q # sessions[s].pool
    <3>1. Holders(q)' = Holders(q)
      BY <1>1, <1>2, <1>6, <2>2, SameSide DEF LanesInv, Holders
    <3> QED  BY <2>2, <3>1
  <2> QED  BY <2>1, <2>2
<1>12. pools'.at = pools.at
  BY <1>3 DEF LanesInv, LanesTyped
<1>13. CASE p = "paired"
  <2>1. pools'.paired = pools.paired + 1 /\ pools'.pairing = pools.pairing
    BY <1>3, <1>13 DEF LanesInv, LanesTyped
  <2>2. /\ Cardinality(Holders("paired")') = Cardinality(Holders("paired")) - 1
        /\ Holders("pairing")' = Holders("pairing")
    BY <1>11, <1>13
  <2>3. pools'.paired + Cardinality(Holders("paired")') = PAIRED
    BY <2>1, <2>2, InIsFinite DEF LanesInv, LanesTyped, PoolsCounted, Holders
  <2> QED
    BY <1>5, <1>7, <1>8, <1>9, <1>10, <1>12, <2>1, <2>2, <2>3 DEF LanesInv, PoolsCounted
<1>14. CASE p = "pairing"
  <2>1. pools'.paired = pools.paired /\ pools'.pairing = pools.pairing + 1
    BY <1>3, <1>14 DEF LanesInv, LanesTyped
  <2>2. /\ Cardinality(Holders("pairing")') = Cardinality(Holders("pairing")) - 1
        /\ Holders("paired")' = Holders("paired")
    BY <1>11, <1>14
  <2>3. pools'.pairing + Cardinality(Holders("pairing")') = PAIRING
    BY <2>1, <2>2, InIsFinite DEF LanesInv, LanesTyped, PoolsCounted, Holders
  <2> QED
    BY <1>5, <1>7, <1>8, <1>9, <1>10, <1>12, <2>1, <2>2, <2>3 DEF LanesInv, PoolsCounted
<1> QED
  BY <1>1, <1>13, <1>14

LEMMA TickKeeps == ASSUME LanesInv, LanesTick PROVE LanesInv'
<1>1. sessions' = [s \in Sessions |-> [sessions[s] EXCEPT !.life = Lower(@)]] /\ pools' = pools
  BY DEF LanesTick
<1>2. \A n \in Nat : Lower(n) \in Nat
  BY DEF Lower
<1>3. LanesTyped'
  BY <1>1, <1>2 DEF LanesInv, LanesTyped
<1>4. \A s \in Sessions : /\ sessions'[s].phase = sessions[s].phase
                          /\ sessions'[s].pool = sessions[s].pool
                          /\ sessions'[s].who = sessions[s].who
  BY <1>1 DEF LanesInv, LanesTyped
<1>5. Staged'
  BY <1>4 DEF LanesInv, Staged
<1>6. \A pool, phases : In(pool, phases)' = In(pool, phases)
  BY <1>4 DEF In
<1>7. /\ Holders("paired")' = Holders("paired") /\ Holders("pairing")' = Holders("pairing")
      /\ Pairers' = Pairers
  BY <1>6 DEF Holders, Pairers
<1>8. \A t \in Pairers : sessions'[t].who = sessions[t].who
  BY <1>4 DEF Pairers, In
<1> QED
  BY <1>1, <1>3, <1>5, <1>7, <1>8, StaysPut DEF LanesInv

(* The process starts, or starts again: every place is free and no session holds one. *)
LEMMA NobodyHolds ==
    pools = FreePools /\ sessions = [s \in Sessions |-> NoSession] => LanesInv
<1> SUFFICES ASSUME pools = FreePools, sessions = [s \in Sessions |-> NoSession]
             PROVE  LanesInv
  OBVIOUS
<1>1. NoSession \in [phase : Phases, pool : {"none", "paired", "pairing"}, life : Nat,
                     who : Addresses \cup {"none"}]
  BY DEF NoSession, Phases
<1>2. pools = [paired |-> PAIRED, pairing |-> PAIRING, at |-> {}]
  BY DEF FreePools
<1>3. pools \in [paired : Nat, pairing : Nat, at : SUBSET (Addresses \cup {"none"})]
  BY <1>2, LanesAssumption DEF LanesAssumption
<1>4. LanesTyped
  BY <1>1, <1>3 DEF LanesTyped
<1>5. Staged
  BY DEF Staged, NoSession, Holding
<1>6. \A s \in Sessions : sessions[s].pool = "none"
  BY DEF NoSession
<1>7. Holders("paired") = {} /\ Holders("pairing") = {} /\ Pairers = {}
  BY <1>6 DEF Holders, Pairers, In
<1>8. OnePairsEach
  BY <1>7 DEF OnePairsEach
<1>9. PoolsCounted
  BY <1>2, <1>7, FS_EmptySet, LanesAssumption DEF PoolsCounted, LanesAssumption
<1> QED
  BY <1>4, <1>5, <1>8, <1>9 DEF LanesInv

LEMMA RestartKeeps == Restart => LanesInv'
<1>1. Restart => (pools = FreePools /\ sessions = [s \in Sessions |-> NoSession])'
  BY DEF Restart, FreePools, NoSession
<1> QED
  BY <1>1, NobodyHolds, PTL

LEMMA LanesGoOn == LanesInv /\ [LanesNext]_lanesVars => LanesInv'
<1> SUFFICES ASSUME LanesInv, [LanesNext]_lanesVars PROVE LanesInv'
  OBVIOUS
<1>1. ASSUME NEW s \in Sessions, NEW who \in Addresses, Open(s, who) PROVE LanesInv'
  BY <1>1, OpenKeeps
<1>2. ASSUME NEW s \in Sessions, AdmitPaired(s) PROVE LanesInv'
  BY <1>2, AdmitPairedKeeps
<1>3. ASSUME NEW s \in Sessions, NotAdmitted(s) PROVE LanesInv'
  BY <1>3, NotAdmittedKeeps
<1>4. ASSUME NEW s \in Sessions, AsksPublished(s) PROVE LanesInv'
  BY <1>4, AsksPublishedKeeps
<1>5. ASSUME NEW s \in Sessions, AdmitPairing(s) PROVE LanesInv'
  BY <1>5, AdmitPairingKeepsAll
<1>6. ASSUME NEW s \in Sessions, Dialed(s) PROVE LanesInv'
  BY <1>6, DialedKeeps
<1>7. ASSUME NEW s \in Sessions, Ends(s) PROVE LanesInv'
  BY <1>7, EndsKeeps
<1>8. ASSUME NEW s \in Sessions, PairingOver(s) PROVE LanesInv'
  BY <1>8, EndsKeeps DEF PairingOver
<1>9. ASSUME NEW s \in Sessions, PermitDropped(s) PROVE LanesInv'
  BY <1>9, PermitDroppedKeeps
<1>10. CASE LanesTick
  BY <1>10, TickKeeps
<1>11. CASE Restart
  BY <1>11, RestartKeeps
<1>12. CASE UNCHANGED lanesVars
  BY <1>12 DEF lanesVars, LanesInv, LanesTyped, Staged, OnePairsEach, PoolsCounted, Holders, Pairers, In
<1> QED
  BY <1>1, <1>2, <1>3, <1>4, <1>5, <1>6, <1>7, <1>8, <1>9, <1>10, <1>11, <1>12 DEF LanesNext

(* Every place taken is held by one session that has yet to give it back, and an address pairs
   once at a time, through refusals, failed dials, deadlines and restarts, however many sessions,
   addresses and places there are (lanes.rs Pools and Slot; bridge.rs admission and session). *)
THEOREM PlacesHold == LanesSpec => []PlacesAreHeld
<1>1. LanesInit => LanesInv
  BY NobodyHolds DEF LanesInit
<1>2. LanesInv => PlacesAreHeld
  <2> SUFFICES ASSUME LanesInv PROVE PlacesAreHeld
    OBVIOUS
  <2>1. Running \cup {"drops"} = Holding
    BY DEF Running, Holding
  <2>2. pools.at = {sessions[s].who : s \in Pairers}
    BY DEF LanesInv, PoolsCounted
  <2> QED
    BY <2>1, <2>2 DEF LanesInv, PoolsCounted, PlacesAreHeld, Holders, Pairers
<1> QED
  BY <1>1, <1>2, LanesGoOn, PTL DEF LanesSpec

(***************************************************************************)
(* Meters.                                                                 *)
(***************************************************************************)
Buckets == UNION {[ks -> 0..Each] : ks \in SUBSET Keys}
Meters == [each : Buckets, all : Nat, swept : BOOLEAN]

(* What an address may still take in m: an address the meter forgot, or never met, all of it. *)
Left(m, v) == IF v \in DOMAIN m.each THEN m.each[v] ELSE Each

Rated ==
    /\ meter \in Meters /\ asked \in [Visitors -> Nat]
    /\ \A v \in Visitors : asked[v] + Left(meter, v) <= Each

LEMMA BucketsAre ==
    ASSUME NEW b
    PROVE  b \in Buckets <=> /\ b = [k \in DOMAIN b |-> b[k]] /\ DOMAIN b \subseteq Keys
                            /\ \A k \in DOMAIN b : b[k] \in 0..Each
  BY DEF Buckets

(* A sweep forgets only who has all of it left: nobody has more left after it. *)
LEMMA SweepsLeave ==
    ASSUME NEW m \in Meters, NEW v
    PROVE  SweepsOut(m) \in Meters /\ Left(SweepsOut(m), v) <= Left(m, v)
<1> DEFINE gone == {k \in DOMAIN m.each : m.each[k] >= Each}
           b == [k \in DOMAIN m.each \ gone |-> m.each[k]]
<1>1. m.each \in Buckets /\ m.all \in Nat /\ Each \in Nat
  BY MeterAssumption DEF Meters, MeterAssumption
<1>2. DOMAIN m.each \subseteq Keys /\ \A k \in DOMAIN m.each : m.each[k] \in 0..Each
  BY <1>1, BucketsAre
<1>3. b \in Buckets
  BY <1>2, BucketsAre
<1>4. SweepsOut(m) = [m EXCEPT !.each = b, !.swept = TRUE]
  BY Zenon DEF SweepsOut, Without
<1>5. SweepsOut(m) \in Meters /\ SweepsOut(m).each = b
  <2> HIDE DEF b
  <2> QED
    BY <1>1, <1>3, <1>4 DEF Meters
<1>6. v \in DOMAIN m.each \ gone => b[v] = m.each[v]
  OBVIOUS
<1>7. v \in DOMAIN m.each => Left(m, v) = m.each[v] /\ m.each[v] \in 0..Each
  BY <1>2 DEF Left
<1> QED
  BY <1>1, <1>5, <1>6, <1>7 DEF Left

(* What a visitor takes it has less of, and no other has more. *)
LEMMA TakeKeepsRate == ASSUME Rated, NEW who \in Keys, Take(who) PROVE Rated'
<1> DEFINE m == IF Full(meter) /\ ~meter.swept THEN SweepsOut(meter) ELSE meter
           key == KeyOf(m, who)
           mine == IF key \in DOMAIN m.each THEN m.each[key] ELSE Each
           taken == IF mine > 0 /\ m.all > 0 THEN 1 ELSE 0
           b == [k \in DOMAIN m.each \cup {key} |-> IF k = key THEN mine - taken ELSE m.each[k]]
<1>1. m \in Meters /\ \A v \in Visitors : Left(m, v) <= Left(meter, v)
  <2>1. \A v \in Visitors : Left(meter, v) \in Nat
    BY BucketsAre, MeterAssumption DEF Rated, Meters, Left, MeterAssumption
  <2> QED
    BY <2>1, SweepsLeave DEF Rated
<1>2. /\ meter' = [m EXCEPT !.each = b, !.all = @ - taken]
      /\ asked' = IF key = Unknown THEN asked ELSE [asked EXCEPT ![key] = @ + taken]
  BY DEF Take
<1>3. key \in Keys
  BY DEF KeyOf, Keys
<1> HIDE DEF m, key
<1>4. DOMAIN m.each \subseteq Keys /\ (\A k \in DOMAIN m.each : m.each[k] \in 0..Each) /\ Each \in Nat
  BY <1>1, BucketsAre, MeterAssumption DEF Meters, MeterAssumption
<1>5. mine \in 0..Each /\ taken \in 0..1 /\ taken <= mine /\ mine = Left(m, key)
  BY <1>4 DEF Left
<1>6. m.all - taken \in Nat
  BY <1>1 DEF Meters
<1>7. b \in Buckets
  <2>1. \A k \in DOMAIN b : b[k] \in 0..Each
    BY <1>4, <1>5
  <2>2. DOMAIN b \subseteq Keys
    BY <1>3, <1>4
  <2> QED
    BY <2>1, <2>2, BucketsAre
<1>8. meter' \in Meters /\ meter'.each = b
  BY <1>1, <1>2, <1>6, <1>7 DEF Meters
<1>9. asked' \in [Visitors -> Nat]
  BY <1>2, <1>3, <1>5 DEF Rated, Keys
<1>10. ASSUME NEW v \in Visitors PROVE asked'[v] + Left(meter', v) <= Each
  <2>1. v # Unknown /\ asked[v] \in Nat /\ asked[v] + Left(meter, v) <= Each
    BY MeterAssumption DEF MeterAssumption, Rated
  <2>2. Left(m, v) \in 0..Each /\ Left(meter, v) \in Nat /\ Left(m, v) <= Left(meter, v)
    BY <1>1, <1>4, BucketsAre DEF Left, Rated, Meters
  <2>3. CASE v = key
    <3>1. asked'[v] = asked[v] + taken
      BY <1>2, <2>1, <2>3 DEF Rated
    <3>2. Left(meter', v) = mine - taken
      BY <1>8, <2>3 DEF Left
    <3> QED
      BY <1>4, <1>5, <2>1, <2>2, <2>3, <3>1, <3>2
  <2>4. CASE v # key
    <3>1. asked'[v] = asked[v]
      BY <1>2, <1>3, <2>4 DEF Rated, Keys
    <3>2. Left(meter', v) = Left(m, v)
      BY <1>8, <2>4 DEF Left
    <3> QED
      BY <1>4, <2>1, <2>2, <3>1, <3>2
  <2> QED
    BY <2>3, <2>4
<1> QED
  BY <1>8, <1>9, <1>10 DEF Rated

(* Time gives back to a bucket no more than was taken of it. *)
LEMMA TickKeepsRate == ASSUME Rated, MeterTick PROVE Rated'
<1> DEFINE b == [k \in DOMAIN meter.each |-> Refill(meter.each[k], Each)]
<1>1. DOMAIN meter.each \subseteq Keys /\ (\A k \in DOMAIN meter.each : meter.each[k] \in 0..Each)
  BY BucketsAre DEF Rated, Meters
<1>2. {Each, All, meter.all} \subseteq Nat
  BY MeterAssumption DEF MeterAssumption, Rated, Meters
<1>3. \A n, full \in Nat : Refill(n, full) \in Nat
  BY DEF Refill
<1>4. ASSUME NEW k \in DOMAIN b PROVE b[k] \in 0..Each
  <2>1. b[k] = Refill(meter.each[k], Each) /\ meter.each[k] \in 0..Each
    BY <1>1
  <2>2. ASSUME NEW n \in 0..Each PROVE Refill(n, Each) \in 0..Each
    BY <1>2 DEF Refill
  <2> QED
    BY <2>1, <2>2
<1>5. b \in Buckets
  BY <1>1, <1>4, BucketsAre
<1>6. meter' \in Meters /\ meter'.each = b
  BY <1>2, <1>3, <1>5 DEF MeterTick, Meters
<1>7. asked' \in [Visitors -> Nat]
  BY DEF MeterTick, Rated
<1>8. ASSUME NEW v \in Visitors PROVE asked'[v] + Left(meter', v) <= Each
  <2>1. asked[v] \in Nat /\ asked[v] + Left(meter, v) <= Each
    BY DEF Rated
  <2>2. asked'[v] = IF asked[v] > 0 THEN asked[v] - 1 ELSE 0
    BY DEF MeterTick
  <2>3. CASE v \in DOMAIN meter.each
    <3>1. Left(meter', v) = Refill(meter.each[v], Each) /\ Left(meter, v) = meter.each[v]
      BY <1>6, <2>3 DEF Left
    <3>2. meter.each[v] \in 0..Each
      BY <1>1, <2>3
    <3> QED
      BY <1>2, <2>1, <2>2, <3>1, <3>2 DEF Refill
  <2>4. CASE v \notin DOMAIN meter.each
    <3>1. Left(meter', v) = Each /\ Left(meter, v) = Each
      BY <1>6, <2>4 DEF Left
    <3> QED
      BY <1>2, <2>1, <2>2, <3>1
  <2> QED
    BY <2>3, <2>4
<1> QED
  BY <1>6, <1>7, <1>8 DEF Rated

(* However often a meter fills up, sweeps and takes an address in again, the address never takes
   more of its own bucket than its rate (lanes.rs Meter, take_at), whatever the sizes of a meter. *)
THEOREM RatesHold == MeterSpec => []SweepForgivesNobody
<1>1. MeterInit => Rated
  <2> SUFFICES ASSUME MeterInit PROVE Rated
    OBVIOUS
  <2>1. meter.each = <<>> /\ DOMAIN meter.each = {}
    BY DEF MeterInit
  <2>2. meter.each \in Buckets
    <3>1. <<>> \in [{} -> 0..Each] /\ {} \subseteq Keys
      OBVIOUS
    <3> QED
      BY <2>1, <3>1 DEF Buckets
  <2>3. meter \in Meters
    BY <2>2, MeterAssumption DEF MeterInit, Meters, MeterAssumption
  <2>4. \A v \in Visitors : asked[v] = 0 /\ Left(meter, v) = Each
    BY <2>1 DEF MeterInit, Left
  <2>5. Each \in Nat
    BY MeterAssumption DEF MeterAssumption
  <2>6. asked \in [Visitors -> Nat]
    BY DEF MeterInit
  <2> QED
    BY <2>3, <2>4, <2>5, <2>6 DEF Rated
<1>2. Rated /\ [MeterNext]_meterVars => Rated'
  <2>1. Rated /\ UNCHANGED meterVars => Rated'
    BY DEF Rated, meterVars
  <2> QED
    BY <2>1, TakeKeepsRate, TickKeepsRate DEF MeterNext
<1>3. Rated => SweepForgivesNobody
  <2> SUFFICES ASSUME Rated, NEW v \in Visitors PROVE asked[v] <= Each
    BY DEF SweepForgivesNobody
  <2>1. Left(meter, v) \in Nat /\ Each \in Nat
    BY BucketsAre, MeterAssumption DEF Rated, Meters, Left, MeterAssumption
  <2> QED
    BY <2>1 DEF Rated
<1> QED
  BY <1>1, <1>2, <1>3, PTL DEF MeterSpec

(***************************************************************************)
(* What the bridge relays, for queues and streams of any length.  The      *)
(* induction follows each stream through its pump: all that was read has   *)
(* been queued, but for the one the pump still holds, and of a pump that   *)
(* ended while the writer ran nothing is missing.  The end is queued once, *)
(* after that, so it comes last of what the page gets.                     *)
(***************************************************************************)
Kinds == {"control", "uni"}
Messages == (Kinds \X Nat) \cup {<<"tag3">>, <<"pong">>} \cup ({"close"} \X {"normal", "again", "error", "protocol"})

Numbers(s) ==
    \A i \in 1..Len(s) : s[i][1] \in Kinds =>
        /\ s[i][2] \in Nat \ {0}
        /\ \A n \in 1..s[i][2] - 1 : \E j \in 1..i - 1 : s[j][1] = s[i][1] /\ s[j][2] = n
        /\ \A j \in 1..i - 1 : s[j][1] = s[i][1] => s[j][2] < s[i][2]
Closing(s) ==
    \A i, j \in 1..Len(s) : i < j => s[i][1] # "close" /\ (s[i][1] = "tag3" => s[j][1] = "close")
Has(s, tag) == \E i \in 1..Len(s) : s[i][1] = tag
UpTo(s, kind, n) == \A i \in 1..Len(s) : s[i][1] = kind => s[i][2] <= n
Whole(s, kind, n) == \A m \in 1..n : \E i \in 1..Len(s) : s[i][1] = kind /\ s[i][2] = m

(* A message at the end. *)
LEMMA AtTheEnd ==
    ASSUME NEW s \in Seq(Messages), NEW m \in Messages
    PROVE  /\ \A tag : Has(Append(s, m), tag) <=> Has(s, tag) \/ m[1] = tag
           /\ \A kind, n : UpTo(Append(s, m), kind, n) <=> UpTo(s, kind, n) /\ (m[1] = kind => m[2] <= n)
           /\ \A kind, n : Whole(s, kind, n) => Whole(Append(s, m), kind, n)
           /\ \A kind : \A n \in Nat : Whole(s, kind, n - 1) /\ m[1] = kind /\ m[2] = n => Whole(Append(s, m), kind, n)
           /\ /\ Closing(s) /\ ~Has(s, "close") /\ (Has(s, "tag3") => m[1] = "close")
              => Closing(Append(s, m))
           /\ /\ Numbers(s)
              /\ m[1] \in Kinds => m[2] \in Nat \ {0} /\ UpTo(s, m[1], m[2] - 1) /\ Whole(s, m[1], m[2] - 1)
              => Numbers(Append(s, m))
<1> DEFINE t == Append(s, m)
<1>1. /\ Len(s) \in Nat /\ Len(t) = Len(s) + 1 /\ t[Len(t)] = m
      /\ \A i \in 1..Len(s) : t[i] = s[i]
  OBVIOUS
<1> HIDE DEF t
<1>2. 1..Len(t) = 1..Len(s) \cup {Len(t)}
  BY <1>1
<1>3. ASSUME NEW tag PROVE Has(t, tag) <=> Has(s, tag) \/ m[1] = tag
  BY <1>1, <1>2 DEF Has
<1>4. ASSUME NEW kind, NEW n PROVE UpTo(t, kind, n) <=> UpTo(s, kind, n) /\ (m[1] = kind => m[2] <= n)
  BY <1>1, <1>2 DEF UpTo
<1>5. ASSUME NEW kind, NEW n, Whole(s, kind, n) PROVE Whole(t, kind, n)
  BY <1>1, <1>2, <1>5 DEF Whole
<1>6. ASSUME NEW kind, NEW n \in Nat, Whole(s, kind, n - 1), m[1] = kind, m[2] = n PROVE Whole(t, kind, n)
  <2> SUFFICES ASSUME NEW k \in 1..n PROVE \E i \in 1..Len(t) : t[i][1] = kind /\ t[i][2] = k
    BY DEF Whole
  <2>1. CASE k = n
    BY <1>1, <1>2, <1>6, <2>1
  <2>2. CASE k # n
    <3>1. k \in 1..n - 1
      BY <2>2
    <3> QED  BY <1>1, <1>2, <1>6, <3>1 DEF Whole
  <2> QED  BY <2>1, <2>2
<1>7. ASSUME Closing(s), ~Has(s, "close"), Has(s, "tag3") => m[1] = "close" PROVE Closing(t)
  <2> SUFFICES ASSUME NEW i \in 1..Len(t), NEW j \in 1..Len(t), i < j
               PROVE  t[i][1] # "close" /\ (t[i][1] = "tag3" => t[j][1] = "close")
    BY DEF Closing
  <2>1. i \in 1..Len(s)
    BY <1>1
  <2>2. t[i][1] # "close"
    BY <1>1, <1>7, <2>1 DEF Has
  <2>3. t[i][1] = "tag3" => t[j][1] = "close"
    BY <1>1, <1>2, <1>7, <2>1 DEF Has, Closing
  <2> QED  BY <2>2, <2>3
<1>8. ASSUME Numbers(s),
             m[1] \in Kinds => m[2] \in Nat \ {0} /\ UpTo(s, m[1], m[2] - 1) /\ Whole(s, m[1], m[2] - 1)
      PROVE  Numbers(t)
  <2> SUFFICES ASSUME NEW i \in 1..Len(t), t[i][1] \in Kinds
               PROVE  /\ t[i][2] \in Nat \ {0}
                      /\ \A n \in 1..t[i][2] - 1 : \E j \in 1..i - 1 : t[j][1] = t[i][1] /\ t[j][2] = n
                      /\ \A j \in 1..i - 1 : t[j][1] = t[i][1] => t[j][2] < t[i][2]
    BY DEF Numbers
  <2>1. Numbers(s)
    BY <1>8
  <2>2. CASE i \in 1..Len(s)
    <3>1. t[i] = s[i] /\ \A j \in 1..i - 1 : t[j] = s[j]
      BY <1>1, <2>2
    <3>2. /\ s[i][2] \in Nat \ {0}
          /\ \A n \in 1..s[i][2] - 1 : \E j \in 1..i - 1 : s[j][1] = s[i][1] /\ s[j][2] = n
          /\ \A j \in 1..i - 1 : s[j][1] = s[i][1] => s[j][2] < s[i][2]
      BY <2>1, <2>2, <3>1 DEF Numbers
    <3> QED  BY <3>1, <3>2
  <2>3. CASE i = Len(t)
    <3>1. t[i] = m /\ i - 1 = Len(s) /\ m[1] \in Kinds /\ m[2] \in Nat \ {0}
      BY <1>1, <1>8, <2>3
    <3>2. \A n \in 1..m[2] - 1 : \E j \in 1..Len(s) : s[j][1] = m[1] /\ s[j][2] = n
      BY <1>8, <3>1 DEF Whole
    <3>3. \A j \in 1..Len(s) : s[j][1] = m[1] => s[j][2] <= m[2] - 1 /\ s[j][2] \in Nat
      BY <1>8, <3>1 DEF UpTo, Numbers
    <3>4. \A j \in 1..i - 1 : t[j] = s[j] /\ j \in 1..Len(s)
      BY <1>1, <3>1
    <3>5. \A n \in 1..t[i][2] - 1 : \E j \in 1..i - 1 : t[j][1] = t[i][1] /\ t[j][2] = n
      BY <3>1, <3>2, <3>4, SMTT(40)
    <3>6. \A j \in 1..i - 1 : t[j][1] = t[i][1] => t[j][2] < t[i][2]
      BY <3>1, <3>3, <3>4
    <3> QED  BY <3>1, <3>5, <3>6
  <2> QED  BY <1>2, <2>2, <2>3
<1> QED
  BY <1>3, <1>4, <1>5, <1>6, <1>7, <1>8 DEF t

(* One taken out that is none of a host's: what is told of the others stays. *)
LEMMA OneLess ==
    ASSUME NEW s \in Seq(Messages), NEW t \in Seq(Messages), NEW k \in 1..Len(s), s[k][1] = "pong",
           Len(t) = Len(s) - 1, \A i \in 1..Len(t) : t[i] = IF i < k THEN s[i] ELSE s[i + 1]
    PROVE  /\ \A tag : Has(t, tag) => Has(s, tag)
           /\ \A kind, n : UpTo(s, kind, n) => UpTo(t, kind, n)
           /\ \A kind \in Kinds : \A n : Whole(s, kind, n) => Whole(t, kind, n)
           /\ Closing(s) => Closing(t)
           /\ Numbers(s) => Numbers(t)
<1> DEFINE h(i) == IF i < k THEN i ELSE i + 1
           g(i) == IF i < k THEN i ELSE i - 1
<1>1. Len(s) \in Nat /\ Len(t) \in Nat
  OBVIOUS
<1>2. \A i \in 1..Len(t) : h(i) \in 1..Len(s) /\ t[i] = s[h(i)] /\ h(i) # k
  BY <1>1
<1>3. \A i, j \in 1..Len(t) : i < j <=> h(i) < h(j)
  BY <1>1
<1>4. \A i \in 1..Len(s) : i # k => g(i) \in 1..Len(t) /\ h(g(i)) = i /\ t[g(i)] = s[i]
  BY <1>1
<1>5. \A i \in 1..Len(s) : s[i][1] \in Kinds => i # k
  BY DEF Kinds
<1>6. \A i \in 1..Len(t), j \in 1..Len(s) : j # k /\ j < h(i) => g(j) < i
  BY <1>1
<1> HIDE DEF h, g
<1>7. ASSUME NEW tag, Has(t, tag) PROVE Has(s, tag)
  BY <1>2, <1>7 DEF Has
<1>8. ASSUME NEW kind, NEW n, UpTo(s, kind, n) PROVE UpTo(t, kind, n)
  BY <1>2, <1>8 DEF UpTo
<1>9. ASSUME NEW kind \in Kinds, NEW n, Whole(s, kind, n) PROVE Whole(t, kind, n)
  <2> SUFFICES ASSUME NEW m \in 1..n PROVE \E i \in 1..Len(t) : t[i][1] = kind /\ t[i][2] = m
    BY DEF Whole
  <2>1. PICK i \in 1..Len(s) : s[i][1] = kind /\ s[i][2] = m
    BY <1>9 DEF Whole
  <2> QED  BY <1>4, <1>5, <2>1
<1>10. ASSUME Closing(s) PROVE Closing(t)
  <2> SUFFICES ASSUME NEW i \in 1..Len(t), NEW j \in 1..Len(t), i < j
               PROVE  t[i][1] # "close" /\ (t[i][1] = "tag3" => t[j][1] = "close")
    BY DEF Closing
  <2>1. /\ h(i) \in 1..Len(s) /\ t[i] = s[h(i)] /\ h(j) \in 1..Len(s) /\ t[j] = s[h(j)]
        /\ h(i) < h(j)
    BY <1>2, <1>3
  <2> QED  BY <1>10, <2>1 DEF Closing
<1>11. ASSUME Numbers(s) PROVE Numbers(t)
  <2> SUFFICES ASSUME NEW i \in 1..Len(t), t[i][1] \in Kinds
               PROVE  /\ t[i][2] \in Nat \ {0}
                      /\ \A n \in 1..t[i][2] - 1 : \E j \in 1..i - 1 : t[j][1] = t[i][1] /\ t[j][2] = n
                      /\ \A j \in 1..i - 1 : t[j][1] = t[i][1] => t[j][2] < t[i][2]
    BY DEF Numbers
  <2>1. h(i) \in 1..Len(s) /\ t[i] = s[h(i)] /\ t[i][2] \in Nat \ {0}
    BY <1>2, <1>11 DEF Numbers
  <2>2. ASSUME NEW n \in 1..t[i][2] - 1 PROVE \E j \in 1..i - 1 : t[j][1] = t[i][1] /\ t[j][2] = n
    <3>1. PICK p \in 1..Len(s) : p = h(i) /\ s[p] = t[i]
      BY <2>1
    <3>2. \A q \in 1..s[p][2] - 1 : \E j \in 1..p - 1 : s[j][1] = s[p][1] /\ s[j][2] = q
      BY <1>11, <3>1 DEF Numbers
    <3>3. \E j \in 1..p - 1 : s[j][1] = s[p][1] /\ s[j][2] = n
      BY <3>1, <3>2
    <3>4. PICK j \in 1..h(i) - 1 : s[j][1] = t[i][1] /\ s[j][2] = n
      BY <3>1, <3>3
    <3>5. j \in 1..Len(s) /\ j < h(i)
      BY <1>1, <2>1
    <3>6. s[j][1] \in Kinds
      BY <3>4
    <3>7. j \in 1..Len(s) /\ j # k /\ j < h(i)
      BY <1>5, <3>5, <3>6
    <3>8. g(j) \in 1..Len(t) /\ t[g(j)] = s[j] /\ g(j) < i
      BY <1>4, <1>6, <3>7
    <3>9. g(j) \in 1..i - 1
      BY <1>1, <3>8
    <3> QED  BY <3>4, <3>8, <3>9
  <2>3. ASSUME NEW j \in 1..i - 1, t[j][1] = t[i][1] PROVE t[j][2] < t[i][2]
    <3>1. j \in 1..Len(t) /\ j < i
      BY <1>1
    <3>2. h(j) \in 1..Len(s) /\ t[j] = s[h(j)] /\ h(j) < h(i)
      BY <1>2, <1>3, <3>1
    <3>3. PICK p \in 1..Len(s), q \in 1..Len(s) : p = h(i) /\ q = h(j)
      BY <2>1, <3>2
    <3>4. q \in 1..p - 1
      BY <1>1, <3>2, <3>3
    <3>5. s[p] = t[i] /\ s[q] = t[j]
      BY <2>1, <3>2, <3>3
    <3>6. \A r \in 1..p - 1 : s[r][1] = s[p][1] => s[r][2] < s[p][2]
      BY <1>11, <3>5 DEF Numbers
    <3>7. s[q][2] < s[p][2]
      BY <2>3, <3>4, <3>5, <3>6
    <3> QED  BY <3>5, <3>7
  <2> QED  BY <2>1, <2>2, <2>3
<1> QED
  BY <1>7, <1>8, <1>9, <1>10, <1>11

(***************************************************************************)
(* The relay's states.                                                     *)
(***************************************************************************)
Came == onSocket \o channels.reliable
Stages == {"none", "reads", "holds", "ended", "opens", "writes"}

BridgeTyped ==
    /\ quic \in {"open", "app", "local", "loss"} /\ page \in {"reads", "stalled", "gone"}
    /\ relay \in {"relays", "drains", "flushes", "over"} /\ writer \in {"runs", "ended"}
    /\ graced \in BOOLEAN
    /\ hostSent \in [Kinds -> Nat] /\ read \in [Kinds -> Nat]
    /\ \A kind \in Kinds : read[kind] <= hostSent[kind]
    /\ pump \in [{"control", "uni", "page"} -> Stages]
    /\ \A kind \in Kinds : pump[kind] \in {"none", "reads", "holds", "ended"}
    /\ pump["page"] = "opens" => pump["control"] = "none"
    /\ channels \in [reliable : Seq(Messages), datagrams : Nat]
    /\ Len(channels.reliable) <= QUEUE /\ channels.datagrams <= QUEUE
    /\ onSocket \in Seq(Messages) /\ last \in Seq(Messages)

(* What a pump has read is queued, but for what it holds or held at its end. *)
PumpTold(kind) ==
    /\ UpTo(Came, kind, read[kind])
    /\ pump[kind] = "none" => read[kind] = 0
    /\ pump[kind] = "reads" => Whole(Came, kind, read[kind])
    /\ pump[kind] = "holds" => /\ read[kind] > 0
                               /\ UpTo(Came, kind, read[kind] - 1) /\ Whole(Came, kind, read[kind] - 1)
    /\ Pumping /\ pump[kind] = "ended" /\ writer = "runs" => Whole(Came, kind, read[kind])
PumpsTell == \A kind \in Kinds : PumpTold(kind)

AllCame == \A kind \in Kinds : Whole(Came, kind, read[kind])

(* What the end has yet to queue. *)
LastIs ==
    \/ last = <<>>
    \/ /\ Len(last) = 1 /\ last[1][1] = "close" /\ ~Has(Came, "close")
    \/ /\ Len(last) = 2 /\ last[1][1] = "tag3" /\ last[2][1] = "close"
       /\ ~Has(Came, "close") /\ ~Has(Came, "tag3")
       /\ writer = "runs" /\ ~graced => AllCame

EndsOnce ==
    /\ Numbers(Came) /\ Closing(Came)
    /\ Pumping => last = <<>> /\ ~Has(Came, "close") /\ ~Has(Came, "tag3")
    /\ ~Pumping => \A kind \in Kinds : pump[kind] = "ended"
    /\ pump["uni"] # "none"
    /\ Has(Came, "tag3") /\ ~graced => AllCame
    /\ LastIs

BridgeInv == BridgeTyped /\ PumpsTell /\ EndsOnce

LEMMA RelayStill ==
    ASSUME BridgeInv, BridgeTyped', Came' = Came, read' = read, last' = last,
           \A kind \in Kinds : pump'[kind] = pump[kind], graced => graced', writer' \in {writer, "ended"},
           \/ relay' = relay
           \/ relay = "relays" /\ relay' = "drains"
           \/ relay = "flushes" /\ relay' = "over"
    PROVE  BridgeInv'
<1> USE DEF BridgeInv
<1>1. (Pumping' <=> Pumping) /\ (writer' = "runs" => writer = "runs")
  BY DEF Pumping, BridgeTyped
<1>2. PumpsTell'
  BY <1>1 DEF PumpsTell, PumpTold
<1>3. (AllCame' <=> AllCame) /\ LastIs'
  BY <1>1 DEF EndsOnce, LastIs, AllCame
<1>4. EndsOnce'
  BY <1>1, <1>3 DEF EndsOnce, Kinds
<1> QED
  BY <1>2, <1>4

LEMMA CameIsTyped == ASSUME BridgeTyped PROVE Came \in Seq(Messages)
  BY ConcatProperties DEF BridgeTyped, Came

(* A pump that stops or starts, while nothing is queued. *)
LEMMA PumpMoves ==
    ASSUME BridgeInv, BridgeTyped', Came' = Came, last' = last, graced' = graced, writer' = writer,
           relay' = relay, Pumping,
           \A kind \in Kinds : (read'[kind] = read[kind] /\ pump'[kind] = pump[kind]) \/ PumpTold(kind)',
           pump'["uni"] # "none", \A kind \in Kinds : read'[kind] \in Nat
    PROVE  BridgeInv'
<1> USE DEF BridgeInv
<1>1. Pumping'
  BY DEF Pumping
<1>2. ASSUME NEW kind \in Kinds PROVE PumpTold(kind)'
  BY <1>1 DEF PumpsTell, PumpTold
<1>3. EndsOnce'
  BY <1>1 DEF EndsOnce, LastIs
<1> QED
  BY <1>2, <1>3 DEF PumpsTell

(* drop(pumps), and what the end is to queue. *)
LEMMA RelayFlushes ==
    ASSUME BridgeInv, BridgeTyped', Pumping, NEW how \in {"app", "local", "loss", "left", "protocol"},
           Flushes(how), Came' = Came, UNCHANGED <<read, writer>>, graced => graced',
           how = "app" /\ ~graced' => \A kind \in Kinds : pump[kind] \notin {"reads", "holds"},
           how = "app" => pump["control"] \in {"none", "reads", "holds", "ended"}
                          /\ pump["uni"] \in {"none", "reads", "holds", "ended"}
    PROVE  BridgeInv'
<1> USE DEF BridgeInv
<1>1. relay' = "flushes" /\ ~Pumping' /\ \A kind \in Kinds : pump'[kind] = "ended"
  BY DEF Flushes, Dropped, Pumping, BridgeTyped, Kinds
<1>2. PumpsTell'
  BY <1>1 DEF PumpsTell, PumpTold
<1>3. ~Has(Came, "close") /\ ~Has(Came, "tag3")
  BY DEF EndsOnce
<1>4. how = "app" /\ writer = "runs" /\ ~graced' => AllCame'
  <2> SUFFICES ASSUME how = "app", writer = "runs", ~graced', NEW kind \in Kinds
               PROVE  Whole(Came, kind, read[kind])
    BY DEF AllCame
  <2>1. pump[kind] = "none" \/ pump[kind] = "ended"
    BY DEF Kinds
  <2>2. CASE pump[kind] = "none"
    BY <2>2 DEF PumpsTell, PumpTold, Whole
  <2> QED  BY <2>1, <2>2 DEF PumpsTell, PumpTold
<1>5. LastIs'
  <2>1. last' = Over(how)
    BY DEF Flushes
  <2>2. CASE how = "app"
    <3>1. last' = <<<<"tag3">>, <<"close", "normal">>>>
      BY <2>1, <2>2 DEF Over
    <3>2. Len(last') = 2 /\ last'[1][1] = "tag3" /\ last'[2][1] = "close"
      BY <3>1
    <3> QED  BY <1>3, <1>4, <2>2, <3>2 DEF LastIs
  <2>3. CASE how # "app"
    <3>1. Len(last') = 1 /\ last'[1][1] = "close"
      BY <2>1, <2>3 DEF Over
    <3> QED  BY <1>3, <3>1 DEF LastIs
  <2> QED  BY <2>2, <2>3
<1>6. EndsOnce'
  BY <1>1, <1>3, <1>5 DEF EndsOnce, Kinds
<1> QED
  BY <1>2, <1>6

LEMMA OverIsTyped ==
    ASSUME NEW how \in {"app", "local", "loss", "left", "protocol"} PROVE Over(how) \in Seq(Messages)
<1>1. /\ <<"tag3">> \in Messages /\ <<"close", "normal">> \in Messages /\ <<"close", "again">> \in Messages
      /\ <<"close", "error">> \in Messages /\ <<"close", "protocol">> \in Messages
  BY DEF Messages
<1> QED
  BY <1>1 DEF Over

(* One message queued. *)
LEMMA QueueGrows ==
    ASSUME BridgeTyped, NEW m \in Messages, Room, Reliable(m), onSocket' = onSocket
    PROVE  /\ Came' = Append(Came, m)
           /\ channels' \in [reliable : Seq(Messages), datagrams : Nat]
           /\ Len(channels'.reliable) <= QUEUE /\ channels'.datagrams = channels.datagrams
<1> DEFINE q == channels.reliable
<1>1. q \in Seq(Messages) /\ onSocket \in Seq(Messages)
  BY DEF BridgeTyped
<1>2. channels' = [channels EXCEPT !.reliable = Append(q, m)]
  BY DEF Reliable
<1>3. channels'.reliable = Append(q, m) /\ channels'.datagrams = channels.datagrams
  BY <1>2 DEF BridgeTyped
<1>4. channels' \in [reliable : Seq(Messages), datagrams : Nat] /\ Len(channels'.reliable) <= QUEUE
  <2>1. Append(q, m) \in Seq(Messages) /\ Len(Append(q, m)) = Len(q) + 1 /\ Len(q) \in Nat
    BY <1>1
  <2>2. Len(q) + 1 <= QUEUE
    BY <2>1, BridgeAssumption DEF Room, BridgeAssumption
  <2> HIDE DEF q
  <2> QED  BY <1>2, <1>3, <2>1, <2>2 DEF BridgeTyped
<1> HIDE DEF q
<1>5. onSocket \o Append(q, m) = Append(onSocket \o q, m)
  BY <1>1
<1> QED
  BY <1>3, <1>4, <1>5 DEF Came, q

LEMMA StreamQueued ==
    ASSUME BridgeInv, BridgeTyped', NEW kind \in Kinds, Pumping, pump[kind] = "holds",
           Came' = Append(Came, <<kind, read[kind]>>), pump' = [pump EXCEPT ![kind] = "reads"],
           UNCHANGED <<read, last, graced, writer, relay>>
    PROVE  BridgeInv'
<1> USE DEF BridgeInv
<1> DEFINE m == <<kind, read[kind]>>
<1>1. m \in Messages /\ m[1] = kind /\ m[2] = read[kind] /\ read[kind] \in Nat /\ read[kind] > 0
  BY DEF Messages, BridgeTyped, PumpsTell, PumpTold
<1>2. UpTo(Came, kind, read[kind] - 1) /\ Whole(Came, kind, read[kind] - 1)
  BY DEF PumpsTell, PumpTold
<1>3. kind # "close" /\ kind # "tag3" /\ kind \in DOMAIN pump /\ Pumping'
  BY DEF Kinds, BridgeTyped, Pumping
<1>4. Came \in Seq(Messages) /\ Came' = Append(Came, m)
  BY CameIsTyped
<1> HIDE DEF m
<1>5. ~Has(Came', "close") /\ ~Has(Came', "tag3")
  BY <1>1, <1>3, <1>4, AtTheEnd DEF EndsOnce
<1>6. Numbers(Came')
  <2>1. Numbers(Came) /\ read[kind] \in Nat \ {0}
    BY <1>1 DEF EndsOnce
  <2>2. m[1] \in Kinds => m[2] \in Nat \ {0} /\ UpTo(Came, m[1], m[2] - 1) /\ Whole(Came, m[1], m[2] - 1)
    BY <1>1, <1>2, <2>1
  <2> QED  BY <1>1, <1>4, <2>1, <2>2, AtTheEnd
<1>7. Closing(Came')
  BY <1>1, <1>4, AtTheEnd DEF EndsOnce
<1>8. PumpTold(kind)'
  <2>1. UpTo(Came, kind, read[kind])
    BY DEF PumpsTell, PumpTold
  <2>2. UpTo(Came', kind, read[kind])
    BY <1>1, <1>4, <2>1, AtTheEnd, SMTT(40)
  <2>3. Whole(Came', kind, read[kind])
    BY <1>1, <1>2, <1>4, AtTheEnd
  <2>4. pump'[kind] = "reads"
    BY <1>3
  <2> QED  BY <2>2, <2>3, <2>4 DEF PumpTold
<1>9. ASSUME NEW k \in Kinds, k # kind PROVE PumpTold(k)'
  <2>1. pump'[k] = pump[k]
    BY <1>9 DEF Kinds, BridgeTyped
  <2>2. ASSUME NEW n, UpTo(Came, k, n) PROVE UpTo(Came', k, n)
    BY <1>1, <1>4, <1>9, <2>2, AtTheEnd, SMTT(40)
  <2>3. ASSUME NEW n, Whole(Came, k, n) PROVE Whole(Came', k, n)
    BY <1>1, <1>4, <2>3, AtTheEnd
  <2> QED  BY <1>3, <2>1, <2>2, <2>3 DEF PumpsTell, PumpTold
<1>10. EndsOnce'
  BY <1>3, <1>5, <1>6, <1>7 DEF EndsOnce, LastIs, Kinds, BridgeTyped
<1> QED
  BY <1>8, <1>9, <1>10 DEF PumpsTell

LEMMA PongQueued ==
    ASSUME BridgeInv, BridgeTyped', Pumping, Came' = Append(Came, <<"pong">>),
           \A kind \in Kinds : pump'[kind] = pump[kind], UNCHANGED <<read, last, graced, writer, relay>>
    PROVE  BridgeInv'
<1> USE DEF BridgeInv
<1> DEFINE m == <<"pong">>
<1>1. m \in Messages /\ m[1] = "pong" /\ m[1] \notin Kinds
  BY DEF Messages, Kinds
<1>2. Came \in Seq(Messages) /\ Came' = Append(Came, m) /\ Pumping'
  BY CameIsTyped DEF Pumping
<1> HIDE DEF m
<1>3. ~Has(Came', "close") /\ ~Has(Came', "tag3")
  BY <1>1, <1>2, AtTheEnd DEF EndsOnce
<1>4. Numbers(Came') /\ Closing(Came')
  BY <1>1, <1>2, AtTheEnd DEF EndsOnce
<1>5. ASSUME NEW k \in Kinds PROVE PumpTold(k)'
  <2>1. ASSUME NEW n, UpTo(Came, k, n) PROVE UpTo(Came', k, n)
    BY <1>1, <1>2, <2>1, AtTheEnd
  <2>2. ASSUME NEW n, Whole(Came, k, n) PROVE Whole(Came', k, n)
    BY <1>1, <1>2, <2>2, AtTheEnd
  <2> QED  BY <1>2, <2>1, <2>2 DEF PumpsTell, PumpTold
<1>6. EndsOnce'
  BY <1>2, <1>3, <1>4 DEF EndsOnce, LastIs, Kinds, BridgeTyped
<1> QED
  BY <1>5, <1>6 DEF PumpsTell

LEMMA EndQueued ==
    ASSUME BridgeInv, BridgeTyped', relay = "flushes", last # <<>>, last' = Tail(last),
           \/ writer = "runs" /\ Came' = Append(Came, Head(last))
           \/ writer = "ended" /\ Came' = Came,
           UNCHANGED <<read, pump, graced, writer, relay>>
    PROVE  BridgeInv'
<1> USE DEF BridgeInv
<1>1. ~Pumping /\ ~Pumping'
  BY DEF Pumping
<1>2. Came \in Seq(Messages) /\ last \in Seq(Messages)
  BY CameIsTyped DEF BridgeTyped
<1>3. /\ Len(last) \in Nat /\ Len(last') = Len(last) - 1 /\ Head(last) = last[1] /\ Head(last) \in Messages
      /\ \A i \in 1..Len(last') : last'[i] = last[i + 1]
  BY <1>2
<1>4. (last' = <<>>) <=> Len(last') = 0
  BY EmptySeq DEF BridgeTyped
<1> DEFINE m == Head(last)
<1>5. m \in Messages /\ m[1] \in {"close", "tag3"} /\ m[1] \notin Kinds /\ ~Has(Came, "close")
  BY <1>3 DEF EndsOnce, LastIs, Kinds
<1>6. m[1] = "close" => Len(last') = 0
  BY <1>3 DEF EndsOnce, LastIs
<1>7. m[1] = "tag3" => /\ Len(last') = 1 /\ last'[1][1] = "close" /\ ~Has(Came, "tag3")
                       /\ writer = "runs" /\ ~graced => AllCame
  BY <1>3 DEF EndsOnce, LastIs
<1>8. CASE writer = "ended" /\ Came' = Came
  <2>1. LastIs'
    BY <1>4, <1>5, <1>6, <1>7, <1>8 DEF LastIs
  <2>2. PumpsTell'
    BY <1>1, <1>8 DEF PumpsTell, PumpTold
  <2> QED  BY <1>1, <1>8, <2>1, <2>2 DEF EndsOnce, AllCame
<1>9. CASE writer = "runs" /\ Came' = Append(Came, Head(last))
  <2>1. Came' = Append(Came, m)
    BY <1>9
  <2> HIDE DEF m
  <2>2. Numbers(Came')
    BY <1>2, <1>5, <2>1, AtTheEnd DEF EndsOnce
  <2>3. Closing(Came')
    <3>1. Has(Came, "tag3") => m[1] = "close"
      BY <1>5, <1>7
    <3>2. Closing(Came)
      BY DEF EndsOnce
    <3> QED  BY <1>2, <1>5, <2>1, <3>1, <3>2, AtTheEnd
  <2>4. ASSUME NEW k \in Kinds, NEW n, Whole(Came, k, n) PROVE Whole(Came', k, n)
    BY <1>2, <1>5, <2>1, <2>4, AtTheEnd
  <2>5. ASSUME NEW k \in Kinds, NEW n, UpTo(Came, k, n) PROVE UpTo(Came', k, n)
    BY <1>2, <1>5, <2>1, <2>5, AtTheEnd
  <2>6. PumpsTell'
    BY <1>1, <2>4, <2>5 DEF PumpsTell, PumpTold, EndsOnce
  <2>7. AllCame => AllCame'
    BY <2>4 DEF AllCame
  <2>8. Has(Came', "tag3") /\ ~graced => AllCame'
    <3>1. Has(Came', "tag3") => Has(Came, "tag3") \/ m[1] = "tag3"
      BY <1>2, <1>5, <2>1, AtTheEnd
    <3>2. Has(Came, "tag3") /\ ~graced => AllCame
      BY DEF EndsOnce
    <3> QED  BY <1>7, <1>9, <2>7, <3>1, <3>2
  <2>9. LastIs'
    <3>1. CASE m[1] = "close"
      BY <1>4, <1>6, <3>1 DEF LastIs
    <3>2. CASE m[1] = "tag3"
      <4>1. ~Has(Came', "close")
        BY <1>2, <1>5, <2>1, <3>2, AtTheEnd
      <4> QED  BY <1>7, <3>2, <4>1 DEF LastIs
    <3> QED  BY <1>5, <3>1, <3>2
  <2> QED  BY <1>1, <2>2, <2>3, <2>6, <2>8, <2>9 DEF EndsOnce
<1> QED
  BY <1>8, <1>9

LEMMA DatagramsCount ==
    ASSUME BridgeTyped, NEW n, \/ channels.datagrams > 0 /\ n = channels.datagrams - 1
                               \/ n = channels.datagrams + 1,
           channels' = [channels EXCEPT !.datagrams = n]
    PROVE  channels' \in [reliable : Seq(Messages), datagrams : Nat] /\ channels'.reliable = channels.reliable
           /\ channels'.datagrams = n
<1>1. n \in Nat
  BY DEF BridgeTyped
<1> QED
  BY <1>1 DEF BridgeTyped

(* A pump moves on: it is not the page's, and one that opens is none yet. *)
LEMMA PumpIsTyped ==
    ASSUME BridgeTyped, NEW kind \in Kinds, NEW state \in {"reads", "holds", "ended"},
           pump[kind] # "none", pump' = [pump EXCEPT ![kind] = state]
    PROVE  /\ pump' \in [{"control", "uni", "page"} -> Stages] /\ pump'[kind] = state
           /\ \A k \in Kinds : pump'[k] \in {"none", "reads", "holds", "ended"}
           /\ pump'["page"] = "opens" => pump'["control"] = "none"
  BY DEF BridgeTyped, Kinds, Stages

LEMMA WriterSendsKeeps == ASSUME BridgeInv, WriterSends PROVE BridgeInv'
<1> USE DEF BridgeInv
<1> DEFINE q == channels.reliable
<1>1. /\ writer = "runs" /\ writer' \in {"runs", "ended"}
      /\ UNCHANGED <<quic, hostSent, read, pump, page, relay, last, graced>>
  BY DEF WriterSends, hostVars
<1>2. q \in Seq(Messages) /\ onSocket \in Seq(Messages) /\ Len(q) \in Nat /\ Len(onSocket) \in Nat
  BY DEF BridgeTyped
<1>3. CASE q = <<>> /\ UNCHANGED onSocket /\ channels' = [channels EXCEPT !.datagrams = @ - 1]
           /\ channels.datagrams > 0
  <2>1. channels' \in [reliable : Seq(Messages), datagrams : Nat] /\ channels'.reliable = channels.reliable
        /\ channels'.datagrams = channels.datagrams - 1
    BY <1>3, DatagramsCount DEF BridgeTyped
  <2>2. channels'.datagrams <= QUEUE
    BY <2>1, BridgeAssumption DEF BridgeTyped, BridgeAssumption
  <2>3. Came' = Came
    BY <1>3, <2>1 DEF Came
  <2>4. BridgeTyped'
    BY <1>1, <1>3, <2>1, <2>2 DEF BridgeTyped
  <2> QED  BY <1>1, <2>3, <2>4, RelayStill
<1>4. CASE q # <<>> /\ Onto(Head(q)) /\ channels' = [channels EXCEPT !.reliable = Tail(q)]
  <2>1. channels'.reliable = Tail(q) /\ channels'.datagrams = channels.datagrams
    BY <1>4 DEF BridgeTyped
  <2>2. /\ Tail(q) \in Seq(Messages) /\ Len(Tail(q)) = Len(q) - 1 /\ Head(q) \in Messages /\ Head(q) = q[1]
        /\ \A i \in 1..Len(Tail(q)) : Tail(q)[i] = q[i + 1]
    BY <1>2, <1>4
  <2>3. Len(channels'.reliable) <= QUEUE
    BY <1>2, <2>1, <2>2, BridgeAssumption DEF BridgeTyped, BridgeAssumption
  <2>4. channels' \in [reliable : Seq(Messages), datagrams : Nat]
    BY <1>4, <2>2 DEF BridgeTyped
  <2>5. onSocket' \in Seq(Messages)
    BY <1>2, <1>4, <2>2 DEF Onto
  <2>6. BridgeTyped'
    BY <1>1, <2>1, <2>3, <2>4, <2>5 DEF BridgeTyped
  <2> HIDE DEF q
  <2>7. CASE Head(q)[1] # "pong"
    <3>1. onSocket' = Append(onSocket, Head(q))
      BY <1>4, <2>7 DEF Onto
    <3>2. Append(onSocket, Head(q)) \o Tail(q) = onSocket \o q
      BY <1>2, <1>4, <2>2
    <3>3. Came' = Came
      BY <2>1, <3>1, <3>2 DEF Came, q
    <3> QED  BY <1>1, <2>6, <3>3, RelayStill
  <2>8. CASE Head(q)[1] = "pong"
    <3> DEFINE s == onSocket \o q
               t == onSocket \o Tail(q)
               k == Len(onSocket) + 1
    <3>1. onSocket' = onSocket /\ Came' = t /\ Came = s
      BY <1>4, <2>1, <2>8 DEF Onto, Came, q
    <3>2. s \in Seq(Messages) /\ t \in Seq(Messages) /\ Len(s) = Len(onSocket) + Len(q)
          /\ Len(t) = Len(onSocket) + Len(q) - 1
      BY <1>2, <2>2
    <3>3. Len(q) > 0
      BY <1>2, <1>4
    <3>4. k \in 1..Len(s) /\ s[k] = Head(q)
      BY <1>2, <2>2, <3>2, <3>3
    <3>5. ASSUME NEW i \in 1..Len(t) PROVE t[i] = IF i < k THEN s[i] ELSE s[i + 1]
      <4>1. CASE i < k
        BY <1>2, <2>2, <3>2, <4>1
      <4>2. CASE ~(i < k)
        <5>1. i - Len(onSocket) \in 1..Len(Tail(q)) /\ i > Len(onSocket) /\ i + 1 \in 1..Len(s)
          BY <1>2, <2>2, <3>2, <4>2
        <5>2. t[i] = Tail(q)[i - Len(onSocket)]
          BY <1>2, <2>2, <5>1
        <5>3. s[i + 1] = q[i + 1 - Len(onSocket)]
          BY <1>2, <2>2, <5>1
        <5>4. Tail(q)[i - Len(onSocket)] = q[i - Len(onSocket) + 1]
          BY <2>2, <5>1
        <5> QED  BY <1>2, <4>2, <5>2, <5>3, <5>4
      <4> QED  BY <4>1, <4>2
    <3>6. s[k][1] = "pong" /\ Len(t) = Len(s) - 1
      BY <1>2, <2>8, <3>2, <3>4
    <3> HIDE DEF s, t, k
    <3>7. /\ \A tag : Has(t, tag) => Has(s, tag)
          /\ \A kind, n : UpTo(s, kind, n) => UpTo(t, kind, n)
          /\ \A kind \in Kinds : \A n : Whole(s, kind, n) => Whole(t, kind, n)
          /\ Closing(s) => Closing(t)
          /\ Numbers(s) => Numbers(t)
      BY <3>2, <3>4, <3>5, <3>6, OneLess
    <3>8. (Pumping' <=> Pumping) /\ (writer' = "runs" => writer = "runs")
      BY <1>1 DEF Pumping
    <3>9. PumpsTell'
      BY <1>1, <3>1, <3>7, <3>8 DEF PumpsTell, PumpTold
    <3>10. AllCame => AllCame'
      BY <1>1, <3>1, <3>7 DEF AllCame
    <3>11. ~Has(Came, "close") => ~Has(Came', "close")
      BY <3>1, <3>7
    <3>12. ~Has(Came, "tag3") => ~Has(Came', "tag3")
      BY <3>1, <3>7
    <3>13. LastIs'
      BY <1>1, <3>10, <3>11, <3>12 DEF EndsOnce, LastIs
    <3>14. Numbers(Came') /\ Closing(Came')
      BY <3>1, <3>7 DEF EndsOnce
    <3>15. EndsOnce'
      BY <1>1, <3>8, <3>10, <3>11, <3>12, <3>13, <3>14 DEF EndsOnce
    <3> QED  BY <2>6, <3>9, <3>15
  <2> QED  BY <2>7, <2>8
<1> QED
  BY <1>3, <1>4 DEF WriterSends

(***************************************************************************)
(* The actions.                                                            *)
(***************************************************************************)
LEMMA HostMoves ==
    ASSUME BridgeInv, \/ \E kind \in Kinds : HostSends(kind)
                      \/ \E how \in {"app", "loss", "local"} : ConnCloses(how)
                      \/ DatagramRead \/ WriterFails \/ PageMoves \/ UNCHANGED bridgeVars
    PROVE  BridgeInv'
<1> USE DEF BridgeInv
<1>1. CASE \E kind \in Kinds : HostSends(kind)
  <2>1. PICK kind \in Kinds : HostSends(kind)
    BY <1>1
  <2>2. BridgeTyped'
    BY <2>1 DEF HostSends, BridgeTyped
  <2> QED  BY <2>1, <2>2, RelayStill DEF HostSends, Came
<1>2. CASE \E how \in {"app", "loss", "local"} : ConnCloses(how)
  <2>1. BridgeTyped'
    BY <1>2 DEF ConnCloses, BridgeTyped
  <2> QED  BY <1>2, <2>1, RelayStill DEF ConnCloses, Came
<1>3. CASE DatagramRead
  <2>1. /\ channels' \in [reliable : Seq(Messages), datagrams : Nat]
        /\ channels'.reliable = channels.reliable /\ channels'.datagrams = channels.datagrams + 1
    BY <1>3, DatagramsCount DEF DatagramRead, BridgeTyped
  <2>2. channels'.datagrams <= QUEUE
    BY <1>3, <2>1, BridgeAssumption DEF DatagramRead, BridgeTyped, BridgeAssumption
  <2>3. BridgeTyped'
    BY <1>3, <2>1, <2>2 DEF DatagramRead, BridgeTyped, hostVars
  <2> QED  BY <1>3, <2>1, <2>3, RelayStill DEF DatagramRead, Came, hostVars
<1>4. CASE WriterFails \/ PageMoves \/ UNCHANGED bridgeVars
  <2>1. BridgeTyped'
    BY <1>4 DEF WriterFails, PageMoves, bridgeVars, hostVars, BridgeTyped
  <2> QED  BY <1>4, <2>1, RelayStill DEF WriterFails, PageMoves, bridgeVars, hostVars, Came
<1> QED
  BY <1>1, <1>2, <1>3, <1>4

LEMMA PumpsMove ==
    ASSUME BridgeInv, NEW kind \in Kinds, PumpReads(kind) \/ PumpSends(kind) \/ PumpEnds(kind)
    PROVE  BridgeInv'
<1> USE DEF BridgeInv
<1>0. kind \in DOMAIN pump /\ kind \in DOMAIN read /\ read[kind] \in Nat /\ kind # "page" /\ DOMAIN pump = {"control", "uni", "page"}
  BY DEF BridgeTyped, Kinds
<1>1. CASE PumpReads(kind)
  <2>1. /\ pump[kind] = "reads" /\ pump' = [pump EXCEPT ![kind] = "holds"] /\ Pumping
        /\ read' = [read EXCEPT ![kind] = @ + 1] /\ read[kind] < hostSent[kind]
        /\ UNCHANGED <<quic, hostSent, channels, onSocket, page, writer, relay, last, graced>>
    BY <1>1 DEF PumpReads, hostVars
  <2>2. BridgeTyped'
    <3>1. /\ pump' \in [{"control", "uni", "page"} -> Stages]
          /\ \A k \in Kinds : pump'[k] \in {"none", "reads", "holds", "ended"}
          /\ pump'["page"] = "opens" => pump'["control"] = "none"
      BY <2>1, PumpIsTyped
    <3>2. read' \in [Kinds -> Nat] /\ \A k \in Kinds : read'[k] <= hostSent[k]
      BY <1>0, <2>1 DEF BridgeTyped
    <3> QED  BY <2>1, <3>1, <3>2 DEF BridgeTyped
  <2>3. read'[kind] = read[kind] + 1 /\ pump'[kind] = "holds" /\ Came' = Came
    BY <1>0, <2>1 DEF Came
  <2>4. PumpTold(kind)'
    <3>1. UpTo(Came, kind, read[kind]) /\ Whole(Came, kind, read[kind])
      BY <2>1 DEF PumpsTell, PumpTold
    <3>2. UpTo(Came, kind, read[kind] + 1)
      <4>1. \A i \in 1..Len(Came) : Came[i][1] = kind => Came[i][2] \in Nat
        BY DEF EndsOnce, Numbers
      <4> QED  BY <1>0, <3>1, <4>1 DEF UpTo
    <3>3. read'[kind] - 1 = read[kind] /\ read'[kind] > 0
      BY <1>0, <2>3
    <3> QED  BY <2>3, <3>1, <3>2, <3>3 DEF PumpTold
  <2>5. \A k \in Kinds : k # kind => read'[k] = read[k] /\ pump'[k] = pump[k]
    BY <2>1 DEF BridgeTyped, Kinds
  <2>6. pump'["uni"] # "none" /\ \A k \in Kinds : read'[k] \in Nat
    BY <2>1, <2>2 DEF EndsOnce, BridgeTyped
  <2> QED  BY <2>1, <2>2, <2>3, <2>4, <2>5, <2>6, PumpMoves
<1>2. CASE \/ PumpEnds(kind)
           \/ PumpSends(kind) /\ writer = "ended" /\ pump' = [pump EXCEPT ![kind] = "ended"] /\ UNCHANGED channels
  <2>1. /\ pump' = [pump EXCEPT ![kind] = "ended"] /\ Pumping
        /\ pump[kind] = "reads" \/ writer = "ended"
        /\ UNCHANGED <<quic, hostSent, read, channels, onSocket, page, writer, relay, last, graced>>
    BY <1>2 DEF PumpEnds, PumpSends, hostVars
  <2>2. BridgeTyped'
    <3>1. pump[kind] # "none"
      BY <1>2 DEF PumpEnds, PumpSends
    <3>2. /\ pump' \in [{"control", "uni", "page"} -> Stages]
          /\ \A k \in Kinds : pump'[k] \in {"none", "reads", "holds", "ended"}
          /\ pump'["page"] = "opens" => pump'["control"] = "none"
      BY <2>1, <3>1, PumpIsTyped
    <3> QED  BY <2>1, <3>2 DEF BridgeTyped
  <2>3. read'[kind] = read[kind] /\ pump'[kind] = "ended" /\ Came' = Came
    BY <1>0, <2>1 DEF Came
  <2>4. PumpTold(kind)'
    BY <2>1, <2>3 DEF PumpsTell, PumpTold
  <2>5. \A k \in Kinds : k # kind => read'[k] = read[k] /\ pump'[k] = pump[k]
    BY <2>1 DEF BridgeTyped, Kinds
  <2>6. pump'["uni"] # "none" /\ \A k \in Kinds : read'[k] \in Nat
    BY <2>1, <2>2 DEF EndsOnce, BridgeTyped
  <2> QED  BY <2>1, <2>2, <2>3, <2>4, <2>5, <2>6, PumpMoves
<1>3. CASE PumpSends(kind) /\ writer = "runs" /\ Room /\ Reliable(<<kind, read[kind]>>)
           /\ pump' = [pump EXCEPT ![kind] = "reads"]
  <2>1. /\ Pumping /\ pump[kind] = "holds"
        /\ UNCHANGED <<quic, hostSent, read, onSocket, page, writer, relay, last, graced>>
    BY <1>3 DEF PumpSends, hostVars
  <2>2. <<kind, read[kind]>> \in Messages
    BY <1>0 DEF Messages
  <2>3. /\ Came' = Append(Came, <<kind, read[kind]>>)
        /\ channels' \in [reliable : Seq(Messages), datagrams : Nat]
        /\ Len(channels'.reliable) <= QUEUE /\ channels'.datagrams = channels.datagrams
    BY <1>3, <2>1, <2>2, QueueGrows
  <2>4. BridgeTyped'
    <3>1. /\ pump' \in [{"control", "uni", "page"} -> Stages]
          /\ \A k \in Kinds : pump'[k] \in {"none", "reads", "holds", "ended"}
          /\ pump'["page"] = "opens" => pump'["control"] = "none"
      BY <1>3, <2>1, PumpIsTyped
    <3> QED  BY <2>1, <2>3, <3>1 DEF BridgeTyped
  <2> QED  BY <1>3, <2>1, <2>3, <2>4, StreamQueued
<1> QED
  BY <1>1, <1>2, <1>3 DEF PumpSends

LEMMA FlushIsTyped ==
    ASSUME BridgeTyped, NEW how \in {"app", "local", "loss", "left", "protocol"}, Flushes(how),
           quic' \in {quic, "local"}, UNCHANGED <<hostSent, read, channels, onSocket, page, writer>>,
           graced' \in BOOLEAN
    PROVE  BridgeTyped'
<1>1. last' \in Seq(Messages) /\ relay' = "flushes"
  BY OverIsTyped DEF Flushes
<1>2. /\ pump' \in [{"control", "uni", "page"} -> Stages] /\ pump'["page"] = "ended"
      /\ \A kind \in Kinds : pump'[kind] = "ended"
  BY DEF Flushes, Dropped, BridgeTyped, Stages, Kinds
<1> QED
  BY <1>1, <1>2 DEF BridgeTyped

LEMMA ConnEndedKeeps == ASSUME BridgeInv, ConnEnded PROVE BridgeInv'
<1> USE DEF BridgeInv
<1>1. /\ relay = "relays" /\ quic \in {"app", "local", "loss"} /\ Pumping
      /\ UNCHANGED <<quic, hostSent, read, channels, onSocket, page, writer, graced>> /\ Came' = Came
  BY DEF ConnEnded, hostVars, BridgeTyped, Pumping, Came
<1>2. CASE quic = "app"
  <2>1. relay' = "drains" /\ pump' = [pump EXCEPT !.page = "ended"] /\ last' = last
    BY <1>2 DEF ConnEnded
  <2>2. pump' \in [{"control", "uni", "page"} -> Stages] /\ pump'["page"] = "ended"
        /\ \A kind \in Kinds : pump'[kind] = pump[kind]
    BY <2>1 DEF BridgeTyped, Stages, Kinds
  <2>3. BridgeTyped'
    BY <1>1, <2>1, <2>2 DEF BridgeTyped
  <2> QED  BY <1>1, <2>1, <2>2, <2>3, RelayStill
<1>3. CASE quic # "app"
  <2>1. Flushes(quic) /\ quic \in {"app", "local", "loss", "left", "protocol"}
    BY <1>1, <1>3 DEF ConnEnded
  <2>2. BridgeTyped'
    BY <1>1, <2>1, FlushIsTyped DEF BridgeTyped
  <2> QED  BY <1>1, <1>3, <2>1, <2>2, RelayFlushes
<1> QED
  BY <1>2, <1>3

LEMMA PageEndsKeeps ==
    ASSUME BridgeInv, relay = "relays", NEW end \in {"left", "protocol"}, PageEnds(end) PROVE BridgeInv'
<1> USE DEF BridgeInv
<1>1. CASE quic # "open"
  BY <1>1, ConnEndedKeeps DEF PageEnds
<1>2. CASE quic = "open"
  <2>1. /\ Flushes(end) /\ quic' = "local" /\ Pumping
        /\ UNCHANGED <<hostSent, read, channels, onSocket, page, writer, graced>> /\ Came' = Came
    BY <1>2 DEF PageEnds, Pumping, Came
  <2>2. BridgeTyped'
    BY <2>1, FlushIsTyped DEF BridgeTyped
  <2>3. end \in {"app", "local", "loss", "left", "protocol"} /\ end # "app"
    OBVIOUS
  <2> QED  BY <2>1, <2>2, <2>3, RelayFlushes
<1> QED
  BY <1>1, <1>2

LEMMA PageNowKeeps ==
    ASSUME BridgeInv, NEW state \in Stages, PageNow(state), state = "opens" => pump["control"] = "none"
    PROVE  BridgeInv'
<1> USE DEF BridgeInv
<1>1. /\ pump' = [pump EXCEPT !.page = state]
      /\ UNCHANGED <<quic, hostSent, read, channels, onSocket, page, writer, relay, last, graced>>
  BY DEF PageNow, hostVars
<1>2. /\ pump' \in [{"control", "uni", "page"} -> Stages] /\ pump'["page"] = state
      /\ \A kind \in Kinds : pump'[kind] = pump[kind] /\ pump'["control"] = pump["control"]
  BY <1>1 DEF BridgeTyped, Kinds
<1>3. pump'["page"] = "opens" => pump'["control"] = "none"
  BY <1>2 DEF Kinds
<1>4. BridgeTyped'
  BY <1>1, <1>2, <1>3 DEF BridgeTyped
<1> QED
  BY <1>1, <1>2, <1>4, RelayStill DEF Came

LEMMA FromPageKeeps ==
    ASSUME BridgeInv, \/ \E end \in {"left", "protocol"} : FromPageEnds(end)
                      \/ FromPageControl \/ ControlOpens \/ ControlWritten \/ FromPagePing \/ PongSends
    PROVE  BridgeInv'
<1> USE DEF BridgeInv
<1>1. CASE \E end \in {"left", "protocol"} : FromPageEnds(end)
  BY <1>1, PageEndsKeeps DEF FromPageEnds, PageReads
<1>2. CASE FromPageControl \/ FromPagePing
  <2>1. CASE FromPageControl
    <3>1. CASE pump["control"] = "none"
      BY <2>1, <3>1, PageNowKeeps DEF FromPageControl, Stages
    <3>2. CASE pump["control"] # "none"
      BY <2>1, <3>2, PageNowKeeps DEF FromPageControl, Stages
    <3> QED  BY <3>1, <3>2
  <2>2. CASE FromPagePing
    BY <2>2, PageNowKeeps DEF FromPagePing, Stages
  <2> QED  BY <1>2, <2>1, <2>2
<1>3. CASE ControlWritten
  BY <1>3, PageNowKeeps, PageEndsKeeps DEF ControlWritten, Stages
<1>4. CASE ControlOpens
  <2>1. CASE quic = "open"
    <3>1. /\ relay = "relays" /\ Pumping /\ pump["page"] = "opens" /\ pump["control"] = "none"
          /\ pump' = [pump EXCEPT !.page = "writes", !.control = "reads"] /\ Came' = Came
          /\ UNCHANGED <<quic, hostSent, read, channels, onSocket, page, writer, relay, last, graced>>
      BY <1>4, <2>1 DEF ControlOpens, BridgeTyped, Pumping, Came, hostVars
    <3>2. /\ pump' \in [{"control", "uni", "page"} -> Stages] /\ pump'["page"] = "writes"
          /\ pump'["control"] = "reads" /\ pump'["uni"] = pump["uni"]
      BY <3>1 DEF BridgeTyped, Stages
    <3>3. BridgeTyped'
      BY <3>1, <3>2 DEF BridgeTyped, Kinds
    <3>4. read["control"] = 0 /\ UpTo(Came, "control", 0)
      BY <3>1 DEF PumpsTell, PumpTold, Kinds
    <3>5. Whole(Came, "control", 0)
      BY DEF Whole
    <3>6. PumpTold("control")'
      BY <3>1, <3>2, <3>4, <3>5 DEF PumpTold
    <3>7. \A kind \in Kinds : (read'[kind] = read[kind] /\ pump'[kind] = pump[kind]) \/ PumpTold(kind)'
      BY <3>1, <3>2, <3>6 DEF Kinds
    <3>8. pump'["uni"] # "none" /\ \A kind \in Kinds : read'[kind] \in Nat
      BY <3>1, <3>2 DEF BridgeTyped, EndsOnce
    <3> QED  BY <3>1, <3>3, <3>7, <3>8, PumpMoves
  <2>2. CASE quic # "open"
    BY <1>4, <2>2, PageEndsKeeps DEF ControlOpens
  <2> QED  BY <2>1, <2>2
<1>5. CASE PongSends
  <2>1. CASE PageEnds("left")
    BY <1>5, <2>1, PageEndsKeeps DEF PongSends
  <2>2. CASE writer = "runs" /\ Room /\ Reliable(<<"pong">>) /\ pump' = [pump EXCEPT !.page = "reads"]
             /\ UNCHANGED <<hostVars, read, onSocket, page, writer, relay, last, graced>>
    <3>1. <<"pong">> \in Messages /\ Pumping
      BY <1>5 DEF Messages, PongSends, Pumping
    <3>2. /\ Came' = Append(Came, <<"pong">>)
          /\ channels' \in [reliable : Seq(Messages), datagrams : Nat]
          /\ Len(channels'.reliable) <= QUEUE /\ channels'.datagrams = channels.datagrams
      BY <2>2, <3>1, QueueGrows
    <3>3. pump' \in [{"control", "uni", "page"} -> Stages] /\ pump'["page"] = "reads"
          /\ \A kind \in Kinds : pump'[kind] = pump[kind]
      BY <2>2 DEF BridgeTyped, Stages, Kinds
    <3>4. BridgeTyped'
      BY <2>2, <3>2, <3>3 DEF BridgeTyped, hostVars
    <3> QED  BY <2>2, <3>1, <3>2, <3>3, <3>4, PongQueued
  <2> QED  BY <1>5, <2>1, <2>2 DEF PongSends
<1> QED
  BY <1>1, <1>2, <1>3, <1>4, <1>5

LEMMA EndMoves == ASSUME BridgeInv, Drained \/ FlushSends \/ Flushed \/ FlushAborted PROVE BridgeInv'
<1> USE DEF BridgeInv
<1>1. CASE Drained
  <2>1. /\ relay = "drains" /\ Pumping /\ Flushes("app") /\ Came' = Came
        /\ graced' = (graced \/ \E kind \in {"control", "uni"} : pump[kind] \in {"reads", "holds"})
        /\ UNCHANGED <<quic, hostSent, read, channels, onSocket, page, writer>>
    BY <1>1 DEF Drained, Pumping, Came, hostVars
  <2>2. graced' \in BOOLEAN /\ (graced => graced')
    BY <2>1 DEF BridgeTyped
  <2>3. BridgeTyped'
    BY <2>1, <2>2, FlushIsTyped
  <2>4. ~graced' => \A kind \in Kinds : pump[kind] \notin {"reads", "holds"}
    BY <2>1 DEF Kinds
  <2>5. \A kind \in Kinds : pump[kind] \in {"none", "reads", "holds", "ended"}
    BY DEF BridgeTyped
  <2>6. UNCHANGED <<read, writer>>
    BY <2>1
  <2> QED  BY <2>1, <2>2, <2>3, <2>4, <2>5, <2>6, RelayFlushes DEF Kinds
<1>2. CASE FlushSends
  <2>1. /\ relay = "flushes" /\ last # <<>> /\ last' = Tail(last)
        /\ UNCHANGED <<quic, hostSent, read, pump, onSocket, page, writer, relay, graced>>
    BY <1>2 DEF FlushSends, hostVars
  <2>2. Head(last) \in Messages /\ Tail(last) \in Seq(Messages)
    BY <2>1, HeadTailProperties DEF BridgeTyped
  <2>3. CASE writer = "runs" /\ Room /\ Reliable(Head(last))
    <3>1. /\ Came' = Append(Came, Head(last))
          /\ channels' \in [reliable : Seq(Messages), datagrams : Nat]
          /\ Len(channels'.reliable) <= QUEUE /\ channels'.datagrams = channels.datagrams
      BY <2>1, <2>2, <2>3, QueueGrows
    <3>2. BridgeTyped'
      BY <2>1, <2>2, <3>1 DEF BridgeTyped
    <3> QED  BY <2>1, <2>3, <3>1, <3>2, EndQueued
  <2>4. CASE writer = "ended" /\ UNCHANGED channels
    <3>1. BridgeTyped' /\ Came' = Came
      BY <2>1, <2>2, <2>4 DEF BridgeTyped, Came
    <3> QED  BY <2>1, <2>4, <3>1, EndQueued
  <2> QED  BY <1>2, <2>3, <2>4 DEF FlushSends
<1>3. CASE Flushed \/ FlushAborted
  <2>1. BridgeTyped' /\ Came' = Came
    BY <1>3 DEF Flushed, FlushAborted, BridgeTyped, Came, hostVars
  <2> QED  BY <1>3, <2>1, RelayStill DEF Flushed, FlushAborted
<1> QED
  BY <1>1, <1>2, <1>3

LEMMA BridgeBegins == BridgeInit => BridgeInv
<1> SUFFICES ASSUME BridgeInit PROVE BridgeInv
  OBVIOUS
<1>1. /\ Len(channels.reliable) = 0 /\ Len(onSocket) = 0 /\ Came = <<>> /\ Pumping /\ last = <<>>
      /\ \A kind \in Kinds : read[kind] = 0 /\ hostSent[kind] = 0
  <2>1. channels.reliable = <<>> /\ onSocket = <<>> /\ relay = "relays" /\ last = <<>>
    BY DEF BridgeInit
  <2>2. <<>> \o <<>> = <<>>
    OBVIOUS
  <2>3. \A kind \in Kinds : read[kind] = 0 /\ hostSent[kind] = 0
    BY DEF BridgeInit, None, Kinds
  <2> QED  BY <2>1, <2>2, <2>3, EmptySeq DEF Came, Pumping
<1>2. read \in [Kinds -> Nat] /\ hostSent \in [Kinds -> Nat]
  BY DEF BridgeInit, None, Kinds
<1>3. /\ pump \in [{"control", "uni", "page"} -> Stages] /\ pump["page"] = "reads" /\ pump["uni"] = "reads"
      /\ pump["control"] = "none"
  BY DEF BridgeInit, Stages
<1>4. BridgeTyped
  <2>1. /\ channels \in [reliable : Seq(Messages), datagrams : Nat] /\ onSocket \in Seq(Messages)
        /\ last \in Seq(Messages) /\ channels.datagrams = 0
    BY EmptySeq DEF BridgeInit
  <2>2. QUEUE \in Nat
    BY BridgeAssumption DEF BridgeAssumption
  <2>3. /\ Len(channels.reliable) <= QUEUE /\ channels.datagrams <= QUEUE
        /\ \A kind \in Kinds : read[kind] <= hostSent[kind]
        /\ \A kind \in Kinds : pump[kind] \in {"none", "reads", "holds", "ended"}
    BY <1>1, <1>3, <2>1, <2>2 DEF Kinds
  <2>4. /\ quic = "open" /\ page = "reads" /\ relay = "relays" /\ writer = "runs" /\ graced = FALSE
    BY DEF BridgeInit
  <2> QED  BY <1>2, <1>3, <2>1, <2>3, <2>4 DEF BridgeTyped
<1>5. PumpsTell
  BY <1>1, <1>3 DEF PumpsTell, PumpTold, UpTo, Whole, Kinds
<1>6. EndsOnce
  BY <1>1, <1>3 DEF EndsOnce, LastIs, Numbers, Closing, Has
<1> QED
  BY <1>4, <1>5, <1>6 DEF BridgeInv

(* The close is last on the socket, and all that was read is there before the host's reason. *)
LEMMA SocketEnds == ASSUME BridgeInv PROVE HostCloseComesLast
<1> USE DEF BridgeInv
<1>1. /\ onSocket \in Seq(Messages) /\ channels.reliable \in Seq(Messages) /\ Came \in Seq(Messages)
      /\ Len(onSocket) \in Nat /\ Len(Came) = Len(onSocket) + Len(channels.reliable)
      /\ \A i \in 1..Len(onSocket) : i \in 1..Len(Came) /\ Came[i] = onSocket[i]
  BY CameIsTyped DEF BridgeTyped, Came
<1>2. Closing(Came) /\ (Has(Came, "tag3") /\ ~graced => AllCame)
  BY DEF EndsOnce
<1> SUFFICES ASSUME NEW i \in 1..Len(onSocket)
             PROVE  /\ onSocket[i][1] = "close" => i = Len(onSocket)
                    /\ onSocket[i][1] = "tag3" =>
                        /\ \A j \in i + 1..Len(onSocket) : onSocket[j][1] = "close"
                        /\ ~graced => \A kind \in {"control", "uni"} : \A n \in 1..read[kind] :
                                          CameBy(onSocket, i, kind, n)
  BY <1>1 DEF HostCloseComesLast
<1>3. ASSUME NEW j \in 1..Len(onSocket), i < j
      PROVE  onSocket[i][1] # "close" /\ (onSocket[i][1] = "tag3" => onSocket[j][1] = "close")
  BY <1>1, <1>2, <1>3 DEF Closing
<1>4. onSocket[i][1] = "close" => i = Len(onSocket)
  BY <1>1, <1>3
<1>5. onSocket[i][1] = "tag3" => \A j \in i + 1..Len(onSocket) : onSocket[j][1] = "close"
  BY <1>1, <1>3
<1>6. ASSUME onSocket[i][1] = "tag3", ~graced, NEW kind \in {"control", "uni"}, NEW n \in 1..read[kind]
      PROVE  CameBy(onSocket, i, kind, n)
  <2>1. Has(Came, "tag3") /\ Came[i][1] = "tag3" /\ i \in 1..Len(Came)
    BY <1>1, <1>6 DEF Has
  <2>2. PICK j \in 1..Len(Came) : Came[j][1] = kind /\ Came[j][2] = n
    BY <1>2, <1>6, <2>1 DEF AllCame, Whole, Kinds
  <2>3. ~(i < j)
    BY <1>2, <2>1, <2>2 DEF Closing
  <2>4. j \in 1..i
    BY <1>1, <2>2, <2>3
  <2>5. onSocket[j] = Came[j]
    BY <1>1, <2>4
  <2> QED  BY <2>2, <2>4, <2>5 DEF CameBy
<1> QED
  BY <1>4, <1>5, <1>6

LEMMA BridgeGoesOn == BridgeInv /\ [BridgeNext]_bridgeVars => BridgeInv'
<1> SUFFICES ASSUME BridgeInv, [BridgeNext]_bridgeVars PROVE BridgeInv'
  OBVIOUS
<1>1. CASE \/ \E kind \in Kinds : HostSends(kind)
           \/ \E how \in {"app", "loss", "local"} : ConnCloses(how)
           \/ DatagramRead \/ WriterFails \/ PageMoves \/ UNCHANGED bridgeVars
  BY <1>1, HostMoves
<1>2. CASE \E kind \in Kinds : PumpReads(kind) \/ PumpSends(kind) \/ PumpEnds(kind)
  BY <1>2, PumpsMove
<1>3. CASE WriterSends \/ ConnEnded
  BY <1>3, WriterSendsKeeps, ConnEndedKeeps
<1>4. CASE \/ \E end \in {"left", "protocol"} : FromPageEnds(end)
           \/ FromPageControl \/ ControlOpens \/ ControlWritten \/ FromPagePing \/ PongSends
  BY <1>4, FromPageKeeps
<1>5. CASE Drained \/ FlushSends \/ Flushed \/ FlushAborted
  BY <1>5, EndMoves
<1> QED  BY <1>1, <1>2, <1>3, <1>4, <1>5 DEF BridgeNext, Kinds

(* A page gets its host's streams whole and in order, up to some point, and the end comes after
   them: however slow the page, whichever side ends it (bridge.rs relay, to_page, host_control,
   host_unis, flush). *)
THEOREM BridgeHolds == BridgeSpec => [](BridgeTypeOK /\ BridgeDelivers)
<1>1. BridgeInv => BridgeTypeOK /\ BridgeDelivers
  <2> SUFFICES ASSUME BridgeInv PROVE BridgeTypeOK /\ BridgeDelivers
    OBVIOUS
  <2>1. BridgeTypeOK
    BY DEF BridgeInv, BridgeTyped, BridgeTypeOK
  <2>2. StreamsArriveInOrder
    <3>1. Came \in Seq(Messages) /\ Numbers(Came)
      BY CameIsTyped DEF BridgeInv, EndsOnce
    <3>2. ASSUME NEW i \in 1..Len(Came), Came[i][1] \in {"control", "uni"}
          PROVE  /\ \A n \in 1..Came[i][2] - 1 : CameBy(Came, i - 1, Came[i][1], n)
                 /\ \A j \in 1..i - 1 : Came[j][1] = Came[i][1] => Came[j][2] < Came[i][2]
      BY <3>1, <3>2 DEF Numbers, Kinds, CameBy
    <3>3. DOMAIN Came = 1..Len(Came)
      BY <3>1
    <3> QED  BY <3>2, <3>3, Zenon DEF StreamsArriveInOrder, Came
  <2> QED  BY <2>1, <2>2, SocketEnds DEF BridgeDelivers
<1> QED
  BY <1>1, BridgeGoesOn, BridgeBegins, PTL DEF BridgeSpec
=============================================================================

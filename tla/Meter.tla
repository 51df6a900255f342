------------------------------- MODULE Meter -------------------------------
(***************************************************************************)
(* The meters of lanes.rs: a token bucket per visitor address and one for  *)
(* all of them.  A meter tracks KEYS addresses; past that a new one shares *)
(* the bucket of the unknown visitors.                                     *)
(***************************************************************************)
EXTENDS Integers, FiniteSets

CONSTANTS
    Visitors,    \* addresses, one per subscriber
    Unknown,     \* the key of visitors without one
    KEYS, Each, All   \* addresses tracked; tokens per address and together

ASSUME MeterAssumption ==
    Unknown \notin Visitors /\ {KEYS, Each, All} \subseteq Nat \ {0}

VARIABLES
    meter,   \* each, the buckets by key, and all; `swept`: a sweep is not due
    asked    \* history: tokens each visitor took of buckets of its own, less what time gave back

meterVars == <<meter, asked>>

Keys == Visitors \cup {Unknown}
MeterInit == meter = [each |-> <<>>, all |-> All, swept |-> FALSE] /\ asked = [v \in Visitors |-> 0]

Full(m) == Cardinality(DOMAIN m.each) >= KEYS
Without(m, gone) ==
    [m EXCEPT !.each = [k \in DOMAIN m.each \ gone |-> m.each[k]], !.swept = TRUE]

SweepsAny(m) == Without(m, {k \in DOMAIN m.each : m.each[k] > 0})   \* mutant
(* A full meter forgets the addresses whose buckets have refilled, at most once a SWEEP. *)
SweepsOut(m) == Without(m, {k \in DOMAIN m.each : m.each[k] >= Each})

KeyOf(m, who) == IF Full(m) /\ who \notin DOMAIN m.each THEN Unknown ELSE who

(* take_at.  A bucket is refilled here as time passes, where the code catches up when it is used. *)
Take(who) ==
    LET m == IF Full(meter) /\ ~meter.swept THEN SweepsOut(meter) ELSE meter
        key == KeyOf(m, who)
        mine == IF key \in DOMAIN m.each THEN m.each[key] ELSE Each
        taken == IF mine > 0 /\ m.all > 0 THEN 1 ELSE 0
    IN  /\ meter' = [m EXCEPT !.each = [k \in DOMAIN m.each \cup {key} |->
                                            IF k = key THEN mine - taken ELSE m.each[k]],
                              !.all = @ - taken]
        /\ asked' = IF key = Unknown THEN asked ELSE [asked EXCEPT ![key] = @ + taken]

Refill(n, full) == IF n < full THEN n + 1 ELSE n
MeterTick ==
    /\ meter' = [each |-> [k \in DOMAIN meter.each |-> Refill(meter.each[k], Each)],
                 all |-> Refill(meter.all, All), swept |-> FALSE]
    /\ asked' = [v \in Visitors |-> IF asked[v] > 0 THEN asked[v] - 1 ELSE 0]

MeterNext == (\E who \in Keys : Take(who)) \/ MeterTick
MeterSpec == MeterInit /\ [][MeterNext]_meterVars

(* What a meter forgets it forgives nobody: an address never takes more of its own bucket than
   its rate, however often the meter fills up, sweeps and takes it in again. *)
SweepForgivesNobody == \A v \in Visitors : asked[v] <= Each
=============================================================================

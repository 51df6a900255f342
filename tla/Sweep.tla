--------------------------------- MODULE Sweep ---------------------------------
(***************************************************************************)
(* What a console frame costs (apps/web/src/ui/console-cost.ts, and the    *)
(* measuring page of console.ts): a sweep draws the screen that shows as   *)
(* each of STEPS in turn and counts its frames; a page that measures the   *)
(* full interface first loads again, reduced, and shows both in one table. *)
(*                                                                         *)
(* A frame takes one tick.  What a row says of its frames is how they were *)
(* drawn: the step's number, or Whole.                                     *)
(***************************************************************************)
EXTENDS Naturals, Sequences, SequencesExt

CONSTANTS
    STEPS,             \* how many
    SETTLE, RUN,       \* ticks a step settles, then is counted for
    QUIET,             \* ticks without a cover or a key that make a screen settled
    MaxSweeps,         \* bound: sweeps of a tab
    MaxLoads           \* bound: loads of a tab

ASSUME SweepAssumption == {STEPS, SETTLE, RUN, QUIET, MaxSweeps, MaxLoads} \subseteq Nat \ {0}

VARIABLES
    storage,     \* whether sessionStorage keeps anything
    kept,        \* what it keeps: the page's place, or Nothing
    boot,        \* this load's place
    sweep,       \* the running sweep: its step, settled or not, ticks, how its frames were drawn
    view,        \* what shows, how it is drawn, and the rest since a cover, a key and a sweep
    table,       \* the last table: its rows, by interface
    tab          \* history: loads, sweeps begun, and sweeps of the full interface finished

sweepVars == <<storage, kept, boot, sweep, view, table, tab>>

Whole == 0
Nothing == [swept |-> FALSE, reduced |-> FALSE, rows |-> <<>>, is |-> FALSE]
Place(reduced, rows, swept) == [swept |-> swept, reduced |-> reduced, rows |-> rows, is |-> TRUE]
NoSweep == [step |-> 0, settled |-> FALSE, ticks |-> 0, drawn |-> {}, rows |-> <<>>]
Running == sweep.step \in 1..STEPS

(* readBoot, with `?bench=full` or without. *)
ReadBoot(place, full) == IF place.is THEN place ELSE Place(~full, <<>>, FALSE)

FreshView == [console |-> TRUE, as |-> Whole, rest |-> 0, priced |-> FALSE, timer |-> FALSE]

SweepInit ==
    /\ storage \in BOOLEAN /\ kept = Nothing /\ table = <<>> /\ sweep = NoSweep
    /\ \E full \in BOOLEAN :
        /\ boot = ReadBoot(kept, full)
        /\ tab = [full |-> full, loads |-> 1, sweeps |-> 0, fulls |-> 0]
    /\ view = [FreshView EXCEPT !.timer = TRUE]

(* The page loads again: by itself, or by a person. *)
Loads(place) ==
    /\ kept' = place /\ tab.loads < MaxLoads
    /\ boot' = ReadBoot(place, tab.full)
    /\ view' = [FreshView EXCEPT !.timer = ~boot'.swept]
    /\ sweep' = NoSweep

Keeps(place) == IF storage THEN place ELSE kept

(* measure *)
Measures(v) ==
    IF v.console /\ ~Running /\ tab.sweeps < MaxSweeps
    THEN /\ sweep' = [NoSweep EXCEPT !.step = 1] /\ view' = [v EXCEPT !.as = 1]
         /\ tab' = [tab EXCEPT !.sweeps = @ + 1]
    ELSE view' = v /\ UNCHANGED <<sweep, tab>>

Interface == IF boot.reduced THEN "reduced" ELSE "full"

(* swept: a finished sweep's table, or the load that follows the full interface's. *)
Swept(rows) ==
    IF ~boot.swept /\ ~boot.reduced
    THEN /\ Loads(Keeps(Place(TRUE, rows, FALSE))) /\ UNCHANGED table
         /\ tab' = [tab EXCEPT !.loads = @ + 1, !.fulls = @ + 1]
    ELSE /\ table' = IF boot.swept THEN rows ELSE boot.rows \o rows
         /\ boot' = [boot EXCEPT !.swept = TRUE, !.rows = <<>>]
         /\ kept' = Keeps(boot') /\ sweep' = NoSweep /\ view' = [view EXCEPT !.as = Whole]
         /\ UNCHANGED tab

(* Sweep.frame: a step settles, then its frames are counted until RUN is over. *)
Ran == sweep.settled /\ sweep.ticks + 1 > RUN
SettlesOrCounts ==
    IF ~sweep.settled
    THEN [sweep EXCEPT !.ticks = IF @ + 1 >= SETTLE THEN 0 ELSE @ + 1, !.settled = sweep.ticks + 1 >= SETTLE]
    ELSE [sweep EXCEPT !.ticks = @ + 1, !.drawn = @ \cup {view.as}]
RowNow == [of |-> Interface, step |-> sweep.step, drawn |-> sweep.drawn \cup {view.as}]
NextStep ==
    [NoSweep EXCEPT !.step = sweep.step + 1, !.rows = Append(sweep.rows, RowNow)]

AsBefore == view' = view   \* mutant
DrawAsNext == view' = [view EXCEPT !.as = sweep.step + 1]

(* A drawn frame of a running sweep: cost. *)
Costs ==
    /\ Running /\ view.console
    /\ CASE ~Ran -> sweep' = SettlesOrCounts /\ UNCHANGED <<kept, boot, view, table, tab>>
         [] Ran /\ sweep.step < STEPS ->
                sweep' = NextStep /\ DrawAsNext /\ UNCHANGED <<kept, boot, table, tab>>
         [] Ran /\ sweep.step = STEPS -> Swept(Append(sweep.rows, RowNow))
    /\ UNCHANGED storage

(* The console goes off screen: a sweep with a step left is dropped.  It comes back as it was. *)
DropsAlone == sweep' = NoSweep /\ view' = [view EXCEPT !.console = FALSE]   \* mutant
Drops ==
    /\ sweep' = NoSweep
    /\ view' = [view EXCEPT !.console = FALSE, !.as = IF Running THEN Whole ELSE @]
Hides == view.console /\ Drops /\ UNCHANGED <<storage, kept, boot, table, tab>>
Returns ==
    /\ ~view.console /\ view' = [view EXCEPT !.console = TRUE, !.rest = 0, !.priced = FALSE]
    /\ UNCHANGED <<storage, kept, boot, sweep, table, tab>>

(* A key of the console's, or a cover handed over; the first says that the player moved. *)
Moves(key) ==
    /\ view.console /\ view' = [view EXCEPT !.rest = 0, !.priced = IF key THEN FALSE ELSE @]
    /\ UNCHANGED <<storage, kept, boot, sweep, table, tab>>
Rests ==
    /\ view.rest < QUIET /\ view' = [view EXCEPT !.rest = @ + 1]
    /\ UNCHANGED <<storage, kept, boot, sweep, table, tab>>

(* 3 s after the console started, where the page has not swept yet. *)
StartTimer ==
    /\ view.timer /\ Measures([view EXCEPT !.timer = FALSE])
    /\ UNCHANGED <<storage, kept, boot, table>>
OnRequest == view.console /\ Measures(view) /\ UNCHANGED <<storage, kept, boot, table>>
(* measureSettled: once in a rest. *)
MeasureSettled ==
    /\ view.console /\ boot.swept /\ ~Running /\ view.rest = QUIET /\ ~view.priced
    /\ Measures([view EXCEPT !.priced = TRUE]) /\ UNCHANGED <<storage, kept, boot, table>>

Reloads ==
    /\ Loads(kept) /\ tab' = [tab EXCEPT !.loads = @ + 1]
    /\ UNCHANGED <<storage, table>>

SweepNext ==
    \/ Costs \/ Hides \/ Returns \/ Rests \/ StartTimer \/ OnRequest \/ MeasureSettled \/ Reloads
    \/ \E key \in BOOLEAN : Moves(key)

SweepSpec == SweepInit /\ [][SweepNext]_sweepVars

SweepTypeOK ==
    /\ sweep.step \in 0..STEPS /\ view.as \in 0..STEPS /\ view.rest \in 0..QUIET
    /\ tab.loads <= MaxLoads /\ tab.fulls <= tab.loads

(* A row says what it was drawn as: every frame it counts was drawn as its step, and with no sweep
   the console is drawn whole, whenever streams, keys and reloads come.  A table has each step
   once, in order, of one interface; the first of a page that began with the full one has both. *)
IsSweepOf(rows, of) ==
    Len(rows) = STEPS /\ \A i \in DOMAIN rows : rows[i].of = of /\ rows[i].step = i /\ rows[i].drawn = {i}
SweepSaysWhatItDrew ==
    /\ sweep.step = 0 => view.as = Whole
    /\ table # <<>> =>
        \/ \E of \in {"full", "reduced"} : IsSweepOf(table, of)
        \/ /\ IsSweepOf(SubSeq(table, 1, STEPS), "full")
           /\ IsSweepOf(SubSeq(table, STEPS + 1, Len(table)), "reduced")
    /\ table # <<>> /\ tab.fulls = 1 /\ tab.sweeps = 2 => \E i \in DOMAIN table : table[i].of = "full"
=============================================================================

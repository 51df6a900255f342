------------------------------- MODULE WhoPlays -------------------------------
(***************************************************************************)
(* Who plays on a box with profiles (packages/stream/src/profiles.ts), and *)
(* the pick this browser keeps for it (hosts, in pf-connect.ts).  App's    *)
(* askProfile reads the kept pick, waits for the box's list, and then      *)
(* decides from both; two tabs of a browser keep one pick.                 *)
(* The profile a link may name, which App passes none of, is left out.     *)
(***************************************************************************)
EXTENDS FiniteSets, Naturals

CONSTANTS
    Profiles, NoProfile,
    Tabs,
    MaxLists,    \* bound: changes of the box's list
    MaxPlays     \* bound: streams asked for, and picks set from the console

ASSUME WhoPlaysAssumption ==
    IsFiniteSet(Profiles) /\ NoProfile \notin Profiles /\ {MaxLists, MaxPlays} \subseteq Nat

VARIABLES
    box,         \* its profiles, none of them for a box without; its old seat's; seats that are up
    record,      \* this browser's record of it: the pick, with its `remember`
    asks,        \* each tab's askProfile: its stage, the pick it read, the list it got
    hello,       \* each tab's stream: the profile its hello carries, and why
    chosen,      \* history: the profiles ever picked here, or this device's old seat's; and those
                 \* asked to be remembered
    bounds       \* the bounds' counters

whoVars == <<box, record, asks, hello, chosen, bounds>>

NoPick == [id |-> NoProfile, remember |-> FALSE]
NoRecord == [pick |-> NoPick]
NoAsking == [stage |-> "none", saved |-> NoPick, rows |-> {}, id |-> NoProfile]
NoHello == [as |-> NoProfile, why |-> "none"]

WhoInit ==
    /\ \E old \in Profiles \cup {NoProfile}, up \in {{}, Profiles} : box = [rows |-> Profiles, old |-> old, up |-> up]
    /\ record = NoRecord
    /\ asks = [t \in Tabs |-> NoAsking] /\ hello = [t \in Tabs |-> NoHello]
    /\ chosen = [picked |-> {}, remembered |-> {}] /\ bounds = [lists |-> 0, plays |-> 0]

(***************************************************************************)
(* pickerDecision                                                          *)
(***************************************************************************)
Plays(id, why, keeps) == [picker |-> FALSE, send |-> id, why |-> why, remember |-> keeps]
Picker(keeps) == [picker |-> TRUE, send |-> NoProfile, why |-> "none", remember |-> keeps]

KeepsFlag(id) == [record.pick EXCEPT !.id = id]   \* mutant: a new pick is as remembered as the last
PickOf(id) == [id |-> id, remember |-> FALSE]

Still(rows, saved) == saved.id \in rows

Decision(rows, old, saved) ==
    LET kept == IF Still(rows, saved) THEN saved ELSE NoPick
        lone == CHOOSE p \in rows : TRUE
    IN  CASE rows = {} -> Plays(NoProfile, "none", saved)
          [] Cardinality(rows) = 1 -> Plays(lone, "lone", kept)
          [] Cardinality(rows) > 1 /\ Still(rows, saved) -> Plays(saved.id, "kept", kept)
          [] Cardinality(rows) > 1 /\ ~Still(rows, saved) ->
                IF saved.id = NoProfile /\ old # NoProfile THEN Plays(old, "legacy", PickOf(old)) ELSE Picker(NoPick)

(***************************************************************************)
(* askProfile and settleSeat, in a tab t.                                  *)
(***************************************************************************)
AskStage(t, ask) == asks' = [asks EXCEPT ![t] = ask]
SendsHello(t, id, why) == hello' = [hello EXCEPT ![t] = [as |-> id, why |-> why]]

AskWho(t) ==
    /\ asks[t].stage = "none" /\ bounds.plays < MaxPlays
    /\ bounds' = [bounds EXCEPT !.plays = @ + 1]
    /\ AskStage(t, [NoAsking EXCEPT !.stage = "lists", !.saved = record.pick])
    /\ UNCHANGED <<box, record, hello, chosen>>

(* A list that fails or is late dials as before, with the saved pick. *)
ListFails(t) ==
    /\ asks[t].stage = "lists" /\ AskStage(t, NoAsking) /\ SendsHello(t, asks[t].saved.id, "kept")
    /\ UNCHANGED <<box, record, chosen, bounds>>

(* settleSeat: the dial waits for a seat, of a profile that is listed. *)
SeatOf(t, id, why, rows) ==
    IF id \in rows /\ id \notin box.up
    THEN AskStage(t, [NoAsking EXCEPT !.stage = why, !.id = id]) /\ UNCHANGED hello
    ELSE AskStage(t, NoAsking) /\ SendsHello(t, id, why)

ListComes(t) ==
    /\ asks[t].stage = "lists"
    /\ LET d == Decision(box.rows, box.old, asks[t].saved)
       IN  IF d.picker
           THEN AskStage(t, [asks[t] EXCEPT !.stage = "picks", !.rows = box.rows]) /\ UNCHANGED <<record, hello, chosen>>
           ELSE /\ record' = [record EXCEPT !.pick = d.remember] /\ SeatOf(t, d.send, d.why, box.rows)
                /\ chosen' = IF d.why = "legacy" THEN [chosen EXCEPT !.picked = @ \cup {d.send}] ELSE chosen
    /\ UNCHANGED <<box, bounds>>

(* pickProfile: a click on a card of the list that was read. *)
Picks(t, id) ==
    /\ asks[t].stage = "picks" /\ id \in asks[t].rows
    /\ record' = [record EXCEPT !.pick = PickOf(id)]
    /\ chosen' = [chosen EXCEPT !.picked = @ \cup {id}]
    /\ SeatOf(t, id, "picked", asks[t].rows) /\ UNCHANGED <<box, bounds>>

Waits == {"picked", "kept", "lone", "legacy"}
(* The seat is up; a profile the list dropped is the host's to refuse. *)
SeatIsUp(t) ==
    /\ asks[t].stage \in Waits /\ (asks[t].id \in box.up \/ asks[t].id \notin box.rows)
    /\ AskStage(t, NoAsking) /\ SendsHello(t, asks[t].id, asks[t].stage) /\ UNCHANGED <<box, record, chosen, bounds>>
AskLeft(t) == asks[t].stage # "none" /\ AskStage(t, NoAsking) /\ UNCHANGED <<box, record, hello, chosen, bounds>>

(***************************************************************************)
(* The record: the console's SetProfile, and forget.                       *)
(***************************************************************************)
SetsProfile(pick) ==
    /\ bounds.plays < MaxPlays /\ bounds' = [bounds EXCEPT !.plays = @ + 1]
    /\ record' = [record EXCEPT !.pick = pick]
    /\ chosen' = [picked |-> chosen.picked \cup ({pick.id} \ {NoProfile}),
                  remembered |-> chosen.remembered \cup (IF pick.remember THEN {pick.id} ELSE {})]
    /\ UNCHANGED <<box, asks, hello>>
(* The tab's own connection is over with it, and no other tab's. *)
ForgetPick(t) ==
    /\ record' = NoRecord /\ AskStage(t, NoAsking) /\ hello' = [hello EXCEPT ![t] = NoHello]
    /\ UNCHANGED <<box, chosen, bounds>>
BoxChanges ==
    /\ bounds.lists < MaxLists /\ bounds' = [bounds EXCEPT !.lists = @ + 1]
    /\ \E rows \in SUBSET Profiles : \E up \in SUBSET rows : \E old \in rows \cup {NoProfile} :
        box' = [rows |-> rows, old |-> old, up |-> up]
    /\ UNCHANGED <<record, asks, hello, chosen>>

WhoNext ==
    \/ \E t \in Tabs :
        \/ AskWho(t) \/ ListFails(t) \/ ListComes(t) \/ SeatIsUp(t) \/ AskLeft(t) \/ ForgetPick(t)
        \/ \E id \in Profiles : Picks(t, id)
    \/ \E id \in Profiles, remember \in BOOLEAN : SetsProfile([id |-> id, remember |-> remember])
    \/ SetsProfile(NoPick) \/ BoxChanges

WhoSpec == WhoInit /\ [][WhoNext]_whoVars

WhoTypeOK ==
    /\ record.pick.id \in Profiles \cup {NoProfile} /\ box.up \subseteq box.rows
    /\ \A t \in Tabs : asks[t].stage \in Waits \cup {"none", "lists", "picks"}

(* Nobody plays as another unasked: where the box has several profiles, a
   stream carries one picked here, or this device's old seat's; and a pick is kept as one to
   remember, which "the console applies only", where a person asked that of this very profile.
   However two tabs, the box's list and forgetting the host come between the pick that was read
   and the one that is written (askProfile, pickerDecision, settleSeat). *)
PlaysAsChosen ==
    /\ record.pick.remember => record.pick.id \in chosen.remembered
    /\ \A t \in Tabs :
        /\ hello[t].why \in {"kept", "picked"} => hello[t].as \in chosen.picked \cup {NoProfile}
        /\ asks[t].stage \in {"kept", "picked"} => asks[t].id \in chosen.picked
=============================================================================

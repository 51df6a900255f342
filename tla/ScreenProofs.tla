---------------------------- MODULE ScreenProofs ----------------------------
(***************************************************************************)
(* What the page shows and asks for, proved over MCPage's Spec: the web    *)
(* app, its lists and who plays, the console on a TV, its wake card, its   *)
(* sweeps and its fields.                                                  *)
(***************************************************************************)
EXTENDS MCPage, FiniteSetTheorems, SequenceTheorems, WellFoundedInduction, TLAPS

(* A set of naturals has a least. *)
LEMMA Lowest ==
    ASSUME NEW T, T \subseteq Nat, T # {}
    PROVE  \E x \in T : \A y \in T : x <= y
<1> DEFINE R == OpToRel(<, Nat)
<1>1. \E x \in T : \A y \in T : ~(<<y, x>> \in R)
  BY NatLessThanWellFounded, WFMin
<1>2. \A x, y \in Nat : <<y, x>> \in R <=> y < x
  BY DEF OpToRel
<1> HIDE DEF R
<1>3. PICK x \in T : \A y \in T : ~(<<y, x>> \in R)
  BY <1>1
<1>4. \A y \in T : ~(y < x)
  BY <1>2, <1>3
<1>5. \A y \in T : x <= y
  BY <1>4
<1> QED
  BY <1>5

(***************************************************************************)
(* Nothing is done unasked (AsAsked of MCPage).                            *)
(***************************************************************************)
AppFields == {"screen", "link", "settings", "tab", "shelf", "quiet", "browse", "resume", "launch", "switch",
              "dropped", "last", "gate"}
EngineKinds == Flows \cup {"idle", "ready", "streaming"}
SomeOrigin == Origins \cup {None}

AppFits(a) ==
    /\ DOMAIN a = AppFields /\ a.gate \in 0..MaxGates /\ a.shelf \in Origins
    /\ a.link \in SomeOrigin /\ a.resume \in SomeOrigin /\ a.launch \in SomeOrigin
    /\ a.switch \in SomeOrigin /\ a.dropped \in SomeOrigin /\ a.last \in SomeOrigin

EngineFits(e) ==
    /\ e \in [kind : EngineKinds, at : SomeOrigin]
    /\ e.at = None => e.kind \in {"idle", "bad-address"}

GateStages == {"lists", "picks", "wakes", "waits", "polls", "refused"}
GateFits(g) == gates[g] \in [stage : GateStages, at : Origins, play : SomeOrigin, left : BOOLEAN]
GatesFit == DOMAIN gates = 1..MaxGates /\ \A g \in 1..MaxGates : At(g, "none") \/ GateFits(g)

(* The gate that is this.gate: it is for a host that is ready, nobody left it, and past the list it
   has a stream to play. *)
GateIsOn(g) ==
    g # 0 => /\ GateFits(g) /\ ~gates[g].left
             /\ gates[g].stage \in {"wakes", "waits", "polls", "refused"} => gates[g].play # None
GateIsFor(g, e) == g # 0 => e.kind = "ready" /\ e.at = gates[g].at

LinkIsOn(a) == a.screen = "link" => a.link # None
DialWasAsked ==
    dialled = NoDial \/ (dialled.on = dialled.of.at /\ dialled.of.play # None /\ ~dialled.of.left)

AppInv ==
    /\ AppFits(app) /\ LinkIsOn(app) /\ EngineFits(engine) /\ GatesFit /\ timers \subseteq Origins
    /\ GateIsOn(app.gate) /\ GateIsFor(app.gate, engine) /\ DialWasAsked

(* Of the shelf: the poll is of its host, if any. *)
SomeShelf == Shelves \cup {Nobody}
Libraries == [of : SomeShelf, loading : BOOLEAN, titles : SomeShelf, running : SomeShelf, notice : SomeShelf,
              polling : SomeShelf, timer : SomeShelf]
LibraryFits ==
    /\ host \in [kind : {"ready", "streaming", "away", "idle"}, at : SomeShelf]
    /\ library \in Libraries
    /\ sheet \in {"closed", "open"}
ShelfInv == LibraryFits /\ ShelfShowsItsOwn /\ library.polling \in {Nobody, library.of}

(* Of the console: the settings cover a stream, or one that starts again. *)
SomeBox == Boxes \cup {NoBox}
Screens == {"home", "connecting", "pair", "refused", "pairing", "waiting", "asks", "error", "library", "starting",
            "streaming"}
PageFits == page \in [screen : Screens, at : SomeBox, settings : BOOLEAN]
ConFits(c) ==
    /\ DOMAIN c = {"play", "pin", "knock", "asking", "dialled", "fetching", "followed", "phase"}
    /\ c.play \in SomeBox /\ c.pin \in SomeBox /\ c.knock \in SomeBox /\ c.fetching \in SomeBox
    /\ c.asking \in [of : SomeBox, late : BOOLEAN]
ConsoleInv ==
    /\ PageFits /\ ConFits(con) /\ NothingUnasked
    /\ page.settings => page.screen \in {"streaming", "starting"}

(* Of who plays: whatever a tab read or the record has was picked here, and remembered if asked. *)
SomeProfile == Profiles \cup {NoProfile}
SomePick == [id : SomeProfile, remember : BOOLEAN]
PickIsChosen(pick) ==
    /\ pick \in SomePick /\ pick.id \in chosen.picked \cup {NoProfile}
    /\ pick.remember => pick.id \in chosen.remembered
AskStages == {"none", "lists", "picks", "picked", "kept", "lone", "legacy"}
AskFits(ask) ==
    /\ ask \in [stage : AskStages, saved : SomePick, rows : SUBSET Profiles, id : SomeProfile]
    /\ PickIsChosen(ask.saved)
WhoInv ==
    /\ box \in [rows : SUBSET Profiles, old : SomeProfile, up : SUBSET Profiles]
    /\ box.up \subseteq box.rows
    /\ record \in [pick : SomePick] /\ PickIsChosen(record.pick)
    /\ DOMAIN asks = Tabs /\ DOMAIN hello = Tabs /\ \A t \in Tabs : AskFits(asks[t])
    /\ chosen \in [picked : SUBSET Profiles, remembered : SUBSET Profiles]
    /\ PlaysAsChosen

LEMMA EdgesFit ==
    ASSUME NEW a, AppFits(a), NEW e, EngineFits(e), NEW was, GateIsOn(a.gate)
    PROVE  /\ AppFits(Edges(a, e, was)) /\ GateIsOn(Edges(a, e, was).gate)
           /\ GateIsFor(Edges(a, e, was).gate, e) /\ (a.gate = 0 => Edges(a, e, was).gate = 0)
<1> DEFINE gate == IF a.gate # 0 /\ (e.kind # "ready" \/ e.at # gates[a.gate].at) THEN 0 ELSE a.gate
           ended == was \in Live /\ e.kind \notin Live
           sw == IF e.kind \in {"idle", "error"} THEN None ELSE a.switch
           covers == a.settings /\ ~ended
           lost == IF ended /\ e.kind = "error" THEN a.last ELSE a.dropped
<1>1. gate \in 0..MaxGates /\ sw \in SomeOrigin /\ lost \in SomeOrigin
  BY AppAssumption DEF AppFits, SomeOrigin
<1>2. GateIsOn(gate) /\ GateIsFor(gate, e) /\ (a.gate = 0 => gate = 0)
  BY DEF GateIsOn, GateIsFor
<1>3. Edges(a, e, was) = [a EXCEPT !.gate = gate, !.switch = sw, !.settings = covers, !.dropped = lost]
  BY DEF Edges
<1> HIDE DEF gate, ended, sw, covers, lost
<1>4. AppFits(Edges(a, e, was)) /\ Edges(a, e, was).gate = gate
  BY <1>1, <1>3 DEF AppFits, AppFields
<1> QED
  BY <1>2, <1>4

LEMMA DrawnFits ==
    ASSUME NEW a, AppFits(a), NEW e, EngineFits(e)
    PROVE  /\ AppFits(Drawn(a, e)) /\ LinkIsOn(Drawn(a, e)) /\ Drawn(a, e).gate = a.gate
<1>1. CASE a.settings
  BY <1>1 DEF AppFits, AppFields, Drawn, LinkIsOn
<1>2. CASE ~a.settings /\ a.quiet /\ e.kind = "connecting"
  BY <1>2 DEF AppFits, AppFields, Drawn, LinkIsOn
<1>3. CASE ~a.settings /\ ~(a.quiet /\ e.kind = "connecting")
  <2> DEFINE q == [a EXCEPT !.quiet = FALSE]
  <2>1. AppFits(q) /\ q.gate = a.gate /\ q.link = a.link
    BY DEF AppFits, AppFields
  <2>2. CASE e.kind = "idle"
    <3>1. Drawn(a, e) = Forgetful(q)
      BY <1>3, <2>2 DEF Drawn
    <3>2. AppFits(Forgetful(q)) /\ Forgetful(q).gate = q.gate
      BY <2>1 DEF AppFits, AppFields, Forgetful, SomeOrigin
    <3>3. LinkIsOn(Forgetful(q))
      BY <2>1 DEF AppFits, AppFields, Forgetful, LinkIsOn
    <3> QED
      BY <2>1, <3>1, <3>2, <3>3
  <2>3. CASE e.kind \in {"bad-address", "awaiting"}
    BY <1>3, <2>1, <2>3 DEF AppFits, AppFields, Drawn, LinkIsOn
  <2>6. CASE e.kind = "paired"
    <3> DEFINE r == IF a.screen = "waiting" /\ q.resume = None THEN e.at ELSE q.resume
    <3>1. Drawn(a, e) = [q EXCEPT !.screen = "pair", !.resume = r]
      BY <1>3, <2>1, <2>6 DEF Drawn, AppFits, AppFields
    <3>2. r \in SomeOrigin
      BY <2>1 DEF AppFits, EngineFits
    <3> HIDE DEF r
    <3> QED
      BY <2>1, <3>1, <3>2 DEF AppFits, AppFields, LinkIsOn
  <2>4. CASE e.kind = "ready"
    BY <1>3, <2>1, <2>4 DEF AppFits, AppFields, Drawn, LinkIsOn, EngineFits, SomeOrigin, Settled
  <2>5. CASE e.kind \notin {"idle", "bad-address", "paired", "awaiting", "ready"}
    BY <1>3, <2>1, <2>5 DEF AppFits, AppFields, Drawn, LinkIsOn, EngineFits, EngineKinds, Flows
  <2> QED
    BY <2>2, <2>3, <2>4, <2>5, <2>6
<1> QED
  BY <1>1, <1>2, <1>3

(* Leaving gates, but for one. *)
LEMMA LeavesFit ==
    ASSUME GatesFit, NEW g \in 0..MaxGates
    PROVE  /\ DOMAIN Leaves(g) = 1..MaxGates
           /\ \A h \in 1..MaxGates : /\ Leaves(g)[h].stage = "none" \/ Leaves(g)[h] \in [stage : GateStages, at : Origins, play : SomeOrigin, left : BOOLEAN]
                                     /\ h = g => Leaves(g)[h] = gates[h]
  BY DEF GatesFit, GateFits, At, Leaves, NoGate, GateStages

LEMMA AskProfileFits ==
    ASSUME GatesFit, NEW a, AppFits(a), NEW at \in Origins, NEW play \in SomeOrigin, AsksProfile(a, at, play)
    PROVE  /\ AppFits(app') /\ LinkIsOn(app') /\ GatesFit' /\ timers' = timers
           /\ GateIsOn(app.gate)' /\ (app'.gate # 0 => gates'[app'.gate].at = at)
<1>1. PICK g \in 1..MaxGates :
        /\ gates' = [Leaves(0) EXCEPT ![g] = [stage |-> "lists", at |-> at, play |-> play, left |-> FALSE]]
        /\ app' = [a EXCEPT !.gate = g, !.quiet = FALSE, !.screen = IF a.settings THEN "settings" ELSE "gate"]
  BY DEF AsksProfile, GatesFit
<1>2. AppFits(app') /\ LinkIsOn(app') /\ app'.gate = g
  BY <1>1 DEF AppFits, AppFields, LinkIsOn
<1>3. gates'[g] = [stage |-> "lists", at |-> at, play |-> play, left |-> FALSE]
  BY <1>1, LeavesFit, AppAssumption
<1>4. gates'[g] \in [stage : GateStages, at : Origins, play : SomeOrigin, left : BOOLEAN]
  BY <1>3 DEF GateStages
<1>5. GatesFit'
  BY <1>1, <1>4, LeavesFit, AppAssumption DEF GatesFit, GateFits, At
<1>6. GateIsOn(g)'
  <2>1. gates'[g].left = FALSE /\ gates'[g].stage = "lists"
    BY <1>3
  <2> QED
    BY <1>4, <2>1 DEF GateIsOn, GateFits
<1> QED
  BY <1>2, <1>3, <1>5, <1>6 DEF AsksProfile

(* render, whatever was the app's gate and the engine's state before. *)
LEMMA RenderFits ==
    ASSUME GatesFit, timers \subseteq Origins, NEW a, AppFits(a), GateIsOn(a.gate),
           NEW e, EngineFits(e), NEW was, Render(a, e, was)
    PROVE  /\ AppFits(app') /\ LinkIsOn(app') /\ GatesFit' /\ timers' \subseteq Origins
           /\ GateIsOn(app.gate)'
           /\ (app'.gate # 0 => e.kind = "ready" /\ gates'[app'.gate].at = e.at)
<1> DEFINE b == Edges(a, e, was)
           drawn == Drawn(b, e)
<1>1. AppFits(b) /\ GateIsOn(b.gate) /\ GateIsFor(b.gate, e)
  BY EdgesFit
<1>2. AppFits(drawn) /\ LinkIsOn(drawn) /\ drawn.gate = b.gate
  BY <1>1, DrawnFits
<1>3. e.at \in Origins \/ e.kind \in {"idle", "bad-address"}
  BY DEF EngineFits, SomeOrigin
<1>4. Waiting(b, e) \in {"switch", "launch", "resume", "nothing"} /\ (Waiting(b, e) # "nothing" => e.kind = "ready")
  BY DEF Waiting
<1> HIDE DEF b, drawn
<1>5. CASE Waiting(b, e) = "nothing"
  <2>1. /\ app' = drawn /\ gates' = Leaves(drawn.gate)
        /\ timers' = IF e.kind = "paired" /\ ~drawn.settings THEN timers \cup {e.at} ELSE timers
    BY <1>5 DEF Render, b, drawn
  <2>2. drawn.gate \in 0..MaxGates
    BY <1>2 DEF AppFits
  <2>3. GatesFit' /\ (drawn.gate # 0 => gates'[drawn.gate] = gates[drawn.gate])
    BY <2>1, <2>2, LeavesFit DEF GatesFit, GateFits, At
  <2>4. GateIsOn(app.gate)'
    BY <1>1, <1>2, <2>1, <2>3 DEF GateIsOn, GateFits
  <2>5. timers' \subseteq Origins
    BY <1>3, <2>1
  <2> QED
    BY <1>1, <1>2, <2>1, <2>3, <2>4, <2>5 DEF GateIsFor
<1>6. CASE Waiting(b, e) # "nothing"
  <2>1. e.at \in Origins
    BY <1>3, <1>4, <1>6
  <2>2. CASE Waiting(b, e) = "switch"
    <3> DEFINE c == [b EXCEPT !.switch = None]
    <3>1. AppFits(c) /\ AsksProfile(c, e.at, None) /\ None \in SomeOrigin
      BY <1>1, <2>2 DEF Render, b, AppFits, AppFields, SomeOrigin
    <3> QED
      BY <1>4, <1>6, <2>1, <3>1, AskProfileFits
  <2>3. CASE Waiting(b, e) = "launch"
    <3> DEFINE c == [b EXCEPT !.launch = None]
    <3>1. AppFits(c) /\ AsksProfile(c, e.at, b.launch) /\ b.launch \in SomeOrigin
      BY <1>1, <2>3 DEF Render, b, AppFits, AppFields, SomeOrigin
    <3> QED
      BY <1>4, <1>6, <2>1, <3>1, AskProfileFits
  <2>4. CASE Waiting(b, e) = "resume"
    <3> DEFINE c == [b EXCEPT !.resume = None]
    <3>1. AppFits(c) /\ AsksProfile(c, e.at, b.resume) /\ b.resume \in SomeOrigin
      BY <1>1, <2>4 DEF Render, b, AppFits, AppFields, SomeOrigin
    <3> QED
      BY <1>4, <1>6, <2>1, <3>1, AskProfileFits
  <2> QED
    BY <1>4, <1>6, <2>2, <2>3, <2>4
<1> QED
  BY <1>5, <1>6

(* What every handler of the app comes down to. *)
LEMMA GoesKeeps ==
    ASSUME AppInv, NEW a, AppFits(a), GateIsOn(a.gate), NEW kind, NEW at, EngineFits([kind |-> kind, at |-> at]),
           Goes(a, kind, at), UNCHANGED dialled
    PROVE  AppInv'
<1>1. GatesFit /\ timers \subseteq Origins /\ EngineFits(engine') /\ DialWasAsked'
  BY DEF AppInv, Goes, DialWasAsked
<1>2. Render(a, engine', engine.kind)
  BY DEF Goes
<1>3. /\ AppFits(app') /\ LinkIsOn(app') /\ GatesFit' /\ timers' \subseteq Origins
      /\ GateIsOn(app.gate)'
      /\ (app'.gate # 0 => engine'.kind = "ready" /\ gates'[app'.gate].at = engine'.at)
  BY <1>1, <1>2, RenderFits
<1>4. GateIsFor(app.gate, engine)'
  BY <1>3 DEF GateIsFor
<1> QED
  BY <1>1, <1>3, <1>4 DEF AppInv

LEMMA RedrawsKeeps ==
    ASSUME AppInv, NEW a, AppFits(a), GateIsOn(a.gate), Redraws(a), UNCHANGED <<engine, dialled>>
    PROVE  AppInv'
<1>1. GatesFit /\ timers \subseteq Origins /\ EngineFits(engine) /\ EngineFits(engine') /\ DialWasAsked'
  BY DEF AppInv, DialWasAsked
<1>2. Render(a, engine, engine.kind)
  BY DEF Redraws
<1>3. /\ AppFits(app') /\ LinkIsOn(app') /\ GatesFit' /\ timers' \subseteq Origins
      /\ GateIsOn(app.gate)'
      /\ (app'.gate # 0 => engine.kind = "ready" /\ gates'[app'.gate].at = engine.at)
  BY <1>1, <1>2, RenderFits
<1>4. GateIsFor(app.gate, engine)'
  BY <1>3 DEF GateIsFor
<1> QED
  BY <1>1, <1>3, <1>4 DEF AppInv

LEMMA AsksKeeps ==
    ASSUME AppInv, NEW o \in Origins, engine = [kind |-> "ready", at |-> o], NEW play \in SomeOrigin,
           AsksProfile(app, o, play), UNCHANGED <<engine, dialled>>
    PROVE  AppInv'
<1>1. /\ AppFits(app') /\ LinkIsOn(app') /\ GatesFit' /\ timers' = timers
      /\ GateIsOn(app.gate)' /\ (app'.gate # 0 => gates'[app'.gate].at = o)
  BY AskProfileFits DEF AppInv
<1>2. EngineFits(engine') /\ timers' \subseteq Origins /\ DialWasAsked'
  BY <1>1 DEF AppInv, DialWasAsked
<1>3. GateIsFor(app.gate, engine)'
  BY <1>1 DEF GateIsFor
<1> QED
  BY <1>1, <1>2, <1>3 DEF AppInv

(* The gate's own steps. *)
LEMMA ShowsKeeps ==
    ASSUME AppInv, NEW g \in 1..MaxGates, ~At(g, "none"), NEW stage \in GateStages, Shows(g, stage),
           app.gate = g /\ stage \notin {"lists", "picks"} => gates[g].play # None
    PROVE  AppInv'
<1>1. GateFits(g) /\ DOMAIN gates = 1..MaxGates
  BY DEF AppInv, GatesFit
<1>2. gates' = [gates EXCEPT ![g].stage = stage] /\ UNCHANGED <<engine, app, timers, dialled>>
  BY DEF Shows, Stage
<1>3. gates'[g] = [gates[g] EXCEPT !.stage = stage] /\ \A h \in 1..MaxGates : h # g => gates'[h] = gates[h]
  BY <1>1, <1>2
<1>4. /\ gates'[g] \in [stage : GateStages, at : Origins, play : SomeOrigin, left : BOOLEAN]
      /\ gates'[g].stage = stage /\ gates'[g].at = gates[g].at /\ gates'[g].play = gates[g].play
      /\ gates'[g].left = gates[g].left
  BY <1>1, <1>3 DEF GateFits
<1>5. GatesFit'
  BY <1>1, <1>2, <1>3, <1>4 DEF AppInv, GatesFit, GateFits, At
<1>6. app.gate \in 0..MaxGates
  BY DEF AppInv, AppFits
<1>7. GateIsOn(app.gate)' /\ GateIsFor(app.gate, engine)'
  <2>1. CASE app.gate = g
    BY <1>2, <1>4, <2>1 DEF AppInv, GateIsOn, GateIsFor, GateFits
  <2>2. CASE app.gate # g
    BY <1>2, <1>3, <1>6, <2>2, AppAssumption DEF AppInv, GateIsOn, GateIsFor, GateFits
  <2> QED
    BY <2>1, <2>2
<1> QED
  BY <1>2, <1>5, <1>7 DEF AppInv, DialWasAsked

LEMMA OverKeeps ==
    ASSUME AppInv, NEW g \in 1..MaxGates, app.gate # g, Over(g)
    PROVE  AppInv'
<1>1. gates' = [gates EXCEPT ![g] = NoGate] /\ UNCHANGED <<engine, app, timers, dialled>>
  BY DEF Over
<1>2. DOMAIN gates = 1..MaxGates /\ app.gate \in 0..MaxGates
  BY DEF AppInv, GatesFit, AppFits
<1>3. gates'[g].stage = "none" /\ \A h \in 1..MaxGates : h # g => gates'[h] = gates[h]
  BY <1>1, <1>2 DEF NoGate
<1>4. GatesFit'
  BY <1>1, <1>2, <1>3 DEF AppInv, GatesFit, GateFits, At
<1>5. GateIsOn(app.gate)' /\ GateIsFor(app.gate, engine)'
  BY <1>1, <1>2, <1>3, AppAssumption DEF AppInv, GateIsOn, GateIsFor, GateFits
<1> QED
  BY <1>1, <1>4, <1>5 DEF AppInv, DialWasAsked

LEMMA DialsKeeps ==
    ASSUME AppInv, NEW g \in 1..MaxGates, app.gate = g, gates[g].play # None, Dials(g)
    PROVE  AppInv'
<1> DEFINE a == [app EXCEPT !.gate = 0, !.last = gates[g].play]
<1>1. GateFits(g) /\ ~gates[g].left /\ engine.kind = "ready" /\ engine.at = gates[g].at /\ g # 0
  BY DEF AppInv, GateIsOn, GateIsFor
<1>2. AppFits(a) /\ a.gate = 0
  BY <1>1, AppAssumption DEF AppInv, AppFits, AppFields, GateFits
<1>3. engine' = [engine EXCEPT !.kind = IF @ = "ready" THEN "starting" ELSE @]
  BY DEF Dials
<1>4. EngineFits(engine')
  <2>1. engine' = [engine EXCEPT !.kind = "starting"] /\ EngineFits(engine)
    BY <1>1, <1>3 DEF AppInv
  <2>2. "starting" \in EngineKinds
    BY DEF EngineKinds, Flows
  <2>3. engine' \in [kind : EngineKinds, at : SomeOrigin] /\ engine'.at = engine.at
    BY <2>1, <2>2 DEF EngineFits
  <2>4. engine.at # None
    BY <1>1, <2>1 DEF EngineFits
  <2> QED
    BY <2>3, <2>4 DEF EngineFits
<1>5. /\ app' = Drawn(Edges(a, engine', engine.kind), engine')
      /\ gates' = [Leaves(0) EXCEPT ![g] = NoGate] /\ timers' = timers
      /\ dialled' = [on |-> engine.at, of |-> gates[g]]
  BY DEF Dials
<1>6. GateIsOn(a.gate)
  BY <1>2 DEF GateIsOn
<1> HIDE DEF a
<1>7. AppFits(Edges(a, engine', engine.kind)) /\ Edges(a, engine', engine.kind).gate = 0
  BY <1>2, <1>4, <1>6, EdgesFit
<1>8. AppFits(app') /\ LinkIsOn(app') /\ app'.gate = 0
  BY <1>4, <1>5, <1>7, DrawnFits
<1>9. GatesFit'
  <2>1. GatesFit /\ 0 \in 0..MaxGates
    BY AppAssumption DEF AppInv
  <2>2. gates'[g].stage = "none"
    BY <1>5, <2>1, LeavesFit DEF NoGate
  <2> QED
    BY <1>5, <2>1, <2>2, LeavesFit DEF GatesFit, GateFits, At
<1>10. DialWasAsked'
  BY <1>1, <1>5 DEF DialWasAsked
<1>11. timers' \subseteq Origins
  BY <1>5 DEF AppInv
<1> QED
  BY <1>4, <1>8, <1>9, <1>10, <1>11 DEF AppInv, GateIsOn, GateIsFor

LEMMA SettlesKeeps ==
    ASSUME AppInv, NEW g \in 1..MaxGates, app.gate = g, gates[g].play # None, ~At(g, "none"), Settles(g)
    PROVE  AppInv'
  BY DialsKeeps, ShowsKeeps DEF Settles, GateStages

(* Clicks. *)
LEMMA ClickKeeps == ASSUME AppInv, Click PROVE AppInv'
<1> USE DEF AppInv
<1>a. AppFits(app) /\ GateIsOn(app.gate) /\ EngineFits(engine)
  OBVIOUS
<1>b. None \in SomeOrigin /\ \A o \in Origins : o \in SomeOrigin /\ o # None
  BY AppAssumption DEF SomeOrigin
<1>c. \A o \in Origins : EngineFits([kind |-> "connecting", at |-> o])
  BY <1>b DEF EngineFits, EngineKinds, Flows
<1>d. EngineFits([kind |-> "idle", at |-> None]) /\ EngineFits([kind |-> "bad-address", at |-> engine.at])
  BY <1>a, <1>b DEF EngineFits, EngineKinds, Flows
<1> HIDE DEF AppInv
<1>1. ASSUME NEW o \in Origins, ConnectAddress(o) PROVE AppInv'
  <2> DEFINE a == [app EXCEPT !.quiet = FALSE, !.browse = TRUE, !.settings = FALSE]
  <2>1. AppFits(a) /\ GateIsOn(a.gate)
    BY <1>a DEF AppFits, AppFields
  <2>2. /\ Goes(a, "connecting", o) \/ Goes(a, "bad-address", engine.at)
        /\ UNCHANGED dialled
    BY <1>1 DEF ConnectAddress, Connects
  <2> HIDE DEF a
  <2> QED
    BY <1>c, <1>d, <2>1, <2>2, GoesKeeps
<1>2. ASSUME NEW o \in Origins, Play(o) PROVE AppInv'
  <2> DEFINE a == [app EXCEPT !.quiet = FALSE, !.resume = o]
  <2>1. AppFits(a) /\ GateIsOn(a.gate)
    BY <1>a, <1>b DEF AppFits, AppFields
  <2>2. CASE engine = [kind |-> "ready", at |-> o]
    BY <1>b, <1>2, <2>2, AsksKeeps DEF Play
  <2>3. CASE engine # [kind |-> "ready", at |-> o]
    <3>1. Goes(a, "connecting", o) /\ UNCHANGED dialled
      BY <1>2, <2>3 DEF Play, Connects
    <3> HIDE DEF a
    <3> QED
      BY <1>c, <2>1, <3>1, GoesKeeps
  <2> QED
    BY <2>2, <2>3
<1>3. ASSUME NEW a, NEW o \in Origins, AppFits(a), GateIsOn(a.gate), OpensShelf(a, o), UNCHANGED dialled PROVE AppInv'
  <2> DEFINE b == [a EXCEPT !.tab = "library", !.settings = FALSE, !.shelf = o]
             c == [b EXCEPT !.quiet = TRUE]
  <2>1. AppFits(b) /\ GateIsOn(b.gate)
    BY <1>3 DEF AppFits, AppFields
  <2>2. AppFits(c) /\ GateIsOn(c.gate)
    BY <2>1 DEF AppFits, AppFields
  <2>3. (Redraws(b) /\ UNCHANGED <<engine, dialled>>) \/ (Goes(c, "connecting", o) /\ UNCHANGED dialled)
    BY <1>3 DEF OpensShelf, Connects
  <2> HIDE DEF b, c
  <2> QED
    BY <1>c, <2>1, <2>2, <2>3, GoesKeeps, RedrawsKeeps
<1>4. ASSUME NEW o \in Origins, Browse(o) PROVE AppInv'
  BY <1>a, <1>3, <1>4 DEF Browse
<1>5. ASSUME NEW o \in Origins, SwitchProfile(o) PROVE AppInv'
  <2> DEFINE a == [app EXCEPT !.switch = o]
  <2>1. AppFits(a) /\ GateIsOn(a.gate)
    BY <1>a, <1>b DEF AppFits, AppFields
  <2>2. CASE engine = [kind |-> "ready", at |-> o]
    BY <1>b, <1>5, <2>2, AsksKeeps DEF SwitchProfile
  <2>3. CASE engine # [kind |-> "ready", at |-> o]
    <3>1. Goes(a, "connecting", o) /\ UNCHANGED dialled
      BY <1>5, <2>3 DEF SwitchProfile, Connects
    <3> HIDE DEF a
    <3> QED
      BY <1>c, <2>1, <3>1, GoesKeeps
  <2> QED
    BY <2>2, <2>3
<1>6. ASSUME NavigateSettings PROVE AppInv'
  <2> DEFINE a == [app EXCEPT !.settings = TRUE]
  <2>1. AppFits(a) /\ GateIsOn(a.gate)
    BY <1>a DEF AppFits, AppFields
  <2>2. Redraws(a) /\ UNCHANGED <<engine, dialled>>
    BY <1>6 DEF NavigateSettings
  <2> HIDE DEF a
  <2> QED
    BY <2>1, <2>2, RedrawsKeeps
<1>7. ASSUME NEW on \in BOOLEAN, OpenSettings(on) PROVE AppInv'
  <2> DEFINE a == [app EXCEPT !.settings = on]
  <2>1. AppFits(a) /\ GateIsOn(a.gate)
    BY <1>a DEF AppFits, AppFields
  <2>2. Redraws(a) /\ UNCHANGED <<engine, dialled>>
    BY <1>7 DEF OpenSettings
  <2> HIDE DEF a
  <2> QED
    BY <2>1, <2>2, RedrawsKeeps
<1>8. ASSUME Retry PROVE AppInv'
  <2> DEFINE again == IF app.dropped # None THEN app.dropped ELSE app.resume
             a == [app EXCEPT !.resume = again, !.dropped = None]
  <2>1. Goes(a, "connecting", engine.at) /\ UNCHANGED dialled /\ engine.at \in Origins
    BY <1>8, <1>a DEF Retry, Connects, EngineFits, SomeOrigin
  <2>2. again \in SomeOrigin
    BY <1>a DEF AppFits
  <2> HIDE DEF again
  <2>3. AppFits(a) /\ GateIsOn(a.gate)
    BY <1>a, <1>b, <2>2 DEF AppFits, AppFields
  <2> HIDE DEF a
  <2> QED
    BY <1>c, <2>1, <2>3, GoesKeeps
<1>9. ASSUME Back PROVE AppInv'
  <2> DEFINE a == [app EXCEPT !.gate = 0]
  <2>1. AppFits(a) /\ GateIsOn(a.gate)
    BY <1>a, AppAssumption DEF AppFits, AppFields, GateIsOn
  <2>2. \/ Redraws(a) /\ UNCHANGED <<engine, dialled>>
        \/ Goes(app, "idle", None) /\ UNCHANGED dialled
    BY <1>9 DEF Back, Disconnects
  <2> HIDE DEF a
  <2> QED
    BY <1>a, <1>d, <2>1, <2>2, GoesKeeps, RedrawsKeeps
<1>10. ASSUME NEW yes \in BOOLEAN, NEW launches \in BOOLEAN, FollowLink(yes, launches) PROVE AppInv'
  <2> DEFINE a == [app EXCEPT !.link = None]
             b == [a EXCEPT !.launch = IF launches THEN app.link ELSE None]
             c == [a EXCEPT !.screen = "home"]
  <2>1. AppFits(a) /\ a.gate = app.gate
    BY <1>a, <1>b DEF AppFits, AppFields
  <2>2. AppFits(b) /\ b.gate = app.gate
    BY <1>a, <1>b, <2>1 DEF AppFits, AppFields
  <2>3. AppFits(c) /\ c.gate = app.gate /\ LinkIsOn(c)
    BY <2>1 DEF AppFits, AppFields, LinkIsOn
  <2>4. app.link \in Origins
    BY <1>10, <1>a DEF FollowLink, AppInv, LinkIsOn, AppFits, SomeOrigin
  <2>5. \/ Goes(b, "connecting", app.link) /\ UNCHANGED dialled
        \/ app' = c /\ UNCHANGED <<engine, gates, timers, dialled>>
    BY <1>10 DEF FollowLink, Connects
  <2> HIDE DEF a, b, c
  <2>6. CASE Goes(b, "connecting", app.link) /\ UNCHANGED dialled
    BY <1>a, <1>c, <2>2, <2>4, <2>6, GoesKeeps
  <2>7. CASE app' = c /\ UNCHANGED <<engine, gates, timers, dialled>>
    BY <2>3, <2>7 DEF AppInv, GatesFit, GateFits, At, GateIsOn, GateIsFor, DialWasAsked
  <2> QED
    BY <2>5, <2>6, <2>7
<1>11. ASSUME NEW g \in 1..MaxGates, PickProfile(g) PROVE AppInv'
  <2> DEFINE a == [app EXCEPT !.gate = 0]
  <2>1. AppFits(a) /\ GateIsOn(a.gate)
    BY <1>a, AppAssumption DEF AppFits, AppFields, GateIsOn
  <2>2. app.gate = g /\ ~At(g, "none")
    BY <1>11 DEF PickProfile, At
  <2>3. \/ Redraws(a) /\ UNCHANGED <<engine, dialled>>
        \/ gates[g].play # None /\ Settles(g)
    BY <1>11 DEF PickProfile
  <2> HIDE DEF a
  <2> QED
    BY <2>1, <2>2, <2>3, RedrawsKeeps, SettlesKeeps
<1>12. ASSUME NEW to \in {"hosts", "library"}, Navigate(to) PROVE AppInv'
  <2> DEFINE a == [app EXCEPT !.settings = FALSE, !.tab = to, !.link = None, !.gate = 0]
             h == [a EXCEPT !.quiet = FALSE]
             k == [a EXCEPT !.quiet = FALSE, !.switch = None]
             i == Forgetful(k)
             q == [i EXCEPT !.quiet = TRUE]
  <2>1. AppFits(a) /\ a.gate = 0
    BY <1>a, <1>b, AppAssumption DEF AppFits, AppFields
  <2>2. AppFits(h) /\ AppFits(k) /\ h.gate = 0 /\ k.gate = 0
    BY <2>1, <1>b DEF AppFits, AppFields
  <2>3. AppFits(i) /\ i.gate = 0
    BY <2>2, <1>b DEF AppFits, AppFields, Forgetful
  <2>4. AppFits(q) /\ q.gate = 0
    BY <2>3 DEF AppFits, AppFields
  <2>5. GateIsOn(0) /\ a.shelf \in Origins
    BY <2>1 DEF GateIsOn, AppFits
  <2>6. /\ UNCHANGED dialled
        /\ \/ Goes(h, "idle", None) \/ Goes(q, "connecting", a.shelf)
           \/ Redraws(a) /\ UNCHANGED engine
           \/ OpensShelf(a, a.shelf)
    BY <1>12 DEF Navigate, Disconnects, Connects
  <2> HIDE DEF a, h, k, i, q
  <2> QED
    BY <1>3, <1>c, <1>d, <2>1, <2>2, <2>4, <2>5, <2>6, GoesKeeps, RedrawsKeeps
<1> QED
  BY <1>1, <1>2, <1>4, <1>5, <1>6, <1>7, <1>8, <1>9, <1>10, <1>11, <1>12 DEF Click

(* The gate's answers and timers, and the engine by itself. *)
LEMMA ByItselfKeeps == ASSUME AppInv, ByItself PROVE AppInv'
<1>a. AppFits(app) /\ GateIsOn(app.gate) /\ EngineFits(engine)
  BY DEF AppInv
<1>b. \A o \in Origins : EngineFits([kind |-> "connecting", at |-> o])
  BY AppAssumption DEF EngineFits, EngineKinds, Flows, SomeOrigin
<1>1. ASSUME NEW g \in 1..MaxGates, Listed(g) PROVE AppInv'
  <2>1. ~At(g, "none") /\ \/ app.gate # g /\ Over(g)
                          \/ Shows(g, "picks")
                          \/ app.gate = g /\ gates[g].play # None /\ Settles(g)
    BY <1>1 DEF Listed, At
  <2> QED
    BY <2>1, OverKeeps, ShowsKeeps, SettlesKeeps DEF GateStages
<1>2. ASSUME NEW g \in 1..MaxGates, Woken(g) \/ WakeFailed(g) \/ SeatTimer(g) \/ SeatRefused(g) \/ SeatNotYet(g)
      PROVE AppInv'
  <2>1. gates[g].stage \in {"wakes", "waits", "polls"} /\ ~At(g, "none")
    BY <1>2 DEF Woken, WakeFailed, SeatTimer, SeatRefused, SeatNotYet, At
  <2>2. app.gate = g => gates[g].play # None
    BY <1>a, <2>1 DEF GateIsOn
  <2>3. \/ app.gate # g /\ Over(g)
        \/ \E stage \in {"waits", "refused", "polls"} : Shows(g, stage)
    BY <1>2 DEF Woken, WakeFailed, SeatTimer, SeatRefused, SeatNotYet
  <2> QED
    BY <2>1, <2>2, <2>3, OverKeeps, ShowsKeeps DEF GateStages
<1>3. ASSUME NEW g \in 1..MaxGates, SeatUp(g) PROVE AppInv'
  <2>1. app.gate = g => gates[g].play # None
    BY <1>a, <1>3 DEF GateIsOn, SeatUp, At
  <2>2. (app.gate # g /\ Over(g)) \/ (app.gate = g /\ Dials(g))
    BY <1>3 DEF SeatUp
  <2> QED
    BY <2>1, <2>2, OverKeeps, DialsKeeps
<1>4. ASSUME NEW o \in Origins, ReconnectTimer(o) PROVE AppInv'
  <2>1. /\ engine' = [kind |-> "connecting", at |-> o] /\ timers' \subseteq timers
        /\ app' = Drawn(Edges(app, engine', engine.kind), engine') /\ gates' = Leaves(app'.gate)
        /\ UNCHANGED dialled
    BY <1>4 DEF ReconnectTimer
  <2>2. EngineFits(engine') /\ engine'.kind = "connecting"
    BY <1>b, <2>1
  <2>3. AppFits(Edges(app, engine', engine.kind)) /\ GateIsFor(Edges(app, engine', engine.kind).gate, engine')
    BY <1>a, <2>2, EdgesFit
  <2>4. Edges(app, engine', engine.kind).gate = 0
    BY <2>2, <2>3 DEF GateIsFor
  <2>5. AppFits(app') /\ LinkIsOn(app') /\ app'.gate = 0
    BY <2>1, <2>2, <2>3, <2>4, DrawnFits
  <2>6. GatesFit'
    BY <2>1, <2>5, LeavesFit, AppAssumption DEF AppInv, GatesFit, GateFits, At
  <2> QED
    BY <2>1, <2>2, <2>5, <2>6 DEF AppInv, GateIsOn, GateIsFor, DialWasAsked
<1>5. ASSUME NEW kind \in {"asks", "awaiting", "paired", "error", "ready", "streaming", "starting", "idle"}, EngineGoes(kind)
      PROVE AppInv'
  <2> DEFINE at == IF kind = "idle" THEN None ELSE engine.at
  <2>1. engine.kind \notin {"idle", "bad-address"}
    BY <1>5 DEF EngineGoes, Follows
  <2>2. EngineFits([kind |-> kind, at |-> at])
    BY <1>a, <2>1 DEF EngineFits, EngineKinds, Flows, SomeOrigin
  <2>3. Goes(app, kind, at) /\ UNCHANGED dialled
    BY <1>5 DEF EngineGoes
  <2> HIDE DEF at
  <2> QED
    BY <1>a, <2>2, <2>3, GoesKeeps
<1> QED
  BY <1>1, <1>2, <1>3, <1>4, <1>5 DEF ByItself

LEMMA AppGoesOn == AppInv /\ [AppNext]_appVars => AppInv'
<1> SUFFICES ASSUME AppInv, [AppNext]_appVars PROVE AppInv'
  OBVIOUS
<1>1. CASE UNCHANGED appVars
  BY <1>1 DEF appVars, AppInv, GatesFit, GateFits, At, GateIsOn, GateIsFor, DialWasAsked
<1> QED
  BY <1>1, ClickKeeps, ByItselfKeeps DEF AppNext

LEMMA AppBegins == AppInit => AppInv
<1> SUFFICES ASSUME AppInit PROVE AppInv
  OBVIOUS
<1>1. PICK link \in SomeOrigin :
        app = [screen |-> IF link = None THEN "home" ELSE "link", link |-> link, settings |-> FALSE,
               tab |-> "hosts", shelf |-> CHOOSE o \in Origins : TRUE, quiet |-> FALSE, browse |-> FALSE,
               resume |-> None, launch |-> None, switch |-> None, dropped |-> None, last |-> None,
               gate |-> 0]
  BY DEF AppInit, SomeOrigin
<1>2. (CHOOSE o \in Origins : TRUE) \in Origins
  BY AppAssumption
<1>3. AppFits(app) /\ LinkIsOn(app) /\ app.gate = 0
  BY <1>1, <1>2, AppAssumption DEF AppFits, AppFields, LinkIsOn, SomeOrigin
<1>4. GatesFit
  BY DEF AppInit, GatesFit, At, NoGate
<1>5. EngineFits(engine) /\ timers \subseteq Origins /\ DialWasAsked
  BY DEF AppInit, EngineFits, EngineKinds, SomeOrigin, DialWasAsked
<1> QED
  BY <1>3, <1>4, <1>5 DEF AppInv, GateIsOn, GateIsFor

(* The shelf. *)
LEMMA ShelfBegins == ShelfInit => ShelfInv
  BY DEF ShelfInit, ShelfInv, LibraryFits, Libraries, SomeShelf, NoLibrary, ShelfShowsItsOwn

LEMMA ShelfGoesOn == ShelfInv /\ [ShelfNext]_shelfVars => ShelfInv'
<1> SUFFICES ASSUME ShelfInv, [ShelfNext]_shelfVars PROVE ShelfInv'
  OBVIOUS
<1> USE DEF ShelfInv, LibraryFits, ShelfShowsItsOwn, Libraries, SomeShelf
<1>1. ASSUME NEW kind \in {"ready", "streaming", "away", "idle"}, NEW o \in Shelves \cup {Nobody}, HostGoes(kind, o)
      PROVE ShelfInv'
  BY <1>1 DEF HostGoes
<1>2. ASSUME NEW o \in Shelves, NEW stale \in BOOLEAN, ShowShelf(o, stale) PROVE ShelfInv'
  <2> DEFINE l == IF library.of = o THEN library ELSE [NoLibrary EXCEPT !.of = o]
             reads == library.of # o \/ (~library.loading /\ stale)
             m == [l EXCEPT !.loading = @ \/ reads]
  <2>1. /\ library' = Watched(m, o) /\ UNCHANGED host /\ sheet' \in {sheet, "closed"}
    BY <1>2 DEF ShowShelf
  <2>2. /\ l \in Libraries
        /\ l.of = o /\ {l.titles, l.running, l.notice} \subseteq {Nobody, o}
    BY DEF NoLibrary
  <2> HIDE DEF l
  <2>3. /\ m \in Libraries
        /\ m.of = o /\ m.titles = l.titles /\ m.running = l.running /\ m.notice = l.notice
    BY <2>2
  <2> HIDE DEF m
  <2>4. /\ library' \in Libraries
        /\ library'.of = o /\ library'.titles = l.titles /\ library'.running = l.running
        /\ library'.notice = l.notice /\ library'.polling = o
    BY <2>1, <2>3 DEF Watched
  <2> QED
    BY <2>1, <2>2, <2>4
<1>3. ASSUME NEW o \in Shelves, TitlesCame(o) PROVE ShelfInv'
  <2>1. PICK read \in BOOLEAN :
            library' = IF library.of # o THEN library
                       ELSE [library EXCEPT !.loading = FALSE, !.titles = IF read THEN o ELSE @]
    BY <1>3 DEF TitlesCame
  <2>2. UNCHANGED <<host, sheet>>
    BY <1>3 DEF TitlesCame
  <2>3. CASE library.of # o
    BY <2>1, <2>2, <2>3
  <2>4. CASE library.of = o
    <3> DEFINE t == IF read THEN o ELSE library.titles
    <3>1. t \in SomeShelf /\ t \in {Nobody, o}
      BY <2>4
    <3>2. library' = [library EXCEPT !.loading = FALSE, !.titles = t]
      BY <2>1, <2>4
    <3> HIDE DEF t
    <3> QED
      BY <2>2, <2>4, <3>1, <3>2
  <2> QED
    BY <2>3, <2>4
<1>4. ASSUME NEW o \in Shelves, StatusCame(o) PROVE ShelfInv'
  <2>1. UNCHANGED <<host, sheet>>
    BY <1>4 DEF StatusCame
  <2>2. CASE UNCHANGED library
    BY <2>1, <2>2
  <2>3. CASE library' # library
    <3>1. PICK running \in {o, Nobody, library.running} :
            /\ library.polling = o \/ running = library.running
            /\ library' = [library EXCEPT !.running = running, !.timer = o]
      BY <1>4, <2>3 DEF StatusCame
    <3>2. running \in SomeShelf /\ running \in {Nobody, library.of} /\ o \in SomeShelf
      BY <3>1, ShelfAssumption
    <3> QED
      BY <2>1, <3>1, <3>2
  <2> QED
    BY <2>2, <2>3
<1>5. ASSUME NEW o \in Shelves, EndGame(o) PROVE ShelfInv'
  BY <1>5 DEF EndGame
<1>6. ASSUME NEW o \in Shelves, Ended(o) PROVE ShelfInv'
  <2>1. PICK gone \in BOOLEAN :
            library' = IF library.of # o THEN library
                       ELSE [library EXCEPT !.notice = o, !.running = IF gone THEN Nobody ELSE @]
    BY <1>6 DEF Ended
  <2>2. UNCHANGED <<host, sheet>>
    BY <1>6 DEF Ended
  <2>3. CASE library.of # o
    BY <2>1, <2>2, <2>3
  <2>4. CASE library.of = o
    <3> DEFINE r == IF gone THEN Nobody ELSE library.running
    <3>1. r \in SomeShelf /\ r \in {Nobody, library.of}
      OBVIOUS
    <3>2. library' = [library EXCEPT !.notice = o, !.running = r]
      BY <2>1, <2>4
    <3> HIDE DEF r
    <3> QED
      BY <2>2, <2>4, <3>1, <3>2
  <2> QED
    BY <2>3, <2>4
<1>7. ASSUME NEW o \in Shelves, Forget(o) PROVE ShelfInv'
  BY <1>7 DEF Forget, NoLibrary
<1>8. ASSUME NEW on \in BOOLEAN, OpenTools(on) PROVE ShelfInv'
  BY <1>8 DEF OpenTools
<1>9. ASSUME PollTimer PROVE ShelfInv'
  BY <1>9 DEF PollTimer
<1>10. ASSUME UseTools \/ ToolsCame \/ FindGame \/ GameCame \/ EndStreamGame \/ StreamGameEnded PROVE ShelfInv'
  BY <1>10 DEF UseTools, ToolsCame, FindGame, GameCame, EndStreamGame, StreamGameEnded
<1>11. CASE UNCHANGED shelfVars
  BY <1>11 DEF shelfVars
<1> HIDE DEF ShelfInv, LibraryFits, ShelfShowsItsOwn, Libraries, SomeShelf
<1> QED
  BY <1>1, <1>2, <1>3, <1>4, <1>5, <1>6, <1>7, <1>8, <1>9, <1>10, <1>11 DEF ShelfNext

(* The console. *)
LEMMA ConsoleBegins == ConsoleInit => ConsoleInv
<1> SUFFICES ASSUME ConsoleInit PROVE ConsoleInv
  OBVIOUS
<1>1. PageFits /\ page.settings = FALSE
  BY DEF ConsoleInit, PageFits, Screens, SomeBox
<1>2. ConFits(con) /\ con.play = NoBox /\ con.pin = NoBox /\ con.knock = NoBox
  BY DEF ConsoleInit, ConFits, SomeBox, NoAsk
<1>3. NothingUnasked
  BY <1>2 DEF ConsoleInit, NothingUnasked, NoStep, Steps
<1> QED
  BY <1>1, <1>2, <1>3 DEF ConsoleInv

LEMMA DropFits ==
    ASSUME NEW c, ConFits(c)
    PROVE  /\ ConFits(DropPending(c)) /\ DropPending(c).play = NoBox
           /\ DropPending(c).pin = NoBox /\ DropPending(c).knock = NoBox
  BY DEF ConFits, DropPending, SomeBox, NoAsk

(* Setting what says nothing of what waits. *)
WaitsAs(c, d) == d.play = c.play /\ d.pin = c.pin /\ d.knock = c.knock

LEMMA TellsNothing ==
    ASSUME NEW c, ConFits(c), NEW v
    PROVE  /\ ConFits([c EXCEPT !.phase = v]) /\ WaitsAs(c, [c EXCEPT !.phase = v])
           /\ ConFits([c EXCEPT !.dialled = v]) /\ WaitsAs(c, [c EXCEPT !.dialled = v])
           /\ ConFits([c EXCEPT !.followed = v]) /\ WaitsAs(c, [c EXCEPT !.followed = v])
<1>1. ConFits([c EXCEPT !.phase = v]) /\ WaitsAs(c, [c EXCEPT !.phase = v])
  BY DEF ConFits, WaitsAs
<1>2. ConFits([c EXCEPT !.dialled = v]) /\ WaitsAs(c, [c EXCEPT !.dialled = v])
  BY DEF ConFits, WaitsAs
<1>3. ConFits([c EXCEPT !.followed = v]) /\ WaitsAs(c, [c EXCEPT !.followed = v])
  BY DEF ConFits, WaitsAs
<1> QED
  BY <1>1, <1>2, <1>3

LEMMA FetchesNothing ==
    ASSUME NEW c, ConFits(c), NEW o \in SomeBox
    PROVE  ConFits([c EXCEPT !.fetching = o]) /\ WaitsAs(c, [c EXCEPT !.fetching = o])
  BY DEF ConFits, WaitsAs

LEMMA AsksNothing ==
    ASSUME NEW c, ConFits(c), NEW ask \in [of : SomeBox, late : BOOLEAN]
    PROVE  ConFits([c EXCEPT !.asking = ask]) /\ WaitsAs(c, [c EXCEPT !.asking = ask])
  BY DEF ConFits, WaitsAs

NothingWaits(c) == c.play = NoBox /\ c.pin = NoBox /\ c.knock = NoBox

LEMMA StaysKeeps ==
    ASSUME NEW c, ConFits(c), NEW p \in [screen : Screens, at : SomeBox, settings : BOOLEAN],
           p.settings => p.screen \in {"streaming", "starting"},
           p.screen \in {"home", "error"} => NothingWaits(c), Stays(c, p)
    PROVE  ConsoleInv'
  BY DEF Stays, ConsoleInv, PageFits, NothingUnasked, NothingWaits, NoStep, Steps

LEMMA DoesKeeps ==
    ASSUME NEW c, ConFits(c), NEW p \in [screen : Screens, at : SomeBox, settings : BOOLEAN], ~p.settings,
           NEW step \in Steps, c[step] = p.at, NEW screen \in Screens \ {"home", "error"}, Does(step, c, p, screen)
    PROVE  ConsoleInv'
<1>1. /\ did' = [of |-> c[step], on |-> p.at] /\ page' = [p EXCEPT !.screen = screen]
      /\ con' = [c EXCEPT ![step] = NoBox]
  BY DEF Does
<1>2. ConFits(con')
  BY <1>1 DEF ConFits, Steps, SomeBox
<1>3. PageFits' /\ page'.screen = screen /\ page'.settings = FALSE
  BY <1>1 DEF PageFits
<1> QED
  BY <1>1, <1>2, <1>3 DEF ConsoleInv, NothingUnasked

LEMMA LibraryKeeps ==
    ASSUME NEW c, ConFits(c), NEW was, NEW p \in [screen : Screens, at : SomeBox, settings : BOOLEAN],
           ~p.settings, p.screen = "library", FollowLibrary(c, was, p)
    PROVE  ConsoleInv'
<1> DEFINE b == IF was = "streaming" THEN EndTold(c) ELSE c
           itsAsk == b.asking.of = p.at
           ask == IF itsAsk THEN NoAsk ELSE b.asking
           fetch == IF b.fetching = p.at THEN NoBox ELSE b.fetching
           e == [b EXCEPT !.asking = ask]
           shown == [e EXCEPT !.fetching = fetch]
<1>1. ConFits(b) /\ WaitsAs(c, b)
  <2> DEFINE g == [c EXCEPT !.phase = "over"]
  <2>1. ConFits(g) /\ WaitsAs(c, g)
    BY TellsNothing
  <2>2. EndTold(c) = [g EXCEPT !.dialled = FALSE]
    BY DEF EndTold, Told
  <2> HIDE DEF g
  <2>5. ConFits([g EXCEPT !.dialled = FALSE]) /\ WaitsAs(g, [g EXCEPT !.dialled = FALSE])
    BY <2>1, TellsNothing
  <2>4. ConFits(EndTold(c)) /\ WaitsAs(g, EndTold(c))
    BY <2>2, <2>5
  <2>3. ConFits(EndTold(c)) /\ WaitsAs(c, EndTold(c))
    BY <2>1, <2>4 DEF WaitsAs
  <2> QED
    BY <2>3 DEF WaitsAs
<1>2. ask \in [of : SomeBox, late : BOOLEAN] /\ NoAsk \in [of : SomeBox, late : BOOLEAN] /\ fetch \in SomeBox
  BY <1>1 DEF ConFits, NoAsk, SomeBox
<1>3. \/ Stays([b EXCEPT !.asking = NoAsk], p)
      \/ Stays(shown, p)
      \/ b.play = p.at /\ Does("play", FollowConnecting(shown), p, "starting")
  BY DEF FollowLibrary
<1> HIDE DEF b, ask, fetch
<1>4. ConFits([b EXCEPT !.asking = NoAsk]) /\ ConFits(e) /\ WaitsAs(b, e)
  BY <1>1, <1>2, AsksNothing
<1> HIDE DEF e
<1>5. ConFits(shown) /\ WaitsAs(b, shown)
  BY <1>2, <1>4, FetchesNothing DEF WaitsAs
<1> HIDE DEF shown
<1>6. ConFits(FollowConnecting(shown)) /\ WaitsAs(b, FollowConnecting(shown))
  <2>1. FollowConnecting(shown) \in {shown, [shown EXCEPT !.phase = "dialling"]}
    BY DEF FollowConnecting, Told
  <2>2. ConFits([shown EXCEPT !.phase = "dialling"]) /\ WaitsAs(shown, [shown EXCEPT !.phase = "dialling"])
    BY <1>5, TellsNothing
  <2> QED
    BY <1>5, <2>1, <2>2 DEF WaitsAs
<1>7. CASE b.play = p.at /\ Does("play", FollowConnecting(shown), p, "starting")
  <2>1. "play" \in Steps /\ "starting" \in Screens \ {"home", "error"} /\ FollowConnecting(shown)["play"] = p.at
    BY <1>6, <1>7 DEF Steps, Screens, WaitsAs
  <2> QED
    BY <1>6, <1>7, <2>1, DoesKeeps
<1>8. CASE Stays([b EXCEPT !.asking = NoAsk], p) \/ Stays(shown, p)
  BY <1>4, <1>5, <1>8, StaysKeeps
<1> QED
  BY <1>3, <1>7, <1>8

(* A screen that is drawn: what waits is for the host it was asked of, and nothing waits at home. *)
LEMMA DrawsKeeps ==
    ASSUME NEW b, ConFits(b), NEW p \in [screen : Screens, at : SomeBox, settings : BOOLEAN], NEW failed,
           p.settings => p.screen \in {"streaming", "starting"}, Draws(b, p, failed)
    PROVE  ConsoleInv'
<1> DEFINE was == b.followed
           c == Seen(b, p)
<1>1. ConFits(c)
  BY TellsNothing DEF Seen
<1>2. CASE p.settings
  <2>1. Stays(c, p)
    BY <1>2 DEF Draws
  <2> QED
    BY <1>1, <1>2, <2>1, StaysKeeps
<1> HIDE DEF c
<1>3. CASE ~p.settings /\ p.screen \in {"pair", "refused"}
  <2>1. FollowPair(c, p)
    BY <1>3 DEF Draws, c
  <2>a. {"pin", "knock"} \subseteq Steps /\ {"pairing", "waiting"} \subseteq Screens \ {"home", "error"}
    BY DEF Steps, Screens
  <2>2. CASE PinIsFor(c, p)
    <3>1. Does("pin", c, p, "pairing") /\ c["pin"] = p.at
      BY <2>1, <2>2 DEF FollowPair, PinIsFor
    <3> QED
      BY <1>1, <1>3, <2>a, <3>1, DoesKeeps
  <2>3. CASE ~PinIsFor(c, p) /\ c.knock = p.at
    <3>1. Does("knock", c, p, "waiting") /\ c["knock"] = p.at
      BY <2>1, <2>3 DEF FollowPair
    <3> QED
      BY <1>1, <1>3, <2>a, <3>1, DoesKeeps
  <2>4. CASE ~PinIsFor(c, p) /\ c.knock # p.at
    <3>1. Stays(c, p)
      BY <2>1, <2>4 DEF FollowPair
    <3> QED
      BY <1>1, <1>3, <3>1, StaysKeeps
  <2> QED
    BY <2>2, <2>3, <2>4
<1>4. CASE ~p.settings /\ p.screen = "library"
  <2>1. FollowLibrary(c, was, p)
    BY <1>4 DEF Draws, c
  <2> QED
    BY <1>1, <1>4, <2>1, LibraryKeeps
<1>5. CASE ~p.settings /\ p.screen \notin {"pair", "refused", "library"}
  <2> DEFINE f == CASE p.screen = "home"                       -> FollowHome(c, was, failed)
                    [] p.screen = "error"                      -> FollowError(c)
                    [] p.screen \in {"connecting", "starting"} -> FollowConnecting(c)
                    [] p.screen = "streaming"                  -> FollowStreaming(c, was)
                    [] OTHER                                   -> c
  <2>1. Stays(f, p)
    BY <1>5 DEF Draws, c
  <2>2. ConFits(f) /\ (p.screen \in {"home", "error"} => NothingWaits(f))
    <3>1. CASE p.screen = "home"
      <4> DEFINE e == [c EXCEPT !.fetching = IF failed THEN NoBox ELSE @]
      <4>1. f = FollowHome(c, was, failed)
        BY <3>1
      <4>2. ConFits(e)
        <5> DEFINE o == IF failed THEN NoBox ELSE c.fetching
        <5>1. o \in SomeBox
          BY <1>1 DEF ConFits, SomeBox
        <5> HIDE DEF o
        <5>2. ConFits([c EXCEPT !.fetching = o])
          BY <1>1, <5>1, FetchesNothing
        <5> QED
          BY <5>2 DEF o, e
      <4> HIDE DEF e
      <4>3. ConFits(DropPending(e)) /\ NothingWaits(DropPending(e))
        BY <4>2, DropFits DEF NothingWaits
      <4>4. f \in {DropPending(e), EndTold(DropPending(e))}
        BY <4>1 DEF FollowHome, e
      <4>5. ConFits(EndTold(DropPending(e))) /\ NothingWaits(EndTold(DropPending(e)))
        <5> DEFINE d == DropPending(e)
                   g == [d EXCEPT !.phase = "over"]
        <5>1. ConFits(g) /\ NothingWaits(g)
          BY <4>3, TellsNothing DEF NothingWaits, WaitsAs
        <5>2. EndTold(d) = [g EXCEPT !.dialled = FALSE]
          BY DEF EndTold, Told
        <5> HIDE DEF d, g
        <5>3. ConFits([g EXCEPT !.dialled = FALSE]) /\ NothingWaits([g EXCEPT !.dialled = FALSE])
          BY <5>1, TellsNothing DEF NothingWaits, WaitsAs
        <5> QED
          BY <5>2, <5>3 DEF d
      <4> QED
        BY <4>3, <4>4, <4>5
    <3>2. CASE p.screen = "error"
      <4> DEFINE d == DropPending(c)
                 g == [d EXCEPT !.dialled = FALSE, !.fetching = NoBox]
      <4>1. f = [g EXCEPT !.phase = "failed"]
        BY <3>2 DEF FollowError, Told
      <4>2. ConFits(d) /\ NothingWaits(d)
        BY <1>1, DropFits DEF NothingWaits
      <4> HIDE DEF d
      <4>3. ConFits(g) /\ NothingWaits(g)
        BY <4>2 DEF ConFits, NothingWaits, SomeBox
      <4> HIDE DEF g
      <4>4. ConFits([g EXCEPT !.phase = "failed"]) /\ NothingWaits([g EXCEPT !.phase = "failed"])
        BY <4>3, TellsNothing DEF NothingWaits, WaitsAs
      <4> QED
        BY <4>1, <4>4
    <3>3. CASE p.screen \notin {"home", "error"}
      <4>1. f \in {c, FollowConnecting(c), FollowStreaming(c, was)}
        BY <3>3
      <4> QED
        BY <1>1, <3>3, <4>1, TellsNothing DEF FollowConnecting, FollowStreaming, Told
    <3> QED
      BY <3>1, <3>2, <3>3
  <2> HIDE DEF f
  <2> QED
    BY <1>5, <2>1, <2>2, StaysKeeps
<1> QED
  BY <1>2, <1>3, <1>4, <1>5

(* What the console has seen last, and what it was told of the session (StreamsEndHeard).  The settings
   cover only what was seen to stream. *)
SawStream == page.screen = "streaming" \/ page.settings => con.followed = "streaming"

LEMMA Fields ==
    ASSUME NEW c, ConFits(c), NEW v
    PROVE  /\ \A f \in {"play", "pin", "knock", "asking", "dialled", "fetching", "phase"} :
                [c EXCEPT ![f] = v].followed = c.followed
           /\ \A f \in {"play", "asking", "fetching"} :
                /\ [c EXCEPT ![f] = v].phase = c.phase /\ [c EXCEPT ![f] = v].dialled = c.dialled
  BY DEF ConFits

LEMMA EndIsTold ==
    ASSUME NEW c, ConFits(c)
    PROVE  /\ ConFits(EndTold(c)) /\ EndTold(c).phase = "over" /\ ~EndTold(c).dialled
           /\ EndTold(c).followed = c.followed
<1> DEFINE g == [c EXCEPT !.phase = "over"]
<1>1. ConFits(g) /\ g.followed = c.followed /\ g.phase = "over"
  BY DEF ConFits
<1>2. EndTold(c) = [g EXCEPT !.dialled = FALSE]
  BY DEF EndTold, Told
<1> HIDE DEF g
<1>3. ConFits([g EXCEPT !.dialled = FALSE])
  BY <1>1, TellsNothing
<1> QED
  BY <1>1, <1>2, <1>3 DEF ConFits

LEMMA DropsTell ==
    ASSUME NEW c, ConFits(c)
    PROVE  ConFits(DropPending(c)) /\ DropPending(c).followed = c.followed
  BY DropFits DEF ConFits, DropPending

LEMMA HomeFollows ==
    ASSUME NEW c, ConFits(c), NEW was, NEW failed
    PROVE  /\ FollowHome(c, was, failed).followed = c.followed
           /\ was = "streaming" => FollowHome(c, was, failed).phase = "over"
<1> DEFINE o == IF failed THEN NoBox ELSE c.fetching
           e == [c EXCEPT !.fetching = o]
           d == DropPending(e)
<1>1. o \in SomeBox
  BY DEF ConFits, SomeBox
<1> HIDE DEF o
<1>2. ConFits(e) /\ e.followed = c.followed
  BY <1>1, FetchesNothing DEF ConFits
<1>3. FollowHome(c, was, failed) = IF was = "streaming" \/ (c.dialled /\ was # "home") THEN EndTold(d) ELSE d
  BY DEF FollowHome, o
<1> HIDE DEF e
<1>4. ConFits(d) /\ d.followed = c.followed
  BY <1>2, DropsTell
<1> HIDE DEF d
<1> QED
  BY <1>3, <1>4, EndIsTold

LEMMA ErrorFollows ==
    ASSUME NEW c, ConFits(c)
    PROVE  FollowError(c).followed = c.followed /\ FollowError(c).phase = "failed"
<1> DEFINE d == DropPending(c)
           g == [d EXCEPT !.dialled = FALSE, !.fetching = NoBox]
<1>1. ConFits(d) /\ d.followed = c.followed
  BY DropsTell
<1> HIDE DEF d
<1>2. ConFits(g) /\ g.followed = c.followed
  BY <1>1 DEF ConFits, SomeBox
<1> HIDE DEF g
<1>3. FollowError(c) = [g EXCEPT !.phase = "failed"]
  BY DEF FollowError, Told, g, d
<1> QED
  BY <1>2, <1>3 DEF ConFits

LEMMA LibraryFollows ==
    ASSUME NEW c, ConFits(c), NEW was, NEW p \in [screen : Screens, at : SomeBox, settings : BOOLEAN],
           FollowLibrary(c, was, p)
    PROVE  /\ con'.followed = c.followed /\ page'.settings = p.settings
           /\ page'.screen \in {p.screen, "starting"}
           /\ was = "streaming" => con'.phase = "over"
<1> DEFINE b == IF was = "streaming" THEN EndTold(c) ELSE c
           itsAsk == b.asking.of = p.at
           ask == IF itsAsk THEN NoAsk ELSE b.asking
           fetch == IF b.fetching = p.at THEN NoBox ELSE b.fetching
           e == [b EXCEPT !.asking = ask]
           shown == [e EXCEPT !.fetching = fetch]
<1>1. ConFits(b) /\ b.followed = c.followed /\ (was = "streaming" => b.phase = "over" /\ ~b.dialled)
  BY EndIsTold
<1>2. ask \in [of : SomeBox, late : BOOLEAN] /\ NoAsk \in [of : SomeBox, late : BOOLEAN] /\ fetch \in SomeBox
  BY <1>1 DEF ConFits, NoAsk, SomeBox
<1>3. \/ Stays([b EXCEPT !.asking = NoAsk], p)
      \/ Stays(shown, p)
      \/ Does("play", FollowConnecting(shown), p, "starting")
  BY DEF FollowLibrary
<1> DEFINE TellsAs(d) == d.followed = c.followed /\ (was = "streaming" => d.phase = "over" /\ ~d.dialled)
<1> HIDE DEF b, ask, fetch
<1>4. ConFits([b EXCEPT !.asking = NoAsk]) /\ TellsAs([b EXCEPT !.asking = NoAsk]) /\ ConFits(e) /\ TellsAs(e)
  BY <1>1, <1>2, AsksNothing, Fields
<1> HIDE DEF e
<1>5. ConFits(shown) /\ TellsAs(shown)
  BY <1>2, <1>4, FetchesNothing, Fields
<1> HIDE DEF shown
<1>6. ConFits(FollowConnecting(shown)) /\ TellsAs(FollowConnecting(shown))
  <2>1. CASE shown.dialled
    <3>1. FollowConnecting(shown) = [shown EXCEPT !.phase = "dialling"] /\ was # "streaming"
      BY <1>5, <2>1 DEF FollowConnecting, Told
    <3>2. ConFits([shown EXCEPT !.phase = "dialling"]) /\ [shown EXCEPT !.phase = "dialling"].followed = shown.followed
      BY <1>5, TellsNothing DEF ConFits
    <3> QED
      BY <1>5, <3>1, <3>2
  <2>2. CASE ~shown.dialled
    BY <1>5, <2>2 DEF FollowConnecting
  <2> QED
    BY <2>1, <2>2
<1>7. CASE Does("play", FollowConnecting(shown), p, "starting")
  <2>1. con' = [FollowConnecting(shown) EXCEPT !["play"] = NoBox] /\ page' = [p EXCEPT !.screen = "starting"]
    BY <1>7 DEF Does
  <2>2. con'.followed = c.followed /\ (was = "streaming" => con'.phase = "over")
    BY <1>6, <2>1, Fields
  <2> QED
    BY <2>1, <2>2
<1>8. CASE Stays([b EXCEPT !.asking = NoAsk], p) \/ Stays(shown, p)
  BY <1>4, <1>5, <1>8 DEF Stays
<1> QED
  BY <1>3, <1>7, <1>8

LEMMA DrawsFollow ==
    ASSUME NEW b, ConFits(b), NEW p \in [screen : Screens, at : SomeBox, settings : BOOLEAN], NEW failed,
           Draws(b, p, failed)
    PROVE  /\ con'.followed = (IF p.settings THEN b.followed ELSE p.screen) /\ page'.settings = p.settings
           /\ \/ page'.screen = p.screen
              \/ /\ ~p.settings /\ page'.screen \in {"pairing", "waiting", "starting"}
                 /\ p.screen \in {"pair", "refused", "library"}
           /\ b.followed = "streaming" /\ ~p.settings /\ p.screen \in {"home", "error", "library"}
                => con'.phase \in {"over", "failed"}
<1> DEFINE was == b.followed
           c == Seen(b, p)
<1>1. ConFits(c) /\ c.followed = IF p.settings THEN b.followed ELSE p.screen
  BY TellsNothing DEF Seen, ConFits
<1>2. CASE p.settings
  BY <1>1, <1>2 DEF Draws, Stays
<1> HIDE DEF c
<1>3. CASE ~p.settings /\ p.screen \in {"pair", "refused"}
  <2>1. FollowPair(c, p)
    BY <1>3 DEF Draws, c
  <2>2. \/ Stays(c, p)
        \/ Does("pin", c, p, "pairing") \/ Does("knock", c, p, "waiting")
    BY <2>1 DEF FollowPair
  <2>3. CASE Stays(c, p)
    BY <1>1, <1>3, <2>3 DEF Stays
  <2>4. CASE Does("pin", c, p, "pairing") \/ Does("knock", c, p, "waiting")
    <3>1. /\ con' = [c EXCEPT !["pin"] = NoBox] \/ con' = [c EXCEPT !["knock"] = NoBox]
          /\ page' = [p EXCEPT !.screen = "pairing"] \/ page' = [p EXCEPT !.screen = "waiting"]
      BY <2>4 DEF Does
    <3>2. con'.followed = c.followed
      BY <1>1, <3>1 DEF ConFits
    <3> QED
      BY <1>1, <1>3, <3>1, <3>2
  <2> QED
    BY <2>2, <2>3, <2>4
<1>4. CASE ~p.settings /\ p.screen = "library"
  <2>1. FollowLibrary(c, was, p)
    BY <1>4 DEF Draws, c
  <2> QED
    BY <1>1, <1>4, <2>1, LibraryFollows
<1>5. CASE ~p.settings /\ p.screen \notin {"pair", "refused", "library"}
  <2> DEFINE f == CASE p.screen = "home"                       -> FollowHome(c, was, failed)
                    [] p.screen = "error"                      -> FollowError(c)
                    [] p.screen \in {"connecting", "starting"} -> FollowConnecting(c)
                    [] p.screen = "streaming"                  -> FollowStreaming(c, was)
                    [] OTHER                                   -> c
  <2>1. Stays(f, p)
    BY <1>5 DEF Draws, c
  <2>2. f.followed = c.followed /\ (was = "streaming" /\ p.screen \in {"home", "error"} => f.phase \in {"over", "failed"})
    <3>1. CASE p.screen = "home"
      BY <1>1, <3>1, HomeFollows
    <3>2. CASE p.screen = "error"
      BY <1>1, <3>2, ErrorFollows
    <3>3. CASE p.screen \notin {"home", "error"}
      <4>1. f \in {c, FollowConnecting(c), FollowStreaming(c, was)}
        BY <3>3
      <4>2. \A v : [c EXCEPT !.phase = v].followed = c.followed
        BY <1>1, Fields
      <4> QED
        BY <3>3, <4>1, <4>2 DEF FollowConnecting, FollowStreaming, Told
    <3> QED
      BY <3>1, <3>2, <3>3
  <2> HIDE DEF f
  <2> QED
    BY <1>1, <1>5, <2>1, <2>2 DEF Stays
<1> QED
  BY <1>2, <1>3, <1>4, <1>5

Heard ==
    page.screen = "streaming" /\ page'.screen \notin {"streaming", "starting"} => con'.phase \in {"over", "failed"}
GoesOn == ConsoleInv' /\ SawStream' /\ Heard

LEMMA ConsoleGoesOn == ConsoleInv /\ SawStream /\ [ConsoleNext]_consoleVars => GoesOn
<1> SUFFICES ASSUME ConsoleInv, SawStream, [ConsoleNext]_consoleVars PROVE GoesOn
  OBVIOUS
<1> DEFINE Pages == [screen : Screens, at : SomeBox, settings : BOOLEAN]
<1>a. ConFits(con) /\ page \in Pages /\ (page.settings => page.screen \in {"streaming", "starting"})
  BY DEF ConsoleInv, PageFits
<1>b. NoBox \in SomeBox /\ \A o \in Boxes : o \in SomeBox
  BY DEF SomeBox
<1>c. ASSUME Showing, NEW b, ConFits(b), NEW screen \in Screens \ {"streaming"}, NEW o \in SomeBox, NEW failed, Draws(b, Screen(screen, o), failed)
      PROVE  GoesOn
  <2>1. Screen(screen, o) \in Pages /\ ~Screen(screen, o).settings /\ Screen(screen, o).screen = screen
    BY DEF Screen
  <2>2. ConsoleInv'
    BY <1>c, <2>1, DrawsKeeps
  <2>3. page'.settings = FALSE /\ page'.screen # "streaming"
    BY <1>c, <2>1, DrawsFollow
  <2> QED
    BY <1>c, <2>2, <2>3 DEF GoesOn, SawStream, Heard, Showing, WebScreens
<1>d. ASSUME Showing, NEW b, ConFits(b), NEW o \in SomeBox, Reaches(b, o) PROVE GoesOn
  BY <1>c, <1>d DEF Reaches, Screens
<1>e. ASSUME Showing, NEW b, ConFits(b), NEW failed, GoesHome(b, failed) PROVE GoesOn
  BY <1>b, <1>c, <1>e DEF GoesHome, Screens
<1>1. ASSUME Raised PROVE GoesOn
  <2>s. Showing
    BY <1>1 DEF Raised
  <2>1. ASSUME CancelConnect PROVE GoesOn
    <3>1. ConFits(DropPending(con))
      BY <1>a, DropFits
    <3>2. ConFits([DropPending(con) EXCEPT !.dialled = FALSE])
      BY <3>1, TellsNothing
    <3> QED
      BY <2>s, <1>e, <2>1, <3>2 DEF CancelConnect
  <2>2. ASSUME NEW o \in Boxes, Launch(o) PROVE GoesOn
    <3> DEFINE c == [con EXCEPT !.dialled = TRUE]
               d == [con EXCEPT !.dialled = TRUE, !.play = o]
    <3>1. ConFits(c)
      BY <1>a, TellsNothing
    <3>2. ConFits(d)
      BY <1>a, <1>b DEF ConFits
    <3>3. Draws(c, Screen("starting", o), FALSE) \/ Reaches(d, o)
      BY <2>2 DEF Launch
    <3> HIDE DEF c, d
    <3> QED
      BY <1>b, <2>s, <1>c, <1>d, <3>1, <3>2, <3>3 DEF Screens
  <2>3. ASSUME NEW o \in Boxes, LaunchAsking(o) PROVE GoesOn
    <3>1. ConFits([con EXCEPT !.dialled = TRUE, !.knock = o])
      BY <1>a, <1>b DEF ConFits
    <3> QED
      BY <1>b, <2>s, <1>d, <2>3, <3>1 DEF LaunchAsking
  <2>4. ASSUME NEW o \in Boxes, FetchLibrary(o) PROVE GoesOn
    <3>1. ConFits([con EXCEPT !.fetching = o])
      BY <1>a, <1>b, FetchesNothing
    <3>2. CASE Ready(o)
      <4>1. FollowLibrary(con, "library", page) /\ page.screen = "library"
        BY <2>4, <3>2 DEF FetchLibrary, Ready
      <4>2. ~page.settings
        BY <2>s DEF Showing
      <4>3. ConsoleInv'
        BY <1>a, <4>1, <4>2, LibraryKeeps
      <4>4. page'.settings = FALSE /\ page'.screen \in {"library", "starting"}
        BY <1>a, <4>1, <4>2, LibraryFollows
      <4> QED
        BY <4>1, <4>3, <4>4 DEF GoesOn, SawStream, Heard
    <3>3. CASE ~Ready(o)
      BY <1>b, <2>s, <1>d, <2>4, <3>1, <3>3 DEF FetchLibrary
    <3> QED
      BY <3>2, <3>3
  <2>5. ASSUME NEW o \in Boxes, FetchProfiles(o) PROVE GoesOn
    <3>1. ConFits([con EXCEPT !.asking = [of |-> o, late |-> FALSE]])
      BY <1>a, <1>b, AsksNothing
    <3> QED
      BY <1>b, <2>s, <1>d, <2>5, <3>1 DEF FetchProfiles
  <2>6. ASSUME NEW o \in Boxes, SaveHost(o) \/ ForgetHost(o) PROVE GoesOn
    BY <1>a, <1>b, <2>s, <1>d, <1>e, <2>6 DEF SaveHost, ForgetHost
  <2>7. ASSUME NEW o \in Boxes, NEW step \in {"pin", "knock"}, AsksHost(step, o) PROVE GoesOn
    <3>1. ConFits([con EXCEPT ![step] = o])
      BY <1>a, <1>b DEF ConFits
    <3>2. \/ \E screen \in {"connecting", "pairing", "waiting"} : Draws(con, Screen(screen, o), FALSE)
          \/ Reaches([con EXCEPT ![step] = o], o)
      BY <2>7 DEF AsksHost
    <3> QED
      BY <1>a, <1>b, <2>s, <1>c, <1>d, <3>1, <3>2 DEF Screens
  <2> QED
    BY <1>1, <2>1, <2>2, <2>3, <2>4, <2>5, <2>6, <2>7 DEF Raised
<1>2. ASSUME AskIsLate PROVE GoesOn
  <2>1. con' = [con EXCEPT !.asking = [con.asking EXCEPT !.late = TRUE]] /\ did' = NoStep /\ page' = page
    BY <1>2 DEF AskIsLate
  <2>2. [con.asking EXCEPT !.late = TRUE] \in [of : SomeBox, late : BOOLEAN]
    BY <1>a DEF ConFits
  <2>3. ConFits(con') /\ WaitsAs(con, con')
    BY <1>a, <2>1, <2>2, AsksNothing
  <2>4. con'.followed = con.followed
    BY <1>a, <2>1, Fields
  <2>5. SawStream' /\ Heard
    BY <2>1, <2>4 DEF SawStream, Heard
  <2> QED
    BY <2>1, <2>3, <2>5 DEF GoesOn, ConsoleInv, PageFits, NothingUnasked, NoStep, Steps, WaitsAs
<1>3. ASSUME ScreenMoves PROVE GoesOn
  <2>1. PICK screen \in MovesOn(page.screen) :
          Draws(con, [screen |-> screen, at |-> IF screen = "home" THEN NoBox ELSE page.at,
                      settings |-> page.settings /\ screen \in {"starting", "streaming"}], FALSE)
    BY <1>3 DEF ScreenMoves
  <2> DEFINE o == IF screen = "home" THEN NoBox ELSE page.at
             covers == page.settings /\ screen \in {"starting", "streaming"}
  <2>2. screen \in Screens
    BY DEF MovesOn, Screens
  <2>3. o \in SomeBox /\ covers \in BOOLEAN /\ (covers => screen \in {"streaming", "starting"})
    BY <1>a, <1>b
  <2>4. Draws(con, [screen |-> screen, at |-> o, settings |-> covers], FALSE)
    BY <2>1
  <2> HIDE DEF o, covers
  <2>5. /\ [screen |-> screen, at |-> o, settings |-> covers] \in Pages
        /\ [screen |-> screen, at |-> o, settings |-> covers].settings = covers
        /\ [screen |-> screen, at |-> o, settings |-> covers].screen = screen
    BY <2>2, <2>3
  <2>6. ConsoleInv'
    BY <1>a, <2>3, <2>4, <2>5, DrawsKeeps
  <2>7. /\ con'.followed = (IF covers THEN con.followed ELSE screen) /\ page'.settings = covers
        /\ \/ page'.screen = screen
           \/ ~covers /\ page'.screen \in {"pairing", "waiting", "starting"} /\ screen \in {"pair", "refused", "library"}
        /\ con.followed = "streaming" /\ ~covers /\ screen \in {"home", "error", "library"}
             => con'.phase \in {"over", "failed"}
    BY <1>a, <2>4, <2>5, DrawsFollow
  <2>8. covers => con.followed = "streaming"
    BY DEF covers, SawStream
  <2>9. SawStream'
    BY <2>7, <2>8 DEF SawStream
  <2>10. page.screen = "streaming" => screen \in {"starting", "error", "library", "home"} /\ con.followed = "streaming"
    BY DEF MovesOn, SawStream
  <2>11. Heard
    BY <2>3, <2>7, <2>10 DEF Heard
  <2> QED
    BY <2>6, <2>9, <2>11 DEF GoesOn
<1>4. ASSUME SettingsOver PROVE GoesOn
  <2>1. Draws(con, [page EXCEPT !.settings = ~page.settings], FALSE) /\ page.screen \in {"streaming", "starting"}
    BY <1>4, <1>a DEF SettingsOver
  <2>2. [page EXCEPT !.settings = ~page.settings] \in Pages /\ [page EXCEPT !.settings = ~page.settings].screen = page.screen
    BY <1>a
  <2>3. ConsoleInv'
    BY <1>a, <2>1, <2>2, DrawsKeeps
  <2>4. con.followed = "streaming"
    BY <1>4 DEF SettingsOver, SawStream
  <2>5. [page EXCEPT !.settings = ~page.settings].settings = ~page.settings
    BY <1>a
  <2>6. con'.followed = (IF ~page.settings THEN con.followed ELSE page.screen) /\ page'.settings = ~page.settings
    BY <1>a, <2>1, <2>2, <2>5, DrawsFollow
  <2>7. page'.screen = page.screen
    BY <1>a, <2>1, <2>2, DrawsFollow
  <2>8. SawStream' /\ Heard
    BY <2>1, <2>4, <2>6, <2>7 DEF SawStream, Heard
  <2> QED
    BY <2>3, <2>8 DEF GoesOn
<1>5. CASE UNCHANGED consoleVars
  BY <1>5 DEF consoleVars, GoesOn, SawStream, Heard, ConsoleInv, PageFits, NothingUnasked
<1> QED
  BY <1>1, <1>2, <1>3, <1>4, <1>5 DEF ConsoleNext

(* Who plays. *)
LEMMA WhoBegins == WhoInit => WhoInv
<1> SUFFICES ASSUME WhoInit PROVE WhoInv
  OBVIOUS
<1>1. box \in [rows : SUBSET Profiles, old : SomeProfile, up : SUBSET Profiles] /\ box.up \subseteq box.rows
  BY DEF WhoInit, SomeProfile
<1>2. PickIsChosen(NoPick) /\ record.pick = NoPick
  BY DEF WhoInit, NoRecord, NoPick, PickIsChosen, SomePick, SomeProfile
<1>3. \A t \in Tabs : AskFits(asks[t]) /\ asks[t].stage = "none"
  BY <1>2 DEF WhoInit, NoAsking, AskFits, AskStages, NoPick, SomePick, SomeProfile
<1>4. PlaysAsChosen
  BY <1>2, <1>3 DEF PlaysAsChosen, WhoInit, NoHello, NoPick
<1> QED
  BY <1>1, <1>2, <1>3, <1>4 DEF WhoInv, WhoInit, NoRecord, PickIsChosen

(* pickerDecision, of a pick that is what it should be: what it plays as the kept pick was chosen, and
   what it would have kept is a chosen one, the old seat's as picked now. *)
LEMMA DecisionIsChosen ==
    ASSUME NEW rows \in SUBSET Profiles, NEW old \in SomeProfile, NEW saved, PickIsChosen(saved)
    PROVE  LET d == Decision(rows, old, saved)
           IN  \/ d.picker
               \/ /\ ~d.picker /\ d.why \in {"none", "lone", "kept"} /\ PickIsChosen(d.remember)
                  /\ d.why = "none" => rows = {} /\ d.send = NoProfile
                  /\ d.why = "lone" => d.send \in Profiles
                  /\ d.why = "kept" => d.send \in chosen.picked \cap Profiles
               \/ ~d.picker /\ d.why = "legacy" /\ d.send \in Profiles /\ d.remember = PickOf(d.send)
<1> DEFINE d == Decision(rows, old, saved)
           keeps == IF Still(rows, saved) THEN saved ELSE NoPick
           lone == CHOOSE p \in rows : TRUE
<1>1. IsFiniteSet(rows) /\ Cardinality(rows) \in Nat /\ (Cardinality(rows) = 0 <=> rows = {})
  BY WhoPlaysAssumption, FS_Subset, FS_CardinalityType, FS_EmptySet
<1>2. PickIsChosen(keeps)
  BY DEF PickIsChosen, NoPick, SomePick, SomeProfile
<1>3. CASE rows = {}
  <2>1. d = Plays(NoProfile, "none", saved)
    BY <1>1, <1>3 DEF Decision
  <2> QED
    BY <1>3, <2>1 DEF Plays
<1>4. CASE Cardinality(rows) = 1
  <2>1. d = Plays(lone, "lone", keeps) /\ lone \in Profiles
    BY <1>1, <1>4 DEF Decision
  <2> HIDE DEF lone, keeps
  <2> QED
    BY <1>2, <2>1 DEF Plays
<1>5. CASE Cardinality(rows) > 1 /\ Still(rows, saved)
  <2>1. d = Plays(saved.id, "kept", keeps)
    BY <1>1, <1>5 DEF Decision
  <2>2. saved.id \in chosen.picked \cap Profiles
    BY <1>5, WhoPlaysAssumption DEF Still, PickIsChosen
  <2> HIDE DEF keeps
  <2> QED
    BY <1>2, <2>1, <2>2 DEF Plays
<1>6. CASE Cardinality(rows) > 1 /\ ~Still(rows, saved)
  <2>1. d \in {Picker(NoPick)} \cup (IF old # NoProfile THEN {Plays(old, "legacy", PickOf(old))} ELSE {})
    BY <1>1, <1>6 DEF Decision
  <2> QED
    BY <2>1 DEF Plays, Picker, SomeProfile
<1> QED
  BY <1>1, <1>3, <1>4, <1>5, <1>6

(* What was chosen only grows. *)
ChosenGrows ==
    /\ chosen' \in [picked : SUBSET Profiles, remembered : SUBSET Profiles]
    /\ chosen.picked \subseteq chosen'.picked /\ chosen.remembered \subseteq chosen'.remembered

(* A tab's step: what it goes on with, and the hello it sends if it does. *)
AsChosen(id, why) == why \in {"kept", "picked"} => id \in chosen.picked
SaysAsChosen(h) == h.why \in {"kept", "picked"} => h.as \in chosen.picked \cup {NoProfile}

LEMMA TabKeeps ==
    ASSUME WhoInv, ChosenGrows, NEW t \in Tabs, NEW ask, UNCHANGED box,
           AskStage(t, ask), AskFits(ask)', AsChosen(ask.id, ask.stage)',
           DOMAIN hello' = Tabs, \A u \in Tabs : hello'[u] = hello[u] \/ SaysAsChosen(hello[u])',
           record' \in [pick : SomePick], PickIsChosen(record.pick)'
    PROVE  WhoInv'
<1>1. /\ asks' = [asks EXCEPT ![t] = ask] /\ DOMAIN asks = Tabs /\ DOMAIN hello = Tabs
      /\ \A u \in Tabs : AskFits(asks[u]) /\ AsChosen(asks[u].id, asks[u].stage) /\ SaysAsChosen(hello[u])
  BY DEF AskStage, WhoInv, PlaysAsChosen, AsChosen, SaysAsChosen
<1>2. \A u \in Tabs : AskFits(asks[u])'
  <2> TAKE u \in Tabs
  <2>1. CASE u = t
    BY <1>1, <2>1
  <2>2. CASE u # t
    <3>1. asks'[u] = asks[u] /\ PickIsChosen(asks[u].saved)
      BY <1>1, <2>2 DEF AskFits
    <3>2. PickIsChosen(asks[u].saved)' 
      <4> DEFINE pick == asks[u].saved
      <4>1. asks'[u].saved = pick /\ pick \in SomePick
        BY <3>1 DEF PickIsChosen
      <4> QED
        BY <3>1, <4>1 DEF PickIsChosen, ChosenGrows
    <3> QED
      BY <1>1, <3>1, <3>2 DEF AskFits
  <2> QED
    BY <2>1, <2>2
<1>3. \A u \in Tabs : AsChosen(asks[u].id, asks[u].stage)'
  BY <1>1 DEF AsChosen, ChosenGrows
<1>4. \A u \in Tabs : SaysAsChosen(hello[u])'
  BY <1>1 DEF SaysAsChosen, ChosenGrows
<1>5. PlaysAsChosen'
  BY <1>3, <1>4 DEF PlaysAsChosen, AsChosen, SaysAsChosen, PickIsChosen
<1> QED
  BY <1>1, <1>2, <1>5 DEF WhoInv, ChosenGrows

LEMMA SeatKeeps ==
    ASSUME WhoInv, ChosenGrows, NEW t \in Tabs, NEW id \in SomeProfile, NEW why \in {"none", "picked", "kept", "lone", "legacy"},
           NEW rows,
           UNCHANGED box, SeatOf(t, id, why, rows), id = NoProfile \/ AsChosen(id, why)',
           why # "none" => id \in Profiles, why = "none" => id \notin rows,
           record' \in [pick : SomePick], PickIsChosen(record.pick)'
    PROVE  WhoInv'
<1>1. PickIsChosen(NoPick)' /\ NoAsking.saved = NoPick
  BY DEF PickIsChosen, NoPick, SomePick, SomeProfile, NoAsking
<1>2. CASE id \in rows /\ id \notin box.up
  <2> DEFINE ask == [NoAsking EXCEPT !.stage = why, !.id = id]
  <2>1. AskFits(ask)' /\ ask.id = id /\ ask.stage = why
    BY <1>1, <1>2 DEF AskFits, AskStages, NoAsking, NoPick, SomePick, SomeProfile
  <2>2. AskStage(t, ask) /\ hello' = hello
    BY <1>2 DEF SeatOf
  <2>3. AsChosen(ask.id, ask.stage)'
    BY <1>2, <2>1, WhoPlaysAssumption DEF AsChosen
  <2>4. DOMAIN hello' = Tabs
    BY <2>2 DEF WhoInv
  <2> HIDE DEF ask
  <2> QED
    BY <2>1, <2>2, <2>3, <2>4, TabKeeps
<1>3. CASE ~(id \in rows /\ id \notin box.up)
  <2>1. AskStage(t, NoAsking) /\ hello' = [hello EXCEPT ![t] = [as |-> id, why |-> why]]
    BY <1>3 DEF SeatOf, SendsHello
  <2>2. AskFits(NoAsking)' /\ AsChosen(NoAsking.id, NoAsking.stage)'
    BY <1>1 DEF AskFits, AskStages, NoAsking, NoPick, SomePick, SomeProfile, AsChosen
  <2>3. DOMAIN hello' = Tabs /\ hello'[t] = [as |-> id, why |-> why] /\ \A u \in Tabs : u # t => hello'[u] = hello[u]
    BY <2>1 DEF WhoInv
  <2>4. SaysAsChosen(hello[t])'
    BY <2>3 DEF SaysAsChosen, AsChosen
  <2> QED
    BY <2>1, <2>2, <2>3, <2>4, TabKeeps
<1> QED
  BY <1>2, <1>3

LEMMA WhoGoesOn == WhoInv /\ [WhoNext]_whoVars => WhoInv'
<1> SUFFICES ASSUME WhoInv, [WhoNext]_whoVars PROVE WhoInv'
  OBVIOUS
<1>a. /\ box.rows \in SUBSET Profiles /\ box.old \in SomeProfile /\ record \in [pick : SomePick]
      /\ PickIsChosen(record.pick) /\ DOMAIN hello = Tabs
      /\ \A t \in Tabs : AskFits(asks[t]) /\ SaysAsChosen(hello[t]) /\ AsChosen(asks[t].id, asks[t].stage)
      /\ chosen \in [picked : SUBSET Profiles, remembered : SUBSET Profiles]
  BY DEF WhoInv, PlaysAsChosen, SaysAsChosen, AsChosen
<1>b. PickIsChosen(NoPick)' /\ NoAsking.saved = NoPick /\ NoAsking.stage = "none"
  BY DEF PickIsChosen, NoPick, SomePick, SomeProfile, NoAsking
<1>c. AskFits(NoAsking)' /\ AsChosen(NoAsking.id, NoAsking.stage)'
  BY <1>b DEF AskFits, AskStages, NoAsking, NoPick, SomePick, SomeProfile, AsChosen
<1>d. ASSUME UNCHANGED chosen PROVE ChosenGrows
  BY <1>a, <1>d DEF ChosenGrows
<1>e. ASSUME UNCHANGED <<record, chosen>> PROVE record' \in [pick : SomePick] /\ PickIsChosen(record.pick)'
  BY <1>a, <1>e DEF PickIsChosen
<1>1. ASSUME NEW t \in Tabs, AskWho(t) PROVE WhoInv'
  <2>0. PICK ask : ask = [NoAsking EXCEPT !.stage = "lists", !.saved = record.pick]
    OBVIOUS
  <2>1. AskStage(t, ask) /\ UNCHANGED <<box, record, hello, chosen>>
    BY <1>1, <2>0 DEF AskWho
  <2>2. AskFits(ask)' /\ AsChosen(ask.id, ask.stage)'
    BY <1>a, <1>b, <2>0, <2>1 DEF AskFits, AskStages, NoAsking, SomePick, SomeProfile, AsChosen, PickIsChosen
  <2> QED
    BY <1>a, <1>d, <1>e, <2>1, <2>2, TabKeeps
<1>2. ASSUME NEW t \in Tabs, ListFails(t) PROVE WhoInv'
  <2>1. /\ AskStage(t, NoAsking) /\ UNCHANGED <<box, record, chosen>>
        /\ hello' = [hello EXCEPT ![t] = [as |-> asks[t].saved.id, why |-> "kept"]]
    BY <1>2 DEF ListFails, SendsHello
  <2>2. asks[t].saved.id \in chosen.picked \cup {NoProfile}
    BY <1>a DEF AskFits, PickIsChosen
  <2>3. DOMAIN hello' = Tabs /\ \A u \in Tabs : hello'[u] = hello[u] \/ SaysAsChosen(hello[u])'
    BY <1>a, <2>1, <2>2 DEF SaysAsChosen
  <2> QED
    BY <1>c, <1>d, <1>e, <2>1, <2>3, TabKeeps
<1>3. ASSUME NEW t \in Tabs, ListComes(t) PROVE WhoInv'
  <2>0. PICK d : d = Decision(box.rows, box.old, asks[t].saved)
    OBVIOUS
  <2>1. PickIsChosen(asks[t].saved)
    BY <1>a DEF AskFits
  <2>2. \/ d.picker
        \/ /\ ~d.picker /\ d.why \in {"none", "lone", "kept"} /\ PickIsChosen(d.remember)
           /\ d.why = "none" => box.rows = {} /\ d.send = NoProfile
           /\ d.why = "lone" => d.send \in Profiles
           /\ d.why = "kept" => d.send \in chosen.picked \cap Profiles
        \/ ~d.picker /\ d.why = "legacy" /\ d.send \in Profiles /\ d.remember = PickOf(d.send)
    BY <1>a, <2>0, <2>1, DecisionIsChosen
  <2>3. /\ UNCHANGED box
        /\ d.picker => /\ AskStage(t, [asks[t] EXCEPT !.stage = "picks", !.rows = box.rows])
                       /\ UNCHANGED <<record, hello, chosen>>
        /\ ~d.picker => /\ record' = [record EXCEPT !.pick = d.remember] /\ SeatOf(t, d.send, d.why, box.rows)
                        /\ chosen' = IF d.why = "legacy" THEN [chosen EXCEPT !.picked = @ \cup {d.send}] ELSE chosen
    BY <1>3, <2>0 DEF ListComes
  <2>4. CASE d.picker
    <3>0. PICK ask : ask = [asks[t] EXCEPT !.stage = "picks", !.rows = box.rows]
      OBVIOUS
    <3>1. AskFits(ask)' /\ AsChosen(ask.id, ask.stage)'
      <4>1. /\ asks[t] \in [stage : AskStages, saved : SomePick, rows : SUBSET Profiles, id : SomeProfile]
            /\ PickIsChosen(asks[t].saved) /\ box.rows \in SUBSET Profiles /\ UNCHANGED chosen
        BY <1>a, <2>3, <2>4 DEF AskFits
      <4>2. /\ ask \in [stage : AskStages, saved : SomePick, rows : SUBSET Profiles, id : SomeProfile]
            /\ ask.saved = asks[t].saved /\ ask.stage = "picks"
        BY <3>0, <4>1 DEF AskStages
      <4>3. PickIsChosen(ask.saved)'
        BY <4>1, <4>2 DEF PickIsChosen
      <4> QED
        BY <4>2, <4>3 DEF AskFits, AsChosen
    <3>2. AskStage(t, ask)
      BY <2>3, <2>4, <3>0
    <3> QED
      BY <1>a, <1>d, <1>e, <2>3, <2>4, <3>1, <3>2, TabKeeps
  <2>5. CASE ~d.picker /\ d.why \in {"none", "lone", "kept"}
    <3>1. UNCHANGED chosen /\ SeatOf(t, d.send, d.why, box.rows) /\ record'.pick = d.remember /\ record' \in [pick : SomePick]
      BY <1>a, <2>2, <2>3, <2>5 DEF PickIsChosen
    <3>2. PickIsChosen(record.pick)'
      BY <2>2, <2>5, <3>1 DEF PickIsChosen
    <3>3. d.send \in SomeProfile /\ (d.send = NoProfile \/ AsChosen(d.send, d.why)') /\ (d.why # "none" => d.send \in Profiles)
      BY <2>2, <2>5, <3>1 DEF SomeProfile, AsChosen
    <3> QED
      BY <1>d, <2>2, <2>3, <2>5, <3>1, <3>2, <3>3, SeatKeeps
  <2>6. CASE ~d.picker /\ d.why = "legacy"
    <3>1. chosen' = [chosen EXCEPT !.picked = @ \cup {d.send}] /\ SeatOf(t, d.send, d.why, box.rows) /\ d.send \in Profiles
      BY <2>2, <2>3, <2>6
    <3>2. ChosenGrows /\ d.send \in chosen'.picked
      BY <1>a, <3>1 DEF ChosenGrows
    <3>3. PickOf(d.send) \in SomePick /\ PickOf(d.send).id = d.send /\ PickOf(d.send).remember = FALSE
      BY <3>1 DEF PickOf, SomePick, SomeProfile
    <3>4. record'.pick = PickOf(d.send) /\ record' \in [pick : SomePick]
      BY <1>a, <2>2, <2>3, <2>6, <3>3
    <3>5. PickIsChosen(record.pick)'
      BY <3>2, <3>3, <3>4 DEF PickIsChosen
    <3> QED
      BY <2>3, <2>6, <3>1, <3>2, <3>4, <3>5, SeatKeeps DEF SomeProfile, AsChosen
  <2> QED
    BY <2>2, <2>4, <2>5, <2>6
<1>4. ASSUME NEW t \in Tabs, NEW id \in Profiles, Picks(t, id) PROVE WhoInv'
  <2>1. /\ record' = [record EXCEPT !.pick = PickOf(id)] /\ chosen' = [chosen EXCEPT !.picked = @ \cup {id}]
        /\ SeatOf(t, id, "picked", asks[t].rows) /\ UNCHANGED box
    BY <1>4 DEF Picks
  <2>2. ChosenGrows /\ id \in chosen'.picked
    BY <1>a, <2>1 DEF ChosenGrows
  <2>3. PickOf(id) \in SomePick /\ PickOf(id).id = id /\ PickOf(id).remember = FALSE
    BY DEF PickOf, SomePick, SomeProfile
  <2>4. record'.pick = PickOf(id) /\ record' \in [pick : SomePick]
    BY <1>a, <2>1, <2>3
  <2>5. PickIsChosen(record.pick)'
    BY <2>2, <2>3, <2>4 DEF PickIsChosen
  <2> QED
    BY <2>1, <2>2, <2>4, <2>5, SeatKeeps DEF SomeProfile, AsChosen
<1>5. ASSUME NEW t \in Tabs, SeatIsUp(t) PROVE WhoInv'
  <2>1. /\ AskStage(t, NoAsking) /\ UNCHANGED <<box, record, chosen>>
        /\ hello' = [hello EXCEPT ![t] = [as |-> asks[t].id, why |-> asks[t].stage]]
    BY <1>5 DEF SeatIsUp, SendsHello
  <2>2. DOMAIN hello' = Tabs /\ \A u \in Tabs : hello'[u] = hello[u] \/ SaysAsChosen(hello[u])'
    BY <1>a, <2>1 DEF SaysAsChosen, AsChosen
  <2> QED
    BY <1>c, <1>d, <1>e, <2>1, <2>2, TabKeeps
<1>6. ASSUME NEW t \in Tabs, AskLeft(t) PROVE WhoInv'
  BY <1>a, <1>c, <1>d, <1>e, <1>6, TabKeeps DEF AskLeft
<1>7. ASSUME NEW t \in Tabs, ForgetPick(t) PROVE WhoInv'
  <2>1. AskStage(t, NoAsking) /\ record' = NoRecord /\ hello' = [hello EXCEPT ![t] = NoHello] /\ UNCHANGED <<box, chosen>>
    BY <1>7 DEF ForgetPick
  <2>2. DOMAIN hello' = Tabs /\ \A u \in Tabs : hello'[u] = hello[u] \/ SaysAsChosen(hello[u])'
    BY <1>a, <2>1 DEF SaysAsChosen, NoHello
  <2>3. record' \in [pick : SomePick] /\ PickIsChosen(record.pick)'
    BY <1>b, <2>1 DEF NoRecord, NoPick, PickIsChosen
  <2> QED
    BY <1>c, <1>d, <2>1, <2>2, <2>3, TabKeeps
<1>8. ASSUME NEW pick \in SomePick, pick = NoPick \/ pick.id \in Profiles, SetsProfile(pick) PROVE WhoInv'
  <2>1. /\ record' = [record EXCEPT !.pick = pick]
        /\ chosen' = [picked |-> chosen.picked \cup ({pick.id} \ {NoProfile}),
                      remembered |-> chosen.remembered \cup (IF pick.remember THEN {pick.id} ELSE {})]
        /\ UNCHANGED <<box, asks, hello>>
    BY <1>8 DEF SetsProfile
  <2>2. pick.remember => pick.id \in Profiles
    BY <1>8 DEF NoPick
  <2>3. ChosenGrows
    BY <1>a, <1>8, <2>1, <2>2 DEF ChosenGrows, SomePick, SomeProfile
  <2>4. record' \in [pick : SomePick] /\ record'.pick = pick
    BY <1>a, <1>8, <2>1
  <2>5. PickIsChosen(record.pick)'
    BY <1>8, <2>1, <2>4 DEF PickIsChosen
  <2>6. \A t \in Tabs : AskFits(asks[t])'
    BY <1>a, <2>1, <2>3 DEF AskFits, PickIsChosen, ChosenGrows
  <2>7. PlaysAsChosen'
    BY <1>a, <2>1, <2>3, <2>5 DEF PlaysAsChosen, PickIsChosen, ChosenGrows, SaysAsChosen, AsChosen
  <2> QED
    BY <2>1, <2>3, <2>4, <2>5, <2>6, <2>7 DEF WhoInv, ChosenGrows
<1>9. ASSUME BoxChanges PROVE WhoInv'
  <2>1. UNCHANGED <<record, asks, hello, chosen>>
    BY <1>9 DEF BoxChanges
  <2>4. PICK rows \in SUBSET Profiles :
          \E up \in SUBSET rows : \E old \in rows \cup {NoProfile} : box' = [rows |-> rows, old |-> old, up |-> up]
    BY <1>9 DEF BoxChanges
  <2>2. PICK up \in SUBSET rows, old \in rows \cup {NoProfile} : box' = [rows |-> rows, old |-> old, up |-> up]
    BY <2>4
  <2>3. box' \in [rows : SUBSET Profiles, old : SomeProfile, up : SUBSET Profiles] /\ box'.up \subseteq box'.rows
    BY <2>2 DEF SomeProfile
  <2> QED
    BY <2>1, <2>3 DEF WhoInv, AskFits, PickIsChosen, PlaysAsChosen
<1>10. CASE UNCHANGED whoVars
  BY <1>10 DEF whoVars, WhoInv, AskFits, PickIsChosen, PlaysAsChosen
<1>11. /\ \A id \in Profiles, remember \in BOOLEAN : /\ [id |-> id, remember |-> remember] \in SomePick
                                                   /\ [id |-> id, remember |-> remember].id \in Profiles
       /\ NoPick \in SomePick
  BY DEF SomePick, SomeProfile, NoPick
<1> QED
  BY <1>1, <1>2, <1>3, <1>4, <1>5, <1>6, <1>7, <1>8, <1>9, <1>10, <1>11 DEF WhoNext

(***************************************************************************)
(* The page: a part of it moves, the others stay.                          *)
(***************************************************************************)
AskedInv == AppInv /\ ShelfInv /\ ConsoleInv /\ SawStream /\ WhoInv

LEMMA PartsGoOn ==
    [Next]_vars => /\ [AppNext]_appVars /\ [ShelfNext]_shelfVars /\ [WhoNext]_whoVars
                   /\ [TunnelNext]_tunnelVars /\ [PrefsNext]_prefsVars /\ [PagePassNext]_pagePassVars
                   /\ [PassesNext]_passesVars /\ [MeterNext]_meterVars
                   /\ [KeyboardNext]_keyboardVars /\ [CursorNext]_cursorVars
                   /\ [ConsoleNext]_consoleVars /\ [WakeCardNext]_wakeVars /\ [SweepNext]_sweepVars /\ [FieldNext]_fieldVars
  BY DEF Next, vars, ScreenNext, BrowserNext, ServerNext, InputNext, TvNext, screenVars, keptVars, serverVars,
         inputVars, tvVars

(* Whatever is clicked, and in whatever order the engine and the host answer: a gate dials the host
   it was opened for (app.ts watchHost, dial), the shelf shows its own host's titles, the console
   plays only what was picked on it (console.ts draws, push), and nobody plays as another than they
   picked (who.ts decide). *)
THEOREM AskedHolds == Spec => []AsAsked
<1>1. Init => AskedInv
  BY AppBegins, ShelfBegins, ConsoleBegins, WhoBegins DEF Init, AskedInv, ConsoleInit, SawStream
<1>2. AskedInv /\ [Next]_vars => AskedInv'
  BY PartsGoOn, AppGoesOn, ShelfGoesOn, ConsoleGoesOn, WhoGoesOn DEF AskedInv, GoesOn
<1>3. AskedInv => AsAsked
  BY DEF AskedInv, AsAsked, AppInv, DialWasAsked, GateDialsItsOwn, ShelfInv, ConsoleInv, WhoInv
<1> QED
  BY <1>1, <1>2, <1>3, PTL DEF Spec

(* A stream the console began does not leave its screen without the console being told that it is
   over, or that it failed: the settings that cover it, and a start anew, do not hide its end
   (console.ts draws and push). *)
THEOREM EndsAreHeard == Spec => StreamsEndHeard
<1>1. Init => AskedInv
  BY AppBegins, ShelfBegins, ConsoleBegins, WhoBegins DEF Init, AskedInv, ConsoleInit, SawStream
<1>2. AskedInv /\ [Next]_vars => AskedInv'
  BY PartsGoOn, AppGoesOn, ShelfGoesOn, ConsoleGoesOn, WhoGoesOn DEF AskedInv, GoesOn
<1>3. AskedInv /\ [Next]_vars
        => [page.screen = "streaming" /\ page'.screen \notin {"streaming", "starting"}
              => con'.phase \in {"over", "failed"}]_consoleVars
  BY PartsGoOn, ConsoleGoesOn DEF AskedInv, GoesOn, Heard
<1> QED
  BY <1>1, <1>2, <1>3, PTL DEF Spec, StreamsEndHeard

(***************************************************************************)
(* The console on a TV.  A sweep says what it drew because the console is  *)
(* drawn as the step that is measured, the rows so far are of the steps so *)
(* far, and what storage keeps of a tab is what that tab had.              *)
(* A field reaches the console because what it takes, key by key, leads    *)
(* from its text to what the page's input has.                             *)
(***************************************************************************)
(* The wake card: an interval is of a wake that began. *)
Begun == Seq([at : Sleepers, then : BOOLEAN])
WakeInv == wakes \in Begun /\ WakeCardTypeOK /\ OneWakeTicks

LEMMA WakeCardBegins == WakeCardInit => WakeInv
  BY DEF WakeCardInit, WakeInv, WakeCardTypeOK, OneWakeTicks, NoCard, Begun

LEMMA TicksKeep ==
    ASSUME NEW i \in Nat, NEW list, NEW w, NEW runs, Ticks(i, w, list, runs)
    PROVE  /\ IF i = Len(list) THEN card'.of = i ELSE card' = card
           /\ ticking' = runs \/ ticking' = runs \ {w}
           /\ closing' = closing \/ closing' = closing \cup {w}
<1>1. PICK said : said = IF list[w].at \in woken THEN {"online"} ELSE {"waits", "timed out"}
  OBVIOUS
<1>2. PICK says \in said :
        /\ card' = IF i = Len(list) THEN [of |-> i, says |-> says] ELSE card
        /\ ticking' = IF says = "waits" THEN runs ELSE runs \ {w}
        /\ closing' = IF says = "online" /\ ~list[i].then THEN closing \cup {w} ELSE closing
  BY <1>1 DEF Ticks
<1> QED
  BY <1>2

LEMMA WakeCardGoesOn == WakeInv /\ [WakeCardNext]_wakeVars => WakeInv'
<1> SUFFICES ASSUME WakeInv, [WakeCardNext]_wakeVars PROVE WakeInv'
  OBVIOUS
<1>a. /\ wakes \in Begun /\ Len(wakes) \in Nat /\ wake \in 0..Len(wakes) /\ card.of = wake /\ ticking \subseteq {wake} \ {0}
      /\ ticking \subseteq 1..Len(wakes) /\ sending \subseteq 1..Len(wakes) /\ closing \subseteq 1..Len(wakes)
  BY DEF WakeInv, WakeCardTypeOK, OneWakeTicks, Begun
<1>b. ASSUME EndsWake, sending' \subseteq sending, closing' \subseteq closing PROVE WakeInv'
  BY <1>a, <1>b DEF EndsWake, WakeGone, TimersLeft, NoCard, WakeInv, WakeCardTypeOK, OneWakeTicks
<1>1. ASSUME NEW o \in Sleepers, NEW then \in BOOLEAN, StartWake(o, then) PROVE WakeInv'
  <2>1. PICK n : n = Len(wakes) + 1
    OBVIOUS
  <2>2. PICK list : list = Append(wakes, [at |-> o, then |-> then])
    OBVIOUS
  <2>3. n \in Nat \ {0} /\ list \in Begun /\ Len(list) = n
    BY <1>a, <2>1, <2>2 DEF Begun
  <2>4. /\ wakes' = list /\ wake' = n /\ sending' = sending \cup {n} /\ Ticks(n, n, list, TimersLeft \cup {n})
    BY <1>1, <2>1, <2>2 DEF StartWake
  <2>5. /\ card'.of = n
        /\ ticking' = TimersLeft \cup {n} \/ ticking' = (TimersLeft \cup {n}) \ {n}
        /\ closing' = closing \/ closing' = closing \cup {n}
    BY <2>3, <2>4, TicksKeep
  <2>6. TimersLeft = {}
    BY <1>a DEF TimersLeft
  <2>7. 1..Len(wakes) \subseteq 1..n /\ n \in 1..n
    BY <1>a, <2>1
  <2>8. sending' \subseteq 1..n /\ closing' \subseteq 1..n /\ ticking' \subseteq {n}
    BY <1>a, <2>4, <2>5, <2>6, <2>7
  <2>9. n \in 0..n /\ {n} \subseteq {n} \ {0} /\ {n} \subseteq 1..n
    BY <2>3, <2>7
  <2>10. wakes' \in Begun /\ Len(wakes') = n /\ wake' = n /\ card'.of = n
    BY <2>3, <2>4, <2>5
  <2> QED
    BY <2>8, <2>9, <2>10 DEF WakeInv, WakeCardTypeOK, OneWakeTicks
<1>2. ASSUME NEW i \in 1..Len(wakes), Tick(i) PROVE WakeInv'
  <2>1. i \in ticking /\ i = wake /\ UNCHANGED <<wake, wakes, woken, sending>> /\ Ticks(i, wake, wakes, ticking)
    BY <1>a, <1>2 DEF Tick
  <2>2. /\ card'.of = wake /\ ticking' \subseteq ticking /\ closing' \subseteq closing \cup {wake}
    BY <1>a, <2>1, TicksKeep
  <2> QED
    BY <1>a, <2>1, <2>2 DEF WakeInv, WakeCardTypeOK, OneWakeTicks
<1>3. ASSUME NEW i \in 1..Len(wakes), WakeSent(i) PROVE WakeInv'
  BY <1>a, <1>3 DEF WakeSent, WakeInv, WakeCardTypeOK, OneWakeTicks
<1>4. ASSUME NEW i \in 1..Len(wakes), WakeNotSent(i) PROVE WakeInv'
  <2>1. CASE wake = i
    BY <1>4, <1>b, <2>1 DEF WakeNotSent
  <2>2. CASE wake # i
    BY <1>a, <1>4, <2>2 DEF WakeNotSent, WakeInv, WakeCardTypeOK, OneWakeTicks
  <2> QED
    BY <2>1, <2>2
<1>5. ASSUME NEW i \in 1..Len(wakes), CardTimer(i) PROVE WakeInv'
  BY <1>5, <1>b DEF CardTimer
<1>6. ASSUME CancelWake PROVE WakeInv'
  BY <1>6, <1>b DEF CancelWake
<1>7. ASSUME NEW o \in Sleepers, HostUp(o) PROVE WakeInv'
  BY <1>a, <1>7 DEF HostUp, WakeInv, WakeCardTypeOK, OneWakeTicks
<1>8. CASE UNCHANGED wakeVars
  BY <1>a, <1>8 DEF wakeVars, WakeInv, WakeCardTypeOK, OneWakeTicks
<1> QED
  BY <1>1, <1>2, <1>3, <1>4, <1>5, <1>6, <1>7, <1>8 DEF WakeCardNext

(* A sweep.  Its console is drawn as its step, and each row it has was.  What storage keeps for the
   load after is the place of a page that measured the full interface first, or none; and where
   that page's table lacks it, it took a third sweep to draw. *)
Interfaces == {"full", "reduced"}
Drawings == 0..STEPS
Rows == [of : Interfaces, step : Drawings, drawn : SUBSET Drawings]
Places == [swept : BOOLEAN, reduced : BOOLEAN, rows : Seq(Rows), is : BOOLEAN]
Sweeps == [step : Drawings, settled : BOOLEAN, ticks : Nat, drawn : SUBSET Drawings, rows : Seq(Rows)]
Views == [console : BOOLEAN, as : Drawings, rest : 0..QUIET, priced : BOOLEAN, timer : BOOLEAN]
SweepTyped ==
    /\ storage \in BOOLEAN /\ kept \in Places /\ boot \in Places /\ sweep \in Sweeps /\ view \in Views
    /\ table \in Seq(Rows) /\ tab \in [full : BOOLEAN, loads : Nat, sweeps : Nat, fulls : Nat]
    /\ tab.loads <= MaxLoads /\ tab.fulls <= tab.loads

RowIs(r, of, i) == r.of = of /\ r.step = i /\ r.drawn = {i}
RowsAre(rows, of) == \A i \in 1..Len(rows) : RowIs(rows[i], of, i)

PlaceIs(p, s, t, rows) ==
    /\ ~p.is => p = Nothing
    /\ p.rows # <<>> => p.reduced /\ ~p.swept /\ Len(p.rows) = STEPS /\ RowsAre(p.rows, "full")
    /\ ~t.full => p.rows = <<>> /\ (p.is => p.reduced)
    /\ t.full /\ (~s \/ t.fulls = 0) => p.rows = <<>> /\ ~p.swept /\ ~p.reduced
    /\ t.full /\ s /\ t.fulls = 1 => p.reduced /\ (p.swept <=> rows # <<>>) /\ (~p.swept => p.rows # <<>>)
SweepIs(sw, v, reduced) ==
    /\ v.as = sw.step /\ (sw.step = 0 => sw = NoSweep) /\ sw.drawn \subseteq {sw.step}
    /\ sw.step # 0 => Len(sw.rows) = sw.step - 1 /\ RowsAre(sw.rows, IF reduced THEN "reduced" ELSE "full")
TabIs(t, s, rows, step) ==
    /\ ~t.full => t.fulls = 0
    /\ t.full /\ (~s \/ t.fulls = 0) => rows = <<>>
    /\ t.full /\ s => t.fulls \in {0, 1}
    /\ step # 0 => t.sweeps >= 1
    /\ t.fulls = 1 => /\ t.sweeps >= 1
                      /\ step # 0 => t.sweeps >= 2
                      /\ rows # <<>> => t.sweeps >= 2
                      /\ rows # <<>> /\ step # 0 => t.sweeps >= 3

IsTable(rows) ==
    \/ \E of \in {"full", "reduced"} : IsSweepOf(rows, of)
    \/ /\ IsSweepOf(SubSeq(rows, 1, STEPS), "full")
       /\ IsSweepOf(SubSeq(rows, STEPS + 1, Len(rows)), "reduced")
HasFull(rows) == \E i \in DOMAIN rows : rows[i].of = "full"
TableIs(t, rows) == rows # <<>> => IsTable(rows) /\ (t.fulls = 1 /\ t.sweeps = 2 => HasFull(rows))

SweepInv ==
    /\ SweepTyped /\ SweepIs(sweep, view, boot.reduced) /\ TabIs(tab, storage, table, sweep.step) /\ TableIs(tab, table)
    /\ PlaceIs(boot, storage, tab, table) /\ PlaceIs(kept, storage, tab, table) /\ boot.is /\ (~storage => ~kept.is)

LEMMA ViewWith ==
    ASSUME NEW v \in Views
    PROVE  /\ \A c \in BOOLEAN : [v EXCEPT !.console = c] \in Views /\ [v EXCEPT !.console = c].as = v.as
           /\ \A a \in Drawings : [v EXCEPT !.as = a] \in Views /\ [v EXCEPT !.as = a].as = a
           /\ \A r \in 0..QUIET : [v EXCEPT !.rest = r] \in Views /\ [v EXCEPT !.rest = r].as = v.as
           /\ \A p \in BOOLEAN : [v EXCEPT !.priced = p] \in Views /\ [v EXCEPT !.priced = p].as = v.as
           /\ \A p \in BOOLEAN : [v EXCEPT !.timer = p] \in Views /\ [v EXCEPT !.timer = p].as = v.as
  BY DEF Views

LEMMA SweepBegins == SweepInit => SweepInv
<1> SUFFICES ASSUME SweepInit PROVE SweepInv
  OBVIOUS
<1>a. {STEPS, SETTLE, RUN, QUIET, MaxSweeps, MaxLoads} \subseteq Nat \ {0} /\ 0 \in Drawings /\ 0 \in 0..QUIET
  BY SweepAssumption DEF Drawings
<1>1. PICK full \in BOOLEAN : boot = ReadBoot(kept, full) /\ tab = [full |-> full, loads |-> 1, sweeps |-> 0, fulls |-> 0]
  BY DEF SweepInit
<1>2. /\ kept = Nothing /\ table = <<>> /\ sweep = NoSweep /\ storage \in BOOLEAN /\ view = [FreshView EXCEPT !.timer = TRUE]
      /\ boot = Place(~full, <<>>, FALSE)
  BY <1>1 DEF SweepInit, ReadBoot, Nothing
<1>b. NoSweep \in Sweeps /\ Nothing \in Places /\ Place(~full, <<>>, FALSE) \in Places /\ FreshView \in Views
  BY <1>a DEF NoSweep, Sweeps, Nothing, Place, Places, FreshView, Views, Whole
<1>c. view \in Views /\ view.as = 0
  BY <1>b, <1>2, ViewWith DEF FreshView, Whole
<1>d. tab \in [full : BOOLEAN, loads : Nat, sweeps : Nat, fulls : Nat] /\ tab.loads = 1 /\ tab.fulls = 0
  BY <1>1
<1>3. SweepTyped
  <2>1. 1 <= MaxLoads
    BY SweepAssumption
  <2>2. kept \in Places /\ boot \in Places /\ sweep \in Sweeps
    BY <1>b, <1>2
  <2>3. storage \in BOOLEAN /\ table \in Seq(Rows)
    BY <1>2
  <2> QED
    BY <1>c, <1>d, <2>1, <2>2, <2>3 DEF SweepTyped
<1>e. NoSweep.step = 0 /\ NoSweep.drawn = {}
  BY DEF NoSweep
<1>4. SweepIs(sweep, view, boot.reduced) /\ TabIs(tab, storage, table, sweep.step) /\ TableIs(tab, table)
  <2>1. sweep.step = 0 /\ sweep.drawn = {} /\ sweep = NoSweep /\ table = <<>>
    BY <1>e, <1>2
  <2>2. SweepIs(sweep, view, boot.reduced)
    BY <1>c, <2>1 DEF SweepIs
  <2> QED
    BY <1>d, <2>1, <2>2 DEF TabIs, TableIs
<1>f. /\ boot.is /\ boot.rows = <<>> /\ ~boot.swept /\ (boot.reduced <=> ~tab.full)
      /\ ~kept.is /\ kept.rows = <<>> /\ ~kept.swept /\ ~kept.reduced
  <2>1. PICK some : some = ~full
    OBVIOUS
  <2>2. boot = Place(some, <<>>, FALSE) /\ tab.full = full
    BY <1>1, <1>2, <2>1
  <2>3. boot.is /\ boot.rows = <<>> /\ ~boot.swept /\ boot.reduced = some
    BY <2>2 DEF Place
  <2>4. ~kept.is /\ kept.rows = <<>> /\ ~kept.swept /\ ~kept.reduced
    BY <1>2 DEF Nothing
  <2>5. boot.reduced <=> ~tab.full
    BY <2>1, <2>2, <2>3
  <2> QED
    BY <2>3, <2>4, <2>5
<1>5. PlaceIs(boot, storage, tab, table) /\ PlaceIs(kept, storage, tab, table) /\ boot.is /\ ~kept.is
  <2>1. PICK p : p = boot
    OBVIOUS
  <2>2. p.is /\ p.rows = <<>> /\ ~p.swept /\ (p.reduced <=> ~tab.full)
    BY <1>f, <2>1
  <2>3. PlaceIs(p, storage, tab, table)
    BY <1>d, <2>2 DEF PlaceIs
  <2>4. PlaceIs(kept, storage, tab, table)
    BY <1>d, <1>f, <1>2 DEF PlaceIs
  <2> QED
    BY <1>f, <2>1, <2>3, <2>4
<1> QED
  BY <1>3, <1>4, <1>5 DEF SweepInv

(* The view changes, and not how it draws. *)
LEMMA ViewTurns ==
    ASSUME SweepInv, NEW v \in Views, v.as = view.as, view' = v, UNCHANGED <<storage, kept, boot, sweep, table, tab>>
    PROVE  SweepInv'
  BY DEF SweepInv, SweepTyped, SweepIs

(* A sweep begins, or none does. *)
LEMMA MeasuresKeeps ==
    ASSUME SweepInv, NEW v \in Views, v.as = view.as, Measures(v), UNCHANGED <<storage, kept, boot, table>>
    PROVE  SweepInv'
<1>1. CASE v.console /\ ~Running /\ tab.sweeps < MaxSweeps
  <2>1. PICK s : s = [NoSweep EXCEPT !.step = 1]
    OBVIOUS
  <2>2. PICK w : w = [v EXCEPT !.as = 1]
    OBVIOUS
  <2>3. PICK t : t = [tab EXCEPT !.sweeps = tab.sweeps + 1]
    OBVIOUS
  <2>4. sweep' = s /\ view' = w /\ tab' = t
    BY <1>1, <2>1, <2>2, <2>3 DEF Measures
  <2>a. 1 \in Drawings /\ STEPS \in Nat \ {0}
    BY SweepAssumption DEF Drawings
  <2>5. s \in Sweeps /\ s.step = 1 /\ s.rows = <<>> /\ s.drawn = {}
    <3>1. s = [step |-> 1, settled |-> FALSE, ticks |-> 0, drawn |-> {}, rows |-> <<>>]
      BY <2>1 DEF NoSweep
    <3> QED
      BY <2>a, <3>1 DEF Sweeps
  <2>6. w \in Views /\ w.as = 1
    BY <2>a, <2>2, ViewWith
  <2>7. tab \in [full : BOOLEAN, loads : Nat, sweeps : Nat, fulls : Nat] /\ sweep.step = 0
    BY <1>1, <2>a DEF SweepInv, SweepTyped, Sweeps, Drawings, Running
  <2>8. /\ t \in [full : BOOLEAN, loads : Nat, sweeps : Nat, fulls : Nat]
        /\ t.sweeps = tab.sweeps + 1 /\ t.full = tab.full /\ t.loads = tab.loads /\ t.fulls = tab.fulls
    BY <2>3, <2>7
  <2>9. SweepTyped'
    BY <2>4, <2>5, <2>6, <2>8 DEF SweepInv, SweepTyped
  <2>10. SweepIs(sweep, view, boot.reduced)'
    BY <2>4, <2>5, <2>6 DEF SweepIs, RowsAre
  <2>11. TabIs(t, storage, table, 1) /\ TableIs(t, table)
    BY <2>5, <2>7, <2>8 DEF SweepInv, TabIs, TableIs
  <2>12. PlaceIs(boot, storage, t, table) /\ PlaceIs(kept, storage, t, table)
    BY <2>8 DEF SweepInv, PlaceIs
  <2> QED
    BY <2>4, <2>5, <2>9, <2>10, <2>11, <2>12 DEF SweepInv
<1>2. CASE ~(v.console /\ ~Running /\ tab.sweeps < MaxSweeps)
  BY <1>2, ViewTurns DEF Measures
<1> QED
  BY <1>1, <1>2

(* Measuring and moving are all there is but a sweep's own frames, the load after and the leaving. *)
LEMMA OnScreenKeeps ==
    ASSUME SweepInv, Returns \/ Rests \/ StartTimer \/ OnRequest \/ MeasureSettled \/ \E key \in BOOLEAN : Moves(key)
    PROVE  SweepInv'
<1>a. view \in Views /\ QUIET \in Nat /\ view.rest \in 0..QUIET
  BY SweepAssumption DEF SweepInv, SweepTyped, Views
<1>1. CASE Returns
  <2>a. PICK x : x = [view EXCEPT !.console = TRUE]
    OBVIOUS
  <2>b. PICK y : y = [x EXCEPT !.rest = 0]
    OBVIOUS
  <2>c. PICK v : v = [y EXCEPT !.priced = FALSE]
    OBVIOUS
  <2>1. v = [view EXCEPT !.console = TRUE, !.rest = 0, !.priced = FALSE]
    BY <2>a, <2>b, <2>c
  <2>d. x \in Views /\ x.as = view.as
    BY <1>a, <2>a, ViewWith
  <2>e. y \in Views /\ y.as = view.as
    BY <1>a, <2>b, <2>d, ViewWith
  <2>2. v \in Views /\ v.as = view.as
    BY <2>c, <2>e, ViewWith
  <2>3. view' = v /\ UNCHANGED <<storage, kept, boot, sweep, table, tab>>
    BY <1>1, <2>1 DEF Returns
  <2> QED
    BY <2>2, <2>3, ViewTurns
<1>2. CASE Rests
  <2>1. PICK v : v = [view EXCEPT !.rest = view.rest + 1]
    OBVIOUS
  <2>2. view' = v /\ view.rest < QUIET /\ UNCHANGED <<storage, kept, boot, sweep, table, tab>>
    BY <1>2, <2>1 DEF Rests
  <2>3. v \in Views /\ v.as = view.as
    BY <1>a, <2>1, <2>2, ViewWith
  <2> QED
    BY <2>2, <2>3, ViewTurns
<1>3. CASE StartTimer
  <2>1. PICK v : v = [view EXCEPT !.timer = FALSE]
    OBVIOUS
  <2>2. v \in Views /\ v.as = view.as
    BY <1>a, <2>1, ViewWith
  <2>3. Measures(v) /\ UNCHANGED <<storage, kept, boot, table>>
    BY <1>3, <2>1 DEF StartTimer
  <2> QED
    BY <2>2, <2>3, MeasuresKeeps
<1>4. CASE OnRequest
  BY <1>a, <1>4, MeasuresKeeps DEF OnRequest
<1>5. CASE MeasureSettled
  <2>1. PICK v : v = [view EXCEPT !.priced = TRUE]
    OBVIOUS
  <2>2. v \in Views /\ v.as = view.as
    BY <1>a, <2>1, ViewWith
  <2>3. Measures(v) /\ UNCHANGED <<storage, kept, boot, table>>
    BY <1>5, <2>1 DEF MeasureSettled
  <2> QED
    BY <2>2, <2>3, MeasuresKeeps
<1>6. ASSUME NEW key \in BOOLEAN, Moves(key) PROVE SweepInv'
  <2>a. PICK p : p = IF key THEN FALSE ELSE view.priced
    OBVIOUS
  <2>b. PICK x : x = [view EXCEPT !.rest = 0]
    OBVIOUS
  <2>c. PICK v : v = [x EXCEPT !.priced = p]
    OBVIOUS
  <2>1. v = [view EXCEPT !.rest = 0, !.priced = IF key THEN FALSE ELSE view.priced]
    BY <2>a, <2>b, <2>c
  <2>d. x \in Views /\ x.as = view.as /\ p \in BOOLEAN
    <3>1. view.priced \in BOOLEAN
      BY <1>a DEF Views
    <3>2. p \in BOOLEAN
      BY <2>a, <3>1
    <3> QED
      BY <1>a, <2>b, <3>2, ViewWith
  <2>2. v \in Views /\ v.as = view.as
    BY <2>c, <2>d, ViewWith
  <2>3. view' = v /\ UNCHANGED <<storage, kept, boot, sweep, table, tab>>
    BY <1>6, <2>1 DEF Moves
  <2> QED
    BY <2>2, <2>3, ViewTurns
<1> QED
  BY <1>1, <1>2, <1>3, <1>4, <1>5, <1>6

LEMMA HidesKeeps == ASSUME SweepInv, Hides PROVE SweepInv'
<1>a. view \in Views /\ view.as = sweep.step /\ sweep.step \in 0..STEPS /\ STEPS \in Nat /\ 0 \in Drawings
  BY SweepAssumption DEF SweepInv, SweepTyped, SweepIs, Sweeps, Drawings
<1>b. PICK x : x = [view EXCEPT !.console = FALSE]
  OBVIOUS
<1>c. PICK v : v = [x EXCEPT !.as = 0]
  OBVIOUS
<1>d. (IF Running THEN Whole ELSE view.as) = 0
  BY <1>a DEF Running, Whole
<1>1. v = [view EXCEPT !.console = FALSE, !.as = IF Running THEN Whole ELSE view.as]
  BY <1>b, <1>c, <1>d
<1>2. v \in Views /\ v.as = 0
  <2>1. x \in Views
    BY <1>a, <1>b, ViewWith
  <2> QED
    BY <1>a, <1>c, <2>1, ViewWith
<1>3. view' = v /\ sweep' = NoSweep /\ UNCHANGED <<storage, kept, boot, table, tab>>
  BY <1>1 DEF Hides, Drops
<1>4. NoSweep \in Sweeps /\ NoSweep.step = 0 /\ NoSweep.drawn = {}
  BY <1>a DEF NoSweep, Sweeps
<1>5. SweepTyped'
  BY <1>2, <1>3, <1>4 DEF SweepInv, SweepTyped
<1>6. SweepIs(sweep, view, boot.reduced)'
  BY <1>2, <1>3, <1>4 DEF SweepIs
<1>7. TabIs(tab, storage, table, 0)
  BY DEF SweepInv, TabIs
<1> QED
  BY <1>3, <1>4, <1>5, <1>6, <1>7 DEF SweepInv

SweepTabs == [full : BOOLEAN, loads : Nat, sweeps : Nat, fulls : Nat]

(* The page loads, with what storage kept. *)
LEMMA LoadsKeeps ==
    ASSUME SweepInv, NEW place \in Places, NEW t \in SweepTabs, Loads(place), tab' = t, UNCHANGED <<storage, table>>,
           t.full = tab.full, t.loads = tab.loads + 1, t.fulls <= t.loads,
           PlaceIs(place, storage, t, table), TabIs(t, storage, table, 0), TableIs(t, table), ~storage => ~place.is
    PROVE  SweepInv'
<1>a. STEPS \in Nat \ {0} /\ QUIET \in Nat \ {0} /\ MaxLoads \in Nat \ {0} /\ 0 \in Drawings /\ 0 \in 0..QUIET
  BY SweepAssumption DEF Drawings
<1>1. kept' = place /\ tab.loads < MaxLoads /\ boot' = ReadBoot(place, tab.full) /\ view' = [FreshView EXCEPT !.timer = ~boot'.swept]
      /\ sweep' = NoSweep
  BY DEF Loads
<1>2. boot' \in Places /\ boot'.is /\ PlaceIs(boot', storage, t, table)
  <2>1. CASE place.is
    BY <1>1, <2>1 DEF ReadBoot
  <2>2. CASE ~place.is
    <3>1. PICK b : b = Place(~tab.full, <<>>, FALSE)
      OBVIOUS
    <3>2. boot' = b
      BY <1>1, <2>2, <3>1 DEF ReadBoot
    <3>3. tab.full \in BOOLEAN
      BY DEF SweepInv, SweepTyped
    <3>4. b \in Places /\ b.is /\ b.rows = <<>> /\ ~b.swept /\ (b.reduced <=> ~tab.full)
      <4>1. PICK some : some = ~tab.full
        OBVIOUS
      <4>2. b = [swept |-> FALSE, reduced |-> some, rows |-> <<>>, is |-> TRUE]
        BY <3>1, <4>1 DEF Place
      <4>3. some \in BOOLEAN
        BY <3>3, <4>1
      <4>4. b \in Places /\ b.is /\ b.rows = <<>> /\ ~b.swept /\ b.reduced = some
        BY <4>2, <4>3 DEF Places
      <4> QED
        BY <4>1, <4>4
    <3>5. place = Nothing /\ ~Nothing.reduced
      BY <2>2 DEF PlaceIs, Nothing
    <3>6. PlaceIs(b, storage, t, table)
      BY <3>4, <3>5 DEF PlaceIs
    <3> QED
      BY <3>2, <3>4, <3>6
  <2> QED
    BY <2>1, <2>2
<1>3. view' \in Views /\ view'.as = 0
  <2>1. FreshView \in Views /\ FreshView.as = 0
    BY <1>a DEF FreshView, Views, Whole
  <2>2. PICK p : p = ~boot'.swept
    OBVIOUS
  <2>3. p \in BOOLEAN /\ view' = [FreshView EXCEPT !.timer = p]
    BY <1>1, <2>2
  <2> QED
    BY <2>1, <2>3, ViewWith
<1>4. NoSweep \in Sweeps /\ NoSweep.step = 0 /\ NoSweep.drawn = {}
  BY <1>a DEF NoSweep, Sweeps
<1>5. tab.loads + 1 <= MaxLoads
  BY <1>a, <1>1 DEF SweepInv, SweepTyped
<1>6. SweepTyped'
  BY <1>1, <1>2, <1>3, <1>4, <1>5 DEF SweepInv, SweepTyped, SweepTabs
<1>7. SweepIs(sweep, view, boot.reduced)'
  BY <1>1, <1>3, <1>4 DEF SweepIs
<1> QED
  BY <1>1, <1>2, <1>4, <1>6, <1>7 DEF SweepInv

LEMMA ReloadsKeeps == ASSUME SweepInv, Reloads PROVE SweepInv'
<1>1. PICK t : t = [tab EXCEPT !.loads = tab.loads + 1]
  OBVIOUS
<1>2. tab \in SweepTabs /\ tab.fulls <= tab.loads /\ kept \in Places
  BY DEF SweepInv, SweepTyped, SweepTabs
<1>3. t \in SweepTabs /\ t.full = tab.full /\ t.loads = tab.loads + 1 /\ t.fulls = tab.fulls /\ t.sweeps = tab.sweeps
  BY <1>1, <1>2 DEF SweepTabs
<1>4. t.fulls <= t.loads
  BY <1>2, <1>3 DEF SweepTabs
<1>5. Loads(kept) /\ tab' = t /\ UNCHANGED <<storage, table>>
  BY <1>1 DEF Reloads
<1>6. PlaceIs(kept, storage, t, table) /\ (~storage => ~kept.is)
  BY <1>3 DEF SweepInv, PlaceIs
<1>7. TabIs(t, storage, table, 0) /\ TableIs(t, table)
  BY <1>3 DEF SweepInv, TabIs, TableIs
<1> QED
  BY <1>2, <1>3, <1>4, <1>5, <1>6, <1>7, LoadsKeeps

(* What a sweep's rows are, as its last step ran. *)
LEMMA RowNowIs ==
    ASSUME SweepInv, Running
    PROVE  /\ Append(sweep.rows, RowNow) \in Seq(Rows) /\ Len(Append(sweep.rows, RowNow)) = sweep.step
           /\ RowsAre(Append(sweep.rows, RowNow), IF boot.reduced THEN "reduced" ELSE "full")
<1>a. /\ sweep \in Sweeps /\ sweep.step \in Nat \ {0} /\ sweep.step \in Drawings /\ sweep.rows \in Seq(Rows)
      /\ view.as = sweep.step /\ sweep.drawn \subseteq {sweep.step} /\ Len(sweep.rows) = sweep.step - 1
      /\ RowsAre(sweep.rows, IF boot.reduced THEN "reduced" ELSE "full")
  BY SweepAssumption, SMTT(40) DEF SweepInv, SweepTyped, SweepIs, Sweeps, Running, Drawings
<1>1. PICK of : of = IF boot.reduced THEN "reduced" ELSE "full"
  OBVIOUS
<1>2. PICK r : r = [of |-> of, step |-> sweep.step, drawn |-> {sweep.step}]
  OBVIOUS
<1>3. sweep.drawn \cup {view.as} = {sweep.step}
  BY <1>a
<1>4. RowNow = r /\ of \in Interfaces
  BY <1>1, <1>2, <1>3 DEF RowNow, Interface, Interfaces
<1>5. r \in Rows /\ RowIs(r, of, sweep.step)
  BY <1>a, <1>2, <1>4 DEF Rows, RowIs
<1>6. PICK rows : rows = Append(sweep.rows, r)
  OBVIOUS
<1>7. /\ rows \in Seq(Rows) /\ Len(rows) = sweep.step /\ rows[sweep.step] = r
      /\ \A i \in 1..Len(sweep.rows) : rows[i] = sweep.rows[i]
  BY <1>a, <1>5, <1>6
<1>8. RowsAre(rows, of)
  <2> SUFFICES ASSUME NEW i \in 1..Len(rows) PROVE RowIs(rows[i], of, i)
    BY DEF RowsAre
  <2>1. CASE i = sweep.step
    BY <1>5, <1>7, <2>1
  <2>2. CASE i # sweep.step
    <3>1. i \in 1..Len(sweep.rows)
      BY <1>a, <1>7, <2>2
    <3> QED
      BY <1>a, <1>1, <1>7, <3>1 DEF RowsAre
  <2> QED
    BY <2>1, <2>2
<1> QED
  BY <1>1, <1>4, <1>6, <1>7, <1>8

LEMMA SweptIs == ASSUME NEW rows \in Seq(Rows), NEW of PROVE IsSweepOf(rows, of) <=> Len(rows) = STEPS /\ RowsAre(rows, of)
  BY DEF IsSweepOf, RowsAre, RowIs

(* The page measured the full interface, and its storage keeps it or does not: it loads again. *)
LEMMA FullMeasured ==
    ASSUME SweepInv, Running, NEW rows \in Seq(Rows), Len(rows) = STEPS, RowsAre(rows, "full"), Swept(rows), UNCHANGED storage,
           ~boot.swept, ~boot.reduced
    PROVE  SweepInv'
<1>a. /\ tab \in SweepTabs /\ tab.fulls <= tab.loads /\ storage \in BOOLEAN /\ kept \in Places /\ STEPS \in Nat \ {0}
      /\ sweep.step # 0
  BY SweepAssumption DEF SweepInv, SweepTyped, SweepTabs, Running
<1>b. /\ PlaceIs(boot, storage, tab, table) /\ boot.is /\ PlaceIs(kept, storage, tab, table) /\ (~storage => ~kept.is)
      /\ TabIs(tab, storage, table, sweep.step)
  BY DEF SweepInv
<1>1. tab.full /\ table = <<>> /\ tab.sweeps >= 1 /\ (storage => tab.fulls = 0)
  BY <1>a, <1>b DEF PlaceIs, TabIs
<1>2. PICK t1 : t1 = [tab EXCEPT !.loads = tab.loads + 1]
  OBVIOUS
<1>3. PICK t : t = [t1 EXCEPT !.fulls = tab.fulls + 1]
  OBVIOUS
<1>4. t1 \in SweepTabs /\ t1.full = tab.full /\ t1.loads = tab.loads + 1 /\ t1.fulls = tab.fulls /\ t1.sweeps = tab.sweeps
  BY <1>a, <1>2 DEF SweepTabs
<1>5. t \in SweepTabs /\ t.full = tab.full /\ t.loads = tab.loads + 1 /\ t.fulls = tab.fulls + 1 /\ t.sweeps = tab.sweeps
  BY <1>a, <1>3, <1>4 DEF SweepTabs
<1>6. t.fulls <= t.loads
  BY <1>a, <1>5 DEF SweepTabs
<1>7. PICK full : full = Place(TRUE, rows, FALSE)
  OBVIOUS
<1>8. PICK place : place = IF storage THEN full ELSE kept
  OBVIOUS
<1>9. tab' = t /\ Loads(place) /\ UNCHANGED <<storage, table>>
  BY <1>2, <1>3, <1>7, <1>8 DEF Swept, Keeps
<1>10. full \in Places /\ full.is /\ full.rows = rows /\ full.reduced /\ ~full.swept
  BY <1>7 DEF Place, Places
<1>11. rows # <<>>
  BY <1>a
<1>12. TabIs(t, storage, table, 0) /\ TableIs(t, table)
  BY <1>a, <1>1, <1>5 DEF TabIs, TableIs, SweepTabs
<1>13. PlaceIs(place, storage, t, table) /\ place \in Places /\ (~storage => ~place.is)
  <2>1. CASE storage
    <3>1. place = full /\ t.fulls = 1
      BY <1>1, <1>5, <1>8, <2>1
    <3>2. PlaceIs(full, storage, t, table)
      BY <1>1, <1>5, <1>10, <1>11, <2>1, <3>1 DEF PlaceIs
    <3> QED
      BY <1>10, <2>1, <3>1, <3>2
  <2>2. CASE ~storage
    <3>1. place = kept
      BY <1>8, <2>2
    <3>2. PlaceIs(kept, storage, t, table)
      BY <1>b, <1>1, <1>5, <2>2 DEF PlaceIs
    <3> QED
      BY <1>a, <1>b, <3>1, <3>2
  <2> QED
    BY <2>1, <2>2
<1> QED
  BY <1>5, <1>6, <1>9, <1>12, <1>13, LoadsKeeps

(* Two sweeps, one after the other. *)
LEMMA BothSwept ==
    ASSUME NEW first \in Seq(Rows), NEW rows \in Seq(Rows), Len(first) = STEPS, RowsAre(first, "full"),
           Len(rows) = STEPS, RowsAre(rows, "reduced")
    PROVE  IsTable(first \o rows) /\ HasFull(first \o rows) /\ first \o rows \in Seq(Rows) /\ first \o rows # <<>>
<1>a. STEPS \in Nat \ {0}
  BY SweepAssumption
<1>1. PICK both : both = first \o rows
  OBVIOUS
<1>2. /\ both \in Seq(Rows) /\ Len(both) = STEPS + STEPS
      /\ \A i \in 1..STEPS : both[i] = first[i] /\ both[STEPS + i] = rows[i]
  <2>1. /\ both \in Seq(Rows) /\ Len(both) = STEPS + STEPS
        /\ \A i \in 1..STEPS + STEPS : both[i] = IF i <= STEPS THEN first[i] ELSE rows[i - STEPS]
    <3>1. /\ first \o rows \in Seq(Rows) /\ Len(first \o rows) = Len(first) + Len(rows)
          /\ \A i \in 1..Len(first) + Len(rows) :
                (first \o rows)[i] = IF i <= Len(first) THEN first[i] ELSE rows[i - Len(first)]
      BY ConcatProperties
    <3> QED
      BY ONLY <1>1, <3>1, Len(first) = STEPS, Len(rows) = STEPS, Zenon
  <2>2. ASSUME NEW i \in 1..STEPS PROVE both[i] = first[i] /\ both[STEPS + i] = rows[i]
    <3>1. /\ i \in 1..STEPS + STEPS /\ i <= STEPS
          /\ STEPS + i \in 1..STEPS + STEPS /\ ~(STEPS + i <= STEPS) /\ (STEPS + i) - STEPS = i
      BY <1>a
    <3> QED
      BY <2>1, <3>1
  <2> QED
    BY <2>1, <2>2
<1>3. SubSeq(both, 1, STEPS) \in Seq(Rows) /\ Len(SubSeq(both, 1, STEPS)) = STEPS /\ RowsAre(SubSeq(both, 1, STEPS), "full")
  <2>1. PICK s : s = SubSeq(both, 1, STEPS)
    OBVIOUS
  <2>2. s \in Seq(Rows) /\ Len(s) = STEPS /\ \A i \in 1..STEPS : s[i] = both[i]
    BY <1>a, <1>2, <2>1
  <2>3. \A i \in 1..STEPS : RowIs(first[i], "full", i)
    BY DEF RowsAre
  <2> QED
    BY <1>2, <2>1, <2>2, <2>3 DEF RowsAre
<1>4. /\ SubSeq(both, STEPS + 1, Len(both)) \in Seq(Rows) /\ Len(SubSeq(both, STEPS + 1, Len(both))) = STEPS
      /\ RowsAre(SubSeq(both, STEPS + 1, Len(both)), "reduced")
  <2>1. PICK s : s = SubSeq(both, STEPS + 1, Len(both))
    OBVIOUS
  <2>2. s \in Seq(Rows) /\ Len(s) = STEPS /\ \A i \in 1..STEPS : s[i] = both[STEPS + i]
    BY <1>a, <1>2, <2>1
  <2>3. \A i \in 1..STEPS : RowIs(rows[i], "reduced", i)
    BY DEF RowsAre
  <2> QED
    BY <1>a, <1>2, <2>1, <2>2, <2>3 DEF RowsAre
<1>5. IsTable(both)
  BY <1>3, <1>4, SweptIs DEF IsTable
<1>6. HasFull(both) /\ both # <<>>
  <2>1. 1 \in 1..STEPS /\ 1 \in DOMAIN both
    BY <1>a, <1>2
  <2>2. both[1].of = "full"
    BY <1>2, <2>1 DEF RowsAre, RowIs
  <2> QED
    BY <2>1, <2>2 DEF HasFull
<1> QED
  BY <1>1, <1>2, <1>5, <1>6

(* The page's sweep is over: its table is this one, or both. *)
LEMMA TableMade ==
    ASSUME SweepInv, Running, NEW rows \in Seq(Rows), Len(rows) = STEPS,
           RowsAre(rows, IF boot.reduced THEN "reduced" ELSE "full"), Swept(rows), UNCHANGED storage,
           boot.swept \/ boot.reduced
    PROVE  SweepInv'
<1>a. /\ tab \in SweepTabs /\ storage \in BOOLEAN /\ kept \in Places /\ boot \in Places /\ STEPS \in Nat \ {0} /\ boot.rows \in Seq(Rows)
      /\ sweep.step # 0 /\ view \in Views /\ tab.sweeps \in Nat
  BY SweepAssumption DEF SweepInv, SweepTyped, SweepTabs, Running, Places
<1>b. /\ PlaceIs(boot, storage, tab, table) /\ boot.is /\ PlaceIs(kept, storage, tab, table) /\ (~storage => ~kept.is)
      /\ TabIs(tab, storage, table, sweep.step)
  BY DEF SweepInv
<1>1. /\ tab.full => storage /\ tab.fulls = 1
      /\ boot.reduced
  BY <1>a, <1>b DEF PlaceIs, TabIs
<1>2. PICK b1 : b1 = [boot EXCEPT !.swept = TRUE]
  OBVIOUS
<1>3. PICK b : b = [b1 EXCEPT !.rows = <<>>]
  OBVIOUS
<1>4. b1 \in Places /\ b1.is = boot.is /\ b1.swept /\ b1.reduced = boot.reduced
  BY <1>a, <1>2 DEF Places
<1>5. b \in Places /\ b.is /\ b.swept /\ b.reduced /\ b.rows = <<>>
  <2>1. <<>> \in Seq(Rows)
    OBVIOUS
  <2>2. b \in Places /\ b.is = b1.is /\ b.swept = b1.swept /\ b.reduced = b1.reduced /\ b.rows = <<>>
    BY <1>3, <1>4, <2>1 DEF Places
  <2> QED
    BY <1>b, <1>1, <1>4, <2>2
<1>6. PICK made : made = IF boot.swept THEN rows ELSE boot.rows \o rows
  OBVIOUS
<1>7. PICK v : v = [view EXCEPT !.as = Whole]
  OBVIOUS
<1>8. /\ table' = made /\ boot' = b /\ kept' = Keeps(boot') /\ sweep' = NoSweep /\ view' = v /\ UNCHANGED tab
  BY <1>2, <1>3, <1>6, <1>7 DEF Swept
<1>9. v \in Views /\ v.as = 0
  <2>1. Whole \in Drawings /\ Whole = 0
    BY <1>a DEF Drawings, Whole
  <2> QED
    BY <1>a, <1>7, <2>1, ViewWith
<1>10. NoSweep \in Sweeps /\ NoSweep.step = 0 /\ NoSweep.drawn = {}
  BY <1>a DEF NoSweep, Sweeps, Drawings
<1>11. made \in Seq(Rows) /\ made # <<>> /\ IsTable(made) /\ (tab.fulls = 1 /\ tab.sweeps = 2 => HasFull(made))
  <2>1. rows # <<>> /\ RowsAre(rows, "reduced") /\ IsTable(rows)
    <3>1. rows # <<>> /\ RowsAre(rows, "reduced")
      BY <1>a, <1>1
    <3> QED
      BY <3>1, SweptIs DEF IsTable
  <2>2. CASE boot.swept
    <3>1. tab.fulls = 1 => tab.sweeps >= 3
      BY <1>a, <1>b, <1>1, <2>2 DEF PlaceIs, TabIs
    <3> QED
      BY <1>a, <1>6, <2>1, <2>2, <3>1
  <2>3. CASE ~boot.swept /\ boot.rows = <<>>
    <3>1. made = rows
      BY <1>6, <2>3
    <3>2. tab.fulls # 1
      BY <1>b, <1>1, <2>3 DEF PlaceIs, TabIs
    <3> QED
      BY <2>1, <3>1, <3>2
  <2>4. CASE ~boot.swept /\ boot.rows # <<>>
    <3>1. made = boot.rows \o rows
      BY <1>6, <2>4
    <3>2. Len(boot.rows) = STEPS /\ RowsAre(boot.rows, "full")
      BY <1>b, <2>4 DEF PlaceIs
    <3> QED
      BY <1>a, <2>1, <3>1, <3>2, BothSwept
  <2> QED
    BY <2>2, <2>3, <2>4
<1>12. TableIs(tab, made) /\ TabIs(tab, storage, made, 0)
  BY <1>a, <1>b, <1>1, <1>11 DEF TableIs, TabIs
<1>13. PlaceIs(b, storage, tab, made)
  BY <1>1, <1>5, <1>11 DEF PlaceIs
<1>14. PlaceIs(kept', storage, tab, made) /\ kept' \in Places /\ (~storage => ~kept'.is)
  <2>1. CASE storage
    BY <1>5, <1>8, <1>13, <2>1 DEF Keeps
  <2>2. CASE ~storage
    <3>1. kept' = kept
      BY <1>8, <2>2 DEF Keeps
    <3>2. PlaceIs(kept, storage, tab, made)
      BY <1>b, <1>1, <2>2 DEF PlaceIs
    <3> QED
      BY <1>a, <1>b, <3>1, <3>2
  <2> QED
    BY <2>1, <2>2
<1>15. SweepTyped'
  BY <1>5, <1>8, <1>9, <1>10, <1>11, <1>14 DEF SweepInv, SweepTyped
<1>16. SweepIs(sweep, view, boot.reduced)'
  BY <1>8, <1>9, <1>10 DEF SweepIs
<1> QED
  BY <1>5, <1>8, <1>10, <1>12, <1>13, <1>14, <1>15, <1>16 DEF SweepInv

LEMMA CostsKeeps == ASSUME SweepInv, Costs PROVE SweepInv'
<1>a. /\ Running /\ UNCHANGED storage /\ sweep \in Sweeps /\ sweep.step \in 1..STEPS /\ STEPS \in Nat \ {0} /\ SETTLE \in Nat
      /\ view \in Views /\ view.as = sweep.step /\ sweep.drawn \subseteq {sweep.step} /\ sweep.step \in Drawings
  BY SweepAssumption DEF Costs, SweepInv, SweepTyped, SweepIs, Running, Drawings
<1>1. CASE ~Ran
  <2>1. PICK s : s = SettlesOrCounts
    OBVIOUS
  <2>2. sweep' = s /\ UNCHANGED <<storage, kept, boot, view, table, tab>>
    BY <1>1, <2>1 DEF Costs
  <2>3. s \in Sweeps /\ s.step = sweep.step /\ s.rows = sweep.rows /\ s.drawn \subseteq {sweep.step}
    <3>a. sweep.ticks \in Nat /\ sweep.settled \in BOOLEAN /\ sweep.ticks + 1 \in Nat
      BY <1>a DEF Sweeps
    <3>1. CASE ~sweep.settled
      <4>1. PICK n : n = IF sweep.ticks + 1 >= SETTLE THEN 0 ELSE sweep.ticks + 1
        OBVIOUS
      <4>2. PICK done : done = (sweep.ticks + 1 >= SETTLE)
        OBVIOUS
      <4>3. PICK s1 : s1 = [sweep EXCEPT !.ticks = n]
        OBVIOUS
      <4>4. s = [s1 EXCEPT !.settled = done]
        BY <2>1, <3>1, <4>1, <4>2, <4>3 DEF SettlesOrCounts
      <4>5. n \in Nat /\ done \in BOOLEAN
        BY <3>a, <4>1, <4>2
      <4>6. s1 \in Sweeps /\ s1.step = sweep.step /\ s1.rows = sweep.rows /\ s1.drawn = sweep.drawn
        BY <1>a, <4>3, <4>5 DEF Sweeps
      <4>7. s \in Sweeps /\ s.step = s1.step /\ s.rows = s1.rows /\ s.drawn = s1.drawn
        BY <4>4, <4>5, <4>6 DEF Sweeps
      <4> QED
        BY <1>a, <4>6, <4>7
    <3>2. CASE sweep.settled
      <4>1. PICK s1 : s1 = [sweep EXCEPT !.ticks = sweep.ticks + 1]
        OBVIOUS
      <4>2. PICK drawn : drawn = sweep.drawn \cup {view.as}
        OBVIOUS
      <4>3. s = [s1 EXCEPT !.drawn = drawn]
        <5>1. s1.drawn = sweep.drawn
          BY <1>a, <4>1 DEF Sweeps
        <5> QED
          BY <2>1, <3>2, <4>1, <4>2, <5>1 DEF SettlesOrCounts
      <4>4. drawn \subseteq {sweep.step} /\ drawn \subseteq Drawings
        BY <1>a, <4>2
      <4>5. s1 \in Sweeps /\ s1.step = sweep.step /\ s1.rows = sweep.rows
        BY <1>a, <3>a, <4>1 DEF Sweeps
      <4>6. s \in Sweeps /\ s.step = s1.step /\ s.rows = s1.rows /\ s.drawn = drawn
        BY <4>3, <4>4, <4>5 DEF Sweeps
      <4> QED
        BY <4>4, <4>5, <4>6
    <3> QED
      BY <3>1, <3>2
  <2>4. SweepTyped'
    BY <2>2, <2>3 DEF SweepInv, SweepTyped
  <2>5. SweepIs(sweep, view, boot.reduced)'
    BY <1>a, <2>2, <2>3 DEF SweepInv, SweepIs
  <2> QED
    BY <2>2, <2>3, <2>4, <2>5 DEF SweepInv
<1>2. CASE Ran /\ sweep.step < STEPS
  <2>1. PICK rows : rows = Append(sweep.rows, RowNow)
    OBVIOUS
  <2>2. rows \in Seq(Rows) /\ Len(rows) = sweep.step /\ RowsAre(rows, IF boot.reduced THEN "reduced" ELSE "full")
    BY <1>a, <2>1, RowNowIs
  <2>3. PICK n : n = sweep.step + 1
    OBVIOUS
  <2>4. n \in Drawings /\ n # 0 /\ n - 1 = sweep.step
    BY <1>a, <1>2, <2>3 DEF Drawings
  <2>a. PICK s0 : s0 = NoSweep
    OBVIOUS
  <2>b. PICK s1 : s1 = [s0 EXCEPT !.step = n]
    OBVIOUS
  <2>5. PICK s : s = [s1 EXCEPT !.rows = rows]
    OBVIOUS
  <2>6. PICK v : v = [view EXCEPT !.as = n]
    OBVIOUS
  <2>7. sweep' = s /\ view' = v /\ UNCHANGED <<storage, kept, boot, table, tab>>
    <3>1. NextStep = s
      BY <2>1, <2>3, <2>5, <2>a, <2>b DEF NextStep
    <3>2. sweep.step # STEPS
      BY <1>a, <1>2
    <3>3. sweep' = NextStep /\ DrawAsNext /\ UNCHANGED <<kept, boot, table, tab>>
      BY <1>2, <3>2 DEF Costs
    <3> QED
      BY <1>a, <2>3, <2>6, <3>1, <3>3 DEF DrawAsNext
  <2>8. s \in Sweeps /\ s.step = n /\ s.rows = rows /\ s.drawn = {}
    <3>a. 0 \in Drawings
      BY <1>a DEF Drawings
    <3>1. s0 \in Sweeps /\ s0.drawn = {}
      BY <2>a, <3>a DEF NoSweep, Sweeps
    <3>2. s1 \in Sweeps /\ s1.drawn = {} /\ s1.step = n
      BY <2>4, <2>b, <3>1 DEF Sweeps
    <3> QED
      BY <2>2, <2>5, <3>2 DEF Sweeps
  <2>9. v \in Views /\ v.as = n
    BY <1>a, <2>4, <2>6, ViewWith
  <2>10. SweepTyped'
    BY <2>7, <2>8, <2>9 DEF SweepInv, SweepTyped
  <2>11. SweepIs(sweep, view, boot.reduced)'
    BY <2>2, <2>4, <2>7, <2>8, <2>9 DEF SweepIs
  <2>12. TabIs(tab, storage, table, n)
    <3>1. sweep.step # 0
      BY <1>a
    <3> QED
      BY <3>1 DEF SweepInv, TabIs
  <2> QED
    BY <2>7, <2>8, <2>10, <2>11, <2>12 DEF SweepInv
<1>3. CASE Ran /\ sweep.step = STEPS
  <2>1. PICK rows : rows = Append(sweep.rows, RowNow)
    OBVIOUS
  <2>2. rows \in Seq(Rows) /\ Len(rows) = STEPS /\ RowsAre(rows, IF boot.reduced THEN "reduced" ELSE "full")
    BY <1>a, <1>3, <2>1, RowNowIs
  <2>3. Swept(rows)
    BY <1>a, <1>3, <2>1 DEF Costs
  <2>4. CASE ~boot.swept /\ ~boot.reduced
    <3>1. RowsAre(rows, "full")
      BY <2>2, <2>4
    <3> QED
      BY <1>a, <2>2, <2>3, <2>4, <3>1, FullMeasured
  <2>5. CASE boot.swept \/ boot.reduced
    BY <1>a, <2>2, <2>3, <2>5, TableMade
  <2> QED
    BY <2>4, <2>5
<1> QED
  BY <1>a, <1>1, <1>2, <1>3

LEMMA SweepGoesOn == SweepInv /\ [SweepNext]_sweepVars => SweepInv'
<1> SUFFICES ASSUME SweepInv, [SweepNext]_sweepVars PROVE SweepInv'
  OBVIOUS
<1>1. CASE UNCHANGED sweepVars
  <2>1. view \in Views
    BY DEF SweepInv, SweepTyped
  <2> QED
    BY <1>1, <2>1, ViewTurns DEF sweepVars
<1> QED
  BY <1>1, CostsKeeps, HidesKeeps, ReloadsKeeps, OnScreenKeeps DEF SweepNext

LEMMA SweepSays == SweepInv => SweepSaysWhatItDrew /\ SweepTypeOK
<1> SUFFICES ASSUME SweepInv PROVE SweepSaysWhatItDrew /\ SweepTypeOK
  OBVIOUS
<1>1. SweepSaysWhatItDrew
  BY DEF SweepInv, SweepIs, TableIs, IsTable, HasFull, SweepSaysWhatItDrew, Whole
<1>2. SweepTypeOK
  BY DEF SweepInv, SweepTyped, SweepTypeOK, Sweeps, Views, Drawings
<1> QED
  BY <1>1, <1>2

(* A field.  What the console has yet to take leads, key by key, from the text it has to the one
   in the set's keyboard. *)
FieldKeys == Chars \cup {"Backspace"}
After(text, key) ==
    IF key # "Backspace" THEN Append(text, key) ELSE IF text = <<>> THEN text ELSE SubSeq(text, 1, Len(text) - 1)
Leads(text, takes, to) ==
    \E s \in [0..Len(takes) -> Seq(Chars)] :
        s[0] = text /\ s[Len(takes)] = to /\ \A i \in 1..Len(takes) : s[i] = After(s[i - 1], takes[i])

FieldInv ==
    /\ field \in [open : BOOLEAN, text : Seq(Chars), takes : Seq(FieldKeys)] /\ ime \in [value : Texts, text : Texts]
    /\ ime.text = ime.value /\ Leads(field.text, field.takes, ime.value)

LEMMA TextsAreSeqs == Texts \subseteq Seq(Chars) /\ <<>> \in Texts
<1>a. MaxText \in Nat
  BY FieldAssumption
<1>1. Texts = UNION {[1..m -> Chars] : m \in 0..MaxText}
  BY DEF Texts, BoundedSeq, SeqOf
<1>2. Texts \subseteq Seq(Chars)
  <2> SUFFICES ASSUME NEW m \in 0..MaxText, NEW s \in [1..m -> Chars] PROVE s \in Seq(Chars)
    BY <1>1
  <2>1. m \in Nat
    BY <1>a
  <2> QED
    BY <2>1
<1>3. <<>> \in [1..0 -> Chars] /\ 0 \in 0..MaxText
  BY <1>a
<1> QED
  BY <1>1, <1>2, <1>3

LEMMA LeadsNowhere == ASSUME NEW text \in Seq(Chars) PROVE Leads(text, <<>>, text)
<1>1. PICK s : s = [i \in 0..0 |-> text]
  OBVIOUS
<1>2. s \in [0..0 -> Seq(Chars)] /\ s[0] = text /\ Len(<<>>) = 0
  BY <1>1
<1> QED
  BY <1>2 DEF Leads

LEMMA LeadsOn ==
    ASSUME NEW text, NEW via, NEW to, NEW first \in Seq(FieldKeys), NEW then \in Seq(FieldKeys),
           Leads(text, first, via), Leads(via, then, to)
    PROVE  Leads(text, first \o then, to)
<1>1. PICK s1 \in [0..Len(first) -> Seq(Chars)] :
        s1[0] = text /\ s1[Len(first)] = via /\ \A i \in 1..Len(first) : s1[i] = After(s1[i - 1], first[i])
  BY DEF Leads
<1>2. PICK s2 \in [0..Len(then) -> Seq(Chars)] :
        s2[0] = via /\ s2[Len(then)] = to /\ \A i \in 1..Len(then) : s2[i] = After(s2[i - 1], then[i])
  BY DEF Leads
<1>3. PICK m, n : m = Len(first) /\ n = Len(then)
  OBVIOUS
<1>4. m \in Nat /\ n \in Nat
  BY <1>3
<1>5. PICK all : all = first \o then
  OBVIOUS
<1>6. /\ Len(all) = m + n /\ \A i \in 1..m : all[i] = first[i]
      /\ \A i \in m + 1..m + n : all[i] = then[i - m]
  BY <1>3, <1>4, <1>5
<1>7. PICK s : s = [i \in 0..m + n |-> IF i <= m THEN s1[i] ELSE s2[i - m]]
  OBVIOUS
<1>8. s \in [0..m + n -> Seq(Chars)]
  BY <1>1, <1>2, <1>3, <1>4, <1>7
<1>9. \A i \in 0..m : s[i] = s1[i]
  BY <1>4, <1>7
<1>10. \A i \in m..m + n : s[i] = s2[i - m]
  BY <1>1, <1>2, <1>3, <1>4, <1>7
<1>11. ASSUME NEW i \in 1..m + n PROVE s[i] = After(s[i - 1], all[i])
  <2>1. CASE i <= m
    <3>1. i \in 1..m /\ i \in 0..m /\ i - 1 \in 0..m
      BY <1>4, <2>1
    <3>2. s1[i] = After(s1[i - 1], first[i])
      BY <1>1, <1>3, <3>1
    <3> QED
      BY <1>6, <1>9, <3>1, <3>2
  <2>2. CASE ~(i <= m)
    <3>1. i \in m + 1..m + n /\ i - 1 \in m..m + n /\ i \in m..m + n /\ i - m \in 1..n /\ (i - 1) - m = (i - m) - 1
      BY <1>4, <2>2
    <3>2. s2[i - m] = After(s2[(i - m) - 1], then[i - m])
      BY <1>2, <1>3, <3>1
    <3>3. s[i] = s2[i - m] /\ s[i - 1] = s2[(i - m) - 1] /\ all[i] = then[i - m]
      BY <1>6, <1>10, <3>1
    <3> QED
      BY <3>2, <3>3
  <2> QED
    BY <2>1, <2>2
<1>12. s[0] = text /\ s[m + n] = to
  <2>1. 0 \in 0..m /\ m + n \in m..m + n /\ (m + n) - m = n
    BY <1>4
  <2> QED
    BY <1>1, <1>2, <1>3, <1>9, <1>10, <2>1
<1> QED
  BY <1>5, <1>6, <1>8, <1>11, <1>12 DEF Leads

LEMMA LeadsFrom ==
    ASSUME NEW text, NEW to, NEW takes \in Seq(FieldKeys), takes # <<>>, Leads(text, takes, to)
    PROVE  /\ Leads(After(text, Head(takes)), Tail(takes), to) /\ After(text, Head(takes)) \in Seq(Chars)
           /\ Tail(takes) \in Seq(FieldKeys)
<1>1. PICK n : n = Len(takes)
  OBVIOUS
<1>2. n \in Nat \ {0} /\ Head(takes) = takes[1]
  BY <1>1
<1>3. PICK s \in [0..n -> Seq(Chars)] : s[0] = text /\ s[n] = to /\ \A i \in 1..n : s[i] = After(s[i - 1], takes[i])
  BY <1>1 DEF Leads
<1>4. PICK rest : rest = Tail(takes)
  OBVIOUS
<1>5. rest \in Seq(FieldKeys) /\ Len(rest) = n - 1 /\ \A i \in 1..n - 1 : rest[i] = takes[i + 1]
  BY <1>1, <1>2, <1>4
<1>6. PICK t : t = [i \in 0..n - 1 |-> s[i + 1]]
  OBVIOUS
<1>7. t \in [0..n - 1 -> Seq(Chars)] /\ \A i \in 0..n - 1 : t[i] = s[i + 1]
  BY <1>2, <1>3, <1>6
<1>8. ASSUME NEW i \in 1..n - 1 PROVE t[i] = After(t[i - 1], rest[i])
  <2>1. i + 1 \in 1..n /\ i \in 0..n - 1 /\ i - 1 \in 0..n - 1 /\ (i - 1) + 1 = i /\ (i + 1) - 1 = i
    BY <1>2
  <2>2. s[i + 1] = After(s[i], takes[i + 1])
    BY <1>3, <2>1
  <2>3. t[i] = s[i + 1] /\ t[i - 1] = s[i] /\ rest[i] = takes[i + 1]
    BY <1>5, <1>7, <2>1
  <2> QED
    BY <2>2, <2>3
<1>9. t[0] = After(text, Head(takes)) /\ t[n - 1] = to /\ t[0] \in Seq(Chars)
  <2>1. 0 \in 0..n - 1 /\ n - 1 \in 0..n - 1 /\ 1 \in 1..n /\ 1 - 1 = 0 /\ (n - 1) + 1 = n /\ 0 + 1 = 1
    BY <1>2
  <2>2. s[1] = After(s[0], takes[1])
    BY <1>3, <2>1
  <2>3. t[0] = s[1] /\ t[n - 1] = s[n]
    BY <1>7, <2>1
  <2> QED
    BY <1>2, <1>3, <1>7, <2>1, <2>2, <2>3
<1>10. Leads(After(text, Head(takes)), rest, to)
  BY <1>5, <1>7, <1>8, <1>9 DEF Leads
<1> QED
  BY <1>4, <1>5, <1>9, <1>10

(* The longest common prefix of two texts is the start of both. *)
LEMMA CommonStarts ==
    ASSUME NEW was \in Seq(Chars), NEW next \in Seq(Chars)
    PROVE  \E n \in Nat : Len(Common(was, next)) = n /\ n <= Len(was) /\ n <= Len(next) /\ \A i \in 1..n : was[i] = next[i]
<1>1. PICK both : both = CommonPrefixes({was, next})
  OBVIOUS
<1>2. \A p \in both : IsPrefix(p, was) /\ IsPrefix(p, next) /\ Len(p) \in Nat
  <2> SUFFICES ASSUME NEW p \in both PROVE IsPrefix(p, was) /\ IsPrefix(p, next) /\ Len(p) \in Nat
    OBVIOUS
  <2>1. PICK s \in {was, next} : p \in Prefixes(s) /\ IsPrefix(p, was) /\ IsPrefix(p, next)
    BY <1>1 DEF CommonPrefixes
  <2>2. PICK l \in 0..Len(s) : p = SubSeq(s, 1, l)
    BY <2>1 DEF Prefixes
  <2>3. s \in Seq(Chars) /\ l \in Nat /\ l <= Len(s)
    BY <2>1
  <2>4. Len(p) \in Nat
    BY <2>2, <2>3
  <2> QED
    BY <2>1, <2>4
<1>3. <<>> \in both
  <2>1. SubSeq(was, 1, 0) = <<>> /\ SubSeq(next, 1, 0) = <<>> /\ 0 \in 0..Len(was) /\ Len(<<>>) = 0 /\ Len(next) >= 0 /\ Len(was) >= 0
    BY SubSeqEmpty
  <2>2. <<>> \in Prefixes(was)
    BY <2>1 DEF Prefixes
  <2>3. IsPrefix(<<>>, was) /\ IsPrefix(<<>>, next)
    <3>1. SubSeq(<<>>, 1, 0) = <<>>
      OBVIOUS
    <3> QED
      BY <2>1, <3>1 DEF IsPrefix
  <2> QED
    BY <1>1, <2>2, <2>3 DEF CommonPrefixes
<1>4. \E longest \in both : \A other \in both : Len(other) <= Len(longest)
  <2> DEFINE Short == {Len(was) - Len(p) : p \in both}
  <2>1. \A p \in both : Len(p) \in Nat /\ Len(p) <= Len(was)
    BY <1>2 DEF IsPrefix
  <2>2. Short \subseteq Nat /\ Short # {}
    BY <1>3, <2>1
  <2> HIDE DEF Short
  <2>3. PICK x \in Short : \A y \in Short : x <= y
    BY <2>2, Lowest
  <2>4. PICK longest \in both : x = Len(was) - Len(longest)
    BY DEF Short
  <2>5. \A other \in both : Len(was) - Len(longest) <= Len(was) - Len(other)
    BY <2>3, <2>4 DEF Short
  <2> QED
    BY <2>1, <2>5
<1>5. Common(was, next) \in both
  BY <1>1, <1>4 DEF Common, LongestCommonPrefix
<1>6. PICK p : p = Common(was, next)
  OBVIOUS
<1>7. IsPrefix(p, was) /\ IsPrefix(p, next) /\ Len(p) \in Nat
  BY <1>2, <1>5, <1>6
<1>8. \A i \in 1..Len(p) : was[i] = next[i]
  <2>1. Len(p) <= Len(was) /\ Len(p) <= Len(next) /\ SubSeq(was, 1, Len(p)) = SubSeq(next, 1, Len(p))
    BY <1>7 DEF IsPrefix
  <2>2. \A i \in 1..Len(p) : SubSeq(was, 1, Len(p))[i] = was[i] /\ SubSeq(next, 1, Len(p))[i] = next[i]
    BY <1>7, <2>1
  <2> QED
    BY <2>1, <2>2
<1> QED
  BY <1>6, <1>7, <1>8 DEF IsPrefix

(* What the page sends leads from the text that was to the one that is. *)
LEMMA TypedLeads ==
    ASSUME NEW was \in Seq(Chars), NEW next \in Seq(Chars)
    PROVE  ImeSends(was, next) \in Seq(FieldKeys) /\ Leads(was, ImeSends(was, next), next)
<1>1. PICK n \in Nat :
        Len(Common(was, next)) = n /\ n <= Len(was) /\ n <= Len(next) /\ \A i \in 1..n : was[i] = next[i]
  BY CommonStarts
<1>2. PICK k, m : k = Len(was) - n /\ m = Len(next) - n
  OBVIOUS
<1>3. k \in Nat /\ m \in Nat /\ Len(was) = n + k /\ Len(next) = n + m
  BY <1>1, <1>2
<1>4. PICK start : start = SubSeq(next, 1, n)
  OBVIOUS
<1>5. start \in Seq(Chars) /\ Len(start) = n /\ \A i \in 1..n : start[i] = next[i]
  BY <1>1, <1>4
<1>6. PICK back : back = [i \in 1..k |-> "Backspace"]
  OBVIOUS
<1>7. back \in Seq(FieldKeys) /\ Len(back) = k /\ \A i \in 1..k : back[i] = "Backspace"
  BY <1>3, <1>6 DEF FieldKeys
<1>8. Leads(was, back, start)
  <2>1. PICK s : s = [i \in 0..k |-> SubSeq(was, 1, n + k - i)]
    OBVIOUS
  <2>2. \A i \in 0..k : n + k - i \in Nat /\ n + k - i <= Len(was)
    BY <1>3
  <2>3. \A i \in 0..k : /\ s[i] = SubSeq(was, 1, n + k - i) /\ s[i] \in Seq(Chars) /\ Len(s[i]) = n + k - i
                        /\ \A j \in 1..n + k - i : s[i][j] = was[j]
    BY <2>1, <2>2
  <2>4. s \in [0..k -> Seq(Chars)]
    BY <2>1, <2>3
  <2>5. s[0] = was
    <3>1. 0 \in 0..k /\ n + k - 0 = Len(was)
      BY <1>3
    <3>2. s[0] \in Seq(Chars) /\ Len(s[0]) = Len(was) /\ \A j \in 1..Len(s[0]) : s[0][j] = was[j]
      BY <2>3, <3>1
    <3> QED
      BY <3>2, SeqEqual
  <2>6. s[k] = start
    <3>1. k \in 0..k /\ n + k - k = n
      BY <1>3
    <3>2. s[k] \in Seq(Chars) /\ Len(s[k]) = Len(start) /\ \A j \in 1..Len(s[k]) : s[k][j] = start[j]
      BY <1>1, <1>5, <2>3, <3>1
    <3> QED
      BY <1>5, <3>2, SeqEqual
  <2>7. ASSUME NEW i \in 1..k PROVE s[i] = After(s[i - 1], back[i])
    <3>1. i \in 0..k /\ i - 1 \in 0..k /\ n + k - i \in Nat /\ n + k - (i - 1) = (n + k - i) + 1
      BY <1>3
    <3>2. PICK a, b : a = s[i - 1] /\ b = s[i]
      OBVIOUS
    <3>3. /\ a \in Seq(Chars) /\ Len(a) = (n + k - i) + 1 /\ \A j \in 1..(n + k - i) + 1 : a[j] = was[j]
          /\ b \in Seq(Chars) /\ Len(b) = n + k - i /\ \A j \in 1..n + k - i : b[j] = was[j]
      <4>1. /\ s[i - 1] \in Seq(Chars) /\ Len(s[i - 1]) = n + k - (i - 1)
            /\ \A j \in 1..n + k - (i - 1) : s[i - 1][j] = was[j]
        BY <2>3, <3>1
      <4>2. /\ s[i] \in Seq(Chars) /\ Len(s[i]) = n + k - i /\ \A j \in 1..n + k - i : s[i][j] = was[j]
        BY <2>3, <3>1
      <4> QED
        BY <3>1, <3>2, <4>1, <4>2
    <3>4. PICK c : c = SubSeq(a, 1, Len(a) - 1)
      OBVIOUS
    <3>a. PICK l : l = n + k - i
      OBVIOUS
    <3>b. l \in Nat /\ Len(a) = l + 1 /\ Len(b) = l /\ \A j \in 1..l : a[j] = was[j] /\ b[j] = was[j]
      BY <3>1, <3>3, <3>a
    <3>c. c = SubSeq(a, 1, l)
      BY <3>4, <3>b
    <3>5. c \in Seq(Chars) /\ Len(c) = Len(b) /\ \A j \in 1..Len(c) : c[j] = b[j]
      BY <3>3, <3>b, <3>c
    <3>6. c = b
      BY <3>3, <3>5, SeqEqual
    <3>7. a # <<>>
      BY <3>1, <3>3
    <3> QED
      BY <1>7, <3>2, <3>4, <3>6, <3>7 DEF After
  <2> QED
    BY <1>7, <2>4, <2>5, <2>6, <2>7 DEF Leads
<1>9. PICK more : more = SubSeq(next, n + 1, Len(next))
  OBVIOUS
<1>10. more \in Seq(Chars) /\ Len(more) = m /\ \A i \in 1..m : more[i] = next[n + i]
  <2>1. n \in Nat /\ Len(next) \in Nat /\ Len(next) - n = m /\ m \in Nat
    BY <1>1, <1>3
  <2>2. n + 1 \in Int /\ Len(next) \in Int /\ \A i \in n + 1..Len(next) : next[i] \in Chars
    BY <1>1, <2>1
  <2>3. /\ more \in Seq(Chars) /\ Len(more) = IF n + 1 <= Len(next) THEN Len(next) - (n + 1) + 1 ELSE 0
        /\ \A i \in 1..Len(next) - (n + 1) + 1 : more[i] = next[(n + 1) + i - 1]
    BY <1>9, <2>2, SubSeqProperties
  <2>4. Len(next) - (n + 1) + 1 = m /\ \A i \in Nat : (n + 1) + i - 1 = n + i
    BY <2>1
  <2>5. more \in Seq(Chars) /\ Len(more) = m
    BY <2>1, <2>3, <2>4
  <2>6. ASSUME NEW i \in 1..m PROVE more[i] = next[n + i]
    <3>1. i \in Nat /\ i \in 1..Len(next) - (n + 1) + 1 /\ (n + 1) + i - 1 = n + i
      BY <2>1, <2>4
    <3>2. more[i] = next[(n + 1) + i - 1]
      BY <2>3, <3>1
    <3> QED
      BY <3>1, <3>2
  <2> QED
    BY <2>5, <2>6
<1>11. more \in Seq(FieldKeys) /\ \A i \in 1..m : more[i] # "Backspace" /\ more[i] \in Chars
  <2>1. \A i \in 1..m : more[i] \in Chars
    BY <1>10
  <2>2. more \in Seq(FieldKeys)
    BY <1>10, <2>1 DEF FieldKeys
  <2> QED
    BY <2>1, <2>2, FieldAssumption
<1>12. Leads(start, more, next)
  <2>1. PICK s : s = [i \in 0..m |-> SubSeq(next, 1, n + i)]
    OBVIOUS
  <2>2. \A i \in 0..m : n + i \in Nat /\ n + i <= Len(next)
    BY <1>3
  <2>3. \A i \in 0..m : /\ s[i] \in Seq(Chars) /\ Len(s[i]) = n + i
                        /\ \A j \in 1..n + i : s[i][j] = next[j]
    BY <2>1, <2>2
  <2>4. s \in [0..m -> Seq(Chars)]
    BY <2>1, <2>3
  <2>5. s[0] = start
    <3>1. 0 \in 0..m /\ n + 0 = n
      BY <1>3
    <3>2. s[0] = SubSeq(next, 1, n)
      BY <2>1, <3>1
    <3> QED
      BY <1>4, <3>2
  <2>6. s[m] = next
    <3>1. m \in 0..m /\ n + m = Len(next)
      BY <1>3
    <3>2. s[m] \in Seq(Chars) /\ Len(s[m]) = Len(next) /\ \A j \in 1..Len(s[m]) : s[m][j] = next[j]
      BY <2>3, <3>1
    <3> QED
      BY <3>2, SeqEqual
  <2>7. ASSUME NEW i \in 1..m PROVE s[i] = After(s[i - 1], more[i])
    <3>1. i \in 0..m /\ i - 1 \in 0..m /\ n + (i - 1) \in Nat /\ n + i = (n + (i - 1)) + 1 /\ n + i \in Nat
      BY <1>3
    <3>2. PICK a, b : a = s[i - 1] /\ b = s[i]
      OBVIOUS
    <3>3. /\ a \in Seq(Chars) /\ Len(a) = n + (i - 1) /\ \A j \in 1..n + (i - 1) : a[j] = next[j]
          /\ b \in Seq(Chars) /\ Len(b) = n + i /\ \A j \in 1..n + i : b[j] = next[j]
      <4>1. /\ s[i - 1] \in Seq(Chars) /\ Len(s[i - 1]) = n + (i - 1)
            /\ \A j \in 1..n + (i - 1) : s[i - 1][j] = next[j]
        BY <2>3, <3>1
      <4>2. s[i] \in Seq(Chars) /\ Len(s[i]) = n + i /\ \A j \in 1..n + i : s[i][j] = next[j]
        BY <2>3, <3>1
      <4> QED
        BY <3>2, <4>1, <4>2
    <3>4. PICK x : x = more[i]
      OBVIOUS
    <3>5. x = next[n + i] /\ x \in Chars /\ x # "Backspace"
      BY <1>10, <1>11, <3>4
    <3>6. PICK c : c = Append(a, x)
      OBVIOUS
    <3>7. c \in Seq(Chars) /\ Len(c) = Len(b) /\ \A j \in 1..Len(c) : c[j] = b[j]
      BY <3>1, <3>3, <3>5, <3>6
    <3>8. c = b
      BY <3>3, <3>7, SeqEqual
    <3> QED
      BY <3>2, <3>4, <3>5, <3>6, <3>8 DEF After
  <2> QED
    BY <1>10, <2>4, <2>5, <2>6, <2>7 DEF Leads
<1>13. ImeSends(was, next) = back \o more
  BY <1>1, <1>2, <1>6, <1>9 DEF ImeSends, Typed
<1>14. back \o more \in Seq(FieldKeys)
  BY <1>7, <1>11
<1> QED
  BY <1>7, <1>8, <1>11, <1>12, <1>13, <1>14, LeadsOn

LEMMA FieldBegins == FieldInit => FieldInv
<1> SUFFICES ASSUME FieldInit PROVE FieldInv
  OBVIOUS
<1>1. <<>> \in Seq(Chars) /\ <<>> \in Seq(FieldKeys)
  OBVIOUS
<1> QED
  BY <1>1, TextsAreSeqs, LeadsNowhere DEF FieldInit, FieldInv, NoField

LEMMA FieldGoesOn == FieldInv /\ [FieldNext]_fieldVars => FieldInv'
<1> SUFFICES ASSUME FieldInv, [FieldNext]_fieldVars PROVE FieldInv'
  OBVIOUS
<1>a. /\ field \in [open : BOOLEAN, text : Seq(Chars), takes : Seq(FieldKeys)] /\ ime \in [value : Texts, text : Texts]
      /\ ime.text = ime.value /\ Leads(field.text, field.takes, ime.value) /\ ime.value \in Seq(Chars)
  BY TextsAreSeqs DEF FieldInv
<1>b. <<>> \in Seq(Chars) /\ <<>> \in Seq(FieldKeys) /\ <<>> \in Texts
  BY TextsAreSeqs
<1>1. CASE EditField
  <2>1. CASE \E text \in Texts : field' = [NoField EXCEPT !.open = TRUE, !.text = text] /\ ime' = [value |-> text, text |-> text]
    <3>1. PICK text \in Texts : field' = [NoField EXCEPT !.open = TRUE, !.text = text] /\ ime' = [value |-> text, text |-> text]
      BY <2>1
    <3>2. text \in Seq(Chars)
      BY TextsAreSeqs
    <3>3. field' = [open |-> TRUE, text |-> text, takes |-> <<>>]
      BY <3>1 DEF NoField
    <3>4. Leads(text, <<>>, text)
      BY <3>2, LeadsNowhere
    <3>5. field' \in [open : BOOLEAN, text : Seq(Chars), takes : Seq(FieldKeys)] /\ field'.text = text /\ field'.takes = <<>>
      BY <1>b, <3>2, <3>3
    <3>6. ime' \in [value : Texts, text : Texts] /\ ime'.value = text /\ ime'.text = text
      BY <3>1
    <3> QED
      BY <3>4, <3>5, <3>6 DEF FieldInv
  <2>2. CASE field' = NoField /\ ime' = [value |-> <<>>, text |-> <<>>]
    BY <1>b, <2>2, LeadsNowhere DEF FieldInv, NoField
  <2> QED
    BY <1>1, <2>1, <2>2 DEF EditField
<1>2. CASE ImeInput
  <2>1. PICK next \in Texts : /\ ime' = [value |-> next, text |-> next]
                             /\ field' = [field EXCEPT !.takes = field.takes \o ImeSends(ime.text, next)]
    BY <1>2 DEF ImeInput
  <2>2. next \in Seq(Chars)
    BY TextsAreSeqs
  <2>3. PICK sends : sends = ImeSends(ime.value, next)
    OBVIOUS
  <2>4. sends \in Seq(FieldKeys) /\ Leads(ime.value, sends, next)
    BY <1>a, <2>2, <2>3, TypedLeads
  <2>5. PICK takes : takes = field.takes \o sends
    OBVIOUS
  <2>6. takes \in Seq(FieldKeys) /\ Leads(field.text, takes, next)
    <3>1. field.takes \in Seq(FieldKeys)
      BY <1>a
    <3>2. field.takes \o sends \in Seq(FieldKeys)
      BY <2>4, <3>1
    <3>3. Leads(field.text, field.takes \o sends, next)
      BY <1>a, <2>4, <3>1, LeadsOn
    <3> QED
      BY <2>5, <3>2, <3>3
  <2>7. field' = [field EXCEPT !.takes = takes]
    BY <1>a, <2>1, <2>3, <2>5
  <2>8. field' \in [open : BOOLEAN, text : Seq(Chars), takes : Seq(FieldKeys)] /\ field'.text = field.text /\ field'.takes = takes
    BY <1>a, <2>6, <2>7
  <2> QED
    BY <2>1, <2>6, <2>8 DEF FieldInv
<1>3. CASE ConsoleTakes
  <2>1. PICK text : text = After(field.text, Head(field.takes))
    OBVIOUS
  <2>2. PICK takes : takes = Tail(field.takes)
    OBVIOUS
  <2>3. /\ field.takes # <<>> /\ UNCHANGED ime
        /\ field' = [field EXCEPT !.takes = takes, !.text = text]
    BY <1>3, <1>a, <2>1, <2>2 DEF ConsoleTakes, After, Front
  <2>4. text \in Seq(Chars) /\ takes \in Seq(FieldKeys) /\ Leads(text, takes, ime.value)
    BY <1>a, <2>1, <2>2, <2>3, LeadsFrom
  <2>5. field' \in [open : BOOLEAN, text : Seq(Chars), takes : Seq(FieldKeys)] /\ field'.text = text /\ field'.takes = takes
    BY <1>a, <2>3, <2>4
  <2> QED
    BY <1>a, <2>3, <2>4, <2>5 DEF FieldInv
<1>4. CASE UNCHANGED fieldVars
  BY <1>a, <1>4 DEF fieldVars, FieldInv
<1> QED
  BY <1>1, <1>2, <1>3, <1>4 DEF FieldNext

LEMMA FieldReaches == FieldInv => FieldReachesConsole /\ FieldTypeOK
<1> SUFFICES ASSUME FieldInv PROVE FieldReachesConsole /\ FieldTypeOK
  OBVIOUS
<1>1. FieldTypeOK
  BY DEF FieldInv, FieldTypeOK
<1>2. ASSUME field.takes = <<>> PROVE field.text = ime.value
  <2>1. Leads(field.text, <<>>, ime.value) /\ Len(<<>>) = 0
    BY <1>2 DEF FieldInv
  <2> QED
    BY <2>1 DEF Leads
<1> QED
  BY <1>1, <1>2 DEF FieldReachesConsole

TvInv == WakeInv /\ SweepInv /\ FieldInv

LEMMA TvBegins == Init => TvInv
  BY WakeCardBegins, SweepBegins, FieldBegins DEF Init, TvInv

LEMMA TvGoesOn == TvInv /\ [Next]_vars => TvInv'
  BY PartsGoOn, WakeCardGoesOn, SweepGoesOn, FieldGoesOn DEF TvInv

(* One wake ticks at a time, and no timer of one that ended is left (console.ts startWake, tick); a
   sweep's table has a row of every step, in order, each as it was drawn, across the page's reloads
   (sweep.ts); and what the console's field has, once it took every key, is the input's text
   (console.ts typed, TextInput's edits). *)
THEOREM TvHolds == Spec => []TvInOrder
<1>1. TvInv => TvInOrder
  BY SweepSays, FieldReaches DEF TvInv, WakeInv, TvInOrder
<1> QED
  BY <1>1, TvBegins, TvGoesOn, PTL DEF Spec
=============================================================================

--------------------------------- MODULE App ---------------------------------
(***************************************************************************)
(* The web page's App (apps/web/src/app.ts): what it keeps between the     *)
(* engine's states and the person's clicks, and the answers it waits for.  *)
(* A stream asked for is kept until its host is ready, and then passes the *)
(* profile gate.  Shelf has the library beside it.                         *)
(*                                                                         *)
(* The engine appears by the states it may go through.  A microtask queued *)
(* by render runs in the step that queued it.                              *)
(***************************************************************************)
EXTENDS Integers, Sequences, FiniteSets

CONSTANTS
    Origins,     \* hosts
    None,
    MaxGates,    \* bound: profile gates at once, those left and not yet over among them
    MaxClicks    \* bound: clicks

ASSUME AppAssumption ==
    Origins # {} /\ None \notin Origins /\ MaxGates \in Nat \ {0} /\ MaxClicks \in Nat

VARIABLES
    engine,      \* its state's kind, and the host it is with
    app,         \* App: screen, tab, shelf, and what waits on a host that gets ready
    gates,       \* askProfile calls under way; app.gate names the one that is this.gate
    timers,      \* hosts to connect to again after a pairing
    clicks,      \* the bound's counter
    dialled      \* history: the last stream dialled

appVars == <<engine, app, gates, timers, clicks, dialled>>

(* asks: blocked, untrusted, needs-pairing, pairing, pair-refused, forgotten.  connecting: reaching too. *)
Live == {"starting", "streaming"}
Flows == {"bad-address", "connecting", "asks", "awaiting", "paired", "error", "starting"}
NoGate == [stage |-> "none"]
NoDial == [on |-> None]

(* A play is named by the host it was asked of: `entry` is a title of it, or unset. *)
AppInit ==
    /\ engine = [kind |-> "idle", at |-> None]
    /\ \E link \in Origins \cup {None} :
        app = [screen |-> IF link = None THEN "home" ELSE "link", link |-> link, settings |-> FALSE,
               tab |-> "hosts", shelf |-> CHOOSE o \in Origins : TRUE, quiet |-> FALSE, browse |-> FALSE,
               resume |-> None, launch |-> None, switch |-> None, dropped |-> None, last |-> None,
               gate |-> 0]
    /\ gates = [g \in 1..MaxGates |-> NoGate] /\ timers = {} /\ clicks = MaxClicks /\ dialled = NoDial

(***************************************************************************)
(* render: the facts of the engine's state e, whose kind was `was`.        *)
(***************************************************************************)
Edges(a, e, was) ==
    LET gate == IF a.gate # 0 /\ (e.kind # "ready" \/ e.at # gates[a.gate].at) THEN 0 ELSE a.gate
        ended == was \in Live /\ e.kind \notin Live
    IN  [a EXCEPT !.gate = gate,
                  !.switch = IF e.kind \in {"idle", "error"} THEN None ELSE @,
                  !.settings = @ /\ ~ended,
                  !.dropped = IF ended /\ e.kind = "error" THEN a.last ELSE @]

Forgetful(a) ==
    [a EXCEPT !.browse = FALSE, !.launch = None, !.resume = None, !.dropped = None,
              !.screen = IF a.tab = "library" THEN "library" ELSE IF a.link # None THEN @ ELSE "home"]

(* The screen render draws over a ready host that nothing waits on. *)
Settled(a, e) ==
    LET tab == IF a.browse THEN "library" ELSE a.tab
    IN  [a EXCEPT !.browse = FALSE, !.tab = tab, !.shelf = IF tab = "library" THEN e.at ELSE @,
                  !.screen = IF tab = "library" THEN "library" ELSE IF a.link # None THEN @ ELSE "home"]

Drawn(a, e) ==
    LET q == [a EXCEPT !.quiet = FALSE]
    IN  CASE a.settings                             -> [a EXCEPT !.screen = "settings"]
          [] ~a.settings /\ a.quiet /\ e.kind = "connecting" -> [a EXCEPT !.screen = "library"]
          [] ~a.settings /\ ~(a.quiet /\ e.kind = "connecting") ->
                CASE e.kind = "idle"        -> Forgetful(q)
                  [] e.kind = "bad-address" -> [q EXCEPT !.tab = "hosts", !.screen = IF a.link # None THEN @ ELSE "home"]
                  [] e.kind = "paired"      -> [q EXCEPT !.screen = "pair", !.resume =
                                                    IF a.screen = "waiting" /\ @ = None THEN e.at ELSE @]
                  [] e.kind = "awaiting"    -> [q EXCEPT !.screen = "waiting"]
                  [] e.kind = "ready"       -> IF a.gate # 0 THEN [q EXCEPT !.screen = "gate"] ELSE Settled(q, e)
                  [] OTHER                  -> [q EXCEPT !.screen = e.kind]

(* What a ready host goes on to instead of being shown: a Switch profile, a link's title, a stream. *)
Waiting(a, e) ==
    IF e.kind # "ready" \/ a.settings \/ a.gate # 0 THEN "nothing"
    ELSE IF a.switch = e.at THEN "switch"
    ELSE IF a.launch # None THEN "launch"
    ELSE IF a.resume # None THEN "resume" ELSE "nothing"

At(g, stage) == gates[g].stage = stage

(* The call whose gate was left goes on to its next look at this.gate. *)
Leaves(gate) ==
    [g \in DOMAIN gates |->
        IF At(g, "none") \/ g = gate THEN gates[g]
        ELSE IF gates[g].stage \in {"picks", "refused"} THEN NoGate
        ELSE [gates[g] EXCEPT !.left = TRUE]]

(* askProfile, up to the host's list. *)
AsksProfile(a, at, play) ==
    /\ \E g \in DOMAIN gates :
        /\ At(g, "none") /\ \A h \in 1..g - 1 : ~At(h, "none")
        /\ gates' = [Leaves(0) EXCEPT ![g] = [stage |-> "lists", at |-> at, play |-> play, left |-> FALSE]]
        /\ app' = [a EXCEPT !.gate = g, !.quiet = FALSE,
                            !.screen = IF a.settings THEN "settings" ELSE "gate"]
    /\ UNCHANGED timers

Render(a, e, was) ==
    LET b == Edges(a, e, was)
        waits == Waiting(b, e)
        drawn == Drawn(b, e)
    IN  CASE waits = "switch" -> AsksProfile([b EXCEPT !.switch = None], e.at, None)
          [] waits = "launch" -> AsksProfile([b EXCEPT !.launch = None], e.at, b.launch)
          [] waits = "resume" -> AsksProfile([b EXCEPT !.resume = None], e.at, b.resume)
          [] waits = "nothing" ->
                /\ app' = drawn /\ gates' = Leaves(drawn.gate)
                /\ timers' = IF e.kind = "paired" /\ ~drawn.settings THEN timers \cup {e.at} ELSE timers

Redraws(a) == Render(a, engine, engine.kind)

(* The engine's state changes, and its listener renders. *)
Goes(a, kind, at) ==
    /\ engine' = [kind |-> kind, at |-> at]
    /\ Render(a, engine', engine.kind)

Connects(a, o) == Goes(a, "connecting", o)
Disconnects(a) == Goes(a, "idle", None)

(***************************************************************************)
(* Clicks.  A sidebar is beside every page but a stream's.                 *)
(***************************************************************************)
Lists == {"home", "library"}

ConnectAddress(o) ==
    /\ app.screen = "home" /\ UNCHANGED dialled
    /\ LET a == [app EXCEPT !.quiet = FALSE, !.browse = TRUE, !.settings = FALSE]
       IN  Connects(a, o) \/ Goes(a, "bad-address", engine.at)

(* play(): of a card, or of the shelf. *)
Play(o) ==
    /\ app.screen \in Lists
    /\ IF engine = [kind |-> "ready", at |-> o] THEN AsksProfile(app, o, o) /\ UNCHANGED engine
       ELSE Connects([app EXCEPT !.quiet = FALSE, !.resume = o], o)
    /\ UNCHANGED dialled

(* openShelf *)
OpensShelf(a, o) ==
    LET b == [a EXCEPT !.tab = "library", !.settings = FALSE, !.shelf = o]
    IN  IF engine.at = o /\ engine.kind # "error" THEN Redraws(b) /\ UNCHANGED engine
        ELSE Connects([b EXCEPT !.quiet = TRUE], o)

Browse(o) == app.screen \in Lists /\ OpensShelf(app, o) /\ UNCHANGED dialled

NavigateSettings ==
    /\ app.screen # "streaming" /\ ~app.settings
    /\ Redraws([app EXCEPT !.settings = TRUE]) /\ UNCHANGED <<engine, dialled>>

(* A flow left half way is cancelled, the library's own connection kept.  A disconnected engine is
   idle, which render sees before the shelf is opened. *)
Navigate(tab) ==
    /\ app.screen # "streaming" /\ ~(app.settings /\ engine.kind = "streaming")
    /\ LET a == [app EXCEPT !.settings = FALSE, !.tab = tab, !.link = None, !.gate = 0]
           cancels == engine.kind \in Flows /\ ~(a.quiet /\ tab = "library")
           idle == Forgetful([a EXCEPT !.quiet = FALSE, !.switch = None])
       IN  CASE cancels /\ tab = "hosts"    -> Disconnects([a EXCEPT !.quiet = FALSE])
             [] cancels /\ tab = "library"  -> Connects([idle EXCEPT !.quiet = TRUE], a.shelf)
             [] ~cancels /\ tab = "hosts"   -> Redraws(a) /\ UNCHANGED engine
             [] ~cancels /\ tab = "library" -> OpensShelf(a, a.shelf)
    /\ UNCHANGED dialled

(* The settings dialog over a stream. *)
OpenSettings(on) ==
    /\ engine.kind = "streaming" /\ app.settings = ~on
    /\ Redraws([app EXCEPT !.settings = on]) /\ UNCHANGED <<engine, dialled>>

(* Try again: the stream that dropped, or what a card asked for. *)
Retry ==
    /\ app.screen \in {"error", "asks"} /\ engine.at # None
    /\ Connects([app EXCEPT !.resume = IF app.dropped # None THEN app.dropped ELSE @, !.dropped = None], engine.at)
    /\ UNCHANGED dialled

Back ==
    /\ app.screen \notin Lists \cup {"streaming", "settings", "link"} /\ UNCHANGED dialled
    /\ IF app.gate # 0 THEN Redraws([app EXCEPT !.gate = 0]) /\ UNCHANGED engine
       ELSE Disconnects(app)

SwitchProfile(o) ==
    /\ app.screen = "home" /\ UNCHANGED dialled
    /\ IF engine = [kind |-> "ready", at |-> o] THEN AsksProfile(app, o, None) /\ UNCHANGED engine
       ELSE Connects([app EXCEPT !.switch = o], o)

FollowLink(yes, launches) ==
    /\ app.screen = "link" /\ UNCHANGED dialled
    /\ LET a == [app EXCEPT !.link = None]
       IN  IF yes THEN Connects([a EXCEPT !.launch = IF launches THEN app.link ELSE None], app.link)
           ELSE app' = [a EXCEPT !.screen = "home"] /\ UNCHANGED <<engine, gates, timers>>

(***************************************************************************)
(* The profile gate.                                                       *)
(***************************************************************************)
Stage(g, stage) == gates' = [gates EXCEPT ![g].stage = stage]

(* dial(): the engine starts a stream if it is ready.  Its `starting` is rendered. *)
Dials(g) ==
    LET a == [app EXCEPT !.gate = 0, !.last = gates[g].play]
    IN  /\ gates' = [Leaves(0) EXCEPT ![g] = NoGate]
        /\ dialled' = [on |-> engine.at, of |-> gates[g]]
        /\ engine' = [engine EXCEPT !.kind = IF @ = "ready" THEN "starting" ELSE @]
        /\ app' = Drawn(Edges(a, engine', engine.kind), engine')
        /\ UNCHANGED timers

Shows(g, stage) == Stage(g, stage) /\ UNCHANGED <<engine, app, timers, dialled>>
Over(g) == gates' = [gates EXCEPT ![g] = NoGate] /\ UNCHANGED <<engine, app, timers, dialled>>

(* settleSeat, from a decision on who plays: a seat that is up, stopped, or not to be had. *)
Settles(g) == Dials(g) \/ Shows(g, "wakes") \/ Shows(g, "waits") \/ Shows(g, "refused")

(* The list came, or was late: pickerDecision. *)
Listed(g) ==
    /\ At(g, "lists")
    /\ IF app.gate # g THEN Over(g)
       ELSE IF gates[g].play = None THEN Shows(g, "picks")
       ELSE Settles(g) \/ Shows(g, "picks")

PickProfile(g) ==
    /\ At(g, "picks") /\ app.gate = g /\ app.screen = "gate"
    /\ IF gates[g].play = None THEN Redraws([app EXCEPT !.gate = 0]) /\ UNCHANGED <<engine, dialled>>
       ELSE Settles(g)

Woken(g) == At(g, "wakes") /\ IF app.gate = g THEN Shows(g, "waits") ELSE Over(g)
WakeFailed(g) == At(g, "wakes") /\ IF app.gate = g THEN Shows(g, "refused") ELSE Over(g)
SeatTimer(g) == At(g, "waits") /\ Shows(g, "polls")

SeatUpAnyway(g) == At(g, "polls") /\ Dials(g)   \* mutant
(* The seat is up, or the list dropped the profile. *)
SeatUp(g) == At(g, "polls") /\ IF app.gate = g THEN Dials(g) ELSE Over(g)
SeatRefused(g) == At(g, "polls") /\ IF app.gate = g THEN Shows(g, "refused") ELSE Over(g)
SeatNotYet(g) == At(g, "polls") /\ IF app.gate = g THEN Shows(g, "waits") ELSE Over(g)

(* The connection after a pairing, 300 ms on. *)
ReconnectTimer(o) ==
    /\ o \in timers /\ timers' = timers \ {o}
    /\ engine' = [kind |-> "connecting", at |-> o]
    /\ app' = Drawn(Edges(app, engine', engine.kind), engine') /\ gates' = Leaves(app'.gate)
    /\ UNCHANGED dialled

(***************************************************************************)
(* The engine, by itself or at a click in its own screens.                 *)
(***************************************************************************)
Follows(kind) ==
    CASE kind = "connecting" -> {"asks", "awaiting", "error", "ready"}
      [] kind = "asks"       -> {"paired", "awaiting", "error", "asks"}
      [] kind = "awaiting"   -> {"paired", "asks", "error", "streaming", "idle"}
      [] kind = "starting"   -> {"streaming", "error", "ready", "awaiting"}
      [] kind = "streaming"  -> {"error", "ready", "starting"}
      [] OTHER               -> {}
EngineGoes(kind) ==
    /\ kind \in Follows(engine.kind) \ {engine.kind}
    /\ Goes(app, kind, IF kind = "idle" THEN None ELSE engine.at) /\ UNCHANGED dialled

Click ==
    \/ \E o \in Origins : ConnectAddress(o) \/ Play(o) \/ Browse(o) \/ SwitchProfile(o)
    \/ NavigateSettings \/ Retry \/ Back
    \/ \E tab \in {"hosts", "library"} : Navigate(tab)
    \/ \E on \in BOOLEAN : OpenSettings(on)
    \/ \E yes, launches \in BOOLEAN : FollowLink(yes, launches)
    \/ \E g \in 1..MaxGates : PickProfile(g)

ByItself ==
    \/ \E g \in 1..MaxGates :
        \/ Listed(g) \/ Woken(g) \/ WakeFailed(g) \/ SeatTimer(g)
        \/ SeatUp(g) \/ SeatRefused(g) \/ SeatNotYet(g)
    \/ \E o \in Origins : ReconnectTimer(o)
    \/ \E kind \in {"asks", "awaiting", "paired", "error", "ready", "streaming", "starting", "idle"} : EngineGoes(kind)

AppNext ==
    \/ clicks > 0 /\ clicks' = clicks - 1 /\ Click
    \/ ByItself /\ UNCHANGED clicks

AppSpec == AppInit /\ [][AppNext]_appVars

(***************************************************************************)
(* Correctness.                                                            *)
(***************************************************************************)
AppTypeOK ==
    /\ engine.at \in Origins \cup {None} /\ app.shelf \in Origins
    /\ app.gate \in 0..MaxGates /\ (app.gate # 0 => ~At(app.gate, "none"))
    /\ {app.resume, app.launch, app.switch, app.dropped, app.last} \subseteq Origins \cup {None}
    /\ timers \subseteq Origins

(* A gate dials only the host it was opened for, with a stream to play, and never once it was
   left: the answers a cancelled gate still waits for start nothing (askProfile, settleSeat). *)
GateDialsItsOwn ==
    dialled # NoDial => dialled.on = dialled.of.at /\ dialled.of.play # None /\ ~dialled.of.left

(* "Stream `entry`, or the desktop, from `origin`" (play): a stream starts on the host it was
   asked of, by a card or by a link. *)
StreamsWhereAsked == dialled # NoDial => dialled.on = dialled.of.play
=============================================================================

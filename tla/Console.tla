------------------------------- MODULE Console -------------------------------
(***************************************************************************)
(* The gamepad console's page side (apps/web/src/ui/console.ts, ConsoleUi):*)
(* the steps the console asked for that wait until App shows the screen    *)
(* they need, and what the console is told of the session in return.       *)
(*                                                                         *)
(* The console in wasm raises what its screens offer, in any order; the    *)
(* screens are App's, by the moves App makes (module App).  A screen that  *)
(* is rendered from within another's render is the later one.              *)
(***************************************************************************)
EXTENDS Naturals

CONSTANTS
    Boxes,   \* hosts the console lists
    NoBox

ASSUME ConsoleAssumption == NoBox \notin Boxes

VARIABLES
    page,    \* App's screen, its host, and whether the settings cover it
    con,     \* ConsoleUi: what waits, the last screen seen; and the phase last pushed
    did      \* history: the step just done, with the host it was asked of and done on

consoleVars == <<page, con, did>>

NoAsk == [of |-> NoBox, late |-> FALSE]
NoStep == [of |-> NoBox, on |-> NoBox]
Steps == {"play", "pin", "knock"}

ConsoleInit ==
    /\ page = [screen |-> "home", at |-> NoBox, settings |-> FALSE]
    /\ con = [play |-> NoBox, pin |-> NoBox, knock |-> NoBox, asking |-> NoAsk, dialled |-> FALSE,
              fetching |-> NoBox, followed |-> "home", phase |-> "none"]
    /\ did = NoStep

(* WEB_SCREENS: the shell's sheets, drawn over the console. *)
WebScreens == {"asks", "streaming", "settings"}
Showing == ~page.settings /\ page.screen \notin WebScreens

(***************************************************************************)
(* follow: what each screen does to what waits.                            *)
(***************************************************************************)
KeepPin(c) == [c EXCEPT !.play = NoBox, !.knock = NoBox, !.asking = NoAsk]   \* mutant
DropPending(c) ==
    [c EXCEPT !.play = NoBox, !.pin = NoBox, !.knock = NoBox, !.asking = NoAsk]

Told(c, phase) == [c EXCEPT !.phase = phase]
EndTold(c) == [Told(c, "over") EXCEPT !.dialled = FALSE]

FollowHome(c, was, failed) ==
    LET b == DropPending([c EXCEPT !.fetching = IF failed THEN NoBox ELSE @])
    IN  IF was = "streaming" \/ (c.dialled /\ was # "home") THEN EndTold(b) ELSE b

FollowError(c) == Told([DropPending(c) EXCEPT !.dialled = FALSE, !.fetching = NoBox], "failed")
FollowConnecting(c) == IF c.dialled THEN Told(c, "dialling") ELSE c
FollowStreaming(c, was) == IF was = "streaming" THEN c ELSE Told(c, "streams")

(* A step that waited goes on: App answers it with a screen, from within this one's render. *)
Does(step, c, p, screen) ==
    /\ did' = [of |-> c[step], on |-> p.at] /\ page' = [p EXCEPT !.screen = screen]
    /\ con' = [c EXCEPT ![step] = NoBox]

Stays(c, p) == con' = c /\ page' = p /\ did' = NoStep

PinAnywhere(c, p) == c.pin # NoBox   \* mutant
PinIsFor(c, p) == c.pin # NoBox /\ c.pin = p.at /\ p.screen # "refused"

FollowPair(c, p) ==
    CASE PinIsFor(c, p)                      -> Does("pin", c, p, "pairing")
      [] ~PinIsFor(c, p) /\ c.knock = p.at   -> Does("knock", c, p, "waiting")
      [] ~PinIsFor(c, p) /\ c.knock # p.at   -> Stays(c, p)

(* library(): a FetchProfiles alone is answered without showing its host's shelf. *)
FollowLibrary(c, was, p) ==
    LET b == IF was = "streaming" THEN EndTold(c) ELSE c
        asked == b.asking.of = p.at
        shown == [b EXCEPT !.asking = IF asked THEN NoAsk ELSE @,
                           !.fetching = IF @ = p.at THEN NoBox ELSE @]
    IN  CASE asked /\ ~b.asking.late /\ b.play # p.at -> Stays([b EXCEPT !.asking = NoAsk], p)
          [] ~(asked /\ ~b.asking.late) /\ b.play # p.at -> Stays(shown, p)
          [] b.play = p.at -> Does("play", FollowConnecting(shown), p, "starting")

SeenAny(c, p) == [c EXCEPT !.followed = IF p.settings THEN "settings" ELSE p.screen]   \* mutant
(* The settings sheet is no step of a flow: the screen after it follows the one before it. *)
Seen(c, p) == [c EXCEPT !.followed = IF p.settings THEN @ ELSE p.screen]

(* render *)
Draws(b, p, failed) ==
    LET was == b.followed
        c == Seen(b, p)
    IN  CASE p.settings -> Stays(c, p)
          [] ~p.settings /\ p.screen \in {"pair", "refused"} -> FollowPair(c, p)
          [] ~p.settings /\ p.screen = "library" -> FollowLibrary(c, was, p)
          [] ~p.settings /\ p.screen \notin {"pair", "refused", "library"} ->
                Stays(CASE p.screen = "home"                       -> FollowHome(c, was, failed)
                        [] p.screen = "error"                      -> FollowError(c)
                        [] p.screen \in {"connecting", "starting"} -> FollowConnecting(c)
                        [] p.screen = "streaming"                  -> FollowStreaming(c, was)
                        [] OTHER                                   -> c, p)

Screen(screen, o) == [screen |-> screen, at |-> o, settings |-> FALSE]
Reaches(c, o) == Draws(c, Screen("connecting", o), FALSE)
GoesHome(c, failed) == Draws(c, Screen("home", NoBox), failed)

(***************************************************************************)
(* What the console raised: action and command.                            *)
(***************************************************************************)
Ready(o) == page.screen = "library" /\ page.at = o   \* the console has no tabs

Launch(o) ==
    IF Ready(o) THEN Draws([con EXCEPT !.dialled = TRUE], Screen("starting", o), FALSE)
    ELSE Reaches([con EXCEPT !.dialled = TRUE, !.play = o], o)

LaunchAsking(o) == Reaches([con EXCEPT !.dialled = TRUE, !.knock = o], o)

FetchLibrary(o) ==
    IF Ready(o) THEN FollowLibrary(con, "library", page) ELSE Reaches([con EXCEPT !.fetching = o], o)

(* Pair and RequestAccess: on the host's own pairing screen, or once it is there. *)
AsksHost(step, o) ==
    IF page.at = o /\ page.screen \in {"pair", "refused", "pairing"}
    THEN LET screen == IF page.screen = "refused" THEN "connecting" ELSE IF step = "pin" THEN "pairing" ELSE "waiting"
         IN  Draws(con, Screen(screen, o), FALSE)
    ELSE Reaches([con EXCEPT ![step] = o], o)

SaveHost(o) == Reaches(con, o) \/ GoesHome(con, TRUE)
ForgetHost(o) == page.at = o /\ GoesHome(con, FALSE)

FetchProfiles(o) == ~Ready(o) /\ Reaches([con EXCEPT !.asking = [of |-> o, late |-> FALSE]], o)

CancelConnect == GoesHome([DropPending(con) EXCEPT !.dialled = FALSE], FALSE)

Raised ==
    /\ Showing
    /\ \/ CancelConnect
       \/ \E o \in Boxes :
            \/ Launch(o) \/ LaunchAsking(o) \/ FetchLibrary(o) \/ FetchProfiles(o)
            \/ SaveHost(o) \/ ForgetHost(o)
            \/ \E step \in {"pin", "knock"} : AsksHost(step, o)

(* The console's own wait for its profiles, PROFILES_WAIT_MS, is over. *)
AskIsLate ==
    /\ con.asking.of # NoBox /\ ~con.asking.late
    /\ con' = [con EXCEPT !.asking.late = TRUE] /\ did' = NoStep /\ UNCHANGED page

(***************************************************************************)
(* App's screens, by themselves or by a click in a sheet of the shell.  A  *)
(* stream that is left while it starts is a set's, put away (watchSleep).  *)
(***************************************************************************)
MovesOn(screen) ==
    CASE screen = "connecting" -> {"pair", "pairing", "waiting", "asks", "error", "library"}
      [] screen = "asks"       -> {"connecting", "home"}
      [] screen = "pairing"    -> {"connecting", "refused", "error"}
      [] screen = "waiting"    -> {"connecting", "streaming", "refused", "error"}
      [] screen = "starting"   -> {"streaming", "waiting", "error", "library"}
      [] screen = "streaming"  -> {"starting", "error", "library", "home"}
      [] screen = "library"    -> {"library"}
      [] OTHER                 -> {}

(* The settings close with the stream they cover. *)
ScreenMoves ==
    \E screen \in MovesOn(page.screen) :
        Draws(con, [screen |-> screen, at |-> IF screen = "home" THEN NoBox ELSE page.at,
                    settings |-> page.settings /\ screen \in {"starting", "streaming"}], FALSE)

SettingsOver ==
    /\ page.screen = "streaming" \/ page.settings
    /\ Draws(con, [page EXCEPT !.settings = ~@], FALSE)

ConsoleNext == Raised \/ AskIsLate \/ ScreenMoves \/ SettingsOver
ConsoleSpec == ConsoleInit /\ [][ConsoleNext]_consoleVars

(***************************************************************************)
(* Correctness.                                                            *)
(***************************************************************************)
ConsoleTypeOK ==
    /\ page.at \in Boxes \cup {NoBox} /\ page.settings \in BOOLEAN
    /\ {con.play, con.pin, con.knock, con.asking.of, con.fetching} \subseteq Boxes \cup {NoBox}

(* A title, a PIN or a request for access goes to the host it was asked of alone, however the
   screens come; and "a later visit to that host does not play, pair or knock unasked"
   (dropPending): none waits past the connect that failed or was left. *)
NothingUnasked ==
    /\ did.of = did.on
    /\ page.screen \in {"home", "error"} => \A step \in Steps : con[step] = NoBox

(* The console is off screen for a stream: it hears how each that it was shown ended, whatever
   sheet lay over the stream, or it would stay hidden over nothing. *)
StreamsEndHeard ==
    [][page.screen = "streaming" /\ page'.screen \notin {"streaming", "starting"}
         => con'.phase \in {"over", "failed"}]_consoleVars
=============================================================================

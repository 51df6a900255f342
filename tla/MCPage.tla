------------------------------- MODULE MCPage -------------------------------
(* What the page and its server keep and decide, side by side: the web app, its lists and who plays;
   the management tunnel, the settings, the pass and the server's passes and meter; the keyboard
   and the pointer; and the gamepad console with its wake card, its sweeps and its fields.  A
   behaviour is one of them, picked at the start; the others stay at one of their first states. *)
EXTENDS App, Shelf, WhoPlays, Tunnel, Prefs, PagePass, Passes, Meter, Keyboard, Cursor,
        Console, WakeCard, Sweep, Field

VARIABLE part

screenVars == <<appVars, shelfVars, whoVars>>
keptVars == <<tunnelVars, prefsVars, pagePassVars>>
serverVars == <<passesVars, meterVars>>
inputVars == <<keyboardVars, cursorVars>>
tvVars == <<consoleVars, wakeVars, sweepVars, fieldVars>>
vars == <<part, screenVars, keptVars, serverVars, inputVars, tvVars>>

OnScreen == {"app", "shelf", "who"}
InBrowser == {"tunnel", "prefs", "pass"}
OnServer == {"passes", "meter"}
Input == {"keyboard", "cursor"}
OnTv == {"console", "wake", "sweep", "field"}

Init ==
    /\ part \in OnScreen \cup InBrowser \cup OnServer \cup Input \cup OnTv
    /\ AppInit /\ ShelfInit /\ WhoInit
    /\ TunnelInit /\ PrefsInit /\ PagePassInit /\ PassesInit /\ MeterInit
    /\ KeyboardInit /\ CursorInit
    /\ ConsoleInit /\ WakeCardInit /\ SweepInit /\ FieldInit
    /\ (part # "app" => app.link = None) /\ (part # "who" => box.old = NoProfile /\ box.up = {})
    /\ (part # "prefs" => store = Nowhere /\ DEFAULTS = CHOOSE d \in Settings : TRUE)
    /\ (part # "sweep" => storage /\ tab.full)

ScreenNext ==
    \/ part = "app" /\ AppNext /\ UNCHANGED <<shelfVars, whoVars>>
    \/ part = "shelf" /\ ShelfNext /\ UNCHANGED <<appVars, whoVars>>
    \/ part = "who" /\ WhoNext /\ UNCHANGED <<appVars, shelfVars>>

BrowserNext ==
    \/ part = "tunnel" /\ TunnelNext /\ UNCHANGED <<prefsVars, pagePassVars>>
    \/ part = "prefs" /\ PrefsNext /\ UNCHANGED <<tunnelVars, pagePassVars>>
    \/ part = "pass" /\ PagePassNext /\ UNCHANGED <<tunnelVars, prefsVars>>

ServerNext ==
    \/ part = "passes" /\ PassesNext /\ UNCHANGED meterVars
    \/ part = "meter" /\ MeterNext /\ UNCHANGED passesVars

InputNext ==
    \/ part = "keyboard" /\ KeyboardNext /\ UNCHANGED cursorVars
    \/ part = "cursor" /\ CursorNext /\ UNCHANGED keyboardVars

TvNext ==
    \/ part = "console" /\ ConsoleNext /\ UNCHANGED <<wakeVars, sweepVars, fieldVars>>
    \/ part = "wake" /\ WakeCardNext /\ UNCHANGED <<consoleVars, sweepVars, fieldVars>>
    \/ part = "sweep" /\ SweepNext /\ UNCHANGED <<consoleVars, wakeVars, fieldVars>>
    \/ part = "field" /\ FieldNext /\ UNCHANGED <<consoleVars, wakeVars, sweepVars>>

Next ==
    \/ part \in OnScreen /\ ScreenNext /\ UNCHANGED <<part, keptVars, serverVars, inputVars, tvVars>>
    \/ part \in InBrowser /\ BrowserNext /\ UNCHANGED <<part, screenVars, serverVars, inputVars, tvVars>>
    \/ part \in OnServer /\ ServerNext /\ UNCHANGED <<part, screenVars, keptVars, inputVars, tvVars>>
    \/ part \in Input /\ InputNext /\ UNCHANGED <<part, screenVars, keptVars, serverVars, tvVars>>
    \/ part \in OnTv /\ TvNext /\ UNCHANGED <<part, screenVars, keptVars, serverVars, inputVars>>

Spec == Init /\ [][Next]_vars

TypeOK ==
    /\ AppTypeOK /\ ShelfTypeOK /\ WhoTypeOK
    /\ TunnelTypeOK /\ PrefsTypeOK /\ PagePassTypeOK /\ PassesTypeOK
    /\ KeyboardTypeOK /\ CursorTypeOK
    /\ ConsoleTypeOK /\ WakeCardTypeOK /\ SweepTypeOK /\ FieldTypeOK

(* What the page does is what was asked: a gate dials its own host, an open shelf has its own
   host's titles, a console plays only what was picked on it, and nobody plays as another. *)
AsAsked == GateDialsItsOwn /\ ShelfShowsItsOwn /\ NothingUnasked /\ PlaysAsChosen

(* The console on a TV says what is: one wake at a time, a sweep's rows as they were drawn, and a
   field as the player typed it. *)
TvInOrder == OneWakeTicks /\ SweepSaysWhatItDrew /\ FieldReachesConsole

(* What is kept is what was given: a pass with the hosts it was proven to, in the browser and on the
   server, and of the settings only what was picked. *)
KeptAsGiven == ShowsWhatWasProven /\ CoversWhatWasProven /\ DefaultsReach
=============================================================================

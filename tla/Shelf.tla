-------------------------------- MODULE Shelf --------------------------------
(***************************************************************************)
(* The lists of the web page (apps/web/src/app.ts): the library of the     *)
(* host that is ready, the poll of its running title, End game, the sheet  *)
(* of host actions, and the title a live stream plays.  Each is asked of a *)
(* host, and the answer may come when the page shows another.              *)
(*                                                                         *)
(* App has what is clicked to get to a host; here the engine goes from     *)
(* host to host, and a render may come at any time.                        *)
(***************************************************************************)
EXTENDS Integers, FiniteSets

CONSTANTS
    Shelves,   \* hosts paired with
    Nobody,    \* no host
    MaxAsked   \* bound: answers to clicks waited for at once

ASSUME ShelfAssumption == Nobody \notin Shelves /\ MaxAsked \in Nat \ {0}

VARIABLES
    host,       \* the engine: ready, streaming, away or idle, and its host
    library,    \* App: titles, the poll of the running one, End game's notice
    sheet,      \* App.tools: closed or open; what it shows is left out
    streamGame, \* App.streamGame: a title End game may end is known
    replies     \* what the page waits for

shelfVars == <<host, library, sheet, streamGame, replies>>

NoLibrary == [of |-> Nobody, loading |-> FALSE, titles |-> Nobody, running |-> Nobody,
              notice |-> Nobody, polling |-> Nobody, timer |-> Nobody]

ShelfInit ==
    /\ host = [kind |-> "idle", at |-> Nobody]
    /\ library = NoLibrary /\ sheet = "closed" /\ streamGame = FALSE /\ replies = {}

Is(kind, o) == host = [kind |-> kind, at |-> o]

(* An answer whose host makes no difference to what it does here is nobody's. *)
Reply(what, of) == [what |-> what, of |-> of]
Polls == {"titles", "status"}
Ask(asked) ==
    /\ replies' = replies \cup asked
    /\ Cardinality({r \in replies' : r.what \notin Polls}) <= MaxAsked
Arrives(what, o) == Reply(what, o) \in replies /\ replies' = replies \ {Reply(what, o)}

(***************************************************************************)
(* The engine, and what render does with its state.                        *)
(***************************************************************************)

(* Any connect, stream, end or failure; off a stream, the title it played is dropped; idle stops
   the poll. *)
HostGoes(kind, o) ==
    /\ host' = [kind |-> kind, at |-> o] /\ host' # host
    /\ kind = "streaming" => Is("ready", o)
    /\ (kind = "idle") = (o = Nobody)
    /\ streamGame' = (streamGame /\ kind = "streaming")
    /\ library' = IF kind = "idle" THEN [library EXCEPT !.polling = Nobody, !.timer = Nobody] ELSE library
    /\ UNCHANGED <<sheet, replies>>

(* watchRunning: the poll moves here, and the one before it is stopped. *)
Watched(l, o) == IF l.polling = o THEN l ELSE [l EXCEPT !.polling = o, !.timer = Nobody]

(* render of a ready host in the Library tab: openLibrary for another host or after LIBRARY_TTL_MS,
   and watchRunning.  Another host's is cleared first, its sheet with it. *)
ShowShelf(o, stale) ==
    /\ Is("ready", o)
    /\ LET l == IF library.of = o THEN library ELSE [NoLibrary EXCEPT !.of = o]
           reads == library.of # o \/ (~library.loading /\ stale)
       IN  /\ library' = Watched([l EXCEPT !.loading = @ \/ reads], o)
           /\ sheet' = IF library.of = o THEN sheet ELSE "closed"
           /\ Ask((IF reads THEN {Reply("titles", o)} ELSE {}) \cup
                  (IF l.polling = o THEN {} ELSE {Reply("status", o)}))
    /\ UNCHANGED <<host, streamGame>>

(* openLibrary goes on: the titles, or why not. *)
TitlesCame(o) ==
    /\ Arrives("titles", o)
    /\ \E read \in BOOLEAN :
        library' = IF library.of # o THEN library
                   ELSE [library EXCEPT !.loading = FALSE, !.titles = IF read THEN o ELSE @]
    /\ UNCHANGED <<host, sheet, streamGame>>

StatusOfAny(o) ==   \* mutant: the answer is taken whoever the poll is with
    /\ Arrives("status", o)
    /\ \E running \in {o, Nobody, library.running} : library' = [library EXCEPT !.running = running, !.timer = o]
    /\ UNCHANGED <<host, sheet, streamGame>>
(* The poll goes on: another shelf took it, or what runs, or no answer. *)
StatusCame(o) ==
    /\ Arrives("status", o)
    /\ \/ library.polling # o /\ UNCHANGED library
       \/ \E running \in {o, Nobody, library.running} :
            /\ library.polling = o \/ running = library.running
            /\ library' = [library EXCEPT !.running = running, !.timer = o]
    /\ UNCHANGED <<host, sheet, streamGame>>

(* Five seconds on.  Off its ready host the poll ends. *)
PollTimer ==
    /\ library.timer # Nobody
    /\ LET o == library.timer
           ends == ~Is("ready", o)
       IN  /\ library' = [library EXCEPT !.timer = Nobody, !.polling = IF ends /\ @ = o THEN Nobody ELSE @]
           /\ Ask(IF ends THEN {} ELSE {Reply("status", o)})
    /\ UNCHANGED <<host, sheet, streamGame>>

(* forget(): the host's library goes, and the engine off it. *)
Forget(o) ==
    /\ library' = IF library.of = o THEN NoLibrary ELSE library
    /\ sheet' = IF library.of = o THEN "closed" ELSE sheet
    /\ host' = IF host.at = o THEN [kind |-> "idle", at |-> Nobody] ELSE host
    /\ streamGame' = (streamGame /\ host.at # o)
    /\ UNCHANGED replies

(***************************************************************************)
(* End game, the sheet, and the stream's menu.                             *)
(***************************************************************************)

(* endGame on the shelf: the title shown as running.  `said` keeps the shelf it was asked on. *)
EndGame(o) ==
    /\ Is("ready", o) /\ library.running # Nobody /\ Ask({Reply("ended", library.of)})
    /\ UNCHANGED <<host, library, sheet, streamGame>>
Ended(o) ==
    /\ Arrives("ended", o)
    /\ \E gone \in BOOLEAN :
        library' = IF library.of # o THEN library
                   ELSE [library EXCEPT !.notice = o, !.running = IF gone THEN Nobody ELSE @]
    /\ UNCHANGED <<host, sheet, streamGame>>

(* openTools: the sheet opens empty, and asks the shelf's host if it is ready. *)
OpenTools(on) ==
    /\ on = (sheet = "closed") /\ sheet' = IF on THEN "open" ELSE "closed"
    /\ Ask(IF on /\ host.kind = "ready" THEN {Reply("tools", Nobody)} ELSE {})
    /\ UNCHANGED <<host, library, streamGame>>
(* hostAction, sendLog: the open sheet waits for the host again. *)
UseTools ==
    /\ sheet = "open" /\ host.kind = "ready" /\ Ask({Reply("tools", Nobody)})
    /\ UNCHANGED <<host, library, sheet, streamGame>>
(* setTools: a sheet that was closed stays closed. *)
ToolsCame == Arrives("tools", Nobody) /\ UNCHANGED <<host, library, sheet, streamGame>>

(* findStreamGame, from the menu; its end renders, which drops it off a stream. *)
FindGame ==
    /\ host.kind = "streaming" /\ Ask({Reply("game", Nobody)})
    /\ UNCHANGED <<host, library, sheet, streamGame>>
GameCame ==
    /\ Arrives("game", Nobody)
    /\ \E plays \in BOOLEAN : streamGame' = (plays /\ host.kind = "streaming")
    /\ UNCHANGED <<host, library, sheet>>
EndStreamGame ==
    /\ host.kind = "streaming" /\ streamGame /\ Ask({Reply("gone", Nobody)})
    /\ UNCHANGED <<host, library, sheet, streamGame>>
(* A game that is gone ends the stream: engine.leave. *)
StreamGameEnded ==
    /\ Arrives("gone", Nobody)
    /\ \E gone \in BOOLEAN :
        /\ host' = IF gone /\ host.kind # "idle" THEN [host EXCEPT !.kind = "ready"] ELSE host
        /\ streamGame' = (streamGame /\ ~gone)
    /\ UNCHANGED <<library, sheet>>

ShelfNext ==
    \/ \E kind \in {"ready", "streaming", "away", "idle"}, o \in Shelves \cup {Nobody} : HostGoes(kind, o)
    \/ \E o \in Shelves, stale \in BOOLEAN : ShowShelf(o, stale)
    \/ \E o \in Shelves :
        \/ TitlesCame(o) \/ StatusCame(o) \/ EndGame(o) \/ Ended(o) \/ Forget(o)
    \/ \E on \in BOOLEAN : OpenTools(on)
    \/ PollTimer \/ UseTools \/ ToolsCame \/ FindGame \/ GameCame \/ EndStreamGame \/ StreamGameEnded

ShelfSpec == ShelfInit /\ [][ShelfNext]_shelfVars

(***************************************************************************)
(* Correctness.                                                            *)
(***************************************************************************)
ShelfTypeOK ==
    /\ host.kind \in {"ready", "streaming", "away", "idle"} /\ host.at \in Shelves \cup {Nobody}
    /\ {library.of, library.titles, library.running, library.polling} \subseteq Shelves \cup {Nobody}
    /\ sheet \in {"closed", "open"}

(* Titles, the running title and what End game said are of the one host the library is of,
   whatever was still asked of another (openLibrary, watchRunning, endGame). *)
ShelfShowsItsOwn == {library.titles, library.running, library.notice} \subseteq {Nobody, library.of}
=============================================================================

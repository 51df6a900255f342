-------------------------------- MODULE Cursor --------------------------------
(***************************************************************************)
(* The host's pointer, worn as the page's own cursor                       *)
(* (packages/stream/src/cursor.ts, and pf_cursor_render and                *)
(* on_cursor_state of rust/session.rs).  The page says who draws it        *)
(* whenever that changes; the host draws it into the picture, or not, when *)
(* the word gets there.                                                    *)
(***************************************************************************)
EXTENDS Naturals, Sequences

CONSTANTS MaxStreams, MaxFlips   \* bounds: sessions, and changes of mode in one

ASSUME CursorAssumption == {MaxStreams, MaxFlips} \subseteq Nat

VARIABLES
    stream,    \* what tick is given: the session's grant, whether the page drives the pointer,
               \* the mode, the lock; and the bounds' counters
    draws,     \* the host: whether it draws the pointer, and whether a program hides it
    words,     \* CursorRenderMode messages under way
    wear       \* HostCursor: what was sent last, the canvas's cursor, a shape to wear; what it
               \* heard of the host's pointer; and whether a frame passed since the mode changed

cursorVars == <<stream, draws, words, wear>>

NoStream == [on |-> FALSE, forwards |-> FALSE, input |-> FALSE, desktop |-> TRUE, locked |-> FALSE,
             streams |-> 0, flips |-> 0]
Unworn == [sent |-> "nothing", css |-> "arrow", shape |-> FALSE, heard |-> "nothing", ticked |-> FALSE]

CursorInit ==
    /\ stream = NoStream
    /\ draws = [it |-> TRUE, hidden |-> FALSE] /\ words = <<>> /\ wear = Unworn

(* A host that forwards its pointer leaves it out of the picture until it is told. *)
StreamBegins ==
    /\ ~stream.on /\ stream.streams < MaxStreams
    /\ \E forwards \in BOOLEAN :
        /\ stream' = [stream EXCEPT !.on = TRUE, !.forwards = forwards, !.input = FALSE, !.locked = FALSE,
                                    !.flips = 0, !.streams = @ + 1]
        /\ draws' = [it |-> ~forwards, hidden |-> FALSE]
    /\ words' = <<>> /\ UNCHANGED wear

ForgetsNothing == [wear EXCEPT !.heard = "nothing", !.shape = FALSE]   \* mutant
Forgotten == Unworn
(* reset, from stopSession: the pointer's lock goes too. *)
StreamStops ==
    /\ stream.on /\ stream' = [stream EXCEPT !.on = FALSE, !.input = FALSE, !.locked = FALSE]
    /\ wear' = Forgotten /\ UNCHANGED <<draws, words>>

(* The input pipe attaches, the pointer is locked or let go, the mode is changed. *)
Flips ==
    /\ stream.on /\ stream.flips < MaxFlips
    /\ \E input \in {TRUE, stream.input}, desktop, locked \in BOOLEAN :
        /\ locked => input
        /\ stream' = [stream EXCEPT !.input = input, !.desktop = desktop, !.locked = locked, !.flips = @ + 1]
    /\ wear' = [wear EXCEPT !.ticked = FALSE] /\ UNCHANGED <<draws, words>>

(* css: nothing heard yet is the arrow, rather than no pointer at all. *)
Css ==
    CASE wear.heard = "nothing" -> "arrow"
      [] wear.heard = "hidden"  -> "none"
      [] wear.heard = "visible" -> IF wear.shape THEN "shape" ELSE "arrow"

DrawsDesktop == IF stream.input /\ stream.desktop /\ ~stream.locked THEN "page" ELSE "host"   \* mutant
Drawer == IF stream.input /\ ~stream.locked THEN "page" ELSE "host"

(* tick, once a frame.  Capture mode before the lock takes the arrow. *)
CursorTick ==
    /\ stream.on
    /\ LET says == stream.forwards /\ wear.sent # Drawer
       IN  /\ words' = IF says THEN Append(words, Drawer) ELSE words
           /\ wear' = [wear EXCEPT !.sent = IF says THEN Drawer ELSE @, !.ticked = TRUE,
                        !.css = CASE ~(stream.input /\ stream.desktop /\ ~stream.locked) -> "arrow"
                                  [] stream.input /\ stream.desktop /\ ~stream.locked ->
                                        IF stream.forwards THEN Css ELSE "none"]
    /\ UNCHANGED <<stream, draws>>

(* The host. *)
WordArrives ==
    /\ words # <<>> /\ words' = Tail(words) /\ draws' = [draws EXCEPT !.it = Head(words) = "host"]
    /\ UNCHANGED <<stream, wear>>
HostHides == stream.on /\ draws' = [draws EXCEPT !.hidden = ~@] /\ UNCHANGED <<stream, words, wear>>
(* on_cursor_state, of a host that forwards; and the bitmap, before it or after. *)
StateComes ==
    /\ stream.on /\ stream.forwards
    /\ wear' = [wear EXCEPT !.heard = IF draws.hidden THEN "hidden" ELSE "visible", !.ticked = FALSE]
    /\ UNCHANGED <<stream, draws, words>>
ShapeComes ==
    /\ stream.on /\ stream.forwards /\ wear' = [wear EXCEPT !.shape = TRUE, !.ticked = FALSE]
    /\ UNCHANGED <<stream, draws, words>>

CursorNext ==
    \/ StreamBegins \/ StreamStops \/ Flips \/ CursorTick
    \/ WordArrives \/ HostHides \/ StateComes \/ ShapeComes

CursorSpec == CursorInit /\ [][CursorNext]_cursorVars

CursorTypeOK ==
    /\ wear.css \in {"arrow", "none", "shape"} /\ wear.sent \in {"page", "host", "nothing"}
    /\ stream.flips \in 0..MaxFlips /\ stream.streams \in 0..MaxStreams

CursorSettled == stream.on /\ wear.ticked /\ words = <<>>
PageShows == ~stream.locked /\ wear.css # "none"
(* "One pointer on screen, never two" (cursor.ts), and never none that the host shows: once a frame
   has passed and the host has heard, the picture has a pointer exactly where the page has none of
   its own.  Over a host that always draws it, capture mode takes the arrow until the lock. *)
OnePointer ==
    /\ CursorSettled /\ stream.input /\ (stream.forwards \/ stream.desktop \/ stream.locked)
        => ~(PageShows /\ draws.it) /\ (PageShows \/ draws.it \/ wear.heard = "hidden")
    /\ CursorSettled /\ ~stream.input => draws.it
=============================================================================

------------------------------ MODULE WindowSize ------------------------------
(***************************************************************************)
(* The stream that follows the window (apps/web/src/app.ts, watchSize; the *)
(* engine's reconfigure).  A window that changed and then sat still for    *)
(* RESIZE_DEBOUNCE_MS asks the host for its size; the host rebuilds its    *)
(* capture, and the size of the pictures, which the page compares with, is *)
(* the old one until it has.                                               *)
(***************************************************************************)
EXTENDS Naturals, Sequences

CONSTANTS
    Sizes,
    MaxResizes,      \* bound: changes of the window
    MaxStarts      \* bound: streams

ASSUME WindowAssumption == Sizes # {} /\ {MaxResizes, MaxStarts} \subseteq Nat

VARIABLES
    window,      \* its size, and how often it may still change
    follow,      \* prefs.resizeStream, of no fixed resolution
    live,        \* the stream: starting, on or off, the pictures' size, and how many may still start
    resize,      \* whether resizeTimer runs, and the size it was last armed for
    asked,       \* reconfigures on their way
    mid          \* history: the last change of the window fell into a rebuild, or a start

windowVars == <<window, follow, live, resize, asked, mid>>

WindowInit ==
    /\ \E s \in Sizes : window = [size |-> s, left |-> MaxResizes]
                        /\ live = [is |-> "off", size |-> s, left |-> MaxStarts]
                        /\ resize = [runs |-> FALSE, size |-> s]
    /\ follow \in BOOLEAN /\ asked = <<>> /\ mid = FALSE

(* The ResizeObserver. *)
Resizes ==
    \E s \in Sizes \ {window.size} :
        /\ window.left > 0 /\ window' = [size |-> s, left |-> window.left - 1]
        /\ resize' = IF follow /\ live.is = "on" /\ s # live.size THEN [runs |-> TRUE, size |-> s] ELSE resize
        /\ mid' = (asked # <<>> \/ live.is = "starts") /\ UNCHANGED <<follow, live, asked>>

SizeArmed == resize.size   \* mutant: no second look after the wait
SizeNow == window.size

ResizeTimer ==
    /\ resize.runs /\ resize' = [resize EXCEPT !.runs = FALSE]
    /\ asked' = IF live.is = "on" /\ SizeNow # live.size THEN Append(asked, SizeNow) ELSE asked
    /\ UNCHANGED <<window, follow, live, mid>>

(* The host, in its own time. *)
HostRebuilds ==
    /\ asked # <<>> /\ asked' = Tail(asked) /\ live' = [live EXCEPT !.size = Head(asked)]
    /\ UNCHANGED <<window, follow, resize, mid>>

(* A stream starts at the window's size, and ends; a timer that runs is left. *)
StreamStarts ==
    /\ live.is = "off" /\ live.left > 0
    /\ live' = [is |-> "starts", size |-> window.size, left |-> live.left - 1] /\ mid' = FALSE
    /\ UNCHANGED <<window, follow, resize, asked>>
StreamIsOn == live.is = "starts" /\ live' = [live EXCEPT !.is = "on"] /\ UNCHANGED <<window, follow, resize, asked, mid>>
StreamIsOff ==
    /\ live.is # "off" /\ live' = [live EXCEPT !.is = "off"] /\ asked' = <<>>
    /\ UNCHANGED <<window, follow, resize, mid>>

WindowNext == Resizes \/ ResizeTimer \/ HostRebuilds \/ StreamStarts \/ StreamIsOn \/ StreamIsOff

(* A timer fires, and a host answers a Reconfigure. *)
WindowFair == WF_windowVars(ResizeTimer) /\ WF_windowVars(HostRebuilds)

WindowSpec == WindowInit /\ [][WindowNext]_windowVars /\ WindowFair

WindowTypeOK == {window.size, live.size, resize.size} \subseteq Sizes /\ live.is \in {"off", "starts", "on"}

On == follow /\ live.is = "on"
(* "Follow the window, when asked to" (watchSize): however a window was dragged, left and came back,
   the stream ends at its size.  One whose last change fell into a rebuild or a start is excepted,
   for that change is never looked at again: the pictures had the window's size when it came, or
   there were none yet. *)
StillIsFollowed == (On /\ ~mid) ~> (live.size = window.size \/ ~On \/ mid)
=============================================================================

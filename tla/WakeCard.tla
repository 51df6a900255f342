------------------------------ MODULE WakeCard -------------------------------
(***************************************************************************)
(* The wake card of the gamepad console (apps/web/src/ui/console.ts:       *)
(* startWake, endWake): an interval keeps it current until the host is up, *)
(* the time is over or the console cancels.  App.wake's answer comes back  *)
(* later, and a card that said "online" is taken down by a timer.          *)
(***************************************************************************)
EXTENDS Naturals, Sequences

CONSTANTS
    Sleepers,   \* hosts that can be woken
    MaxWakes    \* bound: wakes asked for

ASSUME WakeCardAssumption == Sleepers # {} /\ MaxWakes \in Nat

VARIABLES
    wake,       \* ConsoleUi.waking: 0, or which of `wakes`
    wakes,      \* the wakes begun: host, then_connect
    woken,      \* ConsoleUi.hosts that are up
    ticking,    \* intervals that run, by the wake that set them
    sending,    \* wakes App has not answered
    closing,    \* 1500 ms timers
    card        \* the console's wake card: none, or of which wake and what it says

wakeVars == <<wake, wakes, woken, ticking, sending, closing, card>>

NoCard == [of |-> 0, says |-> "nothing"]

WakeCardInit ==
    /\ wake = 0 /\ wakes = <<>> /\ woken = {} /\ ticking = {} /\ sending = {} /\ closing = {}
    /\ card = NoCard

TimersRun == ticking   \* mutant
(* endWake *)
TimersLeft == ticking \ {wake}

WakeGone == wake' = 0 /\ ticking' = TimersLeft /\ card' = NoCard
EndsWake == WakeGone /\ UNCHANGED <<wakes, woken>>

(* tick, of interval i of those in `list`: it reads the wake that is on, w.  The console draws the
   card of the wake it asked for last. *)
Ticks(i, w, list, runs) ==
    \E says \in IF list[w].at \in woken THEN {"online"} ELSE {"waits", "timed out"} :
        /\ card' = IF i = Len(list) THEN [of |-> i, says |-> says] ELSE card
        /\ ticking' = IF says = "waits" THEN runs ELSE runs \ {w}
        /\ closing' = IF says = "online" /\ ~list[i].then THEN closing \cup {w} ELSE closing

(* The first tick finds no time passed. *)
StartWake(o, then) ==
    LET n == Len(wakes) + 1
        list == Append(wakes, [at |-> o, then |-> then])
    IN  /\ n <= MaxWakes /\ wakes' = list /\ wake' = n /\ sending' = sending \cup {n}
        /\ Ticks(n, n, list, TimersLeft \cup {n}) /\ card'.says # "timed out" /\ UNCHANGED woken

Tick(i) ==
    /\ i \in ticking /\ wake # 0 /\ Ticks(i, wake, wakes, ticking)
    /\ UNCHANGED <<wake, wakes, woken, sending>>

(* App.wake's answer, with its toast when nothing went out. *)
WakeSent(i) ==
    /\ i \in sending /\ sending' = sending \ {i}
    /\ UNCHANGED <<wake, wakes, woken, ticking, closing, card>>

WakeNotSent(i) ==
    /\ i \in sending /\ sending' = sending \ {i} /\ UNCHANGED closing
    /\ IF wake = i THEN EndsWake ELSE UNCHANGED <<wake, wakes, woken, ticking, card>>

(* The timer of a wake that is over ends whichever wake is on. *)
CardTimer(i) == i \in closing /\ closing' = closing \ {i} /\ EndsWake /\ UNCHANGED sending

CancelWake == wake # 0 /\ EndsWake /\ UNCHANGED <<sending, closing>>

HostUp(o) == woken' = woken \cup {o} /\ UNCHANGED <<wake, wakes, ticking, sending, closing, card>>

WakeCardNext ==
    \/ \E o \in Sleepers, then \in BOOLEAN : StartWake(o, then)
    \/ \E i \in 1..Len(wakes) : Tick(i) \/ WakeSent(i) \/ WakeNotSent(i) \/ CardTimer(i)
    \/ CancelWake \/ \E o \in Sleepers : HostUp(o)

WakeCardSpec == WakeCardInit /\ [][WakeCardNext]_wakeVars

(***************************************************************************)
(* Correctness.                                                            *)
(***************************************************************************)
WakeCardTypeOK == wake \in 0..Len(wakes) /\ ticking \cup sending \cup closing \subseteq 1..Len(wakes)

(* One wake at a time ticks, while it is on, and the card is its own: an interval left running
   would draw its host over another's, and stop the other's. *)
OneWakeTicks == ticking \subseteq {wake} \ {0} /\ card.of = wake
=============================================================================

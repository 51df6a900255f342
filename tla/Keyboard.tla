------------------------------ MODULE Keyboard ------------------------------
(***************************************************************************)
(* Keys, mouse buttons and fingers of packages/stream/src/input.ts: what   *)
(* InputPipe says the host holds, against what the person holds.  Events   *)
(* come while the window has the focus, to the picture or to a local field *)
(* or menu of the page; on macOS the release of a key pressed under Meta   *)
(* never comes.                                                            *)
(***************************************************************************)
EXTENDS Integers, FiniteSets

CONSTANTS
    Letters, META,   \* keys, the Meta keys apart
    Buttons,         \* of the mouse
    Fingers          \* pointers of type touch, by pointerId

ASSUME KeyboardAssumption == Letters \cap META = {} /\ IsFiniteSet(Fingers)

VARIABLES
    focus,       \* picture, local (a field, the menu) or away
    person,      \* what the person holds: keys, those pressed under Meta, buttons
    pipe,        \* InputPipe: keys, underMeta, held
    touches,     \* InputPipe.touches: the slots of the fingers down
    missed       \* history: a Meta release the pipe passed over, as the page's own

keyboardVars == <<focus, person, pipe, touches, missed>>

KeyboardInit ==
    /\ focus = "picture"
    /\ person = [keys |-> {}, underMeta |-> {}, buttons |-> {}]
    /\ pipe = [keys |-> {}, underMeta |-> {}, held |-> {}]
    /\ touches = [f \in {} |-> 0] /\ missed = FALSE

AllKeys == Letters \cup META
UnderMeta == person.keys \cap META # {}

(* A chord is the page's: it is not sent. *)
KeyDown(k, chord) ==
    /\ k \notin person.keys /\ (chord => k \in Letters)
    /\ person' = [person EXCEPT !.keys = @ \cup {k},
                                !.underMeta = IF UnderMeta /\ k \in Letters THEN @ \cup {k} ELSE @ \ {k}]
    /\ pipe' = IF focus # "picture" \/ chord THEN pipe
               ELSE [pipe EXCEPT !.keys = @ \cup {k},
                                 !.underMeta = IF UnderMeta /\ k \in Letters THEN @ \cup {k} ELSE @]
    /\ UNCHANGED <<focus, touches, missed>>

UpAlone(k) == [pipe EXCEPT !.keys = @ \ {k}, !.underMeta = @ \ {k}]   \* mutant
(* up(): with a Meta key go the keys pressed under one. *)
Up(k) ==
    LET under == IF k \in META THEN pipe.underMeta ELSE {}
    IN  [pipe EXCEPT !.keys = @ \ ({k} \cup under), !.underMeta = @ \ ({k} \cup under)]

KeyUp(k, comes, chord) ==
    /\ k \in person.keys /\ (comes \/ (k \in person.underMeta /\ UnderMeta)) /\ (chord => k \in Letters)
    /\ person' = [person EXCEPT !.keys = @ \ {k}, !.underMeta = @ \ {k}]
    /\ LET ups == comes /\ focus # "away" /\ (k \in pipe.keys \/ (focus = "picture" /\ ~chord))
       IN  /\ pipe' = IF ups THEN Up(k) ELSE pipe
           /\ missed' = IF k \notin META THEN missed ELSE (focus = "local" /\ ~ups)
    /\ UNCHANGED <<focus, touches>>

(* press(), of the buttons an event says are down: the pointer's, on the picture, at a move too. *)
PointerEvent(buttons, comes) ==
    /\ buttons # person.buttons \/ pipe.held # buttons
    /\ person' = [person EXCEPT !.buttons = buttons]
    /\ pipe' = IF comes /\ focus # "away" THEN [pipe EXCEPT !.held = buttons] ELSE pipe
    /\ UNCHANGED <<focus, touches, missed>>

Slots == {touches[f] : f \in DOMAIN touches}
SlotByCount == Cardinality(DOMAIN touches)   \* mutant
Slot == CHOOSE n \in 0..Cardinality(Fingers) : n \notin Slots /\ 0..n - 1 \subseteq Slots

TouchDown(f) ==
    /\ f \notin DOMAIN touches /\ focus # "away"
    /\ touches' = [g \in DOMAIN touches \cup {f} |-> IF g = f THEN Slot ELSE touches[g]]
    /\ UNCHANGED <<focus, person, pipe, missed>>
(* pointerup and pointercancel. *)
TouchUp(f) ==
    /\ f \in DOMAIN touches /\ touches' = [g \in DOMAIN touches \ {f} |-> touches[g]]
    /\ UNCHANGED <<focus, person, pipe, missed>>

(* release(), at a blur and when the tab is hidden. *)
Blur ==
    /\ focus # "away" /\ focus' = "away"
    /\ pipe' = [keys |-> {}, underMeta |-> {}, held |-> {}] /\ missed' = FALSE
    /\ UNCHANGED <<person, touches>>
Focus(to) ==
    /\ focus # to /\ to # "away" /\ focus' = to
    /\ UNCHANGED <<person, pipe, touches, missed>>

KeyboardNext ==
    \/ \E k \in AllKeys, comes, chord \in BOOLEAN : KeyDown(k, chord) \/ KeyUp(k, comes, chord)
    \/ \E buttons \in SUBSET Buttons, comes \in BOOLEAN : PointerEvent(buttons, comes)
    \/ \E f \in Fingers : TouchDown(f) \/ TouchUp(f)
    \/ Blur \/ \E to \in {"picture", "local"} : Focus(to)

KeyboardSpec == KeyboardInit /\ [][KeyboardNext]_keyboardVars

(***************************************************************************)
(* Correctness.                                                            *)
(***************************************************************************)
KeyboardTypeOK ==
    /\ pipe \in [keys : SUBSET AllKeys, underMeta : SUBSET Letters, held : SUBSET Buttons]
    /\ person.keys \subseteq AllKeys /\ DOMAIN touches \subseteq Fingers

(* "A key the host holds is let go wherever its release lands" (key, up, release): it holds only
   keys the person does, and keys whose release never came while a Meta key is down, or since
   one was released in a field without the pipe knowing of it. *)
KeysLetGo ==
    /\ \A k \in pipe.keys \ person.keys : k \in pipe.underMeta /\ (UnderMeta \/ missed)
    /\ focus = "away" => pipe.keys = {} /\ pipe.held = {}

(* Two fingers on the glass are two on the host: none takes a slot another still has, in whatever
   order they lift and land (slot). *)
SlotsApart == \A f, g \in DOMAIN touches : touches[f] = touches[g] => f = g

(* The host holds what the person does: a key, a button, and each finger as one of its own. *)
InputLetsGo == KeysLetGo /\ SlotsApart
=============================================================================

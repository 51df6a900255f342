--------------------------------- MODULE Field ---------------------------------
(***************************************************************************)
(* A field of the gamepad console on a TV (console.ts: editField, imeInput,*)
(* imeKey): the set's keyboard types into an input of the page, and the    *)
(* console, which draws the field, is sent what changed as Backspaces and  *)
(* text.  A character is one here, as long as the page's strings count it  *)
(* as one.                                                                 *)
(***************************************************************************)
EXTENDS Naturals, Sequences, SequencesExt

CONSTANTS
    Chars,
    MaxText,      \* bound: a field's length
    MaxEdits      \* bound: edits

ASSUME FieldAssumption == {MaxText, MaxEdits} \subseteq Nat /\ "Backspace" \notin Chars

VARIABLES
    field,     \* the console's: open or not, its text, and the keys and texts it has yet to take
    ime,       \* the page's input, and imeText
    edits

fieldVars == <<field, ime, edits>>

Texts == BoundedSeq(Chars, MaxText)
NoField == [open |-> FALSE, text |-> <<>>, takes |-> <<>>]

FieldInit == field = NoField /\ ime = [value |-> <<>>, text |-> <<>>] /\ edits = 0

(* The console opens a field with its text, or closes it. *)
EditField ==
    /\ edits < MaxEdits /\ edits' = edits + 1
    /\ \/ ~field.open /\ \E text \in Texts :
            field' = [NoField EXCEPT !.open = TRUE, !.text = text] /\ ime' = [value |-> text, text |-> text]
       \/ field.open /\ field' = NoField /\ ime' = [value |-> <<>>, text |-> <<>>]

Common(was, next) == LongestCommonPrefix({was, next})

Typed(was, next) ==
    LET n == Len(Common(was, next))
    IN  [i \in 1..Len(was) - n |-> "Backspace"] \o SubSeq(next, n + 1, Len(next))
TypedLonger(was, next) ==   \* mutant: a text that got longer keeps what it had
    IF Len(next) >= Len(was) THEN SubSeq(next, Len(was) + 1, Len(next)) ELSE Typed(was, next)
ImeSends(was, next) == Typed(was, next)

(* imeInput: whatever the set's keyboard made of the field, its suggestions among that. *)
ImeInput ==
    /\ field.open /\ edits < MaxEdits /\ edits' = edits + 1
    /\ \E next \in Texts \ {ime.value} :
        /\ ime' = [value |-> next, text |-> next]
        /\ field' = [field EXCEPT !.takes = @ \o ImeSends(ime.text, next)]

(* The console takes what it was sent, at the end of its text. *)
ConsoleTakes ==
    /\ field.takes # <<>>
    /\ field' = [field EXCEPT !.takes = Tail(@),
                    !.text = IF Head(field.takes) # "Backspace" THEN Append(@, Head(field.takes))
                             ELSE IF @ = <<>> THEN @ ELSE Front(@)]
    /\ UNCHANGED <<ime, edits>>

FieldNext == EditField \/ ImeInput \/ ConsoleTakes
FieldSpec == FieldInit /\ [][FieldNext]_fieldVars

FieldTypeOK == field.open \in BOOLEAN /\ ime.value \in Texts

(* What the console has is what the player sees in the set's keyboard, once it took what was sent:
   however the keyboard rewrote the text, faster than the console takes it or not (imeInput). *)
FieldReachesConsole == field.takes = <<>> => field.text = ime.value
=============================================================================

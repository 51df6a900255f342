------------------------------- MODULE Covers --------------------------------
(***************************************************************************)
(* The covers of the shelf the gamepad console shows                       *)
(* (apps/web/src/ui/console.ts: library, decodeNext, frame): fetched and   *)
(* decoded by the browser a few at once, and handed to the console a few a *)
(* frame, so that neither its queue nor the page's heap fills.             *)
(***************************************************************************)
EXTENDS Naturals, Sequences, SequencesExt

CONSTANTS
    Racks,              \* hosts, by the shelf of each
    Titles,             \* titles with a cover
    COVERS_PER_FRAME,
    COVERS_DECODING,
    MaxLibraries        \* bound: shelves begun, and FetchLibrary again

ASSUME CoversAssumption ==
    /\ Racks # {} /\ IsFiniteSet(Titles) /\ MaxLibraries \in Nat
    /\ COVERS_PER_FRAME \in Nat \ {0} /\ COVERS_DECODING \in Nat \ {0}

VARIABLES
    rack,       \* ConsoleUi.shelf
    art,        \* the covers App has the links of, for that shelf
    artSent,
    toDecode, decoding, covers,
    handed,     \* what the console was given since the shelf was last cleared
    libraries   \* the bound's counter

coverVars == <<rack, art, artSent, toDecode, decoding, covers, handed, libraries>>

CoversInit ==
    /\ rack = (CHOOSE o \in Racks : TRUE) /\ art = {} /\ artSent = {} /\ toDecode = <<>> /\ decoding = <<>>
    /\ covers = <<>> /\ handed = {} /\ libraries = MaxLibraries

AtMost(n, m) == IF n <= m THEN n ELSE m

(* decodeNext: the jobs that start when `wait` waits, `runs` run and `held` covers are decoded. *)
RoomForAll(runs, held) == COVERS_DECODING - runs   \* mutant
Room(runs, held) == AtMost(COVERS_DECODING - runs, 3 * COVERS_PER_FRAME - held - runs)

DecodeNext(wait, runs, held) ==
    LET n == AtMost(Len(wait), Room(Len(runs), Len(held)))
    IN  /\ toDecode' = SubSeq(wait, n + 1, Len(wait))
        /\ decoding' = runs \o SubSeq(wait, 1, n)
        /\ covers' = held

FrameAsked(o, ids) == [i \in DOMAIN ids |-> [of |-> o, id |-> ids[i]]]

(* library(): the titles of `shown` whose cover was not sent for yet, in the order App has them. *)
ListsCovers(o, shown, sent) ==
    /\ artSent' = sent \cup shown
    /\ \E ids \in SetToSeqs(shown \ sent) : DecodeNext(toDecode \o FrameAsked(o, ids), decoding, covers)

ArtCame ==
    /\ \E id \in Titles \ art : art' = art \cup {id}
    /\ ListsCovers(rack, art', artSent) /\ UNCHANGED <<rack, handed, libraries>>

(* App renders the library as it was. *)
LibraryAgain ==
    /\ ~(art \subseteq artSent)
    /\ ListsCovers(rack, art, artSent) /\ UNCHANGED <<rack, art, handed, libraries>>

(* Another host's shelf begins, or the console fetches this one anew: none has been sent. *)
LibraryBegins(o, shown) ==
    /\ libraries > 0 /\ libraries' = libraries - 1 /\ (o = rack => shown = art)
    /\ rack' = o /\ art' = shown /\ handed' = {} /\ ListsCovers(o, shown, {})

(* A job ends: a cover, dropped when its shelf is gone, or a link that did not load. *)
CoverCame(i) ==
    LET job == decoding[i]
    IN  /\ DecodeNext(toDecode, RemoveAt(decoding, i), IF rack = job.of THEN Append(covers, job) ELSE covers)
        /\ UNCHANGED <<rack, art, artSent, handed, libraries>>

CoverFailed(i) ==
    /\ artSent' = artSent \ {decoding[i].id}
    /\ DecodeNext(toDecode, RemoveAt(decoding, i), covers)
    /\ UNCHANGED <<rack, art, handed, libraries>>

(* frame: the next covers go over, then there is room for decodes again. *)
FrameAlone(n) ==   \* mutant
    /\ covers' = SubSeq(covers, n + 1, Len(covers)) /\ UNCHANGED <<toDecode, decoding>>
FrameTakes(n) == DecodeNext(toDecode, decoding, SubSeq(covers, n + 1, Len(covers)))

GivesAll(job) == TRUE   \* mutant
Gives(job) == job.of = rack

ConsoleFrame ==
    LET n == AtMost(COVERS_PER_FRAME, Len(covers))
    IN  /\ covers # <<>> \/ toDecode # <<>>
        /\ FrameTakes(n)
        /\ handed' = handed \cup {covers[i] : i \in {j \in 1..n : Gives(covers[j])}}
        /\ UNCHANGED <<rack, art, artSent, libraries>>

CoversNext ==
    \/ ArtCame \/ LibraryAgain \/ ConsoleFrame
    \/ \E o \in Racks, shown \in {{}, Titles} : LibraryBegins(o, shown)
    \/ \E i \in DOMAIN decoding : CoverCame(i) \/ CoverFailed(i)

(* Frames run while the page is seen, and a fetch ends: the oldest is as good as any. *)
CoversFair ==
    /\ WF_coverVars(ConsoleFrame)
    /\ WF_coverVars(decoding # <<>> /\ (CoverCame(1) \/ CoverFailed(1)))

CoversSpec == CoversInit /\ [][CoversNext]_coverVars /\ CoversFair

(***************************************************************************)
(* Correctness.                                                            *)
(***************************************************************************)
CoversTypeOK ==
    /\ rack \in Racks /\ art \subseteq Titles /\ artSent \subseteq Titles
    /\ \A q \in {toDecode, decoding, covers} : \A i \in DOMAIN q : q[i].of \in Racks /\ q[i].id \in Titles

(* "A library's worth of bitmaps waiting in the heap is what put a 2 GB set into seconds-long
   pauses": decoded covers and those being decoded are never more than three frames take; and the
   console, told of one shelf, is given no other's cover, whose title may have the same id. *)
CoversInHand ==
    /\ Len(covers) + Len(decoding) <= 3 * COVERS_PER_FRAME
    /\ \A job \in handed : job.of = rack

(* Decodes that stop while the console is behind start again: a cover sent for is given to the
   console, or may be sent for again. *)
CoversGoOver ==
    \A id \in Titles : id \in artSent ~> (id \notin artSent \/ [of |-> rack, id |-> id] \in handed)
=============================================================================

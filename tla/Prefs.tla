--------------------------------- MODULE Prefs ---------------------------------
(***************************************************************************)
(* The settings store (packages/stream/src/settings.ts): only a value that *)
(* differs from the default is kept, and what is kept is merged over the   *)
(* defaults of the build that reads it, and made sane.                     *)
(***************************************************************************)
EXTENDS Naturals

CONSTANTS
    Names,       \* settings
    Values,      \* what a setting may be; one that is none of these is made the default
    Junk,        \* what a hand-edited or older store may have in it
    MaxBuilds    \* bound: builds, each with its own DEFAULTS

ASSUME PrefsAssumption == Junk \notin Values /\ MaxBuilds \in Nat

VARIABLES
    DEFAULTS,    \* of the build that is loaded
    store,       \* localStorage: the names it has, or none where it is blocked
    visit,       \* what the page goes by, and whether storage keeps anything
    picked,      \* history: the settings set since the last reset that the store was told of
    builds

prefsVars == <<DEFAULTS, store, visit, picked, builds>>

Settings == [Names -> Values]
Nowhere == [n \in {} |-> Junk]
MergedOver(kept, under) == [n \in Names |-> IF n \in DOMAIN kept THEN kept[n] ELSE under[n]]
Sane(s) == [n \in Names |-> IF s[n] \in Values THEN s[n] ELSE DEFAULTS[n]]

(* settings.get *)
Got == Sane(MergedOver(store, DEFAULTS))

PrefsInit ==
    /\ DEFAULTS \in Settings /\ store \in {Nowhere} \cup [{CHOOSE n \in Names : TRUE} -> {Junk}]
    /\ visit = [prefs |-> Got, keeps |-> TRUE] /\ picked = {} /\ builds = 1

ChosenAll(next) == next   \* mutant: the defaults are kept too
Chosen(next) == [n \in {m \in Names : next[m] # DEFAULTS[m]} |-> next[n]]

(* settings.set; storage that is blocked keeps nothing of it. *)
Set(n, v) ==
    LET next == Sane(MergedOver([m \in {n} |-> v], Got))
    IN  /\ visit' = [visit EXCEPT !.prefs = next]
        /\ store' = IF visit.keeps THEN Chosen(next) ELSE store
        /\ picked' = IF visit.keeps THEN picked \cup {n} ELSE picked
        /\ UNCHANGED <<DEFAULTS, builds>>

(* settings.reset *)
ResetPrefs ==
    /\ visit' = [visit EXCEPT !.prefs = DEFAULTS]
    /\ IF visit.keeps THEN store' = Nowhere /\ picked' = {} ELSE UNCHANGED <<store, picked>>
    /\ UNCHANGED <<DEFAULTS, builds>>

(* Another build is loaded, or storage is blocked from here on. *)
NewBuild ==
    /\ builds < MaxBuilds /\ builds' = builds + 1 /\ DEFAULTS' \in Settings
    /\ UNCHANGED <<store, picked>> /\ visit' = [visit EXCEPT !.prefs = Got']
Blocked == visit.keeps /\ visit' = [visit EXCEPT !.keeps = FALSE] /\ UNCHANGED <<DEFAULTS, store, picked, builds>>

PrefsNext ==
    \/ \E n \in Names, v \in Values : Set(n, v)
    \/ ResetPrefs \/ NewBuild \/ Blocked

PrefsSpec == PrefsInit /\ [][PrefsNext]_prefsVars

PrefsTypeOK == DEFAULTS \in Settings /\ visit.prefs \in Settings /\ picked \subseteq Names

(* "A default that changes later still reaches everyone who never picked otherwise" (settings.set),
   over builds, other settings picked before and after, and whatever the store was found with. *)
DefaultsReach == \A n \in Names \ picked : Got[n] = DEFAULTS[n]
=============================================================================

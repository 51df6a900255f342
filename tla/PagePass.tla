------------------------------- MODULE PagePass -------------------------------
(***************************************************************************)
(* The page server's pass as a browser keeps it (packages/stream/src/      *)
(* pass.ts, and Host.renewPass of host.ts).  A renewal shows the pass held *)
(* as it is sent, and what its answer extends is the pass held as the      *)
(* answer is read.                                                         *)
(*                                                                         *)
(* The server is what a page needs of it (module Passes has the rest): it  *)
(* extends a pass it holds and makes another for one it does not, and may  *)
(* cease to hold any.  The hosts are all routes of the page's server: a    *)
(* host the page reaches any other way asks for nothing.                   *)
(***************************************************************************)
EXTENDS Integers, Sequences

CONSTANTS
    Routes,       \* hosts on the page's server
    MaxMinted,    \* bound: passes ever made
    MaxLogins     \* bound: device logins of a host

ASSUME PagePassAssumption == {MaxMinted, MaxLogins} \subseteq Nat

VARIABLES
    server,      \* for each pass made, the hosts it was proven to, and whether it still holds
    held,        \* localStorage: the pass held, and the hosts it was proven to
    renewing     \* for each host: the logins so far, the one the pass was last renewed with
                 \* (`earned`), and the renewal under way, with the pass it shows and its answer

pagePassVars == <<server, held, renewing>>

NoPass == [pass |-> 0, hosts |-> {}]
NoRenewal == [stage |-> "none", shows |-> 0, got |-> 0, login |-> 0]

PagePassInit ==
    /\ server = <<>> /\ held = NoPass
    /\ renewing = [h \in Routes |-> [logins |-> 0, earned |-> 0, ask |-> NoRenewal]]

RenewalIs(h, ask) == renewing' = [renewing EXCEPT ![h].ask = ask]

(* A login gives another header. *)
LogsIn(h) ==
    /\ renewing[h].logins < MaxLogins /\ renewing' = [renewing EXCEPT ![h].logins = @ + 1]
    /\ UNCHANGED <<server, held>>

(* The next call renews with it, as does one whose renewal was refused, and a dial of a host the
   pass does not cover.  One under way is shared. *)
Renews(h) ==
    /\ renewing[h].ask = NoRenewal /\ renewing[h].logins > 0
    /\ renewing[h].logins # renewing[h].earned \/ h \notin held.hosts
    /\ RenewalIs(h, [stage |-> "asked", shows |-> held.pass, got |-> 0, login |-> renewing[h].logins])
    /\ UNCHANGED <<server, held>>

(* mint, of a host that took the token: prove. *)
Minted(h) ==
    LET ask == renewing[h].ask
        known == ask.shows # 0 /\ server[ask.shows].holds
        id == IF known THEN ask.shows ELSE Len(server) + 1
    IN  /\ ask.stage = "asked" /\ id <= MaxMinted
        /\ server' = IF known THEN [server EXCEPT ![id].to = @ \cup {h}]
                     ELSE Append(server, [to |-> {h}, holds |-> TRUE])
        /\ RenewalIs(h, [ask EXCEPT !.stage = "answered", !.got = id]) /\ UNCHANGED held

(* Refused, or the answer is lost. *)
Refused(h) == renewing[h].ask # NoRenewal /\ RenewalIs(h, NoRenewal) /\ UNCHANGED <<server, held>>

AnyHosts(got) == held.hosts   \* mutant: the hosts of whatever pass was held
HostsHeld(got) == IF held.pass = got THEN held.hosts ELSE {}

(* renewPass, once the answer is read. *)
Takes(h) ==
    LET ask == renewing[h].ask
    IN  /\ ask.stage = "answered"
        /\ held' = [pass |-> ask.got, hosts |-> HostsHeld(ask.got) \cup {h}]
        /\ renewing' = [renewing EXCEPT ![h].ask = NoRenewal, ![h].earned = ask.login]
        /\ UNCHANGED server

(* A pass lapses, is crowded out, or goes with a restart; the browser's storage is cleared. *)
Lapses(pass) ==
    /\ server[pass].holds /\ server' = [server EXCEPT ![pass].holds = FALSE]
    /\ UNCHANGED <<held, renewing>>
Cleared == held' = NoPass /\ UNCHANGED <<server, renewing>>

PagePassNext ==
    \/ \E h \in Routes : LogsIn(h) \/ Renews(h) \/ Minted(h) \/ Refused(h) \/ Takes(h)
    \/ \E pass \in DOMAIN server : Lapses(pass)
    \/ Cleared

PagePassSpec == PagePassInit /\ [][PagePassNext]_pagePassVars

PagePassTypeOK ==
    /\ held.pass \in 0..Len(server) /\ held.hosts \subseteq Routes
    /\ \A h \in Routes : renewing[h].ask.stage \in {"none", "asked", "answered"} /\ renewing[h].earned <= renewing[h].logins

(* passFor: what a page shows a bridge for a host was proven to that host, whatever other renewals
   and lapsed passes came between a renewal and its answer. *)
ShowsWhatWasProven == held.pass # 0 => held.hosts \subseteq server[held.pass].to
=============================================================================

---------------------------- MODULE SecurityKeys ----------------------------
(***************************************************************************)
(* internal/mfa/webauthn.go: the security keys of one user.  The server    *)
(* keeps one ceremony per user in memory, whether it registers a key or    *)
(* signs in with one: starting another replaces it, and either of the two  *)
(* finishing handlers takes it away, whatever comes of it.                 *)
(*                                                                         *)
(* The WebAuthn library compares the response with the ceremony that was   *)
(* taken, and the key's signature count with the one stored.  The recent   *)
(* verification that DisableCredential asks for, and that a sign-in sets,  *)
(* is left to chance: Mfa has it, and requests may be refused.             *)
(***************************************************************************)
EXTENDS Naturals, FiniteSets

CONSTANTS
    Keys,        \* security keys
    Ceremonies,  \* challenges that the library made
    Tabs,        \* requests in progress at a time
    MaxCount,    \* bound: how often a key signs
    NoCeremony   \* no ceremony, no key

KeysAssumption == MaxCount \in Nat \ {0} /\ NoCeremony \notin Ceremonies \cup Keys

VARIABLES
    slot,        \* h.sessions[uid]
    ceremony,    \* what each challenge is for, and the keys it allows
    credential,  \* user_webauthn_credentials
    counter,     \* how often each key has signed
    tab,         \* what each request has read and does next
    completed,   \* history: how often a ceremony did what it is for
    accepted,    \* history: the highest count a sign-in was let through with
    clashed,     \* history: keys that two sign-ins verified at once, or whose
                 \* count was not stored
    unkeyed,     \* history: keys with which a sign-in passed, once disabled
    cut          \* history: keys disabled while a sign-in used them

kvars == <<slot, ceremony, credential, counter, tab,
           completed, accepted, clashed, unkeyed, cut>>

Counts == 0 .. MaxCount
NoTab == [step |-> "idle", ceremony |-> NoCeremony, key |-> NoCeremony, count |-> 0]

KTypeOK ==
    /\ slot \in Ceremonies \cup {NoCeremony}
    /\ ceremony \in [Ceremonies ->
            [kind : {"none", "register", "login"}, allowed : SUBSET Keys]]
    /\ credential \in [Keys -> [status : {"none", "active", "disabled"}, count : Counts]]
    /\ counter \in [Keys -> Counts]
    /\ tab \in [Tabs ->
            [step : {"idle", "registering", "verifying", "recording"},
             ceremony : Ceremonies \cup {NoCeremony},
             key : Keys \cup {NoCeremony}, count : Counts]]
    /\ completed \in [Ceremonies -> 0 .. Cardinality(Tabs)]
    /\ accepted \in [Keys -> Counts]
    /\ clashed \subseteq Keys /\ unkeyed \subseteq Keys /\ cut \subseteq Keys

KInit ==
    /\ slot = NoCeremony
    /\ ceremony = [c \in Ceremonies |-> [kind |-> "none", allowed |-> {}]]
    /\ credential = [k \in Keys |-> [status |-> "none", count |-> 0]]
    /\ counter = [k \in Keys |-> 0]
    /\ tab = [h \in Tabs |-> NoTab]
    /\ completed = [c \in Ceremonies |-> 0]
    /\ accepted = [k \in Keys |-> 0]
    /\ clashed = {} /\ unkeyed = {} /\ cut = {}

At(h, step) == tab[h].step = step
Active(k) == credential[k].status = "active"
Highest(a, b) == IF a >= b THEN a ELSE b

-----------------------------------------------------------------------------
\* storeSession, of a new ceremony.
Start(c, kind, allowed) ==
    /\ ceremony[c].kind = "none"
    /\ ceremony' = [ceremony EXCEPT ![c] = [kind |-> kind, allowed |-> allowed]]
    /\ slot' = c
    /\ UNCHANGED <<credential, counter, tab, completed, accepted, clashed, unkeyed, cut>>

RegisterStart(c) == Start(c, "register", {})

\* Needs an active key.
AuthenticateStart(c) ==
    LET active == {k \in Keys : Active(k)} IN
    active # {} /\ Start(c, "login", active)

\* Mutant: the session is read and left where it is.
PeekSession == UNCHANGED slot

popSession == slot' = NoCeremony

\* The handler for this kind of response, with what a key signed for a
\* ceremony: goes on if it took that ceremony, and it is of this kind.
Finish(h, kind, c, k) ==
    LET fits == slot = c /\ ceremony[c].kind = kind
        step == IF kind = "login" THEN "verifying" ELSE "registering"
    IN
    /\ At(h, "idle")
    /\ ceremony[c].kind # "none"
    /\ counter[k] < MaxCount
    /\ popSession
    /\ counter' = [counter EXCEPT ![k] = @ + 1]
    /\ tab' = IF fits
              THEN [tab EXCEPT ![h] =
                  [step |-> step, ceremony |-> c, key |-> k, count |-> counter[k] + 1]]
              ELSE tab
    /\ UNCHANGED <<ceremony, credential, completed, accepted, clashed, unkeyed, cut>>

\* The INSERT fails for a key that was ever registered.
RegisterFinish(h) ==
    LET t == tab[h] IN
    /\ At(h, "registering")
    /\ credential[t.key].status = "none"
    /\ credential' = [credential EXCEPT ![t.key] = [status |-> "active", count |-> t.count]]
    /\ completed' = [completed EXCEPT ![t.ceremony] = @ + 1]
    /\ accepted' = [accepted EXCEPT ![t.key] = t.count]
    /\ tab' = [tab EXCEPT ![h] = NoTab]
    /\ UNCHANGED <<slot, ceremony, counter, clashed, unkeyed, cut>>

\* loadUser and ValidateLogin: a count that is not above the stored one is
\* let through, and the stored one kept.
ValidateLogin(h) ==
    LET t == tab[h]
        k == t.key
    IN
    /\ At(h, "verifying")
    /\ Active(k) /\ k \in ceremony[t.ceremony].allowed
    /\ LET count == Highest(t.count, credential[k].count) IN
       /\ tab' = [tab EXCEPT ![h].step = "recording", ![h].count = count]
       /\ accepted' = [accepted EXCEPT ![k] = Highest(@, count)]
    /\ completed' = [completed EXCEPT ![t.ceremony] = @ + 1]
    /\ clashed' = IF \E z \in Tabs \ {h} : At(z, "recording") /\ tab[z].key = k
                  THEN clashed \cup {k} ELSE clashed
    /\ UNCHANGED <<slot, ceremony, credential, counter, unkeyed, cut>>

\* Stores the count and the recent verification.
AuthenticateFinish(h) ==
    LET k == tab[h].key IN
    /\ At(h, "recording")
    /\ credential' = [credential EXCEPT ![k].count = tab[h].count]
    /\ unkeyed' = IF Active(k) THEN unkeyed ELSE unkeyed \cup {k}
    /\ tab' = [tab EXCEPT ![h] = NoTab]
    /\ UNCHANGED <<slot, ceremony, counter, completed, accepted, clashed, cut>>

\* The UPDATE of the count fails, which nobody looks at, or the process ends.
LoseCount(h) ==
    LET k == tab[h].key IN
    /\ At(h, "recording")
    /\ unkeyed' \in {unkeyed, IF Active(k) THEN unkeyed ELSE unkeyed \cup {k}}
    /\ clashed' = clashed \cup {k}
    /\ tab' = [tab EXCEPT ![h] = NoTab]
    /\ UNCHANGED <<slot, ceremony, credential, counter, completed, accepted, cut>>

DisableCredential(k) ==
    /\ Active(k)
    /\ credential' = [credential EXCEPT ![k].status = "disabled"]
    /\ cut' = IF \E h \in Tabs : At(h, "recording") /\ tab[h].key = k
              THEN cut \cup {k} ELSE cut
    /\ UNCHANGED <<slot, ceremony, counter, tab, completed, accepted, clashed, unkeyed>>

\* A request is refused, or fails before it stored anything.
Refuse(h) ==
    /\ At(h, "registering") \/ At(h, "verifying")
    /\ tab' = [tab EXCEPT ![h] = NoTab]
    /\ UNCHANGED <<slot, ceremony, credential, counter,
                   completed, accepted, clashed, unkeyed, cut>>

\* The ceremony expires, or the server restarts.
Forget ==
    /\ popSession
    /\ UNCHANGED <<ceremony, credential, counter, tab,
                   completed, accepted, clashed, unkeyed, cut>>

KNext ==
    \/ \E c \in Ceremonies :
        \/ RegisterStart(c) \/ AuthenticateStart(c)
        \/ \E h \in Tabs, k \in Keys, kind \in {"register", "login"} : Finish(h, kind, c, k)
    \/ \E h \in Tabs :
        RegisterFinish(h) \/ ValidateLogin(h) \/ AuthenticateFinish(h)
        \/ LoseCount(h) \/ Refuse(h)
    \/ \E k \in Keys : DisableCredential(k)
    \/ Forget

KSpec == KInit /\ [][KNext]_kvars

-----------------------------------------------------------------------------
(* Properties *)

\* A ceremony does what it is for once; the count stored for a key is the
\* highest that a sign-in was let through with, unless its record is due or
\* failed, or two sign-ins with the key overlapped; and a disabled key lets its user pass
\* only if it was disabled while that sign-in was under way (RegisterFinish,
\* AuthenticateFinish, DisableCredential).
KeysSound ==
    /\ \A c \in Ceremonies : completed[c] <= 1
    /\ \A k \in Keys :
        \/ credential[k].count = accepted[k]
        \/ k \in clashed
        \/ \E h \in Tabs : At(h, "recording") /\ tab[h].key = k
    /\ unkeyed \subseteq cut
=============================================================================

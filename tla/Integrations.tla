---------------------------- MODULE Integrations ----------------------------
(***************************************************************************)
(* internal/integration and middleware/ratelimit.go: the keys that other   *)
(* systems authenticate with, and the webhook by which they report alerts, *)
(* behind a rate limiter of each replica.                                  *)
(*                                                                         *)
(* Whether a key allows the source and the scope, and whether the request  *)
(* is signed and fresh, is left to chance.                                 *)
(***************************************************************************)
EXTENDS Naturals, Sequences, FiniteSets

CONSTANTS
    Keys,          \* ids of integration_api_keys, in order
    Alerts,        \* (source, fingerprint) of what webhooks report
    Origins,       \* what requests are counted under, each in order
    MaxRequests,   \* of each limit key in a window
    Handlers,      \* HTTP requests in progress at a time
    MaxDeliveries, \* bound: webhooks accepted for an alert
    NoKey          \* no key

Limits == UNION {{o[i] : i \in DOMAIN o} : o \in Origins}

IntegrationsAssumption ==
    /\ \A o \in Origins : o \in Seq(Limits)
    /\ MaxRequests \in Nat \ {0}
    /\ Keys \subseteq Nat /\ NoKey \notin Keys

VARIABLES
    key,         \* each key's row
    entry,       \* the limiter's count of a limit key; 0 when it has no entry
    admitted,    \* history: requests let through in the entry's window
    alert,       \* the object of an alert's row (0 without one), and how many objects
    handler,     \* what each request does next, and with which key
    crossed      \* history: first keys of which two changes overlapped

gatevars == <<entry, admitted>>
ivars == <<key, gatevars, alert, handler, crossed>>

NoRow == [state |-> "absent", root |-> NoKey, ages |-> FALSE, old |-> FALSE]

ITypeOK ==
    /\ key \in [Keys ->
            [state : {"absent", "live", "revoked"}, root : Keys \cup {NoKey},
             ages : BOOLEAN, old : BOOLEAN]]
    /\ entry \in [Limits -> 0 .. MaxRequests]
    /\ admitted \in [Limits -> Nat]
    /\ alert \in [Alerts -> [object : 0 .. MaxDeliveries, objects : 0 .. MaxDeliveries]]
    /\ handler \in [Handlers ->
            [step : {"idle", "rotating", "admitted", "resolved"}, key : Keys \cup {NoKey}]]
    /\ crossed \subseteq Keys

NoWork == [step |-> "idle", key |-> NoKey]

IInit ==
    /\ key = [k \in Keys |-> NoRow]
    /\ entry = [l \in Limits |-> 0]
    /\ admitted = [l \in Limits |-> 0]
    /\ alert = [a \in Alerts |-> [object |-> 0, objects |-> 0]]
    /\ handler = [h \in Handlers |-> NoWork]
    /\ crossed = {}

At(h, step) == handler[h].step = step
On(h) == handler[h].key
Works(h, step, k) ==
    handler' = [handler EXCEPT ![h] = [step |-> step, key |-> k]]
Leaves(h) == handler' = [handler EXCEPT ![h] = NoWork]

-----------------------------------------------------------------------------
(* Keys *)

\* When a revoked key expires makes no difference.
Revoked(row) == [row EXCEPT !.state = "revoked", !.ages = FALSE, !.old = FALSE]

Absent(k) == key[k].state = "absent"
Unused(k) == Absent(k) /\ \A z \in Keys : z < k => ~Absent(z)

\* A key may be given a time to expire.
CreateKey(k, ages) ==
    /\ Unused(k)
    /\ key' = [key EXCEPT ![k] = [state |-> "live", root |-> k, ages |-> ages, old |-> FALSE]]
    /\ UNCHANGED <<gatevars, alert, handler, crossed>>

Expire(k) ==
    /\ key[k].state = "live" /\ key[k].ages /\ ~key[k].old
    /\ key' = [key EXCEPT ![k].old = TRUE]
    /\ UNCHANGED <<gatevars, alert, handler, crossed>>

\* A change of k while another request rotates it.
Crosses(h, k) ==
    crossed' = IF \E z \in Handlers \ {h} : At(z, "rotating") /\ On(z) = k
               THEN crossed \cup {key[k].root} ELSE crossed

\* One UPDATE, of a key that is not revoked yet.
RevokeKey(h, k) ==
    /\ At(h, "idle")
    /\ key[k].state = "live"
    /\ key' = [key EXCEPT ![k] = Revoked(@)]
    /\ Crosses(h, k)
    /\ UNCHANGED <<gatevars, alert, handler>>

\* The old key is read before the transaction; whether it has expired is not
\* asked.
BeginRotate(h, k) ==
    /\ At(h, "idle")
    /\ key[k].state = "live"
    /\ Works(h, "rotating", k)
    /\ UNCHANGED <<key, gatevars, alert, crossed>>

\* Mutant: the old key stays as it is.
RotateWithoutRevoking(h, new) ==
    /\ At(h, "rotating")
    /\ Unused(new)
    /\ key' = [key EXCEPT ![new] =
            [state |-> "live", root |-> key[On(h)].root, ages |-> FALSE, old |-> FALSE]]
    /\ Crosses(h, On(h))
    /\ Leaves(h)
    /\ UNCHANGED <<gatevars, alert>>

\* Revokes the old key, whatever it is by now, and inserts a new one that never
\* expires.
RotateKey(h, new) ==
    /\ At(h, "rotating")
    /\ Unused(new)
    /\ key' = [key EXCEPT
            ![On(h)] = Revoked(@),
            ![new] = [state |-> "live", root |-> key[On(h)].root, ages |-> FALSE, old |-> FALSE]]
    /\ Crosses(h, On(h))
    /\ Leaves(h)
    /\ UNCHANGED <<gatevars, alert>>

-----------------------------------------------------------------------------
(* The rate limiter; allow runs under the mutex *)

Exhausted(origin) == {i \in DOMAIN origin : entry[origin[i]] >= MaxRequests}

\* Every limit key is counted, or those before the first that is exhausted.
Counted(origin) ==
    {origin[i] : i \in {j \in DOMAIN origin : \A e \in Exhausted(origin) : j < e}}

Counts(counts, limits) == [l \in Limits |-> counts[l] + IF l \in limits THEN 1 ELSE 0]

Allow(h, origin) ==
    /\ At(h, "idle")
    /\ entry' = Counts(entry, Counted(origin))
    /\ IF Exhausted(origin) = {}
       THEN /\ admitted' = Counts(admitted, Counted(origin))
            /\ Works(h, "admitted", NoKey)
       ELSE UNCHANGED <<admitted, handler>>
    /\ UNCHANGED <<key, alert, crossed>>

\* The entry's window is over: it is replaced at its next use, or cleaned up.
Lapse(l) ==
    /\ entry[l] > 0
    /\ entry' = [entry EXCEPT ![l] = 0]
    /\ admitted' = [admitted EXCEPT ![l] = 0]
    /\ UNCHANGED <<key, alert, handler, crossed>>

-----------------------------------------------------------------------------
(* ReceiveWebhook *)

Serves(k) == key[k].state = "live" /\ ~key[k].old

ResolveIntegrationKey(h, k) ==
    /\ At(h, "admitted")
    /\ Serves(k)
    /\ Works(h, "resolved", k)
    /\ UNCHANGED <<key, gatevars, alert, crossed>>

\* The transaction: a new object, and the alert's row, which keeps its first.
\* The alert is announced as the new object.
ReceiveWebhook(h, a) ==
    LET n == alert[a].objects + 1 IN
    /\ At(h, "resolved")
    /\ n <= MaxDeliveries
    /\ alert' = [alert EXCEPT ![a] =
            [object |-> IF @.object = 0 THEN n ELSE @.object, objects |-> n]]
    /\ Leaves(h)
    /\ UNCHANGED <<key, gatevars, crossed>>

\* Any check refuses, or the process ends.
Refuse(h) ==
    /\ ~At(h, "idle")
    /\ Leaves(h)
    /\ UNCHANGED <<key, gatevars, alert, crossed>>

-----------------------------------------------------------------------------
INext ==
    \/ \E k \in Keys : Expire(k) \/ \E ages \in BOOLEAN : CreateKey(k, ages)
    \/ \E l \in Limits : Lapse(l)
    \/ \E h \in Handlers :
        \/ \E k \in Keys :
            RevokeKey(h, k) \/ BeginRotate(h, k) \/ RotateKey(h, k) \/ ResolveIntegrationKey(h, k)
        \/ \E origin \in Origins : Allow(h, origin)
        \/ \E a \in Alerts : ReceiveWebhook(h, a)
        \/ Refuse(h)

ISpec == IInit /\ [][INext]_ivars

-----------------------------------------------------------------------------
(* Properties *)

LiveFrom(k) == {z \in Keys : key[z].state = "live" /\ key[z].root = k}

\* Of the keys that rotation made of one key at most one is live, unless a
\* rotation overlapped another or a revocation (RotateKey, RevokeKey).  In the
\* window of a limit key no more than MaxRequests requests pass, although a
\* refused one is counted under some of its limit keys (allow).
IntegrationsSound ==
    /\ \A k \in Keys \ crossed : Cardinality(LiveFrom(k)) <= 1
    /\ \A l \in Limits : admitted[l] <= entry[l]
=============================================================================

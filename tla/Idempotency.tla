---------------------------- MODULE Idempotency ----------------------------
(***************************************************************************)
(* middleware/idempotency.go: a mutating request may carry a key.  The     *)
(* first request with it reserves the key, runs the handler and stores the *)
(* answer; later ones get the stored answer, or a refusal.  A key names    *)
(* the scope, the caller and the header; rows are never deleted and their  *)
(* expires_at is never looked at.                                          *)
(*                                                                         *)
(* The handler does its work (an effect) or refuses (4xx); it may fail     *)
(* (5xx) after its work as well as before it.                              *)
(***************************************************************************)
EXTENDS Naturals, FiniteSets

CONSTANTS
    Tokens,      \* idempotency keys
    Prints,      \* fingerprints of requests (method, path, query and body)
    Requesters,  \* HTTP requests in progress at a time
    MaxEffects,  \* bound: how often requests with one key work
    NoToken      \* no key

IdempotencyAssumption ==
    /\ NoToken \notin Tokens
    /\ Prints # {}
    /\ MaxEffects \in Nat \ {0}

VARIABLES
    reserved,  \* the row of idempotency_keys
    request,   \* what each request does next, and the handler's answer
    effects,   \* history: of each key, the requests that worked: their prints
    heard,     \* history: <<answer, print>> that clients were given
    dropped    \* history: keys whose executing request ended early

mvars == <<reserved, request, effects, heard, dropped>>

StatusCodes == {"none", "2xx", "4xx", "5xx"}
Answers == {"2xx", "4xx", "5xx", "409"}
NoRow == [status |-> "absent", print |-> CHOOSE p \in Prints : TRUE, code |-> "none"]
NoCall == [step |-> "idle", token |-> NoToken, print |-> NoRow.print, code |-> "none"]

KeyRows ==
    [status : {"absent", "processing", "completed", "failed"},
     print : Prints, code : StatusCodes]
Steps == {"idle", "asked", "reading", "executing", "executed"}
Calls ==
    [step : Steps, token : Tokens \cup {NoToken}, print : Prints, code : StatusCodes]

MTypeOK ==
    /\ reserved \in [Tokens -> KeyRows]
    /\ request \in [Requesters -> Calls]
    /\ effects \in [Tokens -> [Prints -> 0 .. MaxEffects]]
    /\ heard \in [Tokens -> SUBSET (Answers \X Prints)]
    /\ dropped \subseteq Tokens

MInit ==
    /\ reserved = [k \in Tokens |-> NoRow]
    /\ request = [h \in Requesters |-> NoCall]
    /\ effects = [k \in Tokens |-> [p \in Prints |-> 0]]
    /\ heard = [k \in Tokens |-> {}]
    /\ dropped = {}

At(h, step) == request[h].step = step
Proceeds(h, step, code) ==
    request' = [request EXCEPT ![h] = [@ EXCEPT !.step = step, !.code = code]]

\* The request ends with an answer that reaches its client.
Hears(h, answer) ==
    /\ heard' = [heard EXCEPT ![request[h].token] = @ \cup {<<answer, request[h].print>>}]
    /\ request' = [request EXCEPT ![h] = NoCall]

-----------------------------------------------------------------------------
Ask(h, k, p) ==
    /\ At(h, "idle")
    /\ request' = [request EXCEPT ![h] =
            [step |-> "asked", token |-> k, print |-> p, code |-> "none"]]
    /\ UNCHANGED <<reserved, effects, heard, dropped>>

\* Mutant: a key that failed may be reserved again.
ReserveAgain(h) ==
    LET k == request[h].token IN
    /\ At(h, "asked")
    /\ IF reserved[k].status \in {"absent", "failed"}
       THEN /\ reserved' = [reserved EXCEPT ![k] =
                    [status |-> "processing", print |-> request[h].print, code |-> "none"]]
            /\ Proceeds(h, "executing", "none")
       ELSE Proceeds(h, "reading", "none") /\ UNCHANGED reserved
    /\ UNCHANGED <<effects, heard, dropped>>

\* INSERT ... ON CONFLICT DO NOTHING.
Reserve(h) ==
    LET k == request[h].token IN
    /\ At(h, "asked")
    /\ IF reserved[k].status = "absent"
       THEN /\ reserved' = [reserved EXCEPT ![k] =
                    [status |-> "processing", print |-> request[h].print, code |-> "none"]]
            /\ Proceeds(h, "executing", "none")
       ELSE Proceeds(h, "reading", "none") /\ UNCHANGED reserved
    /\ UNCHANGED <<effects, heard, dropped>>

\* The answer to a request whose key is taken.
Replay(h) ==
    LET row == reserved[request[h].token] IN
    /\ At(h, "reading")
    /\ Hears(h, IF row.print = request[h].print /\ row.status = "completed"
                THEN row.code ELSE "409")
    /\ UNCHANGED <<reserved, effects, dropped>>

\* The handler works, and says so or fails thereafter ...
Work(h, code) ==
    LET j == request[h] IN
    /\ At(h, "executing")
    /\ code \in {"2xx", "5xx"}
    /\ effects[j.token][j.print] < MaxEffects
    /\ effects' = [effects EXCEPT ![j.token][j.print] = @ + 1]
    /\ Proceeds(h, "executed", code)
    /\ UNCHANGED <<reserved, heard, dropped>>

\* ... or does nothing.
Decline(h, code) ==
    /\ At(h, "executing")
    /\ code \in {"4xx", "5xx"}
    /\ Proceeds(h, "executed", code)
    /\ UNCHANGED <<reserved, effects, heard, dropped>>

\* The final UPDATE, before the client is answered.
Complete(h) ==
    LET j == request[h] IN
    /\ At(h, "executed")
    /\ reserved' = [reserved EXCEPT ![j.token] =
            [@ EXCEPT !.status = IF j.code = "5xx" THEN "failed" ELSE "completed",
                      !.code = j.code]]
    /\ Hears(h, j.code)
    /\ UNCHANGED <<effects, dropped>>

\* The UPDATE fails (the request's context is over, or the body is no JSON
\* object): the client, if still there, hears 500 for what was done.
FailComplete(h) ==
    /\ At(h, "executed")
    /\ Hears(h, "5xx")
    /\ dropped' = dropped \cup {request[h].token}
    /\ UNCHANGED <<reserved, effects>>

\* The process dies, or a query of the middleware fails.
Die(h) ==
    /\ ~At(h, "idle")
    /\ request' = [request EXCEPT ![h] = NoCall]
    /\ dropped' = IF At(h, "executing") \/ At(h, "executed")
                  THEN dropped \cup {request[h].token} ELSE dropped
    /\ UNCHANGED <<reserved, effects, heard>>

MNext ==
    \E h \in Requesters :
        \/ \E k \in Tokens, p \in Prints : Ask(h, k, p)
        \/ \E code \in StatusCodes : Work(h, code) \/ Decline(h, code)
        \/ Reserve(h)
        \/ Replay(h)
        \/ Complete(h)
        \/ FailComplete(h)
        \/ Die(h)

MSpec == MInit /\ [][MNext]_mvars

-----------------------------------------------------------------------------
(* Properties *)

Worked(k, p) == effects[k][p]

\* However often requests with one key are sent, at once or after each other,
\* the handler works at most once, for the request that reserved the key; a
\* client that hears 2xx for its request may rely on that work, one that hears
\* 4xx on its absence; and a key is left "processing" for ever only if its
\* request was cut off (Idempotency).
CallsOnce ==
    \A k \in Tokens :
        LET executing == {h \in Requesters : request[h].token = k
                            /\ (At(h, "executing") \/ At(h, "executed"))} IN
        /\ \A p, q \in Prints : Worked(k, p) + (IF p = q THEN 0 ELSE Worked(k, q)) <= 1
        /\ \A p \in Prints :
            /\ <<"2xx", p>> \in heard[k] => Worked(k, p) = 1
            /\ <<"4xx", p>> \in heard[k] => Worked(k, p) = 0
        /\ reserved[k].status = "processing" /\ executing = {} => k \in dropped
=============================================================================

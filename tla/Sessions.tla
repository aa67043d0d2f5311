------------------------------ MODULE Sessions ------------------------------
(***************************************************************************)
(* internal/iam: the sessions of one user, their refresh tokens, and the   *)
(* password.  A session is a row of user_sessions and the family of the    *)
(* tokens issued for it, one after the other.                              *)
(*                                                                         *)
(* Most handlers run several statements outside a transaction, so that a   *)
(* request may be overtaken, or end, between any two.  The password is a   *)
(* number: how often it was replaced; token_version goes with it.  Tokens  *)
(* that expire are not told from requests that are refused.  Access tokens *)
(* carry no state: nothing compares their token_version.                   *)
(***************************************************************************)
EXTENDS Naturals, FiniteSets

CONSTANTS
    SessionIds, TokenIds, ResetIds,  \* rows that may be inserted; tokens in order
    Browsers,                        \* HTTP requests in progress at a time
    MaxPassword,                     \* bound: how often the password changes
    Nil                              \* no session, token or reset

SessionsAssumption ==
    /\ MaxPassword \in Nat /\ TokenIds \subseteq Nat
    /\ Nil \notin SessionIds \cup TokenIds \cup ResetIds

VARIABLES
    password,  \* users.password_hash
    session,   \* user_sessions.revoked_at
    token,     \* refresh_tokens
    reset,     \* password_reset_tokens.used_at
    browser,   \* what each request has read and does next
    frayed,    \* history: sessions that were added to while being ended
    forked,    \* history: sessions refreshed twice at once, or half
    opened,    \* history: the password each session was opened with
    floor,     \* history: the password that the last reset set
    resets,    \* history: how often each reset token served
    rushed     \* history: reset tokens that two requests used at once

rows == <<password, session, token, reset>>
history == <<forked, opened, floor, resets, rushed>>
svars == <<rows, browser, history, frayed>>

Jobs ==
    [step : {"idle", "verified", "opened", "rotating", "linking", "reused", "marked",
             "disowned", "lost", "left", "revoking", "resetting"},
     session : SessionIds \cup {Nil}, token : TokenIds \cup {Nil},
     new : TokenIds \cup {Nil}, reset : ResetIds \cup {Nil}, password : 0 .. MaxPassword]
NoJob ==
    [step |-> "idle", session |-> Nil, token |-> Nil, new |-> Nil,
     reset |-> Nil, password |-> 0]

STypeOK ==
    /\ password \in 0 .. MaxPassword
    /\ session \in [SessionIds -> {"absent", "open", "revoked"}]
    /\ token \in [TokenIds ->
            [session : SessionIds \cup {Nil}, replaced : TokenIds \cup {Nil}, revoked : BOOLEAN]]
    /\ reset \in [ResetIds -> {"absent", "issued", "used"}]
    /\ browser \in [Browsers -> Jobs]
    /\ frayed \subseteq SessionIds /\ forked \subseteq SessionIds
    /\ opened \in [SessionIds -> 0 .. MaxPassword] /\ floor \in 0 .. MaxPassword
    /\ resets \in [ResetIds -> Nat] /\ rushed \subseteq ResetIds

SInit ==
    /\ password = 0
    /\ session = [s \in SessionIds |-> "absent"]
    /\ token = [t \in TokenIds |-> [session |-> Nil, replaced |-> Nil, revoked |-> FALSE]]
    /\ reset = [r \in ResetIds |-> "absent"]
    /\ browser = [h \in Browsers |-> NoJob]
    /\ frayed = {} /\ forked = {} /\ rushed = {}
    /\ opened = [s \in SessionIds |-> 0] /\ floor = 0
    /\ resets = [r \in ResetIds |-> 0]

At(h, step) == browser[h].step = step
Begins(h, job) == At(h, "idle") /\ browser' = [browser EXCEPT ![h] = job]
Proceeds(h, step) == browser' = [browser EXCEPT ![h].step = step]
Ends(h) == browser' = [browser EXCEPT ![h] = NoJob]

Issued(t) == token[t].session # Nil
Unissued(t) == ~Issued(t) /\ \A z \in TokenIds : z < t => Issued(z)
Valid(t) == Issued(t) /\ ~token[t].revoked
Revoked(tokens) ==
    [t \in TokenIds |-> IF t \in tokens THEN [token[t] EXCEPT !.revoked = TRUE] ELSE token[t]]
Of(s) == {t \in TokenIds : token[t].session = s}
SessionsRevoked(ended) ==
    [s \in SessionIds |-> IF s \in ended /\ session[s] = "open" THEN "revoked" ELSE session[s]]

-----------------------------------------------------------------------------
(* Login, Register and Bootstrap end in createSession: two INSERTs *)

\* The password is compared; a sign-up has just written it.
BeginLogin(h) ==
    /\ Begins(h, [NoJob EXCEPT !.step = "verified", !.password = password])
    /\ UNCHANGED <<rows, history>>

OpenSession(h, s) ==
    /\ At(h, "verified")
    /\ session[s] = "absent"
    /\ session' = [session EXCEPT ![s] = "open"]
    /\ browser' = [browser EXCEPT ![h].step = "opened", ![h].session = s]
    /\ opened' = [opened EXCEPT ![s] = browser[h].password]
    /\ UNCHANGED <<password, token, reset, forked, floor, resets, rushed>>

CreateSession(h, t) ==
    /\ At(h, "opened")
    /\ Unissued(t)
    /\ token' = [token EXCEPT ![t].session = browser[h].session]
    /\ Ends(h)
    /\ UNCHANGED <<password, session, reset, history>>

-----------------------------------------------------------------------------
(* Refresh *)

\* Mutant: a token that was replaced is taken for a fresh one.
ReadAsFresh(h, t) ==
    /\ Valid(t)
    /\ Begins(h, [NoJob EXCEPT !.token = t, !.session = token[t].session, !.step = "rotating"])
    /\ forked' = IF \E z \in Browsers \ {h} : browser[z].token = t
                 THEN forked \cup {token[t].session} ELSE forked
    /\ UNCHANGED <<rows, opened, floor, resets, rushed>>

\* One SELECT; the session is not looked at.  A token that was replaced means
\* that somebody else has used it.
BeginRefresh(h, t) ==
    /\ Valid(t)
    /\ Begins(h, [NoJob EXCEPT !.token = t, !.session = token[t].session,
                    !.step = IF token[t].replaced = Nil THEN "rotating" ELSE "reused"])
    /\ forked' = IF \E z \in Browsers \ {h} : browser[z].token = t
                 THEN forked \cup {token[t].session} ELSE forked
    /\ UNCHANGED <<rows, opened, floor, resets, rushed>>

InsertNew(h, t) ==
    /\ At(h, "rotating")
    /\ Unissued(t)
    /\ token' = [token EXCEPT ![t].session = browser[h].session]
    /\ browser' = [browser EXCEPT ![h].step = "linking", ![h].new = t]
    /\ UNCHANGED <<password, session, reset, history>>

LinkOld(h) ==
    /\ At(h, "linking")
    /\ token' = [token EXCEPT ![browser[h].token].replaced = browser[h].new]
    /\ Ends(h)
    /\ UNCHANGED <<password, session, reset, history>>

\* Reuse: three statements whose errors are ignored (reuse_detected_at is never
\* read).
RevokeFamily(h) ==
    /\ At(h, "reused")
    /\ token' = Revoked(Of(browser[h].session))
    /\ Proceeds(h, "disowned")
    /\ UNCHANGED <<password, session, reset, history>>

RevokeFamilySession(h) ==
    /\ At(h, "disowned") \/ At(h, "lost")
    /\ session' = SessionsRevoked({browser[h].session})
    /\ Ends(h)
    /\ UNCHANGED <<password, token, reset, history>>

LoseRevokeFamily(h) ==
    /\ At(h, "reused")
    /\ Proceeds(h, "lost")
    /\ UNCHANGED <<rows, history>>

-----------------------------------------------------------------------------
(* Logout and RevokeSession *)

\* The tokens of the sessions that are open, then the sessions.
LogoutTokens(h) ==
    /\ Begins(h, [NoJob EXCEPT !.step = "left"])
    /\ token' = Revoked({t \in TokenIds : Issued(t) /\ session[token[t].session] = "open"})
    /\ UNCHANGED <<password, session, reset, history>>

LogoutSessions(h) ==
    /\ At(h, "left")
    /\ session' = SessionsRevoked(SessionIds)
    /\ Ends(h)
    /\ UNCHANGED <<password, token, reset, history>>

BeginRevoke(h, s) ==
    /\ session[s] # "absent"
    /\ Begins(h, [NoJob EXCEPT !.step = "revoking", !.session = s])
    /\ UNCHANGED <<rows, history>>

\* One transaction.
RevokeSession(h) ==
    LET s == browser[h].session IN
    /\ At(h, "revoking")
    /\ session' = [session EXCEPT ![s] = "revoked"]
    /\ token' = Revoked(Of(s))
    /\ Ends(h)
    /\ UNCHANGED <<password, reset, history>>

-----------------------------------------------------------------------------
(* The password *)

ForgotPassword(r) ==
    /\ reset[r] = "absent"
    /\ reset' = [reset EXCEPT ![r] = "issued"]
    /\ UNCHANGED <<password, session, token, browser, history>>

BeginReset(h, r) ==
    /\ reset[r] = "issued"
    /\ Begins(h, [NoJob EXCEPT !.step = "resetting", !.reset = r])
    /\ rushed' = IF \E z \in Browsers \ {h} : browser[z].reset = r THEN rushed \cup {r} ELSE rushed
    /\ UNCHANGED <<rows, frayed, forked, opened, floor, resets>>

\* One transaction; the token is marked used by its hash alone.
ResetPassword(h) ==
    LET r == browser[h].reset IN
    /\ At(h, "resetting")
    /\ password < MaxPassword
    /\ password' = password + 1
    /\ reset' = [reset EXCEPT ![r] = "used"]
    /\ session' = SessionsRevoked(SessionIds)
    /\ token' = Revoked({t \in TokenIds : Issued(t)})
    /\ floor' = password'
    /\ resets' = [resets EXCEPT ![r] = @ + 1]
    /\ Ends(h)
    /\ UNCHANGED <<forked, opened, rushed>>

\* Every session stays as it is.
ChangePassword ==
    /\ password < MaxPassword
    /\ password' = password + 1
    /\ UNCHANGED <<session, token, reset, browser, history>>

\* A request is refused or ends early; a new token that was never linked stays.
GiveUp(h) ==
    /\ ~At(h, "idle")
    /\ forked' = IF At(h, "linking") THEN forked \cup {browser[h].session} ELSE forked
    /\ Ends(h)
    /\ UNCHANGED <<rows, opened, floor, resets, rushed>>

-----------------------------------------------------------------------------
SStep ==
    \/ ChangePassword
    \/ \E r \in ResetIds : ForgotPassword(r)
    \/ \E h \in Browsers :
        \/ BeginLogin(h)
        \/ \E s \in SessionIds : OpenSession(h, s) \/ BeginRevoke(h, s)
        \/ \E t \in TokenIds : CreateSession(h, t) \/ BeginRefresh(h, t) \/ InsertNew(h, t)
        \/ \E r \in ResetIds : BeginReset(h, r)
        \/ LinkOld(h)
        \/ RevokeFamily(h) \/ RevokeFamilySession(h) \/ LoseRevokeFamily(h)
        \/ LogoutTokens(h) \/ LogoutSessions(h)
        \/ RevokeSession(h)
        \/ ResetPassword(h)
        \/ GiveUp(h)

\* Which requests are about to add a token to a session, and which to end it.
Adds(h, s) == browser[h].session = s /\ browser[h].step \in {"opened", "rotating"}
Closes(h, s) ==
    \/ browser[h].step \in {"left", "resetting"}
    \/ browser[h].session = s /\ browser[h].step \in {"reused", "disowned", "lost", "revoking"}

\* Sessions of which one request does the one while another does the other, or
\* has lost a statement of it; or that are opened with a password of the past.
Fraying ==
    {s \in SessionIds : \E h \in Browsers :
        \/ Adds(h, s) /\ \E z \in Browsers : Closes(z, s)
        \/ At(h, "lost") /\ browser[h].session = s
        \/ At(h, "opened") /\ browser[h].session = s /\ browser[h].password < floor}

SNext == SStep /\ frayed' = frayed \cup Fraying'

SSpec == SInit /\ [][SNext]_svars

-----------------------------------------------------------------------------
(* Properties *)

Usable(t) == Valid(t) /\ token[t].replaced = Nil

\* Of the tokens of a session at most one can be refreshed, unless a token was
\* refreshed twice at once or its successor is not linked (yet); a session that was
\* ended leaves no token that can, unless a login or a refresh overlapped its
\* end or a statement of it was lost (Refresh, Logout, RevokeSession).  A reset
\* ends every session opened with an older password, with the same exception,
\* and a reset token serves once unless two requests used it at once
\* (ResetPassword, which looks at neither).
SessionsSound ==
    /\ \A s \in SessionIds \ forked :
        \/ Cardinality({t \in Of(s) : Usable(t)}) <= 1
        \/ \E h \in Browsers : At(h, "linking") /\ browser[h].session = s
    /\ \A s \in SessionIds \ frayed :
        /\ session[s] = "revoked" => \A t \in Of(s) : ~Valid(t)
        /\ session[s] = "open" => opened[s] >= floor
    /\ \A r \in ResetIds \ rushed : resets[r] <= 1
=============================================================================

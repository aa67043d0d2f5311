-------------------------------- MODULE Mfa --------------------------------
(***************************************************************************)
(* internal/mfa/handler.go: the TOTP factor of one user, its recovery      *)
(* codes and challenges, and the recent verification (recent_mfa_at of the *)
(* user's sessions, whichever) that other handlers ask for.  Security keys *)
(* set it too (see SecurityKeys); here they do not.                        *)
(*                                                                         *)
(* A user has one row of type totp (it is UNIQUE), so that a disabled      *)
(* factor is never replaced.  A batch of recovery codes is one code here.  *)
(* Challenges that expire are not told from requests that are refused.     *)
(***************************************************************************)
EXTENDS Naturals, FiniteSets

CONSTANTS
    Codes,        \* recovery codes
    Challenges,   \* ids of mfa_challenges
    Phones,       \* HTTP requests in progress at a time
    MaxFailed,    \* maxFailedAttempts
    MaxEnrolled,  \* bound: how often a factor is inserted
    NoneOf        \* no code, no challenge

MfaAssumption ==
    /\ MaxFailed \in Nat \ {0} /\ MaxEnrolled \in Nat \ {0}
    /\ NoneOf \notin Codes \cup Challenges

VARIABLES
    factor,     \* the row of user_mfa_factors; id tells which was inserted
    code,       \* mfa_recovery_codes
    challenge,  \* mfa_challenges
    recent,     \* is there a recent verification
    phone,      \* what each request has read and does next
    redeemed,   \* history: how often a code let its user pass
    guesses,    \* history: wrong TOTP codes written down since the last reset
    mingled,    \* history: what overlapping requests did
    stray       \* history: a verification without an active factor

ledger == <<redeemed, guesses, stray>>
fvars == <<factor, code, challenge, recent, ledger, phone, mingled>>

Attempts == 0 .. MaxFailed + 1
Jobs ==
    [step : {"idle", "inserting", "enlisting", "answering", "redeeming",
             "checking", "passed", "unmarked", "regenerating", "renewing", "disabling"},
     id : 0 .. MaxEnrolled, code : Codes \cup {NoneOf},
     challenge : Challenges \cup {NoneOf}, attempts : Attempts]
NoJob == [step |-> "idle", id |-> 0, code |-> NoneOf, challenge |-> NoneOf, attempts |-> 0]

FTypeOK ==
    /\ factor \in [status : {"none", "pending", "active", "disabled"}, id : 0 .. MaxEnrolled,
                   attempts : Attempts, locked : BOOLEAN]
    /\ code \in [Codes -> {"absent", "live", "used"}]
    /\ challenge \in [Challenges -> {"absent", "open", "verified"}]
    /\ recent \in BOOLEAN
    /\ phone \in [Phones -> Jobs]
    /\ redeemed \in [Codes -> Nat]
    /\ guesses \in Nat
    /\ mingled \subseteq Codes \cup {"guess", "change"}
    /\ stray \in BOOLEAN

FInit ==
    /\ factor = [status |-> "none", id |-> 0, attempts |-> 0, locked |-> FALSE]
    /\ code = [c \in Codes |-> "absent"]
    /\ challenge = [n \in Challenges |-> "absent"]
    /\ recent = FALSE
    /\ phone = [h \in Phones |-> NoJob]
    /\ redeemed = [c \in Codes |-> 0]
    /\ guesses = 0
    /\ mingled = {}
    /\ stray = FALSE

At(h, step) == phone[h].step = step
Begins(h, step) == At(h, "idle") /\ phone' = [phone EXCEPT ![h] = [NoJob EXCEPT !.step = step]]
Proceeds(h, step) == phone' = [phone EXCEPT ![h].step = step]
Ends(h) == phone' = [phone EXCEPT ![h] = NoJob]
UsedUp == [c \in Codes |-> IF code[c] = "live" THEN "used" ELSE code[c]]

-----------------------------------------------------------------------------
(* EnrollTOTP and VerifyEnrollment *)

\* Without an active factor, a pending one is deleted.
BeginEnroll(h) ==
    /\ factor.status # "active"
    /\ factor' = IF factor.status = "pending" THEN [factor EXCEPT !.status = "none"] ELSE factor
    /\ Begins(h, "inserting")
    /\ UNCHANGED <<code, challenge, recent, ledger>>

\* The INSERT fails while there is a row.
EnrollTOTP(h) ==
    /\ At(h, "inserting")
    /\ factor.status = "none"
    /\ factor.id < MaxEnrolled
    /\ factor' = [status |-> "pending", id |-> factor.id + 1, attempts |-> 0, locked |-> FALSE]
    /\ Ends(h)
    /\ UNCHANGED <<code, challenge, recent, ledger>>

\* The code matches the secret that was read.
BeginVerifyEnrollment(h) ==
    /\ factor.status = "pending"
    /\ At(h, "idle")
    /\ phone' = [phone EXCEPT ![h] = [NoJob EXCEPT !.step = "enlisting", !.id = factor.id]]
    /\ UNCHANGED <<factor, code, challenge, recent, ledger>>

\* Activates that row, if it is still there, whatever it is by now; the
\* recovery codes come in any case.
VerifyEnrollment(h, c) ==
    LET there == factor.status # "none" /\ factor.id = phone[h].id IN
    /\ At(h, "enlisting")
    /\ code[c] = "absent"
    /\ factor' = IF there THEN [factor EXCEPT !.status = "active", !.attempts = 0] ELSE factor
    /\ guesses' = IF there THEN 0 ELSE guesses
    /\ code' = [code EXCEPT ![c] = "live"]
    /\ Ends(h)
    /\ UNCHANGED <<challenge, recent, redeemed, stray>>

-----------------------------------------------------------------------------
(* CreateChallenge and VerifyChallenge *)

CreateChallenge(n) ==
    /\ factor.status = "active" /\ ~factor.locked
    /\ challenge[n] = "absent"
    /\ challenge' = [challenge EXCEPT ![n] = "open"]
    /\ UNCHANGED <<factor, code, recent, phone, ledger>>

BeginVerify(h, n) ==
    /\ At(h, "idle")
    /\ challenge[n] = "open"
    /\ phone' = [phone EXCEPT ![h] = [NoJob EXCEPT !.step = "answering", !.challenge = n]]
    /\ UNCHANGED <<factor, code, challenge, recent, ledger>>

\* Mutant: used_at is not asked for.
ReadAnyCode(h, c) ==
    /\ At(h, "answering")
    /\ code[c] # "absent"
    /\ phone' = [phone EXCEPT ![h].step = "redeeming", ![h].code = c]
    /\ UNCHANGED <<factor, code, challenge, recent, ledger>>

\* A recovery code: SELECT the row that is not used ...
ReadCode(h, c) ==
    /\ At(h, "answering")
    /\ code[c] = "live"
    /\ phone' = [phone EXCEPT ![h].step = "redeeming", ![h].code = c]
    /\ UNCHANGED <<factor, code, challenge, recent, ledger>>

\* ... and UPDATE it by id; if that fails the code lets its user pass as well.
RedeemCode(h) ==
    /\ At(h, "redeeming")
    /\ redeemed[phone[h].code] < 2
    /\ redeemed' = [redeemed EXCEPT ![phone[h].code] = @ + 1]
    /\ \/ code' = [code EXCEPT ![phone[h].code] = "used"] /\ Proceeds(h, "passed")
       \/ code' = code /\ Proceeds(h, "unmarked")
    /\ UNCHANGED <<factor, challenge, recent, guesses, stray>>

\* A TOTP code: the attempts are read, and written from what was read.  Nothing
\* asks whether the factor is active still.
ReadFactor(h) ==
    /\ At(h, "answering")
    /\ ~factor.locked
    /\ phone' = [phone EXCEPT ![h].step = "checking", ![h].attempts = factor.attempts]
    /\ UNCHANGED <<factor, code, challenge, recent, ledger>>

\* The UPDATE may fail, unseen; that of WrongCode too, as if refused.
RightCode(h) ==
    /\ At(h, "checking")
    /\ \/ factor' = [factor EXCEPT !.attempts = 0, !.locked = FALSE] /\ guesses' = 0
       \/ UNCHANGED <<factor, guesses>>
    /\ Proceeds(h, "passed")
    /\ UNCHANGED <<code, challenge, recent, redeemed, stray>>

WrongCode(h) ==
    LET n == phone[h].attempts + 1 IN
    /\ At(h, "checking")
    /\ n \in Attempts /\ guesses + 1 \in Attempts
    /\ factor' = [factor EXCEPT !.attempts = n, !.locked = @ \/ n >= MaxFailed]
    /\ guesses' = guesses + 1
    /\ Ends(h)
    /\ UNCHANGED <<code, challenge, recent, redeemed, stray>>

\* The UPDATE of the challenge, whose error is ignored, then of the sessions.
VerifyChallenge(h) ==
    LET n == phone[h].challenge IN
    /\ At(h, "passed") \/ At(h, "unmarked")
    /\ challenge' \in {challenge, [challenge EXCEPT ![n] = "verified"]}
    /\ recent' = TRUE
    /\ stray' = (stray \/ factor.status # "active")
    /\ Ends(h)
    /\ UNCHANGED <<factor, code, redeemed, guesses>>

-----------------------------------------------------------------------------
(* RegenerateRecoveryCodes and DisableFactor ask for a recent verification *)

BeginRegenerate(h) ==
    /\ recent
    /\ Begins(h, "regenerating")
    /\ UNCHANGED <<factor, code, challenge, recent, ledger>>

\* An UPDATE whose error is ignored.
ExpireCodes(h) ==
    /\ At(h, "regenerating")
    /\ code' \in {code, UsedUp}
    /\ Proceeds(h, "renewing")
    /\ UNCHANGED <<factor, challenge, recent, ledger>>

RegenerateRecoveryCodes(h, c) ==
    /\ At(h, "renewing")
    /\ code[c] = "absent"
    /\ code' = [code EXCEPT ![c] = "live"]
    /\ Ends(h)
    /\ UNCHANGED <<factor, challenge, recent, ledger>>

BeginDisable(h) ==
    /\ recent
    /\ Begins(h, "disabling")
    /\ UNCHANGED <<factor, code, challenge, recent, ledger>>

\* One transaction.
DisableFactor(h) ==
    /\ At(h, "disabling")
    /\ factor.status = "active"
    /\ factor' = [factor EXCEPT !.status = "disabled"]
    /\ code' = UsedUp
    /\ recent' = FALSE
    /\ Ends(h)
    /\ UNCHANGED <<challenge, ledger>>

\* The verification is of the past, or its session revoked; the lock is
\* over.
ForgetRecent ==
    /\ recent' = FALSE
    /\ UNCHANGED <<factor, code, challenge, phone, ledger>>

Unlock ==
    /\ factor.locked
    /\ factor' = [factor EXCEPT !.locked = FALSE]
    /\ UNCHANGED <<code, challenge, recent, phone, ledger>>

Refuse(h) ==
    /\ ~At(h, "idle")
    /\ Ends(h)
    /\ UNCHANGED <<factor, code, challenge, recent, ledger>>

-----------------------------------------------------------------------------
FStep ==
    \/ ForgetRecent \/ Unlock
    \/ \E n \in Challenges : CreateChallenge(n)
    \/ \E h \in Phones :
        \/ BeginEnroll(h) \/ EnrollTOTP(h) \/ BeginVerifyEnrollment(h)
        \/ \E c \in Codes :
            VerifyEnrollment(h, c) \/ ReadCode(h, c) \/ RegenerateRecoveryCodes(h, c)
        \/ \E n \in Challenges : BeginVerify(h, n)
        \/ RedeemCode(h) \/ ReadFactor(h) \/ RightCode(h) \/ WrongCode(h)
        \/ VerifyChallenge(h)
        \/ BeginRegenerate(h) \/ ExpireCodes(h)
        \/ BeginDisable(h) \/ DisableFactor(h)
        \/ Refuse(h)

\* What two requests are about to do at once; codes whose use is not recorded.
Changing ==
    {"inserting", "enlisting", "passed", "unmarked",
     "regenerating", "renewing", "disabling"}
Mingling ==
    LET pairs == {p \in Phones \X Phones : p[1] # p[2]}
        both(steps) == {p \in pairs : phone[p[1]].step \in steps /\ phone[p[2]].step \in steps} IN
    {phone[p[1]].code : p \in {q \in both({"redeeming"}) : phone[q[1]].code = phone[q[2]].code}}
    \cup {phone[h].code : h \in {z \in Phones : At(z, "unmarked")}}
    \cup (IF both({"checking", "enlisting"}) # {} THEN {"guess"} ELSE {})
    \cup (IF both(Changing) # {} THEN {"change"} ELSE {})

FNext == FStep /\ mingled' = mingled \cup Mingling'

FSpec == FInit /\ [][FNext]_fvars

-----------------------------------------------------------------------------
(* Properties *)

\* A recovery code lets its user pass once, unless the record of its use failed,
\* and every wrong TOTP code written down counts towards the lock, unless two
\* requests read the same state at once (VerifyChallenge); recovery codes that can be redeemed, and a recent
\* verification, exist only with an active factor, unless two requests that
\* change them overlapped, or a challenge outlived the factor
\* (VerifyEnrollment, DisableFactor, RegenerateRecoveryCodes).
MfaSound ==
    /\ \A c \in Codes \ mingled : redeemed[c] <= 1
    /\ "guess" \in mingled \/ guesses = factor.attempts
    /\ recent \/ (\E c \in Codes : code[c] = "live") =>
        factor.status = "active" \/ "change" \in mingled \/ stray
=============================================================================

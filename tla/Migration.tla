----------------------------- MODULE Migration -----------------------------
(***************************************************************************)
(* internal/migration and cmd/clarity-migrate: version 0001 of the schema, *)
(* applied to a database by any number of apply commands, one after the    *)
(* other or at once, while people change the same database by hand.        *)
(*                                                                         *)
(* An apply command has a client side, Apply, and a session at the server  *)
(* with the advisory lock and the target transaction.  The two sides part  *)
(* when the command is killed, when its five minutes are over, or when the *)
(* server ends the session: a command that has gone may leave a session    *)
(* behind, and a COMMIT on its way to it.  Transactions are READ COMMITTED *)
(* - every statement of a probe sees what is committed at its own time.    *)
(*                                                                         *)
(* The database is the one Classify lets through by name and by version of *)
(* the server; the embedded package is intact (VerifyAll).  Failpoints are *)
(* inert in the production build and return an error in the proof build:   *)
(* Fails stands for them, and for every statement that fails.              *)
(***************************************************************************)
EXTENDS Naturals, FiniteSets

CONSTANTS
    Commands,    \* apply commands, each a process of its own
    None,        \* nobody
    MaxChanges   \* bound: changes made to the database by hand

ASSUME MigrationAssumption ==
    /\ None \notin Commands
    /\ MaxChanges \in Nat

VARIABLES
    db,       \* what is committed
    changes,  \* history: how many changes were made by hand
    hand,     \* history: the platform schema came by hand
    lock,     \* whose session holds the advisory lock
    session,  \* the server's side of each command's connection
    tx,       \* the target transaction of each session
    wire,     \* a COMMIT: not sent, on its way, or done with its reply due
    pc,       \* where each Apply is
    seen,     \* PreflightResult, then the second probe
    ddl,      \* ApplyResult.DDLStarted
    result,   \* what the command reports, "none" until it does
    base,     \* history: the objects the first artifact body met
    checked   \* history: changes when the target was last recognised

server == <<db, lock, session, tx, wire>>
client == <<pc, seen, ddl, result>>
history == <<changes, hand, base, checked>>
vars == <<server, client, history>>

-----------------------------------------------------------------------------
(* Types *)

\* What a database holds, as far as the fingerprints tell: nothing, one of
\* the historical schemas, the governed target, or anything else.
Sources == {"empty", "p1p2", "p2", "p3"}
Shapes == Sources \cup {"target", "unknown"}

\* Revision 0001: absent, with the frozen checksum, or with another one.  Every
\* artifact writes it as successful, and the table keeps it so.
Revisions == {"none", "exact", "other"}

Checks == {"governed.target_fingerprint", "runner.execution_receipt"}
Profiles == {"", "P2", "P3"}

Databases ==
    [objects : Shapes, platform : BOOLEAN, revision : Revisions,
     extra : BOOLEAN, active : BOOLEAN,
     runs : SUBSET [by : Commands, profile : Profiles],
     receipts : SUBSET (Commands \X Checks)]

Paths == {"install", "adopt_p3", "adopt_p2", "no_op", "block"}
Probes ==
    [fresh : BOOLEAN, platform : BOOLEAN, revision : Revisions,
     source : Shapes \cup {"none"}, governed : {"target", "none"},
     path : Paths]

Transactions ==
    [open : BOOLEAN, bodies : 0 .. 4, run : Profiles \cup {"none"}, receipts : SUBSET Checks]

NoTransaction == [open |-> FALSE, bodies |-> 0, run |-> "none", receipts |-> {}]

Steps == {"new", "lock", "probe", "fingerprint", "noop", "begin", "reprobe", "bodies",
          "revision", "verify", "record", "recheck", "commit", "reply",
          "rollback", "unlock", "close", "ended"}

TypeOK ==
    /\ db \in Databases
    /\ changes \in Nat
    /\ hand \in BOOLEAN
    /\ lock \in Commands \cup {None}
    /\ session \in [Commands -> {"none", "open", "gone"}]
    /\ tx \in [Commands -> Transactions]
    /\ wire \in [Commands -> {"quiet", "sent", "done"}]
    /\ pc \in [Commands -> Steps]
    /\ seen \in [Commands -> Probes]
    /\ ddl \in [Commands -> BOOLEAN]
    /\ result \in [Commands -> {"none", "applied", "no_op", "blocked"}]
    /\ base \in [Commands -> Shapes]
    /\ checked \in [Commands -> Nat]

\* The databases an operator may point the command at: without a platform
\* schema, governed, or with a platform schema over something else, as the
\* four scripts leave it when they are run by hand and interrupted; or with
\* the governed target and another revision, of which verify.go warns.
Unplatformed(o) ==
    [objects |-> o, platform |-> FALSE, revision |-> "none", extra |-> FALSE,
     active |-> FALSE, runs |-> {}, receipts |-> {}]
ByHand(o, r) == [Unplatformed(o) EXCEPT !.platform = TRUE, !.revision = r]

InitialDatabases ==
    {Unplatformed(o) : o \in Sources \cup {"unknown"}}
        \cup {ByHand(o, r) : o \in {"target", "unknown"}, r \in Revisions}
        \cup {[ByHand("target", "exact") EXCEPT !.extra = TRUE]}

Unseen == [fresh |-> FALSE, platform |-> FALSE, revision |-> "none",
           source |-> "none", governed |-> "none", path |-> "block"]

Init ==
    /\ db \in InitialDatabases
    /\ changes = 0
    /\ hand = db.platform
    /\ lock = None
    /\ session = [c \in Commands |-> "none"]
    /\ tx = [c \in Commands |-> NoTransaction]
    /\ wire = [c \in Commands |-> "quiet"]
    /\ pc = [c \in Commands |-> "new"]
    /\ seen = [c \in Commands |-> Unseen]
    /\ ddl = [c \in Commands |-> FALSE]
    /\ result = [c \in Commands |-> "none"]
    /\ base = [c \in Commands |-> "empty"]
    /\ checked = [c \in Commands |-> 0]

-----------------------------------------------------------------------------
(* The artifacts, and what a transaction sees of its own work *)

Bodies(path) == IF path = "install" THEN 4 ELSE 1
Base(path) == CASE path = "install"  -> "empty"
                [] path = "adopt_p3" -> "p3"
                [] path = "adopt_p2" -> "p2"
                [] OTHER             -> "unknown"

\* The roles come first, the platform schema second, the seed with the row of
\* revision 0001 last; an adoption does all of it in one body.
PlatformBody(path) == IF path = "install" THEN 2 ELSE 1

Built(c) == tx[c].bodies = Bodies(seen[c].path)
View(c) ==
    IF tx[c].bodies = 0 THEN db
    ELSE [db EXCEPT
            !.objects = IF Built(c) /\ @ = Base(seen[c].path) THEN "target" ELSE "unknown",
            !.platform = @ \/ tx[c].bodies >= PlatformBody(seen[c].path),
            !.revision = IF Built(c) THEN "exact" ELSE @]

-----------------------------------------------------------------------------
(* Preflight *)

\* Classify, without its guards on the name and the version.
Classify(p) ==
    IF p.platform /\ p.revision = "other" THEN "block"
    ELSE IF p.platform /\ p.revision # "none"
         THEN IF p.governed = "target" THEN "no_op" ELSE "block"
    ELSE IF p.source # "none"
         THEN CASE p.source = "p3" -> "adopt_p3"
                [] p.source = "p2" -> "adopt_p2"
                [] OTHER           -> "block"
    ELSE IF p.fresh THEN "install"
    ELSE "block"

\* probeAll
Probe(d) == [Unseen EXCEPT !.fresh = d.objects = "empty" /\ ~d.platform,
                           !.platform = d.platform, !.revision = d.revision]

\* The fingerprints of a database that is not empty, each the empty string
\* when its capture fails; then the class.
Fingerprinted(p, d) ==
    LET Sum(s, g) == [p EXCEPT !.source = s, !.governed = g]
        Sums == IF p.fresh THEN {p}
                ELSE {Sum(s, g) : s \in {d.objects, "none"},
                                  g \in {"none"} \cup ({d.objects} \cap {"target"})}
    IN  {[q EXCEPT !.path = Classify(q)] : q \in Sums}

-----------------------------------------------------------------------------
(* Apply *)

\* A step of a command whose session still answers.
At(c, step) == pc[c] = step /\ session[c] = "open"
Goes(c, step) == pc' = [pc EXCEPT ![c] = step]
Reports(c, verdict) == result' = [result EXCEPT ![c] = verdict]

\* The deferred calls: Rollback, pg_advisory_unlock, Close.
Leaves(c) == Goes(c, IF tx[c].open THEN "rollback" ELSE "unlock")

Connect(c) ==
    /\ pc[c] = "new"
    /\ \/ /\ Goes(c, "lock")
          /\ session' = [session EXCEPT ![c] = "open"]
          /\ UNCHANGED result
       \/ /\ Goes(c, "ended")
          /\ Reports(c, "blocked")
          /\ UNCHANGED session
    /\ UNCHANGED <<db, lock, tx, wire, seen, ddl, history>>

\* Mutant: the answer of pg_try_advisory_lock is not looked at.
TryLockUnread(c) ==
    /\ At(c, "lock")
    /\ lock' = c
    /\ Goes(c, "probe")
    /\ UNCHANGED <<db, session, tx, wire, seen, ddl, result, history>>

\* acquireLockOnConn; releaseLockOnConn is not called for a lock not held.
TryLock(c) ==
    /\ At(c, "lock")
    /\ IF lock = None
       THEN lock' = c /\ Goes(c, "probe") /\ UNCHANGED result
       ELSE UNCHANGED lock /\ Goes(c, "close") /\ Reports(c, "blocked")
    /\ UNCHANGED <<db, session, tx, wire, seen, ddl, history>>

PreflightProbe(c) ==
    /\ At(c, "probe")
    /\ seen' = [seen EXCEPT ![c] = Probe(db)]
    /\ Goes(c, "fingerprint")
    /\ UNCHANGED <<server, ddl, result, history>>

PreflightClassify(c) ==
    /\ At(c, "fingerprint")
    /\ \E p \in Fingerprinted(seen[c], db) :
        /\ seen' = [seen EXCEPT ![c] = p]
        /\ \/ p.path = "block" /\ Leaves(c) /\ Reports(c, "blocked")
           \/ p.path = "no_op" /\ Goes(c, "noop") /\ UNCHANGED result
           \/ p.path \notin {"block", "no_op"} /\ Goes(c, "begin") /\ UNCHANGED result
        /\ checked' = [checked EXCEPT ![c] = IF p.governed = "target" THEN changes ELSE @]
    /\ UNCHANGED <<server, ddl, changes, hand, base>>

\* The count of active runs reads as 0 when its query fails.
NoOp(c) ==
    /\ At(c, "noop")
    /\ Leaves(c)
    /\ \/ db.active /\ Reports(c, "blocked")
       \/ Reports(c, "no_op")
    /\ UNCHANGED <<server, seen, ddl, history>>

Begin(c) ==
    /\ At(c, "begin")
    /\ tx' = [tx EXCEPT ![c].open = TRUE]
    /\ Goes(c, "reprobe")
    /\ UNCHANGED <<db, lock, session, wire, seen, ddl, result, history>>

\* The second probe, compared with the first one.  Of its structural part
\* only what Classify makes of it is compared.
Reprobe(c) ==
    /\ At(c, "reprobe")
    /\ \E p \in Fingerprinted(Probe(db), db) :
        IF <<p.path, p.source, p.governed>>
              = <<seen[c].path, seen[c].source, seen[c].governed>>
        THEN Goes(c, "bodies") /\ UNCHANGED result
        ELSE Leaves(c) /\ Reports(c, "blocked")
    /\ UNCHANGED <<server, seen, ddl, history>>

\* Mutant: the COMMIT of the platform artifact is left in its body.
BodyCommits(c) == db' = [db EXCEPT !.platform = @ \/ tx'[c].bodies = PlatformBody(seen[c].path)]

\* What an artifact does when its body is over: nothing, for Transform has
\* taken its COMMIT out.
BodyEnds(c) == UNCHANGED db

\* Whether the body can run: its CREATE statements collide with a platform
\* schema made meanwhile, and an adoption compares the source with digests.
BodyFits(c) ==
    /\ ~db.platform
    /\ seen[c].path # "install" => db.objects = Base(seen[c].path)

\* Mutant: the flag is not passed to execAdoption.
StartsDDLUnlessAdopting(c) == ddl' = [ddl EXCEPT ![c] = @ \/ seen[c].path = "install"]

\* execFreshChain, execAdoption: DDLStarted is set before a body is sent.
StartsDDL(c) == ddl' = [ddl EXCEPT ![c] = TRUE]

Body(c) ==
    /\ At(c, "bodies")
    /\ ~Built(c)
    /\ StartsDDL(c)
    /\ base' = [base EXCEPT ![c] = IF tx[c].bodies = 0 THEN db.objects ELSE @]
    /\ \/ /\ BodyFits(c)
          /\ tx' = [tx EXCEPT ![c].bodies = @ + 1]
          /\ BodyEnds(c)
          /\ UNCHANGED <<pc, result>>
       \/ /\ Leaves(c)   \* an error in the body
          /\ Reports(c, "blocked")
          /\ UNCHANGED <<db, tx>>
    /\ UNCHANGED <<lock, session, wire, seen, changes, hand, checked>>

Chained(c) ==
    /\ At(c, "bodies")
    /\ Built(c)
    /\ Goes(c, "revision")
    /\ UNCHANGED <<server, seen, ddl, result, history>>

\* A check of Apply on what its transaction sees.
Requires(c, holds, step) ==
    IF holds THEN Goes(c, step) /\ UNCHANGED result
             ELSE Leaves(c) /\ Reports(c, "blocked")

VerifyRevision(c) ==
    /\ At(c, "revision")
    /\ Requires(c, View(c).revision = "exact", "verify")
    /\ UNCHANGED <<server, seen, ddl, history>>

VerifyTarget(c) ==
    /\ At(c, "verify")
    /\ Requires(c, View(c).objects = "target", "record")
    /\ UNCHANGED <<server, seen, ddl, history>>

\* Mutant: an adoption is one of P3.
profileIDAlwaysP3(path) == IF path \in {"adopt_p3", "adopt_p2"} THEN "P3" ELSE ""

profileIDForPath(path) ==
    CASE path = "adopt_p3" -> "P3" [] path = "adopt_p2" -> "P2" [] OTHER -> ""

\* The rows of migration_runs and reconciliation_results.
Record(c) ==
    /\ At(c, "record")
    /\ tx' = [tx EXCEPT ![c].run = profileIDForPath(seen[c].path), ![c].receipts = Checks]
    /\ Goes(c, "recheck")
    /\ UNCHANGED <<db, lock, session, wire, seen, ddl, result, history>>

\* Mutant: the evidence is not followed by a second check.
RecheckSkipped(c) ==
    /\ At(c, "recheck")
    /\ Goes(c, "commit")
    /\ checked' = [checked EXCEPT ![c] = changes]
    /\ UNCHANGED <<server, seen, ddl, result, changes, hand, base>>

Recheck(c) ==
    /\ At(c, "recheck")
    /\ Requires(c, View(c).objects = "target", "commit")
    /\ checked' = [checked EXCEPT ![c] = changes]
    /\ UNCHANGED <<server, seen, ddl, changes, hand, base>>

SendCommit(c) ==
    /\ At(c, "commit")
    /\ wire' = [wire EXCEPT ![c] = "sent"]
    /\ Goes(c, "reply")
    /\ UNCHANGED <<db, lock, session, tx, seen, ddl, result, history>>

CommitReply(c) ==
    /\ At(c, "reply")
    /\ wire[c] = "done"
    /\ Reports(c, "applied")
    /\ Leaves(c)
    /\ UNCHANGED <<server, seen, ddl, history>>

Rollback(c) ==
    /\ At(c, "rollback")
    /\ tx' = [tx EXCEPT ![c] = NoTransaction]
    /\ Goes(c, "unlock")
    /\ UNCHANGED <<db, lock, session, wire, seen, ddl, result, history>>

Unlock(c) ==
    /\ At(c, "unlock")
    /\ lock' = None
    /\ Goes(c, "close")
    /\ UNCHANGED <<db, session, tx, wire, seen, ddl, result, history>>

Close(c) ==
    /\ At(c, "close")
    /\ Goes(c, "ended")
    /\ UNCHANGED <<server, seen, ddl, result, history>>

-----------------------------------------------------------------------------
(* Failures *)

Querying == {"lock", "probe", "begin", "reprobe", "bodies", "revision", "verify", "record",
             "recheck", "commit"}

\* A statement or a failpoint reports an error.
Fails(c) ==
    /\ \E step \in Querying : At(c, step)
    /\ Reports(c, "blocked")
    /\ IF pc[c] = "lock" THEN Goes(c, "close") ELSE Leaves(c)
    /\ UNCHANGED <<server, seen, ddl, history>>

Running(c) == pc[c] \notin {"new", "ended"}

\* Mutant: the reply to a COMMIT is awaited for ever.
NoticesUnlessCommitting(c) ==
    /\ Running(c)
    /\ pc[c] # "reply"
    /\ session[c] = "gone"
    /\ result' = [result EXCEPT ![c] = IF @ = "none" THEN "blocked" ELSE @]
    /\ Goes(c, "ended")
    /\ UNCHANGED <<server, seen, ddl, history>>

\* The server has ended the session: the next statement tells.
Notices(c) ==
    /\ Running(c)
    /\ session[c] = "gone"
    /\ result' = [result EXCEPT ![c] = IF @ = "none" THEN "blocked" ELSE @]
    /\ Goes(c, "ended")
    /\ UNCHANGED <<server, seen, ddl, history>>

\* The five minutes are over, and an error is reported; or the process dies
\* before it has reported anything.
GivesUp(c) ==
    /\ Running(c)
    /\ \/ result' = [result EXCEPT ![c] = IF @ = "none" THEN "blocked" ELSE @]
       \/ UNCHANGED result
    /\ Goes(c, "ended")
    /\ UNCHANGED <<server, seen, ddl, history>>

-----------------------------------------------------------------------------
(* The server *)

Committed(c) ==
    [View(c) EXCEPT !.runs = @ \cup {[by |-> c, profile |-> tx[c].run]},
                    !.receipts = @ \cup ({c} \X tx[c].receipts)]

\* It executes a COMMIT it has received, whether or not the client waits.
ServerCommits(c) ==
    /\ session[c] = "open"
    /\ wire[c] = "sent"
    /\ db' = Committed(c)
    /\ tx' = [tx EXCEPT ![c] = NoTransaction]
    /\ wire' = [wire EXCEPT ![c] = "done"]
    /\ UNCHANGED <<lock, session, client, history>>

\* The end of a session rolls back and unlocks.
SessionEnds(c) ==
    /\ session' = [session EXCEPT ![c] = "gone"]
    /\ tx' = [tx EXCEPT ![c] = NoTransaction]
    /\ lock' = IF lock = c THEN None ELSE lock
    /\ UNCHANGED <<db, wire, client, history>>

\* The server finds that the client has gone.
Reaps(c) == session[c] = "open" /\ pc[c] = "ended" /\ SessionEnds(c)

\* A restart, a failover, an administrator.
Terminates(c) == session[c] = "open" /\ pc[c] # "ended" /\ SessionEnds(c)

-----------------------------------------------------------------------------
(* Changes by hand: none of them asks for the advisory lock *)

Change ==
    /\ changes < MaxChanges
    /\ changes' = changes + 1
    /\ UNCHANGED <<lock, session, tx, wire, client, base, checked>>

\* DDL: a historical migration, a restored dump, or drift.
Alter ==
    /\ \E o \in {"p1p2", "p2", "p3", "unknown"} \ {db.objects} :
        /\ db.platform => o = "unknown"
        /\ db' = [db EXCEPT !.objects = o]
    /\ UNCHANGED hand
    /\ Change

\* The four scripts, to the end or part of the way.  They wait for a
\* transaction that has created the same objects, and then fail.
Install ==
    /\ db.objects = "empty" /\ ~db.platform
    /\ \A c \in Commands : tx[c].bodies = 0
    /\ db' \in {ByHand("target", "exact"), ByHand("unknown", "none")}
    /\ hand' = TRUE
    /\ Change

\* A row of another revision, or of a run that is not over.
WriteLedger ==
    /\ db.platform
    /\ db' \in {[db EXCEPT !.extra = TRUE], [db EXCEPT !.active = TRUE]}
    /\ UNCHANGED hand
    /\ Change

-----------------------------------------------------------------------------
Client(c) ==
    \/ TryLock(c) \/ PreflightProbe(c) \/ PreflightClassify(c) \/ NoOp(c)
    \/ Begin(c) \/ Reprobe(c) \/ Body(c) \/ Chained(c)
    \/ VerifyRevision(c) \/ VerifyTarget(c) \/ Record(c) \/ Recheck(c)
    \/ SendCommit(c) \/ CommitReply(c) \/ Rollback(c) \/ Unlock(c) \/ Close(c)
    \/ Notices(c)

Server(c) == ServerCommits(c) \/ Reaps(c)

Next ==
    \/ \E c \in Commands :
        Connect(c) \/ Client(c) \/ Fails(c) \/ GivesUp(c) \/ Server(c) \/ Terminates(c)
    \/ Alter \/ Install \/ WriteLedger

Spec == Init /\ [][Next]_vars

\* A command that runs goes on, and so does the server.
Fairness == \A c \in Commands : WF_vars(Client(c)) /\ WF_vars(Server(c))
FairSpec == Spec /\ Fairness

-----------------------------------------------------------------------------
(* Properties *)

\* Nothing partial: a platform schema that did not come by hand came with
\* exactly one run, its two receipts and the successful revision 0001; without
\* such a run there is no trace of one.
LedgerWhole ==
    IF db.platform /\ ~hand
    THEN /\ db.revision = "exact"
         /\ \E c \in Commands, p \in Profiles :
             /\ db.runs = {[by |-> c, profile |-> p]}
             /\ db.receipts = {c} \X Checks
    ELSE db.runs = {} /\ db.receipts = {}

\* Two target transactions never overlap, not even with the session a killed
\* command left behind.
OneApplier ==
    \A c, d \in Commands : tx[c].open /\ tx[d].open => c = d

\* A run names the source its first artifact body really met.
TruthfulProfile ==
    \A r \in db.runs :
        base[r.by] = CASE r.profile = "P3" -> "p3" [] r.profile = "P2" -> "p2" [] OTHER -> "empty"

\* A command that reports ddl_started false has left nothing, neither in the
\* database nor on its way there.
UntouchedWithoutDDL ==
    \A c \in Commands : ~ddl[c] =>
        /\ \A r \in db.runs : r.by # c
        /\ wire[c] = "quiet"

\* What a command calls applied is recorded, and what it calls applied or
\* no_op is the governed target as long as nobody changes it by hand.
SuccessIsGoverned ==
    \A c \in Commands :
        /\ result[c] = "applied" => \E r \in db.runs : r.by = c
        /\ result[c] \in {"applied", "no_op"} /\ checked[c] = changes =>
            db.objects = "target" /\ db.platform /\ db.revision = "exact"

\* Every command that has connected ends, and its lock is free again.
ApplyEnds ==
    \A c \in Commands : pc[c] # "new" ~> pc[c] = "ended" /\ session[c] # "open" /\ lock # c

\* apply.go gives the conditions of a no-op: revision 0001 is successful and
\* exact, there is no other revision, and no run is active.
NoOpOnlyWhenExact ==
    [][\A c \in Commands : result'[c] = "no_op" /\ result[c] # "no_op" =>
        db.revision = "exact" /\ ~db.extra /\ ~db.active]_vars
=============================================================================

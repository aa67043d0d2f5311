-------------------------- MODULE MigrationProofs --------------------------
(***************************************************************************)
(* Theorems about Migration for every number of apply commands and of      *)
(* changes made by hand. The argument has four parts. A transaction is     *)
(* open only in the session that holds the lock (IndLock), so two never    *)
(* overlap. What a session has built and where its client is grow together *)
(* (IndBuild): a COMMIT on its way finds the whole chain, the run and both *)
(* receipts, and no platform schema but its own. What is committed is      *)
(* nothing of the kind or one such run (IndLedger). And what a command has *)
(* recognised stays true until the next change by hand (IndSuccess).       *)
(***************************************************************************)
EXTENDS Migration, TLAPS

Holding == {"probe", "fingerprint", "noop", "begin", "reprobe", "bodies", "revision",
            "verify", "record", "recheck", "commit", "reply", "rollback", "unlock"}

Executing == {"bodies", "revision", "verify", "record", "recheck", "commit"}

IndLock ==
    \A c \in Commands :
        /\ pc[c] = "new" => session[c] = "none"
        /\ pc[c] \in Holding /\ session[c] = "open" => lock = c
        /\ tx[c].open => lock = c /\ session[c] = "open"
        /\ ~tx[c].open => tx[c].bodies = 0
        /\ pc[c] \in {"new", "lock", "probe", "fingerprint", "noop", "begin", "unlock", "close"}
            => ~tx[c].open
        /\ pc[c] \in Executing \cup {"reprobe"} /\ session[c] = "open" => tx[c].open
        /\ wire[c] = "sent" => pc[c] \in {"reply", "ended"}

Chosen == {"begin", "reprobe"} \cup Executing
Verified == {"record", "recheck", "commit"}

IndBuild ==
    \A c \in Commands :
        /\ pc[c] \in Chosen => seen[c].path \in {"install", "adopt_p3", "adopt_p2"}
        /\ tx[c].bodies <= Bodies(seen[c].path)
        /\ tx[c].bodies > 0 => ddl[c] /\ ~db.platform
        /\ tx[c].bodies > 0 /\ seen[c].path = "install" /\ db.objects = "empty"
            => base[c] = "empty"
        /\ tx[c].bodies > 0 /\ seen[c].path # "install" => base[c] = Base(seen[c].path)
        /\ pc[c] \in Executing \ {"bodies"} => ddl[c]
        /\ pc[c] \in Executing \ {"bodies"} /\ session[c] = "open" => Built(c)
        /\ pc[c] \in Verified => base[c] = Base(seen[c].path)
        /\ pc[c] \in {"recheck", "commit"} /\ session[c] = "open" =>
            tx[c].run = profileIDForPath(seen[c].path) /\ tx[c].receipts = Checks
        /\ wire[c] # "quiet" => ddl[c] /\ pc[c] \in {"reply", "unlock", "close", "ended"}
        /\ wire[c] = "done" => ~tx[c].open
        /\ wire[c] = "sent" =>
            /\ seen[c].path \in {"install", "adopt_p3", "adopt_p2"}
            /\ base[c] = Base(seen[c].path)
        /\ wire[c] = "sent" /\ session[c] = "open" =>
            /\ tx[c].open
            /\ Built(c)
            /\ tx[c].run = profileIDForPath(seen[c].path)
            /\ tx[c].receipts = Checks

IndLedger ==
    /\ LedgerWhole
    /\ TruthfulProfile
    /\ hand => db.platform
    /\ ~db.platform => db.revision = "none"
    /\ \A r \in db.runs : wire[r.by] = "done"

Undecided == Chosen \cup {"new", "lock", "probe", "fingerprint", "noop", "reply"}

IndSuccess ==
    \A c \in Commands :
        /\ checked[c] <= changes
        /\ pc[c] \in Undecided => result[c] = "none"
        /\ seen[c].fresh => ~seen[c].platform
        /\ seen[c].platform => db.platform
        /\ seen[c].revision # "none" => db.platform /\ db.revision = seen[c].revision
        /\ pc[c] = "noop" \/ result[c] = "no_op" =>
            db.platform /\ db.revision = "exact" /\ (checked[c] = changes => db.objects = "target")
        /\ pc[c] = "commit" /\ session[c] = "open" /\ checked[c] = changes =>
            db.objects = Base(seen[c].path)
        /\ wire[c] = "sent" /\ session[c] = "open" /\ checked[c] = changes =>
            db.objects = Base(seen[c].path)
        /\ wire[c] = "done" =>
            /\ \E r \in db.runs : r.by = c
            /\ checked[c] = changes => db.objects = "target"
        /\ result[c] = "applied" => wire[c] = "done"

IndInv == TypeOK /\ IndLock /\ IndBuild /\ IndLedger /\ IndSuccess

-----------------------------------------------------------------------------
(* What the operators of the model return *)

\* Setting a field of a database, a transaction or a probe keeps its type.
LEMMA DatabaseTyped ==
  ASSUME NEW d \in Databases, NEW o \in Shapes
  PROVE  /\ [d EXCEPT !.objects = o] \in Databases
         /\ [d EXCEPT !.extra = TRUE] \in Databases
         /\ [d EXCEPT !.active = TRUE] \in Databases
  BY DEF Databases

LEMMA TransactionTyped ==
  /\ NoTransaction \in Transactions
  /\ \A t \in Transactions :
      /\ [t EXCEPT !.open = TRUE] \in Transactions
      /\ \A n \in 0 .. 4 : [t EXCEPT !.bodies = n] \in Transactions
      /\ \A p \in Profiles : [t EXCEPT !.run = p, !.receipts = Checks] \in Transactions
<1>1. NoTransaction \in Transactions
  BY DEF Transactions, NoTransaction
<1>2. ASSUME NEW t \in Transactions
      PROVE  [t EXCEPT !.open = TRUE] \in Transactions
  BY DEF Transactions
<1>3. ASSUME NEW t \in Transactions, NEW n \in 0 .. 4
      PROVE  [t EXCEPT !.bodies = n] \in Transactions
  BY DEF Transactions
<1>4. ASSUME NEW t \in Transactions, NEW p \in Profiles
      PROVE  [t EXCEPT !.run = p, !.receipts = Checks] \in Transactions
  BY DEF Transactions
<1> QED
  BY <1>1, <1>2, <1>3, <1>4

LEMMA ByHandTyped ==
  ASSUME NEW o \in Shapes, NEW r \in Revisions
  PROVE  /\ Unplatformed(o) \in Databases
         /\ ByHand(o, r) \in Databases
         /\ ByHand(o, r).platform
         /\ ByHand(o, r).runs = {} /\ ByHand(o, r).receipts = {}
         /\ ByHand(o, r).revision = r
  BY DEF Unplatformed, ByHand, Databases, Revisions

\* The structural part of a probe repeats the database.
LEMMA ProbeFacts ==
  ASSUME NEW d \in Databases
  PROVE  /\ Probe(d) \in Probes
         /\ Probe(d).fresh => ~d.platform
         /\ Probe(d).platform = d.platform
         /\ Probe(d).revision = d.revision
  BY DEF Probe, Unseen, Probes, Databases, Paths, Revisions

\* A probe is classified by what it holds: a no-op needs the ledger and the
\* target, and the fingerprints leave the structural part alone.
LEMMA ClassifyFacts ==
  ASSUME NEW p \in Probes
  PROVE  /\ Classify(p) \in Paths
         /\ Classify(p) = "no_op" => p.platform /\ p.revision = "exact" /\ p.governed = "target"
  BY DEF Classify, Probes, Paths, Revisions

LEMMA FingerprintFacts ==
  ASSUME NEW p \in Probes, NEW d \in Databases, NEW q \in Fingerprinted(p, d)
  PROVE  /\ q \in Probes
         /\ q.fresh = p.fresh /\ q.platform = p.platform /\ q.revision = p.revision
         /\ ~p.fresh /\ q.governed = "target" => d.objects = "target"
         /\ q.path = "no_op" => q.platform /\ q.revision = "exact" /\ q.governed = "target"
<1>1. PICK w \in Probes :
        /\ q = [w EXCEPT !.path = Classify(w)]
        /\ w.fresh = p.fresh /\ w.platform = p.platform /\ w.revision = p.revision
        /\ ~p.fresh /\ w.governed = "target" => d.objects = "target"
  <2>1. CASE p.fresh
    <3>1. q = [p EXCEPT !.path = Classify(p)]
      BY <2>1 DEF Fingerprinted
    <3> QED
      BY <2>1, <3>1
  <2>2. CASE ~p.fresh
    <3>1. PICK w \in {[p EXCEPT !.source = a, !.governed = g] :
                         a \in {d.objects, "none"},
                         g \in {"none"} \cup ({d.objects} \cap {"target"})} :
            q = [w EXCEPT !.path = Classify(w)]
      BY <2>2 DEF Fingerprinted
    <3>2. PICK a \in {d.objects, "none"}, g \in {"none"} \cup ({d.objects} \cap {"target"}) :
            w = [p EXCEPT !.source = a, !.governed = g]
      BY <3>1
    <3>3. a \in Shapes \cup {"none"} /\ g \in {"target", "none"}
      BY DEF Databases
    <3>4. w \in Probes /\ w.governed = g
      <4>1. [p EXCEPT !.source = a] \in Probes
        BY <3>3 DEF Probes
      <4>2. PICK u \in Probes : u = [p EXCEPT !.source = a]
        BY <4>1
      <4>3. w = [u EXCEPT !.governed = g]
        BY <3>2, <4>2
      <4>4. [u EXCEPT !.governed = g] \in Probes /\ [u EXCEPT !.governed = g].governed = g
        BY <3>3 DEF Probes
      <4> QED
        BY <4>3, <4>4
    <3>5. g = "target" => d.objects = "target"
      BY <3>2
    <3>6. w.fresh = p.fresh /\ w.platform = p.platform /\ w.revision = p.revision
      BY <3>2 DEF Probes
    <3> QED
      BY <3>1, <3>4, <3>5, <3>6
  <2> QED
    BY <2>1, <2>2
<1>2. /\ Classify(w) \in Paths
      /\ Classify(w) = "no_op" => w.platform /\ w.revision = "exact" /\ w.governed = "target"
  BY ClassifyFacts
<1> QED
  BY <1>1, <1>2 DEF Probes

\* A session that has run the whole chain sees a governed ledger, and the
\* target when it started from the right source.
LEMMA BuiltFacts ==
  ASSUME TypeOK, NEW c \in Commands, Built(c)
  PROVE  /\ tx[c].bodies > 0
         /\ View(c) \in Databases
         /\ View(c).objects = IF db.objects = Base(seen[c].path) THEN "target" ELSE "unknown"
         /\ View(c).platform
         /\ View(c).revision = "exact"
         /\ View(c).runs = db.runs
         /\ View(c).receipts = db.receipts
<1>1. tx[c].bodies > 0 /\ tx[c].bodies >= PlatformBody(seen[c].path)
  BY DEF Built, Bodies, PlatformBody
<1>2. db \in Databases
  BY DEF TypeOK
<1>3. View(c) = [db EXCEPT
            !.objects = IF Built(c) /\ @ = Base(seen[c].path) THEN "target" ELSE "unknown",
            !.platform = @ \/ tx[c].bodies >= PlatformBody(seen[c].path),
            !.revision = IF Built(c) THEN "exact" ELSE @]
  BY <1>1 DEF View, TypeOK, Transactions
<1> QED
  BY <1>1, <1>2, <1>3 DEF Databases, Shapes, Revisions

LEMMA CommittedFacts ==
  ASSUME TypeOK, NEW c \in Commands, Built(c), tx[c].run \in Profiles
  PROVE  /\ Committed(c) \in Databases
         /\ Committed(c).objects = View(c).objects
         /\ Committed(c).platform
         /\ Committed(c).revision = "exact"
         /\ Committed(c).runs = db.runs \cup {[by |-> c, profile |-> tx[c].run]}
         /\ Committed(c).receipts = db.receipts \cup ({c} \X tx[c].receipts)
<1>1. tx[c].receipts \subseteq Checks
  BY DEF TypeOK, Transactions
<1>2. [by |-> c, profile |-> tx[c].run] \in [by : Commands, profile : Profiles]
  OBVIOUS
<1>3. /\ View(c) \in Databases
      /\ View(c).platform
      /\ View(c).revision = "exact"
      /\ View(c).runs = db.runs /\ View(c).receipts = db.receipts
  BY BuiltFacts
<1> QED
  BY <1>1, <1>2, <1>3 DEF Committed, Databases

-----------------------------------------------------------------------------
(* The invariant *)

LEMMA InitInd == Init => IndInv
<1> SUFFICES ASSUME Init
             PROVE  IndInv
  OBVIOUS
<1>1. PICK d \in Databases :
        /\ d.runs = {} /\ d.receipts = {}
        /\ ~d.platform => d.revision = "none"
        /\ db = d
  <2>1. CASE \E o \in Sources \cup {"unknown"} : db = Unplatformed(o)
    <3>1. PICK o \in Shapes : db = Unplatformed(o)
      BY <2>1 DEF Shapes
    <3>2. Unplatformed(o) \in Databases
      BY ByHandTyped DEF Revisions
    <3> QED
      BY <3>1, <3>2 DEF Unplatformed
  <2>2. CASE \E o \in {"target", "unknown"}, r \in Revisions : db = ByHand(o, r)
    <3>1. PICK o \in Shapes, r \in Revisions : db = ByHand(o, r)
      BY <2>2 DEF Shapes
    <3> QED
      BY <3>1, ByHandTyped
  <2>3. CASE db = [ByHand("target", "exact") EXCEPT !.extra = TRUE]
    <3>1. "target" \in Shapes /\ "exact" \in Revisions
      BY DEF Shapes, Revisions
    <3>2. /\ ByHand("target", "exact") \in Databases
          /\ ByHand("target", "exact").platform
          /\ ByHand("target", "exact").runs = {}
          /\ ByHand("target", "exact").receipts = {}
      BY <3>1, ByHandTyped
    <3> QED
      BY <2>3, <3>2 DEF Databases
  <2> QED
    BY <2>1, <2>2, <2>3 DEF Init, InitialDatabases
<1>3. /\ db \in Databases
      /\ db.runs = {}
      /\ db.receipts = {}
      /\ ~db.platform => db.revision = "none"
  BY <1>1
<1>4. TypeOK
  <2>1. Unseen \in Probes /\ NoTransaction \in Transactions /\ hand \in BOOLEAN
    BY <1>3 DEF Init, Unseen, Probes, Paths, Revisions, Transactions, NoTransaction, Databases
  <2> QED
    BY <1>3, <2>1, MigrationAssumption DEF Init, TypeOK, Sources, Shapes, Steps
<1>5. IndLock /\ IndBuild
  BY DEF Init, IndLock, IndBuild, NoTransaction, Unseen, Built, Bodies, Executing,
         Chosen, Verified, Holding
<1>6. IndLedger /\ IndSuccess
  BY <1>3 DEF Init, IndLedger, IndSuccess, Undecided, Chosen, Executing,
              LedgerWhole, TruthfulProfile, Unseen
<1> QED
  BY <1>4, <1>5, <1>6 DEF IndInv

\* Every step keeps the lock with the session whose transaction is open.
LEMMA LockNext == TypeOK /\ IndLock /\ [Next]_vars => IndLock'
<1> SUFFICES ASSUME TypeOK, IndLock, [Next]_vars
             PROVE  IndLock'
  OBVIOUS
<1> USE DEF IndLock, TypeOK, Transactions, NoTransaction, Holding, Executing, At, Goes,
            Leaves,
            server, client, history
<1>1. ASSUME NEW c \in Commands, Connect(c)
      PROVE  IndLock'
  BY <1>1 DEF Connect
<1>2. ASSUME NEW c \in Commands, TryLock(c)
      PROVE  IndLock'
  BY <1>2, MigrationAssumption DEF TryLock
<1>3. ASSUME NEW c \in Commands, PreflightProbe(c)
      PROVE  IndLock'
  BY <1>3 DEF PreflightProbe
<1>4. ASSUME NEW c \in Commands, PreflightClassify(c)
      PROVE  IndLock'
  BY <1>4 DEF PreflightClassify
<1>5. ASSUME NEW c \in Commands, NoOp(c)
      PROVE  IndLock'
  BY <1>5 DEF NoOp
<1>6. ASSUME NEW c \in Commands, Begin(c)
      PROVE  IndLock'
  BY <1>6 DEF Begin
<1>7. ASSUME NEW c \in Commands, Reprobe(c)
      PROVE  IndLock'
  BY <1>7 DEF Reprobe
<1>8. ASSUME NEW c \in Commands, Body(c)
      PROVE  IndLock'
  <2>1. /\ pc[c] = "bodies" /\ session[c] = "open" /\ tx[c] \in Transactions
        /\ UNCHANGED <<lock, session, wire>>
    BY <1>8 DEF Body
  <2>2. CASE tx' = [tx EXCEPT ![c].bodies = @ + 1] /\ UNCHANGED pc
    <3>1. tx[c].open => tx'[c].open
      BY <2>1, <2>2
    <3> QED
      BY <2>1, <2>2, <3>1
  <2>3. CASE UNCHANGED tx /\ Leaves(c)
    BY <2>1, <2>3
  <2> QED
    BY <1>8, <2>2, <2>3 DEF Body
<1>9. ASSUME NEW c \in Commands, Chained(c) \/ SendCommit(c)
      PROVE  IndLock'
  BY <1>9 DEF Chained, SendCommit
<1>10. ASSUME NEW c \in Commands, VerifyRevision(c) \/ VerifyTarget(c) \/ Recheck(c)
       PROVE  IndLock'
  BY <1>10 DEF VerifyRevision, VerifyTarget, Recheck, Requires
<1>11. ASSUME NEW c \in Commands, Record(c)
       PROVE  IndLock'
  BY <1>11 DEF Record
<1>12. ASSUME NEW c \in Commands, CommitReply(c)
       PROVE  IndLock'
  BY <1>12 DEF CommitReply
<1>13. ASSUME NEW c \in Commands, Rollback(c)
       PROVE  IndLock'
  BY <1>13 DEF Rollback
<1>14. ASSUME NEW c \in Commands, Unlock(c)
       PROVE  IndLock'
  BY <1>14 DEF Unlock
<1>15. ASSUME NEW c \in Commands, Close(c) \/ Notices(c) \/ GivesUp(c)
       PROVE  IndLock'
  BY <1>15 DEF Close, Notices, GivesUp, Running
<1>16. ASSUME NEW c \in Commands, Fails(c)
       PROVE  IndLock'
  BY <1>16 DEF Fails, Querying
<1>17. ASSUME NEW c \in Commands, ServerCommits(c)
       PROVE  IndLock'
  BY <1>17 DEF ServerCommits
<1>18. ASSUME NEW c \in Commands, Reaps(c) \/ Terminates(c)
       PROVE  IndLock'
  BY <1>18, MigrationAssumption DEF Reaps, Terminates, SessionEnds
<1>19. CASE Alter \/ Install \/ WriteLedger
  BY <1>19 DEF Alter, Install, WriteLedger, Change
<1>20. CASE UNCHANGED vars
  BY <1>20 DEF vars
<1> QED
  BY <1>1, <1>2, <1>3, <1>4, <1>5, <1>6, <1>7, <1>8, <1>9, <1>10, <1>11, <1>12, <1>13,
     <1>14, <1>15, <1>16, <1>17, <1>18, <1>19, <1>20
  DEF Next, Client, Server

\* Every step keeps the types.
LEMMA TypeNext == TypeOK /\ IndLock /\ IndBuild /\ [Next]_vars => TypeOK'
<1> SUFFICES ASSUME TypeOK, IndLock, IndBuild, [Next]_vars
             PROVE  TypeOK'
  OBVIOUS
<1> USE DEF TypeOK, Steps, At, Goes, Leaves, Reports, server, client, history
<1>1. ASSUME NEW c \in Commands, Connect(c)
      PROVE  TypeOK'
  BY <1>1 DEF Connect
<1>2. ASSUME NEW c \in Commands, TryLock(c)
      PROVE  TypeOK'
  BY <1>2 DEF TryLock
<1>3. ASSUME NEW c \in Commands, PreflightProbe(c)
      PROVE  TypeOK'
  <2>1. Probe(db) \in Probes
    BY ProbeFacts
  <2> QED
    BY <1>3, <2>1 DEF PreflightProbe
<1>4. ASSUME NEW c \in Commands, PreflightClassify(c)
      PROVE  TypeOK'
  <2>1. PICK p \in Fingerprinted(seen[c], db) : seen' = [seen EXCEPT ![c] = p]
    BY <1>4 DEF PreflightClassify
  <2>2. p \in Probes
    BY FingerprintFacts
  <2> QED
    BY <1>4, <2>1, <2>2 DEF PreflightClassify
<1>5. ASSUME NEW c \in Commands, NoOp(c)
      PROVE  TypeOK'
  BY <1>5 DEF NoOp
<1>6. ASSUME NEW c \in Commands, Begin(c)
      PROVE  TypeOK'
  <2>1. tx' = [tx EXCEPT ![c] = [tx[c] EXCEPT !.open = TRUE]]
    BY <1>6 DEF Begin
  <2>2. [tx[c] EXCEPT !.open = TRUE] \in Transactions
    BY TransactionTyped
  <2>3. tx' \in [Commands -> Transactions]
    BY <2>1, <2>2
  <2> QED
    BY <1>6, <2>3 DEF Begin
<1>7. ASSUME NEW c \in Commands, Reprobe(c)
      PROVE  TypeOK'
  BY <1>7 DEF Reprobe
<1>8. ASSUME NEW c \in Commands, Body(c)
      PROVE  TypeOK'
  <2>1. ~Built(c) => tx[c].bodies + 1 \in 0 .. 4
    BY DEF IndBuild, Built, Bodies, Transactions
  <2>2. tx' \in [Commands -> Transactions]
    <3>1. ~Built(c) => [tx[c] EXCEPT !.bodies = @ + 1] \in Transactions
      BY <2>1, TransactionTyped
    <3>2. \/ UNCHANGED tx
          \/ ~Built(c) /\ tx' = [tx EXCEPT ![c] = [tx[c] EXCEPT !.bodies = @ + 1]]
      BY <1>8 DEF Body
    <3> QED
      BY <3>1, <3>2
  <2> QED
    BY <1>8, <2>2 DEF Body, BodyEnds, StartsDDL, Databases
<1>9. ASSUME NEW c \in Commands, Chained(c)
      PROVE  TypeOK'
  BY <1>9 DEF Chained
<1>10. ASSUME NEW c \in Commands, VerifyRevision(c)
      PROVE  TypeOK'
  BY <1>10 DEF VerifyRevision, Requires
<1>11. ASSUME NEW c \in Commands, VerifyTarget(c)
      PROVE  TypeOK'
  BY <1>11 DEF VerifyTarget, Requires, View
<1>12. ASSUME NEW c \in Commands, Record(c)
      PROVE  TypeOK'
  <2>1. profileIDForPath(seen[c].path) \in Profiles
    BY DEF profileIDForPath, Profiles
  <2>2. tx' \in [Commands -> Transactions]
    <3>1. [tx[c] EXCEPT !.run = profileIDForPath(seen[c].path), !.receipts = Checks]
            \in Transactions
      BY <2>1, TransactionTyped
    <3>2. tx' = [tx EXCEPT ![c] = [tx[c] EXCEPT !.run = profileIDForPath(seen[c].path),
                                               !.receipts = Checks]]
      BY <1>12 DEF Record
    <3> QED
      BY <3>1, <3>2
  <2> QED
    BY <1>12, <2>2 DEF Record
<1>13. ASSUME NEW c \in Commands, Recheck(c)
      PROVE  TypeOK'
  BY <1>13 DEF Recheck, Requires, View
<1>14. ASSUME NEW c \in Commands, SendCommit(c)
      PROVE  TypeOK'
  BY <1>14 DEF SendCommit
<1>15. ASSUME NEW c \in Commands, CommitReply(c)
      PROVE  TypeOK'
  BY <1>15 DEF CommitReply
<1>16. ASSUME NEW c \in Commands, Rollback(c)
      PROVE  TypeOK'
  <2>1. tx' \in [Commands -> Transactions]
    BY <1>16 DEF Rollback, NoTransaction, Transactions
  <2> QED
    BY <1>16, <2>1 DEF Rollback
<1>17. ASSUME NEW c \in Commands, Unlock(c)
      PROVE  TypeOK'
  BY <1>17 DEF Unlock
<1>18. ASSUME NEW c \in Commands, Close(c) \/ Notices(c) \/ GivesUp(c)
      PROVE  TypeOK'
  BY <1>18 DEF Close, Notices, GivesUp, Running
<1>19. ASSUME NEW c \in Commands, Fails(c)
      PROVE  TypeOK'
  BY <1>19 DEF Fails, Querying
<1>20. ASSUME NEW c \in Commands, ServerCommits(c)
      PROVE  TypeOK'
  <2>1. /\ Built(c)
        /\ tx[c].run \in Profiles
    BY <1>20 DEF IndBuild, ServerCommits, profileIDForPath, Profiles
  <2>2. Committed(c) \in Databases
    BY <2>1, CommittedFacts
  <2>3. tx' \in [Commands -> Transactions]
    BY <1>20 DEF ServerCommits, NoTransaction, Transactions
  <2> QED
    BY <1>20, <2>2, <2>3 DEF ServerCommits
<1>21. ASSUME NEW c \in Commands, Reaps(c) \/ Terminates(c)
      PROVE  TypeOK'
  <2>1. tx' \in [Commands -> Transactions]
    BY <1>21, TransactionTyped DEF Reaps, Terminates, SessionEnds
  <2> QED
    BY <1>21, <2>1 DEF Reaps, Terminates, SessionEnds
<1>22. CASE Alter
  <2>1. db' \in Databases
    <3>1. PICK o \in Shapes : db' = [db EXCEPT !.objects = o]
      BY <1>22 DEF Alter, Shapes, Sources
    <3> QED
      BY <3>1, DatabaseTyped
  <2> QED
    BY <1>22, <2>1 DEF Alter, Change
<1>23. CASE Install
  <2>1. db' \in Databases
    BY <1>23, ByHandTyped DEF Install, Shapes, Sources, Revisions
  <2> QED
    BY <1>23, <2>1 DEF Install, Change
<1>24. CASE WriteLedger
  <2>1. db' \in Databases
    BY <1>24, DatabaseTyped DEF WriteLedger, Shapes, Sources
  <2> QED
    BY <1>24, <2>1 DEF WriteLedger, Change
<1>25. CASE UNCHANGED vars
  BY <1>25 DEF vars
<1> QED
  BY <1>1, <1>2, <1>3, <1>4, <1>5, <1>6, <1>7, <1>8, <1>9, <1>10, <1>11, <1>12, <1>13,
     <1>14, <1>15, <1>16, <1>17, <1>18, <1>19, <1>20, <1>21, <1>22, <1>23, <1>24, <1>25
  DEF Next, Client, Server

\* Every step keeps the transaction in pace with its client.
LEMMA BuildNext ==
  TypeOK /\ IndLock /\ IndBuild /\ IndLedger /\ [Next]_vars => IndBuild'
<1> SUFFICES ASSUME TypeOK, IndLock, IndBuild, IndLedger, [Next]_vars
             PROVE  IndBuild'
  OBVIOUS
<1> USE DEF IndBuild, IndLock, TypeOK, Transactions, NoTransaction, Databases, Built,
            Bodies, Chosen, Executing, Verified, At, Goes, Leaves, server, client, history
<1>1. ASSUME NEW c \in Commands, Connect(c)
      PROVE  IndBuild'
  <2>1. /\ pc[c] = "new" /\ session[c] = "none"
        /\ UNCHANGED <<db, tx, wire, seen, ddl, base>>
    BY <1>1 DEF Connect
  <2>2. wire[c] = "quiet"
    BY <2>1
  <2>3. /\ pc'[c] \in {"lock", "ended"}
        /\ \A d \in Commands \ {c} : pc'[d] = pc[d] /\ session'[d] = session[d]
    BY <1>1 DEF Connect
  <2> QED
    BY <2>1, <2>2, <2>3
<1>2. ASSUME NEW c \in Commands, TryLock(c)
      PROVE  IndBuild'
  BY <1>2 DEF TryLock
<1>3. ASSUME NEW c \in Commands, PreflightProbe(c)
      PROVE  IndBuild'
  BY <1>3 DEF PreflightProbe, Probe, Unseen
<1>4. ASSUME NEW c \in Commands, PreflightClassify(c)
      PROVE  IndBuild'
  <2>1. PICK p \in Fingerprinted(seen[c], db) :
          /\ seen' = [seen EXCEPT ![c] = p]
          /\ \/ Leaves(c)
             \/ p.path = "no_op" /\ Goes(c, "noop")
             \/ p.path \notin {"block", "no_op"} /\ Goes(c, "begin")
    BY <1>4 DEF PreflightClassify
  <2>2. p \in Probes
    BY FingerprintFacts
  <2>3. p.path \in Paths
    BY <2>2 DEF Probes
  <2>4. UNCHANGED <<server, ddl, base>>
    BY <1>4 DEF PreflightClassify
  <2> QED
    BY <1>4, <2>1, <2>3, <2>4 DEF PreflightClassify, Paths
<1>5. ASSUME NEW c \in Commands, NoOp(c)
      PROVE  IndBuild'
  BY <1>5 DEF NoOp
<1>6. ASSUME NEW c \in Commands, Begin(c)
      PROVE  IndBuild'
  BY <1>6 DEF Begin
<1>7. ASSUME NEW c \in Commands, Reprobe(c)
      PROVE  IndBuild'
  <2>1. /\ Goes(c, "bodies") \/ Leaves(c)
        /\ pc[c] = "reprobe"
        /\ UNCHANGED <<server, seen, ddl, history>>
    BY <1>7 DEF Reprobe
  <2> QED
    BY <2>1
<1>8. ASSUME NEW c \in Commands, Body(c)
      PROVE  IndBuild'
  BY <1>8 DEF Body, BodyEnds, BodyFits, StartsDDL
<1>9. ASSUME NEW c \in Commands, Chained(c)
      PROVE  IndBuild'
  BY <1>9 DEF Chained
<1>10. ASSUME NEW c \in Commands, VerifyRevision(c)
      PROVE  IndBuild'
  BY <1>10 DEF VerifyRevision, Requires
<1>11. ASSUME NEW c \in Commands, VerifyTarget(c)
      PROVE  IndBuild'
  <2>1. /\ pc[c] = "verify" /\ session[c] = "open"
        /\ UNCHANGED <<server, seen, ddl, base>>
    BY <1>11 DEF VerifyTarget
  <2>2. Goes(c, "record") \/ Leaves(c)
    BY <1>11 DEF VerifyTarget, Requires
  <2>3. Goes(c, "record") => base[c] = Base(seen[c].path)
    <3>1. Built(c) /\ tx[c].bodies > 0 /\ seen[c].path \in {"install", "adopt_p3", "adopt_p2"}
      BY <2>1, BuiltFacts
    <3>2. Goes(c, "record") => db.objects = Base(seen[c].path)
      BY <1>11, <2>1, <3>1, BuiltFacts DEF VerifyTarget, Requires
    <3> QED
      BY <3>1, <3>2 DEF Base
  <2>4. CASE Goes(c, "record")
    <3>1. /\ pc'[c] = "record"
          /\ \A d \in Commands \ {c} : pc'[d] = pc[d]
      BY <2>4
    <3> QED
      BY <2>1, <2>3, <2>4, <3>1
  <2>5. CASE Leaves(c)
    BY <2>1, <2>5
  <2> QED
    BY <2>2, <2>4, <2>5
<1>12. ASSUME NEW c \in Commands, Record(c)
      PROVE  IndBuild'
  BY <1>12 DEF Record
<1>13. ASSUME NEW c \in Commands, Recheck(c)
      PROVE  IndBuild'
  <2>1. /\ pc[c] = "recheck" /\ session[c] = "open"
        /\ UNCHANGED <<server, seen, ddl, base>>
    BY <1>13 DEF Recheck
  <2>2. Goes(c, "commit") \/ Leaves(c)
    BY <1>13 DEF Recheck, Requires
  <2> QED
    BY <2>1, <2>2
<1>14. ASSUME NEW c \in Commands, SendCommit(c)
      PROVE  IndBuild'
  BY <1>14 DEF SendCommit
<1>15. ASSUME NEW c \in Commands, CommitReply(c)
      PROVE  IndBuild'
  <2>1. /\ Goes(c, "unlock")
        /\ pc[c] = "reply" /\ wire[c] = "done"
        /\ UNCHANGED <<server, seen, ddl, history>>
    BY <1>15 DEF CommitReply
  <2> QED
    BY <2>1
<1>16. ASSUME NEW c \in Commands, Rollback(c)
      PROVE  IndBuild'
  BY <1>16 DEF Rollback
<1>17. ASSUME NEW c \in Commands, Unlock(c)
      PROVE  IndBuild'
  BY <1>17 DEF Unlock
<1>18. ASSUME NEW c \in Commands, Close(c) \/ Notices(c) \/ GivesUp(c)
      PROVE  IndBuild'
  BY <1>18 DEF Close, Notices, GivesUp, Running
<1>19. ASSUME NEW c \in Commands, Fails(c)
      PROVE  IndBuild'
  BY <1>19 DEF Fails, Querying
<1>20. ASSUME NEW c \in Commands, ServerCommits(c)
      PROVE  IndBuild'
  BY <1>20 DEF ServerCommits, Committed, View
<1>21. ASSUME NEW c \in Commands, Reaps(c) \/ Terminates(c)
      PROVE  IndBuild'
  <2>1. /\ session' = [session EXCEPT ![c] = "gone"]
        /\ tx' = [tx EXCEPT ![c] = NoTransaction]
        /\ UNCHANGED <<db, wire, client, history>>
    BY <1>21 DEF Reaps, Terminates, SessionEnds
  <2>2. session'[c] # "open" /\ ~tx'[c].open /\ tx'[c].bodies = 0
    BY <2>1
  <2>3. \A d \in Commands \ {c} : session'[d] = session[d] /\ tx'[d] = tx[d]
    BY <2>1
  <2> QED
    BY <2>1, <2>2, <2>3
<1>22. CASE Alter
  BY <1>22 DEF Alter, Change
<1>23. CASE Install
  BY <1>23 DEF Install, Change, ByHand, Unplatformed
<1>24. CASE WriteLedger
  BY <1>24 DEF WriteLedger, Change
<1>25. CASE UNCHANGED vars
  BY <1>25 DEF vars
<1> QED
  BY <1>1, <1>2, <1>3, <1>4, <1>5, <1>6, <1>7, <1>8, <1>9, <1>10, <1>11, <1>12, <1>13,
     <1>14, <1>15, <1>16, <1>17, <1>18, <1>19, <1>20, <1>21, <1>22, <1>23, <1>24, <1>25
  DEF Next, Client, Server

\* Every step keeps the ledger whole.
LEMMA LedgerNext ==
  TypeOK /\ IndLock /\ IndBuild /\ IndLedger /\ [Next]_vars => IndLedger'
<1> SUFFICES ASSUME TypeOK, IndLock, IndBuild, IndLedger, [Next]_vars
             PROVE  IndLedger'
  OBVIOUS
<1> USE DEF IndLedger, LedgerWhole, TruthfulProfile, At, Goes, Leaves, server, client,
            history
<1>1. ASSUME NEW c \in Commands, Connect(c)
      PROVE  IndLedger'
  BY <1>1 DEF Connect
<1>2. ASSUME NEW c \in Commands, TryLock(c)
      PROVE  IndLedger'
  BY <1>2 DEF TryLock
<1>3. ASSUME NEW c \in Commands, PreflightProbe(c)
      PROVE  IndLedger'
  BY <1>3 DEF PreflightProbe, Probe, Unseen
<1>4. ASSUME NEW c \in Commands, PreflightClassify(c)
      PROVE  IndLedger'
  BY <1>4 DEF PreflightClassify, Fingerprinted, Classify
<1>5. ASSUME NEW c \in Commands, NoOp(c)
      PROVE  IndLedger'
  BY <1>5 DEF NoOp
<1>6. ASSUME NEW c \in Commands, Begin(c)
      PROVE  IndLedger'
  BY <1>6 DEF Begin
<1>7. ASSUME NEW c \in Commands, Reprobe(c)
      PROVE  IndLedger'
  BY <1>7 DEF Reprobe
<1>8. ASSUME NEW c \in Commands, Body(c)
      PROVE  IndLedger'
  <2>1. \A r \in db.runs : r.by # c
    BY <1>8 DEF Body, IndBuild
  <2>2. /\ UNCHANGED <<db, hand, wire>>
        /\ \A d \in Commands \ {c} : base'[d] = base[d]
    BY <1>8 DEF Body, BodyEnds, TypeOK
  <2>3. \A r \in db.runs : r.by \in Commands
    BY DEF TypeOK, Databases
  <2> QED
    BY <2>1, <2>2, <2>3
<1>9. ASSUME NEW c \in Commands, Chained(c)
      PROVE  IndLedger'
  BY <1>9 DEF Chained
<1>10. ASSUME NEW c \in Commands, VerifyRevision(c)
      PROVE  IndLedger'
  BY <1>10 DEF VerifyRevision, Requires
<1>11. ASSUME NEW c \in Commands, VerifyTarget(c)
      PROVE  IndLedger'
  BY <1>11 DEF VerifyTarget, Requires, View
<1>12. ASSUME NEW c \in Commands, Record(c)
      PROVE  IndLedger'
  BY <1>12 DEF Record
<1>13. ASSUME NEW c \in Commands, Recheck(c)
      PROVE  IndLedger'
  BY <1>13 DEF Recheck, Requires, View
<1>14. ASSUME NEW c \in Commands, SendCommit(c)
      PROVE  IndLedger'
  <2>1. \A r \in db.runs : r.by # c
    BY <1>14 DEF SendCommit, IndBuild
  <2>2. /\ UNCHANGED <<db, hand, base>>
        /\ \A d \in Commands \ {c} : wire'[d] = wire[d]
    BY <1>14 DEF SendCommit, TypeOK
  <2>3. \A r \in db.runs : r.by \in Commands
    BY DEF TypeOK, Databases
  <2> QED
    BY <2>1, <2>2, <2>3
<1>15. ASSUME NEW c \in Commands, CommitReply(c)
      PROVE  IndLedger'
  BY <1>15 DEF CommitReply
<1>16. ASSUME NEW c \in Commands, Rollback(c)
      PROVE  IndLedger'
  BY <1>16 DEF Rollback
<1>17. ASSUME NEW c \in Commands, Unlock(c)
      PROVE  IndLedger'
  BY <1>17 DEF Unlock
<1>18. ASSUME NEW c \in Commands, Close(c) \/ Notices(c) \/ GivesUp(c)
      PROVE  IndLedger'
  BY <1>18 DEF Close, Notices, GivesUp, Running
<1>19. ASSUME NEW c \in Commands, Fails(c)
      PROVE  IndLedger'
  BY <1>19 DEF Fails, Querying
<1>20. ASSUME NEW c \in Commands, ServerCommits(c)
      PROVE  IndLedger'
  <2>1. /\ Built(c) /\ tx[c].bodies > 0
        /\ tx[c].run = profileIDForPath(seen[c].path) /\ tx[c].receipts = Checks
        /\ seen[c].path \in {"install", "adopt_p3", "adopt_p2"}
        /\ base[c] = Base(seen[c].path)
    BY <1>20, BuiltFacts DEF ServerCommits, IndBuild
  <2>2. ~db.platform /\ db.runs = {} /\ db.receipts = {} /\ ~hand
    BY <2>1 DEF IndBuild
  <2>3. tx[c].run \in Profiles
    BY <2>1 DEF profileIDForPath, Profiles
  <2>4. /\ db'.platform
        /\ db'.revision = "exact"
        /\ db'.runs = {[by |-> c, profile |-> tx[c].run]}
        /\ db'.receipts = {c} \X Checks
    BY <1>20, <2>1, <2>2, <2>3, CommittedFacts DEF ServerCommits
  <2>5. base[c] = CASE tx[c].run = "P3" -> "p3" [] tx[c].run = "P2" -> "p2" [] OTHER -> "empty"
    BY <2>1 DEF profileIDForPath, Base
  <2>6. wire'[c] = "done" /\ UNCHANGED <<base, hand>>
    BY <1>20 DEF ServerCommits, TypeOK
  <2> QED
    BY <2>2, <2>3, <2>4, <2>5, <2>6
<1>21. ASSUME NEW c \in Commands, Reaps(c) \/ Terminates(c)
      PROVE  IndLedger'
  BY <1>21 DEF Reaps, Terminates, SessionEnds
<1>22. CASE Alter
  BY <1>22 DEF Alter, Change
<1>23. CASE Install
  BY <1>23 DEF Install, Change, ByHand, Unplatformed
<1>24. CASE WriteLedger
  <2>1. /\ db'.platform = db.platform /\ db'.revision = db.revision
        /\ db'.runs = db.runs /\ db'.receipts = db.receipts
    <3>1. db \in Databases
      BY DEF TypeOK
    <3>2. \/ db' = [db EXCEPT !.extra = TRUE]
          \/ db' = [db EXCEPT !.active = TRUE]
      BY <1>24 DEF WriteLedger
    <3> QED
      BY <3>1, <3>2 DEF Databases
  <2> QED
    BY <1>24, <2>1 DEF WriteLedger, Change
<1>25. CASE UNCHANGED vars
  BY <1>25 DEF vars
<1> QED
  BY <1>1, <1>2, <1>3, <1>4, <1>5, <1>6, <1>7, <1>8, <1>9, <1>10, <1>11, <1>12, <1>13,
     <1>14, <1>15, <1>16, <1>17, <1>18, <1>19, <1>20, <1>21, <1>22, <1>23, <1>24, <1>25
  DEF Next, Client, Server

\* Every step keeps what a command has recognised true until the next change.
LEMMA SuccessNext ==
  TypeOK /\ IndLock /\ IndBuild /\ IndLedger /\ IndSuccess /\ [Next]_vars => IndSuccess'
<1> SUFFICES ASSUME TypeOK, IndLock, IndBuild, IndLedger, IndSuccess, [Next]_vars
             PROVE  IndSuccess'
  OBVIOUS
<1> USE DEF IndSuccess, Undecided, Chosen, Executing, TypeOK, At, Goes, Leaves, Reports,
            server, client, history
<1>1. ASSUME NEW c \in Commands, Connect(c)
      PROVE  IndSuccess'
  <2>1. /\ pc[c] = "new"
        /\ UNCHANGED <<db, wire, seen, changes, checked>>
    BY <1>1 DEF Connect
  <2>2. wire[c] = "quiet" /\ result[c] = "none"
    BY <2>1 DEF IndBuild
  <2>3. \A d \in Commands \ {c} : /\ pc'[d] = pc[d] /\ session'[d] = session[d]
                                  /\ result'[d] = result[d]
    BY <1>1 DEF Connect
  <2>4. \/ pc'[c] = "lock" /\ result'[c] = "none"
        \/ pc'[c] = "ended" /\ result'[c] = "blocked"
    BY <1>1, <2>2 DEF Connect
  <2> QED
    BY <2>1, <2>2, <2>3, <2>4
<1>2. ASSUME NEW c \in Commands, TryLock(c)
      PROVE  IndSuccess'
  BY <1>2 DEF TryLock
<1>3. ASSUME NEW c \in Commands, PreflightProbe(c)
      PROVE  IndSuccess'
  <2>1. /\ Probe(db).fresh => ~Probe(db).platform
        /\ Probe(db).platform = db.platform
        /\ Probe(db).revision = db.revision
    BY ProbeFacts
  <2>2. wire[c] = "quiet"
    BY <1>3 DEF PreflightProbe, IndBuild
  <2> QED
    BY <1>3, <2>1, <2>2 DEF PreflightProbe, IndLedger
<1>4. ASSUME NEW c \in Commands, PreflightClassify(c)
      PROVE  IndSuccess'
  <2>1. PICK p \in Fingerprinted(seen[c], db) :
          /\ seen' = [seen EXCEPT ![c] = p]
          /\ checked' = [checked EXCEPT
                           ![c] = IF p.governed = "target" THEN changes ELSE checked[c]]
          /\ \/ Leaves(c) /\ Reports(c, "blocked")
             \/ p.path = "no_op" /\ Goes(c, "noop") /\ UNCHANGED result
             \/ Goes(c, "begin") /\ UNCHANGED result
    BY <1>4 DEF PreflightClassify
  <2>2. /\ p \in Probes
        /\ p.fresh = seen[c].fresh /\ p.platform = seen[c].platform
        /\ p.revision = seen[c].revision
        /\ ~seen[c].fresh /\ p.governed = "target" => db.objects = "target"
        /\ p.path = "no_op" => p.platform /\ p.revision = "exact" /\ p.governed = "target"
    BY FingerprintFacts
  <2>3. wire[c] = "quiet" /\ UNCHANGED <<server, changes>>
    BY <1>4 DEF PreflightClassify, IndBuild
  <2>4. result[c] = "none"
    BY <1>4 DEF PreflightClassify
  <2>5. /\ \A d \in Commands \ {c} : /\ pc'[d] = pc[d] /\ result'[d] = result[d]
                                     /\ seen'[d] = seen[d] /\ checked'[d] = checked[d]
        /\ seen'[c] = p
        /\ checked'[c] = IF p.governed = "target" THEN changes ELSE checked[c]
        /\ \/ pc'[c] \in {"rollback", "unlock"} /\ result'[c] = "blocked"
           \/ p.path = "no_op" /\ pc'[c] = "noop" /\ result'[c] = "none"
           \/ pc'[c] = "begin" /\ result'[c] = "none"
    BY <2>1, <2>4
  <2>6. p.path = "no_op" => db.platform /\ db.revision = "exact" /\ db.objects = "target"
    BY <2>2
  <2>7. checked'[c] <= changes
    BY <2>5
  <2> QED
    BY <2>2, <2>3, <2>5, <2>6, <2>7
<1>5. ASSUME NEW c \in Commands, NoOp(c)
      PROVE  IndSuccess'
  BY <1>5 DEF NoOp
<1>6. ASSUME NEW c \in Commands, Begin(c)
      PROVE  IndSuccess'
  BY <1>6 DEF Begin
<1>7. ASSUME NEW c \in Commands, Reprobe(c)
      PROVE  IndSuccess'
  BY <1>7 DEF Reprobe
<1>8. ASSUME NEW c \in Commands, Body(c)
      PROVE  IndSuccess'
  BY <1>8 DEF Body, BodyEnds, BodyFits, StartsDDL
<1>9. ASSUME NEW c \in Commands, Chained(c)
      PROVE  IndSuccess'
  BY <1>9 DEF Chained
<1>10. ASSUME NEW c \in Commands, VerifyRevision(c)
      PROVE  IndSuccess'
  BY <1>10 DEF VerifyRevision, Requires
<1>11. ASSUME NEW c \in Commands, VerifyTarget(c)
      PROVE  IndSuccess'
  BY <1>11 DEF VerifyTarget, Requires, View
<1>12. ASSUME NEW c \in Commands, Record(c)
      PROVE  IndSuccess'
  BY <1>12 DEF Record
<1>13. ASSUME NEW c \in Commands, Recheck(c)
      PROVE  IndSuccess'
  <2>1. /\ pc[c] = "recheck" /\ session[c] = "open" /\ wire[c] = "quiet" /\ result[c] = "none"
        /\ UNCHANGED <<server, seen, changes>>
        /\ checked' = [checked EXCEPT ![c] = changes]
    BY <1>13 DEF Recheck, IndBuild
  <2>2. Built(c)
    BY <2>1 DEF IndBuild
  <2>3. \/ pc'[c] \in {"rollback", "unlock"} /\ result'[c] = "blocked"
        \/ pc'[c] = "commit" /\ result'[c] = "none" /\ View(c).objects = "target"
    BY <1>13 DEF Recheck, Requires
  <2>4. View(c).objects = "target" => db.objects = Base(seen[c].path)
    BY <2>2, BuiltFacts
  <2>5. \A d \in Commands \ {c} : /\ pc'[d] = pc[d] /\ result'[d] = result[d]
                                  /\ checked'[d] = checked[d]
    BY <1>13, <2>1 DEF Recheck, Requires
  <2> QED
    BY <2>1, <2>3, <2>4, <2>5
<1>14. ASSUME NEW c \in Commands, SendCommit(c)
      PROVE  IndSuccess'
  <2>1. /\ pc[c] = "commit" /\ session[c] = "open" /\ result[c] = "none"
        /\ pc'[c] = "reply" /\ wire'[c] = "sent"
        /\ UNCHANGED <<db, session, seen, result, changes, checked>>
    BY <1>14 DEF SendCommit
  <2>2. \A d \in Commands \ {c} : pc'[d] = pc[d] /\ wire'[d] = wire[d]
    BY <1>14 DEF SendCommit
  <2> QED
    BY <2>1, <2>2
<1>15. ASSUME NEW c \in Commands, CommitReply(c)
      PROVE  IndSuccess'
  BY <1>15 DEF CommitReply
<1>16. ASSUME NEW c \in Commands, Rollback(c)
      PROVE  IndSuccess'
  BY <1>16 DEF Rollback
<1>17. ASSUME NEW c \in Commands, Unlock(c)
      PROVE  IndSuccess'
  BY <1>17 DEF Unlock
<1>18. ASSUME NEW c \in Commands, Close(c) \/ Notices(c) \/ GivesUp(c)
      PROVE  IndSuccess'
  BY <1>18 DEF Close, Notices, GivesUp, Running
<1>19. ASSUME NEW c \in Commands, Fails(c)
      PROVE  IndSuccess'
  BY <1>19 DEF Fails, Querying
<1>20. ASSUME NEW c \in Commands, ServerCommits(c)
      PROVE  IndSuccess'
  <2>1. /\ Built(c) /\ tx[c].bodies > 0 /\ tx[c].open
        /\ tx[c].run \in Profiles
        /\ pc[c] \in {"reply", "ended"}
    BY <1>20, BuiltFacts DEF ServerCommits, IndBuild, IndLock, profileIDForPath, Profiles
  <2>2. ~db.platform /\ db.runs = {}
    BY <2>1 DEF IndBuild, IndLedger, LedgerWhole
  <2>3. /\ db' = Committed(c)
        /\ wire' = [wire EXCEPT ![c] = "done"]
        /\ UNCHANGED <<session, pc, seen, result, changes, checked>>
        /\ wire[c] = "sent" /\ session[c] = "open"
    BY <1>20 DEF ServerCommits
  <2>4. /\ db'.platform
        /\ \E r \in db'.runs : r.by = c
        /\ db.objects = Base(seen[c].path) => db'.objects = "target"
    <3>1. /\ db'.platform
          /\ [by |-> c, profile |-> tx[c].run] \in db'.runs
          /\ db'.objects = View(c).objects
      BY <2>1, <2>3, CommittedFacts
    <3>2. db.objects = Base(seen[c].path) => View(c).objects = "target"
      BY <2>1, BuiltFacts
    <3> QED
      BY <3>1, <3>2
  <2>5. \A d \in Commands : ~seen[d].platform /\ seen[d].revision = "none" /\ wire[d] # "done"
    BY <2>2, IndSuccess DEF Probes
  <2>6. \A d \in Commands : pc[d] # "noop" /\ result[d] \notin {"no_op", "applied"}
    BY <2>2, <2>5
  <2>7. \A d \in Commands \ {c} : ~tx[d].open
    BY <2>1 DEF IndLock
  <2>8. \A d \in Commands \ {c} : session[d] = "open" => pc[d] # "commit" /\ wire[d] # "sent"
    BY <2>7 DEF IndLock, IndBuild
  <2> QED
    BY <2>1, <2>3, <2>4, <2>5, <2>6, <2>8
<1>21. ASSUME NEW c \in Commands, Reaps(c) \/ Terminates(c)
      PROVE  IndSuccess'
  BY <1>21 DEF Reaps, Terminates, SessionEnds
<1>22. CASE Alter
  BY <1>22 DEF Alter, Change
<1>23. CASE Install
  <2>1. /\ changes' = changes + 1
        /\ UNCHANGED <<session, wire, pc, seen, result, checked>>
        /\ ~db.platform
    BY <1>23 DEF Install, Change
  <2>2. db'.platform
    BY <1>23, ByHandTyped DEF Install, Shapes, Revisions
  <2>3. \A d \in Commands : ~seen[d].platform /\ seen[d].revision = "none" /\ wire[d] # "done"
    BY <2>1, IndSuccess DEF Probes, IndLedger, LedgerWhole
  <2> QED
    BY <2>1, <2>2, <2>3
<1>24. CASE WriteLedger
  <2>1. /\ db'.platform = db.platform /\ db'.revision = db.revision
        /\ db'.runs = db.runs
    <3>1. \/ db' = [db EXCEPT !.extra = TRUE]
          \/ db' = [db EXCEPT !.active = TRUE]
      BY <1>24 DEF WriteLedger
    <3> QED
      BY <3>1 DEF Databases
  <2> QED
    BY <1>24, <2>1 DEF WriteLedger, Change
<1>25. CASE UNCHANGED vars
  BY <1>25 DEF vars
<1> QED
  BY <1>1, <1>2, <1>3, <1>4, <1>5, <1>6, <1>7, <1>8, <1>9, <1>10, <1>11, <1>12, <1>13,
     <1>14, <1>15, <1>16, <1>17, <1>18, <1>19, <1>20, <1>21, <1>22, <1>23, <1>24, <1>25
  DEF Next, Client, Server

\* Every step keeps all of it.
LEMMA IndInvNext == IndInv /\ [Next]_vars => IndInv'
  BY TypeNext, LockNext, BuildNext, LedgerNext, SuccessNext DEF IndInv

-----------------------------------------------------------------------------
(* Theorems *)

\* The strengthening is an invariant of every behaviour.
THEOREM IndInvHolds == Spec => []IndInv
  BY InitInd, IndInvNext, PTL DEF Spec

\* Every variable keeps its type, whatever the commands, the server and the
\* people at the database do.
THEOREM TypeOKHolds == Spec => []TypeOK
<1>1. IndInv => TypeOK
  BY DEF IndInv
<1> QED
  BY <1>1, IndInvHolds, PTL

\* Two target transactions never overlap: the advisory lock of lock.go keeps
\* them apart, with the session of a killed command too.
THEOREM OneApplierHolds == Spec => []OneApplier
<1>1. IndInv => OneApplier
  BY DEF IndInv, IndLock, OneApplier, TypeOK, Transactions
<1> QED
  BY <1>1, IndInvHolds, PTL

\* A platform schema comes with the whole ledger of one run, or it came by
\* hand: Apply commits the artifacts and their evidence together.
THEOREM LedgerWholeHolds == Spec => []LedgerWhole
<1>1. IndInv => LedgerWhole
  BY DEF IndInv, IndLedger
<1> QED
  BY <1>1, IndInvHolds, PTL

\* The profile of a run is that of the database its first body met, although
\* it was chosen two probes earlier.
THEOREM TruthfulProfileHolds == Spec => []TruthfulProfile
<1>1. IndInv => TruthfulProfile
  BY DEF IndInv, IndLedger
<1> QED
  BY <1>1, IndInvHolds, PTL

\* A command that reports ddl_started false has no run in the ledger and no
\* COMMIT on its way.
THEOREM UntouchedWithoutDDLHolds == Spec => []UntouchedWithoutDDL
<1>1. IndInv => UntouchedWithoutDDL
  <2> SUFFICES ASSUME IndInv, NEW c \in Commands, ~ddl[c]
               PROVE  (\A r \in db.runs : r.by # c) /\ wire[c] = "quiet"
    BY DEF UntouchedWithoutDDL
  <2>1. wire[c] = "quiet"
    BY DEF IndInv, IndBuild
  <2> QED
    BY <2>1 DEF IndInv, IndLedger
<1> QED
  BY <1>1, IndInvHolds, PTL

\* An answer of applied or no_op is true until the next change by hand.
THEOREM SuccessIsGovernedHolds == Spec => []SuccessIsGoverned
<1>1. IndInv => SuccessIsGoverned
  <2> SUFFICES ASSUME IndInv, NEW c \in Commands
               PROVE  /\ result[c] = "applied" => \E r \in db.runs : r.by = c
                      /\ result[c] \in {"applied", "no_op"} /\ checked[c] = changes =>
                           db.objects = "target" /\ db.platform /\ db.revision = "exact"
    BY DEF SuccessIsGoverned
  <2> USE DEF IndInv, IndSuccess
  <2>1. CASE result[c] = "applied"
    <3>1. /\ \E r \in db.runs : r.by = c
          /\ checked[c] = changes => db.objects = "target"
      BY <2>1
    <3>2. db.platform /\ db.revision = "exact"
      BY <3>1 DEF IndLedger, LedgerWhole
    <3> QED
      BY <2>1, <3>1, <3>2
  <2>2. CASE result[c] = "no_op"
    BY <2>2
  <2> QED
    BY <2>1, <2>2
<1> QED
  BY <1>1, IndInvHolds, PTL
=============================================================================

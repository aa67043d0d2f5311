# ClarityIT in TLA+

Specifications of the Go services of ClarityIT (`src/services/api`), checked
with TLC on small instances, and theorems about them checked with TLAPS for all
instances. `PROJECT.json` is the index: components, runs, mutants, the map from
definitions to source lines, findings, hazards and theorems. Paths below are
relative to `src/services/api/` unless they begin with `src/`.

## 1. The system

One PostgreSQL database holds all state. Several processes share it:

- the **API** (`cmd/api`), possibly in several replicas, one goroutine per HTTP
  request, and one background goroutine, the approval monitor;
- the **outbox worker** (`cmd/outbox-worker`), possibly in several replicas;
- the **context worker** (`cmd/context-worker`), which reads a durable JetStream
  consumer;
- the **reasoning worker** (`src/services/workers/reasoning`), a stateless HTTP
  service in Python;
- **clarity-migrate** (`cmd/clarity-migrate`), run by an operator.

NATS JetStream carries events from the outbox worker to the context worker,
Redis carries notifications to the API's websocket hub, MinIO holds files,
Proxmox is reached over HTTPS.

### Inventory

| component | state it keeps | operations | interacts with | what is hard | what makes it correct |
|---|---|---|---|---|---|
| outbox (`internal/outbox`, `cmd/outbox-worker`) | `outbox_events` | `Write` in the caller's transaction; claim, publish, mark sent, mark failed, dead-letter, notice | every mutating handler; JetStream | replicas claim concurrently; autocommitted statements whose errors are ignored; lost acknowledgements; crashes | no row worked on twice, nothing marked sent unsent, nothing given up early, every event settled |
| event stream (`internal/natsx`) | streams `CLARITY_EVENTS`, `CLARITY_DLQ`, their consumers | set-up at start | both workers | duplicates, redelivery | dead letters never feed themselves |
| context worker (`cmd/context-worker`) | the consumer's delivery counts, a client buffer, dead-letter rows | receive, ingest, nak, ack, dead-letter and terminate | stream, context graph, outbox table | redelivery after crash or timeout; a limit counted by the server | each message settled once, within the limit, with trace |
| context graph (`internal/contextx`) | `context_nodes`, `context_edges`, `context_edge_evidence` | `Ingest`; quality reports | context worker | ingest is repeated | ingesting twice is ingesting once |
| approvals (`internal/approval`) | `approval_requests`, `approval_decisions` | create, approve, reject, cancel, monitor tick, simulate | tool gateway, Proxmox actions, outbox | read before the transaction, update by id alone; every replica runs a monitor | quorum, finality, expiry |
| agents, tool gateway (`internal/agent`) | agents, runs, intentions, grants | intention, evaluate (13 checks), approve, execute | approvals, Proxmox, remediation | checks outside the transaction | no execution beyond the granted autonomy, single execution |
| objects and work (`internal/domain`, `internal/integration`) | objects, work items, incidents, links, comments, alerts | create, update (versioned), delete, link, comment, timeline, webhook | outbox, context graph | optimistic versions, events in a second transaction | no lost update, an event for each mutation |
| Proxmox actions (`internal/proxmox`) | `asset_actions`, mutation windows | request, execute, open and close a window, sync | approvals, external API | the effect is external and precedes its record | nothing outside a window or without approval, no double effect |
| remediation (`internal/remediation`) | proposals, steps, evidence | propose, approve, execute, cancel | policy evaluator, approvals | check then set, long execution | one execution per approval |
| migration engine (`internal/migration`, `cmd/clarity-migrate`) | ledger tables, advisory lock, the schema | plan, preflight, apply, verify, status | PostgreSQL only | sessions that outlive their command, commit reply lost, rerun, changes by hand | one applier at a time, all or nothing, true reports |
| sessions (`internal/iam`, `internal/middleware/auth.go`) | users, refresh tokens, reset and verification tokens, bootstrap lock | login, refresh, logout, reset, verify, bootstrap | e-mail, MFA | single-use tokens checked outside transactions | a token is used once, a revoked session stays revoked |
| MFA (`internal/mfa`) | factors, challenges, recovery codes | enrol, challenge, verify, disable | sessions, approvals | concurrent attempts | attempt limit, codes used once |
| teams (`internal/team`, `internal/authz`) | teams, members, roles, invitations | add, change, remove, invite, accept, revoke | all handlers | last owner, accept against revoke | a team keeps an owner |
| idempotency, rate limit (`internal/middleware`) | `idempotency_keys`; a map under a mutex | reserve, store, replay; count | all handlers | crash between reserve and store | a handler runs once per key |
| knowledge (`internal/knowledge`) | sources, index, collections, answers | index, reindex, search, ask, save | reasoning worker | stale reads by concurrent indexers | the index follows the source |
| artifacts (`internal/artifact`, `internal/storage`, `internal/presenton`) | artifacts, document versions, files | save, restore, generate, export, download | MinIO, reasoning worker | version numbers, files without rows | versions are never lost |
| fan-out (`internal/wsx`) | the hub's map | register, broadcast | Redis | slow clients under a lock | best effort only |
| schema (`src/migrations/v2`) | checks, unique keys, triggers | | all | | |
| audit, e-mail, health, config, admin | an append-only table; none | | | | |

The hazards found while reading, each at its line and with the properties that
cover it, are in `PROJECT.json` under `hazards`.

## 2. Plan

In order of importance to the system; all of it is done.

1. **Outbox**: everything else reports through it.
2. **ContextGraph, ContextWorker**, then **EventDelivery** (abstract) and
   **EventPipeline** (Outbox composed with ContextWorker, implements it).
3. **Approval**, with **ApprovalRow** (abstract): what a consumer of approvals
   may rely on. Approval implements it, and it is the environment of the
   consumers.
4. **Execution**: ToolGateway, ProxmoxActions and Remediation, over
   AgentRegistry and ApprovalRow.
5. **Migration**.
6. **Workspace**: Objects, Notes, Documents, Knowledge, Files; Sessions, Mfa,
   SecurityKeys, Teams; Integrations, Idempotency.

7. **Proofs**: every safety property the runs check, and both refinements
   (section 5).

What would come next: the type invariants of Execution and Workspace as theorems
of their own (their parts are proved where a proof needs them); that the
environment of Execution, ApprovalRow for any request, is what Approval offers
several requests at once; a model of the connection pool, for the one hazard no
property covers.

## 3. Modules

| module | what it models | code |
|---|---|---|
| `Outbox` | rows of `outbox_events`, the workers' positions in `processBatch`, the stream as far as the publisher sees it | `internal/outbox/writer.go`, `cmd/outbox-worker/main.go` |
| `ContextGraph` | the rows one `Ingest` adds (operators only) | `internal/contextx/ingester.go` |
| `ContextWorker` | the consumer, the client buffer, `processMessage`, the graph and the dead-letter rows | `cmd/context-worker/main.go`, `internal/natsx/setup.go` |
| `EventDelivery` | abstract: committed, the graph, reported | |
| `EventPipeline` | Outbox and ContextWorker on a shared stream | |
| `Approval` | requests, decisions, the handlers of the API, the monitors | `internal/approval`, parts of `internal/agent` |
| `Migration` | the database as the fingerprints see it, the sessions at the server, the steps of `Apply` | `internal/migration`, `cmd/clarity-migrate/main.go` |
| `ApprovalRow` | abstract: one row of `approval_requests` as its consumers see it | |
| `AgentRegistry` | agents, runs, grants, and the checks of the evaluator that read them | `internal/agent` |
| `ToolGateway` | intentions, `ExecuteTool` | `internal/agent` |
| `ProxmoxActions` | actions, their execution and outcomes, mutation windows | `internal/proxmox` |
| `Remediation` | proposals and their execution | `internal/remediation` |
| `Execution` | the last three, each explored on its own | |
| `Objects`, `Notes` | objects, work items, incidents, projects; comments, timeline, links | `internal/domain` |
| `Documents` | a native document, its body and versions | `internal/artifact` |
| `Knowledge` | the index of an artifact | `internal/knowledge`, the hook in `cmd/api/main.go` |
| `Files` | attachments and presentations in the object store | `internal/storage`, `internal/presenton` |
| `Sessions` | sessions, refresh tokens, password, reset tokens | `internal/iam` |
| `Mfa`, `SecurityKeys` | TOTP, recovery codes, challenges; WebAuthn | `internal/mfa` |
| `Teams` | bootstrap, accounts, members, invitations, access grants | `internal/team`, `internal/iam` |
| `Integrations` | keys, webhooks, the rate limiter | `internal/integration`, `internal/middleware/ratelimit.go` |
| `Idempotency` | idempotency keys | `internal/middleware/idempotency.go` |
| `Workspace` | the last eleven, each explored on its own | |
| `*Proofs` | theorems | |
| `MC*` | small instances | |

### Outbox

A row is an id with `status`, `attempts`, a flag `due` for `next_attempt_at <=
NOW()`, and `lock` for `locked_at` (null, fresh, older than five minutes).
`created` orders rows by `created_at`. Ids of API events and ids of dead-letter
notices are disjoint sets, which is what the prefix test of the recursion guard
decides; `about` is the notice's aggregate id. The action names follow the code:

- `claimEvents` is `SelectBatch` (the SELECT with its row locks), then
  `CommitClaim`, or `ClaimFails`, or `ClaimReplyLost` (committed, but `Commit`
  returns an error);
- `fetchClaimed` is `FetchClaimed` or `FetchFails` (an error, or rows skipped
  by `Scan`);
- `publishOne` is `Publish`; without an acknowledgement the message may have
  been stored, may never be, or may be stored later (`ArriveLate`);
- `markSent` is `MarkSent`; `markFailed` is `ReadAttempts`, then `ScheduleRetry`
  or `DeadLetter`, then `InsertNotice`. Each is one autocommitted statement, and
  `RecordFails` and `ReadAttemptsFails` are their ignored errors;
- `Crash` at any step. There is one crash action for a process that starts again
  and for one that never does, since a new process remembers nothing.

Left out: the payload, the Redis fan-out after a publish, and pruning of sent
rows, which no code does. The mapping of `outbox.Write` requires the mutation's
transaction; a caller that opens another one is a hazard of that caller.

### ContextWorker

A message is a pair of an event and a copy number: the publisher may store an
event more than once. The consumer's side is external and follows JetStream's
rules for a durable pull consumer with explicit acknowledgement: a copy is to be
delivered, out, or settled; `delivered` counts deliveries; an answer that does
not come within AckWait puts it back (`AckWaitExpires`). The client side is the
channel of `main` (`buffer`) and the message in `processMessage` (`cur`,
`step`). `Poison` are events whose transaction always fails, `Unparseable` those
whose envelope does not parse. `tries` and `unwritten` are history for the
properties.

### EventPipeline

`Outbox` and `ContextWorker` are instantiated over shared `stored` and `faults`;
a publish is at once the worker's store. `Delivery == INSTANCE EventDelivery`
maps committed to the rows present, the graph to itself, and reported to dead
letters of either worker; `DeliveryKept == Delivery!Spec` is the refinement. What
an event does is one `Ingest` of its envelope, and not its entry in a set of
applied events: most events only name the node of their aggregate, so that the
rows of an event may all be there, put by an earlier one, before it has
committed. (`Applied`, which is about rows, serves the liveness property only.)

### Approval

Each HTTP request is a handler record: what it read and where it is. `Load`,
`Check`, `InsertDecision`, `CountApprovals`, `Reject` and `Approve` are the
stages of `decide`; `ExpireInline` its UPDATE of an expired request. A
transaction is visible only at its commit, so `InsertDecision` records a
decision in the handler, and `Reject` and `Approve` put it in the table together
with the status. The unique key on `(approval_id, decided_by)` blocks a second
insert of the same user (`Inserting`). `CountApprovals` counts what is
committed, plus one, or one alone if its query fails (the error is ignored).
`LoadForCancel` and `Cancel` are the cancel handler; `Verify` and `Execute` are
`verifyApproval` and the transaction of `ExecuteTool`. `GiveUp` stands for every
early return, for the router's 30 second timeout and for a crash.
A monitor selects the overdue rows (`BeginTick`), expires them one by one
(`ExpireApproval`), then selects and notifies those about to expire; `SkipRow`
is a failed transaction, `MonitorCrash` a restarted replica.
`clock` abstracts time to young, closing (past the notification threshold) and
overdue. `expired` and `expiring` count the events written.

### Migration

A database holds one of the shapes the fingerprints tell apart (`objects`), the
platform schema or not, the row of revision 0001, another row of a revision
(`extra`), a run that is not over (`active`), and the runs and receipts that
`Apply` commits. `pc` follows `Apply` from `Connect` to `Close`; its deferred
calls are `Rollback`, `Unlock` and `Close`, in the order Go runs them. A probe is
two steps, `probeAll` and the fingerprints, since the transaction is READ
COMMITTED; the reads inside each are taken together. `Reprobe` compares class,
path and fingerprints as the code does, in one step.

A command and its session at the server are separate: `session`, `lock`, `tx`
and `wire` belong to the server, `pc`, `seen`, `ddl` and `result` to the command.
`GivesUp` (the five minutes of `main`, or a kill) ends the command only; the
session stays with its lock, its transaction and perhaps a COMMIT on its way,
until the server executes that (`ServerCommits`) and finds the client gone
(`Reaps`). `Terminates` ends the session only. The transaction is the number of
artifact bodies it has run and the rows it has added; `View` is what it sees.
The install chain has four bodies, an adoption one. `BodyEnds` changes nothing
because `Transform` takes the outer `COMMIT` out of every artifact.

People change the database without the advisory lock: `Alter` (DDL), `Install`
(the four scripts run by hand as `src/scripts/migration/validate_g3.sh` does,
perhaps not to the end), `WriteLedger` (rows). `Install` waits for a transaction
that has created the same objects and then fails, so it is a step only when there
is none. The initial databases are all that a command may be pointed at.

Left out: Classify's guards on the database's name and the server's version, how
fingerprints and digests are computed, the text handling of `Transform` beyond
BEGIN and COMMIT, and `Plan`, `Status` and `Verify`, which only read.
`InsertRunPreflighted`, `CompleteRun`, `MarkRunRolledBack` and the lock wrappers
for a pool are called by tests only.

### ApprovalRow

The row of a request and the number of approvals on record, without who decided,
why, or what handlers and monitors are about to do. `Approval` maps its rows to
it (`RowOf`); rejected, cancelled and expired are one status, since no consumer
tells them apart. `ImplementsRow == Row!RowSpec` is the refinement, and the
modules of Execution take the row's actions as their environment, so that a
status there may leave `executed` again exactly as it may in the code.

### Execution

Handlers are, as in Approval, records of what a request has read and where it
is. Each check that is a query of its own is a step of its own; a check may
refuse whatever the state, which stands for the checks of the request's words and
for failing queries; and a request may end at any step.

- **ProxmoxActions.** `ExecuteAction` is `BeginExecute`, `CheckWindow`,
  `LoadAction`, `CheckApproval`, `CheckRequirements`, `Call`, and `RecordSuccess`
  or `RecordFailure`; a refused check goes through `recordActionBlock`, which
  sets `failed` by id alone. `Call` may do its work and be answered with an
  error. `OpenWindow` is two statements, `BeginOpen` and `InsertWindow`; closing,
  sweeping and announcing likewise. `held` remembers which of the facts that were
  asked for have held since the request began: asking is not holding them at
  once, and the property says exactly that.
- **ToolGateway.** The agent, the run, the intention, the tool and the level are
  the caller's words, as in the code. `recordDecision` writes `blocked` by id,
  also over `executed`.
- **Remediation.** `Execute` sets `executing`, runs the steps and writes the final
  status, each in a statement whose error is ignored (`Loses`). The executor is an
  ordinary agent that users may disable or grant things to meanwhile.

What overlapping requests can do to one another is recorded in history variables
(`excused`, `crowded`, `contested`, `clobbered`, `interrupted`); the properties
say that nothing else can go wrong. The same holds for Workspace.

### Workspace

- **Objects.** A client acts on the version it saw (`ViewObject`); a handler reads
  the row first and announces old values from that read, then runs an UPDATE that
  asks for the version (`Matches`). `UpdateSeverity` only compares the version;
  `DeleteObject` does not ask for it. `slips` records lost updates and false
  announcements, `loose` the requests that no version orders.
- **Notes.** The row in one transaction, its event in a second (`Announce`) that
  may never run.
- **Documents.** A save takes `artifacts`, then `artifact_documents`; a
  restoration takes them the other way round, and the database ends one of two
  that wait for each other (`Abort`). A version's number is the maximum plus one,
  read under the body's row lock, which is what keeps it unique (mutant
  `NumberEarly`).
- **Knowledge.** Which mutation fires the hook, and for which source type, is as
  in the handlers; a job may be lost at any step (`Lose`), since it runs with the
  request's context.
- **Files.** A put whose answer is lost may have stored the file. `s3` is whether
  the process has a store at all.
- **Sessions.** Login, refresh (`BeginRefresh`, `InsertNew`, `LinkOld`, and the
  branch for a reused token), logout, revocation, reset, password change.
- **Mfa**, **SecurityKeys.** A response is right or wrong by chance; what the
  server reads, counts and writes back is as in the code, with the UPDATEs whose
  errors are ignored.
- **Teams.** The count of owners in the handler, then the trigger at the write
  (`protect_last_team_owner`), which sees committed rows only, then the commit.
- **Integrations.** Rotation reads outside its transaction. The rate limiter
  counts a request under each of its limit keys up to the exhausted one.
- **Idempotency.** The key is reserved, the handler works, the answer is stored.

No handler of one component writes a row on which a step of another depends in a
way its properties tell apart, so a behaviour explores one component (`focus`);
the product of all would show nothing more. In Execution the same argument holds
but for the agents, and the registry's actions are steps of both its clients.

## 4. Runs

| run | instance | states | what it shows |
|---|---|---|---|
| `outbox` | 2 events, 2 notices, 2 replicas, batch 2, 2 attempts, 1 fault, symmetry | 1.8 million | safety of the outbox |
| `outbox_live` | 1 event, 1 notice, 2 replicas, 1 fault, fair | 4,900 | settled unless a fault; notices follow |
| `outbox_lost` | the same | | finding: an event can be stranded |
| `context_worker` | good, poisonous and unparseable message; limit 2, buffer 2, 2 faults, fair | 87,000 | safety and liveness of the consumer |
| `pipeline` | 1 event, 1 replica, 2 attempts, ingest limit 1, 3 copies, 1 fault, fair | 34,000 | the composition implements `EventDelivery` |
| `approval` | 1 critical request, 3 members, 2 handlers, 2 monitors, fair | 450,000 | safety and expiry of approvals; implements `ApprovalRow` |
| `approval_final` | the same, 1 monitor | | finding: a decision is overwritten |
| `approval_stuck` | the same, and no failing query | | finding: a complete quorum stays pending |
| `migration` | 2 commands, 1 change by hand, fair | 246,000 | safety of apply, and that every command ends |
| `migration_noop` | 1 command, 1 change by hand | | finding: a no-op over a contradictory ledger |
| `execution` | 2 requests at a time; 1 stop action with 2 windows, or 1 agent with 2 tools and 1 approval, or 1 proposal of 1 or 2 steps; symmetry | 1.27 million | effects follow checks, and records are true |
| `workspace` | 2 requests at a time (3 for one idempotency key) on one or two rows of each component; symmetry | 860,000 | what goes wrong in each component, and nothing else |

Type invariants are definitions of each module and hold in the runs of that
module; they are not among the properties of the runs.

Why the bounds are enough. A race over an outbox row needs two workers and one
row; a second row makes the batch, its order and the remaining rows of an
interrupted batch appear. Two attempts make one retry and one dead letter. One
fault per behaviour is enough for each property that says "unless a fault", and
the theorems hold for any number. In the context worker two faults let a crash
follow a lost answer. In the pipeline no more than three copies of an event
can be stored (two attempts, and one claim repeated after a fault), so that the
bound on copies cuts off no behaviour of the code.
For approvals the critical policy has a quorum of two, which needs three
members: one requester and two deciders; two handlers make every pairwise race,
and two monitors the race of replicas. The built-in policies with a quorum of
one and automatic approval are not run: the theorems cover every policy.
Requests share no rows, so one is enough. For the migration two commands make
every overlap of a session left behind with a command that starts, and one change
by hand falls between any two steps; the theorems hold for any number of both.

For Execution and Workspace every hazard is a
race of two requests on one row, or of one request with an end of the process;
a third request is only needed where one must wait for two (a key that is
reserved, answered and asked for again). A stop asks for two approvers and so
tells counting from finding one; two windows let one open beside another; a
second step lets a denied one follow a success. The severities, texts and titles
have two values each, so that an overwritten one shows. Bounds that end a
behaviour (`MaxVersion`, `MaxCalls`, `MaxGrants`, `MaxDeliveries`, `MaxEffects`,
`MaxPassword`, `MaxEnrolled`, `MaxCount`, `MaxTxs`) leave room for the first
repetition of what must not be repeated; `MaxFailed` is 1, since the lock at five
failures differs from that at one in nothing that the property reads.

Deadlock is not checked: each model stops when all events are settled or all
requests decided, or all commands have ended.

**Fairness.** A worker's steps are weakly fair: its ticker calls `processBatch`
again after each error, and a process that died is restarted
(`src/docker-compose.yml`). Time passes (`BackoffElapses`, `ClockAdvances`). The
server delivers and times out. The arrival of API requests, decisions, late
publishes and faults are not fair. In `Approval`, `ExpireApproval` of a request
is strongly fair over all monitors: a row that is selected again and again is
not skipped for ever, that is, its statements do not fail at every tick. In
`Migration` a command that runs takes its next step - each statement returns,
with an error if not with a result, within the five minutes - and the server
executes a COMMIT it has received and finds out about clients that have gone.
Starting a command, kills, restarts, failing statements and changes by hand are
not fair. Execution and Workspace state no fairness: their handlers may end at any
step, and what must follow then is said as a safety property (what may be left,
and why).

### Findings

1. **Stranded events** (`outbox_lost`). `claimEvents` selects `pending` and
   `failed` rows only; a row left `processing` by a crash or a failed statement
   is never taken again. ADR-006 promises that the outbox prevents event loss.
   `WaitingUnlocked` shows that the clause for stale locks never decides
   anything.
2. **Overwritten decisions** (`approval_final`). Cancel and decide update by id
   after a check outside the transaction; the operations guide calls decisions
   immutable. `ApprovedByQuorum` holds all the same: an overwritten status is
   never *approved* without a quorum.
3. **Lost quorum** (`approval_stuck`). Two concurrent approvers of a critical
   request each count one; the request stays pending.
4. **No-op over a contradictory ledger** (`migration_noop`). The comment in
   `Apply` lists the conditions of a no-op; one of them, that no contradictory
   revision exists, is looked at by `Verify` only.

## 5. Proofs

`tlapm` checks every obligation of eight modules: `OutboxProofs`,
`ContextWorkerProofs`, `EventPipelineProofs`, `ApprovalProofs`,
`MigrationProofs`, `ExecutionProofs`, `MembersProofs` (the parts of Workspace that
members use from day to day) and `WorkspaceProofs` (its other parts). Together
they state every invariant and every safety property over steps that the passing
runs check, the refinements of `EventDelivery` and `ApprovalRow` among them. They
assume the constants' assumptions only, so they hold for any number of replicas,
events, users, requests, monitors, commands, rows, keys, changes and faults:
`OutboxAssumption` (finite disjoint id sets, positive batch size and attempt limit),
`ContextAssumption`, `PipelineAssumption` (both of these), `ApprovalAssumption` (the
policies are records of their type; users and replicas are finitely many, since
approvals and announcements are counted), `MigrationAssumption` (nobody is not a
command), `ExecutionAssumption` (an approval request is about an action or about a
tool, not both) and `WorkspaceAssumption` (a bound is a number, there is a text, a
title and an object, and what stands for nothing is none of the things it is
missing from). The bounds on histories (`MaxFaults`, `MaxTxs` and so on) are
parameters of the theorems too: each holds for every bound.

**Outbox.** None of the safety invariants is inductive. `IndInv` adds to the
types: `IndHold` - a row in a worker's batch is unclaimed while the claim's
transaction is open, `processing` afterwards, and no two workers hold one row;
`IndWork` - what a worker remembers of its row agrees with the table (an
acknowledged row is stored, a counted one has failed that often); `IndNotice` -
a notice names a row that no worker holds and none can claim, or exactly the row
whose notice is being written. `Inductive` proves it step by step; the six
invariants follow, and `SettledIsFinal` because a settled row is held by nobody
who could write it.

**ContextWorker.** That a settled message is accounted for is nearly inductive:
`IndSettled` adds the message about to be settled. That giving up is earned is not:
it needs a count of what may still happen to a copy. `IndOrder` says that the
deliveries of a copy reach the client in the order of their counts, so that each
that waits there has a count of its own; `IndEarned` bounds the deliveries made by
the failures and the faults (`EarnedSoFar`), and, what keeps that true, how many
deliveries may still wait untried (`FewDeliveries`). A step delivers a copy once more, fails to
ingest one, or spares it (`Redelivers`, `Fails`, `Spares`); each keeps the bound.

**EventPipeline.** The steps of the outbox keep OutboxProofs' invariant, which is
instantiated here; those of the context worker leave its rows alone and only share
the bound on faults. `StreamHasRows` and `WorkerHasStored` add that whatever is in
the stream, at the worker or among its dead letters has a row that committed. The
outbox's step is then a `Commit`, a `Report` (`IndHold` is needed: a row that a
worker writes is `processing`, so that no dead letter is ever taken back) or
nothing, and the worker's an `Apply`, a `Report` or nothing. `PathImplementsDelivery`
needs nothing of the envelopes.

**Approval.** `IndInv` adds to the types `IndRows` (what a row's status says
about decisions, requester and clock) and `IndHandlers` (what each handler has
read, inserted and counted still supports what it will write: a handler about to
approve has counted at most the approvals in the table plus its own, and two
handlers in their transactions decide for different users). `QuorumDecides` is
the result to know: the updates are unguarded, counts are taken outside the
transaction, and still nothing is approved without its quorum, since a count can
only be too low and decisions are never deleted.

`RowImplemented` is the refinement of `ApprovalRow`: each action of a handler or a
monitor is a step of the row it writes - it is created, approved with its quorum,
executed, refused, or comes of age - and changes no other row. `EachAnnouncesOnce`
bounds the announcements of a request by the replicas: each announcement uses up a
monitor that has the request in its list, and once it was announced no monitor
selects it again, so announcements made and lists it is still in add up to no
more than there are monitors.

**Migration.** `IndInv` adds to the types four parts. `IndLock`: a transaction is
open only in the session that holds the lock, whether or not its command still
runs; `OneApplier` is this and nothing more. `IndBuild`: what a session has built
keeps pace with its client, up to a COMMIT on its way, which finds the whole
chain, the run with the profile of its path, both receipts, and no platform schema
but its own; it is needed because the server may execute the COMMIT long after the
command that sent it has gone. `IndLedger`: what is committed is either no trace
or one such run; `LedgerWhole` and `TruthfulProfile` are part of it.
`IndSuccess`: what a command recognised at its last check stays true as long as
`changes` stands still, since every other command is kept out by the lock until
then and meets a platform schema afterwards. Each part is kept by one lemma with
one step per action.

**Execution.** A step belongs to one component and leaves the variables of the
others alone but for the table of approvals, of which it touches only rows that no
other component reads (the requests of actions and of tools are disjoint); so each
has its invariant. *ProxmoxActions*: `IndHeld` - each check that a request has
passed found its fact, which the history variable remembers; `IndCalls` - as long
as nothing excuses an action, its one call is still to be recorded by the request
that made it, or is recorded with the approval, after which no request is past its
look at it; `IndWindows` - one window is open at a time, and none while a request
is about to open one, unless two such requests overlapped. *ToolGateway*: `IndUse` -
what a request may use is usable, and unless its use is contested a row in use is
approved and unused. *Remediation*: `IndClean` - of a proposal that no two requests
wrote at once, and of whose execution no statement was lost, what the request
remembers of its steps is what the rows say, and the status follows from it.

**Members of Workspace.** `OneAtATime` says that a step of Workspace is one of a
single component, so that an invariant which the component's steps keep holds in
every behaviour of Workspace. *Notes*: the event that is due tells what the row
says, and without one the last event does. *Files*: a key is named before the file
is stored, and says so afterwards. *Knowledge*: without an excuse an artifact is
indexed with the text it has, or a job has yet to read it. *Objects*: what a client
saw of a row, and what its request has read, is still so as long as the version
is, except for a severity that somebody changed alone (`UpToDate`); so a change
with the version it names overwrites nothing unseen. *Documents*: each transaction
holds the rows it has locked, and only after both has it numbered its version
(`EditorSound`), so the numbers have no gap; open transactions and versions made
add up to no more than the transactions begun (`VersionsCounted`), which keeps the
numbers below the bound.

**The other parts of Workspace.** *Idempotency*: `CallsOnce` relates what was done
for a key, and what clients heard of it, to all requests that ever carry it.
`IndReserved` - a row is inserted once and never deleted, so one request per key is
past its reservation, ever; `IndDropped` - a key in `processing` is held by that
request, or the request was cut off; `IndWorked` - until the holder has worked
nothing has been done for the key, and afterwards its answer and then the row say
what; `IndHeard` - a client hears what was done only from a settled row, which
nothing changes any more. *Integrations*: of the keys with one root no two are
live, and a key that is being rotated is, unless another change crossed it.
*Teams*: unless two transactions took the crown from two owners at once, the one
about to commit leaves an owner and is the only one that takes a crown
(`CrownsKept`); an invitation that is being accepted has admitted nobody yet.
*SecurityKeys*: a ceremony waits in the slot, then one request has it, then it is
done, and no two of these at a time; a sign-in about to record its count had an
active key. *Mfa*: what was not mingled, one request at a time was about
(`Unmingled`); a factor that was never active was never asked about; what only an
active factor earns has one behind it. *Sessions*: the tokens of a session are a
line, of which one at most can be refreshed, and one request at most adds to it, to
that token (`RefreshSound`); of an ended session, or one about to end, every token
is revoked, and a request adds only to an open one (`EndsSound`); a reset token
serves the one request that has read it.

Only model-checked: liveness (`SettledUnlessFault`, `NoticeFollows`, `EverySettles`,
`AppliedOrReported`, `OverdueIsSettled`, `ApplyEnds`), which the prover does not
handle, and the four findings, which are counterexamples.

### Seen while modelling

Not findings - no document, comment or test says otherwise - but what a reader of
the code should know; each is a step or a disjunct of the module named.

- Remediation: the audit row of an execution omits `change_summary`, which is NOT
  NULL, and the error is ignored, so it is never written (`handler.go:628`). A
  disabled `remediation-executor` keeps its unique name, and every later execution
  fails. A crash leaves `executing` for ever.
- ToolGateway: a denied request sets an executed intention to `blocked`.
- ProxmoxActions: a window whose time is over blocks `OpenWindow` until someone
  reads the active window; a failure overwrites `succeeded`.
- Objects: an incident resolved through the routes of objects or work items gets
  no `resolved_at`; two changes of severity alone with one version both succeed.
- Notes: `UpdateComment` of a comment that is gone announces a change.
- Documents: a save and a restoration take their two rows in opposite orders.
  `If-Match` is compared before the row is locked.
- Knowledge: nothing removes an item; deletes, restorations and summaries of
  meetings fire no hook.
- Files: attachments taken while there is no store get rows, and addresses that
  lead nowhere.
- Sessions: a refresh does not look at its session; a password change revokes
  none.
- Mfa: a disabled TOTP row keeps its unique key, so that enrolling again fails;
  the count of attempts is not reset when the lock ends; a recovery code whose
  UPDATE fails passes again.
- SecurityKeys: registration and sign-in share one slot per user, per process.
- Teams: the trigger of the last owner counts committed rows only.
- Integrations: a repeated alert leaves an object without an alert row; a rotated
  key loses its expiry.
- Idempotency: `expires_at` is never read; a key whose request was cut off stays
  `processing`.
- `decide` and four handlers of `internal/domain` take a second connection from
  the pool while they hold one.

## 6. Not modelled

Not modelled: e-mail, health, metrics, configuration, the audit writer (one
insert that nothing reads to decide), the web application, the reasoning worker
(stateless), the websocket hub (best effort), operation scripts, rendering and
export of documents, search and ranking, cryptography and token encoding, the
WebAuthn library, risk scores, incident patterns. Read-only handlers (lists,
reports, simulation) are left out of the modelled components.

Of the modelled components these state changes are left out, each a single
statement or transaction on rows nothing else here reads: collections and saved
answers of the knowledge base, items indexed by hand, reviews of context
relations, the inventory sync of Proxmox, outcomes of remediations, evidence rows,
evaluation runs of agents, templates' own rows, status reports, a team's name and
settings, a user's name and activation by an administrator.

Connections of the pool are not modelled: a handler that waits for one may give up
at that step, as it does when the router's timeout ends it.

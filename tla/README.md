# IssueFlow in TLA+

A TLA+ development of the IssueFlow ticketing service (`src/`, NestJS, TypeORM
and PostgreSQL). It models what the service does to the database when requests
overlap, fail halfway and meet the escalation run; TLC checks it on small
instances and TLAPS proves every safety property that a passing run checks, and both
refinements, for every value of the constants. Six documented promises do not
hold where requests overlap; five runs show how.

## 1. Inventory of the system

HTTP requests reach controllers, which call one service per aggregate. The
services share one PostgreSQL database, keep no state of their own (the token
denylist excepted) and call each other only to look rows up: tickets ask
projects (existence, workload) and users (existence), comments ask tickets and
users, the JWT strategy asks users. Every write runs in a transaction that also
inserts a row of `audit_logs`. Node runs the code between two `await`s without
interruption; at every `await` any other request may run. No isolation level is
set anywhere, so the database runs at READ COMMITTED, and no query takes a lock
beyond what UPDATE, INSERT and DELETE take.

| Component | State | Operations | What is hard | What makes it correct |
|---|---|---|---|---|
| Ticket lifecycle `tickets.service.ts` | `tickets`: status, priority, assignee, due date, overdue mark, version, deletion | `update`, `remove`, `restore`, `findOne`, `findAll`, `findAllDeleted` | read and checks outside the transaction, save inside; ORM saves a stale object column by column; version compared in memory only | forward-only status, optimistic version, closed when DONE, restore only what is deleted, one audit row per commit |
| Dependencies `tickets.service.ts` | `ticket_dependencies` (unique pair) | `addDependency`, `removeDependency`, `getDependencies`, blocker count in `update` | three statements without locks; a ticket deleted between them; the count races with new links | links inside a project, between active tickets; DONE only without open blockers; a link is there as its history says |
| Auto escalation `ticket-escalation.ts`, `runAutoEscalation` | none of its own | one run over the overdue tickets | saves objects read before the loop; one transaction per ticket, may stop midway | one priority step per run, overdue mark only at CRITICAL, status untouched |
| Intake: `create`, CSV import and export, `ticket-csv.ts` | `tickets` | `create` (auto-assign), `importTicketsFromCsv`, `exportTicketsCsv` | workload and project read before the transaction; per-row failures, answers lost after a COMMIT | least-loaded assignment, created ≤ rows inserted ≤ created + failed, every created ticket audited |
| Attachments `tickets.service.ts` | `ticket_attachments` (soft delete) | `createAttachment`, `removeAttachment`, `getAttachments` | ticket deleted meanwhile; double delete | only on active tickets, one DELETE row per attachment |
| Comments `comments.service.ts`, `mention-parser.ts`, `mention-user-lookup.ts` | `comments` (version, hard delete), `comment_mentions` | `create`, `update`, `remove`, `findByTicket` | version check without lock, save after concurrent remove, delete-and-insert of mentions | mentions are those of the content, stale version rejected |
| Users `users.service.ts` | `users` (unique username and email, hard delete) | `create`, `update`, `remove`, `findMentionsForUser` | unique constraint races, foreign keys on delete, a save over a removed user, pages read while comments are added | unique names, no dangling reference, a role change on record, pages that miss nothing |
| Projects `projects.service.ts`, `project-workload.ts` | `projects` (soft delete) | `create`, `update`, `remove`, `restore`, `getProjectWorkload` | owner looked up before the insert, save of a stale object, no cascade to tickets | the owner exists, shown again by a restore only, workload order |
| Audit log `audit-log.service.ts` | `audit_logs`, append only | `record`, `findAll`, `buildTicketStateHistory` | ordered by transaction start, not by commit | the history explains the present state |
| Authentication `auth/` | `TokenDenylistService`: a `Set` in memory | `login`, `logout`, `validate`, `RolesGuard` | restart loses the set; user deleted or role changed while a token lives | a logged-out token is refused, the role is the user's present one |
| Controllers, DTOs, mappers, configuration | none | routing, validation, field copying | none | not modelled: they only fix which calls can arrive |

PROJECT.json lists the same components with their status, and the hazards each
is exposed to, at the line where it bites.

## 2. Modules

| Module | Role |
|---|---|
| `TicketRules` | pure: columns, status and priority orders, the checks and assignments of `update`, the escalation decision, what the ORM writes, the audit rows |
| `TicketLifecycle` | state machine: requests as processes over the ticket tables; its properties |
| `TicketContract` | abstract: each operation as one indivisible, fully checked step that makes a new version; beside it what the service does differently |
| `MCTickets` | instances for TLC: calls, created rows, symmetry |
| `Comments` | state machine: requests as transactions over comments and their mentions, with row locks; its properties |
| `MCComments` | instance for TLC: users, contents and calls |
| `TicketIntake` | state machine: `create` with auto assignment, CSV import row by row, attachments, beside whatever the rest of the service commits; its properties |
| `SoftDelete` | abstract: a table with `deleted_at`, audit rows and no restore |
| `MCIntake` | instance for TLC: a file of three rows, calls, interference |
| `Accounts` | actions of login, logout, the JWT strategy, the role guard, the denylist and `UsersService` |
| `Directory` | state machine: `ProjectsService`, composed with `Accounts`; the properties of both |
| `MCDirectory` | instance for TLC: an ADMIN, a DEVELOPER, calls, symmetry |
| `Feeds` | state machine: the two lists ordered by `created_at`, the state history and the pages of mentions, with the transactions that fill them; its properties |
| `MCFeeds` | instance for TLC: three workloads of four transactions |
| `TicketLifecycle_proofs` | theorems of `TicketLifecycle` under any interleaving |
| `TicketsSerial_proofs` | extends it: the refinement of `TicketContract!ServiceSpec` and what else holds of requests served one at a time |
| `Comments_proofs`, `CommentsSerial_proofs` | the same two for `Comments` |
| `Directory_proofs` | theorems of `Directory` and `Accounts` |
| `TicketIntake_proofs` | theorems of `TicketIntake`, the refinement of `SoftDelete` among them |
| `Feeds_proofs` | theorems of `Feeds` |

### How state and actions correspond to the code

`tickets`, `dependencies` are the committed rows. `auditLogs[id]` and
`dependencyLogs[link]` are the committed audit rows about one ticket and one
link, oldest commit first. For a request `r`, `call[r]` is the validated route
parameters and body, `pc[r]` the statement it waits for, `entity[r]` the ticket
objects its JavaScript holds, `reloaded[r]` the row a running
`repository.save` has just read again.

| Operation | Steps |
|---|---|
| `update` | `BeginUpdate` (read, checks, assignments) - `CountBlockers` (only towards DONE) - `ReloadForUpdate` (SELECT of save) - `CommitUpdate` (UPDATE, audit, COMMIT) |
| `runAutoEscalation` | `BeginEscalation` (query) - per candidate, in any order, `SkipCandidate` or `ReloadForEscalation` and `CommitEscalation` - `FinishEscalation` |
| `remove`, `restore` | `BeginRemove` - `CommitRemove`; `BeginRestore` - `CommitRestore` |
| `addDependency`, `removeDependency` | `BeginDependency` - `FindBlocker` - `AddDependency`, or `FindDependency` - `RemoveDependency` |
| any, cut off | `Fail`: the open transaction rolls back and the caller gets an error; an escalation run keeps what it has committed |

`Comments` composes with nothing: it shares no table with `TicketLifecycle`, of
whose tickets it only reads which exist (`Tickets`). `comments`, `mentions` and
`commentLogs` are the committed rows. Where a ticket transaction has one writing
statement before its audit row, a comment transaction has several on two tables,
so `txn[r]` holds what request `r` has written and not committed: the comment
row it has locked, the mentions it has deleted and inserted, and the users its
loop has still to insert. `WaitsFor(r)` is the set of transactions whose locks
the next statement of `r` needs.

| Operation | Steps |
|---|---|
| `create` | `BeginCreate` (ticket and author looked up) - `CommitCreate` |
| `update` | `BeginUpdate` (read, version) - `ReloadComment` (SELECT of save) - `SaveComment` (UPDATE, INSERT or nothing) - `FindMentions` (lookup of users; the DELETE finds its rows) - `DeleteMentions` - `InsertMention` per user - `Commit` (audit, COMMIT) |
| `remove` | `BeginRemove` - `DeleteComment` - `FindMentions`, `DeleteMentions` (the cascade) - `Commit` |
| any, cut off | `Fail`; `AbortDeadlock` when it waits for itself |

`TicketIntake` holds the same `tickets` table as `TicketLifecycle`, with other
columns: which project, who is assigned, open or DONE, deleted. The ids it
creates are its own; what `TicketLifecycle`, `Directory` and `Accounts` may do
meanwhile to the rows it relies on is one action, `Interfere`, free in its order.
`result[r]` is the summary an import returns, `assignee[r]` what the request has
settled on. `attachments` and `attachmentLogs` are the rows of
`ticket_attachments` and their audit rows.

| Operation | Steps |
|---|---|
| `create` | `BeginCreate` (project) - `FindAssignee`, or `CheckProject` and `ReadWorkload` (query, sort, choice) - `CommitCreate` (INSERT, foreign key, CREATE and AUTO_ASSIGN rows) |
| `importTicketsFromCsv` | `BeginImport` (upload check, project, parse) - per row `ResolveRow` (cells, assignee) and `PersistRow` - `FinishImport` |
| `createAttachment`, `removeAttachment` | `BeginAttachment` (active ticket) - `CommitAttach`, or `FindAttachment` - `CommitDetach` |
| any, cut off | `Fail`; `LoseRow` inside an import, before the COMMIT or after it and before its answer; `Restart` |

`Accounts` declares the users, the tokens and the requests that `Directory`
extends with the projects: every project route wants a token, a project
references a user by a foreign key, and a restore wants an ADMIN. `issued` is
what clients hold, `denylist` the `Set` in the server's memory, `clock` the
second. `caller[r]` is the role of `req.user`.

| Operation | Steps |
|---|---|
| every guarded request | `Arrive` (signature, expiry, denylist) - `Authenticate` (user read anew, role compared) |
| `login`, `logout` | `BeginLogin` (user) - `FinishLogin` (bcrypt done, token signed); `Arrive` - `Logout` |
| `UsersService.create`, `update`, `remove` | `BeginCreateUser` (hash) - `CommitCreateUser`; `ReadUser` - `ReloadUser` - `CommitUpdateUser`, or `CommitRemoveUser` |
| `ProjectsService.create` | `FindOwner` - `CommitCreateProject` |
| `ProjectsService.update`, `remove`, `restore` | `ReadProject` - `ReloadProject` - `CommitUpdateProject`, or `CommitRemoveProject`; `ReadDeletedProject` - `CommitRestoreProject` |
| the process | `Tick`, `Fail`, `Restart` (every request in flight is cut off, the denylist is empty) |

`Feeds` keeps of a transaction when it began (`startedAt`, the `created_at` of
every row it inserts) and whether it has committed. A client reads a page in two
statements, as `getMany` with `skip` and `take` does: `FindPage` selects ids,
`ReadPage` the rows with these ids. `TicketHistories` is the set of answers
`buildTicketStateHistory` may give.

### Modelling choices: tickets

* The last writing statement of a transaction, its audit INSERT and its COMMIT
  are one step. The row stays locked in between and nobody sees it, so no other
  request can tell them apart; a failure between them rolls all of it back,
  which is `Fail` before the step.
* `Saved` is TypeORM's `save` of a loaded entity: it SELECTs the row again
  (deleted rows included), writes the columns in which the object differs, and
  increments the version column unless the object's version is itself one of
  the differing columns. A stale object therefore brings back old values of
  every column that changed meanwhile, the version and `deletedAt` included. If
  nothing differs no UPDATE is sent. `DeletionSet` is `softDelete` and
  `restore` by id: one unconditional UPDATE.
* The lookup of a new assignee in `update` is part of the step that reads the
  ticket, because `Users` is constant here.
* Title and description are one value, `title`. The project and type of a ticket
  are never written after creation; the project is the constant `ProjectOf`.
* Times are the number of audit rows the ticket has: fresh at each commit. Only
  `updatedAt` carries one. Due dates and the escalation's `asOf` are natural
  numbers.
* An audit row keeps the status and priority its details report and drops who,
  the titles and the wording.
* A property of a PATCH body may be absent (`Undefined`). An explicit null passes
  validation too: it clears `dueDate` and, the lookup of user null finding some
  user, the assignee. For the other columns it is refused by the lifecycle check
  or by the NOT NULL columns, which commits nothing and is not enumerated.
* Tickets exist from the start, as `create` leaves them, with their CREATE row.

### Modelling choices: comments

* A statement that must write a row another transaction has written waits for
  that transaction and then acts on the row as committed (READ COMMITTED): a
  DELETE skips a row that is gone, an UPDATE meets no row and the service, which
  does not look at the count, goes on.
* A DELETE has two steps because rows inserted after it has chosen its own are
  not deleted. A mention row is told apart by the request that inserted it.
* The INSERT of a mention waits for an uncommitted INSERT or DELETE of the same
  (comment, user) and for an uncommitted delete of the comment; then the unique
  and the foreign key decide. `remove` waits for uncommitted mentions of the
  comment, since their foreign key keeps the row locked.
* `save` of a comment whose row is gone when it is read again INSERTs it with its
  old id, so a removal that commits between the two reads is undone. If the
  content is the one the row has, no UPDATE is sent and the comment stays
  unlocked.
* Nobody can see a new comment or wait for it before its commit, so the writes of
  `create` are one step with it.
* What the parser finds in a content is the constant `UsernamesIn`. Of users
  whose names differ in case only `orderMatchedMentionUsers` keeps the last one
  the query returns; the query is not ordered, so any one may be kept.
* Users and the tickets that exist are constant. `createdAt`, the author and the
  identity of the caller are left out.

### Modelling choices: intake, directory and feeds

* `undisturbed` is a history variable: the requests in flight since whose first
  step nobody else has committed. It constrains nothing. With it a promise that
  holds for a request served alone is stated inside a run where requests overlap,
  and says of one commit exactly when it may be relied on.
* A row of an import file is `wellFormed` or not: title present, enum cells among
  their values, assignee's cell an id or empty. What the parser makes of the bytes
  is an input (`parses`, `rows`).
* `LeastLoaded` is `getProjectWorkload` with `sortWorkloadEntries`: fewest open
  tickets of the project, then the earliest registration, and of equal entries
  any one, because the query has no order.
* `AssigneeStands` and `Owners` are the foreign keys on `assignee_id` and
  `owner_id`: an INSERT whose user is gone fails, and so does the DELETE of a user
  some row refers to. Comments keep their author in the same way, which `Comments`
  needs not model, its users being constant.
* Email and username of a user are both unique and never change: one value stands
  for both. A password is a value or, where a random one was drawn, NULL.
* A token is its payload and its second of issue. Two tokens signed for one user
  in one second are the same string, so they are equal here.
* `save` of a user or a project is `Saved` of the tickets without a version: the
  columns in which the object differs from the row read again. A user gone by the
  second read is inserted anew under the old id; an UPDATE that meets no row
  succeeds.
* `created_at` is `now()`, the start of the transaction. The pages of mentions are
  ordered by it, descending, and by the id of the mention, the primary key that
  TypeORM adds where it pages a join. The state history has no second key, so
  rows of one instant, those of one transaction included, come in any order.
* An update of a comment deletes its mentions and inserts them with new ids. To a
  client who pages through them that is a removal; `Feeds` leaves it out. The
  count in the answer decides nothing.

## 3. Runs

| Run | Instance | Question |
|---|---|---|
| `tickets_overlap` | `Spec`; 2 tickets, 3 requests (symmetric), 12 calls | What survives any interleaving: types, an audited transition is legal and an audited change starts from what earlier rows report, status, deletion, version and links are backed by audit rows |
| `tickets_answered` | `Spec`; 3 tickets of 2 projects, 2 requests, 14 calls | Every request is answered |
| `tickets_serial` | `SerialSpec`; 2 tickets, 4 requests | Served one at a time: forward-only lifecycle, optimistic version, blockers, history, and the refinement of `TicketContract!ServiceSpec` |
| `overlap_lifecycle`, `overlap_blockers`, `overlap_links` | `Spec`; as `tickets_overlap`, no symmetry; the first and the last without the escalation run | Documented promises that overlapping requests break (below) |
| `comments_overlap` | `Spec`; a comment that may exist and an id for each creation, 3 requests, 9 calls | What survives any interleaving, lock wait and deadlock: one mention per user and none without a comment, mentions and contents that audit rows report, removals on record; every request is answered |
| `overlap_mentions` | `Spec`; the same instance | A documented promise that overlapping updates break (below) |
| `directory` | `Spec`; 3 requests (symmetric with the ids they create), 11 calls, tokens of 2 seconds, clock 0..2 | What survives any interleaving, expiry, logout and restart: owners exist, removals are on record, rights are those of the moment, a role changes and a project reappears only as the audit says |
| `intake` | `Spec`; 2 requests, 7 calls, 6 kinds of interference, a file of 3 rows | Assignees exist, an import adds up, a fresh assignment is the least loaded; the refinement of `SoftDelete`; every request is answered |
| `overlap_attachments` | `Spec`; as `intake` | A documented promise that a deletion meanwhile breaks (below) |
| `feeds` | `Spec`; 4 transactions in 3 workloads, pages of 2, clock 0..3 | The history is in order and the pages miss nothing, whatever commits when |

Bounds. A request is served once, so the number of requests bounds the run; no
counter needs a bound of its own. Three overlapping requests are what the
hazards take: a reader, a writer that commits in between, and an observer or a
second writer. Four serial requests give a history with two updates around a
delete and restore or an escalation with its manual correction. The calls meet
on one ticket on purpose (`t1`): the right and the wrong version, every kind of
step in the lifecycle, a body without status, a manual priority, delete,
restore, the link from `t1` to `t2` and back. The created rows are an overdue
HIGH one, an overdue CRITICAL one in review and one without a due date. Symmetry
in the requests is used only where no liveness is checked. In
`tickets_answered` two requests are enough, since a request waits for nothing
another request does; the third ticket is in another project.

For comments, three requests on `c1` allow two updates and a removal to overlap,
or an update to be saved over a removal and an update; the contents name one
user, two or none, and two users share a name up to case. A creation's comment
can be the target of a later update (`c2`), and the calls include a ticket that
does not exist and one the comment does not belong to.

For the directory, three requests let an update be cut in two by a demotion or a
removal while a third one observes, or a removal and a creation race for one
name (`bob`); with a lifetime of two seconds a token of the first second expires
inside the run and one of a later login does not. For the intake, two requests
are what one workload read twice takes; everything a third request could do is in
`Interfere`, which may repeat. The file has a row that fails between two that do
not, one with an assignee who may be removed and one with none, and two other
files are refused or do not parse. For the feeds, four mentions make two full
pages, so a client crosses a boundary twice and ends on an empty page; the clock
lets any of the transactions share an instant or follow each other. The bounds
on counters are `MaxRows`, `MaxClock` and the number of requests, all named.
Deadlock checking is off in `intake`, `overlap_attachments` and `feeds`, which
really stop: there is no `Quiescent` step once all is answered and nothing is
left to interfere.

Fairness. `WF_vars(Proceed(r))` for each request: Node resumes every
continuation whose query has returned, and no statement waits for ever because
the only locks are row locks that end with the transaction holding them; in
`Comments`, where transactions can wait for each other, `Proceed` includes the
abort by which PostgreSQL ends a deadlock. Nothing is assumed about arrivals or
failures, nor in `TicketIntake` about interference, lost rows and restarts.
`Directory` and `Feeds` state no liveness and assume no fairness.

The other runs end when all requests are answered (`Quiescent` stutters there),
so deadlock checking stays on: no request can get stuck halfway.

### What overlapping requests break

Each of these is a finding of PROJECT.json, with the line it quotes.

| Promise | Run | What happens |
|---|---|---|
| `LifecycleForwardOnly`: "no backward transitions", `src/docs/implementation-plan.md:139` | `overlap_lifecycle` | An update saves a status read before another one's commit. |
| `StaleVersionIsRejected`: "stale version → 409 Conflict", `:218` | the same trace | Both updates name the version the ticket had, and both commit. |
| `DoneHasNoOpenBlockers`: "Cannot transition to DONE while ticket has unresolved blockers", `src/src/tickets/tickets.service.ts:705` | `overlap_blockers` | A link commits between the count of the blockers and the save. |
| `LinksJoinActiveTickets`: "soft-deleted tickets excluded", `src/docs/implementation-plan.md:247` | `overlap_links` | The ticket is deleted between `addDependency`'s reads and its INSERT. |
| `AttachmentsGoToActiveTickets`: "Soft-deleted tickets cannot receive attachments", `:264` | `overlap_attachments` | The ticket is deleted between the assertion and the INSERT. |
| `MentionsMatchContent`: "re-evaluates mentions in the same transaction", `:233` | `overlap_mentions` | An update whose content is the row's own takes no lock on the comment; its rebuild of the mentions runs beside another's. |

The cause is the same everywhere: what is read outside the transaction, or
inside it without a lock, is acted upon as if it were still so. The first three
hold of requests served one at a time (`SerialSpec`, `tickets_serial`), and so do
`HistoryExplainsTicket`, `LinkHistoryExplainsLinks`, `OverdueIsCritical` and
`KeepsContract`, which are claimed there only; `LinksFollowTheirAudit` is the
part of the link history that overlapping removals leave true. Of comments,
`MentionsMatchContent` and `StaleCommentIsRejected` (the version check, which
overlapping updates get past as they do on tickets) are proved of requests served
one at a time, in `CommentsSerial_proofs`; no passing run repeats that.

One promise fails without any overlap. "Success increments version" (`:218`) is
not true of a PATCH that leaves every column as it is: a ticket IN_REVIEW patched
with its own status and version gets an UPDATE row in the audit, a successful
answer, and keeps its version and `updatedAt`, because the ORM sends no UPDATE for
an object equal to its row. The contract `ContractSpec` says what the document
says; what the service is shown to implement is `ServiceSpec`, which adds that
one exception, `UnversionedUpdate`, and nothing else. `tickets_serial` reaches it
(`StatusPatch(t1, 1, "IN_REVIEW")` on a ticket created IN_REVIEW).

Where no document promises otherwise the models do as the code does, and the
properties say how far it goes:

* A project saved from a stale object loses its `deletedAt`. `ShownByRestoreOnly`
  allows that only for an update that a commit has disturbed.
* A profile saved from a stale object brings back the role it had, or a removed
  user. `RoleChangesAreAudited` says that it is then a role some audit row
  reported earlier.
* A request acts with the rights compared when it was let in. `AuthorizedAtCommit`
  says that they still hold at the commit unless something else was committed,
  and that whoever restores was an ADMIN on record.
* A restart forgets every logout, and whoever logs out and in within one second
  gets the invalidated token back.
* A ticket may be created in a project that is deleted after the lookup. The
  document asks for the lookup (`:138`, "validate project and assignee exist on
  create"), which is made; nothing is claimed of the commit.
* Overlapping creations choose the same developer. `FreshAssignmentIsLeastLoaded`
  says when `:297` may be relied on: while nobody else commits between the count
  and the insert.
* An import may count as failed a row whose COMMIT went through. `ImportAddsUp`
  bounds the summary from both sides.
* Transactions that overlap may change places in the state history, and the
  CREATE and AUTO_ASSIGN rows of one transaction too.

### What survives

`AuditedTransitionsAreLegal` and its companions say how far the damage can go:
the audit never reports an illegal move, nor a change from a status or priority
the ticket never had on record, nor a restore before any delete
(`AuditedChangesStartOnRecord`); a status in a row was always reached by
an audited move, a deleted ticket was deleted by an audited request, a
version never runs ahead of the writes, and a link is there exactly while its
last audit row is a CREATE (`LinksFollowTheirAudit`). Of comments, `MentionsAreSound` says that
the unique key, the foreign key and the lock waits together keep every mention
attached and single; the mentions of a comment, mixed up as they may be, and its
content, brought back as it may be, are ones some audit row reports.
The foreign keys do for owners and assignees what no lookup does: `OwnersExist`
and `AssigneesExist` hold in every interleaving, the reinserted user included.
Overlapping removals of an attachment are each on record and undo nothing
(`AttachmentsKeepContract`). A page that is read while younger or late comments
appear repeats mentions at worst (`PagesMissNothing`).

### Abstract specifications

`TicketContract` has one checked step for each ticket operation;
`tickets_serial` shows `SerialSpec` to implement it but for the exception above,
the requests and what they hold in memory being hidden. `SoftDelete` knows two moves of a row, `Create` and
`Delete`; `intake` shows that attachments implement it with no assumption on the
interleaving. The mapping, `AttachmentState`, hides the ticket an attachment
belongs to.

## 4. Proofs

Seven modules prove, for all values of the constants, every safety property that
a passing run checks: 23 invariants, 7 action
properties and both refinements; and two properties of comments served one at a
time. Each theorem has the form `Spec => ...` or `SerialSpec => ...` and rests on the named assumptions of the modules it is about, on nothing else: NULL
and Undefined are not values, the calls, files and first rows are well typed, ids
of rows still to be created are different and not in use, and a table begins with
finitely many rows (`FirstRowsAssumption` of `TicketIntake`: workload is a count).
TLC evaluates the same assumptions in every run.

| Module | Theorems (each beside `InvariantsHold`, its inductive invariant) |
|---|---|
| `TicketLifecycle_proofs` | `TypeCorrect`, `TransitionsLegal`, `ChangesStartOnRecord`, `LinksAudited`, `StatusAudited`, `DeletionAudited`, `VersionBacked` |
| `TicketsSerial_proofs` | `ContractKept` (the refinement), `TicketHistoryComplete`, `LinkHistoryComplete`, `OverdueStaysCritical`, `LifecycleIsForward`, `DoneWaitsForBlockers`, `StaleUpdatesAreRejected` |
| `Comments_proofs` | `TypeCorrect`, `MentionsStaySound`, `MentionsHaveAnAuthor`, `ContentStaysAudited`, `RemovalStaysAudited` |
| `CommentsSerial_proofs` | `MentionsFollowContent`, `StaleUpdatesAreRejected` |
| `Directory_proofs` | `TypeCorrect`, `OwnersAlwaysExist`, `RemovalsAlwaysAudited`, `CommitsAreAuthorized`, `RolesChangeOnRecord`, `ProjectsShownByRestore` |
| `TicketIntake_proofs` | `TypeCorrect`, `AssigneesAlwaysExist`, `ImportsAddUp`, `AssignmentsAreFresh`, `AttachmentsRefine` (the refinement) |
| `Feeds_proofs` | `HistoriesAreInOrder`, `PagesAreComplete` |

All of them have one shape. None of the properties is inductive, because what a
request commits depends on what it read some steps earlier; the invariant adds
what a request knows at each program counter. A step of `r` leaves the memory of
every other request alone (`Frame(r)`), so the proof shows once that the others
keep their part and then treats each action of `r` in a lemma of its own. The runs
check the properties; the strengthenings are proved.

**Tickets, any interleaving.** `ControlInv` is `TypeOK` and `RequestOK(r)`: the
call matches the program counter and the objects in memory passed the checks that
were made on them. It is inductive on its own. `AuditInv` adds what relates memory
to the audit (`MemoryIsAudited`): an object in memory has a version of at most the
number of the ticket's audit rows, and a status and a priority some audit row
reports; a restore that has found its ticket comes after a DELETE row, and a
removal that has found its link after a row of that link. A commit writes, column
by column, either the row's present value or one out of such an object (`Saved`),
so a status written is an audited one; its log row is computed from an object
that passed `UpdateAllowed` or `MustEscalate`, so it is legal and starts from what
is on record; and logs only grow, so memory that was audited stays audited. For
the links the unique key is what counts: an addition commits only where no link
is, that is after a DELETE row or none.

**Tickets, one at a time.** `SerialInv` adds that at most one request is in flight
and that what it has read *is* what the tables say (`ReadIsCurrent`), the count of
its blockers included. Then `Saved` over the row itself is the contract's
`Revised` (`SavedIsRevised`), every commit is a step of `ServiceSpec` and every
other step leaves the tables (`StepIsContract`). The rest follows from the
contract and its exception alone: `ContractStepShape` says that such a step changes one link, or one
ticket as its new audit row explains, and the histories and the two action
properties are read off that. Where requests overlap it is `ReadIsCurrent` that
fails: this is the one cause behind the three `overlap_` runs on tickets.

**Comments.** The invariant relates the uncommitted writes of each transaction to
the committed tables and to every other transaction. `TransactionOK`: it writes
only about its own comment and only mentions whom its content names. `MentionsOK`:
a mention it has inserted takes no key but one it deletes itself, on a comment
that is there, and whoever removes a comment is about to delete every mention of
it. `NoClash`: no two transactions insert one mention, and none mentions anybody in
a comment another removes. These hold because of the lock waits, which is where
the unique key and the foreign key are needed. `RecordOK` says the texts are on
record. The proof separates steps that write privately from commits, and shows of
a commit what its row leaves to the others (`RowLeaves`). One at a time, the
mentions found are all there are, deleted are those found, and users inserted and
still to insert together are those of the new content (`WriteIsComplete`).

**Directory.** Three layers: `ControlInv`; `RecordInv`, which says that the role a
request read and may write back, and the one it was let in with, are on record;
and `CurrentInv`, which says that what an *undisturbed* request has read and
checked still holds. Only the last uses the history variable, and any commit of
another request empties it, so the proof need not look at what that commit did.
`OwnersExist` follows from the foreign key at its two ends, whatever was looked up.

**Intake.** `RowsOK` bounds the summary of an import from both sides: it has
inserted no row past those it has handled, so the row at hand is absent, and it
counts no more than it has inserted. The bound is on cardinalities, hence the
finite tables. `CurrentOK` is the layer of undisturbed requests: the assignee one has chosen is
still the one to choose. For `SoftDelete`
the mapping is `AttachmentState`; each step creates one attachment, deletes one,
deletes one again on record, or leaves them all.

**Feeds.** `TimesOK`: what had committed when `x` began, began no later than `x`.
`PagesOK`: of the mentions there were when a client began, it has seen those now
listed before its next page. A new mention only moves the others down, never up,
so a page already read stays read. That a page which is not full is the last one is
`FullPage`: the mentions listed before a given one occupy different positions, as
many as there are, so none of the positions of the page is empty.

Only model-checked is liveness (`EveryRequestIsAnswered` of tickets, comments and
intake): fairness and ENABLED are out of this prover's reach. The `overlap_` runs
show counterexamples, which need no proof.

## 5. Not modelled

* Reading operations (`findAll`, `getDependencies`, `exportTicketsCsv`, the
  filters of `AuditLogService.findAll`, ...) change no state. The two whose answer
  depends on an order, the state history and the pages of mentions, are in `Feeds`.
* Controllers, DTO classes and mappers copy fields; what they let through is the
  set of calls of each module. The roles they ask for are `Guarded`, the public
  routes `Public`. Bootstrap and configuration have no state.
* Password hashing, JWT signatures and multipart parsing are taken as given, and
  so is the text of CSV files and of `@mentions`: a string put together character
  by character would show nothing about the service. The size limit and the type
  of an attachment are checked before the service is called.
* An explicit JSON null for a column that may not be null: it only ends in an error.
* The routes of tickets and comments want a token too. Letting them in is the
  same `Arrive` and `Authenticate` as for projects, and is not repeated.

## 6. Plan

The components of section 1 are modelled, and what TLC checks of their safety is
proved. Worth adding, in this order:

1. `TicketsSerial_proofs` assumes that no two requests are in flight. Where they
   work on different tickets, everything but the count of the blockers should
   still hold: `ReadIsCurrent` would be claimed of each ticket by itself.
2. An abstract contract for comments, one checked step for each operation on a
   comment with its mentions, and `CommentsSerial_proofs` extended to its
   refinement.
3. The safety half of liveness: a measure on requests that every step of
   `Proceed` lowers, so that fairness is the only thing left to TLC.

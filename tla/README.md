# Verification of hono-app

TLA+ models, TLC runs and TLAPS proofs about hono-app: an API on Hono and Bun
over Prisma and PostgreSQL, with accounts, login sessions, organizations,
memberships, invitations, mailed tokens and a rate limiter, deployed to Cloud
Run by a script of its own.  The repository's tests run one request at a time
and mostly mock the repositories; what several requests do to each other
between two SQL statements, and what a request or a deployment leaves behind
when it stops in the middle, is hardly exercised by any test.  That is what
this project is about.

Paths below are relative to the repository (`src/features/...` is
`src/src/features/...` in `PROJECT.json`, whose paths start one level higher).

## 1. The system

| Component | State | Operations | Interacts with | What is hard, and what makes it correct |
|---|---|---|---|---|
| organizations, memberships (`features/organizations`, `shared/organization`, `shared/membership`, `middlewares/organizationMembership`) | `Organization` and `Membership` rows, a role per membership | create, transfer ownership, leave, add member, edit role, remove member, delete, list, rename | account deletion, accepted invitations | No constraint limits an organization to one OWNER. Role read by a middleware, then used after awaits; explicit row locks in three transactions, none elsewhere; different locking orders. One OWNER at most, and how it can be lost; no dangling membership |
| account deletion (`features/users`) | `User` row; cascades | delete | all rows below | An OWNER must not be deleted; nothing may survive its account |
| login sessions (`features/auth`, `shared/auth`, `middlewares/auth`) | `RefreshToken` rows in families | login, refresh (rotation, reuse detection), logout, logout-all, session list, password change and reset | account deletion | Concurrent rotation of one token; revocation of a set of rows while another request inserts into it |
| one-time tokens (`features/auth`, `shared/auth`) | `PasswordResetToken`, `EmailVerificationToken`: one row per account | request, mail, withdraw after a failed mail, confirm | mail service, accounts, sessions | The row is reused; a confirmation reads, then consumes; mails that fail, or are reported as failed and arrive |
| invitations (`features/invitations`, `shared/invitation`) | `Invitation` rows, PENDING to one of four final statuses | create, cancel, accept, accept by signing up, decline, lazy expiry | memberships, accounts | Five ways to settle one row race; acceptance and membership in one transaction |
| rate limiter (`utils/rateLimit`) | a Map in the process | check, sweep | asked by signup, login, reset and verification requests | Boundaries of fixed windows; growth; honest `Retry-After` |
| deployment (`scripts/gcp-cd*.mjs`, `gcp-migrate.mjs`, `cd-gcp.yml`) | registry tags, Cloud Run revisions, Terraform state, migration history | plan, migrate, apply, verify, clean up | Cloud Run, Artifact Registry's cleanup policies, the operator | A job may stop after any call and be run again |
| browsers (the cookie of `features/auth/controllers`, `middlewares/origin`) | a cookie per browser, exchanges under way | send, answer delivered late or not at all | login sessions | Overlapping answers set the cookie in any order; a lost answer leaves a used token in the cookie, and reuse detection then ends the session. Who is thrown out, and what logout ends |
| listing and pagination (`listMembers`, `listMine`) | none in the server; a client's cursor or offset | read a page, go on | memberships | Rows come and go between two pages and between the middleware and the query. Nobody who stays is missed, nobody is listed twice; how far an offset errs |
| process lifecycle, telemetry (`server.ts`, `libs/telemetry`) | telemetry state, the queue of spans, `isShuttingDown` | set up, serve, signal, stop, flush, shut down, exit | every request | Handlers go on after the stop and end spans during the flush; exports fail; signals repeat; the set-up fails half way. No span is lost behind exit code 0; a signal ends the process |
| Supabase endpoints, validation, origin check, OpenAPI, DTOs, mail texts, infrastructure | none | | | Stateless, external or declarative: not modelled (a request that the origin check refuses is in `BrowserSessions`) |

Requests never talk to each other: they interact through committed rows, row
locks and constraints.  Within the process the rate limiter's Map is
shared, and it is read and written without an await; so are the telemetry's
queue of spans and the steps of the shutdown, which await.

## 2. How requests are modelled

All models of database code share one way of looking at a request.

* **A request is a process.**  `req[r]` is its program counter and the local
  values it carries across awaits.  Each SQL statement is one step, together
  with the local checks that follow it; between two steps any other request
  may run.  `Start...` actions choose the inputs and, where a middleware has
  read something (the role), check it at that moment and keep it.
* **READ COMMITTED.**  A statement sees what is committed when it runs.  An
  UPDATE of a set of rows works in two steps where the set can change under
  it: it picks the rows its snapshot shows (`...Scan`) and writes them when
  their locks are free, if they still match (`...Write`).
* **Locks.**  `held[r]` are the rows the open transaction of `r` has locked.
  `Needs(r)` are those its next statement has to find unlocked; `Blockers(r)`
  are the requests it waits for.  Foreign keys take part: an INSERT waits for
  whoever deletes the row it references, and for a conflicting unique key.  In
  `OrganizationMembership`, where others wait for it in turn, the INSERT of a
  membership has two steps: it writes the row (`InsertRow`), whose key and
  organization it holds from then on (the organization with a lock that INSERTs
  share, `KeyShared`), and waits for the account (`InsertCommit`).  The foreign
  keys are checked in the order they were created in, and the migration
  `20260717111428_cascade_membership_user_delete` created that of the user anew.
* **Commit.**  A transaction applies its writes in its last step.  Every row
  it writes is locked by then, so nobody can tell the difference.
* **Abort.**  At any step a request may be gone: a statement fails, the
  five-second transaction limit strikes, PostgreSQL chooses it as the victim
  of a deadlock, or the process stops (`server.stop(true)` cuts requests off).
  The transaction is rolled back.

Simplifications: a lock on a set of rows is taken at once (PostgreSQL takes
one row after the other); two reads that decide on nothing between them are
one step, always a step that a later write decides again; ids are model
values, given out once.  Passwords are not modelled: a wrong one is one more
way to be rejected.

## 3. Modules

| Module | Models | Composed with |
|---|---|---|
| `Ownership` | what the API promises about owners: founded, handed over, dissolved, accounts closed | abstract specification |
| `OrganizationMembership` | organizations, memberships and account deletion, statement by statement | refines `Ownership` |
| `OwnershipProperties`, `MCOwnership` | properties, fairness, refinement mapping; instance for TLC | |
| `OwnershipProofs` | TLAPS proofs, the refinement among them | |
| `Sessions` | what the API promises about a login session: one token renews it, none renews twice, what has ended stays ended | abstract specification |
| `RefreshSessions` | refresh tokens of all endpoints of `features/auth` | refines `Sessions` |
| `SessionProperties`, `MCSessions` | properties, refinement mapping; instance | |
| `SessionProofs` | TLAPS proofs, the refinement among them | |
| `OneTimeTokens`, `TokenProperties`, `MCTokens` | reset and verification tokens, mails | |
| `TokenProofs` | TLAPS proofs | |
| `BrowserSessions`, `BrowserProperties`, `MCBrowser` | browsers with their cookies, overlapping exchanges, late and lost answers | works on `Sessions` (INSTANCE), which `RefreshSessions` implements |
| `BrowserProofs` | TLAPS proofs | |
| `RateLimiter`, `RateLimitProperties`, `MCRateLimiter` | the fixed-window counter with its clock and restarts | |
| `RateLimiterProofs` | TLAPS proofs | |
| `Invitations`, `InvitationProperties`, `MCInvitations` | invitations, with the accounts and memberships they touch | |
| `InvitationProofs` | TLAPS proofs | |
| `Deployment`, `DeploymentProperties`, `MCDeployment` | the deployment job, the services around it and the operator | |
| `Listings`, `ListingProperties`, `MCListings` | the two paginated lists, and clients that walk them | |
| `ListingProofs` | TLAPS proofs | |
| `ServerProcess`, `ProcessProperties`, `MCProcess` | a server process from the set-up of telemetry to its end | |
| `OperationProofs` | TLAPS proofs about `Deployment` and `ServerProcess` | |

`users` with its deletion appears in four models, each with the rows that
cascade there; `acceptInvitation` in `OrganizationMembership` is the
transaction with which `Invitations` ends, so that the two meet in the same
statements.  There an invitation is no more than a row to lock (a claim finds it
pending or not): accepting claims it, deleting the account or the organization
waits for it.  Which invitations exist, and what becomes of each, is in
`Invitations`.  The deletion of an organization is in both, with the memberships
and roles there and the invitations here.  `BrowserSessions` does not repeat the SQL of
`RefreshSessions`: its handlers take the steps of the abstract `Sessions`, one
per await that a browser can notice, and an UPDATE that revokes still picks its
rows before it writes them.

Correspondence of the main state: `memberships`, `tokens`, `table`,
`invitation` are the tables of `prisma/schema.prisma` (a function from ids to
rows or `None`); `issued`, `opened`, `registered` are the ids handed out;
`granted`, `latest`, `admitted`, `retryAt`, `verified`, `replaced`, `newest`, the
fields `addressee` and `alone`, and what `walk` counts are history kept for the properties and read by no action,
except that an account with a verification in `granted` counts as verified.
`PROJECT.json` maps every definition to its lines.

## 4. Runs

| Run | Question | Result |
|---|---|---|
| `ownership` | all nine operations on one organization, three users, two concurrent requests | at most one OWNER; ownership moves in one step; an OWNER keeps the account; the last OWNER is lost only to a stale role edit or removal; a circle of waiting requests contains the deletion of an organization, or the INSERT of a membership that waits for an account which `deleteAccount` or `transferOwnership` has locked |
| `governed` | the same without role edits and removals, under fairness | refines `Ownership`, where every live organization has one OWNER; every request is answered |
| `stale_target` | comment at `features/organizations/services/index.ts:182` | violated, see section 6 |
| `sessions` | eight operations, two users, two families, three tokens | one token per family can be renewed; a revocation misses only the row a concurrent rotation inserts; circular waits only while an account is deleted; refines `Sessions` |
| `password_change` | comment at `features/auth/services/index.ts:326` | violated |
| `one_time_tokens` | two kinds, three tokens, two requests, mails that fail or get lost | what a row holds is consumed once; consumption and effect commit together; the last token issued stays in its row when its mail is reported sent |
| `rate_limiter` | two keys with limit 2, windows of 2 and 3 units, 5 units of time | less than twice the limit in any window's length; refusals and retry times are justified; no expired keys after a check |
| `invitations` | one organization and email, two generations of its account, two invitations, members who leave, the organization deleted | each invitation settles once; accepted exactly when it admits its addressee; one pending per address |
| `deployment` | five commits with 0, 2, 1, 2, 3 migrations | what serves stays protected; so does what it replaced, unless the same image is deployed again; a new image starts on exactly its own schema; never an older commit |
| `listing` | three users, two organizations, four memberships with two times, pages of one or two rows, offsets to 2, cursors followed or sent to another list | whoever stays is listed once by cursor; an offset errs by the shifts under it |
| `browser` | two browsers, two exchanges under way, two sessions, three tokens | a cookie never goes back to a superseded token; reuse detection spares a browser that waits for its answers and gets them; logout ends the session whichever of its tokens the cookie holds |
| `process` | three requests, two signals, a queue of two spans | exit code 0 leaves no ended span behind; a signal ends the process |

**Bounds.**  Two concurrent requests are enough for every race listed under
"hazards": each is between two transactions, or a transaction and a statement.
The third user of `ownership` makes room for a former owner, an owner and a
bystander; three memberships allow one to be deleted and inserted again.
Three tokens allow a rotation, and a login or a second rotation, in one
session.  Three hashes allow two re-requests.  Two users with one email are
an account, its deletion and its successor.  Four memberships let a walk of two
pages meet a row that left, one that joined before its position and one after;
two times make equal and inverted `createdAt` possible, as two instances with
different clocks write them.  Two exchanges are an overlap within a browser or
a pair of browsers, three tokens a login and two rotations.  Three spans
overfill a queue of two.  Two ids per table are reused by
no one, so running out of them ends a behaviour early but makes no state
unreachable that fewer insertions can reach; running out makes an INSERT fail.
`rate_limiter` has two windows' lengths in its time, so that one interval can
overlap two windows of a key.  `deployment`'s third commit takes a migration
back, the others cover equal, more and many migrations; a rebuild of a commit
yields the same digest there (with two builds per commit and three commits
the same properties held over 704 000 states).  Symmetry is used in runs
without liveness only.

**Fairness** (`governed`, `process`).  Each request's next statement is strongly fair:
PostgreSQL queues the waiters of a row, so that a statement which becomes
possible again and again is executed; requests do not starve each other.  A
request in a circular wait is eventually aborted: PostgreSQL's deadlock
detector does that after `deadlock_timeout`.  No fairness is assumed for
starting requests or for other aborts.  Under it, `leave`'s bounded retry is
what makes `EveryRequestAnswered` hold: unbounded, two transfers back and
forth could keep it busy for ever.  In `process` only the steps of the
shutdown are weakly fair: Bun closes its connections when told to, and an
export times out, so that each awaited promise settles.  Nothing says that a
request ends or that a signal comes.

`CHECK_DEADLOCK FALSE` is set where the system may really stop: when all ids
are used up and every account is gone, no request can start.

Every property has a mutant: a changed definition, kept beside the original
and marked "Mutant", that stands for a plausible bug and with which TLC finds
the property violated (`PROJECT.json` pairs them).

## 5. Proofs

TLC shows the properties on small instances; TLAPS proves these for every
number of users, organizations, memberships, requests, commits and so on.
Each component has an inductive invariant `IInv`, one lemma per action, or one
case where that is enough, that the action keeps it, and then one theorem per
property.

*Ownership* (`OwnershipProofs`).  The invariant is
`IInv == TypeOK /\ LocksOK /\ TablesOK /\ \A r : Locals(r) /\ Pinned(r)`.
`TablesOK` is what the tables promise (at most one OWNER, foreign keys,
uniqueness, ids issued).  It is not inductive by itself: `TransferCommit`
keeps it only because the two rows it writes are still what the transaction
read.  `LocksOK` says that no row is locked twice and idle requests lock
nothing; `Locals(r)` ties what a request remembers and the rows it has locked
to its program counter; `Pinned(r)` says what must still be true of the
locked rows although the reading was steps ago.  The proof has one lemma per
action; `QuietStep` (the tables do not change: only `r`'s own `Locals` and
`Pinned` are to be shown) and `WriteStep` (a write by a request that then is
idle: the others' `Pinned` survive because the written rows were not theirs)
carry the common part.  From `IInv` follow `TypeOK`, `AtMostOneOwner`,
`MembershipsConsistent`, `TransferRowsPinned` (the last two only proved, as is
`ExactlyOneOwner` below: no run checks them), and with a lemma on the effect
of each writing step the action properties `OwnerKeepsAccount`,
`TransferMovesOwnership` and `OwnerLostOnlyToStaleWrite`.

A circular wait is a property of the state, and `DeadlockOnlyByDissolutionOrInsert`
follows from `IInv` alone: `Locals` says which kinds of rows a request has locked
at each program counter.  There is no common order.  `transferOwnership` locks a
user, then the organization, then memberships; `deleteById` invitations, then
memberships, then the organization; `deleteAccount` the user, then invitations,
then (by the cascade) memberships; `accept` an invitation, and then its INSERT, as
that of `addMember`, the organization and then the user.  Without `deleteById` in a
circle, nobody in it has a membership locked, so nobody waits for one; then nobody
has an organization locked exclusively.  Were no INSERT waiting for an account that
`deleteAccount` or `transferOwnership` has locked, none would be in the circle, and
the other two, with only users locked, would wait for rows nobody has.  The
exceptions are real: in `ownership`, TLC reaches a circle of an acceptance with
`deleteAccount`, and one of `addMember` with `transferOwnership` (section 6).  Other statements on invitations (create, cancel, decline, expire) are
transactions of their own; signing up by an invitation claims its row and references
its own new account and the organization, so that it waits for nothing but
`transferOwnership` and the two deletions, and never for one that waits for its
claim unless an organization is deleted.

*Refinement* (also `OwnershipProofs`).  Under
`Operations \cap {"updateMemberRole", "removeMember"} = {}` the invariant
`GInv` adds that no request is at a role edit and that every live organization
has an OWNER; `ExactlyOneOwner` follows, and every step maps to a step of
`Ownership` or leaves its variables unchanged.

*Sessions* (`SessionProofs`).  `OneActivePerFamily` is not inductive: that
`RotateInsert` adds a token is harmless only because the row it replaces is
locked, and was the family's only valid one.  So `IInv` has `Pinned` (the token
a rotation has locked is still unrevoked), `Holds` (which rows each statement
has locked), `LocksExclusive`, `Locals` (what a request remembers of its token
agrees with the row, if the row is still there) and `Found` (a revocation saw
tokens of its family only; if it saw none, the family has no valid token, and
none can appear).  `Found` is what `LogoutMissesOnlyRotation` rests on.
`DeadlockOnlyWhileClosing` follows from `Holds`.  For the refinement the opened
family without a valid token maps to `Ended`: each statement that revokes is
`End` of the families whose valid token it took, `RotateInsert` is `Renew`.

*Browsers* (`BrowserProofs`).  `CookieNeverSuperseded` speaks of cookies that
have arrived; what makes it inductive is `OnTheWay`: a token in an answer is the
last of its session and newer than any that arrived.  A rotation keeps it since
only the accepted token rotates, the accepted token is the last one issued
(`LastAccepted`), and the browser that presents it has received it (`Arrived`):
no answer of that session can be under way.  `OneBrowser` (no two browsers have
tokens of one session, in the jar, in a request or in an answer) keeps one
browser's answers from making another's cookie old.  `Alone` says that the
token of a request that does not overlap with others stays the newest, from
which `ThrownOutOnlyByLostAnswer` follows; `LogoutTargets` is for a logout what
`Found` is in `SessionProofs`.  `Refinement`: the handlers, whatever is stale
when they act, change the sessions as `Sessions` allows, as the statements of
`RefreshSessions` do.

*One-time tokens* (`TokenProofs`).  For `OneGrantPerIssue`, a confirmation's row
is locked and still unused when it commits (`Pinned`), and an unused row holds a
hash no grant has consumed (`TablesOK`).  It is about what the row holds when it is
consumed; of the token that was presented it says nothing (section 6).  For
`LastIssuedStands`, each hash is in the hands of one request that will either report
the mail or withdraw the token (`Standing`): a request withdraws only what was not
sent.  It is about the last token issued; a newer request replaces the token of an
older mail, and takes the row away altogether when its own mail fails.

*Rate limiter* (`RateLimiterProofs`).  A history variable records each admission
with its rank in its window.  First admissions of a key's windows are at least
`Window[k]` apart (`WindowsApart`), of two admissions of one rank the later is of
a later window (`RanksApart`), and the entry in the Map has the admissions of
the window under way (`Current`); without an entry every window is over
(`Vacant`; a restart loses the Map, and the history counts per process).  In an
interval as long as a window, the admissions after the start of a later window
have different ranks, at most `Limit[k]`; those before it have, too, and none of
them has rank 1: together fewer than `2 * Limit[k]`.  The counting is with
injections into intervals of numbers (`FiniteSetTheorems`).

*Invitations* (`InvitationProofs`).  Requests copy an invitation's organization
and email, and act on the copy many statements later.  `Evolves` says what no
step does: change the address of a row, make a row pending again, give a user
another email, give a user id out twice.  Hence `Found` (the copy is right as
long as the row exists) survives the steps of others, and `Holds` (a claimed row
is locked and pending until its request commits) makes acceptance and membership
one step.  `OnePendingPerAddress` is a conjunct of `IInv`, kept by the unique
index behind `create.insert`.

*Deployment* (`OperationProofs`).  The invariant is
`IInv == TypeOK /\ ServedImagesKept /\ NoneAhead /\ JobOK`.  `JobOK` says what
each phase may rely on although it was checked phases earlier and the main
branch and Cloud Run may have moved since: from `migrate` to `terraform` the
service runs the image the plan recorded, which is no newer than the job's
commit; from `apply` to `terraform` the database has exactly the commit's
migrations; at `terraform` the job's image is tagged and in the registry; at
`untag` the image that serves is the job's, verified, and what it replaced is
the recorded one.  `NoneAhead` (no released image is newer than main) is what
makes the plan's comparison with main bound the age of the image it replaces.
`MigrateStep` and `PushStep` have the arithmetic; steps that leave the cloud
alone are covered by `QuietStep`.

*Server process* (also `OperationProofs`; `ProcessProperties` instantiates
`ServerProcess`, which keeps its names apart from the
deployment's).  `CleanExitLeavesNoSpan` needs to know what can put a span into
the queue when the shutdown is past its flushes: nothing, because without
telemetry the provider does not run (`QuietWithoutTelemetry`), a failed flush
goes to the catch (`FailureShows`), and nothing sets telemetry up after the
server has started (`StartedFirst`).  `ProcessTypeCorrect` has the limit of the
queue, counted with `FiniteSetTheorems`: a span is queued by one step only,
which asks for room first.

*Listings* (`ListingProofs`).  A page is defined by counting: a row belongs to the
first `n` when fewer than `n` rows come before it.  The first part of the module
proves, for any finite ordered set, what the pages rely on: the first `n` are a
downward closed set of at most `n` elements (`InitialClosed`, `InitialFinite`), of
exactly `n` if that many exist (`InitialFull`) and the whole set if not
(`InitialWhole`), with a last element (`InitialLast`); two consecutive slices are
one (`SliceOfSlice`); removing elements moves as many at most into the first `n`
(`ThinnedMoves`), and none out of it (`ThinnedKeeps`).  What would be an induction
is the choice of a least or greatest number, from `WFMin`.

`MembersListedOnce` speaks of a walk that is done.  During it, `CursorDivides`
holds: what was listed does not lie after the cursor, and every member of the
list since the first page is listed or lies after it.  A row that joins before the
cursor, where an inverted clock may put it, is neither listed nor a member since
the first page; a cursor of another organization is refused, so that a walk which
is sent to another list starts from nothing there (`OwnCursor`).
`OffsetErrsByShifts` needs the same of a number.  The offset divides the reader's
organizations into those passed and those to come, and is wrong by what was
inserted before it or removed: `OffsetShifts` bounds the lasting organizations
passed unlisted by those lost, and the repeated ones together with the listed ones
still to come by those gained.  That sum, and not the repeated ones alone, is what
a step keeps: a join pushes a listed organization over the boundary now, and a
later page repeats it (`GainShifts`, `LossShifts`, `RepeatsCounted`).

Assumptions: `RowsDistinct` and `KeysDistinct` (ids of different tables, and keys
of different kinds, differ), `NoneIsNoValue`, `NoneIsNoImage`, `NoOwnerValues`,
`NoTokenValues`, `NoTokens`, `NoFamilies` (markers are no values, families no
tokens), `NumbersOrdered` (organizations, memberships and times are numbers, which
is how the lists order them; the page limit is positive), `OperationsKnown`, `SchemaOfCommits`, `TokensOrdered` (tokens are numbered
in the order they are issued), `LimitsPositive`, `QueueNotEmpty`.  They separate
values that are separate in the database, or state what the configuration's
schema demands.

Only model-checked: liveness (`EveryRequestAnswered`, `SignalEndsProcess`), which
TLAPS does not prove.

## 6. Where documentation and code part

Two runs show a disagreement as a counterexample:

* **`stale_target`.**  `updateMemberRole` and `removeMember` read a membership,
  see that it is not OWNER and write by id.  A transfer in between makes it
  OWNER; the write demotes or removes it and no OWNER is left.
* **`password_change`.**  The UPDATE that revokes all tokens does not see the
  token a concurrent rotation or login commits; that session survives.
  Logout and reuse detection have the same gap for one family
  (`LogoutMissesOnlyRotation` says exactly when).

The models reach four more; the properties that are checked say what holds in
spite of them:

* A role is read by the middleware.  A request to delete the organization,
  overtaken by a transfer of the same user, deletes it in the name of a former
  OWNER (`features/organizations/services/index.ts:74`: only the OWNER may).
* A confirmation finds a token's row and consumes it by its id; a new request
  reuses the row and sets `usedAt` back to null.  Of two concurrent confirmations
  of one token, the second succeeds as well if a new request commits between them,
  and burns the new token (`shared/auth/repositories/index.ts:212`: only one
  succeeds).  One confirmation alone, overtaken by a new request, has the replaced
  token accepted (line 249: it is replaced atomically).  What a row holds is
  consumed once all the same (`OneGrantPerIssue`).
* An invitation that is written while the account it is addressed to is being
  deleted escapes the UPDATE that cancels the account's invitations, and a new
  account with that email can accept it
  (`features/users/repositories/index.ts:72`: it cannot).
* `docs/observability.md:175` has the spans flushed before the server stops;
  `server.ts:30` stops the server first.  `CleanExitLeavesNoSpan` shows that
  the spans of handlers that go on after the stop are exported all the same
  when they end before the provider stops; later ones are lost.

Also observed, not contradicting a document: three kinds of transactions can
deadlock, and PostgreSQL aborts one of them, whose client gets an error (every
request is answered, `EveryRequestAnswered`).  `accept` claims an invitation and
waits for the account that `deleteAccount` has locked, which waits for the
invitation.  `addMember` or `accept` has the organization locked by its foreign key
and waits for the account that `transferOwnership` has locked as the target's, which
waits for the organization: the target left and is added again, or the target's id
is that of a membership elsewhere.  `deleteById` and `transferOwnership` lock
memberships and the organization in opposite orders.

When a newer request's mail fails, its token is withdrawn with the row, and the link
of the mail sent before, which the newer token had replaced, is dead as well.  The
rate limiter admits up to
`2 * limit - 1` in an interval of a window's length; `accept` and `rotate` do
not look at the expiry again that an earlier statement has checked; running a
deployment again whose verification failed makes the candidate its own
rollback image, and the tag of the image before it goes; a deployment after a
failed one records the unverified image as the one to go back to; an invitation
or a member written while the organization is being deleted makes the deletion
fail on a foreign key, which `deleteById` does not map to an answer of its own.

## 7. Not modelled

Renaming an organization and editing a profile (one-row updates that no
property can tell apart); Supabase's endpoints (one forwarded call, no state);
validation, routing, OpenAPI, DTOs, mail texts; the configuration, redaction
and exporters of telemetry; Terraform's resources beyond the service's image.

Abstracted inside the models: what a wrong password, a failed check of a plan
or of IAP does (`Reject`, `Abort`); the wall clock going back; several
instances of the process, each with its own Map; the roles of operators in
`Invitations`; in `Invitations` an organization's members are only those who
hold the invited emails.  In `BrowserSessions` all browsers belong to one
account, a password change is what logging out everywhere is, an expired
refresh token is one more way for a refresh to be refused, and a bearer token
never expires (a refused bearer changes nothing).  In `Listings` a user whose
account went and who joins again stands for another account.  In
`ServerProcess` the sampler and the list of ignored paths are a request that
leaves no span, and the roll-back of a telemetry set-up that fails half way is one
step (`StartupError`): what it leaves behind is checked, the states within it are
not.  `OrganizationMembership` lets a claim find its invitation pending or not.

## 8. Plan

Done: ownership (model, runs, proofs, refinement), sessions and the browsers
over them, one-time tokens, rate limiter, invitations with the deletion of
organizations, listings, server process, deployment.

Proved: every safety and action property of these components that a run expects
to hold, and both refinements.

What is left: the liveness properties stay with TLC.  Five hazards have no
property, since the code lets them happen (their notes in `PROJECT.json` say how the
models reach them; what holds in spite of them is checked and proved): a property of
their own would come with a change of the code.

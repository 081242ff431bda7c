# Waypoint: TLA+ models, checks and proofs

Waypoint (the repository's Game-Server-Dashboard) is a private portal for the
members of a small community: a Go web server over one SQLite database, and a
separate gateway agent that gives members' devices WireGuard access to single
addresses and ports of the LAN. This directory models the parts whose
correctness depends on order, concurrency, failure and time, checks them with
TLC on small instances, and proves the main results with TLAPS.

## 1. The system

| Component | State | Operations | Interacts with |
|---|---|---|---|
| Gateway agent (`internal/vpn/gateway.go`, `cmd/gateway`) | memory: desired, applied, appliedUntil; disk: `policy.json`; kernel: nftables table, WireGuard peers | `Init`, `Apply`, `Tick` every 5 s | portal, over a Unix socket; kernel, by commands with a 5 s timeout |
| Device and network desk (`internal/portal/vpn.go`) | `vpn_devices`, `vpn_targets`, `vpn_grants`, `vpn_history`, `vpn_status` | enroll, request, decide, revoke, edit destinations, expire; `/v1/policy`, `/v1/applied` | members, administrators, gateway, catalog, members table |
| Connection packs (`packs.go`) | `vpn_deliveries`, sealed keys | create or replace a device, erase, consume once | device desk, gateway status |
| Request desk (`requests.go`) | `requests`, `transitions`, `messages`, `access_records`, `access_history`, `followups` | submit, reply, note, transition, grant, end, confirm a removal, `Reconcile` | members, administrators, catalog |
| Visibility (`policy.go`) | none: a function of user, service, category, access | `discover`, `detail`, `packServiceAllowed` | every page, device desk |
| Accounts and sessions (`auth.go`, `admin.go`, `app.go`) | `users`, `sessions`, `tokens`; a generation per account | sign-in, password change, logout, invitation, reset, enable, demote; recovery on the host | all; the session library loads a session when a request begins and stores it when it ends |
| Two-factor and passkeys (`security.go`, `passkeys.go`) | `account_security`, `passkeys`, `recovery_codes`, `auth_challenges` | enroll, remove, challenge, verify once, reset another's factors | accounts |
| Mail outbox (`email.go`) | `mail_outbox` with leases | enqueue, lease, send, retry, cancel | all; SMTP |
| Storage (`db.go`, `schema.sql`) | the database | `Write`: one transaction on the only connection; `Migrate` | all |
| Start-up (`cmd/waypoint`, `app.go`, `packs.go`, `security.go`) | key files, control socket, listener | read or make the keys, open the socket and the listener | storage, packs, security |
| Catalog, media, settings (`admin.go`, `media.go`) | services, categories, links, announcements, media | edit, archive | all |

**What is hard.** Store.Write serialises transactions, so the hazards lie around
them: handlers that read before the transaction and act on it inside
(`RequestNetwork`, `Reply`, `Transition`, `/v1/applied`), forms posted late or
twice, handlers that end many rows at once, times that pass between a check and
its use, expiry that is only recorded lazily. Sign-in is the extreme: a handler reads its
session, the password and the factors in separate calls, and stores its own copy of the session at the end,
while others change all of them. The gateway adds commands that
fail after taking effect, crashes between any two steps, kernel timers that run
from another moment than the one they were computed at, and calls lost or
handled late. `PROJECT.json` lists each hazard at its line.

**What makes each part correct.** The agent: what it believes applied is what
the kernel does; expiry holds without a portal; nothing is installed that is not
on disk. The desks: a request moves only along its lifecycle, on terms the
administrator saw, whatever is in progress; every move is in the history; ending
a device, a member or an access ends all that hangs on it. Accounts: a session counts only while
what it was opened with does, and nothing is used twice. Start-up: the schema is whole and the sealed rows
are readable before anything is served. Together: only what
was approved is forwarded, and what is withdrawn stops being forwarded.

## 2. The modules

| Module | Models | Against |
|---|---|---|
| `Gateway` | the agent and the kernel objects | `gateway.go`, `cmd/gateway/main.go`, ruleset of `policy.go` |
| `GatewayRestart` | `Gateway` and the policies it has received | the comment at `gateway.go:159` |
| `DeviceAccess` | device desk and packs | `vpn.go`, `packs.go`, parts of `admin.go`, `requests.go` |
| `Permission` | abstract: the lifecycle of a network permission | implemented by `DeviceAccess` |
| `NetworkControl` | `DeviceAccess` and `Gateway` with the two calls between them | `VPNControlHandler`, `Tick` |
| `RequestDesk` | requests, access records, follow-ups | `requests.go`, parts of `admin.go` |
| `MailOutbox` | the mail queue and its worker | `email.go`, the triggers of `security.sql` |
| `Accounts` | accounts, factors, sessions, call by call | `auth.go`, `security.go`, `passkeys.go`, parts of `admin.go`, `email.go` |
| `Startup` | migrations, key files, opening of the listeners | `db.go`, `app.go`, `packs.go`, `security.go`, `cmd/waypoint/main.go` |
| `..._proofs` of `Gateway`, `DeviceAccess`, `NetworkControl`, `RequestDesk`, `Accounts`, `MailOutbox`, `Startup` | theorems (section 4) | |
| `MC...` | instances for TLC | |

### Gateway

`phase` is the program counter of the one goroutine. `Start`, `InitDeny` and
`InitFails` are `Init`; `TickBegins`, `Receive`, `PollFails` and `AckReturns` are
`Tick`; `Persist`, `Deny`, `Sync`, `Install` and their `...Fails` twins are the
four steps of `Apply` in the code's order. `Error` is what the caller does with
an error: from `Init` the process exits, from `Tick` it waits for the next one.
The steps differ in what failed *and what may have happened anyway*: a command
that reports an error, or is killed at its timeout, may have taken effect.
`Crash` may happen anywhere; whether the kernel objects survive it depends on
whether the container's network namespace does, so both are allowed.

- A policy is its set of rules and also its revision, since the revision is a hash
  of the contents. `NoPolicy` stands for "none": no file, nothing applied.
- Unexpired rules are filtered twice in the code, before the peers are synced
  and when the ruleset is built; `active` and `at` keep these two moments.
- Kernel timeouts are relative: `lag` is how far the running timers are behind
  the recorded expiries. `Clock` keeps the time between sampling and a
  successful command below `CmdTimeout`; this supposes that the process is not
  suspended between `time.Now()` and the start of the command.
- The cap of a timeout at one year (`policy.go:162`) is never reached, since approvals last
  at most a year. Rules with less than a second left are dropped by the code;
  seconds are not resolved here.

### DeviceAccess and Permission

One action per handler, since a transaction is atomic; what a handler reads
before its transaction is an action of its own (`CheckOffering`, `OpenReview`,
`CheckAck`), with the read kept in `call`, `review` and `ack`. Names, keys and
addresses are a device's identity; an enrollment takes a new address that is never
reused, as the code's pool does. `ExpiredGrants`, `ExpiredTrail` and `ExpiredDeliveries` are
`expireVPN`, which runs inside `RequestNetwork` and `Reconcile`; `RevokedGrants`,
`RevokedTrail`, `RevokedDevices` and `Erased` are what `RevokeDevice`, `saveMember` and
`createPackDevice` each do to the rows of the devices they end. `Snapshot` is `vpnSnapshot`.

- Forms that carry the version of one row do nothing when it changed; only the
  accepted call is an action. Forms are honest: their versions are ones a page showed.
- A member's role is fixed (`Admin`); what settings make visible is a set of
  members per service (`audience`), changed by `SetAudience`.
- A handler in progress when its member is disabled still commits if its own
  transaction does not look: that is how the code behaves, and the model too.
- The page's 20-second window and the pack's freshness window are both `Fresh`.
- `packOwner`'s check of the session's generation is the `Identity` of `Accounts`.

`Permission` is what `docs/vpn.md:43` says of a request. The documented diagram
leaves out that revoking a device also ends requests still pending; the code does
this on purpose (`vpn.go:378`), so `Revoked` allows it.

### NetworkControl

`Gateway` is instantiated with the rules the portal can serve. `Serve` reads the
snapshot while the agent waits, `Deliver` is the agent decoding it, possibly
after the tables have moved on; giving up on the poll drops the answer. The acknowledgment
in `post` may be handled after the agent has stopped waiting, or never. One POST
is in flight at a time. `installed` is a history variable of the properties.

### RequestDesk

`Reply`, notes and `Transition` are three moments: a page (`OpenPage`), the handler's
read (`Post...`), the transaction (`Commit...`). `call` holds any number of such calls.
`EndAll` is what expiry, revocation and disablement do alike: state, history and follow-up;
`owed` is a history variable that says what the follow-up ought to say. `SetMember`,
`SetService`, `Reconcile` and `Restart` occur in both desks; each module models
what the handler does to its tables.

### MailOutbox

`worker` is `deliverOne`, and every query of it a step: `Tick` reads the settings, `Claim`
is the claiming transaction, `Check` the four questions asked before sending
(`Reason` names what forbids a message, and `Forbid` is all that members and
administrators do about it meanwhile), `Send` is SMTP, `Record` writes the result through
`Finish`. `Abandon` is a crash, or a result that cannot be written, at any of these
steps; `QueryFails` is a check whose query fails, which the code takes for a no.

- Times only matter as "has `available` come": `ready`. The difference between
  the code's `<` and `<=` at one second is not resolved.
- The portal is one process with one worker, so a lease is never claimed twice at once; it matters
  for attempts that were lost, and for those alone it is `"lost"`.
- Each message goes to a member of its own, so that what forbids one does not touch the other.
- A payload that decrypts but does not parse ("Invalid queued message") cannot occur:
  `queueMail` writes JSON.
- `tried`, `accepted` and `barred` are history variables. What the worker never learnt of, or lost
  with an attempt, is subtracted: `docs/accounts-email.md:42` allows a second delivery
  for it, and the properties say that nothing else causes one.

### Accounts

A call of a handler is a member of `Call`; `at` names the database call it makes next, and between
any two of them other handlers run. `copy` is its private session: loaded by `Begin`, changed by the handler,
stored whole by `Save`. That is how `auth.go` meets the session library (`scs`, external): `LoadAndSave` reads the
row once; because of `IdleTimeout` (`app.go:91`) every request stores its copy again; `RenewToken` and
`Destroy` delete the row at once, and the new token is drawn and stored when the request ends (`NewToken`).
A copy that was never stored and holds nothing gets no row.

- `gen` is the generation, and what counts is decided by `Valid`: the account exists, is enabled and has the generation
  remembered. `Identity` is `securityIdentity`, asked for inside a transaction.
- A password and an authenticator's secret are named by the generation that the change writing them produced,
  so that the properties can tell the current one from an earlier one. The session's `password` and
  `key` are history: what its holder proved.
- A wrong password or code, an exceeded rate limit, an identity not recently confirmed, an expired link
  or challenge, a failing database call: each is a refusal, and `Fail` may refuse at any stage. `Issue` deletes any
  set of other challenges as expired.
- `Begin` joins the loading of the session and the lookup of its account; `current`, asked again
  while a page is rendered, is `Rendered`, which destroys a session that has ended meanwhile.
- The administrator's role is looked up when the request begins and not again; `saveMember`'s count
  of administrators includes those locked out by a factor reset, as in the code.
- `accepted` counts how often a step's code was accepted, per secret.
- Rows of `tokens` are named by the account they lead to. An invitation names no account yet, so `LinksOf` leaves it out.
- Sessions do not expire by themselves in the model; `Logout` of any row stands for that too.

### Startup

`process` is what each process does next; a `server` and the `migrate` command share one volume, in two versions. `schema` is what is committed, `tx`
what the holder of the write lock sees; `Ends` rolls back. The four key steps of `initDelivery` and `initSecurity` are
alike and are one set of actions over `kind`; `csrf.key` has no count and no `O_EXCL`, and nothing depends on which key it is.
`Short` is a key file that was created and not (wholly) written. `Seal` and `Erase` are the rows that a serving portal writes and clears.
`Dies` may happen at any step (a signal, a kill, a lock timeout, a failing statement, a full disk), `LoseKey` while nothing runs. Shutdown is not awaited by
`main`, so an orderly end is no different. Durability of directory entries is taken for granted, and the control token is left out.

## 3. What TLC checks

| Run | Question | States |
|---|---|---|
| `gateway` | The agent with any two faults, three rules (two of one device with different expiries), five moments: safety, and local repair and expiry of peers although no poll ever need succeed | 77 k |
| `gateway_restart` | **Violation**, see below | |
| `device_access` | Two devices, two requests of two services: devices replaced, packed, revoked, disabled in any order (one that carries permissions is revoked or disabled here, and replaced only in the theorem `RetirementComplete`: both requests are of one device); decisions from stale or repeated forms against an edit of the destination; a policy of at most one rule while services are hidden and return; refinement of `Permission` | 810 k |
| `control` | Portal and gateway together: only approved rules are forwarded, a pack means a connection | 1.6 M |
| `withdrawal` | A withdrawn permission stops being forwarded; `Reconcile` records expired permissions and erases expired packs | 240 k |
| `confirmed` | **Violation**, see below | |
| `requests` | Two calls on one access request, each from reads of any age: legal moves, each logged as what it was | 1.37 M |
| `access` | Access and support requests, grants with and without end, a call in progress while the member is disabled: logs, reminders, no access of disabled members, expiry recorded without a call | 1.24 M |
| `mail` | An invitation and a notification behind it, two attempts, one fault, one retry: attempts, duplicates, secrets, cancellation, progress | 186 k |
| `sign_in` | From an empty portal: one account, two browsers, two requests at once; the host's commands, passwords, authenticators, secure actions | 1.11 M |
| `factors` | From accounts in use, in four scopes: passkeys and the removal of factors; enrollments, recovery codes and reset links that race; two administrators who edit and reset each other; invitations | 884 k |
| `startup` | Servers of two versions and `migrate` at once, four deaths or lost key volumes: ledger, opening, keys, and that the portal comes up | 118 k |

**Bounds.** `MaxTime`, `MaxFaults`, `MaxTargetVersion`, `MaxVersion`, `MaxGen` and `MaxKeys` cap counters and
appear in guards; the other constants are the code's limits at small values.
They are large enough for what the properties are about: two moments tell
"before" from "at" an expiry; `Fresh = 0` and one tick make an acknowledgment stale;
`MaxDevices = 1` and `MaxActive = 1` put every limit within reach of two rows; two
target versions let a form be stale; two calls give every race of two actors; two faults
let a repair fail too. A single member
and service suffice for properties that are about one device, request or holding each;
`device_access` has two services because its limit is shared, and `mail` two messages, one with a link and a sealed payload, one
without, so that one waits behind the other; with two attempts there is one that is retried and one that is the last.
`requests` has an access request only: the moves of
support requests are checked for their log by `access`, with one call at a time. The theorems of
section 4 do not depend on any of these.

`sign_in` reaches three generations: created, enrolled, and changed once more; a login needs two to
overlap a change and a third to sign in after it. `factors` starts from accounts that are already signed in (each start is
reached by the operations of `sign_in` and by invitations) and has four, so that two changes can follow
each other. Its variable `scope` chooses the operations that are used in a behaviour: all of them at once are too
many, and each scope holds the operations that can disturb one another in the races the properties are about. Two time steps tell a used code from a new one. Three processes
in `startup` are the upgrade: the old server, the new one, and a migrator; four deaths let a key file be lost after rows were sealed and
a server die while it makes another.

State constraints cut what is not asked: `NotArchived` (`control`) does not expand
states with an archived service, which acts as a hidden one that never returns; `OneIsEdited` (`device_access`) edits one of the two
destinations, hides one of the two services or withholds it from the member, archives none, and handles acknowledgments only while no request is in progress and no form
awaits a decision (`control` has their overlaps); `FewChallenges` (`factors`) keeps a second challenge to the scope of racing enrollments.
They are used in runs of safety properties only; `withdrawal` restricts
the next-state relation instead (`UnarchivedFairSpec`), which cuts no behaviour short. Symmetry is over interchangeable calls and tokens.

**Deadlock** is checked in every run: members can always be disabled, mail switched off or desks reconciled again,
the agent always polls again, requests keep arriving, and a serving portal may seal or erase rows.

**Fairness.**
- `Gateway!FairSpec`: weak fairness of the agent's own steps and of the return of
  a poll. The loop in `main` ticks for ever, compose restarts the process
  (`restart: unless-stopped`), and the HTTP client and every command have a timeout. That a
  poll is ever *answered* is not assumed.
- `RequestDesk!FairSpec`: weak fairness of `Reconcile` only, the one-minute
  ticker of `cmd/waypoint/main.go`.
- `MailOutbox!FairSpec`: weak fairness of the worker (`StartMail`'s five-second ticker; SMTP has a
  timeout of 20 s) and of time passing for each message. That a delivery ever succeeds is not
  assumed, nor that mail stays on.
- `NetFairSpec`: the agent keeps running, and an answer gets through again and
  again (strong fairness of `Serve` and `Deliver`). This is an assumption on the
  deployment; `docs/vpn.md:55` promises nothing to a gateway that is cut off. `Minutely` is the portal's ticker.
- `Startup!FairSpec`: a process goes on, a server that ended is started again (`compose.yaml:33`, `restart: unless-stopped`),
  and a migration that waits for the lock gets it sooner or later (strong fairness of `Begin`): a process that
  waits longer than `busy_timeout` ends and is started again. That nobody dies is not assumed; the number of deaths is bounded.
  `ComesUp` allows the cases in which the code refuses for good (`Refused`): only newer binaries fit, a key is
  gone that rows were sealed with, or a key file is short. The last is an observation: a server that dies between creating and
  writing a key file leaves one that every later start refuses until it is removed by hand.

**Disagreements between documentation and code** (`findings` in `PROJECT.json`):
- `gateway_restart`: the comment at `gateway.go:159` and `docs/vpn.md:55` say that a received
  revocation cannot be undone by a restart. The policy is received before it is
  persisted: a crash in between, or a failed write followed by a restart, brings
  the older policy back until the next poll. What does hold, and is proved, is
  `OnlyPersistedIsInstalled`.
- `confirmed`: the page says "Gateway confirmed the current policy" when the recorded revision
  is the current one. A revision is a hash of contents, so when a permission is
  approved, installed and revoked before its acknowledgment counts, the policy
  is again what was confirmed before, and the page says so while the gateway
  still forwards the revoked permission, until its next poll.

**Mutants.** Each property has a mutated definition (`Name_Variant`) next to the one it
replaces, a plausible bug (no repair of a failed application, two steps of Apply exchanged, an expiry
not written to the history, a version not compared), under which its run fails.

## 4. What TLAPS proves

For every value of the constants, from the assumptions named in the modules:

`Gateway_proofs`: `TypeCorrect`, `AppliedEnforced`, `ExpiryEnforced`, `PersistedFirst`, `PeersUnderDeny`.
None of the four properties is inductive. `IInv` adds to the types
- `Timing`: the moment timers were computed is in the past, and `lag` below `CmdTimeout`;
- `Stages`: what each phase has already established (disk, desired, denied, peers synced);
- `Enforcement`: if something is applied, then table, peers and disk are its own.

The argument for `AppliedEnforced` is that between `Deny` and `Install` nothing is applied,
and that `Install` re-establishes the equation from `Stages`; for `ExpiryEnforced`
that a timer starts less than `CmdTimeout` after it was computed.
Assumptions: expiries are natural numbers, `NoRule` is no rule.

`DeviceAccess_proofs`: `TypeCorrect`, `RetirementComplete`, `HistoryComplete`, `ReviewedApprovals`,
`LifecycleImplemented`, `PolicyFits`.
`IInv` is types, `Terms`, `RetiredHoldNothing` and `HistoryIsComplete`.
- `MassStates` says what `expireVPN` and the revocation of a set of devices do to each
  row; every step that moves many rows is reduced to it.
- `Terms` holds the reason for `ReviewedApprovals`: an open form's version is never
  ahead of the destination's, and equal versions mean equal destinations.
- `LifecycleImplemented` shows that each row moves as `Permission` allows in every step
  (`StepIsLawful`), so the desk refines it.
- `PolicyServable` is not inductive, since hidden rules return. `Capacity` counts all
  unexpired approvals, hidden or not; only `Approve` can add one
  (`OnlyApproveApproves`), and it counts first. The policy is an image of a subset of them.
Assumptions: the columns that are never updated have their types, the rows and devices
are finite sets, `None` is no row.

`NetworkControl_proofs`: `DeskImplemented`, `GatewayImplemented`, `OnlyApproved`, `PacksConnect`.
The composition implements each side alone, so the theorems above hold of it. `NetInv` is the
two inductive invariants together and
- `ApprovedTerms`: what an approval makes of a request can be a rule of the gateway's;
- `Backing`: every copy of a rule, on its way, on disk, in memory or in the kernel, was approved as it is. This is the reason
  for `OnlyApproved`: a policy may arrive however late, since nothing un-approves a rule but revocation and expiry, and
  neither lets it be approved again with other terms;
- `Receipts`: a revision on its way back or recorded stands for rules that were installed, but for those that expired meanwhile, so
  `PacksConnect` holds of late acknowledgments too.

Assumption (`GatewayAssumption`): the timeout and the bound on faults are numbers, `NoRule` is no rule.

`RequestDesk_proofs`: `TypeCorrect`, `LogsComplete`, `EndsReminded`, `DisabledHoldNone`, `LegalMoves`.
The tables need only their own facts. `LegalMoves` needs `ReadsAreTrue`, about the calls that have read a page and
not yet written: the version one carries is one the request has had, and while it is the current one the
request is in the state that was read and the move that was checked is legal. The version check in the transaction does the rest.
Assumptions: the columns never updated have their types, end dates are times or none.

`Accounts_proofs`: `TypeCorrect`, `LiveProven`, `LockedOut`, `CodesOnce`, `ChallengesOnce`, `AddedSignedIn`, `EndedStay`, `OneRemains`.
A handler reads and writes in several database calls with nothing locked in between, so what it has read says nothing by itself.
`IInv` says of every stored session (`Sound`) and of every handler in progress (`SoundCall`) that the generation it names is not
ahead of the account's, and that *if it is the current one*, what was read with it is still so: the password and passkey it rests on,
whether there is a factor, whether the account is locked, whether the user is an administrator. The argument in three lemmas:
- `AccountStep`: every change that matters increments the generation (`Moves`), one lemma per handler;
- `SoundStays`, `SoundCallStays`: hence what named a generation before such a change is sound after it;
- `HandlerStep`, `SessionStep`: each stage of a handler, and each write of a session, establishes it for what it has just read.

`LiveProven` and `LockedOut` follow at once; `AddedSignedIn` from the same, since a handler admitted to enroll serves an account that had no factor.
`CodesOnce` rests on `SpentIsPast` (an accepted code is of no later step than the last one recorded), `ChallengesOnce` on
challenges being taken and erased by one call, `OneRemains` on each
administrator's handler deciding and writing within one transaction (`Mildly`: no other step unmakes or disables an administrator, locks
anyone or, apart from enrollment, adds a factor).
`EndedStay` follows sessions into the handlers that hold copies of them. By `HandsStep` what a handler holds is what it held before, what
it has just loaded from the row of its token, or what it signs its holder in with; by `StoreStep` a row is written only by a handler with its token
or a new one, and by `Nameless` one without a token holds nothing that counts; by `StillProves`, generations never going back, what counts
after a step counted before. So a session that does not count and that no request holds stays so. The one way back it leaves is the
code's: a request that loaded the session before a logout stores it again (`app.go:91`).
Assumptions: what stands for "none" is no member of its set, steps are positive numbers, generations are bounded by `MaxGen >= 1`.

`MailOutbox_proofs`: `TypeCorrect`, `AcceptedOnce`, `SecretsLive`, `BarredNotSent`. `IInv` adds
- `LeaseIsOwn`: only the attempt in progress holds a lease, of its own message, and what it copied from the row is the row;
- `TriesAreCounted`: the row counts the deliveries, but for the one to be recorded;
- `SecretIsKept`: the payload goes with the end of the message;
- `ChecksHaveHeld`: what has barred a message ever since its claim can only be what its attempt has still to ask about.

Assumptions: messages are numbered in the order of the queue, each has a kind, the bounds are numbers.

`Startup_proofs`: `TypeCorrect`, `LedgerTrue`, `MigratedBeforeOpen`, `SealedReadable`. Two arguments that hardly meet:
- the lock's holder is the one migrating, and at each step its copy of the schema is the committed one with a known number of
  migrations applied (`LockIsHeld`, `MigrationIsTrue`); only a server at its own version goes on (`ServersAreMigrated`);
- a key file is made by one process, while no row is sealed, and any process that has gone past a key
  has the one that rows are sealed with (`KeysAreKept`), through lost volumes and racing starts.

Assumptions: servers are processes, a binary knows at least one migration, the bounds are numbers.

The numbers that bound a run (`MaxTime`, `MaxGen`, `MaxFaults`, `MaxRetries`, `MaxKeys`...) are parameters of these theorems: they hold
for every value, so no bound of a run hides a failure of what is proved. Each inductive invariant was checked
with TLC before it was proved.

Two definitions of `Accounts` are written for the prover as much as for the reader: `RemoveKey` and `Redeem` name the row they change
(`Bumped`, `WithPassword`), where a nested `EXCEPT` with `@` would have said the same.

Only model-checked: `LocalRepair`, `WithdrawalArrives`, `LapseIsRecorded` (of `DeviceAccess` and of `RequestDesk`), `MessagesSettle`
and `ComesUp`. They are liveness properties: their proofs need `ENABLED` and fairness, which the prover does not handle. All other properties of
the passing runs, invariants and action properties, are proved.

## 5. Not modelled, and the plan

Left out for good:
- `Visibility` (`policy.go`) and the catalog's categories, links, announcements and settings: functions of the
  rows read in one query sequence, and plain edits of single rows; the repository's tests enumerate them. What the device desk needs of them
  is the set of members a service admits.
- the verification of e-mail addresses: its effect on messages is in `MailOutbox` (`BarAppears`, `BarGoes`); its links
  are consumed as those of `Accounts` are.
- media files, seed data and the end-to-end harness, routing and
  templates (I/O and rendering), the syntax of addresses and names, contents of archives, passwords and codes themselves.

Hazards that no property covers are in `PROJECT.json`, with the reason. One belongs to the session library: since every
request stores its session again, a request that overlaps a logout stores the row back. The model
has this behaviour; a logout ends no generation, so no property excludes it. `docs/security.md:19` says that logout deletes the
server-side session, and it does: the late write makes a new row of it. `EndedStaysEnded` states how far this goes: `Outstanding` is a session that is
stored or that a request still holds, and only such a session can come back.
The short key file is another: a start that meets one is refused until it is removed by hand, which `ComesUp` excuses.

What can be proved next, in order:
1. abstract specifications in the manner of `Permission`, with a refinement theorem each: a request's lifecycle (a request with its log), a
   session's (opened, counted, ended, never counted again), a message's (queued, tried, over). Their steps
   are already the content of `LegalMoves`, `EndedStay` and `AcceptedOnce`; the abstraction says them in one place.
2. the safety halves of the liveness properties: that nothing but the awaited step takes the system from the state that
   leads to the goal.
3. lemmas shared by `Accounts_proofs` stated once for a handler in general, to shorten the longest module.

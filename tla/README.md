# Formal models of apod

TLA+ specifications of the apod daemon (`internal/`), checked with TLC on small
instances and, as far as safety goes, proved with TLAPS for every instance. The models follow the Go code: one
action per handler step, failures where the code has error paths, and the names
of the code wherever TLA+ allows them. A definition's counterpart in the source
is listed in `PROJECT.json` under `map`.

## The system

apod is one daemon. HTTP handlers (`internal/server`) call methods of one
`Engine` (`internal/engine`), each in the goroutine of its request; cron entries,
timers and uptime tickers run in goroutines of their own. The engine changes
three stores that no transaction spans: the SQLite database (`internal/db`, one
connection, so each statement is atomic and nothing larger is), Docker
(containers, networks, compose projects), and files (site directories, Traefik's
dynamic configuration, local backups). What keeps them together is the per-site
lock, best-effort cleanup and the order of the calls. That is where the hard
behaviour is, and what the models are about.

| Component | State | Operations | What is hard | Module |
|---|---|---|---|---|
| Lock manager (`safety.go`) | `locks`: label by domain | `Acquire` (fails at once when held), `Release`, `detachCtx` | every exit path releases; label and holder agree; disconnecting clients | `SiteLifecycle` |
| Site lifecycle (`engine.go`, `compose.go`, `siteupdate.go`) | `sites` row, containers, site network, compose project, directories | create, destroy, start, stop, restart, update | ten-minute operations of dozens of calls, any of which fails; rollback; reclaiming what a crash left | `SiteLifecycle`, `SiteContract` |
| Progress hub (`progress.go`) and event streams (`DeployEvents`) | buffers, subscribers, run generations, retention timers | `Begin`, `Emit`, `Subscribe`, `forget` | replay against live events, slow clients, timers of older runs | `ProgressHub` |
| Domains, aliases, ids (`domain.go`, `driver.go`) | `domains` rows, a router file per site, generated drivers, compose projects | `AddDomain`, `RemoveDomain`, checks in create, `Save`, `Delete` | check-then-insert under the locks of different sites; drivers saved without any lock | `DomainClaims` |
| Process scaling (`process.go`) | containers by replica index, `process_scaling` | `ScaleProcess`, `RestartProcess` | half-finished scales, gaps, the template replica | `ProcessScaling` |
| Git deploys (`deploy.go`, `webhook.go`) | working tree, what containers are bound to, `deployments` rows, cooldown map | `Deploy`, `Rollback`, `HandleWebhook` | tree, row and containers change one after the other; repeated deliveries | `Deployments` |
| Backups (`backup.go`, `db/backups.go`) | rows, archives in storage | create, restore, delete, prune | rows and archives are removed in different orders, without the lock | `Backups` |
| Copies of sites (`clone.go`, `migrate.go`, `database.go`, `env.go`) | directories, database volume, archives | clone, export, import, new site from backup | the target is worked on without its lock; the database is copied by file or by name | `SiteCopies` |
| Schedulers (`cron.go`, `schedule.go`), uptime (`uptime.go`) | entries of running crons, a goroutine per check; rows kept by domain | add, remove, reload, boot; enable, disable, poll | memory built from rows that others change without a lock | `BackgroundJobs` |
| Shared networks (`networks.go`), site transfer (`user.go`) | membership rows, Docker endpoints, owner | create, delete, join, leave, transfer, reconnect | no lock; owner compared before it changes | `SharedNetworks` |
| Accounts (`auth.go`, `token.go`, `totp.go`, `loginthrottle.go`) | user row, sessions, tokens, last TOTP step, lockouts | login, changes, revocation, second factor | read-then-write of one-time codes; credentials that change under a login | `Accounts` |
| Traefik, proxy and IP rules, secrets, CLI, updater, firewall, FTP, quota, monitoring | files, OS commands | | generated text and I/O; not protocols | |

Handlers reach the engine in two ways: operations take the site's lock and hold
it to the end; the handlers of per-domain rows only check access and write.
Operations publish to the hub while they hold the lock. The scheduler's entries
call `CreateBackup` like a request. Everything else that is shared is a row.

## Modules

A module `MCX` only gives `X` the symmetry (and, for `DomainClaims`, the map from
hosts to ids) that its `.cfg` uses; the other configurations run `X` itself.
`XProofs` holds the theorems about `X`; those about `Deployments` and `ProgressHub`
are together in `DeployProofs` (what a deploy does and what clients hear of it),
those about `DomainClaims` and `ProcessScaling` in `ServingProofs` (what reaches a
site and what works for it). So that these modules can extend both, the names of
`ProgressHub` and `ProcessScaling` that would clash have a prefix (`HubSpec`,
`ScalingTypeOK`), and `ProgressHub` calls the domains `Sites`.

### `SiteContract` and `SiteLifecycle`

`SiteContract` is what a caller may rely on: at most one operation per domain, it
ends, and when nothing fails its outcome is a function (`Outcome`) of the
operation and of what it found. A domain is seen as `none`, `up`, `down` or
`mixed` (record and Docker disagree).

`SiteLifecycle` is the engine, call by call.

| Model | Code |
|---|---|
| `lock` | `LockManager.locks`; the label is the operation |
| `site` | the `sites` row (status, owner, driver type) |
| `cont[d]` | the containers labelled with the domain, by driver type and service |
| `net[d]` | `apod-site-<id>` and `<project>_default`: absent, bare, or with Traefik attached |
| `files` | the site directories, by owner and domain |
| `job[p]` | arguments and locals of a request: `todo` is the list of containers read at the start |
| `BeginX` ... `Release` | one operation, from `Acquire` to the deferred `Release` |
| `Fail`, `RollbackCompose`, `RollbackContainers`, `RollbackRows` | the deferred function of `CreateSite` and `rollbackPartialCreate` |
| `ClientGone` | the request's context is cancelled; `Detached` lists the operations that run under `detachCtx` |
| `Crash` | the daemon dies; locks and goroutines vanish, everything else stays |

Every call that can fail is a disjunction of its outcomes, partial ones included
(`docker compose up` may bring up any subset of the services). `clean` remembers
that an environment failure hit a call whose error the code ignores; `before` is
what the domain looked like when the operation took the lock. Both are used by
properties only. Abstracted: contents of files, images, git history and hooks;
`Quiet` operations (backup, export, configuration) hold the lock and change
nothing modelled here.

### `ProgressHub`

Each critical section of `h.mu` is a step; `Subscribe` takes buffer and
registration in one. A stream is the `DeployEvents` handler: replay first, then
the channel, until an event that ends the run. A retention timer *expires* in the
order of the deadlines, but `time.AfterFunc` runs `forget` in a goroutine of its
own, so `Forget` happens any time later. `clock`, `overtaken` and the `op` of an
event are history. The hub's maps are keyed by domain and nothing crosses keys,
so the runs use one domain.

### `DomainClaims`

Who a host and who an id belongs to: the `sites` rows, the `domains` rows
(`UNIQUE` host, cascade on delete), the router files, the generated drivers and
the compose projects. Each request holds the lock of its own site, and none
while `CreateSiteFromCompose` saves its driver. `Ident` is the id derived from a
domain (dots to dashes); a content of a compose file is a model value. `raced`,
`stale` and `mixed` are history: they name the overlaps, the failed writes and
the lost drivers that excuse an exception. A create that fails is `Rollback`,
whose teardown depends on the driver that is there at that moment.

### `ProcessScaling`

One worker service. `ScaleProcess` walks a cursor over the replica indexes
(`Base`, `Up`, `Extras`, `Record`); the other operations (`BeginEach`) act on
every container there was when they began. `smooth` says that a scale met no
failing call and no gap that hides a replica from `removeExtras`.

### `Backups`

The backups of one domain. `rows` is the `backups` table; `archive` is storage, by
place and second: the place of `local` is the directory of whoever owns the site
when it is opened (`Place`). Backups, restores and destroys hold the lock;
`DeleteBackup`, `PruneOldBackups` and `TransferSite` do not, so each of their
statements and storage calls is a step that meets all others. A fault is a call
that fails, a failed upload may leave a part of an archive, or a crash.
`begun`, `latest`, `epoch` and `cut` are history. The exceptions of the properties
are what the code really does: backups of one second are twins (`Twin`), an
interrupted delete leaves a row without an archive (`cut`), and after a transfer
the local archives of the old owner are no longer found (`r.place`).

### `Deployments`

`Deploy`, `Rollback` and webhook pushes. A commit is a branch and a number; `tree`
is what is checked out, `row` the latest row of `deployments`, and `bound` says
whether the containers are bound to the directory that is there now: `rm -rf`
and a new clone leave them on the old one until they are started again. `last`
is `webhookLastDeploy` in ticks. `let` and `stray` are history. A site is created
from a single branch, and only a clone by a deploy fetches every branch (`wide`).
Every commit and every branch appears at any time (`Commit`), so a fetch sees what
the remote has then.

### `SharedNetworks`

Rows (`owner`, `netOwner`, `member`) against Docker (`box`, `bridge`, `link`).
Operations on containers hold the site's lock and end in
`reconnectSharedNetworks` (`Reconnect`, then `List` and `Connect` for each
network); joins, leaves, transfers and network creation and removal hold none.
`Slots` are the container `CreateSite` starts and the replicas a scale adds.
`excuse` is history: `overlap` (a join or a reattachment under way together with
something that cuts), `kept` (Docker refused a disconnect), `missed` (a call of
an attachment failed) and `bounced` (a deploy or a restart of a process started
what was stopped, which attaches nothing).

### `BackgroundJobs`

The cron manager and the backup scheduler have one structure and are modelled
once: rows, the object that runs (`cur`, `crons`), the mutex of `Reload`. The
uptime checker is `check` (rows), `polls` (the map of goroutines with the
configuration each was started with), `pinging` (a goroutine that was stopped in
the middle of a poll) and `logs`. Sites of a domain are numbered, so that a row
or an entry remembers which of them it was made for. `Restart` is a death of the
daemon followed by `New`, which loads everything from the rows.

### `Accounts`

One account. `LoginWithPassword` and `ChangeOwnPassword` are one protocol
(`Compare`, `Factor`, `Consume`, `Burn`, `ResetThrottle`, then a session or a new
password); every statement is a step, and so is every call of the throttle, which
has a mutex. Passwords, keys and secrets are numbers of a common counter, so "the
one there is now" can be told from "the one there was". `late` marks a session or
token whose request was under way when what it goes by changed; `raced` the codes
two logins were about to accept at a time; `replayed` the codes accepted from a
login that began after they had been used; `lockEnd` when the last lock should
end. Sessions that expire end as by `Logout`.

### `SiteCopies`

`Clone` (native: the directories, at rest; compose: declared paths and a dump),
`ExportSite`, `CreateBackup` as far as its archive goes, `ImportSite` and
`CreateSiteFromBackup`, around the `CreateSite` they call, against creates,
destroys, starts, stops, `SetEnv`, `DBImport` and the traffic of the site.
A content is a number. A database has the name it was initialised with, which
dumps and restores must hit (`DumpOf`, `Restored`): they name it after the domain.
`clean` says that a copy met no other request on its target and no leftovers,
`hurt` names sites whose containers a failing call or an import left in another
state than their row says.

## What the runs check

| Run | Instance | Shows |
|---|---|---|
| `site_lifecycle` | 1 domain, 2 requests, 2 services, 2 owners, both driver types, 1 failing call, 1 crash; with fairness | `MutualExclusion`, `HalfBuiltHasBuilder`, `FailedCreateLeavesNothing`, `RecordSafety`, and `Implements`: refinement of `SiteContract`, liveness included |
| `progress_hub` | 1 domain, 2 streams, buffer and channel of 2, 3 operations, 3 events besides first and last ones; with fairness | `InOrder`, `NothingMissed`, `BufferLifetime` |
| `domain_claims` | 3 hosts, 2 of which share an id, 2 files, 2 requests | `RoutedAsRecorded`, `ClaimsExclusive`, `ProjectsAsAsked` |
| `process_scaling` | up to 4 replicas, default 2, 3 failures or crashes | `ExactWhenSmooth`, `RecordFollowsReplicas` |
| `backups` | local storage, 2 owners, 3 backups within 2 seconds, 2 requests, a destroy or a transfer, 1 failing call or crash | `Restorable`, `AccountedFor`, `RestoresAll`, `NewestKept` |
| `deployments` | 2 sites, one with a repository, 2 branches, 2 commits, 2 deployment rows, 2 requests, cooldown of 1 tick, 1 failing call, 1 crash | `HooksSeeTheirCommit`, `RowsTellTheTree`, `DeploysSpaced` |
| `shared_networks` | 1 site of a base and a replica, 1 network, 2 owners, 2 requests, 1 failing call | `BridgesOneOwner`, `MembersAreLinked` |
| `background_jobs` | 1 domain, 2 sites one after the other, 2 configurations of a check, 2 requests; with fairness | `LoadedAreTheRows`, `PollsFollowChecks`, `RecordedJobsRun` |
| `accounts` | 2 goroutines, 3 requests of several steps, 2 recovery codes, lock after 2 failures, window 1, lock 2, 2 further time steps | `CodesUsedOnce`, `NoStaleCredentials`, `LockoutHolds` |
| `site_copies` | 2 domains, 2 requests at a time and 4 in all, 2 contents, 1 failing call | `CopiesWhole`, `SourceAsFound` |
| `stale_jobs` | 1 request at a time | refutes `FiresForItsSite` |
| `deploy_tree` | no failing call, no crash | refutes `TreeSurvives` |

Each passing run also checks the `TypeOK` of its module (`HubTypeOK`,
`ScalingTypeOK`), which says besides the types which lock, goroutine or mutex belongs to whom.

Why the bounds are enough. Locks, containers and records of different domains
are different keys of every map, so one domain with two requests has every race
there is on a domain except those of three requests, and the lock leaves room for
one operation plus unlocked writers; the proofs cover any number. Two services
make "some but not all" possible. One failure and one crash compose with each
other and with a later create on the debris; the operations in between are not
bounded. A buffer and a channel of two overflow. Three operations are the fewest
for a timer to meet a run of its own number after a `forget`. Three hosts give two
colliding sites and a host both want. Four replicas leave a gap in the middle with
replicas on either side. Three backups give retention two to delete and one to
keep, two of them of one second; local storage is the harder one, since its
place moves with the owner. Two branches, of which one may not exist yet, and a
site without a repository take every path of a deploy. Two sites of one domain
are the fewest for something to be inherited. Three logins or changes are the
fewest for one to be accepted, one to be under way meanwhile and one to come
after. The clock of an account leaves a step before, within and after a lock and
the drift of a code. Two domains and four requests make a clone of a clone, and a
copy onto what an unpurged site left.

Two statements of the code's own comments do not hold, and a run shows how:

- `stale_jobs` / `FiresForItsSite`: the rows of a destroyed site are deleted so
  that the next one inherits nothing (`db/sites.go`, "stale cron commands
  re-run"), but the entries of the running cron are not.
- `deploy_tree` / `TreeSurvives`: `deploy.go` refuses a deploy rather than
  "wiping a working tree we can't yet replace"; of a branch the remote does not
  have, the fetch succeeds, the reset fails, the tree is removed, the clone fails.
  (A branch it has takes the same way the first time, since a site is cloned with
  `--single-branch`; the clone then succeeds, without what git did not track.)

### Fairness

`SiteLifecycle!FairSpec` is weak fairness of each request's steps. Each call of
an operation is bounded by the deadline of its context, and Go runs every
runnable goroutine, so an operation that has begun keeps moving. Requests,
disconnects, failures and crashes are never forced. `ProgressHub!HubFairSpec` is
weak fairness of the timers only. `BackgroundJobs!FairSpec` adds to the weak
fairness of the requests strong fairness of `Reload`, which waits for a mutex:
Go's `sync.Mutex` hands itself over to a waiter that has waited for a
millisecond. The other specifications state safety alone.

## What else the models found

These follow from the code and are part of the models; the properties name them
as exceptions, or are not about them.

- Dumps, restores, exports and backups name a database after the domain
  (`migrate.go:49`, `backup.go:306`, `database.go:31`), while a native clone keeps
  the database name of its source (`clone.go:88`): an export of a cloned site has
  no database, and a clone of a clone records a name that is not that of its data.
- A clone writes into the directories of the target, and removes them on failure,
  without the lock of the target; what an unpurged site left there is mixed in.
- `DisableUptime` prunes the logs before it stops the goroutine
  (`uptime.go:333`, `337`): a poll in between leaves logs no check owns.
- The rollback of a create deletes the uptime check without stopping its
  goroutine (`engine.go:653`), which the destroy does (`engine.go:758`).
- A deploy restarts containers without attaching shared networks again
  (`deploy.go:130`; compare `networks.go:138`): of a stopped site it starts what
  joined nothing.
- `Rollback` goes to `HEAD~1`, not to the commit deployed before, and a second
  rollback acts on the same row. A deploy whose `rev-parse` fails leaves the tree
  ahead of the rows. A push the lock refuses starts the cooldown all the same.
- A compose project keeps the network Traefik is attached to (`compose.go:960`);
  a compose destroy leaves the alias router's file (`engine.go:768`); a project
  whose generated driver was deleted is torn down as if it were native; a refused
  `CreateSiteFromCompose` has already replaced the driver (`compose.go:555`).
- A worker paused at 0 replicas is started by every operation that starts all
  containers of its site. Two backups of one second share an archive
  (`backup.go:299`). A full channel drops the event that ends a stream
  (`progress.go:91`).
- A per-site writer that passed `checkSiteAccess` before a destroy leaves its row
  to the next site of the domain (`routes.go:320`, `cron.go:101`).
- Two logins at a time may use one code (`totp.go:126`, `143`); a login that
  passed with the old password may insert its session after the change revoked
  all others (`auth.go:170`).

## What is proved

Every safety property that a passing run checks is a theorem, for every value of
the constants: any number of domains, requests, services, owners, networks,
streams, branches, hosts, replicas, and any bound on failures, crashes and time.
Every proof has the same outline: the
inductive invariant (`IInv`; `HubIInv`, `ScalingIInv`) says for each label of an operation what has been
done and what has not, one lemma per action shows that the action keeps it, and
the theorems follow from it. TLC checked every part of `IInv` on the instances
above before it was proved.

**SiteLifecycle.** `MutualExclusion` is not inductive: a step by one request must
not be able to disturb another's, which needs to know that what a request holds
is what its program counter says. `IInv` adds to the type invariant and
`MutualExclusion` that the arguments of an operation fit its label (`Args`), that
a create past its insert and before its end owns the record it works on (`Owns`),
and that a half-built record has a create behind it (`Built`). Each action is
first reduced to its shape (whose lock, which record, which cursor it changes),
and the preservation lemmas are about shapes. From it `TypeCorrect`,
`OneOperationPerSite`, `NoHalfBuiltRecord`, and the action property
`RecordsAreSafe`.

What an operation leaves needs more: `Outcomes` says of every label what a request
that is still `clean` has made of its domain by then, by what it found (`before`).
A create on a free domain has started exactly the services that are not on its
list; a destroy of a whole site leaves only what is still on its list; an update
never touches the record. Since the lock makes a request's work local to its
domain (`Local`), nobody else disturbs this. It gives `FailedCreatesVanish`
(`FailedCreateLeavesNothing`) and `KeepsTheContract`: each step of the engine is a
step of `SiteContract` or none, under the refinement mapping of `Implements`.
What a caller sees of a domain changes only at the end of an operation, and then
to an outcome `Outcome` allows.

**Deployments.** `IInv` follows the tree and the latest row of a site through
fetch, reset, wipe, clone, record and bounce: how far they have come apart at each
label, and that they agree on a site without an operation unless it is in `stray`.
Other sites do not matter, by one frame lemma. `HooksRight`, `RowsRight`, and
from `LetInv` (the cooldown map is never behind the pushes that were let in,
whatever is evicted) `CooldownHolds`.

**BackgroundJobs.** One part for each structure the requests share: site locks,
generations of sites, the mutex of `Reload`, the loaded entries, the map of polls,
the logs. The cron object that ticks is the current one, and none while the mutex
is held; with nobody about to reload, its entries are the rows, plus rows that
went with their site. `LoadedRight`, `PollsRight`.

**DomainClaims.** A request works on the site whose lock it has; claims on hosts
and ids, which no lock guards, survive because every two requests that overlap in
wanting one are in `raced`. A create past its check has its claim, or the race is
on record (`AliasInv`, `IdInv`); the router's file is the recorded aliases up to
the one being added (`RouteInv`); the project of an id whose driver did not get
mixed up is that of its only site (`ProjectInv`). `RoutedRight`, `ClaimsHeld`,
`ProjectsRight`.

**ProgressHub.** What a stream has yet to send, its replay and then its channel,
is one run of consecutive events that ends with the latest, unless the channel was
full (`Goes`). A timer that no `forget` overtook is of a generation that the run
in progress has passed (`TimerInv`). `OrderKept`, `NothingLost`, and
`StaleTimersRight`, the safety half of `BufferLifetime`.

**Accounts.** The lock that was set last is the throttle's (`LockInv`). A request
issues credentials of the user there is or is `late`, and what is of neither has a
revocation still to come (`IssuedInv`); deleting a user makes all that run late.
A code that was used without an overlap is spent: the recorded step is not before
it, or its secret is gone also for those who are about to write (`CodesInv`).
`LockHolds`, `NoneStale`, `CodesOnce`.

**Backups.** What retention and deletes hold, without the lock, are keys of backups
that are settled and no longer recorded, or theirs to delete. A backup in progress
has the newest id, so it is none of them; an archive in its place is its own, or
they are twins. For `AccountedFor` each archive of the epoch has a row or somebody
who answers for it, and no older archive is where a backup of this epoch has put
its own (`Ours`). `RestorableHolds`, `AllAccountedFor`, `RestoresWhole`,
`NewestStays`.

**SharedNetworks.** Neither property is inductive, because nothing but the order of
statements keeps rows and endpoints together: `member` may name a network of
another owner for a moment, and a link may outlive its row. The invariant counts
what is still owed. Of a site that nothing excuses, the networks it is in have its
owner (`MemberInv`); an endpoint is of a network the site is in, or on the list of
a request that disconnects it (`LinkInv`); a running container that is not
attached has a request that will attach it, or that cuts its site off
(`WholeInv`). `Good` says label by label what a request relies on that read rows
before it calls Docker: a join that has compared the owners still finds them
equal, a transfer that is about to write the owner has left every network of
another. It holds because a step that links a site while another cuts it off
enters `overlap` at the moment it begins (`OverlapInv`). Each action is shown to
be `Mild` (it changes for others only what an overlap would excuse) and `Steady`
(no running container loses its endpoint without an answer); what all others keep
then follows from one lemma for each part. `NetworksOneOwner`,
`NetworksMembersLinked`.

**SiteCopies.** Of a copy nothing disturbed `TargetOk` says at each label what the
target has by then of files, environment and database, and `SourceOk` what the
source still has of what was noted (`want`): a native clone reads directories of
a source that is down and whose lock it holds, so `Resting` is what it copies. The
target has no lock while it is worked on; what keeps others out is that a copy
whose target anybody else names is not `clean` (`AloneInv`), so every step is shown
to be `Mild`: it leaves the domains others hold as they need them (`Settled`), and
where it touches the target of a copy it marks it. What a failing call may leave is
in `hurt`, and the containers of any other site that is not held run as its status
says (`FreeInv`). `CopiesAreWhole`, `CopiesSourceAsFound`.

**ProcessScaling.** The invariant follows the cursor of a scale: what is behind
it runs, what is beyond the first extra is gone as far as it got, and a smooth
scale hides nothing. From it `ScaleIsExact`, `RecordsAreBacked` and
`TemplateIsKept`.

The assumptions are the named ones of the constants, which TLC evaluates in the
runs: non-empty sets where the code has a default, capacities and limits that are
not zero, and values such as `None` or `Nobody` that are no element of what they
stand beside (`Quiet` contains no label of a modelled operation).

What the attempts to prove showed about the models: an insert in `DomainClaims`
could record in `mixed` an id no compose site has, which no instance contained;
`None` has to differ from an entry of the throttle (`NoneAssumption` in
`Accounts`) and from a row, a database or a content (`NoneAssumption` in
`SiteCopies`); a create of `SiteCopies` always wishes for a database, which the
invariant has to say although no instance showed it missing; and a recorded backup keeps its archive wherever it was put, so that
the condition of `Restorable` on `Place` says no more than where a restore looks.

**Only model-checked.** The fairness conjunct of `Implements` (that operations
end), the leads-to half of `BufferLifetime`, and `RecordedJobsRun` are liveness,
which these provers do not reach; the safety halves of the first two are
`KeepsTheContract` and `StaleTimersRight`. The two refuted statements are
counterexamples that runs find.

## Not modelled

Listed with reasons under `components` in `PROJECT.json`. In short: what is pure
text (expansion of drivers, Traefik labels, validation, proxy and IP rules),
cryptography, wrappers around operating system commands, the move of files
between Linux accounts, and the CLI. Database errors are assumed not to occur: the
database is a local file behind one connection. Data is abstracted throughout:
file contents, dumps, images, log lines.

## Where it could go on

Two hazards listed in `PROJECT.json` have no property: the allowlist file of IP
rules, written without a lock from rows read before (`iprules.go:47`), and the
compose network that stays attached to Traefik (`compose.go:960`), which is in the
model of `SiteLifecycle` and left by it like by the code. Webhook records, IP
rules and the move of files between Linux accounts are the next parts to model.

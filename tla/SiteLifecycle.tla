------------------------------ MODULE SiteLifecycle ------------------------------
(***************************************************************************)
(* The life of a site: the engine operations that create, destroy, start,  *)
(* stop, restart, update, deploy and roll back a site, run by concurrent   *)
(* request goroutines under the per-domain LockManager, against the sites  *)
(* table and an external Docker.                                           *)
(*                                                                         *)
(* Every database statement and every call to Docker, git or docker        *)
(* compose is a step of its own; runs of steps that no other goroutine can *)
(* observe or that only repeat a cleanup are one step. A call that may     *)
(* fail is a disjunction of its outcomes; failures of the environment are  *)
(* counted against MaxFaults, daemon crashes against MaxCrashes.           *)
(***************************************************************************)
EXTENDS Naturals, FiniteSets

CONSTANTS Domains,     \* site domains
          Procs,       \* request goroutines
          Services,    \* the services of a driver, one container each
          Owners,      \* site owners
          Admin,       \* the owner "" of the sites no user owns
          Nobody,      \* the owner of no site
          Drivers,     \* the driver types a site may be created with
          Quiet,       \* labels of lock holders that touch nothing modelled here
          MaxFaults, MaxCrashes   \* bounds on environment failures and crashes

ASSUME DomainsAssumption == Domains # {}
ASSUME NobodyAssumption  == Nobody \notin Owners
ASSUME AdminAssumption   == Admin \in Owners
ASSUME DriversAssumption == Drivers \subseteq {"native", "compose"}
ASSUME QuietAssumption   == Quiet \cap {"none", "free", "provisioning", "destroying",
    "starting", "stopping", "restarting", "updating", "deploying", "rolling back"} = {}
ASSUME BoundsAssumption  == MaxFaults \in Nat /\ MaxCrashes \in Nat

VARIABLES
  lock,    \* LockManager.locks: the operation label of each domain, or "free"
  site,    \* the sites table: one row per domain, or NoSite
  cont,    \* Docker: the state of each domain's containers
  net,     \* Docker: apod-site-<id> ("native") and <project>_default ("compose")
  files,   \* the <<owner, domain>> pairs whose site directory exists
  pc, job, \* where each goroutine is, and its arguments and locals
  faults, crashes

docker == <<cont, net>>
vars   == <<lock, site, cont, net, files, pc, job, faults, crashes>>

Kinds    == {"native", "compose"}
Units    == Kinds \X Services            \* a container: which driver type made it, which service
Statuses == {"creating", "error", "running", "stopped"}
NoSite   == [status |-> "absent", owner |-> Nobody, kind |-> "none"]
Row      == [status : Statuses, owner : Owners, kind : Kinds]

SiteOps  == {"provisioning", "destroying", "starting", "stopping", "restarting",
             "updating", "deploying", "rolling back"}
Ops      == SiteOps \cup Quiet           \* every label passed to LockManager.Acquire
DetachedButRestart == SiteOps \ {"restarting"}
Detached == SiteOps                      \* operations that run under detachCtx

Labels == {"idle", "insert", "reinsert", "prepare", "network", "services", "setup", "composeUp",
           "composeRoute", "finish", "rbCompose", "rbContainers", "rbRows", "teardown",
           "composeTeardown", "dropRow", "dropNet", "dropFiles", "starting", "markRunning",
           "stopping", "markStopped", "recreate", "pull", "bounce", "quiet",
           "ok", "failed", "rolledBack"}

Existing(d)  == {u \in Units : cont[d][u] # "absent"}
Of(k)        == {k} \X Services

(* What a free domain looks like, in the terms of SiteContract. A project  *)
(* network is not counted: once Traefik is on it, compose down cannot      *)
(* remove it, and a destroyed compose site leaves it behind.               *)
Whole(d) ==
  /\ site[d] # NoSite
  /\ Existing(d) = Of(site[d].kind) /\ net[d][site[d].kind] = "routed"
  /\ site[d].kind = "compose" => net[d]["native"] = "absent"
AllAre(d, s) == site[d].status = s /\ \A u \in Existing(d) : cont[d][u] = s

Phase(d) ==
  CASE site[d] = NoSite /\ Existing(d) = {} /\ net[d]["native"] = "absent" -> "none"
    [] Whole(d) /\ AllAre(d, "running") -> "up"
    [] Whole(d) /\ AllAre(d, "stopped") -> "down"
    [] OTHER -> "mixed"

Phases == {"none", "up", "down", "mixed"}

NoJob == [op |-> "none", dom |-> CHOOSE d \in Domains : TRUE, owner |-> Nobody,
          kind |-> "none", purge |-> FALSE, todo |-> {}, clean |-> TRUE, gone |-> FALSE,
          before |-> "none"]
Job   == [op : Ops \cup {"none"}, dom : Domains, owner : Owners \cup {Nobody},
          kind : Kinds \cup {"none"}, purge : BOOLEAN, todo : SUBSET Units,
          clean : BOOLEAN, gone : BOOLEAN, before : Phases]

TypeOK ==
  /\ lock  \in [Domains -> Ops \cup {"free"}]
  /\ site  \in [Domains -> Row \cup {NoSite}]
  /\ cont  \in [Domains -> [Units -> {"absent", "stopped", "running"}]]
  /\ net   \in [Domains -> [Kinds -> {"absent", "bare", "routed"}]]
  /\ files \subseteq Owners \X Domains
  /\ pc    \in [Procs -> Labels]
  /\ job   \in [Procs -> Job]
  /\ faults \in Nat /\ crashes \in Nat

Init ==
  /\ lock  = [d \in Domains |-> "free"]
  /\ site  = [d \in Domains |-> NoSite]
  /\ cont  = [d \in Domains |-> [u \in Units |-> "absent"]]
  /\ net   = [d \in Domains |-> [k \in Kinds |-> "absent"]]
  /\ files = {}
  /\ pc    = [p \in Procs |-> "idle"]
  /\ job   = [p \in Procs |-> NoJob]
  /\ faults = 0 /\ crashes = 0

---------------------------------------------------------------------------------
(* Helpers. *)

Dom(p) == job[p].dom
At(p, l) == pc[p] = l
Goto(p, l) == pc' = [pc EXCEPT ![p] = l]
Keep(p) == UNCHANGED job

(* UPDATE sites ... WHERE domain: no row, no effect. *)
SetStatusUpserts(d, s) == site' = [site EXCEPT ![d].status = s]
SetStatus(d, s) == site' = IF site[d] = NoSite THEN site ELSE [site EXCEPT ![d].status = s]
SetUnits(d, S, s) == cont' = [cont EXCEPT ![d] = [u \in Units |-> IF u \in S THEN s ELSE @[u]]]
SetNet(d, k, s) == net' = [net EXCEPT ![d][k] = s]

(* A request's context still lives: it was detached, or its client is still there. *)
CtxLive(p) == job[p].op \in Detached \/ ~job[p].gone

(* A call fails: the environment's fault, or the caller's context was cancelled. *)
Fault(p) ==
  /\ ~CtxLive(p) \/ faults < MaxFaults
  /\ faults' = IF CtxLive(p) THEN faults + 1 ELSE faults
Works(p) == CtxLive(p) /\ UNCHANGED faults

(* LockManager.Acquire by a new request. A busy domain answers Conflict and changes nothing. *)
Begin(p, op, d, rest, l) ==
  /\ At(p, "idle") /\ lock[d] = "free"
  /\ lock' = [lock EXCEPT ![d] = op]
  /\ job' = [job EXCEPT ![p] = [op |-> op, dom |-> d, clean |-> TRUE, gone |-> FALSE,
                 before |-> Phase(d), owner |-> rest.owner, kind |-> rest.kind,
                 purge |-> rest.purge, todo |-> rest.todo]]
  /\ Goto(p, l)
  /\ UNCHANGED <<site, docker, files, faults, crashes>>

Done == {"ok", "failed", "rolledBack"}

(* The deferred LockManager.Release, the last thing a handler does. *)
Release(p) ==
  /\ pc[p] \in Done
  /\ lock' = [lock EXCEPT ![Dom(p)] = "free"]
  /\ job' = [job EXCEPT ![p] = NoJob]
  /\ Goto(p, "idle")
  /\ UNCHANGED <<site, docker, files, faults, crashes>>

(* The operation is no longer clean: the environment failed it in a call it carries on from. *)
Hurt(p) == job' = [job EXCEPT ![p].clean = @ /\ ~CtxLive(p)]
Did(p, u) == job' = [job EXCEPT ![p].todo = @ \ {u}]

---------------------------------------------------------------------------------
(* CreateSite. *)

BeginCreate(p) == \E d \in Domains, o \in Owners, k \in Drivers :
  Begin(p, "provisioning", d, [owner |-> o, kind |-> k, purge |-> FALSE, todo |-> {}], "insert")

(* Driver missing, bad parameters, domain or derived id taken: nothing was created yet. *)
RefuseCreate(p) ==
  /\ At(p, "insert") /\ Goto(p, "failed") /\ Keep(p)
  /\ UNCHANGED <<lock, site, docker, files, faults, crashes>>

(* A record left by a failed create of the same owner may be taken over. *)
ReclaimableByOwner(d, o) == site[d].owner = o
Reclaimable(d, o) == site[d].status \in {"creating", "error"} /\ site[d].owner = o

NewRow(p) == [status |-> "creating", owner |-> job[p].owner, kind |-> job[p].kind]

InsertRow(p) == LET d == Dom(p) IN
  /\ At(p, "insert") /\ Keep(p)
  /\ \/ /\ site[d] = NoSite
        /\ site' = [site EXCEPT ![d] = NewRow(p)] /\ Goto(p, "prepare")
     \/ /\ site[d] # NoSite /\ Reclaimable(d, job[p].owner)
        /\ site' = [site EXCEPT ![d] = NoSite] /\ Goto(p, "reinsert")
     \/ /\ site[d] # NoSite /\ ~Reclaimable(d, job[p].owner)
        /\ UNCHANGED site /\ Goto(p, "failed")
  /\ UNCHANGED <<lock, docker, files, faults, crashes>>

Reinsert(p) ==
  /\ At(p, "reinsert") /\ Keep(p) /\ Goto(p, "prepare")
  /\ site' = [site EXCEPT ![Dom(p)] = NewRow(p)]
  /\ UNCHANGED <<lock, docker, files, faults, crashes>>

(* A step of a create returns an error: the deferred rollback takes over. *)
Fail(p, status) ==
  /\ SetStatus(Dom(p), status)
  /\ Goto(p, IF job[p].kind = "compose" THEN "rbCompose" ELSE "rbContainers")
  /\ job' = [job EXCEPT ![p].todo = {}]

(* Directories, git clone, secrets and driver files; the clone is what may fail. *)
Prepare(p) ==
  /\ At(p, "prepare")
  /\ files' = files \cup {<<job[p].owner, Dom(p)>>}
  /\ \/ /\ Works(p) /\ Keep(p) /\ UNCHANGED site
        /\ Goto(p, IF job[p].kind = "compose" THEN "composeUp" ELSE "network")
     \/ Fault(p) /\ Fail(p, "error")
  /\ UNCHANGED <<lock, docker, crashes>>

(* The site network, and Traefik on it: an error of the second call is ignored. *)
Network(p) == LET d == Dom(p) IN
  /\ At(p, "network")
  /\ \/ /\ Works(p) /\ SetNet(d, "native", "routed") /\ UNCHANGED site
        /\ job' = [job EXCEPT ![p].todo = Of("native")] /\ Goto(p, "services")
     \/ /\ Fault(p) /\ UNCHANGED site
        /\ SetNet(d, "native", IF net[d]["native"] = "absent" THEN "bare" ELSE net[d]["native"])
        /\ job' = [job EXCEPT ![p].todo = Of("native"), ![p].clean = @ /\ ~CtxLive(p)]
        /\ Goto(p, "services")
     \/ Fault(p) /\ UNCHANGED net /\ Fail(p, "creating")
  /\ UNCHANGED <<lock, cont, files, crashes>>

(* Pull, create and start one service. A container of that name left behind makes it fail. *)
ServiceUp(p) == \E u \in job[p].todo : LET d == Dom(p) IN
  /\ At(p, "services")
  /\ \/ /\ cont[d][u] = "absent" /\ Works(p)
        /\ SetUnits(d, {u}, "running") /\ Did(p, u) /\ UNCHANGED <<site, pc>>
     \/ /\ cont[d][u] = "absent" /\ Fault(p) /\ Fail(p, "error")
        /\ \E s \in {"absent", "stopped"} : SetUnits(d, {u}, s)
     \/ /\ cont[d][u] # "absent" /\ Fail(p, "error") /\ UNCHANGED <<cont, faults>>
  /\ UNCHANGED <<lock, net, files, crashes>>

ServicesUp(p) ==
  /\ At(p, "services") /\ job[p].todo = {} /\ Goto(p, "setup") /\ Keep(p)
  /\ UNCHANGED <<lock, site, docker, files, faults, crashes>>

(* Setup steps, then (if there were any) a restart of everything whose errors are ignored. *)
Setup(p) == LET d == Dom(p) IN
  /\ At(p, "setup")
  /\ \/ /\ Works(p) /\ Keep(p) /\ Goto(p, "finish") /\ UNCHANGED site
        /\ \E S \in {{}, Existing(d)} : SetUnits(d, S, "running")
     \/ /\ Fault(p) /\ Hurt(p) /\ Goto(p, "finish") /\ UNCHANGED site
        /\ \E u \in Existing(d) : SetUnits(d, {u}, "stopped")
     \/ Fault(p) /\ Fail(p, "error") /\ UNCHANGED cont
  /\ UNCHANGED <<lock, net, files, crashes>>

ProjectNet(d) == net' = [net EXCEPT ![d]["compose"] = IF @ = "absent" THEN "bare" ELSE @]

(* docker compose up -d reuses what is there and may stop half-way. *)
ComposeUp(p) == LET d == Dom(p) IN
  /\ At(p, "composeUp")
  /\ \/ /\ Works(p) /\ ProjectNet(d) /\ SetUnits(d, Of("compose"), "running") /\ Keep(p)
        /\ Goto(p, "composeRoute") /\ UNCHANGED site
     \/ /\ Fault(p) /\ Fail(p, "error") /\ ProjectNet(d)
        /\ \E S \in SUBSET Of("compose") : SetUnits(d, S, "running")
     \/ Fault(p) /\ Fail(p, "error") /\ UNCHANGED docker   \* clone, sanitize, security check
  /\ UNCHANGED <<lock, files, crashes>>

(* Attach Traefik to the project network (an error is only logged), write its route. *)
ComposeRoute(p) == LET d == Dom(p) IN
  /\ At(p, "composeRoute")
  /\ \/ /\ Works(p) /\ SetNet(d, "compose", "routed") /\ Keep(p)
        /\ Goto(p, "finish") /\ UNCHANGED site
     \/ /\ Fault(p) /\ Hurt(p) /\ Goto(p, "finish") /\ UNCHANGED <<net, site>>
     \/ Fault(p) /\ SetNet(d, "compose", "routed") /\ Fail(p, "error")
  /\ UNCHANGED <<lock, cont, files, crashes>>

FinishCreate(p) ==
  /\ At(p, "finish") /\ SetStatus(Dom(p), "running") /\ Goto(p, "ok") /\ Keep(p)
  /\ UNCHANGED <<lock, docker, files, faults, crashes>>

---------------------------------------------------------------------------------
(* rollbackPartialCreate, deferred behind every failed create. *)

(* DestroyComposeSite, best effort. compose cannot remove a network Traefik is still on. *)
ComposeDown(p) == LET d == Dom(p) IN
  \/ /\ Works(p) /\ SetUnits(d, Of("compose"), "absent") /\ Keep(p)
     /\ SetNet(d, "compose", IF net[d]["compose"] = "routed" THEN "routed" ELSE "absent")
  \/ /\ Fault(p) /\ Hurt(p) /\ UNCHANGED net
     /\ \E S \in SUBSET (Of("compose") \cap Existing(d)) : SetUnits(d, S, "absent")

RollbackCompose(p) ==
  /\ At(p, "rbCompose") /\ ComposeDown(p) /\ Goto(p, "rbContainers")
  /\ UNCHANGED <<lock, site, files, crashes>>

(* Every container labelled with the domain, then the site network; errors are ignored. *)
RollbackContainersAttached(p) == LET d == Dom(p) IN
  /\ At(p, "rbContainers") /\ Goto(p, "rbRows") /\ Works(p) /\ Keep(p)
  /\ SetUnits(d, Existing(d), "absent")
  /\ SetNet(d, "native", IF net[d]["native"] = "routed" THEN "routed" ELSE "absent")
  /\ UNCHANGED <<lock, site, files, crashes>>
RollbackContainers(p) == LET d == Dom(p) IN
  /\ At(p, "rbContainers") /\ Goto(p, "rbRows")
  /\ \/ /\ Works(p) /\ Keep(p)
        /\ SetUnits(d, Existing(d), "absent") /\ SetNet(d, "native", "absent")
     \/ /\ Fault(p) /\ Hurt(p)
        /\ \E S \in SUBSET Existing(d) : SetUnits(d, S, "absent")
        /\ SetNet(d, "native", IF net[d]["native"] = "absent" THEN "absent" ELSE "bare")
  /\ UNCHANGED <<lock, site, files, crashes>>

RollbackRowsButSite(p) == LET d == Dom(p) IN
  /\ At(p, "rbRows") /\ Goto(p, "rolledBack") /\ Keep(p)
  /\ files' = files \ {<<job[p].owner, d>>}
  /\ UNCHANGED <<lock, site, docker, faults, crashes>>
RollbackRows(p) == LET d == Dom(p) IN
  /\ At(p, "rbRows") /\ Goto(p, "rolledBack") /\ Keep(p)
  /\ files' = files \ {<<job[p].owner, d>>}
  /\ site' = [site EXCEPT ![d] = NoSite]
  /\ UNCHANGED <<lock, docker, faults, crashes>>

---------------------------------------------------------------------------------
(* DestroySite. *)

BeginDestroy(p) == \E d \in Domains, purge \in BOOLEAN :
  Begin(p, "destroying", d,
        [owner |-> IF site[d] = NoSite THEN Admin ELSE site[d].owner, kind |-> site[d].kind,
         purge |-> purge, todo |-> Existing(d)],
        IF site[d].kind = "compose" THEN "composeTeardown" ELSE "teardown")

(* A container that cannot be removed ends the destroy; the record stays. *)
Teardown(p) == \E u \in job[p].todo : LET d == Dom(p) IN
  /\ At(p, "teardown")
  /\ \/ Works(p) /\ SetUnits(d, {u}, "absent") /\ Did(p, u) /\ UNCHANGED pc
     \/ /\ Fault(p) /\ Hurt(p) /\ Goto(p, "failed")
        /\ \E s \in {"stopped", cont[d][u]} : SetUnits(d, {u}, s)
  /\ UNCHANGED <<lock, site, net, files, crashes>>

TornDown(p) ==
  /\ At(p, "teardown") /\ job[p].todo = {} /\ Goto(p, "dropRow") /\ Keep(p)
  /\ UNCHANGED <<lock, site, docker, files, faults, crashes>>

ComposeTeardown(p) ==
  /\ At(p, "composeTeardown") /\ ComposeDown(p) /\ Goto(p, "dropRow")
  /\ UNCHANGED <<lock, site, files, crashes>>

DropRow(p) ==
  /\ At(p, "dropRow") /\ Keep(p)
  /\ site' = [site EXCEPT ![Dom(p)] = NoSite]
  /\ Goto(p, IF job[p].kind = "compose" THEN "dropFiles" ELSE "dropNet")
  /\ UNCHANGED <<lock, docker, files, faults, crashes>>

(* Traefik is detached first: Docker keeps a network with an active endpoint. *)
DropNet(p) == LET d == Dom(p) IN
  /\ At(p, "dropNet") /\ Goto(p, "dropFiles")
  /\ \/ Works(p) /\ Keep(p) /\ SetNet(d, "native", "absent")
     \/ Fault(p) /\ Hurt(p) /\ UNCHANGED net
  /\ UNCHANGED <<lock, site, cont, files, crashes>>

DropFiles(p) == LET d == Dom(p) IN
  /\ At(p, "dropFiles") /\ Goto(p, "ok") /\ Keep(p)
  /\ files' = IF job[p].purge THEN files \ {<<job[p].owner, d>>} ELSE files
  /\ UNCHANGED <<lock, site, docker, faults, crashes>>

---------------------------------------------------------------------------------
(* StartSite, StopSite and RestartSite, which holds one lock across both. *)

Served(d) == [owner |-> site[d].owner, kind |-> site[d].kind, purge |-> FALSE,
              todo |-> IF site[d].kind = "compose" THEN Existing(d) \cap Of("compose")
                                                   ELSE Existing(d)]

BeginStart(p) == \E d \in Domains : Begin(p, "starting", d, Served(d), "starting")
BeginStop(p) == \E d \in Domains : Begin(p, "stopping", d, Served(d), "stopping")
BeginRestart(p) == \E d \in Domains : Begin(p, "restarting", d, Served(d), "stopping")

(* One container of the loop (or of docker compose start/stop); an error ends the operation. *)
Each(p, l, s) == \E u \in job[p].todo :
  /\ At(p, l)
  /\ \/ Works(p) /\ SetUnits(Dom(p), {u}, s) /\ Did(p, u) /\ UNCHANGED pc
     \/ Fault(p) /\ Hurt(p) /\ Goto(p, "failed") /\ UNCHANGED cont
  /\ UNCHANGED <<lock, site, net, files, crashes>>

StartOne(p) == Each(p, "starting", "running")
StopOne(p) == Each(p, "stopping", "stopped")

(* UpdateSiteStatus reports a missing record as an error. *)
Mark(p, l, status, next) ==
  /\ At(p, l) /\ job[p].todo = {} /\ SetStatus(Dom(p), status)
  /\ IF site[Dom(p)] = NoSite
     THEN Keep(p) /\ Goto(p, "failed")
     ELSE /\ Goto(p, next)
          /\ job' = [job EXCEPT ![p].todo = IF next = "starting" THEN Served(Dom(p)).todo ELSE {}]
  /\ UNCHANGED <<lock, docker, files, faults, crashes>>

MarkRunning(p) == Mark(p, "starting", "running", "ok")
MarkStopped(p) ==
  Mark(p, "stopping", "stopped", IF job[p].op = "restarting" THEN "starting" ELSE "ok")

---------------------------------------------------------------------------------
(* UpdateSite, Deploy and Rollback: containers move, the recorded status does not. *)

BeginUpdate(p) == \E d \in Domains :
  Begin(p, "updating", d, [Served(d) EXCEPT !.todo = Existing(d) \cap Of(site[d].kind)],
        IF site[d] = NoSite THEN "failed"
        ELSE IF site[d].kind = "compose" THEN "pull" ELSE "recreate")

(* One native container is stopped, removed, created and started; any call may be the last. *)
Recreate(p) == \E u \in job[p].todo : LET d == Dom(p) IN
  /\ At(p, "recreate")
  /\ \/ Works(p) /\ SetUnits(d, {u}, "running") /\ Did(p, u) /\ UNCHANGED pc
     \/ /\ Fault(p) /\ Hurt(p) /\ Goto(p, "failed")
        /\ \E s \in {cont[d][u], "stopped", "absent"} : SetUnits(d, {u}, s)
  /\ UNCHANGED <<lock, site, net, files, crashes>>

Recreated(p) ==
  /\ At(p, "recreate") /\ job[p].todo = {} /\ Goto(p, "ok") /\ Keep(p)
  /\ UNCHANGED <<lock, site, docker, files, faults, crashes>>

(* docker compose pull, then up -d. *)
ComposePull(p) == LET d == Dom(p) IN
  /\ At(p, "pull")
  /\ \/ Works(p) /\ SetUnits(d, Of("compose"), "running") /\ Keep(p) /\ Goto(p, "ok")
     \/ /\ Fault(p) /\ Hurt(p) /\ Goto(p, "failed")
        /\ \E S \in SUBSET Of("compose") : SetUnits(d, S, "running")
  /\ ProjectNet(d)
  /\ UNCHANGED <<lock, site, files, crashes>>

BeginDeploy(p) == \E d \in Domains, op \in {"deploying", "rolling back"} :
  Begin(p, op, d, [Served(d) EXCEPT !.todo = Existing(d)],
        IF site[d] = NoSite THEN "failed" ELSE "bounce")

(* Stop and start each container, ignoring errors. *)
BounceUnlocked(p) == \E u \in job[p].todo : LET d == Dom(p) IN
  /\ At(p, "bounce") /\ UNCHANGED pc
  /\ Works(p) /\ SetUnits(d, {u}, "running") /\ Did(p, u)
  /\ lock' = [lock EXCEPT ![d] = "free"]
  /\ UNCHANGED <<site, net, files, crashes>>
Bounce(p) == \E u \in job[p].todo : LET d == Dom(p) IN
  /\ At(p, "bounce") /\ UNCHANGED pc
  /\ \/ Works(p) /\ SetUnits(d, {u}, "running") /\ Did(p, u)
     \/ /\ Fault(p) /\ SetUnits(d, {u}, "stopped")
        /\ job' = [job EXCEPT ![p].todo = @ \ {u}, ![p].clean = @ /\ ~CtxLive(p)]
  /\ UNCHANGED <<lock, site, net, files, crashes>>

(* Nothing to deploy or to roll back to (before the bounce), or a hook fails (after it). *)
DeployEnds(p) ==
  /\ At(p, "bounce") /\ Keep(p)
  /\ \/ job[p].todo = {} /\ \E l \in {"ok", "failed"} : Goto(p, l)
     \/ job[p].todo = Existing(Dom(p)) /\ Goto(p, "failed")
  /\ UNCHANGED <<lock, site, docker, files, faults, crashes>>

---------------------------------------------------------------------------------
(* Other lock holders, clients and the daemon. *)

(* Backup, export, configuration, ...: they hold the lock and change nothing modelled here. *)
BeginQuiet(p) == \E d \in Domains, op \in Quiet : Begin(p, op, d, Served(d), "quiet")

EndQuiet(p) ==
  /\ At(p, "quiet") /\ Keep(p) /\ \E l \in {"ok", "failed"} : Goto(p, l)
  /\ UNCHANGED <<lock, site, docker, files, faults, crashes>>

InSection(p) == pc[p] # "idle"

(* The client of an operation disconnects: its request context is cancelled. *)
ClientGone(p) ==
  /\ InSection(p) /\ ~job[p].gone
  /\ job' = [job EXCEPT ![p].gone = TRUE]
  /\ UNCHANGED <<lock, site, docker, files, pc, faults, crashes>>

(* The daemon dies and comes back: locks and goroutines are gone, nothing else is. *)
Crash ==
  /\ crashes < MaxCrashes /\ crashes' = crashes + 1
  /\ lock' = [d \in Domains |-> "free"]
  /\ pc' = [p \in Procs |-> "idle"]
  /\ job' = [p \in Procs |-> NoJob]
  /\ UNCHANGED <<site, docker, files, faults>>

CreateStep(p) ==
  \/ RefuseCreate(p) \/ InsertRow(p) \/ Reinsert(p) \/ Prepare(p) \/ Network(p) \/ ServiceUp(p)
  \/ ServicesUp(p) \/ Setup(p) \/ ComposeUp(p) \/ ComposeRoute(p) \/ FinishCreate(p)
  \/ RollbackCompose(p) \/ RollbackContainers(p) \/ RollbackRows(p)
DestroyStep(p) ==
  Teardown(p) \/ TornDown(p) \/ ComposeTeardown(p) \/ DropRow(p) \/ DropNet(p) \/ DropFiles(p)
RunStep(p) ==
  \/ StartOne(p) \/ StopOne(p) \/ MarkRunning(p) \/ MarkStopped(p) \/ Recreate(p)
  \/ Recreated(p) \/ ComposePull(p) \/ Bounce(p) \/ DeployEnds(p) \/ EndQuiet(p)
Step(p) == CreateStep(p) \/ DestroyStep(p) \/ RunStep(p) \/ Release(p)
Request(p) ==
  \/ BeginCreate(p) \/ BeginDestroy(p) \/ BeginStart(p) \/ BeginStop(p) \/ BeginRestart(p)
  \/ BeginUpdate(p) \/ BeginDeploy(p) \/ BeginQuiet(p) \/ ClientGone(p)

Next == Crash \/ \E p \in Procs : Step(p) \/ Request(p)

Spec == Init /\ [][Next]_vars

(* Every call an operation makes is bounded by its context's deadline, and Go *)
(* schedules every runnable goroutine: a started operation keeps moving.      *)
FairSpec == Spec /\ \A p \in Procs : WF_vars(Step(p))

---------------------------------------------------------------------------------
(* What it is for. *)

(* The lock is held by exactly the operation that works on the domain, under its own *)
(* label, and no operation that ended leaves it behind (Acquire, deferred Release).  *)
MutualExclusion ==
  /\ \A p, q \in Procs : InSection(p) /\ InSection(q) /\ Dom(p) = Dom(q) => p = q
  /\ \A p \in Procs : InSection(p) => lock[Dom(p)] = job[p].op
  /\ \A d \in Domains : lock[d] # "free" => \E p \in Procs : InSection(p) /\ Dom(p) = d

(* The record of a site is deleted only by an operation of its owner that holds the  *)
(* site's lock, and the record of a site that went live only by a destroy: a create  *)
(* neither reclaims it nor rolls it back.                                            *)
DeletesOwnRecord == \A d \in Domains : site[d] # NoSite /\ site'[d] = NoSite =>
  \E p \in Procs :
    /\ InSection(p) /\ Dom(p) = d /\ job[p].owner = site[d].owner
    /\ site[d].status \in {"running", "stopped"} => job[p].op = "destroying"
RecordSafety == [][DeletesOwnRecord]_vars

(* While the daemon has not crashed, a record that says "creating" or "error" has a  *)
(* create at work on it: no failed create leaves a half-built record.                *)
HalfBuiltHasBuilder == crashes = 0 =>
  \A d \in Domains : site[d].status \in {"creating", "error"} =>
    \E p \in Procs : InSection(p) /\ Dom(p) = d /\ job[p].op = "provisioning"

(* A create that failed and could clean up after itself leaves no record, container, *)
(* site network or files, even on the debris of a create a crash interrupted.        *)
FailedCreateLeavesNothing == \A p \in Procs : LET d == Dom(p) IN
  At(p, "rolledBack") /\ job[p].clean =>
    /\ site[d] = NoSite /\ Existing(d) = {} /\ net[d]["native"] = "absent"
    /\ <<job[p].owner, d>> \notin files

(* What a caller may rely on (SiteContract): one operation per domain, that ends,    *)
(* and whose outcome depends only on the operation and on what it found. In          *)
(* particular a client that disconnects changes no outcome (detachCtx).              *)
Working(d) == {p \in Procs : InSection(p) /\ Dom(p) = d}
Contract == INSTANCE SiteContract WITH
  busy  <- lock,
  phase <- [d \in Domains |-> IF Working(d) = {} THEN Phase(d)
                              ELSE job[CHOOSE p \in Working(d) : TRUE].before],
  hurt  <- [d \in Domains |-> \E p \in Working(d) : ~job[p].clean],
  boots <- crashes
Implements == Contract!CSpec
=================================================================================

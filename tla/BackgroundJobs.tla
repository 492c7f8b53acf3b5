----------------------------- MODULE BackgroundJobs ------------------------------
(***************************************************************************)
(* What runs for a site without a request: the entries of the cron manager *)
(* and of the backup scheduler (one structure, modelled once), and the     *)
(* goroutines of the uptime checker. All are memory built from rows that   *)
(* are kept by domain: handlers change the rows without the site's lock    *)
(* and then the memory, creates and destroys of sites change the rows      *)
(* under it, and a start of the daemon builds the memory again.            *)
(***************************************************************************)
EXTENDS Naturals, FiniteSets

CONSTANTS Domains, Procs,
          Configs,    \* url, interval and webhook of an uptime check
          MaxSites,   \* bound on the sites created one after another on a domain
          Crons,      \* cron objects there may be at a time
          None

ASSUME CronsAssumption   == Cardinality(Crons) > 1
ASSUME SitesAssumption   == MaxSites \in Nat
ASSUME NoneAssumption    == None \notin Configs \cup Crons \cup Procs

VARIABLES
  lock,   \* the domains whose site lock is held
  site,   \* the sites table: which site of the domain there is, 0 if none
  made,   \* the sites created so far on the domain (history)
  jobs,   \* cron_jobs or backup_schedules: <<domain, the site it is meant for>>
  check,  \* uptime_checks (UNIQUE site_domain)
  crons,  \* the cron objects: whether they tick, and their entries
  cur,    \* the cron object the manager points to
  mu,     \* who holds the manager's mutex
  polls,  \* the checker's map: the configuration the goroutine of a domain works with
  pinging, \* the domains with a poll under way whose goroutine was stopped
  logs,   \* uptime_logs: the domains that have any
  pc, job,
  excuse  \* <<domain, why>> its polling or its logs may differ from its row (history)

rows   == <<site, made, jobs, check>>
cron   == <<crons, cur, mu>>
uptime == <<polls, pinging, logs>>
vars   == <<lock, rows, cron, uptime, pc, job, excuse>>

Gens   == 1..MaxSites
Row    == Domains \X Gens
Ticker == [on : BOOLEAN, entries : SUBSET Row]
Idle   == [op |-> "none", dom |-> None, gen |-> 0, conf |-> None]
Locked == {"create", "destroy"}
Labels == {"idle", "insert", "built", "undo", "undoRows", "undoSite", "stop", "drop", "dropSite",
           "dropRows", "add", "reload", "load", "enable", "begin", "forget", "prune", "halt"}

(* Besides the types: the manager points to a cron object that ticks, except while somebody *)
(* rebuilds it under the mutex; and locks are of operations under way.                      *)
TypeOK ==
  /\ lock = {job[p].dom : p \in {p \in Procs : job[p].op \in Locked}}
  /\ site \in [Domains -> 0..MaxSites] /\ made \in [Domains -> 0..MaxSites]
  /\ jobs \subseteq Row /\ check \in [Domains -> Configs \cup {None}]
  /\ crons \in [Crons -> Ticker] /\ cur \in Crons /\ mu \in Procs \cup {None}
  /\ mu = None => crons[cur].on
  /\ polls \in [Domains -> Configs \cup {None}] /\ pinging \cup logs \subseteq Domains
  /\ pc \in [Procs -> Labels] /\ \A p \in Procs : pc[p] = "idle" <=> job[p] = Idle
  /\ excuse \subseteq Domains \X {"overlap", "rollback", "late"}

First(S) == CHOOSE x \in S : TRUE \* which of them it is makes no difference
Fresh == [c \in Crons |-> [on |-> FALSE, entries |-> {}]]

Init ==
  /\ lock = {} /\ jobs = {} /\ excuse = {} /\ mu = None /\ pinging = {} /\ logs = {}
  /\ site = [d \in Domains |-> 0] /\ made = site /\ check = [d \in Domains |-> None]
  /\ cur = First(Crons) /\ crons = [Fresh EXCEPT ![cur].on = TRUE]
  /\ polls = check
  /\ pc = [p \in Procs |-> "idle"] /\ job = [p \in Procs |-> Idle]

---------------------------------------------------------------------------------
(* Helpers. *)

At(p, l)   == pc[p] = l
Goto(p, l) == pc' = [pc EXCEPT ![p] = l] /\ UNCHANGED <<lock, job>>
Dom(p)     == job[p].dom
JobsOf(d)  == {r \in jobs : r[1] = d}
Ticking    == {c \in Crons : crons[c].on}
Doing(d, ops) == \E p \in Procs : Dom(p) = d /\ job[p].op \in ops
Undoing    == {"undo", "undoRows", "undoSite"}
Clears     == {"disable", "destroy", "undo"}
Clearing(d) == Doing(d, Clears) \/ \E p \in Procs : Dom(p) = d /\ pc[p] \in Undoing
Alone(p)   == \A q \in Procs \ {p} : Dom(q) = Dom(p) => job[q].op \notin Clears \cup {"create", "enable"}

(* An enable overlaps what takes checks away. *)
Overlap(op, d) ==
  excuse' = IF (op = "enable" /\ Clearing(d)) \/ (op \in Clears /\ Doing(d, {"enable"}))
            THEN excuse \cup {<<d, "overlap">>} ELSE excuse

(* Goroutines are alike: an idle one serves the next request. *)
Begin(p, op, d, c, l) ==
  /\ At(p, "idle") /\ p = First({q \in Procs : At(q, "idle")}) /\ pc' = [pc EXCEPT ![p] = l] /\ Overlap(op, d)
  /\ job' = [job EXCEPT ![p] = [op |-> op, dom |-> d, gen |-> IF op = "add" THEN site[d] ELSE 0, conf |-> c]]
  /\ UNCHANGED <<rows, cron, uptime>>

(* A request ends with its last step; a create or a destroy releases its lock. *)
End(p) ==
  /\ pc' = [pc EXCEPT ![p] = "idle"] /\ job' = [job EXCEPT ![p] = Idle]
  /\ lock' = IF job[p].op \in Locked THEN lock \ {Dom(p)} ELSE lock

(* checkSiteAccess: the site there is now, whatever its status. *)
Access(d) == site[d] # 0

(* close(stop), and out of the map: the goroutine ends after the poll it is in. *)
StopCheck(d) ==
  /\ polls' = [polls EXCEPT ![d] = None] /\ UNCHANGED logs
  /\ pinging' \in {pinging} \cup (IF polls[d] = None THEN {} ELSE {pinging \cup {d}})

(* DeleteUptimeLogs. *)
Prune(d) == logs' = logs \ {d} /\ excuse' = excuse \ {<<d, "late">>} /\ UNCHANGED <<polls, pinging>>

(* Row and goroutine are both gone, and nothing else is at work on them. *)
Calm(p, gone) == excuse' =
  {x \in excuse : x[1] = Dom(p) /\ x[2] # "late" => ~(Alone(p) /\ gone)}

(* DeleteSiteChildData: the rows go, what was loaded from them does not. *)
DropRows(d) == jobs' = jobs \ JobsOf(d) /\ Prune(d)
DropCheck(d) == check' = [check EXCEPT ![d] = None]

---------------------------------------------------------------------------------
(* CreateSite and its rollback, which does not stop a check; DestroySite. *)

BeginCreate(p, d) ==
  /\ d \notin lock /\ site[d] = 0 /\ made[d] < MaxSites /\ lock' = lock \cup {d}
  /\ Begin(p, "create", d, None, "insert")

InsertSite(p) == LET d == Dom(p) IN
  /\ At(p, "insert") /\ Goto(p, "built")
  /\ made' = [made EXCEPT ![d] = @ + 1] /\ site' = [site EXCEPT ![d] = made'[d]]
  /\ UNCHANGED <<jobs, check, cron, uptime, excuse>>

Built(p) ==
  /\ At(p, "built") /\ UNCHANGED <<rows, cron, uptime>>
  /\ \/ End(p) /\ UNCHANGED excuse
     \/ Goto(p, "undo") /\ Overlap("undo", Dom(p))

UndoCheck(p) == LET d == Dom(p) IN
  /\ At(p, "undo") /\ Goto(p, "undoRows") /\ DropCheck(d)
  /\ excuse' = IF polls[d] = None THEN excuse ELSE excuse \cup {<<d, "rollback">>}
  /\ UNCHANGED <<site, made, jobs, cron, uptime>>

UndoRows(p) ==
  /\ At(p, "undoRows") /\ Goto(p, "undoSite") /\ DropRows(Dom(p))
  /\ UNCHANGED <<site, made, check, cron>>

UndoSite(p) ==
  /\ At(p, "undoSite") /\ End(p) /\ site' = [site EXCEPT ![Dom(p)] = 0]
  /\ UNCHANGED <<made, jobs, check, cron, uptime, excuse>>

BeginDestroy(p, d) ==
  /\ d \notin lock /\ Access(d) /\ lock' = lock \cup {d} /\ Begin(p, "destroy", d, None, "stop")

DestroyStopsNothing(p) ==
  /\ At(p, "stop") /\ Goto(p, "drop")
  /\ UNCHANGED <<rows, cron, uptime, excuse>>
DestroyStops(p) ==
  /\ At(p, "stop") /\ Goto(p, "drop") /\ StopCheck(Dom(p))
  /\ UNCHANGED <<rows, cron, excuse>>

DestroyCheck(p) == LET d == Dom(p) IN
  /\ At(p, "drop") /\ Goto(p, "dropSite") /\ DropCheck(d)
  /\ Calm(p, polls[d] = None)
  /\ UNCHANGED <<site, made, jobs, cron, uptime>>

DestroySite(p) ==
  /\ At(p, "dropSite") /\ Goto(p, "dropRows") /\ site' = [site EXCEPT ![Dom(p)] = 0]
  /\ UNCHANGED <<made, jobs, check, cron, uptime, excuse>>

DestroyRows(p) ==
  /\ At(p, "dropRows") /\ End(p) /\ DropRows(Dom(p))
  /\ UNCHANGED <<site, made, check, cron>>

---------------------------------------------------------------------------------
(* AddCronJob, RemoveCronJob; AddBackupSchedule, RemoveBackupSchedule. *)

BeginAdd(p, d) == Access(d) /\ Begin(p, "add", d, None, "add") /\ UNCHANGED lock

AddRowOnly(p) ==
  /\ At(p, "add") /\ job[p].op = "add" /\ End(p)
  /\ jobs' = jobs \cup {<<Dom(p), job[p].gen>>}
  /\ UNCHANGED <<site, made, check, cron, uptime, excuse>>
AddRow(p) ==
  /\ At(p, "add") /\ job[p].op = "add" /\ Goto(p, "reload")
  /\ jobs' = jobs \cup {<<Dom(p), job[p].gen>>}
  /\ UNCHANGED <<site, made, check, cron, uptime, excuse>>

BeginRemove(p, d) == Begin(p, "remove", d, None, "add") /\ UNCHANGED lock

RemoveRow(p) ==
  /\ At(p, "add") /\ job[p].op = "remove"
  /\ \/ \E r \in JobsOf(Dom(p)) : jobs' = jobs \ {r} /\ Goto(p, "reload")
     \/ JobsOf(Dom(p)) = {} /\ End(p) /\ UNCHANGED jobs
  /\ UNCHANGED <<site, made, check, cron, uptime, excuse>>

(* Reload, under the mutex: the object that runs is stopped. *)
StopCron == crons' = [crons EXCEPT ![cur] = [on |-> FALSE, entries |-> {}]]
ReloadUnguarded(p) ==
  /\ At(p, "reload") /\ Goto(p, "load") /\ StopCron
  /\ UNCHANGED <<rows, cur, mu, uptime, excuse>>
Reload(p) ==
  /\ At(p, "reload") /\ mu = None /\ mu' = p /\ Goto(p, "load") /\ StopCron
  /\ UNCHANGED <<rows, cur, uptime, excuse>>

(* A new object (one that was stopped is garbage) is filled from the rows and started. *)
NewCron(entries, on) ==
  /\ cur' = First({c \in Crons : ~crons[c].on})
  /\ crons' = [crons EXCEPT ![cur'] = [on |-> on, entries |-> entries]]
LoadOnly(p) ==
  /\ At(p, "load") /\ End(p) /\ mu' = None /\ NewCron(jobs, FALSE)
  /\ UNCHANGED <<rows, uptime, excuse>>
Load(p) ==
  /\ At(p, "load") /\ End(p) /\ mu' = None /\ NewCron(jobs, TRUE)
  /\ UNCHANGED <<rows, uptime, excuse>>

---------------------------------------------------------------------------------
(* EnableUptime and DisableUptime; the goroutine of a check. *)

BeginEnable(p, d, c) == Access(d) /\ Begin(p, "enable", d, c, "enable") /\ UNCHANGED lock

InsertCheck(p) == LET d == Dom(p) IN
  /\ At(p, "enable")
  /\ \/ check[d] = None /\ check' = [check EXCEPT ![d] = job[p].conf] /\ Goto(p, "begin")
     \/ check[d] # None /\ End(p) /\ UNCHANGED check
  /\ UNCHANGED <<site, made, jobs, cron, uptime, excuse>>

(* startCheck: a goroutine of the domain that is there is kept, with its configuration. *)
StartCheck(p) == LET d == Dom(p) IN
  /\ At(p, "begin") /\ End(p)
  /\ polls' = [polls EXCEPT ![d] = IF @ = None THEN job[p].conf ELSE @]
  /\ UNCHANGED <<rows, cron, pinging, logs, excuse>>

(* LogUptimeResult, of a goroutine that is in the map or was until its poll began. (Its     *)
(* alerts to the webhook are not in the model.)                                             *)
Log(d) ==
  /\ logs' = logs \cup {d}
  /\ excuse' = IF check[d] = None THEN excuse \cup {<<d, "late">>} ELSE excuse
  /\ UNCHANGED <<lock, rows, cron, polls, pc, job>>
Poll(d)     == polls[d] # None /\ Log(d) /\ UNCHANGED pinging
LatePoll(d) == d \in pinging /\ Log(d) /\ pinging' = pinging \ {d}

(* An administrator is let through whether there is a site or not. *)
BeginDisable(p, d) == Begin(p, "disable", d, None, "forget") /\ UNCHANGED lock

DisableCheck(p) ==
  /\ At(p, "forget") /\ Goto(p, "prune") /\ DropCheck(Dom(p))
  /\ UNCHANGED <<site, made, jobs, cron, uptime, excuse>>

DisablePrunes(p) ==
  /\ At(p, "prune") /\ Goto(p, "halt") /\ Prune(Dom(p))
  /\ UNCHANGED <<rows, cron>>

DisableStops(p) == LET d == Dom(p) IN
  /\ At(p, "halt") /\ End(p) /\ StopCheck(d)
  /\ Calm(p, check[d] = None)
  /\ UNCHANGED <<rows, cron>>

---------------------------------------------------------------------------------
(* The daemon dies and starts again: New loads the jobs and starts the checks there are. *)

Restart ==
  /\ lock' = {} /\ mu' = None /\ pinging' = {}
  /\ pc' = [p \in Procs |-> "idle"] /\ job' = [p \in Procs |-> Idle]
  /\ crons' = [Fresh EXCEPT ![cur] = [on |-> TRUE, entries |-> jobs]]
  /\ polls' = check /\ excuse' = {d \in logs : check[d] = None} \X {"late"}
  /\ UNCHANGED <<rows, cur, logs>>

---------------------------------------------------------------------------------

SiteStep(p) == InsertSite(p) \/ Built(p) \/ UndoCheck(p) \/ UndoRows(p) \/ UndoSite(p)
               \/ DestroyStops(p) \/ DestroyCheck(p) \/ DestroySite(p) \/ DestroyRows(p)
RowStep(p) == AddRow(p) \/ RemoveRow(p) \/ InsertCheck(p) \/ StartCheck(p) \/ DisableCheck(p)
              \/ DisablePrunes(p) \/ DisableStops(p)
Step(p) == SiteStep(p) \/ RowStep(p) \/ Reload(p) \/ Load(p)

Next ==
  \/ \E p \in Procs :
       \/ \E d \in Domains :
            \/ BeginCreate(p, d) \/ BeginDestroy(p, d) \/ BeginAdd(p, d) \/ BeginRemove(p, d)
            \/ BeginDisable(p, d) \/ \E c \in Configs : BeginEnable(p, d, c)
       \/ Step(p)
  \/ \E d \in Domains : Poll(d) \/ LatePoll(d)
  \/ Restart

Spec == Init /\ [][Next]_vars

(* A request goroutine runs on, and a mutex of Go starves nobody who waits for it.        *)
Fairness == \A p \in Procs : WF_vars(Step(p)) /\ SF_vars(Reload(p))
FairSpec == Spec /\ Fairness

---------------------------------------------------------------------------------
(* Properties. *)

(* The site of the row is gone, or about to come or go.                                   *)
Left(r) == site[r[1]] # r[2] \/ Doing(r[1], Locked)

(* Between requests exactly one cron object ticks, and it has an entry for every recorded *)
(* job and for no other, but those of rows a destroy or a rollback deleted since: two     *)
(* reloads at a time leave neither a second object ticking nor an entry behind.           *)
LoadedAreTheRows ==
  (\A p \in Procs : job[p].op \notin {"add", "remove"}) =>
    /\ Ticking = {cur}
    /\ jobs \subseteq crons[cur].entries /\ \A r \in crons[cur].entries \ jobs : Left(r)

Settled(d) == ~Doing(d, Clears \cup {"create", "enable"})

(* Where no enable, disable, create or destroy is under way, a domain is polled exactly   *)
(* when a check is recorded, and with the recorded configuration, after a restart in the  *)
(* middle of any of them too. Not so when an enable overlapped a disable or a destroy, or *)
(* was made on a site whose create then failed. And polls have left logs only where a     *)
(* check is recorded: the next site of the domain inherits none. Not so when a poll ended *)
(* after its row was gone, or a restart came before the logs were pruned.                 *)
PollsFollowChecks == \A d \in Domains : Settled(d) =>
  /\ (\A w \in {"overlap", "rollback"} : <<d, w>> \notin excuse) => polls[d] = check[d]
  /\ d \in logs /\ check[d] = None => <<d, "late">> \in excuse

(* childTablesByDomain: rows are deleted so that a future site of the domain inherits     *)
(* none ("stale cron commands re-run"). No entry fires on another site than the one it    *)
(* was added for. It does not hold, with one request at a time: a destroy deletes the     *)
(* rows and leaves the cron object that runs as it is.                                    *)
FiresForItsSite ==
  \A c \in Ticking : \A r \in crons[c].entries : site[r[1]] \in {0, r[2]}

(* A recorded job comes to run, unless it is removed: the reload that follows its insert, *)
(* or a later one, or a restart, loads it.                                                *)
RecordedJobsRun ==
  \A r \in Row : r \in jobs ~> (r \notin jobs \/ \E c \in Ticking : r \in crons[c].entries)

=================================================================================

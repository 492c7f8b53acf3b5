------------------------------ MODULE DomainClaims -------------------------------
(***************************************************************************)
(* Who a host name belongs to: the primary domains of the sites table, the *)
(* rows of the domains table, and the alias routers Traefik reads; and who *)
(* an id belongs to: the compose project and the generated driver that are *)
(* named by it. Each request holds the lock of its own site only, and none *)
(* while a driver is saved, so checks, files and inserts of two sites      *)
(* interleave. SiteLifecycle has what a create or a destroy does besides,  *)
(* and what a create makes of a record a crash left behind.                *)
(***************************************************************************)
EXTENDS Naturals, FiniteSets

CONSTANTS Hosts,  \* host names: a site's domain and an alias alike
          Wanted, \* the hosts that AddDomain and RemoveDomain are asked for
          Stacks, \* the hosts that compose sites are asked for
          Free,   \* the owner of a host no row claims
          Procs,  \* request goroutines
          Ident,  \* the id a domain's project, network, routers and driver are named by
          Files,  \* compose files that sites are asked for with
          None

ASSUME WantedAssumption == Wanted \subseteq Hosts /\ Stacks \subseteq Hosts
ASSUME FreeAssumption  == Free \notin Hosts
ASSUME IdentAssumption == DOMAIN Ident = Hosts
ASSUME NoneAssumption  ==
  None \notin Files \cup {Ident[h] : h \in Stacks} \cup [site : Hosts, file : Files]

VARIABLES
  lock,   \* the domains whose lock is held
  sites,  \* the sites table by primary domain: its compose driver (None: a native one), the
          \* status, and the file it was asked for with (history; None: that is open)
  claim,  \* the domains table: the site each host's row belongs to (UNIQUE host)
  file,   \* the aliases in a site's aliases-<domain>.toml; {} is no file
  driver, \* the generated drivers: the compose file in <id>.yaml
  project, \* the compose projects: whose containers or volumes there are by the id, from which file
  pc, job,
  stale,  \* sites whose file a failed write or a compose destroy left as it was (history)
  raced,  \* the hosts of operations that overlapped in time (history)
  mixed   \* ids whose sites raced, or lost the driver they were built with (history)

tables == <<sites, claim>>
stack  == <<driver, project, mixed>>
vars   == <<lock, sites, claim, file, stack, pc, job, stale, raced>>

Ids    == {Ident[h] : h \in Stacks}
NoSite == [driver |-> None, status |-> "absent", file |-> None]
Row    == [driver : Ids \cup {None}, status : {"creating", "running"}, file : Files \cup {None}]
Idle   == [op |-> "none", site |-> Free, host |-> Free, driver |-> None, asked |-> None, file |-> None]
Job    == [op : {"create", "destroy", "add", "remove"}, site : Hosts, host : Hosts,
           driver : Ids \cup {None}, asked : Files \cup {None}, file : Files \cup {None}]
Labels == {"idle", "acquire", "checkAlias", "checkIds", "insert", "provision", "register", "rollback",
           "addCheck", "addRow", "addRoute", "addUndo", "removeRow", "removeRoute",
           "dropSite", "dropFile", "done"}

(* Rows of the domains table go with their site (ON DELETE CASCADE). *)
TypeOK ==
  /\ lock  \subseteq Hosts
  /\ sites \in [Hosts -> Row \cup {NoSite}]
  /\ claim \in [Hosts -> Hosts \cup {Free}]
  /\ \A h \in Hosts : claim[h] # Free => sites[claim[h]] # NoSite
  /\ file  \in [Hosts -> SUBSET Hosts]
  /\ pc    \in [Procs -> Labels]
  /\ job   \in [Procs -> Job \cup {Idle}]
  /\ driver \in [Ids -> Files \cup {None}]
  /\ project \in [Ids -> [site : Hosts, file : Files] \cup {None}]
  /\ stale \subseteq Hosts /\ raced \subseteq SUBSET Hosts /\ mixed \subseteq Ids

Init ==
  /\ lock = {} /\ stale = {} /\ raced = {} /\ mixed = {}
  /\ driver = [i \in Ids |-> None] /\ project = driver
  /\ sites = [h \in Hosts |-> NoSite]
  /\ claim = [h \in Hosts |-> Free]
  /\ file  = [h \in Hosts |-> {}]
  /\ pc    = [p \in Procs |-> "idle"]
  /\ job   = [p \in Procs |-> Idle]

---------------------------------------------------------------------------------
(* Helpers. *)

At(p, l) == pc[p] = l
Goto(p, l) == pc' = [pc EXCEPT ![p] = l]
Site(p) == job[p].site
Host(p) == job[p].host
Rows(s) == {h \in Hosts : claim[h] = s}
Aliases(s) == Rows(s) \ {s}
Creating(s) == \E p \in Procs : job[p].op = "create" /\ Site(p) = s /\ pc[p] # "acquire"
Adding(h) == \E p \in Procs : job[p].op = "add" /\ Host(p) = h

DeleteSiteOnly(s) == sites' = [sites EXCEPT ![s] = NoSite] /\ UNCHANGED claim
(* DELETE FROM sites, and the rows that refer to it. *)
DeleteSite(s) ==
  /\ sites' = [sites EXCEPT ![s] = NoSite]
  /\ claim' = [h \in Hosts |-> IF claim[h] = s THEN Free ELSE claim[h]]

(* DestroyComposeSite: `docker compose down -v`, whose errors are ignored. *)
Down(i) == \/ project' = [project EXCEPT ![i] = None] /\ UNCHANGED mixed
           \/ project[i] # None /\ mixed' = mixed \cup {i} /\ UNCHANGED project
Built(s) == sites[s].driver # None /\ driver[sites[s].driver] # None \* its compose driver is there

(* applyAliasRouting: the file lists the aliases recorded now, or goes away. *)
Route(s) == file' = [file EXCEPT ![s] = Aliases(s)] /\ stale' = stale \ {s}

Begin(p, op, s, h, l) ==
  /\ At(p, "idle") /\ s \notin lock /\ lock' = lock \cup {s}
  /\ job' = [job EXCEPT ![p] = [Idle EXCEPT !.op = op, !.site = s, !.host = h]]
  /\ Goto(p, l)
  /\ UNCHANGED <<tables, file, stale, stack>>

(* What a create has no more use for. *)
Forget(p) == job' = [job EXCEPT ![p].driver = None, ![p].asked = None, ![p].file = None]

(* An overlap is forgotten with its site, or when the site got the row of its own domain. *)
End(p) == LET s == Site(p) IN
  /\ At(p, "done") /\ lock' = lock \ {s}
  /\ job' = [job EXCEPT ![p] = Idle] /\ Goto(p, "idle")
  /\ raced' = {r \in raced : s \in r => sites[s] # NoSite /\ (r = {s} => claim[s] # s)}
  /\ mixed' = {i \in mixed : project[i] # None \/ \E t \in Hosts : Ident[t] = i /\ (sites[t] # NoSite
                                          \/ \E q \in Procs \ {p} : job[q].op = "create" /\ Site(q) = t)}
  /\ UNCHANGED <<tables, file, stale, driver, project>>

---------------------------------------------------------------------------------
(* DriverLoader: Save, Delete. CreateSiteFromCompose saves before it has the lock.         *)

(* A request that has yet to load the driver may get another file than it asked for.       *)
Save(i, f, js) ==
  /\ driver' = [driver EXCEPT ![i] = f]
  /\ job' = [p \in Procs |-> [js[p] EXCEPT !.asked = IF pc[p] = "acquire" /\ js[p].driver = i THEN None ELSE @]]

SaveDriver(i, f) == Save(i, f, job) /\ UNCHANGED <<lock, tables, file, project, mixed, pc, stale, raced>>

DeleteDriver(i) ==
  /\ driver[i] # None /\ driver' = [driver EXCEPT ![i] = None]
  /\ mixed' = mixed \cup {Ident[s] : s \in {s \in Hosts : sites[s].driver = i}}
                   \cup {Ident[Site(p)] : p \in {p \in Procs : job[p].driver = i}}
  /\ UNCHANGED <<lock, tables, file, project, pc, job, stale, raced>>

BeginComposeOnce(p, s, f) ==
  /\ At(p, "idle") /\ Goto(p, "acquire") /\ UNCHANGED <<lock, tables, file, project, mixed, stale, raced>>
  /\ Save(Ident[s], IF driver[Ident[s]] = None THEN f ELSE driver[Ident[s]],
          [job EXCEPT ![p] = [Idle EXCEPT !.op = "create", !.site = s, !.host = s,
                                          !.driver = Ident[s], !.asked = f]])
BeginCompose(p, s, f) ==
  /\ At(p, "idle") /\ Goto(p, "acquire") /\ UNCHANGED <<lock, tables, file, project, mixed, stale, raced>>
  /\ Save(Ident[s], f, [job EXCEPT ![p] = [Idle EXCEPT !.op = "create", !.site = s, !.host = s,
                                                      !.driver = Ident[s], !.asked = f]])

---------------------------------------------------------------------------------
(* CreateSite. *)

Race(s) ==
  raced' = raced \cup {{s, t} : t \in {t \in Hosts \ {s} : Creating(t) /\ Ident[t] = Ident[s]}}
                 \cup (IF Adding(s) THEN {{s}} ELSE {})

(* The lock, and the driver. *)
Acquire(p) == LET s == Site(p)  loaded == driver[job[p].driver] IN
  /\ At(p, "acquire") /\ UNCHANGED <<tables, file, stack, stale>>
  /\ \/ /\ s \in lock /\ Goto(p, "idle") /\ job' = [job EXCEPT ![p] = Idle]
        /\ UNCHANGED <<lock, raced>>
     \/ /\ s \notin lock /\ lock' = lock \cup {s} /\ Race(s)
        /\ \/ loaded = None /\ Goto(p, "done") /\ Forget(p)
           \/ loaded # None /\ Goto(p, "checkAlias") /\ job' = [job EXCEPT ![p].file = loaded]

(* A site by the name of a driver: a native one, or one generated for this or another site. *)
BeginCreate(p, s, d) ==
  /\ At(p, "idle") /\ s \notin lock /\ lock' = lock \cup {s} /\ Race(s)
  /\ d # None => driver[d] # None
  /\ LET loaded == IF d = None THEN None ELSE driver[d]
     IN  job' = [job EXCEPT ![p] = [op |-> "create", site |-> s, host |-> s, driver |-> d,
                                    asked |-> loaded, file |-> loaded]]
  /\ Goto(p, "checkAlias") /\ UNCHANGED <<tables, file, stale, stack>>

CheckAliasSkipped(p) ==
  /\ At(p, "checkAlias") /\ Goto(p, "checkIds")
  /\ UNCHANGED <<lock, tables, file, job, stack, stale, raced>>
(* GetSiteByDomain: the domain is an alias of another site. *)
CheckAlias(p) ==
  /\ At(p, "checkAlias")
  /\ IF claim[Site(p)] \in {Free, Site(p)} THEN Goto(p, "checkIds") /\ UNCHANGED job
                                            ELSE Goto(p, "done") /\ Forget(p)
  /\ UNCHANGED <<lock, tables, file, stack, stale, raced>>

Sharing(s) == \E t \in Hosts \ {s} : sites[t] # NoSite /\ Ident[t] = Ident[s]

(* ListSites: another site's domain maps to the same id. *)
CheckIds(p) ==
  /\ At(p, "checkIds") /\ UNCHANGED <<lock, tables, file, stack, stale, raced>>
  /\ IF Sharing(Site(p)) THEN Goto(p, "done") /\ Forget(p) ELSE Goto(p, "insert") /\ UNCHANGED job

(* The domain has a site already, or the record of the new one is inserted. *)
Insert(p) == LET s == Site(p) IN
  /\ At(p, "insert") /\ UNCHANGED <<lock, claim, file, driver, project, stale, raced>>
  /\ \/ sites[s] # NoSite /\ Goto(p, "done") /\ Forget(p) /\ UNCHANGED <<sites, mixed>>
     \/ /\ sites[s] = NoSite /\ Goto(p, "provision")
        /\ job' = [job EXCEPT ![p].driver = None, ![p].asked = None]
        /\ sites' = [sites EXCEPT ![s] = [driver |-> job[p].driver, status |-> "creating", file |-> job[p].asked]]
        /\ mixed' = IF Sharing(s) THEN mixed \cup ({Ident[s]} \cap Ids) ELSE mixed

(* Minutes of work, after which the site is live or is rolled back; a compose project may  *)
(* be up or not when it fails.                                                             *)
Provision(p) == LET s == Site(p)  up == [project EXCEPT ![Ident[s]] = [site |-> s, file |-> job[p].file]] IN
  /\ At(p, "provision") /\ Forget(p) /\ UNCHANGED <<lock, claim, file, driver, mixed, stale, raced>>
  /\ \/ sites' = [sites EXCEPT ![s].status = "running"] /\ Goto(p, "register")
        /\ project' = IF sites[s].driver = None THEN project ELSE up
     \/ Goto(p, "rollback") /\ UNCHANGED <<sites, project>>
     \/ sites[s].driver # None /\ Goto(p, "rollback") /\ project' = up /\ UNCHANGED sites

(* The primary domain's own row comes last; an error (the host is taken) is ignored. *)
Register(p) == LET s == Site(p) IN
  /\ At(p, "register") /\ Goto(p, "done")
  /\ claim' = IF claim[s] = Free THEN [claim EXCEPT ![s] = s] ELSE claim
  /\ UNCHANGED <<lock, sites, file, job, stack, stale, raced>>

(* A compose project is taken down if the driver still says that there is one. *)
Rollback(p) ==
  /\ At(p, "rollback") /\ Goto(p, "done") /\ DeleteSite(Site(p))
  /\ IF Built(Site(p)) THEN Down(Ident[Site(p)]) ELSE UNCHANGED <<project, mixed>>
  /\ UNCHANGED <<lock, file, driver, job, stale, raced>>

---------------------------------------------------------------------------------
(* DestroySite. *)

BeginDestroy(p, s) == Begin(p, "destroy", s, s, "dropSite") /\ UNCHANGED raced

(* A native destroy, or one of a compose site whose driver is gone, may stop at a container *)
(* it cannot remove. A compose destroy returns from its own branch, which leaves the alias  *)
(* router's file where it is.                                                               *)
DropSite(p) == LET s == Site(p) IN
  /\ At(p, "dropSite") /\ UNCHANGED <<lock, file, driver, job, raced>>
  /\ \/ ~Built(s) /\ Goto(p, "done") /\ UNCHANGED <<tables, project, mixed, stale>>
     \/ ~Built(s) /\ Goto(p, "dropFile") /\ DeleteSite(s) /\ UNCHANGED <<project, mixed, stale>>
     \/ /\ Built(s) /\ Goto(p, "done") /\ DeleteSite(s) /\ Down(Ident[s])
        /\ stale' = IF file[s] = {} THEN stale ELSE stale \cup {s}

DropFile(p) == LET s == Site(p) IN
  /\ At(p, "dropFile") /\ Goto(p, "done")
  /\ file' = [file EXCEPT ![s] = {}] /\ stale' = stale \ {s}
  /\ UNCHANGED <<lock, tables, job, stack, raced>>

---------------------------------------------------------------------------------
(* AddDomain. *)

BeginAdd(p, s, h) ==
  /\ Begin(p, "add", s, h, "addCheck")
  /\ raced' = raced \cup (IF Creating(h) THEN {{h}} ELSE {})

(* No such site, or the host has a row. *)
AddCheck(p) ==
  /\ At(p, "addCheck")
  /\ Goto(p, IF sites[Site(p)] = NoSite \/ claim[Host(p)] # Free THEN "done" ELSE "addRow")
  /\ UNCHANGED <<lock, tables, file, job, stack, stale, raced>>

(* The insert, which the UNIQUE host may still refuse. *)
AddRow(p) == LET h == Host(p) IN
  /\ At(p, "addRow")
  /\ \/ claim[h] # Free /\ Goto(p, "done") /\ UNCHANGED claim
     \/ claim[h] = Free /\ Goto(p, "addRoute") /\ claim' = [claim EXCEPT ![h] = Site(p)]
  /\ UNCHANGED <<lock, sites, file, job, stack, stale, raced>>

AddRouteKeeps(p) ==
  /\ At(p, "addRoute") /\ Goto(p, "done")
  /\ Route(Site(p)) \/ UNCHANGED <<file, stale>>
  /\ UNCHANGED <<lock, tables, job, stack, raced>>
(* The router's file is rewritten; if that fails the row is taken back. *)
AddRoute(p) ==
  /\ At(p, "addRoute")
  /\ \/ Route(Site(p)) /\ Goto(p, "done")
     \/ Goto(p, "addUndo") /\ UNCHANGED <<file, stale>>
  /\ UNCHANGED <<lock, tables, job, stack, raced>>

AddUndo(p) ==
  /\ At(p, "addUndo") /\ Goto(p, "done")
  /\ claim' = [claim EXCEPT ![Host(p)] = Free]
  /\ UNCHANGED <<lock, sites, file, job, stack, stale, raced>>

---------------------------------------------------------------------------------
(* RemoveDomain. *)

BeginRemove(p, s, h) == Begin(p, "remove", s, h, "removeRow") /\ UNCHANGED raced

(* Not the primary domain, and only a row of this site. *)
RemoveRow(p) == LET h == Host(p) IN
  /\ At(p, "removeRow")
  /\ IF h # Site(p) /\ claim[h] = Site(p)
     THEN claim' = [claim EXCEPT ![h] = Free] /\ Goto(p, "removeRoute")
     ELSE UNCHANGED claim /\ Goto(p, "done")
  /\ UNCHANGED <<lock, sites, file, job, stack, stale, raced>>

(* The row is gone; a router that cannot be rewritten serves the host still. *)
RemoveRoute(p) ==
  /\ At(p, "removeRoute") /\ Goto(p, "done")
  /\ Route(Site(p)) \/ (stale' = stale \cup {Site(p)} /\ UNCHANGED file)
  /\ UNCHANGED <<lock, tables, job, stack, raced>>

---------------------------------------------------------------------------------

Step(p) ==
  \/ Acquire(p) \/ CheckAlias(p) \/ CheckIds(p) \/ Insert(p) \/ Provision(p) \/ Register(p) \/ Rollback(p)
  \/ DropSite(p) \/ DropFile(p) \/ AddCheck(p) \/ AddRow(p) \/ AddRoute(p) \/ AddUndo(p)
  \/ RemoveRow(p) \/ RemoveRoute(p) \/ End(p)
Request(p) == \E s \in Hosts :
  \/ BeginCreate(p, s, None)
  \/ s \in Stacks /\ \E d \in Ids : BeginCreate(p, s, d)
  \/ s \in Stacks /\ \E f \in Files : BeginCompose(p, s, f)
  \/ BeginDestroy(p, s)
  \/ \E h \in Wanted : BeginAdd(p, s, h) \/ BeginRemove(p, s, h)

Next == \/ \E p \in Procs : Step(p) \/ Request(p)
        \/ \E i \in Ids : DeleteDriver(i) \/ \E f \in Files : SaveDriver(i, f)

Spec == Init /\ [][Next]_vars

---------------------------------------------------------------------------------
(* What it is for. *)

(* Once no operation works on a site, its router serves exactly the aliases recorded  *)
(* for it. A failed AddDomain takes its row back; the two ways a file is left stale   *)
(* are a RemoveDomain whose write failed and the destroy of a compose site.           *)
RoutedAsRecorded == \A s \in Hosts \ (lock \cup stale) : file[s] = Aliases(s)

(* A live site's domain is the alias of another site only if the site was created     *)
(* while AddDomain was adding that host.                                              *)
AliasesApart == \A s \in Hosts :
  sites[s].status = "running" /\ claim[s] \notin {Free, s} => {s} \in raced
(* Two sites have one id, and so one compose project, network and router name, only   *)
(* if they were created at the same time.                                             *)
IdsApart == \A s, t \in Hosts :
  s # t /\ Ident[s] = Ident[t] /\ sites[s] # NoSite /\ sites[t] # NoSite => {s, t} \in raced
(* No two sites claim a host or an id unless they raced for it: the checks of         *)
(* CreateSite and AddDomain hold against everything that finished before.             *)
ClaimsExclusive == AliasesApart /\ IdsApart

(* Where no request works on the sites of an id, its compose project is up exactly when    *)
(* there is a compose site, of that site, and from the file its own request asked for:     *)
(* a refused, failed or destroyed one leaves none behind, and one that fails and is made   *)
(* again is not built from the old file. Not so when two sites of the id raced, the driver *)
(* was deleted under one, a `compose down` failed, or the driver was saved by others       *)
(* between the request's own save and its load.                                            *)
ProjectsAsAsked == \A i \in Ids \ mixed :
  LET compose == {s \in Hosts : Ident[s] = i /\ sites[s].driver # None}
  IN  (\A s \in lock : Ident[s] # i) =>
        /\ project[i] = None <=> compose = {}
        /\ \A s \in compose : project[i].site = s /\ sites[s].file \in {None, project[i].file}
=================================================================================

------------------------------ MODULE ServingProofs -------------------------------
(**************************************************************************)
(* Proofs about what serves a site: the hostnames that reach it and the   *)
(* replicas that work for it.                                             *)
(*                                                                        *)
(* DomainClaims, for any hosts, ids, files and requests: the type         *)
(* invariant, RoutedAsRecorded, ClaimsExclusive and ProjectsAsAsked. A    *)
(* request works on the site whose lock it has, so what is said of a      *)
(* site survives the steps of all other requests; the claims on hosts     *)
(* and ids, which no lock guards, survive because each overlap in time    *)
(* of two requests for one of them is on record.                          *)
(*                                                                        *)
(* ProcessScaling, for every number of replicas and every number of       *)
(* failed calls and crashes: the type invariant, ExactWhenSmooth,         *)
(* RecordFollowsReplicas and ScaleKeepsTemplate. The invariant follows a  *)
(* scale along its program: what runs below the cursor on the way up,     *)
(* and what is left above it on the way down.                             *)
(**************************************************************************)
EXTENDS DomainClaims, ProcessScaling, TLAPS

---------------------------------------------------------------------------------
(* The invariant. *)

Creates == {"checkAlias", "checkIds", "insert", "provision", "register", "rollback"}
Adds    == {"addCheck", "addRow", "addRoute", "addUndo"}
Drops   == {"dropSite", "dropFile"}
Removes == {"removeRow", "removeRoute"}
Holds(p) == pc[p] \notin {"idle", "acquire"}

(* A label goes with an operation, a site and a host. *)
Fits(l, j) ==
  /\ l \in {"acquire"} \cup Creates => j.op = "create"
  /\ l \in Adds => j.op = "add"
  /\ l \in Drops => j.op = "destroy"
  /\ l \in Removes => j.op = "remove"
  /\ j.op = "create" => j.host = j.site
  /\ j.driver # None => j.site \in Stacks
OpInv(p) ==
  /\ pc[p] = "idle" <=> job[p] = Idle
  /\ pc[p] # "idle" => job[p] \in Job /\ Fits(pc[p], job[p])

(* A request that is past its start holds the lock of its site, alone. *)
ProcInv ==
  /\ pc \in [Procs -> Labels] /\ job \in [Procs -> Job \cup {Idle}]
  /\ \A p \in Procs : OpInv(p)
  /\ lock = {Site(p) : p \in {p \in Procs : Holds(p)}}
  /\ \A p, q \in Procs : Holds(p) /\ Holds(q) /\ Site(p) = Site(q) => p = q

DataInv ==
  /\ sites \in [Hosts -> Row \cup {NoSite}]
  /\ claim \in [Hosts -> Hosts \cup {Free}]
  /\ file  \in [Hosts -> SUBSET Hosts]
  /\ driver \in [Ids -> Files \cup {None}]
  /\ project \in [Ids -> [site : Hosts, file : Files] \cup {None}]
  /\ stale \subseteq Hosts /\ raced \subseteq SUBSET Hosts /\ mixed \subseteq Ids
  /\ \A s \in Hosts : sites[s].driver # None => s \in Stacks

(* What a request knows of its site: of whether it is there, and of the rows it has. *)
SiteInv(p) == LET s == Site(p) IN
  /\ pc[p] \in {"provision", "register", "rollback", "addRow", "addRoute", "addUndo"} => sites[s] # NoSite
  /\ pc[p] \in {"provision", "rollback"} => sites[s].status = "creating"
  /\ pc[p] = "dropFile" => sites[s] = NoSite
  /\ pc[p] \in {"provision", "register", "rollback"} => \A h \in Hosts : claim[h] # s
  /\ pc[p] \in {"addRoute", "addUndo"} => claim[Host(p)] = s

(* A row is of a site that is there; a site is live, or its create is under way. *)
RowInv(s) ==
  /\ sites[s] = NoSite => \A h \in Hosts : claim[h] # s
  /\ sites[s].status = "creating" => \E p \in Procs : Site(p) = s /\ pc[p] \in {"provision", "rollback"}

(* The router's file lists the aliases recorded, but for the one that is being added, or *)
(* is about to be written again.                                                         *)
Fresh(s) == {Host(p) : p \in {p \in Procs : Site(p) = s /\ pc[p] \in {"addRoute", "addUndo"}}}
Rewriting(s) == \E p \in Procs : Site(p) = s /\ pc[p] \in {"removeRoute", "dropFile"}
RouteInv(s) == s \in stale \/ Rewriting(s) \/ file[s] = Aliases(s) \ Fresh(s)

(* A create that is past its check, and a live site, have the claim on their host, or the *)
(* race for it is on record.                                                              *)
Made(p) == job[p].op = "create" /\ pc[p] # "acquire"
AliasInv ==
  /\ \A p, q \in Procs : Made(p) /\ job[q].op = "add" /\ Host(q) = Site(p) => {Site(p)} \in raced
  /\ \A p \in Procs : pc[p] \in {"checkIds", "insert", "provision", "register"} =>
       claim[Site(p)] = Free \/ claim[Site(p)] = Site(p) \/ {Site(p)} \in raced
  /\ \A p \in Procs : pc[p] \in {"addRoute", "addUndo"} /\ Host(p) = Site(p) => {Site(p)} \in raced
  /\ \A s \in Hosts : sites[s].status = "running" /\ claim[s] # s =>
       {s} \in raced \/ \E p \in Procs : Site(p) = s /\ pc[p] = "register"

(* So have they the claim on their id. *)
Twins(s, t) == s # t /\ Ident[s] = Ident[t]
IdInv ==
  /\ \A p, q \in Procs : Made(p) /\ Made(q) /\ Twins(Site(p), Site(q)) => {Site(p), Site(q)} \in raced
  /\ \A p \in Procs, t \in Hosts :
       pc[p] = "insert" /\ Twins(Site(p), t) /\ sites[t] # NoSite => {Site(p), t} \in raced
  /\ \A s, t \in Hosts : Twins(s, t) /\ sites[s] # NoSite /\ sites[t] # NoSite => {s, t} \in raced

(* The driver a request asked for, and the one it works with. *)
AskInv(p) == LET j == job[p] IN
  /\ pc[p] = "acquire" => j.driver \in Ids /\ (driver[j.driver] = None \/ j.asked = None \/ j.asked = driver[j.driver])
  /\ pc[p] \in {"checkAlias", "checkIds", "insert"} =>
       /\ j.driver # None => j.file # None /\ (driver[j.driver] # None \/ Ident[Site(p)] \in mixed)
       /\ j.asked = None \/ j.asked = j.file
  /\ pc[p] = "provision" =>
       /\ sites[Site(p)].driver # None => j.file # None
       /\ sites[Site(p)].file = None \/ sites[Site(p)].file = j.file

(* The compose project of an id whose sites did not get mixed up. *)
SiteOf(i, s) == Ident[s] = i /\ sites[s] # NoSite
ProjectInv(i) == i \notin mixed =>
  /\ \A s, t \in Hosts : SiteOf(i, s) /\ SiteOf(i, t) => s = t
  /\ \A s \in Hosts : SiteOf(i, s) /\ sites[s].driver # None =>
       /\ driver[sites[s].driver] # None
       /\ sites[s].status = "running" =>
            /\ project[i] # None /\ project[i].site = s
            /\ sites[s].file = None \/ sites[s].file = project[i].file
       /\ (\E p \in Procs : Site(p) = s /\ pc[p] = "provision") => project[i] = None
  /\ (\A s \in Hosts : Ident[s] = i => sites[s].driver = None) => project[i] = None

IInv ==
  /\ ProcInv /\ DataInv /\ AliasInv /\ IdInv
  /\ \A p \in Procs : SiteInv(p) /\ AskInv(p)
  /\ \A s \in Hosts : RowInv(s) /\ RouteInv(s)
  /\ \A i \in Ids : ProjectInv(i)

---------------------------------------------------------------------------------
(* Requests: what a step does to them and to the locks. *)

(* What a step of another request leaves of a request: all but what it asked for. *)
Kept(q) ==
  /\ pc'[q] = pc[q] /\ job'[q].op = job[q].op /\ Site(q)' = Site(q) /\ Host(q)' = Host(q)
  /\ job'[q].driver = job[q].driver /\ job'[q].file = job[q].file
  /\ pc[q] # "acquire" => job'[q] = job[q]
Others(p) == \A q \in Procs \ {p} : Kept(q)
OtherJobs(p) == \A q \in Procs \ {p} : job'[q] = job[q]
Unlocked(l) == l \in {"idle", "acquire"}

(* A request goes to a label, with a job that fits it, and takes, keeps or releases the *)
(* lock of its site.                                                                    *)
LEMMA ProcStep ==
  ASSUME ProcInv, NEW p \in Procs, NEW l \in Labels, NEW j \in Job \cup {Idle},
         pc' = [pc EXCEPT ![p] = l], job' \in [Procs -> Job \cup {Idle}], job'[p] = j, Others(p),
         l = "idle" <=> j = Idle, l # "idle" => Fits(l, j),
         \/ Holds(p) /\ ~Unlocked(l) /\ j.site = Site(p) /\ lock' = lock
         \/ Holds(p) /\ Unlocked(l) /\ lock' = lock \ {Site(p)}
         \/ ~Holds(p) /\ ~Unlocked(l) /\ j.site \notin lock /\ lock' = lock \cup {j.site}
         \/ ~Holds(p) /\ Unlocked(l) /\ lock' = lock
  PROVE  ProcInv' /\ pc'[p] = l
  <1>1. pc' \in [Procs -> Labels] /\ pc'[p] = l
    BY DEF ProcInv
  <1>2. OpInv(p)'
    BY <1>1 DEF OpInv
  <1>3. ASSUME NEW q \in Procs \ {p}
        PROVE  OpInv(q)'
    <2>1. OpInv(q) /\ Kept(q) /\ job'[q] \in Job \cup {Idle}
      BY DEF ProcInv, Others
    <2>2. Idle.op = "none" /\ "none" \notin {"create", "destroy", "add", "remove"}
      BY DEF Idle
    <2>3. \A r \in Job : r.op \in {"create", "destroy", "add", "remove"}
      BY DEF Job
    <2>4. Fits(pc[q], job[q]) => Fits(pc'[q], job'[q])
      BY <2>1 DEF Fits, Kept, Site, Host
    <2>5. QED
      BY <2>1, <2>2, <2>3, <2>4 DEF OpInv, Kept
  <1>4. Holds(p)' <=> ~Unlocked(l)
    BY <1>1 DEF Holds, Unlocked
  <1>5. Site(p)' = j.site
    BY DEF Site
  <1>6. \A q \in Procs \ {p} : Site(q)' = Site(q) /\ (Holds(q)' <=> Holds(q))
    BY DEF Others, Kept, Holds
  <1>7. /\ lock = {Site(q) : q \in {q \in Procs : Holds(q)}}
        /\ \A q, r \in Procs : Holds(q) /\ Holds(r) /\ Site(q) = Site(r) => q = r
    BY DEF ProcInv
  <1>8. /\ lock' = {Site(q)' : q \in {q \in Procs : Holds(q)'}}
        /\ \A q, r \in Procs : Holds(q)' /\ Holds(r)' /\ Site(q)' = Site(r)' => q = r
    <2>1. CASE Holds(p) /\ ~Unlocked(l) /\ j.site = Site(p) /\ lock' = lock
      BY <2>1, <1>4, <1>5, <1>6, <1>7
    <2>2. CASE Holds(p) /\ Unlocked(l) /\ lock' = lock \ {Site(p)}
      <3>1. \A q \in Procs \ {p} : Holds(q) => Site(q) # Site(p)
        BY <2>2, <1>7
      <3>2. QED
        BY <2>2, <3>1, <1>4, <1>6, <1>7
    <2>3. CASE ~Holds(p) /\ ~Unlocked(l) /\ j.site \notin lock /\ lock' = lock \cup {j.site}
      <3>1. \A q \in Procs : Holds(q) => Site(q) # j.site
        BY <2>3, <1>7
      <3>2. QED
        BY <2>3, <3>1, <1>4, <1>5, <1>6, <1>7
    <2>4. CASE ~Holds(p) /\ Unlocked(l) /\ lock' = lock
      BY <2>4, <1>4, <1>6, <1>7
    <2>5. QED
      BY <2>1, <2>2, <2>3, <2>4
  <1>9. QED
    BY <1>1, <1>2, <1>3, <1>8 DEF ProcInv

(* The types of a request under way. *)
LEMMA ProcFacts ==
  ASSUME ProcInv, NEW p \in Procs, pc[p] # "idle"
  PROVE  /\ job[p] \in Job /\ Site(p) \in Hosts /\ Host(p) \in Hosts /\ Fits(pc[p], job[p])
         /\ job[p].op \in {"create", "destroy", "add", "remove"}
         /\ job[p].driver \in Ids \cup {None} /\ job[p].asked \in Files \cup {None}
         /\ job[p].file \in Files \cup {None}
  <1>1. job[p] \in Job /\ Fits(pc[p], job[p])
    BY DEF ProcInv, OpInv
  <1>2. QED
    BY <1>1 DEF Job, Site, Host

(* The labels an operation goes through. *)
Alike(a, b) ==
  \E S \in {Creates, Adds, Drops, Removes} : a \in S /\ b \in S \cup {"done"}

(* A step within an operation; it may forget a part of the job. *)
LEMMA GotoProc ==
  ASSUME ProcInv, NEW p \in Procs, NEW l \in Labels, Goto(p, l), Alike(pc[p], l), lock' = lock,
         NEW j \in Job, job' = [job EXCEPT ![p] = j], j.op = job[p].op, j.site = job[p].site,
         j.host = job[p].host, j.driver \in {None, job[p].driver}
  PROVE  /\ ProcInv' /\ Others(p) /\ OtherJobs(p) /\ pc'[p] = l /\ job'[p] = j
         /\ Site(p)' = Site(p) /\ Host(p)' = Host(p) /\ Holds(p) /\ Holds(p)'
  <1>1. pc' = [pc EXCEPT ![p] = l]
    BY DEF Goto
  <1>2. Holds(p) /\ ~Unlocked(l) /\ l # "idle"
    BY DEF Holds, Alike, Unlocked, Creates, Adds, Drops, Removes
  <1>3. Others(p) /\ OtherJobs(p) /\ job' \in [Procs -> Job \cup {Idle}] /\ job'[p] = j
    BY <1>1 DEF ProcInv, Others, OtherJobs, Kept, Site, Host
  <1>4. pc[p] # "idle" /\ Fits(pc[p], job[p])
    BY <1>2, ProcFacts DEF Holds
  <1>5. Fits(l, j)
    BY <1>4 DEF Fits, Alike, Creates, Adds, Drops, Removes
  <1>6. Idle \notin Job
    BY DEF Idle, Job
  <1>7. ProcInv' /\ pc'[p] = l
    BY <1>1, <1>2, <1>3, <1>5, <1>6, ProcStep DEF Site
  <1>8. QED
    BY <1>2, <1>3, <1>7 DEF Holds, Site, Host, Unlocked

LEMMA GotoSame ==
  ASSUME ProcInv, NEW p \in Procs, NEW l \in Labels, Goto(p, l), Alike(pc[p], l), lock' = lock,
         UNCHANGED job
  PROVE  /\ ProcInv' /\ Others(p) /\ OtherJobs(p) /\ pc'[p] = l /\ job'[p] = job[p]
         /\ Site(p)' = Site(p) /\ Host(p)' = Host(p) /\ Holds(p) /\ Holds(p)'
  <1>1. pc[p] # "idle"
    BY DEF Alike, Creates, Adds, Drops, Removes
  <1>2. job[p] \in Job
    BY <1>1, ProcFacts
  <1>3. job' = [job EXCEPT ![p] = job[p]]
    BY DEF ProcInv
  <1>4. QED
    BY <1>2, <1>3, GotoProc

(* Goroutine p forgets what only a create that goes on needs. *)
LEMMA GotoForget ==
  ASSUME ProcInv, NEW p \in Procs, NEW l \in Labels, Goto(p, l), Alike(pc[p], l), lock' = lock,
         Forget(p)
  PROVE  /\ ProcInv' /\ Others(p) /\ OtherJobs(p) /\ pc'[p] = l /\ job'[p].op = job[p].op
         /\ job'[p].driver = None /\ job'[p].file = None
         /\ Site(p)' = Site(p) /\ Host(p)' = Host(p) /\ Holds(p) /\ Holds(p)'
  <1> DEFINE j == [job[p] EXCEPT !.driver = None, !.asked = None, !.file = None]
  <1>1. pc[p] # "idle"
    BY DEF Alike, Creates, Adds, Drops, Removes
  <1>2. job[p] \in Job
    BY <1>1, ProcFacts
  <1>3. /\ j \in Job /\ j.op = job[p].op /\ j.site = job[p].site /\ j.host = job[p].host
        /\ j.driver = None /\ j.file = None
    BY <1>2 DEF Job
  <1>4. job' = [job EXCEPT ![p] = j]
    BY DEF Forget, ProcInv
  <1> HIDE DEF j
  <1>5. QED
    BY <1>3, <1>4, GotoProc

(* The end of a request. *)
LEMMA EndProc ==
  ASSUME ProcInv, NEW p \in Procs, pc[p] # "idle", Goto(p, "idle"), job' = [job EXCEPT ![p] = Idle],
         lock' = IF Holds(p) THEN lock \ {Site(p)} ELSE lock
  PROVE  ProcInv' /\ Others(p) /\ OtherJobs(p) /\ pc'[p] = "idle" /\ job'[p] = Idle
  <1>1. "idle" \in Labels /\ Idle \in Job \cup {Idle} /\ pc' = [pc EXCEPT ![p] = "idle"]
    BY DEF Labels, Goto
  <1>2. Others(p) /\ OtherJobs(p) /\ job' \in [Procs -> Job \cup {Idle}] /\ job'[p] = Idle
    BY <1>1 DEF ProcInv, Others, OtherJobs, Kept, Site, Host
  <1>3. QED
    BY <1>1, <1>2, ProcStep DEF Unlocked

(* The start of a request that takes the lock of its site, or of one that waited for it. *)
LEMMA LockProc ==
  ASSUME ProcInv, NEW p \in Procs, ~Holds(p), NEW l \in Labels, Goto(p, l), l \notin {"idle", "acquire"},
         NEW j \in Job, job' = [job EXCEPT ![p] = j], Fits(l, j), j.site \notin lock,
         lock' = lock \cup {j.site}
  PROVE  /\ ProcInv' /\ Others(p) /\ OtherJobs(p) /\ pc'[p] = l /\ job'[p] = j
         /\ Site(p)' = j.site /\ Host(p)' = j.host /\ Holds(p)'
  <1>1. pc' = [pc EXCEPT ![p] = l]
    BY DEF Goto
  <1>2. Others(p) /\ OtherJobs(p) /\ job' \in [Procs -> Job \cup {Idle}] /\ job'[p] = j
    BY <1>1 DEF ProcInv, Others, OtherJobs, Kept, Site, Host
  <1>3. Idle \notin Job
    BY DEF Idle, Job
  <1>4. ProcInv' /\ pc'[p] = l
    BY <1>1, <1>2, <1>3, ProcStep DEF Unlocked
  <1>5. QED
    BY <1>2, <1>4 DEF Holds, Site, Host

---------------------------------------------------------------------------------
(* Sites: what a step on one of them keeps of the others. *)

SiteLabels == {"provision", "register", "rollback", "addRow", "addRoute", "addUndo", "dropFile", "removeRoute"}

RowLabels  == SiteLabels \ {"addRow"}

LEMMA SiteQuiet ==
  ASSUME IInv, UNCHANGED <<sites, claim, file, stale>>,
         \A q \in Procs : Kept(q) \/ (pc[q] \notin RowLabels /\ pc'[q] \notin RowLabels /\ SiteInv(q)')
  PROVE  (\A q \in Procs : SiteInv(q)') /\ \A s \in Hosts : RowInv(s)' /\ RouteInv(s)'
  <1>1. \A q \in Procs : SiteInv(q)'
    BY DEF IInv, SiteInv, Kept
  <1>2. \A q \in Procs : \A s : Site(q) = s /\ pc[q] \in RowLabels <=> Site(q)' = s /\ pc'[q] \in RowLabels
    BY DEF Kept
  <1>3. \A q \in Procs : pc[q] \in RowLabels => pc'[q] = pc[q] /\ Host(q)' = Host(q)
    BY DEF Kept
  <1>4. \A s \in Hosts : RowInv(s)'
    BY <1>2, <1>3 DEF IInv, RowInv, RowLabels, SiteLabels
  <1>5. ASSUME NEW s \in Hosts
        PROVE  RouteInv(s)'
    <2>1. Fresh(s)' = Fresh(s) /\ (Rewriting(s)' <=> Rewriting(s)) /\ Aliases(s)' = Aliases(s)
      BY <1>2, <1>3 DEF Fresh, Rewriting, RowLabels, SiteLabels, Aliases, Rows
    <2>2. QED
      BY <2>1 DEF IInv, RouteInv
  <1>6. QED
    BY <1>1, <1>4, <1>5

(* A step on a site whose lock its request has, or takes. *)
Local(p, s) ==
  /\ Others(p) /\ (Holds(p) => Site(p) = s) /\ (Holds(p)' => Site(p)' = s) /\ (Holds(p) \/ Holds(p)')
  /\ \A t \in Hosts \ {s} : sites'[t] = sites[t] /\ file'[t] = file[t] /\ (t \in stale' <=> t \in stale)
  /\ \A h \in Hosts : claim'[h] = claim[h] \/ {claim[h], claim'[h]} \subseteq {Free, s}

LEMMA Elsewhere ==
  ASSUME IInv, ProcInv', NEW p \in Procs, NEW s \in Hosts, Local(p, s)
  PROVE  /\ \A q \in Procs \ {p} : SiteInv(q)'
         /\ \A t \in Hosts \ {s} : RowInv(t)' /\ RouteInv(t)'
  <1>1. ASSUME NEW q \in Procs \ {p}, Holds(q)
        PROVE  Site(q) # s /\ Site(q) \in Hosts /\ Host(q) \in Hosts
    <2>1. Kept(q) /\ Holds(q)'
      BY <1>1 DEF Local, Others, Kept, Holds
    <2>2. Site(q) # s
      BY <1>1, <2>1 DEF IInv, ProcInv, Local, Kept
    <2>3. QED
      BY <1>1, <2>2, ProcFacts DEF IInv, Holds
  <1>2. \A q \in Procs : pc[q] \in SiteLabels => Holds(q)
    BY DEF SiteLabels, Holds
  <1>3. \A q \in Procs : pc'[q] \in SiteLabels => Holds(q)'
    BY DEF SiteLabels, Holds
  <1>4. \A q \in Procs \ {p} : SiteInv(q)'
    <2> SUFFICES ASSUME NEW q \in Procs \ {p}
                 PROVE  SiteInv(q)'
      OBVIOUS
    <2>1. Kept(q) /\ SiteInv(q)
      BY DEF Local, Others, IInv
    <2>2. CASE Holds(q)
      <3>1. Site(q) \in Hosts \ {s} /\ Host(q) \in Hosts /\ Site(q) # Free
        BY <2>2, <1>1, FreeAssumption
      <3>2. sites'[Site(q)] = sites[Site(q)]
        BY <3>1 DEF Local
      <3>3. \A h \in Hosts : (claim[h] = Site(q) <=> claim'[h] = Site(q))
        BY <3>1 DEF Local
      <3>4. QED
        BY <2>1, <3>1, <3>2, <3>3 DEF SiteInv, Kept
    <2>3. CASE ~Holds(q)
      BY <2>1, <2>3, <1>2 DEF SiteInv, Kept, SiteLabels
    <2>4. QED
      BY <2>2, <2>3
  <1>5. ASSUME NEW t \in Hosts \ {s}
        PROVE  RowInv(t)' /\ RouteInv(t)'
    <2>1. \A q \in Procs : Site(q) = t /\ pc[q] \in SiteLabels => Kept(q)
      BY <1>2 DEF Local, Others
    <2>2. \A q \in Procs : Site(q)' = t /\ pc'[q] \in SiteLabels => Kept(q)
      BY <1>3 DEF Local, Others
    <2>3. \A h \in Hosts : claim[h] = t <=> claim'[h] = t
      BY FreeAssumption DEF Local
    <2>4. sites'[t] = sites[t] /\ file'[t] = file[t] /\ (t \in stale' <=> t \in stale)
      BY DEF Local
    <2>5. RowInv(t)'
      BY <2>1, <2>3, <2>4 DEF IInv, RowInv, Kept, SiteLabels
    <2>6. Fresh(t)' = Fresh(t) /\ (Rewriting(t)' <=> Rewriting(t)) /\ Aliases(t)' = Aliases(t)
      <3>1. \A q \in Procs : Site(q) = t /\ pc[q] \in SiteLabels <=> Site(q)' = t /\ pc'[q] \in SiteLabels
        BY <2>1, <2>2 DEF Kept
      <3>2. \A q \in Procs : Site(q) = t /\ pc[q] \in SiteLabels => pc'[q] = pc[q] /\ Host(q)' = Host(q)
        BY <2>1 DEF Kept
      <3>3. Fresh(t)' = Fresh(t)
        BY <3>1, <3>2 DEF Fresh, SiteLabels
      <3>4. Rewriting(t)' <=> Rewriting(t)
        BY <3>1, <3>2 DEF Rewriting, SiteLabels
      <3>5. QED
        BY <2>3, <3>3, <3>4 DEF Aliases, Rows
    <2>7. QED
      BY <2>4, <2>5, <2>6 DEF IInv, RouteInv
  <1>6. QED
    BY <1>4, <1>5

---------------------------------------------------------------------------------
(* Races: what a step keeps of the claims on hosts and on ids. *)

(* A step within an operation: it claims a host that is free, or gives a claim back. *)
Within(p) ==
  /\ Others(p) /\ Holds(p) /\ Holds(p)' /\ Site(p)' = Site(p) /\ Host(p)' = Host(p)
  /\ job'[p].op = job[p].op /\ raced' = raced

LEMMA AliasWithin ==
  ASSUME IInv, ProcInv', NEW p \in Procs, Within(p),
         \A h \in Hosts :
           \/ claim'[h] = claim[h] \/ claim'[h] = h
           \/ claim'[h] = Free /\ (claim[h] # h \/ sites'[h].status # "running" \/ {h} \in raced)
           \/ job[p].op = "add" /\ Host(p) = h /\ claim[h] = Free,
         \A t \in Hosts : sites'[t].status = "running" =>
           sites[t].status = "running" \/ (pc'[p] = "register" /\ Site(p) = t),
         pc'[p] \in {"checkIds", "insert", "provision", "register"} =>
           \/ pc[p] \in {"checkIds", "insert", "provision", "register"}
           \/ claim'[Site(p)] = Free \/ claim'[Site(p)] = Site(p),
         pc'[p] \in {"addRoute", "addUndo"} /\ Host(p) = Site(p) =>
           \/ pc[p] \in {"addRoute", "addUndo"}
           \/ claim[Site(p)] = Free /\ sites[Site(p)].status = "running",
         pc[p] = "register" => claim'[Site(p)] # Free
  PROVE  AliasInv'
  <1>1. \A q \in Procs : Holds(q) => Site(q) \in Hosts /\ Host(q) \in Hosts
    BY ProcFacts DEF IInv, Holds
  <1>2. \A q \in Procs : pc[q] \in Creates => Made(q) /\ Holds(q)
    BY ProcFacts DEF IInv, Made, Creates, Fits, Holds
  <1>3. \A q \in Procs : /\ Made(q)' <=> Made(q)
                         /\ Site(q)' = Site(q) /\ Host(q)' = Host(q) /\ job'[q].op = job[q].op
    BY DEF Within, Others, Kept, Made, Holds
  <1>4. \A q, r \in Procs : Made(q)' /\ job'[r].op = "add" /\ Host(r)' = Site(q)' => {Site(q)'} \in raced'
    BY <1>3 DEF IInv, AliasInv, Within
  <1>5. ASSUME NEW q \in Procs, pc'[q] \in {"checkIds", "insert", "provision", "register"}
        PROVE  claim'[Site(q)'] = Free \/ claim'[Site(q)'] = Site(q)' \/ {Site(q)'} \in raced'
    <2>1. Site(q)' = Site(q) /\ raced' = raced
      BY <1>3 DEF Within
    <2>2. CASE pc[q] \in {"checkIds", "insert", "provision", "register"}
      <3>1. Made(q) /\ Site(q) \in Hosts
        BY <2>2, <1>1, <1>2 DEF Creates
      <3>2. claim[Site(q)] = Free \/ claim[Site(q)] = Site(q) \/ {Site(q)} \in raced
        BY <2>2 DEF IInv, AliasInv
      <3>3. job[p].op = "add" /\ Host(p) = Site(q) => {Site(q)} \in raced
        BY <3>1 DEF IInv, AliasInv
      <3>4. QED
        BY <2>1, <3>1, <3>2, <3>3
    <2>3. CASE pc[q] \notin {"checkIds", "insert", "provision", "register"}
      <3>1. q = p
        BY <1>5, <2>3 DEF Within, Others, Kept
      <3>2. QED
        BY <1>5, <2>1, <2>3, <3>1
    <2>4. QED
      BY <2>2, <2>3
  <1>6. ASSUME NEW q \in Procs, pc'[q] \in {"addRoute", "addUndo"}, Host(q)' = Site(q)'
        PROVE  {Site(q)'} \in raced'
    <2>1. Site(q)' = Site(q) /\ Host(q)' = Host(q) /\ raced' = raced
      BY <1>3 DEF Within
    <2>2. CASE pc[q] \in {"addRoute", "addUndo"}
      BY <1>6, <2>1, <2>2 DEF IInv, AliasInv
    <2>3. CASE pc[q] \notin {"addRoute", "addUndo"}
      <3>1. q = p
        BY <1>6, <2>3 DEF Within, Others, Kept
      <3>2. claim[Site(p)] = Free /\ sites[Site(p)].status = "running" /\ Site(p) \in Hosts
        BY <1>1, <1>6, <2>1, <2>3, <3>1 DEF Within
      <3>3. {Site(p)} \in raced \/ \E r \in Procs : Site(r) = Site(p) /\ pc[r] = "register"
        BY <3>2, FreeAssumption DEF IInv, AliasInv
      <3>4. \A r \in Procs : Site(r) = Site(p) /\ pc[r] = "register" => r = p
        BY DEF IInv, ProcInv, Holds, Within
      <3>5. pc[p] # "register"
        <4>1. pc'[p] # "idle" /\ Fits(pc'[p], job'[p])
          BY <1>6, <3>1 DEF ProcInv, OpInv
        <4>2. job[p].op = "add"
          BY <4>1, <1>6, <3>1 DEF Fits, Adds, Within
        <4>3. QED
          BY <4>2, <1>2 DEF Creates, Made
      <3>6. QED
        BY <2>1, <3>1, <3>3, <3>4, <3>5
    <2>4. QED
      BY <2>2, <2>3
  <1>7. ASSUME NEW t \in Hosts, sites'[t].status = "running", claim'[t] # t
        PROVE  {t} \in raced' \/ \E q \in Procs : Site(q)' = t /\ pc'[q] = "register"
    <2>1. raced' = raced
      BY DEF Within
    <2>2. CASE sites[t].status = "running"
      <3>1. claim[t] # t => {t} \in raced \/ \E q \in Procs : Site(q) = t /\ pc[q] = "register"
        BY <2>2 DEF IInv, AliasInv
      <3>2. ASSUME NEW q \in Procs, Site(q) = t, pc[q] = "register"
            PROVE  {t} \in raced \/ (Site(q)' = t /\ pc'[q] = "register")
        <4>1. CASE q = p
          <5>1. claim[t] = Free \/ claim[t] = t \/ {t} \in raced
            BY <3>2 DEF IInv, AliasInv
          <5>2. claim'[t] # Free /\ (job[p].op = "add" => {t} \in raced)
            BY <3>2, <4>1, <1>2 DEF Creates, Made
          <5>3. QED
            BY <1>7, <5>1, <5>2
        <4>2. CASE q # p
          BY <3>2, <4>2 DEF Within, Others, Kept
        <4>3. QED
          BY <4>1, <4>2
      <3>3. claim[t] = t => {t} \in raced
        BY <1>7, FreeAssumption
      <3>4. QED
        BY <2>1, <3>1, <3>2, <3>3
    <2>3. CASE sites[t].status # "running"
      BY <1>3, <1>7, <2>3
    <2>4. QED
      BY <2>2, <2>3
  <1>8. QED
    BY <1>4, <1>5, <1>6, <1>7 DEF AliasInv

LEMMA IdWithin ==
  ASSUME IInv, NEW p \in Procs, Within(p),
         \A t \in Hosts : sites'[t] # NoSite => sites[t] # NoSite \/ (pc[p] = "insert" /\ t = Site(p)),
         pc'[p] = "insert" => ~Sharing(Site(p)) /\ sites' = sites
  PROVE  IdInv'
  <1>1. \A q \in Procs : /\ Made(q)' <=> Made(q)
                         /\ Site(q)' = Site(q)
    BY DEF Within, Others, Kept, Made, Holds
  <1>2. \A q, r \in Procs : Made(q)' /\ Made(r)' /\ Twins(Site(q)', Site(r)') => {Site(q)', Site(r)'} \in raced'
    BY <1>1 DEF IInv, IdInv, Within
  <1>3. ASSUME NEW q \in Procs, NEW t \in Hosts, pc'[q] = "insert", Twins(Site(q)', t), sites'[t] # NoSite
        PROVE  {Site(q)', t} \in raced'
    <2>1. CASE q = p
      BY <1>1, <1>3, <2>1 DEF Sharing, Twins
    <2>2. CASE q # p
      <3>1. pc[q] = "insert"
        BY <1>3, <2>2 DEF Within, Others, Kept
      <3>2. CASE sites[t] # NoSite
        BY <1>1, <1>3, <3>1, <3>2 DEF IInv, IdInv, Within
      <3>3. CASE pc[p] = "insert" /\ t = Site(p)
        <4>1. Made(p) /\ Made(q)
          BY <3>1, <3>3, ProcFacts DEF IInv, Made, Creates, Fits
        <4>2. QED
          BY <1>1, <1>3, <3>3, <4>1 DEF IInv, IdInv, Within
      <3>4. QED
        BY <1>3, <3>2, <3>3
    <2>3. QED
      BY <2>1, <2>2
  <1>4. ASSUME NEW s \in Hosts, NEW t \in Hosts, Twins(s, t), sites'[s] # NoSite, sites'[t] # NoSite
        PROVE  {s, t} \in raced'
    <2>1. raced' = raced /\ Twins(t, s) /\ s # t /\ {s, t} = {t, s}
      BY <1>4 DEF Within, Twins
    <2>2. CASE sites[s] # NoSite /\ sites[t] # NoSite
      BY <1>4, <2>1, <2>2 DEF IInv, IdInv
    <2>3. CASE pc[p] = "insert" /\ s = Site(p)
      BY <1>4, <2>1, <2>3 DEF IInv, IdInv
    <2>4. CASE pc[p] = "insert" /\ t = Site(p)
      <3>1. sites[s] # NoSite
        BY <1>4, <2>1, <2>4
      <3>2. QED
        BY <2>1, <2>4, <3>1 DEF IInv, IdInv
    <2>5. QED
      BY <1>4, <2>2, <2>3, <2>4
  <1>5. QED
    BY <1>2, <1>3, <1>4 DEF IdInv
(* The steps that claim nothing: those of the drivers, and the start of a request, which *)
(* puts on record what it overlaps with.                                                 *)
Starts(p) ==
  /\ ~Holds(p)
  /\ pc'[p] \notin SiteLabels \cup {"checkIds", "insert"}
  /\ Made(p)' => \A q \in Procs \ {p} :
       /\ job[q].op = "add" /\ Host(q) = Site(p)' => {Site(p)'} \in raced'
       /\ Made(q) /\ Twins(Site(p)', Site(q)) => {Site(p)', Site(q)} \in raced'
  /\ job'[p].op = "add" => ~Made(p)' /\ \A q \in Procs \ {p} : Made(q) /\ Site(q) = Host(p)' => {Host(p)'} \in raced'

LEMMA ClaimsStart ==
  ASSUME IInv, UNCHANGED <<sites, claim>>, raced \subseteq raced',
         NEW p, \A q \in Procs \ {p} : Kept(q), p \in Procs => Kept(p) \/ Starts(p)
  PROVE  AliasInv' /\ IdInv'
  <1>1. ASSUME NEW q \in Procs, Kept(q)
        PROVE  /\ Made(q)' <=> Made(q)
               /\ Site(q)' = Site(q) /\ Host(q)' = Host(q) /\ pc'[q] = pc[q] /\ job'[q].op = job[q].op
    BY <1>1 DEF Kept, Made
  <1>2. \A q \in Procs : Kept(q) \/ (q = p /\ Starts(p))
    OBVIOUS
  <1>3. \A q \in Procs : pc[q] \in {"register"} => Holds(q)
    BY DEF Holds
  <1>4. \A q \in Procs : pc'[q] \in SiteLabels \cup {"checkIds", "insert"} => Kept(q)
    BY <1>2 DEF Starts
  <1>5. \A q, r \in Procs : Made(q)' /\ job'[r].op = "add" /\ Host(r)' = Site(q)' => {Site(q)'} \in raced'
    <2> SUFFICES ASSUME NEW q \in Procs, NEW r \in Procs, Made(q)', job'[r].op = "add", Host(r)' = Site(q)'
                 PROVE  {Site(q)'} \in raced'
      OBVIOUS
    <2>1. CASE Kept(q) /\ Kept(r)
      BY <2>1, <1>1 DEF IInv, AliasInv
    <2>2. CASE ~Kept(q) /\ Kept(r)
      <3>1. q = p /\ Starts(p) /\ r # p
        BY <2>2, <1>2
      <3>2. job[r].op = "add" /\ Host(r) = Site(p)'
        BY <2>2, <3>1, <1>1
      <3>3. QED
        BY <3>1, <3>2 DEF Starts
    <2>3. CASE Kept(q) /\ ~Kept(r)
      <3>1. r = p /\ Starts(p) /\ q # p
        BY <2>3, <1>2
      <3>2. Made(q) /\ Site(q) = Host(p)' /\ Site(q)' = Host(p)'
        BY <2>3, <3>1, <1>1
      <3>3. QED
        BY <3>1, <3>2 DEF Starts
    <2>4. CASE ~Kept(q) /\ ~Kept(r)
      BY <2>4, <1>2 DEF Starts
    <2>5. QED
      BY <2>1, <2>2, <2>3, <2>4
  <1>6. \A q \in Procs : pc'[q] \in {"checkIds", "insert", "provision", "register"} =>
          claim'[Site(q)'] = Free \/ claim'[Site(q)'] = Site(q)' \/ {Site(q)'} \in raced'
    BY <1>1, <1>4 DEF IInv, AliasInv, SiteLabels
  <1>7. \A q \in Procs : pc'[q] \in {"addRoute", "addUndo"} /\ Host(q)' = Site(q)' => {Site(q)'} \in raced'
    BY <1>1, <1>4 DEF IInv, AliasInv, SiteLabels
  <1>8. \A s \in Hosts : sites'[s].status = "running" /\ claim'[s] # s =>
          {s} \in raced' \/ \E q \in Procs : Site(q)' = s /\ pc'[q] = "register"
    <2>1. \A q \in Procs : pc[q] = "register" => Kept(q)
      BY <1>2, <1>3 DEF Starts
    <2>2. QED
      BY <2>1, <1>1 DEF IInv, AliasInv
  <1>9. AliasInv'
    BY <1>5, <1>6, <1>7, <1>8 DEF AliasInv
  <1>10. \A q, r \in Procs : Made(q)' /\ Made(r)' /\ Twins(Site(q)', Site(r)') => {Site(q)', Site(r)'} \in raced'
    <2> SUFFICES ASSUME NEW q \in Procs, NEW r \in Procs, Made(q)', Made(r)', Twins(Site(q)', Site(r)')
                 PROVE  {Site(q)', Site(r)'} \in raced'
      OBVIOUS
    <2>1. CASE Kept(q) /\ Kept(r)
      BY <2>1, <1>1 DEF IInv, IdInv
    <2>2. CASE ~Kept(q) /\ Kept(r)
      <3>1. q = p /\ Starts(p) /\ r # p
        BY <2>2, <1>2
      <3>2. Made(r) /\ Site(r)' = Site(r)
        BY <2>2, <3>1, <1>1
      <3>3. QED
        BY <3>1, <3>2 DEF Starts
    <2>3. CASE Kept(q) /\ ~Kept(r)
      <3>1. r = p /\ Starts(p) /\ q # p
        BY <2>3, <1>2
      <3>2. Made(q) /\ Site(q)' = Site(q) /\ Twins(Site(p)', Site(q))
        BY <2>3, <3>1, <1>1 DEF Twins
      <3>3. {Site(p)', Site(q)} \in raced' /\ {Site(p)', Site(q)} = {Site(q)', Site(r)'}
        BY <3>1, <3>2 DEF Starts
      <3>4. QED
        BY <3>3
    <2>4. CASE ~Kept(q) /\ ~Kept(r)
      BY <2>4, <1>2 DEF Twins
    <2>5. QED
      BY <2>1, <2>2, <2>3, <2>4
  <1>11. \A q \in Procs, t \in Hosts :
           pc'[q] = "insert" /\ Twins(Site(q)', t) /\ sites'[t] # NoSite => {Site(q)', t} \in raced'
    BY <1>1, <1>4 DEF IInv, IdInv
  <1>12. \A s, t \in Hosts : Twins(s, t) /\ sites'[s] # NoSite /\ sites'[t] # NoSite => {s, t} \in raced'
    BY DEF IInv, IdInv
  <1>13. QED
    BY <1>9, <1>10, <1>11, <1>12 DEF IdInv

(* The end of a request, which no one but it can have the site of. *)
LEMMA ClaimsEnd ==
  ASSUME IInv, NEW p \in Procs, At(p, "done"), Others(p), pc'[p] = "idle", job'[p] = Idle,
         UNCHANGED <<sites, claim>>,
         raced' = {r \in raced : Site(p) \in r =>
                     sites[Site(p)] # NoSite /\ (r = {Site(p)} => claim[Site(p)] # Site(p))}
  PROVE  AliasInv' /\ IdInv'
  <1>1. Holds(p)
    BY DEF At, Holds
  <1>2. Idle.op = "none"
    BY DEF Idle
  <1>3. ~Made(p)' /\ job'[p].op # "add"
    BY <1>2 DEF Made
  <1>4. \A q \in Procs \ {p} : /\ Made(q)' <=> Made(q)
                               /\ Site(q)' = Site(q) /\ Host(q)' = Host(q) /\ pc'[q] = pc[q] /\ job'[q].op = job[q].op
    BY DEF Others, Kept, Made
  <1>5. \A q \in Procs \ {p} : Holds(q) => Site(q) # Site(p)
    BY <1>1 DEF IInv, ProcInv
  <1>6. \A q \in Procs \ {p} : Made(q) => Holds(q)
    <2>1. \A q \in Procs : pc[q] = "idle" => job[q].op # "create"
      BY <1>2 DEF IInv, ProcInv, OpInv
    <2>2. QED
      BY <2>1 DEF Made, Holds
  <1>7. \A q \in Procs \ {p} : Holds(q) => \A x : {Site(q), x} \in raced /\ x # Site(p) => {Site(q), x} \in raced'
    BY <1>5
  <1>8. \A q \in Procs \ {p} : Holds(q) => ({Site(q)} \in raced => {Site(q)} \in raced')
    BY <1>5
  <1>9. ASSUME NEW s \in Hosts, sites[s] # NoSite, NEW x
        PROVE  {s, x} \in raced /\ s # x /\ x # Site(p) => {s, x} \in raced'
    BY <1>9
  <1>10. \A q, r \in Procs : Made(q)' /\ job'[r].op = "add" /\ Host(r)' = Site(q)' => {Site(q)'} \in raced'
    BY <1>3, <1>4, <1>6, <1>8 DEF IInv, AliasInv
  <1>11. \A q \in Procs : pc'[q] \in {"checkIds", "insert", "provision", "register"} =>
           claim'[Site(q)'] = Free \/ claim'[Site(q)'] = Site(q)' \/ {Site(q)'} \in raced'
    BY <1>4, <1>8 DEF IInv, AliasInv, Holds
  <1>12. \A q \in Procs : pc'[q] \in {"addRoute", "addUndo"} /\ Host(q)' = Site(q)' => {Site(q)'} \in raced'
    BY <1>4, <1>8 DEF IInv, AliasInv, Holds
  <1>13. ASSUME NEW s \in Hosts, sites'[s].status = "running", claim'[s] # s
         PROVE  {s} \in raced' \/ \E q \in Procs : Site(q)' = s /\ pc'[q] = "register"
    <2>1. sites[s].status = "running" /\ claim[s] # s /\ sites[s] # NoSite
      BY <1>13 DEF NoSite
    <2>2. {s} \in raced => {s} \in raced'
      BY <2>1
    <2>3. {s} \in raced \/ \E q \in Procs \ {p} : Site(q) = s /\ pc[q] = "register"
      BY <2>1 DEF IInv, AliasInv, At
    <2>4. QED
      BY <2>2, <2>3, <1>4
  <1>14. AliasInv'
    BY <1>10, <1>11, <1>12, <1>13 DEF AliasInv
  <1>15. \A q, r \in Procs : Made(q)' /\ Made(r)' /\ Twins(Site(q)', Site(r)') => {Site(q)', Site(r)'} \in raced'
    BY <1>3, <1>4, <1>5, <1>6, <1>7 DEF IInv, IdInv
  <1>16. ASSUME NEW q \in Procs, NEW t \in Hosts, pc'[q] = "insert", Twins(Site(q)', t), sites'[t] # NoSite
         PROVE  {Site(q)', t} \in raced'
    <2>1. q # p /\ Holds(q) /\ Site(q)' = Site(q) /\ {Site(q), t} \in raced
      BY <1>4, <1>16 DEF IInv, IdInv, Holds
    <2>2. Site(q) # Site(p) /\ Site(q) # t /\ sites[t] # NoSite
      BY <2>1, <1>5, <1>16 DEF Twins
    <2>3. QED
      BY <2>1, <2>2
  <1>17. ASSUME NEW s \in Hosts, NEW t \in Hosts, Twins(s, t), sites'[s] # NoSite, sites'[t] # NoSite
         PROVE  {s, t} \in raced'
    <2>1. {s, t} \in raced /\ s # t /\ sites[s] # NoSite /\ sites[t] # NoSite
      BY <1>17 DEF IInv, IdInv, Twins
    <2>2. QED
      BY <2>1
  <1>18. QED
    BY <1>14, <1>15, <1>16, <1>17 DEF IdInv
---------------------------------------------------------------------------------
(* Drivers and projects: what a step keeps of what was asked for and of what is up. *)

LEMMA AskOthers ==
  ASSUME IInv, ProcInv', NEW p \in Procs, Others(p), OtherJobs(p), driver' = driver,
         \A q \in Procs \ {p} : Holds(q) => sites'[Site(q)] = sites[Site(q)],
         \A q \in Procs \ {p} : job[q].op = "create" /\ Ident[Site(q)] \in mixed => Ident[Site(q)] \in mixed'
  PROVE  \A q \in Procs \ {p} : AskInv(q)'
  <1> SUFFICES ASSUME NEW q \in Procs \ {p}
               PROVE  AskInv(q)'
    OBVIOUS
  <1>1. AskInv(q) /\ job'[q] = job[q] /\ pc'[q] = pc[q] /\ Site(q)' = Site(q)
    BY DEF IInv, Others, OtherJobs, Kept
  <1>2. CASE pc[q] \in {"checkAlias", "checkIds", "insert", "provision"}
    <2>1. Holds(q) /\ job[q].op = "create"
      BY <1>2, ProcFacts DEF IInv, Holds, Fits, Creates
    <2>2. QED
      BY <1>1, <2>1 DEF AskInv
  <1>3. CASE pc[q] \notin {"checkAlias", "checkIds", "insert", "provision"}
    BY <1>1, <1>3 DEF AskInv
  <1>4. QED
    BY <1>2, <1>3

LEMMA ProjectQuiet ==
  ASSUME IInv, NEW i \in Ids, driver' = driver, project'[i] = project[i], i \in mixed => i \in mixed',
         \A s \in Hosts : Ident[s] = i => sites'[s] = sites[s],
         \A s \in Hosts, q \in Procs : Ident[s] = i /\ Site(q)' = s /\ pc'[q] = "provision" =>
           Site(q) = s /\ pc[q] = "provision"
  PROVE  ProjectInv(i)'
  <1>1. \A s \in Hosts : (SiteOf(i, s)' <=> SiteOf(i, s)) /\ (SiteOf(i, s) => sites'[s] = sites[s])
    BY DEF SiteOf
  <1>2. i \notin mixed' => ProjectInv(i) /\ i \notin mixed
    BY DEF IInv
  <1>3. i \notin mixed' => \A s, t \in Hosts : SiteOf(i, s)' /\ SiteOf(i, t)' => s = t
    BY <1>1, <1>2 DEF ProjectInv
  <1>4. ASSUME i \notin mixed', NEW s \in Hosts, SiteOf(i, s)', sites'[s].driver # None
        PROVE  /\ driver'[sites'[s].driver] # None
               /\ sites'[s].status = "running" =>
                    /\ project'[i] # None /\ project'[i].site = s
                    /\ sites'[s].file = None \/ sites'[s].file = project'[i].file
               /\ (\E q \in Procs : Site(q)' = s /\ pc'[q] = "provision") => project'[i] = None
    <2>1. SiteOf(i, s) /\ sites'[s] = sites[s] /\ Ident[s] = i
      BY <1>1, <1>4 DEF SiteOf
    <2>2. (\E q \in Procs : Site(q)' = s /\ pc'[q] = "provision") => \E q \in Procs : Site(q) = s /\ pc[q] = "provision"
      BY <2>1
    <2>3. QED
      BY <1>2, <1>4, <2>1, <2>2 DEF ProjectInv
  <1>5. i \notin mixed' => ((\A s \in Hosts : Ident[s] = i => sites'[s].driver = None) => project'[i] = None)
    BY <1>2 DEF ProjectInv
  <1>6. QED
    BY <1>3, <1>4, <1>5 DEF ProjectInv

(* A step on a site is quiet about the other ids. *)
LEMMA ProjectElsewhere ==
  ASSUME IInv, NEW p \in Procs, NEW s \in Hosts, Local(p, s), driver' = driver,
         \A i \in Ids \ {Ident[s]} : project'[i] = project[i] /\ (i \in mixed => i \in mixed')
  PROVE  \A i \in Ids \ {Ident[s]} : ProjectInv(i)'
  <1> SUFFICES ASSUME NEW i \in Ids \ {Ident[s]}
               PROVE  ProjectInv(i)'
    OBVIOUS
  <1>1. \A t \in Hosts : Ident[t] = i => t # s /\ sites'[t] = sites[t]
    BY DEF Local
  <1>2. ASSUME NEW t \in Hosts, NEW q \in Procs, Ident[t] = i, Site(q)' = t, pc'[q] = "provision"
        PROVE  Site(q) = t /\ pc[q] = "provision"
    <2>1. q # p
      BY <1>1, <1>2 DEF Local, Holds
    <2>2. QED
      BY <1>2, <2>1 DEF Local, Others, Kept
  <1>3. QED
    BY <1>1, <1>2, ProjectQuiet

(* The site of a request goes; its project with it, or the id is mixed up. *)
LEMMA ProjectDrop ==
  ASSUME IInv, NEW p \in Procs, NEW s \in Hosts, Local(p, s), driver' = driver,
         sites' = [sites EXCEPT ![s] = NoSite], pc'[p] # "provision",
         \/ ~Built(s) /\ UNCHANGED <<project, mixed>>
         \/ Built(s) /\ Down(Ident[s])
  PROVE  (\A i \in Ids : ProjectInv(i)') /\ \A i \in mixed : i \in mixed'
  <1>0. /\ sites \in [Hosts -> Row \cup {NoSite}] /\ project \in [Ids -> [site : Hosts, file : Files] \cup {None}]
        /\ NoSite.driver = None
    BY DEF IInv, DataInv, NoSite
  <1>1. /\ \A i \in Ids \ {Ident[s]} : project'[i] = project[i]
        /\ \A i \in mixed : i \in mixed'
    BY <1>0 DEF Down
  <1>2. \A i \in Ids \ {Ident[s]} : ProjectInv(i)'
    BY <1>1, ProjectElsewhere
  <1>3. ASSUME NEW i \in Ids, i = Ident[s]
        PROVE  ProjectInv(i)'
    <2> SUFFICES ASSUME i \notin mixed'
                 PROVE  /\ \A t, u \in Hosts : SiteOf(i, t)' /\ SiteOf(i, u)' => t = u
                        /\ \A t \in Hosts : SiteOf(i, t)' /\ sites'[t].driver # None =>
                             /\ driver'[sites'[t].driver] # None
                             /\ sites'[t].status = "running" =>
                                  /\ project'[i] # None /\ project'[i].site = t
                                  /\ sites'[t].file = None \/ sites'[t].file = project'[i].file
                             /\ (\E q \in Procs : Site(q)' = t /\ pc'[q] = "provision") => project'[i] = None
                        /\ (\A t \in Hosts : Ident[t] = i => sites'[t].driver = None) => project'[i] = None
      BY DEF ProjectInv
    <2>1. i \notin mixed /\ ProjectInv(i)
      BY <1>1 DEF IInv
    <2>2. \A t \in Hosts : SiteOf(i, t)' => t # s /\ SiteOf(i, t) /\ sites'[t] = sites[t]
      BY <1>0, <1>3 DEF SiteOf
    <2>3. \A t, u \in Hosts : SiteOf(i, t)' /\ SiteOf(i, u)' => t = u
      BY <2>1, <2>2 DEF ProjectInv
    <2>4. \A q \in Procs, t \in Hosts : t # s /\ Site(q)' = t /\ pc'[q] = "provision" => Site(q) = t /\ pc[q] = "provision"
      BY DEF Local, Others, Kept
    <2>5. CASE Built(s)
      <3>1. project'[i] = None
        BY <1>0, <1>3, <2>5 DEF Down
      <3>2. SiteOf(i, s)
        BY <1>0, <1>3, <2>5 DEF Built, SiteOf
      <3>3. \A t \in Hosts : ~SiteOf(i, t)'
        BY <2>1, <2>2, <3>2 DEF ProjectInv
      <3>4. QED
        BY <2>3, <3>1, <3>3
    <2>6. CASE ~Built(s)
      <3>1. project'[i] = project[i]
        BY <2>6
      <3>2. sites[s].driver = None
        BY <1>0, <1>3, <2>1, <2>6 DEF Built, ProjectInv, SiteOf
      <3>3. \A t \in Hosts : Ident[t] = i /\ sites'[t].driver = None => sites[t].driver = None
        BY <1>0, <3>2
      <3>4. QED
        BY <2>1, <2>2, <2>3, <2>4, <3>1, <3>3 DEF ProjectInv
    <2>7. QED
      BY <2>5, <2>6
  <1>4. QED
    BY <1>1, <1>2, <1>3

---------------------------------------------------------------------------------
(* Steps in kinds. *)

(* A step that changes no more than its request, and what is on record. *)
LEMMA SilentStep ==
  ASSUME IInv, ProcInv', NEW p \in Procs, Others(p), OtherJobs(p), UNCHANGED <<tables, file, driver, project, stale>>,
         raced' \subseteq SUBSET Hosts, mixed' \subseteq mixed,
         \A q \in Procs \ {p} : job[q].op = "create" /\ Ident[Site(q)] \in mixed => Ident[Site(q)] \in mixed',
         \A i \in mixed \ mixed' : project[i] = None /\ \A s \in Hosts : Ident[s] = i => sites[s] = NoSite,
         pc[p] \notin RowLabels, pc'[p] \notin RowLabels, SiteInv(p)', AskInv(p)', AliasInv', IdInv'
  PROVE  IInv'
  <1>1. UNCHANGED <<sites, claim, file, stale, driver, project>>
    BY DEF tables
  <1>2. (\A q \in Procs : SiteInv(q)') /\ \A s \in Hosts : RowInv(s)' /\ RouteInv(s)'
    BY <1>1, SiteQuiet DEF Others
  <1>3. \A q \in Procs : AskInv(q)'
    BY <1>1, AskOthers
  <1>4. ASSUME NEW i \in Ids
        PROVE  ProjectInv(i)'
    <2>1. \A s \in Hosts, q \in Procs : Site(q)' = s /\ pc'[q] = "provision" => Site(q) = s /\ pc[q] = "provision"
      BY DEF Others, Kept, RowLabels, SiteLabels
    <2>2. CASE i \in mixed => i \in mixed'
      BY <1>1, <2>1, <2>2, ProjectQuiet
    <2>3. CASE i \in mixed \ mixed'
      <3>1. project'[i] = None /\ \A s \in Hosts : ~SiteOf(i, s)'
        BY <1>1, <2>3 DEF SiteOf
      <3>2. QED
        BY <3>1 DEF ProjectInv
    <2>4. QED
      BY <2>2, <2>3
  <1>5. DataInv'
    BY <1>1 DEF IInv, DataInv
  <1>6. QED
    BY <1>2, <1>3, <1>4, <1>5 DEF IInv

(* A step on a site's rows or on its file. *)
LEMMA RouteStep ==
  ASSUME IInv, ProcInv', NEW p \in Procs, NEW s \in Hosts, Local(p, s), OtherJobs(p),
         UNCHANGED <<sites, stack, raced>>,
         claim' \in [Hosts -> Hosts \cup {Free}], file' \in [Hosts -> SUBSET Hosts], stale' \subseteq Hosts,
         pc'[p] \notin {"acquire", "checkAlias", "checkIds", "insert", "provision"},
         SiteInv(p)', RowInv(s)', RouteInv(s)', AliasInv', IdInv'
  PROVE  IInv'
  <1>1. UNCHANGED <<sites, driver, project, mixed, raced>>
    BY DEF stack
  <1>2. /\ \A q \in Procs : SiteInv(q)'
        /\ \A t \in Hosts : RowInv(t)' /\ RouteInv(t)'
    BY Elsewhere
  <1>3. \A q \in Procs : AskInv(q)'
    <2>1. AskInv(p)'
      BY DEF AskInv
    <2>2. QED
      BY <1>1, <2>1, AskOthers DEF Local
  <1>4. ASSUME NEW i \in Ids
        PROVE  ProjectInv(i)'
    <2>1. \A t \in Hosts, q \in Procs : Site(q)' = t /\ pc'[q] = "provision" => Site(q) = t /\ pc[q] = "provision"
      BY DEF Local, Others, Kept
    <2>2. QED
      BY <1>1, <2>1, ProjectQuiet
  <1>5. DataInv'
    BY <1>1 DEF IInv, DataInv
  <1>6. QED
    BY <1>2, <1>3, <1>4, <1>5 DEF IInv

(* A step on a site and its project. *)
LEMMA TableStep ==
  ASSUME IInv, ProcInv', NEW p \in Procs, NEW s \in Hosts, Local(p, s), OtherJobs(p), driver' = driver,
         UNCHANGED <<file, raced>>, stale' \subseteq Hosts,
         \A i \in mixed : i \in mixed', mixed' \subseteq Ids,
         sites' \in [Hosts -> Row \cup {NoSite}], claim' \in [Hosts -> Hosts \cup {Free}],
         project' \in [Ids -> [site : Hosts, file : Files] \cup {None}],
         sites'[s].driver # None => s \in Stacks,
         \A i \in Ids : ProjectInv(i)',
         SiteInv(p)', AskInv(p)', RowInv(s)', RouteInv(s)', AliasInv', IdInv'
  PROVE  IInv'
  <1>1. /\ \A q \in Procs : SiteInv(q)'
        /\ \A t \in Hosts : RowInv(t)' /\ RouteInv(t)'
    BY Elsewhere
  <1>2. \A q \in Procs : AskInv(q)'
    <2>1. ASSUME NEW q \in Procs \ {p}, Holds(q)
          PROVE  sites'[Site(q)] = sites[Site(q)]
      <3>1. Site(q) \in Hosts /\ Holds(q)' /\ Site(q)' = Site(q)
        BY <2>1, ProcFacts DEF IInv, Holds, Local, Others, Kept
      <3>2. Site(q) # s
        BY <2>1, <3>1 DEF IInv, ProcInv, Local
      <3>3. QED
        BY <3>1, <3>2 DEF Local
    <2>2. QED
      BY <2>1, AskOthers DEF Local
  <1>3. \A t \in Hosts : sites'[t].driver # None => t \in Stacks
    BY DEF Local, IInv, DataInv
  <1>4. DataInv'
    BY <1>3 DEF IInv, DataInv
  <1>5. QED
    BY <1>1, <1>2, <1>4 DEF IInv
(* What the request that has a site's lock says of the site's file and rows. *)
LEMMA OwnFacts ==
  ASSUME IInv, ProcInv', NEW p \in Procs, NEW s \in Hosts, Local(p, s)
  PROVE  /\ Holds(p) => /\ Fresh(s) = IF pc[p] \in {"addRoute", "addUndo"} THEN {Host(p)} ELSE {}
                        /\ Rewriting(s) <=> pc[p] \in {"removeRoute", "dropFile"}
                        /\ sites[s].status = "creating" => pc[p] \in {"provision", "rollback"}
         /\ Holds(p)' => /\ Fresh(s)' = IF pc'[p] \in {"addRoute", "addUndo"} THEN {Host(p)'} ELSE {}
                         /\ Rewriting(s)' <=> pc'[p] \in {"removeRoute", "dropFile"}
  <1>1. ASSUME Holds(p)
        PROVE  \A q \in Procs : Site(q) = s /\ Holds(q) <=> q = p
    BY <1>1 DEF Local, IInv, ProcInv
  <1>2. ASSUME Holds(p)'
        PROVE  \A q \in Procs : Site(q)' = s /\ Holds(q)' <=> q = p
    BY <1>2 DEF Local, ProcInv
  <1>3. \A q \in Procs : pc[q] \in SiteLabels => Holds(q)
    BY DEF Holds, SiteLabels
  <1>4. \A q \in Procs : pc'[q] \in SiteLabels => Holds(q)'
    BY DEF Holds, SiteLabels
  <1>5. ASSUME Holds(p)
        PROVE  /\ Fresh(s) = IF pc[p] \in {"addRoute", "addUndo"} THEN {Host(p)} ELSE {}
               /\ Rewriting(s) <=> pc[p] \in {"removeRoute", "dropFile"}
               /\ sites[s].status = "creating" => pc[p] \in {"provision", "rollback"}
    <2>1. \A q \in Procs : Site(q) = s /\ pc[q] \in SiteLabels <=> q = p /\ pc[p] \in SiteLabels
      BY <1>1, <1>3, <1>5
    <2>2. Fresh(s) = IF pc[p] \in {"addRoute", "addUndo"} THEN {Host(p)} ELSE {}
      BY <2>1 DEF Fresh, SiteLabels
    <2>3. Rewriting(s) <=> pc[p] \in {"removeRoute", "dropFile"}
      BY <2>1 DEF Rewriting, SiteLabels
    <2>4. sites[s].status = "creating" => pc[p] \in {"provision", "rollback"}
      BY <2>1 DEF IInv, RowInv, SiteLabels
    <2>5. QED
      BY <2>2, <2>3, <2>4
  <1>6. ASSUME Holds(p)'
        PROVE  /\ Fresh(s)' = IF pc'[p] \in {"addRoute", "addUndo"} THEN {Host(p)'} ELSE {}
               /\ Rewriting(s)' <=> pc'[p] \in {"removeRoute", "dropFile"}
    <2>1. \A q \in Procs : Site(q)' = s /\ pc'[q] \in SiteLabels <=> q = p /\ pc'[p] \in SiteLabels
      BY <1>2, <1>4, <1>6
    <2>2. Fresh(s)' = IF pc'[p] \in {"addRoute", "addUndo"} THEN {Host(p)'} ELSE {}
      BY <2>1 DEF Fresh, SiteLabels
    <2>3. Rewriting(s)' <=> pc'[p] \in {"removeRoute", "dropFile"}
      BY <2>1 DEF Rewriting, SiteLabels
    <2>4. QED
      BY <2>2, <2>3
  <1>7. QED
    BY <1>5, <1>6

(* The labels of an operation, and what a step within one keeps. *)
LEMMA InnerFacts ==
  ASSUME IInv, NEW p \in Procs, Others(p), Holds(p), Holds(p)', Site(p)' = Site(p), Host(p)' = Host(p),
         job'[p].op = job[p].op, raced' = raced
  PROVE  /\ Within(p) /\ Site(p) \in Hosts /\ Host(p) \in Hosts /\ Site(p) # Free /\ Host(p) # Free
         /\ Site(p) \in lock /\ SiteInv(p) /\ AskInv(p) /\ RowInv(Site(p)) /\ RouteInv(Site(p))
         /\ Fits(pc[p], job[p])
  <1>1. Site(p) \in Hosts /\ Host(p) \in Hosts /\ Fits(pc[p], job[p])
    BY ProcFacts DEF IInv, Holds
  <1>2. QED
    BY <1>1, FreeAssumption DEF IInv, Within, ProcInv

---------------------------------------------------------------------------------
(* The starts of requests, and the drivers. *)

(* A request takes the lock of its site. *)
LEMMA TakeLock ==
  ASSUME IInv, NEW p \in Procs, pc[p] \in {"idle", "acquire"}, NEW l \in Labels, Goto(p, l),
         l \in {"checkAlias", "dropSite", "addCheck", "removeRow", "done"},
         NEW j \in Job, job' = [job EXCEPT ![p] = j], Fits(l, j), j.site \notin lock,
         lock' = lock \cup {j.site}, UNCHANGED <<tables, file, stack, stale>>,
         raced \subseteq raced', raced' \subseteq SUBSET Hosts,
         j.op = "create" => \A q \in Procs \ {p} :
           /\ job[q].op = "add" /\ Host(q) = j.site => {j.site} \in raced'
           /\ Made(q) /\ Twins(j.site, Site(q)) => {j.site, Site(q)} \in raced',
         j.op = "add" => \A q \in Procs \ {p} : Made(q) /\ Site(q) = j.host => {j.host} \in raced',
         l = "checkAlias" =>
           /\ j.driver # None => j.file # None /\ driver[j.driver] # None
           /\ j.asked = None \/ j.asked = j.file
  PROVE  IInv'
  <1>1. /\ ProcInv' /\ Others(p) /\ OtherJobs(p) /\ pc'[p] = l /\ job'[p] = j
        /\ Site(p)' = j.site /\ Host(p)' = j.host /\ Holds(p)'
    BY LockProc DEF IInv, Holds
  <1>2. ~Holds(p)
    BY DEF Holds
  <1>3. UNCHANGED <<sites, claim, file, driver, project, mixed, stale>>
    BY DEF tables, stack
  <1>4. Starts(p)
    BY <1>1, <1>2 DEF Starts, SiteLabels, Made
  <1>5. AliasInv' /\ IdInv'
    BY <1>1, <1>3, <1>4, ClaimsStart DEF Others
  <1>6. SiteInv(p)' /\ AskInv(p)'
    BY <1>1, <1>3 DEF SiteInv, AskInv
  <1>7. pc[p] \notin RowLabels /\ pc'[p] \notin RowLabels
    BY <1>1 DEF RowLabels, SiteLabels
  <1>8. QED
    BY <1>1, <1>3, <1>5, <1>6, <1>7, SilentStep

LEMMA BeginPlain ==
  ASSUME IInv, NEW p \in Procs, NEW s \in Hosts, NEW h \in Hosts,
         BeginDestroy(p, s) \/ BeginAdd(p, s, h) \/ BeginRemove(p, s, h)
  PROVE  IInv'
  <1>1. PICK op \in {"destroy", "add", "remove"}, g \in Hosts,
             l \in {"dropSite", "addCheck", "removeRow"} :
          /\ Begin(p, op, s, g, l)
          /\ op = "destroy" => l = "dropSite" /\ raced' = raced
          /\ op = "add" => l = "addCheck" /\ raced' = raced \cup (IF Creating(g) THEN {{g}} ELSE {})
          /\ op = "remove" => l = "removeRow" /\ raced' = raced
    BY DEF BeginDestroy, BeginAdd, BeginRemove
  <1> DEFINE j == [Idle EXCEPT !.op = op, !.site = s, !.host = g]
  <1>2. /\ j \in Job /\ j.op = op /\ j.site = s /\ j.host = g /\ j.driver = None
    BY DEF Job, Idle
  <1>3. /\ pc[p] = "idle" /\ s \notin lock /\ lock' = lock \cup {s} /\ Goto(p, l)
        /\ job' = [job EXCEPT ![p] = j] /\ UNCHANGED <<tables, file, stack, stale>> /\ l \in Labels
    BY <1>1 DEF Begin, At, Labels, stack
  <1> HIDE DEF j
  <1>4. Fits(l, j)
    BY <1>1, <1>2 DEF Fits, Creates, Adds, Drops, Removes
  <1>5. raced \subseteq raced' /\ raced' \subseteq SUBSET Hosts
    BY <1>1 DEF IInv, DataInv
  <1>6. op = "add" => \A q \in Procs \ {p} : Made(q) /\ Site(q) = g => {g} \in raced'
    BY <1>1 DEF Creating, Made
  <1>7. QED
    BY <1>1, <1>2, <1>3, <1>4, <1>5, <1>6, TakeLock

(* What a create that begins overlaps with goes on record. *)
LEMMA RaceFacts ==
  ASSUME IInv, NEW p \in Procs, NEW s \in Hosts, Race(s)
  PROVE  /\ raced \subseteq raced' /\ raced' \subseteq SUBSET Hosts
         /\ \A q \in Procs : job[q].op = "add" /\ Host(q) = s => {s} \in raced'
         /\ \A q \in Procs : Made(q) /\ Twins(s, Site(q)) => {s, Site(q)} \in raced'
  <1>1. raced \subseteq raced' /\ raced' \subseteq SUBSET Hosts
    BY DEF IInv, DataInv, Race
  <1>2. \A q \in Procs : job[q].op = "add" /\ Host(q) = s => {s} \in raced'
    BY DEF Race, Adding
  <1>3. ASSUME NEW q \in Procs, Made(q), Twins(s, Site(q))
        PROVE  {s, Site(q)} \in raced'
    <2>1. pc[q] # "idle"
      BY <1>3 DEF IInv, ProcInv, OpInv, Made, Idle
    <2>2. Site(q) \in Hosts \ {s} /\ Ident[Site(q)] = Ident[s]
      BY <1>3, <2>1, ProcFacts DEF IInv, Twins
    <2>3. Creating(Site(q))
      BY <1>3 DEF Creating, Made
    <2>4. QED
      BY <2>2, <2>3 DEF Race
  <1>4. QED
    BY <1>1, <1>2, <1>3

LEMMA CreateBegins ==
  ASSUME IInv, NEW p \in Procs, NEW s \in Hosts, NEW d, d = None \/ (s \in Stacks /\ d \in Ids),
         BeginCreate(p, s, d)
  PROVE  IInv'
  <1> DEFINE loaded == IF d = None THEN None ELSE driver[d]
             j == [op |-> "create", site |-> s, host |-> s, driver |-> d, asked |-> loaded, file |-> loaded]
  <1>1. loaded \in Files \cup {None} /\ (d # None => loaded # None)
    BY DEF IInv, DataInv, BeginCreate
  <1>2. /\ j \in Job /\ j.op = "create" /\ j.site = s /\ j.host = s /\ j.driver = d
        /\ j.asked = loaded /\ j.file = loaded
    BY <1>1 DEF Job
  <1>3. /\ pc[p] = "idle" /\ s \notin lock /\ lock' = lock \cup {s} /\ Goto(p, "checkAlias") /\ Race(s)
        /\ job' = [job EXCEPT ![p] = j] /\ UNCHANGED <<tables, file, stack, stale>>
        /\ d # None => driver[d] # None
    BY DEF BeginCreate, At
  <1>4. "checkAlias" \in Labels /\ Fits("checkAlias", j)
    BY <1>2 DEF Labels, Fits, Creates, Adds, Drops, Removes
  <1> HIDE DEF j, loaded
  <1>5. QED
    BY <1>1, <1>2, <1>3, <1>4, RaceFacts, TakeLock

LEMMA AcquireStep ==
  ASSUME IInv, NEW p \in Procs, Acquire(p)
  PROVE  IInv'
  <1> DEFINE s == Site(p)  loaded == driver[job[p].driver]
  <1>1. pc[p] = "acquire" /\ ~Holds(p) /\ UNCHANGED <<tables, file, stack, stale>>
    BY DEF Acquire, At, Holds
  <1>2. /\ job[p] \in Job /\ Fits("acquire", job[p]) /\ s \in Hosts
        /\ AskInv(p) /\ job[p].op = "create"
    BY <1>1, ProcFacts DEF IInv, Fits
  <1>3. loaded \in Files \cup {None} /\ job[p].driver \in Ids
    BY <1>1, <1>2 DEF AskInv, IInv, DataInv
  <1>4. CASE Goto(p, "idle") /\ job' = [job EXCEPT ![p] = Idle] /\ UNCHANGED <<lock, raced>>
    <2>1. ProcInv' /\ Others(p) /\ OtherJobs(p) /\ pc'[p] = "idle" /\ job'[p] = Idle
      BY <1>1, <1>4, EndProc DEF IInv
    <2>2. UNCHANGED <<sites, claim, file, driver, project, mixed, stale>>
      BY <1>1 DEF tables, stack
    <2>3. Starts(p)
      BY <1>1, <2>1 DEF Starts, SiteLabels, Made, Idle
    <2>4. AliasInv' /\ IdInv'
      BY <1>4, <2>1, <2>2, <2>3, ClaimsStart DEF Others
    <2>5. SiteInv(p)' /\ AskInv(p)'
      BY <2>1 DEF SiteInv, AskInv
    <2>6. pc[p] \notin RowLabels /\ pc'[p] \notin RowLabels /\ raced' \subseteq SUBSET Hosts
      BY <1>1, <1>4, <2>1 DEF RowLabels, SiteLabels, IInv, DataInv
    <2>7. QED
      BY <2>1, <2>2, <2>4, <2>5, <2>6, <1>1, SilentStep
  <1>5. CASE s \notin lock /\ lock' = lock \cup {s} /\ Race(s) /\ loaded = None /\ Goto(p, "done") /\ Forget(p)
    <2> DEFINE j == [job[p] EXCEPT !.driver = None, !.asked = None, !.file = None]
    <2>1. j \in Job /\ j.op = "create" /\ j.site = s /\ j.host = Host(p) /\ j.driver = None
      BY <1>2 DEF Job, Site, Host
    <2>2. job' = [job EXCEPT ![p] = j]
      BY <1>5 DEF Forget, IInv, ProcInv
    <2>3. "done" \in Labels /\ Fits("done", j)
      BY <1>2, <2>1 DEF Labels, Fits, Creates, Adds, Drops, Removes, Site, Host
    <2> HIDE DEF j
    <2>4. QED
      BY <1>1, <1>2, <1>5, <2>1, <2>2, <2>3, RaceFacts, TakeLock
  <1>6. CASE /\ s \notin lock /\ lock' = lock \cup {s} /\ Race(s)
             /\ loaded # None /\ Goto(p, "checkAlias") /\ job' = [job EXCEPT ![p].file = loaded]
    <2> DEFINE j == [job[p] EXCEPT !.file = loaded]
    <2>1. /\ j \in Job /\ j.op = "create" /\ j.site = s /\ j.host = Host(p)
          /\ j.driver = job[p].driver /\ j.asked = job[p].asked /\ j.file = loaded
      BY <1>2, <1>3 DEF Job, Site, Host
    <2>2. job' = [job EXCEPT ![p] = j]
      BY <1>6 DEF IInv, ProcInv
    <2>3. "checkAlias" \in Labels /\ Fits("checkAlias", j)
      BY <1>2, <2>1 DEF Labels, Fits, Creates, Adds, Drops, Removes, Site, Host
    <2>4. (j.asked = None \/ j.asked = j.file) /\ driver[j.driver] # None
      BY <1>1, <1>2, <1>6, <2>1 DEF AskInv
    <2>5. j.file # None
      BY <1>6, <2>1
    <2> HIDE DEF j
    <2>6. QED
      BY <1>1, <1>2, <1>6, <2>1, <2>2, <2>3, <2>4, <2>5, RaceFacts, TakeLock
  <1>7. QED
    BY <1>4, <1>5, <1>6 DEF Acquire
(* A driver is saved or deleted: no request moves, and one that waits for its site's lock *)
(* may find another file than it asked for.                                               *)
LEMMA DriverStep ==
  ASSUME IInv, NEW i \in Ids, NEW p, UNCHANGED <<tables, file, project, stale, raced>>,
         driver' \in [Ids -> Files \cup {None}], ProcInv', \A q \in Procs \ {p} : Kept(q) /\ AskInv(q)',
         p \in Procs => (Kept(p) \/ Starts(p)) /\ AskInv(p)' /\ (Kept(p) \/ (pc'[p] = "acquire" /\ pc[p] = "idle")),
         mixed \subseteq mixed', mixed' \subseteq Ids,
         \A s \in Hosts : sites[s].driver # None /\ driver[sites[s].driver] # None =>
           driver'[sites[s].driver] # None \/ Ident[s] \in mixed'
  PROVE  IInv'
  <1>1. UNCHANGED <<sites, claim, file, stale, project, raced>>
    BY DEF tables
  <1>2. AliasInv' /\ IdInv'
    BY <1>1, ClaimsStart
  <1>3. \A q \in Procs : Kept(q) \/ (pc[q] \notin RowLabels /\ pc'[q] \notin RowLabels /\ SiteInv(q)')
    BY DEF RowLabels, SiteLabels, SiteInv
  <1>4. (\A q \in Procs : SiteInv(q)') /\ \A s \in Hosts : RowInv(s)' /\ RouteInv(s)'
    BY <1>1, <1>3, SiteQuiet
  <1>5. ASSUME NEW k \in Ids, k \notin mixed'
        PROVE  ProjectInv(k)'
    <2>1. ProjectInv(k) /\ k \notin mixed
      BY <1>5 DEF IInv
    <2>2. \A s \in Hosts : (SiteOf(k, s)' <=> SiteOf(k, s)) /\ sites'[s] = sites[s]
      BY <1>1 DEF SiteOf
    <2>3. \A s \in Hosts, q \in Procs : Site(q)' = s /\ pc'[q] = "provision" => Site(q) = s /\ pc[q] = "provision"
      BY <1>3 DEF Kept, RowLabels, SiteLabels
    <2>4. ASSUME NEW s \in Hosts, SiteOf(k, s)', sites'[s].driver # None
          PROVE  /\ driver'[sites'[s].driver] # None
                 /\ sites'[s].status = "running" =>
                      /\ project'[k] # None /\ project'[k].site = s
                      /\ sites'[s].file = None \/ sites'[s].file = project'[k].file
                 /\ (\E q \in Procs : Site(q)' = s /\ pc'[q] = "provision") => project'[k] = None
      <3>1. Ident[s] \notin mixed' /\ SiteOf(k, s) /\ sites'[s] = sites[s]
        BY <1>5, <2>2, <2>4 DEF SiteOf
      <3>2. (\E q \in Procs : Site(q)' = s /\ pc'[q] = "provision") => \E q \in Procs : Site(q) = s /\ pc[q] = "provision"
        BY <2>3
      <3>3. QED
        BY <1>1, <2>1, <2>4, <3>1, <3>2 DEF ProjectInv
    <2>5. \A s, t \in Hosts : SiteOf(k, s)' /\ SiteOf(k, t)' => s = t
      BY <2>1, <2>2 DEF ProjectInv
    <2>6. (\A s \in Hosts : Ident[s] = k => sites'[s].driver = None) => project'[k] = None
      BY <1>1, <2>1 DEF ProjectInv
    <2>7. QED
      BY <2>4, <2>5, <2>6 DEF ProjectInv
  <1>6. \A k \in Ids : ProjectInv(k)'
    BY <1>5 DEF ProjectInv
  <1>7. DataInv'
    BY <1>1 DEF IInv, DataInv
  <1>8. QED
    BY <1>2, <1>4, <1>6, <1>7 DEF IInv

(* No request moves, and no lock. *)
LEMMA KeptProc ==
  ASSUME ProcInv, pc' = pc, lock' = lock, job' \in [Procs -> Job \cup {Idle}], \A q \in Procs : Kept(q)
  PROVE  ProcInv'
  <1>1. ASSUME NEW q \in Procs
        PROVE  OpInv(q)'
    <2>1. OpInv(q) /\ Kept(q) /\ pc'[q] = pc[q]
      BY DEF ProcInv
    <2>2. CASE pc[q] = "acquire"
      <3>1. job[q].op = "create" /\ Fits("acquire", job[q])
        BY <2>1, <2>2 DEF OpInv, Fits
      <3>2. job'[q] # Idle /\ job'[q] \in Job
        BY <2>1, <3>1 DEF Kept, Idle
      <3>3. Fits("acquire", job'[q])
        BY <2>1, <3>1 DEF Fits, Kept, Site, Host, Creates, Adds, Drops, Removes
      <3>4. QED
        BY <2>1, <2>2, <3>2, <3>3 DEF OpInv
    <2>3. CASE pc[q] # "acquire"
      BY <2>1, <2>3 DEF OpInv, Kept
    <2>4. QED
      BY <2>2, <2>3
  <1>2. \A q \in Procs : Site(q)' = Site(q) /\ (Holds(q)' <=> Holds(q))
    BY DEF Kept, Holds
  <1>3. QED
    BY <1>1, <1>2 DEF ProcInv

(* What a saved driver does to a request. *)
LEMMA Asked ==
  ASSUME IInv, NEW i \in Ids, NEW f \in Files, driver' = [driver EXCEPT ![i] = f],
         UNCHANGED <<sites, mixed>>, NEW q \in Procs, pc'[q] = pc[q],
         job'[q] = [job[q] EXCEPT !.asked = IF pc[q] = "acquire" /\ job[q].driver = i THEN None ELSE job[q].asked]
  PROVE  Kept(q) /\ AskInv(q)' /\ job'[q] \in Job \cup {Idle}
  <1>1. job[q] \in Job \cup {Idle} /\ AskInv(q) /\ f # None
    BY NoneAssumption DEF IInv, ProcInv
  <1>2. pc[q] = "acquire" => job[q] \in Job
    BY ProcFacts DEF IInv
  <1>3. /\ job'[q].op = job[q].op /\ job'[q].site = job[q].site /\ job'[q].host = job[q].host
        /\ job'[q].driver = job[q].driver /\ job'[q].file = job[q].file
        /\ job'[q].asked = IF pc[q] = "acquire" /\ job[q].driver = i THEN None ELSE job[q].asked
        /\ pc[q] # "acquire" => job'[q] = job[q]
    BY <1>1 DEF Job, Idle
  <1>4. job'[q] \in Job \cup {Idle}
    BY <1>1, <1>2, <1>3 DEF Job
  <1>5. Kept(q)
    BY <1>3 DEF Kept, Site, Host
  <1>6. \A d \in Ids : driver[d] # None => driver'[d] # None
    BY <1>1 DEF IInv, DataInv
  <1>7. pc[q] = "acquire" => AskInv(q)'
    BY <1>1, <1>3, <1>6 DEF AskInv, IInv, DataInv
  <1>8. ASSUME pc[q] # "acquire"
        PROVE  AskInv(q)'
    <2>1. pc[q] # "idle" => job[q].driver \in Ids \cup {None}
      BY ProcFacts DEF IInv
    <2>2. job'[q] = job[q] /\ Site(q)' = Site(q)
      BY <1>3, <1>8 DEF Site
    <2>3. pc[q] # "idle" /\ job[q].driver # None /\ driver[job[q].driver] # None => driver'[job[q].driver] # None
      BY <1>6, <2>1
    <2>4. QED
      BY <1>1, <1>8, <2>2, <2>3 DEF AskInv
  <1>9. QED
    BY <1>4, <1>5, <1>7, <1>8

LEMMA DriverSaved ==
  ASSUME IInv, NEW i \in Ids, NEW f \in Files, SaveDriver(i, f)
  PROVE  IInv'
  <1>1. /\ driver' = [driver EXCEPT ![i] = f]
        /\ UNCHANGED <<lock, tables, file, project, mixed, pc, stale, raced>>
        /\ job' = [q \in Procs |-> [job[q] EXCEPT !.asked = IF pc[q] = "acquire" /\ job[q].driver = i THEN None ELSE job[q].asked]]
    BY DEF SaveDriver, Save
  <1>2. UNCHANGED <<sites, mixed>>
    BY <1>1 DEF tables
  <1>3. \A q \in Procs : Kept(q) /\ AskInv(q)' /\ job'[q] \in Job \cup {Idle}
    BY <1>1, <1>2, Asked
  <1>4. ProcInv'
    BY <1>1, <1>3, KeptProc DEF IInv
  <1>5. driver' \in [Ids -> Files \cup {None}] /\ mixed' \subseteq Ids
    BY <1>1 DEF IInv, DataInv
  <1>6. \A s \in Hosts : sites[s].driver # None /\ driver[sites[s].driver] # None => driver'[sites[s].driver] # None
    <2>1. \A d : driver[d] # None => driver'[d] # None
      BY <1>1, NoneAssumption DEF IInv, DataInv
    <2>2. QED
      BY <2>1
  <1>7. QED
    BY <1>1, <1>3, <1>4, <1>5, <1>6, DriverStep

LEMMA DriverDeleted ==
  ASSUME IInv, NEW i \in Ids, DeleteDriver(i)
  PROVE  IInv'
  <1>1. /\ driver' = [driver EXCEPT ![i] = None]
        /\ UNCHANGED <<lock, tables, file, project, pc, job, stale, raced>>
        /\ mixed' = mixed \cup {Ident[s] : s \in {s \in Hosts : sites[s].driver = i}}
                          \cup {Ident[Site(q)] : q \in {q \in Procs : job[q].driver = i}}
    BY DEF DeleteDriver
  <1>2. sites' = sites /\ i # None
    BY <1>1, NoneAssumption DEF tables, Ids
  <1>3. \A q \in Procs : Kept(q) /\ job'[q] \in Job \cup {Idle}
    BY <1>1 DEF Kept, Site, Host, IInv, ProcInv
  <1>4. ProcInv'
    BY <1>1, <1>3, KeptProc DEF IInv, ProcInv
  <1>5. driver' \in [Ids -> Files \cup {None}] /\ \A d \in Ids \ {i} : driver'[d] = driver[d]
    BY <1>1 DEF IInv, DataInv
  <1>6. mixed' \subseteq Ids /\ mixed \subseteq mixed'
    <2>1. \A s \in Hosts : sites[s].driver = i => Ident[s] \in Ids
      BY <1>2 DEF IInv, DataInv, Ids
    <2>2. \A q \in Procs : job[q].driver = i => Ident[Site(q)] \in Ids
      BY <1>2 DEF IInv, ProcInv, OpInv, Fits, Ids, Idle, Site
    <2>3. QED
      BY <1>1, <2>1, <2>2 DEF IInv, DataInv
  <1>7. \A s \in Hosts : sites[s].driver # None /\ driver[sites[s].driver] # None =>
          driver'[sites[s].driver] # None \/ Ident[s] \in mixed'
    <2>1. \A d : d # i => driver'[d] = driver[d]
      BY <1>1 DEF IInv, DataInv
    <2>2. QED
      BY <1>1, <2>1
  <1>8. ASSUME NEW q \in Procs
        PROVE  AskInv(q)'
    <2>1. AskInv(q) /\ job'[q] = job[q] /\ pc'[q] = pc[q] /\ Site(q)' = Site(q)
      BY <1>1 DEF IInv, Site
    <2>2. pc[q] # "idle" => job[q].driver \in Ids \cup {None}
      BY ProcFacts DEF IInv
    <2>3. job[q].driver = i => Ident[Site(q)] \in mixed'
      BY <1>1
    <2>4. driver'[i] = None
      BY <1>1 DEF IInv, DataInv
    <2>5. QED
      BY <1>2, <1>5, <1>6, <2>1, <2>2, <2>3, <2>4 DEF AskInv
  <1>9. QED
    BY <1>1, <1>3, <1>4, <1>5, <1>6, <1>7, <1>8, DriverStep

LEMMA ComposeBegins ==
  ASSUME IInv, NEW p \in Procs, NEW s \in Stacks, NEW f \in Files, BeginCompose(p, s, f)
  PROVE  IInv'
  <1> DEFINE j == [Idle EXCEPT !.op = "create", !.site = s, !.host = s, !.driver = Ident[s], !.asked = f]
             js == [job EXCEPT ![p] = j]
             i == Ident[s]
  <1>1. s \in Hosts /\ i \in Ids /\ pc[p] = "idle" /\ f # None
    BY WantedAssumption, NoneAssumption DEF BeginCompose, At, Ids
  <1>2. /\ driver' = [driver EXCEPT ![i] = f] /\ Goto(p, "acquire")
        /\ UNCHANGED <<lock, tables, file, project, mixed, stale, raced>>
        /\ job' = [q \in Procs |-> [js[q] EXCEPT !.asked = IF pc[q] = "acquire" /\ js[q].driver = i THEN None ELSE js[q].asked]]
    BY DEF BeginCompose, Save
  <1>3. /\ j \in Job /\ j.op = "create" /\ j.site = s /\ j.host = s /\ j.driver = i /\ j.asked = f
    BY <1>1 DEF Job, Idle
  <1>4. js[p] = j /\ \A q \in Procs \ {p} : js[q] = job[q]
    BY DEF IInv, ProcInv
  <1>5. sites' = sites /\ pc' = [pc EXCEPT ![p] = "acquire"] /\ \A q \in Procs \ {p} : pc'[q] = pc[q]
    BY <1>2 DEF tables, Goto, IInv, ProcInv
  <1>6. \A q \in Procs \ {p} : Kept(q) /\ AskInv(q)' /\ job'[q] \in Job \cup {Idle}
    <2> SUFFICES ASSUME NEW q \in Procs \ {p}
                 PROVE  Kept(q) /\ AskInv(q)' /\ job'[q] \in Job \cup {Idle}
      OBVIOUS
    <2>1. job'[q] = [job[q] EXCEPT !.asked = IF pc[q] = "acquire" /\ job[q].driver = i THEN None ELSE job[q].asked]
      BY <1>2, <1>4
    <2> HIDE DEF i
    <2>2. QED
      BY <1>1, <1>2, <1>5, <2>1, Asked
  <1>7. job'[p] = j
    <2>1. job'[p] = [j EXCEPT !.asked = j.asked]
      BY <1>1, <1>2, <1>4
    <2>2. QED
      BY <2>1
  <1>8. job' \in [Procs -> Job \cup {Idle}]
    BY <1>2, <1>3, <1>6, <1>7
  <1>9. driver' \in [Ids -> Files \cup {None}] /\ driver'[i] = f /\ mixed' \subseteq Ids
    BY <1>1, <1>2 DEF IInv, DataInv
  <1>10. \A d : driver[d] # None => driver'[d] # None
    BY <1>1, <1>2 DEF IInv, DataInv
  <1> HIDE DEF j, js
  <1>11. ProcInv' /\ pc'[p] = "acquire"
    <2>1. "acquire" \in Labels /\ Unlocked("acquire") /\ ~Holds(p) /\ Others(p) /\ lock' = lock
      BY <1>1, <1>2, <1>6 DEF Labels, Unlocked, Holds, Others
    <2>2. j # Idle /\ Fits("acquire", j)
      BY <1>1, <1>3 DEF Fits, Idle, Adds, Drops, Removes
    <2>3. QED
      BY <1>3, <1>5, <1>7, <1>8, <2>1, <2>2, ProcStep DEF IInv
  <1>12. AskInv(p)'
    BY <1>1, <1>3, <1>7, <1>9, <1>11 DEF AskInv
  <1>13. Starts(p)
    BY <1>1, <1>3, <1>7, <1>11 DEF Starts, Holds, SiteLabels, Made
  <1>14. QED
    BY <1>1, <1>2, <1>6, <1>9, <1>10, <1>11, <1>12, <1>13, DriverStep
---------------------------------------------------------------------------------
(* The checks, and the end. *)

Inner(p) == /\ Others(p) /\ OtherJobs(p) /\ Holds(p) /\ Holds(p)'
            /\ Site(p)' = Site(p) /\ Host(p)' = Host(p) /\ job'[p].op = job[p].op

LEMMA InnerSilent ==
  ASSUME IInv, ProcInv', NEW p \in Procs, Inner(p), UNCHANGED <<tables, file, stack, stale, raced>>,
         pc[p] \notin RowLabels, pc'[p] \notin RowLabels, SiteInv(p)', AskInv(p)',
         pc'[p] = "checkIds" => claim[Site(p)] \in {Free, Site(p)},
         pc'[p] = "insert" => pc[p] = "checkIds" /\ ~Sharing(Site(p))
  PROVE  IInv'
  <1>1. UNCHANGED <<sites, claim, file, driver, project, mixed, stale, raced>>
    BY DEF tables, stack
  <1>2. Within(p)
    BY <1>1, InnerFacts DEF Inner
  <1>3. pc'[p] \notin {"provision", "register", "addRoute", "addUndo"} /\ pc[p] # "register"
    BY DEF RowLabels, SiteLabels
  <1>4. AliasInv'
    BY <1>1, <1>2, <1>3, AliasWithin
  <1>5. IdInv'
    BY <1>1, <1>2, IdWithin
  <1>6. raced' \subseteq SUBSET Hosts
    BY <1>1 DEF IInv, DataInv
  <1>7. QED
    BY <1>1, <1>4, <1>5, <1>6, SilentStep DEF Inner

LEMMA CheckAliasStep ==
  ASSUME IInv, NEW p \in Procs, CheckAlias(p)
  PROVE  IInv'
  <1>1. pc[p] = "checkAlias" /\ UNCHANGED <<lock, tables, file, stack, stale, raced>>
    BY DEF CheckAlias, At
  <1>2. "checkIds" \in Labels /\ "done" \in Labels /\ Alike("checkAlias", "checkIds") /\ Alike("checkAlias", "done")
    BY DEF Labels, Alike, Creates
  <1>3. ProcInv' /\ Inner(p) /\ (pc'[p] = "done" \/ (pc'[p] = "checkIds" /\ job'[p] = job[p] /\ claim[Site(p)] \in {Free, Site(p)}))
    <2>1. CASE claim[Site(p)] \in {Free, Site(p)} /\ Goto(p, "checkIds") /\ UNCHANGED job
      BY <1>1, <1>2, <2>1, GotoSame DEF IInv, Inner
    <2>2. CASE Goto(p, "done") /\ Forget(p)
      BY <1>1, <1>2, <2>2, GotoForget DEF IInv, Inner
    <2>3. QED
      BY <2>1, <2>2 DEF CheckAlias
  <1>4. SiteInv(p)' /\ AskInv(p)'
    BY <1>1, <1>3 DEF SiteInv, AskInv, IInv, Inner, stack
  <1>5. QED
    BY <1>1, <1>3, <1>4, InnerSilent DEF RowLabels, SiteLabels

LEMMA CheckIdsStep ==
  ASSUME IInv, NEW p \in Procs, CheckIds(p)
  PROVE  IInv'
  <1>1. pc[p] = "checkIds" /\ UNCHANGED <<lock, tables, file, stack, stale, raced>>
    BY DEF CheckIds, At
  <1>2. "insert" \in Labels /\ "done" \in Labels /\ Alike("checkIds", "insert") /\ Alike("checkIds", "done")
    BY DEF Labels, Alike, Creates
  <1>3. ProcInv' /\ Inner(p) /\ (pc'[p] = "done" \/ (pc'[p] = "insert" /\ job'[p] = job[p] /\ ~Sharing(Site(p))))
    <2>1. CASE ~Sharing(Site(p)) /\ Goto(p, "insert") /\ UNCHANGED job
      BY <1>1, <1>2, <2>1, GotoSame DEF IInv, Inner
    <2>2. CASE Goto(p, "done") /\ Forget(p)
      BY <1>1, <1>2, <2>2, GotoForget DEF IInv, Inner
    <2>3. QED
      BY <2>1, <2>2 DEF CheckIds
  <1>4. SiteInv(p)' /\ AskInv(p)'
    BY <1>1, <1>3 DEF SiteInv, AskInv, IInv, Inner, stack
  <1>5. QED
    BY <1>1, <1>3, <1>4, InnerSilent DEF RowLabels, SiteLabels

LEMMA AddCheckStep ==
  ASSUME IInv, NEW p \in Procs, AddCheck(p)
  PROVE  IInv'
  <1>1. pc[p] = "addCheck" /\ UNCHANGED <<lock, tables, file, job, stack, stale, raced>>
    BY DEF AddCheck, At
  <1>2. "addRow" \in Labels /\ "done" \in Labels /\ Alike("addCheck", "addRow") /\ Alike("addCheck", "done")
    BY DEF Labels, Alike, Adds
  <1>3. ProcInv' /\ Inner(p) /\ (pc'[p] = "done" \/ (pc'[p] = "addRow" /\ sites[Site(p)] # NoSite))
    <2>1. CASE sites[Site(p)] # NoSite /\ Goto(p, "addRow")
      BY <1>1, <1>2, <2>1, GotoSame DEF IInv, Inner
    <2>2. CASE Goto(p, "done")
      BY <1>1, <1>2, <2>2, GotoSame DEF IInv, Inner
    <2>3. QED
      BY <2>1, <2>2 DEF AddCheck
  <1>4. SiteInv(p)' /\ AskInv(p)'
    BY <1>1, <1>3 DEF SiteInv, AskInv, Inner, tables
  <1>5. QED
    BY <1>1, <1>3, <1>4, InnerSilent DEF RowLabels, SiteLabels

(* A request that is refused, or that stops. *)
LEMMA StopStep ==
  ASSUME IInv, NEW p \in Procs, pc[p] \in {"insert", "addRow", "dropSite", "removeRow"}, Goto(p, "done"),
         UNCHANGED job \/ Forget(p), UNCHANGED <<lock, tables, file, stack, stale, raced>>
  PROVE  IInv'
  <1>1. "done" \in Labels /\ Alike(pc[p], "done")
    BY DEF Labels, Alike, Creates, Adds, Drops, Removes
  <1>2. ProcInv' /\ Inner(p) /\ pc'[p] = "done"
    <2>1. CASE UNCHANGED job
      BY <1>1, <2>1, GotoSame DEF IInv, Inner
    <2>2. CASE Forget(p)
      BY <1>1, <2>2, GotoForget DEF IInv, Inner
    <2>3. QED
      BY <2>1, <2>2
  <1>3. SiteInv(p)' /\ AskInv(p)'
    BY <1>2 DEF SiteInv, AskInv
  <1>4. QED
    BY <1>2, <1>3, InnerSilent DEF RowLabels, SiteLabels

LEMMA EndStep ==
  ASSUME IInv, NEW p \in Procs, End(p)
  PROVE  IInv'
  <1>1. /\ pc[p] = "done" /\ Holds(p) /\ UNCHANGED <<tables, file, stale, driver, project>>
        /\ job' = [job EXCEPT ![p] = Idle] /\ Goto(p, "idle") /\ lock' = lock \ {Site(p)}
        /\ raced' = {r \in raced : Site(p) \in r =>
                       sites[Site(p)] # NoSite /\ (r = {Site(p)} => claim[Site(p)] # Site(p))}
        /\ mixed' = {i \in mixed : project[i] # None \/ \E t \in Hosts : Ident[t] = i /\ (sites[t] # NoSite
                       \/ \E q \in Procs \ {p} : job[q].op = "create" /\ Site(q) = t)}
    BY DEF End, At, Holds
  <1>2. ProcInv' /\ Others(p) /\ OtherJobs(p) /\ pc'[p] = "idle" /\ job'[p] = Idle
    BY <1>1, EndProc DEF IInv
  <1>3. UNCHANGED <<sites, claim>>
    BY <1>1 DEF tables
  <1>4. AliasInv' /\ IdInv'
    BY <1>1, <1>2, <1>3, ClaimsEnd DEF At
  <1>5. raced' \subseteq SUBSET Hosts /\ mixed' \subseteq mixed
    BY <1>1 DEF IInv, DataInv
  <1>6. ASSUME NEW q \in Procs \ {p}, job[q].op = "create", Ident[Site(q)] \in mixed
        PROVE  Ident[Site(q)] \in mixed'
    <2>1. Site(q) \in Hosts
      BY <1>6, ProcFacts DEF IInv, ProcInv, OpInv, Idle
    <2>2. QED
      BY <1>1, <1>6, <2>1
  <1>7. \A i \in mixed \ mixed' : project[i] = None /\ \A s \in Hosts : Ident[s] = i => sites[s] = NoSite
    BY <1>1
  <1>8. SiteInv(p)' /\ AskInv(p)'
    BY <1>2 DEF SiteInv, AskInv
  <1>9. QED
    BY <1>1, <1>2, <1>4, <1>5, <1>6, <1>7, <1>8, SilentStep DEF RowLabels, SiteLabels

---------------------------------------------------------------------------------
(* AddDomain and RemoveDomain. *)

LEMMA InnerLocal ==
  ASSUME IInv, NEW p \in Procs, Inner(p), raced' = raced
  PROVE  /\ Within(p) /\ Site(p) \in Hosts /\ Host(p) \in Hosts /\ Site(p) # Free /\ Host(p) # Free
         /\ SiteInv(p) /\ AskInv(p) /\ RowInv(Site(p)) /\ RouteInv(Site(p)) /\ Fits(pc[p], job[p])
         /\ (/\ \A t \in Hosts \ {Site(p)} : sites'[t] = sites[t] /\ file'[t] = file[t] /\ (t \in stale' <=> t \in stale)
             /\ \A h \in Hosts : claim'[h] = claim[h] \/ {claim[h], claim'[h]} \subseteq {Free, Site(p)})
            => Local(p, Site(p))
  BY InnerFacts DEF Inner, Local

LEMMA AddRowStep ==
  ASSUME IInv, NEW p \in Procs, AddRow(p)
  PROVE  IInv'
  <1>1. pc[p] = "addRow" /\ UNCHANGED <<lock, sites, file, job, stack, stale, raced>>
    BY DEF AddRow, At
  <1>0. PICK s \in Hosts, h \in Hosts : s = Site(p) /\ h = Host(p)
    BY <1>1, ProcFacts DEF IInv
  <1>2. CASE Goto(p, "done") /\ UNCHANGED claim
    BY <1>1, <1>2, StopStep DEF tables
  <1>3. CASE claim[h] = Free /\ Goto(p, "addRoute") /\ claim' = [claim EXCEPT ![h] = s]
    <2>1. "addRoute" \in Labels /\ Alike("addRow", "addRoute")
      BY DEF Labels, Alike, Adds
    <2>2. ProcInv' /\ Inner(p) /\ pc'[p] = "addRoute"
      BY <1>0, <1>1, <1>3, <2>1, GotoSame DEF IInv, Inner
    <2>3. /\ s \in Hosts /\ h \in Hosts /\ s # Free /\ claim \in [Hosts -> Hosts \cup {Free}]
          /\ sites[s] # NoSite
      BY <1>0, <1>1, <2>2, InnerLocal DEF IInv, DataInv, SiteInv
    <2>4. \A g \in Hosts : claim'[g] = IF g = h THEN s ELSE claim[g]
      BY <1>3, <2>3
    <2>5. Local(p, s) /\ Within(p) /\ Holds(p) /\ Holds(p)'
      BY <1>0, <1>1, <1>3, <2>2, <2>3, <2>4, InnerLocal DEF Inner
    <2>6. /\ Fresh(s) = {} /\ ~Rewriting(s) /\ Fresh(s)' = {h} /\ sites[s].status # "creating"
      BY <1>0, <1>1, <2>2, <2>3, <2>5, OwnFacts DEF Inner
    <2>7. SiteInv(p)'
      BY <1>0, <1>1, <2>2, <2>3, <2>4 DEF SiteInv, Inner
    <2>8. RowInv(s)'
      BY <1>0, <1>1, <2>3, <2>6 DEF RowInv
    <2>9. RouteInv(s)'
      <3>1. s \in stale \/ file[s] = Aliases(s)
        BY <1>0, <1>1, <2>2, <2>6, InnerLocal DEF RouteInv
      <3>2. Aliases(s)' \ {h} = Aliases(s)
        BY <1>3, <2>3, <2>4 DEF Aliases, Rows
      <3>3. QED
        BY <1>0, <1>1, <2>6, <3>1, <3>2 DEF RouteInv
    <2>10. IdInv'
      BY <1>0, <1>1, <2>2, <2>5, IdWithin
    <2>11. AliasInv'
      <3>1. job[p].op = "add"
        BY <1>0, <1>1, <2>2, InnerLocal DEF Fits, Adds
      <3>2. sites[s].status = "running"
        BY <2>3, <2>6 DEF IInv, DataInv, Row
      <3>3. QED
        BY <1>0, <1>1, <1>3, <2>2, <2>4, <2>5, <3>1, <3>2, AliasWithin
    <2>12. claim' \in [Hosts -> Hosts \cup {Free}] /\ file' \in [Hosts -> SUBSET Hosts] /\ stale' \subseteq Hosts
      BY <1>0, <1>1, <1>3, <2>3 DEF IInv, DataInv
    <2>13. QED
      BY <1>0, <1>1, <2>2, <2>3, <2>5, <2>7, <2>8, <2>9, <2>10, <2>11, <2>12, RouteStep DEF Inner
  <1>4. QED
    BY <1>0, <1>2, <1>3 DEF AddRow
LEMMA AddRouteStep ==
  ASSUME IInv, NEW p \in Procs, AddRoute(p)
  PROVE  IInv'
  <1>1. pc[p] = "addRoute" /\ UNCHANGED <<lock, sites, claim, job, stack, raced>>
    BY DEF AddRoute, At, tables
  <1>2. PICK s \in Hosts, h \in Hosts : s = Site(p) /\ h = Host(p)
    BY <1>1, ProcFacts DEF IInv
  <1>3. PICK l \in {"done", "addUndo"} :
          /\ Goto(p, l)
          /\ l = "done" => file' = [file EXCEPT ![s] = Aliases(s)] /\ stale' = stale \ {s}
          /\ l = "addUndo" => UNCHANGED <<file, stale>>
    BY <1>2 DEF AddRoute, Route
  <1>4. l \in Labels /\ Alike("addRoute", l)
    BY DEF Labels, Alike, Adds
  <1>5. ProcInv' /\ Inner(p) /\ pc'[p] = l
    BY <1>1, <1>3, <1>4, GotoSame DEF IInv, Inner
  <1>6. /\ Within(p) /\ Local(p, s) /\ Holds(p) /\ Holds(p)'
        /\ sites[s] # NoSite /\ claim[h] = s /\ s # Free
    BY <1>1, <1>2, <1>3, <1>5, InnerLocal DEF Inner, IInv, DataInv, SiteInv
  <1>7. Fresh(s) = {h} /\ ~Rewriting(s) /\ Fresh(s)' = IF l = "addUndo" THEN {h} ELSE {}
    BY <1>1, <1>2, <1>5, <1>6, OwnFacts DEF Inner
  <1>8. SiteInv(p)' /\ RowInv(s)'
    <2>1. SiteInv(p)'
      BY <1>1, <1>2, <1>5, <1>6 DEF SiteInv, Inner
    <2>2. sites[s].status # "creating"
      BY <1>1, <1>5, <1>6, OwnFacts
    <2>3. QED
      BY <1>1, <1>6, <2>1, <2>2 DEF RowInv
  <1>9. Aliases(s) \subseteq Hosts
    BY DEF Aliases, Rows
  <1>10. RouteInv(s)'
    <2>1. Aliases(s)' = Aliases(s)
      BY <1>1 DEF Aliases, Rows
    <2>2. RouteInv(s)
      BY DEF IInv
    <2>3. QED
      BY <1>3, <1>7, <2>1, <2>2 DEF RouteInv, IInv, DataInv
  <1>11. IdInv'
    BY <1>1, <1>5, <1>6, IdWithin
  <1>12. AliasInv'
    BY <1>1, <1>5, <1>6, AliasWithin
  <1>13. /\ claim' \in [Hosts -> Hosts \cup {Free}] /\ file' \in [Hosts -> SUBSET Hosts] /\ stale' \subseteq Hosts
    BY <1>1, <1>3, <1>9 DEF IInv, DataInv
  <1>14. QED
    BY <1>1, <1>5, <1>6, <1>8, <1>10, <1>11, <1>12, <1>13, RouteStep DEF Inner

LEMMA AddUndoStep ==
  ASSUME IInv, NEW p \in Procs, AddUndo(p)
  PROVE  IInv'
  <1>1. /\ pc[p] = "addUndo" /\ UNCHANGED <<lock, sites, file, job, stack, stale, raced>>
        /\ Goto(p, "done") /\ "done" \in Labels /\ Alike("addUndo", "done")
    BY DEF AddUndo, At, Labels, Alike, Adds
  <1>2. PICK s \in Hosts, h \in Hosts : s = Site(p) /\ h = Host(p)
    BY <1>1, ProcFacts DEF IInv
  <1>3. claim' = [claim EXCEPT ![h] = Free] /\ claim \in [Hosts -> Hosts \cup {Free}]
    BY <1>2 DEF AddUndo, IInv, DataInv
  <1>4. ProcInv' /\ Inner(p) /\ pc'[p] = "done"
    BY <1>1, GotoSame DEF IInv, Inner
  <1>5. /\ Within(p) /\ Holds(p) /\ Holds(p)' /\ sites[s] # NoSite /\ claim[h] = s /\ s # Free
    BY <1>1, <1>2, <1>4, InnerLocal DEF Inner, SiteInv
  <1>6. \A g \in Hosts : claim'[g] = IF g = h THEN Free ELSE claim[g]
    BY <1>3
  <1>7. Local(p, s)
    BY <1>1, <1>2, <1>4, <1>5, <1>6, InnerLocal
  <1>8. Fresh(s) = {h} /\ ~Rewriting(s) /\ Fresh(s)' = {} /\ sites[s].status # "creating"
    BY <1>1, <1>2, <1>4, <1>5, <1>7, OwnFacts
  <1>9. SiteInv(p)' /\ RowInv(s)'
    BY <1>1, <1>4, <1>5, <1>8 DEF SiteInv, RowInv
  <1>10. RouteInv(s)'
    <2>1. Aliases(s)' = Aliases(s) \ {h}
      BY <1>5, <1>6 DEF Aliases, Rows
    <2>2. RouteInv(s)
      BY DEF IInv
    <2>3. QED
      BY <1>1, <1>8, <2>1, <2>2 DEF RouteInv
  <1>11. IdInv'
    BY <1>1, <1>4, <1>5, IdWithin
  <1>12. AliasInv'
    <2>1. h = s => {s} \in raced
      BY <1>1, <1>2 DEF IInv, AliasInv
    <2>2. QED
      BY <1>1, <1>4, <1>5, <1>6, <2>1, AliasWithin
  <1>13. /\ claim' \in [Hosts -> Hosts \cup {Free}] /\ file' \in [Hosts -> SUBSET Hosts] /\ stale' \subseteq Hosts
    BY <1>1, <1>3 DEF IInv, DataInv
  <1>14. QED
    BY <1>1, <1>4, <1>7, <1>9, <1>10, <1>11, <1>12, <1>13, RouteStep DEF Inner

LEMMA RemoveRowStep ==
  ASSUME IInv, NEW p \in Procs, RemoveRow(p)
  PROVE  IInv'
  <1>1. /\ pc[p] = "removeRow" /\ UNCHANGED <<lock, sites, file, job, stack, stale, raced>>
        /\ "removeRoute" \in Labels /\ Alike("removeRow", "removeRoute")
    BY DEF RemoveRow, At, Labels, Alike, Removes
  <1>2. PICK s \in Hosts, h \in Hosts : s = Site(p) /\ h = Host(p)
    BY <1>1, ProcFacts DEF IInv
  <1>3. CASE Goto(p, "done") /\ UNCHANGED claim
    BY <1>1, <1>3, StopStep DEF tables
  <1>4. CASE h # s /\ claim[h] = s /\ claim' = [claim EXCEPT ![h] = Free] /\ Goto(p, "removeRoute")
    <2>1. ProcInv' /\ Inner(p) /\ pc'[p] = "removeRoute"
      BY <1>1, <1>4, GotoSame DEF IInv, Inner
    <2>2. Within(p) /\ Holds(p) /\ Holds(p)' /\ s # Free /\ claim \in [Hosts -> Hosts \cup {Free}]
      BY <1>2, <2>1, <1>1, InnerLocal DEF Inner, IInv, DataInv
    <2>3. \A g \in Hosts : claim'[g] = IF g = h THEN Free ELSE claim[g]
      BY <1>4, <2>2
    <2>4. Local(p, s)
      BY <1>1, <1>2, <1>4, <2>1, <2>2, <2>3, InnerLocal
    <2>5. Rewriting(s)' /\ sites[s].status # "creating"
      BY <1>1, <2>1, <2>2, <2>4, OwnFacts
    <2>6. SiteInv(p)' /\ RouteInv(s)'
      BY <2>1, <2>5 DEF SiteInv, RouteInv
    <2>7. RowInv(s)'
      <3>1. RowInv(s)
        BY DEF IInv
      <3>2. QED
        BY <1>1, <2>2, <2>3, <2>5, <3>1 DEF RowInv
    <2>8. IdInv' /\ AliasInv'
      BY <1>1, <1>4, <2>1, <2>2, <2>3, IdWithin, AliasWithin
    <2>9. /\ claim' \in [Hosts -> Hosts \cup {Free}] /\ file' \in [Hosts -> SUBSET Hosts] /\ stale' \subseteq Hosts
      BY <1>1, <1>4, <2>2 DEF IInv, DataInv
    <2>10. QED
      BY <1>1, <2>1, <2>4, <2>6, <2>7, <2>8, <2>9, RouteStep DEF Inner
  <1>5. QED
    BY <1>2, <1>3, <1>4 DEF RemoveRow

LEMMA RemoveRouteStep ==
  ASSUME IInv, NEW p \in Procs, RemoveRoute(p)
  PROVE  IInv'
  <1>1. /\ pc[p] = "removeRoute" /\ UNCHANGED <<lock, sites, claim, job, stack, raced>> /\ Goto(p, "done")
        /\ "done" \in Labels /\ Alike("removeRoute", "done")
    BY DEF RemoveRoute, At, tables, Labels, Alike, Removes
  <1>2. PICK s \in Hosts : s = Site(p)
    BY <1>1, ProcFacts DEF IInv
  <1>3. \/ file' = [file EXCEPT ![s] = Aliases(s)] /\ stale' = stale \ {s}
        \/ stale' = stale \cup {s} /\ file' = file
    BY <1>2 DEF RemoveRoute, Route
  <1>4. ProcInv' /\ Inner(p) /\ pc'[p] = "done"
    BY <1>1, GotoSame DEF IInv, Inner
  <1>5. Within(p) /\ Local(p, s) /\ Holds(p) /\ Holds(p)'
    BY <1>1, <1>2, <1>3, <1>4, InnerLocal DEF Inner, IInv, DataInv
  <1>6. Fresh(s)' = {} /\ sites[s].status # "creating" /\ RowInv(s)
    BY <1>1, <1>4, <1>5, OwnFacts DEF IInv
  <1>7. SiteInv(p)' /\ RowInv(s)'
    BY <1>1, <1>4, <1>6 DEF SiteInv, RowInv
  <1>8. Aliases(s) \subseteq Hosts
    BY DEF Aliases, Rows
  <1>9. RouteInv(s)'
    <2>1. Aliases(s)' = Aliases(s)
      BY <1>1 DEF Aliases, Rows
    <2>2. QED
      BY <1>3, <1>6, <2>1 DEF RouteInv, IInv, DataInv
  <1>10. IdInv' /\ AliasInv'
    BY <1>1, <1>4, <1>5, IdWithin, AliasWithin
  <1>11. /\ claim' \in [Hosts -> Hosts \cup {Free}] /\ file' \in [Hosts -> SUBSET Hosts] /\ stale' \subseteq Hosts
    BY <1>1, <1>3, <1>8 DEF IInv, DataInv
  <1>12. QED
    BY <1>1, <1>4, <1>5, <1>7, <1>9, <1>10, <1>11, RouteStep DEF Inner

(* The last step of a create, the row of the site's own domain. *)
LEMMA RegisterStep ==
  ASSUME IInv, NEW p \in Procs, Register(p)
  PROVE  IInv'
  <1>1. /\ pc[p] = "register" /\ UNCHANGED <<lock, sites, file, job, stack, stale, raced>> /\ Goto(p, "done")
        /\ "done" \in Labels /\ Alike("register", "done")
    BY DEF Register, At, tables, Labels, Alike, Creates
  <1>2. PICK s \in Hosts : s = Site(p)
    BY <1>1, ProcFacts DEF IInv
  <1>3. claim' = (IF claim[s] = Free THEN [claim EXCEPT ![s] = s] ELSE claim) /\ claim \in [Hosts -> Hosts \cup {Free}]
    BY <1>2 DEF Register, IInv, DataInv
  <1>4. ProcInv' /\ Inner(p) /\ pc'[p] = "done"
    BY <1>1, GotoSame DEF IInv, Inner
  <1>5. /\ Within(p) /\ Holds(p) /\ Holds(p)' /\ s # Free
        /\ sites[s] # NoSite /\ \A h \in Hosts : claim[h] # s
    BY <1>1, <1>2, <1>4, InnerLocal DEF Inner, SiteInv
  <1>6. \A g \in Hosts : claim'[g] = IF g = s /\ claim[s] = Free THEN s ELSE claim[g]
    BY <1>3
  <1>7. Local(p, s)
    BY <1>1, <1>2, <1>4, <1>5, <1>6, InnerLocal
  <1>8. Fresh(s) = {} /\ ~Rewriting(s) /\ Fresh(s)' = {} /\ sites[s].status # "creating"
    BY <1>1, <1>2, <1>4, <1>5, <1>7, OwnFacts
  <1>9. SiteInv(p)' /\ RowInv(s)'
    BY <1>1, <1>4, <1>5, <1>8 DEF SiteInv, RowInv
  <1>10. RouteInv(s)'
    <2>1. Aliases(s)' = Aliases(s)
      BY <1>5, <1>6 DEF Aliases, Rows
    <2>2. RouteInv(s)
      BY DEF IInv
    <2>3. QED
      BY <1>1, <1>8, <2>1, <2>2 DEF RouteInv
  <1>11. IdInv'
    BY <1>1, <1>4, <1>5, IdWithin
  <1>12. AliasInv'
    BY <1>1, <1>2, <1>4, <1>5, <1>6, AliasWithin
  <1>13. /\ claim' \in [Hosts -> Hosts \cup {Free}] /\ file' \in [Hosts -> SUBSET Hosts] /\ stale' \subseteq Hosts
    BY <1>1, <1>3 DEF IInv, DataInv
  <1>14. QED
    BY <1>1, <1>4, <1>7, <1>9, <1>10, <1>11, <1>12, <1>13, RouteStep DEF Inner
---------------------------------------------------------------------------------
(* Creates and destroys. *)

LEMMA InsertStep ==
  ASSUME IInv, NEW p \in Procs, Insert(p)
  PROVE  IInv'
  <1>1. /\ pc[p] = "insert" /\ UNCHANGED <<lock, claim, file, driver, project, stale, raced>>
        /\ "provision" \in Labels /\ Alike("insert", "provision")
    BY DEF Insert, At, Labels, Alike, Creates
  <1>2. PICK s \in Hosts : s = Site(p)
    BY <1>1, ProcFacts DEF IInv
  <1>3. job[p] \in Job /\ Fits(pc[p], job[p]) /\ job[p].driver \in Ids \cup {None} /\ job[p].asked \in Files \cup {None}
    BY <1>1, ProcFacts DEF IInv
  <1>4. CASE Goto(p, "done") /\ Forget(p) /\ UNCHANGED <<sites, mixed>>
    BY <1>1, <1>4, StopStep DEF tables, stack
  <1>5. CASE /\ sites[s] = NoSite /\ Goto(p, "provision")
             /\ job' = [job EXCEPT ![p].driver = None, ![p].asked = None]
             /\ sites' = [sites EXCEPT ![s] = [driver |-> job[p].driver, status |-> "creating", file |-> job[p].asked]]
             /\ mixed' = IF Sharing(s) THEN mixed \cup ({Ident[s]} \cap Ids) ELSE mixed
    <2> DEFINE j == [job[p] EXCEPT !.driver = None, !.asked = None]
               row == [driver |-> job[p].driver, status |-> "creating", file |-> job[p].asked]
    <2>1. /\ j \in Job /\ j.op = job[p].op /\ j.site = job[p].site /\ j.host = job[p].host
          /\ j.driver = None /\ j.file = job[p].file
      BY <1>3 DEF Job
    <2>2. job' = [job EXCEPT ![p] = j]
      BY <1>5 DEF IInv, ProcInv
    <2>3. /\ row \in Row /\ row.driver = job[p].driver /\ row.status = "creating" /\ row.file = job[p].asked
          /\ row # NoSite /\ NoSite.status # "running" /\ NoSite.status # "creating" /\ NoSite.driver = None
      BY <1>3 DEF Row, NoSite
    <2>4. sites' = [sites EXCEPT ![s] = row]
      BY <1>5
    <2> HIDE DEF j, row
    <2>5. ProcInv' /\ Inner(p) /\ pc'[p] = "provision" /\ job'[p] = j
      <3>1. ProcInv /\ Goto(p, "provision") /\ lock' = lock /\ Alike(pc[p], "provision")
        BY <1>1, <1>5 DEF IInv
      <3>2. QED
        BY <1>1, <2>1, <2>2, <3>1, GotoProc DEF Inner
    <2>6. /\ Within(p) /\ AskInv(p) /\ RowInv(s) /\ RouteInv(s) /\ Holds(p) /\ Holds(p)'
          /\ sites'[s] = row /\ \A t \in Hosts \ {s} : sites'[t] = sites[t]
      BY <1>1, <1>2, <2>4, <2>5, InnerLocal DEF Inner, IInv, DataInv
    <2>7. Local(p, s)
      BY <1>1, <1>2, <2>5, <2>6, InnerLocal
    <2>8. Fresh(s) = {} /\ ~Rewriting(s) /\ Fresh(s)' = {} /\ ~Rewriting(s)'
      BY <1>1, <2>5, <2>6, <2>7, OwnFacts
    <2>9. SiteInv(p)' /\ RowInv(s)' /\ RouteInv(s)'
      <3>1. Site(p)' = s
        BY <1>2, <2>5 DEF Inner
      <3>2. \A h \in Hosts : claim'[h] # s
        BY <1>1, <1>5, <2>6 DEF RowInv
      <3>3. SiteInv(p)'
        BY <2>3, <2>5, <2>6, <3>1, <3>2 DEF SiteInv
      <3>4. RowInv(s)'
        BY <2>3, <2>5, <2>6, <3>1 DEF RowInv
      <3>5. RouteInv(s)'
        BY <1>1, <2>6, <2>8 DEF RouteInv, Aliases, Rows
      <3>6. QED
        BY <3>3, <3>4, <3>5
    <2>10. job[p].driver # None => job[p].file # None /\ (driver[job[p].driver] # None \/ Ident[s] \in mixed)
      BY <1>1, <1>2, <2>6 DEF AskInv
    <2>11. AskInv(p)'
      <3>1. Site(p)' = s
        BY <1>2, <2>5 DEF Inner
      <3>2. job[p].asked = None \/ job[p].asked = job[p].file
        BY <1>1, <2>6 DEF AskInv
      <3>3. QED
        BY <2>1, <2>3, <2>5, <2>6, <2>10, <3>1, <3>2 DEF AskInv
    <2>12. IdInv' /\ AliasInv'
      <3>1. IdInv'
        BY <1>1, <1>2, <2>5, <2>6, IdWithin
      <3>2. \A t \in Hosts : sites'[t].status = "running" => sites[t].status = "running"
        BY <2>3, <2>6
      <3>3. AliasInv'
        BY <1>1, <2>5, <2>6, <3>2, AliasWithin
      <3>4. QED
        BY <3>1, <3>3
    <2>13. /\ \A i \in mixed : i \in mixed'
           /\ mixed' \subseteq Ids
           /\ \A i \in Ids : i = Ident[s] /\ i \notin mixed' => ~Sharing(s) /\ i \notin mixed
      BY <1>5 DEF IInv, DataInv
    <2>14. \A i \in Ids \ {Ident[s]} : ProjectInv(i)'
      BY <1>1, <2>7, <2>13, ProjectElsewhere
    <2>15. ASSUME NEW i \in Ids, i = Ident[s], i \notin mixed'
           PROVE  ProjectInv(i)'
      <3>1. ~Sharing(s) /\ i \notin mixed /\ ProjectInv(i)
        BY <2>13, <2>15 DEF IInv
      <3>2. \A t \in Hosts : Ident[t] = i /\ t # s => sites[t] = NoSite
        BY <2>15, <3>1 DEF Sharing
      <3>3. project[i] = None
        BY <1>5, <2>3, <3>1, <3>2 DEF ProjectInv
      <3>4. \A t \in Hosts : SiteOf(i, t)' => t = s
        BY <2>6, <3>2 DEF SiteOf
      <3>5. sites'[s].driver # None => driver'[sites'[s].driver] # None
        BY <1>1, <2>3, <2>6, <2>10, <2>15, <3>1
      <3>6. sites'[s].status # "running"
        BY <2>3, <2>6
      <3>7. project'[i] = None
        BY <1>1, <3>3
      <3>8. \A t, u \in Hosts : SiteOf(i, t)' /\ SiteOf(i, u)' => t = u
        BY <3>4
      <3>9. \A t \in Hosts : SiteOf(i, t)' /\ sites'[t].driver # None =>
              driver'[sites'[t].driver] # None /\ sites'[t].status # "running"
        BY <3>4, <3>5, <3>6
      <3>10. QED
        BY <3>7, <3>8, <3>9 DEF ProjectInv
    <2>16. \A i \in Ids : ProjectInv(i)'
      BY <2>14, <2>15 DEF ProjectInv
    <2>17. /\ sites' \in [Hosts -> Row \cup {NoSite}] /\ claim' \in [Hosts -> Hosts \cup {Free}]
           /\ project' \in [Ids -> [site : Hosts, file : Files] \cup {None}] /\ stale' \subseteq Hosts
      BY <1>1, <2>3, <2>4 DEF IInv, DataInv
    <2>18. sites'[s].driver # None => s \in Stacks
      BY <1>2, <1>3, <2>3, <2>6 DEF Fits, Site
    <2>19. QED
      BY <1>1, <2>5, <2>7, <2>9, <2>11, <2>12, <2>13, <2>16, <2>17, <2>18, TableStep DEF Inner
  <1>6. QED
    BY <1>2, <1>4, <1>5 DEF Insert

LEMMA ProvisionStep ==
  ASSUME IInv, NEW p \in Procs, Provision(p)
  PROVE  IInv'
  <1>1. /\ pc[p] = "provision" /\ UNCHANGED <<lock, claim, file, driver, mixed, stale, raced>> /\ Forget(p)
    BY DEF Provision, At
  <1>2. PICK s \in Hosts : s = Site(p)
    BY <1>1, ProcFacts DEF IInv
  <1> DEFINE one == [site |-> s, file |-> job[p].file]
             live == [sites EXCEPT ![s].status = "running"]
  <1>3. PICK l \in {"register", "rollback"} :
          /\ Goto(p, l)
          /\ l = "register" => sites' = live
          /\ l = "rollback" => sites' = sites
          /\ project' = project \/ (sites[s].driver # None /\ project' = [project EXCEPT ![Ident[s]] = one])
          /\ l = "register" /\ sites[s].driver # None => project' = [project EXCEPT ![Ident[s]] = one]
    BY <1>2 DEF Provision
  <1>4. l \in Labels /\ Alike("provision", l)
    BY DEF Labels, Alike, Creates
  <1>5. ProcInv' /\ Inner(p) /\ pc'[p] = l
    BY <1>1, <1>3, <1>4, GotoForget DEF IInv, Inner
  <1>6. /\ Within(p) /\ SiteInv(p) /\ AskInv(p) /\ RowInv(s) /\ RouteInv(s) /\ Holds(p) /\ Holds(p)'
    BY <1>1, <1>2, <1>5, InnerLocal DEF Inner
  <1>7. sites[s] \in Row /\ sites[s] # NoSite /\ sites[s].status = "creating" /\ \A h \in Hosts : claim[h] # s
    BY <1>1, <1>2, <1>6 DEF SiteInv, IInv, DataInv
  <1>8. /\ sites' \in [Hosts -> Row \cup {NoSite}]
        /\ sites'[s] # NoSite /\ sites'[s].driver = sites[s].driver /\ sites'[s].file = sites[s].file
        /\ sites'[s].status = IF l = "register" THEN "running" ELSE "creating"
        /\ \A t \in Hosts \ {s} : sites'[t] = sites[t]
    <2>1. CASE l = "rollback"
      BY <1>3, <1>7, <2>1 DEF IInv, DataInv
    <2>2. CASE l = "register"
      <3>1. [sites[s] EXCEPT !.status = "running"] \in Row
        BY <1>7 DEF Row
      <3>2. sites' = live /\ sites \in [Hosts -> Row \cup {NoSite}]
        BY <1>3, <2>2 DEF IInv, DataInv
      <3>3. sites'[s] = [sites[s] EXCEPT !.status = "running"]
        BY <3>2
      <3>4. \A t \in Hosts \ {s} : sites'[t] = sites[t]
        BY <3>2
      <3>5. /\ sites'[s].driver = sites[s].driver /\ sites'[s].file = sites[s].file
            /\ sites'[s].status = "running"
        BY <1>7, <3>3 DEF Row
      <3>6. QED
        BY <2>2, <3>1, <3>2, <3>3, <3>4, <3>5 DEF NoSite
    <2>3. QED
      BY <2>1, <2>2
  <1>9. Local(p, s)
    BY <1>1, <1>2, <1>5, <1>8, InnerLocal
  <1>10. Fresh(s) = {} /\ ~Rewriting(s) /\ Fresh(s)' = {}
    BY <1>1, <1>5, <1>6, <1>9, OwnFacts
  <1>11. SiteInv(p)' /\ RowInv(s)' /\ RouteInv(s)' /\ AskInv(p)'
    <2>1. Site(p)' = s
      BY <1>2, <1>5 DEF Inner
    <2>2. SiteInv(p)'
      BY <1>1, <1>5, <1>7, <1>8, <2>1 DEF SiteInv
    <2>3. RowInv(s)'
      BY <1>5, <1>8, <2>1 DEF RowInv
    <2>4. RouteInv(s)'
      BY <1>1, <1>6, <1>10 DEF RouteInv, Aliases, Rows
    <2>5. AskInv(p)'
      BY <1>5 DEF AskInv
    <2>6. QED
      BY <2>2, <2>3, <2>4, <2>5
  <1>12. IdInv' /\ AliasInv'
    <2>1. \A t \in Hosts : sites'[t] # NoSite => sites[t] # NoSite
      BY <1>7, <1>8
    <2>2. IdInv'
      BY <1>5, <1>6, <2>1, IdWithin
    <2>3. \A t \in Hosts : sites'[t].status = "running" => sites[t].status = "running" \/ (pc'[p] = "register" /\ Site(p) = t)
      BY <1>2, <1>5, <1>8
    <2>4. AliasInv'
      BY <1>1, <1>5, <1>6, <2>3, AliasWithin
    <2>5. QED
      BY <2>2, <2>4
  <1>13. /\ sites[s].driver # None => Ident[s] \in Ids /\ one \in [site : Hosts, file : Files]
         /\ one \in [site : Hosts, file : Files] => one # None
    <2>1. sites[s].driver # None => job[p].file \in Files
      BY <1>1, <1>2, <1>6, ProcFacts DEF AskInv, IInv
    <2>2. sites[s].driver # None => Ident[s] \in Ids
      BY DEF IInv, DataInv, Ids
    <2>3. QED
      BY <2>1, <2>2, NoneAssumption
  <1>14. /\ project' \in [Ids -> [site : Hosts, file : Files] \cup {None}]
         /\ \A i \in Ids \ {Ident[s]} : project'[i] = project[i]
    BY <1>3, <1>13 DEF IInv, DataInv
  <1>15. \A i \in Ids \ {Ident[s]} : ProjectInv(i)'
    BY <1>1, <1>9, <1>14, ProjectElsewhere
  <1>16. ASSUME NEW i \in Ids, i = Ident[s], i \notin mixed'
         PROVE  ProjectInv(i)'
    <2>1. i \notin mixed /\ ProjectInv(i) /\ SiteOf(i, s)
      BY <1>1, <1>7, <1>16 DEF IInv, SiteOf
    <2>2. \A t \in Hosts : SiteOf(i, t)' => t = s
      BY <1>8, <2>1 DEF ProjectInv, SiteOf
    <2>3. \A q \in Procs : ~(Site(q)' = s /\ pc'[q] = "provision")
      <3>1. \A q \in Procs : Site(q)' = s /\ Holds(q)' => q = p
        BY <1>2, <1>5, <1>6 DEF ProcInv, Inner
      <3>2. QED
        BY <1>5, <3>1 DEF Holds
    <2>4. sites[s].driver = None => project'[i] = project[i]
      BY <1>3
    <2>5. \A t \in Hosts : Ident[t] = i /\ t # s => sites'[t] = sites[t]
      BY <1>8
    <2>6. (\A t \in Hosts : Ident[t] = i => sites'[t].driver = None) => project'[i] = None
      BY <1>8, <1>16, <2>1, <2>4, <2>5 DEF ProjectInv
    <2>7. sites'[s].driver # None => driver'[sites'[s].driver] # None
      BY <1>1, <1>8, <2>1 DEF ProjectInv
    <2>8. ASSUME sites'[s].driver # None, sites'[s].status = "running"
          PROVE  /\ project'[i] # None /\ project'[i].site = s
                 /\ sites'[s].file = None \/ sites'[s].file = project'[i].file
      <3>1. l = "register" /\ sites[s].driver # None
        BY <1>8, <2>8
      <3>2. project'[i] = one
        BY <1>3, <1>13, <1>16, <3>1 DEF IInv, DataInv
      <3>3. sites[s].file = None \/ sites[s].file = job[p].file
        BY <1>1, <1>2, <1>6 DEF AskInv
      <3>4. QED
        BY <1>8, <1>13, <3>1, <3>2, <3>3
    <2>9. QED
      BY <2>2, <2>3, <2>6, <2>7, <2>8 DEF ProjectInv
  <1>17. \A i \in Ids : ProjectInv(i)'
    BY <1>15, <1>16 DEF ProjectInv
  <1>18. sites'[s].driver # None => s \in Stacks
    BY <1>8 DEF IInv, DataInv
  <1>19. /\ claim' \in [Hosts -> Hosts \cup {Free}] /\ mixed' \subseteq Ids /\ stale' \subseteq Hosts
    BY <1>1 DEF IInv, DataInv
  <1>20. QED
    BY <1>1, <1>5, <1>8, <1>9, <1>11, <1>12, <1>14, <1>17, <1>18, <1>19, TableStep DEF Inner
(* A site is deleted, and the rows that refer to it. *)
LEMMA DeleteStep ==
  ASSUME IInv, NEW p \in Procs, NEW s \in Hosts, s = Site(p), ProcInv', Inner(p), DeleteSite(s),
         pc[p] \in {"rollback", "dropSite"}, pc'[p] \in {"done", "dropFile"},
         UNCHANGED <<lock, file, driver, job, raced>>,
         \/ ~Built(s) /\ UNCHANGED <<project, mixed>>
         \/ Built(s) /\ Down(Ident[s]),
         stale' = stale \/ (stale' = stale \cup {s} /\ pc'[p] = "done"),
         pc[p] = "dropSite" /\ pc'[p] = "done" => file[s] = {} \/ s \in stale'
  PROVE  IInv'
  <1>1. /\ Within(p) /\ SiteInv(p) /\ RowInv(s) /\ RouteInv(s) /\ Holds(p) /\ Holds(p)' /\ s # Free
    BY InnerLocal DEF Inner
  <1>2. /\ sites' = [sites EXCEPT ![s] = NoSite] /\ claim' = [h \in Hosts |-> IF claim[h] = s THEN Free ELSE claim[h]]
        /\ sites \in [Hosts -> Row \cup {NoSite}] /\ claim \in [Hosts -> Hosts \cup {Free}]
        /\ NoSite.status = "absent" /\ NoSite.driver = None
    BY DEF DeleteSite, IInv, DataInv, NoSite
  <1>3. /\ sites'[s] = NoSite /\ \A t \in Hosts \ {s} : sites'[t] = sites[t]
        /\ \A h \in Hosts : claim'[h] = IF claim[h] = s THEN Free ELSE claim[h]
    BY <1>2
  <1>4. Local(p, s)
    BY <1>3, InnerLocal
  <1>5. Fresh(s) = {} /\ ~Rewriting(s) /\ Fresh(s)' = {} /\ (Rewriting(s)' <=> pc'[p] = "dropFile")
    BY <1>1, <1>4, OwnFacts
  <1>6. SiteInv(p)' /\ RowInv(s)' /\ AskInv(p)'
    <2>1. Site(p)' = s /\ \A h \in Hosts : claim'[h] # s
      BY <1>1, <1>3 DEF Inner
    <2>2. QED
      BY <1>2, <1>3, <2>1 DEF SiteInv, RowInv, AskInv
  <1>7. RouteInv(s)'
    <2>1. Aliases(s)' = {}
      BY <1>1, <1>3 DEF Aliases, Rows
    <2>2. pc[p] = "rollback" => Aliases(s) = {}
      BY <1>1 DEF SiteInv, Aliases, Rows
    <2>3. QED
      BY <1>1, <1>5, <2>1, <2>2 DEF RouteInv
  <1>8. IdInv' /\ AliasInv'
    <2>1. IdInv'
      BY <1>1, <1>3, IdWithin
    <2>2. \A t \in Hosts : sites'[t].status = "running" => sites[t].status = "running"
      BY <1>2, <1>3
    <2>3. \A h \in Hosts : claim'[h] = claim[h] \/ (claim'[h] = Free /\ (claim[h] # h \/ sites'[h].status # "running"))
      BY <1>2, <1>3
    <2>4. AliasInv'
      BY <1>1, <2>2, <2>3, AliasWithin
    <2>5. QED
      BY <2>1, <2>4
  <1>9. (\A i \in Ids : ProjectInv(i)') /\ \A i \in mixed : i \in mixed'
    BY <1>2, <1>4, ProjectDrop
  <1>10. /\ project' \in [Ids -> [site : Hosts, file : Files] \cup {None}] /\ mixed' \subseteq Ids
    <2>1. Built(s) => Ident[s] \in Ids
      BY DEF Built, IInv, DataInv, Ids
    <2>2. QED
      BY <2>1 DEF Down, IInv, DataInv
  <1>11. /\ sites' \in [Hosts -> Row \cup {NoSite}] /\ claim' \in [Hosts -> Hosts \cup {Free}] /\ stale' \subseteq Hosts
    BY <1>2 DEF IInv, DataInv
  <1>12. QED
    BY <1>2, <1>3, <1>4, <1>6, <1>7, <1>8, <1>9, <1>10, <1>11, TableStep DEF Inner

LEMMA RollbackStep ==
  ASSUME IInv, NEW p \in Procs, Rollback(p)
  PROVE  IInv'
  <1>1. /\ pc[p] = "rollback" /\ UNCHANGED <<lock, file, driver, job, raced, stale>> /\ Goto(p, "done")
        /\ "done" \in Labels /\ Alike("rollback", "done")
    BY DEF Rollback, At, Labels, Alike, Creates
  <1>2. PICK s \in Hosts : s = Site(p)
    BY <1>1, ProcFacts DEF IInv
  <1>3. ProcInv' /\ Inner(p) /\ pc'[p] = "done"
    BY <1>1, GotoSame DEF IInv, Inner
  <1>4. DeleteSite(s) /\ (\/ ~Built(s) /\ UNCHANGED <<project, mixed>>
                          \/ Built(s) /\ Down(Ident[s]))
    BY <1>2 DEF Rollback
  <1>5. QED
    BY <1>1, <1>2, <1>3, <1>4, DeleteStep

LEMMA DropSiteStep ==
  ASSUME IInv, NEW p \in Procs, DropSite(p)
  PROVE  IInv'
  <1>1. /\ pc[p] = "dropSite" /\ UNCHANGED <<lock, file, driver, job, raced>>
        /\ {"done", "dropFile"} \subseteq Labels /\ Alike("dropSite", "done") /\ Alike("dropSite", "dropFile")
    BY DEF DropSite, At, Labels, Alike, Drops
  <1>2. PICK s \in Hosts : s = Site(p)
    BY <1>1, ProcFacts DEF IInv
  <1>3. CASE Goto(p, "done") /\ UNCHANGED <<tables, project, mixed, stale>>
    BY <1>1, <1>3, StopStep DEF stack
  <1>4. CASE ~Built(s) /\ Goto(p, "dropFile") /\ DeleteSite(s) /\ UNCHANGED <<project, mixed, stale>>
    <2>1. ProcInv' /\ Inner(p) /\ pc'[p] = "dropFile"
      BY <1>1, <1>4, GotoSame DEF IInv, Inner
    <2>2. QED
      BY <1>1, <1>2, <1>4, <2>1, DeleteStep
  <1>5. CASE /\ Built(s) /\ Goto(p, "done") /\ DeleteSite(s) /\ Down(Ident[s])
             /\ stale' = IF file[s] = {} THEN stale ELSE stale \cup {s}
    <2>1. ProcInv' /\ Inner(p) /\ pc'[p] = "done"
      BY <1>1, <1>5, GotoSame DEF IInv, Inner
    <2>2. CASE file[s] = {} /\ stale' = stale
      BY <1>1, <1>2, <1>5, <2>1, <2>2, DeleteStep
    <2>3. CASE file[s] # {} /\ stale' = stale \cup {s}
      BY <1>1, <1>2, <1>5, <2>1, <2>3, DeleteStep
    <2>4. QED
      BY <1>5, <2>2, <2>3
  <1>6. QED
    BY <1>2, <1>3, <1>4, <1>5 DEF DropSite

LEMMA DropFileStep ==
  ASSUME IInv, NEW p \in Procs, DropFile(p)
  PROVE  IInv'
  <1>1. /\ pc[p] = "dropFile" /\ UNCHANGED <<lock, sites, claim, job, stack, raced>> /\ Goto(p, "done")
        /\ "done" \in Labels /\ Alike("dropFile", "done")
    BY DEF DropFile, At, tables, Labels, Alike, Drops
  <1>2. PICK s \in Hosts : s = Site(p)
    BY <1>1, ProcFacts DEF IInv
  <1>3. file' = [file EXCEPT ![s] = {}] /\ stale' = stale \ {s} /\ file \in [Hosts -> SUBSET Hosts]
    BY <1>2 DEF DropFile, IInv, DataInv
  <1>4. ProcInv' /\ Inner(p) /\ pc'[p] = "done"
    BY <1>1, GotoSame DEF IInv, Inner
  <1>5. Within(p) /\ Local(p, s) /\ Holds(p) /\ Holds(p)' /\ SiteInv(p) /\ RowInv(s)
    BY <1>1, <1>2, <1>3, <1>4, InnerLocal DEF Inner
  <1>6. sites[s] = NoSite /\ \A h \in Hosts : claim[h] # s
    BY <1>1, <1>2, <1>5 DEF SiteInv, RowInv
  <1>7. SiteInv(p)' /\ RowInv(s)'
    BY <1>1, <1>4, <1>6 DEF SiteInv, RowInv, NoSite
  <1>8. RouteInv(s)'
    <2>1. Aliases(s)' = {} /\ file'[s] = {}
      BY <1>1, <1>3, <1>6 DEF Aliases, Rows
    <2>2. QED
      BY <2>1 DEF RouteInv
  <1>9. IdInv' /\ AliasInv'
    BY <1>1, <1>4, <1>5, IdWithin, AliasWithin
  <1>10. /\ claim' \in [Hosts -> Hosts \cup {Free}] /\ file' \in [Hosts -> SUBSET Hosts] /\ stale' \subseteq Hosts
    BY <1>1, <1>3 DEF IInv, DataInv
  <1>11. QED
    BY <1>1, <1>4, <1>5, <1>7, <1>8, <1>9, <1>10, RouteStep DEF Inner

---------------------------------------------------------------------------------
(* The invariant holds. *)

LEMMA InitInv == Init => IInv
  <1> SUFFICES ASSUME Init
               PROVE  IInv
    OBVIOUS
  <1>1. ProcInv
    BY DEF Init, ProcInv, OpInv, Labels, Holds
  <1>2. DataInv
    BY DEF Init, DataInv, NoSite
  <1>3. AliasInv /\ IdInv
    BY DEF Init, AliasInv, IdInv, Made, Idle, NoSite
  <1>4. \A p \in Procs : SiteInv(p) /\ AskInv(p)
    BY DEF Init, SiteInv, AskInv
  <1>5. \A s \in Hosts : RowInv(s) /\ RouteInv(s)
    BY FreeAssumption DEF Init, RowInv, RouteInv, NoSite, Aliases, Rows
  <1>6. \A i \in Ids : ProjectInv(i)
    BY DEF Init, ProjectInv, SiteOf, NoSite
  <1>7. QED
    BY <1>1, <1>2, <1>3, <1>4, <1>5, <1>6 DEF IInv

LEMMA NextInv == IInv /\ [Next]_vars => IInv'
  <1> SUFFICES ASSUME IInv, [Next]_vars
               PROVE  IInv'
    OBVIOUS
  <1>1. ASSUME NEW p \in Procs, Step(p)
        PROVE  IInv'
    BY <1>1, AcquireStep, CheckAliasStep, CheckIdsStep, InsertStep, ProvisionStep, RegisterStep, RollbackStep,
       DropSiteStep, DropFileStep, AddCheckStep, AddRowStep, AddRouteStep, AddUndoStep, RemoveRowStep,
       RemoveRouteStep, EndStep DEF Step
  <1>2. ASSUME NEW p \in Procs, Request(p)
        PROVE  IInv'
    <2>1. PICK s \in Hosts :
            \/ BeginCreate(p, s, None)
            \/ s \in Stacks /\ \E d \in Ids : BeginCreate(p, s, d)
            \/ s \in Stacks /\ \E f \in Files : BeginCompose(p, s, f)
            \/ BeginDestroy(p, s)
            \/ \E h \in Wanted : BeginAdd(p, s, h) \/ BeginRemove(p, s, h)
      BY <1>2 DEF Request
    <2>2. Wanted \subseteq Hosts
      BY WantedAssumption
    <2>3. CASE BeginCreate(p, s, None) \/ (s \in Stacks /\ \E d \in Ids : BeginCreate(p, s, d))
      BY <2>3, CreateBegins
    <2>4. CASE s \in Stacks /\ \E f \in Files : BeginCompose(p, s, f)
      BY <2>4, ComposeBegins
    <2>5. CASE BeginDestroy(p, s)
      BY <2>5, BeginPlain
    <2>6. CASE \E h \in Wanted : BeginAdd(p, s, h) \/ BeginRemove(p, s, h)
      BY <2>2, <2>6, BeginPlain
    <2>7. QED
      BY <2>1, <2>3, <2>4, <2>5, <2>6
  <1>3. ASSUME NEW i \in Ids, DeleteDriver(i) \/ \E f \in Files : SaveDriver(i, f)
        PROVE  IInv'
    BY <1>3, DriverDeleted, DriverSaved
  <1>4. CASE UNCHANGED vars
    <2>1. UNCHANGED <<lock, sites, claim, file, driver, project, mixed, pc, job, stale, raced>>
      BY <1>4 DEF vars, tables, stack
    <2>2. ProcInv'
      BY <2>1 DEF IInv, ProcInv, OpInv, Holds, Site
    <2>3. DataInv'
      BY <2>1 DEF IInv, DataInv
    <2>4. AliasInv' /\ IdInv'
      BY <2>1 DEF IInv, AliasInv, IdInv, Made, Site, Host
    <2>5. \A p \in Procs : SiteInv(p)' /\ AskInv(p)'
      BY <2>1 DEF IInv, SiteInv, AskInv, Site, Host
    <2>6. \A s \in Hosts : RowInv(s)' /\ RouteInv(s)'
      BY <2>1 DEF IInv, RowInv, RouteInv, Site, Host, Fresh, Rewriting, Aliases, Rows
    <2>7. \A i \in Ids : ProjectInv(i)'
      BY <2>1 DEF IInv, ProjectInv, SiteOf, Site
    <2>8. QED
      BY <2>2, <2>3, <2>4, <2>5, <2>6, <2>7 DEF IInv
  <1>5. QED
    BY <1>1, <1>2, <1>3, <1>4 DEF Next

THEOREM Invariant == Spec => []IInv
  BY InitInv, NextInv, PTL DEF Spec

---------------------------------------------------------------------------------
(* What follows. *)

(* The tables, files, projects and requests keep their types. *)
THEOREM TypeCorrect == Spec => []TypeOK
  <1>1. IInv => TypeOK
    <2> SUFFICES ASSUME IInv
                 PROVE  TypeOK
      OBVIOUS
    <2>1. lock \subseteq Hosts
      <3>1. \A p \in Procs : Holds(p) => Site(p) \in Hosts
        BY ProcFacts DEF IInv, Holds
      <3>2. QED
        BY <3>1 DEF IInv, ProcInv
    <2>2. \A h \in Hosts : claim[h] # Free => sites[claim[h]] # NoSite
      BY DEF IInv, DataInv, RowInv
    <2>3. QED
      BY <2>1, <2>2 DEF IInv, ProcInv, DataInv, TypeOK
  <1>2. QED
    BY <1>1, Invariant, PTL

(* Once no operation works on a site, its alias router serves exactly the aliases recorded *)
(* for it, but for a file that RemoveDomain or a compose destroy left as it was.           *)
THEOREM RoutedRight == Spec => []RoutedAsRecorded
  <1>1. IInv => RoutedAsRecorded
    <2> SUFFICES ASSUME IInv, NEW s \in Hosts \ (lock \cup stale)
                 PROVE  file[s] = Aliases(s)
      BY DEF RoutedAsRecorded
    <2>1. \A p \in Procs : Site(p) = s => pc[p] \notin SiteLabels
      BY DEF IInv, ProcInv, Holds, SiteLabels
    <2>2. Fresh(s) = {} /\ ~Rewriting(s)
      BY <2>1 DEF Fresh, Rewriting, SiteLabels
    <2>3. QED
      BY <2>2 DEF IInv, RouteInv
  <1>2. QED
    BY <1>1, Invariant, PTL

(* No two sites claim a host or an id unless their creation raced with the other claim. *)
THEOREM ClaimsHeld == Spec => []ClaimsExclusive
  <1>1. IInv => AliasesApart
    <2> SUFFICES ASSUME IInv, NEW s \in Hosts, sites[s].status = "running", claim[s] \notin {Free, s}
                 PROVE  {s} \in raced
      BY DEF AliasesApart
    <2>1. {s} \in raced \/ \E p \in Procs : Site(p) = s /\ pc[p] = "register"
      BY DEF IInv, AliasInv
    <2>2. QED
      BY <2>1 DEF IInv, AliasInv
  <1>2. IInv => IdsApart
    BY DEF IInv, IdInv, IdsApart, Twins
  <1>3. QED
    BY <1>1, <1>2, Invariant, PTL DEF ClaimsExclusive

(* Where no request works on an id's sites, its compose project is up exactly when there is *)
(* a compose site, of that site, and from the file the site's own request asked for.        *)
THEOREM ProjectsRight == Spec => []ProjectsAsAsked
  <1>1. IInv => ProjectsAsAsked
    <2> SUFFICES ASSUME IInv, NEW i \in Ids \ mixed, \A s \in lock : Ident[s] # i
                 PROVE  LET compose == {s \in Hosts : Ident[s] = i /\ sites[s].driver # None}
                        IN  /\ project[i] = None <=> compose = {}
                            /\ \A s \in compose : project[i].site = s /\ sites[s].file \in {None, project[i].file}
      BY DEF ProjectsAsAsked
    <2>1. ProjectInv(i)
      BY DEF IInv
    <2>2. ASSUME NEW s \in Hosts, Ident[s] = i, sites[s].driver # None
          PROVE  project[i] # None /\ project[i].site = s /\ sites[s].file \in {None, project[i].file}
      <3>1. SiteOf(i, s)
        BY <2>2 DEF SiteOf, NoSite
      <3>2. sites[s].status # "creating"
        BY <2>2 DEF IInv, RowInv, ProcInv, Holds
      <3>3. sites[s].status = "running"
        BY <3>1, <3>2 DEF SiteOf, IInv, DataInv, Row
      <3>4. QED
        BY <2>1, <2>2, <3>1, <3>3 DEF ProjectInv
    <2>3. QED
      BY <2>1, <2>2 DEF ProjectInv
  <1>2. QED
    BY <1>1, Invariant, PTL

---------------------------------------------------------------------------------
(* ProcessScaling.                                                                *)

ScalePcs == {"base", "up", "extras", "record", "scaled"}

(* The replicas the record will ask for run. *)
ReplicasKept == \A k \in 0..(task.n - 1) : box[k] = "running"

(* A replica in excess is at the cursor or above, with no gap between. *)
NoGap == \A e \in Existing :
  e < FirstExtra(task.n) \/ (task.i <= e /\ \A k \in task.i..e : k \in Existing)

Paused == task.n = 0 => box[0] = "stopped"
NoExcess == \A e \in Existing : e < FirstExtra(task.n)

ScaleInv ==
  /\ task.op = "scaling" <=> label \in ScalePcs
  /\ task.todo \subseteq 0..(MaxReplicas - 1)
  /\ label = "base" /\ task.smooth => Reachable(task.n)
  /\ label = "up" => /\ 1 <= task.i /\ task.i <= task.n
                     /\ \A k \in 0..(task.i - 1) : box[k] = "running"
                     /\ task.smooth => Reachable(task.n)
  /\ label = "extras" => /\ FirstExtra(task.n) <= task.i /\ ReplicasKept /\ 0 \in Existing
                         /\ task.smooth => NoGap /\ Paused
  /\ label \in {"record", "scaled"} => /\ ReplicasKept /\ 0 \in Existing
                                       /\ task.smooth => NoExcess /\ Paused

ScalingIInv == ScalingTypeOK /\ ScaleInv
---------------------------------------------------------------------------------
(* Small facts. *)

LEMMA SetBox ==
  ASSUME ScalingTypeOK, NEW i \in 0..(MaxReplicas - 1), NEW s \in {"absent", "stopped", "running"},
         Set(i, s)
  PROVE  /\ box' \in [Indexes -> {"absent", "stopped", "running"}]
         /\ Existing' \subseteq 0..(MaxReplicas - 1)
         /\ box'[i] = s /\ \A k \in Indexes : k # i => box'[k] = box[k]
         /\ \A k \in Indexes : k \in Existing' <=> IF k = i THEN s # "absent" ELSE k \in Existing
BY ReplicasAssumption DEF ScalingTypeOK, Set, Existing, Indexes

LEMMA NoTaskIsTask == NoTask \in Task
BY ReplicasAssumption DEF NoTask, Task, Indexes

(* An operation that ends, with the containers in any state the types allow. *)
LEMMA AbortKeeps ==
  ASSUME ScalingTypeOK, Abort, UNCHANGED want, troubles' \in Nat,
         box' \in [Indexes -> {"absent", "stopped", "running"}],
         Existing' \subseteq 0..(MaxReplicas - 1)
  PROVE  ScalingIInv'
<1>1. ScalingTypeOK'
  BY NoTaskIsTask DEF ScalingTypeOK, Abort
<1>2. ScaleInv'
  BY DEF ScaleInv, Abort, NoTask, ScalePcs
<1> QED BY <1>1, <1>2 DEF ScalingIInv

LEMMA TroubleNat == ScalingTypeOK /\ (Trouble \/ Fine) => troubles' \in Nat
BY DEF ScalingTypeOK, Trouble, Fine

---------------------------------------------------------------------------------
(* One lemma per action: it preserves the invariant. *)

LEMMA BeginScaleKeeps == ASSUME ScalingIInv, NEW n \in 0..(MaxReplicas + 1), BeginScale(n) PROVE ScalingIInv'
<1> USE DEF ScalingIInv
<1>1. /\ task'.op = "scaling" /\ task'.n = n /\ task'.todo = {} /\ task'.smooth = Reachable(n)
      /\ label' = "base" /\ UNCHANGED <<box, want, troubles>>
  BY DEF BeginScale, NoTask, Fine
<1>2. task' \in Task
  <2>1. n \in 0..MaxReplicas
    BY ReplicasAssumption DEF BeginScale, Accepted
  <2>2. Reachable(n) \in BOOLEAN
    BY DEF Reachable
  <2> QED BY <2>1, <2>2, NoTaskIsTask DEF BeginScale, NoTask, Task
<1>3. ScalingTypeOK'
  BY <1>1, <1>2 DEF ScalingTypeOK, Existing
<1>4. ScaleInv'
  BY <1>1 DEF ScaleInv, ScalePcs, Reachable, Existing
<1> QED BY <1>3, <1>4

LEMMA BaseKeeps == ASSUME ScalingIInv, Base PROVE ScalingIInv'
<1> USE DEF ScalingIInv
<1> troubles' \in Nat BY TroubleNat DEF Base
<1>1. CASE 0 \notin Existing /\ Abort /\ UNCHANGED box /\ Fine
  BY <1>1, AbortKeeps DEF Base, ScalingTypeOK, Existing
<1>2. CASE /\ 0 \in Existing /\ task.n = 0 /\ label' = "extras"
           /\ Set(0, "stopped") /\ Cursor(FirstExtra(0)) /\ Fine
  <2>1. 0 \in 0..(MaxReplicas - 1) BY <1>2 DEF ScalingTypeOK
  <2>2. /\ box' \in [Indexes -> {"absent", "stopped", "running"}]
        /\ Existing' \subseteq 0..(MaxReplicas - 1) /\ box'[0] = "stopped"
        /\ \A k \in Indexes : k \in Existing' <=> k \in Existing
    BY <2>1, <1>2, SetBox
  <2>3. task' = [task EXCEPT !.i = 1] BY <1>2 DEF Cursor, FirstExtra
  <2>4. task' \in Task
    <3>1. 1 \in Indexes /\ task \in Task BY ReplicasAssumption DEF Indexes, ScalingTypeOK
    <3> QED BY <2>3, <3>1 DEF Task
  <2>5. ScalingTypeOK' BY <2>2, <2>4, <1>2 DEF ScalingTypeOK, Base
  <2>6. /\ task'.op = task.op /\ task'.n = 0 /\ task'.i = 1 /\ task'.todo = task.todo
        /\ task'.smooth = task.smooth
    BY <2>3, <1>2 DEF ScalingTypeOK, Task
  <2>7. Existing' = Existing /\ Existing \subseteq Indexes
    BY <2>2 DEF Existing
  <2>8. task.smooth => NoGap'
    <3> SUFFICES ASSUME task.smooth, NEW e \in Existing
                 PROVE  e < 1 \/ (1 <= e /\ \A k \in 1..e : k \in Existing)
      BY <2>6, <2>7 DEF NoGap, FirstExtra
    <3>1. 1..e \subseteq Existing
      BY <1>2 DEF ScaleInv, Base, ScalingAt, Reachable, FirstExtra
    <3>2. e \in Nat BY <2>7 DEF Indexes
    <3> QED BY <3>1, <3>2
  <2>9. ScaleInv'
    BY <1>2, <2>2, <2>6, <2>7, <2>8 DEF ScaleInv, Base, ScalingAt, ScalePcs, ReplicasKept, Paused, FirstExtra
  <2> QED BY <2>5, <2>9
<1>3. CASE /\ 0 \in Existing /\ task.n = 0 /\ label' = "extras" /\ Trouble /\ UNCHANGED box
           /\ task' = [task EXCEPT !.i = FirstExtra(0), !.smooth = FALSE]
  <2>1. task' = [task EXCEPT !.i = 1, !.smooth = FALSE] BY <1>3 DEF FirstExtra
  <2>2. task' \in Task
    <3>1. 1 \in Indexes /\ task \in Task BY ReplicasAssumption DEF Indexes, ScalingTypeOK
    <3> QED BY <2>1, <3>1 DEF Task
  <2>3. ScalingTypeOK' BY <2>2, <1>3 DEF ScalingTypeOK, Base, Existing
  <2>4. /\ task'.op = task.op /\ task'.n = 0 /\ task'.i = 1 /\ task'.todo = task.todo
        /\ task'.smooth = FALSE
    BY <2>1, <1>3 DEF ScalingTypeOK, Task
  <2>5. ScaleInv'
    BY <1>3, <2>4 DEF ScaleInv, Base, ScalingAt, ScalePcs, ReplicasKept, FirstExtra, Existing
  <2> QED BY <2>3, <2>5
<1>4. CASE 0 \in Existing /\ task.n > 0 /\ Set(0, "running") /\ Cursor(1) /\ label' = "up" /\ Fine
  <2>1. 0 \in 0..(MaxReplicas - 1) BY <1>4 DEF ScalingTypeOK
  <2>2. /\ box' \in [Indexes -> {"absent", "stopped", "running"}]
        /\ Existing' \subseteq 0..(MaxReplicas - 1) /\ box'[0] = "running"
        /\ \A k \in Indexes : k \in Existing' <=> k \in Existing
    BY <2>1, <1>4, SetBox
  <2>3. task' \in Task BY <1>4, ReplicasAssumption DEF ScalingTypeOK, Task, Indexes, Cursor
  <2>4. ScalingTypeOK' BY <2>2, <2>3, <1>4 DEF ScalingTypeOK, Base
  <2>5. /\ task'.op = task.op /\ task'.n = task.n /\ task'.i = 1 /\ task'.todo = task.todo
        /\ task'.smooth = task.smooth /\ task.n \in Nat
    BY <1>4, ReplicasAssumption DEF ScalingTypeOK, Task, Cursor
  <2>6. Existing' = Existing
    BY <2>2 DEF Existing
  <2>7. ScaleInv'
    BY <1>4, <2>2, <2>5, <2>6 DEF ScaleInv, Base, ScalingAt, ScalePcs, Reachable
  <2> QED BY <2>4, <2>7
<1>5. CASE 0 \in Existing /\ Abort /\ Trouble /\ (UNCHANGED box \/ (task.n > 0 /\ Set(0, "running")))
  <2>1. 0 \in 0..(MaxReplicas - 1) BY <1>5 DEF ScalingTypeOK
  <2>2. /\ box' \in [Indexes -> {"absent", "stopped", "running"}]
        /\ Existing' \subseteq 0..(MaxReplicas - 1)
    BY <2>1, <1>5, SetBox DEF ScalingTypeOK, Existing
  <2> QED BY <1>5, <2>2, AbortKeeps DEF Base
<1> QED BY <1>1, <1>2, <1>3, <1>4, <1>5 DEF Base

LEMMA UpKeeps == ASSUME ScalingIInv, Up PROVE ScalingIInv'
<1> USE DEF ScalingIInv
<1> troubles' \in Nat BY TroubleNat DEF Up
<1>0. task.i \in 0..(MaxReplicas - 1) /\ task.n \in 0..MaxReplicas /\ 1 <= task.i /\ task.i < task.n
  BY ReplicasAssumption DEF ScalingTypeOK, Task, Indexes, Up, ScaleInv, ScalingAt
<1>1. CASE Set(task.i, "running") /\ Cursor(task.i + 1) /\ UNCHANGED label /\ Fine
  <2>1. /\ box' \in [Indexes -> {"absent", "stopped", "running"}]
        /\ Existing' \subseteq 0..(MaxReplicas - 1) /\ box'[task.i] = "running"
        /\ \A k \in Indexes : k # task.i => box'[k] = box[k]
        /\ \A k \in Indexes : k \in Existing' <=> k = task.i \/ k \in Existing
    BY <1>0, <1>1, SetBox
  <2>2. /\ task' \in Task /\ task'.op = task.op /\ task'.n = task.n /\ task'.i = task.i + 1
        /\ task'.todo = task.todo /\ task'.smooth = task.smooth
    BY <1>0, <1>1, ReplicasAssumption DEF ScalingTypeOK, Task, Indexes, Cursor
  <2>3. ScalingTypeOK' BY <2>1, <2>2, <1>1 DEF ScalingTypeOK, Up
  <2>4. \A k \in 0..task.i : box'[k] = "running"
    BY <1>0, <2>1, ReplicasAssumption DEF ScaleInv, Up, ScalingAt, Indexes
  <2>5. task.smooth => Reachable(task.n)'
    <3> SUFFICES ASSUME task.smooth, NEW e \in Existing', NEW k \in FirstExtra(task.n)..e
                 PROVE  k \in Existing'
      BY <2>2 DEF Reachable, FirstExtra
    <3>1. e # task.i BY <1>0, <2>1 DEF FirstExtra
    <3>2. e \in Existing /\ e \in Indexes BY <3>1, <2>1 DEF Existing
    <3>3. k \in Existing BY <3>2 DEF ScaleInv, Up, ScalingAt, Reachable
    <3> QED BY <3>3, <2>1 DEF Existing
  <2>6. label' = "up" /\ label = "up" BY <1>1 DEF Up, ScalingAt
  <2>7. ScaleInv'
    BY <1>0, <2>2, <2>4, <2>5, <2>6 DEF ScaleInv, ScalePcs, Reachable, FirstExtra
  <2> QED BY <2>3, <2>7
<1>2. CASE Abort /\ Trouble /\ (UNCHANGED box \/ (box[task.i] = "absent" /\ Set(task.i, "stopped")))
  <2>1. /\ box' \in [Indexes -> {"absent", "stopped", "running"}]
        /\ Existing' \subseteq 0..(MaxReplicas - 1)
    BY <1>0, <1>2, SetBox DEF ScalingTypeOK, Existing
  <2> QED BY <1>2, <2>1, AbortKeeps DEF Up
<1> QED BY <1>1, <1>2 DEF Up

LEMMA UpDoneKeeps == ASSUME ScalingIInv, UpDone PROVE ScalingIInv'
<1> USE DEF ScalingIInv
<1>1. /\ task.n \in 1..MaxReplicas /\ task.i = task.n /\ FirstExtra(task.n) = task.n
      /\ \A k \in 0..(task.n - 1) : box[k] = "running"
  BY ReplicasAssumption DEF ScalingTypeOK, Task, Indexes, UpDone, ScaleInv, ScalingAt, FirstExtra
<1>2. /\ task' \in Task /\ task'.op = task.op /\ task'.n = task.n /\ task'.i = task.n
      /\ task'.todo = task.todo /\ task'.smooth = task.smooth
  BY <1>1, ReplicasAssumption DEF UpDone, ScalingTypeOK, Task, Indexes, Cursor
<1>3. label' = "extras" /\ UNCHANGED <<box, want, troubles>> BY DEF UpDone, Fine
<1>4. ScalingTypeOK' BY <1>2, <1>3 DEF ScalingTypeOK, Existing
<1>5. 0 \in Existing BY <1>1, ReplicasAssumption DEF Existing, Indexes
<1>6. task.smooth => NoGap'
  <2> SUFFICES ASSUME task.smooth, NEW e \in Existing
               PROVE  e < task.n \/ (task.n <= e /\ \A k \in task.n..e : k \in Existing)
    BY <1>1, <1>2, <1>3 DEF NoGap, Existing, FirstExtra
  <2> QED BY <1>1 DEF ScaleInv, UpDone, ScalingAt, Reachable, Existing, Indexes
<1>7. ScaleInv'
  BY <1>1, <1>2, <1>3, <1>5, <1>6
     DEF ScaleInv, UpDone, ScalingAt, ScalePcs, ReplicasKept, Paused, Existing, FirstExtra
<1> QED BY <1>4, <1>7

LEMMA ExtrasKeeps == ASSUME ScalingIInv, Extras PROVE ScalingIInv'
<1> USE DEF ScalingIInv
<1> troubles' \in Nat BY TroubleNat DEF Extras
<1>0. /\ task.n \in 0..MaxReplicas /\ task.i \in Indexes /\ FirstExtra(task.n) \in Nat
      /\ FirstExtra(task.n) <= task.i /\ 1 <= task.i /\ task.n <= task.i /\ ReplicasKept /\ 0 \in Existing
      /\ label = "extras" /\ task.op = "scaling"
  BY ReplicasAssumption DEF ScalingTypeOK, Task, Indexes, Extras, ScaleInv, ScalingAt, FirstExtra, ScalePcs
<1>1. CASE task.i \in Existing /\ Set(task.i, "absent") /\ Cursor(task.i + 1) /\ UNCHANGED label /\ Fine
  <2>0. task.i \in 0..(MaxReplicas - 1) BY <1>1 DEF ScalingTypeOK
  <2>1. /\ box' \in [Indexes -> {"absent", "stopped", "running"}]
        /\ Existing' \subseteq 0..(MaxReplicas - 1)
        /\ \A k \in Indexes : k # task.i => box'[k] = box[k]
        /\ \A k \in Indexes : k \in Existing' <=> k # task.i /\ k \in Existing
    BY <2>0, <1>1, SetBox
  <2>2. /\ task' \in Task /\ task'.op = task.op /\ task'.n = task.n /\ task'.i = task.i + 1
        /\ task'.todo = task.todo /\ task'.smooth = task.smooth
    BY <2>0, <1>1, ReplicasAssumption DEF ScalingTypeOK, Task, Indexes, Cursor
  <2>3. ScalingTypeOK' BY <2>1, <2>2, <1>1 DEF ScalingTypeOK, Extras
  <2>4. ReplicasKept' BY <1>0, <2>1, <2>2, ReplicasAssumption DEF ReplicasKept, Indexes
  <2>5. 0 \in Existing' BY <1>0, <2>1 DEF Existing
  <2>6. Paused => Paused' BY <1>0, <2>1, <2>2, ReplicasAssumption DEF Paused, Indexes
  <2>7. task.smooth => NoGap'
    <3> SUFFICES ASSUME task.smooth, NEW e \in Existing', ~(e < FirstExtra(task.n))
                 PROVE  task.i + 1 <= e /\ \A k \in (task.i + 1)..e : k \in Existing'
      BY <2>2 DEF NoGap, FirstExtra
    <3>1. e \in Existing /\ e \in Indexes /\ e # task.i BY <2>1 DEF Existing
    <3>2. task.i <= e /\ \A k \in task.i..e : k \in Existing
      BY <3>1, <1>0 DEF ScaleInv, NoGap
    <3>3. task.i + 1 <= e BY <3>1, <3>2, <1>0, ReplicasAssumption DEF Indexes
    <3>4. \A k \in (task.i + 1)..e : k \in Existing'
      BY <3>1, <3>2, <2>1, <1>0, ReplicasAssumption DEF Indexes
    <3> QED BY <3>3, <3>4
  <2>8. label' = "extras" BY <1>0, <1>1
  <2>9. FirstExtra(task'.n) <= task'.i BY <1>0, <2>2 DEF Indexes
  <2>10. ScaleInv'
    BY <1>0, <2>2, <2>4, <2>5, <2>6, <2>7, <2>8, <2>9 DEF ScaleInv, ScalePcs, FirstExtra
  <2> QED BY <2>3, <2>10
<1>2. CASE task.i \notin Existing /\ label' = "record" /\ UNCHANGED <<box, task>> /\ Fine
  <2>1. ScalingTypeOK' BY <1>2 DEF ScalingTypeOK, Extras, Existing
  <2>2. task.smooth => NoExcess
    BY <1>0, <1>2, ReplicasAssumption DEF ScaleInv, NoGap, NoExcess, Existing, Indexes
  <2>3. ScaleInv'
    BY <1>0, <1>2, <2>2 DEF ScaleInv, ScalePcs, ReplicasKept, Paused, NoExcess, Existing, FirstExtra
  <2> QED BY <2>1, <2>3
<1>3. CASE /\ Trouble /\ label' = "record" /\ UNCHANGED box
           /\ task' = [task EXCEPT !.smooth = FALSE]
  <2>1. /\ task' \in Task /\ task'.op = task.op /\ task'.n = task.n /\ task'.todo = task.todo
        /\ task'.smooth = FALSE
    BY <1>3 DEF ScalingTypeOK, Task
  <2>2. ScalingTypeOK' BY <2>1, <1>3 DEF ScalingTypeOK, Extras, Existing
  <2>3. ScaleInv' BY <1>0, <1>3, <2>1 DEF ScaleInv, ScalePcs, ReplicasKept, Existing
  <2> QED BY <2>2, <2>3
<1>4. CASE task.i \in Existing /\ Trouble /\ Abort /\ (UNCHANGED box \/ Set(task.i, "stopped"))
  <2>1. task.i \in 0..(MaxReplicas - 1) BY <1>4 DEF ScalingTypeOK
  <2>2. /\ box' \in [Indexes -> {"absent", "stopped", "running"}]
        /\ Existing' \subseteq 0..(MaxReplicas - 1)
    BY <2>1, <1>4, SetBox DEF ScalingTypeOK, Existing
  <2> QED BY <1>4, <2>2, AbortKeeps DEF Extras
<1> QED BY <1>1, <1>2, <1>3, <1>4 DEF Extras

LEMMA RecordKeeps == ASSUME ScalingIInv, Record PROVE ScalingIInv'
<1> USE DEF ScalingIInv
<1>1. task.n \in 0..MaxReplicas BY DEF ScalingTypeOK, Task
<1>2. ScalingTypeOK' BY <1>1 DEF ScalingTypeOK, Record, Fine, Existing
<1>3. ScaleInv'
  BY DEF Record, ScalingAt, ScaleInv, ScalePcs, ReplicasKept, Paused, NoExcess, Existing, FirstExtra
<1> QED BY <1>2, <1>3

LEMMA EndsKeep == ASSUME ScalingIInv, EndScale \/ EachDone \/ Crash PROVE ScalingIInv'
<1>1. Abort /\ UNCHANGED <<box, want>> /\ troubles' \in Nat
  BY TroubleNat DEF ScalingIInv, EndScale, EachDone, Crash
<1> QED BY <1>1, AbortKeeps DEF ScalingIInv, ScalingTypeOK, Existing

LEMMA BeginEachKeeps == ASSUME ScalingIInv, NEW op \in Each, BeginEach(op) PROVE ScalingIInv'
<1> USE DEF ScalingIInv
<1>1. /\ task' \in Task /\ task'.op = op /\ task'.todo = Existing
  BY NoTaskIsTask DEF BeginEach, NoTask, Task, Existing
<1>2. ScalingTypeOK' BY <1>1 DEF ScalingTypeOK, BeginEach, Fine, Existing
<1>3. ScaleInv' BY <1>1 DEF ScaleInv, BeginEach, ScalePcs, Each, ScalingTypeOK
<1> QED BY <1>2, <1>3

LEMMA OneKeeps == ASSUME ScalingIInv, NEW i \in Indexes, One(i) PROVE ScalingIInv'
<1> USE DEF ScalingIInv
<1> troubles' \in Nat BY TroubleNat DEF One
<1>0. i \in 0..(MaxReplicas - 1) BY DEF One, ScaleInv
<1>1. \A s \in {"absent", "stopped", "running"} : Set(i, s) =>
        /\ box' \in [Indexes -> {"absent", "stopped", "running"}]
        /\ Existing' \subseteq 0..(MaxReplicas - 1)
  BY <1>0, SetBox
<1>2. /\ box' \in [Indexes -> {"absent", "stopped", "running"}]
      /\ Existing' \subseteq 0..(MaxReplicas - 1)
  BY <1>1 DEF One, ScalingTypeOK, Existing
<1>3. CASE Abort
  BY <1>2, <1>3, AbortKeeps DEF One
<1>4. CASE Did(i) /\ UNCHANGED label
  <2>1. /\ task' \in Task /\ task'.op = task.op /\ task'.todo \subseteq task.todo
    BY <1>4 DEF Did, ScalingTypeOK, Task
  <2>2. ScalingTypeOK' BY <2>1, <1>2, <1>4 DEF ScalingTypeOK, One
  <2>3. ScaleInv' BY <2>1, <1>4 DEF ScaleInv, One, ScalingAt, ScalePcs
  <2> QED BY <2>2, <2>3
<1> QED BY <1>3, <1>4 DEF One

---------------------------------------------------------------------------------
(* The theorems. *)

LEMMA ScalingInitInv == ScalingInit => ScalingIInv
<1> SUFFICES ASSUME ScalingInit PROVE ScalingIInv OBVIOUS
<1>1. ScalingTypeOK
  BY NoTaskIsTask, ReplicasAssumption DEF ScalingInit, ScalingTypeOK, Existing, Indexes
<1>2. ScaleInv
  BY DEF ScalingInit, ScaleInv, NoTask, ScalePcs
<1> QED BY <1>1, <1>2 DEF ScalingIInv

LEMMA ScalingNextInv == ScalingIInv /\ [ScalingNext]_scalingVars => ScalingIInv'
<1> SUFFICES ASSUME ScalingIInv, [ScalingNext]_scalingVars PROVE ScalingIInv' OBVIOUS
<1>1. CASE UNCHANGED scalingVars
  BY <1>1 DEF ScalingIInv, ScalingTypeOK, ScaleInv, scalingVars, Existing, ReplicasKept, NoGap, Paused, NoExcess, Reachable,
              FirstExtra
<1>2. CASE ScalingNext
  BY <1>2, BaseKeeps, UpKeeps, UpDoneKeeps, ExtrasKeeps, RecordKeeps, EndsKeep, BeginScaleKeeps,
     BeginEachKeeps, OneKeeps DEF ScalingNext, Scale
<1> QED BY <1>1, <1>2

(* Every scale follows its program: below the cursor everything runs on the way up, and nothing *)
(* in excess is left below it on the way down, whatever calls failed before.                   *)
THEOREM ScalingInvariant == ScalingSpec => []ScalingIInv
BY ScalingInitInv, ScalingNextInv, PTL DEF ScalingSpec

(* The state has its types: in particular no container beyond the allowed replicas exists. *)
THEOREM ScalingTypeCorrect == ScalingSpec => []ScalingTypeOK
BY ScalingInvariant, PTL DEF ScalingIInv

(* A scale that succeeds leaves exactly the replicas it was asked for, unless a call of its own *)
(* failed or a gap hid a replica in excess (ScaleProcess, reconcileService, removeExtras).      *)
THEOREM ScaleIsExact == ScalingSpec => []ExactWhenSmooth
<1>1. ScalingIInv => ExactWhenSmooth
  <2> SUFFICES ASSUME ScalingIInv, ScalingAt("scaled"), task.smooth PROVE ExactWhenSmooth
    BY DEF ExactWhenSmooth
  <2>1. /\ ReplicasKept /\ 0 \in Existing /\ NoExcess /\ Paused /\ task.n \in 0..MaxReplicas
        /\ Existing \subseteq Indexes
    BY DEF ScalingIInv, ScaleInv, ScalingAt, ScalingTypeOK, Task, Existing
  <2>2. CASE task.n = 0
    <3>1. \A e \in Existing : e = 0
      <4> SUFFICES ASSUME NEW e \in Existing PROVE e = 0 OBVIOUS
      <4>1. e \in Nat /\ e < 1 BY <2>1, <2>2 DEF NoExcess, FirstExtra, Indexes
      <4> QED BY <4>1
    <3>2. Existing = {0} BY <3>1, <2>1
    <3>3. Running = {} BY <3>1, <2>1, <2>2 DEF Paused, Running, Existing
    <3> QED BY <3>2, <3>3, <2>2 DEF ExactWhenSmooth
  <2>3. CASE task.n # 0
    <3>1. 0..(task.n - 1) \subseteq Running
      BY <2>1, ReplicasAssumption DEF ReplicasKept, Running, Indexes
    <3>2. Existing \subseteq 0..(task.n - 1)
      BY <2>1, <2>3, ReplicasAssumption DEF NoExcess, FirstExtra, Indexes
    <3>3. Running \subseteq Existing BY DEF Running, Existing
    <3>4. Running = 0..(task.n - 1) /\ Existing = Running BY <3>1, <3>2, <3>3
    <3> QED BY <3>4, <2>3 DEF ExactWhenSmooth
  <2> QED BY <2>2, <2>3
<1> QED BY <1>1, ScalingInvariant, PTL

(* An override is recorded only when all the replicas it asks for run (ScaleProcess reconciles  *)
(* first and persists after).                                                                  *)
THEOREM RecordsAreBacked == ScalingSpec => RecordFollowsReplicas
<1>1. ScalingIInv /\ [ScalingNext]_scalingVars => [want' # want => 0..(want' - 1) \subseteq Running']_scalingVars
  <2> SUFFICES ASSUME ScalingIInv, ScalingNext, want' # want PROVE 0..(want' - 1) \subseteq Running'
    BY DEF scalingVars
  <2>1. Record
    BY DEF ScalingNext, Scale, BeginScale, Base, Up, UpDone, Extras, EndScale, BeginEach, One, EachDone,
           Crash
  <2>2. want' = task.n /\ UNCHANGED box /\ ReplicasKept /\ task.n \in 0..MaxReplicas
    BY <2>1 DEF Record, ScalingIInv, ScaleInv, ScalingAt, ScalingTypeOK, Task
  <2> QED BY <2>2, ReplicasAssumption DEF ReplicasKept, Running, Indexes
<1> QED BY <1>1, ScalingInvariant, PTL DEF ScalingSpec, RecordFollowsReplicas

(* Whatever fails, a scale keeps the template the replicas are cloned from (reconcileService).  *)
THEOREM TemplateIsKept == ScalingSpec => ScaleKeepsTemplate
<1>1. ScalingIInv /\ [ScalingNext]_scalingVars =>
        [task.op = "scaling" /\ 0 \in Existing => 0 \in Existing']_scalingVars
  <2> SUFFICES ASSUME ScalingIInv, ScalingNext, task.op = "scaling", 0 \in Existing PROVE 0 \in Existing'
    BY DEF scalingVars
  <2>1. label \in ScalePcs BY DEF ScalingIInv, ScaleInv
  <2>2. 0 \in Indexes /\ ScalingTypeOK BY ReplicasAssumption DEF Indexes, ScalingIInv
  <2>3. CASE Base BY <2>3, <2>2 DEF Base, Set, Existing, ScalingTypeOK
  <2>4. CASE Up BY <2>4, <2>2 DEF Up, Set, Existing, ScalingTypeOK
  <2>5. CASE Extras
    <3>1. task.i # 0
      BY <2>5, <2>2, ReplicasAssumption DEF ScalingIInv, ScaleInv, Extras, ScalingAt, FirstExtra, ScalingTypeOK, Task
    <3> QED BY <3>1, <2>5, <2>2 DEF Extras, Set, Existing, ScalingTypeOK
  <2>6. CASE UpDone \/ Record \/ EndScale \/ Crash
    BY <2>6 DEF UpDone, Record, EndScale, Crash, Existing
  <2> QED BY <2>1, <2>3, <2>4, <2>5, <2>6
      DEF ScalingNext, Scale, BeginScale, BeginEach, One, EachDone, ScalePcs, ScalingAt
<1> QED BY <1>1, ScalingInvariant, PTL DEF ScalingSpec, ScaleKeepsTemplate

===================================================================================

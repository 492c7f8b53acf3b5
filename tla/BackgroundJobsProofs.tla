--------------------------- MODULE BackgroundJobsProofs ---------------------------
(***************************************************************************)
(* Proofs about BackgroundJobs, for any domains, requests, configurations, *)
(* cron objects and number of sites: the type invariant, LoadedAreTheRows  *)
(* and PollsFollowChecks. The invariant has a part for each of the         *)
(* structures the requests share: the site locks, the generations of sites *)
(* on a domain, the manager's mutex, the loaded entries, the map of polls  *)
(* and the logs. Each part follows from what a step does to the one        *)
(* structure; the steps that leave it alone are dealt with in one go.      *)
(***************************************************************************)
EXTENDS BackgroundJobs, FiniteSetTheorems, TLAPS

---------------------------------------------------------------------------------
(* The invariant. *)

(* A label goes with an operation. *)
Creating   == {"insert", "built"} \cup Undoing
Destroying == {"stop", "drop", "dropSite", "dropRows"}
Adding     == {"add", "reload", "load"}
Enabling   == {"enable", "begin"}
Disabling  == {"forget", "prune", "halt"}
Ops        == {"none", "create", "destroy", "add", "remove", "enable", "disable"}
Job        == [op : Ops, dom : Domains \cup {None}, gen : 0..MaxSites, conf : Configs \cup {None}]

OpInv(p) ==
  /\ pc[p] = "idle" <=> job[p] = Idle
  /\ pc[p] # "idle" => Dom(p) \in Domains
  /\ pc[p] \in Creating <=> job[p].op = "create"
  /\ pc[p] \in Destroying <=> job[p].op = "destroy"
  /\ pc[p] \in Adding <=> job[p].op \in {"add", "remove"}
  /\ pc[p] \in Enabling <=> job[p].op = "enable"
  /\ pc[p] \in Disabling <=> job[p].op = "disable"
  /\ job[p].op = "enable" => job[p].conf \in Configs

(* Who has the lock of a site; an operation that has it is alone in having it. *)
Holds(p) == job[p].op \in Locked
ProcInv ==
  /\ pc \in [Procs -> Labels] /\ job \in [Procs -> Job]
  /\ \A p \in Procs : OpInv(p)
  /\ lock = {Dom(p) : p \in {p \in Procs : Holds(p)}}
  /\ \A p, q \in Procs : Holds(p) /\ Holds(q) /\ Dom(p) = Dom(q) => p = q

DataInv ==
  /\ site \in [Domains -> 0..MaxSites] /\ made \in [Domains -> 0..MaxSites]
  /\ jobs \subseteq Row /\ check \in [Domains -> Configs \cup {None}]
  /\ crons \in [Crons -> Ticker] /\ cur \in Crons /\ mu \in Procs \cup {None}
  /\ polls \in [Domains -> Configs \cup {None}] /\ pinging \cup logs \subseteq Domains
  /\ excuse \subseteq Domains \X {"overlap", "rollback", "late"}

(* No row and no entry is of a site that is yet to be made. *)
Known(r) == r[2] <= made[r[1]]
GenInv ==
  /\ \A d \in Domains : site[d] <= made[d]
  /\ \A r \in jobs : Known(r)
  /\ \A c \in Crons : \A r \in crons[c].entries : Known(r)
  /\ \A p \in Procs :
       /\ job[p].op = "add" => job[p].gen \in Gens /\ job[p].gen <= made[Dom(p)]
       /\ pc[p] = "insert" => made[Dom(p)] < MaxSites
       /\ pc[p] = "dropRows" => site[Dom(p)] = 0

(* Who rebuilds the cron object has the mutex, and meanwhile none ticks. *)
MuInv ==
  /\ \A p \in Procs : pc[p] = "load" <=> mu = p
  /\ \A c \in Crons : crons[c].on <=> c = cur /\ mu = None

(* Where nobody is about to reload, the entries are those of the rows, and of rows that *)
(* went with a site; a create that is undone has yet to take its site away.              *)
Reloading == \E p \in Procs : pc[p] \in {"reload", "load"}
Gone(r) == site[r[1]] # r[2] \/ \E p \in Procs : Dom(p) = r[1] /\ pc[p] = "undoSite"
LoadInv == ~Reloading =>
  /\ jobs \subseteq crons[cur].entries
  /\ \A r \in crons[cur].entries \ jobs : Gone(r)

(* How far the polls and the recorded check of a domain have come apart, step by step. *)
Excused(d) == <<d, "overlap">> \in excuse \/ <<d, "rollback">> \in excuse
Removing == Disabling \cup Destroying \cup Undoing
Enab(d)  == \E p \in Procs : Dom(p) = d /\ pc[p] \in Enabling
Clear(d) == \E p \in Procs : Dom(p) = d /\ pc[p] \in Removing
Cleared == {"dropSite", "dropRows", "undoRows", "undoSite"}
PollInv(d) == ~Excused(d) =>
  /\ ~(Enab(d) /\ Clear(d))
  /\ \A p, q \in Procs : Dom(p) = d /\ Dom(q) = d /\ pc[p] = "begin" /\ pc[q] = "begin" => p = q
  /\ \A p \in Procs : Dom(p) = d =>
       /\ pc[p] = "begin" => polls[d] = None /\ check[d] = job[p].conf
       /\ pc[p] \in {"prune", "halt"} \cup Cleared => check[d] = None
       /\ pc[p] \in {"drop"} \cup Cleared => polls[d] = None
  /\ ~Clear(d) /\ (\A p \in Procs : Dom(p) = d => pc[p] # "begin") => polls[d] = check[d]

(* Logs without a check are about to be pruned, or were written late. *)
Pruning(d) == \E p \in Procs :
  Dom(p) = d /\ pc[p] \in {"prune", "dropSite", "dropRows", "undoRows"}
LogInv(d) == d \in logs /\ check[d] = None => <<d, "late">> \in excuse \/ Pruning(d)

IInv ==
  /\ ProcInv /\ DataInv /\ GenInv /\ MuInv /\ LoadInv
  /\ \A d \in Domains : PollInv(d) /\ LogInv(d)

---------------------------------------------------------------------------------
(* Lemmas about the helpers. *)

(* There is a cron object to fill. *)
LEMMA SomeCron == Crons # {}
  <1>1. Cardinality({}) = 0
    BY FS_EmptySet
  <1>2. QED
    BY <1>1, CronsAssumption

(* What the labels say of the operations under way on a domain. *)
LEMMA DoingLabels ==
  ASSUME ProcInv, NEW d \in Domains
  PROVE  /\ Doing(d, {"enable"}) <=> Enab(d)
         /\ Clearing(d) <=> Clear(d)
         /\ Doing(d, Clears \cup {"create", "enable"}) <=>
              \E p \in Procs : Dom(p) = d /\ pc[p] \in Removing \cup Enabling \cup Creating
  <1>1. ASSUME NEW p \in Procs
        PROVE  /\ job[p].op \in {"enable"} <=> pc[p] \in Enabling
               /\ job[p].op \in {"disable", "destroy"} <=> pc[p] \in Disabling \cup Destroying
               /\ job[p].op # "undo"
               /\ job[p].op = "create" <=> pc[p] \in Creating
    <2>1. OpInv(p) /\ job[p] \in Job
      BY DEF ProcInv
    <2>2. job[p].op \in Ops
      BY <2>1 DEF Job
    <2>3. QED
      BY <2>1, <2>2 DEF OpInv, Ops
  <1>2. Doing(d, {"enable"}) <=> Enab(d)
    BY <1>1 DEF Doing, Enab
  <1>3. Clearing(d) <=> Clear(d)
    BY <1>1 DEF Clearing, Doing, Clear, Clears, Removing
  <1>4. Undoing \subseteq Creating
    BY DEF Creating
  <1>5. QED
    BY <1>1, <1>2, <1>3, <1>4 DEF Doing, Clears, Removing

(* The labels an operation can go through are those of its kind. *)
Alike(a, b) ==
  \E S \in {Creating, Destroying, Adding, Enabling, Disabling} : a \in S /\ b \in S
Others(p) == \A q \in Procs \ {p} : pc'[q] = pc[q] /\ job'[q] = job[q]

(* A step within an operation. *)
LEMMA GotoProc ==
  ASSUME ProcInv, NEW p \in Procs, NEW l \in Labels, Goto(p, l), Alike(pc[p], l)
  PROVE  ProcInv' /\ Others(p) /\ pc'[p] = l /\ job' = job /\ lock' = lock
  <1>1. pc' = [pc EXCEPT ![p] = l] /\ job' = job /\ lock' = lock
    BY DEF Goto
  <1>2. pc' \in [Procs -> Labels] /\ pc'[p] = l /\ \A q \in Procs \ {p} : pc'[q] = pc[q]
    BY <1>1 DEF ProcInv
  <1>3. OpInv(p)'
    <2>1. OpInv(p)
      BY DEF ProcInv
    <2>2. QED
      BY <1>1, <1>2, <2>1 DEF OpInv, Alike, Dom, Idle, Creating, Undoing, Destroying, Adding,
         Enabling, Disabling
  <1>4. \A q \in Procs \ {p} : OpInv(q)'
    BY <1>1, <1>2 DEF ProcInv, OpInv, Dom, Idle
  <1>5. QED
    BY <1>1, <1>2, <1>3, <1>4 DEF ProcInv, Others, Holds, Dom

(* The last step of an operation, which releases the lock it holds. *)
LEMMA EndProc ==
  ASSUME ProcInv, NEW p \in Procs, pc[p] # "idle", End(p)
  PROVE  ProcInv' /\ Others(p) /\ pc'[p] = "idle" /\ job'[p] = Idle
  <1>1. Idle \in Job
    BY SitesAssumption DEF Idle, Job, Ops
  <1>2. /\ pc' \in [Procs -> Labels] /\ pc'[p] = "idle"
        /\ job' \in [Procs -> Job] /\ job'[p] = Idle
        /\ \A q \in Procs \ {p} : pc'[q] = pc[q] /\ job'[q] = job[q]
    BY <1>1 DEF End, ProcInv, Labels
  <1>3. OpInv(p)'
    BY <1>2 DEF OpInv, Idle, Creating, Undoing, Destroying, Adding, Enabling, Disabling
  <1>4. \A q \in Procs \ {p} : OpInv(q)'
    BY <1>2 DEF ProcInv, OpInv, Dom, Idle
  <1>5. /\ ~Holds(p)'
        /\ \A q \in Procs \ {p} : Dom(q)' = Dom(q) /\ (Holds(q)' <=> Holds(q))
    BY <1>2 DEF Holds, Idle, Locked, Dom
  <1>6. lock' = {Dom(q)' : q \in {q \in Procs : Holds(q)'}}
    <2>1. CASE Holds(p)
      <3>1. lock' = lock \ {Dom(p)}
        BY <2>1 DEF End, Holds
      <3>2. \A q \in Procs \ {p} : Holds(q) => Dom(q) # Dom(p)
        BY <2>1 DEF ProcInv
      <3>3. QED
        BY <3>1, <3>2, <1>5 DEF ProcInv
    <2>2. CASE ~Holds(p)
      <3>1. lock' = lock
        BY <2>2 DEF End, Holds
      <3>2. QED
        BY <2>2, <3>1, <1>5 DEF ProcInv
    <2>3. QED
      BY <2>1, <2>2
  <1>7. \A q, r \in Procs : Holds(q)' /\ Holds(r)' /\ Dom(q)' = Dom(r)' => q = r
    BY <1>5 DEF ProcInv
  <1>8. QED
    BY <1>2, <1>3, <1>4, <1>6, <1>7, Zenon DEF ProcInv, Others

(* The first step of an operation: an idle goroutine takes it, and a create or a *)
(* destroy takes the lock, which is free.                                         *)
Starts(op, l) ==
  \/ op = "create" /\ l = "insert"
  \/ op = "destroy" /\ l = "stop"
  \/ op \in {"add", "remove"} /\ l = "add"
  \/ op = "enable" /\ l = "enable"
  \/ op = "disable" /\ l = "forget"

LEMMA BeginProc ==
  ASSUME ProcInv, DataInv, NEW p \in Procs, NEW op \in Ops, NEW d \in Domains,
         NEW c \in Configs \cup {None}, NEW l \in Labels, Starts(op, l), Begin(p, op, d, c, l),
         op = "enable" => c \in Configs,
         IF op \in Locked THEN d \notin lock /\ lock' = lock \cup {d} ELSE lock' = lock
  PROVE  /\ ProcInv' /\ Others(p) /\ pc[p] = "idle" /\ pc'[p] = l
         /\ job'[p].op = op /\ Dom(p)' = d
         /\ op = "add" => job'[p].gen = site[d]
  <1> DEFINE j == [op |-> op, dom |-> d, gen |-> IF op = "add" THEN site[d] ELSE 0, conf |-> c]
  <1>1. j \in Job /\ j.op = op /\ j.dom = d /\ j.conf = c /\ (op = "add" => j.gen = site[d])
    BY SitesAssumption DEF Job, DataInv
  <1>2. pc[p] = "idle" /\ pc' = [pc EXCEPT ![p] = l] /\ job' = [job EXCEPT ![p] = j]
    BY DEF Begin, At
  <1> HIDE DEF j
  <1>3. /\ pc' \in [Procs -> Labels] /\ pc'[p] = l
        /\ job' \in [Procs -> Job] /\ job'[p] = j /\ Dom(p)' = d
        /\ \A q \in Procs \ {p} : pc'[q] = pc[q] /\ job'[q] = job[q]
    BY <1>1, <1>2 DEF ProcInv, Dom
  <1>4. j # Idle
    BY <1>1 DEF Starts, Idle
  <1>5. OpInv(p)'
    <2>1. /\ pc'[p] = "idle" <=> job'[p] = Idle
          /\ pc'[p] # "idle" => Dom(p)' \in Domains
          /\ job'[p].op = "enable" => job'[p].conf \in Configs
      BY <1>1, <1>3, <1>4 DEF Starts
    <2>2. /\ pc'[p] \in Creating <=> job'[p].op = "create"
          /\ pc'[p] \in Destroying <=> job'[p].op = "destroy"
          /\ pc'[p] \in Adding <=> job'[p].op \in {"add", "remove"}
          /\ pc'[p] \in Enabling <=> job'[p].op = "enable"
          /\ pc'[p] \in Disabling <=> job'[p].op = "disable"
      BY <1>1, <1>3 DEF Starts, Creating, Undoing, Destroying, Adding, Enabling, Disabling
    <2>3. QED
      BY <2>1, <2>2 DEF OpInv
  <1>6. \A q \in Procs \ {p} : OpInv(q)'
    BY <1>3 DEF ProcInv, OpInv, Dom, Idle
  <1>7. \A q \in Procs \ {p} : Dom(q)' = Dom(q) /\ (Holds(q)' <=> Holds(q))
    BY <1>3 DEF Holds, Dom
  <1>8. ~Holds(p)
    BY <1>2 DEF ProcInv, OpInv, Holds, Idle, Locked
  <1>9. /\ lock' = {Dom(q)' : q \in {q \in Procs : Holds(q)'}}
        /\ \A q, r \in Procs : Holds(q)' /\ Holds(r)' /\ Dom(q)' = Dom(r)' => q = r
    <2>1. CASE op \in Locked
      <3>1. Holds(p)' /\ lock' = lock \cup {d} /\ \A q \in Procs : Holds(q) => Dom(q) # d
        BY <2>1, <1>1, <1>3 DEF Holds, ProcInv
      <3>2. QED
        BY <3>1, <1>3, <1>7, <1>8 DEF ProcInv
    <2>2. CASE op \notin Locked
      <3>1. ~Holds(p)' /\ lock' = lock
        BY <2>2, <1>1, <1>3 DEF Holds
      <3>2. QED
        BY <3>1, <1>7, <1>8 DEF ProcInv
    <2>3. QED
      BY <2>1, <2>2
  <1>10. QED
    BY <1>1, <1>2, <1>3, <1>5, <1>6, <1>9, Zenon DEF ProcInv, Others

---------------------------------------------------------------------------------
(* What a step leaves alone keeps its part of the invariant. *)

LEMMA GenQuiet ==
  ASSUME GenInv, NEW p \in Procs, Others(p), UNCHANGED <<site, made, jobs, crons>>,
         job'[p] = job[p] \/ job'[p].op # "add", pc'[p] \notin {"insert", "dropRows"}
  PROVE  GenInv'
  BY DEF GenInv, Others, Known, Dom

LEMMA MuQuiet ==
  ASSUME MuInv, NEW p \in Procs, Others(p), UNCHANGED cron, pc[p] # "load", pc'[p] # "load"
  PROVE  MuInv'
  BY DEF MuInv, Others, cron

LEMMA LoadQuiet ==
  ASSUME LoadInv, NEW p \in Procs, Others(p), UNCHANGED <<site, jobs, crons, cur>>,
         pc[p] \notin {"reload", "load", "undoSite"}, pc'[p] \notin {"reload", "load"}
  PROVE  LoadInv'
  <1>1. Reloading <=> Reloading'
    BY DEF Reloading, Others
  <1>2. \A r : Gone(r) => Gone(r)'
    BY DEF Gone, Others, Dom
  <1>3. QED
    BY <1>1, <1>2 DEF LoadInv

(* A domain none of whose checks, logs and requests about them a step touches. *)
Minds(q, d) == Dom(q) = d /\ pc[q] \in Removing \cup Enabling
LEMMA DomainQuiet ==
  ASSUME NEW d \in Domains, PollInv(d), LogInv(d), polls'[d] = polls[d], check'[d] = check[d],
         d \in logs' <=> d \in logs,
         \A w : <<d, w>> \in excuse' <=> <<d, w>> \in excuse,
         \A q \in Procs : /\ Minds(q, d) <=> Minds(q, d)'
                          /\ Minds(q, d) => pc'[q] = pc[q] /\ job'[q] = job[q]
  PROVE  PollInv(d)' /\ LogInv(d)'
  <1>1. \A q \in Procs : pc[q] \in {"begin", "drop", "prune", "halt"} \cup Cleared =>
                           pc[q] \in Removing \cup Enabling
    BY DEF Removing, Enabling, Disabling, Destroying, Undoing, Cleared
  <1>2. \A q \in Procs : pc'[q] \in {"begin", "drop", "prune", "halt"} \cup Cleared =>
                           pc'[q] \in Removing \cup Enabling
    BY DEF Removing, Enabling, Disabling, Destroying, Undoing, Cleared
  <1>3. (Enab(d) <=> Enab(d)') /\ (Clear(d) <=> Clear(d)')
    BY DEF Enab, Clear, Minds
  <1>4. Excused(d)' <=> Excused(d)
    BY DEF Excused
  <1>5. \A q \in Procs, l \in {"begin", "drop", "prune", "halt"} \cup Cleared :
          /\ Dom(q) = d /\ pc[q] = l <=> Dom(q)' = d /\ pc'[q] = l
          /\ Dom(q) = d /\ pc[q] = l => job'[q] = job[q]
    BY <1>1, <1>2 DEF Minds
  <1>6. PollInv(d)'
    <2> SUFFICES ASSUME ~Excused(d)'
                 PROVE  PollInv(d)'
      BY DEF PollInv
    <2>1. ~(Enab(d)' /\ Clear(d)')
      BY <1>3, <1>4 DEF PollInv
    <2>2. \A r, q \in Procs : Dom(r)' = d /\ Dom(q)' = d /\ pc'[r] = "begin" /\ pc'[q] = "begin" => r = q
      BY <1>4, <1>5 DEF PollInv
    <2>3. \A q \in Procs : Dom(q)' = d =>
            /\ pc'[q] = "begin" => polls'[d] = None /\ check'[d] = job'[q].conf
            /\ pc'[q] \in {"prune", "halt"} \cup Cleared => check'[d] = None
            /\ pc'[q] \in {"drop"} \cup Cleared => polls'[d] = None
      BY <1>4, <1>5 DEF PollInv
    <2>4. ~Clear(d)' /\ (\A q \in Procs : Dom(q)' = d => pc'[q] # "begin") => polls'[d] = check'[d]
      BY <1>3, <1>4, <1>5 DEF PollInv
    <2>5. QED
      BY <2>1, <2>2, <2>3, <2>4 DEF PollInv
  <1>7. Pruning(d) => Pruning(d)'
    BY <1>5 DEF Pruning, Cleared
  <1>8. QED
    BY <1>6, <1>7 DEF LogInv

LEMMA StepQuiet ==
  ASSUME IInv, NEW p \in Procs, Others(p), NEW d \in Domains, ~Minds(p, d), ~Minds(p, d)',
         polls'[d] = polls[d], check'[d] = check[d], d \in logs' <=> d \in logs,
         \A w : <<d, w>> \in excuse' <=> <<d, w>> \in excuse
  PROVE  PollInv(d)' /\ LogInv(d)'
  <1>1. \A q \in Procs : /\ Minds(q, d) <=> Minds(q, d)'
                         /\ Minds(q, d) => pc'[q] = pc[q] /\ job'[q] = job[q]
    BY DEF Minds, Others, Dom
  <1>2. PollInv(d) /\ LogInv(d)
    BY DEF IInv
  <1>3. QED
    BY <1>1, <1>2, DomainQuiet

LEMMA UptimeQuiet ==
  ASSUME IInv, NEW p \in Procs, Others(p), pc[p] \notin Removing \cup Enabling,
         pc'[p] \notin Removing \cup Enabling, UNCHANGED <<check, uptime, excuse>>
  PROVE  \A d \in Domains : PollInv(d)' /\ LogInv(d)'
  <1> SUFFICES ASSUME NEW d \in Domains
               PROVE  PollInv(d)' /\ LogInv(d)'
    OBVIOUS
  <1>1. ~Minds(p, d) /\ ~Minds(p, d)'
    BY DEF Minds
  <1>2. QED
    BY <1>1, StepQuiet DEF uptime

(* What a goroutine's operation is, from where it is, and the types of its arguments. *)
LEMMA ProcFacts ==
  ASSUME IInv, NEW p \in Procs
  PROVE  /\ OpInv(p) /\ job[p] \in Job /\ pc[p] \in Labels
         /\ pc[p] # "idle" => Dom(p) \in Domains
         /\ \A q \in Procs : Holds(p) /\ Holds(q) /\ Dom(p) = Dom(q) => p = q
  BY DEF IInv, ProcInv, OpInv

(* The labels of the operations that take the lock. *)
LEMMA LockLabels ==
  ASSUME IInv, NEW p \in Procs
  PROVE  Holds(p) <=> pc[p] \in Creating \cup Destroying
  BY ProcFacts DEF OpInv, Holds, Locked

---------------------------------------------------------------------------------
(* One lemma per step: the rows of jobs, and the manager. *)

LEMMA InsertSiteKeeps ==
  ASSUME IInv, NEW p \in Procs, InsertSite(p)
  PROVE  IInv'
  <1> DEFINE d == Dom(p)
  <1>1. /\ Goto(p, "built") /\ pc[p] = "insert" /\ UNCHANGED <<jobs, check, cron, uptime, excuse>>
        /\ made' = [made EXCEPT ![d] = @ + 1] /\ site' = [site EXCEPT ![d] = made'[d]]
    BY DEF InsertSite, At
  <1>2. Alike("insert", "built") /\ "built" \in Labels
    BY DEF Alike, Creating, Labels
  <1>3. ProcInv' /\ Others(p) /\ pc'[p] = "built" /\ job' = job
    BY <1>1, <1>2, GotoProc DEF IInv
  <1>4. d \in Domains /\ made[d] < MaxSites /\ made[d] \in 0..MaxSites
    BY <1>1, ProcFacts DEF IInv, GenInv, DataInv
  <1>5. /\ made' \in [Domains -> 0..MaxSites] /\ site' \in [Domains -> 0..MaxSites]
        /\ made'[d] = made[d] + 1 /\ site'[d] = made[d] + 1
        /\ \A e \in Domains \ {d} : made'[e] = made[e] /\ site'[e] = site[e]
    BY <1>1, <1>4, SitesAssumption DEF IInv, DataInv
  <1>6. DataInv'
    BY <1>1, <1>5 DEF IInv, DataInv, cron, uptime
  <1>7. \A q \in Procs \ {p} : pc[q] \in {"insert", "dropRows"} => Dom(q) # d
    BY <1>1, LockLabels, ProcFacts DEF Creating, Destroying
  <1>8. \A e \in Domains, n \in Int : n <= made[e] => n <= made'[e]
    BY <1>5, SitesAssumption DEF IInv, DataInv
  <1>9. jobs \subseteq Row /\ \A c \in Crons : crons[c].entries \subseteq Row
    BY DEF IInv, DataInv, Ticker
  <1>10. GenInv'
    <2>1. \A e \in Domains : site'[e] <= made'[e]
      BY <1>5, SitesAssumption DEF IInv, GenInv, DataInv
    <2>2. \A r \in Row : Known(r) => Known(r)'
      BY <1>8, SitesAssumption DEF Known, Row, Gens
    <2>3. \A q \in Procs : job[q].op = "add" => Dom(q) \in Domains /\ job[q].gen \in Int
      BY ProcFacts DEF OpInv, Idle, Job
    <2>4. ASSUME NEW q \in Procs
          PROVE  /\ job'[q].op = "add" => job'[q].gen \in Gens /\ job'[q].gen <= made'[Dom(q)']
                 /\ pc'[q] = "insert" => made'[Dom(q)'] < MaxSites
                 /\ pc'[q] = "dropRows" => site'[Dom(q)'] = 0
      <3>1. Dom(q)' = Dom(q) /\ job'[q] = job[q]
        BY <1>3 DEF Dom
      <3>2. pc'[q] \in {"insert", "dropRows"} => q # p /\ pc[q] = pc'[q] /\ Dom(q) \in Domains \ {d}
        BY <1>3, <1>7, ProcFacts DEF Others
      <3>3. QED
        BY <3>1, <3>2, <2>3, <1>5, <1>8 DEF IInv, GenInv
    <2>5. QED
      BY <2>1, <2>2, <2>4, <1>1, <1>9 DEF IInv, GenInv, cron
  <1>11. MuInv'
    BY <1>1, <1>3, MuQuiet DEF IInv
  <1>12. LoadInv'
    <2>1. Reloading <=> Reloading'
      BY <1>1, <1>3 DEF Reloading, Others
    <2>2. ASSUME NEW r \in Row, Known(r), Gone(r)
          PROVE  Gone(r)'
      <3>1. CASE r[1] = d
        BY <3>1, <2>2, <1>4, <1>5 DEF Gone, Known, Row, Gens
      <3>2. CASE r[1] # d
        <4>1. r[1] \in Domains \ {d}
          BY <3>2 DEF Row
        <4>2. QED
          BY <4>1, <2>2, <1>1, <1>3, <1>5 DEF Gone, Others, Dom
      <3>3. QED
        BY <3>1, <3>2
    <2>3. QED
      BY <2>1, <2>2, <1>1, <1>9 DEF IInv, LoadInv, GenInv, DataInv, cron
  <1>13. \A e \in Domains : PollInv(e)' /\ LogInv(e)'
    BY <1>1, <1>3, UptimeQuiet DEF Removing, Enabling, Disabling, Destroying, Undoing
  <1>14. QED
    BY <1>3, <1>6, <1>10, <1>11, <1>12, <1>13 DEF IInv

(* A step that touches neither the rows of jobs and sites nor the manager. *)
LEMMA QuietKeeps ==
  ASSUME IInv, NEW p \in Procs, ProcInv', DataInv', Others(p), UNCHANGED <<site, made, jobs, cron>>,
         job'[p] = job[p] \/ job'[p].op # "add", pc[p] \notin {"reload", "load", "undoSite"},
         pc'[p] \notin {"insert", "dropRows", "reload", "load"},
         \A d \in Domains : PollInv(d)' /\ LogInv(d)'
  PROVE  IInv'
  <1>1. GenInv'
    BY GenQuiet DEF IInv, cron
  <1>2. MuInv'
    BY MuQuiet DEF IInv
  <1>3. LoadInv'
    BY LoadQuiet DEF IInv, cron
  <1>4. QED
    BY <1>1, <1>2, <1>3 DEF IInv

LEMMA BuiltKeeps ==
  ASSUME IInv, NEW p \in Procs, Built(p)
  PROVE  IInv'
  <1>1. pc[p] = "built" /\ UNCHANGED <<rows, cron, uptime>>
    BY DEF Built, At
  <1>2. PICK d \in Domains : d = Dom(p)
    BY <1>1, ProcFacts
  <1>3. CASE End(p) /\ UNCHANGED excuse
    <2>1. ProcInv' /\ Others(p) /\ pc'[p] = "idle" /\ job'[p] = Idle
      BY <1>1, <1>3, EndProc DEF IInv
    <2>2. DataInv'
      BY <1>1, <1>3 DEF IInv, DataInv, rows, cron, uptime
    <2>3. \A e \in Domains : PollInv(e)' /\ LogInv(e)'
      BY <1>1, <1>3, <2>1, UptimeQuiet DEF rows, Removing, Enabling, Disabling, Destroying, Undoing
    <2>4. QED
      BY <1>1, <2>1, <2>2, <2>3, QuietKeeps DEF rows, Idle
  <1>4. CASE Goto(p, "undo") /\ Overlap("undo", d)
    <2>1. Alike("built", "undo") /\ "undo" \in Labels
      BY DEF Alike, Creating, Undoing, Labels
    <2>2. ProcInv' /\ Others(p) /\ pc'[p] = "undo" /\ job' = job
      BY <1>1, <1>4, <2>1, GotoProc DEF IInv
    <2>3. \/ excuse' = excuse /\ ~Enab(d)
          \/ excuse' = excuse \cup {<<d, "overlap">>}
      BY <1>2, <1>4, DoingLabels DEF Overlap, IInv, Clears
    <2>4. DataInv'
      BY <1>1, <1>2, <2>3 DEF IInv, DataInv, rows, cron, uptime
    <2>5. ASSUME NEW e \in Domains \ {d}
          PROVE  PollInv(e)' /\ LogInv(e)'
      <3>1. ~Minds(p, e) /\ ~Minds(p, e)' /\ \A w : <<e, w>> \in excuse' <=> <<e, w>> \in excuse
        BY <1>2, <2>2, <2>3 DEF Minds, Dom
      <3>2. QED
        BY <1>1, <2>2, <3>1, StepQuiet DEF rows, uptime
    <2>6. LogInv(d)'
      <3>1. Pruning(d) => Pruning(d)'
        BY <1>1, <1>2, <2>2 DEF Pruning, Others, Dom
      <3>2. QED
        BY <1>1, <1>2, <2>3, <3>1 DEF IInv, LogInv, rows, uptime
    <2>7. PollInv(d)'
      <3> SUFFICES ASSUME ~Excused(d)'
                   PROVE  PollInv(d)'
        BY DEF PollInv
      <3>1. ~Excused(d) /\ ~Enab(d)
        BY <2>3 DEF Excused
      <3>2. ~Enab(d)' /\ Clear(d)'
        BY <1>1, <1>2, <2>2, <3>1 DEF Enab, Clear, Others, Dom, Enabling, Removing, Undoing
      <3>3. \A q \in Procs : Dom(q)' = d => pc'[q] # "begin"
        BY <3>2 DEF Enab, Enabling
      <3>4. \A q \in Procs : Dom(q)' = d =>
              /\ pc'[q] \in {"prune", "halt"} \cup Cleared => check'[d] = None
              /\ pc'[q] \in {"drop"} \cup Cleared => polls'[d] = None
        BY <1>1, <1>2, <2>2, <3>1 DEF IInv, PollInv, Others, Dom, Cleared, rows, uptime
      <3>5. QED
        BY <3>2, <3>3, <3>4 DEF PollInv
    <2>8. \A e \in Domains : PollInv(e)' /\ LogInv(e)'
      BY <2>5, <2>6, <2>7
    <2>9. QED
      BY <1>1, <2>2, <2>4, <2>8, QuietKeeps DEF rows
  <1>5. QED
    BY <1>2, <1>3, <1>4 DEF Built

(* The uptime side of a step of adding or removing a job. *)
LEMMA AddingQuiet ==
  ASSUME IInv, NEW p \in Procs, Others(p), pc[p] \in Adding, pc'[p] \in Adding \cup {"idle"},
         UNCHANGED <<check, uptime, excuse>>
  PROVE  \A d \in Domains : PollInv(d)' /\ LogInv(d)'
  BY UptimeQuiet DEF Adding, Removing, Enabling, Disabling, Destroying, Undoing

(* A job's row that was added or deleted is loaded by the reload that follows. *)
LEMMA RowsChangeKeeps ==
  ASSUME IInv, NEW p \in Procs, At(p, "add"), Goto(p, "reload"),
         UNCHANGED <<site, made, check, cron, uptime, excuse>>, jobs' \subseteq Row,
         \A r \in jobs' : Known(r)
  PROVE  IInv'
  <1>1. Alike("add", "reload") /\ "reload" \in Labels /\ pc[p] = "add"
    BY DEF Alike, Adding, Labels, At
  <1>2. ProcInv' /\ Others(p) /\ pc'[p] = "reload" /\ job' = job
    BY <1>1, GotoProc DEF IInv
  <1>3. DataInv'
    BY DEF IInv, DataInv, cron, uptime
  <1>4. GenInv'
    BY <1>1, <1>2 DEF IInv, GenInv, Known, Others, Dom, cron
  <1>5. MuInv'
    BY <1>1, <1>2, MuQuiet DEF IInv
  <1>6. LoadInv'
    BY <1>2 DEF LoadInv, Reloading
  <1>7. \A d \in Domains : PollInv(d)' /\ LogInv(d)'
    BY <1>1, <1>2, AddingQuiet DEF Adding
  <1>8. QED
    BY <1>2, <1>3, <1>4, <1>5, <1>6, <1>7 DEF IInv

LEMMA AddRowKeeps ==
  ASSUME IInv, NEW p \in Procs, AddRow(p)
  PROVE  IInv'
  <1>1. pc[p] # "idle" /\ job[p].op = "add"
    BY DEF AddRow, At
  <1>2. Dom(p) \in Domains /\ job[p].gen \in Gens /\ job[p].gen <= made[Dom(p)]
    BY <1>1, ProcFacts DEF IInv, GenInv
  <1>3. <<Dom(p), job[p].gen>> \in Row /\ Known(<<Dom(p), job[p].gen>>)
    BY <1>2 DEF Row, Known
  <1>4. jobs' \subseteq Row /\ \A r \in jobs' : Known(r)
    BY <1>3 DEF AddRow, IInv, DataInv, GenInv
  <1>5. QED
    BY <1>4, RowsChangeKeeps DEF AddRow

LEMMA RemoveRowKeeps ==
  ASSUME IInv, NEW p \in Procs, RemoveRow(p)
  PROVE  IInv'
  <1>1. At(p, "add") /\ UNCHANGED <<site, made, check, cron, uptime, excuse>>
    BY DEF RemoveRow
  <1>2. CASE End(p) /\ UNCHANGED jobs
    <2>1. ProcInv' /\ Others(p) /\ pc'[p] = "idle" /\ job'[p] = Idle
      BY <1>1, <1>2, EndProc DEF IInv, At
    <2>2. DataInv'
      BY <1>1, <1>2 DEF IInv, DataInv, cron, uptime
    <2>3. \A d \in Domains : PollInv(d)' /\ LogInv(d)'
      BY <1>1, <2>1, AddingQuiet DEF Adding, At
    <2>4. QED
      BY <1>1, <1>2, <2>1, <2>2, <2>3, QuietKeeps DEF Idle, At
  <1>3. ASSUME NEW r \in JobsOf(Dom(p)), jobs' = jobs \ {r}, Goto(p, "reload")
        PROVE  IInv'
    BY <1>1, <1>3, RowsChangeKeeps DEF IInv, DataInv, GenInv
  <1>4. QED
    BY <1>2, <1>3 DEF RemoveRow

LEMMA ReloadKeeps ==
  ASSUME IInv, NEW p \in Procs, Reload(p)
  PROVE  IInv'
  <1>1. /\ pc[p] = "reload" /\ mu = None /\ mu' = p /\ Goto(p, "load")
        /\ crons' = [crons EXCEPT ![cur] = [on |-> FALSE, entries |-> {}]]
        /\ UNCHANGED <<rows, cur, uptime, excuse>>
    BY DEF Reload, At, StopCron
  <1>2. Alike("reload", "load") /\ "load" \in Labels
    BY DEF Alike, Adding, Labels
  <1>3. ProcInv' /\ Others(p) /\ pc'[p] = "load" /\ job' = job
    BY <1>1, <1>2, GotoProc DEF IInv
  <1>4. cur \in Crons /\ crons \in [Crons -> Ticker] /\ [on |-> FALSE, entries |-> {}] \in Ticker
    BY DEF IInv, DataInv, Ticker
  <1>5. /\ crons' \in [Crons -> Ticker] /\ ~crons'[cur].on /\ crons'[cur].entries = {}
        /\ \A c \in Crons \ {cur} : crons'[c] = crons[c]
    BY <1>1, <1>4
  <1>6. DataInv'
    BY <1>1, <1>5 DEF IInv, DataInv, rows, uptime
  <1>7. GenInv'
    BY <1>1, <1>3, <1>5 DEF IInv, GenInv, Known, Others, Dom, rows
  <1>8. MuInv'
    <2>1. \A q \in Procs : pc[q] # "load"
      BY <1>1, NoneAssumption DEF IInv, MuInv
    <2>2. QED
      BY <2>1, <1>1, <1>3, <1>5, NoneAssumption DEF IInv, MuInv, Others
  <1>9. LoadInv'
    BY <1>3 DEF LoadInv, Reloading
  <1>10. \A d \in Domains : PollInv(d)' /\ LogInv(d)'
    BY <1>1, <1>3, AddingQuiet DEF Adding, rows
  <1>11. QED
    BY <1>3, <1>6, <1>7, <1>8, <1>9, <1>10 DEF IInv

LEMMA LoadKeeps ==
  ASSUME IInv, NEW p \in Procs, Load(p)
  PROVE  IInv'
  <1>1. /\ pc[p] = "load" /\ End(p) /\ mu' = None /\ UNCHANGED <<rows, uptime, excuse>>
        /\ cur' = First({c \in Crons : ~crons[c].on})
        /\ crons' = [crons EXCEPT ![cur'] = [on |-> TRUE, entries |-> jobs]]
    BY DEF Load, At, NewCron
  <1>2. ProcInv' /\ Others(p) /\ pc'[p] = "idle" /\ job'[p] = Idle
    BY <1>1, EndProc DEF IInv
  <1>3. mu = p /\ (\A c \in Crons : ~crons[c].on) /\ \A q \in Procs \ {p} : pc[q] # "load"
    BY <1>1, NoneAssumption DEF IInv, MuInv
  <1>4. cur' \in Crons
    BY <1>1, <1>3, SomeCron DEF First
  <1>5. crons \in [Crons -> Ticker] /\ [on |-> TRUE, entries |-> jobs] \in Ticker
    BY DEF IInv, DataInv, Ticker
  <1>6. /\ crons' \in [Crons -> Ticker] /\ crons'[cur'].on /\ crons'[cur'].entries = jobs
        /\ \A c \in Crons \ {cur'} : crons'[c] = crons[c]
    BY <1>1, <1>4, <1>5
  <1>7. DataInv'
    BY <1>1, <1>4, <1>6 DEF IInv, DataInv, rows, uptime
  <1>8. GenInv'
    BY <1>1, <1>2, <1>6 DEF IInv, GenInv, Known, Others, Dom, Idle, rows
  <1>9. MuInv'
    BY <1>1, <1>2, <1>3, <1>6, NoneAssumption DEF MuInv, Others
  <1>10. LoadInv'
    BY <1>1, <1>6 DEF LoadInv, rows
  <1>11. \A d \in Domains : PollInv(d)' /\ LogInv(d)'
    BY <1>1, <1>2, AddingQuiet DEF Adding, rows
  <1>12. QED
    BY <1>2, <1>7, <1>8, <1>9, <1>10, <1>11 DEF IInv

---------------------------------------------------------------------------------
(* One lemma per step: creates that are undone, and destroys. *)

(* A step that works on one domain keeps what is said of the others. *)
LEMMA ElsewhereQuiet ==
  ASSUME IInv, NEW p \in Procs, Others(p), NEW d \in Domains, Dom(p) = d,
         pc'[p] = "idle" \/ Dom(p)' = d,
         \A e \in Domains \ {d} :
           /\ polls'[e] = polls[e] /\ check'[e] = check[e] /\ (e \in logs' <=> e \in logs)
           /\ \A w : <<e, w>> \in excuse' <=> <<e, w>> \in excuse
  PROVE  \A e \in Domains \ {d} : PollInv(e)' /\ LogInv(e)'
  <1> SUFFICES ASSUME NEW e \in Domains \ {d}
               PROVE  PollInv(e)' /\ LogInv(e)'
    OBVIOUS
  <1>1. ~Minds(p, e) /\ ~Minds(p, e)'
    BY DEF Minds, Removing, Enabling, Disabling, Destroying, Undoing
  <1>2. QED
    BY <1>1, StepQuiet

LEMMA UndoCheckKeeps ==
  ASSUME IInv, NEW p \in Procs, UndoCheck(p)
  PROVE  IInv'
  <1>1. /\ pc[p] = "undo" /\ Goto(p, "undoRows")
        /\ UNCHANGED <<site, made, jobs, cron, uptime>>
    BY DEF UndoCheck, At
  <1>2. PICK d \in Domains : d = Dom(p)
    BY <1>1, ProcFacts
  <1>3. /\ check' = [check EXCEPT ![d] = None]
        /\ excuse' = IF polls[d] = None THEN excuse ELSE excuse \cup {<<d, "rollback">>}
    BY <1>2 DEF UndoCheck, DropCheck
  <1>4. Alike("undo", "undoRows") /\ "undoRows" \in Labels
    BY DEF Alike, Creating, Undoing, Labels
  <1>5. ProcInv' /\ Others(p) /\ pc'[p] = "undoRows" /\ job' = job
    BY <1>1, <1>4, GotoProc DEF IInv
  <1>6. /\ check' \in [Domains -> Configs \cup {None}] /\ check'[d] = None
        /\ \A e \in Domains \ {d} : check'[e] = check[e]
    BY <1>3 DEF IInv, DataInv
  <1>7. DataInv'
    BY <1>1, <1>3, <1>6 DEF IInv, DataInv, cron, uptime
  <1>8. \A e \in Domains \ {d} : PollInv(e)' /\ LogInv(e)'
    BY <1>1, <1>2, <1>3, <1>5, <1>6, ElsewhereQuiet DEF Dom, uptime
  <1>9. LogInv(d)'
    BY <1>2, <1>5 DEF LogInv, Pruning, Dom
  <1>10. PollInv(d)'
    <2> SUFFICES ASSUME ~Excused(d)'
                 PROVE  PollInv(d)'
      BY DEF PollInv
    <2>1. ~Excused(d) /\ polls[d] = None
      BY <1>3 DEF Excused
    <2>2. Clear(d) /\ Clear(d)'
      BY <1>1, <1>2, <1>5 DEF Clear, Dom, Removing, Undoing
    <2>3. ~Enab(d)
      BY <2>1, <2>2 DEF IInv, PollInv
    <2>4. ~Enab(d)'
      BY <2>3, <1>2, <1>5 DEF Enab, Others, Dom, Enabling
    <2>5. \A q \in Procs : Dom(q)' = d => pc'[q] # "begin"
      BY <2>4 DEF Enab, Enabling
    <2>6. polls'[d] = None /\ check'[d] = None
      BY <1>1, <1>6, <2>1 DEF uptime
    <2>7. QED
      BY <2>2, <2>4, <2>5, <2>6 DEF PollInv
  <1>11. \A e \in Domains : PollInv(e)' /\ LogInv(e)'
    BY <1>8, <1>9, <1>10
  <1>12. QED
    BY <1>1, <1>5, <1>7, <1>11, QuietKeeps

(* The rows of a domain's jobs go, and its logs with them. *)
LEMMA DropRowsFacts ==
  ASSUME IInv, NEW d \in Domains, DropRows(d)
  PROVE  /\ jobs' = {r \in jobs : r[1] # d} /\ logs' = logs \ {d}
         /\ polls' = polls /\ pinging' = pinging /\ excuse' = excuse \ {<<d, "late">>}
  BY DEF DropRows, JobsOf, Prune

LEMMA UndoRowsKeeps ==
  ASSUME IInv, NEW p \in Procs, UndoRows(p)
  PROVE  IInv'
  <1>1. pc[p] = "undoRows" /\ Goto(p, "undoSite") /\ UNCHANGED <<site, made, check, cron>>
    BY DEF UndoRows, At
  <1>2. PICK d \in Domains : d = Dom(p)
    BY <1>1, ProcFacts
  <1>3. /\ jobs' = {r \in jobs : r[1] # d} /\ logs' = logs \ {d}
        /\ polls' = polls /\ pinging' = pinging /\ excuse' = excuse \ {<<d, "late">>}
    BY <1>2, DropRowsFacts DEF UndoRows
  <1>4. Alike("undoRows", "undoSite") /\ "undoSite" \in Labels
    BY DEF Alike, Creating, Undoing, Labels
  <1>5. ProcInv' /\ Others(p) /\ pc'[p] = "undoSite" /\ job' = job
    BY <1>1, <1>4, GotoProc DEF IInv
  <1>6. DataInv'
    BY <1>1, <1>3 DEF IInv, DataInv, cron
  <1>7. GenInv'
    BY <1>1, <1>3, <1>5 DEF IInv, GenInv, Known, Others, Dom, cron
  <1>8. MuInv'
    BY <1>1, <1>5, MuQuiet DEF IInv
  <1>9. LoadInv'
    <2>1. Reloading <=> Reloading'
      BY <1>1, <1>5 DEF Reloading, Others
    <2>2. \A r : Gone(r) => Gone(r)'
      BY <1>1, <1>5 DEF Gone, Others, Dom
    <2>3. \A r : r[1] = d => Gone(r)'
      BY <1>2, <1>5 DEF Gone, Dom
    <2>4. QED
      BY <2>1, <2>2, <2>3, <1>1, <1>3 DEF IInv, LoadInv, cron
  <1>10. \A e \in Domains \ {d} : PollInv(e)' /\ LogInv(e)'
    BY <1>1, <1>2, <1>3, <1>5, ElsewhereQuiet DEF Dom
  <1>11. LogInv(d)'
    BY <1>3 DEF LogInv
  <1>12. PollInv(d)'
    <2>1. Excused(d)' <=> Excused(d)
      BY <1>3 DEF Excused
    <2>2. (Enab(d) <=> Enab(d)') /\ Clear(d) /\ Clear(d)'
      BY <1>1, <1>2, <1>5 DEF Enab, Clear, Others, Dom, Removing, Undoing, Enabling
    <2>3. QED
      BY <2>1, <2>2, <1>1, <1>2, <1>3, <1>5 DEF IInv, PollInv, Others, Dom, Cleared
  <1>13. QED
    BY <1>5, <1>6, <1>7, <1>8, <1>9, <1>10, <1>11, <1>12 DEF IInv

(* The site of a domain goes: the entries of its jobs are then of no site. *)
LEMMA SiteGoes ==
  ASSUME IInv, NEW p \in Procs, NEW d \in Domains, Dom(p) = d, Others(p),
         site' \in [Domains -> 0..MaxSites], site'[d] = 0,
         \A e \in Domains \ {d} : site'[e] = site[e], UNCHANGED <<made, jobs, cron>>,
         pc[p] \in {"undoSite", "dropSite"}, pc'[p] \in {"idle", "dropRows"},
         job'[p] = job[p] \/ (pc'[p] = "idle" /\ job'[p] = Idle)
  PROVE  GenInv' /\ MuInv' /\ LoadInv'
  <1>2. GenInv'
    <2>1. \A e \in Domains : site'[e] <= made'[e]
      BY SitesAssumption DEF IInv, GenInv, DataInv
    <2>2. \A q \in Procs : pc'[q] = "dropRows" => site'[Dom(q)'] = 0
      <3>1. \A q \in Procs : pc'[q] = "dropRows" =>
              /\ Dom(q)' = Dom(q) /\ Dom(q) \in Domains
              /\ q # p => pc[q] = "dropRows"
        BY ProcFacts DEF Others, Dom
      <3>2. QED
        BY <3>1 DEF IInv, GenInv
    <2>3. QED
      BY <2>1, <2>2 DEF IInv, GenInv, Known, Others, Dom, Idle, cron
  <1>3. MuInv'
    BY MuQuiet DEF IInv
  <1>4. LoadInv'
    <2>1. Reloading <=> Reloading'
      BY DEF Reloading, Others
    <2>2. ASSUME NEW r \in Row, Gone(r)
          PROVE  Gone(r)'
      <3>1. CASE r[1] = d
        BY <3>1 DEF Gone, Row, Gens
      <3>2. CASE r[1] # d
        <4>1. r[1] \in Domains \ {d}
          BY <3>2 DEF Row
        <4>2. QED
          BY <4>1, <2>2 DEF Gone, Others, Dom
      <3>3. QED
        BY <3>1, <3>2
    <2>3. crons[cur].entries \subseteq Row
      BY DEF IInv, DataInv, Ticker
    <2>4. QED
      BY <2>1, <2>2, <2>3 DEF IInv, LoadInv, cron
  <1>5. QED
    BY <1>2, <1>3, <1>4

(* A step of what takes checks away: it leaves no more of the row and the goroutine than *)
(* there was, and it excuses nothing unless nothing else is at work on them.              *)
LEMMA ClearingOn ==
  ASSUME NEW d \in Domains, PollInv(d), NEW p \in Procs, Others(p), Dom(p) = d, pc[p] \in Removing,
         pc'[p] = "idle" \/ (Dom(p)' = d /\ pc'[p] \in Removing),
         polls'[d] \in {polls[d], None}, check'[d] \in {check[d], None},
         ~Excused(d)' => ~Excused(d) \/ \A q \in Procs \ {p} : ~Minds(q, d),
         ~Excused(d)' /\ pc'[p] \in {"idle", "prune", "halt"} \cup Cleared => check'[d] = None,
         ~Excused(d)' /\ pc'[p] \in {"idle", "drop"} \cup Cleared => polls'[d] = None
  PROVE  PollInv(d)'
  <1> SUFFICES ASSUME ~Excused(d)'
               PROVE  PollInv(d)'
    BY DEF PollInv
  <1>1. \A q \in Procs \ {p} : pc[q] \in {"begin", "drop", "prune", "halt"} \cup Cleared =>
                                 pc[q] \in Removing \cup Enabling
    BY DEF Removing, Enabling, Disabling, Destroying, Undoing, Cleared
  <1>2. \A q \in Procs \ {p} : pc'[q] = pc[q] /\ Dom(q)' = Dom(q)
    BY DEF Others, Dom
  <1>3. ~Enab(d)'
    <2>1. \A q \in Procs \ {p} : Dom(q) = d => pc[q] \notin Enabling
      BY DEF PollInv, Enab, Clear, Minds
    <2>2. pc'[p] \notin Enabling
      BY DEF Removing, Enabling, Disabling, Destroying, Undoing
    <2>3. QED
      BY <1>2, <2>1, <2>2 DEF Enab
  <1>4. \A q \in Procs : Dom(q)' = d => pc'[q] # "begin"
    BY <1>3 DEF Enab, Enabling
  <1>5. ASSUME NEW q \in Procs, Dom(q)' = d
        PROVE  /\ pc'[q] \in {"prune", "halt"} \cup Cleared => check'[d] = None
               /\ pc'[q] \in {"drop"} \cup Cleared => polls'[d] = None
    <2>1. CASE q = p
      BY <2>1
    <2>2. CASE q # p
      BY <2>2, <1>1, <1>2, <1>5 DEF PollInv, Minds
    <2>3. QED
      BY <2>1, <2>2
  <1>6. ~Clear(d)' => polls'[d] = check'[d]
    BY DEF Clear
  <1>7. QED
    BY <1>3, <1>4, <1>5, <1>6 DEF PollInv

LEMMA UndoSiteKeeps ==
  ASSUME IInv, NEW p \in Procs, UndoSite(p)
  PROVE  IInv'
  <1>1. pc[p] = "undoSite" /\ End(p) /\ UNCHANGED <<made, jobs, check, cron, uptime, excuse>>
    BY DEF UndoSite, At
  <1>2. PICK d \in Domains : d = Dom(p)
    BY <1>1, ProcFacts
  <1>3. /\ site' \in [Domains -> 0..MaxSites] /\ site'[d] = 0
        /\ \A e \in Domains \ {d} : site'[e] = site[e]
    BY <1>2, SitesAssumption DEF UndoSite, IInv, DataInv
  <1>4. ProcInv' /\ Others(p) /\ pc'[p] = "idle" /\ job'[p] = Idle
    BY <1>1, EndProc DEF IInv
  <1>5. GenInv' /\ MuInv' /\ LoadInv'
    BY <1>1, <1>2, <1>3, <1>4, SiteGoes
  <1>6. DataInv'
    BY <1>1, <1>3 DEF IInv, DataInv, cron, uptime
  <1>7. \A e \in Domains \ {d} : PollInv(e)' /\ LogInv(e)'
    BY <1>1, <1>2, <1>4, ElsewhereQuiet DEF uptime
  <1>8. LogInv(d)'
    <2>1. Pruning(d) => Pruning(d)'
      BY <1>1, <1>4 DEF Pruning, Others, Dom
    <2>2. QED
      BY <2>1, <1>1 DEF IInv, LogInv, uptime
  <1>9. PollInv(d)'
    <2>1. Excused(d)' <=> Excused(d)
      BY <1>1 DEF Excused
    <2>2. ~Excused(d) => polls'[d] = None /\ check'[d] = None
      BY <1>1, <1>2 DEF IInv, PollInv, Cleared, uptime
    <2>3. PollInv(d) /\ pc[p] \in Removing
      BY <1>1 DEF IInv, Removing, Undoing
    <2>4. polls'[d] \in {polls[d], None} /\ check'[d] \in {check[d], None} /\ Dom(p) = d
      BY <1>1, <1>2 DEF uptime
    <2>5. QED
      BY <2>1, <2>2, <2>3, <2>4, <1>4, ClearingOn
  <1>10. QED
    BY <1>4, <1>5, <1>6, <1>7, <1>8, <1>9 DEF IInv

LEMMA DestroyStopsKeeps ==
  ASSUME IInv, NEW p \in Procs, DestroyStops(p)
  PROVE  IInv'
  <1>1. pc[p] = "stop" /\ Goto(p, "drop") /\ UNCHANGED <<rows, cron, excuse>>
    BY DEF DestroyStops, At
  <1>2. PICK d \in Domains : d = Dom(p)
    BY <1>1, ProcFacts
  <1>3. /\ polls' = [polls EXCEPT ![d] = None] /\ logs' = logs
        /\ pinging' \in {pinging, pinging \cup {d}}
    BY <1>2 DEF DestroyStops, StopCheck
  <1>4. Alike("stop", "drop") /\ "drop" \in Labels
    BY DEF Alike, Destroying, Labels
  <1>5. ProcInv' /\ Others(p) /\ pc'[p] = "drop" /\ job' = job
    BY <1>1, <1>4, GotoProc DEF IInv
  <1>6. /\ polls' \in [Domains -> Configs \cup {None}] /\ polls'[d] = None
        /\ \A e \in Domains \ {d} : polls'[e] = polls[e]
    BY <1>3 DEF IInv, DataInv
  <1>7. DataInv'
    BY <1>1, <1>3, <1>6 DEF IInv, DataInv, rows, cron
  <1>8. \A e \in Domains \ {d} : PollInv(e)' /\ LogInv(e)'
    BY <1>1, <1>2, <1>3, <1>5, <1>6, ElsewhereQuiet DEF Dom, rows
  <1>9. LogInv(d)'
    <2>1. Pruning(d) => Pruning(d)'
      BY <1>1, <1>5 DEF Pruning, Others, Dom
    <2>2. QED
      BY <2>1, <1>1, <1>3 DEF IInv, LogInv, rows
  <1>10. PollInv(d)'
    <2>1. Excused(d)' <=> Excused(d)
      BY <1>1 DEF Excused
    <2>2. pc[p] \in Removing /\ pc'[p] \in Removing /\ pc'[p] \notin {"idle", "prune", "halt"} \cup Cleared
      BY <1>1, <1>5 DEF Removing, Destroying, Cleared
    <2>3. PollInv(d) /\ check' = check /\ Dom(p)' = d
      BY <1>1, <1>2, <1>5 DEF IInv, rows, Dom
    <2>4. QED
      BY <2>1, <2>2, <2>3, <1>2, <1>5, <1>6, ClearingOn
  <1>11. \A e \in Domains : PollInv(e)' /\ LogInv(e)'
    BY <1>8, <1>9, <1>10
  <1>12. QED
    BY <1>1, <1>5, <1>7, <1>11, QuietKeeps DEF rows

(* What the end of the work on a check excuses. *)
LEMMA CalmFacts ==
  ASSUME IInv, NEW p \in Procs, NEW d \in Domains, Dom(p) = d, NEW gone \in BOOLEAN, Calm(p, gone)
  PROVE  /\ excuse' \subseteq excuse /\ \A e \in Domains : <<e, "late">> \in excuse' <=> <<e, "late">> \in excuse
         /\ \A e \in Domains \ {d} : \A w : <<e, w>> \in excuse' <=> <<e, w>> \in excuse
         /\ \/ Excused(d)' <=> Excused(d)
            \/ gone /\ \A q \in Procs \ {p} : ~Minds(q, d)
  <1>1. excuse' = {x \in excuse : x[1] = d /\ x[2] # "late" => ~(Alone(p) /\ gone)}
    BY DEF Calm
  <1>2. CASE Alone(p) /\ gone
    <2>1. \A q \in Procs \ {p} : ~Minds(q, d)
      <3> SUFFICES ASSUME NEW q \in Procs \ {p}, Minds(q, d)
                   PROVE  FALSE
        OBVIOUS
      <3>1. OpInv(q) /\ Dom(q) = Dom(p)
        BY ProcFacts DEF Minds
      <3>2. job[q].op \in {"create", "destroy", "disable", "enable"}
        BY <3>1 DEF OpInv, Minds, Removing, Creating
      <3>3. QED
        BY <1>2, <3>1, <3>2 DEF Alone, Clears
    <2>2. QED
      BY <1>1, <1>2, <2>1
  <1>3. CASE ~(Alone(p) /\ gone)
    <2>1. excuse' = excuse
      BY <1>1, <1>3
    <2>2. QED
      BY <2>1 DEF Excused
  <1>4. QED
    BY <1>2, <1>3

LEMMA DestroyCheckKeeps ==
  ASSUME IInv, NEW p \in Procs, DestroyCheck(p)
  PROVE  IInv'
  <1>1. pc[p] = "drop" /\ Goto(p, "dropSite") /\ UNCHANGED <<site, made, jobs, cron, uptime>>
    BY DEF DestroyCheck, At
  <1>2. PICK d \in Domains : d = Dom(p)
    BY <1>1, ProcFacts
  <1>3. check' = [check EXCEPT ![d] = None] /\ Calm(p, polls[d] = None)
    BY <1>2 DEF DestroyCheck, DropCheck
  <1>4. Alike("drop", "dropSite") /\ "dropSite" \in Labels
    BY DEF Alike, Destroying, Labels
  <1>5. ProcInv' /\ Others(p) /\ pc'[p] = "dropSite" /\ job' = job
    BY <1>1, <1>4, GotoProc DEF IInv
  <1>6. /\ check' \in [Domains -> Configs \cup {None}] /\ check'[d] = None
        /\ \A e \in Domains \ {d} : check'[e] = check[e]
    BY <1>3 DEF IInv, DataInv
  <1>7. /\ excuse' \subseteq excuse
        /\ \A e \in Domains \ {d} : \A w : <<e, w>> \in excuse' <=> <<e, w>> \in excuse
        /\ \/ Excused(d)' <=> Excused(d)
           \/ polls[d] = None /\ \A q \in Procs \ {p} : ~Minds(q, d)
    BY <1>2, <1>3, CalmFacts
  <1>8. DataInv'
    BY <1>1, <1>6, <1>7 DEF IInv, DataInv, cron, uptime
  <1>9. \A e \in Domains \ {d} : PollInv(e)' /\ LogInv(e)'
    BY <1>1, <1>2, <1>5, <1>6, <1>7, ElsewhereQuiet DEF Dom, uptime
  <1>10. LogInv(d)'
    BY <1>2, <1>5 DEF LogInv, Pruning, Dom
  <1>11. PollInv(d)'
    <2>1. ~Excused(d) => polls[d] = None
      BY <1>1, <1>2 DEF IInv, PollInv
    <2>2. pc[p] \in Removing /\ pc'[p] \in Removing
      BY <1>1, <1>5 DEF Removing, Destroying
    <2>3. PollInv(d) /\ polls' = polls /\ Dom(p)' = d
      BY <1>1, <1>2, <1>5 DEF IInv, uptime, Dom
    <2>4. QED
      BY <2>1, <2>2, <2>3, <1>2, <1>5, <1>6, <1>7, ClearingOn
  <1>12. \A e \in Domains : PollInv(e)' /\ LogInv(e)'
    BY <1>9, <1>10, <1>11
  <1>13. QED
    BY <1>1, <1>5, <1>8, <1>12, QuietKeeps

LEMMA DestroySiteKeeps ==
  ASSUME IInv, NEW p \in Procs, DestroySite(p)
  PROVE  IInv'
  <1>1. /\ pc[p] = "dropSite" /\ Goto(p, "dropRows")
        /\ UNCHANGED <<made, jobs, check, cron, uptime, excuse>>
    BY DEF DestroySite, At
  <1>2. PICK d \in Domains : d = Dom(p)
    BY <1>1, ProcFacts
  <1>3. /\ site' \in [Domains -> 0..MaxSites] /\ site'[d] = 0
        /\ \A e \in Domains \ {d} : site'[e] = site[e]
    BY <1>2, SitesAssumption DEF DestroySite, IInv, DataInv
  <1>4. Alike("dropSite", "dropRows") /\ "dropRows" \in Labels
    BY DEF Alike, Destroying, Labels
  <1>5. ProcInv' /\ Others(p) /\ pc'[p] = "dropRows" /\ job' = job
    BY <1>1, <1>4, GotoProc DEF IInv
  <1>6. GenInv' /\ MuInv' /\ LoadInv'
    <2>1. /\ UNCHANGED <<made, jobs, cron>> /\ pc[p] \in {"undoSite", "dropSite"}
          /\ pc'[p] \in {"idle", "dropRows"} /\ job'[p] = job[p] /\ Dom(p) = d
      BY <1>1, <1>2, <1>5
    <2>2. QED
      BY <2>1, <1>3, <1>5, SiteGoes
  <1>7. DataInv'
    BY <1>1, <1>3 DEF IInv, DataInv, cron, uptime
  <1>8. \A e \in Domains \ {d} : PollInv(e)' /\ LogInv(e)'
    BY <1>1, <1>2, <1>5, ElsewhereQuiet DEF Dom, uptime
  <1>9. LogInv(d)'
    BY <1>2, <1>5 DEF LogInv, Pruning, Dom
  <1>10. PollInv(d)'
    <2>1. Excused(d)' <=> Excused(d)
      BY <1>1 DEF Excused
    <2>2. ~Excused(d) => polls[d] = None /\ check[d] = None
      BY <1>1, <1>2 DEF IInv, PollInv, Cleared
    <2>3. pc[p] \in Removing /\ pc'[p] \in Removing
      BY <1>1, <1>5 DEF Removing, Destroying
    <2>4. PollInv(d) /\ polls' = polls /\ check' = check /\ Dom(p)' = d
      BY <1>1, <1>2, <1>5 DEF IInv, uptime, Dom
    <2>5. QED
      BY <2>1, <2>2, <2>3, <2>4, <1>2, <1>5, ClearingOn
  <1>11. QED
    BY <1>5, <1>6, <1>7, <1>8, <1>9, <1>10 DEF IInv

LEMMA DestroyRowsKeeps ==
  ASSUME IInv, NEW p \in Procs, DestroyRows(p)
  PROVE  IInv'
  <1>1. pc[p] = "dropRows" /\ End(p) /\ UNCHANGED <<site, made, check, cron>>
    BY DEF DestroyRows, At
  <1>2. PICK d \in Domains : d = Dom(p)
    BY <1>1, ProcFacts
  <1>3. /\ jobs' = {r \in jobs : r[1] # d} /\ logs' = logs \ {d}
        /\ polls' = polls /\ pinging' = pinging /\ excuse' = excuse \ {<<d, "late">>}
    BY <1>2, DropRowsFacts DEF DestroyRows
  <1>4. ProcInv' /\ Others(p) /\ pc'[p] = "idle" /\ job'[p] = Idle
    BY <1>1, EndProc DEF IInv
  <1>5. DataInv'
    BY <1>1, <1>3 DEF IInv, DataInv, cron
  <1>6. GenInv'
    BY <1>1, <1>3, <1>4 DEF IInv, GenInv, Known, Others, Dom, Idle, cron
  <1>7. MuInv'
    BY <1>1, <1>4, MuQuiet DEF IInv
  <1>8. LoadInv'
    <2>1. Reloading <=> Reloading'
      BY <1>1, <1>4 DEF Reloading, Others
    <2>2. \A r : Gone(r) => Gone(r)'
      BY <1>1, <1>4 DEF Gone, Others, Dom
    <2>3. \A r \in Row : r[1] = d => Gone(r)'
      BY <1>1, <1>2 DEF IInv, GenInv, Gone, Row, Gens
    <2>4. crons[cur].entries \subseteq Row
      BY DEF IInv, DataInv, Ticker
    <2>5. QED
      BY <2>1, <2>2, <2>3, <2>4, <1>1, <1>3 DEF IInv, LoadInv, cron
  <1>9. \A e \in Domains \ {d} : PollInv(e)' /\ LogInv(e)'
    BY <1>1, <1>2, <1>3, <1>4, ElsewhereQuiet
  <1>10. LogInv(d)'
    BY <1>3 DEF LogInv
  <1>11. PollInv(d)'
    <2>1. Excused(d)' <=> Excused(d)
      BY <1>3 DEF Excused
    <2>2. ~Excused(d) => polls[d] = None /\ check[d] = None
      BY <1>1, <1>2 DEF IInv, PollInv, Cleared
    <2>3. PollInv(d) /\ pc[p] \in Removing
      BY <1>1 DEF IInv, Removing, Destroying
    <2>4. polls'[d] \in {polls[d], None} /\ check'[d] \in {check[d], None} /\ Dom(p) = d
      BY <1>1, <1>3, <1>2
    <2>5. QED
      BY <2>1, <2>2, <2>3, <2>4, <1>4, ClearingOn
  <1>12. QED
    BY <1>4, <1>5, <1>6, <1>7, <1>8, <1>9, <1>10, <1>11 DEF IInv

---------------------------------------------------------------------------------
(* One lemma per step: enabling and disabling a check. *)

LEMMA InsertCheckKeeps ==
  ASSUME IInv, NEW p \in Procs, InsertCheck(p)
  PROVE  IInv'
  <1>1. pc[p] = "enable" /\ UNCHANGED <<site, made, jobs, cron, uptime, excuse>>
    BY DEF InsertCheck, At
  <1>2. PICK d \in Domains : d = Dom(p)
    BY <1>1, ProcFacts
  <1>3. job[p].conf \in Configs
    BY <1>1, ProcFacts DEF OpInv, Enabling
  <1>4. \A e \in Domains : Excused(e)' <=> Excused(e)
    BY <1>1 DEF Excused
  <1>5. CASE check[d] = None /\ check' = [check EXCEPT ![d] = job[p].conf] /\ Goto(p, "begin")
    <2>1. Alike("enable", "begin") /\ "begin" \in Labels
      BY DEF Alike, Enabling, Labels
    <2>2. ProcInv' /\ Others(p) /\ pc'[p] = "begin" /\ job' = job
      BY <1>1, <1>5, <2>1, GotoProc DEF IInv
    <2>3. /\ check' \in [Domains -> Configs \cup {None}] /\ check'[d] = job[p].conf
          /\ \A e \in Domains \ {d} : check'[e] = check[e]
      BY <1>3, <1>5 DEF IInv, DataInv
    <2>4. DataInv'
      BY <1>1, <2>3 DEF IInv, DataInv, cron, uptime
    <2>5. \A e \in Domains \ {d} : PollInv(e)' /\ LogInv(e)'
      BY <1>1, <1>2, <2>2, <2>3, ElsewhereQuiet DEF Dom, uptime
    <2>6. LogInv(d)'
      BY <1>3, <2>3, NoneAssumption DEF LogInv
    <2>7. PollInv(d)'
      <3> SUFFICES ASSUME ~Excused(d)'
                   PROVE  PollInv(d)'
        BY DEF PollInv
      <3>1. ~Excused(d) /\ PollInv(d)
        BY <1>4 DEF IInv
      <3>2. Enab(d)
        BY <1>1, <1>2 DEF Enab, Enabling
      <3>3. ~Clear(d)
        BY <3>1, <3>2 DEF PollInv
      <3>4. ASSUME NEW q \in Procs, Dom(q) = d
            PROVE  pc[q] # "begin" /\ pc[q] \notin Removing
        <4>1. pc[q] = "begin" => check[d] \in Configs
          BY <3>1, <3>4, ProcFacts DEF PollInv, OpInv, Enabling
        <4>2. QED
          BY <4>1, <1>5, <3>3, <3>4, NoneAssumption DEF Clear
      <3>5. polls[d] = None
        BY <3>1, <3>3, <3>4, <1>5 DEF PollInv
      <3>6. \A q \in Procs \ {p} : Dom(q)' = d => pc'[q] # "begin" /\ pc'[q] \notin Removing
        BY <3>4, <2>2 DEF Others, Dom
      <3>7. pc'[p] \notin Removing
        BY <2>2 DEF Removing, Disabling, Destroying, Undoing
      <3>8. ~Clear(d)'
        BY <3>6, <3>7 DEF Clear
      <3>9. {"prune", "halt", "drop"} \cup Cleared \subseteq Removing
        BY DEF Removing, Disabling, Destroying, Undoing, Cleared
      <3>10. \A q \in Procs : Dom(q)' = d => pc'[q] \notin {"prune", "halt", "drop"} \cup Cleared
        BY <3>6, <3>7, <3>9
      <3>11. polls'[d] = None /\ check'[d] = job'[p].conf
        BY <1>1, <2>2, <2>3, <3>5 DEF uptime
      <3>12. \A q \in Procs : Dom(q)' = d /\ pc'[q] = "begin" => q = p
        BY <3>6
      <3>13. Dom(p)' = d /\ pc'[p] = "begin"
        BY <1>2, <2>2 DEF Dom
      <3>14. QED
        BY <3>8, <3>10, <3>11, <3>12, <3>13 DEF PollInv
    <2>8. \A e \in Domains : PollInv(e)' /\ LogInv(e)'
      BY <2>5, <2>6, <2>7
    <2>9. QED
      BY <1>1, <2>2, <2>4, <2>8, QuietKeeps
  <1>6. CASE check[d] # None /\ End(p) /\ UNCHANGED check
    <2>1. ProcInv' /\ Others(p) /\ pc'[p] = "idle" /\ job'[p] = Idle
      BY <1>1, <1>6, EndProc DEF IInv
    <2>2. DataInv'
      BY <1>1, <1>6 DEF IInv, DataInv, cron, uptime
    <2>3. \A e \in Domains \ {d} : PollInv(e)' /\ LogInv(e)'
      BY <1>1, <1>2, <1>6, <2>1, ElsewhereQuiet DEF uptime
    <2>4. LogInv(d)'
      BY <1>6 DEF LogInv
    <2>5. PollInv(d)'
      <3>1. /\ Enab(d)' => Enab(d)
            /\ Clear(d)' <=> Clear(d)
        BY <1>1, <2>1 DEF Enab, Clear, Others, Dom, Removing, Disabling, Destroying, Undoing, Enabling
      <3>2. \A q \in Procs : Dom(q)' = d /\ pc'[q] # "idle" =>
              Dom(q) = d /\ pc[q] = pc'[q] /\ job'[q] = job[q]
        BY <1>1, <2>1 DEF Others, Dom
      <3>3. PollInv(d) /\ polls'[d] = polls[d] /\ check'[d] = check[d]
        BY <1>1, <1>6 DEF IInv, uptime
      <3> SUFFICES ASSUME ~Excused(d)'
                   PROVE  PollInv(d)'
        BY DEF PollInv
      <3>4. ~(Enab(d)' /\ Clear(d)') /\ ~Clear(d)
        BY <1>1, <1>2, <1>4, <3>1, <3>3 DEF PollInv, Enab, Enabling
      <3>5. \A q, r \in Procs : Dom(q)' = d /\ Dom(r)' = d /\ pc'[q] = "begin" /\ pc'[r] = "begin" => q = r
        BY <1>4, <3>2, <3>3 DEF PollInv
      <3>6. \A q \in Procs : Dom(q)' = d =>
              /\ pc'[q] = "begin" => polls'[d] = None /\ check'[d] = job'[q].conf
              /\ pc'[q] \in {"prune", "halt"} \cup Cleared => check'[d] = None
              /\ pc'[q] \in {"drop"} \cup Cleared => polls'[d] = None
        BY <1>4, <3>2, <3>3 DEF PollInv, Cleared
      <3>7. ASSUME \A q \in Procs : Dom(q)' = d => pc'[q] # "begin"
            PROVE  polls'[d] = check'[d]
        <4>1. \A q \in Procs : Dom(q) = d => pc[q] # "begin"
          BY <1>1, <2>1, <3>7 DEF Others, Dom
        <4>2. QED
          BY <1>4, <3>3, <3>4, <4>1 DEF PollInv
      <3>8. QED
        BY <3>4, <3>5, <3>6, <3>7 DEF PollInv
    <2>6. \A e \in Domains : PollInv(e)' /\ LogInv(e)'
      BY <2>3, <2>4, <2>5
    <2>7. QED
      BY <1>1, <2>1, <2>2, <2>6, QuietKeeps DEF Idle
  <1>7. QED
    BY <1>2, <1>5, <1>6 DEF InsertCheck

LEMMA StartCheckKeeps ==
  ASSUME IInv, NEW p \in Procs, StartCheck(p)
  PROVE  IInv'
  <1>1. pc[p] = "begin" /\ End(p) /\ UNCHANGED <<rows, cron, pinging, logs, excuse>>
    BY DEF StartCheck, At
  <1>2. PICK d \in Domains : d = Dom(p)
    BY <1>1, ProcFacts
  <1>3. job[p].conf \in Configs
    BY <1>1, ProcFacts DEF OpInv, Enabling
  <1>4. ProcInv' /\ Others(p) /\ pc'[p] = "idle" /\ job'[p] = Idle
    BY <1>1, EndProc DEF IInv
  <1>5. polls' = [polls EXCEPT ![d] = IF polls[d] = None THEN job[p].conf ELSE polls[d]]
    BY <1>2 DEF StartCheck
  <1>6. /\ polls' \in [Domains -> Configs \cup {None}]
        /\ polls'[d] = IF polls[d] = None THEN job[p].conf ELSE polls[d]
        /\ \A e \in Domains \ {d} : polls'[e] = polls[e]
    BY <1>3, <1>5 DEF IInv, DataInv
  <1>7. DataInv'
    BY <1>1, <1>6 DEF IInv, DataInv, rows, cron
  <1>8. \A e \in Domains \ {d} : PollInv(e)' /\ LogInv(e)'
    BY <1>1, <1>2, <1>4, <1>6, ElsewhereQuiet DEF rows
  <1>9. LogInv(d)'
    <2>1. Pruning(d) => Pruning(d)'
      BY <1>1, <1>4 DEF Pruning, Others, Dom
    <2>2. QED
      BY <2>1, <1>1 DEF IInv, LogInv, rows
  <1>10. PollInv(d)'
    <2> SUFFICES ASSUME ~Excused(d)'
                 PROVE  PollInv(d)'
      BY DEF PollInv
    <2>1. ~Excused(d) /\ PollInv(d)
      BY <1>1 DEF Excused, IInv
    <2>2. polls[d] = None /\ check[d] = job[p].conf
      BY <1>1, <1>2, <2>1 DEF PollInv
    <2>3. polls'[d] = check'[d]
      BY <1>1, <1>6, <2>2 DEF rows
    <2>4. Enab(d)
      BY <1>1, <1>2 DEF Enab, Enabling
    <2>5. ~Clear(d)
      BY <2>1, <2>4 DEF PollInv
    <2>6. ~Clear(d)'
      BY <2>5, <1>4 DEF Clear, Others, Dom, Removing, Disabling, Destroying, Undoing
    <2>7. \A q \in Procs \ {p} : Dom(q) = d => pc[q] # "begin"
      BY <1>1, <1>2, <2>1 DEF PollInv
    <2>8. \A q \in Procs : Dom(q)' = d => pc'[q] # "begin"
      BY <2>7, <1>4 DEF Others, Dom
    <2>9. {"prune", "halt", "drop"} \cup Cleared \subseteq Removing
      BY DEF Removing, Disabling, Destroying, Undoing, Cleared
    <2>10. \A q \in Procs : Dom(q)' = d => pc'[q] \notin {"prune", "halt", "drop"} \cup Cleared
      BY <2>6, <2>9 DEF Clear
    <2>11. QED
      BY <2>3, <2>6, <2>8, <2>10 DEF PollInv
  <1>11. \A e \in Domains : PollInv(e)' /\ LogInv(e)'
    BY <1>8, <1>9, <1>10
  <1>12. QED
    BY <1>1, <1>4, <1>7, <1>11, QuietKeeps DEF rows, Idle

LEMMA DisableCheckKeeps ==
  ASSUME IInv, NEW p \in Procs, DisableCheck(p)
  PROVE  IInv'
  <1>1. /\ pc[p] = "forget" /\ Goto(p, "prune")
        /\ UNCHANGED <<site, made, jobs, cron, uptime, excuse>>
    BY DEF DisableCheck, At
  <1>2. PICK d \in Domains : d = Dom(p)
    BY <1>1, ProcFacts
  <1>3. check' = [check EXCEPT ![d] = None]
    BY <1>2 DEF DisableCheck, DropCheck
  <1>4. Alike("forget", "prune") /\ "prune" \in Labels
    BY DEF Alike, Disabling, Labels
  <1>5. ProcInv' /\ Others(p) /\ pc'[p] = "prune" /\ job' = job
    BY <1>1, <1>4, GotoProc DEF IInv
  <1>6. /\ check' \in [Domains -> Configs \cup {None}] /\ check'[d] = None
        /\ \A e \in Domains \ {d} : check'[e] = check[e]
    BY <1>3 DEF IInv, DataInv
  <1>7. DataInv'
    BY <1>1, <1>6 DEF IInv, DataInv, cron, uptime
  <1>8. \A e \in Domains \ {d} : PollInv(e)' /\ LogInv(e)'
    BY <1>1, <1>2, <1>5, <1>6, ElsewhereQuiet DEF Dom, uptime
  <1>9. LogInv(d)'
    BY <1>2, <1>5 DEF LogInv, Pruning, Dom
  <1>10. PollInv(d)'
    <2>1. Excused(d)' <=> Excused(d)
      BY <1>1 DEF Excused
    <2>2. /\ pc[p] \in Removing /\ pc'[p] \in Removing
          /\ pc'[p] \notin {"idle", "drop"} \cup Cleared
      BY <1>1, <1>5 DEF Removing, Disabling, Cleared
    <2>3. PollInv(d) /\ polls' = polls /\ Dom(p)' = d
      BY <1>1, <1>2, <1>5 DEF IInv, uptime, Dom
    <2>4. QED
      BY <2>1, <2>2, <2>3, <1>2, <1>5, <1>6, ClearingOn
  <1>11. \A e \in Domains : PollInv(e)' /\ LogInv(e)'
    BY <1>8, <1>9, <1>10
  <1>12. QED
    BY <1>1, <1>5, <1>7, <1>11, QuietKeeps

LEMMA DisablePrunesKeeps ==
  ASSUME IInv, NEW p \in Procs, DisablePrunes(p)
  PROVE  IInv'
  <1>1. pc[p] = "prune" /\ Goto(p, "halt") /\ UNCHANGED <<rows, cron>>
    BY DEF DisablePrunes, At
  <1>2. PICK d \in Domains : d = Dom(p)
    BY <1>1, ProcFacts
  <1>3. /\ logs' = logs \ {d} /\ excuse' = excuse \ {<<d, "late">>}
        /\ UNCHANGED <<polls, pinging>>
    BY <1>2 DEF DisablePrunes, Prune
  <1>4. Alike("prune", "halt") /\ "halt" \in Labels
    BY DEF Alike, Disabling, Labels
  <1>5. ProcInv' /\ Others(p) /\ pc'[p] = "halt" /\ job' = job
    BY <1>1, <1>4, GotoProc DEF IInv
  <1>6. DataInv'
    BY <1>1, <1>3 DEF IInv, DataInv, rows, cron
  <1>7. \A e \in Domains \ {d} : PollInv(e)' /\ LogInv(e)'
    BY <1>1, <1>2, <1>3, <1>5, ElsewhereQuiet DEF Dom, rows
  <1>8. LogInv(d)'
    BY <1>3 DEF LogInv
  <1>9. PollInv(d)'
    <2>1. Excused(d)' <=> Excused(d)
      BY <1>3 DEF Excused
    <2>2. /\ pc[p] \in Removing /\ pc'[p] \in Removing
          /\ pc'[p] \notin {"idle", "drop"} \cup Cleared
      BY <1>1, <1>5 DEF Removing, Disabling, Cleared
    <2>3. PollInv(d) /\ polls' = polls /\ check' = check /\ Dom(p)' = d
      BY <1>1, <1>2, <1>3, <1>5 DEF IInv, rows, Dom
    <2>4. ~Excused(d) => check[d] = None
      BY <1>1, <1>2 DEF IInv, PollInv
    <2>5. QED
      BY <2>1, <2>2, <2>3, <2>4, <1>2, <1>5, ClearingOn
  <1>10. \A e \in Domains : PollInv(e)' /\ LogInv(e)'
    BY <1>7, <1>8, <1>9
  <1>11. QED
    BY <1>1, <1>5, <1>6, <1>10, QuietKeeps DEF rows

LEMMA DisableStopsKeeps ==
  ASSUME IInv, NEW p \in Procs, DisableStops(p)
  PROVE  IInv'
  <1>1. pc[p] = "halt" /\ End(p) /\ UNCHANGED <<rows, cron>>
    BY DEF DisableStops, At
  <1>2. PICK d \in Domains : d = Dom(p)
    BY <1>1, ProcFacts
  <1>3. /\ polls' = [polls EXCEPT ![d] = None] /\ logs' = logs
        /\ pinging' \in {pinging, pinging \cup {d}} /\ Calm(p, check[d] = None)
    BY <1>2 DEF DisableStops, StopCheck
  <1>4. ProcInv' /\ Others(p) /\ pc'[p] = "idle" /\ job'[p] = Idle
    BY <1>1, EndProc DEF IInv
  <1>5. /\ polls' \in [Domains -> Configs \cup {None}] /\ polls'[d] = None
        /\ \A e \in Domains \ {d} : polls'[e] = polls[e]
    BY <1>3 DEF IInv, DataInv
  <1>6. /\ excuse' \subseteq excuse /\ \A e \in Domains : <<e, "late">> \in excuse' <=> <<e, "late">> \in excuse
        /\ \A e \in Domains \ {d} : \A w : <<e, w>> \in excuse' <=> <<e, w>> \in excuse
        /\ \/ Excused(d)' <=> Excused(d)
           \/ check[d] = None /\ \A q \in Procs \ {p} : ~Minds(q, d)
    BY <1>2, <1>3, CalmFacts
  <1>7. DataInv'
    BY <1>1, <1>3, <1>5, <1>6 DEF IInv, DataInv, rows, cron
  <1>8. \A e \in Domains \ {d} : PollInv(e)' /\ LogInv(e)'
    BY <1>1, <1>2, <1>3, <1>4, <1>5, <1>6, ElsewhereQuiet DEF rows
  <1>9. LogInv(d)'
    <2>1. Pruning(d) => Pruning(d)'
      BY <1>1, <1>4 DEF Pruning, Others, Dom
    <2>2. QED
      BY <2>1, <1>1, <1>3, <1>6 DEF IInv, LogInv, rows
  <1>10. PollInv(d)'
    <2>1. ~Excused(d) => check[d] = None
      BY <1>1, <1>2 DEF IInv, PollInv
    <2>2. PollInv(d) /\ check' = check /\ pc[p] \in Removing
      BY <1>1 DEF IInv, rows, Removing, Disabling
    <2>3. QED
      BY <2>1, <2>2, <1>2, <1>4, <1>5, <1>6, ClearingOn
  <1>11. \A e \in Domains : PollInv(e)' /\ LogInv(e)'
    BY <1>8, <1>9, <1>10
  <1>12. QED
    BY <1>1, <1>4, <1>7, <1>11, QuietKeeps DEF rows, Idle

---------------------------------------------------------------------------------
(* One lemma per step: requests begin. *)

(* What the operations that take no check away, and enable none, leave alone. *)
LEMMA BeginQuiet ==
  ASSUME IInv, NEW p \in Procs, NEW op \in {"create", "add", "remove"}, NEW d \in Domains,
         NEW l \in {"insert", "add"}, Starts(op, l), Begin(p, op, d, None, l),
         IF op \in Locked THEN d \notin lock /\ lock' = lock \cup {d} ELSE lock' = lock,
         op = "create" => made[d] < MaxSites, op = "add" => site[d] # 0
  PROVE  IInv'
  <1>1. UNCHANGED <<rows, cron, uptime>> /\ Overlap(op, d)
    BY DEF Begin
  <1>2. excuse' = excuse
    BY <1>1 DEF Overlap, Clears
  <1>3. op \in Ops /\ l \in Labels /\ op # "enable"
    BY DEF Ops, Labels
  <1>4. /\ ProcInv' /\ Others(p) /\ pc[p] = "idle" /\ pc'[p] = l
        /\ job'[p].op = op /\ Dom(p)' = d
        /\ op = "add" => job'[p].gen = site[d]
    BY <1>3, BeginProc DEF IInv
  <1>5. DataInv'
    BY <1>1, <1>2 DEF IInv, DataInv, rows, cron, uptime
  <1>6. GenInv'
    <2>1. site[d] \in 0..MaxSites /\ site[d] <= made[d]
      BY DEF IInv, DataInv, GenInv
    <2>2. ASSUME NEW q \in Procs
          PROVE  /\ job'[q].op = "add" => job'[q].gen \in Gens /\ job'[q].gen <= made'[Dom(q)']
                 /\ pc'[q] = "insert" => made'[Dom(q)'] < MaxSites
                 /\ pc'[q] = "dropRows" => site'[Dom(q)'] = 0
      <3>1. CASE q = p
        <4>1. op = "add" => site[d] \in Gens
          BY <2>1, SitesAssumption DEF Gens
        <4>2. l = "insert" => op = "create"
          BY DEF Starts
        <4>3. made' = made /\ l # "dropRows"
          BY <1>1 DEF rows
        <4>4. QED
          BY <3>1, <4>1, <4>2, <4>3, <2>1, <1>4
      <3>2. CASE q # p
        BY <3>2, <1>1, <1>4 DEF IInv, GenInv, Others, Dom, rows
      <3>3. QED
        BY <3>1, <3>2
    <2>3. QED
      BY <2>2, <1>1 DEF IInv, GenInv, Known, rows, cron
  <1>7. MuInv'
    BY <1>1, <1>4, MuQuiet DEF IInv
  <1>8. LoadInv'
    BY <1>1, <1>4, LoadQuiet DEF IInv, rows, cron
  <1>9. \A e \in Domains : PollInv(e)' /\ LogInv(e)'
    BY <1>1, <1>2, <1>4, UptimeQuiet DEF rows, Removing, Enabling, Disabling, Destroying, Undoing
  <1>10. QED
    BY <1>4, <1>5, <1>6, <1>7, <1>8, <1>9 DEF IInv

(* What takes a check away or enables one excuses the domain if it overlaps the other. *)
LEMMA BeginMinds ==
  ASSUME IInv, NEW p \in Procs, NEW op \in {"destroy", "disable", "enable"}, NEW d \in Domains,
         NEW c \in Configs \cup {None}, NEW l \in {"stop", "forget", "enable"}, Starts(op, l),
         Begin(p, op, d, c, l), op = "enable" => c \in Configs,
         IF op \in Locked THEN d \notin lock /\ lock' = lock \cup {d} ELSE lock' = lock
  PROVE  IInv'
  <1>1. UNCHANGED <<rows, cron, uptime>> /\ Overlap(op, d)
    BY DEF Begin
  <1>2. \/ excuse' = excuse \cup {<<d, "overlap">>}
        \/ excuse' = excuse /\ (IF op = "enable" THEN ~Clear(d) ELSE ~Enab(d))
    BY <1>1, DoingLabels DEF Overlap, Clears, IInv
  <1>3. op \in Ops /\ l \in Labels
    BY DEF Ops, Labels
  <1>4. /\ ProcInv' /\ Others(p) /\ pc[p] = "idle" /\ pc'[p] = l
        /\ job'[p].op = op /\ Dom(p)' = d
    BY <1>3, BeginProc DEF IInv
  <1>5. DataInv'
    BY <1>1, <1>2 DEF IInv, DataInv, rows, cron, uptime
  <1>6. ASSUME NEW e \in Domains \ {d}
        PROVE  PollInv(e)' /\ LogInv(e)'
    <2>1. ~Minds(p, e) /\ ~Minds(p, e)'
      BY <1>4 DEF Minds, Removing, Enabling, Disabling, Destroying, Undoing
    <2>2. \A w : <<e, w>> \in excuse' <=> <<e, w>> \in excuse
      BY <1>2
    <2>3. QED
      BY <1>1, <1>4, <2>1, <2>2, StepQuiet DEF rows, uptime
  <1>7. LogInv(d)'
    <2>1. Pruning(d) => Pruning(d)'
      BY <1>4 DEF Pruning, Others, Dom
    <2>2. QED
      BY <1>1, <1>2, <2>1 DEF IInv, LogInv, rows, uptime
  <1>8. PollInv(d)'
    <2> SUFFICES ASSUME ~Excused(d)'
                 PROVE  PollInv(d)'
      BY DEF PollInv
    <2>1. /\ ~Excused(d) /\ PollInv(d)
          /\ IF op = "enable" THEN ~Clear(d) ELSE ~Enab(d)
      BY <1>2 DEF Excused, IInv
    <2>2. \A q \in Procs : Dom(q)' = d /\ pc'[q] # l => Dom(q) = d /\ pc[q] = pc'[q] /\ job'[q] = job[q]
      BY <1>4 DEF Others, Dom
    <2>3. \A q \in Procs : Dom(q) = d /\ pc[q] # "idle" => Dom(q)' = d /\ pc'[q] = pc[q]
      BY <1>4 DEF Others, Dom
    <2>4. \A q \in Procs : pc'[q] = "begin" => pc'[q] # l
      OBVIOUS
    <2>5. \A q \in Procs : pc'[q] \in {"prune", "halt", "drop"} \cup Cleared => pc'[q] # l
      BY DEF Cleared
    <2>6. polls'[d] = polls[d] /\ check'[d] = check[d]
      BY <1>1 DEF rows, uptime
    <2>7. ~(Enab(d)' /\ Clear(d)')
      <3>1. CASE op = "enable"
        <4>1. l \notin Removing
          BY <3>1 DEF Starts, Removing, Disabling, Destroying, Undoing
        <4>2. QED
          BY <2>1, <2>2, <3>1, <4>1 DEF Clear
      <3>2. CASE op # "enable"
        <4>1. l \notin Enabling
          BY <3>2 DEF Starts, Enabling
        <4>2. QED
          BY <2>1, <2>2, <3>2, <4>1 DEF Enab
      <3>3. QED
        BY <3>1, <3>2
    <2>8. \A q, r \in Procs : Dom(q)' = d /\ Dom(r)' = d /\ pc'[q] = "begin" /\ pc'[r] = "begin" => q = r
      BY <2>1, <2>2, <2>4 DEF PollInv
    <2>9. \A q \in Procs : Dom(q)' = d =>
            /\ pc'[q] = "begin" => polls'[d] = None /\ check'[d] = job'[q].conf
            /\ pc'[q] \in {"prune", "halt"} \cup Cleared => check'[d] = None
            /\ pc'[q] \in {"drop"} \cup Cleared => polls'[d] = None
      BY <2>1, <2>2, <2>4, <2>5, <2>6 DEF PollInv
    <2>10. ASSUME ~Clear(d)', \A q \in Procs : Dom(q)' = d => pc'[q] # "begin"
           PROVE  polls'[d] = check'[d]
      <3>1. ~Clear(d)
        BY <2>3, <2>10 DEF Clear, Removing, Disabling, Destroying, Undoing
      <3>2. \A q \in Procs : Dom(q) = d => pc[q] # "begin"
        BY <2>3, <2>10
      <3>3. QED
        BY <3>1, <3>2, <2>1, <2>6 DEF PollInv
    <2>11. QED
      BY <2>7, <2>8, <2>9, <2>10 DEF PollInv
  <1>9. \A e \in Domains : PollInv(e)' /\ LogInv(e)'
    BY <1>6, <1>7, <1>8
  <1>10. UNCHANGED <<site, made, jobs, cron>> /\ job'[p].op # "add"
    BY <1>1, <1>4 DEF rows
  <1>11. l \notin {"insert", "dropRows", "reload", "load"}
    OBVIOUS
  <1>12. QED
    BY <1>4, <1>5, <1>9, <1>10, <1>11, QuietKeeps

LEMMA BeginKeeps ==
  ASSUME IInv, NEW p \in Procs, NEW d \in Domains,
         \/ BeginCreate(p, d) \/ BeginDestroy(p, d) \/ BeginAdd(p, d) \/ BeginRemove(p, d)
         \/ BeginDisable(p, d) \/ \E c \in Configs : BeginEnable(p, d, c)
  PROVE  IInv'
  <1>1. CASE BeginCreate(p, d)
    BY <1>1, BeginQuiet DEF BeginCreate, Starts, Locked
  <1>2. CASE BeginDestroy(p, d)
    BY <1>2, BeginMinds DEF BeginDestroy, Starts, Locked
  <1>3. CASE BeginAdd(p, d)
    BY <1>3, BeginQuiet DEF BeginAdd, Access, Starts, Locked
  <1>4. CASE BeginRemove(p, d)
    BY <1>4, BeginQuiet DEF BeginRemove, Starts, Locked
  <1>5. CASE BeginDisable(p, d)
    BY <1>5, BeginMinds DEF BeginDisable, Starts, Locked
  <1>6. CASE \E c \in Configs : BeginEnable(p, d, c)
    BY <1>6, BeginMinds DEF BeginEnable, Starts, Locked
  <1>7. QED
    BY <1>1, <1>2, <1>3, <1>4, <1>5, <1>6

---------------------------------------------------------------------------------
(* Polls, the restart, and steps of nobody. *)

LEMMA LogKeeps ==
  ASSUME IInv, NEW d \in Domains, Log(d), pinging' \subseteq pinging
  PROVE  IInv'
  <1>1. /\ logs' = logs \cup {d} /\ UNCHANGED <<lock, rows, cron, polls, pc, job>>
        /\ excuse' = IF check[d] = None THEN excuse \cup {<<d, "late">>} ELSE excuse
    BY DEF Log
  <1>2. ProcInv'
    BY <1>1 DEF IInv, ProcInv, OpInv, Holds, Dom
  <1>3. DataInv'
    BY <1>1 DEF IInv, DataInv, rows, cron
  <1>4. GenInv' /\ MuInv' /\ LoadInv'
    BY <1>1 DEF IInv, GenInv, MuInv, LoadInv, Known, Reloading, Gone, Dom, rows, cron
  <1>5. ASSUME NEW e \in Domains
        PROVE  PollInv(e)' /\ LogInv(e)'
    <2>1. Excused(e)' <=> Excused(e)
      BY <1>1 DEF Excused
    <2>2. PollInv(e)'
      BY <1>1, <2>1 DEF IInv, PollInv, Enab, Clear, Dom, rows
    <2>3. LogInv(e)'
      <3>1. Pruning(e) => Pruning(e)'
        BY <1>1 DEF Pruning, Dom
      <3>2. QED
        BY <1>1, <3>1 DEF IInv, LogInv, rows
    <2>4. QED
      BY <2>2, <2>3
  <1>6. QED
    BY <1>2, <1>3, <1>4, <1>5 DEF IInv

LEMMA RestartKeeps ==
  ASSUME IInv, Restart
  PROVE  IInv'
  <1>1. /\ lock' = {} /\ mu' = None /\ pinging' = {} /\ polls' = check
        /\ pc' = [p \in Procs |-> "idle"] /\ job' = [p \in Procs |-> Idle]
        /\ excuse' = {d \in logs : check[d] = None} \X {"late"}
        /\ UNCHANGED <<rows, cur, logs>>
    BY DEF Restart
  <1>2. Idle \in Job /\ Idle.op = "none"
    BY SitesAssumption DEF Idle, Job, Ops
  <1>3. \A p \in Procs : pc'[p] = "idle" /\ job'[p] = Idle
    BY <1>1
  <1>4. ProcInv'
    <2>1. pc' \in [Procs -> Labels] /\ job' \in [Procs -> Job]
      BY <1>1, <1>2 DEF Labels
    <2>2. \A p \in Procs : OpInv(p)' /\ ~Holds(p)'
      BY <1>2, <1>3 DEF OpInv, Holds, Locked, Creating, Undoing, Destroying, Adding, Enabling, Disabling
    <2>3. QED
      BY <1>1, <2>1, <2>2 DEF ProcInv
  <1>5. /\ crons' \in [Crons -> Ticker] /\ crons'[cur].on /\ crons'[cur].entries = jobs
        /\ \A c \in Crons \ {cur} : ~crons'[c].on /\ crons'[c].entries = {}
    <2>1. jobs \in SUBSET Row /\ cur \in Crons
      BY DEF IInv, DataInv
    <2>2. [on |-> TRUE, entries |-> jobs] \in Ticker /\ [on |-> FALSE, entries |-> {}] \in Ticker
      BY <2>1 DEF Ticker
    <2>3. QED
      BY <2>1, <2>2 DEF Restart, Fresh
  <1>6. DataInv'
    BY <1>1, <1>5 DEF IInv, DataInv, rows
  <1>7. GenInv'
    BY <1>1, <1>2, <1>3, <1>5 DEF IInv, GenInv, Known, rows
  <1>8. MuInv'
    BY <1>1, <1>3, <1>5, NoneAssumption DEF MuInv
  <1>9. LoadInv'
    BY <1>1, <1>5 DEF LoadInv, rows
  <1>10. ASSUME NEW d \in Domains
         PROVE  PollInv(d)' /\ LogInv(d)'
    <2>1. polls'[d] = check'[d] /\ (d \in logs' /\ check'[d] = None => <<d, "late">> \in excuse')
      BY <1>1 DEF rows
    <2>2. \A p \in Procs : pc'[p] \notin {"begin", "drop", "prune", "halt"} \cup Cleared /\ pc'[p] \notin Enabling
      BY <1>3 DEF Cleared, Enabling
    <2>3. ~Enab(d)'
      BY <2>2 DEF Enab
    <2>4. QED
      BY <2>1, <2>2, <2>3 DEF PollInv, LogInv
  <1>11. QED
    BY <1>4, <1>6, <1>7, <1>8, <1>9, <1>10 DEF IInv

LEMMA StutterKeeps ==
  ASSUME IInv, UNCHANGED vars
  PROVE  IInv'
  <1>1. UNCHANGED <<lock, site, made, jobs, check, crons, cur, mu, polls, pinging, logs, pc, job, excuse>>
    BY DEF vars, rows, cron, uptime
  <1>2. ProcInv' /\ DataInv' /\ GenInv' /\ MuInv' /\ LoadInv'
    BY <1>1 DEF IInv, ProcInv, OpInv, Holds, DataInv, GenInv, MuInv, LoadInv, Known, Reloading, Gone, Dom
  <1>3. ASSUME NEW d \in Domains
        PROVE  PollInv(d)' /\ LogInv(d)'
    <2>1. (Excused(d)' <=> Excused(d)) /\ (Pruning(d)' <=> Pruning(d))
      BY <1>1 DEF Excused, Pruning, Dom
    <2>2. PollInv(d)'
      BY <1>1, <2>1 DEF IInv, PollInv, Enab, Clear, Dom
    <2>3. QED
      BY <1>1, <2>1, <2>2 DEF IInv, LogInv
  <1>4. QED
    BY <1>2, <1>3 DEF IInv

LEMMA InitInv == Init => IInv
  <1> SUFFICES ASSUME Init
               PROVE  IInv
    OBVIOUS
  <1>1. /\ lock = {} /\ jobs = {} /\ excuse = {} /\ mu = None /\ pinging = {} /\ logs = {}
        /\ site = [d \in Domains |-> 0] /\ made = site /\ check = [d \in Domains |-> None]
        /\ polls = check
        /\ pc = [p \in Procs |-> "idle"] /\ job = [p \in Procs |-> Idle]
    BY DEF Init
  <1>2. cur \in Crons
    BY SomeCron DEF Init, First
  <1>3. Idle \in Job /\ Idle.op = "none"
    BY SitesAssumption DEF Idle, Job, Ops
  <1>4. \A p \in Procs : pc[p] = "idle" /\ job[p] = Idle
    BY <1>1
  <1>5. ProcInv
    <2>1. pc \in [Procs -> Labels] /\ job \in [Procs -> Job]
      BY <1>1, <1>3 DEF Labels
    <2>2. \A p \in Procs : OpInv(p) /\ ~Holds(p)
      BY <1>3, <1>4 DEF OpInv, Holds, Locked, Creating, Undoing, Destroying, Adding, Enabling, Disabling
    <2>3. QED
      BY <1>1, <2>1, <2>2 DEF ProcInv
  <1>6. /\ crons \in [Crons -> Ticker] /\ crons[cur].on
        /\ \A c \in Crons : crons[c].entries = {} /\ (crons[c].on <=> c = cur)
    BY <1>2 DEF Init, Fresh, Ticker
  <1>7. DataInv
    BY <1>1, <1>2, <1>6, SitesAssumption DEF DataInv
  <1>8. GenInv
    BY <1>1, <1>3, <1>4, <1>6, SitesAssumption DEF GenInv
  <1>9. MuInv
    BY <1>1, <1>4, <1>6, NoneAssumption DEF MuInv
  <1>10. LoadInv
    BY <1>1, <1>2, <1>6 DEF LoadInv
  <1>11. ASSUME NEW d \in Domains
         PROVE  PollInv(d) /\ LogInv(d)
    <2>1. polls[d] = check[d] /\ d \notin logs
      BY <1>1
    <2>2. \A p \in Procs : pc[p] \notin {"begin", "drop", "prune", "halt"} \cup Cleared /\ pc[p] \notin Enabling
      BY <1>4 DEF Cleared, Enabling
    <2>3. ~Enab(d)
      BY <2>2 DEF Enab
    <2>4. QED
      BY <2>1, <2>2, <2>3 DEF PollInv, LogInv
  <1>12. QED
    BY <1>5, <1>7, <1>8, <1>9, <1>10, <1>11 DEF IInv

LEMMA StepKeeps ==
  ASSUME IInv, NEW p \in Procs, Step(p)
  PROVE  IInv'
  <1>1. CASE SiteStep(p)
    BY <1>1, InsertSiteKeeps, BuiltKeeps, UndoCheckKeeps, UndoRowsKeeps, UndoSiteKeeps,
       DestroyStopsKeeps, DestroyCheckKeeps, DestroySiteKeeps, DestroyRowsKeeps DEF SiteStep
  <1>2. CASE RowStep(p)
    BY <1>2, AddRowKeeps, RemoveRowKeeps, InsertCheckKeeps, StartCheckKeeps, DisableCheckKeeps,
       DisablePrunesKeeps, DisableStopsKeeps DEF RowStep
  <1>3. CASE Reload(p) \/ Load(p)
    BY <1>3, ReloadKeeps, LoadKeeps
  <1>4. QED
    BY <1>1, <1>2, <1>3 DEF Step

LEMMA NextInv == IInv /\ [Next]_vars => IInv'
  <1> SUFFICES ASSUME IInv, [Next]_vars
               PROVE  IInv'
    OBVIOUS
  <1>1. ASSUME NEW p \in Procs, NEW d \in Domains,
               \/ BeginCreate(p, d) \/ BeginDestroy(p, d) \/ BeginAdd(p, d) \/ BeginRemove(p, d)
               \/ BeginDisable(p, d) \/ \E c \in Configs : BeginEnable(p, d, c)
        PROVE  IInv'
    BY <1>1, BeginKeeps
  <1>2. ASSUME NEW p \in Procs, Step(p)
        PROVE  IInv'
    BY <1>2, StepKeeps
  <1>3. ASSUME NEW d \in Domains, Poll(d) \/ LatePoll(d)
        PROVE  IInv'
    <2>1. Log(d) /\ pinging' \subseteq pinging
      BY <1>3 DEF Poll, LatePoll
    <2>2. QED
      BY <2>1, LogKeeps
  <1>4. CASE Restart
    BY <1>4, RestartKeeps
  <1>5. CASE UNCHANGED vars
    BY <1>5, StutterKeeps
  <1>6. QED
    BY <1>1, <1>2, <1>3, <1>4, <1>5 DEF Next

LEMMA Invariance == Spec => []IInv
  BY InitInv, NextInv, PTL DEF Spec

---------------------------------------------------------------------------------
(* Theorems. *)

(* Rows, entries, polls and requests keep their shape, the lock of a domain is of a create *)
(* or a destroy under way, and the manager points to a cron object that ticks unless it is *)
(* being rebuilt (Reload).                                                                 *)
THEOREM TypeCorrect == Spec => []TypeOK
  <1>1. IInv => TypeOK
    <2> SUFFICES ASSUME IInv
                 PROVE  TypeOK
      OBVIOUS
    <2>1. lock = {job[p].dom : p \in {p \in Procs : job[p].op \in Locked}}
      BY DEF IInv, ProcInv, Holds, Dom
    <2>2. pc \in [Procs -> Labels] /\ \A p \in Procs : pc[p] = "idle" <=> job[p] = Idle
      BY DEF IInv, ProcInv, OpInv
    <2>3. mu = None => crons[cur].on
      BY DEF IInv, MuInv, DataInv
    <2>4. QED
      BY <2>1, <2>2, <2>3 DEF IInv, DataInv, TypeOK
  <1>2. QED
    BY <1>1, Invariance, PTL

(* cron.go, scheduler.go: when no job is being added or removed, exactly one cron object *)
(* ticks, with an entry for every recorded job, and any other entry it has is of a site  *)
(* that a destroy or an undone create took away, however reloads, creates, destroys and  *)
(* restarts interleave.                                                                  *)
THEOREM LoadedRight == Spec => []LoadedAreTheRows
  <1>1. IInv => LoadedAreTheRows
    <2> SUFFICES ASSUME IInv, \A p \in Procs : job[p].op \notin {"add", "remove"}
                 PROVE  /\ Ticking = {cur}
                        /\ jobs \subseteq crons[cur].entries
                        /\ \A r \in crons[cur].entries \ jobs : Left(r)
      BY DEF LoadedAreTheRows
    <2>1. \A p \in Procs : pc[p] \notin Adding
      BY ProcFacts DEF OpInv
    <2>2. ~Reloading
      BY <2>1 DEF Reloading, Adding
    <2>3. mu = None
      BY <2>1 DEF IInv, MuInv, DataInv, Adding
    <2>4. Ticking = {cur}
      BY <2>3 DEF IInv, MuInv, DataInv, Ticking
    <2>5. \A r : Gone(r) => Left(r)
      <3>1. \A p \in Procs : pc[p] = "undoSite" => job[p].op \in Locked
        BY ProcFacts DEF OpInv, Creating, Undoing, Locked
      <3>2. QED
        BY <3>1 DEF Gone, Left, Doing
    <2>6. QED
      BY <2>2, <2>4, <2>5 DEF IInv, LoadInv
  <1>2. QED
    BY <1>1, Invariance, PTL

(* uptime.go: between enables, disables, creates and destroys a domain is polled exactly *)
(* as its row says, and only a domain with a row has logs, but for the excuses that the  *)
(* unguarded overlaps, the rollback of a create and a late answer give.                  *)
THEOREM PollsRight == Spec => []PollsFollowChecks
  <1>1. IInv => PollsFollowChecks
    <2> SUFFICES ASSUME IInv, NEW d \in Domains, Settled(d)
                 PROVE  /\ (\A w \in {"overlap", "rollback"} : <<d, w>> \notin excuse) => polls[d] = check[d]
                        /\ d \in logs /\ check[d] = None => <<d, "late">> \in excuse
      BY DEF PollsFollowChecks
    <2>1. \A p \in Procs : Dom(p) = d => pc[p] \notin Removing \cup Enabling \cup Creating
      BY DoingLabels DEF IInv, Settled
    <2>2. ~Clear(d) /\ \A p \in Procs : Dom(p) = d => pc[p] # "begin"
      BY <2>1 DEF Clear, Enabling
    <2>3. ~Pruning(d)
      BY <2>1 DEF Pruning, Removing, Disabling, Destroying, Undoing
    <2>4. PollInv(d) /\ LogInv(d)
      BY DEF IInv
    <2>5. QED
      BY <2>2, <2>3, <2>4 DEF PollInv, LogInv, Excused
  <1>2. QED
    BY <1>1, Invariance, PTL

=================================================================================

----------------------------- MODULE SiteLifecycleProofs -----------------------------
(***************************************************************************)
(* Theorems about SiteLifecycle, for every set of domains, requests,       *)
(* services, owners and drivers, and every number of failures and crashes. *)
(*                                                                         *)
(* A step is first summarised: it is a crash, or one request entering,     *)
(* working inside or leaving its critical section (StepShape). The         *)
(* inductive invariant is then preserved by each shape. On it rest         *)
(* Outcomes, which says of every label what an operation has made of its   *)
(* domain by then, and with it that every step of the engine is a step of  *)
(* SiteContract.                                                           *)
(***************************************************************************)
EXTENDS SiteLifecycle, TLAPS

Half == {"creating", "error"}
BuildLabels == {"prepare", "network", "services", "setup", "composeUp", "composeRoute",
                "finish", "rbCompose", "rbContainers", "rbRows"}
CreateLabels  == BuildLabels \cup {"insert", "reinsert"}
DestroyLabels == {"teardown", "composeTeardown", "dropRow"}

(* What a request's arguments are at each point. *)
ArgsOf(p) ==
  /\ InSection(p) => job[p].op \in Ops
  /\ pc[p] \in CreateLabels => /\ job[p].op = "provisioning"
                               /\ job[p].owner \in Owners /\ job[p].kind \in Kinds
  /\ pc[p] \in DestroyLabels => job[p].op = "destroying"

(* What the record of its domain is, as far as a request relies on it. *)
OwnsOf(p) ==
  /\ pc[p] \in BuildLabels => /\ site[Dom(p)] # NoSite
                              /\ site[Dom(p)].owner = job[p].owner
                              /\ site[Dom(p)].status \in Half
  /\ pc[p] = "reinsert" => site[Dom(p)] = NoSite
  /\ pc[p] \in DestroyLabels =>
       site[Dom(p)] = NoSite \/ site[Dom(p)].owner = job[p].owner

Args == \A p \in Procs : ArgsOf(p)
Owns == \A p \in Procs : OwnsOf(p)
Built == crashes = 0 => \A d \in Domains : site[d].status \in Half =>
           \E p \in Procs : pc[p] \in BuildLabels /\ Dom(p) = d
IInv == TypeOK /\ Args /\ MutualExclusion /\ Owns /\ Built

---------------------------------------------------------------------------------
(* The shapes of a step of request p. *)

OthersKeep(p) == \A q \in Procs \ {p} : pc'[q] = pc[q] /\ job'[q] = job[q]

Enters(p) ==
  /\ ~InSection(p) /\ InSection(p)' /\ job'[p].dom \in Domains /\ pc'[p] \notin BuildLabels
  /\ lock[job'[p].dom] = "free" /\ lock' = [lock EXCEPT ![job'[p].dom] = job'[p].op]
  /\ ArgsOf(p)' /\ OwnsOf(p)' /\ UNCHANGED <<site, crashes>>

Leaves(p) ==
  /\ InSection(p) /\ pc[p] \in Done /\ pc'[p] = "idle"
  /\ lock' = [lock EXCEPT ![Dom(p)] = "free"] /\ UNCHANGED <<site, crashes>>

(* Inside the section, by what happens to the record. *)
Elsewhere(p) == \A d \in Domains \ {Dom(p)} : site'[d] = site[d]
KeepsRecord(p) ==
  /\ UNCHANGED site /\ (pc'[p] \in BuildLabels <=> pc[p] \in BuildLabels)
  /\ pc'[p] = "reinsert" => pc[p] = "reinsert"
InsertsRecord(p) ==
  /\ pc[p] \in {"insert", "reinsert"} /\ pc'[p] = "prepare"
  /\ site'[Dom(p)] = NewRow(p)
ReclaimsRecord(p) ==
  /\ pc[p] = "insert" /\ pc'[p] = "reinsert" /\ site'[Dom(p)] = NoSite
  /\ site[Dom(p)].owner = job[p].owner /\ site[Dom(p)].status \in Half
FailsRecord(p) ==
  /\ pc[p] \in BuildLabels /\ pc'[p] \in BuildLabels
  /\ \E s \in Half : site' = IF site[Dom(p)] = NoSite THEN site
                             ELSE [site EXCEPT ![Dom(p)].status = s]
MarksRecord(p) ==
  /\ pc'[p] \notin CreateLabels \cup DestroyLabels
  /\ \E s \in {"running", "stopped"} : SetStatus(Dom(p), s)
DropsRecord(p) ==
  /\ pc[p] \in {"rbRows", "dropRow"} /\ pc'[p] \notin CreateLabels \cup DestroyLabels
  /\ site'[Dom(p)] = NoSite

Inside(p) ==
  /\ InSection(p) /\ InSection(p)' /\ UNCHANGED <<lock, crashes>> /\ Elsewhere(p)
  /\ job'[p].op = job[p].op /\ job'[p].dom = job[p].dom
  /\ job'[p].owner = job[p].owner /\ job'[p].kind = job[p].kind
  /\ pc'[p] \in CreateLabels => pc[p] \in CreateLabels
  /\ pc'[p] \in DestroyLabels => pc[p] \in DestroyLabels
  /\ \/ KeepsRecord(p) \/ InsertsRecord(p) \/ ReclaimsRecord(p)
     \/ FailsRecord(p) \/ MarksRecord(p) \/ DropsRecord(p)

---------------------------------------------------------------------------------
LEMMA NoJobType == NoJob \in Job
  BY DomainsAssumption DEF NoJob, Job, Phases

LEMMA JobType == ASSUME TypeOK, NEW p \in Procs PROVE
    /\ Dom(p) \in Domains
    /\ Keep(p) => job' \in [Procs -> Job]
    /\ Hurt(p) => job' \in [Procs -> Job]
    /\ \A u : Did(p, u) => job' \in [Procs -> Job]
<1>1. Dom(p) \in Domains
  BY DEF TypeOK, Dom, Job
<1>2. Keep(p) => job' \in [Procs -> Job]
  BY DEF TypeOK, Keep
<1>3. Hurt(p) => job' \in [Procs -> Job]
  <2> SUFFICES ASSUME Hurt(p) PROVE job' \in [Procs -> Job]
    OBVIOUS
  <2>1. job[p] \in Job /\ job \in [Procs -> Job]
    BY DEF TypeOK
  <2>2. CASE CtxLive(p)
    <3>1. (job[p].clean /\ ~CtxLive(p)) = FALSE BY <2>2
    <3>2. [job[p] EXCEPT !.clean = FALSE] \in Job BY <2>1 DEF Job
    <3> QED BY <2>1, <3>1, <3>2 DEF Hurt
  <2>3. CASE ~CtxLive(p)
    <3>1. (job[p].clean /\ ~CtxLive(p)) \in BOOLEAN OBVIOUS
    <3>2. \A b \in BOOLEAN : [job[p] EXCEPT !.clean = b] \in Job BY <2>1 DEF Job
    <3> QED BY <2>1, <3>1, <3>2 DEF Hurt
  <2> QED BY <2>2, <2>3
<1>4. ASSUME NEW u, Did(p, u) PROVE job' \in [Procs -> Job]
  <2>1. job[p].todo \in SUBSET Units /\ job[p] \in Job BY DEF TypeOK, Job
  <2>2. [job[p] EXCEPT !.todo = job[p].todo \ {u}] \in Job BY <2>1 DEF Job
  <2> QED BY <1>4, <2>2 DEF Did, TypeOK
<1> QED BY <1>1, <1>2, <1>3, <1>4

LEMMA StoreType == ASSUME TypeOK, NEW d \in Domains PROVE
    /\ \A s \in Statuses : SetStatus(d, s) => site' \in [Domains -> Row \cup {NoSite}]
    /\ \A S, s : s \in {"absent", "stopped", "running"} /\ SetUnits(d, S, s) =>
         cont' \in [Domains -> [Units -> {"absent", "stopped", "running"}]]
    /\ \A k \in Kinds, s \in {"absent", "bare", "routed"} : SetNet(d, k, s) =>
         net' \in [Domains -> [Kinds -> {"absent", "bare", "routed"}]]
    /\ ProjectNet(d) => net' \in [Domains -> [Kinds -> {"absent", "bare", "routed"}]]
<1>1. ASSUME NEW s \in Statuses, SetStatus(d, s) PROVE site' \in [Domains -> Row \cup {NoSite}]
  BY <1>1 DEF TypeOK, SetStatus, Row
<1>2. ASSUME NEW S, NEW s \in {"absent", "stopped", "running"}, SetUnits(d, S, s)
      PROVE  cont' \in [Domains -> [Units -> {"absent", "stopped", "running"}]]
  <2>1. cont[d] \in [Units -> {"absent", "stopped", "running"}] BY DEF TypeOK
  <2>2. [u \in Units |-> IF u \in S THEN s ELSE cont[d][u]]
          \in [Units -> {"absent", "stopped", "running"}] BY <2>1
  <2> QED BY <1>2, <2>2 DEF TypeOK, SetUnits
<1>3. ASSUME NEW k \in Kinds, NEW s \in {"absent", "bare", "routed"}, SetNet(d, k, s)
      PROVE  net' \in [Domains -> [Kinds -> {"absent", "bare", "routed"}]]
  BY <1>3 DEF TypeOK, SetNet
<1>4. ASSUME ProjectNet(d)
      PROVE  net' \in [Domains -> [Kinds -> {"absent", "bare", "routed"}]]
  BY <1>4 DEF TypeOK, ProjectNet, Kinds
<1> QED BY <1>1, <1>2, <1>3, <1>4

LEMMA FaultType == ASSUME TypeOK, NEW p \in Procs PROVE
    (Works(p) => faults' \in Nat) /\ (Fault(p) => faults' \in Nat)
  BY DEF TypeOK, Works, Fault

LEMMA FailType == ASSUME TypeOK, NEW p \in Procs, NEW s \in Statuses, Fail(p, s) PROVE
    site' \in [Domains -> Row \cup {NoSite}] /\ pc' \in [Procs -> Labels] /\ job' \in [Procs -> Job]
<1>1. site' \in [Domains -> Row \cup {NoSite}]
  BY JobType, StoreType DEF Fail
<1>2. pc' \in [Procs -> Labels]
  BY DEF Fail, Goto, TypeOK, Labels
<1>3. [job[p] EXCEPT !.todo = {}] \in Job
  BY DEF TypeOK, Job
<1> QED BY <1>1, <1>2, <1>3 DEF Fail, TypeOK
LEMMA ReadType == ASSUME TypeOK, NEW d \in Domains PROVE
    /\ Phase(d) \in Phases
    /\ Existing(d) \in SUBSET Units
    /\ Served(d).owner \in Owners \cup {Nobody} /\ Served(d).kind \in Kinds \cup {"none"}
    /\ Served(d).purge = FALSE /\ Served(d).todo \in SUBSET Units
<1>1. Phase(d) \in Phases
  BY DEF Phase, Phases
<1>2. Existing(d) \in SUBSET Units
  BY DEF Existing
<1>3. site[d].owner \in Owners \cup {Nobody} /\ site[d].kind \in Kinds \cup {"none"}
  BY DEF TypeOK, Row, NoSite
<1> QED BY <1>1, <1>2, <1>3 DEF Served

LEMMA BeginType ==
  ASSUME TypeOK, NEW p \in Procs, NEW op \in Ops, NEW d \in Domains, NEW rest, NEW l \in Labels,
         Begin(p, op, d, rest, l),
         rest.owner \in Owners \cup {Nobody}, rest.kind \in Kinds \cup {"none"},
         rest.purge \in BOOLEAN, rest.todo \in SUBSET Units
  PROVE  TypeOK'
<1> DEFINE new == [op |-> op, dom |-> d, clean |-> TRUE, gone |-> FALSE,
                   before |-> Phase(d), owner |-> rest.owner, kind |-> rest.kind,
                   purge |-> rest.purge, todo |-> rest.todo]
<1>1. new \in Job
  BY ReadType DEF Job
<1>2. job' \in [Procs -> Job]
  BY <1>1 DEF Begin, TypeOK
<1> QED BY <1>2 DEF Begin, Goto, TypeOK, docker

LEMMA BeginShape ==
  ASSUME TypeOK, NEW p \in Procs, NEW op \in Ops, NEW d \in Domains, NEW rest,
         NEW l \in Labels \ ({"idle", "reinsert"} \cup BuildLabels),
         Begin(p, op, d, rest, l),
         l = "insert" => op = "provisioning" /\ rest.owner \in Owners /\ rest.kind \in Kinds,
         l \in DestroyLabels => /\ op = "destroying"
                                /\ site[d] = NoSite \/ site[d].owner = rest.owner
  PROVE  Enters(p) /\ OthersKeep(p)
<1>1. /\ job'[p].op = op /\ job'[p].dom = d /\ job'[p].owner = rest.owner
      /\ job'[p].kind = rest.kind /\ pc'[p] = l /\ site' = site
  BY DEF Begin, Goto, TypeOK
<1>2. ArgsOf(p)'
  <2>1. l \in CreateLabels => l = "insert"
    BY DEF CreateLabels
  <2>2. job'[p].op \in Ops
    BY <1>1
  <2>3. pc'[p] \in CreateLabels => /\ job'[p].op = "provisioning"
                                   /\ job'[p].owner \in Owners /\ job'[p].kind \in Kinds
    BY <1>1, <2>1
  <2>4. pc'[p] \in DestroyLabels => job'[p].op = "destroying"
    BY <1>1
  <2> QED BY <2>2, <2>3, <2>4 DEF ArgsOf
<1>3. OwnsOf(p)'
  BY <1>1 DEF OwnsOf, Dom, DestroyLabels
<1>4. OthersKeep(p)
  BY DEF OthersKeep, Begin, Goto, TypeOK
<1>5. ~InSection(p) /\ InSection(p)'
  BY <1>1 DEF InSection, Begin, At
<1> QED BY <1>1, <1>2, <1>3, <1>4, <1>5 DEF Enters, Begin
(* Every request that takes a lock enters its section with sensible arguments. *)
Requesting(p) ==
  \/ BeginCreate(p) \/ BeginDestroy(p) \/ BeginStart(p) \/ BeginStop(p) \/ BeginRestart(p)
  \/ BeginUpdate(p) \/ BeginDeploy(p) \/ BeginQuiet(p)

LEMMA RequestShape == ASSUME TypeOK, NEW p \in Procs, Requesting(p)
                      PROVE  TypeOK' /\ Enters(p) /\ OthersKeep(p)
<1> USE DEF Ops, SiteOps, Labels, BuildLabels, DestroyLabels
<1>1. CASE BeginCreate(p)
  <2>1. PICK d \in Domains, o \in Owners, k \in Drivers :
          Begin(p, "provisioning", d, [owner |-> o, kind |-> k, purge |-> FALSE, todo |-> {}],
                "insert")
    BY <1>1 DEF BeginCreate
  <2> DEFINE rest == [owner |-> o, kind |-> k, purge |-> FALSE, todo |-> {}]
  <2>2. k \in Kinds
    BY DriversAssumption DEF Kinds
  <2>3. TypeOK'
    <3>1. /\ rest.owner \in Owners \cup {Nobody} /\ rest.kind \in Kinds \cup {"none"}
          /\ rest.purge \in BOOLEAN /\ rest.todo \in SUBSET Units
      BY <2>2
    <3>2. Begin(p, "provisioning", d, rest, "insert")
      BY <2>1
    <3> HIDE DEF rest
    <3> QED BY <3>1, <3>2, BeginType
  <2>4. Enters(p) /\ OthersKeep(p)
    BY <2>1, <2>2, BeginShape
  <2> QED BY <2>3, <2>4
<1>2. CASE BeginDestroy(p)
  <2>1. PICK d \in Domains, purge \in BOOLEAN : Begin(p, "destroying", d,
          [owner |-> IF site[d] = NoSite THEN Admin ELSE site[d].owner, kind |-> site[d].kind,
           purge |-> purge, todo |-> Existing(d)],
          IF site[d].kind = "compose" THEN "composeTeardown" ELSE "teardown")
    BY <1>2 DEF BeginDestroy
  <2>2. /\ site[d] = NoSite \/ site[d].owner \in Owners
        /\ site[d].kind \in Kinds \cup {"none"} /\ Existing(d) \in SUBSET Units
    BY ReadType DEF TypeOK, Row, NoSite, Served
  <2> DEFINE rest == [owner |-> IF site[d] = NoSite THEN Admin ELSE site[d].owner,
                      kind |-> site[d].kind, purge |-> purge, todo |-> Existing(d)]
  <2>3. TypeOK'
    <3>1. /\ rest.owner \in Owners \cup {Nobody} /\ rest.kind \in Kinds \cup {"none"}
          /\ rest.purge \in BOOLEAN /\ rest.todo \in SUBSET Units
      BY <2>2, AdminAssumption
    <3>2. Begin(p, "destroying", d, rest,
                IF site[d].kind = "compose" THEN "composeTeardown" ELSE "teardown")
      BY <2>1
    <3> HIDE DEF rest
    <3> QED BY <3>1, <3>2, BeginType
  <2>4. Enters(p) /\ OthersKeep(p)
    BY <2>1, <2>2, BeginShape
  <2> QED BY <2>3, <2>4
<1>3. CASE BeginStart(p)
  <2>1. PICK d \in Domains : Begin(p, "starting", d, Served(d), "starting")
    BY <1>3 DEF BeginStart
  <2>2. TypeOK'
    BY <2>1, BeginType, ReadType
  <2>3. Enters(p) /\ OthersKeep(p)
    BY <2>1, BeginShape
  <2> QED BY <2>2, <2>3
<1>4. CASE BeginStop(p)
  <2>1. PICK d \in Domains : Begin(p, "stopping", d, Served(d), "stopping")
    BY <1>4 DEF BeginStop
  <2>2. TypeOK'
    BY <2>1, BeginType, ReadType
  <2>3. Enters(p) /\ OthersKeep(p)
    BY <2>1, BeginShape
  <2> QED BY <2>2, <2>3
<1>5. CASE BeginRestart(p)
  <2>1. PICK d \in Domains : Begin(p, "restarting", d, Served(d), "stopping")
    BY <1>5 DEF BeginRestart
  <2>2. TypeOK'
    BY <2>1, BeginType, ReadType
  <2>3. Enters(p) /\ OthersKeep(p)
    BY <2>1, BeginShape
  <2> QED BY <2>2, <2>3
<1>6. CASE BeginUpdate(p)
  <2>1. PICK d \in Domains : Begin(p, "updating", d,
          [Served(d) EXCEPT !.todo = Existing(d) \cap Of(site[d].kind)],
          IF site[d] = NoSite THEN "failed"
          ELSE IF site[d].kind = "compose" THEN "pull" ELSE "recreate")
    BY <1>6 DEF BeginUpdate
  <2> DEFINE rest == [Served(d) EXCEPT !.todo = Existing(d) \cap Of(site[d].kind)]
  <2>2. /\ rest.owner \in Owners \cup {Nobody} /\ rest.kind \in Kinds \cup {"none"}
        /\ rest.purge \in BOOLEAN /\ rest.todo \in SUBSET Units
    BY ReadType DEF Served
  <2>3. TypeOK'
    BY <2>1, <2>2, BeginType
  <2>4. Enters(p) /\ OthersKeep(p)
    BY <2>1, BeginShape
  <2> QED BY <2>3, <2>4
<1>7. CASE BeginDeploy(p)
  <2>1. PICK d \in Domains, op \in {"deploying", "rolling back"} :
          Begin(p, op, d, [Served(d) EXCEPT !.todo = Existing(d)],
                IF site[d] = NoSite THEN "failed" ELSE "bounce")
    BY <1>7 DEF BeginDeploy
  <2> DEFINE rest == [Served(d) EXCEPT !.todo = Existing(d)]
  <2>2. /\ rest.owner \in Owners \cup {Nobody} /\ rest.kind \in Kinds \cup {"none"}
        /\ rest.purge \in BOOLEAN /\ rest.todo \in SUBSET Units
    BY ReadType DEF Served
  <2>3. TypeOK'
    BY <2>1, <2>2, BeginType
  <2>4. Enters(p) /\ OthersKeep(p)
    BY <2>1, BeginShape
  <2> QED BY <2>3, <2>4
<1>8. CASE BeginQuiet(p)
  <2>1. PICK d \in Domains, op \in Quiet : Begin(p, op, d, Served(d), "quiet")
    BY <1>8 DEF BeginQuiet
  <2>2. TypeOK'
    BY <2>1, BeginType, ReadType
  <2>3. Enters(p) /\ OthersKeep(p)
    BY <2>1, BeginShape
  <2> QED BY <2>2, <2>3
<1> QED BY <1>1, <1>2, <1>3, <1>4, <1>5, <1>6, <1>7, <1>8 DEF Requesting
---------------------------------------------------------------------------------
(* Type correctness of the steps inside the section. *)
LEMMA InsideType ==
  ASSUME TypeOK, Args, NEW p \in Procs, CreateStep(p) \/ DestroyStep(p) \/ RunStep(p)
  PROVE  TypeOK'
<1>1. CASE RefuseCreate(p)
  BY <1>1, JobType, StoreType, FaultType, FailType, NoJobType
     DEF RefuseCreate, Goto, TypeOK, docker, Labels, Statuses, Kinds
<1>2. CASE InsertRow(p)
  <2>1. NewRow(p) \in Row
    BY <1>2 DEF Args, ArgsOf, CreateLabels, NewRow, Row, Statuses, InsertRow, At
  <2>2. site' \in [Domains -> Row \cup {NoSite}]
    BY <1>2, <2>1, JobType DEF InsertRow, TypeOK
  <2> QED BY <1>2, <2>2, JobType DEF InsertRow, Goto, TypeOK, docker, Labels
<1>3. CASE Reinsert(p)
  <2>1. NewRow(p) \in Row
    BY <1>3 DEF Args, ArgsOf, CreateLabels, NewRow, Row, Statuses, Reinsert, At
  <2>2. site' \in [Domains -> Row \cup {NoSite}]
    BY <1>3, <2>1, JobType DEF Reinsert, TypeOK
  <2> QED BY <1>3, <2>2, JobType DEF Reinsert, Goto, TypeOK, docker, Labels
<1>4. CASE Prepare(p)
  <2>1. files' \subseteq Owners \X Domains
    BY <1>4, JobType DEF Prepare, At, Args, ArgsOf, CreateLabels, BuildLabels, TypeOK
  <2> QED BY <1>4, <2>1, JobType, FaultType, FailType
          DEF Prepare, Goto, TypeOK, docker, Labels, Statuses
<1>5. CASE Network(p)
  <2> USE DEF Network
  <2>1. net' \in [Domains -> [Kinds -> {"absent", "bare", "routed"}]]
    <3>1. net[Dom(p)]["native"] \in {"absent", "bare", "routed"}
      BY JobType DEF TypeOK, Kinds
    <3> QED BY <1>5, <3>1, JobType, StoreType DEF TypeOK, Kinds
  <2>2. job' \in [Procs -> Job]
    <3>1. Of("native") \in SUBSET Units
      BY DEF Of, Units, Kinds
    <3>2. job[p] \in Job
      BY DEF TypeOK
    <3>3. /\ \A b \in BOOLEAN : [job[p] EXCEPT !.todo = Of("native"), !.clean = b] \in Job
          /\ [job[p] EXCEPT !.todo = Of("native")] \in Job
      BY <3>1, <3>2 DEF Job
    <3>4. CASE job' = [job EXCEPT ![p].todo = Of("native")]
      BY <3>3, <3>4 DEF TypeOK
    <3>5. CASE job' = [job EXCEPT ![p].todo = Of("native"), ![p].clean = @ /\ ~CtxLive(p)]
      <4>1. (job[p].clean /\ ~CtxLive(p)) \in BOOLEAN
        OBVIOUS
      <4>2. job' = [job EXCEPT ![p] = [@ EXCEPT !.todo = Of("native"),
                                                !.clean = (job[p].clean /\ ~CtxLive(p))]]
        BY <3>5 DEF TypeOK, Job
      <4> QED BY <3>3, <4>1, <4>2 DEF TypeOK
    <3> QED BY <1>5, <3>4, <3>5, FailType DEF Statuses
  <2> QED BY <1>5, <2>1, <2>2, FaultType, FailType DEF Goto, TypeOK, docker, Labels, Statuses
<1>6. CASE ServiceUp(p)
  BY <1>6, JobType, StoreType, FaultType, FailType, NoJobType
     DEF ServiceUp, Goto, TypeOK, docker, Labels, Statuses, Kinds
<1>7. CASE ServicesUp(p)
  BY <1>7, JobType, StoreType, FaultType, FailType, NoJobType
     DEF ServicesUp, Goto, TypeOK, docker, Labels, Statuses, Kinds
<1>8. CASE Setup(p)
  BY <1>8, JobType, StoreType, FaultType, FailType, NoJobType
     DEF Setup, Goto, TypeOK, docker, Labels, Statuses, Kinds
<1>9. CASE ComposeUp(p)
  BY <1>9, JobType, StoreType, FaultType, FailType, NoJobType
     DEF ComposeUp, Goto, TypeOK, docker, Labels, Statuses, Kinds
<1>10. CASE ComposeRoute(p)
  BY <1>10, JobType, StoreType, FaultType, FailType, NoJobType
     DEF ComposeRoute, Goto, TypeOK, docker, Labels, Statuses, Kinds
<1>11. CASE FinishCreate(p)
  BY <1>11, JobType, StoreType, FaultType, FailType, NoJobType
     DEF FinishCreate, Goto, TypeOK, docker, Labels, Statuses, Kinds
<1>12. CASE RollbackCompose(p)
  BY <1>12, JobType, StoreType, FaultType, FailType, NoJobType
     DEF RollbackCompose, Goto, ComposeDown, TypeOK, docker, Labels, Statuses, Kinds
<1>13. CASE RollbackContainers(p)
  BY <1>13, JobType, StoreType, FaultType, FailType, NoJobType
     DEF RollbackContainers, Goto, TypeOK, docker, Labels, Statuses, Kinds
<1>14. CASE RollbackRows(p)
  BY <1>14, JobType, StoreType, FaultType, FailType, NoJobType
     DEF RollbackRows, Goto, TypeOK, docker, Labels, Statuses, Kinds
<1>15. CASE Teardown(p)
  <2>1. PICK u \in job[p].todo :
          \/ Works(p) /\ SetUnits(Dom(p), {u}, "absent") /\ Did(p, u) /\ UNCHANGED pc
          \/ /\ Fault(p) /\ Hurt(p) /\ Goto(p, "failed")
             /\ \E s \in {"stopped", cont[Dom(p)][u]} : SetUnits(Dom(p), {u}, s)
    BY <1>15 DEF Teardown
  <2>2. u \in Units /\ cont[Dom(p)][u] \in {"absent", "stopped", "running"}
    BY JobType DEF TypeOK, Job
  <2>3. cont' \in [Domains -> [Units -> {"absent", "stopped", "running"}]]
    BY <2>1, <2>2, JobType, StoreType
  <2> QED BY <1>15, <2>1, <2>3, JobType, FaultType DEF Teardown, Goto, TypeOK, docker, Labels
<1>16. CASE TornDown(p)
  BY <1>16, JobType, StoreType, FaultType, FailType, NoJobType
     DEF TornDown, Goto, TypeOK, docker, Labels, Statuses, Kinds
<1>17. CASE ComposeTeardown(p)
  BY <1>17, JobType, StoreType, FaultType, FailType, NoJobType
     DEF ComposeTeardown, Goto, ComposeDown, TypeOK, docker, Labels, Statuses, Kinds
<1>18. CASE DropRow(p)
  BY <1>18, JobType, StoreType, FaultType, FailType, NoJobType
     DEF DropRow, Goto, TypeOK, docker, Labels, Statuses, Kinds
<1>19. CASE DropNet(p)
  BY <1>19, JobType, StoreType, FaultType, FailType, NoJobType
     DEF DropNet, Goto, TypeOK, docker, Labels, Statuses, Kinds
<1>20. CASE DropFiles(p)
  BY <1>20, JobType, StoreType, FaultType, FailType, NoJobType
     DEF DropFiles, Goto, TypeOK, docker, Labels, Statuses, Kinds
<1>21. CASE StartOne(p)
  BY <1>21, JobType, StoreType, FaultType, FailType, NoJobType
     DEF StartOne, Goto, Each, TypeOK, docker, Labels, Statuses, Kinds
<1>22. CASE StopOne(p)
  BY <1>22, JobType, StoreType, FaultType, FailType, NoJobType
     DEF StopOne, Goto, Each, TypeOK, docker, Labels, Statuses, Kinds
<1>23. CASE MarkRunning(p)
  <2>1. Served(Dom(p)).todo \in SUBSET Units
    BY JobType, ReadType
  <2>2. \A S \in SUBSET Units : [job[p] EXCEPT !.todo = S] \in Job
    <3>1. job[p] \in Job
      BY DEF TypeOK
    <3> QED BY <3>1 DEF Job
  <2>3. job' \in [Procs -> Job]
    <3>1. job' = job \/ \E S \in SUBSET Units : job' = [job EXCEPT ![p].todo = S]
      BY <1>23, <2>1 DEF MarkRunning, Mark, Keep
    <3> QED BY <2>2, <3>1 DEF TypeOK
  <2>4. site' \in [Domains -> Row \cup {NoSite}]
    BY <1>23, JobType, StoreType DEF MarkRunning, Mark, Statuses
  <2> QED BY <1>23, <2>3, <2>4 DEF MarkRunning, Mark, Goto, TypeOK, docker, Labels
<1>24. CASE MarkStopped(p)
  <2>1. Served(Dom(p)).todo \in SUBSET Units
    BY JobType, ReadType
  <2>2. \A S \in SUBSET Units : [job[p] EXCEPT !.todo = S] \in Job
    <3>1. job[p] \in Job
      BY DEF TypeOK
    <3> QED BY <3>1 DEF Job
  <2>3. job' \in [Procs -> Job]
    <3>1. job' = job \/ \E S \in SUBSET Units : job' = [job EXCEPT ![p].todo = S]
      BY <1>24, <2>1 DEF MarkStopped, Mark, Keep
    <3> QED BY <2>2, <3>1 DEF TypeOK
  <2>4. site' \in [Domains -> Row \cup {NoSite}]
    BY <1>24, JobType, StoreType DEF MarkStopped, Mark, Statuses
  <2> QED BY <1>24, <2>3, <2>4 DEF MarkStopped, Mark, Goto, TypeOK, docker, Labels
<1>25. CASE Recreate(p)
  <2>1. PICK u \in job[p].todo :
          \/ Works(p) /\ SetUnits(Dom(p), {u}, "running") /\ Did(p, u) /\ UNCHANGED pc
          \/ /\ Fault(p) /\ Hurt(p) /\ Goto(p, "failed")
             /\ \E s \in {cont[Dom(p)][u], "stopped", "absent"} : SetUnits(Dom(p), {u}, s)
    BY <1>25 DEF Recreate
  <2>2. u \in Units /\ cont[Dom(p)][u] \in {"absent", "stopped", "running"}
    BY JobType DEF TypeOK, Job
  <2>3. cont' \in [Domains -> [Units -> {"absent", "stopped", "running"}]]
    BY <2>1, <2>2, JobType, StoreType
  <2> QED BY <1>25, <2>1, <2>3, JobType, FaultType DEF Recreate, Goto, TypeOK, docker, Labels
<1>26. CASE Recreated(p)
  BY <1>26, JobType, StoreType, FaultType, FailType, NoJobType
     DEF Recreated, Goto, TypeOK, docker, Labels, Statuses, Kinds
<1>27. CASE ComposePull(p)
  BY <1>27, JobType, StoreType, FaultType, FailType, NoJobType
     DEF ComposePull, Goto, TypeOK, docker, Labels, Statuses, Kinds
<1>28. CASE Bounce(p)
  <2>1. PICK u \in job[p].todo :
          \/ Works(p) /\ SetUnits(Dom(p), {u}, "running") /\ Did(p, u)
          \/ /\ Fault(p) /\ SetUnits(Dom(p), {u}, "stopped")
             /\ job' = [job EXCEPT ![p].todo = @ \ {u}, ![p].clean = @ /\ ~CtxLive(p)]
    BY <1>28 DEF Bounce
  <2>2. job' \in [Procs -> Job]
    <3>1. \A b \in BOOLEAN : [job[p] EXCEPT !.todo = job[p].todo \ {u}, !.clean = b] \in Job
      <4>1. job[p] \in Job
        BY DEF TypeOK
      <4> QED BY <4>1 DEF Job
    <3>2. CASE Did(p, u)
      BY <3>2, JobType
    <3>3. CASE job' = [job EXCEPT ![p].todo = @ \ {u}, ![p].clean = @ /\ ~CtxLive(p)]
      <4>1. (job[p].clean /\ ~CtxLive(p)) \in BOOLEAN
        OBVIOUS
      <4>2. job' = [job EXCEPT ![p] = [@ EXCEPT !.todo = job[p].todo \ {u},
                                                !.clean = (job[p].clean /\ ~CtxLive(p))]]
        BY <3>3 DEF TypeOK, Job
      <4> QED BY <3>1, <4>1, <4>2 DEF TypeOK
    <3> QED BY <2>1, <3>2, <3>3
  <2> QED BY <1>28, <2>1, <2>2, JobType, StoreType, FaultType DEF Bounce, TypeOK, docker
<1>29. CASE DeployEnds(p)
  BY <1>29, JobType, StoreType, FaultType, FailType, NoJobType
     DEF DeployEnds, Goto, TypeOK, docker, Labels, Statuses, Kinds
<1>30. CASE EndQuiet(p)
  BY <1>30, JobType, StoreType, FaultType, FailType, NoJobType
     DEF EndQuiet, Goto, TypeOK, docker, Labels, Statuses, Kinds
<1> QED
  BY <1>1, <1>2, <1>3, <1>4, <1>5, <1>6, <1>7, <1>8, <1>9, <1>10, <1>11, <1>12,
     <1>13, <1>14, <1>15, <1>16, <1>17, <1>18, <1>19, <1>20, <1>21, <1>22, <1>23,
     <1>24, <1>25, <1>26, <1>27, <1>28, <1>29, <1>30
  DEF CreateStep, DestroyStep, RunStep
---------------------------------------------------------------------------------
(* Every step inside the section has one of the shapes. *)
JobKeeps(p) ==
  /\ job'[p].op = job[p].op /\ job'[p].dom = job[p].dom
  /\ job'[p].owner = job[p].owner /\ job'[p].kind = job[p].kind
  /\ \A q \in Procs \ {p} : job'[q] = job[q]

LEMMA JobShape == ASSUME TypeOK, NEW p \in Procs PROVE
    /\ Keep(p) => JobKeeps(p)
    /\ Hurt(p) => JobKeeps(p)
    /\ \A u : Did(p, u) => JobKeeps(p)
    /\ \A S : job' = [job EXCEPT ![p].todo = S] => JobKeeps(p)
    /\ \A S, b : job' = [job EXCEPT ![p].todo = S, ![p].clean = b] => JobKeeps(p)
<1>1. job \in [Procs -> Job] /\ job[p] \in Job
  BY DEF TypeOK
<1> QED BY <1>1 DEF Keep, Hurt, Did, JobKeeps, Job

LEMMA RecordShape == ASSUME TypeOK, NEW d \in Domains PROVE
    /\ \A s : SetStatus(d, s) => \A e \in Domains \ {d} : site'[e] = site[e]
  BY DEF TypeOK, SetStatus

LEMMA FailShape ==
  ASSUME TypeOK, NEW p \in Procs, NEW s \in Half, Fail(p, s), pc[p] \in BuildLabels
  PROVE  FailsRecord(p) /\ Elsewhere(p) /\ JobKeeps(p) /\ pc'[p] \in BuildLabels
         /\ \A q \in Procs \ {p} : pc'[q] = pc[q]
<1>1. Dom(p) \in Domains
  BY JobType
<1>2. JobKeeps(p)
  BY JobShape DEF Fail
<1>3. Elsewhere(p)
  BY <1>1, RecordShape DEF Fail, Elsewhere
<1>4. pc'[p] \in {"rbCompose", "rbContainers"} /\ \A q \in Procs \ {p} : pc'[q] = pc[q]
  BY DEF Fail, Goto, TypeOK
<1> QED BY <1>2, <1>3, <1>4 DEF FailsRecord, Fail, SetStatus, BuildLabels

LEMMA InsideShape == ASSUME TypeOK, NEW p \in Procs, CreateStep(p) \/ DestroyStep(p) \/ RunStep(p)
                     PROVE  Inside(p) /\ OthersKeep(p)
<1> USE DEF At, Goto, BuildLabels, CreateLabels, DestroyLabels
<1> SUFFICES /\ InSection(p) /\ InSection(p)' /\ UNCHANGED <<lock, crashes>> /\ Elsewhere(p)
             /\ JobKeeps(p) /\ \A q \in Procs \ {p} : pc'[q] = pc[q]
             /\ pc'[p] \in CreateLabels => pc[p] \in CreateLabels
             /\ pc'[p] \in DestroyLabels => pc[p] \in DestroyLabels
             /\ \/ KeepsRecord(p) \/ InsertsRecord(p) \/ ReclaimsRecord(p)
                \/ FailsRecord(p) \/ MarksRecord(p) \/ DropsRecord(p)
  BY DEF Inside, OthersKeep, JobKeeps
<1>0. pc \in [Procs -> Labels] /\ Dom(p) \in Domains /\ site \in [Domains -> Row \cup {NoSite}]
  BY JobType DEF TypeOK
<1>1. CASE RefuseCreate(p)
  BY <1>0, <1>1, JobShape DEF RefuseCreate, InSection, Elsewhere, KeepsRecord
<1>2. CASE InsertRow(p)
  BY <1>0, <1>2, JobShape
     DEF InsertRow, Reclaimable, InSection, Elsewhere, InsertsRecord, ReclaimsRecord, KeepsRecord,
         Half
<1>3. CASE Reinsert(p)
  BY <1>0, <1>3, JobShape DEF Reinsert, InSection, Elsewhere, InsertsRecord
<1>4. CASE Prepare(p)
  BY <1>0, <1>4, JobShape, FailShape DEF Prepare, InSection, Elsewhere, KeepsRecord, Half
<1>5. CASE Network(p)
  BY <1>0, <1>5, JobShape, FailShape DEF Network, InSection, Elsewhere, KeepsRecord, Half
<1>6. CASE ServiceUp(p)
  BY <1>0, <1>6, JobShape, FailShape DEF ServiceUp, InSection, Elsewhere, KeepsRecord, Half
<1>7. CASE ServicesUp(p)
  BY <1>0, <1>7, JobShape DEF ServicesUp, InSection, Elsewhere, KeepsRecord
<1>8. CASE Setup(p)
  BY <1>0, <1>8, JobShape, FailShape DEF Setup, InSection, Elsewhere, KeepsRecord, Half
<1>9. CASE ComposeUp(p)
  BY <1>0, <1>9, JobShape, FailShape DEF ComposeUp, InSection, Elsewhere, KeepsRecord, Half
<1>10. CASE ComposeRoute(p)
  BY <1>0, <1>10, JobShape, FailShape DEF ComposeRoute, InSection, Elsewhere, KeepsRecord, Half
<1>11. CASE FinishCreate(p)
  BY <1>0, <1>11, JobShape, RecordShape DEF FinishCreate, InSection, Elsewhere, MarksRecord
<1>12. CASE RollbackCompose(p)
  BY <1>0, <1>12, JobShape DEF RollbackCompose, ComposeDown, InSection, Elsewhere, KeepsRecord
<1>13. CASE RollbackContainers(p)
  BY <1>0, <1>13, JobShape DEF RollbackContainers, InSection, Elsewhere, KeepsRecord
<1>14. CASE RollbackRows(p)
  BY <1>0, <1>14, JobShape DEF RollbackRows, InSection, Elsewhere, DropsRecord
<1>15. CASE Teardown(p)
  BY <1>0, <1>15, JobShape DEF Teardown, InSection, Elsewhere, KeepsRecord
<1>16. CASE TornDown(p)
  BY <1>0, <1>16, JobShape DEF TornDown, InSection, Elsewhere, KeepsRecord
<1>17. CASE ComposeTeardown(p)
  BY <1>0, <1>17, JobShape DEF ComposeTeardown, ComposeDown, InSection, Elsewhere, KeepsRecord
<1>18. CASE DropRow(p)
  BY <1>0, <1>18, JobShape DEF DropRow, InSection, Elsewhere, DropsRecord
<1>19. CASE DropNet(p)
  BY <1>0, <1>19, JobShape DEF DropNet, InSection, Elsewhere, KeepsRecord
<1>20. CASE DropFiles(p)
  BY <1>0, <1>20, JobShape DEF DropFiles, InSection, Elsewhere, KeepsRecord
<1>21. CASE StartOne(p)
  BY <1>0, <1>21, JobShape DEF StartOne, Each, InSection, Elsewhere, KeepsRecord
<1>22. CASE StopOne(p)
  BY <1>0, <1>22, JobShape DEF StopOne, Each, InSection, Elsewhere, KeepsRecord
<1>23. CASE MarkRunning(p)
  BY <1>0, <1>23, JobShape, RecordShape DEF MarkRunning, Mark, InSection, Elsewhere, MarksRecord
<1>24. CASE MarkStopped(p)
  BY <1>0, <1>24, JobShape, RecordShape DEF MarkStopped, Mark, InSection, Elsewhere, MarksRecord
<1>25. CASE Recreate(p)
  BY <1>0, <1>25, JobShape DEF Recreate, InSection, Elsewhere, KeepsRecord
<1>26. CASE Recreated(p)
  BY <1>0, <1>26, JobShape DEF Recreated, InSection, Elsewhere, KeepsRecord
<1>27. CASE ComposePull(p)
  BY <1>0, <1>27, JobShape DEF ComposePull, InSection, Elsewhere, KeepsRecord
<1>28. CASE Bounce(p)
  BY <1>0, <1>28, JobShape DEF Bounce, InSection, Elsewhere, KeepsRecord
<1>29. CASE DeployEnds(p)
  BY <1>0, <1>29, JobShape DEF DeployEnds, InSection, Elsewhere, KeepsRecord
<1>30. CASE EndQuiet(p)
  BY <1>0, <1>30, JobShape DEF EndQuiet, InSection, Elsewhere, KeepsRecord
<1> QED
  BY <1>1, <1>2, <1>3, <1>4, <1>5, <1>6, <1>7, <1>8, <1>9, <1>10, <1>11, <1>12,
     <1>13, <1>14, <1>15, <1>16, <1>17, <1>18, <1>19, <1>20, <1>21, <1>22, <1>23,
     <1>24, <1>25, <1>26, <1>27, <1>28, <1>29, <1>30
  DEF CreateStep, DestroyStep, RunStep

LEMMA LeaveShape == ASSUME TypeOK, NEW p \in Procs, Release(p)
                    PROVE  TypeOK' /\ Leaves(p) /\ OthersKeep(p)
<1>1. Dom(p) \in Domains
  BY JobType
<1>2. TypeOK'
  BY <1>1, NoJobType DEF Release, Goto, TypeOK, docker, Labels
<1> QED BY <1>1, <1>2 DEF Release, Leaves, OthersKeep, Goto, Done, InSection, TypeOK

LEMMA GoneShape == ASSUME TypeOK, NEW p \in Procs, ClientGone(p)
                   PROVE  TypeOK' /\ Inside(p) /\ OthersKeep(p)
<1>1. job[p] \in Job /\ job \in [Procs -> Job]
  BY DEF TypeOK
<1>2. [job[p] EXCEPT !.gone = TRUE] \in Job
  BY <1>1 DEF Job
<1>3. TypeOK'
  BY <1>2 DEF ClientGone, TypeOK, docker
<1>4. Inside(p) /\ OthersKeep(p)
  BY <1>1 DEF ClientGone, Inside, OthersKeep, InSection, Elsewhere, KeepsRecord, Job
<1> QED BY <1>3, <1>4

LEMMA StepShape ==
  ASSUME TypeOK, Args, Next
  PROVE  /\ TypeOK'
         /\ Crash \/ \E p \in Procs :
              OthersKeep(p) /\ (Enters(p) \/ Inside(p) \/ Leaves(p))
<1>1. CASE Crash
  BY <1>1, NoJobType DEF Crash, TypeOK, docker, Labels
<1>2. ASSUME NEW p \in Procs, Step(p) \/ Request(p)
      PROVE  TypeOK' /\ OthersKeep(p) /\ (Enters(p) \/ Inside(p) \/ Leaves(p))
  <2>1. CASE CreateStep(p) \/ DestroyStep(p) \/ RunStep(p)
    BY <2>1, InsideType, InsideShape
  <2>2. CASE Release(p)
    BY <2>2, LeaveShape
  <2>3. CASE ClientGone(p)
    BY <2>3, GoneShape
  <2>4. CASE Requesting(p)
    BY <2>4, RequestShape
  <2> QED BY <1>2, <2>1, <2>2, <2>3, <2>4 DEF Step, Request, Requesting
<1> QED BY <1>1, <1>2 DEF Next

---------------------------------------------------------------------------------
(* The inductive invariant. *)

LEMMA InitInv == Init => IInv
<1> SUFFICES ASSUME Init PROVE IInv
  OBVIOUS
<1>1. TypeOK
  BY NoJobType DEF Init, TypeOK, Labels
<1>2. Args
  BY DEF Init, Args, ArgsOf, InSection, CreateLabels, BuildLabels, DestroyLabels
<1>3. MutualExclusion
  BY DEF Init, MutualExclusion, InSection
<1>4. Owns
  BY DEF Init, Owns, OwnsOf, BuildLabels, DestroyLabels
<1>5. Built
  BY DEF Init, Built, NoSite, Half
<1> QED BY <1>1, <1>2, <1>3, <1>4, <1>5 DEF IInv

LEMMA CrashInv == ASSUME IInv, Crash PROVE IInv'
<1>1. /\ \A p \in Procs : pc'[p] = "idle"
      /\ \A d \in Domains : lock'[d] = "free"
      /\ crashes \in Nat /\ crashes' = crashes + 1
  BY DEF IInv, TypeOK, Crash
<1>2. TypeOK'
  BY NoJobType DEF IInv, Crash, TypeOK, docker, Labels
<1>3. Args'
  BY <1>1 DEF Args, ArgsOf, InSection, CreateLabels, BuildLabels, DestroyLabels
<1>4. MutualExclusion'
  BY <1>1 DEF MutualExclusion, InSection
<1>5. Owns'
  BY <1>1 DEF Owns, OwnsOf, BuildLabels, DestroyLabels
<1>6. Built'
  BY <1>1 DEF Built
<1> QED BY <1>2, <1>3, <1>4, <1>5, <1>6 DEF IInv

LEMMA EntersInv ==
  ASSUME IInv, TypeOK', NEW p \in Procs, Enters(p), OthersKeep(p)
  PROVE  IInv'
<1> DEFINE d == job'[p].dom
<1> USE DEF IInv
<1>1. /\ d \in Domains /\ Dom(p)' = d /\ lock[d] = "free" /\ site' = site
      /\ \A q \in Procs \ {p} : pc'[q] = pc[q] /\ job'[q] = job[q]
      /\ lock' = [lock EXCEPT ![d] = job'[p].op] /\ lock \in [Domains -> Ops \cup {"free"}]
      /\ ~InSection(p) /\ InSection(p)' /\ job'[p].op \in Ops
  BY DEF Enters, OthersKeep, Dom, TypeOK, ArgsOf
<1>2. Args'
  BY <1>1 DEF Args, ArgsOf, Enters, InSection
<1>3. \A q \in Procs \ {p} : InSection(q) => Dom(q) # d
  <2>1. ASSUME NEW q \in Procs \ {p}, InSection(q), Dom(q) = d PROVE FALSE
    <3>1. lock[d] = job[q].op
      BY <2>1 DEF MutualExclusion, InSection
    <3>2. job[q].op # "free"
      BY <2>1, QuietAssumption DEF InSection, Args, ArgsOf, Ops, SiteOps
    <3> QED BY <1>1, <3>1, <3>2
  <2> QED BY <2>1
<1>4. MutualExclusion'
  <2>1. \A q \in Procs \ {p} : (InSection(q)' <=> InSection(q)) /\ Dom(q)' = Dom(q)
    BY <1>1 DEF InSection, Dom
  <2>2. \A q, r \in Procs : InSection(q)' /\ InSection(r)' /\ Dom(q)' = Dom(r)' => q = r
    BY <1>1, <1>3, <2>1 DEF MutualExclusion
  <2>3. \A q \in Procs : InSection(q)' => lock'[Dom(q)'] = job'[q].op
    BY <1>1, <1>3, <2>1, JobType DEF MutualExclusion
  <2>4. \A e \in Domains : lock'[e] # "free" => \E q \in Procs : InSection(q)' /\ Dom(q)' = e
    BY <1>1, <2>1 DEF MutualExclusion
  <2> QED BY <2>2, <2>3, <2>4 DEF MutualExclusion
<1>5. Owns'
  BY <1>1 DEF Owns, OwnsOf, Enters, Dom
<1>6. Built'
  BY <1>1 DEF Built, Enters, InSection, BuildLabels, Dom
<1> QED BY <1>2, <1>4, <1>5, <1>6

LEMMA LeavesInv ==
  ASSUME IInv, TypeOK', NEW p \in Procs, Leaves(p), OthersKeep(p)
  PROVE  IInv'
<1> USE DEF IInv
<1>1. /\ Dom(p) \in Domains /\ InSection(p) /\ pc'[p] = "idle" /\ site' = site
      /\ \A q \in Procs \ {p} : pc'[q] = pc[q] /\ job'[q] = job[q]
      /\ lock' = [lock EXCEPT ![Dom(p)] = "free"] /\ lock \in [Domains -> Ops \cup {"free"}]
      /\ pc[p] \notin BuildLabels
  BY JobType DEF Leaves, OthersKeep, TypeOK, Done, BuildLabels
<1>2. Args'
  BY <1>1 DEF Args, ArgsOf, InSection, CreateLabels, BuildLabels, DestroyLabels
<1>3. \A q \in Procs \ {p} : InSection(q) => Dom(q) # Dom(p) /\ Dom(q) \in Domains
  BY <1>1, JobType DEF MutualExclusion
<1>4. MutualExclusion'
  <2>1. \A q \in Procs \ {p} : (InSection(q)' <=> InSection(q)) /\ Dom(q)' = Dom(q)
    BY <1>1 DEF InSection, Dom
  <2>2. ~InSection(p)'
    BY <1>1 DEF InSection
  <2>3. \A q, r \in Procs : InSection(q)' /\ InSection(r)' /\ Dom(q)' = Dom(r)' => q = r
    BY <2>1, <2>2 DEF MutualExclusion
  <2>4. \A q \in Procs : InSection(q)' => lock'[Dom(q)'] = job'[q].op
    BY <1>1, <1>3, <2>1, <2>2 DEF MutualExclusion
  <2>5. \A e \in Domains : lock'[e] # "free" => \E q \in Procs : InSection(q)' /\ Dom(q)' = e
    BY <1>1, <2>1 DEF MutualExclusion
  <2> QED BY <2>3, <2>4, <2>5 DEF MutualExclusion
<1>5. Owns'
  BY <1>1 DEF Owns, OwnsOf, Dom, BuildLabels, DestroyLabels
<1>6. Built'
  BY <1>1 DEF Built, Leaves, Dom
<1> QED BY <1>2, <1>4, <1>5, <1>6

LEMMA InsideInv ==
  ASSUME IInv, TypeOK', NEW p \in Procs, Inside(p), OthersKeep(p)
  PROVE  IInv'
<1> USE DEF IInv
<1>1. /\ InSection(p) /\ InSection(p)' /\ lock' = lock /\ crashes' = crashes
      /\ Dom(p) \in Domains /\ Dom(p)' = Dom(p) /\ job'[p].op = job[p].op
      /\ job'[p].owner = job[p].owner /\ job'[p].kind = job[p].kind
      /\ \A q \in Procs \ {p} : pc'[q] = pc[q] /\ job'[q] = job[q] /\ Dom(q)' = Dom(q)
  BY JobType DEF Inside, OthersKeep, Dom
<1>2. \A q \in Procs : /\ InSection(q)' <=> InSection(q)
                       /\ Dom(q)' = Dom(q) /\ job'[q].op = job[q].op
  BY <1>1 DEF InSection
<1>3. Args'
  <2>1. ArgsOf(p)'
    BY <1>1 DEF Args, ArgsOf, Inside, InSection
  <2>2. \A q \in Procs \ {p} : ArgsOf(q)'
    BY <1>1, <1>2 DEF Args, ArgsOf
  <2> QED BY <2>1, <2>2 DEF Args
<1>4. MutualExclusion'
  <2>1. \A q, r \in Procs : InSection(q)' /\ InSection(r)' /\ Dom(q)' = Dom(r)' => q = r
    BY <1>2 DEF MutualExclusion
  <2>2. \A q \in Procs : InSection(q)' => lock'[Dom(q)'] = job'[q].op
    BY <1>1, <1>2 DEF MutualExclusion
  <2>3. \A e \in Domains : lock'[e] # "free" => \E q \in Procs : InSection(q)' /\ Dom(q)' = e
    BY <1>1, <1>2 DEF MutualExclusion
  <2> QED BY <2>1, <2>2, <2>3 DEF MutualExclusion
<1>5. \A q \in Procs \ {p} : InSection(q) => Dom(q) \in Domains /\ Dom(q) # Dom(p)
                                             /\ site'[Dom(q)] = site[Dom(q)]
  BY <1>1, JobType DEF MutualExclusion, Inside, Elsewhere
<1>6. Owns'
  <2>1. \A q \in Procs \ {p} : OwnsOf(q)'
    BY <1>1, <1>5 DEF Owns, OwnsOf, InSection, BuildLabels, DestroyLabels
  <2>2. OwnsOf(p)'
    <3> USE DEF OwnsOf, Inside
    <3>0. OwnsOf(p) /\ (site[Dom(p)] = NoSite \/ site[Dom(p)] \in Row)
      BY <1>1 DEF Owns, TypeOK
    <3>1. CASE KeepsRecord(p)
      BY <1>1, <3>0, <3>1 DEF KeepsRecord
    <3>2. CASE InsertsRecord(p)
      <4>1. site'[Dom(p)].owner = job[p].owner /\ site'[Dom(p)].status = "creating"
        BY <3>2 DEF InsertsRecord, NewRow
      <4>2. site'[Dom(p)] # NoSite
        BY <4>1 DEF NoSite
      <4> QED BY <1>1, <3>2, <4>1, <4>2 DEF InsertsRecord, BuildLabels, DestroyLabels, Half
    <3>3. CASE ReclaimsRecord(p)
      BY <1>1, <3>3 DEF ReclaimsRecord, BuildLabels, DestroyLabels
    <3>4. CASE FailsRecord(p)
      <4>1. PICK s \in Half : site' = [site EXCEPT ![Dom(p)].status = s]
        BY <3>0, <3>4 DEF FailsRecord
      <4>2. /\ site'[Dom(p)].status = s /\ site'[Dom(p)].owner = job[p].owner
        BY <1>1, <3>0, <3>4, <4>1 DEF FailsRecord, TypeOK, Row
      <4>3. site'[Dom(p)] # NoSite
        BY <4>2 DEF NoSite, Half
      <4> QED BY <1>1, <3>4, <4>2, <4>3 DEF FailsRecord, BuildLabels, DestroyLabels
    <3>5. CASE MarksRecord(p)
      BY <3>5 DEF MarksRecord, CreateLabels
    <3>6. CASE DropsRecord(p)
      BY <3>6 DEF DropsRecord, CreateLabels
    <3> QED BY <3>1, <3>2, <3>3, <3>4, <3>5, <3>6
  <2> QED BY <2>1, <2>2 DEF Owns
<1>7. Built'
  <2> SUFFICES ASSUME crashes = 0, NEW d \in Domains, site'[d].status \in Half
               PROVE  \E q \in Procs : pc'[q] \in BuildLabels /\ Dom(q)' = d
    BY <1>1 DEF Built
  <2>1. CASE d # Dom(p)
    <3>1. PICK q \in Procs : pc[q] \in BuildLabels /\ Dom(q) = d
      BY <2>1 DEF Built, Inside, Elsewhere
    <3> QED BY <1>1, <2>1, <3>1
  <2>2. CASE d = Dom(p)
    <3>1. CASE KeepsRecord(p)
      <4>1. PICK q \in Procs : pc[q] \in BuildLabels /\ Dom(q) = d
        BY <3>1 DEF Built, KeepsRecord
      <4>2. q = p
        BY <1>1, <2>2, <4>1 DEF MutualExclusion, InSection, BuildLabels
      <4> QED BY <1>1, <2>2, <3>1, <4>1, <4>2 DEF KeepsRecord
    <3>2. CASE InsertsRecord(p)
      BY <1>1, <2>2, <3>2 DEF InsertsRecord, BuildLabels
    <3>3. CASE FailsRecord(p)
      BY <1>1, <2>2, <3>3 DEF FailsRecord
    <3>4. CASE ReclaimsRecord(p) \/ DropsRecord(p)
      BY <2>2, <3>4 DEF ReclaimsRecord, DropsRecord, NoSite, Half
    <3>5. CASE MarksRecord(p)
      BY <2>2, <3>5 DEF MarksRecord, SetStatus, NoSite, Half, TypeOK, Row
    <3> QED BY <3>1, <3>2, <3>3, <3>4, <3>5 DEF Inside
  <2> QED BY <2>1, <2>2
<1> QED BY <1>3, <1>4, <1>6, <1>7

LEMMA StepInv == IInv /\ [Next]_vars => IInv'
<1> SUFFICES ASSUME IInv, [Next]_vars PROVE IInv'
  OBVIOUS
<1>1. CASE UNCHANGED vars
  BY <1>1 DEF vars, docker, IInv, TypeOK, Args, ArgsOf, MutualExclusion, Owns, OwnsOf, Built,
              InSection, Dom
<1>2. CASE Next
  BY <1>2, StepShape, CrashInv, EntersInv, InsideInv, LeavesInv DEF IInv
<1> QED BY <1>1, <1>2

---------------------------------------------------------------------------------
(* IInv is an invariant: see StepInv. *)
THEOREM Invariance == Spec => []IInv
<1> QED BY InitInv, StepInv, PTL DEF Spec

(* No step takes a variable out of its type: in particular the record of a domain is *)
(* never half there (UpdateSiteStatus on a missing record changes nothing).          *)
THEOREM TypeCorrect == Spec => []TypeOK
<1>1. IInv => TypeOK
  BY DEF IInv
<1> QED BY <1>1, Invariance, PTL

(* LockManager: at most one operation works on a domain, the lock is held under its  *)
(* own label, and no lock outlives its operation.                                    *)
THEOREM OneOperationPerSite == Spec => []MutualExclusion
<1>1. IInv => MutualExclusion
  BY DEF IInv
<1> QED BY <1>1, Invariance, PTL

(* Without a crash, a record left at "creating" or "error" has a create working on it. *)
THEOREM NoHalfBuiltRecord == Spec => []HalfBuiltHasBuilder
<1>1. IInv => HalfBuiltHasBuilder
  BY DEF IInv, HalfBuiltHasBuilder, Built, Half, Args, ArgsOf, CreateLabels, BuildLabels, InSection
<1> QED BY <1>1, Invariance, PTL

(* A record is deleted only by its owner's operation, and a live site's by a destroy. *)
THEOREM RecordsAreSafe == Spec => RecordSafety
<1>1. ASSUME IInv, [Next]_vars PROVE [DeletesOwnRecord]_vars
  <2>1. CASE UNCHANGED vars
    BY <2>1
  <2>2. CASE Crash
    BY <2>2 DEF Crash, DeletesOwnRecord
  <2>3. ASSUME NEW p \in Procs, Enters(p) \/ Leaves(p) PROVE DeletesOwnRecord
    BY <2>3 DEF Enters, Leaves, DeletesOwnRecord
  <2>4. ASSUME NEW p \in Procs, Inside(p) PROVE DeletesOwnRecord
    <3> SUFFICES ASSUME NEW d \in Domains, site[d] # NoSite, site'[d] = NoSite
                 PROVE  /\ InSection(p) /\ Dom(p) = d /\ job[p].owner = site[d].owner
                        /\ site[d].status \in {"running", "stopped"} => job[p].op = "destroying"
      BY DEF DeletesOwnRecord
    <3>1. InSection(p) /\ Dom(p) = d
      BY <2>4 DEF Inside, Elsewhere
    <3>2. OwnsOf(p) /\ ArgsOf(p) /\ site[d] \in Row
      BY <1>1 DEF IInv, Owns, Args, TypeOK
    <3>3. CASE ReclaimsRecord(p)
      BY <3>1, <3>3 DEF ReclaimsRecord, Half
    <3>4. CASE DropsRecord(p)
      BY <3>1, <3>2, <3>4
         DEF DropsRecord, OwnsOf, ArgsOf, BuildLabels, DestroyLabels, Half
    <3>5. CASE InsertsRecord(p)
      BY <3>1, <3>5 DEF InsertsRecord, NewRow, NoSite
    <3>6. ~KeepsRecord(p)
      BY DEF KeepsRecord
    <3>7. ~FailsRecord(p) /\ ~MarksRecord(p)
      <4>1. ASSUME NEW s \in {"creating", "error", "running", "stopped"},
                   site' = [site EXCEPT ![d].status = s]
            PROVE  FALSE
        <5>1. site'[d].status = s
          BY <1>1, <3>2, <4>1 DEF IInv, TypeOK, Row
        <5> QED BY <5>1 DEF NoSite
      <4> QED BY <3>1, <4>1 DEF FailsRecord, MarksRecord, SetStatus, Half
    <3> QED BY <2>4, <3>1, <3>3, <3>4, <3>5, <3>6, <3>7 DEF Inside
  <2> QED BY <1>1, <2>1, <2>2, <2>3, <2>4, StepShape DEF IInv
<1> QED BY <1>1, Invariance, PTL DEF Spec, RecordSafety

---------------------------------------------------------------------------------
(* What an operation may leave (SiteContract!Outcome) as an invariant: what a      *)
(* request that met no failing call has made of its domain, at each of its points, *)
(* by what the domain looked like when it took the lock.                           *)

Cleared(d) == Existing(d) = {} /\ net[d]["native"] = "absent"
Bare(d) == site[d] = NoSite /\ Cleared(d)
Runs(d, S) == \A u \in Units : cont[d][u] = IF u \in S THEN "running" ELSE "absent"

(* A create at label l with arguments j. Of a live site it gets no further than    *)
(* the refusal; on a free domain nothing is there but what it made itself.         *)
CreateFits(d, l, j) ==
  /\ l \in CreateLabels \cup {"ok", "failed", "rolledBack"}
  /\ l \in {"insert", "failed"} => Phase(d) = j.before
  /\ l \notin {"insert", "failed"} => j.before \in {"none", "mixed"}
  /\ l = "reinsert" => j.before = "mixed"
  /\ l \in BuildLabels => site[d].kind = j.kind
  /\ l \in {"network", "services", "setup"} => j.kind = "native"
  /\ l = "services" => j.todo \subseteq Of("native")
  /\ l \in {"composeUp", "composeRoute"} => j.kind = "compose"
  /\ l \in {"rbRows", "rolledBack"} => Cleared(d)
  /\ l = "rolledBack" => site[d] = NoSite /\ <<j.owner, d>> \notin files
  /\ l = "ok" => site[d].status = "running"
MadeFits(d, l, j) == j.before = "none" =>
  /\ l \in {"prepare", "network", "composeUp"} => Cleared(d)
  /\ l = "services" => Runs(d, Of("native") \ j.todo) /\ net[d]["native"] = "routed"
  /\ l = "setup" => Runs(d, Of("native")) /\ net[d]["native"] = "routed"
  /\ l = "composeRoute" => Runs(d, Of("compose")) /\ net[d]["native"] = "absent"
  /\ l = "finish" => /\ Runs(d, Of(j.kind)) /\ net[d][j.kind] = "routed"
                     /\ j.kind = "compose" => net[d]["native"] = "absent"
  /\ l = "ok" => Phase(d) = "up"

(* A destroy: of a site that was whole, nothing is left but what is still on the   *)
(* list; debris of another kind may survive a compose teardown.                    *)
DestroyFits(d, l, j) ==
  /\ l \in DestroyLabels \cup {"dropNet", "dropFiles", "ok"}
  /\ l = "teardown" => j.kind # "compose" /\ Existing(d) \subseteq j.todo
  /\ l = "dropNet" => j.kind # "compose"
  /\ l = "composeTeardown" => j.kind = "compose"
  /\ j.kind = "compose" /\ j.before # "mixed" =>
       Existing(d) \subseteq Of("compose") /\ net[d]["native"] = "absent"
  /\ l \in {"dropRow", "dropNet", "dropFiles", "ok"} /\ (j.kind # "compose" \/ j.before # "mixed")
       => Existing(d) = {}
  /\ l \in {"dropFiles", "ok"} /\ j.kind # "compose" => net[d]["native"] = "absent"
  /\ l \in {"dropNet", "dropFiles", "ok"} => site[d] = NoSite

(* A start, stop or restart. *)
Target(op) == IF op = "stopping" THEN "stopped" ELSE "running"
RunFits(d, l, j) ==
  /\ l \in {"starting", "stopping", "ok", "failed"}
  /\ l = "starting" => j.op # "stopping"
  /\ l = "stopping" => j.op # "starting"
  /\ l \in {"starting", "stopping"} =>
       /\ j.todo \subseteq Existing(d)
       /\ j.before = "none" <=> Bare(d)
       /\ j.before \in {"up", "down"} =>
            /\ Whole(d)
            /\ \A u \in Existing(d) \ j.todo :
                 cont[d][u] = IF l = "starting" THEN "running" ELSE "stopped"
  /\ l = "failed" => site[d] = NoSite /\ Phase(d) = j.before
  /\ l = "ok" => /\ j.before # "none" /\ site[d] # NoSite /\ site[d].status = Target(j.op)
                 /\ j.before \in {"up", "down"} => Whole(d) /\ AllAre(d, Target(j.op))

(* An update, a deploy or a rollback: containers move, the record does not. *)
MoveFits(d, l, j) ==
  /\ l \in {"recreate", "pull", "bounce", "ok", "failed"}
  /\ l \in {"recreate", "pull", "bounce"} => site[d] # NoSite /\ j.todo \subseteq Existing(d)
  /\ l = "pull" => site[d].kind = "compose"
  /\ j.before = "none" => Phase(d) = "none"
  /\ j.before = "up" => Phase(d) = "up"
  /\ j.before = "down" => Phase(d) \in {"down", "mixed"} /\ site[d].status = "stopped"
  /\ j.before = "mixed" => Phase(d) \in {"mixed", "up"}

QuietFits(d, l, j) == l \in {"quiet", "ok", "failed"} /\ Phase(d) = j.before

Fits(d, l, j) ==
  /\ j.op = "provisioning" => CreateFits(d, l, j) /\ MadeFits(d, l, j)
  /\ j.op = "destroying" => DestroyFits(d, l, j)
  /\ j.op \in {"starting", "stopping", "restarting"} => RunFits(d, l, j)
  /\ j.op \in {"updating", "deploying", "rolling back"} => MoveFits(d, l, j)
  /\ j.op \in Quiet => QuietFits(d, l, j)
OutcomeOf(p) == InSection(p) /\ job[p].clean => Fits(Dom(p), pc[p], job[p])
Outcomes == \A p \in Procs : OutcomeOf(p)

LEMMA PhaseIs == ASSUME NEW d PROVE
    /\ Phase(d) = "none" <=> Bare(d)
    /\ Phase(d) = "up"   <=> Whole(d) /\ AllAre(d, "running")
    /\ Phase(d) = "down" <=> Whole(d) /\ AllAre(d, "stopped")
    /\ Phase(d) \in Phases
BY DEF Phase, Bare, Cleared, Whole, AllAre, Phases

LEMMA PhaseNext == ASSUME NEW d PROVE
    /\ Phase(d)' = "none" <=> Bare(d)'
    /\ Phase(d)' = "up"   <=> Whole(d)' /\ AllAre(d, "running")'
    /\ Phase(d)' = "down" <=> Whole(d)' /\ AllAre(d, "stopped")'
    /\ Phase(d)' \in Phases
BY DEF Phase, Bare, Cleared, Whole, AllAre, Phases

(* Nothing of domain d changes. *)
SameSite(d) ==
  /\ site'[d] = site[d] /\ cont'[d] = cont[d] /\ net'[d] = net[d]
  /\ \A o : <<o, d>> \in files' <=> <<o, d>> \in files

LEMMA SameIsSame == ASSUME NEW d, SameSite(d) PROVE
    /\ Existing(d)' = Existing(d) /\ (Cleared(d)' <=> Cleared(d)) /\ (Bare(d)' <=> Bare(d))
    /\ Whole(d)' <=> Whole(d)
    /\ \A s : AllAre(d, s)' <=> AllAre(d, s)
    /\ Phase(d)' = Phase(d)
<1>1. Existing(d)' = Existing(d)
  BY DEF SameSite, Existing
<1>2. (Cleared(d)' <=> Cleared(d)) /\ (Bare(d)' <=> Bare(d))
  BY <1>1 DEF SameSite, Cleared, Bare
<1>3. Whole(d)' <=> Whole(d)
  BY <1>1 DEF SameSite, Whole
<1>4. \A s : AllAre(d, s)' <=> AllAre(d, s)
  BY <1>1 DEF SameSite, AllAre
<1>5. Phase(d)' = Phase(d)
  BY <1>1, <1>3, <1>4 DEF SameSite, Phase
<1> QED BY <1>1, <1>2, <1>3, <1>4, <1>5

LEMMA FitsSame == ASSUME NEW d, NEW l, NEW j, SameSite(d), Fits(d, l, j) PROVE Fits(d, l, j)'
<1>1. CreateFits(d, l, j) => CreateFits(d, l, j)'
  BY SameIsSame DEF SameSite, CreateFits
<1>2. MadeFits(d, l, j) => MadeFits(d, l, j)'
  BY SameIsSame DEF SameSite, MadeFits, Runs
<1>3. DestroyFits(d, l, j) => DestroyFits(d, l, j)'
  BY SameIsSame DEF SameSite, DestroyFits
<1>4. RunFits(d, l, j) => RunFits(d, l, j)'
  BY SameIsSame DEF SameSite, RunFits
<1>5. MoveFits(d, l, j) => MoveFits(d, l, j)'
  BY SameIsSame DEF SameSite, MoveFits
<1>6. QuietFits(d, l, j) => QuietFits(d, l, j)'
  BY SameIsSame DEF SameSite, QuietFits
<1> QED BY <1>1, <1>2, <1>3, <1>4, <1>5, <1>6 DEF Fits

(* Which of them it is follows from the operation, and the label tells the operation. *)
LEMMA FitsByOp == ASSUME NEW d, NEW l, NEW j PROVE
    /\ j.op = "provisioning" => (Fits(d, l, j) <=> CreateFits(d, l, j) /\ MadeFits(d, l, j))
    /\ j.op = "destroying" => (Fits(d, l, j) <=> DestroyFits(d, l, j))
    /\ j.op \in {"starting", "stopping", "restarting"} => (Fits(d, l, j) <=> RunFits(d, l, j))
    /\ j.op \in {"updating", "deploying", "rolling back"} => (Fits(d, l, j) <=> MoveFits(d, l, j))
    /\ j.op \in Quiet => (Fits(d, l, j) <=> QuietFits(d, l, j))
BY QuietAssumption DEF Fits

LEMMA FitsByOpNext == ASSUME NEW d, NEW l, NEW j PROVE
    /\ j.op = "provisioning" => (Fits(d, l, j)' <=> CreateFits(d, l, j)' /\ MadeFits(d, l, j)')
    /\ j.op = "destroying" => (Fits(d, l, j)' <=> DestroyFits(d, l, j)')
    /\ j.op \in {"starting", "stopping", "restarting"} => (Fits(d, l, j)' <=> RunFits(d, l, j)')
    /\ j.op \in {"updating", "deploying", "rolling back"} => (Fits(d, l, j)' <=> MoveFits(d, l, j)')
    /\ j.op \in Quiet => (Fits(d, l, j)' <=> QuietFits(d, l, j)')
BY QuietAssumption DEF Fits

LEMMA LabelTells == ASSUME NEW d, NEW l, NEW j, j.op \in Ops, Fits(d, l, j) PROVE
    /\ l \in CreateLabels \cup {"rolledBack"} =>
         j.op = "provisioning" /\ CreateFits(d, l, j) /\ MadeFits(d, l, j)
    /\ l \in DestroyLabels \cup {"dropNet", "dropFiles"} =>
         j.op = "destroying" /\ DestroyFits(d, l, j)
    /\ l \in {"starting", "stopping"} =>
         j.op \in {"starting", "stopping", "restarting"} /\ RunFits(d, l, j)
    /\ l \in {"recreate", "pull", "bounce"} =>
         j.op \in {"updating", "deploying", "rolling back"} /\ MoveFits(d, l, j)
    /\ l = "quiet" => j.op \in Quiet /\ QuietFits(d, l, j)
<1> USE DEF CreateLabels, BuildLabels, DestroyLabels
<1>1. CASE j.op = "provisioning"
  <2>1. CreateFits(d, l, j) /\ MadeFits(d, l, j)
    BY <1>1, FitsByOp
  <2>2. l \in CreateLabels \cup {"ok", "failed", "rolledBack"}
    BY <2>1 DEF CreateFits
  <2> QED BY <1>1, <2>1, <2>2
<1>2. CASE j.op = "destroying"
  BY <1>2, FitsByOp DEF DestroyFits
<1>3. CASE j.op \in {"starting", "stopping", "restarting"}
  <2>1. RunFits(d, l, j)
    BY <1>3, FitsByOp
  <2>2. l \in {"starting", "stopping", "ok", "failed"}
    BY <2>1 DEF RunFits
  <2> QED BY <1>3, <2>1, <2>2
<1>4. CASE j.op \in {"updating", "deploying", "rolling back"}
  BY <1>4, FitsByOp DEF MoveFits
<1>5. CASE j.op \in Quiet
  BY <1>5, FitsByOp DEF QuietFits
<1> QED BY <1>1, <1>2, <1>3, <1>4, <1>5 DEF Ops, SiteOps

(* What the calls do to the domain they are about, and that they do nothing to others. *)
LEMMA UnitsNow == ASSUME TypeOK, NEW d \in Domains, NEW S, NEW s, SetUnits(d, S, s) PROVE
    /\ \A u \in Units : cont'[d][u] = IF u \in S THEN s ELSE cont[d][u]
    /\ \A e \in Domains \ {d} : cont'[e] = cont[e]
BY DEF TypeOK, SetUnits

LEMMA NetNow == ASSUME TypeOK, NEW d \in Domains PROVE
    /\ \A s : \A k \in Kinds : SetNet(d, k, s) =>
         /\ net'[d][k] = s /\ \A i \in Kinds \ {k} : net'[d][i] = net[d][i]
         /\ \A e \in Domains \ {d} : net'[e] = net[e]
    /\ ProjectNet(d) =>
         /\ net'[d]["native"] = net[d]["native"]
         /\ net'[d]["compose"] = "routed" <=> net[d]["compose"] = "routed"
         /\ \A e \in Domains \ {d} : net'[e] = net[e]
BY DEF TypeOK, SetNet, ProjectNet, Kinds

LEMMA StatusNow == ASSUME TypeOK, NEW d \in Domains, NEW s \in Statuses, SetStatus(d, s) PROVE
    /\ \A e \in Domains \ {d} : site'[e] = site[e]
    /\ site'[d] = NoSite <=> site[d] = NoSite
    /\ site'[d].kind = site[d].kind
    /\ site[d] # NoSite => site'[d].status = s
<1>1. CASE site[d] = NoSite
  BY <1>1 DEF SetStatus
<1>2. CASE site[d] # NoSite
  <2>1. site[d] \in Row /\ site' = [site EXCEPT ![d].status = s] /\ site \in [Domains -> Row \cup {NoSite}]
    BY <1>2 DEF SetStatus, TypeOK
  <2>2. site'[d] = [site[d] EXCEPT !.status = s] /\ \A e \in Domains \ {d} : site'[e] = site[e]
    BY <2>1
  <2>3. site'[d].status = s /\ site'[d].kind = site[d].kind
    BY <2>1, <2>2 DEF Row
  <2>4. site'[d] # NoSite
    BY <2>3 DEF NoSite, Statuses
  <2> QED BY <1>2, <2>2, <2>3, <2>4
<1> QED BY <1>1, <1>2

(* A request works on its own domain only. *)
LEMMA Local ==
  ASSUME TypeOK, Args, NEW p \in Procs, CreateStep(p) \/ DestroyStep(p) \/ RunStep(p),
         NEW d \in Domains, d # Dom(p)
  PROVE  SameSite(d)
<1>1. Dom(p) \in Domains
  BY JobType
<1>2. site'[d] = site[d]
  BY InsideShape DEF Inside, Elsewhere
<1>3. cont'[d] = cont[d]
  <2>1. ASSUME NEW S, NEW s, SetUnits(Dom(p), S, s) PROVE cont'[d] = cont[d]
    BY <1>1, <2>1, UnitsNow
  <2> QED BY <2>1 DEF CreateStep, DestroyStep, RunStep, docker, RefuseCreate, InsertRow, Reinsert,
      Prepare, Network, ServiceUp, ServicesUp, Setup, ComposeUp, ComposeRoute, FinishCreate,
      RollbackCompose, ComposeDown, RollbackContainers, RollbackRows, Teardown, TornDown,
      ComposeTeardown, DropRow, DropNet, DropFiles, StartOne, StopOne, Each, MarkRunning,
      MarkStopped, Mark, Recreate, Recreated, ComposePull, Bounce, DeployEnds, EndQuiet
<1>4. net'[d] = net[d]
  <2>1. ASSUME NEW k \in Kinds, NEW s, SetNet(Dom(p), k, s) PROVE net'[d] = net[d]
    BY <1>1, <2>1, NetNow
  <2>2. "native" \in Kinds /\ "compose" \in Kinds
    BY DEF Kinds
  <2>3. ProjectNet(Dom(p)) => net'[d] = net[d]
    BY <1>1, NetNow
  <2> QED BY <2>1, <2>2, <2>3 DEF CreateStep, DestroyStep, RunStep, docker, RefuseCreate, InsertRow,
      Reinsert, Prepare, Network, ServiceUp, ServicesUp, Setup, ComposeUp, ComposeRoute,
      FinishCreate, RollbackCompose, ComposeDown, RollbackContainers, RollbackRows, Teardown,
      TornDown, ComposeTeardown, DropRow, DropNet, DropFiles, StartOne, StopOne, Each, MarkRunning,
      MarkStopped, Mark, Recreate, Recreated, ComposePull, Bounce, DeployEnds, EndQuiet
<1>5. \A o : <<o, d>> \in files' <=> <<o, d>> \in files
  <2>1. \A o, x : <<o, d>> # <<x, Dom(p)>>
    OBVIOUS
  <2>2. \/ files' = files
        \/ files' = files \cup {<<job[p].owner, Dom(p)>>}
        \/ files' = files \ {<<job[p].owner, Dom(p)>>}
    BY DEF CreateStep, DestroyStep, RunStep, RefuseCreate, InsertRow, Reinsert,
        Prepare, Network, ServiceUp, ServicesUp, Setup, ComposeUp, ComposeRoute, FinishCreate,
        RollbackCompose, RollbackContainers, RollbackRows, Teardown, TornDown,
        ComposeTeardown, DropRow, DropNet, DropFiles, StartOne, StopOne, Each, MarkRunning,
        MarkStopped, Mark, Recreate, Recreated, ComposePull, Bounce, DeployEnds, EndQuiet
  <2> QED BY <2>1, <2>2
<1> QED BY <1>2, <1>3, <1>4, <1>5 DEF SameSite

(* What becomes of a request's arguments. *)
LEMMA JobNow == ASSUME TypeOK, NEW p \in Procs PROVE
    /\ Keep(p) => job'[p] = job[p]
    /\ Hurt(p) /\ CtxLive(p) => ~job'[p].clean
    /\ \A u : Did(p, u) => job'[p] = [job[p] EXCEPT !.todo = job[p].todo \ {u}]
    /\ \A S : job' = [job EXCEPT ![p].todo = S] => job'[p] = [job[p] EXCEPT !.todo = S]
    /\ \A S, b : job' = [job EXCEPT ![p].todo = S, ![p].clean = b] => job'[p].clean = b
<1>1. job \in [Procs -> Job] /\ job[p] \in Job
  BY DEF TypeOK
<1>2. Hurt(p) /\ CtxLive(p) => ~job'[p].clean
  <2> SUFFICES ASSUME Hurt(p), CtxLive(p) PROVE ~job'[p].clean
    OBVIOUS
  <2>1. (job[p].clean /\ ~CtxLive(p)) = FALSE
    OBVIOUS
  <2>2. job' = [job EXCEPT ![p].clean = FALSE]
    BY <2>1 DEF Hurt
  <2>3. job'[p] = [job[p] EXCEPT !.clean = FALSE]
    BY <1>1, <2>2
  <2> QED BY <1>1, <2>3 DEF Job
<1>3. \A S, b : job' = [job EXCEPT ![p].todo = S, ![p].clean = b] => job'[p].clean = b
  BY <1>1 DEF Job
<1> QED BY <1>1, <1>2, <1>3 DEF Keep, Did

(* An operation on a site runs under detachCtx. *)
LEMMA SiteOpsLive == ASSUME NEW p, job[p].op \in SiteOps PROVE CtxLive(p)
BY DEF CtxLive, Detached

LEMMA ClearedIs == ASSUME NEW d PROVE
    /\ Cleared(d) <=> net[d]["native"] = "absent" /\ \A u \in Units : cont[d][u] = "absent"
    /\ Cleared(d)' <=> net'[d]["native"] = "absent" /\ \A u \in Units : cont'[d][u] = "absent"
BY DEF Cleared, Existing

LEMMA OfUnits == /\ \A k \in Kinds : Of(k) \subseteq Units
                 /\ "native" \in Kinds /\ "compose" \in Kinds
BY DEF Of, Units, Kinds

(* A create that fails enters its rollback; a record of its own stays its own. *)
LEMMA FailFits ==
  ASSUME TypeOK, NEW p \in Procs, NEW d \in Domains, d = Dom(p), NEW j \in Job, j = job[p],
         NEW k \in Job, k = job'[p], NEW m \in Labels, m = pc'[p], pc[p] \in BuildLabels,
         CreateFits(d, pc[p], j), NEW s \in Half, Fail(p, s)
  PROVE  CreateFits(d, m, k)' /\ MadeFits(d, m, k)'
<1>1. k = [j EXCEPT !.todo = {}]
  BY DEF Fail, TypeOK
<1>2. k.before = j.before /\ k.kind = j.kind
  BY <1>1 DEF Job
<1>3. site'[d].kind = site[d].kind
  BY StatusNow DEF Fail, Half, Statuses
<1>4. m \in {"rbCompose", "rbContainers"}
  BY DEF Fail, Goto, TypeOK
<1>5. site[d].kind = j.kind /\ j.before \in {"none", "mixed"}
  BY DEF CreateFits, BuildLabels
<1> QED BY <1>2, <1>3, <1>4, <1>5 DEF CreateFits, MadeFits, CreateLabels, BuildLabels

LEMMA CreateKept ==
  ASSUME TypeOK, Owns, NEW p \in Procs, NEW d \in Domains, d = Dom(p), NEW j \in Job, j = job[p],
         NEW k \in Job, k = job'[p], NEW m \in Labels, m = pc'[p], j.op = "provisioning", k.clean,
         CreateFits(d, pc[p], j), MadeFits(d, pc[p], j), CreateStep(p)
  PROVE  CreateFits(d, m, k)' /\ MadeFits(d, m, k)'
<1> USE DEF At, Goto
<1>a. CtxLive(p) /\ ~Hurt(p)
  <2>1. CtxLive(p)
    <3>1. job[p].op \in SiteOps
      BY DEF SiteOps
    <3> QED BY <3>1, SiteOpsLive
  <2> QED BY <2>1, JobNow
<1>b. pc \in [Procs -> Labels] /\ site \in [Domains -> Row \cup {NoSite}]
  BY DEF TypeOK
<1>f. ASSUME NEW s \in Half, Fail(p, s), pc[p] \in BuildLabels
      PROVE  CreateFits(d, m, k)' /\ MadeFits(d, m, k)'
  BY <1>f, FailFits
<1>h. "creating" \in Half /\ "error" \in Half
  BY DEF Half
<1>1. CASE RefuseCreate(p)
  <2>1. m = "failed" /\ k = j /\ pc[p] = "insert" /\ SameSite(d)
    BY <1>1, <1>b, JobNow DEF RefuseCreate, SameSite, docker
  <2> QED BY <2>1, SameIsSame DEF CreateFits, MadeFits, BuildLabels
<1>2. CASE InsertRow(p)
  <2>0. k = j /\ pc[p] = "insert" /\ cont' = cont /\ net' = net /\ Phase(d) = j.before
    BY <1>2, JobNow DEF InsertRow, docker, CreateFits
  <2>1. CASE site[d] = NoSite
    <3>1. m = "prepare" /\ site'[d].kind = j.kind
      BY <1>2, <1>b, <2>1 DEF InsertRow, NewRow
    <3>2. j.before \in {"none", "mixed"}
      BY <2>0, <2>1, PhaseIs DEF Whole, Phases
    <3>3. j.before = "none" => Cleared(d)'
      BY <2>0, PhaseIs, ClearedIs DEF Bare
    <3> QED BY <2>0, <3>1, <3>2, <3>3 DEF CreateFits, MadeFits, CreateLabels, BuildLabels
  <2>2. CASE site[d] # NoSite /\ Reclaimable(d, j.owner)
    <3>1. m = "reinsert"
      BY <1>2, <1>b, <2>2 DEF InsertRow
    <3>2. Phase(d) = "mixed"
      BY <2>2, PhaseIs DEF Bare, AllAre, Reclaimable, Phases
    <3> QED BY <2>0, <3>1, <3>2 DEF CreateFits, MadeFits, CreateLabels, BuildLabels
  <2>3. CASE site[d] # NoSite /\ ~Reclaimable(d, j.owner)
    <3>1. m = "failed" /\ SameSite(d)
      BY <1>2, <1>b, <2>3 DEF InsertRow, SameSite, docker
    <3> QED BY <2>0, <3>1, SameIsSame DEF CreateFits, MadeFits, BuildLabels
  <2> QED BY <2>1, <2>2, <2>3
<1>3. CASE Reinsert(p)
  <2>1. k = j /\ pc[p] = "reinsert" /\ m = "prepare" /\ site'[d].kind = j.kind
    BY <1>3, <1>b, JobNow DEF Reinsert, NewRow
  <2> QED BY <2>1 DEF CreateFits, MadeFits, CreateLabels, BuildLabels
<1>4. CASE Prepare(p)
  <2>1. pc[p] = "prepare" /\ pc[p] \in BuildLabels /\ cont' = cont /\ net' = net
    BY <1>4 DEF Prepare, docker, BuildLabels
  <2>2. CASE k = j /\ site' = site /\ m = IF j.kind = "compose" THEN "composeUp" ELSE "network"
    <3>1. j.kind # "compose" => j.kind = "native"
      BY <2>1 DEF Owns, OwnsOf, CreateFits, TypeOK, Row, Kinds
    <3>2. Cleared(d)' <=> Cleared(d)
      BY <2>1, ClearedIs
    <3> QED BY <2>1, <2>2, <3>1, <3>2 DEF CreateFits, MadeFits, CreateLabels, BuildLabels
  <2> QED BY <1>4, <1>b, <1>f, <1>h, <2>1, <2>2, JobNow DEF Prepare
<1>5. CASE Network(p)
  <2>1. pc[p] = "network" /\ pc[p] \in BuildLabels /\ cont' = cont
    BY <1>5 DEF Network, BuildLabels
  <2>2. CASE SetNet(d, "native", "routed") /\ site' = site /\ m = "services"
             /\ job' = [job EXCEPT ![p].todo = Of("native")]
    <3>1. k = [j EXCEPT !.todo = Of("native")]
      BY <2>2 DEF TypeOK
    <3>2. k.todo = Of("native") /\ k.before = j.before /\ k.kind = j.kind
      BY <3>1 DEF Job
    <3>3. net'[d]["native"] = "routed"
      BY <2>2, NetNow, OfUnits
    <3>4. j.before = "none" => Runs(d, Of("native") \ k.todo)'
      BY <2>1, <3>2, ClearedIs DEF MadeFits, Runs
    <3> QED BY <2>1, <2>2, <3>2, <3>3, <3>4 DEF CreateFits, MadeFits, CreateLabels, BuildLabels
  <2>3. CASE job' = [job EXCEPT ![p].todo = Of("native"), ![p].clean = @ /\ ~CtxLive(p)]
    <3>1. (job[p].clean /\ ~CtxLive(p)) = FALSE
      BY <1>a
    <3>2. job' = [job EXCEPT ![p].todo = Of("native"), ![p].clean = FALSE]
      <4>1. job \in [Procs -> Job] BY DEF TypeOK
      <4> QED BY <2>3, <3>1, <4>1 DEF Job
    <3> QED BY <3>2, JobNow
  <2> QED BY <1>5, <1>b, <1>f, <1>h, <2>1, <2>2, <2>3 DEF Network
<1>6. CASE ServiceUp(p)
  <2>0. PICK u \in j.todo :
          \/ /\ cont[d][u] = "absent" /\ SetUnits(d, {u}, "running") /\ Did(p, u)
             /\ UNCHANGED <<site, pc>>
          \/ Fail(p, "error")
    BY <1>6 DEF ServiceUp
  <2>1. pc[p] = "services" /\ pc[p] \in BuildLabels /\ net' = net
    BY <1>6 DEF ServiceUp, BuildLabels
  <2>2. CASE /\ cont[d][u] = "absent" /\ SetUnits(d, {u}, "running") /\ Did(p, u)
             /\ UNCHANGED <<site, pc>>
    <3>1. k = [j EXCEPT !.todo = j.todo \ {u}]
      BY <2>2, JobNow
    <3>2. k.todo = j.todo \ {u} /\ k.before = j.before /\ k.kind = j.kind /\ m = "services"
      BY <2>1, <2>2, <3>1 DEF Job
    <3>3. \A v \in Units : cont'[d][v] = IF v \in {u} THEN "running" ELSE cont[d][v]
      BY <2>2, UnitsNow
    <3>4. j.todo \subseteq Of("native")
      BY <2>1 DEF CreateFits
    <3>5. j.before = "none" => Runs(d, Of("native") \ k.todo)'
      BY <2>1, <3>2, <3>3, <3>4 DEF MadeFits, Runs
    <3> QED BY <2>1, <2>2, <3>2, <3>5 DEF CreateFits, MadeFits, CreateLabels, BuildLabels
  <2>3. CASE Fail(p, "error")
    BY <1>f, <1>h, <2>1, <2>3
  <2> QED BY <2>0, <2>2, <2>3
<1>7. CASE ServicesUp(p)
  <2>1. /\ pc[p] = "services" /\ m = "setup" /\ k = j /\ j.todo = {}
        /\ cont' = cont /\ net' = net /\ site' = site
    BY <1>7, <1>b, JobNow DEF ServicesUp, docker
  <2> QED BY <2>1 DEF CreateFits, MadeFits, Runs, CreateLabels, BuildLabels
<1>8. CASE Setup(p)
  <2>1. pc[p] = "setup" /\ pc[p] \in BuildLabels /\ net' = net
    BY <1>8 DEF Setup, BuildLabels
  <2>2. CASE k = j /\ m = "finish" /\ site' = site /\ \E S \in {{}, Existing(d)} : SetUnits(d, S, "running")
    <3>1. PICK S \in {{}, Existing(d)} : SetUnits(d, S, "running")
      BY <2>2
    <3>2. \A u \in Units : cont'[d][u] = IF u \in S THEN "running" ELSE cont[d][u]
      BY <3>1, UnitsNow
    <3>3. j.before = "none" => Runs(d, Of("native"))'
      BY <2>1, <3>2 DEF MadeFits, Runs, Existing
    <3> QED BY <2>1, <2>2, <3>3 DEF CreateFits, MadeFits, CreateLabels, BuildLabels
  <2> QED BY <1>8, <1>a, <1>b, <1>f, <1>h, <2>1, <2>2, JobNow DEF Setup
<1>9. CASE ComposeUp(p)
  <2>1. pc[p] = "composeUp" /\ pc[p] \in BuildLabels
    BY <1>9 DEF ComposeUp, BuildLabels
  <2>2. CASE /\ ProjectNet(d) /\ SetUnits(d, Of("compose"), "running") /\ k = j
             /\ m = "composeRoute" /\ site' = site
    <3>1. net'[d]["native"] = net[d]["native"]
      BY <2>2, NetNow
    <3>2. \A u \in Units : cont'[d][u] = IF u \in Of("compose") THEN "running" ELSE cont[d][u]
      BY <2>2, UnitsNow
    <3>3. j.before = "none" => Runs(d, Of("compose"))' /\ net'[d]["native"] = "absent"
      BY <2>1, <3>1, <3>2, ClearedIs DEF MadeFits, Runs
    <3> QED BY <2>1, <2>2, <3>3 DEF CreateFits, MadeFits, CreateLabels, BuildLabels
  <2> QED BY <1>9, <1>b, <1>f, <1>h, <2>1, <2>2, JobNow DEF ComposeUp
<1>10. CASE ComposeRoute(p)
  <2>1. pc[p] = "composeRoute" /\ pc[p] \in BuildLabels /\ cont' = cont
    BY <1>10 DEF ComposeRoute, BuildLabels
  <2>2. CASE SetNet(d, "compose", "routed") /\ k = j /\ m = "finish" /\ site' = site
    <3>1. net'[d]["compose"] = "routed" /\ net'[d]["native"] = net[d]["native"]
      BY <2>2, NetNow, OfUnits
    <3> QED BY <2>1, <2>2, <3>1 DEF CreateFits, MadeFits, Runs, CreateLabels, BuildLabels
  <2> QED BY <1>10, <1>a, <1>b, <1>f, <1>h, <2>1, <2>2, JobNow DEF ComposeRoute
<1>11. CASE FinishCreate(p)
  <2>1. /\ pc[p] = "finish" /\ m = "ok" /\ k = j /\ cont' = cont /\ net' = net
        /\ SetStatus(d, "running")
    BY <1>11, <1>b, JobNow DEF FinishCreate, docker
  <2>2. site[d] # NoSite /\ site[d].kind = j.kind /\ j.kind \in Kinds
    BY <2>1 DEF Owns, OwnsOf, BuildLabels, CreateFits, TypeOK, Row
  <2>3. site'[d] # NoSite /\ site'[d].kind = j.kind /\ site'[d].status = "running"
    BY <2>1, <2>2, StatusNow DEF Statuses
  <2>4. CASE j.before = "none"
    <3>1. /\ Runs(d, Of(j.kind)) /\ net[d][j.kind] = "routed"
          /\ j.kind = "compose" => net[d]["native"] = "absent"
      BY <2>1, <2>4 DEF MadeFits
    <3>2. Existing(d)' = Of(j.kind) /\ \A u \in Of(j.kind) : cont'[d][u] = "running"
      BY <2>1, <2>2, <3>1, OfUnits DEF Existing, Runs
    <3>3. Whole(d)' /\ AllAre(d, "running")'
      BY <2>1, <2>3, <3>1, <3>2 DEF Whole, AllAre
    <3>4. Phase(d)' = "up"
      BY <3>3, PhaseNext
    <3> QED BY <2>1, <2>3, <3>4 DEF CreateFits, MadeFits, BuildLabels
  <2> QED BY <2>1, <2>3, <2>4 DEF CreateFits, MadeFits, BuildLabels
<1>12. CASE RollbackCompose(p)
  <2>1. k = j /\ pc[p] = "rbCompose" /\ m = "rbContainers" /\ site' = site
    BY <1>12, <1>a, <1>b, JobNow DEF RollbackCompose, ComposeDown
  <2> QED BY <2>1 DEF CreateFits, MadeFits, CreateLabels, BuildLabels
<1>13. CASE RollbackContainers(p)
  <2>1. /\ k = j /\ pc[p] = "rbContainers" /\ m = "rbRows" /\ site' = site
        /\ SetUnits(d, Existing(d), "absent") /\ SetNet(d, "native", "absent")
    BY <1>13, <1>a, <1>b, JobNow DEF RollbackContainers
  <2>2. \A u \in Units : cont'[d][u] = IF u \in Existing(d) THEN "absent" ELSE cont[d][u]
    BY <2>1, UnitsNow
  <2>3. Cleared(d)'
    BY <2>1, <2>2, NetNow, ClearedIs, OfUnits DEF Existing
  <2> QED BY <2>1, <2>3 DEF CreateFits, MadeFits, CreateLabels, BuildLabels
<1>14. CASE RollbackRows(p)
  <2>1. /\ k = j /\ pc[p] = "rbRows" /\ m = "rolledBack" /\ cont' = cont /\ net' = net
        /\ site'[d] = NoSite /\ <<j.owner, d>> \notin files'
    BY <1>14, <1>b, JobNow DEF RollbackRows, docker
  <2> QED BY <2>1, ClearedIs DEF CreateFits, MadeFits, CreateLabels, BuildLabels
<1> QED BY <1>1, <1>2, <1>3, <1>4, <1>5, <1>6, <1>7, <1>8, <1>9, <1>10, <1>11, <1>12, <1>13,
           <1>14 DEF CreateStep

LEMMA DestroyKept ==
  ASSUME TypeOK, NEW p \in Procs, NEW d \in Domains, d = Dom(p), NEW j \in Job, j = job[p],
         NEW k \in Job, k = job'[p], NEW m \in Labels, m = pc'[p], j.op = "destroying", k.clean,
         DestroyFits(d, pc[p], j), DestroyStep(p)
  PROVE  DestroyFits(d, m, k)'
<1> USE DEF At, Goto
<1>a. ~Hurt(p)
  <2>1. CtxLive(p)
    <3>1. job[p].op \in SiteOps
      BY DEF SiteOps
    <3> QED BY <3>1, SiteOpsLive
  <2> QED BY <2>1, JobNow
<1>b. pc \in [Procs -> Labels] /\ site \in [Domains -> Row \cup {NoSite}]
  BY DEF TypeOK
<1>1. CASE Teardown(p)
  <2>1. PICK u \in j.todo : SetUnits(d, {u}, "absent") /\ Did(p, u) /\ UNCHANGED pc
    BY <1>1, <1>a DEF Teardown
  <2>2. pc[p] = "teardown" /\ m = "teardown"
    BY <1>1, <2>1 DEF Teardown
  <2>3. k = [j EXCEPT !.todo = j.todo \ {u}]
    BY <2>1, JobNow
  <2>4. k.todo = j.todo \ {u} /\ k.kind = j.kind
    BY <2>3 DEF Job
  <2>5. \A v \in Units : cont'[d][v] = IF v \in {u} THEN "absent" ELSE cont[d][v]
    BY <2>1, UnitsNow
  <2>6. Existing(d) \subseteq j.todo /\ j.kind # "compose"
    BY <2>2 DEF DestroyFits
  <2>7. Existing(d)' \subseteq k.todo
    BY <2>4, <2>5, <2>6 DEF Existing
  <2> QED BY <2>2, <2>4, <2>6, <2>7 DEF DestroyFits, DestroyLabels
<1>2. CASE TornDown(p)
  <2>1. /\ pc[p] = "teardown" /\ m = "dropRow" /\ k = j /\ j.todo = {}
        /\ cont' = cont /\ net' = net
    BY <1>2, <1>b, JobNow DEF TornDown, docker
  <2>2. Existing(d)' = Existing(d)
    BY <2>1 DEF Existing
  <2> QED BY <2>1, <2>2 DEF DestroyFits, DestroyLabels
<1>3. CASE ComposeTeardown(p)
  <2>1. /\ pc[p] = "composeTeardown" /\ m = "dropRow" /\ k = j
        /\ SetUnits(d, Of("compose"), "absent") /\ \E s : SetNet(d, "compose", s)
    BY <1>3, <1>a, <1>b, JobNow DEF ComposeTeardown, ComposeDown
  <2>2. \A v \in Units : cont'[d][v] = IF v \in Of("compose") THEN "absent" ELSE cont[d][v]
    BY <2>1, UnitsNow
  <2>3. net'[d]["native"] = net[d]["native"]
    BY <2>1, NetNow, OfUnits
  <2>4. Existing(d)' = Existing(d) \ Of("compose")
    BY <2>2 DEF Existing
  <2> QED BY <2>1, <2>3, <2>4 DEF DestroyFits, DestroyLabels
<1>4. CASE DropRow(p)
  <2>1. /\ pc[p] = "dropRow" /\ m = (IF j.kind = "compose" THEN "dropFiles" ELSE "dropNet")
        /\ k = j /\ cont' = cont /\ net' = net /\ site'[d] = NoSite
    BY <1>4, <1>b, JobNow DEF DropRow, docker
  <2>2. Existing(d)' = Existing(d)
    BY <2>1 DEF Existing
  <2> QED BY <2>1, <2>2 DEF DestroyFits, DestroyLabels
<1>5. CASE DropNet(p)
  <2>1. /\ pc[p] = "dropNet" /\ m = "dropFiles" /\ k = j /\ cont' = cont /\ site' = site
        /\ SetNet(d, "native", "absent")
    BY <1>5, <1>a, <1>b, JobNow DEF DropNet
  <2>2. Existing(d)' = Existing(d)
    BY <2>1 DEF Existing
  <2>3. net'[d]["native"] = "absent"
    BY <2>1, NetNow, OfUnits
  <2> QED BY <2>1, <2>2, <2>3 DEF DestroyFits, DestroyLabels
<1>6. CASE DropFiles(p)
  <2>1. /\ pc[p] = "dropFiles" /\ m = "ok" /\ k = j /\ cont' = cont /\ net' = net /\ site' = site
    BY <1>6, <1>b, JobNow DEF DropFiles, docker
  <2>2. Existing(d)' = Existing(d)
    BY <2>1 DEF Existing
  <2> QED BY <2>1, <2>2 DEF DestroyFits, DestroyLabels
<1> QED BY <1>1, <1>2, <1>3, <1>4, <1>5, <1>6 DEF DestroyStep

(* A container that exists is started or stopped: nothing appears, nothing goes. *)
LEMMA MovedUnit ==
  ASSUME TypeOK, NEW d \in Domains, NEW u \in Existing(d), NEW s \in {"running", "stopped"},
         SetUnits(d, {u}, s), net' = net, site' = site
  PROVE  /\ \A v \in Units : cont'[d][v] = IF v = u THEN s ELSE cont[d][v]
         /\ Existing(d)' = Existing(d) /\ (Bare(d)' <=> Bare(d)) /\ (Whole(d)' <=> Whole(d))
<1>1. \A v \in Units : cont'[d][v] = IF v = u THEN s ELSE cont[d][v]
  BY UnitsNow
<1>2. Existing(d)' = Existing(d)
  BY <1>1 DEF Existing
<1> QED BY <1>1, <1>2 DEF Bare, Cleared, Whole

LEMMA EachKept ==
  ASSUME TypeOK, NEW p \in Procs, NEW d \in Domains, d = Dom(p), NEW j \in Job, j = job[p],
         NEW k \in Job, k = job'[p], NEW m \in Labels, m = pc'[p], k.clean,
         j.op \in {"starting", "stopping", "restarting"}, RunFits(d, pc[p], j),
         StartOne(p) \/ StopOne(p)
  PROVE  RunFits(d, m, k)'
<1>a. ~Hurt(p)
  <2>1. CtxLive(p)
    <3>1. job[p].op \in SiteOps
      BY DEF SiteOps
    <3> QED BY <3>1, SiteOpsLive
  <2> QED BY <2>1, JobNow
<1>1. PICK l \in {"starting", "stopping"}, u \in j.todo :
        /\ pc[p] = l /\ Did(p, u) /\ UNCHANGED <<pc, site, net>>
        /\ SetUnits(d, {u}, IF l = "starting" THEN "running" ELSE "stopped")
  BY <1>a DEF StartOne, StopOne, Each, At
<1> DEFINE s == IF l = "starting" THEN "running" ELSE "stopped"
<1>2. k = [j EXCEPT !.todo = j.todo \ {u}]
  BY <1>1, JobNow
<1>3. k.todo = j.todo \ {u} /\ k.op = j.op /\ k.before = j.before /\ m = l
  BY <1>1, <1>2 DEF Job
<1>4. /\ j.todo \subseteq Existing(d) /\ (j.before = "none" <=> Bare(d))
      /\ j.before \in {"up", "down"} => Whole(d) /\ \A v \in Existing(d) \ j.todo : cont[d][v] = s
      /\ (l = "starting" => j.op # "stopping") /\ (l = "stopping" => j.op # "starting")
  BY <1>1 DEF RunFits
<1>5. /\ \A v \in Units : cont'[d][v] = IF v = u THEN s ELSE cont[d][v]
      /\ Existing(d)' = Existing(d) /\ (Bare(d)' <=> Bare(d)) /\ (Whole(d)' <=> Whole(d))
  <2>1. u \in Existing(d) /\ s \in {"running", "stopped"} /\ SetUnits(d, {u}, s)
    BY <1>1, <1>4
  <2> HIDE DEF s
  <2> QED BY <1>1, <2>1, MovedUnit
<1>6. Existing(d) \subseteq Units
  BY DEF Existing
<1>7. j.before \in {"up", "down"} => \A v \in Existing(d) \ k.todo : cont'[d][v] = s
  BY <1>3, <1>4, <1>5, <1>6
<1> QED BY <1>1, <1>3, <1>4, <1>5, <1>7 DEF RunFits

LEMMA MarkKept ==
  ASSUME TypeOK, NEW p \in Procs, NEW d \in Domains, d = Dom(p), NEW j \in Job, j = job[p],
         NEW k \in Job, k = job'[p], NEW m \in Labels, m = pc'[p],
         j.op \in {"starting", "stopping", "restarting"}, RunFits(d, pc[p], j),
         MarkRunning(p) \/ MarkStopped(p)
  PROVE  RunFits(d, m, k)'
<1>1. PICK l \in {"starting", "stopping"}, s \in {"running", "stopped"},
           next \in {"ok", "starting"} :
        /\ Mark(p, l, s, next) /\ s = (IF l = "starting" THEN "running" ELSE "stopped")
        /\ next = "starting" <=> l = "stopping" /\ j.op = "restarting"
  BY DEF MarkRunning, MarkStopped
<1>2. /\ pc[p] = l /\ j.todo = {} /\ SetStatus(d, s) /\ cont' = cont /\ net' = net
      /\ files' = files
  BY <1>1 DEF Mark, At, docker
<1>3. /\ j.before = "none" <=> Bare(d)
      /\ j.before \in {"up", "down"} => Whole(d) /\ \A v \in Existing(d) : cont[d][v] = s
      /\ (l = "starting" => j.op # "stopping") /\ (l = "stopping" => j.op # "starting")
  BY <1>1, <1>2 DEF RunFits
<1>4. Existing(d)' = Existing(d) /\ (Whole(d)' /\ site'[d] # NoSite <=> Whole(d))
  <2>1. Existing(d)' = Existing(d)
    BY <1>2 DEF Existing
  <2>2. (site'[d] = NoSite <=> site[d] = NoSite) /\ site'[d].kind = site[d].kind
    BY <1>2, StatusNow DEF Statuses
  <2> QED BY <1>2, <2>1, <2>2 DEF Whole
<1>5. CASE site[d] = NoSite
  <2>1. k = j /\ m = "failed"
    BY <1>1, <1>5, JobNow DEF Mark, Goto, TypeOK
  <2>2. SameSite(d)
    BY <1>2, <1>5 DEF SetStatus, SameSite
  <2>3. Phase(d) = j.before
    <3>1. j.before \in Phases /\ ~Whole(d)
      BY <1>5 DEF Job, Whole
    <3> QED BY <1>3, <3>1, PhaseIs DEF Phases
  <2>4. Phase(d)' = j.before /\ site'[d] = NoSite
    BY <1>5, <2>2, <2>3, SameIsSame DEF SameSite
  <2> QED BY <2>1, <2>4 DEF RunFits
<1>6. CASE site[d] # NoSite
  <2>1. site'[d] # NoSite /\ site'[d].status = s /\ ~Bare(d) /\ ~Bare(d)'
    BY <1>2, <1>6, StatusNow DEF Bare, Statuses
  <2>2. j.before # "none" /\ m = next
    BY <1>1, <1>3, <1>6, <2>1 DEF Mark, Goto, TypeOK
  <2>3. CASE next = "ok"
    <3>1. k = [j EXCEPT !.todo = {}]
      BY <1>1, <1>6, <2>3 DEF Mark, TypeOK
    <3>2. k.op = j.op /\ k.before = j.before
      BY <3>1 DEF Job
    <3>3. s = Target(j.op)
      BY <1>1, <1>3, <2>3 DEF Target
    <3>4. j.before \in {"up", "down"} => Whole(d)' /\ AllAre(d, s)'
      BY <1>2, <1>3, <1>4, <2>1 DEF AllAre
    <3> QED BY <2>1, <2>2, <2>3, <3>2, <3>3, <3>4 DEF RunFits
  <2>4. CASE next = "starting"
    <3>1. k = [j EXCEPT !.todo = Served(d).todo]
      BY <1>1, <1>6, <2>4 DEF Mark, TypeOK
    <3>2. k.op = j.op /\ k.before = j.before /\ k.todo = Served(d).todo
      BY <3>1 DEF Job
    <3>3. k.todo \subseteq Existing(d)
      BY <3>2 DEF Served
    <3>4. Whole(d) => Existing(d) \ k.todo = {}
      BY <3>2 DEF Served, Whole
    <3>5. j.op = "restarting"
      BY <1>1, <2>4
    <3>6. j.before \in {"up", "down"} => Whole(d)' /\ Existing(d)' \ k.todo = {}
      BY <1>3, <1>4, <3>4
    <3> QED BY <1>4, <2>1, <2>2, <2>4, <3>2, <3>3, <3>5, <3>6 DEF RunFits
  <2> QED BY <2>3, <2>4
<1> QED BY <1>5, <1>6

LEMMA MoveKept ==
  ASSUME TypeOK, NEW p \in Procs, NEW d \in Domains, d = Dom(p), NEW j \in Job, j = job[p],
         NEW k \in Job, k = job'[p], NEW m \in Labels, m = pc'[p], k.clean,
         j.op \in {"updating", "deploying", "rolling back"}, MoveFits(d, pc[p], j),
         Recreate(p) \/ Recreated(p) \/ ComposePull(p) \/ Bounce(p) \/ DeployEnds(p)
  PROVE  MoveFits(d, m, k)'
<1> USE DEF At, Goto
<1>a. ~Hurt(p) /\ CtxLive(p)
  <2>1. CtxLive(p)
    <3>1. job[p].op \in SiteOps
      BY DEF SiteOps
    <3> QED BY <3>1, SiteOpsLive
  <2> QED BY <2>1, JobNow
<1>b. pc \in [Procs -> Labels]
  BY DEF TypeOK
<1>1. ASSUME NEW u \in j.todo, SetUnits(d, {u}, "running"), Did(p, u), UNCHANGED <<pc, site, net>>,
             pc[p] \in {"recreate", "bounce"}
      PROVE  MoveFits(d, m, k)'
  <2>1. k = [j EXCEPT !.todo = j.todo \ {u}]
    BY <1>1, JobNow
  <2>2. k.todo = j.todo \ {u} /\ k.before = j.before /\ m = pc[p]
    BY <1>1, <2>1 DEF Job
  <2>3. u \in Existing(d) /\ site[d] # NoSite /\ j.todo \subseteq Existing(d) /\ u \in Units
    BY <1>1 DEF MoveFits, Existing
  <2>4. /\ \A v \in Units : cont'[d][v] = IF v = u THEN "running" ELSE cont[d][v]
        /\ Existing(d)' = Existing(d) /\ (Whole(d)' <=> Whole(d))
    BY <1>1, <2>3, MovedUnit
  <2>5. Phase(d)' # "none" /\ Phase(d) # "none"
    BY <1>1, <2>3, PhaseIs, PhaseNext DEF Bare
  <2>6. Phase(d)' # "down"
    BY <2>3, <2>4, PhaseNext DEF AllAre
  <2>7. Phase(d) = "up" => Phase(d)' = "up"
    <3>1. Phase(d) = "up" => /\ Whole(d)' /\ site'[d].status = "running"
                             /\ \A v \in Existing(d) : cont[d][v] = "running"
      BY <1>1, <2>4, PhaseIs DEF AllAre
    <3>2. Existing(d) \subseteq Units
      BY DEF Existing
    <3>3. Phase(d) = "up" => \A v \in Existing(d)' : cont'[d][v] = "running"
      BY <2>4, <3>1, <3>2
    <3>4. Phase(d) = "up" => AllAre(d, "running")'
      BY <3>1, <3>3 DEF AllAre
    <3> QED BY <3>1, <3>4, PhaseNext
  <2>8. site[d].status = "stopped" => Phase(d)' # "up"
    BY <1>1, PhaseNext DEF AllAre
  <2>9. Phase(d)' \in Phases
    BY PhaseNext
  <2> QED BY <1>1, <2>2, <2>3, <2>4, <2>5, <2>6, <2>7, <2>8, <2>9 DEF MoveFits, Phases
<1>2. CASE Recreate(p)
  <2>1. PICK u \in j.todo : SetUnits(d, {u}, "running") /\ Did(p, u) /\ UNCHANGED pc
    BY <1>2, <1>a DEF Recreate
  <2>2. pc[p] \in {"recreate", "bounce"} /\ UNCHANGED <<pc, site, net>>
    BY <1>2, <2>1 DEF Recreate
  <2> QED BY <1>1, <2>1, <2>2
<1>3. CASE Bounce(p)
  <2>1. PICK u \in j.todo : (Works(p) /\ SetUnits(d, {u}, "running") /\ Did(p, u))
          \/ job' = [job EXCEPT ![p].todo = @ \ {u}, ![p].clean = @ /\ ~CtxLive(p)]
    BY <1>3 DEF Bounce
  <2>2. CASE job' = [job EXCEPT ![p].todo = @ \ {u}, ![p].clean = @ /\ ~CtxLive(p)]
    <3>1. (job[p].clean /\ ~CtxLive(p)) = FALSE
      BY <1>a
    <3>2. job' = [job EXCEPT ![p].todo = j.todo \ {u}, ![p].clean = FALSE]
      <4>1. job \in [Procs -> Job] BY DEF TypeOK
      <4> QED BY <2>2, <3>1, <4>1 DEF Job
    <3> QED BY <3>2, JobNow
  <2> QED BY <1>3, <1>1, <2>1, <2>2 DEF Bounce
<1>4. CASE Recreated(p) \/ DeployEnds(p)
  <2>1. k = j /\ m \in {"ok", "failed"} /\ SameSite(d)
    BY <1>4, <1>b, JobNow DEF Recreated, DeployEnds, SameSite, docker
  <2> QED BY <2>1, SameIsSame DEF MoveFits, SameSite
<1>5. CASE ComposePull(p)
  <2>1. /\ pc[p] = "pull" /\ m = "ok" /\ k = j /\ site' = site
        /\ SetUnits(d, Of("compose"), "running") /\ ProjectNet(d)
    BY <1>5, <1>a, <1>b, JobNow DEF ComposePull
  <2>2. \A v \in Units : cont'[d][v] = IF v \in Of("compose") THEN "running" ELSE cont[d][v]
    <3>1. SetUnits(d, Of("compose"), "running")
      BY <2>1
    <3> QED BY <3>1 DEF SetUnits, TypeOK
  <2>3. /\ net'[d]["native"] = net[d]["native"]
        /\ net'[d]["compose"] = "routed" <=> net[d]["compose"] = "routed"
    BY <2>1, NetNow
  <2>4. site[d] # NoSite /\ site[d].kind = "compose"
    BY <2>1 DEF MoveFits
  <2>5. Existing(d)' = Existing(d) \cup Of("compose")
    BY <2>2, OfUnits DEF Existing
  <2>6. Phase(d)' # "none" /\ Phase(d) # "none"
    BY <2>1, <2>4, PhaseIs, PhaseNext DEF Bare
  <2>7. Phase(d) = "up" => Phase(d)' = "up"
    <3> SUFFICES ASSUME Phase(d) = "up" PROVE Phase(d)' = "up"
      OBVIOUS
    <3>1. Whole(d) /\ AllAre(d, "running")
      BY PhaseIs
    <3>2. Whole(d)'
      BY <2>1, <2>3, <2>4, <2>5, <3>1 DEF Whole
    <3>3. AllAre(d, "running")'
      BY <2>1, <2>2, <3>1, <2>5, OfUnits DEF AllAre, Existing
    <3> QED BY <3>2, <3>3, PhaseNext
  <2>8. Phase(d)' = "down" => Phase(d) = "down"
    <3> SUFFICES ASSUME Phase(d)' = "down" PROVE Phase(d) = "down"
      OBVIOUS
    <3>1. Whole(d)' /\ AllAre(d, "stopped")'
      BY PhaseNext
    <3>2. Of("compose") = {}
      <4>1. \A v \in Of("compose") : cont'[d][v] = "running" /\ cont'[d][v] = "stopped"
        BY <2>2, <2>5, <3>1, OfUnits DEF AllAre
      <4> QED BY <4>1
    <3>3. Existing(d)' = Existing(d) /\ Existing(d) \subseteq Units
      BY <2>5, <3>2 DEF Existing
    <3>4. Whole(d)
      BY <2>1, <2>3, <2>4, <3>1, <3>3 DEF Whole
    <3>5. Existing(d) = {}
      BY <2>4, <3>2, <3>4 DEF Whole
    <3>6. AllAre(d, "stopped")
      BY <2>1, <3>1, <3>5 DEF AllAre
    <3> QED BY <3>4, <3>6, PhaseIs
  <2>9. site[d].status = "stopped" => Phase(d)' # "up"
    BY <2>1, PhaseNext DEF AllAre
  <2>10. Phase(d)' \in Phases
    BY PhaseNext
  <2> QED BY <2>1, <2>4, <2>6, <2>7, <2>8, <2>9, <2>10 DEF MoveFits, Phases
<1> QED BY <1>2, <1>3, <1>4, <1>5

LEMMA QuietKept ==
  ASSUME TypeOK, NEW p \in Procs, NEW d \in Domains, d = Dom(p), NEW j \in Job, j = job[p],
         NEW k \in Job, k = job'[p], NEW m \in Labels, m = pc'[p], QuietFits(d, pc[p], j), EndQuiet(p)
  PROVE  QuietFits(d, m, k)'
<1>1. k = j /\ m \in {"ok", "failed"} /\ SameSite(d)
  BY JobNow DEF EndQuiet, SameSite, docker, Goto, TypeOK
<1> QED BY <1>1, SameIsSame DEF QuietFits

LEMMA GoneFits == ASSUME NEW d, NEW l, NEW j \in Job, Fits(d, l, j), NEW k \in Job,
                         k = [j EXCEPT !.gone = TRUE]
                  PROVE  Fits(d, l, k)
<1>1. /\ k.op = j.op /\ k.owner = j.owner /\ k.kind = j.kind /\ k.todo = j.todo
      /\ k.before = j.before
  BY DEF Job
<1>2. CreateFits(d, l, j) /\ MadeFits(d, l, j) => CreateFits(d, l, k) /\ MadeFits(d, l, k)
  BY <1>1 DEF CreateFits, MadeFits
<1>3. DestroyFits(d, l, j) => DestroyFits(d, l, k)
  BY <1>1 DEF DestroyFits
<1>4. RunFits(d, l, j) => RunFits(d, l, k)
  BY <1>1 DEF RunFits
<1>5. MoveFits(d, l, j) => MoveFits(d, l, k)
  BY <1>1 DEF MoveFits
<1>6. QuietFits(d, l, j) => QuietFits(d, l, k)
  BY <1>1 DEF QuietFits
<1> QED BY <1>1, <1>2, <1>3, <1>4, <1>5, <1>6 DEF Fits

(* A request that takes a lock finds its domain as it is. *)
LEMMA NewFits == ASSUME NEW d \in Domains, TypeOK, NEW j, NEW l, j.before = Phase(d) PROVE
    /\ j.op = "provisioning" /\ l = "insert" => Fits(d, l, j)
    /\ /\ j.op = "destroying" /\ j.kind = site[d].kind /\ j.todo = Existing(d)
       /\ l = (IF site[d].kind = "compose" THEN "composeTeardown" ELSE "teardown")
       => Fits(d, l, j)
    /\ /\ j.op \in {"starting", "stopping", "restarting"} /\ j.todo = Served(d).todo
       /\ l = (IF j.op = "starting" THEN "starting" ELSE "stopping")
       => Fits(d, l, j)
    /\ /\ j.op \in {"updating", "deploying", "rolling back"} /\ j.todo \subseteq Existing(d)
       /\ \/ l = "failed"
          \/ site[d] # NoSite /\ l \in {"recreate", "bounce"}
          \/ site[d] # NoSite /\ l = "pull" /\ site[d].kind = "compose"
       => Fits(d, l, j)
    /\ j.op \in Quiet /\ l = "quiet" => Fits(d, l, j)
<1>0. /\ Phase(d) = "none" <=> Bare(d)
      /\ Phase(d) \in {"up", "down"} => Whole(d) /\ site[d] # NoSite
      /\ Phase(d) = "down" => site[d].status = "stopped"
      /\ Phase(d) \in Phases
  <2>1. Whole(d) => site[d] # NoSite
    BY DEF Whole
  <2>2. AllAre(d, "stopped") => site[d].status = "stopped"
    BY DEF AllAre
  <2> QED BY <2>1, <2>2, PhaseIs
<1>1. CASE j.op = "provisioning" /\ l = "insert"
  <2>1. CreateFits(d, l, j) /\ MadeFits(d, l, j)
    BY <1>1 DEF CreateFits, MadeFits, CreateLabels, BuildLabels
  <2> QED BY <1>1, <2>1, FitsByOp
<1>2. CASE /\ j.op = "destroying" /\ j.kind = site[d].kind /\ j.todo = Existing(d)
           /\ l = (IF site[d].kind = "compose" THEN "composeTeardown" ELSE "teardown")
  <2>1. site[d].kind = "compose" => site[d] # NoSite
    BY DEF NoSite
  <2>2. site[d].kind = "compose" /\ Phase(d) # "mixed" =>
          Existing(d) \subseteq Of("compose") /\ net[d]["native"] = "absent"
    BY <1>0, <2>1 DEF Whole, Bare, Phases
  <2>3. DestroyFits(d, l, j)
    BY <1>2, <2>2 DEF DestroyFits, DestroyLabels
  <2> QED BY <1>2, <2>3, FitsByOp
<1>3. CASE /\ j.op \in {"starting", "stopping", "restarting"} /\ j.todo = Served(d).todo
           /\ l = (IF j.op = "starting" THEN "starting" ELSE "stopping")
  <2>1. j.todo \subseteq Existing(d) /\ (Whole(d) => Existing(d) \ j.todo = {})
    BY <1>3 DEF Served, Whole
  <2>2. l \in {"starting", "stopping"} /\ (l = "starting" <=> j.op = "starting")
    BY <1>3
  <2>3. j.before \in {"up", "down"} => Whole(d) /\ \A u \in Existing(d) \ j.todo : FALSE
    BY <1>0, <2>1
  <2>4. RunFits(d, l, j)
    BY <1>0, <2>1, <2>2, <2>3 DEF RunFits
  <2> QED BY <1>3, <2>4, FitsByOp
<1>4. CASE /\ j.op \in {"updating", "deploying", "rolling back"} /\ j.todo \subseteq Existing(d)
           /\ \/ l = "failed"
              \/ site[d] # NoSite /\ l \in {"recreate", "bounce"}
              \/ site[d] # NoSite /\ l = "pull" /\ site[d].kind = "compose"
  <2>1. MoveFits(d, l, j)
    BY <1>0, <1>4 DEF MoveFits
  <2> QED BY <1>4, <2>1, FitsByOp
<1>5. CASE j.op \in Quiet /\ l = "quiet"
  BY <1>5, FitsByOp DEF QuietFits
<1> QED BY <1>1, <1>2, <1>3, <1>4, <1>5

LEMMA BeginFits ==
  ASSUME TypeOK, NEW p \in Procs, Requesting(p)
  PROVE  \E d \in Domains, j \in Job, l \in Labels :
           /\ j = job'[p] /\ l = pc'[p] /\ j.dom = d /\ j.clean = TRUE /\ j.before = Phase(d)
           /\ UNCHANGED <<site, docker, files, crashes>>
           /\ Fits(d, l, j)
<1> SUFFICES ASSUME NEW j \in Job, j = job'[p], NEW l \in Labels, l = pc'[p]
             PROVE  \E d \in Domains : /\ j.dom = d /\ j.clean = TRUE /\ j.before = Phase(d)
                                       /\ UNCHANGED <<site, docker, files, crashes>>
                                       /\ Fits(d, l, j)
  BY RequestShape DEF TypeOK
<1>1. CASE BeginCreate(p)
  <2>1. PICK d \in Domains, o \in Owners, k \in Drivers :
          Begin(p, "provisioning", d, [owner |-> o, kind |-> k, purge |-> FALSE, todo |-> {}],
                "insert")
    BY <1>1 DEF BeginCreate
  <2>2. /\ j.op = "provisioning" /\ j.dom = d /\ j.clean = TRUE /\ j.before = Phase(d)
        /\ l = "insert" /\ UNCHANGED <<site, docker, files, crashes>>
    BY <2>1 DEF Begin, Goto, TypeOK
  <2> QED BY <2>2, NewFits
<1>2. CASE BeginDestroy(p)
  <2>1. PICK d \in Domains, purge \in BOOLEAN : Begin(p, "destroying", d,
          [owner |-> IF site[d] = NoSite THEN Admin ELSE site[d].owner, kind |-> site[d].kind,
           purge |-> purge, todo |-> Existing(d)],
          IF site[d].kind = "compose" THEN "composeTeardown" ELSE "teardown")
    BY <1>2 DEF BeginDestroy
  <2>2. /\ j.op = "destroying" /\ j.dom = d /\ j.clean = TRUE /\ j.before = Phase(d)
        /\ j.kind = site[d].kind /\ j.todo = Existing(d)
        /\ l = (IF site[d].kind = "compose" THEN "composeTeardown" ELSE "teardown")
        /\ UNCHANGED <<site, docker, files, crashes>>
    BY <2>1 DEF Begin, Goto, TypeOK
  <2> QED BY <2>2, NewFits
<1>3. CASE BeginStart(p) \/ BeginStop(p) \/ BeginRestart(p)
  <2>1. PICK d \in Domains, op \in {"starting", "stopping", "restarting"} :
          Begin(p, op, d, Served(d), IF op = "starting" THEN "starting" ELSE "stopping")
    BY <1>3 DEF BeginStart, BeginStop, BeginRestart
  <2>2. /\ j.op = op /\ j.dom = d /\ j.clean = TRUE /\ j.before = Phase(d)
        /\ j.todo = Served(d).todo /\ l = (IF op = "starting" THEN "starting" ELSE "stopping")
        /\ UNCHANGED <<site, docker, files, crashes>>
    BY <2>1 DEF Begin, Goto, TypeOK
  <2> QED BY <2>2, NewFits
<1>4. CASE BeginUpdate(p)
  <2>1. PICK d \in Domains : Begin(p, "updating", d,
          [Served(d) EXCEPT !.todo = Existing(d) \cap Of(site[d].kind)],
          IF site[d] = NoSite THEN "failed"
          ELSE IF site[d].kind = "compose" THEN "pull" ELSE "recreate")
    BY <1>4 DEF BeginUpdate
  <2>2. [Served(d) EXCEPT !.todo = Existing(d) \cap Of(site[d].kind)].todo \subseteq Existing(d)
    BY DEF Served
  <2>3. /\ j.op = "updating" /\ j.dom = d /\ j.clean = TRUE /\ j.before = Phase(d)
        /\ j.todo \subseteq Existing(d)
        /\ l = (IF site[d] = NoSite THEN "failed"
                ELSE IF site[d].kind = "compose" THEN "pull" ELSE "recreate")
        /\ UNCHANGED <<site, docker, files, crashes>>
    BY <2>1, <2>2 DEF Begin, Goto, TypeOK
  <2> QED BY <2>3, NewFits
<1>5. CASE BeginDeploy(p)
  <2>1. PICK d \in Domains, op \in {"deploying", "rolling back"} :
          Begin(p, op, d, [Served(d) EXCEPT !.todo = Existing(d)],
                IF site[d] = NoSite THEN "failed" ELSE "bounce")
    BY <1>5 DEF BeginDeploy
  <2>2. [Served(d) EXCEPT !.todo = Existing(d)].todo \subseteq Existing(d)
    BY DEF Served
  <2>3. /\ j.op = op /\ j.dom = d /\ j.clean = TRUE /\ j.before = Phase(d)
        /\ j.todo \subseteq Existing(d) /\ l = (IF site[d] = NoSite THEN "failed" ELSE "bounce")
        /\ UNCHANGED <<site, docker, files, crashes>>
    BY <2>1, <2>2 DEF Begin, Goto, TypeOK
  <2> QED BY <2>3, NewFits
<1>6. CASE BeginQuiet(p)
  <2>1. PICK d \in Domains, op \in Quiet : Begin(p, op, d, Served(d), "quiet")
    BY <1>6 DEF BeginQuiet
  <2>2. /\ j.op = op /\ j.dom = d /\ j.clean = TRUE /\ j.before = Phase(d)
        /\ l = "quiet" /\ UNCHANGED <<site, docker, files, crashes>>
    BY <2>1 DEF Begin, Goto, TypeOK
  <2> QED BY <2>2, NewFits
<1> QED BY <1>1, <1>2, <1>3, <1>4, <1>5, <1>6 DEF Requesting

---------------------------------------------------------------------------------
(* Outcomes is an invariant, on top of IInv. *)

LEMMA InsideFits ==
  ASSUME IInv, TypeOK', NEW p \in Procs, CreateStep(p) \/ DestroyStep(p) \/ RunStep(p),
         job[p].clean => Fits(Dom(p), pc[p], job[p]), InSection(p),
         NEW d \in Domains, d = Dom(p), NEW k \in Job, k = job'[p], NEW m \in Labels, m = pc'[p],
         k.clean, job[p].clean
  PROVE  Fits(d, m, k)'
<1> USE DEF IInv
<1>1. PICK j \in Job : j = job[p]
  BY DEF TypeOK
<1>2. j.op \in Ops /\ k.op = j.op /\ Fits(d, pc[p], j)
  BY <1>1, InsideShape DEF Args, ArgsOf, Inside
<1>3. CASE CreateStep(p)
  <2>1. pc[p] \in CreateLabels
    BY <1>3 DEF CreateStep, RefuseCreate, InsertRow, Reinsert, Prepare, Network, ServiceUp,
       ServicesUp, Setup, ComposeUp, ComposeRoute, FinishCreate, RollbackCompose,
       RollbackContainers, RollbackRows, At, CreateLabels, BuildLabels
  <2>2. j.op = "provisioning" /\ CreateFits(d, pc[p], j) /\ MadeFits(d, pc[p], j)
    BY <1>2, <2>1, LabelTells
  <2>3. CreateFits(d, m, k)' /\ MadeFits(d, m, k)'
    BY <1>1, <1>3, <2>2, CreateKept
  <2> QED BY <1>2, <2>2, <2>3, FitsByOpNext
<1>4. CASE DestroyStep(p)
  <2>1. pc[p] \in DestroyLabels \cup {"dropNet", "dropFiles"}
    BY <1>4 DEF DestroyStep, Teardown, TornDown, ComposeTeardown, DropRow, DropNet, DropFiles, At,
       DestroyLabels
  <2>2. j.op = "destroying" /\ DestroyFits(d, pc[p], j)
    BY <1>2, <2>1, LabelTells
  <2>3. DestroyFits(d, m, k)'
    BY <1>1, <1>4, <2>2, DestroyKept
  <2> QED BY <1>2, <2>2, <2>3, FitsByOpNext
<1>5. CASE StartOne(p) \/ StopOne(p) \/ MarkRunning(p) \/ MarkStopped(p)
  <2>1. pc[p] \in {"starting", "stopping"}
    BY <1>5 DEF StartOne, StopOne, Each, MarkRunning, MarkStopped, Mark, At
  <2>2. j.op \in {"starting", "stopping", "restarting"} /\ RunFits(d, pc[p], j)
    BY <1>2, <2>1, LabelTells
  <2>3. RunFits(d, m, k)'
    BY <1>1, <1>5, <2>2, EachKept, MarkKept
  <2> QED BY <1>2, <2>2, <2>3, FitsByOpNext
<1>6. CASE Recreate(p) \/ Recreated(p) \/ ComposePull(p) \/ Bounce(p) \/ DeployEnds(p)
  <2>1. pc[p] \in {"recreate", "pull", "bounce"}
    BY <1>6 DEF Recreate, Recreated, ComposePull, Bounce, DeployEnds, At
  <2>2. j.op \in {"updating", "deploying", "rolling back"} /\ MoveFits(d, pc[p], j)
    BY <1>2, <2>1, LabelTells
  <2>3. MoveFits(d, m, k)'
    BY <1>1, <1>6, <2>2, MoveKept
  <2> QED BY <1>2, <2>2, <2>3, FitsByOpNext
<1>7. CASE EndQuiet(p)
  <2>1. pc[p] = "quiet"
    BY <1>7 DEF EndQuiet, At
  <2>2. j.op \in Quiet /\ QuietFits(d, pc[p], j)
    BY <1>2, <2>1, LabelTells
  <2>3. QuietFits(d, m, k)'
    BY <1>1, <1>7, <2>2, QuietKept
  <2> QED BY <1>2, <2>2, <2>3, FitsByOpNext
<1> QED BY <1>3, <1>4, <1>5, <1>6, <1>7 DEF RunStep

(* A call that fails is remembered to the end of the operation. *)
Remembers(p) == job'[p].before = job[p].before /\ (job'[p].clean => job[p].clean)

LEMMA JobRemembers == ASSUME TypeOK, NEW p \in Procs PROVE
    /\ Keep(p) => Remembers(p)
    /\ Hurt(p) => Remembers(p)
    /\ \A u : Did(p, u) => Remembers(p)
    /\ \A S : job' = [job EXCEPT ![p].todo = S] => Remembers(p)
    /\ \A S : job' = [job EXCEPT ![p].todo = S, ![p].clean = @ /\ ~CtxLive(p)] => Remembers(p)
    /\ job' = [job EXCEPT ![p].gone = TRUE] => Remembers(p)
<1>1. job \in [Procs -> Job] /\ job[p] \in Job
  BY DEF TypeOK
<1>2. ASSUME NEW b \in BOOLEAN, b => job[p].clean,
             \/ job' = [job EXCEPT ![p].clean = b]
             \/ \E S : job' = [job EXCEPT ![p].todo = S, ![p].clean = b]
      PROVE  Remembers(p)
  <2>1. CASE job' = [job EXCEPT ![p].clean = b]
    <3>1. job'[p] = [job[p] EXCEPT !.clean = b]
      BY <1>1, <2>1
    <3> QED BY <1>1, <1>2, <3>1 DEF Remembers, Job
  <2>2. ASSUME NEW S, job' = [job EXCEPT ![p].todo = S, ![p].clean = b] PROVE Remembers(p)
    <3>1. job'[p].clean = b /\ job'[p].before = job[p].before
      BY <1>1, <2>2 DEF Job
    <3> QED BY <1>2, <3>1 DEF Remembers
  <2> QED BY <1>2, <2>1, <2>2
<1>3. PICK b \in BOOLEAN : b = (job[p].clean /\ ~CtxLive(p))
  OBVIOUS
<1>4. Hurt(p) => Remembers(p)
  <2> SUFFICES ASSUME Hurt(p) PROVE Remembers(p)
    OBVIOUS
  <2>1. job' = [job EXCEPT ![p].clean = b]
    BY <1>3 DEF Hurt
  <2> QED BY <1>2, <1>3, <2>1
<1>5. ASSUME NEW S, job' = [job EXCEPT ![p].todo = S, ![p].clean = @ /\ ~CtxLive(p)]
      PROVE  Remembers(p)
  <2>1. job' = [job EXCEPT ![p].todo = S, ![p].clean = b]
    BY <1>1, <1>3, <1>5 DEF Job
  <2> QED BY <1>2, <1>3, <2>1
<1>6. ASSUME NEW S, job' = [job EXCEPT ![p].todo = S] PROVE Remembers(p)
  BY <1>1, <1>6 DEF Remembers, Job
<1>7. job' = [job EXCEPT ![p].gone = TRUE] => Remembers(p)
  BY <1>1 DEF Remembers, Job
<1> QED BY <1>1, <1>4, <1>5, <1>6, <1>7 DEF Keep, Did, Remembers

LEMMA InsideRemembers ==
  ASSUME TypeOK, NEW p \in Procs, CreateStep(p) \/ DestroyStep(p) \/ RunStep(p)
  PROVE  Remembers(p)
<1>1. ASSUME NEW s, Fail(p, s) PROVE Remembers(p)
  BY <1>1, JobRemembers DEF Fail
<1>2. CASE CreateStep(p)
  BY <1>1, <1>2, JobRemembers DEF CreateStep, RefuseCreate, InsertRow, Reinsert, Prepare, Network,
     ServiceUp, ServicesUp, Setup, ComposeUp, ComposeRoute, FinishCreate, RollbackCompose,
     ComposeDown, RollbackContainers, RollbackRows
<1>3. CASE DestroyStep(p)
  BY <1>3, JobRemembers DEF DestroyStep, Teardown, TornDown, ComposeTeardown, ComposeDown, DropRow,
     DropNet, DropFiles
<1>4. CASE RunStep(p)
  BY <1>4, JobRemembers DEF RunStep, StartOne, StopOne, Each, MarkRunning, MarkStopped, Mark,
     Recreate, Recreated, ComposePull, Bounce, DeployEnds, EndQuiet
<1> QED BY <1>2, <1>3, <1>4

LEMMA OutcomeNext ==
  ASSUME NEW p \in Procs, NEW d, d = Dom(p)', NEW l, l = pc'[p], NEW j, j = job'[p], Fits(d, l, j)'
  PROVE  OutcomeOf(p)'
BY DEF OutcomeOf

LEMMA OutcomeSame ==
  ASSUME NEW p \in Procs, OutcomeOf(p), pc'[p] = pc[p], job'[p] = job[p],
         InSection(p) => SameSite(Dom(p))
  PROVE  OutcomeOf(p)'
<1>1. (InSection(p)' <=> InSection(p)) /\ Dom(p)' = Dom(p)
  BY DEF InSection, Dom
<1>2. CASE InSection(p) /\ job[p].clean
  <2>1. PICK d : d = Dom(p)
    OBVIOUS
  <2>2. PICK l : l = pc[p]
    OBVIOUS
  <2>3. PICK j : j = job[p]
    OBVIOUS
  <2>4. Fits(d, l, j)
    BY <1>2, <2>1, <2>2, <2>3 DEF OutcomeOf
  <2>5. Fits(d, l, j)'
    BY <1>2, <2>1, <2>4, FitsSame
  <2> QED BY <1>1, <2>1, <2>2, <2>3, <2>5, OutcomeNext
<1>3. CASE ~(InSection(p) /\ job[p].clean)
  BY <1>1, <1>3 DEF OutcomeOf
<1> QED BY <1>2, <1>3

LEMMA OutcomesInit == Init => Outcomes
BY DEF Init, Outcomes, OutcomeOf, InSection

LEMMA OutcomesStep == IInv /\ Outcomes /\ [Next]_vars => Outcomes'
<1> SUFFICES ASSUME IInv, Outcomes, [Next]_vars PROVE Outcomes'
  OBVIOUS
<1> USE DEF IInv
<1>1. CASE UNCHANGED vars
  BY <1>1, OutcomeSame DEF vars, docker, Outcomes, SameSite
<1>2. CASE Crash
  BY <1>2 DEF Crash, Outcomes, OutcomeOf, InSection
<1>3. ASSUME NEW p \in Procs, Step(p) \/ Request(p) PROVE Outcomes'
  <2>0. TypeOK' /\ OthersKeep(p) /\ (Enters(p) \/ Inside(p) \/ Leaves(p))
    <3>1. CASE CreateStep(p) \/ DestroyStep(p) \/ RunStep(p)
      BY <3>1, InsideType, InsideShape
    <3>2. CASE Release(p) \/ ClientGone(p) \/ Requesting(p)
      BY <3>2, LeaveShape, GoneShape, RequestShape
    <3> QED BY <1>3, <3>1, <3>2 DEF Step, Request, Requesting
  <2>1. PICK k \in Job : k = job'[p]
    BY <2>0 DEF TypeOK
  <2>2. PICK m \in Labels : m = pc'[p]
    BY <2>0 DEF TypeOK
  <2>3. ASSUME NEW q \in Procs \ {p}, InSection(q) => SameSite(Dom(q)) PROVE OutcomeOf(q)'
    BY <2>0, <2>3, OutcomeSame DEF OthersKeep, Outcomes
  <2>4. CASE CreateStep(p) \/ DestroyStep(p) \/ RunStep(p)
    <3>1. InSection(p) /\ Dom(p)' = Dom(p) /\ Dom(p) \in Domains
      BY <2>4, InsideShape, JobType DEF Inside, Dom
    <3>2. PICK d \in Domains : d = Dom(p)
      BY <3>1
    <3>3. OutcomeOf(p)'
      <4>1. CASE k.clean
        <5>1. job[p].clean
          BY <2>1, <2>4, <4>1, InsideRemembers DEF Remembers
        <5>2. Fits(Dom(p), pc[p], job[p])
          BY <3>1, <5>1 DEF Outcomes, OutcomeOf
        <5>3. Fits(d, m, k)'
          BY <2>0, <2>1, <2>2, <2>4, <3>1, <3>2, <4>1, <5>1, <5>2, InsideFits
        <5> QED BY <2>1, <2>2, <3>1, <3>2, <5>3, OutcomeNext
      <4>2. CASE ~k.clean
        BY <2>1, <4>2 DEF OutcomeOf
      <4> QED BY <4>1, <4>2
    <3>4. ASSUME NEW q \in Procs \ {p}, InSection(q) PROVE SameSite(Dom(q))
      <4>1. Dom(q) \in Domains /\ Dom(q) # Dom(p)
        BY <3>1, <3>4, JobType DEF MutualExclusion
      <4> QED BY <2>4, <4>1, Local
    <3> QED BY <2>3, <3>3, <3>4 DEF Outcomes
  <2>5. CASE Release(p)
    <3>1. \A d : SameSite(d)
      BY <2>5 DEF Release, SameSite, docker
    <3>2. ~InSection(p)'
      BY <2>5, LeaveShape DEF Leaves, InSection
    <3> QED BY <2>3, <3>1, <3>2 DEF Outcomes, OutcomeOf
  <2>6. CASE ClientGone(p)
    <3>1. \A d : SameSite(d)
      BY <2>6 DEF ClientGone, SameSite, docker
    <3>2. PICK d : d = Dom(p)
      OBVIOUS
    <3>3. PICK j \in Job : j = job[p]
      BY DEF TypeOK
    <3>4. k = [j EXCEPT !.gone = TRUE] /\ m = pc[p] /\ InSection(p)
      BY <2>1, <2>2, <2>6, <3>3 DEF ClientGone, TypeOK
    <3>5. k.clean = j.clean /\ k.dom = d
      BY <3>2, <3>3, <3>4 DEF Job, Dom
    <3>6. k.clean => Fits(d, m, k)'
      <4> SUFFICES ASSUME k.clean PROVE Fits(d, m, k)'
        OBVIOUS
      <4>1. Fits(d, m, j)
        BY <3>2, <3>3, <3>4, <3>5 DEF Outcomes, OutcomeOf
      <4>2. Fits(d, m, k)
        BY <3>4, <4>1, GoneFits
      <4> QED BY <3>1, <4>2, FitsSame
    <3>7. OutcomeOf(p)'
      <4>1. CASE k.clean
        <5>1. d = Dom(p)'
          BY <2>1, <3>5 DEF Dom
        <5> QED BY <2>1, <2>2, <3>6, <4>1, <5>1, OutcomeNext
      <4>2. CASE ~k.clean
        BY <2>1, <4>2 DEF OutcomeOf
      <4> QED BY <4>1, <4>2
    <3> QED BY <2>3, <3>1, <3>7 DEF Outcomes
  <2>7. CASE Requesting(p)
    <3>1. PICK d \in Domains, j \in Job, l \in Labels :
            /\ j = job'[p] /\ l = pc'[p] /\ j.dom = d /\ j.clean = TRUE /\ j.before = Phase(d)
            /\ UNCHANGED <<site, docker, files, crashes>>
            /\ Fits(d, l, j)
      BY <2>7, BeginFits
    <3>2. \A e : SameSite(e)
      BY <3>1 DEF SameSite, docker
    <3>3. Fits(d, l, j)'
      BY <3>1, <3>2, FitsSame
    <3>4. d = Dom(p)'
      BY <3>1 DEF Dom
    <3>5. OutcomeOf(p)'
      BY <3>1, <3>3, <3>4, OutcomeNext
    <3> QED BY <2>3, <3>2, <3>5 DEF Outcomes
  <2> QED BY <1>3, <2>4, <2>5, <2>6, <2>7 DEF Step, Request, Requesting
<1> QED BY <1>1, <1>2, <1>3 DEF Next

LEMMA OutcomesInvariant == Spec => [](IInv /\ Outcomes)
<1>1. Init => IInv /\ Outcomes
  BY InitInv, OutcomesInit
<1>2. IInv /\ Outcomes /\ [Next]_vars => (IInv /\ Outcomes)'
  BY StepInv, OutcomesStep
<1> QED BY <1>1, <1>2, PTL DEF Spec

(* A create that failed and could clean up after itself (rollbackPartialCreate)      *)
(* leaves no record, container, site network or files, even on the debris of a       *)
(* create that a crash interrupted.                                                  *)
THEOREM FailedCreatesVanish == Spec => []FailedCreateLeavesNothing
<1>1. IInv /\ Outcomes => FailedCreateLeavesNothing
  <2> SUFFICES ASSUME IInv, Outcomes, NEW p \in Procs, At(p, "rolledBack"), job[p].clean
               PROVE  /\ site[Dom(p)] = NoSite /\ Existing(Dom(p)) = {}
                      /\ net[Dom(p)]["native"] = "absent"
                      /\ <<job[p].owner, Dom(p)>> \notin files
    BY DEF FailedCreateLeavesNothing
  <2>1. InSection(p) /\ job[p].op \in Ops
    BY DEF At, InSection, IInv, Args, ArgsOf
  <2>2. Fits(Dom(p), pc[p], job[p])
    BY <2>1 DEF Outcomes, OutcomeOf
  <2>3. CreateFits(Dom(p), pc[p], job[p])
    BY <2>1, <2>2, LabelTells DEF At
  <2> QED BY <2>3 DEF CreateFits, Cleared, At
<1> QED BY <1>1, OutcomesInvariant, PTL

---------------------------------------------------------------------------------
(* SiteContract is implemented, step by step. Its variables under the refinement   *)
(* mapping, domain by domain.                                                      *)

Shown(d) == IF Working(d) = {} THEN Phase(d) ELSE job[CHOOSE p \in Working(d) : TRUE].before
HurtAt(d) == \E p \in Working(d) : ~job[p].clean
shown == [d \in Domains |-> Shown(d)]
hurtAt == [d \in Domains |-> HurtAt(d)]

LEMMA ContractBegin ==
  ASSUME NEW d \in Domains, lock[d] = "free", \E op \in Ops : lock' = [lock EXCEPT ![d] = op],
         shown' = shown, hurtAt' = hurtAt, crashes' = crashes
  PROVE  Contract!CNext
BY DEF Contract!CNext, Contract!Begin, shown, hurtAt, Shown, HurtAt

LEMMA ContractHurt ==
  ASSUME NEW d \in Domains, lock[d] # "free", lock' = lock, shown' = shown,
         hurtAt' = [hurtAt EXCEPT ![d] = TRUE], crashes' = crashes
  PROVE  Contract!CNext
BY DEF Contract!CNext, Contract!Hurt, shown, hurtAt, Shown, HurtAt

LEMMA ContractEnd ==
  ASSUME NEW d \in Domains, lock[d] # "free", lock' = [lock EXCEPT ![d] = "free"],
         NEW x, x \in IF hurtAt[d] THEN Contract!Phases ELSE Contract!Outcome(lock[d], shown[d]),
         shown' = [shown EXCEPT ![d] = x], hurtAt' = [hurtAt EXCEPT ![d] = FALSE],
         crashes' = crashes
  PROVE  Contract!CNext
BY DEF Contract!CNext, Contract!End, shown, hurtAt, Shown, HurtAt

LEMMA ContractCrash ==
  ASSUME crashes' = crashes + 1, lock' = [d \in Domains |-> "free"],
         hurtAt' = [d \in Domains |-> FALSE], shown' \in [Domains -> Contract!Phases],
         \A d \in Domains : lock[d] = "free" => shown'[d] = shown[d]
  PROVE  Contract!CNext
BY DEF Contract!CNext, Contract!Crash, shown, hurtAt, Shown, HurtAt

LEMMA ContractStutter ==
  ASSUME lock' = lock, shown' = shown, hurtAt' = hurtAt, crashes' = crashes
  PROVE  UNCHANGED Contract!cvars
BY DEF Contract!cvars, shown, hurtAt, Shown, HurtAt

LEMMA ContractInit == Init => Contract!CInit
<1> SUFFICES ASSUME Init PROVE Contract!CInit
  OBVIOUS
<1>1. \A d : Working(d) = {}
  BY DEF Init, Working, InSection
<1>2. \A d \in Domains : Phase(d) = "none"
  BY PhaseIs DEF Init, Bare, Cleared, Existing, Kinds
<1>3. shown = [d \in Domains |-> "none"]
  BY <1>1, <1>2 DEF shown, Shown
<1>4. hurtAt = [d \in Domains |-> FALSE]
  BY <1>1 DEF hurtAt, HurtAt
<1> QED BY <1>3, <1>4 DEF Init, Contract!CInit, shown, hurtAt, Shown, HurtAt

(* What is shown of a domain that is worked on, and of one that is not. *)
LEMMA ShownIs == ASSUME MutualExclusion PROVE
    /\ \A p \in Procs : InSection(p) =>
         Shown(Dom(p)) = job[p].before /\ (HurtAt(Dom(p)) <=> ~job[p].clean)
    /\ \A d : (\A p \in Procs : InSection(p) => Dom(p) # d) => Shown(d) = Phase(d) /\ ~HurtAt(d)
<1>1. ASSUME NEW p \in Procs, InSection(p)
      PROVE  Shown(Dom(p)) = job[p].before /\ (HurtAt(Dom(p)) <=> ~job[p].clean)
  <2>1. Working(Dom(p)) = {p}
    BY <1>1 DEF Working, MutualExclusion
  <2> QED BY <2>1 DEF Shown, HurtAt
<1>2. ASSUME NEW d, \A p \in Procs : InSection(p) => Dom(p) # d
      PROVE  Shown(d) = Phase(d) /\ ~HurtAt(d)
  BY <1>2 DEF Working, Shown, HurtAt
<1> QED BY <1>1, <1>2

LEMMA ShownNext == ASSUME MutualExclusion' PROVE
    /\ \A p \in Procs : InSection(p)' =>
         Shown(Dom(p))' = job'[p].before /\ (HurtAt(Dom(p))' <=> ~job'[p].clean)
    /\ \A d : (\A p \in Procs : InSection(p)' => Dom(p)' # d) => Shown(d)' = Phase(d)' /\ ~HurtAt(d)'
<1>1. ASSUME NEW p \in Procs, InSection(p)'
      PROVE  Shown(Dom(p))' = job'[p].before /\ (HurtAt(Dom(p))' <=> ~job'[p].clean)
  <2>1. Working(Dom(p))' = {p}
    BY <1>1 DEF Working, MutualExclusion
  <2> QED BY <2>1 DEF Shown, HurtAt
<1>2. ASSUME NEW d, \A p \in Procs : InSection(p)' => Dom(p)' # d
      PROVE  Shown(d)' = Phase(d)' /\ ~HurtAt(d)'
  BY <1>2 DEF Working, Shown, HurtAt
<1> QED BY <1>1, <1>2

(* What fits at the end of an operation is an outcome of the contract. *)
LEMMA OutcomeMet ==
  ASSUME NEW d \in Domains, NEW j \in Job, NEW l \in Done, j.op \in Ops, Fits(d, l, j)
  PROVE  Phase(d) \in Contract!Outcome(j.op, j.before)
<1>0. /\ j.before \in Phases /\ Phase(d) \in Phases
      /\ Phase(d) = "none" <=> Bare(d)
      /\ Phase(d) = "down" => site[d].status = "stopped"
      /\ Phase(d) \in {"up", "down"} => site[d] # NoSite
  <2>1. Whole(d) => site[d] # NoSite
    BY DEF Whole
  <2>2. AllAre(d, "stopped") => site[d].status = "stopped"
    BY DEF AllAre
  <2> QED BY <2>1, <2>2, PhaseIs DEF Job
<1>1. CASE j.op = "provisioning"
  <2>1. CreateFits(d, l, j) /\ MadeFits(d, l, j)
    BY <1>1, FitsByOp
  <2>2. CASE l = "failed"
    <3>1. Phase(d) = j.before
      BY <2>1, <2>2 DEF CreateFits
    <3> QED BY <1>0, <1>1, <3>1 DEF Contract!Outcome, Phases
  <2>3. CASE l = "rolledBack"
    <3>1. Phase(d) = "none" /\ j.before \in {"none", "mixed"}
      BY <1>0, <2>1, <2>3 DEF CreateFits, Bare
    <3> QED BY <1>1, <3>1 DEF Contract!Outcome
  <2>4. CASE l = "ok"
    <3>1. /\ Phase(d) # "down" /\ j.before \in {"none", "mixed"}
          /\ j.before = "none" => Phase(d) = "up"
      BY <1>0, <2>1, <2>4 DEF CreateFits, MadeFits
    <3> QED BY <1>0, <1>1, <3>1 DEF Contract!Outcome, Phases
  <2> QED BY <2>2, <2>3, <2>4 DEF Done
<1>2. CASE j.op = "destroying"
  <2>1. DestroyFits(d, l, j)
    BY <1>2, FitsByOp
  <2>2. l = "ok"
    BY <2>1 DEF DestroyFits, DestroyLabels, Done
  <2>3. site[d] = NoSite /\ (j.before # "mixed" => Bare(d))
    BY <2>1, <2>2 DEF DestroyFits, Bare, Cleared
  <2>4. Phase(d) \in {"none", "mixed"} /\ (j.before # "mixed" => Phase(d) = "none")
    BY <1>0, <2>3 DEF Phases
  <2> QED BY <1>2, <2>4 DEF Contract!Outcome
<1>3. CASE j.op \in {"starting", "stopping", "restarting"}
  <2>1. RunFits(d, l, j)
    BY <1>3, FitsByOp
  <2>2. CASE l = "failed"
    <3>1. Phase(d) = j.before /\ j.before \notin {"up", "down"}
      BY <1>0, <2>1, <2>2 DEF RunFits
    <3> QED BY <1>0, <1>3, <3>1 DEF Contract!Outcome, Phases
  <2>3. CASE l = "ok"
    <3>1. /\ j.before # "none" /\ site[d] # NoSite /\ site[d].status = Target(j.op)
          /\ j.before \in {"up", "down"} => Whole(d) /\ AllAre(d, Target(j.op))
      BY <2>1, <2>3 DEF RunFits
    <3>2. Phase(d) # "none"
      BY <1>0, <3>1 DEF Bare
    <3>3. CASE j.op = "stopping"
      <4>1. Phase(d) # "up" /\ (j.before \in {"up", "down"} => Phase(d) = "down")
        BY <3>1, <3>3, PhaseIs DEF AllAre, Target
      <4> QED BY <1>0, <3>1, <3>2, <3>3, <4>1 DEF Contract!Outcome, Phases
    <3>4. CASE j.op \in {"starting", "restarting"}
      <4>1. Phase(d) # "down" /\ (j.before \in {"up", "down"} => Phase(d) = "up")
        BY <1>0, <3>1, <3>4, PhaseIs DEF Target
      <4> QED BY <1>0, <3>1, <3>2, <3>4, <4>1 DEF Contract!Outcome, Phases
    <3> QED BY <1>3, <3>3, <3>4
  <2>4. l # "rolledBack"
    BY <2>1 DEF RunFits
  <2> QED BY <2>2, <2>3, <2>4 DEF Done
<1>4. CASE j.op \in {"updating", "deploying", "rolling back"}
  <2>1. MoveFits(d, l, j)
    BY <1>4, FitsByOp
  <2>2. /\ j.before = "none" => Phase(d) = "none"
        /\ j.before = "up" => Phase(d) = "up"
        /\ j.before = "down" => Phase(d) \in {"down", "mixed"}
        /\ j.before = "mixed" => Phase(d) \in {"mixed", "up"}
    BY <2>1 DEF MoveFits
  <2> QED BY <1>0, <1>4, <2>2 DEF Contract!Outcome, Phases
<1>5. CASE j.op \in Quiet
  <2>1. QuietFits(d, l, j)
    BY <1>5, FitsByOp
  <2>2. j.op \notin SiteOps
    BY <1>5, QuietAssumption DEF SiteOps
  <2> QED BY <2>1, <2>2 DEF QuietFits, Contract!Outcome, SiteOps
<1> QED BY <1>1, <1>2, <1>3, <1>4, <1>5 DEF Ops, SiteOps

(* A domain no step is about is shown as before. *)
LEMMA ShownSame ==
  ASSUME NEW d, SameSite(d), \A q \in Procs : \/ pc'[q] = pc[q] /\ job'[q] = job[q]
                                              \/ ~(InSection(q) /\ Dom(q) = d)
                                                   /\ ~(InSection(q)' /\ Dom(q)' = d),
         MutualExclusion, MutualExclusion'
  PROVE  Shown(d)' = Shown(d) /\ HurtAt(d)' = HurtAt(d)
<1>1. \A q \in Procs : (InSection(q)' /\ Dom(q)' = d) <=> (InSection(q) /\ Dom(q) = d)
  BY DEF InSection, Dom
<1>2. CASE \E q \in Procs : InSection(q) /\ Dom(q) = d
  <2>1. PICK q \in Procs : InSection(q) /\ Dom(q) = d
    BY <1>2
  <2>2. job'[q] = job[q] /\ InSection(q)' /\ Dom(q)' = d
    BY <1>1, <2>1
  <2>3. Shown(d) = job[q].before /\ (HurtAt(d) <=> ~job[q].clean)
    BY <2>1, ShownIs
  <2>4. Shown(d)' = job'[q].before /\ (HurtAt(d)' <=> ~job'[q].clean)
    BY <2>2, ShownNext
  <2> QED BY <2>2, <2>3, <2>4 DEF HurtAt
<1>3. CASE ~\E q \in Procs : InSection(q) /\ Dom(q) = d
  <2>1. Shown(d) = Phase(d) /\ ~HurtAt(d)
    BY <1>3, ShownIs
  <2>2. Shown(d)' = Phase(d)' /\ ~HurtAt(d)'
    BY <1>1, <1>3, ShownNext
  <2> QED BY <2>1, <2>2, SameIsSame DEF HurtAt
<1> QED BY <1>2, <1>3

(* One step of one request, as a step of the contract. *)
LEMMA RequestKeepsContract ==
  ASSUME IInv, Outcomes, IInv', NEW p \in Procs, Step(p) \/ Request(p)
  PROVE  Contract!CNext \/ UNCHANGED Contract!cvars
<1> USE DEF IInv
<1>1. CASE Requesting(p)
  <2>1. PICK d \in Domains, j \in Job, l \in Labels :
          /\ j = job'[p] /\ l = pc'[p] /\ j.dom = d /\ j.clean = TRUE /\ j.before = Phase(d)
          /\ UNCHANGED <<site, docker, files, crashes>>
          /\ Fits(d, l, j)
    BY <1>1, BeginFits
  <2>2. /\ OthersKeep(p) /\ ~InSection(p) /\ InSection(p)' /\ Dom(p)' = d /\ lock[d] = "free"
        /\ lock' = [lock EXCEPT ![d] = j.op] /\ j.op \in Ops /\ crashes' = crashes
    BY <1>1, <2>1, RequestShape DEF Enters, ArgsOf, Dom
  <2>3. \A e : SameSite(e)
    BY <2>1 DEF SameSite, docker
  <2>4. \A q \in Procs : InSection(q) => Dom(q) # d
    <3>1. ASSUME NEW q \in Procs, InSection(q) PROVE lock[Dom(q)] # "free"
      BY <3>1, QuietAssumption DEF MutualExclusion, Args, ArgsOf, Ops, SiteOps
    <3> QED BY <2>2, <3>1
  <2>5. Shown(d)' = Shown(d) /\ HurtAt(d)' = HurtAt(d)
    <3>1. Shown(d) = Phase(d) /\ ~HurtAt(d)
      BY <2>4, ShownIs
    <3>2. Shown(d)' = Phase(d) /\ ~HurtAt(d)'
      BY <2>1, <2>2, ShownNext
    <3> QED BY <3>1, <3>2 DEF HurtAt
  <2>6. ASSUME NEW e \in Domains \ {d} PROVE Shown(e)' = Shown(e) /\ HurtAt(e)' = HurtAt(e)
    BY <2>2, <2>3, ShownSame DEF OthersKeep
  <2>7. shown' = shown /\ hurtAt' = hurtAt
    BY <2>5, <2>6 DEF shown, hurtAt
  <2> QED BY <2>2, <2>7, ContractBegin
<1>2. CASE Release(p)
  <2>1. PICK d \in Domains : d = Dom(p)
    BY JobType
  <2>2. PICK j \in Job : j = job[p]
    BY DEF TypeOK
  <2>3. PICK l \in Labels : l = pc[p]
    BY DEF TypeOK
  <2>4. /\ OthersKeep(p) /\ InSection(p) /\ ~InSection(p)' /\ lock' = [lock EXCEPT ![d] = "free"]
        /\ crashes' = crashes /\ l \in Done
    BY <1>2, <2>1, <2>3, LeaveShape DEF Leaves, InSection
  <2>5. \A e : SameSite(e)
    BY <1>2 DEF Release, SameSite, docker
  <2>6. lock[d] = j.op /\ j.op \in Ops /\ lock[d] # "free"
    BY <2>1, <2>2, <2>4, QuietAssumption DEF MutualExclusion, Args, ArgsOf, Ops, SiteOps
  <2>7. Shown(d) = j.before /\ (HurtAt(d) <=> ~j.clean)
    BY <2>1, <2>2, <2>4, ShownIs
  <2>8. \A q \in Procs : InSection(q)' => Dom(q)' # d
    BY <2>1, <2>4 DEF MutualExclusion, OthersKeep, InSection, Dom
  <2>9. Shown(d)' = Phase(d) /\ ~HurtAt(d)'
    BY <2>5, <2>8, ShownNext, SameIsSame
  <2>10. ASSUME NEW e \in Domains \ {d} PROVE Shown(e)' = Shown(e) /\ HurtAt(e)' = HurtAt(e)
    BY <2>1, <2>4, <2>5, ShownSame DEF OthersKeep
  <2>11. Phase(d) \in IF hurtAt[d] THEN Contract!Phases ELSE Contract!Outcome(lock[d], shown[d])
    <3>1. hurtAt[d] <=> ~j.clean
      BY <2>7 DEF hurtAt
    <3>2. shown[d] = j.before
      BY <2>7 DEF shown
    <3>3. CASE ~j.clean
      BY <3>1, <3>3, PhaseIs DEF Phases, Contract!Phases
    <3>4. CASE j.clean
      <4>1. Fits(d, l, j)
        BY <2>1, <2>2, <2>3, <2>4, <3>4 DEF Outcomes, OutcomeOf
      <4>2. Phase(d) \in Contract!Outcome(lock[d], shown[d])
        BY <2>4, <2>6, <3>2, <4>1, OutcomeMet
      <4> QED BY <3>1, <3>4, <4>2
    <3> QED BY <3>3, <3>4
  <2>12. shown' = [shown EXCEPT ![d] = Phase(d)]
    BY <2>9, <2>10 DEF shown
  <2>13. hurtAt' = [hurtAt EXCEPT ![d] = FALSE]
    <3>1. HurtAt(d)' = FALSE
      BY <2>9 DEF HurtAt
    <3> QED BY <2>10, <3>1 DEF hurtAt
  <2> QED BY <2>4, <2>6, <2>11, <2>12, <2>13, ContractEnd
<1>3. CASE CreateStep(p) \/ DestroyStep(p) \/ RunStep(p) \/ ClientGone(p)
  <2>1. PICK d \in Domains : d = Dom(p)
    BY JobType
  <2>2. OthersKeep(p) /\ Inside(p) /\ Remembers(p)
    <3>1. CASE ClientGone(p)
      BY <3>1, GoneShape, JobRemembers DEF ClientGone
    <3>2. CASE CreateStep(p) \/ DestroyStep(p) \/ RunStep(p)
      BY <3>2, InsideShape, InsideRemembers
    <3> QED BY <1>3, <3>1, <3>2
  <2>3. InSection(p) /\ InSection(p)' /\ Dom(p)' = d /\ lock' = lock /\ crashes' = crashes
    BY <2>1, <2>2 DEF Inside, Dom
  <2>4. ASSUME NEW e \in Domains \ {d} PROVE SameSite(e)
    <3>1. CASE ClientGone(p)
      BY <3>1 DEF ClientGone, SameSite, docker
    <3>2. CASE CreateStep(p) \/ DestroyStep(p) \/ RunStep(p)
      BY <2>1, <3>2, Local
    <3> QED BY <1>3, <3>1, <3>2
  <2>5. ASSUME NEW e \in Domains \ {d} PROVE Shown(e)' = Shown(e) /\ HurtAt(e)' = HurtAt(e)
    BY <2>1, <2>2, <2>3, <2>4, ShownSame DEF OthersKeep
  <2>6. /\ Shown(d) = job[p].before /\ (HurtAt(d) <=> ~job[p].clean)
        /\ Shown(d)' = job'[p].before /\ (HurtAt(d)' <=> ~job'[p].clean)
    BY <2>1, <2>3, ShownIs, ShownNext
  <2>7. Shown(d)' = Shown(d) /\ (HurtAt(d) => HurtAt(d)')
    BY <2>2, <2>6 DEF Remembers
  <2>8. shown' = shown
    BY <2>5, <2>7 DEF shown
  <2>9. CASE HurtAt(d)' <=> HurtAt(d)
    <3>1. HurtAt(d)' = HurtAt(d)
      BY <2>9 DEF HurtAt
    <3>2. hurtAt' = hurtAt
      BY <2>5, <3>1 DEF hurtAt
    <3> QED BY <2>3, <2>8, <3>2, ContractStutter
  <2>10. CASE HurtAt(d)' /\ ~HurtAt(d)
    <3>1. HurtAt(d)' = TRUE
      BY <2>10 DEF HurtAt
    <3>2. hurtAt' = [hurtAt EXCEPT ![d] = TRUE]
      BY <2>5, <3>1 DEF hurtAt
    <3>3. lock[d] # "free"
      BY <2>1, <2>3, QuietAssumption DEF MutualExclusion, Args, ArgsOf, Ops, SiteOps
    <3> QED BY <2>3, <2>8, <3>2, <3>3, ContractHurt
  <2> QED BY <2>7, <2>9, <2>10
<1> QED BY <1>1, <1>2, <1>3 DEF Step, Request, Requesting

LEMMA CrashKeepsContract == ASSUME IInv, IInv', Crash PROVE Contract!CNext
<1> USE DEF IInv
<1>1. /\ crashes' = crashes + 1 /\ lock' = [d \in Domains |-> "free"]
      /\ \A p \in Procs : ~InSection(p)'
      /\ \A d : SameSite(d)
  BY DEF Crash, InSection, SameSite, docker
<1>2. \A d : Shown(d)' = Phase(d) /\ ~HurtAt(d)'
  BY <1>1, ShownNext, SameIsSame
<1>3. hurtAt' = [d \in Domains |-> FALSE]
  BY <1>2 DEF hurtAt, HurtAt
<1>4. shown' \in [Domains -> Contract!Phases]
  <2>1. shown' = [d \in Domains |-> Phase(d)]
    BY <1>2 DEF shown
  <2> QED BY <2>1, PhaseIs DEF Phases, Contract!Phases
<1>5. ASSUME NEW d \in Domains, lock[d] = "free" PROVE shown'[d] = shown[d]
  <2>1. \A q \in Procs : InSection(q) => Dom(q) # d
    <3>1. ASSUME NEW q \in Procs, InSection(q) PROVE lock[Dom(q)] # "free"
      BY <3>1, QuietAssumption DEF MutualExclusion, Args, ArgsOf, Ops, SiteOps
    <3> QED BY <1>5, <3>1
  <2>2. Shown(d) = Phase(d)
    BY <2>1, ShownIs
  <2> QED BY <1>2, <2>2 DEF shown
<1> QED BY <1>1, <1>3, <1>4, <1>5, ContractCrash

(* The engine implements what SiteContract promises of every step: operations exclude *)
(* each other, nobody sees a site change but at the end of an operation, and one in   *)
(* which no call failed ends in an outcome that depends only on what it was and on    *)
(* what it found (Implements without the fairness).                                   *)
THEOREM KeepsTheContract == Spec => Contract!CInit /\ [][Contract!CNext]_(Contract!cvars)
<1>1. ASSUME IInv, Outcomes, IInv', [Next]_vars PROVE [Contract!CNext]_(Contract!cvars)
  <2>1. CASE UNCHANGED vars
    <3>1. lock' = lock /\ crashes' = crashes /\ shown' = shown /\ hurtAt' = hurtAt
      <4>1. lock' = lock /\ crashes' = crashes /\ pc' = pc /\ job' = job /\ \A d : SameSite(d)
        BY <2>1 DEF vars, docker, SameSite
      <4>2. \A d : Shown(d)' = Shown(d) /\ HurtAt(d)' = HurtAt(d)
        BY <1>1, <4>1, ShownSame DEF IInv
      <4> QED BY <4>1, <4>2 DEF shown, hurtAt
    <3> QED BY <3>1, ContractStutter
  <2>2. CASE Crash
    BY <1>1, <2>2, CrashKeepsContract
  <2>3. ASSUME NEW p \in Procs, Step(p) \/ Request(p) PROVE [Contract!CNext]_(Contract!cvars)
    BY <1>1, <2>3, RequestKeepsContract
  <2> QED BY <1>1, <2>1, <2>2, <2>3 DEF Next
<1> QED BY <1>1, ContractInit, OutcomesInvariant, StepInv, PTL DEF Spec

====

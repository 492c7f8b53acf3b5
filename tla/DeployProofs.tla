------------------------------- MODULE DeployProofs -------------------------------
(**************************************************************************)
(* Proofs about the two sides of a deploy, its goroutines and what        *)
(* clients hear of them.                                                  *)
(*                                                                        *)
(* Deployments, for any sites, branches, requests and bounds: the type    *)
(* invariant, HooksSeeTheirCommit, RowsTellTheTree, and the action        *)
(* property DeploysSpaced for any cooldown. The invariant says, for       *)
(* every label a goroutine that holds a site's lock can be at, how far    *)
(* the tree and the latest row of that site have come apart by then;      *)
(* that it is preserved follows from one frame lemma, since a step of an  *)
(* operation touches nothing but the site it holds.                       *)
(*                                                                        *)
(* ProgressHub, for any domains, streams, buffer and channel sizes, and   *)
(* any number of operations and events: the type invariant, InOrder,      *)
(* NothingMissed, and StaleTimersSpare, the safety half of                *)
(* BufferLifetime. What a stream has yet to send, its replay and then     *)
(* its channel, is one sequence of the domain's history that ends with    *)
(* the latest event, unless the channel was full.                         *)
(**************************************************************************)
EXTENDS Deployments, ProgressHub, TLAPS

---------------------------------------------------------------------------------
(* The invariant. *)

Fetching == {"fetch", "reset", "wipe", "clone"}
Deploying == Fetching \cup {"record", "hooks"}
Rolling == {"back", "mark"}
Held == Deploying \cup Rolling \cup {"bounce", "end"}
Holds(p) == pc[p] \in Held

(* What RowsTellTheTree says of one site, without its guards. *)
Settled(d) == row[d] # NoRow /\ row[d].status = "pending" => crashes > 0
OlderTree(d) == tree[d][1] = row[d].commit[1] /\ tree[d][2] < row[d].commit[2]
Tells(d) == row[d] # NoRow /\ d \notin stray /\ tree[d] # NoTree =>
  IF row[d].status = "rolled_back" THEN OlderTree(d) ELSE tree[d] = row[d].commit

(* A lock has one holder, and a label goes with an operation. *)
LockInv == \A p \in Procs : Holds(p) =>
  /\ lock[Dom(p)] # "free"
  /\ \A q \in Procs : Holds(q) /\ Dom(q) = Dom(p) => q = p

OpInv(p) ==
  /\ pc[p] \in Deploying => job[p].op = "deploy"
  /\ pc[p] \in Rolling => job[p].op = "rollback"
  /\ pc[p] = "bounce" => job[p].op \in {"deploy", "rollback"}
  /\ pc[p] \in Fetching => Dom(p) \in Repos
  /\ pc[p] \in Fetching \cup {"record"} => row[Dom(p)].id < MaxRows

(* Where an operation has got to with the tree and the row of its site. *)
Own(p) == row[Dom(p)] # NoRow /\ row[Dom(p)].id = job[p].id /\ job[p].id # 0
TreeInv(p) ==
  /\ pc[p] \in Held \ {"bounce", "hooks"} => Settled(Dom(p))
  /\ pc[p] \in {"fetch", "reset", "wipe", "back", "end"} => Tells(Dom(p))
  /\ pc[p] = "reset" => tree[Dom(p)] # NoTree
  /\ pc[p] = "clone" => tree[Dom(p)] = NoTree
DeployInv(p) ==
  pc[p] = "hooks" \/ (pc[p] = "bounce" /\ job[p].op = "deploy") =>
    /\ Own(p) /\ row[Dom(p)].status = "pending" /\ Dom(p) \notin stray
    /\ row[Dom(p)].commit = tree[Dom(p)] /\ job[p].commit = tree[Dom(p)]
    /\ pc[p] = "hooks" /\ ~job[p].hurt => bound[Dom(p)]
RollInv(p) ==
  /\ pc[p] = "back" => Own(p)
  /\ pc[p] = "mark" \/ (pc[p] = "bounce" /\ job[p].op = "rollback") =>
       /\ Own(p) /\ Settled(Dom(p))
       /\ Dom(p) \notin stray /\ tree[Dom(p)] # NoTree => OlderTree(Dom(p))
ProcInv(p) == OpInv(p) /\ TreeInv(p) /\ DeployInv(p) /\ RollInv(p)

Unheld(d) == \A p \in Procs : Holds(p) => Dom(p) # d
FreeInv(d) == Unheld(d) => Settled(d) /\ Tells(d)
BareInv(d) == d \notin Repos => tree[d] = NoTree

SiteInv ==
  /\ LockInv
  /\ \A p \in Procs : ProcInv(p)
  /\ \A d \in Domains : FreeInv(d) /\ BareInv(d)

IInv == TypeOK /\ SiteInv

(* The cooldown map is never behind the deploys that were let through. *)
LetInv ==
  /\ DOMAIN let \subseteq DOMAIN last
  /\ \A d \in DOMAIN let : last[d] <= let[d] /\ let[d] < Cooldown

---------------------------------------------------------------------------------
(* Lemmas about the helpers. *)

(* A goroutine that serves no request has well-typed arguments. *)
LEMMA NoJobType == NoJob \in Job
  <1>1. (CHOOSE d \in Domains : TRUE) \in Domains
    BY ReposAssumption
  <1>2. QED
    BY <1>1, MainAssumption, DeployBoundsAssumption DEF NoJob, Job, NoTree

(* A step of p's operation, which works on d, and what it leaves alone: the other *)
(* goroutines and every other site.                                               *)
Frame(p, d) ==
  /\ \A q \in Procs \ {p} : pc'[q] = pc[q] /\ job'[q] = job[q]
  /\ \A e \in Domains \ {d} :
       /\ lock'[e] = lock[e] /\ tree'[e] = tree[e] /\ bound'[e] = bound[e] /\ row'[e] = row[e]
       /\ e \in stray' <=> e \in stray
  /\ crashes' = crashes

(* What is true of a site that a step leaves alone stays true. *)
LEMMA OthersKeep ==
  ASSUME IInv, TypeOK', NEW p \in Procs, NEW d \in Domains, Frame(p, d),
         NEW e \in Domains \ {d}
  PROVE  /\ (Settled(e) <=> Settled(e)') /\ (Tells(e) <=> Tells(e)')
         /\ (OlderTree(e) <=> OlderTree(e)')
  BY DEF Frame, Settled, Tells, OlderTree, NoRow, NoTree

(* It is enough to look at the goroutine that moves and at the site it works on. *)
LEMMA FrameKeeps ==
  ASSUME IInv, TypeOK', NEW p \in Procs, NEW d \in Domains, Frame(p, d),
         \A q \in Procs \ {p} : Holds(q) => Dom(q) # d,
         ProcInv(p)', FreeInv(d)', BareInv(d)',
         Holds(p) => Dom(p) = d, Holds(p)' => Dom(p)' = d /\ lock'[d] # "free"
  PROVE  SiteInv'
  <1>1. \A q \in Procs \ {p} : pc'[q] = pc[q] /\ job'[q] = job[q] /\ Dom(q)' = Dom(q)
    BY DEF Frame, Dom
  <1>2. \A q \in Procs : Dom(q) \in Domains /\ Dom(q)' \in Domains
    BY DEF IInv, TypeOK, Job, Dom
  <1>3. LockInv'
    <2>1. ASSUME NEW q \in Procs, Holds(q)'
          PROVE  /\ lock'[Dom(q)'] # "free"
                 /\ \A r \in Procs : Holds(r)' /\ Dom(r)' = Dom(q)' => r = q
      BY <2>1, <1>1, <1>2 DEF IInv, SiteInv, LockInv, Holds, Frame
    <2>2. QED
      BY <2>1 DEF LockInv
  <1>4. ASSUME NEW q \in Procs \ {p}
        PROVE  ProcInv(q)'
    <2>1. CASE ~Holds(q)
      BY <2>1, <1>1 DEF Holds, Held, Deploying, Rolling, Fetching, ProcInv, OpInv, TreeInv,
         DeployInv, RollInv
    <2>2. CASE Holds(q)
      <3> DEFINE e == Dom(q)
      <3>1. e \in Domains \ {d} /\ Dom(q)' = e
        BY <2>2, <1>1, <1>2
      <3>2. /\ tree'[e] = tree[e] /\ bound'[e] = bound[e] /\ row'[e] = row[e]
            /\ e \in stray' <=> e \in stray
        BY <3>1 DEF Frame
      <3>3. /\ (Settled(e) <=> Settled(Dom(q))') /\ (Tells(e) <=> Tells(Dom(q))')
            /\ (OlderTree(e) <=> OlderTree(Dom(q))')
        <4>1. /\ (Settled(e) <=> Settled(e)') /\ (Tells(e) <=> Tells(e)')
              /\ (OlderTree(e) <=> OlderTree(e)')
          BY <3>1, OthersKeep
        <4>2. QED
          BY <4>1, <3>1, <3>2 DEF Settled, Tells, OlderTree
      <3>4. ProcInv(q)
        BY DEF IInv, SiteInv
      <3>5. OpInv(q)'
        BY <3>1, <3>2, <3>4, <1>1 DEF ProcInv, OpInv
      <3>6. TreeInv(q)'
        BY <3>1, <3>2, <3>3, <3>4, <1>1 DEF ProcInv, TreeInv
      <3>7. DeployInv(q)'
        BY <3>1, <3>2, <3>4, <1>1 DEF ProcInv, DeployInv, Own, NoRow
      <3>8. RollInv(q)'
        BY <3>1, <3>2, <3>3, <3>4, <1>1 DEF ProcInv, RollInv, Own, NoRow
      <3>9. QED
        BY <3>5, <3>6, <3>7, <3>8 DEF ProcInv
    <2>3. QED
      BY <2>1, <2>2
  <1>5. ASSUME NEW e \in Domains \ {d}
        PROVE  FreeInv(e)' /\ BareInv(e)'
    <2>1. Unheld(e)' => Unheld(e)
      BY <1>1, <1>5 DEF Unheld, Holds
    <2>2. (Settled(e) <=> Settled(e)') /\ (Tells(e) <=> Tells(e)')
      BY <1>5, OthersKeep
    <2>3. FreeInv(e) /\ BareInv(e) /\ tree'[e] = tree[e]
      BY <1>5 DEF IInv, SiteInv, Frame
    <2>4. QED
      BY <2>1, <2>2, <2>3 DEF FreeInv, BareInv, NoTree
  <1>6. QED
    BY <1>3, <1>4, <1>5 DEF SiteInv

(* The types of what the steps read, one lemma for each, for a step to cite no more *)
(* than it reads.                                                                   *)
LEMMA PcType == IInv => pc \in [Procs -> Labels]
  BY DEF IInv, TypeOK
LEMMA JobType == IInv => job \in [Procs -> Job]
  BY DEF IInv, TypeOK
LEMMA LockType == IInv => lock \in [Domains -> {"free", "deploying", "rolling back"}]
  BY DEF IInv, TypeOK
LEMMA HeadType == IInv => head \in [Branches -> 0..MaxCommits]
  BY DEF IInv, TypeOK
LEMMA TreeType == IInv => tree \in [Domains -> Commits \cup {NoTree}]
  BY DEF IInv, TypeOK
LEMMA FetchTypes == IInv => wide \in [Domains -> BOOLEAN] /\ bound \in [Domains -> BOOLEAN]
  BY DEF IInv, TypeOK
LEMMA RowType == IInv => row \in [Domains -> Row \cup {NoRow}]
  BY DEF IInv, TypeOK

(* The fields of a goroutine's arguments. *)
LEMMA ProcTypes ==
  ASSUME IInv, NEW p \in Procs
  PROVE  /\ Dom(p) \in Domains /\ job[p].branch \in Branches /\ job[p].ref \in 0..MaxCommits
         /\ job[p].id \in 0..MaxRows /\ job[p].commit \in Commits \cup {NoTree}
         /\ job[p].hurt \in BOOLEAN
  BY JobType DEF Job, Dom

(* A call that may fail counts against the bound of failures. *)
LEMMA FaultType ==
  ASSUME IInv, Works \/ Fault
  PROVE  faults' \in 0..MaxFaults
  <1>1. faults \in 0..MaxFaults
    BY DEF IInv, TypeOK
  <1>2. QED
    BY <1>1, DeployBoundsAssumption DEF Works, Fault

(* A goroutine that goes from one label to another. *)
LEMMA GotoType ==
  ASSUME IInv, NEW p \in Procs, NEW l \in Labels, Goto(p, l)
  PROVE  /\ pc' \in [Procs -> Labels] /\ pc'[p] = l
         /\ \A q \in Procs \ {p} : pc'[q] = pc[q]
  BY PcType DEF Goto

(* What the invariant says of the goroutine that holds a site's lock. *)
LEMMA HolderFacts ==
  ASSUME IInv, NEW p \in Procs, Holds(p)
  PROVE  /\ Dom(p) \in Domains /\ lock[Dom(p)] # "free" /\ ProcInv(p) /\ BareInv(Dom(p))
         /\ \A q \in Procs \ {p} : Holds(q) => Dom(q) # Dom(p)
  BY DEF IInv, SiteInv, TypeOK, LockInv, Job, Dom

(* A step inside an operation. *)
LEMMA StepKeeps ==
  ASSUME IInv, TypeOK', NEW p \in Procs, Holds(p), Frame(p, Dom(p)), Dom(p)' = Dom(p),
         pc'[p] \in Held,
         lock'[Dom(p)] = lock[Dom(p)], ProcInv(p)', BareInv(Dom(p))'
  PROVE  IInv'
  <1>1. Holds(p)'
    BY DEF Holds
  <1>2. FreeInv(Dom(p))'
    BY <1>1 DEF FreeInv, Unheld
  <1>3. SiteInv'
    BY <1>1, <1>2, HolderFacts, FrameKeeps
  <1>4. QED
    BY <1>3 DEF IInv

---------------------------------------------------------------------------------
(* One lemma per step of a deploy. *)

LEMMA FetchKeeps ==
  ASSUME IInv, NEW p \in Procs, Fetch(p)
  PROVE  IInv'
  <1>1. Holds(p)
    BY DEF Fetch, At, Holds, Held, Deploying, Fetching
  <1>2. PICK l \in {"reset", "end", "wipe"} :
          Goto(p, l) /\ pc[p] = "fetch" /\ (l = "reset" => tree[Dom(p)] # NoTree)
    BY DEF Fetch, At
  <1>3. /\ pc' \in [Procs -> Labels] /\ pc'[p] = l /\ pc[p] = "fetch"
        /\ \A q \in Procs \ {p} : pc'[q] = pc[q]
    BY <1>2, GotoType DEF Labels
  <1>4. job' = job \/ \E n \in 0..MaxCommits : job' = [job EXCEPT ![p].ref = n]
    <2>1. head[job[p].branch] \in 0..MaxCommits /\ 0 \in 0..MaxCommits
      BY HeadType, ProcTypes, DeployBoundsAssumption
    <2>2. QED
      BY <2>1 DEF Fetch, Keep
  <1>5. /\ job' \in [Procs -> Job] /\ \A q \in Procs \ {p} : job'[q] = job[q]
        /\ Dom(p)' = Dom(p) /\ job'[p].op = job[p].op /\ job'[p].id = job[p].id
    BY <1>4, JobType DEF Job, Dom
  <1>6. /\ lock' = lock /\ UNCHANGED git /\ row' = row /\ UNCHANGED web /\ stray' = stray
        /\ crashes' = crashes /\ (Works \/ Fault)
    BY DEF Fetch
  <1>7. TypeOK'
    BY <1>3, <1>5, <1>6, FaultType DEF IInv, TypeOK, git, web
  <1>8. Frame(p, Dom(p))
    BY <1>3, <1>5, <1>6 DEF Frame, git
  <1>9. ProcInv(p) /\ BareInv(Dom(p))
    BY <1>1, HolderFacts
  <1>10. ProcInv(p)'
    BY <1>2, <1>3, <1>5, <1>6, <1>9 DEF ProcInv, OpInv, TreeInv, DeployInv, RollInv, Settled,
       Tells, OlderTree, Held, Deploying, Fetching, Rolling, NoRow, NoTree, git
  <1>11. BareInv(Dom(p))'
    BY <1>5, <1>6, <1>9 DEF BareInv, NoTree, git
  <1>12. QED
    BY <1>1, <1>5, <1>6, <1>7, <1>8, <1>10, <1>11, <1>3, StepKeeps
       DEF Held, Deploying, Fetching, Rolling

LEMMA ResetKeeps ==
  ASSUME IInv, NEW p \in Procs, Reset(p)
  PROVE  IInv'
  <1>1. Holds(p)
    BY DEF Reset, At, Holds, Held, Deploying, Fetching
  <1>2. PICK l \in {"record", "wipe"} : Goto(p, l) /\ pc[p] = "reset" /\ (l = "wipe" => tree' = tree)
    BY DEF Reset, At
  <1>3. /\ pc' \in [Procs -> Labels] /\ pc'[p] = l /\ pc[p] = "reset"
        /\ \A q \in Procs \ {p} : pc'[q] = pc[q]
    BY <1>2, GotoType DEF Labels
  <1>4. job' = job /\ Dom(p)' = Dom(p) /\ Dom(p) \in Domains
    BY ProcTypes DEF Reset, Keep, Dom
  <1>5. \/ tree' = tree
        \/ /\ job[p].ref > 0
           /\ tree' = [tree EXCEPT ![Dom(p)] = <<job[p].branch, job[p].ref>>]
    BY DEF Reset
  <1>6. job[p].ref > 0 => <<job[p].branch, job[p].ref>> \in Commits
    BY ProcTypes, DeployBoundsAssumption DEF Commits
  <1>7. /\ tree' \in [Domains -> Commits \cup {NoTree}]
        /\ \A d \in Domains \ {Dom(p)} : tree'[d] = tree[d]
    BY <1>4, <1>5, <1>6, TreeType
  <1>8. /\ lock' = lock /\ head' = head /\ wide' = wide /\ bound' = bound /\ row' = row
        /\ UNCHANGED web /\ stray' = stray /\ crashes' = crashes /\ (Works \/ Fault)
    BY DEF Reset
  <1>9. TypeOK'
    BY <1>3, <1>4, <1>7, <1>8, FaultType DEF IInv, TypeOK, web
  <1>10. Frame(p, Dom(p))
    BY <1>3, <1>4, <1>7, <1>8 DEF Frame
  <1>11. ProcInv(p) /\ BareInv(Dom(p))
    BY <1>1, HolderFacts
  <1>12. ProcInv(p)'
    BY <1>2, <1>3, <1>4, <1>8, <1>11 DEF ProcInv, OpInv, TreeInv, DeployInv, RollInv, Settled,
       Tells, OlderTree, Held, Deploying, Fetching, Rolling, NoRow, NoTree
  <1>13. BareInv(Dom(p))'
    BY <1>3, <1>4, <1>11 DEF BareInv, ProcInv, OpInv, Fetching
  <1>14. QED
    BY <1>1, <1>4, <1>8, <1>9, <1>10, <1>12, <1>13, <1>3, StepKeeps
       DEF Held, Deploying, Fetching, Rolling

LEMMA WipeKeeps ==
  ASSUME IInv, NEW p \in Procs, Wipe(p)
  PROVE  IInv'
  <1>1. Holds(p)
    BY DEF Wipe, At, Holds, Held, Deploying, Fetching
  <1>2. /\ pc' \in [Procs -> Labels] /\ pc'[p] = "clone" /\ pc[p] = "wipe"
        /\ \A q \in Procs \ {p} : pc'[q] = pc[q]
    BY GotoType DEF Wipe, At, Labels
  <1>3. job' = job /\ Dom(p)' = Dom(p) /\ Dom(p) \in Domains
    BY ProcTypes DEF Wipe, Keep, Dom
  <1>4. /\ tree' \in [Domains -> Commits \cup {NoTree}] /\ tree'[Dom(p)] = NoTree
        /\ \A d \in Domains \ {Dom(p)} : tree'[d] = tree[d]
    BY <1>3, TreeType DEF Wipe
  <1>5. /\ bound' \in [Domains -> BOOLEAN]
        /\ \A d \in Domains \ {Dom(p)} : bound'[d] = bound[d]
    BY <1>3, FetchTypes DEF Wipe
  <1>6. /\ lock' = lock /\ head' = head /\ wide' = wide /\ row' = row
        /\ UNCHANGED web /\ stray' = stray /\ crashes' = crashes /\ faults' = faults
    BY DEF Wipe
  <1>7. TypeOK'
    BY <1>2, <1>3, <1>4, <1>5, <1>6 DEF IInv, TypeOK, web
  <1>8. Frame(p, Dom(p))
    BY <1>2, <1>3, <1>4, <1>5, <1>6 DEF Frame
  <1>9. ProcInv(p)
    BY <1>1, HolderFacts
  <1>10. ProcInv(p)'
    BY <1>2, <1>3, <1>4, <1>6, <1>9 DEF ProcInv, OpInv, TreeInv, DeployInv, RollInv, Settled,
       Held, Deploying, Fetching, Rolling, NoRow, NoTree
  <1>11. BareInv(Dom(p))'
    BY <1>3, <1>4 DEF BareInv, NoTree
  <1>12. QED
    BY <1>1, <1>3, <1>6, <1>7, <1>8, <1>10, <1>11, <1>2, StepKeeps
       DEF Held, Deploying, Fetching, Rolling

LEMMA CloneTreeKeeps ==
  ASSUME IInv, NEW p \in Procs, CloneTree(p)
  PROVE  IInv'
  <1>1. Holds(p)
    BY DEF CloneTree, At, Holds, Held, Deploying, Fetching
  <1>2. PICK l \in {"record", "end"} :
          Goto(p, l) /\ pc[p] = "clone" /\ (l = "end" => tree' = tree)
    BY DEF CloneTree, At
  <1>3. /\ pc' \in [Procs -> Labels] /\ pc'[p] = l /\ pc[p] = "clone"
        /\ \A q \in Procs \ {p} : pc'[q] = pc[q]
    BY <1>2, GotoType DEF Labels
  <1>4. job' = job /\ Dom(p)' = Dom(p) /\ Dom(p) \in Domains
    BY ProcTypes DEF CloneTree, Keep, Dom
  <1>5. \/ tree' = tree /\ wide' = wide
        \/ /\ tree' = [tree EXCEPT ![Dom(p)] = <<job[p].branch, head[job[p].branch]>>]
           /\ wide' = [wide EXCEPT ![Dom(p)] = TRUE] /\ head[job[p].branch] > 0
    BY DEF CloneTree
  <1>6. head[job[p].branch] > 0 => <<job[p].branch, head[job[p].branch]>> \in Commits
    BY HeadType, ProcTypes, DeployBoundsAssumption DEF Commits
  <1>7. /\ tree' \in [Domains -> Commits \cup {NoTree}]
        /\ \A d \in Domains \ {Dom(p)} : tree'[d] = tree[d]
    BY <1>4, <1>5, <1>6, TreeType
  <1>8. wide' \in [Domains -> BOOLEAN]
    BY <1>5, FetchTypes
  <1>9. /\ lock' = lock /\ head' = head /\ bound' = bound /\ row' = row
        /\ UNCHANGED web /\ stray' = stray /\ crashes' = crashes /\ (Works \/ Fault)
    BY DEF CloneTree
  <1>10. TypeOK'
    BY <1>3, <1>4, <1>7, <1>8, <1>9, FaultType DEF IInv, TypeOK, web
  <1>11. Frame(p, Dom(p))
    BY <1>3, <1>4, <1>7, <1>9 DEF Frame
  <1>12. ProcInv(p)
    BY <1>1, HolderFacts
  <1>13. ProcInv(p)'
    BY <1>2, <1>3, <1>4, <1>9, <1>12 DEF ProcInv, OpInv, TreeInv, DeployInv, RollInv, Settled,
       Tells, Held, Deploying, Fetching, Rolling, NoRow, NoTree
  <1>14. BareInv(Dom(p))'
    BY <1>3, <1>4, <1>12 DEF BareInv, ProcInv, OpInv, Fetching
  <1>15. QED
    BY <1>1, <1>4, <1>9, <1>10, <1>11, <1>13, <1>14, <1>3, StepKeeps
       DEF Held, Deploying, Fetching, Rolling

(* A row is none, or one of the table. *)
LEMMA RowFields ==
  ASSUME IInv, NEW d \in Domains
  PROVE  /\ row[d].id \in 0..MaxRows /\ row[d].commit \in Commits \cup {NoTree}
         /\ row[d] # NoRow => row[d] \in Row /\ row[d].id # 0
  <1>1. row[d] \in Row \cup {NoRow}
    BY RowType
  <1>2. CASE row[d] = NoRow
    BY <1>2, DeployBoundsAssumption DEF NoRow
  <1>3. CASE row[d] \in Row
    BY <1>3, DeployBoundsAssumption DEF Row, NoRow
  <1>4. QED
    BY <1>1, <1>2, <1>3

(* A status is written to the row the operation made or found, and to no other. *)
LEMMA SetStatusRow ==
  ASSUME IInv, NEW p \in Procs, Own(p),
         NEW s \in {"pending", "success", "failed", "rolled_back"}, SetStatus(p, s)
  PROVE  /\ row' \in [Domains -> Row \cup {NoRow}]
         /\ \A d \in Domains \ {Dom(p)} : row'[d] = row[d]
         /\ row'[Dom(p)] # NoRow /\ row'[Dom(p)].id = row[Dom(p)].id
         /\ row'[Dom(p)].commit = row[Dom(p)].commit /\ row'[Dom(p)].status = s
  <1> DEFINE d == Dom(p)
             r == [row[d] EXCEPT !.status = s]
  <1>1. d \in Domains /\ row[d] \in Row
    BY ProcTypes, RowFields DEF Own
  <1>2. row' = [row EXCEPT ![d] = r]
    BY DEF SetStatus, Own
  <1>3. r \in Row /\ r.id = row[d].id /\ r.commit = row[d].commit /\ r.status = s
    BY <1>1 DEF Row
  <1>4. r # NoRow
    BY <1>3, <1>1, DeployBoundsAssumption DEF NoRow, Row
  <1>5. QED
    BY <1>1, <1>2, <1>3, <1>4, RowType

LEMMA RecordKeeps ==
  ASSUME IInv, NEW p \in Procs, Record(p)
  PROVE  IInv'
  <1> DEFINE d == Dom(p)
             c == tree[d]
             n == row[d].id + 1
             r == [id |-> n, commit |-> c, status |-> "pending"]
  <1>1. Holds(p) /\ pc[p] = "record"
    BY DEF Record, RecordTo, At, Holds, Held, Deploying
  <1>2. d \in Domains /\ ProcInv(p) /\ BareInv(d)
    BY <1>1, HolderFacts
  <1>3. n \in 1..MaxRows /\ c \in Commits \cup {NoTree}
    BY <1>1, <1>2, RowFields, TreeType, DeployBoundsAssumption DEF ProcInv, OpInv
  <1>4. r \in Row /\ r # NoRow
    BY <1>3 DEF Row, NoRow
  <1>5. /\ lock' = lock /\ UNCHANGED git /\ UNCHANGED web /\ crashes' = crashes
        /\ (Works \/ Fault)
    BY DEF Record, RecordTo
  <1>6. CASE Fault /\ Keep /\ Goto(p, "end") /\ stray' = stray \cup {d} /\ UNCHANGED row
    <2>1. /\ pc' \in [Procs -> Labels] /\ pc'[p] = "end"
          /\ \A q \in Procs \ {p} : pc'[q] = pc[q]
      BY <1>6, GotoType DEF Labels
    <2>2. job' = job /\ Dom(p)' = d
      BY <1>6 DEF Keep, Dom
    <2>3. TypeOK'
      BY <1>2, <1>5, <1>6, <2>1, <2>2, FaultType DEF IInv, TypeOK, git, web
    <2>4. Frame(p, d)
      BY <1>5, <1>6, <2>1, <2>2 DEF Frame, git
    <2>5. ProcInv(p)'
      BY <1>1, <1>2, <1>5, <1>6, <2>1, <2>2 DEF ProcInv, OpInv, TreeInv, DeployInv, RollInv,
         Settled, Tells, Held, Deploying, Fetching, Rolling, NoRow, git
    <2>6. BareInv(Dom(p))'
      BY <1>2, <1>5, <2>2 DEF BareInv, NoTree, git
    <2>7. QED
      BY <1>1, <1>5, <2>2, <2>3, <2>4, <2>5, <2>6, <2>1, StepKeeps
         DEF Held, Deploying, Fetching, Rolling
  <1>7. CASE /\ Works /\ Goto(p, "bounce")
             /\ row' = [row EXCEPT ![d] = r]
             /\ job' = [job EXCEPT ![p].id = n, ![p].commit = c]
             /\ stray' = stray \ {d}
    <2>1. /\ pc' \in [Procs -> Labels] /\ pc'[p] = "bounce"
          /\ \A q \in Procs \ {p} : pc'[q] = pc[q]
      BY <1>7, GotoType DEF Labels
    <2>2. /\ job' \in [Procs -> Job] /\ \A q \in Procs \ {p} : job'[q] = job[q]
          /\ Dom(p)' = d /\ job'[p].op = job[p].op /\ job'[p].id = n /\ job'[p].commit = c
      <3> DEFINE j == [job[p] EXCEPT !.id = n, !.commit = c]
      <3>1. job[p] \in Job /\ n \in 0..MaxRows
        BY <1>3, JobType
      <3>2. /\ j \in Job /\ j.dom = job[p].dom /\ j.op = job[p].op
            /\ j.id = n /\ j.commit = c
        BY <1>3, <3>1 DEF Job
      <3>3. job' = [job EXCEPT ![p] = j]
        BY <1>7, JobType
      <3> QED
        BY <3>2, <3>3, JobType DEF Dom
    <2>3. /\ row' \in [Domains -> Row \cup {NoRow}] /\ row'[d] = r
          /\ \A e \in Domains \ {d} : row'[e] = row[e]
      BY <1>2, <1>4, <1>7, RowType
    <2>4. TypeOK'
      BY <1>5, <1>7, <2>1, <2>2, <2>3, FaultType DEF IInv, TypeOK, git, web
    <2>5. Frame(p, d)
      BY <1>5, <1>7, <2>1, <2>2, <2>3 DEF Frame, git
    <2>6. tree' = tree /\ bound' = bound
      BY <1>5 DEF git
    <2>7. OpInv(p)'
      BY <1>1, <1>2, <2>1, <2>2 DEF ProcInv, OpInv, Deploying, Fetching, Rolling
    <2>8. TreeInv(p)'
      BY <2>1 DEF TreeInv
    <2>9. DeployInv(p)'
      BY <1>3, <1>4, <1>7, <2>1, <2>2, <2>3, <2>6 DEF DeployInv, Own, NoRow
    <2>10. job'[p].op # "rollback"
      BY <1>1, <1>2, <2>2 DEF ProcInv, OpInv, Deploying
    <2>11. RollInv(p)'
      BY <2>1, <2>10 DEF RollInv
    <2>12. BareInv(Dom(p))'
      BY <1>2, <2>2, <2>6 DEF BareInv, NoTree
    <2>13. QED
      BY <1>1, <1>5, <2>2, <2>4, <2>5, <2>7, <2>8, <2>9, <2>11, <2>12, <2>1, StepKeeps
         DEF ProcInv, Held, Deploying, Fetching, Rolling
  <1>8. QED
    BY <1>6, <1>7 DEF Record, RecordTo

LEMMA BounceKeeps ==
  ASSUME IInv, NEW p \in Procs, Bounce(p)
  PROVE  IInv'
  <1>1. Holds(p) /\ pc[p] = "bounce"
    BY DEF Bounce, At, Holds, Held
  <1>2. Dom(p) \in Domains /\ ProcInv(p) /\ BareInv(Dom(p))
    BY <1>1, HolderFacts
  <1>3. PICK l \in {"mark", "hooks"} : Goto(p, l) /\ (l = "mark" <=> job[p].op = "rollback")
    BY DEF Bounce
  <1>4. /\ pc' \in [Procs -> Labels] /\ pc'[p] = l
        /\ \A q \in Procs \ {p} : pc'[q] = pc[q]
    BY <1>3, GotoType DEF Labels
  <1>5. \/ job' = job /\ bound' = [bound EXCEPT ![Dom(p)] = TRUE]
        \/ job' = [job EXCEPT ![p].hurt = TRUE] /\ bound' = bound
    BY DEF Bounce, Keep
  <1>6. /\ job' \in [Procs -> Job] /\ \A q \in Procs \ {p} : job'[q] = job[q]
        /\ Dom(p)' = Dom(p) /\ job'[p].op = job[p].op /\ job'[p].id = job[p].id
        /\ job'[p].commit = job[p].commit
    <2>1. CASE job' = job
      BY <2>1, JobType DEF Dom
    <2>2. CASE job' = [job EXCEPT ![p].hurt = TRUE]
      BY <2>2, JobType DEF Job, Dom
    <2>3. QED
      BY <1>5, <2>1, <2>2
  <1>7. /\ bound' \in [Domains -> BOOLEAN]
        /\ \A d \in Domains \ {Dom(p)} : bound'[d] = bound[d]
    BY <1>5, FetchTypes
  <1>8. ~job'[p].hurt => bound'[Dom(p)]
    BY <1>2, <1>5, JobType, FetchTypes DEF Job
  <1>9. /\ lock' = lock /\ head' = head /\ tree' = tree /\ wide' = wide /\ row' = row
        /\ UNCHANGED web /\ stray' = stray /\ crashes' = crashes /\ (Works \/ Fault)
    BY DEF Bounce
  <1>10. TypeOK'
    BY <1>4, <1>6, <1>7, <1>9, FaultType DEF IInv, TypeOK, web
  <1>11. Frame(p, Dom(p))
    BY <1>4, <1>6, <1>7, <1>9 DEF Frame
  <1>12. OpInv(p)'
    BY <1>1, <1>2, <1>3, <1>4, <1>6 DEF ProcInv, OpInv, Deploying, Fetching, Rolling
  <1>13. TreeInv(p)'
    BY <1>1, <1>2, <1>3, <1>4, <1>6, <1>9 DEF ProcInv, TreeInv, RollInv, Settled, Held,
       Deploying, Fetching, Rolling, NoRow
  <1>14. DeployInv(p)'
    BY <1>1, <1>2, <1>3, <1>4, <1>6, <1>8, <1>9 DEF ProcInv, OpInv, DeployInv, Own, NoRow
  <1>15. RollInv(p)'
    BY <1>1, <1>2, <1>3, <1>4, <1>6, <1>9 DEF ProcInv, RollInv, Own, Settled, OlderTree,
       NoRow, NoTree
  <1>16. BareInv(Dom(p))'
    BY <1>2, <1>6, <1>9 DEF BareInv, NoTree
  <1>17. QED
    BY <1>1, <1>6, <1>9, <1>10, <1>11, <1>12, <1>13, <1>14, <1>15, <1>16, <1>4, StepKeeps
       DEF ProcInv, Held, Deploying, Fetching, Rolling

LEMMA HooksKeeps ==
  ASSUME IInv, NEW p \in Procs, Hooks(p)
  PROVE  IInv'
  <1>1. Holds(p) /\ pc[p] = "hooks"
    BY DEF Hooks, At, Holds, Held, Deploying
  <1>2. Dom(p) \in Domains /\ ProcInv(p) /\ BareInv(Dom(p))
    BY <1>1, HolderFacts
  <1>3. /\ pc' \in [Procs -> Labels] /\ pc'[p] = "end"
        /\ \A q \in Procs \ {p} : pc'[q] = pc[q]
    BY GotoType DEF Hooks, Labels
  <1>4. /\ job' = job /\ Dom(p)' = Dom(p) /\ lock' = lock /\ UNCHANGED git /\ UNCHANGED web
        /\ stray' = stray /\ faults' = faults /\ crashes' = crashes
    BY DEF Hooks, Keep, Dom
  <1>5. Own(p) /\ row[Dom(p)].commit = tree[Dom(p)]
    BY <1>1, <1>2 DEF ProcInv, DeployInv
  <1>6. PICK s \in {"failed", "success"} : SetStatus(p, s)
    BY DEF Hooks
  <1>7. /\ row' \in [Domains -> Row \cup {NoRow}]
        /\ \A d \in Domains \ {Dom(p)} : row'[d] = row[d]
        /\ row'[Dom(p)] # NoRow /\ row'[Dom(p)].commit = row[Dom(p)].commit
        /\ row'[Dom(p)].status = s
    BY <1>5, <1>6, SetStatusRow
  <1>8. TypeOK'
    BY <1>3, <1>4, <1>7 DEF IInv, TypeOK, git, web
  <1>9. Frame(p, Dom(p))
    BY <1>3, <1>4, <1>7 DEF Frame, git
  <1>10. ProcInv(p)'
    BY <1>3, <1>4, <1>5, <1>6, <1>7 DEF ProcInv, OpInv, TreeInv, DeployInv, RollInv,
       Settled, Tells, Deploying, Fetching, Rolling, git
  <1>11. BareInv(Dom(p))'
    BY <1>2, <1>4 DEF BareInv, NoTree, git
  <1>12. QED
    BY <1>1, <1>4, <1>8, <1>9, <1>10, <1>11, <1>3, StepKeeps
       DEF Held, Deploying, Fetching, Rolling

---------------------------------------------------------------------------------
(* One lemma per step of a rollback, and the release of the lock. *)

(* A commit that has a parent: the parent is a commit of its branch, and older. *)
LEMMA ParentCommit ==
  ASSUME NEW c \in Commits \cup {NoTree}, HasParent(c)
  PROVE  /\ [c EXCEPT ![2] = @ - 1] \in Commits
         /\ [c EXCEPT ![2] = @ - 1][1] = c[1] /\ [c EXCEPT ![2] = @ - 1][2] < c[2]
  <1>1. c \in Commits
    BY DEF HasParent, NoTree
  <1>2. PICK b \in Branches, n \in 1..MaxCommits : c = <<b, n>>
    BY <1>1 DEF Commits
  <1>3. [c EXCEPT ![2] = @ - 1] = <<b, n - 1>> /\ n > 1
    BY <1>2 DEF HasParent
  <1>4. n - 1 \in 1..MaxCommits
    BY <1>3, DeployBoundsAssumption
  <1>5. QED
    BY <1>2, <1>3, <1>4 DEF Commits

LEMMA BackKeeps ==
  ASSUME IInv, NEW p \in Procs, Back(p)
  PROVE  IInv'
  <1> DEFINE d == Dom(p)
             c == [tree[d] EXCEPT ![2] = @ - 1]
  <1>1. Holds(p) /\ pc[p] = "back"
    BY DEF Back, At, Holds, Held, Rolling
  <1>2. d \in Domains /\ ProcInv(p) /\ BareInv(d)
    BY <1>1, HolderFacts
  <1>3. PICK l \in {"bounce", "end"} :
          Goto(p, l) /\ \/ l = "bounce" /\ HasParent(tree[d]) /\ tree' = [tree EXCEPT ![d][2] = @ - 1]
                        \/ l = "end" /\ tree' = tree
    BY DEF Back
  <1>4. /\ pc' \in [Procs -> Labels] /\ pc'[p] = l
        /\ \A q \in Procs \ {p} : pc'[q] = pc[q]
    BY <1>3, GotoType DEF Labels
  <1>5. job' = job /\ Dom(p)' = d
    BY DEF Back, Keep, Dom
  <1>6. /\ tree' \in [Domains -> Commits \cup {NoTree}]
        /\ \A e \in Domains \ {d} : tree'[e] = tree[e]
        /\ l = "bounce" => tree'[d][1] = tree[d][1] /\ tree'[d][2] < tree[d][2] /\ tree[d] \in Commits
    <2>1. CASE l = "end"
      BY <2>1, <1>3, TreeType
    <2>2. CASE l = "bounce"
      <3>1. tree[d] \in Commits
        BY <2>2, <1>2, <1>3, TreeType DEF HasParent, NoTree
      <3>2. c \in Commits /\ c[1] = tree[d][1] /\ c[2] < tree[d][2]
        BY <2>2, <1>3, <3>1, ParentCommit
      <3>3. tree' = [tree EXCEPT ![d] = c]
        BY <2>2, <1>2, <1>3, TreeType
      <3>4. QED
        BY <1>2, <3>1, <3>2, <3>3, TreeType
    <2>3. QED
      BY <2>1, <2>2
  <1>7. /\ lock' = lock /\ head' = head /\ wide' = wide /\ bound' = bound /\ row' = row
        /\ UNCHANGED web /\ stray' = stray /\ crashes' = crashes /\ (Works \/ Fault)
    BY DEF Back
  <1>8. TypeOK'
    BY <1>4, <1>5, <1>6, <1>7, FaultType DEF IInv, TypeOK, web
  <1>9. Frame(p, d)
    BY <1>4, <1>5, <1>6, <1>7 DEF Frame
  <1>10. OpInv(p)'
    BY <1>1, <1>2, <1>4, <1>5, <1>7 DEF ProcInv, OpInv, Deploying, Fetching, Rolling
  <1>11. Settled(d) /\ Tells(d) /\ Own(p) /\ job[p].op = "rollback"
    BY <1>1, <1>2 DEF ProcInv, OpInv, TreeInv, RollInv, Held, Rolling
  <1>12. CASE l = "end"
    <2>1. TreeInv(p)'
      BY <1>3, <1>4, <1>5, <1>7, <1>11, <1>12 DEF TreeInv, Settled, Tells, OlderTree, NoRow, NoTree
    <2>2. DeployInv(p)' /\ RollInv(p)'
      BY <1>4, <1>12 DEF DeployInv, RollInv
    <2>3. BareInv(d)'
      BY <1>5, <1>2, <1>3, <1>12 DEF BareInv, NoTree
    <2>4. QED
      BY <1>1, <1>5, <1>7, <1>8, <1>9, <1>10, <2>1, <2>2, <2>3, <1>4, StepKeeps
         DEF ProcInv, Held, Deploying, Fetching, Rolling
  <1>13. CASE l = "bounce"
    <2>1. TreeInv(p)'
      BY <1>4, <1>13 DEF TreeInv
    <2>2. DeployInv(p)'
      BY <1>4, <1>5, <1>11, <1>13 DEF DeployInv
    <2>3. tree[d] # NoTree
      BY <1>3, <1>13 DEF HasParent, NoTree
    <2>4. d \notin stray' => OlderTree(d)'
      <3> SUFFICES ASSUME d \notin stray'
                   PROVE  OlderTree(d)'
        OBVIOUS
      <3>1. CASE tree[d] = row[d].commit
        BY <1>5, <3>1, <1>6, <1>7, <1>13 DEF OlderTree
      <3>2. CASE OlderTree(d)
        <4>1. tree[d][2] \in Nat /\ row[d].commit[2] \in Nat /\ tree'[d][2] \in Nat
          BY <1>2, <1>6, TreeType, RowFields, DeployBoundsAssumption DEF Commits, NoTree
        <4>2. QED
          BY <1>5, <3>2, <4>1, <1>6, <1>7, <1>13 DEF OlderTree
      <3>3. QED
        BY <3>1, <3>2, <1>7, <1>11, <2>3 DEF Tells, Own
    <2>5. RollInv(p)'
      BY <1>4, <1>5, <1>7, <1>11, <1>13, <2>4 DEF RollInv, Own, Settled, NoRow
    <2>6. BareInv(d)'
      BY <1>5, <1>2, <2>3 DEF BareInv
    <2>7. QED
      BY <1>1, <1>5, <1>7, <1>8, <1>9, <1>10, <2>1, <2>2, <2>5, <2>6, <1>4, StepKeeps
         DEF ProcInv, Held, Deploying, Fetching, Rolling
  <1>14. QED
    BY <1>12, <1>13

LEMMA MarkKeeps ==
  ASSUME IInv, NEW p \in Procs, Mark(p)
  PROVE  IInv'
  <1>1. Holds(p) /\ pc[p] = "mark"
    BY DEF Mark, At, Holds, Held, Rolling
  <1>2. Dom(p) \in Domains /\ ProcInv(p) /\ BareInv(Dom(p))
    BY <1>1, HolderFacts
  <1>3. /\ pc' \in [Procs -> Labels] /\ pc'[p] = "end"
        /\ \A q \in Procs \ {p} : pc'[q] = pc[q]
    BY GotoType DEF Mark, Labels
  <1>4. /\ job' = job /\ Dom(p)' = Dom(p) /\ lock' = lock /\ UNCHANGED git /\ UNCHANGED web
        /\ stray' = stray /\ faults' = faults /\ crashes' = crashes
        /\ SetStatus(p, "rolled_back")
    BY DEF Mark, Keep, Dom
  <1>5. /\ Own(p)
        /\ Dom(p) \notin stray /\ tree[Dom(p)] # NoTree => OlderTree(Dom(p))
    BY <1>1, <1>2 DEF ProcInv, RollInv
  <1>6. /\ row' \in [Domains -> Row \cup {NoRow}]
        /\ \A d \in Domains \ {Dom(p)} : row'[d] = row[d]
        /\ row'[Dom(p)] # NoRow /\ row'[Dom(p)].commit = row[Dom(p)].commit
        /\ row'[Dom(p)].status = "rolled_back"
    BY <1>4, <1>5, SetStatusRow
  <1>7. TypeOK'
    BY <1>3, <1>4, <1>6 DEF IInv, TypeOK, git, web
  <1>8. Frame(p, Dom(p))
    BY <1>3, <1>4, <1>6 DEF Frame, git
  <1>9. ProcInv(p)'
    BY <1>3, <1>4, <1>5, <1>6 DEF ProcInv, OpInv, TreeInv, DeployInv, RollInv, OlderTree,
       Settled, Tells, Deploying, Fetching, Rolling, NoTree, git
  <1>10. BareInv(Dom(p))'
    BY <1>2, <1>4 DEF BareInv, NoTree, git
  <1>11. QED
    BY <1>1, <1>4, <1>7, <1>8, <1>9, <1>10, <1>3, StepKeeps
       DEF Held, Deploying, Fetching, Rolling

(* The lock is released: what the operation says of its site at its end is what *)
(* holds of a site that is free.                                                *)
LEMMA EndKeeps ==
  ASSUME IInv, NEW p \in Procs, End(p)
  PROVE  IInv'
  <1> DEFINE d == Dom(p)
  <1>1. Holds(p) /\ pc[p] = "end"
    BY DEF End, At, Holds, Held
  <1>2. /\ d \in Domains /\ ProcInv(p) /\ BareInv(d)
        /\ \A q \in Procs \ {p} : Holds(q) => Dom(q) # d
    BY <1>1, HolderFacts
  <1>3. /\ pc' \in [Procs -> Labels] /\ pc'[p] = "idle"
        /\ \A q \in Procs \ {p} : pc'[q] = pc[q]
    BY GotoType DEF End, Labels
  <1>4. /\ job' \in [Procs -> Job] /\ \A q \in Procs \ {p} : job'[q] = job[q]
    BY NoJobType, JobType DEF End
  <1>5. /\ lock' \in [Domains -> {"free", "deploying", "rolling back"}]
        /\ \A e \in Domains \ {d} : lock'[e] = lock[e]
    BY <1>2, LockType DEF End
  <1>6. /\ UNCHANGED git /\ row' = row /\ UNCHANGED web /\ stray' = stray
        /\ faults' = faults /\ crashes' = crashes
    BY DEF End
  <1>7. TypeOK'
    BY <1>3, <1>4, <1>5, <1>6 DEF IInv, TypeOK, git, web
  <1>8. Frame(p, d)
    BY <1>3, <1>4, <1>5, <1>6 DEF Frame, git
  <1>9. ProcInv(p)' /\ ~Holds(p)'
    BY <1>3 DEF ProcInv, OpInv, TreeInv, DeployInv, RollInv, Holds, Held, Deploying,
       Fetching, Rolling
  <1>10. Settled(d) /\ Tells(d)
    BY <1>1, <1>2 DEF ProcInv, TreeInv, Held
  <1>11. \A e \in Domains : e = d => FreeInv(e)' /\ BareInv(e)'
    BY <1>2, <1>6, <1>10 DEF FreeInv, Settled, Tells, OlderTree, BareInv, NoRow, NoTree, git
  <1>12. SiteInv'
    <2>1. \A e \in Domains :
            Frame(p, e) /\ e = d => SiteInv'
      BY <1>2, <1>7, <1>9, <1>11, FrameKeeps
    <2>2. QED
      BY <1>2, <1>8, <2>1
  <1>13. QED
    BY <1>7, <1>12 DEF IInv

---------------------------------------------------------------------------------
(* One lemma per way to begin. *)

(* An operation begins on a site that nobody works on: it finds there what holds of *)
(* a free site, and is the site's one holder.                                       *)
LEMMA AcquireKeeps ==
  ASSUME IInv, NEW p \in Procs, NEW new \in Job, NEW label \in {"deploying", "rolling back"},
         NEW l \in Held, Acquire(p, new, label, l), ~Holds(p), ProcInv(p)'
  PROVE  IInv'
  <1> DEFINE d == new.dom
  <1>1. d \in Domains
    BY DEF Job
  <1>2. /\ pc' \in [Procs -> Labels] /\ pc'[p] = l
        /\ \A q \in Procs \ {p} : pc'[q] = pc[q]
    BY GotoType DEF Acquire, Held, Deploying, Fetching, Rolling, Labels
  <1>3. /\ job' \in [Procs -> Job] /\ Dom(p)' = d
        /\ \A q \in Procs \ {p} : job'[q] = job[q]
    BY JobType DEF Acquire, Dom
  <1>4. /\ lock[d] = "free" /\ lock'[d] # "free"
        /\ lock' \in [Domains -> {"free", "deploying", "rolling back"}]
        /\ \A e \in Domains \ {d} : lock'[e] = lock[e]
    BY <1>1, LockType DEF Acquire
  <1>5. /\ UNCHANGED git /\ row' = row /\ UNCHANGED web /\ stray' = stray
        /\ faults' = faults /\ crashes' = crashes
    BY DEF Acquire
  <1>6. TypeOK'
    BY <1>2, <1>3, <1>4, <1>5 DEF IInv, TypeOK, git, web
  <1>7. Frame(p, d)
    BY <1>2, <1>3, <1>4, <1>5 DEF Frame, git
  <1>8. \A q \in Procs \ {p} : Holds(q) => Dom(q) # d
    BY <1>4 DEF IInv, SiteInv, LockInv
  <1>9. FreeInv(d)'
    BY <1>2, <1>3 DEF FreeInv, Unheld, Holds
  <1>10. BareInv(d)'
    BY <1>1, <1>5 DEF IInv, SiteInv, BareInv, git, NoTree
  <1>11. SiteInv'
    BY <1>1, <1>3, <1>4, <1>6, <1>7, <1>8, <1>9, <1>10, FrameKeeps
  <1>12. QED
    BY <1>6, <1>11 DEF IInv

(* What an operation finds on the site it takes. *)
LEMMA AcquireFinds ==
  ASSUME IInv, NEW p \in Procs, NEW new \in Job, NEW label, NEW l \in Labels,
         Acquire(p, new, label, l)
  PROVE  /\ new.dom \in Domains /\ row[new.dom].id < MaxRows
         /\ Settled(new.dom) /\ Tells(new.dom)
         /\ job'[p] = new /\ Dom(p)' = new.dom /\ pc'[p] = l
         /\ tree' = tree /\ row' = row /\ stray' = stray /\ crashes' = crashes /\ bound' = bound
  <1>1. new.dom \in Domains
    BY DEF Job
  <1>2. row[new.dom].id < MaxRows
    BY <1>1 DEF Acquire, Within
  <1>3. Settled(new.dom) /\ Tells(new.dom)
    <2>1. Unheld(new.dom)
      BY DEF Acquire, IInv, SiteInv, LockInv, Unheld
    <2>2. QED
      BY <1>1, <2>1 DEF IInv, SiteInv, FreeInv
  <1>4. job'[p] = new /\ Dom(p)' = new.dom
    BY JobType DEF Acquire, Dom
  <1>5. pc'[p] = l
    BY PcType DEF Acquire, Goto
  <1>6. QED
    BY <1>1, <1>2, <1>3, <1>4, <1>5 DEF Acquire, git

LEMMA DeployBegins ==
  ASSUME IInv, NEW p \in Procs, NEW new \in Job, new.op = "deploy", ~Holds(p),
         Acquire(p, new, "deploying", Started(new.dom))
  PROVE  IInv'
  <1> DEFINE d == new.dom
  <1>1. Started(d) \in {"fetch", "record"} /\ (Started(d) = "fetch" => d \in Repos)
    BY DEF Started
  <1>2. /\ d \in Domains /\ row[d].id < MaxRows /\ Settled(d) /\ Tells(d)
        /\ job'[p] = new /\ Dom(p)' = d /\ pc'[p] = Started(d)
        /\ tree' = tree /\ row' = row /\ stray' = stray /\ crashes' = crashes
    BY <1>1, AcquireFinds DEF Labels
  <1>3. ProcInv(p)'
    BY <1>1, <1>2 DEF ProcInv, OpInv, TreeInv, DeployInv, RollInv, Settled, Tells, OlderTree,
       Held, Deploying, Fetching, Rolling, NoRow, NoTree
  <1>4. QED
    BY <1>1, <1>3, AcquireKeeps DEF Held, Deploying, Fetching

LEMMA BeginDeployKeeps ==
  ASSUME IInv, NEW p \in Procs, BeginDeploy(p)
  PROVE  IInv'
  <1>1. PICK d \in Domains, b \in Branches :
          Acquire(p, [NoJob EXCEPT !.op = "deploy", !.dom = d, !.branch = b], "deploying", Started(d))
    BY DEF BeginDeploy
  <1> DEFINE new == [NoJob EXCEPT !.op = "deploy", !.dom = d, !.branch = b]
  <1>2. new \in Job /\ new.op = "deploy" /\ new.dom = d
    BY NoJobType DEF Job
  <1>3. ~Holds(p)
    BY DEF BeginDeploy, At, Holds, Held, Deploying, Fetching, Rolling
  <1>4. QED
    BY <1>1, <1>2, <1>3, DeployBegins

LEMMA PushDeployKeeps ==
  ASSUME IInv, NEW p \in Procs, PushDeploy(p), lock[Dom(p)] = "free"
  PROVE  IInv'
  <1> DEFINE new == [NoJob EXCEPT !.op = "deploy", !.dom = Dom(p)]
  <1>1. Acquire(p, new, "deploying", Started(Dom(p)))
    BY DEF PushDeploy
  <1>2. new \in Job /\ new.op = "deploy" /\ new.dom = Dom(p)
    BY NoJobType, ProcTypes DEF Job
  <1>3. ~Holds(p)
    BY DEF PushDeploy, At, Holds, Held, Deploying, Fetching, Rolling
  <1>4. QED
    BY <1>1, <1>2, <1>3, DeployBegins

LEMMA BeginRollbackKeeps ==
  ASSUME IInv, NEW p \in Procs, BeginRollback(p)
  PROVE  IInv'
  <1>1. PICK d \in Domains :
          Acquire(p, [NoJob EXCEPT !.op = "rollback", !.dom = d, !.id = row[d].id, !.commit = row[d].commit],
                  "rolling back", IF row[d] = NoRow THEN "end" ELSE IF row[d].commit = NoTree THEN "bounce" ELSE "back")
    BY DEF BeginRollback
  <1> DEFINE new == [NoJob EXCEPT !.op = "rollback", !.dom = d, !.id = row[d].id, !.commit = row[d].commit]
             l == IF row[d] = NoRow THEN "end" ELSE IF row[d].commit = NoTree THEN "bounce" ELSE "back"
  <1>2. new \in Job /\ new.op = "rollback" /\ new.dom = d /\ new.id = row[d].id
    BY NoJobType, RowFields DEF Job
  <1>3. l \in {"end", "bounce", "back"}
    OBVIOUS
  <1>4. /\ Settled(d) /\ Tells(d)
        /\ job'[p] = new /\ Dom(p)' = d /\ pc'[p] = l
        /\ tree' = tree /\ row' = row /\ stray' = stray /\ crashes' = crashes
    <2>1. Acquire(p, new, "rolling back", l) /\ l \in Labels
      BY <1>1, <1>3 DEF Labels
    <2> HIDE DEF new, l
    <2>2. QED
      BY <2>1, <1>2, AcquireFinds
  <1>5. OpInv(p)' /\ DeployInv(p)'
    BY <1>2, <1>3, <1>4 DEF OpInv, DeployInv, Deploying, Fetching, Rolling
  <1>6. TreeInv(p)'
    BY <1>3, <1>4 DEF TreeInv, Settled, Tells, OlderTree, Held, NoRow, NoTree
  <1>7. l # "end" => Own(p)'
    BY <1>2, <1>4, RowFields DEF Own, NoRow
  <1>8. l = "bounce" /\ d \notin stray => tree[d] = NoTree
    <2> SUFFICES ASSUME l = "bounce", d \notin stray, tree[d] # NoTree
                 PROVE  FALSE
      OBVIOUS
    <2>1. row[d] # NoRow /\ row[d].commit = NoTree
      OBVIOUS
    <2>2. tree[d] \in Commits
      BY TreeType
    <2>3. OlderTree(d)
      BY <2>1, <1>4 DEF Tells
    <2>4. tree[d][2] \in 1..MaxCommits /\ row[d].commit[2] = 0
      BY <2>1, <2>2, DeployBoundsAssumption DEF Commits, NoTree
    <2>5. QED
      BY <2>3, <2>4, DeployBoundsAssumption DEF OlderTree
  <1>9. RollInv(p)'
    BY <1>3, <1>4, <1>7, <1>8 DEF RollInv, Settled, NoTree, NoRow
  <1>10. ProcInv(p)'
    BY <1>5, <1>6, <1>9 DEF ProcInv
  <1>11. ~Holds(p)
    BY DEF BeginRollback, At, Holds, Held, Deploying, Fetching, Rolling
  <1>12. QED
    BY <1>1, <1>2, <1>3, <1>10, <1>11, AcquireKeeps DEF Held, Rolling

---------------------------------------------------------------------------------
(* Steps outside operations, and the crash. *)

(* A step that no holder of a lock takes and that touches no site. *)
LEMMA OutsideKeeps ==
  ASSUME IInv, TypeOK', UNCHANGED <<lock, tree, bound, row, stray, crashes>>,
         \A q \in Procs : (Holds(q)' <=> Holds(q)) /\ (Holds(q) => pc'[q] = pc[q] /\ job'[q] = job[q])
  PROVE  IInv'
  <1>1. LockInv'
    BY DEF IInv, SiteInv, LockInv, Dom
  <1>2. ASSUME NEW q \in Procs
        PROVE  ProcInv(q)'
    <2>1. CASE ~Holds(q)'
      BY <2>1 DEF Holds, Held, Deploying, Rolling, Fetching, ProcInv, OpInv, TreeInv,
         DeployInv, RollInv
    <2>2. CASE Holds(q)'
      <3>1. ProcInv(q) /\ pc'[q] = pc[q] /\ job'[q] = job[q] /\ Dom(q)' = Dom(q)
        BY <2>2 DEF IInv, SiteInv, Dom
      <3>2. /\ Settled(Dom(q)) <=> Settled(Dom(q))'
            /\ Tells(Dom(q)) <=> Tells(Dom(q))'
            /\ OlderTree(Dom(q)) <=> OlderTree(Dom(q))'
            /\ Own(q) <=> Own(q)'
        BY <3>1 DEF Settled, Tells, OlderTree, Own, NoRow, NoTree
      <3>3. OpInv(q)' /\ TreeInv(q)'
        BY <3>1, <3>2 DEF ProcInv, OpInv, TreeInv, NoTree
      <3>4. DeployInv(q)' /\ RollInv(q)'
        BY <3>1, <3>2 DEF ProcInv, DeployInv, RollInv, NoTree
      <3>5. QED
        BY <3>3, <3>4 DEF ProcInv
    <2>3. QED
      BY <2>1, <2>2
  <1>3. ASSUME NEW d \in Domains
        PROVE  FreeInv(d)' /\ BareInv(d)'
    <2>1. Unheld(d)' => Unheld(d)
      BY DEF Unheld, Dom
    <2>2. (Settled(d) <=> Settled(d)') /\ (Tells(d) <=> Tells(d)')
      BY DEF Settled, Tells, OlderTree, NoRow, NoTree
    <2>3. FreeInv(d) /\ BareInv(d)
      BY DEF IInv, SiteInv
    <2>4. QED
      BY <2>1, <2>2, <2>3 DEF FreeInv, BareInv, NoTree
  <1>4. QED
    BY <1>1, <1>2, <1>3 DEF IInv, SiteInv

LEMMA BeginPushKeeps ==
  ASSUME IInv, NEW p \in Procs, BeginPush(p)
  PROVE  IInv'
  <1>1. PICK d \in Domains : job' = [job EXCEPT ![p] = [NoJob EXCEPT !.op = "push", !.dom = d]]
    BY DEF BeginPush
  <1>2. [NoJob EXCEPT !.op = "push", !.dom = d] \in Job
    BY NoJobType DEF Job
  <1>3. job' \in [Procs -> Job] /\ \A q \in Procs \ {p} : job'[q] = job[q]
    BY <1>1, <1>2, JobType
  <1>4. /\ pc' \in [Procs -> Labels] /\ pc'[p] = "push"
        /\ \A q \in Procs \ {p} : pc'[q] = pc[q]
    BY GotoType DEF BeginPush, Labels
  <1>5. /\ lock' = lock /\ UNCHANGED git /\ row' = row /\ UNCHANGED web /\ stray' = stray
        /\ faults' = faults /\ crashes' = crashes
    BY DEF BeginPush
  <1>6. TypeOK'
    BY <1>3, <1>4, <1>5 DEF IInv, TypeOK, git, web
  <1>7. \A q \in Procs : (Holds(q)' <=> Holds(q)) /\ (Holds(q) => pc'[q] = pc[q] /\ job'[q] = job[q])
    BY <1>3, <1>4 DEF BeginPush, At, Holds, Held, Deploying, Rolling, Fetching
  <1>8. QED
    BY <1>5, <1>6, <1>7, OutsideKeeps DEF git

(* The maps of the cooldown: a deploy that begins, and entries that are evicted. *)
CooldownMap(f) == DOMAIN f \subseteq Domains /\ Range(f) \subseteq 0..Old

LEMMA CooldownMaps ==
  ASSUME NEW f, CooldownMap(f), NEW d \in Domains, NEW S, S \subseteq DOMAIN f
  PROVE  CooldownMap(Restrict(f, S)) /\ CooldownMap(Began(f, d)) /\ CooldownMap(Older(f))
  <1>1. \A e \in DOMAIN f : e \in Domains /\ f[e] \in 0..Old
    BY DEF CooldownMap, Range
  <1>2. 0 \in 0..Old /\ Old \in 0..Old /\ \A n \in 0..Old : n < Old => n + 1 \in 0..Old
    BY DeployBoundsAssumption DEF Old
  <1>3. CooldownMap(Restrict(f, S))
    BY <1>1 DEF CooldownMap, Restrict, Range
  <1>4. CooldownMap(Began(f, d))
    BY <1>1, <1>2 DEF CooldownMap, Began, Range
  <1>5. CooldownMap(Older(f))
    BY <1>1, <1>2 DEF CooldownMap, Older, Range
  <1>6. QED
    BY <1>3, <1>4, <1>5
LEMMA WebType == IInv => CooldownMap(last) /\ CooldownMap(let)
  BY DEF IInv, TypeOK, CooldownMap
LEMMA NoCooldown == CooldownMap(<<>>)
  BY DEF CooldownMap, Range

LEMMA LetThroughKeeps ==
  ASSUME IInv, NEW p \in Procs, LetThrough(p)
  PROVE  IInv'
  <1>1. Dom(p) \in Domains /\ Kept \subseteq DOMAIN last
    BY ProcTypes DEF Kept
  <1>2. /\ lock' = lock /\ UNCHANGED git /\ row' = row /\ stray' = stray
        /\ faults' = faults /\ crashes' = crashes
    BY DEF LetThrough
  <1>3. CooldownMap(last') /\ CooldownMap(let')
    <2>1. CASE last' = last /\ let' = let
      BY <2>1, WebType
    <2>2. CASE let' = Began(let, Dom(p)) /\ last' = Began(Restrict(last, Kept), Dom(p))
      <3>1. CooldownMap(Restrict(last, Kept))
        BY <1>1, WebType, CooldownMaps
      <3>2. CooldownMap(Began(Restrict(last, Kept), Dom(p))) /\ CooldownMap(Began(let, Dom(p)))
        BY <1>1, <3>1, WebType, CooldownMaps
      <3>3. QED
        BY <2>2, <3>2
    <2>3. QED
      BY <2>1, <2>2 DEF LetThrough
  <1>4. /\ pc' \in [Procs -> Labels] /\ pc'[p] \in {"idle", "acquire"}
        /\ \A q \in Procs \ {p} : pc'[q] = pc[q]
    BY GotoType DEF LetThrough, Labels
  <1>5. job' \in [Procs -> Job] /\ \A q \in Procs \ {p} : job'[q] = job[q]
    BY JobType, NoJobType DEF LetThrough, Keep
  <1>6. TypeOK'
    BY <1>2, <1>3, <1>4, <1>5 DEF IInv, TypeOK, git, CooldownMap
  <1>7. \A q \in Procs : (Holds(q)' <=> Holds(q)) /\ (Holds(q) => pc'[q] = pc[q] /\ job'[q] = job[q])
    BY <1>4, <1>5 DEF LetThrough, At, Holds, Held, Deploying, Rolling, Fetching
  <1>8. QED
    BY <1>2, <1>6, <1>7, OutsideKeeps DEF git

LEMMA PushBusyKeeps ==
  ASSUME IInv, NEW p \in Procs, PushDeploy(p), lock[Dom(p)] # "free"
  PROVE  IInv'
  <1>1. /\ Goto(p, "idle") /\ job' = [job EXCEPT ![p] = NoJob]
        /\ UNCHANGED <<lock, git, row, web, stray, faults, crashes>>
    BY DEF PushDeploy, Acquire
  <1>2. /\ pc' \in [Procs -> Labels] /\ pc'[p] = "idle"
        /\ \A q \in Procs \ {p} : pc'[q] = pc[q]
    BY <1>1, GotoType DEF Labels
  <1>3. job' \in [Procs -> Job] /\ \A q \in Procs \ {p} : job'[q] = job[q]
    BY <1>1, JobType, NoJobType
  <1>4. TypeOK'
    BY <1>1, <1>2, <1>3 DEF IInv, TypeOK, git, web
  <1>5. \A q \in Procs : (Holds(q)' <=> Holds(q)) /\ (Holds(q) => pc'[q] = pc[q] /\ job'[q] = job[q])
    BY <1>2, <1>3 DEF PushDeploy, At, Holds, Held, Deploying, Rolling, Fetching
  <1>6. QED
    BY <1>1, <1>4, <1>5, OutsideKeeps DEF git

LEMMA CommitKeeps ==
  ASSUME IInv, NEW b \in Branches, Commit(b)
  PROVE  IInv'
  <1>1. head[b] \in 0..MaxCommits /\ head[b] < MaxCommits
    BY HeadType DEF Commit, Within
  <1>2. head[b] + 1 \in 0..MaxCommits
    BY <1>1, DeployBoundsAssumption
  <1>3. head' \in [Branches -> 0..MaxCommits]
    BY <1>2, HeadType DEF Commit
  <1>4. UNCHANGED <<lock, tree, wide, bound, row, web, pc, job, stray, faults, crashes>>
    BY DEF Commit
  <1>5. TypeOK'
    BY <1>3, <1>4 DEF IInv, TypeOK, web
  <1>6. \A q \in Procs : (Holds(q)' <=> Holds(q)) /\ (Holds(q) => pc'[q] = pc[q] /\ job'[q] = job[q])
    BY <1>4 DEF Holds
  <1>7. QED
    BY <1>4, <1>5, <1>6, OutsideKeeps

LEMMA TickKeeps ==
  ASSUME IInv, Tick
  PROVE  IInv'
  <1> DEFINE S == {d \in DOMAIN let : let[d] + 1 < Cooldown}
  <1>1. last' = Older(last) /\ let' = Older(Restrict(let, S)) /\ S \subseteq DOMAIN let
    BY DEF Tick
  <1>2. CooldownMap(last') /\ CooldownMap(let')
    <2>1. CooldownMap(Restrict(let, S))
      BY <1>1, ReposAssumption, WebType, CooldownMaps
    <2>2. QED
      BY <1>1, <2>1, ReposAssumption, WebType, CooldownMaps
  <1>3. UNCHANGED <<lock, git, row, pc, job, stray, faults, crashes>>
    BY DEF Tick
  <1>4. TypeOK'
    BY <1>2, <1>3 DEF IInv, TypeOK, git, CooldownMap
  <1>5. \A q \in Procs : (Holds(q)' <=> Holds(q)) /\ (Holds(q) => pc'[q] = pc[q] /\ job'[q] = job[q])
    BY <1>3 DEF Holds
  <1>6. QED
    BY <1>3, <1>4, <1>5, OutsideKeeps DEF git

(* The daemon dies: an operation that had moved a tree and not yet recorded it leaves *)
(* the site marked, every other leaves a tree its row tells, and a row that is still  *)
(* pending has a crash to explain it.                                                 *)
LEMMA CrashKeeps ==
  ASSUME IInv, Crash
  PROVE  IInv'
  <1>1. /\ lock' = [d \in Domains |-> "free"] /\ pc' = [p \in Procs |-> "idle"]
        /\ job' = [p \in Procs |-> NoJob] /\ last' = <<>> /\ let' = <<>>
        /\ stray' = stray \cup {Dom(p) : p \in {q \in Procs : Unrecorded(q)}}
        /\ tree' = tree /\ row' = row /\ UNCHANGED <<git, faults>>
    BY DEF Crash, git
  <1>2. crashes' \in 0..MaxCrashes /\ crashes' > 0
    <2>1. crashes \in 0..MaxCrashes
      BY DEF IInv, TypeOK
    <2>2. QED
      BY <2>1, DeployBoundsAssumption DEF Crash
  <1>3. stray' \subseteq Domains
    <2>1. stray \subseteq Domains
      BY DEF IInv, TypeOK
    <2>2. QED
      BY <1>1, <2>1, ProcTypes
  <1>4. TypeOK'
    BY <1>1, <1>2, <1>3, NoJobType, NoCooldown DEF IInv, TypeOK, git, CooldownMap, Labels
  <1>5. \A p \in Procs : pc'[p] = "idle"
    BY <1>1
  <1>6. LockInv' /\ \A p \in Procs : ProcInv(p)'
    BY <1>5 DEF LockInv, Holds, Held, Deploying, Fetching, Rolling, ProcInv, OpInv, TreeInv,
       DeployInv, RollInv
  <1>7. ASSUME NEW d \in Domains
        PROVE  FreeInv(d)' /\ BareInv(d)'
    <2>1. Settled(d)'
      BY <1>2 DEF Settled
    <2>2. BareInv(d)
      BY DEF IInv, SiteInv
    <2>3. Tells(d)'
      <3>1. CASE Unheld(d)
        <4>1. Tells(d)
          BY <3>1 DEF IInv, SiteInv, FreeInv
        <4>2. QED
          BY <4>1, <1>1 DEF Tells, OlderTree, NoRow, NoTree
      <3>2. CASE d \in stray' \/ tree[d] = NoTree
        BY <3>2, <1>1 DEF Tells, NoTree
      <3>3. CASE ~Unheld(d) /\ d \notin stray' /\ tree[d] # NoTree
        <4>1. PICK p \in Procs : Holds(p) /\ Dom(p) = d
          BY <3>3 DEF Unheld
        <4>2. d \in Repos
          BY <2>2, <3>3 DEF BareInv
        <4>3. ~Unrecorded(p)
          BY <1>1, <3>3, <4>1
        <4>4. ProcInv(p)
          BY DEF IInv, SiteInv
        <4>5. Tells(d)
          BY <4>1, <4>2, <4>3, <4>4, <3>3 DEF Unrecorded, ProcInv, OpInv, TreeInv, DeployInv,
             Holds, Held, Deploying, Fetching, Rolling, Tells
        <4>6. QED
          BY <4>5, <1>1 DEF Tells, OlderTree, NoRow, NoTree
      <3>4. QED
        BY <3>1, <3>2, <3>3
    <2>4. BareInv(d)'
      BY <2>2, <1>1 DEF BareInv, NoTree
    <2>5. QED
      BY <2>1, <2>3, <2>4 DEF FreeInv
  <1>8. QED
    BY <1>4, <1>6, <1>7 DEF IInv, SiteInv

---------------------------------------------------------------------------------
(* The theorems. *)

LEMMA InitInv == Init => IInv
  <1> SUFFICES ASSUME Init
               PROVE  IInv
    OBVIOUS
  <1>1. NoTree \in Commits \cup {NoTree} /\ <<Main, 1>> \in Commits /\ NoRow \in Row \cup {NoRow}
    BY MainAssumption, DeployBoundsAssumption DEF Commits
  <1>2. TypeOK
    <2>1. head \in [Branches -> 0..MaxCommits]
      BY DeployBoundsAssumption DEF Init
    <2>2. CooldownMap(last) /\ CooldownMap(let)
      BY NoCooldown DEF Init
    <2>3. tree \in [Domains -> Commits \cup {NoTree}]
      BY <1>1 DEF Init
    <2>4. pc \in [Procs -> Labels] /\ job \in [Procs -> Job]
      BY NoJobType DEF Init, Labels
    <2> QED
      BY <1>1, <2>1, <2>2, <2>3, <2>4, DeployBoundsAssumption DEF Init, TypeOK, CooldownMap
  <1>3. \A p \in Procs : pc[p] = "idle"
    BY DEF Init
  <1>4. LockInv /\ \A p \in Procs : ProcInv(p)
    BY <1>3 DEF LockInv, Holds, Held, Deploying, Fetching, Rolling, ProcInv, OpInv, TreeInv,
       DeployInv, RollInv
  <1>5. \A d \in Domains : FreeInv(d) /\ BareInv(d)
    BY DEF Init, FreeInv, BareInv, Settled, Tells, NoRow
  <1>6. QED
    BY <1>2, <1>4, <1>5 DEF IInv, SiteInv

LEMMA NextInv == IInv /\ [Next]_vars => IInv'
  <1> SUFFICES ASSUME IInv, [Next]_vars
               PROVE  IInv'
    OBVIOUS
  <1>1. ASSUME NEW p \in Procs, DeployStep(p)
        PROVE  IInv'
    BY <1>1, FetchKeeps, ResetKeeps, WipeKeeps, CloneTreeKeeps, RecordKeeps, BounceKeeps,
       HooksKeeps DEF DeployStep
  <1>2. ASSUME NEW p \in Procs, Step(p)
        PROVE  IInv'
    BY <1>1, <1>2, BackKeeps, MarkKeeps, LetThroughKeeps, PushDeployKeeps, PushBusyKeeps,
       EndKeeps DEF Step
  <1>3. ASSUME NEW p \in Procs, Request(p)
        PROVE  IInv'
    BY <1>3, BeginDeployKeeps, BeginRollbackKeeps, BeginPushKeeps DEF Request
  <1>4. ASSUME UNCHANGED vars
        PROVE  IInv'
    <2>1. TypeOK'
      BY <1>4 DEF IInv, TypeOK, vars, git, web
    <2>2. QED
      BY <1>4, <2>1, OutsideKeeps DEF vars, git, Holds
  <1>5. QED
    BY <1>2, <1>3, <1>4, CommitKeeps, TickKeeps, CrashKeeps DEF Next

(* Type correctness: every deploy, rollback and push leaves the lock table, the trees, *)
(* the rows and its own locals what they are declared to be, for any instance.         *)
THEOREM TypeCorrect == Spec => []TypeOK
  <1>1. IInv => TypeOK
    BY DEF IInv
  <1>2. QED
    BY <1>1, InitInv, NextInv, PTL DEF Spec

(* The hooks of a deploy run in containers that see the tree it checked out: nobody *)
(* else moves the tree while the lock is held, and the restart that precedes the    *)
(* hooks bound the containers to it, unless that restart failed.                    *)
THEOREM HooksRight == Spec => []HooksSeeTheirCommit
  <1>1. IInv => HooksSeeTheirCommit
    BY DEF IInv, SiteInv, ProcInv, DeployInv, HooksSeeTheirCommit, At
  <1>2. QED
    BY <1>1, InitInv, NextInv, PTL DEF Spec

(* On a site nobody works on, the latest deployment tells what is checked out. *)
THEOREM RowsRight == Spec => []RowsTellTheTree
  <1>1. ASSUME IInv, NEW d \in Domains, lock[d] = "free", row[d] # NoRow
        PROVE  /\ row[d].status = "pending" => crashes > 0
               /\ d \notin stray /\ tree[d] # NoTree =>
                    IF row[d].status = "rolled_back"
                    THEN tree[d][1] = row[d].commit[1] /\ tree[d][2] < row[d].commit[2]
                    ELSE tree[d] = row[d].commit
    <2>1. Unheld(d)
      BY <1>1 DEF IInv, SiteInv, LockInv, Unheld
    <2>2. Settled(d) /\ Tells(d)
      BY <1>1, <2>1 DEF IInv, SiteInv, FreeInv
    <2>3. QED
      BY <1>1, <2>2 DEF Settled, Tells, OlderTree
  <1>2. IInv => RowsTellTheTree
    BY <1>1 DEF RowsTellTheTree
  <1>3. QED
    BY <1>2, InitInv, NextInv, PTL DEF Spec

---------------------------------------------------------------------------------
(* The cooldown. *)

LEMMA InitLet == Init => LetInv
  BY DEF Init, LetInv

(* Eviction keeps every entry still within the cooldown, and both maps age alike. *)
LEMMA NextLet == IInv /\ LetInv /\ [Next]_vars => LetInv'
  <1> SUFFICES ASSUME IInv, LetInv, [Next]_vars
               PROVE  LetInv'
    OBVIOUS
  <1>1. \A d \in DOMAIN let : /\ d \in DOMAIN last /\ last[d] <= let[d] /\ let[d] < Cooldown
                              /\ let[d] \in 0..Old /\ last[d] \in 0..Old
    BY WebType DEF LetInv, CooldownMap, Range
  <1>2. CASE UNCHANGED web
    BY <1>2 DEF LetInv, web
  <1>3. ASSUME NEW p \in Procs, LetThrough(p)
        PROVE  LetInv'
    <2>1. CASE last' = last /\ let' = let
      BY <2>1 DEF LetInv
    <2>2. CASE let' = Began(let, Dom(p)) /\ last' = Began(Restrict(last, Kept), Dom(p))
      <3>1. \A d \in DOMAIN let : d \in Kept
        BY <1>1, DeployBoundsAssumption DEF Kept, Old
      <3>2. DOMAIN let' = DOMAIN let \cup {Dom(p)} /\ DOMAIN last' = Kept \cup {Dom(p)}
        BY <2>2 DEF Began, Restrict
      <3>3. ASSUME NEW d \in DOMAIN let'
            PROVE  last'[d] <= let'[d] /\ let'[d] < Cooldown
        <4>1. CASE d = Dom(p)
          BY <4>1, <2>2, <3>2, DeployBoundsAssumption DEF Began, Restrict
        <4>2. CASE d # Dom(p)
          <5>1. d \in DOMAIN let /\ d \in Kept
            BY <3>1, <3>2, <4>2
          <5>2. last'[d] = last[d] /\ let'[d] = let[d]
            BY <2>2, <4>2, <5>1 DEF Began, Restrict
          <5>3. QED
            BY <1>1, <5>1, <5>2
        <4>3. QED
          BY <4>1, <4>2
      <3>4. QED
        BY <3>1, <3>2, <3>3 DEF LetInv
    <2>3. QED
      BY <1>3, <2>1, <2>2 DEF LetThrough
  <1>4. CASE Tick
    <2> DEFINE S == {d \in DOMAIN let : let[d] + 1 < Cooldown}
    <2>1. last' = Older(last) /\ let' = Older(Restrict(let, S))
      BY <1>4 DEF Tick
    <2>2. DOMAIN last' = DOMAIN last /\ DOMAIN let' = S
      BY <2>1 DEF Older, Restrict
    <2>3. ASSUME NEW d \in S
          PROVE  d \in DOMAIN last /\ last'[d] <= let'[d] /\ let'[d] < Cooldown
      <3>1. /\ d \in DOMAIN last /\ last[d] <= let[d] /\ let[d] \in 0..Old /\ last[d] \in 0..Old
            /\ let[d] + 1 < Cooldown
        BY <1>1
      <3>2. last'[d] = (IF last[d] < Old THEN last[d] + 1 ELSE Old)
        BY <2>1, <3>1 DEF Older
      <3>3. let'[d] = (IF let[d] < Old THEN let[d] + 1 ELSE Old)
        BY <2>1 DEF Older, Restrict
      <3>4. QED
        BY <3>1, <3>2, <3>3, DeployBoundsAssumption DEF Old
    <2>4. QED
      BY <2>2, <2>3 DEF LetInv
  <1>5. CASE Crash
    BY <1>5 DEF Crash, LetInv
  <1>6. ASSUME NEW p \in Procs, Step(p) \/ Request(p), ~LetThrough(p)
        PROVE  UNCHANGED web
    BY <1>6 DEF Step, DeployStep, Request, Fetch, Reset, Wipe, CloneTree, Record, RecordTo,
       Bounce, Hooks, Back, Mark, PushDeploy, End, BeginDeploy, BeginRollback, BeginPush, Acquire
  <1>7. ASSUME NEW b \in Branches, Commit(b)
        PROVE  UNCHANGED web
    BY <1>7 DEF Commit
  <1>8. QED
    BY <1>2, <1>3, <1>4, <1>5, <1>6, <1>7 DEF Next, vars

(* No two pushes of a site let a deploy through within the cooldown: a push passes only *)
(* where the map has no recent entry, and the map forgets no recent entry.              *)
THEOREM CooldownHolds == Spec => DeploysSpaced
  <1>1. IInv /\ LetInv /\ [Next]_vars =>
          [\A p \in Procs : At(p, "push") /\ pc'[p] = "acquire" => Dom(p) \notin DOMAIN let]_vars
    <2> SUFFICES ASSUME IInv, LetInv, Next, NEW p \in Procs, At(p, "push"), pc'[p] = "acquire"
                 PROVE  Dom(p) \notin DOMAIN let
      OBVIOUS
    <2>1. CASE LetThrough(p)
      <3>1. ~Recent(Dom(p))
        <4>1. Recent(Dom(p)) => pc'[p] = "idle"
          BY <2>1, PcType DEF LetThrough, Goto
        <4>2. QED
          BY <4>1
      <3>2. QED
        <4> SUFFICES ASSUME Dom(p) \in DOMAIN let
                     PROVE  FALSE
          OBVIOUS
        <4>1. /\ Dom(p) \in DOMAIN last /\ last[Dom(p)] <= let[Dom(p)] /\ let[Dom(p)] < Cooldown
              /\ let[Dom(p)] \in 0..Old /\ last[Dom(p)] \in 0..Old
          BY WebType DEF LetInv, CooldownMap, Range
        <4>2. QED
          BY <3>1, <4>1, DeployBoundsAssumption DEF Recent, Old
    <2>2. ASSUME NEW q \in Procs, Step(q) \/ Request(q)
          PROVE  \E l \in Labels : Goto(q, l)
      BY <2>2 DEF Step, DeployStep, Request, Fetch, Reset, Wipe, CloneTree, Record, RecordTo,
         Bounce, Hooks, Back, Mark, LetThrough, PushDeploy, End, BeginDeploy, BeginRollback,
         BeginPush, Acquire, Started, Labels
    <2>3. ASSUME NEW q \in Procs, Step(q) \/ Request(q)
          PROVE  q = p
      BY <2>2, <2>3, GotoType, PcType DEF At
    <2>4. ASSUME Step(p) \/ Request(p)
          PROVE  LetThrough(p)
      BY <2>4 DEF At, Step, DeployStep, Request, Fetch, Reset, Wipe, CloneTree, Record, RecordTo,
         Bounce, Hooks, Back, Mark, PushDeploy, End, BeginDeploy, BeginRollback, BeginPush
    <2>5. ~Crash /\ ~Tick /\ \A b \in Branches : ~Commit(b)
      BY PcType DEF At, Crash, Tick, Commit
    <2>6. QED
      BY <2>1, <2>3, <2>4, <2>5 DEF Next
  <1>2. QED
    BY <1>1, InitInv, NextInv, InitLet, NextLet, PTL DEF Spec, DeploysSpaced

---------------------------------------------------------------------------------
(* ProgressHub: the invariant. *)

HubInv ==
  /\ buffers \in [Sites -> Seq(Event)]
  /\ gen    \in [Sites -> Nat]
  /\ subs   \in [Sites -> SUBSET Streams]
  /\ timers \subseteq Timer
  /\ op     \in [Sites -> [count : Nat, at : {"done", "begun", "running"}]]
  /\ clock  \in [Sites -> Nat] /\ overtaken \in [Sites -> SUBSET Nat]
  /\ stream \in [Streams -> Stream]
  /\ \A s \in Streams, d \in Sites : s \in subs[d] <=> stream[s].open /\ stream[s].dom = d

(* A buffer has the latest events of its domain, of one operation and one run. *)
BufInv(d) == LET b == buffers[d] IN
  /\ Len(b) <= BufCap /\ Len(b) <= clock[d]
  /\ Consecutive(b, clock[d] - Len(b) + 1)
  /\ \A i \in 1..Len(b) : b[i].op = op[d].count /\ b[i].run = gen[d]

(* What a stream has yet to send follows what it has sent, and ends with the latest event *)
(* if none was dropped.                                                                   *)
Ordered(at, q) == \A i \in 1..Len(q) : q[i].no > IF i = 1 THEN at ELSE q[i - 1].no
Until(q, n)    == \A i \in 1..Len(q) : q[i].no <= n
Goes(at, slow, q, n) ==
  /\ Ordered(at, q) /\ Until(q, n) /\ at <= n
  /\ ~slow => Consecutive(q, at + 1) /\ at + Len(q) = n
StreamInv(s) == LET st == stream[s] IN
  /\ Len(st.ch) <= ChanCap
  /\ ~st.open => st = Closed
  /\ st.open => Goes(st.at, st.slow, st.replay \o st.ch, clock[st.dom])

(* A timer that no other overtook is of a generation that a run in progress has passed. *)
TimerInv(t) == t.op \notin overtaken[t.dom] =>
  /\ t.gen <= gen[t.dom]
  /\ op[t.dom].at # "done" => t.gen < gen[t.dom]

HubIInv ==
  /\ HubInv
  /\ \A d \in Sites : BufInv(d)
  /\ \A s \in Streams : StreamInv(s)
  /\ \A t \in timers : TimerInv(t)

---------------------------------------------------------------------------------
(* Sequences of events. *)

LEMMA Appended ==
  ASSUME NEW q \in Seq(Event), NEW ev \in Event
  PROVE  /\ Append(q, ev) \in Seq(Event) /\ Len(Append(q, ev)) = Len(q) + 1
         /\ Append(q, ev)[Len(q) + 1] = ev
         /\ \A i \in 1..Len(q) : Append(q, ev)[i] = q[i]
  OBVIOUS

LEMMA Joined ==
  ASSUME NEW a \in Seq(Event), NEW b \in Seq(Event)
  PROVE  /\ a \o b \in Seq(Event) /\ Len(a \o b) = Len(a) + Len(b)
         /\ \A i \in 1..Len(a) + Len(b) : (a \o b)[i] = IF i <= Len(a) THEN a[i] ELSE b[i - Len(a)]
  OBVIOUS

LEMMA Shorter ==
  ASSUME NEW q \in Seq(Event), q # <<>>
  PROVE  /\ Tail(q) \in Seq(Event) /\ Len(Tail(q)) = Len(q) - 1 /\ Len(q) > 0
         /\ Head(q) \in Event /\ Head(q) = q[1]
         /\ \A i \in 1..Len(q) - 1 : Tail(q)[i] = q[i + 1]
  OBVIOUS

LEMMA Cut ==
  ASSUME NEW q \in Seq(Event), NEW k \in 1..Len(q)
  PROVE  /\ SubSeq(q, k, Len(q)) \in Seq(Event) /\ Len(SubSeq(q, k, Len(q))) = Len(q) - k + 1
         /\ \A i \in 1..Len(q) - k + 1 : SubSeq(q, k, Len(q))[i] = q[k + i - 1]
  OBVIOUS

LEMMA Numbered ==
  ASSUME NEW q \in Seq(Event)
  PROVE  \A i \in 1..Len(q) : q[i] \in Event /\ q[i].no \in Nat
  <1>1. \A i \in 1..Len(q) : q[i] \in Event
    OBVIOUS
  <1>2. QED
    BY <1>1 DEF Event

(* A new event goes to the end of what a stream has yet to send ... *)
LEMMA GoesOn ==
  ASSUME NEW q \in Seq(Event), NEW ev \in Event, NEW at \in Nat, NEW slow \in BOOLEAN, NEW n \in Nat,
         Goes(at, slow, q, n), ev.no = n + 1
  PROVE  Goes(at, slow, Append(q, ev), n + 1)
  <1> DEFINE r == Append(q, ev)
  <1>1. /\ r \in Seq(Event) /\ Len(r) = Len(q) + 1 /\ r[Len(q) + 1] = ev /\ Len(q) \in Nat
        /\ \A i \in 1..Len(q) : r[i] = q[i]
    BY Appended
  <1>2. \A i \in 1..Len(q) : q[i].no \in Nat
    BY Numbered
  <1> HIDE DEF r
  <1>3. Ordered(at, r)
    <2>1. Ordered(at, q) /\ Until(q, n) /\ at <= n
      BY DEF Goes
    <2>2. ASSUME NEW i \in 1..Len(r)
          PROVE  r[i].no > IF i = 1 THEN at ELSE r[i - 1].no
      <3>1. CASE i <= Len(q)
        <4>1. i \in 1..Len(q) /\ r[i] = q[i] /\ (i # 1 => i - 1 \in 1..Len(q) /\ r[i - 1] = q[i - 1])
          BY <1>1, <2>2, <3>1
        <4>2. q[i].no > IF i = 1 THEN at ELSE q[i - 1].no
          BY <2>1, <4>1 DEF Ordered
        <4>3. QED
          BY <4>1, <4>2
      <3>2. CASE i = Len(q) + 1
        BY <1>1, <1>2, <2>1, <3>2 DEF Until
      <3>3. QED
        BY <1>1, <2>2, <3>1, <3>2
    <2>3. QED
      BY <2>2 DEF Ordered
  <1>4. Until(r, n + 1)
    BY <1>1, <1>2 DEF Goes, Until
  <1>5. ~slow => Consecutive(r, at + 1) /\ at + Len(r) = n + 1
    BY <1>1, <1>2 DEF Goes, Consecutive
  <1>6. QED
    BY <1>3, <1>4, <1>5 DEF Goes, r

(* ... or is dropped, after which there is a hole. *)
LEMMA GoesSlow ==
  ASSUME NEW q \in Seq(Event), NEW at \in Nat, NEW slow \in BOOLEAN, NEW n \in Nat, Goes(at, slow, q, n)
  PROVE  Goes(at, TRUE, q, n + 1)
  <1>1. \A i \in 1..Len(q) : q[i].no \in Nat
    BY Numbered
  <1>2. QED
    BY <1>1 DEF Goes, Until

(* The first one is sent. *)
LEMMA GoesNext ==
  ASSUME NEW q \in Seq(Event), q # <<>>, NEW at \in Nat, NEW slow \in BOOLEAN, NEW n \in Nat,
         Goes(at, slow, q, n)
  PROVE  Goes(Head(q).no, slow, Tail(q), n)
  <1> DEFINE r == Tail(q)
  <1>1. /\ r \in Seq(Event) /\ Len(r) = Len(q) - 1 /\ Len(q) > 0 /\ Len(q) \in Nat
        /\ Head(q) = q[1] /\ \A i \in 1..Len(q) - 1 : r[i] = q[i + 1]
    BY Shorter
  <1>2. \A i \in 1..Len(q) : q[i].no \in Nat
    BY Numbered
  <1> HIDE DEF r
  <1>3. Ordered(q[1].no, r)
    <2> SUFFICES ASSUME NEW i \in 1..Len(r)
                 PROVE  r[i].no > IF i = 1 THEN q[1].no ELSE r[i - 1].no
      BY DEF Ordered
    <2>1. i + 1 \in 1..Len(q) /\ i + 1 # 1 /\ (i + 1) - 1 = i /\ r[i] = q[i + 1]
      BY <1>1
    <2>2. q[i + 1].no > q[i].no
      BY <2>1 DEF Goes, Ordered
    <2>3. i # 1 => r[i - 1] = q[i]
      BY <1>1
    <2>4. QED
      BY <2>1, <2>2, <2>3
  <1>4. Until(r, n) /\ q[1].no <= n
    BY <1>1, <1>2 DEF Goes, Until
  <1>5. ASSUME ~slow
        PROVE  Consecutive(r, q[1].no + 1) /\ q[1].no + Len(r) = n
    <2>1. at + Len(q) = n /\ \A i \in 1..Len(q) : q[i].no = at + i
      BY <1>1, <1>5 DEF Goes, Consecutive
    <2>2. 1 \in 1..Len(q) /\ q[1].no = at + 1
      BY <1>1, <2>1
    <2>3. ASSUME NEW i \in 1..Len(r)
          PROVE  r[i].no = q[1].no + 1 + i - 1
      <3>1. i + 1 \in 1..Len(q) /\ r[i] = q[i + 1]
        BY <1>1
      <3>2. q[i + 1].no = at + (i + 1)
        BY <2>1, <3>1
      <3>3. QED
        BY <2>2, <3>1, <3>2
    <2>4. q[1].no + Len(r) = n
      <3>1. Len(q) \in Nat /\ Len(r) = Len(q) - 1
        BY <1>1
      <3>2. at + Len(q) = n
        BY <2>1
      <3>3. q[1].no = at + 1
        BY <2>2
      <3>4. QED
        BY <3>1, <3>2, <3>3
    <2>5. QED
      BY <2>3, <2>4 DEF Consecutive
  <1>6. QED
    BY <1>1, <1>3, <1>4, <1>5 DEF Goes, r

LEMMA JoinedAppend ==
  ASSUME NEW a \in Seq(Event), NEW b \in Seq(Event), NEW ev \in Event
  PROVE  a \o Append(b, ev) = Append(a \o b, ev)
  OBVIOUS

LEMMA JoinedTail ==
  ASSUME NEW a \in Seq(Event), NEW b \in Seq(Event)
  PROVE  /\ a # <<>> => a \o b # <<>> /\ Tail(a) \o b = Tail(a \o b) /\ Head(a \o b) = Head(a)
         /\ <<>> \o b = b
  OBVIOUS
---------------------------------------------------------------------------------
(* Streams and buffers. *)

(* The types of a stream's state. *)
LEMMA StreamFacts ==
  ASSUME HubIInv, NEW s \in Streams
  PROVE  /\ stream[s].dom \in Sites /\ stream[s].open \in BOOLEAN /\ stream[s].slow \in BOOLEAN
         /\ stream[s].replay \in Seq(Event) /\ stream[s].ch \in Seq(Event) /\ stream[s].at \in Nat
         /\ Pending(s) \in Seq(Event) /\ Pending(s) = stream[s].replay \o stream[s].ch
  <1>1. stream[s] \in Stream
    BY DEF HubIInv, HubInv
  <1>2. /\ stream[s].dom \in Sites /\ stream[s].open \in BOOLEAN /\ stream[s].slow \in BOOLEAN
        /\ stream[s].replay \in Seq(Event) /\ stream[s].ch \in Seq(Event) /\ stream[s].at \in Nat
    BY <1>1 DEF Stream
  <1>3. QED
    BY <1>2 DEF Pending

LEMMA ClosedFacts ==
  /\ Closed \in Stream /\ Closed.open = FALSE /\ Closed.replay = <<>> /\ Closed.ch = <<>> /\ Closed.at = 0
  BY SitesAssumption DEF Closed, Stream

(* The buffer keeps the last events of the run. *)
LEMMA BufferGrows ==
  ASSUME HubIInv, NEW d \in Sites, NEW ev \in Event, ev.no = clock[d] + 1, ev.op = op[d].count, ev.run = gen[d],
         buffers'[d] = KeepLatest(Append(buffers[d], ev)), clock'[d] = clock[d] + 1, gen'[d] = gen[d],
         op'[d].count = op[d].count
  PROVE  buffers'[d] \in Seq(Event) /\ BufInv(d)'
  <1> DEFINE b == buffers[d]  r == Append(b, ev)
  <1>1. b \in Seq(Event) /\ Len(b) \in Nat /\ clock[d] \in Nat /\ BufCap \in Nat /\ BufCap > 0 /\ BufInv(d)
    BY CapsAssumption DEF HubIInv, HubInv
  <1>2. /\ r \in Seq(Event) /\ Len(r) = Len(b) + 1 /\ r[Len(b) + 1] = ev
        /\ \A i \in 1..Len(b) : r[i] = b[i]
    BY <1>1, Appended
  <1>3. Len(b) <= BufCap /\ Len(b) <= clock[d]
    BY <1>1 DEF BufInv
  <1>4. ASSUME NEW i \in 1..Len(r)
        PROVE  r[i].no = clock[d] - Len(b) + i /\ r[i].op = op[d].count /\ r[i].run = gen[d]
    <2>1. CASE i = Len(b) + 1
      BY <1>1, <1>2, <2>1
    <2>2. CASE i # Len(b) + 1
      <3>1. i \in 1..Len(b) /\ r[i] = b[i]
        BY <1>1, <1>2, <2>2
      <3>2. b[i].no = clock[d] - Len(b) + 1 + i - 1 /\ b[i].op = op[d].count /\ b[i].run = gen[d]
        BY <1>1, <3>1 DEF BufInv, Consecutive
      <3>3. QED
        BY <1>1, <3>1, <3>2
    <2>3. QED
      BY <2>1, <2>2
  <1>5. CASE Len(r) <= BufCap
    <2>1. buffers'[d] = r
      BY <1>1, <1>2, <1>5 DEF KeepLatest
    <2>2. \A i \in 1..Len(r) : r[i].no = clock'[d] - Len(r) + 1 + i - 1
      <3> SUFFICES ASSUME NEW i \in 1..Len(r)
                   PROVE  r[i].no = clock'[d] - Len(r) + 1 + i - 1
        OBVIOUS
      <3>1. r[i].no = clock[d] - Len(b) + i
        BY <1>4
      <3>2. /\ clock'[d] = clock[d] + 1 /\ clock[d] \in Nat
            /\ Len(r) = Len(b) + 1 /\ Len(b) \in Nat /\ i \in 1..(Len(b) + 1)
        BY <1>1, <1>2
      <3> HIDE DEF r, b
      <3>3. clock'[d] - Len(r) + 1 + i - 1 = clock[d] - Len(b) + i
        BY ONLY <3>2
      <3>4. QED
        BY <3>1, <3>3
    <2>3. Len(r) <= clock'[d]
      BY <1>1, <1>2, <1>3
    <2> HIDE DEF r
    <2>4. QED
      BY <1>2, <1>4, <1>5, <2>1, <2>2, <2>3 DEF BufInv, Consecutive
  <1>6. CASE Len(r) > BufCap
    <2> DEFINE k == Len(r) - BufCap + 1  u == SubSeq(r, k, Len(r))
    <2>1. buffers'[d] = u
      BY <1>1, <1>2, <1>6 DEF KeepLatest
    <2>2. k \in 1..Len(r) /\ k = Len(b) + 2 - BufCap
      BY <1>1, <1>2, <1>6
    <2> HIDE DEF k, r
    <2>3. /\ u \in Seq(Event) /\ Len(u) = Len(r) - k + 1
          /\ \A i \in 1..Len(r) - k + 1 : u[i] = r[k + i - 1]
      BY <1>2, <2>2, Cut
    <2>4. Len(u) = BufCap /\ Len(u) <= clock'[d]
      BY <1>1, <1>2, <1>3, <1>6, <2>2, <2>3
    <2> HIDE DEF u
    <2>5. ASSUME NEW i \in 1..Len(u)
          PROVE  /\ u[i].no = clock'[d] - Len(u) + 1 + i - 1
                 /\ u[i].op = op'[d].count /\ u[i].run = gen'[d]
      <3>1. k + i - 1 \in 1..Len(r) /\ u[i] = r[k + i - 1]
        BY <1>1, <1>2, <2>2, <2>3, <2>4
      <3>2. r[k + i - 1].no = clock[d] - Len(b) + (k + i - 1) /\ r[k + i - 1].op = op[d].count /\ r[k + i - 1].run = gen[d]
        BY <1>4, <3>1
      <3>3. /\ clock'[d] = clock[d] + 1 /\ clock[d] \in Nat
            /\ k = Len(b) + 2 - BufCap /\ Len(b) \in Nat
            /\ Len(u) = BufCap /\ BufCap \in Nat /\ i \in 1..BufCap
        BY <1>1, <2>2, <2>4
      <3>4. clock[d] - Len(b) + (k + i - 1) = clock'[d] - Len(u) + 1 + i - 1
        <4> HIDE DEF b
        <4> QED BY ONLY <3>3
      <3>5. QED
        BY <3>1, <3>2, <3>4
    <2>6. QED
      BY <1>1, <2>1, <2>3, <2>4, <2>5 DEF BufInv, Consecutive
  <1>7. QED
    BY <1>1, <1>2, <1>5, <1>6

(* A subscriber gets the event, or misses it and is slow. *)
LEMMA StreamGets ==
  ASSUME HubIInv, NEW s \in Streams, stream[s].open, NEW d \in Sites, stream[s].dom = d,
         NEW ev \in Event, ev.no = clock[d] + 1, clock'[d] = clock[d] + 1, stream'[s] = Offer(stream[s], ev)
  PROVE  stream'[s] \in Stream /\ StreamInv(s)' /\ stream'[s].open /\ stream'[s].dom = d
  <1> DEFINE st == stream[s]  q == st.replay \o st.ch
  <1>1. /\ st \in Stream /\ st.replay \in Seq(Event) /\ st.ch \in Seq(Event) /\ st.at \in Nat /\ st.slow \in BOOLEAN
        /\ q \in Seq(Event) /\ clock[d] \in Nat /\ ChanCap \in Nat
    BY StreamFacts, CapsAssumption DEF HubIInv, HubInv
  <1>2. Goes(st.at, st.slow, q, clock[d]) /\ Len(st.ch) <= ChanCap
    BY DEF HubIInv, StreamInv
  <1>3. CASE Len(st.ch) < ChanCap
    <2>1. stream'[s] = [st EXCEPT !.ch = Append(st.ch, ev)]
      BY <1>3 DEF Offer
    <2>2. Append(st.ch, ev) \in Seq(Event) /\ Len(Append(st.ch, ev)) = Len(st.ch) + 1
      BY <1>1, Appended
    <2>3. /\ stream'[s] \in Stream /\ stream'[s].replay = st.replay /\ stream'[s].ch = Append(st.ch, ev)
          /\ stream'[s].at = st.at /\ stream'[s].slow = st.slow /\ stream'[s].open /\ stream'[s].dom = d
      BY <1>1, <2>1, <2>2 DEF Stream
    <2>4. stream'[s].replay \o stream'[s].ch = Append(q, ev)
      <3>1. st.replay \o Append(st.ch, ev) = Append(st.replay \o st.ch, ev)
        BY <1>1, JoinedAppend
      <3>2. QED
        BY <2>3, <3>1
    <2> HIDE DEF q
    <2>5. Goes(st.at, st.slow, Append(q, ev), clock[d] + 1)
      BY <1>1, <1>2, GoesOn
    <2>6. Len(stream'[s].ch) <= ChanCap
      BY <1>1, <1>3, <2>2, <2>3
    <2>7. QED
      BY <2>3, <2>4, <2>5, <2>6 DEF StreamInv
  <1>4. CASE ~(Len(st.ch) < ChanCap)
    <2>1. stream'[s] = [st EXCEPT !.slow = TRUE]
      BY <1>4 DEF Offer
    <2>2. /\ stream'[s] \in Stream /\ stream'[s].replay = st.replay /\ stream'[s].ch = st.ch
          /\ stream'[s].at = st.at /\ stream'[s].slow = TRUE /\ stream'[s].open /\ stream'[s].dom = d
      BY <1>1, <2>1 DEF Stream
    <2> HIDE DEF q
    <2>3. Goes(st.at, TRUE, q, clock[d] + 1)
      BY <1>1, <1>2, GoesSlow
    <2>4. QED
      BY <1>2, <2>2, <2>3 DEF StreamInv, q
  <1>5. QED
    BY <1>3, <1>4

(* What is not touched stays as it is. *)
LEMMA StreamsStay ==
  ASSUME HubIInv, NEW s \in Streams, stream'[s] = stream[s],
         stream[s].open => clock'[stream[s].dom] = clock[stream[s].dom]
  PROVE  StreamInv(s)' /\ stream'[s] \in Stream
  BY DEF HubIInv, StreamInv, HubInv

LEMMA BuffersStay ==
  ASSUME HubIInv, NEW d \in Sites, clock'[d] = clock[d],
         \/ buffers'[d] = <<>>
         \/ buffers'[d] = buffers[d] /\ gen'[d] = gen[d] /\ op'[d].count = op[d].count
  PROVE  BufInv(d)' /\ buffers'[d] \in Seq(Event)
  <1>1. clock[d] \in Nat /\ BufCap \in Nat /\ BufInv(d) /\ buffers[d] \in Seq(Event)
    BY CapsAssumption DEF HubIInv, HubInv
  <1>2. CASE buffers'[d] = <<>>
    BY <1>1, <1>2 DEF BufInv, Consecutive
  <1>3. CASE buffers'[d] = buffers[d] /\ gen'[d] = gen[d] /\ op'[d].count = op[d].count
    BY <1>1, <1>3 DEF BufInv
  <1>4. QED
    BY <1>2, <1>3
---------------------------------------------------------------------------------
(* Operations. *)

LEMMA BeginStep ==
  ASSUME HubIInv, NEW d \in Sites, Begin(d)
  PROVE  HubIInv'
  <1>1. /\ buffers' = [buffers EXCEPT ![d] = <<>>] /\ gen' = [gen EXCEPT ![d] = @ + 1]
        /\ op' = [op EXCEPT ![d] = [count |-> op[d].count + 1, at |-> "begun"]]
        /\ op[d].at = "done" /\ UNCHANGED <<subs, timers, clock, overtaken, stream>>
    BY DEF Begin
  <1>2. HubInv'
    BY <1>1 DEF HubIInv, HubInv
  <1>3. ASSUME NEW e \in Sites
        PROVE  BufInv(e)'
    BY <1>1, BuffersStay DEF HubIInv, HubInv
  <1>4. \A s \in Streams : StreamInv(s)'
    BY <1>1, StreamsStay
  <1>5. ASSUME NEW t \in timers'
        PROVE  TimerInv(t)'
    <2>1. TimerInv(t) /\ t.dom \in Sites /\ t.gen \in Nat /\ gen[t.dom] \in Nat
      BY <1>1 DEF HubIInv, HubInv, Timer
    <2>2. CASE t.dom = d
      BY <1>1, <2>1, <2>2 DEF TimerInv, HubIInv, HubInv
    <2>3. CASE t.dom # d
      BY <1>1, <2>1, <2>3 DEF TimerInv, HubIInv, HubInv
    <2>4. QED
      BY <2>2, <2>3
  <1>6. QED
    BY <1>2, <1>3, <1>4, <1>5 DEF HubIInv

(* An event goes to the buffer and to every subscriber. *)
LEMMA PublishStep ==
  ASSUME HubIInv, NEW d \in Sites, NEW ends \in BOOLEAN, Publish(d, ends),
         op[d].at # "done", NEW at \in {"running", "done"}, op' = [op EXCEPT ![d].at = at],
         \/ timers' = timers
         \/ at = "done" /\ Arm(d)
  PROVE  HubIInv'
  <1> DEFINE ev == [no |-> clock[d] + 1, op |-> op[d].count, run |-> gen[d], last |-> ends]
  <1>1. /\ buffers' = [buffers EXCEPT ![d] = KeepLatest(Append(buffers[d], ev))]
        /\ stream' = [s \in Streams |-> IF s \in subs[d] THEN Offer(stream[s], ev) ELSE stream[s]]
        /\ clock' = [clock EXCEPT ![d] = clock[d] + 1]
        /\ UNCHANGED <<gen, subs, overtaken>>
    BY DEF Publish
  <1>2. /\ ev \in Event /\ ev.no = clock[d] + 1 /\ ev.op = op[d].count /\ ev.run = gen[d]
    BY DEF HubIInv, HubInv, Event
  <1> HIDE DEF ev
  <1>3. /\ op' \in [Sites -> [count : Nat, at : {"done", "begun", "running"}]]
        /\ \A e \in Sites : op'[e].count = op[e].count
        /\ op'[d].at = at /\ \A e \in Sites \ {d} : op'[e] = op[e]
    BY DEF HubIInv, HubInv
  <1>4. /\ clock' \in [Sites -> Nat] /\ clock'[d] = clock[d] + 1 /\ \A e \in Sites \ {d} : clock'[e] = clock[e]
    BY <1>1 DEF HubIInv, HubInv
  <1>5. ASSUME NEW e \in Sites
        PROVE  BufInv(e)' /\ buffers'[e] \in Seq(Event)
    <2>1. CASE e = d
      <3>1. buffers'[d] = KeepLatest(Append(buffers[d], ev))
        BY <1>1 DEF HubIInv, HubInv
      <3>2. gen'[d] = gen[d] /\ op'[d].count = op[d].count
        BY <1>1, <1>3
      <3>3. QED
        BY <1>2, <1>4, <2>1, <3>1, <3>2, BufferGrows
    <2>2. CASE e # d
      <3>1. buffers'[e] = buffers[e] /\ gen'[e] = gen[e]
        BY <1>1, <2>2 DEF HubIInv, HubInv
      <3>2. QED
        BY <1>3, <1>4, <2>2, <3>1, BuffersStay
    <2>3. QED
      BY <2>1, <2>2
  <1>6. ASSUME NEW s \in Streams
        PROVE  /\ StreamInv(s)' /\ stream'[s] \in Stream
               /\ stream'[s].open = stream[s].open /\ stream'[s].dom = stream[s].dom
    <2>1. s \in subs[d] <=> stream[s].open /\ stream[s].dom = d
      BY DEF HubIInv, HubInv
    <2>2. CASE s \in subs[d]
      <3>1. stream'[s] = Offer(stream[s], ev)
        BY <1>1, <2>2
      <3>2. stream'[s] \in Stream /\ StreamInv(s)' /\ stream'[s].open /\ stream'[s].dom = d
        BY <1>2, <1>4, <2>1, <2>2, <3>1, StreamGets
      <3>3. stream[s].open = TRUE /\ stream'[s].open = TRUE
        BY <2>1, <2>2, <3>2, StreamFacts DEF Stream
      <3>4. QED
        BY <2>1, <2>2, <3>2, <3>3
    <2>3. CASE s \notin subs[d]
      <3>1. stream'[s] = stream[s]
        BY <1>1, <2>3
      <3>2. stream[s].open => clock'[stream[s].dom] = clock[stream[s].dom]
        BY <1>4, <2>1, <2>3, StreamFacts
      <3>3. QED
        BY <3>1, <3>2, StreamsStay
    <2>4. QED
      BY <2>2, <2>3
  <1>7. timers' \subseteq Timer
    <2>1. timers \subseteq Timer /\ gen[d] \in Nat /\ op[d].count \in Nat
      BY DEF HubIInv, HubInv
    <2>2. [dom |-> d, gen |-> gen[d], op |-> op[d].count, fired |-> FALSE] \in Timer
      BY <2>1 DEF Timer
    <2>3. QED
      BY <2>1, <2>2 DEF Arm
  <1>8. ASSUME NEW t \in timers'
        PROVE  TimerInv(t)'
    <2>1. CASE t \in timers
      <3>1. TimerInv(t) /\ t.dom \in Sites
        BY <2>1 DEF HubIInv, HubInv, Timer
      <3>2. op'[t.dom].at # "done" => op[t.dom].at # "done"
        BY <1>3, <3>1
      <3>3. QED
        BY <1>1, <3>1, <3>2 DEF TimerInv
    <2>2. CASE t \notin timers
      <3>1. at = "done" /\ t = [dom |-> d, gen |-> gen[d], op |-> op[d].count, fired |-> FALSE]
        BY <1>8, <2>2 DEF Arm
      <3>2. t.dom = d /\ t.gen = gen[d] /\ gen[d] \in Nat
        BY <3>1 DEF HubIInv, HubInv
      <3>3. QED
        BY <1>1, <1>3, <3>1, <3>2 DEF TimerInv
    <2>3. QED
      BY <2>1, <2>2
  <1>9. HubInv'
    <2>1. buffers' \in [Sites -> Seq(Event)]
      BY <1>1, <1>5 DEF HubIInv, HubInv
    <2>2. stream' \in [Streams -> Stream]
      BY <1>1, <1>6
    <2>3. \A s \in Streams, e \in Sites : s \in subs'[e] <=> stream'[s].open /\ stream'[s].dom = e
      BY <1>1, <1>6 DEF HubIInv, HubInv
    <2>4. QED
      BY <1>1, <1>3, <1>4, <1>7, <2>1, <2>2, <2>3 DEF HubIInv, HubInv
  <1>10. QED
    BY <1>5, <1>6, <1>8, <1>9 DEF HubIInv

LEMMA OperationStep ==
  ASSUME HubIInv, NEW d \in Sites, Emit(d) \/ Finish(d)
  PROVE  HubIInv'
  <1>1. CASE Emit(d)
    BY <1>1, PublishStep DEF Emit
  <1>2. CASE Finish(d)
    BY <1>2, PublishStep DEF Finish
  <1>3. QED
    BY <1>1, <1>2

(* A retention window ends. *)
LEMMA ExpireStep ==
  ASSUME HubIInv, NEW t \in timers, Expire(t)
  PROVE  HubIInv'
  <1> DEFINE u == [t EXCEPT !.fired = TRUE]
  <1>1. timers' = (timers \ {t}) \cup {u} /\ UNCHANGED <<buffers, gen, subs, op, clock, overtaken, stream>>
    BY DEF Expire
  <1>2. t \in Timer /\ u \in Timer /\ u.dom = t.dom /\ u.gen = t.gen /\ u.op = t.op
    BY DEF HubIInv, HubInv, Timer
  <1> HIDE DEF u
  <1>3. HubInv'
    BY <1>1, <1>2 DEF HubIInv, HubInv
  <1>4. (\A d \in Sites : BufInv(d)') /\ \A s \in Streams : StreamInv(s)'
    BY <1>1 DEF HubIInv, BufInv, StreamInv
  <1>5. ASSUME NEW v \in timers'
        PROVE  TimerInv(v)'
    BY <1>1, <1>2 DEF HubIInv, TimerInv
  <1>6. QED
    BY <1>3, <1>4, <1>5 DEF HubIInv

(* A timer's goroutine runs: if it frees the buffer, all others of the domain are overtaken. *)
LEMMA ForgetStep ==
  ASSUME HubIInv, NEW t \in timers, Forget(t)
  PROVE  HubIInv'
  <1>1. t.dom \in Sites /\ timers' = timers \ {t} /\ UNCHANGED <<subs, op, clock, stream>>
    BY DEF Forget, HubIInv, HubInv, Timer
  <1>2. \A s \in Streams : StreamInv(s)'
    BY <1>1, StreamsStay
  <1>3. CASE UNCHANGED <<buffers, gen, overtaken>>
    <2>1. HubInv'
      BY <1>1, <1>3 DEF HubIInv, HubInv
    <2>2. \A d \in Sites : BufInv(d)'
      BY <1>1, <1>3 DEF HubIInv, BufInv
    <2>3. \A v \in timers' : TimerInv(v)'
      BY <1>1, <1>3 DEF HubIInv, TimerInv
    <2>4. QED
      BY <1>2, <2>1, <2>2, <2>3 DEF HubIInv
  <1>4. CASE Free(t)
    <2>1. /\ buffers' = [buffers EXCEPT ![t.dom] = <<>>] /\ gen' = [gen EXCEPT ![t.dom] = 0]
          /\ overtaken' = [overtaken EXCEPT ![t.dom] = {u.op : u \in {u \in timers \ {t} : u.dom = t.dom}}]
      BY <1>4 DEF Free
    <2>2. \A u \in timers : u.op \in Nat /\ u.dom \in Sites
      BY DEF HubIInv, HubInv, Timer
    <2>3. HubInv'
      BY <1>1, <2>1, <2>2 DEF HubIInv, HubInv
    <2>4. \A d \in Sites : BufInv(d)'
      BY <1>1, <2>1, BuffersStay DEF HubIInv, HubInv
    <2>5. ASSUME NEW v \in timers'
          PROVE  TimerInv(v)'
      <3>1. TimerInv(v) /\ v.dom \in Sites /\ v \in timers \ {t}
        BY <1>1, <2>2 DEF HubIInv
      <3>2. CASE v.dom = t.dom
        <4>1. v.op \in overtaken'[v.dom]
          BY <1>1, <2>1, <3>1, <3>2 DEF HubIInv, HubInv
        <4>2. QED
          BY <4>1 DEF TimerInv
      <3>3. CASE v.dom # t.dom
        <4>1. overtaken'[v.dom] = overtaken[v.dom] /\ gen'[v.dom] = gen[v.dom]
          BY <2>1, <3>1, <3>3 DEF HubIInv, HubInv
        <4>2. QED
          BY <1>1, <3>1, <4>1 DEF TimerInv
      <3>4. QED
        BY <3>2, <3>3
    <2>6. QED
      BY <1>2, <2>3, <2>4, <2>5 DEF HubIInv
  <1>5. QED
    BY <1>3, <1>4 DEF Forget

---------------------------------------------------------------------------------
(* Event streams. *)

(* A step of one stream: it is still open, or its channel goes with it. *)
LEMMA StreamStep ==
  ASSUME HubIInv, NEW s \in Streams, UNCHANGED <<buffers, gen, timers, op, clock, overtaken>>,
         NEW st \in Stream, stream' = [stream EXCEPT ![s] = st],
         \/ ~stream[s].open /\ subs' = [subs EXCEPT ![st.dom] = @ \cup {s}] /\ st.open
         \/ stream[s].open /\ subs' = [subs EXCEPT ![stream[s].dom] = @ \ {s}] /\ st = Closed
         \/ stream[s].open /\ subs' = subs /\ st.open /\ st.dom = stream[s].dom,
         Len(st.ch) <= ChanCap,
         st.open => Goes(st.at, st.slow, st.replay \o st.ch, clock[st.dom])
  PROVE  HubIInv'
  <1>1. /\ stream'[s] = st /\ \A r \in Streams \ {s} : stream'[r] = stream[r]
        /\ stream' \in [Streams -> Stream] /\ st.dom \in Sites /\ st.open \in BOOLEAN
    BY DEF HubIInv, HubInv, Stream
  <1>2. /\ \A d \in Sites : s \in subs[d] <=> stream[s].open /\ stream[s].dom = d
        /\ \A r \in Streams \ {s}, d \in Sites : r \in subs[d] <=> stream[r].open /\ stream[r].dom = d
        /\ subs \in [Sites -> SUBSET Streams] /\ stream[s].dom \in Sites /\ stream[s].open \in BOOLEAN
    BY StreamFacts DEF HubIInv, HubInv
  <1>3. /\ subs' \in [Sites -> SUBSET Streams]
        /\ \A r \in Streams \ {s}, d \in Sites : r \in subs'[d] <=> r \in subs[d]
    BY <1>1, <1>2
  <1>4. ~st.open => st = Closed
    OBVIOUS
  <1>5. \A d \in Sites : s \in subs'[d] <=> st.open /\ st.dom = d
    <2>1. CASE ~stream[s].open /\ subs' = [subs EXCEPT ![st.dom] = @ \cup {s}] /\ st.open
      BY <1>1, <1>2, <2>1
    <2>2. CASE stream[s].open /\ subs' = [subs EXCEPT ![stream[s].dom] = @ \ {s}] /\ st = Closed
      BY <1>1, <1>2, <2>2, ClosedFacts
    <2>3. CASE stream[s].open /\ subs' = subs /\ st.open /\ st.dom = stream[s].dom
      BY <1>1, <1>2, <2>3
    <2>4. QED
      BY <2>1, <2>2, <2>3
  <1>6. HubInv'
    <2>1. \A r \in Streams, d \in Sites : r \in subs'[d] <=> stream'[r].open /\ stream'[r].dom = d
      BY <1>1, <1>2, <1>3, <1>5
    <2>2. QED
      BY <1>1, <1>3, <2>1 DEF HubIInv, HubInv
  <1>7. ASSUME NEW r \in Streams
        PROVE  StreamInv(r)'
    <2>1. CASE r = s
      BY <1>1, <1>4, <2>1 DEF StreamInv
    <2>2. CASE r # s
      BY <1>1, <2>2, StreamsStay
    <2>3. QED
      BY <2>1, <2>2
  <1>8. (\A d \in Sites : BufInv(d)') /\ \A t \in timers' : TimerInv(t)'
    BY DEF HubIInv, BufInv, TimerInv
  <1>9. QED
    BY <1>6, <1>7, <1>8 DEF HubIInv

LEMMA SubscribeStep ==
  ASSUME HubIInv, NEW s \in Streams, NEW d \in Sites, Subscribe(s, d)
  PROVE  HubIInv'
  <1> DEFINE b == buffers[d]
             st == [dom |-> d, open |-> TRUE, replay |-> b, slow |-> FALSE,
                    ch |-> <<>>, at |-> clock[d] - Len(b)]
  <1>1. /\ ~stream[s].open /\ subs' = [subs EXCEPT ![d] = @ \cup {s}]
        /\ stream' = [stream EXCEPT ![s] = st] /\ UNCHANGED <<buffers, gen, timers, op, clock, overtaken>>
    BY DEF Subscribe
  <1>2. b \in Seq(Event) /\ Len(b) \in Nat /\ clock[d] \in Nat /\ BufInv(d) /\ ChanCap \in Nat
    BY CapsAssumption DEF HubIInv, HubInv
  <1>3. Len(b) <= clock[d] /\ clock[d] - Len(b) \in Nat
    BY <1>2 DEF BufInv
  <1>4. \A i \in 1..Len(b) : b[i].no = clock[d] - Len(b) + i
    BY <1>2 DEF BufInv, Consecutive
  <1>5. /\ st.dom = d /\ st.open = TRUE /\ st.replay = b /\ st.slow = FALSE /\ st.ch = <<>>
        /\ st.at = clock[d] - Len(b)
    OBVIOUS
  <1>6. st \in Stream
    BY <1>2, <1>3 DEF Stream
  <1> HIDE DEF st
  <1>7. st.replay \o st.ch = b
    BY <1>2, <1>5
  <1>8. Goes(clock[d] - Len(b), FALSE, b, clock[d])
    <2> HIDE DEF b
    <2>1. Ordered(clock[d] - Len(b), b)
      <3> SUFFICES ASSUME NEW i \in 1..Len(b)
                   PROVE  b[i].no > IF i = 1 THEN clock[d] - Len(b) ELSE b[i - 1].no
        BY DEF Ordered
      <3>1. b[i].no = clock[d] - Len(b) + i
        BY <1>4
      <3>2. i # 1 => b[i - 1].no = clock[d] - Len(b) + (i - 1)
        BY <1>2, <1>4
      <3>3. QED
        BY <1>2, <3>1, <3>2
    <2>2. Until(b, clock[d])
      BY <1>2, <1>4 DEF Until
    <2>3. Consecutive(b, clock[d] - Len(b) + 1)
      BY <1>2, <1>4 DEF Consecutive
    <2>4. clock[d] - Len(b) <= clock[d] /\ clock[d] - Len(b) + Len(b) = clock[d]
      BY <1>2
    <2>5. QED
      BY <2>1, <2>2, <2>3, <2>4 DEF Goes
  <1>9. Len(st.ch) <= ChanCap
    BY <1>2, <1>5
  <1>10. st.open => Goes(st.at, st.slow, st.replay \o st.ch, clock[st.dom])
    BY <1>5, <1>7, <1>8
  <1>11. QED
    BY <1>1, <1>5, <1>6, <1>9, <1>10, StreamStep

(* The handler returns. *)
LEMMA CancelStep ==
  ASSUME HubIInv, NEW s \in Streams, stream[s].open, Cancel(s),
         UNCHANGED <<buffers, gen, timers, op, clock, overtaken>>
  PROVE  HubIInv'
  <1>1. /\ subs' = [subs EXCEPT ![stream[s].dom] = @ \ {s}]
        /\ stream' = [stream EXCEPT ![s] = Closed]
    BY DEF Cancel
  <1>2. Closed \in Stream /\ ~Closed.open /\ Closed.ch = <<>> /\ Len(Closed.ch) = 0
    BY ClosedFacts
  <1>3. Len(Closed.ch) <= ChanCap
    BY <1>2, CapsAssumption
  <1>4. QED
    BY <1>1, <1>2, <1>3, StreamStep

(* An event goes to the client, and the rest is still to send. *)
LEMMA SendStep ==
  ASSUME HubIInv, NEW s \in Streams, stream[s].open, NEW rest \in Stream,
         stream' = [stream EXCEPT ![s] = rest], UNCHANGED subs,
         UNCHANGED <<buffers, gen, timers, op, clock, overtaken>>,
         rest.open, rest.dom = stream[s].dom, rest.slow = stream[s].slow, Len(rest.ch) <= ChanCap,
         Pending(s) # <<>>, rest.at = Head(Pending(s)).no, rest.replay \o rest.ch = Tail(Pending(s))
  PROVE  HubIInv'
  <1>1. /\ Pending(s) \in Seq(Event) /\ stream[s].at \in Nat /\ stream[s].slow \in BOOLEAN
        /\ clock[stream[s].dom] \in Nat
    BY StreamFacts DEF HubIInv, HubInv
  <1>2. Goes(stream[s].at, stream[s].slow, Pending(s), clock[stream[s].dom])
    BY DEF HubIInv, StreamInv, Pending
  <1>3. Goes(Head(Pending(s)).no, stream[s].slow, Tail(Pending(s)), clock[stream[s].dom])
    BY <1>1, <1>2, GoesNext
  <1>4. rest.open => Goes(rest.at, rest.slow, rest.replay \o rest.ch, clock[rest.dom])
    BY <1>3
  <1>5. QED
    BY <1>4, StreamStep

LEMMA ReplayStep ==
  ASSUME HubIInv, NEW s \in Streams, Replay(s)
  PROVE  HubIInv'
  <1> DEFINE st == stream[s]
             rest == [st EXCEPT !.replay = Tail(@), !.at = Head(st.replay).no]
  <1>1. /\ st.open /\ st.replay # <<>> /\ Send(s, Head(st.replay), rest)
        /\ UNCHANGED <<buffers, gen, timers, op, clock, overtaken>>
    BY DEF Replay
  <1>2. /\ st \in Stream /\ st.replay \in Seq(Event) /\ st.ch \in Seq(Event) /\ Len(st.ch) <= ChanCap
        /\ Pending(s) = st.replay \o st.ch
    BY StreamFacts DEF HubIInv, HubInv, StreamInv
  <1>3. Tail(st.replay) \in Seq(Event) /\ Head(st.replay) \in Event /\ Head(st.replay).no \in Nat
    BY <1>1, <1>2, Shorter DEF Event
  <1>4. CASE UNCHANGED subs /\ stream' = [stream EXCEPT ![s] = rest]
    <2>1. /\ rest \in Stream /\ rest.open = st.open /\ rest.dom = st.dom /\ rest.slow = st.slow /\ rest.ch = st.ch
          /\ rest.replay = Tail(st.replay) /\ rest.at = Head(st.replay).no
      BY <1>2, <1>3 DEF Stream
    <2> HIDE DEF rest
    <2>2. Pending(s) # <<>> /\ Head(Pending(s)) = Head(st.replay) /\ Tail(Pending(s)) = Tail(st.replay) \o st.ch
      <3>1. st.replay \in Seq(Event) /\ st.ch \in Seq(Event) /\ st.replay # <<>>
        BY <1>1, <1>2
      <3> HIDE DEF st
      <3>2. /\ st.replay \o st.ch # <<>> /\ Head(st.replay \o st.ch) = Head(st.replay)
            /\ Tail(st.replay) \o st.ch = Tail(st.replay \o st.ch)
        BY <3>1, JoinedTail
      <3>3. QED
        BY <1>2, <3>2
    <2>3. QED
      BY <1>1, <1>2, <1>4, <2>1, <2>2, SendStep
  <1>5. CASE Cancel(s)
    BY <1>1, <1>5, CancelStep
  <1>6. QED
    BY <1>1, <1>4, <1>5 DEF Send

LEMMA ReceiveStep ==
  ASSUME HubIInv, NEW s \in Streams, Receive(s)
  PROVE  HubIInv'
  <1> DEFINE st == stream[s]
             rest == [st EXCEPT !.ch = Tail(@), !.at = Head(st.ch).no]
  <1>1. /\ st.open /\ st.replay = <<>> /\ st.ch # <<>> /\ Send(s, Head(st.ch), rest)
        /\ UNCHANGED <<buffers, gen, timers, op, clock, overtaken>>
    BY DEF Receive
  <1>2. /\ st \in Stream /\ st.ch \in Seq(Event) /\ Len(st.ch) <= ChanCap /\ ChanCap \in Nat
        /\ Pending(s) = st.replay \o st.ch
    BY StreamFacts, CapsAssumption DEF HubIInv, HubInv, StreamInv
  <1>3. /\ Tail(st.ch) \in Seq(Event) /\ Len(Tail(st.ch)) <= ChanCap
        /\ Head(st.ch) \in Event /\ Head(st.ch).no \in Nat
    <2>1. st.ch \in Seq(Event) /\ st.ch # <<>> /\ Len(st.ch) <= ChanCap /\ ChanCap \in Nat
      BY <1>1, <1>2
    <2> HIDE DEF st
    <2>2. /\ Tail(st.ch) \in Seq(Event) /\ Len(Tail(st.ch)) = Len(st.ch) - 1
          /\ Head(st.ch) \in Event
      BY <2>1, Shorter
    <2>3. Len(Tail(st.ch)) <= ChanCap
      BY <2>1, <2>2
    <2>4. Head(st.ch).no \in Nat
      BY <2>2 DEF Event
    <2>5. QED
      BY <2>2, <2>3, <2>4
  <1>4. CASE UNCHANGED subs /\ stream' = [stream EXCEPT ![s] = rest]
    <2>1. /\ rest \in Stream /\ rest.open = st.open /\ rest.dom = st.dom /\ rest.slow = st.slow
          /\ rest.ch = Tail(st.ch) /\ rest.replay = <<>> /\ rest.at = Head(st.ch).no
      BY <1>1, <1>2, <1>3 DEF Stream
    <2> HIDE DEF rest
    <2>2. Pending(s) = st.ch /\ <<>> \o Tail(st.ch) = Tail(st.ch)
      BY <1>1, <1>2, <1>3, JoinedTail
    <2>3. QED
      BY <1>1, <1>3, <1>4, <2>1, <2>2, SendStep
  <1>5. CASE Cancel(s)
    BY <1>1, <1>5, CancelStep
  <1>6. QED
    BY <1>1, <1>4, <1>5 DEF Send

---------------------------------------------------------------------------------
(* The theorems. *)

LEMMA HubInitInv == HubInit => HubIInv
  <1> SUFFICES ASSUME HubInit PROVE HubIInv
    OBVIOUS
  <1>1. Closed \in Stream /\ ~Closed.open /\ Closed.ch = <<>> /\ CapsAssumption
    BY ClosedFacts, CapsAssumption
  <1>2. HubInv
    BY <1>1 DEF HubInit, HubInv
  <1>3. \A d \in Sites : BufInv(d)
    BY <1>1 DEF HubInit, BufInv, Consecutive, CapsAssumption
  <1>4. \A s \in Streams : StreamInv(s)
    BY <1>1 DEF HubInit, StreamInv, CapsAssumption
  <1>5. QED
    BY <1>2, <1>3, <1>4 DEF HubIInv, HubInit

LEMMA HubNextInv == HubIInv /\ [HubNext]_hubVars => HubIInv'
  <1> SUFFICES ASSUME HubIInv, [HubNext]_hubVars PROVE HubIInv'
    OBVIOUS
  <1>1. ASSUME NEW d \in Sites, Begin(d) \/ Emit(d) \/ Finish(d)
        PROVE  HubIInv'
    BY <1>1, BeginStep, OperationStep
  <1>2. ASSUME NEW t \in timers, Expire(t) \/ Forget(t)
        PROVE  HubIInv'
    BY <1>2, ExpireStep, ForgetStep
  <1>3. ASSUME NEW s \in Streams, Replay(s) \/ Receive(s) \/ Leave(s) \/ \E d \in Sites : Subscribe(s, d)
        PROVE  HubIInv'
    <2>1. CASE Leave(s)
      BY <2>1, CancelStep DEF Leave
    <2>2. QED
      BY <1>3, <2>1, ReplayStep, ReceiveStep, SubscribeStep
  <1>4. CASE UNCHANGED hubVars
    BY <1>4 DEF hubVars, HubIInv, HubInv, BufInv, StreamInv, TimerInv
  <1>5. QED
    BY <1>1, <1>2, <1>3, <1>4 DEF HubNext

(* The invariant holds in every reachable state. *)
THEOREM HubInvariant == HubSpec => []HubIInv
  BY HubInitInv, HubNextInv, PTL DEF HubSpec

(* The hub's state has its type: no buffer and no channel is longer than its capacity, *)
(* and the channels of a domain are those of the streams open on it.                   *)
THEOREM HubTypeCorrect == HubSpec => []HubTypeOK
  <1>1. HubIInv => HubTypeOK
    BY DEF HubIInv, HubInv, BufInv, StreamInv, HubTypeOK
  <1>2. QED
    BY <1>1, HubInvariant, PTL

LEMMA NothingPending ==
  ASSUME HubIInv, NEW s \in Streams, ~stream[s].open
  PROVE  Len(Pending(s)) = 0
  <1>1. stream[s].replay = <<>> /\ stream[s].ch = <<>>
    BY ClosedFacts DEF HubIInv, StreamInv
  <1>2. QED
    BY <1>1 DEF Pending

(* Every client gets its domain's events in the order of the emissions and none twice, *)
(* and a buffer replays one run only (publish, forget, subscribe and DeployEvents).    *)
THEOREM OrderKept == HubSpec => []InOrder
  <1>1. ASSUME HubIInv PROVE InOrder
    <2>1. OneRunBuffered
      BY <1>1 DEF HubIInv, BufInv, OneRunBuffered
    <2>2. ASSUME NEW s \in Streams
          PROVE  Ordered(stream[s].at, Pending(s))
      <3>1. CASE stream[s].open
        BY <1>1, <3>1 DEF HubIInv, StreamInv, Goes, Pending
      <3>2. CASE ~stream[s].open
        BY <1>1, <3>2, NothingPending DEF Ordered
      <3>3. QED
        BY <3>1, <3>2
    <2>3. QED
      BY <2>1, <2>2 DEF InOrder, Ordered
  <1>2. QED
    BY <1>1, HubInvariant, PTL

(* A client whose channel was never full has sent or has yet to send every event from   *)
(* the first one it was replayed to the latest one emitted.                             *)
THEOREM NothingLost == HubSpec => []NothingMissed
  <1>1. ASSUME HubIInv PROVE NothingMissed
    BY <1>1 DEF HubIInv, StreamInv, Goes, Pending, NothingMissed
  <1>2. QED
    BY <1>1, HubInvariant, PTL

(* The action that StaleTimersSpare forbids to break. *)
Spares == \A d \in Sites :
  op[d].at = "running" /\ buffers[d] # <<>> /\ buffers'[d] = <<>> =>
    \E t \in timers \ timers' : t.dom = d /\ t.op \in overtaken[d]

LEMMA NeverEmptied ==
  ASSUME HubIInv, NEW d \in Sites, NEW ends \in BOOLEAN, Publish(d, ends)
  PROVE  buffers'[d] # <<>>
  <1> DEFINE ev == [no |-> clock[d] + 1, op |-> op[d].count, run |-> gen[d], last |-> ends]
             r == Append(buffers[d], ev)
  <1>1. /\ ev \in Event /\ buffers[d] \in Seq(Event) /\ BufCap \in Nat /\ BufCap > 0
        /\ buffers'[d] = KeepLatest(r)
    BY CapsAssumption DEF HubIInv, HubInv, Event, Publish
  <1> HIDE DEF ev
  <1>2. r \in Seq(Event) /\ Len(r) = Len(buffers[d]) + 1 /\ Len(buffers[d]) \in Nat
    BY <1>1, Appended
  <1> HIDE DEF r
  <1>3. CASE Len(r) <= BufCap
    BY <1>1, <1>2, <1>3 DEF KeepLatest
  <1>4. CASE Len(r) > BufCap
    <2>1. Len(r) - BufCap + 1 \in 1..Len(r)
      BY <1>1, <1>2, <1>4
    <2>2. Len(SubSeq(r, Len(r) - BufCap + 1, Len(r))) = BufCap
      BY <1>1, <1>2, <2>1, Cut
    <2>3. QED
      BY <1>1, <1>2, <1>4, <2>2 DEF KeepLatest
  <1>5. QED
    BY <1>1, <1>2, <1>3, <1>4

(* A retention timer of an older run never frees the buffer of the run in progress,     *)
(* unless another timer's forget had overtaken it (forget's comparison of generations). *)
THEOREM StaleTimersRight == HubSpec => StaleTimersSpare
  <1>1. ASSUME HubIInv, [HubNext]_hubVars PROVE Spares
    <2> SUFFICES ASSUME NEW d \in Sites, op[d].at = "running", buffers[d] # <<>>, buffers'[d] = <<>>
                 PROVE  \E t \in timers \ timers' : t.dom = d /\ t.op \in overtaken[d]
      BY DEF Spares
    <2>1. PICK t \in timers : Forget(t)
      <3>1. ASSUME NEW e \in Sites, Begin(e)
            PROVE  FALSE
        <4>1. e # d
          BY <3>1 DEF Begin
        <4>2. QED
          BY <1>1, <3>1, <4>1 DEF Begin, HubIInv, HubInv
      <3>2. ASSUME NEW e \in Sites, Emit(e) \/ Finish(e)
            PROVE  FALSE
        <4>1. Publish(e, TRUE) \/ Publish(e, FALSE)
          BY <3>2 DEF Emit, Finish
        <4>2. CASE e = d
          BY <1>1, <4>1, <4>2, NeverEmptied
        <4>3. CASE e # d
          BY <1>1, <4>1, <4>3 DEF Publish, HubIInv, HubInv
        <4>4. QED
          BY <4>2, <4>3
      <3>3. ASSUME NEW t \in timers, Expire(t)
            PROVE  FALSE
        BY <3>3 DEF Expire
      <3>4. ASSUME NEW s \in Streams, Replay(s) \/ Receive(s) \/ Leave(s) \/ \E e \in Sites : Subscribe(s, e)
            PROVE  FALSE
        BY <3>4 DEF Replay, Receive, Leave, Subscribe
      <3>5. CASE UNCHANGED hubVars
        BY <3>5 DEF hubVars
      <3>6. QED
        BY <1>1, <3>1, <3>2, <3>3, <3>4, <3>5 DEF HubNext
    <2>2. t.dom \in Sites /\ t.gen \in Nat /\ timers' = timers \ {t} /\ gen[d] \in Nat
      BY <1>1, <2>1 DEF Forget, HubIInv, HubInv, Timer
    <2>3. gen[t.dom] = t.gen /\ t.dom = d
      BY <1>1, <2>1, <2>2 DEF Forget, Free, HubIInv, HubInv
    <2>4. TimerInv(t)
      BY <1>1 DEF HubIInv
    <2>5. t.op \in overtaken[d]
      BY <2>2, <2>3, <2>4 DEF TimerInv
    <2>6. QED
      BY <2>2, <2>3, <2>5
  <1>2. HubSpec => [][Spares]_hubVars
    BY <1>1, HubInvariant, PTL DEF HubSpec
  <1>3. QED
    BY <1>2 DEF StaleTimersSpare, Spares

===================================================================================

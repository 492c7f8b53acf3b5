------------------------------ MODULE Deployments -------------------------------
(***************************************************************************)
(* Git deploys: Deploy, Rollback and the webhooks that trigger deploys,    *)
(* run by concurrent request goroutines. Three things must agree: the      *)
(* working tree of a site, the row of the deployments table that says what *)
(* was deployed, and what the site's containers see, whose bind mount pins *)
(* the directory they were started on.                                     *)
(*                                                                         *)
(* A commit is <<branch, n>>: the n-th of its branch, whose parent is the  *)
(* one before. Of the deployments of a site only the latest row is kept:   *)
(* no code reads an older one but to list it. The backup a deploy begins   *)
(* with is Backups'. Failing git or Docker calls are counted against       *)
(* MaxFaults; a branch that does not exist and a hook that fails are not   *)
(* failures of the environment.                                            *)
(***************************************************************************)
EXTENDS Naturals, Functions

CONSTANTS Domains,     \* site domains
          Repos,       \* those whose site was created from a repository
          Procs,       \* request goroutines
          Branches,    \* the branches a deploy may name
          Main,        \* the branch the sites record
          Cooldown,    \* webhookDeployCooldown, in ticks
          MaxCommits, MaxRows, MaxFaults, MaxCrashes   \* bounds

ASSUME ReposAssumption  == Domains # {} /\ Repos \subseteq Domains
ASSUME MainAssumption   == Main \in Branches
ASSUME DeployBoundsAssumption ==
  /\ Cooldown \in Nat \ {0} /\ MaxCommits \in Nat \ {0} /\ MaxRows \in Nat
  /\ MaxFaults \in Nat /\ MaxCrashes \in Nat

VARIABLES
  lock,     \* LockManager.locks: who works on a domain
  head,     \* the remote: the newest commit of each branch, 0 if there is no such branch
  tree,     \* the commit checked out in each site's directory
  wide,     \* does the checkout fetch every branch, or the site's own only?
  bound,    \* are the running containers bound to the directory that is there now?
  row,      \* the latest row of deployments
  last,     \* webhookLastDeploy, a map from some domains: how many ticks ago each was
  pc, job,  \* where each goroutine is, and its arguments and locals
  let,      \* history: as last, of the deploys let through within the cooldown, whoever forgets
  stray,    \* history: domains whose tree moved in an operation that never recorded it
  faults, crashes

git  == <<head, tree, wide, bound>>
web  == <<last, let>>
vars == <<lock, git, row, web, pc, job, stray, faults, crashes>>

Commits == Branches \X (1..MaxCommits)
NoTree  == <<Main, 0>>
NoRow   == [id |-> 0, commit |-> NoTree, status |-> "none"]
Row     == [id : 1..MaxRows, commit : Commits \cup {NoTree},
            status : {"pending", "success", "failed", "rolled_back"}]
NoJob   == [op |-> "none", dom |-> CHOOSE d \in Domains : TRUE, branch |-> Main, ref |-> 0,
            id |-> 0, commit |-> NoTree, hurt |-> FALSE]
Job     == [op : {"none", "deploy", "rollback", "push"}, dom : Domains, branch : Branches,
            ref : 0..MaxCommits, id : 0..MaxRows, commit : Commits \cup {NoTree}, hurt : BOOLEAN]
Old     == Cooldown + 1     \* older than that is all the same
Labels  == {"idle", "push", "acquire", "fetch", "reset", "wipe", "clone", "record", "back",
            "bounce", "hooks", "mark", "end"}

TypeOK ==
  /\ lock \in [Domains -> {"free", "deploying", "rolling back"}]
  /\ head \in [Branches -> 0..MaxCommits]
  /\ tree \in [Domains -> Commits \cup {NoTree}] /\ {wide, bound} \subseteq [Domains -> BOOLEAN]
  /\ row \in [Domains -> Row \cup {NoRow}]
  /\ \A f \in {last, let} : DOMAIN f \subseteq Domains /\ Range(f) \subseteq 0..Old
  /\ pc \in [Procs -> Labels] /\ job \in [Procs -> Job]
  /\ stray \subseteq Domains /\ faults \in 0..MaxFaults /\ crashes \in 0..MaxCrashes

(* Every site is there, created with `git clone --single-branch` and running; the   *)
(* remote has a first commit.                                                       *)
Init ==
  /\ lock = [d \in Domains |-> "free"]
  /\ head = [b \in Branches |-> IF b = Main THEN 1 ELSE 0]
  /\ tree = [d \in Domains |-> IF d \in Repos THEN <<Main, 1>> ELSE NoTree]
  /\ wide = [d \in Domains |-> FALSE] /\ bound = [d \in Domains |-> TRUE]
  /\ row = [d \in Domains |-> NoRow]
  /\ last = <<>> /\ let = <<>>
  /\ pc = [p \in Procs |-> "idle"] /\ job = [p \in Procs |-> NoJob]
  /\ stray = {} /\ faults = 0 /\ crashes = 0

---------------------------------------------------------------------------------
(* Helpers. *)

Dom(p) == job[p].dom
At(p, l) == pc[p] = l
Goto(p, l) == pc' = [pc EXCEPT ![p] = l]
Keep == UNCHANGED job
Works == UNCHANGED faults
Fault == faults < MaxFaults /\ faults' = faults + 1
Within(f, x, max) == f[x] < max /\ \A y \in DOMAIN f \ {x} : f[x] + f[y] < max   \* a bound
HasParentOrIsFirst(c) == c[2] > 0
HasParent(c) == c[2] > 1

(* UPDATE deployments SET status WHERE id: an older row is not in the model. *)
SetStatus(p, s) == LET d == Dom(p) IN
  row' = IF row[d].id = job[p].id /\ job[p].id # 0 THEN [row EXCEPT ![d].status = s] ELSE row

(* The handler answers; the deferred Release frees the lock an operation holds. *)
End(p) ==
  /\ At(p, "end") /\ Goto(p, "idle") /\ job' = [job EXCEPT ![p] = NoJob]
  /\ lock' = [lock EXCEPT ![Dom(p)] = "free"]
  /\ UNCHANGED <<git, row, web, stray, faults, crashes>>

---------------------------------------------------------------------------------
(* Deploy. *)

(* A second operation on the site answers Conflict and changes nothing. *)
Acquire(p, new, label, l) ==
  /\ Within([d \in Domains |-> row[d].id], new.dom, MaxRows)
  /\ lock[new.dom] = "free" /\ lock' = [lock EXCEPT ![new.dom] = label]
  /\ job' = [job EXCEPT ![p] = new] /\ Goto(p, l)
  /\ UNCHANGED <<git, row, web, stray, faults, crashes>>

Started(d) == IF d \in Repos THEN "fetch" ELSE "record"

BeginDeploy(p) == \E d \in Domains, b \in Branches :
  /\ At(p, "idle")
  /\ Acquire(p, [NoJob EXCEPT !.op = "deploy", !.dom = d, !.branch = b], "deploying", Started(d))

(* Fetch. There is nothing to fetch into on a first deploy, which goes on to clone; *)
(* a fetch that fails on a checkout refuses the deploy. A site's first checkout gets *)
(* its own branch and no other.                                                     *)
Fetch(p) == LET d == Dom(p) IN
  /\ At(p, "fetch")
  /\ \/ /\ tree[d] # NoTree /\ Works /\ Goto(p, "reset")
        /\ job' = [job EXCEPT ![p].ref = IF wide[d] \/ job[p].branch = Main THEN head[job[p].branch] ELSE 0]
     \/ tree[d] # NoTree /\ Fault /\ Keep /\ Goto(p, "end")
     \/ tree[d] = NoTree /\ Works /\ Keep /\ Goto(p, "wipe")
  /\ UNCHANGED <<lock, git, row, web, stray, crashes>>

(* git reset --hard origin/<branch>. A branch that was not fetched fails as a        *)
(* corrupt repository does: the tree is cloned again.                               *)
Reset(p) == LET d == Dom(p) IN
  /\ At(p, "reset") /\ Keep
  /\ \/ /\ job[p].ref > 0 /\ Works /\ Goto(p, "record")
        /\ tree' = [tree EXCEPT ![d] = <<job[p].branch, job[p].ref>>]
     \/ job[p].ref = 0 /\ Works /\ Goto(p, "wipe") /\ UNCHANGED tree
     \/ job[p].ref > 0 /\ Fault /\ Goto(p, "wipe") /\ UNCHANGED tree
  /\ UNCHANGED <<lock, head, wide, bound, row, web, stray, crashes>>

(* rm -rf of the site's directory: the containers keep the one they were started on. *)
Wipe(p) == LET d == Dom(p) IN
  /\ At(p, "wipe") /\ Goto(p, "clone") /\ Keep
  /\ tree' = [tree EXCEPT ![d] = NoTree] /\ bound' = [bound EXCEPT ![d] = FALSE]
  /\ UNCHANGED <<lock, head, wide, row, web, stray, faults, crashes>>

CloneTree(p) == LET d == Dom(p) b == job[p].branch IN
  /\ At(p, "clone") /\ Keep
  /\ \/ /\ head[b] > 0 /\ Works /\ Goto(p, "record")
        /\ tree' = [tree EXCEPT ![d] = <<b, head[b]>>] /\ wide' = [wide EXCEPT ![d] = TRUE]
     \/ head[b] = 0 /\ Works /\ Goto(p, "end") /\ UNCHANGED <<tree, wide>>
     \/ head[b] > 0 /\ Fault /\ Goto(p, "end") /\ UNCHANGED <<tree, wide>>
  /\ UNCHANGED <<lock, head, bound, row, web, stray, crashes>>

(* rev-parse HEAD and CreateDeployment; without a repository the commit is "". *)
RecordTo(p, l) == LET d == Dom(p) IN
  /\ At(p, "record")
  /\ \/ /\ Works /\ Goto(p, l)
        /\ row' = [row EXCEPT ![d] =
             [id |-> @.id + 1, commit |-> tree[d], status |-> "pending"]]
        /\ job' = [job EXCEPT ![p].id = row[d].id + 1, ![p].commit = tree[d]]
        /\ stray' = stray \ {d}
     \/ d \in Repos /\ Fault /\ Keep /\ Goto(p, "end") /\ stray' = stray \cup {d} /\ UNCHANGED row
  /\ UNCHANGED <<lock, git, web, crashes>>

RecordThenHooks(p) == RecordTo(p, "hooks")
Record(p) == RecordTo(p, "bounce")

(* Stop and start the containers, errors ignored: a start binds the directory anew. *)
Bounce(p) == LET d == Dom(p) IN
  /\ At(p, "bounce") /\ Goto(p, IF job[p].op = "rollback" THEN "mark" ELSE "hooks")
  /\ \/ Works /\ Keep /\ bound' = [bound EXCEPT ![d] = TRUE]
     \/ Fault /\ job' = [job EXCEPT ![p].hurt = TRUE] /\ UNCHANGED bound
  /\ UNCHANGED <<lock, head, tree, wide, row, web, stray, crashes>>

(* The before_deploy hooks, which may end the deploy, and the after_deploy hooks. *)
Hooks(p) ==
  /\ At(p, "hooks") /\ Goto(p, "end") /\ Keep
  /\ \E s \in {"failed", "success"} : SetStatus(p, s)
  /\ UNCHANGED <<lock, git, web, stray, faults, crashes>>

---------------------------------------------------------------------------------
(* Rollback. *)

BeginRollbackUnlocked(p) == \E d \in Domains :
  /\ At(p, "idle") /\ row[d] # NoRow /\ row[d].commit # NoTree /\ Goto(p, "back")
  /\ job' = [job EXCEPT ![p] = [NoJob EXCEPT !.op = "rollback", !.dom = d, !.id = row[d].id,
                                            !.commit = row[d].commit]]
  /\ UNCHANGED <<lock, git, row, web, stray, faults, crashes>>
(* GetLatestDeployment: whatever became of it. No deployment, nothing to roll back. *)
BeginRollback(p) == \E d \in Domains :
  /\ At(p, "idle")
  /\ Acquire(p, [NoJob EXCEPT !.op = "rollback", !.dom = d, !.id = row[d].id,
                             !.commit = row[d].commit], "rolling back",
             IF row[d] = NoRow THEN "end" ELSE IF row[d].commit = NoTree THEN "bounce" ELSE "back")

(* git reset --hard HEAD~1: from the commit that is checked out, not the recorded one. *)
Back(p) == LET d == Dom(p) IN
  /\ At(p, "back") /\ Keep
  /\ \/ /\ HasParent(tree[d]) /\ Works /\ Goto(p, "bounce")
        /\ tree' = [tree EXCEPT ![d][2] = @ - 1]
     \/ ~HasParent(tree[d]) /\ Works /\ Goto(p, "end") /\ UNCHANGED tree
     \/ HasParent(tree[d]) /\ Fault /\ Goto(p, "end") /\ UNCHANGED tree
  /\ UNCHANGED <<lock, head, wide, bound, row, web, stray, crashes>>

Mark(p) ==
  /\ At(p, "mark") /\ Goto(p, "end") /\ Keep /\ SetStatus(p, "rolled_back")
  /\ UNCHANGED <<lock, git, web, stray, faults, crashes>>

---------------------------------------------------------------------------------
(* Webhooks: every site has one. *)

(* HandleWebhook: the token's row names the site. *)
BeginPush(p) == \E d \in Domains :
  /\ At(p, "idle") /\ Goto(p, "push")
  /\ job' = [job EXCEPT ![p] = [NoJob EXCEPT !.op = "push", !.dom = d]]
  /\ UNCHANGED <<lock, git, row, web, stray, faults, crashes>>

Recent(d) == d \in DOMAIN last /\ last[d] < Cooldown
KeptTheOld == {d \in DOMAIN last : last[d] >= Cooldown}
Kept == {d \in DOMAIN last : last[d] <= Cooldown}
Began(f, d) == [e \in DOMAIN f \cup {d} |-> IF e = d THEN 0 ELSE f[e]]

(* Under webhookDeployMu: a push that comes too soon is acknowledged and dropped; another *)
(* one is let through, and the entries past the cooldown are evicted.                     *)
LetThrough(p) == LET d == Dom(p) IN
  /\ At(p, "push")
  /\ IF Recent(d)
     THEN Goto(p, "idle") /\ job' = [job EXCEPT ![p] = NoJob] /\ UNCHANGED <<last, let>>
     ELSE /\ Goto(p, "acquire") /\ Keep
          /\ let' = Began(let, d) /\ last' = Began(Restrict(last, Kept), d)
  /\ UNCHANGED <<lock, git, row, stray, faults, crashes>>

(* The deploy of the site's own branch, unless the site is busy: then the push fails, *)
(* and its cooldown has begun all the same.                                           *)
PushDeploy(p) == LET d == Dom(p) IN
  /\ At(p, "acquire")
  /\ \/ Acquire(p, [NoJob EXCEPT !.op = "deploy", !.dom = d], "deploying", Started(d))
     \/ /\ lock[d] # "free" /\ Goto(p, "idle") /\ job' = [job EXCEPT ![p] = NoJob]
        /\ UNCHANGED <<lock, git, row, web, stray, faults, crashes>>

---------------------------------------------------------------------------------
(* The world: commits are pushed to the remote, time passes, the daemon dies. *)

Commit(b) ==
  /\ Within(head, b, MaxCommits) /\ head' = [head EXCEPT ![b] = @ + 1]
  /\ UNCHANGED <<lock, tree, wide, bound, row, web, pc, job, stray, faults, crashes>>

Older(f) == [d \in DOMAIN f |-> IF f[d] < Old THEN f[d] + 1 ELSE Old]
Tick ==
  /\ last' = Older(last)
  /\ let' = Older(Restrict(let, {d \in DOMAIN let : let[d] + 1 < Cooldown}))
  /\ UNCHANGED <<lock, git, row, pc, job, stray, faults, crashes>>

(* Between the tree and the row that records it. *)
Unrecorded(p) == Dom(p) \in Repos /\ \/ pc[p] \in {"clone", "record"}
                                     \/ pc[p] \in {"bounce", "mark"} /\ job[p].op = "rollback"

(* Locks, the cooldown map and the goroutines are lost; containers come back on the *)
(* directory they were started on.                                                  *)
Crash ==
  /\ crashes < MaxCrashes /\ crashes' = crashes + 1
  /\ lock' = [d \in Domains |-> "free"] /\ last' = <<>> /\ let' = <<>>
  /\ stray' = stray \cup {Dom(p) : p \in {q \in Procs : Unrecorded(q)}}
  /\ pc' = [p \in Procs |-> "idle"] /\ job' = [p \in Procs |-> NoJob]
  /\ UNCHANGED <<git, row, faults>>

DeployStep(p) ==
  Fetch(p) \/ Reset(p) \/ Wipe(p) \/ CloneTree(p) \/ Record(p) \/ Bounce(p) \/ Hooks(p)
Step(p) ==
  DeployStep(p) \/ Back(p) \/ Mark(p) \/ LetThrough(p) \/ PushDeploy(p) \/ End(p)
Request(p) == BeginDeploy(p) \/ BeginRollback(p) \/ BeginPush(p)

Next ==
  \/ \E p \in Procs : Step(p) \/ Request(p)
  \/ \E b \in Branches : Commit(b)
  \/ Tick \/ Crash

Spec == Init /\ [][Next]_vars

---------------------------------------------------------------------------------
(* What it is for. *)

(* The hooks of a deploy run in containers that see the tree this deploy checked out, *)
(* even where it had to clone it anew (deploy.go: restart BEFORE running hooks); only *)
(* a restart that failed under it excuses an old directory.                           *)
HooksSeeTheirCommit == \A p \in Procs : At(p, "hooks") /\ ~job[p].hurt =>
  bound[Dom(p)] /\ tree[Dom(p)] = job[p].commit

(* On a site nobody works on, the latest deployment says what is checked out: its     *)
(* commit, or an older one of its branch once it was rolled back, however deploys,    *)
(* rollbacks and pushes raced and whatever failed. Only an operation that died        *)
(* between the tree and the row, or one that lost the tree, leaves them apart; and    *)
(* only a crash leaves a deployment pending.                                          *)
RowsTellTheTree == \A d \in Domains : lock[d] = "free" /\ row[d] # NoRow =>
  /\ row[d].status = "pending" => crashes > 0
  /\ d \notin stray /\ tree[d] # NoTree =>
       IF row[d].status = "rolled_back"
       THEN tree[d][1] = row[d].commit[1] /\ tree[d][2] < row[d].commit[2]
       ELSE tree[d] = row[d].commit

(* However many pushes of a site arrive, two of them never let a deploy through       *)
(* within the cooldown, and evicting entries of the map never shortens it.            *)
DeploysSpaced == [][\A p \in Procs : At(p, "push") /\ pc'[p] = "acquire" => Dom(p) \notin DOMAIN let]_vars

(* What deploy.go says of a deploy that cannot get the code: refuse it rather than    *)
(* wipe a working tree we cannot yet replace. It does not hold of a branch the remote *)
(* does not have: the reset fails, the tree is removed, and the clone fails too.      *)
TreeSurvives == faults = 0 /\ crashes = 0 =>
  \A d \in Repos : lock[d] = "free" => tree[d] # NoTree
=================================================================================

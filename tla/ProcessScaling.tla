----------------------------- MODULE ProcessScaling ------------------------------
(***************************************************************************)
(* The replicas of one worker service of a native site: ScaleProcess and   *)
(* the operations that handle every container of the site, one at a time   *)
(* under the site's lock, call by call against an external Docker.         *)
(* Replica 0 is the template the others are cloned from.                   *)
(***************************************************************************)
EXTENDS Naturals, FiniteSets

CONSTANTS MaxReplicas,  \* the most replicas a worker scales to (20)
          Default,      \* the driver's replica count
          NoOverride,   \* no row in process_scaling
          MaxTroubles   \* bound on failed calls and daemon crashes

ASSUME ReplicasAssumption == MaxReplicas \in Nat /\ Default \in 1..MaxReplicas
ASSUME OverrideAssumption == NoOverride \notin Nat
ASSUME TroublesAssumption == MaxTroubles \in Nat

VARIABLES
  box,         \* Docker: the state of the container of each replica index
  want,        \* process_scaling: the recorded override
  label, task, \* where the operation is, and its arguments and cursor
  troubles     \* failed calls and crashes so far

scalingVars == <<box, want, label, task, troubles>>

Indexes == 0..(MaxReplicas + 1)
Each    == {"starting", "stopping", "restarting", "updating", "deploying"}
NoTask  == [op |-> "none", n |-> 0, i |-> 0, todo |-> {}, smooth |-> TRUE]
Task    == [op : Each \cup {"none", "scaling"}, n : 0..MaxReplicas, i : Indexes,
            todo : SUBSET Indexes, smooth : BOOLEAN]

Existing == {i \in Indexes : box[i] # "absent"}
Running  == {i \in Indexes : box[i] = "running"}

(* No replica has an index past those a scale may ask for. *)
ScalingTypeOK ==
  /\ box \in [Indexes -> {"absent", "stopped", "running"}]
  /\ Existing \subseteq 0..(MaxReplicas - 1)
  /\ want \in 0..MaxReplicas \cup {NoOverride}
  /\ label \in {"idle", "base", "up", "extras", "record", "each", "scaled"}
  /\ task \in Task /\ troubles \in Nat

(* resolveReplicas of a worker nobody scaled: what CreateSite started. *)
ScalingInit ==
  /\ box = [i \in Indexes |-> IF i < Default THEN "running" ELSE "absent"]
  /\ want = NoOverride /\ label = "idle" /\ task = NoTask /\ troubles = 0

---------------------------------------------------------------------------------
(* Helpers. *)

Set(i, s) == box' = [box EXCEPT ![i] = s]
Trouble == troubles < MaxTroubles /\ troubles' = troubles + 1
Fine == UNCHANGED troubles
ScalingAt(l) == label = l
Cursor(i) == task' = [task EXCEPT !.i = i]

(* An error ends the operation, and the lock is released. *)
Abort == label' = "idle" /\ task' = NoTask

---------------------------------------------------------------------------------
(* ScaleProcess: reconcileService, then the record. *)

AcceptedToo(n) == n <= MaxReplicas + 1
Accepted(n) == n <= MaxReplicas

(* The replicas in excess start here; never at the template. *)
FromTheNext(n) == n + 1
FirstExtra(n) == IF n < 1 THEN 1 ELSE n

(* Nothing hides a replica in excess from a walk upward from the first one. *)
Reachable(n) == \A i \in Existing : FirstExtra(n)..i \subseteq Existing

BeginScaleRecorded(n) ==
  /\ ScalingAt("idle") /\ Accepted(n) /\ label' = "base" /\ want' = n
  /\ task' = [NoTask EXCEPT !.op = "scaling", !.n = n, !.smooth = Reachable(n)]
  /\ UNCHANGED box /\ Fine
BeginScale(n) ==
  /\ ScalingAt("idle") /\ Accepted(n) /\ label' = "base"
  /\ task' = [NoTask EXCEPT !.op = "scaling", !.n = n, !.smooth = Reachable(n)]
  /\ UNCHANGED <<box, want>> /\ Fine

(* Without its template a worker cannot be scaled. To 0 it is stopped (an error is ignored) *)
(* and kept, otherwise it is started and inspected.                                         *)
Base ==
  /\ ScalingAt("base") /\ UNCHANGED want
  /\ \/ 0 \notin Existing /\ Abort /\ UNCHANGED box /\ Fine
     \/ /\ 0 \in Existing /\ task.n = 0 /\ label' = "extras"
        /\ \/ Set(0, "stopped") /\ Cursor(FirstExtra(0)) /\ Fine
           \/ /\ Trouble /\ UNCHANGED box
              /\ task' = [task EXCEPT !.i = FirstExtra(0), !.smooth = FALSE]
     \/ 0 \in Existing /\ task.n > 0 /\ Set(0, "running") /\ Cursor(1) /\ label' = "up" /\ Fine
     \/ 0 \in Existing /\ Abort /\ Trouble /\ (UNCHANGED box \/ (task.n > 0 /\ Set(0, "running")))

(* Replica i is started, or cloned from the template and started. *)
Up == LET i == task.i IN
  /\ ScalingAt("up") /\ i < task.n /\ UNCHANGED want
  /\ \/ Set(i, "running") /\ Cursor(i + 1) /\ UNCHANGED label /\ Fine
     \/ Abort /\ Trouble /\ (UNCHANGED box \/ (box[i] = "absent" /\ Set(i, "stopped")))

UpDone ==
  /\ ScalingAt("up") /\ task.i >= task.n /\ label' = "extras"
  /\ Cursor(FirstExtra(task.n)) /\ UNCHANGED <<box, want>> /\ Fine

(* removeExtras: upward from the first index too many, to the first that is not there. A    *)
(* failed inspection reads as not there; a container that cannot be removed ends the scale. *)
Extras == LET i == task.i IN
  /\ ScalingAt("extras") /\ UNCHANGED want
  /\ \/ i \in Existing /\ Set(i, "absent") /\ Cursor(i + 1) /\ UNCHANGED label /\ Fine
     \/ i \notin Existing /\ label' = "record" /\ UNCHANGED <<box, task>> /\ Fine
     \/ /\ Trouble /\ label' = "record" /\ UNCHANGED box
        /\ task' = [task EXCEPT !.smooth = FALSE]
     \/ i \in Existing /\ Trouble /\ Abort /\ (UNCHANGED box \/ Set(i, "stopped"))

(* SetProcessReplicas. *)
Record ==
  /\ ScalingAt("record") /\ want' = task.n /\ label' = "scaled"
  /\ UNCHANGED <<box, task>> /\ Fine

EndScale == ScalingAt("scaled") /\ Abort /\ UNCHANGED <<box, want>> /\ Fine

---------------------------------------------------------------------------------
(* StartSite, StopSite, RestartProcess, UpdateSite and Deploy, container by container. *)

BeginEach(op) ==
  /\ ScalingAt("idle") /\ label' = "each"
  /\ task' = [NoTask EXCEPT !.op = op, !.todo = Existing]
  /\ UNCHANGED <<box, want>> /\ Fine

Did(i) == task' = [task EXCEPT !.todo = @ \ {i}]

(* An update stops, removes, creates and starts each container, stopped ones too; a deploy *)
(* stops and starts each and ignores errors; of the others an error is the end.            *)
One(i) ==
  /\ ScalingAt("each") /\ i \in task.todo /\ UNCHANGED want
  /\ \/ /\ Set(i, IF task.op = "stopping" THEN "stopped" ELSE "running")
        /\ Did(i) /\ UNCHANGED label /\ Fine
     \/ task.op = "deploying" /\ Trouble /\ Set(i, "stopped") /\ Did(i) /\ UNCHANGED label
     \/ task.op \in {"restarting", "updating"} /\ Trouble /\ Abort /\ Set(i, "stopped")
     \/ task.op = "updating" /\ Trouble /\ Abort /\ Set(i, "absent")
     \/ task.op # "deploying" /\ Trouble /\ Abort /\ UNCHANGED box

EachDone == ScalingAt("each") /\ task.todo = {} /\ Abort /\ UNCHANGED <<box, want>> /\ Fine

(* The daemon dies: the operation is gone, what it did so far stays. *)
Crash == ~ScalingAt("idle") /\ Trouble /\ Abort /\ UNCHANGED <<box, want>>

Scale == Base \/ Up \/ UpDone \/ Extras \/ Record \/ EndScale
ScalingNext ==
  \/ Scale \/ EachDone \/ Crash
  \/ \E n \in 0..(MaxReplicas + 1) : BeginScale(n)
  \/ \E op \in Each : BeginEach(op)
  \/ \E i \in Indexes : One(i)

ScalingSpec == ScalingInit /\ [][ScalingNext]_scalingVars
---------------------------------------------------------------------------------
(* What it is for. *)

(* An override is recorded only when all the replicas it asks for run, so a scale that *)
(* fails on the way never leaves a record of more than there are (ScaleProcess).       *)
RecordFollowsReplicas == [][want' # want => 0..(want' - 1) \subseteq Running']_scalingVars

(* Whatever fails, a scale keeps the template: a worker paused at 0 can be scaled up   *)
(* again (reconcileService).                                                          *)
ScaleKeepsTemplate == [][task.op = "scaling" /\ 0 \in Existing => 0 \in Existing']_scalingVars

(* A scale that succeeds leaves exactly the replicas it was asked for, also on what    *)
(* failed operations and crashes left before it, provided that no call it makes fails  *)
(* and no gap hides a replica in excess from removeExtras.                             *)
ExactWhenSmooth == ScalingAt("scaled") /\ task.smooth =>
  IF task.n = 0 THEN Existing = {0} /\ Running = {}
  ELSE Running = 0..(task.n - 1) /\ Existing = Running

=================================================================================

------------------------------ MODULE SiteContract ------------------------------
(***************************************************************************)
(* What the engine promises about one domain, without saying how: at most  *)
(* one operation works on a domain at a time, it always ends, and what it  *)
(* leaves behind depends only on the operation and on what it found.       *)
(* Operations are tagged with the label they hand to LockManager.Acquire.  *)
(* SiteLifecycle is the detailed specification that implements this one.   *)
(***************************************************************************)
EXTENDS Naturals

CONSTANTS Domains,      \* site domains
          Ops           \* the labels of the operations that take a site's lock

VARIABLES
  busy,   \* the operation that holds each domain, or "free"
  phase,  \* what a domain looked like when it was last free
  hurt,   \* has a call to Docker, git or compose failed inside the operation?
  boots   \* how often the daemon came back: only a restart excuses a lost operation

cvars == <<busy, phase, hurt, boots>>

(***************************************************************************)
(*   none   no record, no container, no site network                       *)
(*   up     recorded as running, every container up, routed by Traefik     *)
(*   down   recorded as stopped, every container present and stopped       *)
(*   mixed  anything else: the record and Docker disagree                  *)
(***************************************************************************)
Phases == {"none", "up", "down", "mixed"}

CTypeOK ==
  /\ busy  \in [Domains -> Ops \cup {"free"}]
  /\ phase \in [Domains -> Phases]
  /\ hurt  \in [Domains -> BOOLEAN]
  /\ boots \in Nat

(* What an operation in which nothing failed may leave, by what it found. *)
Outcome(op, found) ==
  CASE op = "provisioning" ->
         (CASE found = "none"  -> {"none", "up"}   \* refused or rolled back, or live
            [] found = "mixed" -> {"none", "mixed", "up"}
            [] OTHER           -> {found})         \* a live site is never taken over
    [] op = "destroying" ->
         IF found = "mixed" THEN {"none", "mixed"} ELSE {"none"}
    [] op \in {"starting", "restarting"} ->
         (CASE found = "none"  -> {"none"}
            [] found = "mixed" -> {"mixed", "up"}
            [] OTHER           -> {"up"})
    [] op = "stopping" ->
         (CASE found = "none"  -> {"none"}
            [] found = "mixed" -> {"mixed", "down"}
            [] OTHER           -> {"down"})
    [] op \in {"updating", "deploying", "rolling back"} ->
         (CASE found = "none"  -> {"none"}
            [] found = "up"    -> {"up"}
            [] found = "mixed" -> {"mixed", "up"}
            [] found = "down"  -> {"down", "mixed"})  \* bounced, still recorded as stopped
    [] OTHER -> {found}

CInit ==
  /\ busy  = [d \in Domains |-> "free"]
  /\ phase = [d \in Domains |-> "none"]
  /\ hurt  = [d \in Domains |-> FALSE]
  /\ boots = 0

Begin(d) ==
  /\ busy[d] = "free"
  /\ \E op \in Ops : busy' = [busy EXCEPT ![d] = op]
  /\ UNCHANGED <<phase, hurt, boots>>

Hurt(d) ==
  /\ busy[d] # "free"
  /\ hurt' = [hurt EXCEPT ![d] = TRUE]
  /\ UNCHANGED <<busy, phase, boots>>

End(d) ==
  /\ busy[d] # "free"
  /\ busy' = [busy EXCEPT ![d] = "free"]
  /\ hurt' = [hurt EXCEPT ![d] = FALSE]
  /\ \E new \in IF hurt[d] THEN Phases ELSE Outcome(busy[d], phase[d]) :
        phase' = [phase EXCEPT ![d] = new]
  /\ UNCHANGED boots

(* The daemon dies: operations vanish, and what they were touching is left as it is. *)
Crash ==
  /\ boots' = boots + 1
  /\ busy' = [d \in Domains |-> "free"]
  /\ hurt' = [d \in Domains |-> FALSE]
  /\ phase' \in [Domains -> Phases]
  /\ \A d \in Domains : busy[d] = "free" => phase'[d] = phase[d]

CNext == Crash \/ \E d \in Domains : Begin(d) \/ Hurt(d) \/ End(d)

CSpec == CInit /\ [][CNext]_cvars /\ \A d \in Domains : WF_cvars(End(d))
=================================================================================

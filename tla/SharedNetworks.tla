----------------------------- MODULE SharedNetworks ------------------------------
(***************************************************************************)
(* Shared networks: named Docker bridges whose member sites reach each     *)
(* other. Joining and leaving one, creating and deleting one, and handing  *)
(* a site to another owner take no lock; the operations that start or      *)
(* recreate containers hold the lock of their site and attach them again   *)
(* to what the membership rows say. Docker is external. SiteLifecycle has  *)
(* what the operations on a site do besides.                               *)
(***************************************************************************)
EXTENDS Naturals, FiniteSets

CONSTANTS Sites, Nets, Owners,
          Slots,      \* the containers a site may have: its base and its replicas
          Base,       \* the one CreateSite starts and a scale never removes
          Nobody,     \* the owner of what does not exist
          Procs,      \* request goroutines
          MaxTroubles \* bound on failed calls

ASSUME SlotsAssumption    == Base \in Slots
ASSUME NobodyAssumption   == Nobody \notin Owners
ASSUME TroublesAssumption == MaxTroubles \in Nat

VARIABLES
  lock,     \* the sites whose lock is held
  owner,    \* the sites table: the owner of each site
  netOwner, \* the shared_networks table
  member,   \* the shared_network_members table: <<network, site>>
  box,      \* Docker: the state of each container of each site
  bridge,   \* Docker: the shared networks there are
  link,     \* Docker: <<network, site, container>> of each endpoint
  pc, job,
  excuse,   \* <<site, why>> its links may differ from its rows (history)
  troubles

tables == <<owner, netOwner, member>>
docker == <<box, bridge, link>>
vars   == <<lock, tables, docker, pc, job, excuse, troubles>>

Whys   == {"overlap", "kept", "missed", "bounced"}
Idle   == [op |-> "none", site |-> Nobody, net |-> Nobody, who |-> Nobody, todo |-> {}, seen |-> {}]
Links  == {"join", "start", "update", "scale"}
Cuts   == {"leave", "transfer", "destroy", "create"}
Locked == {"create", "destroy", "start", "stop", "update", "scale", "bounce"}
Labels == {"idle", "locked", "remake", "nets", "list", "connect", "done", "insert", "cut",
           "remove", "owner", "forget", "delete", "rollback", "unrow", "ensure", "unwind", "unbridge"}

(* Besides the types: a site is locked exactly while an operation that locks it is under  *)
(* way, whatever error it ends with, and endpoints are those of containers there are.     *)
TypeOK ==
  /\ lock \subseteq Sites /\ bridge \subseteq Nets
  /\ owner    \in [Sites -> Owners \cup {Nobody}]
  /\ netOwner \in [Nets -> Owners \cup {Nobody}]
  /\ member \subseteq Nets \X Sites /\ link \subseteq Nets \X Sites \X Slots
  /\ box \in [Sites -> [Slots -> {"absent", "stopped", "running"}]]
  /\ \A l \in link : l[1] \in bridge /\ box[l[2]][l[3]] # "absent"
  /\ pc \in [Procs -> Labels] /\ lock = {job[p].site : p \in {p \in Procs : job[p].op \in Locked}}
  /\ \A p \in Procs : pc[p] = "idle" <=> job[p] = Idle
  /\ excuse \subseteq Sites \X Whys /\ troubles \in 0..MaxTroubles

Init ==
  /\ lock = {} /\ member = {} /\ bridge = {} /\ link = {} /\ excuse = {} /\ troubles = 0
  /\ owner = [d \in Sites |-> Nobody] /\ netOwner = [n \in Nets |-> Nobody]
  /\ box = [d \in Sites |-> [s \in Slots |-> "absent"]]
  /\ pc = [p \in Procs |-> "idle"] /\ job = [p \in Procs |-> Idle]

---------------------------------------------------------------------------------
(* Helpers. *)

At(p, l)   == pc[p] = l
Goto(p, l) == pc' = [pc EXCEPT ![p] = l]
Op(p)      == job[p].op
Site(p)    == job[p].site
Net(p)     == job[p].net
Fine       == UNCHANGED troubles
Trouble    == troubles < MaxTroubles /\ troubles' = troubles + 1
Blame(d, why) == excuse' = excuse \cup {<<d, why>>}

Existing(d) == {s \in Slots : box[d][s] # "absent"}
Running(d)  == {s \in Slots : box[d][s] = "running"}
NetsOf(d)   == {n \in Nets : <<n, d>> \in member}
Members(n)  == {d \in Sites : <<n, d>> \in member}

Linking(d) == \E p \in Procs : Op(p) \in Links /\ Site(p) = d
Cutting(d) == \E p \in Procs : (Op(p) \in Cuts /\ Site(p) = d) \/ Op(p) \in {"delete", "newnet"}

(* An operation that links a site overlaps one that cuts it off, or changes a network.     *)
Overlap(op, d) ==
  excuse' = excuse \cup
    {<<e, "overlap">> : e \in {e \in Sites : \/ op \in Links /\ e = d /\ Cutting(e)
                                             \/ op \in Cuts /\ e = d /\ Linking(e)
                                             \/ op \in {"delete", "newnet"} /\ Linking(e)}}

Begin(p, op, d, n, o, l) ==
  /\ At(p, "idle") /\ Goto(p, l) /\ Overlap(op, d)
  /\ job' = [job EXCEPT ![p] = [Idle EXCEPT !.op = op, !.site = d, !.net = n, !.who = o]]
  /\ UNCHANGED <<tables, docker>> /\ Fine

ReturnHolding(p) ==
  /\ pc' = [pc EXCEPT ![p] = "idle"] /\ job' = [job EXCEPT ![p] = Idle] /\ UNCHANGED lock
(* An operation returns; the ones that took the lock release it. *)
Return(p) ==
  /\ pc' = [pc EXCEPT ![p] = "idle"] /\ job' = [job EXCEPT ![p] = Idle]
  /\ lock' = IF Op(p) \in Locked THEN lock \ {Site(p)} ELSE lock

End(p) == At(p, "done") /\ Return(p) /\ UNCHANGED <<tables, docker, excuse>> /\ Fine

(* Containers S of the site get state s; those that are removed lose their endpoints. *)
Set(d, S, s) ==
  /\ box' = [box EXCEPT ![d] = [c \in Slots |-> IF c \in S THEN s ELSE @[c]]]
  /\ link' = IF s = "absent" THEN {l \in link : ~(l[2] = d /\ l[3] \in S)} ELSE link
  /\ UNCHANGED bridge

---------------------------------------------------------------------------------
(* Operations that make or start containers, under the lock of their site. *)

BeginLocked(p, op, d, o, l) == d \notin lock /\ lock' = lock \cup {d} /\ Begin(p, op, d, Nobody, o, l)

(* An error in the middle: some of the containers changed, and nothing attaches them. *)
Abort(p) == Trouble /\ Blame(Site(p), "missed") /\ Return(p) /\ UNCHANGED tables

(* CreateSite: the row first, then the containers. *)
BeginCreate(p, d, o) == owner[d] = Nobody /\ BeginLocked(p, "create", d, o, "insert")

InsertSite(p) ==
  /\ At(p, "insert") /\ Op(p) = "create" /\ Goto(p, "locked")
  /\ owner' = [owner EXCEPT ![Site(p)] = job[p].who]
  /\ UNCHANGED <<lock, netOwner, member, docker, job, excuse>> /\ Fine

Provision(p) ==
  /\ At(p, "locked") /\ Op(p) = "create" /\ UNCHANGED <<lock, tables, job, excuse>>
  /\ \/ Set(Site(p), {Base}, "running") /\ Goto(p, "done") /\ Fine
     \/ Trouble /\ Goto(p, "rollback") /\ (UNCHANGED docker \/ Set(Site(p), {Base}, "stopped"))

(* StartSite, and the start of RestartSite: every container, then the links. *)
BeginStart(p, d) == owner[d] # Nobody /\ BeginLocked(p, "start", d, Nobody, "locked")

Start(p) == LET d == Site(p) IN
  /\ At(p, "locked") /\ Op(p) = "start"
  /\ \/ Set(d, Existing(d), "running") /\ Goto(p, "nets") /\ UNCHANGED <<lock, tables, job, excuse>> /\ Fine
     \/ \E S \in SUBSET Existing(d) : Set(d, S, "running") /\ Abort(p)

(* StopSite: endpoints stay with a stopped container. *)
BeginStop(p, d) == owner[d] # Nobody /\ BeginLocked(p, "stop", d, Nobody, "locked")

Stop(p) ==
  /\ At(p, "locked") /\ Op(p) = "stop" /\ Set(Site(p), Existing(Site(p)), "stopped")
  /\ Goto(p, "done") /\ UNCHANGED <<lock, tables, job, excuse>> /\ Fine

(* UpdateSite: containers are removed (a compose update: the changed ones) and recreated. *)
BeginUpdate(p, d) == owner[d] # Nobody /\ BeginLocked(p, "update", d, Nobody, "locked")

Remove(p) == LET d == Site(p) IN
  /\ At(p, "locked") /\ Op(p) = "update"
  /\ \E S \in SUBSET Existing(d) :
       /\ Set(d, S, "absent") /\ job' = [job EXCEPT ![p].seen = S] /\ Goto(p, "remake")
  /\ UNCHANGED <<lock, tables, excuse>> /\ Fine

Recreate(p) == LET d == Site(p) IN
  /\ At(p, "remake")
  /\ \/ /\ Set(d, Existing(d) \cup job[p].seen, "running") /\ Goto(p, "nets")
        /\ UNCHANGED <<lock, tables, job, excuse>> /\ Fine
     \/ \E S \in SUBSET job[p].seen : Set(d, S, "running") /\ Abort(p)

(* ScaleProcess to the containers of T: the base is stopped or started, never removed. *)
BeginScale(p, d) == owner[d] # Nobody /\ BeginLocked(p, "scale", d, Nobody, "locked")

Scaled(d, T) ==
  /\ box' = [box EXCEPT ![d] = [c \in Slots |-> IF c \in T THEN "running"
                                                ELSE IF c = Base THEN "stopped" ELSE "absent"]]
  /\ link' = {l \in link : l[2] = d => l[3] \in T \cup {Base}}
  /\ UNCHANGED bridge

Scale(p) == LET d == Site(p) IN
  /\ At(p, "locked") /\ Op(p) = "scale"
  /\ \/ Base \notin Existing(d) /\ Return(p) /\ UNCHANGED <<tables, docker, excuse>> /\ Fine
     \/ /\ Base \in Existing(d)
        /\ \E T \in {T \in SUBSET Slots : T = {} \/ Base \in T} :
             \/ Scaled(d, T) /\ Goto(p, "nets") /\ UNCHANGED <<lock, tables, job, excuse>> /\ Fine
             \/ Scaled(d, T) /\ Abort(p)

(* Deploy, Rollback and RestartProcess stop and start the containers there are. *)
BeginBounce(p, d) == owner[d] # Nobody /\ BeginLocked(p, "bounce", d, Nobody, "locked")

Bounce(p) == LET d == Site(p) IN
  /\ At(p, "locked") /\ Op(p) = "bounce" /\ Set(d, Existing(d), "running") /\ Goto(p, "done")
  /\ IF Existing(d) = Running(d) THEN UNCHANGED excuse ELSE Blame(d, "bounced")
  /\ UNCHANGED <<lock, tables, job>> /\ Fine

---------------------------------------------------------------------------------
(* reconnectSharedNetworks and connectSiteToNetwork. *)

(* ListSiteNetworks: what the rows say now is what will be linked. *)
NetsSkipped(p) ==
  /\ At(p, "nets") /\ Op(p) # "transfer" /\ Goto(p, "done")
  /\ UNCHANGED <<lock, tables, docker, job, excuse>> /\ Fine
Reconnect(p) == LET d == Site(p) IN
  /\ At(p, "nets") /\ Op(p) # "transfer" /\ Goto(p, "list")
  /\ job' = [job EXCEPT ![p].todo = NetsOf(d) \X {d}]
  /\ excuse' = excuse \ {<<d, "missed">>, <<d, "bounced">>}
  /\ UNCHANGED <<lock, tables, docker>> /\ Fine

(* EnsureNetwork, and the running containers of the site as they are now. *)
List(p) ==
  /\ At(p, "list") /\ job[p].todo # {}
  /\ \E t \in job[p].todo :
       \/ /\ bridge' = bridge \cup {t[1]} /\ Goto(p, "connect") /\ Fine
          /\ job' = [job EXCEPT ![p].net = t[1], ![p].seen = Running(t[2]), ![p].todo = @ \ {t}]
          /\ UNCHANGED excuse
       \/ /\ Trouble /\ Blame(t[2], "missed") /\ UNCHANGED <<bridge, pc>>
          /\ job' = [job EXCEPT ![p].todo = @ \ {t}]
  /\ UNCHANGED <<lock, tables, box, link>>

(* A container that stopped or went since is not attached, and none when the bridge went. *)
Connect(p) == LET d == Site(p) n == Net(p) IN
  /\ At(p, "connect") /\ Goto(p, "list")
  /\ \/ /\ link' = link \cup (IF n \in bridge THEN {n} \X {d} \X (job[p].seen \cap Running(d)) ELSE {})
        /\ UNCHANGED excuse /\ Fine
     \/ Trouble /\ Blame(d, "missed") /\ UNCHANGED link
  /\ UNCHANGED <<lock, tables, box, bridge, job>>

Connected(p) ==
  /\ At(p, "list") /\ job[p].todo = {} /\ Goto(p, "done")
  /\ UNCHANGED <<lock, tables, docker, job, excuse>> /\ Fine

---------------------------------------------------------------------------------
(* AddSiteToNetwork and RemoveSiteFromNetwork; an administrator passes the handlers' checks. *)

(* The owners are compared as they are now. *)
BeginJoin(p, n, d) ==
  /\ netOwner[n] # Nobody /\ owner[d] # Nobody /\ owner[d] = netOwner[n]
  /\ Begin(p, "join", d, n, Nobody, "insert") /\ UNCHANGED lock

(* AddNetworkMember: an insert nothing refers to, into whatever is there by then. *)
InsertMember(p) ==
  /\ At(p, "insert") /\ Op(p) = "join" /\ Goto(p, "list")
  /\ member' = member \cup {<<Net(p), Site(p)>>}
  /\ job' = [job EXCEPT ![p].todo = {<<Net(p), Site(p)>>}]
  /\ UNCHANGED <<lock, owner, netOwner, docker, excuse>> /\ Fine

BeginLeave(p, n, d) ==
  /\ netOwner[n] # Nobody /\ Begin(p, "leave", d, n, Nobody, "remove") /\ UNCHANGED lock

DeleteMember(p) ==
  /\ At(p, "remove") /\ Op(p) = "leave" /\ Goto(p, "cut")
  /\ member' = member \ {<<Net(p), Site(p)>>}
  /\ job' = [job EXCEPT ![p].todo = {<<Net(p), Site(p)>>}]
  /\ UNCHANGED <<lock, owner, netOwner, docker, excuse>> /\ Fine

(* disconnectSiteFromNetwork: every container, stopped ones too; a failed call is logged. *)
Cut(p) ==
  /\ At(p, "cut")
  /\ \E t \in job[p].todo :
       /\ job' = [job EXCEPT ![p].todo = @ \ {t}]
       /\ \/ link' = link \ ({t[1]} \X {t[2]} \X Slots) /\ UNCHANGED excuse /\ Fine
          \/ Trouble /\ Blame(t[2], "kept") /\ UNCHANGED link
  /\ UNCHANGED <<lock, tables, box, bridge, pc>>

(* What follows when every member was disconnected. *)
CutDone(p) ==
  /\ At(p, "cut") /\ job[p].todo = {}
  /\ Goto(p, CASE Op(p) = "leave" -> "done" [] Op(p) = "transfer" -> "remove" [] OTHER -> "delete")
  /\ UNCHANGED <<lock, tables, docker, job, excuse>> /\ Fine

---------------------------------------------------------------------------------
(* TransferSite: leaveAllSharedNetworks before the owner changes; no lock. *)

BeginTransferStays(p, d, o) ==
  /\ owner[d] # Nobody /\ Begin(p, "transfer", d, Nobody, o, "owner") /\ UNCHANGED lock
BeginTransfer(p, d, o) ==
  /\ owner[d] # Nobody
  /\ Begin(p, "transfer", d, Nobody, o, IF o = owner[d] THEN "owner" ELSE "nets") /\ UNCHANGED lock

LeaveAll(p) ==
  /\ At(p, "nets") /\ Op(p) = "transfer" /\ Goto(p, "cut")
  /\ job' = [job EXCEPT ![p].todo = NetsOf(Site(p)) \X {Site(p)}]
  /\ UNCHANGED <<lock, tables, docker, excuse>> /\ Fine

LeftAll(p) ==
  /\ At(p, "remove") /\ Op(p) = "transfer" /\ Goto(p, "owner")
  /\ member' = member \ (Nets \X {Site(p)})
  /\ UNCHANGED <<lock, owner, netOwner, docker, job, excuse>> /\ Fine

(* UpdateSiteOwner; there may be no row, or another site's. *)
SetOwner(p) == LET d == Site(p) IN
  /\ At(p, "owner") /\ Goto(p, "done")
  /\ owner' = [owner EXCEPT ![d] = IF @ = Nobody THEN @ ELSE job[p].who]
  /\ UNCHANGED <<lock, netOwner, member, docker, job, excuse>> /\ Fine

---------------------------------------------------------------------------------
(* DestroySite, and the rollback of a create: containers, rows, the site. *)

BeginDestroy(p, d) == owner[d] # Nobody /\ BeginLocked(p, "destroy", d, Nobody, "rollback")

(* A destroy gives up at a container it cannot remove; a rollback does not. *)
Down(p) == LET d == Site(p) IN
  /\ At(p, "rollback")
  /\ \/ /\ Set(d, Slots, "absent") /\ Goto(p, IF Op(p) = "create" THEN "forget" ELSE "unrow")
        /\ UNCHANGED <<lock, tables, job, excuse>> /\ Fine
     \/ /\ Op(p) = "destroy"
        /\ \E S \in SUBSET Existing(d) : Set(d, S, "absent") /\ Abort(p)

DeleteSite(p) ==
  /\ At(p, "unrow") /\ owner' = [owner EXCEPT ![Site(p)] = Nobody]
  /\ Goto(p, IF Op(p) = "create" THEN "done" ELSE "forget")
  /\ UNCHANGED <<lock, netOwner, member, docker, job, excuse>> /\ Fine

(* RemoveSiteFromAllNetworks: after it the domain starts afresh. *)
Forget(p) ==
  /\ At(p, "forget") /\ Goto(p, IF Op(p) = "create" THEN "unrow" ELSE "done")
  /\ member' = member \ (Nets \X {Site(p)})
  /\ excuse' = IF Linking(Site(p)) THEN excuse ELSE excuse \ ({Site(p)} \X Whys)
  /\ UNCHANGED <<lock, owner, netOwner, docker, job>> /\ Fine

---------------------------------------------------------------------------------
(* CreateSharedNetwork and DeleteSharedNetwork. *)

BeginCreateNet(p, n, o) ==
  /\ netOwner[n] = Nobody /\ Begin(p, "newnet", Nobody, n, o, "insert") /\ UNCHANGED lock

(* The name is a primary key: of two creates one fails. *)
InsertNet(p) == LET n == Net(p) IN
  /\ At(p, "insert") /\ Op(p) = "newnet"
  /\ \/ /\ netOwner[n] = Nobody /\ netOwner' = [netOwner EXCEPT ![n] = job[p].who] /\ Goto(p, "ensure")
     \/ netOwner[n] # Nobody /\ Goto(p, "done") /\ UNCHANGED netOwner
  /\ UNCHANGED <<lock, owner, member, docker, job, excuse>> /\ Fine

EnsureNet(p) ==
  /\ At(p, "ensure") /\ UNCHANGED <<lock, tables, box, link, job, excuse>>
  /\ \/ bridge' = bridge \cup {Net(p)} /\ Goto(p, "done") /\ Fine
     \/ Trouble /\ Goto(p, "unwind") /\ UNCHANGED bridge

BeginDelete(p, n) ==
  /\ netOwner[n] # Nobody /\ At(p, "idle") /\ Goto(p, "cut") /\ Overlap("delete", Nobody)
  /\ job' = [job EXCEPT ![p] = [Idle EXCEPT !.op = "delete", !.net = n, !.todo = {n} \X Members(n)]]
  /\ UNCHANGED <<lock, tables, docker>> /\ Fine

(* One transaction: the memberships and the network. *)
DeleteNet(p) == LET n == Net(p) IN
  /\ At(p, IF Op(p) = "newnet" THEN "unwind" ELSE "delete")
  /\ member' = member \ ({n} \X Sites) /\ netOwner' = [netOwner EXCEPT ![n] = Nobody]
  /\ Goto(p, IF Op(p) = "newnet" THEN "done" ELSE "unbridge")
  /\ UNCHANGED <<lock, owner, docker, job, excuse>> /\ Fine

(* Docker keeps a network that has endpoints of running containers. *)
RemoveNet(p) == LET n == Net(p) IN
  /\ At(p, "unbridge") /\ Goto(p, "done")
  /\ \/ /\ \A l \in link : l[1] = n => box[l[2]][l[3]] # "running"
        /\ bridge' = bridge \ {n} /\ link' = {l \in link : l[1] # n} /\ Fine
     \/ /\ \E l \in link : l[1] = n /\ box[l[2]][l[3]] = "running"
        /\ UNCHANGED <<bridge, link>> /\ Fine
     \/ Trouble /\ UNCHANGED <<bridge, link>>
  /\ UNCHANGED <<lock, tables, box, job, excuse>>

---------------------------------------------------------------------------------

Next == \E p \in Procs :
  \/ \E d \in Sites :
       \/ \E o \in Owners : BeginCreate(p, d, o) \/ BeginTransfer(p, d, o)
       \/ BeginStart(p, d) \/ BeginStop(p, d) \/ BeginUpdate(p, d) \/ BeginScale(p, d)
       \/ BeginBounce(p, d) \/ BeginDestroy(p, d)
       \/ \E n \in Nets : BeginJoin(p, n, d) \/ BeginLeave(p, n, d)
  \/ \E n \in Nets : BeginDelete(p, n) \/ \E o \in Owners : BeginCreateNet(p, n, o)
  \/ InsertSite(p) \/ Provision(p) \/ Start(p) \/ Stop(p) \/ Remove(p) \/ Recreate(p)
  \/ Scale(p) \/ Bounce(p) \/ Reconnect(p) \/ List(p) \/ Connect(p)
  \/ Connected(p) \/ InsertMember(p) \/ DeleteMember(p) \/ Cut(p) \/ CutDone(p)
  \/ LeaveAll(p) \/ LeftAll(p) \/ SetOwner(p) \/ Down(p) \/ DeleteSite(p) \/ Forget(p)
  \/ InsertNet(p) \/ EnsureNet(p) \/ DeleteNet(p) \/ RemoveNet(p) \/ End(p)

Spec == Init /\ [][Next]_vars

---------------------------------------------------------------------------------
(* Properties. *)

Excused(d, whys) == \E w \in whys : <<d, w>> \in excuse
Quiet(d) == \A p \in Procs : Site(p) # d /\ Op(p) # "delete"

(* A shared network reaches no site of another owner than its own, whatever starts,      *)
(* updates, scales, destroys, transfers and re-creations of sites and networks came      *)
(* before. What may break it is named: a join or a reattachment that overlaps a leave,   *)
(* a transfer or a removal of the same site or network, or a disconnect Docker refused.  *)
(* A leave under way may still have to disconnect what another request handed over.      *)
BridgesOneOwner ==
  \A l \in link : LET n == l[1] d == l[2] IN
    (/\ owner[d] # Nobody /\ netOwner[n] # Nobody /\ ~Excused(d, {"overlap", "kept"})
     /\ \A p \in Procs : At(p, "cut") => <<n, d>> \notin job[p].todo)
      => owner[d] = netOwner[n]

(* Where nothing is under way on a site, each of its running containers is attached to   *)
(* every network the site is a member of: a join that races a start, an update or a      *)
(* scale is seen by one of the two. Not so after a failed call, an overlapping leave, or *)
(* a deploy that started what was stopped.                                               *)
MembersAreLinked ==
  \A d \in Sites : (Quiet(d) /\ ~Excused(d, {"overlap", "missed", "bounced"}))
    => NetsOf(d) \X {d} \X Running(d) \subseteq link

=================================================================================

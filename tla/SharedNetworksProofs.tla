--------------------------- MODULE SharedNetworksProofs ---------------------------
(**************************************************************************)
(* Proofs about SharedNetworks, for any sites, networks, owners,          *)
(* replicas and requests, and any number of failing calls: the type       *)
(* invariant, BridgesOneOwner and MembersAreLinked.                       *)
(*                                                                        *)
(* No lock guards the rows of the networks, so the invariant is about     *)
(* what is on record. Of a site with no excuse (Apart, Loose, Whole),     *)
(* the networks it is in have its owner (MemberInv), what is attached is  *)
(* in the network or on the list of a request that disconnects it         *)
(* (LinkInv), and what runs and is not attached has a request that will   *)
(* attach it or is cutting it off (WholeInv). Good says, label by label,  *)
(* what a request may rely on while nobody interferes.                    *)
(*                                                                        *)
(* A step is known by what it changes: the frame lemmas say which parts   *)
(* of the invariant survive it, and an action has to be shown only to be  *)
(* such a step and to keep what is its own.                               *)
(**************************************************************************)
EXTENDS SharedNetworks, TLAPS

---------------------------------------------------------------------------------
(* The invariant. *)

Ops == {"none", "create", "destroy", "start", "stop", "update", "scale", "bounce",
        "join", "leave", "transfer", "newnet", "delete"}
Job == [op : Ops, site : Sites \cup {Nobody}, net : Nets \cup {Nobody}, who : Owners \cup {Nobody},
        todo : SUBSET (Nets \X Sites), seen : SUBSET Slots]

(* A label goes with an operation, and an operation with its arguments. *)
Attaching == {"list", "connect"}
Fits(l, j) ==
  /\ l = "idle" <=> j = Idle
  /\ l = "idle" <=> j.op = "none"
  /\ l = "insert" => j.op \in {"create", "join", "newnet"}
  /\ l = "locked" => j.op \in Locked \ {"destroy"}
  /\ l = "remake" => j.op = "update"
  /\ l = "nets" => j.op \in {"start", "update", "scale", "transfer"}
  /\ l \in Attaching => j.op \in Links
  /\ l = "remove" => j.op \in {"leave", "transfer"}
  /\ l = "cut" => j.op \in {"leave", "transfer", "delete"}
  /\ l = "owner" => j.op = "transfer"
  /\ l \in {"rollback", "forget", "unrow"} => j.op \in {"create", "destroy"}
  /\ l \in {"ensure", "unwind"} => j.op = "newnet"
  /\ l \in {"delete", "unbridge"} => j.op = "delete"
  /\ j.op \in Locked \cup Links \cup Cuts => j.site \in Sites
  /\ j.op \in {"join", "leave", "newnet", "delete"} => j.net \in Nets
  /\ j.op \in {"create", "transfer", "newnet"} => j.who \in Owners
  /\ l = "connect" => j.net \in Nets
  /\ l \in Attaching => j.todo \subseteq Nets \X {j.site}
  /\ l = "cut" => /\ j.op = "leave" => j.todo \subseteq {<<j.net, j.site>>}
                  /\ j.op = "transfer" => j.todo \subseteq Nets \X {j.site}
                  /\ j.op = "delete" => j.todo \subseteq {j.net} \X Sites

ProcInv ==
  /\ pc \in [Procs -> Labels] /\ job \in [Procs -> Job]
  /\ \A p \in Procs : Fits(pc[p], job[p])

LockInv ==
  /\ lock = {job[p].site : p \in {p \in Procs : job[p].op \in Locked}}
  /\ \A p, q \in Procs : Op(p) \in Locked /\ Op(q) \in Locked /\ Site(p) = Site(q) => p = q

States   == {"absent", "stopped", "running"}
TableInv ==
  /\ owner    \in [Sites -> Owners \cup {Nobody}]
  /\ netOwner \in [Nets -> Owners \cup {Nobody}]
  /\ member \subseteq Nets \X Sites
DockerInv ==
  /\ bridge \subseteq Nets /\ link \subseteq Nets \X Sites \X Slots
  /\ box \in [Sites -> [Slots -> States]]
  /\ \A x \in link : x[1] \in bridge /\ box[x[2]][x[3]] # "absent"
DataInv == TableInv /\ DockerInv /\ excuse \subseteq Sites \X Whys /\ troubles \in 0..MaxTroubles

(* An overlap of an operation that links a site with one that cuts it off is on record. *)
Apart(d)    == <<d, "overlap">> \notin excuse
OverlapInv == \A d \in Sites : Apart(d) => ~(Linking(d) /\ Cutting(d))

(* A network a site is in has the owner of the site. *)
Forgetting(d) == \E p \in Procs : Site(p) = d /\ Op(p) = "destroy" /\ pc[p] = "forget"
MemberInv == \A n \in Nets, d \in Sites : <<n, d>> \in member /\ Apart(d) =>
  netOwner[n] # Nobody /\ (owner[d] = netOwner[n] \/ (owner[d] = Nobody /\ Forgetting(d)))

(* A site is attached to networks it is in, or about to be cut off. *)
Loose(d) == Apart(d) /\ <<d, "kept">> \notin excuse
Owes(l, j, n, d) == l = "cut" /\ <<n, d>> \in j.todo
Pending(n, d)    == \E p \in Procs : Owes(pc[p], job[p], n, d)
LinkInv == \A l \in link : Loose(l[2]) => <<l[1], l[2]>> \in member \/ Pending(l[1], l[2])

(* What an operation relies on while no other interferes. *)
SiteOk(l, j) ==
  /\ j.op = "create" /\ Apart(j.site) => \A n \in Nets : <<n, j.site>> \notin member
  /\ l \in {"unrow", "forget"} => \A s \in Slots : box[j.site][s] = "absent"
AttachOk(l, j) == Apart(j.site) =>
  /\ j.op = "join" /\ l = "insert" => owner[j.site] = netOwner[j.net] /\ owner[j.site] # Nobody
  /\ l \in Attaching => j.todo \subseteq member
  /\ l = "connect" => <<j.net, j.site>> \in member /\ j.net \in bridge
CutOk(l, j) ==
  /\ j.op = "leave" /\ l = "cut" /\ Apart(j.site) => <<j.net, j.site>> \notin member
  /\ j.op = "transfer" /\ l \in {"cut", "remove"} /\ Loose(j.site) =>
       \A x \in link : x[2] = j.site => Pending(x[1], j.site)
  /\ l = "owner" /\ Apart(j.site) => \A n \in Nets : <<n, j.site>> \in member => netOwner[n] = j.who
NetOk(l, j) == \A d \in Sites :
  /\ j.op = "delete" /\ l \in {"cut", "delete"} /\ Loose(d) =>
       \A x \in link : x[1] = j.net /\ x[2] = d => Pending(j.net, d)
  /\ l \in {"ensure", "unwind"} /\ Apart(d) => <<j.net, d>> \notin member
Good(l, j) == SiteOk(l, j) /\ AttachOk(l, j) /\ CutOk(l, j) /\ NetOk(l, j)

(* Of the containers that run, those that are not attached will be, or are being cut off. *)
Whole(d) == \A w \in {"overlap", "missed", "bounced"} : <<d, w>> \notin excuse
Answers(l, j, n, d, s) ==
  \/ /\ j.site = d /\ j.op \in Links
     /\ \/ l = "nets"
        \/ l \in Attaching /\ <<n, d>> \in j.todo
        \/ l = "connect" /\ j.net = n /\ s \in j.seen
  \/ j.site = d /\ j.op = "transfer" /\ l \in {"cut", "remove"}
  \/ j.net = n /\ j.op = "delete" /\ l \in {"cut", "delete"}
WholeInv == \A d \in Sites : Whole(d) => \A n \in Nets, s \in Slots :
  <<n, d>> \in member /\ box[d][s] = "running" =>
    <<n, d, s>> \in link \/ \E p \in Procs : Answers(pc[p], job[p], n, d, s)

IInv ==
  /\ ProcInv /\ LockInv /\ DataInv /\ OverlapInv /\ MemberInv /\ LinkInv /\ WholeInv
  /\ \A p \in Procs : Good(pc[p], job[p])

---------------------------------------------------------------------------------
(* What a step does: one request moves on, and all others stay where they are. *)

Step(p, l, j, m, k) ==
  /\ l = pc[p] /\ j = job[p] /\ m \in Labels /\ k \in Job
  /\ pc' = [pc EXCEPT ![p] = m] /\ job' = [job EXCEPT ![p] = k]
Same(j, k) == k.op = j.op /\ k.site = j.site

(* What it does to the tables and to Docker leaves alone what others rely on, unless an  *)
(* operation that links meets one that cuts; a site starts afresh only with nothing left.*)
Afresh(d) == /\ ~Linking(d)
             /\ \A n \in Nets : <<n, d>> \notin member'
             /\ \A x \in link' : x[2] # d
MildExcuse == \A d \in Sites : (Apart(d)' => Apart(d) \/ Afresh(d)) /\ (Loose(d)' => Loose(d) \/ Afresh(d))
MildMember == \A n \in Nets, d \in Sites :
  /\ <<n, d>> \in member' => <<n, d>> \in member \/ Linking(d)
  /\ <<n, d>> \in member => <<n, d>> \in member' \/ Cutting(d)
MildOwner  == \A d \in Sites : owner'[d] = owner[d] \/ Cutting(d)
MildNet    == \A n \in Nets :
  \/ netOwner'[n] = netOwner[n]
  \/ /\ \A d \in Sites : Cutting(d)
     /\ netOwner[n] = Nobody \/ \A d \in Sites : <<n, d>> \notin member'
MildBridge == \A n \in bridge : n \in bridge' \/ \A d \in Sites : Cutting(d)
MildLink   == \A x \in link' : x \in link \/ Linking(x[2])
MildBox(j) == \A d \in Sites : box'[d] = box[d] \/ (d = j.site /\ j.op \in Locked)
MildOwes(l, j, m, k) == \A n \in Nets, d \in Sites :
  Owes(l, j, n, d) => Owes(m, k, n, d) \/ ~Loose(d)' \/ \A x \in link' : ~(x[1] = n /\ x[2] = d)
Mild(l, j, m, k) == /\ MildExcuse /\ MildMember /\ MildOwner /\ MildNet /\ MildBridge /\ MildLink
                    /\ MildBox(j) /\ MildOwes(l, j, m, k)

(* Whether a container that runs is attached, or will be, or is being cut off. *)
Steady(l, j, m, k) == \A d \in Sites, n \in Nets, s \in Slots :
  Whole(d)' /\ <<n, d>> \in member' /\ box'[d][s] = "running" =>
    \/ <<n, d, s>> \in link'
    \/ Answers(m, k, n, d, s)
    \/ /\ Whole(d) /\ <<n, d>> \in member /\ box[d][s] = "running" /\ ~Answers(l, j, n, d, s)
       /\ <<n, d, s>> \in link => <<n, d, s>> \in link'
---------------------------------------------------------------------------------
(* General lemmas. *)

LEMMA FitsFacts ==
  ASSUME ProcInv, NEW p \in Procs
  PROVE  pc[p] \in Labels /\ job[p] \in Job /\ Fits(pc[p], job[p])
  BY DEF ProcInv

LEMMA JobFacts ==
  ASSUME NEW j \in Job
  PROVE  /\ j.op \in Ops /\ j.site \in Sites \cup {Nobody} /\ j.net \in Nets \cup {Nobody}
         /\ j.who \in Owners \cup {Nobody} /\ j.todo \in SUBSET (Nets \X Sites) /\ j.seen \in SUBSET Slots
  BY DEF Job

LEMMA IdleFacts ==
  /\ Idle \in Job /\ Idle.op = "none" /\ Idle.site = Nobody /\ Idle.net = Nobody /\ Idle.who = Nobody
  /\ Idle.todo = {} /\ Idle.seen = {}
  BY DEF Idle, Job, Ops

LEMMA StepFacts ==
  ASSUME ProcInv, NEW p \in Procs, NEW l, NEW j, NEW m, NEW k, Step(p, l, j, m, k)
  PROVE  /\ pc[p] = l /\ job[p] = j /\ pc'[p] = m /\ job'[p] = k
         /\ l \in Labels /\ j \in Job /\ Fits(l, j) /\ m \in Labels /\ k \in Job
         /\ \A q \in Procs \ {p} : pc'[q] = pc[q] /\ job'[q] = job[q]
         /\ pc' \in [Procs -> Labels] /\ job' \in [Procs -> Job]
  BY DEF ProcInv, Step

LEMMA LinkCut ==
  ASSUME ProcInv, NEW q \in Procs
  PROVE  /\ job[q].op \in Links => job[q].site \in Sites /\ Linking(job[q].site)
         /\ job[q].op \in Cuts => job[q].site \in Sites /\ Cutting(job[q].site)
         /\ job[q].op \in {"delete", "newnet"} => job[q].net \in Nets /\ \A d \in Sites : Cutting(d)
  BY FitsFacts DEF Fits, Linking, Cutting, Op, Site

(* What is owed stays owed until nothing is left to cut. *)
LEMMA PendingKept ==
  ASSUME ProcInv, NEW p \in Procs, NEW l, NEW j, NEW m, NEW k, Step(p, l, j, m, k), MildOwes(l, j, m, k),
         NEW n \in Nets, NEW d \in Sites, Pending(n, d), Loose(d)', NEW x \in link', x[1] = n, x[2] = d
  PROVE  Pending(n, d)'
  <1>1. PICK q \in Procs : Owes(pc[q], job[q], n, d)
    BY DEF Pending
  <1>2. CASE q = p
    <2>1. Owes(l, j, n, d)
      BY <1>1, <1>2, StepFacts
    <2>2. Owes(m, k, n, d)
      BY <2>1 DEF MildOwes
    <2>3. Owes(pc'[p], job'[p], n, d)
      BY <2>2, StepFacts
    <2> QED BY <2>3 DEF Pending, Owes
  <1>3. CASE q # p
    <2>1. Owes(pc'[q], job'[q], n, d)
      BY <1>1, <1>3, StepFacts
    <2> QED BY <2>1 DEF Pending, Owes
  <1> QED BY <1>2, <1>3

LEMMA OthersGood ==
  ASSUME IInv, NEW p \in Procs, NEW l, NEW j, NEW m, NEW k, Step(p, l, j, m, k), Mild(l, j, m, k),
         NEW q \in Procs \ {p}, NEW a, NEW b, a = pc[q], b = job[q]
  PROVE  Good(a, b)'
  <1>1. a \in Labels /\ b \in Job /\ Fits(a, b) /\ Good(a, b) /\ ProcInv
    BY FitsFacts DEF IInv
  <1>2. \A d \in Sites : Apart(d) => ~(Linking(d) /\ Cutting(d))
    BY DEF IInv, OverlapInv
  <1>3. b.op \in Links => b.site \in Sites /\ Linking(b.site)
    BY <1>1, LinkCut
  <1>4. b.op \in Cuts => b.site \in Sites /\ Cutting(b.site)
    BY <1>1, LinkCut
  <1>5. b.op \in {"delete", "newnet"} => b.net \in Nets /\ \A d \in Sites : Cutting(d)
    BY <1>1, LinkCut
  <1>m. MildExcuse /\ MildMember /\ MildOwner /\ MildNet /\ MildBridge /\ MildLink /\ MildBox(j) /\ MildOwes(l, j, m, k)
    BY DEF Mild
  <1>6. SiteOk(a, b)'
    <2>1. ASSUME b.op = "create", Apart(b.site)', NEW n \in Nets PROVE <<n, b.site>> \notin member'
      <3>1. b.site \in Sites /\ Cutting(b.site)
        BY <1>4, <2>1 DEF Cuts
      <3>2. CASE Afresh(b.site)
        BY <3>2 DEF Afresh
      <3>3. CASE Apart(b.site)
        <4>1. <<n, b.site>> \notin member
          BY <1>1, <2>1, <3>3 DEF Good, SiteOk
        <4> QED BY <1>2, <1>m, <3>1, <3>3, <4>1 DEF MildMember
      <3> QED BY <1>m, <2>1, <3>1, <3>2, <3>3 DEF MildExcuse
    <2>2. ASSUME a \in {"unrow", "forget"}, NEW s \in Slots PROVE box'[b.site][s] = "absent"
      <3>1. b.op \in {"create", "destroy"} /\ b.site \in Sites
        BY <1>1, <2>2 DEF Fits, Locked
      <3>2. ~(b.site = j.site /\ j.op \in Locked)
        <4>1. b.op \in Locked
          BY <3>1 DEF Locked
        <4> QED BY <4>1, StepFacts DEF IInv, LockInv, Op, Site
      <3>3. box'[b.site] = box[b.site]
        BY <1>m, <3>1, <3>2 DEF MildBox
      <3> QED BY <1>1, <2>2, <3>3 DEF Good, SiteOk
    <2> QED BY <2>1, <2>2 DEF SiteOk
  <1>7. AttachOk(a, b)'
    <2>1. CASE b.op \notin Links
      BY <1>1, <2>1 DEF AttachOk, Fits, Links, Attaching
    <2>2. CASE b.op \in Links /\ Apart(b.site)'
      <3>1. Apart(b.site) /\ ~Cutting(b.site) /\ b.site \in Sites
        BY <1>m, <1>2, <1>3, <2>2 DEF MildExcuse, Afresh
      <3>2. AttachOk(a, b)
        BY <1>1 DEF Good
      <3>3. ASSUME b.op = "join", a = "insert"
            PROVE  owner'[b.site] = netOwner'[b.net] /\ owner'[b.site] # Nobody
        <4>1. b.net \in Nets
          BY <1>1, <3>3 DEF Fits
        <4>2. owner[b.site] = netOwner[b.net] /\ owner[b.site] # Nobody
          BY <3>1, <3>2, <3>3 DEF AttachOk
        <4>3. owner'[b.site] = owner[b.site] /\ netOwner'[b.net] = netOwner[b.net]
          BY <1>m, <3>1, <4>1 DEF MildOwner, MildNet
        <4> QED BY <4>2, <4>3
      <3>4. ASSUME a \in Attaching PROVE b.todo \subseteq member'
        <4>1. b.todo \subseteq Nets \X {b.site}
          BY <1>1, <3>4 DEF Fits
        <4>2. b.todo \subseteq member
          BY <3>1, <3>2, <3>4 DEF AttachOk
        <4>3. ASSUME NEW n \in Nets, <<n, b.site>> \in member PROVE <<n, b.site>> \in member'
          BY <1>m, <3>1, <4>3 DEF MildMember
        <4> QED BY <4>1, <4>2, <4>3
      <3>5. ASSUME a = "connect" PROVE <<b.net, b.site>> \in member' /\ b.net \in bridge'
        <4>1. b.net \in Nets
          BY <1>1, <3>5 DEF Fits
        <4>2. <<b.net, b.site>> \in member /\ b.net \in bridge
          BY <3>1, <3>2, <3>5 DEF AttachOk
        <4>3. <<b.net, b.site>> \in member'
          BY <1>m, <3>1, <4>1, <4>2 DEF MildMember
        <4> QED BY <1>m, <3>1, <4>2, <4>3 DEF MildBridge
      <3> QED BY <3>3, <3>4, <3>5 DEF AttachOk
    <2>3. CASE ~Apart(b.site)'
      BY <2>3 DEF AttachOk
    <2> QED BY <2>1, <2>2, <2>3
  <1>8. CutOk(a, b)'
    <2>0. CutOk(a, b)
      BY <1>1 DEF Good
    <2>1. ASSUME b.op = "leave", a = "cut", Apart(b.site)' PROVE <<b.net, b.site>> \notin member'
      <3>1. b.net \in Nets /\ b.site \in Sites /\ Cutting(b.site)
        BY <1>1, <1>4, <2>1 DEF Fits, Cuts
      <3>2. CASE Afresh(b.site)
        BY <3>1, <3>2 DEF Afresh
      <3>3. CASE Apart(b.site)
        <4>1. <<b.net, b.site>> \notin member
          BY <2>0, <2>1, <3>3 DEF CutOk
        <4> QED BY <1>2, <1>m, <3>1, <3>3, <4>1 DEF MildMember
      <3> QED BY <1>m, <2>1, <3>1, <3>2, <3>3 DEF MildExcuse
    <2>2. ASSUME b.op = "transfer", a \in {"cut", "remove"}, Loose(b.site)', NEW x \in link', x[2] = b.site
          PROVE  Pending(x[1], b.site)'
      <3>1. b.site \in Sites /\ Cutting(b.site)
        BY <1>4, <2>2 DEF Cuts
      <3>2. Loose(b.site)
        BY <1>m, <2>2, <3>1 DEF MildExcuse, Afresh
      <3>3. x \in link
        BY <1>2, <1>m, <2>2, <3>1, <3>2 DEF MildLink, Loose
      <3>4. Pending(x[1], b.site) /\ x[1] \in Nets
        BY <2>0, <2>2, <3>2, <3>3 DEF CutOk, IInv, DataInv, DockerInv
      <3> QED BY <1>1, <1>m, <2>2, <3>1, <3>4, PendingKept
    <2>3. ASSUME a = "owner", Apart(b.site)', NEW n \in Nets, <<n, b.site>> \in member'
          PROVE  netOwner'[n] = b.who
      <3>1. b.op = "transfer" /\ b.site \in Sites /\ Cutting(b.site) /\ b.who \in Owners
        BY <1>1, <1>4, <2>3 DEF Fits, Cuts
      <3>2. Apart(b.site)
        BY <1>m, <2>3, <3>1 DEF MildExcuse, Afresh
      <3>3. <<n, b.site>> \in member
        BY <1>2, <1>m, <2>3, <3>1, <3>2 DEF MildMember
      <3>4. netOwner[n] = b.who
        BY <2>0, <2>3, <3>2, <3>3 DEF CutOk
      <3> QED BY <1>m, <2>3, <3>1, <3>4, NobodyAssumption DEF MildNet
    <2> QED BY <2>1, <2>2, <2>3 DEF CutOk
  <1>9. NetOk(a, b)'
    <2>0. NetOk(a, b)
      BY <1>1 DEF Good
    <2>1. ASSUME NEW d \in Sites, b.op = "delete", a \in {"cut", "delete"}, Loose(d)',
                 NEW x \in link', x[1] = b.net, x[2] = d
          PROVE  Pending(b.net, d)'
      <3>1. Cutting(d) /\ b.net \in Nets
        BY <1>5, <2>1
      <3>2. Loose(d)
        BY <1>m, <2>1 DEF MildExcuse, Afresh
      <3>3. x \in link
        BY <1>2, <1>m, <2>1, <3>1, <3>2 DEF MildLink, Loose
      <3>4. Pending(b.net, d)
        BY <2>0, <2>1, <3>2, <3>3 DEF NetOk
      <3> QED BY <1>1, <1>m, <2>1, <3>1, <3>4, PendingKept
    <2>2. ASSUME NEW d \in Sites, a \in {"ensure", "unwind"}, Apart(d)' PROVE <<b.net, d>> \notin member'
      <3>1. Cutting(d) /\ b.net \in Nets
        BY <1>1, <1>5, <2>2 DEF Fits
      <3>2. CASE Afresh(d)
        BY <3>1, <3>2 DEF Afresh
      <3>3. CASE Apart(d)
        <4>1. <<b.net, d>> \notin member
          BY <2>0, <2>2, <3>3 DEF NetOk
        <4> QED BY <1>2, <1>m, <3>1, <3>3, <4>1 DEF MildMember
      <3> QED BY <1>m, <2>2, <3>2, <3>3 DEF MildExcuse
    <2> QED BY <2>1, <2>2 DEF NetOk
  <1> QED BY <1>6, <1>7, <1>8, <1>9 DEF Good

LEMMA WholeKept ==
  ASSUME ProcInv, WholeInv, NEW p \in Procs, NEW l, NEW j, NEW m, NEW k, Step(p, l, j, m, k), Steady(l, j, m, k)
  PROVE  WholeInv'
  <1> SUFFICES ASSUME NEW d \in Sites, Whole(d)', NEW n \in Nets, NEW s \in Slots,
                      <<n, d>> \in member', box'[d][s] = "running", <<n, d, s>> \notin link'
               PROVE  \E q \in Procs : Answers(pc'[q], job'[q], n, d, s)
    BY DEF WholeInv, Answers
  <1>1. CASE Answers(m, k, n, d, s)
    BY <1>1, StepFacts
  <1>2. CASE ~Answers(m, k, n, d, s)
    <2>1. /\ Whole(d) /\ <<n, d>> \in member /\ box[d][s] = "running" /\ ~Answers(l, j, n, d, s)
          /\ <<n, d, s>> \notin link
      BY <1>2 DEF Steady
    <2>2. PICK q \in Procs : Answers(pc[q], job[q], n, d, s)
      BY <2>1 DEF WholeInv
    <2>3. q # p
      BY <2>1, <2>2, StepFacts
    <2> QED BY <2>2, <2>3, StepFacts
  <1> QED BY <1>1, <1>2

LEMMA Assemble ==
  ASSUME IInv, NEW p \in Procs, NEW l, NEW j, NEW m, NEW k, Step(p, l, j, m, k), Mild(l, j, m, k),
         Steady(l, j, m, k), Fits(m, k), LockInv', DataInv', OverlapInv', MemberInv', LinkInv', Good(m, k)'
  PROVE  IInv'
  <1>0. ProcInv /\ WholeInv
    BY DEF IInv
  <1>1. ProcInv'
    BY <1>0, StepFacts DEF ProcInv
  <1>2. WholeInv'
    BY <1>0, WholeKept
  <1>3. ASSUME NEW q \in Procs PROVE Good(pc[q], job[q])'
    <2>1. PICK a, b : a = pc'[q] /\ b = job'[q]
      OBVIOUS
    <2>2. CASE q = p
      BY <1>0, <2>1, <2>2, StepFacts
    <2>3. CASE q # p
      <3>1. a = pc[q] /\ b = job[q]
        BY <1>0, <2>1, <2>3, StepFacts
      <3>2. Good(a, b)'
        BY <2>3, <3>1, OthersGood
      <3> QED BY <2>1, <3>2
    <2> QED BY <2>2, <2>3
  <1> QED BY <1>1, <1>2, <1>3 DEF IInv

---------------------------------------------------------------------------------
(* Steps in the middle of an operation. *)

LEMMA Sides ==
  ASSUME ProcInv, NEW p \in Procs, NEW l, NEW j, NEW m, NEW k, Step(p, l, j, m, k), Same(j, k), NEW d
  PROVE  (Linking(d)' <=> Linking(d)) /\ (Cutting(d)' <=> Cutting(d))
  <1>1. \A q \in Procs : job'[q].op = job[q].op /\ job'[q].site = job[q].site
    BY StepFacts DEF Same
  <1> QED BY <1>1 DEF Linking, Cutting, Op, Site

LEMMA MidLock ==
  ASSUME ProcInv, LockInv, NEW p \in Procs, NEW l, NEW j, NEW m, NEW k, Step(p, l, j, m, k), Same(j, k), lock' = lock
  PROVE  LockInv'
  <1>1. \A q \in Procs : job'[q].op = job[q].op /\ job'[q].site = job[q].site
    BY StepFacts DEF Same
  <1> QED BY <1>1 DEF LockInv, Op, Site

LEMMA MidOverlap ==
  ASSUME ProcInv, OverlapInv, NEW p \in Procs, NEW l, NEW j, NEW m, NEW k, Step(p, l, j, m, k), Same(j, k), MildExcuse
  PROVE  OverlapInv'
  <1> SUFFICES ASSUME NEW d \in Sites, Apart(d)', Linking(d)', Cutting(d)' PROVE FALSE
    BY DEF OverlapInv
  <1>1. Linking(d) /\ Cutting(d)
    BY Sides
  <1>2. Apart(d)
    BY <1>1 DEF MildExcuse, Afresh
  <1> QED BY <1>1, <1>2 DEF OverlapInv

LEMMA ForgettingKept ==
  ASSUME ProcInv, NEW p \in Procs, NEW l, NEW j, NEW m, NEW k, Step(p, l, j, m, k), l # "forget", NEW d
  PROVE  Forgetting(d) => Forgetting(d)'
  <1>1. SUFFICES ASSUME NEW q \in Procs, job[q].site = d, job[q].op = "destroy", pc[q] = "forget"
                 PROVE  job'[q].site = d /\ job'[q].op = "destroy" /\ pc'[q] = "forget"
    BY DEF Forgetting, Op, Site
  <1> QED BY <1>1, StepFacts

(* What is in the tables stays, as long as nobody has just forgotten a destroyed site. *)
LEMMA MemberKept ==
  ASSUME ProcInv, MemberInv, NEW p \in Procs, NEW l, NEW j, NEW m, NEW k, Step(p, l, j, m, k), MildExcuse,
         member' \subseteq member, UNCHANGED <<owner, netOwner>>, l # "forget"
  PROVE  MemberInv'
  <1> SUFFICES ASSUME NEW n \in Nets, NEW d \in Sites, <<n, d>> \in member', Apart(d)'
               PROVE  netOwner'[n] # Nobody /\ (owner'[d] = netOwner'[n] \/ (owner'[d] = Nobody /\ Forgetting(d)'))
    BY DEF MemberInv
  <1>1. Apart(d)
    BY DEF MildExcuse, Afresh
  <1>2. netOwner[n] # Nobody /\ (owner[d] = netOwner[n] \/ (owner[d] = Nobody /\ Forgetting(d)))
    BY <1>1 DEF MemberInv
  <1>3. Forgetting(d) => Forgetting(d)'
    BY ForgettingKept
  <1> QED BY <1>2, <1>3

LEMMA LinkKept ==
  ASSUME ProcInv, DataInv, LinkInv, NEW p \in Procs, NEW l, NEW j, NEW m, NEW k, Step(p, l, j, m, k), MildExcuse,
         MildOwes(l, j, m, k), link' \subseteq link, member' = member
  PROVE  LinkInv'
  <1> SUFFICES ASSUME NEW x \in link', Loose(x[2])', NEW n, NEW d, n = x[1], d = x[2], <<n, d>> \notin member'
               PROVE  Pending(n, d)'
    BY DEF LinkInv
  <1>1. x \in link /\ n \in Nets /\ d \in Sites
    BY DEF DataInv, DockerInv
  <1>2. Loose(d)
    BY <1>1 DEF MildExcuse, Afresh
  <1>3. Pending(n, d)
    BY <1>1, <1>2 DEF LinkInv
  <1> QED BY <1>1, <1>3, PendingKept

(* A step that changes no row, and attaches nothing. *)
LEMMA Light ==
  ASSUME IInv, NEW p \in Procs, NEW l, NEW j, NEW m, NEW k, Step(p, l, j, m, k), Same(j, k),
         UNCHANGED <<lock, tables>>, link' \subseteq link, MildExcuse, MildBridge, MildBox(j), MildOwes(l, j, m, k),
         Steady(l, j, m, k), Fits(m, k), DataInv', Good(m, k)', l # "forget"
  PROVE  IInv'
  <1>1. Mild(l, j, m, k)
    BY DEF Mild, MildMember, MildOwner, MildNet, MildLink, tables
  <1>2. LockInv'
    BY MidLock DEF IInv
  <1>3. OverlapInv'
    BY MidOverlap DEF IInv
  <1>4. MemberInv'
    BY MemberKept DEF IInv, tables
  <1>5. LinkInv'
    BY LinkKept DEF IInv, tables
  <1> QED BY <1>1, <1>2, <1>3, <1>4, <1>5, Assemble

(* Where nothing changes but how far the request has come. *)
LEMMA Walk ==
  ASSUME IInv, NEW p \in Procs, NEW l, NEW j, NEW m, NEW k, Step(p, l, j, m, k), Same(j, k), l # "forget",
         UNCHANGED <<lock, tables, docker, excuse>>, troubles' \in 0..MaxTroubles, MildOwes(l, j, m, k), Fits(m, k), Good(m, k)',
         \A n \in Nets, d \in Sites, s \in Slots : Answers(l, j, n, d, s) /\ <<n, d>> \in member /\ Apart(d) =>
           Answers(m, k, n, d, s)
  PROVE  IInv'
  <1>1. MildExcuse /\ MildBridge /\ MildBox(j)
    BY DEF MildExcuse, MildBridge, MildBox, Apart, Loose, docker
  <1>2. DataInv'
    BY DEF IInv, DataInv, TableInv, DockerInv, tables, docker
  <1>3. Steady(l, j, m, k)
    BY DEF Steady, Whole, Apart, tables, docker
  <1> QED BY <1>1, <1>2, <1>3, Light DEF docker

IsSet(d, S, s) ==
  /\ DockerInv' /\ bridge' = bridge /\ link' \subseteq link
  /\ \A e \in Sites : e # d => box'[e] = box[e]
  /\ \A c \in Slots : box'[d][c] = IF c \in S THEN s ELSE box[d][c]
  /\ \A x \in link : x \in link' \/ (x[2] = d /\ x[3] \in S /\ s = "absent")

LEMMA SetFacts ==
  ASSUME DockerInv, NEW d \in Sites, NEW S \in SUBSET Slots, NEW s \in States, Set(d, S, s)
  PROVE  IsSet(d, S, s)
  <1>1. bridge' = bridge /\ link' \subseteq link
    BY DEF Set
  <1>2. \A e \in Sites : e # d => box'[e] = box[e]
    BY DEF Set, DockerInv
  <1>3. \A c \in Slots : box'[d][c] = IF c \in S THEN s ELSE box[d][c]
    BY DEF Set, DockerInv
  <1>4. \A x \in link : x \in link' \/ (x[2] = d /\ x[3] \in S /\ s = "absent")
    BY DEF Set
  <1>5. box' \in [Sites -> [Slots -> States]]
    BY DEF Set, DockerInv
  <1>6. ASSUME NEW x \in link' PROVE x[1] \in bridge' /\ box'[x[2]][x[3]] # "absent"
    <2>1. x \in link /\ x[1] \in bridge /\ box[x[2]][x[3]] # "absent" /\ x[2] \in Sites /\ x[3] \in Slots
      BY <1>1 DEF DockerInv
    <2>2. x[2] = d /\ x[3] \in S => s # "absent"
      BY DEF Set
    <2> QED BY <1>1, <1>2, <1>3, <2>1, <2>2
  <1> QED BY <1>1, <1>2, <1>3, <1>4, <1>5, <1>6 DEF DockerInv, IsSet

LEMMA TroubleFacts ==
  ASSUME troubles \in 0..MaxTroubles, Fine \/ Trouble
  PROVE  troubles' \in 0..MaxTroubles
  BY TroublesAssumption DEF Fine, Trouble

LEMMA GoodQuiet ==
  ASSUME NEW m \in {"idle", "insert", "locked", "remake", "nets", "done", "rollback", "unbridge"}, NEW k,
         k.op \notin {"create", "join"} \/ (k.op = "join" /\ m # "insert")
  PROVE  Good(m, k)'
  BY DEF Good, SiteOk, AttachOk, CutOk, NetOk, Attaching

LEMMA GoodCreate ==
  ASSUME NEW m \in {"insert", "locked", "done", "rollback"}, NEW k, k.op = "create",
         Apart(k.site)' => \A n \in Nets : <<n, k.site>> \notin member'
  PROVE  Good(m, k)'
  BY DEF Good, SiteOk, AttachOk, CutOk, NetOk, Attaching

(* A request at a label, and what it holds. *)
LEMMA Now ==
  ASSUME IInv, NEW p \in Procs, NEW l, NEW j, l = pc[p], j = job[p]
  PROVE  l \in Labels /\ j \in Job /\ Fits(l, j) /\ Good(l, j)
  BY FitsFacts DEF IInv

LEMMA GotoStep ==
  ASSUME ProcInv, NEW p \in Procs, NEW l, NEW j, l = pc[p], j = job[p], NEW m \in Labels, Goto(p, m), UNCHANGED job
  PROVE  Step(p, l, j, m, j) /\ Same(j, j)
  BY DEF Step, Same, Goto, ProcInv

LEMMA ConnectedStep ==
  ASSUME IInv, NEW p \in Procs, Connected(p)
  PROVE  IInv'
  <1>1. PICK l, j : l = pc[p] /\ j = job[p]
    OBVIOUS
  <1>2. l = "list" /\ j.todo = {} /\ j.op \in Links
    BY <1>1, Now DEF Connected, At, Fits, Attaching
  <1>3. Step(p, l, j, "done", j) /\ Same(j, j)
    BY <1>1, GotoStep DEF Connected, Labels, IInv
  <1>4. Fits("done", j)
    BY <1>1, <1>2, Now DEF Fits, Attaching, Links
  <1>5. Good("done", j)'
    BY <1>2, GoodQuiet DEF Links
  <1>6. \A n, d, s : ~Answers(l, j, n, d, s)
    BY <1>2 DEF Answers, Links
  <1> QED BY <1>2, <1>3, <1>4, <1>5, <1>6, Walk, TroubleFacts DEF Connected, IInv, DataInv, MildOwes, Owes

LEMMA CutDoneStep ==
  ASSUME IInv, NEW p \in Procs, CutDone(p)
  PROVE  IInv'
  <1>1. PICK l, j : l = pc[p] /\ j = job[p]
    OBVIOUS
  <1>2. l = "cut" /\ j.todo = {} /\ j \in Job /\ Fits(l, j) /\ Good(l, j) /\ j.op \in {"leave", "transfer", "delete"}
    BY <1>1, Now DEF CutDone, At, Fits
  <1>3. PICK m \in {"done", "remove", "delete"} :
          /\ m = "done" <=> j.op = "leave"
          /\ m = "remove" <=> j.op = "transfer"
          /\ m = "delete" <=> j.op = "delete"
          /\ Goto(p, m)
    <2>1. CASE j.op = "leave"    BY <1>1, <2>1 DEF CutDone, Op
    <2>2. CASE j.op = "transfer" BY <1>1, <2>2 DEF CutDone, Op
    <2>3. CASE j.op = "delete"   BY <1>1, <2>3 DEF CutDone, Op
    <2> QED BY <1>2, <2>1, <2>2, <2>3
  <1>4. Step(p, l, j, m, j) /\ Same(j, j)
    BY <1>1, <1>3, GotoStep DEF CutDone, Labels, IInv
  <1>5. Fits(m, j)
    BY <1>2, <1>3 DEF Fits, Attaching
  <1>6. MildOwes(l, j, m, j)
    BY <1>2 DEF MildOwes, Owes
  <1>7. /\ \A d : (Apart(d)' <=> Apart(d)) /\ (Loose(d)' <=> Loose(d))
        /\ link' = link
    BY DEF CutDone, Apart, Loose, docker
  <1>8. ASSUME NEW n \in Nets, NEW d \in Sites, Loose(d), NEW x \in link, x[1] = n, x[2] = d, Pending(n, d)
        PROVE  Pending(n, d)'
    BY <1>4, <1>6, <1>7, <1>8, PendingKept DEF IInv
  <1>9. Good(m, j)'
    <2>1. CASE j.op = "leave"
      BY <1>3, <2>1, GoodQuiet
    <2>2. CASE j.op = "transfer"
      <3>1. ASSUME Loose(j.site), NEW x \in link, x[2] = j.site PROVE Pending(x[1], j.site)'
        <4>1. Pending(x[1], j.site)
          BY <1>2, <2>2, <3>1 DEF Good, CutOk
        <4>2. x[1] \in Nets /\ x[2] \in Sites
          BY DEF IInv, DataInv, DockerInv
        <4> QED BY <1>8, <3>1, <4>1, <4>2
      <3> QED BY <1>3, <1>7, <2>2, <3>1 DEF Good, SiteOk, AttachOk, CutOk, NetOk, Attaching
    <2>3. CASE j.op = "delete"
      <3>1. ASSUME NEW d \in Sites, Loose(d), NEW x \in link, x[1] = j.net, x[2] = d PROVE Pending(j.net, d)'
        <4>1. Pending(j.net, d)
          BY <1>2, <2>3, <3>1 DEF Good, NetOk
        <4>2. x[1] \in Nets
          BY DEF IInv, DataInv, DockerInv
        <4> QED BY <1>8, <3>1, <4>1, <4>2
      <3> QED BY <1>3, <1>7, <2>3, <3>1 DEF Good, SiteOk, AttachOk, CutOk, NetOk, Attaching
    <2> QED BY <1>2, <2>1, <2>2, <2>3
  <1>10. \A n, d, s : Answers(l, j, n, d, s) => Answers(m, j, n, d, s)
    BY <1>2, <1>3 DEF Answers, Links, Attaching
  <1> QED BY <1>2, <1>4, <1>5, <1>6, <1>9, <1>10, Walk, TroubleFacts DEF CutDone, IInv, DataInv

LEMMA LeaveAllStep ==
  ASSUME IInv, NEW p \in Procs, LeaveAll(p)
  PROVE  IInv'
  <1>1. PICK l, j, T, k : l = pc[p] /\ j = job[p] /\ T = NetsOf(j.site) \X {j.site} /\ k = [j EXCEPT !.todo = T]
    OBVIOUS
  <1>2. l = "nets" /\ j \in Job /\ Fits(l, j) /\ j.op = "transfer" /\ j.site \in Sites
    BY <1>1, Now DEF LeaveAll, At, Op, Fits, Cuts
  <1>3. T \in SUBSET (Nets \X Sites) /\ T \subseteq Nets \X {j.site}
    BY <1>1, <1>2 DEF NetsOf
  <1>4. /\ k \in Job /\ k.op = j.op /\ k.site = j.site /\ k.net = j.net /\ k.who = j.who /\ k.seen = j.seen
        /\ k.todo = T
    BY <1>1, <1>2, <1>3 DEF Job
  <1>5. Step(p, l, j, "cut", k) /\ Same(j, k)
    BY <1>1, <1>4 DEF Step, Same, LeaveAll, Goto, Labels, Site, IInv, ProcInv
  <1>6. Fits("cut", k)
    <2>1. k # Idle
      BY <1>2, <1>4, IdleFacts
    <2> QED BY <1>2, <1>3, <1>4, <2>1 DEF Fits, Attaching, Cuts, Locked, Links
  <1>7. MildOwes(l, j, "cut", k)
    BY <1>2 DEF MildOwes, Owes
  <1>8. ASSUME Loose(j.site)', NEW x \in link', x[2] = j.site PROVE Pending(x[1], j.site)'
    <2>1. x \in link /\ Loose(j.site) /\ x[1] \in Nets
      BY <1>8 DEF LeaveAll, docker, Loose, Apart, IInv, DataInv, DockerInv
    <2>2. CASE <<x[1], j.site>> \in member
      <3>1. <<x[1], j.site>> \in T
        BY <1>1, <2>1, <2>2 DEF NetsOf
      <3>2. pc'[p] = "cut" /\ job'[p] = k
        BY <1>5, StepFacts DEF IInv
      <3> QED BY <1>4, <3>1, <3>2 DEF Pending, Owes
    <2>3. CASE Pending(x[1], j.site)
      BY <1>2, <1>5, <1>7, <1>8, <2>1, <2>3, PendingKept DEF IInv
    <2> QED BY <1>8, <2>1, <2>2, <2>3 DEF IInv, LinkInv
  <1>9. Good("cut", k)'
    BY <1>2, <1>4, <1>8 DEF Good, SiteOk, AttachOk, CutOk, NetOk, Attaching
  <1>10. \A n, d, s : Answers(l, j, n, d, s) => Answers("cut", k, n, d, s)
    BY <1>2, <1>4 DEF Answers, Links
  <1> QED BY <1>2, <1>5, <1>6, <1>7, <1>9, <1>10, Walk, TroubleFacts DEF LeaveAll, IInv, DataInv

LEMMA FitsDone ==
  ASSUME NEW l, NEW j \in Job, Fits(l, j), l # "idle"
  PROVE  Fits("done", j)
  BY DEF Fits, Attaching

(* The steps on Docker that a request takes on the containers of its own site. *)
LEMMA SetStep ==
  ASSUME IInv, NEW p \in Procs, NEW l, NEW j, NEW m, NEW k, Step(p, l, j, m, k), Same(j, k),
         j.op \in Locked, l \notin {"forget", "cut"}, j.site \in Sites,
         NEW S \in SUBSET Slots, NEW s \in States, Set(j.site, S, s), UNCHANGED <<lock, tables>>,
         excuse \subseteq excuse', excuse' \subseteq Sites \X Whys, troubles' \in 0..MaxTroubles, Fits(m, k), Good(m, k)',
         Whole(j.site)' => \A n \in Nets, c \in Slots : <<n, j.site>> \in member /\ box'[j.site][c] = "running" =>
            Answers(m, k, n, j.site, c) \/ (box[j.site][c] = "running" /\ ~Answers(l, j, n, j.site, c)),
         j.op \notin {"delete", "transfer"}
  PROVE  IInv'
  <1>0. DockerInv /\ ProcInv
    BY DEF IInv, DataInv
  <1>1. /\ DockerInv' /\ bridge' = bridge /\ link' \subseteq link
        /\ \A e \in Sites : e # j.site => box'[e] = box[e]
        /\ \A c \in Slots : box'[j.site][c] = IF c \in S THEN s ELSE box[j.site][c]
        /\ \A x \in link : x \in link' \/ (x[2] = j.site /\ x[3] \in S /\ s = "absent")
    <2>1. IsSet(j.site, S, s)
      BY <1>0, SetFacts
    <2> QED BY <2>1 DEF IsSet
  <1>2. MildExcuse /\ MildBridge /\ MildBox(j)
    BY <1>1 DEF MildExcuse, MildBridge, MildBox, Apart, Loose
  <1>3. MildOwes(l, j, m, k)
    BY DEF MildOwes, Owes
  <1>4. DataInv'
    BY <1>1 DEF IInv, DataInv, TableInv, tables
  <1>5. Steady(l, j, m, k)
    <2> SUFFICES ASSUME NEW d \in Sites, NEW n \in Nets, NEW c \in Slots, Whole(d)', <<n, d>> \in member,
                        box'[d][c] = "running", ~Answers(m, k, n, d, c)
                 PROVE  /\ Whole(d) /\ box[d][c] = "running" /\ ~Answers(l, j, n, d, c)
                        /\ <<n, d, c>> \in link => <<n, d, c>> \in link'
      BY DEF Steady, tables
    <2>1. Whole(d)
      BY DEF Whole
    <2>2. CASE d = j.site
      <3>1. <<n, d, c>> \in link => <<n, d, c>> \in link'
        BY <1>1, <2>2
      <3> QED BY <2>1, <2>2, <3>1
    <2>3. CASE d # j.site
      <3>1. box[d][c] = "running"
        BY <1>1, <2>3
      <3>2. <<n, d, c>> \in link => <<n, d, c>> \in link'
        BY <1>1, <2>3
      <3>3. ~Answers(l, j, n, d, c)
        BY <2>3 DEF Answers
      <3> QED BY <2>1, <3>1, <3>2, <3>3
    <2> QED BY <2>2, <2>3
  <1> QED BY <1>1, <1>2, <1>3, <1>4, <1>5, Light

LEMMA RunningFacts ==
  ASSUME DockerInv, NEW d \in Sites
  PROVE  /\ Existing(d) \in SUBSET Slots /\ Running(d) \in SUBSET Existing(d)
         /\ \A c \in Slots : (c \in Existing(d) <=> box[d][c] # "absent") /\ (c \in Running(d) <=> box[d][c] = "running")
  BY DEF Existing, Running, DockerInv

(* The arguments every step on containers brings. *)
LEMMA SetNow ==
  ASSUME IInv, NEW p \in Procs, NEW l, NEW j, l = pc[p], j = job[p], j.op \in Locked
  PROVE  /\ l \in Labels /\ j \in Job /\ Fits(l, j) /\ Good(l, j) /\ j.site \in Sites /\ DockerInv /\ ProcInv
         /\ excuse \subseteq Sites \X Whys /\ troubles \in 0..MaxTroubles
  BY Now DEF Fits, Locked, IInv, DataInv

LEMMA ProvisionStep ==
  ASSUME IInv, NEW p \in Procs, Provision(p)
  PROVE  IInv'
  <1>1. PICK l, j : l = pc[p] /\ j = job[p]
    OBVIOUS
  <1>2. l = "locked" /\ j.op = "create" /\ j.op \in Locked
    BY <1>1 DEF Provision, At, Op, Locked
  <1>3. /\ j \in Job /\ Fits(l, j) /\ Good(l, j) /\ j.site \in Sites /\ DockerInv /\ ProcInv
        /\ excuse \subseteq Sites \X Whys /\ troubles \in 0..MaxTroubles
    BY <1>1, <1>2, SetNow
  <1>4. Apart(j.site)' => \A n \in Nets : <<n, j.site>> \notin member /\ <<n, j.site>> \notin member'
    BY <1>2, <1>3 DEF Provision, tables, Apart, Good, SiteOk
  <1>5. Fits("done", j) /\ Fits("rollback", j) /\ Good("done", j)' /\ Good("rollback", j)'
    BY <1>2, <1>3, <1>4, FitsDone, GoodCreate DEF Fits, Attaching
  <1>6. Whole(j.site)' => \A n \in Nets : <<n, j.site>> \notin member
    BY <1>4 DEF Whole, Apart
  <1>7. {Base} \in SUBSET Slots /\ Site(p) = j.site
    BY <1>1, SlotsAssumption DEF Site
  <1>8. CASE Set(Site(p), {Base}, "running") /\ Goto(p, "done") /\ Fine
    <2>1. Step(p, l, j, "done", j) /\ Same(j, j)
      BY <1>1, <1>3, <1>8, GotoStep DEF Provision, Labels
    <2> QED BY <1>2, <1>3, <1>5, <1>6, <1>7, <1>8, <2>1, SetStep, TroubleFacts DEF Provision, States
  <1>9. CASE Trouble /\ Goto(p, "rollback") /\ Set(Site(p), {Base}, "stopped")
    <2>1. Step(p, l, j, "rollback", j) /\ Same(j, j)
      BY <1>1, <1>3, <1>9, GotoStep DEF Provision, Labels
    <2> QED BY <1>2, <1>3, <1>5, <1>6, <1>7, <1>9, <2>1, SetStep, TroubleFacts DEF Provision, States
  <1>10. CASE Trouble /\ Goto(p, "rollback") /\ UNCHANGED docker
    <2>1. Step(p, l, j, "rollback", j) /\ Same(j, j)
      BY <1>1, <1>3, <1>10, GotoStep DEF Provision, Labels
    <2>2. \A n, d, s : ~Answers(l, j, n, d, s)
      BY <1>2 DEF Answers, Links
    <2> QED BY <1>2, <1>3, <1>5, <1>10, <2>1, <2>2, Walk, TroubleFacts DEF Provision, MildOwes, Owes
  <1> QED BY <1>8, <1>9, <1>10 DEF Provision

LEMMA StopStep ==
  ASSUME IInv, NEW p \in Procs, Stop(p)
  PROVE  IInv'
  <1>1. PICK l, j, S : l = pc[p] /\ j = job[p] /\ S = Existing(j.site)
    OBVIOUS
  <1>2. l = "locked" /\ j.op = "stop" /\ j.op \in Locked
    BY <1>1 DEF Stop, At, Op, Locked
  <1>3. /\ j \in Job /\ Fits(l, j) /\ j.site \in Sites /\ DockerInv /\ ProcInv
        /\ excuse \subseteq Sites \X Whys /\ troubles \in 0..MaxTroubles
    BY <1>1, <1>2, SetNow
  <1>4. Step(p, l, j, "done", j) /\ Same(j, j)
    BY <1>1, <1>3, GotoStep DEF Stop, Labels
  <1>5. S \in SUBSET Slots /\ Set(j.site, S, "stopped")
    BY <1>1, <1>3, RunningFacts DEF Stop, Site
  <1>6. Fits("done", j) /\ Good("done", j)'
    BY <1>2, <1>3, FitsDone, GoodQuiet
  <1>7. \A c \in Slots : box'[j.site][c] # "running"
    BY <1>1, <1>3, <1>5, RunningFacts, SetFacts DEF States, IsSet
  <1> QED BY <1>2, <1>3, <1>4, <1>5, <1>6, <1>7, SetStep, TroubleFacts DEF Stop, States

LEMMA RemoveStep ==
  ASSUME IInv, NEW p \in Procs, Remove(p)
  PROVE  IInv'
  <1>1. PICK l, j : l = pc[p] /\ j = job[p]
    OBVIOUS
  <1>2. l = "locked" /\ j.op = "update" /\ j.op \in Locked
    BY <1>1 DEF Remove, At, Op, Locked
  <1>3. /\ j \in Job /\ Fits(l, j) /\ j.site \in Sites /\ DockerInv /\ ProcInv
        /\ excuse \subseteq Sites \X Whys /\ troubles \in 0..MaxTroubles
    BY <1>1, <1>2, SetNow
  <1>4. PICK S \in SUBSET Existing(j.site) : Set(j.site, S, "absent") /\ job' = [job EXCEPT ![p].seen = S] /\ Goto(p, "remake")
    BY <1>1 DEF Remove, Site
  <1>5. S \in SUBSET Slots
    BY <1>3, RunningFacts
  <1>6. PICK k : k = [j EXCEPT !.seen = S]
    OBVIOUS
  <1>7. /\ k \in Job /\ k.op = j.op /\ k.site = j.site /\ k.net = j.net /\ k.who = j.who /\ k.todo = j.todo
    BY <1>3, <1>5, <1>6 DEF Job
  <1>8. Step(p, l, j, "remake", k) /\ Same(j, k)
    BY <1>1, <1>3, <1>4, <1>6, <1>7 DEF Step, Same, Goto, Labels, ProcInv
  <1>9. Fits("remake", k) /\ Good("remake", k)'
    <2>1. k # Idle
      BY <1>2, <1>7, IdleFacts
    <2> QED BY <1>2, <1>3, <1>7, <2>1, GoodQuiet DEF Fits, Attaching, Locked, Links, Cuts
  <1>10. \A c \in Slots : box'[j.site][c] = "running" => box[j.site][c] = "running"
    BY <1>3, <1>4, <1>5, SetFacts DEF States, IsSet
  <1>11. \A n, d, s : ~Answers(l, j, n, d, s)
    BY <1>2 DEF Answers, Links, Attaching
  <1> QED BY <1>2, <1>3, <1>4, <1>5, <1>8, <1>9, <1>10, <1>11, SetStep, TroubleFacts DEF Remove, States

(* An operation that returns leaves its site to others, and what it did not attach on record. *)
LEMMA ReturnStep ==
  ASSUME IInv, NEW p \in Procs, NEW l, NEW j, l = pc[p], j = job[p], Return(p), UNCHANGED tables,
         DockerInv', link' \subseteq link, bridge' = bridge, MildBox(j), l \notin {"idle", "forget", "cut"},
         excuse \subseteq excuse', excuse' \subseteq Sites \X Whys, troubles' \in 0..MaxTroubles,
         Steady(l, j, "idle", Idle)
  PROVE  IInv'
  <1>0. ProcInv /\ j \in Job /\ Fits(l, j)
    BY Now DEF IInv
  <1>1. Step(p, l, j, "idle", Idle)
    BY IdleFacts DEF Return, Step, Labels
  <1>2. MildExcuse /\ MildBridge /\ MildOwes(l, j, "idle", Idle)
    BY DEF MildExcuse, MildBridge, MildOwes, Owes, Apart, Loose
  <1>3. Mild(l, j, "idle", Idle)
    BY <1>2 DEF Mild, MildMember, MildOwner, MildNet, MildLink, tables
  <1>4. Fits("idle", Idle) /\ Good("idle", Idle)'
    BY IdleFacts, GoodQuiet DEF Fits, Attaching, Locked, Links, Cuts
  <1>5. \A q \in Procs : job'[q].op \in Links \cup Cuts \cup Locked \cup {"delete", "newnet"} => q # p /\ job'[q] = job[q]
    BY <1>0, <1>1, StepFacts, IdleFacts DEF Links, Cuts, Locked
  <1>6. LockInv'
    <2>1. lock = {job[q].site : q \in {q \in Procs : job[q].op \in Locked}}
      BY DEF IInv, LockInv
    <2>2. \A q, r \in Procs : job[q].op \in Locked /\ job[r].op \in Locked /\ job[q].site = job[r].site => q = r
      BY DEF IInv, LockInv, Op, Site
    <2>3. lock' = IF j.op \in Locked THEN lock \ {j.site} ELSE lock
      BY DEF Return, Op, Site
    <2>4. \A q \in Procs : job'[q].op \in Locked <=> q # p /\ job[q].op \in Locked
      BY <1>0, <1>1, StepFacts, IdleFacts DEF Locked
    <2>5. \A q \in Procs : q # p => job'[q] = job[q]
      BY <1>0, <1>1, StepFacts
    <2>6. {job'[q].site : q \in {q \in Procs : job'[q].op \in Locked}} = lock'
      <3>1. ASSUME NEW q \in Procs, job'[q].op \in Locked PROVE job'[q].site \in lock'
        <4>1. q # p /\ job[q].op \in Locked /\ job'[q].site = job[q].site
          BY <2>4, <2>5, <3>1
        <4>2. job[q].site \in lock
          BY <2>1, <4>1
        <4>3. j.op \in Locked => job[q].site # j.site
          BY <2>2, <4>1
        <4> QED BY <2>3, <4>1, <4>2, <4>3
      <3>2. ASSUME NEW x \in lock' PROVE \E q \in Procs : job'[q].op \in Locked /\ job'[q].site = x
        <4>1. x \in lock /\ (j.op \in Locked => x # j.site)
          BY <2>3
        <4>2. PICK q \in Procs : job[q].op \in Locked /\ x = job[q].site
          BY <2>1, <4>1
        <4>3. q # p
          BY <4>1, <4>2
        <4> QED BY <2>4, <2>5, <4>2, <4>3
      <3> QED BY <3>1, <3>2
    <2>7. \A q, r \in Procs : job'[q].op \in Locked /\ job'[r].op \in Locked /\ job'[q].site = job'[r].site => q = r
      BY <2>2, <2>4, <2>5
    <2> QED BY <2>6, <2>7 DEF LockInv, Op, Site
  <1>7. OverlapInv'
    <2>1. \A d \in Sites : (Linking(d)' => Linking(d)) /\ (Cutting(d)' => Cutting(d)) /\ (Apart(d)' => Apart(d))
      BY <1>5 DEF Linking, Cutting, Apart, Op, Site
    <2> QED BY <2>1 DEF OverlapInv, IInv
  <1>8. MemberInv'
    BY <1>0, <1>1, <1>2, MemberKept DEF IInv, tables
  <1>9. LinkInv'
    BY <1>0, <1>1, <1>2, LinkKept DEF IInv, tables
  <1>10. DataInv'
    BY DEF IInv, DataInv, TableInv, tables
  <1> QED BY <1>1, <1>3, <1>4, <1>6, <1>7, <1>8, <1>9, <1>10, Assemble

LEMMA EndStep ==
  ASSUME IInv, NEW p \in Procs, End(p)
  PROVE  IInv'
  <1>1. PICK l, j : l = pc[p] /\ j = job[p]
    OBVIOUS
  <1>2. l = "done"
    BY <1>1 DEF End, At
  <1>3. Steady(l, j, "idle", Idle)
    <2>1. \A n, d, s : ~Answers(l, j, n, d, s)
      BY <1>2 DEF Answers, Attaching
    <2> QED BY <2>1 DEF Steady, End, Whole, tables, docker
  <1>4. DockerInv' /\ MildBox(j)
    BY DEF End, IInv, DataInv, DockerInv, MildBox, docker
  <1> QED BY <1>1, <1>2, <1>3, <1>4, ReturnStep, TroubleFacts DEF End, IInv, DataInv, docker

(* An error in the middle is on record before another request can look. *)
LEMMA AbortStep ==
  ASSUME IInv, NEW p \in Procs, NEW l, NEW j, l = pc[p], j = job[p], j.op \in Locked, j.op \notin {"delete", "transfer"},
         l \notin {"idle", "forget", "cut"}, Abort(p),
         DockerInv', link' \subseteq link, bridge' = bridge,
         \A d \in Sites : d # j.site => box'[d] = box[d],
         \A x \in link : x[2] # j.site => x \in link'
  PROVE  IInv'
  <1>1. j.site \in Sites
    BY SetNow
  <1>2. excuse' = excuse \cup {<<j.site, "missed">>} /\ UNCHANGED tables
    BY DEF Abort, Blame, Site
  <1>3. MildBox(j)
    BY DEF MildBox
  <1>4. Steady(l, j, "idle", Idle)
    <2> SUFFICES ASSUME NEW d \in Sites, NEW n \in Nets, NEW c \in Slots, Whole(d)', <<n, d>> \in member,
                        box'[d][c] = "running"
                 PROVE  /\ Whole(d) /\ box[d][c] = "running" /\ ~Answers(l, j, n, d, c)
                        /\ <<n, d, c>> \in link => <<n, d, c>> \in link'
      BY <1>2 DEF Steady, tables
    <2>1. d # j.site /\ Whole(d)
      BY <1>2 DEF Whole
    <2>2. ~Answers(l, j, n, d, c)
      BY <2>1 DEF Answers
    <2> QED BY <2>1, <2>2
  <1> QED BY <1>1, <1>2, <1>3, <1>4, ReturnStep, TroubleFacts DEF Abort, IInv, DataInv, Whys

LEMMA SetAbort ==
  ASSUME IInv, NEW p \in Procs, NEW l, NEW j, l = pc[p], j = job[p], j.op \in Locked, j.op \notin {"delete", "transfer"},
         l \notin {"idle", "forget", "cut"}, NEW S \in SUBSET Slots, NEW s \in States, Set(j.site, S, s), Abort(p)
  PROVE  IInv'
  <1>1. j.site \in Sites /\ DockerInv
    BY SetNow
  <1>2. IsSet(j.site, S, s)
    BY <1>1, SetFacts
  <1>3. \A x \in link : x[2] # j.site => x \in link'
    BY <1>2 DEF IsSet
  <1> QED BY <1>2, <1>3, AbortStep DEF IsSet

LEMMA StartStep ==
  ASSUME IInv, NEW p \in Procs, Start(p)
  PROVE  IInv'
  <1>1. PICK l, j, E : l = pc[p] /\ j = job[p] /\ E = Existing(j.site)
    OBVIOUS
  <1>2. l = "locked" /\ j.op = "start" /\ j.op \in Locked
    BY <1>1 DEF Start, At, Op, Locked
  <1>3. /\ j \in Job /\ Fits(l, j) /\ j.site \in Sites /\ DockerInv /\ ProcInv
        /\ excuse \subseteq Sites \X Whys /\ troubles \in 0..MaxTroubles
    BY <1>1, <1>2, SetNow
  <1>4. E \in SUBSET Slots /\ Site(p) = j.site
    BY <1>1, <1>3, RunningFacts DEF Site
  <1>5. CASE Set(Site(p), E, "running") /\ Goto(p, "nets") /\ UNCHANGED <<lock, tables, job, excuse>> /\ Fine
    <2>1. Step(p, l, j, "nets", j) /\ Same(j, j)
      BY <1>1, <1>3, <1>5, GotoStep DEF Labels
    <2>2. Fits("nets", j) /\ Good("nets", j)'
      BY <1>2, <1>3, GoodQuiet DEF Fits, Attaching
    <2>3. \A n, c : Answers("nets", j, n, j.site, c)
      BY <1>2 DEF Answers, Links
    <2> QED BY <1>2, <1>3, <1>4, <1>5, <2>1, <2>2, <2>3, SetStep, TroubleFacts DEF States
  <1>6. ASSUME NEW S \in SUBSET E, Set(Site(p), S, "running"), Abort(p) PROVE IInv'
    BY <1>1, <1>2, <1>4, <1>6, SetAbort DEF States
  <1> QED BY <1>1, <1>4, <1>5, <1>6 DEF Start

LEMMA RecreateStep ==
  ASSUME IInv, NEW p \in Procs, Recreate(p)
  PROVE  IInv'
  <1>1. PICK l, j, E : l = pc[p] /\ j = job[p] /\ E = Existing(j.site)
    OBVIOUS
  <1>2. l = "remake" /\ j.op = "update" /\ j.op \in Locked
    BY <1>1, Now DEF Recreate, At, Locked, Fits
  <1>3. /\ j \in Job /\ Fits(l, j) /\ j.site \in Sites /\ DockerInv /\ ProcInv
        /\ excuse \subseteq Sites \X Whys /\ troubles \in 0..MaxTroubles
    BY <1>1, <1>2, SetNow
  <1>4. E \in SUBSET Slots /\ Site(p) = j.site /\ j.seen \in SUBSET Slots
    BY <1>1, <1>3, RunningFacts, JobFacts DEF Site
  <1>5. CASE Set(Site(p), E \cup j.seen, "running") /\ Goto(p, "nets") /\ UNCHANGED <<lock, tables, job, excuse>> /\ Fine
    <2>1. Step(p, l, j, "nets", j) /\ Same(j, j)
      BY <1>1, <1>3, <1>5, GotoStep DEF Labels
    <2>2. Fits("nets", j) /\ Good("nets", j)'
      BY <1>2, <1>3, GoodQuiet DEF Fits, Attaching
    <2>3. \A n, c : Answers("nets", j, n, j.site, c)
      BY <1>2 DEF Answers, Links
    <2> QED BY <1>2, <1>3, <1>4, <1>5, <2>1, <2>2, <2>3, SetStep, TroubleFacts DEF States
  <1>6. ASSUME NEW S \in SUBSET j.seen, Set(Site(p), S, "running"), Abort(p) PROVE IInv'
    BY <1>1, <1>2, <1>4, <1>6, SetAbort DEF States
  <1> QED BY <1>1, <1>4, <1>5, <1>6 DEF Recreate

LEMMA BounceStep ==
  ASSUME IInv, NEW p \in Procs, Bounce(p)
  PROVE  IInv'
  <1>1. PICK l, j, S : l = pc[p] /\ j = job[p] /\ S = Existing(j.site)
    OBVIOUS
  <1>2. l = "locked" /\ j.op = "bounce" /\ j.op \in Locked
    BY <1>1 DEF Bounce, At, Op, Locked
  <1>3. /\ j \in Job /\ Fits(l, j) /\ j.site \in Sites /\ DockerInv /\ ProcInv
        /\ excuse \subseteq Sites \X Whys /\ troubles \in 0..MaxTroubles
    BY <1>1, <1>2, SetNow
  <1>4. Step(p, l, j, "done", j) /\ Same(j, j)
    BY <1>1, <1>3, GotoStep DEF Bounce, Labels
  <1>5. S \in SUBSET Slots /\ Set(j.site, S, "running") /\ Site(p) = j.site
    BY <1>1, <1>3, RunningFacts DEF Bounce, Site
  <1>6. Fits("done", j) /\ Good("done", j)'
    BY <1>2, <1>3, FitsDone, GoodQuiet
  <1>7. excuse \subseteq excuse' /\ excuse' \subseteq Sites \X Whys
    BY <1>3, <1>5 DEF Bounce, Blame, Whys
  <1>8. ASSUME Whole(j.site)', NEW c \in Slots, box'[j.site][c] = "running" PROVE box[j.site][c] = "running"
    <2>1. <<j.site, "bounced">> \notin excuse'
      BY <1>8 DEF Whole
    <2>2. Existing(j.site) = Running(j.site)
      BY <1>5, <2>1 DEF Bounce, Blame
    <2>3. IsSet(j.site, S, "running")
      BY <1>3, <1>5, SetFacts DEF States
    <2> QED BY <1>1, <1>3, <1>8, <2>2, <2>3, RunningFacts DEF IsSet
  <1>9. \A n, d, s : ~Answers(l, j, n, d, s)
    BY <1>2 DEF Answers, Links, Attaching
  <1> QED BY <1>2, <1>3, <1>4, <1>5, <1>6, <1>7, <1>8, <1>9, SetStep, TroubleFacts DEF Bounce, States

LEMMA DownStep ==
  ASSUME IInv, NEW p \in Procs, Down(p)
  PROVE  IInv'
  <1>1. PICK l, j, E : l = pc[p] /\ j = job[p] /\ E = Existing(j.site)
    OBVIOUS
  <1>2. l = "rollback" /\ j.op \in {"create", "destroy"} /\ j.op \in Locked
    BY <1>1, Now DEF Down, At, Locked, Fits
  <1>3. /\ j \in Job /\ Fits(l, j) /\ Good(l, j) /\ j.site \in Sites /\ DockerInv /\ ProcInv
        /\ excuse \subseteq Sites \X Whys /\ troubles \in 0..MaxTroubles
    BY <1>1, <1>2, SetNow
  <1>4. E \in SUBSET Slots /\ Site(p) = j.site
    BY <1>1, <1>3, RunningFacts DEF Site
  <1>5. ASSUME Set(Site(p), Slots, "absent"), Goto(p, IF Op(p) = "create" THEN "forget" ELSE "unrow"),
               UNCHANGED <<lock, tables, job, excuse>>, Fine
        PROVE  IInv'
    <2>1. PICK m \in {"forget", "unrow"} : Goto(p, m)
      BY <1>5
    <2>2. Step(p, l, j, m, j) /\ Same(j, j)
      BY <1>1, <1>3, <1>5, <2>1, GotoStep DEF Labels
    <2>3. IsSet(j.site, Slots, "absent")
      BY <1>3, <1>4, <1>5, SetFacts DEF States
    <2>4. \A c \in Slots : box'[j.site][c] = "absent"
      BY <2>3 DEF IsSet
    <2>5. Fits(m, j)
      BY <1>2, <1>3 DEF Fits, Attaching
    <2>6. j.op = "create" /\ Apart(j.site)' => \A n \in Nets : <<n, j.site>> \notin member'
      BY <1>3, <1>5 DEF Good, SiteOk, Apart, tables
    <2>7. Good(m, j)'
      BY <1>2, <2>4, <2>6 DEF Good, SiteOk, AttachOk, CutOk, NetOk, Attaching
    <2> QED BY <1>2, <1>3, <1>4, <1>5, <2>2, <2>4, <2>5, <2>7, SetStep, TroubleFacts DEF States
  <1>6. ASSUME NEW S \in SUBSET E, Set(Site(p), S, "absent"), Abort(p), Op(p) = "destroy" PROVE IInv'
    BY <1>1, <1>2, <1>4, <1>6, SetAbort DEF States
  <1> QED BY <1>1, <1>4, <1>5, <1>6 DEF Down

LEMMA ScaledFacts ==
  ASSUME DockerInv, NEW d \in Sites, NEW T \in SUBSET Slots, Scaled(d, T), box[d][Base] # "absent"
  PROVE  /\ DockerInv' /\ bridge' = bridge /\ link' \subseteq link
         /\ \A e \in Sites : e # d => box'[e] = box[e]
         /\ \A x \in link : x[2] # d => x \in link'
  <1>1. bridge' = bridge /\ link' \subseteq link
    BY DEF Scaled
  <1>2. \A e \in Sites : e # d => box'[e] = box[e]
    BY DEF Scaled, DockerInv
  <1>3. \A x \in link : x[2] # d => x \in link'
    BY DEF Scaled
  <1>4. \A c \in Slots : box'[d][c] = IF c \in T THEN "running" ELSE IF c = Base THEN "stopped" ELSE "absent"
    BY DEF Scaled, DockerInv
  <1>5. box' \in [Sites -> [Slots -> States]]
    BY DEF Scaled, DockerInv, States
  <1>6. ASSUME NEW x \in link' PROVE x[1] \in bridge' /\ box'[x[2]][x[3]] # "absent"
    <2>1. x \in link /\ x[1] \in bridge /\ box[x[2]][x[3]] # "absent" /\ x[2] \in Sites /\ x[3] \in Slots
      BY <1>1 DEF DockerInv
    <2>2. CASE x[2] = d
      <3>1. x[3] \in T \cup {Base}
        BY <2>2 DEF Scaled
      <3> QED BY <1>1, <1>4, <2>1, <2>2, <3>1
    <2>3. CASE x[2] # d
      BY <1>1, <1>2, <2>1, <2>3
    <2> QED BY <2>2, <2>3
  <1> QED BY <1>1, <1>2, <1>3, <1>5, <1>6 DEF DockerInv

LEMMA ScaleStep ==
  ASSUME IInv, NEW p \in Procs, Scale(p)
  PROVE  IInv'
  <1>1. PICK l, j : l = pc[p] /\ j = job[p]
    OBVIOUS
  <1>2. l = "locked" /\ j.op = "scale" /\ j.op \in Locked /\ Site(p) = j.site
    BY <1>1 DEF Scale, At, Op, Locked, Site
  <1>3. /\ j \in Job /\ Fits(l, j) /\ j.site \in Sites /\ DockerInv /\ ProcInv
        /\ excuse \subseteq Sites \X Whys /\ troubles \in 0..MaxTroubles
    BY <1>1, <1>2, SetNow
  <1>4. CASE Return(p) /\ UNCHANGED <<tables, docker, excuse>> /\ Fine
    <2>1. Steady(l, j, "idle", Idle)
      <3>1. \A n, d, s : ~Answers(l, j, n, d, s)
        BY <1>2 DEF Answers, Attaching
      <3> QED BY <1>4, <3>1 DEF Steady, Whole, tables, docker
    <2>2. DockerInv' /\ MildBox(j)
      BY <1>3, <1>4 DEF DockerInv, MildBox, docker
    <2> QED BY <1>1, <1>2, <1>3, <1>4, <2>1, <2>2, ReturnStep, TroubleFacts DEF docker
  <1>5. ASSUME Base \in Existing(j.site), NEW T \in SUBSET Slots, Scaled(j.site, T),
               \/ Goto(p, "nets") /\ UNCHANGED <<lock, tables, job, excuse>> /\ Fine
               \/ Abort(p)
        PROVE  IInv'
    <2>1. box[j.site][Base] # "absent"
      BY <1>5 DEF Existing
    <2>2. /\ DockerInv' /\ bridge' = bridge /\ link' \subseteq link
          /\ \A e \in Sites : e # j.site => box'[e] = box[e]
          /\ \A x \in link : x[2] # j.site => x \in link'
      BY <1>3, <1>5, <2>1, ScaledFacts
    <2>3. CASE Abort(p)
      BY <1>1, <1>2, <2>2, <2>3, AbortStep
    <2>4. CASE Goto(p, "nets") /\ UNCHANGED <<lock, tables, job, excuse>> /\ Fine
      <3>1. Step(p, l, j, "nets", j) /\ Same(j, j)
        BY <1>1, <1>3, <2>4, GotoStep DEF Labels
      <3>2. Fits("nets", j) /\ Good("nets", j)'
        BY <1>2, <1>3, GoodQuiet DEF Fits, Attaching
      <3>3. Steady(l, j, "nets", j)
        <4> SUFFICES ASSUME NEW d \in Sites, NEW n \in Nets, NEW c \in Slots, Whole(d)', <<n, d>> \in member,
                            box'[d][c] = "running", ~Answers("nets", j, n, d, c)
                     PROVE  /\ Whole(d) /\ box[d][c] = "running" /\ ~Answers(l, j, n, d, c)
                            /\ <<n, d, c>> \in link => <<n, d, c>> \in link'
          BY <2>4 DEF Steady, tables
        <4>1. d # j.site /\ Whole(d)
          BY <1>2, <2>4 DEF Whole, Answers, Links
        <4>2. ~Answers(l, j, n, d, c)
          BY <1>2 DEF Answers, Attaching
        <4> QED BY <2>2, <4>1, <4>2
      <3>4. MildExcuse /\ MildBridge /\ MildBox(j) /\ MildOwes(l, j, "nets", j)
        BY <1>2, <2>2, <2>4 DEF MildExcuse, MildBridge, MildBox, MildOwes, Owes, Apart, Loose
      <3>5. DataInv'
        BY <1>3, <2>2, <2>4, TroubleFacts DEF IInv, DataInv, TableInv, tables
      <3> QED BY <1>2, <2>2, <2>4, <3>1, <3>2, <3>3, <3>4, <3>5, Light
    <2> QED BY <1>5, <2>3, <2>4
  <1> QED BY <1>2, <1>4, <1>5 DEF Scale

LEMMA ReconnectStep ==
  ASSUME IInv, NEW p \in Procs, Reconnect(p)
  PROVE  IInv'
  <1>1. PICK l, j, T, k : l = pc[p] /\ j = job[p] /\ T = NetsOf(j.site) \X {j.site} /\ k = [j EXCEPT !.todo = T]
    OBVIOUS
  <1>2. l = "nets" /\ j \in Job /\ Fits(l, j) /\ j.op \in {"start", "update", "scale"} /\ j.site \in Sites /\ Site(p) = j.site
    BY <1>1, Now DEF Reconnect, At, Op, Fits, Links, Site
  <1>3. T \in SUBSET (Nets \X Sites) /\ T \subseteq Nets \X {j.site} /\ T \subseteq member
    BY <1>1, <1>2 DEF NetsOf
  <1>4. /\ k \in Job /\ k.op = j.op /\ k.site = j.site /\ k.net = j.net /\ k.who = j.who /\ k.seen = j.seen
        /\ k.todo = T
    BY <1>1, <1>2, <1>3 DEF Job
  <1>5. Step(p, l, j, "list", k) /\ Same(j, k)
    BY <1>1, <1>4 DEF Step, Same, Reconnect, Goto, Labels, Site, IInv, ProcInv
  <1>6. Fits("list", k)
    <2>1. k # Idle
      BY <1>2, <1>4, IdleFacts
    <2> QED BY <1>2, <1>3, <1>4, <2>1 DEF Fits, Attaching, Cuts, Locked, Links
  <1>7. excuse' = excuse \ {<<j.site, "missed">>, <<j.site, "bounced">>}
    BY <1>2 DEF Reconnect
  <1>8. MildExcuse /\ MildBridge /\ MildBox(j) /\ MildOwes(l, j, "list", k)
    BY <1>2, <1>7 DEF MildExcuse, MildBridge, MildBox, MildOwes, Owes, Apart, Loose, Reconnect, docker
  <1>9. Good("list", k)'
    <2>1. k.todo \subseteq member'
      BY <1>3, <1>4 DEF Reconnect, tables
    <2> QED BY <1>2, <1>4, <2>1 DEF Good, SiteOk, AttachOk, CutOk, NetOk, Attaching
  <1>10. Steady(l, j, "list", k)
    <2> SUFFICES ASSUME NEW d \in Sites, NEW n \in Nets, NEW c \in Slots, Whole(d)', <<n, d>> \in member,
                        ~Answers("list", k, n, d, c)
                 PROVE  Whole(d) /\ ~Answers(l, j, n, d, c)
      BY DEF Steady, tables, docker, Reconnect
    <2>1. d # j.site
      <3>1. d = j.site => <<n, d>> \in k.todo
        BY <1>1, <1>4 DEF NetsOf
      <3> QED BY <1>2, <1>4, <3>1 DEF Answers, Links, Attaching
    <2>2. Whole(d)
      BY <1>7, <2>1 DEF Whole
    <2> QED BY <1>2, <2>1, <2>2 DEF Answers
  <1>11. DataInv'
    BY <1>7, TroubleFacts DEF IInv, DataInv, TableInv, DockerInv, tables, docker, Reconnect
  <1> QED BY <1>2, <1>5, <1>6, <1>8, <1>9, <1>10, <1>11, Light DEF Reconnect, docker

LEMMA ListStep ==
  ASSUME IInv, NEW p \in Procs, List(p)
  PROVE  IInv'
  <1>1. PICK l, j : l = pc[p] /\ j = job[p]
    OBVIOUS
  <1>2. l = "list" /\ j \in Job /\ Fits(l, j) /\ Good(l, j) /\ j.op \in Links /\ j.site \in Sites
    BY <1>1, Now DEF List, At, Fits, Links, Attaching
  <1>3. PICK t \in j.todo :
       \/ /\ bridge' = bridge \cup {t[1]} /\ Goto(p, "connect") /\ Fine
          /\ job' = [job EXCEPT ![p].net = t[1], ![p].seen = Running(t[2]), ![p].todo = @ \ {t}]
          /\ UNCHANGED excuse
       \/ /\ Trouble /\ Blame(t[2], "missed") /\ UNCHANGED <<bridge, pc>>
          /\ job' = [job EXCEPT ![p].todo = @ \ {t}]
    BY <1>1 DEF List
  <1>4. PICK n \in Nets : t = <<n, j.site>>
    BY <1>2 DEF Fits, Attaching
  <1>5. j.todo \in SUBSET (Nets \X Sites) /\ j.todo \subseteq Nets \X {j.site} /\ t[1] = n /\ t[2] = j.site
    BY <1>2, <1>4, JobFacts DEF Fits, Attaching
  <1>6. PICK R : R = Running(j.site)
    OBVIOUS
  <1>7. R \in SUBSET Slots /\ DockerInv /\ ProcInv /\ excuse \subseteq Sites \X Whys /\ troubles \in 0..MaxTroubles
    BY <1>2, <1>6, RunningFacts DEF IInv, DataInv
  <1>8. Apart(j.site) => j.todo \subseteq member
    BY <1>2 DEF Good, AttachOk, Attaching
  <1>9. /\ UNCHANGED <<lock, tables, box, link>>
        /\ UNCHANGED <<owner, netOwner, member>>
    BY DEF List, tables
  <1>10. CASE /\ bridge' = bridge \cup {t[1]} /\ Goto(p, "connect") /\ Fine
              /\ job' = [job EXCEPT ![p].net = t[1], ![p].seen = Running(t[2]), ![p].todo = @ \ {t}]
              /\ UNCHANGED excuse
    <2>1. PICK k : k = [j EXCEPT !.net = n, !.seen = R, !.todo = j.todo \ {t}]
      OBVIOUS
    <2>2. /\ k \in Job /\ k.op = j.op /\ k.site = j.site /\ k.net = n /\ k.who = j.who /\ k.seen = R
          /\ k.todo = j.todo \ {t}
      BY <1>2, <1>5, <1>7, <2>1 DEF Job
    <2>3. job' = [job EXCEPT ![p] = k]
      BY <1>1, <1>5, <1>6, <1>7, <1>10, <2>1 DEF ProcInv
    <2>4. Step(p, l, j, "connect", k) /\ Same(j, k)
      BY <1>1, <1>10, <2>2, <2>3 DEF Step, Same, Goto, Labels
    <2>5. Fits("connect", k)
      <3>1. k # Idle
        BY <1>2, <2>2, IdleFacts DEF Links
      <3> QED BY <1>2, <1>5, <2>2, <3>1 DEF Fits, Attaching, Cuts, Locked, Links
    <2>6. MildExcuse /\ MildBridge /\ MildBox(j) /\ MildOwes(l, j, "connect", k)
      BY <1>2, <1>9, <1>10 DEF MildExcuse, MildBridge, MildBox, MildOwes, Owes, Apart, Loose
    <2>7. Good("connect", k)'
      <3>1. Apart(k.site)' => Apart(j.site)
        BY <1>10, <2>2 DEF Apart
      <3>2. Apart(k.site)' => k.todo \subseteq member' /\ <<k.net, k.site>> \in member' /\ k.net \in bridge'
        BY <1>3, <1>4, <1>5, <1>8, <1>9, <1>10, <2>2, <3>1
      <3> QED BY <1>2, <2>2, <3>2 DEF Good, SiteOk, AttachOk, CutOk, NetOk, Attaching, Links
    <2>8. Steady(l, j, "connect", k)
      <3> SUFFICES ASSUME NEW e \in Nets, NEW d \in Sites, NEW c \in Slots, box[d][c] = "running", Answers(l, j, e, d, c)
                   PROVE  Answers("connect", k, e, d, c)
        BY <1>9, <1>10 DEF Steady, Whole
      <3>1. d = j.site /\ <<e, d>> \in j.todo
        BY <1>2 DEF Answers, Attaching, Links
      <3>2. CASE <<e, d>> = t
        <4>1. c \in R /\ e = n
          BY <1>4, <1>6, <1>7, <3>1, <3>2, RunningFacts
        <4> QED BY <1>2, <2>2, <3>1, <4>1 DEF Answers
      <3>3. CASE <<e, d>> # t
        BY <1>2, <2>2, <3>1, <3>3 DEF Answers, Attaching
      <3> QED BY <3>2, <3>3
    <2>9. DataInv'
      BY <1>5, <1>7, <1>9, <1>10, TroubleFacts DEF IInv, DataInv, TableInv, DockerInv
    <2> QED BY <1>2, <1>9, <2>4, <2>5, <2>6, <2>7, <2>8, <2>9, Light
  <1>11. CASE /\ Trouble /\ Blame(t[2], "missed") /\ UNCHANGED <<bridge, pc>>
              /\ job' = [job EXCEPT ![p].todo = @ \ {t}]
    <2>1. PICK k : k = [j EXCEPT !.todo = j.todo \ {t}]
      OBVIOUS
    <2>2. /\ k \in Job /\ k.op = j.op /\ k.site = j.site /\ k.net = j.net /\ k.who = j.who /\ k.seen = j.seen
          /\ k.todo = j.todo \ {t}
      BY <1>2, <1>5, <1>7, <2>1 DEF Job
    <2>3. job' = [job EXCEPT ![p] = k]
      BY <1>1, <1>7, <1>11, <2>1 DEF ProcInv
    <2>4. Step(p, l, j, "list", k) /\ Same(j, k)
      BY <1>1, <1>2, <1>7, <1>11, <2>2, <2>3 DEF Step, Same, Labels, ProcInv
    <2>5. Fits("list", k)
      <3>1. k # Idle
        BY <1>2, <2>2, IdleFacts DEF Links
      <3> QED BY <1>2, <1>5, <2>2, <3>1 DEF Fits, Attaching, Cuts, Locked, Links
    <2>0. excuse' = excuse \cup {<<j.site, "missed">>}
      BY <1>5, <1>11 DEF Blame
    <2>6. MildExcuse /\ MildBridge /\ MildBox(j) /\ MildOwes(l, j, "list", k)
      BY <1>2, <1>9, <1>11, <2>0 DEF MildExcuse, MildBridge, MildBox, MildOwes, Owes, Apart, Loose
    <2>7. Good("list", k)'
      <3>1. Apart(k.site)' => Apart(j.site)
        BY <2>0, <2>2 DEF Apart
      <3>2. Apart(k.site)' => k.todo \subseteq member'
        BY <1>8, <1>9, <2>2, <3>1
      <3> QED BY <1>2, <2>2, <3>2 DEF Good, SiteOk, AttachOk, CutOk, NetOk, Attaching, Links
    <2>8. Steady(l, j, "list", k)
      <3> SUFFICES ASSUME NEW e \in Nets, NEW d \in Sites, NEW c \in Slots, Whole(d)'
                   PROVE  Whole(d) /\ ~Answers(l, j, e, d, c)
        BY <1>9 DEF Steady
      <3>1. Whole(d) /\ d # j.site
        BY <2>0 DEF Whole
      <3> QED BY <1>2, <3>1 DEF Answers, Links
    <2>9. DataInv'
      BY <1>2, <1>7, <1>9, <1>11, <2>0, TroubleFacts DEF IInv, DataInv, TableInv, DockerInv, Whys
    <2> QED BY <1>2, <1>9, <2>4, <2>5, <2>6, <2>7, <2>8, <2>9, Light
  <1> QED BY <1>3, <1>10, <1>11

(* A step that changes rows or attaches containers. *)
LEMMA MidStep ==
  ASSUME IInv, NEW p \in Procs, NEW l, NEW j, NEW m, NEW k, Step(p, l, j, m, k), Same(j, k), lock' = lock,
         Mild(l, j, m, k), Steady(l, j, m, k), Fits(m, k), DataInv', MemberInv', LinkInv', Good(m, k)'
  PROVE  IInv'
  <1>1. LockInv'
    BY MidLock DEF IInv
  <1>2. OverlapInv'
    BY MidOverlap DEF IInv, Mild
  <1> QED BY <1>1, <1>2, Assemble

LEMMA ConnectStep ==
  ASSUME IInv, NEW p \in Procs, Connect(p)
  PROVE  IInv'
  <1>1. PICK l, j, R : l = pc[p] /\ j = job[p] /\ R = Running(j.site)
    OBVIOUS
  <1>2. /\ l = "connect" /\ j \in Job /\ Fits(l, j) /\ Good(l, j) /\ j.op \in Links /\ j.site \in Sites
        /\ j.net \in Nets /\ Linking(j.site) /\ Site(p) = j.site /\ Net(p) = j.net
    <2>1. l = "connect" /\ j \in Job /\ Fits(l, j) /\ Good(l, j)
      BY <1>1, Now DEF Connect, At
    <2>2. j.op \in Links /\ j.net \in Nets
      BY <2>1 DEF Fits, Attaching
    <2> QED BY <1>1, <2>1, <2>2, LinkCut DEF IInv, Site, Net
  <1>3. /\ R \in SUBSET Slots /\ DockerInv /\ ProcInv /\ excuse \subseteq Sites \X Whys /\ troubles \in 0..MaxTroubles
        /\ j.seen \in SUBSET Slots /\ j.todo \subseteq Nets \X {j.site}
    BY <1>1, <1>2, RunningFacts, JobFacts DEF IInv, DataInv, Fits, Attaching
  <1>4. UNCHANGED <<lock, owner, netOwner, member, box, bridge, job>> /\ Goto(p, "list")
    BY DEF Connect, tables
  <1>5. Step(p, l, j, "list", j) /\ Same(j, j)
    BY <1>1, <1>3, <1>4, GotoStep DEF Labels
  <1>6. Fits("list", j)
    BY <1>2, <1>3 DEF Fits, Attaching
  <1>7. excuse \subseteq excuse' /\ excuse' \subseteq Sites \X Whys /\ troubles' \in 0..MaxTroubles
    BY <1>2, <1>3, TroubleFacts DEF Connect, Blame, Whys
  <1>8. /\ link \subseteq link'
        /\ \A x \in link' : x \in link \/ (j.net \in bridge /\ x \in {j.net} \X {j.site} \X (j.seen \cap R))
    BY <1>1, <1>2 DEF Connect
  <1>9. \/ {j.net} \X {j.site} \X (j.seen \cap R) \subseteq link' \/ j.net \notin bridge
        \/ <<j.site, "missed">> \in excuse'
    BY <1>1, <1>2 DEF Connect, Blame
  <1>10. Apart(j.site)' => Apart(j.site) /\ j.todo \subseteq member /\ <<j.net, j.site>> \in member /\ j.net \in bridge
    BY <1>2, <1>7 DEF Apart, Good, AttachOk, Attaching
  <1>11. MildExcuse
    BY <1>7 DEF MildExcuse, Apart, Loose
  <1>12. Mild(l, j, "list", j)
    <2>1. ASSUME NEW x \in link' PROVE x \in link \/ Linking(x[2])
      BY <1>2, <1>8
    <2> QED BY <1>2, <1>4, <1>11, <2>1 DEF Mild, MildMember, MildOwner, MildNet, MildBridge, MildLink, MildBox, MildOwes, Owes
  <1>13. Steady(l, j, "list", j)
    <2> SUFFICES ASSUME NEW d \in Sites, NEW n \in Nets, NEW c \in Slots, Whole(d)', box[d][c] = "running",
                        <<n, d, c>> \notin link', ~Answers("list", j, n, d, c), Answers(l, j, n, d, c)
                 PROVE  FALSE
      BY <1>4, <1>7, <1>8 DEF Steady, Whole
    <2>1. d = j.site /\ j.net = n /\ c \in j.seen
      BY <1>2 DEF Answers, Attaching, Links
    <2>2. c \in R
      BY <1>1, <1>2, <1>3, <2>1, RunningFacts
    <2>3. Apart(j.site)' /\ <<j.site, "missed">> \notin excuse'
      BY <2>1 DEF Whole, Apart
    <2> QED BY <1>9, <1>10, <2>1, <2>2, <2>3
  <1>14. DockerInv'
    <2>1. ASSUME NEW x \in link' PROVE x \in Nets \X Sites \X Slots /\ x[1] \in bridge' /\ box'[x[2]][x[3]] # "absent"
      <3>1. CASE x \in link
        BY <1>3, <1>4, <3>1 DEF DockerInv
      <3>2. CASE j.net \in bridge /\ x \in {j.net} \X {j.site} \X (j.seen \cap R)
        <4>1. x[1] = j.net /\ x[2] = j.site /\ x[3] \in R /\ x \in Nets \X Sites \X Slots
          BY <1>2, <1>3, <3>2
        <4>2. box[j.site][x[3]] = "running"
          BY <1>1, <1>2, <1>3, <4>1, RunningFacts
        <4> QED BY <1>4, <3>2, <4>1, <4>2
      <3> QED BY <1>8, <3>1, <3>2
    <2> QED BY <1>3, <1>4, <2>1 DEF DockerInv
  <1>15. DataInv'
    BY <1>4, <1>7, <1>14 DEF IInv, DataInv, TableInv
  <1>16. MemberInv'
    BY <1>2, <1>3, <1>4, <1>5, <1>11, MemberKept DEF IInv
  <1>17. LinkInv'
    <2> SUFFICES ASSUME NEW x \in link', NEW n, NEW d, n = x[1], d = x[2], Loose(d)', <<n, d>> \notin member
                 PROVE  Pending(n, d)'
      BY <1>4 DEF LinkInv
    <2>1. x \in link
      <3>1. CASE x \in {j.net} \X {j.site} \X (j.seen \cap R)
        BY <1>10, <3>1 DEF Loose
      <3> QED BY <1>8, <3>1
    <2>2. n \in Nets /\ d \in Sites
      BY <1>3, <2>1 DEF DockerInv
    <2>3. Loose(d)
      BY <1>7 DEF Loose, Apart
    <2>4. Pending(n, d)
      BY <2>1, <2>3 DEF IInv, LinkInv
    <2>5. MildOwes(l, j, "list", j)
      BY <1>12 DEF Mild
    <2> QED BY <1>3, <1>5, <2>2, <2>4, <2>5, PendingKept
  <1>18. Good("list", j)'
    BY <1>2, <1>4, <1>10 DEF Good, SiteOk, AttachOk, CutOk, NetOk, Attaching, Links
  <1> QED BY <1>4, <1>5, <1>6, <1>12, <1>13, <1>15, <1>16, <1>17, <1>18, MidStep

LEMMA CutStep ==
  ASSUME IInv, NEW p \in Procs, Cut(p)
  PROVE  IInv'
  <1>1. PICK l, j : l = pc[p] /\ j = job[p]
    OBVIOUS
  <1>2. l = "cut" /\ j \in Job /\ Fits(l, j) /\ Good(l, j) /\ j.op \in {"leave", "transfer", "delete"}
    BY <1>1, Now DEF Cut, At, Fits
  <1>3. PICK t \in j.todo :
          /\ job' = [job EXCEPT ![p].todo = @ \ {t}]
          /\ \/ link' = link \ ({t[1]} \X {t[2]} \X Slots) /\ UNCHANGED excuse /\ Fine
             \/ Trouble /\ Blame(t[2], "kept") /\ UNCHANGED link
    BY <1>1 DEF Cut
  <1>4. j.todo \in SUBSET (Nets \X Sites)
    BY <1>2, JobFacts
  <1>5. PICK n \in Nets, d \in Sites : t = <<n, d>>
    BY <1>4
  <1>6. DockerInv /\ ProcInv /\ excuse \subseteq Sites \X Whys /\ troubles \in 0..MaxTroubles
    BY DEF IInv, DataInv
  <1>7. UNCHANGED <<lock, tables, box, bridge, pc>>
    BY DEF Cut
  <1>8. PICK k : k = [j EXCEPT !.todo = j.todo \ {t}]
    OBVIOUS
  <1>9. /\ k \in Job /\ k.op = j.op /\ k.site = j.site /\ k.net = j.net /\ k.who = j.who /\ k.seen = j.seen
        /\ k.todo = j.todo \ {t}
    BY <1>2, <1>4, <1>8 DEF Job
  <1>10. Step(p, l, j, "cut", k) /\ Same(j, k)
    <2>1. job' = [job EXCEPT ![p] = k]
      BY <1>1, <1>3, <1>6, <1>8 DEF ProcInv
    <2> QED BY <1>1, <1>2, <1>6, <1>7, <1>9, <2>1 DEF Step, Same, Labels, ProcInv
  <1>11. Fits("cut", k)
    <2>1. k # Idle
      BY <1>2, <1>9, IdleFacts
    <2> QED BY <1>2, <1>9, <2>1 DEF Fits, Attaching, Cuts, Locked, Links
  <1>12. excuse \subseteq excuse' /\ excuse' \subseteq Sites \X Whys /\ troubles' \in 0..MaxTroubles
    BY <1>3, <1>5, <1>6, TroubleFacts DEF Blame, Whys
  <1>13. /\ link' \subseteq link
         /\ \A x \in link : x \in link' \/ (x[1] = n /\ x[2] = d)
         /\ (\A x \in link' : ~(x[1] = n /\ x[2] = d)) \/ ~Loose(d)'
    <2>1. CASE link' = link \ ({t[1]} \X {t[2]} \X Slots)
      <3>1. ASSUME NEW x \in link PROVE x \in {t[1]} \X {t[2]} \X Slots <=> x[1] = n /\ x[2] = d
        BY <1>5, <1>6 DEF DockerInv
      <3> QED BY <2>1, <3>1
    <2>2. CASE Blame(t[2], "kept") /\ UNCHANGED link
      BY <1>5, <2>2 DEF Blame, Loose
    <2> QED BY <1>3, <2>1, <2>2
  <1>14. MildExcuse /\ MildBridge /\ MildBox(j)
    BY <1>7, <1>12 DEF MildExcuse, MildBridge, MildBox, Apart, Loose
  <1>15. MildOwes(l, j, "cut", k)
    BY <1>2, <1>5, <1>9, <1>13 DEF MildOwes, Owes
  <1>16. Steady(l, j, "cut", k)
    <2> SUFFICES ASSUME NEW e \in Nets, NEW f \in Sites, NEW c \in Slots, Whole(f)', <<e, f>> \in member,
                        ~Answers("cut", k, e, f, c)
                 PROVE  Whole(f) /\ ~Answers(l, j, e, f, c) /\ (<<e, f, c>> \in link => <<e, f, c>> \in link')
      BY <1>7 DEF Steady, tables
    <2>1. Whole(f)
      BY <1>12 DEF Whole
    <2>2. ~Answers(l, j, e, f, c)
      BY <1>2, <1>9 DEF Answers, Links, Attaching
    <2>3. ASSUME e = n, f = d PROVE FALSE
      <3>1. CASE j.op = "leave"
        <4>1. e = j.net /\ f = j.site
          BY <1>2, <1>5, <2>3, <3>1 DEF Fits
        <4>2. Apart(j.site)
          BY <2>1, <4>1 DEF Whole, Apart
        <4> QED BY <1>2, <3>1, <4>1, <4>2 DEF Good, CutOk
      <3>2. CASE j.op = "transfer"
        <4>1. f = j.site
          BY <1>2, <1>5, <2>3, <3>2 DEF Fits
        <4> QED BY <1>9, <3>2, <4>1 DEF Answers
      <3>3. CASE j.op = "delete"
        <4>1. e = j.net
          BY <1>2, <1>5, <2>3, <3>3 DEF Fits
        <4> QED BY <1>9, <3>3, <4>1 DEF Answers
      <3> QED BY <1>2, <3>1, <3>2, <3>3
    <2> QED BY <1>13, <2>1, <2>2, <2>3
  <1>17. DataInv'
    BY <1>6, <1>7, <1>12, <1>13 DEF IInv, DataInv, TableInv, DockerInv, tables
  <1>18. Good("cut", k)'
    <2>1. ASSUME NEW x \in link', x[2] \in Sites, Loose(x[2])', Pending(x[1], x[2]), NEW e, NEW f, e = x[1], f = x[2]
          PROVE  Pending(e, f)'
      <3>1. e \in Nets
        BY <1>6, <1>13, <2>1 DEF DockerInv
      <3> QED BY <1>6, <1>10, <1>15, <2>1, <3>1, PendingKept
    <2>2. \A f \in Sites : (Loose(f)' => Loose(f)) /\ (Apart(f)' => Apart(f))
      BY <1>12 DEF Loose, Apart
    <2>3. SiteOk("cut", k)' /\ AttachOk("cut", k)'
      BY <1>2, <1>9 DEF SiteOk, AttachOk, Attaching
    <2>4. j.op \in {"leave", "transfer"} => j.site \in Sites
      BY <1>2 DEF Fits, Cuts
    <2>5. CutOk("cut", k)'
      <3>1. ASSUME j.op = "leave", Apart(j.site)' PROVE <<j.net, j.site>> \notin member'
        BY <1>2, <1>7, <2>2, <2>4, <3>1 DEF Good, CutOk, tables
      <3>2. ASSUME j.op = "transfer", Loose(j.site)', NEW x \in link', x[2] = j.site, NEW e, e = x[1] PROVE Pending(e, j.site)'
        <4>1. Pending(e, j.site)
          BY <1>2, <1>13, <2>2, <2>4, <3>2 DEF Good, CutOk
        <4> QED BY <2>1, <2>4, <3>2, <4>1
      <3> QED BY <1>9, <3>1, <3>2 DEF CutOk
    <2>6. NetOk("cut", k)'
      <3>1. ASSUME NEW f \in Sites, j.op = "delete", Loose(f)', NEW x \in link', x[1] = j.net, x[2] = f PROVE Pending(j.net, f)'
        <4>1. Pending(j.net, f)
          BY <1>2, <1>13, <2>2, <3>1 DEF Good, NetOk
        <4> QED BY <2>1, <3>1, <4>1
      <3> QED BY <1>9, <3>1 DEF NetOk
    <2> QED BY <2>3, <2>5, <2>6 DEF Good
  <1> QED BY <1>2, <1>7, <1>10, <1>11, <1>13, <1>14, <1>15, <1>16, <1>17, <1>18, Light

LEMMA EnsureNetStep ==
  ASSUME IInv, NEW p \in Procs, EnsureNet(p)
  PROVE  IInv'
  <1>1. PICK l, j : l = pc[p] /\ j = job[p]
    OBVIOUS
  <1>2. l = "ensure" /\ j \in Job /\ Fits(l, j) /\ Good(l, j) /\ j.op = "newnet" /\ j.net \in Nets /\ Net(p) = j.net
    BY <1>1, Now DEF EnsureNet, At, Fits, Net
  <1>3. \A n, d, s : ~Answers(l, j, n, d, s)
    BY <1>2 DEF Answers, Links
  <1>4. CASE bridge' = bridge \cup {Net(p)} /\ Goto(p, "done") /\ Fine
    <2>1. Step(p, l, j, "done", j) /\ Same(j, j)
      BY <1>1, <1>4, GotoStep DEF EnsureNet, Labels, IInv
    <2>2. MildExcuse /\ MildBridge /\ MildBox(j) /\ MildOwes(l, j, "done", j)
      BY <1>2, <1>4 DEF MildExcuse, MildBridge, MildBox, MildOwes, Owes, Apart, Loose, EnsureNet
    <2>3. Steady(l, j, "done", j)
      BY <1>3 DEF Steady, Whole, tables, EnsureNet
    <2>4. DataInv'
      BY <1>2, <1>4, TroubleFacts DEF IInv, DataInv, TableInv, DockerInv, tables, EnsureNet
    <2>5. Fits("done", j) /\ Good("done", j)'
      BY <1>2, FitsDone, GoodQuiet
    <2> QED BY <1>2, <2>1, <2>2, <2>3, <2>4, <2>5, Light DEF EnsureNet
  <1>5. CASE Trouble /\ Goto(p, "unwind") /\ UNCHANGED bridge
    <2>1. Step(p, l, j, "unwind", j) /\ Same(j, j)
      BY <1>1, <1>5, GotoStep DEF EnsureNet, Labels, IInv
    <2>2. Fits("unwind", j)
      BY <1>2 DEF Fits, Attaching
    <2>3. Good("unwind", j)'
      <3>1. ASSUME NEW d \in Sites, Apart(d)' PROVE <<j.net, d>> \notin member'
        BY <1>2, <3>1 DEF EnsureNet, Apart, Good, NetOk, tables
      <3> QED BY <1>2, <3>1 DEF Good, SiteOk, AttachOk, CutOk, NetOk, Attaching
    <2> QED BY <1>2, <1>3, <1>5, <2>1, <2>2, <2>3, Walk, TroubleFacts DEF EnsureNet, IInv, DataInv, docker, MildOwes, Owes
  <1> QED BY <1>4, <1>5 DEF EnsureNet

LEMMA RemoveNetStep ==
  ASSUME IInv, NEW p \in Procs, RemoveNet(p)
  PROVE  IInv'
  <1>1. PICK l, j : l = pc[p] /\ j = job[p]
    OBVIOUS
  <1>2. l = "unbridge" /\ j \in Job /\ Fits(l, j) /\ j.op = "delete" /\ j.net \in Nets /\ Net(p) = j.net
    BY <1>1, Now DEF RemoveNet, At, Fits, Net
  <1>3. \A n, d, s : ~Answers(l, j, n, d, s)
    BY <1>2 DEF Answers, Links
  <1>4. Step(p, l, j, "done", j) /\ Same(j, j)
    BY <1>1, GotoStep DEF RemoveNet, Labels, IInv
  <1>5. Fits("done", j) /\ Good("done", j)'
    BY <1>2, FitsDone, GoodQuiet
  <1>6. CASE /\ \A x \in link : x[1] = j.net => box[x[2]][x[3]] # "running"
             /\ bridge' = bridge \ {j.net} /\ link' = {x \in link : x[1] # j.net} /\ Fine
    <2>1. \A d \in Sites : Cutting(d)
      BY <1>1, <1>2, LinkCut DEF IInv
    <2>2. MildExcuse /\ MildBridge /\ MildBox(j) /\ MildOwes(l, j, "done", j)
      BY <1>2, <2>1 DEF MildExcuse, MildBridge, MildBox, MildOwes, Owes, Apart, Loose, RemoveNet
    <2>3. Steady(l, j, "done", j)
      <3>1. ASSUME NEW n \in Nets, NEW d \in Sites, NEW c \in Slots, box[d][c] = "running", <<n, d, c>> \in link
            PROVE  <<n, d, c>> \in link'
        BY <1>6, <3>1
      <3> QED BY <1>3, <3>1 DEF Steady, Whole, tables, RemoveNet
    <2>4. DataInv'
      BY <1>2, <1>6, TroubleFacts DEF IInv, DataInv, TableInv, DockerInv, tables, RemoveNet
    <2> QED BY <1>2, <1>4, <1>5, <1>6, <2>2, <2>3, <2>4, Light DEF RemoveNet
  <1>7. CASE UNCHANGED <<bridge, link>> /\ (Fine \/ Trouble)
    BY <1>2, <1>3, <1>4, <1>5, <1>7, Walk, TroubleFacts DEF RemoveNet, IInv, DataInv, docker, MildOwes, Owes
  <1> QED BY <1>2, <1>6, <1>7 DEF RemoveNet

---------------------------------------------------------------------------------
(* Steps that change rows. *)

(* What was a row is one still, or its containers are about to be cut off. *)
LEMMA LinkRows ==
  ASSUME ProcInv, DataInv, LinkInv, NEW p \in Procs, NEW l, NEW j, NEW m, NEW k, Step(p, l, j, m, k), MildExcuse,
         MildOwes(l, j, m, k), link' = link,
         \A n \in Nets, d \in Sites : (<<n, d>> \in member /\ Loose(d) /\ \E x \in link : x[1] = n /\ x[2] = d) =>
           <<n, d>> \in member' \/ Owes(m, k, n, d) \/ Pending(n, d)
  PROVE  LinkInv'
  <1> SUFFICES ASSUME NEW x \in link', Loose(x[2])', NEW n, NEW d, n = x[1], d = x[2], <<n, d>> \notin member'
               PROVE  Pending(n, d)'
    BY DEF LinkInv
  <1>1. x \in link /\ n \in Nets /\ d \in Sites
    BY DEF DataInv, DockerInv
  <1>2. Loose(d)
    BY <1>1 DEF MildExcuse, Afresh
  <1>3. CASE Pending(n, d)
    BY <1>1, <1>3, PendingKept
  <1>4. CASE Owes(m, k, n, d)
    <2>1. Owes(pc'[p], job'[p], n, d)
      BY <1>4, StepFacts
    <2> QED BY <2>1 DEF Pending, Owes
  <1> QED BY <1>1, <1>2, <1>3, <1>4 DEF LinkInv

(* What the steps on rows have in common. *)
LEMMA RowStep ==
  ASSUME IInv, NEW p \in Procs, NEW l, NEW j, NEW m, NEW k, Step(p, l, j, m, k), Same(j, k),
         UNCHANGED <<lock, docker, troubles>>, TableInv', excuse' \subseteq Sites \X Whys,
         MildExcuse, MildMember, MildOwner, MildNet, l # "cut",
         Fits(m, k), Good(m, k)', MemberInv', Steady(l, j, m, k),
         \A n \in Nets, d \in Sites : (<<n, d>> \in member /\ Loose(d) /\ \E x \in link : x[1] = n /\ x[2] = d) =>
           <<n, d>> \in member' \/ Owes(m, k, n, d) \/ Pending(n, d)
  PROVE  IInv'
  <1>1. MildOwes(l, j, m, k)
    BY DEF MildOwes, Owes
  <1>2. Mild(l, j, m, k)
    BY <1>1 DEF Mild, MildBridge, MildLink, MildBox, docker
  <1>3. DataInv'
    BY DEF IInv, DataInv, DockerInv, docker
  <1>4. LinkInv'
    BY <1>1, LinkRows DEF IInv, docker
  <1> QED BY <1>2, <1>3, <1>4, MidStep

LEMMA InsertSiteStep ==
  ASSUME IInv, NEW p \in Procs, InsertSite(p)
  PROVE  IInv'
  <1>1. PICK l, j : l = pc[p] /\ j = job[p]
    OBVIOUS
  <1>2. /\ l = "insert" /\ j.op = "create" /\ j \in Job /\ Fits(l, j) /\ Good(l, j)
        /\ j.site \in Sites /\ Cutting(j.site) /\ j.who \in Owners /\ Site(p) = j.site
    <2>1. l = "insert" /\ j.op = "create" /\ j \in Job /\ Fits(l, j) /\ Good(l, j)
      BY <1>1, Now DEF InsertSite, At, Op
    <2>2. j.site \in Sites /\ j.who \in Owners
      BY <2>1 DEF Fits, Locked
    <2> QED BY <1>1, <2>1, <2>2, LinkCut DEF IInv, Cuts, Site
  <1>3. UNCHANGED <<lock, netOwner, member, docker, job, excuse, troubles>> /\ owner' = [owner EXCEPT ![j.site] = j.who]
    BY <1>1, <1>2 DEF InsertSite, Fine
  <1>4. Step(p, l, j, "locked", j) /\ Same(j, j)
    BY <1>1, GotoStep DEF InsertSite, Labels, IInv
  <1>5. TableInv'
    BY <1>2, <1>3 DEF IInv, DataInv, TableInv
  <1>6. \A d \in Sites : d # j.site => owner'[d] = owner[d]
    BY <1>3 DEF IInv, DataInv, TableInv
  <1>7. MildExcuse /\ MildMember /\ MildOwner /\ MildNet
    BY <1>2, <1>3, <1>6 DEF MildExcuse, MildMember, MildOwner, MildNet, Apart, Loose
  <1>8. Apart(j.site)' => \A n \in Nets : <<n, j.site>> \notin member'
    BY <1>2, <1>3 DEF Good, SiteOk, Apart
  <1>9. Fits("locked", j) /\ Good("locked", j)'
    BY <1>2, <1>8, GoodCreate DEF Fits, Attaching, Locked
  <1>10. MemberInv'
    <2> SUFFICES ASSUME NEW n \in Nets, NEW d \in Sites, <<n, d>> \in member', Apart(d)'
                 PROVE  netOwner'[n] # Nobody /\ (owner'[d] = netOwner'[n] \/ (owner'[d] = Nobody /\ Forgetting(d)'))
      BY DEF MemberInv
    <2>1. d # j.site
      BY <1>8
    <2>2. netOwner[n] # Nobody /\ (owner[d] = netOwner[n] \/ (owner[d] = Nobody /\ Forgetting(d)))
      BY <1>3 DEF IInv, MemberInv, Apart
    <2>3. Forgetting(d) => Forgetting(d)'
      BY <1>2, <1>4, ForgettingKept DEF IInv
    <2> QED BY <1>3, <1>6, <2>1, <2>2, <2>3
  <1>11. Steady(l, j, "locked", j)
    <2>1. \A n, d, s : ~Answers(l, j, n, d, s)
      BY <1>2 DEF Answers, Links
    <2> QED BY <1>3, <2>1 DEF Steady, Whole, docker
  <1> QED BY <1>2, <1>3, <1>4, <1>5, <1>7, <1>9, <1>10, <1>11, RowStep DEF IInv, DataInv

LEMMA InsertMemberStep ==
  ASSUME IInv, NEW p \in Procs, InsertMember(p)
  PROVE  IInv'
  <1>1. PICK l, j : l = pc[p] /\ j = job[p]
    OBVIOUS
  <1>2. PICK t, k : t = <<j.net, j.site>> /\ k = [j EXCEPT !.todo = {t}]
    OBVIOUS
  <1>3. /\ l = "insert" /\ j.op = "join" /\ j \in Job /\ Fits(l, j) /\ Good(l, j) /\ j.net \in Nets
        /\ j.site \in Sites /\ Linking(j.site) /\ Site(p) = j.site /\ Net(p) = j.net
    <2>1. l = "insert" /\ j.op = "join" /\ j \in Job /\ Fits(l, j) /\ Good(l, j)
      BY <1>1, Now DEF InsertMember, At, Op
    <2>2. j.net \in Nets
      BY <2>1 DEF Fits
    <2> QED BY <1>1, <2>1, <2>2, LinkCut DEF IInv, Links, Site, Net
  <1>4. /\ k \in Job /\ k.op = j.op /\ k.site = j.site /\ k.net = j.net /\ k.who = j.who /\ k.seen = j.seen
        /\ k.todo = {t} /\ t \in Nets \X Sites
    BY <1>2, <1>3 DEF Job
  <1>5. UNCHANGED <<lock, owner, netOwner, docker, excuse, troubles>> /\ member' = member \cup {t}
    BY <1>1, <1>2, <1>3 DEF InsertMember, Fine
  <1>6. Step(p, l, j, "list", k) /\ Same(j, k)
    BY <1>1, <1>2, <1>3, <1>4 DEF Step, Same, InsertMember, Goto, Labels, IInv, ProcInv
  <1>7. TableInv'
    BY <1>4, <1>5 DEF IInv, DataInv, TableInv
  <1>8. MildExcuse /\ MildMember /\ MildOwner /\ MildNet
    BY <1>2, <1>3, <1>5 DEF MildExcuse, MildMember, MildOwner, MildNet, Apart, Loose
  <1>9. Fits("list", k)
    <2>1. k # Idle
      BY <1>3, <1>4, IdleFacts
    <2> QED BY <1>2, <1>3, <1>4, <2>1 DEF Fits, Attaching, Cuts, Locked, Links
  <1>10. Good("list", k)'
    BY <1>3, <1>4, <1>5 DEF Good, SiteOk, AttachOk, CutOk, NetOk, Attaching
  <1>11. MemberInv'
    <2> SUFFICES ASSUME NEW n \in Nets, NEW d \in Sites, <<n, d>> \in member', Apart(d)'
                 PROVE  netOwner'[n] # Nobody /\ (owner'[d] = netOwner'[n] \/ (owner'[d] = Nobody /\ Forgetting(d)'))
      BY DEF MemberInv
    <2>0. Apart(d)
      BY <1>5 DEF Apart
    <2>1. CASE n = j.net /\ d = j.site
      BY <1>3, <1>5, <2>0, <2>1 DEF Good, AttachOk
    <2>2. CASE <<n, d>> \in member
      <3>1. netOwner[n] # Nobody /\ (owner[d] = netOwner[n] \/ (owner[d] = Nobody /\ Forgetting(d)))
        BY <2>0, <2>2 DEF IInv, MemberInv
      <3>2. Forgetting(d) => Forgetting(d)'
        BY <1>3, <1>6, ForgettingKept DEF IInv
      <3> QED BY <1>5, <3>1, <3>2
    <2> QED BY <1>2, <1>5, <2>1, <2>2
  <1>12. Steady(l, j, "list", k)
    <2>1. \A n, d, s : ~Answers(l, j, n, d, s)
      BY <1>3 DEF Answers, Attaching
    <2>2. \A n, d, s : <<n, d>> = t => Answers("list", k, n, d, s)
      BY <1>2, <1>3, <1>4 DEF Answers, Attaching, Links
    <2> QED BY <1>5, <2>1, <2>2 DEF Steady, Whole, docker
  <1> QED BY <1>3, <1>5, <1>6, <1>7, <1>8, <1>9, <1>10, <1>11, <1>12, RowStep DEF IInv, DataInv

LEMMA DeleteMemberStep ==
  ASSUME IInv, NEW p \in Procs, DeleteMember(p)
  PROVE  IInv'
  <1>1. PICK l, j : l = pc[p] /\ j = job[p]
    OBVIOUS
  <1>2. PICK t, k : t = <<j.net, j.site>> /\ k = [j EXCEPT !.todo = {t}]
    OBVIOUS
  <1>3. /\ l = "remove" /\ j.op = "leave" /\ j \in Job /\ Fits(l, j) /\ Good(l, j) /\ j.net \in Nets
        /\ j.site \in Sites /\ Cutting(j.site) /\ Site(p) = j.site /\ Net(p) = j.net
    <2>1. l = "remove" /\ j.op = "leave" /\ j \in Job /\ Fits(l, j) /\ Good(l, j)
      BY <1>1, Now DEF DeleteMember, At, Op
    <2>2. j.net \in Nets
      BY <2>1 DEF Fits
    <2> QED BY <1>1, <2>1, <2>2, LinkCut DEF IInv, Cuts, Site, Net
  <1>4. /\ k \in Job /\ k.op = j.op /\ k.site = j.site /\ k.net = j.net /\ k.who = j.who /\ k.seen = j.seen
        /\ k.todo = {t} /\ t \in Nets \X Sites
    BY <1>2, <1>3 DEF Job
  <1>5. UNCHANGED <<lock, owner, netOwner, docker, excuse, troubles>> /\ member' = member \ {t}
    BY <1>1, <1>2, <1>3 DEF DeleteMember, Fine
  <1>6. Step(p, l, j, "cut", k) /\ Same(j, k)
    BY <1>1, <1>2, <1>3, <1>4 DEF Step, Same, DeleteMember, Goto, Labels, IInv, ProcInv
  <1>7. TableInv'
    BY <1>4, <1>5 DEF IInv, DataInv, TableInv
  <1>8. MildExcuse /\ MildMember /\ MildOwner /\ MildNet
    BY <1>2, <1>3, <1>5 DEF MildExcuse, MildMember, MildOwner, MildNet, Apart, Loose
  <1>9. Fits("cut", k)
    <2>1. k # Idle
      BY <1>3, <1>4, IdleFacts
    <2> QED BY <1>2, <1>3, <1>4, <2>1 DEF Fits, Attaching, Cuts, Locked, Links
  <1>10. Good("cut", k)'
    BY <1>2, <1>3, <1>4, <1>5 DEF Good, SiteOk, AttachOk, CutOk, NetOk, Attaching
  <1>11. MemberInv'
    BY <1>3, <1>5, <1>6, <1>8, MemberKept DEF IInv
  <1>12. Steady(l, j, "cut", k)
    <2>1. \A n, d, s : ~Answers(l, j, n, d, s)
      BY <1>3 DEF Answers, Attaching, Links
    <2> QED BY <1>5, <2>1 DEF Steady, Whole, docker
  <1>13. \A n \in Nets, d \in Sites : <<n, d>> \in member => <<n, d>> \in member' \/ Owes("cut", k, n, d)
    BY <1>4, <1>5 DEF Owes
  <1> QED BY <1>3, <1>5, <1>6, <1>7, <1>8, <1>9, <1>10, <1>11, <1>12, <1>13, RowStep DEF IInv, DataInv

LEMMA LeftAllStep ==
  ASSUME IInv, NEW p \in Procs, LeftAll(p)
  PROVE  IInv'
  <1>1. PICK l, j : l = pc[p] /\ j = job[p]
    OBVIOUS
  <1>2. /\ l = "remove" /\ j.op = "transfer" /\ j \in Job /\ Fits(l, j) /\ Good(l, j)
        /\ j.site \in Sites /\ Cutting(j.site) /\ Site(p) = j.site
    <2>1. l = "remove" /\ j.op = "transfer" /\ j \in Job /\ Fits(l, j) /\ Good(l, j)
      BY <1>1, Now DEF LeftAll, At, Op
    <2> QED BY <1>1, <2>1, LinkCut DEF IInv, Cuts, Site
  <1>3. UNCHANGED <<lock, owner, netOwner, docker, job, excuse, troubles>> /\ member' = member \ (Nets \X {j.site})
    BY <1>1, <1>2 DEF LeftAll, Fine
  <1>4. Step(p, l, j, "owner", j) /\ Same(j, j)
    BY <1>1, GotoStep DEF LeftAll, Labels, IInv
  <1>5. TableInv'
    BY <1>3 DEF IInv, DataInv, TableInv
  <1>6. MildExcuse /\ MildMember /\ MildOwner /\ MildNet
    BY <1>2, <1>3 DEF MildExcuse, MildMember, MildOwner, MildNet, Apart, Loose
  <1>7. \A n \in Nets : <<n, j.site>> \notin member'
    BY <1>3
  <1>8. Fits("owner", j) /\ Good("owner", j)'
    BY <1>2, <1>7 DEF Fits, Good, SiteOk, AttachOk, CutOk, NetOk, Attaching
  <1>9. MemberInv'
    BY <1>2, <1>3, <1>4, <1>6, MemberKept DEF IInv
  <1>10. Steady(l, j, "owner", j)
    <2> SUFFICES ASSUME NEW d \in Sites, NEW n \in Nets, NEW c \in Slots, <<n, d>> \in member'
                 PROVE  ~Answers(l, j, n, d, c) /\ <<n, d>> \in member
      BY <1>3 DEF Steady, Whole, docker
    <2>1. d # j.site
      BY <1>7
    <2> QED BY <1>2, <1>3, <2>1 DEF Answers
  <1>11. ASSUME NEW n \in Nets, NEW d \in Sites, <<n, d>> \in member, Loose(d), NEW x \in link, x[1] = n, x[2] = d
         PROVE  <<n, d>> \in member' \/ Pending(n, d)
    BY <1>2, <1>3, <1>11 DEF Good, CutOk
  <1> QED BY <1>2, <1>3, <1>4, <1>5, <1>6, <1>8, <1>9, <1>10, <1>11, RowStep DEF IInv, DataInv

LEMMA SetOwnerStep ==
  ASSUME IInv, NEW p \in Procs, SetOwner(p)
  PROVE  IInv'
  <1>1. PICK l, j : l = pc[p] /\ j = job[p]
    OBVIOUS
  <1>2. /\ l = "owner" /\ j.op = "transfer" /\ j \in Job /\ Fits(l, j) /\ Good(l, j)
        /\ j.site \in Sites /\ Cutting(j.site) /\ j.who \in Owners /\ Site(p) = j.site
    <2>1. l = "owner" /\ j \in Job /\ Fits(l, j) /\ Good(l, j)
      BY <1>1, Now DEF SetOwner, At
    <2>2. j.op = "transfer" /\ j.who \in Owners
      BY <2>1 DEF Fits
    <2> QED BY <1>1, <2>1, <2>2, LinkCut DEF IInv, Cuts, Site
  <1>3. /\ UNCHANGED <<lock, netOwner, member, docker, job, excuse, troubles>>
        /\ owner' = [owner EXCEPT ![j.site] = IF owner[j.site] = Nobody THEN owner[j.site] ELSE j.who]
    BY <1>1, <1>2 DEF SetOwner, Fine
  <1>4. Step(p, l, j, "done", j) /\ Same(j, j)
    BY <1>1, GotoStep DEF SetOwner, Labels, IInv
  <1>5. TableInv'
    BY <1>2, <1>3 DEF IInv, DataInv, TableInv
  <1>6. /\ \A d \in Sites : d # j.site => owner'[d] = owner[d]
        /\ owner'[j.site] = IF owner[j.site] = Nobody THEN owner[j.site] ELSE j.who
    BY <1>2, <1>3 DEF IInv, DataInv, TableInv
  <1>7. MildExcuse /\ MildMember /\ MildOwner /\ MildNet
    BY <1>2, <1>3, <1>6 DEF MildExcuse, MildMember, MildOwner, MildNet, Apart, Loose
  <1>8. Fits("done", j) /\ Good("done", j)'
    BY <1>2, FitsDone, GoodQuiet
  <1>9. MemberInv'
    <2> SUFFICES ASSUME NEW n \in Nets, NEW d \in Sites, <<n, d>> \in member, Apart(d)
                 PROVE  netOwner'[n] # Nobody /\ (owner'[d] = netOwner'[n] \/ (owner'[d] = Nobody /\ Forgetting(d)'))
      BY <1>3 DEF MemberInv, Apart
    <2>1. netOwner[n] # Nobody /\ (owner[d] = netOwner[n] \/ (owner[d] = Nobody /\ Forgetting(d)))
      BY DEF IInv, MemberInv
    <2>2. Forgetting(d) => Forgetting(d)'
      BY <1>2, <1>4, ForgettingKept DEF IInv
    <2>3. d = j.site => netOwner[n] = j.who
      BY <1>2 DEF Good, CutOk
    <2> QED BY <1>3, <1>6, <2>1, <2>2, <2>3
  <1>10. Steady(l, j, "done", j)
    <2>1. \A n, d, s : ~Answers(l, j, n, d, s)
      BY <1>2 DEF Answers, Links
    <2> QED BY <1>3, <2>1 DEF Steady, Whole, docker
  <1> QED BY <1>2, <1>3, <1>4, <1>5, <1>7, <1>8, <1>9, <1>10, RowStep DEF IInv, DataInv

LEMMA DeleteSiteStep ==
  ASSUME IInv, NEW p \in Procs, DeleteSite(p)
  PROVE  IInv'
  <1>1. PICK l, j : l = pc[p] /\ j = job[p]
    OBVIOUS
  <1>2. /\ l = "unrow" /\ j.op \in {"create", "destroy"} /\ j \in Job /\ Fits(l, j) /\ Good(l, j)
        /\ j.site \in Sites /\ Cutting(j.site) /\ Site(p) = j.site
    <2>1. l = "unrow" /\ j \in Job /\ Fits(l, j) /\ Good(l, j)
      BY <1>1, Now DEF DeleteSite, At
    <2>2. j.op \in {"create", "destroy"}
      BY <2>1 DEF Fits
    <2> QED BY <1>1, <2>1, <2>2, LinkCut DEF IInv, Cuts, Site
  <1>3. /\ UNCHANGED <<lock, netOwner, member, docker, job, excuse, troubles>>
        /\ owner' = [owner EXCEPT ![j.site] = Nobody]
    BY <1>1, <1>2 DEF DeleteSite, Fine
  <1>4. PICK m \in {"done", "forget"} : (m = "done" <=> j.op = "create") /\ Goto(p, m)
    BY <1>1, <1>2 DEF DeleteSite, Op
  <1>5. Step(p, l, j, m, j) /\ Same(j, j)
    BY <1>1, <1>3, <1>4, GotoStep DEF Labels, IInv
  <1>6. TableInv'
    BY <1>2, <1>3 DEF IInv, DataInv, TableInv
  <1>7. (\A d \in Sites : d # j.site => owner'[d] = owner[d]) /\ owner'[j.site] = Nobody
    BY <1>2, <1>3 DEF IInv, DataInv, TableInv
  <1>8. MildExcuse /\ MildMember /\ MildOwner /\ MildNet
    BY <1>2, <1>3, <1>7 DEF MildExcuse, MildMember, MildOwner, MildNet, Apart, Loose
  <1>9. j.op = "create" /\ Apart(j.site)' => \A n \in Nets : <<n, j.site>> \notin member'
    BY <1>2, <1>3 DEF Good, SiteOk, Apart
  <1>10. Fits(m, j)
    BY <1>2 DEF Fits, Attaching
  <1>11. Good(m, j)'
    <2>1. \A s \in Slots : box'[j.site][s] = "absent"
      BY <1>2, <1>3 DEF Good, SiteOk, docker
    <2> QED BY <1>2, <1>9, <2>1 DEF Good, SiteOk, AttachOk, CutOk, NetOk, Attaching
  <1>12. MemberInv'
    <2> SUFFICES ASSUME NEW n \in Nets, NEW d \in Sites, <<n, d>> \in member, Apart(d)
                 PROVE  netOwner'[n] # Nobody /\ (owner'[d] = netOwner'[n] \/ (owner'[d] = Nobody /\ Forgetting(d)'))
      BY <1>3 DEF MemberInv, Apart
    <2>1. netOwner[n] # Nobody /\ (owner[d] = netOwner[n] \/ (owner[d] = Nobody /\ Forgetting(d)))
      BY DEF IInv, MemberInv
    <2>2. CASE d = j.site
      <3>1. j.op = "destroy" /\ m = "forget"
        BY <1>2, <1>3, <1>4, <1>9, <2>2 DEF Apart
      <3>2. pc'[p] = "forget" /\ job'[p] = j
        BY <1>5, <3>1, StepFacts DEF IInv
      <3>3. Forgetting(d)'
        BY <2>2, <3>1, <3>2 DEF Forgetting, Op, Site
      <3> QED BY <1>3, <1>7, <2>1, <2>2, <3>3
    <2>3. CASE d # j.site
      <3>1. Forgetting(d) => Forgetting(d)'
        BY <1>2, <1>5, ForgettingKept DEF IInv
      <3> QED BY <1>3, <1>7, <2>1, <2>3, <3>1
    <2> QED BY <2>2, <2>3
  <1>13. Steady(l, j, m, j)
    <2>1. \A n, d, s : ~Answers(l, j, n, d, s)
      BY <1>2 DEF Answers, Attaching
    <2> QED BY <1>3, <2>1 DEF Steady, Whole, docker
  <1> QED BY <1>2, <1>3, <1>5, <1>6, <1>8, <1>10, <1>11, <1>12, <1>13, RowStep DEF IInv, DataInv

LEMMA ForgetStep ==
  ASSUME IInv, NEW p \in Procs, Forget(p)
  PROVE  IInv'
  <1>1. PICK l, j : l = pc[p] /\ j = job[p]
    OBVIOUS
  <1>2. /\ l = "forget" /\ j.op \in {"create", "destroy"} /\ j \in Job /\ Fits(l, j) /\ Good(l, j)
        /\ j.site \in Sites /\ Cutting(j.site) /\ Site(p) = j.site
    <2>1. l = "forget" /\ j \in Job /\ Fits(l, j) /\ Good(l, j)
      BY <1>1, Now DEF Forget, At
    <2>2. j.op \in {"create", "destroy"}
      BY <2>1 DEF Fits
    <2> QED BY <1>1, <2>1, <2>2, LinkCut DEF IInv, Cuts, Site
  <1>3. /\ UNCHANGED <<lock, owner, netOwner, docker, job, troubles>>
        /\ member' = member \ (Nets \X {j.site})
        /\ excuse' = IF Linking(j.site) THEN excuse ELSE excuse \ ({j.site} \X Whys)
    BY <1>1, <1>2 DEF Forget, Fine
  <1>4. PICK m \in {"unrow", "done"} : (m = "unrow" <=> j.op = "create") /\ Goto(p, m)
    BY <1>1, <1>2 DEF Forget, Op
  <1>5. Step(p, l, j, m, j) /\ Same(j, j)
    BY <1>1, <1>3, <1>4, GotoStep DEF Labels, IInv
  <1>6. TableInv' /\ DockerInv
    BY <1>2, <1>3 DEF IInv, DataInv, TableInv
  <1>7. /\ \A n \in Nets : <<n, j.site>> \notin member'
        /\ \A n \in Nets, d \in Sites : d # j.site => (<<n, d>> \in member' <=> <<n, d>> \in member)
    BY <1>3
  <1>8. (\A s \in Slots : box[j.site][s] = "absent") /\ \A x \in link : x[2] # j.site
    <2>1. \A s \in Slots : box[j.site][s] = "absent"
      BY <1>2 DEF Good, SiteOk
    <2>2. ASSUME NEW x \in link PROVE x[2] # j.site
      BY <1>6, <2>1 DEF DockerInv
    <2> QED BY <2>1, <2>2
  <1>9. excuse' \subseteq excuse /\ \A d, w : d # j.site /\ <<d, w>> \in excuse => <<d, w>> \in excuse'
    BY <1>3
  <1>10. MildExcuse
    <2>1. ASSUME NEW d \in Sites, d # j.site PROVE (Apart(d)' => Apart(d)) /\ (Loose(d)' => Loose(d))
      BY <1>9, <2>1 DEF Apart, Loose
    <2>2. CASE Linking(j.site)
      BY <1>3, <2>2 DEF MildExcuse, Apart, Loose
    <2>3. CASE ~Linking(j.site)
      <3>1. Afresh(j.site)
        BY <1>3, <1>7, <1>8, <2>3 DEF Afresh, docker
      <3> QED BY <2>1, <3>1 DEF MildExcuse
    <2> QED BY <2>2, <2>3
  <1>11. MildMember /\ MildOwner /\ MildNet
    BY <1>2, <1>3, <1>7 DEF MildMember, MildOwner, MildNet
  <1>12. Fits(m, j)
    BY <1>2, <1>4 DEF Fits, Attaching
  <1>13. Good(m, j)'
    BY <1>2, <1>3, <1>4, <1>7, <1>8 DEF Good, SiteOk, AttachOk, CutOk, NetOk, Attaching, docker
  <1>14. MemberInv'
    <2> SUFFICES ASSUME NEW n \in Nets, NEW d \in Sites, <<n, d>> \in member', Apart(d)'
                 PROVE  netOwner'[n] # Nobody /\ (owner'[d] = netOwner'[n] \/ (owner'[d] = Nobody /\ Forgetting(d)'))
      BY DEF MemberInv
    <2>1. d # j.site /\ <<n, d>> \in member
      BY <1>7
    <2>2. Apart(d)
      BY <1>9, <2>1 DEF Apart
    <2>3. netOwner[n] # Nobody /\ (owner[d] = netOwner[n] \/ (owner[d] = Nobody /\ Forgetting(d)))
      BY <2>1, <2>2 DEF IInv, MemberInv
    <2>4. ASSUME NEW q \in Procs, job[q].site = d, job[q].op = "destroy", pc[q] = "forget"
          PROVE  job'[q].site = d /\ job'[q].op = "destroy" /\ pc'[q] = "forget"
      <3>1. q # p
        BY <1>1, <2>1, <2>4
      <3> QED BY <1>5, <2>4, <3>1, StepFacts DEF IInv
    <2>5. Forgetting(d) => Forgetting(d)'
      BY <2>4 DEF Forgetting, Op, Site
    <2> QED BY <1>3, <2>3, <2>5
  <1>15. Steady(l, j, m, j)
    <2> SUFFICES ASSUME NEW d \in Sites, NEW n \in Nets, NEW c \in Slots, Whole(d)', <<n, d>> \in member', box[d][c] = "running"
                 PROVE  Whole(d) /\ <<n, d>> \in member /\ ~Answers(l, j, n, d, c)
      BY <1>3 DEF Steady, docker
    <2>1. d # j.site
      BY <1>8
    <2> QED BY <1>2, <1>7, <1>9, <2>1 DEF Whole, Answers
  <1>16. \A n \in Nets, d \in Sites : (<<n, d>> \in member /\ \E x \in link : x[1] = n /\ x[2] = d) => <<n, d>> \in member'
    BY <1>7, <1>8
  <1>17. excuse' \subseteq Sites \X Whys
    BY <1>9 DEF IInv, DataInv
  <1> QED BY <1>2, <1>3, <1>5, <1>6, <1>10, <1>11, <1>12, <1>13, <1>14, <1>15, <1>16, <1>17, RowStep

LEMMA InsertNetStep ==
  ASSUME IInv, NEW p \in Procs, InsertNet(p)
  PROVE  IInv'
  <1>1. PICK l, j : l = pc[p] /\ j = job[p]
    OBVIOUS
  <1>2. /\ l = "insert" /\ j.op = "newnet" /\ j \in Job /\ Fits(l, j) /\ Good(l, j)
        /\ j.net \in Nets /\ j.who \in Owners /\ (\A d \in Sites : Cutting(d)) /\ Net(p) = j.net
    <2>1. l = "insert" /\ j.op = "newnet" /\ j \in Job /\ Fits(l, j) /\ Good(l, j)
      BY <1>1, Now DEF InsertNet, At, Op
    <2>2. j.who \in Owners
      BY <2>1 DEF Fits
    <2> QED BY <1>1, <2>1, <2>2, LinkCut DEF IInv, Net
  <1>3. \A n, d, s : ~Answers(l, j, n, d, s)
    BY <1>2 DEF Answers, Attaching
  <1>4. UNCHANGED <<lock, owner, member, docker, job, excuse, troubles>>
    BY DEF InsertNet, Fine
  <1>5. CASE netOwner[j.net] = Nobody /\ netOwner' = [netOwner EXCEPT ![j.net] = j.who] /\ Goto(p, "ensure")
    <2>1. Step(p, l, j, "ensure", j) /\ Same(j, j)
      BY <1>1, <1>4, <1>5, GotoStep DEF Labels, IInv
    <2>2. TableInv'
      BY <1>2, <1>4, <1>5 DEF IInv, DataInv, TableInv
    <2>3. \A n \in Nets : n # j.net => netOwner'[n] = netOwner[n]
      BY <1>5 DEF IInv, DataInv, TableInv
    <2>4. MildExcuse /\ MildMember /\ MildOwner /\ MildNet
      BY <1>2, <1>4, <1>5, <2>3 DEF MildExcuse, MildMember, MildOwner, MildNet, Apart, Loose
    <2>5. \A d \in Sites : Apart(d) => <<j.net, d>> \notin member
      BY <1>2, <1>5 DEF IInv, MemberInv
    <2>6. Fits("ensure", j)
      BY <1>2 DEF Fits, Attaching
    <2>7. Good("ensure", j)'
      BY <1>2, <1>4, <2>5 DEF Good, SiteOk, AttachOk, CutOk, NetOk, Attaching, Apart
    <2>8. MemberInv'
      <3> SUFFICES ASSUME NEW n \in Nets, NEW d \in Sites, <<n, d>> \in member, Apart(d)
                   PROVE  netOwner'[n] # Nobody /\ (owner'[d] = netOwner'[n] \/ (owner'[d] = Nobody /\ Forgetting(d)'))
        BY <1>4 DEF MemberInv, Apart
      <3>1. netOwner'[n] = netOwner[n] /\ owner'[d] = owner[d]
        BY <1>4, <2>3, <2>5
      <3>2. Forgetting(d) => Forgetting(d)'
        BY <1>2, <2>1, ForgettingKept DEF IInv
      <3> QED BY <3>1, <3>2 DEF IInv, MemberInv
    <2>9. Steady(l, j, "ensure", j)
      BY <1>3, <1>4 DEF Steady, Whole, docker
    <2> QED BY <1>2, <1>4, <2>1, <2>2, <2>4, <2>6, <2>7, <2>8, <2>9, RowStep DEF IInv, DataInv
  <1>6. CASE Goto(p, "done") /\ UNCHANGED netOwner
    <2>1. Step(p, l, j, "done", j) /\ Same(j, j)
      BY <1>1, <1>4, <1>6, GotoStep DEF Labels, IInv
    <2>2. Fits("done", j) /\ Good("done", j)'
      BY <1>2, FitsDone, GoodQuiet
    <2>3. UNCHANGED <<lock, tables, docker, excuse>> /\ troubles' \in 0..MaxTroubles
      BY <1>4, <1>6 DEF tables, IInv, DataInv
    <2>4. MildOwes(l, j, "done", j)
      BY <1>2 DEF MildOwes, Owes
    <2> QED BY <1>2, <1>3, <2>1, <2>2, <2>3, <2>4, Walk
  <1>7. \/ netOwner[j.net] = Nobody /\ netOwner' = [netOwner EXCEPT ![j.net] = job[p].who] /\ Goto(p, "ensure")
        \/ Goto(p, "done") /\ UNCHANGED netOwner
    BY <1>2 DEF InsertNet
  <1> QED BY <1>1, <1>5, <1>6, <1>7

LEMMA DeleteNetStep ==
  ASSUME IInv, NEW p \in Procs, DeleteNet(p)
  PROVE  IInv'
  <1>1. PICK l, j : l = pc[p] /\ j = job[p]
    OBVIOUS
  <1>2. /\ l \in {"unwind", "delete"} /\ j \in Job /\ Fits(l, j) /\ Good(l, j) /\ Net(p) = j.net
        /\ j.op = IF l = "unwind" THEN "newnet" ELSE "delete"
        /\ j.net \in Nets /\ \A d \in Sites : Cutting(d)
    <2>1. l \in {"unwind", "delete"} /\ j \in Job /\ Fits(l, j) /\ Good(l, j)
      BY <1>1, Now DEF DeleteNet, At
    <2>2. j.op = IF l = "unwind" THEN "newnet" ELSE "delete"
      BY <2>1 DEF Fits
    <2> QED BY <1>1, <2>1, <2>2, LinkCut DEF IInv, Net
  <1>3. /\ UNCHANGED <<lock, owner, docker, job, excuse, troubles>>
        /\ member' = member \ ({j.net} \X Sites) /\ netOwner' = [netOwner EXCEPT ![j.net] = Nobody]
    BY <1>1, <1>2 DEF DeleteNet, Fine
  <1>4. PICK m \in {"done", "unbridge"} : (m = "done" <=> j.op = "newnet") /\ Goto(p, m)
    BY <1>1, <1>2 DEF DeleteNet, Op
  <1>5. Step(p, l, j, m, j) /\ Same(j, j)
    BY <1>1, <1>3, <1>4, GotoStep DEF Labels, IInv
  <1>6. TableInv'
    BY <1>2, <1>3 DEF IInv, DataInv, TableInv
  <1>7. /\ \A d \in Sites : <<j.net, d>> \notin member'
        /\ \A n \in Nets, d \in Sites : n # j.net => (<<n, d>> \in member' <=> <<n, d>> \in member)
        /\ \A n \in Nets : n # j.net => netOwner'[n] = netOwner[n]
    BY <1>3 DEF IInv, DataInv, TableInv
  <1>8. MildExcuse /\ MildMember /\ MildOwner /\ MildNet
    BY <1>2, <1>3, <1>7 DEF MildExcuse, MildMember, MildOwner, MildNet, Apart, Loose
  <1>9. Fits(m, j)
    BY <1>2, <1>4 DEF Fits, Attaching
  <1>10. Good(m, j)'
    BY <1>2, <1>4, GoodQuiet
  <1>11. MemberInv'
    <2> SUFFICES ASSUME NEW n \in Nets, NEW d \in Sites, <<n, d>> \in member', Apart(d)
                 PROVE  netOwner'[n] # Nobody /\ (owner'[d] = netOwner'[n] \/ (owner'[d] = Nobody /\ Forgetting(d)'))
      BY <1>3 DEF MemberInv, Apart
    <2>1. n # j.net /\ <<n, d>> \in member
      BY <1>7
    <2>2. netOwner'[n] = netOwner[n] /\ owner'[d] = owner[d]
      BY <1>3, <1>7, <2>1
    <2>3. Forgetting(d) => Forgetting(d)'
      BY <1>2, <1>5, ForgettingKept DEF IInv
    <2> QED BY <2>1, <2>2, <2>3 DEF IInv, MemberInv
  <1>12. Steady(l, j, m, j)
    <2> SUFFICES ASSUME NEW d \in Sites, NEW n \in Nets, NEW c \in Slots, <<n, d>> \in member'
                 PROVE  <<n, d>> \in member /\ ~Answers(l, j, n, d, c)
      BY <1>3 DEF Steady, docker, Whole
    <2>1. n # j.net
      BY <1>7
    <2> QED BY <1>2, <1>7, <2>1 DEF Answers, Links
  <1>13. ASSUME NEW n \in Nets, NEW d \in Sites, <<n, d>> \in member, Loose(d), NEW x \in link, x[1] = n, x[2] = d
         PROVE  <<n, d>> \in member' \/ Pending(n, d)
    <2>1. CASE n # j.net
      BY <1>7, <1>13, <2>1
    <2>2. CASE n = j.net /\ l = "delete"
      BY <1>2, <1>13, <2>2 DEF Good, NetOk
    <2>3. CASE n = j.net /\ l = "unwind"
      BY <1>2, <1>13, <2>3 DEF Good, NetOk, Loose
    <2> QED BY <1>2, <2>1, <2>2, <2>3
  <1> QED BY <1>2, <1>3, <1>5, <1>6, <1>8, <1>9, <1>10, <1>11, <1>12, <1>13, RowStep DEF IInv, DataInv

---------------------------------------------------------------------------------
(* An operation begins. *)

LEMMA BeginOverlap ==
  ASSUME ProcInv, OverlapInv, NEW p \in Procs, NEW m, NEW k, Step(p, "idle", Idle, m, k),
         NEW op, NEW d, op = k.op, d = k.site, Overlap(op, d)
  PROVE  OverlapInv'
  <1> SUFFICES ASSUME NEW e \in Sites, Apart(e)', Linking(e)', Cutting(e)' PROVE FALSE
    BY DEF OverlapInv
  <1>1. Apart(e)
    BY DEF Overlap, Apart
  <1>2. Linking(e) \/ (op \in Links /\ d = e)
    <2>1. PICK q \in Procs : job'[q].op \in Links /\ job'[q].site = e
      BY DEF Linking, Op, Site
    <2>2. CASE q = p
      BY <2>1, <2>2, StepFacts
    <2>3. CASE q # p
      BY <2>1, <2>3, StepFacts DEF Linking, Op, Site
    <2> QED BY <2>2, <2>3
  <1>3. Cutting(e) \/ (op \in Cuts /\ d = e) \/ op \in {"delete", "newnet"}
    <2>1. PICK q \in Procs : (job'[q].op \in Cuts /\ job'[q].site = e) \/ job'[q].op \in {"delete", "newnet"}
      BY DEF Cutting, Op, Site
    <2>2. CASE q = p
      BY <2>1, <2>2, StepFacts
    <2>3. CASE q # p
      BY <2>1, <2>3, StepFacts DEF Cutting, Op, Site
    <2> QED BY <2>2, <2>3
  <1>4. ~(Linking(e) /\ Cutting(e))
    BY <1>1 DEF OverlapInv
  <1>5. \/ op \in Links /\ d = e /\ Cutting(e)
        \/ op \in Cuts /\ d = e /\ Linking(e)
        \/ op \in {"delete", "newnet"} /\ Linking(e)
    BY <1>2, <1>3, <1>4 DEF Links, Cuts
  <1>6. <<e, "overlap">> \in excuse'
    BY <1>5 DEF Overlap
  <1> QED BY <1>6 DEF Apart

LEMMA BeginLock ==
  ASSUME ProcInv, LockInv, NEW p \in Procs, NEW m, NEW k, Step(p, "idle", Idle, m, k),
         \/ k.op \notin Locked /\ UNCHANGED lock
         \/ k.op \in Locked /\ k.site \notin lock /\ lock' = lock \cup {k.site}
  PROVE  LockInv'
  <1>1. lock = {job[q].site : q \in {q \in Procs : job[q].op \in Locked}}
    BY DEF LockInv
  <1>2. \A q, r \in Procs : job[q].op \in Locked /\ job[r].op \in Locked /\ job[q].site = job[r].site => q = r
    BY DEF LockInv, Op, Site
  <1>3. job[p].op \notin Locked /\ job'[p] = k /\ \A q \in Procs : q # p => job'[q] = job[q]
    BY StepFacts, IdleFacts DEF Locked
  <1>4. {job'[q].site : q \in {q \in Procs : job'[q].op \in Locked}} = lock'
    <2>1. ASSUME NEW q \in Procs, job'[q].op \in Locked PROVE job'[q].site \in lock'
      BY <1>1, <1>3, <2>1
    <2>2. ASSUME NEW x \in lock' PROVE \E q \in Procs : job'[q].op \in Locked /\ job'[q].site = x
      BY <1>1, <1>3
    <2> QED BY <2>1, <2>2
  <1>5. \A q, r \in Procs : job'[q].op \in Locked /\ job'[r].op \in Locked /\ job'[q].site = job'[r].site => q = r
    BY <1>1, <1>2, <1>3
  <1> QED BY <1>4, <1>5 DEF LockInv, Op, Site

LEMMA BeginStep ==
  ASSUME IInv, NEW p \in Procs, NEW m, NEW k, Step(p, "idle", Idle, m, k), NEW op, NEW d, op = k.op, d = k.site,
         Overlap(op, d), UNCHANGED <<tables, docker, troubles>>,
         \/ k.op \notin Locked /\ UNCHANGED lock
         \/ k.op \in Locked /\ k.site \notin lock /\ lock' = lock \cup {k.site},
         Fits(m, k), Good(m, k)'
  PROVE  IInv'
  <1>1. ProcInv /\ LockInv /\ OverlapInv /\ MemberInv /\ LinkInv /\ DataInv
    BY DEF IInv
  <1>2. LockInv'
    BY <1>1, BeginLock
  <1>3. OverlapInv'
    BY <1>1, BeginOverlap
  <1>4. excuse \subseteq excuse' /\ excuse' \subseteq Sites \X Whys
    BY <1>1 DEF Overlap, DataInv, Whys
  <1>5. MildExcuse
    BY <1>4 DEF MildExcuse, Apart, Loose
  <1>6. MildOwes("idle", Idle, m, k)
    BY DEF MildOwes, Owes
  <1>7. Mild("idle", Idle, m, k)
    BY <1>5, <1>6 DEF Mild, MildMember, MildOwner, MildNet, MildBridge, MildLink, MildBox, tables, docker
  <1>8. Steady("idle", Idle, m, k)
    <2>1. \A n, e, s : ~Answers("idle", Idle, n, e, s)
      BY IdleFacts DEF Answers, Links
    <2> QED BY <1>4, <2>1 DEF Steady, Whole, tables, docker
  <1>9. DataInv'
    BY <1>1, <1>4 DEF DataInv, TableInv, DockerInv, tables, docker
  <1>10. MemberInv'
    BY <1>1, <1>5, MemberKept DEF tables
  <1>11. LinkInv'
    BY <1>1, <1>5, <1>6, LinkKept DEF tables, docker
  <1> QED BY <1>2, <1>3, <1>7, <1>8, <1>9, <1>10, <1>11, Assemble

(* What Begin does, with the job it starts. *)
Begun(p, op, d, n, o, l) == \E k \in Job :
  /\ k.op = op /\ k.site = d /\ k.net = n /\ k.who = o /\ k.todo = {} /\ k # Idle
  /\ Step(p, "idle", Idle, l, k) /\ Overlap(op, d) /\ UNCHANGED <<tables, docker, troubles>>

LEMMA BeginFacts ==
  ASSUME IInv, NEW p \in Procs, NEW op \in Ops \ {"none"}, NEW d \in Sites \cup {Nobody}, NEW n \in Nets \cup {Nobody},
         NEW o \in Owners \cup {Nobody}, NEW l \in Labels, Begin(p, op, d, n, o, l)
  PROVE  Begun(p, op, d, n, o, l)
  <1>1. pc[p] = "idle" /\ job[p] = Idle
    BY FitsFacts DEF Begin, At, Fits, IInv
  <1>2. PICK k : k = [Idle EXCEPT !.op = op, !.site = d, !.net = n, !.who = o]
    OBVIOUS
  <1>3. k \in Job /\ k.op = op /\ k.site = d /\ k.net = n /\ k.who = o /\ k.todo = {}
    BY <1>2 DEF Job, Idle, Ops
  <1>4. k # Idle
    BY <1>3, IdleFacts
  <1>5. Step(p, "idle", Idle, l, k) /\ Overlap(op, d) /\ UNCHANGED <<tables, docker, troubles>>
    BY <1>1, <1>2, <1>3 DEF Begin, Step, Goto, Fine
  <1> QED BY <1>3, <1>4, <1>5 DEF Begun

LEMMA NobodyFacts ==
  /\ Nobody \in Sites \cup {Nobody} /\ Nobody \in Nets \cup {Nobody} /\ Nobody \in Owners \cup {Nobody}
  /\ \A d \in Sites : d \in Sites \cup {Nobody}
  /\ \A n \in Nets : n \in Nets \cup {Nobody}
  /\ \A o \in Owners : o \in Owners \cup {Nobody}
  OBVIOUS

LEMMA BeginCreateStep ==
  ASSUME IInv, NEW p \in Procs, NEW d \in Sites, NEW o \in Owners, BeginCreate(p, d, o)
  PROVE  IInv'
  <1>1. owner[d] = Nobody /\ d \notin lock /\ lock' = lock \cup {d} /\ Begin(p, "create", d, Nobody, o, "insert")
    BY DEF BeginCreate, BeginLocked
  <1>2. PICK k \in Job :
           /\ k.op = "create" /\ k.site = d /\ k.net = Nobody /\ k.who = o /\ k.todo = {} /\ k # Idle
           /\ Step(p, "idle", Idle, "insert", k) /\ Overlap("create", d) /\ UNCHANGED <<tables, docker, troubles>>
    <2>1. Begun(p, "create", d, Nobody, o, "insert")
      BY <1>1, NobodyFacts, BeginFacts DEF Ops, Labels
    <2> QED BY <2>1 DEF Begun
  <1>3. Fits("insert", k)
    BY <1>2 DEF Fits, Attaching
  <1>4. ASSUME Apart(d)', NEW n \in Nets PROVE <<n, d>> \notin member'
    <2>1. Apart(d) /\ member' = member
      BY <1>2, <1>4 DEF Apart, Overlap, tables
    <2>2. ~Forgetting(d)
      BY <1>1 DEF Forgetting, IInv, LockInv, Op, Site, Locked
    <2> QED BY <1>1, <2>1, <2>2 DEF IInv, MemberInv
  <1>5. Good("insert", k)'
    BY <1>2, <1>4, GoodCreate
  <1>6. k.op \in Locked /\ k.site \notin lock /\ lock' = lock \cup {k.site}
    BY <1>1, <1>2 DEF Locked
  <1> QED BY <1>2, <1>3, <1>5, <1>6, BeginStep

(* The operations that take the lock of a site there is. *)
LEMMA BeginLockedStep ==
  ASSUME IInv, NEW p \in Procs, NEW d \in Sites, NEW op \in {"start", "stop", "update", "scale", "bounce", "destroy"},
         NEW l, l = IF op = "destroy" THEN "rollback" ELSE "locked", BeginLocked(p, op, d, Nobody, l)
  PROVE  IInv'
  <1>1. d \notin lock /\ lock' = lock \cup {d} /\ Begin(p, op, d, Nobody, Nobody, l)
    BY DEF BeginLocked
  <1>2. PICK k \in Job :
           /\ k.op = op /\ k.site = d /\ k.net = Nobody /\ k.who = Nobody /\ k.todo = {} /\ k # Idle
           /\ Step(p, "idle", Idle, l, k) /\ Overlap(op, d) /\ UNCHANGED <<tables, docker, troubles>>
    <2>1. Begun(p, op, d, Nobody, Nobody, l)
      BY <1>1, NobodyFacts, BeginFacts DEF Ops, Labels
    <2> QED BY <2>1 DEF Begun
  <1>3. Fits(l, k)
    BY <1>2 DEF Fits, Attaching, Locked
  <1>4. Good(l, k)'
    BY <1>2, GoodQuiet
  <1>5. k.op \in Locked /\ k.site \notin lock /\ lock' = lock \cup {k.site}
    BY <1>1, <1>2 DEF Locked
  <1> QED BY <1>2, <1>3, <1>4, <1>5, BeginStep

LEMMA BeginTransferStep ==
  ASSUME IInv, NEW p \in Procs, NEW d \in Sites, NEW o \in Owners, BeginTransfer(p, d, o)
  PROVE  IInv'
  <1>1. PICK l \in {"owner", "nets"} :
          (l = "owner" => o = owner[d]) /\ Begin(p, "transfer", d, Nobody, o, l) /\ UNCHANGED lock /\ owner[d] # Nobody
    BY DEF BeginTransfer
  <1>2. PICK k \in Job :
           /\ k.op = "transfer" /\ k.site = d /\ k.net = Nobody /\ k.who = o /\ k.todo = {} /\ k # Idle
           /\ Step(p, "idle", Idle, l, k) /\ Overlap("transfer", d) /\ UNCHANGED <<tables, docker, troubles>>
    <2>1. Begun(p, "transfer", d, Nobody, o, l)
      BY <1>1, NobodyFacts, BeginFacts DEF Ops, Labels
    <2> QED BY <2>1 DEF Begun
  <1>3. Fits(l, k)
    BY <1>2 DEF Fits, Attaching
  <1>4. ASSUME l = "owner", Apart(d)', NEW n \in Nets, <<n, d>> \in member' PROVE netOwner'[n] = o
    <2>1. Apart(d) /\ member' = member /\ netOwner' = netOwner
      BY <1>2, <1>4 DEF Apart, Overlap, tables
    <2> QED BY <1>1, <1>4, <2>1 DEF IInv, MemberInv
  <1>5. Good(l, k)'
    BY <1>2, <1>4 DEF Good, SiteOk, AttachOk, CutOk, NetOk, Attaching
  <1>6. k.op \notin Locked
    BY <1>2 DEF Locked
  <1> QED BY <1>1, <1>2, <1>3, <1>5, <1>6, BeginStep

LEMMA BeginJoinStep ==
  ASSUME IInv, NEW p \in Procs, NEW n \in Nets, NEW d \in Sites, BeginJoin(p, n, d)
  PROVE  IInv'
  <1>1. /\ netOwner[n] # Nobody /\ owner[d] # Nobody /\ owner[d] = netOwner[n]
        /\ Begin(p, "join", d, n, Nobody, "insert") /\ UNCHANGED lock
    BY DEF BeginJoin
  <1>2. PICK k \in Job :
           /\ k.op = "join" /\ k.site = d /\ k.net = n /\ k.who = Nobody /\ k.todo = {} /\ k # Idle
           /\ Step(p, "idle", Idle, "insert", k) /\ Overlap("join", d) /\ UNCHANGED <<tables, docker, troubles>>
    <2>1. Begun(p, "join", d, n, Nobody, "insert")
      BY <1>1, NobodyFacts, BeginFacts DEF Ops, Labels
    <2> QED BY <2>1 DEF Begun
  <1>3. Fits("insert", k)
    BY <1>2 DEF Fits, Attaching
  <1>4. Good("insert", k)'
    BY <1>1, <1>2 DEF Good, SiteOk, AttachOk, CutOk, NetOk, Attaching, tables
  <1>5. k.op \notin Locked
    BY <1>2 DEF Locked
  <1> QED BY <1>1, <1>2, <1>3, <1>4, <1>5, BeginStep

LEMMA BeginLeaveStep ==
  ASSUME IInv, NEW p \in Procs, NEW n \in Nets, NEW d \in Sites, BeginLeave(p, n, d)
  PROVE  IInv'
  <1>1. Begin(p, "leave", d, n, Nobody, "remove") /\ UNCHANGED lock
    BY DEF BeginLeave
  <1>2. PICK k \in Job :
           /\ k.op = "leave" /\ k.site = d /\ k.net = n /\ k.who = Nobody /\ k.todo = {} /\ k # Idle
           /\ Step(p, "idle", Idle, "remove", k) /\ Overlap("leave", d) /\ UNCHANGED <<tables, docker, troubles>>
    <2>1. Begun(p, "leave", d, n, Nobody, "remove")
      BY <1>1, NobodyFacts, BeginFacts DEF Ops, Labels
    <2> QED BY <2>1 DEF Begun
  <1>3. Fits("remove", k)
    BY <1>2 DEF Fits, Attaching
  <1>4. Good("remove", k)'
    BY <1>2 DEF Good, SiteOk, AttachOk, CutOk, NetOk, Attaching
  <1>5. k.op \notin Locked
    BY <1>2 DEF Locked
  <1> QED BY <1>1, <1>2, <1>3, <1>4, <1>5, BeginStep

LEMMA BeginCreateNetStep ==
  ASSUME IInv, NEW p \in Procs, NEW n \in Nets, NEW o \in Owners, BeginCreateNet(p, n, o)
  PROVE  IInv'
  <1>1. Begin(p, "newnet", Nobody, n, o, "insert") /\ UNCHANGED lock
    BY DEF BeginCreateNet
  <1>2. PICK k \in Job :
           /\ k.op = "newnet" /\ k.site = Nobody /\ k.net = n /\ k.who = o /\ k.todo = {} /\ k # Idle
           /\ Step(p, "idle", Idle, "insert", k) /\ Overlap("newnet", Nobody) /\ UNCHANGED <<tables, docker, troubles>>
    <2>1. Begun(p, "newnet", Nobody, n, o, "insert")
      BY <1>1, NobodyFacts, BeginFacts DEF Ops, Labels
    <2> QED BY <2>1 DEF Begun
  <1>3. Fits("insert", k)
    BY <1>2 DEF Fits, Attaching, Locked, Links, Cuts
  <1>4. Good("insert", k)'
    BY <1>2, GoodQuiet
  <1>5. k.op \notin Locked
    BY <1>2 DEF Locked
  <1> QED BY <1>1, <1>2, <1>3, <1>4, <1>5, BeginStep

LEMMA BeginDeleteStep ==
  ASSUME IInv, NEW p \in Procs, NEW n \in Nets, BeginDelete(p, n)
  PROVE  IInv'
  <1>1. pc[p] = "idle" /\ job[p] = Idle
    BY FitsFacts DEF BeginDelete, At, Fits, IInv
  <1>2. PICK T, k : T = {n} \X Members(n) /\ k = [Idle EXCEPT !.op = "delete", !.net = n, !.todo = T]
    OBVIOUS
  <1>3. T \subseteq {n} \X Sites /\ T \in SUBSET (Nets \X Sites)
    BY <1>2 DEF Members
  <1>4. k \in Job /\ k.op = "delete" /\ k.site = Nobody /\ k.net = n /\ k.todo = T /\ k # Idle
    <2>1. k \in Job /\ k.op = "delete" /\ k.site = Nobody /\ k.net = n /\ k.todo = T
      BY <1>2, <1>3 DEF Job, Idle, Ops
    <2> QED BY <2>1, IdleFacts
  <1>5. Step(p, "idle", Idle, "cut", k) /\ Overlap("delete", Nobody) /\ UNCHANGED <<lock, tables, docker, troubles>>
    BY <1>1, <1>2, <1>4 DEF BeginDelete, Step, Goto, Fine, Labels
  <1>6. Fits("cut", k)
    BY <1>3, <1>4 DEF Fits, Attaching, Locked, Links, Cuts
  <1>7. ASSUME NEW d \in Sites, Loose(d)', NEW x \in link', x[1] = n, x[2] = d PROVE Pending(n, d)'
    <2>1. Loose(d) /\ x \in link
      BY <1>5, <1>7 DEF Loose, Apart, Overlap, docker
    <2>2. CASE <<n, d>> \in member
      <3>1. <<n, d>> \in k.todo
        BY <1>2, <1>4, <2>2 DEF Members
      <3>2. pc'[p] = "cut" /\ job'[p] = k
        BY <1>5, StepFacts DEF IInv
      <3> QED BY <3>1, <3>2 DEF Pending, Owes
    <2>3. CASE Pending(n, d)
      <3>1. MildOwes("idle", Idle, "cut", k)
        BY DEF MildOwes, Owes
      <3> QED BY <1>5, <1>7, <2>3, <3>1, PendingKept DEF IInv
    <2> QED BY <1>7, <2>1, <2>2, <2>3 DEF IInv, LinkInv
  <1>8. Good("cut", k)'
    BY <1>4, <1>7 DEF Good, SiteOk, AttachOk, CutOk, NetOk, Attaching
  <1>9. k.op \notin Locked
    BY <1>4 DEF Locked
  <1> QED BY <1>4, <1>5, <1>6, <1>8, <1>9, BeginStep

---------------------------------------------------------------------------------
(* The invariant is inductive. *)

LEMMA InitInv ==
  ASSUME Init
  PROVE  IInv
  <1>1. \A p \in Procs : pc[p] = "idle" /\ job[p] = Idle
    BY DEF Init
  <1>2. Fits("idle", Idle)
    BY IdleFacts DEF Fits, Attaching, Locked, Links, Cuts
  <1>3. ProcInv
    BY <1>1, <1>2, IdleFacts DEF Init, ProcInv, Labels
  <1>4. LockInv
    BY <1>1, IdleFacts DEF Init, LockInv, Op, Site, Locked
  <1>5. DataInv
    BY TroublesAssumption DEF Init, DataInv, TableInv, DockerInv, States
  <1>6. OverlapInv
    BY <1>1, IdleFacts DEF OverlapInv, Linking, Op, Links
  <1>7. MemberInv /\ LinkInv /\ WholeInv
    BY DEF Init, MemberInv, LinkInv, WholeInv
  <1>8. Good("idle", Idle)
    BY IdleFacts DEF Good, SiteOk, AttachOk, CutOk, NetOk, Attaching
  <1> QED BY <1>1, <1>3, <1>4, <1>5, <1>6, <1>7, <1>8 DEF IInv

LEMMA NextInv ==
  ASSUME IInv, [Next]_vars
  PROVE  IInv'
  <1>1. CASE UNCHANGED vars
    <2>1. UNCHANGED <<lock, owner, netOwner, member, box, bridge, link, pc, job, excuse, troubles>>
      BY <1>1 DEF vars, tables, docker
    <2>2. ProcInv' /\ DataInv'
      BY <2>1 DEF IInv, ProcInv, DataInv, TableInv, DockerInv
    <2>3. LockInv'
      BY <2>1 DEF IInv, LockInv, Op, Site
    <2>4. OverlapInv'
      BY <2>1 DEF IInv, OverlapInv, Apart, Linking, Cutting, Op, Site
    <2>5. MemberInv'
      BY <2>1 DEF IInv, MemberInv, Apart, Forgetting, Op, Site
    <2>6. LinkInv'
      BY <2>1 DEF IInv, LinkInv, Loose, Apart, Pending, Owes
    <2>7. WholeInv'
      <3>1. /\ \A d \in Sites : Whole(d)' <=> Whole(d)
            /\ \A p \in Procs : job'[p] = job[p] /\ pc'[p] = pc[p]
        BY <2>1 DEF Whole
      <3>2. \A p \in Procs, n \in Nets, d \in Sites, s \in Slots :
              Answers(pc[p], job[p], n, d, s) => Answers(pc'[p], job'[p], n, d, s)
        BY <3>1
      <3>3. WholeInv
        BY DEF IInv
      <3> QED BY <2>1, <3>1, <3>2, <3>3 DEF WholeInv
    <2>8. \A p \in Procs : Good(pc[p], job[p])'
      BY <2>1 DEF IInv, Apart, Loose, Pending, Owes, Good, SiteOk, AttachOk, CutOk, NetOk
    <2> QED BY <2>2, <2>3, <2>4, <2>5, <2>6, <2>7, <2>8 DEF IInv
  <1>2. ASSUME NEW p \in Procs, NEW d \in Sites, NEW o \in Owners, BeginCreate(p, d, o) \/ BeginTransfer(p, d, o) PROVE IInv'
    BY <1>2, BeginCreateStep, BeginTransferStep
  <1>3. ASSUME NEW p \in Procs, NEW d \in Sites,
               BeginStart(p, d) \/ BeginStop(p, d) \/ BeginUpdate(p, d) \/ BeginScale(p, d) \/ BeginBounce(p, d) \/ BeginDestroy(p, d)
        PROVE  IInv'
    <2>1. CASE BeginStart(p, d)   BY <2>1, BeginLockedStep DEF BeginStart
    <2>2. CASE BeginStop(p, d)    BY <2>2, BeginLockedStep DEF BeginStop
    <2>3. CASE BeginUpdate(p, d)  BY <2>3, BeginLockedStep DEF BeginUpdate
    <2>4. CASE BeginScale(p, d)   BY <2>4, BeginLockedStep DEF BeginScale
    <2>5. CASE BeginBounce(p, d)  BY <2>5, BeginLockedStep DEF BeginBounce
    <2>6. CASE BeginDestroy(p, d) BY <2>6, BeginLockedStep DEF BeginDestroy
    <2> QED BY <1>3, <2>1, <2>2, <2>3, <2>4, <2>5, <2>6
  <1>4. ASSUME NEW p \in Procs, NEW d \in Sites, NEW n \in Nets, BeginJoin(p, n, d) \/ BeginLeave(p, n, d) PROVE IInv'
    BY <1>4, BeginJoinStep, BeginLeaveStep
  <1>5. ASSUME NEW p \in Procs, NEW n \in Nets, BeginDelete(p, n) \/ \E o \in Owners : BeginCreateNet(p, n, o) PROVE IInv'
    BY <1>5, BeginDeleteStep, BeginCreateNetStep
  <1>6. ASSUME NEW p \in Procs,
               \/ InsertSite(p) \/ Provision(p) \/ Start(p) \/ Stop(p) \/ Remove(p) \/ Recreate(p)
               \/ Scale(p) \/ Bounce(p) \/ Reconnect(p) \/ List(p) \/ Connect(p) \/ Connected(p)
        PROVE  IInv'
    BY <1>6, InsertSiteStep, ProvisionStep, StartStep, StopStep, RemoveStep, RecreateStep, ScaleStep, BounceStep,
       ReconnectStep, ListStep, ConnectStep, ConnectedStep
  <1>7. ASSUME NEW p \in Procs,
               \/ InsertMember(p) \/ DeleteMember(p) \/ Cut(p) \/ CutDone(p) \/ LeaveAll(p) \/ LeftAll(p) \/ SetOwner(p)
               \/ Down(p) \/ DeleteSite(p) \/ Forget(p)
               \/ InsertNet(p) \/ EnsureNet(p) \/ DeleteNet(p) \/ RemoveNet(p) \/ End(p)
        PROVE  IInv'
    BY <1>7, InsertMemberStep, DeleteMemberStep, CutStep, CutDoneStep, LeaveAllStep, LeftAllStep, SetOwnerStep,
       DownStep, DeleteSiteStep, ForgetStep, InsertNetStep, EnsureNetStep, DeleteNetStep, RemoveNetStep, EndStep
  <1> QED BY <1>1, <1>2, <1>3, <1>4, <1>5, <1>6, <1>7 DEF Next

LEMMA Invariant == Spec => []IInv
  BY InitInv, NextInv, PTL DEF Spec

---------------------------------------------------------------------------------
(* The properties. *)

(* Each variable has its type, a site is locked exactly while an operation that locks it *)
(* is under way, whatever error the operations before ended with, and every endpoint is  *)
(* that of a container there is on a bridge there is.                                    *)
THEOREM NetworksTypeCorrect == Spec => []TypeOK
  <1>1. IInv => TypeOK
    <2> SUFFICES ASSUME IInv PROVE TypeOK
      OBVIOUS
    <2>1. /\ lock = {job[p].site : p \in {p \in Procs : job[p].op \in Locked}}
          /\ pc \in [Procs -> Labels] /\ \A p \in Procs : pc[p] = "idle" <=> job[p] = Idle
      BY DEF IInv, LockInv, ProcInv, Fits
    <2>2. lock \subseteq Sites
      BY <2>1, FitsFacts DEF IInv, Fits
    <2>3. /\ bridge \subseteq Nets
          /\ owner    \in [Sites -> Owners \cup {Nobody}]
          /\ netOwner \in [Nets -> Owners \cup {Nobody}]
          /\ member \subseteq Nets \X Sites /\ link \subseteq Nets \X Sites \X Slots
          /\ box \in [Sites -> [Slots -> {"absent", "stopped", "running"}]]
          /\ \A x \in link : x[1] \in bridge /\ box[x[2]][x[3]] # "absent"
          /\ excuse \subseteq Sites \X Whys /\ troubles \in 0..MaxTroubles
      BY DEF IInv, DataInv, TableInv, DockerInv, States
    <2> QED BY <2>1, <2>2, <2>3 DEF TypeOK
  <1> QED BY <1>1, Invariant, PTL

(* For any number of sites, networks, owners and requests, and whatever fails in between: *)
(* a container of a site is attached to a network of another owner only where a step that *)
(* links a site ran together with one that cuts it off, where Docker refused to           *)
(* disconnect it, or where a request is about to disconnect it.                           *)
THEOREM NetworksOneOwner == Spec => []BridgesOneOwner
  <1>1. IInv => BridgesOneOwner
    <2> SUFFICES ASSUME IInv, NEW x \in link, NEW n, NEW d, n = x[1], d = x[2],
                        owner[d] # Nobody, netOwner[n] # Nobody, ~Excused(d, {"overlap", "kept"}),
                        \A p \in Procs : At(p, "cut") => <<n, d>> \notin job[p].todo
                 PROVE  owner[d] = netOwner[n]
      BY DEF BridgesOneOwner
    <2>1. Loose(d) /\ Apart(d)
      BY DEF Excused, Loose, Apart
    <2>2. n \in Nets /\ d \in Sites
      BY DEF IInv, DataInv, DockerInv
    <2>3. ~Pending(n, d)
      BY DEF Pending, Owes, At
    <2>4. <<n, d>> \in member
      BY <2>1, <2>3 DEF IInv, LinkInv
    <2> QED BY <2>1, <2>2, <2>4 DEF IInv, MemberInv
  <1> QED BY <1>1, Invariant, PTL

(* For any number of sites, networks, owners and requests: where no request is under way  *)
(* on a site, each container of it that runs is attached to every network the site is in, *)
(* unless a call failed, an operation that cuts the site off ran together with one that   *)
(* links it, or a deploy started what was stopped.                                        *)
THEOREM NetworksMembersLinked == Spec => []MembersAreLinked
  <1>1. IInv => MembersAreLinked
    <2> SUFFICES ASSUME IInv, NEW d \in Sites, Quiet(d), ~Excused(d, {"overlap", "missed", "bounced"}),
                        NEW n \in NetsOf(d), NEW s \in Running(d)
                 PROVE  <<n, d, s>> \in link
      BY DEF MembersAreLinked
    <2>1. n \in Nets /\ <<n, d>> \in member /\ s \in Slots /\ box[d][s] = "running"
      BY DEF NetsOf, Running
    <2>2. Whole(d)
      BY DEF Excused, Whole
    <2>3. \A p \in Procs : ~Answers(pc[p], job[p], n, d, s)
      BY DEF Quiet, Answers, Op, Site
    <2> QED BY <2>1, <2>2, <2>3 DEF IInv, WholeInv
  <1> QED BY <1>1, Invariant, PTL

=================================================================================

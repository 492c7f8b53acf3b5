----------------------------- MODULE SiteCopiesProofs -----------------------------
(**************************************************************************)
(* Proofs about SiteCopies, for any number of domains, contents and       *)
(* requests: the type invariant, CopiesWhole and SourceAsFound.           *)
(*                                                                        *)
(* The invariant says what a request knows of the domains it holds        *)
(* (HeldOk), what the directories, the database and the row of the        *)
(* target have of the original at each label of a copy that nothing       *)
(* disturbed (SourceOk, TargetOk), that such a copy is the only request   *)
(* for its target (AloneInv), and that the containers of a site nobody    *)
(* holds run as its status says (FreeInv).                                *)
(*                                                                        *)
(* A step moves one request on. The others keep what they rely on if it   *)
(* leaves alone what they hold and disturbs, by the record, the copies    *)
(* it gets in the way of (Mild); the actions are shown to do so one by    *)
(* one.                                                                   *)
(**************************************************************************)
EXTENDS SiteCopies, TLAPS

---------------------------------------------------------------------------------
(* The invariant. *)

Ops   == {"none", "create", "clone", "import", "destroy"}
State == Content \cup {Torn}
Wish  == [root : SUBSET Content, env : Content, db : State \cup {None}]
Job   == [op : Ops, src : Domains \cup {None}, tgt : Domains \cup {None}, row : Row \cup {None},
          want : Wish \cup {None}, clean : BOOLEAN, failed : BOOLEAN]

NativeClone(j) == j.op = "clone" /\ j.row.kind = "native"

(* A label goes with an operation, and an operation with its arguments. *)
Fits(l, j) ==
  /\ l = "idle" <=> j = Idle
  /\ l = "idle" <=> j.op = "none"
  /\ l = "purge" <=> j.op = "destroy"
  /\ j.op = "create" => l = "provision" /\ j.want.db # None
  /\ l \in {"create", "done"} => j.op \in {"clone", "import"}
  /\ l = "provision" => j.op \in {"create", "clone", "import"}
  /\ l = "env" => j.op = "clone"
  /\ l \in {"quiet", "root", "data", "wake", "discard"} => NativeClone(j)
  /\ l \in {"paths", "dump"} => j.op = "clone" /\ j.row.kind = "compose"
  /\ l \in {"files", "replay", "setEnv", "restart"} => j.op = "import"
  /\ j.op \in {"create", "clone", "import"} => j.tgt \in Domains /\ j.row \in Row /\ j.want \in Wish
  /\ j.op \in {"clone", "destroy"} => j.src \in Domains
  /\ j.op \notin {"clone", "destroy"} => j.src = None
  /\ j.op = "destroy" => j.tgt = None /\ j.row \in Row
  /\ j.op = "clone" => j.src # j.tgt /\ j.row.name = IF j.row.kind = "native" THEN j.src ELSE j.tgt

ProcInv ==
  /\ pc \in [Procs -> Labels] /\ job \in [Procs -> Job]
  /\ \A p \in Procs : Fits(pc[p], job[p])

DataInv ==
  /\ site \in [Domains -> Row \cup {None}]
  /\ disk \in [Domains -> [root : SUBSET Content, data : Database \cup {None}]]
  /\ up \subseteq Domains /\ hurt \subseteq Domains /\ archive \in Archive \cup {None}
  /\ made \in Content /\ troubles \in 0..MaxTroubles /\ asked \in 0..MaxRequests

(* What a request holds the locks of. *)
Held(l, j) == (IF j.op \in {"clone", "destroy"} THEN {j.src} ELSE {})
              \cup (IF l = "provision" THEN {j.tgt} ELSE {})
LockInv ==
  /\ lock = UNION {Held(pc[p], job[p]) : p \in Procs}
  /\ \A p, q \in Procs : p # q => Held(pc[p], job[p]) \cap Held(pc[q], job[q]) = {}

(* The containers of a site run as its status says. *)
Calm(d) == d \notin hurt /\ Exists(d) => (d \in up <=> site[d].status = "running")
FreeInv == \A d \in Domains \ lock : Calm(d)

(* What a request knows of the domains it holds. *)
Like(d, row) == site[d] \in Row /\ site[d].kind = row.kind
HeldOk(l, j) ==
  /\ j.op = "clone" => /\ Like(j.src, j.row) /\ site[j.src].status = j.row.status
                       /\ j.src \notin hurt =>
                            IF l \in {"root", "data", "wake"} THEN j.src \notin up
                                                              ELSE j.src \in up <=> j.row.status = "running"
  /\ j.op = "destroy" => site[j.src] = None
  /\ l = "provision" => Like(j.tgt, j.row) /\ site[j.tgt].name = j.row.name

(* A copy nothing disturbed is the only request for its target. *)
Copying(j)  == j.op \in {"clone", "import"} /\ j.clean
Apart(j, i) == Copying(j) => j.tgt # i.src /\ j.tgt # i.tgt
AloneInv    == \A p, q \in Procs : p # q => Apart(job[p], job[q])

(* Step by step, it has what the original has. *)
Holding(d, db) == IF db = None THEN disk[d].data = None ELSE disk[d].data \in Database /\ disk[d].data.of = db
Serving(d, db) == disk[d].data \in Database /\ disk[d].data.of = IF db = None THEN 0 ELSE db
Made == {"env", "paths", "dump", "files", "replay", "setEnv", "restart", "done"}
SourceOk(l, j) ==
  /\ j.op = "clone" => disk[j.src].root = j.want.root
  /\ l \in {"root", "data"} => j.src \notin up /\ j.want.db = Resting(j.src)
TargetOk(l, j) == LET d == j.tgt w == j.want IN
  /\ l \in {"quiet", "root"} \/ (l \in {"create", "provision"} /\ ~NativeClone(j)) => disk[d] = Empty
  /\ l = "data" => disk[d].root = w.root /\ disk[d].data = None
  /\ (l = "wake" /\ ~j.failed) \/ (l \in {"create", "provision"} /\ NativeClone(j)) =>
       disk[d].root = w.root /\ Holding(d, w.db)
  /\ l \in Made =>
       /\ Like(d, j.row) /\ site[d].name = j.row.name /\ d \in up
       /\ disk[d].root = IF l \in {"paths", "files"} THEN {} ELSE w.root
       /\ site[d].env = IF l \in {"dump", "restart", "done"} THEN w.env ELSE 0
       /\ IF l \in {"paths", "dump", "files", "replay"} \/ (l = "env" /\ ~NativeClone(j))
            THEN Serving(d, 0) ELSE Serving(d, w.db)
       /\ NativeClone(j) \/ disk[d].data.name = j.row.name
CopyOk(l, j) == Copying(j) => SourceOk(l, j) /\ TargetOk(l, j)

IInv == /\ ProcInv /\ DataInv /\ LockInv /\ FreeInv /\ AloneInv
        /\ \A p \in Procs : HeldOk(pc[p], job[p]) /\ CopyOk(pc[p], job[p])
---------------------------------------------------------------------------------
(* What a step does: one request moves on, and the others stay where they are, though     *)
(* their copies may be disturbed.                                                         *)

Soiled(j, k) == k = j \/ (j.op # "none" /\ k = [j EXCEPT !.clean = FALSE])
Stay(q)      == pc'[q] = pc[q] /\ Soiled(job[q], job'[q])
Others(p)    == /\ pc' \in [Procs -> Labels] /\ job' \in [Procs -> Job]
                /\ \A q \in Procs \ {p} : Stay(q)
Step(p, l, j, m, k) == l = pc[p] /\ j = job[p] /\ pc'[p] = m /\ job'[p] = k /\ Others(p)

(* What a step leaves alone of a domain: everything; what a lock protects; what a copy    *)
(* from it relies on.                                                                     *)
Same(d)    == /\ site'[d] = site[d] /\ disk'[d] = disk[d] /\ (d \in up' <=> d \in up)
              /\ (d \in hurt' <=> d \in hurt)
Settled(d) == /\ (site'[d] = None <=> site[d] = None)
              /\ site[d] # None => /\ site'[d].kind = site[d].kind /\ site'[d].status = site[d].status
                                   /\ site'[d].name = site[d].name
              /\ (d \in up' <=> d \in up) \/ d \in hurt'
              /\ d \in hurt => d \in hurt'
Kept(d)    == site'[d] = site[d] /\ disk'[d] = disk[d] /\ (d \in up' <=> d \in up)
Source(d)  == /\ disk'[d].root = disk[d].root
              /\ d \notin up => d \notin up' /\ disk'[d].data = disk[d].data

(* The others keep what they rely on. *)
Mild(p) == \A q \in Procs \ {p} :
  /\ \A d \in Held(pc[q], job[q]) : Settled(d)
  /\ Copying(job'[q]) => Kept(Tgt(q)) /\ (job[q].op = "clone" => Source(Src(q)))
AloneOk(p, k) == \A q \in Procs \ {p} : Apart(k, job'[q]) /\ Apart(job'[q], k)
FreeOk        == \A d \in Domains \ lock' : Calm(d)'

---------------------------------------------------------------------------------
(* General lemmas. *)

LEMMA FitsFacts ==
  ASSUME ProcInv, NEW p \in Procs
  PROVE  pc[p] \in Labels /\ job[p] \in Job /\ Fits(pc[p], job[p])
  BY DEF ProcInv

LEMMA JobFacts ==
  ASSUME NEW j \in Job
  PROVE  /\ j.op \in Ops /\ j.src \in Domains \cup {None} /\ j.tgt \in Domains \cup {None}
         /\ j.row \in Row \cup {None} /\ j.want \in Wish \cup {None}
         /\ j.clean \in BOOLEAN /\ j.failed \in BOOLEAN
  BY DEF Job

LEMMA IdleFacts ==
  /\ Idle \in Job /\ Idle.op = "none" /\ Idle.src = None /\ Idle.tgt = None
  /\ Held("idle", Idle) = {} /\ Fits("idle", Idle) /\ ~Copying(Idle)
  BY NoneAssumption DEF Idle, Job, Ops, Held, Fits, Copying, NativeClone

LEMMA SoiledFacts ==
  ASSUME NEW j \in Job, NEW k, Soiled(j, k)
  PROVE  /\ k \in Job /\ k.op = j.op /\ k.src = j.src /\ k.tgt = j.tgt /\ k.row = j.row
         /\ k.want = j.want /\ k.failed = j.failed /\ (Copying(k) => k = j /\ Copying(j))
  BY DEF Soiled, Job, Copying

LEMMA SoiledFits ==
  ASSUME NEW l \in Labels, NEW j \in Job, NEW k, Soiled(j, k), Fits(l, j)
  PROVE  Fits(l, k) /\ Held(l, k) = Held(l, j)
  <1>1. k.op = j.op /\ k.src = j.src /\ k.tgt = j.tgt /\ k.row = j.row /\ k.want = j.want
    BY SoiledFacts
  <1>2. Held(l, k) = Held(l, j)
    BY <1>1 DEF Held
  <1>3. l = "idle" <=> k = Idle
    <2>1. CASE l = "idle"
      <3>1. j = Idle /\ j.op = "none"
        BY <2>1 DEF Fits
      <3> QED BY <2>1, <3>1 DEF Soiled
    <2>2. CASE l # "idle"
      <3>1. k.op # "none"
        BY <2>2, <1>1 DEF Fits
      <3> QED BY <2>2, <3>1, IdleFacts
    <2> QED BY <2>1, <2>2
  <1>4. Fits(l, k)
    BY <1>1, <1>3 DEF Fits, NativeClone
  <1> QED BY <1>2, <1>4

LEMMA OtherFacts ==
  ASSUME ProcInv, NEW p, Others(p), NEW q \in Procs, q # p
  PROVE  /\ pc'[q] = pc[q] /\ Soiled(job[q], job'[q])
         /\ pc[q] \in Labels /\ job[q] \in Job /\ Fits(pc[q], job[q]) /\ job'[q] \in Job
         /\ Fits(pc'[q], job'[q]) /\ Held(pc'[q], job'[q]) = Held(pc[q], job[q])
         /\ job'[q].src = job[q].src /\ job'[q].tgt = job[q].tgt /\ job'[q].op = job[q].op
         /\ Copying(job'[q]) => job'[q] = job[q] /\ Copying(job[q])
  BY FitsFacts, SoiledFacts, SoiledFits DEF Others, Stay

LEMMA SettledCalm ==
  ASSUME NEW d \in Domains, Settled(d), Calm(d)
  PROVE  Calm(d)'
  BY DEF Settled, Calm, Exists

LEMMA HeldIn ==
  ASSUME NEW l \in Labels, NEW j \in Job, Fits(l, j)
  PROVE  /\ Held(l, j) \subseteq Domains
         /\ j.op \in {"clone", "destroy"} => j.src \in Held(l, j)
         /\ l = "provision" => j.tgt \in Held(l, j)
  BY DEF Held, Fits

(* What a request knows of the domains it holds stays so when the step leaves them alone. *)
LEMMA HeldKept ==
  ASSUME DataInv, DataInv', NEW l \in Labels, NEW j \in Job, NEW k, Soiled(j, k), Fits(l, j), HeldOk(l, j),
         \A d \in Held(l, j) : Settled(d)
  PROVE  HeldOk(l, k)'
  <1> DEFINE s == j.src
  <1> DEFINE t == j.tgt
  <1>1. k.op = j.op /\ k.src = j.src /\ k.tgt = j.tgt /\ k.row = j.row
    BY SoiledFacts
  <1>2. ASSUME NEW d \in Domains, Settled(d), NEW row, Like(d, row)
        PROVE  Like(d, row)' /\ site'[d].status = site[d].status /\ site'[d].name = site[d].name
    BY <1>2, NoneAssumption DEF Settled, Like, DataInv
  <1>3. CASE j.op = "clone"
    <2>1. s \in Domains /\ Settled(s)
      BY <1>3, HeldIn
    <2>2. Like(s, j.row)' /\ site'[s].status = j.row.status
      BY <1>2, <1>3, <2>1 DEF HeldOk
    <2>3. s \notin hurt' => IF l \in {"root", "data", "wake"} THEN s \notin up' ELSE s \in up' <=> j.row.status = "running"
      BY <1>3, <2>1 DEF HeldOk, Settled
    <2>4. l = "provision" => t \in Domains /\ Settled(t) /\ Like(t, j.row)
      BY <1>3, HeldIn DEF HeldOk
    <2>5. l = "provision" => Like(t, j.row)' /\ site'[t].name = j.row.name
      BY <1>2, <2>4 DEF HeldOk
    <2> QED BY <1>1, <1>3, <2>2, <2>3, <2>5 DEF HeldOk, Like
  <1>4. CASE j.op # "clone"
    <2>1. j.op = "destroy" => s \in Domains /\ Settled(s)
      BY HeldIn
    <2>2. j.op = "destroy" => site'[s] = None
      BY <2>1 DEF HeldOk, Settled
    <2>4. l = "provision" => t \in Domains /\ Settled(t) /\ Like(t, j.row)
      BY HeldIn DEF HeldOk
    <2>5. l = "provision" => Like(t, j.row)' /\ site'[t].name = j.row.name
      BY <1>2, <2>4 DEF HeldOk
    <2> QED BY <1>1, <1>4, <2>2, <2>5 DEF HeldOk, Like
  <1> QED BY <1>3, <1>4

(* What a copy has so far stays so when the step leaves its target alone, and its source. *)
LEMMA CopyKept ==
  ASSUME NEW l \in Labels, NEW j \in Job, Fits(l, j), CopyOk(l, j),
         Copying(j) => Kept(j.tgt) /\ (j.op = "clone" => Source(j.src))
  PROVE  CopyOk(l, j)'
  <1> SUFFICES ASSUME Copying(j) PROVE SourceOk(l, j)' /\ TargetOk(l, j)'
    BY DEF CopyOk, Copying
  <1>1. SourceOk(l, j) /\ TargetOk(l, j) /\ Kept(j.tgt) /\ (j.op = "clone" => Source(j.src))
    BY DEF CopyOk
  <1>2. SourceOk(l, j)'
    <2>1. l \in {"root", "data"} => j.op = "clone"
      BY DEF Fits, NativeClone
    <2> QED BY <1>1, <2>1 DEF SourceOk, Source, Resting
  <1>3. TargetOk(l, j)'
    BY <1>1 DEF TargetOk, Kept, Holding, Serving, Like
  <1> QED BY <1>2, <1>3

LEMMA OthersOk ==
  ASSUME IInv, DataInv', NEW p, Others(p), Mild(p), NEW q \in Procs, q # p, NEW a, NEW b, a = pc'[q], b = job'[q]
  PROVE  Fits(a, b) /\ HeldOk(a, b)' /\ CopyOk(a, b)'
  <1>1. PICK l, j : l = pc[q] /\ j = job[q]
    OBVIOUS
  <1>2. /\ a = l /\ Soiled(j, b) /\ l \in Labels /\ j \in Job /\ Fits(l, j) /\ Fits(a, b)
        /\ (Copying(b) => b = j /\ Copying(j))
    BY <1>1, OtherFacts DEF IInv
  <1>3. \A d \in Held(l, j) : Settled(d)
    BY <1>1 DEF Mild
  <1>4. HeldOk(l, j) /\ CopyOk(l, j)
    BY <1>1 DEF IInv
  <1>5. HeldOk(a, b)'
    BY <1>2, <1>3, <1>4, HeldKept DEF IInv
  <1>6. CopyOk(a, b)'
    <2>1. CASE Copying(b)
      <3>1. b = j /\ Kept(j.tgt) /\ (j.op = "clone" => Source(j.src))
        BY <1>1, <1>2, <2>1 DEF Mild, Src, Tgt
      <3> QED BY <1>2, <1>4, <3>1, CopyKept
    <2>2. CASE ~Copying(b)
      BY <2>2 DEF CopyOk
    <2> QED BY <2>1, <2>2
  <1> QED BY <1>2, <1>5, <1>6

LEMMA ApartKept ==
  ASSUME IInv, NEW p, Others(p), NEW q \in Procs, q # p, NEW r \in Procs, r # p, q # r
  PROVE  Apart(job'[q], job'[r])
  <1>1. Apart(job[q], job[r])
    BY DEF IInv, AloneInv
  <1>2. Copying(job'[q]) => job'[q] = job[q] /\ Copying(job[q])
    BY OtherFacts DEF IInv
  <1>3. job'[r].src = job[r].src /\ job'[r].tgt = job[r].tgt
    BY OtherFacts DEF IInv
  <1> QED BY <1>1, <1>2, <1>3 DEF Apart

LEMMA Assemble ==
  ASSUME IInv, NEW p \in Procs, NEW l, NEW j, NEW m \in Labels, NEW k \in Job, Step(p, l, j, m, k), Mild(p),
         Fits(m, k), DataInv', lock' = (lock \ Held(l, j)) \cup Held(m, k),
         Held(m, k) \cap (lock \ Held(l, j)) = {}, AloneOk(p, k), FreeOk, HeldOk(m, k)', CopyOk(m, k)'
  PROVE  IInv'
  <1>1. /\ l = pc[p] /\ j = job[p] /\ pc'[p] = m /\ job'[p] = k /\ Others(p)
        /\ pc' \in [Procs -> Labels] /\ job' \in [Procs -> Job]
    BY DEF Step, Others
  <1>2. ASSUME NEW q \in Procs
        PROVE  Fits(pc'[q], job'[q]) /\ (HeldOk(pc[q], job[q]) /\ CopyOk(pc[q], job[q]))'
    <2>1. PICK a, b : a = pc'[q] /\ b = job'[q]
      OBVIOUS
    <2>2. Fits(a, b) /\ HeldOk(a, b)' /\ CopyOk(a, b)'
      BY <1>1, <2>1, OthersOk
    <2> QED BY <2>1, <2>2
  <1>3. ProcInv'
    BY <1>1, <1>2 DEF ProcInv
  <1>4. LockInv'
    <2> DEFINE H(q) == Held(pc[q], job[q])
               G(q) == Held(pc'[q], job'[q])
    <2>1. \A q \in Procs \ {p} : G(q) = H(q)
      BY <1>1, OtherFacts DEF IInv
    <2>2. G(p) = Held(m, k) /\ H(p) = Held(l, j)
      BY <1>1
    <2>3. lock = UNION {H(q) : q \in Procs} /\ \A q, r \in Procs : q # r => H(q) \cap H(r) = {}
      BY DEF IInv, LockInv
    <2> HIDE DEF H, G
    <2>4. \A d : d \in lock \ Held(l, j) <=> \E q \in Procs \ {p} : d \in H(q)
      BY <2>2, <2>3
    <2>5. lock' = UNION {G(q) : q \in Procs}
      <3>1. \A d : d \in lock' <=> \E q \in Procs : d \in G(q)
        BY <2>1, <2>2, <2>4
      <3> QED BY <3>1
    <2>6. \A q, r \in Procs : q # r => G(q) \cap G(r) = {}
      <3>1. \A q \in Procs \ {p} : G(q) \cap G(p) = {}
        BY <2>1, <2>2, <2>4
      <3> QED BY <2>1, <2>3, <3>1
    <2> QED BY <2>5, <2>6 DEF LockInv, G
  <1>5. AloneInv'
    BY <1>1, ApartKept DEF AloneInv, AloneOk
  <1>6. FreeInv'
    BY DEF FreeOk, FreeInv
  <1> QED BY <1>2, <1>3, <1>4, <1>5, <1>6 DEF IInv

(* A step of no request. *)
LEMMA AssembleFree ==
  ASSUME IInv, Others(None), Mild(None), DataInv', lock' = lock, FreeOk
  PROVE  IInv'
  <1>1. \A q \in Procs : q # None
    BY NoneAssumption
  <1>2. ASSUME NEW q \in Procs
        PROVE  Fits(pc'[q], job'[q]) /\ (HeldOk(pc[q], job[q]) /\ CopyOk(pc[q], job[q]))'
    <2>1. PICK a, b : a = pc'[q] /\ b = job'[q]
      OBVIOUS
    <2>2. Fits(a, b) /\ HeldOk(a, b)' /\ CopyOk(a, b)'
      BY <1>1, <2>1, OthersOk
    <2> QED BY <2>1, <2>2
  <1>3. ProcInv'
    BY <1>2 DEF ProcInv, Others
  <1>4. LockInv'
    <2>1. \A q \in Procs : Held(pc'[q], job'[q]) = Held(pc[q], job[q])
      BY <1>1, OtherFacts DEF IInv
    <2> QED BY <2>1 DEF IInv, LockInv
  <1>5. AloneInv'
    BY <1>1, ApartKept DEF AloneInv
  <1>6. FreeInv'
    BY DEF FreeOk, FreeInv
  <1> QED BY <1>2, <1>3, <1>4, <1>5, <1>6 DEF IInv

---------------------------------------------------------------------------------
(* Steps that change some domains, and disturb the copies from or to them. *)

LEMMA SpoilFacts ==
  ASSUME ProcInv, NEW p, NEW ds \in SUBSET Domains
  PROVE  /\ Spoil(p, ds) \in [Procs -> Job]
         /\ p \in Procs => Spoil(p, ds)[p] = job[p]
         /\ \A q \in Procs : Soiled(job[q], Spoil(p, ds)[q])
         /\ \A q \in Procs \ {p} : Copying(Spoil(p, ds)[q]) => Src(q) \notin ds /\ Tgt(q) \notin ds
  <1>1. ASSUME NEW q \in Procs
        PROVE  Soiled(job[q], Spoil(p, ds)[q]) /\ Spoil(p, ds)[q] \in Job
    <2>1. job[q] \in Job /\ Fits(pc[q], job[q])
      BY FitsFacts
    <2>2. CASE q # p /\ ds \cap {Src(q), Tgt(q)} # {}
      <3>1. job[q].op # "none"
        <4>1. job[q] = Idle => Src(q) = None /\ Tgt(q) = None
          BY IdleFacts DEF Src, Tgt
        <4> QED BY <2>1, <2>2, <4>1, NoneAssumption DEF Fits
      <3>2. Spoil(p, ds)[q] = [job[q] EXCEPT !.clean = FALSE]
        BY <2>2 DEF Spoil
      <3>3. Soiled(job[q], Spoil(p, ds)[q])
        BY <3>1, <3>2 DEF Soiled
      <3> QED BY <2>1, <3>3, SoiledFacts
    <2>3. CASE ~(q # p /\ ds \cap {Src(q), Tgt(q)} # {})
      <3>1. Spoil(p, ds)[q] = job[q]
        BY <2>3 DEF Spoil
      <3> QED BY <2>1, <3>1 DEF Soiled
    <2> QED BY <2>2, <2>3
  <1>2. Spoil(p, ds) \in [Procs -> Job]
    BY <1>1 DEF Spoil
  <1>3. p \in Procs => Spoil(p, ds)[p] = job[p]
    BY DEF Spoil
  <1>4. ASSUME NEW q \in Procs \ {p}, Copying(Spoil(p, ds)[q])
        PROVE  Src(q) \notin ds /\ Tgt(q) \notin ds
    <2>1. job[q] \in Job
      BY FitsFacts
    <2>2. Spoil(p, ds)[q] = IF ds \cap {Src(q), Tgt(q)} # {} THEN [job[q] EXCEPT !.clean = FALSE] ELSE job[q]
      BY <1>4 DEF Spoil
    <2>3. [job[q] EXCEPT !.clean = FALSE].clean = FALSE
      BY <2>1 DEF Job
    <2> QED BY <1>4, <2>2, <2>3 DEF Copying
  <1> QED BY <1>1, <1>2, <1>3, <1>4

(* What changes is not locked, or not by another, or not in what a lock protects. *)
Mine(p, d) == p \in Procs /\ d \in Held(pc[p], job[p])
LEMMA MildSpoil ==
  ASSUME IInv, NEW p, NEW ds \in SUBSET Domains, pc' \in [Procs -> Labels], job' \in [Procs -> Job],
         \A q \in Procs \ {p} : pc'[q] = pc[q] /\ job'[q] = Spoil(p, ds)[q],
         \A d \in Domains \ ds : Same(d),
         \A d \in ds : Settled(d) \/ d \notin lock \/ Mine(p, d)
  PROVE  Others(p) /\ Mild(p)
  <1>1. Others(p)
    BY SpoilFacts DEF IInv, Others, Stay
  <1>2. ASSUME NEW d, Same(d) PROVE Settled(d) /\ Kept(d) /\ Source(d)
    BY <1>2 DEF Same, Settled, Kept, Source
  <1>3. ASSUME NEW q \in Procs \ {p}, NEW d \in Held(pc[q], job[q]) PROVE Settled(d)
    <2>1. d \in lock /\ d \in Domains
      BY FitsFacts, HeldIn DEF IInv, LockInv
    <2>2. ~Mine(p, d)
      BY DEF IInv, LockInv, Mine
    <2> QED BY <1>2, <2>1, <2>2
  <1>4. ASSUME NEW q \in Procs \ {p}, Copying(job'[q])
        PROVE  Kept(Tgt(q)) /\ (job[q].op = "clone" => Source(Src(q)))
    <2>1. Src(q) \notin ds /\ Tgt(q) \notin ds
      BY <1>4, SpoilFacts DEF IInv
    <2>2. Tgt(q) \in Domains /\ (job[q].op = "clone" => Src(q) \in Domains)
      <3>1. Copying(job[q]) /\ Fits(pc[q], job[q])
        BY <1>1, <1>4, OtherFacts DEF IInv
      <3> QED BY <3>1 DEF Copying, Fits, Src, Tgt
    <2> QED BY <1>2, <2>1, <2>2
  <1> QED BY <1>1, <1>3, <1>4 DEF Mild

LEMMA FreeKept ==
  ASSUME IInv, \A d \in Domains \ lock' : Calm(d)' \/ (Settled(d) /\ (d \notin lock \/ Calm(d)))
  PROVE  FreeOk
  BY SettledCalm DEF IInv, FreeInv, FreeOk

LEMMA AloneKept ==
  ASSUME IInv, NEW p \in Procs, NEW k, Others(p), job[p].src = k.src, job[p].tgt = k.tgt,
         Copying(k) => Copying(job[p])
  PROVE  AloneOk(p, k)
  <1> SUFFICES ASSUME NEW q \in Procs, q # p PROVE Apart(k, job'[q]) /\ Apart(job'[q], k)
    BY DEF AloneOk
  <1>1. Apart(job[p], job[q]) /\ Apart(job[q], job[p])
    BY DEF IInv, AloneInv
  <1>2. /\ Copying(job'[q]) => job'[q] = job[q] /\ Copying(job[q])
        /\ job'[q].src = job[q].src /\ job'[q].tgt = job[q].tgt
    BY OtherFacts DEF IInv
  <1> QED BY <1>1, <1>2 DEF Apart

LEMMA AloneIdle ==
  ASSUME IInv, NEW p \in Procs, Others(p)
  PROVE  AloneOk(p, Idle)
  <1> SUFFICES ASSUME NEW q \in Procs, q # p PROVE Apart(Idle, job'[q]) /\ Apart(job'[q], Idle)
    BY DEF AloneOk
  <1>1. Fits(pc'[q], job'[q])
    BY OtherFacts DEF IInv
  <1>2. Copying(job'[q]) => job'[q].tgt \in Domains
    BY <1>1 DEF Fits, Copying
  <1> QED BY <1>2, IdleFacts, NoneAssumption DEF Apart

LEMMA Now ==
  ASSUME IInv, NEW p \in Procs
  PROVE  /\ pc[p] \in Labels /\ job[p] \in Job /\ Fits(pc[p], job[p])
         /\ HeldOk(pc[p], job[p]) /\ CopyOk(pc[p], job[p])
         /\ \A d \in Held(pc[p], job[p]) : d \in lock /\ d \in Domains
  BY FitsFacts, HeldIn DEF IInv, LockInv

(* A request in the middle of a copy, at work on its target. *)
Resters == {"root", "data", "wake"}
LEMMA Work ==
  ASSUME IInv, NEW p \in Procs, NEW l, NEW j, NEW m \in Labels, NEW k \in Job, l = pc[p], j = job[p],
         pc' = [pc EXCEPT ![p] = m], job' = [Spoil(p, {j.tgt}) EXCEPT ![p] = k], j.tgt \in Domains,
         Fits(m, k), k.op = j.op, k.src = j.src, k.tgt = j.tgt, k.row = j.row, Copying(k) => Copying(j),
         lock' = lock, l # "provision", m # "provision", l \in Resters <=> m \in Resters, DataInv',
         \A e \in Domains \ {j.tgt} : Same(e), Settled(j.tgt), CopyOk(m, k)'
  PROVE  IInv'
  <1>1. /\ pc' \in [Procs -> Labels] /\ job' \in [Procs -> Job] /\ pc'[p] = m /\ job'[p] = k
        /\ \A q \in Procs \ {p} : pc'[q] = pc[q] /\ job'[q] = Spoil(p, {j.tgt})[q]
    BY SpoilFacts DEF IInv, ProcInv
  <1>2. Others(p) /\ Mild(p)
    BY <1>1, MildSpoil
  <1>3. \A d \in Domains : Settled(d)
    BY DEF Same, Settled
  <1>4. FreeOk
    BY <1>3, FreeKept
  <1>5. AloneOk(p, k)
    BY <1>2, AloneKept
  <1>6. l \in Labels /\ j \in Job /\ Fits(l, j) /\ HeldOk(l, j) /\ \A d \in Held(l, j) : d \in lock /\ Settled(d)
    BY <1>3, Now
  <1>7. HeldOk(l, j)'
    BY <1>6, HeldKept DEF Soiled, IInv
  <1>8. HeldOk(m, k)'
    BY <1>7 DEF HeldOk, Like, Resters
  <1>9. Held(m, k) = Held(l, j)
    BY DEF Held
  <1>10. lock' = (lock \ Held(l, j)) \cup Held(m, k) /\ Held(m, k) \cap (lock \ Held(l, j)) = {}
    BY <1>6, <1>9
  <1>11. Step(p, l, j, m, k)
    BY <1>1, <1>2 DEF Step
  <1> QED BY <1>2, <1>4, <1>5, <1>8, <1>10, <1>11, Assemble

(* A request that ends, and gives back what it holds. *)
LEMMA Ends ==
  ASSUME IInv, NEW p \in Procs, NEW l, NEW j, NEW ds \in SUBSET Domains, l = pc[p], j = job[p],
         pc' = [pc EXCEPT ![p] = "idle"], job' = [Spoil(p, ds) EXCEPT ![p] = Idle],
         lock' = lock \ Held(l, j), DataInv',
         \A e \in Domains \ ds : Same(e),
         \A e \in ds : Settled(e) \/ (e \notin lock /\ Calm(e)') \/ Mine(p, e),
         \A e \in Held(l, j) : Calm(e)' \/ (Calm(e) /\ Settled(e))
  PROVE  IInv'
  <1>0. "idle" \in Labels
    BY DEF Labels
  <1>1. /\ pc' \in [Procs -> Labels] /\ job' \in [Procs -> Job] /\ pc'[p] = "idle" /\ job'[p] = Idle
        /\ \A q \in Procs \ {p} : pc'[q] = pc[q] /\ job'[q] = Spoil(p, ds)[q]
    <2>1. pc \in [Procs -> Labels] /\ Spoil(p, ds) \in [Procs -> Job]
      BY SpoilFacts DEF IInv, ProcInv
    <2> QED BY <1>0, <2>1, IdleFacts
  <1>2. Others(p) /\ Mild(p)
    BY <1>1, MildSpoil
  <1>3. \A d \in Domains \ ds : Settled(d)
    BY DEF Same, Settled
  <1>4. FreeOk
    BY <1>3, FreeKept DEF Mine
  <1>5. AloneOk(p, Idle)
    BY <1>2, AloneIdle
  <1>6. HeldOk("idle", Idle)' /\ CopyOk("idle", Idle)'
    BY IdleFacts DEF HeldOk, CopyOk, Copying
  <1>7. Step(p, l, j, "idle", Idle)
    BY <1>1, <1>2 DEF Step
  <1> QED BY <1>0, <1>2, <1>4, <1>5, <1>6, <1>7, IdleFacts, Assemble

---------------------------------------------------------------------------------
(* The directories. *)

Places == [Domains -> [root : SUBSET Content, data : Database \cup {None}]]
DiskIs(d, r, x) == /\ disk' \in Places /\ disk'[d].root = r /\ disk'[d].data = x
                   /\ \A e \in Domains \ {d} : disk'[e] = disk[e]

LEMMA DiskFacts ==
  ASSUME DataInv, NEW d \in Domains
  PROVE  /\ disk \in Places /\ disk[d] \in [root : SUBSET Content, data : Database \cup {None}]
         /\ disk[d].root \in SUBSET Content /\ disk[d].data \in Database \cup {None}
         /\ disk[d] = [root |-> disk[d].root, data |-> disk[d].data]
  BY DEF DataInv, Places

LEMMA DatabaseFacts ==
  ASSUME NEW x \in Database
  PROVE  /\ x # None /\ x.name \in Domains /\ x.of \in State /\ x.of # None
         /\ \A b \in State : [x EXCEPT !.of = b] \in Database /\ [x EXCEPT !.of = b].of = b
                             /\ [x EXCEPT !.of = b].name = x.name
  BY NoneAssumption DEF Database, State

LEMMA RestingFacts ==
  ASSUME DataInv, NEW d \in Domains
  PROVE  /\ Resting(d) \in State \cup {None} /\ (Resting(d) = None <=> disk[d].data = None)
         /\ disk[d].data # None => disk[d].data \in Database /\ Resting(d) = disk[d].data.of
  BY DiskFacts, DatabaseFacts DEF Resting

LEMMA SetBoth ==
  ASSUME DataInv, NEW d \in Domains, NEW r \in SUBSET Content, NEW x \in Database \cup {None},
         disk' = [disk EXCEPT ![d] = [root |-> r, data |-> x]]
  PROVE  DiskIs(d, r, x)
  BY DiskFacts DEF DiskIs, Places

LEMMA SetRoot ==
  ASSUME DataInv, NEW d \in Domains, NEW r \in SUBSET Content, disk' = [disk EXCEPT ![d].root = @ \cup r]
  PROVE  DiskIs(d, disk[d].root \cup r, disk[d].data)
  BY DiskFacts DEF DiskIs, Places

LEMMA SetData ==
  ASSUME DataInv, NEW d \in Domains, NEW x \in Database \cup {None}, disk' = [disk EXCEPT ![d].data = x]
  PROVE  DiskIs(d, disk[d].root, x)
  BY DiskFacts DEF DiskIs, Places

LEMMA SetOf ==
  ASSUME DataInv, NEW d \in Domains, NEW b \in State, disk[d].data \in Database, disk' = [disk EXCEPT ![d].data.of = b]
  PROVE  DiskIs(d, disk[d].root, [disk[d].data EXCEPT !.of = b])
  BY DiskFacts, DatabaseFacts DEF DiskIs, Places

LEMMA SetNone ==
  ASSUME DataInv, NEW d \in Domains, disk' = disk
  PROVE  DiskIs(d, disk[d].root, disk[d].data)
  BY DiskFacts DEF DiskIs, Places

(* The dump of a database is what is in it, if it answers. *)
LEMMA DumpFacts ==
  ASSUME DataInv, NEW d \in Domains, NEW name
  PROVE  /\ DumpOf(d, name) \in State \cup {None}
         /\ DumpOf(d, name) # None <=> /\ d \in up /\ disk[d].data # None
                                       /\ site[d].kind = "compose" \/ disk[d].data.name = name
         /\ DumpOf(d, name) # None => DumpOf(d, name) = Resting(d) /\ disk[d].data \in Database
  <1>1. disk[d].data # None => disk[d].data \in Database /\ disk[d].data.of \in State /\ disk[d].data.of # None
    BY DiskFacts, DatabaseFacts
  <1> QED BY <1>1 DEF DumpOf, Resting

(* A dump goes into the database there is, or nowhere. *)
LEMMA RestoredFacts ==
  ASSUME DataInv, NEW d \in Domains, NEW name, NEW b \in State \cup {None}, disk' = Restored(d, name, b)
  PROVE  \E x : /\ DiskIs(d, disk[d].root, x)
                /\ IF b # None /\ Exists(d) /\ DumpOf(d, name) # None
                     THEN disk[d].data \in Database /\ x = [disk[d].data EXCEPT !.of = b]
                     ELSE x = disk[d].data
  <1>1. CASE b # None /\ Exists(d) /\ DumpOf(d, name) # None
    <2>1. disk[d].data \in Database /\ b \in State
      BY <1>1, DumpFacts
    <2>2. disk' = [disk EXCEPT ![d].data.of = b]
      BY <1>1 DEF Restored
    <2>3. DiskIs(d, disk[d].root, [disk[d].data EXCEPT !.of = b])
      BY <2>1, <2>2, SetOf
    <2> QED BY <1>1, <2>1, <2>3
  <1>2. CASE ~(b # None /\ Exists(d) /\ DumpOf(d, name) # None)
    <2>1. disk' = disk
      BY <1>2 DEF Restored
    <2> QED BY <1>2, <2>1, SetNone
  <1> QED BY <1>1, <1>2

LEMMA SpoilSelf ==
  ASSUME ProcInv, NEW p \in Procs, NEW ds \in SUBSET Domains
  PROVE  Spoil(p, ds) = [Spoil(p, ds) EXCEPT ![p] = job[p]]
  BY DEF Spoil

LEMMA TroubleFacts ==
  ASSUME DataInv, Trouble
  PROVE  troubles' \in 0..MaxTroubles
  BY BoundsAssumption DEF DataInv, Trouble

---------------------------------------------------------------------------------
(* Steps in the middle of a copy. *)

LEMMA NativeFacts ==
  ASSUME IInv, NEW p \in Procs, NEW l, NEW j, l = pc[p], j = job[p], NativeClone(j)
  PROVE  /\ j \in Job /\ j.op = "clone" /\ j.src \in Domains /\ j.tgt \in Domains /\ j.src # j.tgt /\ j.row \in Row /\ j.want \in Wish
         /\ j.row.kind = "native" /\ j.row.name = j.src /\ CopyOk(l, j) /\ HeldOk(l, j) /\ Fits(l, j)
  BY Now DEF NativeClone, Fits

(* Nothing but one place on disk changes. *)
LEMMA OnDisk ==
  ASSUME DataInv, NEW d \in Domains, NEW r, NEW x, DiskIs(d, r, x), UNCHANGED <<site, up, hurt>>
  PROVE  /\ \A e \in Domains \ {d} : Same(e)
         /\ \A e \in Domains : Settled(e) /\ (Calm(e)' <=> Calm(e))
  BY DEF DiskIs, Same, Settled, Calm, Exists

LEMMA CopyRootStep ==
  ASSUME IInv, NEW p \in Procs, CopyRoot(p)
  PROVE  IInv'
  <1>1. PICK l, j : l = pc[p] /\ j = job[p]
    OBVIOUS
  <1>2. l = "root" /\ NativeClone(j)
    BY <1>1, Now DEF CopyRoot, At, Fits
  <1>3. /\ j \in Job /\ j.op = "clone" /\ j.src \in Domains /\ j.tgt \in Domains /\ j.src # j.tgt /\ j.row \in Row
        /\ j.want \in Wish /\ CopyOk(l, j) /\ Fits(l, j)
    BY <1>1, <1>2, NativeFacts
  <1>4. disk[j.src].root \in SUBSET Content
    BY <1>3, DiskFacts DEF IInv
  <1>5. CASE /\ Goto(p, "data") /\ job' = Spoil(p, {j.tgt}) /\ UNCHANGED troubles
             /\ disk' = [disk EXCEPT ![j.tgt].root = @ \cup disk[j.src].root]
    <2>1. DiskIs(j.tgt, disk[j.tgt].root \cup disk[j.src].root, disk[j.tgt].data)
      BY <1>3, <1>4, <1>5, SetRoot DEF IInv
    <2>2. UNCHANGED <<lock, site, up, archive, made, hurt, asked, troubles>>
      BY <1>5 DEF CopyRoot
    <2>3. DataInv'
      BY <2>1, <2>2 DEF IInv, DataInv, DiskIs, Places
    <2>4. pc' = [pc EXCEPT ![p] = "data"] /\ job' = [Spoil(p, {j.tgt}) EXCEPT ![p] = j]
      BY <1>1, <1>3, <1>5, SpoilSelf DEF Goto, IInv
    <2>5. Fits("data", j)
      BY <1>2, <1>3 DEF Fits, NativeClone
    <2>6. CopyOk("data", j)'
      <3> SUFFICES ASSUME Copying(j) PROVE SourceOk("data", j)' /\ TargetOk("data", j)'
        BY DEF CopyOk, Copying
      <3>1. SourceOk("root", j) /\ TargetOk("root", j)
        BY <1>2, <1>3 DEF CopyOk
      <3>2. disk'[j.src] = disk[j.src]
        BY <1>3, <2>1 DEF DiskIs
      <3>3. SourceOk("data", j)'
        BY <2>2, <3>1, <3>2 DEF SourceOk, Resting
      <3>4. disk[j.tgt] = Empty /\ disk[j.src].root = j.want.root
        BY <1>3, <3>1 DEF TargetOk, SourceOk
      <3>5. disk'[j.tgt].root = j.want.root /\ disk'[j.tgt].data = None
        BY <2>1, <3>4 DEF DiskIs, Empty
      <3> QED BY <3>3, <3>5 DEF TargetOk, Made
    <2>7. (\A e \in Domains \ {j.tgt} : Same(e)) /\ Settled(j.tgt)
      BY <1>3, <2>1, <2>2, OnDisk DEF IInv
    <2>8. "data" \in Labels /\ lock' = lock
      BY <2>2 DEF Labels
    <2> QED BY <1>1, <1>2, <1>3, <2>3, <2>4, <2>5, <2>6, <2>7, <2>8, Work DEF Resters
  <1>6. CASE /\ Trouble /\ Goto(p, "wake") /\ job' = [Spoil(p, {j.tgt}) EXCEPT ![p].failed = TRUE]
             /\ \E part \in SUBSET disk[j.src].root : disk' = [disk EXCEPT ![j.tgt].root = @ \cup part]
    <2>0. PICK part \in SUBSET disk[j.src].root : disk' = [disk EXCEPT ![j.tgt].root = @ \cup part]
      BY <1>6
    <2>1. DiskIs(j.tgt, disk[j.tgt].root \cup part, disk[j.tgt].data)
      BY <1>3, <1>4, <2>0, SetRoot DEF IInv
    <2>2. UNCHANGED <<lock, site, up, archive, made, hurt, asked>>
      BY <1>6 DEF CopyRoot
    <2>3. DataInv'
      BY <1>6, <2>1, <2>2, TroubleFacts DEF IInv, DataInv, DiskIs, Places
    <2> DEFINE k == [j EXCEPT !.failed = TRUE]
    <2>k. k \in Job /\ k.op = j.op /\ k.src = j.src /\ k.tgt = j.tgt /\ k.row = j.row /\ k.want = j.want /\ k.clean = j.clean /\ k.failed
      BY <1>3 DEF Job
    <2>4. pc' = [pc EXCEPT ![p] = "wake"] /\ job' = [Spoil(p, {j.tgt}) EXCEPT ![p] = k]
      <3>1. Spoil(p, {j.tgt})[p] = j
        BY <1>1, <1>3, SpoilFacts DEF IInv
      <3> QED BY <1>6, <3>1 DEF Goto
    <2> HIDE DEF k
    <2>5. Fits("wake", k)
      BY <1>2, <1>3, <2>k, IdleFacts DEF Fits, NativeClone
    <2>6. CopyOk("wake", k)'
      <3> SUFFICES ASSUME Copying(k) PROVE SourceOk("wake", k)' /\ TargetOk("wake", k)'
        BY DEF CopyOk, Copying
      <3>1. SourceOk("root", j)
        BY <1>2, <1>3, <2>k DEF CopyOk, Copying
      <3>2. disk'[j.src] = disk[j.src]
        BY <1>3, <2>1 DEF DiskIs
      <3>3. SourceOk("wake", k)'
        BY <2>k, <3>1, <3>2 DEF SourceOk
      <3> QED BY <2>k, <3>3 DEF TargetOk, Made
    <2>7. (\A e \in Domains \ {j.tgt} : Same(e)) /\ Settled(j.tgt)
      BY <1>3, <2>1, <2>2, OnDisk DEF IInv
    <2>8. "wake" \in Labels /\ lock' = lock /\ (Copying(k) => Copying(j))
      BY <2>2, <2>k DEF Labels, Copying
    <2> QED BY <1>1, <1>2, <1>3, <2>3, <2>4, <2>5, <2>6, <2>7, <2>8, <2>k, Work DEF Resters
  <1>7. Src(p) = j.src /\ Tgt(p) = j.tgt
    BY <1>1 DEF Src, Tgt
  <1> QED BY <1>5, <1>6, <1>7 DEF CopyRoot

LEMMA CopyDataStep ==
  ASSUME IInv, NEW p \in Procs, CopyData(p)
  PROVE  IInv'
  <1>1. PICK l, j : l = pc[p] /\ j = job[p]
    OBVIOUS
  <1>2. l = "data" /\ NativeClone(j)
    BY <1>1, Now DEF CopyData, At, Fits
  <1>3. /\ j \in Job /\ j.op = "clone" /\ j.src \in Domains /\ j.tgt \in Domains /\ j.src # j.tgt /\ j.row \in Row
        /\ j.want \in Wish /\ CopyOk(l, j) /\ Fits(l, j)
    BY <1>1, <1>2, NativeFacts
  <1>4. PICK from : from = disk[j.src].data
    OBVIOUS
  <1>5. from \in Database \cup {None} /\ disk[j.tgt].data \in Database \cup {None} /\ Torn \in State
    BY <1>3, <1>4, DiskFacts DEF IInv, State
  <1>6. UNCHANGED <<lock, site, up, archive, made, hurt, asked>> /\ pc' = [pc EXCEPT ![p] = "wake"]
    BY DEF CopyData, Goto
  <1>7. Src(p) = j.src /\ Tgt(p) = j.tgt
    BY <1>1 DEF Src, Tgt
  <1>8. CASE /\ job' = Spoil(p, {j.tgt}) /\ UNCHANGED troubles
             /\ disk' = [disk EXCEPT ![j.tgt].data =
                  IF from = None THEN @ ELSE IF j.src \in up THEN [from EXCEPT !.of = Torn] ELSE from]
    <2>0. PICK x : x = IF from = None THEN disk[j.tgt].data ELSE IF j.src \in up THEN [from EXCEPT !.of = Torn] ELSE from
      OBVIOUS
    <2>x. x \in Database \cup {None}
      BY <1>5, <2>0, DatabaseFacts
    <2>1. DiskIs(j.tgt, disk[j.tgt].root, x)
      <3>1. disk' = [disk EXCEPT ![j.tgt].data = x]
        BY <1>8, <2>0
      <3> QED BY <1>3, <2>x, <3>1, SetData DEF IInv
    <2>3. DataInv'
      BY <1>6, <1>8, <2>1 DEF IInv, DataInv, DiskIs, Places
    <2>4. job' = [Spoil(p, {j.tgt}) EXCEPT ![p] = j]
      BY <1>1, <1>3, <1>8, SpoilSelf DEF IInv
    <2>5. Fits("wake", j)
      BY <1>2, <1>3 DEF Fits, NativeClone
    <2>6. CopyOk("wake", j)'
      <3> SUFFICES ASSUME Copying(j) PROVE SourceOk("wake", j)' /\ TargetOk("wake", j)'
        BY DEF CopyOk, Copying
      <3>1. SourceOk("data", j) /\ TargetOk("data", j)
        BY <1>2, <1>3 DEF CopyOk
      <3>2. disk'[j.src] = disk[j.src]
        BY <1>3, <2>1 DEF DiskIs
      <3>3. SourceOk("wake", j)'
        BY <3>1, <3>2 DEF SourceOk
      <3>4. /\ disk[j.tgt].root = j.want.root /\ disk[j.tgt].data = None
            /\ j.src \notin up /\ j.want.db = Resting(j.src)
        BY <1>3, <3>1 DEF TargetOk, SourceOk
      <3>5. x = from /\ (j.want.db = None <=> from = None) /\ (from # None => from \in Database /\ j.want.db = from.of)
        BY <1>3, <1>4, <2>0, <3>4, RestingFacts DEF IInv
      <3>6. disk'[j.tgt].root = j.want.root /\ Holding(j.tgt, j.want.db)'
        BY <2>1, <3>4, <3>5 DEF DiskIs, Holding
      <3> QED BY <3>3, <3>6 DEF TargetOk, Made
    <2>7. (\A e \in Domains \ {j.tgt} : Same(e)) /\ Settled(j.tgt)
      BY <1>3, <1>6, <2>1, OnDisk DEF IInv
    <2>8. "wake" \in Labels /\ lock' = lock
      BY <1>6 DEF Labels
    <2> QED BY <1>1, <1>2, <1>3, <1>6, <2>3, <2>4, <2>5, <2>6, <2>7, <2>8, Work DEF Resters
  <1>9. CASE /\ Trouble /\ job' = [Spoil(p, {j.tgt}) EXCEPT ![p].failed = TRUE]
             /\ disk' = [disk EXCEPT ![j.tgt].data = IF from = None THEN @ ELSE [from EXCEPT !.of = Torn]]
    <2>0. PICK x : x = IF from = None THEN disk[j.tgt].data ELSE [from EXCEPT !.of = Torn]
      OBVIOUS
    <2>x. x \in Database \cup {None}
      BY <1>5, <2>0, DatabaseFacts
    <2>1. DiskIs(j.tgt, disk[j.tgt].root, x)
      <3>1. disk' = [disk EXCEPT ![j.tgt].data = x]
        BY <1>9, <2>0
      <3> QED BY <1>3, <2>x, <3>1, SetData DEF IInv
    <2>3. DataInv'
      BY <1>6, <1>9, <2>1, TroubleFacts DEF IInv, DataInv, DiskIs, Places
    <2> DEFINE k == [j EXCEPT !.failed = TRUE]
    <2>k. k \in Job /\ k.op = j.op /\ k.src = j.src /\ k.tgt = j.tgt /\ k.row = j.row /\ k.want = j.want /\ k.clean = j.clean /\ k.failed
      BY <1>3 DEF Job
    <2>4. job' = [Spoil(p, {j.tgt}) EXCEPT ![p] = k]
      <3>1. Spoil(p, {j.tgt})[p] = j
        BY <1>1, <1>3, SpoilFacts DEF IInv
      <3> QED BY <1>9, <3>1
    <2> HIDE DEF k
    <2>5. Fits("wake", k)
      BY <1>2, <1>3, <2>k, IdleFacts DEF Fits, NativeClone
    <2>6. CopyOk("wake", k)'
      <3> SUFFICES ASSUME Copying(k) PROVE SourceOk("wake", k)' /\ TargetOk("wake", k)'
        BY DEF CopyOk, Copying
      <3>1. SourceOk("data", j)
        BY <1>2, <1>3, <2>k DEF CopyOk, Copying
      <3>2. disk'[j.src] = disk[j.src]
        BY <1>3, <2>1 DEF DiskIs
      <3>3. SourceOk("wake", k)'
        BY <2>k, <3>1, <3>2 DEF SourceOk
      <3> QED BY <2>k, <3>3 DEF TargetOk, Made
    <2>7. (\A e \in Domains \ {j.tgt} : Same(e)) /\ Settled(j.tgt)
      BY <1>3, <1>6, <2>1, OnDisk DEF IInv
    <2>8. "wake" \in Labels /\ lock' = lock /\ (Copying(k) => Copying(j))
      BY <1>6, <2>k DEF Labels, Copying
    <2> QED BY <1>1, <1>2, <1>3, <1>6, <2>3, <2>4, <2>5, <2>6, <2>7, <2>8, <2>k, Work DEF Resters
  <1> QED BY <1>4, <1>7, <1>8, <1>9 DEF CopyData

LEMMA CopyPathsStep ==
  ASSUME IInv, NEW p \in Procs, CopyPaths(p)
  PROVE  IInv'
  <1>1. PICK l, j : l = pc[p] /\ j = job[p]
    OBVIOUS
  <1>2. l = "paths" /\ j.op = "clone" /\ j.row.kind = "compose"
    BY <1>1, Now DEF CopyPaths, At, Fits
  <1>3. /\ j \in Job /\ j.src \in Domains /\ j.tgt \in Domains /\ j.src # j.tgt /\ j.row \in Row
        /\ j.want \in Wish /\ CopyOk(l, j) /\ Fits(l, j)
    BY <1>1, <1>2, Now DEF Fits
  <1>4. disk[j.src].root \in SUBSET Content
    BY <1>3, DiskFacts DEF IInv
  <1>6. UNCHANGED <<lock, site, up, archive, made, hurt, asked>> /\ pc' = [pc EXCEPT ![p] = "env"]
    BY DEF CopyPaths, Goto
  <1>7. Src(p) = j.src /\ Tgt(p) = j.tgt
    BY <1>1 DEF Src, Tgt
  <1>8. CASE /\ job' = Spoil(p, {j.tgt}) /\ UNCHANGED troubles
             /\ disk' = [disk EXCEPT ![j.tgt].root = @ \cup disk[j.src].root]
    <2>1. DiskIs(j.tgt, disk[j.tgt].root \cup disk[j.src].root, disk[j.tgt].data)
      BY <1>3, <1>4, <1>8, SetRoot DEF IInv
    <2>3. DataInv'
      BY <1>6, <1>8, <2>1 DEF IInv, DataInv, DiskIs, Places
    <2>4. job' = [Spoil(p, {j.tgt}) EXCEPT ![p] = j]
      BY <1>1, <1>3, <1>8, SpoilSelf DEF IInv
    <2>5. Fits("env", j)
      BY <1>2, <1>3 DEF Fits, NativeClone
    <2>6. CopyOk("env", j)'
      <3> SUFFICES ASSUME Copying(j) PROVE SourceOk("env", j)' /\ TargetOk("env", j)'
        BY DEF CopyOk, Copying
      <3>1. SourceOk("paths", j) /\ TargetOk("paths", j)
        BY <1>2, <1>3 DEF CopyOk
      <3>2. disk'[j.src] = disk[j.src]
        BY <1>3, <2>1 DEF DiskIs
      <3>3. SourceOk("env", j)'
        BY <3>1, <3>2 DEF SourceOk
      <3>4. disk'[j.tgt].root = j.want.root /\ disk'[j.tgt].data = disk[j.tgt].data
        BY <1>2, <2>1, <3>1 DEF DiskIs, TargetOk, SourceOk, Made
      <3>5. TargetOk("env", j)'
        BY <1>2, <1>6, <3>1, <3>4 DEF TargetOk, Made, Serving, Like, NativeClone
      <3> QED BY <3>3, <3>5
    <2>7. (\A e \in Domains \ {j.tgt} : Same(e)) /\ Settled(j.tgt)
      BY <1>3, <1>6, <2>1, OnDisk DEF IInv
    <2>8. "env" \in Labels /\ lock' = lock
      BY <1>6 DEF Labels
    <2> QED BY <1>1, <1>2, <1>3, <1>6, <2>3, <2>4, <2>5, <2>6, <2>7, <2>8, Work DEF Resters
  <1>9. CASE Trouble /\ job' = [Spoil(p, {j.tgt}) EXCEPT ![p].clean = FALSE] /\ UNCHANGED disk
    <2>1. DiskIs(j.tgt, disk[j.tgt].root, disk[j.tgt].data)
      BY <1>3, <1>9, SetNone DEF IInv
    <2>3. DataInv'
      BY <1>6, <1>9, <2>1, TroubleFacts DEF IInv, DataInv, DiskIs, Places
    <2> DEFINE k == [j EXCEPT !.clean = FALSE]
    <2>k. k \in Job /\ k.op = j.op /\ k.src = j.src /\ k.tgt = j.tgt /\ k.row = j.row /\ k.want = j.want /\ ~k.clean
      BY <1>3 DEF Job
    <2>4. job' = [Spoil(p, {j.tgt}) EXCEPT ![p] = k]
      <3>1. Spoil(p, {j.tgt})[p] = j
        BY <1>1, <1>3, SpoilFacts DEF IInv
      <3> QED BY <1>9, <3>1
    <2> HIDE DEF k
    <2>5. Fits("env", k)
      BY <1>2, <1>3, <2>k, IdleFacts DEF Fits, NativeClone
    <2>6. CopyOk("env", k)' /\ ~Copying(k)
      BY <2>k DEF CopyOk, Copying
    <2>7. (\A e \in Domains \ {j.tgt} : Same(e)) /\ Settled(j.tgt)
      BY <1>3, <1>6, <2>1, OnDisk DEF IInv
    <2>8. "env" \in Labels /\ lock' = lock
      BY <1>6 DEF Labels
    <2> QED BY <1>1, <1>2, <1>3, <1>6, <2>3, <2>4, <2>5, <2>6, <2>7, <2>8, <2>k, Work DEF Resters
  <1> QED BY <1>7, <1>8, <1>9 DEF CopyPaths

---------------------------------------------------------------------------------
(* The rows. *)

Rows == [Domains -> Row \cup {None}]
RowIs(d, row, v, st) == /\ site' \in Rows /\ site'[d] \in Row /\ site'[d].kind = row.kind /\ site'[d].name = row.name
                        /\ site'[d].env = v /\ site'[d].status = st
                        /\ \A e \in Domains \ {d} : site'[e] = site[e]

LEMMA RowFacts ==
  ASSUME DataInv, NEW d \in Domains
  PROVE  site \in Rows /\ (site[d] # None <=> site[d] \in Row)
  BY NoneAssumption DEF DataInv, Rows

LEMMA SetEnvRow ==
  ASSUME DataInv, NEW d \in Domains, NEW v \in Content, site[d] \in Row, site' = [site EXCEPT ![d].env = v]
  PROVE  RowIs(d, site[d], v, site[d].status)
  <1>1. PICK x : x = [site[d] EXCEPT !.env = v]
    OBVIOUS
  <1>2. x \in Row /\ x.kind = site[d].kind /\ x.name = site[d].name /\ x.env = v /\ x.status = site[d].status
    BY <1>1 DEF Row
  <1>3. site' \in Rows /\ site'[d] = x /\ \A e \in Domains \ {d} : site'[e] = site[e]
    BY <1>1, <1>2, RowFacts DEF Rows
  <1> QED BY <1>2, <1>3 DEF RowIs

LEMMA CopyEnvStep ==
  ASSUME IInv, NEW p \in Procs, CopyEnv(p)
  PROVE  IInv'
  <1>1. PICK l, j : l = pc[p] /\ j = job[p]
    OBVIOUS
  <1>2. PICK m : m = CASE l = "setEnv" -> "restart" [] NativeClone(j) -> "done" [] OTHER -> "dump"
    OBVIOUS
  <1>3. /\ l \in {"env", "setEnv"} /\ l \in Labels /\ j \in Job /\ Fits(l, j) /\ j.tgt \in Domains /\ j.row \in Row
        /\ j.want \in Wish /\ CopyOk(l, j) /\ j.op \in {"clone", "import"} /\ (l = "env" <=> j.op = "clone")
    BY <1>1, Now DEF CopyEnv, Fits
  <1>4. /\ Src(p) = j.src /\ Tgt(p) = j.tgt
        /\ l = "env" => (Native(p) <=> NativeClone(j))
    BY <1>1, <1>3 DEF Src, Tgt, Native, NativeClone
  <1>5. UNCHANGED <<lock, disk, up, archive, made, troubles, hurt, asked>> /\ pc' = [pc EXCEPT ![p] = m]
    BY <1>1, <1>2, <1>3, <1>4 DEF CopyEnv, Goto
  <1>6. /\ l = "setEnv" => m = "restart" /\ j.op = "import" /\ ~NativeClone(j)
        /\ l = "env" /\ NativeClone(j) => m = "done"
        /\ l = "env" /\ ~NativeClone(j) => m = "dump" /\ j.row.kind = "compose"
    BY <1>2, <1>3 DEF NativeClone, Row
  <1>7. m \in Labels /\ m # "provision" /\ m \notin Resters /\ l \notin Resters /\ l # "provision"
    BY <1>3, <1>6 DEF Labels, Resters
  <1>8. job' = [Spoil(p, {j.tgt}) EXCEPT ![p] = j]
    BY <1>1, <1>3, <1>4, SpoilSelf DEF CopyEnv, IInv
  <1>9. Fits(m, j)
    BY <1>3, <1>6 DEF Fits, NativeClone
  <1>w. j.want.env \in Content
    BY <1>3 DEF Wish
  <1>10. CASE site[j.tgt] \in Row /\ j.want.env # 0
    <2>1. site' = [site EXCEPT ![j.tgt].env = j.want.env]
      BY <1>1, <1>3, <1>4, <1>10, RowFacts DEF CopyEnv, Exists, IInv
    <2>2. RowIs(j.tgt, site[j.tgt], j.want.env, site[j.tgt].status)
      BY <1>3, <1>10, <1>w, <2>1, SetEnvRow DEF IInv
    <2>3. DataInv'
      BY <1>5, <2>2 DEF IInv, DataInv, RowIs, Rows
    <2>4. (\A e \in Domains \ {j.tgt} : Same(e)) /\ Settled(j.tgt)
      BY <1>3, <1>5, <1>10, <2>2, NoneAssumption DEF RowIs, Same, Settled
    <2>5. CopyOk(m, j)'
      <3> SUFFICES ASSUME Copying(j) PROVE SourceOk(m, j)' /\ TargetOk(m, j)'
        BY DEF CopyOk, Copying
      <3>1. SourceOk(l, j) /\ TargetOk(l, j)
        BY <1>3 DEF CopyOk
      <3>2. SourceOk(m, j)'
        BY <1>3, <1>5, <1>7, <3>1 DEF SourceOk, Resters
      <3>3. site'[j.tgt] \in Row /\ site'[j.tgt].kind = site[j.tgt].kind /\ site'[j.tgt].name = site[j.tgt].name /\ site'[j.tgt].env = j.want.env
        BY <2>2 DEF RowIs
      <3>4. TargetOk(m, j)'
        BY <1>3, <1>5, <1>6, <3>1, <3>3 DEF TargetOk, Made, Serving, Like
      <3> QED BY <3>2, <3>4
    <2> QED BY <1>1, <1>3, <1>5, <1>7, <1>8, <1>9, <2>3, <2>4, <2>5, Work
  <1>11. CASE ~(site[j.tgt] \in Row /\ j.want.env # 0)
    <2>1. site' = site
      BY <1>1, <1>3, <1>4, <1>11, RowFacts DEF CopyEnv, Exists, IInv
    <2>3. DataInv'
      BY <1>5, <2>1 DEF IInv, DataInv
    <2>4. (\A e \in Domains \ {j.tgt} : Same(e)) /\ Settled(j.tgt)
      BY <1>5, <2>1 DEF Same, Settled
    <2>5. CopyOk(m, j)'
      <3> SUFFICES ASSUME Copying(j) PROVE SourceOk(m, j)' /\ TargetOk(m, j)'
        BY DEF CopyOk, Copying
      <3>1. SourceOk(l, j) /\ TargetOk(l, j)
        BY <1>3 DEF CopyOk
      <3>2. SourceOk(m, j)'
        BY <1>3, <1>5, <1>7, <3>1 DEF SourceOk, Resters
      <3>3. site[j.tgt].env = j.want.env
        BY <1>3, <1>11, <3>1 DEF TargetOk, Made, Like
      <3>4. TargetOk(m, j)'
        BY <1>3, <1>5, <1>6, <2>1, <3>1, <3>3 DEF TargetOk, Made, Serving, Like
      <3> QED BY <3>2, <3>4
    <2> QED BY <1>1, <1>3, <1>5, <1>7, <1>8, <1>9, <2>3, <2>4, <2>5, Work
  <1> QED BY <1>10, <1>11

LEMMA CopyDumpStep ==
  ASSUME IInv, NEW p \in Procs, CopyDump(p)
  PROVE  IInv'
  <1>1. PICK l, j : l = pc[p] /\ j = job[p]
    OBVIOUS
  <1>2. l = "dump" /\ j.op = "clone" /\ j.row.kind = "compose"
    BY <1>1, Now DEF CopyDump, At, Fits
  <1>3. /\ j \in Job /\ j.src \in Domains /\ j.tgt \in Domains /\ j.src # j.tgt /\ j.row \in Row
        /\ j.want \in Wish /\ CopyOk(l, j) /\ HeldOk(l, j) /\ Fits(l, j)
    BY <1>1, <1>2, Now DEF Fits
  <1>4. Src(p) = j.src /\ Tgt(p) = j.tgt
    BY <1>1 DEF Src, Tgt
  <1>5. PICK db : db = DumpOf(j.src, j.src)
    OBVIOUS
  <1>6. db \in State \cup {None} /\ (db # None => db = Resting(j.src)) /\ (j.src \in up => db = Resting(j.src))
    <2>1. site[j.src].kind = "compose"
      BY <1>2, <1>3 DEF HeldOk, Like
    <2> QED BY <1>3, <1>5, <2>1, DumpFacts, RestingFacts DEF IInv
  <1>7. UNCHANGED <<lock, site, up, archive, made, troubles, hurt, asked>> /\ pc' = [pc EXCEPT ![p] = "done"]
    BY DEF CopyDump, Goto
  <1>8. PICK w : w = Resting(j.src)
    OBVIOUS
  <1>9. w \in State \cup {None}
    BY <1>3, <1>8, RestingFacts DEF IInv
  <1>10. PICK k : k = [j EXCEPT !.want.db = w, !.clean = @ /\ j.src \in up]
    OBVIOUS
  <1>11. /\ k \in Job /\ k.op = j.op /\ k.src = j.src /\ k.tgt = j.tgt /\ k.row = j.row
         /\ k.want.root = j.want.root /\ k.want.env = j.want.env /\ k.want.db = w /\ k.want \in Wish
         /\ (k.clean => j.clean /\ j.src \in up)
    <2>1. [j.want EXCEPT !.db = w] \in Wish /\ [j.want EXCEPT !.db = w].root = j.want.root
          /\ [j.want EXCEPT !.db = w].env = j.want.env /\ [j.want EXCEPT !.db = w].db = w
      BY <1>3, <1>9 DEF Wish
    <2>2. PICK x, c : x = [j.want EXCEPT !.db = w] /\ c = (j.clean /\ j.src \in up)
      OBVIOUS
    <2>3. c \in BOOLEAN /\ (c => j.clean /\ j.src \in up)
      BY <1>3, <2>2 DEF Job
    <2>4. k = [j EXCEPT !.want = x, !.clean = c]
      BY <1>3, <1>10, <2>2 DEF Job
    <2> QED BY <1>3, <2>1, <2>2, <2>3, <2>4 DEF Job
  <1>12. job' = [Spoil(p, {j.tgt}) EXCEPT ![p] = k]
    <2>1. Spoil(p, {j.tgt})[p] = j
      BY <1>1, <1>3, SpoilFacts DEF IInv
    <2> QED BY <1>4, <1>8, <1>10, <2>1 DEF CopyDump
  <1>13. PICK x : /\ DiskIs(j.tgt, disk[j.tgt].root, x)
                  /\ IF db # None /\ Exists(j.tgt) /\ DumpOf(j.tgt, j.tgt) # None
                       THEN disk[j.tgt].data \in Database /\ x = [disk[j.tgt].data EXCEPT !.of = db]
                       ELSE x = disk[j.tgt].data
    BY <1>3, <1>4, <1>5, <1>6, RestoredFacts DEF CopyDump, IInv
  <1>14. DataInv'
    BY <1>7, <1>13 DEF IInv, DataInv, DiskIs, Places
  <1>15. Fits("done", k)
    BY <1>2, <1>3, <1>11, IdleFacts DEF Fits, NativeClone
  <1>16. CopyOk("done", k)'
    <2> SUFFICES ASSUME Copying(k) PROVE SourceOk("done", k)' /\ TargetOk("done", k)'
      BY DEF CopyOk, Copying
    <2>1. Copying(j) /\ j.src \in up /\ w = db
      BY <1>6, <1>8, <1>11 DEF Copying
    <2>2. SourceOk("dump", j) /\ TargetOk("dump", j)
      BY <1>2, <1>3, <2>1 DEF CopyOk
    <2>3. disk'[j.src] = disk[j.src]
      BY <1>3, <1>13 DEF DiskIs
    <2>4. SourceOk("done", k)'
      BY <1>11, <2>2, <2>3 DEF SourceOk
    <2>5. /\ site[j.tgt] \in Row /\ site[j.tgt].kind = "compose" /\ site[j.tgt].name = j.row.name /\ j.tgt \in up
          /\ disk[j.tgt].root = j.want.root /\ site[j.tgt].env = j.want.env
          /\ disk[j.tgt].data \in Database /\ disk[j.tgt].data.of = 0 /\ disk[j.tgt].data.name = j.row.name
      BY <1>2, <2>2 DEF TargetOk, Made, Like, Serving, NativeClone
    <2>6. DumpOf(j.tgt, j.tgt) # None /\ Exists(j.tgt)
      BY <1>3, <2>5, DumpFacts, DatabaseFacts, RowFacts DEF IInv, Exists
    <2>7. x \in Database /\ x.name = j.row.name /\ x.of = IF db = None THEN 0 ELSE db
      <3>1. CASE db = None
        BY <1>13, <2>5, <3>1
      <3>2. CASE db # None
        <4>1. db \in State /\ x = [disk[j.tgt].data EXCEPT !.of = db]
          BY <1>6, <1>13, <2>6, <3>2
        <4>2. x \in Database /\ x.of = db /\ x.name = disk[j.tgt].data.name
          BY <2>5, <4>1, DatabaseFacts
        <4> QED BY <2>5, <3>2, <4>2
      <3> QED BY <3>1, <3>2
    <2>8. disk'[j.tgt].root = j.want.root /\ disk'[j.tgt].data = x
      BY <1>13, <2>5 DEF DiskIs
    <2>9. TargetOk("done", k)'
      BY <1>2, <1>7, <1>11, <2>1, <2>5, <2>7, <2>8 DEF TargetOk, Made, Like, Serving, NativeClone
    <2> QED BY <2>4, <2>9
  <1>17. (\A e \in Domains \ {j.tgt} : Same(e)) /\ Settled(j.tgt)
    BY <1>3, <1>7, <1>13, OnDisk DEF IInv
  <1>18. "done" \in Labels /\ lock' = lock /\ (Copying(k) => Copying(j))
    BY <1>7, <1>11 DEF Labels, Copying
  <1> QED BY <1>1, <1>2, <1>3, <1>7, <1>11, <1>12, <1>14, <1>15, <1>16, <1>17, <1>18, Work DEF Resters

LEMMA ExtractStep ==
  ASSUME IInv, NEW p \in Procs, Extract(p)
  PROVE  IInv'
  <1>1. PICK l, j : l = pc[p] /\ j = job[p]
    OBVIOUS
  <1>2. l = "files" /\ j.op = "import"
    BY <1>1, Now DEF Extract, At, Fits
  <1>3. j \in Job /\ j.tgt \in Domains /\ j.row \in Row /\ j.want \in Wish /\ CopyOk(l, j) /\ Fits(l, j)
    BY <1>1, <1>2, Now DEF Fits
  <1>4. Tgt(p) = j.tgt /\ j.want.root \in SUBSET Content
    BY <1>1, <1>3 DEF Tgt, Wish
  <1>5. UNCHANGED <<lock, site, up, archive, made, troubles, hurt, asked>> /\ pc' = [pc EXCEPT ![p] = "replay"]
    BY DEF Extract, Goto
  <1>6. DiskIs(j.tgt, disk[j.tgt].root \cup j.want.root, disk[j.tgt].data)
    BY <1>1, <1>3, <1>4, SetRoot DEF Extract, IInv
  <1>7. DataInv'
    BY <1>5, <1>6 DEF IInv, DataInv, DiskIs, Places
  <1>8. job' = [Spoil(p, {j.tgt}) EXCEPT ![p] = j]
    BY <1>1, <1>3, <1>4, SpoilSelf DEF Extract, IInv
  <1>9. Fits("replay", j)
    BY <1>2, <1>3 DEF Fits, NativeClone
  <1>10. CopyOk("replay", j)'
    <2> SUFFICES ASSUME Copying(j) PROVE SourceOk("replay", j)' /\ TargetOk("replay", j)'
      BY DEF CopyOk, Copying
    <2>1. TargetOk("files", j)
      BY <1>2, <1>3 DEF CopyOk
    <2>2. disk'[j.tgt].root = j.want.root /\ disk'[j.tgt].data = disk[j.tgt].data
      BY <1>6, <2>1 DEF DiskIs, TargetOk, Made
    <2>3. TargetOk("replay", j)'
      BY <1>2, <1>5, <2>1, <2>2 DEF TargetOk, Made, Serving, Like, NativeClone
    <2> QED BY <1>2, <2>3 DEF SourceOk
  <1>11. (\A e \in Domains \ {j.tgt} : Same(e)) /\ Settled(j.tgt)
    BY <1>3, <1>5, <1>6, OnDisk DEF IInv
  <1>12. "replay" \in Labels /\ lock' = lock
    BY <1>5 DEF Labels
  <1> QED BY <1>1, <1>2, <1>3, <1>5, <1>7, <1>8, <1>9, <1>10, <1>11, <1>12, Work DEF Resters

LEMMA ReplayStep ==
  ASSUME IInv, NEW p \in Procs, Replay(p)
  PROVE  IInv'
  <1>1. PICK l, j : l = pc[p] /\ j = job[p]
    OBVIOUS
  <1>2. l = "replay" /\ j.op = "import"
    BY <1>1, Now DEF Replay, At, Fits
  <1>3. j \in Job /\ j.tgt \in Domains /\ j.row \in Row /\ j.want \in Wish /\ CopyOk(l, j) /\ Fits(l, j)
    BY <1>1, <1>2, Now DEF Fits
  <1>4. PICK db : db = j.want.db
    OBVIOUS
  <1>a. Tgt(p) = j.tgt /\ db \in State \cup {None}
    BY <1>1, <1>3, <1>4 DEF Tgt, Wish
  <1>5. UNCHANGED <<lock, site, up, archive, made, troubles, hurt, asked>> /\ pc' = [pc EXCEPT ![p] = "setEnv"]
    BY DEF Replay, Goto
  <1>6. PICK x : /\ DiskIs(j.tgt, disk[j.tgt].root, x)
                 /\ IF db # None /\ Exists(j.tgt) /\ DumpOf(j.tgt, j.row.name) # None
                      THEN disk[j.tgt].data \in Database /\ x = [disk[j.tgt].data EXCEPT !.of = db]
                      ELSE x = disk[j.tgt].data
    BY <1>1, <1>3, <1>4, <1>a, RestoredFacts DEF Replay, IInv
  <1>7. DataInv'
    BY <1>5, <1>6 DEF IInv, DataInv, DiskIs, Places
  <1>8. job' = [Spoil(p, {j.tgt}) EXCEPT ![p] = j]
    BY <1>1, <1>3, <1>a, SpoilSelf DEF Replay, IInv
  <1>9. Fits("setEnv", j)
    BY <1>2, <1>3 DEF Fits, NativeClone
  <1>10. CopyOk("setEnv", j)'
    <2> SUFFICES ASSUME Copying(j) PROVE SourceOk("setEnv", j)' /\ TargetOk("setEnv", j)'
      BY DEF CopyOk, Copying
    <2>1. TargetOk("replay", j)
      BY <1>2, <1>3 DEF CopyOk
    <2>2. /\ site[j.tgt] \in Row /\ site[j.tgt].kind = j.row.kind /\ site[j.tgt].name = j.row.name /\ j.tgt \in up
          /\ disk[j.tgt].root = j.want.root /\ site[j.tgt].env = 0
          /\ disk[j.tgt].data \in Database /\ disk[j.tgt].data.of = 0 /\ disk[j.tgt].data.name = j.row.name
      BY <1>2, <2>1 DEF TargetOk, Made, Like, Serving, NativeClone
    <2>3. DumpOf(j.tgt, j.row.name) # None /\ Exists(j.tgt)
      BY <1>3, <2>2, DumpFacts, DatabaseFacts, RowFacts DEF IInv, Exists
    <2>4. x \in Database /\ x.name = j.row.name /\ x.of = IF db = None THEN 0 ELSE db
      <3>1. CASE db = None
        BY <1>6, <2>2, <3>1
      <3>2. CASE db # None
        <4>1. db \in State /\ x = [disk[j.tgt].data EXCEPT !.of = db]
          BY <1>a, <1>6, <2>3, <3>2
        <4>2. x \in Database /\ x.of = db /\ x.name = disk[j.tgt].data.name
          BY <2>2, <4>1, DatabaseFacts
        <4> QED BY <2>2, <3>2, <4>2
      <3> QED BY <3>1, <3>2
    <2>5. disk'[j.tgt].root = j.want.root /\ disk'[j.tgt].data = x
      BY <1>6, <2>2 DEF DiskIs
    <2>6. TargetOk("setEnv", j)'
      BY <1>2, <1>4, <1>5, <2>2, <2>4, <2>5 DEF TargetOk, Made, Like, Serving, NativeClone
    <2> QED BY <1>2, <2>6 DEF SourceOk
  <1>11. (\A e \in Domains \ {j.tgt} : Same(e)) /\ Settled(j.tgt)
    BY <1>3, <1>5, <1>6, OnDisk DEF IInv
  <1>12. "setEnv" \in Labels /\ lock' = lock
    BY <1>5 DEF Labels
  <1> QED BY <1>1, <1>2, <1>3, <1>5, <1>7, <1>8, <1>9, <1>10, <1>11, <1>12, Work DEF Resters

LEMMA RestartAllStep ==
  ASSUME IInv, NEW p \in Procs, RestartAll(p)
  PROVE  IInv'
  <1>1. PICK l, j : l = pc[p] /\ j = job[p]
    OBVIOUS
  <1>2. l = "restart" /\ j.op = "import"
    BY <1>1, Now DEF RestartAll, At, Fits
  <1>3. j \in Job /\ j.tgt \in Domains /\ j.row \in Row /\ j.want \in Wish /\ CopyOk(l, j) /\ Fits(l, j)
    BY <1>1, <1>2, Now DEF Fits
  <1>4. Tgt(p) = j.tgt
    BY <1>1 DEF Tgt
  <1>5. UNCHANGED <<lock, site, disk, archive, made, troubles, asked>> /\ pc' = [pc EXCEPT ![p] = "done"]
    BY DEF RestartAll, Goto
  <1>6. up' \subseteq up \cup {j.tgt} /\ up \subseteq up'
        /\ hurt' = IF j.tgt \notin up THEN hurt \cup {j.tgt} ELSE hurt
    BY <1>4 DEF RestartAll
  <1>7. DataInv'
    BY <1>3, <1>5, <1>6 DEF IInv, DataInv
  <1>8. job' = [Spoil(p, {j.tgt}) EXCEPT ![p] = j]
    BY <1>1, <1>3, <1>4, SpoilSelf DEF RestartAll, IInv
  <1>9. Fits("done", j)
    BY <1>2, <1>3 DEF Fits, NativeClone
  <1>10. CopyOk("done", j)'
    <2> SUFFICES ASSUME Copying(j) PROVE SourceOk("done", j)' /\ TargetOk("done", j)'
      BY DEF CopyOk, Copying
    <2>1. TargetOk("restart", j)
      BY <1>2, <1>3 DEF CopyOk
    <2>2. TargetOk("done", j)'
      BY <1>2, <1>5, <1>6, <2>1 DEF TargetOk, Made, Serving, Like, NativeClone
    <2> QED BY <1>2, <2>2 DEF SourceOk
  <1>11. (\A e \in Domains \ {j.tgt} : Same(e)) /\ Settled(j.tgt)
    BY <1>5, <1>6 DEF Same, Settled
  <1>12. "done" \in Labels /\ lock' = lock
    BY <1>5 DEF Labels
  <1> QED BY <1>1, <1>2, <1>3, <1>5, <1>7, <1>8, <1>9, <1>10, <1>11, <1>12, Work DEF Resters

---------------------------------------------------------------------------------
(* The ends. *)

LEMMA SpoilNone ==
  ASSUME ProcInv, NEW p
  PROVE  Spoil(p, {}) = job
  BY DEF ProcInv, Spoil

(* The source of a clone is as it should be, but while it rests to be copied. *)
LEMMA SourceCalm ==
  ASSUME NEW l, NEW j, HeldOk(l, j), j.op = "clone", l \notin Resters
  PROVE  Calm(j.src)
  BY DEF HeldOk, Calm, Resters

(* What a clone or an import gives back when nothing is left to do. *)
LEMMA EndFacts ==
  ASSUME IInv, NEW p \in Procs, NEW l, NEW j, l = pc[p], j = job[p], l \in {"create", "discard", "done"}
  PROVE  /\ Held(l, j) = IF j.op = "clone" THEN {j.src} ELSE {}
         /\ \A e \in Held(l, j) : Calm(e)
         /\ j.tgt \in Domains
  <1>1. Fits(l, j) /\ HeldOk(l, j) /\ j.op \in {"clone", "import"}
    BY Now DEF Fits, NativeClone
  <1>2. Held(l, j) = IF j.op = "clone" THEN {j.src} ELSE {}
    BY <1>1 DEF Held
  <1>3. \A e \in Held(l, j) : Calm(e)
    BY <1>1, <1>2, SourceCalm DEF Resters
  <1> QED BY <1>1, <1>2, <1>3 DEF Fits

LEMMA StillEnd ==
  ASSUME IInv, NEW p \in Procs, pc[p] \in {"create", "done"}, End(p), job' = [job EXCEPT ![p] = Idle],
         UNCHANGED <<site, disk, up, archive, made, troubles, hurt, asked>>
  PROVE  IInv'
  <1>1. PICK l, j : l = pc[p] /\ j = job[p]
    OBVIOUS
  <1>2. /\ Held(l, j) = IF j.op = "clone" THEN {j.src} ELSE {}
        /\ \A e \in Held(l, j) : Calm(e) /\ e \in Domains
    BY <1>1, EndFacts, Now
  <1>3. lock' = lock \ Held(l, j) /\ pc' = [pc EXCEPT ![p] = "idle"]
    BY <1>1, <1>2 DEF End, Goto, Src
  <1>4. job' = [Spoil(p, {}) EXCEPT ![p] = Idle]
    BY SpoilNone DEF IInv
  <1>5. DataInv'
    BY DEF IInv, DataInv
  <1>6. \A e \in Domains : Same(e) /\ Settled(e)
    BY DEF Same, Settled
  <1>7. PICK ds : ds = {}
    OBVIOUS
  <1>8. ds \in SUBSET Domains /\ (\A e \in Domains \ ds : Same(e)) /\ job' = [Spoil(p, ds) EXCEPT ![p] = Idle]
    BY <1>4, <1>6, <1>7
  <1>9. \A e \in ds : Settled(e) \/ (e \notin lock /\ Calm(e)') \/ Mine(p, e)
    BY <1>7
  <1>10. \A e \in Held(l, j) : Calm(e)' \/ (Calm(e) /\ Settled(e))
    BY <1>2, <1>6
  <1>11. p \in Procs /\ lock' = lock \ Held(l, j) /\ pc' = [pc EXCEPT ![p] = "idle"] /\ l = pc[p] /\ j = job[p]
    BY <1>1, <1>3
  <1> QED BY ONLY IInv, <1>5, <1>8, <1>9, <1>10, <1>11, Ends

LEMMA DoneStep ==
  ASSUME IInv, NEW p \in Procs, Done(p)
  PROVE  IInv'
  BY StillEnd DEF Done, At

LEMMA RefuseStep ==
  ASSUME IInv, NEW p \in Procs, Refuse(p)
  PROVE  IInv'
  BY StillEnd DEF Refuse, At

LEMMA Emptied ==
  ASSUME DataInv, NEW d \in Domains, disk' = [disk EXCEPT ![d] = Empty]
  PROVE  DiskIs(d, {}, None)
  BY SetBoth DEF Empty

LEMMA DiscardStep ==
  ASSUME IInv, NEW p \in Procs, Discard(p)
  PROVE  IInv'
  <1>1. PICK l, j : l = pc[p] /\ j = job[p]
    OBVIOUS
  <1>2. l = "discard" /\ Tgt(p) = j.tgt /\ Src(p) = j.src
    BY <1>1 DEF Discard, At, Src, Tgt
  <1>3. /\ Held(l, j) = IF j.op = "clone" THEN {j.src} ELSE {}
        /\ \A e \in Held(l, j) : Calm(e) /\ e \in Domains
        /\ j.tgt \in Domains
    BY <1>1, <1>2, EndFacts, Now
  <1>4. lock' = lock \ Held(l, j) /\ pc' = [pc EXCEPT ![p] = "idle"] /\ job' = [Spoil(p, {j.tgt}) EXCEPT ![p] = Idle]
        /\ UNCHANGED <<site, up, archive, made, troubles, hurt, asked>>
    BY <1>1, <1>2, <1>3 DEF Discard, End, Goto
  <1>5. DiskIs(j.tgt, {}, None)
    BY <1>2, <1>3, Emptied DEF Discard, IInv
  <1>6. DataInv'
    BY <1>4, <1>5 DEF IInv, DataInv, DiskIs, Places
  <1>7. (\A e \in Domains \ {j.tgt} : Same(e)) /\ \A e \in Domains : Settled(e)
    BY <1>3, <1>4, <1>5, OnDisk DEF IInv
  <1>8. PICK ds : ds = {j.tgt}
    OBVIOUS
  <1>9. ds \in SUBSET Domains /\ (\A e \in Domains \ ds : Same(e)) /\ job' = [Spoil(p, ds) EXCEPT ![p] = Idle]
    BY <1>3, <1>4, <1>7, <1>8
  <1>10. \A e \in ds : Settled(e) \/ (e \notin lock /\ Calm(e)') \/ Mine(p, e)
    BY <1>3, <1>7, <1>8
  <1>11. \A e \in Held(l, j) : Calm(e)' \/ (Calm(e) /\ Settled(e))
    BY <1>3, <1>7
  <1>12. p \in Procs /\ lock' = lock \ Held(l, j) /\ pc' = [pc EXCEPT ![p] = "idle"] /\ l = pc[p] /\ j = job[p]
    BY <1>1, <1>4
  <1> QED BY <1>6, <1>9, <1>10, <1>11, <1>12, Ends

LEMMA RollbackStep ==
  ASSUME IInv, NEW p \in Procs, Rollback(p)
  PROVE  IInv'
  <1>1. PICK l, j : l = pc[p] /\ j = job[p]
    OBVIOUS
  <1>2. l = "provision" /\ Tgt(p) = j.tgt /\ Src(p) = j.src
    BY <1>1 DEF Rollback, At, Src, Tgt
  <1>3. /\ j.op \in {"create", "clone", "import"} /\ j.tgt \in Domains /\ HeldOk(l, j)
        /\ j.op = "clone" => j.src \in Domains /\ j.src # j.tgt
    BY <1>1, <1>2, Now DEF Fits
  <1>4. Held(l, j) = {j.tgt} \cup IF j.op = "clone" THEN {j.src} ELSE {}
    BY <1>2, <1>3 DEF Held
  <1>5. /\ lock' = lock \ Held(l, j) /\ pc' = [pc EXCEPT ![p] = "idle"]
        /\ job' = [Spoil(p, {j.tgt}) EXCEPT ![p] = Idle] /\ Trouble
        /\ site' = [site EXCEPT ![j.tgt] = None] /\ disk' = [disk EXCEPT ![j.tgt] = Empty] /\ up' = up \ {j.tgt}
        /\ UNCHANGED <<archive, made, hurt, asked>>
    BY <1>1, <1>2, <1>4 DEF Rollback, Goto
  <1>6. DiskIs(j.tgt, {}, None)
    BY <1>3, <1>5, Emptied DEF IInv
  <1>7. site' \in Rows /\ site'[j.tgt] = None /\ \A e \in Domains \ {j.tgt} : site'[e] = site[e]
    BY <1>3, <1>5, RowFacts DEF Rows, IInv
  <1>8. DataInv'
    BY <1>5, <1>6, <1>7, TroubleFacts DEF IInv, DataInv, DiskIs, Places, Rows
  <1>9. \A e \in Domains \ {j.tgt} : Same(e) /\ Settled(e)
    BY <1>5, <1>6, <1>7 DEF Same, Settled, DiskIs
  <1>10. Calm(j.tgt)'
    BY <1>7 DEF Calm, Exists
  <1>11. \A e \in Held(l, j) : Calm(e)' \/ (Calm(e) /\ Settled(e))
    BY <1>2, <1>3, <1>4, <1>9, <1>10, SourceCalm DEF Resters
  <1>12. Mine(p, j.tgt)
    BY <1>1, <1>4 DEF Mine
  <1>13. PICK ds : ds = {j.tgt}
    OBVIOUS
  <1>14. ds \in SUBSET Domains /\ (\A e \in Domains \ ds : Same(e)) /\ job' = [Spoil(p, ds) EXCEPT ![p] = Idle]
    BY <1>3, <1>5, <1>9, <1>13
  <1>15. \A e \in ds : Settled(e) \/ (e \notin lock /\ Calm(e)') \/ Mine(p, e)
    BY <1>12, <1>13
  <1> QED BY <1>1, <1>5, <1>8, <1>11, <1>14, <1>15, Ends

LEMMA EndDestroyStep ==
  ASSUME IInv, NEW p \in Procs, EndDestroy(p)
  PROVE  IInv'
  <1>1. PICK l, j, d : l = pc[p] /\ j = job[p] /\ d = j.src
    OBVIOUS
  <1>2. l = "purge" /\ Src(p) = d
    BY <1>1 DEF EndDestroy, At, Src
  <1>3. j.op = "destroy" /\ d \in Domains /\ site[d] = None
    BY <1>1, <1>2, Now DEF Fits, HeldOk
  <1>4. Held(l, j) = {d}
    BY <1>1, <1>2, <1>3 DEF Held
  <1>5. /\ lock' = lock \ {d} /\ pc' = [pc EXCEPT ![p] = "idle"] /\ job' = [Spoil(p, {d}) EXCEPT ![p] = Idle]
        /\ hurt' = hurt \ {d} /\ UNCHANGED <<site, up, made, troubles, asked>>
        /\ archive' \in {archive, None}
        /\ \/ disk' = [disk EXCEPT ![d] = Empty]
           \/ disk' = disk
           \/ disk' = [disk EXCEPT ![d].data = None]
    BY <1>2 DEF EndDestroy, Goto
  <1>6. \E r, x : DiskIs(d, r, x)
    BY <1>3, <1>5, Emptied, SetNone, SetData DEF IInv
  <1>7. DataInv'
    BY <1>5, <1>6 DEF IInv, DataInv, DiskIs, Places
  <1>8. \A e \in Domains \ {d} : Same(e)
    BY <1>5, <1>6 DEF Same, DiskIs
  <1>9. Calm(d)'
    BY <1>3, <1>5 DEF Calm, Exists
  <1>10. Mine(p, d)
    BY <1>1, <1>4 DEF Mine
  <1>11. PICK ds : ds = {d}
    OBVIOUS
  <1>12. ds \in SUBSET Domains /\ (\A e \in Domains \ ds : Same(e)) /\ job' = [Spoil(p, ds) EXCEPT ![p] = Idle]
    BY <1>3, <1>5, <1>8, <1>11
  <1>13. \A e \in ds : Settled(e) \/ (e \notin lock /\ Calm(e)') \/ Mine(p, e)
    BY <1>10, <1>11
  <1>14. lock' = lock \ Held(l, j) /\ \A e \in Held(l, j) : Calm(e)' \/ (Calm(e) /\ Settled(e))
    BY <1>4, <1>5, <1>9
  <1> QED BY <1>1, <1>5, <1>7, <1>12, <1>13, <1>14, Ends

---------------------------------------------------------------------------------
(* CreateSite. *)

(* A request that goes on with what it is about, and takes or gives back its target's lock. *)
LEMMA GoesOn ==
  ASSUME IInv, NEW p \in Procs, NEW l, NEW j, NEW m \in Labels, l = pc[p], j = job[p],
         pc' = [pc EXCEPT ![p] = m], job' = Spoil(p, {j.tgt}), j.tgt \in Domains, Fits(m, j),
         lock' = (lock \ Held(l, j)) \cup Held(m, j), Held(m, j) \cap (lock \ Held(l, j)) = {},
         l \notin Resters, m \notin Resters, l = "provision" \/ j.tgt \notin lock, DataInv',
         \A e \in Domains \ {j.tgt} : Same(e), j.op = "clone" => j.src # j.tgt, j.op # "destroy",
         m = "provision" => Like(j.tgt, j.row)' /\ site'[j.tgt].name = j.row.name,
         j.tgt \in lock' \/ Calm(j.tgt)', CopyOk(m, j)'
  PROVE  IInv'
  <1>0. /\ l \in Labels /\ j \in Job /\ Fits(l, j) /\ HeldOk(l, j)
        /\ \A d \in Held(l, j) : d \in lock /\ d \in Domains
    BY Now
  <1>1. PICK ds : ds = {j.tgt}
    OBVIOUS
  <1>2. /\ pc' \in [Procs -> Labels] /\ job' \in [Procs -> Job] /\ pc'[p] = m /\ job'[p] = j
        /\ \A q \in Procs \ {p} : pc'[q] = pc[q] /\ job'[q] = Spoil(p, ds)[q]
    <2>1. ds \in SUBSET Domains /\ job' = Spoil(p, ds) /\ pc \in [Procs -> Labels] /\ ProcInv
      BY <1>1 DEF IInv, ProcInv
    <2>2. job' \in [Procs -> Job] /\ job'[p] = j
      BY <2>1, SpoilFacts
    <2> QED BY <2>1, <2>2
  <1>3. l = "provision" => Mine(p, j.tgt)
    BY <1>0, HeldIn DEF Mine
  <1>4. ds \in SUBSET Domains /\ (\A e \in Domains \ ds : Same(e)) /\ \A e \in ds : Settled(e) \/ e \notin lock \/ Mine(p, e)
    BY <1>1, <1>3
  <1>5. Others(p) /\ Mild(p)
    BY <1>2, <1>4, MildSpoil
  <1>6. AloneOk(p, j)
    BY <1>5, AloneKept
  <1>7. \A e \in Domains \ {j.tgt} : Settled(e)
    BY DEF Same, Settled
  <1>8. ASSUME NEW e \in Domains \ lock' PROVE Calm(e)' \/ (Settled(e) /\ (e \notin lock \/ Calm(e)))
    <2>1. CASE e = j.tgt
      BY <1>8, <2>1
    <2>2. CASE e # j.tgt
      <3>1. e \in lock => j.op = "clone" /\ e = j.src
        BY <1>8, <2>2 DEF Held
      <3> QED BY <1>0, <1>7, <2>2, <3>1, SourceCalm
    <2> QED BY <2>1, <2>2
  <1>9. FreeOk
    BY <1>8, FreeKept
  <1>10. HeldOk(m, j)'
    <2>1. CASE j.op = "clone"
      <3>1. j.src \in Domains /\ Same(j.src) /\ Like(j.src, j.row) /\ site[j.src].status = j.row.status
            /\ (j.src \notin hurt => (j.src \in up <=> j.row.status = "running"))
        BY <1>0, <2>1 DEF Fits, HeldOk, Resters
      <3> QED BY <2>1, <3>1 DEF HeldOk, Like, Same, Resters
    <2>2. CASE j.op # "clone"
      BY <2>2 DEF HeldOk, Like
    <2> QED BY <2>1, <2>2
  <1>11. Step(p, l, j, m, j)
    BY <1>2, <1>5 DEF Step
  <1> QED BY <1>0, <1>5, <1>6, <1>9, <1>10, <1>11, Assemble

LEMMA ClaimedRow ==
  ASSUME DataInv, NEW d \in Domains, NEW row \in Row, site' = Claimed(d, row)
  PROVE  RowIs(d, row, 0, "creating")
  <1>1. PICK x : x = [row EXCEPT !.status = "creating", !.env = 0]
    OBVIOUS
  <1>2. x \in Row /\ x.kind = row.kind /\ x.name = row.name /\ x.env = 0 /\ x.status = "creating"
    <2>1. 0 \in Content
      BY BoundsAssumption DEF Content
    <2> QED BY <1>1, <2>1 DEF Row
  <1>3. site' \in Rows /\ site'[d] = x /\ \A e \in Domains \ {d} : site'[e] = site[e]
    BY <1>1, <1>2, RowFacts DEF Rows, Claimed
  <1> QED BY <1>2, <1>3 DEF RowIs

LEMMA ClaimStep ==
  ASSUME IInv, NEW p \in Procs, Claim(p)
  PROVE  IInv'
  <1>1. PICK l, j : l = pc[p] /\ j = job[p]
    OBVIOUS
  <1>2. l = "create" /\ Tgt(p) = j.tgt
    BY <1>1 DEF Claim, At, Tgt
  <1>3. /\ j \in Job /\ j.op \in {"clone", "import"} /\ j.tgt \in Domains /\ j.row \in Row /\ j.want \in Wish
        /\ j.op = "clone" => j.src \in Domains /\ j.src # j.tgt
        /\ Fits(l, j) /\ CopyOk(l, j) /\ \A d \in Held(l, j) : d \in lock
    BY <1>1, <1>2, Now DEF Fits
  <1>4. /\ j.tgt \notin lock /\ pc' = [pc EXCEPT ![p] = "provision"] /\ lock' = lock \cup {j.tgt}
        /\ site' = Claimed(j.tgt, j.row) /\ job' = Spoil(p, {j.tgt})
        /\ UNCHANGED <<disk, up, archive, made, troubles, hurt, asked>>
    BY <1>1, <1>2 DEF Claim, Goto
  <1>5. RowIs(j.tgt, j.row, 0, "creating")
    BY <1>3, <1>4, ClaimedRow DEF IInv
  <1>6. DataInv'
    BY <1>4, <1>5 DEF IInv, DataInv, RowIs, Rows
  <1>7. Held("provision", j) = Held(l, j) \cup {j.tgt}
    BY <1>2 DEF Held
  <1>8. lock' = (lock \ Held(l, j)) \cup Held("provision", j) /\ Held("provision", j) \cap (lock \ Held(l, j)) = {}
    BY <1>3, <1>4, <1>7
  <1>9. Fits("provision", j)
    BY <1>2, <1>3 DEF Fits, NativeClone
  <1>10. \A e \in Domains \ {j.tgt} : Same(e)
    BY <1>4, <1>5 DEF RowIs, Same
  <1>11. Like(j.tgt, j.row)' /\ site'[j.tgt].name = j.row.name
    BY <1>5 DEF RowIs, Like
  <1>12. CopyOk("provision", j)'
    <2> SUFFICES ASSUME Copying(j) PROVE SourceOk("provision", j)' /\ TargetOk("provision", j)'
      BY DEF CopyOk, Copying
    <2>1. SourceOk("create", j) /\ TargetOk("create", j)
      BY <1>2, <1>3 DEF CopyOk
    <2>2. SourceOk("provision", j)'
      BY <1>4, <2>1 DEF SourceOk
    <2>3. TargetOk("provision", j)'
      BY <1>4, <2>1 DEF TargetOk, Made, Holding
    <2> QED BY <2>2, <2>3
  <1>13. "provision" \in Labels /\ l \notin Resters /\ "provision" \notin Resters /\ j.tgt \in lock' /\ j.op # "destroy"
    BY <1>2, <1>3, <1>4 DEF Labels, Resters
  <1> QED BY <1>1, <1>3, <1>4, <1>6, <1>8, <1>9, <1>10, <1>11, <1>12, <1>13, GoesOn

LEMMA ContentFacts ==
  /\ 0 \in Content /\ 0 \in State /\ 0 # None /\ \A c \in Content : c \in State /\ c # None
  BY BoundsAssumption, NoneAssumption DEF Content, State

(* What a create puts in place, and what a clone or an import lets it. *)
Fresh(j, r, v, b) == (IF j.op = "create" THEN j.want ELSE [root |-> {}, env |-> 0, db |-> 0]) = [root |-> r, env |-> v, db |-> b]
Stocked(d, r, name, b) ==
  \E x : /\ DiskIs(d, disk[d].root \cup r, x) /\ x \in Database
         /\ disk[d].data # None => x = disk[d].data
         /\ disk[d].data = None => x.of = b /\ x.name = name
LEMMA ProvisionFacts ==
  ASSUME IInv, NEW p \in Procs, NEW j, j = job[p], Provision(p),
         NEW r \in SUBSET Content, NEW v \in Content, NEW b \in State, Fresh(j, r, v, b)
  PROVE  /\ pc[p] = "provision" /\ j.tgt \in Domains /\ site[j.tgt] \in Row
         /\ Stocked(j.tgt, r, j.row.name, b)
         /\ RowIs(j.tgt, site[j.tgt], v, "running")
         /\ up' = up \cup {j.tgt} /\ hurt' = hurt \ {j.tgt} /\ lock' = lock \ {j.tgt}
         /\ UNCHANGED <<archive, made, troubles, asked>> /\ DataInv'
         /\ \A e \in Domains \ {j.tgt} : Same(e)
         /\ Calm(j.tgt)'
  <1>1. pc[p] = "provision" /\ Tgt(p) = j.tgt
    BY DEF Provision, At, Tgt
  <1>2. j.tgt \in Domains /\ j.row \in Row /\ HeldOk("provision", j)
    BY <1>1, Now DEF Fits
  <1>3. PICK d : d = j.tgt
    OBVIOUS
  <1>4. d \in Domains /\ site[d] \in Row
    BY <1>2, <1>3 DEF HeldOk, Like
  <1>5. PICK x : x = IF disk[d].data # None THEN disk[d].data ELSE [name |-> j.row.name, of |-> b]
    OBVIOUS
  <1>6. /\ x \in Database /\ (disk[d].data # None => x = disk[d].data)
        /\ (disk[d].data = None => x.of = b /\ x.name = j.row.name)
    <2>1. j.row.name \in Domains /\ (disk[d].data # None => disk[d].data \in Database)
      BY <1>2, <1>4, DiskFacts DEF Row, IInv
    <2> QED BY <1>5, <2>1 DEF Database, State
  <1>7. /\ disk' = [disk EXCEPT ![d] = [root |-> disk[d].root \cup r, data |-> x]]
        /\ site' = [site EXCEPT ![d].status = "running", ![d].env = v]
        /\ up' = up \cup {d} /\ hurt' = hurt \ {d} /\ lock' = lock \ {d} /\ UNCHANGED <<archive, made, troubles, asked>>
    <2>1. PICK fresh : fresh = IF j.op = "create" THEN j.want ELSE [root |-> {}, env |-> 0, db |-> 0]
      OBVIOUS
    <2>2. fresh.root = r /\ fresh.env = v /\ fresh.db = b
      BY <2>1 DEF Fresh
    <2>3. /\ disk' = [disk EXCEPT ![d] =
               [root |-> @.root \cup fresh.root,
                data |-> IF @.data # None THEN @.data ELSE [name |-> j.row.name, of |-> fresh.db]]]
          /\ site' = [site EXCEPT ![d].status = "running", ![d].env = fresh.env]
          /\ up' = up \cup {d} /\ hurt' = hurt \ {d} /\ lock' = lock \ {d} /\ UNCHANGED <<archive, made, troubles, asked>>
      BY <1>1, <1>3, <2>1 DEF Provision
    <2> QED BY <1>5, <2>2, <2>3
  <1>8. DiskIs(d, disk[d].root \cup r, x)
    <2>1. disk[d].root \cup r \in SUBSET Content
      BY <1>4, DiskFacts DEF IInv
    <2> QED BY <1>4, <1>6, <1>7, <2>1, SetBoth DEF IInv
  <1>9. RowIs(d, site[d], v, "running")
    <2>1. PICK y : y = [site[d] EXCEPT !.status = "running", !.env = v]
      OBVIOUS
    <2>2. y \in Row /\ y.kind = site[d].kind /\ y.name = site[d].name /\ y.env = v /\ y.status = "running"
      BY <1>4, <2>1 DEF Row
    <2>3. site' \in Rows /\ site'[d] = y /\ \A e \in Domains \ {d} : site'[e] = site[e]
      BY <1>4, <1>7, <2>1, <2>2, RowFacts DEF Rows, IInv
    <2> QED BY <2>2, <2>3 DEF RowIs
  <1>10. DataInv'
    BY <1>4, <1>7, <1>8, <1>9 DEF IInv, DataInv, DiskIs, RowIs, Places, Rows
  <1>11. \A e \in Domains \ {d} : Same(e)
    BY <1>7, <1>8, <1>9 DEF Same, DiskIs, RowIs
  <1>12. Calm(d)'
    BY <1>7, <1>9 DEF Calm, RowIs
  <1>13. Stocked(d, r, j.row.name, b)
    BY <1>6, <1>8 DEF Stocked
  <1> QED BY <1>1, <1>3, <1>4, <1>7, <1>9, <1>10, <1>11, <1>12, <1>13

LEMMA ProvisionStep ==
  ASSUME IInv, NEW p \in Procs, Provision(p)
  PROVE  IInv'
  <1>1. PICK l, j, d : l = pc[p] /\ j = job[p] /\ d = j.tgt
    OBVIOUS
  <1>2. l = "provision" /\ Tgt(p) = d
    BY <1>1 DEF Provision, At, Tgt
  <1>3. /\ j.op \in {"create", "clone", "import"} /\ d \in Domains /\ HeldOk(l, j) /\ CopyOk(l, j) /\ j \in Job
        /\ j.want \in Wish /\ j.row \in Row
        /\ Fits(l, j) /\ (j.op = "clone" => j.src \in Domains /\ j.src # d) /\ (j.op = "create" => j.want.db # None)
        /\ \A e \in Held(l, j) : e \in lock
    BY <1>1, <1>2, Now DEF Fits
  <1>4. CASE j.op = "create"
    <2>1. PICK r, v, b : r = j.want.root /\ v = j.want.env /\ b = j.want.db
      OBVIOUS
    <2>2. r \in SUBSET Content /\ v \in Content /\ b \in State /\ j.want = [root |-> r, env |-> v, db |-> b]
      BY <1>3, <1>4, <2>1 DEF Wish
    <2>3. /\ lock' = lock \ {d} /\ DataInv' /\ (\A e \in Domains \ {d} : Same(e)) /\ Calm(d)'
      <3>1. Fresh(j, r, v, b)
        BY <1>4, <2>2 DEF Fresh
      <3> QED BY <1>1, <2>2, <3>1, ProvisionFacts
    <2>4. pc' = [pc EXCEPT ![p] = "idle"] /\ job' = [Spoil(p, {d}) EXCEPT ![p] = Idle]
      BY <1>1, <1>2, <1>4 DEF Provision, Goto
    <2>5. Held(l, j) = {d}
      BY <1>1, <1>2, <1>4 DEF Held
    <2>6. PICK ds : ds = {d}
      OBVIOUS
    <2>7. ds \in SUBSET Domains /\ (\A e \in Domains \ ds : Same(e)) /\ job' = [Spoil(p, ds) EXCEPT ![p] = Idle]
      BY <1>3, <2>3, <2>4, <2>6
    <2>8. \A e \in ds : Settled(e) \/ (e \notin lock /\ Calm(e)') \/ Mine(p, e)
      BY <1>1, <2>5, <2>6 DEF Mine
    <2>9. lock' = lock \ Held(l, j) /\ \A e \in Held(l, j) : Calm(e)' \/ (Calm(e) /\ Settled(e))
      BY <2>3, <2>5
    <2> QED BY ONLY IInv, p \in Procs, <1>1, <2>3, <2>4, <2>7, <2>8, <2>9, Ends
  <1>5. CASE j.op # "create"
    <2>0. j.op \in {"clone", "import"}
      BY <1>3, <1>5
    <2>r. PICK r : r = {}
      OBVIOUS
    <2>f. Fresh(j, r, 0, 0) /\ r \in SUBSET Content /\ 0 \in Content /\ 0 \in State
      BY <1>5, <2>r, ContentFacts DEF Fresh
    <2>1. PICK m : m = IF NativeClone(j) THEN "env" ELSE IF j.op = "clone" THEN "paths" ELSE "files"
      OBVIOUS
    <2>2. PICK x : /\ DiskIs(d, disk[d].root \cup r, x) /\ x \in Database
                   /\ disk[d].data # None => x = disk[d].data
                   /\ disk[d].data = None => x.of = 0 /\ x.name = j.row.name
      <3>1. Stocked(d, r, j.row.name, 0)
        BY <1>1, <2>f, ProvisionFacts
      <3> QED BY <3>1 DEF Stocked
    <2>3. /\ RowIs(d, site[d], 0, "running") /\ site[d] \in Row
          /\ up' = up \cup {d} /\ hurt' = hurt \ {d} /\ lock' = lock \ {d} /\ DataInv'
          /\ (\A e \in Domains \ {d} : Same(e)) /\ Calm(d)'
      BY <1>1, <2>f, ProvisionFacts
    <2>4. pc' = [pc EXCEPT ![p] = m]
      BY <1>1, <1>2, <1>5, <2>0, <2>1 DEF Provision, Goto, Native, NativeClone
    <2>5. job' = Spoil(p, {d})
      <3>0. {d} \in SUBSET Domains /\ ProcInv
        BY <1>3 DEF IInv
      <3>1. Spoil(p, {d})[p] = j /\ Spoil(p, {d}) = [Spoil(p, {d}) EXCEPT ![p] = j]
        BY <1>1, <3>0, SpoilFacts, SpoilSelf
      <3>2. job' = [Spoil(p, {d}) EXCEPT ![p] = j]
        BY <1>1, <1>2, <1>5, <3>1 DEF Provision
      <3> QED BY <3>1, <3>2
    <2>6. /\ NativeClone(j) => m = "env"
          /\ j.op = "clone" /\ ~NativeClone(j) => m = "paths" /\ j.row.kind = "compose"
          /\ j.op = "import" => m = "files" /\ ~NativeClone(j)
      BY <1>3, <2>1 DEF NativeClone, Row
    <2>7. m \in {"env", "paths", "files"} /\ m \in Labels /\ m \notin Resters /\ l \notin Resters /\ m # "provision" /\ l = "provision"
      BY <1>2, <2>1 DEF Labels, Resters
    <2>8. Fits(m, j)
      BY <1>2, <1>3, <2>0, <2>6, <2>7 DEF Fits
    <2>9. Held(m, j) = Held(l, j) \ {d} /\ d \in Held(l, j)
      BY <1>1, <1>2, <1>3, <2>0, <2>7 DEF Held
    <2>10. lock' = (lock \ Held(l, j)) \cup Held(m, j) /\ Held(m, j) \cap (lock \ Held(l, j)) = {}
      BY <1>3, <2>3, <2>9
    <2>11. CopyOk(m, j)'
      <3> SUFFICES ASSUME Copying(j) PROVE SourceOk(m, j)' /\ TargetOk(m, j)'
        BY DEF CopyOk, Copying
      <3>1. SourceOk("provision", j) /\ TargetOk("provision", j)
        BY <1>2, <1>3 DEF CopyOk
      <3>2. j.op = "clone" => disk'[j.src] = disk[j.src]
        BY <1>1, <1>3, <2>2 DEF DiskIs
      <3>3. SourceOk(m, j)'
        BY <2>7, <3>1, <3>2 DEF SourceOk
      <3>4. Like(d, j.row)' /\ site'[d].name = j.row.name /\ d \in up' /\ site'[d].env = 0
        BY <1>1, <1>2, <1>3, <2>3 DEF HeldOk, Like, RowIs
      <3>5. disk'[d].root = disk[d].root /\ disk'[d].data = x
        BY <1>1, <2>r, <2>2 DEF DiskIs
      <3>6. CASE NativeClone(j)
        <4>1. disk[d].root = j.want.root /\ Holding(d, j.want.db)
          BY <1>1, <3>1, <3>6 DEF TargetOk
        <4>2. Serving(d, j.want.db)'
          <5>1. CASE j.want.db = None
            BY <1>1, <2>2, <3>5, <4>1, <5>1 DEF Holding, Serving
          <5>2. CASE j.want.db # None
            <6>1. disk[d].data \in Database /\ disk[d].data.of = j.want.db
              BY <4>1, <5>2 DEF Holding
            <6>2. x = disk[d].data
              BY <1>1, <2>2, <6>1, NoneAssumption
            <6> QED BY <3>5, <5>2, <6>1, <6>2 DEF Serving
          <5> QED BY <5>1, <5>2
        <4> QED BY <1>1, <2>6, <3>3, <3>4, <3>5, <3>6, <4>1, <4>2 DEF TargetOk, Made
      <3>7. CASE ~NativeClone(j)
        <4>1. disk[d] = Empty /\ disk[d].root = {} /\ disk[d].data = None
          BY <1>1, <3>1, <3>7 DEF TargetOk, Empty
        <4>2. Serving(d, 0)' /\ disk'[d].data.name = j.row.name /\ disk'[d].root = {}
          BY <1>1, <2>2, <3>5, <4>1, ContentFacts DEF Serving
        <4>3. m \in {"paths", "files"}
          BY <2>0, <2>6, <3>7
        <4> QED BY <1>1, <3>3, <3>4, <4>2, <4>3 DEF TargetOk, Made
      <3> QED BY <3>6, <3>7
    <2> QED BY <1>1, <1>3, <2>0, <2>3, <2>4, <2>5, <2>7, <2>8, <2>10, <2>11, GoesOn
  <1> QED BY <1>4, <1>5

---------------------------------------------------------------------------------
(* The source of a native clone rests, and is woken. *)

(* Only containers of the source are stopped or started; no other copy is to it, and none *)
(* from it. *)
LEMMA Sources ==
  ASSUME IInv, NEW p \in Procs, NEW l, NEW j, NEW m \in Labels, NEW k \in Job, l = pc[p], j = job[p],
         pc' = [pc EXCEPT ![p] = m], job' = [job EXCEPT ![p] = k],
         j.op = "clone", l # "provision", m # "provision", Fits(m, k),
         k.op = j.op, k.src = j.src, k.tgt = j.tgt, Copying(k) => Copying(j), lock' = lock, DataInv',
         UNCHANGED <<site, disk>>,
         \A d \in Domains \ {j.src} : (d \in up' <=> d \in up) /\ (d \in hurt' <=> d \in hurt),
         HeldOk(m, k)', CopyOk(m, k)'
  PROVE  IInv'
  <1>0. j.src \in Domains /\ j.src \in Held(l, j) /\ l \in Labels /\ j \in Job /\ Fits(l, j) /\ j.src \in lock
        /\ \A e \in Held(l, j) : e \in lock
    BY Now, HeldIn DEF Fits
  <1>1. /\ pc' \in [Procs -> Labels] /\ job' \in [Procs -> Job] /\ pc'[p] = m /\ job'[p] = k
        /\ \A q \in Procs \ {p} : pc'[q] = pc[q] /\ job'[q] = job[q]
    BY DEF IInv, ProcInv
  <1>2. Others(p)
    BY <1>1 DEF Others, Stay, Soiled
  <1>3. \A d \in Domains \ {j.src} : Same(d) /\ Settled(d) /\ Kept(d) /\ Source(d)
    BY DEF Same, Settled, Kept, Source
  <1>4. Mild(p)
    <2>1. ASSUME NEW q \in Procs \ {p}
          PROVE  /\ j.src \notin Held(pc[q], job[q]) /\ Held(pc[q], job[q]) \subseteq Domains
                 /\ Fits(pc[q], job[q])
      BY <1>0, Now DEF IInv, LockInv
    <2>2. ASSUME NEW q \in Procs \ {p}, NEW d \in Held(pc[q], job[q]) PROVE Settled(d)
      BY <1>3, <2>1
    <2>3. ASSUME NEW q \in Procs \ {p}, Copying(job'[q]) PROVE Kept(Tgt(q)) /\ (job[q].op = "clone" => Source(Src(q)))
      <3>1. Copying(job[q]) /\ Tgt(q) \in Domains
        BY <1>1, <2>1, <2>3 DEF Copying, Fits, Tgt
      <3>2. Tgt(q) # j.src
        BY <3>1 DEF IInv, AloneInv, Apart, Tgt
      <3>3. job[q].op = "clone" => Src(q) \in Held(pc[q], job[q])
        BY DEF Held, Src
      <3>4. job[q].op = "clone" => Src(q) \in Domains \ {j.src}
        BY <2>1, <3>3
      <3> QED BY <1>3, <3>1, <3>2, <3>4
    <2> QED BY <2>2, <2>3 DEF Mild
  <1>5. AloneOk(p, k)
    BY <1>2, AloneKept
  <1>6. FreeOk
    BY <1>0, <1>3, FreeKept
  <1>7. Held(m, k) = Held(l, j)
    BY DEF Held
  <1>8. lock' = (lock \ Held(l, j)) \cup Held(m, k) /\ Held(m, k) \cap (lock \ Held(l, j)) = {}
    BY <1>0, <1>7
  <1>9. Step(p, l, j, m, k)
    BY <1>1, <1>2 DEF Step
  <1> QED BY <1>4, <1>5, <1>6, <1>8, <1>9, Assemble

LEMMA QuietStep ==
  ASSUME IInv, NEW p \in Procs, Quiet(p)
  PROVE  IInv'
  <1>1. PICK l, j : l = pc[p] /\ j = job[p]
    OBVIOUS
  <1>2. l = "quiet" /\ NativeClone(j) /\ Src(p) = j.src
    BY <1>1, Now DEF Quiet, At, Fits, Src
  <1>3. /\ j \in Job /\ j.op = "clone" /\ j.src \in Domains /\ j.tgt \in Domains /\ j.src # j.tgt /\ j.row \in Row
        /\ j.want \in Wish /\ CopyOk(l, j) /\ HeldOk(l, j) /\ Fits(l, j)
    BY <1>1, <1>2, NativeFacts
  <1>4. PICK w : w = Resting(j.src)
    OBVIOUS
  <1>5. w \in State \cup {None}
    BY <1>3, <1>4, RestingFacts DEF IInv
  <1>6. PICK k : k = [j EXCEPT !.want.db = w]
    OBVIOUS
  <1>7. /\ k \in Job /\ k.op = j.op /\ k.src = j.src /\ k.tgt = j.tgt /\ k.row = j.row /\ k.clean = j.clean
        /\ k.want.root = j.want.root /\ k.want.db = w /\ k.want \in Wish
    <2>1. PICK x : x = [j.want EXCEPT !.db = w]
      OBVIOUS
    <2>2. x \in Wish /\ x.root = j.want.root /\ x.db = w
      BY <1>3, <1>5, <2>1 DEF Wish
    <2>3. k = [j EXCEPT !.want = x]
      BY <1>3, <1>6, <2>1 DEF Job
    <2> QED BY <1>3, <2>2, <2>3 DEF Job
  <1>8. /\ pc' = [pc EXCEPT ![p] = "root"] /\ job' = [job EXCEPT ![p] = k] /\ up' = up \ {j.src}
        /\ UNCHANGED <<lock, site, disk, archive, made, troubles, hurt, asked>>
    BY <1>1, <1>2, <1>4, <1>6 DEF Quiet, Goto
  <1>9. DataInv'
    BY <1>8 DEF IInv, DataInv
  <1>10. Fits("root", k)
    BY <1>2, <1>3, <1>7, IdleFacts DEF Fits, NativeClone
  <1>11. HeldOk("root", k)'
    BY <1>3, <1>7, <1>8 DEF HeldOk, Like
  <1>12. CopyOk("root", k)'
    <2> SUFFICES ASSUME Copying(k) PROVE SourceOk("root", k)' /\ TargetOk("root", k)'
      BY DEF CopyOk, Copying
    <2>1. SourceOk("quiet", j) /\ TargetOk("quiet", j)
      BY <1>2, <1>3, <1>7 DEF CopyOk, Copying
    <2>2. SourceOk("root", k)'
      BY <1>3, <1>4, <1>7, <1>8, <2>1 DEF SourceOk, Resting
    <2>3. TargetOk("root", k)'
      BY <1>7, <1>8, <2>1 DEF TargetOk, Made
    <2> QED BY <2>2, <2>3
  <1>13. \A d \in Domains \ {j.src} : (d \in up' <=> d \in up) /\ (d \in hurt' <=> d \in hurt)
    BY <1>8
  <1>14. "root" \in Labels /\ lock' = lock /\ (Copying(k) => Copying(j)) /\ UNCHANGED <<site, disk>>
    BY <1>7, <1>8 DEF Labels, Copying
  <1> QED BY <1>1, <1>2, <1>3, <1>7, <1>8, <1>9, <1>10, <1>11, <1>12, <1>13, <1>14, Sources

LEMMA WakeStep ==
  ASSUME IInv, NEW p \in Procs, Wake(p)
  PROVE  IInv'
  <1>1. PICK l, j : l = pc[p] /\ j = job[p]
    OBVIOUS
  <1>2. l = "wake" /\ NativeClone(j) /\ Src(p) = j.src
    BY <1>1, Now DEF Wake, At, Fits, Src
  <1>3. /\ j \in Job /\ j.op = "clone" /\ j.src \in Domains /\ j.tgt \in Domains /\ j.src # j.tgt /\ j.row \in Row
        /\ j.want \in Wish /\ CopyOk(l, j) /\ HeldOk(l, j) /\ Fits(l, j)
    BY <1>1, <1>2, NativeFacts
  <1>4. PICK m : m = IF j.failed THEN "discard" ELSE "create"
    OBVIOUS
  <1>5. /\ pc' = [pc EXCEPT ![p] = m] /\ job' = [job EXCEPT ![p] = j]
        /\ UNCHANGED <<lock, site, disk, archive, made, asked>>
    <2>1. job \in [Procs -> Job]
      BY DEF IInv, ProcInv
    <2> QED BY <1>1, <1>4, <2>1 DEF Wake, Goto
  <1>6. \/ up' = (IF j.row.status = "running" THEN up \cup {j.src} ELSE up) /\ UNCHANGED <<troubles, hurt>>
        \/ j.row.status = "running" /\ Trouble /\ hurt' = hurt \cup {j.src} /\ UNCHANGED up
    BY <1>1, <1>2 DEF Wake
  <1>7. DataInv'
    BY <1>3, <1>5, <1>6, TroubleFacts DEF IInv, DataInv
  <1>8. Fits(m, j)
    BY <1>2, <1>3, <1>4 DEF Fits, NativeClone
  <1>9. HeldOk(m, j)'
    <2>1. Like(j.src, j.row) /\ site[j.src].status = j.row.status /\ (j.src \notin hurt => j.src \notin up)
      BY <1>2, <1>3 DEF HeldOk
    <2>2. j.src \notin hurt' => (j.src \in up' <=> j.row.status = "running")
      BY <1>6, <2>1
    <2>3. m \in {"discard", "create"}
      BY <1>4
    <2> QED BY <1>3, <1>5, <2>1, <2>2, <2>3 DEF HeldOk, Like
  <1>10. CopyOk(m, j)'
    <2> SUFFICES ASSUME Copying(j) PROVE SourceOk(m, j)' /\ TargetOk(m, j)'
      BY DEF CopyOk, Copying
    <2>1. SourceOk("wake", j) /\ TargetOk("wake", j)
      BY <1>2, <1>3 DEF CopyOk
    <2>2. SourceOk(m, j)'
      BY <1>4, <1>5, <2>1 DEF SourceOk
    <2>3. TargetOk(m, j)'
      BY <1>2, <1>4, <1>5, <2>1 DEF TargetOk, Made, Holding
    <2> QED BY <2>2, <2>3
  <1>11. \A d \in Domains \ {j.src} : (d \in up' <=> d \in up) /\ (d \in hurt' <=> d \in hurt)
    BY <1>6
  <1>12. m \in Labels /\ m # "provision" /\ lock' = lock /\ UNCHANGED <<site, disk>>
    BY <1>4, <1>5 DEF Labels
  <1> QED BY <1>1, <1>2, <1>3, <1>5, <1>7, <1>8, <1>9, <1>10, <1>11, <1>12, Sources

---------------------------------------------------------------------------------
(* The requests. *)

Alone(t)  == \A q \in Procs : t \notin {Src(q), Tgt(q)}
LEMMA Begins ==
  ASSUME IInv, NEW p \in Procs, NEW m \in Labels, NEW k \in Job, NEW ds \in SUBSET Domains, pc[p] = "idle",
         pc' = [pc EXCEPT ![p] = m], job' = [Spoil(p, ds) EXCEPT ![p] = k], Fits(m, k), m \notin Resters,
         lock' = lock \cup Held(m, k), Held(m, k) \cap lock = {}, DataInv',
         \A e \in Domains \ ds : Same(e), \A e \in ds : e \in Held(m, k) \/ Settled(e), Held(m, k) \subseteq ds,
         k.src \in ds \cup {None}, k.tgt \in ds \cup {None}, Copying(k) => Alone(k.tgt),
         HeldOk(m, k)', CopyOk(m, k)'
  PROVE  IInv'
  <1>1. job[p] = Idle /\ Held(pc[p], job[p]) = {}
    BY Now, IdleFacts DEF Fits
  <1>2. /\ pc' \in [Procs -> Labels] /\ job' \in [Procs -> Job] /\ pc'[p] = m /\ job'[p] = k
        /\ \A q \in Procs \ {p} : pc'[q] = pc[q] /\ job'[q] = Spoil(p, ds)[q]
    <2>1. pc \in [Procs -> Labels] /\ Spoil(p, ds) \in [Procs -> Job]
      BY SpoilFacts DEF IInv, ProcInv
    <2> QED BY <2>1
  <1>3. \A e \in ds : Settled(e) \/ e \notin lock \/ Mine(p, e)
    OBVIOUS
  <1>4. Others(p) /\ Mild(p)
    BY <1>2, <1>3, MildSpoil
  <1>5. \A e \in Domains \ ds : Settled(e)
    BY DEF Same, Settled
  <1>6. FreeOk
    BY <1>5, FreeKept
  <1>7. AloneOk(p, k)
    <2> SUFFICES ASSUME NEW q \in Procs, q # p PROVE Apart(k, job'[q]) /\ Apart(job'[q], k)
      BY DEF AloneOk
    <2>1. /\ Copying(job'[q]) => job'[q] = job[q] /\ Copying(job[q])
          /\ job'[q].src = job[q].src /\ job'[q].tgt = job[q].tgt /\ Fits(pc[q], job[q])
      BY <1>4, OtherFacts DEF IInv
    <2>2. Apart(k, job'[q])
      BY <2>1 DEF Apart, Alone, Src, Tgt
    <2>3. Copying(job'[q]) => Tgt(q) \notin ds
      BY <1>2, SpoilFacts DEF IInv
    <2>4. Copying(job'[q]) => job'[q].tgt \in Domains
      BY <2>1 DEF Fits, Copying
    <2>5. Apart(job'[q], k)
      BY <2>1, <2>3, <2>4, NoneAssumption DEF Apart, Tgt
    <2> QED BY <2>2, <2>5
  <1>8. PICK l, j : l = pc[p] /\ j = job[p]
    OBVIOUS
  <1>9. Step(p, l, j, m, k)
    BY <1>2, <1>4, <1>8 DEF Step
  <1>10. lock' = (lock \ Held(l, j)) \cup Held(m, k) /\ Held(m, k) \cap (lock \ Held(l, j)) = {}
    BY <1>1, <1>8
  <1> QED BY ONLY IInv, p \in Procs, m \in Labels, k \in Job, Fits(m, k), DataInv', HeldOk(m, k)', CopyOk(m, k)',
               <1>4, <1>6, <1>7, <1>9, <1>10, Assemble

LEMMA AskFacts ==
  ASSUME IInv, NEW p \in Procs, Ask(p)
  PROVE  pc[p] = "idle" /\ asked' \in 0..MaxRequests
  BY BoundsAssumption DEF Ask, At, IInv, DataInv

LEMMA NewFacts ==
  ASSUME DataInv, New
  PROVE  made' \in Content
  BY BoundsAssumption DEF DataInv, New, Content

LEMMA BeginCreateStep ==
  ASSUME IInv, NEW p \in Procs, NEW d \in Domains, NEW kind \in {"native", "compose"}, BeginCreate(p, d, kind)
  PROVE  IInv'
  <1>1. PICK row, w : /\ row = [kind |-> kind, status |-> "running", env |-> 0, name |-> d]
                      /\ w = [root |-> {made'}, env |-> made', db |-> made']
    OBVIOUS
  <1>2. made' \in Content /\ pc[p] = "idle" /\ asked' \in 0..MaxRequests
    BY NewFacts, AskFacts DEF BeginCreate, IInv
  <1>3. row \in Row /\ row.kind = kind /\ row.name = d /\ w \in Wish /\ w.db # None
    BY <1>1, <1>2, ContentFacts DEF Row, Wish
  <1>4. PICK k : k = [Idle EXCEPT !.op = "create", !.tgt = d, !.row = row, !.want = w]
    OBVIOUS
  <1>5. k \in Job /\ k.op = "create" /\ k.src = None /\ k.tgt = d /\ k.row = row /\ k.want = w
    BY <1>3, <1>4 DEF Idle, Job, Ops
  <1>6. /\ d \notin lock /\ pc' = [pc EXCEPT ![p] = "provision"] /\ lock' = lock \cup {d}
        /\ site' = Claimed(d, row) /\ job' = [Spoil(p, {d}) EXCEPT ![p] = k]
        /\ UNCHANGED <<disk, up, archive, troubles, hurt>>
    BY <1>1, <1>4 DEF BeginCreate, Goto
  <1>7. RowIs(d, row, 0, "creating")
    BY <1>3, <1>6, ClaimedRow DEF IInv
  <1>8. DataInv'
    BY <1>2, <1>6, <1>7 DEF IInv, DataInv, RowIs, Rows
  <1>9. Held("provision", k) = {d}
    BY <1>5 DEF Held
  <1>10. Fits("provision", k)
    <2>1. k # Idle
      BY <1>5, IdleFacts
    <2> QED BY <1>3, <1>5, <2>1, NoneAssumption DEF Fits, NativeClone
  <1>11. PICK ds : ds = {d}
    OBVIOUS
  <1>12. /\ ds \in SUBSET Domains /\ job' = [Spoil(p, ds) EXCEPT ![p] = k] /\ Held("provision", k) \subseteq ds
         /\ k.src \in ds \cup {None} /\ k.tgt \in ds \cup {None}
         /\ lock' = lock \cup Held("provision", k) /\ Held("provision", k) \cap lock = {}
         /\ \A e \in ds : e \in Held("provision", k) \/ Settled(e)
    BY <1>5, <1>6, <1>9, <1>11
  <1>13. \A e \in Domains \ ds : Same(e)
    BY <1>6, <1>7, <1>11 DEF Same, RowIs
  <1>14. HeldOk("provision", k)'
    BY <1>3, <1>5, <1>7 DEF HeldOk, Like, RowIs
  <1>15. ~Copying(k) /\ CopyOk("provision", k)'
    BY <1>5 DEF Copying, CopyOk
  <1>16. "provision" \in Labels /\ "provision" \notin Resters
    BY DEF Labels, Resters
  <1> QED BY ONLY IInv, p \in Procs, <1>2, <1>5, <1>6, <1>8, <1>10, <1>12, <1>13, <1>14, <1>15, <1>16, Begins

LEMMA BeginDestroyStep ==
  ASSUME IInv, NEW p \in Procs, NEW d \in Domains, BeginDestroy(p, d)
  PROVE  IInv'
  <1>1. PICK row : row = [site[d] EXCEPT !.env = 0]
    OBVIOUS
  <1>2. pc[p] = "idle" /\ asked' \in 0..MaxRequests
    BY AskFacts DEF BeginDestroy
  <1>3. row \in Row
    <2>1. site[d] \in Row
      BY RowFacts DEF BeginDestroy, Exists, IInv
    <2> QED BY <1>1, <2>1, ContentFacts DEF Row
  <1>4. PICK k : k = [Idle EXCEPT !.op = "destroy", !.src = d, !.row = row]
    OBVIOUS
  <1>5. k \in Job /\ k.op = "destroy" /\ k.src = d /\ k.tgt = None /\ k.row = row
    BY <1>3, <1>4 DEF Idle, Job, Ops
  <1>6. /\ d \notin lock /\ pc' = [pc EXCEPT ![p] = "purge"] /\ lock' = lock \cup {d}
        /\ site' = [site EXCEPT ![d] = None] /\ job' = [Spoil(p, {d}) EXCEPT ![p] = k] /\ up' = up \ {d}
        /\ UNCHANGED <<disk, archive, made, troubles, hurt>>
    BY <1>1, <1>4 DEF BeginDestroy, Goto
  <1>7. site' \in Rows /\ site'[d] = None /\ \A e \in Domains \ {d} : site'[e] = site[e]
    BY <1>6, RowFacts DEF Rows, IInv
  <1>8. DataInv'
    BY <1>2, <1>6, <1>7 DEF IInv, DataInv, Rows
  <1>9. Held("purge", k) = {d}
    BY <1>5 DEF Held
  <1>10. Fits("purge", k)
    <2>1. k # Idle
      BY <1>5, IdleFacts
    <2> QED BY <1>3, <1>5, <2>1, NoneAssumption DEF Fits, NativeClone
  <1>11. PICK ds : ds = {d}
    OBVIOUS
  <1>12. /\ ds \in SUBSET Domains /\ job' = [Spoil(p, ds) EXCEPT ![p] = k] /\ Held("purge", k) \subseteq ds
         /\ k.src \in ds \cup {None} /\ k.tgt \in ds \cup {None}
         /\ lock' = lock \cup Held("purge", k) /\ Held("purge", k) \cap lock = {}
         /\ \A e \in ds : e \in Held("purge", k) \/ Settled(e)
    BY <1>5, <1>6, <1>9, <1>11
  <1>13. \A e \in Domains \ ds : Same(e)
    BY <1>6, <1>7, <1>11 DEF Same
  <1>14. HeldOk("purge", k)'
    BY <1>5, <1>7 DEF HeldOk
  <1>15. ~Copying(k) /\ CopyOk("purge", k)'
    BY <1>5 DEF Copying, CopyOk
  <1>16. "purge" \in Labels /\ "purge" \notin Resters
    BY DEF Labels, Resters
  <1> QED BY ONLY IInv, p \in Procs, <1>2, <1>5, <1>6, <1>8, <1>10, <1>12, <1>13, <1>14, <1>15, <1>16, Begins

LEMMA ImportSiteStep ==
  ASSUME IInv, NEW p \in Procs, NEW t \in Domains, ImportSite(p, t), archive # None
  PROVE  IInv'
  <1>1. PICK row, w : /\ row = [kind |-> archive.kind, status |-> "running", env |-> 0, name |-> archive.from]
                      /\ w = [root |-> archive.root, env |-> archive.env, db |-> archive.db]
    OBVIOUS
  <1>2. pc[p] = "idle" /\ asked' \in 0..MaxRequests
    BY AskFacts DEF ImportSite
  <1>3. row \in Row /\ w \in Wish
    <2>1. archive \in Archive
      BY DEF IInv, DataInv
    <2> QED BY <1>1, <2>1, ContentFacts DEF Archive, Row, Wish, State
  <1>c. PICK c : c = (disk[t] = Empty /\ \A q \in Procs : t \notin {Src(q), Tgt(q)})
    OBVIOUS
  <1>d. c \in BOOLEAN /\ (c => disk[t] = Empty /\ Alone(t))
    BY <1>c DEF Alone
  <1>4. PICK k : k = [Idle EXCEPT !.op = "import", !.tgt = t, !.want = w, !.row = row, !.clean = c]
    OBVIOUS
  <1>5. k \in Job /\ k.op = "import" /\ k.src = None /\ k.tgt = t /\ k.row = row /\ k.want = w /\ k.clean = c
    BY <1>3, <1>d, <1>4 DEF Idle, Job, Ops
  <1>6. /\ pc' = [pc EXCEPT ![p] = "create"] /\ job' = [Spoil(p, {t}) EXCEPT ![p] = k]
        /\ UNCHANGED <<lock, site, disk, up, archive, made, troubles, hurt>>
    BY <1>1, <1>c, <1>4 DEF ImportSite, Goto
  <1>7. DataInv'
    BY <1>2, <1>6 DEF IInv, DataInv
  <1>9. Held("create", k) = {}
    BY <1>5 DEF Held
  <1>10. Fits("create", k)
    <2>1. k # Idle
      BY <1>5, IdleFacts
    <2> QED BY <1>3, <1>5, <2>1 DEF Fits, NativeClone
  <1>11. PICK ds : ds = {t}
    OBVIOUS
  <1>12. /\ ds \in SUBSET Domains /\ job' = [Spoil(p, ds) EXCEPT ![p] = k] /\ Held("create", k) \subseteq ds
         /\ k.src \in ds \cup {None} /\ k.tgt \in ds \cup {None}
         /\ lock' = lock \cup Held("create", k) /\ Held("create", k) \cap lock = {}
    BY <1>5, <1>6, <1>9, <1>11
  <1>13. \A e \in Domains : Same(e) /\ Settled(e)
    BY <1>6 DEF Same, Settled
  <1>a. (\A e \in Domains \ ds : Same(e)) /\ \A e \in ds : e \in Held("create", k) \/ Settled(e)
    BY <1>12, <1>13
  <1>14. HeldOk("create", k)'
    BY <1>5 DEF HeldOk
  <1>15. CopyOk("create", k)' /\ (Copying(k) => Alone(k.tgt))
    <2>1. Copying(k) => disk'[t] = Empty /\ Alone(t)
      BY <1>5, <1>6, <1>d DEF Copying
    <2> QED BY <1>5, <2>1 DEF CopyOk, Copying, SourceOk, TargetOk, NativeClone, Made
  <1>16. "create" \in Labels /\ "create" \notin Resters
    BY DEF Labels, Resters
  <1> QED BY ONLY IInv, p \in Procs, <1>2, <1>5, <1>6, <1>7, <1>10, <1>12, <1>a, <1>14, <1>15, <1>16, Begins

LEMMA BeginCloneStep ==
  ASSUME IInv, NEW p \in Procs, NEW s \in Domains, NEW t \in Domains, BeginClone(p, s, t)
  PROVE  IInv'
  <1>1. PICK row, w : /\ row = IF site[s].kind = "native" THEN [site[s] EXCEPT !.name = s] ELSE [site[s] EXCEPT !.name = t]
                      /\ w = Want(s)
    OBVIOUS
  <1>2. pc[p] = "idle" /\ asked' \in 0..MaxRequests /\ site[s] \in Row /\ s # t /\ s \notin lock
    BY AskFacts, RowFacts DEF BeginClone, Exists, IInv
  <1>3. /\ row \in Row /\ row.kind = site[s].kind /\ row.status = site[s].status
        /\ row.name = IF row.kind = "native" THEN s ELSE t
        /\ w \in Wish /\ w.root = disk[s].root
    <2>1. disk[s].root \in SUBSET Content
      BY DiskFacts DEF IInv
    <2> QED BY <1>1, <1>2, <2>1 DEF Row, Wish, Want
  <1>c. PICK c : c = (disk[t] = Empty /\ \A q \in Procs : t \notin {Src(q), Tgt(q)})
    OBVIOUS
  <1>d. c \in BOOLEAN /\ (c => disk[t] = Empty /\ Alone(t))
    BY <1>c DEF Alone
  <1>m. PICK m : m = IF site[s].kind = "native" THEN "quiet" ELSE "create"
    OBVIOUS
  <1>4. PICK k : k = [Idle EXCEPT !.op = "clone", !.src = s, !.tgt = t, !.want = w, !.row = row, !.clean = c]
    OBVIOUS
  <1>5. k \in Job /\ k.op = "clone" /\ k.src = s /\ k.tgt = t /\ k.row = row /\ k.want = w /\ k.clean = c
    BY <1>3, <1>d, <1>4 DEF Idle, Job, Ops
  <1>6. /\ pc' = [pc EXCEPT ![p] = m] /\ job' = [Spoil(p, {s, t}) EXCEPT ![p] = k] /\ lock' = lock \cup {s}
        /\ UNCHANGED <<site, disk, up, archive, made, troubles, hurt>>
    BY <1>1, <1>c, <1>m, <1>4 DEF BeginClone, Goto
  <1>7. DataInv'
    BY <1>2, <1>6 DEF IInv, DataInv
  <1>8. m \in {"quiet", "create"} /\ m \in Labels /\ m \notin Resters /\ (m = "quiet" <=> NativeClone(k))
    BY <1>3, <1>5, <1>m DEF Labels, Resters, NativeClone
  <1>9. Held(m, k) = {s}
    BY <1>5, <1>8 DEF Held
  <1>10. Fits(m, k)
    <2>1. k # Idle
      BY <1>5, IdleFacts
    <2> QED BY <1>2, <1>3, <1>5, <1>8, <2>1 DEF Fits
  <1>11. PICK ds : ds = {s, t}
    OBVIOUS
  <1>12. /\ ds \in SUBSET Domains /\ job' = [Spoil(p, ds) EXCEPT ![p] = k] /\ Held(m, k) \subseteq ds
         /\ k.src \in ds \cup {None} /\ k.tgt \in ds \cup {None}
         /\ lock' = lock \cup Held(m, k) /\ Held(m, k) \cap lock = {}
    BY <1>2, <1>5, <1>6, <1>9, <1>11
  <1>13. \A e \in Domains : Same(e) /\ Settled(e)
    BY <1>6 DEF Same, Settled
  <1>a. (\A e \in Domains \ ds : Same(e)) /\ \A e \in ds : e \in Held(m, k) \/ Settled(e)
    BY <1>12, <1>13
  <1>14. HeldOk(m, k)'
    <2>1. Calm(s) /\ Exists(s)
      BY <1>2, RowFacts DEF IInv, FreeInv, Exists
    <2> QED BY <1>2, <1>3, <1>5, <1>6, <1>8, <2>1 DEF HeldOk, Like, Calm
  <1>15. CopyOk(m, k)' /\ (Copying(k) => Alone(k.tgt))
    <2>1. Copying(k) => disk'[t] = Empty /\ Alone(t)
      BY <1>5, <1>6, <1>d DEF Copying
    <2>2. disk'[s].root = w.root
      BY <1>3, <1>6
    <2>3. SourceOk(m, k)'
      BY <1>5, <1>8, <2>2 DEF SourceOk
    <2>4. Copying(k) => TargetOk(m, k)'
      BY <1>5, <1>8, <2>1 DEF TargetOk, Made
    <2> QED BY <1>5, <2>1, <2>3, <2>4 DEF CopyOk, Copying
  <1> QED BY ONLY IInv, p \in Procs, <1>2, <1>5, <1>6, <1>7, <1>8, <1>10, <1>12, <1>a, <1>14, <1>15, Begins

---------------------------------------------------------------------------------
(* What happens to sites otherwise. *)

LEMMA TakenStep ==
  ASSUME IInv, NEW d \in Domains, Export(d) \/ Backup(d)
  PROVE  IInv'
  <1>1. PICK b \in BOOLEAN : archive' = Taken(d, b)
    BY DEF Export, Backup
  <1>2. Exists(d) /\ UNCHANGED <<lock, site, disk, up, made, troubles, pc, job, hurt, asked>>
    BY DEF Export, Backup
  <1>3. archive' \in Archive
    <2>1. site[d] \in Row /\ disk[d].root \in SUBSET Content /\ DumpOf(d, d) \in State \cup {None}
      BY <1>2, RowFacts, DiskFacts, DumpFacts DEF IInv, Exists
    <2> QED BY <1>1, <2>1 DEF Taken, Archive, Row, State
  <1>4. DataInv'
    BY <1>2, <1>3 DEF IInv, DataInv
  <1>5. ProcInv' /\ LockInv' /\ FreeInv' /\ AloneInv'
    BY <1>2 DEF IInv, ProcInv, LockInv, FreeInv, Calm, Exists, AloneInv
  <1>6. \A p \in Procs : (HeldOk(pc[p], job[p]) /\ CopyOk(pc[p], job[p]))'
    BY <1>2 DEF IInv, HeldOk, Like, CopyOk, SourceOk, TargetOk, Resting, Holding, Serving
  <1> QED BY <1>4, <1>5, <1>6 DEF IInv

LEMMA ReadyStep ==
  ASSUME IInv, NEW d \in Domains, Ready(d), lock' = lock, DataInv', \A e \in Domains \ {d} : Same(e),
         Calm(d)' \/ Settled(d)
  PROVE  IInv'
  <1>1. PICK ds : ds = {d}
    OBVIOUS
  <1>2. /\ d \notin lock /\ pc' = pc /\ job' = Spoil(None, ds) /\ ds \in SUBSET Domains
        /\ pc \in [Procs -> Labels] /\ ProcInv
    BY <1>1 DEF Ready, IInv, ProcInv
  <1>3. job' \in [Procs -> Job]
    BY <1>2, SpoilFacts
  <1>4. Others(None) /\ Mild(None)
    BY <1>1, <1>2, <1>3, MildSpoil
  <1>5. \A e \in Domains \ {d} : Settled(e)
    BY DEF Same, Settled
  <1>6. FreeOk
    BY <1>2, <1>5, FreeKept
  <1> QED BY <1>4, <1>6, AssembleFree

LEMMA SwitchStep ==
  ASSUME IInv, NEW d \in Domains, Switch(d)
  PROVE  IInv'
  <1>1. PICK st \in {"running", "stopped"} : /\ site' = [site EXCEPT ![d].status = st]
                                             /\ up' = IF st = "running" THEN up \cup {d} ELSE up \ {d}
    BY DEF Switch
  <1>2. /\ Ready(d) /\ site[d] \in Row /\ hurt' = hurt \ {d} /\ UNCHANGED <<lock, disk, archive, made, troubles, asked>>
    BY RowFacts DEF Switch, Ready, Exists, IInv
  <1>3. /\ site' \in Rows /\ site'[d].status = st /\ \A e \in Domains \ {d} : site'[e] = site[e]
    BY <1>1, <1>2, RowFacts DEF Rows, Row, IInv
  <1>4. DataInv'
    BY <1>1, <1>2, <1>3 DEF IInv, DataInv, Rows
  <1>5. \A e \in Domains \ {d} : Same(e)
    BY <1>1, <1>2, <1>3 DEF Same
  <1>6. Calm(d)'
    BY <1>1, <1>3 DEF Calm
  <1> QED BY <1>2, <1>4, <1>5, <1>6, ReadyStep

LEMMA DBImportStep ==
  ASSUME IInv, NEW d \in Domains, DBImport(d)
  PROVE  IInv'
  <1>1. Ready(d) /\ made' \in Content /\ disk' = Restored(d, d, made')
        /\ UNCHANGED <<lock, site, up, archive, troubles, hurt, asked>>
    BY NewFacts DEF DBImport, IInv
  <1>2. PICK x : DiskIs(d, disk[d].root, x)
    BY <1>1, RestoredFacts, ContentFacts DEF IInv
  <1>3. DataInv'
    BY <1>1, <1>2 DEF IInv, DataInv, DiskIs, Places
  <1>4. (\A e \in Domains \ {d} : Same(e)) /\ Settled(d)
    BY <1>1, <1>2, OnDisk DEF IInv
  <1> QED BY <1>1, <1>3, <1>4, ReadyStep

LEMMA SetEnvStep ==
  ASSUME IInv, NEW d \in Domains, SetEnv(d)
  PROVE  IInv'
  <1>1. /\ Ready(d) /\ made' \in Content /\ site' = [site EXCEPT ![d].env = made'] /\ site[d] \in Row
        /\ UNCHANGED <<lock, disk, up, archive, troubles, hurt, asked>>
    BY NewFacts, RowFacts DEF SetEnv, Ready, Exists, IInv
  <1>2. RowIs(d, site[d], made', site[d].status)
    BY <1>1, SetEnvRow DEF IInv
  <1>3. DataInv'
    BY <1>1, <1>2 DEF IInv, DataInv, RowIs, Rows
  <1>4. (\A e \in Domains \ {d} : Same(e)) /\ Settled(d)
    BY <1>1, <1>2, NoneAssumption DEF RowIs, Same, Settled
  <1> QED BY <1>1, <1>3, <1>4, ReadyStep

LEMMA TrafficStep ==
  ASSUME IInv, NEW d \in Domains, Traffic(d)
  PROVE  IInv'
  <1>1. /\ d \in up /\ disk[d].data \in Database /\ made' \in State /\ made' \in Content /\ pc' = pc
        /\ disk' = [disk EXCEPT ![d].data.of = made']
        /\ job' = [q \in Procs |-> IF Tgt(q) = d THEN [job[q] EXCEPT !.clean = FALSE] ELSE job[q]]
        /\ UNCHANGED <<lock, site, up, archive, troubles, hurt, asked>>
    BY NewFacts, DiskFacts, ContentFacts DEF Traffic, IInv
  <1>2. DiskIs(d, disk[d].root, [disk[d].data EXCEPT !.of = made'])
    BY <1>1, SetOf DEF IInv
  <1>3. DataInv'
    BY <1>1, <1>2 DEF IInv, DataInv, DiskIs, Places
  <1>4. ASSUME NEW q \in Procs
        PROVE  Soiled(job[q], job'[q]) /\ job'[q] \in Job /\ (Copying(job'[q]) => Tgt(q) # d)
    <2>1. job[q] \in Job /\ Fits(pc[q], job[q])
      BY Now
    <2>2. CASE Tgt(q) = d
      <3>1. job'[q] = [job[q] EXCEPT !.clean = FALSE]
        BY <1>1, <2>2
      <3>2. job[q].op # "none"
        BY <2>1, <2>2, IdleFacts, NoneAssumption DEF Fits, Tgt
      <3>3. Soiled(job[q], job'[q])
        BY <3>1, <3>2 DEF Soiled
      <3>4. job'[q] \in Job
        BY <2>1, <3>3, SoiledFacts
      <3>5. ~Copying(job'[q])
        BY <2>1, <3>1 DEF Copying, Job
      <3> QED BY <3>3, <3>4, <3>5
    <2>3. CASE Tgt(q) # d
      BY <1>1, <2>1, <2>3 DEF Soiled
    <2> QED BY <2>2, <2>3
  <1>5. job' \in [Procs -> Job]
    BY <1>1, <1>4
  <1>6. Others(None)
    BY <1>1, <1>4, <1>5 DEF Others, Stay, IInv, ProcInv
  <1>7. (\A e \in Domains \ {d} : Same(e)) /\ (\A e \in Domains : Settled(e) /\ (Calm(e)' <=> Calm(e)))
    BY <1>1, <1>2, OnDisk DEF IInv
  <1>8. \A e \in Domains : Source(e) /\ (e # d => Kept(e))
    BY <1>1, <1>2 DEF DiskIs, Source, Kept
  <1>9. Mild(None)
    <2>1. ASSUME NEW q \in Procs, NEW e \in Held(pc[q], job[q]) PROVE Settled(e)
      BY <1>7, Now
    <2>2. ASSUME NEW q \in Procs, Copying(job'[q]) PROVE Kept(Tgt(q)) /\ (job[q].op = "clone" => Source(Src(q)))
      <3>1. Copying(job[q]) /\ Fits(pc[q], job[q]) /\ Tgt(q) # d
        BY <1>4, <2>2, Now, SoiledFacts
      <3>2. Tgt(q) \in Domains /\ (job[q].op = "clone" => Src(q) \in Domains)
        BY <3>1 DEF Copying, Fits, Src, Tgt
      <3> QED BY <1>8, <3>1, <3>2
    <2> QED BY <2>1, <2>2 DEF Mild
  <1>10. FreeOk
    BY <1>1, <1>7, FreeKept
  <1> QED BY <1>1, <1>3, <1>6, <1>9, <1>10, AssembleFree

---------------------------------------------------------------------------------
(* The invariant is inductive. *)

LEMMA InitInv ==
  ASSUME Init
  PROVE  IInv
  <1>1. \A p \in Procs : pc[p] = "idle" /\ job[p] = Idle
    BY DEF Init
  <1>2. ProcInv
    BY <1>1, IdleFacts DEF Init, ProcInv, Labels
  <1>3. DataInv
    <2>1. 0 \in Content /\ 0 \in 0..MaxTroubles /\ 0 \in 0..MaxRequests
      BY ContentFacts, BoundsAssumption
    <2> QED BY <2>1 DEF Init, DataInv, Empty
  <1>4. LockInv
    BY <1>1, IdleFacts DEF Init, LockInv
  <1>5. FreeInv
    BY DEF Init, FreeInv, Calm, Exists
  <1>6. AloneInv
    BY <1>1, IdleFacts DEF AloneInv, Apart
  <1>7. HeldOk("idle", Idle) /\ CopyOk("idle", Idle)
    BY IdleFacts DEF HeldOk, CopyOk
  <1> QED BY <1>1, <1>2, <1>3, <1>4, <1>5, <1>6, <1>7 DEF IInv

LEMMA NextInv ==
  ASSUME IInv, [Next]_vars
  PROVE  IInv'
  <1>1. CASE UNCHANGED vars
    <2>1. UNCHANGED <<lock, site, disk, up, archive, made, troubles, asked, pc, job, hurt>>
      BY <1>1 DEF vars, state
    <2>2. ProcInv' /\ DataInv'
      BY <2>1 DEF IInv, ProcInv, DataInv
    <2>3. LockInv' /\ FreeInv' /\ AloneInv'
      BY <2>1 DEF IInv, LockInv, FreeInv, Calm, Exists, AloneInv
    <2>4. \A p \in Procs : (HeldOk(pc[p], job[p]) /\ CopyOk(pc[p], job[p]))'
      BY <2>1 DEF IInv, HeldOk, Like, CopyOk, SourceOk, TargetOk, Resting, Holding, Serving
    <2> QED BY <2>2, <2>3, <2>4 DEF IInv
  <1>2. ASSUME NEW p \in Procs, NEW d \in Domains, NEW kind \in {"native", "compose"}, BeginCreate(p, d, kind)
        PROVE  IInv'
    BY <1>2, BeginCreateStep
  <1>3. ASSUME NEW p \in Procs, NEW d \in Domains,
               BeginImport(p, d) \/ CreateSiteFromBackup(p, d) \/ BeginDestroy(p, d)
        PROVE  IInv'
    BY <1>3, ImportSiteStep, BeginDestroyStep DEF BeginImport, CreateSiteFromBackup
  <1>4. ASSUME NEW p \in Procs, NEW d \in Domains, NEW s \in Domains, BeginClone(p, s, d)
        PROVE  IInv'
    BY <1>4, BeginCloneStep
  <1>5. ASSUME NEW p \in Procs, CreateStep(p) PROVE IInv'
    BY <1>5, RefuseStep, ClaimStep, ProvisionStep, RollbackStep DEF CreateStep
  <1>6. ASSUME NEW p \in Procs, CloneStep(p) PROVE IInv'
    BY <1>6, QuietStep, CopyRootStep, CopyDataStep, WakeStep, DiscardStep, CopyPathsStep, CopyEnvStep, CopyDumpStep
    DEF CloneStep
  <1>7. ASSUME NEW p \in Procs, ImportStep(p) \/ EndDestroy(p) \/ Done(p) PROVE IInv'
    BY <1>7, ExtractStep, ReplayStep, RestartAllStep, EndDestroyStep, DoneStep DEF ImportStep
  <1>8. ASSUME NEW d \in Domains, Export(d) \/ Backup(d) \/ Switch(d) \/ Traffic(d) \/ DBImport(d) \/ SetEnv(d)
        PROVE  IInv'
    BY <1>8, TakenStep, SwitchStep, TrafficStep, DBImportStep, SetEnvStep
  <1> QED BY <1>1, <1>2, <1>3, <1>4, <1>5, <1>6, <1>7, <1>8 DEF Next

LEMMA Invariant == Spec => []IInv
  BY InitInv, NextInv, PTL DEF Spec

---------------------------------------------------------------------------------
(* The properties. *)

(* For any number of domains and requests: each variable has its type, and a lock is held  *)
(* by exactly one request, which is in one of the parts of its work that lock a site.      *)
THEOREM CopiesTypeCorrect == Spec => []TypeOK
  <1>1. IInv => TypeOK
    <2> SUFFICES ASSUME IInv PROVE TypeOK
      OBVIOUS
    <2>1. \A p \in Procs : Holds(p) = Held(pc[p], job[p])
      BY DEF Holds, Held
    <2>2. /\ lock = UNION {Holds(p) : p \in Procs}
          /\ \A p, q \in Procs : p # q => Holds(p) \cap Holds(q) = {}
      BY <2>1 DEF IInv, LockInv
    <2>3. pc \in [Procs -> Labels] /\ \A p \in Procs : pc[p] = "idle" <=> job[p] = Idle
      BY DEF IInv, ProcInv, Fits
    <2>4. /\ site \in [Domains -> Row \cup {None}]
          /\ disk \in [Domains -> [root : SUBSET Content, data : Database \cup {None}]]
          /\ up \subseteq Domains /\ hurt \subseteq Domains /\ archive \in Archive \cup {None}
          /\ made \in Content /\ troubles \in 0..MaxTroubles /\ asked \in 0..MaxRequests
      BY DEF IInv, DataInv
    <2> QED BY <2>2, <2>3, <2>4 DEF TypeOK
  <1> QED BY <1>1, Invariant, PTL

(* For any number of domains, requests and contents, and whatever fails in between: a       *)
(* clone or an import that reports success, and whose target had no leftovers and that      *)
(* nothing else was done to meanwhile, has made a whole copy: files, environment, and the   *)
(* database as it was at rest, or when it was dumped.                                       *)
THEOREM CopiesAreWhole == Spec => []CopiesWhole
  <1>1. IInv => CopiesWhole
    <2> SUFFICES ASSUME IInv, NEW p \in Procs, Copied(p), NEW d, NEW want, d = Tgt(p), want = job[p].want
                 PROVE  /\ Exists(d) /\ disk[d].root = want.root /\ site[d].env = want.env /\ d \in up
                        /\ disk[d].data.of = IF want.db = None THEN 0 ELSE want.db
                        /\ \/ site[d].name = disk[d].data.name
                           \/ job[p].op = "clone" /\ Native(p) /\ disk[d].data.name # Src(p)
      BY DEF CopiesWhole
    <2>1. PICK l, j : l = pc[p] /\ j = job[p]
      OBVIOUS
    <2>2. l = "done" /\ Copying(j) /\ Fits(l, j) /\ CopyOk(l, j) /\ d = j.tgt /\ want = j.want
      BY <2>1, Now DEF Copied, Copying, At, Tgt
    <2>3. TargetOk("done", j) /\ (NativeClone(j) => j.row.name = j.src)
      BY <2>2 DEF CopyOk, Fits, NativeClone
    <2>4. /\ site[d] \in Row /\ site[d].name = j.row.name /\ d \in up /\ disk[d].root = want.root
          /\ site[d].env = want.env /\ Serving(d, want.db)
          /\ NativeClone(j) \/ disk[d].data.name = j.row.name
      BY <2>2, <2>3 DEF TargetOk, Made, Like
    <2>5. Exists(d)
      BY <2>4, NoneAssumption DEF Exists
    <2>6. \/ site[d].name = disk[d].data.name
          \/ job[p].op = "clone" /\ Native(p) /\ disk[d].data.name # Src(p)
      BY <2>1, <2>3, <2>4 DEF NativeClone, Native, Src
    <2> QED BY <2>4, <2>5, <2>6 DEF Serving
  <1> QED BY <1>1, Invariant, PTL

(* For any number of domains and requests: of a site nobody holds the containers run        *)
(* exactly when its status says so, unless a call that failed left them otherwise, so a     *)
(* clone leaves its source as it found it, also when the copy failed.                       *)
THEOREM CopiesSourceAsFound == Spec => []SourceAsFound
  <1>1. IInv => SourceAsFound
    BY DEF IInv, FreeInv, Calm, SourceAsFound
  <1> QED BY <1>1, Invariant, PTL

=================================================================================

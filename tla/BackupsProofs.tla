----------------------------- MODULE BackupsProofs ------------------------------
(***************************************************************************)
(* Proofs about Backups, for any owners, storages, schedules, requests and *)
(* bounds: the type invariant, Restorable, AccountedFor, RestoresAll and   *)
(* NewestKept. What retention and deletes hold, without the lock, are keys *)
(* of backups that are recorded no more or are theirs to delete; a backup  *)
(* in progress is none of them, since its id is newer than all recorded.   *)
(***************************************************************************)
EXTENDS Backups, FiniteSetTheorems, TLAPS

---------------------------------------------------------------------------------
(* The invariant. *)

DataInv ==
  /\ lock \in BOOLEAN /\ owner \in Owners \cup {Nobody} /\ content \in 0..Partial
  /\ rows \subseteq Backup /\ archive \in [Objects -> 0..Partial] /\ clock \in Seconds
  /\ pc \in [Procs -> Labels] /\ job \in [Procs -> Job] /\ faults \in 0..MaxFaults
  /\ begun \subseteq [id : Ids, store : Storages, place : Places, key : Seconds, epoch : Nat]
  /\ latest \in [Storages -> 0..MaxBackups] /\ epoch \in Nat /\ cut \subseteq Ids

(* The lock is held by the one operation that needs it. *)
LockInv ==
  /\ \A p \in Procs : pc[p] \in Locked => lock
  /\ lock => \E p \in Procs : pc[p] \in Locked
  /\ \A p, q \in Procs : pc[p] \in Locked /\ pc[q] \in Locked => p = q

(* A place tells the storage. *)
Fits(place, store) == IF store = "local" THEN place \in Owners ELSE place = store
Obj(b)  == <<b.place, b.key>>
(* Backups are numbered, in the order of the changes of hands. One of this epoch is where *)
(* the storage is opened now.                                                             *)
BegunInv ==
  /\ IsFiniteSet(begun)
  /\ \A b \in begun : /\ b.id \in 1..Cardinality(begun) /\ b.epoch <= epoch /\ Fits(b.place, b.store)
                      /\ b.epoch = epoch => Live /\ b.place = Place(b.store)
  /\ \A a, b \in begun : (a.id = b.id => a = b) /\ (a.id <= b.id => a.epoch <= b.epoch)
  /\ \A s \in Storages : latest[s] <= Cardinality(begun)

(* The backup is not in progress: recorded, or given up. *)
InProgress == {"upload", "record"}
Settled(i) == (\E b \in begun : b.id = i) /\ \A p \in Procs : pc[p] \in InProgress => job[p].id # i

(* The archive of a row is its own, unless its name is shared or it was deleted. *)
Kept(r) == \/ Twin(r.id) \/ r.id \in cut
           \/ (\E p \in Procs : pc[p] = "deleteRow" /\ job[p].id = r.id)
           \/ archive[<<r.place, r.key>>] = r.id
Of(r, b) == b.id = r.id /\ b.store = r.store /\ b.place = r.place /\ b.key = r.key
RowInv(r) ==
  /\ r.at <= clock /\ r.id <= latest[r.store] /\ Settled(r.id) /\ Kept(r)
  /\ \E b \in begun : Of(r, b)
  /\ \A s \in rows : (r.id = s.id => r = s) /\ (r.at > s.at => r.id > s.id)

(* A key of a backup that is not recorded any more. *)
Lost(store, key) == \E b \in begun : /\ b.store = store /\ b.key = key /\ Settled(b.id)
                                     /\ \A r \in rows : r.id # b.id

BackupInv(p) == LET j == job[p] IN
  /\ pc[p] \in InProgress => j.id = Cardinality(begun) /\ \E b \in begun : Of(j, b)
  /\ pc[p] = "record" => archive[Object(p)] = j.id \/ Twin(j.id)

(* What retention has read is old by now, too. *)
PruneInv(p) == LET j == job[p] IN
  /\ pc[p] \in InProgress \cup {"pruneSelect", "pruneRow", "pruneObject"} => j.store \in Storages
  /\ pc[p] \in InProgress \cup {"pruneSelect"} => j.paths = <<>>
  /\ pc[p] = "pruneSelect" => j.keep # 0
  /\ pc[p] = "pruneRow" => \A r \in j.todo :
       /\ r.store = j.store /\ r.id < latest[r.store] /\ Settled(r.id) /\ (\E b \in begun : Of(r, b))
       /\ \A s \in rows : s.id = r.id => s = r
  /\ pc[p] \in {"pruneRow", "pruneObject"} => \A i \in 1..Len(j.paths) : Lost(j.store, j.paths[i])
  /\ pc[p] = "pruneObject" => j.paths # <<>> /\ Fits(j.place, j.store)

(* A delete or a restore knows where the backup it was asked for is, or was. *)
AskedInv(p) == LET j == job[p] IN
  /\ pc[p] \in {"deleteObject", "deleteRow", "download", "apply", "restored"} =>
       /\ Settled(j.id)
       /\ \E b \in begun : /\ b.id = j.id /\ b.key = j.key /\ Fits(j.place, b.store)
                           /\ b.epoch = epoch => b.place = j.place
                           /\ pc[p] = "deleteRow" /\ faults = 0 /\ b.epoch = epoch => archive[Obj(b)] # b.id
  /\ pc[p] = "apply" => j.got \in Ids /\ (j.got = j.id \/ Twin(j.id))
  /\ pc[p] = "restored" => content = j.id \/ Twin(j.id)
DropInv(p) == pc[p] = "dropRows" => ~Live /\ \A b \in begun : b.epoch # epoch

(* An archive is of a backup that was begun, and without a fault a whole one. *)
ArchiveInv == \A o \in Objects :
  /\ archive[o] \in Ids => \E b \in begun : b.id = archive[o] /\ Obj(b) = o
  /\ faults = 0 => archive[o] # Partial

(* Without a fault, the archive of a backup that goes on in this epoch is recorded, or will *)
(* be, or retention will delete it; and where a backup of this epoch has put its own there  *)
(* is none of an earlier epoch.                                                             *)
Has(s, k) == \E i \in 1..Len(s) : s[i] = k
Answers(p, a) == \/ pc[p] = "record" /\ job[p].id = a.id
                 \/ pc[p] = "pruneRow" /\ job[p].store = a.store /\ Has(job[p].paths, a.key)
                 \/ pc[p] = "pruneObject" /\ job[p].place = a.place /\ Has(job[p].paths, a.key)
Accounted(a) == (\E r \in rows : r.id = a.id) \/ \E p \in Procs : Answers(p, a)
Ours(b) == \/ \E p \in Procs : pc[p] = "upload" /\ job[p].id = b.id
           \/ archive[Obj(b)] = 0
           \/ \E a \in begun : a.id = archive[Obj(b)] /\ a.epoch = epoch
AccountInv == faults = 0 => \A b \in begun : b.epoch = epoch =>
  Ours(b) /\ (archive[Obj(b)] = b.id => Accounted(b))

IInv == /\ DataInv /\ LockInv /\ BegunInv /\ (\A r \in rows : RowInv(r))
        /\ \A p \in Procs : BackupInv(p) /\ PruneInv(p) /\ AskedInv(p) /\ DropInv(p)
        /\ ArchiveInv /\ AccountInv
---------------------------------------------------------------------------------
(* Numbers, places and requests. *)

LEMMA Constants ==
  /\ MaxBackups \in Nat /\ MaxClock \in Nat /\ MaxEpochs \in Nat /\ MaxFaults \in Nat
  /\ Partial \in Nat /\ Partial \notin Ids /\ 0 \notin Ids /\ Ids \subseteq 0..Partial /\ 0 \in 0..Partial
  /\ Partial \in 0..Partial /\ Partial # 0
  BY BoundsAssumption DEF Partial, Ids

LEMMA OneStore ==
  ASSUME NEW place, NEW s \in Storages, NEW t \in Storages, Fits(place, s), Fits(place, t)
  PROVE  s = t
  BY StoragesAssumption DEF Fits

LEMMA PlaceFits ==
  ASSUME owner \in Owners \cup {Nobody}, NEW store \in Storages
  PROVE  Place(store) \in Places /\ Fits(Place(store), store)
  BY OwnersAssumption DEF Place, Places, Live, Fits

LEMMA TwinBy ==
  ASSUME NEW a \in begun, NEW b \in begun, a.id # b.id, a.store = b.store, a.key = b.key
  PROVE  Twin(a.id)
  BY DEF Twin

LEMMA NoJobFacts ==
  /\ NoJob \in Job /\ NoJob.id = 0 /\ NoJob.store = "local" /\ NoJob.place = Admin /\ NoJob.key = 0
  /\ NoJob.keep = 0 /\ NoJob.todo = {} /\ NoJob.paths = <<>> /\ NoJob.got = 0
  <1>1. 0 \in 0..MaxBackups /\ 0 \in Seconds /\ 0 \in 0..Partial /\ Admin \in Places
    BY Constants, OwnersAssumption DEF Seconds, Places
  <1>2. QED
    BY <1>1 DEF NoJob, Job

LEMMA JobFacts ==
  ASSUME NEW j \in Job
  PROVE  /\ j.id \in 0..MaxBackups /\ j.store \in Storages \cup {"local"} /\ j.place \in Places
         /\ j.key \in Seconds /\ j.keep \in Keeps \cup {0} /\ j.todo \in SUBSET Backup
         /\ j.paths \in Seq(Seconds) /\ j.got \in 0..Partial
  BY DEF Job

LEMMA BackupFacts ==
  ASSUME NEW r \in Backup
  PROVE  /\ r.id \in Ids /\ r.store \in Storages /\ r.key \in Seconds /\ r.place \in Places /\ r.at \in Seconds
         /\ r.id \in Nat /\ r.at \in Nat /\ r.id # 0 /\ r.id \in 0..MaxBackups /\ <<r.place, r.key>> \in Objects
  BY Constants DEF Backup, Ids, Seconds, Objects

LEMMA BegunFacts ==
  ASSUME IInv, NEW b \in begun
  PROVE  /\ b.id \in Ids /\ b.store \in Storages /\ b.place \in Places /\ b.key \in Seconds /\ b.epoch \in Nat
         /\ b.id \in Nat /\ b.id # 0 /\ b.id \in 1..Cardinality(begun) /\ b.epoch <= epoch
         /\ Fits(b.place, b.store) /\ Obj(b) \in Objects
         /\ (b.epoch = epoch => Live /\ b.place = Place(b.store))
  <1>1. b \in [id : Ids, store : Storages, place : Places, key : Seconds, epoch : Nat]
    BY DEF IInv, DataInv
  <1>2. QED
    BY <1>1, Constants DEF IInv, BegunInv, Ids, Obj, Objects

LEMMA CountFacts ==
  ASSUME IInv
  PROVE  Cardinality(begun) \in Nat
  BY FS_CardinalityType DEF IInv, BegunInv

(* Two backups with one name in one place are twins. *)
LEMMA SameObject ==
  ASSUME IInv, NEW a \in begun, NEW b \in begun, a.id # b.id, a.key = b.key,
         NEW place, Fits(place, a.store), Fits(place, b.store)
  PROVE  Twin(a.id) /\ Twin(b.id)
  <1>1. a.store \in Storages /\ b.store \in Storages
    BY BegunFacts
  <1>2. a.store = b.store
    BY <1>1, OneStore
  <1>3. QED
    BY <1>2, TwinBy

LEMMA Facts ==
  ASSUME IInv, NEW p \in Procs
  PROVE  /\ DataInv /\ LockInv /\ BegunInv /\ ArchiveInv /\ AccountInv /\ job[p] \in Job /\ pc[p] \in Labels
         /\ BackupInv(p) /\ PruneInv(p) /\ AskedInv(p) /\ DropInv(p)
  BY DEF IInv, DataInv

LEMMA RowFacts ==
  ASSUME IInv, NEW r \in rows
  PROVE  r \in Backup /\ RowInv(r)
  BY DEF IInv, DataInv

LEMMA LockMoves ==
  ASSUME LockInv, pc \in [Procs -> Labels], NEW p \in Procs, NEW l, pc' = [pc EXCEPT ![p] = l],
         \/ l \in Locked /\ lock' = TRUE /\ (pc[p] \in Locked \/ lock = FALSE)
         \/ l \notin Locked /\ pc[p] \in Locked /\ lock' = FALSE
         \/ l \notin Locked /\ pc[p] \notin Locked /\ lock' = lock
  PROVE  LockInv'
  <1>1. pc'[p] = l /\ \A q \in Procs \ {p} : pc'[q] = pc[q]
    OBVIOUS
  <1>2. CASE l \in Locked /\ lock' = TRUE /\ (pc[p] \in Locked \/ lock = FALSE)
    <2>1. \A q \in Procs \ {p} : pc[q] \notin Locked
      BY <1>2 DEF LockInv
    <2>2. QED
      BY <1>1, <1>2, <2>1 DEF LockInv
  <1>3. CASE l \notin Locked /\ pc[p] \in Locked /\ lock' = FALSE
    <2>1. \A q \in Procs \ {p} : pc[q] \notin Locked
      BY <1>3 DEF LockInv
    <2>2. QED
      BY <1>1, <1>3, <2>1 DEF LockInv
  <1>4. CASE l \notin Locked /\ pc[p] \notin Locked /\ lock' = lock
    BY <1>1, <1>4 DEF LockInv
  <1>5. QED
    BY <1>2, <1>3, <1>4

---------------------------------------------------------------------------------
(* Parts of the invariant that a step leaves alone. *)

LEMMA SettledStays ==
  ASSUME begun \subseteq begun',
         \A q \in Procs : pc'[q] \in InProgress => pc[q] \in InProgress /\ job'[q].id = job[q].id,
         NEW i, Settled(i)
  PROVE  Settled(i)'
  BY DEF Settled

LEMMA TwinStays ==
  ASSUME begun \subseteq begun', NEW i, Twin(i)
  PROVE  Twin(i)'
  BY DEF Twin

LEMMA LostStays ==
  ASSUME begun \subseteq begun', \A i : Settled(i) => Settled(i)',
         \A r \in rows' : r \in rows \/ ~Settled(r.id),
         NEW store, NEW key, Lost(store, key)
  PROVE  Lost(store, key)'
  BY DEF Lost

(* A request that stands still. *)
LEMMA WorkStays ==
  ASSUME IInv, NEW q \in Procs, pc'[q] = pc[q], job'[q] = job[q], begun \subseteq begun',
         pc[q] \in Locked => begun' = begun,
         \A i : Settled(i) => Settled(i)',
         \A r \in rows' : r \in rows \/ ~Settled(r.id),
         \A s \in Storages : latest'[s] \in Nat /\ latest'[s] >= latest[s],
         pc[q] = "record" => archive'[Object(q)] = archive[Object(q)] \/ Twin(job[q].id),
         pc[q] = "restored" => content' = content,
         pc[q] = "dropRows" => UNCHANGED <<owner, epoch>>,
         epoch' \in Nat, epoch' >= epoch, faults' \in Nat, faults' >= faults,
         \A o \in Objects : Settled(archive'[o]) => archive'[o] = archive[o]
  PROVE  BackupInv(q)' /\ PruneInv(q)' /\ AskedInv(q)' /\ DropInv(q)'
  <1> DEFINE j == job[q]
  <1>1. BackupInv(q) /\ PruneInv(q) /\ AskedInv(q) /\ DropInv(q) /\ job[q] \in Job
    BY Facts
  <1>2. BackupInv(q)'
    <2>1. pc[q] \in InProgress => begun' = begun
      BY DEF InProgress, Locked
    <2>2. pc[q] = "record" => archive'[Object(q)] = j.id \/ Twin(j.id)'
      BY <1>1, TwinStays DEF BackupInv
    <2>3. QED
      BY <1>1, <2>1, <2>2 DEF BackupInv, Object
  <1>3. PruneInv(q)'
    <2>1. ASSUME pc[q] = "pruneRow", NEW r \in j.todo
          PROVE  /\ r.store = j.store /\ r.id < latest'[r.store] /\ Settled(r.id)' /\ (\E b \in begun' : Of(r, b))
                 /\ \A s \in rows' : s.id = r.id => s = r
      <3>1. /\ r.store = j.store /\ r.id < latest[r.store] /\ Settled(r.id) /\ (\E b \in begun : Of(r, b))
            /\ \A s \in rows : s.id = r.id => s = r
        BY <1>1, <2>1 DEF PruneInv
      <3>2. r \in Backup /\ r.store \in Storages /\ r.id \in Nat /\ latest[r.store] \in Nat
        <4>1. r \in Backup /\ r.store \in Storages /\ r.id \in Nat
          BY <1>1, JobFacts, BackupFacts
        <4>2. latest \in [Storages -> 0..MaxBackups] /\ MaxBackups \in Nat
          BY Constants DEF IInv, DataInv
        <4>3. QED
          BY <4>1, <4>2
      <3>3. r.id < latest'[r.store]
        BY <3>1, <3>2
      <3>4. QED
        BY <3>1, <3>3
    <2>2. pc[q] \in {"pruneRow", "pruneObject"} => \A i \in 1..Len(j.paths) : Lost(j.store, j.paths[i])'
      BY <1>1, LostStays DEF PruneInv
    <2>3. QED
      BY <1>1, <2>1, <2>2 DEF PruneInv
  <1>4. AskedInv(q)'
    <2>1. ASSUME pc[q] \in {"deleteObject", "deleteRow", "download", "apply", "restored"}
          PROVE  \E b \in begun' :
                   /\ b.id = j.id /\ b.key = j.key /\ Fits(j.place, b.store)
                   /\ b.epoch = epoch' => b.place = j.place
                   /\ pc[q] = "deleteRow" /\ faults' = 0 /\ b.epoch = epoch' => archive'[Obj(b)] # b.id
      <3>1. PICK b \in begun : /\ b.id = j.id /\ b.key = j.key /\ Fits(j.place, b.store)
                               /\ b.epoch = epoch => b.place = j.place
                               /\ pc[q] = "deleteRow" /\ faults = 0 /\ b.epoch = epoch => archive[Obj(b)] # b.id
        BY <1>1, <2>1 DEF AskedInv
      <3>2. b.epoch \in Nat /\ b.epoch <= epoch /\ Obj(b) \in Objects /\ Settled(b.id)
        BY <1>1, <2>1, <3>1, BegunFacts DEF AskedInv
      <3>3. epoch \in Nat /\ faults \in Nat /\ (b.epoch = epoch' => b.epoch = epoch) /\ (faults' = 0 => faults = 0)
        BY <3>2, Constants DEF IInv, DataInv
      <3>4. QED
        BY <3>1, <3>2, <3>3
    <2>2. QED
      BY <1>1, <2>1, TwinStays DEF AskedInv
  <1>5. DropInv(q)'
    BY <1>1 DEF DropInv, Locked, Live
  <1>6. QED
    BY <1>2, <1>3, <1>4, <1>5

LEMMA RowsStay ==
  ASSUME IInv, rows' \subseteq rows, clock' \in Nat, clock' >= clock, UNCHANGED latest, begun \subseteq begun',
         \A i : Settled(i) => Settled(i)', \A r \in rows' : Kept(r)'
  PROVE  \A r \in rows' : RowInv(r)'
  <1> SUFFICES ASSUME NEW r \in rows'
               PROVE  RowInv(r)'
    OBVIOUS
  <1>1. RowInv(r) /\ r.at \in Nat
    BY RowFacts, BackupFacts
  <1>2. clock \in Nat
    BY Constants DEF IInv, DataInv, Seconds
  <1>3. QED
    BY <1>1, <1>2 DEF RowInv

LEMMA KeptStays ==
  ASSUME begun \subseteq begun', cut \subseteq cut', NEW r, Kept(r),
         \A q \in Procs : pc[q] = "deleteRow" /\ job[q].id = r.id =>
           (pc'[q] = "deleteRow" /\ job'[q].id = r.id) \/ r.id \in cut',
         archive[<<r.place, r.key>>] = r.id => archive'[<<r.place, r.key>>] = r.id \/ Kept(r)'
  PROVE  Kept(r)'
  <1>1. CASE Twin(r.id)
    <2>1. Twin(r.id)'
      BY <1>1, TwinStays
    <2>2. QED
      BY <2>1 DEF Kept
  <1>2. CASE r.id \in cut
    BY <1>2 DEF Kept
  <1>3. CASE \E p \in Procs : pc[p] = "deleteRow" /\ job[p].id = r.id
    BY <1>3 DEF Kept
  <1>4. CASE archive[<<r.place, r.key>>] = r.id
    BY <1>4 DEF Kept
  <1>5. QED
    BY <1>1, <1>2, <1>3, <1>4 DEF Kept

(* Another backup with the name of a row, or of a backup in progress, in its place. *)
LEMMA RowTwin ==
  ASSUME IInv, NEW b \in begun, NEW r \in rows, r.id # b.id, r.key = b.key, Fits(r.place, b.store)
  PROVE  Twin(r.id)
  <1>1. PICK c \in begun : Of(r, c)
    BY RowFacts DEF RowInv
  <1>2. c.id = r.id /\ c.key = r.key /\ c.place = r.place /\ Fits(c.place, c.store)
    BY <1>1, BegunFacts DEF Of
  <1>3. QED
    BY <1>2, SameObject

LEMMA WorkTwin ==
  ASSUME IInv, NEW q \in Procs, pc[q] \in InProgress, NEW b \in begun, job[q].id # b.id,
         job[q].key = b.key, Fits(job[q].place, b.store)
  PROVE  Twin(job[q].id)
  <1>1. PICK c \in begun : Of(job[q], c)
    BY Facts DEF BackupInv
  <1>2. /\ c.id = job[q].id /\ c.key = job[q].key /\ c.place = job[q].place /\ Fits(c.place, c.store)
    BY <1>1, BegunFacts DEF Of
  <1>3. QED
    BY <1>2, SameObject

(* What archives lose, and no upload ends, leaves them accounted for. *)
LEMMA AccountStays ==
  ASSUME IInv, UNCHANGED <<begun, epoch>>, faults' = 0 => faults = 0,
         faults' = 0 => \A o \in Objects : archive'[o] \in {archive[o], 0},
         faults' = 0 => \A q \in Procs : pc[q] = "upload" => pc'[q] = "upload" /\ job'[q].id = job[q].id,
         \A a \in begun : faults' = 0 /\ a.epoch = epoch /\ archive'[Obj(a)] = a.id /\ Accounted(a) => Accounted(a)'
  PROVE  AccountInv'
  <1> SUFFICES ASSUME faults' = 0, NEW b \in begun, b.epoch = epoch
               PROVE  Ours(b)' /\ (archive'[Obj(b)] = b.id => Accounted(b)')
    BY DEF AccountInv, Obj
  <1>1. Obj(b) \in Objects /\ b.id # 0 /\ archive'[Obj(b)] \in {archive[Obj(b)], 0}
    BY BegunFacts
  <1>2. Ours(b) /\ (archive[Obj(b)] = b.id => Accounted(b))
    BY DEF IInv, AccountInv
  <1>3. Ours(b)'
    BY <1>1, <1>2 DEF Ours, Obj
  <1>4. archive'[Obj(b)] = b.id => Accounted(b)'
    BY <1>1, <1>2
  <1>5. QED
    BY <1>3, <1>4

(* A step of a request that begins and records no backup. *)
LEMMA Proceeds ==
  ASSUME IInv, NEW p \in Procs, NEW l \in Labels \ InProgress, NEW k \in Job,
         pc' = [pc EXCEPT ![p] = l], job' = [job EXCEPT ![p] = k], UNCHANGED <<owner, clock, past>>,
         lock' \in BOOLEAN, LockInv',
         content' \in 0..Partial, content' = content \/ pc[p] \in Locked,
         faults' \in 0..MaxFaults, faults' >= faults,
         rows' \subseteq rows, \A r \in rows' : Kept(r)',
         archive' \in [Objects -> 0..Partial],
         \A o \in Objects : archive'[o] \in {archive[o], 0} \/ (archive'[o] = Partial /\ faults' # 0),
         \A q \in Procs \ {p} : pc[q] = "record" =>
           archive'[Object(q)] = archive[Object(q)] \/ Twin(job[q].id),
         pc[p] = "upload" => faults' # 0,
         \A a \in begun : faults' = 0 /\ a.epoch = epoch /\ archive'[Obj(a)] = a.id /\ Accounted(a) => Accounted(a)',
         PruneInv(p)', AskedInv(p)', DropInv(p)'
  PROVE  IInv'
  <1>1. /\ pc'[p] = l /\ job'[p] = k /\ pc' \in [Procs -> Labels] /\ job' \in [Procs -> Job]
        /\ \A q \in Procs \ {p} : pc'[q] = pc[q] /\ job'[q] = job[q]
    BY DEF IInv, DataInv
  <1>2. /\ begun' = begun /\ epoch' = epoch /\ latest' = latest /\ cut' = cut
        /\ owner' = owner /\ clock' = clock
    BY DEF past
  <1>3. DataInv'
    BY <1>1, <1>2 DEF IInv, DataInv
  <1>4. BegunInv'
    BY <1>2 DEF IInv, BegunInv, Live, Place
  <1>5. \A i : Settled(i) => Settled(i)'
    BY <1>1, <1>2, SettledStays
  <1>6. clock \in Nat /\ epoch \in Nat /\ faults \in Nat /\ faults' \in Nat
    BY Constants DEF IInv, DataInv, Seconds
  <1>7. \A r \in rows' : RowInv(r)'
    BY <1>2, <1>5, <1>6, RowsStay
  <1>8. \A i : Settled(i) => i \in Ids
    BY BegunFacts DEF Settled
  <1>9. \A o \in Objects : Settled(archive'[o]) => archive'[o] = archive[o]
    BY <1>8, Constants
  <1>10. \A s \in Storages : latest'[s] \in Nat /\ latest'[s] >= latest[s]
    <2>1. \A s \in Storages : latest[s] \in Nat
      BY Constants DEF IInv, DataInv
    <2>2. QED
      BY <1>2, <2>1
  <1>11. ASSUME NEW q \in Procs
         PROVE  BackupInv(q)' /\ PruneInv(q)' /\ AskedInv(q)' /\ DropInv(q)'
    <2>1. CASE q = p
      <3>1. BackupInv(p)'
        BY <1>1 DEF BackupInv, InProgress
      <3>2. QED
        BY <2>1, <3>1
    <2>2. CASE q # p
      <3>1. pc[q] = "restored" => content' = content
        BY <2>2 DEF IInv, LockInv, Locked
      <3>2. QED
        BY <1>1, <1>2, <1>5, <1>6, <1>9, <1>10, <2>2, <3>1, WorkStays
    <2>3. QED
      BY <2>1, <2>2
  <1>12. ArchiveInv'
    <2>1. \A o \in Objects : archive'[o] \in Ids => archive'[o] = archive[o]
      BY Constants
    <2>2. faults' = 0 => faults = 0
      BY <1>6
    <2>3. ASSUME NEW o \in Objects
          PROVE  /\ archive'[o] \in Ids => \E b \in begun' : b.id = archive'[o] /\ Obj(b) = o
                 /\ faults' = 0 => archive'[o] # Partial
      <3>1. /\ archive[o] \in Ids => \E b \in begun : b.id = archive[o] /\ Obj(b) = o
            /\ faults = 0 => archive[o] # Partial
        BY DEF IInv, ArchiveInv
      <3>2. archive'[o] \in Ids => \E b \in begun' : b.id = archive'[o] /\ Obj(b) = o
        BY <1>2, <2>1, <3>1
      <3>3. faults' = 0 => archive'[o] # Partial
        <4>1. Partial # 0
          BY Constants
        <4>2. QED
          BY <2>2, <3>1, <4>1
      <3>4. QED
        BY <3>2, <3>3
    <2>4. QED
      BY <2>3 DEF ArchiveInv, Obj
  <1>13. AccountInv'
    <2>1. faults' = 0 => \A q \in Procs : pc[q] = "upload" => pc'[q] = "upload" /\ job'[q].id = job[q].id
      BY <1>1
    <2>2. QED
      BY <1>2, <1>6, <2>1, AccountStays
  <1>14. QED
    BY <1>3, <1>4, <1>7, <1>11, <1>12, <1>13 DEF IInv

(* A request that is done. *)
LEMMA Done ==
  ASSUME NEW p, pc'[p] = "idle"
  PROVE  PruneInv(p)' /\ AskedInv(p)' /\ DropInv(p)'
  BY DEF PruneInv, AskedInv, DropInv, InProgress

(* A step that changes no row and no archive. *)
LEMMA Quiet ==
  ASSUME IInv, NEW p \in Procs, pc[p] \notin {"upload", "deleteRow"},
         NEW l \in Labels \ InProgress, NEW k \in Job,
         pc' = [pc EXCEPT ![p] = l], job' = [job EXCEPT ![p] = k],
         UNCHANGED <<owner, rows, archive, clock, past>>,
         lock' \in BOOLEAN, LockInv',
         content' \in 0..Partial, content' = content \/ pc[p] \in Locked,
         faults' \in 0..MaxFaults, faults' >= faults,
         \A a \in begun : a.epoch = epoch /\ Answers(p, a) => Answers(p, a)',
         PruneInv(p)', AskedInv(p)', DropInv(p)'
  PROVE  IInv'
  <1>1. /\ pc'[p] = l /\ job'[p] = k
        /\ \A q \in Procs \ {p} : pc'[q] = pc[q] /\ job'[q] = job[q]
    BY DEF IInv, DataInv
  <1>2. \A r \in rows' : Kept(r)'
    <2>1. ASSUME NEW r \in rows
          PROVE  Kept(r)'
      <3>1. Kept(r) /\ begun' = begun /\ cut' = cut
        BY RowFacts DEF RowInv, past
      <3>2. \A q \in Procs : pc[q] = "deleteRow" => pc'[q] = pc[q] /\ job'[q] = job[q]
        BY <1>1
      <3>3. QED
        BY <3>1, <3>2, KeptStays
    <2>2. QED
      BY <2>1
  <1>3. ASSUME NEW a \in begun, a.epoch = epoch, Accounted(a)
        PROVE  Accounted(a)'
    <2>1. \A q \in Procs \ {p} : Answers(q, a) => Answers(q, a)'
      BY <1>1 DEF Answers
    <2>2. QED
      BY <1>3, <2>1 DEF Accounted
  <1>4. archive \in [Objects -> 0..Partial]
    BY DEF IInv, DataInv
  <1>5. QED
    BY <1>2, <1>3, <1>4, Proceeds

---------------------------------------------------------------------------------
(* Retention. *)

(* What is old has a newer one. *)
LEMMA OldFacts ==
  ASSUME IInv, NEW store \in Storages, NEW keep \in Keeps, NEW r \in Old(store, keep)
  PROVE  r \in rows /\ r.store = store /\ r.id < latest[store]
  <1> DEFINE N == {n \in In(store) : n.at > r.at \/ (n.at = r.at /\ n.id > r.id)}
  <1>1. r \in rows /\ r.store = store /\ Cardinality(N) >= keep
    BY DEF Old, In
  <1>2. keep \in Nat /\ keep # 0
    BY KeepsAssumption
  <1>3. N # {}
    <2>1. Cardinality({}) = 0
      BY FS_EmptySet
    <2> HIDE DEF N
    <2>2. QED
      BY <1>1, <1>2, <2>1
  <1>4. PICK n \in rows : n.store = store /\ (n.at > r.at \/ (n.at = r.at /\ n.id > r.id))
    BY <1>3 DEF In
  <1>5. r.id \in Nat /\ n.id \in Nat
    BY <1>1, <1>4, RowFacts, BackupFacts
  <1>6. n.id > r.id /\ n.id <= latest[store]
    BY <1>1, <1>4, RowFacts DEF RowInv
  <1>7. latest[store] \in Nat
    BY Constants DEF IInv, DataInv
  <1>8. QED
    BY <1>1, <1>5, <1>6, <1>7

LEMMA PruneSelectStep ==
  ASSUME IInv, NEW p \in Procs, PruneSelect(p)
  PROVE  IInv'
  <1> DEFINE j == job[p]
             k == [j EXCEPT !.todo = Old(j.store, j.keep)]
  <1>1. /\ pc[p] = "pruneSelect" /\ pc' = [pc EXCEPT ![p] = "pruneRow"]
        /\ UNCHANGED <<lock, owner, content, rows, archive, clock, faults, past>>
    BY DEF PruneSelect, At, Goto
  <1>2. job' = [job EXCEPT ![p] = k]
    BY DEF PruneSelect
  <1>3. DataInv /\ LockInv /\ PruneInv(p) /\ j \in Job
    BY Facts
  <1>4. j.store \in Storages /\ j.paths = <<>> /\ j.keep \in Keeps
    BY <1>1, <1>3, JobFacts DEF PruneInv
  <1>5. /\ k \in Job /\ k.store = j.store /\ k.paths = <<>> /\ k.todo = Old(j.store, j.keep)
    <2>1. Old(j.store, j.keep) \subseteq Backup
      BY <1>3 DEF Old, In, DataInv
    <2> DEFINE T == Old(j.store, j.keep)
    <2> HIDE DEF T
    <2>2. QED
      BY <1>3, <1>4, <2>1 DEF Job, T
  <1> HIDE DEF j, k
  <1>6. /\ pc'[p] = "pruneRow" /\ job'[p] = k /\ begun' = begun /\ latest' = latest
        /\ \A q \in Procs \ {p} : pc'[q] = pc[q] /\ job'[q] = job[q]
    BY <1>1, <1>2, <1>3 DEF DataInv, past
  <1>7. LockInv'
    BY <1>1, <1>3, LockMoves DEF DataInv, Locked
  <1>8. \A i : Settled(i) => Settled(i)'
    BY <1>1, <1>6, SettledStays DEF InProgress
  <1>9. PruneInv(p)'
    <2>1. ASSUME NEW r \in k.todo
          PROVE  /\ r.store = k.store /\ r.id < latest'[r.store] /\ Settled(r.id)' /\ (\E b \in begun' : Of(r, b))
                 /\ \A s \in rows' : s.id = r.id => s = r
      <3>1. r \in rows /\ r.store = j.store /\ r.id < latest[j.store]
        BY <1>4, <1>5, OldFacts
      <3>2. RowInv(r)
        BY <3>1, RowFacts
      <3>3. Settled(r.id) /\ (\E b \in begun : Of(r, b)) /\ \A s \in rows : r.id = s.id => r = s
        BY <3>2 DEF RowInv
      <3>4. QED
        BY <1>1, <1>5, <1>6, <1>8, <3>1, <3>3
    <2>2. \A i \in 1..Len(k.paths) : FALSE
      BY <1>5
    <2>3. QED
      BY <1>4, <1>5, <1>6, <2>1, <2>2 DEF PruneInv, InProgress
  <1>10. AskedInv(p)' /\ DropInv(p)'
    BY <1>6 DEF AskedInv, DropInv
  <1>11. \A a \in begun : ~Answers(p, a)
    BY <1>1 DEF Answers
  <1>12. /\ lock' \in BOOLEAN /\ content' \in 0..Partial /\ faults' \in 0..MaxFaults /\ faults' >= faults
    BY <1>1, <1>3, Constants DEF DataInv
  <1>13. QED
    BY <1>1, <1>2, <1>5, <1>7, <1>9, <1>10, <1>11, <1>12, Quiet DEF Labels, Locked, InProgress

LEMMA Longer ==
  ASSUME NEW q \in Seq(Seconds), NEW x \in Seconds
  PROVE  /\ Append(q, x) \in Seq(Seconds) /\ Append(q, x) # <<>> /\ Has(Append(q, x), x)
         /\ \A y : Has(q, y) => Has(Append(q, x), y)
         /\ \A i \in 1..Len(Append(q, x)) : Append(q, x)[i] = x \/ \E h \in 1..Len(q) : Append(q, x)[i] = q[h]
  <1> DEFINE r == Append(q, x)
  <1>1. /\ r \in Seq(Seconds) /\ Len(r) = Len(q) + 1 /\ r[Len(q) + 1] = x /\ Len(q) \in Nat
        /\ \A i \in 1..Len(q) : r[i] = q[i]
    OBVIOUS
  <1> HIDE DEF r
  <1>2. r # <<>>
    BY <1>1
  <1>3. Has(r, x)
    BY <1>1 DEF Has
  <1>4. \A y : Has(q, y) => Has(r, y)
    BY <1>1 DEF Has
  <1>5. ASSUME NEW i \in 1..Len(r)
        PROVE  r[i] = x \/ \E h \in 1..Len(q) : r[i] = q[h]
    <2>1. i \in 1..Len(q) \/ i = Len(q) + 1
      BY <1>1
    <2>2. QED
      BY <1>1, <2>1
  <1>6. QED
    BY <1>1, <1>2, <1>3, <1>4, <1>5 DEF r

LEMMA Shorter ==
  ASSUME NEW q \in Seq(Seconds), q # <<>>
  PROVE  /\ Tail(q) \in Seq(Seconds) /\ Head(q) \in Seconds /\ Has(q, Head(q))
         /\ 1 \in 1..Len(q) /\ Head(q) = q[1]
         /\ \A y : Has(q, y) => y = Head(q) \/ Has(Tail(q), y)
         /\ \A i \in 1..Len(Tail(q)) : \E h \in 1..Len(q) : Tail(q)[i] = q[h]
  <1>1. /\ Tail(q) \in Seq(Seconds) /\ Len(Tail(q)) = Len(q) - 1 /\ Len(q) \in Nat /\ Len(q) > 0
        /\ Head(q) \in Seconds /\ Head(q) = q[1] /\ \A i \in 1..Len(q) - 1 : Tail(q)[i] = q[i + 1]
    OBVIOUS
  <1>2. Has(q, Head(q))
    BY <1>1 DEF Has
  <1>3. ASSUME NEW y, Has(q, y), y # Head(q)
        PROVE  Has(Tail(q), y)
    <2>1. PICK i \in 1..Len(q) : q[i] = y
      BY <1>3 DEF Has
    <2>2. i - 1 \in 1..Len(Tail(q)) /\ Tail(q)[i - 1] = y
      BY <1>1, <1>3, <2>1
    <2>3. QED
      BY <2>2 DEF Has
  <1>4. ASSUME NEW i \in 1..Len(Tail(q))
        PROVE  \E h \in 1..Len(q) : Tail(q)[i] = q[h]
    <2>1. i + 1 \in 1..Len(q) /\ Tail(q)[i] = q[i + 1]
      BY <1>1
    <2>2. QED
      BY <2>1
  <1>5. QED
    BY <1>1, <1>2, <1>3, <1>4

LEMMA PruneRowStep ==
  ASSUME IInv, NEW p \in Procs, PruneRow(p)
  PROVE  IInv'
  <1>1. PICK j \in Job : j = job[p]
    BY Facts
  <1>2. PICK r \in j.todo :
          /\ pc[p] = "pruneRow" /\ pc' = pc /\ rows' = rows \ {r}
          /\ job' = [job EXCEPT ![p].todo = @ \ {r}, ![p].paths = Append(@, r.key)]
          /\ UNCHANGED <<lock, owner, content, archive, clock, faults, past>>
    BY <1>1 DEF PruneRow, At
  <1>3. DataInv /\ LockInv /\ PruneInv(p)
    BY Facts
  <1>4. j.store \in Storages /\ j.paths \in Seq(Seconds) /\ r \in Backup /\ r.key \in Seconds
    BY <1>1, <1>2, <1>3, JobFacts, BackupFacts DEF PruneInv
  <1>5. Append(j.paths, r.key) \in Seq(Seconds)
    BY <1>4
  <1>6. PICK k \in Job : /\ job' = [job EXCEPT ![p] = k] /\ k.store = j.store
                         /\ k.paths = Append(j.paths, r.key) /\ k.todo = j.todo \ {r}
    <2> DEFINE k == [[j EXCEPT !.todo = @ \ {r}] EXCEPT !.paths = Append(j.paths, r.key)]
    <2>1. job' = [job EXCEPT ![p] = k]
      BY <1>1, <1>2, <1>3 DEF DataInv, Job
    <2>2. k \in Job /\ k.store = j.store /\ k.paths = Append(j.paths, r.key) /\ k.todo = j.todo \ {r}
      BY <1>5 DEF Job
    <2> HIDE DEF k
    <2>3. QED
      BY <2>1, <2>2
  <1>7. /\ pc'[p] = "pruneRow" /\ job'[p] = k /\ begun' = begun /\ latest' = latest /\ cut' = cut
        /\ pc' = [pc EXCEPT ![p] = "pruneRow"]
        /\ \A q \in Procs \ {p} : pc'[q] = pc[q] /\ job'[q] = job[q]
    BY <1>2, <1>3, <1>6 DEF DataInv, past
  <1>8. LockInv'
    BY <1>2, <1>3 DEF LockInv
  <1>9. \A i : Settled(i) => Settled(i)'
    BY <1>1, <1>2, <1>7, SettledStays DEF InProgress
  <1>10. /\ r.store = j.store /\ Settled(r.id) /\ \A s \in rows : s.id = r.id => s = r
         /\ \E b \in begun : Of(r, b)
    BY <1>1, <1>2, <1>3 DEF PruneInv
  <1>11. PICK b \in begun : Of(r, b)
    BY <1>10
  <1>12. b.id = r.id /\ b.store = j.store /\ b.key = r.key /\ (\A s \in rows' : s.id # b.id)
    BY <1>1, <1>2, <1>10, <1>11 DEF Of
  <1>13. PruneInv(p)'
    <2>1. ASSUME NEW s \in k.todo
          PROVE  /\ s.store = k.store /\ s.id < latest'[s.store] /\ Settled(s.id)' /\ (\E c \in begun' : Of(s, c))
                 /\ \A t \in rows' : t.id = s.id => t = s
      <3>1. s \in j.todo
        BY <1>6
      <3>2. /\ s.store = j.store /\ s.id < latest[s.store] /\ Settled(s.id) /\ (\E c \in begun : Of(s, c))
            /\ \A t \in rows : t.id = s.id => t = s
        BY <1>1, <1>2, <1>3, <3>1 DEF PruneInv
      <3>3. QED
        BY <1>1, <1>2, <1>6, <1>7, <1>9, <3>2
    <2>2. Lost(j.store, r.key)'
      BY <1>7, <1>9, <1>10, <1>12 DEF Lost
    <2>3. \A i \in 1..Len(j.paths) : Lost(j.store, j.paths[i])'
      <3>1. \A i \in 1..Len(j.paths) : Lost(j.store, j.paths[i])
        BY <1>1, <1>2, <1>3 DEF PruneInv
      <3>2. QED
        BY <1>1, <1>2, <1>7, <1>9, <3>1, LostStays
    <2>4. ASSUME NEW i \in 1..Len(k.paths)
          PROVE  Lost(k.store, k.paths[i])'
      <3>1. k.paths[i] = r.key \/ \E h \in 1..Len(j.paths) : k.paths[i] = j.paths[h]
        BY <1>4, <1>6, Longer
      <3>2. QED
        BY <1>6, <2>2, <2>3, <3>1
    <2>5. QED
      BY <1>4, <1>6, <1>7, <2>1, <2>4 DEF PruneInv, InProgress
  <1>14. AskedInv(p)' /\ DropInv(p)'
    BY <1>7 DEF AskedInv, DropInv
  <1>15. ASSUME NEW s \in rows'
         PROVE  Kept(s)'
    <2>1. Kept(s)
      BY <1>1, <1>2, RowFacts DEF RowInv
    <2>2. \A q \in Procs : pc[q] = "deleteRow" => pc'[q] = pc[q] /\ job'[q] = job[q]
      BY <1>1, <1>2, <1>7
    <2>3. QED
      BY <1>1, <1>2, <1>7, <2>1, <2>2, KeptStays
  <1>16. ASSUME NEW a \in begun, Accounted(a)
         PROVE  Accounted(a)'
    <2>1. CASE \E s \in rows : s.id = a.id
      <3>1. CASE r.id = a.id
        <4>1. a = b
          BY <1>12, <3>1 DEF IInv, BegunInv
        <4>2. Answers(p, a)'
          <5>1. Has(k.paths, a.key) /\ k.store = a.store
            BY <1>4, <1>6, <1>12, <4>1, Longer
          <5>2. QED
            BY <1>7, <5>1 DEF Answers
        <4>3. QED
          BY <4>2 DEF Accounted
      <3>2. CASE r.id # a.id
        BY <1>1, <1>2, <2>1, <3>2 DEF Accounted
      <3>3. QED
        BY <3>1, <3>2
    <2>2. CASE \E q \in Procs : Answers(q, a)
      <3>1. PICK q \in Procs : Answers(q, a)
        BY <2>2
      <3>2. CASE q = p
        <4>1. Has(k.paths, a.key) /\ j.store = a.store
          BY <1>1, <1>2, <1>4, <1>6, <3>1, <3>2, Longer DEF Answers
        <4>2. QED
          BY <1>6, <1>7, <4>1 DEF Accounted, Answers
      <3>3. CASE q # p
        BY <1>7, <3>1, <3>3 DEF Accounted, Answers
      <3>4. QED
        BY <3>2, <3>3
    <2>3. QED
      BY <1>16, <2>1, <2>2 DEF Accounted
  <1>17. /\ lock' \in BOOLEAN /\ content' \in 0..Partial /\ faults' \in 0..MaxFaults /\ faults' >= faults
         /\ archive' \in [Objects -> 0..Partial]
    BY <1>1, <1>2, <1>3, Constants DEF DataInv
  <1>18. QED
    BY <1>1, <1>2, <1>3, <1>6, <1>7, <1>8, <1>13, <1>14, <1>15, <1>16, <1>17, Proceeds DEF Labels, Locked, InProgress

LEMMA PruneOpenStep ==
  ASSUME IInv, NEW p \in Procs, PruneOpen(p)
  PROVE  IInv'
  <1>1. PICK j \in Job : j = job[p]
    BY Facts
  <1>2. /\ pc[p] = "pruneRow"
        /\ UNCHANGED <<lock, owner, content, rows, archive, clock, faults, past>>
        /\ \/ j.paths = <<>> /\ End(p)
           \/ /\ j.paths # <<>> /\ pc' = [pc EXCEPT ![p] = "pruneObject"]
              /\ job' = [job EXCEPT ![p].place = Place(j.store)]
    BY <1>1 DEF PruneOpen, At, Goto
  <1>3. DataInv /\ LockInv /\ PruneInv(p) /\ BegunInv
    BY Facts
  <1>4. /\ lock' \in BOOLEAN /\ content' \in 0..Partial /\ faults' \in 0..MaxFaults /\ faults' >= faults
        /\ begun' = begun /\ epoch' = epoch
    BY <1>2, <1>3, Constants DEF DataInv, past
  <1>5. CASE j.paths = <<>> /\ End(p)
    <2>1. pc' = [pc EXCEPT ![p] = "idle"] /\ job' = [job EXCEPT ![p] = NoJob] /\ pc'[p] = "idle"
      BY <1>3, <1>5 DEF End, Goto, DataInv
    <2>2. LockInv'
      BY <1>2, <1>3, <2>1, LockMoves DEF DataInv, Locked
    <2>3. \A a : ~Answers(p, a)
      BY <1>1, <1>2, <1>5 DEF Answers, Has
    <2>4. QED
      BY <1>2, <1>4, <2>1, <2>2, <2>3, NoJobFacts, Done, Quiet DEF Labels, Locked, InProgress
  <1>6. CASE /\ j.paths # <<>> /\ pc' = [pc EXCEPT ![p] = "pruneObject"]
             /\ job' = [job EXCEPT ![p].place = Place(j.store)]
    <2>1. j.store \in Storages /\ \A i \in 1..Len(j.paths) : Lost(j.store, j.paths[i])
      BY <1>1, <1>2, <1>3 DEF PruneInv
    <2>2. Place(j.store) \in Places /\ Fits(Place(j.store), j.store)
      BY <1>3, <2>1, PlaceFits DEF DataInv
    <2>3. PICK pl \in Places : pl = Place(j.store)
      BY <2>2
    <2>4. PICK k \in Job : /\ job' = [job EXCEPT ![p] = k] /\ k.store = j.store
                           /\ k.paths = j.paths /\ k.place = pl
      <3> DEFINE k == [j EXCEPT !.place = pl]
      <3>1. job' = [job EXCEPT ![p] = k]
        BY <1>1, <1>3, <1>6, <2>3 DEF DataInv, Job
      <3>2. k \in Job /\ k.store = j.store /\ k.paths = j.paths /\ k.place = pl
        BY DEF Job
      <3> HIDE DEF k
      <3>3. QED
        BY <3>1, <3>2
    <2>5. /\ pc'[p] = "pruneObject" /\ job'[p] = k
          /\ \A q \in Procs \ {p} : pc'[q] = pc[q] /\ job'[q] = job[q]
      BY <1>3, <1>6, <2>4 DEF DataInv
    <2>6. LockInv'
      BY <1>2, <1>3, <1>6, LockMoves DEF DataInv, Locked
    <2>7. \A i : Settled(i) => Settled(i)'
      BY <1>2, <1>4, <2>5, SettledStays DEF InProgress
    <2>8. \A i \in 1..Len(j.paths) : Lost(j.store, j.paths[i])'
      BY <1>2, <1>4, <2>1, <2>7, LostStays
    <2>9. PruneInv(p)'
      BY <1>6, <2>1, <2>2, <2>3, <2>4, <2>5, <2>8 DEF PruneInv, InProgress
    <2>10. AskedInv(p)' /\ DropInv(p)'
      BY <2>5 DEF AskedInv, DropInv
    <2>11. ASSUME NEW a \in begun, a.epoch = epoch, Answers(p, a)
           PROVE  Answers(p, a)'
      <3>1. j.store = a.store /\ Has(j.paths, a.key)
        BY <1>1, <1>2, <2>11 DEF Answers
      <3>2. a.place = pl
        BY <2>3, <2>11, <3>1, BegunFacts
      <3>3. QED
        BY <2>4, <2>5, <3>1, <3>2 DEF Answers
    <2>12. QED
      BY <1>2, <1>4, <1>6, <2>4, <2>6, <2>9, <2>10, <2>11, Quiet DEF Labels, Locked, InProgress
  <1>7. QED
    BY <1>2, <1>5, <1>6

(* An archive that is deleted, under a name that a lost or asked for backup has there. *)
LEMMA EmptiedFacts ==
  ASSUME IInv, NEW place \in Places, NEW key \in Seconds,
         NEW b \in begun, b.key = key, Fits(place, b.store), Settled(b.id),
         archive' \in {archive, [archive EXCEPT ![<<place, key>>] = 0]},
         begun' = begun, cut' = cut,
         \A q \in Procs : pc[q] = "deleteRow" => pc'[q] = pc[q] /\ job'[q] = job[q],
         \A r \in rows : r.id = b.id => Kept(r)'
  PROVE  /\ archive' \in [Objects -> 0..Partial]
         /\ \A o \in Objects : archive'[o] \in {archive[o], 0}
         /\ \A r \in rows : Kept(r)'
         /\ \A q \in Procs : pc[q] = "record" =>
              archive'[Object(q)] = archive[Object(q)] \/ Twin(job[q].id)
  <1>1. archive \in [Objects -> 0..Partial] /\ 0 \in 0..Partial
    BY Constants DEF IInv, DataInv
  <1>2. archive' \in [Objects -> 0..Partial]
    BY <1>1
  <1>3. \A o \in Objects : archive'[o] \in {archive[o], 0} /\ (o # <<place, key>> => archive'[o] = archive[o])
    BY <1>1
  <1>4. ASSUME NEW r \in rows, r.id # b.id
        PROVE  Kept(r)'
    <2>1. Kept(r) /\ <<r.place, r.key>> \in Objects
      BY RowFacts, BackupFacts DEF RowInv
    <2>2. CASE <<r.place, r.key>> = <<place, key>>
      <3>1. Twin(r.id)
        BY <1>4, <2>2, RowTwin
      <3>2. Twin(r.id)'
        BY <3>1, TwinStays
      <3>3. QED
        BY <3>2 DEF Kept
    <2>3. CASE <<r.place, r.key>> # <<place, key>>
      BY <1>3, <2>1, <2>3, KeptStays
    <2>4. QED
      BY <2>2, <2>3
  <1>5. ASSUME NEW q \in Procs, pc[q] = "record"
        PROVE  archive'[Object(q)] = archive[Object(q)] \/ Twin(job[q].id)
    <2>1. Object(q) \in Objects
      BY Facts, JobFacts DEF Object, Objects
    <2>2. CASE Object(q) = <<place, key>>
      <3>1. job[q].id # b.id /\ job[q].key = b.key /\ Fits(job[q].place, b.store)
        BY <1>5, <2>2 DEF Settled, InProgress, Object
      <3>2. QED
        BY <1>5, <3>1, WorkTwin DEF InProgress
    <2>3. CASE Object(q) # <<place, key>>
      BY <1>3, <2>1, <2>3
    <2>4. QED
      BY <2>2, <2>3
  <1>6. QED
    BY <1>2, <1>3, <1>4, <1>5

LEMMA PruneObjectStep ==
  ASSUME IInv, NEW p \in Procs, PruneObject(p)
  PROVE  IInv'
  <1>1. PICK j \in Job : j = job[p]
    BY Facts
  <1>2. /\ pc[p] = "pruneObject" /\ UNCHANGED <<lock, owner, content, rows, clock, past>>
        /\ \/ faults' = faults /\ archive' = [archive EXCEPT ![<<j.place, Head(j.paths)>>] = 0]
           \/ faults' = faults + 1 /\ faults < MaxFaults /\ archive' = archive
        /\ \/ Tail(j.paths) = <<>> /\ End(p)
           \/ Tail(j.paths) # <<>> /\ UNCHANGED pc /\ job' = [job EXCEPT ![p].paths = Tail(j.paths)]
    BY <1>1 DEF PruneObject, At, Works, Fault
  <1>3. DataInv /\ LockInv /\ PruneInv(p)
    BY Facts
  <1>4. /\ j.store \in Storages /\ j.place \in Places /\ j.paths \in Seq(Seconds) /\ j.paths # <<>>
        /\ Fits(j.place, j.store) /\ \A i \in 1..Len(j.paths) : Lost(j.store, j.paths[i])
    BY <1>1, <1>2, <1>3, JobFacts DEF PruneInv
  <1>5. PICK x \in Seconds : x = Head(j.paths) /\ Lost(j.store, x)
    BY <1>4, Shorter
  <1>6. PICK b \in begun : b.store = j.store /\ b.key = x /\ Settled(b.id) /\ \A r \in rows : r.id # b.id
    BY <1>5 DEF Lost
  <1>7. /\ begun' = begun /\ cut' = cut /\ latest' = latest /\ lock' \in BOOLEAN /\ content' \in 0..Partial
        /\ faults' \in 0..MaxFaults /\ faults' >= faults /\ (faults' = 0 => archive' = [archive EXCEPT ![<<j.place, x>>] = 0])
    BY <1>2, <1>3, <1>5, Constants DEF DataInv, past
  <1>8. \A q \in Procs \ {p} : pc'[q] = pc[q] /\ job'[q] = job[q]
    BY <1>2, <1>3 DEF DataInv, End, Goto
  <1>9. /\ archive' \in [Objects -> 0..Partial] /\ \A o \in Objects : archive'[o] \in {archive[o], 0}
        /\ \A r \in rows' : Kept(r)'
        /\ \A q \in Procs : pc[q] = "record" => archive'[Object(q)] = archive[Object(q)] \/ Twin(job[q].id)
    <2>1. archive' \in {archive, [archive EXCEPT ![<<j.place, x>>] = 0]}
      BY <1>2, <1>5
    <2>2. \A q \in Procs : pc[q] = "deleteRow" => pc'[q] = pc[q] /\ job'[q] = job[q]
      BY <1>2, <1>8
    <2>3. Fits(j.place, b.store) /\ rows' = rows
      BY <1>2, <1>4, <1>6
    <2>4. QED
      BY <1>4, <1>6, <1>7, <2>1, <2>2, <2>3, EmptiedFacts
  <1>10. ASSUME NEW a \in begun, faults' = 0, archive'[Obj(a)] = a.id, Answers(p, a)
         PROVE  Has(Tail(j.paths), a.key) /\ j.place = a.place
    <2>1. j.place = a.place /\ Has(j.paths, a.key)
      BY <1>1, <1>2, <1>10 DEF Answers
    <2>2. a.key # x
      BY <1>3, <1>7, <1>10, <2>1, BegunFacts DEF Obj, DataInv
    <2>3. QED
      BY <1>4, <1>5, <2>1, <2>2, Shorter
  <1>11. CASE Tail(j.paths) = <<>> /\ End(p)
    <2>1. pc' = [pc EXCEPT ![p] = "idle"] /\ job' = [job EXCEPT ![p] = NoJob] /\ pc'[p] = "idle"
      BY <1>3, <1>11 DEF End, Goto, DataInv
    <2>2. LockInv'
      BY <1>2, <1>3, <2>1, LockMoves DEF DataInv, Locked
    <2>3. ASSUME NEW a \in begun, faults' = 0, archive'[Obj(a)] = a.id, Accounted(a)
          PROVE  Accounted(a)'
      <3>1. ~Answers(p, a)
        BY <1>10, <1>11, <2>3 DEF Has
      <3>2. \A q \in Procs \ {p} : Answers(q, a) => Answers(q, a)'
        BY <1>8 DEF Answers
      <3>3. QED
        BY <1>2, <2>3, <3>1, <3>2 DEF Accounted
    <2>4. QED
      BY <1>2, <1>7, <1>9, <2>1, <2>2, <2>3, NoJobFacts, Done, Proceeds DEF Labels, Locked, InProgress
  <1>12. CASE Tail(j.paths) # <<>> /\ UNCHANGED pc /\ job' = [job EXCEPT ![p].paths = Tail(j.paths)]
    <2>1. PICK k \in Job : /\ job' = [job EXCEPT ![p] = k] /\ k.store = j.store /\ k.place = j.place
                           /\ k.paths = Tail(j.paths)
      <3> DEFINE k == [j EXCEPT !.paths = Tail(j.paths)]
      <3>1. job' = [job EXCEPT ![p] = k]
        BY <1>1, <1>3, <1>12 DEF DataInv, Job
      <3>2. Tail(j.paths) \in Seq(Seconds)
        BY <1>4, Shorter
      <3>3. k \in Job /\ k.store = j.store /\ k.place = j.place /\ k.paths = Tail(j.paths)
        BY <3>2 DEF Job
      <3> HIDE DEF k
      <3>4. QED
        BY <3>1, <3>3
    <2>2. /\ pc' = [pc EXCEPT ![p] = "pruneObject"] /\ pc'[p] = "pruneObject" /\ job'[p] = k
      BY <1>2, <1>3, <1>12, <2>1 DEF DataInv
    <2>3. LockInv'
      BY <1>2, <1>3, <2>2, LockMoves DEF DataInv, Locked
    <2>4. \A i : Settled(i) => Settled(i)'
      BY <1>2, <1>7, <1>8, <2>2, SettledStays DEF InProgress
    <2>5. \A i \in 1..Len(j.paths) : Lost(j.store, j.paths[i])'
      BY <1>2, <1>4, <1>7, <2>4, LostStays
    <2>6. PruneInv(p)'
      <3>1. \A i \in 1..Len(k.paths) : Lost(k.store, k.paths[i])'
        BY <1>4, <2>1, <2>5, Shorter
      <3>2. QED
        BY <1>4, <1>12, <2>1, <2>2, <3>1 DEF PruneInv, InProgress
    <2>7. AskedInv(p)' /\ DropInv(p)'
      BY <2>2 DEF AskedInv, DropInv
    <2>8. ASSUME NEW a \in begun, faults' = 0, archive'[Obj(a)] = a.id, Accounted(a)
          PROVE  Accounted(a)'
      <3>1. Answers(p, a) => Answers(p, a)'
        BY <1>10, <2>1, <2>2, <2>8 DEF Answers
      <3>2. \A q \in Procs \ {p} : Answers(q, a) => Answers(q, a)'
        BY <1>8 DEF Answers
      <3>3. QED
        BY <1>2, <2>8, <3>1, <3>2 DEF Accounted
    <2>9. QED
      BY <1>2, <1>7, <1>9, <2>1, <2>2, <2>3, <2>6, <2>7, <2>8, Proceeds DEF Labels, Locked, InProgress
  <1>13. QED
    BY <1>2, <1>11, <1>12

---------------------------------------------------------------------------------
(* Deletes and restores. *)

LEMMA FetchFacts ==
  ASSUME IInv, NEW r \in rows
  PROVE  /\ Fetch(r) \in Job /\ Fetch(r).id = r.id /\ Fetch(r).key = r.key
         /\ Fetch(r).place = Place(r.store) /\ Place(r.store) \in Places /\ Fits(Place(r.store), r.store)
  <1>1. r.id \in 0..MaxBackups /\ r.key \in Seconds /\ r.store \in Storages
    BY RowFacts, BackupFacts
  <1>2. Place(r.store) \in Places /\ Fits(Place(r.store), r.store)
    BY <1>1, PlaceFits DEF IInv, DataInv
  <1>3. PICK place \in Places : place = Place(r.store)
    BY <1>2
  <1>4. Fetch(r) = [NoJob EXCEPT !.id = r.id, !.key = r.key, !.place = place]
    BY <1>3 DEF Fetch
  <1>5. QED
    BY <1>1, <1>2, <1>3, <1>4, NoJobFacts DEF Job

(* A delete or a restore that begins with a row. *)
LEMMA BeginStep ==
  ASSUME IInv, NEW p \in Procs, NEW r \in rows, pc[p] = "idle",
         NEW l \in {"deleteObject", "download"}, lock' \in BOOLEAN, LockInv',
         pc' = [pc EXCEPT ![p] = l], job' = [job EXCEPT ![p] = Fetch(r)],
         UNCHANGED <<owner, content, rows, archive, clock, faults, past>>
  PROVE  IInv'
  <1>1. PICK k \in Job : /\ job' = [job EXCEPT ![p] = k] /\ k.id = r.id /\ k.key = r.key
                         /\ k.place = Place(r.store) /\ Fits(k.place, r.store)
    BY FetchFacts
  <1>2. DataInv /\ begun' = begun /\ epoch' = epoch
    BY DEF IInv, past
  <1>3. pc'[p] = l /\ job'[p] = k /\ \A q \in Procs \ {p} : pc'[q] = pc[q] /\ job'[q] = job[q]
    BY <1>1, <1>2 DEF DataInv
  <1>4. \A i : Settled(i) => Settled(i)'
    BY <1>2, <1>3, SettledStays DEF InProgress
  <1>5. RowInv(r)
    BY RowFacts
  <1>6. PICK b \in begun : Of(r, b)
    BY <1>5 DEF RowInv
  <1>7. /\ b.id = k.id /\ b.key = k.key /\ Fits(k.place, b.store) /\ (b.epoch = epoch => b.place = k.place)
    BY <1>1, <1>6, BegunFacts DEF Of
  <1>8. Settled(k.id)'
    BY <1>1, <1>4, <1>5 DEF RowInv
  <1>9. AskedInv(p)'
    BY <1>2, <1>3, <1>7, <1>8 DEF AskedInv
  <1>10. PruneInv(p)' /\ DropInv(p)'
    BY <1>3 DEF PruneInv, DropInv, InProgress
  <1>11. \A a : ~Answers(p, a)
    BY DEF Answers
  <1>12. content' \in 0..Partial /\ faults' \in 0..MaxFaults /\ faults' >= faults
    BY <1>2, Constants DEF DataInv
  <1>13. QED
    BY <1>1, <1>9, <1>10, <1>11, <1>12, Quiet DEF Labels, Locked, InProgress

LEMMA BeginDeleteStep ==
  ASSUME IInv, NEW p \in Procs, BeginDelete(p)
  PROVE  IInv'
  <1>1. PICK r \in rows : /\ pc[p] = "idle" /\ pc' = [pc EXCEPT ![p] = "deleteObject"]
                          /\ job' = [job EXCEPT ![p] = Fetch(r)]
                          /\ UNCHANGED <<lock, owner, content, rows, archive, clock, faults, past>>
    BY DEF BeginDelete, Start, At, Goto
  <1>2. LockInv' /\ lock' \in BOOLEAN
    BY <1>1, LockMoves DEF IInv, DataInv, Locked
  <1>3. QED
    BY <1>1, <1>2, BeginStep

LEMMA BeginRestoreStep ==
  ASSUME IInv, NEW p \in Procs, BeginRestore(p)
  PROVE  IInv'
  <1>1. PICK r \in rows : /\ pc[p] = "idle" /\ pc' = [pc EXCEPT ![p] = "download"]
                          /\ job' = [job EXCEPT ![p] = Fetch(r)] /\ ~lock /\ lock' = TRUE
                          /\ UNCHANGED <<owner, content, rows, archive, clock, faults, past>>
    BY DEF BeginRestore, Start, At, Goto, Acquire
  <1>2. lock = FALSE
    BY <1>1 DEF IInv, DataInv
  <1>3. LockInv' /\ lock' \in BOOLEAN
    BY <1>1, <1>2, LockMoves DEF IInv, DataInv, Locked
  <1>4. QED
    BY <1>1, <1>3, BeginStep

LEMMA DeleteObjectStep ==
  ASSUME IInv, NEW p \in Procs, DeleteObject(p)
  PROVE  IInv'
  <1>1. PICK j \in Job : j = job[p]
    BY Facts
  <1>2. /\ pc[p] = "deleteObject" /\ pc' = [pc EXCEPT ![p] = "deleteRow"] /\ job' = job
        /\ UNCHANGED <<lock, owner, content, rows, clock, past>>
        /\ \/ faults' = faults /\ archive' = [archive EXCEPT ![<<j.place, j.key>>] = 0]
           \/ faults' = faults + 1 /\ faults < MaxFaults /\ archive' = archive
    BY <1>1 DEF DeleteObject, At, Goto, Keep, Works, Fault, Object
  <1>3. DataInv /\ LockInv /\ AskedInv(p)
    BY Facts
  <1>4. j.place \in Places /\ j.key \in Seconds /\ Settled(j.id)
    BY <1>1, <1>2, <1>3, JobFacts DEF AskedInv
  <1>5. PICK b \in begun : /\ b.id = j.id /\ b.key = j.key /\ Fits(j.place, b.store)
                           /\ b.epoch = epoch => b.place = j.place
    BY <1>1, <1>2, <1>3 DEF AskedInv
  <1>6. /\ job' = [job EXCEPT ![p] = j] /\ pc'[p] = "deleteRow" /\ job'[p] = j
        /\ \A q \in Procs \ {p} : pc'[q] = pc[q] /\ job'[q] = job[q]
    BY <1>1, <1>2, <1>3 DEF DataInv
  <1>7. /\ begun' = begun /\ epoch' = epoch /\ cut' = cut /\ lock' \in BOOLEAN /\ content' \in 0..Partial
        /\ faults' \in 0..MaxFaults /\ faults' >= faults /\ faults \in Nat
        /\ (faults' = 0 => archive' = [archive EXCEPT ![<<j.place, j.key>>] = 0])
    BY <1>2, <1>3, Constants DEF DataInv, past
  <1>8. /\ archive' \in [Objects -> 0..Partial] /\ \A o \in Objects : archive'[o] \in {archive[o], 0}
        /\ \A r \in rows : Kept(r)'
        /\ \A q \in Procs : pc[q] = "record" => archive'[Object(q)] = archive[Object(q)] \/ Twin(job[q].id)
    <2>1. archive' \in {archive, [archive EXCEPT ![<<j.place, j.key>>] = 0]}
      BY <1>2
    <2>2. \A q \in Procs : pc[q] = "deleteRow" => pc'[q] = pc[q] /\ job'[q] = job[q]
      BY <1>2, <1>6
    <2>3. \A r \in rows : r.id = b.id => Kept(r)'
      BY <1>5, <1>6 DEF Kept
    <2>4. Settled(b.id)
      BY <1>4, <1>5
    <2>5. QED
      BY <1>4, <1>5, <1>7, <2>1, <2>2, <2>3, <2>4, EmptiedFacts
  <1>9. LockInv'
    BY <1>2, <1>3, LockMoves DEF DataInv, Locked
  <1>10. AskedInv(p)'
    <2>1. Settled(j.id)'
      BY <1>2, <1>4, <1>6, <1>7, SettledStays DEF InProgress
    <2>2. faults' = 0 /\ b.epoch = epoch => archive'[Obj(b)] # b.id
      <3>1. Obj(b) \in Objects /\ b.id # 0 /\ archive \in [Objects -> 0..Partial]
        BY <1>3, BegunFacts DEF DataInv
      <3>2. QED
        BY <1>5, <1>7, <3>1 DEF Obj
    <2>3. QED
      BY <1>5, <1>6, <1>7, <2>1, <2>2 DEF AskedInv, Obj
  <1>11. PruneInv(p)' /\ DropInv(p)'
    BY <1>6 DEF PruneInv, DropInv, InProgress
  <1>12. ASSUME NEW a \in begun, Accounted(a)
         PROVE  Accounted(a)'
    <2>1. \A q \in Procs : Answers(q, a) => Answers(q, a)'
      BY <1>2, <1>6 DEF Answers
    <2>2. QED
      BY <1>2, <1>12, <2>1 DEF Accounted
  <1>13. QED
    BY <1>2, <1>6, <1>7, <1>8, <1>9, <1>10, <1>11, <1>12, Proceeds DEF Labels, Locked, InProgress

LEMMA DeleteRowStep ==
  ASSUME IInv, NEW p \in Procs, DeleteRow(p)
  PROVE  IInv'
  <1>1. PICK j \in Job : j = job[p]
    BY Facts
  <1>2. /\ pc[p] = "deleteRow" /\ pc' = [pc EXCEPT ![p] = "idle"] /\ job' = [job EXCEPT ![p] = NoJob]
        /\ rows' = {r \in rows : r.id # j.id}
        /\ UNCHANGED <<lock, owner, content, archive, clock, faults, past>>
    BY <1>1 DEF DeleteRow, At, End, Goto
  <1>3. DataInv /\ LockInv /\ AskedInv(p)
    BY Facts
  <1>4. pc'[p] = "idle" /\ \A q \in Procs \ {p} : pc'[q] = pc[q] /\ job'[q] = job[q]
    BY <1>2, <1>3 DEF DataInv
  <1>5. LockInv'
    BY <1>2, <1>3, LockMoves DEF DataInv, Locked
  <1>6. /\ begun' = begun /\ cut' = cut /\ lock' \in BOOLEAN /\ content' \in 0..Partial
        /\ faults' \in 0..MaxFaults /\ faults' >= faults /\ archive' \in [Objects -> 0..Partial]
    BY <1>2, <1>3, Constants DEF DataInv, past
  <1>7. ASSUME NEW r \in rows'
        PROVE  Kept(r)'
    <2>1. r \in rows /\ r.id # j.id
      BY <1>2
    <2>2. Kept(r)
      BY <2>1, RowFacts DEF RowInv
    <2>3. \A q \in Procs : pc[q] = "deleteRow" /\ job[q].id = r.id => pc'[q] = "deleteRow" /\ job'[q].id = r.id
      BY <1>1, <1>4, <2>1
    <2>4. QED
      BY <1>2, <1>6, <2>2, <2>3, KeptStays
  <1>8. ASSUME NEW a \in begun, faults' = 0, a.epoch = epoch, archive'[Obj(a)] = a.id, Accounted(a)
        PROVE  Accounted(a)'
    <2>1. \A q \in Procs : Answers(q, a) => Answers(q, a)'
      BY <1>2, <1>4 DEF Answers
    <2>2. a.id # j.id
      <3>1. PICK b \in begun : b.id = j.id /\ (faults = 0 /\ b.epoch = epoch => archive[Obj(b)] # b.id)
        BY <1>1, <1>2, <1>3 DEF AskedInv
      <3>2. a.id = b.id => a = b
        BY DEF IInv, BegunInv
      <3>3. QED
        BY <1>2, <1>8, <3>1, <3>2
    <2>3. QED
      BY <1>2, <1>8, <2>1, <2>2 DEF Accounted
  <1>9. QED
    BY <1>2, <1>4, <1>5, <1>6, <1>7, <1>8, NoJobFacts, Done, Proceeds DEF Labels, Locked, InProgress

(* A restore that ends, or goes on with the same request. *)
LEMMA RestoreEnds ==
  ASSUME IInv, NEW p \in Procs, pc[p] \in {"download", "apply", "restored"}, Release(p),
         UNCHANGED <<owner, rows, archive, clock, past>>, content' \in 0..Partial,
         faults' \in 0..MaxFaults, faults' >= faults
  PROVE  IInv'
  <1>1. /\ pc' = [pc EXCEPT ![p] = "idle"] /\ job' = [job EXCEPT ![p] = NoJob] /\ lock' = FALSE /\ pc'[p] = "idle"
    BY DEF Release, End, Goto, IInv, DataInv
  <1>2. LockInv'
    BY <1>1, LockMoves DEF IInv, DataInv, Locked
  <1>3. \A a : ~Answers(p, a)
    BY DEF Answers
  <1>4. QED
    BY <1>1, <1>2, <1>3, NoJobFacts, Done, Quiet DEF Labels, Locked, InProgress

LEMMA DownloadStep ==
  ASSUME IInv, NEW p \in Procs, Download(p)
  PROVE  IInv'
  <1>1. PICK j \in Job : j = job[p]
    BY Facts
  <1>2. /\ pc[p] = "download" /\ UNCHANGED <<owner, content, rows, archive, clock, past>>
        /\ \/ /\ archive[<<j.place, j.key>>] \in Ids /\ faults' = faults /\ pc' = [pc EXCEPT ![p] = "apply"]
              /\ lock' = lock /\ job' = [job EXCEPT ![p].got = archive[<<j.place, j.key>>]]
           \/ faults' = faults /\ Release(p)
           \/ faults' = faults + 1 /\ faults < MaxFaults /\ Release(p)
    BY <1>1 DEF Download, At, Goto, Works, Fault, Object
  <1>3. DataInv /\ LockInv /\ AskedInv(p) /\ ArchiveInv
    BY Facts
  <1>4. /\ begun' = begun /\ epoch' = epoch /\ content' \in 0..Partial
        /\ faults' \in 0..MaxFaults /\ faults' >= faults
    BY <1>2, <1>3, Constants DEF DataInv, past
  <1>5. CASE Release(p)
    BY <1>2, <1>4, <1>5, RestoreEnds
  <1>6. CASE /\ archive[<<j.place, j.key>>] \in Ids /\ faults' = faults /\ pc' = [pc EXCEPT ![p] = "apply"]
             /\ lock' = lock /\ job' = [job EXCEPT ![p].got = archive[<<j.place, j.key>>]]
    <2>1. PICK g \in Ids : g = archive[<<j.place, j.key>>]
      BY <1>6
    <2>2. PICK k \in Job : /\ job' = [job EXCEPT ![p] = k] /\ k.id = j.id /\ k.key = j.key
                           /\ k.place = j.place /\ k.got = g
      <3> DEFINE k == [j EXCEPT !.got = g]
      <3>1. job' = [job EXCEPT ![p] = k]
        BY <1>1, <1>3, <1>6, <2>1 DEF DataInv, Job
      <3>2. g \in 0..Partial
        BY Constants
      <3>3. k \in Job /\ k.id = j.id /\ k.key = j.key /\ k.place = j.place /\ k.got = g
        BY <3>2 DEF Job
      <3> HIDE DEF k
      <3>4. QED
        BY <3>1, <3>3
    <2>3. /\ pc'[p] = "apply" /\ job'[p] = k /\ \A q \in Procs \ {p} : pc'[q] = pc[q] /\ job'[q] = job[q]
      BY <1>3, <1>6, <2>2 DEF DataInv
    <2>4. lock = TRUE /\ LockInv' /\ lock' \in BOOLEAN
      <3>1. lock = TRUE
        BY <1>2, <1>3 DEF DataInv, LockInv, Locked
      <3>2. QED
        BY <1>2, <1>3, <1>6, <3>1, LockMoves DEF DataInv, Locked
    <2>5. Settled(j.id) /\ Settled(j.id)'
      <3>1. Settled(j.id)
        BY <1>1, <1>2, <1>3 DEF AskedInv
      <3>2. QED
        BY <1>2, <1>4, <2>3, <3>1, SettledStays DEF InProgress
    <2>6. PICK b \in begun : /\ b.id = j.id /\ b.key = j.key /\ Fits(j.place, b.store)
                             /\ b.epoch = epoch => b.place = j.place
      BY <1>1, <1>2, <1>3 DEF AskedInv
    <2>7. g = j.id \/ Twin(j.id)
      <3>1. j.place \in Places /\ j.key \in Seconds
        BY JobFacts
      <3>2. PICK c \in begun : c.id = g /\ Obj(c) = <<j.place, j.key>>
        BY <1>3, <2>1, <3>1 DEF ArchiveInv, Objects
      <3>3. c.key = b.key /\ Fits(j.place, c.store)
        BY <2>6, <3>2, BegunFacts DEF Obj
      <3>4. QED
        BY <2>6, <3>2, <3>3, SameObject
    <2>8. AskedInv(p)'
      <3>1. Twin(j.id) => Twin(j.id)'
        BY <1>4, TwinStays
      <3>2. QED
        BY <1>4, <2>2, <2>3, <2>5, <2>6, <2>7, <3>1 DEF AskedInv
    <2>9. PruneInv(p)' /\ DropInv(p)'
      BY <2>3 DEF PruneInv, DropInv, InProgress
    <2>10. \A a : ~Answers(p, a)
      BY <1>2 DEF Answers
    <2>11. QED
      BY <1>2, <1>4, <1>6, <2>2, <2>4, <2>8, <2>9, <2>10, Quiet DEF Labels, Locked, InProgress
  <1>7. QED
    BY <1>2, <1>5, <1>6

LEMMA ApplyStep ==
  ASSUME IInv, NEW p \in Procs, Apply(p)
  PROVE  IInv'
  <1>1. PICK j \in Job : j = job[p]
    BY Facts
  <1>2. /\ pc[p] = "apply" /\ UNCHANGED <<owner, rows, archive, clock, past>>
        /\ \/ /\ faults' = faults /\ content' = j.got /\ pc' = [pc EXCEPT ![p] = "restored"]
              /\ job' = job /\ lock' = lock
           \/ faults' = faults + 1 /\ faults < MaxFaults /\ content' = Partial /\ Release(p)
    BY <1>1 DEF Apply, At, Goto, Keep, Works, Fault
  <1>3. DataInv /\ LockInv /\ AskedInv(p)
    BY Facts
  <1>4. /\ begun' = begun /\ epoch' = epoch /\ content' \in 0..Partial
        /\ faults' \in 0..MaxFaults /\ faults' >= faults
    BY <1>2, <1>3, Constants, JobFacts DEF DataInv, past
  <1>5. CASE Release(p)
    BY <1>2, <1>4, <1>5, RestoreEnds
  <1>6. CASE /\ faults' = faults /\ content' = j.got /\ pc' = [pc EXCEPT ![p] = "restored"]
             /\ job' = job /\ lock' = lock
    <2>1. /\ job' = [job EXCEPT ![p] = j] /\ pc'[p] = "restored" /\ job'[p] = j
          /\ \A q \in Procs \ {p} : pc'[q] = pc[q] /\ job'[q] = job[q]
      BY <1>1, <1>3, <1>6 DEF DataInv
    <2>2. lock = TRUE /\ LockInv' /\ lock' \in BOOLEAN
      <3>1. lock = TRUE
        BY <1>2, <1>3 DEF DataInv, LockInv, Locked
      <3>2. QED
        BY <1>2, <1>3, <1>6, <3>1, LockMoves DEF DataInv, Locked
    <2>3. AskedInv(p)'
      <3>1. /\ Settled(j.id) /\ (j.got = j.id \/ Twin(j.id))
            /\ \E b \in begun : /\ b.id = j.id /\ b.key = j.key /\ Fits(j.place, b.store)
                                /\ b.epoch = epoch => b.place = j.place
        BY <1>1, <1>2, <1>3 DEF AskedInv
      <3>2. Settled(j.id)' /\ (Twin(j.id) => Twin(j.id)')
        BY <1>2, <1>4, <2>1, <3>1, SettledStays, TwinStays DEF InProgress
      <3>3. QED
        BY <1>4, <1>6, <2>1, <3>1, <3>2 DEF AskedInv
    <2>4. PruneInv(p)' /\ DropInv(p)'
      BY <2>1 DEF PruneInv, DropInv, InProgress
    <2>5. \A a : ~Answers(p, a)
      BY <1>2 DEF Answers
    <2>6. QED
      BY <1>2, <1>4, <1>6, <2>1, <2>2, <2>3, <2>4, <2>5, Quiet DEF Labels, Locked, InProgress
  <1>7. QED
    BY <1>2, <1>5, <1>6

LEMMA EndRestoreStep ==
  ASSUME IInv, NEW p \in Procs, EndRestore(p)
  PROVE  IInv'
  <1>1. /\ pc[p] = "restored" /\ Release(p)
        /\ UNCHANGED <<owner, content, rows, archive, clock, faults, past>>
    BY DEF EndRestore, At
  <1>2. content' \in 0..Partial /\ faults' \in 0..MaxFaults /\ faults' >= faults
    BY <1>1, Constants DEF IInv, DataInv
  <1>3. QED
    BY <1>1, <1>2, RestoreEnds

LEMMA DropRowsStep ==
  ASSUME IInv, NEW p \in Procs, DropRows(p)
  PROVE  IInv'
  <1>1. /\ pc[p] = "dropRows" /\ pc' = [pc EXCEPT ![p] = "idle"] /\ job' = [job EXCEPT ![p] = NoJob]
        /\ lock' = FALSE /\ rows' = {} /\ content' = 0 /\ UNCHANGED <<owner, archive, clock, faults, past>>
    BY DEF DropRows, At, Release, End, Goto
  <1>2. DataInv /\ LockInv /\ DropInv(p)
    BY Facts
  <1>3. pc'[p] = "idle"
    BY <1>1, <1>2 DEF DataInv
  <1>4. LockInv'
    BY <1>1, <1>2, LockMoves DEF DataInv, Locked
  <1>5. /\ lock' \in BOOLEAN /\ content' \in 0..Partial
        /\ faults' \in 0..MaxFaults /\ faults' >= faults /\ archive' \in [Objects -> 0..Partial]
    <2>1. lock' \in BOOLEAN
      BY <1>1
    <2>2. content' \in 0..Partial
      BY <1>1, Constants
    <2>3. faults' \in 0..MaxFaults /\ faults' >= faults /\ archive' \in [Objects -> 0..Partial]
      BY <1>1, <1>2, Constants DEF DataInv
    <2>4. QED
      BY <2>1, <2>2, <2>3
  <1>6. \A a \in begun : a.epoch # epoch
    BY <1>1, <1>2 DEF DropInv
  <1>7. QED
    BY <1>1, <1>3, <1>4, <1>5, <1>6, NoJobFacts, Done, Proceeds DEF Labels, Locked, InProgress

---------------------------------------------------------------------------------
(* The site changes hands, and the daemon dies. *)

LEMMA ChangesHands ==
  ASSUME IInv, DataInv', LockInv', epoch' = epoch + 1,
         UNCHANGED <<content, rows, archive, clock, faults, begun, latest, cut>>,
         \A q \in Procs : \/ pc'[q] = pc[q] /\ job'[q] = job[q] /\ pc[q] # "dropRows"
                          \/ pc[q] = "idle" /\ pc'[q] = "dropRows" /\ ~Live'
  PROVE  IInv'
  <1>1. epoch \in Nat /\ faults \in Nat /\ clock \in Nat
    BY Constants DEF IInv, DataInv, Seconds
  <1>2. \A b \in begun : b.epoch \in Nat /\ b.epoch <= epoch /\ b.epoch # epoch'
    <2>1. ASSUME NEW b \in begun
          PROVE  b.epoch \in Nat /\ b.epoch <= epoch
      BY BegunFacts
    <2>2. QED
      BY <1>1, <2>1
  <1>3. BegunInv'
    BY <1>1, <1>2 DEF IInv, BegunInv
  <1>4. \A i : Settled(i) => Settled(i)'
    BY SettledStays DEF InProgress
  <1>5. \A r \in rows' : Kept(r)'
    <2>1. ASSUME NEW r \in rows
          PROVE  Kept(r)'
      <3>1. Kept(r)
        BY RowFacts DEF RowInv
      <3>2. QED
        BY <3>1, KeptStays
    <2>2. QED
      BY <2>1
  <1>6. \A r \in rows' : RowInv(r)'
    BY <1>1, <1>4, <1>5, RowsStay
  <1>7. ASSUME NEW q \in Procs
        PROVE  BackupInv(q)' /\ PruneInv(q)' /\ AskedInv(q)' /\ DropInv(q)'
    <2>1. CASE pc'[q] = pc[q] /\ job'[q] = job[q] /\ pc[q] # "dropRows"
      <3>1. \A s \in Storages : latest'[s] \in Nat /\ latest'[s] >= latest[s]
        BY Constants DEF IInv, DataInv
      <3>2. QED
        BY <1>1, <1>4, <2>1, <3>1, WorkStays
    <2>2. CASE pc[q] = "idle" /\ pc'[q] = "dropRows" /\ ~Live'
      <3>1. BackupInv(q)' /\ PruneInv(q)' /\ AskedInv(q)'
        BY <2>2 DEF BackupInv, PruneInv, AskedInv, InProgress
      <3>2. DropInv(q)'
        BY <1>2, <2>2 DEF DropInv
      <3>3. QED
        BY <3>1, <3>2
    <2>3. QED
      BY <2>1, <2>2
  <1>8. ArchiveInv'
    BY DEF IInv, ArchiveInv, Obj
  <1>9. AccountInv'
    BY <1>2 DEF AccountInv
  <1>10. QED
    BY <1>3, <1>6, <1>7, <1>8, <1>9 DEF IInv

LEMMA CreateStep ==
  ASSUME IInv, Create
  PROVE  IInv'
  <1>1. PICK o \in Owners : /\ ~lock /\ owner' = o /\ epoch' = epoch + 1
          /\ UNCHANGED <<lock, content, rows, archive, clock, pc, job, faults, begun, latest, cut>>
    BY DEF Create, NewEpoch
  <1>2. DataInv' /\ LockInv'
    BY <1>1 DEF IInv, DataInv, LockInv
  <1>3. \A q \in Procs : pc[q] # "dropRows"
    BY <1>1 DEF IInv, LockInv, Locked
  <1>4. QED
    BY <1>1, <1>2, <1>3, ChangesHands

LEMMA TransferStep ==
  ASSUME IInv, Transfer
  PROVE  IInv'
  <1>1. PICK o \in Owners : /\ Live /\ owner' = o /\ epoch' = epoch + 1
          /\ UNCHANGED <<lock, content, rows, archive, clock, pc, job, faults, begun, latest, cut>>
    BY DEF Transfer, NewEpoch
  <1>2. DataInv' /\ LockInv'
    BY <1>1 DEF IInv, DataInv, LockInv
  <1>3. \A q \in Procs : pc[q] # "dropRows"
    BY <1>1, Facts DEF DropInv
  <1>4. QED
    BY <1>1, <1>2, <1>3, ChangesHands

LEMMA BeginDestroyStep ==
  ASSUME IInv, NEW p \in Procs, BeginDestroy(p)
  PROVE  IInv'
  <1>1. /\ ~lock /\ lock' = TRUE /\ owner' = Nobody /\ epoch' = epoch + 1 /\ pc[p] = "idle"
        /\ pc' = [pc EXCEPT ![p] = "dropRows"] /\ job' = [job EXCEPT ![p] = NoJob]
        /\ UNCHANGED <<content, rows, archive, clock, faults, begun, latest, cut>>
    BY DEF BeginDestroy, Acquire, Start, At, Goto, NewEpoch
  <1>2. DataInv /\ LockInv /\ lock = FALSE
    BY <1>1 DEF IInv, DataInv
  <1>3. LockInv'
    BY <1>1, <1>2, LockMoves DEF DataInv, Locked
  <1>4. DataInv'
    <2>1. pc' \in [Procs -> Labels] /\ job' \in [Procs -> Job]
      BY <1>1, <1>2, NoJobFacts DEF DataInv, Labels, Locked
    <2>2. QED
      BY <1>1, <1>2, <2>1 DEF DataInv
  <1>5. pc'[p] = "dropRows" /\ \A q \in Procs \ {p} : pc'[q] = pc[q] /\ job'[q] = job[q]
    BY <1>1, <1>2 DEF DataInv
  <1>6. \A q \in Procs : pc[q] # "dropRows"
    BY <1>2 DEF LockInv, Locked
  <1>7. ~Live'
    BY <1>1 DEF Live
  <1>8. \A q \in Procs : \/ pc'[q] = pc[q] /\ job'[q] = job[q] /\ pc[q] # "dropRows"
                         \/ pc[q] = "idle" /\ pc'[q] = "dropRows" /\ ~Live'
    BY <1>1, <1>5, <1>6, <1>7
  <1>9. QED
    BY <1>1, <1>3, <1>4, <1>8, ChangesHands

LEMMA CrashStep ==
  ASSUME IInv, Crash
  PROVE  IInv'
  <1>1. /\ faults' = faults + 1 /\ faults < MaxFaults /\ lock' = FALSE
        /\ cut' = cut \cup {job[p].id : p \in {q \in Procs : pc[q] = "deleteRow"}}
        /\ UNCHANGED <<owner, content, rows, archive, clock, begun, latest, epoch>>
    BY DEF Crash, Fault, At
  <1>2. pc' = [p \in Procs |-> "idle"] /\ job' = [p \in Procs |-> NoJob]
    BY DEF Crash
  <1>3. \A p \in Procs : pc'[p] = "idle"
    BY <1>2
  <1>4. DataInv /\ faults \in Nat /\ clock \in Nat
    BY Constants DEF IInv, DataInv, Seconds
  <1>5. cut' \subseteq Ids
    <2>1. ASSUME NEW q \in Procs, pc[q] = "deleteRow"
          PROVE  job[q].id \in Ids
      <3>1. Settled(job[q].id)
        BY <2>1, Facts DEF AskedInv
      <3>2. QED
        BY <3>1, BegunFacts DEF Settled
    <2>2. QED
      BY <1>1, <1>4, <2>1 DEF DataInv
  <1>6. DataInv'
    <2>1. pc' \in [Procs -> Labels] /\ job' \in [Procs -> Job]
      BY <1>2, NoJobFacts DEF Labels
    <2>2. faults' \in 0..MaxFaults
      BY <1>1, <1>4, Constants DEF DataInv
    <2>3. QED
      BY <1>1, <1>4, <1>5, <2>1, <2>2 DEF DataInv
  <1>7. LockInv'
    BY <1>1, <1>3 DEF LockInv, Locked
  <1>8. BegunInv'
    BY <1>1 DEF IInv, BegunInv, Live, Place
  <1>9. \A i : Settled(i) => Settled(i)'
    BY <1>1, <1>3, SettledStays DEF InProgress
  <1>10. \A r \in rows' : RowInv(r)'
    <2>1. ASSUME NEW r \in rows'
          PROVE  Kept(r)'
      <3>1. Kept(r)
        BY <1>1, RowFacts DEF RowInv
      <3>2. \A q \in Procs : pc[q] = "deleteRow" /\ job[q].id = r.id => r.id \in cut'
        BY <1>1
      <3>3. QED
        BY <1>1, <3>1, <3>2, KeptStays
    <2>2. QED
      BY <1>1, <1>4, <1>9, <2>1, RowsStay
  <1>11. \A q \in Procs : BackupInv(q)' /\ PruneInv(q)' /\ AskedInv(q)' /\ DropInv(q)'
    BY <1>3, Done DEF BackupInv, InProgress
  <1>12. ArchiveInv' /\ AccountInv'
    <2>1. faults' # 0
      BY <1>1, <1>4
    <2>2. QED
      BY <1>1, <2>1 DEF IInv, ArchiveInv, AccountInv, Obj
  <1>13. QED
    BY <1>6, <1>7, <1>8, <1>10, <1>11, <1>12 DEF IInv

---------------------------------------------------------------------------------
(* A backup. *)

(* The operation that makes it is alone. *)
LEMMA Alone ==
  ASSUME IInv, NEW p \in Procs, pc[p] \in InProgress
  PROVE  /\ lock = TRUE /\ pc[p] \in Locked /\ \A q \in Procs \ {p} : pc[q] \notin Locked /\ pc[q] \notin InProgress
         /\ job[p].id \notin {0, Partial} /\ job[p].id \in Ids /\ ~Settled(job[p].id)
         /\ \A b \in begun : b.id # job[p].id => Settled(b.id)
         /\ \A b \in begun : b.id <= job[p].id
  <1>1. InProgress \subseteq Locked
    BY DEF InProgress, Locked
  <1>2. lock = TRUE /\ pc[p] \in Locked /\ \A q \in Procs \ {p} : pc[q] \notin Locked /\ pc[q] \notin InProgress
    BY <1>1 DEF IInv, DataInv, LockInv
  <1>3. job[p].id = Cardinality(begun) /\ \E b \in begun : b.id = job[p].id
    BY Facts DEF BackupInv, Of
  <1>4. job[p].id \in Ids /\ job[p].id \notin {0, Partial}
    BY <1>3, BegunFacts, Constants
  <1>5. ~Settled(job[p].id) /\ \A b \in begun : b.id # job[p].id => Settled(b.id)
    BY <1>2 DEF Settled
  <1>6. \A b \in begun : b.id <= job[p].id
    BY <1>3, BegunFacts, CountFacts
  <1>7. QED
    BY <1>2, <1>4, <1>5, <1>6

LEMMA UploadStep ==
  ASSUME IInv, NEW p \in Procs, Upload(p)
  PROVE  IInv'
  <1>1. PICK j \in Job : j = job[p]
    BY Facts
  <1> DEFINE o == <<j.place, j.key>>
  <1>2. /\ pc[p] = "upload" /\ UNCHANGED <<owner, content, rows, clock, past>>
        /\ \/ /\ faults' = faults /\ pc' = [pc EXCEPT ![p] = "record"] /\ job' = job /\ lock' = lock
              /\ archive' = [archive EXCEPT ![o] = j.id]
           \/ /\ faults' = faults + 1 /\ faults < MaxFaults /\ Release(p)
              /\ archive' \in {archive, [archive EXCEPT ![o] = Partial]}
    BY <1>1 DEF Upload, At, Goto, Works, Fault, Object
  <1>3. DataInv /\ LockInv /\ BackupInv(p) /\ PruneInv(p) /\ o \in Objects /\ j.id \in 0..MaxBackups
    BY <1>1, Facts, JobFacts DEF Objects
  <1>4. pc[p] \in InProgress /\ pc[p] \in Locked
    BY <1>2 DEF InProgress, Locked
  <1>5. PICK c \in begun : Of(j, c)
    BY <1>1, <1>3, <1>4 DEF BackupInv
  <1>6. c.id = j.id /\ c.key = j.key /\ c.place = j.place /\ Fits(j.place, c.store) /\ Obj(c) = o
    BY <1>5, BegunFacts DEF Of, Obj
  <1>7. /\ begun' = begun /\ cut' = cut /\ epoch' = epoch /\ latest' = latest
        /\ content' \in 0..Partial /\ faults \in Nat
    BY <1>2, <1>3, Constants DEF DataInv, past
  <1>8. /\ lock = TRUE /\ \A q \in Procs \ {p} : pc[q] \notin Locked /\ pc[q] \notin InProgress
    BY <1>4, Alone
  <1>9. /\ j.id \notin {0, Partial} /\ j.id \in Ids /\ ~Settled(j.id) /\ \A b \in begun : b.id <= j.id
    BY <1>1, <1>4, Alone
  <1>10. ASSUME NEW r \in rows, \A s \in Objects \ {o} : archive'[s] = archive[s],
                \A q \in Procs : pc[q] = "deleteRow" => pc'[q] = pc[q] /\ job'[q] = job[q]
         PROVE  Kept(r)'
    <2>1. Kept(r) /\ Settled(r.id) /\ <<r.place, r.key>> \in Objects
      BY RowFacts, BackupFacts DEF RowInv
    <2>2. CASE <<r.place, r.key>> = o
      <3>1. Twin(r.id)
        BY <1>6, <1>9, <2>1, <2>2, RowTwin
      <3>2. Twin(r.id)'
        BY <1>7, <3>1, TwinStays
      <3>3. QED
        BY <3>2 DEF Kept
    <2>3. CASE <<r.place, r.key>> # o
      BY <1>7, <1>10, <2>1, <2>3, KeptStays
    <2>4. QED
      BY <2>2, <2>3
  <1>11. CASE /\ faults' = faults + 1 /\ faults < MaxFaults /\ Release(p)
              /\ archive' \in {archive, [archive EXCEPT ![o] = Partial]}
    <2>1. /\ pc' = [pc EXCEPT ![p] = "idle"] /\ job' = [job EXCEPT ![p] = NoJob] /\ lock' = FALSE /\ pc'[p] = "idle"
          /\ \A q \in Procs \ {p} : pc'[q] = pc[q] /\ job'[q] = job[q]
      BY <1>3, <1>11 DEF Release, End, Goto, DataInv
    <2>2. LockInv'
      BY <1>3, <1>4, <2>1, LockMoves DEF DataInv, Locked
    <2>3. /\ archive' \in [Objects -> 0..Partial] /\ \A s \in Objects \ {o} : archive'[s] = archive[s]
          /\ archive'[o] \in {archive[o], Partial}
      BY <1>3, <1>11, Constants DEF DataInv
    <2>4. \A q \in Procs : pc[q] = "deleteRow" => pc'[q] = pc[q] /\ job'[q] = job[q]
      BY <1>2, <2>1
    <2>5. \A r \in rows' : Kept(r)'
      BY <1>2, <1>10, <2>3, <2>4
    <2>6. faults' \in 0..MaxFaults /\ faults' >= faults /\ faults' # 0
      BY <1>3, <1>7, <1>11, Constants DEF DataInv
    <2>7. \A s \in Objects : archive'[s] \in {archive[s], 0} \/ (archive'[s] = Partial /\ faults' # 0)
      BY <2>3, <2>6
    <2>8. \A q \in Procs \ {p} : pc[q] # "record"
      BY <1>8 DEF Locked
    <2>9. "idle" \in Labels \ InProgress /\ lock' \in BOOLEAN
      BY <2>1 DEF Labels, InProgress
    <2>10. PruneInv(p)' /\ AskedInv(p)' /\ DropInv(p)'
      BY <2>1, Done
    <2>11. rows' \subseteq rows /\ UNCHANGED <<owner, clock, past>> /\ content' = content
      BY <1>2
    <2>12. QED
      BY <1>7, <2>1, <2>2, <2>3, <2>5, <2>6, <2>7, <2>8, <2>9, <2>10, <2>11, NoJobFacts, Proceeds
  <1>12. CASE /\ faults' = faults /\ pc' = [pc EXCEPT ![p] = "record"] /\ job' = job /\ lock' = lock
              /\ archive' = [archive EXCEPT ![o] = j.id]
    <2>1. pc'[p] = "record" /\ \A q \in Procs \ {p} : pc'[q] = pc[q]
      BY <1>3, <1>12 DEF DataInv
    <2>2. archive'[o] = j.id /\ \A s \in Objects \ {o} : archive'[s] = archive[s]
      BY <1>3, <1>12 DEF DataInv
    <2>3. DataInv'
      <3>1. archive' \in [Objects -> 0..Partial] /\ pc' \in [Procs -> Labels]
        BY <1>3, <1>9, <1>12, Constants DEF DataInv, Labels, Locked
      <3>2. QED
        BY <1>2, <1>3, <1>7, <1>12, <3>1 DEF DataInv
    <2>4. LockInv'
      BY <1>3, <1>4, <1>8, <1>12, LockMoves DEF DataInv, Locked
    <2>5. BegunInv'
      BY <1>2, <1>7 DEF IInv, BegunInv, Live, Place
    <2>6. \A i : Settled(i) => Settled(i)'
      BY <1>4, <1>7, <1>12, <2>1, SettledStays
    <2>7. \A r \in rows' : RowInv(r)'
      <3>1. \A r \in rows' : Kept(r)'
        BY <1>2, <1>10, <1>12, <2>1, <2>2
      <3>2. clock \in Nat /\ clock' = clock /\ rows' = rows
        BY <1>2, <1>3, Constants DEF DataInv, Seconds
      <3>3. QED
        BY <1>7, <2>6, <3>1, <3>2, RowsStay
    <2>8. BackupInv(p)' /\ PruneInv(p)' /\ AskedInv(p)' /\ DropInv(p)'
      <3>1. BackupInv(p)'
        BY <1>1, <1>3, <1>4, <1>7, <1>12, <2>1, <2>2 DEF BackupInv, Object, InProgress
      <3>2. PruneInv(p)'
        BY <1>3, <1>4, <1>12, <2>1 DEF PruneInv, InProgress
      <3>3. QED
        BY <2>1, <3>1, <3>2 DEF AskedInv, DropInv
    <2>9. ASSUME NEW q \in Procs \ {p}
          PROVE  BackupInv(q)' /\ PruneInv(q)' /\ AskedInv(q)' /\ DropInv(q)'
      <3>1. pc[q] \notin {"record", "restored", "dropRows"}
        BY <1>8 DEF Locked
      <3>2. \A s \in Storages : latest'[s] \in Nat /\ latest'[s] >= latest[s]
        BY <1>3, <1>7, Constants DEF DataInv
      <3>3. \A s \in Objects : Settled(archive'[s]) => archive'[s] = archive[s]
        BY <1>9, <2>2
      <3>4. epoch' \in Nat /\ epoch' >= epoch /\ faults' \in Nat /\ faults' >= faults
        BY <1>3, <1>7, <1>12 DEF DataInv
      <3>5. pc'[q] = pc[q] /\ job'[q] = job[q] /\ rows' = rows
        BY <1>2, <1>12, <2>1
      <3>6. QED
        BY <1>7, <2>6, <3>1, <3>2, <3>3, <3>4, <3>5, WorkStays
    <2>10. ArchiveInv'
      <3>1. ASSUME NEW s \in Objects
            PROVE  /\ archive'[s] \in Ids => \E b \in begun' : b.id = archive'[s] /\ Obj(b) = s
                   /\ faults' = 0 => archive'[s] # Partial
        <4>1. CASE s = o
          BY <1>6, <1>7, <1>9, <2>2, <4>1
        <4>2. CASE s # o
          BY <1>7, <1>12, <2>2, <4>2 DEF IInv, ArchiveInv
        <4>3. QED
          BY <4>1, <4>2
      <3>2. QED
        BY <3>1 DEF ArchiveInv, Obj
    <2>11. AccountInv'
      <3>1. ASSUME faults = 0, NEW b \in begun, b.epoch = epoch
            PROVE  Ours(b)' /\ (archive'[Obj(b)] = b.id => Accounted(b)')
        <4>1. /\ Ours(b) /\ (archive[Obj(b)] = b.id => Accounted(b)) /\ Obj(b) \in Objects
              /\ b.id \in Nat /\ b.id <= j.id
          BY <1>9, <3>1, BegunFacts DEF IInv, AccountInv
        <4>2. CASE Obj(b) = o
          <5>1. c.epoch = epoch
            <6>1. b.epoch <= c.epoch /\ c.epoch <= epoch /\ c.epoch \in Nat
              BY <1>6, <4>1, BegunFacts DEF IInv, BegunInv
            <6>2. QED
              BY <3>1, <6>1, <1>3 DEF DataInv
          <5>2. Ours(b)'
            BY <1>6, <1>7, <2>2, <4>2, <5>1 DEF Ours, Obj
          <5>3. archive'[Obj(b)] = b.id => Accounted(b)'
            <6>1. archive'[Obj(b)] = b.id => job'[p].id = b.id
              BY <1>1, <1>12, <2>2, <4>2
            <6>2. archive'[Obj(b)] = b.id => Answers(p, b)'
              BY <2>1, <6>1 DEF Answers
            <6>3. QED
              BY <6>2 DEF Accounted
          <5>4. QED
            BY <5>2, <5>3
        <4>3. CASE Obj(b) # o
          <5>1. archive'[Obj(b)] = archive[Obj(b)]
            BY <2>2, <4>1, <4>3
          <5>2. Ours(b)'
            <6>1. ASSUME NEW q \in Procs, pc[q] = "upload", job[q].id = b.id
                  PROVE  FALSE
              <7>1. q = p
                BY <1>8, <6>1 DEF InProgress
              <7>2. b = c
                BY <1>1, <1>6, <6>1, <7>1 DEF IInv, BegunInv
              <7>3. QED
                BY <1>6, <4>3, <7>2
            <6>2. QED
              BY <1>7, <4>1, <5>1, <6>1 DEF Ours, Obj
          <5>3. ASSUME Accounted(b)
                PROVE  Accounted(b)'
            <6>1. \A q \in Procs : Answers(q, b) => Answers(q, b)'
              BY <1>2, <1>12, <2>1 DEF Answers
            <6>2. QED
              BY <1>2, <5>3, <6>1 DEF Accounted
          <5>4. QED
            BY <4>1, <5>1, <5>2, <5>3
        <4>4. QED
          BY <4>2, <4>3
      <3>2. QED
        BY <1>7, <1>12, <3>1 DEF AccountInv, Obj
    <2>12. QED
      BY <2>3, <2>4, <2>5, <2>7, <2>8, <2>9, <2>10, <2>11 DEF IInv
  <1>13. QED
    BY <1>2, <1>11, <1>12

LEMMA RecordStep ==
  ASSUME IInv, NEW p \in Procs, Record(p)
  PROVE  IInv'
  <1>1. PICK j \in Job : j = job[p]
    BY Facts
  <1>2. DataInv /\ LockInv /\ BackupInv(p) /\ PruneInv(p) /\ BegunInv
    BY Facts
  <1>3. PICK t \in {clock, clock + 1} \cap Seconds : t = clock'
    BY DEF Record, TimePasses
  <1>4. PICK new : new = [id |-> j.id, store |-> j.store, key |-> j.key, place |-> j.place, at |-> t]
    OBVIOUS
  <1>5. /\ pc[p] = "record" /\ lock' = FALSE /\ clock' = t /\ rows' = rows \cup {new}
        /\ latest' = [latest EXCEPT ![j.store] = j.id]
        /\ UNCHANGED <<owner, content, archive, faults, begun, epoch, cut>>
    BY <1>1, <1>3, <1>4 DEF Record, At
  <1>6. PICK l \in {"idle", "pruneSelect"}, k \in {NoJob, j} :
          /\ pc' = [pc EXCEPT ![p] = l] /\ job' = [job EXCEPT ![p] = k]
          /\ l = "pruneSelect" => k = j /\ j.keep # 0
    <2>1. CASE j.keep = 0 /\ End(p)
      BY <2>1 DEF End, Goto
    <2>2. CASE j.keep # 0 /\ Goto(p, "pruneSelect") /\ Keep(p)
      <3>1. job' = [job EXCEPT ![p] = j]
        BY <1>1, <1>2, <2>2 DEF Keep, DataInv
      <3>2. QED
        BY <2>2, <3>1 DEF Goto
    <2>3. QED
      BY <1>1, <2>1, <2>2 DEF Record
  <1>7. pc[p] \in InProgress /\ k \in Job
    BY <1>5, NoJobFacts DEF InProgress
  <1>8. /\ pc'[p] = l /\ job'[p] = k /\ pc' \in [Procs -> Labels] /\ job' \in [Procs -> Job]
        /\ \A q \in Procs \ {p} : pc'[q] = pc[q] /\ job'[q] = job[q]
    BY <1>2, <1>6, <1>7 DEF DataInv, Labels
  <1>9. PICK b \in begun : Of(j, b)
    BY <1>1, <1>2, <1>7 DEF BackupInv
  <1>10. b.id = j.id /\ b.store = j.store /\ b.place = j.place /\ b.key = j.key /\ j.store \in Storages
    BY <1>9, BegunFacts DEF Of
  <1>11. /\ \A q \in Procs \ {p} : pc[q] \notin Locked /\ pc[q] \notin InProgress
         /\ j.id \in Ids /\ ~Settled(j.id) /\ \A c \in begun : c.id <= j.id
    BY <1>1, <1>7, Alone
  <1>12. j.id = Cardinality(begun) /\ j.id \in Nat /\ (archive[<<j.place, j.key>>] = j.id \/ Twin(j.id))
    BY <1>1, <1>2, <1>5, <1>7, CountFacts DEF BackupInv, Object
  <1>13. clock \in Nat /\ t \in Nat /\ t >= clock
    BY <1>2, Constants DEF DataInv, Seconds
  <1>14. new \in Backup /\ new.id = j.id /\ new.store = j.store /\ new.place = j.place /\ new.key = j.key /\ new.at = t
    BY <1>4, <1>10, <1>11, JobFacts DEF Backup
  <1>15. DataInv'
    <2>1. latest' \in [Storages -> 0..MaxBackups]
      <3>1. j.id \in 0..MaxBackups
        BY JobFacts
      <3>2. QED
        BY <1>2, <1>5, <3>1 DEF DataInv
    <2>2. rows' \subseteq Backup
      BY <1>2, <1>5, <1>14 DEF DataInv
    <2>3. QED
      BY <1>2, <1>3, <1>5, <1>8, <2>1, <2>2 DEF DataInv
  <1>16. LockInv'
    BY <1>2, <1>5, <1>6, LockMoves DEF DataInv, Locked
  <1>17. \A s \in Storages : latest'[s] \in Nat /\ latest'[s] >= latest[s] /\ latest'[s] <= Cardinality(begun)
    <2>1. \A s \in Storages : latest[s] \in Nat /\ latest[s] <= Cardinality(begun)
      BY <1>2, Constants DEF DataInv, BegunInv
    <2>2. \A s \in Storages : latest'[s] = IF s = j.store THEN j.id ELSE latest[s]
      BY <1>2, <1>5 DEF DataInv
    <2>3. QED
      BY <1>12, <2>1, <2>2
  <1>18. BegunInv'
    BY <1>2, <1>5, <1>17 DEF BegunInv, Live, Place
  <1>19. \A i : Settled(i) => Settled(i)'
    BY <1>5, <1>6, <1>8, SettledStays DEF InProgress
  <1>20. Settled(j.id)'
    <2>1. \A q \in Procs : pc'[q] \notin InProgress
      BY <1>6, <1>8, <1>11 DEF InProgress
    <2>2. QED
      BY <1>5, <1>10, <2>1 DEF Settled
  <1>21. \A r \in rows : /\ r.id # j.id /\ r.id \in Nat /\ r.id <= j.id /\ r.at \in Nat /\ r.at <= clock /\ RowInv(r)
    <2>1. ASSUME NEW r \in rows
          PROVE  /\ r.id # j.id /\ r.id \in Nat /\ r.id <= j.id /\ r.at \in Nat /\ r.at <= clock /\ RowInv(r)
      <3>1. RowInv(r) /\ r.id \in Nat /\ r.at \in Nat
        BY RowFacts, BackupFacts
      <3>2. Settled(r.id) /\ r.at <= clock /\ \E c \in begun : c.id = r.id
        BY <3>1 DEF RowInv, Of
      <3>3. QED
        BY <1>11, <3>1, <3>2
    <2>2. QED
      BY <2>1
  <1>22. ASSUME NEW r \in rows
         PROVE  RowInv(r)'
    <2>1. RowInv(r) /\ r.store \in Storages /\ r.id \in Nat
      BY RowFacts, BackupFacts
    <2>2. r.at <= clock'
      BY <1>5, <1>13, <1>21
    <2>3. r.id <= latest'[r.store]
      <3>1. r.id <= latest[r.store] /\ latest[r.store] \in Nat
        BY <1>2, <2>1, Constants DEF RowInv, DataInv
      <3>2. QED
        BY <1>17, <2>1, <3>1
    <2>4. Settled(r.id)'
      BY <1>19, <2>1 DEF RowInv
    <2>5. Kept(r)'
      <3>1. \A q \in Procs : pc[q] = "deleteRow" => pc'[q] = pc[q] /\ job'[q] = job[q]
        BY <1>5, <1>8
      <3>2. QED
        BY <1>5, <2>1, <3>1, KeptStays DEF RowInv
    <2>6. \E c \in begun' : Of(r, c)
      BY <1>5, <2>1 DEF RowInv
    <2>7. ASSUME NEW s \in rows'
          PROVE  (r.id = s.id => r = s) /\ (r.at > s.at => r.id > s.id)
      <3>1. CASE s \in rows
        BY <2>1, <3>1 DEF RowInv
      <3>2. CASE s = new
        BY <1>13, <1>14, <1>21, <3>2
      <3>3. QED
        BY <1>5, <3>1, <3>2
    <2>8. QED
      BY <2>2, <2>3, <2>4, <2>5, <2>6, <2>7 DEF RowInv
  <1>23. RowInv(new)'
    <2>1. Kept(new)'
      <3>1. CASE Twin(j.id)
        <4>1. Twin(j.id)'
          BY <1>5, <3>1, TwinStays
        <4>2. QED
          BY <1>14, <4>1 DEF Kept
      <3>2. CASE archive[<<j.place, j.key>>] = j.id
        BY <1>5, <1>14, <3>2 DEF Kept
      <3>3. QED
        BY <1>12, <3>1, <3>2
    <2>2. new.id <= latest'[new.store]
      BY <1>2, <1>5, <1>10, <1>12, <1>14 DEF DataInv
    <2>3. \E c \in begun' : Of(new, c)
      BY <1>5, <1>10, <1>14 DEF Of
    <2>4. ASSUME NEW s \in rows'
          PROVE  (new.id = s.id => new = s) /\ (new.at > s.at => new.id > s.id)
      <3>1. CASE s \in rows
        BY <1>12, <1>14, <1>21, <3>1
      <3>2. CASE s = new
        BY <1>13, <1>14, <3>2
      <3>3. QED
        BY <1>5, <3>1, <3>2
    <2> QED
      BY <1>5, <1>13, <1>14, <1>20, <2>1, <2>2, <2>3, <2>4 DEF RowInv
  <1>24. \A r \in rows' : r \in rows \/ ~Settled(r.id)
    BY <1>5, <1>11, <1>14
  <1>25. BackupInv(p)' /\ PruneInv(p)' /\ AskedInv(p)' /\ DropInv(p)'
    <2>1. BackupInv(p)' /\ AskedInv(p)' /\ DropInv(p)'
      BY <1>8 DEF BackupInv, AskedInv, DropInv, InProgress
    <2>2. CASE l = "idle"
      BY <1>8, <2>1, <2>2, Done
    <2>3. CASE l = "pruneSelect"
      <3>1. k = j /\ j.keep # 0 /\ j.paths = <<>> /\ j.store \in Storages
        BY <1>1, <1>2, <1>6, <1>7, <2>3 DEF PruneInv
      <3>2. PruneInv(p)'
        BY <1>8, <2>3, <3>1 DEF PruneInv, InProgress
      <3>3. QED
        BY <2>1, <3>2
    <2>4. QED
      BY <2>2, <2>3
  <1>26. ASSUME NEW q \in Procs \ {p}
         PROVE  BackupInv(q)' /\ PruneInv(q)' /\ AskedInv(q)' /\ DropInv(q)'
    <2>1. pc[q] \notin {"record", "restored", "dropRows"}
      BY <1>11 DEF Locked
    <2>2. epoch \in Nat /\ faults \in Nat /\ archive' = archive /\ begun' = begun /\ epoch' = epoch /\ faults' = faults
      BY <1>2, <1>5, Constants DEF DataInv
    <2>3. QED
      BY <1>8, <1>17, <1>19, <1>24, <2>1, <2>2, WorkStays
  <1>27. ArchiveInv'
    BY <1>5 DEF IInv, ArchiveInv, Obj
  <1>28. AccountInv'
    <2>1. ASSUME NEW a \in begun, Accounted(a)
          PROVE  Accounted(a)'
      <3>1. CASE \E r \in rows : r.id = a.id
        BY <1>5, <3>1 DEF Accounted
      <3>2. CASE \E q \in Procs : Answers(q, a)
        <4>1. PICK q \in Procs : Answers(q, a)
          BY <3>2
        <4>2. CASE q = p
          <5>1. new.id = a.id
            BY <1>1, <1>5, <1>14, <4>1, <4>2 DEF Answers
          <5>2. QED
            BY <1>5, <5>1 DEF Accounted
        <4>3. CASE q # p
          BY <1>8, <4>1, <4>3 DEF Accounted, Answers
        <4>4. QED
          BY <4>2, <4>3
      <3>3. QED
        BY <2>1, <3>1, <3>2 DEF Accounted
    <2>2. \A q \in Procs : pc[q] # "upload"
      BY <1>5, <1>11 DEF Locked
    <2>3. QED
      BY <1>5, <2>1, <2>2, AccountStays
  <1>29. \A r \in rows' : RowInv(r)'
    BY <1>5, <1>22, <1>23
  <1>30. QED
    BY <1>15, <1>16, <1>18, <1>25, <1>26, <1>27, <1>28, <1>29 DEF IInv

LEMMA BeginBackupStep ==
  ASSUME IInv, NEW p \in Procs, BeginBackup(p)
  PROVE  IInv'
  <1>1. DataInv /\ LockInv /\ BegunInv /\ ArchiveInv /\ AccountInv
    BY Facts
  <1>2. PICK id \in Ids, t \in Seconds : id = Cardinality(begun) + 1 /\ t = clock' /\ t \in {clock, clock + 1}
    BY DEF BeginBackup, TimePasses
  <1>3. PICK s \in Storages, keep \in Keeps \cup {0} :
          /\ Live /\ ~lock /\ lock' = TRUE /\ pc[p] = "idle" /\ pc' = [pc EXCEPT ![p] = "upload"]
          /\ job' = [job EXCEPT ![p] = [NoJob EXCEPT !.id = id, !.store = s, !.keep = keep,
                                                     !.place = Place(s), !.key = t]]
          /\ begun' = begun \cup {[id |-> id, store |-> s, place |-> Place(s), key |-> t, epoch |-> epoch]}
          /\ UNCHANGED <<owner, content, rows, archive, faults, latest, epoch, cut>>
    BY <1>2 DEF BeginBackup, Acquire, Start, At, Goto
  <1>4. PICK place \in Places : place = Place(s) /\ Fits(place, s)
    BY <1>1, PlaceFits DEF DataInv
  <1>5. PICK new : new = [id |-> id, store |-> s, place |-> place, key |-> t, epoch |-> epoch]
    OBVIOUS
  <1>6. /\ new.id = id /\ new.store = s /\ new.place = place /\ new.key = t /\ new.epoch = epoch
        /\ new \in [id : Ids, store : Storages, place : Places, key : Seconds, epoch : Nat]
    BY <1>1, <1>5 DEF DataInv
  <1>7. begun' = begun \cup {new}
    BY <1>3, <1>4, <1>5
  <1>8. PICK k \in Job : /\ job' = [job EXCEPT ![p] = k] /\ Of(k, new) /\ k.id = id /\ k.store = s /\ k.paths = <<>>
    <2> DEFINE k == [NoJob EXCEPT !.id = id, !.store = s, !.keep = keep, !.place = place, !.key = t]
    <2>1. job' = [job EXCEPT ![p] = k]
      BY <1>3, <1>4
    <2>2. id \in 0..MaxBackups
      BY Constants DEF Ids
    <2>3. k \in Job /\ k.id = id /\ k.store = s /\ k.place = place /\ k.key = t /\ k.paths = <<>>
      BY <2>2, NoJobFacts DEF Job
    <2> HIDE DEF k
    <2>4. QED
      BY <1>6, <2>1, <2>3 DEF Of
  <1>9. /\ pc'[p] = "upload" /\ job'[p] = k /\ pc' \in [Procs -> Labels] /\ job' \in [Procs -> Job]
        /\ \A q \in Procs \ {p} : pc'[q] = pc[q] /\ job'[q] = job[q]
    BY <1>1, <1>3, <1>8 DEF DataInv, Labels, Locked
  <1>10. Cardinality(begun) \in Nat /\ \A b \in begun : b.id \in Nat /\ b.id <= Cardinality(begun) /\ b.id # id
    <2>1. Cardinality(begun) \in Nat
      BY CountFacts
    <2>2. QED
      BY <1>2, <2>1, BegunFacts
  <1>11. IsFiniteSet(begun') /\ Cardinality(begun') = id
    <2>1. new \notin begun /\ IsFiniteSet(begun)
      BY <1>1, <1>6, <1>10 DEF BegunInv
    <2>2. QED
      BY <1>2, <1>7, <2>1, FS_AddElement
  <1>12. DataInv'
    <2>1. begun' \subseteq [id : Ids, store : Storages, place : Places, key : Seconds, epoch : Nat]
      BY <1>1, <1>6, <1>7 DEF DataInv
    <2>2. lock' \in BOOLEAN /\ clock' \in Seconds
      BY <1>2, <1>3
    <2>3. QED
      BY <1>1, <1>3, <1>9, <2>1, <2>2 DEF DataInv
  <1>13. lock = FALSE /\ \A q \in Procs : pc[q] \notin Locked
    BY <1>1, <1>3 DEF DataInv, LockInv
  <1>14. LockInv'
    BY <1>1, <1>3, <1>13, LockMoves DEF DataInv, Locked
  <1>15. \A a \in begun : a.epoch \in Nat /\ a.epoch <= epoch /\ epoch \in Nat
    BY <1>1, BegunFacts DEF DataInv
  <1>16. BegunInv'
    <2>1. ASSUME NEW b \in begun'
          PROVE  /\ b.id \in 1..id /\ b.epoch <= epoch /\ Fits(b.place, b.store)
                 /\ b.epoch = epoch => Live' /\ b.place = Place(b.store)'
      <3>1. Live' /\ \A x : Place(x)' = Place(x)
        BY <1>3 DEF Live, Place
      <3>2. CASE b \in begun
        <4>1. b.id \in 1..id
          BY <1>2, <1>10, <3>2, BegunFacts
        <4>2. QED
          BY <3>1, <3>2, <4>1, BegunFacts
      <3>3. CASE b = new
        <4>1. id \in 1..id /\ epoch <= epoch
          BY <1>1, <1>2, <1>10 DEF DataInv
        <4>2. QED
          BY <1>4, <1>6, <3>1, <3>3, <4>1
      <3>4. QED
        BY <1>7, <3>2, <3>3
    <2>2. ASSUME NEW a \in begun', NEW b \in begun'
          PROVE  (a.id = b.id => a = b) /\ (a.id <= b.id => a.epoch <= b.epoch)
      <3>1. CASE a \in begun /\ b \in begun
        BY <1>1, <3>1 DEF BegunInv
      <3>2. CASE a \in begun /\ b = new
        BY <1>6, <1>10, <1>15, <3>2
      <3>3. CASE a = new /\ b \in begun
        BY <1>2, <1>6, <1>10, <3>3
      <3>4. CASE a = new /\ b = new
        BY <1>1, <1>6, <3>4 DEF DataInv
      <3>5. QED
        BY <1>7, <3>1, <3>2, <3>3, <3>4
    <2>3. \A st \in Storages : latest'[st] <= id
      <3>1. \A st \in Storages : latest[st] \in Nat /\ latest[st] <= Cardinality(begun)
        BY <1>1, Constants DEF DataInv, BegunInv
      <3>2. QED
        BY <1>2, <1>3, <1>10, <3>1
    <2>4. QED
      BY <1>3, <1>11, <2>1, <2>2, <2>3 DEF BegunInv
  <1>17. \A i : Settled(i) => Settled(i)'
    <2>1. ASSUME NEW i, Settled(i)
          PROVE  Settled(i)'
      <3>1. i # id /\ (\E b \in begun' : b.id = i)
        BY <1>7, <1>10, <2>1 DEF Settled
      <3>2. \A q \in Procs : pc'[q] \in InProgress => job'[q].id # i
        BY <1>8, <1>9, <2>1, <3>1 DEF Settled
      <3>3. QED
        BY <3>1, <3>2 DEF Settled
    <2>2. QED
      BY <2>1
  <1>18. begun \subseteq begun' /\ clock \in Nat /\ clock' \in Nat /\ clock' >= clock
    BY <1>1, <1>2, <1>7, Constants DEF DataInv, Seconds
  <1>19. \A r \in rows' : RowInv(r)'
    <2>1. ASSUME NEW r \in rows'
          PROVE  Kept(r)'
      <3>1. Kept(r)
        BY <1>3, RowFacts DEF RowInv
      <3>2. \A q \in Procs : pc[q] = "deleteRow" => pc'[q] = pc[q] /\ job'[q] = job[q]
        BY <1>3, <1>9
      <3>3. QED
        BY <1>3, <1>18, <3>1, <3>2, KeptStays
    <2>2. QED
      BY <1>3, <1>17, <1>18, <2>1, RowsStay
  <1>20. BackupInv(p)' /\ PruneInv(p)' /\ AskedInv(p)' /\ DropInv(p)'
    <2>1. BackupInv(p)'
      BY <1>7, <1>8, <1>9, <1>11 DEF BackupInv
    <2>2. PruneInv(p)'
      BY <1>8, <1>9 DEF PruneInv, InProgress
    <2>3. QED
      BY <1>9, <2>1, <2>2 DEF AskedInv, DropInv
  <1>21. ASSUME NEW q \in Procs \ {p}
         PROVE  BackupInv(q)' /\ PruneInv(q)' /\ AskedInv(q)' /\ DropInv(q)'
    <2>1. \A st \in Storages : latest'[st] \in Nat /\ latest'[st] >= latest[st]
      BY <1>1, <1>3, Constants DEF DataInv
    <2>2. epoch \in Nat /\ faults \in Nat /\ rows' = rows /\ archive' = archive /\ epoch' = epoch /\ faults' = faults
      BY <1>1, <1>3, Constants DEF DataInv
    <2>3. pc[q] \notin {"record", "restored", "dropRows"} /\ pc[q] \notin Locked
      BY <1>13 DEF Locked
    <2>4. QED
      BY <1>9, <1>17, <1>18, <2>1, <2>2, <2>3, WorkStays
  <1>22. ArchiveInv'
    BY <1>1, <1>3, <1>18 DEF ArchiveInv, Obj
  <1>23. AccountInv'
    <2>1. ASSUME faults = 0, NEW b \in begun', b.epoch = epoch
          PROVE  Ours(b)' /\ (archive'[Obj(b)] = b.id => Accounted(b)')
      <3>1. CASE b \in begun
        <4>1. Ours(b) /\ (archive[Obj(b)] = b.id => Accounted(b))
          BY <1>1, <2>1, <3>1 DEF AccountInv
        <4>2. Ours(b)'
          <5>1. \A q \in Procs : pc[q] = "upload" => pc'[q] = pc[q] /\ job'[q] = job[q]
            BY <1>3, <1>9
          <5>2. QED
            BY <1>3, <1>18, <4>1, <5>1 DEF Ours, Obj
        <4>3. Accounted(b) => Accounted(b)'
          <5>1. \A q \in Procs : Answers(q, b) => Answers(q, b)'
            BY <1>3, <1>9 DEF Answers
          <5>2. QED
            BY <1>3, <5>1 DEF Accounted
        <4>4. QED
          BY <1>3, <4>1, <4>2, <4>3
      <3>2. CASE b = new
        <4>1. Ours(b)'
          BY <1>6, <1>8, <1>9, <3>2 DEF Ours
        <4>2. archive[Obj(b)] # b.id
          <5>1. Obj(b) \in Objects
            BY <1>6, <3>2 DEF Obj, Objects
          <5>2. QED
            BY <1>1, <1>6, <1>10, <3>2, <5>1 DEF ArchiveInv
        <4>3. QED
          BY <1>3, <4>1, <4>2
      <3>3. QED
        BY <1>7, <3>1, <3>2
    <2>2. QED
      BY <1>3, <2>1 DEF AccountInv, Obj
  <1>24. QED
    BY <1>12, <1>14, <1>16, <1>19, <1>20, <1>21, <1>22, <1>23 DEF IInv

---------------------------------------------------------------------------------
(* The theorems. *)

LEMMA InitInv == Init => IInv
  <1> SUFFICES ASSUME Init PROVE IInv
    OBVIOUS
  <1>1. \A p \in Procs : pc[p] = "idle" /\ job[p] = NoJob
    BY DEF Init
  <1>2. DataInv
    <2>1. 0 \in 0..Partial /\ 0 \in Seconds /\ 0 \in 0..MaxFaults /\ 0 \in 0..MaxBackups
      BY Constants DEF Seconds
    <2>2. pc \in [Procs -> Labels] /\ job \in [Procs -> Job]
      BY NoJobFacts DEF Init, Labels
    <2>3. QED
      BY <2>1, <2>2 DEF Init, DataInv
  <1>3. LockInv
    BY <1>1 DEF Init, LockInv, Locked
  <1>4. BegunInv
    <2>1. IsFiniteSet({}) /\ Cardinality({}) = 0
      BY FS_EmptySet
    <2>2. QED
      BY <2>1 DEF Init, BegunInv
  <1>5. \A r \in rows : RowInv(r)
    BY DEF Init
  <1>6. \A p \in Procs : BackupInv(p) /\ PruneInv(p) /\ AskedInv(p) /\ DropInv(p)
    BY <1>1 DEF BackupInv, PruneInv, AskedInv, DropInv, InProgress
  <1>7. ArchiveInv
    BY Constants DEF Init, ArchiveInv
  <1>8. AccountInv
    BY DEF Init, AccountInv
  <1>9. QED
    BY <1>2, <1>3, <1>4, <1>5, <1>6, <1>7, <1>8 DEF IInv

LEMMA Stutter ==
  ASSUME IInv, UNCHANGED vars
  PROVE  IInv'
  <1>1. IInv /\ UNCHANGED <<lock, owner, content, rows, archive, clock, pc, job, faults, begun, latest, epoch, cut>>
    BY DEF vars, past
  <1>2. DataInv' /\ LockInv' /\ BegunInv'
    BY <1>1 DEF IInv, DataInv, LockInv, BegunInv, Live, Place
  <1>3. \A i : (Settled(i)' <=> Settled(i)) /\ (Twin(i)' <=> Twin(i))
    BY <1>1 DEF Settled, Twin
  <1>4. \A r \in rows' : RowInv(r)'
    BY <1>1, <1>3 DEF IInv, RowInv, Kept
  <1>5. \A p \in Procs : BackupInv(p)' /\ AskedInv(p)' /\ DropInv(p)'
    BY <1>1, <1>3 DEF IInv, BackupInv, AskedInv, DropInv, Object, Live, Obj
  <1>6. \A p \in Procs : PruneInv(p)'
    <2>1. \A s, x : Lost(s, x)' <=> Lost(s, x)
      BY <1>1, <1>3 DEF Lost
    <2>2. QED
      BY <1>1, <1>3, <2>1 DEF IInv, PruneInv
  <1>7. ArchiveInv' /\ AccountInv'
    <2>1. \A a : Accounted(a)' <=> Accounted(a)
      BY <1>1 DEF Accounted, Answers
    <2>2. \A a : Ours(a)' <=> Ours(a)
      BY <1>1 DEF Ours, Obj
    <2>3. QED
      BY <1>1, <2>1, <2>2 DEF IInv, ArchiveInv, AccountInv, Obj
  <1>8. QED
    BY <1>2, <1>4, <1>5, <1>6, <1>7 DEF IInv

LEMMA NextInv == IInv /\ [Next]_vars => IInv'
  <1> SUFFICES ASSUME IInv, [Next]_vars PROVE IInv'
    OBVIOUS
  <1>1. CASE Create
    BY <1>1, CreateStep
  <1>2. CASE Transfer
    BY <1>2, TransferStep
  <1>3. CASE Crash
    BY <1>3, CrashStep
  <1>4. ASSUME NEW p \in Procs, Step(p)
        PROVE  IInv'
    BY <1>4, UploadStep, RecordStep, PruneSelectStep, PruneRowStep, PruneOpenStep, PruneObjectStep,
       DeleteObjectStep, DeleteRowStep, DownloadStep, ApplyStep, EndRestoreStep, DropRowsStep DEF Step
  <1>5. ASSUME NEW p \in Procs, Request(p)
        PROVE  IInv'
    BY <1>5, BeginBackupStep, BeginDeleteStep, BeginRestoreStep, BeginDestroyStep DEF Request
  <1>6. CASE UNCHANGED vars
    BY <1>6, Stutter
  <1>7. QED
    BY <1>1, <1>2, <1>3, <1>4, <1>5, <1>6 DEF Next

(* Every reachable state satisfies the invariant the theorems below rest on. *)
THEOREM Invariant == Spec => []IInv
  <1>1. QED
    BY InitInv, NextInv, PTL DEF Spec

(* Every variable keeps its type, a row is the only one of its backup, and the lock is *)
(* held by the one operation that needs it.                                            *)
THEOREM TypeCorrect == Spec => []TypeOK
  <1>1. IInv => TypeOK
    <2> SUFFICES ASSUME IInv PROVE TypeOK
      OBVIOUS
    <2>1. DataInv /\ LockInv
      BY DEF IInv
    <2>2. \A r, s \in rows : r.id = s.id => r = s
      BY DEF IInv, RowInv
    <2>3. Cardinality({p \in Procs : pc[p] \in Locked}) = IF lock THEN 1 ELSE 0
      <3> DEFINE H == {p \in Procs : pc[p] \in Locked}
      <3>1. CASE lock
        <4>1. PICK p \in Procs : pc[p] \in Locked
          BY <2>1, <3>1 DEF LockInv
        <4>2. H = {p}
          BY <2>1, <4>1 DEF LockInv
        <4>3. Cardinality({p}) = 1
          BY FS_Singleton
        <4>4. QED
          BY <3>1, <4>2, <4>3
      <3>2. CASE ~lock
        <4>1. H = {}
          BY <2>1, <3>2 DEF LockInv
        <4>2. Cardinality({}) = 0
          BY FS_EmptySet
        <4>3. QED
          BY <3>2, <4>1, <4>2
      <3>3. QED
        BY <3>1, <3>2
    <2>4. QED
      BY <2>1, <2>2, <2>3 DEF DataInv, TypeOK
  <1>2. QED
    BY <1>1, Invariant, PTL

(* A recorded backup keeps its own archive, whatever uploads, retention and deletes of *)
(* others do: only a twin, a delete of it, or one that a crash cut short, can take it  *)
(* (createBackup, PruneOldBackups, DeleteBackup).                                      *)
THEOREM RestorableHolds == Spec => []Restorable
  <1>1. IInv => Restorable
    BY DEF IInv, RowInv, Kept, Restorable, Deleting
  <1>2. QED
    BY <1>1, Invariant, PTL

(* At rest, and without a fault, an archive of this site has a record: what loses its  *)
(* record is deleted, too (PruneOldBackups, DeleteBackup).                             *)
THEOREM AllAccountedFor == Spec => []AccountedFor
  <1>1. IInv => AccountedFor
    <2> SUFFICES ASSUME IInv, \A p \in Procs : pc[p] = "idle", faults = 0,
                        NEW b \in begun, b.epoch = epoch, archive[Obj(b)] # 0
                 PROVE  \E r \in rows : r.place = b.place /\ r.key = b.key
      BY DEF AccountedFor, Obj
    <2>1. Ours(b) /\ Obj(b) \in Objects
      BY BegunFacts DEF IInv, AccountInv
    <2>2. PICK a \in begun : a.id = archive[Obj(b)] /\ a.epoch = epoch
      BY <2>1 DEF Ours
    <2>3. a.id \in Ids
      BY BegunFacts
    <2>4. PICK c \in begun : c.id = archive[Obj(b)] /\ Obj(c) = Obj(b)
      BY <2>1, <2>2, <2>3 DEF IInv, ArchiveInv
    <2>5. c = a
      BY <2>2, <2>4 DEF IInv, BegunInv
    <2>6. Accounted(a)
      BY <2>2, <2>4, <2>5 DEF IInv, AccountInv
    <2>7. PICK r \in rows : r.id = a.id
      BY <2>6 DEF Accounted, Answers
    <2>8. PICK d \in begun : Of(r, d)
      BY <2>7, RowFacts DEF RowInv
    <2>9. d = a
      BY <2>7, <2>8 DEF IInv, BegunInv, Of
    <2>10. QED
      BY <2>4, <2>5, <2>8, <2>9 DEF Of, Obj
  <1>2. QED
    BY <1>1, Invariant, PTL

(* A restore that succeeds has put the backup it was asked for on the site, or its twin *)
(* (RestoreBackup).                                                                     *)
THEOREM RestoresWhole == Spec => []RestoresAll
  <1>1. IInv => RestoresAll
    BY DEF IInv, AskedInv, RestoresAll, At
  <1>2. QED
    BY <1>1, Invariant, PTL

(* No step of retention deletes the record of the newest backup of a storage, however   *)
(* late after its select it comes (DeleteOldestBackups).                                *)
THEOREM NewestStays == Spec => NewestKept
  <1> DEFINE Newest == \A p \in Procs : At(p, "pruneRow") /\ job'[p] # job[p] =>
                         \A r \in rows \ rows' : r.id # latest[r.store]
  <1>1. IInv /\ [Next]_vars => [Newest]_vars
    <2> SUFFICES ASSUME IInv, Next, NEW p \in Procs, pc[p] = "pruneRow", job'[p] # job[p],
                        NEW r \in rows, r \notin rows'
                 PROVE  r.id # latest[r.store]
      BY DEF At
    <2>1. PICK q \in Procs : PruneRow(q) \/ DeleteRow(q) \/ DropRows(q)
      BY DEF Next, Step, Request, Create, Transfer, Crash, Upload, Record, PruneSelect, PruneOpen, PruneObject,
             DeleteObject, Download, Apply, EndRestore, BeginBackup, BeginDelete, BeginRestore, BeginDestroy
    <2>2. q = p
      BY <2>1 DEF PruneRow, DeleteRow, DropRows, End, Release, IInv, DataInv
    <2>3. PruneRow(p)
      BY <2>1, <2>2 DEF DeleteRow, DropRows, At
    <2>4. PICK s \in job[p].todo : rows' = rows \ {s}
      BY <2>3 DEF PruneRow
    <2>5. r = s
      BY <2>4
    <2>6. r.id < latest[r.store]
      BY <2>4, <2>5, Facts DEF PruneInv
    <2>7. r.id \in Nat /\ latest[r.store] \in Nat
      <3>1. r.store \in Storages /\ r.id \in Nat
        BY RowFacts, BackupFacts
      <3>2. latest \in [Storages -> 0..MaxBackups] /\ MaxBackups \in Nat
        BY Constants DEF IInv, DataInv
      <3>3. QED
        BY <3>1, <3>2
    <2>8. QED
      BY <2>6, <2>7
  <1>2. QED
    BY <1>1, Invariant, PTL DEF Spec, NewestKept

=================================================================================

-------------------------------- MODULE Backups ---------------------------------
(***************************************************************************)
(* The backups of one domain: the rows of the backups table and the        *)
(* archives in storage they point to. Backups, restores and destroys hold  *)
(* the site's lock; deletes, retention and transfers do not. Statements of *)
(* the database and calls to storage are steps of their own.               *)
(***************************************************************************)
EXTENDS Naturals, Sequences, FiniteSets

CONSTANTS Owners,     \* site owners, each with a local backup directory
          Admin,      \* the owner "" of the sites no user owns
          Nobody,     \* the owner of no site
          Storages,   \* storage names: "local" is the owner's directory
          Keeps,      \* keep counts of backup schedules
          Procs,      \* goroutines of requests and of the scheduler
          MaxBackups, MaxClock, MaxEpochs, MaxFaults   \* bounds

ASSUME OwnersAssumption   == Admin \in Owners /\ Nobody \notin Owners
ASSUME StoragesAssumption == Storages \cap (Owners \cup {Nobody}) = {}
ASSUME KeepsAssumption    == Keeps \subseteq Nat \ {0}
ASSUME BoundsAssumption   ==
  {MaxBackups, MaxClock, MaxEpochs, MaxFaults} \subseteq Nat

VARIABLES
  lock,     \* is the site's lock held?
  owner,    \* the owner of the domain's site, or Nobody
  content,  \* the backup the site's files were restored from; 0: none
  rows,     \* the backups table; place is where the archive was put (history)
  archive,  \* storage: the backup whose archive is at a place under a key
  clock,    \* the wall clock, in the seconds that name archives
  pc, job,
  faults,   \* calls that failed, and deaths of the daemon
  begun,    \* every backup that was begun, and when (history)
  latest,   \* the last backup recorded in each storage (history)
  epoch,    \* how often the site changed hands: create, transfer, destroy (history)
  cut       \* backups whose DeleteBackup a crash cut short (history)

past == <<begun, latest, epoch, cut>>
vars == <<lock, owner, content, rows, archive, clock, pc, job, faults, past>>

Places  == Owners \cup Storages
Seconds == 0..MaxClock
Ids     == 1..MaxBackups
Objects == Places \X Seconds
Partial == MaxBackups + 1                  \* part of an archive, or of a restore
Backup  == [id : Ids, store : Storages, key : Seconds, place : Places, at : Seconds]

Locked == {"upload", "record", "download", "apply", "restored", "dropRows"}
Labels == Locked \cup {"idle", "pruneSelect", "pruneRow", "pruneOpen", "pruneObject",
                       "deleteObject", "deleteRow"}
NoJob  == [id |-> 0, store |-> "local", place |-> Admin, key |-> 0, keep |-> 0,
           todo |-> {}, paths |-> <<>>, got |-> 0]
Job    == [id : 0..MaxBackups, store : Storages \cup {"local"}, place : Places, key : Seconds,
           keep : Keeps \cup {0}, todo : SUBSET Backup, paths : Seq(Seconds), got : 0..Partial]

(* The lock is held by the one operation that needs it. *)
TypeOK ==
  /\ lock \in BOOLEAN /\ Cardinality({p \in Procs : pc[p] \in Locked}) = IF lock THEN 1 ELSE 0
  /\ owner \in Owners \cup {Nobody} /\ content \in 0..Partial
  /\ rows \subseteq Backup /\ \A r, s \in rows : r.id = s.id => r = s
  /\ archive \in [Objects -> 0..Partial] /\ clock \in Seconds
  /\ pc \in [Procs -> Labels] /\ job \in [Procs -> Job]
  /\ faults \in 0..MaxFaults
  /\ begun \subseteq [id : Ids, store : Storages, place : Places, key : Seconds, epoch : Nat]
  /\ latest \in [Storages -> 0..MaxBackups] /\ epoch \in Nat /\ cut \subseteq Ids

Init ==
  /\ lock = FALSE /\ owner = Nobody /\ content = 0
  /\ rows = {} /\ archive = [o \in Objects |-> 0] /\ clock = 0
  /\ pc = [p \in Procs |-> "idle"] /\ job = [p \in Procs |-> NoJob]
  /\ faults = 0
  /\ begun = {} /\ latest = [s \in Storages |-> 0] /\ epoch = 0 /\ cut = {}

---------------------------------------------------------------------------------
(* Helpers. *)

At(p, l) == pc[p] = l
Goto(p, l) == pc' = [pc EXCEPT ![p] = l]
Keep(p) == UNCHANGED job
Fault == faults < MaxFaults /\ faults' = faults + 1
Works == UNCHANGED faults
Live == owner # Nobody
TimePasses == clock' \in {clock, clock + 1} \cap Seconds

(* getStorage: "local" is the directory of the site's owner; without a site, the daemon's. *)
Place(store) == IF store # "local" THEN store ELSE IF Live THEN owner ELSE Admin
Object(p) == <<job[p].place, job[p].key>>

Start(p, l, rest) == At(p, "idle") /\ Goto(p, l) /\ job' = [job EXCEPT ![p] = rest]
Acquire == ~lock /\ lock' = TRUE
End(p) == Goto(p, "idle") /\ job' = [job EXCEPT ![p] = NoJob]
Release(p) == End(p) /\ lock' = FALSE

Fetch(r) == [NoJob EXCEPT !.id = r.id, !.key = r.key, !.place = Place(r.store)]

---------------------------------------------------------------------------------
(* createBackup: for a request or a deploy (keep is 0), or an entry of the scheduler. *)

(* The storage is opened for the owner, and the archive is named by the second. Without a *)
(* site, or with nothing to back up, nothing happens.                                     *)
BeginBackup(p) == \E s \in Storages, keep \in Keeps \cup {0} :
  LET id == Cardinality(begun) + 1 IN
  /\ id \in Ids /\ Live /\ Acquire /\ TimePasses
  /\ Start(p, "upload", [NoJob EXCEPT !.id = id, !.store = s, !.keep = keep,
                                      !.place = Place(s), !.key = clock'])
  /\ begun' = begun \cup {[id |-> id, store |-> s, place |-> Place(s), key |-> clock',
                           epoch |-> epoch]}
  /\ UNCHANGED <<owner, content, rows, archive, faults, latest, epoch, cut>>

UploadErrorIgnored(p) ==
  /\ At(p, "upload") /\ Goto(p, "record") /\ UNCHANGED <<job, lock>>
  /\ \/ Works /\ archive' = [archive EXCEPT ![Object(p)] = job[p].id]
     \/ Fault /\ archive' = [archive EXCEPT ![Object(p)] = Partial]
  /\ UNCHANGED <<owner, content, rows, clock, past>>
(* What was there under that name is overwritten; a failed upload leaves a part, or nothing. *)
Upload(p) ==
  /\ At(p, "upload")
  /\ \/ /\ Works /\ Goto(p, "record") /\ UNCHANGED <<job, lock>>
        /\ archive' = [archive EXCEPT ![Object(p)] = job[p].id]
     \/ /\ Fault /\ Release(p)
        /\ archive' \in {archive, [archive EXCEPT ![Object(p)] = Partial]}
  /\ UNCHANGED <<owner, content, rows, clock, past>>

(* The row is inserted and the lock released; a scheduled backup goes on to retention. *)
Record(p) == LET j == job[p] IN
  /\ At(p, "record") /\ lock' = FALSE /\ TimePasses
  /\ rows' = rows \cup {[id |-> j.id, store |-> j.store, key |-> j.key, place |-> j.place,
                         at |-> clock']}
  /\ latest' = [latest EXCEPT ![j.store] = j.id]
  /\ \/ j.keep = 0 /\ End(p)
     \/ j.keep # 0 /\ Goto(p, "pruneSelect") /\ Keep(p)
  /\ UNCHANGED <<owner, content, archive, faults, begun, epoch, cut>>

---------------------------------------------------------------------------------
(* PruneOldBackups, without the lock. *)

In(store) == {r \in rows : r.store = store}

OldInAnyOrder(store, keep) == {r \in In(store) :
  Cardinality({n \in In(store) : n.at > r.at \/ (n.at = r.at /\ n.id < r.id)}) >= keep}
(* ORDER BY created_at DESC, id DESC LIMIT -1 OFFSET keep *)
Old(store, keep) == {r \in In(store) :
  Cardinality({n \in In(store) : n.at > r.at \/ (n.at = r.at /\ n.id > r.id)}) >= keep}

PruneSelect(p) ==
  /\ At(p, "pruneSelect") /\ Goto(p, "pruneRow")
  /\ job' = [job EXCEPT ![p].todo = Old(job[p].store, job[p].keep)]
  /\ UNCHANGED <<lock, owner, content, rows, archive, clock, faults, past>>

(* DeleteOldestBackups deletes row by row, newest first; a row that is gone already is no error. *)
PruneRow(p) == \E r \in job[p].todo :
  /\ At(p, "pruneRow") /\ UNCHANGED pc /\ \A n \in job[p].todo : n.id <= r.id
  /\ rows' = rows \ {r}
  /\ job' = [job EXCEPT ![p].todo = @ \ {r}, ![p].paths = Append(@, r.key)]
  /\ UNCHANGED <<lock, owner, content, archive, clock, faults, past>>

PruneOpenSkipped(p) ==
  /\ At(p, "pruneRow") /\ job[p].todo = {} /\ End(p)
  /\ UNCHANGED <<lock, owner, content, rows, archive, clock, faults, past>>
(* The storage is opened again, for the owner the site has now. *)
PruneOpen(p) ==
  /\ At(p, "pruneRow") /\ job[p].todo = {}
  /\ \/ job[p].paths = <<>> /\ End(p)
     \/ /\ job[p].paths # <<>> /\ Goto(p, "pruneObject")
        /\ job' = [job EXCEPT ![p].place = Place(job[p].store)]
  /\ UNCHANGED <<lock, owner, content, rows, archive, clock, faults, past>>

(* Each archive is deleted in its turn; one that cannot be is only logged. *)
PruneObject(p) == LET j == job[p] IN
  /\ At(p, "pruneObject")
  /\ \/ Works /\ archive' = [archive EXCEPT ![<<j.place, Head(j.paths)>>] = 0]
     \/ Fault /\ UNCHANGED archive
  /\ \/ Tail(j.paths) = <<>> /\ End(p)
     \/ Tail(j.paths) # <<>> /\ UNCHANGED pc /\ job' = [job EXCEPT ![p].paths = Tail(@)]
  /\ UNCHANGED <<lock, owner, content, rows, clock, past>>

---------------------------------------------------------------------------------
(* DeleteBackup, without the lock: the archive (an error is ignored), then the row. *)

BeginDelete(p) == \E r \in rows :
  /\ Start(p, "deleteObject", Fetch(r))
  /\ UNCHANGED <<lock, owner, content, rows, archive, clock, faults, past>>

DeleteObject(p) ==
  /\ At(p, "deleteObject") /\ Goto(p, "deleteRow") /\ Keep(p)
  /\ \/ Works /\ archive' = [archive EXCEPT ![Object(p)] = 0]
     \/ Fault /\ UNCHANGED archive
  /\ UNCHANGED <<lock, owner, content, rows, clock, past>>

DeleteRow(p) ==
  /\ At(p, "deleteRow") /\ End(p)
  /\ rows' = {r \in rows : r.id # job[p].id}
  /\ UNCHANGED <<lock, owner, content, archive, clock, faults, past>>

---------------------------------------------------------------------------------
(* RestoreBackup. *)

BeginRestore(p) == \E r \in rows :
  /\ Live /\ Acquire /\ Start(p, "download", Fetch(r))
  /\ UNCHANGED <<owner, content, rows, archive, clock, faults, past>>

DownloadLeaksLock(p) ==
  /\ At(p, "download") /\ UNCHANGED lock
  /\ \/ /\ archive[Object(p)] \in Ids /\ Works /\ Goto(p, "apply")
        /\ job' = [job EXCEPT ![p].got = archive[Object(p)]]
     \/ archive[Object(p)] \notin Ids /\ Works /\ End(p)
     \/ Fault /\ End(p)
  /\ UNCHANGED <<owner, content, rows, archive, clock, past>>
(* The whole archive is read and checked before the site is touched. *)
Download(p) == LET got == archive[Object(p)] IN
  /\ At(p, "download")
  /\ \/ /\ got \in Ids /\ Works /\ Goto(p, "apply") /\ UNCHANGED lock
        /\ job' = [job EXCEPT ![p].got = got]
     \/ got \notin Ids /\ Works /\ Release(p)
     \/ Fault /\ Release(p)
  /\ UNCHANGED <<owner, content, rows, archive, clock, past>>

ApplySilently(p) ==
  /\ At(p, "apply") /\ Goto(p, "restored") /\ Keep(p) /\ UNCHANGED lock
  /\ \/ Works /\ content' = job[p].got
     \/ Fault /\ content' = Partial
  /\ UNCHANGED <<owner, rows, archive, clock, past>>
(* Files, data and databases; what fails on the way is skipped and reported at the end. *)
Apply(p) ==
  /\ At(p, "apply")
  /\ \/ Works /\ content' = job[p].got /\ Goto(p, "restored") /\ Keep(p) /\ UNCHANGED lock
     \/ Fault /\ content' = Partial /\ Release(p)
  /\ UNCHANGED <<owner, rows, archive, clock, past>>

EndRestore(p) ==
  /\ At(p, "restored") /\ Release(p)
  /\ UNCHANGED <<owner, content, rows, archive, clock, faults, past>>

---------------------------------------------------------------------------------
(* The site: CreateSite, TransferSite and DestroySite, and the daemon. *)

NewEpoch == epoch < MaxEpochs /\ epoch' = epoch + 1

Create == \E o \in Owners :
  /\ ~Live /\ ~lock /\ owner' = o /\ NewEpoch
  /\ UNCHANGED <<lock, content, rows, archive, clock, pc, job, faults, begun, latest, cut>>

(* The owner changes without the lock; the archives stay where they are. *)
Transfer == \E o \in Owners \ {owner} :
  /\ Live /\ owner' = o /\ NewEpoch
  /\ UNCHANGED <<lock, content, rows, archive, clock, pc, job, faults, begun, latest, cut>>

(* DeleteSite, then DeleteSiteChildData. Archives are not touched. *)
BeginDestroy(p) ==
  /\ Live /\ Acquire /\ Start(p, "dropRows", NoJob) /\ owner' = Nobody /\ NewEpoch
  /\ UNCHANGED <<content, rows, archive, clock, faults, begun, latest, cut>>

DropRows(p) ==
  /\ At(p, "dropRows") /\ Release(p) /\ rows' = {} /\ content' = 0
  /\ UNCHANGED <<owner, archive, clock, faults, past>>

(* The daemon dies and comes back. *)
Crash ==
  /\ Fault /\ lock' = FALSE /\ pc' = [p \in Procs |-> "idle"] /\ job' = [p \in Procs |-> NoJob]
  /\ cut' = cut \cup {job[p].id : p \in {q \in Procs : At(q, "deleteRow")}}
  /\ UNCHANGED <<owner, content, rows, archive, clock, begun, latest, epoch>>

Step(p) ==
  \/ Upload(p) \/ Record(p) \/ PruneSelect(p) \/ PruneRow(p) \/ PruneOpen(p) \/ PruneObject(p)
  \/ DeleteObject(p) \/ DeleteRow(p) \/ Download(p) \/ Apply(p) \/ EndRestore(p) \/ DropRows(p)
Request(p) == BeginBackup(p) \/ BeginDelete(p) \/ BeginRestore(p) \/ BeginDestroy(p)

Next == Create \/ Transfer \/ Crash \/ \E p \in Procs : Step(p) \/ Request(p)

Spec == Init /\ [][Next]_vars
---------------------------------------------------------------------------------
(* What it is for. *)

(* Two backups of one second share the name of their archives, and in one place the archive. *)
Twin(id) == \E a, b \in begun :
  a.id = id /\ b.id # id /\ a.store = b.store /\ a.key = b.key
Deleting(id) == \E p \in Procs : pc[p] \in {"deleteObject", "deleteRow"} /\ job[p].id = id

(* A recorded backup can be restored: while the site's archives are where the backup *)
(* was put, its own archive is there, whatever retention, failed uploads and deletes *)
(* of other backups do at the same time. The exceptions are a twin, and a delete at  *)
(* work on it or cut short by a crash (createBackup, PruneOldBackups, DeleteBackup).  *)
Restorable == \A r \in rows :
  r.place = Place(r.store) /\ ~Twin(r.id) /\ ~Deleting(r.id) /\ r.id \notin cut
  => archive[<<r.place, r.key>>] = r.id

(* Retention never deletes the record of the newest backup in a storage, also when    *)
(* several were recorded in one second (DeleteOldestBackups: id breaks the ties).     *)
NewestKept == [][\A p \in Procs : At(p, "pruneRow") /\ job'[p] # job[p] =>
  \A r \in rows \ rows' : r.id # latest[r.store]]_vars

(* Retention and deletes free the storage: at rest, when nothing failed and the site   *)
(* did not change hands since, every archive has a record (PruneOldBackups).           *)
AccountedFor ==
  pc = [p \in Procs |-> "idle"] /\ faults = 0 =>
    \A b \in begun : b.epoch = epoch /\ archive[<<b.place, b.key>>] # 0 =>
      \E r \in rows : r.place = b.place /\ r.key = b.key

(* A restore that reports success put the backup it was asked for on the site, and     *)
(* all of it (RestoreBackup).                                                          *)
RestoresAll == \A p \in Procs :
  At(p, "restored") => content = job[p].id \/ Twin(job[p].id)

=================================================================================

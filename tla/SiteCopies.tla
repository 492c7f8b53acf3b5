------------------------------- MODULE SiteCopies --------------------------------
(***************************************************************************)
(* Sites made from others: Clone, which copies the directories of a native *)
(* site at rest, or paths and a dump of a compose site; ExportSite, and    *)
(* ImportSite from an archive, which CreateSiteFromBackup ends in, too.    *)
(* They hold the lock of the source, if at all; the target is locked only  *)
(* in CreateSite. All sites are of one owner, so a domain has one place on *)
(* disk; a content is a number, made by a create or by the site's traffic. *)
(***************************************************************************)
EXTENDS Naturals, FiniteSets

CONSTANTS Domains, Procs,
          MaxMade,     \* bound on the contents
          MaxTroubles, \* bound on the calls that fail
          MaxRequests, \* bound on the requests
          None

ASSUME BoundsAssumption == MaxMade \in Nat /\ MaxTroubles \in Nat /\ MaxRequests \in Nat

VARIABLES
  lock,
  site,     \* the row: driver type, status, environment, and the secret db_name
  disk,     \* the directories of a domain: what is in the root; the database in the volume
  up,       \* the domains whose containers run
  archive,  \* an export or a backup, if there is one
  made, troubles, asked,
  pc, job,
  hurt      \* domains whose containers a failing call or an import left as they should not be (history)

state == <<lock, site, disk, up, archive, made, troubles, asked>>
vars  == <<state, pc, job, hurt>>

Content  == 0..MaxMade                     \* 0: nothing but what every new site has
Torn     == MaxMade + 1                    \* copied from under a running database
Database == [name : Domains, of : Content \cup {Torn}]
Row      == [kind : {"native", "compose"}, status : {"creating", "running", "stopped"},
             env : Content, name : Domains]
Empty    == [root |-> {}, data |-> None]
Archive  == [backup : BOOLEAN, from : Domains, kind : {"native", "compose"}, root : SUBSET Content,
             env : Content, db : Content \cup {Torn, None}]
Idle     == [op |-> "none", src |-> None, tgt |-> None, row |-> None, want |-> None, clean |-> TRUE, failed |-> FALSE]

ASSUME NoneAssumption ==
  /\ None \notin Domains /\ None \notin Procs /\ None \notin Row /\ None \notin Database
  /\ None \notin Content /\ None # Torn

(* Besides the types: a lock has one holder, which is in one of the locked parts.          *)
Labels == {"idle", "create", "provision", "quiet", "root", "data", "wake", "discard", "paths",
           "env", "dump", "files", "replay", "setEnv", "restart", "purge", "done"}
Holds(p) == (IF job[p].op \in {"clone", "destroy"} THEN {job[p].src} ELSE {})
            \cup (IF pc[p] = "provision" THEN {job[p].tgt} ELSE {})
TypeOK ==
  /\ lock = UNION {Holds(p) : p \in Procs}
  /\ \A p, q \in Procs : p # q => Holds(p) \cap Holds(q) = {}
  /\ site \in [Domains -> Row \cup {None}]
  /\ disk \in [Domains -> [root : SUBSET Content, data : Database \cup {None}]]
  /\ up \subseteq Domains /\ hurt \subseteq Domains /\ archive \in Archive \cup {None}
  /\ made \in Content /\ troubles \in 0..MaxTroubles /\ asked \in 0..MaxRequests
  /\ pc \in [Procs -> Labels] /\ \A p \in Procs : pc[p] = "idle" <=> job[p] = Idle

Init ==
  /\ lock = {} /\ up = {} /\ archive = None /\ made = 0 /\ troubles = 0 /\ asked = 0 /\ hurt = {}
  /\ site = [d \in Domains |-> None] /\ disk = [d \in Domains |-> Empty]
  /\ pc = [p \in Procs |-> "idle"] /\ job = [p \in Procs |-> Idle]

---------------------------------------------------------------------------------
(* Helpers. *)

At(p, l)   == pc[p] = l
Ask(p)     == At(p, "idle") /\ asked < MaxRequests /\ asked' = asked + 1
Goto(p, l) == pc' = [pc EXCEPT ![p] = l]
Src(p)     == job[p].src
Tgt(p)     == job[p].tgt
Exists(d)  == site[d] # None
New        == made' = IF made < MaxMade THEN made + 1 ELSE made  \* past the bound, the last one is made again
Trouble    == troubles < MaxTroubles /\ troubles' = troubles + 1
Native(p)  == job[p].row.kind = "native"

(* The copies of others that are made to these domains, or from them, are disturbed. *)
Spoil(p, ds) == [q \in Procs |-> IF q # p /\ ds \cap {Src(q), Tgt(q)} # {} THEN [job[q] EXCEPT !.clean = FALSE]
                                                                       ELSE job[q]]

(* The request ends; a clone gives the lock of its source back. *)
EndHolding(p) == Goto(p, "idle") /\ UNCHANGED lock
End(p) ==
  /\ Goto(p, "idle") /\ lock' = lock \ (IF job[p].op = "clone" THEN {Src(p)} ELSE {})

Done(p) ==
  /\ At(p, "done") /\ End(p) /\ job' = [job EXCEPT ![p] = Idle]
  /\ UNCHANGED <<site, disk, up, archive, made, troubles, hurt, asked>>

(* What the commands of the database reach: they name it after the domain on a native      *)
(* site, and use the superuser on a compose site.                                          *)
DumpOf(d, name) ==
  IF d \in up /\ disk[d].data # None /\ (site[d].kind = "compose" \/ disk[d].data.name = name)
  THEN disk[d].data.of ELSE None

---------------------------------------------------------------------------------
(* CreateSite, alone or within a clone or an import: checks and row, then the rest, all    *)
(* under the lock of the new domain.                                                       *)

Claimed(d, row) == [site EXCEPT ![d] = [row EXCEPT !.status = "creating", !.env = 0]]

BeginCreate(p, d, kind) == LET row == [kind |-> kind, status |-> "running", env |-> 0, name |-> d] IN
  /\ Ask(p) /\ d \notin lock /\ ~Exists(d) /\ New
  /\ Goto(p, "provision") /\ lock' = lock \cup {d} /\ site' = Claimed(d, row)
  /\ job' = [Spoil(p, {d}) EXCEPT ![p] =
       [Idle EXCEPT !.op = "create", !.tgt = d, !.row = row, !.want = [root |-> {made'}, env |-> made', db |-> made']]]
  /\ UNCHANGED <<disk, up, archive, troubles, hurt>>

Refuse(p) ==
  /\ At(p, "create") /\ (Tgt(p) \in lock \/ Exists(Tgt(p))) /\ End(p)
  /\ job' = [job EXCEPT ![p] = Idle]
  /\ UNCHANGED <<site, disk, up, archive, made, troubles, hurt, asked>>

Claim(p) == LET d == Tgt(p) IN
  /\ At(p, "create") /\ d \notin lock /\ ~Exists(d)
  /\ Goto(p, "provision") /\ lock' = lock \cup {d} /\ site' = Claimed(d, job[p].row)
  /\ job' = Spoil(p, {d})
  /\ UNCHANGED <<disk, up, archive, made, troubles, hurt, asked>>

(* A database container starts on the volume there is; only an empty one is initialised.   *)
Provision(p) ==
  LET d     == Tgt(p)
      own   == job[p].op = "create"
      fresh == IF own THEN job[p].want ELSE [root |-> {}, env |-> 0, db |-> 0]
  IN
  /\ At(p, "provision") /\ lock' = lock \ {d}
  /\ job' = [Spoil(p, {d}) EXCEPT ![p] = IF own THEN Idle ELSE @]
  /\ disk' = [disk EXCEPT ![d] =
       [root |-> @.root \cup fresh.root,
        data |-> IF @.data # None THEN @.data ELSE [name |-> job[p].row.name, of |-> fresh.db]]]
  /\ site' = [site EXCEPT ![d].status = "running", ![d].env = fresh.env]
  /\ up' = up \cup {d} /\ hurt' = hurt \ {d}
  /\ Goto(p, CASE own -> "idle"
               [] job[p].op = "clone" -> IF Native(p) THEN "env" ELSE "paths"
               [] OTHER -> "files")
  /\ UNCHANGED <<archive, made, troubles, asked>>

(* rollbackPartialCreate takes the directories along. *)
Rollback(p) == LET d == Tgt(p) IN
  /\ At(p, "provision") /\ Trouble /\ Goto(p, "idle")
  /\ lock' = lock \ ({d} \cup IF job[p].op = "clone" THEN {Src(p)} ELSE {})
  /\ site' = [site EXCEPT ![d] = None] /\ disk' = [disk EXCEPT ![d] = Empty] /\ up' = up \ {d}
  /\ job' = [Spoil(p, {d}) EXCEPT ![p] = Idle]
  /\ UNCHANGED <<archive, made, hurt, asked>>

---------------------------------------------------------------------------------
(* Clone: the target is looked at once, without its lock. *)

(* What a faithful copy has; the database is known once it is at rest, or dumped. *)
Want(d) == [root |-> disk[d].root, env |-> site[d].env, db |-> None]

BeginClone(p, s, t) ==
  /\ Ask(p) /\ s # t /\ s \notin lock /\ Exists(s) /\ ~Exists(t) /\ lock' = lock \cup {s}
  /\ Goto(p, IF site[s].kind = "native" THEN "quiet" ELSE "create")
  /\ job' = [Spoil(p, {s, t}) EXCEPT ![p] =
       [Idle EXCEPT !.op = "clone", !.src = s, !.tgt = t, !.want = Want(s),
                    !.row = IF site[s].kind = "native" THEN [site[s] EXCEPT !.name = s]
                                                       ELSE [site[s] EXCEPT !.name = t],
                    !.clean = disk[t] = Empty /\ \A q \in Procs : t \notin {Src(q), Tgt(q)}]]
  /\ UNCHANGED <<site, disk, up, archive, made, troubles, hurt>>

Resting(d) == IF disk[d].data = None THEN None ELSE disk[d].data.of

QuietNot(p) ==
  /\ At(p, "quiet") /\ Goto(p, "root") /\ job' = [job EXCEPT ![p].want.db = Resting(Src(p))]
  /\ UNCHANGED <<state, hurt>>
Quiet(p) ==
  /\ At(p, "quiet") /\ Goto(p, "root") /\ up' = up \ {Src(p)}
  /\ job' = [job EXCEPT ![p].want.db = Resting(Src(p))]
  /\ UNCHANGED <<lock, site, disk, archive, made, troubles, hurt, asked>>

(* copyDir adds to what is there, file by file; one that fails leaves a part.              *)
CopyRoot(p) == LET from == disk[Src(p)].root  j == Spoil(p, {Tgt(p)}) IN
  /\ At(p, "root")
  /\ \/ /\ Goto(p, "data") /\ job' = j /\ UNCHANGED troubles
        /\ disk' = [disk EXCEPT ![Tgt(p)].root = @ \cup from]
     \/ /\ Trouble /\ Goto(p, "wake") /\ job' = [j EXCEPT ![p].failed = TRUE]
        /\ \E part \in SUBSET from : disk' = [disk EXCEPT ![Tgt(p)].root = @ \cup part]
  /\ UNCHANGED <<lock, site, up, archive, made, hurt, asked>>

CopyData(p) == LET from == disk[Src(p)].data  j == Spoil(p, {Tgt(p)}) IN
  /\ At(p, "data") /\ Goto(p, "wake")
  /\ \/ /\ job' = j /\ UNCHANGED troubles
        /\ disk' = [disk EXCEPT ![Tgt(p)].data =
             IF from = None THEN @ ELSE IF Src(p) \in up THEN [from EXCEPT !.of = Torn] ELSE from]
     \/ /\ Trouble /\ job' = [j EXCEPT ![p].failed = TRUE]
        /\ disk' = [disk EXCEPT ![Tgt(p)].data = IF from = None THEN @ ELSE [from EXCEPT !.of = Torn]]
  /\ UNCHANGED <<lock, site, up, archive, made, hurt, asked>>

(* The source is started as it was found, whether the copy failed or not. *)
WakeAfterCopy(p) == LET d == Src(p) IN
  /\ At(p, "wake") /\ Goto(p, IF job[p].failed THEN "discard" ELSE "create")
  /\ up' = IF job[p].row.status = "running" /\ ~job[p].failed THEN up \cup {d} ELSE up
  /\ UNCHANGED <<lock, site, disk, archive, made, troubles, job, hurt, asked>>
Wake(p) == LET d == Src(p) IN
  /\ At(p, "wake") /\ Goto(p, IF job[p].failed THEN "discard" ELSE "create")
  /\ \/ up' = (IF job[p].row.status = "running" THEN up \cup {d} ELSE up) /\ UNCHANGED <<troubles, hurt>>
     \/ job[p].row.status = "running" /\ Trouble /\ hurt' = hurt \cup {d} /\ UNCHANGED up
  /\ UNCHANGED <<lock, site, disk, archive, made, job, asked>>

Discard(p) ==
  /\ At(p, "discard") /\ End(p) /\ disk' = [disk EXCEPT ![Tgt(p)] = Empty]
  /\ job' = [Spoil(p, {Tgt(p)}) EXCEPT ![p] = Idle]
  /\ UNCHANGED <<site, up, archive, made, troubles, hurt, asked>>

(* The environment goes to whatever site the target is by now. *)
CopyEnv(p) == LET d == Tgt(p) IN
  /\ pc[p] \in {"env", "setEnv"} /\ job' = Spoil(p, {d})
  /\ Goto(p, CASE pc[p] = "setEnv" -> "restart" [] Native(p) -> "done" [] OTHER -> "dump")
  /\ site' = IF Exists(d) /\ job[p].want.env # 0 THEN [site EXCEPT ![d].env = job[p].want.env] ELSE site
  /\ UNCHANGED <<lock, disk, up, archive, made, troubles, hurt, asked>>

(* Of a compose site the declared paths are copied, with errors ignored, and the databases *)
(* that can be dumped.                                                                     *)
CopyPaths(p) ==
  /\ At(p, "paths") /\ Goto(p, "env")
  /\ \/ /\ disk' = [disk EXCEPT ![Tgt(p)].root = @ \cup disk[Src(p)].root]
        /\ job' = Spoil(p, {Tgt(p)}) /\ UNCHANGED troubles
     \/ /\ Trouble /\ job' = [Spoil(p, {Tgt(p)}) EXCEPT ![p].clean = FALSE] /\ UNCHANGED disk
  /\ UNCHANGED <<lock, site, up, archive, made, hurt, asked>>

(* restoreDatabase: into the database of that name, if it is there and answers.            *)
Restored(d, name, db) ==
  IF db # None /\ Exists(d) /\ DumpOf(d, name) # None THEN [disk EXCEPT ![d].data.of = db] ELSE disk

CopyDump(p) == LET db == DumpOf(Src(p), Src(p)) IN
  /\ At(p, "dump") /\ Goto(p, "done")
  /\ disk' = Restored(Tgt(p), Tgt(p), db)
  /\ job' = [Spoil(p, {Tgt(p)}) EXCEPT ![p].want.db = Resting(Src(p)), ![p].clean = @ /\ Src(p) \in up]
  /\ UNCHANGED <<lock, site, up, archive, made, troubles, hurt, asked>>

---------------------------------------------------------------------------------
(* ExportSite and CreateBackup, under the lock of the site, which keeps all but its traffic *)
(* away; an export goes on without a database it cannot dump. One archive is enough here.  *)

Taken(d, backup) == [backup |-> backup, from |-> d, kind |-> site[d].kind, root |-> disk[d].root,
                     env |-> site[d].env, db |-> DumpOf(d, d)]

Export(d) ==
  /\ d \notin lock /\ Exists(d) /\ archive = None /\ archive' = Taken(d, FALSE)
  /\ UNCHANGED <<lock, site, disk, up, made, troubles, pc, job, hurt, asked>>

Backup(d) ==
  /\ d \notin lock /\ Exists(d) /\ DumpOf(d, d) # None /\ archive = None /\ archive' = Taken(d, TRUE)
  /\ UNCHANGED <<lock, site, disk, up, made, troubles, pc, job, hurt, asked>>

ImportSite(p, t) ==
  /\ Ask(p) /\ Goto(p, "create")
  /\ job' = [Spoil(p, {t}) EXCEPT ![p] =
       [Idle EXCEPT !.op = "import", !.tgt = t,
                    !.want = [root |-> archive.root, env |-> archive.env, db |-> archive.db],
                    !.row = [kind |-> archive.kind, status |-> "running", env |-> 0, name |-> archive.from],
                    !.clean = disk[t] = Empty /\ \A q \in Procs : t \notin {Src(q), Tgt(q)}]]
  /\ UNCHANGED <<lock, site, disk, up, archive, made, troubles, hurt>>

(* An export is uploaded, for any domain; a backup makes another site next to its own.     *)
BeginImport(p, t) == archive # None /\ ~archive.backup /\ ImportSite(p, t)
CreateSiteFromBackup(p, t) ==
  archive # None /\ archive.backup /\ t # archive.from /\ ~Exists(t) /\ Exists(archive.from) /\ ImportSite(p, t)

Extract(p) == LET d == Tgt(p) IN
  /\ At(p, "files") /\ Goto(p, "replay") /\ job' = Spoil(p, {d})
  /\ disk' = [disk EXCEPT ![d].root = @ \cup job[p].want.root]
  /\ UNCHANGED <<lock, site, up, archive, made, troubles, hurt, asked>>

Replay(p) ==
  /\ At(p, "replay") /\ Goto(p, "setEnv") /\ job' = Spoil(p, {Tgt(p)})
  /\ disk' = Restored(Tgt(p), job[p].row.name, job[p].want.db)
  /\ UNCHANGED <<lock, site, up, archive, made, troubles, hurt, asked>>

RestartAll(p) == LET d == Tgt(p) IN
  /\ At(p, "restart") /\ Goto(p, "done") /\ job' = Spoil(p, {d})
  /\ up' = IF Exists(d) THEN up \cup {d} ELSE up
  /\ hurt' = IF d \notin up THEN hurt \cup {d} ELSE hurt
  /\ UNCHANGED <<lock, site, disk, archive, made, troubles, asked>>

---------------------------------------------------------------------------------
(* What happens to sites otherwise.                                                        *)

BeginDestroy(p, d) ==
  /\ Ask(p) /\ d \notin lock /\ Exists(d) /\ lock' = lock \cup {d} /\ Goto(p, "purge")
  /\ job' = [Spoil(p, {d}) EXCEPT ![p] = [Idle EXCEPT !.op = "destroy", !.src = d, !.row = [site[d] EXCEPT !.env = 0]]]
  /\ up' = up \ {d} /\ site' = [site EXCEPT ![d] = None]
  /\ UNCHANGED <<disk, archive, made, troubles, hurt>>

(* docker compose down takes the volumes along, a purge both directories, and the rows of  *)
(* the domain, those of its backups among them, go in any case.                            *)
EndDestroy(p) == LET d == Src(p) IN
  /\ At(p, "purge") /\ Goto(p, "idle") /\ lock' = lock \ {d} /\ hurt' = hurt \ {d}
  /\ job' = [Spoil(p, {d}) EXCEPT ![p] = Idle]
  /\ \/ disk' = [disk EXCEPT ![d] = Empty]
     \/ disk' = IF Native(p) THEN disk ELSE [disk EXCEPT ![d].data = None]
  /\ archive' = IF archive # None /\ archive.backup /\ archive.from = d THEN None ELSE archive
  /\ UNCHANGED <<site, up, made, troubles, asked>>

Ready(d) == d \notin lock /\ Exists(d) /\ job' = Spoil(None, {d}) /\ UNCHANGED pc

Switch(d) ==
  /\ Ready(d)
  /\ \/ up' = up \cup {d} /\ site' = [site EXCEPT ![d].status = "running"]
     \/ up' = up \ {d} /\ site' = [site EXCEPT ![d].status = "stopped"]
  /\ hurt' = hurt \ {d}
  /\ UNCHANGED <<lock, disk, archive, made, troubles, asked>>

(* DBImport into the database there is; SetEnv, UnsetEnv.                                  *)
DBImport(d) ==
  /\ Ready(d) /\ made < MaxMade /\ New /\ DumpOf(d, d) # None /\ disk' = Restored(d, d, made')
  /\ UNCHANGED <<lock, site, up, archive, troubles, hurt, asked>>

SetEnv(d) ==
  /\ Ready(d) /\ made < MaxMade /\ New /\ site' = [site EXCEPT ![d].env = made']
  /\ UNCHANGED <<lock, disk, up, archive, troubles, hurt, asked>>

Traffic(d) ==
  /\ d \in up /\ disk[d].data # None /\ made < MaxMade /\ New /\ UNCHANGED pc
  /\ disk' = [disk EXCEPT ![d].data.of = made']
  /\ job' = [q \in Procs |-> IF Tgt(q) = d THEN [job[q] EXCEPT !.clean = FALSE] ELSE job[q]]
  /\ UNCHANGED <<lock, site, up, archive, troubles, hurt, asked>>

---------------------------------------------------------------------------------

CreateStep(p) == Refuse(p) \/ Claim(p) \/ Provision(p) \/ Rollback(p)
CloneStep(p)  == Quiet(p) \/ CopyRoot(p) \/ CopyData(p) \/ Wake(p) \/ Discard(p) \/ CopyPaths(p)
                 \/ CopyEnv(p) \/ CopyDump(p)
ImportStep(p) == Extract(p) \/ Replay(p) \/ RestartAll(p)

Next ==
  \/ \E p \in Procs :
       \/ \E d \in Domains : \/ \E kind \in {"native", "compose"} : BeginCreate(p, d, kind)
                             \/ BeginImport(p, d) \/ CreateSiteFromBackup(p, d) \/ BeginDestroy(p, d)
                             \/ \E s \in Domains : BeginClone(p, s, d)
       \/ CreateStep(p) \/ CloneStep(p) \/ ImportStep(p) \/ EndDestroy(p) \/ Done(p)
  \/ \E d \in Domains : Export(d) \/ Backup(d) \/ Switch(d) \/ Traffic(d) \/ DBImport(d) \/ SetEnv(d)

Spec == Init /\ [][Next]_vars

---------------------------------------------------------------------------------
(* Properties. *)

Copied(p) == At(p, "done") /\ job[p].op \in {"clone", "import"} /\ job[p].clean

(* A clone or an import that reports success, into a domain without leftovers and with no  *)
(* other request or traffic on the new site meanwhile, has made a whole copy: the files,   *)
(* the environment, and the database as it was at rest, or when it was dumped, under the   *)
(* name on record, but that a clone of a clone records the name of the one it copied.      *)
CopiesWhole ==
  \A p \in Procs : Copied(p) => LET d == Tgt(p)  want == job[p].want IN
    /\ Exists(d) /\ disk[d].root = want.root /\ site[d].env = want.env /\ d \in up
    /\ disk[d].data.of = IF want.db = None THEN 0 ELSE want.db
    /\ \/ site[d].name = disk[d].data.name
       \/ job[p].op = "clone" /\ Native(p) /\ disk[d].data.name # Src(p)

(* Of a site nobody holds, the containers run exactly when its status says so: a clone     *)
(* leaves its source as it found it, stopped or running, also when the copy failed.        *)
SourceAsFound ==
  \A d \in Domains \ (lock \cup hurt) : Exists(d) => (d \in up <=> site[d].status = "running")

=================================================================================

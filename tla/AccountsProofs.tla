----------------------------- MODULE AccountsProofs -----------------------------
(***************************************************************************)
(* Proofs about Accounts, for any requests, limits and clock: the type     *)
(* invariant, LockoutHolds, NoStaleCredentials and CodesUsedOnce. The      *)
(* invariant has a part for the requests, one for the lock, one for the    *)
(* credentials issued, and one for the one-time codes.                     *)
(***************************************************************************)
EXTENDS Accounts, TLAPS

---------------------------------------------------------------------------------
(* The invariant. *)

Ops    == {"none", "login", "change", "set", "reset", "delete", "token", "setup", "enable", "disable"}
Labels == {"idle", "compare", "factor", "consume", "burn", "fail", "clear", "insert",
           "write", "rekey", "token", "secret", "codes", "switch", "wipe"} \cup Revoking
Job    == [op : Ops, pw : Nat, code : Code \cup {None}, user : User, secret : Nat, last : 0..MaxTime + 1,
           codes : SUBSET Recovery, late : BOOLEAN, barred : BOOLEAN, again : BOOLEAN]

(* Where a request is agrees with what it is. A login that is let try began without a lock. *)
Logging   == {"compare", "factor", "consume", "burn", "fail", "clear", "insert"}
Fits(l, j) ==
  /\ l = "idle" <=> j.op = "none"
  /\ l = "idle" => j = Idle
  /\ l \in Logging => j.op \in {"login", "change"} /\ ~j.barred
  /\ l = "insert" => j.op = "login"
  /\ l = "write"  => j.op \in {"set", "change"}
  /\ l = "rekey"  => j.op = "reset"
  /\ l = "revoke" => j.op \in {"set", "change", "reset", "delete"}
  /\ l = "revokeTokens" => j.op \in {"reset", "delete"}
  /\ l = "drop" => j.op = "delete"
  /\ j.op = "delete" => l \in Revoking
  /\ l \in {"compare", "factor", "consume"} => j.last = 0
  /\ l \in {"consume", "burn"} => j.code \in Code
RequestsInv ==
  /\ pc \in [Procs -> Labels] /\ job \in [Procs -> Job]
  /\ \A p \in Procs : Fits(pc[p], job[p])

RowsInv ==
  /\ now \in Start..MaxTime /\ begun \in 0..MaxRequests /\ made \in Nat \ {0} /\ user \in User
  /\ totp \in [secret : Nat, on : BOOLEAN, last : 0..MaxTime + 1, codes : SUBSET Recovery]
  /\ sessions \subseteq Issued /\ tokens \subseteq Issued
  /\ used \cup raced \subseteq Code

(* The lock that was set last is the throttle's. *)
LockInv ==
  /\ throttle \in {None} \cup Entry
  /\ throttle # None => throttle.fails > 0 /\ (throttle.until > 0 <=> throttle.fails >= MaxFailures)
  /\ lockEnd \in 0..MaxTime + Lockout
  /\ now < lockEnd => throttle # None /\ throttle.until = lockEnd

(* What a request will issue is of the user there is, or late. *)
Issuing == {"factor", "consume", "burn", "clear", "insert", "token"}
Credible(l, j) == l \in Issuing => j.user.gen # 0 /\ (j.late \/ j.user = user)

(* While a user is deleted all other requests are late, and what they have issued. *)
DeleteInv(p) == job[p].op = "delete" =>
  /\ \A q \in Procs \ {p} : job[q].op # "none" => job[q].late
  /\ pc[p] \in {"revokeTokens", "drop"} => \A s \in sessions : s.late
  /\ pc[p] = "drop" => \A t \in tokens : t.late

(* Other credentials are of the user there is, or about to be revoked. *)
SessionInv(s) == s.user.gen # 0 /\ (s.late \/ s.user = user \/ \E p \in Procs : pc[p] = "revoke")
TokenInv(t) ==
  /\ t.user.gen # 0
  /\ \/ t.late \/ t.user = [user EXCEPT !.pw = 0]
     \/ \E p \in Procs : pc[p] = "revokeTokens" \/ (pc[p] = "revoke" /\ job[p].op \in {"reset", "delete"})

IssuedInv ==
  /\ user = Nobody \/ user.gen # 0
  /\ \A p \in Procs : Credible(pc[p], job[p]) /\ DeleteInv(p)
  /\ (\A s \in sessions : SessionInv(s)) /\ (\A t \in tokens : TokenInv(t))

(* Codes are of what was made before; one that is tried again has been used. *)
Known(c)   == c \in Code /\ c.of \in 1..made
Tried(j)   == /\ j.secret <= made /\ (j.code # None => Known(j.code)) /\ (\A c \in j.codes : Known(c))
              /\ (j.again => j.code \in used)

(* A code that was used without an overlap is spent: the row's last step is not before it, *)
(* or its secret is gone, for the logins that are about to accept it, too; or the row has  *)
(* the recovery code no more.                                                              *)
Gone(c)  == totp.secret # c.of /\ \A q \in Procs : pc[q] = "consume" /\ job[q].code = c => job[q].secret # c.of
Spent(c) == /\ c \in StepCode => totp.last >= c.n \/ Gone(c)
            /\ c \notin totp.codes

(* What a login is about to write keeps such codes spent, and spends its own. *)
Burns(p) == LET j == job[p] IN pc[p] = "burn" =>
  /\ Known(j.code) /\ (j.code \in used => j.code \in raced)
  /\ j.last # 0 => /\ j.code \in StepCode /\ j.last >= j.code.n
                   /\ \A c \in used \ raced : c \in StepCode => j.last >= c.n \/ Gone(c)
  /\ j.last = 0 => /\ j.code \in Recovery /\ j.code \notin j.codes
                   /\ \A c \in used \ raced : c \notin j.codes

CodesInv ==
  /\ totp.secret <= made /\ (\A c \in totp.codes \cup used : Known(c)) /\ replayed \subseteq raced
  /\ \A c \in used \ raced : Spent(c)
  /\ \A p \in Procs : /\ Tried(job[p]) /\ Burns(p)
                      /\ ~Exists /\ pc[p] \in {"consume", "burn"} => job[p].code \in raced

IInv == RequestsInv /\ RowsInv /\ LockInv /\ IssuedInv /\ CodesInv
---------------------------------------------------------------------------------
(* Records and requests. *)

LEMMA IdleFacts ==
  /\ Idle \in Job /\ Idle.op = "none" /\ Idle.code = None /\ Idle.late = FALSE /\ Idle.barred = FALSE
  /\ Idle.again = FALSE /\ Idle.last = 0 /\ Idle.codes = {} /\ Idle.secret = 0 /\ Idle.pw = 0
  BY BoundsAssumption DEF Idle, Job, Nobody, User, Ops

LEMMA JobFacts ==
  ASSUME NEW j \in Job
  PROVE  /\ j.op \in Ops /\ j.pw \in Nat /\ j.code \in Code \cup {None} /\ j.user \in User /\ j.secret \in Nat
         /\ j.last \in 0..MaxTime + 1 /\ j.codes \in SUBSET Recovery
         /\ j.late \in BOOLEAN /\ j.barred \in BOOLEAN /\ j.again \in BOOLEAN
  BY DEF Job

LEMMA FitsIdle == Fits("idle", Idle)
  BY IdleFacts DEF Fits, Logging, Revoking

(* A job is as it was, or late by now. *)
Aged(j, k) == k = j \/ (k = [j EXCEPT !.late = TRUE] /\ j.op # "none")

LEMMA AgedFacts ==
  ASSUME NEW j \in Job, NEW k, Aged(j, k)
  PROVE  /\ k \in Job /\ k.op = j.op /\ k.pw = j.pw /\ k.code = j.code /\ k.user = j.user
         /\ k.secret = j.secret /\ k.last = j.last /\ k.codes = j.codes /\ k.barred = j.barred
         /\ k.again = j.again /\ (j.late => k.late) /\ (\A l : Fits(l, j) => Fits(l, k))
         /\ k = j \/ k.late = TRUE
  <1>1. CASE k = j
    BY <1>1
  <1>2. CASE k = [j EXCEPT !.late = TRUE] /\ j.op # "none"
    <2>1. /\ k \in Job /\ k.op = j.op /\ k.pw = j.pw /\ k.code = j.code /\ k.user = j.user
          /\ k.secret = j.secret /\ k.last = j.last /\ k.codes = j.codes /\ k.barred = j.barred
          /\ k.again = j.again /\ k.late = TRUE
      BY <1>2 DEF Job
    <2>2. ASSUME NEW l, Fits(l, j)
          PROVE  Fits(l, k)
      <3>1. k.op # "none" /\ l # "idle"
        BY <1>2, <2>1, <2>2 DEF Fits
      <3>2. QED
        BY <2>1, <2>2, <3>1 DEF Fits
    <2>3. QED
      BY <2>1, <2>2
  <1>3. QED
    BY <1>1, <1>2 DEF Aged

LEMMA LateAges ==
  ASSUME RequestsInv, NEW p \in Procs
  PROVE  /\ Aged(job[p], Late(job)[p])
         /\ job[p].op # "none" => Late(job)[p].late = TRUE
  <1>1. /\ job[p] \in Job /\ Fits(pc[p], job[p]) /\ Late(job)[p] = [job[p] EXCEPT !.late = job[p].op # "none"]
    BY DEF RequestsInv, Late
  <1>2. CASE job[p].op = "none"
    <2>1. job[p] = Idle
      BY <1>1, <1>2 DEF Fits
    <2>2. [Idle EXCEPT !.late = FALSE] = Idle
      <3>1. \A j \in Job : j.late = FALSE => [j EXCEPT !.late = FALSE] = j
        BY DEF Job
      <3>2. QED
        BY <3>1, IdleFacts
    <2>3. (job[p].op # "none") = FALSE
      BY <1>2
    <2>4. QED
      BY <1>1, <1>2, <2>1, <2>2, <2>3 DEF Aged
  <1>3. CASE job[p].op # "none"
    <2>1. (job[p].op # "none") = TRUE
      BY <1>3
    <2>2. Late(job)[p] = [job[p] EXCEPT !.late = TRUE]
      BY <1>1, <2>1
    <2>3. Late(job)[p].late = TRUE
      BY <1>1, <2>2 DEF Job
    <2>4. QED
      BY <1>3, <2>2, <2>3 DEF Aged
  <1>4. QED
    BY <1>2, <1>3

(* Request p is at l with job j now; all others are where they were. *)
Moved(p, l, j) ==
  /\ RequestsInv' /\ pc'[p] = l /\ job'[p] = j
  /\ \A q \in Procs \ {p} : pc'[q] = pc[q] /\ Aged(job[q], job'[q])

LEMMA Moves ==
  ASSUME RequestsInv, NEW p \in Procs, NEW l \in Labels, NEW j \in Job, Fits(l, j),
         pc' = [pc EXCEPT ![p] = l],
         job' = [job EXCEPT ![p] = j] \/ job' = [Late(job) EXCEPT ![p] = j]
  PROVE  Moved(p, l, j)
  <1>1. pc' \in [Procs -> Labels] /\ pc'[p] = l /\ \A q \in Procs \ {p} : pc'[q] = pc[q]
    BY DEF RequestsInv
  <1>2. job \in [Procs -> Job] /\ \A q \in Procs : Fits(pc[q], job[q])
    BY DEF RequestsInv
  <1>3. /\ job' \in [Procs -> Job] /\ job'[p] = j
        /\ \A q \in Procs \ {p} : Aged(job[q], job'[q])
    <2>1. CASE job' = [job EXCEPT ![p] = j]
      BY <1>2, <2>1 DEF Aged
    <2>2. CASE job' = [Late(job) EXCEPT ![p] = j]
      <3>1. \A q \in Procs : Late(job)[q] \in Job /\ Aged(job[q], Late(job)[q])
        BY <1>2, LateAges, AgedFacts
      <3>2. Late(job) = [q \in Procs |-> Late(job)[q]]
        BY DEF Late
      <3>3. QED
        BY <2>2, <3>1, <3>2
    <2>3. QED
      BY <2>1, <2>2
  <1>4. \A q \in Procs \ {p} : Fits(pc'[q], job'[q])
    BY <1>1, <1>2, <1>3, AgedFacts
  <1>5. QED
    BY <1>1, <1>3, <1>4 DEF Moved, RequestsInv

(* A request ends. *)
LEMMA Ends ==
  ASSUME RequestsInv, NEW p \in Procs, End(p)
  PROVE  Moved(p, "idle", Idle)
  <1>1. "idle" \in Labels
    BY DEF Labels
  <1>2. QED
    BY <1>1, IdleFacts, FitsIdle, Moves DEF End, Goto

(* A request goes on. *)
LEMMA Goes ==
  ASSUME RequestsInv, NEW p \in Procs, NEW l \in Labels, Goto(p, l), UNCHANGED job, Fits(l, job[p])
  PROVE  Moved(p, l, job[p])
  <1>1. job \in [Procs -> Job] /\ job' = [job EXCEPT ![p] = job[p]] /\ job[p] \in Job
    BY DEF RequestsInv
  <1>2. QED
    BY <1>1, Moves DEF Goto

---------------------------------------------------------------------------------
(* Parts of the invariant that a step leaves alone. *)

LEMMA LockStays ==
  ASSUME LockInv, UNCHANGED <<now, throttle, lockEnd>>
  PROVE  LockInv'
  BY DEF LockInv

(* Codes stay spent where no login comes to accept one, and what is made is new. *)
LEMMA CodesStay ==
  ASSUME IInv, RequestsInv', made' \in Nat, made' >= made, UNCHANGED <<used, raced, replayed>>,
         totp'.secret = totp.secret \/ (totp'.secret = made' /\ made' > made), totp'.last = totp.last,
         totp'.codes \subseteq Recovery, Exists => Exists',
         \A c \in totp'.codes : c \in totp.codes \/ (c.of = made' /\ made' > made),
         \A q \in Procs : \/ pc'[q] = pc[q] /\ Aged(job[q], job'[q])
                          \/ pc'[q] \notin {"consume", "burn"} /\ Tried(job'[q])
  PROVE  CodesInv'
  <1>1. /\ made \in Nat \ {0} /\ CodesInv /\ RequestsInv /\ used \cup raced \subseteq Code
        /\ totp.secret \in Nat /\ totp.last \in Nat /\ totp.codes \subseteq Recovery
    BY BoundsAssumption DEF IInv, RowsInv
  <1>2. \A c : Known(c) => Known(c)' /\ c.of \in Nat
    BY <1>1 DEF Known
  <1>3. ASSUME NEW c \in totp'.codes
        PROVE  Known(c)'
    <2>1. CASE c \in totp.codes
      BY <1>1, <1>2, <2>1 DEF CodesInv
    <2>2. CASE c.of = made' /\ made' > made
      <3>1. c \in Code
        BY DEF Code
      <3>2. QED
        BY <1>1, <2>2, <3>1 DEF Known
    <2>3. QED
      BY <2>1, <2>2
  <1>4. totp'.secret <= made' /\ \A c \in used' : Known(c)'
    BY <1>1, <1>2 DEF CodesInv
  <1>5. ASSUME NEW q \in Procs
        PROVE  Tried(job[q])'
    <2>1. Tried(job[q]) /\ job[q] \in Job /\ job[q].secret \in Nat
      BY <1>1 DEF CodesInv, RequestsInv, Job
    <2>2. CASE pc'[q] = pc[q] /\ Aged(job[q], job'[q])
      <3>1. /\ job'[q].secret = job[q].secret /\ job'[q].code = job[q].code
            /\ job'[q].codes = job[q].codes /\ job'[q].again = job[q].again
        BY <2>1, <2>2, AgedFacts
      <3>2. job'[q].secret <= made'
        BY <1>1, <2>1, <3>1 DEF Tried
      <3>3. QED
        BY <1>2, <2>1, <3>1, <3>2 DEF Tried
    <2>3. CASE Tried(job'[q])
      <3>1. job'[q] \in Job /\ job'[q].secret \in Nat
        BY DEF RequestsInv, Job
      <3>2. job'[q].secret <= made'
        BY <1>1, <2>3, <3>1 DEF Tried
      <3>3. QED
        BY <1>2, <2>3, <3>2 DEF Tried
    <2>4. QED
      BY <2>2, <2>3
  <1>6. \A q \in Procs : pc'[q] \in {"consume", "burn"} =>
             /\ pc'[q] = pc[q] /\ job'[q].secret = job[q].secret /\ job'[q].code = job[q].code
             /\ job'[q].codes = job[q].codes /\ job'[q].last = job[q].last
    <2> SUFFICES ASSUME NEW q \in Procs, pc'[q] \in {"consume", "burn"}
                 PROVE  /\ pc'[q] = pc[q] /\ job'[q].secret = job[q].secret /\ job'[q].code = job[q].code
                        /\ job'[q].codes = job[q].codes /\ job'[q].last = job[q].last
      OBVIOUS
    <2>1. pc'[q] = pc[q] /\ Aged(job[q], job'[q]) /\ job[q] \in Job
      BY <1>1 DEF RequestsInv
    <2>2. QED
      BY <2>1, AgedFacts
  <1>7. \A c \in used : Gone(c) => Gone(c)'
    <2> SUFFICES ASSUME NEW c \in used, Gone(c)
                 PROVE  Gone(c)'
      OBVIOUS
    <2>1. Known(c)
      BY <1>1 DEF CodesInv
    <2>2. totp'.secret # c.of
      BY <1>1, <2>1 DEF Gone, Known
    <2>3. QED
      BY <1>6, <2>2 DEF Gone
  <1>8. ASSUME NEW c \in used \ raced
        PROVE  Spent(c)'
    <2>1. Spent(c) /\ Known(c)
      BY <1>1 DEF CodesInv
    <2>2. c \notin totp'.codes
      BY <1>1, <2>1 DEF Spent, Known
    <2>3. QED
      BY <1>7, <2>1, <2>2 DEF Spent
  <1>9. ASSUME NEW q \in Procs
        PROVE  Burns(q)' /\ (~Exists' /\ pc'[q] \in {"consume", "burn"} => job'[q].code \in raced')
    <2>1. Burns(q) /\ (~Exists /\ pc[q] \in {"consume", "burn"} => job[q].code \in raced)
      BY <1>1 DEF CodesInv
    <2>2. CASE pc'[q] \notin {"consume", "burn"}
      BY <2>2 DEF Burns
    <2>3. CASE pc'[q] = "consume"
      BY <1>6, <2>1, <2>3 DEF Burns
    <2>4. CASE pc'[q] = "burn"
      <3>1. Burns(q)'
        BY <1>2, <1>6, <1>7, <2>1, <2>4 DEF Burns
      <3>2. QED
        BY <1>6, <2>1, <2>4, <3>1
    <2>5. QED
      BY <2>2, <2>3, <2>4
  <1>10. QED
    BY <1>1, <1>3, <1>4, <1>5, <1>8, <1>9 DEF CodesInv

(* A request goes on, and what it issues is as it has it. *)
LEMMA IssuedStays ==
  ASSUME IInv, NEW p \in Procs, NEW l, NEW j, Moved(p, l, j), UNCHANGED user,
         pc[p] \notin Revoking, l \notin {"revokeTokens", "drop"}, Credible(l, j),
         j.op # "none" => j.op = job[p].op /\ (job[p].late => j.late),
         \A s \in sessions' : \/ s \in sessions
                              \/ s.user.gen # 0 /\ (s.late \/ s.user = user) /\ job[p].op # "none"
                                 /\ (job[p].late => s.late),
         \A t \in tokens' : \/ t \in tokens
                            \/ t.user.gen # 0 /\ (t.late \/ t.user = [user EXCEPT !.pw = 0])
                               /\ job[p].op # "none" /\ (job[p].late => t.late)
  PROVE  IssuedInv'
  <1>1. /\ IssuedInv /\ pc'[p] = l /\ job'[p] = j
        /\ \A q \in Procs : Fits(pc[q], job[q]) /\ job[q] \in Job /\ Fits(pc'[q], job'[q])
        /\ \A q \in Procs \ {p} : pc'[q] = pc[q] /\ Aged(job[q], job'[q])
    BY DEF IInv, Moved, RequestsInv
  <1>2. \A q \in Procs \ {p} : /\ job'[q].op = job[q].op /\ job'[q].user = job[q].user
                               /\ (job[q].late => job'[q].late)
    <2> SUFFICES ASSUME NEW q \in Procs \ {p}
                 PROVE  /\ job'[q].op = job[q].op /\ job'[q].user = job[q].user
                        /\ (job[q].late => job'[q].late)
      OBVIOUS
    <2>1. Aged(job[q], job'[q]) /\ job[q] \in Job
      BY <1>1
    <2>2. QED
      BY <2>1, AgedFacts
  <1>3. ASSUME NEW q \in Procs
        PROVE  Credible(pc[q], job[q])'
    <2>1. CASE q = p
      BY <1>1, <2>1 DEF Credible
    <2>2. CASE q # p
      <3>1. Credible(pc[q], job[q])
        BY <1>1 DEF IssuedInv
      <3>2. QED
        BY <1>1, <1>2, <2>2, <3>1 DEF Credible
    <2>3. QED
      BY <2>1, <2>2
  <1>4. ASSUME NEW r \in Procs, job'[r].op = "delete"
        PROVE  /\ r # p /\ job[r].op = "delete" /\ pc'[r] = pc[r] /\ DeleteInv(r)
               /\ (job[p].op # "none" => job[p].late)
    <2>1. r # p
      BY <1>1, <1>4 DEF Fits
    <2>2. job[r].op = "delete" /\ pc'[r] = pc[r]
      BY <1>1, <1>2, <1>4, <2>1
    <2>3. DeleteInv(r)
      BY <1>1 DEF IssuedInv
    <2>4. QED
      BY <2>1, <2>2, <2>3 DEF DeleteInv
  <1>5. ASSUME NEW r \in Procs
        PROVE  DeleteInv(r)'
    <2> SUFFICES ASSUME job'[r].op = "delete"
                 PROVE  /\ \A q \in Procs \ {r} : job'[q].op # "none" => job'[q].late
                        /\ pc'[r] \in {"revokeTokens", "drop"} => \A s \in sessions' : s.late
                        /\ pc'[r] = "drop" => \A t \in tokens' : t.late
      BY DEF DeleteInv
    <2>1. ASSUME NEW q \in Procs \ {r}, job'[q].op # "none"
          PROVE  job'[q].late
      <3>1. CASE q = p
        BY <1>1, <1>4, <2>1, <3>1
      <3>2. CASE q # p
        <4>1. job[q].op # "none" /\ (job[q].late => job'[q].late)
          BY <1>2, <2>1, <3>2
        <4>2. QED
          BY <1>4, <4>1 DEF DeleteInv
      <3>3. QED
        BY <3>1, <3>2
    <2>2. pc'[r] \in {"revokeTokens", "drop"} => \A s \in sessions' : s.late
      BY <1>4 DEF DeleteInv
    <2>3. pc'[r] = "drop" => \A t \in tokens' : t.late
      BY <1>4 DEF DeleteInv
    <2>4. QED
      BY <2>1, <2>2, <2>3
  <1>6. \A q \in Procs : pc[q] \in Revoking => pc'[q] = pc[q] /\ job'[q].op = job[q].op
    BY <1>1, <1>2
  <1>7. ASSUME NEW s \in sessions'
        PROVE  SessionInv(s)'
    <2>1. CASE s \in sessions
      <3>1. SessionInv(s)
        BY <1>1, <2>1 DEF IssuedInv
      <3>2. QED
        BY <1>6, <3>1 DEF SessionInv, Revoking
    <2>2. CASE s \notin sessions
      BY <2>2 DEF SessionInv
    <2>3. QED
      BY <2>1, <2>2
  <1>8. ASSUME NEW t \in tokens'
        PROVE  TokenInv(t)'
    <2>1. CASE t \in tokens
      <3>1. TokenInv(t)
        BY <1>1, <2>1 DEF IssuedInv
      <3>2. QED
        BY <1>6, <3>1 DEF TokenInv, Revoking
    <2>2. CASE t \notin tokens
      BY <2>2 DEF TokenInv
    <2>3. QED
      BY <2>1, <2>2
  <1>9. QED
    BY <1>1, <1>3, <1>5, <1>7, <1>8 DEF IssuedInv

(* Sessions and tokens end, and no request moves. *)
LEMMA IssuedShrinks ==
  ASSUME IInv, UNCHANGED <<pc, job, user>>, sessions' \subseteq sessions, tokens' \subseteq tokens
  PROVE  IssuedInv'
  <1>1. IssuedInv
    BY DEF IInv
  <1>2. \A p \in Procs : Credible(pc[p], job[p])' /\ DeleteInv(p)'
    BY <1>1 DEF IssuedInv, Credible, DeleteInv
  <1>3. (\A s \in sessions' : SessionInv(s)') /\ \A t \in tokens' : TokenInv(t)'
    BY <1>1 DEF IssuedInv, SessionInv, TokenInv
  <1>4. QED
    BY <1>1, <1>2, <1>3 DEF IssuedInv

(* No request comes to accept a code. *)
LEMMA CodesMoved ==
  ASSUME IInv, NEW p \in Procs, NEW l, NEW j, Moved(p, l, j), l \notin {"consume", "burn"}, Tried(j),
         UNCHANGED <<totp, made, used, raced, replayed>>, Exists => Exists'
  PROVE  CodesInv'
  <1>1. made \in Nat /\ RequestsInv' /\ totp.codes \subseteq Recovery
    BY DEF Moved, IInv, RowsInv
  <1>2. \A q \in Procs : \/ pc'[q] = pc[q] /\ Aged(job[q], job'[q])
                         \/ pc'[q] \notin {"consume", "burn"} /\ Tried(job'[q])
    BY DEF Moved
  <1>3. QED
    BY <1>1, <1>2, CodesStay

LEMMA TriedIdle ==
  ASSUME IInv
  PROVE  Tried(Idle)
  <1>1. 0 <= made
    BY DEF IInv, RowsInv
  <1>2. QED
    BY <1>1, IdleFacts DEF Tried

LEMMA Facts ==
  ASSUME IInv, NEW p \in Procs
  PROVE  /\ RequestsInv /\ RowsInv /\ LockInv /\ IssuedInv /\ CodesInv
         /\ pc[p] \in Labels /\ job[p] \in Job /\ Fits(pc[p], job[p]) /\ Tried(job[p])
         /\ Credible(pc[p], job[p]) /\ DeleteInv(p) /\ Burns(p)
  BY DEF IInv, RequestsInv, IssuedInv, CodesInv

---------------------------------------------------------------------------------
(* A request begins. *)

LEMMA BeginStep ==
  ASSUME IInv, NEW p \in Procs, NEW i \in Job,
         NEW l \in {"compare", "write", "rekey", "revoke", "token", "secret", "codes", "wipe"},
         Begin(p, i, l), i.op # "none", Fits(l, i), Tried(i),
         l = "compare" => ~(now < lockEnd), l = "token" => Exists /\ i.user = user,
         l = "revoke" => i.op = "delete"
  PROVE  IInv'
  <1> DEFINE j == [i EXCEPT !.late = Under({"delete"}), !.barred = now < lockEnd]
  <1>1. /\ pc[p] = "idle" /\ pc' = [pc EXCEPT ![p] = l] /\ begun < MaxRequests /\ begun' = begun + 1
        /\ job' = [IF i.op = "delete" THEN Late(job) ELSE job EXCEPT ![p] = j]
        /\ UNCHANGED <<now, made, user, totp, sessions, tokens, throttle, used, raced, replayed, lockEnd>>
    BY DEF Begin, At, Goto, row
  <1>2. /\ job[p] = Idle /\ job[p].op = "none" /\ RequestsInv
    BY <1>1, Facts, IdleFacts DEF Fits
  <1>3. /\ j \in Job /\ j.op = i.op /\ j.code = i.code /\ j.user = i.user /\ j.secret = i.secret
        /\ j.last = i.last /\ j.codes = i.codes /\ j.again = i.again
        /\ j.late = Under({"delete"}) /\ j.barred = (now < lockEnd)
    <2>1. Under({"delete"}) \in BOOLEAN /\ (now < lockEnd) \in BOOLEAN
      BY DEF Under
    <2>2. PICK a \in BOOLEAN, b \in BOOLEAN : a = Under({"delete"}) /\ b = (now < lockEnd)
      BY <2>1
    <2>3. j = [i EXCEPT !.late = a, !.barred = b]
      BY <2>2
    <2> HIDE DEF j
    <2>4. j \in Job
      BY <2>3 DEF Job
    <2>5. /\ j.op = i.op /\ j.code = i.code /\ j.user = i.user /\ j.secret = i.secret
          /\ j.last = i.last /\ j.codes = i.codes /\ j.again = i.again /\ j.late = a /\ j.barred = b
      BY <2>3 DEF Job
    <2>6. QED
      BY <2>2, <2>4, <2>5
  <1> HIDE DEF j
  <1>4. Fits(l, j) /\ l \in Labels
    <2>1. l \in Labels /\ l # "idle"
      BY DEF Labels, Revoking
    <2>2. QED
      BY <1>3, <2>1 DEF Fits, Logging
  <1>5. Moved(p, l, j)
    BY <1>1, <1>2, <1>3, <1>4, Moves
  <1>6. RequestsInv'
    BY <1>5 DEF Moved
  <1>7. RowsInv'
    BY <1>1, BoundsAssumption DEF IInv, RowsInv
  <1>8. LockInv'
    BY <1>1, LockStays DEF IInv
  <1>9. CodesInv'
    <2>1. Tried(j)
      BY <1>3 DEF Tried
    <2>2. Exists => Exists'
      BY <1>1 DEF Exists
    <2>3. QED
      BY <1>1, <1>5, <2>1, <2>2, CodesMoved
  <1>10. IssuedInv'
    <2>1. /\ IssuedInv /\ pc'[p] = l /\ job'[p] = j
          /\ \A q \in Procs \ {p} : pc'[q] = pc[q] /\ Aged(job[q], job'[q]) /\ job[q] \in Job
      BY <1>5 DEF IInv, Moved, RequestsInv
    <2>2. ASSUME NEW q \in Procs \ {p}
          PROVE  /\ job'[q].op = job[q].op /\ job'[q].user = job[q].user
                 /\ (job[q].late => job'[q].late)
                 /\ (i.op = "delete" /\ job[q].op # "none" => job'[q].late)
      <3>1. Aged(job[q], job'[q]) /\ job[q] \in Job
        BY <2>1
      <3>2. CASE i.op = "delete" /\ job[q].op # "none"
        <4>1. job'[q] = Late(job)[q]
          BY <1>1, <3>2 DEF Late
        <4>2. QED
          BY <1>2, <3>1, <4>1, LateAges, AgedFacts
      <3>3. CASE ~(i.op = "delete" /\ job[q].op # "none")
        BY <3>1, <3>3, AgedFacts
      <3>4. QED
        BY <3>2, <3>3
    <2>3. ASSUME NEW q \in Procs
          PROVE  Credible(pc[q], job[q])'
      <3>1. CASE q = p
        BY <1>1, <1>3, <2>1, <3>1 DEF Credible, Issuing, IssuedInv, Exists
      <3>2. CASE q # p
        BY <1>1, <2>1, <2>2, <3>2 DEF Credible, IssuedInv
      <3>3. QED
        BY <3>1, <3>2
    <2>4. ASSUME NEW r \in Procs
          PROVE  DeleteInv(r)'
      <3>1. CASE r = p
        <4>1. pc'[r] \notin {"revokeTokens", "drop"} /\ job'[r].op = i.op
          BY <1>3, <2>1, <3>1
        <4>2. QED
          BY <2>2, <3>1, <4>1 DEF DeleteInv
      <3>2. CASE r # p
        <4>1. DeleteInv(r) /\ job'[r].op = job[r].op /\ pc'[r] = pc[r]
          BY <2>1, <2>2, <3>2 DEF IssuedInv
        <4>2. ASSUME job[r].op = "delete", NEW q \in Procs \ {r}, job'[q].op # "none"
              PROVE  job'[q].late
          <5>1. CASE q = p
            BY <1>3, <2>1, <4>2, <5>1 DEF Under
          <5>2. CASE q # p
            BY <2>2, <4>1, <4>2, <5>2 DEF DeleteInv
          <5>3. QED
            BY <5>1, <5>2
        <4>3. QED
          BY <1>1, <4>1, <4>2 DEF DeleteInv
      <3>3. QED
        BY <3>1, <3>2
    <2>5. \A q \in Procs : pc[q] \in Revoking => pc'[q] = pc[q] /\ job'[q].op = job[q].op
      BY <1>1, <2>1, <2>2 DEF Revoking
    <2>6. (\A s \in sessions' : SessionInv(s)') /\ \A t \in tokens' : TokenInv(t)'
      BY <1>1, <2>1, <2>5 DEF IssuedInv, SessionInv, TokenInv, Revoking
    <2>7. QED
      BY <1>1, <2>1, <2>3, <2>4, <2>6 DEF IssuedInv
  <1>11. QED
    BY <1>6, <1>7, <1>8, <1>9, <1>10 DEF IInv

LEMMA OpFacts ==
  ASSUME NEW name \in Ops
  PROVE  /\ Op(name) \in Job /\ Op(name).op = name /\ Op(name).code = None /\ Op(name).barred = FALSE
         /\ Op(name).last = 0 /\ Op(name).again = FALSE /\ Op(name).codes = {} /\ Op(name).secret = 0
  <1>1. \A j \in Job : LET k == [j EXCEPT !.op = name] IN
          /\ k \in Job /\ k.op = name /\ k.code = j.code /\ k.barred = j.barred
          /\ k.last = j.last /\ k.again = j.again /\ k.codes = j.codes /\ k.secret = j.secret
    BY DEF Job
  <1>2. QED
    BY <1>1, IdleFacts DEF Op

LEMMA WithUser ==
  ASSUME NEW k \in Job, NEW u \in User
  PROVE  LET m == [k EXCEPT !.user = u] IN
         /\ m \in Job /\ m.op = k.op /\ m.user = u /\ m.code = k.code /\ m.again = k.again
         /\ m.barred = k.barred /\ m.last = k.last /\ m.codes = k.codes /\ m.secret = k.secret
         /\ m.late = k.late
  BY DEF Job

LEMMA TriedOp ==
  ASSUME IInv, NEW name \in Ops
  PROVE  Tried(Op(name))
  <1>1. 0 <= made
    BY DEF IInv, RowsInv
  <1>2. QED
    BY <1>1, OpFacts DEF Tried

(* The codes a login may show are of secrets there were. *)
LEMMA CodesKnown ==
  ASSUME IInv, NEW code \in StepCodes(totp.secret) \cup totp.codes \cup used
  PROVE  Known(code)
  <1>1. /\ made \in Nat /\ totp.secret \in Nat /\ totp.secret <= made /\ now \in 2..MaxTime /\ MaxTime \in Nat
    BY BoundsAssumption DEF IInv, RowsInv, CodesInv, Start
  <1>2. CASE code \in StepCodes(totp.secret)
    <2>1. totp.secret # 0 /\ code \in [kind : {"totp"}, of : {totp.secret}, n : now - 1..now + 1]
      BY <1>2 DEF StepCodes
    <2>2. code.of = totp.secret
      BY <2>1
    <2>3. now - 1..now + 1 \subseteq 0..MaxTime + 1
      BY <1>1
    <2>4. code \in StepCode
      BY <1>1, <2>1, <2>3 DEF StepCode
    <2>5. code.of \in 1..made
      BY <1>1, <2>1, <2>2
    <2>6. QED
      BY <2>4, <2>5 DEF Known, Code
  <1>3. CASE code \in totp.codes \cup used
    BY <1>3 DEF IInv, CodesInv
  <1>4. QED
    BY <1>2, <1>3

LEMMA StartsStep ==
  ASSUME IInv, NEW p \in Procs, Starts(p)
  PROVE  IInv'
  <1>1. ASSUME NEW op \in {"login", "change"}, BeginLogin(p, op)
        PROVE  IInv'
    <2>1. ~(now < lockEnd)
      BY <1>1 DEF BeginLogin, Locked, IInv, LockInv
    <2>2. CASE Begin(p, Op(op), "compare")
      <3>1. op \in Ops /\ op # "none" /\ op # "delete"
        BY DEF Ops
      <3>2. Fits("compare", Op(op))
        BY <3>1, OpFacts DEF Fits, Logging
      <3>3. QED
        BY <2>1, <2>2, <3>1, <3>2, OpFacts, TriedOp, BeginStep
    <2>3. ASSUME NEW code \in {None} \cup StepCodes(totp.secret) \cup totp.codes \cup used,
                 Begin(p, [Op(op) EXCEPT !.pw = user.pw, !.code = code, !.again = code \in used], "compare")
          PROVE  IInv'
      <3> DEFINE i == [Op(op) EXCEPT !.pw = user.pw, !.code = code, !.again = code \in used]
      <3>1. op \in Ops /\ op # "none" /\ op # "delete"
        BY DEF Ops
      <3>2. code # None => Known(code)
        BY CodesKnown
      <3>3. user.pw \in Nat /\ code \in Code \cup {None} /\ (code \in used) \in BOOLEAN
        BY <3>2 DEF Known, IInv, RowsInv, User
      <3>4. /\ i \in Job /\ i.op = op /\ i.code = code /\ i.again = (code \in used) /\ i.barred = FALSE
            /\ i.last = 0 /\ i.codes = {} /\ i.secret = 0
        <4> DEFINE k == Op(op)
        <4>1. k \in Job /\ user.pw \in Nat /\ code \in Code \cup {None}
          BY <3>1, <3>3, OpFacts
        <4>2. /\ k.op = op /\ k.barred = FALSE /\ k.last = 0 /\ k.codes = {} /\ k.secret = 0
          BY <3>1, OpFacts
        <4>3. PICK a \in BOOLEAN : a = (code \in used)
          <5>1. CASE code \in used
            <6>1. TRUE = (code \in used)
              BY <5>1
            <6>2. QED
              BY <6>1, Zenon
          <5>2. CASE code \notin used
            <6>1. FALSE = (code \in used)
              BY <5>2
            <6>2. QED
              BY <6>1, Zenon
          <5>3. QED
            BY <5>1, <5>2
        <4> DEFINE h == [k EXCEPT !.pw = user.pw, !.code = code]
        <4>4. i = [h EXCEPT !.again = a]
          BY <4>3
        <4> HIDE DEF i, k
        <4>5. /\ h \in Job /\ h.op = k.op /\ h.code = code /\ h.barred = k.barred
              /\ h.last = k.last /\ h.codes = k.codes /\ h.secret = k.secret
          BY <4>1 DEF Job
        <4> HIDE DEF h
        <4>6. /\ i \in Job /\ i.op = h.op /\ i.code = h.code /\ i.again = a /\ i.barred = h.barred
              /\ i.last = h.last /\ i.codes = h.codes /\ i.secret = h.secret
          BY <4>4, <4>5 DEF Job
        <4>7. i.again = (code \in used)
          BY <4>3, <4>6, Zenon
        <4>8. QED
          BY <4>2, <4>5, <4>6, <4>7
      <3>5. Begin(p, i, "compare")
        BY <2>3
      <3> HIDE DEF i
      <3>6. Fits("compare", i)
        BY <3>1, <3>4 DEF Fits, Logging
      <3>7. Tried(i)
        <4>1. 0 <= made
          BY DEF IInv, RowsInv
        <4>2. QED
          BY <3>2, <3>4, <4>1 DEF Tried
      <3>8. QED
        BY <2>1, <3>1, <3>4, <3>5, <3>6, <3>7, BeginStep
    <2>4. QED
      BY <1>1, <2>2, <2>3 DEF BeginLogin, Attempt
  <1>2. ASSUME NEW name \in {"set", "reset", "delete", "setup", "enable", "disable"},
               NEW l \in {"write", "rekey", "revoke", "secret", "codes", "wipe"},
               Begin(p, Op(name), l), name = "delete" <=> l = "revoke",
               l = "write" => name = "set", l = "rekey" => name = "reset"
        PROVE  IInv'
    <2>1. name \in Ops /\ name # "none"
      BY DEF Ops
    <2>2. Fits(l, Op(name))
      BY <1>2, <2>1, OpFacts DEF Fits, Logging, Revoking
    <2>3. QED
      BY <1>2, <2>1, <2>2, OpFacts, TriedOp, BeginStep
  <1>3. CASE BeginToken(p)
    <2> DEFINE i == [Op("token") EXCEPT !.user = user]
    <2>1. "token" \in Ops /\ Exists /\ Begin(p, i, "token") /\ user \in User
      BY <1>3 DEF Ops, BeginToken, IInv, RowsInv
    <2>2. /\ i \in Job /\ i.op = "token" /\ i.user = user /\ i.code = None /\ i.again = FALSE
          /\ i.barred = FALSE /\ i.last = 0 /\ i.codes = {} /\ i.secret = 0
      <3> DEFINE k == Op("token")
      <3>1. k \in Job /\ k.op = "token" /\ k.code = None /\ k.again = FALSE
        BY <2>1, OpFacts
      <3>2. k.barred = FALSE /\ k.last = 0 /\ k.codes = {} /\ k.secret = 0
        BY <2>1, OpFacts
      <3>3. i = [k EXCEPT !.user = user]
        OBVIOUS
      <3> HIDE DEF i, k
      <3>4. QED
        BY <2>1, <3>1, <3>2, <3>3, WithUser
    <2> HIDE DEF i
    <2>3. Fits("token", i)
      BY <2>2 DEF Fits, Logging
    <2>4. Tried(i)
      <3>1. 0 <= made
        BY DEF IInv, RowsInv
      <3>2. QED
        BY <2>2, <3>1 DEF Tried
    <2>5. QED
      BY <2>1, <2>2, <2>3, <2>4, BeginStep
  <1>4. QED
    BY <1>1, <1>2, <1>3 DEF Starts, BeginSet, BeginReset, BeginDelete, BeginSetup, BeginEnable, BeginDisable

---------------------------------------------------------------------------------
(* A login or a change of password goes on. *)

LEMMA Proceeds ==
  ASSUME IInv, NEW p \in Procs, NEW l, NEW j, Moved(p, l, j), pc[p] \notin Revoking,
         l \notin {"revokeTokens", "drop", "consume", "burn"}, Credible(l, j), Tried(j),
         j.op # "none" => j.op = job[p].op /\ (job[p].late => j.late),
         UNCHANGED <<now, begun, made, user, totp, tokens, used, raced, replayed>>,
         LockInv', sessions' \subseteq Issued,
         \A s \in sessions' : \/ s \in sessions
                              \/ s.user.gen # 0 /\ (s.late \/ s.user = user) /\ job[p].op # "none"
                                 /\ (job[p].late => s.late)
  PROVE  IInv'
  <1>1. RequestsInv'
    BY DEF Moved
  <1>2. RowsInv'
    BY DEF IInv, RowsInv
  <1>3. IssuedInv'
    BY IssuedStays
  <1>4. Exists => Exists'
    BY DEF Exists
  <1>5. CodesInv'
    BY <1>4, CodesMoved
  <1>6. QED
    BY <1>1, <1>2, <1>3, <1>5 DEF IInv

(* The same, with no session made and the throttle as it was. *)
LEMMA Passes ==
  ASSUME IInv, NEW p \in Procs, NEW l, NEW j, Moved(p, l, j), pc[p] \notin Revoking,
         l \notin {"revokeTokens", "drop", "consume", "burn"}, Credible(l, j), Tried(j),
         j.op # "none" => j.op = job[p].op /\ (job[p].late => j.late),
         UNCHANGED <<now, begun, made, user, totp, sessions, tokens, throttle, history>>
  PROVE  IInv'
  <1>1. UNCHANGED <<now, begun, made, user, totp, sessions, tokens, throttle, used, raced, replayed, lockEnd>>
    BY DEF history
  <1>2. LockInv' /\ sessions' \subseteq Issued
    BY <1>1, LockStays DEF IInv, RowsInv
  <1>3. QED
    BY <1>1, <1>2, Proceeds

LEMMA EndsQuietly ==
  ASSUME IInv, NEW p \in Procs, End(p), pc[p] \notin Revoking,
         UNCHANGED <<now, begun, made, user, totp, sessions, tokens, throttle, history>>
  PROVE  IInv'
  <1>1. Moved(p, "idle", Idle)
    BY Ends, Facts
  <1>2. Credible("idle", Idle) /\ Tried(Idle) /\ Idle.op = "none"
    BY TriedIdle, IdleFacts DEF Credible, Issuing
  <1>3. QED
    BY <1>1, <1>2, Passes

LEMMA CompareStep ==
  ASSUME IInv, NEW p \in Procs, Compare(p)
  PROVE  IInv'
  <1> DEFINE l == IF Right(p) THEN "factor" ELSE "fail"
             h == [job[p] EXCEPT !.user = user]
             j == [h EXCEPT !.pw = 0]
  <1>1. /\ pc[p] = "compare" /\ (Exists \/ job[p].op = "login") /\ pc' = [pc EXCEPT ![p] = l]
        /\ job' = [job EXCEPT ![p] = j]
        /\ UNCHANGED <<now, begun, made, user, totp, sessions, tokens, throttle, history>>
    <2>1. job \in [Procs -> Job] /\ job' = [job EXCEPT ![p].user = user, ![p].pw = 0]
      BY Facts DEF Compare, RequestsInv
    <2>2. job' = [job EXCEPT ![p] = j]
      BY <2>1
    <2>3. QED
      BY <2>2 DEF Compare, At, Goto, row
  <1>2. job[p] \in Job /\ Fits("compare", job[p]) /\ user \in User /\ Tried(job[p]) /\ RequestsInv
    BY <1>1, Facts DEF RowsInv
  <1>3. /\ h \in Job /\ h.op = job[p].op /\ h.user = user /\ h.code = job[p].code /\ h.again = job[p].again
        /\ h.barred = job[p].barred /\ h.last = job[p].last /\ h.codes = job[p].codes
        /\ h.secret = job[p].secret /\ h.late = job[p].late
    BY <1>2, WithUser
  <1> HIDE DEF h
  <1>4. /\ j \in Job /\ j.op = h.op /\ j.user = h.user /\ j.code = h.code /\ j.again = h.again
        /\ j.barred = h.barred /\ j.last = h.last /\ j.codes = h.codes
        /\ j.secret = h.secret /\ j.late = h.late
    BY <1>3 DEF Job
  <1> HIDE DEF j
  <1>5. l \in {"factor", "fail"} /\ l \in Labels
    BY DEF Labels
  <1>6. Fits(l, j)
    BY <1>2, <1>3, <1>4, <1>5 DEF Fits, Logging
  <1>7. Moved(p, l, j)
    BY <1>1, <1>2, <1>4, <1>5, <1>6, Moves
  <1>8. Tried(j)
    BY <1>2, <1>3, <1>4 DEF Tried
  <1>9. Credible(l, j)
    <2>1. CASE Right(p)
      <3>1. user # Nobody
        BY <1>1, <1>2, <2>1 DEF Right, Exists, Nobody, Fits, Logging
      <3>2. user.gen # 0
        BY <3>1, Facts DEF IssuedInv
      <3>3. QED
        BY <1>3, <1>4, <3>2 DEF Credible
    <2>2. CASE ~Right(p)
      BY <2>2 DEF Credible, Issuing
    <2>3. QED
      BY <2>1, <2>2
  <1>10. pc[p] \notin Revoking /\ l \notin {"revokeTokens", "drop", "consume", "burn"}
    BY <1>1, <1>5 DEF Revoking
  <1>11. QED
    BY <1>1, <1>3, <1>4, <1>7, <1>8, <1>9, <1>10, Passes

LEMMA WithSecret ==
  ASSUME NEW k \in Job, NEW n \in Nat
  PROVE  LET m == [k EXCEPT !.secret = n] IN
         /\ m \in Job /\ m.op = k.op /\ m.user = k.user /\ m.code = k.code /\ m.again = k.again
         /\ m.barred = k.barred /\ m.last = k.last /\ m.codes = k.codes /\ m.secret = n
         /\ m.late = k.late
  BY DEF Job

(* A login comes to accept codes of the secret the row has. *)
LEMMA ShowsCode ==
  ASSUME IInv, NEW p \in Procs, pc[p] = "factor", Exists, job[p].code # None, Goto(p, "consume"),
         job' = [job EXCEPT ![p].secret = totp.secret],
         UNCHANGED <<now, begun, made, row, throttle, history>>
  PROVE  IInv'
  <1> DEFINE j == [job[p] EXCEPT !.secret = totp.secret]
  <1>1. /\ UNCHANGED <<now, begun, made, user, totp, sessions, tokens, throttle, used, raced, replayed, lockEnd>>
        /\ pc' = [pc EXCEPT ![p] = "consume"] /\ job' = [job EXCEPT ![p] = j]
    BY DEF row, history, Goto
  <1>2. /\ job[p] \in Job /\ Fits("factor", job[p]) /\ Tried(job[p]) /\ Credible("factor", job[p]) /\ CodesInv
        /\ RequestsInv /\ totp.secret \in Nat /\ totp.secret <= made
    BY Facts DEF RowsInv, CodesInv
  <1>3. /\ j \in Job /\ j.op = job[p].op /\ j.user = job[p].user /\ j.code = job[p].code /\ j.again = job[p].again
        /\ j.barred = job[p].barred /\ j.last = job[p].last /\ j.codes = job[p].codes /\ j.secret = totp.secret
        /\ j.late = job[p].late
    BY <1>2, WithSecret
  <1> HIDE DEF j
  <1>4. Moved(p, "consume", j)
    <2>1. Fits("consume", j) /\ "consume" \in Labels
      BY <1>2, <1>3 DEF Fits, Logging, Labels, Tried, Known
    <2>2. QED
      BY <1>1, <1>2, <1>3, <2>1, Moves
  <1>5. IssuedInv'
    <2>1. Credible("consume", j)
      BY <1>2, <1>3 DEF Credible, Issuing
    <2>2. pc[p] \notin Revoking
      BY DEF Revoking
    <2>3. QED
      BY <1>1, <1>3, <1>4, <2>1, <2>2, IssuedStays
  <1>6. /\ pc'[p] = "consume" /\ job'[p] = j /\ RequestsInv'
        /\ \A q \in Procs \ {p} : pc'[q] = pc[q] /\ Aged(job[q], job'[q]) /\ job[q] \in Job
    BY <1>2, <1>4 DEF Moved, RequestsInv
  <1>7. \A q \in Procs \ {p} : job'[q] = job[q]
    BY <1>1, <1>2 DEF RequestsInv
  <1>8. \A c : Gone(c) => Gone(c)'
    BY <1>1, <1>3, <1>6, <1>7 DEF Gone
  <1>9. ASSUME NEW q \in Procs
        PROVE  /\ Tried(job[q])' /\ Burns(q)'
               /\ ~Exists' /\ pc'[q] \in {"consume", "burn"} => job'[q].code \in raced'
    <2>1. CASE q = p
      <3>1. /\ job'[q].secret = totp.secret /\ job'[q].code = job[p].code
            /\ job'[q].codes = job[p].codes /\ job'[q].again = job[p].again
        BY <1>3, <1>6, <2>1
      <3>2. Tried(job[q])'
        BY <1>1, <1>2, <3>1 DEF Tried, Known
      <3>3. Burns(q)'
        BY <1>6, <2>1 DEF Burns
      <3>4. Exists'
        BY <1>1 DEF Exists
      <3>5. QED
        BY <3>2, <3>3, <3>4
    <2>2. CASE q # p
      <3>1. Tried(job[q]) /\ Burns(q) /\ pc'[q] = pc[q] /\ job'[q] = job[q]
        BY <1>2, <1>6, <1>7, <2>2 DEF CodesInv
      <3>2. Burns(q)'
        BY <1>1, <1>8, <3>1 DEF Burns, Known
      <3>3. QED
        BY <1>1, <3>1, <3>2 DEF Tried, Known, Exists
    <2>3. QED
      BY <2>1, <2>2
  <1>10. CodesInv'
    <2>1. (\A c \in totp.codes \cup used : Known(c)') /\ \A c \in used \ raced : Spent(c)'
      BY <1>1, <1>2, <1>8 DEF CodesInv, Known, Spent
    <2>2. QED
      BY <1>1, <1>2, <1>9, <2>1 DEF CodesInv
  <1>11. RowsInv' /\ LockInv'
    BY <1>1, LockStays DEF IInv, RowsInv
  <1>12. QED
    BY <1>5, <1>6, <1>10, <1>11 DEF IInv

LEMMA FactorStep ==
  ASSUME IInv, NEW p \in Procs, Factor(p) \/ GiveUp(p)
  PROVE  IInv'
  <1>1. UNCHANGED <<now, begun, made, user, totp, sessions, tokens, throttle, history>>
    BY DEF Factor, GiveUp, row
  <1>2. pc[p] \notin Revoking
    BY DEF Factor, GiveUp, At, Revoking
  <1>3. CASE End(p)
    BY <1>1, <1>2, <1>3, EndsQuietly
  <1>4. ASSUME NEW l \in {"fail", "clear"}, pc[p] = "factor", Goto(p, l), UNCHANGED job
        PROVE  IInv'
    <2>1. Fits("factor", job[p]) /\ Credible("factor", job[p]) /\ Tried(job[p]) /\ RequestsInv
      BY <1>4, Facts
    <2>2. Fits(l, job[p]) /\ Credible(l, job[p]) /\ l \in Labels
      BY <2>1 DEF Fits, Logging, Credible, Issuing, Labels
    <2>3. Moved(p, l, job[p])
      BY <1>4, <2>1, <2>2, Goes
    <2>4. QED
      BY <1>1, <1>2, <2>1, <2>2, <2>3, Passes
  <1>5. QED
    BY <1>3, <1>4, ShowsCode DEF Factor, GiveUp, At

(* A login has accepted its code, and is about to write that. *)
LEMMA Accepts ==
  ASSUME IInv, NEW p \in Procs, pc[p] = "consume", NEW j \in Job, Goto(p, "burn"), job' = [job EXCEPT ![p] = j],
         UNCHANGED <<now, begun, made, row, throttle, history>>,
         j.op = job[p].op, j.user = job[p].user, j.code = job[p].code, j.again = job[p].again,
         j.barred = job[p].barred, j.secret = job[p].secret, j.late = job[p].late,
         Known(j.code), \A c \in j.codes : Known(c), j.code \in used => j.code \in raced,
         j.last # 0 => /\ j.code \in StepCode /\ j.last >= j.code.n
                       /\ \A c \in used \ raced : c \in StepCode => j.last >= c.n \/ Gone(c),
         j.last = 0 => /\ j.code \in Recovery /\ j.code \notin j.codes
                       /\ \A c \in used \ raced : c \notin j.codes
  PROVE  IInv'
  <1>1. /\ UNCHANGED <<now, begun, made, user, totp, sessions, tokens, throttle, used, raced, replayed, lockEnd>>
        /\ pc' = [pc EXCEPT ![p] = "burn"] /\ job' = [job EXCEPT ![p] = j]
    BY DEF row, history, Goto
  <1>2. /\ job[p] \in Job /\ Fits("consume", job[p]) /\ Tried(job[p]) /\ Credible("consume", job[p])
        /\ CodesInv /\ RequestsInv
    BY Facts
  <1>3. Moved(p, "burn", j)
    <2>1. Fits("burn", j) /\ "burn" \in Labels
      BY <1>2 DEF Fits, Logging, Labels, Known
    <2>2. QED
      BY <1>1, <1>2, <2>1, Moves
  <1>4. IssuedInv'
    <2>1. Credible("burn", j)
      BY <1>2 DEF Credible, Issuing
    <2>2. pc[p] \notin Revoking
      BY DEF Revoking
    <2>3. QED
      BY <1>1, <1>3, <2>1, <2>2, IssuedStays
  <1>5. /\ pc'[p] = "burn" /\ job'[p] = j /\ RequestsInv'
        /\ \A q \in Procs \ {p} : pc'[q] = pc[q] /\ job'[q] = job[q]
    BY <1>1, <1>2, <1>3 DEF Moved, RequestsInv
  <1>6. \A c : Gone(c) => Gone(c)'
    BY <1>1, <1>5 DEF Gone
  <1>7. ASSUME NEW q \in Procs
        PROVE  /\ Tried(job[q])' /\ Burns(q)'
               /\ ~Exists' /\ pc'[q] \in {"consume", "burn"} => job'[q].code \in raced'
    <2>1. CASE q = p
      <3>1. job'[q] = j /\ pc'[q] = "burn"
        BY <1>5, <2>1
      <3>2. Tried(job[q])'
        BY <1>1, <1>2, <3>1 DEF Tried, Known
      <3>3. Burns(q)'
        BY <1>1, <1>6, <3>1 DEF Burns, Known
      <3>4. ~Exists' => job'[q].code \in raced'
        BY <1>1, <1>2, <3>1 DEF CodesInv, Exists
      <3>5. QED
        BY <3>2, <3>3, <3>4
    <2>2. CASE q # p
      <3>1. Tried(job[q]) /\ Burns(q) /\ pc'[q] = pc[q] /\ job'[q] = job[q]
        BY <1>2, <1>5, <2>2 DEF CodesInv
      <3>2. Burns(q)'
        BY <1>1, <1>6, <3>1 DEF Burns, Known
      <3>3. Tried(job[q])'
        BY <1>1, <3>1 DEF Tried, Known
      <3>4. ~Exists' /\ pc'[q] \in {"consume", "burn"} => job'[q].code \in raced'
        BY <1>1, <1>2, <3>1 DEF CodesInv, Exists
      <3>5. QED
        BY <3>2, <3>3, <3>4
    <2>3. QED
      BY <2>1, <2>2
  <1>8. CodesInv'
    <2>1. (\A c \in totp.codes \cup used : Known(c)') /\ \A c \in used \ raced : Spent(c)'
      BY <1>1, <1>2, <1>6 DEF CodesInv, Known, Spent
    <2>2. QED
      BY <1>1, <1>2, <1>7, <2>1 DEF CodesInv
  <1>9. RowsInv' /\ LockInv'
    BY <1>1, LockStays DEF IInv, RowsInv
  <1>10. QED
    BY <1>4, <1>5, <1>8, <1>9 DEF IInv

LEMMA ConsumeStep ==
  ASSUME IInv, NEW p \in Procs, Consume(p)
  PROVE  IInv'
  <1> DEFINE code == job[p].code
  <1>1. /\ pc[p] = "consume" /\ UNCHANGED <<now, begun, made, row, throttle, history>>
        /\ job[p] \in Job /\ Fits("consume", job[p]) /\ Tried(job[p]) /\ CodesInv /\ RequestsInv
    BY Facts DEF Consume, ConsumeFrom, At
  <1>2. /\ job[p].last = 0 /\ job[p].secret \in Nat /\ totp.last \in Nat /\ totp.codes \subseteq Recovery
        /\ now \in 2..MaxTime /\ MaxTime \in Nat
    BY <1>1, BoundsAssumption DEF Fits, Job, IInv, RowsInv, Start
  <1>3. ASSUME code \in StepCodes(job[p].secret), code.n >= totp.last + 1, Goto(p, "burn"),
               job' = [job EXCEPT ![p].last = Larger(now + 1, code.n)]
        PROVE  IInv'
    <2> DEFINE n == Larger(now + 1, code.n)
               j == [job[p] EXCEPT !.last = n]
    <2>1. /\ job[p].secret # 0 /\ code.of = job[p].secret /\ code.n \in now - 1..now + 1
          /\ code \in [kind : {"totp"}, of : {job[p].secret}, n : now - 1..now + 1]
      <3>1. job[p].secret # 0 /\ code \in [kind : {"totp"}, of : {job[p].secret}, n : now - 1..now + 1]
        BY <1>3 DEF StepCodes
      <3>2. QED
        BY <3>1
    <2>2. now - 1..now + 1 \subseteq 0..MaxTime + 1
      BY <1>2
    <2>3. code \in StepCode /\ code \in Code /\ code.n \in Nat
      BY <1>2, <2>1, <2>2 DEF StepCode, Code
    <2>4. Known(code)
      BY <1>1, <1>2, <2>1, <2>3 DEF Known, Tried, CodesInv, IInv, RowsInv
    <2>5. n \in 0..MaxTime + 1 /\ n # 0 /\ n >= code.n
      BY <1>2, <2>1, <2>3 DEF Larger
    <2>6. job' = [job EXCEPT ![p] = j]
      BY <1>3
    <2> HIDE DEF n
    <2>7. /\ j \in Job /\ j.op = job[p].op /\ j.user = job[p].user /\ j.code = code /\ j.again = job[p].again
          /\ j.barred = job[p].barred /\ j.secret = job[p].secret /\ j.late = job[p].late /\ j.last = n
          /\ j.codes = job[p].codes
      BY <1>1, <2>5 DEF Job
    <2> HIDE DEF j
    <2>8. code \in used => code \in raced
      <3> SUFFICES ASSUME code \in used \ raced PROVE FALSE
        OBVIOUS
      <3>1. Spent(code)
        BY <1>1 DEF CodesInv
      <3>2. ~(totp.last >= code.n)
        BY <1>2, <1>3, <2>3
      <3>3. Gone(code)
        BY <2>3, <3>1, <3>2 DEF Spent
      <3>4. QED
        BY <1>1, <2>1, <3>3 DEF Gone
    <2>9. ASSUME NEW c \in used \ raced, c \in StepCode
          PROVE  n >= c.n \/ Gone(c)
      <3>1. Spent(c) /\ c.n \in Nat
        BY <1>1, <1>2, <2>9 DEF CodesInv, StepCode
      <3>2. CASE totp.last >= c.n
        BY <1>2, <1>3, <2>3, <2>4, <2>5, <3>1, <3>2
      <3>3. QED
        BY <2>9, <3>1, <3>2 DEF Spent
    <2>10. \A c \in j.codes : Known(c)
      BY <1>1, <2>7 DEF Tried
    <2>11. QED
      BY <1>1, <1>3, <2>3, <2>4, <2>5, <2>6, <2>7, <2>8, <2>9, <2>10, Accepts
  <1>4. ASSUME code \in totp.codes, Goto(p, "burn"), job' = [job EXCEPT ![p].codes = totp.codes \ {code}]
        PROVE  IInv'
    <2> DEFINE j == [job[p] EXCEPT !.codes = totp.codes \ {code}]
    <2>1. code \in Recovery /\ code \in Code /\ totp.codes \ {code} \in SUBSET Recovery
      BY <1>2, <1>4 DEF Code
    <2>2. job' = [job EXCEPT ![p] = j]
      BY <1>4
    <2>3. /\ j \in Job /\ j.op = job[p].op /\ j.user = job[p].user /\ j.code = code /\ j.again = job[p].again
          /\ j.barred = job[p].barred /\ j.secret = job[p].secret /\ j.late = job[p].late /\ j.last = 0
          /\ j.codes = totp.codes \ {code}
      BY <1>1, <1>2, <2>1 DEF Job
    <2> HIDE DEF j
    <2>4. \A c \in used \ raced : c \notin totp.codes
      BY <1>1 DEF CodesInv, Spent
    <2>5. \A c \in j.codes : Known(c)
      BY <1>1, <2>3 DEF CodesInv
    <2>6. Known(code)
      BY <1>1, <1>4 DEF CodesInv
    <2>7. QED
      BY <1>1, <1>4, <2>1, <2>2, <2>3, <2>4, <2>5, <2>6, Accepts
  <1>5. ASSUME Goto(p, "fail"), UNCHANGED job
        PROVE  IInv'
    <2>1. Fits("fail", job[p]) /\ Credible("fail", job[p]) /\ "fail" \in Labels
      BY <1>1 DEF Fits, Logging, Credible, Issuing, Labels
    <2>2. Moved(p, "fail", job[p])
      BY <1>1, <1>5, <2>1, Goes
    <2>3. pc[p] \notin Revoking
      BY <1>1 DEF Revoking
    <2>4. UNCHANGED <<now, begun, made, user, totp, sessions, tokens, throttle, history>>
      BY <1>1 DEF row
    <2>5. QED
      BY <1>1, <2>1, <2>2, <2>3, <2>4, Passes
  <1>6. QED
    BY <1>3, <1>4, <1>5 DEF Consume, ConsumeFrom

(* The code is used: where logins overlap, the codes of all of them are excused. *)
LEMMA BurnStep ==
  ASSUME IInv, NEW p \in Procs, Burn(p)
  PROVE  IInv'
  <1> DEFINE j == job[p]  code == j.code  Burning == {q \in Procs : pc[q] = "burn"}
             h == [j EXCEPT !.last = 0, !.codes = {}]
             k == [h EXCEPT !.code = None, !.again = FALSE]
  <1>1. /\ pc[p] = "burn" /\ Goto(p, "clear") /\ totp' = (IF Exists THEN Burnt(j) ELSE totp)
        /\ used' = used \cup {code} /\ replayed' = replayed \cup (IF j.again THEN {code} ELSE {})
        /\ raced' = (IF Burning = {p} THEN raced ELSE raced \cup {job[q].code : q \in Burning})
        /\ UNCHANGED <<now, begun, made, user, sessions, tokens, throttle, lockEnd>>
    BY DEF Burn, At
  <1>2. /\ j \in Job /\ Fits("burn", j) /\ Tried(j) /\ Credible("burn", j) /\ Burns(p) /\ CodesInv
        /\ RequestsInv /\ RowsInv
    BY <1>1, Facts
  <1>3. job' = [job EXCEPT ![p] = k]
    BY <1>2 DEF Burn, RequestsInv
  <1>4. /\ k \in Job /\ k.op = j.op /\ k.user = j.user /\ k.code = None /\ k.again = FALSE
        /\ k.barred = j.barred /\ k.secret = j.secret /\ k.late = j.late /\ k.last = 0 /\ k.codes = {}
    <2>1. /\ h \in Job /\ h.op = j.op /\ h.user = j.user /\ h.barred = j.barred /\ h.secret = j.secret
          /\ h.late = j.late /\ h.last = 0 /\ h.codes = {}
      <3>1. j \in Job /\ 0 \in 0..MaxTime + 1 /\ {} \in SUBSET Recovery
        BY <1>2, BoundsAssumption
      <3> HIDE DEF j
      <3>2. QED
        BY <3>1 DEF Job
    <2> HIDE DEF h
    <2>2. /\ k \in Job /\ k.op = h.op /\ k.user = h.user /\ k.code = None /\ k.again = FALSE
          /\ k.barred = h.barred /\ k.secret = h.secret /\ k.late = h.late /\ k.last = h.last /\ k.codes = h.codes
      BY <2>1 DEF Job
    <2>3. QED
      BY <2>1, <2>2
  <1> HIDE DEF k, h
  <1>5. Moved(p, "clear", k)
    <2>1. Fits("clear", k) /\ "clear" \in Labels
      BY <1>2, <1>4 DEF Fits, Logging, Labels
    <2>2. QED
      BY <1>1, <1>2, <1>3, <1>4, <2>1, Moves DEF Goto
  <1>6. IssuedInv'
    <2>1. Credible("clear", k)
      BY <1>2, <1>4 DEF Credible, Issuing
    <2>2. pc[p] \notin Revoking
      BY <1>1 DEF Revoking
    <2>3. QED
      BY <1>1, <1>4, <1>5, <2>1, <2>2, IssuedStays
  <1>7. /\ pc'[p] = "clear" /\ job'[p] = k /\ RequestsInv'
        /\ \A q \in Procs \ {p} : pc'[q] = pc[q] /\ job'[q] = job[q]
    BY <1>2, <1>3, <1>5 DEF Moved, RequestsInv
  <1>8. \A q \in Procs : pc[q] = "burn" => job[q].code \in Code
    BY <1>2 DEF RequestsInv, Fits
  <1>9. /\ totp'.secret = totp.secret /\ totp' \in [secret : Nat, on : BOOLEAN, last : 0..MaxTime + 1, codes : SUBSET Recovery]
        /\ (~Exists => totp' = totp)
        /\ (Exists /\ j.last # 0 => totp'.last = j.last /\ totp'.codes = totp.codes)
        /\ (Exists /\ j.last = 0 => totp'.last = totp.last /\ totp'.codes = j.codes)
    <2>1. /\ totp \in [secret : Nat, on : BOOLEAN, last : 0..MaxTime + 1, codes : SUBSET Recovery]
          /\ j.last \in 0..MaxTime + 1 /\ j.codes \in SUBSET Recovery
      BY <1>2 DEF RowsInv, Job
    <2>2. CASE ~Exists
      BY <1>1, <2>1, <2>2
    <2>3. CASE Exists /\ j.last # 0
      <3>1. totp' = [totp EXCEPT !.last = j.last]
        BY <1>1, <2>3 DEF Burnt
      <3> HIDE DEF j
      <3>2. QED
        BY <2>1, <2>3, <3>1
    <2>4. CASE Exists /\ j.last = 0
      <3>1. totp' = [totp EXCEPT !.codes = j.codes]
        BY <1>1, <2>4 DEF Burnt
      <3> HIDE DEF j
      <3>2. QED
        BY <2>1, <2>4, <3>1
    <2>5. QED
      BY <2>2, <2>3, <2>4
  <1>10. RowsInv'
    <2>1. used' \cup raced' \subseteq Code
      BY <1>1, <1>2, <1>8 DEF RowsInv
    <2>2. QED
      BY <1>1, <1>2, <1>9, <2>1 DEF RowsInv
  <1>11. LockInv'
    BY <1>1, LockStays DEF IInv
  <1>12. /\ raced \subseteq raced' /\ used \subseteq used' /\ Known(code)
         /\ used' \ raced' \subseteq (used \ raced) \cup {code}
         /\ (code \in used => code \in raced)
         /\ \A q \in Procs \ {p} : pc[q] = "burn" => job[q].code \in raced' /\ code \in raced'
    <2>1. raced \subseteq raced' /\ used \subseteq used' /\ used' \ raced' \subseteq (used \ raced) \cup {code}
      BY <1>1
    <2>2. Known(code) /\ (code \in used => code \in raced)
      BY <1>1, <1>2 DEF Burns
    <2>3. ASSUME NEW q \in Procs \ {p}, pc[q] = "burn"
          PROVE  job[q].code \in raced' /\ code \in raced'
      <3>1. q \in Burning /\ p \in Burning /\ Burning # {p}
        BY <1>1, <2>3
      <3>2. QED
        BY <1>1, <3>1
    <2>4. QED
      BY <2>1, <2>2, <2>3
  <1>13. \A c : Gone(c) => Gone(c)'
    BY <1>7, <1>9 DEF Gone
  <1>14. ASSUME NEW c \in used' \ raced'
         PROVE  Spent(c)'
    <2>1. CASE c \in used \ raced
      <3>1. Spent(c) /\ Known(c)
        BY <1>2, <2>1 DEF CodesInv
      <3>2. CASE ~Exists
        BY <1>9, <1>13, <3>1, <3>2 DEF Spent
      <3>3. CASE Exists /\ j.last # 0
        <4>1. c \in StepCode => j.last >= c.n \/ Gone(c)
          BY <1>1, <1>2, <2>1, <3>3 DEF Burns
        <4>2. QED
          BY <1>9, <1>13, <3>1, <3>3, <4>1 DEF Spent
      <3>4. CASE Exists /\ j.last = 0
        <4>1. c \notin j.codes
          BY <1>1, <1>2, <2>1, <3>4 DEF Burns
        <4>2. QED
          BY <1>9, <1>13, <3>1, <3>4, <4>1 DEF Spent
      <3>5. QED
        BY <3>2, <3>3, <3>4
    <2>2. CASE c = code /\ code \notin used
      <3>1. Exists
        BY <1>1, <1>2, <1>12, <1>14, <2>2 DEF CodesInv
      <3>2. CASE j.last # 0
        <4>1. code \in StepCode /\ j.last >= code.n
          BY <1>1, <1>2, <3>2 DEF Burns
        <4>2. code \notin totp.codes
          BY <1>2, <4>1 DEF RowsInv, StepCode, Recovery
        <4>3. QED
          BY <1>9, <2>2, <3>1, <3>2, <4>1, <4>2 DEF Spent
      <3>3. CASE j.last = 0
        <4>1. code \in Recovery /\ code \notin j.codes
          BY <1>1, <1>2, <3>3 DEF Burns
        <4>2. code \notin StepCode
          BY <4>1 DEF StepCode, Recovery
        <4>3. QED
          BY <1>9, <2>2, <3>1, <3>3, <4>1, <4>2 DEF Spent
      <3>4. QED
        BY <3>2, <3>3
    <2>3. QED
      BY <1>12, <1>14, <2>1, <2>2
  <1>15. ASSUME NEW q \in Procs
         PROVE  /\ Tried(job[q])' /\ Burns(q)'
                /\ ~Exists' /\ pc'[q] \in {"consume", "burn"} => job'[q].code \in raced'
    <2>1. CASE q = p
      <3>1. job'[q].code = None /\ job'[q].again = FALSE /\ job'[q].codes = {} /\ job'[q].secret = j.secret
            /\ pc'[q] = "clear"
        BY <1>4, <1>7, <2>1
      <3>2. QED
        BY <1>1, <1>2, <3>1 DEF Tried, Burns
    <2>2. CASE q # p
      <3>1. Tried(job[q]) /\ Burns(q) /\ pc'[q] = pc[q] /\ job'[q] = job[q]
        BY <1>2, <1>7, <2>2 DEF CodesInv
      <3>2. Tried(job[q])'
        BY <1>1, <3>1 DEF Tried, Known
      <3>3. ~Exists' /\ pc'[q] \in {"consume", "burn"} => job'[q].code \in raced'
        BY <1>1, <1>2, <1>12, <3>1 DEF CodesInv, Exists
      <3>4. Burns(q)'
        <4> SUFFICES ASSUME pc[q] = "burn"
                     PROVE  Burns(q)'
          BY <3>1 DEF Burns
        <4>1. used' \ raced' \subseteq used \ raced /\ job[q].code \in raced'
          BY <1>12, <2>2
        <4>2. Known(job[q].code)'
          BY <1>1, <3>1 DEF Burns, Known
        <4>3. QED
          BY <1>13, <3>1, <4>1, <4>2 DEF Burns
      <3>5. QED
        BY <3>2, <3>3, <3>4
    <2>3. QED
      BY <2>1, <2>2
  <1>16. CodesInv'
    <2>1. \A c \in totp'.codes \cup used' : Known(c)
      BY <1>1, <1>2, <1>9, <1>12 DEF CodesInv, Tried
    <2>2. \A c \in totp'.codes \cup used' : Known(c)'
      BY <1>1, <2>1 DEF Known
    <2>3. replayed' \subseteq raced'
      BY <1>1, <1>2, <1>12 DEF CodesInv, Tried
    <2>4. totp'.secret <= made'
      BY <1>1, <1>2, <1>9 DEF CodesInv
    <2>5. QED
      BY <1>14, <1>15, <2>2, <2>3, <2>4 DEF CodesInv
  <1>17. QED
    BY <1>6, <1>7, <1>10, <1>11, <1>16 DEF IInv

---------------------------------------------------------------------------------
(* The throttle. *)

LEMMA FailedFacts ==
  ASSUME IInv
  PROVE  LET t == Failed(throttle) IN
         /\ t \in Entry /\ t # None /\ t.fails > 0 /\ (t.until > 0 <=> t.fails >= MaxFailures) /\ Gc(t) = t
  <1> DEFINE a == IF throttle = None \/ now - throttle.first > Window
                  THEN [fails |-> 0, first |-> now, until |-> 0] ELSE throttle
             f == IF a.fails > MaxFailures THEN a.fails ELSE a.fails + 1
             u == IF a.fails + 1 >= MaxFailures THEN now + Lockout ELSE a.until
             t == Failed(throttle)
  <1>1. /\ now \in 2..MaxTime /\ MaxTime \in Nat /\ MaxFailures \in Nat \ {0} /\ Window \in Nat /\ Lockout \in Nat
    BY ThrottleAssumption, BoundsAssumption DEF IInv, RowsInv, Start
  <1>2. /\ a \in Entry /\ now - a.first <= Window /\ (a.until > 0 <=> a.fails >= MaxFailures)
        /\ a.fails \in Nat /\ a.first \in 0..MaxTime /\ a.until \in 0..MaxTime + Lockout
    <2>1. CASE throttle = None \/ now - throttle.first > Window
      <3>1. a = [fails |-> 0, first |-> now, until |-> 0]
        BY <2>1
      <3> HIDE DEF a
      <3>2. QED
        BY <1>1, <3>1 DEF Entry
    <2>2. CASE ~(throttle = None \/ now - throttle.first > Window)
      <3>1. a = throttle /\ throttle # None /\ throttle \in Entry
        BY <2>2 DEF IInv, LockInv
      <3>2. /\ now - throttle.first <= Window /\ (throttle.until > 0 <=> throttle.fails >= MaxFailures)
            /\ throttle.fails \in Nat /\ throttle.first \in 0..MaxTime /\ throttle.until \in 0..MaxTime + Lockout
        BY <1>1, <2>2, <3>1 DEF IInv, LockInv, Entry
      <3> HIDE DEF a
      <3>3. QED
        BY <3>1, <3>2
    <2>3. QED
      BY <2>1, <2>2
  <1>3. t = [a EXCEPT !.fails = f, !.until = u]
    BY DEF Failed
  <1> HIDE DEF a, t
  <1>4. /\ f \in Nat /\ f > 0 /\ u \in 0..MaxTime + Lockout /\ (u > 0 <=> f >= MaxFailures)
    BY <1>1, <1>2
  <1> HIDE DEF f, u
  <1>5. t \in Entry /\ t.fails = f /\ t.until = u /\ t.first = a.first
    BY <1>2, <1>3, <1>4 DEF Entry
  <1>6. t # None
    BY <1>1, <1>5, NoneAssumption DEF Entry
  <1>7. Gc(t) = t
    BY <1>1, <1>2, <1>5 DEF Gc
  <1>8. QED
    BY <1>4, <1>5, <1>6, <1>7 DEF t

LEMMA RecordFailureStep ==
  ASSUME IInv, NEW p \in Procs, RecordFailure(p)
  PROVE  IInv'
  <1>1. /\ pc[p] = "fail" /\ End(p) /\ throttle' = Failed(throttle)
        /\ UNCHANGED <<now, begun, made, user, totp, sessions, tokens, used, raced, replayed>>
    BY FailedFacts DEF RecordFailure, At, row
  <1>2. Fits("fail", job[p]) /\ job[p].barred \in BOOLEAN
    BY <1>1, Facts DEF Job
  <1>3. lockEnd' = IF throttle' # None /\ throttle'.until > 0 THEN throttle'.until ELSE 0
    BY <1>2 DEF RecordFailure, Fits, Logging
  <1>4. LockInv'
    <2>1. /\ throttle' \in Entry /\ throttle' # None /\ throttle'.fails > 0
          /\ (throttle'.until > 0 <=> throttle'.fails >= MaxFailures)
          /\ throttle'.until \in 0..MaxTime + Lockout /\ now' \in Nat
      BY <1>1, FailedFacts, BoundsAssumption DEF Entry, IInv, RowsInv, Start
    <2>2. lockEnd' \in 0..MaxTime + Lockout
      BY <1>3, <2>1, ThrottleAssumption, BoundsAssumption
    <2>3. now' < lockEnd' => throttle'.until = lockEnd'
      BY <1>3, <2>1, ThrottleAssumption, BoundsAssumption
    <2>4. QED
      BY <2>1, <2>2, <2>3 DEF LockInv
  <1>5. Moved(p, "idle", Idle)
    BY <1>1, Ends, Facts
  <1>6. Credible("idle", Idle) /\ Tried(Idle) /\ Idle.op = "none" /\ pc[p] \notin Revoking
    BY <1>1, TriedIdle, IdleFacts DEF Credible, Issuing, Revoking
  <1>7. sessions' \subseteq Issued
    BY <1>1 DEF IInv, RowsInv
  <1>8. QED
    BY <1>1, <1>4, <1>5, <1>6, <1>7, Proceeds

LEMMA ResetThrottleStep ==
  ASSUME IInv, NEW p \in Procs, ResetThrottle(p)
  PROVE  IInv'
  <1> DEFINE l == IF job[p].op = "login" THEN "insert" ELSE "write"
  <1>1. /\ pc[p] = "clear" /\ Goto(p, l) /\ throttle' = None /\ UNCHANGED job
        /\ UNCHANGED <<now, begun, made, user, totp, sessions, tokens, used, raced, replayed>>
    BY DEF ResetThrottle, At, row
  <1>2. /\ Fits("clear", job[p]) /\ Credible("clear", job[p]) /\ Tried(job[p]) /\ RequestsInv
        /\ job[p].barred \in BOOLEAN
    BY <1>1, Facts DEF Job
  <1>3. lockEnd' = 0
    BY <1>2 DEF ResetThrottle, Fits, Logging
  <1>4. LockInv'
    <2>1. now' \in Nat /\ 0 \in 0..MaxTime + Lockout
      BY <1>1, BoundsAssumption, ThrottleAssumption DEF IInv, RowsInv, Start
    <2>2. QED
      BY <1>1, <1>3, <2>1 DEF LockInv
  <1>5. l \in {"insert", "write"} /\ l \in Labels /\ Fits(l, job[p]) /\ Credible(l, job[p])
    BY <1>2 DEF Fits, Logging, Credible, Issuing, Labels
  <1>6. Moved(p, l, job[p])
    BY <1>1, <1>2, <1>5, Goes
  <1>7. pc[p] \notin Revoking /\ sessions' \subseteq Issued
    BY <1>1 DEF Revoking, IInv, RowsInv
  <1>8. QED
    BY <1>1, <1>2, <1>4, <1>5, <1>6, <1>7, Proceeds

LEMMA CreateSessionStep ==
  ASSUME IInv, NEW p \in Procs, CreateSession(p)
  PROVE  IInv'
  <1> DEFINE s == [user |-> job[p].user, late |-> job[p].late]
  <1>1. /\ pc[p] = "insert" /\ End(p) /\ sessions' = sessions \cup {s}
        /\ UNCHANGED <<now, begun, made, user, totp, tokens, throttle, used, raced, replayed, lockEnd>>
    BY DEF CreateSession, At, history
  <1>2. Fits("insert", job[p]) /\ Credible("insert", job[p]) /\ job[p] \in Job
    BY <1>1, Facts
  <1>3. s \in Issued /\ s.user = job[p].user /\ s.late = job[p].late
    BY <1>2 DEF Issued, Job
  <1> HIDE DEF s
  <1>4. s.user.gen # 0 /\ (s.late \/ s.user = user) /\ job[p].op # "none"
    BY <1>2, <1>3 DEF Credible, Issuing, Fits, Logging
  <1>5. Moved(p, "idle", Idle)
    BY <1>1, Ends, Facts
  <1>6. Credible("idle", Idle) /\ Tried(Idle) /\ Idle.op = "none" /\ pc[p] \notin Revoking
    BY <1>1, TriedIdle, IdleFacts DEF Credible, Issuing, Revoking
  <1>7. LockInv' /\ sessions' \subseteq Issued
    BY <1>1, <1>3, LockStays DEF IInv, RowsInv
  <1>8. QED
    BY <1>1, <1>3, <1>4, <1>5, <1>6, <1>7, Proceeds

LEMMA LoginStepInv ==
  ASSUME IInv, NEW p \in Procs, LoginStep(p)
  PROVE  IInv'
  BY CompareStep, FactorStep, ConsumeStep, BurnStep, ResetThrottleStep, RecordFailureStep, CreateSessionStep
     DEF LoginStep

---------------------------------------------------------------------------------
(* The rows change, and what was issued on them is revoked. *)

LEMMA UserFacts ==
  ASSUME IInv
  PROVE  /\ user \in User /\ user.gen \in Nat /\ user.pw \in Nat /\ user.key \in Nat
         /\ (Exists <=> user.gen # 0) /\ Nobody \in User /\ Nobody.gen = 0
  <1>1. Nobody \in User /\ Nobody.gen = 0
    BY DEF Nobody, User
  <1>2. user \in User /\ (user = Nobody \/ user.gen # 0)
    BY DEF IInv, RowsInv, IssuedInv
  <1>3. QED
    BY <1>1, <1>2 DEF User, Exists

(* The password or the key changes: every request under way is late. *)
LEMMA ChangedStep ==
  ASSUME IInv, NEW p \in Procs, pc[p] \in {"write", "rekey"}, NEW new \in User, Changed(p, new),
         new.gen = user.gen, job[p].op = "reset" \/ [new EXCEPT !.pw = 0] = [user EXCEPT !.pw = 0]
  PROVE  IInv'
  <1>1. UNCHANGED <<now, begun, totp, sessions, tokens, throttle, used, raced, replayed, lockEnd>>
    BY DEF Changed, history
  <1>2. /\ job[p] \in Job /\ Fits(pc[p], job[p]) /\ RequestsInv /\ RowsInv /\ CodesInv /\ IssuedInv
        /\ job[p].op \in {"set", "change", "reset"} /\ pc[p] \notin Revoking
    BY Facts DEF Fits, Revoking
  <1>3. CASE ~Exists
    BY <1>2, <1>3, EndsQuietly DEF Changed
  <1>4. CASE Exists
    <2> DEFINE j == Late(job)[p]
    <2>1. made' = made + 1 /\ pc' = [pc EXCEPT ![p] = "revoke"] /\ job' = Late(job) /\ user' = new
      BY <1>4 DEF Changed, Make, Goto
    <2>2. \A q \in Procs : Aged(job[q], Late(job)[q]) /\ (job[q].op # "none" => Late(job)[q].late = TRUE)
      BY <1>2, LateAges
    <2>3. j \in Job /\ j.op = job[p].op
      BY <1>2, <2>2, AgedFacts
    <2>4. job' = [Late(job) EXCEPT ![p] = j]
      BY <2>1 DEF Late
    <2> HIDE DEF j
    <2>5. Fits("revoke", j) /\ "revoke" \in Labels
      BY <1>2, <2>3 DEF Fits, Logging, Revoking, Labels
    <2>6. Moved(p, "revoke", j)
      BY <1>2, <2>1, <2>3, <2>4, <2>5, Moves
    <2>7. /\ RequestsInv' /\ pc'[p] = "revoke" /\ job'[p] = j
          /\ \A q \in Procs \ {p} : pc'[q] = pc[q] /\ Aged(job[q], job'[q])
      BY <2>6 DEF Moved
    <2>8. ASSUME NEW q \in Procs
          PROVE  /\ job'[q].op = job[q].op /\ job'[q].user = job[q].user
                 /\ (job[q].op # "none" => job'[q].late = TRUE)
      <3>1. job[q] \in Job /\ Aged(job[q], job'[q]) /\ (job[q].op # "none" => job'[q].late = TRUE)
        BY <1>2, <2>1, <2>2 DEF RequestsInv
      <3>2. QED
        BY <3>1, AgedFacts
    <2>9. made \in Nat \ {0} /\ made' \in Nat \ {0} /\ made' >= made /\ totp.codes \subseteq Recovery
      BY <1>2, <2>1 DEF RowsInv
    <2>10. new.gen # 0 /\ new # Nobody
      BY <1>4, UserFacts
    <2>11. RowsInv'
      BY <1>1, <1>2, <2>1, <2>9 DEF RowsInv
    <2>12. CodesInv'
      <3>1. Exists => Exists'
        BY <2>1, <2>10 DEF Exists
      <3>2. Tried(j)
        <4>1. Tried(job[p]) /\ Aged(job[p], j)
          BY <1>2, <2>2 DEF CodesInv, j
        <4>2. job[p] \in Job /\ Aged(job[p], j)
          BY <1>2, <4>1
        <4>3. /\ j.secret = job[p].secret /\ j.code = job[p].code /\ j.codes = job[p].codes
              /\ j.again = job[p].again
          BY <4>2, AgedFacts
        <4>4. QED
          BY <4>1, <4>3 DEF Tried
      <3>3. \A q \in Procs : \/ pc'[q] = pc[q] /\ Aged(job[q], job'[q])
                             \/ pc'[q] \notin {"consume", "burn"} /\ Tried(job'[q])
        BY <2>7, <3>2
      <3>4. QED
        BY <1>1, <2>7, <2>9, <3>1, <3>3, CodesStay
    <2>13. IssuedInv'
      <3>1. ASSUME NEW q \in Procs
            PROVE  Credible(pc[q], job[q])'
        <4>1. CASE q = p
          BY <2>7, <4>1 DEF Credible, Issuing
        <4>2. CASE q # p
          <5>1. Credible(pc[q], job[q]) /\ Fits(pc[q], job[q]) /\ pc'[q] = pc[q]
            BY <1>2, <2>7, <4>2 DEF IssuedInv, RequestsInv
          <5>2. pc[q] \in Issuing => job[q].op # "none"
            BY <5>1 DEF Fits, Issuing
          <5>3. QED
            BY <2>8, <5>1, <5>2 DEF Credible
        <4>3. QED
          BY <4>1, <4>2
      <3>2. ASSUME NEW r \in Procs
            PROVE  DeleteInv(r)'
        <4>1. DeleteInv(r)
          BY <1>2 DEF IssuedInv
        <4>2. r = p => job'[r].op # "delete"
          BY <1>2, <2>8
        <4>3. QED
          BY <1>1, <2>7, <2>8, <4>1, <4>2 DEF DeleteInv
      <3>3. ASSUME NEW s \in sessions'
            PROVE  SessionInv(s)'
        BY <1>1, <1>2, <2>7 DEF IssuedInv, SessionInv
      <3>4. ASSUME NEW t \in tokens'
            PROVE  TokenInv(t)'
        <4>1. TokenInv(t)
          BY <1>1, <1>2 DEF IssuedInv
        <4>2. \A q \in Procs : pc[q] \in {"revoke", "revokeTokens"} => pc'[q] = pc[q] /\ job'[q].op = job[q].op
          BY <2>7, <2>8
        <4>3. CASE job[p].op = "reset"
          BY <2>7, <2>8, <4>1, <4>3 DEF TokenInv
        <4>4. CASE [new EXCEPT !.pw = 0] = [user EXCEPT !.pw = 0]
          BY <2>1, <4>1, <4>2, <4>4 DEF TokenInv
        <4>5. QED
          BY <4>3, <4>4
      <3>5. QED
        BY <2>1, <2>10, <3>1, <3>2, <3>3, <3>4 DEF IssuedInv
    <2>14. QED
      BY <1>1, <2>7, <2>11, <2>12, <2>13, LockStays DEF IInv
  <1>5. QED
    BY <1>3, <1>4

LEMMA SetStep ==
  ASSUME IInv, NEW p \in Procs, SetPassword(p) \/ ResetAPIKey(p)
  PROVE  IInv'
  <1>1. user \in User /\ user.gen \in Nat /\ made + 1 \in Nat
    BY UserFacts DEF IInv, RowsInv
  <1>2. CASE SetPassword(p)
    <2> DEFINE new == [user EXCEPT !.pw = made + 1]
    <2>1. new \in User /\ new.gen = user.gen /\ [new EXCEPT !.pw = 0] = [user EXCEPT !.pw = 0]
      BY <1>1 DEF User
    <2>2. pc[p] = "write" /\ Changed(p, new)
      BY <1>2 DEF SetPassword, At
    <2> HIDE DEF new
    <2>3. QED
      BY <2>1, <2>2, ChangedStep
  <1>3. CASE ResetAPIKey(p)
    <2> DEFINE new == [user EXCEPT !.key = made + 1]
    <2>1. new \in User /\ new.gen = user.gen
      BY <1>1 DEF User
    <2>2. pc[p] = "rekey" /\ Changed(p, new)
      BY <1>3 DEF ResetAPIKey, At
    <2>3. job[p].op = "reset"
      BY <2>2, Facts DEF Fits
    <2> HIDE DEF new
    <2>4. QED
      BY <2>1, <2>2, <2>3, ChangedStep
  <1>4. QED
    BY <1>2, <1>3
(* Sessions or tokens are revoked, and the request goes on or ends. *)
LEMMA Revokes ==
  ASSUME IInv, NEW p \in Procs, NEW l, NEW j, Moved(p, l, j), UNCHANGED user,
         pc[p] \in {"revoke", "revokeTokens"}, l \notin Issuing, j.op = "none" \/ j = job[p],
         sessions' \subseteq sessions, tokens' \subseteq tokens,
         pc[p] = "revoke" => sessions' = {} /\ l # "drop",
         pc[p] = "revokeTokens" => tokens' = {},
         pc[p] = "revoke" /\ job[p].op \in {"reset", "delete"} => l = "revokeTokens",
         l = "revokeTokens" => pc[p] = "revoke"
  PROVE  IssuedInv'
  <1>1. /\ IssuedInv /\ pc'[p] = l /\ job'[p] = j
        /\ \A q \in Procs : Fits(pc[q], job[q]) /\ job[q] \in Job /\ Fits(pc'[q], job'[q])
        /\ \A q \in Procs \ {p} : pc'[q] = pc[q] /\ Aged(job[q], job'[q])
    BY DEF IInv, Moved, RequestsInv
  <1>2. ASSUME NEW q \in Procs \ {p}
        PROVE  /\ job'[q].op = job[q].op /\ job'[q].user = job[q].user
               /\ (job[q].late => job'[q].late)
    <2>1. Aged(job[q], job'[q]) /\ job[q] \in Job
      BY <1>1
    <2>2. QED
      BY <2>1, AgedFacts
  <1>3. ASSUME NEW q \in Procs
        PROVE  Credible(pc[q], job[q])'
    <2>1. Credible(pc[q], job[q])
      BY <1>1 DEF IssuedInv
    <2>2. QED
      BY <1>1, <1>2, <2>1 DEF Credible
  <1>4. ASSUME NEW r \in Procs, job'[r].op = "delete"
        PROVE  /\ job[r].op = "delete" /\ DeleteInv(r)
               /\ \A q \in Procs \ {r} : job'[q].op # "none" => job'[q].late
    <2>1. job[r].op = "delete"
      BY <1>1, <1>2, <1>4
    <2>2. DeleteInv(r)
      BY <1>1 DEF IssuedInv
    <2>3. ASSUME NEW q \in Procs \ {r}, job'[q].op # "none"
          PROVE  job'[q].late
      <3>1. job[q].op # "none" /\ (job[q].late => job'[q].late)
        BY <1>1, <1>2, <2>3
      <3>2. QED
        BY <2>1, <2>2, <3>1 DEF DeleteInv
    <2>4. QED
      BY <2>1, <2>2, <2>3
  <1>5. ASSUME NEW r \in Procs, job'[r].op = "delete"
        PROVE  /\ pc'[r] \in {"revokeTokens", "drop"} => \A s \in sessions' : s.late
               /\ pc'[r] = "drop" => \A t \in tokens' : t.late
    <2>1. job[r].op = "delete" /\ DeleteInv(r)
      BY <1>4, <1>5
    <2>2. CASE r = p
      BY <1>1, <2>1, <2>2 DEF DeleteInv
    <2>3. CASE r # p
      BY <1>1, <2>1, <2>3 DEF DeleteInv
    <2>4. QED
      BY <2>2, <2>3
  <1>6. \A r \in Procs : DeleteInv(r)'
    BY <1>4, <1>5 DEF DeleteInv
  <1>7. ASSUME NEW s \in sessions'
        PROVE  SessionInv(s)'
    <2>1. SessionInv(s) /\ pc[p] # "revoke"
      BY <1>1 DEF IssuedInv
    <2>2. QED
      BY <1>1, <2>1 DEF SessionInv
  <1>8. ASSUME NEW t \in tokens'
        PROVE  TokenInv(t)'
    <2>1. TokenInv(t) /\ pc[p] = "revoke"
      BY <1>1 DEF IssuedInv
    <2>2. \A q \in Procs \ {p} : pc'[q] = pc[q] /\ job'[q].op = job[q].op
      BY <1>1, <1>2
    <2>3. QED
      BY <1>1, <2>1, <2>2 DEF TokenInv
  <1>9. QED
    BY <1>1, <1>3, <1>6, <1>7, <1>8 DEF IssuedInv

LEMMA RevokeStep ==
  ASSUME IInv, NEW p \in Procs, Revoke(p) \/ RevokeTokens(p)
  PROVE  IInv'
  <1>1. /\ pc[p] \in {"revoke", "revokeTokens"} /\ sessions' \subseteq sessions /\ tokens' \subseteq tokens
        /\ UNCHANGED <<now, begun, made, user, totp, throttle, used, raced, replayed, lockEnd>>
        /\ pc[p] = "revoke" => sessions' = {}
        /\ pc[p] = "revokeTokens" => tokens' = {}
    BY DEF Revoke, RevokeTokens, At, history
  <1>2. Fits(pc[p], job[p]) /\ Tried(job[p]) /\ RequestsInv
    BY Facts
  <1>3. CASE End(p)
    <2>1. pc[p] = "revoke" => job[p].op \notin {"reset", "delete"}
      <3>1. pc[p] = "revoke" /\ job[p].op \in {"reset", "delete"} => pc'[p] = "revokeTokens"
        BY <1>2 DEF Revoke, RevokeTokens, At, Goto, RequestsInv
      <3>2. pc'[p] = "idle"
        BY <1>2, <1>3 DEF End, Goto, RequestsInv
      <3>3. QED
        BY <3>1, <3>2
    <2>2. Moved(p, "idle", Idle) /\ Idle.op = "none" /\ Tried(Idle)
      BY <1>2, <1>3, Ends, TriedIdle, IdleFacts
    <2>3. IssuedInv'
      BY <1>1, <2>1, <2>2, Revokes DEF Issuing
    <2>4. CodesInv'
      BY <1>1, <2>2, CodesMoved DEF Exists
    <2>5. QED
      BY <1>1, <2>2, <2>3, <2>4, LockStays DEF IInv, RowsInv, Moved
  <1>4. ASSUME NEW l \in {"revokeTokens", "drop"}, Goto(p, l), UNCHANGED job,
               IF pc[p] = "revoke" THEN l = "revokeTokens" /\ job[p].op \in {"reset", "delete"}
                                   ELSE l = "drop" /\ job[p].op = "delete"
        PROVE  IInv'
    <2>1. Fits(l, job[p])
      BY <1>2, <1>4 DEF Fits, Logging, Revoking
    <2>2. Moved(p, l, job[p])
      BY <1>2, <1>4, <2>1, Goes DEF Labels, Revoking
    <2>3. IssuedInv'
      BY <1>1, <1>4, <2>2, Revokes DEF Issuing
    <2>4. CodesInv'
      BY <1>1, <1>2, <2>2, CodesMoved DEF Exists
    <2>5. QED
      BY <1>1, <2>2, <2>3, <2>4, LockStays DEF IInv, RowsInv, Moved
  <1>5. QED
    BY <1>3, <1>4 DEF Revoke, RevokeTokens, At

(* With the second factor, or the user, go the codes; what logins are about to accept of *)
(* them is excused.                                                                       *)
LEMMA WipedCodes ==
  ASSUME IInv, NEW p \in Procs, Moved(p, "idle", Idle), totp' = Off, Wiped, UNCHANGED <<made, used, replayed>>
  PROVE  /\ CodesInv' /\ used' \cup raced' \subseteq Code
         /\ totp' \in [secret : Nat, on : BOOLEAN, last : 0..MaxTime + 1, codes : SUBSET Recovery]
  <1>1. /\ CodesInv /\ RequestsInv' /\ pc'[p] = "idle" /\ job'[p] = Idle /\ made \in Nat
        /\ raced' = raced \cup {job[q].code : q \in {q \in Procs : pc[q] \in {"consume", "burn"}}}
        /\ used \cup raced \subseteq Code
    BY DEF IInv, RowsInv, Moved, Wiped
  <1>2. totp'.secret = 0 /\ totp'.last = 0 /\ totp'.codes = {}
    BY DEF Off
  <1>3. ASSUME NEW q \in Procs \ {p}
        PROVE  /\ pc'[q] = pc[q] /\ job'[q].secret = job[q].secret /\ job'[q].code = job[q].code
               /\ job'[q].codes = job[q].codes /\ job'[q].last = job[q].last /\ job'[q].again = job[q].again
    <2>1. pc'[q] = pc[q] /\ Aged(job[q], job'[q]) /\ job[q] \in Job
      BY DEF Moved, IInv, RequestsInv
    <2>2. QED
      BY <2>1, AgedFacts
  <1>4. \A q \in Procs : pc'[q] \in {"consume", "burn"} => q # p /\ job'[q].code \in raced'
    BY <1>1, <1>3
  <1>5. ASSUME NEW c \in used' \ raced'
        PROVE  Gone(c)' /\ Spent(c)'
    <2>1. Known(c)
      BY <1>1, <1>5 DEF CodesInv
    <2>2. Gone(c)'
      BY <1>1, <1>2, <1>4, <1>5, <2>1 DEF Gone, Known
    <2>3. QED
      BY <1>2, <2>2 DEF Spent
  <1>6. ASSUME NEW q \in Procs
        PROVE  Tried(job[q])' /\ Burns(q)'
    <2>1. CASE q = p
      BY <1>1, <2>1, IdleFacts DEF Tried, Burns
    <2>2. CASE q # p
      <3>1. Tried(job[q]) /\ Burns(q)
        BY <1>1 DEF CodesInv
      <3>2. Tried(job[q])'
        BY <1>3, <2>2, <3>1 DEF Tried, Known
      <3>3. Burns(q)'
        BY <1>1, <1>3, <1>4, <1>5, <2>2, <3>1 DEF Burns, Known
      <3>4. QED
        BY <3>2, <3>3
    <2>3. QED
      BY <2>1, <2>2
  <1>7. CodesInv'
    BY <1>1, <1>2, <1>4, <1>5, <1>6 DEF CodesInv, Known
  <1>8. used' \cup raced' \subseteq Code
    <2>1. \A q \in Procs : pc[q] \in {"consume", "burn"} => job[q].code \in Code
      BY DEF IInv, RequestsInv, Fits
    <2>2. QED
      BY <1>1, <2>1
  <1>9. totp' \in [secret : Nat, on : BOOLEAN, last : 0..MaxTime + 1, codes : SUBSET Recovery]
    BY BoundsAssumption DEF Off
  <1>10. QED
    BY <1>7, <1>8, <1>9
LEMMA DropUserStep ==
  ASSUME IInv, NEW p \in Procs, DropUser(p)
  PROVE  IInv'
  <1>1. /\ pc[p] = "drop" /\ pc' = [pc EXCEPT ![p] = "idle"] /\ job' = [Late(job) EXCEPT ![p] = Idle]
        /\ user' = Nobody /\ totp' = Off /\ Wiped
        /\ UNCHANGED <<now, begun, made, sessions, tokens, throttle, used, replayed, lockEnd>>
    BY DEF DropUser, At, Goto
  <1>2. RequestsInv /\ IssuedInv /\ DeleteInv(p) /\ job[p].op = "delete" /\ "idle" \in Labels
    BY <1>1, Facts DEF Fits, Labels
  <1>3. Moved(p, "idle", Idle)
    BY <1>1, <1>2, IdleFacts, FitsIdle, Moves
  <1>4. /\ CodesInv' /\ used' \cup raced' \subseteq Code
        /\ totp' \in [secret : Nat, on : BOOLEAN, last : 0..MaxTime + 1, codes : SUBSET Recovery]
    BY <1>1, <1>3, WipedCodes
  <1>5. RowsInv'
    BY <1>1, <1>4, UserFacts DEF IInv, RowsInv
  <1>6. ASSUME NEW q \in Procs
        PROVE  /\ q # p => pc'[q] = pc[q] /\ job'[q].op = job[q].op /\ job'[q].user = job[q].user
               /\ job'[q].op # "none" => q # p /\ job'[q].late
    <2>1. CASE q = p
      BY <1>3, <2>1, IdleFacts DEF Moved
    <2>2. CASE q # p
      <3>1. pc'[q] = pc[q] /\ Aged(job[q], job'[q]) /\ job[q] \in Job
        BY <1>2, <1>3, <2>2 DEF Moved, RequestsInv
      <3>2. job[q].op # "none" => job[q].late
        BY <1>2, <2>2 DEF DeleteInv
      <3>3. QED
        BY <2>2, <3>1, <3>2, AgedFacts
    <2>3. QED
      BY <2>1, <2>2
  <1>7. (\A s \in sessions' : s.late) /\ \A t \in tokens' : t.late
    BY <1>1, <1>2 DEF DeleteInv
  <1>8. ASSUME NEW q \in Procs
        PROVE  Credible(pc[q], job[q])' /\ DeleteInv(q)'
    <2>1. Credible(pc[q], job[q])'
      <3>1. CASE q = p
        BY <1>3, <3>1 DEF Moved, Credible, Issuing
      <3>2. CASE q # p
        <4>1. Credible(pc[q], job[q]) /\ Fits(pc[q], job[q])
          BY <1>2 DEF IssuedInv, RequestsInv
        <4>2. pc[q] \in Issuing => job[q].op # "none"
          BY <4>1 DEF Fits, Issuing
        <4>3. QED
          BY <1>6, <3>2, <4>1, <4>2 DEF Credible
      <3>3. QED
        BY <3>1, <3>2
    <2>2. DeleteInv(q)'
      BY <1>6, <1>7 DEF DeleteInv
    <2>3. QED
      BY <2>1, <2>2
  <1>9. (\A s \in sessions' : SessionInv(s)') /\ \A t \in tokens' : TokenInv(t)'
    BY <1>1, <1>2, <1>7 DEF SessionInv, TokenInv, IssuedInv
  <1>10. IssuedInv'
    BY <1>1, <1>8, <1>9 DEF IssuedInv
  <1>11. QED
    BY <1>1, <1>3, <1>4, <1>5, <1>10, LockStays DEF IInv, Moved

LEMMA WipeStep ==
  ASSUME IInv, NEW p \in Procs, Wipe(p)
  PROVE  IInv'
  <1>1. /\ pc[p] = "wipe" /\ End(p) /\ totp' = Off /\ Wiped
        /\ UNCHANGED <<now, begun, made, user, sessions, tokens, throttle, used, replayed, lockEnd>>
    BY DEF Wipe, At
  <1>2. Moved(p, "idle", Idle) /\ Idle.op = "none"
    BY <1>1, Ends, Facts, IdleFacts
  <1>3. /\ CodesInv' /\ used' \cup raced' \subseteq Code
        /\ totp' \in [secret : Nat, on : BOOLEAN, last : 0..MaxTime + 1, codes : SUBSET Recovery]
    BY <1>1, <1>2, WipedCodes
  <1>4. IssuedInv'
    BY <1>1, <1>2, IssuedStays DEF Credible, Issuing, Revoking
  <1>5. RowsInv'
    BY <1>1, <1>3 DEF IInv, RowsInv
  <1>6. QED
    BY <1>1, <1>2, <1>3, <1>4, <1>5, LockStays DEF IInv, Moved

LEMMA CreateTokenStep ==
  ASSUME IInv, NEW p \in Procs, CreateToken(p)
  PROVE  IInv'
  <1> DEFINE t == [user |-> [job[p].user EXCEPT !.pw = 0], late |-> job[p].late]
  <1>1. /\ pc[p] = "token" /\ End(p) /\ tokens' = tokens \cup {t}
        /\ UNCHANGED <<now, begun, made, user, totp, sessions, throttle, used, raced, replayed, lockEnd>>
    BY DEF CreateToken, At, history
  <1>2. Fits("token", job[p]) /\ Credible("token", job[p]) /\ job[p].user \in User /\ job[p].late \in BOOLEAN
    BY <1>1, Facts, JobFacts
  <1>3. t \in Issued /\ t.user = [job[p].user EXCEPT !.pw = 0] /\ t.user.gen = job[p].user.gen /\ t.late = job[p].late
    BY <1>2 DEF Issued, User
  <1> HIDE DEF t
  <1>4. t.user.gen # 0 /\ (t.late \/ t.user = [user EXCEPT !.pw = 0]) /\ job[p].op # "none"
    BY <1>2, <1>3 DEF Credible, Issuing, Fits
  <1>5. Moved(p, "idle", Idle) /\ Idle.op = "none" /\ Tried(Idle)
    BY <1>1, Ends, Facts, TriedIdle, IdleFacts
  <1>6. IssuedInv'
    BY <1>1, <1>3, <1>4, <1>5, IssuedStays DEF Credible, Issuing, Revoking
  <1>7. CodesInv'
    BY <1>1, <1>5, CodesMoved DEF Exists
  <1>8. QED
    BY <1>1, <1>3, <1>5, <1>6, <1>7, LockStays DEF IInv, RowsInv, Moved

(* The second factor is set up, its codes are made, and it is switched on: what the row has *)
(* is of what is made now or was there.                                                     *)
LEMMA SecondFactorStep ==
  ASSUME IInv, NEW p \in Procs, SetSecret(p) \/ SetCodes(p) \/ SwitchOn(p)
  PROVE  IInv'
  <1>1. /\ pc[p] \in {"secret", "codes", "switch"}
        /\ UNCHANGED <<now, begun, user, sessions, tokens, throttle, used, raced, replayed, lockEnd>>
    BY DEF SetSecret, SetCodes, SwitchOn, At, history
  <1>2. /\ Fits(pc[p], job[p]) /\ Tried(job[p]) /\ RequestsInv /\ RowsInv /\ CodesInv
        /\ made \in Nat \ {0} /\ totp.codes \subseteq Recovery
        /\ totp \in [secret : Nat, on : BOOLEAN, last : 0..MaxTime + 1, codes : SUBSET Recovery]
    BY Facts DEF RowsInv
  <1>3. /\ made' \in Nat \ {0} /\ made' >= made
        /\ totp' \in [secret : Nat, on : BOOLEAN, last : 0..MaxTime + 1, codes : SUBSET Recovery]
        /\ totp'.last = totp.last
        /\ totp'.secret = totp.secret \/ (totp'.secret = made' /\ made' > made)
        /\ \A c \in totp'.codes : c \in totp.codes \/ (c.of = made' /\ made' > made)
    <2>1. CASE SetSecret(p)
      <3>1. (made' = made /\ totp' = totp) \/ (made' = made + 1 /\ totp' = [totp EXCEPT !.secret = made'])
        BY <2>1 DEF SetSecret, Make
      <3>2. QED
        BY <1>2, <3>1
    <2>2. CASE SetCodes(p)
      <3> DEFINE new == [kind : {"recovery"}, of : {made'}, n : Codes]
      <3>1. (made' = made /\ totp' = totp) \/ (made' = made + 1 /\ totp' = [totp EXCEPT !.codes = new])
        BY <2>2 DEF SetCodes, Make
      <3>2. made' \in Nat /\ (\A c \in new : c.of = made') /\ new \subseteq Recovery
        BY <1>2, <3>1 DEF Recovery
      <3> HIDE DEF new
      <3>3. QED
        BY <1>2, <3>1, <3>2
    <2>3. CASE SwitchOn(p)
      <3>1. made' = made /\ (totp' = totp \/ totp' = [totp EXCEPT !.on = TRUE])
        BY <2>3 DEF SwitchOn
      <3>2. CASE totp' = totp
        BY <1>2, <3>1, <3>2
      <3>3. CASE totp' = [totp EXCEPT !.on = TRUE]
        <4>1. /\ totp' \in [secret : Nat, on : BOOLEAN, last : 0..MaxTime + 1, codes : SUBSET Recovery]
              /\ totp'.secret = totp.secret /\ totp'.last = totp.last /\ totp'.codes = totp.codes
          BY <1>2, <3>3
        <4>2. QED
          BY <1>2, <3>1, <4>1
      <3>4. QED
        BY <3>1, <3>2, <3>3
    <2>4. QED
      BY <2>1, <2>2, <2>3
  <1>4. PICK l, j : /\ Moved(p, l, j) /\ l \notin Issuing \cup {"revokeTokens", "drop"} /\ Tried(j)
                    /\ j.op = "none" \/ j = job[p]
    <2>1. CASE End(p)
      BY <1>2, <2>1, Ends, TriedIdle, IdleFacts DEF Issuing
    <2>2. CASE SetCodes(p) /\ Goto(p, "switch") /\ UNCHANGED job
      <3>1. "switch" \in Labels /\ Fits("switch", job[p])
        BY <1>2, <2>2 DEF SetCodes, At, Fits, Labels, Logging, Revoking
      <3>2. QED
        BY <1>2, <2>2, <3>1, Goes DEF Issuing
    <2>3. QED
      BY <2>1, <2>2 DEF SetSecret, SetCodes, SwitchOn
  <1>5. IssuedInv'
    BY <1>1, <1>4, IssuedStays DEF Credible, Revoking
  <1>6. CodesInv'
    <2>1. RequestsInv' /\ totp'.codes \subseteq Recovery /\ (Exists => Exists')
      BY <1>1, <1>3, <1>4 DEF Moved, Exists
    <2>2. \A q \in Procs : \/ pc'[q] = pc[q] /\ Aged(job[q], job'[q])
                           \/ pc'[q] \notin {"consume", "burn"} /\ Tried(job'[q])
      BY <1>4 DEF Moved, Issuing
    <2>3. QED
      BY <1>1, <1>3, <2>1, <2>2, CodesStay
  <1>7. QED
    BY <1>1, <1>3, <1>4, <1>5, <1>6, LockStays DEF IInv, RowsInv, Moved

LEMMA RowStepInv ==
  ASSUME IInv, NEW p \in Procs, RowStep(p)
  PROVE  IInv'
  BY SetStep, RevokeStep, DropUserStep, CreateTokenStep, SecondFactorStep, WipeStep DEF RowStep

---------------------------------------------------------------------------------
(* Steps of no request. *)

LEMMA StillStep ==
  ASSUME IInv, Logout \/ RevokeToken \/ GcByOther \/ UNCHANGED vars
  PROVE  IInv'
  <1>1. /\ UNCHANGED <<now, begun, made, user, totp, pc, job, used, raced, replayed, lockEnd>>
        /\ sessions' \subseteq sessions /\ tokens' \subseteq tokens
        /\ throttle' = throttle \/ throttle' = Gc(throttle)
    BY DEF Logout, RevokeToken, GcByOther, vars, row, history
  <1>2. RequestsInv' /\ RowsInv'
    BY <1>1 DEF IInv, RequestsInv, RowsInv
  <1>3. LockInv'
    <2>1. now \in Nat /\ lockEnd \in Nat
      BY ThrottleAssumption, BoundsAssumption DEF IInv, RowsInv, LockInv, Start
    <2>2. CASE throttle' = throttle
      BY <1>1, <2>2, LockStays DEF IInv
    <2>3. CASE throttle' = None /\ throttle # None /\ now > throttle.until
      BY <1>1, <2>1, <2>3 DEF IInv, LockInv
    <2>4. QED
      BY <1>1, <2>2, <2>3 DEF Gc
  <1>4. IssuedInv'
    BY <1>1, IssuedShrinks
  <1>5. CodesInv'
    BY <1>1 DEF IInv, CodesInv, Known, Tried, Spent, Gone, Burns, Exists
  <1>6. QED
    BY <1>2, <1>3, <1>4, <1>5 DEF IInv

LEMMA CreateUserStep ==
  ASSUME IInv, CreateUser
  PROVE  IInv'
  <1>1. /\ ~Exists /\ made' = made + 1 /\ user' = [gen |-> made', pw |-> 0, key |-> made']
        /\ UNCHANGED <<now, begun, totp, sessions, tokens, throttle, pc, job, used, raced, replayed, lockEnd>>
    BY DEF CreateUser, Make, history
  <1>2. /\ RequestsInv /\ RowsInv /\ IssuedInv /\ CodesInv /\ made \in Nat \ {0} /\ user = Nobody /\ user.gen = 0
        /\ totp.codes \subseteq Recovery
    BY <1>1, UserFacts DEF IInv, RowsInv, Exists
  <1>3. made' \in Nat \ {0} /\ made' >= made /\ user' \in User /\ user'.gen # 0
    BY <1>1, <1>2 DEF User
  <1>4. RequestsInv' /\ RowsInv'
    BY <1>1, <1>2, <1>3 DEF RequestsInv, RowsInv
  <1>5. IssuedInv'
    <2>1. ASSUME NEW q \in Procs
          PROVE  Credible(pc[q], job[q])' /\ DeleteInv(q)'
      BY <1>1, <1>2 DEF IssuedInv, Credible, DeleteInv
    <2>2. ASSUME NEW s \in sessions'
          PROVE  SessionInv(s)'
      BY <1>1, <1>2 DEF IssuedInv, SessionInv
    <2>3. ASSUME NEW t \in tokens'
          PROVE  TokenInv(t)'
      <3>1. [user EXCEPT !.pw = 0].gen = 0
        BY <1>2 DEF Nobody
      <3>2. QED
        BY <1>1, <1>2, <3>1 DEF IssuedInv, TokenInv
    <2>4. QED
      BY <1>3, <2>1, <2>2, <2>3 DEF IssuedInv
  <1>6. CodesInv'
    <2>1. \A q \in Procs : pc'[q] = pc[q] /\ Aged(job[q], job'[q])
      BY <1>1 DEF Aged
    <2>2. QED
      BY <1>1, <1>2, <1>3, <1>4, <2>1, CodesStay
  <1>7. QED
    BY <1>1, <1>4, <1>5, <1>6, LockStays DEF IInv

LEMMA TickStep ==
  ASSUME IInv, Tick
  PROVE  IInv'
  <1>1. /\ now < MaxTime /\ now' = now + 1
        /\ UNCHANGED <<begun, made, user, totp, sessions, tokens, throttle, pc, job, used, raced, replayed, lockEnd>>
    BY DEF Tick, row, history
  <1>2. now \in 2..MaxTime /\ MaxTime \in Nat /\ lockEnd \in Nat
    BY ThrottleAssumption, BoundsAssumption DEF IInv, RowsInv, LockInv, Start
  <1>3. RequestsInv'
    BY <1>1 DEF IInv, RequestsInv
  <1>4. RowsInv'
    BY <1>1, <1>2 DEF IInv, RowsInv, Start
  <1>5. LockInv'
    BY <1>1, <1>2 DEF IInv, LockInv
  <1>6. IssuedInv'
    BY <1>1, IssuedShrinks
  <1>7. CodesInv'
    BY <1>1 DEF IInv, CodesInv, Known, Tried, Spent, Gone, Burns, Exists
  <1>8. QED
    BY <1>3, <1>4, <1>5, <1>6, <1>7 DEF IInv

(* The requests are gone, and what a revocation did not come to is late. *)
LEMMA RestartStep ==
  ASSUME IInv, Restart
  PROVE  IInv'
  <1>1. /\ throttle' = None /\ lockEnd' = 0 /\ UNCHANGED <<now, begun, made, user, totp, used, raced, replayed>>
        /\ pc' = [p \in Procs |-> "idle"] /\ job' = [p \in Procs |-> Idle]
    BY DEF Restart
  <1>2. RequestsInv /\ RowsInv /\ IssuedInv /\ CodesInv
    BY DEF IInv
  <1>3. RequestsInv'
    <2>1. "idle" \in Labels
      BY DEF Labels
    <2>2. QED
      BY <1>1, <2>1, FitsIdle, IdleFacts DEF RequestsInv
  <1>4. LockInv'
    <2>1. now' \in Nat /\ 0 \in 0..MaxTime + Lockout
      BY <1>1, <1>2, BoundsAssumption, ThrottleAssumption DEF RowsInv, Start
    <2>2. QED
      BY <1>1, <2>1 DEF LockInv
  <1>5. /\ \A s \in sessions' : s \in Issued /\ s.user.gen # 0 /\ (s.late \/ s.user = user)
        /\ \A t \in tokens' : t \in Issued /\ t.user.gen # 0 /\ (t.late \/ t.user = [user EXCEPT !.pw = 0])
    <2>1. /\ sessions \subseteq Issued /\ tokens \subseteq Issued
          /\ (\A s \in sessions : SessionInv(s)) /\ \A t \in tokens : TokenInv(t)
      BY <1>2 DEF RowsInv, IssuedInv
    <2>2. CASE Reached(Revoking)
      <3>1. /\ sessions' = {[s EXCEPT !.late = TRUE] : s \in sessions}
            /\ tokens' = {[t EXCEPT !.late = TRUE] : t \in tokens}
        BY <2>2 DEF Restart
      <3>2. \A s \in Issued : LET k == [s EXCEPT !.late = TRUE] IN k \in Issued /\ k.user = s.user /\ k.late = TRUE
        BY DEF Issued
      <3>3. ASSUME NEW s \in sessions'
            PROVE  s \in Issued /\ s.user.gen # 0 /\ s.late
        <4>1. PICK k \in sessions : s = [k EXCEPT !.late = TRUE]
          BY <3>1
        <4>2. k \in Issued /\ k.user.gen # 0
          BY <2>1 DEF SessionInv
        <4>3. s \in Issued /\ s.user = k.user /\ s.late = TRUE
          BY <3>2, <4>1, <4>2
        <4>4. QED
          BY <4>2, <4>3
      <3>4. ASSUME NEW t \in tokens'
            PROVE  t \in Issued /\ t.user.gen # 0 /\ t.late
        <4>1. PICK k \in tokens : t = [k EXCEPT !.late = TRUE]
          BY <3>1
        <4>2. k \in Issued /\ k.user.gen # 0
          BY <2>1 DEF TokenInv
        <4>3. t \in Issued /\ t.user = k.user /\ t.late = TRUE
          BY <3>2, <4>1, <4>2
        <4>4. QED
          BY <4>2, <4>3
      <3>5. QED
        BY <3>3, <3>4
    <2>3. CASE ~Reached(Revoking)
      <3>1. sessions' = sessions /\ tokens' = tokens
        BY <2>3 DEF Restart
      <3>2. \A p \in Procs : pc[p] \notin {"revoke", "revokeTokens"}
        BY <2>3 DEF Reached, Revoking
      <3>3. ASSUME NEW s \in sessions'
            PROVE  s \in Issued /\ s.user.gen # 0 /\ (s.late \/ s.user = user)
        BY <2>1, <3>1, <3>2 DEF SessionInv
      <3>4. ASSUME NEW t \in tokens'
            PROVE  t \in Issued /\ t.user.gen # 0 /\ (t.late \/ t.user = [user EXCEPT !.pw = 0])
        BY <2>1, <3>1, <3>2 DEF TokenInv
      <3>5. QED
        BY <3>3, <3>4
    <2>4. QED
      BY <2>2, <2>3
  <1>6. RowsInv'
    BY <1>1, <1>2, <1>5 DEF RowsInv
  <1>7. IssuedInv'
    <2>1. \A p \in Procs : Credible(pc[p], job[p])' /\ DeleteInv(p)'
      BY <1>1, IdleFacts DEF Credible, Issuing, DeleteInv
    <2>2. (\A s \in sessions' : SessionInv(s)') /\ \A t \in tokens' : TokenInv(t)'
      BY <1>1, <1>5 DEF SessionInv, TokenInv
    <2>3. QED
      BY <1>1, <1>2, <2>1, <2>2 DEF IssuedInv
  <1>8. CodesInv'
    <2>1. made' \in Nat /\ made' >= made /\ totp.codes \subseteq Recovery
      BY <1>1, <1>2 DEF RowsInv
    <2>2. \A q \in Procs : pc'[q] \notin {"consume", "burn"} /\ Tried(job'[q])
      BY <1>1, TriedIdle
    <2>3. QED
      BY <1>1, <1>3, <2>1, <2>2, CodesStay DEF Exists
  <1>9. QED
    BY <1>3, <1>4, <1>6, <1>7, <1>8 DEF IInv
---------------------------------------------------------------------------------
(* Theorems. *)

LEMMA InitInv == Init => IInv
  <1> SUFFICES ASSUME Init
               PROVE  IInv
    OBVIOUS
  <1> DEFINE new == [kind : {"recovery"}, of : {3}, n : Codes]
  <1>1. /\ now = 2 /\ begun = 0 /\ made = 3 /\ user = [gen |-> 1, pw |-> 1, key |-> 1] /\ throttle = None
        /\ totp = [secret |-> 2, on |-> TRUE, last |-> 0, codes |-> new]
        /\ sessions = {} /\ tokens = {} /\ used = {} /\ raced = {} /\ replayed = {} /\ lockEnd = 0
        /\ pc = [p \in Procs |-> "idle"] /\ job = [p \in Procs |-> Idle]
    BY DEF Init, Start
  <1>2. MaxTime \in Nat /\ 2 \in 2..MaxTime /\ MaxRequests \in Nat /\ Lockout \in Nat
    BY BoundsAssumption, ThrottleAssumption
  <1>3. new \subseteq Recovery /\ \A c \in new : c.of = 3 /\ c \in Code
    BY DEF Recovery, Code
  <1> HIDE DEF new
  <1>4. RequestsInv
    <2>1. "idle" \in Labels
      BY DEF Labels
    <2>2. QED
      BY <1>1, <2>1, FitsIdle, IdleFacts DEF RequestsInv
  <1>5. RowsInv
    <2>1. totp \in [secret : Nat, on : BOOLEAN, last : 0..MaxTime + 1, codes : SUBSET Recovery]
      BY <1>1, <1>2, <1>3
    <2>2. QED
      BY <1>1, <1>2, <2>1 DEF RowsInv, User, Start
  <1>6. LockInv
    BY <1>1, <1>2 DEF LockInv
  <1>7. IssuedInv
    BY <1>1, IdleFacts DEF IssuedInv, Credible, Issuing, DeleteInv
  <1>8. CodesInv
    <2>1. totp.secret <= made /\ totp.codes = new
      BY <1>1
    <2>2. \A c \in totp.codes \cup used : Known(c)
      BY <1>1, <1>3, <2>1 DEF Known
    <2>3. \A p \in Procs : Tried(job[p]) /\ Burns(p) /\ pc[p] \notin {"consume", "burn"}
      BY <1>1, IdleFacts DEF Tried, Burns
    <2>4. QED
      BY <1>1, <2>1, <2>2, <2>3 DEF CodesInv
  <1>9. QED
    BY <1>4, <1>5, <1>6, <1>7, <1>8 DEF IInv

LEMMA NextInv == IInv /\ [Next]_vars => IInv'
  BY StartsStep, LoginStepInv, RowStepInv, StillStep, CreateUserStep, TickStep, RestartStep DEF Next

(* The invariant holds whatever the requests, the limits, the clock and the codes. *)
THEOREM Invariant == Spec => []IInv
  BY InitInv, NextInv, PTL DEF Spec

(* The type invariant. *)
THEOREM TypeCorrect == Spec => []TypeOK
  <1>1. IInv => TypeOK
    <2> SUFFICES ASSUME IInv
                 PROVE  TypeOK
      OBVIOUS
    <2>1. RowsInv /\ LockInv
      BY DEF IInv
    <2>2. ASSUME NEW p \in Procs
          PROVE  /\ pc[p] \in Labels /\ (pc[p] = "idle" <=> job[p] = Idle)
                 /\ (pc[p] = "burn" => job[p].code \in Code)
      <3>1. pc[p] \in Labels /\ Fits(pc[p], job[p])
        BY Facts
      <3>2. QED
        BY <3>1, IdleFacts DEF Fits
    <2>3. \A p \in Procs : pc[p] \in {"idle", "compare", "factor", "consume", "burn", "fail", "clear", "insert",
                     "write", "rekey", "token", "secret", "codes", "switch", "wipe"} \cup Revoking
      BY <2>2 DEF Labels
    <2>4. QED
      BY <2>1, <2>2, <2>3 DEF TypeOK, RowsInv, LockInv
  <1>2. QED
    BY <1>1, Invariant, PTL

(* A lock stays to its end, but for logins that began before it. *)
THEOREM LockHolds == Spec => []LockoutHolds
  <1>1. IInv => LockoutHolds
    BY DEF IInv, LockInv, LockoutHolds, Locked
  <1>2. QED
    BY <1>1, Invariant, PTL

(* Outside a revocation, what lets someone in is of the user, password and key there are, *)
(* but for what a request under way issued when they changed.                             *)
THEOREM NoneStale == Spec => []NoStaleCredentials
  <1>1. ASSUME IInv
        PROVE  NoStaleCredentials
    <2> SUFFICES ASSUME ~Reached(Revoking), NEW c \in LetIn
                 PROVE  c.late \/ (IF c \in sessions THEN c.user = user ELSE c.user = [user EXCEPT !.pw = 0])
      BY DEF NoStaleCredentials
    <2>1. \A p \in Procs : pc[p] \notin {"revoke", "revokeTokens"}
      BY DEF Reached, Revoking
    <2>2. CASE c \in sessions
      <3>1. SessionInv(c)
        BY <1>1, <2>2 DEF IInv, IssuedInv
      <3>2. QED
        BY <2>1, <2>2, <3>1 DEF SessionInv
    <2>3. CASE c \notin sessions
      <3>1. TokenInv(c)
        BY <1>1, <2>3 DEF IInv, IssuedInv, LetIn, ValidSessions, ValidTokens
      <3>2. QED
        BY <2>1, <2>3, <3>1 DEF TokenInv
    <2>4. QED
      BY <2>2, <2>3
  <1>2. QED
    BY <1>1, Invariant, PTL

(* A code that was accepted is not accepted from a login that begins later, but where two *)
(* logins were between their read and their write.                                        *)
THEOREM CodesOnce == Spec => []CodesUsedOnce
  <1>1. IInv => CodesUsedOnce
    BY DEF IInv, CodesInv, CodesUsedOnce
  <1>2. QED
    BY <1>1, Invariant, PTL

=================================================================================

-------------------------------- MODULE Accounts ---------------------------------
(***************************************************************************)
(* One account: its user row with password, API key and second factor, the *)
(* sessions and tokens issued on it, and the throttle in memory that locks *)
(* it. Rows and throttle entries of different names never meet, but that a *)
(* failed login on any name drops stale throttle entries of all (GcByOther).*)
(* No request holds a lock over more than one statement or throttle call,  *)
(* and comparing a password takes a while. Passwords, keys, secrets and    *)
(* sets of recovery codes are numbered in the order they are made.         *)
(***************************************************************************)
EXTENDS Naturals, FiniteSets

CONSTANTS Procs,
          MaxFailures, Window, Lockout, \* maxLoginFailures, failureWindow, lockoutDuration
          Codes,    \* the recovery codes of one enrolment
          MaxTime,  \* bound on the clock, in steps of one-time codes
          MaxRequests, \* bound on the requests of several steps
          None

ASSUME ThrottleAssumption == MaxFailures \in Nat \ {0} /\ Window \in Nat /\ Lockout \in Nat
ASSUME BoundsAssumption   == MaxTime \in Nat \ {0, 1} /\ MaxRequests \in Nat
ASSUME NoneAssumption     == None \notin [fails : Nat, first : Nat, until : Nat]

VARIABLES
  now,
  begun,     \* requests begun (bounds the runs)
  made,      \* the number made last
  user,      \* the row: when it, its password and its key were made; Nobody if there is none
  totp,      \* secret (0: none), enabled, last accepted step, recovery codes left
  throttle,  \* None, or the failures counted, when the first was, the end of the lock
  sessions, tokens,
  pc, job,
  used, raced,  \* codes logins have accepted, and of them those accepted with an overlap (history)
  replayed,     \* codes accepted from a login that began after they had been used (history)
  lockEnd       \* end of the lock the last failure set; 0 once an overlapping login ended it (history)

row     == <<user, totp, sessions, tokens>>
history == <<used, raced, replayed, lockEnd>>
vars    == <<now, begun, made, row, throttle, pc, job, history>>

Start     == 2 \* long after step 0
Nobody    == [gen |-> 0, pw |-> 0, key |-> 0]
User      == [gen : Nat, pw : Nat, key : Nat]
Off       == [secret |-> 0, on |-> FALSE, last |-> 0, codes |-> {}]
StepCode  == [kind : {"totp"}, of : Nat, n : 0..MaxTime + 1]
Recovery  == [kind : {"recovery"}, of : Nat, n : Codes]
Code      == StepCode \cup Recovery
Entry     == [fails : Nat, first : 0..MaxTime, until : 0..MaxTime + Lockout]
Issued    == [user : User, late : BOOLEAN]
Revoking  == {"revoke", "revokeTokens", "drop"}
Idle == [op |-> "none", pw |-> 0, code |-> None, user |-> Nobody, secret |-> 0, last |-> 0,
         codes |-> {}, late |-> FALSE, barred |-> FALSE, again |-> FALSE]

TypeOK ==
  /\ now \in Start..MaxTime /\ begun \in 0..MaxRequests /\ made \in Nat /\ user \in User
  /\ totp \in [secret : Nat, on : BOOLEAN, last : 0..MaxTime + 1, codes : SUBSET Recovery]
  /\ throttle \in {None} \cup Entry
  /\ throttle # None => throttle.fails > 0 /\ (throttle.until > 0 <=> throttle.fails >= MaxFailures)
  /\ sessions \subseteq Issued /\ tokens \subseteq Issued
  /\ \A p \in Procs :
       /\ pc[p] \in {"idle", "compare", "factor", "consume", "burn", "fail", "clear", "insert",
                     "write", "rekey", "token", "secret", "codes", "switch", "wipe"} \cup Revoking
       /\ pc[p] = "idle" <=> job[p] = Idle
       /\ pc[p] = "burn" => job[p].code \in Code
  /\ used \cup raced \subseteq Code
  /\ lockEnd \in 0..MaxTime + Lockout

Init ==
  /\ now = Start /\ begun = 0 /\ made = 3
  /\ user = [gen |-> 1, pw |-> 1, key |-> 1] \* SetUpFirstAdmin, and then Setup2FA and Enable2FA
  /\ totp = [secret |-> 2, on |-> TRUE, last |-> 0, codes |-> [kind : {"recovery"}, of : {3}, n : Codes]]
  /\ throttle = None /\ sessions = {} /\ tokens = {}
  /\ pc = [p \in Procs |-> "idle"] /\ job = [p \in Procs |-> Idle]
  /\ used = {} /\ raced = {} /\ replayed = {} /\ lockEnd = 0

---------------------------------------------------------------------------------
(* Helpers. *)

At(p, l)   == pc[p] = l
Goto(p, l) == pc' = [pc EXCEPT ![p] = l]
End(p)     == Goto(p, "idle") /\ job' = [job EXCEPT ![p] = Idle]
Larger(a, b) == IF a > b THEN a ELSE b
Under(ops) == \E p \in Procs : job[p].op \in ops
Reached(ls) == \E p \in Procs : pc[p] \in ls
Locked     == throttle # None /\ now < throttle.until
Make       == made' = made + 1
Exists     == user # Nobody

(* What a login or a token request goes by may be gone when it ends.                       *)
Late(js)  == [p \in Procs |-> [js[p] EXCEPT !.late = js[p].op # "none"]]
Begin(p, j, l) ==
  /\ At(p, "idle") /\ Goto(p, l)
  /\ job' = [IF j.op = "delete" THEN Late(job) ELSE job EXCEPT
               ![p] = [j EXCEPT !.late = Under({"delete"}), !.barred = now < lockEnd]]
  /\ begun < MaxRequests /\ begun' = begun + 1
  /\ UNCHANGED <<now, made, row, throttle, used, raced, replayed, lockEnd>>
Op(name) == [Idle EXCEPT !.op = name]

(* Second factors are taken away from logins that are about to accept a code. *)
Wiped == raced' = raced \cup {job[q].code : q \in {q \in Procs : pc[q] \in {"consume", "burn"}}}

(* The code is that of the current step, of the one before, or of the one after. *)
StepCodes(secret) == IF secret = 0 THEN {} ELSE [kind : {"totp"}, of : {secret}, n : now - 1..now + 1]

---------------------------------------------------------------------------------
(* The throttle: each call is one step under its mutex. *)

GcWindowOnly(t) == IF t # None /\ now - t.first > Window THEN None ELSE t
Gc(t) == IF t # None /\ now > t.until /\ now - t.first > Window THEN None ELSE t

FailedOneMore(t) ==
  LET a == IF t = None \/ now - t.first > Window THEN [fails |-> 0, first |-> now, until |-> 0] ELSE t
  IN  [a EXCEPT !.fails = IF @ > MaxFailures THEN @ ELSE @ + 1,
                !.until = IF a.fails >= MaxFailures THEN now + Lockout ELSE @]
Failed(t) ==
  LET a == IF t = None \/ now - t.first > Window THEN [fails |-> 0, first |-> now, until |-> 0] ELSE t
  IN  [a EXCEPT !.fails = IF @ > MaxFailures THEN @ ELSE @ + 1, \* no use in counting on
                !.until = IF a.fails + 1 >= MaxFailures THEN now + Lockout ELSE @]

(* A failure of a login that passed before the lock may start a new count, without a lock. *)
RecordFailure(p) ==
  /\ At(p, "fail") /\ End(p)
  /\ throttle' = Gc(Failed(throttle))
  /\ lockEnd' = IF throttle' # None /\ throttle'.until > 0 THEN throttle'.until
                ELSE IF job[p].barred THEN lockEnd ELSE 0
  /\ UNCHANGED <<now, begun, made, row, used, raced, replayed>>

GcByOther ==
  /\ throttle' = Gc(throttle) /\ throttle' # throttle
  /\ UNCHANGED <<now, begun, made, row, pc, job, history>>

---------------------------------------------------------------------------------
(* LoginWithPassword and ChangeOwnPassword. *)

(* The password is right or wrong as of now. The code is one in time, one for recovery, or *)
(* a used one; none is ever looked at with a wrong password.                               *)
Attempt(p, op) ==
  \/ Begin(p, Op(op), "compare")
  \/ \E code \in {None} \cup StepCodes(totp.secret) \cup totp.codes \cup used :
       Begin(p, [Op(op) EXCEPT !.pw = user.pw, !.code = code, !.again = code \in used], "compare")
BeginLogin(p, op) == ~Locked /\ Attempt(p, op)

(* The first password of an account takes none to set. *)
Right(p) == IF user.pw = 0 THEN job[p].op = "change" ELSE job[p].pw = user.pw

Compare(p) ==
  /\ At(p, "compare") /\ (Exists \/ job[p].op = "login")
  /\ Goto(p, IF Right(p) THEN "factor" ELSE "fail")
  /\ job' = [job EXCEPT ![p].user = user, ![p].pw = 0]
  /\ UNCHANGED <<now, begun, made, row, throttle, history>>

(* GetUserByName and getUserTOTP. *)
Factor(p) ==
  /\ At(p, "factor") /\ (Exists \/ job[p].op = "login")
  /\ \/ ~Exists /\ Goto(p, "fail") /\ UNCHANGED job
     \/ Exists /\ ~totp.on /\ Goto(p, "clear") /\ UNCHANGED job
     \/ Exists /\ totp.on /\ job[p].code = None /\ End(p) \* ErrTwoFactorRequired
     \/ /\ Exists /\ totp.on /\ job[p].code # None /\ Goto(p, "consume")
        /\ job' = [job EXCEPT ![p].secret = totp.secret]
  /\ UNCHANGED <<now, begun, made, row, throttle, history>>

(* The row is gone: the change of a password gives up. *)
GiveUp(p) ==
  /\ pc[p] \in {"compare", "factor"} /\ ~Exists /\ job[p].op = "change" /\ End(p)
  /\ UNCHANGED <<now, begun, made, row, throttle, history>>

(* consumeSecondFactor: what is written later follows from what is read here. *)
ConsumeFrom(p, floor) == LET code == job[p].code  timely == code \in StepCodes(job[p].secret) IN
  /\ At(p, "consume") /\ UNCHANGED <<now, begun, made, row, throttle, history>>
  /\ \/ timely /\ code.n >= floor /\ Goto(p, "burn")
        /\ job' = [job EXCEPT ![p].last = Larger(now + 1, code.n)]
     \/ ~timely /\ code \in totp.codes /\ Goto(p, "burn")
        /\ job' = [job EXCEPT ![p].codes = totp.codes \ {code}]
     \/ (IF timely THEN code.n < floor ELSE code \notin totp.codes) /\ Goto(p, "fail") /\ UNCHANGED job
ConsumeLastAgain(p) == ConsumeFrom(p, totp.last)
Consume(p) == ConsumeFrom(p, totp.last + 1)

Burnt(j) == IF j.last # 0 THEN [totp EXCEPT !.last = j.last] ELSE [totp EXCEPT !.codes = j.codes]
Burn(p) == LET j == job[p]  Burning == {q \in Procs : pc[q] = "burn"} IN
  /\ At(p, "burn") /\ Goto(p, "clear")
  /\ totp' = IF Exists THEN Burnt(j) ELSE totp
  /\ used' = used \cup {j.code} /\ replayed' = replayed \cup (IF j.again THEN {j.code} ELSE {})
  /\ raced' = IF Burning = {p} THEN raced ELSE raced \cup {job[q].code : q \in Burning}
  /\ job' = [job EXCEPT ![p].last = 0, ![p].codes = {}, ![p].code = None, ![p].again = FALSE]
  /\ UNCHANGED <<now, begun, made, user, sessions, tokens, throttle, lockEnd>>

ResetThrottle(p) ==
  /\ At(p, "clear") /\ Goto(p, IF job[p].op = "login" THEN "insert" ELSE "write")
  /\ throttle' = None /\ lockEnd' = IF job[p].barred THEN lockEnd ELSE 0
  /\ UNCHANGED <<now, begun, made, row, job, used, raced, replayed>>

(* CreateSession; a session that expires ends as by Logout. *)
CreateSession(p) ==
  /\ At(p, "insert") /\ End(p)
  /\ sessions' = sessions \cup {[user |-> job[p].user, late |-> job[p].late]}
  /\ UNCHANGED <<now, begun, made, user, totp, tokens, throttle, history>>

Logout ==
  /\ \E s \in sessions : sessions' = sessions \ {s}
  /\ UNCHANGED <<now, begun, made, user, totp, tokens, throttle, pc, job, history>>

---------------------------------------------------------------------------------
(* SetUserPassword, by an administrator or at the end of a change; ResetAPIKey; DeleteUser, *)
(* whose sites are gone; CreateUser.                                                       *)

BeginSet(p)   == Begin(p, Op("set"), "write")
BeginReset(p) == Begin(p, Op("reset"), "rekey")

Changed(p, new) ==
  /\ IF Exists THEN Make /\ Goto(p, "revoke") /\ job' = Late(job) /\ user' = new
               ELSE End(p) /\ UNCHANGED <<made, user>>
  /\ UNCHANGED <<now, begun, totp, sessions, tokens, throttle, history>>

SetPassword(p) == At(p, "write") /\ Changed(p, [user EXCEPT !.pw = made + 1])
ResetAPIKey(p) == At(p, "rekey") /\ Changed(p, [user EXCEPT !.key = made + 1])

BeginDelete(p) == Exists /\ Begin(p, Op("delete"), "revoke")

RevokeNothing(p) ==
  /\ At(p, "revoke")
  /\ IF job[p].op \in {"reset", "delete"} THEN Goto(p, "revokeTokens") /\ UNCHANGED job ELSE End(p)
  /\ UNCHANGED <<now, begun, made, user, totp, sessions, tokens, throttle, history>>
Revoke(p) ==
  /\ At(p, "revoke") /\ sessions' = {}
  /\ IF job[p].op \in {"reset", "delete"} THEN Goto(p, "revokeTokens") /\ UNCHANGED job ELSE End(p)
  /\ UNCHANGED <<now, begun, made, user, totp, tokens, throttle, history>>

RevokeTokens(p) ==
  /\ At(p, "revokeTokens") /\ tokens' = {}
  /\ IF job[p].op = "delete" THEN Goto(p, "drop") /\ UNCHANGED job ELSE End(p)
  /\ UNCHANGED <<now, begun, made, user, totp, sessions, throttle, history>>

DropUser(p) ==
  /\ At(p, "drop") /\ Goto(p, "idle") /\ job' = [Late(job) EXCEPT ![p] = Idle]
  /\ user' = Nobody /\ totp' = Off /\ Wiped
  /\ UNCHANGED <<now, begun, made, sessions, tokens, throttle, used, replayed, lockEnd>>

CreateUser ==
  /\ ~Exists /\ Make /\ user' = [gen |-> made', pw |-> 0, key |-> made']
  /\ UNCHANGED <<now, begun, totp, sessions, tokens, throttle, pc, job, history>>

---------------------------------------------------------------------------------
(* CreateAPIToken and RevokeAPIToken. *)

BeginToken(p) == Exists /\ Begin(p, [Op("token") EXCEPT !.user = user], "token")

CreateToken(p) ==
  /\ At(p, "token") /\ End(p)
  /\ tokens' = tokens \cup {[user |-> [job[p].user EXCEPT !.pw = 0], late |-> job[p].late]}
  /\ UNCHANGED <<now, begun, made, user, totp, sessions, throttle, history>>

RevokeToken ==
  /\ \E t \in tokens : tokens' = tokens \ {t}
  /\ UNCHANGED <<now, begun, made, user, totp, sessions, throttle, pc, job, history>>

---------------------------------------------------------------------------------
(* AuthMiddleware: a session or token on record lets in the user who has its name now.     *)

ValidSessions == IF Exists THEN sessions ELSE {}
ValidTokens   == IF Exists THEN tokens ELSE {}
LetIn         == ValidSessions \cup ValidTokens

---------------------------------------------------------------------------------
(* Setup2FA; Enable2FA and Disable2FA, shown a code in time (with another they do nothing). *)

BeginSetup(p) == Exists /\ ~totp.on /\ Begin(p, Op("setup"), "secret")

SetSecret(p) ==
  /\ At(p, "secret") /\ End(p)
  /\ IF Exists THEN Make /\ totp' = [totp EXCEPT !.secret = made'] ELSE UNCHANGED <<made, totp>>
  /\ UNCHANGED <<now, begun, user, sessions, tokens, throttle, history>>

BeginEnable(p) == Exists /\ totp.secret # 0 /\ Begin(p, Op("enable"), "codes")

SetCodes(p) ==
  /\ At(p, "codes") /\ UNCHANGED <<now, begun, user, sessions, tokens, throttle, history>>
  /\ \/ /\ Exists /\ Make /\ Goto(p, "switch") /\ UNCHANGED job
        /\ totp' = [totp EXCEPT !.codes = [kind : {"recovery"}, of : {made'}, n : Codes]]
     \/ ~Exists /\ End(p) /\ UNCHANGED <<made, totp>>

SwitchOn(p) ==
  /\ At(p, "switch") /\ End(p) /\ totp' = IF Exists THEN [totp EXCEPT !.on = TRUE] ELSE totp
  /\ UNCHANGED <<now, begun, made, user, sessions, tokens, throttle, history>>

BeginDisable(p) == Exists /\ totp.on /\ totp.secret # 0 /\ Begin(p, Op("disable"), "wipe")

Wipe(p) ==
  /\ At(p, "wipe") /\ End(p) /\ totp' = Off /\ Wiped
  /\ UNCHANGED <<now, begun, made, user, sessions, tokens, throttle, used, replayed, lockEnd>>

---------------------------------------------------------------------------------

Tick == now < MaxTime /\ now' = now + 1 /\ UNCHANGED <<begun, made, row, throttle, pc, job, history>>

(* The daemon dies and starts again: the throttle is memory. A password, key or user whose *)
(* change died before it revoked leaves sessions and tokens.                               *)
Restart ==
  /\ throttle' = None /\ lockEnd' = 0
  /\ pc' = [p \in Procs |-> "idle"] /\ job' = [p \in Procs |-> Idle]
  /\ IF Reached(Revoking)
     THEN /\ sessions' = {[s EXCEPT !.late = TRUE] : s \in sessions}
          /\ tokens' = {[t EXCEPT !.late = TRUE] : t \in tokens}
     ELSE UNCHANGED <<sessions, tokens>>
  /\ UNCHANGED <<now, begun, made, user, totp, used, raced, replayed>>

LoginStep(p) == Compare(p) \/ Factor(p) \/ GiveUp(p) \/ Consume(p) \/ Burn(p) \/ ResetThrottle(p)
                \/ RecordFailure(p) \/ CreateSession(p)
RowStep(p) == SetPassword(p) \/ ResetAPIKey(p) \/ Revoke(p) \/ RevokeTokens(p) \/ DropUser(p) \/ CreateToken(p)
              \/ SetSecret(p) \/ SetCodes(p) \/ SwitchOn(p) \/ Wipe(p)
Starts(p) == \/ \E op \in {"login", "change"} : BeginLogin(p, op)
             \/ BeginSet(p) \/ BeginReset(p) \/ BeginDelete(p) \/ BeginToken(p) \/ BeginSetup(p) \/ BeginEnable(p) \/ BeginDisable(p)

Next == \/ \E p \in Procs : Starts(p) \/ LoginStep(p) \/ RowStep(p)
        \/ GcByOther \/ Logout \/ CreateUser \/ RevokeToken \/ Tick \/ Restart

Spec == Init /\ [][Next]_vars

---------------------------------------------------------------------------------
(* Properties. *)

(* A code, of a step or for recovery, lets in one login: a login that begins after a code  *)
(* was accepted is not accepted with it. (Two logins between their read and their write at *)
(* a time may accept one code, or bring back what the other burnt.)                        *)
CodesUsedOnce == replayed \subseteq raced

(* Outside a revocation, every session that is let in is of the user, password and key     *)
(* there are, and every token of the user and key: a deleted user leaves none to the next  *)
(* of that name. Not so for one that a request under way when they changed issues.         *)
NoStaleCredentials == ~Reached(Revoking) => \A c \in LetIn :
  c.late \/ (IF c \in sessions THEN c.user = user ELSE c.user = [user EXCEPT !.pw = 0])

(* A lock stays to its end: neither the sweep of stale entries nor a login begun during it *)
(* ends it, only one that began before, and a restart.                                     *)
LockoutHolds == now < lockEnd => Locked
=================================================================================

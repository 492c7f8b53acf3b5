------------------------------- MODULE ProgressHub -------------------------------
(***************************************************************************)
(* The progress hub: an operation that holds a domain's lock begins a run  *)
(* and emits its events; event streams subscribe, replay the buffer and    *)
(* follow the channel until an event that ends the run; retention timers   *)
(* free the buffer of a finished run.                                      *)
(*                                                                         *)
(* Every critical section of h.mu is one step. A timer goes off in the     *)
(* order of the deadlines, but time.AfterFunc runs forget in a goroutine   *)
(* of its own, which reaches the mutex whenever it is scheduled.           *)
(***************************************************************************)
EXTENDS Naturals, Sequences, FiniteSets

CONSTANTS Sites,    \* the domains
          Streams,  \* the event streams of clients
          BufCap,   \* events a buffer keeps (200)
          ChanCap,  \* events a subscriber's channel holds (256)
          MaxOps, MaxEvents  \* bounds on the operations and the events of a domain

ASSUME CapsAssumption  == BufCap \in Nat \ {0} /\ ChanCap \in Nat \ {0}
ASSUME SitesAssumption == Sites # {}

VARIABLES
  buffers, \* progressHub.buffers
  gen,     \* progressHub.gen; a missing key reads as 0
  subs,    \* progressHub.subs, the channels named by their streams
  timers,  \* the AfterFunc timers that have not run forget yet
  op,      \* per domain, the operations so far and where the last one is
  clock,   \* per domain, how many events were emitted (history)
  overtaken, \* per domain, whose timers were pending when another one freed the buffer (history)
  stream   \* the DeployEvents handlers

hub     == <<buffers, gen, subs, timers>>
hubVars == <<buffers, gen, subs, timers, op, clock, overtaken, stream>>

(* An event: its position in the domain's history, the operation that emitted it, *)
(* the run id stamped on it, and whether it ends the run (ProgressEvent.Terminal). *)
Event  == [no : Nat, op : Nat, run : Nat, last : BOOLEAN]
Timer  == [dom : Sites, gen : Nat, op : Nat, fired : BOOLEAN]
Closed == [dom |-> CHOOSE d \in Sites : TRUE, open |-> FALSE, replay |-> <<>>, ch |-> <<>>,
           at |-> 0, slow |-> FALSE]
Stream == [dom : Sites, open : BOOLEAN, replay : Seq(Event), ch : Seq(Event), at : Nat,
           slow : BOOLEAN]

HubTypeOK ==
  /\ buffers \in [Sites -> Seq(Event)] /\ \A d \in Sites : Len(buffers[d]) <= BufCap
  /\ gen    \in [Sites -> Nat]
  /\ subs   \in [Sites -> SUBSET Streams]
  /\ timers \subseteq Timer
  /\ op     \in [Sites -> [count : Nat, at : {"done", "begun", "running"}]]
  /\ clock  \in [Sites -> Nat] /\ overtaken \in [Sites -> SUBSET Nat]
  /\ stream \in [Streams -> Stream]
  /\ \A s \in Streams : Len(stream[s].ch) <= ChanCap
  /\ \A s \in Streams, d \in Sites : s \in subs[d] <=> stream[s].open /\ stream[s].dom = d

HubInit ==
  /\ buffers = [d \in Sites |-> <<>>]
  /\ gen     = [d \in Sites |-> 0]
  /\ subs    = [d \in Sites |-> {}]
  /\ timers  = {}
  /\ op      = [d \in Sites |-> [count |-> 0, at |-> "done"]]
  /\ clock   = [d \in Sites |-> 0]
  /\ overtaken = [d \in Sites |-> {}]
  /\ stream  = [s \in Streams |-> Closed]

---------------------------------------------------------------------------------
(* Operations. The domain's lock keeps them one at a time. *)

(* beginDeploy: Begin drops what the run before left ... *)
Begin(d) ==
  /\ op[d].at = "done" /\ op[d].count < MaxOps
  /\ op' = [op EXCEPT ![d] = [count |-> @.count + 1, at |-> "begun"]]
  /\ buffers' = [buffers EXCEPT ![d] = <<>>]
  /\ gen' = [gen EXCEPT ![d] = @ + 1]
  /\ UNCHANGED <<subs, timers, clock, overtaken, stream>>

KeepAll(buf) == buf
KeepLatest(buf) == IF Len(buf) > BufCap THEN SubSeq(buf, Len(buf) - BufCap + 1, Len(buf)) ELSE buf

(* The non-blocking send: an event that finds the channel full is dropped. *)
Offer(st, ev) == IF Len(st.ch) < ChanCap THEN [st EXCEPT !.ch = Append(@, ev)]
                                         ELSE [st EXCEPT !.slow = TRUE]

(* The retention timer of a run is tagged with its generation. *)
Arm(d) ==
  timers' = timers \cup {[dom |-> d, gen |-> gen[d], op |-> op[d].count, fired |-> FALSE]}

Publish(d, last) == LET ev == [no |-> clock[d] + 1, op |-> op[d].count, run |-> gen[d],
                               last |-> last] IN
  /\ buffers' = [buffers EXCEPT ![d] = KeepLatest(Append(@, ev))]
  /\ stream' = [s \in Streams |-> IF s \in subs[d] THEN Offer(stream[s], ev) ELSE stream[s]]
  /\ clock' = [clock EXCEPT ![d] = @ + 1]
  /\ UNCHANGED <<gen, subs, overtaken>>

(* ... and its first step, like every later one, goes to the buffer and the subscribers. *)
Emit(d) ==
  /\ op[d].at # "done" /\ (op[d].at = "begun" \/ clock[d] < MaxEvents)
  /\ Publish(d, FALSE) /\ UNCHANGED timers
  /\ op' = [op EXCEPT ![d].at = "running"]

(* The event that ends the run, "done" or "error": it arms the retention timer. *)
Finish(d) ==
  /\ op[d].at = "running" /\ Publish(d, TRUE) /\ Arm(d)
  /\ op' = [op EXCEPT ![d].at = "done"]

(* The retention window of a run is over. *)
Expire(t) ==
  /\ ~t.fired /\ \A u \in timers : u.dom = t.dom /\ ~u.fired => t.op <= u.op
  /\ timers' = (timers \ {t}) \cup {[t EXCEPT !.fired = TRUE]}
  /\ UNCHANGED <<buffers, gen, subs, op, clock, overtaken, stream>>

Free(t) ==
  /\ buffers' = [buffers EXCEPT ![t.dom] = <<>>]
  /\ gen' = [gen EXCEPT ![t.dom] = 0]
  /\ overtaken' = [overtaken EXCEPT ![t.dom] = {u.op : u \in {u \in timers \ {t} : u.dom = t.dom}}]

ForgetAlways(t) ==
  /\ t.fired /\ timers' = timers \ {t} /\ Free(t)
  /\ UNCHANGED <<subs, op, clock, stream>>
(* forget: a timer of an older generation changes nothing. *)
Forget(t) ==
  /\ t.fired /\ timers' = timers \ {t}
  /\ IF gen[t.dom] = t.gen THEN Free(t) ELSE UNCHANGED <<buffers, gen, overtaken>>
  /\ UNCHANGED <<subs, op, clock, stream>>

---------------------------------------------------------------------------------
(* The DeployEvents handler of one stream. *)

SubscribeTwice(s, d) ==
  /\ ~stream[s].open
  /\ subs' = [subs EXCEPT ![d] = @ \cup {s}]
  /\ stream' = [stream EXCEPT ![s] =
       [dom |-> d, open |-> TRUE, replay |-> buffers[d], slow |-> FALSE,
        ch |-> buffers[d], at |-> clock[d] - Len(buffers[d])]]
  /\ UNCHANGED <<buffers, gen, timers, op, clock, overtaken>>

(* The buffer and the registration are taken in one critical section. *)
Subscribe(s, d) ==
  /\ ~stream[s].open
  /\ subs' = [subs EXCEPT ![d] = @ \cup {s}]
  /\ stream' = [stream EXCEPT ![s] =
       [dom |-> d, open |-> TRUE, replay |-> buffers[d], slow |-> FALSE,
        ch |-> <<>>, at |-> clock[d] - Len(buffers[d])]]
  /\ UNCHANGED <<buffers, gen, timers, op, clock, overtaken>>

CancelAll(s) ==
  /\ subs' = [subs EXCEPT ![stream[s].dom] = {}]
  /\ stream' = [stream EXCEPT ![s] = Closed]

(* The handler returns, and its deferred cancel takes its own channel out. *)
Cancel(s) ==
  /\ subs' = [subs EXCEPT ![stream[s].dom] = @ \ {s}]
  /\ stream' = [stream EXCEPT ![s] = Closed]

(* One event goes to the client; one that ends a run also ends the stream. *)
Send(s, ev, rest) ==
  \/ ev.last /\ Cancel(s)
  \/ ~ev.last /\ UNCHANGED subs /\ stream' = [stream EXCEPT ![s] = rest]

Replay(s) == LET st == stream[s] IN
  /\ st.open /\ st.replay # <<>>
  /\ Send(s, Head(st.replay), [st EXCEPT !.replay = Tail(@), !.at = Head(st.replay).no])
  /\ UNCHANGED <<buffers, gen, timers, op, clock, overtaken>>

Receive(s) == LET st == stream[s] IN
  /\ st.open /\ st.replay = <<>> /\ st.ch # <<>>
  /\ Send(s, Head(st.ch), [st EXCEPT !.ch = Tail(@), !.at = Head(st.ch).no])
  /\ UNCHANGED <<buffers, gen, timers, op, clock, overtaken>>

(* The client is gone, or the stream is as old as maxDeployStreamDuration. *)
Leave(s) ==
  /\ stream[s].open /\ stream[s].replay = <<>> /\ Cancel(s)
  /\ UNCHANGED <<buffers, gen, timers, op, clock, overtaken>>

HubNext ==
  \/ \E d \in Sites : Begin(d) \/ Emit(d) \/ Finish(d)
  \/ \E t \in timers : Expire(t) \/ Forget(t)
  \/ \E s \in Streams : Replay(s) \/ Receive(s) \/ Leave(s) \/ \E d \in Sites : Subscribe(s, d)

HubSpec == HubInit /\ [][HubNext]_hubVars

(* Timers go off and their goroutines run. Nothing else has to happen. *)
HubFairSpec == HubSpec /\ WF_hubVars(\E t \in timers : Expire(t) \/ Forget(t))

---------------------------------------------------------------------------------
(* What it is for. *)

Consecutive(q, first) == \A i \in 1..Len(q) : q[i].no = first + i - 1

(* What a buffer replays is the latest events of the domain's latest operation, under *)
(* one run id and with no hole: nothing of a run before it bleeds into it (Begin).    *)
OneRunBuffered == \A d \in Sites : LET b == buffers[d] IN
  /\ Consecutive(b, clock[d] - Len(b) + 1)
  /\ \A i \in 1..Len(b) : b[i].op = op[d].count /\ b[i].run = gen[d]

Pending(s) == stream[s].replay \o stream[s].ch

(* A client gets the events of a domain in the order they were emitted and none of    *)
(* them twice, however slow it is and wherever its replay meets the live events; and  *)
(* what it is replayed is of one run.                                                 *)
InOrder == OneRunBuffered /\ \A s \in Streams : LET q == Pending(s) IN
  \A i \in 1..Len(q) : q[i].no > (IF i = 1 THEN stream[s].at ELSE q[i - 1].no)

(* A client whose channel was never full misses nothing, from the first event it      *)
(* replays to the last one emitted: not where the replay ends, and not when another   *)
(* client of the domain leaves.                                                       *)
NothingMissed == \A s \in Streams : LET st == stream[s] IN
  st.open /\ ~st.slow =>
    Consecutive(Pending(s), st.at + 1) /\ st.at + Len(Pending(s)) = clock[st.dom]

(* The buffer of a finished run is freed, unless a new run begins. *)
BuffersFreed == \A d \in Sites :
  (op[d].at = "done" /\ buffers[d] # <<>>) ~> (op[d].at # "done" \/ buffers[d] = <<>>)

(* A timer of a finished run does not free the buffer of a run in progress, unless it *)
(* was overtaken by another: forget deletes gen, so a run that begins after that has  *)
(* the number of an older one, whose timer may still have to run.                     *)
StaleTimersSpare == [][\A d \in Sites :
  op[d].at = "running" /\ buffers[d] # <<>> /\ buffers'[d] = <<>> =>
    \E t \in timers \ timers' : t.dom = d /\ t.op \in overtaken[d]]_hubVars

(* A buffer lives exactly until the retention of its run ends: the hub does not keep  *)
(* one buffer per domain forever, and no timer cuts a later run short.                *)
BufferLifetime == BuffersFreed /\ StaleTimersSpare

=================================================================================

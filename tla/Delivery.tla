------------------------------ MODULE Delivery ------------------------------
(***************************************************************************)
(* From a user's message to the delivered reply: the inbound routes, the   *)
(* job_queue table in SQLite, and the two workers that poll it.  A worker  *)
(* tick starts a run, an asynchronous chain that outlives the tick, so     *)
(* runs interleave with each other, with ticks and with redeliveries; a    *)
(* crash ends all runs and keeps the table.                                *)
(*                                                                         *)
(* Abstractions.  Time is what the code compares it with: whether          *)
(* next_run_at has come (ripe) and whether locked_at is more than five     *)
(* minutes past (stale).  Of the ripe jobs a tick may claim any, where the *)
(* code claims the earliest due: no property depends on which.  Requests   *)
(* the webhook refuses for their signature change nothing and are left     *)
(* out.                                                                    *)
(***************************************************************************)
EXTENDS Integers, Sequences, FiniteSets

CONSTANTS
  Messages,    \* the messages users write
  KeyOf,       \* KeyOf[m]: the dedup key a route gives m, or NoKey
  NoKey,
  MaxAttempts, \* maxAttempts of a job, 5 in the code
  MaxSends,    \* bound: how often a channel delivers one message
  Faults,      \* the failures that may happen
  MaxFaults    \* bound: failures of one behaviour

FaultKinds == {"crash", "slow", "turn", "send", "unheard", "db", "ingest"}

ASSUME DeliveryBounds ==
  MaxAttempts \in Nat \ {0} /\ MaxSends \in Nat /\ MaxFaults \in Nat
ASSUME DeliveryFaults == Faults \subseteq FaultKinds
(* A key is the id of one message.                                         *)
ASSUME DeliveryKeys == \A m, n \in Messages : KeyOf[m] = KeyOf[n] /\ KeyOf[m] # NoKey => m = n

VARIABLES
  claimed, \* the inbound_dedup table
  jobs,    \* the job_queue table; ids are positions, in order of creation
  runs,    \* worker runs in flight
  sends,   \* how often each message has come in
  acked,   \* messages the server has acknowledged to the channel
  faults   \* failures so far

vars == <<claimed, jobs, runs, sends, acked, faults>>

(* cause: for an outbound job, the inbound job whose reply it carries.     *)
(* ran: history, the attempts whose turn took effect or whose send got     *)
(* through.                                                                *)
Job == [queue : {"inbound", "outbound"}, msg : Messages, cause : Nat,
        status : {"pending", "processing", "done", "failed"},
        attempts : Nat, ripe : BOOLEAN, stale : BOOLEAN, ran : SUBSET Nat]
Run == [job : Nat, attempt : Nat, phase : {"turn", "acted", "send", "complete"}]

Fault(kind) == kind \in Faults /\ faults < MaxFaults /\ faults' = faults + 1
-----------------------------------------------------------------------------
(* The operations of the job queue, each one SQL statement.                *)
Enqueued(js, queue, m, cause) ==
  Append(js, [queue |-> queue, msg |-> m, cause |-> cause, status |-> "pending",
              attempts |-> 0, ripe |-> TRUE, stale |-> FALSE, ran |-> {}])

(* Mutant: the job claimed is not marked.                                  *)
MutantClaimed(js, j) == [js EXCEPT ![j].attempts = @ + 1]

Claimed(js, j) == [js EXCEPT ![j].status = "processing", ![j].attempts = @ + 1]

Completed(js, j) == [js EXCEPT ![j].status = "done", ![j].stale = FALSE]

Failed(js, j) ==
  [js EXCEPT ![j].status = IF js[j].attempts < MaxAttempts THEN "pending" ELSE "failed",
             ![j].ripe = FALSE, ![j].stale = FALSE]

(* Mutants: only the inbound queue is swept; the lock's age is not looked  *)
(* at.                                                                     *)
MutantInboundOnly(js) ==
  [j \in DOMAIN js |-> IF js[j].stale /\ js[j].queue = "inbound"
                       THEN [js[j] EXCEPT !.status = "pending", !.stale = FALSE] ELSE js[j]]
MutantAnyAge(js) ==
  [j \in DOMAIN js |-> IF js[j].status = "processing"
                       THEN [js[j] EXCEPT !.status = "pending", !.stale = FALSE] ELSE js[j]]

Requeued(js) ==
  [j \in DOMAIN js |-> IF js[j].status = "processing" /\ js[j].stale
                       THEN [js[j] EXCEPT !.status = "pending", !.stale = FALSE] ELSE js[j]]

(* Mutant: the claim does not ask for the status.                          *)
MutantClaimable(js, queue) == {j \in DOMAIN js : js[j].queue = queue /\ js[j].ripe}

Claimable(js, queue) ==
  {j \in DOMAIN js : js[j].queue = queue /\ js[j].status = "pending" /\ js[j].ripe}
-----------------------------------------------------------------------------
Init ==
  /\ claimed = {} /\ jobs = <<>> /\ runs = {}
  /\ sends = [m \in Messages |-> 0] /\ acked = {} /\ faults = 0

Arrives(m) == sends[m] < MaxSends /\ sends' = [sends EXCEPT ![m] = @ + 1]

(* Mutant: the key is looked up but never recorded.                        *)
MutantReceive(m) ==
  /\ Arrives(m) /\ acked' = acked \cup {m}
  /\ jobs' = Enqueued(jobs, "inbound", m, 0)
  /\ UNCHANGED <<claimed, runs, faults>>

(* The SDK's ingest message and the WhatsApp webhook: a key that is        *)
(* already claimed is acknowledged and dropped; otherwise the message is   *)
(* queued, then acknowledged.                                              *)
Receive(m) ==
  /\ Arrives(m) /\ acked' = acked \cup {m}
  /\ IF KeyOf[m] \in claimed
     THEN UNCHANGED <<claimed, jobs>>
     ELSE /\ claimed' = claimed \cup ({KeyOf[m]} \ {NoKey})
          /\ jobs' = Enqueued(jobs, "inbound", m, 0)
  /\ UNCHANGED <<runs, faults>>

(* Queueing fails after the key was claimed: the webhook answers with an   *)
(* error; on the SDK route nothing handles the rejection, and the process  *)
(* goes down.                                                              *)
ReceiveFails(m) ==
  /\ Arrives(m) /\ KeyOf[m] \notin claimed \cup {NoKey}
  /\ Fault("ingest")
  /\ claimed' = claimed \cup {KeyOf[m]}
  /\ runs' \in {runs, {}}
  /\ UNCHANGED <<jobs, acked>>

Start(js, j, phase) ==
  /\ jobs' = Claimed(js, j)
  /\ runs' = runs \cup {[job |-> j, attempt |-> js[j].attempts + 1, phase |-> phase]}
  /\ UNCHANGED <<claimed, sends, acked, faults>>

(* The inbound worker's timer: it sweeps stale locks of both queues, then  *)
(* claims one job.                                                         *)
InboundTick ==
  LET js == Requeued(jobs) IN
  \/ \E j \in Claimable(js, "inbound") : Start(js, j, "turn")
  \/ /\ Claimable(js, "inbound") = {} /\ jobs' = js
     /\ UNCHANGED <<claimed, runs, sends, acked, faults>>

OutboundTick == \E j \in Claimable(jobs, "outbound") : Start(jobs, j, "send")

Ran(js, r) == [js EXCEPT ![r.job].ran = @ \cup {r.attempt}]
Moves(r, phase) == runs' = (runs \ {r}) \cup {[r EXCEPT !.phase = phase]}
Ends(r) == runs' = runs \ {r}

(* processTurn takes effect: functions are invoked, messages stored.       *)
Act(r) ==
  /\ r.phase = "turn"
  /\ jobs' = Ran(jobs, r)
  /\ Moves(r, "acted")
  /\ UNCHANGED <<claimed, sends, acked, faults>>

(* Mutant: the job is completed before its reply is queued.                *)
MutantReply(r) ==
  /\ r.phase = "acted"
  /\ jobs' = Completed(jobs, r.job)
  /\ Moves(r, "complete")
  /\ UNCHANGED <<claimed, sends, acked, faults>>

Reply(r) ==
  /\ r.phase = "acted"
  /\ jobs' = Enqueued(jobs, "outbound", jobs[r.job].msg, r.job)
  /\ Moves(r, "complete")
  /\ UNCHANGED <<claimed, sends, acked, faults>>

(* processTurn throws, before or after it took effect, or the reply        *)
(* cannot be queued.                                                       *)
TurnFails(r) ==
  /\ r.phase \in {"turn", "acted"} /\ Fault("turn")
  /\ jobs' = Failed(jobs, r.job) /\ Ends(r)
  /\ UNCHANGED <<claimed, sends, acked>>

Send(r) ==
  /\ r.phase = "send"
  /\ jobs' = Ran(jobs, r)
  /\ Moves(r, "complete")
  /\ UNCHANGED <<claimed, sends, acked, faults>>

(* The provider or the SDK refuses, or it delivers and the answer does not *)
(* come in time.                                                           *)
SendFails(r) ==
  /\ r.phase = "send" /\ Ends(r)
  /\ \/ Fault("send") /\ jobs' = Failed(jobs, r.job)
     \/ Fault("unheard") /\ jobs' = Failed(Ran(jobs, r), r.job)
  /\ UNCHANGED <<claimed, sends, acked>>

Complete(r) ==
  /\ r.phase = "complete"
  /\ jobs' = Completed(jobs, r.job) /\ Ends(r)
  /\ UNCHANGED <<claimed, sends, acked, faults>>

(* completeJob throws, inside the try: failJob.                            *)
CompleteFails(r) ==
  /\ r.phase = "complete" /\ Fault("db")
  /\ jobs' = Failed(jobs, r.job) /\ Ends(r)
  /\ UNCHANGED <<claimed, sends, acked>>
-----------------------------------------------------------------------------
(* Five seconds after a failure.                                           *)
Ripen(j) ==
  /\ jobs[j].status = "pending" /\ ~jobs[j].ripe
  /\ jobs' = [jobs EXCEPT ![j].ripe = TRUE]
  /\ UNCHANGED <<claimed, runs, sends, acked, faults>>

Orphan(j) == ~\E r \in runs : r.job = j /\ r.attempt = jobs[j].attempts

(* Five minutes after the claim.  That the run is still alive then is a    *)
(* failure the model counts.                                               *)
Expire(j) ==
  /\ jobs[j].status = "processing" /\ ~jobs[j].stale
  /\ IF Orphan(j) THEN UNCHANGED faults ELSE Fault("slow")
  /\ jobs' = [jobs EXCEPT ![j].stale = TRUE]
  /\ UNCHANGED <<claimed, runs, sends, acked>>

(* The process dies and is started again.                                  *)
Crash ==
  /\ Fault("crash")
  /\ runs' = {}
  /\ UNCHANGED <<claimed, jobs, sends, acked>>

Step(r) == Act(r) \/ Reply(r) \/ Send(r) \/ Complete(r)
StepFails(r) == TurnFails(r) \/ SendFails(r) \/ CompleteFails(r)

Next ==
  \/ \E m \in Messages : Receive(m) \/ ReceiveFails(m)
  \/ InboundTick \/ OutboundTick
  \/ \E r \in runs : Step(r) \/ StepFails(r)
  \/ \E j \in DOMAIN jobs : Ripen(j) \/ Expire(j)
  \/ Crash

Spec == Init /\ [][Next]_vars

(* Timers fire, time passes, and a run that nothing stops goes on.         *)
Fairness ==
  /\ WF_vars(InboundTick) /\ WF_vars(OutboundTick)
  /\ WF_vars(\E r \in runs : Step(r))
  /\ WF_vars(\E j \in DOMAIN jobs : Ripen(j))
  /\ WF_vars(\E j \in DOMAIN jobs : Orphan(j) /\ Expire(j))

FairSpec == Spec /\ Fairness
-----------------------------------------------------------------------------
(* The types of all variables.                                             *)
DeliveryTypeOK ==
  /\ jobs \in Seq(Job) /\ runs \subseteq Run /\ faults \in Nat
  /\ \A r \in runs : r.job \in DOMAIN jobs
  /\ acked \subseteq Messages /\ sends \in [Messages -> Nat]

Inbound(j) == jobs[j].queue = "inbound"
Replies(j) == {k \in DOMAIN jobs : jobs[k].queue = "outbound" /\ jobs[k].cause = j}

(* An inbound job is done only when its reply is queued, whatever crashes  *)
(* or fails in between, and given up only after MaxAttempts runs.          *)
SettledForCause ==
  \A j \in DOMAIN jobs :
    /\ Inbound(j) /\ jobs[j].status = "done" => Replies(j) # {}
    /\ jobs[j].status = "failed" => jobs[j].attempts >= MaxAttempts

(* Nothing is run or sent again unless something failed: a job has at most *)
(* one attempt more than there were failures, and what acts is one of them.*)
RetriesAreFaults ==
  \A j \in DOMAIN jobs :
    jobs[j].attempts <= 1 + faults /\ jobs[j].ran \subseteq 1 .. jobs[j].attempts

(* A claim is exclusive: a run belongs to a job that is processing, and to *)
(* its latest attempt, so no two runs work on one job.                     *)
RunsExclusive ==
  \A r \in runs : jobs[r.job].status = "processing" /\ r.attempt = jobs[r.job].attempts

(* What the queue and its workers look like from outside: an entry of the  *)
(* mailbox is a job without its attempts, its lock and its timing.         *)
Keyed == {m \in Messages : KeyOf[m] # NoKey}
EntryOf(job) ==
  [queue |-> job.queue, msg |-> job.msg, cause |-> job.cause, acted |-> job.ran # {},
   state |-> IF job.status \in {"done", "failed"} THEN job.status ELSE "open"]
mailed == [j \in DOMAIN jobs |-> EntryOf(jobs[j])]
Mail == INSTANCE Mailbox WITH mail <- mailed, Once <- Keyed

(* Workers, retries and crashes implement a mailbox: a message with an id  *)
(* is accepted once, replied to only while it is open and after its turn,  *)
(* and done only with a reply; a reply is done only when it was sent; and  *)
(* what is settled stays as it is.                                         *)
RefinesMailbox == Mail!Spec

Queued(m) == {j \in DOMAIN jobs : Inbound(j) /\ jobs[j].msg = m}

(* A message that carries an id is queued once, however often the channel  *)
(* redelivers it, and until something fails is queued when acknowledged.   *)
QueuedOnce ==
  \A m \in Messages : KeyOf[m] # NoKey =>
    /\ Cardinality(Queued(m)) <= 1
    /\ m \in acked /\ Queued(m) = {} => faults > 0

(* Every message queued is eventually given up or its reply settled.       *)
Settled(m) ==
  \E j \in Queued(m) :
    \/ jobs[j].status = "failed"
    \/ \E k \in Replies(j) : jobs[k].status \in {"done", "failed"}
EveryMessageSettles == \A m \in Messages : Queued(m) # {} ~> Settled(m)

(* A retried inbound job does not queue its reply a second time (fix-log). *)
ReplyOnce == \A j \in DOMAIN jobs : Cardinality(Replies(j)) <= 1

(* Only a duplicate is dropped: a message that was acknowledged is queued. *)
AckedQueued == \A m \in acked : Queued(m) # {}
=============================================================================

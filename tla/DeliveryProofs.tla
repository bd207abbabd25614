--------------------------- MODULE DeliveryProofs ---------------------------
(***************************************************************************)
(* Proofs about Delivery: a job settles only for a cause, is retried only  *)
(* for a failure, and is claimed exclusively while no run outlives its     *)
(* lock.  The invariant is stated over a job table and a set of runs, so   *)
(* that a tick, which sweeps the table and then claims from it, is two     *)
(* uses of lemmas about one change each.                                   *)
(***************************************************************************)
EXTENDS Delivery, SequenceTheorems, FiniteSetTheorems, TLAPS

HasReply(js, j) == \E k \in DOMAIN js : js[k].queue = "outbound" /\ js[k].cause = j
Abandoned(js, rs, j) == ~\E r \in rs : r.job = j /\ r.attempt = js[j].attempts

Reclaimable(js, rs, j) ==
  \/ js[j].status = "pending" \/ js[j].stale
  \/ js[j].status = "processing" /\ Abandoned(js, rs, j)

(* A job that may be claimed again owes that to a failure.                 *)
JobOk(js, rs, f, j) ==
  /\ js[j].ran \subseteq 1 .. js[j].attempts
  /\ js[j].attempts <= 1 + f
  /\ Reclaimable(js, rs, j) => js[j].attempts <= f
  /\ js[j].stale => js[j].status = "processing"
  /\ js[j].queue = "inbound" /\ js[j].status = "done" => HasReply(js, j)
  /\ js[j].status = "failed" => js[j].attempts >= MaxAttempts

(* A run is one of the attempts of its job, in a phase of its queue, and   *)
(* reaches the completion of an inbound job past its reply.                *)
RunOk(js, r) ==
  /\ r.job \in DOMAIN js
  /\ r.attempt \in 1 .. js[r.job].attempts
  /\ r.phase \in {"turn", "acted"} => js[r.job].queue = "inbound"
  /\ r.phase = "send" => js[r.job].queue = "outbound"
  /\ r.phase = "complete" /\ js[r.job].queue = "inbound" => HasReply(js, r.job)
  /\ "slow" \notin Faults =>
       js[r.job].status = "processing" /\ r.attempt = js[r.job].attempts /\ ~js[r.job].stale

TableOk(js, rs, f) ==
  /\ js \in Seq(Job) /\ rs \subseteq Run /\ f \in Nat
  /\ \A j \in DOMAIN js : JobOk(js, rs, f, j)
  /\ \A r \in rs : RunOk(js, r)
  /\ \A r, s \in rs : r.job = s.job /\ r.attempt = s.attempt => r = s

(* The inductive invariant.                                                *)
IInv == /\ TableOk(jobs, runs, faults)
        /\ acked \subseteq Messages /\ sends \in [Messages -> Nat]

LEMMA JobsOfASequence ==
  ASSUME NEW js \in Seq(Job)
  PROVE  /\ DOMAIN js = 1 .. Len(js) /\ Len(js) \in Nat
         /\ \A j \in DOMAIN js : js[j] \in Job
BY LenProperties

(* The updates of a job's row.                                             *)
SameMessage(x, a) == x.queue = a.queue /\ x.msg = a.msg /\ x.cause = a.cause

RowClaimed(a, n) == [a EXCEPT !.status = "processing", !.attempts = n]
RowSettled(a, status, ripe, stale) == [a EXCEPT !.status = status, !.ripe = ripe, !.stale = stale]
RowRan(a, n) == [a EXCEPT !.ran = @ \cup {n}]

LEMMA ClaimRow ==
  ASSUME NEW a \in Job, NEW n \in Nat
  PROVE  /\ RowClaimed(a, n) \in Job /\ SameMessage(RowClaimed(a, n), a)
         /\ RowClaimed(a, n).ran = a.ran /\ RowClaimed(a, n).stale = a.stale
         /\ RowClaimed(a, n).status = "processing" /\ RowClaimed(a, n).attempts = n
BY DEF Job, SameMessage, RowClaimed

LEMMA RanRow ==
  ASSUME NEW a \in Job, NEW n \in Nat
  PROVE  LET x == RowRan(a, n)
         IN  /\ x \in Job /\ SameMessage(x, a) /\ x.ran = a.ran \cup {n} /\ x.stale = a.stale
             /\ x.status = a.status /\ x.attempts = a.attempts
BY DEF Job, SameMessage, RowRan

(* One job's row changes to x, runs of that job only, and the job and its  *)
(* runs are right afterwards.                                              *)
OneChange(js, rs, f, js2, rs2, g, j, x) ==
  /\ j \in DOMAIN js /\ x \in Job /\ SameMessage(x, js[j]) /\ js2 = [js EXCEPT ![j] = x]
  /\ rs2 \in SUBSET Run /\ g \in Nat /\ f <= g
  /\ \A r \in rs : r.job # j => r \in rs2
  /\ \A r \in rs2 : r.job # j => r \in rs
  /\ JobOk(js2, rs2, g, j)
  /\ \A r \in rs2 : r.job = j => RunOk(js2, r)
  /\ \A r, s \in rs2 : r.job = j /\ s.job = j /\ r.attempt = s.attempt => r = s

LEMMA ChangeOne ==
  ASSUME NEW js, NEW rs, NEW f, TableOk(js, rs, f),
         NEW js2, NEW rs2, NEW g, NEW j, NEW x, OneChange(js, rs, f, js2, rs2, g, j, x)
  PROVE  TableOk(js2, rs2, g)
<1> USE DEF OneChange
<1>1. /\ js \in Seq(Job) /\ rs \subseteq Run /\ f \in Nat
      /\ \A k \in DOMAIN js : js[k] \in Job
      /\ DOMAIN js = 1 .. Len(js)
  BY JobsOfASequence DEF TableOk
<1>2. js2 \in Seq(Job) /\ DOMAIN js2 = DOMAIN js /\ js2[j] = x
      /\ \A k \in DOMAIN js : k # j => js2[k] = js[k]
  BY <1>1, ExceptSeq, JobsOfASequence
<1>3. \A k \in DOMAIN js : HasReply(js, k) <=> HasReply(js2, k)
  BY <1>2 DEF HasReply, SameMessage
<1>4. \A k \in DOMAIN js : k # j => (Abandoned(js, rs, k) <=> Abandoned(js2, rs2, k))
  BY <1>2 DEF Abandoned
<1>5. ASSUME NEW k \in DOMAIN js2 PROVE JobOk(js2, rs2, g, k)
  <2>1. CASE k = j
    BY <2>1
  <2>2. CASE k # j
    <3>1. JobOk(js, rs, f, k) /\ js2[k] = js[k] /\ js[k] \in Job
      BY <1>1, <1>2, <2>2 DEF TableOk
    <3>2. js[k].attempts \in Nat
      BY <3>1 DEF Job
    <3>3. Reclaimable(js2, rs2, k) => Reclaimable(js, rs, k)
      BY <1>2, <1>4, <2>2, <3>1, Zenon DEF Reclaimable
    <3>4. /\ js2[k].attempts <= 1 + g
          /\ Reclaimable(js2, rs2, k) => js2[k].attempts <= g
      BY <1>1, <3>1, <3>2, <3>3 DEF JobOk
    <3>5. HasReply(js, k) <=> HasReply(js2, k)
      BY <1>2, <1>3
    <3>6. QED
      BY <3>1, <3>4, <3>5, Zenon DEF JobOk
  <2>3. QED
    BY <2>1, <2>2
<1>6. ASSUME NEW r \in rs2 PROVE RunOk(js2, r)
  <2>1. CASE r.job = j
    BY <2>1
  <2>2. CASE r.job # j
    <3>1. RunOk(js, r)
      BY <2>2 DEF TableOk
    <3>2. QED
      BY <1>2, <1>3, <2>2, <3>1 DEF RunOk
  <2>3. QED
    BY <2>1, <2>2
<1>7. ASSUME NEW r \in rs2, NEW s \in rs2, r.job = s.job, r.attempt = s.attempt
      PROVE  r = s
  BY <1>7 DEF TableOk
<1>8. QED
  BY <1>2, <1>5, <1>6, <1>7 DEF TableOk

(* Queueing a new job.                                                     *)
LEMMA EnqueueKeeps ==
  ASSUME NEW js, NEW rs, NEW f, TableOk(js, rs, f),
         NEW queue \in {"inbound", "outbound"}, NEW m \in Messages, NEW cause \in Nat
  PROVE  /\ TableOk(Enqueued(js, queue, m, cause), rs, f)
         /\ DOMAIN js \subseteq DOMAIN Enqueued(js, queue, m, cause)
         /\ \A k \in DOMAIN js : Enqueued(js, queue, m, cause)[k] = js[k]
         /\ queue = "outbound" => HasReply(Enqueued(js, queue, m, cause), cause)
<1> DEFINE x == [queue |-> queue, msg |-> m, cause |-> cause, status |-> "pending",
                 attempts |-> 0, ripe |-> TRUE, stale |-> FALSE, ran |-> {}]
           js2 == Append(js, x)
<1>1. js2 = Enqueued(js, queue, m, cause)
  BY DEF Enqueued
<1>2. x \in Job
  BY DEF Job
<1>3. js \in Seq(Job) /\ rs \subseteq Run /\ f \in Nat /\ DOMAIN js = 1 .. Len(js) /\ Len(js) \in Nat
  BY JobsOfASequence DEF TableOk
<1>4. /\ js2 \in Seq(Job) /\ Len(js2) = Len(js) + 1
      /\ \A k \in DOMAIN js : js2[k] = js[k]
      /\ js2[Len(js) + 1] = x
  <2> HIDE DEF x
  <2> QED BY <1>2, <1>3, AppendProperties
<1>5. DOMAIN js2 = 1 .. Len(js) + 1
  BY <1>4, JobsOfASequence
<1>6. DOMAIN js \subseteq DOMAIN js2
  BY <1>3, <1>5
<1>7. \A k \in DOMAIN js : HasReply(js, k) => HasReply(js2, k)
  BY <1>3, <1>4, <1>5 DEF HasReply
<1>8. ASSUME NEW k \in DOMAIN js2 PROVE JobOk(js2, rs, f, k)
  <2>1. CASE k \in DOMAIN js
    <3>1. JobOk(js, rs, f, k) /\ js2[k] = js[k]
      BY <1>4, <2>1 DEF TableOk
    <3>2. Reclaimable(js2, rs, k) => Reclaimable(js, rs, k)
      BY <3>1 DEF Reclaimable, Abandoned
    <3>3. QED
      BY <1>7, <2>1, <3>1, <3>2, Zenon DEF JobOk
  <2>2. CASE k \notin DOMAIN js
    <3>1. js2[k] = x
      BY <1>3, <1>4, <1>5, <2>2
    <3>2. QED
      BY <1>3, <3>1 DEF JobOk
  <2>3. QED
    BY <2>1, <2>2
<1>9. ASSUME NEW r \in rs PROVE RunOk(js2, r)
  <2>1. RunOk(js, r) /\ r.job \in DOMAIN js
    BY DEF TableOk, RunOk
  <2>2. js2[r.job] = js[r.job] /\ r.job \in DOMAIN js2 /\ (HasReply(js, r.job) => HasReply(js2, r.job))
    <3> HIDE DEF x, js2
    <3> QED BY <1>4, <1>7, <1>6, <2>1, Zenon
  <2>3. QED
    BY <2>1, <2>2, Zenon DEF RunOk
<1>10. TableOk(js2, rs, f)
  BY <1>3, <1>4, <1>8, <1>9 DEF TableOk
<1>11. queue = "outbound" => HasReply(js2, cause)
  BY <1>3, <1>4, <1>5 DEF HasReply
<1>12. QED
  <2> HIDE DEF js2
  <2> QED BY <1>1, <1>4, <1>10, <1>11, <1>6

(* Sweeping stale locks.                                                   *)
LEMMA RequeueKeeps ==
  ASSUME NEW js, NEW rs, NEW f, TableOk(js, rs, f)
  PROVE  TableOk(Requeued(js), rs, f)
<1> DEFINE js2 == Requeued(js)
<1>1. js \in Seq(Job) /\ rs \subseteq Run /\ f \in Nat /\ DOMAIN js = 1 .. Len(js) /\ Len(js) \in Nat
  BY JobsOfASequence DEF TableOk
<1>2. /\ DOMAIN js2 = DOMAIN js
      /\ \A k \in DOMAIN js :
           js2[k] = IF js[k].status = "processing" /\ js[k].stale
                    THEN [js[k] EXCEPT !.status = "pending", !.stale = FALSE] ELSE js[k]
  BY DEF Requeued
<1>3. \A k \in DOMAIN js : js[k] \in Job
  BY <1>1, JobsOfASequence
<1>4. \A k \in DOMAIN js :
        /\ js2[k] \in Job
        /\ js2[k].queue = js[k].queue /\ js2[k].cause = js[k].cause
        /\ js2[k].attempts = js[k].attempts /\ js2[k].ran = js[k].ran
        /\ js[k].status = "processing" /\ js[k].stale =>
             js2[k].status = "pending" /\ js2[k].stale = FALSE
        /\ ~(js[k].status = "processing" /\ js[k].stale) => js2[k] = js[k]
  <2> HIDE DEF js2
  <2> SUFFICES ASSUME NEW k \in DOMAIN js
      PROVE  /\ js2[k] \in Job
             /\ js2[k].queue = js[k].queue /\ js2[k].cause = js[k].cause
             /\ js2[k].attempts = js[k].attempts /\ js2[k].ran = js[k].ran
             /\ js[k].status = "processing" /\ js[k].stale =>
                  js2[k].status = "pending" /\ js2[k].stale = FALSE
             /\ ~(js[k].status = "processing" /\ js[k].stale) => js2[k] = js[k]
    OBVIOUS
  <2>1. js[k] \in Job
    BY <1>3
  <2>2. CASE js[k].status = "processing" /\ js[k].stale
    <3>1. js2[k] = [js[k] EXCEPT !.status = "pending", !.stale = FALSE]
      BY <1>2, <2>2
    <3>2. js2[k] \in Job
      BY <2>1, <3>1 DEF Job
    <3>3. /\ js2[k].queue = js[k].queue /\ js2[k].cause = js[k].cause
          /\ js2[k].attempts = js[k].attempts /\ js2[k].ran = js[k].ran
          /\ js2[k].status = "pending" /\ js2[k].stale = FALSE
      BY <2>1, <3>1 DEF Job
    <3>4. QED
      BY <2>2, <3>2, <3>3
  <2>3. CASE ~(js[k].status = "processing" /\ js[k].stale)
    <3>1. js2[k] = js[k]
      BY <1>2, <2>3
    <3>2. QED
      BY <2>1, <2>3, <3>1
  <2>4. QED
    BY <2>2, <2>3
<1>5. js2 \in Seq(Job)
  <2>1. js2 = [k \in 1 .. Len(js) |-> js2[k]]
    BY <1>1 DEF Requeued
  <2>2. js2 \in [1 .. Len(js) -> Job]
    BY <1>1, <1>4, <2>1
  <2>3. QED
    BY <1>1, <2>2, SeqDef
<1>6. \A k \in DOMAIN js : HasReply(js, k) <=> HasReply(js2, k)
  BY <1>2, <1>4 DEF HasReply
<1>7. ASSUME NEW k \in DOMAIN js2 PROVE JobOk(js2, rs, f, k)
  <2>1. JobOk(js, rs, f, k) /\ k \in DOMAIN js
    BY <1>2 DEF TableOk
  <2>2. Abandoned(js, rs, k) <=> Abandoned(js2, rs, k)
    BY <1>4, <2>1 DEF Abandoned
  <2>3. CASE js[k].status = "processing" /\ js[k].stale
    <3>1. /\ js2[k].status = "pending" /\ js2[k].stale = FALSE
          /\ js2[k].attempts = js[k].attempts /\ js2[k].ran = js[k].ran
      BY <1>4, <2>1, <2>3
    <3>2. js[k].attempts <= f
      BY <2>1, <2>3 DEF JobOk, Reclaimable
    <3>3. QED
      BY <2>1, <3>1, <3>2, Zenon DEF JobOk
  <2>4. CASE ~(js[k].status = "processing" /\ js[k].stale)
    <3>1. js2[k] = js[k] /\ (HasReply(js, k) => HasReply(js2, k))
      BY <1>4, <1>6, <2>1, <2>4
    <3>2. Reclaimable(js2, rs, k) => Reclaimable(js, rs, k)
      BY <3>1 DEF Reclaimable, Abandoned
    <3>3. QED
      BY <2>1, <3>1, <3>2, Zenon DEF JobOk
  <2>5. QED
    BY <2>3, <2>4
<1>8. ASSUME NEW r \in rs PROVE RunOk(js2, r)
  <2>1. RunOk(js, r) /\ r.job \in DOMAIN js
    BY DEF TableOk, RunOk
  <2>2. /\ r.job \in DOMAIN js2 /\ (HasReply(js, r.job) => HasReply(js2, r.job))
        /\ js2[r.job].queue = js[r.job].queue /\ js2[r.job].attempts = js[r.job].attempts
        /\ ~js[r.job].stale => js2[r.job] = js[r.job]
    BY <1>2, <1>4, <1>6, <2>1
  <2>3. QED
    BY <2>1, <2>2, Zenon DEF RunOk
<1>9. QED
  BY <1>1, <1>5, <1>7, <1>8 DEF TableOk

(* Claiming a job that waits, and starting its run.                        *)
LEMMA ClaimKeeps ==
  ASSUME NEW js, NEW rs, NEW f, TableOk(js, rs, f),
         NEW j \in DOMAIN js, js[j].status = "pending",
         NEW phase, \/ phase = "turn" /\ js[j].queue = "inbound"
                    \/ phase = "send" /\ js[j].queue = "outbound"
  PROVE  TableOk(Claimed(js, j), rs \cup {[job |-> j, attempt |-> js[j].attempts + 1, phase |-> phase]}, f)
<1> DEFINE x == RowClaimed(js[j], js[j].attempts + 1)
           r0 == [job |-> j, attempt |-> js[j].attempts + 1, phase |-> phase]
           js2 == Claimed(js, j)
           rs2 == rs \cup {r0}
<1>1. /\ js \in Seq(Job) /\ rs \subseteq Run /\ f \in Nat /\ js[j] \in Job
      /\ DOMAIN js = 1 .. Len(js) /\ Len(js) \in Nat
  BY JobsOfASequence DEF TableOk
<1>2. js[j].attempts \in Nat /\ j \in Nat
  BY <1>1 DEF Job
<1>3. js[j].attempts + 1 \in Nat /\ f <= f
  BY <1>1, <1>2
<1>4. /\ x \in Job /\ SameMessage(x, js[j]) /\ x.ran = js[j].ran /\ x.stale = js[j].stale
      /\ x.status = "processing" /\ x.attempts = js[j].attempts + 1
      /\ x.queue = js[j].queue /\ x.cause = js[j].cause
  BY <1>1, <1>3, ClaimRow DEF SameMessage
<1>5. js2 = [js EXCEPT ![j] = x]
  BY <1>1 DEF Claimed, Job, RowClaimed
<1> HIDE DEF x
<1>6. DOMAIN js2 = DOMAIN js /\ js2[j] = x
  BY <1>1, <1>5
<1>7. r0 \in Run /\ rs2 \in SUBSET Run
  BY <1>1, <1>2 DEF Run
<1>8. JobOk(js, rs, f, j) /\ js[j].attempts <= f /\ ~js[j].stale
  BY DEF TableOk, JobOk, Reclaimable
<1>9. ~Reclaimable(js2, rs2, j)
  <2>1. r0 \in rs2 /\ r0.job = j /\ r0.attempt = js2[j].attempts
    BY <1>4, <1>6
  <2>2. ~Abandoned(js2, rs2, j)
    BY <2>1 DEF Abandoned
  <2>3. js2[j].status = "processing" /\ ~js2[j].stale
    BY <1>4, <1>6, <1>8
  <2>4. QED
    BY <2>2, <2>3 DEF Reclaimable
<1>10. JobOk(js2, rs2, f, j)
  <2>1. x.ran \subseteq 1 .. x.attempts /\ x.attempts <= 1 + f
    BY <1>1, <1>2, <1>4, <1>8 DEF JobOk
  <2>2. QED
    BY <1>4, <1>6, <1>8, <1>9, <2>1 DEF JobOk
<1>11. ASSUME NEW r \in rs, r.job = j
       PROVE  /\ r.attempt \in 1 .. js[j].attempts /\ r.attempt # js[j].attempts + 1
              /\ RunOk(js2, r)
  <2>1. RunOk(js, r)
    BY DEF TableOk
  <2>2. r.attempt \in 1 .. js[j].attempts /\ "slow" \in Faults
    BY <1>11, <2>1 DEF RunOk
  <2>3. HasReply(js, j) => HasReply(js2, j)
    <3>1. \A k \in DOMAIN js : js2[k].queue = js[k].queue /\ js2[k].cause = js[k].cause
      BY <1>1, <1>4, <1>5
    <3>2. QED
      BY <1>6, <3>1 DEF HasReply
  <2>4. r.attempt \in 1 .. x.attempts
    BY <1>2, <1>4, <2>2
  <2> HIDE DEF js2
  <2>5. RunOk(js2, r)
    BY <1>4, <1>6, <1>11, <2>1, <2>2, <2>3, <2>4, Zenon DEF RunOk
  <2>6. QED
    BY <1>2, <2>2, <2>5
<1>12. RunOk(js2, r0)
  <2>1. r0.attempt \in 1 .. x.attempts
    BY <1>2, <1>4
  <2>2. r0.job = j /\ r0.attempt = x.attempts /\ r0.phase = phase
    BY <1>4
  <2> HIDE DEF js2, r0
  <2>3. QED
    BY <1>4, <1>6, <1>8, <2>1, <2>2 DEF RunOk
<1>13. \A r, s \in rs2 : r.job = j /\ s.job = j /\ r.attempt = s.attempt => r = s
  BY <1>11 DEF TableOk
<1>14. \A r \in rs2 : r.job = j => RunOk(js2, r)
  BY <1>11, <1>12
<1>15. (\A r \in rs : r.job # j => r \in rs2) /\ (\A r \in rs2 : r.job # j => r \in rs)
  OBVIOUS
<1> HIDE DEF js2, rs2
<1>16. QED
  <2>1. TableOk(js2, rs2, f)
    <3>1. OneChange(js, rs, f, js2, rs2, f, j, x)
      BY <1>1, <1>3, <1>4, <1>5, <1>7, <1>10, <1>13, <1>14, <1>15 DEF OneChange
    <3>2. QED
      BY <3>1, ChangeOne
  <2>2. QED
    BY <2>1 DEF js2, rs2

(* A run that goes on to its next phase.                                   *)
LEMMA MoveKeeps ==
  ASSUME NEW js, NEW rs, NEW f, TableOk(js, rs, f), NEW r \in rs,
         NEW phase \in {"turn", "acted", "send", "complete"},
         RunOk(js, [r EXCEPT !.phase = phase])
  PROVE  TableOk(js, (rs \ {r}) \cup {[r EXCEPT !.phase = phase]}, f)
<1> DEFINE r0 == [r EXCEPT !.phase = phase]
           rs2 == (rs \ {r}) \cup {r0}
<1>1. r \in Run /\ r0 \in Run /\ r0.job = r.job /\ r0.attempt = r.attempt
  BY DEF TableOk, Run
<1>2. \A j \in DOMAIN js : Abandoned(js, rs, j) <=> Abandoned(js, rs2, j)
  <2> HIDE DEF r0
  <2> QED BY <1>1 DEF Abandoned
<1>3. ASSUME NEW j \in DOMAIN js PROVE JobOk(js, rs2, f, j)
  BY <1>2 DEF TableOk, JobOk, Reclaimable
<1>4. \A q \in rs2 : RunOk(js, q)
  BY DEF TableOk
<1>5. \A q, s \in rs2 : q.job = s.job /\ q.attempt = s.attempt => q = s
  <2> HIDE DEF r0
  <2> QED BY <1>1 DEF TableOk
<1>6. QED
  BY <1>1, <1>3, <1>4, <1>5 DEF TableOk

(* A run whose turn or send takes effect.                                  *)
LEMMA RanKeeps ==
  ASSUME NEW js, NEW rs, NEW f, TableOk(js, rs, f), NEW r \in rs
  PROVE  /\ TableOk(Ran(js, r), rs, f)
         /\ DOMAIN Ran(js, r) = DOMAIN js /\ Ran(js, r)[r.job].queue = js[r.job].queue
         /\ Ran(js, r)[r.job].attempts = js[r.job].attempts
<1> DEFINE j == r.job
           x == RowRan(js[j], r.attempt)
           js2 == Ran(js, r)
<1>1. /\ js \in Seq(Job) /\ rs \in SUBSET Run /\ f \in Nat /\ f <= f
      /\ j \in DOMAIN js /\ js[j] \in Job /\ r.attempt \in Nat /\ r.attempt \in 1 .. js[j].attempts
  BY JobsOfASequence DEF TableOk, RunOk, Run
<1>2. /\ x \in Job /\ SameMessage(x, js[j]) /\ x.ran = js[j].ran \cup {r.attempt}
      /\ x.stale = js[j].stale /\ x.status = js[j].status /\ x.attempts = js[j].attempts
      /\ x.queue = js[j].queue /\ x.cause = js[j].cause
  BY <1>1, RanRow DEF SameMessage
<1>3. js2 = [js EXCEPT ![j] = x]
  BY <1>1 DEF Ran, RowRan, Job
<1> HIDE DEF x, js2
<1>4. DOMAIN js2 = DOMAIN js /\ js2[j] = x
  BY <1>1, <1>3
<1>5. JobOk(js, rs, f, j) /\ \A q \in rs : RunOk(js, q)
  BY <1>1 DEF TableOk
<1>6. HasReply(js, j) => HasReply(js2, j)
  <2>1. \A k \in DOMAIN js : js2[k].queue = js[k].queue /\ js2[k].cause = js[k].cause
    BY <1>1, <1>2, <1>3
  <2>2. QED
    BY <1>4, <2>1 DEF HasReply
<1>7. JobOk(js2, rs, f, j)
  <2>1. Reclaimable(js2, rs, j) => Reclaimable(js, rs, j)
    BY <1>2, <1>4 DEF Reclaimable, Abandoned
  <2>2. x.ran \subseteq 1 .. x.attempts
    BY <1>1, <1>2, <1>5 DEF JobOk
  <2>3. QED
    BY <1>2, <1>4, <1>5, <1>6, <2>1, <2>2, Zenon DEF JobOk
<1>8. ASSUME NEW q \in rs, q.job = j PROVE RunOk(js2, q)
  BY <1>2, <1>4, <1>5, <1>6, <1>8, Zenon DEF RunOk
<1>9. OneChange(js, rs, f, js2, rs, f, j, x)
  BY <1>1, <1>2, <1>3, <1>7, <1>8 DEF OneChange, TableOk
<1>10. QED
  <2>1. TableOk(js2, rs, f)
    BY <1>9, ChangeOne
  <2>2. QED
    BY <1>2, <1>4, <2>1 DEF js2

(* A run that ends and settles its job, or puts it back.                   *)
LEMMA EndKeeps ==
  ASSUME NEW js, NEW rs, NEW f, TableOk(js, rs, f), NEW r \in rs,
         NEW status \in {"pending", "done", "failed"}, NEW ripe \in BOOLEAN,
         NEW g \in Nat, f <= g, status = "pending" => g = f + 1,
         status = "done" /\ js[r.job].queue = "inbound" => HasReply(js, r.job),
         status = "failed" => js[r.job].attempts >= MaxAttempts
  PROVE  TableOk([js EXCEPT ![r.job] = RowSettled(js[r.job], status, ripe, FALSE)], rs \ {r}, g)
<1> DEFINE j == r.job
           x == RowSettled(js[j], status, ripe, FALSE)
           js2 == [js EXCEPT ![j] = x]
           rs2 == rs \ {r}
<1>1. /\ js \in Seq(Job) /\ rs2 \in SUBSET Run /\ f \in Nat /\ r \in Run
      /\ j \in DOMAIN js /\ js[j] \in Job /\ js[j].attempts \in Nat
  BY JobsOfASequence DEF TableOk, RunOk, Job
<1>2. /\ x \in Job /\ SameMessage(x, js[j]) /\ x.ran = js[j].ran /\ x.attempts = js[j].attempts
      /\ x.status = status /\ x.stale = FALSE /\ x.queue = js[j].queue /\ x.cause = js[j].cause
  <2>1. status \in {"pending", "processing", "done", "failed"}
    OBVIOUS
  <2>2. QED
    BY <1>1, <2>1 DEF Job, SameMessage, RowSettled
<1>3. js2 = [js EXCEPT ![j] = x]
  OBVIOUS
<1> HIDE DEF x, js2
<1>4. DOMAIN js2 = DOMAIN js /\ js2[j] = x
  BY <1>1, <1>3
<1>5. JobOk(js, rs, f, j) /\ \A q \in rs : RunOk(js, q)
  BY <1>1 DEF TableOk
<1>6. HasReply(js, j) => HasReply(js2, j)
  <2>1. \A k \in DOMAIN js : js2[k].queue = js[k].queue /\ js2[k].cause = js[k].cause
    BY <1>1, <1>2, <1>3
  <2>2. QED
    BY <1>4, <2>1 DEF HasReply
<1>7. JobOk(js2, rs2, g, j)
  <2>1. x.attempts <= 1 + g /\ (status = "pending" => x.attempts <= g)
    BY <1>1, <1>2, <1>5 DEF JobOk
  <2>2. Reclaimable(js2, rs2, j) => status = "pending"
    BY <1>2, <1>4 DEF Reclaimable
  <2>3. QED
    BY <1>2, <1>4, <1>5, <1>6, <2>1, <2>2, Zenon DEF JobOk
<1>8. ASSUME NEW q \in rs2, q.job = j PROVE RunOk(js2, q)
  <2>1. q \in rs /\ q # r /\ RunOk(js, q) /\ RunOk(js, r)
    BY <1>5
  <2>2. "slow" \in Faults
    BY <1>8, <2>1 DEF RunOk, TableOk
  <2>3. QED
    BY <1>2, <1>4, <1>6, <1>8, <2>1, <2>2, Zenon DEF RunOk
<1>9. OneChange(js, rs, f, js2, rs2, g, j, x)
  BY <1>1, <1>2, <1>3, <1>7, <1>8 DEF OneChange, TableOk
<1>10. QED
  <2>1. TableOk(js2, rs2, g)
    BY <1>9, ChangeOne
  <2>2. QED
    BY <2>1 DEF js2, x

(* Time that passes for a job: its retry falls due, or its lock expires.   *)
LEMMA AgeKeeps ==
  ASSUME NEW js, NEW rs, NEW f, TableOk(js, rs, f), NEW j \in DOMAIN js,
         NEW ripe \in BOOLEAN, NEW stale \in BOOLEAN, NEW g \in Nat, f <= g,
         stale => js[j].status = "processing" /\ js[j].attempts <= g,
         stale => js[j].stale \/ "slow" \in Faults \/ Abandoned(js, rs, j)
  PROVE  TableOk([js EXCEPT ![j] = RowSettled(js[j], js[j].status, ripe, stale)], rs, g)
<1> DEFINE x == RowSettled(js[j], js[j].status, ripe, stale)
           js2 == [js EXCEPT ![j] = x]
<1>1. /\ js \in Seq(Job) /\ rs \in SUBSET Run /\ f \in Nat
      /\ js[j] \in Job /\ js[j].attempts \in Nat
      /\ js[j].status \in {"pending", "processing", "done", "failed"}
  BY JobsOfASequence DEF TableOk, Job
<1>2. /\ x \in Job /\ SameMessage(x, js[j]) /\ x.ran = js[j].ran /\ x.attempts = js[j].attempts
      /\ x.status = js[j].status /\ x.stale = stale /\ x.queue = js[j].queue /\ x.cause = js[j].cause
  BY <1>1 DEF Job, SameMessage, RowSettled
<1>3. js2 = [js EXCEPT ![j] = x]
  OBVIOUS
<1> HIDE DEF x, js2
<1>4. DOMAIN js2 = DOMAIN js /\ js2[j] = x
  BY <1>1, <1>3
<1>5. JobOk(js, rs, f, j) /\ \A q \in rs : RunOk(js, q)
  BY <1>1 DEF TableOk
<1>6. HasReply(js, j) => HasReply(js2, j)
  <2>1. \A k \in DOMAIN js : js2[k].queue = js[k].queue /\ js2[k].cause = js[k].cause
    BY <1>1, <1>2, <1>3
  <2>2. QED
    BY <1>4, <2>1 DEF HasReply
<1>7. JobOk(js2, rs, g, j)
  <2>1. Reclaimable(js2, rs, j) => stale \/ Reclaimable(js, rs, j)
    BY <1>2, <1>4 DEF Reclaimable, Abandoned
  <2>2. x.attempts <= 1 + g /\ (Reclaimable(js2, rs, j) => x.attempts <= g)
    BY <1>1, <1>2, <1>5, <2>1 DEF JobOk
  <2>3. QED
    BY <1>2, <1>4, <1>5, <1>6, <2>2, Zenon DEF JobOk
<1>8. ASSUME NEW q \in rs, q.job = j PROVE RunOk(js2, q)
  <2>1. RunOk(js, q)
    BY <1>5
  <2>2. "slow" \notin Faults => ~stale
    BY <1>8, <2>1 DEF RunOk, Abandoned
  <2>3. QED
    BY <1>2, <1>4, <1>6, <1>8, <2>1, <2>2, Zenon DEF RunOk
<1>9. OneChange(js, rs, f, js2, rs, g, j, x)
  BY <1>1, <1>2, <1>3, <1>7, <1>8 DEF OneChange, TableOk
<1>10. QED
  <2>1. TableOk(js2, rs, g)
    BY <1>9, ChangeOne
  <2>2. QED
    BY <2>1 DEF js2, x

(* A crash, or a failure that touches neither the table nor a run.         *)
LEMMA FaultKeeps ==
  ASSUME NEW js, NEW rs, NEW f, TableOk(js, rs, f), NEW rs2, rs2 = rs \/ rs2 = {}
  PROVE  TableOk(js, rs2, f + 1)
<1>1. js \in Seq(Job) /\ f \in Nat /\ \A k \in DOMAIN js : js[k].attempts \in Nat
  BY JobsOfASequence DEF TableOk, Job
<1>2. ASSUME NEW k \in DOMAIN js PROVE JobOk(js, rs2, f + 1, k)
  <2>1. JobOk(js, rs, f, k)
    BY DEF TableOk
  <2>2. js[k].attempts <= f + 1 /\ js[k].attempts <= 1 + (f + 1)
    BY <1>1, <2>1 DEF JobOk
  <2>3. QED
    BY <2>1, <2>2, Zenon DEF JobOk
<1>3. rs2 \subseteq rs /\ f + 1 \in Nat
  BY <1>1
<1>4. QED
  BY <1>1, <1>2, <1>3 DEF TableOk
-----------------------------------------------------------------------------
(* One lemma per action.                                                   *)
LEMMA InitIInv == ASSUME Init PROVE IInv
<1>1. DOMAIN jobs = {} /\ jobs \in Seq(Job)
  BY EmptySeq DEF Init
<1>2. QED
  BY <1>1 DEF Init, IInv, TableOk

LEMMA ReceiveKeeps == ASSUME IInv, NEW m \in Messages, Receive(m) \/ ReceiveFails(m) PROVE IInv'
<1>1. acked' \subseteq Messages /\ sends' \in [Messages -> Nat]
  BY DEF IInv, Receive, ReceiveFails, Arrives
<1>2. CASE Receive(m)
  <2>1. TableOk(jobs, runs, faults) /\ TableOk(Enqueued(jobs, "inbound", m, 0), runs, faults)
    BY EnqueueKeeps DEF IInv
  <2>2. jobs' \in {jobs, Enqueued(jobs, "inbound", m, 0)} /\ runs' = runs /\ faults' = faults
    BY <1>2 DEF Receive
  <2>3. QED
    BY <1>1, <2>1, <2>2 DEF IInv
<1>3. CASE ReceiveFails(m)
  <2>1. (runs' = runs \/ runs' = {}) /\ faults' = faults + 1 /\ jobs' = jobs
    BY <1>3 DEF ReceiveFails, Fault
  <2>2. TableOk(jobs, runs', faults + 1)
    BY <2>1, FaultKeeps DEF IInv
  <2>3. QED
    BY <1>1, <2>1, <2>2 DEF IInv
<1>4. QED
  BY <1>2, <1>3

LEMMA StartKeeps ==
  ASSUME IInv, NEW js, TableOk(js, runs, faults), NEW queue, NEW phase,
         \/ phase = "turn" /\ queue = "inbound"
         \/ phase = "send" /\ queue = "outbound",
         NEW j \in Claimable(js, queue), Start(js, j, phase)
  PROVE  IInv'
<1>1. /\ j \in DOMAIN js /\ js[j].status = "pending"
      /\ \/ phase = "turn" /\ js[j].queue = "inbound"
         \/ phase = "send" /\ js[j].queue = "outbound"
  BY DEF Claimable
<1>2. TableOk(Claimed(js, j), runs \cup {[job |-> j, attempt |-> js[j].attempts + 1, phase |-> phase]}, faults)
  BY <1>1, ClaimKeeps
<1>3. QED
  BY <1>2 DEF Start, IInv

LEMMA TicksKeep == ASSUME IInv, InboundTick \/ OutboundTick PROVE IInv'
<1>1. TableOk(jobs, runs, faults) /\ TableOk(Requeued(jobs), runs, faults)
  BY RequeueKeeps DEF IInv
<1>2. CASE InboundTick
  <2>1. CASE \E j \in Claimable(Requeued(jobs), "inbound") : Start(Requeued(jobs), j, "turn")
    BY <1>1, <2>1, StartKeeps
  <2>2. CASE jobs' = Requeued(jobs) /\ UNCHANGED <<claimed, runs, sends, acked, faults>>
    BY <1>1, <2>2 DEF IInv
  <2>3. QED
    BY <1>2, <2>1, <2>2 DEF InboundTick
<1>3. CASE OutboundTick
  BY <1>1, <1>3, StartKeeps DEF OutboundTick
<1>4. QED
  BY <1>2, <1>3

(* A run acts, queues its reply, or sends.                                 *)
LEMMA GoesOnKeeps == ASSUME IInv, NEW r \in runs, Act(r) \/ Reply(r) \/ Send(r) PROVE IInv'
<1>1. /\ TableOk(jobs, runs, faults) /\ RunOk(jobs, r) /\ r \in Run
      /\ r.job \in DOMAIN jobs /\ jobs[r.job] \in Job
  BY JobsOfASequence DEF IInv, TableOk, RunOk
<1>2. ASSUME NEW js, TableOk(js, runs, faults), jobs' = js,
             NEW phase \in {"acted", "complete"}, Moves(r, phase),
             phase = "acted" => js[r.job].queue = "inbound",
             phase = "complete" /\ js[r.job].queue = "inbound" => HasReply(js, r.job),
             UNCHANGED <<claimed, sends, acked, faults>>
      PROVE  IInv'
  <2> DEFINE r0 == [r EXCEPT !.phase = phase]
  <2>1. r0.job = r.job /\ r0.attempt = r.attempt /\ r0.phase = phase
    BY <1>1 DEF Run
  <2>2. RunOk(js, r)
    BY <1>2 DEF TableOk
  <2>3. RunOk(js, r0)
    <3> HIDE DEF r0
    <3> QED BY <1>2, <2>1, <2>2 DEF RunOk
  <2>4. TableOk(js, (runs \ {r}) \cup {r0}, faults)
    BY <1>2, <2>3, MoveKeeps
  <2>5. QED
    BY <1>2, <2>4 DEF IInv, Moves
<1>3. TableOk(Ran(jobs, r), runs, faults) /\ Ran(jobs, r)[r.job].queue = jobs[r.job].queue
  BY <1>1, RanKeeps
<1>4. CASE Act(r)
  <2>1. jobs[r.job].queue = "inbound"
    BY <1>1, <1>4 DEF Act, RunOk
  <2>2. QED
    BY <1>2, <1>3, <1>4, <2>1 DEF Act
<1>5. CASE Send(r)
  <2>1. jobs[r.job].queue = "outbound"
    BY <1>1, <1>5 DEF Send, RunOk
  <2>2. QED
    BY <1>2, <1>3, <1>5, <2>1 DEF Send
<1>6. CASE Reply(r)
  <2> DEFINE js == Enqueued(jobs, "outbound", jobs[r.job].msg, r.job)
  <2>1. jobs[r.job].msg \in Messages /\ r.job \in Nat
    BY <1>1 DEF Job, Run
  <2>2. TableOk(js, runs, faults) /\ HasReply(js, r.job)
    BY <1>1, <2>1, EnqueueKeeps
  <2> HIDE DEF js
  <2>3. jobs' = js /\ Moves(r, "complete") /\ UNCHANGED <<claimed, sends, acked, faults>>
    BY <1>6 DEF Reply, js
  <2>4. QED
    BY <1>2, <2>2, <2>3
<1>7. QED
  BY <1>4, <1>5, <1>6

LEMMA FailedKeeps ==
  ASSUME NEW js, NEW rs, NEW f, TableOk(js, rs, f), NEW r \in rs
  PROVE  TableOk(Failed(js, r.job), rs \ {r}, f + 1)
<1> DEFINE status == IF js[r.job].attempts < MaxAttempts THEN "pending" ELSE "failed"
<1>1. r.job \in DOMAIN js /\ js[r.job] \in Job /\ js[r.job].attempts \in Nat /\ f \in Nat
  BY JobsOfASequence DEF TableOk, RunOk, Job
<1>2. /\ status \in {"pending", "done", "failed"} /\ status # "done"
      /\ status = "failed" => js[r.job].attempts >= MaxAttempts
  BY <1>1, DeliveryBounds
<1>3. f + 1 \in Nat /\ f <= f + 1 /\ FALSE \in BOOLEAN
  BY <1>1
<1>4. Failed(js, r.job) = [js EXCEPT ![r.job] = RowSettled(js[r.job], status, FALSE, FALSE)]
  BY <1>1 DEF Failed, RowSettled
<1> HIDE DEF status
<1>5. TableOk([js EXCEPT ![r.job] = RowSettled(js[r.job], status, FALSE, FALSE)], rs \ {r}, f + 1)
  BY <1>2, <1>3, EndKeeps
<1>6. QED
  BY <1>4, <1>5

LEMMA FailuresKeep == ASSUME IInv, NEW r \in runs, StepFails(r) PROVE IInv'
<1>1. TableOk(jobs, runs, faults) /\ TableOk(Ran(jobs, r), runs, faults)
  BY RanKeeps DEF IInv
<1>2. /\ runs' = runs \ {r} /\ faults' = faults + 1 /\ UNCHANGED <<claimed, sends, acked>>
      /\ jobs' = Failed(jobs, r.job) \/ jobs' = Failed(Ran(jobs, r), r.job)
  BY DEF StepFails, TurnFails, SendFails, CompleteFails, Fault, Ends
<1>3. TableOk(Failed(jobs, r.job), runs \ {r}, faults + 1) /\ TableOk(Failed(Ran(jobs, r), r.job), runs \ {r}, faults + 1)
  BY <1>1, FailedKeeps
<1>4. QED
  BY <1>2, <1>3 DEF IInv

LEMMA CompleteKeeps == ASSUME IInv, NEW r \in runs, Complete(r) PROVE IInv'
<1> DEFINE a == jobs[r.job]
<1>1. TableOk(jobs, runs, faults) /\ RunOk(jobs, r) /\ r.job \in DOMAIN jobs /\ a \in Job /\ faults \in Nat
  BY JobsOfASequence DEF IInv, TableOk, RunOk
<1>2. a.queue = "inbound" => HasReply(jobs, r.job)
  BY <1>1 DEF Complete, RunOk
<1>3. a.ripe \in BOOLEAN /\ faults <= faults
  BY <1>1 DEF Job
<1>4. Completed(jobs, r.job) = [jobs EXCEPT ![r.job] = RowSettled(a, "done", a.ripe, FALSE)]
  BY <1>1 DEF Completed, RowSettled, Job
<1>5. TableOk([jobs EXCEPT ![r.job] = RowSettled(a, "done", a.ripe, FALSE)], runs \ {r}, faults)
  BY <1>1, <1>2, <1>3, EndKeeps
<1>6. QED
  BY <1>4, <1>5 DEF IInv, Complete, Ends

LEMMA TimeKeeps == ASSUME IInv, NEW j \in DOMAIN jobs, Ripen(j) \/ Expire(j) PROVE IInv'
<1> DEFINE a == jobs[j]
<1>1. /\ TableOk(jobs, runs, faults) /\ JobOk(jobs, runs, faults, j) /\ a \in Job
      /\ a.attempts \in Nat /\ a.stale \in BOOLEAN /\ a.ripe \in BOOLEAN
      /\ faults \in Nat /\ faults <= faults
  <2>1. TableOk(jobs, runs, faults) /\ JobOk(jobs, runs, faults, j) /\ faults \in Nat /\ jobs \in Seq(Job)
    BY DEF IInv, TableOk
  <2>2. a \in Job
    BY <2>1, JobsOfASequence
  <2>3. a.attempts \in Nat /\ a.stale \in BOOLEAN /\ a.ripe \in BOOLEAN
    BY <2>2 DEF Job
  <2>4. QED
    BY <2>1, <2>2, <2>3
<1>2. CASE Ripen(j)
  <2>1. jobs' = [jobs EXCEPT ![j] = RowSettled(a, a.status, TRUE, a.stale)]
    BY <1>1, <1>2 DEF Ripen, RowSettled, Job
  <2>2. a.stale => a.status = "processing" /\ a.attempts <= faults
    BY <1>1 DEF JobOk, Reclaimable
  <2>3. TableOk([jobs EXCEPT ![j] = RowSettled(a, a.status, TRUE, a.stale)], runs, faults)
    BY <1>1, <2>2, AgeKeeps
  <2>4. QED
    BY <1>2, <2>1, <2>3 DEF IInv, Ripen
<1>3. CASE Expire(j)
  <2>1. jobs' = [jobs EXCEPT ![j] = RowSettled(a, a.status, a.ripe, TRUE)]
    BY <1>1, <1>3 DEF Expire, RowSettled, Job
  <2>2. /\ a.status = "processing" /\ faults' \in Nat /\ faults <= faults'
        /\ a.attempts <= faults' /\ ("slow" \in Faults \/ Abandoned(jobs, runs, j))
    <3>1. CASE Orphan(j)
      BY <1>1, <1>3, <3>1 DEF Expire, Orphan, JobOk, Reclaimable, Abandoned
    <3>2. CASE ~Orphan(j)
      BY <1>1, <1>3, <3>2 DEF Expire, JobOk, Fault
    <3>3. QED
      BY <3>1, <3>2
  <2>3. TableOk([jobs EXCEPT ![j] = RowSettled(a, a.status, a.ripe, TRUE)], runs, faults')
    BY <1>1, <2>2, AgeKeeps
  <2>4. QED
    BY <1>3, <2>1, <2>3 DEF IInv, Expire
<1>4. QED
  BY <1>2, <1>3

LEMMA NextKeeps == ASSUME IInv, [Next]_vars PROVE IInv'
<1>1. CASE \E m \in Messages : Receive(m) \/ ReceiveFails(m)
  BY <1>1, ReceiveKeeps
<1>2. CASE InboundTick \/ OutboundTick
  BY <1>2, TicksKeep
<1>3. CASE \E r \in runs : Step(r) \/ StepFails(r)
  BY <1>3, GoesOnKeeps, CompleteKeeps, FailuresKeep DEF Step
<1>4. CASE \E j \in DOMAIN jobs : Ripen(j) \/ Expire(j)
  BY <1>4, TimeKeeps
<1>5. CASE Crash
  BY <1>5, FaultKeeps DEF Crash, Fault, IInv
<1>6. CASE UNCHANGED vars
  BY <1>6 DEF vars, IInv
<1>7. QED
  BY <1>1, <1>2, <1>3, <1>4, <1>5, <1>6 DEF Next

LEMMA Invariant == Spec => []IInv
<1>1. Init => IInv
  BY InitIInv
<1>2. IInv /\ [Next]_vars => IInv'
  BY NextKeeps
<1>3. QED
  BY <1>1, <1>2, PTL DEF Spec

(* Every variable keeps its type, and every run belongs to a job.          *)
THEOREM DeliveryTypes == Spec => []DeliveryTypeOK
<1>1. IInv => DeliveryTypeOK
  BY DEF IInv, TableOk, RunOk, DeliveryTypeOK
<1>2. QED
  BY <1>1, Invariant, PTL

(* Whatever crashes or fails, and in whatever order overlapping runs end,  *)
(* an inbound job is done only once its reply is queued, and a job is      *)
(* given up only after MaxAttempts attempts.                               *)
THEOREM SettledJobs == Spec => []SettledForCause
<1>1. IInv => SettledForCause
  <2> SUFFICES ASSUME IInv, NEW j \in DOMAIN jobs
      PROVE  /\ Inbound(j) /\ jobs[j].status = "done" => Replies(j) # {}
             /\ jobs[j].status = "failed" => jobs[j].attempts >= MaxAttempts
    BY DEF SettledForCause
  <2>1. JobOk(jobs, runs, faults, j)
    BY DEF IInv, TableOk
  <2>2. QED
    BY <2>1 DEF JobOk, HasReply, Inbound, Replies
<1>2. QED
  BY <1>1, Invariant, PTL

(* No job is attempted more often than one time beyond the failures that   *)
(* happened, even with runs that outlive their lock.                       *)
THEOREM Retries == Spec => []RetriesAreFaults
<1>1. IInv => RetriesAreFaults
  BY DEF IInv, TableOk, JobOk, RetriesAreFaults
<1>2. QED
  BY <1>1, Invariant, PTL

(* As long as no run outlives its lock, a claim is exclusive: a run works  *)
(* on the latest attempt of a job that is processing.                      *)
THEOREM Exclusive == ASSUME "slow" \notin Faults PROVE Spec => []RunsExclusive
<1>1. IInv => RunsExclusive
  BY DEF IInv, TableOk, RunOk, RunsExclusive
<1>2. QED
  BY <1>1, Invariant, PTL
-----------------------------------------------------------------------------
(* The messages: an id is claimed when its message is queued, and claimed   *)
(* without a job only after a failure.                                     *)
MessageOk(m) ==
  /\ \A i, j \in Queued(m) : i = j
  /\ KeyOf[m] \notin claimed => Queued(m) = {} /\ m \notin acked
  /\ Queued(m) = {} /\ m \in acked => faults > 0
  /\ Queued(m) = {} /\ KeyOf[m] \in claimed => faults > 0

Ingested == \A m \in Messages : KeyOf[m] # NoKey => MessageOk(m)

(* No inbound job appears, and none becomes another message's.             *)
SameInbound(js, js2) ==
  /\ DOMAIN js \subseteq DOMAIN js2
  /\ \A j \in DOMAIN js : js2[j].queue = js[j].queue /\ js2[j].msg = js[j].msg
  /\ \A j \in DOMAIN js2 : j \in DOMAIN js \/ js2[j].queue = "outbound"

LEMMA ChangesKeepInbound ==
  ASSUME NEW js \in Seq(Job)
  PROVE  /\ SameInbound(js, js)
         /\ SameInbound(js, Requeued(js)) /\ DOMAIN Requeued(js) = DOMAIN js
         /\ \A j \in DOMAIN js : /\ SameInbound(js, Claimed(js, j))
                                 /\ SameInbound(js, Completed(js, j))
                                 /\ SameInbound(js, Failed(js, j))
<1>1. \A j \in DOMAIN js : js[j] \in Job
  BY JobsOfASequence
<1>2. SameInbound(js, Requeued(js)) /\ DOMAIN Requeued(js) = DOMAIN js
  BY <1>1 DEF SameInbound, Requeued, Job
<1>3. \A j \in DOMAIN js : SameInbound(js, Claimed(js, j))
  BY <1>1 DEF SameInbound, Claimed, Job
<1>4. \A j \in DOMAIN js : SameInbound(js, Completed(js, j))
  BY <1>1 DEF SameInbound, Completed, Job
<1>5. \A j \in DOMAIN js : SameInbound(js, Failed(js, j))
  BY <1>1 DEF SameInbound, Failed, Job
<1>6. QED
  BY <1>2, <1>3, <1>4, <1>5 DEF SameInbound

LEMMA QueuedSame ==
  ASSUME SameInbound(jobs, jobs'), NEW m \in Messages
  PROVE  Queued(m)' = Queued(m)
BY DEF SameInbound, Queued, Inbound

LEMMA QueuedMore ==
  ASSUME IInv, NEW m \in Messages, jobs' = Enqueued(jobs, "inbound", m, 0)
  PROVE  /\ Queued(m)' = Queued(m) \cup {Len(jobs) + 1}
         /\ \A n \in Messages : n # m => Queued(n)' = Queued(n)
<1> DEFINE x == [queue |-> "inbound", msg |-> m, cause |-> 0, status |-> "pending",
                 attempts |-> 0, ripe |-> TRUE, stale |-> FALSE, ran |-> {}]
<1>1. x \in Job /\ x.queue = "inbound" /\ x.msg = m
  BY DEF Job
<1>2. jobs' = Append(jobs, x)
  BY DEF Enqueued
<1>3. jobs \in Seq(Job) /\ DOMAIN jobs = 1 .. Len(jobs) /\ Len(jobs) \in Nat
  BY JobsOfASequence DEF IInv, TableOk
<1> HIDE DEF x
<1>4. /\ jobs' \in Seq(Job) /\ Len(jobs') = Len(jobs) + 1
      /\ \A k \in DOMAIN jobs : jobs'[k] = jobs[k]
      /\ jobs'[Len(jobs) + 1] = x
  BY <1>1, <1>2, <1>3, AppendProperties
<1>5. DOMAIN jobs' = DOMAIN jobs \cup {Len(jobs) + 1}
  <2>1. DOMAIN jobs' = 1 .. Len(jobs) + 1
    BY <1>4, JobsOfASequence
  <2>2. \A n \in Nat : 1 .. n + 1 = (1 .. n) \cup {n + 1}
    OBVIOUS
  <2>3. QED
    BY <1>3, <2>1, <2>2
<1>6. QED
  BY <1>1, <1>3, <1>4, <1>5 DEF Queued, Inbound

(* Every step but the arrival of a message.                                *)
LEMMA RestSame ==
  ASSUME IInv, [Next]_vars, ~\E m \in Messages : Receive(m) \/ ReceiveFails(m)
  PROVE  /\ SameInbound(jobs, jobs') /\ claimed' = claimed /\ acked' = acked
         /\ faults' \in Nat /\ faults <= faults'
<1>1. jobs \in Seq(Job) /\ faults \in Nat /\ \A j \in DOMAIN jobs : jobs[j] \in Job
  BY JobsOfASequence DEF IInv, TableOk
<1>2. \A r \in runs : r.job \in DOMAIN jobs
  BY DEF IInv, TableOk, RunOk
<1>3. ASSUME NEW js \in Seq(Job), SameInbound(jobs, js), NEW queue, NEW phase,
             NEW j \in Claimable(js, queue), Start(js, j, phase)
      PROVE  SameInbound(jobs, jobs') /\ claimed' = claimed /\ acked' = acked /\ faults' = faults
  <2>1. SameInbound(js, Claimed(js, j))
    BY <1>3, ChangesKeepInbound DEF Claimable
  <2>2. QED
    BY <1>3, <2>1 DEF SameInbound, Start
<1>4. CASE InboundTick
  <2>1. SameInbound(jobs, Requeued(jobs)) /\ TableOk(Requeued(jobs), runs, faults)
    BY <1>1, ChangesKeepInbound, RequeueKeeps DEF IInv
  <2>2. Requeued(jobs) \in Seq(Job)
    BY <2>1 DEF TableOk
  <2>3. CASE \E j \in Claimable(Requeued(jobs), "inbound") : Start(Requeued(jobs), j, "turn")
    BY <1>1, <1>3, <2>1, <2>2, <2>3
  <2>4. QED
    BY <1>1, <1>4, <2>1, <2>3 DEF InboundTick
<1>5. CASE OutboundTick
  BY <1>1, <1>3, <1>5, ChangesKeepInbound DEF OutboundTick
<1>6. ASSUME NEW r \in runs, Step(r) \/ StepFails(r)
      PROVE  /\ SameInbound(jobs, jobs') /\ claimed' = claimed /\ acked' = acked
             /\ faults' \in Nat /\ faults <= faults'
  <2>1. claimed' = claimed /\ acked' = acked /\ faults' \in {faults, faults + 1}
    BY <1>6 DEF Step, StepFails, Act, Reply, Send, Complete, TurnFails, SendFails, CompleteFails, Fault
  <2>2. SameInbound(jobs, Ran(jobs, r)) /\ Ran(jobs, r) \in Seq(Job) /\ r.job \in DOMAIN Ran(jobs, r)
    <3>1. TableOk(Ran(jobs, r), runs, faults)
      BY RanKeeps DEF IInv
    <3>2. SameInbound(jobs, Ran(jobs, r))
      BY <1>1, <1>2 DEF SameInbound, Ran, Job
    <3>3. QED
      BY <1>2, <3>1, <3>2 DEF TableOk, SameInbound
  <2>3. CASE Reply(r)
    <3>1. jobs[r.job].msg \in Messages /\ r.job \in Nat
      BY <1>1, <1>2, JobsOfASequence DEF Job
    <3> DEFINE x == [queue |-> "outbound", msg |-> jobs[r.job].msg, cause |-> r.job,
                     status |-> "pending", attempts |-> 0, ripe |-> TRUE, stale |-> FALSE,
                     ran |-> {}]
    <3>2. x \in Job /\ x.queue = "outbound"
      BY <3>1 DEF Job
    <3>3. jobs' = Append(jobs, x)
      BY <2>3 DEF Reply, Enqueued
    <3> HIDE DEF x
    <3>4. /\ jobs' \in Seq(Job) /\ Len(jobs') = Len(jobs) + 1
          /\ \A k \in 1 .. Len(jobs) : jobs'[k] = jobs[k]
          /\ jobs'[Len(jobs) + 1] = x
      BY <1>1, <3>2, <3>3, AppendProperties
    <3>5. /\ DOMAIN jobs = 1 .. Len(jobs) /\ DOMAIN jobs' = 1 .. Len(jobs) + 1
          /\ Len(jobs) \in Nat
      BY <1>1, <3>4, JobsOfASequence
    <3>6. SameInbound(jobs, jobs')
      BY <3>2, <3>4, <3>5 DEF SameInbound
    <3>7. QED
      BY <1>1, <2>1, <3>6
  <2>4. CASE ~Reply(r)
    <3>1. \/ jobs' = Ran(jobs, r) \/ jobs' = Failed(jobs, r.job)
          \/ jobs' = Failed(Ran(jobs, r), r.job) \/ jobs' = Completed(jobs, r.job)
      BY <1>6, <2>4 DEF Step, StepFails, Act, Send, Complete, TurnFails, SendFails, CompleteFails
    <3>2. SameInbound(Ran(jobs, r), Failed(Ran(jobs, r), r.job))
      BY <2>2, ChangesKeepInbound
    <3>3. SameInbound(jobs, Failed(Ran(jobs, r), r.job))
      BY <2>2, <3>2 DEF SameInbound
    <3>4. SameInbound(jobs, jobs')
      BY <1>1, <1>2, <2>2, <3>1, <3>3, ChangesKeepInbound
    <3>5. QED
      BY <1>1, <2>1, <3>4
  <2>5. QED
    BY <2>3, <2>4
<1>7. CASE \E j \in DOMAIN jobs : Ripen(j) \/ Expire(j)
  <2>1. PICK j \in DOMAIN jobs : Ripen(j) \/ Expire(j)
    BY <1>7
  <2>2. claimed' = claimed /\ acked' = acked /\ faults' \in {faults, faults + 1}
    BY <2>1 DEF Ripen, Expire, Fault
  <2>3. /\ DOMAIN jobs' = DOMAIN jobs
        /\ \A k \in DOMAIN jobs : jobs'[k].queue = jobs[k].queue /\ jobs'[k].msg = jobs[k].msg
    <3> DEFINE ripe == [jobs[j] EXCEPT !.ripe = TRUE]
               stale == [jobs[j] EXCEPT !.stale = TRUE]
    <3>1. /\ ripe.queue = jobs[j].queue /\ ripe.msg = jobs[j].msg
          /\ stale.queue = jobs[j].queue /\ stale.msg = jobs[j].msg
      BY <1>1 DEF Job
    <3>2. jobs' = [jobs EXCEPT ![j] = ripe] \/ jobs' = [jobs EXCEPT ![j] = stale]
      BY <2>1 DEF Ripen, Expire
    <3> HIDE DEF ripe, stale
    <3>3. QED
      BY <1>1, <3>1, <3>2
  <2>a. SameInbound(jobs, jobs')
    BY <2>3 DEF SameInbound
  <2>4. QED
    BY <1>1, <2>2, <2>a
<1>8. CASE Crash
  BY <1>1, <1>8 DEF Crash, Fault, SameInbound
<1>9. CASE UNCHANGED vars
  BY <1>1, <1>9 DEF vars, SameInbound
<1>10. QED
  BY <1>1, <1>4, <1>5, <1>6, <1>7, <1>8, <1>9 DEF Next

LEMMA IngestedKept == ASSUME IInv, Ingested, [Next]_vars PROVE Ingested'
<1>1. SUFFICES ASSUME NEW m \in Messages, KeyOf[m] # NoKey PROVE MessageOk(m)'
  BY DEF Ingested
<1>2. MessageOk(m) /\ faults \in Nat /\ DOMAIN jobs = 1 .. Len(jobs) /\ Len(jobs) \in Nat
  BY <1>1, JobsOfASequence DEF Ingested, IInv, TableOk
<1>3. CASE ~\E n \in Messages : Receive(n) \/ ReceiveFails(n)
  <2>1. /\ SameInbound(jobs, jobs') /\ claimed' = claimed /\ acked' = acked
        /\ faults' \in Nat /\ faults <= faults'
    BY <1>3, RestSame
  <2>2. Queued(m)' = Queued(m)
    BY <2>1, QueuedSame
  <2>3. QED
    BY <1>2, <2>1, <2>2 DEF MessageOk
<1>4. ASSUME NEW n \in Messages, Receive(n), KeyOf[n] \in claimed PROVE MessageOk(m)'
  <2>1. /\ jobs' = jobs /\ claimed' = claimed /\ acked' = acked \cup {n} /\ faults' = faults
    BY <1>4 DEF Receive
  <2>2. Queued(m)' = Queued(m)
    BY <2>1 DEF Queued, Inbound
  <2>3. QED
    BY <1>2, <1>4, <2>1, <2>2 DEF MessageOk
<1>5. ASSUME NEW n \in Messages, Receive(n), KeyOf[n] \notin claimed PROVE MessageOk(m)'
  <2>1. /\ jobs' = Enqueued(jobs, "inbound", n, 0) /\ acked' = acked \cup {n} /\ faults' = faults
        /\ claimed' = claimed \cup ({KeyOf[n]} \ {NoKey})
    BY <1>5 DEF Receive
  <2>2. /\ Queued(n)' = Queued(n) \cup {Len(jobs) + 1}
        /\ m # n => Queued(m)' = Queued(m)
    BY <2>1, QueuedMore
  <2>3. CASE m = n
    BY <1>1, <1>2, <1>5, <2>1, <2>2, <2>3 DEF MessageOk
  <2>4. CASE m # n
    <3>1. KeyOf[m] # KeyOf[n]
      BY <1>1, <2>4, DeliveryKeys
    <3>2. QED
      BY <1>2, <2>1, <2>2, <2>4, <3>1 DEF MessageOk
  <2>5. QED
    BY <2>3, <2>4
<1>6. ASSUME NEW n \in Messages, ReceiveFails(n) PROVE MessageOk(m)'
  <2>1. jobs' = jobs /\ acked' = acked /\ faults' = faults + 1 /\ claimed' = claimed \cup {KeyOf[n]}
    BY <1>6 DEF ReceiveFails, Fault
  <2>2. Queued(m)' = Queued(m)
    BY <2>1 DEF Queued, Inbound
  <2>3. faults' > 0
    BY <1>2, <2>1
  <2>4. QED
    BY <1>2, <2>1, <2>2, <2>3 DEF MessageOk
<1>7. QED
  BY <1>3, <1>4, <1>5, <1>6

LEMMA Claims == Spec => []Ingested
<1>1. Init => Ingested
  BY DEF Init, Ingested, MessageOk, Queued
<1>2. Ingested /\ IInv /\ [Next]_vars => Ingested'
  BY IngestedKept
<1>3. QED
  BY <1>1, <1>2, Invariant, PTL DEF Spec

(* A message that carries an id is queued once, however often the channel  *)
(* redelivers it; until something fails, it is queued when it has been     *)
(* acknowledged (the claims of inbound_dedup, whatsapp.ts and              *)
(* sdk-bridge.ts).                                                         *)
THEOREM Deduplicated == Spec => []QueuedOnce
<1>1. Ingested => QueuedOnce
  <2>1. SUFFICES ASSUME Ingested, NEW m \in Messages, KeyOf[m] # NoKey
                 PROVE  /\ Cardinality(Queued(m)) <= 1
                        /\ m \in acked /\ Queued(m) = {} => faults > 0
    BY DEF QueuedOnce
  <2>2. MessageOk(m)
    BY <2>1 DEF Ingested
  <2>3. CASE Queued(m) = {}
    BY <2>2, <2>3, FS_EmptySet DEF MessageOk
  <2>4. CASE Queued(m) # {}
    <3>1. PICK j \in Queued(m) : TRUE
      BY <2>4
    <3>2. Queued(m) = {j}
      BY <2>2, <3>1 DEF MessageOk
    <3>3. Cardinality(Queued(m)) = 1
      BY <3>2, FS_Singleton
    <3>4. QED
      BY <2>4, <3>3
  <2>5. QED
    BY <2>3, <2>4
<1>2. QED
  BY <1>1, Claims, PTL
-----------------------------------------------------------------------------
(* The mailbox that jobs and runs implement.  What a table of jobs looks   *)
(* like from outside, and how the updates of a row change that.            *)
Box(js) == [j \in DOMAIN js |-> EntryOf(js[j])]

IsOpen(job) == job.status \in {"pending", "processing"}

LEMMA OpenEntry ==
  ASSUME NEW a \in Job
  PROVE  EntryOf(a).state = "open" <=> IsOpen(a)
BY DEF EntryOf, IsOpen, Job

LEMMA OpenRowChanges ==
  ASSUME NEW a \in Job, IsOpen(a), NEW n \in Nat,
         NEW status \in {"pending", "processing"}, NEW ripe, NEW stale
  PROVE  /\ EntryOf(RowClaimed(a, n)) = EntryOf(a)
         /\ EntryOf(RowSettled(a, status, ripe, stale)) = EntryOf(a)
BY DEF EntryOf, IsOpen, Job, RowClaimed, RowSettled

Made(queue, msg, cause, acted, state) ==
  [queue |-> queue, msg |-> msg, cause |-> cause, acted |-> acted, state |-> state]

LEMMA SettledRow ==
  ASSUME NEW a \in Job, NEW status \in {"done", "failed"}, NEW ripe, NEW stale
  PROVE  EntryOf(RowSettled(a, status, ripe, stale)) = [EntryOf(a) EXCEPT !.state = status]
<1> DEFINE x == RowSettled(a, status, ripe, stale)
<1>1. SameMessage(x, a) /\ x.status = status /\ x.ran = a.ran
  BY DEF Job, RowSettled, SameMessage
<1> HIDE DEF x
<1>2. PICK state : EntryOf(a) = Made(a.queue, a.msg, a.cause, a.ran # {}, state)
  BY Zenon DEF EntryOf, Made
<1>3. EntryOf(x) = Made(a.queue, a.msg, a.cause, a.ran # {}, status)
  <2>1. EntryOf(x) = Made(x.queue, x.msg, x.cause, x.ran # {},
                          IF x.status \in {"done", "failed"} THEN x.status ELSE "open")
    BY Zenon DEF EntryOf, Made
  <2>2. (IF x.status \in {"done", "failed"} THEN x.status ELSE "open") = status
    BY <1>1
  <2>3. QED
    BY <1>1, <2>1, <2>2, Zenon DEF SameMessage
<1> DEFINE acted == a.ran # {}
<1>4. [EntryOf(a) EXCEPT !.state = status] = Made(a.queue, a.msg, a.cause, acted, status)
  <2> HIDE DEF acted
  <2>1. EntryOf(a) = Made(a.queue, a.msg, a.cause, acted, state)
    BY <1>2, Zenon DEF acted
  <2>2. QED
    BY <2>1 DEF Made
<1>5. QED
  BY <1>3, <1>4, Zenon DEF x

LEMMA RanEntry ==
  ASSUME NEW a \in Job, NEW n \in Nat
  PROVE  EntryOf(RowRan(a, n)) = [EntryOf(a) EXCEPT !.acted = TRUE]
<1> DEFINE x == RowRan(a, n)
           state == IF a.status \in {"done", "failed"} THEN a.status ELSE "open"
<1>1. x.ran # {} /\ x.status = a.status /\ SameMessage(x, a)
  BY RanRow
<1> HIDE DEF x
<1>2. EntryOf(a) = Made(a.queue, a.msg, a.cause, a.ran # {}, state)
  BY Zenon DEF EntryOf, Made
<1>3. EntryOf(x) = Made(a.queue, a.msg, a.cause, TRUE, state)
  <2>1. EntryOf(x) = Made(x.queue, x.msg, x.cause, x.ran # {}, state)
    BY <1>1, Zenon DEF EntryOf, Made
  <2>2. (x.ran # {}) = TRUE
    BY <1>1, Zenon
  <2>3. QED
    BY <1>1, <2>1, <2>2, Zenon DEF SameMessage
<1> DEFINE acted == a.ran # {}
<1>4. [EntryOf(a) EXCEPT !.acted = TRUE] = Made(a.queue, a.msg, a.cause, TRUE, state)
  <2> HIDE DEF acted, state
  <2>1. EntryOf(a) = Made(a.queue, a.msg, a.cause, acted, state)
    BY <1>2, Zenon DEF acted
  <2>2. \A v : [EntryOf(a) EXCEPT !.acted = v] = Made(a.queue, a.msg, a.cause, v, state)
    BY <2>1 DEF Made
  <2>3. QED
    BY <2>2, Zenon
<1>5. QED
  BY <1>3, <1>4, Zenon DEF x

LEMMA BoxAppend ==
  ASSUME NEW js \in Seq(Job), NEW x \in Job
  PROVE  Box(Append(js, x)) = Append(Box(js), EntryOf(x))
<1>1. DOMAIN js = 1 .. Len(js) /\ Len(js) \in Nat
  BY JobsOfASequence
<1>2. /\ DOMAIN Append(js, x) = 1 .. Len(js) + 1 /\ Append(js, x)[Len(js) + 1] = x
      /\ \A k \in 1 .. Len(js) : Append(js, x)[k] = js[k]
  BY <1>1, AppendProperties, JobsOfASequence
<1> DEFINE Entries == {EntryOf(y) : y \in Job}
<1>3. Box(js) \in Seq(Entries) /\ Len(Box(js)) = Len(js)
  <2>1. Box(js) = [k \in 1 .. Len(js) |-> EntryOf(js[k])]
    BY <1>1 DEF Box
  <2>2. \A k \in 1 .. Len(js) : EntryOf(js[k]) \in Entries
    BY <1>1, JobsOfASequence
  <2> HIDE DEF Entries
  <2>3. QED
    BY <1>1, <2>1, <2>2
<1>4. EntryOf(x) \in Entries
  OBVIOUS
<1> HIDE DEF Entries
<1>5. /\ Append(Box(js), EntryOf(x)) \in Seq(Entries)
      /\ Len(Append(Box(js), EntryOf(x))) = Len(js) + 1
      /\ Append(Box(js), EntryOf(x))[Len(js) + 1] = EntryOf(x)
      /\ \A k \in 1 .. Len(js) : Append(Box(js), EntryOf(x))[k] = Box(js)[k]
  BY <1>3, <1>4, AppendProperties
<1>6. Append(Box(js), EntryOf(x)) = [k \in 1 .. Len(js) + 1 |-> Append(Box(js), EntryOf(x))[k]]
  BY <1>1, <1>5, LenProperties
<1>7. Box(Append(js, x)) = [k \in 1 .. Len(js) + 1 |-> EntryOf(Append(js, x)[k])]
  BY <1>2 DEF Box
<1>8. ASSUME NEW k \in 1 .. Len(js) + 1
      PROVE  EntryOf(Append(js, x)[k]) = Append(Box(js), EntryOf(x))[k]
  <2>1. CASE k = Len(js) + 1
    BY <1>2, <1>5, <2>1
  <2>2. CASE k # Len(js) + 1
    <3>1. k \in 1 .. Len(js)
      BY <1>1, <2>2
    <3>2. QED
      BY <1>1, <1>2, <1>5, <3>1 DEF Box
  <2>3. QED
    BY <2>1, <2>2
<1>9. QED
  BY <1>6, <1>7, <1>8

(* What a run needs besides: once it has acted, its entry shows it.        *)
Acted == \A r \in runs : r.phase \in {"acted", "complete"} => mailed[r.job].acted

LEMMA BoxRequeued == ASSUME NEW js \in Seq(Job) PROVE Box(Requeued(js)) = Box(js)
<1>1. DOMAIN Requeued(js) = DOMAIN js
  BY DEF Requeued
<1>2. ASSUME NEW j \in DOMAIN js PROVE EntryOf(Requeued(js)[j]) = EntryOf(js[j])
  <2>1. js[j] \in Job
    BY JobsOfASequence
  <2>2. Requeued(js)[j] = js[j] \/ (js[j].status = "processing"
          /\ Requeued(js)[j] = [js[j] EXCEPT !.status = "pending", !.stale = FALSE])
    BY DEF Requeued
  <2>3. QED
    BY <2>1, <2>2 DEF EntryOf, Job
<1>3. QED
  BY <1>1, <1>2 DEF Box

LEMMA MailedBox == mailed = Box(jobs) /\ mailed' = Box(jobs')
BY DEF mailed, Box

(* The facts of a state that the steps below use.                          *)
LEMMA Tables ==
  ASSUME IInv
  PROVE  /\ jobs \in Seq(Job) /\ \A j \in DOMAIN jobs : jobs[j] \in Job /\ mailed[j] = EntryOf(jobs[j])
         /\ DOMAIN mailed = DOMAIN jobs /\ DOMAIN jobs \subseteq Nat
         /\ \A r \in runs : r \in Run /\ r.job \in DOMAIN jobs /\ RunOk(jobs, r)
<1>1. jobs \in Seq(Job) /\ \A r \in runs : r \in Run /\ RunOk(jobs, r)
  BY DEF IInv, TableOk
<1>2. DOMAIN jobs \subseteq Nat /\ \A j \in DOMAIN jobs : jobs[j] \in Job
  BY <1>1, JobsOfASequence
<1>3. DOMAIN mailed = DOMAIN jobs /\ \A j \in DOMAIN jobs : mailed[j] = EntryOf(jobs[j])
  BY DEF mailed
<1>4. QED
  BY <1>1, <1>2, <1>3 DEF RunOk

LEMMA ActedKept ==
  ASSUME IInv, Acted,
         \A j \in DOMAIN jobs : mailed[j].acted => mailed'[j].acted,
         \A s \in runs' : s.phase \in {"acted", "complete"} =>
           \/ \E r \in runs : r.job = s.job /\ r.phase \in {"acted", "complete"}
           \/ mailed'[s.job].acted
  PROVE  Acted'
<1> SUFFICES ASSUME NEW s \in runs', s.phase \in {"acted", "complete"}
             PROVE  mailed'[s.job].acted
  BY DEF Acted
<1>1. ASSUME NEW r \in runs, r.job = s.job, r.phase \in {"acted", "complete"}
      PROVE  mailed'[s.job].acted
  BY <1>1, Tables, Zenon DEF Acted
<1>2. QED
  BY <1>1, Zenon

(* Sweeps and claims are not seen from outside.                            *)
LEMMA ClaimUnseen ==
  ASSUME NEW js \in Seq(Job), NEW queue, NEW k \in Claimable(js, queue)
  PROVE  Box(Claimed(js, k)) = Box(js)
<1>1. k \in DOMAIN js /\ js[k] \in Job /\ js[k].status = "pending"
  BY JobsOfASequence DEF Claimable
<1>2. js[k].attempts + 1 \in Nat
  BY <1>1 DEF Job
<1> DEFINE x == RowClaimed(js[k], js[k].attempts + 1)
<1>3. Claimed(js, k) = [js EXCEPT ![k] = x]
  BY <1>1 DEF Claimed, RowClaimed, Job
<1>4. EntryOf(x) = EntryOf(js[k])
  BY <1>1, <1>2, OpenRowChanges DEF IsOpen
<1> HIDE DEF x
<1>5. QED
  BY <1>1, <1>3, <1>4 DEF Box

LEMMA TicksUnseen ==
  ASSUME IInv, Acted, InboundTick \/ OutboundTick
  PROVE  mailed' = mailed /\ Acted'
<1> DEFINE js == Requeued(jobs)
<1>1. jobs \in Seq(Job) /\ js \in Seq(Job) /\ Box(js) = Box(jobs)
  BY RequeueKeeps, BoxRequeued DEF IInv, TableOk
<1> HIDE DEF js
<1>2. \/ \E k \in Claimable(js, "inbound") : Start(js, k, "turn")
      \/ jobs' = js /\ UNCHANGED runs
      \/ \E k \in Claimable(jobs, "outbound") : Start(jobs, k, "send")
  BY DEF InboundTick, OutboundTick, js
<1>3. Box(jobs') = Box(jobs)
  BY <1>1, <1>2, ClaimUnseen DEF Start
<1>4. \A s \in runs' : s \in runs \/ s.phase \in {"turn", "send"}
  BY <1>2 DEF Start
<1>5. mailed' = mailed
  BY <1>3, MailedBox
<1>6. QED
  BY <1>4, <1>5, ActedKept

(* A failure is an entry given up, or not seen.                            *)
LEMMA FailSeen ==
  ASSUME NEW js \in Seq(Job), NEW j \in DOMAIN js, IsOpen(js[j])
  PROVE  Box(Failed(js, j)) \in {Box(js), [Box(js) EXCEPT ![j].state = "failed"]}
<1> DEFINE status == IF js[j].attempts < MaxAttempts THEN "pending" ELSE "failed"
           x == RowSettled(js[j], status, FALSE, FALSE)
<1>1. js[j] \in Job
  BY JobsOfASequence
<1>2. Failed(js, j) = [js EXCEPT ![j] = x]
  BY <1>1 DEF Failed, RowSettled
<1>3. status \in {"pending", "failed"}
  OBVIOUS
<1> HIDE DEF status, x
<1>4. CASE status = "pending"
  <2>1. \A ripe, stale : EntryOf(RowSettled(js[j], status, ripe, stale)) = EntryOf(js[j])
    BY <1>1, <1>4, OpenRowChanges
  <2>2. EntryOf(x) = EntryOf(js[j])
    BY <2>1, Zenon DEF x
  <2>3. QED
    BY <1>2, <2>2 DEF Box
<1>5. CASE status = "failed"
  <2>1. \A ripe, stale :
          EntryOf(RowSettled(js[j], status, ripe, stale)) = [EntryOf(js[j]) EXCEPT !.state = "failed"]
    BY <1>1, <1>5, SettledRow
  <2>2. EntryOf(x) = [EntryOf(js[j]) EXCEPT !.state = "failed"]
    BY <2>1, Zenon DEF x
  <2>3. QED
    BY <1>2, <2>2 DEF Box
<1>6. QED
  BY <1>3, <1>4, <1>5

LEMMA RanSeen ==
  ASSUME NEW js \in Seq(Job), NEW r \in Run, r.job \in DOMAIN js
  PROVE  /\ Box(Ran(js, r)) = [Box(js) EXCEPT ![r.job].acted = TRUE]
         /\ Ran(js, r) \in Seq(Job) /\ DOMAIN Ran(js, r) = DOMAIN js
         /\ Ran(js, r)[r.job].status = js[r.job].status
<1> DEFINE j == r.job
           x == RowRan(js[j], r.attempt)
<1>1. js[j] \in Job /\ r.attempt \in Nat /\ j \in 1 .. Len(js)
  BY JobsOfASequence DEF Run
<1>2. Ran(js, r) = [js EXCEPT ![j] = x]
  BY <1>1 DEF Ran, RowRan, Job
<1>3. x \in Job /\ x.status = js[j].status /\ EntryOf(x) = [EntryOf(js[j]) EXCEPT !.acted = TRUE]
  BY <1>1, RanRow, RanEntry
<1> HIDE DEF x
<1>4. Box(Ran(js, r)) = [Box(js) EXCEPT ![j].acted = TRUE]
  BY <1>2, <1>3 DEF Box
<1>5. Ran(js, r) \in Seq(Job) /\ Ran(js, r)[j] = x
  BY <1>1, <1>2, <1>3, ExceptSeq
<1>6. QED
  BY <1>2, <1>3, <1>4, <1>5 DEF Box

(* A run works on an open entry.                                           *)
LEMMA RunsOnOpen ==
  ASSUME "slow" \notin Faults, IInv, NEW r \in runs
  PROVE  /\ r.job \in DOMAIN mailed /\ IsOpen(jobs[r.job]) /\ Mail!Open(r.job)
         /\ mailed[r.job].queue = jobs[r.job].queue /\ mailed[r.job].msg = jobs[r.job].msg
<1>1. /\ r.job \in DOMAIN jobs /\ jobs[r.job] \in Job /\ mailed[r.job] = EntryOf(jobs[r.job])
      /\ DOMAIN mailed = DOMAIN jobs /\ IsOpen(jobs[r.job])
  BY Tables DEF RunOk, IsOpen
<1>2. mailed[r.job].state = "open"
  BY <1>1, OpenEntry
<1>3. QED
  BY <1>1, <1>2 DEF Mail!Open, EntryOf

(* The turn takes effect, or the message gets through.                     *)
LEMMA ActImplements ==
  ASSUME "slow" \notin Faults, IInv, Acted, NEW r \in runs, Act(r) \/ Send(r)
  PROVE  Mail!Next /\ Acted'
<1>1. r \in Run /\ r.job \in DOMAIN jobs /\ jobs \in Seq(Job) /\ DOMAIN mailed = DOMAIN jobs
  BY Tables
<1>2. PICK phase \in {"acted", "complete"} : jobs' = Ran(jobs, r) /\ Moves(r, phase)
  BY DEF Act, Send
<1>3. mailed' = [mailed EXCEPT ![r.job].acted = TRUE]
  BY <1>1, <1>2, RanSeen, MailedBox
<1>4. Mail!Act(r.job)
  BY <1>3, RunsOnOpen DEF Mail!Act
<1>5. mailed'[r.job].acted
  <2>1. mailed[r.job] = EntryOf(jobs[r.job])
    BY <1>1, Tables
  <2>2. mailed'[r.job] = [mailed[r.job] EXCEPT !.acted = TRUE]
    BY <1>1, <1>3
  <2>3. QED
    BY <2>1, <2>2 DEF EntryOf
<1>6. \A j \in DOMAIN jobs : mailed[j].acted => mailed'[j].acted
  BY <1>1, <1>3, <1>5
<1>7. \A s \in runs' : s \in runs \/ s.job = r.job
  BY <1>1, <1>2 DEF Moves, Run
<1>8. Acted'
  BY <1>5, <1>6, <1>7, ActedKept
<1>9. QED
  BY <1>1, <1>4, <1>8 DEF Mail!Next

LEMMA ReplyImplements ==
  ASSUME "slow" \notin Faults, IInv, Acted, NEW r \in runs, Reply(r)
  PROVE  Mail!Next /\ Acted'
<1>1. /\ r \in Run /\ r.job \in DOMAIN jobs /\ jobs \in Seq(Job) /\ jobs[r.job] \in Job
      /\ DOMAIN mailed = DOMAIN jobs /\ r.job \in Nat /\ jobs[r.job].queue = "inbound"
  BY Tables DEF RunOk, Reply
<1> DEFINE x == [queue |-> "outbound", msg |-> jobs[r.job].msg, cause |-> r.job, status |-> "pending",
                 attempts |-> 0, ripe |-> TRUE, stale |-> FALSE, ran |-> {}]
<1>2. x \in Job
  BY <1>1 DEF Job
<1>3. EntryOf(x) = Mail!Entry("outbound", mailed[r.job].msg, r.job)
  BY RunsOnOpen DEF EntryOf, Mail!Entry
<1>4. jobs' = Append(jobs, x)
  BY DEF Reply, Enqueued
<1> HIDE DEF x
<1>5. mailed' = Append(mailed, Mail!Entry("outbound", mailed[r.job].msg, r.job))
  BY <1>1, <1>2, <1>3, <1>4, BoxAppend, MailedBox
<1>6. mailed[r.job].acted
  BY DEF Acted, Reply
<1>7. Mail!Reply(r.job)
  BY <1>1, <1>5, <1>6, RunsOnOpen DEF Mail!Reply
<1>8. \A j \in DOMAIN jobs : mailed'[j] = mailed[j]
  <2>1. \A j \in DOMAIN jobs : j \in DOMAIN jobs' /\ jobs'[j] = jobs[j]
    BY <1>1, <1>2, <1>4, AppendProperties, JobsOfASequence
  <2>2. QED
    BY <2>1 DEF mailed
<1>9. \A s \in runs' : s \in runs \/ s.job = r.job
  BY <1>1 DEF Reply, Moves, Run
<1>10. Acted'
  BY <1>1, <1>6, <1>8, <1>9, ActedKept
<1>11. QED
  BY <1>1, <1>7, <1>10 DEF Mail!Next

LEMMA CompleteImplements ==
  ASSUME "slow" \notin Faults, IInv, Acted, NEW r \in runs, Complete(r)
  PROVE  Mail!Next /\ Acted'
<1> DEFINE a == jobs[r.job]
           x == RowSettled(a, "done", a.ripe, FALSE)
<1>1. /\ r.job \in DOMAIN jobs /\ a \in Job /\ DOMAIN mailed = DOMAIN jobs
      /\ \A j \in DOMAIN jobs : mailed[j] = EntryOf(jobs[j])
  BY Tables
<1>2. jobs' = [jobs EXCEPT ![r.job] = x]
  BY <1>1 DEF Complete, Completed, RowSettled, Job
<1>3. EntryOf(x) = [EntryOf(a) EXCEPT !.state = "done"]
  <2>1. \A ripe, stale : EntryOf(RowSettled(a, "done", ripe, stale)) = [EntryOf(a) EXCEPT !.state = "done"]
    BY <1>1, SettledRow
  <2>2. QED
    BY <2>1, Zenon
<1> HIDE DEF x
<1>4. mailed' = [mailed EXCEPT ![r.job].state = "done"]
  BY <1>1, <1>2, <1>3, MailedBox DEF Box
<1>5. mailed[r.job].acted
  BY DEF Acted, Complete
<1>6. mailed[r.job].queue = "inbound" =>
        \E k \in DOMAIN mailed : mailed[k].queue = "outbound" /\ mailed[k].cause = r.job
  <2>1. a.queue = "inbound" => HasReply(jobs, r.job)
    BY Tables DEF Complete, RunOk
  <2>2. \A k \in DOMAIN jobs : mailed[k].queue = jobs[k].queue /\ mailed[k].cause = jobs[k].cause
    BY <1>1 DEF EntryOf
  <2>3. QED
    BY <1>1, <2>1, <2>2 DEF HasReply
<1>7. Mail!Done(r.job)
  BY <1>4, <1>5, <1>6, RunsOnOpen DEF Mail!Done
<1>8. \A j \in DOMAIN jobs : mailed[j].acted => mailed'[j].acted
  <2>1. \A j \in DOMAIN jobs : mailed'[j] = mailed[j] \/ mailed'[j] = [mailed[j] EXCEPT !.state = "done"]
    BY <1>1, <1>4
  <2>2. \A j \in DOMAIN jobs : [mailed[j] EXCEPT !.state = "done"].acted = mailed[j].acted
    BY <1>1 DEF EntryOf
  <2>3. QED
    BY <2>1, <2>2, Zenon
<1>9. Acted'
  BY <1>8, ActedKept DEF Complete, Ends
<1>10. QED
  BY <1>1, <1>7, <1>9 DEF Mail!Next

LEMMA FailuresImplement ==
  ASSUME "slow" \notin Faults, IInv, Acted, NEW r \in runs, StepFails(r)
  PROVE  (Mail!Next \/ mailed' = mailed) /\ Acted'
<1>1. /\ r \in Run /\ r.job \in DOMAIN jobs /\ jobs \in Seq(Job) /\ DOMAIN mailed = DOMAIN jobs
      /\ \A j \in DOMAIN jobs : mailed[j] = EntryOf(jobs[j])
  BY Tables
<1>2. /\ jobs' = Failed(jobs, r.job) \/ jobs' = Failed(Ran(jobs, r), r.job)
      /\ runs' \subseteq runs
  BY DEF StepFails, TurnFails, SendFails, CompleteFails, Ends
<1>3. /\ Box(Ran(jobs, r)) = [mailed EXCEPT ![r.job].acted = TRUE]
      /\ Ran(jobs, r) \in Seq(Job) /\ r.job \in DOMAIN Ran(jobs, r) /\ IsOpen(Ran(jobs, r)[r.job])
  BY <1>1, RanSeen, RunsOnOpen, MailedBox DEF IsOpen
<1>4. /\ IsOpen(jobs[r.job]) /\ Mail!Open(r.job)
  BY RunsOnOpen
<1>5. \/ mailed' = mailed
      \/ mailed' = [mailed EXCEPT ![r.job].state = "failed"]
      \/ mailed' = [mailed EXCEPT ![r.job].acted = TRUE]
      \/ mailed' = [[mailed EXCEPT ![r.job].acted = TRUE] EXCEPT ![r.job].state = "failed"]
  <2>1. Box(Failed(jobs, r.job)) \in {mailed, [mailed EXCEPT ![r.job].state = "failed"]}
    BY <1>1, <1>4, FailSeen, MailedBox
  <2> DEFINE ran == Ran(jobs, r)
             box == [mailed EXCEPT ![r.job].acted = TRUE]
  <2>2. ran \in Seq(Job) /\ r.job \in DOMAIN ran /\ IsOpen(ran[r.job]) /\ Box(ran) = box
    BY <1>3
  <2>3. jobs' = Failed(jobs, r.job) \/ jobs' = Failed(ran, r.job)
    BY <1>2
  <2> HIDE DEF ran, box
  <2>4. Box(Failed(ran, r.job)) \in {box, [box EXCEPT ![r.job].state = "failed"]}
    BY <2>2, FailSeen
  <2>5. mailed' \in {mailed, [mailed EXCEPT ![r.job].state = "failed"],
                     box, [box EXCEPT ![r.job].state = "failed"]}
    BY <2>1, <2>3, <2>4, MailedBox
  <2>6. QED
    BY <2>5 DEF box
<1> DEFINE m == mailed[r.job]
<1>6. \E acted \in {m.acted, TRUE} :
        \/ mailed' = mailed
        \/ mailed' = [mailed EXCEPT ![r.job].acted = TRUE]
        \/ mailed' = [mailed EXCEPT ![r.job].acted = acted, ![r.job].state = "failed"]
  <2>1. CASE mailed' = [mailed EXCEPT ![r.job].state = "failed"]
    <3>1. m = [m EXCEPT !.acted = m.acted]
      BY <1>1 DEF EntryOf
    <3>2. [mailed EXCEPT ![r.job].acted = m.acted] = mailed
      BY <1>1, <3>1 DEF mailed
    <3>3. mailed' = [[mailed EXCEPT ![r.job].acted = m.acted] EXCEPT ![r.job].state = "failed"]
      BY <2>1, <3>2, Zenon
    <3>4. QED
      BY <3>3
  <2>2. QED
    BY <1>5, <2>1
<1>7. Mail!Act(r.job) \/ Mail!GiveUp(r.job) \/ mailed' = mailed
  BY <1>4, <1>6 DEF Mail!Act, Mail!GiveUp
<1>8. \A j \in DOMAIN jobs : mailed[j].acted => mailed'[j].acted
  <2>1. /\ [m EXCEPT !.state = "failed"].acted = m.acted /\ [m EXCEPT !.acted = TRUE].acted
        /\ [[m EXCEPT !.acted = TRUE] EXCEPT !.state = "failed"].acted
    BY <1>1 DEF EntryOf
  <2>2. mailed'[r.job] \in {m, [m EXCEPT !.state = "failed"], [m EXCEPT !.acted = TRUE],
                            [[m EXCEPT !.acted = TRUE] EXCEPT !.state = "failed"]}
    BY <1>1, <1>5
  <2>3. m.acted => mailed'[r.job].acted
    BY <2>1, <2>2, Zenon
  <2>4. \A j \in DOMAIN jobs : j # r.job => mailed'[j] = mailed[j]
    BY <1>1, <1>5
  <2>5. QED
    BY <2>3, <2>4
<1>9. Acted'
  BY <1>2, <1>8, ActedKept
<1>10. QED
  BY <1>1, <1>7, <1>9 DEF Mail!Next

(* A message that is queued is a new entry; one with an id has none yet,   *)
(* as its id was not claimed.                                              *)
LEMMA ReceiveImplements ==
  ASSUME IInv, Acted, Ingested, NEW m \in Messages, Receive(m) \/ ReceiveFails(m)
  PROVE  (Mail!Next \/ mailed' = mailed) /\ Acted'
<1>1. /\ jobs \in Seq(Job) /\ DOMAIN mailed = DOMAIN jobs /\ \A r \in runs : r.job \in DOMAIN jobs
      /\ \A j \in DOMAIN jobs : mailed[j] = EntryOf(jobs[j])
  BY Tables
<1>2. runs' \subseteq runs
  BY DEF Receive, ReceiveFails
<1>3. CASE jobs' = jobs
  <2>1. mailed' = mailed
    BY <1>3 DEF mailed
  <2>2. Acted'
    BY <1>2, <2>1, ActedKept
  <2>3. QED
    BY <2>1, <2>2
<1>4. CASE KeyOf[m] \notin claimed /\ jobs' = Enqueued(jobs, "inbound", m, 0)
  <2> DEFINE x == [queue |-> "inbound", msg |-> m, cause |-> 0, status |-> "pending",
                   attempts |-> 0, ripe |-> TRUE, stale |-> FALSE, ran |-> {}]
  <2>1. x \in Job /\ EntryOf(x) = Mail!Entry("inbound", m, 0)
    BY DEF Job, EntryOf, Mail!Entry
  <2>2. jobs' = Append(jobs, x)
    BY <1>4 DEF Enqueued
  <2> HIDE DEF x
  <2>3. mailed' = Append(mailed, Mail!Entry("inbound", m, 0))
    BY <1>1, <2>1, <2>2, BoxAppend, MailedBox
  <2>4. m \in Keyed => \A j \in DOMAIN mailed : ~(mailed[j].queue = "inbound" /\ mailed[j].msg = m)
    <3>1. m \in Keyed => Queued(m) = {}
      BY <1>4 DEF Keyed, Ingested, MessageOk
    <3>2. \A j \in DOMAIN jobs : mailed[j].queue = jobs[j].queue /\ mailed[j].msg = jobs[j].msg
      BY <1>1 DEF EntryOf
    <3>3. QED
      BY <1>1, <3>1, <3>2 DEF Queued, Inbound
  <2>5. Mail!Accept(m)
    BY <2>3, <2>4 DEF Mail!Accept
  <2>6. \A j \in DOMAIN jobs : mailed'[j] = mailed[j]
    <3>1. \A j \in DOMAIN jobs : j \in DOMAIN jobs' /\ jobs'[j] = jobs[j]
      BY <1>1, <2>1, <2>2, AppendProperties, JobsOfASequence
    <3>2. QED
      BY <3>1 DEF mailed
  <2>7. Acted'
    BY <1>2, <2>6, ActedKept
  <2>8. QED
    BY <2>5, <2>7 DEF Mail!Next
<1>5. QED
  BY <1>3, <1>4 DEF Receive, ReceiveFails

(* What only time or a crash does is not seen from outside.                *)
LEMMA TimeUnseen ==
  ASSUME IInv, Acted, (\E j \in DOMAIN jobs : Ripen(j) \/ Expire(j)) \/ Crash \/ UNCHANGED vars
  PROVE  mailed' = mailed /\ Acted'
<1>1. \A j \in DOMAIN jobs : jobs[j] \in Job
  BY Tables
<1>2. ASSUME NEW j \in DOMAIN jobs, Ripen(j) \/ Expire(j) PROVE mailed' = mailed
  <2> DEFINE ripe == [jobs[j] EXCEPT !.ripe = TRUE]
             stale == [jobs[j] EXCEPT !.stale = TRUE]
  <2>1. EntryOf(ripe) = EntryOf(jobs[j]) /\ EntryOf(stale) = EntryOf(jobs[j])
    BY <1>1 DEF Job, EntryOf
  <2>2. jobs' = [jobs EXCEPT ![j] = ripe] \/ jobs' = [jobs EXCEPT ![j] = stale]
    BY <1>2 DEF Ripen, Expire
  <2> HIDE DEF ripe, stale
  <2>3. Box(jobs') = Box(jobs)
    BY <2>1, <2>2 DEF Box
  <2>4. QED
    BY <2>3, MailedBox
<1>3. Crash \/ UNCHANGED vars => mailed' = mailed
  BY DEF Crash, vars, mailed
<1>4. mailed' = mailed /\ runs' \subseteq runs
  BY <1>2, <1>3 DEF Ripen, Expire, Crash, vars
<1>5. QED
  BY <1>4, ActedKept

(* As long as no run outlives its lock, the queue and its workers are a    *)
(* mailbox: every step, a retry and a crash among them, accepts a message, *)
(* has its turn take effect, replies to it or settles it, or is not seen.  *)
THEOREM MailboxKept == ASSUME "slow" \notin Faults PROVE Spec => RefinesMailbox
<1>1. Init => Mail!Init /\ Acted
  BY DEF Init, Mail!Init, mailed, Acted
<1>2. ASSUME IInv, Ingested, Acted, [Next]_vars PROVE (Mail!Next \/ mailed' = mailed) /\ Acted'
  <2>1. CASE \E m \in Messages : Receive(m) \/ ReceiveFails(m)
    BY <1>2, <2>1, ReceiveImplements
  <2>2. CASE InboundTick \/ OutboundTick
    BY <1>2, <2>2, TicksUnseen
  <2>3. CASE \E r \in runs : Step(r) \/ StepFails(r)
    BY <1>2, <2>3, ActImplements, ReplyImplements, CompleteImplements, FailuresImplement DEF Step
  <2>4. CASE (\E j \in DOMAIN jobs : Ripen(j) \/ Expire(j)) \/ Crash \/ UNCHANGED vars
    BY <1>2, <2>4, TimeUnseen
  <2>5. QED
    BY <1>2, <2>1, <2>2, <2>3, <2>4 DEF Next
<1>3. IInv /\ Ingested /\ Acted /\ [Next]_vars => [Mail!Next]_mailed /\ Acted'
  BY <1>2
<1>4. QED
  BY <1>1, <1>3, Invariant, Claims, PTL DEF Spec, RefinesMailbox, Mail!Spec
=============================================================================

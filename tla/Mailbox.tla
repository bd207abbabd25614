------------------------------ MODULE Mailbox ------------------------------
(***************************************************************************)
(* What the job queue and its workers promise, without attempts, locks,    *)
(* runs or crashes: a list of what was accepted and of the replies to it,  *)
(* to which the workers add, and in which each entry is settled once.      *)
(* Delivery.tla is the implementation; it is shown to refine this module.  *)
(***************************************************************************)
EXTENDS Sequences

CONSTANTS
  Messages, \* the messages users write
  Once      \* those that carry an id

VARIABLE mail \* in order of creation; an entry's number never changes

(* acted: its turn has taken effect at least once, or its send has got     *)
(* through.  cause: of a reply, the entry it replies to.                   *)
Entry(queue, m, cause) ==
  [queue |-> queue, msg |-> m, cause |-> cause, acted |-> FALSE, state |-> "open"]

Open(j) == mail[j].state = "open"

(* A message with an id is accepted once.                                  *)
Accept(m) ==
  /\ m \in Once => \A j \in DOMAIN mail : ~(mail[j].queue = "inbound" /\ mail[j].msg = m)
  /\ mail' = Append(mail, Entry("inbound", m, 0))

Act(j) == Open(j) /\ mail' = [mail EXCEPT ![j].acted = TRUE]

(* Only an entry that is being worked on is replied to, after its turn; it *)
(* may be replied to again if the first reply was not recorded.            *)
Reply(j) ==
  /\ Open(j) /\ mail[j].queue = "inbound" /\ mail[j].acted
  /\ mail' = Append(mail, Entry("outbound", mail[j].msg, j))

(* A message is done when it has a reply, a reply when it was sent.        *)
Done(j) ==
  /\ Open(j) /\ mail[j].acted
  /\ mail[j].queue = "inbound" =>
       \E k \in DOMAIN mail : mail[k].queue = "outbound" /\ mail[k].cause = j
  /\ mail' = [mail EXCEPT ![j].state = "done"]

(* What is given up may have got through without an answer.                *)
GiveUp(j) ==
  /\ Open(j)
  /\ \E acted \in {mail[j].acted, TRUE} :
       mail' = [mail EXCEPT ![j].acted = acted, ![j].state = "failed"]

Init == mail = <<>>

Next ==
  \/ \E m \in Messages : Accept(m)
  \/ \E j \in DOMAIN mail : Act(j) \/ Reply(j) \/ Done(j) \/ GiveUp(j)

Spec == Init /\ [][Next]_mail
=============================================================================

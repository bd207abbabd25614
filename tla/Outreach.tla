------------------------------ MODULE Outreach ------------------------------
(***************************************************************************)
(* What the server starts by itself.  Requests to send a customer a         *)
(* proactive message pass the guards (opt-in, key, daily cap) and queue a   *)
(* job; the reflection daemon looks at closed sessions and may send a       *)
(* follow-up on the same path.  The customer's metadata, where the opt-in   *)
(* is kept with the lifecycle stage and the progress of flows, is read,     *)
(* changed and written back by requests of its own.                        *)
(*                                                                         *)
(* Abstractions.  One customer.  Requests for unknown customers or          *)
(* addresses change nothing and are left out, as are the rows of blocked    *)
(* messages, which nothing reads.  The delivery of the queued job is        *)
(* module Delivery.  Reflections are counted; the insight in them is a row  *)
(* of the memory table.                                                    *)
(***************************************************************************)
EXTENDS Integers, Sequences, FiniteSets, SequencesExt

CONSTANTS
  Writers, Requests, Cycles, \* requests that change the metadata or send a message;
                \* cycles of the daemon
  Populations,  \* sets of them that may be at work together
  Sessions,     \* sessions of the customer
  Keys,         \* deduplication keys of the requests
  NoKey,
  Stages, Flows, \* lifecycle stages and guided flows
  Cap,          \* messages per customer and day
  MaxPerCycle,  \* sessions per cycle
  MinMessages,  \* messages of a session that is worth a reflection
  MaxSends, MaxWrites, MaxFaults \* bounds

Nowhere == "none"
Senders == Requests \cup Cycles
AllKeys == Keys \cup Sessions   \* the key of a follow-up is its session

ASSUME OutreachConstants ==
  /\ Populations \subseteq SUBSET (Writers \cup Requests \cup Cycles)
  /\ Requests \cap Cycles = {}
  /\ NoKey \notin AllKeys /\ Keys \cap Sessions = {} /\ Nowhere \notin Stages
  /\ \A together \in Populations : IsFiniteSet(together)
  /\ {Cap, MaxPerCycle, MinMessages} \subseteq Nat \ {0} /\ {MaxSends, MaxWrites, MaxFaults} \subseteq Nat

VARIABLES
  active,      \* the processes at work
  row,         \* the customer's metadata
  writes,      \* per writer: the metadata it has computed from the row it read
  written,     \* writes begun
  sends,       \* per sender: its phase and its key
  begun,       \* requests begun
  queued,      \* history: jobs queued under a key
  sentKeys,    \* keys in the rows of messages sent
  today,       \* rows of messages sent in the last 24 hours
  queuedToday, \* history: jobs queued in that time
  closed,      \* sessions closed, in their order
  messages,    \* per session: messages stored, up to those that count
  reflections, \* per session: rows
  todo,        \* per cycle: sessions it has still to look at
  running,     \* per cycle: it has not ended
  faults

writing == <<row, writes, written>>
sending == <<sends, begun, queued, sentKeys, today, queuedToday>>
reflecting == <<closed, messages, reflections, todo, running>>
vars == <<active, writing, sending, reflecting, faults>>
-----------------------------------------------------------------------------
(* Changes of the metadata.                                                *)
(* Of a flow's progress, the stages its parts were made in; Nowhere is no   *)
(* stage, {} no progress.                                                  *)
Idle == [optIn |-> FALSE, stage |-> Nowhere, flows |-> [f \in Flows |-> {}], busy |-> FALSE]

(* Mutant: the progress of the flows survives a change of the stage.       *)
MutantWithStage(old, stage) == [old EXCEPT !.stage = stage]

(* A new stage starts its flows afresh; the first stage does not.          *)
WithStage(old, stage) ==
  [old EXCEPT !.stage = stage,
              !.flows = IF old.stage \notin {Nowhere, stage} THEN Idle.flows ELSE @]

(* Progress of any flow, of whatever stage that flow is; the steps          *)
(* completed so far are replaced, or kept when the caller names none.       *)
WithProgress(old, f, kept) == [old EXCEPT !.flows[f] = kept \cup {old.stage}]

OptIns == {[row EXCEPT !.optIn = yes] : yes \in BOOLEAN}
Progresses == UNION {{WithProgress(row, f, kept) : kept \in {{}, row.flows[f]}} : f \in Flows}

Changes == OptIns \cup Progresses \cup {WithStage(row, stage) : stage \in Stages}

ReadRow(w) ==
  /\ w \in active /\ ~writes[w].busy /\ written < MaxWrites /\ written' = written + 1
  /\ \E new \in Changes : writes' = [writes EXCEPT ![w] = [new EXCEPT !.busy = TRUE]]
  /\ UNCHANGED <<active, row, sending, reflecting, faults>>

WriteRow(w) ==
  /\ writes[w].busy
  /\ row' = [writes[w] EXCEPT !.busy = FALSE] /\ writes' = [writes EXCEPT ![w] = Idle]
  /\ UNCHANGED <<active, written, sending, reflecting, faults>>
-----------------------------------------------------------------------------
(* Sending a message.                                                      *)
Quiet == [phase |-> "idle", key |-> NoKey]
At(p, phase) == sends[p].phase = phase
Moves(p, phase) == sends' = [sends EXCEPT ![p] = IF phase = "idle" THEN Quiet ELSE [@ EXCEPT !.phase = phase]]

Request(p, key) ==
  /\ p \in active /\ At(p, "idle") /\ begun < MaxSends /\ begun' = begun + 1
  /\ sends' = [sends EXCEPT ![p] = [phase |-> "opted", key |-> key]]
  /\ UNCHANGED <<active, writing, queued, sentKeys, today, queuedToday, reflecting, faults>>

OptedIn(p) ==
  /\ At(p, "opted") /\ Moves(p, IF row.optIn THEN "guard" ELSE "idle")
  /\ UNCHANGED <<active, writing, begun, queued, sentKeys, today, queuedToday, reflecting, faults>>

(* Mutant: one message more.                                               *)
MutantWithinCap == today <= Cap
WithinCap == today < Cap

(* The key's row is looked for, then the rows of the day are counted.       *)
KeyCheck(p) ==
  /\ At(p, "guard") /\ Moves(p, IF sends[p].key \in sentKeys THEN "idle" ELSE "cap")
  /\ UNCHANGED <<active, writing, begun, queued, sentKeys, today, queuedToday, reflecting, faults>>

(* A message may also be outside WhatsApp's 24-hour window.                *)
CapCheck(p) ==
  /\ At(p, "cap")
  /\ \/ WithinCap /\ Moves(p, "queue")
     \/ Moves(p, "idle")
  /\ UNCHANGED <<active, writing, begun, queued, sentKeys, today, queuedToday, reflecting, faults>>

Enqueue(p) ==
  /\ At(p, "queue") /\ Moves(p, "record") /\ queuedToday' = queuedToday + 1
  /\ queued' = [k \in AllKeys |-> IF k = sends[p].key THEN queued[k] + 1 ELSE queued[k]]
  /\ UNCHANGED <<active, writing, begun, sentKeys, today, reflecting, faults>>

(* The row of a message that was sent; one of a blocked message counts for  *)
(* nothing.                                                                *)
Recorded(p) ==
  today' = today + 1 /\ sentKeys' = sentKeys \cup ({sends[p].key} \ {NoKey})

Record(p) ==
  /\ At(p, "record") /\ Moves(p, "idle") /\ Recorded(p)
  /\ UNCHANGED <<active, writing, begun, queued, queuedToday, reflecting, faults>>

(* A message is 24 hours old.                                              *)
DayPasses ==
  /\ today > 0 /\ today' = today - 1 /\ queuedToday' = queuedToday - 1
  /\ UNCHANGED <<active, writing, sends, begun, queued, sentKeys, reflecting, faults>>
-----------------------------------------------------------------------------
(* The daemon.                                                             *)
StoreMessage(s) ==
  /\ active \cap Cycles /= {} /\ messages[s] < MinMessages
  /\ messages' = [messages EXCEPT ![s] = @ + 1]
  /\ UNCHANGED <<active, writing, sending, closed, reflections, todo, running, faults>>

Close(s) ==
  /\ active \cap Cycles /= {} /\ s \notin ToSet(closed) /\ closed' = Append(closed, s)
  /\ UNCHANGED <<active, writing, sending, messages, reflections, todo, running, faults>>

(* Closed sessions of some length without a row, and the oldest of them.   *)
Worthwhile(s) == s \in ToSet(closed) /\ messages[s] >= MinMessages
Unreflected == {s \in Sessions : Worthwhile(s) /\ reflections[s] = 0}
Before(s, t) == \E m, n \in DOMAIN closed : m < n /\ closed[m] = s /\ closed[n] = t
Batch == {s \in Unreflected : Cardinality({t \in Unreflected : Before(t, s)}) < MaxPerCycle}

(* Mutant: a cycle starts beside another.                                  *)
MutantMayStart(c) == ~running[c]

(* Cycles do not overlap.                                                  *)
MayStart(c) == \A d \in Cycles : ~running[d]

Tick(c) ==
  /\ c \in active /\ MayStart(c) /\ Unreflected /= {}
  /\ running' = [running EXCEPT ![c] = TRUE] /\ todo' = [todo EXCEPT ![c] = Batch]
  /\ UNCHANGED <<active, writing, sending, closed, messages, reflections, faults>>

OnSession(c, s) ==
  /\ running[c] /\ At(c, "idle") /\ s \in todo[c] /\ \A t \in todo[c] : ~Before(t, s)
  /\ todo' = [todo EXCEPT ![c] = @ \ {s}]

(* Whatever the model answers is a verdict, with a follow-up or without.    *)
Verdicts == {"settled", "unresolved"}

FollowUp(c, s) == sends' = [sends EXCEPT ![c] = [phase |-> "opted", key |-> s]]

(* The verdict is stored; it may call for a follow-up (unless storing the   *)
(* insight fails).                                                         *)
Reflect(c, s) ==
  /\ OnSession(c, s) /\ reflections' = [reflections EXCEPT ![s] = @ + 1]
  /\ \E verdict \in Verdicts :
       IF verdict = "unresolved" THEN FollowUp(c, s) \/ UNCHANGED sends ELSE UNCHANGED sends
  /\ UNCHANGED <<active, writing, begun, queued, sentKeys, today, queuedToday, closed, messages, running, faults>>

(* The model fails: the session is left for a later cycle.                  *)
ReflectFails(c, s) ==
  /\ OnSession(c, s)
  /\ UNCHANGED <<active, writing, sending, closed, messages, reflections, running, faults>>

(* Mutant: a cycle ends only when its last session got a reflection.        *)
MutantMayEnd(c) == todo[c] = {} /\ Unreflected = {}
MayEnd(c) == todo[c] = {}

CycleEnds(c) ==
  /\ running[c] /\ MayEnd(c) /\ At(c, "idle")
  /\ running' = [running EXCEPT ![c] = FALSE]
  /\ UNCHANGED <<active, writing, sending, closed, messages, reflections, todo, faults>>
-----------------------------------------------------------------------------
Crash ==
  /\ faults < MaxFaults /\ faults' = faults + 1
  /\ writes' = [w \in Writers |-> Idle] /\ sends' = [p \in Senders |-> Quiet]
  /\ todo' = [c \in Cycles |-> {}] /\ running' = [c \in Cycles |-> FALSE]
  /\ UNCHANGED <<active, row, written, begun, queued, sentKeys, today, queuedToday, closed, messages, reflections>>

Init ==
  /\ active \in Populations
  /\ \E yes \in BOOLEAN : row = [Idle EXCEPT !.optIn = yes]
  /\ writes = [w \in Writers |-> Idle] /\ written = 0
  /\ sends = [p \in Senders |-> Quiet] /\ begun = 0
  /\ queued = [k \in AllKeys |-> 0] /\ sentKeys = {} /\ today = 0 /\ queuedToday = 0
  /\ closed = <<>> /\ messages = [s \in Sessions |-> 0] /\ reflections = [s \in Sessions |-> 0]
  /\ todo = [c \in Cycles |-> {}] /\ running = [c \in Cycles |-> FALSE] /\ faults = 0

SendStep(p) == OptedIn(p) \/ KeyCheck(p) \/ CapCheck(p) \/ Enqueue(p) \/ Record(p)

Next ==
  \/ \E w \in Writers : ReadRow(w) \/ WriteRow(w)
  \/ \E p \in Requests, key \in Keys \cup {NoKey} : Request(p, key)
  \/ \E p \in Senders : SendStep(p)
  \/ \E s \in Sessions : StoreMessage(s) \/ Close(s)
  \/ \E c \in Cycles :
       \/ Tick(c) \/ CycleEnds(c)
       \/ \E s \in Sessions : Reflect(c, s) \/ ReflectFails(c, s)
  \/ DayPasses \/ Crash

Spec == Init /\ [][Next]_vars

(* The timer goes on firing, cycles go on, and the model does not fail on   *)
(* one session for ever.                                                   *)
FairSpec ==
  /\ Spec
  /\ WF_vars(\E c \in Cycles : Tick(c)) /\ WF_vars(\E c \in Cycles : SendStep(c))
  /\ WF_vars(\E c \in Cycles : CycleEnds(c) \/ \E s \in Sessions : ReflectFails(c, s))
  /\ \A s \in Sessions : SF_vars(\E c \in Cycles : Reflect(c, s))
-----------------------------------------------------------------------------
(* "It reflects each session once", and sends one follow-up per session,    *)
(* ever, though a crash may come between the steps of either.              *)
OncePerSession == \A s \in Sessions : reflections[s] <= 1 /\ queued[s] <= 1

(* The cap of a day is exceeded by at most one message for every further    *)
(* sender, which read the rows before the others' were there, and by those  *)
(* whose job was queued and whose row was not yet there at a crash, one of  *)
(* every sender.                                                           *)
Together == Cardinality(active \cap Requests) + (IF active \cap Cycles = {} THEN 0 ELSE 1)
CapKept == queuedToday <= Cap + (Together - 1) + Together * faults

(* No progress made in another stage survives a change of the stage         *)
(* ("Reset guided flow progress when the lifecycle stage changes"), whatever *)
(* updates of the metadata overwrite each other.  Progress made before the  *)
(* first stage goes into that stage.                                       *)
FlowFitsStage == \A f \in Flows : row.flows[f] \subseteq {Nowhere, row.stage}

(* Every closed session with the messages that count is reflected on in the *)
(* end, however cycles overlap, fail or die.                               *)
EveryReflected == \A s \in Sessions : Worthwhile(s) ~> reflections[s] > 0
=============================================================================

--------------------------- MODULE HarnessProofs ---------------------------
(***************************************************************************)
(* Proofs about Harness: side effects go out one at a time, after a yes    *)
(* where one is needed and at most once, and a question has its plan       *)
(* parked behind it.                                                       *)
(***************************************************************************)
EXTENDS Harness, WellFoundedInduction, TLAPS

TurnFields == {"phase", "message", "stage", "offered", "plan", "ledger", "approved", "recoils",
               "calls", "wave", "todo", "flying", "outcome"}
ReplyFields == {"kind", "at", "approve", "latest", "asks"}
IsTurn(t) == t = [f \in TurnFields |-> t[f]]
IsReply(r) == r = [f \in ReplyFields |-> r[f]]

(* What a turn has in hand before its first wave, and between two of them. *)
NothingUnderWay == turn.todo = {} /\ turn.flying = {} /\ turn.outcome = Going

Shape ==
  /\ IsTurn(turn) /\ turn.phase \in Phases /\ IsReply(reply)
  /\ DOMAIN turn.plan \subseteq Nat \ {0}
  /\ turn.todo \cup turn.flying \subseteq DOMAIN turn.plan

(* Calls are in flight only in the two phases of a wave: reads together,   *)
(* a write alone.                                                          *)
CallsInOrder ==
  /\ turn.phase \in {"idle", "get", "resume", "clear", "plan", "replan", "wave"} => NothingUnderWay
  /\ turn.phase \in {"finish", "insert", "tell"} => turn.flying = {}
  /\ turn.phase = "reads" => \A k \in turn.flying : IsRead(k)
  /\ turn.phase = "writes" => \A k \in turn.flying : turn.flying = {k}

(* A message was written by someone who had not yet been shown the latest   *)
(* question, or to whom nothing has been said since.                       *)
Informed(m) == m.latest = questions => m.asked = questions

(* While a plan waits for consent nothing else is said, so whatever message *)
(* approves it is such a one.                                              *)
Consent ==
  /\ questions \in Nat /\ reply.latest \in 0 .. questions
  /\ \A m \in inbox \cup {turn.message} : m.latest \in 0 .. reply.latest
  /\ parked /= NoRow /\ parked.reason = "ask" =>
       /\ reply.latest = questions => reply.approve = questions
       /\ \A m \in inbox \cup {turn.message} : Informed(m)
  /\ turn.approved /= 0 => turn.message.word = "yes" /\ Informed(turn.message)
  /\ ConfirmedOnly

(* A step that was started is in the ledger, here or in the parked row, or *)
(* with the back end; what is still to do was not started.                 *)
Executing == turn.phase \in {"clear", "wave", "reads", "writes", "finish", "insert"}

Counted ==
  /\ runs \in [DOMAIN runs -> {0, 1}]
  /\ Executing =>
       /\ DOMAIN runs = DOMAIN turn.plan
       /\ \A k \in DOMAIN runs : runs[k] /= 0 => k \in DOMAIN turn.ledger \cup turn.flying
  /\ parked /= NoRow =>
       /\ DOMAIN runs = DOMAIN parked.plan
       /\ \A k \in DOMAIN runs : runs[k] /= 0 => k \in DOMAIN parked.ledger
  /\ turn.todo \cap (DOMAIN turn.ledger \cup turn.flying) = {}

(* The row exists only until a plan runs; what halts a plan, and what it   *)
(* is parked at, is a step of the wave that could go next; and a turn that  *)
(* is about to ask has the row of what it asks.                            *)
RowOK ==
  parked /= NoRow =>
    /\ parked.reason \in {"ask", "info"} /\ DOMAIN parked.plan \subseteq Nat \ {0}
    /\ parked.at \in NextWave(parked.plan, parked.ledger)

Halted ==
  /\ turn.phase \notin {"idle", "get", "resume", "clear", "tell"} => parked = NoRow
  /\ \A k \in turn.todo : NeedsOf(turn.plan[k]) \subseteq DOMAIN turn.ledger
  /\ turn.outcome.kind \in {"ask", "info"} =>
       turn.outcome.at \in NextWave(turn.plan, turn.ledger) \ (turn.todo \cup turn.flying)
  /\ turn.phase = "insert" => turn.outcome.kind \in {"ask", "info"}
  /\ turn.phase = "tell" =>
       IF turn.outcome.kind \in {"approve", "question"}
       THEN /\ parked /= NoRow /\ parked.at = turn.outcome.at
            /\ parked.reason = IF turn.outcome.kind = "approve" THEN "ask" ELSE "info"
       ELSE parked = NoRow

IInv == Shape /\ CallsInOrder /\ Consent /\ Counted /\ RowOK /\ Halted /\ QuestionParked
-----------------------------------------------------------------------------
LEMMA MinIsLeast ==
  ASSUME NEW S \in SUBSET Nat, S # {}
  PROVE  Min(S) \in S
<1>1. PICK x \in S : \A y \in S : <<y, x>> \notin OpToRel(<, Nat)
  BY NatLessThanWellFounded, WFMin
<1>2. \A y \in S : ~(y < x)
  BY <1>1 DEF OpToRel
<1>3. \A y \in S : x <= y
  BY <1>2
<1>4. QED
  BY <1>3 DEF Min

LEMMA PhaseStep ==
  ASSUME IsTurn(turn), NEW p, Goes(p)
  PROVE  /\ IsTurn(turn') /\ turn'.phase = p
         /\ turn'.message = turn.message /\ turn'.plan = turn.plan /\ turn'.ledger = turn.ledger
         /\ turn'.approved = turn.approved
         /\ turn'.todo = turn.todo /\ turn'.flying = turn.flying /\ turn'.outcome = turn.outcome
BY DEF IsTurn, TurnFields, Goes

LEMMA IdleTurn ==
  /\ IsTurn(Idle) /\ Idle.phase = "idle" /\ Idle.plan = <<>> /\ Idle.ledger = <<>>
  /\ Idle.todo = {} /\ Idle.flying = {} /\ Idle.outcome = Going /\ Idle.approved = 0
  /\ Idle.message.latest = 0
BY DEF Idle, NoMessage, IsTurn, TurnFields

LEMMA Started == Init => IInv
<1> SUFFICES ASSUME Init PROVE IInv
  OBVIOUS
<1>1. turn = Idle /\ parked = NoRow /\ runs = <<>>
      /\ reply = [kind |-> "none", at |-> 0, approve |-> 0, latest |-> 0, asks |-> 0]
      /\ inbox = {} /\ questions = 0
  BY DEF Init
<1>2. IsReply(reply) /\ reply.kind = "none" /\ reply.latest = 0
  BY <1>1 DEF IsReply, ReplyFields
<1>3. Shape
  BY <1>1, <1>2, IdleTurn DEF Shape, Phases
<1>4. CallsInOrder /\ Consent
  BY <1>1, <1>2, IdleTurn DEF CallsInOrder, NothingUnderWay, Consent, Informed, ConfirmedOnly
<1>5. Counted /\ RowOK
  BY <1>1, IdleTurn DEF Counted, Executing, RowOK
<1>6. Halted /\ QuestionParked
  BY <1>1, <1>2, IdleTurn DEF Halted, QuestionParked, Going, Outcome
<1>7. QED
  BY <1>3, <1>4, <1>5, <1>6 DEF IInv

(* A turn is over: the user is told something of the row, or nothing, and   *)
(* the message may come again.                                             *)
LEMMA IdleStep ==
  ASSUME IInv, turn' = Idle, UNCHANGED <<parked, questions, runs>>, IsReply(reply'),
         inbox' \in {inbox, inbox \cup {turn.message}},
         reply'.latest \in {reply.latest, questions},
         parked /= NoRow /\ parked.reason = "ask" =>
           (reply'.latest = questions => reply'.approve = questions),
         reply'.kind \in {"approve", "question"} =>
           /\ parked /= NoRow /\ parked.at = reply'.at
           /\ parked.reason = IF reply'.kind = "approve" THEN "ask" ELSE "info"
  PROVE  IInv'
<1>1. Shape' /\ CallsInOrder'
  BY IdleTurn DEF Shape, Phases, CallsInOrder, NothingUnderWay
<1>2. Consent'
  <2>1. /\ questions' \in Nat /\ reply'.latest \in 0 .. questions'
        /\ \A m \in inbox' \cup {turn'.message} : m.latest \in 0 .. reply'.latest
    BY IdleTurn DEF IInv, Consent
  <2>2. ASSUME parked /= NoRow, parked.reason = "ask", NEW m \in inbox' \cup {turn'.message}
        PROVE  Informed(m)'
    BY <2>2 DEF IInv, Consent, Informed, Idle, NoMessage
  <2>3. turn'.approved = 0 /\ ConfirmedOnly'
    BY IdleTurn DEF ConfirmedOnly
  <2>4. QED
    BY <2>1, <2>2, <2>3 DEF Consent
<1>3. Counted' /\ RowOK'
  BY IdleTurn DEF IInv, Counted, Executing, RowOK
<1>4. Halted' /\ QuestionParked'
  BY IdleTurn DEF IInv, Halted, Going, Outcome, QuestionParked, RowOK
<1>5. QED
  BY <1>1, <1>2, <1>3, <1>4 DEF IInv

(* The user writes: he has been told nothing since the question that the    *)
(* parked plan waits on, or has not been shown it.                         *)
LEMMA MessageStep == ASSUME IInv, NEW word \in Words, Message(word) PROVE IInv'
<1> DEFINE new == [n |-> turns', word |-> word, asked |-> reply.approve, latest |-> reply.latest]
<1>1. inbox' = inbox \cup {new} /\ UNCHANGED <<turn, parked, questions, reply, runs>>
  BY DEF Message
<1>2. new.asked = reply.approve /\ new.latest = reply.latest
  OBVIOUS
<1> HIDE DEF new
<1>3. Consent'
  <2>1. /\ reply.latest \in 0 .. questions /\ questions \in Nat
        /\ \A m \in inbox' \cup {turn'.message} : m.latest \in 0 .. reply.latest
    BY <1>1, <1>2 DEF IInv, Consent
  <2>2. ASSUME parked /= NoRow, parked.reason = "ask", NEW m \in inbox' \cup {turn'.message}
        PROVE  Informed(m)
    BY <1>1, <1>2, <2>2 DEF IInv, Consent, Informed
  <2>3. QED
    BY <1>1, <2>1, <2>2 DEF IInv, Consent, Informed, ConfirmedOnly
<1>4. Shape' /\ CallsInOrder' /\ Counted'
  BY <1>1 DEF IInv, Shape, CallsInOrder, NothingUnderWay, IsRead, Counted, Executing
<1>5. RowOK' /\ Halted' /\ QuestionParked'
  BY <1>1 DEF IInv, RowOK, Halted, QuestionParked
<1>6. QED
  BY <1>3, <1>4, <1>5 DEF IInv

(* The actions that move on to another phase without starting a call.      *)
LEMMA BeginStep == ASSUME IInv, NEW m \in inbox, Begin(m) PROVE IInv'
<1>1. PICK offered \in Offers(stage) :
        turn' = [Idle EXCEPT !.phase = "get", !.message = m, !.stage = stage, !.offered = offered]
  BY DEF Begin
<1>2. inbox' = inbox \ {m} /\ UNCHANGED <<parked, questions, reply, runs>>
  BY DEF Begin
<1>3. /\ IsTurn(turn') /\ turn'.phase = "get" /\ turn'.plan = <<>> /\ turn'.ledger = <<>>
      /\ turn'.todo = {} /\ turn'.flying = {} /\ turn'.outcome = Going /\ turn'.approved = 0
      /\ turn'.message = m
  BY <1>1 DEF Idle, IsTurn, TurnFields
<1>4. Shape'
  BY <1>2, <1>3 DEF IInv, Shape, Phases
<1>5. CallsInOrder'
  BY <1>3 DEF CallsInOrder, NothingUnderWay
<1>6. Consent'
  BY <1>2, <1>3 DEF IInv, Consent, Informed, ConfirmedOnly
<1>7. Counted' /\ RowOK'
  BY <1>2, <1>3 DEF IInv, Counted, Executing, RowOK
<1>8. Halted' /\ QuestionParked'
  BY <1>3 DEF Halted, QuestionParked, Going, Outcome
<1>9. QED
  BY <1>4, <1>5, <1>6, <1>7, <1>8 DEF IInv

LEMMA GetStep == ASSUME IInv, Get PROVE IInv'
<1>1. /\ turn.phase = "get" /\ UNCHANGED <<inbox, questions, reply, runs>>
      /\ \/ parked = NoRow /\ Goes("plan") /\ UNCHANGED parked
         \/ parked /= NoRow /\ Goes("resume") /\ UNCHANGED parked
         \/ parked /= NoRow /\ Goes("plan") /\ parked' = NoRow
  BY DEF Get, talk
<1>2. /\ IsTurn(turn') /\ turn'.phase \in {"plan", "resume"}
      /\ turn'.phase = "plan" => parked' = NoRow
      /\ parked' \in {parked, NoRow}
      /\ turn'.message = turn.message /\ turn'.plan = turn.plan /\ turn'.ledger = turn.ledger
      /\ turn'.approved = turn.approved
      /\ turn'.todo = turn.todo /\ turn'.flying = turn.flying /\ turn'.outcome = turn.outcome
  BY <1>1, PhaseStep DEF IInv, Shape
<1>3. NothingUnderWay
  BY <1>1 DEF IInv, CallsInOrder
<1>4. Shape'
  BY <1>1, <1>2 DEF IInv, Shape, Phases
<1>5. CallsInOrder'
  BY <1>2, <1>3 DEF CallsInOrder, NothingUnderWay
<1>6. Consent'
  BY <1>1, <1>2, <1>3 DEF IInv, Consent, Informed, ConfirmedOnly, NothingUnderWay
<1>7. Counted' /\ RowOK'
  BY <1>1, <1>2 DEF IInv, Counted, Executing, RowOK
<1>8. Halted' /\ QuestionParked'
  BY <1>2, <1>3 DEF Halted, QuestionParked, Going, Outcome, NothingUnderWay
<1>9. QED
  BY <1>4, <1>5, <1>6, <1>7, <1>8 DEF IInv

(* From a phase with nothing under way to the planning of a fresh plan.    *)
LEMMA ToPlanStep ==
  ASSUME IInv, turn.phase \in {"resume", "plan"}, NEW p \in {"plan", "replan"}, Goes(p),
         parked' = NoRow, UNCHANGED <<inbox, questions, reply, runs>>
  PROVE  IInv'
<1>1. /\ IsTurn(turn') /\ turn'.phase = p
      /\ turn'.message = turn.message /\ turn'.plan = turn.plan /\ turn'.ledger = turn.ledger
      /\ turn'.approved = turn.approved
      /\ turn'.todo = turn.todo /\ turn'.flying = turn.flying /\ turn'.outcome = turn.outcome
  BY PhaseStep DEF IInv, Shape
<1>2. NothingUnderWay
  BY DEF IInv, CallsInOrder
<1>3. Shape'
  BY <1>1 DEF IInv, Shape, Phases
<1>4. CallsInOrder'
  BY <1>1, <1>2 DEF CallsInOrder, NothingUnderWay
<1>5. Consent'
  BY <1>1, <1>2 DEF IInv, Consent, Informed, ConfirmedOnly, NothingUnderWay
<1>6. Counted' /\ RowOK'
  BY <1>1 DEF IInv, Counted, Executing, RowOK
<1>7. Halted' /\ QuestionParked'
  BY <1>1, <1>2 DEF Halted, QuestionParked, Going, Outcome, NothingUnderWay
<1>8. QED
  BY <1>3, <1>4, <1>5, <1>6, <1>7 DEF IInv

(* The parked plan comes back with its ledger, and with an approval of the *)
(* step it is parked at only by a yes.                                     *)
LEMMA ResumeStep == ASSUME IInv, Resume PROVE IInv'
<1>1. /\ turn.phase = "resume" /\ turn' = Rehydrated
      /\ UNCHANGED <<parked, inbox, questions, reply, runs>>
      /\ \/ parked.reason = "ask" /\ turn.message.word = "yes"
         \/ parked.reason = "info" /\ turn.message.word /= "no"
  BY DEF Resume, talk
<1>2. parked /= NoRow
  BY <1>1 DEF NoRow, None
<1> DEFINE plan == [parked.plan EXCEPT ![parked.at] = Answered(@)]
<1>3. DOMAIN plan = DOMAIN parked.plan
  OBVIOUS
<1>4. turn' = [turn EXCEPT !.phase = "clear", !.plan = plan, !.ledger = parked.ledger,
                 !.approved = IF parked.reason = "ask" THEN parked.at ELSE 0,
                 !.recoils = IF parked.reason = "ask" THEN parked.recoils ELSE parked.recoils + 1]
  BY <1>1 DEF Rehydrated
<1> HIDE DEF plan
<1>5. /\ IsTurn(turn') /\ turn'.phase = "clear"
      /\ turn'.message = turn.message /\ turn'.plan = plan /\ turn'.ledger = parked.ledger
      /\ turn'.approved = (IF parked.reason = "ask" THEN parked.at ELSE 0)
     
      /\ turn'.todo = turn.todo /\ turn'.flying = turn.flying /\ turn'.outcome = turn.outcome
  BY <1>4 DEF IInv, Shape, IsTurn, TurnFields
<1>6. NothingUnderWay
  BY <1>1 DEF IInv, CallsInOrder
<1>7. Shape'
  BY <1>1, <1>2, <1>3, <1>5, <1>6 DEF IInv, Shape, Phases, RowOK, NothingUnderWay
<1>8. CallsInOrder'
  BY <1>5, <1>6 DEF CallsInOrder, NothingUnderWay
<1>9. Consent'
  BY <1>1, <1>2, <1>5, <1>6 DEF IInv, Consent, Informed, ConfirmedOnly, NothingUnderWay
<1>10. Counted'
  BY <1>1, <1>2, <1>3, <1>5, <1>6 DEF IInv, Counted, Executing, NothingUnderWay
<1>11. RowOK' /\ Halted' /\ QuestionParked'
  BY <1>1, <1>5, <1>6 DEF IInv, RowOK, Halted, QuestionParked, Going, Outcome, NothingUnderWay
<1>12. QED
  BY <1>7, <1>8, <1>9, <1>10, <1>11 DEF IInv

LEMMA ClearStep == ASSUME IInv, Clear PROVE IInv'
<1>1. /\ turn.phase = "clear" /\ Goes("wave") /\ parked' = NoRow
      /\ UNCHANGED <<inbox, questions, reply, runs>>
  BY DEF Clear, talk
<1>2. /\ IsTurn(turn') /\ turn'.phase = "wave"
      /\ turn'.message = turn.message /\ turn'.plan = turn.plan /\ turn'.ledger = turn.ledger
      /\ turn'.approved = turn.approved
      /\ turn'.todo = turn.todo /\ turn'.flying = turn.flying /\ turn'.outcome = turn.outcome
  BY <1>1, PhaseStep DEF IInv, Shape
<1>3. NothingUnderWay
  BY <1>1 DEF IInv, CallsInOrder
<1>4. Shape'
  BY <1>1, <1>2 DEF IInv, Shape, Phases
<1>5. CallsInOrder'
  BY <1>2, <1>3 DEF CallsInOrder, NothingUnderWay
<1>6. Consent'
  BY <1>1, <1>2, <1>3 DEF IInv, Consent, Informed, ConfirmedOnly, NothingUnderWay
<1>7. Counted' /\ RowOK'
  BY <1>1, <1>2, <1>3 DEF IInv, Counted, Executing, RowOK, NothingUnderWay
<1>8. Halted' /\ QuestionParked'
  BY <1>1, <1>2, <1>3 DEF IInv, Halted, QuestionParked, Going, Outcome, NothingUnderWay
<1>9. QED
  BY <1>4, <1>5, <1>6, <1>7, <1>8 DEF IInv

(* A new plan starts with the count of its steps at zero.                  *)
LEMMA PlanStep == ASSUME IInv, Plan PROVE IInv'
<1>1. PICK proposal \in Proposals : \E plan \in Plans(proposal) :
        /\ turn' = [turn EXCEPT !.phase = "wave", !.plan = plan]
        /\ runs' = [k \in DOMAIN plan |-> 0]
  BY DEF Plan, talk
<1>2. PICK plan \in Plans(proposal) :
        /\ turn' = [turn EXCEPT !.phase = "wave", !.plan = plan]
        /\ runs' = [k \in DOMAIN plan |-> 0]
  BY <1>1
<1>3. turn.phase \in {"plan", "replan"} /\ UNCHANGED <<parked, inbox, questions, reply>>
  BY DEF Plan, talk
<1>4. DOMAIN plan \subseteq Nat \ {0}
  <2>1. DOMAIN plan = DOMAIN proposal
    BY DEF Plans, Resolve
  <2>2. \E S : proposal \in Seq(S)
    BY HarnessConstants
  <2>3. QED
    BY <2>1, <2>2
<1>5. /\ IsTurn(turn') /\ turn'.phase = "wave"
      /\ turn'.message = turn.message /\ turn'.plan = plan /\ turn'.ledger = turn.ledger
      /\ turn'.approved = turn.approved
      /\ turn'.todo = turn.todo /\ turn'.flying = turn.flying /\ turn'.outcome = turn.outcome
  BY <1>2 DEF IInv, Shape, IsTurn, TurnFields
<1>6. NothingUnderWay /\ parked = NoRow
  BY <1>3 DEF IInv, CallsInOrder, Halted
<1>7. Shape'
  BY <1>3, <1>4, <1>5, <1>6 DEF IInv, Shape, Phases, NothingUnderWay
<1>8. CallsInOrder'
  BY <1>5, <1>6 DEF CallsInOrder, NothingUnderWay
<1>9. Consent'
  BY <1>3, <1>5, <1>6 DEF IInv, Consent, Informed, ConfirmedOnly, NothingUnderWay
<1>10. Counted' /\ RowOK'
  BY <1>2, <1>3, <1>5, <1>6 DEF Counted, Executing, RowOK, NothingUnderWay
<1>11. Halted' /\ QuestionParked'
  BY <1>3, <1>5, <1>6 DEF Halted, QuestionParked, Going, Outcome, NothingUnderWay
<1>12. QED
  BY <1>7, <1>8, <1>9, <1>10, <1>11 DEF IInv
-----------------------------------------------------------------------------
(* Executing.                                                              *)
LEMMA StartWaveStep == ASSUME IInv, StartWave PROVE IInv'
<1> DEFINE wave == NextWave(turn.plan, turn.ledger)
<1>1. turn.phase = "wave" /\ UNCHANGED <<parked, inbox, questions, reply, runs>>
      /\ \/ turn' = [turn EXCEPT !.phase = "finish", !.outcome = Outcome("done", 0)]
         \/ turn' = [turn EXCEPT !.phase = "finish", !.outcome = Outcome("stall", 0)]
         \/ turn' = [turn EXCEPT !.phase = "reads", !.wave = wave, !.todo = wave]
  BY DEF StartWave, talk
<1>2. NothingUnderWay /\ parked = NoRow
  BY <1>1 DEF IInv, CallsInOrder, Halted
<1>3. CASE turn' = [turn EXCEPT !.phase = "reads", !.wave = wave, !.todo = wave]
  <2>1. wave \subseteq DOMAIN turn.plan \ DOMAIN turn.ledger
        /\ \A k \in wave : NeedsOf(turn.plan[k]) \subseteq DOMAIN turn.ledger
    BY DEF NextWave
  <2> HIDE DEF wave
  <2>2. /\ IsTurn(turn') /\ turn'.phase = "reads"
        /\ turn'.message = turn.message /\ turn'.plan = turn.plan /\ turn'.ledger = turn.ledger
        /\ turn'.approved = turn.approved
        /\ turn'.todo = wave /\ turn'.flying = turn.flying /\ turn'.outcome = turn.outcome
    BY <1>3 DEF IInv, Shape, IsTurn, TurnFields
  <2>3. Shape'
    BY <1>1, <1>2, <2>1, <2>2 DEF IInv, Shape, Phases, NothingUnderWay
  <2>4. CallsInOrder'
    BY <1>2, <2>2 DEF CallsInOrder, NothingUnderWay
  <2>5. Consent'
    BY <1>1, <1>2, <2>2 DEF IInv, Consent, Informed, ConfirmedOnly, NothingUnderWay
  <2>6. Counted' /\ RowOK'
    BY <1>1, <1>2, <2>1, <2>2 DEF IInv, Counted, Executing, RowOK, NothingUnderWay
  <2>7. Halted' /\ QuestionParked'
    BY <1>1, <1>2, <2>1, <2>2 DEF Halted, QuestionParked, Going, Outcome, NothingUnderWay
  <2>8. QED
    BY <2>3, <2>4, <2>5, <2>6, <2>7 DEF IInv
<1>4. ASSUME NEW kind \in {"done", "stall"},
             turn' = [turn EXCEPT !.phase = "finish", !.outcome = Outcome(kind, 0)]
      PROVE  IInv'
  <2>1. /\ IsTurn(turn') /\ turn'.phase = "finish"
        /\ turn'.message = turn.message /\ turn'.plan = turn.plan /\ turn'.ledger = turn.ledger
        /\ turn'.approved = turn.approved
        /\ turn'.todo = turn.todo /\ turn'.flying = turn.flying /\ turn'.outcome.kind = kind
    BY <1>4 DEF IInv, Shape, IsTurn, TurnFields, Outcome
  <2>2. Shape'
    BY <1>1, <1>2, <2>1 DEF IInv, Shape, Phases
  <2>3. CallsInOrder' /\ Consent'
    BY <1>1, <1>2, <2>1 DEF IInv, CallsInOrder, Consent, Informed, ConfirmedOnly, NothingUnderWay
  <2>4. Counted' /\ RowOK'
    BY <1>1, <1>2, <2>1 DEF IInv, Counted, Executing, RowOK
  <2>5. Halted' /\ QuestionParked'
    BY <1>1, <1>2, <2>1 DEF Halted, QuestionParked, NothingUnderWay
  <2>6. QED
    BY <2>2, <2>3, <2>4, <2>5 DEF IInv
<1>5. QED
  BY <1>1, <1>3, <1>4

(* A step of the wave is started: not before, and not in the ledger.       *)
LEMMA StartsStep ==
  ASSUME IInv, NEW k \in turn.todo, Starts(k), UNCHANGED <<parked, inbox, questions, reply>>,
         \/ turn.phase = "reads" /\ IsRead(k)
         \/ turn.phase = "writes" /\ turn.flying = {}
  PROVE  IInv'
<1>1. /\ IsTurn(turn') /\ turn'.phase = turn.phase
      /\ turn'.message = turn.message /\ turn'.plan = turn.plan /\ turn'.ledger = turn.ledger
      /\ turn'.approved = turn.approved
      /\ turn'.todo = turn.todo \ {k} /\ turn'.flying = turn.flying \cup {k}
      /\ turn'.outcome = turn.outcome
  BY DEF IInv, Shape, IsTurn, TurnFields, Starts
<1>2. k \in DOMAIN turn.plan /\ k \notin DOMAIN turn.ledger \cup turn.flying
      /\ DOMAIN turn.plan \subseteq Nat \ {0}
  BY DEF IInv, Shape, Counted
<1>3. DOMAIN runs = DOMAIN turn.plan /\ runs \in [DOMAIN runs -> {0, 1}] /\ runs[k] = 0
  BY <1>2 DEF IInv, Counted, Executing
<1>4. runs' = [runs EXCEPT ![k] = 1]
  BY <1>3 DEF Starts
<1>5. Shape'
  BY <1>1 DEF IInv, Shape
<1>6. CallsInOrder'
  BY <1>1 DEF IInv, CallsInOrder, NothingUnderWay, IsRead
<1>7. Consent'
  <2>1. Safety(turn.plan[k].tool) = "ask" => turn.approved = k
    BY DEF Starts, Verdict
  <2>2. turn.approved = k => turn.message.word = "yes" /\ Informed(turn.message)
    BY <1>2 DEF IInv, Consent
  <2>3. ConfirmedOnly'
    BY <1>1, <2>1, <2>2 DEF IInv, Consent, Informed, ConfirmedOnly
  <2>4. QED
    BY <1>1, <2>3 DEF IInv, Consent, Informed
<1>8. Counted'
  <2>1. runs' \in [DOMAIN runs' -> {0, 1}] /\ DOMAIN runs' = DOMAIN runs
    BY <1>3, <1>4
  <2>2. \A j \in DOMAIN runs' : runs'[j] /= 0 => j \in DOMAIN turn'.ledger \cup turn'.flying
    BY <1>1, <1>3, <1>4 DEF IInv, Counted, Executing
  <2>3. turn'.todo \cap (DOMAIN turn'.ledger \cup turn'.flying) = {}
    BY <1>1 DEF IInv, Counted
  <2>4. parked' = NoRow
    BY DEF IInv, Halted
  <2>5. QED
    BY <1>1, <1>3, <2>1, <2>2, <2>3, <2>4 DEF Counted
<1>9. RowOK' /\ Halted' /\ QuestionParked'
  BY <1>1 DEF IInv, RowOK, Halted, QuestionParked
<1>10. QED
  BY <1>5, <1>6, <1>7, <1>8, <1>9 DEF IInv

(* A step that is refused is taken off the list; the first reason is kept. *)
LEMMA HaltsStep ==
  ASSUME IInv, NEW k \in turn.todo, Halts(k), UNCHANGED <<parked, inbox, questions, reply>>,
         turn.phase \in {"reads", "writes"}
  PROVE  IInv'
<1> DEFINE why == IF Verdict(k) = "allow" THEN "budget" ELSE Verdict(k)
           outcome == IF turn.outcome = Going THEN Outcome(why, k) ELSE turn.outcome
<1>1. turn' = [turn EXCEPT !.todo = @ \ {k}, !.outcome = outcome] /\ UNCHANGED runs
  BY DEF Halts
<1>2. outcome = turn.outcome \/ outcome.at = k
  BY DEF Outcome
<1> HIDE DEF outcome
<1>3. /\ IsTurn(turn') /\ turn'.phase = turn.phase
      /\ turn'.message = turn.message /\ turn'.plan = turn.plan /\ turn'.ledger = turn.ledger
      /\ turn'.approved = turn.approved
      /\ turn'.todo = turn.todo \ {k} /\ turn'.flying = turn.flying
      /\ turn'.outcome = outcome
  BY <1>1 DEF IInv, Shape, IsTurn, TurnFields
<1>4. k \in NextWave(turn.plan, turn.ledger) \ turn.flying
  BY DEF IInv, Shape, Counted, Halted, NextWave
<1>5. Shape' /\ CallsInOrder' /\ Consent'
  BY <1>3 DEF IInv, Shape, CallsInOrder, NothingUnderWay, IsRead, Consent, Informed, ConfirmedOnly
<1>6. Counted' /\ RowOK'
  BY <1>1, <1>3 DEF IInv, Counted, Executing, RowOK
<1>7. Halted' /\ QuestionParked'
  BY <1>2, <1>3, <1>4 DEF IInv, Halted, QuestionParked
<1>8. QED
  BY <1>5, <1>6, <1>7 DEF IInv

LEMMA StartReadStep == ASSUME IInv, StartRead PROVE IInv'
<1>1. Reads \in SUBSET Nat /\ Reads # {}
  BY DEF IInv, Shape, StartRead, Reads
<1>2. Min(Reads) \in Reads
  BY <1>1, MinIsLeast
<1>3. Min(Reads) \in turn.todo /\ IsRead(Min(Reads))
  BY <1>2 DEF Reads
<1>4. QED
  BY <1>3, StartsStep, HaltsStep DEF StartRead, talk

LEMMA StartWriteStep == ASSUME IInv, StartWrite PROVE IInv'
<1>1. turn.todo \in SUBSET Nat /\ turn.todo # {}
  BY DEF IInv, Shape, StartWrite
<1>2. Min(turn.todo) \in turn.todo
  BY <1>1, MinIsLeast
<1>3. QED
  BY <1>2, StartsStep, HaltsStep DEF StartWrite, talk

(* From the reads of a wave to its writes, or to the end of the turn, or   *)
(* from there to the row: no call is in flight.                            *)
LEMMA QuietStep ==
  ASSUME IInv, NEW p, Goes(p), turn.flying = {}, parked = NoRow, parked' = NoRow,
         UNCHANGED <<inbox, questions, reply, runs>>,
         \/ turn.phase = "reads" /\ p \in {"writes", "finish"}
         \/ turn.phase = "writes" /\ p = "finish"
         \/ turn.phase = "finish" /\ p = "insert" /\ turn.outcome.kind \in {"info", "ask"}
  PROVE  IInv'
<1>1. /\ IsTurn(turn') /\ turn'.phase = p
      /\ turn'.message = turn.message /\ turn'.plan = turn.plan /\ turn'.ledger = turn.ledger
      /\ turn'.approved = turn.approved
      /\ turn'.todo = turn.todo /\ turn'.flying = turn.flying /\ turn'.outcome = turn.outcome
  BY PhaseStep DEF IInv, Shape
<1>2. Shape'
  BY <1>1 DEF IInv, Shape, Phases
<1>3. CallsInOrder' /\ Consent'
  BY <1>1 DEF IInv, CallsInOrder, NothingUnderWay, Consent, Informed, ConfirmedOnly
<1>4. Counted' /\ RowOK'
  BY <1>1 DEF IInv, Counted, Executing, RowOK
<1>5. Halted' /\ QuestionParked'
  BY <1>1 DEF IInv, Halted, QuestionParked
<1>6. QED
  BY <1>2, <1>3, <1>4, <1>5 DEF IInv

LEMMA ReadsDoneStep == ASSUME IInv, ReadsDone PROVE IInv'
<1>1. parked = NoRow
  BY DEF IInv, Halted, ReadsDone
<1>2. QED
  BY <1>1, QuietStep DEF ReadsDone, talk

LEMMA DeleteStep == ASSUME IInv, Delete PROVE IInv'
<1>1. turn.flying = {} /\ parked = NoRow
  BY DEF IInv, CallsInOrder, Halted, Delete
<1>2. QED
  BY <1>1, QuietStep DEF Delete, talk

(* A call returns: its step moves from the calls in flight to the ledger.  *)
LEMMA ReturnStep ==
  ASSUME IInv, NEW k \in turn.flying, NEW result \in Results, Return(k, result)
  PROVE  IInv'
<1> DEFINE ledger == [j \in DOMAIN turn.ledger \cup {k} |-> IF j = k THEN result ELSE turn.ledger[j]]
<1>1. turn' = [turn EXCEPT !.flying = @ \ {k}, !.ledger = ledger]
      /\ UNCHANGED <<parked, inbox, questions, reply, runs>>
  BY DEF Return, talk
<1>2. DOMAIN ledger = DOMAIN turn.ledger \cup {k}
  OBVIOUS
<1> HIDE DEF ledger
<1>3. /\ IsTurn(turn') /\ turn'.phase = turn.phase
      /\ turn'.message = turn.message /\ turn'.plan = turn.plan /\ turn'.ledger = ledger
      /\ turn'.approved = turn.approved
      /\ turn'.todo = turn.todo /\ turn'.flying = turn.flying \ {k}
      /\ turn'.outcome = turn.outcome
  BY <1>1 DEF IInv, Shape, IsTurn, TurnFields
<1>4. turn.phase \in {"reads", "writes"}
  BY DEF IInv, Shape, CallsInOrder, NothingUnderWay, Phases
<1>5. Shape' /\ CallsInOrder'
  BY <1>1, <1>3, <1>4 DEF IInv, Shape, CallsInOrder, NothingUnderWay, IsRead
<1>6. Consent'
  BY <1>1, <1>3 DEF IInv, Consent, Informed, ConfirmedOnly
<1>7. Counted'
  <2>1. k \notin turn.todo
    BY DEF IInv, Counted
  <2>2. QED
    BY <1>1, <1>2, <1>3, <2>1 DEF IInv, Counted, Executing
<1>8. RowOK' /\ QuestionParked'
  BY <1>1, <1>3, <1>4 DEF IInv, RowOK, QuestionParked
<1>9. Halted'
  <2>1. \A j \in turn'.todo : NeedsOf(turn'.plan[j]) \subseteq DOMAIN turn'.ledger
    BY <1>2, <1>3 DEF IInv, Halted
  <2>2. ASSUME turn.outcome.kind \in {"ask", "info"}
        PROVE  turn'.outcome.at \in NextWave(turn'.plan, turn'.ledger) \ (turn'.todo \cup turn'.flying)
    <3>1. turn.outcome.at \in NextWave(turn.plan, turn.ledger) \ (turn.todo \cup turn.flying)
      BY <2>2 DEF IInv, Halted
    <3>2. turn.outcome.at # k
      BY <3>1
    <3>3. turn.outcome.at \in NextWave(turn'.plan, turn'.ledger)
      BY <1>2, <1>3, <3>1, <3>2 DEF NextWave
    <3>4. QED
      BY <1>3, <3>1, <3>3
  <2>3. QED
    BY <1>1, <1>3, <1>4, <2>1, <2>2 DEF IInv, Halted
<1>10. QED
  BY <1>5, <1>6, <1>7, <1>8, <1>9 DEF IInv

LEMMA EndWaveStep == ASSUME IInv, EndWave PROVE IInv'
<1>1. /\ turn.phase = "writes" /\ turn.flying = {} /\ (turn.todo = {} \/ turn.outcome /= Going)
      /\ UNCHANGED <<parked, inbox, questions, reply, runs>>
  BY DEF EndWave, talk
<1>2. PICK step :
        \/ turn' = [turn EXCEPT !.phase = "finish"]
        \/ /\ turn.outcome = Going
           /\ turn' = [turn EXCEPT !.phase = "finish", !.outcome = Outcome("dependency", step)]
        \/ turn.outcome = Going /\ turn' = [turn EXCEPT !.phase = "wave", !.wave = {}]
  BY DEF EndWave, talk
<1>3. parked = NoRow
  BY <1>1 DEF IInv, Halted
<1>4. CASE turn' = [turn EXCEPT !.phase = "finish"]
  BY <1>1, <1>3, <1>4, QuietStep DEF Goes
<1>5. CASE /\ turn.outcome = Going
           /\ turn' = [turn EXCEPT !.phase = "finish", !.outcome = Outcome("dependency", step)]
  <2>1. /\ IsTurn(turn') /\ turn'.phase = "finish"
        /\ turn'.message = turn.message /\ turn'.plan = turn.plan /\ turn'.ledger = turn.ledger
        /\ turn'.approved = turn.approved
        /\ turn'.todo = turn.todo /\ turn'.flying = turn.flying
        /\ turn'.outcome.kind = "dependency"
    BY <1>5 DEF IInv, Shape, IsTurn, TurnFields, Outcome
  <2>2. Shape' /\ CallsInOrder' /\ Consent'
    BY <1>1, <2>1 DEF IInv, Shape, Phases, CallsInOrder, NothingUnderWay, Consent, Informed,
       ConfirmedOnly
  <2>3. Counted' /\ RowOK'
    BY <1>1, <2>1 DEF IInv, Counted, Executing, RowOK
  <2>4. Halted' /\ QuestionParked'
    BY <1>1, <1>3, <2>1 DEF IInv, Halted, QuestionParked
  <2>5. QED
    BY <2>2, <2>3, <2>4 DEF IInv
<1>6. CASE turn.outcome = Going /\ turn' = [turn EXCEPT !.phase = "wave", !.wave = {}]
  <2>1. /\ IsTurn(turn') /\ turn'.phase = "wave"
        /\ turn'.message = turn.message /\ turn'.plan = turn.plan /\ turn'.ledger = turn.ledger
        /\ turn'.approved = turn.approved
        /\ turn'.todo = {} /\ turn'.flying = {} /\ turn'.outcome = Going
    BY <1>1, <1>6 DEF IInv, Shape, IsTurn, TurnFields
  <2>2. Shape' /\ CallsInOrder' /\ Consent'
    BY <1>1, <2>1 DEF IInv, Shape, Phases, CallsInOrder, NothingUnderWay, Consent, Informed,
       ConfirmedOnly
  <2>3. Counted' /\ RowOK'
    BY <1>1, <2>1 DEF IInv, Counted, Executing, RowOK
  <2>4. Halted' /\ QuestionParked'
    BY <1>1, <1>3, <2>1 DEF Halted, QuestionParked, Going, Outcome
  <2>5. QED
    BY <2>2, <2>3, <2>4 DEF IInv
<1>7. QED
  BY <1>2, <1>4, <1>5, <1>6
-----------------------------------------------------------------------------
(* The end of a turn.                                                      *)
LEMMA EndsTurn ==
  ASSUME NEW kind, NEW k, Ends(kind, k)
  PROVE  /\ IsTurn(turn') /\ turn'.phase = "tell" /\ turn'.message = turn.message
         /\ turn'.plan = <<>> /\ turn'.ledger = <<>> /\ turn'.todo = {} /\ turn'.flying = {}
         /\ turn'.approved = 0 /\ turn'.outcome.kind = kind /\ turn'.outcome.at = k
BY DEF Ends, Idle, Outcome, IsTurn, TurnFields

(* The harness is done, with the row kept, deleted or gone before.         *)
LEMMA EndsStep ==
  ASSUME IInv, NEW kind, kind \notin {"ask", "info"}, NEW k, Ends(kind, k),
         UNCHANGED <<inbox, questions, reply, runs>>, parked' \in {parked, NoRow},
         IF kind \in {"approve", "question"}
         THEN /\ parked' /= NoRow /\ parked'.at = k
              /\ parked'.reason = IF kind = "approve" THEN "ask" ELSE "info"
         ELSE parked' = NoRow
  PROVE  IInv'
<1>1. Shape' /\ CallsInOrder'
  BY EndsTurn DEF IInv, Shape, Phases, CallsInOrder
<1>2. Consent'
  BY EndsTurn DEF IInv, Consent, Informed, ConfirmedOnly
<1>3. Counted' /\ RowOK'
  BY EndsTurn DEF IInv, Counted, Executing, RowOK
<1>4. Halted' /\ QuestionParked'
  BY EndsTurn DEF Halted, QuestionParked
<1>5. QED
  BY <1>1, <1>2, <1>3, <1>4 DEF IInv

(* A question is shown with the row it is of, and anything else without a   *)
(* row.                                                                    *)
LEMMA ToldStep ==
  ASSUME IInv, turn.phase = "tell", turn' = Idle,
         reply' = Told(turn.outcome.kind, turn.outcome.at),
         inbox' \in {inbox, inbox \cup {turn.message}}, UNCHANGED <<parked, questions, runs>>
  PROVE  IInv'
<1> DEFINE kind == turn.outcome.kind
<1>1. /\ IsReply(reply') /\ reply'.kind = kind /\ reply'.at = turn.outcome.at
      /\ reply'.approve = (IF kind = "approve" THEN questions ELSE 0)
      /\ reply'.latest = (IF kind = "approve" THEN questions ELSE reply.latest)
  BY DEF Told, IsReply, ReplyFields
<1>2. IF kind \in {"approve", "question"}
      THEN /\ parked /= NoRow /\ parked.at = turn.outcome.at
           /\ parked.reason = IF kind = "approve" THEN "ask" ELSE "info"
      ELSE parked = NoRow
  BY DEF IInv, Halted
<1> HIDE DEF kind
<1>3. /\ reply'.latest \in {reply.latest, questions}
      /\ parked /= NoRow /\ parked.reason = "ask" =>
           (reply'.latest = questions => reply'.approve = questions)
  BY <1>1, <1>2
<1>4. reply'.kind \in {"approve", "question"} =>
        /\ parked /= NoRow /\ parked.at = reply'.at
        /\ parked.reason = IF reply'.kind = "approve" THEN "ask" ELSE "info"
  BY <1>1, <1>2
<1>5. QED
  BY <1>1, <1>3, <1>4, IdleStep

LEMMA AskAgainStep == ASSUME IInv, AskAgain PROVE IInv'
<1>1. /\ turn.phase = "resume" /\ parked.reason \in {"ask", "info"}
      /\ Ends(IF parked.reason = "ask" THEN "approve" ELSE "question", parked.at)
      /\ UNCHANGED <<parked, inbox, questions, reply, runs>>
  BY DEF AskAgain, talk
<1>2. parked /= NoRow
  BY <1>1 DEF NoRow, None
<1>3. QED
  BY <1>1, <1>2, EndsStep

LEMMA DeclinedStep == ASSUME IInv, Declined PROVE IInv'
BY EndsStep DEF Declined, talk

LEMMA ReplyStep == ASSUME IInv, Reply PROVE IInv'
<1>1. parked = NoRow
  BY DEF IInv, Halted, Reply
<1>2. QED
  BY <1>1, EndsStep DEF Reply, talk

LEMMA PlanFailsStep == ASSUME IInv, PlanFails PROVE IInv'
<1>1. parked = NoRow
  BY DEF IInv, Halted, PlanFails
<1>2. QED
  BY <1>1, EndsStep DEF PlanFails, talk

LEMMA AnswerStep == ASSUME IInv, Answer PROVE IInv'
<1>1. parked = NoRow
  BY DEF IInv, Halted, Answer
<1>2. QED
  BY <1>1, EndsStep DEF Answer, talk

(* A plan that waits for consent is parked whatever its budget, so only a  *)
(* question is ever given up.                                              *)
LEMMA GiveUpStep == ASSUME IInv, GiveUp PROVE IInv'
<1>1. parked = NoRow
  BY DEF IInv, Halted, GiveUp
<1>2. Ends("gaveup", turn.outcome.at) /\ UNCHANGED <<parked, inbox, questions, reply, runs>>
  BY DEF GiveUp, Parks, talk
<1>3. QED
  BY <1>1, <1>2, EndsStep

(* The row that is written holds the plan that asked, at the step that     *)
(* halted it; its question is new to every message there is.               *)
LEMMA InsertStep == ASSUME IInv, Insert PROVE IInv'
<1> DEFINE kind == IF turn.outcome.kind = "ask" THEN "approve" ELSE "question"
<1>1. /\ turn.phase = "insert" /\ Ends(kind, turn.outcome.at)
      /\ questions' = questions + 1 /\ UNCHANGED <<inbox, reply, runs>>
      /\ parked' = Row(turn.outcome.kind, turn.outcome.at, AskedField)
  BY DEF Insert
<1>2. /\ parked'.reason = turn.outcome.kind /\ parked'.at = turn.outcome.at
      /\ parked'.plan = turn.plan /\ parked'.ledger = turn.ledger
  BY <1>1 DEF Row
<1>3. turn.outcome.kind \in {"ask", "info"} /\ turn.flying = {}
      /\ turn.outcome.at \in NextWave(turn.plan, turn.ledger)
  BY <1>1 DEF IInv, Halted, CallsInOrder
<1>4. parked' /= NoRow
  BY <1>2, <1>3 DEF NoRow, None
<1>5. Shape' /\ CallsInOrder'
  BY <1>1, EndsTurn DEF IInv, Shape, Phases, CallsInOrder
<1>6. Consent'
  <2>1. questions' \in Nat /\ reply'.latest \in 0 .. questions' /\ reply'.latest < questions'
    BY <1>1 DEF IInv, Consent
  <2>2. inbox' \cup {turn'.message} = inbox \cup {turn.message}
    BY <1>1, EndsTurn
  <2>3. \A m \in inbox' \cup {turn'.message} : m.latest \in 0 .. reply'.latest
    BY <1>1, <2>2 DEF IInv, Consent
  <2>4. \A m \in inbox' \cup {turn'.message} : Informed(m)'
    BY <2>1, <2>3 DEF Informed
  <2>5. turn'.approved = 0 /\ ConfirmedOnly'
    BY <1>1, EndsTurn DEF ConfirmedOnly
  <2>6. QED
    BY <2>1, <2>3, <2>4, <2>5 DEF Consent
<1>7. Counted'
  BY <1>1, <1>2, <1>3, EndsTurn DEF IInv, Counted, Executing
<1>8. RowOK'
  BY <1>2, <1>3 DEF IInv, RowOK, Shape, NextWave
<1>9. Halted' /\ QuestionParked'
  BY <1>1, <1>2, <1>3, <1>4, EndsTurn DEF Halted, QuestionParked
<1>10. QED
  BY <1>5, <1>6, <1>7, <1>8, <1>9 DEF IInv

(* A turn that fails, or is lost with the server, leaves the row as it is. *)
LEMMA FailsStep == ASSUME IInv, Fails, UNCHANGED <<parked, questions, runs>> PROVE IInv'
<1>1. /\ turn' = Idle /\ IsReply(reply') /\ reply'.kind = "failed"
      /\ reply'.approve = reply.approve /\ reply'.latest = reply.latest
      /\ inbox' \in {inbox, inbox \cup {turn.message}}
  BY DEF Fails, IInv, Shape, IsReply, ReplyFields
<1>2. parked /= NoRow /\ parked.reason = "ask" =>
        (reply'.latest = questions => reply'.approve = questions)
  BY <1>1 DEF IInv, Consent
<1>3. QED
  BY <1>1, <1>2, IdleStep

LEMMA UntouchedStep ==
  ASSUME IInv, UNCHANGED <<turn, parked, inbox, questions, reply, runs>> PROVE IInv'
<1>1. Shape' /\ CallsInOrder' /\ Consent'
  BY DEF IInv, Shape, CallsInOrder, NothingUnderWay, IsRead, Consent, Informed, ConfirmedOnly
<1>2. Counted' /\ RowOK' /\ Halted' /\ QuestionParked'
  BY DEF IInv, Counted, Executing, RowOK, Halted, QuestionParked
<1>3. QED
  BY <1>1, <1>2 DEF IInv

LEMMA EngineStep == ASSUME IInv, Engine PROVE IInv'
<1>1. CASE Discard \/ Replan
  <2>1. CASE Discard
    BY <2>1, ToPlanStep DEF Discard, talk
  <2>2. CASE Replan
    <3>1. parked = NoRow
      BY <2>2 DEF IInv, Halted, Replan
    <3>2. QED
      BY <2>2, <3>1, ToPlanStep DEF Replan, talk
  <2>3. QED
    BY <1>1, <2>1, <2>2
<1>2. CASE Get \/ Declined \/ AskAgain \/ Resume \/ Clear
  BY <1>2, GetStep, DeclinedStep, AskAgainStep, ResumeStep, ClearStep
<1>3. CASE Reply \/ PlanFails \/ Plan
  BY <1>3, ReplyStep, PlanFailsStep, PlanStep
<1>4. CASE StartWave \/ StartRead \/ ReadsDone \/ StartWrite \/ EndWave
  BY <1>4, StartWaveStep, StartReadStep, ReadsDoneStep, StartWriteStep, EndWaveStep
<1>5. CASE Answer \/ GiveUp \/ Delete \/ Insert \/ Tell
  BY <1>5, AnswerStep, GiveUpStep, DeleteStep, InsertStep, ToldStep DEF Tell
<1>6. CASE \E k \in turn.flying, result \in Results : Return(k, result)
  BY <1>6, ReturnStep
<1>7. QED
  BY <1>1, <1>2, <1>3, <1>4, <1>5, <1>6 DEF Engine

LEMMA IInvStep == ASSUME IInv, [Next]_vars PROVE IInv'
<1>1. CASE Engine
  BY <1>1, EngineStep
<1>2. CASE ModelFails \/ Crash
  BY <1>2, FailsStep DEF ModelFails, Crash
<1>3. CASE Change
  BY <1>3, UntouchedStep DEF Change, talk
<1>4. CASE TellsTwice
  BY <1>4, ToldStep DEF TellsTwice
<1>5. CASE \E word \in Words : Message(word)
  BY <1>5, MessageStep
<1>6. CASE \E m \in inbox : Begin(m)
  BY <1>6, BeginStep
<1>7. CASE UNCHANGED vars
  BY <1>7, UntouchedStep DEF vars, talk
<1>8. QED
  BY <1>1, <1>2, <1>3, <1>4, <1>5, <1>6, <1>7 DEF Next

LEMMA Invariant == Spec => []IInv
<1>1. Init => IInv
  BY Started
<1>2. IInv /\ [Next]_vars => IInv'
  BY IInvStep
<1>3. QED
  BY <1>1, <1>2, PTL DEF Spec
-----------------------------------------------------------------------------
(* Side effects of a plan never race: a write is with the back end alone,  *)
(* whatever the plan, the safety policy and the order of the answers.      *)
THEOREM WriteAlone == Spec => []WritesAlone
<1>1. IInv => WritesAlone
  BY DEF IInv, Shape, CallsInOrder, NothingUnderWay, WritesAlone, Phases
<1>2. QED
  BY <1>1, Invariant, PTL

(* A function that needs consent is called only in a turn whose message is  *)
(* a yes, and no yes written after the user was told something other than   *)
(* its question approves it: through redeliveries, failures, restarts and   *)
(* expiries between the question and the answer.                           *)
THEOREM Consented == Spec => []ConfirmedOnly
<1>1. IInv => ConfirmedOnly
  BY DEF IInv, Consent
<1>2. QED
  BY <1>1, Invariant, PTL

(* No step of a plan is started twice over all the turns it takes.         *)
THEOREM StartedOnce == Spec => []AtMostOnce
<1>1. IInv => AtMostOnce
  <2> SUFFICES ASSUME IInv, NEW k \in DOMAIN runs PROVE runs[k] <= 1
    BY DEF AtMostOnce
  <2>1. runs[k] \in {0, 1}
    BY DEF IInv, Counted
  <2>2. QED
    BY <2>1
<1>2. QED
  BY <1>1, Invariant, PTL

(* A question that waits for its answer has its plan parked, at the step   *)
(* that asked and with all this step waits for done.                       *)
THEOREM QuestionKept == Spec => []QuestionParked
<1>1. IInv => QuestionParked
  BY DEF IInv
<1>2. QED
  BY <1>1, Invariant, PTL
-----------------------------------------------------------------------------
(* Types.  What a turn carries is of its plan, and a row that asks for     *)
(* information is one the recoil budget still has room for.                *)
Listed(plan) ==
  \E n \in Nat : plan = [k \in 1 .. n |-> [tool |-> plan[k].tool, sources |-> plan[k].sources]]

TurnTyped ==
  /\ turn.phase \in Phases /\ turn.message \in Messages \cup {NoMessage} /\ turn.offered \subseteq Tools
  /\ PlanOK(turn.plan) /\ Listed(turn.plan) /\ DOMAIN turn.ledger \subseteq DOMAIN turn.plan
  /\ turn.flying \cup turn.todo \cup turn.wave \subseteq DOMAIN turn.plan
  /\ turn.flying \cap DOMAIN turn.ledger = {}
  /\ turn.recoils \in 0 .. MaxRecoils
  /\ turn.phase /= "idle" => turn.message \in Messages
  /\ turn.phase \notin {"idle", "tell"} => turn.stage \in Stages
  /\ turn.phase \in {"idle", "get", "resume", "plan", "replan", "tell"} =>
       DOMAIN turn.ledger = {} /\ turn.wave = {}
  /\ turn.phase = "insert" /\ turn.outcome.kind = "info" => turn.recoils < MaxRecoils

RowTyped ==
  parked /= NoRow =>
    /\ parked.reason \in {"ask", "info"} /\ PlanOK(parked.plan) /\ parked.at \in DOMAIN parked.plan
    /\ parked.at \notin DOMAIN parked.ledger /\ parked.recoils \in 0 .. MaxRecoils
    /\ parked.reason = "info" => parked.recoils < MaxRecoils
    /\ Listed(parked.plan) /\ DOMAIN parked.ledger \subseteq DOMAIN parked.plan

WorldTyped ==
  registry \in Registries /\ stage \in Stages /\ turns \in 0 .. MaxTurns /\ faults \in 0 .. MaxFaults

TalkTyped ==
  inbox \subseteq Messages /\ questions \in Nat /\ reply.approve \in Nat /\ reply.latest \in Nat

TypeInv == TurnTyped /\ RowTyped /\ WorldTyped /\ TalkTyped

LEMMA IdleFields ==
  /\ Idle.phase = "idle" /\ Idle.message = NoMessage /\ Idle.offered = {} /\ Idle.plan = <<>>
  /\ Idle.ledger = <<>> /\ Idle.flying = {} /\ Idle.todo = {} /\ Idle.wave = {}
  /\ Idle.recoils = 0 /\ 0 \in 0 .. MaxRecoils /\ PlanOK(<<>>) /\ Listed(<<>>)
<1>1. PlanOK(<<>>)
  BY DEF PlanOK
<1>2. Listed(<<>>)
  <2> DEFINE listed == [k \in 1 .. 0 |-> [tool |-> <<>>[k].tool, sources |-> <<>>[k].sources]]
  <2>1. DOMAIN listed = {} /\ DOMAIN <<>> = {}
    OBVIOUS
  <2>2. <<>> = listed
    BY <2>1
  <2>3. QED
    BY <2>2 DEF Listed
<1>3. QED
  BY <1>1, <1>2, HarnessConstants DEF Idle

LEMMA TypesStarted == Init => TypeInv
<1> SUFFICES ASSUME Init PROVE TypeInv
  OBVIOUS
<1>1. TurnTyped /\ RowTyped
  BY IdleFields DEF Init, RowTyped, TurnTyped, Phases
<1>2. WorldTyped /\ TalkTyped
  BY HarnessConstants DEF Init, WorldTyped, TalkTyped
<1>3. QED
  BY <1>1, <1>2 DEF TypeInv

(* The functions a turn is offered are registered ones.                    *)
LEMMA OffersAreTools ==
  ASSUME registry \in Registries, stage \in Stages, NEW offered \in Offers(stage)
  PROVE  offered \subseteq Tools
<1>1. registry \subseteq Tools
  BY HarnessConstants
<1>2. Scoped(stage) \subseteq Tools
  BY <1>1 DEF Scoped
<1>3. offered \in SUBSET Scoped(stage)
  BY DEF Offers, kSubset
<1>4. QED
  BY <1>2, <1>3

(* A resolved plan calls functions that are offered, and takes its inputs  *)
(* from earlier steps of its own.                                          *)
LEMMA ResolvedOK ==
  ASSUME turn.offered \subseteq Tools, NEW proposal \in Proposals, NEW plan \in Plans(proposal)
  PROVE  PlanOK(plan) /\ Listed(plan)
<1>1. PICK b \in Bindings(proposal, turn.offered) : None \notin Range(b) /\ plan = Resolve(proposal, b)
  BY DEF Plans
<1>2. PICK S : proposal \in Seq(S)
  BY HarnessConstants
<1>3. DOMAIN plan = 1 .. Len(proposal) /\ Len(proposal) \in Nat
  BY <1>1, <1>2 DEF Resolve
<1>4. Len(plan) = Len(proposal) /\ Listed(plan)
  <2>1. plan = [k \in 1 .. Len(proposal) |-> [tool |-> plan[k].tool, sources |-> plan[k].sources]]
    BY <1>1, <1>3 DEF Resolve
  <2>2. QED
    BY <1>3, <2>1 DEF Listed
<1> SUFFICES ASSUME NEW k \in DOMAIN plan
             PROVE  /\ plan[k].tool \in Tools
                    /\ \A f \in DOMAIN plan[k].sources : plan[k].sources[f] \in Missing .. Len(plan)
  BY <1>4 DEF PlanOK
<1>5. k \in DOMAIN proposal /\ plan[k].tool = b[k]
      /\ plan[k].sources = [f \in Params[b[k]] |-> Source(proposal, k, f)]
  BY <1>1 DEF Resolve
<1>6. b[k] \in Tools
  <2>1. b[k] \in turn.offered \cup {None} /\ b[k] \in Range(b)
    BY <1>1, <1>5 DEF Bindings, Range
  <2>2. QED
    BY <1>1, <2>1
<1>7. ASSUME NEW f PROVE Source(proposal, k, f) \in Missing .. Len(plan)
  <2>1. Producer(proposal, f) \in Nat \cup {Missing}
    <3> DEFINE yields == {j \in DOMAIN proposal : f \in proposal[j].produces}
    <3>1. yields \in SUBSET Nat
      BY <1>2
    <3>2. yields /= {} => Min(yields) \in Nat
      BY <3>1, MinIsLeast
    <3>3. QED
      BY <3>2 DEF Producer
  <2>2. Given \in Missing .. Len(plan) /\ Missing \in Missing .. Len(plan)
    BY <1>3, <1>4 DEF Given, Missing
  <2>3. ASSUME Producer(proposal, f) < k PROVE Producer(proposal, f) \in Missing .. Len(plan)
    BY <1>3, <1>4, <1>5, <2>1, <2>3 DEF Missing
  <2>4. QED
    BY <2>2, <2>3 DEF Source
<1>8. QED
  BY <1>5, <1>6, <1>7

(* What happens around the turn.                                           *)
LEMMA WorldStep == ASSUME IInv, TypeInv, [Next]_vars PROVE WorldTyped'
<1>1. ASSUME NEW k \in turn.flying, NEW result \in Results, Return(k, result) PROVE WorldTyped'
  <2>1. turn.plan[k].tool \in Tools /\ stage \in Stages
    BY DEF TypeInv, TurnTyped, PlanOK, WorldTyped
  <2>2. turn.phase \notin {"idle", "tell"}
    BY DEF IInv, CallsInOrder, NothingUnderWay
  <2>3. turn.stage \in Stages /\ Moves[turn.stage][turn.plan[k].tool] \in Stages
    BY <2>1, <2>2, HarnessConstants DEF TypeInv, TurnTyped
  <2>4. stage' \in Stages
    BY <1>1, <2>1, <2>3 DEF Return, StagesAfter, Transition
  <2>5. QED
    BY <1>1, <2>4 DEF TypeInv, WorldTyped, Return, talk
<1>2. CASE Engine
  BY <1>1, <1>2 DEF TypeInv, WorldTyped, Engine, world, Get, Declined, AskAgain, Discard, Resume, Clear,
     Reply, Replan, PlanFails, Plan, StartWave, StartRead, ReadsDone, StartWrite, EndWave,
     Answer, GiveUp, Delete, Insert, Tell, talk
<1>3. CASE ModelFails \/ Change \/ Crash \/ TellsTwice
  BY <1>3, HarnessConstants DEF TypeInv, WorldTyped, ModelFails, Change, Crash, TellsTwice, talk
<1>4. CASE \E word \in Words : Message(word)
  <2>1. turns' = turns + 1 /\ turns < MaxTurns /\ UNCHANGED <<registry, stage, faults>>
    BY <1>4 DEF Message, world
  <2>2. QED
    BY <2>1, HarnessConstants DEF TypeInv, WorldTyped
<1>5. CASE UNCHANGED vars \/ \E m \in inbox : Begin(m)
  BY <1>5 DEF TypeInv, WorldTyped, vars, Begin, world, talk
<1>6. QED
  BY <1>2, <1>3, <1>4, <1>5 DEF Next

(* What is said.  A message that is delivered again is one that was sent.  *)
LEMMA TalkStep == ASSUME TypeInv, [Next]_vars PROVE TalkTyped'
<1>1. TalkTyped /\ (turn.phase /= "idle" => turn.message \in Messages)
  BY DEF TypeInv, TurnTyped
<1>2. ASSUME NEW kind, NEW k, reply' = Told(kind, k), questions' = questions,
             inbox' \in {inbox, inbox \cup {turn.message}}, turn.phase /= "idle"
      PROVE  TalkTyped'
  <2>1. /\ reply'.approve = (IF kind = "approve" THEN questions ELSE 0)
        /\ reply'.latest = (IF kind = "approve" THEN questions ELSE reply.latest)
    BY <1>2 DEF Told
  <2>2. QED
    BY <1>1, <1>2, <2>1 DEF TalkTyped
<1>3. CASE Tell \/ TellsTwice
  BY <1>2, <1>3 DEF Tell, TellsTwice
<1>4. CASE Insert
  BY <1>1, <1>4 DEF TalkTyped, Insert
<1>5. CASE ModelFails \/ Crash
  <2>1. Fails /\ questions' = questions /\ turn.phase /= "idle"
    BY <1>5 DEF ModelFails, Crash
  <2>2. reply'.approve = reply.approve /\ reply'.latest = reply.latest
    BY <2>1, <1>1 DEF Fails
  <2>3. QED
    BY <1>1, <2>1, <2>2 DEF Fails, TalkTyped
<1>6. ASSUME NEW word \in Words, Message(word) PROVE TalkTyped'
  <2>1. turns' \in Nat
    BY <1>6, HarnessConstants DEF Message, TypeInv, WorldTyped
  <2>2. [n |-> turns', word |-> word, asked |-> reply.approve, latest |-> reply.latest] \in Messages
    BY <1>1, <2>1 DEF TalkTyped, Messages
  <2>3. QED
    BY <1>1, <1>6, <2>2 DEF Message, TalkTyped
<1>7. ASSUME NEW m \in inbox, Begin(m) PROVE TalkTyped'
  BY <1>1, <1>7 DEF Begin, TalkTyped
<1>8. CASE Change \/ UNCHANGED vars \/ (Engine /\ ~Tell /\ ~Insert)
  <2>1. UNCHANGED talk
    BY <1>8 DEF Change, vars, Engine, Get, Declined, AskAgain, Discard, Resume, Clear, Reply, Replan,
       PlanFails, Plan, StartWave, StartRead, ReadsDone, StartWrite, EndWave, Answer, GiveUp, Delete,
       Return
  <2>2. QED
    BY <1>1, <2>1 DEF TalkTyped, talk
<1>9. QED
  BY <1>3, <1>4, <1>5, <1>6, <1>7, <1>8 DEF Next

(* The row: what it holds is the turn's, with budget left if it is to ask  *)
(* for information.                                                        *)
LEMMA RowStep == ASSUME IInv, TypeInv, [Next]_vars PROVE RowTyped'
<1>1. CASE Insert
  <2>1. /\ parked' = Row(turn.outcome.kind, turn.outcome.at, AskedField)
        /\ turn.phase = "insert"
    BY <1>1 DEF Insert
  <2>2. /\ parked'.reason = turn.outcome.kind /\ parked'.at = turn.outcome.at
        /\ parked'.plan = turn.plan /\ parked'.ledger = turn.ledger /\ parked'.recoils = turn.recoils
    BY <2>1 DEF Row
  <2>3. /\ turn.outcome.kind \in {"ask", "info"}
        /\ turn.outcome.at \in DOMAIN turn.plan \ DOMAIN turn.ledger
    BY <2>1 DEF IInv, Halted, NextWave
  <2>4. QED
    BY <2>1, <2>2, <2>3 DEF TypeInv, TurnTyped, RowTyped
<1>2. CASE parked' \in {parked, NoRow}
  BY <1>2 DEF TypeInv, RowTyped
<1>3. ASSUME ~Insert, Engine PROVE parked' \in {parked, NoRow}
  BY <1>3 DEF Engine, Get, Declined, AskAgain, Discard, Resume, Clear, Reply, Replan, PlanFails, Plan,
     StartWave, StartRead, ReadsDone, StartWrite, EndWave, Answer, GiveUp, Delete, Return, Tell
<1>4. ASSUME \/ ModelFails \/ Change \/ Crash \/ TellsTwice \/ UNCHANGED vars
             \/ (\E word \in Words : Message(word)) \/ \E m \in inbox : Begin(m)
      PROVE  parked' = parked
  BY <1>4 DEF ModelFails, Change, Crash, TellsTwice, Message, Begin, vars
<1>5. QED
  BY <1>1, <1>2, <1>3, <1>4 DEF Next

(* The turn.  It ends, goes on to another phase, or one of its parts       *)
(* changes.                                                                *)
LEMMA IdleTyped == ASSUME turn' = Idle PROVE TurnTyped'
BY IdleFields DEF TurnTyped, Phases

LEMMA EndTyped ==
  ASSUME TurnTyped, turn.phase /= "idle", NEW kind, NEW k, Ends(kind, k) PROVE TurnTyped'
<1>1. /\ turn'.phase = "tell" /\ turn'.message = turn.message /\ turn'.offered = {}
      /\ turn'.plan = <<>> /\ turn'.ledger = <<>> /\ turn'.flying = {} /\ turn'.todo = {}
      /\ turn'.wave = {} /\ turn'.recoils = 0
  BY DEF Ends, Idle
<1>2. turn.message \in Messages
  BY DEF TurnTyped
<1>3. QED
  BY <1>1, <1>2, IdleFields DEF TurnTyped, Phases

LEMMA GoesTyped ==
  ASSUME IsTurn(turn), TurnTyped, NEW p \in Phases, Goes(p), turn.phase \notin {"idle", "tell"},
         p \in {"idle", "get", "resume", "plan", "replan", "tell"} =>
           DOMAIN turn.ledger = {} /\ turn.wave = {},
         p = "insert" /\ turn.outcome.kind = "info" => turn.recoils < MaxRecoils
  PROVE  TurnTyped'
<1>1. /\ turn'.phase = p /\ turn'.message = turn.message /\ turn'.stage = turn.stage
      /\ turn'.offered = turn.offered /\ turn'.plan = turn.plan /\ turn'.ledger = turn.ledger
      /\ turn'.recoils = turn.recoils /\ turn'.wave = turn.wave /\ turn'.todo = turn.todo
      /\ turn'.flying = turn.flying /\ turn'.outcome = turn.outcome
  BY DEF Goes, IsTurn, TurnFields
<1>2. QED
  BY <1>1 DEF TurnTyped

LEMMA BeginTyped == ASSUME TypeInv, NEW m \in inbox, Begin(m) PROVE TurnTyped'
<1>1. PICK offered \in Offers(stage) :
        turn' = [Idle EXCEPT !.phase = "get", !.message = m, !.stage = stage, !.offered = offered]
  BY DEF Begin
<1>2. /\ turn'.phase = "get" /\ turn'.message = m /\ turn'.stage = stage /\ turn'.offered = offered
      /\ turn'.plan = <<>> /\ turn'.ledger = <<>> /\ turn'.flying = {} /\ turn'.todo = {}
      /\ turn'.wave = {} /\ turn'.recoils = 0
  BY <1>1 DEF Idle
<1>3. offered \subseteq Tools /\ stage \in Stages /\ m \in Messages
  BY OffersAreTools DEF TypeInv, WorldTyped, TalkTyped
<1>4. QED
  BY <1>2, <1>3, IdleFields DEF TurnTyped, Phases

(* A resumed plan is the row's; an answer costs one recoil, and the row    *)
(* had one left.                                                           *)
LEMMA ResumeTyped == ASSUME IInv, TypeInv, Resume PROVE TurnTyped'
<1>1. /\ turn.phase = "resume" /\ turn' = Rehydrated
      /\ parked.reason \in {"ask", "info"}
  BY DEF Resume, talk
<1>2. parked /= NoRow
  BY <1>1 DEF NoRow, None
<1> DEFINE plan == [parked.plan EXCEPT ![parked.at] = Answered(@)]
<1>3. /\ turn'.phase = "clear" /\ turn'.message = turn.message /\ turn'.stage = turn.stage
      /\ turn'.offered = turn.offered /\ turn'.plan = plan /\ turn'.ledger = parked.ledger
      /\ turn'.recoils = (IF parked.reason = "ask" THEN parked.recoils ELSE parked.recoils + 1)
      /\ turn'.wave = turn.wave /\ turn'.todo = turn.todo /\ turn'.flying = turn.flying
  BY <1>1 DEF Rehydrated, IInv, Shape, IsTurn, TurnFields
<1>4. PlanOK(parked.plan) /\ Listed(parked.plan)
  BY <1>2 DEF TypeInv, RowTyped
<1>5. DOMAIN plan = DOMAIN parked.plan /\ Len(plan) = Len(parked.plan) /\ Listed(plan)
  <2>1. PICK n \in Nat :
          parked.plan = [k \in 1 .. n |->
                           [tool |-> parked.plan[k].tool, sources |-> parked.plan[k].sources]]
    BY <1>4 DEF Listed
  <2>2. ASSUME NEW k \in 1 .. n
        PROVE  plan[k] = [tool |-> plan[k].tool, sources |-> plan[k].sources]
    <3> DEFINE step == parked.plan[k]
    <3>1. step = [tool |-> step.tool, sources |-> step.sources]
      BY <2>1
    <3>2. plan[k] = step \/ plan[k] = [step EXCEPT !.sources[parked.field] = Given]
      BY <2>1 DEF Answered
    <3>3. QED
      BY <3>1, <3>2
  <2>3. plan = [k \in 1 .. n |-> plan[k]]
    BY <2>1
  <2> HIDE DEF plan
  <2>4. plan = [k \in 1 .. n |-> [tool |-> plan[k].tool, sources |-> plan[k].sources]]
    BY <2>2, <2>3
  <2>5. Len(plan) = n /\ Len(parked.plan) = n /\ DOMAIN plan = 1 .. n
    BY <2>1, <2>3
  <2>6. QED
    BY <2>1, <2>4, <2>5 DEF Listed
<1>6. PlanOK(plan)
  <2> SUFFICES ASSUME NEW k \in DOMAIN plan
               PROVE  /\ plan[k].tool \in Tools
                      /\ \A f \in DOMAIN plan[k].sources : plan[k].sources[f] \in Missing .. Len(plan)
    BY DEF PlanOK
  <2>1. /\ parked.plan[k].tool \in Tools
        /\ \A f \in DOMAIN parked.plan[k].sources :
             parked.plan[k].sources[f] \in Missing .. Len(parked.plan)
    BY <1>4 DEF PlanOK
  <2>2. Len(parked.plan) \in Nat
    BY <1>4 DEF Listed
  <2>3. Given \in Missing .. Len(parked.plan)
    BY <2>2 DEF Given, Missing
  <2>4. CASE k /= parked.at \/ parked.field \notin DOMAIN parked.plan[k].sources
    <3>1. plan[k] = parked.plan[k]
      BY <2>4 DEF Answered
    <3>2. QED
      BY <2>1, <3>1, <1>5
  <2>5. CASE k = parked.at /\ parked.field \in DOMAIN parked.plan[k].sources
    <3> DEFINE step == parked.plan[k]
    <3>1. plan[k] = [step EXCEPT !.sources[parked.field] = Given]
      BY <2>5 DEF Answered
    <3>2. step = [tool |-> step.tool, sources |-> step.sources]
      BY <1>4 DEF Listed
    <3>3. plan[k].tool = step.tool /\ plan[k].sources = [step.sources EXCEPT ![parked.field] = Given]
      BY <3>1, <3>2
    <3>4. QED
      BY <2>1, <2>3, <2>5, <3>3, <1>5
  <2>6. QED
    BY <2>4, <2>5
<1>7. turn'.recoils \in 0 .. MaxRecoils
  BY <1>1, <1>2, <1>3, HarnessConstants DEF TypeInv, RowTyped
<1>8. turn.wave = {} /\ turn.todo = {} /\ turn.flying = {}
  BY <1>1 DEF IInv, CallsInOrder, NothingUnderWay, TypeInv, TurnTyped
<1>9. DOMAIN parked.ledger \subseteq DOMAIN plan
  BY <1>2, <1>5 DEF TypeInv, RowTyped
<1> HIDE DEF plan
<1>10. QED
  BY <1>1, <1>3, <1>5, <1>6, <1>7, <1>8, <1>9 DEF TypeInv, TurnTyped, Phases

LEMMA PlanTyped == ASSUME IInv, TypeInv, Plan PROVE TurnTyped'
<1>1. PICK proposal \in Proposals : \E plan \in Plans(proposal) :
        turn' = [turn EXCEPT !.phase = "wave", !.plan = plan]
  BY DEF Plan, talk
<1>2. PICK plan \in Plans(proposal) : turn' = [turn EXCEPT !.phase = "wave", !.plan = plan]
  BY <1>1
<1>3. turn.phase \in {"plan", "replan"} /\ PlanOK(plan) /\ Listed(plan)
  BY ResolvedOK DEF Plan, TypeInv, TurnTyped
<1>4. /\ turn'.phase = "wave" /\ turn'.message = turn.message /\ turn'.stage = turn.stage
      /\ turn'.offered = turn.offered /\ turn'.plan = plan /\ turn'.ledger = turn.ledger
      /\ turn'.recoils = turn.recoils /\ turn'.wave = turn.wave /\ turn'.todo = turn.todo
      /\ turn'.flying = turn.flying
  BY <1>2 DEF IInv, Shape, IsTurn, TurnFields
<1>5. turn.todo = {} /\ turn.flying = {} /\ turn.wave = {} /\ DOMAIN turn.ledger = {}
  BY <1>3 DEF IInv, CallsInOrder, NothingUnderWay, TypeInv, TurnTyped
<1>6. QED
  BY <1>3, <1>4, <1>5 DEF TypeInv, TurnTyped, Phases

(* While a plan is executed its steps move between what is to do, in       *)
(* flight and in the ledger.                                               *)
LEMMA WorkTyped ==
  ASSUME TurnTyped, turn.phase \notin {"idle", "tell"}, turn'.phase \in {"wave", "reads", "writes", "finish"},
         turn'.message = turn.message, turn'.stage = turn.stage, turn'.offered = turn.offered,
         turn'.plan = turn.plan, turn'.recoils = turn.recoils,
         turn'.flying \cup turn'.todo \cup turn'.wave \cup DOMAIN turn'.ledger \subseteq DOMAIN turn.plan,
         turn'.flying \cap DOMAIN turn'.ledger = {}
  PROVE  TurnTyped'
BY DEF TurnTyped, Phases

LEMMA StartWaveTyped == ASSUME IInv, TypeInv, StartWave PROVE TurnTyped'
<1> DEFINE wave == NextWave(turn.plan, turn.ledger)
<1>1. turn.phase = "wave"
      /\ \/ turn' = [turn EXCEPT !.phase = "finish", !.outcome = Outcome("done", 0)]
         \/ turn' = [turn EXCEPT !.phase = "finish", !.outcome = Outcome("stall", 0)]
         \/ turn' = [turn EXCEPT !.phase = "reads", !.wave = wave, !.todo = wave]
  BY DEF StartWave, talk
<1>2. wave \subseteq DOMAIN turn.plan
  BY DEF NextWave
<1> HIDE DEF wave
<1>3. /\ turn'.phase \in {"reads", "finish"} /\ turn'.message = turn.message /\ turn'.stage = turn.stage
      /\ turn'.offered = turn.offered /\ turn'.plan = turn.plan /\ turn'.ledger = turn.ledger
      /\ turn'.recoils = turn.recoils /\ turn'.flying = turn.flying
      /\ turn'.wave \in {turn.wave, wave} /\ turn'.todo \in {turn.todo, wave}
  <2>1. IsTurn(turn)
    BY DEF IInv, Shape
  <2>2. CASE turn' = [turn EXCEPT !.phase = "reads", !.wave = wave, !.todo = wave]
    BY <2>1, <2>2 DEF IsTurn, TurnFields
  <2>3. ASSUME NEW outcome, turn' = [turn EXCEPT !.phase = "finish", !.outcome = outcome]
        PROVE  /\ turn'.phase = "finish" /\ turn'.message = turn.message /\ turn'.stage = turn.stage
               /\ turn'.offered = turn.offered /\ turn'.plan = turn.plan /\ turn'.ledger = turn.ledger
               /\ turn'.recoils = turn.recoils /\ turn'.flying = turn.flying
               /\ turn'.wave = turn.wave /\ turn'.todo = turn.todo
    BY <2>1, <2>3 DEF IsTurn, TurnFields
  <2>4. QED
    BY <1>1, <2>2, <2>3
<1>4. QED
  BY <1>1, <1>2, <1>3, WorkTyped DEF TypeInv, TurnTyped

(* A step of a wave is started or refused.                                 *)
LEMMA StartTyped ==
  ASSUME IInv, TypeInv, turn.phase \in {"reads", "writes"}, NEW k \in turn.todo, Starts(k) \/ Halts(k)
  PROVE  TurnTyped'
<1>1. /\ turn'.phase = turn.phase /\ turn'.message = turn.message /\ turn'.stage = turn.stage
      /\ turn'.offered = turn.offered /\ turn'.plan = turn.plan /\ turn'.ledger = turn.ledger
      /\ turn'.recoils = turn.recoils /\ turn'.flying \in {turn.flying, turn.flying \cup {k}}
      /\ turn'.wave = turn.wave /\ turn'.todo = turn.todo \ {k}
  <2>1. CASE Starts(k)
    BY <2>1 DEF Starts, IInv, Shape, IsTurn, TurnFields
  <2>2. CASE Halts(k)
    BY <2>2 DEF Halts, IInv, Shape, IsTurn, TurnFields
  <2>3. QED
    BY <2>1, <2>2
<1>2. k \notin DOMAIN turn.ledger
  BY DEF IInv, Counted
<1>3. QED
  BY <1>1, <1>2, WorkTyped DEF TypeInv, TurnTyped

LEMMA StartReadTyped == ASSUME IInv, TypeInv, StartRead PROVE TurnTyped'
<1>1. Reads \in SUBSET Nat /\ Reads # {}
  BY DEF IInv, Shape, StartRead, Reads
<1>2. Min(Reads) \in turn.todo
  BY <1>1, MinIsLeast DEF Reads
<1>3. QED
  BY <1>2, StartTyped DEF StartRead

LEMMA StartWriteTyped == ASSUME IInv, TypeInv, StartWrite PROVE TurnTyped'
<1>1. turn.todo \in SUBSET Nat /\ turn.todo # {}
  BY DEF IInv, Shape, StartWrite
<1>2. Min(turn.todo) \in turn.todo
  BY <1>1, MinIsLeast
<1>3. QED
  BY <1>2, StartTyped DEF StartWrite

LEMMA ReturnTyped ==
  ASSUME IInv, TypeInv, NEW k \in turn.flying, NEW result \in Results, Return(k, result)
  PROVE  TurnTyped'
<1> DEFINE ledger == [j \in DOMAIN turn.ledger \cup {k} |-> IF j = k THEN result ELSE turn.ledger[j]]
<1>1. turn' = [turn EXCEPT !.flying = @ \ {k}, !.ledger = ledger]
  BY DEF Return, talk
<1>2. DOMAIN ledger = DOMAIN turn.ledger \cup {k}
  OBVIOUS
<1> HIDE DEF ledger
<1>3. /\ turn'.phase = turn.phase /\ turn'.message = turn.message /\ turn'.stage = turn.stage
      /\ turn'.offered = turn.offered /\ turn'.plan = turn.plan /\ turn'.ledger = ledger
      /\ turn'.recoils = turn.recoils /\ turn'.flying = turn.flying \ {k}
      /\ turn'.wave = turn.wave /\ turn'.todo = turn.todo
  BY <1>1 DEF IInv, Shape, IsTurn, TurnFields
<1>4. turn.phase \in {"reads", "writes"}
  BY DEF IInv, Shape, CallsInOrder, NothingUnderWay, Phases
<1>5. QED
  BY <1>2, <1>3, <1>4, WorkTyped DEF TypeInv, TurnTyped

LEMMA EndWaveTyped == ASSUME IInv, TypeInv, EndWave PROVE TurnTyped'
<1>1. PICK step :
        /\ turn.phase = "writes"
        /\ \/ turn' = [turn EXCEPT !.phase = "finish"]
           \/ turn' = [turn EXCEPT !.phase = "finish", !.outcome = Outcome("dependency", step)]
           \/ turn' = [turn EXCEPT !.phase = "wave", !.wave = {}]
  BY DEF EndWave, talk
<1>2. /\ turn'.phase \in {"wave", "finish"} /\ turn'.message = turn.message /\ turn'.stage = turn.stage
      /\ turn'.offered = turn.offered /\ turn'.plan = turn.plan /\ turn'.ledger = turn.ledger
      /\ turn'.recoils = turn.recoils /\ turn'.flying = turn.flying
      /\ turn'.wave \in {turn.wave, {}} /\ turn'.todo = turn.todo
  <2>1. IsTurn(turn)
    BY DEF IInv, Shape
  <2>2. CASE turn' = [turn EXCEPT !.phase = "finish"]
    BY <2>1, <2>2 DEF IsTurn, TurnFields
  <2>3. CASE turn' = [turn EXCEPT !.phase = "finish", !.outcome = Outcome("dependency", step)]
    BY <2>1, <2>3 DEF IsTurn, TurnFields
  <2>4. CASE turn' = [turn EXCEPT !.phase = "wave", !.wave = {}]
    BY <2>1, <2>4 DEF IsTurn, TurnFields
  <2>5. QED
    BY <1>1, <2>2, <2>3, <2>4
<1>3. QED
  BY <1>1, <1>2, WorkTyped DEF TypeInv, TurnTyped

LEMMA EngineTyped == ASSUME IInv, TypeInv, Engine PROVE TurnTyped'
<1>1. IsTurn(turn) /\ TurnTyped
  BY DEF IInv, Shape, TypeInv
<1>2. CASE Declined \/ AskAgain \/ Reply \/ PlanFails \/ Answer \/ GiveUp \/ Insert
  BY <1>1, <1>2, EndTyped DEF Declined, AskAgain, Reply, PlanFails, Answer, GiveUp, Insert
<1>3. CASE Get \/ Discard \/ Replan
  BY <1>1, <1>3, GoesTyped DEF Get, Discard, Replan, TurnTyped, Phases
<1>4. CASE Clear \/ ReadsDone
  BY <1>1, <1>4, GoesTyped DEF Clear, ReadsDone, Phases
<1>5. CASE Delete
  BY <1>1, <1>5, GoesTyped DEF Delete, Parks, Phases
<1>6. CASE Resume \/ Plan \/ StartWave \/ StartRead \/ StartWrite \/ EndWave
  BY <1>6, ResumeTyped, PlanTyped, StartWaveTyped, StartReadTyped, StartWriteTyped, EndWaveTyped
<1>7. CASE \E k \in turn.flying, result \in Results : Return(k, result)
  BY <1>7, ReturnTyped
<1>8. CASE Tell
  BY <1>8, IdleTyped DEF Tell
<1>9. QED
  BY <1>2, <1>3, <1>4, <1>5, <1>6, <1>7, <1>8 DEF Engine

LEMMA TypesStep == ASSUME IInv, TypeInv, [Next]_vars PROVE TypeInv'
<1>1. TurnTyped'
  <2>1. CASE Engine
    BY <2>1, EngineTyped
  <2>2. CASE ModelFails \/ Crash \/ TellsTwice
    BY <2>2, IdleTyped DEF ModelFails, Crash, TellsTwice, Fails
  <2>3. CASE Change \/ UNCHANGED vars \/ \E word \in Words : Message(word)
    BY <2>3 DEF Change, vars, Message, TypeInv, TurnTyped
  <2>4. CASE \E m \in inbox : Begin(m)
    BY <2>4, BeginTyped
  <2>5. QED
    BY <2>1, <2>2, <2>3, <2>4 DEF Next
<1>2. QED
  BY <1>1, RowStep, WorldStep, TalkStep DEF TypeInv

(* Types: a turn's ledger, and the steps that are to do or with the back   *)
(* end, are of its plan; a plan's inputs come from its own steps; and no   *)
(* plan is parked for information once its recoil budget is spent.         *)
THEOREM TypeCorrect == Spec => []HarnessTypeOK
<1>1. Init => TypeInv
  BY TypesStarted
<1>2. IInv /\ TypeInv /\ [Next]_vars => TypeInv'
  BY TypesStep
<1>3. TypeInv => HarnessTypeOK
  BY DEF TypeInv, TurnTyped, RowTyped, WorldTyped, TalkTyped, HarnessTypeOK
<1>4. QED
  BY <1>1, <1>2, <1>3, Invariant, PTL DEF Spec
=============================================================================

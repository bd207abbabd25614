------------------------------ MODULE Harness ------------------------------
(***************************************************************************)
(* The harness: a turn plans, binds the steps to functions, derives their  *)
(* order from the data they need, executes them in waves behind a gate,    *)
(* and parks the plan when it must ask the user, who answers in a later    *)
(* turn.  One session, whose turns follow each other (module Turns has     *)
(* several sessions and channels).  A message may come while a turn is in  *)
(* progress, and comes again when its turn failed (module Delivery).       *)
(*                                                                         *)
(* Abstractions.  Values are left out: a parameter is given, comes from an *)
(* earlier step, or is missing; a call returns a value, null or an error.  *)
(* The planner proposes any of Proposals, the semantic search of the       *)
(* binder finds any offered function or none, and the clock and the check  *)
(* for identical calls may refuse any call.  Persisting the ledger has no  *)
(* effect: it is read back under the id of the turn, which is fresh.  What  *)
(* follows the harness in a turn, up to the queueing of the reply, is one   *)
(* step.                                                                   *)
(***************************************************************************)
EXTENDS Integers, Sequences, FiniteSets, SequencesExt, FiniteSetsExt, Functions, TLC

CONSTANTS
  Tools,        \* names of the back end's functions
  Params,       \* required parameters of each
  Levels,       \* declared safety of each: read, write, destructive
  Overrides,    \* per function: [mode, confirm] of the configuration
  ReadOnly,     \* default_mode is read_only
  ConfirmWrites,\* require_confirmation_for includes write
  Registries,   \* sets of functions that may be registered
  TopK,         \* how many of them are offered when there are more than Threshold
  Threshold,
  Stages,       \* lifecycle states of the customer
  Blocked,      \* functions not available in a stage
  Unmet,        \* stages whose required profile fields are absent
  Moves,        \* the stage after a function succeeded in a stage
  Proposals,    \* plans the model may emit: sequences of [id, tool, hints, produces]
  MaxInstructions, MaxToolCalls, MaxRecoils,
  Moments,      \* bound: phases of a turn at which the user writes
  MaxTurns, MaxWaiting, MaxFaults \* bounds: messages of the user, those that
                \* wait, crashes and changes

None == "none"
Profile == "profile"
Given == 0
Missing == -1
Words == {"yes", "no", "text"}
Modes == {None, "read", "write", "destructive", "blocked"}
Results == {"value", "null", "error"}

ASSUME HarnessConstants ==
  /\ Levels \in [Tools -> {"read", "write", "destructive"}] /\ None \notin Tools
  /\ Overrides \in [Tools -> [mode : Modes, confirm : {"unset", "yes", "no"}]]
  /\ Registries \subseteq SUBSET Tools /\ Registries /= {}
  /\ Blocked \in [Stages -> SUBSET Tools] /\ Unmet \subseteq Stages
  /\ Moves \in [Stages -> [Tools -> Stages]]
  /\ ReadOnly \in BOOLEAN /\ ConfirmWrites \in BOOLEAN
  /\ {TopK, Threshold, MaxInstructions, MaxToolCalls, MaxRecoils, MaxTurns, MaxWaiting,
      MaxFaults} \subseteq Nat
  /\ LET fields == UNION Range(Params)
     IN  Proposals \subseteq Seq([id : Nat, tool : Tools \cup {None}, hints : SUBSET fields,
                                 produces : SUBSET fields])

VARIABLES
  turn,      \* the turn in progress, in memory
  parked,    \* the session's row of suspended_plans, or NoRow
  registry,  \* the functions the back end offers
  stage,     \* the customer's lifecycle state
  inbox,     \* the messages whose turns have not begun, or begin again
  reply,     \* history: the last thing the user was told
  questions, \* history: rows parked; the row there is holds the latest question
  runs,      \* history: how often each step of the latest plan was started
  turns, faults

world == <<registry, stage, faults>>
talk == <<inbox, turns, questions, reply>>
vars == <<turn, parked, runs, world, talk>>
-----------------------------------------------------------------------------
(* Safety policy, gate and budget.                                         *)
Level(t) ==
  CASE Overrides[t].mode = "blocked" -> "destructive"
    [] Overrides[t].mode = None -> Levels[t]
    [] OTHER -> Overrides[t].mode

Confirm(t) ==
  IF Overrides[t].confirm = "unset" THEN ConfirmWrites ELSE Overrides[t].confirm = "yes"

Safety(t) ==
  CASE Level(t) = "destructive" -> "deny"
    [] Level(t) = "write" /\ ReadOnly /\ Overrides[t].mode /= "write" -> "deny"
    [] Level(t) = "write" /\ Confirm(t) -> "ask"
    [] OTHER -> "allow"

(* The functions a turn is given: those of its stage, and of many only the *)
(* few that resemble the message.                                          *)
Scoped(s) == registry \ Blocked[s]
Offers(s) ==
  IF Cardinality(Scoped(s)) <= Threshold THEN {Scoped(s)} ELSE kSubset(TopK, Scoped(s))
-----------------------------------------------------------------------------
(* Binding and resolving.  A step of a plan is its function and, for each  *)
(* required parameter, where its value comes from: Given, the position of  *)
(* the step that yields it, or Missing.                                    *)
Producer(proposal, f) ==
  LET yields == {k \in DOMAIN proposal : f \in proposal[k].produces}
  IN  IF yields = {} THEN Missing ELSE Min(yields)

Source(proposal, k, f) ==
  LET j == Producer(proposal, f)
  IN  IF f \in proposal[k].hints THEN Given ELSE IF j < k THEN j ELSE Missing

Resolve(proposal, tools) ==
  [k \in DOMAIN proposal |->
     [tool |-> tools[k], sources |-> [f \in Params[tools[k]] |-> Source(proposal, k, f)]]]

DuplicateIds(proposal) == ~IsInjective([k \in DOMAIN proposal |-> proposal[k].id])

(* What the binder may choose for a step: the planner's function if it is  *)
(* offered, else what the search finds, or nothing.                        *)
Bindings(proposal, offered) ==
  {b \in [DOMAIN proposal -> offered \cup {None}] :
     \A k \in DOMAIN proposal : proposal[k].tool \in offered => b[k] = proposal[k].tool}

NeedsOf(step) == {step.sources[f] : f \in DOMAIN step.sources} \ {Given, Missing}

Tangled(plan) ==
  \E ks \in SUBSET DOMAIN plan : ks /= {} /\ \A k \in ks : NeedsOf(plan[k]) \cap ks /= {}

NextWave(plan, ledger) ==
  {k \in DOMAIN plan \ DOMAIN ledger : NeedsOf(plan[k]) \subseteq DOMAIN ledger}
-----------------------------------------------------------------------------
(* Turns.  The outcome of a plan is a kind and the step it is about.       *)
Phases == {"idle", "get", "resume", "clear", "plan", "replan", "wave", "reads", "writes",
           "finish", "insert", "tell"}
Outcome(kind, k) == [kind |-> kind, at |-> k]
Going == Outcome("none", 0)

(* `asked' is the question the user was shown last when he wrote, or 0 when *)
(* he was told something else, and `latest' the latest he had been shown.  *)
Messages == [n : Nat, word : Words, asked : Nat, latest : Nat]
NoMessage == [n |-> 0, word |-> None, asked |-> 0, latest |-> 0]

Idle == [phase |-> "idle", message |-> NoMessage, stage |-> None, offered |-> {}, plan |-> <<>>,
         ledger |-> <<>>, approved |-> 0, recoils |-> 0, calls |-> 0, wave |-> {}, todo |-> {},
         flying |-> {}, outcome |-> Going]

NoRow == [reason |-> None]

Row(reason, k, field) ==
  [reason |-> reason, at |-> k, field |-> field, plan |-> turn.plan, ledger |-> turn.ledger,
   recoils |-> turn.recoils, registry |-> registry]

Goes(phase) == turn' = [turn EXCEPT !.phase = phase]

(* What the user is going to be told.                                      *)
Ends(kind, k) ==
  turn' = [Idle EXCEPT !.phase = "tell", !.message = turn.message, !.outcome = Outcome(kind, k)]

(* What he is told; `asks' counts the questions put to him in a row.       *)
Told(kind, k) ==
  [kind |-> kind, at |-> k, approve |-> IF kind = "approve" THEN questions ELSE 0,
   latest |-> IF kind = "approve" THEN questions ELSE reply.latest,
   asks |-> IF kind \in {"question", "gaveup"} THEN reply.asks + 1 ELSE 0]

(* He is told nothing, and the queue delivers the message again, unless its *)
(* attempts are used up.                                                   *)
Fails ==
  /\ turn' = Idle /\ reply' = [reply EXCEPT !.kind = "failed"]
  /\ inbox' \in {inbox, inbox \cup {turn.message}}

(* The user writes, during a turn or between two.                          *)
Message(word) ==
  /\ turn.phase \in Moments /\ turns < MaxTurns /\ Cardinality(inbox) < MaxWaiting
  /\ turns' = turns + 1
  /\ inbox' = inbox \cup
       {[n |-> turns', word |-> word, asked |-> reply.approve, latest |-> reply.latest]}
  /\ UNCHANGED <<turn, parked, questions, reply, runs>> /\ UNCHANGED world

(* Of the messages that wait any may be next: retries fall due in any order. *)
Begin(m) ==
  /\ turn.phase = "idle" /\ inbox' = inbox \ {m}
  /\ \E offered \in Offers(stage) :
       turn' = [Idle EXCEPT !.phase = "get", !.message = m, !.stage = stage, !.offered = offered]
  /\ UNCHANGED <<parked, turns, questions, reply, runs>> /\ UNCHANGED world

(* SuspensionStore.get: a row past its time is deleted and not returned.   *)
Get ==
  /\ turn.phase = "get"
  /\ \/ parked = NoRow /\ Goes("plan") /\ UNCHANGED parked
     \/ parked /= NoRow /\ Goes("resume") /\ UNCHANGED parked
     \/ parked /= NoRow /\ Goes("plan") /\ parked' = NoRow
  /\ UNCHANGED <<runs, talk, world>>
-----------------------------------------------------------------------------
(* Resuming.                                                               *)
Declined ==
  /\ turn.phase = "resume" /\ turn.message.word = "no"
  /\ parked' = NoRow /\ Ends("dropped", 0)
  /\ UNCHANGED <<runs, talk, world>>

Stale == \/ parked.registry /= registry
         \/ \E k \in DOMAIN parked.plan : parked.plan[k].tool \notin turn.offered

(* Neither a yes nor a no, or an answer of the wrong type: ask again.      *)
AskAgain ==
  /\ turn.phase = "resume" /\ turn.message.word /= "no"
  /\ \/ parked.reason = "ask" /\ turn.message.word /= "yes"
     \/ parked.reason = "info" /\ ~Stale /\ parked.field /= Profile
  /\ Ends(IF parked.reason = "ask" THEN "approve" ELSE "question", parked.at)
  /\ UNCHANGED <<parked, runs, talk, world>>

Discard ==
  /\ turn.phase = "resume" /\ Stale
  /\ \/ parked.reason = "ask" /\ turn.message.word = "yes"
     \/ parked.reason = "info" /\ turn.message.word /= "no"
  /\ parked' = NoRow /\ Goes("plan")
  /\ UNCHANGED <<runs, talk, world>>

(* rehydrateSuspension: the answer becomes a given parameter, every entry  *)
(* of the ledger a completed step.                                         *)
Answered(step) ==
  IF parked.field \in DOMAIN step.sources THEN [step EXCEPT !.sources[parked.field] = Given] ELSE step

(* Mutant: an answer of any kind approves the step it is for.              *)
MutantRehydrated ==
  [turn EXCEPT !.phase = "clear",
     !.plan = [parked.plan EXCEPT ![parked.at] = Answered(@)], !.ledger = parked.ledger,
     !.approved = parked.at,
     !.recoils = IF parked.reason = "ask" THEN parked.recoils ELSE parked.recoils + 1]

Rehydrated ==
  [turn EXCEPT !.phase = "clear",
     !.plan = [parked.plan EXCEPT ![parked.at] = Answered(@)], !.ledger = parked.ledger,
     !.approved = IF parked.reason = "ask" THEN parked.at ELSE 0,
     !.recoils = IF parked.reason = "ask" THEN parked.recoils ELSE parked.recoils + 1]

Resume ==
  /\ turn.phase = "resume" /\ ~Stale
  /\ \/ parked.reason = "ask" /\ turn.message.word = "yes"
     \/ parked.reason = "info" /\ turn.message.word /= "no"
  /\ turn' = Rehydrated
  /\ UNCHANGED <<parked, runs, talk, world>>

(* Mutant: the plan runs before its row is deleted.                        *)
MutantClear ==
  /\ turn.phase = "clear" /\ Goes("wave")
  /\ UNCHANGED <<parked, runs, talk, world>>

Clear ==
  /\ turn.phase = "clear" /\ Goes("wave") /\ parked' = NoRow
  /\ UNCHANGED <<runs, talk, world>>
-----------------------------------------------------------------------------
(* Planning.                                                               *)
Reply ==
  /\ turn.phase \in {"plan", "replan"} /\ Ends("done", 0)
  /\ UNCHANGED <<parked, runs, talk, world>>

(* A refusal that the feasibility probe doubts is planned once more.       *)
Replan ==
  /\ turn.phase = "plan" /\ Goes("replan")
  /\ UNCHANGED <<parked, runs, talk, world>>

(* A plan that is too long, that names a step twice, that holds a step no   *)
(* function serves, or whose steps wait for each other, is not run.        *)
Feasible(proposal) ==
  Len(proposal) <= MaxInstructions /\ ~DuplicateIds(proposal)
Plans(proposal) ==
  {Resolve(proposal, b) : b \in {x \in Bindings(proposal, turn.offered) : None \notin Range(x)}}

PlanFails ==
  /\ turn.phase \in {"plan", "replan"}
  /\ \E proposal \in Proposals :
       \/ ~Feasible(proposal)
       \/ \E b \in Bindings(proposal, turn.offered) : None \in Range(b)
       \/ \E plan \in Plans(proposal) : Tangled(plan)
  /\ Ends("sorry", 0)
  /\ UNCHANGED <<parked, runs, talk, world>>

Plan ==
  /\ turn.phase \in {"plan", "replan"}
  /\ \E proposal \in Proposals :
       /\ Feasible(proposal)
       /\ \E plan \in Plans(proposal) :
            /\ ~Tangled(plan)
            /\ turn' = [turn EXCEPT !.phase = "wave", !.plan = plan]
            /\ runs' = [k \in DOMAIN plan |-> 0]
  /\ UNCHANGED <<parked, talk, world>>

(* The final reply is the model's, except where the code has the words.    *)
Synthesizes ==
  turn.outcome.kind = "done" \/ (turn.outcome.kind = "budget" /\ DOMAIN turn.ledger /= {})

(* The language model fails: so does the turn.                             *)
ModelFails ==
  /\ turn.phase \in {"plan", "replan"} \/ (turn.phase = "finish" /\ Synthesizes)
  /\ faults < MaxFaults /\ faults' = faults + 1 /\ Fails
  /\ UNCHANGED <<parked, registry, stage, questions, runs, turns>>
-----------------------------------------------------------------------------
(* Executing.                                                              *)
Lacks(k) ==
  {f \in DOMAIN turn.plan[k].sources :
     LET j == turn.plan[k].sources[f]
     IN  j = Missing \/ (j > Given /\ (j \notin DOMAIN turn.ledger \/ turn.ledger[j] /= "value"))}

IsRead(k) == Levels[turn.plan[k].tool] = "read"

(* evaluateGate, and the approval that the step may have.                  *)
Verdict(k) ==
  LET t == turn.plan[k].tool
  IN  CASE Lacks(k) /= {} -> "info"
        [] Lacks(k) = {} /\ t \in Blocked[turn.stage] -> "deny"
        [] Lacks(k) = {} /\ t \notin Blocked[turn.stage] /\ turn.stage \in Unmet -> "info"
        [] OTHER -> IF turn.approved = k /\ Safety(t) = "ask" THEN "allow" ELSE Safety(t)

(* noteToolCall: the clock and the check for identical calls may refuse too. *)
MayCall == turn.calls < MaxToolCalls

(* runInstruction up to the call: the step starts, or it says why not and  *)
(* the first of several such reasons is kept.                              *)
Starts(k) ==
  /\ Verdict(k) = "allow" /\ MayCall
  /\ turn' = [turn EXCEPT !.calls = @ + 1, !.flying = @ \cup {k}, !.todo = @ \ {k}]
  /\ runs' = [runs EXCEPT ![k] = @ + 1]

(* Mutant: a step that is refused stays on the list.                       *)
MutantHalts(k) ==
  LET why == IF Verdict(k) = "allow" THEN "budget" ELSE Verdict(k)
  IN  turn' = [turn EXCEPT !.outcome = IF @ = Going THEN Outcome(why, k) ELSE @] /\ UNCHANGED runs

Halts(k) ==
  LET why == IF Verdict(k) = "allow" THEN "budget" ELSE Verdict(k)
  IN  /\ turn' = [turn EXCEPT !.todo = @ \ {k}, !.outcome = IF @ = Going THEN Outcome(why, k) ELSE @]
      /\ UNCHANGED runs

StartWave ==
  /\ turn.phase = "wave"
  /\ LET wave == NextWave(turn.plan, turn.ledger)
     IN  turn' = IF DOMAIN turn.ledger = DOMAIN turn.plan
                 THEN [turn EXCEPT !.phase = "finish", !.outcome = Outcome("done", 0)]
                 ELSE IF wave = {}
                 THEN [turn EXCEPT !.phase = "finish", !.outcome = Outcome("stall", 0)]
                 ELSE [turn EXCEPT !.phase = "reads", !.wave = wave, !.todo = wave]
  /\ UNCHANGED <<parked, runs, talk, world>>

(* All reads of a wave are started before one of them answers; the writes  *)
(* follow one by one.                                                      *)
Reads == {k \in turn.todo : IsRead(k)}

StartRead ==
  /\ turn.phase = "reads" /\ Reads /= {}
  /\ Starts(Min(Reads)) \/ Halts(Min(Reads))
  /\ UNCHANGED <<parked, talk, world>>

ReadsDone ==
  /\ turn.phase = "reads" /\ Reads = {} /\ turn.flying = {}
  /\ Goes(IF turn.outcome = Going THEN "writes" ELSE "finish")
  /\ UNCHANGED <<parked, runs, talk, world>>

(* Mutant: the writes of a wave go out together.                           *)
MutantStartWrite ==
  /\ turn.phase = "writes" /\ turn.todo /= {} /\ turn.outcome = Going
  /\ Starts(Min(turn.todo)) \/ Halts(Min(turn.todo))
  /\ UNCHANGED <<parked, talk, world>>

StartWrite ==
  /\ turn.phase = "writes" /\ turn.todo /= {} /\ turn.flying = {} /\ turn.outcome = Going
  /\ Starts(Min(turn.todo)) \/ Halts(Min(turn.todo))
  /\ UNCHANGED <<parked, talk, world>>

(* applyStateTransition: by the stage at the start of the turn.            *)
Transition(tool) ==
  IF Moves[turn.stage][tool] = turn.stage THEN stage ELSE Moves[turn.stage][tool]

(* onToolSuccess: the tool has run, whether the new stage can be stored or  *)
(* not.                                                                    *)
StagesAfter(tool, result) == IF result = "error" THEN {stage} ELSE {stage, Transition(tool)}

(* A call returns; a success may move the customer to another stage.       *)
Return(k, result) ==
  /\ k \in turn.flying /\ (turn.phase = "reads" => Reads = {})
  /\ turn' = [turn EXCEPT !.flying = @ \ {k},
                           !.ledger = [j \in DOMAIN @ \cup {k} |-> IF j = k THEN result ELSE @[j]]]
  /\ stage' \in StagesAfter(turn.plan[k].tool, result)
  /\ UNCHANGED <<parked, registry, runs, talk, faults>>

(* The wave ends.  A failed step that another one waits for ends the plan. *)
Dependents(k) == {i \in DOMAIN turn.plan \ DOMAIN turn.ledger : k \in NeedsOf(turn.plan[i])}

EndWave ==
  /\ turn.phase = "writes" /\ turn.flying = {} /\ (turn.todo = {} \/ turn.outcome /= Going)
  /\ LET broken == {k \in turn.wave : turn.ledger[k] = "error" /\ Dependents(k) /= {}}
     IN  turn' = IF turn.outcome /= Going THEN [turn EXCEPT !.phase = "finish"]
                 ELSE IF broken /= {}
                 THEN [turn EXCEPT !.phase = "finish", !.outcome = Outcome("dependency", Min(broken))]
                 ELSE [turn EXCEPT !.phase = "wave", !.wave = {}]
  /\ UNCHANGED <<parked, runs, talk, world>>
-----------------------------------------------------------------------------
(* The end of a turn.                                                      *)
Answer ==
  /\ turn.phase = "finish" /\ turn.outcome.kind \notin {"info", "ask"}
  /\ Ends(IF turn.outcome.kind = "done" THEN "done" ELSE "blocked", turn.outcome.at)
  /\ UNCHANGED <<parked, runs, talk, world>>

(* Mutant: the recoil budget holds for approvals too.                      *)
MutantParks == turn.recoils < MaxRecoils
Parks == turn.outcome.kind = "ask" \/ (turn.outcome.kind = "info" /\ turn.recoils < MaxRecoils)

(* Information was asked for often enough: the plan is given up.           *)
GiveUp ==
  /\ turn.phase = "finish" /\ turn.outcome.kind \in {"info", "ask"} /\ ~Parks
  /\ Ends(IF turn.outcome.kind = "ask" THEN "approve" ELSE "gaveup", turn.outcome.at)
  /\ UNCHANGED <<parked, runs, talk, world>>

(* SuspensionStore.suspend: delete, then insert.                           *)
Delete ==
  /\ turn.phase = "finish" /\ turn.outcome.kind \in {"info", "ask"} /\ Parks
  /\ parked' = NoRow /\ Goes("insert")
  /\ UNCHANGED <<runs, talk, world>>

AskedField ==
  CASE turn.outcome.kind = "ask" -> None
    [] Lacks(turn.outcome.at) = {} -> Profile
    [] OTHER -> CHOOSE f \in Lacks(turn.outcome.at) : TRUE

Insert ==
  /\ turn.phase = "insert" /\ questions' = questions + 1
  /\ parked' = Row(turn.outcome.kind, turn.outcome.at, AskedField)
  /\ Ends(IF turn.outcome.kind = "ask" THEN "approve" ELSE "question", turn.outcome.at)
  /\ UNCHANGED <<inbox, turns, reply, runs, world>>

(* The rest of the turn, and the reply is queued.  The user may have written *)
(* in the meantime.                                                        *)
Tell ==
  /\ turn.phase = "tell" /\ turn' = Idle /\ reply' = Told(turn.outcome.kind, turn.outcome.at)
  /\ UNCHANGED <<parked, inbox, turns, questions, runs, world>>
-----------------------------------------------------------------------------
(* What happens around the turn.                                           *)
Change ==
  /\ faults < MaxFaults /\ faults' = faults + 1
  /\ \/ registry' \in Registries \ {registry} /\ UNCHANGED stage
     \/ stage' \in Stages \ {stage} /\ UNCHANGED registry
  /\ UNCHANGED <<turn, parked, runs, talk>>

(* A read or write fails, or the server restarts: the turn is lost, the row *)
(* is not.                                                                 *)
Crash ==
  /\ turn.phase /= "idle" /\ faults < MaxFaults /\ faults' = faults + 1 /\ Fails
  /\ UNCHANGED <<parked, registry, stage, questions, runs, turns>>

(* The reply is queued, but not that its message is done with.             *)
TellsTwice ==
  /\ turn.phase = "tell" /\ faults < MaxFaults /\ faults' = faults + 1
  /\ turn' = Idle /\ reply' = Told(turn.outcome.kind, turn.outcome.at)
  /\ inbox' = inbox \cup {turn.message}
  /\ UNCHANGED <<parked, registry, stage, questions, runs, turns>>

Init ==
  /\ turn = Idle /\ parked = NoRow /\ registry \in Registries /\ stage \in Stages
  /\ reply = [kind |-> "none", at |-> 0, approve |-> 0, latest |-> 0, asks |-> 0]
  /\ inbox = {} /\ questions = 0 /\ runs = <<>> /\ turns = 0 /\ faults = 0

Engine ==
  \/ Get \/ Declined \/ AskAgain \/ Discard \/ Resume \/ Clear
  \/ Reply \/ Replan \/ PlanFails \/ Plan
  \/ StartWave \/ StartRead \/ ReadsDone \/ StartWrite \/ EndWave
  \/ Answer \/ GiveUp \/ Delete \/ Insert \/ Tell
  \/ \E k \in turn.flying, result \in Results : Return(k, result)

Next ==
  \/ Engine \/ ModelFails \/ Change \/ Crash \/ TellsTwice
  \/ \E word \in Words : Message(word)
  \/ \E m \in inbox : Begin(m)

Spec == Init /\ [][Next]_vars

(* The model and the back end answer, or fail, in the end (the bridge times *)
(* its calls out) and the server goes on with a turn it has begun.         *)
FairSpec == Spec /\ WF_vars(Engine)
-----------------------------------------------------------------------------
PlanOK(plan) ==
  \A k \in DOMAIN plan :
    /\ plan[k].tool \in Tools
    /\ \A f \in DOMAIN plan[k].sources : plan[k].sources[f] \in Missing .. Len(plan)

(* Types.  The ledger and the steps of a turn are those of its plan.       *)
HarnessTypeOK ==
  /\ turn.phase \in Phases /\ turn.message \in Messages \cup {NoMessage} /\ turn.offered \subseteq Tools
  /\ PlanOK(turn.plan) /\ DOMAIN turn.ledger \subseteq DOMAIN turn.plan
  /\ turn.flying \cup turn.todo \cup turn.wave \subseteq DOMAIN turn.plan
  /\ turn.flying \cap DOMAIN turn.ledger = {}
  /\ parked /= NoRow =>
       /\ parked.reason \in {"ask", "info"} /\ PlanOK(parked.plan) /\ parked.at \in DOMAIN parked.plan
       /\ parked.at \notin DOMAIN parked.ledger /\ parked.recoils \in 0 .. MaxRecoils
       /\ parked.reason = "info" => parked.recoils < MaxRecoils
  /\ registry \in Registries /\ stage \in Stages /\ inbox \subseteq Messages /\ questions \in Nat
  /\ turns \in 0 .. MaxTurns /\ faults \in 0 .. MaxFaults

(* While a write is with the back end nothing else of the plan is: side    *)
(* effects never race.                                                     *)
WritesAlone ==
  \A k \in turn.flying : ~IsRead(k) => turn.flying = {k}

(* A call that needs the user's consent is made only in a turn whose        *)
(* message is a yes; and if its question had been shown when the user wrote, *)
(* he had been told nothing else since: a yes never revives a plan he has   *)
(* declined, left or outlived.                                             *)
ConfirmedOnly ==
  \A k \in turn.flying : Safety(turn.plan[k].tool) = "ask" =>
    /\ turn.message.word = "yes" /\ turn.approved = k
    /\ turn.message.latest = questions => turn.message.asked = questions

(* No step of a plan is started twice, over all the turns in which it is    *)
(* parked and resumed, and whatever crashes.                               *)
AtMostOnce == \A k \in DOMAIN runs : runs[k] <= 1

(* When the user has been asked something, the plan that asked is parked at *)
(* that step, with all that the step waits for done.                       *)
QuestionParked ==
  turn.phase = "idle" /\ reply.kind \in {"approve", "question"} =>
    /\ parked /= NoRow /\ parked.at = reply.at
    /\ parked.reason = IF reply.kind = "approve" THEN "ask" ELSE "info"
    /\ parked.at \in NextWave(parked.plan, parked.ledger)

(* Every turn ends.                                                        *)
TurnsSettle == turn.phase /= "idle" ~> turn.phase = "idle"

(* harness/index.ts:350: the recoil budget keeps a user who cannot supply a *)
(* value from being asked for it for ever.                                 *)
AskedWithinBudget == reply.asks <= MaxRecoils + 1

(* harness/index.ts:222: consent for a write is never assumed; it executes  *)
(* only after the yes to the question that asks for it.                    *)
ConsentInformed ==
  \A k \in turn.flying : Safety(turn.plan[k].tool) = "ask" =>
    turn.message.word = "yes" /\ turn.message.asked = questions

(* runtime/tool-retrieval.ts:13: the function of a pending confirmation is  *)
(* offered whatever the message resembles, so that a yes can be acted on.  *)
PendingOffered ==
  /\ turn.phase = "resume" /\ parked.reason = "ask" /\ parked.registry = registry
  /\ turn.stage = stage /\ \A k \in DOMAIN parked.plan : parked.plan[k].tool \notin Blocked[stage]
  => parked.plan[parked.at].tool \in turn.offered
=============================================================================

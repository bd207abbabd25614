------------------------------- MODULE Turns -------------------------------
(***************************************************************************)
(* Turns of a customer's conversation.  Every message becomes a turn, which *)
(* waits for the turns before it of its channel, finds the customer and    *)
(* the session, and answers: by the call the user confirms, from the       *)
(* response cache, or with the engine (the tool loop, or module Harness).  *)
(* A customer may write on several channels; their turns run side by side  *)
(* on one session, whose metadata each of them reads, changes and writes   *)
(* back.                                                                   *)
(*                                                                         *)
(* Abstractions.  Customers share no row and no chain: there is one.  The  *)
(* engine is what it does to the rows shown here: it calls functions or    *)
(* none, asks the user to confirm a call, which parks it (in the metadata, *)
(* or as the harness's row), or fails.  Clocks are choices: a minute may   *)
(* have passed, a session be idle, a frame of the intent stack or a cached *)
(* reply be out of date.  A moment is the number of messages in a session. *)
(* The daily limit, the history, memories and prompts are left out.        *)
(***************************************************************************)
EXTENDS Integers, Sequences, FiniteSets

CONSTANTS
  ChannelSets,   \* sets of channels the customer may write on
  Words,         \* what a message may be: yes, no, hello, thanks or text
  Topics,        \* intents of the functions
  Engines,       \* engines the server may be configured with: loop, harness
  CacheOn,       \* those it is configured with beside the response cache
  PerMinute,     \* rate limit
  SummarizeAfter,
  MaxDepth,      \* of the intent stack
  OldStacks,     \* intent stacks the customer's session may start with, all
                 \* of whose frames are older than the messages counted here
  MaxMessages, MaxWaiting, MaxQuiet, MaxFaults \* bounds: channels and messages
                 \* before the last, turns at a time, long pauses, faults

SpineDepth == 3
None == "none"

ASSUME TurnsConstants ==
  /\ Words \subseteq {"yes", "no", "hello", "thanks", "text"}
  /\ Engines \subseteq {"loop", "harness"} /\ CacheOn \subseteq Engines
  /\ {"general", "greeting", None} \cap Topics = {}
  /\ {PerMinute, SummarizeAfter, MaxDepth, MaxMessages, MaxWaiting, MaxQuiet,
      MaxFaults} \subseteq Nat
  /\ \A cs \in ChannelSets : IsFiniteSet(cs) /\ cs /= {}

ASSUME OldFrames == OldStacks \subseteq Seq([label : STRING, at : {0}])

VARIABLES
  engine, channels, \* the engine configured; the customer's channels
  quiet,    \* long pauses so far
  turns,    \* the turns, in order of arrival
  chain,    \* per channel: the last turn of the promise chain, 0 if there is none
  known,    \* the customer has a row
  sent,     \* user messages of the last minute
  sessions, \* rows: open, idle, messages, parked plan, metadata
  latest,   \* the session with the latest activity, or 0
  cache,    \* messages with a stored reply
  calls,    \* history: per question, how often the call it is about was made
  faults

config == <<engine, channels, quiet>>
rows == <<known, sent, sessions, latest, cache, calls>>
vars == <<config, turns, chain, rows, faults>>
-----------------------------------------------------------------------------
(* The intent stack: the current topic first.  A frame is its label and    *)
(* the moment of its last activity; frames not active since the horizon    *)
(* have expired.  Nth is the k-th smallest number of a set.                *)
Nth(S, k) == CHOOSE n \in S : Cardinality({m \in S : m <= n}) = k
Expired(stack, horizon) ==
  LET kept == {n \in DOMAIN stack : n <= SpineDepth \/ stack[n].at > horizon}
  IN  [k \in 1 .. Cardinality(kept) |-> stack[Nth(kept, k)]]

(* loadIntentStack and saveIntentStack: what has expired is neither read    *)
(* nor written.                                                            *)
Loaded(meta) == Expired(meta.stack, meta.horizon)
WithStack(meta, stack) == [meta EXCEPT !.stack = Expired(stack, meta.horizon)]

Push(stack, label, now) ==
  LET longer == <<[label |-> label, at |-> now]>> \o stack
  IN  SubSeq(longer, 1, IF Len(longer) < MaxDepth THEN Len(longer) ELSE MaxDepth)

(* Mutant: the frame at the bottom is the one refreshed.                   *)
MutantRefreshTop(stack, now) == [stack EXCEPT ![Len(stack)].at = now]
RefreshTop(stack, now) == [stack EXCEPT ![1].at = now]

Detected(word, topic) ==
  IF topic /= None THEN topic ELSE IF word = "hello" THEN "greeting" ELSE None

Shifts(top, label) == top.label /= label /\ label /= "greeting"

UpdatedStack(stack, word, topic, now) ==
  LET label == Detected(word, topic)
  IN  CASE word = "thanks" /\ stack /= <<>> -> Tail(stack)
        [] stack = <<>> -> Push(stack, IF label = None THEN "general" ELSE label, now)
        [] word /= "thanks" /\ stack /= <<>> /\ label /= None /\ Shifts(stack[1], label) ->
             Push(stack, label, now)
        [] OTHER -> RefreshTop(stack, now)
-----------------------------------------------------------------------------
(* The turns, and the promise chains that order them.                      *)
NoRow == [pending |-> 0]
Waiting(ch, prior) ==
  [ch |-> ch, word |-> None, prior |-> prior, phase |-> "waiting", sid |-> 0, stack |-> <<>>,
   row |-> NoRow, asked |-> 0, result |-> None, topic |-> None]
Ended(t) == [Waiting(t.ch, 0) EXCEPT !.phase = "ended"]

Is(i, phase) == i \in DOMAIN turns /\ turns[i].phase = phase
Running(i) == turns[i].phase \notin {"waiting", "ended"}
Goes(i, phase) == turns' = [turns EXCEPT ![i].phase = phase]

(* Mutant: the entry is deleted although a later turn has joined the chain. *)
MutantSettled(i) == [chain EXCEPT ![turns[i].ch] = 0]

(* The tail of a chain takes the entry of its key away.                    *)
Settled(i) == IF chain[turns[i].ch] = i THEN [chain EXCEPT ![turns[i].ch] = 0] ELSE chain

Stays(i, phase) == Goes(i, phase) /\ UNCHANGED chain
Ends(i) == turns' = [turns EXCEPT ![i] = Ended(@)] /\ chain' = Settled(i)

MayArrive ==
  /\ Len(turns) + Cardinality(channels) <= MaxMessages
  /\ Cardinality({i \in DOMAIN turns : turns[i].phase /= "ended"}) < MaxWaiting

(* Mutant: the turn is its own predecessor.                                *)
MutantArrive(ch) ==
  /\ MayArrive
  /\ turns' = Append(turns, Waiting(ch, Len(turns) + 1))
  /\ chain' = [chain EXCEPT ![ch] = Len(turns) + 1]
  /\ UNCHANGED <<config, rows, faults>>

Arrive(ch) ==
  /\ MayArrive
  /\ turns' = Append(turns, Waiting(ch, chain[ch]))
  /\ chain' = [chain EXCEPT ![ch] = Len(turns) + 1]
  /\ UNCHANGED <<config, rows, faults>>

(* A turn starts when its predecessor has succeeded or failed, and looks    *)
(* the customer up.                                                        *)
Begin(i) ==
  /\ Is(i, "waiting") /\ (turns[i].prior = 0 \/ Is(turns[i].prior, "ended"))
  /\ turns' = [turns EXCEPT ![i].phase = IF known THEN "admit" ELSE "customer", ![i].prior = 0]
  /\ UNCHANGED <<config, chain, rows, faults>>

(* The row may have been inserted since: the unique index fails the turn.  *)
CreateCustomer(i) ==
  /\ Is(i, "customer") /\ known' = TRUE
  /\ IF known THEN Ends(i) ELSE Stays(i, "admit")
  /\ UNCHANGED <<config, sent, sessions, latest, cache, calls, faults>>

(* Mutant: one message too many.                                           *)
MutantLimited == sent > PerMinute
Limited == sent >= PerMinute

(* Rate limit; idle sessions are closed; the latest of the open ones,       *)
(* whatever its channel, is the turn's.                                    *)
Admit(i) ==
  /\ Is(i, "admit")
  /\ IF Limited
     THEN Ends(i) /\ UNCHANGED sessions
     ELSE /\ sessions' = [s \in DOMAIN sessions |->
               IF sessions[s].idle THEN [sessions[s] EXCEPT !.open = FALSE] ELSE sessions[s]]
          /\ turns' = [turns EXCEPT ![i].phase = "persist",
               ![i].sid = IF latest /= 0 /\ sessions'[latest].open THEN latest ELSE 0]
          /\ UNCHANGED chain
  /\ UNCHANGED <<config, known, sent, latest, cache, calls, faults>>

NewSession(stack) ==
  [open |-> TRUE, idle |-> FALSE, messages |-> 0, plan |-> 0,
   meta |-> [pending |-> 0, stack |-> stack, mark |-> 0, horizon |-> -1]]

(* appendMessage: the session's activity is now.  persistMessage, where     *)
(* messages are kept in SQLite alone or there too.                         *)
Touched(s) == [s EXCEPT !.messages = @ + 1, !.idle = FALSE]
Stored(all, sid) == [all EXCEPT ![sid] = Touched(@)]

(* The message, whose words matter from here on, is stored, in a new session *)
(* if none was found, and the pending confirmation is read.                *)
Persist(i, word) ==
  LET fresh == turns[i].sid = 0
      sid == IF fresh THEN Len(sessions) + 1 ELSE turns[i].sid
      old == IF fresh THEN Append(sessions, NewSession(<<>>)) ELSE sessions
      meta == old[sid].meta
  IN  /\ Is(i, "persist")
      /\ sessions' = Stored(old, sid)
      /\ latest' = sid /\ sent' = sent + 1
      /\ turns' = [turns EXCEPT ![i].sid = sid, ![i].word = word, ![i].stack = Loaded(meta),
           ![i].asked = IF word \in {"yes", "no"} THEN meta.pending ELSE 0,
           ![i].phase = CASE meta.pending /= 0 /\ word = "yes" -> "invoke"
                          [] meta.pending /= 0 /\ word = "no" -> "clear"
                          [] OTHER -> IF engine \in CacheOn THEN "cache" ELSE "engine"]
      /\ UNCHANGED <<config, chain, known, cache, calls, faults>>
-----------------------------------------------------------------------------
Session(i) == sessions[turns[i].sid]
Called(q) == calls' = [calls EXCEPT ![q] = @ + 1]

(* Mutant: after the call the pending confirmation is left where it is.    *)
MutantInvoke(i) ==
  /\ Is(i, "invoke") /\ Goes(i, "acknowledge") /\ Called(turns[i].asked)
  /\ UNCHANGED <<config, chain, known, sent, sessions, latest, cache, faults>>

(* The confirmed call is made, then the confirmation cleared.              *)
Invoke(i) ==
  /\ Is(i, "invoke") /\ Goes(i, "clear") /\ Called(turns[i].asked)
  /\ UNCHANGED <<config, chain, known, sent, sessions, latest, cache, faults>>

(* Changes of a session's metadata: read, then written back whole.  The     *)
(* summary is made by the language model in between.                       *)
Due(i) ==
  /\ Session(i).messages >= SummarizeAfter
  /\ Session(i).meta.mark = 0 \/ Session(i).messages >= Session(i).meta.mark + SummarizeAfter

Changed(i) ==
  LET t == turns[i]
      row == Session(i).meta
      now == Session(i).messages
  IN  CASE t.phase = "clear" -> [row EXCEPT !.pending = 0]
        [] t.phase = "ask" -> [row EXCEPT !.pending = t.asked]
        [] t.phase = "engine" -> [row EXCEPT !.mark = now]
        [] OTHER -> WithStack(row, UpdatedStack(t.stack, t.word, t.topic, now))

ReadMeta(i) ==
  /\ Is(i, "clear") \/ Is(i, "ask") \/ Is(i, "stack") \/ (Is(i, "engine") /\ Due(i))
  /\ turns' = [turns EXCEPT ![i].row = Changed(i),
       ![i].phase = CASE @ = "ask" -> "asking" [] @ = "engine" -> "summary"
                      [] @ = "clear" -> "clearing" [] OTHER -> "saving"]
  /\ UNCHANGED <<config, chain, rows, faults>>

WriteMeta(i) ==
  /\ Is(i, "saving") \/ Is(i, "asking") \/ Is(i, "summary") \/ Is(i, "clearing")
  /\ sessions' = [sessions EXCEPT ![turns[i].sid].meta = turns[i].row]
  /\ turns' = [turns EXCEPT ![i].row = NoRow, ![i].asked = 0,
       ![i].phase = CASE @ = "asking" -> "stack" [] @ = "summary" -> "think"
                      [] @ = "clearing" -> "acknowledge" [] OTHER -> "reply"]
  /\ UNCHANGED <<config, chain, known, sent, latest, cache, calls, faults>>

(* The user is told that the call was made, or that it was not.            *)
Acknowledge(i) ==
  /\ Is(i, "acknowledge") /\ Ends(i)
  /\ sessions' = Stored(sessions, turns[i].sid) /\ latest' = turns[i].sid
  /\ UNCHANGED <<config, known, sent, cache, calls, faults>>

(* A reply to a message like this one is stored.                           *)
Hit(i) == turns[i].word \in cache

(* The cache is not asked when a plan waits for the message.               *)
Lookup(i) ==
  /\ Is(i, "cache")
  /\ \/ /\ engine = "loop" \/ Session(i).plan = 0
        /\ Hit(i)
        /\ turns' = [turns EXCEPT ![i].phase = "reply", ![i].result = "cached"]
     \/ Goes(i, "engine")
  /\ UNCHANGED <<config, chain, rows, faults>>
-----------------------------------------------------------------------------
(* The engine.  The harness looks for a parked plan first, and takes its   *)
(* row away before the plan goes on.                                       *)
Thinks(i) == Is(i, "think") \/ (Is(i, "engine") /\ ~Due(i))
Replies(i, result) == [turns EXCEPT ![i].phase = "stack", ![i].result = result, ![i].asked = 0]

EngineStarts(i) ==
  /\ Thinks(i)
  /\ IF engine = "harness" /\ Session(i).plan /= 0
     THEN \/ turns' = [turns EXCEPT ![i].phase = "resume", ![i].asked = Session(i).plan]
          \/ turns[i].word \notin {"yes", "no"} /\ turns' = Replies(i, "asks")
     ELSE turns' = [turns EXCEPT ![i].phase = "running", ![i].asked = 0]
  /\ UNCHANGED <<config, chain, rows, faults>>

TakePlan(i) ==
  /\ Is(i, "resume")
  /\ sessions' = [sessions EXCEPT ![turns[i].sid].plan = 0]
  /\ turns' = IF turns[i].word = "no" THEN Replies(i, "text")
              ELSE [turns EXCEPT ![i].phase = "resumed"]
  /\ UNCHANGED <<config, chain, known, sent, latest, cache, calls, faults>>

RunPlan(i) ==
  /\ Is(i, "resumed") /\ Called(turns[i].asked)
  /\ \E topic \in Topics : turns' = [Replies(i, "tools") EXCEPT ![i].topic = topic]
  /\ UNCHANGED <<config, chain, known, sent, sessions, latest, cache, faults>>

(* An answer without calls, or after some.                                 *)
Answers(i) ==
  /\ Is(i, "running") /\ turns' = Replies(i, "text")
  /\ UNCHANGED <<config, chain, rows, faults>>

Calls(i, topic) ==
  /\ Is(i, "running") /\ turns' = [Replies(i, "tools") EXCEPT ![i].topic = topic]
  /\ UNCHANGED <<config, chain, rows, faults>>

Asks(i) ==
  /\ Is(i, "running") /\ calls' = Append(calls, 0)
  /\ IF engine = "loop"
     THEN /\ turns' = [turns EXCEPT ![i].phase = "ask", ![i].result = "pending", ![i].asked = Len(calls')]
          /\ UNCHANGED sessions
     ELSE /\ turns' = Replies(i, "asks")
          /\ sessions' = [sessions EXCEPT ![turns[i].sid].plan = Len(calls')]
  /\ UNCHANGED <<config, chain, known, sent, latest, cache, faults>>

(* The language model fails, and the turn with it.                         *)
EngineFails(i) ==
  /\ faults < MaxFaults /\ faults' = faults + 1 /\ Ends(i)
  /\ \/ Is(i, "running") /\ UNCHANGED calls
     \/ Is(i, "resumed") /\ Called(turns[i].asked)
  /\ UNCHANGED <<config, known, sent, sessions, latest, cache>>

(* A reply without calls is cached, unless the loop's question is in it.    *)
Cached(i) ==
  IF engine \in CacheOn /\ turns[i].result \in {"text", "asks"}
  THEN cache \cup {turns[i].word} ELSE cache

Reply(i) ==
  /\ Is(i, "reply") /\ Ends(i) /\ cache' = Cached(i)
  /\ sessions' = Stored(sessions, turns[i].sid) /\ latest' = turns[i].sid
  /\ UNCHANGED <<config, known, sent, calls, faults>>
-----------------------------------------------------------------------------
(* What happens around the turns.  A message leaves the minute (before the  *)
(* limit is reached that changes nothing).                                 *)
MinutePasses ==
  /\ Limited /\ sent' = sent - 1
  /\ UNCHANGED <<config, turns, chain, known, sessions, latest, cache, calls, faults>>

(* No messages for as long as an idle session, a frame and a cached reply   *)
(* last; no turn takes that long.                                          *)
GoesQuiet ==
  /\ latest /= 0 /\ \A i \in DOMAIN turns : turns[i].phase = "ended"
  /\ quiet < MaxQuiet /\ quiet' = quiet + 1
  /\ \/ /\ sessions[latest].open /\ ~sessions[latest].idle
        /\ sessions' = [sessions EXCEPT ![latest].idle = TRUE] /\ UNCHANGED cache
     \/ /\ sessions[latest].meta.stack /= <<>>
        /\ sessions' = [sessions EXCEPT ![latest].meta.horizon = sessions[latest].messages]
        /\ UNCHANGED cache
     \/ cache /= {} /\ cache' = {} /\ UNCHANGED sessions
  /\ sent' = 0
  /\ UNCHANGED <<engine, channels, turns, chain, known, latest, calls, faults>>

(* The server restarts: turns in progress and the chains are lost.         *)
Crash ==
  /\ faults < MaxFaults /\ faults' = faults + 1
  /\ \E i \in DOMAIN turns : turns[i].phase /= "ended"
  /\ turns' = [i \in DOMAIN turns |-> Ended(turns[i])]
  /\ chain' = [ch \in channels |-> 0]
  /\ UNCHANGED <<config, rows>>

(* A customer the store knows may have written earlier in the minute.      *)
Init ==
  /\ engine \in Engines /\ channels \in ChannelSets
  /\ turns = <<>> /\ chain = [ch \in channels |-> 0]
  /\ cache = {} /\ calls = <<>> /\ quiet = 0 /\ faults = 0
  /\ \/ known = FALSE /\ sessions = <<>> /\ latest = 0 /\ sent = 0
     \/ /\ \E stack \in OldStacks : known = TRUE /\ sessions = <<NewSession(stack)>> /\ latest = 1
        /\ sent \in 0 .. PerMinute

Step(i) ==
  \/ Begin(i) \/ CreateCustomer(i) \/ Admit(i) \/ (\E word \in Words : Persist(i, word)) \/ Invoke(i)
  \/ ReadMeta(i) \/ WriteMeta(i) \/ Lookup(i) \/ EngineStarts(i) \/ TakePlan(i) \/ RunPlan(i)
  \/ Answers(i) \/ (\E topic \in Topics : Calls(i, topic)) \/ Asks(i) \/ Acknowledge(i) \/ Reply(i)

Next ==
  \/ \E i \in DOMAIN turns : Step(i) \/ EngineFails(i)
  \/ \E ch \in channels : Arrive(ch)
  \/ MinutePasses \/ GoesQuiet \/ Crash

Spec == Init /\ [][Next]_vars

(* A turn that can go on does: models and back ends answer or fail.        *)
FairSpec == Spec /\ WF_vars(\E i \in DOMAIN turns : Step(i))
-----------------------------------------------------------------------------
(* Turns of one channel run one at a time and in the order their messages  *)
(* arrived, through failures, restarts and the clean-up of the chains.     *)
OneAtATime ==
  \A i, j \in DOMAIN turns :
    turns[i].ch = turns[j].ch /\ i < j /\ Running(j) => turns[i].phase = "ended"

(* The messages of a minute exceed the limit by at most one for every       *)
(* further channel, though a message is counted before it is stored.       *)
RateKept == sent <= PerMinute + Cardinality(channels) - 1

(* A call the user was asked about is made once at most, if the customer    *)
(* writes on one channel; a restart may have the tool loop's call repeated. *)
ConfirmedOnce ==
  \A q \in DOMAIN calls : Cardinality(channels) = 1 =>
    calls[q] <= 1 + (IF engine = "loop" THEN faults ELSE 0)

(* The deeper a frame of the intent stack, the longer it has been inactive, *)
(* also when turns of two channels save the stacks they have read before:  *)
(* what expires is always the bottom of the stack.                         *)
StackAges ==
  \A s \in DOMAIN sessions : LET stack == sessions[s].meta.stack IN
    \A m, n \in DOMAIN stack : m < n => stack[m].at >= stack[n].at

(* Every message's turn comes to its end: the conversation is at rest again *)
(* and again, with no turn waiting for a predecessor.                      *)
TurnsEnd == []<>(\A i \in DOMAIN turns : turns[i].phase = "ended")

(* "Serialize turns for this customer+channel ... so intent stack /        *)
(* suspension / lifecycle never mutate concurrently" (turn.ts): no two     *)
(* turns are at work on one session.                                       *)
SessionAlone ==
  \A i, j \in DOMAIN turns :
    i /= j /\ turns[i].sid /= 0 => turns[i].sid /= turns[j].sid
=============================================================================

----------------------------- MODULE SdkBridge -----------------------------
(***************************************************************************)
(* The WebSocket between the server and the product's back end: the        *)
(* bridge's table of connections and of pending invocations, the /sdk      *)
(* route, and one SDK client, of the Node or of the Python library, with   *)
(* the sockets between them.  A socket is two ends and a queue in either   *)
(* direction; its ends learn of its closing at different times, and the    *)
(* Node client can have several.                                           *)
(*                                                                         *)
(* Abstractions.  Sockets are taken from a pool and reused when both ends  *)
(* are done.  Arguments, data and error texts are left out.  The server    *)
(* accepts a socket and the client sees it open in one step.  The table    *)
(* sdk_connections is left out: it is written and never read.  Time is     *)
(* what the code compares it with: a connection has missed 0, 1 or 2       *)
(* sweeps since it was last heard.  Sweeps are 30 seconds apart, so a      *)
(* message on a working link does not take longer than that (Drained).     *)
(***************************************************************************)
EXTENDS Integers, Sequences, FiniteSets, SequencesExt

CONSTANTS
  Sockets,        \* the pool
  None,           \* no socket, no call
  Calls,          \* invocations and sends the server may ask for
  Functions,      \* what the back end may offer: functions, the send handler
  Languages,
  MaxConnections, \* MAX_SDK_CONNECTIONS, 32 in the code
  Faults,         \* the failures, and calls of disconnect(), that may happen
  MaxFaults       \* bound: how many of them in one behaviour

FaultKinds == {"cut", "dial", "huge", "restart", "shutdown", "sdk", "disconnect"}

ASSUME SdkConstants ==
  /\ None \notin Sockets \cup Calls \cup Functions
  /\ Languages \subseteq {"node", "python"} /\ Faults \subseteq FaultKinds
  /\ MaxConnections \in Nat \ {0} /\ MaxFaults \in Nat

VARIABLES
  up,      \* the server runs
  conns,   \* the bridge's connections, by socket
  older,   \* pairs of them: the first was last heard of before the second
  pending, \* calls that wait for a result
  outcome, \* what the caller of each call has been told
  ran,     \* history: how often the back end's handler was started
  wire,    \* the sockets
  sdk,     \* the client
  faults   \* failures so far

vars == <<up, conns, older, pending, outcome, ran, wire, sdk, faults>>
server == <<up, conns, older>>
callers == <<pending, outcome>>

Outcomes == {"idle", "open", "ok", "failed", "timeout", "none", "shutdown", "lost"}
Message == [type : {"register", "pong", "ok", "failed", "huge", "close", "ping", "call"},
            call : Calls \cup {None}, offers : SUBSET Functions]
Msg(type) == [type |-> type, call |-> None, offers |-> {}]
Answer(type, c) == [Msg(type) EXCEPT !.call = c]
Request(c, f) == [Msg("call") EXCEPT !.call = c, !.offers = {f}]

FreeSocket == [sdk |-> "free", server |-> "none", link |-> FALSE, looped |-> FALSE,
               toServer |-> <<>>, toSdk |-> <<>>]

Fault(kind) == kind \in Faults /\ faults < MaxFaults /\ faults' = faults + 1
NoFault == faults' = faults
-----------------------------------------------------------------------------
(* Sockets.                                                                *)
Cut(w) == [w EXCEPT !.link = FALSE, !.toServer = <<>>, !.toSdk = <<>>]
Recycled(w) == IF w.sdk \in {"free", "closed"} /\ w.server = "none" THEN FreeSocket ELSE w
ToSdk(w, m) ==
  IF w.link /\ w.server = "open" THEN [w EXCEPT !.toSdk = Append(@, m)] ELSE w
ToServer(w, m) ==
  IF w.link /\ w.sdk = "open" THEN [w EXCEPT !.toServer = Append(@, m)] ELSE w

(* socket.close() by the server: what it sends from now on is dropped,     *)
(* what arrives is still handled until the client's answer ends the        *)
(* socket.                                                                 *)
ClosedByServer(w) == [ToSdk(w, Msg("close")) EXCEPT !.server = "closing"]
-----------------------------------------------------------------------------
(* The bridge.                                                             *)
Rest(out) == [x \in DOMAIN conns \ out |-> conns[x]]
Entry(registered, offers) == [registered |-> registered, offers |-> offers, missed |-> 0]

(* registerPending and register: an entry, new or in the place of another.  *)
WithEntry(s, entry, cs) == [x \in DOMAIN cs \cup {s} |-> IF x = s THEN entry ELSE cs[x]]
Without(out) == {p \in older : p[1] \notin out /\ p[2] \notin out}
HeardLast(s, out) == Without(out \cup {s}) \cup ((DOMAIN conns \ (out \cup {s})) \X {s})
IsRegistered(s) == s \in DOMAIN conns /\ conns[s].registered

(* unregister, which leaves the pending calls alone.                       *)
Unregister(s) ==
  /\ conns' = Rest({s}) /\ older' = Without({s})

(* The server's end is gone: its close event.                              *)
ServerEnd(s) ==
  /\ Unregister(s)
  /\ wire' = [wire EXCEPT ![s] = Recycled([Cut(@) EXCEPT !.server = "none"])]

(* The connections that registered the function or the send handler; the   *)
(* one with the newest heartbeat is asked.                                 *)
Candidates(f) == {s \in DOMAIN conns : conns[s].registered /\ f \in conns[s].offers}

SendTo(c, f) ==
  \E newest \in Candidates(f) :
    /\ \A s \in Candidates(f) : <<newest, s>> \notin older
    /\ wire' = [wire EXCEPT ![newest] = ToSdk(@, Request(c, f))]

(* invoke and sendViaChannel: without a connection they fail at once; on a *)
(* socket that is closing nothing is sent and the timer is left to run.    *)
Call(c, f) ==
  /\ up /\ outcome[c] = "idle"
  /\ IF Candidates(f) = {}
     THEN /\ outcome' = [outcome EXCEPT ![c] = "none"] /\ UNCHANGED <<pending, wire>>
     ELSE /\ outcome' = [outcome EXCEPT ![c] = "open"]
          /\ pending' = pending \cup {c} /\ SendTo(c, f)
  /\ UNCHANGED server /\ UNCHANGED <<ran, sdk, faults>>

(* Mutant: the timer forgets the call and does not reject it.              *)
MutantSettle(c, how) ==
  /\ pending' = pending \ {c}
  /\ outcome' = IF how = "timeout" THEN outcome ELSE [outcome EXCEPT ![c] = how]

Settle(c, how) ==
  /\ pending' = pending \ {c} /\ outcome' = [outcome EXCEPT ![c] = how]

Timeout(c) ==
  /\ c \in pending /\ Settle(c, "timeout")
  /\ UNCHANGED server /\ UNCHANGED <<ran, wire, sdk, faults>>
-----------------------------------------------------------------------------
(* The /sdk route: what it does with the next message of a socket.         *)
Next1(s) == Head(wire[s].toServer)
Takes(s) ==
  /\ up /\ wire[s].link /\ wire[s].server /= "none" /\ wire[s].toServer /= <<>>
Taken(s) == [wire EXCEPT ![s].toServer = Tail(@)]

(* Mutant: the server asks again, on the new socket, what is unanswered.   *)
MutantRegister(s) ==
  /\ Takes(s) /\ Next1(s).type = "register"
  /\ conns' = WithEntry(s, Entry(TRUE, Next1(s).offers), conns)
  /\ older' = HeardLast(s, {})
  /\ wire' = [Taken(s) EXCEPT ![s].toSdk = @ \o SetToSeq({Request(c, f) : c \in pending, f \in Next1(s).offers})]
  /\ UNCHANGED <<up, ran, sdk, faults>> /\ UNCHANGED callers

(* register, also of a socket whose entry has been evicted.                *)
Register(s) ==
  /\ Takes(s) /\ Next1(s).type = "register"
  /\ conns' = WithEntry(s, Entry(TRUE, Next1(s).offers), conns)
  /\ older' = HeardLast(s, {})
  /\ wire' = Taken(s)
  /\ UNCHANGED <<up, ran, sdk, faults>> /\ UNCHANGED callers

(* A message before register, or after eviction: only an error goes back.  *)
Refuse(s) ==
  /\ Takes(s) /\ Next1(s).type \in {"pong", "ok", "failed"} /\ ~ IsRegistered(s)
  /\ wire' = Taken(s)
  /\ UNCHANGED server /\ UNCHANGED callers /\ UNCHANGED <<ran, sdk, faults>>

Pong(s) ==
  /\ Takes(s) /\ Next1(s).type = "pong" /\ IsRegistered(s)
  /\ conns' = [conns EXCEPT ![s].missed = 0] /\ older' = HeardLast(s, {})
  /\ wire' = Taken(s)
  /\ UNCHANGED <<up, ran, sdk, faults>> /\ UNCHANGED callers

(* handleResult: of a call that is no longer pending nothing is kept.      *)
Result(s) ==
  /\ Takes(s) /\ Next1(s).type \in {"ok", "failed"} /\ IsRegistered(s)
  /\ IF Next1(s).call \in pending
     THEN Settle(Next1(s).call, Next1(s).type) ELSE UNCHANGED callers
  /\ wire' = Taken(s)
  /\ UNCHANGED server /\ UNCHANGED <<ran, sdk, faults>>

(* A frame above the limit: the socket is closed, its message dropped, and *)
(* its entry stays until the close event.                                  *)
TooLarge(s) ==
  /\ Takes(s) /\ Next1(s).type = "huge"
  /\ wire' = [Taken(s) EXCEPT ![s] = ClosedByServer(@)]
  /\ UNCHANGED server /\ UNCHANGED callers /\ UNCHANGED <<ran, sdk, faults>>

(* Mutant: an entry that is there is left to the sweep.                    *)
MutantGone(s) ==
  /\ Takes(s) /\ Next1(s).type = "close"
  /\ wire' = [wire EXCEPT ![s] = Recycled([Cut(@) EXCEPT !.server = "none"])]
  /\ UNCHANGED server /\ UNCHANGED callers /\ UNCHANGED <<ran, sdk, faults>>

Gone(s) ==
  /\ Takes(s) /\ Next1(s).type = "close" /\ ServerEnd(s)
  /\ UNCHANGED <<up, ran, sdk, faults>> /\ UNCHANGED callers

(* The server's end learns that the link is cut, from TCP or, when it is   *)
(* closing, from the library's close timer.                                *)
ServerNotices(s) ==
  /\ up /\ ~ wire[s].link /\ wire[s].server /= "none" /\ ServerEnd(s)
  /\ UNCHANGED <<up, ran, sdk, faults>> /\ UNCHANGED callers

Busy(s) == sdk.lang = "python" /\ sdk.running /= {}

(* Thirty seconds are enough for what is on a working link, except at a    *)
(* Python client that awaits a handler before it reads on.                 *)
Drained ==
  \A s \in Sockets : wire[s].link =>
    wire[s].toServer = <<>> /\ (wire[s].toSdk = <<>> \/ Busy(s))

(* A socket that did not register within 15 seconds, certainly at its      *)
(* second sweep, and one not heard of for two intervals, at its third.     *)
Expired(early) ==
  {s \in DOMAIN conns : s \in early \/ conns[s].missed = 2
                        \/ (~ conns[s].registered /\ conns[s].missed = 1)}

(* The timer of the route: one pass over all connections.                  *)
Sweep ==
  /\ up /\ Drained /\ DOMAIN conns /= {}
  /\ \E early \in SUBSET {s \in DOMAIN conns : ~ conns[s].registered} :
       /\ conns' = [s \in DOMAIN conns \ Expired(early) |->
                      [conns[s] EXCEPT !.missed = IF @ < 2 THEN @ + 1 ELSE @]]
       /\ older' = Without(Expired(early))
       /\ wire' = [s \in Sockets |->
                     IF s \in Expired(early) THEN ClosedByServer(wire[s])
                     ELSE IF s \in DOMAIN conns THEN ToSdk(wire[s], Msg("ping")) ELSE wire[s]]
  /\ UNCHANGED <<up, ran, sdk, faults>> /\ UNCHANGED callers

(* The process ends: what it kept in memory is gone, and the sockets are   *)
(* cut.                                                                    *)
Down ==
  /\ up /\ up' = FALSE /\ conns' = <<>> /\ older' = {} /\ pending' = {}
  /\ wire' = [s \in Sockets |-> IF wire[s].server = "none" THEN wire[s]
                                ELSE Recycled([Cut(wire[s]) EXCEPT !.server = "none"])]
  /\ UNCHANGED <<ran, sdk>>

(* A crash takes the callers with it.                                      *)
Restart ==
  /\ Fault("restart") /\ Down
  /\ outcome' = [c \in Calls |-> IF outcome[c] = "open" THEN "lost" ELSE outcome[c]]

(* Mutant: the pending calls are forgotten, not rejected.                  *)
MutantShutdown == Fault("shutdown") /\ Down /\ outcome' = outcome

Shutdown ==
  /\ Fault("shutdown") /\ Down
  /\ outcome' = [c \in Calls |-> IF c \in pending THEN "shutdown" ELSE outcome[c]]

Boot ==
  /\ ~ up /\ up' = TRUE
  /\ UNCHANGED <<conns, older, ran, wire, sdk, faults>> /\ UNCHANGED callers
-----------------------------------------------------------------------------
(* The client.  ws: the socket it takes for current.  wanted:              *)
(* shouldReconnect.  loops: reconnect loops in their delay.  offers: the   *)
(* functions exposed so far.  running: calls whose handler runs, with the  *)
(* socket they came on.                                                    *)
Python == sdk.lang = "python"
Idle(lang) ==
  [lang |-> lang, ws |-> None, wanted |-> FALSE, loops |-> 0, offers |-> {}, running |-> {}]

(* The Node client sends on its current socket whatever socket asked, and  *)
(* drops the message when there is none; the Python client answers on the  *)
(* socket that asked.                                                      *)
SendCurrent(w, m) == IF sdk.ws = None THEN w ELSE [w EXCEPT ![sdk.ws] = ToServer(@, m)]
AnswerOn(w, s, m) == [w EXCEPT ![s] = ToServer(@, m)]
SendFrom(w, s, m) == IF Python THEN AnswerOn(w, s, m) ELSE SendCurrent(w, m)

(* expose() and onSend(), at any time: the server hears of it with the     *)
(* next register.                                                          *)
Expose(f) ==
  /\ f \notin sdk.offers /\ sdk' = [sdk EXCEPT !.offers = @ \cup {f}]
  /\ NoFault /\ UNCHANGED server /\ UNCHANGED callers /\ UNCHANGED <<ran, wire>>

Dialing(looped) ==
  \E s \in Sockets :
    /\ wire[s] = FreeSocket
    /\ wire' = [wire EXCEPT ![s].sdk = "dialing", ![s].looped = looped]

(* listen(): the first connection, or one after disconnect().              *)
Listen ==
  /\ ~ sdk.wanted /\ (Python => sdk.ws = None) /\ Dialing(Python)
  /\ sdk' = [sdk EXCEPT !.wanted = TRUE]
  /\ NoFault /\ UNCHANGED server /\ UNCHANGED callers /\ UNCHANGED ran

(* A reconnect loop after its delay.                                       *)
Dial ==
  /\ sdk.loops > 0 /\ sdk' = [sdk EXCEPT !.loops = @ - 1]
  /\ IF sdk.wanted THEN Dialing(TRUE) ELSE UNCHANGED wire
  /\ NoFault /\ UNCHANGED server /\ UNCHANGED callers /\ UNCHANGED ran

Oldest == {s \in DOMAIN conns : \A x \in DOMAIN conns : <<x, s>> \notin older}

(* Mutant: the limit is compared with the wrong bound.                     *)
MutantEvicted == IF Cardinality(DOMAIN conns) > MaxConnections THEN Oldest ELSE {}

(* At the limit the connection with the oldest heartbeat is evicted: its   *)
(* socket is closed and its entry removed.                                 *)
Evicted == IF Cardinality(DOMAIN conns) >= MaxConnections THEN Oldest ELSE {}

Registration == [Msg("register") EXCEPT !.offers = sdk.offers]

(* Mutant: register is sent by listen() and not after a reconnect.         *)
MutantOpens(s) ==
  /\ up /\ wire[s].sdk = "dialing"
  /\ conns' = WithEntry(s, Entry(FALSE, {}), Rest(Evicted))
  /\ older' = HeardLast(s, Evicted)
  /\ wire' = [x \in Sockets |->
                IF x = s THEN [FreeSocket EXCEPT !.sdk = "open", !.server = "open", !.link = TRUE,
                                 !.toServer = IF wire[s].looped THEN <<>> ELSE <<Registration>>]
                ELSE IF x \in Evicted THEN ClosedByServer(wire[x]) ELSE wire[x]]
  /\ sdk' = [sdk EXCEPT !.ws = s]
  /\ UNCHANGED <<up, ran, faults>> /\ UNCHANGED callers

(* The server accepts the socket, the client takes it for its current one  *)
(* and registers.                                                          *)
Opens(s) ==
  /\ up /\ wire[s].sdk = "dialing"
  /\ conns' = WithEntry(s, Entry(FALSE, {}), Rest(Evicted))
  /\ older' = HeardLast(s, Evicted)
  /\ wire' = [x \in Sockets |->
                IF x = s THEN [FreeSocket EXCEPT !.sdk = "open", !.server = "open", !.link = TRUE,
                                                 !.toServer = <<Registration>>]
                ELSE IF x \in Evicted THEN ClosedByServer(wire[x]) ELSE wire[x]]
  /\ sdk' = [sdk EXCEPT !.ws = s]
  /\ UNCHANGED <<up, ran, faults>> /\ UNCHANGED callers

(* The close handler of a Node socket: whichever socket it was, the        *)
(* current one is forgotten and another loop begins.  A loop's own failed  *)
(* attempt is retried besides.  The Python client is one loop.             *)
NodeLoops(retry) == sdk.loops + (IF sdk.wanted THEN 1 ELSE 0) + (IF retry THEN 1 ELSE 0)
AfterClose(retry) ==
  sdk' = [sdk EXCEPT !.ws = None, !.loops = IF Python THEN 1 ELSE NodeLoops(retry)]

(* A connection attempt fails: the error event, then the close event.      *)
DialFails(s) ==
  /\ Fault("dial") /\ wire[s].sdk = "dialing"
  /\ wire' = [wire EXCEPT ![s] = FreeSocket]
  /\ AfterClose(wire[s].looped)
  /\ UNCHANGED server /\ UNCHANGED callers /\ UNCHANGED ran

(* The client's end learns that its socket is done: a close frame, an      *)
(* error from TCP, or, for the current socket, its own heartbeat timer.    *)
(* A Python client learns it when it reads or writes again.                *)
SdkEnd(s) ==
  /\ wire[s].sdk = "open" /\ ~ Busy(s)
  /\ IF wire[s].link
     THEN /\ wire[s].toSdk /= <<>> /\ Head(wire[s].toSdk).type = "close"
          /\ wire' = [wire EXCEPT ![s].sdk = "closed", ![s].toSdk = <<>>,
                                  ![s].toServer = Append(@, Msg("close"))]
     ELSE wire' = [wire EXCEPT ![s] = Recycled([@ EXCEPT !.sdk = "closed"])]
  /\ AfterClose(FALSE)
  /\ NoFault /\ UNCHANGED server /\ UNCHANGED callers /\ UNCHANGED ran

Reads(s, type) ==
  /\ wire[s].sdk = "open" /\ wire[s].link /\ ~ Busy(s)
  /\ wire[s].toSdk /= <<>> /\ Head(wire[s].toSdk).type = type

Read(s) == [wire EXCEPT ![s].toSdk = Tail(@)]

Ping(s) ==
  /\ Reads(s, "ping") /\ wire' = SendFrom(Read(s), s, Msg("pong"))
  /\ NoFault /\ UNCHANGED server /\ UNCHANGED callers /\ UNCHANGED <<ran, sdk>>

(* The handler of an invocation or of a send is started, if there is one.  *)
Handle(s) ==
  /\ Reads(s, "call")
  /\ LET m == Head(wire[s].toSdk)
     IN  IF m.offers \subseteq sdk.offers
         THEN /\ sdk' = [sdk EXCEPT !.running = @ \cup {<<m.call, s>>}]
              /\ ran' = [ran EXCEPT ![m.call] = @ + 1]
              /\ wire' = Read(s)
         ELSE /\ wire' = SendFrom(Read(s), s, Answer("failed", m.call))
              /\ UNCHANGED <<sdk, ran>>
  /\ NoFault /\ UNCHANGED server /\ UNCHANGED callers

(* It returns or throws, and the result is sent if it can be.              *)
HandlerEnds(r, type) ==
  /\ r \in sdk.running /\ sdk' = [sdk EXCEPT !.running = @ \ {r}]
  /\ IF type = "huge" THEN Fault("huge") ELSE NoFault
  /\ wire' = SendFrom(wire, r[2], Answer(type, r[1]))
  /\ UNCHANGED server /\ UNCHANGED callers /\ UNCHANGED ran

(* disconnect(), of the Node client only: the current socket is closed,    *)
(* an attempt under way is not.                                            *)
Disconnect ==
  /\ Fault("disconnect") /\ ~ Python /\ sdk.wanted
  /\ sdk' = [sdk EXCEPT !.wanted = FALSE, !.ws = None]
  /\ wire' = SendCurrent(wire, Msg("close"))
  /\ UNCHANGED server /\ UNCHANGED callers /\ UNCHANGED ran

(* The back end's process ends; its sockets are reset.                     *)
SdkRestart ==
  /\ Fault("sdk") /\ sdk' = Idle(sdk.lang)
  /\ wire' = [s \in Sockets |-> Recycled([Cut(wire[s]) EXCEPT !.sdk = "closed"])]
  /\ UNCHANGED server /\ UNCHANGED callers /\ UNCHANGED ran

(* The network drops a link: neither end knows, and what was on the way    *)
(* is lost.                                                                *)
LinkLost(s) ==
  /\ Fault("cut") /\ wire[s].link /\ wire' = [wire EXCEPT ![s] = Cut(@)]
  /\ UNCHANGED server /\ UNCHANGED callers /\ UNCHANGED <<ran, sdk>>
-----------------------------------------------------------------------------
Init ==
  /\ up = TRUE /\ conns = <<>> /\ older = {}
  /\ pending = {} /\ outcome = [c \in Calls |-> "idle"] /\ ran = [c \in Calls |-> 0]
  /\ wire = [s \in Sockets |-> FreeSocket]
  /\ sdk \in {Idle(lang) : lang \in Languages} /\ faults = 0

Next ==
  \/ \E c \in Calls : Timeout(c) \/ \E f \in Functions : Call(c, f)
  \/ \E s \in Sockets :
       \/ Register(s) \/ Refuse(s) \/ Pong(s) \/ Result(s) \/ TooLarge(s) \/ Gone(s)
       \/ ServerNotices(s) \/ Opens(s) \/ DialFails(s) \/ SdkEnd(s)
       \/ Ping(s) \/ Handle(s) \/ LinkLost(s)
  \/ \E r \in sdk.running, type \in {"ok", "failed", "huge"} : HandlerEnds(r, type)
  \/ \E f \in Functions : Expose(f)
  \/ Sweep \/ Restart \/ Shutdown \/ Boot \/ Listen \/ Dial \/ Disconnect \/ SdkRestart

Spec == Init /\ [][Next]_vars

(* Fairness: messages arrive and are handled, timers fire, a server that   *)
(* is down is started again, a dialled socket opens once there is one, the *)
(* reconnect loops go on, handlers return, and an end learns in the end    *)
(* that its socket is done.                                                *)
FairSpec ==
  /\ Spec
  /\ \A s \in Sockets :
       /\ WF_vars(Register(s) \/ Refuse(s) \/ Pong(s) \/ Result(s) \/ TooLarge(s) \/ Gone(s))
       /\ WF_vars(ServerNotices(s) /\ wire[s].server = "closing")
       /\ WF_vars(Opens(s)) /\ WF_vars(SdkEnd(s)) /\ WF_vars(Ping(s) \/ Handle(s))
  /\ \A c \in Calls :
       /\ WF_vars(Timeout(c))
       /\ WF_vars(\E r \in sdk.running : r[1] = c /\ HandlerEnds(r, "ok"))
  /\ WF_vars(Sweep) /\ WF_vars(Boot) /\ WF_vars(Dial)
-----------------------------------------------------------------------------
(* Types: every variable holds what the code could store in it, and the    *)
(* order of heartbeats orders the connections.                             *)
SdkTypeOK ==
  /\ up \in BOOLEAN /\ pending \subseteq Calls /\ faults \in 0..MaxFaults
  /\ DOMAIN conns \subseteq Sockets /\ older \subseteq (DOMAIN conns) \X (DOMAIN conns)
  /\ \A s, x \in DOMAIN conns : (<<s, x>> \in older) = (s /= x /\ <<x, s>> \notin older)
  /\ \A s, x, y \in DOMAIN conns : <<s, x>> \in older /\ <<x, y>> \in older => <<s, y>> \in older
  /\ \A s \in DOMAIN conns : conns[s] \in [registered : BOOLEAN, offers : SUBSET Functions,
                                           missed : 0..2]
  /\ outcome \in [Calls -> Outcomes] /\ ran \in [Calls -> Nat]
  /\ sdk \in [lang : Languages, ws : Sockets \cup {None}, wanted : BOOLEAN, loops : Nat,
               offers : SUBSET Functions, running : SUBSET (Calls \X Sockets)]
  /\ wire \in [Sockets -> [sdk : {"free", "dialing", "open", "closed"},
                           server : {"none", "open", "closing"}, link : BOOLEAN,
                           looped : BOOLEAN, toServer : Seq(Message), toSdk : Seq(Message)]]

(* What a caller is told of invoke and sendViaChannel is true: an answer   *)
(* means that the handler was started exactly once (never that it was not  *)
(* found), the immediate error that it was not started; whatever happens   *)
(* to sockets, no call reaches two handlers.                               *)
AnsweredForCause ==
  \A c \in Calls :
    /\ ran[c] <= 1
    /\ outcome[c] \in {"ok", "failed"} => ran[c] = 1
    /\ outcome[c] \in {"idle", "none"} => ran[c] = 0

(* A call can always be settled: it waits in the bridge's table exactly as *)
(* long as its caller waits, whatever becomes of the connection.           *)
WaitersKnown == pending = {c \in Calls : outcome[c] = "open"}

(* Every connection in the table has a socket whose close event is yet to  *)
(* come, so the entry goes with the socket; also when register put it back *)
(* after an eviction.                                                      *)
EntriesEnd == \A s \in DOMAIN conns : wire[s].server /= "none"

Held == {s \in DOMAIN conns : wire[s].server = "open"}

(* MAX_SDK_CONNECTIONS bounds the open connections, but for one case: a    *)
(* connection beyond the limit is accepted only while the table still      *)
(* holds one that is closing, which the eviction may take for the oldest.  *)
CapPassedLate ==
  [][Cardinality(Held') > Cardinality(Held) /\ Cardinality(Held') > MaxConnections
       => \E s \in DOMAIN conns : wire[s].server = "closing"]_vars

(* docs/fix-log.md:241, "BUG-029 SDK connection storm: fixed by            *)
(* MAX_SDK_CONNECTIONS=32": there are never more open connections.         *)
CapHolds == Cardinality(Held) <= MaxConnections

(* Every invocation is answered, times out or dies with the server.        *)
CallsSettle == \A c \in Calls : outcome[c] = "open" ~> outcome[c] /= "open"

Connected == sdk.ws /= None /\ IsRegistered(sdk.ws)

OneSocket ==
  sdk.loops + Cardinality({s \in Sockets : wire[s].sdk \in {"dialing", "open"}}) <= 1

(* After whatever happens, an SDK that has called listen() is connected    *)
(* and registered again, unless it disconnects or its process ends.  This  *)
(* is so of a client that never has two sockets or loops at a time, as     *)
(* the Python client never has; the Node client that once has two may go   *)
(* on losing one to the close event of the other for ever.                 *)
Recovers == []OneSocket => (sdk.wanted ~> (Connected \/ ~ sdk.wanted))

(* docs/bug-list.md:102, "SDK reconnect mutex prevents parallel attempts": *)
(* at most one loop of a client is in its delay or dialling.               *)
OneReconnectLoop ==
  sdk.loops + Cardinality({s \in Sockets : wire[s].sdk = "dialing"}) <= 1
=============================================================================

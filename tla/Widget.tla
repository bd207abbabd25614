------------------------------- MODULE Widget -------------------------------
(***************************************************************************)
(* The chat widget in a visitor's page and the route that serves it.  The   *)
(* widget keeps one WebSocket: it opens it, waits for the answer to its      *)
(* init frame, tries again with a bounded number of attempts when the       *)
(* socket closes, and shows the transcript.  The route handles the frames   *)
(* of a socket one by one, also after the socket is gone; the turns of the  *)
(* customer exclude each other (module Turns), whichever socket they came   *)
(* from.                                                                    *)
(*                                                                         *)
(* Abstractions.  A message is its number, a row or an entry of the         *)
(* transcript the number and whose it is.  Delays are choices.  A socket is *)
(* known to the server by the number of its lock.  The typing indicator,    *)
(* oversized and malformed frames, which the widget does not send, and the  *)
(* layout are left out.                                                     *)
(***************************************************************************)
EXTENDS Integers, Sequences, FiniteSets, SequencesExt

CONSTANTS
  Access,       \* what the server may make of the visitor: granted, auth or
                \* origin, the last two when it refuses the identity or the page
  MaxAttempts,  \* reconnections in a row
  HistoryLimit, \* rows a new connection is given
  MaxMessages, MaxJobs \* bounds; frames beyond the jobs are still under way

ASSUME WidgetConstants ==
  /\ Access \subseteq {"granted", "auth", "origin"}
  /\ {MaxAttempts, HistoryLimit, MaxMessages, MaxJobs} \subseteq Nat

VARIABLES
  access,
  status,   \* what the widget shows: connecting, connected, reconnecting, failed
            \* (or unmounted)
  socket,   \* none, connecting, open or closing
  number,   \* of the socket's lock at the server
  ready,    \* the handshake is complete
  attempt, retry,  \* reconnections so far; the retry timer runs
  question, \* buttons to confirm are shown
  shown,    \* the transcript
  up, down, \* frames under way
  inited,   \* sockets whose init the server has accepted
  jobs,     \* frames received and not done with: socket, message (0: init)
  turn,     \* the message whose turn is under way, or 0
  rows,     \* the messages stored
  next,     \* messages sent
  awaited     \* history: messages sent over the socket, ready, and not answered

page == <<status, socket, number, ready, attempt, retry>>
dialogue == <<question, shown, next, awaited>>
server == <<inited, jobs, turn, rows>>
vars == <<access, page, dialogue, up, down, server>>

Entry(by, n) == [by |-> by, n |-> n]
Frame(kind, n) == [kind |-> kind, n |-> n]
-----------------------------------------------------------------------------
(* Connections.                                                            *)
Connects(shows) ==
  /\ status' = shows /\ socket' = "connecting" /\ ready' = FALSE /\ retry' = FALSE
  /\ number' = CHOOSE n \in 1 .. Len(jobs) + 1 : \A j \in DOMAIN jobs : jobs[j].socket /= n
  /\ inited' = {jobs[j].socket : j \in DOMAIN jobs} \cap inited /\ up' = <<>> /\ down' = <<>>
  /\ UNCHANGED <<access, dialogue, jobs, turn, rows>>

RetryTimer == retry /\ Connects("reconnecting") /\ UNCHANGED attempt
RetryButton == status = "failed" /\ Connects("connecting") /\ attempt' = 0

(* A page on a foreign origin is told so, and the socket closed.           *)
Opens ==
  /\ socket = "connecting" /\ socket' = "open" /\ up' = <<Frame("init", 0)>>
  /\ down' = IF access = "origin" THEN <<Frame("error", 0), Frame("refused", 0)>> ELSE <<>>
  /\ UNCHANGED <<access, status, number, ready, attempt, retry, dialogue, server>>

(* onclose: a policy rejection is final, otherwise the widget tries again.  *)
Closed(rejected) ==
  /\ socket' = "none" /\ awaited' = {} /\ up' = <<>> /\ down' = <<>>
  /\ \/ /\ rejected \/ attempt >= MaxAttempts
        /\ status' = "failed" /\ UNCHANGED <<attempt, retry>>
     \/ /\ ~rejected /\ attempt < MaxAttempts
        /\ status' = "reconnecting" /\ attempt' = attempt + 1 /\ retry' = TRUE
  /\ UNCHANGED <<access, number, ready, question, shown, next, server>>

Refused == socket = "connecting" /\ Closed(FALSE)
CloseEvent == socket = "closing" /\ Closed(FALSE)
Drops == socket = "open" /\ Closed(FALSE)
Rejected == socket = "open" /\ down /= <<>> /\ Head(down).kind = "refused" /\ Closed(TRUE)

(* Mutant: the timer of the handshake is stopped when the socket opens.    *)
MutantUnanswered == socket = "connecting"
Unanswered == socket \in {"connecting", "open"} /\ ~ready

HandshakeTimer ==
  /\ Unanswered /\ socket' = "closing"
  /\ UNCHANGED <<access, status, number, ready, attempt, retry, dialogue, up, down, server>>

Unmount ==
  /\ status /= "unmounted" /\ status' = "unmounted" /\ socket' = "none" /\ retry' = FALSE
  /\ awaited' = {} /\ up' = <<>> /\ down' = <<>>
  /\ UNCHANGED <<access, number, ready, attempt, question, shown, next, server>>
-----------------------------------------------------------------------------
(* What the widget receives and sends.                                     *)
Takes(kind) == socket = "open" /\ down /= <<>> /\ Head(down).kind = kind /\ down' = Tail(down)

(* Mutant: the history is put in front of what is shown.                   *)
MutantWithHistory(history) == history \o shown

(* The history replaces what is shown, if there is any.                    *)
WithHistory(history) == IF history = <<>> THEN shown ELSE history

GetsReady ==
  /\ Takes("ready") /\ ready' = TRUE /\ status' = "connected" /\ attempt' = 0 /\ retry' = FALSE
  /\ shown' = WithHistory(Head(down).history)
  /\ UNCHANGED <<access, socket, number, question, next, awaited, up, server>>

GetsReply ==
  /\ \/ Takes("message") /\ question' = FALSE
     \/ Takes("confirmation") /\ question' = TRUE
  /\ shown' = Append(shown, Entry("reply", Head(down).n)) /\ awaited' = awaited \ {Head(down).n}
  /\ UNCHANGED <<access, page, next, up, server>>

(* Before the handshake is complete an error is kept for onclose, which     *)
(* shows it only if the server closes the socket.                           *)
GetsError ==
  /\ Takes("error")
  /\ shown' = IF ready THEN Append(shown, Entry("error", Head(down).n)) ELSE shown
  /\ awaited' = awaited \ {Head(down).n}
  /\ UNCHANGED <<access, page, question, next, up, server>>

(* The input is disabled unless connected; the buttons are not.            *)
Send ==
  /\ status = "connected" \/ question
  /\ socket = "open" /\ next < MaxMessages /\ next' = next + 1
  /\ shown' = Append(shown, Entry("user", next')) /\ up' = Append(up, Frame("message", next'))
  /\ question' = FALSE /\ awaited' = IF ready THEN awaited \cup {next'} ELSE awaited
  /\ UNCHANGED <<access, page, down, server>>
-----------------------------------------------------------------------------
(* The route.  A job is done when no earlier one of its socket is left.     *)
Arrives ==
  /\ socket \in {"open", "closing"} /\ access /= "origin" /\ up /= <<>> /\ up' = Tail(up)
  /\ Len(jobs) < MaxJobs /\ jobs' = Append(jobs, [socket |-> number, n |-> Head(up).n])
  /\ UNCHANGED <<access, page, dialogue, down, inited, turn, rows>>

First(j) == \A k \in 1 .. j - 1 : jobs[k].socket /= jobs[j].socket
Connected(j) == socket = "open" /\ number = jobs[j].socket
Told(j, frame) == down' = IF Connected(j) THEN Append(down, frame) ELSE down
Done(j) == jobs' = RemoveAt(jobs, j)

Recent == SubSeq(rows, IF Len(rows) > HistoryLimit THEN Len(rows) - HistoryLimit + 1 ELSE 1, Len(rows))

(* An identity that is refused is told so and the socket left open, as it   *)
(* is when the database fails after the socket counts as initialised.       *)
Inits(j) ==
  /\ First(j) /\ jobs[j].n = 0 /\ Done(j)
  /\ inited' = IF access = "granted" THEN inited \cup {jobs[j].socket} ELSE inited
  /\ \/ access = "granted" /\ Told(j, [kind |-> "ready", n |-> 0, history |-> Recent])
     \/ Told(j, Frame("error", 0))
  /\ UNCHANGED <<access, page, dialogue, up, turn, rows>>

Ask(j) == First(j) /\ jobs[j].n > 0 /\ jobs[j].socket \in inited
Uninitialised(j) ==
  /\ First(j) /\ jobs[j].n > 0 /\ jobs[j].socket \notin inited
  /\ Done(j) /\ Told(j, Frame("error", jobs[j].n))
  /\ UNCHANGED <<access, page, dialogue, up, inited, turn, rows>>

TurnStarts(j) ==
  /\ Ask(j) /\ turn = 0 /\ turn' = jobs[j].n
  /\ rows' = Append(rows, Entry("user", jobs[j].n))
  /\ UNCHANGED <<access, page, dialogue, up, down, inited, jobs>>

TurnEnds(j) ==
  /\ Ask(j) /\ turn = jobs[j].n /\ turn' = 0 /\ Done(j)
  /\ rows' = Append(rows, Entry("reply", jobs[j].n))
  /\ \E kind \in {"message", "confirmation"} : Told(j, Frame(kind, jobs[j].n))
  /\ UNCHANGED <<access, page, dialogue, up, inited>>

(* Mutant: a failure is logged only.                                       *)
MutantToldFailure(j) == UNCHANGED down
ToldFailure(j) == Told(j, Frame("error", jobs[j].n))

(* A turn fails at the rate limit, before anything is stored, or later.    *)
TurnFails(j) ==
  /\ Ask(j) /\ turn \in {0, jobs[j].n} /\ turn' = 0 /\ Done(j) /\ ToldFailure(j)
  /\ UNCHANGED <<access, page, dialogue, up, inited, rows>>

(* The visitor's session token expires; it is looked at by an init only.    *)
Expires ==
  /\ access = "granted" /\ access' = "auth"
  /\ UNCHANGED <<page, dialogue, up, down, server>>

(* The server restarts.                                                    *)
Restarts ==
  /\ jobs /= <<>> /\ jobs' = <<>> /\ turn' = 0 /\ inited' = {}
  /\ UNCHANGED <<access, rows, number, ready, question, shown, next>>
  /\ IF socket \in {"open", "closing"} /\ status /= "unmounted"
     THEN /\ socket' = "none" /\ awaited' = {} /\ up' = <<>> /\ down' = <<>>
          /\ status' = IF attempt >= MaxAttempts THEN "failed" ELSE "reconnecting"
          /\ attempt' = IF attempt >= MaxAttempts THEN attempt ELSE attempt + 1
          /\ retry' = (attempt < MaxAttempts)
     ELSE UNCHANGED <<socket, awaited, up, down, status, attempt, retry>>

Init ==
  /\ access \in Access /\ status = "connecting" /\ socket = "connecting" /\ number = 1
  /\ ready = FALSE /\ attempt = 0 /\ retry = FALSE /\ question = FALSE /\ shown = <<>>
  /\ up = <<>> /\ down = <<>> /\ inited = {} /\ jobs = <<>> /\ turn = 0 /\ rows = <<>>
  /\ next = 0 /\ awaited = {}

ClientStep ==
  \/ RetryTimer \/ Opens \/ Refused \/ CloseEvent \/ Rejected \/ HandshakeTimer
  \/ GetsReady \/ GetsReply \/ GetsError

ServerStep ==
  \/ Arrives
  \/ \E j \in DOMAIN jobs : Inits(j) \/ Uninitialised(j) \/ TurnStarts(j) \/ TurnEnds(j) \/ TurnFails(j)

Next == ClientStep \/ ServerStep \/ RetryButton \/ Drops \/ Unmount \/ Send \/ Expires \/ Restarts

Spec == Init /\ [][Next]_vars

(* Browser and server go on; connections may drop at any time.             *)
FairSpec == Spec /\ WF_vars(ClientStep) /\ WF_vars(ServerStep)
-----------------------------------------------------------------------------
(* The transcript shows nothing twice, and no reply before its message,     *)
(* through reconnections, turns that outlive their socket and the history   *)
(* that replaces what was shown.                                           *)
TranscriptFaithful ==
  \A k, l \in DOMAIN shown : k < l =>
    /\ shown[k] /= shown[l]
    /\ shown[k].n = shown[l].n => shown[k].by = "user"

(* However the connection flaps, again and again the visitor is connected,  *)
(* or told that the widget has given up.                                   *)
ConnectionSettles == []<>(status \in {"connected", "failed", "unmounted"})

(* A message sent over a ready connection is answered, by a reply or an     *)
(* error, unless the connection is lost.                                   *)
MessagesAnswered == \A m \in 1 .. MaxMessages : m \in awaited ~> m \notin awaited
=============================================================================

-------------------------- MODULE SdkBridgeProofs --------------------------
(***************************************************************************)
(* Proofs about SdkBridge: what a caller is told is true, who waits can be *)
(* answered, entries go with their sockets, and the one way in which the   *)
(* limit on connections is passed; for any number of sockets, calls and    *)
(* functions.                                                              *)
(***************************************************************************)
EXTENDS SdkBridge, SequenceTheorems, FiniteSetTheorems, TLAPS

Wire == [sdk : {"free", "dialing", "open", "closed"}, server : {"none", "open", "closing"},
         link : BOOLEAN, looped : BOOLEAN, toServer : Seq(Message), toSdk : Seq(Message)]
Client == [lang : Languages, ws : Sockets \cup {None}, wanted : BOOLEAN, loops : Nat,
           offers : SUBSET Functions, running : SUBSET (Calls \X Sockets)]
Connection == [registered : BOOLEAN, offers : SUBSET Functions, missed : 0..2]

(* A socket the client does not have, or does not have yet, is none of the *)
(* server's.                                                               *)
Socket == {w \in Wire : w.sdk \in {"free", "dialing"} => w.server = "none"}

Shape ==
  /\ up \in BOOLEAN /\ faults \in 0..MaxFaults /\ sdk \in Client
  /\ outcome \in [Calls -> Outcomes] /\ ran \in [Calls -> Nat]
  /\ wire \in [Sockets -> Socket]

(* The table, and the order of its heartbeats.                             *)
Table ==
  /\ DOMAIN conns \subseteq Sockets /\ IsFiniteSet(DOMAIN conns)
  /\ \A s \in DOMAIN conns : conns[s] \in Connection

Order ==
  /\ older \subseteq (DOMAIN conns) \X (DOMAIN conns)
  /\ \A s, x \in DOMAIN conns : (<<s, x>> \in older) = (s /= x /\ <<x, s>> \notin older)
  /\ \A s, x, y \in DOMAIN conns : <<s, x>> \in older /\ <<x, y>> \in older => <<s, y>> \in older

(* The table holds every open socket, and no socket whose close event came. *)
Listed ==
  /\ EntriesEnd
  /\ \A s \in Sockets : wire[s].server = "open" => s \in DOMAIN conns

(* A call is asked for by one message, on one socket, which is there only  *)
(* while nothing is known of the call.                                     *)
Asks(s, i, c) ==
  i \in DOMAIN wire[s].toSdk /\ wire[s].toSdk[i].type = "call" /\ wire[s].toSdk[i].call = c

OneRequest ==
  \A s, x \in Sockets, c \in Calls : \A i \in DOMAIN wire[s].toSdk, j \in DOMAIN wire[x].toSdk :
    Asks(s, i, c) /\ Asks(x, j, c) => s = x /\ i = j

Requested ==
  \A s \in Sockets, c \in Calls : \A i \in DOMAIN wire[s].toSdk :
    Asks(s, i, c) => ran[c] = 0 /\ outcome[c] \notin {"idle", "none", "ok", "failed"}

(* Only calls that were started are running or answered.                   *)
Started ==
  /\ \A r \in sdk.running : ran[r[1]] = 1
  /\ \A s \in Sockets : \A m \in ToSet(wire[s].toServer) :
       m.type \in {"ok", "failed"} => m.call \in Calls /\ ran[m.call] = 1

(* The server asks a client only for what that client has exposed.         *)
Offered ==
  \A s \in Sockets : wire[s].sdk = "open" =>
    /\ s \in DOMAIN conns => conns[s].offers \subseteq sdk.offers
    /\ \A m \in ToSet(wire[s].toServer) : m.type = "register" => m.offers \subseteq sdk.offers
    /\ \A m \in ToSet(wire[s].toSdk) :
         m.type = "call" => m.call \in Calls /\ m.offers \subseteq sdk.offers

Messages == OneRequest /\ Requested /\ Started /\ Offered /\ AnsweredForCause
IInv == Shape /\ Table /\ Order /\ Listed /\ WaitersKnown /\ Messages
-----------------------------------------------------------------------------
(* What a step may do to a socket without asking or offering anything:     *)
(* take a message, drop all, add one that asks nothing and is true.        *)
Follows(q, p) ==
  \E k \in {0, 1} : \A i \in DOMAIN q :
    q[i].type = "call" => i + k \in DOMAIN p /\ q[i] = p[i + k]

Truthful(m) ==
  /\ m \in Message /\ m.type \notin {"register", "call"}
  /\ m.type \in {"ok", "failed"} => m.call \in Calls /\ ran[m.call] = 1

Quiet(w, v) ==
  /\ w \in Socket /\ Follows(w.toSdk, v.toSdk)
  /\ w.sdk = "open" => v.sdk = "open"
  /\ \A m \in ToSet(w.toServer) : m \in ToSet(v.toServer) \/ Truthful(m)

LEMMA Taking ==
  ASSUME NEW q \in Seq(Message), q /= <<>>
  PROVE  /\ Tail(q) \in Seq(Message) /\ Follows(Tail(q), q)
         /\ Head(q) \in Message /\ Head(q) \in ToSet(q)
         /\ 1 \in DOMAIN q /\ Head(q) = q[1]
         /\ \A i \in DOMAIN Tail(q) : i + 1 \in DOMAIN q /\ Tail(q)[i] = q[i + 1]
         /\ ToSet(Tail(q)) \subseteq ToSet(q)
<1>1. /\ Tail(q) \in Seq(Message) /\ Head(q) \in Message /\ Head(q) = q[1]
      /\ Len(q) \in Nat \ {0} /\ Len(Tail(q)) = Len(q) - 1
      /\ \A i \in 1..Len(Tail(q)) : Tail(q)[i] = q[i + 1]
  BY HeadTailProperties, EmptySeq
<1>2. DOMAIN Tail(q) = 1..Len(Tail(q)) /\ DOMAIN q = 1..Len(q)
  BY <1>1
<1>3. \A i \in DOMAIN Tail(q) : i + 1 \in DOMAIN q /\ Tail(q)[i] = q[i + 1]
  BY <1>1, <1>2
<1>4. QED
  BY <1>1, <1>2, <1>3 DEF Follows, ToSet

LEMMA Adding ==
  ASSUME NEW q \in Seq(Message), NEW m \in Message
  PROVE  /\ Append(q, m) \in Seq(Message)
         /\ DOMAIN Append(q, m) = DOMAIN q \cup {Len(q) + 1} /\ Len(q) + 1 \notin DOMAIN q
         /\ \A i \in DOMAIN q : Append(q, m)[i] = q[i]
         /\ Append(q, m)[Len(q) + 1] = m
         /\ ToSet(Append(q, m)) = ToSet(q) \cup {m}
         /\ m.type /= "call" => Follows(Append(q, m), q)
<1>1. /\ Append(q, m) \in Seq(Message) /\ Len(Append(q, m)) = Len(q) + 1 /\ Len(q) \in Nat
      /\ \A i \in 1..Len(q) : Append(q, m)[i] = q[i]
      /\ Append(q, m)[Len(q) + 1] = m
  BY AppendProperties, LenProperties
<1>2. DOMAIN Append(q, m) = 1..(Len(q) + 1) /\ DOMAIN q = 1..Len(q)
  BY <1>1
<1>3. DOMAIN Append(q, m) = DOMAIN q \cup {Len(q) + 1} /\ Len(q) + 1 \notin DOMAIN q
  BY <1>1, <1>2
<1>4. ToSet(Append(q, m)) = ToSet(q) \cup {m}
  BY <1>1, <1>2, <1>3 DEF ToSet
<1>5. \A i \in DOMAIN q : i + 0 = i
  BY <1>2
<1>6. m.type /= "call" => Follows(Append(q, m), q)
  BY <1>1, <1>2, <1>3, <1>5 DEF Follows
<1>7. QED
  BY <1>1, <1>2, <1>3, <1>4, <1>6

LEMMA Empty ==
  /\ <<>> \in Seq(Message) /\ ToSet(<<>>) = {}
  /\ \A q : Follows(<<>>, q)
BY DEF Follows, ToSet

LEMMA Staying == ASSUME NEW q \in Seq(Message) PROVE Follows(q, q)
<1>1. \A i \in DOMAIN q : i + 0 = i
  BY LenProperties
<1>2. QED
  BY <1>1 DEF Follows

LEMMA Kinds ==
  /\ \A type \in {"register", "pong", "ok", "failed", "huge", "close", "ping", "call"} :
       Msg(type) \in Message /\ Msg(type).type = type
  /\ \A type \in {"pong", "huge", "close", "ping"} : Truthful(Msg(type))
  /\ \A c \in Calls : Truthful(Answer("huge", c)) /\ Answer("huge", c) \in Message
  /\ \A c \in Calls, type \in {"ok", "failed", "huge"} :
       Answer(type, c) \in Message /\ Answer(type, c).type = type /\ Answer(type, c).call = c
  /\ \A c \in Calls, f \in Functions :
       /\ Request(c, f) \in Message /\ Request(c, f).type = "call"
       /\ Request(c, f).call = c /\ Request(c, f).offers = {f}
BY DEF Msg, Answer, Request, Message, Truthful
-----------------------------------------------------------------------------
(* The operators on one socket.                                            *)
LEMMA SameSocket == ASSUME NEW w \in Socket PROVE Quiet(w, w)
BY Staying DEF Quiet, Socket, Wire

LEMMA QuietTwice ==
  ASSUME NEW v \in Socket, NEW w \in Socket, NEW u, Quiet(w, v), Quiet(u, w),
         w.toSdk = v.toSdk \/ u.toSdk = w.toSdk \/ u.toSdk = <<>>
  PROVE  Quiet(u, v)
BY Empty DEF Quiet

LEMMA FreeQuiet ==
  /\ FreeSocket \in Socket
  /\ \A w \in Socket : Quiet(FreeSocket, w)
BY Empty DEF Quiet, FreeSocket, Socket, Wire

LEMMA CutQuiet ==
  ASSUME NEW w \in Socket
  PROVE  /\ Cut(w) \in Socket /\ Quiet(Cut(w), w)
         /\ Cut(w).sdk = w.sdk /\ Cut(w).server = w.server
         /\ Cut(w).toServer = <<>> /\ Cut(w).toSdk = <<>>
BY Empty DEF Quiet, Cut, Socket, Wire

LEMMA RecycledQuiet ==
  ASSUME NEW w \in Socket
  PROVE  /\ Recycled(w) \in Socket /\ Quiet(Recycled(w), w)
         /\ Recycled(w).server = w.server
BY FreeQuiet, SameSocket DEF Recycled, FreeSocket

(* The server's end, and the client's, are gone.                           *)
LEMMA ServerGone ==
  ASSUME NEW w \in Socket
  PROVE  LET u == Recycled([Cut(w) EXCEPT !.server = "none"])
         IN  u \in Socket /\ Quiet(u, w) /\ u.server = "none"
<1> DEFINE v == [Cut(w) EXCEPT !.server = "none"]
<1>1. v \in Socket /\ v.sdk = w.sdk /\ v.toServer = <<>> /\ v.toSdk = <<>> /\ v.server = "none"
  BY CutQuiet DEF Socket, Wire
<1>2. Quiet(v, w)
  BY <1>1, Empty DEF Quiet
<1> HIDE DEF v
<1>3. QED
  BY <1>1, <1>2, RecycledQuiet, FreeQuiet DEF Recycled, v

LEMMA SdkGone ==
  ASSUME NEW w \in Socket
  PROVE  LET u == Recycled([Cut(w) EXCEPT !.sdk = "closed"])
         IN  u \in Socket /\ Quiet(u, w) /\ u.server = w.server /\ u.sdk /= "open"
<1> DEFINE v == [Cut(w) EXCEPT !.sdk = "closed"]
<1>1. v \in Socket /\ v.sdk = "closed" /\ v.toServer = <<>> /\ v.toSdk = <<>>
      /\ v.server = w.server
  BY CutQuiet DEF Socket, Wire
<1>2. Quiet(v, w)
  BY <1>1, Empty DEF Quiet
<1> HIDE DEF v
<1>3. QED
  BY <1>1, <1>2, RecycledQuiet, FreeQuiet DEF Recycled, v, FreeSocket

LEMMA ToSdkQuiet ==
  ASSUME NEW w \in Socket, NEW m \in Message
  PROVE  /\ ToSdk(w, m) \in Socket
         /\ m.type /= "call" => Quiet(ToSdk(w, m), w)
         /\ ToSdk(w, m).server = w.server /\ ToSdk(w, m).sdk = w.sdk
         /\ ToSdk(w, m).toServer = w.toServer
         /\ ToSdk(w, m).toSdk \in {w.toSdk, Append(w.toSdk, m)}
BY Adding, Staying, SameSocket DEF Quiet, ToSdk, Socket, Wire

LEMMA ToServerQuiet ==
  ASSUME NEW w \in Socket, NEW m \in Message
  PROVE  /\ ToServer(w, m) \in Socket
         /\ Truthful(m) => Quiet(ToServer(w, m), w)
         /\ ToServer(w, m).server = w.server /\ ToServer(w, m).sdk = w.sdk
         /\ ToServer(w, m).toSdk = w.toSdk
         /\ ToSet(ToServer(w, m).toServer) \subseteq ToSet(w.toServer) \cup {m}
<1>1. CASE w.link /\ w.sdk = "open"
  <2> DEFINE q == Append(w.toServer, m)
  <2>1. ToServer(w, m) = [w EXCEPT !.toServer = q]
    BY <1>1 DEF ToServer
  <2>2. q \in Seq(Message) /\ ToSet(q) = ToSet(w.toServer) \cup {m}
    BY Adding DEF Socket, Wire
  <2> HIDE DEF q
  <2>3. [w EXCEPT !.toServer = q] \in Socket
    BY <2>2 DEF Socket, Wire
  <2>4. Follows(w.toSdk, w.toSdk)
    BY Staying DEF Socket, Wire
  <2>5. QED
    BY <2>1, <2>2, <2>3, <2>4 DEF Quiet, Socket, Wire
<1>2. CASE ~ (w.link /\ w.sdk = "open")
  BY <1>2, SameSocket DEF ToServer
<1>3. QED
  BY <1>1, <1>2

LEMMA ClosedQuiet ==
  ASSUME NEW w \in Socket, w.server /= "none"
  PROVE  /\ ClosedByServer(w) \in Socket /\ Quiet(ClosedByServer(w), w)
         /\ ClosedByServer(w).server = "closing"
<1> DEFINE v == ToSdk(w, Msg("close"))
<1>0. Msg("close") \in Message /\ Msg("close").type /= "call"
  BY Kinds
<1>1. v \in Socket /\ Quiet(v, w) /\ v.server = w.server /\ v.sdk = w.sdk
  BY <1>0, ToSdkQuiet
<1> HIDE DEF v
<1>2. [v EXCEPT !.server = "closing"] \in Socket
  BY <1>1 DEF Socket, Wire
<1>3. Quiet([v EXCEPT !.server = "closing"], w)
  BY <1>1, <1>2 DEF Quiet, Socket, Wire
<1>4. QED
  BY <1>1, <1>2, <1>3 DEF ClosedByServer, v, Socket, Wire
-----------------------------------------------------------------------------
(* The table of connections.                                               *)
LEMMA TableShrinks ==
  ASSUME Table, Order, NEW out, conns' = Rest(out), older' = Without(out)
  PROVE  /\ Table' /\ Order' /\ DOMAIN conns' = DOMAIN conns \ out
         /\ \A s \in DOMAIN conns' : conns'[s] = conns[s]
<1>1. DOMAIN conns' = DOMAIN conns \ out /\ \A s \in DOMAIN conns' : conns'[s] = conns[s]
  BY DEF Rest
<1>2. IsFiniteSet(DOMAIN conns')
  BY <1>1, FS_Subset DEF Table
<1>3. Table'
  BY <1>1, <1>2 DEF Table
<1>4. Order'
  BY <1>1 DEF Order, Without
<1>5. QED
  BY <1>1, <1>3, <1>4

LEMMA TableGrows ==
  ASSUME Table, Order, NEW s \in Sockets, NEW out, NEW e \in Connection,
         conns' = WithEntry(s, e, Rest(out)), older' = HeardLast(s, out)
  PROVE  /\ Table' /\ Order' /\ DOMAIN conns' = (DOMAIN conns \ out) \cup {s}
         /\ \A x \in DOMAIN conns' : conns'[x] = IF x = s THEN e ELSE conns[x]
<1>1. /\ DOMAIN conns' = (DOMAIN conns \ out) \cup {s}
      /\ \A x \in DOMAIN conns' : conns'[x] = IF x = s THEN e ELSE conns[x]
  BY DEF Rest, WithEntry
<1>2. IsFiniteSet(DOMAIN conns \ out)
  BY FS_Subset DEF Table
<1>3. IsFiniteSet(DOMAIN conns')
  BY <1>1, <1>2, FS_AddElement
<1>4. Table'
  BY <1>1, <1>3 DEF Table
<1>5. Order'
  BY <1>1 DEF Order, HeardLast, Without
<1>6. QED
  BY <1>1, <1>4, <1>5

LEMMA SameTable ==
  ASSUME Table, Order, UNCHANGED <<conns, older>>
  PROVE  Table' /\ Order'
BY DEF Table, Order

(* The state of the calls is as before, or a caller was told the truth.    *)
Told ==
  \A c \in Calls :
    /\ outcome'[c] \in {"idle", "none"} => outcome[c] \in {"idle", "none"}
    /\ outcome'[c] \in {"ok", "failed"} => outcome'[c] = outcome[c] \/ ran[c] = 1

LEMMA AskedBefore ==
  ASSUME Shape', NEW s \in Sockets, Follows(wire'[s].toSdk, wire[s].toSdk)
  PROVE  /\ \A i \in DOMAIN wire'[s].toSdk : i \in Nat
         /\ \E k \in {0, 1} : \A i \in DOMAIN wire'[s].toSdk, c \in Calls :
              Asks(s, i, c)' => Asks(s, i + k, c)
<1>1. \A i \in DOMAIN wire'[s].toSdk : i \in Nat
  BY LenProperties DEF Shape, Socket, Wire
<1>2. QED
  BY <1>1 DEF Follows, Asks

LEMMA OneKept ==
  ASSUME Shape', OneRequest, \A s \in Sockets : Follows(wire'[s].toSdk, wire[s].toSdk)
  PROVE  OneRequest'
<1> SUFFICES ASSUME NEW s \in Sockets, NEW x \in Sockets, NEW c \in Calls,
                    NEW i \in DOMAIN wire'[s].toSdk, NEW j \in DOMAIN wire'[x].toSdk,
                    Asks(s, i, c)', Asks(x, j, c)'
             PROVE  s = x /\ i = j
  BY DEF OneRequest
<1>1. PICK k \in {0, 1} : \A n \in DOMAIN wire'[s].toSdk : Asks(s, n, c)' => Asks(s, n + k, c)
  BY AskedBefore
<1>2. PICK l \in {0, 1} : \A n \in DOMAIN wire'[x].toSdk : Asks(x, n, c)' => Asks(x, n + l, c)
  BY AskedBefore
<1>3. Asks(s, i + k, c) /\ Asks(x, j + l, c)
  BY <1>1, <1>2
<1>4. s = x /\ i + k = j + l
  BY <1>3 DEF OneRequest, Asks
<1>5. Asks(s, j + k, c)
  BY <1>1, <1>4
<1>6. i + k = j + k
  BY <1>3, <1>5 DEF OneRequest, Asks
<1>7. i \in Nat /\ j \in Nat
  BY AskedBefore
<1>8. QED
  BY <1>4, <1>6, <1>7

LEMMA RequestedKept ==
  ASSUME IInv, Shape', Told, ran' = ran,
         \A s \in Sockets : Follows(wire'[s].toSdk, wire[s].toSdk)
  PROVE  OneRequest' /\ Requested' /\ AnsweredForCause'
<1>1. OneRequest'
  BY OneKept DEF IInv, Messages
<1>2. ASSUME NEW s \in Sockets, NEW c \in Calls, NEW i \in DOMAIN wire'[s].toSdk,
             Asks(s, i, c)'
      PROVE  ran'[c] = 0 /\ outcome'[c] \notin {"idle", "none", "ok", "failed"}
  <2>1. PICK k \in {0, 1} : Asks(s, i + k, c)
    BY <1>2, AskedBefore
  <2>2. ran[c] = 0 /\ outcome[c] \notin {"idle", "none", "ok", "failed"}
    BY <2>1 DEF IInv, Messages, Requested, Asks
  <2>3. QED
    BY <2>2 DEF Told
<1>3. AnsweredForCause'
  BY DEF IInv, Messages, AnsweredForCause, Told
<1>4. QED
  BY <1>1, <1>2, <1>3 DEF Requested

LEMMA QuietStep ==
  ASSUME IInv, Shape', Told, ran' = ran, sdk'.running \subseteq sdk.running,
         \A s \in Sockets : Quiet(wire'[s], wire[s]),
         \A s \in Sockets : wire'[s].sdk = "open" =>
           /\ sdk.offers \subseteq sdk'.offers
           /\ s \in DOMAIN conns' => conns'[s].offers \subseteq sdk.offers
  PROVE  Messages'
<1>1. OneRequest' /\ Requested' /\ AnsweredForCause'
  BY RequestedKept DEF Quiet
<1>2. Started'
  BY DEF IInv, Messages, Started, Quiet, Truthful
<1>3. ASSUME NEW s \in Sockets, wire'[s].sdk = "open"
      PROVE
        /\ s \in DOMAIN conns' => conns'[s].offers \subseteq sdk'.offers
        /\ \A m \in ToSet(wire'[s].toServer) : m.type = "register" => m.offers \subseteq sdk'.offers
        /\ \A m \in ToSet(wire'[s].toSdk) :
             m.type = "call" => m.call \in Calls /\ m.offers \subseteq sdk'.offers
  <2>1. wire[s].sdk = "open"
    BY <1>3 DEF Quiet
  <2>2. /\ \A m \in ToSet(wire[s].toServer) : m.type = "register" => m.offers \subseteq sdk.offers
        /\ \A m \in ToSet(wire[s].toSdk) :
             m.type = "call" => m.call \in Calls /\ m.offers \subseteq sdk.offers
    BY <2>1 DEF IInv, Messages, Offered
  <2>3. \A m \in ToSet(wire'[s].toServer) : m.type = "register" => m.offers \subseteq sdk'.offers
    BY <1>3, <2>2 DEF Quiet, Truthful
  <2>4. \A m \in ToSet(wire'[s].toSdk) : m.type = "call" => m \in ToSet(wire[s].toSdk)
    BY DEF Quiet, Follows, ToSet
  <2>5. QED
    BY <1>3, <2>2, <2>3, <2>4
<1>4. Offered'
  BY <1>3 DEF Offered
<1>5. QED
  BY <1>1, <1>2, <1>4 DEF Messages

Wires(v) ==
  /\ v \in [Sockets -> Socket]
  /\ \A s \in Sockets : Quiet(v[s], wire[s])

SameEnds(v) == \A s \in Sockets : v[s].server = wire[s].server
NoneOpened == \A s \in Sockets : wire'[s].server = "open" => wire[s].server = "open"

(* Nothing is said or asked, and the table is as it was.                   *)
LEMMA IdleStep ==
  ASSUME IInv, Shape', Wires(wire'), SameEnds(wire'),
         UNCHANGED <<conns, older, pending, outcome, ran>>,
         sdk'.running \subseteq sdk.running,
         \A s \in Sockets : wire'[s].sdk = "open" => sdk.offers \subseteq sdk'.offers
  PROVE  IInv' /\ NoneOpened
<1>1. Table' /\ Order'
  BY SameTable DEF IInv
<1>2. Listed'
  BY DEF IInv, Table, Listed, EntriesEnd, SameEnds
<1>3. WaitersKnown'
  BY DEF IInv, WaitersKnown
<1>4. Told
  BY DEF Told
<1>5. \A s \in Sockets : wire'[s].sdk = "open" => wire[s].sdk = "open"
  BY DEF Wires, Quiet
<1>6. \A s \in Sockets : wire'[s].sdk = "open" /\ s \in DOMAIN conns' =>
        conns'[s].offers \subseteq sdk.offers
  BY <1>5 DEF IInv, Messages, Offered
<1>7. Messages'
  BY <1>4, <1>6, QuietStep DEF Wires
<1>8. QED
  BY <1>1, <1>2, <1>3, <1>7 DEF IInv, SameEnds, NoneOpened

LEMMA Replaced ==
  ASSUME wire \in [Sockets -> Socket], NEW s \in Sockets, NEW u \in Socket, Quiet(u, wire[s]),
         NEW v, v = [wire EXCEPT ![s] = u]
  PROVE  /\ Wires(v) /\ v[s] = u /\ \A x \in Sockets \ {s} : v[x] = wire[x]
         /\ u.server = wire[s].server => SameEnds(v)
<1>1. /\ v \in [Sockets -> Socket] /\ v[s] = u
      /\ \A x \in Sockets \ {s} : v[x] = wire[x]
  OBVIOUS
<1>2. \A x \in Sockets : Quiet(v[x], wire[x])
  BY <1>1, SameSocket
<1>3. QED
  BY <1>1, <1>2 DEF Wires, SameEnds

LEMMA TakenWires ==
  ASSUME IInv, NEW s \in Sockets, Takes(s)
  PROVE  /\ Wires(Taken(s)) /\ SameEnds(Taken(s)) /\ wire[s].server /= "none"
         /\ Next1(s) \in Message /\ Next1(s) \in ToSet(wire[s].toServer)
         /\ \A x \in Sockets : Taken(s)[x].sdk = wire[x].sdk
<1> DEFINE q == Tail(wire[s].toServer)
           u == [wire[s] EXCEPT !.toServer = q]
<1>1. wire \in [Sockets -> Socket] /\ wire[s] \in Socket
  BY DEF IInv, Shape
<1>2. wire[s].toServer \in Seq(Message) /\ wire[s].toServer /= <<>>
  BY <1>1 DEF Socket, Wire, Takes
<1>3. /\ q \in Seq(Message) /\ ToSet(q) \subseteq ToSet(wire[s].toServer)
      /\ Next1(s) \in Message /\ Next1(s) \in ToSet(wire[s].toServer)
  BY <1>2, Taking DEF Next1
<1>4. Taken(s) = [wire EXCEPT ![s] = u]
  BY DEF Taken
<1> HIDE DEF q
<1>5. u \in Socket /\ u.toSdk = wire[s].toSdk /\ u.toServer = q /\ u.sdk = wire[s].sdk
      /\ u.server = wire[s].server
  BY <1>1, <1>3 DEF Socket, Wire
<1> HIDE DEF u
<1>6. Quiet(u, wire[s])
  BY <1>1, <1>3, <1>5, Staying DEF Quiet, Socket, Wire
<1>7. Wires(Taken(s)) /\ SameEnds(Taken(s)) /\ Taken(s)[s] = u
      /\ \A x \in Sockets \ {s} : Taken(s)[x] = wire[x]
  BY <1>1, <1>4, <1>5, <1>6, Replaced
<1>8. QED
  BY <1>3, <1>5, <1>7 DEF Takes

LEMMA ReadWires ==
  ASSUME IInv, NEW s \in Sockets, wire[s].toSdk /= <<>>
  PROVE  /\ Wires(Read(s)) /\ SameEnds(Read(s))
         /\ Head(wire[s].toSdk) \in Message /\ Head(wire[s].toSdk) = wire[s].toSdk[1]
         /\ 1 \in DOMAIN wire[s].toSdk /\ Head(wire[s].toSdk) \in ToSet(wire[s].toSdk)
         /\ Read(s)[s].toSdk = Tail(wire[s].toSdk)
         /\ \A x \in Sockets \ {s} : Read(s)[x] = wire[x]
         /\ \A x \in Sockets :
              /\ Read(s)[x].sdk = wire[x].sdk /\ Read(s)[x].toServer = wire[x].toServer
<1> DEFINE q == Tail(wire[s].toSdk)
           u == [wire[s] EXCEPT !.toSdk = q]
<1>1. wire \in [Sockets -> Socket] /\ wire[s] \in Socket
  BY DEF IInv, Shape
<1>2. wire[s].toSdk \in Seq(Message)
  BY <1>1 DEF Socket, Wire
<1>3. /\ q \in Seq(Message) /\ Follows(q, wire[s].toSdk) /\ 1 \in DOMAIN wire[s].toSdk
      /\ Head(wire[s].toSdk) = wire[s].toSdk[1]
      /\ Head(wire[s].toSdk) \in Message /\ Head(wire[s].toSdk) \in ToSet(wire[s].toSdk)
  BY <1>2, Taking
<1>4. Read(s) = [wire EXCEPT ![s] = u]
  BY DEF Read
<1> HIDE DEF q
<1>5. u \in Socket /\ u.toServer = wire[s].toServer /\ u.toSdk = q /\ u.sdk = wire[s].sdk
      /\ u.server = wire[s].server
  BY <1>1, <1>3 DEF Socket, Wire
<1> HIDE DEF u
<1>6. Quiet(u, wire[s])
  BY <1>1, <1>3, <1>5 DEF Quiet
<1>7. Wires(Read(s)) /\ SameEnds(Read(s)) /\ Read(s)[s] = u
      /\ \A x \in Sockets \ {s} : Read(s)[x] = wire[x]
  <2>1. u \in Socket /\ u.server = wire[s].server /\ wire \in [Sockets -> Socket]
    BY <1>1, <1>5
  <2>2. QED
    BY <1>4, <1>6, <2>1, Replaced, ZenonT(30)
<1>8. QED
  BY <1>3, <1>5, <1>7 DEF q
-----------------------------------------------------------------------------
(* The bridge and the route.                                               *)
LEMMA TimeoutStep == ASSUME IInv, NEW c \in Calls, Timeout(c) PROVE IInv' /\ NoneOpened
<1>1. /\ outcome' = [outcome EXCEPT ![c] = "timeout"] /\ pending' = pending \ {c}
      /\ UNCHANGED <<up, conns, older, ran, wire, sdk, faults>>
  BY DEF Timeout, Settle, server
<1>2. Shape' /\ Told
  BY <1>1 DEF IInv, Shape, Outcomes, Told
<1>3. Table' /\ Order' /\ Listed'
  BY <1>1, SameTable DEF IInv, Listed, EntriesEnd
<1>4. WaitersKnown'
  BY <1>1 DEF IInv, Shape, WaitersKnown
<1>5. \A s \in Sockets : Quiet(wire'[s], wire[s])
  BY <1>1, SameSocket DEF IInv, Shape
<1>6. \A s \in Sockets : wire'[s].sdk = "open" /\ s \in DOMAIN conns' =>
        conns'[s].offers \subseteq sdk.offers
  BY <1>1 DEF IInv, Messages, Offered
<1>7. Messages'
  BY <1>1, <1>2, <1>5, <1>6, QuietStep
<1>8. QED
  BY <1>1, <1>2, <1>3, <1>4, <1>7 DEF IInv, NoneOpened

LEMMA RegisterStep == ASSUME IInv, NEW s \in Sockets, Register(s) PROVE IInv' /\ NoneOpened
<1> DEFINE e == Entry(TRUE, Next1(s).offers)
<1>1. /\ Takes(s) /\ Next1(s).type = "register" /\ wire' = Taken(s)
      /\ conns' = WithEntry(s, e, conns) /\ older' = HeardLast(s, {})
      /\ UNCHANGED <<up, pending, outcome, ran, sdk, faults>>
  BY DEF Register, callers
<1>2. /\ Wires(wire') /\ SameEnds(wire') /\ wire[s].server /= "none"
      /\ Next1(s) \in Message /\ Next1(s) \in ToSet(wire[s].toServer)
      /\ \A x \in Sockets : wire'[x].sdk = wire[x].sdk
  BY <1>1, TakenWires
<1>3. Shape' /\ Told
  BY <1>1, <1>2 DEF IInv, Shape, Wires, Told
<1>4. e \in Connection /\ e.offers = Next1(s).offers
  BY <1>2 DEF Entry, Connection, Message
<1>5. conns' = WithEntry(s, e, Rest({}))
  <2>1. DOMAIN Rest({}) = DOMAIN conns /\ \A x \in DOMAIN conns : Rest({})[x] = conns[x]
    BY DEF Rest
  <2>2. QED
    BY <1>1, <2>1 DEF WithEntry
<1> HIDE DEF e
<1>6. /\ Table' /\ Order' /\ DOMAIN conns' = DOMAIN conns \cup {s}
      /\ \A x \in DOMAIN conns' : conns'[x] = IF x = s THEN e ELSE conns[x]
  <2>1. /\ Table' /\ Order' /\ DOMAIN conns' = (DOMAIN conns \ {}) \cup {s}
        /\ \A x \in DOMAIN conns' : conns'[x] = IF x = s THEN e ELSE conns[x]
    <3>1. Table /\ Order /\ older' = HeardLast(s, {})
      BY <1>1 DEF IInv
    <3>2. QED
      BY <1>4, <1>5, <3>1, TableGrows
  <2>2. QED
    BY <2>1
<1>7. Listed'
  <2>1. \A x \in DOMAIN conns' : x \in Sockets /\ wire[x].server /= "none"
    BY <1>2, <1>6 DEF IInv, Table, Listed, EntriesEnd
  <2>2. \A x \in Sockets : wire[x].server = "open" => x \in DOMAIN conns
    BY DEF IInv, Listed
  <2>3. QED
    BY <1>2, <1>6, <2>1, <2>2 DEF Listed, EntriesEnd, SameEnds
<1>8. WaitersKnown'
  BY <1>1 DEF IInv, WaitersKnown
<1>9. \A x \in Sockets : wire'[x].sdk = "open" /\ x \in DOMAIN conns' =>
        conns'[x].offers \subseteq sdk.offers
  BY <1>1, <1>2, <1>4, <1>6 DEF IInv, Messages, Offered
<1>10. Messages'
  BY <1>1, <1>2, <1>3, <1>9, QuietStep DEF Wires
<1>11. QED
  BY <1>2, <1>3, <1>6, <1>7, <1>8, <1>10 DEF IInv, SameEnds, NoneOpened

LEMMA RefuseStep == ASSUME IInv, NEW s \in Sockets, Refuse(s) PROVE IInv' /\ NoneOpened
<1>1. /\ Takes(s) /\ wire' = Taken(s)
      /\ UNCHANGED <<up, conns, older, pending, outcome, ran, sdk, faults>>
  BY DEF Refuse, server, callers
<1>2. Wires(wire') /\ SameEnds(wire')
  BY <1>1, TakenWires
<1>3. Shape'
  BY <1>1, <1>2 DEF IInv, Shape, Wires
<1>4. QED
  BY <1>1, <1>2, <1>3, IdleStep

LEMMA PongStep == ASSUME IInv, NEW s \in Sockets, Pong(s) PROVE IInv' /\ NoneOpened
<1> DEFINE e == [conns[s] EXCEPT !.missed = 0]
<1>1. /\ Takes(s) /\ wire' = Taken(s) /\ s \in DOMAIN conns
      /\ conns' = [conns EXCEPT ![s] = e] /\ older' = HeardLast(s, {})
      /\ UNCHANGED <<up, pending, outcome, ran, sdk, faults>>
  BY DEF Pong, callers, IsRegistered
<1>2. /\ Wires(wire') /\ SameEnds(wire')
      /\ \A x \in Sockets : wire'[x].sdk = wire[x].sdk
  BY <1>1, TakenWires
<1>3. Shape' /\ Told
  BY <1>1, <1>2 DEF IInv, Shape, Wires, Told
<1>4. e \in Connection /\ e.offers = conns[s].offers
  BY <1>1 DEF IInv, Table, Connection
<1> HIDE DEF e
<1>5. DOMAIN conns' = DOMAIN conns
      /\ \A x \in DOMAIN conns' : conns'[x] = IF x = s THEN e ELSE conns[x]
  BY <1>1
<1>6. Table' /\ Listed'
  BY <1>2, <1>4, <1>5 DEF IInv, Table, Listed, EntriesEnd, SameEnds
<1>7. Order'
  BY <1>1, <1>5 DEF IInv, Order, HeardLast, Without
<1>8. WaitersKnown'
  BY <1>1 DEF IInv, WaitersKnown
<1>9. \A x \in Sockets : wire'[x].sdk = "open" /\ x \in DOMAIN conns' =>
        conns'[x].offers \subseteq sdk.offers
  BY <1>2, <1>4, <1>5 DEF IInv, Messages, Offered
<1>10. Messages'
  BY <1>1, <1>2, <1>3, <1>9, QuietStep DEF Wires
<1>11. QED
  BY <1>2, <1>3, <1>6, <1>7, <1>8, <1>10 DEF IInv, SameEnds, NoneOpened

LEMMA ResultStep == ASSUME IInv, NEW s \in Sockets, Result(s) PROVE IInv' /\ NoneOpened
<1> DEFINE c == Next1(s).call
           how == Next1(s).type
<1>1. /\ Takes(s) /\ how \in {"ok", "failed"} /\ wire' = Taken(s)
      /\ UNCHANGED <<up, conns, older, ran, sdk, faults>>
      /\ IF c \in pending
         THEN pending' = pending \ {c} /\ outcome' = [outcome EXCEPT ![c] = how]
         ELSE UNCHANGED <<pending, outcome>>
  BY DEF Result, server, callers, Settle
<1>2. /\ Wires(wire') /\ SameEnds(wire')
      /\ Next1(s) \in ToSet(wire[s].toServer)
  BY <1>1, TakenWires
<1>3. c \in Calls /\ ran[c] = 1
  BY <1>1, <1>2 DEF IInv, Messages, Started
<1> HIDE DEF c, how
<1>4. Shape'
  BY <1>1, <1>2, <1>3 DEF IInv, Shape, Wires, Outcomes
<1>5. Told
  BY <1>1, <1>3 DEF IInv, Shape, Told
<1>6. WaitersKnown'
  BY <1>1, <1>3 DEF IInv, Shape, WaitersKnown
<1>7. Table' /\ Order'
  BY <1>1, SameTable DEF IInv
<1>8. Listed'
  BY <1>1, <1>2 DEF IInv, Table, Listed, EntriesEnd, SameEnds
<1>9. \A x \in Sockets : wire'[x].sdk = "open" => wire[x].sdk = "open"
  BY <1>2 DEF Wires, Quiet
<1>10. \A x \in Sockets : wire'[x].sdk = "open" /\ x \in DOMAIN conns' =>
         conns'[x].offers \subseteq sdk.offers
  BY <1>1, <1>9 DEF IInv, Messages, Offered
<1>11. Messages'
  BY <1>1, <1>2, <1>4, <1>5, <1>10, QuietStep DEF Wires
<1>12. QED
  BY <1>2, <1>4, <1>6, <1>7, <1>8, <1>11 DEF IInv, SameEnds, NoneOpened

LEMMA TooLargeStep == ASSUME IInv, NEW s \in Sockets, TooLarge(s) PROVE IInv' /\ NoneOpened
<1> DEFINE u == ClosedByServer(Taken(s)[s])
<1>1. /\ Takes(s) /\ wire' = [Taken(s) EXCEPT ![s] = u]
      /\ UNCHANGED <<up, conns, older, pending, outcome, ran, sdk, faults>>
  BY DEF TooLarge, server, callers
<1>2. /\ Wires(Taken(s)) /\ SameEnds(Taken(s)) /\ wire[s].server /= "none"
  BY <1>1, TakenWires
<1>3. /\ Taken(s) \in [Sockets -> Socket] /\ Taken(s)[s] \in Socket /\ wire[s] \in Socket
      /\ Taken(s)[s].server /= "none" /\ Taken(s)[s].toSdk = wire[s].toSdk
  BY <1>2 DEF IInv, Shape, Wires, SameEnds, Taken
<1>4. u \in Socket /\ Quiet(u, Taken(s)[s]) /\ u.server = "closing"
  BY <1>3, ClosedQuiet
<1>5. Quiet(u, wire[s])
  BY <1>2, <1>3, <1>4, QuietTwice DEF Wires
<1> HIDE DEF u
<1>6. Wires(wire')
  BY <1>1, <1>2, <1>3, <1>4, <1>5 DEF Wires
<1>7. wire'[s].server = "closing" /\ \A x \in Sockets \ {s} : wire'[x].server = wire[x].server
  BY <1>1, <1>2, <1>3, <1>4 DEF SameEnds
<1>8. Shape' /\ Told
  BY <1>1, <1>6 DEF IInv, Shape, Wires, Told
<1>9. Table' /\ Order' /\ WaitersKnown'
  BY <1>1, SameTable DEF IInv, WaitersKnown
<1>10. Listed'
  BY <1>1, <1>7 DEF IInv, Table, Listed, EntriesEnd
<1>11. \A x \in Sockets : wire'[x].sdk = "open" => wire[x].sdk = "open"
  BY <1>6 DEF Wires, Quiet
<1>12. \A x \in Sockets : wire'[x].sdk = "open" /\ x \in DOMAIN conns' =>
         conns'[x].offers \subseteq sdk.offers
  BY <1>1, <1>11 DEF IInv, Messages, Offered
<1>13. Messages'
  BY <1>1, <1>6, <1>8, <1>12, QuietStep DEF Wires
<1>14. QED
  BY <1>7, <1>8, <1>9, <1>10, <1>13 DEF IInv, NoneOpened

(* Connections leave the table, their sockets are closing or gone.         *)
LEMMA LeaveStep ==
  ASSUME IInv, NEW out \in SUBSET Sockets, conns' = Rest(out), older' = Without(out), Wires(wire'),
         \A s \in out : wire'[s].server /= "open",
         \A s \in Sockets \ out : wire'[s].server = wire[s].server,
         UNCHANGED <<up, pending, outcome, ran, sdk, faults>>
  PROVE  IInv' /\ NoneOpened
<1>1. Shape' /\ Told
  BY DEF IInv, Shape, Wires, Told
<1>2. /\ Table' /\ Order' /\ DOMAIN conns' = DOMAIN conns \ out
      /\ \A s \in DOMAIN conns' : conns'[s] = conns[s]
  BY TableShrinks DEF IInv
<1>3. Listed'
  BY <1>2 DEF IInv, Table, Listed, EntriesEnd
<1>4. WaitersKnown'
  BY DEF IInv, WaitersKnown
<1>5. \A x \in Sockets : wire'[x].sdk = "open" => wire[x].sdk = "open"
  BY DEF Wires, Quiet
<1>6. \A x \in Sockets : wire'[x].sdk = "open" /\ x \in DOMAIN conns' =>
        conns'[x].offers \subseteq sdk.offers
  BY <1>2, <1>5 DEF IInv, Messages, Offered
<1>7. Messages'
  BY <1>1, <1>6, QuietStep DEF Wires
<1>8. QED
  BY <1>1, <1>2, <1>3, <1>4, <1>7 DEF IInv, NoneOpened

LEMMA ServerEndStep ==
  ASSUME IInv, NEW s \in Sockets, Gone(s) \/ ServerNotices(s)
  PROVE  IInv' /\ NoneOpened
<1> DEFINE u == Recycled([Cut(wire[s]) EXCEPT !.server = "none"])
<1>1. /\ conns' = Rest({s}) /\ older' = Without({s}) /\ wire' = [wire EXCEPT ![s] = u]
      /\ UNCHANGED <<up, pending, outcome, ran, sdk, faults>>
  BY DEF Gone, ServerNotices, ServerEnd, Unregister, callers
<1>2. wire \in [Sockets -> Socket] /\ wire[s] \in Socket
  BY DEF IInv, Shape
<1>3. u \in Socket /\ Quiet(u, wire[s]) /\ u.server = "none"
  BY <1>2, ServerGone
<1> HIDE DEF u
<1>4. Wires(wire') /\ wire'[s] = u /\ \A x \in Sockets \ {s} : wire'[x] = wire[x]
  BY <1>1, <1>2, <1>3, Replaced
<1> DEFINE out == {s}
<1>5. /\ out \in SUBSET Sockets
      /\ \A x \in out : wire'[x].server /= "open"
      /\ \A x \in Sockets \ out : wire'[x].server = wire[x].server
  BY <1>3, <1>4
<1>6. conns' = Rest(out) /\ older' = Without(out)
  BY <1>1
<1> HIDE DEF out
<1>7. QED
  BY <1>1, <1>4, <1>5, <1>6, LeaveStep

LEMMA SweepStep == ASSUME IInv, Sweep PROVE IInv' /\ NoneOpened
<1>1. PICK early \in SUBSET {s \in DOMAIN conns : ~ conns[s].registered} :
       /\ conns' = [s \in DOMAIN conns \ Expired(early) |->
                      [conns[s] EXCEPT !.missed = IF @ < 2 THEN @ + 1 ELSE @]]
       /\ older' = Without(Expired(early))
       /\ wire' = [s \in Sockets |->
                     IF s \in Expired(early) THEN ClosedByServer(wire[s])
                     ELSE IF s \in DOMAIN conns THEN ToSdk(wire[s], Msg("ping")) ELSE wire[s]]
  BY DEF Sweep
<1> DEFINE out == Expired(early)
<1>2. UNCHANGED <<up, pending, outcome, ran, sdk, faults>>
  BY DEF Sweep, callers
<1>3. out \subseteq DOMAIN conns
  BY DEF Expired
<1> HIDE DEF out
<1>4. \A s \in Sockets : wire[s] \in Socket
  BY DEF IInv, Shape
<1>5. \A s \in out : s \in Sockets /\ wire[s].server /= "none"
  BY <1>3 DEF IInv, Table, Listed, EntriesEnd
<1>6. ASSUME NEW s \in Sockets
      PROVE  /\ wire'[s] \in Socket /\ Quiet(wire'[s], wire[s])
             /\ wire'[s].server = IF s \in out THEN "closing" ELSE wire[s].server
  <2>1. CASE s \in out
    <3>1. wire'[s] = ClosedByServer(wire[s])
      BY <1>1, <2>1 DEF out
    <3>2. QED
      BY <1>4, <1>5, <2>1, <3>1, ClosedQuiet
  <2>2. CASE s \notin out /\ s \in DOMAIN conns
    <3>1. wire'[s] = ToSdk(wire[s], Msg("ping"))
      BY <1>1, <2>2 DEF out
    <3>2. Msg("ping") \in Message /\ Msg("ping").type /= "call"
      BY Kinds
    <3>3. QED
      BY <1>4, <2>2, <3>1, <3>2, ToSdkQuiet
  <2>3. CASE s \notin out /\ s \notin DOMAIN conns
    <3>1. wire'[s] = wire[s]
      BY <1>1, <2>3 DEF out
    <3>2. QED
      BY <1>4, <2>3, <3>1, SameSocket
  <2>4. QED
    BY <2>1, <2>2, <2>3
<1>7. Wires(wire')
  <2>1. wire' = [s \in Sockets |-> wire'[s]]
    BY <1>1
  <2>2. QED
    BY <1>6, <2>1 DEF Wires
<1>8. Shape' /\ Told
  BY <1>2, <1>7 DEF IInv, Shape, Wires, Told
<1>9. /\ DOMAIN conns' = DOMAIN conns \ out
      /\ \A s \in DOMAIN conns' : conns'[s] \in Connection /\ conns'[s].offers = conns[s].offers
  <2>1. DOMAIN conns' = DOMAIN conns \ out
    BY <1>1 DEF out
  <2>2. ASSUME NEW s \in DOMAIN conns'
        PROVE  conns'[s] \in Connection /\ conns'[s].offers = conns[s].offers
    <3>1. conns'[s] = [conns[s] EXCEPT !.missed = IF @ < 2 THEN @ + 1 ELSE @]
      BY <1>1, <2>1 DEF out
    <3>2. conns[s] \in Connection
      BY <2>1 DEF IInv, Table
    <3>3. QED
      BY <3>1, <3>2 DEF Connection
  <2>3. QED
    BY <2>1, <2>2
<1>10. Table'
  <2>1. IsFiniteSet(DOMAIN conns')
    BY <1>9, FS_Subset DEF IInv, Table
  <2>2. QED
    BY <1>9, <2>1 DEF IInv, Table
<1>11. Order'
  BY <1>1, <1>9 DEF IInv, Order, Without, out
<1>12. Listed'
  BY <1>6, <1>9 DEF IInv, Table, Listed, EntriesEnd
<1>13. \A x \in Sockets : wire'[x].sdk = "open" => wire[x].sdk = "open"
  BY <1>6 DEF Quiet
<1>14. \A x \in Sockets : wire'[x].sdk = "open" /\ x \in DOMAIN conns' =>
         conns'[x].offers \subseteq sdk.offers
  BY <1>9, <1>13 DEF IInv, Messages, Offered
<1>15. Messages'
  BY <1>2, <1>6, <1>8, <1>14, QuietStep
<1>16. WaitersKnown'
  BY <1>2 DEF IInv, WaitersKnown
<1>17. QED
  BY <1>6, <1>8, <1>10, <1>11, <1>12, <1>15, <1>16 DEF IInv, NoneOpened

LEMMA DownStep == ASSUME IInv, Restart \/ Shutdown PROVE IInv' /\ NoneOpened
<1>1. /\ up' = FALSE /\ conns' = <<>> /\ older' = {} /\ pending' = {} /\ UNCHANGED <<ran, sdk>>
      /\ faults < MaxFaults /\ faults' = faults + 1
      /\ wire' = [s \in Sockets |-> IF wire[s].server = "none" THEN wire[s]
                                    ELSE Recycled([Cut(wire[s]) EXCEPT !.server = "none"])]
  BY DEF Restart, Shutdown, Down, Fault
<1>2. pending = {c \in Calls : outcome[c] = "open"}
  BY DEF IInv, WaitersKnown
<1>3. \E how \in {"lost", "shutdown"} :
        outcome' = [c \in Calls |-> IF outcome[c] = "open" THEN how ELSE outcome[c]]
  <2>1. CASE Restart
    BY <2>1 DEF Restart
  <2>2. CASE Shutdown
    BY <1>2, <2>2 DEF Shutdown
  <2>3. QED
    BY <2>1, <2>2
<1>4. ASSUME NEW s \in Sockets
      PROVE  /\ wire'[s] \in Socket /\ Quiet(wire'[s], wire[s]) /\ wire'[s].server = "none"
  <2>1. wire[s] \in Socket
    BY DEF IInv, Shape
  <2>2. CASE wire[s].server = "none"
    BY <1>1, <2>1, <2>2, SameSocket
  <2>3. CASE wire[s].server /= "none"
    BY <1>1, <2>1, <2>3, ServerGone
  <2>4. QED
    BY <2>2, <2>3
<1>5. wire' \in [Sockets -> Socket]
  <2>1. wire' = [s \in Sockets |-> wire'[s]]
    BY <1>1
  <2>2. QED
    BY <1>4, <2>1
<1>6. outcome' \in [Calls -> Outcomes] /\ WaitersKnown' /\ Told
  BY <1>1, <1>3 DEF IInv, Shape, Outcomes, WaitersKnown, Told
<1>7. Shape'
  <2>1. faults' \in 0..MaxFaults
    BY <1>1, SdkConstants DEF IInv, Shape
  <2>2. QED
    BY <1>1, <1>5, <1>6, <2>1 DEF IInv, Shape
<1>8. DOMAIN conns' = {}
  BY <1>1
<1>9. Table' /\ Order' /\ Listed'
  BY <1>1, <1>4, <1>8, FS_EmptySet DEF Table, Order, Listed, EntriesEnd
<1>10. Messages'
  BY <1>1, <1>4, <1>6, <1>7, <1>8, QuietStep
<1>11. QED
  BY <1>4, <1>6, <1>7, <1>9, <1>10 DEF IInv, NoneOpened

LEMMA BootStep == ASSUME IInv, Boot PROVE IInv' /\ NoneOpened
<1>1. up' = TRUE /\ UNCHANGED <<conns, older, pending, outcome, ran, wire, sdk, faults>>
  BY DEF Boot, callers
<1>2. Shape' /\ Wires(wire') /\ SameEnds(wire')
  BY <1>1, SameSocket DEF IInv, Shape, Wires, SameEnds
<1>3. QED
  BY <1>1, <1>2, IdleStep

LEMMA CallStep ==
  ASSUME IInv, NEW c \in Calls, NEW f \in Functions, Call(c, f)
  PROVE  IInv' /\ NoneOpened
<1>1. outcome[c] = "idle" /\ UNCHANGED <<up, conns, older, ran, sdk, faults>>
  BY DEF Call, server
<1>2. Table' /\ Order'
  BY <1>1, SameTable DEF IInv
<1>3. ASSUME NEW s \in Sockets, NEW i \in DOMAIN wire[s].toSdk
      PROVE  ~ Asks(s, i, c)
  BY <1>1 DEF IInv, Messages, Requested
<1>4. CASE outcome' = [outcome EXCEPT ![c] = "none"] /\ UNCHANGED <<pending, wire>>
  <2>1. Shape' /\ Told
    BY <1>1, <1>4 DEF IInv, Shape, Outcomes, Told
  <2>2. Listed'
    BY <1>1, <1>4 DEF IInv, Listed, EntriesEnd
  <2>3. WaitersKnown'
    BY <1>1, <1>4 DEF IInv, Shape, WaitersKnown
  <2>4. \A s \in Sockets : Quiet(wire'[s], wire[s])
    BY <1>4, SameSocket DEF IInv, Shape
  <2>6. \A s \in Sockets : wire'[s].sdk = "open" /\ s \in DOMAIN conns' =>
          conns'[s].offers \subseteq sdk.offers
    BY <1>1, <1>4 DEF IInv, Messages, Offered
  <2>7. Messages'
    BY <1>1, <2>1, <2>4, <2>6, QuietStep
  <2>8. QED
    BY <1>2, <1>4, <2>1, <2>2, <2>3, <2>7 DEF IInv, NoneOpened
<1>5. CASE /\ outcome' = [outcome EXCEPT ![c] = "open"]
           /\ pending' = pending \cup {c} /\ SendTo(c, f)
  <2> DEFINE m == Request(c, f)
  <2>1. PICK n \in Candidates(f) : wire' = [wire EXCEPT ![n] = ToSdk(@, m)]
    BY <1>5 DEF SendTo
  <2>2. /\ m \in Message /\ m.type = "call" /\ m.call = c /\ m.offers = {f}
    BY Kinds
  <2> HIDE DEF m
  <2>3. n \in Sockets /\ n \in DOMAIN conns /\ f \in conns[n].offers
    BY DEF Candidates, IInv, Table
  <2> DEFINE u == ToSdk(wire[n], m)
             q == wire[n].toSdk
  <2>4. wire \in [Sockets -> Socket] /\ wire[n] \in Socket /\ q \in Seq(Message)
    BY <2>3 DEF IInv, Shape, Socket, Wire
  <2>5. /\ u \in Socket /\ u.server = wire[n].server /\ u.sdk = wire[n].sdk
        /\ u.toServer = wire[n].toServer /\ u.toSdk \in {q, Append(q, m)}
    BY <2>2, <2>4, ToSdkQuiet
  <2>6. /\ DOMAIN Append(q, m) = DOMAIN q \cup {Len(q) + 1}
        /\ \A i \in DOMAIN q : Append(q, m)[i] = q[i]
        /\ Append(q, m)[Len(q) + 1] = m
        /\ ToSet(Append(q, m)) = ToSet(q) \cup {m}
    BY <2>2, <2>4, Adding
  <2>7. wire' = [wire EXCEPT ![n] = u]
    BY <2>1
  <2> HIDE DEF u, q
  <2>8. /\ wire' \in [Sockets -> Socket] /\ wire'[n] = u
        /\ \A s \in Sockets \ {n} : wire'[s] = wire[s]
    BY <2>3, <2>4, <2>5, <2>7
  <2>9. Shape'
    BY <1>1, <1>5, <2>8 DEF IInv, Shape, Outcomes
  <2>10. Listed'
    BY <1>1, <2>5, <2>8 DEF IInv, Table, Listed, EntriesEnd
  <2>11. WaitersKnown'
    BY <1>1, <1>5 DEF IInv, Shape, WaitersKnown
  <2>12. ASSUME NEW s \in Sockets, NEW i \in DOMAIN wire'[s].toSdk, NEW d \in Calls, Asks(s, i, d)'
         PROVE  \/ d /= c /\ i \in DOMAIN wire[s].toSdk /\ Asks(s, i, d)
                \/ d = c /\ s = n /\ i = Len(q) + 1
    <3>1. CASE s /= n
      <4>1. Asks(s, i, d) /\ i \in DOMAIN wire[s].toSdk
        BY <2>8, <2>12, <3>1 DEF Asks
      <4>2. QED
        BY <1>3, <4>1
    <3>2. CASE s = n /\ i \in DOMAIN q
      <4>1. Asks(s, i, d) /\ i \in DOMAIN wire[s].toSdk
        BY <2>5, <2>6, <2>8, <2>12, <3>2 DEF Asks, q
      <4>2. QED
        BY <1>3, <4>1
    <3>3. CASE s = n /\ i \notin DOMAIN q
      <4>1. wire'[s].toSdk = Append(q, m) /\ i = Len(q) + 1
        BY <2>5, <2>6, <2>8, <2>12, <3>3 DEF Asks
      <4>2. d = c
        BY <2>2, <2>6, <2>12, <4>1 DEF Asks
      <4>3. QED
        BY <3>3, <4>1, <4>2
    <3>4. QED
      BY <3>1, <3>2, <3>3
  <2>13. OneRequest'
    <3> SUFFICES ASSUME NEW s \in Sockets, NEW x \in Sockets, NEW d \in Calls,
                        NEW i \in DOMAIN wire'[s].toSdk, NEW j \in DOMAIN wire'[x].toSdk,
                        Asks(s, i, d)', Asks(x, j, d)'
                 PROVE  s = x /\ i = j
      BY DEF OneRequest
    <3>1. CASE d = c
      BY <2>12, <3>1
    <3>2. CASE d /= c
      <4>1. /\ i \in DOMAIN wire[s].toSdk /\ Asks(s, i, d)
            /\ j \in DOMAIN wire[x].toSdk /\ Asks(x, j, d)
        BY <2>12, <3>2
      <4>2. QED
        BY <4>1 DEF IInv, Messages, OneRequest
    <3>3. QED
      BY <3>1, <3>2
  <2>14. ran[c] = 0
    BY <1>1 DEF IInv, Messages, AnsweredForCause
  <2>15. Requested'
    <3> SUFFICES ASSUME NEW s \in Sockets, NEW d \in Calls, NEW i \in DOMAIN wire'[s].toSdk,
                        Asks(s, i, d)'
                 PROVE  ran'[d] = 0 /\ outcome'[d] \notin {"idle", "none", "ok", "failed"}
      BY DEF Requested
    <3>1. CASE d = c
      BY <1>1, <1>5, <2>14, <3>1 DEF IInv, Shape
    <3>2. CASE d /= c
      <4>1. ran[d] = 0 /\ outcome[d] \notin {"idle", "none", "ok", "failed"}
        BY <2>12, <3>2 DEF IInv, Messages, Requested
      <4>2. QED
        BY <1>1, <1>5, <3>2, <4>1
    <3>3. QED
      BY <3>1, <3>2
  <2>16. Started'
    BY <1>1, <2>5, <2>8 DEF IInv, Messages, Started
  <2>17. Offered'
    <3> SUFFICES ASSUME NEW s \in Sockets, wire'[s].sdk = "open"
                 PROVE
          /\ s \in DOMAIN conns => conns[s].offers \subseteq sdk.offers
          /\ \A k \in ToSet(wire'[s].toServer) :
               k.type = "register" => k.offers \subseteq sdk.offers
          /\ \A k \in ToSet(wire'[s].toSdk) :
               k.type = "call" => k.call \in Calls /\ k.offers \subseteq sdk.offers
      BY <1>1 DEF Offered
    <3>1. wire[s].sdk = "open" /\ wire'[s].toServer = wire[s].toServer
      BY <2>5, <2>8
    <3>2. /\ s \in DOMAIN conns => conns[s].offers \subseteq sdk.offers
          /\ \A k \in ToSet(wire[s].toServer) :
               k.type = "register" => k.offers \subseteq sdk.offers
          /\ \A k \in ToSet(wire[s].toSdk) :
               k.type = "call" => k.call \in Calls /\ k.offers \subseteq sdk.offers
      BY <3>1 DEF IInv, Messages, Offered
    <3>3. CASE s /= n
      BY <2>8, <3>2, <3>3
    <3>4. CASE s = n
      <4>1. ToSet(wire'[s].toSdk) \subseteq ToSet(wire[s].toSdk) \cup {m}
        BY <2>5, <2>6, <2>8, <3>4 DEF q
      <4>2. m.offers \subseteq sdk.offers
        BY <2>2, <2>3, <3>2, <3>4
      <4>3. QED
        BY <2>2, <3>1, <3>2, <4>1, <4>2
    <3>5. QED
      BY <3>3, <3>4
  <2>18. AnsweredForCause'
    BY <1>1, <1>5 DEF IInv, Shape, Messages, AnsweredForCause
  <2>19. NoneOpened
    BY <2>5, <2>8 DEF NoneOpened
  <2>20. QED
    BY <1>2, <2>9, <2>10, <2>11, <2>13, <2>15, <2>16, <2>17, <2>18, <2>19 DEF IInv, Messages
<1>6. QED
  BY <1>4, <1>5 DEF Call
-----------------------------------------------------------------------------
(* The client.                                                             *)
LEMMA Counting ==
  ASSUME IInv, faults' = faults \/ (faults < MaxFaults /\ faults' = faults + 1)
  PROVE  faults' \in 0..MaxFaults
BY SdkConstants DEF IInv, Shape

LEMMA ExposeStep == ASSUME IInv, NEW f \in Functions, Expose(f) PROVE IInv' /\ NoneOpened
<1>1. /\ sdk' = [sdk EXCEPT !.offers = @ \cup {f}]
      /\ UNCHANGED <<up, conns, older, pending, outcome, ran, wire, faults>>
  BY DEF Expose, NoFault, server, callers
<1>2. sdk' \in Client /\ sdk'.running = sdk.running /\ sdk.offers \subseteq sdk'.offers
  BY <1>1 DEF IInv, Shape, Client
<1>3. Shape' /\ Wires(wire') /\ SameEnds(wire')
  BY <1>1, <1>2, SameSocket DEF IInv, Shape, Wires, SameEnds
<1>4. QED
  BY <1>1, <1>2, <1>3, IdleStep

(* What most steps of the client do: one or more sockets change quietly,   *)
(* and the client forgets nothing it offers, or no socket stays open.      *)
LEMMA ClientStep ==
  ASSUME IInv, Wires(wire'), SameEnds(wire'), sdk' \in Client, sdk'.running \subseteq sdk.running,
         sdk'.offers = sdk.offers \/ \A s \in Sockets : wire'[s].sdk /= "open",
         faults' = faults \/ (faults < MaxFaults /\ faults' = faults + 1),
         UNCHANGED <<up, conns, older, pending, outcome, ran>>
  PROVE  IInv' /\ NoneOpened
<1>1. Shape'
  BY Counting DEF IInv, Shape, Wires
<1>2. QED
  BY <1>1, IdleStep

LEMMA DialingWires ==
  ASSUME IInv, NEW looped \in BOOLEAN, Dialing(looped)
  PROVE  Wires(wire') /\ SameEnds(wire')
<1>1. PICK s \in Sockets : /\ wire[s] = FreeSocket
                           /\ wire' = [wire EXCEPT ![s].sdk = "dialing", ![s].looped = looped]
  BY DEF Dialing
<1> DEFINE u == [wire[s] EXCEPT !.sdk = "dialing", !.looped = looped]
<1>2. wire \in [Sockets -> Socket] /\ wire[s] \in Socket
  BY DEF IInv, Shape
<1>3. wire' = [wire EXCEPT ![s] = u]
  BY <1>1, <1>2
<1>4. /\ u \in Socket /\ u.sdk = "dialing" /\ u.server = wire[s].server
      /\ u.toServer = <<>> /\ u.toSdk = <<>>
  <2>1. wire[s].server = "none" /\ wire[s].toServer = <<>> /\ wire[s].toSdk = <<>>
    BY <1>1 DEF FreeSocket
  <2>2. wire[s] \in Wire
    BY <1>2 DEF Socket
  <2>3. /\ u \in Wire /\ u.sdk = "dialing" /\ u.server = wire[s].server
        /\ u.toServer = wire[s].toServer /\ u.toSdk = wire[s].toSdk
    BY <2>2 DEF Wire
  <2>4. QED
    BY <2>1, <2>3 DEF Socket
<1> HIDE DEF u
<1>5. Quiet(u, wire[s])
  BY <1>4, Empty DEF Quiet
<1>6. QED
  <2>1. u \in Socket /\ u.server = wire[s].server /\ wire \in [Sockets -> Socket]
    BY <1>2, <1>4
  <2>2. QED
    BY <1>3, <1>5, <2>1, Replaced, ZenonT(30)

LEMMA ListenStep == ASSUME IInv, Listen PROVE IInv' /\ NoneOpened
<1>1. Python \in BOOLEAN /\ Dialing(Python)
  BY DEF Listen, Python
<1>2. /\ sdk' = [sdk EXCEPT !.wanted = TRUE] /\ faults' = faults
      /\ UNCHANGED <<up, conns, older, pending, outcome, ran>>
  BY DEF Listen, NoFault, server, callers
<1>3. sdk' \in Client /\ sdk'.running = sdk.running /\ sdk'.offers = sdk.offers
  BY <1>2 DEF IInv, Shape, Client
<1>4. Wires(wire') /\ SameEnds(wire')
  BY <1>1, DialingWires
<1>5. QED
  BY <1>2, <1>3, <1>4, ClientStep

LEMMA DialStep == ASSUME IInv, Dial PROVE IInv' /\ NoneOpened
<1>1. /\ sdk.loops > 0 /\ sdk' = [sdk EXCEPT !.loops = @ - 1] /\ faults' = faults
      /\ UNCHANGED <<up, conns, older, pending, outcome, ran>>
  BY DEF Dial, NoFault, server, callers
<1>2. sdk' \in Client /\ sdk'.running = sdk.running /\ sdk'.offers = sdk.offers
  BY <1>1 DEF IInv, Shape, Client
<1>3. Dialing(TRUE) \/ wire' = wire
  BY DEF Dial
<1>4. Wires(wire') /\ SameEnds(wire')
  <2>1. CASE Dialing(TRUE)
    BY <2>1, DialingWires
  <2>2. CASE wire' = wire
    BY <2>2, SameSocket DEF IInv, Shape, Wires, SameEnds
  <2>3. QED
    BY <1>3, <2>1, <2>2
<1>5. QED
  BY <1>1, <1>2, <1>4, ClientStep

LEMMA AfterCloseClient ==
  ASSUME IInv, NEW retry \in BOOLEAN, AfterClose(retry)
  PROVE  sdk' \in Client /\ sdk'.running = sdk.running /\ sdk'.offers = sdk.offers
<1>1. (IF Python THEN 1 ELSE NodeLoops(retry)) \in Nat
  BY DEF NodeLoops, IInv, Shape, Client
<1>2. QED
  BY <1>1 DEF AfterClose, IInv, Shape, Client

LEMMA DialFailsStep == ASSUME IInv, NEW s \in Sockets, DialFails(s) PROVE IInv' /\ NoneOpened
<1>1. /\ faults < MaxFaults /\ faults' = faults + 1 /\ wire[s].sdk = "dialing"
      /\ wire' = [wire EXCEPT ![s] = FreeSocket] /\ AfterClose(wire[s].looped)
      /\ UNCHANGED <<up, conns, older, pending, outcome, ran>>
  BY DEF DialFails, Fault, server, callers
<1>2. wire \in [Sockets -> Socket] /\ wire[s] \in Socket
  BY DEF IInv, Shape
<1>3. wire[s].looped \in BOOLEAN /\ wire[s].server = "none"
  BY <1>1, <1>2 DEF Socket, Wire
<1>4. sdk' \in Client /\ sdk'.running = sdk.running /\ sdk'.offers = sdk.offers
  BY <1>1, <1>3, AfterCloseClient
<1>5. FreeSocket \in Socket /\ Quiet(FreeSocket, wire[s])
  BY <1>2, FreeQuiet
<1>6. FreeSocket.server = wire[s].server
  BY <1>3 DEF FreeSocket
<1>7. Wires(wire') /\ SameEnds(wire')
  BY <1>1, <1>2, <1>5, <1>6, Replaced
<1>8. QED
  BY <1>1, <1>4, <1>7, ClientStep

LEMMA SdkEndStep == ASSUME IInv, NEW s \in Sockets, SdkEnd(s) PROVE IInv' /\ NoneOpened
<1>1. /\ faults' = faults /\ wire[s].sdk = "open" /\ AfterClose(FALSE)
      /\ UNCHANGED <<up, conns, older, pending, outcome, ran>>
  BY DEF SdkEnd, NoFault, server, callers
<1>2. wire \in [Sockets -> Socket] /\ wire[s] \in Socket
  BY DEF IInv, Shape
<1>3. sdk' \in Client /\ sdk'.running = sdk.running /\ sdk'.offers = sdk.offers
  BY <1>1, AfterCloseClient
<1>4. CASE wire' = [wire EXCEPT ![s].sdk = "closed", ![s].toSdk = <<>>,
                                ![s].toServer = Append(@, Msg("close"))]
  <2> DEFINE q == Append(wire[s].toServer, Msg("close"))
             u == [wire[s] EXCEPT !.sdk = "closed", !.toSdk = <<>>, !.toServer = q]
  <2>1. wire' = [wire EXCEPT ![s] = u]
    BY <1>2, <1>4
  <2>2. Truthful(Msg("close")) /\ Msg("close") \in Message
    BY Kinds
  <2>3. q \in Seq(Message) /\ ToSet(q) = ToSet(wire[s].toServer) \cup {Msg("close")}
    BY <1>2, <2>2, Adding DEF Socket, Wire
  <2> HIDE DEF q
  <2>4. /\ u \in Socket /\ u.server = wire[s].server /\ u.sdk = "closed" /\ u.toSdk = <<>>
        /\ u.toServer = q
    BY <1>2, <2>3, Empty DEF Socket, Wire
  <2> HIDE DEF u
  <2>5. Quiet(u, wire[s])
    BY <2>2, <2>3, <2>4, Empty DEF Quiet
  <2>6. Wires(wire') /\ SameEnds(wire')
    BY <1>2, <2>1, <2>4, <2>5, Replaced
  <2>7. QED
    BY <1>1, <1>3, <2>6, ClientStep
<1>5. CASE wire' = [wire EXCEPT ![s] = Recycled([@ EXCEPT !.sdk = "closed"])]
  <2> DEFINE v == [wire[s] EXCEPT !.sdk = "closed"]
             u == Recycled(v)
  <2>1. wire' = [wire EXCEPT ![s] = u]
    BY <1>5
  <2>2. /\ v \in Socket /\ v.server = wire[s].server /\ v.sdk = "closed"
        /\ v.toSdk = wire[s].toSdk /\ v.toServer = wire[s].toServer
    BY <1>2 DEF Socket, Wire
  <2> HIDE DEF v
  <2>3. Quiet(v, wire[s])
    BY <1>2, <2>2, Staying DEF Quiet, Socket, Wire
  <2>4. u \in Socket /\ u.server = wire[s].server
    BY <2>2, RecycledQuiet
  <2>5. Quiet(u, wire[s])
    BY <1>2, <2>3, FreeQuiet DEF Recycled
  <2> HIDE DEF u
  <2>6. Wires(wire') /\ SameEnds(wire')
    BY <1>2, <2>1, <2>4, <2>5, Replaced
  <2>7. QED
    BY <1>1, <1>3, <2>6, ClientStep
<1>6. QED
  BY <1>4, <1>5 DEF SdkEnd

(* A message of the client goes on one socket, or on none.                 *)
Sent(u, v, m) ==
  /\ u \in [Sockets -> Socket]
  /\ \A x \in Sockets :
       /\ u[x].sdk = v[x].sdk /\ u[x].server = v[x].server /\ u[x].toSdk = v[x].toSdk
       /\ ToSet(u[x].toServer) \subseteq ToSet(v[x].toServer) \cup {m}

LEMMA SendingOn ==
  ASSUME NEW v \in [Sockets -> Socket], NEW s \in Sockets, NEW m \in Message
  PROVE  Sent([v EXCEPT ![s] = ToServer(@, m)], v, m)
<1> DEFINE w == ToServer(v[s], m)
           u == [v EXCEPT ![s] = w]
<1>1. /\ w \in Socket /\ w.sdk = v[s].sdk /\ w.server = v[s].server /\ w.toSdk = v[s].toSdk
      /\ ToSet(w.toServer) \subseteq ToSet(v[s].toServer) \cup {m}
  BY ToServerQuiet
<1> HIDE DEF w
<1>2. u \in [Sockets -> Socket] /\ u[s] = w /\ \A x \in Sockets \ {s} : u[x] = v[x]
  BY <1>1
<1>3. Sent(u, v, m)
  BY <1>1, <1>2 DEF Sent
<1>4. QED
  BY <1>3 DEF w

LEMMA SendingCurrent ==
  ASSUME IInv, NEW v \in [Sockets -> Socket], NEW m \in Message
  PROVE  Sent(SendCurrent(v, m), v, m)
<1>1. CASE sdk.ws = None
  BY <1>1 DEF SendCurrent, Sent
<1>2. CASE sdk.ws /= None
  <2>1. sdk.ws \in Sockets
    BY <1>2 DEF IInv, Shape, Client
  <2>2. QED
    BY <1>2, <2>1, SendingOn DEF SendCurrent
<1>3. QED
  BY <1>1, <1>2

LEMMA Sending ==
  ASSUME IInv, NEW v \in [Sockets -> Socket], NEW s \in Sockets, NEW m \in Message
  PROVE  Sent(SendFrom(v, s, m), v, m)
<1>1. CASE Python
  BY <1>1, SendingOn DEF SendFrom, AnswerOn
<1>2. CASE ~ Python
  BY <1>2, SendingCurrent DEF SendFrom
<1>3. QED
  BY <1>1, <1>2

LEMMA SentQuiet ==
  ASSUME NEW v, Wires(v), SameEnds(v), NEW m, Truthful(m), NEW u, Sent(u, v, m)
  PROVE  Wires(u) /\ SameEnds(u)
BY DEF Wires, SameEnds, Sent, Quiet

LEMMA StillWires == ASSUME IInv PROVE Wires(wire) /\ SameEnds(wire)
BY SameSocket DEF IInv, Shape, Wires, SameEnds

LEMMA PingStep == ASSUME IInv, NEW s \in Sockets, Ping(s) PROVE IInv' /\ NoneOpened
<1>1. /\ wire[s].toSdk /= <<>> /\ wire' = SendFrom(Read(s), s, Msg("pong")) /\ faults' = faults
      /\ UNCHANGED <<up, conns, older, pending, outcome, ran, sdk>>
  BY DEF Ping, Reads, NoFault, server, callers
<1>2. Wires(Read(s)) /\ SameEnds(Read(s))
  BY <1>1, ReadWires
<1>3. Msg("pong") \in Message /\ Truthful(Msg("pong"))
  BY Kinds
<1>4. Sent(wire', Read(s), Msg("pong"))
  BY <1>1, <1>2, <1>3, Sending DEF Wires
<1>5. Wires(wire') /\ SameEnds(wire')
  BY <1>2, <1>3, <1>4, SentQuiet
<1>6. sdk' \in Client
  BY <1>1 DEF IInv, Shape
<1>7. QED
  BY <1>1, <1>5, <1>6, ClientStep

LEMMA HandleStep == ASSUME IInv, NEW s \in Sockets, Handle(s) PROVE IInv' /\ NoneOpened
<1> DEFINE m == Head(wire[s].toSdk)
           c == m.call
<1>1. /\ wire[s].sdk = "open" /\ wire[s].toSdk /= <<>> /\ m.type = "call" /\ faults' = faults
      /\ UNCHANGED <<up, conns, older, pending, outcome>>
  BY DEF Handle, Reads, NoFault, server, callers
<1>2. /\ Wires(Read(s)) /\ SameEnds(Read(s)) /\ m = wire[s].toSdk[1]
      /\ 1 \in DOMAIN wire[s].toSdk /\ m \in ToSet(wire[s].toSdk)
      /\ Read(s)[s].toSdk = Tail(wire[s].toSdk)
      /\ \A x \in Sockets \ {s} : Read(s)[x] = wire[x]
      /\ \A x \in Sockets :
           Read(s)[x].sdk = wire[x].sdk /\ Read(s)[x].toServer = wire[x].toServer
  BY <1>1, ReadWires
<1>3. c \in Calls /\ m.offers \subseteq sdk.offers
  BY <1>1, <1>2 DEF IInv, Messages, Offered
<1>4. /\ sdk' = [sdk EXCEPT !.running = @ \cup {<<c, s>>}]
      /\ ran' = [ran EXCEPT ![c] = @ + 1] /\ wire' = Read(s)
  BY <1>3 DEF Handle
<1>5. Asks(s, 1, c)
  BY <1>1, <1>2 DEF Asks
<1> HIDE DEF m, c
<1>6. ran[c] = 0 /\ outcome[c] \notin {"idle", "none", "ok", "failed"}
  BY <1>2, <1>3, <1>5 DEF IInv, Messages, Requested
<1>7. /\ ran' \in [Calls -> Nat] /\ ran'[c] = 1
      /\ \A d \in Calls \ {c} : ran'[d] = ran[d]
  BY <1>3, <1>4, <1>6 DEF IInv, Shape
<1>8. sdk' \in Client /\ sdk'.offers = sdk.offers /\ sdk'.running = sdk.running \cup {<<c, s>>}
  BY <1>3, <1>4 DEF IInv, Shape, Client
<1>9. Shape'
  BY <1>1, <1>2, <1>4, <1>7, <1>8 DEF IInv, Shape, Wires
<1>10. Table' /\ Order'
  BY <1>1, SameTable DEF IInv
<1>11. Listed'
  BY <1>1, <1>2, <1>4 DEF IInv, Table, Listed, EntriesEnd, SameEnds
<1>12. WaitersKnown'
  BY <1>1 DEF IInv, WaitersKnown
<1>13. ASSUME NEW x \in Sockets, NEW d \in Calls, NEW i \in DOMAIN wire'[x].toSdk, Asks(x, i, d)'
       PROVE  /\ d /= c
              /\ \E k \in {0, 1} : i + k \in DOMAIN wire[x].toSdk /\ Asks(x, i + k, d)
  <2>1. i \in 1..Len(wire'[x].toSdk)
    BY LenProperties, <1>9 DEF Shape, Socket, Wire
  <2>2. CASE x = s
    <3>1. wire[s].toSdk \in Seq(Message)
      BY DEF IInv, Shape, Socket, Wire
    <3>2. i + 1 \in DOMAIN wire[s].toSdk /\ wire'[s].toSdk[i] = wire[s].toSdk[i + 1]
      <4>1. wire'[s].toSdk = Tail(wire[s].toSdk) /\ i \in DOMAIN Tail(wire[s].toSdk)
        BY <1>2, <1>4, <2>2
      <4>2. \A n \in DOMAIN Tail(wire[s].toSdk) :
              n + 1 \in DOMAIN wire[s].toSdk /\ Tail(wire[s].toSdk)[n] = wire[s].toSdk[n + 1]
        BY <1>1, <3>1, Taking
      <4>3. QED
        BY <4>1, <4>2
    <3>3. Asks(s, i + 1, d)
      BY <1>13, <2>2, <3>2 DEF Asks
    <3>4. d /= c
      <4>1. SUFFICES ASSUME d = c PROVE FALSE
        OBVIOUS
      <4>2. i + 1 = 1
        BY <1>2, <1>5, <3>2, <3>3, <4>1 DEF IInv, Messages, OneRequest
      <4>3. QED
        BY <2>1, <4>2
    <3>5. QED
      BY <2>2, <3>2, <3>3, <3>4
  <2>3. CASE x /= s
    <3>1. Asks(x, i, d) /\ i \in DOMAIN wire[x].toSdk
      BY <1>2, <1>4, <1>13, <2>3 DEF Asks
    <3>2. d /= c
      BY <1>2, <1>5, <2>3, <3>1 DEF IInv, Messages, OneRequest
    <3>3. i + 0 = i
      BY <2>1
    <3>4. QED
      BY <3>1, <3>2, <3>3
  <2>4. QED
    BY <2>2, <2>3
<1>14. OneRequest'
  BY <1>2, <1>4, <1>9, OneKept DEF IInv, Messages, Wires, Quiet
<1>15. Requested'
  <2> SUFFICES ASSUME NEW x \in Sockets, NEW d \in Calls, NEW i \in DOMAIN wire'[x].toSdk,
                      Asks(x, i, d)'
               PROVE  ran'[d] = 0 /\ outcome'[d] \notin {"idle", "none", "ok", "failed"}
    BY DEF Requested
  <2>1. d /= c /\ ran[d] = 0 /\ outcome[d] \notin {"idle", "none", "ok", "failed"}
    BY <1>13 DEF IInv, Messages, Requested
  <2>2. QED
    BY <1>1, <1>7, <2>1
<1>16. Started'
  <2>1. ASSUME NEW r \in sdk'.running PROVE ran'[r[1]] = 1
    <3>1. r[1] \in Calls /\ (r[1] = c \/ ran[r[1]] = 1)
      BY <1>3, <1>8 DEF IInv, Shape, Client, Messages, Started
    <3>2. QED
      BY <1>7, <3>1
  <2>2. ASSUME NEW x \in Sockets, NEW n \in ToSet(wire'[x].toServer), n.type \in {"ok", "failed"}
        PROVE  n.call \in Calls /\ ran'[n.call] = 1
    <3>1. n.call \in Calls /\ ran[n.call] = 1
      BY <1>2, <1>4, <2>2 DEF IInv, Messages, Started
    <3>2. QED
      BY <1>6, <1>7, <3>1
  <2>3. QED
    BY <2>1, <2>2 DEF Started
<1>17. Offered'
  <2> SUFFICES ASSUME NEW x \in Sockets, wire'[x].sdk = "open"
               PROVE
        /\ x \in DOMAIN conns => conns[x].offers \subseteq sdk.offers
        /\ \A k \in ToSet(wire'[x].toServer) :
             k.type = "register" => k.offers \subseteq sdk.offers
        /\ \A k \in ToSet(wire'[x].toSdk) :
             k.type = "call" => k.call \in Calls /\ k.offers \subseteq sdk.offers
    BY <1>1, <1>8 DEF Offered
  <2>1. /\ wire[x].sdk = "open" /\ wire'[x].toServer = wire[x].toServer
        /\ ToSet(wire'[x].toSdk) \subseteq ToSet(wire[x].toSdk)
    <3>1. CASE x = s
      <4>1. wire[s].toSdk \in Seq(Message)
        BY DEF IInv, Shape, Socket, Wire
      <4>2. QED
        BY <1>1, <1>2, <1>4, <3>1, <4>1, Taking
    <3>2. CASE x /= s
      BY <1>2, <1>4, <3>2
    <3>3. QED
      BY <3>1, <3>2
  <2>2. QED
    BY <2>1 DEF IInv, Messages, Offered
<1>18. AnsweredForCause'
  BY <1>1, <1>6, <1>7 DEF IInv, Shape, Messages, AnsweredForCause
<1>19. Messages'
  BY <1>14, <1>15, <1>16, <1>17, <1>18 DEF Messages
<1>20. NoneOpened
  BY <1>2, <1>4 DEF SameEnds, NoneOpened
<1>21. QED
  BY <1>9, <1>10, <1>11, <1>12, <1>19, <1>20 DEF IInv

LEMMA HandlerEndsStep ==
  ASSUME IInv, NEW r \in sdk.running, NEW type \in {"ok", "failed", "huge"}, HandlerEnds(r, type)
  PROVE  IInv' /\ NoneOpened
<1> DEFINE m == Answer(type, r[1])
<1>1. /\ sdk' = [sdk EXCEPT !.running = @ \ {r}] /\ wire' = SendFrom(wire, r[2], m)
      /\ faults' = faults \/ (faults < MaxFaults /\ faults' = faults + 1)
      /\ UNCHANGED <<up, conns, older, pending, outcome, ran>>
  BY DEF HandlerEnds, Fault, NoFault, server, callers
<1>2. r[1] \in Calls /\ r[2] \in Sockets
  BY DEF IInv, Shape, Client
<1>3. ran[r[1]] = 1
  BY DEF IInv, Messages, Started
<1>4. m \in Message /\ m.type = type /\ m.call = r[1]
  BY <1>2, Kinds
<1>5. Truthful(m)
  BY <1>2, <1>3, <1>4 DEF Truthful
<1> HIDE DEF m
<1>6. wire \in [Sockets -> Socket]
  BY DEF IInv, Shape
<1>7. Wires(wire') /\ SameEnds(wire')
  BY <1>1, <1>2, <1>4, <1>5, <1>6, Sending, SentQuiet, StillWires
<1>8. sdk' \in Client /\ sdk'.running \subseteq sdk.running /\ sdk'.offers = sdk.offers
  BY <1>1 DEF IInv, Shape, Client
<1>9. QED
  BY <1>1, <1>7, <1>8, ClientStep

LEMMA DisconnectStep == ASSUME IInv, Disconnect PROVE IInv' /\ NoneOpened
<1>1. /\ sdk' = [sdk EXCEPT !.wanted = FALSE, !.ws = None]
      /\ wire' = SendCurrent(wire, Msg("close")) /\ faults < MaxFaults /\ faults' = faults + 1
      /\ UNCHANGED <<up, conns, older, pending, outcome, ran>>
  BY DEF Disconnect, Fault, server, callers
<1>2. Msg("close") \in Message /\ Truthful(Msg("close"))
  BY Kinds
<1>3. wire \in [Sockets -> Socket]
  BY DEF IInv, Shape
<1>4. Sent(wire', wire, Msg("close"))
  BY <1>1, <1>2, <1>3, SendingCurrent
<1>5. Wires(wire') /\ SameEnds(wire')
  BY <1>2, <1>4, SentQuiet, StillWires
<1>6. sdk' \in Client /\ sdk'.running = sdk.running /\ sdk'.offers = sdk.offers
  BY <1>1 DEF IInv, Shape, Client
<1>7. QED
  BY <1>1, <1>5, <1>6, ClientStep

LEMMA SdkRestartStep == ASSUME IInv, SdkRestart PROVE IInv' /\ NoneOpened
<1>1. /\ sdk' = Idle(sdk.lang) /\ faults < MaxFaults /\ faults' = faults + 1
      /\ wire' = [s \in Sockets |-> Recycled([Cut(wire[s]) EXCEPT !.sdk = "closed"])]
      /\ UNCHANGED <<up, conns, older, pending, outcome, ran>>
  BY DEF SdkRestart, Fault, server, callers
<1>2. \A s \in Sockets : wire[s] \in Socket
  BY DEF IInv, Shape
<1>3. \A s \in Sockets : /\ wire'[s] \in Socket /\ Quiet(wire'[s], wire[s])
                         /\ wire'[s].server = wire[s].server /\ wire'[s].sdk /= "open"
  BY <1>1, <1>2, SdkGone
<1>4. wire' = [s \in Sockets |-> wire'[s]]
  BY <1>1
<1>5. Wires(wire') /\ SameEnds(wire')
  BY <1>3, <1>4 DEF Wires, SameEnds
<1>6. sdk' \in Client /\ sdk'.running = {}
  BY <1>1 DEF IInv, Shape, Client, Idle
<1>7. QED
  BY <1>1, <1>3, <1>5, <1>6, ClientStep

LEMMA LinkLostStep == ASSUME IInv, NEW s \in Sockets, LinkLost(s) PROVE IInv' /\ NoneOpened
<1>1. /\ wire' = [wire EXCEPT ![s] = Cut(wire[s])] /\ faults < MaxFaults /\ faults' = faults + 1
      /\ UNCHANGED <<up, conns, older, pending, outcome, ran, sdk>>
  BY DEF LinkLost, Fault, server, callers
<1>2. wire \in [Sockets -> Socket] /\ wire[s] \in Socket /\ sdk \in Client
  BY DEF IInv, Shape
<1>3. /\ Cut(wire[s]) \in Socket /\ Quiet(Cut(wire[s]), wire[s])
      /\ Cut(wire[s]).server = wire[s].server
  BY <1>2, CutQuiet
<1>4. Wires(wire') /\ SameEnds(wire')
  BY <1>1, <1>2, <1>3, Replaced
<1>5. QED
  BY <1>1, <1>2, <1>4, ClientStep

LEMMA OpensStep == ASSUME IInv, NEW s \in Sockets, Opens(s) PROVE IInv'
<1> DEFINE u == [FreeSocket EXCEPT !.sdk = "open", !.server = "open", !.link = TRUE,
                                   !.toServer = <<Registration>>]
           e == Entry(FALSE, {})
           out == Evicted
<1>1. /\ wire[s].sdk = "dialing" /\ sdk' = [sdk EXCEPT !.ws = s]
      /\ conns' = WithEntry(s, e, Rest(out)) /\ older' = HeardLast(s, out)
      /\ wire' = [x \in Sockets |-> IF x = s THEN u
                                    ELSE IF x \in out THEN ClosedByServer(wire[x]) ELSE wire[x]]
      /\ UNCHANGED <<up, ran, faults, pending, outcome>>
  BY DEF Opens, callers
<1>2. out \subseteq DOMAIN conns
  BY DEF Evicted, Oldest
<1>3. /\ sdk' \in Client /\ sdk'.offers = sdk.offers /\ sdk'.running = sdk.running
  BY <1>1 DEF IInv, Shape, Client
<1>4. Registration \in Message /\ Registration.type = "register" /\ Registration.offers = sdk.offers
  BY DEF Registration, Msg, Message, IInv, Shape, Client
<1> DEFINE q == <<Registration>>
<1>5. q \in Seq(Message) /\ ToSet(q) = {Registration}
  BY <1>4 DEF ToSet
<1> HIDE DEF q
<1>6. /\ u \in Socket /\ u.sdk = "open" /\ u.server = "open" /\ u.toSdk = <<>>
      /\ ToSet(u.toServer) = {Registration}
  <2>1. /\ FreeSocket \in Wire /\ FreeSocket.toSdk = <<>>
    BY FreeQuiet DEF Socket, FreeSocket
  <2>2. u = [FreeSocket EXCEPT !.sdk = "open", !.server = "open", !.link = TRUE, !.toServer = q]
    BY DEF q
  <2> HIDE DEF u
  <2>3. u \in Wire /\ u.sdk = "open" /\ u.server = "open" /\ u.toSdk = <<>> /\ u.toServer = q
    BY <1>5, <2>1, <2>2 DEF Wire
  <2>4. QED
    BY <1>5, <2>3 DEF Socket
<1>7. e \in Connection /\ e.offers = {}
  BY DEF Entry, Connection
<1>8. \A x \in Sockets : wire[x] \in Socket
  BY DEF IInv, Shape
<1> HIDE DEF u, e, out
<1>9. /\ Table' /\ Order' /\ DOMAIN conns' = (DOMAIN conns \ out) \cup {s}
      /\ \A x \in DOMAIN conns' : conns'[x] = IF x = s THEN e ELSE conns[x]
  BY <1>1, <1>7, TableGrows DEF IInv
<1>10. \A x \in out : x \in Sockets /\ wire[x].server /= "none"
  BY <1>2 DEF IInv, Table, Listed, EntriesEnd
<1>11. s \notin DOMAIN conns
  BY <1>1, <1>8 DEF IInv, Listed, EntriesEnd, Socket
<1>12. wire'[s] = u
  BY <1>1
<1>13. ASSUME NEW x \in Sockets \ {s}
       PROVE  /\ wire'[x] \in Socket /\ Quiet(wire'[x], wire[x])
              /\ wire'[x].server = IF x \in out THEN "closing" ELSE wire[x].server
  <2>1. CASE x \in out
    BY <1>1, <1>8, <1>10, <2>1, ClosedQuiet
  <2>2. CASE x \notin out
    BY <1>1, <1>8, <2>2, SameSocket
  <2>3. QED
    BY <2>1, <2>2
<1>14. \A x \in Sockets : wire'[x] \in Socket
  BY <1>6, <1>12, <1>13
<1>15. wire' \in [Sockets -> Socket]
  <2>1. wire' = [x \in Sockets |-> wire'[x]]
    BY <1>1
  <2>2. QED
    BY <1>14, <2>1
<1>16. Shape' /\ Told
  BY <1>1, <1>3, <1>15 DEF IInv, Shape, Told
<1>17. Listed'
  <2>1. \A x \in DOMAIN conns' : x = s \/ (x \in Sockets \ {s} /\ x \in DOMAIN conns \ out)
    BY <1>9 DEF IInv, Table
  <2>2. \A x \in DOMAIN conns : wire[x].server /= "none"
    BY DEF IInv, Listed, EntriesEnd
  <2>3. \A x \in DOMAIN conns' : wire'[x].server /= "none"
    BY <1>6, <1>12, <1>13, <2>1, <2>2
  <2>4. ASSUME NEW x \in Sockets, wire'[x].server = "open" PROVE x \in DOMAIN conns'
    <3>1. CASE x = s
      BY <1>9, <3>1
    <3>2. CASE x /= s
      <4>1. x \notin out /\ wire[x].server = "open"
        BY <1>13, <2>4, <3>2
      <4>2. x \in DOMAIN conns
        BY <4>1 DEF IInv, Listed
      <4>3. QED
        BY <1>9, <4>1, <4>2
    <3>3. QED
      BY <3>1, <3>2
  <2>5. QED
    BY <2>3, <2>4 DEF Listed, EntriesEnd
<1>18. WaitersKnown'
  BY <1>1 DEF IInv, WaitersKnown
<1>19. \A x \in Sockets : Follows(wire'[x].toSdk, wire[x].toSdk)
  BY <1>6, <1>12, <1>13, Empty DEF Quiet
<1>20. OneRequest' /\ Requested' /\ AnsweredForCause'
  BY <1>1, <1>16, <1>19, RequestedKept
<1>21. Started'
  <2>1. \A r \in sdk'.running : ran'[r[1]] = 1
    BY <1>1, <1>3 DEF IInv, Messages, Started
  <2>2. ASSUME NEW x \in Sockets, NEW m \in ToSet(wire'[x].toServer), m.type \in {"ok", "failed"}
        PROVE  m.call \in Calls /\ ran'[m.call] = 1
    <3>1. x /= s
      BY <1>4, <1>6, <1>12, <2>2
    <3>2. m \in ToSet(wire[x].toServer) \/ Truthful(m)
      BY <1>13, <3>1 DEF Quiet
    <3>3. QED
      BY <1>1, <2>2, <3>2 DEF IInv, Messages, Started, Truthful
  <2>3. QED
    BY <2>1, <2>2 DEF Started
<1>22. ASSUME NEW x \in Sockets, wire'[x].sdk = "open"
       PROVE
        /\ x \in DOMAIN conns' => conns'[x].offers \subseteq sdk.offers
        /\ \A k \in ToSet(wire'[x].toServer) :
             k.type = "register" => k.offers \subseteq sdk.offers
        /\ \A k \in ToSet(wire'[x].toSdk) :
             k.type = "call" => k.call \in Calls /\ k.offers \subseteq sdk.offers
  <2>1. CASE x = s
    BY <1>4, <1>6, <1>7, <1>9, <1>12, <2>1, Empty
  <2>2. CASE x /= s
    <3>1. Quiet(wire'[x], wire[x]) /\ wire[x].sdk = "open"
      BY <1>13, <1>22, <2>2 DEF Quiet
    <3>2. /\ x \in DOMAIN conns => conns[x].offers \subseteq sdk.offers
          /\ \A k \in ToSet(wire[x].toServer) :
               k.type = "register" => k.offers \subseteq sdk.offers
          /\ \A k \in ToSet(wire[x].toSdk) :
               k.type = "call" => k.call \in Calls /\ k.offers \subseteq sdk.offers
      BY <3>1 DEF IInv, Messages, Offered
    <3>3. x \in DOMAIN conns' => conns'[x].offers \subseteq sdk.offers
      BY <1>9, <2>2, <3>2
    <3>4. \A k \in ToSet(wire'[x].toServer) : k.type = "register" => k.offers \subseteq sdk.offers
      BY <3>1, <3>2 DEF Quiet, Truthful
    <3>5. \A k \in ToSet(wire'[x].toSdk) : k.type = "call" => k \in ToSet(wire[x].toSdk)
      BY <3>1 DEF Quiet, Follows, ToSet
    <3>6. QED
      BY <3>2, <3>3, <3>4, <3>5
  <2>3. QED
    BY <2>1, <2>2
<1>23. Offered'
  BY <1>3, <1>22 DEF Offered
<1>24. QED
  BY <1>9, <1>16, <1>17, <1>18, <1>20, <1>21, <1>23 DEF IInv, Messages
-----------------------------------------------------------------------------
LEMMA Initially == Init => IInv
<1> SUFFICES ASSUME Init PROVE IInv
  OBVIOUS
<1>1. /\ up = TRUE /\ DOMAIN conns = {} /\ older = {} /\ pending = {} /\ faults = 0
      /\ outcome = [c \in Calls |-> "idle"] /\ ran = [c \in Calls |-> 0]
      /\ wire = [s \in Sockets |-> FreeSocket]
  BY DEF Init
<1>2. sdk \in Client /\ sdk.running = {}
  <2>1. PICK lang \in Languages : sdk = Idle(lang)
    BY DEF Init
  <2>2. QED
    BY <2>1 DEF Idle, Client
<1>3. \A s \in Sockets : /\ wire[s] \in Socket /\ wire[s].server = "none" /\ wire[s].sdk = "free"
                         /\ wire[s].toSdk = <<>> /\ wire[s].toServer = <<>>
  BY <1>1, FreeQuiet DEF FreeSocket
<1>4. Shape
  BY <1>1, <1>2, <1>3, FreeQuiet, SdkConstants DEF Shape, Outcomes
<1>5. Table /\ Order
  BY <1>1, FS_EmptySet DEF Table, Order
<1>6. Listed
  BY <1>1, <1>3 DEF Listed, EntriesEnd
<1>7. WaitersKnown /\ AnsweredForCause
  BY <1>1 DEF WaitersKnown, AnsweredForCause
<1>8. \A s \in Sockets : DOMAIN wire[s].toSdk = {} /\ ToSet(wire[s].toServer) = {}
  BY <1>3, Empty
<1>9. OneRequest /\ Requested /\ Started /\ Offered
  BY <1>2, <1>3, <1>8 DEF OneRequest, Requested, Started, Offered
<1>10. QED
  BY <1>4, <1>5, <1>6, <1>7, <1>9 DEF IInv, Messages

LEMMA StutterStep == ASSUME IInv, UNCHANGED vars PROVE IInv' /\ NoneOpened
<1>1. UNCHANGED <<up, conns, older, pending, outcome, ran, wire, sdk, faults>>
  BY DEF vars
<1>2. sdk' \in Client /\ Wires(wire') /\ SameEnds(wire')
  BY <1>1, StillWires DEF IInv, Shape, Wires, SameEnds
<1>3. QED
  BY <1>1, <1>2, ClientStep

(* A step keeps the invariant, and only Opens opens a socket.              *)
GoodStep == IInv' /\ (NoneOpened \/ \E s \in Sockets : Opens(s))

LEMMA NextStep == ASSUME IInv, [Next]_vars PROVE GoodStep
<1>1. ASSUME NEW c \in Calls, Timeout(c) \/ \E f \in Functions : Call(c, f) PROVE GoodStep
  BY <1>1, TimeoutStep, CallStep DEF GoodStep
<1>2. ASSUME NEW s \in Sockets, Register(s) \/ Refuse(s) \/ Pong(s) \/ Result(s) \/ TooLarge(s)
      PROVE GoodStep
  BY <1>2, RegisterStep, RefuseStep, PongStep, ResultStep, TooLargeStep DEF GoodStep
<1>3. ASSUME NEW s \in Sockets, Gone(s) \/ ServerNotices(s) \/ Opens(s) PROVE GoodStep
  BY <1>3, ServerEndStep, OpensStep DEF GoodStep
<1>4. ASSUME NEW s \in Sockets, DialFails(s) \/ SdkEnd(s) \/ Ping(s) \/ Handle(s) \/ LinkLost(s)
      PROVE GoodStep
  BY <1>4, DialFailsStep, SdkEndStep, PingStep, HandleStep, LinkLostStep DEF GoodStep
<1>5. ASSUME NEW r \in sdk.running, NEW type \in {"ok", "failed", "huge"}, HandlerEnds(r, type)
      PROVE GoodStep
  BY <1>5, HandlerEndsStep DEF GoodStep
<1>6. ASSUME NEW f \in Functions, Expose(f) PROVE GoodStep
  BY <1>6, ExposeStep DEF GoodStep
<1>7. CASE Sweep \/ Restart \/ Shutdown \/ Boot
  BY <1>7, SweepStep, DownStep, BootStep DEF GoodStep
<1>8. CASE Listen \/ Dial \/ Disconnect \/ SdkRestart
  BY <1>8, ListenStep, DialStep, DisconnectStep, SdkRestartStep DEF GoodStep
<1>9. CASE UNCHANGED vars
  BY <1>9, StutterStep DEF GoodStep
<1>10. QED
  BY <1>1, <1>2, <1>3, <1>4, <1>5, <1>6, <1>7, <1>8, <1>9 DEF Next

LEMMA IInvStep == IInv /\ [Next]_vars => IInv'
BY NextStep DEF GoodStep

LEMMA Invariant == Spec => []IInv
BY Initially, IInvStep, PTL DEF Spec

(* Every variable of the bridge, the sockets and the client has its type.  *)
THEOREM TypeCorrect == Spec => []SdkTypeOK
<1>1. IInv => SdkTypeOK
  <2> SUFFICES ASSUME IInv PROVE SdkTypeOK
    OBVIOUS
  <2>1. /\ up \in BOOLEAN /\ pending \subseteq Calls /\ faults \in 0..MaxFaults
        /\ outcome \in [Calls -> Outcomes] /\ ran \in [Calls -> Nat]
    BY DEF IInv, Shape, WaitersKnown
  <2>2. sdk \in Client /\ wire \in [Sockets -> Wire]
    BY DEF IInv, Shape, Socket
  <2>3. /\ DOMAIN conns \subseteq Sockets /\ \A s \in DOMAIN conns : conns[s] \in Connection
    BY DEF IInv, Table
  <2>4. QED
    BY <2>1, <2>2, <2>3 DEF SdkTypeOK, IInv, Order, Client, Wire, Connection
<1>2. QED
  BY <1>1, Invariant, PTL

(* handleResult, the timers and the handlers of the back end: whatever     *)
(* happens to sockets, an answer means that the handler was started once,  *)
(* and no call is started twice.                                           *)
THEOREM AnswersTrue == Spec => []AnsweredForCause
<1>1. IInv => AnsweredForCause
  BY DEF IInv, Messages
<1>2. QED
  BY <1>1, Invariant, PTL

(* pendingInvokes holds exactly the calls whose callers wait.              *)
THEOREM Answerable == Spec => []WaitersKnown
<1>1. IInv => WaitersKnown
  BY DEF IInv
<1>2. QED
  BY <1>1, Invariant, PTL

(* No entry of the connection table outlives its socket's close event.     *)
THEOREM NoGhosts == Spec => []EntriesEnd
<1>1. IInv => EntriesEnd
  BY DEF IInv, Listed
<1>2. QED
  BY <1>1, Invariant, PTL
-----------------------------------------------------------------------------
(* The limit on connections.                                               *)
LEMMA OldestExists ==
  ASSUME IInv, DOMAIN conns /= {}
  PROVE  \E s \in DOMAIN conns : \A x \in DOMAIN conns : <<x, s>> \notin older
<1> DEFINE D == DOMAIN conns
           Before(s) == {x \in D : <<x, s>> \in older}
           Sets == {Before(s) : s \in D}
<1>1. IsFiniteSet(D)
  BY DEF IInv, Table
<1>2. Sets \subseteq FiniteSubsetsOf(D) /\ Sets /= {}
  <2>1. \A s \in D : Before(s) \subseteq D /\ IsFiniteSet(Before(s))
    BY <1>1, FS_Subset
  <2>2. QED
    BY <2>1 DEF FiniteSubsetsOf
<1>3. PICK B \in Sets : \A C \in Sets : <<C, B>> \notin StrictSubsetOrdering(D)
  BY <1>2, FS_StrictSubsetOrderingWellFounded, WFMin
<1>4. PICK s \in D : B = Before(s)
  BY <1>3
<1>5. ASSUME NEW x \in D, <<x, s>> \in older PROVE FALSE
  <2>1. Before(x) \subseteq Before(s)
    BY <1>5 DEF IInv, Order
  <2>2. x \in Before(s) /\ x \notin Before(x)
    BY <1>5 DEF IInv, Order
  <2>3. <<Before(x), Before(s)>> \in StrictSubsetOrdering(D)
    BY <2>1, <2>2 DEF StrictSubsetOrdering
  <2>4. QED
    BY <1>3, <1>4, <2>3
<1>6. QED
  BY <1>5

LEMMA HeldFinite ==
  ASSUME Table
  PROVE  IsFiniteSet(Held) /\ Cardinality(Held) \in Nat /\ Held \subseteq DOMAIN conns
BY FS_Subset, FS_CardinalityType DEF Table, Held

(* A connection more than before, beyond the limit, is accepted only while *)
(* a closing one is in the table.                                          *)
Overrun ==
  Cardinality(Held') > Cardinality(Held) /\ Cardinality(Held') > MaxConnections
    => \E s \in DOMAIN conns : wire[s].server = "closing"

LEMMA FewerHeld ==
  ASSUME Table, Held' \subseteq Held
  PROVE  Overrun
<1>1. IsFiniteSet(Held) /\ Cardinality(Held) \in Nat
  BY HeldFinite
<1>2. Cardinality(Held') <= Cardinality(Held) /\ Cardinality(Held') \in Nat
  BY <1>1, FS_Subset, FS_CardinalityType
<1>3. QED
  BY <1>1, <1>2 DEF Overrun

LEMMA OpensOverrun ==
  ASSUME IInv, IInv', NEW s \in Sockets, Opens(s)
  PROVE  Overrun
<1> DEFINE out == Evicted
<1>1. /\ conns' = WithEntry(s, Entry(FALSE, {}), Rest(out)) /\ wire[s].sdk = "dialing"
      /\ \A x \in Sockets \ {s} :
           wire'[x] = IF x \in out THEN ClosedByServer(wire[x]) ELSE wire[x]
  BY DEF Opens
<1>2. DOMAIN conns' = (DOMAIN conns \ out) \cup {s}
  BY <1>1 DEF WithEntry, Rest
<1>3. out \subseteq DOMAIN conns /\ DOMAIN conns \subseteq Sockets
  BY DEF Evicted, Oldest, IInv, Table
<1>4. \A x \in DOMAIN conns : wire[x] \in Socket /\ wire[x].server /= "none"
  BY <1>3 DEF IInv, Shape, Listed, EntriesEnd
<1> HIDE DEF out
<1>5. s \notin Held
  BY <1>1, <1>4 DEF Held, Socket
<1>6. \A x \in out : x /= s => wire'[x].server = "closing"
  BY <1>1, <1>3, <1>4, ClosedQuiet
<1>7. Held' \subseteq (Held \ out) \cup {s}
  BY <1>1, <1>2, <1>3, <1>6 DEF Held
<1>8. /\ IsFiniteSet(Held) /\ Cardinality(Held) \in Nat /\ Held \subseteq DOMAIN conns
      /\ IsFiniteSet(DOMAIN conns) /\ Cardinality(DOMAIN conns) \in Nat
  BY HeldFinite, FS_CardinalityType DEF IInv, Table
<1>9. Cardinality(Held') \in Nat
  BY <1>7, <1>8, FS_Subset, FS_AddElement, FS_CardinalityType
<1>10. CASE Cardinality(DOMAIN conns) >= MaxConnections
  <2>1. DOMAIN conns /= {}
    BY <1>10, SdkConstants, FS_EmptySet
  <2>2. PICK x \in out : TRUE
    BY <1>10, <2>1, OldestExists DEF out, Evicted, Oldest
  <2>3. CASE x \in Held
    <3> DEFINE R == Held \ {x}
    <3>1. IsFiniteSet(R) /\ Cardinality(R) = Cardinality(Held) - 1
      BY <1>8, <2>3, FS_RemoveElement
    <3>2. s \notin R
      BY <1>5
    <3>3. IsFiniteSet(R \cup {s}) /\ Cardinality(R \cup {s}) = Cardinality(R) + 1
      BY <3>1, <3>2, FS_AddElement
    <3>4. Held' \subseteq R \cup {s}
      BY <1>7, <2>2
    <3> HIDE DEF R
    <3>5. Cardinality(Held') <= Cardinality(Held)
      BY <1>8, <3>1, <3>3, <3>4, FS_Subset
    <3>6. QED
      BY <1>8, <1>9, <3>5 DEF Overrun
  <2>4. CASE x \notin Held
    <3>1. x \in DOMAIN conns /\ wire[x].server = "closing"
      BY <1>3, <1>4, <2>2, <2>4 DEF Held, Socket, Wire
    <3>2. QED
      BY <3>1 DEF Overrun
  <2>5. QED
    BY <2>3, <2>4
<1>11. CASE ~ (Cardinality(DOMAIN conns) >= MaxConnections)
  <2>1. Cardinality(Held) <= Cardinality(DOMAIN conns)
    BY <1>8, FS_Subset
  <2>2. IsFiniteSet(Held \cup {s}) /\ Cardinality(Held \cup {s}) = Cardinality(Held) + 1
    BY <1>5, <1>8, FS_AddElement
  <2>3. Cardinality(Held') <= Cardinality(Held) + 1
    BY <1>7, <2>2, FS_Subset
  <2>4. Cardinality(Held') <= MaxConnections
    BY <1>8, <1>9, <1>11, <2>1, <2>3, SdkConstants
  <2>5. QED
    BY <1>9, <2>4, SdkConstants DEF Overrun
<1>12. QED
  BY <1>10, <1>11

(* evictOldestConnection: the limit on open connections can be passed only *)
(* while a connection whose socket is closing is in the table, which a     *)
(* late register message put back.                                         *)
THEOREM Capped == Spec => CapPassedLate
<1>1. ASSUME IInv, IInv', [Next]_vars PROVE Overrun
  <2>1. CASE NoneOpened
    <3>1. Held' \subseteq Held
      BY <1>1, <2>1 DEF NoneOpened, Held, IInv, Table, Listed
    <3>2. QED
      BY <1>1, <3>1, FewerHeld DEF IInv
  <2>2. CASE \E s \in Sockets : Opens(s)
    BY <1>1, <2>2, OpensOverrun
  <2>3. QED
    BY <1>1, <2>1, <2>2, NextStep DEF GoodStep
<1>2. IInv /\ IInv' /\ [Next]_vars => [Overrun]_vars
  BY <1>1
<1>3. Spec => [][Overrun]_vars
  BY <1>2, Invariant, PTL DEF Spec
<1>4. [][Overrun]_vars => CapPassedLate
  BY PTL DEF CapPassedLate, Overrun
<1>5. QED
  BY <1>3, <1>4, PTL
=============================================================================

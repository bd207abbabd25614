---------------------------- MODULE TurnsProofs ----------------------------
(***************************************************************************)
(* What turns do to each other, for every number of channels, messages,    *)
(* restarts and failures.  Three arguments, each on top of the one before: *)
(* the turns of a channel run one at a time and in order, which looks at the*)
(* turns and the promise chains alone; so the turns that are past the check*)
(* of the rate limit and have not stored their message are at most one for *)
(* each channel; and, with one channel, the turn at work is the only one   *)
(* that reads and writes the session, so that a question is answered once. *)
(* A fourth, which needs no more than the first one's types, is about the   *)
(* intent stacks that overlapping turns read, change and write back.       *)
(***************************************************************************)
EXTENDS Turns, FunctionTheorems, SequenceTheorems, FiniteSetTheorems, TLAPS

(* A turn has its fields, whatever they hold.                              *)
Fields == {"ch", "word", "prior", "phase", "sid", "stack", "row", "asked", "result", "topic"}
IsTurn(t) == t = [f \in Fields |-> t[f]]

ChainTypeOK ==
  /\ Len(turns) \in Nat /\ DOMAIN turns = 1 .. Len(turns)
  /\ turns = [i \in DOMAIN turns |-> turns[i]]
  /\ \A i \in DOMAIN turns : IsTurn(turns[i]) /\ turns[i].ch \in channels
  /\ chain \in [channels -> 0 .. Len(turns)]

(* What has been started has nothing unfinished before it.                 *)
InOrder ==
  \A i, j \in DOMAIN turns :
    turns[i].ch = turns[j].ch /\ i < j /\ turns[j].phase # "waiting" => turns[i].phase = "ended"

(* A turn that waits has a predecessor of its channel, or none; what is    *)
(* unfinished before it is not after that predecessor.                     *)
Queued ==
  \A j \in DOMAIN turns : turns[j].phase = "waiting" =>
    LET p == turns[j].prior IN
      /\ p \in 0 .. j - 1
      /\ p # 0 => turns[p].ch = turns[j].ch
      /\ \A i \in DOMAIN turns : turns[i].ch = turns[j].ch /\ i < j =>
           turns[i].phase = "ended" \/ i <= p

(* What is unfinished is not after the tail of its chain.                  *)
Tails ==
  /\ \A ch \in channels : chain[ch] # 0 => turns[chain[ch]].ch = ch
  /\ \A i \in DOMAIN turns : turns[i].phase = "ended" \/ i <= chain[turns[i].ch]

IInv == ChainTypeOK /\ InOrder /\ Queued /\ Tails
-----------------------------------------------------------------------------
LEMMA Started ==
  ASSUME Init
  PROVE  IInv
<1>1. Len(turns) = 0 /\ DOMAIN turns = {} /\ chain = [ch \in channels |-> 0]
  BY DEF Init
<1>2. turns = [i \in DOMAIN turns |-> turns[i]]
  BY DEF Init
<1>3. ChainTypeOK
  BY <1>1, <1>2 DEF ChainTypeOK
<1>4. QED
  BY <1>1, <1>3 DEF IInv, InOrder, Queued, Tails

(* One turn is replaced by another of its channel.                         *)
LEMMA Replaced ==
  ASSUME ChainTypeOK, NEW i \in DOMAIN turns, NEW u, IsTurn(u), u.ch = turns[i].ch,
         turns' = [turns EXCEPT ![i] = u], chain' \in [channels -> 0 .. Len(turns)],
         channels' = channels
  PROVE  /\ ChainTypeOK'
         /\ DOMAIN turns' = DOMAIN turns /\ turns'[i] = u
         /\ \A j \in DOMAIN turns : j # i => turns'[j] = turns[j]
<1>1. /\ DOMAIN turns' = DOMAIN turns /\ turns'[i] = u
      /\ \A j \in DOMAIN turns : j # i => turns'[j] = turns[j]
  BY DEF ChainTypeOK
<1>2. Len(turns') = Len(turns)
  OBVIOUS
<1>3. QED
  BY <1>1, <1>2 DEF ChainTypeOK

(* A turn at work goes on.                                                 *)
LEMMA GoesOn ==
  ASSUME IInv, NEW i \in DOMAIN turns, Running(i), NEW u, IsTurn(u), u.ch = turns[i].ch,
         u.phase # "waiting", u.phase # "ended",
         turns' = [turns EXCEPT ![i] = u], chain' = chain, channels' = channels
  PROVE  IInv'
<1>1. chain' \in [channels -> 0 .. Len(turns)]
  BY DEF IInv, ChainTypeOK
<1>2. /\ ChainTypeOK'
      /\ DOMAIN turns' = DOMAIN turns /\ turns'[i] = u
      /\ \A j \in DOMAIN turns : j # i => turns'[j] = turns[j]
  BY <1>1, Replaced DEF IInv
<1>3. \A j \in DOMAIN turns : /\ turns'[j].ch = turns[j].ch
                              /\ turns'[j].phase = "ended" <=> turns[j].phase = "ended"
                              /\ turns'[j].phase = "waiting" <=> turns[j].phase = "waiting"
  BY <1>2 DEF Running
<1>4. InOrder'
  BY <1>2, <1>3 DEF IInv, InOrder
<1>5. Queued'
  <2>1. \A j \in DOMAIN turns : \A p \in 0 .. j - 1 : p # 0 => p \in DOMAIN turns
    BY DEF IInv, ChainTypeOK
  <2>2. \A j \in DOMAIN turns : turns[j].phase = "waiting" => turns'[j] = turns[j]
    BY <1>2 DEF Running
  <2>3. QED
    BY <1>2, <1>3, <2>1, <2>2 DEF IInv, Queued
<1>6. Tails'
  <2>1. \A ch \in channels : chain[ch] # 0 => chain[ch] \in DOMAIN turns
    BY DEF IInv, ChainTypeOK
  <2>2. QED
    BY <1>2, <1>3, <2>1 DEF IInv, Tails
<1>7. QED
  BY <1>2, <1>4, <1>5, <1>6 DEF IInv

(* A turn at work ends, and takes its chain away if it is the last in it:   *)
(* what came before it has ended, and nothing came after it.               *)
LEMMA TurnEnds ==
  ASSUME IInv, NEW i \in DOMAIN turns, Running(i), Ends(i), channels' = channels
  PROVE  IInv'
<1> DEFINE u == Ended(turns[i])
           k == turns[i].ch
<1>1. IsTurn(u) /\ u.ch = k /\ u.phase = "ended"
  BY DEF Ended, Waiting, IsTurn, Fields
<1>2. turns' = [turns EXCEPT ![i] = u]
  BY DEF Ends
<1> HIDE DEF u
<1>3. /\ chain' \in [channels -> 0 .. Len(turns)] /\ k \in channels
      /\ \A ch \in channels : \/ chain'[ch] = chain[ch]
                              \/ ch = k /\ chain'[ch] = 0 /\ chain[ch] = i
  BY DEF IInv, ChainTypeOK, Ends, Settled
<1>4. /\ ChainTypeOK'
      /\ DOMAIN turns' = DOMAIN turns /\ turns'[i] = u
      /\ \A j \in DOMAIN turns : j # i => turns'[j] = turns[j]
  BY <1>1, <1>2, <1>3, Replaced DEF IInv
<1>5. \A j \in DOMAIN turns : /\ turns'[j].ch = turns[j].ch
                              /\ turns[j].phase = "ended" => turns'[j].phase = "ended"
                              /\ turns'[j].phase = "waiting" <=> turns[j].phase = "waiting"
  BY <1>1, <1>4 DEF Running
<1>6. InOrder'
  BY <1>1, <1>4, <1>5 DEF IInv, InOrder
<1>7. Queued'
  <2>1. \A j \in DOMAIN turns : \A p \in 0 .. j - 1 : p # 0 => p \in DOMAIN turns
    BY DEF IInv, ChainTypeOK
  <2>2. \A j \in DOMAIN turns : turns[j].phase = "waiting" => turns'[j] = turns[j]
    BY <1>4 DEF Running
  <2>3. QED
    BY <1>4, <1>5, <2>1, <2>2 DEF IInv, Queued
<1>8. Tails'
  <2>1. \A ch \in channels : chain[ch] # 0 => chain[ch] \in DOMAIN turns
    BY DEF IInv, ChainTypeOK
  <2>2. \A ch \in channels : chain'[ch] # 0 => turns'[chain'[ch]].ch = ch
    BY <1>3, <1>5, <2>1 DEF IInv, Tails
  <2>3. ASSUME NEW j \in DOMAIN turns, turns[j].ch = k, chain[k] = i
        PROVE  turns'[j].phase = "ended"
    <3>1. CASE j = i
      BY <1>1, <1>4, <3>1
    <3>2. CASE j < i
      BY <1>5, <2>3, <3>2 DEF IInv, InOrder, Running
    <3>3. CASE i < j
      <4>1. turns[j].phase = "ended" \/ j <= i
        BY <2>3 DEF IInv, Tails
      <4>2. QED
        BY <1>5, <3>3, <4>1 DEF IInv, ChainTypeOK
    <3>4. QED
      BY <3>1, <3>2, <3>3 DEF IInv, ChainTypeOK
  <2>4. \A j \in DOMAIN turns : turns'[j].phase = "ended" \/ j <= chain'[turns[j].ch]
    BY <1>3, <1>5, <2>3 DEF IInv, Tails, ChainTypeOK
  <2>5. QED
    BY <1>4, <1>5, <2>2, <2>4 DEF IInv, Tails, ChainTypeOK
<1>9. QED
  BY <1>4, <1>6, <1>7, <1>8 DEF IInv

(* A message joins the chain behind its tail.                              *)
LEMMA ArriveStep ==
  ASSUME IInv, NEW ch \in channels, Arrive(ch)
  PROVE  IInv'
<1> DEFINE n == Len(turns) + 1
           u == Waiting(ch, chain[ch])
<1>1. IsTurn(u) /\ u.ch = ch /\ u.phase = "waiting" /\ u.prior = chain[ch]
  BY DEF Waiting, IsTurn, Fields
<1>2. turns' = Append(turns, u) /\ chain' = [chain EXCEPT ![ch] = n] /\ channels' = channels
  BY DEF Arrive, config
<1> HIDE DEF u
<1>3. /\ Len(turns) \in Nat /\ Len(turns') = n /\ DOMAIN turns' = 1 .. n
      /\ turns'[n] = u /\ turns' = [j \in DOMAIN turns' |-> turns'[j]]
      /\ \A j \in DOMAIN turns : turns'[j] = turns[j]
  <2> DEFINE T == {turns[j] : j \in DOMAIN turns} \cup {u}
  <2>1. turns \in Seq(T) /\ u \in T
    BY DEF IInv, ChainTypeOK
  <2> HIDE DEF T
  <2>2. turns' \in Seq(T) /\ Len(turns) \in Nat /\ Len(turns') = n
    BY <1>2, <2>1, AppendProperties
  <2>3. turns'[n] = u /\ \A j \in DOMAIN turns : turns'[j] = turns[j]
    BY <1>2, <2>1, AppendProperties
  <2>4. QED
    BY <2>2, <2>3
<1>4. /\ chain' \in [channels -> 0 .. n] /\ chain'[ch] = n
      /\ \A c \in channels : c # ch => chain'[c] = chain[c]
  BY <1>2, <1>3 DEF IInv, ChainTypeOK
<1>5. DOMAIN turns' = DOMAIN turns \cup {n} /\ n \notin DOMAIN turns
      /\ \A j \in DOMAIN turns : j \in 1 .. Len(turns) /\ j < n
  BY <1>3 DEF IInv, ChainTypeOK
<1>6. ChainTypeOK'
  BY <1>1, <1>2, <1>3, <1>4, <1>5 DEF IInv, ChainTypeOK
<1>7. InOrder'
  BY <1>1, <1>3, <1>5 DEF IInv, InOrder
<1>8. Queued'
  <2>1. ASSUME NEW j \in DOMAIN turns, turns[j].phase = "waiting"
        PROVE  /\ turns[j].prior \in 0 .. j - 1
               /\ turns[j].prior # 0 => turns'[turns[j].prior].ch = turns[j].ch
               /\ \A i \in DOMAIN turns' : turns'[i].ch = turns[j].ch /\ i < j =>
                    turns'[i].phase = "ended" \/ i <= turns[j].prior
    <3>1. turns[j].prior \in 0 .. j - 1
      BY <2>1 DEF IInv, Queued
    <3>2. turns[j].prior # 0 => turns[j].prior \in DOMAIN turns
      BY <1>3, <3>1 DEF IInv, ChainTypeOK
    <3>3. \A i \in DOMAIN turns' : i < j => i \in DOMAIN turns
      BY <1>5
    <3>4. QED
      BY <1>3, <2>1, <3>1, <3>2, <3>3 DEF IInv, Queued
  <2>2. /\ u.prior \in 0 .. n - 1
        /\ u.prior # 0 => turns'[u.prior].ch = ch
        /\ \A i \in DOMAIN turns' : turns'[i].ch = ch /\ i < n =>
             turns'[i].phase = "ended" \/ i <= u.prior
    <3>1. chain[ch] \in 0 .. Len(turns)
      BY DEF IInv, ChainTypeOK
    <3>2. chain[ch] # 0 => chain[ch] \in DOMAIN turns
      BY <3>1 DEF IInv, ChainTypeOK
    <3>3. \A i \in DOMAIN turns' : i < n => i \in DOMAIN turns
      BY <1>3, <1>5
    <3>4. QED
      BY <1>1, <1>3, <3>1, <3>2, <3>3 DEF IInv, Tails
  <2>3. QED
    BY <1>1, <1>3, <1>5, <2>1, <2>2 DEF Queued
<1>9. Tails'
  <2>1. \A c \in channels : c # ch /\ chain[c] # 0 => chain[c] \in DOMAIN turns
    BY DEF IInv, ChainTypeOK
  <2>2. \A c \in channels : chain'[c] # 0 => turns'[chain'[c]].ch = c
    BY <1>1, <1>3, <1>4, <2>1 DEF IInv, Tails
  <2>3. \A i \in DOMAIN turns' : turns'[i].phase = "ended" \/ i <= chain'[turns'[i].ch]
    <3>1. n <= chain'[turns'[n].ch]
      BY <1>1, <1>3, <1>4
    <3>2. \A i \in DOMAIN turns : turns[i].phase = "ended" \/ i <= chain'[turns[i].ch]
      <4>1. \A i \in DOMAIN turns : turns[i].ch = ch => i <= chain'[turns[i].ch]
        BY <1>3, <1>4, <1>5
      <4>2. QED
        BY <1>4, <4>1 DEF IInv, Tails, ChainTypeOK
    <3>3. QED
      BY <1>3, <1>5, <3>1, <3>2
  <2>4. QED
    BY <1>2, <2>2, <2>3 DEF Tails
<1>10. QED
  BY <1>6, <1>7, <1>8, <1>9 DEF IInv

(* A turn starts: everything before its predecessor has ended with it.      *)
LEMMA BeginStep ==
  ASSUME IInv, NEW i \in DOMAIN turns, Begin(i)
  PROVE  IInv'
<1> DEFINE u == [turns[i] EXCEPT !.phase = IF known THEN "admit" ELSE "customer", !.prior = 0]
<1>1. IsTurn(turns[i]) /\ turns[i].phase = "waiting"
  BY DEF IInv, ChainTypeOK, Begin, Is
<1>2. IsTurn(u) /\ u.ch = turns[i].ch /\ u.phase # "waiting" /\ u.phase # "ended"
  BY <1>1 DEF IsTurn, Fields
<1>3. turns' = [turns EXCEPT ![i] = u] /\ chain' = chain /\ channels' = channels
  BY DEF Begin, config
<1> HIDE DEF u
<1>4. chain' \in [channels -> 0 .. Len(turns)]
  BY <1>3 DEF IInv, ChainTypeOK
<1>5. /\ ChainTypeOK'
      /\ DOMAIN turns' = DOMAIN turns /\ turns'[i] = u
      /\ \A j \in DOMAIN turns : j # i => turns'[j] = turns[j]
  BY <1>2, <1>3, <1>4, Replaced DEF IInv
<1>6. \A j \in DOMAIN turns : /\ turns'[j].ch = turns[j].ch
                              /\ turns'[j].phase = "ended" <=> turns[j].phase = "ended"
  BY <1>1, <1>2, <1>5
<1>7. \A j \in DOMAIN turns : turns[j].ch = turns[i].ch /\ j < i => turns[j].phase = "ended"
  <2> DEFINE p == turns[i].prior
  <2>1. p \in 0 .. i - 1 /\ (p # 0 => p \in DOMAIN turns /\ turns[p].ch = turns[i].ch)
    BY <1>1 DEF IInv, Queued, ChainTypeOK
  <2>2. p = 0 \/ turns[p].phase = "ended"
    BY DEF Begin, Is
  <2>3. \A j \in DOMAIN turns : turns[j].ch = turns[i].ch /\ j < i =>
          turns[j].phase = "ended" \/ j <= p
    BY <1>1 DEF IInv, Queued
  <2> HIDE DEF p
  <2>4. \A j \in DOMAIN turns : j \in Nat /\ j > 0
    BY DEF IInv, ChainTypeOK
  <2>5. CASE p = 0
    BY <2>3, <2>4, <2>5
  <2>6. CASE p # 0
    <3>1. \A j \in DOMAIN turns : turns[j].ch = turns[p].ch /\ j < p => turns[j].phase = "ended"
      BY <2>1, <2>2, <2>6 DEF IInv, InOrder
    <3>2. QED
      BY <2>1, <2>2, <2>3, <2>4, <2>6, <3>1
  <2>7. QED
    BY <2>5, <2>6
<1>8. InOrder'
  BY <1>5, <1>6, <1>7 DEF IInv, InOrder
<1>9. Queued'
  <2>1. \A j \in DOMAIN turns : \A p \in 0 .. j - 1 : p # 0 => p \in DOMAIN turns
    BY DEF IInv, ChainTypeOK
  <2>2. \A j \in DOMAIN turns : turns'[j].phase = "waiting" => turns'[j] = turns[j]
    BY <1>2, <1>5
  <2>3. QED
    BY <1>5, <1>6, <2>1, <2>2 DEF IInv, Queued
<1>10. Tails'
  <2>1. \A ch \in channels : chain[ch] # 0 => chain[ch] \in DOMAIN turns
    BY DEF IInv, ChainTypeOK
  <2>2. QED
    BY <1>3, <1>5, <1>6, <2>1 DEF IInv, Tails
<1>11. QED
  BY <1>5, <1>8, <1>9, <1>10 DEF IInv

LEMMA CrashStep ==
  ASSUME IInv, Crash
  PROVE  IInv'
<1>1. turns' = [i \in DOMAIN turns |-> Ended(turns[i])] /\ channels' = channels
      /\ chain' = [ch \in channels |-> 0]
  BY DEF Crash, config
<1>2. DOMAIN turns' = 1 .. Len(turns) /\ Len(turns) \in Nat
  BY <1>1 DEF IInv, ChainTypeOK
<1>3. Len(turns') = Len(turns)
  BY <1>1, <1>2 DEF IInv, ChainTypeOK
<1>4. \A i \in DOMAIN turns' : IsTurn(turns'[i]) /\ turns'[i].ch = turns[i].ch
                             /\ turns'[i].phase = "ended"
  BY <1>1 DEF Ended, Waiting, IsTurn, Fields
<1>5. ChainTypeOK'
  BY <1>1, <1>2, <1>3, <1>4 DEF IInv, ChainTypeOK
<1>6. InOrder' /\ Queued'
  BY <1>4 DEF InOrder, Queued
<1>7. Tails'
  BY <1>1, <1>4 DEF Tails
<1>8. QED
  BY <1>5, <1>6, <1>7 DEF IInv

LEMMA OtherStep ==
  ASSUME IInv, UNCHANGED <<turns, chain, channels>>
  PROVE  IInv'
<1>1. ChainTypeOK'
  BY DEF IInv, ChainTypeOK
<1>2. InOrder' /\ Queued' /\ Tails'
  BY DEF IInv, InOrder, Queued, Tails
<1>3. QED
  BY <1>1, <1>2 DEF IInv
-----------------------------------------------------------------------------
(* The actions.  A turn at work goes on: one lemma for each way to change   *)
(* it, so that nothing but its fields is looked at.                        *)
LEMMA GoStep ==
  ASSUME IInv, NEW i \in DOMAIN turns, Running(i), NEW phase, phase \notin {"waiting", "ended"},
         Stays(i, phase), channels' = channels
  PROVE  IInv'
<1> DEFINE u == [turns[i] EXCEPT !.phase = phase]
<1>1. IsTurn(turns[i])
  BY DEF IInv, ChainTypeOK
<1>2. IsTurn(u) /\ u.ch = turns[i].ch /\ u.phase # "waiting" /\ u.phase # "ended"
  BY <1>1 DEF IsTurn, Fields
<1>3. turns' = [turns EXCEPT ![i] = u] /\ chain' = chain
  BY DEF Stays, Goes
<1> HIDE DEF u
<1>4. QED
  BY <1>2, <1>3, GoesOn

LEMMA AnswerStep ==
  ASSUME IInv, NEW i \in DOMAIN turns, Running(i), NEW result,
         turns' = Replies(i, result), chain' = chain, channels' = channels
  PROVE  IInv'
<1> DEFINE u == [turns[i] EXCEPT !.phase = "stack", !.result = result, !.asked = 0]
<1>1. IsTurn(turns[i])
  BY DEF IInv, ChainTypeOK
<1>2. IsTurn(u) /\ u.ch = turns[i].ch /\ u.phase = "stack"
  BY <1>1 DEF IsTurn, Fields
<1>3. turns' = [turns EXCEPT ![i] = u]
  BY DEF Replies
<1> HIDE DEF u
<1>4. QED
  BY <1>2, <1>3, GoesOn

LEMMA CalledStep ==
  ASSUME IInv, NEW i \in DOMAIN turns, Running(i), NEW topic,
         turns' = [Replies(i, "tools") EXCEPT ![i].topic = topic],
         chain' = chain, channels' = channels
  PROVE  IInv'
<1> DEFINE u == [turns[i] EXCEPT !.phase = "stack", !.result = "tools", !.asked = 0, !.topic = topic]
<1>1. IsTurn(turns[i])
  BY DEF IInv, ChainTypeOK
<1>2. IsTurn(u) /\ u.ch = turns[i].ch /\ u.phase = "stack"
  BY <1>1 DEF IsTurn, Fields
<1>3. turns' = [turns EXCEPT ![i] = u]
  BY DEF Replies
<1> HIDE DEF u
<1>4. QED
  BY <1>2, <1>3, GoesOn

LEMMA AdmitStep ==
  ASSUME IInv, NEW i \in DOMAIN turns, Admit(i)
  PROVE  IInv'
<1> DEFINE u == [turns[i] EXCEPT !.phase = "persist",
                   !.sid = IF latest # 0 /\ sessions'[latest].open THEN latest ELSE 0]
<1>1. IsTurn(turns[i]) /\ Running(i) /\ channels' = channels
  BY DEF IInv, ChainTypeOK, Admit, Is, Running, config
<1>2. IsTurn(u) /\ u.ch = turns[i].ch /\ u.phase = "persist"
  BY <1>1 DEF IsTurn, Fields
<1>3. Ends(i) \/ (turns' = [turns EXCEPT ![i] = u] /\ chain' = chain)
  BY DEF Admit
<1> HIDE DEF u
<1>4. QED
  BY <1>1, <1>2, <1>3, GoesOn, TurnEnds

LEMMA PersistStep ==
  ASSUME IInv, NEW i \in DOMAIN turns, NEW word \in Words, Persist(i, word)
  PROVE  IInv'
<1> DEFINE fresh == turns[i].sid = 0
           sid == IF fresh THEN Len(sessions) + 1 ELSE turns[i].sid
           old == IF fresh THEN Append(sessions, NewSession(<<>>)) ELSE sessions
           meta == old[sid].meta
           stack == Loaded(meta)
           asked == IF word \in {"yes", "no"} THEN meta.pending ELSE 0
           phase == CASE meta.pending # 0 /\ word = "yes" -> "invoke"
                      [] meta.pending # 0 /\ word = "no" -> "clear"
                      [] OTHER -> IF engine \in CacheOn THEN "cache" ELSE "engine"
<1>1. turns' = [turns EXCEPT ![i].sid = sid, ![i].word = word, ![i].stack = stack,
                             ![i].asked = asked, ![i].phase = phase]
  BY DEF Persist
<1>2. phase # "waiting" /\ phase # "ended"
  OBVIOUS
<1> HIDE DEF sid, stack, asked, phase
<1> DEFINE u == [turns[i] EXCEPT !.sid = sid, !.word = word, !.stack = stack,
                                 !.asked = asked, !.phase = phase]
<1>3. IsTurn(turns[i]) /\ Running(i) /\ chain' = chain /\ channels' = channels
  BY DEF IInv, ChainTypeOK, Persist, Is, Running, config
<1>4. IsTurn(u) /\ u.ch = turns[i].ch /\ u.phase # "waiting" /\ u.phase # "ended"
  BY <1>2, <1>3 DEF IsTurn, Fields
<1>5. turns' = [turns EXCEPT ![i] = u]
  BY <1>1
<1> HIDE DEF u
<1>6. QED
  BY <1>3, <1>4, <1>5, GoesOn

LEMMA ReadMetaStep ==
  ASSUME IInv, NEW i \in DOMAIN turns, ReadMeta(i)
  PROVE  IInv'
<1> DEFINE u == [turns[i] EXCEPT !.row = Changed(i),
                   !.phase = CASE @ = "ask" -> "asking" [] @ = "engine" -> "summary"
                               [] @ = "clear" -> "clearing" [] OTHER -> "saving"]
<1>1. IsTurn(turns[i]) /\ Running(i)
  BY DEF IInv, ChainTypeOK, ReadMeta, Is, Running
<1>2. IsTurn(u) /\ u.ch = turns[i].ch /\ u.phase # "waiting" /\ u.phase # "ended"
  BY <1>1 DEF IsTurn, Fields
<1>3. turns' = [turns EXCEPT ![i] = u] /\ chain' = chain /\ channels' = channels
  BY DEF ReadMeta, config
<1> HIDE DEF u
<1>4. QED
  BY <1>1, <1>2, <1>3, GoesOn

LEMMA WriteMetaStep ==
  ASSUME IInv, NEW i \in DOMAIN turns, WriteMeta(i)
  PROVE  IInv'
<1> DEFINE u == [turns[i] EXCEPT !.row = NoRow, !.asked = 0,
                   !.phase = CASE @ = "asking" -> "stack" [] @ = "summary" -> "think"
                               [] @ = "clearing" -> "acknowledge" [] OTHER -> "reply"]
<1>1. IsTurn(turns[i]) /\ Running(i)
  BY DEF IInv, ChainTypeOK, WriteMeta, Is, Running
<1>2. IsTurn(u) /\ u.ch = turns[i].ch /\ u.phase # "waiting" /\ u.phase # "ended"
  BY <1>1 DEF IsTurn, Fields
<1>3. turns' = [turns EXCEPT ![i] = u] /\ chain' = chain /\ channels' = channels
  BY DEF WriteMeta, config
<1> HIDE DEF u
<1>4. QED
  BY <1>1, <1>2, <1>3, GoesOn

LEMMA LookupStep ==
  ASSUME IInv, NEW i \in DOMAIN turns, Lookup(i)
  PROVE  IInv'
<1> DEFINE u == [turns[i] EXCEPT !.phase = "reply", !.result = "cached"]
<1>1. IsTurn(turns[i]) /\ Running(i) /\ chain' = chain /\ channels' = channels
  BY DEF IInv, ChainTypeOK, Lookup, Is, Running, config
<1>2. IsTurn(u) /\ u.ch = turns[i].ch /\ u.phase = "reply"
  BY <1>1 DEF IsTurn, Fields
<1>3. Stays(i, "engine") \/ turns' = [turns EXCEPT ![i] = u]
  BY DEF Lookup, Stays, config
<1> HIDE DEF u
<1>4. QED
  BY <1>1, <1>2, <1>3, GoesOn, GoStep

LEMMA EngineStartsStep ==
  ASSUME IInv, NEW i \in DOMAIN turns, EngineStarts(i)
  PROVE  IInv'
<1>1. IsTurn(turns[i]) /\ Running(i) /\ chain' = chain /\ channels' = channels
  BY DEF IInv, ChainTypeOK, EngineStarts, Thinks, Is, Running, config
<1>2. \/ turns' = Replies(i, "asks")
      \/ \E asked : \E phase \in {"resume", "running"} :
           turns' = [turns EXCEPT ![i].phase = phase, ![i].asked = asked]
  BY DEF EngineStarts
<1>3. ASSUME NEW phase \in {"resume", "running"}, NEW asked,
             turns' = [turns EXCEPT ![i].phase = phase, ![i].asked = asked]
      PROVE  IInv'
  <2> DEFINE u == [turns[i] EXCEPT !.phase = phase, !.asked = asked]
  <2>1. IsTurn(u) /\ u.ch = turns[i].ch /\ u.phase # "waiting" /\ u.phase # "ended"
    BY <1>1 DEF IsTurn, Fields
  <2>2. turns' = [turns EXCEPT ![i] = u]
    BY <1>3
  <2> HIDE DEF u
  <2>3. QED
    BY <1>1, <2>1, <2>2, GoesOn
<1>4. QED
  BY <1>1, <1>2, <1>3, AnswerStep

LEMMA AsksStep ==
  ASSUME IInv, NEW i \in DOMAIN turns, Asks(i)
  PROVE  IInv'
<1> DEFINE u == [turns[i] EXCEPT !.phase = "ask", !.result = "pending", !.asked = Len(calls')]
<1>1. IsTurn(turns[i]) /\ Running(i) /\ chain' = chain /\ channels' = channels
  BY DEF IInv, ChainTypeOK, Asks, Is, Running, config
<1>2. IsTurn(u) /\ u.ch = turns[i].ch /\ u.phase = "ask"
  BY <1>1 DEF IsTurn, Fields
<1>3. turns' = Replies(i, "asks") \/ turns' = [turns EXCEPT ![i] = u]
  BY DEF Asks
<1> HIDE DEF u
<1>4. QED
  BY <1>1, <1>2, <1>3, GoesOn, AnswerStep

LEMMA StepKeeps ==
  ASSUME IInv, NEW i \in DOMAIN turns, Step(i)
  PROVE  IInv'
<1>1. CASE Begin(i)
  BY <1>1, BeginStep
<1>2. CASE CreateCustomer(i)
  <2>1. Running(i) /\ channels' = channels /\ (Ends(i) \/ Stays(i, "admit"))
    BY <1>2 DEF CreateCustomer, Is, Running, config
  <2>2. QED
    BY <2>1, TurnEnds, GoStep
<1>3. CASE Admit(i)
  BY <1>3, AdmitStep
<1>4. CASE \E word \in Words : Persist(i, word)
  BY <1>4, PersistStep
<1>5. CASE Invoke(i)
  <2>1. Running(i) /\ channels' = channels /\ Stays(i, "clear")
    BY <1>5 DEF Invoke, Is, Running, config, Stays
  <2>2. QED
    BY <2>1, GoStep
<1>6. CASE ReadMeta(i) \/ WriteMeta(i) \/ Lookup(i) \/ EngineStarts(i) \/ Asks(i)
  BY <1>6, ReadMetaStep, WriteMetaStep, LookupStep, EngineStartsStep, AsksStep
<1>7. CASE TakePlan(i)
  <2>1. /\ Running(i) /\ channels' = channels /\ chain' = chain
        /\ turns' = Replies(i, "text") \/ Stays(i, "resumed")
    BY <1>7 DEF TakePlan, Is, Running, config, Stays, Goes
  <2>2. QED
    BY <2>1, GoStep, AnswerStep
<1>8. CASE RunPlan(i) \/ (\E topic \in Topics : Calls(i, topic))
  <2>1. PICK topic \in Topics : turns' = [Replies(i, "tools") EXCEPT ![i].topic = topic]
    BY <1>8 DEF RunPlan, Calls
  <2>2. Running(i) /\ channels' = channels /\ chain' = chain
    BY <1>8 DEF RunPlan, Calls, Is, Running, config
  <2>3. QED
    BY <2>1, <2>2, CalledStep
<1>9. CASE Answers(i)
  <2>1. Running(i) /\ channels' = channels /\ chain' = chain /\ turns' = Replies(i, "text")
    BY <1>9 DEF Answers, Is, Running, config
  <2>2. QED
    BY <2>1, AnswerStep
<1>10. CASE Acknowledge(i) \/ Reply(i)
  <2>1. Running(i) /\ channels' = channels /\ Ends(i)
    BY <1>10 DEF Acknowledge, Reply, Is, Running, config
  <2>2. QED
    BY <2>1, TurnEnds
<1>11. QED
  BY <1>1, <1>2, <1>3, <1>4, <1>5, <1>6, <1>7, <1>8, <1>9, <1>10 DEF Step

LEMMA IInvStep ==
  ASSUME IInv, [Next]_vars
  PROVE  IInv'
<1>1. ASSUME NEW i \in DOMAIN turns, Step(i)
      PROVE  IInv'
  BY <1>1, StepKeeps
<1>2. ASSUME NEW i \in DOMAIN turns, EngineFails(i)
      PROVE  IInv'
  <2>1. Running(i) /\ channels' = channels /\ Ends(i)
    BY <1>2 DEF EngineFails, Is, Running, config
  <2>2. QED
    BY <2>1, TurnEnds
<1>3. ASSUME NEW ch \in channels, Arrive(ch)
      PROVE  IInv'
  BY <1>3, ArriveStep
<1>4. CASE Crash
  BY <1>4, CrashStep
<1>5. CASE MinutePasses \/ GoesQuiet \/ UNCHANGED vars
  <2>1. UNCHANGED <<turns, chain, channels>>
    BY <1>5 DEF MinutePasses, GoesQuiet, vars, config
  <2>2. QED
    BY <2>1, OtherStep
<1>6. QED
  BY <1>1, <1>2, <1>3, <1>4, <1>5 DEF Next

(* Of two turns of a channel the later one runs only when the earlier one   *)
(* has ended: the promise chains of session-lock.ts, whose entries are      *)
(* deleted by the turn that finds itself at their end.                     *)
THEOREM Serialised == Spec => []OneAtATime
<1>1. Init => IInv
  BY Started
<1>2. IInv /\ [Next]_vars => IInv'
  BY IInvStep
<1>3. IInv => OneAtATime
  BY DEF IInv, InOrder, OneAtATime, Running
<1>4. QED
  BY <1>1, <1>2, <1>3, PTL DEF Spec
-----------------------------------------------------------------------------
(* What a step makes of its turn.                                          *)
Turned(i, u) ==
  /\ i \in DOMAIN turns /\ IsTurn(u) /\ u.ch = turns[i].ch
  /\ turns' = [turns EXCEPT ![i] = u]

LEMMA EndsTurned ==
  ASSUME IInv, NEW i \in DOMAIN turns, Ends(i)
  PROVE  \E u : Turned(i, u) /\ u.phase = "ended"
<1> DEFINE u == Ended(turns[i])
<1>1. IsTurn(u) /\ u.ch = turns[i].ch /\ u.phase = "ended"
  BY DEF Ended, Waiting, IsTurn, Fields
<1>2. turns' = [turns EXCEPT ![i] = u]
  BY DEF Ends
<1> HIDE DEF u
<1>3. QED
  BY <1>1, <1>2 DEF Turned

LEMMA GoesTurned ==
  ASSUME IInv, NEW i \in DOMAIN turns, NEW phase, Goes(i, phase)
  PROVE  \E u : /\ Turned(i, u) /\ u.phase = phase
                /\ u.sid = turns[i].sid /\ u.stack = turns[i].stack /\ u.asked = turns[i].asked
<1> DEFINE u == [turns[i] EXCEPT !.phase = phase]
<1>1. IsTurn(turns[i])
  BY DEF IInv, ChainTypeOK
<1>2. /\ IsTurn(u) /\ u.ch = turns[i].ch /\ u.phase = phase
      /\ u.sid = turns[i].sid /\ u.stack = turns[i].stack /\ u.asked = turns[i].asked
  BY <1>1 DEF IsTurn, Fields
<1>3. turns' = [turns EXCEPT ![i] = u]
  BY DEF Goes
<1> HIDE DEF u
<1>4. QED
  BY <1>2, <1>3 DEF Turned

LEMMA RepliesTurned ==
  ASSUME IInv, NEW i \in DOMAIN turns, NEW result, turns' = Replies(i, result)
  PROVE  \E u : /\ Turned(i, u) /\ u.phase = "stack"
                /\ u.sid = turns[i].sid /\ u.stack = turns[i].stack
<1> DEFINE u == [turns[i] EXCEPT !.phase = "stack", !.result = result, !.asked = 0]
<1>1. IsTurn(turns[i])
  BY DEF IInv, ChainTypeOK
<1>2. /\ IsTurn(u) /\ u.ch = turns[i].ch /\ u.phase = "stack"
      /\ u.sid = turns[i].sid /\ u.stack = turns[i].stack
  BY <1>1 DEF IsTurn, Fields
<1>3. turns' = [turns EXCEPT ![i] = u]
  BY DEF Replies
<1> HIDE DEF u
<1>4. QED
  BY <1>2, <1>3 DEF Turned

LEMMA ToolsTurned ==
  ASSUME IInv, NEW i \in DOMAIN turns, NEW topic,
         turns' = [Replies(i, "tools") EXCEPT ![i].topic = topic]
  PROVE  \E u : /\ Turned(i, u) /\ u.phase = "stack"
                /\ u.sid = turns[i].sid /\ u.stack = turns[i].stack
<1> DEFINE u == [turns[i] EXCEPT !.phase = "stack", !.result = "tools", !.asked = 0, !.topic = topic]
<1>1. IsTurn(turns[i])
  BY DEF IInv, ChainTypeOK
<1>2. /\ IsTurn(u) /\ u.ch = turns[i].ch /\ u.phase = "stack"
      /\ u.sid = turns[i].sid /\ u.stack = turns[i].stack
  BY <1>1 DEF IsTurn, Fields
<1>3. turns' = [turns EXCEPT ![i] = u]
  BY DEF Replies
<1> HIDE DEF u
<1>4. QED
  BY <1>2, <1>3 DEF Turned

LEMMA BeginTurned ==
  ASSUME IInv, NEW i \in DOMAIN turns, Begin(i)
  PROVE  \E u : Turned(i, u) /\ u.phase \in {"admit", "customer"}
<1> DEFINE u == [turns[i] EXCEPT !.phase = IF known THEN "admit" ELSE "customer", !.prior = 0]
<1>1. IsTurn(turns[i])
  BY DEF IInv, ChainTypeOK
<1>2. IsTurn(u) /\ u.ch = turns[i].ch /\ u.phase \in {"admit", "customer"}
  BY <1>1 DEF IsTurn, Fields
<1>3. turns' = [turns EXCEPT ![i] = u]
  BY DEF Begin
<1> HIDE DEF u
<1>4. QED
  BY <1>2, <1>3 DEF Turned

LEMMA AdmitTurned ==
  ASSUME IInv, NEW i \in DOMAIN turns, Admit(i)
  PROVE  \E u : /\ Turned(i, u) /\ u.phase \in {"ended", "persist"}
                /\ u.phase = "persist" => ~Limited /\ u.sid \in {latest, 0}
<1>1. CASE Limited
  <2>1. \E u : Turned(i, u) /\ u.phase = "ended"
    BY <1>1, EndsTurned DEF Admit
  <2>2. QED
    BY <2>1
<1>2. CASE ~Limited
  <2> DEFINE sid == IF latest # 0 /\ sessions'[latest].open THEN latest ELSE 0
             u == [turns[i] EXCEPT !.phase = "persist", !.sid = sid]
  <2>1. IsTurn(turns[i])
    BY DEF IInv, ChainTypeOK
  <2>2. sid \in {latest, 0}
    OBVIOUS
  <2>3. turns' = [turns EXCEPT ![i] = u]
    BY <1>2 DEF Admit
  <2> HIDE DEF sid
  <2>4. IsTurn(u) /\ u.ch = turns[i].ch /\ u.phase = "persist" /\ u.sid = sid
    BY <2>1 DEF IsTurn, Fields
  <2> HIDE DEF u
  <2>5. QED
    BY <1>2, <2>2, <2>3, <2>4 DEF Turned
<1>3. QED
  BY <1>1, <1>2

LEMMA PersistTurned ==
  ASSUME IInv, NEW i \in DOMAIN turns, NEW word \in Words, Persist(i, word)
  PROVE  LET fresh == turns[i].sid = 0
             sid == IF fresh THEN Len(sessions) + 1 ELSE turns[i].sid
             old == IF fresh THEN Append(sessions, NewSession(<<>>)) ELSE sessions
             pending == old[sid].meta.pending
         IN  \E u : /\ Turned(i, u) /\ u.sid = sid /\ u.stack = Loaded(old[sid].meta)
                    /\ u.phase \in {"invoke", "clear", "cache", "engine"}
                    /\ u.phase = "invoke" => pending /= 0 /\ u.asked = pending
                    /\ u.phase = "clear" => pending /= 0
<1> DEFINE fresh == turns[i].sid = 0
           sid == IF fresh THEN Len(sessions) + 1 ELSE turns[i].sid
           old == IF fresh THEN Append(sessions, NewSession(<<>>)) ELSE sessions
           meta == old[sid].meta
           stack == Loaded(meta)
           asked == IF word \in {"yes", "no"} THEN meta.pending ELSE 0
           phase == CASE meta.pending # 0 /\ word = "yes" -> "invoke"
                      [] meta.pending # 0 /\ word = "no" -> "clear"
                      [] OTHER -> IF engine \in CacheOn THEN "cache" ELSE "engine"
<1>1. turns' = [turns EXCEPT ![i].sid = sid, ![i].word = word, ![i].stack = stack,
                             ![i].asked = asked, ![i].phase = phase]
  BY DEF Persist
<1>2. /\ phase \in {"invoke", "clear", "cache", "engine"}
      /\ phase = "invoke" => meta.pending /= 0 /\ asked = meta.pending
      /\ phase = "clear" => meta.pending /= 0
  <2> HIDE DEF meta
  <2> QED OBVIOUS
<1> HIDE DEF sid, stack, asked, phase, old
<1> DEFINE u == [turns[i] EXCEPT !.sid = sid, !.word = word, !.stack = stack,
                                 !.asked = asked, !.phase = phase]
<1>3. IsTurn(turns[i])
  BY DEF IInv, ChainTypeOK
<1>4. /\ IsTurn(u) /\ u.ch = turns[i].ch /\ u.sid = sid /\ u.asked = asked
      /\ u.stack = stack /\ u.phase = phase
  BY <1>3 DEF IsTurn, Fields
<1>5. turns' = [turns EXCEPT ![i] = u]
  BY <1>1
<1> HIDE DEF u
<1>6. Turned(i, u)
  BY <1>4, <1>5 DEF Turned
<1>7. QED
  BY <1>2, <1>4, <1>6 DEF sid, old, stack

LEMMA ReadMetaTurned ==
  ASSUME IInv, NEW i \in DOMAIN turns, ReadMeta(i)
  PROVE  \E u : /\ Turned(i, u) /\ u.row = Changed(i)
                /\ u.sid = turns[i].sid /\ u.stack = turns[i].stack /\ u.asked = turns[i].asked
                /\ \/ turns[i].phase = "ask" /\ u.phase = "asking"
                   \/ turns[i].phase = "engine" /\ u.phase = "summary"
                   \/ turns[i].phase = "clear" /\ u.phase = "clearing"
                   \/ turns[i].phase = "stack" /\ u.phase = "saving"
<1> DEFINE row == Changed(i)
           phase == CASE turns[i].phase = "ask" -> "asking"
                      [] turns[i].phase = "engine" -> "summary"
                      [] turns[i].phase = "clear" -> "clearing" [] OTHER -> "saving"
           u == [turns[i] EXCEPT !.row = row, !.phase = phase]
<1>1. IsTurn(turns[i])
  BY DEF IInv, ChainTypeOK
<1>2. turns' = [turns EXCEPT ![i] = u]
  BY DEF ReadMeta
<1>3. \/ turns[i].phase = "ask" /\ phase = "asking"
      \/ turns[i].phase = "engine" /\ phase = "summary"
      \/ turns[i].phase = "clear" /\ phase = "clearing"
      \/ turns[i].phase = "stack" /\ phase = "saving"
  BY DEF ReadMeta, Is
<1> HIDE DEF row, phase
<1>4. /\ IsTurn(u) /\ u.ch = turns[i].ch /\ u.row = row /\ u.phase = phase
      /\ u.sid = turns[i].sid /\ u.stack = turns[i].stack /\ u.asked = turns[i].asked
  BY <1>1 DEF IsTurn, Fields
<1> HIDE DEF u
<1>5. Turned(i, u)
  BY <1>2, <1>4 DEF Turned
<1>6. QED
  BY <1>3, <1>4, <1>5 DEF row

LEMMA WriteMetaTurned ==
  ASSUME IInv, NEW i \in DOMAIN turns, WriteMeta(i)
  PROVE  \E u : /\ Turned(i, u) /\ u.sid = turns[i].sid /\ u.stack = turns[i].stack
                /\ u.phase \in {"stack", "think", "acknowledge", "reply"}
<1> DEFINE phase == CASE turns[i].phase = "asking" -> "stack"
                      [] turns[i].phase = "summary" -> "think"
                      [] turns[i].phase = "clearing" -> "acknowledge" [] OTHER -> "reply"
           u == [turns[i] EXCEPT !.row = NoRow, !.asked = 0, !.phase = phase]
<1>1. IsTurn(turns[i])
  BY DEF IInv, ChainTypeOK
<1>2. turns' = [turns EXCEPT ![i] = u]
  BY DEF WriteMeta
<1>3. phase \in {"stack", "think", "acknowledge", "reply"}
  OBVIOUS
<1> HIDE DEF phase
<1>4. /\ IsTurn(u) /\ u.ch = turns[i].ch /\ u.phase = phase
      /\ u.sid = turns[i].sid /\ u.stack = turns[i].stack
  BY <1>1 DEF IsTurn, Fields
<1> HIDE DEF u
<1>5. QED
  BY <1>2, <1>3, <1>4 DEF Turned

LEMMA LookupTurned ==
  ASSUME IInv, NEW i \in DOMAIN turns, Lookup(i)
  PROVE  \E u : /\ Turned(i, u) /\ u.phase \in {"reply", "engine"}
                /\ u.sid = turns[i].sid /\ u.stack = turns[i].stack
<1> DEFINE u == [turns[i] EXCEPT !.phase = "reply", !.result = "cached"]
<1>1. IsTurn(turns[i])
  BY DEF IInv, ChainTypeOK
<1>2. /\ IsTurn(u) /\ u.ch = turns[i].ch /\ u.phase = "reply"
      /\ u.sid = turns[i].sid /\ u.stack = turns[i].stack
  BY <1>1 DEF IsTurn, Fields
<1>3. Goes(i, "engine") \/ turns' = [turns EXCEPT ![i] = u]
  BY DEF Lookup
<1> HIDE DEF u
<1>4. CASE Goes(i, "engine")
  BY <1>4, GoesTurned
<1>5. CASE turns' = [turns EXCEPT ![i] = u]
  BY <1>2, <1>5 DEF Turned
<1>6. QED
  BY <1>3, <1>4, <1>5

LEMMA EngineStartsTurned ==
  ASSUME IInv, NEW i \in DOMAIN turns, EngineStarts(i)
  PROVE  \E u : /\ Turned(i, u) /\ u.phase \in {"resume", "running", "stack"}
                /\ u.sid = turns[i].sid /\ u.stack = turns[i].stack
                /\ u.phase = "resume" =>
                     engine = "harness" /\ Session(i).plan /= 0 /\ u.asked = Session(i).plan
<1>1. IsTurn(turns[i])
  BY DEF IInv, ChainTypeOK
<1>2. ASSUME NEW phase \in {"resume", "running"}, NEW asked,
             turns' = [turns EXCEPT ![i].phase = phase, ![i].asked = asked]
      PROVE  \E u : /\ Turned(i, u) /\ u.phase = phase
                    /\ u.sid = turns[i].sid /\ u.stack = turns[i].stack /\ u.asked = asked
  <2> DEFINE u == [turns[i] EXCEPT !.phase = phase, !.asked = asked]
  <2>1. /\ IsTurn(u) /\ u.ch = turns[i].ch /\ u.phase = phase
        /\ u.sid = turns[i].sid /\ u.stack = turns[i].stack /\ u.asked = asked
    BY <1>1 DEF IsTurn, Fields
  <2>2. turns' = [turns EXCEPT ![i] = u]
    BY <1>2
  <2> HIDE DEF u
  <2>3. QED
    BY <2>1, <2>2 DEF Turned
<1>3. CASE turns' = Replies(i, "asks")
  <2>1. \E u : Turned(i, u) /\ u.phase = "stack" /\ u.sid = turns[i].sid /\ u.stack = turns[i].stack
    BY <1>3, RepliesTurned
  <2>2. QED
    BY <2>1
<1>4. CASE turns' = [turns EXCEPT ![i].phase = "running", ![i].asked = 0]
  <2>1. \E u : /\ Turned(i, u) /\ u.phase = "running"
               /\ u.sid = turns[i].sid /\ u.stack = turns[i].stack
    BY <1>2, <1>4
  <2>2. QED
    BY <2>1
<1>5. CASE /\ turns' = [turns EXCEPT ![i].phase = "resume", ![i].asked = Session(i).plan]
           /\ engine = "harness" /\ Session(i).plan /= 0
  <2>1. \E u : /\ Turned(i, u) /\ u.phase = "resume"
               /\ u.sid = turns[i].sid /\ u.stack = turns[i].stack /\ u.asked = Session(i).plan
    BY <1>2, <1>5
  <2>2. QED
    BY <1>5, <2>1
<1>6. QED
  BY <1>3, <1>4, <1>5 DEF EngineStarts

LEMMA AsksTurned ==
  ASSUME IInv, NEW i \in DOMAIN turns, Asks(i)
  PROVE  \E u : /\ Turned(i, u) /\ u.phase \in {"ask", "stack"}
                /\ u.sid = turns[i].sid /\ u.stack = turns[i].stack
                /\ u.phase = "ask" => engine = "loop" /\ u.asked = Len(calls')
<1> DEFINE q == Len(calls')
           u == [turns[i] EXCEPT !.phase = "ask", !.result = "pending", !.asked = q]
<1>1. IsTurn(turns[i])
  BY DEF IInv, ChainTypeOK
<1> HIDE DEF q
<1>2. /\ IsTurn(u) /\ u.ch = turns[i].ch /\ u.phase = "ask"
      /\ u.sid = turns[i].sid /\ u.stack = turns[i].stack /\ u.asked = q
  BY <1>1 DEF IsTurn, Fields
<1>3. turns' = Replies(i, "asks") \/ (engine = "loop" /\ turns' = [turns EXCEPT ![i] = u])
  BY DEF Asks, q
<1> HIDE DEF u
<1>4. CASE turns' = Replies(i, "asks")
  <2>1. \E x : Turned(i, x) /\ x.phase = "stack" /\ x.sid = turns[i].sid /\ x.stack = turns[i].stack
    BY <1>4, RepliesTurned
  <2>2. QED
    BY <2>1
<1>5. CASE engine = "loop" /\ turns' = [turns EXCEPT ![i] = u]
  BY <1>2, <1>5 DEF Turned, q
<1>6. QED
  BY <1>3, <1>4, <1>5
-----------------------------------------------------------------------------
(* The rate limit.  The channels whose turn has passed the limit and is     *)
(* not counted yet: each counts for one, so it takes another channel to    *)
(* pass the limit once it is reached.                                      *)
Counting ==
  {ch \in channels : \E i \in DOMAIN turns : turns[i].ch = ch /\ turns[i].phase = "persist"}

RateInv ==
  /\ sent \in Int /\ IsFiniteSet(channels) /\ channels /= {}
  /\ sent + Cardinality(Counting) <= PerMinute + Cardinality(channels) - 1

LEMMA CountingSize ==
  ASSUME IsFiniteSet(channels)
  PROVE  /\ IsFiniteSet(Counting) /\ Cardinality(channels) \in Nat
         /\ Cardinality(Counting) \in 0 .. Cardinality(channels)
<1>1. Counting \subseteq channels
  BY DEF Counting
<1>2. QED
  BY <1>1, FS_Subset, FS_CardinalityType

(* A step that lets no turn pass the limit.                                *)
LEMMA Uncounted ==
  ASSUME RateInv, channels' = channels, Counting' \subseteq Counting, sent' \in Int, sent' <= sent
  PROVE  RateInv'
<1>1. /\ IsFiniteSet(Counting) /\ Cardinality(channels) \in Nat
      /\ Cardinality(Counting) \in Nat
  BY CountingSize DEF RateInv
<1>2. Cardinality(Counting') <= Cardinality(Counting) /\ Cardinality(Counting') \in Nat
  BY <1>1, FS_Subset, FS_CardinalityType
<1>3. QED
  BY <1>1, <1>2, TurnsConstants DEF RateInv

LEMMA TurnedUncounted ==
  ASSUME IInv, RateInv, NEW i, NEW u, Turned(i, u), u.phase /= "persist",
         channels' = channels, sent' = sent
  PROVE  RateInv'
<1>1. /\ DOMAIN turns' = DOMAIN turns /\ turns'[i] = u
      /\ \A j \in DOMAIN turns : j # i => turns'[j] = turns[j]
  BY DEF Turned, IInv, ChainTypeOK
<1>2. Counting' \subseteq Counting
  BY <1>1 DEF Counting
<1>3. QED
  BY <1>2, Uncounted DEF RateInv

(* The limit is not reached: one more may pass on every channel.           *)
LEMMA AdmitCounts ==
  ASSUME IInv, RateInv, NEW i \in DOMAIN turns, Admit(i)
  PROVE  RateInv'
<1>1. PICK u : /\ Turned(i, u) /\ u.phase \in {"ended", "persist"}
               /\ u.phase = "persist" => ~Limited /\ u.sid \in {latest, 0}
  BY AdmitTurned
<1>2. channels' = channels /\ sent' = sent
  BY DEF Admit, config
<1>3. CASE u.phase = "ended"
  BY <1>1, <1>2, <1>3, TurnedUncounted
<1>4. CASE u.phase = "persist"
  <2>1. sent < PerMinute /\ sent \in Int /\ PerMinute \in Nat
    BY <1>1, <1>4, TurnsConstants DEF Limited, RateInv
  <2>2. Counting' \subseteq channels /\ IsFiniteSet(channels)
    BY <1>2 DEF Counting, RateInv
  <2>3. /\ Cardinality(Counting') \in Nat /\ Cardinality(channels) \in Nat
        /\ Cardinality(Counting') <= Cardinality(channels)
    BY <2>2, FS_Subset, FS_CardinalityType
  <2>4. QED
    BY <1>2, <2>1, <2>2, <2>3 DEF RateInv
<1>5. QED
  BY <1>1, <1>3, <1>4

(* The message is counted: it was the only one of its channel about to be.  *)
LEMMA PersistCounts ==
  ASSUME IInv, RateInv, NEW i \in DOMAIN turns, NEW word \in Words, Persist(i, word)
  PROVE  RateInv'
<1> DEFINE k == turns[i].ch
<1>1. PICK u : Turned(i, u) /\ u.phase \in {"invoke", "clear", "cache", "engine"}
  BY PersistTurned
<1>2. turns[i].phase = "persist" /\ sent' = sent + 1 /\ channels' = channels
  BY DEF Persist, Is, config
<1>3. /\ DOMAIN turns' = DOMAIN turns /\ turns'[i] = u /\ u.ch = k
      /\ \A j \in DOMAIN turns : j # i => turns'[j] = turns[j]
  BY <1>1 DEF Turned, IInv, ChainTypeOK
<1>4. k \in Counting
  BY <1>2 DEF Counting, IInv, ChainTypeOK
<1>5. \A j \in DOMAIN turns : j # i /\ turns[j].ch = k => turns[j].phase # "persist"
  <2>1. DOMAIN turns \subseteq Int
    BY DEF IInv, ChainTypeOK
  <2>2. QED
    BY <1>2, <2>1 DEF IInv, InOrder
<1>6. Counting' \subseteq Counting \ {k}
  BY <1>1, <1>2, <1>3, <1>5 DEF Counting
<1>7. /\ IsFiniteSet(Counting) /\ Cardinality(channels) \in Nat
      /\ Cardinality(Counting) \in Nat
  BY CountingSize DEF RateInv
<1>8. /\ IsFiniteSet(Counting \ {k})
      /\ Cardinality(Counting \ {k}) = Cardinality(Counting) - 1
  BY <1>4, <1>7, FS_RemoveElement
<1>9. /\ Cardinality(Counting') \in Nat
      /\ Cardinality(Counting') <= Cardinality(Counting) - 1
  BY <1>6, <1>8, FS_Subset, FS_CardinalityType
<1>10. QED
  BY <1>2, <1>7, <1>9, TurnsConstants DEF RateInv

(* The other steps of a turn neither count a message nor let one pass.      *)
LEMMA StepUncounted ==
  ASSUME IInv, NEW i \in DOMAIN turns, Step(i) \/ EngineFails(i),
         ~Admit(i), \A word \in Words : ~Persist(i, word)
  PROVE  /\ channels' = channels /\ sent' = sent
         /\ \E u : Turned(i, u) /\ u.phase /= "persist"
<1>1. CASE Begin(i)
  <2>1. \E u : Turned(i, u) /\ u.phase \in {"admit", "customer"}
    BY <1>1, BeginTurned
  <2>2. QED
    BY <1>1, <2>1 DEF Begin, config, rows
<1>2. ASSUME Ends(i)
      PROVE  \E u : Turned(i, u) /\ u.phase /= "persist"
  <2>1. \E u : Turned(i, u) /\ u.phase = "ended"
    BY <1>2, EndsTurned
  <2>2. QED
    BY <2>1
<1>3. ASSUME NEW phase, phase /= "persist", Goes(i, phase)
      PROVE  \E u : Turned(i, u) /\ u.phase /= "persist"
  <2>1. \E u : Turned(i, u) /\ u.phase = phase
    BY <1>3, GoesTurned
  <2>2. QED
    BY <1>3, <2>1
<1>4. ASSUME NEW result, turns' = Replies(i, result)
      PROVE  \E u : Turned(i, u) /\ u.phase /= "persist"
  <2>1. \E u : Turned(i, u) /\ u.phase = "stack"
    BY <1>4, RepliesTurned
  <2>2. QED
    BY <2>1
<1>5. CASE CreateCustomer(i) \/ Acknowledge(i) \/ Reply(i) \/ EngineFails(i)
  <2>1. channels' = channels /\ sent' = sent
    BY <1>5 DEF CreateCustomer, Acknowledge, Reply, EngineFails, config
  <2>2. Ends(i) \/ Goes(i, "admit")
    BY <1>5 DEF CreateCustomer, Acknowledge, Reply, EngineFails, Stays
  <2>3. QED
    BY <1>2, <1>3, <2>1, <2>2
<1>6. CASE Invoke(i) \/ TakePlan(i) \/ Answers(i)
  <2>1. channels' = channels /\ sent' = sent
    BY <1>6 DEF Invoke, TakePlan, Answers, config, rows
  <2>2. Goes(i, "clear") \/ Goes(i, "resumed") \/ turns' = Replies(i, "text")
    BY <1>6 DEF Invoke, TakePlan, Answers, Goes
  <2>3. QED
    BY <1>3, <1>4, <2>1, <2>2
<1>7. CASE ReadMeta(i) \/ WriteMeta(i) \/ Lookup(i) \/ EngineStarts(i) \/ Asks(i)
  <2>1. channels' = channels /\ sent' = sent
    BY <1>7 DEF ReadMeta, WriteMeta, Lookup, EngineStarts, Asks, config, rows
  <2>2. \E u : Turned(i, u) /\ u.phase \in {"asking", "summary", "clearing", "saving", "stack",
                  "think", "acknowledge", "reply", "engine", "resume", "running", "ask"}
    <3>1. CASE ReadMeta(i)
      <4>1. PICK u : /\ Turned(i, u)
                     /\ \/ turns[i].phase = "ask" /\ u.phase = "asking"
                        \/ turns[i].phase = "engine" /\ u.phase = "summary"
                        \/ turns[i].phase = "clear" /\ u.phase = "clearing"
                        \/ turns[i].phase = "stack" /\ u.phase = "saving"
        BY <3>1, ReadMetaTurned
      <4>2. QED
        BY <4>1
    <3>2. CASE WriteMeta(i)
      <4>1. \E u : Turned(i, u) /\ u.phase \in {"stack", "think", "acknowledge", "reply"}
        BY <3>2, WriteMetaTurned
      <4>2. QED
        BY <4>1
    <3>3. CASE Lookup(i)
      <4>1. \E u : Turned(i, u) /\ u.phase \in {"reply", "engine"}
        BY <3>3, LookupTurned
      <4>2. QED
        BY <4>1
    <3>4. CASE EngineStarts(i)
      <4>1. \E u : Turned(i, u) /\ u.phase \in {"resume", "running", "stack"}
        BY <3>4, EngineStartsTurned
      <4>2. QED
        BY <4>1
    <3>5. CASE Asks(i)
      <4>1. \E u : Turned(i, u) /\ u.phase \in {"ask", "stack"}
        BY <3>5, AsksTurned
      <4>2. QED
        BY <4>1
    <3>6. QED
      BY <1>7, <3>1, <3>2, <3>3, <3>4, <3>5
  <2>3. QED
    BY <2>1, <2>2
<1>8. CASE RunPlan(i) \/ \E topic \in Topics : Calls(i, topic)
  <2>1. channels' = channels /\ sent' = sent
    BY <1>8 DEF RunPlan, Calls, config, rows
  <2>2. PICK topic \in Topics : turns' = [Replies(i, "tools") EXCEPT ![i].topic = topic]
    BY <1>8 DEF RunPlan, Calls
  <2>3. \E u : Turned(i, u) /\ u.phase = "stack"
    BY <2>2, ToolsTurned
  <2>4. QED
    BY <2>1, <2>3
<1>9. QED
  BY <1>1, <1>5, <1>6, <1>7, <1>8 DEF Step

LEMMA RateStep ==
  ASSUME IInv, RateInv, [Next]_vars
  PROVE  RateInv'
<1>1. ASSUME NEW i \in DOMAIN turns, Step(i) \/ EngineFails(i)
      PROVE  RateInv'
  <2>1. CASE Admit(i)
    BY <2>1, AdmitCounts
  <2>2. CASE \E word \in Words : Persist(i, word)
    BY <2>2, PersistCounts
  <2>3. CASE ~Admit(i) /\ \A word \in Words : ~Persist(i, word)
    BY <1>1, <2>3, StepUncounted, TurnedUncounted
  <2>4. QED
    BY <2>1, <2>2, <2>3
<1>2. ASSUME NEW ch \in channels, Arrive(ch)
      PROVE  RateInv'
  <2>1. channels' = channels /\ sent' = sent
    BY <1>2 DEF Arrive, config, rows
  <2>2. Counting' \subseteq Counting
    <3> DEFINE t == Waiting(ch, chain[ch])
    <3>1. t.phase = "waiting"
      BY DEF Waiting
    <3>2. turns' = Append(turns, t)
      BY <1>2 DEF Arrive
    <3> HIDE DEF t
    <3>3. /\ DOMAIN turns' = 1 .. Len(turns) + 1 /\ turns'[Len(turns) + 1] = t
          /\ \A j \in DOMAIN turns : turns'[j] = turns[j]
      BY <3>2 DEF IInv, ChainTypeOK
    <3>4. QED
      BY <2>1, <3>1, <3>3 DEF Counting, IInv, ChainTypeOK
  <2>3. QED
    BY <2>1, <2>2, Uncounted DEF RateInv
<1>3. CASE Crash
  <2>1. channels' = channels /\ sent' = sent
    BY <1>3 DEF Crash, config, rows
  <2>2. \A i \in DOMAIN turns' : turns'[i].phase = "ended"
    BY <1>3 DEF Crash, Ended, Waiting
  <2>3. Counting' \subseteq Counting
    BY <2>2 DEF Counting
  <2>4. QED
    BY <2>1, <2>3, Uncounted DEF RateInv
<1>4. CASE MinutePasses
  <2>1. channels' = channels /\ turns' = turns /\ sent' = sent - 1
    BY <1>4 DEF MinutePasses, config
  <2>2. Counting' \subseteq Counting
    BY <2>1 DEF Counting
  <2>3. QED
    BY <2>1, <2>2, Uncounted DEF RateInv
<1>5. CASE GoesQuiet
  <2>1. channels' = channels /\ turns' = turns /\ sent' = 0
    BY <1>5 DEF GoesQuiet
  <2>2. Counting' = {}
    BY <1>5, <2>1 DEF GoesQuiet, Counting
  <2>3. Cardinality(channels) \in Nat \ {0}
    BY FS_CardinalityType, FS_EmptySet DEF RateInv
  <2>4. Cardinality(Counting') = 0
    BY <2>2, FS_EmptySet
  <2>5. QED
    BY <2>1, <2>3, <2>4, TurnsConstants DEF RateInv
<1>6. CASE UNCHANGED vars
  <2>1. channels' = channels /\ turns' = turns /\ sent' = sent
    BY <1>6 DEF vars, config, rows
  <2>2. Counting' \subseteq Counting
    BY <2>1 DEF Counting
  <2>3. QED
    BY <2>1, <2>2, Uncounted DEF RateInv
<1>7. QED
  BY <1>1, <1>2, <1>3, <1>4, <1>5, <1>6 DEF Next

LEMMA RateStarts ==
  ASSUME Init
  PROVE  RateInv
<1>1. sent \in 0 .. PerMinute /\ Counting = {}
  BY TurnsConstants DEF Init, Counting
<1>2. IsFiniteSet(channels) /\ channels /= {} /\ PerMinute \in Nat
  BY TurnsConstants DEF Init
<1>3. Cardinality(channels) \in Nat \ {0} /\ Cardinality(Counting) = 0
  BY <1>1, <1>2, FS_CardinalityType, FS_EmptySet
<1>4. QED
  BY <1>1, <1>2, <1>3 DEF RateInv

(* The customer's messages of a minute exceed the limit by one for every   *)
(* channel but one, and no more, whatever the turns' interleaving: the     *)
(* limit is read (rate-limit.ts) before the message is stored.              *)
THEOREM Limits == Spec => []RateKept
<1>1. Init => IInv /\ RateInv
  BY Started, RateStarts
<1>2. IInv /\ RateInv /\ [Next]_vars => IInv' /\ RateInv'
  BY IInvStep, RateStep
<1>3. RateInv => RateKept
  <2>1. SUFFICES ASSUME RateInv PROVE RateKept
    OBVIOUS
  <2>2. Cardinality(Counting) \in Nat /\ Cardinality(channels) \in Nat
    BY <2>1, CountingSize DEF RateInv
  <2>3. QED
    BY <2>1, <2>2, TurnsConstants DEF RateInv, RateKept
<1>4. QED
  BY <1>1, <1>2, <1>3, PTL DEF Spec
-----------------------------------------------------------------------------
(* The questions.  With one channel there is one turn at work.             *)
MetaFields == {"pending", "stack", "mark", "horizon"}
SessionFields == {"open", "idle", "messages", "plan", "meta"}
IsMeta(m) == m = [f \in MetaFields |-> m[f]]
IsSession(s) == s = [f \in SessionFields |-> s[f]] /\ IsMeta(s.meta)

(* The question a session is waiting for an answer to, or 0.               *)
Question(s) == IF engine = "loop" THEN sessions[s].meta.pending ELSE sessions[s].plan

RowsOk ==
  /\ Len(sessions) \in Nat /\ DOMAIN sessions = 1 .. Len(sessions)
  /\ sessions = [s \in DOMAIN sessions |-> sessions[s]]
  /\ latest \in 0 .. Len(sessions)
  /\ calls \in Seq(Nat) /\ faults \in Nat /\ engine \in {"loop", "harness"}
  /\ \A s \in DOMAIN sessions :
       /\ IsSession(sessions[s]) /\ Question(s) \in 0 .. Len(calls)
       /\ engine = "harness" => sessions[s].meta.pending = 0

(* Calls of a question before the one its answer allows: a restart of the  *)
(* server between that call and the next write of the metadata leaves the  *)
(* tool loop's question where it is.                                       *)
Again == IF engine = "loop" THEN faults ELSE 0
Spent(s) == \E i \in DOMAIN turns : turns[i].phase \in {"clear", "clearing"} /\ turns[i].sid = s

Questions ==
  /\ \A q \in DOMAIN calls : calls[q] <= 1 + Again
  /\ \A s \in DOMAIN sessions : Question(s) /= 0 /\ ~Spent(s) => calls[Question(s)] <= Again
  /\ \A s, r \in DOMAIN sessions : s /= r /\ Question(s) = Question(r) => Question(s) = 0

Early == {"waiting", "ended", "customer", "admit"}
Asking == {"invoke", "clear", "clearing", "ask", "asking"}
Resuming == {"resume", "resumed"}
Seated == {"acknowledge", "cache", "engine", "summary", "think", "running", "stack", "saving",
           "reply"} \cup Asking \cup Resuming

(* A question no session waits for.                                        *)
Loose(q) ==
  /\ q \in DOMAIN calls /\ calls[q] <= Again
  /\ \A s \in DOMAIN sessions : Question(s) /= q

TurnOk(t) ==
  /\ t.phase \in Early \cup {"persist"} \cup Seated
  /\ t.phase = "persist" => t.sid \in 0 .. Len(sessions)
  /\ t.phase \in Seated => t.sid \in DOMAIN sessions
  /\ t.phase \in Asking => engine = "loop"
  /\ t.phase \in Resuming => engine = "harness"
  /\ t.phase \in {"invoke", "resume"} => t.asked /= 0 /\ t.asked = Question(t.sid)
  /\ t.phase \in {"ask", "asking", "resumed"} => Loose(t.asked)
  /\ t.phase \in {"asking", "clearing", "saving", "summary"} => IsMeta(t.row)
  /\ t.phase = "asking" => t.row.pending = t.asked
  /\ t.phase = "clearing" => t.row.pending = 0
  /\ t.phase \in {"saving", "summary"} => t.row.pending = sessions[t.sid].meta.pending

Conf == RowsOk /\ Questions /\ \A i \in DOMAIN turns : TurnOk(turns[i])

(* A step that neither asks nor answers a question: the sessions keep       *)
(* theirs, and a new one has none.                                         *)
Unasked ==
  /\ Len(sessions') \in Nat /\ Len(sessions) <= Len(sessions')
  /\ DOMAIN sessions' = 1 .. Len(sessions')
  /\ sessions' = [s \in DOMAIN sessions' |-> sessions'[s]]
  /\ latest' \in 0 .. Len(sessions')
  /\ \A s \in DOMAIN sessions' :
       /\ IsSession(sessions'[s])
       /\ sessions'[s].meta.pending = IF s \in DOMAIN sessions THEN sessions[s].meta.pending ELSE 0
       /\ sessions'[s].plan = IF s \in DOMAIN sessions THEN sessions[s].plan ELSE 0
  /\ calls' = calls /\ faults' \in Nat /\ faults' >= faults /\ engine' = engine

Others(i) == \A j \in DOMAIN turns : j # i => turns[j].phase \in {"waiting", "ended"}

LEMMA OthersRest ==
  ASSUME IInv, IsFiniteSet(channels), Cardinality(channels) = 1,
         NEW i \in DOMAIN turns, Running(i)
  PROVE  Others(i)
<1>1. PICK c : channels = {c}
  BY FS_Singleton
<1>2. \A j \in DOMAIN turns : turns[j].ch = turns[i].ch
  BY <1>1 DEF IInv, ChainTypeOK
<1>3. DOMAIN turns \subseteq Int
  BY DEF IInv, ChainTypeOK
<1>4. QED
  BY <1>2, <1>3 DEF IInv, InOrder, Others, Running

LEMMA SpentOf ==
  ASSUME IInv, NEW i, NEW u, Turned(i, u), Others(i)
  PROVE  /\ \A s : Spent(s) <=> turns[i].phase \in {"clear", "clearing"} /\ turns[i].sid = s
         /\ \A s : Spent(s)' <=> u.phase \in {"clear", "clearing"} /\ u.sid = s
<1>1. /\ i \in DOMAIN turns /\ DOMAIN turns' = DOMAIN turns /\ turns'[i] = u
      /\ \A j \in DOMAIN turns : j # i => turns'[j] = turns[j]
  BY DEF Turned, IInv, ChainTypeOK
<1>2. QED
  BY <1>1 DEF Spent, Others

(* What a turn at work leaves behind is right if its own part is.          *)
LEMMA WorkDone ==
  ASSUME IInv, NEW i, NEW u, Turned(i, u), Others(i), RowsOk', Questions', TurnOk(u)'
  PROVE  Conf'
<1>1. /\ i \in DOMAIN turns /\ DOMAIN turns' = DOMAIN turns /\ turns'[i] = u
      /\ \A j \in DOMAIN turns : j # i => turns'[j] = turns[j]
  BY DEF Turned, IInv, ChainTypeOK
<1>2. ASSUME NEW j \in DOMAIN turns', j # i
      PROVE  TurnOk(turns[j])'
  <2>1. turns'[j].phase \in {"waiting", "ended"}
    BY <1>1, <1>2 DEF Others
  <2>2. QED
    BY <2>1 DEF TurnOk, Early, Seated, Asking, Resuming
<1>3. TurnOk(turns[i])'
  BY <1>1 DEF TurnOk, Loose, Question, IsMeta
<1>4. (\A j \in DOMAIN turns : TurnOk(turns[j]))'
  BY <1>1, <1>2, <1>3
<1>5. QED
  BY <1>4 DEF Conf

LEMMA Keeps ==
  ASSUME RowsOk, Questions, Unasked, \A s \in DOMAIN sessions : Spent(s) => Spent(s)'
  PROVE  /\ RowsOk' /\ Questions'
         /\ \A s \in DOMAIN sessions : s \in DOMAIN sessions' /\ Question(s)' = Question(s)
         /\ \A q : Loose(q) => Loose(q)'
<1>1. DOMAIN sessions \subseteq DOMAIN sessions'
  BY DEF RowsOk, Unasked
<1>2. \A s \in DOMAIN sessions : Question(s)' = Question(s)
  BY <1>1 DEF Unasked, Question
<1>3. \A s \in DOMAIN sessions' : s \notin DOMAIN sessions => Question(s)' = 0
  BY DEF Unasked, Question
<1>4. Again \in Nat /\ Again' \in Nat /\ Again <= Again'
  BY DEF RowsOk, Unasked, Again
<1>5. RowsOk'
  <2>1. \A s \in DOMAIN sessions' : Question(s)' \in 0 .. Len(calls')
    BY <1>2, <1>3 DEF RowsOk, Unasked
  <2>2. \A s \in DOMAIN sessions' : engine' = "harness" => sessions'[s].meta.pending = 0
    BY DEF RowsOk, Unasked
  <2>3. QED
    BY <2>1, <2>2 DEF RowsOk, Unasked
<1>6. Questions'
  <2>1. \A q \in DOMAIN calls : calls[q] \in Nat
    BY DEF RowsOk
  <2>2. \A q \in DOMAIN calls' : calls'[q] <= 1 + Again'
    BY <1>4, <2>1 DEF Questions, Unasked
  <2>3. ASSUME NEW s \in DOMAIN sessions', Question(s)' # 0, ~Spent(s)'
        PROVE  calls'[Question(s)'] <= Again'
    <3>1. s \in DOMAIN sessions /\ Question(s)' = Question(s) /\ ~Spent(s)
      BY <1>2, <1>3, <2>3
    <3>2. Question(s) \in DOMAIN calls /\ calls[Question(s)] <= Again
      BY <2>3, <3>1 DEF RowsOk, Questions
    <3>3. QED
      BY <1>4, <2>1, <3>1, <3>2 DEF Unasked
  <2>4. \A s, r \in DOMAIN sessions' : s # r /\ Question(s)' = Question(r)' => Question(s)' = 0
    BY <1>2, <1>3 DEF Questions
  <2>5. QED
    BY <2>2, <2>3, <2>4 DEF Questions
<1>7. ASSUME NEW q, Loose(q)
      PROVE  Loose(q)'
  <2>1. q \in DOMAIN calls /\ calls[q] \in Nat /\ calls[q] <= Again /\ q # 0
    BY <1>7 DEF Loose, RowsOk
  <2>2. \A s \in DOMAIN sessions' : Question(s)' # q
    BY <1>2, <1>3, <1>7, <2>1 DEF Loose
  <2>3. QED
    BY <1>4, <2>1, <2>2 DEF Loose, Unasked
<1>8. QED
  BY <1>1, <1>2, <1>5, <1>6, <1>7

LEMMA Untouched ==
  ASSUME RowsOk, UNCHANGED <<sessions, latest, calls, engine>>, faults' \in {faults, faults + 1}
  PROVE  Unasked
BY DEF RowsOk, Unasked

(* One session is written, its question kept.                              *)
LEMMA Rewritten ==
  ASSUME RowsOk, NEW sid \in DOMAIN sessions, NEW row, IsSession(row),
         row.meta.pending = sessions[sid].meta.pending, row.plan = sessions[sid].plan,
         sessions' = [sessions EXCEPT ![sid] = row], latest' \in {latest, sid},
         UNCHANGED <<calls, faults, engine>>
  PROVE  Unasked
<1>1. /\ DOMAIN sessions' = DOMAIN sessions /\ Len(sessions') = Len(sessions)
      /\ sessions'[sid] = row
      /\ \A s \in DOMAIN sessions : s # sid => sessions'[s] = sessions[s]
  BY DEF RowsOk
<1>2. sessions' = [s \in DOMAIN sessions' |-> sessions'[s]]
  BY <1>1
<1>3. QED
  BY <1>1, <1>2 DEF RowsOk, Unasked

LEMMA TouchedSession ==
  ASSUME NEW s, IsSession(s)
  PROVE  /\ IsSession(Touched(s))
         /\ Touched(s).meta = s.meta /\ Touched(s).plan = s.plan
<1> DEFINE n == s.messages + 1
           u == [s EXCEPT !.messages = n, !.idle = FALSE]
<1>1. Touched(s) = u
  BY DEF Touched
<1> HIDE DEF n
<1>2. IsSession(u) /\ u.meta = s.meta /\ u.plan = s.plan
  BY DEF IsSession, SessionFields
<1>3. QED
  BY <1>1, <1>2

LEMMA StoredKeeps ==
  ASSUME RowsOk, NEW sid \in DOMAIN sessions, sessions' = Stored(sessions, sid),
         latest' = sid, UNCHANGED <<calls, faults, engine>>
  PROVE  Unasked
<1> DEFINE row == Touched(sessions[sid])
<1>1. /\ IsSession(row) /\ row.meta = sessions[sid].meta /\ row.plan = sessions[sid].plan
  BY TouchedSession DEF RowsOk
<1>2. sessions' = [sessions EXCEPT ![sid] = row]
  BY DEF Stored
<1> HIDE DEF row
<1>3. QED
  BY <1>1, <1>2, Rewritten

(* A turn goes on, its question and those of the sessions as they were.     *)
LEMMA KeptDone ==
  ASSUME IInv, Conf, NEW i, NEW u, Turned(i, u), Others(i), Unasked, TurnOk(u),
         turns[i].phase \notin {"clear", "clearing"} \/
           (u.phase \in {"clear", "clearing"} /\ u.sid = turns[i].sid)
  PROVE  Conf'
<1>1. RowsOk /\ Questions
  BY DEF Conf
<1>2. \A s \in DOMAIN sessions : Spent(s) => Spent(s)'
  BY SpentOf
<1>3. /\ RowsOk' /\ Questions'
      /\ \A s \in DOMAIN sessions : s \in DOMAIN sessions' /\ Question(s)' = Question(s)
      /\ \A q : Loose(q) => Loose(q)'
  BY <1>1, <1>2, Keeps
<1>4. \A s \in DOMAIN sessions : sessions'[s].meta.pending = sessions[s].meta.pending
  BY <1>3 DEF Unasked
<1>5. /\ engine' = engine /\ Len(sessions) \in Nat /\ Len(sessions') \in Nat
      /\ Len(sessions) <= Len(sessions')
  BY <1>1 DEF RowsOk, Unasked
<1>6. TurnOk(u)'
  <2>1. u.phase \in {"ask", "asking", "resumed"} => Loose(u.asked)'
    BY <1>3 DEF TurnOk
  <2>2. u.phase \in {"invoke", "resume"} => u.asked /= 0 /\ u.asked = Question(u.sid)'
    BY <1>3 DEF TurnOk, Seated, Asking, Resuming
  <2>3. u.phase \in {"saving", "summary"} => u.row.pending = sessions'[u.sid].meta.pending
    BY <1>4 DEF TurnOk, Seated
  <2>4. /\ u.phase = "persist" => u.sid \in 0 .. Len(sessions')
        /\ u.phase \in Seated => u.sid \in DOMAIN sessions'
    BY <1>3, <1>5 DEF TurnOk
  <2>5. QED
    BY <1>5, <2>1, <2>2, <2>3, <2>4 DEF TurnOk
<1>7. QED
  BY <1>3, <1>6, WorkDone

LEMMA EarlyOk ==
  ASSUME NEW u, u.phase \in Early
  PROVE  TurnOk(u)
BY DEF TurnOk, Early, Seated, Asking, Resuming

LEMMA PlainOk ==
  ASSUME NEW u, u.sid \in DOMAIN sessions,
         u.phase \in {"acknowledge", "cache", "engine", "think", "running", "stack", "reply"}
  PROVE  TurnOk(u)
BY DEF TurnOk, Early, Seated, Asking, Resuming

LEMMA TurnSeated ==
  ASSUME Conf, NEW i \in DOMAIN turns, turns[i].phase \in Seated
  PROVE  turns[i].sid \in DOMAIN sessions
BY DEF Conf, TurnOk
-----------------------------------------------------------------------------
(* The steps that leave the questions alone.                               *)
LEMMA CustomerConf ==
  ASSUME IInv, Conf, NEW i \in DOMAIN turns, CreateCustomer(i), Others(i)
  PROVE  Conf'
<1>1. \E u : Turned(i, u) /\ u.phase \in {"admit", "ended"}
  <2>1. CASE Ends(i)
    <3>1. \E u : Turned(i, u) /\ u.phase = "ended"
      BY <2>1, EndsTurned
    <3>2. QED
      BY <3>1
  <2>2. CASE Goes(i, "admit")
    <3>1. \E u : Turned(i, u) /\ u.phase = "admit"
      BY <2>2, GoesTurned
    <3>2. QED
      BY <3>1
  <2>3. QED
    BY <2>1, <2>2 DEF CreateCustomer, Stays
<1>2. PICK u : Turned(i, u) /\ u.phase \in {"admit", "ended"}
  BY <1>1
<1>3. turns[i].phase = "customer" /\ UNCHANGED <<sessions, latest, calls, engine, faults>>
  BY DEF CreateCustomer, Is, config
<1>4. RowsOk
  BY DEF Conf
<1>5. faults' \in {faults, faults + 1} /\ UNCHANGED <<sessions, latest, calls, engine>>
  BY <1>3
<1>6. Unasked
  BY <1>4, <1>5, Untouched
<1>7. TurnOk(u)
  BY <1>2, EarlyOk DEF Early
<1>8. QED
  BY <1>2, <1>3, <1>6, <1>7, KeptDone

LEMMA AdmitConf ==
  ASSUME IInv, Conf, NEW i \in DOMAIN turns, Admit(i), Others(i)
  PROVE  Conf'
<1>1. PICK u : /\ Turned(i, u) /\ u.phase \in {"ended", "persist"}
               /\ u.phase = "persist" => ~Limited /\ u.sid \in {latest, 0}
  BY AdmitTurned
<1>2. RowsOk
  BY DEF Conf
<1>3. turns[i].phase = "admit" /\ UNCHANGED <<latest, calls, engine, faults>>
  BY DEF Admit, Is, config
<1>4. Unasked
  <2>1. CASE sessions' = sessions
    BY <1>2, <1>3, <2>1, Untouched DEF RowsOk
  <2>2. CASE sessions' = [s \in DOMAIN sessions |->
               IF sessions[s].idle THEN [sessions[s] EXCEPT !.open = FALSE] ELSE sessions[s]]
    <3>1. /\ DOMAIN sessions' = DOMAIN sessions
          /\ sessions' = [s \in DOMAIN sessions' |-> sessions'[s]]
          /\ Len(sessions') = Len(sessions)
      BY <1>2, <2>2 DEF RowsOk
    <3>2. ASSUME NEW s \in DOMAIN sessions
          PROVE  /\ IsSession(sessions'[s]) /\ sessions'[s].meta = sessions[s].meta
                 /\ sessions'[s].plan = sessions[s].plan
      <4> DEFINE row == sessions[s]
                 closed == [row EXCEPT !.open = FALSE]
      <4>1. IsSession(row)
        BY <1>2 DEF RowsOk
      <4>2. sessions'[s] = closed \/ sessions'[s] = row
        BY <2>2
      <4> HIDE DEF row
      <4>3. IsSession(closed) /\ closed.meta = row.meta /\ closed.plan = row.plan
        BY <4>1 DEF IsSession, SessionFields
      <4> HIDE DEF closed
      <4>4. QED
        BY <4>1, <4>2, <4>3 DEF row
    <3>3. QED
      BY <1>2, <1>3, <3>1, <3>2 DEF Unasked, RowsOk
  <2>3. QED
    BY <2>1, <2>2 DEF Admit
<1>5. TurnOk(u)
  <2>1. CASE u.phase = "ended"
    BY <2>1, EarlyOk DEF Early
  <2>2. CASE u.phase = "persist"
    <3>1. u.sid \in 0 .. Len(sessions)
      BY <1>1, <1>2, <2>2 DEF RowsOk
    <3>2. QED
      BY <2>2, <3>1 DEF TurnOk, Seated, Asking, Resuming
  <2>3. QED
    BY <1>1, <2>1, <2>2
<1>6. QED
  BY <1>1, <1>3, <1>4, <1>5, KeptDone

LEMMA LookupConf ==
  ASSUME IInv, Conf, NEW i \in DOMAIN turns, Lookup(i), Others(i)
  PROVE  Conf'
<1>1. PICK u : Turned(i, u) /\ u.phase \in {"reply", "engine"} /\ u.sid = turns[i].sid
  BY LookupTurned
<1>2. turns[i].phase = "cache" /\ UNCHANGED <<sessions, latest, calls, engine, faults>>
  BY DEF Lookup, Is, config, rows
<1>3. RowsOk
  BY DEF Conf
<1>4. Unasked
  BY <1>2, <1>3, Untouched
<1>5. TurnOk(u)
  BY <1>1, <1>2, TurnSeated, PlainOk DEF Seated
<1>6. QED
  BY <1>1, <1>2, <1>4, <1>5, KeptDone

LEMMA EngineStartsConf ==
  ASSUME IInv, Conf, NEW i \in DOMAIN turns, EngineStarts(i), Others(i)
  PROVE  Conf'
<1>1. PICK u : /\ Turned(i, u) /\ u.phase \in {"resume", "running", "stack"}
               /\ u.sid = turns[i].sid
               /\ u.phase = "resume" =>
                    engine = "harness" /\ Session(i).plan /= 0 /\ u.asked = Session(i).plan
  BY EngineStartsTurned
<1>2. /\ turns[i].phase \in {"engine", "think"}
      /\ UNCHANGED <<sessions, latest, calls, engine, faults>>
  BY DEF EngineStarts, Thinks, Is, config, rows
<1>3. RowsOk
  BY DEF Conf
<1>4. Unasked
  BY <1>2, <1>3, Untouched
<1>5. u.sid \in DOMAIN sessions
  BY <1>1, <1>2, TurnSeated DEF Seated
<1>6. TurnOk(u)
  <2>1. CASE u.phase = "resume"
    <3>1. u.asked # 0 /\ u.asked = Question(u.sid) /\ engine = "harness"
      BY <1>1, <2>1 DEF Session, Question
    <3>2. QED
      BY <1>5, <2>1, <3>1 DEF TurnOk, Seated, Asking, Resuming
  <2>2. CASE u.phase \in {"running", "stack"}
    BY <1>5, <2>2, PlainOk
  <2>3. QED
    BY <1>1, <2>1, <2>2
<1>7. QED
  BY <1>1, <1>2, <1>4, <1>6, KeptDone

LEMMA AnswersConf ==
  ASSUME IInv, Conf, NEW i \in DOMAIN turns, Others(i),
         Answers(i) \/ \E topic \in Topics : Calls(i, topic)
  PROVE  Conf'
<1>1. PICK u : Turned(i, u) /\ u.phase = "stack" /\ u.sid = turns[i].sid
  <2>1. CASE Answers(i)
    <3>1. turns' = Replies(i, "text")
      BY <2>1 DEF Answers
    <3>2. QED
      BY <3>1, RepliesTurned
  <2>2. CASE \E topic \in Topics : Calls(i, topic)
    <3>1. PICK topic : turns' = [Replies(i, "tools") EXCEPT ![i].topic = topic]
      BY <2>2 DEF Calls
    <3>2. QED
      BY <3>1, ToolsTurned
  <2>3. QED
    BY <2>1, <2>2
<1>2. turns[i].phase = "running" /\ UNCHANGED <<sessions, latest, calls, engine, faults>>
  BY DEF Answers, Calls, Is, config, rows
<1>3. RowsOk
  BY DEF Conf
<1>4. Unasked
  BY <1>2, <1>3, Untouched
<1>5. TurnOk(u)
  BY <1>1, <1>2, TurnSeated, PlainOk DEF Seated
<1>6. QED
  BY <1>1, <1>2, <1>4, <1>5, KeptDone

(* The last message of a turn is stored.                                   *)
LEMMA StoredConf ==
  ASSUME IInv, Conf, NEW i \in DOMAIN turns, Others(i), Acknowledge(i) \/ Reply(i)
  PROVE  Conf'
<1>1. /\ turns[i].phase \in {"acknowledge", "reply"} /\ Ends(i)
      /\ sessions' = Stored(sessions, turns[i].sid) /\ latest' = turns[i].sid
      /\ UNCHANGED <<calls, engine, faults>>
  BY DEF Acknowledge, Reply, Is, config
<1>2. PICK u : Turned(i, u) /\ u.phase = "ended"
  BY <1>1, EndsTurned
<1>3. RowsOk /\ turns[i].sid \in DOMAIN sessions
  BY <1>1, TurnSeated DEF Conf, Seated
<1>4. Unasked
  BY <1>1, <1>3, StoredKeeps
<1>5. TurnOk(u)
  BY <1>2, EarlyOk DEF Early
<1>6. QED
  BY <1>1, <1>2, <1>4, <1>5, KeptDone

LEMMA ChangedRow ==
  ASSUME NEW i, turns[i].phase \in {"clear", "ask", "engine", "stack"}, IsMeta(Session(i).meta)
  PROVE  /\ IsMeta(Changed(i))
         /\ turns[i].phase = "clear" => Changed(i).pending = 0
         /\ turns[i].phase = "ask" => Changed(i).pending = turns[i].asked
         /\ turns[i].phase \in {"engine", "stack"} => Changed(i).pending = Session(i).meta.pending
         /\ Changed(i).stack =
              IF turns[i].phase = "stack"
              THEN Expired(UpdatedStack(turns[i].stack, turns[i].word, turns[i].topic,
                                        Session(i).messages), Session(i).meta.horizon)
              ELSE Session(i).meta.stack
<1> DEFINE row == Session(i).meta
           now == Session(i).messages
           asked == turns[i].asked
           new == UpdatedStack(turns[i].stack, turns[i].word, turns[i].topic, now)
           stack == Expired(new, row.horizon)
<1>1. IsMeta(row)
  OBVIOUS
<1>2. CASE turns[i].phase = "clear"
  <2>1. Changed(i) = [row EXCEPT !.pending = 0] /\ row = Session(i).meta
    BY <1>2 DEF Changed
  <2> HIDE DEF row
  <2>2. QED
    BY <1>1, <1>2, <2>1 DEF IsMeta, MetaFields
<1>3. CASE turns[i].phase = "ask"
  <2>1. Changed(i) = [row EXCEPT !.pending = asked] /\ row = Session(i).meta
    BY <1>3 DEF Changed
  <2> HIDE DEF row
  <2>2. QED
    BY <1>1, <1>3, <2>1 DEF IsMeta, MetaFields
<1>4. CASE turns[i].phase = "engine"
  <2>1. Changed(i) = [row EXCEPT !.mark = now]
    BY <1>4 DEF Changed
  <2> DEFINE m == row
  <2>2. m = Session(i).meta
    OBVIOUS
  <2> HIDE DEF row, now
  <2>3. QED
    BY <1>1, <1>4, <2>1, <2>2 DEF IsMeta, MetaFields
<1>5. CASE turns[i].phase = "stack"
  <2>1. Changed(i) = [row EXCEPT !.stack = stack]
    BY <1>5 DEF Changed, WithStack
  <2>2. row = Session(i).meta
    OBVIOUS
  <2> HIDE DEF row, stack
  <2>3. IsMeta(Changed(i)) /\ Changed(i).pending = row.pending /\ Changed(i).stack = stack
    BY <1>1, <1>5, <2>1 DEF IsMeta, MetaFields
  <2>4. QED
    BY <1>5, <2>2, <2>3 DEF stack
<1>6. QED
  BY <1>2, <1>3, <1>4, <1>5

LEMMA ReadMetaConf ==
  ASSUME IInv, Conf, NEW i \in DOMAIN turns, ReadMeta(i), Others(i)
  PROVE  Conf'
<1>1. PICK u : /\ Turned(i, u) /\ u.row = Changed(i)
               /\ u.sid = turns[i].sid /\ u.asked = turns[i].asked
               /\ \/ turns[i].phase = "ask" /\ u.phase = "asking"
                  \/ turns[i].phase = "engine" /\ u.phase = "summary"
                  \/ turns[i].phase = "clear" /\ u.phase = "clearing"
                  \/ turns[i].phase = "stack" /\ u.phase = "saving"
  BY ReadMetaTurned
<1>2. UNCHANGED <<sessions, latest, calls, engine, faults>>
  BY DEF ReadMeta, config, rows
<1>3. RowsOk /\ TurnOk(turns[i])
  BY DEF Conf
<1>4. Unasked
  BY <1>2, <1>3, Untouched
<1>5. turns[i].phase \in Seated
  BY <1>1 DEF Seated, Asking
<1>6. u.sid \in DOMAIN sessions
  BY <1>1, <1>5, TurnSeated
<1>7. /\ IsMeta(u.row)
      /\ turns[i].phase = "clear" => u.row.pending = 0
      /\ turns[i].phase = "ask" => u.row.pending = turns[i].asked
      /\ turns[i].phase \in {"engine", "stack"} => u.row.pending = sessions[u.sid].meta.pending
  <2>1. IsMeta(Session(i).meta)
    BY <1>3, <1>5, TurnSeated DEF RowsOk, IsSession, Session
  <2>2. turns[i].phase \in {"clear", "ask", "engine", "stack"}
    BY <1>1
  <2>3. QED
    BY <1>1, <2>1, <2>2, ChangedRow DEF Session
<1>8. TurnOk(u)
  <2>1. CASE u.phase = "asking"
    BY <1>1, <1>3, <1>6, <1>7, <2>1 DEF TurnOk, Seated, Asking, Resuming
  <2>2. CASE u.phase = "clearing"
    BY <1>1, <1>3, <1>6, <1>7, <2>2 DEF TurnOk, Seated, Asking, Resuming
  <2>3. CASE u.phase \in {"summary", "saving"}
    BY <1>1, <1>6, <1>7, <2>3 DEF TurnOk, Seated, Asking, Resuming
  <2>4. QED
    BY <1>1, <2>1, <2>2, <2>3
<1>9. QED
  BY <1>1, <1>4, <1>8, KeptDone
-----------------------------------------------------------------------------
(* The steps that ask or answer.                                           *)

(* The session a message is stored in, a new one if there is none.          *)
LEMMA Opened ==
  ASSUME Len(sessions) \in Nat, DOMAIN sessions = 1 .. Len(sessions),
         sessions = [s \in DOMAIN sessions |-> sessions[s]],
         NEW found \in 0 .. Len(sessions), NEW new
  PROVE  LET fresh == found = 0
             sid == IF fresh THEN Len(sessions) + 1 ELSE found
             old == IF fresh THEN Append(sessions, new) ELSE sessions
         IN  /\ DOMAIN old = 1 .. Len(old) /\ Len(old) \in Nat /\ Len(sessions) <= Len(old)
             /\ old = [s \in DOMAIN old |-> old[s]] /\ sid \in DOMAIN old
             /\ \A s \in DOMAIN old : s \in DOMAIN sessions => old[s] = sessions[s]
             /\ \A s \in DOMAIN old : s \notin DOMAIN sessions => old[s] = new
<1> DEFINE fresh == found = 0
           sid == IF fresh THEN Len(sessions) + 1 ELSE found
           old == IF fresh THEN Append(sessions, new) ELSE sessions
<1>1. CASE fresh
  <2>1. old = Append(sessions, new) /\ sid = Len(sessions) + 1
    BY <1>1
  <2>2. Len(sessions) \in Nat /\ DOMAIN sessions = 1 .. Len(sessions)
    OBVIOUS
  <2> HIDE DEF old, sid, fresh
  <2> DEFINE T == {sessions[s] : s \in DOMAIN sessions} \cup {new}
  <2>3. sessions \in Seq(T) /\ new \in T
    OBVIOUS
  <2> HIDE DEF T
  <2>4. old \in Seq(T) /\ Len(old) = Len(sessions) + 1
    BY <2>1, <2>3, AppendProperties
  <2>5. /\ old[Len(sessions) + 1] = new
        /\ \A s \in 1 .. Len(sessions) : old[s] = sessions[s]
    BY <2>1, <2>3, AppendProperties
  <2>6. /\ DOMAIN old = 1 .. Len(old) /\ Len(old) \in Nat
        /\ old = [s \in DOMAIN old |-> old[s]]
    BY <2>4
  <2>7. QED
    BY <2>1, <2>2, <2>4, <2>5, <2>6
<1>2. CASE ~fresh
  BY <1>2
<1>3. QED
  BY <1>1, <1>2

(* A message is stored, in a session that asks nothing if it is new.        *)
LEMMA PersistUnasked ==
  ASSUME Conf, NEW i \in DOMAIN turns, NEW word \in Words, Persist(i, word)
  PROVE  LET fresh == turns[i].sid = 0
             sid == IF fresh THEN Len(sessions) + 1 ELSE turns[i].sid
             old == IF fresh THEN Append(sessions, NewSession(<<>>)) ELSE sessions
         IN  /\ Unasked /\ sid \in DOMAIN sessions'
             /\ sessions'[sid].meta.pending = old[sid].meta.pending
<1> DEFINE fresh == turns[i].sid = 0
           sid == IF fresh THEN Len(sessions) + 1 ELSE turns[i].sid
           new == NewSession(<<>>)
           old == IF fresh THEN Append(sessions, new) ELSE sessions
<1>1. /\ turns[i].phase = "persist" /\ sessions' = Stored(old, sid) /\ latest' = sid
      /\ UNCHANGED <<calls, engine, faults>>
  BY DEF Persist, Is, config
<1>2. RowsOk /\ turns[i].sid \in 0 .. Len(sessions)
  BY <1>1 DEF Conf, TurnOk
<1>3. IsSession(new) /\ new.meta.pending = 0 /\ new.plan = 0
  BY DEF NewSession, IsSession, SessionFields, IsMeta, MetaFields
<1> HIDE DEF new
<1>4. /\ DOMAIN old = 1 .. Len(old) /\ Len(old) \in Nat /\ Len(sessions) <= Len(old)
      /\ old = [s \in DOMAIN old |-> old[s]] /\ sid \in DOMAIN old
      /\ \A s \in DOMAIN old : s \in DOMAIN sessions => old[s] = sessions[s]
      /\ \A s \in DOMAIN old : s \notin DOMAIN sessions => old[s] = new
  <2>1. /\ Len(sessions) \in Nat /\ DOMAIN sessions = 1 .. Len(sessions)
        /\ sessions = [s \in DOMAIN sessions |-> sessions[s]]
    BY <1>2 DEF RowsOk
  <2>2. QED
    BY <1>2, <2>1, Opened
<1> DEFINE row == Touched(old[sid])
<1>5. IsSession(old[sid])
  BY <1>2, <1>3, <1>4 DEF RowsOk
<1>6. IsSession(row) /\ row.meta = old[sid].meta /\ row.plan = old[sid].plan
  BY <1>5, TouchedSession
<1>7. sessions' = [old EXCEPT ![sid] = row]
  BY <1>1 DEF Stored
<1> HIDE DEF row, old, sid, fresh
<1>8. /\ DOMAIN sessions' = DOMAIN old /\ Len(sessions') = Len(old) /\ sessions'[sid] = row
      /\ \A s \in DOMAIN old : s # sid => sessions'[s] = old[s]
      /\ sessions' = [s \in DOMAIN sessions' |-> sessions'[s]]
  <2>1. /\ DOMAIN sessions' = DOMAIN old /\ sessions'[sid] = row
        /\ \A s \in DOMAIN old : s # sid => sessions'[s] = old[s]
    BY <1>4, <1>7
  <2>2. Len(sessions') = Len(old)
    BY <1>4, <1>7
  <2>3. sessions' = [s \in DOMAIN sessions' |-> sessions'[s]]
    BY <1>4, <1>7, <2>1
  <2>4. QED
    BY <2>1, <2>2, <2>3
<1>9. \A s \in DOMAIN sessions' :
        /\ IsSession(sessions'[s])
        /\ sessions'[s].meta = old[s].meta /\ sessions'[s].plan = old[s].plan
  <2>1. \A s \in DOMAIN old : IsSession(old[s])
    BY <1>2, <1>3, <1>4 DEF RowsOk
  <2>2. QED
    BY <1>6, <1>8, <2>1
<1>10. Unasked
  <2>1. \A s \in DOMAIN sessions' :
          /\ sessions'[s].meta.pending = IF s \in DOMAIN sessions THEN sessions[s].meta.pending ELSE 0
          /\ sessions'[s].plan = IF s \in DOMAIN sessions THEN sessions[s].plan ELSE 0
    BY <1>3, <1>4, <1>8, <1>9
  <2>2. QED
    BY <1>1, <1>2, <1>4, <1>8, <1>9, <2>1 DEF Unasked, RowsOk
<1>11. sid \in DOMAIN sessions' /\ sessions'[sid].meta.pending = old[sid].meta.pending
  BY <1>4, <1>8, <1>9
<1>12. QED
  BY <1>10, <1>11 DEF old, sid, fresh, new

LEMMA PersistConf ==
  ASSUME IInv, Conf, NEW i \in DOMAIN turns, Others(i), NEW word \in Words, Persist(i, word)
  PROVE  Conf'
<1> DEFINE fresh == turns[i].sid = 0
           sid == IF fresh THEN Len(sessions) + 1 ELSE turns[i].sid
           old == IF fresh THEN Append(sessions, NewSession(<<>>)) ELSE sessions
           pending == old[sid].meta.pending
<1>1. PICK u : /\ Turned(i, u) /\ u.sid = sid
               /\ u.phase \in {"invoke", "clear", "cache", "engine"}
               /\ u.phase = "invoke" => pending /= 0 /\ u.asked = pending
               /\ u.phase = "clear" => pending /= 0
  BY PersistTurned
<1>2. Unasked /\ sid \in DOMAIN sessions' /\ sessions'[sid].meta.pending = pending
  BY PersistUnasked
<1> HIDE DEF pending, old, sid, fresh
<1>3. turns[i].phase = "persist" /\ RowsOk /\ Questions
  BY DEF Persist, Is, Conf
<1>4. \A s \in DOMAIN sessions : Spent(s) => Spent(s)'
  BY <1>1, <1>3, SpentOf
<1>5. RowsOk' /\ Questions'
  BY <1>2, <1>3, <1>4, Keeps
<1>6. TurnOk(u)'
  <2>1. u.sid \in DOMAIN sessions'
    BY <1>1, <1>2
  <2>2. CASE u.phase \in {"cache", "engine"}
    BY <2>1, <2>2 DEF TurnOk, Early, Seated, Asking, Resuming
  <2>3. CASE u.phase \in {"invoke", "clear"}
    <3>1. pending # 0
      BY <1>1, <2>3
    <3>2. engine' = "loop"
      BY <1>2, <1>5, <3>1 DEF RowsOk
    <3>3. Question(u.sid)' = pending
      BY <1>1, <1>2, <3>2 DEF Question
    <3>4. QED
      BY <1>1, <2>1, <2>3, <3>1, <3>2, <3>3 DEF TurnOk, Early, Seated, Asking, Resuming
  <2>4. QED
    BY <1>1, <2>2, <2>3
<1>7. QED
  BY <1>1, <1>5, <1>6, WorkDone

(* The call of question q is made: no session waits for it any more, or it  *)
(* is about to be cleared there.                                           *)
LEMMA CallMade ==
  ASSUME RowsOk, Questions, NEW q \in DOMAIN calls, calls[q] <= Again, Called(q),
         UNCHANGED <<sessions, latest, engine>>, faults' \in {faults, faults + 1},
         \A s \in DOMAIN sessions : (Question(s) = q \/ Spent(s)) => Spent(s)'
  PROVE  RowsOk' /\ Questions'
<1>1. calls \in Seq(Nat) /\ calls[q] \in Nat
  BY DEF RowsOk
<1>2. /\ calls' \in Seq(Nat) /\ DOMAIN calls' = DOMAIN calls /\ Len(calls') = Len(calls)
      /\ calls'[q] = calls[q] + 1
      /\ \A p \in DOMAIN calls : p # q => calls'[p] = calls[p]
  <2> DEFINE n == calls[q] + 1
  <2>1. n \in Nat /\ calls' = [calls EXCEPT ![q] = n]
    BY <1>1 DEF Called
  <2> HIDE DEF n
  <2>2. calls' \in Seq(Nat) /\ Len(calls') = Len(calls)
    BY <1>1, <2>1, ExceptSeq
  <2>3. QED
    BY <1>1, <2>1, <2>2 DEF n
<1>3. Again \in Nat /\ Again' \in Nat /\ Again <= Again' /\ faults' \in Nat
  BY DEF RowsOk, Again
<1>4. \A s \in DOMAIN sessions : Question(s)' = Question(s)
  BY DEF Question
<1>5. RowsOk'
  <2>1. Len(calls') = Len(calls) /\ calls' \in Seq(Nat)
    BY <1>2
  <2>2. \A s \in DOMAIN sessions : Question(s)' \in 0 .. Len(calls')
    BY <1>4, <2>1 DEF RowsOk
  <2>3. \A s \in DOMAIN sessions' :
          /\ IsSession(sessions'[s]) /\ Question(s)' \in 0 .. Len(calls')
          /\ engine' = "harness" => sessions'[s].meta.pending = 0
    BY <2>2 DEF RowsOk
  <2>4. /\ Len(sessions') \in Nat /\ DOMAIN sessions' = 1 .. Len(sessions')
        /\ sessions' = [s \in DOMAIN sessions' |-> sessions'[s]]
        /\ latest' \in 0 .. Len(sessions') /\ engine' \in {"loop", "harness"}
    BY DEF RowsOk
  <2>5. QED
    BY <1>3, <2>1, <2>3, <2>4 DEF RowsOk
<1>6. \A p \in DOMAIN calls : calls[p] \in Nat
  BY <1>1
<1>7. \A p \in DOMAIN calls' : calls'[p] <= 1 + Again'
  <2>1. \A p \in DOMAIN calls : calls[p] <= 1 + Again
    BY DEF Questions
  <2>2. ASSUME NEW p \in DOMAIN calls
        PROVE  calls'[p] <= 1 + Again'
    <3>1. CASE p = q
      BY <1>2, <1>3, <1>6, <3>1
    <3>2. CASE p # q
      BY <1>2, <1>3, <1>6, <2>1, <3>2
    <3>3. QED
      BY <3>1, <3>2
  <2>3. QED
    BY <1>2, <2>2
<1>8. ASSUME NEW s \in DOMAIN sessions, Question(s) # 0, ~Spent(s)'
      PROVE  calls'[Question(s)] <= Again'
  <2>1. Question(s) # q /\ ~Spent(s)
    BY <1>8
  <2>2. Question(s) \in DOMAIN calls /\ calls[Question(s)] <= Again
    BY <1>1, <1>8, <2>1 DEF RowsOk, Questions
  <2>3. QED
    BY <1>2, <1>3, <1>6, <2>1, <2>2
<1>9. Questions'
  BY <1>4, <1>7, <1>8 DEF Questions
<1>10. QED
  BY <1>5, <1>9

LEMMA InvokeConf ==
  ASSUME IInv, Conf, NEW i \in DOMAIN turns, Others(i), Invoke(i)
  PROVE  Conf'
<1> DEFINE q == turns[i].asked
           sid == turns[i].sid
<1>1. turns[i].phase = "invoke" /\ Goes(i, "clear") /\ Called(q)
  BY DEF Invoke, Is
<1>2. UNCHANGED <<sessions, latest, engine, faults>>
  BY DEF Invoke, config
<1>3. PICK u : Turned(i, u) /\ u.phase = "clear" /\ u.sid = sid
  BY <1>1, GoesTurned
<1>4. /\ RowsOk /\ Questions /\ sid \in DOMAIN sessions /\ engine = "loop"
      /\ q # 0 /\ q = Question(sid)
  BY <1>1 DEF Conf, TurnOk, Seated, Asking
<1>5. /\ \A s : ~Spent(s)
      /\ \A s : Spent(s)' <=> sid = s
  BY <1>1, <1>3, SpentOf
<1>6. q \in DOMAIN calls /\ calls[q] <= Again
  BY <1>4, <1>5 DEF RowsOk, Questions
<1>7. \A s \in DOMAIN sessions : Question(s) = q => s = sid
  BY <1>4 DEF Questions
<1>8. faults' \in {faults, faults + 1}
  BY <1>2
<1> HIDE DEF q, sid
<1>9. RowsOk' /\ Questions'
  BY <1>1, <1>2, <1>4, <1>5, <1>6, <1>7, <1>8, CallMade
<1>10. TurnOk(u)'
  BY <1>2, <1>3, <1>4 DEF TurnOk, Early, Seated, Asking, Resuming
<1>11. QED
  BY <1>3, <1>9, <1>10, WorkDone

LEMMA ResumedConf ==
  ASSUME IInv, Conf, NEW i \in DOMAIN turns, Others(i), turns[i].phase = "resumed",
         Called(turns[i].asked), UNCHANGED <<sessions, latest, engine>>,
         faults' \in {faults, faults + 1},
         NEW u, Turned(i, u),
         u.phase = "ended" \/ (u.phase = "stack" /\ u.sid = turns[i].sid)
  PROVE  Conf'
<1> DEFINE q == turns[i].asked
<1>1. RowsOk /\ Questions /\ Loose(q) /\ turns[i].sid \in DOMAIN sessions
  BY DEF Conf, TurnOk, Seated, Resuming
<1>2. \A s : ~Spent(s)
  BY SpentOf
<1>3. q \in DOMAIN calls /\ calls[q] <= Again /\ \A s \in DOMAIN sessions : Question(s) # q
  BY <1>1 DEF Loose
<1> HIDE DEF q
<1>4. Called(q)
  BY DEF q
<1>5. RowsOk' /\ Questions'
  BY <1>1, <1>2, <1>3, <1>4, CallMade
<1>6. TurnOk(u)'
  BY <1>1 DEF TurnOk, Early, Seated, Asking, Resuming
<1>7. QED
  BY <1>5, <1>6, WorkDone

(* A session's question is replaced, by none or by one nobody waits for.    *)
LEMMA Answered ==
  ASSUME RowsOk, Questions, NEW sid \in DOMAIN sessions, NEW row, IsSession(row),
         sessions' = [sessions EXCEPT ![sid] = row],
         UNCHANGED <<latest, engine, faults>>,
         calls' \in Seq(Nat), Len(calls) <= Len(calls'),
         \A q \in DOMAIN calls : calls'[q] = calls[q],
         \A q \in DOMAIN calls' : q \notin DOMAIN calls => calls'[q] = 0,
         engine = "harness" => row.meta.pending = 0,
         NEW v, v = IF engine = "loop" THEN row.meta.pending ELSE row.plan,
         v = 0 \/ (/\ v \in DOMAIN calls' /\ calls'[v] <= Again
                   /\ \A s \in DOMAIN sessions : Question(s) # v),
         \A s \in DOMAIN sessions : s # sid /\ Spent(s) => Spent(s)'
  PROVE  /\ RowsOk' /\ Questions' /\ Question(sid)' = v
         /\ DOMAIN sessions' = DOMAIN sessions
         /\ \A s \in DOMAIN sessions : s # sid => Question(s)' = Question(s)
<1>1. /\ DOMAIN sessions' = DOMAIN sessions /\ Len(sessions') = Len(sessions)
      /\ sessions'[sid] = row
      /\ \A s \in DOMAIN sessions : s # sid => sessions'[s] = sessions[s]
  BY DEF RowsOk
<1>2. sessions' = [s \in DOMAIN sessions' |-> sessions'[s]]
  BY <1>1
<1>3. Question(sid)' = v /\ \A s \in DOMAIN sessions : s # sid => Question(s)' = Question(s)
  BY <1>1 DEF Question
<1>4. calls \in Seq(Nat) /\ Again' = Again /\ Again \in Nat
  BY DEF RowsOk, Again
<1>5. /\ DOMAIN calls = 1 .. Len(calls) /\ DOMAIN calls' = 1 .. Len(calls')
      /\ Len(calls) \in Nat /\ Len(calls') \in Nat
  BY <1>4
<1>6. RowsOk'
  <2>1. \A s \in DOMAIN sessions : Question(s)' \in 0 .. Len(calls')
    BY <1>3, <1>5 DEF RowsOk
  <2>2. \A s \in DOMAIN sessions' :
          /\ IsSession(sessions'[s]) /\ Question(s)' \in 0 .. Len(calls')
          /\ engine' = "harness" => sessions'[s].meta.pending = 0
    BY <1>1, <2>1 DEF RowsOk
  <2>3. /\ Len(sessions') \in Nat /\ DOMAIN sessions' = 1 .. Len(sessions')
        /\ latest' \in 0 .. Len(sessions') /\ engine' \in {"loop", "harness"} /\ faults' \in Nat
    BY <1>1 DEF RowsOk
  <2>4. QED
    BY <1>2, <2>2, <2>3 DEF RowsOk
<1>7. Questions'
  <2>1. \A q \in DOMAIN calls' : calls'[q] <= 1 + Again'
    <3>1. \A q \in DOMAIN calls : calls[q] <= 1 + Again
      BY DEF Questions
    <3>2. QED
      BY <1>4, <3>1
  <2>2. ASSUME NEW s \in DOMAIN sessions, Question(s)' # 0, ~Spent(s)'
        PROVE  calls'[Question(s)'] <= Again'
    <3>1. CASE s = sid
      BY <1>3, <1>4, <2>2, <3>1
    <3>2. CASE s # sid
      <4>1. Question(s)' = Question(s)
        BY <1>3, <3>2
      <4>2. Question(s) # 0 /\ ~Spent(s)
        BY <2>2, <3>2, <4>1
      <4>3. calls[Question(s)] <= Again
        BY <4>2 DEF Questions
      <4>4. Question(s) \in DOMAIN calls
        <5>1. Question(s) \in 0 .. Len(calls)
          BY DEF RowsOk
        <5>2. QED
          BY <1>5, <4>2, <5>1
      <4>5. QED
        BY <1>4, <4>1, <4>3, <4>4
    <3>3. QED
      BY <3>1, <3>2
  <2>3. \A s, r \in DOMAIN sessions' : s # r /\ Question(s)' = Question(r)' => Question(s)' = 0
    BY <1>1, <1>3 DEF Questions
  <2>4. QED
    BY <1>1, <2>1, <2>2, <2>3 DEF Questions
<1>8. QED
  BY <1>1, <1>3, <1>6, <1>7

LEMMA TakePlanConf ==
  ASSUME IInv, Conf, NEW i \in DOMAIN turns, Others(i), TakePlan(i)
  PROVE  Conf'
<1>0. PICK sid, q, row : /\ sid = turns[i].sid /\ q = turns[i].asked
                         /\ row = [sessions[sid] EXCEPT !.plan = 0]
  OBVIOUS
<1>1. /\ turns[i].phase = "resume" /\ sessions' = [sessions EXCEPT ![sid] = row]
      /\ UNCHANGED <<latest, calls, engine, faults>>
      /\ turns' = Replies(i, "text") \/ Goes(i, "resumed")
  BY <1>0 DEF TakePlan, Is, config, Goes
<1>2. /\ RowsOk /\ Questions /\ sid \in DOMAIN sessions /\ engine = "harness"
      /\ q # 0 /\ q = Question(sid)
  BY <1>0, <1>1 DEF Conf, TurnOk, Seated, Resuming
<1>3. \E u : /\ Turned(i, u) /\ u.sid = sid
             /\ u.phase = "stack" \/ (u.phase = "resumed" /\ u.asked = q)
  <2>1. CASE turns' = Replies(i, "text")
    <3>1. \E u : Turned(i, u) /\ u.phase = "stack" /\ u.sid = turns[i].sid
      BY <2>1, RepliesTurned
    <3>2. QED
      BY <1>0, <3>1
  <2>2. CASE Goes(i, "resumed")
    <3>1. \E u : /\ Turned(i, u) /\ u.phase = "resumed"
                 /\ u.sid = turns[i].sid /\ u.asked = turns[i].asked
      BY <2>2, GoesTurned
    <3>2. QED
      BY <1>0, <3>1
  <2>3. QED
    BY <1>1, <2>1, <2>2
<1>4. PICK u : /\ Turned(i, u) /\ u.sid = sid
               /\ u.phase = "stack" \/ (u.phase = "resumed" /\ u.asked = q)
  BY <1>3
<1>5. \A s : ~Spent(s)
  BY <1>1, <1>4, SpentOf
<1>6. /\ q \in DOMAIN calls /\ calls[q] <= Again
      /\ \A s \in DOMAIN sessions : s # sid => Question(s) # q
  BY <1>2, <1>5 DEF RowsOk, Questions
<1>7. IsSession(row) /\ row.plan = 0 /\ row.meta = sessions[sid].meta
  <2> DEFINE old == sessions[sid]
  <2>1. IsSession(old)
    BY <1>2 DEF RowsOk
  <2>2. row = [old EXCEPT !.plan = 0]
    BY <1>0
  <2>3. old.meta = sessions[sid].meta
    OBVIOUS
  <2> HIDE DEF old
  <2>4. QED
    BY <2>1, <2>2, <2>3 DEF IsSession, SessionFields
<1>8. row.meta.pending = 0
  BY <1>2, <1>7 DEF RowsOk
<1>9. calls \in Seq(Nat)
  BY <1>2 DEF RowsOk
<1>10. /\ RowsOk' /\ Questions' /\ Question(sid)' = 0 /\ DOMAIN sessions' = DOMAIN sessions
       /\ \A s \in DOMAIN sessions : s # sid => Question(s)' = Question(s)
  <2>1. calls' = calls /\ Len(calls) \in Nat
    BY <1>1, <1>9
  <2>2. 0 = IF engine = "loop" THEN row.meta.pending ELSE row.plan
    BY <1>7, <1>8
  <2>3. /\ UNCHANGED <<latest, engine, faults>>
        /\ calls' \in Seq(Nat) /\ Len(calls) <= Len(calls')
        /\ \A p \in DOMAIN calls : calls'[p] = calls[p]
        /\ \A p \in DOMAIN calls' : p \notin DOMAIN calls => calls'[p] = 0
    BY <1>1, <1>9, <2>1
  <2>4. \A s \in DOMAIN sessions : s # sid /\ Spent(s) => Spent(s)'
    BY <1>5
  <2>5. engine = "harness" => row.meta.pending = 0
    BY <1>8
  <2>6. QED
    BY <1>1, <1>2, <1>7, <2>2, <2>3, <2>4, <2>5, Answered
<1>11. Loose(q)'
  <2>1. calls' = calls /\ Again' = Again
    BY <1>1 DEF Again
  <2>2. \A s \in DOMAIN sessions' : Question(s)' # q
    BY <1>2, <1>6, <1>10
  <2>3. QED
    BY <1>6, <2>1, <2>2 DEF Loose
<1>12. TurnOk(u)'
  <2>1. u.sid \in DOMAIN sessions' /\ engine' = "harness"
    BY <1>1, <1>2, <1>4, <1>10
  <2>2. CASE u.phase = "stack"
    BY <2>1, <2>2 DEF TurnOk, Early, Seated, Asking, Resuming
  <2>3. CASE u.phase = "resumed" /\ u.asked = q
    <3>1. Loose(u.asked)'
      BY <1>11, <2>3 DEF Loose, Question, Again
    <3>2. QED
      BY <2>1, <2>3, <3>1 DEF TurnOk, Early, Seated, Asking, Resuming
  <2>4. QED
    BY <1>4, <2>2, <2>3
<1>13. QED
  BY <1>4, <1>10, <1>12, WorkDone

LEMMA WriteMetaConf ==
  ASSUME IInv, Conf, NEW i \in DOMAIN turns, Others(i), WriteMeta(i)
  PROVE  Conf'
<1>0. PICK sid, meta, row : /\ sid = turns[i].sid /\ meta = turns[i].row
                            /\ row = [sessions[sid] EXCEPT !.meta = meta]
  OBVIOUS
<1>1. /\ turns[i].phase \in {"saving", "asking", "summary", "clearing"}
      /\ sessions' = [sessions EXCEPT ![sid] = row]
      /\ UNCHANGED <<latest, calls, engine, faults>>
  BY <1>0 DEF WriteMeta, Is, config
<1>2. PICK u : /\ Turned(i, u) /\ u.sid = sid
               /\ u.phase \in {"stack", "think", "acknowledge", "reply"}
  BY <1>0, WriteMetaTurned
<1>3. RowsOk /\ Questions /\ TurnOk(turns[i]) /\ sid \in DOMAIN sessions /\ IsMeta(meta)
  BY <1>0, <1>1 DEF Conf, TurnOk, Seated, Asking
<1>4. IsSession(row) /\ row.meta = meta /\ row.plan = sessions[sid].plan
  <2> DEFINE old == sessions[sid]
  <2>1. IsSession(old)
    BY <1>3 DEF RowsOk
  <2>2. row = [old EXCEPT !.meta = meta] /\ old.plan = sessions[sid].plan
    BY <1>0
  <2> HIDE DEF old
  <2>3. QED
    BY <1>3, <2>1, <2>2 DEF IsSession, SessionFields
<1>5. CASE turns[i].phase \in {"saving", "summary"}
  <2>1. meta.pending = sessions[sid].meta.pending
    BY <1>0, <1>3, <1>5 DEF TurnOk
  <2>2. Unasked
    BY <1>1, <1>3, <1>4, <2>1, Rewritten
  <2>3. TurnOk(u)
    BY <1>2, <1>3, PlainOk
  <2>4. QED
    BY <1>2, <1>5, <2>2, <2>3, KeptDone
<1>6. CASE turns[i].phase \in {"asking", "clearing"}
  <2>0. PICK v : v = meta.pending
    OBVIOUS
  <2>1. /\ engine = "loop" /\ calls \in Seq(Nat)
        /\ v = 0 \/ Loose(v)
    BY <1>0, <1>3, <1>6, <2>0 DEF TurnOk, Asking, RowsOk
  <2>2. v = 0 \/ (/\ v \in DOMAIN calls /\ calls[v] <= Again
                  /\ \A s \in DOMAIN sessions : Question(s) # v)
    BY <2>1 DEF Loose
  <2>3. \A s : s # sid => ~Spent(s)
    BY <1>0, <1>2, SpentOf
  <2>4. v = IF engine = "loop" THEN row.meta.pending ELSE row.plan
    BY <1>4, <2>0, <2>1
  <2>5. calls' = calls /\ Len(calls) \in Nat
    BY <1>1, <2>1
  <2>6. /\ UNCHANGED <<latest, engine, faults>>
        /\ calls' \in Seq(Nat) /\ Len(calls) <= Len(calls')
        /\ \A p \in DOMAIN calls : calls'[p] = calls[p]
        /\ \A p \in DOMAIN calls' : p \notin DOMAIN calls => calls'[p] = 0
    BY <1>1, <2>1, <2>5
  <2>7. \A s \in DOMAIN sessions : s # sid /\ Spent(s) => Spent(s)'
    BY <2>3
  <2>8. /\ engine = "harness" => row.meta.pending = 0
        /\ v = 0 \/ (/\ v \in DOMAIN calls' /\ calls'[v] <= Again
                     /\ \A s \in DOMAIN sessions : Question(s) # v)
    BY <2>1, <2>2, <2>5
  <2>9. RowsOk' /\ Questions' /\ DOMAIN sessions' = DOMAIN sessions
    BY <1>1, <1>3, <1>4, <2>4, <2>6, <2>7, <2>8, Answered, ZenonT(30)
  <2>10. TurnOk(u)'
    BY <1>2, <1>3, <2>9 DEF TurnOk, Early, Seated, Asking, Resuming
  <2>11. QED
    BY <1>2, <2>9, <2>10, WorkDone
<1>7. QED
  BY <1>1, <1>5, <1>6

LEMMA AppendCalls ==
  ASSUME calls \in Seq(Nat), calls' = Append(calls, 0)
  PROVE  /\ calls' \in Seq(Nat) /\ Len(calls') = Len(calls) + 1 /\ Len(calls) \in Nat
         /\ \A q \in DOMAIN calls : q \in DOMAIN calls' /\ calls'[q] = calls[q]
         /\ \A q \in DOMAIN calls' : q \notin DOMAIN calls => calls'[q] = 0
         /\ Len(calls') \in DOMAIN calls' /\ calls'[Len(calls')] = 0
<1>1. calls' \in Seq(Nat) /\ Len(calls') = Len(calls) + 1 /\ Len(calls) \in Nat
  BY AppendProperties
<1>2. DOMAIN calls = 1 .. Len(calls) /\ DOMAIN calls' = 1 .. Len(calls) + 1
  BY <1>1
<1>3. /\ calls'[Len(calls) + 1] = 0
      /\ \A q \in 1 .. Len(calls) : calls'[q] = calls[q]
  BY AppendProperties
<1>4. QED
  BY <1>1, <1>2, <1>3

(* The tool loop has a new question, which no session waits for yet.        *)
LEMMA NewQuestion ==
  ASSUME RowsOk, Questions, calls' = Append(calls, 0),
         UNCHANGED <<sessions, latest, engine, faults>>, \A s \in DOMAIN sessions : ~Spent(s)
  PROVE  RowsOk' /\ Questions' /\ \A q : q = Len(calls') => Loose(q)'
<1>1. calls \in Seq(Nat) /\ Again' = Again /\ Again \in Nat
  BY DEF RowsOk, Again
<1>2. /\ calls' \in Seq(Nat) /\ Len(calls') = Len(calls) + 1 /\ Len(calls) \in Nat
      /\ \A q \in DOMAIN calls : q \in DOMAIN calls' /\ calls'[q] = calls[q]
      /\ \A q \in DOMAIN calls' : q \notin DOMAIN calls => calls'[q] = 0
      /\ Len(calls') \in DOMAIN calls' /\ calls'[Len(calls')] = 0
  BY <1>1, AppendCalls
<1>3. \A s \in DOMAIN sessions : Question(s)' = Question(s)
  BY DEF Question
<1>4. RowsOk'
  <2>1. \A s \in DOMAIN sessions' :
          /\ IsSession(sessions'[s]) /\ Question(s)' \in 0 .. Len(calls')
          /\ engine' = "harness" => sessions'[s].meta.pending = 0
    BY <1>2, <1>3 DEF RowsOk
  <2>2. /\ Len(sessions') \in Nat /\ DOMAIN sessions' = 1 .. Len(sessions')
        /\ sessions' = [s \in DOMAIN sessions' |-> sessions'[s]]
        /\ latest' \in 0 .. Len(sessions') /\ engine' \in {"loop", "harness"} /\ faults' \in Nat
    BY DEF RowsOk
  <2>3. QED
    BY <1>2, <2>1, <2>2 DEF RowsOk
<1>5. Questions'
  <2>1. \A q \in DOMAIN calls' : calls'[q] <= 1 + Again'
    <3>1. \A q \in DOMAIN calls : calls[q] <= 1 + Again
      BY DEF Questions
    <3>2. QED
      BY <1>1, <1>2, <3>1
  <2>2. ASSUME NEW s \in DOMAIN sessions, Question(s) # 0
        PROVE  calls'[Question(s)] <= Again'
    <3>1. Question(s) \in DOMAIN calls /\ calls[Question(s)] <= Again
      BY <1>1, <2>2 DEF RowsOk, Questions
    <3>2. QED
      BY <1>1, <1>2, <3>1
  <2>3. QED
    BY <1>3, <2>1, <2>2 DEF Questions
<1>6. ASSUME NEW q, q = Len(calls')
      PROVE  Loose(q)'
  <2>1. q \in DOMAIN calls' /\ calls'[q] <= Again'
    BY <1>1, <1>2, <1>6
  <2>2. \A s \in DOMAIN sessions' : Question(s)' # q
    BY <1>2, <1>3, <1>6 DEF RowsOk
  <2>3. QED
    BY <2>1, <2>2 DEF Loose
<1>7. QED
  BY <1>4, <1>5, <1>6

LEMMA AsksConf ==
  ASSUME IInv, Conf, NEW i \in DOMAIN turns, Others(i), Asks(i)
  PROVE  Conf'
<1>1. /\ turns[i].phase = "running" /\ calls' = Append(calls, 0)
      /\ UNCHANGED <<latest, engine, faults>>
  BY DEF Asks, Is, config
<1>2. PICK u : /\ Turned(i, u) /\ u.phase \in {"ask", "stack"} /\ u.sid = turns[i].sid
               /\ u.phase = "ask" => engine = "loop" /\ u.asked = Len(calls')
  BY AsksTurned
<1>3. RowsOk /\ Questions /\ turns[i].sid \in DOMAIN sessions /\ calls \in Seq(Nat)
  BY <1>1, TurnSeated DEF Conf, Seated, RowsOk
<1>4. \A s : ~Spent(s)
  BY <1>1, <1>2, SpentOf
<1>5. CASE engine = "loop"
  <2>1. sessions' = sessions
    BY <1>5 DEF Asks
  <2>2. RowsOk' /\ Questions' /\ \A q : q = Len(calls') => Loose(q)'
    BY <1>1, <1>3, <1>4, <2>1, NewQuestion
  <2>3. TurnOk(u)'
    <3>1. u.sid \in DOMAIN sessions' /\ engine' = "loop"
      BY <1>1, <1>2, <1>3, <1>5, <2>1
    <3>2. u.phase = "ask" => Loose(u.asked)'
      BY <1>2, <2>2
    <3>3. QED
      BY <1>2, <3>1, <3>2 DEF TurnOk, Early, Seated, Asking, Resuming
  <2>4. QED
    BY <1>2, <2>2, <2>3, WorkDone
<1>6. CASE engine = "harness"
  <2>0. PICK sid, q, row : /\ sid = turns[i].sid /\ q = Len(calls')
                           /\ row = [sessions[sid] EXCEPT !.plan = q]
    OBVIOUS
  <2>1. sessions' = [sessions EXCEPT ![sid] = row] /\ u.phase = "stack"
    BY <1>2, <1>6, <2>0 DEF Asks
  <2>2. IsSession(row) /\ row.plan = q /\ row.meta = sessions[sid].meta
    <3> DEFINE old == sessions[sid]
    <3>1. IsSession(old)
      BY <1>3, <2>0 DEF RowsOk
    <3>2. row = [old EXCEPT !.plan = q]
      BY <2>0
    <3>3. old.meta = sessions[sid].meta
      OBVIOUS
    <3> HIDE DEF old
    <3>4. QED
      BY <3>1, <3>2, <3>3 DEF IsSession, SessionFields
  <2>3. sid \in DOMAIN sessions /\ row.meta.pending = 0
    BY <1>3, <1>6, <2>0, <2>2 DEF RowsOk
  <2>4. /\ calls' \in Seq(Nat) /\ Len(calls') = Len(calls) + 1 /\ Len(calls) \in Nat
        /\ \A p \in DOMAIN calls : p \in DOMAIN calls' /\ calls'[p] = calls[p]
        /\ \A p \in DOMAIN calls' : p \notin DOMAIN calls => calls'[p] = 0
        /\ q \in DOMAIN calls' /\ calls'[q] = 0
    BY <1>1, <1>3, <2>0, AppendCalls
  <2>5. calls'[q] <= Again /\ Len(calls) <= Len(calls')
    BY <1>3, <2>4 DEF RowsOk, Again
  <2>6. \A s \in DOMAIN sessions : Question(s) # q
    BY <1>3, <2>0, <2>4 DEF RowsOk
  <2>7. q = IF engine = "loop" THEN row.meta.pending ELSE row.plan
    BY <1>6, <2>2
  <2>8. \A s \in DOMAIN sessions : s # sid /\ Spent(s) => Spent(s)'
    BY <1>4
  <2>9. RowsOk' /\ Questions' /\ DOMAIN sessions' = DOMAIN sessions
    <3>1. RowsOk /\ Questions /\ IsSession(row) /\ UNCHANGED <<latest, engine, faults>>
      BY <1>1, <1>3, <2>2
    <3>2. /\ calls' \in Seq(Nat) /\ Len(calls) <= Len(calls')
          /\ \A p \in DOMAIN calls : calls'[p] = calls[p]
          /\ \A p \in DOMAIN calls' : p \notin DOMAIN calls => calls'[p] = 0
      BY <2>4, <2>5
    <3>3. /\ engine = "harness" => row.meta.pending = 0
          /\ q = 0 \/ (/\ q \in DOMAIN calls' /\ calls'[q] <= Again
                       /\ \A s \in DOMAIN sessions : Question(s) # q)
      BY <2>3, <2>4, <2>5, <2>6
    <3>4. QED
      BY <2>1, <2>3, <2>7, <2>8, <3>1, <3>2, <3>3, Answered
  <2>10. TurnOk(u)'
    BY <1>2, <2>0, <2>1, <2>3, <2>9 DEF TurnOk, Early, Seated, Asking, Resuming
  <2>11. QED
    BY <1>2, <2>9, <2>10, WorkDone
<1>7. QED
  BY <1>3, <1>5, <1>6 DEF RowsOk

LEMMA RunPlanConf ==
  ASSUME IInv, Conf, NEW i \in DOMAIN turns, Others(i), RunPlan(i)
  PROVE  Conf'
<1>1. /\ turns[i].phase = "resumed" /\ Called(turns[i].asked)
      /\ UNCHANGED <<sessions, latest, engine, faults>>
  BY DEF RunPlan, Is, config
<1>2. PICK topic : turns' = [Replies(i, "tools") EXCEPT ![i].topic = topic]
  BY DEF RunPlan
<1>3. PICK u : Turned(i, u) /\ u.phase = "stack" /\ u.sid = turns[i].sid
  BY <1>2, ToolsTurned
<1>4. faults' \in {faults, faults + 1} /\ UNCHANGED <<sessions, latest, engine>>
  BY <1>1
<1>5. QED
  BY <1>1, <1>3, <1>4, ResumedConf

LEMMA EngineFailsConf ==
  ASSUME IInv, Conf, NEW i \in DOMAIN turns, Others(i), EngineFails(i)
  PROVE  Conf'
<1>1. /\ faults' = faults + 1 /\ Ends(i) /\ UNCHANGED <<sessions, latest, engine>>
      /\ \/ turns[i].phase = "running" /\ calls' = calls
         \/ turns[i].phase = "resumed" /\ Called(turns[i].asked)
  BY DEF EngineFails, Is, config
<1>2. PICK u : Turned(i, u) /\ u.phase = "ended"
  BY <1>1, EndsTurned
<1>3. faults' \in {faults, faults + 1}
  BY <1>1
<1>4. CASE turns[i].phase = "running" /\ calls' = calls
  <2>1. RowsOk
    BY DEF Conf
  <2>2. Unasked
    BY <1>1, <1>3, <1>4, <2>1, Untouched
  <2>3. TurnOk(u)
    BY <1>2, EarlyOk DEF Early
  <2>4. QED
    BY <1>2, <1>4, <2>2, <2>3, KeptDone
<1>5. CASE turns[i].phase = "resumed" /\ Called(turns[i].asked)
  BY <1>1, <1>2, <1>3, <1>5, ResumedConf
<1>6. QED
  BY <1>1, <1>4, <1>5
-----------------------------------------------------------------------------
(* What happens around the turns.                                          *)
LEMMA AllEnded ==
  ASSUME RowsOk', Questions', \A j \in DOMAIN turns' : turns'[j].phase = "ended"
  PROVE  Conf'
<1>1. ASSUME NEW j \in DOMAIN turns'
      PROVE  TurnOk(turns[j])'
  <2>1. turns'[j].phase = "ended"
    BY <1>1
  <2>2. QED
    BY <2>1 DEF TurnOk, Early, Seated, Asking, Resuming
<1>2. (\A j \in DOMAIN turns : TurnOk(turns[j]))'
  BY <1>1
<1>3. QED
  BY <1>2 DEF Conf

(* A restart lets the tool loop's questions be answered once more: the      *)
(* turn may have made the call and not cleared its question.               *)
LEMMA CrashConf ==
  ASSUME Conf, Crash
  PROVE  Conf'
<1>1. /\ UNCHANGED <<sessions, latest, calls, engine>> /\ faults' = faults + 1
      /\ \A j \in DOMAIN turns' : turns'[j].phase = "ended"
  BY DEF Crash, config, rows, Ended, Waiting
<1>2. RowsOk /\ Questions /\ faults \in Nat /\ engine \in {"loop", "harness"} /\ calls \in Seq(Nat)
  BY DEF Conf, RowsOk
<1>3. \A s : ~Spent(s)'
  BY <1>1 DEF Spent
<1>4. \A s \in DOMAIN sessions : Question(s)' = Question(s)
  BY <1>1 DEF Question
<1>5. RowsOk'
  <2>1. \A s \in DOMAIN sessions' :
          /\ IsSession(sessions'[s]) /\ Question(s)' \in 0 .. Len(calls')
          /\ engine' = "harness" => sessions'[s].meta.pending = 0
    BY <1>1, <1>2, <1>4 DEF RowsOk
  <2>2. /\ Len(sessions') \in Nat /\ DOMAIN sessions' = 1 .. Len(sessions')
        /\ sessions' = [s \in DOMAIN sessions' |-> sessions'[s]] /\ calls' \in Seq(Nat)
        /\ latest' \in 0 .. Len(sessions') /\ engine' \in {"loop", "harness"} /\ faults' \in Nat
    BY <1>1, <1>2 DEF RowsOk
  <2>3. QED
    BY <2>1, <2>2 DEF RowsOk
<1>6. \A s \in DOMAIN sessions : Question(s) # 0 => Question(s) \in DOMAIN calls
  BY <1>2 DEF RowsOk
<1>7. \A q \in DOMAIN calls : calls[q] \in Nat /\ calls[q] <= 1 + Again
  BY <1>2 DEF Questions
<1>8. CASE engine = "loop"
  <2>1. Again = faults /\ Again' = faults + 1
    BY <1>1, <1>8 DEF Again
  <2>2. \A q \in DOMAIN calls' : calls'[q] <= Again' /\ calls'[q] <= 1 + Again'
    BY <1>1, <1>2, <1>7, <2>1
  <2>3. Questions'
    BY <1>1, <1>2, <1>4, <1>6, <2>2 DEF Questions
  <2>4. QED
    BY <1>1, <1>5, <2>3, AllEnded
<1>9. CASE engine = "harness"
  <2>1. Again' = Again
    BY <1>1, <1>9 DEF Again
  <2>2. \A s : ~Spent(s)
    BY <1>9 DEF Conf, TurnOk, Spent, Asking
  <2>3. \A s \in DOMAIN sessions : Question(s) # 0 => calls[Question(s)] <= Again
    BY <1>2, <2>2 DEF Questions
  <2>4. Questions'
    BY <1>1, <1>2, <1>4, <1>7, <2>1, <2>3 DEF Questions
  <2>5. QED
    BY <1>1, <1>5, <2>4, AllEnded
<1>10. QED
  BY <1>2, <1>8, <1>9

LEMMA QuietConf ==
  ASSUME Conf, GoesQuiet
  PROVE  Conf'
<1>1. /\ \A j \in DOMAIN turns : turns[j].phase = "ended"
      /\ UNCHANGED <<turns, latest, calls, faults, engine>> /\ latest # 0
  BY DEF GoesQuiet
<1>2. RowsOk /\ Questions /\ latest \in DOMAIN sessions /\ faults \in Nat
  BY <1>1 DEF Conf, RowsOk
<1>3. \A s : ~Spent(s)
  BY <1>1 DEF Spent
<1>4. Unasked
  <2> DEFINE old == sessions[latest]
             now == sessions[latest].messages
             horizon == [old.meta EXCEPT !.horizon = now]
             idle == [old EXCEPT !.idle = TRUE]
             later == [old EXCEPT !.meta = horizon]
  <2>1. \/ sessions' = sessions
        \/ sessions' = [sessions EXCEPT ![latest] = idle]
        \/ sessions' = [sessions EXCEPT ![latest] = later]
    BY DEF GoesQuiet
  <2>2. IsSession(old) /\ IsMeta(old.meta)
    BY <1>2 DEF RowsOk, IsSession
  <2>3. old.meta.pending = sessions[latest].meta.pending /\ old.plan = sessions[latest].plan
    OBVIOUS
  <2> HIDE DEF old, now
  <2>4. IsSession(idle) /\ idle.meta = old.meta /\ idle.plan = old.plan
    BY <2>2 DEF IsSession, SessionFields
  <2>5. IsMeta(horizon) /\ horizon.pending = old.meta.pending
    <3> DEFINE m == old.meta
    <3>1. IsMeta(m)
      BY <2>2
    <3> HIDE DEF m
    <3>2. IsMeta([m EXCEPT !.horizon = now]) /\ [m EXCEPT !.horizon = now].pending = m.pending
      BY <3>1 DEF IsMeta, MetaFields
    <3>3. QED
      BY <3>2 DEF m
  <2> HIDE DEF horizon, idle
  <2>6. IsSession(later) /\ later.meta = horizon /\ later.plan = old.plan
    BY <2>2, <2>5 DEF IsSession, SessionFields
  <2> HIDE DEF later
  <2>7. CASE sessions' = sessions
    BY <1>1, <1>2, <2>7, Untouched
  <2>8. CASE sessions' = [sessions EXCEPT ![latest] = idle]
    BY <1>1, <1>2, <2>3, <2>4, <2>8, Rewritten
  <2>9. CASE sessions' = [sessions EXCEPT ![latest] = later]
    BY <1>1, <1>2, <2>3, <2>5, <2>6, <2>9, Rewritten
  <2>10. QED
    BY <2>1, <2>7, <2>8, <2>9
<1>5. RowsOk' /\ Questions'
  BY <1>2, <1>3, <1>4, Keeps
<1>6. QED
  BY <1>1, <1>5, AllEnded

LEMMA TurnAdded ==
  ASSUME IInv, NEW t, turns' = Append(turns, t)
  PROVE  /\ DOMAIN turns = 1 .. Len(turns) /\ Len(turns) \in Nat
         /\ DOMAIN turns' = 1 .. Len(turns) + 1 /\ turns'[Len(turns) + 1] = t
         /\ \A j \in DOMAIN turns : turns'[j] = turns[j]
<1> DEFINE T == {turns[j] : j \in DOMAIN turns} \cup {t}
<1>1. turns \in Seq(T) /\ t \in T /\ DOMAIN turns = 1 .. Len(turns) /\ Len(turns) \in Nat
  BY DEF IInv, ChainTypeOK
<1> HIDE DEF T
<1>2. turns' \in Seq(T) /\ Len(turns') = Len(turns) + 1
  BY <1>1, AppendProperties
<1>3. turns'[Len(turns) + 1] = t /\ \A j \in DOMAIN turns : turns'[j] = turns[j]
  BY <1>1, AppendProperties
<1>4. QED
  BY <1>1, <1>2, <1>3

(* The rows are as they were; turns have come, or begun, or are as they     *)
(* were.                                                                   *)
LEMMA RowsKept ==
  ASSUME Conf, UNCHANGED <<sessions, latest, calls, engine, faults>>,
         \A j \in DOMAIN turns' :
           turns'[j].phase \in Early \/ (j \in DOMAIN turns /\ turns'[j] = turns[j]),
         \A j \in DOMAIN turns : turns[j].phase \in {"clear", "clearing"} =>
           j \in DOMAIN turns' /\ turns'[j] = turns[j]
  PROVE  Conf'
<1>1. RowsOk /\ Questions /\ faults' \in {faults, faults + 1}
  BY DEF Conf
<1>2. \A s : Spent(s) => Spent(s)'
  BY DEF Spent
<1>3. Unasked
  BY <1>1, Untouched
<1>4. RowsOk' /\ Questions'
  BY <1>1, <1>2, <1>3, Keeps
<1>5. ASSUME NEW j \in DOMAIN turns'
      PROVE  TurnOk(turns[j])'
  <2>1. CASE j \in DOMAIN turns /\ turns'[j] = turns[j]
    <3>1. TurnOk(turns[j]) /\ turns'[j] = turns[j]
      BY <2>1 DEF Conf
    <3>2. QED
      BY <3>1 DEF TurnOk, Loose, Question, Again, IsMeta
  <2>2. CASE turns'[j].phase \in Early
    BY <2>2 DEF TurnOk, Early, Seated, Asking, Resuming
  <2>3. QED
    BY <2>1, <2>2, <1>5
<1>6. (\A j \in DOMAIN turns : TurnOk(turns[j]))'
  BY <1>5
<1>7. QED
  BY <1>4, <1>6 DEF Conf

LEMMA BeginConf ==
  ASSUME IInv, Conf, NEW i \in DOMAIN turns, Begin(i)
  PROVE  Conf'
<1>1. turns[i].phase = "waiting" /\ UNCHANGED <<sessions, latest, calls, engine, faults>>
  BY DEF Begin, Is, config, rows
<1>2. PICK u : Turned(i, u) /\ u.phase \in {"admit", "customer"}
  BY BeginTurned
<1>3. /\ DOMAIN turns' = DOMAIN turns /\ turns'[i] = u
      /\ \A j \in DOMAIN turns : j # i => turns'[j] = turns[j]
  BY <1>2 DEF Turned, IInv, ChainTypeOK
<1>4. u.phase \in Early
  BY <1>2 DEF Early
<1>5. \A j \in DOMAIN turns' :
        turns'[j].phase \in Early \/ (j \in DOMAIN turns /\ turns'[j] = turns[j])
  BY <1>3, <1>4
<1>6. \A j \in DOMAIN turns : turns[j].phase \in {"clear", "clearing"} =>
        j \in DOMAIN turns' /\ turns'[j] = turns[j]
  BY <1>1, <1>3
<1>7. QED
  BY <1>1, <1>5, <1>6, RowsKept

LEMMA ArriveConf ==
  ASSUME IInv, Conf, NEW ch, Arrive(ch)
  PROVE  Conf'
<1> DEFINE t == Waiting(ch, chain[ch])
<1>1. turns' = Append(turns, t) /\ UNCHANGED <<sessions, latest, calls, engine, faults>>
  BY DEF Arrive, config, rows
<1>2. t.phase \in Early
  BY DEF Waiting, Early
<1> HIDE DEF t
<1>3. /\ DOMAIN turns = 1 .. Len(turns) /\ Len(turns) \in Nat
      /\ DOMAIN turns' = 1 .. Len(turns) + 1 /\ turns'[Len(turns) + 1] = t
      /\ \A j \in DOMAIN turns : turns'[j] = turns[j]
  BY <1>1, TurnAdded
<1>4. \A j \in DOMAIN turns' :
        turns'[j].phase \in Early \/ (j \in DOMAIN turns /\ turns'[j] = turns[j])
  BY <1>2, <1>3
<1>5. \A j \in DOMAIN turns : j \in DOMAIN turns' /\ turns'[j] = turns[j]
  BY <1>3
<1>6. QED
  BY <1>1, <1>4, <1>5, RowsKept

LEMMA ChannelsFixed ==
  ASSUME [Next]_vars
  PROVE  channels' = channels
<1>1. ASSUME NEW i, Step(i) \/ EngineFails(i)
      PROVE  channels' = channels
  <2>1. CASE Begin(i) \/ CreateCustomer(i) \/ Admit(i) \/ \E word \in Words : Persist(i, word)
    BY <2>1 DEF Begin, CreateCustomer, Admit, Persist, config
  <2>2. CASE Invoke(i) \/ ReadMeta(i) \/ WriteMeta(i) \/ Lookup(i)
    BY <2>2 DEF Invoke, ReadMeta, WriteMeta, Lookup, config
  <2>3. CASE EngineStarts(i) \/ TakePlan(i) \/ RunPlan(i) \/ Answers(i) \/ Asks(i)
    BY <2>3 DEF EngineStarts, TakePlan, RunPlan, Answers, Asks, config
  <2>4. CASE (\E topic \in Topics : Calls(i, topic)) \/ Acknowledge(i) \/ Reply(i) \/ EngineFails(i)
    BY <2>4 DEF Calls, Acknowledge, Reply, EngineFails, config
  <2>5. QED
    BY <1>1, <2>1, <2>2, <2>3, <2>4 DEF Step
<1>2. QED
  BY <1>1 DEF Next, Arrive, MinutePasses, GoesQuiet, Crash, vars, config
-----------------------------------------------------------------------------
LEMMA ConfStarts ==
  ASSUME Init
  PROVE  Conf
<1>1. /\ turns = <<>> /\ calls = <<>> /\ faults = 0 /\ engine \in {"loop", "harness"}
      /\ \/ sessions = <<>> /\ latest = 0
         \/ \E stack : sessions = <<NewSession(stack)>> /\ latest = 1
  BY TurnsConstants DEF Init
<1>2. DOMAIN turns = {} /\ DOMAIN calls = {} /\ calls \in Seq(Nat) /\ Len(calls) = 0
  BY <1>1
<1>3. /\ Len(sessions) \in Nat /\ DOMAIN sessions = 1 .. Len(sessions)
      /\ sessions = [s \in DOMAIN sessions |-> sessions[s]]
      /\ latest \in 0 .. Len(sessions)
      /\ \A s \in DOMAIN sessions :
           IsSession(sessions[s]) /\ sessions[s].meta.pending = 0 /\ sessions[s].plan = 0
  <2>1. CASE sessions = <<>> /\ latest = 0
    BY <2>1
  <2>2. ASSUME NEW stack, sessions = <<NewSession(stack)>>, latest = 1
        PROVE  /\ Len(sessions) \in Nat /\ DOMAIN sessions = 1 .. Len(sessions)
               /\ sessions = [s \in DOMAIN sessions |-> sessions[s]]
               /\ latest \in 0 .. Len(sessions)
               /\ \A s \in DOMAIN sessions :
                    IsSession(sessions[s]) /\ sessions[s].meta.pending = 0 /\ sessions[s].plan = 0
    <3> DEFINE new == NewSession(stack)
    <3>1. IsSession(new) /\ new.meta.pending = 0 /\ new.plan = 0
      BY DEF NewSession, IsSession, SessionFields, IsMeta, MetaFields
    <3>2. sessions = <<new>>
      BY <2>2
    <3> HIDE DEF new
    <3>3. QED
      BY <2>2, <3>1, <3>2
  <2>3. QED
    BY <1>1, <2>1, <2>2
<1>4. \A s \in DOMAIN sessions : Question(s) = 0
  BY <1>3 DEF Question
<1>5. RowsOk
  BY <1>1, <1>2, <1>3, <1>4 DEF RowsOk
<1>6. Questions
  BY <1>2, <1>4 DEF Questions
<1>7. QED
  BY <1>2, <1>5, <1>6 DEF Conf

LEMMA StepConf ==
  ASSUME IInv, Conf, IsFiniteSet(channels), Cardinality(channels) = 1,
         NEW i \in DOMAIN turns, Step(i) \/ EngineFails(i)
  PROVE  Conf'
<1>1. CASE Begin(i)
  BY <1>1, BeginConf
<1>2. CASE ~Begin(i)
  <2>1. Running(i)
    BY <1>2 DEF Step, CreateCustomer, Admit, Persist, Invoke, ReadMeta, WriteMeta, Lookup,
                EngineStarts, Thinks, TakePlan, RunPlan, Answers, Calls, Asks, Acknowledge, Reply,
                EngineFails, Is, Running
  <2>2. Others(i)
    BY <2>1, OthersRest
  <2>3. CASE CreateCustomer(i) \/ Admit(i) \/ Lookup(i) \/ EngineStarts(i) \/ ReadMeta(i)
    BY <2>2, <2>3, CustomerConf, AdmitConf, LookupConf, EngineStartsConf, ReadMetaConf
  <2>4. CASE \E word \in Words : Persist(i, word)
    BY <2>2, <2>4, PersistConf
  <2>5. CASE Invoke(i) \/ WriteMeta(i) \/ TakePlan(i) \/ RunPlan(i) \/ Asks(i) \/ EngineFails(i)
    BY <2>2, <2>5, InvokeConf, WriteMetaConf, TakePlanConf, RunPlanConf, AsksConf, EngineFailsConf
  <2>6. CASE Answers(i) \/ \E topic \in Topics : Calls(i, topic)
    BY <2>2, <2>6, AnswersConf
  <2>7. CASE Acknowledge(i) \/ Reply(i)
    BY <2>2, <2>7, StoredConf
  <2>8. QED
    BY <1>2, <2>3, <2>4, <2>5, <2>6, <2>7 DEF Step
<1>3. QED
  BY <1>1, <1>2

LEMMA ConfStep ==
  ASSUME IInv, Conf, IsFiniteSet(channels), Cardinality(channels) = 1, [Next]_vars
  PROVE  Conf'
<1>1. ASSUME NEW i \in DOMAIN turns, Step(i) \/ EngineFails(i)
      PROVE  Conf'
  BY <1>1, StepConf
<1>2. CASE MinutePasses \/ UNCHANGED vars
  <2>1. UNCHANGED <<turns, sessions, latest, calls, engine, faults>>
    BY <1>2 DEF MinutePasses, vars, config, rows
  <2>2. QED
    BY <2>1, RowsKept
<1>3. CASE GoesQuiet
  BY <1>3, QuietConf
<1>4. CASE Crash
  BY <1>4, CrashConf
<1>5. ASSUME NEW ch \in channels, Arrive(ch)
      PROVE  Conf'
  BY <1>5, ArriveConf
<1>6. QED
  BY <1>1, <1>2, <1>3, <1>4, <1>5 DEF Next

(* A call the customer was asked about is made once at most, if one channel *)
(* is in use: the turn that makes it (tool-loop.ts clears the confirmation  *)
(* after the call, executor.ts takes the row away before) is alone.  Each   *)
(* restart of the server can have the tool loop's call made once more.      *)
THEOREM Confirmed == Spec => []ConfirmedOnce
<1> DEFINE Inv == IInv /\ RateInv /\ (Cardinality(channels) = 1 => Conf)
<1>1. Init => Inv
  BY Started, RateStarts, ConfStarts
<1>2. Inv /\ [Next]_vars => Inv'
  <2>1. SUFFICES ASSUME Inv, [Next]_vars
                 PROVE  Inv'
    OBVIOUS
  <2>2. IInv' /\ RateInv'
    BY <2>1, IInvStep, RateStep
  <2>3. channels' = channels
    BY <2>1, ChannelsFixed
  <2>4. IsFiniteSet(channels)
    BY <2>1 DEF RateInv
  <2>5. Cardinality(channels) = 1 => Conf'
    BY <2>1, <2>4, ConfStep
  <2>6. QED
    BY <2>2, <2>3, <2>5
<1>3. Inv => ConfirmedOnce
  BY DEF Conf, Questions, ConfirmedOnce, Again
<1>4. QED
  BY <1>1, <1>2, <1>3, PTL DEF Spec
-----------------------------------------------------------------------------
(* The intent stack.  A stack whose frames are in the order of their age:   *)
(* none is of a later moment than now, nor than the frame above it.        *)
Aged(stack, now) ==
  /\ Len(stack) \in Nat /\ stack = [n \in 1 .. Len(stack) |-> stack[n]]
  /\ \A n \in 1 .. Len(stack) :
       "at" \in DOMAIN stack[n] /\ stack[n].at \in Int /\ stack[n].at <= now
  /\ \A m, n \in 1 .. Len(stack) : m < n => stack[m].at >= stack[n].at

(* The numbers of a finite set in their order: the k-th exists and is less  *)
(* than those that come after it.                                          *)
LEMMA NthOf ==
  ASSUME NEW S, IsFiniteSet(S), S \subseteq Nat
  PROVE  /\ Cardinality(S) \in Nat
         /\ \A k \in 1 .. Cardinality(S) : Nth(S, k) \in S
         /\ \A j, k \in 1 .. Cardinality(S) : j < k => Nth(S, j) < Nth(S, k)
<1> DEFINE Upto(n) == {m \in S : m <= n}
           f == [n \in S |-> Cardinality(Upto(n))]
           T == 1 .. Cardinality(S)
<1>1. Cardinality(S) \in Nat
  BY FS_CardinalityType
<1>2. ASSUME NEW n \in S
      PROVE  IsFiniteSet(Upto(n)) /\ Cardinality(Upto(n)) \in T
  <2>1. Upto(n) \in SUBSET S /\ n \in Upto(n)
    OBVIOUS
  <2>2. IsFiniteSet(Upto(n)) /\ Cardinality(Upto(n)) <= Cardinality(S)
    BY <2>1, FS_Subset
  <2>3. Cardinality(Upto(n)) \in Nat /\ Cardinality(Upto(n)) # 0
    <3>1. Cardinality(Upto(n)) \in Nat
      BY <2>2, FS_CardinalityType
    <3>2. Cardinality(Upto(n)) = 0 <=> Upto(n) = {}
      BY <2>2, FS_EmptySet
    <3>3. QED
      BY <2>1, <3>1, <3>2
  <2>4. QED
    BY <1>1, <2>2, <2>3
<1>3. ASSUME NEW m \in S, NEW n \in S, m < n
      PROVE  Cardinality(Upto(m)) < Cardinality(Upto(n))
  <2>1. Upto(m) \in SUBSET Upto(n) /\ n \in Upto(n) /\ n \notin Upto(m)
    <3>1. \A x \in S : x <= m => x <= n
      BY <1>3
    <3>2. \A x \in Upto(m) : x \in Upto(n)
      BY <3>1
    <3>3. n \in Upto(n) /\ n \notin Upto(m)
      BY <1>3
    <3>4. QED
      BY <3>2, <3>3
  <2>2. /\ IsFiniteSet(Upto(n)) /\ Cardinality(Upto(m)) \in Nat /\ Cardinality(Upto(n)) \in Nat
    BY <1>1, <1>2
  <2>3. /\ Cardinality(Upto(m)) <= Cardinality(Upto(n))
        /\ Cardinality(Upto(n)) = Cardinality(Upto(m)) => Upto(n) = Upto(m)
    BY <2>1, <2>2, FS_Subset
  <2>4. QED
    BY <2>1, <2>2, <2>3
<1>4. f \in Injection(S, T)
  <2>1. f \in [S -> T]
    BY <1>2
  <2>2. ASSUME NEW a \in S, NEW b \in S, f[a] = f[b]
        PROVE  a = b
    <3>1. Cardinality(Upto(a)) = Cardinality(Upto(b))
          /\ Cardinality(Upto(a)) \in Nat /\ Cardinality(Upto(b)) \in Nat
      BY <1>1, <1>2, <2>2
    <3>2. ~(a < b) /\ ~(b < a)
      BY <1>3, <3>1
    <3>3. QED
      BY <3>2
  <2>3. QED
    BY <2>1, <2>2, Fun_IsInj
<1>5. f \in Surjection(S, T)
  <2>1. IsFiniteSet(T) /\ Cardinality(T) = Cardinality(S)
    BY <1>1, FS_Interval
  <2>2. QED
    BY <1>4, <2>1, FS_Injection
<1>6. \A k \in T : \E n \in S : Cardinality(Upto(n)) = k
  <2>1. \A k \in T : \E n \in S : f[n] = k
    BY <1>5 DEF Surjection
  <2>2. QED
    BY <2>1
<1>7. \A k \in T : Nth(S, k) \in S /\ Cardinality(Upto(Nth(S, k))) = k
  BY <1>6 DEF Nth
<1>8. ASSUME NEW j \in T, NEW k \in T, j < k
      PROVE  Nth(S, j) < Nth(S, k)
  <2>1. PICK x \in S, y \in S : /\ x = Nth(S, j) /\ y = Nth(S, k)
                                /\ Cardinality(Upto(x)) = j /\ Cardinality(Upto(y)) = k
    BY <1>7
  <2>2. ~(y < x) /\ x # y
    BY <1>3, <1>8, <2>1
  <2>3. QED
    BY <2>1, <2>2
<1>9. QED
  BY <1>1, <1>7, <1>8

(* What expires leaves the rest in its order.                              *)
LEMMA ExpiredAged ==
  ASSUME NEW stack, NEW now, Aged(stack, now), NEW horizon
  PROVE  Aged(Expired(stack, horizon), now)
<1> DEFINE kept == {n \in DOMAIN stack : n <= SpineDepth \/ stack[n].at > horizon}
           size == Cardinality(kept)
           left == [k \in 1 .. size |-> stack[Nth(kept, k)]]
<1>1. Len(stack) \in Nat /\ DOMAIN stack = 1 .. Len(stack) /\ kept \subseteq 1 .. Len(stack)
  BY DEF Aged
<1>2. IsFiniteSet(kept) /\ kept \subseteq Nat
  <2>1. IsFiniteSet(1 .. Len(stack)) /\ kept \in SUBSET (1 .. Len(stack))
    BY <1>1, FS_Interval
  <2>2. QED
    BY <2>1, FS_Subset
<1>3. Expired(stack, horizon) = left
  BY DEF Expired
<1> HIDE DEF kept
<1>4. /\ size \in Nat /\ \A k \in 1 .. size : Nth(kept, k) \in kept
      /\ \A j, k \in 1 .. size : j < k => Nth(kept, j) < Nth(kept, k)
  BY <1>2, NthOf
<1> HIDE DEF size
<1>5. /\ Len(left) = size /\ left = [k \in 1 .. Len(left) |-> left[k]]
      /\ \A k \in 1 .. size : left[k] = stack[Nth(kept, k)]
  BY <1>4
<1> HIDE DEF left
<1>6. \A k \in 1 .. size : Nth(kept, k) \in 1 .. Len(stack)
  BY <1>1, <1>4
<1>7. \A k \in 1 .. size : "at" \in DOMAIN left[k] /\ left[k].at \in Int /\ left[k].at <= now
  BY <1>5, <1>6 DEF Aged
<1>8. \A j, k \in 1 .. size : j < k => left[j].at >= left[k].at
  BY <1>4, <1>5, <1>6 DEF Aged
<1>9. Aged(left, now)
  BY <1>4, <1>5, <1>7, <1>8 DEF Aged
<1>10. QED
  BY <1>3, <1>9

LEMMA AgedLater ==
  ASSUME NEW stack, NEW now \in Int, Aged(stack, now), NEW later \in Int, now <= later
  PROVE  Aged(stack, later)
BY DEF Aged

LEMMA EmptyAged ==
  ASSUME NEW now
  PROVE  Aged(<<>>, now)
BY DEF Aged

(* A new topic is of this moment.                                          *)
LEMMA PushAged ==
  ASSUME NEW now \in Int, NEW stack, Aged(stack, now), NEW label
  PROVE  Aged(Push(stack, label, now), now)
<1> DEFINE frame == [label |-> label, at |-> now]
           longer == <<frame>> \o stack
           depth == IF Len(longer) < MaxDepth THEN Len(longer) ELSE MaxDepth
           cut == SubSeq(longer, 1, depth)
           T == {stack[n] : n \in 1 .. Len(stack)} \cup {frame}
<1>1. frame.at = now /\ "at" \in DOMAIN frame
  OBVIOUS
<1>2. Push(stack, label, now) = cut
  BY DEF Push
<1> HIDE DEF frame
<1>3. stack \in Seq(T) /\ <<frame>> \in Seq(T) /\ Len(stack) \in Nat
  BY DEF Aged
<1> HIDE DEF T
<1>4. /\ longer \in Seq(T) /\ Len(longer) = Len(stack) + 1
      /\ \A n \in 1 .. Len(stack) + 1 : longer[n] = IF n = 1 THEN frame ELSE stack[n - 1]
  BY <1>3, ConcatProperties
<1> HIDE DEF longer
<1>5. depth \in Nat /\ depth <= Len(longer) /\ Len(longer) \in Nat
  BY <1>3, <1>4, TurnsConstants
<1> HIDE DEF depth
<1>6. \A n \in 1 .. depth : longer[n] \in T
  BY <1>4, <1>5
<1>7. /\ cut \in Seq(T) /\ Len(cut) = depth
      /\ \A n \in 1 .. depth : cut[n] = longer[n]
  BY <1>5, <1>6, SubSeqProperties
<1> HIDE DEF cut
<1>8. \A n \in 1 .. depth : \/ n = 1 /\ cut[n] = frame
                            \/ n - 1 \in 1 .. Len(stack) /\ cut[n] = stack[n - 1]
  BY <1>3, <1>4, <1>5, <1>7
<1>9. \A n \in 1 .. depth : "at" \in DOMAIN cut[n] /\ cut[n].at \in Int /\ cut[n].at <= now
  BY <1>1, <1>8 DEF Aged
<1>10. ASSUME NEW m \in 1 .. depth, NEW n \in 1 .. depth, m < n
       PROVE  cut[m].at >= cut[n].at
  <2>1. n - 1 \in 1 .. Len(stack) /\ cut[n] = stack[n - 1]
    BY <1>8, <1>10
  <2>2. CASE m = 1
    BY <1>1, <1>8, <1>9, <2>2
  <2>3. CASE m # 1
    <3>1. m - 1 \in 1 .. Len(stack) /\ cut[m] = stack[m - 1] /\ m - 1 < n - 1
      BY <1>8, <1>10, <2>3
    <3>2. QED
      BY <2>1, <3>1 DEF Aged
  <2>4. QED
    BY <2>2, <2>3
<1>11. cut = [n \in 1 .. Len(cut) |-> cut[n]]
  BY <1>7
<1>12. QED
  BY <1>2, <1>5, <1>7, <1>9, <1>10, <1>11 DEF Aged

LEMMA TailAged ==
  ASSUME NEW now, NEW stack, Aged(stack, now), stack # <<>>
  PROVE  Aged(Tail(stack), now)
<1> DEFINE T == {stack[n] : n \in 1 .. Len(stack)}
           rest == Tail(stack)
<1>1. stack \in Seq(T) /\ Len(stack) \in Nat
  BY DEF Aged
<1> HIDE DEF T
<1>2. /\ rest \in Seq(T) /\ Len(rest) = Len(stack) - 1
      /\ \A n \in 1 .. Len(rest) : rest[n] = stack[n + 1]
  BY <1>1, HeadTailProperties
<1> HIDE DEF rest
<1>3. Len(rest) \in Nat /\ rest = [n \in 1 .. Len(rest) |-> rest[n]]
  BY <1>2
<1>4. \A n \in 1 .. Len(rest) : n + 1 \in 1 .. Len(stack)
  BY <1>1, <1>2, <1>3
<1>5. \A n \in 1 .. Len(rest) : "at" \in DOMAIN rest[n] /\ rest[n].at \in Int /\ rest[n].at <= now
  BY <1>2, <1>4 DEF Aged
<1>6. ASSUME NEW m \in 1 .. Len(rest), NEW n \in 1 .. Len(rest), m < n
      PROVE  rest[m].at >= rest[n].at
  <2>1. m + 1 \in 1 .. Len(stack) /\ n + 1 \in 1 .. Len(stack) /\ m + 1 < n + 1
    BY <1>3, <1>4, <1>6
  <2>2. QED
    BY <1>2, <2>1 DEF Aged
<1>7. QED
  BY <1>3, <1>5, <1>6 DEF Aged, rest

(* The topic that goes on is of this moment.                               *)
LEMMA RefreshAged ==
  ASSUME NEW now \in Int, NEW stack, Aged(stack, now), stack # <<>>
  PROVE  Aged(RefreshTop(stack, now), now)
<1> DEFINE frame == [stack[1] EXCEPT !.at = now]
           new == [stack EXCEPT ![1] = frame]
<1>1. Len(stack) \in Nat /\ 1 \in 1 .. Len(stack) /\ DOMAIN stack = 1 .. Len(stack)
  BY DEF Aged
<1>2. frame.at = now /\ "at" \in DOMAIN frame
  <2>1. "at" \in DOMAIN stack[1]
    BY <1>1 DEF Aged
  <2>2. QED
    BY <2>1
<1>3. RefreshTop(stack, now) = new
  BY DEF RefreshTop
<1> HIDE DEF frame
<1>4. /\ Len(new) = Len(stack) /\ new[1] = frame /\ new = [n \in 1 .. Len(new) |-> new[n]]
      /\ \A n \in 1 .. Len(stack) : n # 1 => new[n] = stack[n]
  <2>1. /\ DOMAIN new = DOMAIN stack /\ new[1] = frame
        /\ \A n \in DOMAIN stack : n # 1 => new[n] = stack[n]
    BY <1>1
  <2>2. Len(new) = Len(stack)
    BY <1>1, <2>1
  <2>3. new = [n \in DOMAIN stack |-> new[n]]
    BY <1>1
  <2>4. QED
    BY <1>1, <2>1, <2>2, <2>3
<1> HIDE DEF new
<1>5. \A n \in 1 .. Len(new) : "at" \in DOMAIN new[n] /\ new[n].at \in Int /\ new[n].at <= now
  BY <1>2, <1>4 DEF Aged
<1>6. \A m, n \in 1 .. Len(new) : m < n => new[m].at >= new[n].at
  <2>1. \A n \in 1 .. Len(new) : n # 1 => new[n] = stack[n]
    BY <1>4
  <2>2. \A m, n \in 1 .. Len(new) : m < n => n # 1
    BY <1>1, <1>4
  <2>3. QED
    BY <1>2, <1>4, <1>5, <2>1, <2>2 DEF Aged
<1>7. QED
  BY <1>1, <1>3, <1>4, <1>5, <1>6 DEF Aged

LEMMA UpdatedAged ==
  ASSUME NEW now \in Int, NEW stack, Aged(stack, now), NEW word, NEW topic
  PROVE  Aged(UpdatedStack(stack, word, topic, now), now)
<1> DEFINE label == Detected(word, topic)
           top == IF label = None THEN "general" ELSE label
           updated == UpdatedStack(stack, word, topic, now)
<1> HIDE DEF label
<1>1. \/ stack # <<>> /\ updated = Tail(stack)
      \/ updated = Push(stack, top, now)
      \/ updated = Push(stack, label, now)
      \/ stack # <<>> /\ updated = RefreshTop(stack, now)
  BY DEF UpdatedStack, label
<1>2. QED
  BY <1>1, TailAged, PushAged, RefreshAged
-----------------------------------------------------------------------------
(* The stacks of the sessions, of the turns at work and of the metadata     *)
(* they are about to write are in the order of their age.  What a turn has  *)
(* read before has no frame of a later moment than the session's, which    *)
(* only goes on.                                                           *)
Saving == {"saving", "asking", "summary", "clearing"}

RowAges(s) == IsSession(s) /\ s.messages \in Nat /\ Aged(s.meta.stack, s.messages)

RowsAge ==
  /\ Len(sessions) \in Nat /\ DOMAIN sessions = 1 .. Len(sessions)
  /\ sessions = [s \in DOMAIN sessions |-> sessions[s]]
  /\ latest \in 0 .. Len(sessions)
  /\ \A s \in DOMAIN sessions : RowAges(sessions[s])

TurnAges(t) ==
  /\ t.phase \in Early \cup {"persist"} \cup Seated
  /\ t.phase = "persist" => t.sid \in 0 .. Len(sessions)
  /\ t.phase \in Seated => t.sid \in DOMAIN sessions /\ Aged(t.stack, sessions[t.sid].messages)
  /\ t.phase \in Saving => IsMeta(t.row) /\ Aged(t.row.stack, sessions[t.sid].messages)

Aging == RowsAge /\ \A i \in DOMAIN turns : TurnAges(turns[i])

(* Sessions come and go on.                                                *)
Grown ==
  /\ RowsAge' /\ Len(sessions) <= Len(sessions')
  /\ \A s \in DOMAIN sessions : sessions[s].messages <= sessions'[s].messages

LEMMA AgesOn ==
  ASSUME RowsAge, Grown
  PROVE  \A t : TurnAges(t) => TurnAges(t)'
<1>1. \A s \in DOMAIN sessions :
        /\ s \in DOMAIN sessions' /\ sessions[s].messages <= sessions'[s].messages
        /\ sessions[s].messages \in Int /\ sessions'[s].messages \in Int
  BY DEF RowsAge, Grown, RowAges
<1>2. 0 .. Len(sessions) \subseteq 0 .. Len(sessions')
  BY DEF RowsAge, Grown
<1>3. ASSUME NEW s \in DOMAIN sessions, NEW stack, Aged(stack, sessions[s].messages)
      PROVE  Aged(stack, sessions'[s].messages)
  <2>1. PICK now, later : now = sessions[s].messages /\ later = sessions'[s].messages
    OBVIOUS
  <2>2. now \in Int /\ later \in Int /\ now <= later /\ Aged(stack, now)
    BY <1>1, <1>3, <2>1
  <2>3. QED
    BY <2>1, <2>2, AgedLater
<1>4. ASSUME NEW t, TurnAges(t)
      PROVE  TurnAges(t)'
  <2>1. t.phase \in Saving => t.phase \in Seated
    BY DEF Saving, Seated, Asking
  <2>2. QED
    BY <1>1, <1>2, <1>3, <1>4, <2>1 DEF TurnAges
<1>5. QED
  BY <1>4

(* Turns have come, begun or ended, or are as they were.                   *)
LEMMA AgesKept ==
  ASSUME Aging, Grown,
         \A j \in DOMAIN turns' :
           turns'[j].phase \in Early \/ (j \in DOMAIN turns /\ turns'[j] = turns[j])
  PROVE  Aging'
<1>1. \A t : TurnAges(t) => TurnAges(t)'
  BY AgesOn DEF Aging
<1>2. ASSUME NEW j \in DOMAIN turns'
      PROVE  TurnAges(turns[j])'
  <2>1. PICK t : t = turns'[j]
    OBVIOUS
  <2>2. CASE t.phase \in Early
    <3>1. TurnAges(t)'
      BY <2>2 DEF TurnAges, Early, Saving, Seated, Asking, Resuming
    <3>2. QED
      BY <2>1, <3>1 DEF TurnAges
  <2>3. CASE j \in DOMAIN turns /\ t = turns[j]
    <3>1. TurnAges(t)'
      BY <1>1, <2>3 DEF Aging
    <3>2. QED
      BY <2>1, <3>1 DEF TurnAges
  <2>4. QED
    BY <1>2, <2>1, <2>2, <2>3
<1>3. (\A j \in DOMAIN turns : TurnAges(turns[j]))'
  BY <1>2
<1>4. QED
  BY <1>3 DEF Aging, Grown

(* A turn does its step.                                                   *)
LEMMA AgesStep ==
  ASSUME IInv, Aging, Grown, NEW i, NEW u, Turned(i, u), TurnAges(u)'
  PROVE  Aging'
<1>1. /\ i \in DOMAIN turns /\ DOMAIN turns' = DOMAIN turns /\ turns'[i] = u
      /\ \A j \in DOMAIN turns : j # i => turns'[j] = turns[j]
  BY DEF Turned, IInv, ChainTypeOK
<1>2. \A t : TurnAges(t) => TurnAges(t)'
  BY AgesOn DEF Aging
<1>3. ASSUME NEW j \in DOMAIN turns'
      PROVE  TurnAges(turns[j])'
  <2>1. PICK t : t = turns'[j]
    OBVIOUS
  <2>2. TurnAges(t)'
    BY <1>1, <1>2, <1>3, <2>1 DEF Aging
  <2>3. QED
    BY <2>1, <2>2 DEF TurnAges
<1>4. (\A j \in DOMAIN turns : TurnAges(turns[j]))'
  BY <1>3
<1>5. QED
  BY <1>4 DEF Aging, Grown

LEMMA AgesEnd ==
  ASSUME IInv, Aging, Grown, NEW i, NEW u, Turned(i, u), u.phase \in Early
  PROVE  Aging'
<1>1. TurnAges(u)'
  BY DEF TurnAges, Early, Saving, Seated, Asking, Resuming
<1>2. QED
  BY <1>1, AgesStep

(* A turn goes on with the stack it has, in its session.                   *)
LEMMA AgesGo ==
  ASSUME IInv, Aging, Grown, NEW i, NEW u, Turned(i, u),
         turns[i].phase \in Seated, u.phase \in Seated \ Saving,
         u.sid = turns[i].sid, u.stack = turns[i].stack
  PROVE  Aging'
<1>1. TurnAges(u)
  <2>1. TurnAges(turns[i])
    BY DEF Aging, Turned
  <2>2. u.phase # "persist"
    BY DEF Seated, Asking, Resuming
  <2>3. QED
    BY <2>1, <2>2 DEF TurnAges
<1>2. TurnAges(u)'
  BY <1>1, AgesOn DEF Aging
<1>3. QED
  BY <1>2, AgesStep

LEMMA SameRows ==
  ASSUME RowsAge, UNCHANGED <<sessions, latest>>
  PROVE  Grown
<1>1. RowsAge'
  BY DEF RowsAge
<1>2. \A s \in DOMAIN sessions : sessions[s].messages \in Nat
  BY DEF RowsAge, RowAges
<1>3. QED
  BY <1>1, <1>2 DEF Grown, RowsAge

LEMMA RowWritten ==
  ASSUME RowsAge, NEW sid \in DOMAIN sessions, NEW row, RowAges(row),
         sessions[sid].messages <= row.messages,
         sessions' = [sessions EXCEPT ![sid] = row], latest' \in 0 .. Len(sessions)
  PROVE  Grown
<1>1. /\ DOMAIN sessions' = DOMAIN sessions /\ Len(sessions') = Len(sessions)
      /\ sessions'[sid] = row
      /\ \A s \in DOMAIN sessions : s # sid => sessions'[s] = sessions[s]
  BY DEF RowsAge
<1>2. sessions' = [s \in DOMAIN sessions' |-> sessions'[s]]
  BY <1>1
<1>3. \A s \in DOMAIN sessions' : RowAges(sessions'[s])
  BY <1>1 DEF RowsAge
<1>4. RowsAge'
  BY <1>1, <1>2, <1>3 DEF RowsAge, RowAges
<1>5. \A s \in DOMAIN sessions : sessions[s].messages \in Nat
  BY DEF RowsAge, RowAges
<1>6. QED
  BY <1>1, <1>2, <1>4, <1>5 DEF Grown, RowsAge

LEMMA TouchedAges ==
  ASSUME NEW s, RowAges(s)
  PROVE  RowAges(Touched(s)) /\ s.messages <= Touched(s).messages
<1> DEFINE n == s.messages + 1
           u == [s EXCEPT !.messages = n, !.idle = FALSE]
<1>1. Touched(s) = u
  BY DEF Touched
<1>2. n \in Nat /\ s.messages <= n
  BY DEF RowAges
<1> HIDE DEF n
<1>3. IsSession(u) /\ u.meta = s.meta /\ u.messages = n
  BY DEF RowAges, IsSession, SessionFields
<1> HIDE DEF u
<1>4. Aged(s.meta.stack, n)
  BY <1>2, AgedLater DEF RowAges
<1>5. QED
  BY <1>1, <1>2, <1>3, <1>4 DEF RowAges
-----------------------------------------------------------------------------
(* The steps.                                                              *)

(* Those that read and write no session's row.                             *)
LEMMA PlainAges ==
  ASSUME IInv, Aging, NEW i \in DOMAIN turns,
         \/ Invoke(i) \/ Lookup(i) \/ EngineStarts(i) \/ RunPlan(i) \/ Answers(i)
         \/ \E topic \in Topics : Calls(i, topic)
  PROVE  Aging'
<1>1. /\ turns[i].phase \in {"invoke", "cache", "think", "engine", "resumed", "running"}
      /\ UNCHANGED <<sessions, latest>>
  BY DEF Invoke, Lookup, EngineStarts, Thinks, RunPlan, Answers, Calls, Is, rows
<1>2. Grown
  BY <1>1, SameRows DEF Aging
<1>3. \E u : /\ Turned(i, u) /\ u.sid = turns[i].sid /\ u.stack = turns[i].stack
             /\ u.phase \in {"clear", "reply", "engine", "resume", "running", "stack"}
  <2>1. CASE Invoke(i)
    <3>1. Goes(i, "clear")
      BY <2>1 DEF Invoke
    <3>2. QED
      BY <3>1, GoesTurned
  <2>2. CASE Lookup(i)
    BY <2>2, LookupTurned
  <2>3. CASE EngineStarts(i)
    BY <2>3, EngineStartsTurned
  <2>4. CASE RunPlan(i) \/ \E topic \in Topics : Calls(i, topic)
    <3>1. PICK topic : turns' = [Replies(i, "tools") EXCEPT ![i].topic = topic]
      BY <2>4 DEF RunPlan, Calls
    <3>2. QED
      BY <3>1, ToolsTurned
  <2>5. CASE Answers(i)
    <3>1. turns' = Replies(i, "text")
      BY <2>5 DEF Answers
    <3>2. QED
      BY <3>1, RepliesTurned
  <2>6. QED
    BY <2>1, <2>2, <2>3, <2>4, <2>5
<1>4. PICK u : /\ Turned(i, u) /\ u.sid = turns[i].sid /\ u.stack = turns[i].stack
               /\ u.phase \in {"clear", "reply", "engine", "resume", "running", "stack"}
  BY <1>3
<1>5. turns[i].phase \in Seated /\ u.phase \in Seated \ Saving
  BY <1>1, <1>4 DEF Seated, Asking, Resuming, Saving
<1>6. QED
  BY <1>2, <1>4, <1>5, AgesGo

(* Those that begin or end a turn.                                         *)
LEMMA EdgeAges ==
  ASSUME IInv, Aging, NEW i \in DOMAIN turns, Begin(i) \/ CreateCustomer(i) \/ EngineFails(i)
  PROVE  Aging'
<1>1. UNCHANGED <<sessions, latest>>
  BY DEF Begin, CreateCustomer, EngineFails, rows
<1>2. Grown
  BY <1>1, SameRows DEF Aging
<1>3. \E u : Turned(i, u) /\ u.phase \in {"admit", "customer", "ended"}
  <2>1. CASE Begin(i)
    BY <2>1, BeginTurned
  <2>2. CASE Goes(i, "admit")
    BY <2>2, GoesTurned
  <2>3. CASE Ends(i)
    BY <2>3, EndsTurned
  <2>4. QED
    BY <2>1, <2>2, <2>3 DEF CreateCustomer, EngineFails, Stays
<1>4. PICK u : Turned(i, u) /\ u.phase \in {"admit", "customer", "ended"}
  BY <1>3
<1>5. u.phase \in Early
  BY <1>4 DEF Early
<1>6. QED
  BY <1>2, <1>4, <1>5, AgesEnd

LEMMA AdmitAges ==
  ASSUME IInv, Aging, NEW i \in DOMAIN turns, Admit(i)
  PROVE  Aging'
<1>1. PICK u : /\ Turned(i, u) /\ u.phase \in {"ended", "persist"}
               /\ u.phase = "persist" => ~Limited /\ u.sid \in {latest, 0}
  BY AdmitTurned
<1>2. RowsAge /\ latest' = latest
  BY DEF Aging, Admit
<1>3. Grown
  <2>1. CASE sessions' = sessions
    BY <1>2, <2>1, SameRows
  <2>2. CASE sessions' = [s \in DOMAIN sessions |->
               IF sessions[s].idle THEN [sessions[s] EXCEPT !.open = FALSE] ELSE sessions[s]]
    <3>1. /\ DOMAIN sessions' = DOMAIN sessions
          /\ sessions' = [s \in DOMAIN sessions' |-> sessions'[s]]
          /\ Len(sessions') = Len(sessions)
      BY <1>2, <2>2 DEF RowsAge
    <3>2. ASSUME NEW s \in DOMAIN sessions
          PROVE  /\ RowAges(sessions'[s]) /\ sessions'[s].messages = sessions[s].messages
                 /\ sessions[s].messages \in Nat
      <4> DEFINE row == sessions[s]
                 closed == [row EXCEPT !.open = FALSE]
      <4>1. RowAges(row) /\ row.messages = sessions[s].messages
        BY <1>2 DEF RowsAge
      <4>2. sessions'[s] = closed \/ sessions'[s] = row
        BY <2>2
      <4> HIDE DEF row
      <4>3. IsSession(closed) /\ closed.meta = row.meta /\ closed.messages = row.messages
        BY <4>1 DEF RowAges, IsSession, SessionFields
      <4> HIDE DEF closed
      <4>4. RowAges(closed) /\ row.messages \in Nat
        BY <4>1, <4>3 DEF RowAges
      <4>5. QED
        BY <4>1, <4>2, <4>3, <4>4
    <3>3. (\A s \in DOMAIN sessions : RowAges(sessions[s]))'
      BY <3>1, <3>2
    <3>4. RowsAge'
      BY <1>2, <3>1, <3>3 DEF RowsAge
    <3>5. QED
      BY <1>2, <3>1, <3>2, <3>4 DEF Grown, RowsAge
  <2>3. QED
    BY <2>1, <2>2 DEF Admit
<1>4. TurnAges(u)'
  <2>1. CASE u.phase = "ended"
    BY <2>1 DEF TurnAges, Early, Saving, Seated, Asking, Resuming
  <2>2. CASE u.phase = "persist"
    <3>1. u.sid \in 0 .. Len(sessions')
      BY <1>1, <1>2, <1>3, <2>2 DEF Grown, RowsAge
    <3>2. QED
      BY <2>2, <3>1 DEF TurnAges, Early, Saving, Seated, Asking, Resuming
  <2>3. QED
    BY <1>1, <2>1, <2>2
<1>5. QED
  BY <1>1, <1>3, <1>4, AgesStep

(* The last message of a turn is stored.                                   *)
LEMMA StoredAges ==
  ASSUME IInv, Aging, NEW i \in DOMAIN turns, Acknowledge(i) \/ Reply(i)
  PROVE  Aging'
<1>0. PICK sid, row : sid = turns[i].sid /\ row = Touched(sessions[sid])
  OBVIOUS
<1>1. /\ turns[i].phase \in {"acknowledge", "reply"} /\ Ends(i)
      /\ sessions' = [sessions EXCEPT ![sid] = row] /\ latest' = sid
  BY <1>0 DEF Acknowledge, Reply, Is, Stored
<1>2. RowsAge /\ sid \in DOMAIN sessions
  BY <1>0, <1>1 DEF Aging, TurnAges, Seated
<1>3. RowAges(row) /\ sessions[sid].messages <= row.messages
  BY <1>0, <1>2, TouchedAges DEF RowsAge
<1>4. latest' \in 0 .. Len(sessions)
  BY <1>1, <1>2 DEF RowsAge
<1>5. Grown
  BY <1>1, <1>2, <1>3, <1>4, RowWritten
<1>6. PICK u : Turned(i, u) /\ u.phase = "ended"
  BY <1>1, EndsTurned
<1>7. u.phase \in Early
  BY <1>6 DEF Early
<1>8. QED
  BY <1>5, <1>6, <1>7, AgesEnd

(* The metadata to be written holds the stack of the row it was read from,  *)
(* or the turn's with its topic at the top, without what has expired.      *)
LEMMA ReadMetaAges ==
  ASSUME IInv, Aging, NEW i \in DOMAIN turns, ReadMeta(i)
  PROVE  Aging'
<1>1. PICK u : /\ Turned(i, u) /\ u.row = Changed(i)
               /\ u.sid = turns[i].sid /\ u.stack = turns[i].stack
               /\ \/ turns[i].phase = "ask" /\ u.phase = "asking"
                  \/ turns[i].phase = "engine" /\ u.phase = "summary"
                  \/ turns[i].phase = "clear" /\ u.phase = "clearing"
                  \/ turns[i].phase = "stack" /\ u.phase = "saving"
  BY ReadMetaTurned
<1>2. turns[i].phase \in {"clear", "ask", "engine", "stack"}
  BY <1>1
<1>3. UNCHANGED <<sessions, latest>> /\ RowsAge
  BY DEF ReadMeta, rows, Aging
<1>4. Grown
  BY <1>3, SameRows
<1>5. PICK t, s, now : t = turns[i] /\ s = sessions[t.sid] /\ now = s.messages
  OBVIOUS
<1>6. /\ t.sid \in DOMAIN sessions /\ Aged(t.stack, now) /\ now \in Int
      /\ IsMeta(s.meta) /\ Aged(s.meta.stack, now)
  BY <1>2, <1>3, <1>5 DEF Aging, TurnAges, Seated, Asking, RowsAge, RowAges, IsSession
<1>7. /\ IsMeta(Changed(i))
      /\ Changed(i).stack =
           IF t.phase = "stack"
           THEN Expired(UpdatedStack(t.stack, t.word, t.topic, now), s.meta.horizon)
           ELSE s.meta.stack
  <2>1. Session(i) = s
    BY <1>5 DEF Session
  <2>2. IsMeta(Session(i).meta)
    BY <1>6, <2>1
  <2>3. QED
    BY <1>2, <1>5, <2>1, <2>2, ChangedRow
<1>8. Aged(Expired(UpdatedStack(t.stack, t.word, t.topic, now), s.meta.horizon), now)
  BY <1>6, UpdatedAged, ExpiredAged
<1>9. IsMeta(u.row) /\ Aged(u.row.stack, now)
  BY <1>1, <1>6, <1>7, <1>8
<1>10. TurnAges(u)
  <2>1. u.phase \in Seated /\ u.phase # "persist"
    BY <1>1 DEF Seated, Asking, Resuming
  <2>2. u.sid \in DOMAIN sessions /\ sessions[u.sid].messages = now /\ Aged(u.stack, now)
    BY <1>1, <1>5, <1>6
  <2>3. QED
    BY <1>9, <2>1, <2>2 DEF TurnAges
<1>11. TurnAges(u)'
  BY <1>3, <1>4, <1>10, AgesOn
<1>12. QED
  BY <1>1, <1>4, <1>11, AgesStep

LEMMA WriteMetaAges ==
  ASSUME IInv, Aging, NEW i \in DOMAIN turns, WriteMeta(i)
  PROVE  Aging'
<1>0. PICK sid, meta, row : /\ sid = turns[i].sid /\ meta = turns[i].row
                            /\ row = [sessions[sid] EXCEPT !.meta = meta]
  OBVIOUS
<1>1. /\ turns[i].phase \in Saving
      /\ sessions' = [sessions EXCEPT ![sid] = row] /\ latest' = latest
  BY <1>0 DEF WriteMeta, Is, Saving
<1>2. PICK u : /\ Turned(i, u) /\ u.sid = turns[i].sid /\ u.stack = turns[i].stack
               /\ u.phase \in {"stack", "think", "acknowledge", "reply"}
  BY WriteMetaTurned
<1>3. turns[i].phase \in Seated /\ u.phase \in Seated \ Saving
  BY <1>1, <1>2 DEF Seated, Asking, Resuming, Saving
<1>4. /\ RowsAge /\ sid \in DOMAIN sessions /\ latest' \in 0 .. Len(sessions)
      /\ IsMeta(meta) /\ Aged(meta.stack, sessions[sid].messages)
  BY <1>0, <1>1, <1>3 DEF Aging, TurnAges, RowsAge
<1>5. RowAges(row) /\ sessions[sid].messages <= row.messages
  <2>1. PICK s : s = sessions[sid]
    OBVIOUS
  <2>2. RowAges(s) /\ row = [s EXCEPT !.meta = meta] /\ Aged(meta.stack, s.messages)
    BY <1>0, <1>4, <2>1 DEF RowsAge
  <2>3. IsSession(row) /\ row.meta = meta /\ row.messages = s.messages
    BY <1>4, <2>2 DEF RowAges, IsSession, SessionFields
  <2>4. s.messages \in Nat
    BY <2>2 DEF RowAges
  <2>5. QED
    BY <2>1, <2>2, <2>3, <2>4 DEF RowAges
<1>6. Grown
  BY <1>1, <1>4, <1>5, RowWritten
<1>7. QED
  BY <1>2, <1>3, <1>6, AgesGo

(* A plan is parked or taken away.                                         *)
LEMMA PlanAges ==
  ASSUME IInv, Aging, NEW i \in DOMAIN turns, TakePlan(i) \/ Asks(i)
  PROVE  Aging'
<1>1. /\ turns[i].phase \in {"resume", "running"} /\ latest' = latest
      /\ \/ sessions' = sessions
         \/ \E plan : sessions' = [sessions EXCEPT ![turns[i].sid].plan = plan]
  BY DEF TakePlan, Asks, Is
<1>2. \E u : /\ Turned(i, u) /\ u.sid = turns[i].sid /\ u.stack = turns[i].stack
             /\ u.phase \in {"stack", "resumed", "ask"}
  <2>1. CASE TakePlan(i)
    <3>1. CASE turns' = Replies(i, "text")
      BY <3>1, RepliesTurned
    <3>2. CASE Goes(i, "resumed")
      BY <3>2, GoesTurned
    <3>3. QED
      BY <2>1, <3>1, <3>2 DEF TakePlan, Goes
  <2>2. CASE Asks(i)
    BY <2>2, AsksTurned
  <2>3. QED
    BY <2>1, <2>2
<1>3. PICK u : /\ Turned(i, u) /\ u.sid = turns[i].sid /\ u.stack = turns[i].stack
               /\ u.phase \in {"stack", "resumed", "ask"}
  BY <1>2
<1>4. turns[i].phase \in Seated /\ u.phase \in Seated \ Saving
  BY <1>1, <1>3 DEF Seated, Asking, Resuming, Saving
<1>5. /\ RowsAge /\ turns[i].sid \in DOMAIN sessions /\ latest' \in 0 .. Len(sessions)
  BY <1>1, <1>4 DEF Aging, TurnAges, RowsAge
<1>6. Grown
  <2>1. CASE sessions' = sessions
    BY <1>1, <1>5, <2>1, SameRows
  <2>2. CASE \E plan : sessions' = [sessions EXCEPT ![turns[i].sid].plan = plan]
    <3>1. PICK plan : sessions' = [sessions EXCEPT ![turns[i].sid].plan = plan]
      BY <2>2
    <3>2. PICK sid, s, row : /\ sid = turns[i].sid /\ s = sessions[sid]
                             /\ row = [s EXCEPT !.plan = plan]
      OBVIOUS
    <3>3. RowAges(s) /\ sid \in DOMAIN sessions /\ sessions' = [sessions EXCEPT ![sid] = row]
      BY <1>5, <3>1, <3>2 DEF RowsAge
    <3>4. IsSession(row) /\ row.meta = s.meta /\ row.messages = s.messages
      BY <3>2, <3>3 DEF RowAges, IsSession, SessionFields
    <3>5. RowAges(row) /\ sessions[sid].messages <= row.messages
      BY <3>2, <3>3, <3>4 DEF RowAges
    <3>6. QED
      BY <1>5, <3>3, <3>5, RowWritten
  <2>3. QED
    BY <1>1, <2>1, <2>2
<1>7. QED
  BY <1>3, <1>4, <1>6, AgesGo

LEMMA NewAges ==
  ASSUME NEW stack, Aged(stack, 0)
  PROVE  RowAges(NewSession(stack))
<1> DEFINE meta == [pending |-> 0, stack |-> stack, mark |-> 0, horizon |-> -1]
           s == [open |-> TRUE, idle |-> FALSE, messages |-> 0, plan |-> 0, meta |-> meta]
<1>1. NewSession(stack) = s
  BY DEF NewSession
<1>2. IsMeta(meta) /\ meta.stack = stack
  BY DEF IsMeta, MetaFields
<1> HIDE DEF meta
<1>3. IsSession(s) /\ s.meta = meta /\ s.messages = 0
  BY <1>2 DEF IsSession, SessionFields
<1>4. QED
  BY <1>1, <1>2, <1>3 DEF RowAges

(* A message is stored, and the stack of its session read.                 *)
LEMMA PersistAges ==
  ASSUME IInv, Aging, NEW i \in DOMAIN turns, NEW word \in Words, Persist(i, word)
  PROVE  Aging'
<1> DEFINE new == NewSession(<<>>)
           found == turns[i].sid
           fresh == found = 0
           sid == IF fresh THEN Len(sessions) + 1 ELSE found
           old == IF fresh THEN Append(sessions, new) ELSE sessions
           s == old[sid]
           row == Touched(s)
<1>1. /\ turns[i].phase = "persist" /\ latest' = sid
      /\ sessions' = [old EXCEPT ![sid] = row]
  BY DEF Persist, Is, Stored
<1>2. PICK u : /\ Turned(i, u) /\ u.sid = sid /\ u.stack = Loaded(s.meta)
               /\ u.phase \in {"invoke", "clear", "cache", "engine"}
  BY PersistTurned
<1>3. RowsAge /\ found \in 0 .. Len(sessions)
  BY <1>1 DEF Aging, TurnAges
<1>4. RowAges(new)
  BY EmptyAged, NewAges
<1> HIDE DEF new
<1>5. /\ DOMAIN old = 1 .. Len(old) /\ Len(old) \in Nat /\ Len(sessions) <= Len(old)
      /\ old = [r \in DOMAIN old |-> old[r]] /\ sid \in DOMAIN old
      /\ \A r \in DOMAIN old : r \in DOMAIN sessions => old[r] = sessions[r]
      /\ \A r \in DOMAIN old : r \notin DOMAIN sessions => old[r] = new
  <2>1. /\ Len(sessions) \in Nat /\ DOMAIN sessions = 1 .. Len(sessions)
        /\ sessions = [r \in DOMAIN sessions |-> sessions[r]]
    BY <1>3 DEF RowsAge
  <2>2. QED
    BY <1>3, <2>1, Opened
<1> HIDE DEF old, sid, fresh, found
<1>6. \A r \in DOMAIN old : RowAges(old[r])
  BY <1>3, <1>4, <1>5 DEF RowsAge
<1>7. RowAges(s) /\ RowAges(row) /\ s.messages <= row.messages
  BY <1>5, <1>6, TouchedAges
<1> HIDE DEF s, row
<1>8. /\ DOMAIN sessions' = DOMAIN old /\ Len(sessions') = Len(old) /\ sessions'[sid] = row
      /\ \A r \in DOMAIN old : r # sid => sessions'[r] = old[r]
  BY <1>1, <1>5
<1>9. sessions' = [r \in DOMAIN sessions' |-> sessions'[r]]
  BY <1>1, <1>5, <1>8
<1>10. \A r \in DOMAIN sessions' : RowAges(sessions'[r])
  BY <1>6, <1>7, <1>8
<1>11. RowsAge'
  BY <1>1, <1>5, <1>8, <1>9, <1>10 DEF RowsAge, RowAges
<1>12. Grown
  <2>1. \A r \in DOMAIN old : /\ old[r].messages \in Nat
                              /\ old[r].messages <= sessions'[r].messages
    BY <1>6, <1>7, <1>8 DEF RowAges, s
  <2>2. \A r \in DOMAIN sessions : r \in DOMAIN old /\ old[r] = sessions[r]
    BY <1>3, <1>5 DEF RowsAge
  <2>3. QED
    BY <1>5, <1>8, <1>11, <2>1, <2>2 DEF Grown
<1>13. Aged(u.stack, row.messages)
  <2>1. Aged(Loaded(s.meta), s.messages)
    BY <1>7, ExpiredAged DEF RowAges, Loaded
  <2>2. s.messages \in Int /\ row.messages \in Int
    BY <1>7 DEF RowAges
  <2>3. QED
    BY <1>2, <1>7, <2>1, <2>2, AgedLater
<1>14. TurnAges(u)'
  <2>1. u.sid \in DOMAIN sessions' /\ sessions'[u.sid].messages = row.messages
    BY <1>2, <1>5, <1>8
  <2>2. u.phase \in Seated \ Saving /\ u.phase # "persist"
    BY <1>2 DEF Seated, Asking, Resuming, Saving
  <2>3. QED
    BY <1>13, <2>1, <2>2 DEF TurnAges
<1>15. QED
  BY <1>2, <1>12, <1>14, AgesStep
-----------------------------------------------------------------------------
(* What happens around the turns.                                          *)
LEMMA QuietAges ==
  ASSUME Aging, GoesQuiet
  PROVE  Aging'
<1>1. UNCHANGED <<turns, latest>> /\ RowsAge /\ latest # 0
  BY DEF GoesQuiet, Aging
<1>2. latest \in DOMAIN sessions /\ latest' \in 0 .. Len(sessions)
  BY <1>1 DEF RowsAge
<1>3. Grown
  <2> DEFINE old == sessions[latest]
             m == old.meta
             now == sessions[latest].messages
             horizon == [m EXCEPT !.horizon = now]
             idle == [old EXCEPT !.idle = TRUE]
             later == [old EXCEPT !.meta = horizon]
  <2>1. \/ sessions' = sessions
        \/ sessions' = [sessions EXCEPT ![latest] = idle]
        \/ sessions' = [sessions EXCEPT ![latest] = later]
    BY DEF GoesQuiet
  <2>2. RowAges(old) /\ IsMeta(m) /\ m = old.meta /\ old.messages = sessions[latest].messages
    BY <1>1, <1>2 DEF RowsAge, RowAges, IsSession
  <2> HIDE DEF m, now
  <2>3. IsMeta(horizon) /\ horizon.stack = m.stack
    BY <2>2 DEF IsMeta, MetaFields
  <2> HIDE DEF horizon, old
  <2>4. /\ IsSession(idle) /\ idle.meta = m /\ idle.messages = old.messages
        /\ IsSession(later) /\ later.meta = horizon /\ later.messages = old.messages
    BY <2>2, <2>3 DEF RowAges, IsSession, SessionFields
  <2> HIDE DEF idle, later
  <2>5. /\ RowAges(idle) /\ sessions[latest].messages <= idle.messages
        /\ RowAges(later) /\ sessions[latest].messages <= later.messages
    BY <2>2, <2>3, <2>4 DEF RowAges
  <2>6. CASE sessions' = sessions
    BY <1>1, <2>6, SameRows
  <2>7. CASE sessions' = [sessions EXCEPT ![latest] = idle]
    BY <1>1, <1>2, <2>5, <2>7, RowWritten
  <2>8. CASE sessions' = [sessions EXCEPT ![latest] = later]
    BY <1>1, <1>2, <2>5, <2>8, RowWritten
  <2>9. QED
    BY <2>1, <2>6, <2>7, <2>8
<1>4. \A j \in DOMAIN turns' :
        turns'[j].phase \in Early \/ (j \in DOMAIN turns /\ turns'[j] = turns[j])
  BY <1>1
<1>5. QED
  BY <1>3, <1>4, AgesKept

LEMMA AroundAges ==
  ASSUME IInv, Aging,
         \/ MinutePasses \/ Crash \/ UNCHANGED vars
         \/ \E ch \in channels : Arrive(ch)
  PROVE  Aging'
<1>1. UNCHANGED <<sessions, latest>> /\ RowsAge
  BY DEF MinutePasses, Crash, Arrive, vars, rows, Aging
<1>2. Grown
  BY <1>1, SameRows
<1>3. \A j \in DOMAIN turns' :
        turns'[j].phase \in Early \/ (j \in DOMAIN turns /\ turns'[j] = turns[j])
  <2>1. CASE MinutePasses \/ UNCHANGED vars
    BY <2>1 DEF MinutePasses, vars
  <2>2. CASE Crash
    BY <2>2 DEF Crash, Ended, Waiting, Early
  <2>3. ASSUME NEW ch \in channels, Arrive(ch)
        PROVE  \A j \in DOMAIN turns' :
                 turns'[j].phase \in Early \/ (j \in DOMAIN turns /\ turns'[j] = turns[j])
    <3> DEFINE t == Waiting(ch, chain[ch])
    <3>1. turns' = Append(turns, t) /\ t.phase \in Early
      BY <2>3 DEF Arrive, Waiting, Early
    <3> HIDE DEF t
    <3>2. /\ DOMAIN turns = 1 .. Len(turns) /\ Len(turns) \in Nat
          /\ DOMAIN turns' = 1 .. Len(turns) + 1 /\ turns'[Len(turns) + 1] = t
          /\ \A j \in DOMAIN turns : turns'[j] = turns[j]
      BY <3>1, TurnAdded
    <3>3. \A j \in DOMAIN turns' : j = Len(turns) + 1 \/ j \in DOMAIN turns
      BY <3>2
    <3>4. QED
      BY <3>1, <3>2, <3>3
  <2>4. QED
    BY <2>1, <2>2, <2>3
<1>4. QED
  BY <1>2, <1>3, AgesKept

LEMMA AgesStart ==
  ASSUME Init
  PROVE  Aging
<1>1. turns = <<>> /\ DOMAIN turns = {}
  BY DEF Init
<1>2. CASE sessions = <<>> /\ latest = 0
  BY <1>1, <1>2 DEF Aging, RowsAge
<1>3. ASSUME NEW stack \in OldStacks, sessions = <<NewSession(stack)>>, latest = 1
      PROVE  Aging
  <2> DEFINE new == NewSession(stack)
             F == [label : STRING, at : {0}]
  <2>1. stack \in Seq(F)
    BY OldFrames
  <2>2. Aged(stack, 0)
    <3>1. \A f \in F : "at" \in DOMAIN f /\ f.at = 0
      OBVIOUS
    <3> HIDE DEF F
    <3>2. \A n \in 1 .. Len(stack) : "at" \in DOMAIN stack[n] /\ stack[n].at = 0
      BY <2>1, <3>1
    <3>3. Len(stack) \in Nat /\ stack = [n \in 1 .. Len(stack) |-> stack[n]]
      BY <2>1
    <3>4. QED
      BY <3>2, <3>3 DEF Aged
  <2>3. RowAges(new)
    BY <2>2, NewAges
  <2>4. sessions = <<new>>
    BY <1>3
  <2> HIDE DEF new
  <2>5. QED
    BY <1>1, <1>3, <2>3, <2>4 DEF Aging, RowsAge
<1>4. QED
  BY <1>2, <1>3 DEF Init

LEMMA AgesNext ==
  ASSUME IInv, Aging, [Next]_vars
  PROVE  Aging'
<1>1. ASSUME NEW i \in DOMAIN turns, Step(i) \/ EngineFails(i)
      PROVE  Aging'
  <2>1. CASE Begin(i) \/ CreateCustomer(i) \/ EngineFails(i)
    BY <2>1, EdgeAges
  <2>2. CASE Admit(i) \/ ReadMeta(i) \/ WriteMeta(i)
    BY <2>2, AdmitAges, ReadMetaAges, WriteMetaAges
  <2>3. CASE \E word \in Words : Persist(i, word)
    BY <2>3, PersistAges
  <2>4. CASE \/ Invoke(i) \/ Lookup(i) \/ EngineStarts(i) \/ RunPlan(i) \/ Answers(i)
             \/ \E topic \in Topics : Calls(i, topic)
    BY <2>4, PlainAges
  <2>5. CASE TakePlan(i) \/ Asks(i)
    BY <2>5, PlanAges
  <2>6. CASE Acknowledge(i) \/ Reply(i)
    BY <2>6, StoredAges
  <2>7. QED
    BY <1>1, <2>1, <2>2, <2>3, <2>4, <2>5, <2>6 DEF Step
<1>2. CASE GoesQuiet
  BY <1>2, QuietAges
<1>3. CASE MinutePasses \/ Crash \/ UNCHANGED vars \/ \E ch \in channels : Arrive(ch)
  BY <1>3, AroundAges
<1>4. QED
  BY <1>1, <1>2, <1>3 DEF Next

(* Whatever the channels, however the turns that share a session overlap    *)
(* and whatever expires or is lost, the frames of a session's intent stack *)
(* are in the order of their age (updateIntentStack refreshes the top and  *)
(* adds to it; loadIntentStack and saveIntentStack drop what has expired).  *)
THEOREM StacksInOrder == Spec => []StackAges
<1>1. Init => IInv /\ Aging
  BY Started, AgesStart
<1>2. IInv /\ Aging /\ [Next]_vars => IInv' /\ Aging'
  BY IInvStep, AgesNext
<1>3. Aging => StackAges
  <2>1. SUFFICES ASSUME Aging, NEW s \in DOMAIN sessions
                 PROVE  LET stack == sessions[s].meta.stack IN
                          \A m, n \in DOMAIN stack : m < n => stack[m].at >= stack[n].at
    BY DEF StackAges
  <2>2. PICK stack : stack = sessions[s].meta.stack
    OBVIOUS
  <2>3. Aged(stack, sessions[s].messages)
    BY <2>1, <2>2 DEF Aging, RowsAge, RowAges
  <2>4. DOMAIN stack = 1 .. Len(stack)
    BY <2>3 DEF Aged
  <2>5. QED
    BY <2>2, <2>3, <2>4 DEF Aged
<1>4. QED
  BY <1>1, <1>2, <1>3, PTL DEF Spec
=============================================================================

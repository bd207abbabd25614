--------------------------- MODULE OutreachProofs ---------------------------
(***************************************************************************)
(* Proactive messages, for every number of senders, cycles, sessions and    *)
(* crashes: a session is reflected on and followed up once, the daily cap   *)
(* is exceeded by what the code lets pass and no more, and no progress of a *)
(* flow made in another stage survives a change of the stage.               *)
(***************************************************************************)
EXTENDS Outreach, FiniteSetTheorems, TLAPS

Phases == {"idle", "opted", "guard", "cap", "queue", "record"}
Send == [phase : Phases, key : AllKeys \cup {NoKey}]
Metadata == [optIn : BOOLEAN, stage : Stages \cup {Nowhere},
             flows : [Flows -> SUBSET (Stages \cup {Nowhere})], busy : BOOLEAN]
Fits(meta) == \A f \in Flows : meta.flows[f] \subseteq {Nowhere, meta.stage}

OutreachTypeOK ==
  /\ active \in Populations /\ sends \in [Senders -> Send] /\ queued \in [AllKeys -> Nat]
  /\ today \in Nat /\ queuedToday \in Int /\ faults \in Nat
  /\ reflections \in [Sessions -> Nat] /\ running \in [Cycles -> BOOLEAN]
  /\ todo = [c \in Cycles |-> todo[c]]

(* What is stored, and what a writer is about to store.                    *)
MetadataFit ==
  /\ row \in Metadata /\ Fits(row)
  /\ writes \in [Writers -> Metadata] /\ \A w \in Writers : Fits(writes[w])

(* One cycle runs; it has sessions before it that nobody reflected on.     *)
OneCycle ==
  /\ \A c, d \in Cycles : running[c] /\ running[d] => c = d
  /\ \A c \in Cycles :
       /\ ~running[c] => todo[c] = {}
       /\ \A s \in Sessions : s \in todo[c] => reflections[s] = 0

(* Who sends is at work, a cycle from its start to its end.                *)
Working(p) == p \in active /\ (p \in Cycles => running[p])
SendersWork ==
  /\ \A p \in Senders : sends[p].phase # "idle" => Working(p)
  /\ \A c \in Cycles : running[c] => c \in active

(* A follow-up under way whose job is not queued yet: there is a           *)
(* reflection on the session, no job, and no other follow-up.              *)
Owes(p) == sends[p].phase \in {"opted", "guard", "cap", "queue"} /\ sends[p].key \in Sessions
Promised ==
  \A p \in Senders : Owes(p) =>
    /\ reflections[sends[p].key] > 0 /\ queued[sends[p].key] = 0
    /\ \A q \in Senders : Owes(q) /\ sends[q].key = sends[p].key => q = p
Once ==
  \A s \in Sessions :
    reflections[s] <= 1 /\ queued[s] <= 1 /\ (reflections[s] = 0 => queued[s] = 0)

(* Past the cap, and between the job and its row.                          *)
Passed == {p \in Senders : sends[p].phase \in {"queue", "record"}}
Unrecorded == {p \in Senders : sends[p].phase = "record"}

(* The rows and those that will be there are within the cap but for the    *)
(* further senders; jobs without a row were lost at a crash.               *)
Counted ==
  /\ today + Cardinality(Passed) <= Cap + Together - 1
  /\ queuedToday <= today + Cardinality(Unrecorded) + Together * faults

IInv ==
  /\ OutreachTypeOK /\ MetadataFit /\ OneCycle /\ SendersWork
  /\ Promised /\ Once /\ Counted
-----------------------------------------------------------------------------
(* Counting senders.                                                       *)

(* There are as many senders at work as there are requests and a cycle.    *)
LEMMA AtMostTogether ==
  ASSUME OutreachTypeOK, OneCycle, SendersWork,
         NEW S, S \subseteq {p \in Senders : sends[p].phase # "idle"}
  PROVE  IsFiniteSet(S) /\ Cardinality(S) \in Nat /\ Cardinality(S) <= Together
         /\ Together \in Nat
<1> DEFINE R == active \cap Requests
           C == S \cap Cycles
<1>1. IsFiniteSet(R) /\ Cardinality(R) \in Nat
  BY OutreachConstants, FS_Subset, FS_CardinalityType DEF OutreachTypeOK
<1>2. S \subseteq R \cup C
  BY DEF SendersWork, Senders, Working
<1>3. IsFiniteSet(C) /\ Cardinality(C) <= (IF active \cap Cycles = {} THEN 0 ELSE 1)
      /\ Cardinality(C) \in Nat
  <2>1. CASE C = {}
    BY <2>1, FS_EmptySet
  <2>2. CASE C # {}
    <3>1. PICK c : c \in C
      BY <2>2
    <3>2. c \in active \cap Cycles /\ C = {c}
      BY <3>1 DEF SendersWork, Working, OneCycle
    <3>3. IsFiniteSet({c}) /\ Cardinality({c}) = 1
      BY FS_Singleton
    <3>4. QED
      BY <3>2, <3>3
  <2>3. QED
    BY <2>1, <2>2
<1> HIDE DEF R, C
<1>4. IsFiniteSet(R \cup C) /\ Cardinality(R \cup C) \in Nat
      /\ Cardinality(R \cup C) <= Cardinality(R) + Cardinality(C)
  <2>1. IsFiniteSet(R \cup C) /\ IsFiniteSet(R \cap C)
        /\ Cardinality(R \cup C) = Cardinality(R) + Cardinality(C) - Cardinality(R \cap C)
    BY <1>1, <1>3, FS_Union, FS_Subset
  <2>2. QED
    BY <1>1, <1>3, <2>1, FS_CardinalityType
<1>5. IsFiniteSet(S) /\ Cardinality(S) \in Nat /\ Cardinality(S) <= Cardinality(R \cup C)
  BY <1>2, <1>4, FS_Subset, FS_CardinalityType
<1>6. Together = Cardinality(R) + (IF active \cap Cycles = {} THEN 0 ELSE 1)
  BY DEF Together, R
<1>7. QED
  BY <1>1, <1>3, <1>4, <1>5, <1>6

LEMMA Counts ==
  ASSUME OutreachTypeOK, OneCycle, SendersWork
  PROVE  /\ IsFiniteSet(Passed) /\ Cardinality(Passed) \in Nat
         /\ IsFiniteSet(Unrecorded) /\ Cardinality(Unrecorded) \in Nat
         /\ Cardinality(Unrecorded) <= Together /\ Together \in Nat
<1>1. Passed \subseteq {p \in Senders : sends[p].phase # "idle"}
  BY DEF Passed
<1>2. Unrecorded \subseteq {p \in Senders : sends[p].phase # "idle"}
  BY DEF Unrecorded
<1>3. QED
  BY <1>1, <1>2, AtMostTogether

(* The metadata are stored by actions of their own.                        *)
LEMMA MetadataKept ==
  ASSUME MetadataFit, UNCHANGED writing
  PROVE  MetadataFit'
BY DEF MetadataFit, writing, Fits

LEMMA Started ==
  ASSUME Init
  PROVE  IInv
<1>1. Quiet \in Send /\ Quiet.phase = "idle"
  BY DEF Quiet, Send, Phases
<1>2. OutreachTypeOK
  BY <1>1 DEF Init, OutreachTypeOK
<1>3. MetadataFit
  <2>1. Idle \in Metadata /\ Fits(Idle)
    BY DEF Idle, Metadata, Fits
  <2>2. \A yes \in BOOLEAN : LET r == [Idle EXCEPT !.optIn = yes] IN r \in Metadata /\ Fits(r)
    BY DEF Idle, Metadata, Fits
  <2>3. QED
    BY <2>1, <2>2 DEF Init, MetadataFit
<1>4. \A p \in Senders : sends[p] = Quiet
  BY DEF Init
<1>5. OneCycle
  BY DEF Init, OneCycle
<1>6. SendersWork
  BY <1>1, <1>4 DEF Init, SendersWork
<1>7. Promised /\ Once
  BY <1>1, <1>4 DEF Init, Promised, Owes, Once, AllKeys
<1>8. Counted
  <2>1. Passed = {} /\ Unrecorded = {}
    BY <1>1, <1>4 DEF Passed, Unrecorded
  <2>2. Cardinality({}) = 0
    BY FS_EmptySet
  <2>3. Together \in Nat /\ faults = 0 /\ today = 0 /\ queuedToday = 0
    BY <1>2, <1>5, <1>6, Counts DEF Init
  <2>4. Together * faults = 0
    BY <2>3
  <2>5. QED
    BY <2>1, <2>2, <2>3, <2>4, OutreachConstants DEF Counted
<1>9. QED
  BY <1>2, <1>3, <1>5, <1>6, <1>7, <1>8 DEF IInv
-----------------------------------------------------------------------------
(* The customer's metadata.                                                *)
LEMMA NewMetadata ==
  ASSUME MetadataFit, NEW new \in Changes
  PROVE  LET busy == [new EXCEPT !.busy = TRUE] IN busy \in Metadata /\ Fits(busy)
<1>1. row \in Metadata /\ Fits(row)
  BY DEF MetadataFit
<1>2. new \in Metadata /\ Fits(new)
  <2>1. CASE new \in OptIns
    BY <1>1, <2>1 DEF OptIns, Metadata, Fits
  <2>2. ASSUME NEW f \in Flows, NEW kept \in {{}, row.flows[f]},
               new = WithProgress(row, f, kept)
        PROVE  new \in Metadata /\ Fits(new)
    <3> DEFINE made == kept \cup {row.stage}
               flows == [row.flows EXCEPT ![f] = made]
    <3>1. /\ made \subseteq Stages \cup {Nowhere} /\ made \subseteq {Nowhere, row.stage}
          /\ row.flows \in [Flows -> SUBSET (Stages \cup {Nowhere})]
      BY <1>1 DEF Metadata, Fits
    <3>2. new = [row EXCEPT !.flows = flows]
      BY <1>1, <2>2 DEF WithProgress, Metadata
    <3> HIDE DEF made
    <3>3. /\ flows \in [Flows -> SUBSET (Stages \cup {Nowhere})]
          /\ \A g \in Flows : flows[g] \subseteq {Nowhere, row.stage}
      BY <1>1, <3>1 DEF Fits
    <3> HIDE DEF flows
    <3>4. QED
      BY <1>1, <3>2, <3>3 DEF Metadata, Fits
  <2>3. ASSUME NEW stage \in Stages, new = WithStage(row, stage)
        PROVE  new \in Metadata /\ Fits(new)
    <3> DEFINE flows == IF row.stage \notin {Nowhere, stage} THEN Idle.flows ELSE row.flows
    <3>1. /\ flows \in [Flows -> SUBSET (Stages \cup {Nowhere})]
          /\ \A f \in Flows : flows[f] \subseteq {Nowhere, stage}
      <4>1. CASE row.stage \notin {Nowhere, stage}
        BY <4>1 DEF Idle
      <4>2. CASE row.stage \in {Nowhere, stage}
        BY <1>1, <4>2 DEF Metadata, Fits
      <4>3. QED
        BY <4>1, <4>2
    <3>2. new = [row EXCEPT !.stage = stage, !.flows = flows]
      BY <1>1, <2>3 DEF WithStage, Metadata
    <3> HIDE DEF flows
    <3>3. QED
      BY <1>1, <3>1, <3>2 DEF Metadata, Fits
  <2>4. QED
    BY <2>1, <2>2, <2>3 DEF Changes, Progresses
<1>3. QED
  BY <1>2 DEF Metadata, Fits

LEMMA OthersKept ==
  ASSUME IInv, UNCHANGED <<active, sending, reflecting, faults>>, MetadataFit'
  PROVE  IInv'
<1>1. /\ UNCHANGED <<active, sends, queued, today, queuedToday, faults>>
      /\ UNCHANGED <<reflections, todo, running>>
  BY DEF sending, reflecting
<1>2. OutreachTypeOK'
  BY <1>1 DEF IInv, OutreachTypeOK
<1>3. OneCycle' /\ SendersWork'
  BY <1>1 DEF IInv, OneCycle, SendersWork, Working
<1>4. Promised' /\ Once'
  BY <1>1 DEF IInv, Promised, Owes, Once
<1>5. Passed' = Passed /\ Unrecorded' = Unrecorded /\ Together' = Together
  BY <1>1 DEF Passed, Unrecorded, Together
<1>6. Counted'
  BY <1>1, <1>5 DEF IInv, Counted
<1>7. QED
  BY <1>2, <1>3, <1>4, <1>6 DEF IInv

LEMMA ReadRowStep ==
  ASSUME IInv, NEW w \in Writers, ReadRow(w)
  PROVE  IInv'
<1>1. PICK new \in Changes : writes' = [writes EXCEPT ![w] = [new EXCEPT !.busy = TRUE]]
  BY DEF ReadRow
<1> DEFINE busy == [new EXCEPT !.busy = TRUE]
<1>2. busy \in Metadata /\ Fits(busy)
  BY NewMetadata DEF IInv
<1>3. writes' = [writes EXCEPT ![w] = busy] /\ row' = row
  BY <1>1 DEF ReadRow
<1> HIDE DEF busy
<1>4. MetadataFit'
  BY <1>2, <1>3 DEF IInv, MetadataFit, Fits
<1>5. QED
  BY <1>4, OthersKept DEF ReadRow

LEMMA WriteRowStep ==
  ASSUME IInv, NEW w \in Writers, WriteRow(w)
  PROVE  IInv'
<1>1. writes[w] \in Metadata /\ Fits(writes[w])
  BY DEF IInv, MetadataFit
<1>2. row' \in Metadata /\ Fits(row)'
  BY <1>1 DEF WriteRow, Metadata, Fits
<1>3. Idle \in Metadata /\ Fits(Idle)
  BY DEF Idle, Metadata, Fits
<1>4. writes' = [writes EXCEPT ![w] = Idle]
  BY DEF WriteRow
<1>5. MetadataFit'
  BY <1>2, <1>3, <1>4 DEF IInv, MetadataFit, Fits
<1>6. QED
  BY <1>5, OthersKept DEF WriteRow
-----------------------------------------------------------------------------
(* A sender's next step.                                                   *)
LEMMA Resent ==
  ASSUME OutreachTypeOK, SendersWork, NEW p \in Senders, NEW u \in Send,
         sends' = [sends EXCEPT ![p] = u], UNCHANGED <<active, running>>,
         u.phase # "idle" => Working(p)
  PROVE  /\ sends' \in [Senders -> Send] /\ SendersWork'
         /\ sends'[p] = u /\ \A q \in Senders : q # p => sends'[q] = sends[q]
         /\ Passed' = IF u.phase \in {"queue", "record"} THEN Passed \cup {p} ELSE Passed \ {p}
         /\ Unrecorded' = IF u.phase = "record" THEN Unrecorded \cup {p} ELSE Unrecorded \ {p}
         /\ Together' = Together
<1>1. /\ sends' \in [Senders -> Send]
      /\ sends'[p] = u /\ \A q \in Senders : q # p => sends'[q] = sends[q]
  BY DEF OutreachTypeOK
<1>2. SendersWork'
  BY <1>1 DEF SendersWork, Working
<1>3. Passed' = IF u.phase \in {"queue", "record"} THEN Passed \cup {p} ELSE Passed \ {p}
  BY <1>1 DEF Passed
<1>4. Unrecorded' = IF u.phase = "record" THEN Unrecorded \cup {p} ELSE Unrecorded \ {p}
  BY <1>1 DEF Unrecorded
<1>5. Together' = Together
  BY DEF Together
<1>6. QED
  BY <1>1, <1>2, <1>3, <1>4, <1>5

(* A step of the sender alone: what it owes, it owed before.               *)
LEMMA SenderAlone ==
  ASSUME IInv, NEW p \in Senders, NEW u \in Send, sends' = [sends EXCEPT ![p] = u],
         UNCHANGED <<active, writing, queued, faults, reflecting>>,
         u.phase # "idle" => Working(p),
         u.phase \in {"opted", "guard", "cap", "queue"} /\ u.key \in Sessions =>
           Owes(p) /\ sends[p].key = u.key,
         today' \in Nat, queuedToday' \in Int, Counted'
  PROVE  IInv'
<1>1. UNCHANGED <<row, writes, reflections, todo, running>>
  BY DEF writing, reflecting
<1>2. /\ sends' \in [Senders -> Send] /\ SendersWork'
      /\ sends'[p] = u /\ \A q \in Senders : q # p => sends'[q] = sends[q]
  BY <1>1, Resent DEF IInv
<1>3. OutreachTypeOK'
  BY <1>1, <1>2 DEF IInv, OutreachTypeOK
<1>4. MetadataFit' /\ OneCycle' /\ Once'
  BY <1>1, MetadataKept DEF IInv, OneCycle, Once
<1>5. \A q \in Senders : Owes(q)' => Owes(q) /\ sends'[q].key = sends[q].key
  BY <1>2 DEF Owes
<1>6. Promised'
  BY <1>1, <1>5 DEF IInv, Promised
<1>7. QED
  BY <1>2, <1>3, <1>4, <1>6 DEF IInv

LEMMA RequestStep ==
  ASSUME IInv, NEW p \in Requests, NEW key \in Keys \cup {NoKey}, Request(p, key)
  PROVE  IInv'
<1> DEFINE u == [phase |-> "opted", key |-> key]
<1>1. p \in Senders /\ p \notin Cycles
  BY OutreachConstants DEF Senders
<1>2. u \in Send /\ u.phase = "opted" /\ u.key \notin Sessions
  BY OutreachConstants DEF Send, Phases, AllKeys
<1>3. /\ sends' = [sends EXCEPT ![p] = u] /\ sends[p].phase = "idle" /\ p \in active
      /\ UNCHANGED <<active, writing, queued, today, queuedToday, reflecting, faults>>
  BY DEF Request, At
<1> HIDE DEF u
<1>4. Working(p)
  BY <1>1, <1>3 DEF Working
<1>5. p \notin Passed /\ p \notin Unrecorded
  BY <1>3 DEF Passed, Unrecorded
<1>6. Passed' = Passed /\ Unrecorded' = Unrecorded /\ Together' = Together
  <2>1. running' = running /\ active' = active
    BY <1>3 DEF reflecting
  <2>2. OutreachTypeOK /\ SendersWork
    BY DEF IInv
  <2>3. /\ Passed' = IF u.phase \in {"queue", "record"} THEN Passed \cup {p} ELSE Passed \ {p}
        /\ Unrecorded' = IF u.phase = "record" THEN Unrecorded \cup {p} ELSE Unrecorded \ {p}
        /\ Together' = Together
    BY <1>1, <1>2, <1>3, <1>4, <2>1, <2>2, Resent
  <2>4. QED
    BY <1>2, <1>5, <2>3
<1>7. Counted'
  BY <1>3, <1>6 DEF IInv, Counted
<1>8. today' \in Nat /\ queuedToday' \in Int
  BY <1>3 DEF IInv, OutreachTypeOK
<1>9. QED
  BY <1>1, <1>2, <1>3, <1>4, <1>7, <1>8, SenderAlone

LEMMA Moved ==
  ASSUME OutreachTypeOK, NEW p \in Senders, NEW phase \in Phases, Moves(p, phase)
  PROVE  \E u \in Send : /\ sends' = [sends EXCEPT ![p] = u] /\ u.phase = phase
                         /\ phase # "idle" => u.key = sends[p].key
<1>1. sends[p] \in Send
  BY DEF OutreachTypeOK
<1>2. CASE phase = "idle"
  <2>1. Quiet \in Send /\ Quiet.phase = "idle" /\ sends' = [sends EXCEPT ![p] = Quiet]
    BY <1>2 DEF Quiet, Send, Phases, Moves
  <2>2. QED
    BY <1>2, <2>1
<1>3. CASE phase # "idle"
  <2> DEFINE u == [sends[p] EXCEPT !.phase = phase]
  <2>1. sends' = [sends EXCEPT ![p] = u]
    BY <1>1, <1>3 DEF Moves
  <2>2. u \in Send /\ u.phase = phase /\ u.key = sends[p].key
    BY <1>1 DEF Send
  <2> HIDE DEF u
  <2>3. QED
    BY <2>1, <2>2
<1>4. QED
  BY <1>2, <1>3

(* The opt-in and the key are looked at: nothing has passed yet.           *)
LEMMA LooksStep ==
  ASSUME IInv, NEW p \in Senders, OptedIn(p) \/ KeyCheck(p)
  PROVE  IInv'
<1>1. PICK phase \in {"guard", "cap", "idle"} : Moves(p, phase)
  BY DEF OptedIn, KeyCheck
<1>2. OutreachTypeOK /\ SendersWork /\ Counted /\ phase \in Phases
  BY DEF IInv, Phases
<1>3. PICK u \in Send : /\ sends' = [sends EXCEPT ![p] = u] /\ u.phase = phase
                        /\ phase # "idle" => u.key = sends[p].key
  BY <1>1, <1>2, Moved
<1>4. /\ sends[p].phase \in {"opted", "guard"}
      /\ UNCHANGED <<active, writing, queued, today, queuedToday, reflecting, faults>>
  BY DEF OptedIn, KeyCheck, At
<1>5. Working(p) /\ running' = running
  BY <1>2, <1>4 DEF SendersWork, reflecting
<1>6. /\ Passed' = IF u.phase \in {"queue", "record"} THEN Passed \cup {p} ELSE Passed \ {p}
      /\ Unrecorded' = IF u.phase = "record" THEN Unrecorded \cup {p} ELSE Unrecorded \ {p}
      /\ Together' = Together
  BY <1>2, <1>3, <1>4, <1>5, Resent
<1>7. Passed' = Passed /\ Unrecorded' = Unrecorded
  BY <1>1, <1>3, <1>4, <1>6 DEF Passed, Unrecorded
<1>8. Counted'
  BY <1>2, <1>4, <1>6, <1>7 DEF Counted
<1>9. today' \in Nat /\ queuedToday' \in Int
  BY <1>2, <1>4 DEF OutreachTypeOK
<1>10. u.phase \in {"opted", "guard", "cap", "queue"} /\ u.key \in Sessions =>
         Owes(p) /\ sends[p].key = u.key
  BY <1>1, <1>3, <1>4 DEF Owes
<1>11. QED
  BY <1>3, <1>4, <1>5, <1>8, <1>9, <1>10, SenderAlone

(* A message passes while the rows are below the cap; of those that are     *)
(* past it there are as many as senders.                                   *)
LEMMA CapStep ==
  ASSUME IInv, NEW p \in Senders, CapCheck(p)
  PROVE  IInv'
<1>1. PICK phase \in {"queue", "idle"} : Moves(p, phase) /\ (phase = "queue" => today < Cap)
  BY DEF CapCheck, WithinCap
<1>2. OutreachTypeOK /\ OneCycle /\ SendersWork /\ Counted /\ phase \in Phases
  BY DEF IInv, Phases
<1>3. PICK u \in Send : /\ sends' = [sends EXCEPT ![p] = u] /\ u.phase = phase
                        /\ phase # "idle" => u.key = sends[p].key
  BY <1>1, <1>2, Moved
<1>4. /\ sends[p].phase = "cap"
      /\ UNCHANGED <<active, writing, queued, today, queuedToday, reflecting, faults>>
  BY DEF CapCheck, At
<1>5. Working(p) /\ running' = running
  BY <1>2, <1>4 DEF SendersWork, reflecting
<1>6. /\ Passed' = IF u.phase \in {"queue", "record"} THEN Passed \cup {p} ELSE Passed \ {p}
      /\ Unrecorded' = IF u.phase = "record" THEN Unrecorded \cup {p} ELSE Unrecorded \ {p}
      /\ Together' = Together
  BY <1>2, <1>3, <1>4, <1>5, Resent
<1>7. p \notin Passed /\ p \notin Unrecorded
  BY <1>4 DEF Passed, Unrecorded
<1>8. Unrecorded' = Unrecorded
  BY <1>1, <1>3, <1>6, <1>7
<1>9. Counted'
  <2>1. CASE phase = "idle"
    <3>1. Passed' = Passed
      BY <1>3, <1>6, <1>7, <2>1
    <3>2. QED
      BY <1>2, <1>4, <1>6, <1>8, <3>1 DEF Counted
  <2>2. CASE phase = "queue"
    <3>1. Passed' \subseteq {q \in Senders : sends[q].phase # "idle"}
      BY <1>3, <1>4, <1>6, <2>2 DEF Passed
    <3>2. Cardinality(Passed') \in Nat /\ Cardinality(Passed') <= Together /\ Together \in Nat
      BY <1>2, <3>1, AtMostTogether
    <3>3. today \in Nat /\ today < Cap /\ Cap \in Nat
      BY <1>1, <1>2, <2>2, OutreachConstants DEF OutreachTypeOK
    <3>4. today' + Cardinality(Passed') <= Cap + Together' - 1
      BY <1>4, <1>6, <3>2, <3>3
    <3>5. QED
      BY <1>2, <1>4, <1>6, <1>8, <3>4 DEF Counted
  <2>3. QED
    BY <2>1, <2>2
<1>10. today' \in Nat /\ queuedToday' \in Int
  BY <1>2, <1>4 DEF OutreachTypeOK
<1>11. u.phase \in {"opted", "guard", "cap", "queue"} /\ u.key \in Sessions =>
         Owes(p) /\ sends[p].key = u.key
  BY <1>1, <1>3, <1>4 DEF Owes
<1>12. QED
  BY <1>3, <1>4, <1>5, <1>9, <1>10, <1>11, SenderAlone

LEMMA RecordStep ==
  ASSUME IInv, NEW p \in Senders, Record(p)
  PROVE  IInv'
<1>1. OutreachTypeOK /\ OneCycle /\ SendersWork /\ Counted /\ "idle" \in Phases
  BY DEF IInv, Phases
<1>2. PICK u \in Send : sends' = [sends EXCEPT ![p] = u] /\ u.phase = "idle"
  BY <1>1, Moved DEF Record
<1>3. /\ sends[p].phase = "record" /\ today' = today + 1
      /\ UNCHANGED <<active, writing, queued, queuedToday, reflecting, faults>>
  BY DEF Record, At, Recorded
<1>4. Working(p) /\ running' = running
  BY <1>1, <1>3 DEF SendersWork, reflecting
<1>5. /\ Passed' = IF u.phase \in {"queue", "record"} THEN Passed \cup {p} ELSE Passed \ {p}
      /\ Unrecorded' = IF u.phase = "record" THEN Unrecorded \cup {p} ELSE Unrecorded \ {p}
      /\ Together' = Together
  BY <1>1, <1>2, <1>3, <1>4, Resent
<1>6. Passed' = Passed \ {p} /\ Unrecorded' = Unrecorded \ {p}
  BY <1>2, <1>5
<1>7. p \in Passed /\ p \in Unrecorded
  BY <1>3 DEF Passed, Unrecorded
<1>8. /\ IsFiniteSet(Passed) /\ Cardinality(Passed) \in Nat
      /\ IsFiniteSet(Unrecorded) /\ Cardinality(Unrecorded) \in Nat /\ Together \in Nat
  BY <1>1, Counts
<1>9. /\ Cardinality(Passed') = Cardinality(Passed) - 1
      /\ Cardinality(Unrecorded') = Cardinality(Unrecorded) - 1
  BY <1>6, <1>7, <1>8, FS_RemoveElement
<1>10. /\ today \in Nat /\ queuedToday \in Int /\ faults \in Nat /\ Cap \in Nat
       /\ Together * faults \in Nat /\ Together' * faults' = Together * faults
  BY <1>1, <1>3, <1>5, <1>8, OutreachConstants DEF OutreachTypeOK
<1>11. Counted'
  <2>1. today' + Cardinality(Passed') <= Cap + Together' - 1
    BY <1>1, <1>3, <1>5, <1>8, <1>9, <1>10 DEF Counted
  <2>2. queuedToday' <= today' + Cardinality(Unrecorded') + Together' * faults'
    BY <1>1, <1>3, <1>8, <1>9, <1>10 DEF Counted
  <2>3. QED
    BY <2>1, <2>2 DEF Counted
<1>12. today' \in Nat /\ queuedToday' \in Int
  BY <1>3, <1>10
<1>13. QED
  BY <1>2, <1>3, <1>4, <1>11, <1>12, SenderAlone

(* The job is queued; if it is a follow-up, it was owed, and no other is.   *)
LEMMA EnqueueStep ==
  ASSUME IInv, NEW p \in Senders, Enqueue(p)
  PROVE  IInv'
<1> DEFINE key == sends[p].key
<1>1. /\ OutreachTypeOK /\ OneCycle /\ SendersWork /\ Counted /\ "record" \in Phases
      /\ Promised /\ Once
  BY DEF IInv, Phases
<1>2. PICK u \in Send : sends' = [sends EXCEPT ![p] = u] /\ u.phase = "record"
  BY <1>1, Moved DEF Enqueue
<1>3. /\ sends[p].phase = "queue" /\ queuedToday' = queuedToday + 1
      /\ queued' = [k \in AllKeys |-> IF k = key THEN queued[k] + 1 ELSE queued[k]]
      /\ UNCHANGED <<active, writing, today, reflecting, faults>>
  BY DEF Enqueue, At
<1>4. UNCHANGED <<reflections, todo, running>> /\ Working(p)
  BY <1>1, <1>3 DEF SendersWork, reflecting
<1>5. /\ sends' \in [Senders -> Send] /\ SendersWork'
      /\ sends'[p] = u /\ \A q \in Senders : q # p => sends'[q] = sends[q]
      /\ Passed' = IF u.phase \in {"queue", "record"} THEN Passed \cup {p} ELSE Passed \ {p}
      /\ Unrecorded' = IF u.phase = "record" THEN Unrecorded \cup {p} ELSE Unrecorded \ {p}
      /\ Together' = Together
  BY <1>1, <1>2, <1>3, <1>4, Resent
<1>6. Passed' = Passed /\ Unrecorded' = Unrecorded \cup {p} /\ p \notin Unrecorded
  BY <1>2, <1>3, <1>5 DEF Passed, Unrecorded
<1>7. OutreachTypeOK'
  <2>1. queued' \in [AllKeys -> Nat]
    BY <1>1, <1>3 DEF OutreachTypeOK
  <2>2. QED
    BY <1>1, <1>3, <1>4, <1>5, <2>1 DEF OutreachTypeOK
<1>8. MetadataFit' /\ OneCycle'
  BY <1>3, <1>4, MetadataKept DEF IInv, OneCycle
<1>9. \A s \in Sessions : s \in AllKeys /\ queued'[s] = IF s = key THEN queued[s] + 1 ELSE queued[s]
  BY <1>3 DEF AllKeys
<1>10. key \in Sessions => Owes(p)
  BY <1>3 DEF Owes
<1> HIDE DEF key
<1>11. key \in Sessions => reflections[key] > 0 /\ queued[key] = 0
                           /\ \A q \in Senders : Owes(q) /\ sends[q].key = key => q = p
  BY <1>1, <1>10 DEF Promised, key
<1>12. Promised'
  <2>1. SUFFICES ASSUME NEW q \in Senders, Owes(q)'
                 PROVE  /\ reflections[sends'[q].key] > 0 /\ queued'[sends'[q].key] = 0
                        /\ \A r \in Senders : Owes(r)' /\ sends'[r].key = sends'[q].key => r = q
    BY <1>4 DEF Promised
  <2>2. \A r \in Senders : Owes(r)' => r # p /\ Owes(r) /\ sends'[r].key = sends[r].key
    BY <1>2, <1>5 DEF Owes
  <2>3. q # p /\ Owes(q) /\ sends'[q].key = sends[q].key
    BY <2>1, <2>2
  <2>4. sends[q].key \in Sessions /\ sends[q].key # key
    BY <1>11, <2>3 DEF Owes
  <2>5. QED
    BY <1>1, <1>9, <2>2, <2>3, <2>4 DEF Promised
<1>13. Once'
  <2>1. \A s \in Sessions : reflections[s] \in Nat /\ queued[s] \in Nat
    BY <1>1 DEF OutreachTypeOK, AllKeys
  <2>2. QED
    BY <1>1, <1>4, <1>9, <1>11, <2>1 DEF Once
<1>14. Counted'
  <2>1. /\ IsFiniteSet(Unrecorded) /\ Cardinality(Unrecorded) \in Nat /\ Together \in Nat
    BY <1>1, Counts
  <2>2. Cardinality(Unrecorded') = Cardinality(Unrecorded) + 1
    BY <1>6, <2>1, FS_AddElement
  <2>3. /\ today \in Nat /\ queuedToday \in Int /\ faults \in Nat
        /\ Together * faults \in Nat /\ Together' * faults' = Together * faults
    BY <1>1, <1>3, <1>5, <2>1 DEF OutreachTypeOK
  <2>4. queuedToday' <= today' + Cardinality(Unrecorded') + Together' * faults'
    BY <1>1, <1>3, <2>1, <2>2, <2>3 DEF Counted
  <2>5. QED
    BY <1>1, <1>3, <1>5, <1>6, <2>4 DEF Counted
<1>15. QED
  BY <1>5, <1>7, <1>8, <1>12, <1>13, <1>14 DEF IInv

LEMMA DayPassesStep ==
  ASSUME IInv, DayPasses
  PROVE  IInv'
<1>1. /\ today > 0 /\ today' = today - 1 /\ queuedToday' = queuedToday - 1
      /\ UNCHANGED <<active, sends, queued, faults>> /\ UNCHANGED writing
      /\ UNCHANGED <<reflections, todo, running>>
  BY DEF DayPasses, reflecting
<1>2. OutreachTypeOK'
  BY <1>1 DEF IInv, OutreachTypeOK
<1>3. MetadataFit' /\ OneCycle' /\ SendersWork'
  BY <1>1, MetadataKept DEF IInv, OneCycle, SendersWork, Working
<1>4. Promised' /\ Once'
  BY <1>1 DEF IInv, Promised, Owes, Once
<1>5. Passed' = Passed /\ Unrecorded' = Unrecorded /\ Together' = Together
  BY <1>1 DEF Passed, Unrecorded, Together
<1>6. /\ Cardinality(Passed) \in Nat /\ Cardinality(Unrecorded) \in Nat /\ Together \in Nat
      /\ today \in Nat /\ queuedToday \in Int /\ faults \in Nat /\ Cap \in Nat
  BY Counts, OutreachConstants DEF IInv, OutreachTypeOK
<1>7. Together * faults \in Nat /\ Together' * faults' = Together * faults
  BY <1>1, <1>5, <1>6
<1>8. Counted'
  BY <1>1, <1>5, <1>6, <1>7 DEF IInv, Counted
<1>9. QED
  BY <1>2, <1>3, <1>4, <1>8 DEF IInv
-----------------------------------------------------------------------------
(* The daemon.                                                             *)
LEMMA CycleKeeps ==
  ASSUME IInv, UNCHANGED <<active, writing, sending, reflections, faults>>,
         running' \in [Cycles -> BOOLEAN], todo' = [c \in Cycles |-> todo'[c]],
         OneCycle', SendersWork'
  PROVE  IInv'
<1>1. /\ UNCHANGED <<active, sends, queued, today, queuedToday, faults, reflections>>
  BY DEF sending
<1>2. OutreachTypeOK'
  BY <1>1 DEF IInv, OutreachTypeOK
<1>3. MetadataFit' /\ Promised' /\ Once'
  BY <1>1, MetadataKept DEF IInv, Promised, Owes, Once
<1>4. Passed' = Passed /\ Unrecorded' = Unrecorded /\ Together' = Together
  BY <1>1 DEF Passed, Unrecorded, Together
<1>5. Counted'
  BY <1>1, <1>4 DEF IInv, Counted
<1>6. QED
  BY <1>2, <1>3, <1>5 DEF IInv

LEMMA SessionStep ==
  ASSUME IInv, NEW s \in Sessions, StoreMessage(s) \/ Close(s)
  PROVE  IInv'
<1>1. UNCHANGED <<active, writing, sending, reflections, todo, running, faults>> /\ sends' = sends
  BY DEF StoreMessage, Close, sending
<1>2. OneCycle' /\ SendersWork'
  BY <1>1 DEF IInv, OneCycle, SendersWork, Working
<1>3. running' \in [Cycles -> BOOLEAN] /\ todo' = [c \in Cycles |-> todo'[c]]
  BY <1>1 DEF IInv, OutreachTypeOK
<1>4. QED
  BY <1>1, <1>2, <1>3, CycleKeeps

LEMMA TickStep ==
  ASSUME IInv, NEW c \in Cycles, Tick(c)
  PROVE  IInv'
<1>1. /\ c \in active /\ \A d \in Cycles : ~running[d]
      /\ running' = [running EXCEPT ![c] = TRUE] /\ todo' = [todo EXCEPT ![c] = Batch]
      /\ UNCHANGED <<active, writing, sending, reflections, faults>> /\ sends' = sends
  BY DEF Tick, MayStart, sending
<1>2. running \in [Cycles -> BOOLEAN] /\ todo = [d \in Cycles |-> todo[d]]
  BY DEF IInv, OutreachTypeOK
<1>3. /\ running' \in [Cycles -> BOOLEAN] /\ running'[c]
      /\ \A d \in Cycles : d # c => running'[d] = running[d]
  BY <1>1, <1>2
<1>4. /\ todo' = [d \in Cycles |-> todo'[d]] /\ todo'[c] = Batch
      /\ \A d \in Cycles : d # c => todo'[d] = todo[d]
  BY <1>1, <1>2
<1>5. \A s \in Batch : reflections[s] = 0
  BY DEF Batch, Unreflected
<1>6. OneCycle'
  BY <1>1, <1>3, <1>4, <1>5 DEF IInv, OneCycle
<1>7. SendersWork'
  BY <1>1, <1>3 DEF IInv, SendersWork, Working
<1>8. QED
  BY <1>1, <1>3, <1>4, <1>6, <1>7, CycleKeeps

LEMMA ReflectFailsStep ==
  ASSUME IInv, NEW c \in Cycles, NEW s \in Sessions, ReflectFails(c, s)
  PROVE  IInv'
<1>1. /\ todo' = [todo EXCEPT ![c] = todo[c] \ {s}]
      /\ UNCHANGED <<active, writing, sending, reflections, running, faults>> /\ sends' = sends
  BY DEF ReflectFails, OnSession, sending
<1>2. running \in [Cycles -> BOOLEAN] /\ todo = [d \in Cycles |-> todo[d]]
  BY DEF IInv, OutreachTypeOK
<1>3. /\ todo' = [d \in Cycles |-> todo'[d]]
      /\ \A d \in Cycles : todo'[d] \subseteq todo[d]
  BY <1>1, <1>2
<1>4. OneCycle'
  BY <1>1, <1>3 DEF IInv, OneCycle
<1>5. SendersWork'
  BY <1>1 DEF IInv, SendersWork, Working
<1>6. QED
  BY <1>1, <1>2, <1>3, <1>4, <1>5, CycleKeeps

LEMMA CycleEndsStep ==
  ASSUME IInv, NEW c \in Cycles, CycleEnds(c)
  PROVE  IInv'
<1>1. /\ todo[c] = {} /\ sends[c].phase = "idle" /\ running' = [running EXCEPT ![c] = FALSE]
      /\ UNCHANGED <<active, writing, sending, reflections, todo, faults>> /\ sends' = sends
  BY DEF CycleEnds, MayEnd, At, sending
<1>2. running \in [Cycles -> BOOLEAN] /\ todo = [d \in Cycles |-> todo[d]]
  BY DEF IInv, OutreachTypeOK
<1>3. /\ running' \in [Cycles -> BOOLEAN] /\ ~running'[c]
      /\ \A d \in Cycles : d # c => running'[d] = running[d]
  BY <1>1, <1>2
<1>4. OneCycle'
  BY <1>1, <1>3 DEF IInv, OneCycle
<1>5. SendersWork'
  BY <1>1, <1>3 DEF IInv, SendersWork, Working
<1>6. QED
  BY <1>1, <1>2, <1>3, <1>4, <1>5, CycleKeeps

(* The session had no reflection, so no follow-up of it is under way or     *)
(* queued, and no other cycle looks at it.                                 *)
LEMMA ReflectStep ==
  ASSUME IInv, NEW c \in Cycles, NEW s \in Sessions, Reflect(c, s)
  PROVE  IInv'
<1>1. /\ OutreachTypeOK /\ OneCycle /\ SendersWork /\ Counted /\ Promised /\ Once
      /\ c \in Senders /\ s \in AllKeys
  BY DEF IInv, Senders, AllKeys
<1>2. /\ running[c] /\ sends[c].phase = "idle" /\ s \in todo[c]
      /\ todo' = [todo EXCEPT ![c] = todo[c] \ {s}]
      /\ reflections' = [reflections EXCEPT ![s] = reflections[s] + 1]
      /\ FollowUp(c, s) \/ UNCHANGED sends
      /\ UNCHANGED <<active, writing, queued, today, queuedToday, running, faults>>
  BY DEF Reflect, OnSession, At
<1>3. reflections[s] = 0 /\ queued[s] = 0
  BY <1>1, <1>2 DEF OneCycle, Once
<1>4. PICK u \in Send : /\ sends' = [sends EXCEPT ![c] = u]
                        /\ u = sends[c] \/ u = [phase |-> "opted", key |-> s]
  <2>1. CASE FollowUp(c, s)
    <3>1. [phase |-> "opted", key |-> s] \in Send
      BY <1>1 DEF Send, Phases
    <3>2. QED
      BY <2>1, <3>1 DEF FollowUp
  <2>2. CASE UNCHANGED sends
    <3>1. sends[c] \in Send /\ sends' = [sends EXCEPT ![c] = sends[c]]
      BY <1>1, <2>2 DEF OutreachTypeOK
    <3>2. QED
      BY <3>1
  <2>3. QED
    BY <1>2, <2>1, <2>2
<1>5. u.phase \in {"idle", "opted"} /\ (u.phase = "opted" => u.key = s)
  BY <1>2, <1>4
<1>6. Working(c)
  BY <1>1, <1>2 DEF SendersWork, Working
<1>7. UNCHANGED <<active, running>>
  BY <1>2
<1>8. /\ sends' \in [Senders -> Send] /\ SendersWork'
      /\ sends'[c] = u /\ \A q \in Senders : q # c => sends'[q] = sends[q]
      /\ Passed' = IF u.phase \in {"queue", "record"} THEN Passed \cup {c} ELSE Passed \ {c}
      /\ Unrecorded' = IF u.phase = "record" THEN Unrecorded \cup {c} ELSE Unrecorded \ {c}
      /\ Together' = Together
  BY <1>1, <1>4, <1>6, <1>7, Resent
<1>9. Passed' = Passed /\ Unrecorded' = Unrecorded
  BY <1>2, <1>5, <1>8 DEF Passed, Unrecorded
<1>10. /\ reflections' \in [Sessions -> Nat] /\ reflections'[s] = 1
       /\ \A t \in Sessions : t # s => reflections'[t] = reflections[t]
  BY <1>1, <1>2, <1>3 DEF OutreachTypeOK
<1>11. /\ todo' = [d \in Cycles |-> todo'[d]] /\ todo'[c] = todo[c] \ {s}
       /\ \A d \in Cycles : d # c => todo'[d] = todo[d]
  BY <1>1, <1>2 DEF OutreachTypeOK
<1>12. OutreachTypeOK'
  BY <1>1, <1>2, <1>8, <1>10, <1>11 DEF OutreachTypeOK
<1>13. MetadataFit'
  BY <1>2, MetadataKept DEF IInv
<1>14. OneCycle'
  <2>1. \A d, e \in Cycles : running'[d] /\ running'[e] => d = e
    BY <1>1, <1>2 DEF OneCycle
  <2>2. \A d \in Cycles : d # c => ~running[d] /\ todo[d] = {}
    BY <1>1, <1>2 DEF OneCycle
  <2>3. \A d \in Cycles : ~running'[d] => todo'[d] = {}
    BY <1>2, <1>11, <2>2
  <2>4. \A d \in Cycles : \A t \in Sessions : t \in todo'[d] => reflections'[t] = 0
    BY <1>1, <1>10, <1>11, <2>2 DEF OneCycle
  <2>5. QED
    BY <2>1, <2>3, <2>4 DEF OneCycle
<1>15. \A q \in Senders : Owes(q)' => \/ q = c /\ sends'[q].key = s
                                      \/ /\ q # c /\ Owes(q) /\ sends'[q].key = sends[q].key
                                         /\ sends[q].key # s
  <2>1. SUFFICES ASSUME NEW q \in Senders, Owes(q)'
                 PROVE  \/ q = c /\ sends'[q].key = s
                        \/ /\ q # c /\ Owes(q) /\ sends'[q].key = sends[q].key
                           /\ sends[q].key # s
    OBVIOUS
  <2>2. CASE q = c
    BY <1>5, <1>8, <2>1, <2>2 DEF Owes
  <2>3. CASE q # c
    <3>1. Owes(q) /\ sends'[q] = sends[q]
      BY <1>8, <2>1, <2>3 DEF Owes
    <3>2. reflections[sends[q].key] > 0
      BY <1>1, <3>1 DEF Promised
    <3>3. QED
      BY <1>3, <2>3, <3>1, <3>2
  <2>4. QED
    BY <2>2, <2>3
<1>16. Promised'
  <2>1. SUFFICES ASSUME NEW q \in Senders, Owes(q)'
                 PROVE  /\ reflections'[sends'[q].key] > 0 /\ queued[sends'[q].key] = 0
                        /\ \A r \in Senders : Owes(r)' /\ sends'[r].key = sends'[q].key => r = q
    BY <1>2 DEF Promised
  <2>2. CASE q = c /\ sends'[q].key = s
    BY <1>3, <1>10, <1>15, <2>2
  <2>3. CASE q # c /\ Owes(q) /\ sends'[q].key = sends[q].key /\ sends[q].key # s
    <3>1. /\ sends[q].key \in Sessions
          /\ reflections[sends[q].key] > 0 /\ queued[sends[q].key] = 0
          /\ \A r \in Senders : Owes(r) /\ sends[r].key = sends[q].key => r = q
      BY <1>1, <2>3 DEF Promised, Owes
    <3>2. QED
      BY <1>10, <1>15, <2>3, <3>1
  <2>4. QED
    BY <1>15, <2>1, <2>2, <2>3
<1>17. Once'
  <2>1. \A t \in Sessions : reflections'[t] <= 1 /\ queued[t] <= 1
                            /\ (reflections'[t] = 0 => queued[t] = 0)
    BY <1>1, <1>3, <1>10 DEF Once
  <2>2. QED
    BY <1>2, <2>1 DEF Once
<1>18. Counted'
  BY <1>1, <1>2, <1>8, <1>9 DEF Counted
<1>19. QED
  BY <1>8, <1>12, <1>13, <1>14, <1>16, <1>17, <1>18 DEF IInv
-----------------------------------------------------------------------------
(* A crash loses at most one row of every sender.                          *)
LEMMA CrashStep ==
  ASSUME IInv, Crash
  PROVE  IInv'
<1>1. /\ OutreachTypeOK /\ OneCycle /\ SendersWork /\ Counted /\ MetadataFit /\ Once
  BY DEF IInv
<1>2. /\ faults' = faults + 1 /\ writes' = [w \in Writers |-> Idle]
      /\ sends' = [p \in Senders |-> Quiet]
      /\ todo' = [c \in Cycles |-> {}] /\ running' = [c \in Cycles |-> FALSE]
      /\ UNCHANGED <<active, row, queued, today, queuedToday, reflections>>
  BY DEF Crash
<1>3. Quiet \in Send /\ \A p \in Senders : sends'[p].phase = "idle"
  BY <1>2 DEF Quiet, Send, Phases
<1>4. OutreachTypeOK'
  BY <1>1, <1>2, <1>3 DEF OutreachTypeOK
<1>5. MetadataFit'
  <2>1. Idle \in Metadata /\ Fits(Idle)
    BY DEF Idle, Metadata, Fits
  <2>2. QED
    BY <1>1, <1>2, <2>1 DEF MetadataFit, Fits
<1>6. OneCycle' /\ SendersWork'
  BY <1>2, <1>3 DEF OneCycle, SendersWork
<1>7. Promised' /\ Once'
  BY <1>1, <1>2, <1>3 DEF Promised, Owes, Once
<1>8. Counted'
  <2>1. Passed' = {} /\ Unrecorded' = {} /\ Together' = Together
    BY <1>2, <1>3 DEF Passed, Unrecorded, Together
  <2>2. Cardinality({}) = 0
    BY FS_EmptySet
  <2>3. /\ Cardinality(Passed) \in Nat /\ Cardinality(Unrecorded) \in Nat
        /\ Cardinality(Unrecorded) <= Together /\ Together \in Nat
    BY <1>1, Counts
  <2>4. today \in Nat /\ queuedToday \in Int /\ faults \in Nat /\ Cap \in Nat
    BY <1>1, OutreachConstants DEF OutreachTypeOK
  <2>5. today' + Cardinality(Passed') <= Cap + Together' - 1
    BY <1>1, <1>2, <2>1, <2>2, <2>3, <2>4 DEF Counted
  <2>6. Together * faults \in Nat /\ Together' * faults' = Together * faults + Together
    BY <1>2, <2>1, <2>3, <2>4
  <2>7. queuedToday' <= today' + Cardinality(Unrecorded') + Together' * faults'
    BY <1>1, <1>2, <2>1, <2>2, <2>3, <2>4, <2>6 DEF Counted
  <2>8. QED
    BY <2>5, <2>7 DEF Counted
<1>9. QED
  BY <1>4, <1>5, <1>6, <1>7, <1>8 DEF IInv

LEMMA NextStep ==
  ASSUME IInv, [Next]_vars
  PROVE  IInv'
<1>1. ASSUME NEW w \in Writers, ReadRow(w) \/ WriteRow(w)
      PROVE  IInv'
  BY <1>1, ReadRowStep, WriteRowStep
<1>2. ASSUME NEW p \in Requests, NEW key \in Keys \cup {NoKey}, Request(p, key)
      PROVE  IInv'
  BY <1>2, RequestStep
<1>3. ASSUME NEW p \in Senders, SendStep(p)
      PROVE  IInv'
  BY <1>3, LooksStep, CapStep, EnqueueStep, RecordStep DEF SendStep
<1>4. ASSUME NEW s \in Sessions, StoreMessage(s) \/ Close(s)
      PROVE  IInv'
  BY <1>4, SessionStep
<1>5. ASSUME NEW c \in Cycles, Tick(c) \/ CycleEnds(c)
      PROVE  IInv'
  BY <1>5, TickStep, CycleEndsStep
<1>6. ASSUME NEW c \in Cycles, NEW s \in Sessions, Reflect(c, s) \/ ReflectFails(c, s)
      PROVE  IInv'
  BY <1>6, ReflectStep, ReflectFailsStep
<1>7. CASE DayPasses
  BY <1>7, DayPassesStep
<1>8. CASE Crash
  BY <1>8, CrashStep
<1>9. CASE UNCHANGED vars
  <2>1. UNCHANGED <<active, sending, reflecting, faults>> /\ UNCHANGED writing
    BY <1>9 DEF vars
  <2>2. MetadataFit'
    BY <2>1, MetadataKept DEF IInv
  <2>3. QED
    BY <2>1, <2>2, OthersKept
<1>10. QED
  BY <1>1, <1>2, <1>3, <1>4, <1>5, <1>6, <1>7, <1>8, <1>9 DEF Next

LEMMA Invariant == Spec => []IInv
<1>1. Init => IInv
  BY Started
<1>2. IInv /\ [Next]_vars => IInv'
  BY NextStep
<1>3. QED
  BY <1>1, <1>2, PTL DEF Spec
-----------------------------------------------------------------------------
(* A session is reflected on once and followed up once, though a crash may  *)
(* come between the verdict, the job and its row: the verdict is stored     *)
(* before the follow-up begins, and one cycle runs at a time.               *)
THEOREM FollowedUpOnce == Spec => []OncePerSession
<1>1. IInv => OncePerSession
  BY DEF IInv, Once, OncePerSession
<1>2. QED
  BY <1>1, Invariant, PTL

(* The jobs of a day exceed the cap by the senders that read the rows       *)
(* before the others' were there and the rows that crashes lost.            *)
THEOREM CapBound == Spec => []CapKept
<1>1. IInv => CapKept
  <2>1. SUFFICES ASSUME IInv PROVE CapKept
    OBVIOUS
  <2>2. OutreachTypeOK /\ OneCycle /\ SendersWork /\ Counted
    BY <2>1 DEF IInv
  <2>3. /\ IsFiniteSet(Passed) /\ Cardinality(Passed) \in Nat /\ Together \in Nat
        /\ Cardinality(Unrecorded) \in Nat
    BY <2>2, Counts
  <2>4. Unrecorded \subseteq Passed
    BY DEF Unrecorded, Passed
  <2>5. Cardinality(Unrecorded) <= Cardinality(Passed)
    BY <2>3, <2>4, FS_Subset
  <2>6. today \in Nat /\ queuedToday \in Int /\ faults \in Nat /\ Cap \in Nat
    BY <2>2, OutreachConstants DEF OutreachTypeOK
  <2>7. Together * faults \in Nat
    BY <2>3, <2>6
  <2>8. QED
    BY <2>2, <2>3, <2>5, <2>6, <2>7 DEF Counted, CapKept
<1>2. QED
  BY <1>1, Invariant, PTL

(* No progress made in another stage survives a change of the stage: a row  *)
(* computed from a row that fits does too, whatever update it overwrites.   *)
THEOREM FlowsFit == Spec => []FlowFitsStage
<1>1. IInv => FlowFitsStage
  BY DEF IInv, MetadataFit, Fits, FlowFitsStage
<1>2. QED
  BY <1>1, Invariant, PTL
=============================================================================

--------------------------- MODULE DatabaseProofs ---------------------------
(***************************************************************************)
(* Proofs about Database: its type invariant, and that committed data      *)
(* survives every operation, crash and recovery.                           *)
(***************************************************************************)
EXTENDS Database, WellFoundedInduction, TLAPS

(* The hypotheses of the durability theorem.  Without the first, flushing  *)
(* nulls cells of a second kind and compacting mixed vectors fails halfway *)
(* (run DatabaseKinds); without the second, a segment that cannot be       *)
(* written or a failed fsync loses rows.                                   *)
OneKind == \A v, w \in Vals : Kind[v] = Kind[w]
ReliableWrites == Faults \subseteq {"manifest", "truncate"}

(* The versions of row i in a set of sources, and what it takes for a read *)
(* of the newest to be the committed row, however a tie is broken.         *)
Versions(m, ss, i) == {m[i]} \cup {s.data[i] : s \in ss}
Newest(m, ss, i) == {v \in Versions(m, ss, i) : \A u \in Versions(m, ss, i) : u.lsn <= v.lsn}
Right(m, ss, c) == \A i \in Ids : \A v \in Newest(m, ss, i) : v.row = c[i]

up == pc # "down"

(* What is read is what was committed: in memory, after a crash at this    *)
(* point, and after a crash once the manifest names the new segments.      *)
ReadsRight ==
  /\ up => Right(mem, segs, committed)
  /\ Right(Recovered(DurableLog, manifest.checkpoint), Loaded, committed)
  /\ pc \in {"manifest", "truncate"} => Right(EmptyMem, segs, committed)

(* The next LSN is above every version, the memtable's are the newest, and *)
(* what the manifest names is below its checkpoint.                        *)
StampsOrdered ==
  /\ up => LET next == IF pc = "sync" THEN req.lsn ELSE nextLsn IN
            \A i \in Ids : /\ mem[i].lsn < next
                           /\ \A s \in segs : s.data[i].lsn < next
  /\ up => \A i \in Ids : mem[i].lsn > 0 => \A s \in segs : s.data[i].lsn <= mem[i].lsn
  /\ \A f \in Loaded : \A i \in Ids : f.data[i].lsn <= manifest.checkpoint
  /\ manifest.checkpoint <= synced

(* The log ends where the fsyncs say: at the last LSN given out, but for   *)
(* the two records of a write that waits for its fsync.                    *)
LogEnds ==
  /\ pc \notin {"sync", "down"} => synced = nextLsn - 1
  /\ pc # "sync" => \A r \in wal : r.lsn <= synced
  /\ walOk => IF DurableLog = {} THEN walBase = synced + 1
              ELSE \E r \in DurableLog : r.lsn = synced
  /\ up => \A r \in wal : r.txn < nextTxn

InFlight ==
  pc = "sync" =>
    /\ req.lsn = synced + 1 /\ nextLsn = synced + 3
    /\ \A r \in DurableLog : r.txn < nextTxn - 1
    /\ \E d, c \in Record :
         /\ wal = DurableLog \cup {d, c}
         /\ d.lsn = req.lsn /\ d.txn = nextTxn - 1 /\ d.type # "Commit"
         /\ d.id = req.id /\ d.row = req.row
         /\ c.lsn = req.lsn + 1 /\ c.txn = nextTxn - 1 /\ c.type = "Commit"

(* File names are not reused while a segment of that name is in use.       *)
FilesNamed ==
  /\ \A f, g \in files : f.name = g.name => f = g
  /\ segs \subseteq files
  /\ manifest.segments \subseteq Names(files)
  /\ \A n \in manifest.segments : n < manifest.segSeq
  /\ up => /\ manifest.segSeq <= segSeq
           /\ \A s \in segs : s.name < segSeq
  /\ pc \in {"truncate", "unlink"} => manifest.segments = Names(segs)
  /\ pc = "truncate" => manifest.checkpoint = nextLsn - 1

IdsFree ==
  /\ up => \A i \in Ids : i >= nextRowId => committed[i] = Gone
  /\ pc = "sync" /\ req.row # Gone => req.id < nextRowId

(* The inductive invariant.                                                *)
IInv ==
  TypeOK /\ ReadsRight /\ StampsOrdered /\ LogEnds /\ InFlight /\ FilesNamed /\ IdsFree

(* A non-empty set of naturals has a least element.                        *)
LEMMA LeastNatural ==
  ASSUME NEW S \in SUBSET Nat, S # {}
  PROVE  \E x \in S : \A y \in S : x <= y
<1>1. PICK x \in S : \A y \in S : <<y, x>> \notin OpToRel(<, Nat)
  BY NatLessThanWellFounded, WFMin
<1>2. \A y \in S : ~ (y < x)
  BY <1>1 DEF OpToRel
<1>3. QED
  BY <1>2

(* A non-empty set of naturals with an upper bound has a greatest element, *)
(* the one Max chooses.                                                    *)
LEMMA MaxIsGreatest ==
  ASSUME NEW S \in SUBSET Nat, S # {}, NEW b \in Nat, \A x \in S : x <= b
  PROVE  /\ Max(S) \in S
         /\ \A x \in S : x <= Max(S)
<1> DEFINE T == {b - x : x \in S}
<1>1. \A x \in S : x \in Nat /\ b - x \in Nat
  OBVIOUS
<1>2. T \in SUBSET Nat
  BY <1>1
<1>3. T # {}
  OBVIOUS
<1>4. PICK n \in T : \A m \in T : n <= m
  <2> HIDE DEF T
  <2> QED BY <1>2, <1>3, LeastNatural
<1>5. PICK x \in S : n = b - x
  BY <1>4
<1>6. \A y \in S : b - x <= b - y
  BY <1>4, <1>5
<1>7. \A y \in S : y <= x
  BY <1>1, <1>6
<1>8. QED
  BY <1>7 DEF Max

(* ResolveLive returns the newest version any source holds.                *)
LEMMA ResolvedIsNewest ==
  ASSUME NEW m \in [Ids -> Version], NEW ss \in SUBSET Segment, NEW i \in Ids
  PROVE  /\ ResolveLive(m, ss, i) \in Newest(m, ss, i)
         /\ ResolveLive(m, ss, i) \in Version
<1> DEFINE Top(v) == \A s \in ss : s.data[i].lsn <= v.lsn
           First(s) == \A z \in ss : z.data[i].lsn = s.data[i].lsn => s.name <= z.name
<1>1. m[i] \in Version /\ \A s \in ss : s.data[i] \in Version /\ s.name \in Nat
  BY DEF Segment
<1>2. CASE Top(m[i])
  <2>1. ResolveLive(m, ss, i) = m[i]
    BY <1>2 DEF ResolveLive
  <2>2. QED
    BY <1>1, <1>2, <2>1 DEF Version, Newest, Versions
<1>3. CASE ~Top(m[i])
  <2> DEFINE L == {s.data[i].lsn : s \in ss}
  <2>1. L \in SUBSET Nat /\ L # {} /\ \A x \in L : x <= MaxLsn
    BY <1>1, <1>3, BoundsAssumption DEF Version
  <2>2. PICK top \in L : \A x \in L : x <= top
    <3> HIDE DEF L
    <3> QED BY <2>1, MaxIsGreatest, BoundsAssumption
  <2> DEFINE N == {s.name : s \in {z \in ss : z.data[i].lsn = top}}
  <2>3. N \in SUBSET Nat /\ N # {}
    BY <1>1, <2>2
  <2>4. PICK n \in N : \A x \in N : n <= x
    <3> HIDE DEF N
    <3> QED BY <2>3, LeastNatural
  <2>5. PICK s \in ss : s.data[i].lsn = top /\ s.name = n
    BY <2>4
  <2>6. Top(s.data[i]) /\ First(s)
    BY <2>2, <2>4, <2>5
  <2> DEFINE c == CHOOSE z \in ss : Top(z.data[i]) /\ First(z)
  <2>7. c \in ss /\ Top(c.data[i])
    BY <2>6
  <2>8. ResolveLive(m, ss, i) = c.data[i]
    BY <1>3 DEF ResolveLive
  <2>9. m[i].lsn <= c.data[i].lsn
    <3> HIDE DEF c
    <3>1. PICK z \in ss : ~(z.data[i].lsn <= m[i].lsn)
      BY <1>3
    <3>2. z.data[i].lsn <= c.data[i].lsn
      BY <2>7
    <3>3. m[i].lsn \in Nat /\ z.data[i].lsn \in Nat /\ c.data[i].lsn \in Nat
      BY <1>1, <2>7, BoundsAssumption DEF Version
    <3>4. QED
      BY <3>1, <3>2, <3>3
  <2>10. QED
    BY <1>1, <2>7, <2>8, <2>9 DEF Version, Newest, Versions
<1>4. QED
  BY <1>2, <1>3
(* Of a non-empty set of log records one has the greatest LSN.             *)
LEMMA LastRecord ==
  ASSUME NEW S \in SUBSET Record, S # {}
  PROVE  \E r \in S : \A q \in S : q.lsn <= r.lsn
<1> DEFINE L == {r.lsn : r \in S}
<1>1. L \in SUBSET Nat /\ L # {} /\ \A x \in L : x <= MaxLsn
  BY BoundsAssumption DEF Record
<1>2. PICK top \in L : \A x \in L : x <= top
  <2> HIDE DEF L
  <2> QED BY <1>1, MaxIsGreatest, BoundsAssumption
<1>3. QED
  BY <1>2

(* Recovery leaves, for each row, the last record it applies to it.        *)
LEMMA RecoveredIsLast ==
  ASSUME NEW w \in SUBSET Record, NEW ckpt \in Nat, NEW i \in Ids
  PROVE  /\ Applied(w, ckpt, i) = {} => Recovered(w, ckpt)[i] = NoVersion
         /\ Applied(w, ckpt, i) # {} =>
              \E r \in Applied(w, ckpt, i) :
                /\ Recovered(w, ckpt)[i] = [lsn |-> r.lsn, row |-> r.row]
                /\ \A q \in Applied(w, ckpt, i) : q.lsn <= r.lsn
         /\ Recovered(w, ckpt)[i] \in Version
<1> DEFINE A == Applied(w, ckpt, i)
           last == CHOOSE r \in A : \A q \in A : q.lsn <= r.lsn
<1>1. A \in SUBSET Record
  BY DEF Applied
<1>2. CASE A = {}
  BY <1>2, BoundsAssumption DEF Recovered, NoVersion, Version
<1>3. CASE A # {}
  <2>1. last \in A /\ \A q \in A : q.lsn <= last.lsn
    <3> HIDE DEF A
    <3> QED BY <1>1, <1>3, LastRecord
  <2>2. Recovered(w, ckpt)[i] = [lsn |-> last.lsn, row |-> last.row]
    BY <1>3 DEF Recovered
  <2>3. Recovered(w, ckpt)[i] \in Version
    BY <1>1, <2>1, <2>2, BoundsAssumption DEF Record, Version
  <2>4. QED
    BY <1>3, <2>1, <2>2, <2>3
<1>4. QED
  BY <1>2, <1>3

LEMMA RecoveredType ==
  ASSUME NEW w \in SUBSET Record, NEW ckpt \in Nat
  PROVE  Recovered(w, ckpt) \in [Ids -> Version]
<1>1. \A i \in Ids : Recovered(w, ckpt)[i] \in Version
  BY RecoveredIsLast
<1>2. Recovered(w, ckpt) = [i \in Ids |-> Recovered(w, ckpt)[i]]
  BY DEF Recovered
<1>3. QED
  BY <1>1, <1>2

(* Writing a segment nulls cells but keeps every version and its LSN.      *)
LEMMA EncodeType ==
  ASSUME NEW data \in [Ids -> Version]
  PROVE  /\ Encode(data) \in [Ids -> Version]
         /\ \A i \in Ids : Encode(data)[i].lsn = data[i].lsn
<1> SUFFICES ASSUME NEW i \in Ids
             PROVE  Encode(data)[i] \in Version /\ Encode(data)[i].lsn = data[i].lsn
  BY DEF Encode
<1> DEFINE cells == [c \in Cols |->
             IF i \in HasCell(data, c) /\ Kind[data[i].row.cells[c]] = InferKind(data, c)
             THEN data[i].row.cells[c] ELSE Null]
<1>1. CASE data[i].row = Gone
  BY <1>1 DEF Encode
<1>2. CASE data[i].row # Gone
  <2>1. data[i].row \in Rows /\ data[i] = [lsn |-> data[i].lsn, row |-> data[i].row]
        /\ data[i].lsn # 0 /\ data[i].lsn \in 0 .. MaxLsn
    BY <1>2 DEF Version
  <2>2. cells \in [Cols -> Vals \cup {Null}]
    BY <2>1 DEF Rows
  <2>3. Encode(data)[i] = [data[i] EXCEPT !.row.cells = cells]
    BY <1>2 DEF Encode
  <2>4. Encode(data)[i] = [lsn |-> data[i].lsn, row |-> [table |-> data[i].row.table, cells |-> cells]]
    <3> HIDE DEF cells
    <3> QED BY <2>1, <2>3 DEF Rows
  <2>5. [table |-> data[i].row.table, cells |-> cells] \in Rows
    <3> HIDE DEF cells
    <3> QED BY <2>1, <2>2 DEF Rows
  <2>6. QED
    <3> HIDE DEF cells
    <3> QED BY <2>1, <2>4, <2>5 DEF Version
<1>3. QED
  BY <1>1, <1>2

LEMMA MergedType ==
  ASSUME mem \in [Ids -> Version], segs \in SUBSET Segment
  PROVE  Merged \in [Ids -> Version]
<1>1. \A i \in Ids : ResolveLive(mem, segs, i) \in Version
  BY ResolvedIsNewest
<1>2. QED
  BY <1>1, BoundsAssumption DEF Merged, NoVersion, Version
(* Where open goes on: past every row id, LSN and transaction id on disk.  *)
LEMMA FirstFreeIdIsFree ==
  ASSUME NEW m \in [Ids -> Version], files \in SUBSET Segment, manifest \in Manifest
  PROVE  /\ FirstFreeId(m) \in 1 .. MaxId + 1
         /\ \A i \in Ids : i >= FirstFreeId(m) =>
              m[i].row = Gone /\ \A s \in Loaded : s.data[i].lsn <= 0
<1> DEFINE S == {i \in Ids : \/ i < manifest.nextRowId
                             \/ \E s \in Loaded : s.data[i].lsn > 0
                             \/ m[i].row # Gone}
           T == {0} \cup S
<1>1. T \in SUBSET Nat /\ T # {} /\ \A x \in T : x <= MaxId
  BY BoundsAssumption DEF Ids
<1>2. Max(T) \in T /\ \A x \in T : x <= Max(T)
  <2> HIDE DEF T
  <2> QED BY <1>1, MaxIsGreatest, BoundsAssumption
<1>3. Max(T) \in Nat /\ Max(T) <= MaxId
  <2> HIDE DEF T
  <2> QED BY <1>1, <1>2
<1>4. FirstFreeId(m) = 1 + Max(T)
  BY Zenon DEF FirstFreeId
<1>5. ASSUME NEW i \in Ids, i >= FirstFreeId(m) PROVE i \notin S
  <2>1. i \in Nat /\ ~(i <= Max(T))
    <3> HIDE DEF T
    <3> QED BY <1>3, <1>4, <1>5, BoundsAssumption DEF Ids
  <2>2. i \notin T
    <3> HIDE DEF T
    <3> QED BY <1>2, <2>1
  <2>3. QED
    BY <2>2
<1>6. \A s \in Loaded : \A i \in Ids : s.data[i].lsn \in Nat
  BY DEF Loaded, Segment, Version
<1>7. FirstFreeId(m) \in 1 .. MaxId + 1
  <2> HIDE DEF T
  <2> QED BY <1>3, <1>4, BoundsAssumption
<1>8. ASSUME NEW i \in Ids, i \notin S
      PROVE  m[i].row = Gone /\ \A s \in Loaded : s.data[i].lsn <= 0
  <2>1. m[i].row = Gone /\ \A s \in Loaded : ~(s.data[i].lsn > 0)
    BY <1>8
  <2>2. QED
    BY <1>6, <2>1
<1>9. QED
  <2> HIDE DEF S
  <2> QED BY <1>5, <1>7, <1>8

LEMMA FirstLsnIsNext ==
  ASSUME NEW w \in SUBSET Record, NEW base \in 1 .. MaxLsn + 1
  PROVE  /\ FirstLsn(w, base) \in 1 .. MaxLsn + 1
         /\ \A r \in w : r.lsn < FirstLsn(w, base)
         /\ w = {} => FirstLsn(w, base) = base
         /\ w # {} => \E r \in w : FirstLsn(w, base) = r.lsn + 1
<1>1. CASE w = {}
  BY <1>1 DEF FirstLsn
<1>2. CASE w # {}
  <2> DEFINE L == {r.lsn : r \in w}
  <2>1. L \in SUBSET Nat /\ L # {} /\ \A x \in L : x <= MaxLsn /\ x \in Nat
    BY <1>2, BoundsAssumption DEF Record
  <2>2. Max(L) \in L /\ \A x \in L : x <= Max(L)
    <3> HIDE DEF L
    <3> QED BY <2>1, MaxIsGreatest, BoundsAssumption
  <2>3. PICK r \in w : Max(L) = r.lsn
    BY <2>2
  <2>4. FirstLsn(w, base) = 1 + Max(L)
    BY <1>2, Zenon DEF FirstLsn
  <2>5. \A q \in w : q.lsn <= r.lsn
    BY <2>2, <2>3
  <2>6. QED
    <3> HIDE DEF L
    <3>1. FirstLsn(w, base) = r.lsn + 1 /\ r.lsn \in 1 .. MaxLsn
      BY <2>3, <2>4, BoundsAssumption DEF Record
    <3>2. QED
      BY <1>2, <2>5, <3>1, BoundsAssumption DEF Record
<1>3. QED
  BY <1>1, <1>2

LEMMA FirstTxnIsNew ==
  ASSUME NEW w \in SUBSET Record
  PROVE  /\ FirstTxn(w) \in Nat \ {0}
         /\ \A r \in w : r.txn < FirstTxn(w)
         /\ FirstTxn(w) = 1 \/ \E r \in w : FirstTxn(w) = r.txn + 1
<1> DEFINE L == {0} \cup {r.txn : r \in w}
<1>1. L \in SUBSET Nat /\ L # {} /\ \A x \in L : x <= MaxLsn
  BY BoundsAssumption DEF Record
<1>2. Max(L) \in L /\ \A x \in L : x <= Max(L)
  <2> HIDE DEF L
  <2> QED BY <1>1, MaxIsGreatest, BoundsAssumption
<1>3. FirstTxn(w) = 1 + Max(L)
  BY DEF FirstTxn
<1>4. Max(L) \in Nat /\ \A r \in w : r.txn <= Max(L) /\ r.txn \in Nat
  BY <1>1, <1>2 DEF Record
<1>5. Max(L) = 0 \/ \E r \in w : Max(L) = r.txn
  BY <1>2
<1>6. QED
  <2> HIDE DEF L
  <2> QED BY <1>3, <1>4, <1>5
-----------------------------------------------------------------------------
(* Types.                                                                  *)
LEMMA AppendType ==
  ASSUME TypeOK, pc = "idle", NEW type \in {"InsertRow", "DeleteRow"}, NEW i \in Ids,
         NEW row \in Rows \cup {Gone}, Append(type, i, row), nextRowId' \in 1 .. MaxId + 1
  PROVE  TypeOK'
<1> USE BoundsAssumption DEF TypeOK, Append
<1>1. wal' \subseteq Record /\ \A r \in wal' : r.txn <= r.lsn
  BY DEF Record, Ids
<1>2. req' \in [id : 0 .. MaxId, row : Rows \cup {Gone}, lsn : 0 .. MaxLsn]
      /\ req'.id \in Ids /\ req'.lsn > 0
  BY DEF Ids
<1>3. nextLsn' \in 1 .. MaxLsn + 1 /\ nextTxn' \in 1 .. nextLsn'
  OBVIOUS
<1>4. QED
  BY <1>1, <1>2, <1>3

LEMMA WriteSegmentType ==
  ASSUME TypeOK, NEW data \in [Ids -> Version], NEW keep \in SUBSET segs,
         WriteSegment(data, keep)
  PROVE  /\ files' \subseteq Segment /\ segs' \subseteq Segment
         /\ segSeq' \in Nat
<1>1. Encode(data) \in [Ids -> Version]
  BY EncodeType
<1>2. QED
  BY <1>1 DEF TypeOK, WriteSegment, Segment
LEMMA TypeInit == Init => TypeOK
BY BoundsAssumption
   DEF Init, TypeOK, EmptyMem, NoVersion, NoReq, Version, Manifest, Ids

LEMMA TypeStep == TypeOK /\ [Next]_vars => TypeOK'
<1> SUFFICES ASSUME TypeOK, [Next]_vars PROVE TypeOK'
  OBVIOUS
<1> USE BoundsAssumption
<1>1. EmptyMem \in [Ids -> Version]
  BY DEF EmptyMem, NoVersion, Version
<1>2. NoReq \in [id : 0 .. MaxId, row : Rows \cup {Gone}, lsn : 0 .. MaxLsn]
  BY DEF NoReq
<1>3. Blank \in [Cols -> Vals \cup {Null}]
      /\ \A cells \in [Cols -> Vals \cup {Null}], p \in Payloads :
           Overwrite(cells, p) \in [Cols -> Vals \cup {Null}]
  BY PayloadAssumption DEF Blank, Overwrite
<1>4. ASSUME NEW t \in Tables, NEW p \in Payloads, Insert(t, p) PROVE TypeOK'
  <2>1. nextRowId \in Ids /\ nextRowId' \in 1 .. MaxId + 1
    BY <1>4 DEF Insert, TypeOK, Ids
  <2>2. [table |-> t, cells |-> Overwrite(Blank, p)] \in Rows
    BY <1>3 DEF Rows
  <2>3. QED
    BY <1>4, <2>1, <2>2, AppendType DEF Insert
<1>5. ASSUME NEW t \in Tables, NEW i \in Ids, NEW p \in Payloads, Update(t, i, p) PROVE TypeOK'
  <2> DEFINE row == ResolveLive(mem, segs, i).row
  <2>1. row \in Rows
    BY <1>5, ResolvedIsNewest DEF Update, TypeOK, Version
  <2>2. [table |-> t, cells |-> Overwrite(row.cells, p)] \in Rows
    BY <1>3, <2>1 DEF Rows
  <2>3. Append("InsertRow", i, [table |-> t, cells |-> Overwrite(row.cells, p)])
        /\ nextRowId' = nextRowId /\ pc = "idle"
    BY <1>5 DEF Update
  <2>4. QED
    <3> HIDE DEF row
    <3> QED BY <2>2, <2>3, AppendType DEF TypeOK
<1>6. ASSUME NEW t \in Tables, NEW i \in Ids, Delete(t, i) PROVE TypeOK'
  BY <1>6, AppendType DEF Delete, TypeOK
<1>7. CASE Sync
  BY <1>2, <1>7 DEF Sync, TypeOK, Version
<1>8. CASE SyncFails
  BY <1>2, <1>8 DEF SyncFails, Fault, TypeOK, diskVars, memVars
<1>9. CASE Flush
  BY <1>9, WriteSegmentType DEF Flush, TypeOK
<1>10. CASE Compact
  <2>1. files' \subseteq Segment /\ segs' \subseteq Segment /\ segSeq' \in Nat
    BY <1>10, WriteSegmentType, MergedType DEF Compact, TypeOK
  <2>2. Names(segs) \subseteq Nat
    BY DEF TypeOK, Names, Segment
  <2>3. QED
    BY <1>10, <2>1, <2>2 DEF Compact, TypeOK
<1>11. CASE CompactFails
  BY <1>11 DEF CompactFails, Fault, TypeOK, diskVars
<1>12. CASE WriteManifest
  <2>1. manifest' \in Manifest
    BY <1>12 DEF WriteManifest, TypeOK, Names, Segment, Manifest
  <2>2. QED
    BY <1>12, <2>1 DEF WriteManifest, TypeOK, memVars
<1>13. CASE ManifestFails
  BY <1>13 DEF ManifestFails, Fault, TypeOK, diskVars, memVars
<1>14. CASE Truncate
  BY <1>1, <1>14 DEF Truncate, TypeOK
<1>15. CASE TruncateFails
  <2>1. wal' \in {wal, {}} /\ walOk' \in BOOLEAN /\ walBase' \in 1 .. MaxLsn + 1
    BY <1>15 DEF TruncateFails, TypeOK
  <2>2. QED
    BY <1>15, <2>1 DEF TruncateFails, Fault, TypeOK, memVars
<1>16. CASE Unlink
  BY <1>16 DEF Unlink, TypeOK, memVars
<1>17. CASE Crash
  <2>1. wal' \subseteq wal /\ walOk' \in BOOLEAN /\ walBase' \in 1 .. MaxLsn + 1
        /\ synced' \in 0 .. MaxLsn
    <3>1. PICK cut \in synced .. nextLsn - 1 :
            /\ synced' = cut
            /\ \/ wal' = {r \in wal : r.lsn <= cut} /\ UNCHANGED <<walOk, walBase>>
               \/ wal' = {} /\ walOk' = FALSE /\ UNCHANGED walBase
               \/ wal' = {} /\ walOk' = TRUE /\ walBase' = nextLsn
      BY <1>17 DEF Crash
    <3>2. synced' \in 0 .. MaxLsn
      BY <3>1 DEF TypeOK
    <3>3. QED
      BY <3>1, <3>2 DEF TypeOK
  <2>2. committed' \in [Ids -> Rows \cup {Gone}]
    <3>1. committed' = committed \/ committed' = [committed EXCEPT ![req.id] = req.row]
      BY <1>17 DEF Crash
    <3>2. QED
      BY <3>1 DEF TypeOK
  <2>3. pc' = "down" /\ mem' = EmptyMem /\ segs' = {} /\ req' = NoReq /\ old' = {}
        /\ nextRowId' = 1 /\ segSeq' = 0 /\ nextLsn' = 1 /\ nextTxn' = 1
        /\ UNCHANGED <<files, manifest, faults>>
    BY <1>17 DEF Crash
  <2>4. QED
    BY <1>1, <1>2, <2>1, <2>2, <2>3 DEF TypeOK
<1>18. CASE Open
  <2> DEFINE m == Recovered(wal, manifest.checkpoint)
  <2>1. m \in [Ids -> Version]
    <3>1. wal \in SUBSET Record /\ manifest.checkpoint \in Nat
      BY DEF TypeOK, Manifest
    <3>2. QED
      BY <3>1, RecoveredType
  <2>2. mem' = m /\ segs' = Loaded /\ nextRowId' = FirstFreeId(m) /\ segSeq' = manifest.segSeq
        /\ nextLsn' = FirstLsn(wal, walBase) /\ nextTxn' = FirstTxn(wal) /\ pc' = "idle"
        /\ UNCHANGED <<diskVars, req, old, committed, faults>>
    BY <1>18 DEF Open
  <2>3. mem' \in [Ids -> Version] /\ segs' \subseteq Segment /\ nextRowId' \in 1 .. MaxId + 1
        /\ segSeq' \in Nat
    <3> HIDE DEF m
    <3> QED BY <2>1, <2>2, FirstFreeIdIsFree DEF TypeOK, Loaded, Manifest
  <2>4. nextLsn' \in 1 .. MaxLsn + 1 /\ \A r \in wal : r.lsn < nextLsn'
    BY <2>2, FirstLsnIsNext DEF TypeOK
  <2>5. nextTxn' \in Nat \ {0} /\ (nextTxn' = 1 \/ \E r \in wal : nextTxn' = r.txn + 1)
    BY <2>2, FirstTxnIsNew DEF TypeOK
  <2>6. nextTxn' \in 1 .. nextLsn'
    BY <2>4, <2>5 DEF TypeOK, Record
  <2>7. QED
    BY <2>2, <2>3, <2>4, <2>6 DEF TypeOK, diskVars
<1>19. CASE UNCHANGED vars
  BY <1>19 DEF vars, diskVars, memVars, TypeOK
<1>20. QED
  BY <1>4, <1>5, <1>6, <1>7, <1>8, <1>9, <1>10, <1>11, <1>12, <1>13, <1>14, <1>15,
     <1>16, <1>17, <1>18, <1>19 DEF Next

(* All variables keep their types, whatever fails: no step runs past a     *)
(* bound, and no file, record or version is malformed.                     *)
THEOREM TypeCorrect == Spec => []TypeOK
<1>1. Init => TypeOK
  BY TypeInit
<1>2. TypeOK /\ [Next]_vars => TypeOK'
  BY TypeStep
<1>3. QED
  BY <1>1, <1>2, PTL DEF Spec
-----------------------------------------------------------------------------
(* What the steps of the database do to what is read.                      *)
LEMMA VersionsType ==
  ASSUME NEW m \in [Ids -> Version], NEW ss \in SUBSET Segment, NEW i \in Ids
  PROVE  /\ Versions(m, ss, i) \subseteq Version
         /\ \A v \in Versions(m, ss, i) : v.lsn \in Nat
<1>1. \A s \in ss : s.data[i] \in Version
  BY DEF Segment
<1>2. QED
  BY <1>1, BoundsAssumption DEF Versions, Version

LEMMA RightIsRead ==
  ASSUME NEW m \in [Ids -> Version], NEW ss \in SUBSET Segment, NEW c, Right(m, ss, c),
         NEW i \in Ids
  PROVE  ResolveLive(m, ss, i).row = c[i]
BY ResolvedIsNewest DEF Right

(* A write above every version of its row is what is read of it next.      *)
LEMMA RightAfterWrite ==
  ASSUME NEW m \in [Ids -> Version], NEW ss \in SUBSET Segment,
         NEW c \in [Ids -> Rows \cup {Gone}], Right(m, ss, c),
         NEW i \in Ids, NEW v \in Version,
         m[i].lsn < v.lsn, \A s \in ss : s.data[i].lsn < v.lsn
  PROVE  Right([m EXCEPT ![i] = v], ss, [c EXCEPT ![i] = v.row])
<1> DEFINE n == [m EXCEPT ![i] = v]
           d == [c EXCEPT ![i] = v.row]
<1> SUFFICES ASSUME NEW j \in Ids, NEW u \in Newest(n, ss, j) PROVE u.row = d[j]
  BY DEF Right
<1>1. CASE j = i
  <2>1. v \in Versions(n, ss, i) /\ Versions(n, ss, i) \subseteq Version
    BY VersionsType DEF Versions
  <2>2. u = v \/ u.lsn < v.lsn
    BY <1>1 DEF Newest, Versions
  <2>3. v.lsn <= u.lsn /\ u.lsn \in Nat /\ v.lsn \in Nat
    BY <1>1, <2>1, VersionsType DEF Newest
  <2>4. QED
    BY <1>1, <2>2, <2>3
<1>2. CASE j # i
  <2>1. Newest(n, ss, j) = Newest(m, ss, j)
    BY <1>2 DEF Newest, Versions
  <2>2. QED
    BY <1>2, <2>1 DEF Right
<1>3. QED
  BY <1>1, <1>2

(* A new segment that holds what the memtable holds changes nothing, with  *)
(* the memtable beside it or without.                                      *)
LEMMA RightAfterFlush ==
  ASSUME NEW m \in [Ids -> Version], NEW ss \in SUBSET Segment, NEW c, Right(m, ss, c),
         NEW f \in Segment, f.data = m
  PROVE  Right(m, ss \cup {f}, c) /\ Right(EmptyMem, ss \cup {f}, c)
<1> SUFFICES ASSUME NEW i \in Ids
             PROVE  /\ \A v \in Newest(m, ss \cup {f}, i) : v.row = c[i]
                    /\ \A v \in Newest(EmptyMem, ss \cup {f}, i) : v.row = c[i]
  BY DEF Right
<1>1. Versions(m, ss \cup {f}, i) = Versions(m, ss, i)
  BY DEF Versions
<1>2. Versions(EmptyMem, ss \cup {f}, i) = Versions(m, ss, i) \cup {NoVersion}
  BY DEF Versions, EmptyMem
<1>3. m[i] \in Versions(m, ss, i) /\ Versions(m, ss, i) \subseteq Version
  BY VersionsType DEF Versions
<1>4. ASSUME NEW v \in Newest(EmptyMem, ss \cup {f}, i) PROVE v.row = c[i]
  <2>1. CASE v \in Versions(m, ss, i)
    BY <1>2, <1>4, <2>1 DEF Newest, Right
  <2>2. CASE v = NoVersion
    <3>1. \A u \in Versions(m, ss, i) : u.lsn <= 0 /\ u.lsn \in Nat
      BY <1>2, <1>3, <1>4, <2>2, VersionsType DEF Newest, NoVersion
    <3>2. m[i] \in Newest(m, ss, i) /\ m[i].lsn = 0
      BY <1>3, <3>1 DEF Newest
    <3>3. m[i].row = Gone
      BY <1>3, <3>2 DEF Version
    <3>4. QED
      BY <2>2, <3>2, <3>3 DEF Right, NoVersion
  <2>3. QED
    BY <1>2, <1>4, <2>1, <2>2 DEF Newest
<1>5. QED
  BY <1>1, <1>4 DEF Right, Newest

(* With values of one kind nothing is nulled and every flush is possible.  *)
LEMMA EncodeLossless ==
  ASSUME OneKind, NEW data \in [Ids -> Version]
  PROVE  Encode(data) = data /\ ~Unencodable(data)
<1>1. ASSUME NEW c \in Cols, NEW i \in HasCell(data, c)
      PROVE  i \in Ids /\ data[i].row \in Rows /\ Kind[data[i].row.cells[c]] = InferKind(data, c)
  <2>1. \A j \in HasCell(data, c) : j \in Ids /\ data[j].row \in Rows /\ data[j].row.cells[c] \in Vals
    BY DEF HasCell, Version, Rows
  <2>2. Min(HasCell(data, c)) \in HasCell(data, c)
    <3>1. HasCell(data, c) \in SUBSET Nat /\ HasCell(data, c) # {}
      BY <1>1 DEF HasCell, Ids
    <3>2. \E x \in HasCell(data, c) : \A y \in HasCell(data, c) : x <= y
      BY <3>1, LeastNatural
    <3>3. QED
      BY <3>2 DEF Min
  <2>3. QED
    BY <2>1, <2>2 DEF OneKind, InferKind
<1>2. ASSUME NEW i \in Ids PROVE Encode(data)[i] = data[i]
  <2>1. CASE data[i].row = Gone
    BY <2>1 DEF Encode
  <2>2. CASE data[i].row # Gone
    <3> DEFINE cells == [c \in Cols |->
                 IF i \in HasCell(data, c) /\ Kind[data[i].row.cells[c]] = InferKind(data, c)
                 THEN data[i].row.cells[c] ELSE Null]
    <3>1. data[i].row \in Rows /\ data[i] = [lsn |-> data[i].lsn, row |-> data[i].row]
      BY <2>2 DEF Version
    <3>2. \A c \in Cols : cells[c] = data[i].row.cells[c]
      BY <1>1, <2>2 DEF HasCell
    <3>3. cells = data[i].row.cells
      BY <3>1, <3>2 DEF Rows
    <3>4. Encode(data)[i] = [data[i] EXCEPT !.row.cells = cells]
      BY <2>2 DEF Encode
    <3>5. QED
      <4> HIDE DEF cells
      <4> QED BY <3>1, <3>3, <3>4 DEF Rows
  <2>3. QED
    BY <2>1, <2>2
<1>3. Encode(data) = data
  <2>1. Encode(data) \in [Ids -> Version]
    BY EncodeType
  <2>2. QED
    BY <1>2, <2>1
<1>4. ~Unencodable(data)
  BY <1>1 DEF Unencodable
<1>5. QED
  BY <1>3, <1>4
(* compact keeps, of each row, what is read of it, at an LSN no greater.   *)
LEMMA MergedIsRight ==
  ASSUME TypeOK, Right(mem, segs, committed), NEW i \in Ids
  PROVE  /\ Merged[i].row = committed[i]
         /\ Merged[i].lsn \in {0, 1}
         /\ Merged[i].lsn = 0 => committed[i] = Gone
         /\ Merged[i].lsn <= ResolveLive(mem, segs, i).lsn
<1> DEFINE v == ResolveLive(mem, segs, i)
<1>1. v \in Version /\ v.row = committed[i]
  BY ResolvedIsNewest, RightIsRead DEF TypeOK
<1>2. Merged[i] = IF v.row = Gone THEN NoVersion ELSE [lsn |-> 1, row |-> v.row]
  BY DEF Merged
<1>3. v.row # Gone => v.lsn >= 1
  BY <1>1, BoundsAssumption DEF Version
<1>4. v.lsn \in Nat
  BY <1>1, BoundsAssumption DEF Version
<1>5. QED
  BY <1>1, <1>2, <1>3, <1>4 DEF NoVersion

LEMMA RightAfterCompact ==
  ASSUME TypeOK, Right(mem, segs, committed),
         \A i \in Ids : mem[i].lsn > 0 => \A s \in segs : s.data[i].lsn <= mem[i].lsn,
         NEW ss \in SUBSET Segment,
         \/ ss = {} /\ Merged = EmptyMem
         \/ \E f \in Segment : ss = {f} /\ f.data = Merged
  PROVE  Right(mem, ss, committed) /\ Right(EmptyMem, ss, committed)
<1> SUFFICES ASSUME NEW i \in Ids
             PROVE  /\ \A u \in Newest(mem, ss, i) : u.row = committed[i]
                    /\ \A u \in Newest(EmptyMem, ss, i) : u.row = committed[i]
  BY DEF Right
<1> DEFINE g == Merged[i]
<1>1. /\ g.row = committed[i]
      /\ g.lsn \in {0, 1}
      /\ g.lsn = 0 => committed[i] = Gone
  BY MergedIsRight
<1>2. \/ g.lsn = 0 /\ \A m : Versions(m, ss, i) = {m[i]}
      \/ \A m : Versions(m, ss, i) = {m[i], g}
  BY DEF Versions, EmptyMem, NoVersion
<1>3. mem[i] \in Version /\ mem[i].lsn \in Nat
  BY BoundsAssumption DEF TypeOK, Version
<1>4. CASE mem[i].lsn > 0
  <2>1. mem[i] \in Newest(mem, segs, i)
    BY <1>3, <1>4 DEF Newest, Versions
  <2>2. mem[i].row = committed[i]
    BY <2>1 DEF Right
  <2>3. QED
    <3>1. \A u \in Newest(mem, ss, i) : u.row = committed[i]
      BY <1>1, <1>2, <2>2 DEF Newest
    <3>2. \A u \in Newest(EmptyMem, ss, i) : u.row = committed[i]
      BY <1>1, <1>2 DEF Newest, EmptyMem, NoVersion
    <3>3. QED
      BY <3>1, <3>2
<1>5. CASE mem[i].lsn = 0
  <2>1. mem[i].row = Gone
    BY <1>3, <1>5 DEF Version
  <2>2. \A u \in Newest(mem, ss, i) : u.row = committed[i]
    BY <1>1, <1>2, <1>5, <2>1 DEF Newest
  <2>3. \A u \in Newest(EmptyMem, ss, i) : u.row = committed[i]
    BY <1>1, <1>2 DEF Newest, EmptyMem, NoVersion
  <2>4. QED
    BY <2>2, <2>3
<1>6. QED
  BY <1>3, <1>4, <1>5

(* A checkpoint past the whole log leaves recovery nothing to apply.       *)
LEMMA RecoveredNothing ==
  ASSUME NEW w \in SUBSET Record, NEW ckpt \in Nat, \A r \in w : r.lsn <= ckpt
  PROVE  Recovered(w, ckpt) = EmptyMem
<1>1. \A i \in Ids : Applied(w, ckpt, i) = {}
  BY DEF Applied, Record
<1>2. QED
  BY <1>1 DEF Recovered, EmptyMem

(* Of a write whose two records end the log, recovery applies nothing if   *)
(* the Commit record is missing, and the write after all else if it is     *)
(* there.                                                                  *)
LEMMA RecoveredUncommitted ==
  ASSUME NEW w \in SUBSET Record, NEW ckpt \in Nat, NEW d \in Record, NEW c \in Record,
         d.type # "Commit", d.id \in Ids, c.type = "Commit", c.txn = d.txn, d.lsn > ckpt,
         \A r \in w : r.lsn < d.lsn /\ r.txn < d.txn
  PROVE  Recovered(w \cup {d}, ckpt) = Recovered(w, ckpt)
<1>1. \A r \in w \cup {d} : r.lsn \in Nat /\ r.txn \in Nat
  BY BoundsAssumption DEF Record
<1>2. \A i \in Ids : Applied(w \cup {d}, ckpt, i) = Applied(w, ckpt, i)
  BY <1>1 DEF Applied
<1>3. QED
  BY <1>2 DEF Recovered

LEMMA RecoveredOthers ==
  ASSUME NEW w \in SUBSET Record, NEW ckpt \in Nat, NEW d \in Record, NEW c \in Record,
         d.type # "Commit", d.id \in Ids, c.type = "Commit", c.txn = d.txn, d.lsn > ckpt,
         \A r \in w : r.lsn < d.lsn /\ r.txn < d.txn
  PROVE  \A i \in Ids : i # d.id => Recovered(w \cup {d, c}, ckpt)[i] = Recovered(w, ckpt)[i]
<1>1. \A r \in w \cup {d, c} : r.lsn \in Nat /\ r.txn \in Nat
  BY BoundsAssumption DEF Record
<1>2. \A i \in Ids : i # d.id => Applied(w \cup {d, c}, ckpt, i) = Applied(w, ckpt, i)
  BY <1>1 DEF Applied
<1>3. QED
  BY <1>2 DEF Recovered

LEMMA RecoveredWrite ==
  ASSUME NEW w \in SUBSET Record, NEW ckpt \in Nat, NEW d \in Record, NEW c \in Record,
         d.type # "Commit", d.id \in Ids, c.type = "Commit", c.txn = d.txn, d.lsn > ckpt,
         \A r \in w : r.lsn < d.lsn /\ r.txn < d.txn
  PROVE  Recovered(w \cup {d, c}, ckpt)[d.id] = [lsn |-> d.lsn, row |-> d.row]
<1> DEFINE A == Applied(w \cup {d, c}, ckpt, d.id)
<1>1. \A r \in w \cup {d, c} : r.lsn \in Nat /\ r.txn \in Nat
  BY BoundsAssumption DEF Record
<1>2. d \in A /\ \A r \in A : r = d \/ r.lsn < d.lsn
  BY <1>1 DEF Applied
<1>3. PICK r \in A : /\ Recovered(w \cup {d, c}, ckpt)[d.id] = [lsn |-> r.lsn, row |-> r.row]
                     /\ \A q \in A : q.lsn <= r.lsn
  <2>1. w \cup {d, c} \in SUBSET Record
    OBVIOUS
  <2>2. QED
    BY <1>2, <2>1, RecoveredIsLast
<1>4. r \in w \cup {d, c}
  BY DEF Applied
<1>5. r = d
  <2> HIDE DEF A
  <2> QED BY <1>1, <1>2, <1>3, <1>4
<1>6. QED
  BY <1>3, <1>5
-----------------------------------------------------------------------------
(* The inductive invariant, one lemma per step.                            *)
LEMMA IInvInit == Init => IInv
<1> SUFFICES ASSUME Init PROVE IInv
  OBVIOUS
<1>1. TypeOK
  BY TypeInit
<1>2. DurableLog = {} /\ Loaded = {} /\ Names(files) = {}
  BY DEF Init, DurableLog, Loaded, Names
<1>3. Recovered({}, 0) = EmptyMem
  BY RecoveredNothing
<1>4. Right(EmptyMem, {}, committed)
  BY DEF Init, Right, Newest, Versions, EmptyMem, NoVersion
<1>5. ReadsRight
  BY <1>2, <1>3, <1>4 DEF Init, ReadsRight
<1>6. StampsOrdered
  BY <1>2 DEF Init, StampsOrdered, EmptyMem, NoVersion
<1>7. LogEnds /\ InFlight /\ FilesNamed
  BY <1>2 DEF Init, LogEnds, InFlight, FilesNamed, Names, up
<1>8. IdsFree
  BY DEF Init, IdsFree
<1>9. QED
  BY <1>1, <1>5, <1>6, <1>7, <1>8 DEF IInv

LEMMA SameDisk ==
  ASSUME UNCHANGED <<files, manifest>>
  PROVE  Loaded' = Loaded /\ Names(files)' = Names(files)
BY DEF Loaded, Names

(* Outside a write, the whole log is durable.                              *)
LEMMA LogIsDurable ==
  ASSUME TypeOK, LogEnds, pc # "sync"
  PROVE  DurableLog = wal
BY DEF LogEnds, DurableLog

LEMMA AppendStep ==
  ASSUME IInv, pc = "idle", NEW type \in {"InsertRow", "DeleteRow"}, NEW i \in Ids,
         NEW row \in Rows \cup {Gone}, Append(type, i, row),
         nextRowId' \in 1 .. MaxId + 1, nextRowId <= nextRowId', row # Gone => i < nextRowId'
  PROVE  IInv'
<1> DEFINE d == [lsn |-> nextLsn, txn |-> nextTxn, type |-> type, id |-> i, row |-> row]
           c == [lsn |-> nextLsn + 1, txn |-> nextTxn, type |-> "Commit", id |-> 0, row |-> Gone]
<1> USE BoundsAssumption
<1>1. TypeOK /\ TypeOK'
  BY AppendType DEF IInv
<1>2. DurableLog = wal
  BY LogIsDurable DEF IInv
<1>3. synced = nextLsn - 1 /\ nextLsn \in Nat /\ nextLsn + 1 <= MaxLsn /\ \A r \in wal : r.txn < nextTxn
  BY DEF IInv, LogEnds, Append, TypeOK, up
<1>4. wal' = wal \cup {d, c} /\ synced' = synced
  BY DEF Append
<1>5. DurableLog' = DurableLog
  <2>1. \A r \in wal : r.lsn <= synced
    BY DEF IInv, LogEnds
  <2>2. ~(d.lsn <= synced) /\ ~(c.lsn <= synced)
    BY <1>3
  <2>3. QED
    BY <1>2, <1>4, <2>1, <2>2 DEF DurableLog
<1>6. Loaded' = Loaded /\ Names(files)' = Names(files)
  BY SameDisk DEF Append
<1>7. ReadsRight'
  BY <1>5, <1>6 DEF IInv, ReadsRight, Append, up
<1>8. StampsOrdered'
  BY <1>5, <1>6 DEF IInv, StampsOrdered, Append, up
<1>9. LogEnds'
  <2>1. \A r \in wal' : r.txn < nextTxn'
    BY <1>1, <1>3, <1>4 DEF Append, TypeOK, Record
  <2>2. QED
    BY <1>5, <2>1 DEF IInv, LogEnds, Append, up
<1>10. InFlight'
  <2>1. d \in Record /\ c \in Record
    <3>1. d \in wal' /\ c \in wal'
      BY <1>4
    <3>2. wal' \subseteq Record
      BY <1>1 DEF TypeOK
    <3>3. QED
      BY <3>1, <3>2
  <2>2. req'.lsn = synced' + 1 /\ nextLsn' = synced' + 3 /\ nextTxn' = nextTxn + 1
    <3>1. req' = [id |-> i, row |-> row, lsn |-> nextLsn] /\ nextLsn' = nextLsn + 2
          /\ nextTxn' = nextTxn + 1 /\ synced' = synced
      BY DEF Append
    <3>2. nextLsn = synced + 1
      BY <1>1, <1>3 DEF TypeOK
    <3>3. req'.lsn = nextLsn
      BY <3>1
    <3>4. nextLsn' = synced' + 3
      BY <1>1, <3>1, <3>2 DEF TypeOK
    <3>5. QED
      BY <3>1, <3>2, <3>3, <3>4
  <2>3. \A r \in DurableLog' : r.txn < nextTxn' - 1
    BY <1>1, <1>2, <1>3, <1>5, <2>2 DEF TypeOK, Record
  <2>4. /\ wal' = DurableLog' \cup {d, c}
        /\ d.lsn = req'.lsn /\ d.txn = nextTxn' - 1 /\ d.type # "Commit"
        /\ d.id = req'.id /\ d.row = req'.row
        /\ c.lsn = req'.lsn + 1 /\ c.txn = nextTxn' - 1 /\ c.type = "Commit"
    BY <1>1, <1>2, <1>4, <1>5, <2>2 DEF Append, TypeOK
  <2>5. QED
    <3> HIDE DEF d, c
    <3> QED BY <2>1, <2>2, <2>3, <2>4 DEF InFlight
<1>11. FilesNamed'
  BY <1>6 DEF IInv, FilesNamed, Append, up
<1>12. IdsFree'
  <2>1. \A j \in Ids : j >= nextRowId' => j >= nextRowId
    BY <1>1 DEF TypeOK, Ids
  <2>2. QED
    BY <2>1 DEF IInv, IdsFree, Append, up
<1>13. QED
  BY <1>1, <1>7, <1>8, <1>9, <1>10, <1>11, <1>12 DEF IInv
(* A write in flight: what recovery makes of its records, both or one.     *)
LEMMA WriteInFlight ==
  ASSUME IInv, pc = "sync"
  PROVE  \E d, c \in Record :
           /\ wal = DurableLog \cup {d, c}
           /\ d.lsn = synced + 1 /\ c.lsn = synced + 2 /\ nextLsn = synced + 3
           /\ d.txn < nextTxn /\ c.txn < nextTxn
           /\ Recovered(DurableLog \cup {d}, manifest.checkpoint)
                = Recovered(DurableLog, manifest.checkpoint)
           /\ Recovered(wal, manifest.checkpoint)
                = [Recovered(DurableLog, manifest.checkpoint)
                     EXCEPT ![req.id] = [lsn |-> req.lsn, row |-> req.row]]
           /\ Right(Recovered(wal, manifest.checkpoint), Loaded,
                    [committed EXCEPT ![req.id] = req.row])
<1>1. PICK d \in Record, c \in Record :
         /\ wal = DurableLog \cup {d, c}
         /\ d.lsn = req.lsn /\ d.txn = nextTxn - 1 /\ d.type # "Commit"
         /\ d.id = req.id /\ d.row = req.row
         /\ c.lsn = req.lsn + 1 /\ c.txn = nextTxn - 1 /\ c.type = "Commit"
  BY DEF IInv, InFlight
<1>2. /\ req.lsn = synced + 1 /\ nextLsn = synced + 3
      /\ \A r \in DurableLog : r.txn < nextTxn - 1
  BY DEF IInv, InFlight
<1>3. TypeOK
  BY DEF IInv
<1>4. req.id \in Ids /\ synced \in Nat /\ nextTxn \in Nat /\ manifest.checkpoint \in Nat
      /\ req.lsn \in 1 .. MaxLsn /\ req.row \in Rows \cup {Gone} /\ manifest.checkpoint <= synced
  BY <1>3, BoundsAssumption DEF TypeOK, Manifest, IInv, StampsOrdered
<1>5. DurableLog \in SUBSET Record /\ \A r \in DurableLog : r.lsn < d.lsn /\ r.txn < d.txn
  BY <1>1, <1>2, <1>3, <1>4, BoundsAssumption DEF TypeOK, Record, DurableLog
<1>6. /\ Recovered(DurableLog \cup {d}, manifest.checkpoint)
           = Recovered(DurableLog, manifest.checkpoint)
      /\ Recovered(wal, manifest.checkpoint)
           = [Recovered(DurableLog, manifest.checkpoint)
                EXCEPT ![req.id] = [lsn |-> req.lsn, row |-> req.row]]
  <2>1. d.lsn > manifest.checkpoint /\ c.txn = d.txn /\ d.id \in Ids
        /\ d.type # "Commit" /\ c.type = "Commit" /\ manifest.checkpoint \in Nat
    BY <1>1, <1>2, <1>4
  <2> DEFINE m == Recovered(DurableLog, manifest.checkpoint)
             n == Recovered(DurableLog \cup {d, c}, manifest.checkpoint)
  <2>2. /\ Recovered(DurableLog \cup {d}, manifest.checkpoint) = m
        /\ n[d.id] = [lsn |-> d.lsn, row |-> d.row]
        /\ \A i \in Ids : i # d.id => n[i] = m[i]
    <3>1. Recovered(DurableLog \cup {d}, manifest.checkpoint) = m
      BY <1>5, <2>1, RecoveredUncommitted
    <3>2. n[d.id] = [lsn |-> d.lsn, row |-> d.row]
      BY <1>5, <2>1, RecoveredWrite
    <3>3. \A i \in Ids : i # d.id => n[i] = m[i]
      BY <1>5, <2>1, RecoveredOthers
    <3>4. QED
      BY <3>1, <3>2, <3>3
  <2>3. m \in [Ids -> Version] /\ n \in [Ids -> Version]
    <3>1. DurableLog \cup {d, c} \in SUBSET Record
      BY <1>5
    <3>2. QED
      BY <1>5, <2>1, <3>1, RecoveredType
  <2>4. n = [m EXCEPT ![d.id] = [lsn |-> d.lsn, row |-> d.row]]
    <3> HIDE DEF m, n
    <3> QED BY <2>1, <2>2, <2>3
  <2>5. QED
    BY <1>1, <2>2, <2>4
<1>7. Right(Recovered(wal, manifest.checkpoint), Loaded, [committed EXCEPT ![req.id] = req.row])
  <2> DEFINE m == Recovered(DurableLog, manifest.checkpoint)
             v == [lsn |-> req.lsn, row |-> req.row]
  <2>1. m \in [Ids -> Version] /\ Right(m, Loaded, committed)
    BY <1>4, <1>5, RecoveredType DEF IInv, ReadsRight
  <2>2. Loaded \in SUBSET Segment /\ committed \in [Ids -> Rows \cup {Gone}]
    BY <1>3 DEF TypeOK, Loaded
  <2>3. v \in Version
    BY <1>4 DEF Version
  <2>4. m[req.id].lsn < v.lsn
    <3>1. CASE Applied(DurableLog, manifest.checkpoint, req.id) = {}
      <4>1. m[req.id] = NoVersion
        BY <1>4, <1>5, <3>1, RecoveredIsLast
      <4>2. QED
        <5> HIDE DEF m
        <5> QED BY <1>4, <4>1 DEF NoVersion
    <3>2. CASE Applied(DurableLog, manifest.checkpoint, req.id) # {}
      <4>1. PICK r \in Applied(DurableLog, manifest.checkpoint, req.id) :
               m[req.id] = [lsn |-> r.lsn, row |-> r.row]
        BY <1>4, <1>5, <3>2, RecoveredIsLast
      <4>2. r \in DurableLog /\ m[req.id].lsn = r.lsn
        <5> HIDE DEF m
        <5> QED BY <4>1 DEF Applied
      <4>3. QED
        <5> HIDE DEF m
        <5> QED BY <1>1, <1>5, <4>2
    <3>3. QED
      BY <3>1, <3>2
  <2>5. \A s \in Loaded : s.data[req.id].lsn < v.lsn
    <3>1. \A s \in Loaded : s.data[req.id].lsn <= manifest.checkpoint /\ s.data[req.id].lsn \in Nat
      BY <1>4, <2>2, BoundsAssumption DEF IInv, StampsOrdered, Segment, Version
    <3>2. QED
      BY <1>2, <1>4, <3>1
  <2>6. Right([m EXCEPT ![req.id] = v], Loaded, [committed EXCEPT ![req.id] = v.row])
    <3> HIDE DEF m, v
    <3> QED BY <1>4, <2>1, <2>2, <2>3, <2>4, <2>5, RightAfterWrite
  <2>7. QED
    BY <1>6, <2>6
<1>8. d.lsn = synced + 1 /\ c.lsn = synced + 2 /\ d.txn < nextTxn /\ c.txn < nextTxn
  BY <1>1, <1>2, <1>4
<1>9. QED
  BY <1>1, <1>2, <1>6, <1>7, <1>8

LEMMA SyncStep == ASSUME IInv, Sync PROVE IInv'
<1> USE BoundsAssumption
<1>1. TypeOK /\ TypeOK'
  BY TypeStep DEF IInv, Next
<1>2. PICK d \in Record, c \in Record :
        /\ wal = DurableLog \cup {d, c}
        /\ d.lsn = synced + 1 /\ c.lsn = synced + 2 /\ nextLsn = synced + 3
        /\ Right(Recovered(wal, manifest.checkpoint), Loaded,
                 [committed EXCEPT ![req.id] = req.row])
  BY WriteInFlight DEF Sync
<1>3. /\ req.lsn = synced + 1 /\ req.id \in Ids /\ synced \in Nat /\ nextLsn \in Nat
      /\ \A r \in wal : r.lsn \in Nat
  BY <1>1 DEF IInv, InFlight, TypeOK, Sync, Record
<1>4. \A r \in wal' : r.lsn <= synced'
  BY <1>2, <1>3 DEF Sync, DurableLog
<1>5. DurableLog' = wal
  BY <1>4 DEF DurableLog, Sync
<1>6. Loaded' = Loaded /\ Names(files)' = Names(files)
  BY SameDisk DEF Sync
<1>7. \A i \in Ids : mem[i].lsn < req.lsn /\ \A s \in segs : s.data[i].lsn < req.lsn
  BY DEF IInv, StampsOrdered, Sync, up
<1>8. ReadsRight'
  <2> DEFINE v == [lsn |-> req.lsn, row |-> req.row]
  <2>1. v \in Version /\ Right(mem, segs, committed)
    BY <1>1 DEF TypeOK, Version, Sync, IInv, ReadsRight, up
  <2>2. Right([mem EXCEPT ![req.id] = v], segs, [committed EXCEPT ![req.id] = v.row])
    <3>1. mem[req.id].lsn < v.lsn /\ \A s \in segs : s.data[req.id].lsn < v.lsn
      BY <1>3, <1>7
    <3>2. QED
      <4> HIDE DEF v
      <4> QED BY <1>1, <1>3, <2>1, <3>1, RightAfterWrite DEF TypeOK
  <2>3. Right(mem', segs', committed')
    BY <2>2 DEF Sync
  <2>4. QED
    BY <1>2, <1>5, <1>6, <2>3 DEF ReadsRight, Sync
<1>9. StampsOrdered'
  <2>1. \A i \in Ids : mem'[i] \in {mem[i], [lsn |-> req.lsn, row |-> req.row]}
    BY <1>1 DEF Sync, TypeOK
  <2>2. \A i \in Ids : mem[i].lsn \in Nat /\ \A s \in segs : s.data[i].lsn \in Nat
    BY <1>1 DEF TypeOK, Version, Segment
  <2>3. \A i \in Ids : mem'[i].lsn < nextLsn /\ \A s \in segs : s.data[i].lsn < nextLsn
    BY <1>2, <1>3, <1>7, <2>1, <2>2
  <2>4. \A i \in Ids : mem'[i].lsn > 0 => \A s \in segs : s.data[i].lsn <= mem'[i].lsn
    <3>1. \A i \in Ids : mem[i].lsn > 0 => \A s \in segs : s.data[i].lsn <= mem[i].lsn
      BY DEF IInv, StampsOrdered, Sync, up
    <3>2. QED
      BY <1>3, <1>7, <2>1, <2>2, <3>1
  <2>5. manifest.checkpoint <= synced' /\ \A f \in Loaded : \A i \in Ids : f.data[i].lsn <= manifest.checkpoint
    BY <1>1, <1>2, <1>3 DEF IInv, StampsOrdered, Sync, TypeOK, Manifest
  <2>6. QED
    BY <1>6, <2>3, <2>4, <2>5 DEF StampsOrdered, Sync, up
<1>10. LogEnds'
  <2>1. synced' = nextLsn - 1 /\ c.lsn = synced' /\ c \in DurableLog'
    BY <1>2, <1>3, <1>5 DEF Sync
  <2>2. QED
    BY <1>4, <2>1 DEF IInv, LogEnds, Sync, up
<1>11. InFlight'
  BY DEF InFlight, Sync
<1>12. FilesNamed'
  BY <1>6 DEF IInv, FilesNamed, Sync, up
<1>13. IdsFree'
  BY <1>1, <1>3 DEF IInv, IdsFree, Sync, up, TypeOK, Ids
<1>14. QED
  BY <1>1, <1>8, <1>9, <1>10, <1>11, <1>12, <1>13 DEF IInv
(* When the manifest names the resident segments, open loads just those.   *)
LEMMA LoadedAreSegs ==
  ASSUME FilesNamed, manifest.segments = Names(segs)
  PROVE  Loaded = segs
BY DEF FilesNamed, Loaded, Names

LEMMA CrashStep == ASSUME IInv, Crash PROVE IInv'
<1> USE BoundsAssumption
<1>1. TypeOK /\ TypeOK'
  BY TypeStep DEF IInv, Next
<1>2. PICK cut \in synced .. nextLsn - 1 :
        /\ synced' = cut
        /\ \/ /\ wal' = {r \in wal : r.lsn <= cut}
              /\ UNCHANGED <<walOk, walBase>>
           \/ pc = "truncate" /\ wal' = {} /\ walOk' = FALSE /\ UNCHANGED walBase
           \/ pc = "truncate" /\ wal' = {} /\ walOk' = TRUE /\ walBase' = nextLsn
        /\ committed' = IF pc = "sync" /\ cut = nextLsn - 1
                        THEN [committed EXCEPT ![req.id] = req.row] ELSE committed
  BY DEF Crash
<1>3. pc # "down" /\ pc' = "down" /\ UNCHANGED <<files, manifest, faults>>
      /\ segs' = {}
  BY DEF Crash
<1>4. synced \in Nat /\ nextLsn \in Nat /\ manifest.checkpoint \in Nat /\ \A r \in wal : r.lsn \in Nat
  BY <1>1 DEF TypeOK, Manifest, Record
<1>5. Loaded' = Loaded /\ Names(files)' = Names(files)
  BY <1>3, SameDisk
<1>6. /\ \A r \in wal' : r.lsn <= synced'
      /\ Right(Recovered(wal', manifest.checkpoint), Loaded, committed')
      /\ walOk' => IF wal' = {} THEN walBase' = synced' + 1 ELSE \E r \in wal' : r.lsn = synced'
  <2>1. CASE pc = "sync"
    <3>1. PICK d \in Record, c \in Record :
            /\ wal = DurableLog \cup {d, c}
            /\ d.lsn = synced + 1 /\ c.lsn = synced + 2 /\ nextLsn = synced + 3
            /\ Recovered(DurableLog \cup {d}, manifest.checkpoint)
                 = Recovered(DurableLog, manifest.checkpoint)
            /\ Right(Recovered(wal, manifest.checkpoint), Loaded,
                     [committed EXCEPT ![req.id] = req.row])
      BY <2>1, WriteInFlight
    <3>2. /\ \A r \in DurableLog : r.lsn <= synced /\ r.lsn \in Nat
          /\ wal' = {r \in wal : r.lsn <= cut} /\ walOk' = walOk /\ walBase' = walBase
      BY <1>2, <1>4, <2>1 DEF DurableLog
    <3>3. /\ Right(Recovered(DurableLog, manifest.checkpoint), Loaded, committed)
          /\ walOk => IF DurableLog = {} THEN walBase = synced + 1
                      ELSE \E r \in DurableLog : r.lsn = synced
      BY DEF IInv, ReadsRight, LogEnds
    <3>4. CASE cut = synced
      <4>1. wal' = DurableLog /\ committed' = committed
        BY <1>2, <1>4, <3>1, <3>2, <3>4
      <4>2. QED
        BY <1>2, <3>2, <3>3, <3>4, <4>1
    <3>5. CASE cut = synced + 1
      <4>1. wal' = DurableLog \cup {d} /\ committed' = committed
        BY <1>2, <1>4, <3>1, <3>2, <3>5
      <4>2. \A r \in wal' : r.lsn <= synced'
        BY <1>2, <3>2
      <4>3. QED
        BY <1>2, <1>4, <3>1, <3>2, <3>3, <3>5, <4>1
    <3>6. CASE cut = synced + 2
      <4>1. wal' = wal /\ committed' = [committed EXCEPT ![req.id] = req.row]
        BY <1>2, <1>4, <2>1, <3>1, <3>2, <3>6
      <4>2. \A r \in wal' : r.lsn <= synced'
        BY <1>2, <3>2
      <4>3. c \in wal' /\ c.lsn = synced'
        BY <1>2, <3>1, <3>6, <4>1
      <4>4. QED
        BY <3>1, <3>2, <4>1, <4>2, <4>3
    <3>7. QED
      BY <1>2, <1>4, <3>1, <3>4, <3>5, <3>6
  <2>2. CASE pc # "sync"
    <3>1. synced = nextLsn - 1 /\ DurableLog = wal /\ \A r \in wal : r.lsn <= synced
      BY <1>1, <1>3, <2>2, LogIsDurable DEF IInv, LogEnds
    <3>2. cut = synced /\ synced' = synced /\ committed' = committed
      BY <1>2, <1>4, <2>2, <3>1
    <3>3. CASE wal' = {r \in wal : r.lsn <= cut} /\ UNCHANGED <<walOk, walBase>>
      <4>1. wal' = wal
        BY <3>1, <3>2, <3>3
      <4>2. QED
        BY <3>1, <3>2, <3>3, <4>1 DEF IInv, ReadsRight, LogEnds
    <3>4. ASSUME pc = "truncate", wal' = {}
          PROVE  Right(Recovered(wal', manifest.checkpoint), Loaded, committed')
      <4>1. Recovered({}, manifest.checkpoint) = EmptyMem
        BY <1>4, RecoveredNothing
      <4>2. Loaded = segs
        BY <3>4, LoadedAreSegs DEF IInv, FilesNamed
      <4>3. Right(EmptyMem, segs, committed)
        BY <3>4 DEF IInv, ReadsRight
      <4>4. QED
        BY <3>2, <3>4, <4>1, <4>2, <4>3
    <3>5. CASE pc = "truncate" /\ wal' = {} /\ walOk' = FALSE
      BY <3>4, <3>5
    <3>6. CASE pc = "truncate" /\ wal' = {} /\ walOk' = TRUE /\ walBase' = nextLsn
      <4>1. walBase' = synced' + 1
        BY <1>4, <3>1, <3>2, <3>6
      <4>2. QED
        BY <3>4, <3>6, <4>1
    <3>7. QED
      BY <1>2, <3>3, <3>5, <3>6
  <2>3. QED
    BY <2>1, <2>2
<1>7. DurableLog' = wal'
  BY <1>6 DEF DurableLog
<1>8. ReadsRight'
  BY <1>3, <1>5, <1>6, <1>7 DEF ReadsRight, up
<1>9. StampsOrdered'
  <2>1. manifest.checkpoint <= synced'
    BY <1>2, <1>4 DEF IInv, StampsOrdered
  <2>2. QED
    BY <1>3, <1>5, <2>1 DEF IInv, StampsOrdered, up
<1>10. LogEnds'
  BY <1>3, <1>6, <1>7 DEF LogEnds, up
<1>11. InFlight' /\ IdsFree'
  BY <1>3 DEF InFlight, IdsFree, up
<1>12. FilesNamed'
  BY <1>3, <1>5 DEF IInv, FilesNamed, up
<1>13. QED
  BY <1>1, <1>8, <1>9, <1>10, <1>11, <1>12 DEF IInv

LEMMA OpenStep == ASSUME IInv, Open PROVE IInv'
<1> DEFINE m == Recovered(wal, manifest.checkpoint)
<1> USE BoundsAssumption
<1>1. TypeOK /\ TypeOK'
  BY TypeStep DEF IInv, Next
<1>2. pc = "down" /\ walOk /\ mem' = m /\ segs' = Loaded /\ nextRowId' = FirstFreeId(m)
      /\ segSeq' = manifest.segSeq /\ nextLsn' = FirstLsn(wal, walBase)
      /\ nextTxn' = FirstTxn(wal) /\ pc' = "idle"
      /\ UNCHANGED <<diskVars, committed>>
  BY DEF Open
<1>3. wal \in SUBSET Record /\ manifest.checkpoint \in Nat /\ synced \in Nat
      /\ walBase \in 1 .. MaxLsn + 1 /\ files \in SUBSET Segment /\ manifest \in Manifest
      /\ Loaded \in SUBSET Segment
  BY <1>1 DEF TypeOK, Manifest, Loaded
<1>4. DurableLog = wal /\ \A r \in wal : r.lsn <= synced
  BY <1>1, <1>2, LogIsDurable DEF IInv, LogEnds
<1>5. DurableLog' = DurableLog /\ Loaded' = Loaded /\ Names(files)' = Names(files)
  BY <1>2, SameDisk DEF DurableLog, diskVars
<1>6. Right(m, Loaded, committed) /\ m \in [Ids -> Version]
  BY <1>2, <1>3, <1>4, RecoveredType DEF IInv, ReadsRight
<1>7. nextLsn' = synced + 1
  <2>1. IF wal = {} THEN walBase = synced + 1 ELSE \E r \in wal : r.lsn = synced
    BY <1>2, <1>4 DEF IInv, LogEnds
  <2>2. CASE wal = {}
    BY <1>2, <1>3, <2>1, <2>2, FirstLsnIsNext
  <2>3. CASE wal # {}
    <3>1. \A r \in wal : r.lsn < nextLsn' /\ r.lsn \in Nat
      BY <1>2, <1>3, FirstLsnIsNext DEF Record
    <3>2. PICK q \in wal : nextLsn' = q.lsn + 1
      BY <1>2, <1>3, <2>3, FirstLsnIsNext
    <3>3. PICK r \in wal : r.lsn = synced
      BY <2>1, <2>3
    <3>4. QED
      BY <1>3, <1>4, <3>1, <3>2, <3>3
  <2>4. QED
    BY <2>2, <2>3
<1>8. ReadsRight'
  BY <1>2, <1>4, <1>5, <1>6 DEF ReadsRight, diskVars
<1>9. \A i \in Ids : /\ m[i].lsn \in Nat /\ m[i].lsn <= synced
                     /\ m[i].lsn > 0 => m[i].lsn > manifest.checkpoint
  <2> SUFFICES ASSUME NEW i \in Ids
               PROVE  /\ m[i].lsn \in Nat /\ m[i].lsn <= synced
                      /\ m[i].lsn > 0 => m[i].lsn > manifest.checkpoint
    OBVIOUS
  <2>1. CASE Applied(wal, manifest.checkpoint, i) = {}
    <3>1. m[i] = NoVersion
      BY <1>3, <2>1, RecoveredIsLast
    <3>2. QED
      <4> HIDE DEF m
      <4> QED BY <1>3, <3>1 DEF NoVersion
  <2>2. CASE Applied(wal, manifest.checkpoint, i) # {}
    <3>1. PICK r \in Applied(wal, manifest.checkpoint, i) : m[i] = [lsn |-> r.lsn, row |-> r.row]
      BY <1>3, <2>2, RecoveredIsLast
    <3>2. m[i].lsn = r.lsn /\ r \in wal /\ r.lsn > manifest.checkpoint
      <4> HIDE DEF m
      <4> QED BY <3>1 DEF Applied
    <3>3. QED
      <4> HIDE DEF m
      <4> QED BY <1>3, <1>4, <3>2 DEF Record
  <2>3. QED
    BY <2>1, <2>2
<1>10. \A i \in Ids : \A s \in Loaded : s.data[i].lsn \in Nat /\ s.data[i].lsn <= manifest.checkpoint
  BY <1>3 DEF IInv, StampsOrdered, Segment, Version
<1>11. StampsOrdered'
  <2> HIDE DEF m
  <2>1. manifest.checkpoint <= synced
    BY DEF IInv, StampsOrdered
  <2>2. \A i \in Ids : mem'[i].lsn < nextLsn' /\ \A s \in segs' : s.data[i].lsn < nextLsn'
    BY <1>2, <1>3, <1>7, <1>9, <1>10, <2>1
  <2>3. \A i \in Ids : mem'[i].lsn > 0 => \A s \in segs' : s.data[i].lsn <= mem'[i].lsn
    BY <1>2, <1>3, <1>9, <1>10
  <2>4. QED
    BY <1>2, <1>5, <1>10, <2>1, <2>2, <2>3 DEF StampsOrdered, diskVars
<1>12. LogEnds'
  <2>1. \A r \in wal : r.txn < nextTxn'
    BY <1>2, <1>3, FirstTxnIsNew
  <2>2. QED
    BY <1>2, <1>3, <1>4, <1>5, <1>7, <2>1 DEF IInv, LogEnds, diskVars
<1>13. InFlight'
  BY <1>2 DEF InFlight
<1>14. FilesNamed'
  <2>1. \A s \in Loaded : s \in files /\ s.name \in manifest.segments
    BY DEF Loaded
  <2>2. \A s \in segs' : s \in files' /\ s.name < segSeq'
    BY <1>2, <2>1 DEF IInv, FilesNamed, diskVars
  <2>3. manifest.segSeq <= segSeq'
    BY <1>2, <1>3 DEF Manifest
  <2>4. QED
    BY <1>2, <1>5, <2>2, <2>3 DEF IInv, FilesNamed, diskVars
<1>15. IdsFree'
  <2>1. ASSUME NEW i \in Ids, i >= nextRowId' PROVE committed[i] = Gone
    <3>1. m[i].row = Gone /\ \A s \in Loaded : s.data[i].lsn <= 0
      BY <1>2, <1>3, <1>6, <2>1, FirstFreeIdIsFree
    <3>2. m[i] \in Newest(m, Loaded, i)
      <4> HIDE DEF m
      <4> QED BY <1>9, <1>10, <3>1 DEF Newest, Versions
    <3>3. QED
      BY <1>6, <3>1, <3>2 DEF Right
  <2>2. QED
    BY <1>2, <2>1 DEF IdsFree
<1>16. QED
  BY <1>1, <1>8, <1>11, <1>12, <1>13, <1>14, <1>15 DEF IInv
(* flush and compact write their segment under a name no segment in use    *)
(* has, and touch neither the log nor the manifest: what an open would     *)
(* read stays as it was.                                                   *)
LEMMA NewSegments ==
  ASSUME IInv, pc = "idle", NEW keep \in SUBSET segs,
         \/ segs' = {} /\ UNCHANGED <<files, segSeq>>
         \/ \E f \in Segment : /\ f.name = segSeq
                               /\ files' = {g \in files : g.name # segSeq} \cup {f}
                               /\ segs' = keep \cup {f} /\ segSeq' = segSeq + 1,
         pc' = "manifest", TypeOK',
         UNCHANGED <<wal, walOk, walBase, synced, manifest, mem, nextRowId, nextLsn,
                     nextTxn, req, committed, faults>>,
         Right(mem, segs', committed), Right(EmptyMem, segs', committed),
         \A s \in segs' : \A i \in Ids : /\ s.data[i].lsn < nextLsn
                                         /\ mem[i].lsn > 0 => s.data[i].lsn <= mem[i].lsn
  PROVE  IInv'
<1>1. TypeOK /\ FilesNamed
  BY DEF IInv
<1>2. manifest.segSeq \in Nat /\ segSeq \in Nat /\ manifest.segSeq <= segSeq
      /\ manifest.segments \subseteq Nat /\ \A n \in manifest.segments : n < segSeq
  BY <1>1 DEF TypeOK, FilesNamed, Manifest, up
<1>3. Loaded' = Loaded /\ manifest.segments \subseteq Names(files)'
  BY <1>1, <1>2 DEF Loaded, Names, FilesNamed
<1>4. DurableLog' = DurableLog
  BY DEF DurableLog
<1>5. ReadsRight'
  BY <1>3, <1>4 DEF IInv, ReadsRight, up
<1>6. StampsOrdered'
  <2>1. \A i \in Ids : mem[i].lsn < nextLsn
    BY DEF IInv, StampsOrdered, up
  <2>2. \A i \in Ids : mem'[i].lsn < nextLsn' /\ \A s \in segs' : s.data[i].lsn < nextLsn'
    BY <2>1
  <2>3. \A i \in Ids : mem'[i].lsn > 0 => \A s \in segs' : s.data[i].lsn <= mem'[i].lsn
    OBVIOUS
  <2>4. manifest'.checkpoint <= synced'
        /\ \A f \in Loaded' : \A i \in Ids : f.data[i].lsn <= manifest'.checkpoint
    BY <1>3 DEF IInv, StampsOrdered
  <2>5. QED
    BY <2>2, <2>3, <2>4 DEF StampsOrdered
<1>7. LogEnds' /\ InFlight' /\ IdsFree'
  BY <1>4 DEF IInv, LogEnds, InFlight, IdsFree, up
<1>8. \A s \in segs : s \in files /\ s.name \in Nat /\ s.name < segSeq
  BY <1>1 DEF TypeOK, FilesNamed, Segment, up
<1>9. FilesNamed'
  <2>1. CASE segs' = {} /\ UNCHANGED <<files, segSeq>>
    BY <1>1, <1>3, <2>1 DEF FilesNamed, up
  <2>2. CASE segs' # {} \/ files' # files \/ segSeq' # segSeq
    <3>1. PICK f \in Segment : /\ f.name = segSeq
                               /\ files' = {g \in files : g.name # segSeq} \cup {f}
                               /\ segs' = keep \cup {f} /\ segSeq' = segSeq + 1
      BY <2>2
    <3>2. \A g, h \in files' : g.name = h.name => g = h
      BY <1>1, <3>1 DEF FilesNamed
    <3>3. segs' \subseteq files' /\ \A s \in segs' : s.name < segSeq'
      BY <1>2, <1>8, <3>1
    <3>4. manifest.segSeq <= segSeq'
      BY <1>2, <3>1
    <3>5. QED
      BY <1>1, <1>3, <3>2, <3>3, <3>4 DEF FilesNamed, up
  <2>3. QED
    BY <2>1, <2>2
<1>10. QED
  BY <1>5, <1>6, <1>7, <1>9 DEF IInv

LEMMA FlushStep == ASSUME IInv, OneKind, Flush PROVE IInv'
<1>1. TypeOK /\ TypeOK' /\ Right(mem, segs, committed)
  BY TypeStep DEF IInv, Next, ReadsRight, Flush, up
<1>2. Encode(mem) = mem
  BY <1>1, EncodeLossless DEF TypeOK
<1> DEFINE f == [name |-> segSeq, data |-> mem]
<1>3. f \in Segment /\ f.data = mem /\ f.name = segSeq
  BY <1>1 DEF TypeOK, Segment
<1>4. /\ files' = {g \in files : g.name # segSeq} \cup {f}
      /\ segs' = segs \cup {f} /\ segSeq' = segSeq + 1
  BY <1>2 DEF Flush, WriteSegment
<1>5. Right(mem, segs', committed) /\ Right(EmptyMem, segs', committed)
  <2> HIDE DEF f
  <2> QED BY <1>1, <1>3, <1>4, RightAfterFlush DEF TypeOK
<1>6. \A i \in Ids : /\ mem[i].lsn \in Nat /\ mem[i].lsn < nextLsn
                     /\ \A s \in segs : /\ s.data[i].lsn < nextLsn
                                        /\ mem[i].lsn > 0 => s.data[i].lsn <= mem[i].lsn
  BY <1>1, BoundsAssumption DEF IInv, StampsOrdered, Flush, up, TypeOK, Version
<1>7. \A s \in segs' : \A i \in Ids : /\ s.data[i].lsn < nextLsn
                                      /\ mem[i].lsn > 0 => s.data[i].lsn <= mem[i].lsn
  <2> HIDE DEF f
  <2> QED BY <1>3, <1>4, <1>6
<1>8. QED
  <2> HIDE DEF f
  <2> QED BY <1>1, <1>3, <1>4, <1>5, <1>7, NewSegments DEF Flush

LEMMA CompactStep == ASSUME IInv, OneKind, Compact PROVE IInv'
<1>1. TypeOK /\ TypeOK' /\ Right(mem, segs, committed)
  BY TypeStep DEF IInv, Next, ReadsRight, Compact, up
<1>2. Merged \in [Ids -> Version]
  BY <1>1, MergedType DEF TypeOK
<1>3. Encode(Merged) = Merged
  BY <1>2, EncodeLossless
<1> DEFINE f == [name |-> segSeq, data |-> Merged]
<1>4. f \in Segment /\ f.data = Merged /\ f.name = segSeq
  BY <1>1, <1>2 DEF TypeOK, Segment
<1>5. \/ Merged = EmptyMem /\ segs' = {} /\ UNCHANGED <<files, segSeq>>
      \/ /\ files' = {g \in files : g.name # segSeq} \cup {f}
         /\ segs' = {f} /\ segSeq' = segSeq + 1
  BY <1>3 DEF Compact, WriteSegment
<1>6. \A i \in Ids : /\ mem[i].lsn \in Nat /\ mem[i].lsn < nextLsn
                     /\ \A s \in segs : /\ s.data[i].lsn < nextLsn /\ s.data[i].lsn \in Nat
                                        /\ mem[i].lsn > 0 => s.data[i].lsn <= mem[i].lsn
  BY <1>1, BoundsAssumption DEF IInv, StampsOrdered, Compact, up, TypeOK, Version, Segment
<1>7. Right(mem, segs', committed) /\ Right(EmptyMem, segs', committed)
  <2> HIDE DEF f
  <2>1. \/ segs' = {} /\ Merged = EmptyMem
        \/ \E g \in Segment : segs' = {g} /\ g.data = Merged
    BY <1>4, <1>5
  <2>2. segs' \in SUBSET Segment
    BY <1>1 DEF TypeOK
  <2>3. \A i \in Ids : mem[i].lsn > 0 => \A s \in segs : s.data[i].lsn <= mem[i].lsn
    BY <1>6
  <2>4. QED
    BY <1>1, <2>1, <2>2, <2>3, RightAfterCompact
<1>8. \A i \in Ids : /\ Merged[i].lsn < nextLsn
                     /\ mem[i].lsn > 0 => Merged[i].lsn <= mem[i].lsn
  <2> SUFFICES ASSUME NEW i \in Ids
               PROVE  /\ Merged[i].lsn < nextLsn
                      /\ mem[i].lsn > 0 => Merged[i].lsn <= mem[i].lsn
    OBVIOUS
  <2>1. Merged[i].lsn \in {0, 1} /\ Merged[i].lsn <= ResolveLive(mem, segs, i).lsn
    BY <1>1, MergedIsRight
  <2>2. ResolveLive(mem, segs, i) \in Versions(mem, segs, i)
    BY <1>1, ResolvedIsNewest DEF TypeOK, Newest
  <2>3. ResolveLive(mem, segs, i).lsn \in Nat /\ ResolveLive(mem, segs, i).lsn < nextLsn
    <3>1. CASE ResolveLive(mem, segs, i) = mem[i]
      BY <1>6, <3>1
    <3>2. CASE \E s \in segs : ResolveLive(mem, segs, i) = s.data[i]
      BY <1>6, <3>2
    <3>3. QED
      BY <2>2, <3>1, <3>2 DEF Versions
  <2>4. nextLsn \in Nat
    BY <1>1 DEF TypeOK
  <2>5. QED
    BY <1>6, <2>1, <2>3, <2>4
<1>9. \A s \in segs' : \A i \in Ids : /\ s.data[i].lsn < nextLsn
                                      /\ mem[i].lsn > 0 => s.data[i].lsn <= mem[i].lsn
  <2> HIDE DEF f
  <2> QED BY <1>4, <1>5, <1>8
<1>10. QED
  <2> HIDE DEF f
  <2>1. \/ segs' = {} /\ UNCHANGED <<files, segSeq>>
        \/ \E g \in Segment : /\ g.name = segSeq
                              /\ files' = {h \in files : h.name # segSeq} \cup {g}
                              /\ segs' = {} \cup {g} /\ segSeq' = segSeq + 1
    BY <1>4, <1>5
  <2>2. {} \in SUBSET segs
    OBVIOUS
  <2>3. QED
    BY <1>1, <1>7, <1>9, <2>1, <2>2, NewSegments DEF Compact

(* The manifest makes the switch: from here on an open reads the resident  *)
(* segments and nothing of the log.                                        *)
LEMMA WriteManifestStep == ASSUME IInv, WriteManifest PROVE IInv'
<1>1. TypeOK /\ TypeOK' /\ pc = "manifest"
  BY TypeStep DEF IInv, Next, WriteManifest
<1>2. /\ manifest'.segments = Names(segs) /\ manifest'.checkpoint = nextLsn - 1
      /\ manifest'.segSeq = segSeq /\ pc' = "truncate" /\ nextLsn \in Nat /\ segSeq \in Nat
      /\ UNCHANGED <<wal, walOk, walBase, synced, files, memVars, req, committed>>
  BY <1>1 DEF WriteManifest, TypeOK
<1>3. synced = nextLsn - 1 /\ DurableLog' = DurableLog /\ DurableLog \in SUBSET Record
      /\ \A r \in DurableLog : r.lsn <= nextLsn - 1
  BY <1>1, <1>2 DEF IInv, LogEnds, DurableLog, TypeOK
<1>4. nextLsn - 1 \in Nat
  BY <1>1 DEF TypeOK
<1>5. Loaded' = segs
  BY <1>2 DEF IInv, FilesNamed, Loaded, Names
<1>6. ReadsRight'
  <2>1. Recovered(DurableLog, nextLsn - 1) = EmptyMem
    BY <1>3, <1>4, RecoveredNothing
  <2>2. Recovered(DurableLog', manifest'.checkpoint) = EmptyMem
    BY <1>2, <1>3, <2>1
  <2>3. Right(mem, segs, committed) /\ Right(EmptyMem, segs, committed)
    BY <1>1 DEF IInv, ReadsRight, up
  <2>4. QED
    BY <1>2, <1>5, <2>2, <2>3 DEF ReadsRight, memVars
<1>7. StampsOrdered'
  <2>1. \A s \in segs : \A i \in Ids : s.data[i].lsn \in Nat /\ s.data[i].lsn < nextLsn
    BY <1>1 DEF IInv, StampsOrdered, TypeOK, Segment, Version, up
  <2>2. \A f \in Loaded' : \A i \in Ids : f.data[i].lsn <= manifest'.checkpoint
    BY <1>2, <1>5, <2>1
  <2>3. manifest'.checkpoint <= synced'
    BY <1>2, <1>3
  <2>4. QED
    BY <1>1, <1>2, <2>2, <2>3 DEF IInv, StampsOrdered, memVars, up
<1>8. LogEnds' /\ InFlight' /\ IdsFree'
  BY <1>1, <1>2, <1>3 DEF IInv, LogEnds, InFlight, IdsFree, memVars, up
<1>9. FilesNamed'
  <2>1. Names(segs) \subseteq Names(files) /\ \A n \in Names(segs) : n < segSeq
    BY <1>1 DEF IInv, FilesNamed, Names, up
  <2>2. QED
    BY <1>1, <1>2, <2>1 DEF IInv, FilesNamed, Names, memVars, up
<1>10. QED
  BY <1>1, <1>6, <1>7, <1>8, <1>9 DEF IInv

LEMMA ManifestFailsStep == ASSUME IInv, ManifestFails PROVE IInv'
<1>1. TypeOK /\ TypeOK' /\ pc = "manifest" /\ pc' = "idle"
      /\ UNCHANGED <<wal, walOk, walBase, synced, files, manifest, memVars, req, committed>>
  BY TypeStep DEF IInv, Next, ManifestFails, diskVars
<1>2. Loaded' = Loaded /\ Names(files)' = Names(files) /\ DurableLog' = DurableLog
  BY <1>1, SameDisk DEF DurableLog
<1>3. ReadsRight' /\ StampsOrdered'
  BY <1>1, <1>2 DEF IInv, ReadsRight, StampsOrdered, memVars, up
<1>4. LogEnds' /\ InFlight' /\ IdsFree'
  BY <1>1, <1>2 DEF IInv, LogEnds, InFlight, IdsFree, memVars, up
<1>5. FilesNamed'
  BY <1>1, <1>2 DEF IInv, FilesNamed, memVars, up
<1>6. QED
  BY <1>1, <1>3, <1>4, <1>5 DEF IInv

(* Emptying the log and the memtable takes nothing that is still read.     *)
LEMMA TruncateStep == ASSUME IInv, Truncate PROVE IInv'
<1>1. TypeOK /\ TypeOK' /\ pc = "truncate" /\ pc' \in {"idle", "unlink"} /\ mem' = EmptyMem
      /\ wal' = {} /\ walBase' = nextLsn /\ synced' = nextLsn - 1
      /\ UNCHANGED <<files, manifest, segs, nextRowId, segSeq, nextLsn, nextTxn, req, committed>>
  BY TypeStep DEF IInv, Next, Truncate
<1>2. Loaded' = segs /\ Names(files)' = Names(files)
  BY <1>1, SameDisk, LoadedAreSegs DEF IInv, FilesNamed
<1>3. DurableLog' = {}
  BY <1>1 DEF DurableLog
<1>4. nextLsn \in Nat /\ nextLsn > 0 /\ synced' = synced /\ manifest.checkpoint \in Nat
  BY <1>1 DEF IInv, LogEnds, TypeOK, Manifest
<1>5. ReadsRight'
  <2>1. Recovered({}, manifest.checkpoint) = EmptyMem
    BY <1>4, RecoveredNothing
  <2>2. Right(EmptyMem, segs, committed)
    BY <1>1 DEF IInv, ReadsRight
  <2>3. QED
    BY <1>1, <1>2, <1>3, <2>1, <2>2 DEF ReadsRight
<1>6. StampsOrdered'
  <2>1. \A i \in Ids : mem'[i].lsn = 0
    BY <1>1 DEF EmptyMem, NoVersion
  <2>2. \A i \in Ids : \A s \in segs : s.data[i].lsn < nextLsn
    BY <1>1 DEF IInv, StampsOrdered, up
  <2>3. manifest.checkpoint <= synced /\ \A f \in Loaded : \A i \in Ids : f.data[i].lsn <= manifest.checkpoint
    BY DEF IInv, StampsOrdered
  <2>4. Loaded' = Loaded
    BY <1>1, SameDisk
  <2>5. QED
    BY <1>1, <1>4, <2>1, <2>2, <2>3, <2>4 DEF StampsOrdered
<1>7. LogEnds' /\ InFlight' /\ IdsFree'
  BY <1>1, <1>3, <1>4 DEF IInv, LogEnds, InFlight, IdsFree, up
<1>8. FilesNamed'
  BY <1>1, <1>2 DEF IInv, FilesNamed, up
<1>9. QED
  BY <1>1, <1>5, <1>6, <1>7, <1>8 DEF IInv

LEMMA TruncateFailsStep == ASSUME IInv, TruncateFails PROVE IInv'
<1>1. TypeOK /\ TypeOK' /\ pc = "truncate" /\ pc' = "idle"
      /\ UNCHANGED <<synced, files, manifest, memVars, req, committed>>
  BY TypeStep DEF IInv, Next, TruncateFails
<1>2. Loaded = segs /\ Loaded' = Loaded /\ Names(files)' = Names(files)
  BY <1>1, SameDisk, LoadedAreSegs DEF IInv, FilesNamed
<1>3. synced = nextLsn - 1 /\ nextLsn \in Nat /\ manifest.checkpoint \in Nat
  BY <1>1 DEF IInv, LogEnds, TypeOK, Manifest
<1>4. /\ wal' \subseteq wal
      /\ Right(Recovered(DurableLog', manifest.checkpoint), Loaded, committed)
      /\ walOk' => IF DurableLog' = {} THEN walBase' = synced + 1
                   ELSE \E r \in DurableLog' : r.lsn = synced
  <2>1. CASE UNCHANGED <<wal, walOk, walBase>>
    <3>1. DurableLog' = DurableLog
      BY <1>1, <2>1 DEF DurableLog
    <3>2. QED
      BY <2>1, <3>1 DEF IInv, ReadsRight, LogEnds
  <2>2. CASE wal' = {} /\ (walOk' = FALSE \/ walBase' = nextLsn)
    <3>1. DurableLog' = {}
      BY <2>2 DEF DurableLog
    <3>2. Recovered({}, manifest.checkpoint) = EmptyMem
      BY <1>3, RecoveredNothing
    <3>3. Right(EmptyMem, segs, committed)
      BY <1>1 DEF IInv, ReadsRight
    <3>4. QED
      BY <1>2, <1>3, <2>2, <3>1, <3>2, <3>3
  <2>3. QED
    BY <2>1, <2>2 DEF TruncateFails
<1>5. ReadsRight' /\ StampsOrdered'
  BY <1>1, <1>2, <1>4 DEF IInv, ReadsRight, StampsOrdered, memVars, up
<1>6. LogEnds' /\ InFlight' /\ IdsFree'
  BY <1>1, <1>3, <1>4 DEF IInv, LogEnds, InFlight, IdsFree, memVars, up
<1>7. FilesNamed'
  BY <1>1, <1>2 DEF IInv, FilesNamed, memVars, up
<1>8. QED
  BY <1>1, <1>5, <1>6, <1>7 DEF IInv

(* No file the manifest names is unlinked.                                 *)
LEMMA UnlinkStep == ASSUME IInv, Unlink PROVE IInv'
<1>1. TypeOK /\ TypeOK' /\ pc = "unlink" /\ pc' = "idle"
      /\ UNCHANGED <<wal, walOk, walBase, synced, manifest, memVars, req, committed>>
  BY TypeStep DEF IInv, Next, Unlink
<1>2. files' = {f \in files : f.name \notin old \ Names(segs)} /\ manifest.segments = Names(segs)
  BY <1>1 DEF IInv, FilesNamed, Unlink
<1>3. Loaded' = Loaded
  BY <1>1, <1>2 DEF Loaded
<1>4. DurableLog' = DurableLog
  BY <1>1 DEF DurableLog
<1>5. ReadsRight' /\ StampsOrdered'
  BY <1>1, <1>3, <1>4 DEF IInv, ReadsRight, StampsOrdered, memVars, up
<1>6. LogEnds' /\ InFlight' /\ IdsFree'
  BY <1>1, <1>4 DEF IInv, LogEnds, InFlight, IdsFree, memVars, up
<1>7. FilesNamed'
  <2>1. segs \subseteq files' /\ manifest.segments \subseteq Names(files')
    BY <1>1, <1>2 DEF IInv, FilesNamed, Names
  <2>2. Names(files)' = Names(files')
    BY DEF Names
  <2>3. \A f, g \in files' : f.name = g.name => f = g
    BY <1>2 DEF IInv, FilesNamed
  <2>4. QED
    BY <1>1, <1>2, <2>1, <2>2, <2>3 DEF IInv, FilesNamed, memVars, up
<1>8. QED
  BY <1>1, <1>5, <1>6, <1>7 DEF IInv

LEMMA InsertStep ==
  ASSUME IInv, NEW t \in Tables, NEW p \in Payloads, Insert(t, p)
  PROVE  IInv'
<1> DEFINE row == [table |-> t, cells |-> Overwrite(Blank, p)]
<1>1. TypeOK /\ nextRowId \in Ids /\ nextRowId' = nextRowId + 1 /\ nextRowId' \in 1 .. MaxId + 1
  BY BoundsAssumption DEF IInv, Insert, TypeOK, Ids
<1>2. row \in Rows
  BY PayloadAssumption DEF Blank, Overwrite, Rows
<1>3. nextRowId <= nextRowId' /\ nextRowId < nextRowId'
  BY <1>1 DEF Ids
<1>4. pc = "idle" /\ Append("InsertRow", nextRowId, row)
  BY DEF Insert
<1>5. QED
  <2> HIDE DEF row
  <2> QED BY <1>1, <1>2, <1>3, <1>4, AppendStep

(* A row that can be updated has been given its id.                        *)
LEMMA UpdateStep ==
  ASSUME IInv, NEW t \in Tables, NEW i \in Ids, NEW p \in Payloads, Update(t, i, p)
  PROVE  IInv'
<1> DEFINE read == ResolveLive(mem, segs, i).row
           row == [table |-> t, cells |-> Overwrite(read.cells, p)]
<1>1. TypeOK /\ pc = "idle" /\ Append("InsertRow", i, row) /\ nextRowId' = nextRowId
      /\ read # Gone
  BY DEF IInv, Update
<1>2. read \in Rows /\ read = committed[i]
  BY <1>1, ResolvedIsNewest, RightIsRead DEF IInv, ReadsRight, TypeOK, Version, up
<1>3. row \in Rows
  BY <1>2, PayloadAssumption DEF Overwrite, Rows
<1>4. i < nextRowId /\ nextRowId \in 1 .. MaxId + 1 /\ nextRowId <= nextRowId'
  BY <1>1, <1>2, BoundsAssumption DEF IInv, IdsFree, TypeOK, Ids, up
<1>5. QED
  <2> HIDE DEF row
  <2> QED BY <1>1, <1>3, <1>4, AppendStep

LEMMA DeleteStep ==
  ASSUME IInv, NEW t \in Tables, NEW i \in Ids, Delete(t, i)
  PROVE  IInv'
<1>1. pc = "idle" /\ Append("DeleteRow", i, Gone) /\ nextRowId' = nextRowId
      /\ nextRowId \in 1 .. MaxId + 1 /\ nextRowId <= nextRowId'
  BY BoundsAssumption DEF IInv, Delete, TypeOK
<1>2. QED
  BY <1>1, AppendStep

LEMMA StutterStep == ASSUME IInv, UNCHANGED vars PROVE IInv'
<1>1. TypeOK /\ TypeOK' /\ Loaded' = Loaded /\ Names(files)' = Names(files)
      /\ DurableLog' = DurableLog
  BY TypeStep, SameDisk DEF IInv, vars, diskVars, DurableLog
<1>2. ReadsRight' /\ StampsOrdered'
  BY <1>1 DEF IInv, ReadsRight, StampsOrdered, vars, diskVars, memVars, up
<1>3. LogEnds' /\ InFlight' /\ IdsFree'
  BY <1>1 DEF IInv, LogEnds, InFlight, IdsFree, vars, diskVars, memVars, up
<1>4. FilesNamed'
  BY <1>1 DEF IInv, FilesNamed, vars, diskVars, memVars, up
<1>5. QED
  BY <1>1, <1>2, <1>3, <1>4 DEF IInv

(* Under the hypotheses a compact cannot fail halfway, nor an fsync.       *)
LEMMA NoCompactFails ==
  ASSUME TypeOK, OneKind, ReliableWrites
  PROVE  ~CompactFails /\ ~SyncFails
<1>1. ~Unencodable(Merged)
  BY MergedType, EncodeLossless DEF TypeOK
<1>2. QED
  BY <1>1 DEF CompactFails, SyncFails, Fault, ReliableWrites

LEMMA IInvStep ==
  ASSUME OneKind, ReliableWrites, IInv, [Next]_vars
  PROVE  IInv'
<1>1. ASSUME NEW t \in Tables, NEW p \in Payloads, Insert(t, p) PROVE IInv'
  BY <1>1, InsertStep
<1>2. ASSUME NEW t \in Tables, NEW i \in Ids, NEW p \in Payloads, Update(t, i, p) PROVE IInv'
  BY <1>2, UpdateStep
<1>3. ASSUME NEW t \in Tables, NEW i \in Ids, Delete(t, i) PROVE IInv'
  BY <1>3, DeleteStep
<1>4. ~CompactFails /\ ~SyncFails
  BY NoCompactFails DEF IInv
<1>5. QED
  BY <1>1, <1>2, <1>3, <1>4, SyncStep, FlushStep, CompactStep, WriteManifestStep,
     ManifestFailsStep, TruncateStep, TruncateFailsStep, UnlinkStep, CrashStep, OpenStep,
     StutterStep DEF Next
-----------------------------------------------------------------------------
(* Each property is a consequence of the inductive invariant.              *)
LEMMA InvariantMeansDurable == IInv => CommittedSurvives /\ DiskView = committed
<1> SUFFICES ASSUME IInv PROVE CommittedSurvives /\ DiskView = committed
  OBVIOUS
<1>1. /\ mem \in [Ids -> Version] /\ segs \in SUBSET Segment
      /\ committed \in [Ids -> Rows \cup {Gone}]
      /\ Recovered(DurableLog, manifest.checkpoint) \in [Ids -> Version]
      /\ Loaded \in SUBSET Segment
  <2>1. DurableLog \in SUBSET Record /\ manifest.checkpoint \in Nat
    BY DEF IInv, TypeOK, DurableLog, Manifest
  <2>2. QED
    BY <2>1, RecoveredType DEF IInv, TypeOK, Loaded
<1>2. CommittedSurvives
  <2>1. ASSUME up, NEW i \in Ids PROVE ResolveLive(mem, segs, i).row = committed[i]
    BY <1>1, <2>1, RightIsRead DEF IInv, ReadsRight
  <2>2. QED
    BY <1>1, <2>1 DEF CommittedSurvives, View, up
<1>3. DiskView = committed
  <2> DEFINE m == Recovered(DurableLog, manifest.checkpoint)
  <2>1. ASSUME NEW i \in Ids PROVE ResolveLive(m, Loaded, i).row = committed[i]
    <3>1. Right(m, Loaded, committed) /\ m \in [Ids -> Version]
      BY <1>1 DEF IInv, ReadsRight
    <3>2. QED
      <4> HIDE DEF m
      <4> QED BY <1>1, <3>1, RightIsRead
  <2>2. QED
    BY <1>1, <2>1 DEF DiskView
<1>4. QED
  BY <1>2, <1>3

LEMMA InvariantMeansFresh == IInv => FreshIdIsFree /\ LsnFresh
<1> SUFFICES ASSUME IInv PROVE FreshIdIsFree /\ LsnFresh
  OBVIOUS
<1>1. FreshIdIsFree
  BY DEF IInv, IdsFree, FreshIdIsFree, up
<1>2. synced \in Nat /\ nextLsn \in Nat /\ manifest.checkpoint \in Nat /\ req.lsn \in Nat
      /\ \A i \in Ids : mem[i].lsn \in Nat /\ \A s \in segs : s.data[i].lsn \in Nat
  BY BoundsAssumption DEF IInv, TypeOK, Manifest, Version, Segment
<1>3. pc = "sync" => req.lsn < nextLsn /\ synced < nextLsn
  BY <1>2 DEF IInv, InFlight
<1>4. up => manifest.checkpoint < nextLsn
  BY <1>2, <1>3 DEF IInv, StampsOrdered, LogEnds, up
<1>5. up => \A i \in Ids : mem[i].lsn < nextLsn /\ \A s \in segs : s.data[i].lsn < nextLsn
  BY <1>2, <1>3 DEF IInv, StampsOrdered
<1>6. QED
  BY <1>1, <1>4, <1>5 DEF LsnFresh, up

LEMMA Invariant ==
  ASSUME OneKind, ReliableWrites
  PROVE  Spec => []IInv
<1>1. Init => IInv
  BY IInvInit
<1>2. IInv /\ [Next]_vars => IInv'
  BY IInvStep
<1>3. QED
  BY <1>1, <1>2, PTL DEF Spec

(* If every value of the database is of one kind and neither segment       *)
(* writes nor fsyncs fail, what is read of every row is what was last      *)
(* committed there, whatever manifest writes and log truncations fail and  *)
(* wherever the process crashed: database.rs's "no committed write is lost *)
(* and none is applied twice".                                             *)
THEOREM Durability ==
  ASSUME OneKind, ReliableWrites
  PROVE  Spec => []CommittedSurvives
<1>1. IInv => CommittedSurvives
  BY InvariantMeansDurable
<1>2. QED
  BY <1>1, Invariant, PTL

(* Under the same hypotheses a crash at any step of any operation leaves a *)
(* disk from which open reads the committed data, no more and no less.     *)
THEOREM CrashSafety ==
  ASSUME OneKind, ReliableWrites
  PROVE  Spec => []CrashSafe
<1>1. IInv => CrashSafe
  BY InvariantMeansDurable DEF CrashSafe
<1>2. QED
  BY <1>1, Invariant, PTL

(* Under the same hypotheses no write is given an LSN that recovery would  *)
(* skip or that an older version beats.                                    *)
THEOREM Freshness ==
  ASSUME OneKind, ReliableWrites
  PROVE  Spec => []LsnFresh
<1>1. IInv => LsnFresh
  BY InvariantMeansFresh
<1>2. QED
  BY <1>1, Invariant, PTL

(* Under the same hypotheses the id given to an insert is of no row, after *)
(* any deletes, compactions, crashes and recoveries.                       *)
THEOREM FreshIds ==
  ASSUME OneKind, ReliableWrites
  PROVE  Spec => []FreshIdIsFree
<1>1. IInv => FreshIdIsFree
  BY InvariantMeansFresh
<1>2. QED
  BY <1>1, Invariant, PTL
-----------------------------------------------------------------------------
(* The abstract store.  The committed rows change when the fsync of a      *)
(* write succeeds, or when a crash leaves both its records in the log; at  *)
(* all other steps the store stutters.  WriteLegal says that the write in  *)
(* flight is, on the rows committed, a step of the store.                  *)
WriteLegal ==
  pc = "sync" =>
    \/ /\ committed[req.id] = Gone
       /\ \E t \in Tables : \E p \in Payloads :
            req.row = [table |-> t, cells |-> Overwrite(Blank, p)]
    \/ /\ committed[req.id] # Gone
       /\ \/ req.row = Gone
          \/ \E p \in Payloads :
               req.row = [committed[req.id] EXCEPT !.cells = Overwrite(@, p)]

stored == IF pc = "down" THEN DiskView ELSE View

LEMMA StoredIsCommitted == IInv => stored = committed
BY InvariantMeansDurable DEF CommittedSurvives, stored

LEMMA WriteLegalStep ==
  ASSUME IInv, WriteLegal, [Next]_vars
  PROVE  WriteLegal'
<1>1. ASSUME NEW t \in Tables, NEW p \in Payloads, Insert(t, p) PROVE WriteLegal'
  <2>1. nextRowId \in Ids /\ up
    BY <1>1, BoundsAssumption DEF IInv, TypeOK, Insert, Ids, up
  <2>2. committed[nextRowId] = Gone
    BY <2>1 DEF IInv, IdsFree, Ids
  <2>3. req'.id = nextRowId /\ committed' = committed
        /\ req'.row = [table |-> t, cells |-> Overwrite(Blank, p)]
    BY <1>1 DEF Insert, Append
  <2>4. QED
    BY <2>2, <2>3 DEF WriteLegal
<1>2. ASSUME NEW t \in Tables, NEW i \in Ids, NEW p \in Payloads, Update(t, i, p)
      PROVE  WriteLegal'
  <2> DEFINE row == ResolveLive(mem, segs, i).row
  <2>1. row = committed[i] /\ row \in Rows \cup {Gone}
    BY <1>2, RightIsRead DEF Update, IInv, ReadsRight, TypeOK, up
  <2>2. row # Gone /\ row.table = t /\ req'.id = i /\ committed' = committed
        /\ req'.row = [table |-> t, cells |-> Overwrite(row.cells, p)]
    BY <1>2 DEF Update, Append
  <2>3. row \in Rows /\ req'.row = [row EXCEPT !.cells = Overwrite(row.cells, p)]
    <3> HIDE DEF row
    <3> QED BY <2>1, <2>2 DEF Rows
  <2>4. QED
    <3> HIDE DEF row
    <3> QED BY <2>1, <2>2, <2>3 DEF WriteLegal
<1>3. ASSUME NEW t \in Tables, NEW i \in Ids, Delete(t, i) PROVE WriteLegal'
  <2>1. ResolveLive(mem, segs, i).row = committed[i]
    BY <1>3, RightIsRead DEF Delete, IInv, ReadsRight, TypeOK, up
  <2>2. committed[i] # Gone /\ req'.id = i /\ committed' = committed /\ req'.row = Gone
    BY <1>3, <2>1 DEF Delete, Append
  <2>3. QED
    BY <2>2 DEF WriteLegal
<1>4. CASE Sync \/ SyncFails \/ Flush \/ Compact \/ CompactFails \/ WriteManifest \/ ManifestFails
  BY <1>4 DEF WriteLegal, Sync, SyncFails, Flush, Compact, CompactFails, WriteManifest, ManifestFails
<1>5. CASE Truncate \/ TruncateFails \/ Unlink \/ Crash \/ Open
  BY <1>5 DEF WriteLegal, Truncate, TruncateFails, Unlink, Crash, Open
<1>6. CASE UNCHANGED vars
  BY <1>6 DEF WriteLegal, vars
<1>7. QED
  BY <1>1, <1>2, <1>3, <1>4, <1>5, <1>6 DEF Next

(* The committed rows change only by the write in flight.                  *)
LEMMA OneWrite ==
  ASSUME [Next]_vars
  PROVE  \/ committed' = committed
         \/ pc = "sync" /\ committed' = [committed EXCEPT ![req.id] = req.row]
<1>1. CASE Sync \/ Crash
  BY <1>1 DEF Sync, Crash
<1>2. ASSUME NEW type, NEW i, NEW row, Append(type, i, row) PROVE committed' = committed
  BY <1>2 DEF Append
<1>3. CASE \/ \E t \in Tables, p \in Payloads : Insert(t, p)
           \/ \E t \in Tables, i \in Ids, p \in Payloads : Update(t, i, p)
           \/ \E t \in Tables, i \in Ids : Delete(t, i)
  BY <1>2, <1>3 DEF Insert, Update, Delete
<1>4. CASE SyncFails \/ Flush \/ Compact \/ CompactFails \/ WriteManifest \/ ManifestFails
  BY <1>4 DEF SyncFails, Flush, Compact, CompactFails, WriteManifest, ManifestFails
<1>5. CASE Truncate \/ TruncateFails \/ Unlink \/ Open
  BY <1>5 DEF Truncate, TruncateFails, Unlink, Open
<1>6. CASE UNCHANGED vars
  BY <1>6 DEF vars
<1>7. QED
  BY <1>1, <1>3, <1>4, <1>5, <1>6 DEF Next

LEMMA StoreStep ==
  ASSUME IInv, IInv', WriteLegal, [Next]_vars
  PROVE  [Store!Next]_stored
<1>1. stored = committed /\ stored' = committed'
  <2>1. stored = committed
    BY StoredIsCommitted
  <2>2. (stored = committed)'
    BY StoredIsCommitted, PTL
  <2>3. QED
    BY <2>1, <2>2
<1>2. CASE committed' = committed
  BY <1>1, <1>2
<1>3. CASE pc = "sync" /\ committed' = [committed EXCEPT ![req.id] = req.row]
  <2>1. req.id \in Ids /\ committed \in [Ids -> Rows \cup {Gone}]
    BY <1>3 DEF IInv, TypeOK
  <2>2. stored' = [stored EXCEPT ![req.id] = req.row]
    BY <1>1, <1>3
  <2>3. ASSUME NEW t \in Tables, NEW p \in Payloads, committed[req.id] = Gone,
               req.row = [table |-> t, cells |-> Overwrite(Blank, p)]
        PROVE  Store!Insert(req.id, t, p)
    BY <1>1, <2>2, <2>3 DEF Store!Insert, Store!Overwrite, Store!Blank, Overwrite, Blank, stored
  <2>4. ASSUME committed[req.id] # Gone, req.row = Gone
        PROVE  Store!Delete(req.id)
    BY <1>1, <2>2, <2>4 DEF Store!Delete, stored
  <2>5. ASSUME NEW p \in Payloads, committed[req.id] # Gone,
               req.row = [committed[req.id] EXCEPT !.cells = Overwrite(@, p)]
        PROVE  Store!Update(req.id, p)
    BY <1>1, <2>1, <2>2, <2>5 DEF Store!Update, Store!Overwrite, Overwrite, stored
  <2>6. Store!Next
    BY <1>3, <2>1, <2>3, <2>4, <2>5 DEF WriteLegal, Store!Next
  <2>7. QED
    BY <2>6
<1>4. QED
  BY <1>2, <1>3, OneWrite

(* Under the same hypotheses the engine, with its log, its segments and    *)
(* its crashes, is the store of DurableStore: clients see one row change   *)
(* at a time, by an insert where no row was, an update or a delete.        *)
THEOREM Refinement ==
  ASSUME OneKind, ReliableWrites
  PROVE  Spec => RefinesStore
<1>1. Init => WriteLegal
  BY DEF Init, WriteLegal
<1>2. IInv /\ WriteLegal /\ [Next]_vars => WriteLegal'
  BY WriteLegalStep
<1>3. Init => Store!Init
  BY IInvInit, StoredIsCommitted DEF Init, Store!Init, stored
<1>4. IInv /\ IInv' /\ WriteLegal /\ [Next]_vars => [Store!Next]_stored
  BY StoreStep
<1>5. QED
  BY <1>1, <1>2, <1>3, <1>4, Invariant, PTL DEF Spec, RefinesStore, Store!Spec, stored
-----------------------------------------------------------------------------
(* Whatever is stored and whatever fails, no step disturbs a file in use.  *)
LEMMA FilesStep == TypeOK /\ FilesNamed /\ [Next]_vars => FilesNamed'
<1> SUFFICES ASSUME TypeOK, FilesNamed, [Next]_vars PROVE FilesNamed'
  OBVIOUS
<1>1. manifest.segSeq \in Nat /\ segSeq \in Nat /\ manifest.segments \subseteq Nat
      /\ (\A f \in files : f.name \in Nat) /\ files \subseteq Segment
  BY DEF TypeOK, Manifest, Segment
<1>2. ASSUME UNCHANGED <<files, manifest, segs, segSeq, nextLsn>>,
             pc' = pc \/ (up /\ pc' \notin {"truncate", "unlink"})
      PROVE  FilesNamed'
  BY <1>2, SameDisk DEF FilesNamed, up
<1>3. ASSUME NEW type, NEW i, NEW row, Append(type, i, row), pc = "idle" PROVE FilesNamed'
  BY <1>3, SameDisk DEF Append, FilesNamed, up
<1>4. ASSUME NEW data, NEW keep \in SUBSET segs, WriteSegment(data, keep), pc = "idle",
             pc' = "manifest", UNCHANGED manifest
      PROVE  FilesNamed'
  <2> DEFINE f == [name |-> segSeq, data |-> Encode(data)]
  <2>1. /\ f.name = segSeq /\ files' = {g \in files : g.name # segSeq} \cup {f}
        /\ segs' = keep \cup {f} /\ segSeq' = segSeq + 1
    BY <1>4 DEF WriteSegment
  <2> HIDE DEF f
  <2>2. manifest.segSeq <= segSeq /\ (\A s \in segs : s \in files /\ s.name < segSeq)
        /\ \A n \in manifest.segments : n < segSeq
    BY <1>1, <1>4 DEF FilesNamed, up
  <2>3. \A g, h \in files' : g.name = h.name => g = h
    BY <2>1 DEF FilesNamed
  <2>4. segs' \subseteq files' /\ \A s \in segs' : s.name < segSeq'
    BY <1>1, <2>1, <2>2
  <2>5. manifest.segments \subseteq Names(files)'
    BY <1>1, <2>1, <2>2 DEF FilesNamed, Names
  <2>6. manifest.segSeq <= segSeq'
    BY <1>1, <2>1, <2>2
  <2>7. QED
    BY <1>4, <2>3, <2>4, <2>5, <2>6 DEF FilesNamed, up
<1>5. ASSUME NEW t \in Tables, NEW p \in Payloads, Insert(t, p) PROVE FilesNamed'
  BY <1>3, <1>5 DEF Insert
<1>6. ASSUME NEW t \in Tables, NEW i \in Ids, NEW p \in Payloads, Update(t, i, p)
      PROVE  FilesNamed'
  BY <1>3, <1>6 DEF Update
<1>7. ASSUME NEW t \in Tables, NEW i \in Ids, Delete(t, i) PROVE FilesNamed'
  BY <1>3, <1>7 DEF Delete
<1>8. CASE Sync \/ SyncFails \/ ManifestFails \/ TruncateFails
  BY <1>2, <1>8 DEF Sync, SyncFails, ManifestFails, TruncateFails, diskVars, memVars, up
<1>9. CASE Flush
  BY <1>4, <1>9 DEF Flush
<1>10. CASE Compact
  <2>1. CASE segs' = {} /\ UNCHANGED <<files, segSeq>>
    BY <1>10, <2>1, SameDisk DEF Compact, FilesNamed, up
  <2>2. CASE WriteSegment(Merged, {})
    BY <1>4, <1>10, <2>2 DEF Compact
  <2>3. QED
    BY <1>10, <2>1, <2>2 DEF Compact
<1>11. CASE CompactFails
  BY <1>11, SameDisk DEF CompactFails, FilesNamed, diskVars, up
<1>12. CASE WriteManifest
  <2>1. manifest'.segments = Names(segs) /\ manifest'.segSeq = segSeq
        /\ manifest'.checkpoint = nextLsn - 1 /\ up
        /\ UNCHANGED <<files, segs, segSeq, nextLsn>>
    BY <1>12 DEF WriteManifest, memVars, up
  <2>2. Names(files)' = Names(files) /\ Names(segs)' = Names(segs)
    BY <2>1 DEF Names
  <2>3. QED
    BY <1>1, <2>1, <2>2 DEF FilesNamed, Names
<1>13. CASE Truncate
  BY <1>13, SameDisk DEF Truncate, FilesNamed, Names, up
<1>14. CASE Unlink
  <2>1. /\ files' = {f \in files : f.name \notin old \ Names(segs)}
        /\ manifest.segments = Names(segs) /\ pc = "unlink" /\ pc' = "idle"
        /\ UNCHANGED <<manifest, segs, segSeq>>
    BY <1>14 DEF Unlink, FilesNamed, memVars
  <2>2. segs \subseteq files' /\ manifest.segments \subseteq Names(files)'
    BY <2>1 DEF FilesNamed, Names
  <2>3. \A f, g \in files' : f.name = g.name => f = g
    BY <2>1 DEF FilesNamed
  <2>4. QED
    BY <2>1, <2>2, <2>3 DEF FilesNamed, up
<1>15. CASE Crash
  BY <1>15, SameDisk DEF Crash, FilesNamed, up
<1>16. CASE Open
  <2>1. \A s \in Loaded : s \in files /\ s.name < manifest.segSeq
    BY DEF Loaded, FilesNamed
  <2>2. pc' = "idle" /\ segs' = Loaded /\ segSeq' = manifest.segSeq
        /\ UNCHANGED <<files, manifest>> /\ Names(files)' = Names(files)
    BY <1>16, SameDisk DEF Open, diskVars
  <2>3. QED
    BY <1>1, <2>1, <2>2 DEF FilesNamed, up
<1>17. CASE UNCHANGED vars
  BY <1>2, <1>17 DEF vars, diskVars, memVars
<1>18. QED
  BY <1>5, <1>6, <1>7, <1>8, <1>9, <1>10, <1>11, <1>12, <1>13, <1>14, <1>15, <1>16,
     <1>17 DEF Next

(* With no hypothesis at all, every file the manifest names is on disk and *)
(* no resident segment's file is unlinked or overwritten, through failing  *)
(* compacts, failing fsyncs and crashes.                                   *)
THEOREM FilesKept == Spec => []FilesIntact
<1>1. Init => TypeOK /\ FilesNamed
  BY TypeInit, IInvInit DEF IInv
<1>2. TypeOK /\ FilesNamed /\ [Next]_vars => TypeOK' /\ FilesNamed'
  BY TypeStep, FilesStep
<1>3. FilesNamed => FilesIntact
  BY DEF FilesNamed, FilesIntact
<1>4. QED
  BY <1>1, <1>2, <1>3, PTL DEF Spec
=============================================================================

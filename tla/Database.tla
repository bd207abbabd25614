------------------------------ MODULE Database ------------------------------
(***************************************************************************)
(* The storage core of Sunjet/Astrolobe (ll-query/database.rs with the     *)
(* engine, the memtable and the log under it): one write-ahead log, one    *)
(* memtable, immutable segments and a manifest.  A mutation holds the      *)
(* server's write lock from its first to its last step, so operations do   *)
(* not interleave with each other; what interleaves is a crash, between    *)
(* any two steps, and the recovery after it.                               *)
(*                                                                         *)
(* Abstractions.  A row is its table and a cell per column; a value is a   *)
(* model value with a kind.  Only the newest version of a row in a source  *)
(* is kept, the one every reader at SNAPSHOT_LATEST sees.  Log records are *)
(* a set ordered by LSN.  Edge columns are left out.                       *)
(***************************************************************************)
EXTENDS Integers, FiniteSetsExt

CONSTANTS
  Tables,      \* the tables of the schema, created before the first row
  Cols,        \* column ids: per table 1..n, so shared between tables
  Vals,        \* cell values
  Kind,        \* Kind[v]: the engine Value variant (with its dimension) of v
  VectorKinds, \* the kinds that are vectors of some dimension
  Payloads,    \* the payloads clients send, each in [Cols -> Vals \cup {Null, Keep}]
  Null,        \* no value in a cell: never given, or an explicit null
  Keep,        \* a payload that does not name the column
  Gone,        \* no row: never written, or a tombstone
  MaxId,       \* bound: row ids ever assigned
  MaxLsn,      \* bound: log sequence numbers
  MaxSegs,     \* bound: segment files ever written
  Faults,      \* the steps whose I/O may fail
  MaxFaults    \* bound: failures of one behaviour

FaultKinds == {"segment", "manifest", "truncate", "fsync"}

ASSUME BoundsAssumption ==
  MaxId \in Nat /\ MaxLsn \in Nat \ {0} /\ MaxSegs \in Nat /\ MaxFaults \in Nat
ASSUME FaultsAssumption == Faults \subseteq FaultKinds
ASSUME PayloadAssumption ==
  Payloads \subseteq [Cols -> Vals \cup {Null, Keep}] /\ Keep \notin Vals \cup {Null}

Ids == 1 .. MaxId
Rows == [table : Tables, cells : [Cols -> Vals \cup {Null}]]

ASSUME GoneAssumption == Gone \notin Rows

(* A source (memtable or segment) holds at most one version of a row that  *)
(* SNAPSHOT_LATEST sees: its creation LSN (xmin) and the row, Gone for a   *)
(* tombstone.  LSNs start at 1; 0 stands for "no version here".            *)
Version == {v \in [lsn : 0 .. MaxLsn, row : Rows \cup {Gone}] : v.lsn = 0 => v.row = Gone}
NoVersion == [lsn |-> 0, row |-> Gone]
EmptyMem == [i \in Ids |-> NoVersion]
Segment == [name : Nat, data : [Ids -> Version]]

Record == [lsn : 1 .. MaxLsn, txn : 1 .. MaxLsn, type : {"InsertRow", "DeleteRow", "Commit"},
           id : 0 .. MaxId, row : Rows \cup {Gone}]
NoReq == [id |-> 0, row |-> Gone, lsn |-> 0]
Manifest == [nextRowId : 0 .. MaxId + 1, segSeq : Nat, checkpoint : 0 .. MaxLsn,
             segments : SUBSET Nat]

VARIABLES
  \* on disk
  wal,        \* records of wal.log, as the running process sees the file
  walOk,      \* the file has its 16-byte header
  walBase,    \* base_lsn of the header
  synced,     \* every record with an LSN up to this one survives a crash
  files,      \* segment files
  manifest,   \* manifest.bin
  \* in memory
  pc,         \* where the server is in the operation that holds the lock
  mem,        \* the memtable
  segs,       \* resident segments (Database.segments with seg_names)
  nextRowId, segSeq, nextLsn, nextTxn,
  req,        \* the write between its append and its fsync
  old,        \* compact: old_names, to unlink at the end
  \* history
  committed,  \* the row each id has once the log holds its commit record
  faults      \* failures so far

diskVars == <<wal, walOk, walBase, synced, files, manifest>>
memVars == <<mem, segs, nextRowId, segSeq, nextLsn, nextTxn>>
vars == <<diskVars, pc, memVars, req, old, committed, faults>>
-----------------------------------------------------------------------------
(* Reading: newest version wins over all sources, strictly newer to        *)
(* replace, so the memtable and then the oldest segment win a tie.         *)
ResolveLive(m, ss, i) ==
  LET Newest(v) == \A s \in ss : s.data[i].lsn <= v.lsn
      First(s) == \A z \in ss : z.data[i].lsn = s.data[i].lsn => s.name <= z.name
  IN  IF Newest(m[i]) THEN m[i]
      ELSE (CHOOSE s \in ss : Newest(s.data[i]) /\ First(s)).data[i]

(* Flushing a set of entries types each column by the first entry that has *)
(* a value in it, in row-id order, whatever its table; cells of another    *)
(* kind are written as nulls, and vectors of another dimension make the    *)
(* write fail.                                                             *)
HasCell(data, c) == {i \in Ids : data[i].row # Gone /\ data[i].row.cells[c] # Null}
InferKind(data, c) == Kind[data[Min(HasCell(data, c))].row.cells[c]]

Unencodable(data) ==
  \E c \in Cols : \E i \in HasCell(data, c) :
    /\ InferKind(data, c) \in VectorKinds
    /\ Kind[data[i].row.cells[c]] \in VectorKinds \ {InferKind(data, c)}

Encode(data) ==
  [i \in Ids |->
     IF data[i].row = Gone THEN data[i]
     ELSE [data[i] EXCEPT !.row.cells = [c \in Cols |->
             IF i \in HasCell(data, c) /\ Kind[data[i].row.cells[c]] = InferKind(data, c)
             THEN data[i].row.cells[c] ELSE Null]]]

(* Mutant: recovery applies records whatever became of their transaction.  *)
MutantUncommitted(w, ckpt, i) ==
  {r \in w : r.type # "Commit" /\ r.id = i /\ r.lsn > ckpt}

(* Recovery applies the committed records past the checkpoint, in order.   *)
Applied(w, ckpt, i) ==
  {r \in w : /\ r.type # "Commit" /\ r.id = i /\ r.lsn > ckpt
             /\ \E c \in w : c.type = "Commit" /\ c.txn = r.txn}

Recovered(w, ckpt) ==
  [i \in Ids |->
     IF Applied(w, ckpt, i) = {} THEN NoVersion
     ELSE LET last == CHOOSE r \in Applied(w, ckpt, i) :
                        \A q \in Applied(w, ckpt, i) : q.lsn <= r.lsn
          IN  [lsn |-> last.lsn, row |-> last.row]]

Loaded == {f \in files : f.name \in manifest.segments}
Names(ss) == {s.name : s \in ss}

Blank == [c \in Cols |-> Null]

(* Mutant: an update drops the cells its payload does not name.            *)
MutantReplace(cells, p) == [c \in Cols |-> IF p[c] = Keep THEN Null ELSE p[c]]

(* update: the columns the payload names are overwritten, the rest kept.   *)
Overwrite(cells, p) == [c \in Cols |-> IF p[c] = Keep THEN cells[c] ELSE p[c]]
-----------------------------------------------------------------------------
(* A database just created, its tables in the catalog: an empty log whose  *)
(* LSNs begin at 1 and no manifest, which open reads as all zeroes.        *)
Init ==
  /\ wal = {} /\ walOk = TRUE /\ walBase = 1 /\ synced = 0
  /\ files = {}
  /\ manifest = [nextRowId |-> 0, segSeq |-> 0, checkpoint |-> 0, segments |-> {}]
  /\ pc = "idle" /\ mem = EmptyMem /\ segs = {}
  /\ nextRowId = 1 /\ segSeq = 0 /\ nextLsn = 1 /\ nextTxn = 1
  /\ req = NoReq /\ old = {}
  /\ committed = [i \in Ids |-> Gone] /\ faults = 0

(* Engine::insert and Engine::delete up to the fsync: a data record and    *)
(* its Commit record, each at its own LSN, in a transaction of their own.  *)
Append(type, i, row) ==
  /\ nextLsn + 1 <= MaxLsn
  /\ wal' = wal \cup
       {[lsn |-> nextLsn, txn |-> nextTxn, type |-> type, id |-> i, row |-> row],
        [lsn |-> nextLsn + 1, txn |-> nextTxn, type |-> "Commit", id |-> 0, row |-> Gone]}
  /\ nextLsn' = nextLsn + 2
  /\ nextTxn' = nextTxn + 1
  /\ req' = [id |-> i, row |-> row, lsn |-> nextLsn]
  /\ pc' = "sync"
  /\ UNCHANGED <<walOk, walBase, synced, files, manifest, mem, segs, segSeq, old, committed, faults>>

Insert(t, p) ==
  /\ pc = "idle" /\ nextRowId <= MaxId
  /\ nextRowId' = nextRowId + 1
  /\ Append("InsertRow", nextRowId, [table |-> t, cells |-> Overwrite(Blank, p)])

(* The newest live version, if it belongs to the table named, is rewritten *)
(* under the same id.                                                      *)
Update(t, i, p) ==
  LET row == ResolveLive(mem, segs, i).row IN
  /\ pc = "idle"
  /\ row # Gone /\ row.table = t
  /\ Append("InsertRow", i, [table |-> t, cells |-> Overwrite(row.cells, p)])
  /\ UNCHANGED nextRowId

Delete(t, i) ==
  LET row == ResolveLive(mem, segs, i).row IN
  /\ pc = "idle"
  /\ row # Gone /\ row.table = t
  /\ Append("DeleteRow", i, Gone)
  /\ UNCHANGED nextRowId

(* The fsync of commit, then the memtable, then the answer to the client.  *)
Sync ==
  /\ pc = "sync"
  /\ synced' = nextLsn - 1
  /\ mem' = [mem EXCEPT ![req.id] = [lsn |-> req.lsn, row |-> req.row]]
  /\ committed' = [committed EXCEPT ![req.id] = req.row]
  /\ pc' = "idle" /\ req' = NoReq
  /\ UNCHANGED <<wal, walOk, walBase, files, manifest, segs, nextRowId, segSeq,
                 nextLsn, nextTxn, old, faults>>

Fault(kind) == kind \in Faults /\ faults < MaxFaults /\ faults' = faults + 1

(* The fsync reports an error: the client gets it, the memtable is not     *)
(* touched, the records stay in the file.                                  *)
SyncFails ==
  /\ pc = "sync" /\ Fault("fsync")
  /\ pc' = "idle" /\ req' = NoReq
  /\ UNCHANGED <<diskVars, memVars, old, committed>>
-----------------------------------------------------------------------------
(* Segment writes are atomic (temporary file, fsync, rename); a file of    *)
(* the same name, left by a crash, is replaced.                            *)
WriteSegment(data, keep) ==
  LET f == [name |-> segSeq, data |-> Encode(data)] IN
  /\ segSeq < MaxSegs
  /\ files' = {g \in files : g.name # segSeq} \cup {f}
  /\ segs' = keep \cup {f}
  /\ segSeq' = segSeq + 1

(* flush: a non-empty memtable becomes a segment.  If it cannot be written *)
(* flush returns the error and nothing changes.                            *)
Flush ==
  /\ pc = "idle"
  /\ mem # EmptyMem
  /\ ~Unencodable(mem)
  /\ WriteSegment(mem, segs)
  /\ pc' = "manifest" /\ old' = {}
  /\ UNCHANGED <<wal, walOk, walBase, synced, manifest, mem, nextRowId, nextLsn,
                 nextTxn, req, committed, faults>>

(* Mutant: the survivors are stamped 0, the LSN of no version.             *)
MutantStampZero ==
  [i \in Ids |-> [ResolveLive(mem, segs, i) EXCEPT !.lsn = 0]]

(* compact: every surviving row, stamped 1, below any LSN still to come.   *)
Merged ==
  [i \in Ids |->
     LET v == ResolveLive(mem, segs, i) IN
     IF v.row = Gone THEN NoVersion ELSE [lsn |-> 1, row |-> v.row]]

Compact ==
  /\ pc = "idle"
  /\ IF Merged = EmptyMem
     THEN segs # {} /\ segs' = {} /\ UNCHANGED <<files, segSeq>>
     ELSE ~Unencodable(Merged) /\ WriteSegment(Merged, {})
  /\ pc' = "manifest" /\ old' = Names(segs)
  /\ UNCHANGED <<wal, walOk, walBase, synced, manifest, mem, nextRowId, nextLsn,
                 nextTxn, req, committed, faults>>

(* Mutant: a failing compact also deletes the files it had merged.         *)
MutantCompactCleansUp ==
  /\ pc = "idle"
  /\ Merged # EmptyMem
  /\ Unencodable(Merged)
  /\ segs' = {} /\ files' = files \ segs
  /\ UNCHANGED <<wal, walOk, walBase, synced, manifest, pc, mem, nextRowId, segSeq,
                 nextLsn, nextTxn, req, old, committed, faults>>

(* The merged segment cannot be written.  compact has already taken        *)
(* seg_names and cleared segments, and returns the error.                  *)
CompactFails ==
  /\ pc = "idle"
  /\ Merged # EmptyMem
  /\ \/ Unencodable(Merged) /\ UNCHANGED faults
     \/ Fault("segment")
  /\ segs' = {}
  /\ UNCHANGED <<diskVars, pc, mem, nextRowId, segSeq, nextLsn, nextTxn, req, old, committed>>

(* The rest is common to flush and compact: the manifest, atomically; the  *)
(* log, truncated; the memtable, emptied; old segment files, unlinked.     *)
WriteManifest ==
  /\ pc = "manifest"
  /\ manifest' = [nextRowId |-> nextRowId, segSeq |-> segSeq,
                  checkpoint |-> nextLsn - 1, segments |-> Names(segs)]
  /\ pc' = "truncate"
  /\ UNCHANGED <<wal, walOk, walBase, synced, files, memVars, req, old, committed, faults>>

(* Mutant: compact unlinks the old files although the manifest names them. *)
MutantManifestFails ==
  /\ pc = "manifest" /\ Fault("manifest")
  /\ files' = {f \in files : f.name \notin old}
  /\ pc' = "idle" /\ old' = {}
  /\ UNCHANGED <<wal, walOk, walBase, synced, manifest, memVars, req, committed>>

(* The old manifest stays; the operation returns the error, the new        *)
(* segments resident and the memtable, already in them, kept.              *)
ManifestFails ==
  /\ pc = "manifest" /\ Fault("manifest")
  /\ pc' = "idle" /\ old' = {}
  /\ UNCHANGED <<diskVars, memVars, req, committed>>

(* Mutant: LSNs begin again at 1 after the checkpoint.                     *)
MutantRestartLsns ==
  /\ pc = "truncate"
  /\ wal' = {} /\ walOk' = TRUE /\ walBase' = 1 /\ synced' = 0
  /\ nextLsn' = 1 /\ nextTxn' = 1 /\ mem' = EmptyMem
  /\ pc' = IF old = {} THEN "idle" ELSE "unlink"
  /\ UNCHANGED <<files, manifest, segs, nextRowId, segSeq, req, old, committed, faults>>

Truncate ==
  /\ pc = "truncate"
  /\ wal' = {} /\ walOk' = TRUE /\ walBase' = nextLsn /\ synced' = nextLsn - 1
  /\ mem' = EmptyMem
  /\ pc' = IF old = {} THEN "idle" ELSE "unlink"
  /\ UNCHANGED <<files, manifest, segs, nextRowId, segSeq, nextLsn, nextTxn,
                 req, old, committed, faults>>

(* set_len fails; or it empties the file and writing the header fails; or  *)
(* the header is written and its fsync fails.  The memtable is kept.       *)
TruncateFails ==
  /\ pc = "truncate" /\ Fault("truncate")
  /\ \/ UNCHANGED <<wal, walOk, walBase>>
     \/ wal' = {} /\ walOk' = FALSE /\ UNCHANGED walBase
     \/ wal' = {} /\ walOk' = TRUE /\ walBase' = nextLsn
  /\ pc' = "idle" /\ old' = {}
  /\ UNCHANGED <<synced, files, manifest, memVars, req, committed>>

Unlink ==
  /\ pc = "unlink"
  /\ files' = {f \in files : f.name \notin old \ Names(segs)}
  /\ pc' = "idle" /\ old' = {}
  /\ UNCHANGED <<wal, walOk, walBase, synced, manifest, memVars, req, committed, faults>>
-----------------------------------------------------------------------------
(* A crash keeps the log up to some record at or after the last one        *)
(* fsynced; while the log is being truncated it finds the file as it was,  *)
(* emptied without its header, or with the new header.                     *)
Crash ==
  /\ pc # "down"
  /\ \E cut \in synced .. nextLsn - 1 :
       /\ synced' = cut
       /\ \/ /\ wal' = {r \in wal : r.lsn <= cut}
             /\ UNCHANGED <<walOk, walBase>>
          \/ pc = "truncate" /\ wal' = {} /\ walOk' = FALSE /\ UNCHANGED walBase
          \/ pc = "truncate" /\ wal' = {} /\ walOk' = TRUE /\ walBase' = nextLsn
       /\ committed' = IF pc = "sync" /\ cut = nextLsn - 1
                       THEN [committed EXCEPT ![req.id] = req.row] ELSE committed
  /\ pc' = "down"
  /\ mem' = EmptyMem /\ segs' = {} /\ req' = NoReq /\ old' = {}
  /\ nextRowId' = 1 /\ segSeq' = 0 /\ nextLsn' = 1 /\ nextTxn' = 1
  /\ UNCHANGED <<files, manifest, faults>>

(* Mutant: row ids go on where the last manifest left them.                *)
MutantManifestIds(m) == 1 + Max({0} \cup {i \in Ids : i < manifest.nextRowId})

(* open: past the ids of the manifest, the segments and the live rows of   *)
(* the recovered memtable.                                                 *)
FirstFreeId(m) ==
  1 + Max({0} \cup {i \in Ids : \/ i < manifest.nextRowId
                                \/ \E s \in Loaded : s.data[i].lsn > 0
                                \/ m[i].row # Gone})

(* recover_after and open_append: past everything the log holds.           *)
FirstTxn(w) == 1 + Max({0} \cup {r.txn : r \in w})
FirstLsn(w, base) == IF w = {} THEN base ELSE 1 + Max({r.lsn : r \in w})

(* Database::open.  It fails, and the database stays down, if the log has  *)
(* no header or a segment the manifest names is missing.                   *)
Open ==
  LET m == Recovered(wal, manifest.checkpoint) IN
  /\ pc = "down"
  /\ walOk
  /\ manifest.segments \subseteq Names(files)
  /\ mem' = m
  /\ segs' = Loaded
  /\ nextRowId' = FirstFreeId(m)
  /\ segSeq' = manifest.segSeq
  /\ nextLsn' = FirstLsn(wal, walBase)
  /\ nextTxn' = FirstTxn(wal)
  /\ pc' = "idle"
  /\ UNCHANGED <<diskVars, req, old, committed, faults>>

Next ==
  \/ \E t \in Tables, p \in Payloads : Insert(t, p)
  \/ \E t \in Tables, i \in Ids, p \in Payloads : Update(t, i, p)
  \/ \E t \in Tables, i \in Ids : Delete(t, i)
  \/ Sync \/ SyncFails
  \/ Flush \/ Compact \/ CompactFails
  \/ WriteManifest \/ ManifestFails
  \/ Truncate \/ TruncateFails \/ Unlink
  \/ Crash \/ Open

Spec == Init /\ [][Next]_vars
-----------------------------------------------------------------------------
(* The types of all variables.                                             *)
TypeOK ==
  /\ wal \subseteq Record /\ walOk \in BOOLEAN
  /\ walBase \in 1 .. MaxLsn + 1 /\ synced \in 0 .. MaxLsn
  /\ files \subseteq Segment /\ manifest \in Manifest
  /\ pc \in {"idle", "sync", "manifest", "truncate", "unlink", "down"}
  /\ mem \in [Ids -> Version] /\ segs \subseteq Segment
  /\ nextRowId \in 1 .. MaxId + 1 /\ segSeq \in Nat
  /\ nextLsn \in 1 .. MaxLsn + 1 /\ nextTxn \in 1 .. nextLsn
  /\ \A r \in wal : r.txn <= r.lsn
  /\ req \in [id : 0 .. MaxId, row : Rows \cup {Gone}, lsn : 0 .. MaxLsn]
  /\ pc = "sync" => req.id \in Ids /\ req.lsn > 0
  /\ old \subseteq Nat
  /\ committed \in [Ids -> Rows \cup {Gone}] /\ faults \in Nat

View == [i \in Ids |-> ResolveLive(mem, segs, i).row]

DurableLog == {r \in wal : r.lsn <= synced}
DiskView == [i \in Ids |-> ResolveLive(Recovered(DurableLog, manifest.checkpoint), Loaded, i).row]

(* What the running database answers for every row is what the last        *)
(* committed write left there: through updates, deletes, flushes,          *)
(* compactions, and any crash and recovery.                                *)
CommittedSurvives == pc # "down" => View = committed

(* At every step of every operation, what open would reconstruct from the  *)
(* durable part of the disk is the committed data: a crash at any point    *)
(* neither loses a committed write nor applies one twice (database.rs).    *)
CrashSafe == walOk => DiskView = committed

(* The id the next insert takes is of no row that exists.                  *)
FreshIdIsFree == pc # "down" => \A i \in Ids : i >= nextRowId => committed[i] = Gone

(* Every segment the manifest names is on disk at every step, and the      *)
(* resident copy of a segment is the file's content: no file in use is     *)
(* unlinked or overwritten.                                                *)
FilesIntact == manifest.segments \subseteq Names(files) /\ segs \subseteq files

(* The next write gets an LSN above the checkpoint, so that recovery will  *)
(* replay it, and above every stamp, so that it wins over what it replaces.*)
LsnFresh ==
  pc # "down" =>
    /\ nextLsn > manifest.checkpoint
    /\ \A i \in Ids : mem[i].lsn < nextLsn /\ \A s \in segs : s.data[i].lsn < nextLsn

(* A stopped database can be opened again: flush's "a crash between any of *)
(* these steps is safe".                                                   *)
Reopenable == pc = "down" => walOk /\ manifest.segments \subseteq Names(files)

(* The detailed database implements the abstract store: what clients see   *)
(* changes only by one insert, update or delete of one row at a time.      *)
Store == INSTANCE DurableStore WITH rows <- IF pc = "down" THEN DiskView ELSE View
RefinesStore == Store!Spec
=============================================================================

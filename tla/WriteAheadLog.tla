--------------------------- MODULE WriteAheadLog ----------------------------
(***************************************************************************)
(* The log file of ll-wal, below the record sets of Database: the header,  *)
(* whole and torn frames in file order, the cursor's LSN, and the fsyncs.  *)
(* Its callers are Engine::insert/delete (append a data record, commit),   *)
(* Engine::recover_after (open_append) and Database::flush/compact         *)
(* (checkpoint_truncate at next_lsn).                                      *)
(***************************************************************************)
EXTENDS Integers, Sequences, SequencesExt, FiniteSetsExt

CONSTANTS
  MaxLsn,    \* bound: log sequence numbers
  MaxFaults  \* bound: failed writes and fsyncs of one behaviour

ASSUME LogBounds == MaxLsn \in Nat /\ MaxFaults \in Nat

(* A frame that decode_at rejects: incomplete, or with a wrong CRC.        *)
Torn == [lsn |-> 0, txn |-> 0, commit |-> FALSE]
Frame(lsn, txn, commit) == [lsn |-> lsn, txn |-> txn, commit |-> commit]

VARIABLES
  header,  \* "absent" (no file), "torn" (shorter than 16 bytes), "whole"
  base,    \* base_lsn in the header
  body,    \* the frames after the header
  synced,  \* how many of them a crash cannot take
  pc,      \* "closed", "open", "data" (a data record is appended), "header"
           \* (the file is empty and its header is about to be written)
  nextLsn, nextTxn,
  acked,   \* history: LSNs of commit records whose fsync returned, since
           \* the last checkpoint
  faults   \* failures so far

vars == <<header, base, body, synced, pc, nextLsn, nextTxn, acked, faults>>

(* replay: every frame before the first that does not decode.              *)
ValidLen == IF \E i \in DOMAIN body : body[i] = Torn
            THEN Min({i \in DOMAIN body : body[i] = Torn}) - 1 ELSE Len(body)
Replayed == SubSeq(body, 1, ValidLen)

(* Mutant: LSNs go on from the header's base.                              *)
MutantBase == base

(* Where open_append and recover_after go on.                              *)
FirstLsn == IF Replayed = <<>> THEN base ELSE Last(Replayed).lsn + 1
FirstTxn == 1 + Max({0} \cup {r.txn : r \in ToSet(Replayed)})

Init ==
  /\ header = "absent" /\ base = 1 /\ body = <<>> /\ synced = 0
  /\ pc = "closed" /\ nextLsn = 1 /\ nextTxn = 1 /\ acked = {} /\ faults = 0

(* Wal::create: the file exists, empty, before its header is in it.        *)
Create ==
  /\ pc = "closed" /\ header = "absent"
  /\ header' = "torn" /\ base' = 1 /\ body' = <<>> /\ synced' = 0
  /\ pc' = "header" /\ nextLsn' = 1 /\ nextTxn' = 1
  /\ UNCHANGED <<acked, faults>>

WriteHeader ==
  /\ pc = "header"
  /\ header' = "whole" /\ base' = nextLsn /\ synced' = 0
  /\ pc' = "open"
  /\ UNCHANGED <<body, nextLsn, nextTxn, acked, faults>>

(* append of the data record of a new transaction.                         *)
AppendData ==
  /\ pc = "open" /\ nextLsn < MaxLsn
  /\ body' = Append(body, Frame(nextLsn, nextTxn, FALSE))
  /\ nextLsn' = nextLsn + 1 /\ nextTxn' = nextTxn + 1
  /\ pc' = "data"
  /\ UNCHANGED <<header, base, synced, acked, faults>>

(* commit: the Commit record, then the fsync of everything before it.      *)
Commit ==
  /\ pc = "data"
  /\ body' = Append(body, Frame(nextLsn, nextTxn - 1, TRUE))
  /\ nextLsn' = nextLsn + 1
  /\ synced' = Len(body')
  /\ acked' = acked \cup {nextLsn}
  /\ pc' = "open"
  /\ UNCHANGED <<header, base, nextTxn, faults>>

Fault == faults < MaxFaults /\ faults' = faults + 1

(* write_all fails having written nothing, or part of the frame; the       *)
(* caller reports the error and the process goes on, next_lsn unchanged.   *)
WriteFails ==
  /\ pc \in {"open", "data"} /\ nextLsn <= MaxLsn /\ Fault
  /\ body' \in {body, Append(body, Torn)}
  /\ nextTxn' = IF pc = "open" THEN nextTxn + 1 ELSE nextTxn
  /\ pc' = "open"
  /\ UNCHANGED <<header, base, synced, nextLsn, acked>>

(* The fsync of commit fails after both records were written.              *)
SyncFails ==
  /\ pc = "data" /\ Fault
  /\ body' = Append(body, Frame(nextLsn, nextTxn - 1, TRUE))
  /\ nextLsn' = nextLsn + 1
  /\ pc' = "open"
  /\ UNCHANGED <<header, base, synced, nextTxn, acked>>

(* checkpoint_truncate: set_len(0), then a header whose base is next_lsn.  *)
EmptyFile ==
  /\ pc = "open" /\ body # <<>>
  /\ header' = "torn" /\ body' = <<>> /\ synced' = 0 /\ acked' = {}
  /\ pc' = "header"
  /\ UNCHANGED <<base, nextLsn, nextTxn, faults>>

(* A crash keeps the synced frames and any number of the others; the one   *)
(* after the last that is kept may be torn.                                *)
Crash ==
  /\ pc # "closed"
  /\ \E n \in synced .. Len(body) :
       body' \in {SubSeq(body, 1, n)}
                 \cup IF n < Len(body) THEN {Append(SubSeq(body, 1, n), Torn)} ELSE {}
  /\ synced' = Len(body')
  /\ pc' = "closed" /\ nextLsn' = 1 /\ nextTxn' = 1
  /\ UNCHANGED <<header, base, acked, faults>>

(* Mutant: the torn tail stays in the file.                                *)
MutantKeepTail ==
  /\ pc = "closed" /\ header = "whole"
  /\ synced' = Len(body)
  /\ nextLsn' = FirstLsn /\ nextTxn' = FirstTxn
  /\ pc' = "open"
  /\ UNCHANGED <<header, base, body, acked, faults>>

(* open_append with recover_after: the torn tail is cut off, and LSNs and  *)
(* transaction ids go on after the last record replayed.  replay fails on  *)
(* a file without a whole header.                                          *)
OpenAppend ==
  /\ pc = "closed" /\ header = "whole"
  /\ body' = Replayed /\ synced' = ValidLen
  /\ nextLsn' = FirstLsn /\ nextTxn' = FirstTxn
  /\ pc' = "open"
  /\ UNCHANGED <<header, base, acked, faults>>

Next ==
  \/ Create \/ WriteHeader
  \/ AppendData \/ Commit \/ WriteFails \/ SyncFails
  \/ EmptyFile \/ Crash \/ OpenAppend

Spec == Init /\ [][Next]_vars
-----------------------------------------------------------------------------
(* The types of all variables.                                             *)
WalTypeOK ==
  /\ header \in {"absent", "torn", "whole"} /\ base \in Nat
  /\ \A i \in DOMAIN body : body[i] \in [lsn : Nat, txn : Nat, commit : BOOLEAN]
  /\ synced \in 0 .. Len(body)
  /\ pc \in {"closed", "open", "data", "header"}
  /\ nextLsn \in 1 .. MaxLsn + 1 /\ nextTxn \in Nat \ {0}
  /\ acked \subseteq 1 .. MaxLsn /\ faults \in 0 .. MaxFaults

(* Once commit has returned, replay finds the commit record, and the data  *)
(* record of its transaction before it, until the next checkpoint.         *)
AckedReplayed ==
  \A lsn \in acked : \E i \in 2 .. ValidLen :
    body[i].lsn = lsn /\ body[i].commit /\ body[i - 1].txn = body[i].txn

(* As long as no write or fsync has failed, that is so across all crashes. *)
CommitsReplayed == faults = 0 => AckedReplayed

(* LSNs replay in strictly ascending order, none below the header's base,  *)
(* and the next one to be assigned is above them all.                      *)
LsnsAscend ==
  /\ \A i \in 1 .. ValidLen : body[i].lsn >= base + i - 1
  /\ \A i, j \in 1 .. ValidLen : i < j => body[i].lsn < body[j].lsn
  /\ pc \in {"open", "data"} => \A i \in 1 .. ValidLen : body[i].lsn < nextLsn

(* A transaction id is never given to two data records of one log: the     *)
(* Commit record of one would commit the other.                            *)
TxnsDistinct ==
  \A i, j \in 1 .. ValidLen :
    body[i].txn = body[j].txn /\ ~body[i].commit /\ ~body[j].commit => i = j

(* The log stays a log, through crashes, failures and recoveries: LSNs     *)
(* ascend and transaction ids are not reused.                              *)
LogOrdered == LsnsAscend /\ TxnsDistinct
=============================================================================

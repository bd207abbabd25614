---------------------------- MODULE DurableStore ----------------------------
(***************************************************************************)
(* What Sunjet's storage engine promises its clients, without a log, a     *)
(* memtable, segments or crashes: one map from row ids to rows, of which   *)
(* every step inserts, updates or deletes one row.  Database.tla is the    *)
(* implementation; it is shown to refine this module.                      *)
(***************************************************************************)
CONSTANTS
  Ids,      \* row ids
  Tables,   \* tables of the schema
  Cols,     \* their columns
  Payloads, \* what a client may send: a value, Null or Keep, for each column
  Null,     \* a cell without a value
  Keep,     \* a column the payload does not name
  Gone      \* the row does not exist

VARIABLE rows

Blank == [c \in Cols |-> Null]

(* database.rs update: named columns are overwritten, the rest is kept.    *)
Overwrite(cells, p) == [c \in Cols |-> IF p[c] = Keep THEN cells[c] ELSE p[c]]

Init == rows = [i \in Ids |-> Gone]

(* An insert never lands on a row that exists.                             *)
Insert(i, t, p) ==
  /\ rows[i] = Gone
  /\ rows' = [rows EXCEPT ![i] = [table |-> t, cells |-> Overwrite(Blank, p)]]

Update(i, p) ==
  /\ rows[i] # Gone
  /\ rows' = [rows EXCEPT ![i].cells = Overwrite(rows[i].cells, p)]

Delete(i) ==
  /\ rows[i] # Gone
  /\ rows' = [rows EXCEPT ![i] = Gone]

Next ==
  \E i \in Ids :
    \/ \E t \in Tables, p \in Payloads : Insert(i, t, p)
    \/ \E p \in Payloads : Update(i, p)
    \/ Delete(i)

Spec == Init /\ [][Next]_rows
=============================================================================

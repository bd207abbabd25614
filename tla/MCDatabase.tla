----------------------------- MODULE MCDatabase -----------------------------
(* Instances of Database for TLC.                                          *)
EXTENDS Database, TLC

CONSTANTS t1, t2, i64a, i64b, utf8a, vec2a, vec3a, i64, utf8, vec2, vec3

(* The kind of each value, and the kinds that are vectors.                 *)
MCKind == i64a :> i64 @@ i64b :> i64 @@ utf8a :> utf8 @@ vec2a :> vec2 @@ vec3a :> vec3
MCVectorKinds == {vec2, vec3}

(* One column: every payload names it.                                     *)
OneColumn == [Cols -> Vals]

(* Two columns: a full row, and an explicit null for the second column.    *)
TwoColumns == {(1 :> i64a @@ 2 :> i64b), (1 :> Keep @@ 2 :> Null)}
=============================================================================

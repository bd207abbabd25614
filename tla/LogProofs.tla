----------------------------- MODULE LogProofs ------------------------------
(***************************************************************************)
(* Proofs about WriteAheadLog, for every bound: as long as no write fails, *)
(* what was committed is replayed, and the log stays a log in any case.    *)
(***************************************************************************)
EXTENDS WriteAheadLog, SequenceTheorems, FiniteSetTheorems, TLAPS

Frames == [lsn : 0..MaxLsn, txn : Nat, commit : BOOLEAN]

Shape ==
  /\ header \in {"absent", "torn", "whole"} /\ pc \in {"closed", "open", "data", "header"}
  /\ base \in 1..(MaxLsn + 1) /\ nextLsn \in 1..(MaxLsn + 1) /\ nextTxn \in Nat \ {0}
  /\ body \in Seq(Frames) /\ synced \in 0..Len(body)
  /\ acked \subseteq 1..MaxLsn /\ faults \in 0..MaxFaults

(* A file that has no header yet holds nothing.                            *)
Blank ==
  /\ header = "absent" => pc = "closed"
  /\ header = "absent" \/ pc = "header" => body = <<>> /\ acked = {}

Ascending ==
  /\ LsnsAscend
  /\ pc \in {"open", "data", "header"} => nextLsn >= base
  /\ pc = "data" => nextLsn <= MaxLsn

Distinct ==
  /\ TxnsDistinct
  /\ pc \in {"open", "data"} => \A i \in 1..ValidLen : body[i].txn < nextTxn

(* Without failures the whole log is valid while it is open, its last      *)
(* frame is the data record a commit is about to follow, and what was      *)
(* acknowledged is out of a crash's reach.                                 *)
Kept(lsn, i) ==
  /\ i <= synced /\ body[i].lsn = lsn /\ body[i].commit
  /\ body[i - 1].txn = body[i].txn

Unfailed ==
  faults = 0 =>
    /\ pc /= "closed" => ValidLen = Len(body)
    /\ pc = "data" => body /= <<>> /\ body[Len(body)].txn = nextTxn - 1
    /\ \A lsn \in acked : \E i \in 2..ValidLen : Kept(lsn, i)

IInv == Shape /\ Blank /\ Ascending /\ Distinct /\ Unfailed
-----------------------------------------------------------------------------
LEMMA FrameFields ==
  ASSUME NEW r \in Frames
  PROVE  r.lsn \in Nat /\ r.txn \in Nat /\ r.commit \in BOOLEAN
BY LogBounds DEF Frames

LEMMA NewFrame ==
  ASSUME NEW lsn \in 1..MaxLsn, NEW txn \in Nat, NEW commit \in BOOLEAN
  PROVE  /\ Frame(lsn, txn, commit) \in Frames /\ Frame(lsn, txn, commit) /= Torn
         /\ Frame(lsn, txn, commit).lsn = lsn /\ Frame(lsn, txn, commit).txn = txn
         /\ Frame(lsn, txn, commit).commit = commit
<1>1. lsn \in 0..MaxLsn /\ lsn /= 0
  BY LogBounds
<1>2. Frame(lsn, txn, commit) \in Frames
  BY <1>1 DEF Frame, Frames
<1>3. Frame(lsn, txn, commit).lsn /= Torn.lsn
  BY <1>1 DEF Frame, Torn
<1>4. QED
  BY <1>2, <1>3 DEF Frame

(* What replay keeps of a sequence of frames.                              *)
CutOff(b) == IF \E i \in DOMAIN b : b[i] = Torn
             THEN Min({i \in DOMAIN b : b[i] = Torn}) - 1 ELSE Len(b)

IsCut(b, n) ==
  /\ n \in 0..Len(b) /\ \A i \in 1..n : b[i] /= Torn
  /\ n < Len(b) => b[n + 1] = Torn

LEMMA MinIsLeast ==
  ASSUME NEW S \in SUBSET Nat, S /= {}
  PROVE  Min(S) \in S /\ \A x \in S : Min(S) <= x
<1>1. PICK x \in S : \A y \in S : <<y, x>> \notin OpToRel(<, Nat)
  BY NatLessThanWellFounded, WFMin
<1>2. \A y \in S : ~(y < x)
  BY <1>1 DEF OpToRel
<1>3. \A y \in S : x <= y
  BY <1>2
<1>4. QED
  BY <1>3 DEF Min

LEMMA CutExists == ASSUME NEW b \in Seq(Frames) PROVE IsCut(b, CutOff(b))
<1> DEFINE S == {i \in DOMAIN b : b[i] = Torn}
<1>1. DOMAIN b = 1..Len(b) /\ Len(b) \in Nat
  BY LenProperties
<1>2. CASE S = {}
  <2>1. \A i \in DOMAIN b : b[i] /= Torn
    BY <1>2
  <2>2. CutOff(b) = Len(b)
    BY <2>1 DEF CutOff
  <2>3. QED
    BY <1>1, <2>1, <2>2 DEF IsCut
<1>3. CASE S /= {}
  <2> DEFINE T == S
  <2>0. T \in SUBSET Nat /\ T /= {}
    BY <1>1, <1>3
  <2> HIDE DEF T
  <2>a. Min(T) \in T /\ \A x \in T : Min(T) <= x
    BY <2>0, MinIsLeast
  <2>1. Min(S) \in S /\ \A x \in S : Min(S) <= x
    BY <2>a DEF T
  <2>2. \E i \in DOMAIN b : b[i] = Torn
    BY <1>3
  <2>3. CutOff(b) = Min(S) - 1
    BY <2>2 DEF CutOff
  <2> DEFINE k == Min(S)
             n == CutOff(b)
  <2>4. k \in S /\ \A x \in S : k <= x
    BY <2>1
  <2>5. n = k - 1
    BY <2>3
  <2> HIDE DEF k, n
  <2>6. k \in 1..Len(b) /\ b[k] = Torn
    BY <1>1, <2>4
  <2>7. \A i \in 1..(k - 1) : b[i] /= Torn
    <3>1. SUFFICES ASSUME NEW i \in 1..(k - 1), b[i] = Torn PROVE FALSE
      OBVIOUS
    <3>2. i \in S
      BY <1>1, <2>6, <3>1
    <3>3. QED
      BY <1>1, <2>4, <2>6, <3>1, <3>2
  <2>8. n \in 0..Len(b) /\ n + 1 = k
    BY <1>1, <2>5, <2>6
  <2>9. IsCut(b, n)
    BY <2>5, <2>6, <2>7, <2>8 DEF IsCut
  <2>10. QED
    BY <2>9 DEF n
<1>4. QED
  BY <1>2, <1>3

LEMMA CutUnique ==
  ASSUME NEW b \in Seq(Frames), NEW n, IsCut(b, n)
  PROVE  CutOff(b) = n
<1>1. IsCut(b, CutOff(b))
  BY CutExists
<1> DEFINE k == CutOff(b)
<1>2. Len(b) \in Nat /\ k \in 0..Len(b) /\ n \in 0..Len(b)
  BY <1>1, LenProperties DEF IsCut
<1> HIDE DEF k
<1>3. ~ (k < n)
  BY <1>1, <1>2 DEF IsCut, k
<1>4. ~ (n < k)
  BY <1>1, <1>2 DEF IsCut, k
<1>5. k = n
  BY <1>2, <1>3, <1>4
<1>6. QED
  BY <1>5 DEF k

LEMMA CutEmpty == CutOff(<<>>) = 0
<1>1. <<>> \in Seq(Frames) /\ IsCut(<<>>, 0)
  BY DEF IsCut
<1>2. QED
  BY <1>1, CutUnique

LEMMA AddedFrame ==
  ASSUME NEW b \in Seq(Frames), NEW f \in Frames
  PROVE  /\ Append(b, f) \in Seq(Frames) /\ Len(Append(b, f)) = Len(b) + 1
         /\ \A i \in 1..Len(b) : Append(b, f)[i] = b[i]
         /\ Append(b, f)[Len(b) + 1] = f
         /\ CutOff(b) < Len(b) \/ f = Torn => CutOff(Append(b, f)) = CutOff(b)
         /\ CutOff(b) = Len(b) /\ f /= Torn => CutOff(Append(b, f)) = Len(b) + 1
<1> DEFINE a == Append(b, f)
           k == CutOff(b)
<1>1. /\ a \in Seq(Frames) /\ Len(a) = Len(b) + 1 /\ Len(b) \in Nat
      /\ \A i \in 1..Len(b) : a[i] = b[i]
      /\ a[Len(b) + 1] = f
  BY AppendProperties, LenProperties
<1>2. IsCut(b, k)
  BY CutExists
<1> HIDE DEF a, k
<1>3. k \in 0..Len(b) /\ \A i \in 1..k : b[i] /= Torn
  BY <1>2 DEF IsCut
<1>4. ASSUME k < Len(b) \/ f = Torn PROVE CutOff(a) = k
  <2>1. k \in 0..Len(a) /\ \A i \in 1..k : a[i] /= Torn
    BY <1>1, <1>3
  <2>2. a[k + 1] = Torn
    <3>1. CASE k < Len(b)
      BY <1>1, <1>2, <1>3, <3>1 DEF IsCut
    <3>2. CASE ~(k < Len(b))
      BY <1>1, <1>3, <1>4, <3>2
    <3>3. QED
      BY <3>1, <3>2
  <2>3. IsCut(a, k)
    BY <2>1, <2>2 DEF IsCut
  <2>4. QED
    BY <1>1, <2>3, CutUnique
<1>5. ASSUME k = Len(b), f /= Torn PROVE CutOff(a) = Len(b) + 1
  <2>1. \A i \in 1..(Len(b) + 1) : a[i] /= Torn
    <3>1. SUFFICES ASSUME NEW i \in 1..(Len(b) + 1) PROVE a[i] /= Torn
      OBVIOUS
    <3>2. i \in 1..Len(b) \/ i = Len(b) + 1
      BY <1>1, <3>1
    <3>3. QED
      BY <1>1, <1>3, <1>5, <3>2
  <2>2. IsCut(a, Len(b) + 1)
    BY <1>1, <2>1 DEF IsCut
  <2>3. QED
    BY <1>1, <2>2, CutUnique
<1>6. QED
  BY <1>1, <1>4, <1>5 DEF a, k

LEMMA PrefixCut ==
  ASSUME NEW b \in Seq(Frames), NEW n \in 0..Len(b)
  PROVE  /\ SubSeq(b, 1, n) \in Seq(Frames) /\ Len(SubSeq(b, 1, n)) = n
         /\ \A i \in 1..n : SubSeq(b, 1, n)[i] = b[i]
         /\ CutOff(SubSeq(b, 1, n)) = IF n <= CutOff(b) THEN n ELSE CutOff(b)
<1> DEFINE a == SubSeq(b, 1, n)
           k == CutOff(b)
<1>1. Len(b) \in Nat /\ \A i \in 1..n : b[i] \in Frames
  BY LenProperties, ElementOfSeq
<1>2. a \in Seq(Frames) /\ Len(a) = n /\ \A i \in 1..n : a[i] = b[i]
  BY <1>1, SubSeqProperties
<1>3. IsCut(b, k)
  BY CutExists
<1> HIDE DEF a, k
<1>4. IsCut(a, IF n <= k THEN n ELSE k)
  BY <1>1, <1>2, <1>3 DEF IsCut
<1>5. QED
  BY <1>2, <1>4, CutUnique DEF a, k

LEMMA ValidLenIs == ValidLen = CutOff(body)
BY DEF ValidLen, CutOff

LEMMA Bounds ==
  ASSUME Shape
  PROVE  /\ ValidLen \in 0..Len(body) /\ Len(body) \in Nat
         /\ DOMAIN body = 1..Len(body)
         /\ \A i \in 1..Len(body) : body[i] \in Frames
         /\ \A i \in 1..ValidLen : body[i] /= Torn
<1>1. body \in Seq(Frames) /\ Len(body) \in Nat /\ DOMAIN body = 1..Len(body)
  BY LenProperties DEF Shape
<1>2. IsCut(body, ValidLen)
  BY <1>1, CutExists, ValidLenIs
<1>3. \A i \in 1..Len(body) : body[i] \in Frames
  BY <1>1, ElementOfSeq
<1>4. QED
  BY <1>1, <1>2, <1>3 DEF IsCut

LEMMA NextValidLen == ValidLen' = CutOff(body')
BY DEF ValidLen, CutOff

(* The log of a step after which it is empty.                              *)
LEMMA Emptied ==
  ASSUME body' = <<>>
  PROVE  ValidLen' = 0 /\ Len(body') = 0 /\ LsnsAscend' /\ Distinct'
<1>1. ValidLen' = 0
  BY NextValidLen, CutEmpty
<1>2. QED
  BY <1>1 DEF LsnsAscend, Distinct, TxnsDistinct

(* The log of a step that keeps a prefix of what is valid.                 *)
LEMMA Shortened ==
  ASSUME Shape, LsnsAscend, TxnsDistinct, base' = base,
         ValidLen' \in Nat, ValidLen' <= ValidLen,
         \A i \in 1..ValidLen' : body'[i] = body[i]
  PROVE  /\ \A i \in 1..ValidLen' : body'[i].lsn >= base' + i - 1
         /\ \A i, j \in 1..ValidLen' : i < j => body'[i].lsn < body'[j].lsn
         /\ TxnsDistinct'
<1>1. ValidLen \in Nat
  BY Bounds
<1>2. \A i \in 1..ValidLen' : i \in 1..ValidLen
  BY <1>1
<1>3. \A i \in 1..ValidLen' : body'[i].lsn >= base' + i - 1
  BY <1>2 DEF LsnsAscend
<1>4. \A i, j \in 1..ValidLen' : i < j => body'[i].lsn < body'[j].lsn
  BY <1>2 DEF LsnsAscend
<1>5. TxnsDistinct'
  BY <1>2 DEF TxnsDistinct
<1>6. QED
  BY <1>3, <1>4, <1>5

(* The log of a step that appends a record at the cursor.                  *)
LEMMA Extended ==
  ASSUME Shape, LsnsAscend, Distinct, pc \in {"open", "data"}, nextLsn >= base,
         NEW f \in Frames, f.lsn = nextLsn, body' = Append(body, f),
         base' = base, nextLsn' = nextLsn + 1, nextTxn' \in Nat,
         nextTxn <= nextTxn', f.txn < nextTxn', f.commit = TRUE \/ f.txn = nextTxn
  PROVE  /\ body' \in Seq(Frames) /\ Len(body') = Len(body) + 1
         /\ \A i \in 1..Len(body) : body'[i] = body[i]
         /\ body'[Len(body) + 1] = f
         /\ ValidLen = Len(body) => ValidLen' = Len(body')
         /\ ValidLen <= ValidLen' /\ ValidLen' \in Nat
         /\ LsnsAscend' /\ Distinct'
<1> DEFINE v == ValidLen
           w == ValidLen'
           n == Len(body)
<1>1. /\ body \in Seq(Frames) /\ nextLsn \in Nat \ {0} /\ base \in Nat
      /\ nextTxn \in Nat /\ f.txn \in Nat
  BY DEF Shape, Frames
<1>2. v \in 0..n /\ n \in Nat /\ \A i \in 1..n : body[i] \in Frames
  BY Bounds
<1>3. f /= Torn
  BY <1>1 DEF Torn
<1>4. /\ body' \in Seq(Frames) /\ Len(body') = n + 1
      /\ \A i \in 1..n : body'[i] = body[i]
      /\ body'[n + 1] = f
  BY <1>1, AddedFrame
<1>5. /\ v < n => w = v
      /\ v = n => w = n + 1
  BY <1>1, <1>3, AddedFrame, ValidLenIs, NextValidLen
<1> HIDE DEF v, w, n
<1>6. w \in Nat /\ v <= w
  BY <1>2, <1>5
<1>7. \A i \in 1..w : i \in 1..v \/ (i = v + 1 /\ v = n)
  BY <1>2, <1>5
<1>8. \A i \in 1..v : i \in 1..n /\ body'[i] = body[i] /\ body'[i] \in Frames
  BY <1>2, <1>4
<1>9. /\ \A i \in 1..v : body[i].lsn >= base + i - 1 /\ body[i].lsn < nextLsn
      /\ \A i, j \in 1..v : i < j => body[i].lsn < body[j].lsn
      /\ \A i \in 1..v : body[i].txn < nextTxn
      /\ \A i, j \in 1..v :
           body[i].txn = body[j].txn /\ ~body[i].commit /\ ~body[j].commit => i = j
  BY DEF LsnsAscend, Distinct, TxnsDistinct, v
<1>10. \A i \in 1..v : body'[i].lsn \in Nat /\ body'[i].txn \in Nat
  <2>1. SUFFICES ASSUME NEW i \in 1..v PROVE body'[i].lsn \in Nat /\ body'[i].txn \in Nat
    OBVIOUS
  <2>2. body'[i] \in Frames
    BY <1>8
  <2>3. QED
    BY <2>2, FrameFields
<1>11. nextLsn >= base + v
  <2>1. CASE v = 0
    BY <1>1, <2>1
  <2>2. CASE v /= 0
    <3>1. v \in 1..v
      BY <1>2, <2>2
    <3>2. body[v].lsn >= base + v - 1 /\ body[v].lsn < nextLsn /\ body[v].lsn \in Nat
      BY <1>8, <1>9, <1>10, <3>1
    <3>3. QED
      BY <1>1, <1>2, <3>2
  <2>3. QED
    BY <2>1, <2>2
<1>12. \A i \in 1..w : body'[i].lsn >= base' + i - 1
  <2>1. SUFFICES ASSUME NEW i \in 1..w PROVE body'[i].lsn >= base' + i - 1
    OBVIOUS
  <2>2. CASE i \in 1..v
    BY <1>8, <1>9, <2>2
  <2>3. CASE i = v + 1 /\ v = n
    BY <1>1, <1>2, <1>4, <1>11, <2>3
  <2>4. QED
    BY <1>7, <2>2, <2>3
<1>13. \A i, j \in 1..w : i < j => body'[i].lsn < body'[j].lsn
  <2>1. SUFFICES ASSUME NEW i \in 1..w, NEW j \in 1..w, i < j
                 PROVE  body'[i].lsn < body'[j].lsn
    OBVIOUS
  <2>2. i \in 1..v
    BY <1>2, <1>7, <2>1
  <2>3. CASE j \in 1..v
    BY <1>8, <1>9, <2>1, <2>2, <2>3
  <2>4. CASE j = v + 1 /\ v = n
    <3>1. body'[j].lsn = nextLsn
      BY <1>4, <2>4
    <3>2. QED
      BY <1>8, <1>9, <2>2, <3>1
  <2>5. QED
    BY <1>7, <2>3, <2>4
<1>14. \A i \in 1..w : body'[i].lsn < nextLsn'
  <2>1. SUFFICES ASSUME NEW i \in 1..w PROVE body'[i].lsn < nextLsn'
    OBVIOUS
  <2>2. CASE i \in 1..v
    <3>1. body[i].lsn < nextLsn /\ body[i].txn < nextTxn /\ body'[i] = body[i]
      BY <1>8, <1>9, <2>2
    <3>2. body[i].lsn \in Nat /\ body[i].txn \in Nat
      BY <1>10, <2>2, <3>1
    <3>3. QED
      BY <1>1, <3>1, <3>2
  <2>3. CASE i = v + 1 /\ v = n
    BY <1>1, <1>4, <2>3
  <2>4. QED
    BY <1>7, <2>2, <2>3
<1>15. \A i \in 1..w : body'[i].txn < nextTxn'
  <2>1. SUFFICES ASSUME NEW i \in 1..w PROVE body'[i].txn < nextTxn'
    OBVIOUS
  <2>2. CASE i \in 1..v
    <3>1. body[i].lsn < nextLsn /\ body[i].txn < nextTxn /\ body'[i] = body[i]
      BY <1>8, <1>9, <2>2
    <3>2. body[i].lsn \in Nat /\ body[i].txn \in Nat
      BY <1>10, <2>2, <3>1
    <3>3. QED
      BY <1>1, <3>1, <3>2
  <2>3. CASE i = v + 1 /\ v = n
    BY <1>4, <2>3
  <2>4. QED
    BY <1>7, <2>2, <2>3
<1>16. \A i, j \in 1..w :
         body'[i].txn = body'[j].txn /\ ~body'[i].commit /\ ~body'[j].commit => i = j
  <2>1. SUFFICES ASSUME NEW i \in 1..w, NEW j \in 1..w, body'[i].txn = body'[j].txn,
                        ~body'[i].commit, ~body'[j].commit
                 PROVE  i = j
    OBVIOUS
  <2>2. \A k \in 1..w : ~body'[k].commit /\ k \notin 1..v => body'[k].txn = nextTxn
    BY <1>4, <1>7
  <2>3. \A k \in 1..v : body'[k].txn < nextTxn /\ body'[k].txn \in Nat
    BY <1>8, <1>9, <1>10
  <2>a. \A k \in 1..v : body'[k].txn /= nextTxn
    <3>1. SUFFICES ASSUME NEW k \in 1..v PROVE body'[k].txn /= nextTxn
      OBVIOUS
    <3> DEFINE t == body'[k].txn
    <3>2. t < nextTxn /\ t \in Nat /\ nextTxn \in Nat
      BY <1>1, <2>3
    <3> HIDE DEF t
    <3>3. t /= nextTxn
      BY <3>2
    <3>4. QED
      BY <3>3 DEF t
  <2>4. CASE i \in 1..v /\ j \in 1..v
    <3>1. body'[i] = body[i] /\ body'[j] = body[j]
      BY <1>8, <2>4
    <3>2. body[i].txn = body[j].txn /\ ~body[i].commit /\ ~body[j].commit
      BY <2>1, <3>1
    <3>3. QED
      BY <1>9, <2>4, <3>2
  <2>5. CASE i \notin 1..v /\ j \notin 1..v
    BY <1>7, <2>5
  <2>6. CASE i \in 1..v /\ j \notin 1..v
    BY <2>1, <2>2, <2>a, <2>6
  <2>7. CASE i \notin 1..v /\ j \in 1..v
    BY <2>1, <2>2, <2>a, <2>7
  <2>8. QED
    BY <2>4, <2>5, <2>6, <2>7
<1>17. LsnsAscend'
  BY <1>12, <1>13, <1>14 DEF LsnsAscend, w
<1>18. Distinct'
  BY <1>15, <1>16 DEF Distinct, TxnsDistinct, w
<1>19. v = n => w = Len(body')
  BY <1>4, <1>5
<1>20. QED
  BY <1>4, <1>6, <1>17, <1>18, <1>19 DEF v, w, n

(* An acknowledged record stays where it is when the log grows.            *)
LEMMA KeptOn ==
  ASSUME Shape, NEW lsn, NEW i \in 2..ValidLen, Kept(lsn, i),
         \A k \in 1..Len(body) : body'[k] = body[k],
         i <= synced', ValidLen <= ValidLen', ValidLen' \in Nat
  PROVE  i \in 2..ValidLen' /\ Kept(lsn, i)'
<1>1. ValidLen \in 0..Len(body) /\ Len(body) \in Nat
  BY Bounds
<1>2. i \in 1..Len(body) /\ i - 1 \in 1..Len(body) /\ i \in 2..ValidLen'
  BY <1>1
<1>3. body'[i] = body[i] /\ body'[i - 1] = body[i - 1]
  BY <1>2
<1>4. QED
  BY <1>2, <1>3 DEF Kept
-----------------------------------------------------------------------------
LEMMA Started == Init => IInv
<1>1. SUFFICES ASSUME Init PROVE IInv
  OBVIOUS
<1>2. body = <<>> /\ body \in Seq(Frames) /\ Len(body) = 0
  BY <1>1 DEF Init
<1>a. ValidLen = 0
  BY <1>2, ValidLenIs, CutEmpty
<1>b. 1 \in 1..(MaxLsn + 1) /\ 0 \in 0..MaxFaults
  BY LogBounds
<1>c. Shape
  BY <1>1, <1>2, <1>b DEF Init, Shape
<1>3. Shape /\ Blank
  BY <1>1, <1>2, <1>c DEF Init, Blank
<1>4. LsnsAscend /\ Distinct
  BY <1>a DEF LsnsAscend, Distinct, TxnsDistinct
<1>5. Ascending /\ Unfailed
  BY <1>1, <1>a, <1>2, <1>4 DEF Init, Ascending, Unfailed
<1>6. QED
  BY <1>3, <1>4, <1>5 DEF IInv

LEMMA CreateKeeps == ASSUME IInv, Create PROVE IInv'
<1>1. body' = <<>> /\ ValidLen' = 0 /\ Len(body') = 0 /\ LsnsAscend' /\ Distinct'
  BY Emptied DEF Create
<1>2. Shape'
  BY <1>1, LogBounds DEF IInv, Shape, Create
<1>3. Blank'
  BY <1>1 DEF IInv, Blank, Create
<1>4. Ascending'
  BY <1>1 DEF Create, Ascending
<1>5. Unfailed'
  BY <1>1, <1>3 DEF Create, Unfailed, Blank
<1>6. QED
  BY <1>1, <1>2, <1>3, <1>4, <1>5 DEF IInv

LEMMA WriteHeaderKeeps == ASSUME IInv, WriteHeader PROVE IInv'
<1>1. body' = <<>> /\ acked' = {}
  BY DEF IInv, Blank, WriteHeader
<1>2. ValidLen' = 0 /\ Len(body') = 0 /\ LsnsAscend' /\ Distinct'
  BY <1>1, Emptied
<1>3. Shape'
  BY <1>1, <1>2 DEF IInv, Shape, WriteHeader
<1>4. Blank'
  BY <1>1 DEF IInv, Blank, WriteHeader
<1>5. Ascending'
  BY <1>2 DEF IInv, Shape, WriteHeader, Ascending
<1>6. Unfailed'
  BY <1>1, <1>2 DEF WriteHeader, Unfailed
<1>7. QED
  BY <1>2, <1>3, <1>4, <1>5, <1>6 DEF IInv

LEMMA EmptyFileKeeps == ASSUME IInv, EmptyFile PROVE IInv'
<1>1. body' = <<>> /\ ValidLen' = 0 /\ Len(body') = 0 /\ LsnsAscend' /\ Distinct'
  BY Emptied DEF EmptyFile
<1>2. Shape'
  BY <1>1 DEF IInv, Shape, EmptyFile
<1>3. Blank'
  BY <1>1 DEF IInv, Blank, EmptyFile
<1>4. Ascending'
  BY <1>1 DEF IInv, EmptyFile, Ascending
<1>5. Unfailed'
  BY <1>1 DEF EmptyFile, Unfailed
<1>6. QED
  BY <1>1, <1>2, <1>3, <1>4, <1>5 DEF IInv

LEMMA AppendDataKeeps == ASSUME IInv, AppendData PROVE IInv'
<1> DEFINE f == Frame(nextLsn, nextTxn, FALSE)
<1>1. Shape /\ LsnsAscend /\ Distinct /\ nextLsn >= base /\ pc = "open"
  BY DEF IInv, Ascending, AppendData
<1>2. nextLsn \in 1..MaxLsn /\ nextLsn < MaxLsn /\ nextTxn \in Nat
  BY <1>1, LogBounds DEF Shape, AppendData
<1>3. /\ f \in Frames /\ f /= Torn
      /\ f.lsn = nextLsn /\ f.txn = nextTxn
  BY <1>2, NewFrame
<1> HIDE DEF f
<1>4. f.txn < nextTxn' /\ nextTxn <= nextTxn' /\ nextTxn' \in Nat
  <2>1. nextTxn' = nextTxn + 1
    BY DEF AppendData
  <2>2. QED
    BY <1>2, <1>3, <2>1
<1>5. body' = Append(body, f) /\ base' = base /\ nextLsn' = nextLsn + 1
  BY DEF AppendData, f
<1>6. /\ body' \in Seq(Frames) /\ Len(body') = Len(body) + 1
      /\ \A i \in 1..Len(body) : body'[i] = body[i]
      /\ body'[Len(body) + 1] = f
      /\ ValidLen = Len(body) => ValidLen' = Len(body')
      /\ ValidLen <= ValidLen' /\ ValidLen' \in Nat
      /\ LsnsAscend' /\ Distinct'
  BY <1>1, <1>3, <1>4, <1>5, Extended
<1>7. Shape'
  <2>1. synced' \in 0..Len(body')
    BY <1>1, <1>6, Bounds DEF AppendData, Shape
  <2>2. nextLsn' \in 1..(MaxLsn + 1) /\ nextTxn' \in Nat \ {0}
    BY <1>2, LogBounds DEF AppendData
  <2>3. QED
    BY <1>1, <1>6, <2>1, <2>2 DEF AppendData, Shape
<1>8. Blank'
  BY DEF IInv, Blank, AppendData
<1>9. Ascending'
  <2>1. nextLsn' <= MaxLsn /\ nextLsn' >= base'
    BY <1>1, <1>2, LogBounds DEF AppendData, Shape
  <2>2. QED
    BY <1>6, <2>1 DEF Ascending
<1>10. Unfailed'
  <2>1. SUFFICES ASSUME faults = 0
                 PROVE  /\ ValidLen' = Len(body')
                        /\ body' /= <<>> /\ body'[Len(body')].txn = nextTxn' - 1
                        /\ \A lsn \in acked : \E i \in 2..ValidLen' : Kept(lsn, i)'
    BY DEF AppendData, Unfailed
  <2>2. ValidLen = Len(body) /\ \A lsn \in acked : \E i \in 2..ValidLen : Kept(lsn, i)
    BY <1>1, <2>1 DEF IInv, Unfailed
  <2>3. ValidLen' = Len(body')
    BY <1>6, <2>2
  <2>4. body'[Len(body')].txn = nextTxn' - 1
    <3>1. body'[Len(body')].txn = nextTxn
      BY <1>3, <1>6
    <3>2. nextTxn' = nextTxn + 1
      BY DEF AppendData
    <3>3. QED
      BY <1>2, <3>1, <3>2
  <2>5. body' /= <<>>
    BY <1>1, <1>6, Bounds
  <2>6. \A lsn \in acked : \E i \in 2..ValidLen' : Kept(lsn, i)'
    <3>1. SUFFICES ASSUME NEW lsn \in acked PROVE \E i \in 2..ValidLen' : Kept(lsn, i)'
      OBVIOUS
    <3>2. PICK i \in 2..ValidLen : Kept(lsn, i)
      BY <2>2
    <3>3. i <= synced'
      BY <3>2 DEF Kept, AppendData
    <3>4. i \in 2..ValidLen' /\ Kept(lsn, i)'
      BY <1>1, <1>6, <3>2, <3>3, KeptOn
    <3>5. QED
      BY <3>4
  <2>7. QED
    BY <2>3, <2>4, <2>5, <2>6 DEF Kept
<1>11. QED
  BY <1>6, <1>7, <1>8, <1>9, <1>10 DEF IInv

(* What commit's record does to the log, whether or not its fsync returns. *)
LEMMA CommitRecord ==
  ASSUME IInv, pc = "data", pc' = "open", nextLsn' = nextLsn + 1,
         body' = Append(body, Frame(nextLsn, nextTxn - 1, TRUE)),
         header' = header, base' = base, nextTxn' = nextTxn,
         synced' \in {synced, Len(body')}, faults' \in 0..MaxFaults,
         acked' \in {acked, acked \cup {nextLsn}}
  PROVE  /\ Shape' /\ Blank' /\ Ascending' /\ Distinct'
         /\ Shape /\ Len(body) \in Nat /\ nextLsn \in 1..MaxLsn /\ nextTxn \in Nat
         /\ Len(body') = Len(body) + 1 /\ synced <= synced'
         /\ \A i \in 1..Len(body) : body'[i] = body[i]
         /\ body'[Len(body) + 1].lsn = nextLsn /\ body'[Len(body) + 1].commit
         /\ body'[Len(body) + 1].txn = nextTxn - 1
         /\ ValidLen = Len(body) => ValidLen' = Len(body')
         /\ ValidLen <= ValidLen' /\ ValidLen' \in Nat
<1> DEFINE f == Frame(nextLsn, nextTxn - 1, TRUE)
<1>1. /\ Shape /\ LsnsAscend /\ Distinct /\ nextLsn >= base /\ pc \in {"open", "data"}
      /\ nextLsn <= MaxLsn
  BY DEF IInv, Ascending
<1>2. nextLsn \in 1..MaxLsn /\ nextTxn \in Nat \ {0} /\ nextTxn - 1 \in Nat
  BY <1>1, LogBounds DEF Shape
<1>3. /\ f \in Frames /\ f.lsn = nextLsn /\ f.txn = nextTxn - 1 /\ f.commit = TRUE
  BY <1>2, NewFrame
<1>4. body' = Append(body, f)
  OBVIOUS
<1> HIDE DEF f
<1>5. f.txn < nextTxn' /\ nextTxn <= nextTxn' /\ nextTxn' \in Nat
  BY <1>2, <1>3
<1>6. /\ body' \in Seq(Frames) /\ Len(body') = Len(body) + 1
      /\ \A i \in 1..Len(body) : body'[i] = body[i]
      /\ body'[Len(body) + 1] = f
      /\ ValidLen = Len(body) => ValidLen' = Len(body')
      /\ ValidLen <= ValidLen' /\ ValidLen' \in Nat
      /\ LsnsAscend' /\ Distinct'
  BY <1>1, <1>3, <1>4, <1>5, Extended
<1>7. synced \in 0..Len(body) /\ Len(body) \in Nat
  BY <1>1, Bounds DEF Shape
<1>8. synced' \in 0..Len(body') /\ synced <= synced'
  BY <1>6, <1>7
<1>9. nextLsn' \in 1..(MaxLsn + 1) /\ nextLsn' >= base'
  BY <1>1, <1>2, LogBounds DEF Shape
<1>10. acked' \subseteq 1..MaxLsn
  BY <1>1, <1>2 DEF Shape
<1>11. Shape'
  BY <1>1, <1>2, <1>6, <1>8, <1>9, <1>10 DEF Shape
<1>12. Blank'
  BY DEF IInv, Blank
<1>13. Ascending'
  BY <1>6, <1>9 DEF Ascending
<1>14. QED
  BY <1>1, <1>2, <1>3, <1>6, <1>7, <1>8, <1>11, <1>12, <1>13

LEMMA CommitKeeps == ASSUME IInv, Commit PROVE IInv'
<1>1. /\ pc = "data" /\ pc' = "open" /\ nextLsn' = nextLsn + 1
      /\ body' = Append(body, Frame(nextLsn, nextTxn - 1, TRUE))
      /\ header' = header /\ base' = base /\ nextTxn' = nextTxn
      /\ synced' = Len(body') /\ acked' = acked \cup {nextLsn} /\ faults' = faults
  BY DEF Commit
<1>2. faults' \in 0..MaxFaults
  BY <1>1 DEF IInv, Shape
<1>3. /\ Shape' /\ Blank' /\ Ascending' /\ Distinct'
      /\ Shape /\ Len(body) \in Nat /\ nextLsn \in 1..MaxLsn /\ nextTxn \in Nat
      /\ Len(body') = Len(body) + 1 /\ synced <= synced'
      /\ \A i \in 1..Len(body) : body'[i] = body[i]
      /\ body'[Len(body) + 1].lsn = nextLsn /\ body'[Len(body) + 1].commit
      /\ body'[Len(body) + 1].txn = nextTxn - 1
      /\ ValidLen = Len(body) => ValidLen' = Len(body')
      /\ ValidLen <= ValidLen' /\ ValidLen' \in Nat
  BY <1>1, <1>2, CommitRecord
<1>4. Unfailed'
  <2>1. SUFFICES ASSUME faults = 0
                 PROVE  /\ ValidLen' = Len(body')
                        /\ \A lsn \in acked' : \E i \in 2..ValidLen' : Kept(lsn, i)'
    BY <1>1 DEF Unfailed
  <2>2. /\ ValidLen = Len(body) /\ body /= <<>> /\ body[Len(body)].txn = nextTxn - 1
        /\ \A lsn \in acked : \E i \in 2..ValidLen : Kept(lsn, i)
    BY <1>1, <2>1 DEF IInv, Unfailed
  <2>3. ValidLen' = Len(body')
    BY <1>3, <2>2
  <2>4. ASSUME NEW lsn \in acked PROVE \E i \in 2..ValidLen' : Kept(lsn, i)'
    <3>1. PICK i \in 2..ValidLen : Kept(lsn, i)
      BY <2>2
    <3>2. i <= synced /\ i \in Nat /\ synced \in Nat
      BY <1>3, <3>1, Bounds DEF Kept, Shape
    <3>3. i <= synced'
      BY <1>1, <1>3, <3>2
    <3>4. i \in 2..ValidLen' /\ Kept(lsn, i)'
      BY <1>3, <3>1, <3>3, KeptOn
    <3>5. QED
      BY <3>4
  <2>5. \E i \in 2..ValidLen' :
          /\ i <= synced' /\ body'[i].lsn = nextLsn /\ body'[i].commit
          /\ body'[i - 1].txn = body'[i].txn
    <3> DEFINE n == Len(body)
    <3>1. n \in Nat /\ n /= 0
      BY <1>3, <2>2, EmptySeq DEF Shape
    <3>2. n + 1 \in 2..ValidLen' /\ n \in 1..n /\ (n + 1) - 1 = n /\ n + 1 <= synced'
      BY <1>1, <1>3, <2>3, <3>1
    <3>3. body'[n] = body[n]
      BY <1>3, <3>2
    <3>4. body'[n].txn = nextTxn - 1
      BY <2>2, <3>3
    <3>5. body'[n + 1].lsn = nextLsn /\ body'[n + 1].commit /\ body'[n + 1].txn = nextTxn - 1
      BY <1>3
    <3> HIDE DEF n
    <3> DEFINE k == n + 1
    <3>6. k \in 2..ValidLen' /\ k <= synced' /\ k - 1 = n
      BY <3>2
    <3>7. body'[k].lsn = nextLsn /\ body'[k].commit /\ body'[k].txn = body'[n].txn
      BY <3>4, <3>5
    <3> HIDE DEF k
    <3>8. body'[k - 1].txn = body'[k].txn
      BY <3>6, <3>7
    <3>9. QED
      BY <3>6, <3>7, <3>8
  <2>6. \A lsn \in acked' : lsn \in acked \/ lsn = nextLsn
    BY <1>1
  <2>7. QED
    BY <2>3, <2>4, <2>5, <2>6 DEF Kept
<1>5. QED
  BY <1>3, <1>4 DEF IInv

LEMMA SyncFailsKeeps == ASSUME IInv, SyncFails PROVE IInv'
<1>1. /\ pc = "data" /\ pc' = "open" /\ nextLsn' = nextLsn + 1
      /\ body' = Append(body, Frame(nextLsn, nextTxn - 1, TRUE))
      /\ header' = header /\ base' = base /\ nextTxn' = nextTxn
      /\ synced' = synced /\ acked' = acked
      /\ faults < MaxFaults /\ faults' = faults + 1
  BY DEF SyncFails, Fault
<1>2. faults' \in 0..MaxFaults /\ faults' /= 0
  BY <1>1, LogBounds DEF IInv, Shape
<1>3. Shape' /\ Blank' /\ Ascending' /\ Distinct'
  BY <1>1, <1>2, CommitRecord
<1>4. QED
  BY <1>2, <1>3 DEF IInv, Unfailed

LEMMA WriteFailsKeeps == ASSUME IInv, WriteFails PROVE IInv'
<1>1. /\ pc \in {"open", "data"} /\ pc' = "open" /\ header' = header /\ base' = base
      /\ synced' = synced /\ nextLsn' = nextLsn /\ acked' = acked
      /\ faults < MaxFaults /\ faults' = faults + 1
      /\ nextTxn' = nextTxn \/ nextTxn' = nextTxn + 1
  BY DEF WriteFails, Fault
<1>2. Shape /\ LsnsAscend /\ Distinct /\ nextLsn >= base
  BY <1>1 DEF IInv, Ascending
<1>3. faults' \in 0..MaxFaults /\ faults' /= 0
  BY <1>1, <1>2, LogBounds DEF Shape
<1>4. nextTxn' \in Nat \ {0} /\ nextTxn <= nextTxn' /\ nextTxn \in Nat
  BY <1>1, <1>2 DEF Shape
<1>5. /\ ValidLen \in 0..Len(body) /\ Len(body) \in Nat /\ synced \in 0..Len(body)
      /\ \A i \in 1..Len(body) : body[i] \in Frames
  BY <1>2, Bounds DEF Shape
<1>6. /\ body' \in Seq(Frames) /\ Len(body') \in Nat /\ Len(body) <= Len(body')
      /\ \A i \in 1..Len(body) : body'[i] = body[i]
      /\ ValidLen' = ValidLen
  <2>1. CASE body' = body
    BY <1>2, <1>5, <2>1, ValidLenIs, NextValidLen DEF Shape
  <2>2. CASE body' = Append(body, Torn)
    <3>1. Torn \in Frames
      BY LogBounds DEF Torn, Frames
    <3>2. /\ body' \in Seq(Frames) /\ Len(body') = Len(body) + 1
          /\ \A i \in 1..Len(body) : body'[i] = body[i]
          /\ CutOff(body') = CutOff(body)
      BY <1>2, <2>2, <3>1, AddedFrame DEF Shape
    <3>3. QED
      BY <1>5, <3>2, ValidLenIs, NextValidLen
  <2>3. QED
    BY <2>1, <2>2 DEF WriteFails
<1>7. \A i \in 1..ValidLen : body'[i] = body[i]
  BY <1>5, <1>6
<1>8. /\ \A i \in 1..ValidLen' : body'[i].lsn >= base' + i - 1
      /\ \A i, j \in 1..ValidLen' : i < j => body'[i].lsn < body'[j].lsn
      /\ TxnsDistinct'
  <2>1. LsnsAscend /\ TxnsDistinct /\ base' = base
    BY <1>1, <1>2 DEF Distinct
  <2>2. ValidLen' \in Nat /\ ValidLen' <= ValidLen
    BY <1>5, <1>6
  <2>3. \A i \in 1..ValidLen' : body'[i] = body[i]
    BY <1>6, <1>7
  <2>4. QED
    BY <1>2, <2>1, <2>2, <2>3, Shortened
<1>9. \A i \in 1..ValidLen' : body'[i].lsn < nextLsn'
  BY <1>1, <1>2, <1>6, <1>7 DEF LsnsAscend
<1>10. \A i \in 1..ValidLen' : body'[i].txn < nextTxn'
  <2>1. SUFFICES ASSUME NEW i \in 1..ValidLen PROVE body[i].txn < nextTxn'
    BY <1>6, <1>7
  <2>2. body[i].txn < nextTxn
    BY <1>1, <1>2 DEF Distinct
  <2>3. body[i].txn \in Nat
    BY <1>5, FrameFields
  <2>4. QED
    BY <1>4, <2>2, <2>3
<1>11. synced' \in 0..Len(body')
  BY <1>1, <1>5, <1>6
<1>12. Shape'
  BY <1>1, <1>2, <1>3, <1>4, <1>6, <1>11 DEF Shape
<1>13. Blank'
  BY <1>1 DEF IInv, Blank
<1>14. Ascending'
  BY <1>1, <1>2, <1>8, <1>9 DEF Ascending, LsnsAscend
<1>15. Distinct'
  BY <1>8, <1>10 DEF Distinct
<1>16. QED
  BY <1>3, <1>12, <1>13, <1>14, <1>15 DEF IInv, Unfailed

LEMMA CrashKeeps == ASSUME IInv, Crash PROVE IInv'
<1>1. /\ pc # "closed" /\ pc' = "closed" /\ header' = header /\ base' = base
      /\ synced' = Len(body') /\ nextLsn' = 1 /\ nextTxn' = 1
      /\ acked' = acked /\ faults' = faults
  BY DEF Crash
<1>2. PICK n \in synced .. Len(body) :
        \/ body' = SubSeq(body, 1, n)
        \/ body' = Append(SubSeq(body, 1, n), Torn)
  BY DEF Crash
<1>3. Shape /\ LsnsAscend /\ TxnsDistinct
  BY DEF IInv, Ascending, Distinct
<1>4. /\ ValidLen \in 0..Len(body) /\ Len(body) \in Nat /\ synced \in 0..Len(body)
      /\ body \in Seq(Frames) /\ n \in 0..Len(body) /\ synced <= n
  BY <1>2, <1>3, Bounds DEF Shape
<1> DEFINE b == SubSeq(body, 1, n)
<1>5. /\ b \in Seq(Frames) /\ Len(b) = n
      /\ \A i \in 1..n : b[i] = body[i]
      /\ CutOff(b) = IF n <= CutOff(body) THEN n ELSE CutOff(body)
  BY <1>4, PrefixCut
<1> HIDE DEF b
<1>6. /\ body' \in Seq(Frames) /\ Len(body') \in Nat /\ n <= Len(body')
      /\ \A i \in 1..n : body'[i] = b[i]
      /\ CutOff(body') = CutOff(b)
  <2>1. CASE body' = b
    BY <1>4, <1>5, <2>1
  <2>2. CASE body' = Append(b, Torn)
    <3>1. Torn \in Frames
      BY LogBounds DEF Torn, Frames
    <3>2. /\ body' \in Seq(Frames) /\ Len(body') = Len(b) + 1
          /\ \A i \in 1..Len(b) : body'[i] = b[i]
          /\ CutOff(body') = CutOff(b)
      BY <1>5, <2>2, <3>1, AddedFrame
    <3>3. QED
      BY <1>4, <1>5, <3>2
  <2>3. QED
    BY <1>2, <2>1, <2>2 DEF b
<1>7. ValidLen' = IF n <= ValidLen THEN n ELSE ValidLen
  BY <1>5, <1>6, ValidLenIs, NextValidLen
<1>8. /\ ValidLen' \in Nat /\ ValidLen' <= ValidLen /\ ValidLen' <= n
  BY <1>4, <1>7
<1>9. \A i \in 1..n : body'[i] = body[i]
  BY <1>5, <1>6
<1>10. \A i \in 1..ValidLen' : body'[i] = body[i]
  BY <1>4, <1>8, <1>9
<1>11. /\ \A i \in 1..ValidLen' : body'[i].lsn >= base' + i - 1
       /\ \A i, j \in 1..ValidLen' : i < j => body'[i].lsn < body'[j].lsn
       /\ TxnsDistinct'
  BY <1>1, <1>3, <1>8, <1>10, Shortened
<1>12. synced' \in 0..Len(body') /\ nextLsn' \in 1..(MaxLsn + 1)
  BY <1>1, <1>6, LogBounds
<1>13. Shape'
  BY <1>1, <1>3, <1>6, <1>12 DEF Shape
<1>14. Blank'
  BY <1>1 DEF IInv, Blank
<1>15. Ascending' /\ Distinct'
  BY <1>1, <1>11 DEF Ascending, LsnsAscend, Distinct
<1>16. Unfailed'
  <2>1. SUFFICES ASSUME faults = 0, NEW lsn \in acked
                 PROVE  \E i \in 2..ValidLen' : Kept(lsn, i)'
    BY <1>1 DEF Unfailed
  <2>2. PICK i \in 2..ValidLen : Kept(lsn, i)
    BY <2>1 DEF IInv, Unfailed
  <2>3. i <= synced
    BY <2>2 DEF Kept
  <2>4. i \in 2..ValidLen' /\ i <= synced' /\ i \in 1..n /\ i - 1 \in 1..n
    BY <1>1, <1>4, <1>6, <1>7, <2>2, <2>3
  <2>5. body'[i] = body[i] /\ body'[i - 1] = body[i - 1]
    BY <1>9, <2>4
  <2>6. Kept(lsn, i)'
    BY <2>2, <2>4, <2>5 DEF Kept
  <2>7. QED
    BY <2>4, <2>6
<1>17. QED
  BY <1>13, <1>14, <1>15, <1>16 DEF IInv

(* recover_after finds a transaction id above all those in the log.        *)
LEMMA MaxIsMost ==
  ASSUME NEW S \in SUBSET Nat, IsFiniteSet(S), S /= {}
  PROVE  Max(S) \in S /\ \A x \in S : x <= Max(S)
<1> DEFINE Above(x) == {y \in S : x < y}
           Sets == {Above(x) : x \in S}
<1>1. Sets \subseteq FiniteSubsetsOf(S) /\ Sets /= {}
  <2>1. \A x \in S : Above(x) \subseteq S /\ IsFiniteSet(Above(x))
    BY FS_Subset
  <2>2. QED
    BY <2>1 DEF FiniteSubsetsOf
<1>2. PICK B \in Sets : \A C \in Sets : <<C, B>> \notin StrictSubsetOrdering(S)
  BY <1>1, FS_StrictSubsetOrderingWellFounded, WFMin
<1>3. PICK m \in S : B = Above(m)
  BY <1>2
<1>4. ASSUME NEW x \in S, m < x PROVE FALSE
  <2>a. \A y \in S : x < y => m < y
    BY <1>4
  <2>b. ~(x < x)
    OBVIOUS
  <2>1. Above(x) \subseteq Above(m) /\ x \in Above(m) /\ x \notin Above(x)
    BY <1>4, <2>a, <2>b
  <2>2. <<Above(x), Above(m)>> \in StrictSubsetOrdering(S)
    BY <2>1 DEF StrictSubsetOrdering
  <2>3. QED
    BY <1>2, <1>3, <2>2
<1>5. \A x \in S : m >= x
  BY <1>4
<1>6. Max(S) \in S /\ \A x \in S : Max(S) >= x
  BY <1>5 DEF Max
<1>7. QED
  BY <1>6

LEMMA FreshTxn ==
  ASSUME NEW b \in Seq(Frames)
  PROVE  LET m == Max({0} \cup {r.txn : r \in ToSet(b)})
         IN  m \in Nat /\ \A i \in 1..Len(b) : b[i].txn <= m
<1> DEFINE n == Len(b)
           S == {0} \cup {r.txn : r \in ToSet(b)}
           f == [i \in 0..n |-> IF i = 0 THEN 0 ELSE b[i].txn]
<1>1. n \in Nat /\ DOMAIN b = 1..n /\ \A i \in 1..n : b[i].txn \in Nat
  BY LenProperties, ElementOfSeq, FrameFields
<1>2. ToSet(b) = {b[i] : i \in 1..n}
  BY <1>1 DEF ToSet
<1>3. \A i \in 1..n : b[i].txn \in S
  BY <1>2
<1>4. \A x \in S : x = 0 \/ \E i \in 1..n : x = b[i].txn
  BY <1>2
<1>5. S \in SUBSET Nat /\ S /= {} /\ 0 \in S
  <2>1. 0 \in S
    OBVIOUS
  <2>2. \A x \in S : x \in Nat
    <3>1. SUFFICES ASSUME NEW x \in S PROVE x \in Nat
      OBVIOUS
    <3>2. x = 0 \/ \E i \in 1..n : x = b[i].txn
      BY <1>4
    <3> HIDE DEF n, S
    <3>3. QED
      BY <1>1, <3>2
  <2>3. QED
    BY <2>1, <2>2
<1> HIDE DEF n, S
<1>6. f \in Surjection(0..n, S)
  <2>1. f \in [0..n -> S]
    BY <1>1, <1>3, <1>5
  <2>2. \A x \in S : \E i \in 0..n : f[i] = x
    <3>1. SUFFICES ASSUME NEW x \in S PROVE \E i \in 0..n : f[i] = x
      OBVIOUS
    <3>2. CASE x = 0
      BY <1>1, <3>2
    <3>3. CASE x /= 0
      <4>1. PICK i \in 1..n : x = b[i].txn
        BY <1>4, <3>3
      <4>2. i \in 0..n /\ i /= 0
        BY <1>1
      <4>3. QED
        BY <4>1, <4>2
    <3>4. QED
      BY <3>2, <3>3
  <2>3. QED
    BY <2>1, <2>2 DEF Surjection
<1>7. IsFiniteSet(0..n)
  BY <1>1, FS_Interval
<1>8. IsFiniteSet(S)
  BY <1>6, <1>7, FS_Surjection
<1>9. Max(S) \in S /\ \A x \in S : x <= Max(S)
  BY <1>5, <1>8, MaxIsMost
<1>10. Max(S) \in Nat /\ \A i \in 1..n : b[i].txn <= Max(S)
  BY <1>3, <1>5, <1>9
<1>11. QED
  BY <1>10 DEF n, S

LEMMA OpenAppendKeeps == ASSUME IInv, OpenAppend PROVE IInv'
<1>1. /\ pc' = "open" /\ header' = header /\ base' = base /\ header = "whole"
      /\ body' = Replayed /\ synced' = ValidLen
      /\ nextLsn' = FirstLsn /\ nextTxn' = FirstTxn
      /\ acked' = acked /\ faults' = faults
  BY DEF OpenAppend
<1>2. Shape /\ LsnsAscend /\ TxnsDistinct
  BY DEF IInv, Ascending, Distinct
<1>3. /\ ValidLen \in 0..Len(body) /\ Len(body) \in Nat /\ body \in Seq(Frames)
      /\ \A i \in 1..Len(body) : body[i] \in Frames
      /\ base \in 1..(MaxLsn + 1)
  BY <1>2, Bounds DEF Shape
<1>4. /\ Replayed \in Seq(Frames) /\ Len(Replayed) = ValidLen
      /\ \A i \in 1..ValidLen : Replayed[i] = body[i]
      /\ CutOff(Replayed) = ValidLen
  BY <1>3, PrefixCut, ValidLenIs DEF Replayed
<1>5. ValidLen' = ValidLen /\ \A i \in 1..ValidLen' : body'[i] = body[i]
  BY <1>1, <1>4, NextValidLen
<1>6. /\ \A i \in 1..ValidLen' : body'[i].lsn >= base' + i - 1
      /\ \A i, j \in 1..ValidLen' : i < j => body'[i].lsn < body'[j].lsn
      /\ TxnsDistinct'
  <2>1. base' = base /\ ValidLen' \in Nat /\ ValidLen' <= ValidLen
    BY <1>1, <1>3, <1>5
  <2>2. QED
    BY <1>2, <1>5, <2>1, Shortened
<1>7. FirstTxn \in Nat \ {0} /\ \A i \in 1..ValidLen : Replayed[i].txn < FirstTxn
  <2> DEFINE m == Max({0} \cup {r.txn : r \in ToSet(Replayed)})
  <2>1. m \in Nat /\ \A i \in 1..ValidLen : Replayed[i].txn <= m
    BY <1>4, FreshTxn
  <2>2. FirstTxn = 1 + m
    BY DEF FirstTxn
  <2> HIDE DEF m
  <2>3. \A i \in 1..ValidLen : Replayed[i].txn \in Nat
    BY <1>4, <1>3, FrameFields
  <2>4. QED
    BY <2>1, <2>2, <2>3
<1>8. /\ FirstLsn \in 1..(MaxLsn + 1) /\ FirstLsn >= base
      /\ \A i \in 1..ValidLen : body[i].lsn < FirstLsn
  <2>1. CASE ValidLen = 0
    <3>1. Replayed = <<>>
      BY <1>4, <2>1, EmptySeq
    <3>2. FirstLsn = base
      BY <3>1 DEF FirstLsn
    <3>3. QED
      BY <1>3, <2>1, <3>2
  <2>2. CASE ValidLen /= 0
    <3> DEFINE v == ValidLen
    <3>1. v \in 1..v /\ v \in 1..Len(body) /\ Replayed /= <<>>
      BY <1>3, <1>4, <2>2, EmptySeq
    <3>2. FirstLsn = body[v].lsn + 1
      BY <1>4, <3>1 DEF FirstLsn, Last
    <3>3. body[v].lsn \in 0..MaxLsn
      BY <1>3, <3>1 DEF Frames
    <3>4. body[v].lsn >= base + v - 1
      BY <1>2, <3>1 DEF LsnsAscend
    <3>5. \A i \in 1..v : body[i].lsn \in Nat /\ (i = v \/ body[i].lsn < body[v].lsn)
      <4>1. SUFFICES ASSUME NEW i \in 1..v
                     PROVE  body[i].lsn \in Nat /\ (i = v \/ body[i].lsn < body[v].lsn)
        OBVIOUS
      <4>2. i \in 1..Len(body) /\ (i = v \/ i < v)
        BY <1>3
      <4>3. body[i].lsn \in Nat
        BY <1>3, <4>2, FrameFields
      <4>4. i < v => body[i].lsn < body[v].lsn
        BY <1>2, <3>1 DEF LsnsAscend
      <4>5. QED
        BY <4>2, <4>3, <4>4
    <3> HIDE DEF v
    <3>6. FirstLsn \in 1..(MaxLsn + 1) /\ FirstLsn >= base
      BY <1>3, <3>1, <3>2, <3>3, <3>4, LogBounds
    <3>7. \A i \in 1..v : body[i].lsn < FirstLsn
      <4>1. SUFFICES ASSUME NEW i \in 1..v PROVE body[i].lsn < FirstLsn
        OBVIOUS
      <4>2. body[i].lsn \in Nat /\ (body[i].lsn = body[v].lsn \/ body[i].lsn < body[v].lsn)
        BY <3>5
      <4>3. QED
        BY <3>2, <3>3, <4>2, LogBounds
    <3>8. QED
      BY <3>6, <3>7 DEF v
  <2>3. QED
    BY <2>1, <2>2
<1>9. Shape'
  BY <1>1, <1>2, <1>3, <1>4, <1>7, <1>8 DEF Shape
<1>10. Blank'
  BY <1>1 DEF Blank
<1>11. Ascending'
  BY <1>1, <1>5, <1>6, <1>8 DEF Ascending, LsnsAscend
<1>12. Distinct'
  BY <1>1, <1>4, <1>5, <1>6, <1>7 DEF Distinct
<1>13. Unfailed'
  <2>1. SUFFICES ASSUME faults = 0
                 PROVE  /\ ValidLen' = Len(body')
                        /\ \A lsn \in acked : \E i \in 2..ValidLen' : Kept(lsn, i)'
    BY <1>1 DEF Unfailed
  <2>2. ASSUME NEW lsn \in acked PROVE \E i \in 2..ValidLen' : Kept(lsn, i)'
    <3>1. PICK i \in 2..ValidLen : Kept(lsn, i)
      BY <2>1 DEF IInv, Unfailed
    <3>2. i \in 1..ValidLen' /\ i - 1 \in 1..ValidLen' /\ i <= synced'
      BY <1>1, <1>3, <1>5, <3>1
    <3>3. body'[i] = body[i] /\ body'[i - 1] = body[i - 1]
      BY <1>5, <3>2
    <3>4. Kept(lsn, i)'
      BY <3>1, <3>2, <3>3 DEF Kept
    <3>5. QED
      BY <1>5, <3>4
  <2>3. QED
    BY <1>1, <1>4, <1>5, <2>2
<1>14. QED
  BY <1>9, <1>10, <1>11, <1>12, <1>13 DEF IInv

LEMMA StutterKeeps == ASSUME IInv, UNCHANGED vars PROVE IInv'
<1>1. ValidLen' = ValidLen
  BY DEF vars, ValidLen
<1>2. QED
  BY <1>1 DEF vars, IInv, Shape, Blank, Ascending, LsnsAscend, Distinct, TxnsDistinct,
              Unfailed, Kept

LEMMA Invariant == Spec => []IInv
<1>1. IInv /\ [Next]_vars => IInv'
  BY CreateKeeps, WriteHeaderKeeps, AppendDataKeeps, CommitKeeps, WriteFailsKeeps,
     SyncFailsKeeps, EmptyFileKeeps, CrashKeeps, OpenAppendKeeps, StutterKeeps DEF Next
<1>2. QED
  BY <1>1, Started, PTL DEF Spec
-----------------------------------------------------------------------------
(* Every variable keeps its type: the cursor, the header's base and the    *)
(* frames stay within the log's bounds.                                    *)
THEOREM TypeCorrect == Spec => []WalTypeOK
<1>1. IInv => WalTypeOK
  <2>1. SUFFICES ASSUME Shape PROVE WalTypeOK
    BY DEF IInv
  <2>2. \A i \in DOMAIN body : body[i] \in [lsn : Nat, txn : Nat, commit : BOOLEAN]
    <3>1. SUFFICES ASSUME NEW i \in DOMAIN body
                   PROVE  body[i] \in [lsn : Nat, txn : Nat, commit : BOOLEAN]
      OBVIOUS
    <3>2. body[i] \in Frames
      BY <2>1, Bounds
    <3>3. QED
      BY <3>2, LogBounds DEF Frames
  <2>3. QED
    BY <2>1, <2>2, LogBounds DEF Shape, WalTypeOK
<1>2. QED
  BY <1>1, Invariant, PTL

(* As long as no write or fsync has failed, replay finds, across all       *)
(* crashes, every commit record whose fsync returned since the last        *)
(* checkpoint, behind the data record it commits.                          *)
THEOREM CommitsFound == Spec => []CommitsReplayed
<1>1. IInv => CommitsReplayed
  BY DEF IInv, Unfailed, Kept, CommitsReplayed, AckedReplayed
<1>2. QED
  BY <1>1, Invariant, PTL

(* LSNs replay in strictly ascending order below the next one, and no two  *)
(* data records of a log have one transaction id, through crashes, failed  *)
(* writes and fsyncs, and recoveries.                                      *)
THEOREM Ordered == Spec => []LogOrdered
<1>1. IInv => LogOrdered
  BY DEF IInv, Ascending, Distinct, LogOrdered
<1>2. QED
  BY <1>1, Invariant, PTL
=============================================================================

--------------------------- MODULE VisitorProofs ---------------------------
(***************************************************************************)
(* How a visitor comes in and what the page shows.  First MagicLinks: a     *)
(* sign-in link is redeemed once, and an e-mail has few links that can      *)
(* still be opened, for every number of requests, however they interleave   *)
(* and whenever the server crashes.  Then Widget: the transcript is         *)
(* faithful, for every number of messages, sockets and jobs.               *)
(***************************************************************************)
EXTENDS MagicLinks, Widget, FiniteSetTheorems, SequenceTheorems, TLAPS

Asking == [link : 1 .. MaxRequests, email : Emails, who : Customers,
           step : {"customer", "look", "address", "link"}]
Redeeming == [link : 1 .. MaxRequests, n : 1 .. MaxOpen, step : {"consume", "verify"}]
Links == [email : Emails, who : Customers, issued : BOOLEAN, expired : BOOLEAN,
          consumed : BOOLEAN]

MagicTypeOK ==
  /\ customers \subseteq Customers /\ addresses \subseteq Emails /\ verified \subseteq Emails
  /\ links \in [1 .. MaxRequests -> Links]
  /\ requests \subseteq Asking \cup Redeeming
  /\ asked \in 0 .. MaxRequests
  /\ tokens \in [1 .. MaxRequests -> Nat]

(* A request for a link has a number of its own, whose link is not there    *)
(* yet, and has made the rows it is past.                                  *)
AsksApart ==
  \A r \in requests \cap Asking :
    /\ r.link <= asked /\ ~links[r.link].issued
    /\ \A q \in requests \cap Asking : q.link = r.link => q = r
    /\ r.step # "customer" => r.who \in customers
    /\ r.step = "link" => r.email \in addresses

(* An issued link has its rows; a link not issued is untouched.            *)
IssuedHasRows ==
  \A l \in 1 .. MaxRequests :
    IF links[l].issued
    THEN l <= asked /\ links[l].who \in customers /\ links[l].email \in addresses
    ELSE tokens[l] = 0 /\ \A r \in requests \cap Redeeming : r.link # l

(* The right to sign in with a link is with nobody while it is not          *)
(* consumed; then with one request, until that has its token.              *)
OneRight ==
  \A l \in 1 .. MaxRequests :
    /\ ~links[l].consumed => tokens[l] = 0
    /\ \A r \in requests : r.step = "verify" /\ r.link = l =>
         /\ links[l].consumed /\ tokens[l] = 0
         /\ \A q \in requests : q.step = "verify" /\ q.link = l => q = r
    /\ tokens[l] <= 1
    /\ tokens[l] = 1 => links[l].email \in verified

IInv == MagicTypeOK /\ AsksApart /\ IssuedHasRows /\ OneRight

(* The links of an e-mail that can still be opened.                        *)
Live(e) == {l \in 1 .. MaxRequests : links[l].issued /\ links[l].email = e /\ ~links[l].expired}

(* The limiter counts every link that is asked for and every one that is    *)
(* live but those of a former life, and no more than its limit.            *)
Hits ==
  /\ crashes \in Nat /\ hits \in [Emails -> SUBSET (1 .. MaxRequests)]
  /\ \A e \in Emails : Cardinality(hits[e]) <= PerEmail
  /\ \A r \in requests \cap Asking : r.link \in hits[r.email]
Forgotten == \A e \in Emails : Cardinality(Live(e) \ hits[e]) <= PerEmail * crashes
-----------------------------------------------------------------------------
LEMMA Kinds ==
  ASSUME MagicTypeOK, NEW r \in requests
  PROVE  /\ r.step \in {"customer", "look", "address", "link"} => r \in Asking
         /\ r.step \in {"consume", "verify"} => r \in Redeeming
         /\ r.link \in 1 .. MaxRequests
BY DEF MagicTypeOK, Asking, Redeeming

LEMMA Started ==
  ASSUME LinkInit
  PROVE  IInv
<1>1. 1 .. MaxRequests # {} => Unissued \in Links
  BY SomebodyAsks DEF Unissued, Links
<1>2. \A l \in 1 .. MaxRequests : ~Unissued.issued /\ ~Unissued.consumed
  BY DEF Unissued
<1>3. MagicTypeOK
  BY <1>1, MagicBounds DEF LinkInit, MagicTypeOK
<1>4. QED
  BY <1>2, <1>3 DEF LinkInit, IInv, AsksApart, IssuedHasRows, OneRight

(* A request for a link starts, with the next number.                      *)
LEMMA AskStep ==
  ASSUME IInv, NEW e \in Emails, NEW x \in Customers, AskForLink(e, x)
  PROVE  IInv'
<1> DEFINE a == [link |-> asked', email |-> e, who |-> x,
                 step |-> IF x \in customers THEN "look" ELSE "customer"]
<1>1. asked' \in 1 .. MaxRequests /\ asked < asked' /\ asked \in Nat
  BY MagicBounds DEF IInv, MagicTypeOK, AskForLink
<1>2. a \in Asking /\ a.link = asked' /\ a.step # "link"
      /\ a.step # "verify" /\ (a.step # "customer" => x \in customers) /\ a.who = x
  BY <1>1 DEF Asking
<1>3. requests' = requests \cup {a}
  BY DEF AskForLink, Opened
<1>4. UNCHANGED <<customers, addresses, verified, links, tokens>>
  BY DEF AskForLink, tables
<1> HIDE DEF a
<1>5. MagicTypeOK'
  BY <1>1, <1>2, <1>3, <1>4 DEF IInv, MagicTypeOK
<1>6. a \notin Redeeming
  BY <1>2 DEF Asking, Redeeming
<1>7. AsksApart'
  <2>1. ~links[asked'].issued
    BY <1>1 DEF IInv, IssuedHasRows
  <2>2. \A q \in requests \cap Asking : q.link # asked' /\ q.link \in Nat /\ q.link <= asked'
    BY <1>1 DEF IInv, AsksApart, Asking
  <2>3. QED
    BY <1>1, <1>2, <1>3, <1>4, <2>1, <2>2 DEF IInv, AsksApart
<1>8. IssuedHasRows'
  BY <1>1, <1>3, <1>4, <1>6 DEF IInv, IssuedHasRows
<1>9. OneRight'
  BY <1>2, <1>3, <1>4 DEF IInv, OneRight
<1>10. QED
  BY <1>5, <1>7, <1>8, <1>9 DEF IInv

(* A request for a link that adds a row, looks one up, or fails because the *)
(* row is there.                                                           *)
LEMMA RowStep ==
  ASSUME IInv, NEW r \in requests, AddCustomer(r) \/ LookUp(r) \/ AddAddress(r)
  PROVE  IInv'
<1>1. r \in Asking /\ r.step # "link"
  BY Kinds DEF IInv, AddCustomer, LookUp, AddAddress
<1>2. PICK step \in {"look", "address", "link"} :
        /\ Ends(r) \/ Goes(r, step)
        /\ step = "link" => r.email \in addresses'
        /\ r.who \in customers'
  BY <1>1 DEF AddCustomer, LookUp, AddAddress, IInv, AsksApart, tables
<1> DEFINE a == [r EXCEPT !.step = step]
<1>3. a \in Asking /\ a.link = r.link /\ a.step = step /\ a.who = r.who /\ a.email = r.email
  BY <1>1 DEF Asking
<1>4. a \notin Redeeming
  BY <1>3 DEF Redeeming
<1> HIDE DEF a
<1>5. requests' = requests \ {r} \/ requests' = (requests \ {r}) \cup {a}
  BY <1>2 DEF Ends, Goes, a
<1>6. /\ customers \subseteq customers' /\ customers' \subseteq Customers
      /\ addresses \subseteq addresses' /\ addresses' \subseteq Emails
      /\ UNCHANGED <<verified, links, asked, tokens>>
  BY <1>1 DEF IInv, MagicTypeOK, Asking, AddCustomer, LookUp, AddAddress, tables
<1>7. MagicTypeOK'
  BY <1>3, <1>5, <1>6 DEF IInv, MagicTypeOK
<1>8. AsksApart'
  BY <1>1, <1>2, <1>3, <1>5, <1>6 DEF IInv, AsksApart
<1>9. IssuedHasRows'
  BY <1>4, <1>5, <1>6 DEF IInv, IssuedHasRows
<1>10. OneRight'
  BY <1>3, <1>5, <1>6 DEF IInv, OneRight
<1>11. QED
  BY <1>7, <1>8, <1>9, <1>10 DEF IInv

(* The link of a request is inserted: nobody holds its number.             *)
LEMMA AddLinkStep ==
  ASSUME IInv, NEW r \in requests, AddLink(r)
  PROVE  IInv'
<1> DEFINE l == r.link
           new == [email |-> r.email, who |-> r.who, issued |-> TRUE,
                   expired |-> FALSE, consumed |-> FALSE]
<1>1. r \in Asking /\ r.step = "link" /\ l \in 1 .. MaxRequests /\ l <= asked
  BY Kinds DEF IInv, AddLink, AsksApart
<1>2. /\ r.who \in customers /\ r.email \in addresses /\ ~links[l].issued
      /\ \A q \in requests \cap Asking : q.link = l => q = r
  BY <1>1 DEF IInv, AsksApart
<1>3. tokens[l] = 0 /\ \A q \in requests \cap Redeeming : q.link # l
  BY <1>1, <1>2 DEF IInv, IssuedHasRows
<1>4. new \in Links /\ new.issued /\ ~new.consumed /\ new.who = r.who /\ new.email = r.email
  BY <1>1 DEF Links, Asking
<1> HIDE DEF new
<1>5. /\ links' = [links EXCEPT ![l] = new] /\ requests' = requests \ {r}
      /\ UNCHANGED <<customers, addresses, verified, asked, tokens>>
  BY DEF AddLink, Ends, new
<1>6. MagicTypeOK'
  BY <1>4, <1>5 DEF IInv, MagicTypeOK
<1>7. links'[l] = new /\ \A k \in 1 .. MaxRequests : k # l => links'[k] = links[k]
  BY <1>1, <1>5 DEF IInv, MagicTypeOK
<1> HIDE DEF l
<1>8. AsksApart'
  BY <1>2, <1>5, <1>7, Kinds DEF IInv, AsksApart
<1>9. IssuedHasRows'
  BY <1>1, <1>2, <1>4, <1>5, <1>7 DEF IInv, IssuedHasRows
<1>10. OneRight'
  <2>1. \A q \in requests' : q.step = "verify" => q.link # l
    BY <1>3, <1>5, Kinds DEF IInv
  <2>2. QED
    BY <1>3, <1>5, <1>7, <2>1 DEF IInv, OneRight
<1>11. QED
  BY <1>6, <1>8, <1>9, <1>10 DEF IInv

(* The conditional update lets one request through: the first.             *)
LEMMA ConsumeStep ==
  ASSUME IInv, NEW r \in requests, Consume(r)
  PROVE  IInv'
<1> DEFINE l == r.link
           a == [r EXCEPT !.step = "verify"]
<1>1. r \in Redeeming /\ l \in 1 .. MaxRequests
  BY Kinds DEF IInv, Consume
<1>2. a \in Redeeming /\ a.link = l /\ a.step = "verify"
  BY <1>1 DEF Redeeming
<1>3. a \notin Asking
  BY <1>2 DEF Asking
<1> HIDE DEF a
<1>4. /\ links' = [links EXCEPT ![l].consumed = TRUE]
      /\ IF links[l].consumed THEN requests' = requests \ {r}
         ELSE requests' = (requests \ {r}) \cup {a}
      /\ UNCHANGED <<customers, addresses, verified, asked, tokens>>
  BY DEF Consume, Ends, Goes, a
<1>5. links[l] \in Links
  BY <1>1 DEF IInv, MagicTypeOK
<1>6. /\ links' \in [1 .. MaxRequests -> Links] /\ links'[l].consumed
      /\ \A k \in 1 .. MaxRequests :
           /\ k # l => links'[k] = links[k]
           /\ links'[k].issued = links[k].issued /\ links'[k].who = links[k].who
           /\ links'[k].email = links[k].email
  BY <1>1, <1>4, <1>5 DEF IInv, MagicTypeOK, Links
<1> HIDE DEF l
<1>7. MagicTypeOK'
  BY <1>2, <1>4, <1>6 DEF IInv, MagicTypeOK
<1>8. AsksApart'
  BY <1>3, <1>4, <1>6, Kinds DEF IInv, AsksApart
<1>9. IssuedHasRows'
  <2>1. \A q \in requests' \cap Redeeming : \E p \in requests \cap Redeeming : p.link = q.link
    BY <1>1, <1>2, <1>4 DEF l
  <2>2. QED
    BY <1>4, <1>6, <2>1 DEF IInv, IssuedHasRows
<1>10. OneRight'
  <2>1. CASE links[l].consumed
    BY <1>4, <1>6, <2>1 DEF IInv, OneRight
  <2>2. CASE ~links[l].consumed
    <3>1. tokens[l] = 0 /\ \A q \in requests : q.step = "verify" => q.link # l
      BY <1>1, <2>2 DEF IInv, OneRight
    <3>2. QED
      BY <1>2, <1>4, <1>6, <2>2, <3>1 DEF IInv, OneRight
  <2>3. QED
    BY <2>1, <2>2
<1>11. QED
  BY <1>7, <1>8, <1>9, <1>10 DEF IInv

(* The request that holds the right of a link spends it.                   *)
LEMMA SignInStep ==
  ASSUME IInv, NEW r \in requests, SignIn(r)
  PROVE  IInv'
<1> DEFINE l == r.link
<1>1. r \in Redeeming /\ l \in 1 .. MaxRequests /\ r.step = "verify"
  BY Kinds DEF IInv, SignIn
<1>2. /\ links[l].consumed /\ tokens[l] = 0
      /\ \A q \in requests : q.step = "verify" /\ q.link = l => q = r
  BY <1>1 DEF IInv, OneRight
<1>3. links[l].issued /\ links[l].email \in addresses
  BY <1>1 DEF IInv, IssuedHasRows
<1>4. /\ requests' = requests \ {r} /\ verified' = verified \cup {links[l].email}
      /\ tokens' = [tokens EXCEPT ![l] = @ + 1]
      /\ UNCHANGED <<customers, addresses, links, asked>>
  BY <1>3 DEF SignIn, Ends, Marked, WithToken
<1> HIDE DEF l
<1>5. tokens'[l] = 1 /\ \A k \in 1 .. MaxRequests : k # l => tokens'[k] = tokens[k]
  BY <1>1, <1>2, <1>4 DEF IInv, MagicTypeOK
<1>6. MagicTypeOK'
  BY <1>1, <1>3, <1>4 DEF IInv, MagicTypeOK
<1>7. AsksApart'
  BY <1>4 DEF IInv, AsksApart
<1>8. IssuedHasRows'
  BY <1>3, <1>4, <1>5 DEF IInv, IssuedHasRows
<1>9. OneRight'
  BY <1>1, <1>2, <1>4, <1>5 DEF IInv, OneRight, l
<1>10. QED
  BY <1>6, <1>7, <1>8, <1>9 DEF IInv

LEMMA OpenStep ==
  ASSUME IInv, NEW k \in DOMAIN links, NEW n \in 1 .. MaxOpen, Open(k, n)
  PROVE  IInv'
<1> DEFINE a == [link |-> k, n |-> n, step |-> "consume"]
<1>1. k \in 1 .. MaxRequests /\ links[k].issued
  BY DEF Open, IInv, MagicTypeOK
<1>2. a \in Redeeming /\ a.step = "consume" /\ a.link = k
  BY <1>1 DEF Redeeming
<1>3. a \notin Asking
  BY <1>2 DEF Asking
<1>4. /\ requests' = requests \cup {a}
      /\ UNCHANGED <<customers, addresses, verified, links, asked, tokens>>
  BY DEF Open, Opened, tables
<1> HIDE DEF a
<1>5. MagicTypeOK'
  BY <1>2, <1>4 DEF IInv, MagicTypeOK
<1>6. AsksApart'
  BY <1>3, <1>4 DEF IInv, AsksApart
<1>7. IssuedHasRows'
  BY <1>1, <1>2, <1>4 DEF IInv, IssuedHasRows
<1>8. OneRight'
  BY <1>2, <1>4 DEF IInv, OneRight
<1>9. QED
  BY <1>5, <1>6, <1>7, <1>8 DEF IInv

LEMMA ExpiresStep ==
  ASSUME IInv, NEW k \in DOMAIN links, LinkExpires(k)
  PROVE  IInv'
<1>1. links[k] \in Links /\ k \in 1 .. MaxRequests
  BY DEF IInv, MagicTypeOK
<1>2. /\ links' = [links EXCEPT ![k].expired = TRUE]
      /\ UNCHANGED <<customers, addresses, verified, requests, asked, tokens>>
  BY DEF LinkExpires
<1>3. /\ links' \in [1 .. MaxRequests -> Links]
      /\ \A j \in 1 .. MaxRequests :
           /\ links'[j].issued = links[j].issued /\ links'[j].who = links[j].who
           /\ links'[j].email = links[j].email /\ links'[j].consumed = links[j].consumed
  BY <1>1, <1>2 DEF IInv, MagicTypeOK, Links
<1>4. MagicTypeOK'
  BY <1>2, <1>3 DEF IInv, MagicTypeOK
<1>5. AsksApart'
  BY <1>2, <1>3, Kinds DEF IInv, AsksApart
<1>6. IssuedHasRows'
  BY <1>2, <1>3 DEF IInv, IssuedHasRows
<1>7. OneRight'
  BY <1>2, <1>3 DEF IInv, OneRight
<1>8. QED
  BY <1>4, <1>5, <1>6, <1>7 DEF IInv

(* A first message, an hour, a crash: requests and rows only go or come.   *)
LEMMA OtherStep ==
  ASSUME IInv, requests' \subseteq requests, customers \subseteq customers',
         customers' \subseteq Customers, UNCHANGED <<addresses, verified, links, asked, tokens>>
  PROVE  IInv'
<1>1. MagicTypeOK'
  BY DEF IInv, MagicTypeOK
<1>2. AsksApart'
  BY DEF IInv, AsksApart
<1>3. IssuedHasRows'
  BY DEF IInv, IssuedHasRows
<1>4. OneRight'
  BY DEF IInv, OneRight
<1>5. QED
  BY <1>1, <1>2, <1>3, <1>4 DEF IInv

LEMMA IInvStep ==
  ASSUME IInv, [LinkNext]_linkVars
  PROVE  IInv'
<1>1. ASSUME NEW e \in Emails, NEW x \in Customers, AskForLink(e, x)
      PROVE  IInv'
  BY <1>1, AskStep
<1>2. ASSUME NEW r \in requests, AddCustomer(r) \/ LookUp(r) \/ AddAddress(r)
      PROVE  IInv'
  BY <1>2, RowStep
<1>3. ASSUME NEW r \in requests, AddLink(r)
      PROVE  IInv'
  BY <1>3, AddLinkStep
<1>4. ASSUME NEW r \in requests, Consume(r)
      PROVE  IInv'
  BY <1>4, ConsumeStep
<1>5. ASSUME NEW r \in requests, SignIn(r)
      PROVE  IInv'
  BY <1>5, SignInStep
<1>6. ASSUME NEW l \in DOMAIN links, LinkExpires(l)
      PROVE  IInv'
  BY <1>6, ExpiresStep
<1>7. ASSUME NEW l \in DOMAIN links, NEW n \in 1 .. MaxOpen, Open(l, n)
      PROVE  IInv'
  BY <1>7, OpenStep
<1>8. ASSUME NEW x \in Customers, FirstMessage(x)
      PROVE  IInv'
  <2>1. customers \subseteq Customers
    BY DEF IInv, MagicTypeOK
  <2>2. QED
    BY <1>8, <2>1, OtherStep DEF FirstMessage
<1>9. ASSUME NEW e \in Emails, HourPasses(e)
      PROVE  IInv'
  <2>1. customers \subseteq Customers
    BY DEF IInv, MagicTypeOK
  <2>2. UNCHANGED <<tables, requests, asked, tokens>>
    BY <1>9 DEF HourPasses
  <2>3. QED
    BY <2>1, <2>2, OtherStep DEF tables
<1>10. CASE Crash \/ UNCHANGED linkVars
  <2>1. customers \subseteq Customers
    BY DEF IInv, MagicTypeOK
  <2>2. requests' \subseteq requests /\ UNCHANGED <<tables, asked, tokens>>
    BY <1>10 DEF Crash, linkVars
  <2>3. QED
    BY <2>1, <2>2, OtherStep DEF tables
<1>11. QED
  BY <1>1, <1>2, <1>3, <1>4, <1>5, <1>6, <1>7, <1>8, <1>9, <1>10 DEF LinkNext

LEMMA RightIsEnough ==
  ASSUME IInv
  PROVE  RedeemedOnce
<1>1. ASSUME NEW l \in DOMAIN links
      PROVE  /\ tokens[l] <= 1
             /\ tokens[l] = 1 => /\ links[l].consumed /\ links[l].who \in customers
                                 /\ links[l].email \in verified
  <2>1. l \in 1 .. MaxRequests
    BY DEF IInv, MagicTypeOK
  <2>2. tokens[l] = 1 => links[l].issued
    BY <2>1 DEF IInv, IssuedHasRows
  <2>3. QED
    BY <2>1, <2>2 DEF IInv, IssuedHasRows, OneRight
<1>2. QED
  BY <1>1 DEF RedeemedOnce

LEMMA Invariant == LinkSpec => []IInv
<1>1. LinkInit => IInv
  BY Started
<1>2. IInv /\ [LinkNext]_linkVars => IInv'
  BY IInvStep
<1>3. QED
  BY <1>1, <1>2, PTL DEF LinkSpec
-----------------------------------------------------------------------------
(* Counting links.                                                         *)
LEMMA Counting ==
  ASSUME Hits, NEW e \in Emails
  PROVE  /\ IsFiniteSet(hits[e]) /\ Cardinality(hits[e]) \in Nat
         /\ IsFiniteSet(Live(e)) /\ Cardinality(Live(e)) \in Nat
         /\ IsFiniteSet(Live(e) \ hits[e]) /\ Cardinality(Live(e) \ hits[e]) \in Nat
         /\ Cardinality(Live(e)) <= Cardinality(Live(e) \ hits[e]) + Cardinality(hits[e])
<1>1. IsFiniteSet(1 .. MaxRequests)
  BY MagicBounds, FS_Interval
<1>2. Live(e) \subseteq 1 .. MaxRequests /\ hits[e] \subseteq 1 .. MaxRequests
  BY DEF Live, Hits
<1>3. IsFiniteSet(Live(e)) /\ IsFiniteSet(hits[e])
  BY <1>1, <1>2, FS_Subset
<1>4. /\ IsFiniteSet(Live(e) \ hits[e])
      /\ Cardinality(Live(e) \ hits[e]) = Cardinality(Live(e)) - Cardinality(Live(e) \cap hits[e])
  BY <1>3, FS_Difference
<1>5. Live(e) \cap hits[e] \subseteq hits[e]
  OBVIOUS
<1>6. IsFiniteSet(Live(e) \cap hits[e]) /\ Cardinality(Live(e) \cap hits[e]) <= Cardinality(hits[e])
  BY <1>3, <1>5, FS_Subset
<1>7. /\ Cardinality(hits[e]) \in Nat /\ Cardinality(Live(e)) \in Nat
      /\ Cardinality(Live(e) \ hits[e]) \in Nat /\ Cardinality(Live(e) \cap hits[e]) \in Nat
  BY <1>3, <1>4, <1>6, FS_CardinalityType
<1>8. QED
  BY <1>3, <1>4, <1>6, <1>7

LEMMA OneMore ==
  ASSUME NEW S, IsFiniteSet(S), NEW x
  PROVE  Cardinality(S \cup {x}) \in Nat /\ Cardinality(S \cup {x}) <= Cardinality(S) + 1
<1>1. Cardinality(S) \in Nat
  BY FS_CardinalityType
<1>2. CASE x \in S
  <2>1. S \cup {x} = S
    BY <1>2
  <2> DEFINE T == S \cup {x}
  <2>2. T = S
    BY <2>1
  <2> HIDE DEF T
  <2>3. Cardinality(T) = Cardinality(S)
    BY <2>2
  <2>4. QED
    BY <1>1, <2>3 DEF T
<1>3. CASE x \notin S
  BY <1>1, <1>3, FS_AddElement
<1>4. QED
  BY <1>2, <1>3

LEMMA CountingStarted ==
  ASSUME LinkInit
  PROVE  Hits /\ Forgotten
<1>1. Cardinality({}) = 0
  BY FS_EmptySet
<1>2. Hits
  BY <1>1, MagicBounds DEF LinkInit, Hits
<1>3. \A e \in Emails : Live(e) = {} /\ hits[e] = {}
  BY DEF LinkInit, Live, Unissued
<1>4. PerEmail * crashes = 0
  BY MagicBounds DEF LinkInit
<1>5. Forgotten
  <2>1. \A e \in Emails : Live(e) \ hits[e] = {}
    BY <1>3
  <2>2. QED
    BY <1>1, <1>4, <2>1 DEF Forgotten
<1>6. QED
  BY <1>2, <1>5

(* A link the limiter does not count is one it did not count before.       *)
LEMMA NoMoreForgotten ==
  ASSUME Hits, Hits', Forgotten, crashes' = crashes,
         \A e \in Emails : Live(e)' \ hits'[e] \subseteq Live(e) \ hits[e]
  PROVE  Forgotten'
<1>1. SUFFICES ASSUME NEW e \in Emails
               PROVE  Cardinality(Live(e)' \ hits'[e]) <= PerEmail * crashes
  BY DEF Forgotten
<1>2. IsFiniteSet(Live(e) \ hits[e]) /\ Cardinality(Live(e) \ hits[e]) \in Nat
  BY Counting
<1>3. Live(e)' \ hits'[e] \subseteq Live(e) \ hits[e]
  OBVIOUS
<1>4. /\ Cardinality(Live(e)' \ hits'[e]) <= Cardinality(Live(e) \ hits[e])
      /\ IsFiniteSet(Live(e)' \ hits'[e])
  BY <1>2, <1>3, FS_Subset
<1>5. Cardinality(Live(e)' \ hits'[e]) \in Nat
  BY <1>4, FS_CardinalityType
<1>6. Cardinality(Live(e) \ hits[e]) <= PerEmail * crashes
  BY DEF Forgotten
<1>7. PerEmail * crashes \in Nat
  BY MagicBounds DEF Hits
<1>8. QED
  BY <1>2, <1>4, <1>5, <1>6, <1>7

(* A request for a link is counted before it begins.                       *)
LEMMA AskCounts ==
  ASSUME IInv, IInv', Hits, Forgotten, NEW e \in Emails, NEW x \in Customers, AskForLink(e, x)
  PROVE  Hits' /\ Forgotten'
<1>1. asked' \in 1 .. MaxRequests /\ asked < asked' /\ asked \in Nat
  BY MagicBounds DEF IInv, MagicTypeOK, AskForLink
<1>2. /\ hits' = [hits EXCEPT ![e] = hits[e] \cup {asked'}]
      /\ Cardinality(hits[e]) < PerEmail /\ links' = links /\ crashes' = crashes
  BY DEF AskForLink, Allowed, tables
<1>3. /\ hits' \in [Emails -> SUBSET (1 .. MaxRequests)] /\ hits'[e] = hits[e] \cup {asked'}
      /\ \A f \in Emails : f # e => hits'[f] = hits[f]
  BY <1>1, <1>2 DEF Hits
<1>4. Cardinality(hits'[e]) <= PerEmail
  <2>1. IsFiniteSet(hits[e]) /\ Cardinality(hits[e]) \in Nat
    BY Counting
  <2>2. /\ Cardinality(hits[e] \cup {asked'}) \in Nat
        /\ Cardinality(hits[e] \cup {asked'}) <= Cardinality(hits[e]) + 1
    BY <2>1, OneMore
  <2>3. QED
    BY <1>2, <1>3, <2>1, <2>2, MagicBounds
<1>5. \A r \in requests' \cap Asking : r.link \in hits'[r.email]
  <2>1. \A r \in requests' \cap Asking :
          r \in requests \/ (r.link = asked' /\ r.email = e)
    BY DEF AskForLink, Opened
  <2>2. \A r \in Asking : r.email \in Emails
    BY DEF Asking
  <2>3. QED
    BY <1>3, <2>1, <2>2 DEF Hits
<1>6. Hits'
  BY <1>2, <1>3, <1>4, <1>5 DEF Hits
<1>7. \A f \in Emails : Live(f)' \ hits'[f] \subseteq Live(f) \ hits[f]
  BY <1>2, <1>3 DEF Live
<1>8. QED
  BY <1>2, <1>6, <1>7, NoMoreForgotten

(* The other steps of the requests, and the links that expire: no link      *)
(* becomes live that the limiter does not count.                           *)
LEMMA OthersCount ==
  ASSUME Hits, Forgotten, UNCHANGED <<hits, crashes>>,
         \A r \in requests' \cap Asking :
           \E q \in requests \cap Asking : r.link = q.link /\ r.email = q.email,
         \A e \in Emails : Live(e)' \ hits[e] \subseteq Live(e)
  PROVE  Hits' /\ Forgotten'
<1>1. Hits'
  BY DEF Hits
<1>2. \A e \in Emails : Live(e)' \ hits'[e] \subseteq Live(e) \ hits[e]
  OBVIOUS
<1>3. QED
  BY <1>1, <1>2, NoMoreForgotten

LEMMA RowCounts ==
  ASSUME IInv, Hits, Forgotten, NEW r \in requests,
         AddCustomer(r) \/ LookUp(r) \/ AddAddress(r) \/ SignIn(r)
  PROVE  Hits' /\ Forgotten'
<1>1. UNCHANGED <<links, hits, crashes>>
  BY DEF AddCustomer, LookUp, AddAddress, SignIn, tables
<1>2. PICK step \in {"look", "address", "link"} :
        Ends(r) \/ (r \in Asking /\ Goes(r, step))
  BY Kinds DEF IInv, AddCustomer, LookUp, AddAddress, SignIn
<1>3. \A q \in requests' \cap Asking :
        \E p \in requests \cap Asking : q.link = p.link /\ q.email = p.email
  <2>1. CASE Ends(r)
    BY <2>1 DEF Ends
  <2>2. CASE r \in Asking /\ Goes(r, step)
    <3> DEFINE a == [r EXCEPT !.step = step]
    <3>1. a.link = r.link /\ a.email = r.email
      BY <2>2 DEF Asking
    <3>2. requests' = (requests \ {r}) \cup {a}
      BY <2>2 DEF Goes
    <3> HIDE DEF a
    <3>3. QED
      BY <2>2, <3>1, <3>2
  <2>3. QED
    BY <1>2, <2>1, <2>2
<1>4. \A e \in Emails : Live(e)' \ hits[e] \subseteq Live(e)
  BY <1>1 DEF Live
<1>5. QED
  BY <1>1, <1>3, <1>4, OthersCount

(* The link that is inserted was counted when it was asked for.            *)
LEMMA AddLinkCounts ==
  ASSUME IInv, Hits, Forgotten, NEW r \in requests, AddLink(r)
  PROVE  Hits' /\ Forgotten'
<1>1. r \in Asking /\ r.link \in 1 .. MaxRequests /\ r.link \in hits[r.email]
  BY Kinds DEF IInv, AddLink, Hits
<1>2. /\ links' = [links EXCEPT ![r.link] = [email |-> r.email, who |-> r.who, issued |-> TRUE,
                                             expired |-> FALSE, consumed |-> FALSE]]
      /\ requests' = requests \ {r} /\ UNCHANGED <<hits, crashes>>
  BY DEF AddLink, Ends
<1>3. /\ links'[r.link].email = r.email
      /\ \A k \in 1 .. MaxRequests : k # r.link => links'[k] = links[k]
  BY <1>1, <1>2 DEF IInv, MagicTypeOK
<1>4. \A e \in Emails : Live(e)' \ hits[e] \subseteq Live(e)
  BY <1>1, <1>3 DEF Live
<1>5. \A q \in requests' \cap Asking :
        \E p \in requests \cap Asking : q.link = p.link /\ q.email = p.email
  BY <1>2
<1>6. QED
  BY <1>2, <1>4, <1>5, OthersCount

LEMMA ConsumeCounts ==
  ASSUME IInv, Hits, Forgotten, NEW r \in requests, Consume(r)
  PROVE  Hits' /\ Forgotten'
<1> DEFINE a == [r EXCEPT !.step = "verify"]
<1>1. r \in Redeeming /\ r.link \in 1 .. MaxRequests /\ links[r.link] \in Links
  BY Kinds DEF IInv, Consume, MagicTypeOK
<1>2. a \notin Asking
  BY <1>1 DEF Redeeming, Asking
<1>3. /\ links' = [links EXCEPT ![r.link].consumed = TRUE] /\ UNCHANGED <<hits, crashes>>
      /\ requests' = requests \ {r} \/ requests' = (requests \ {r}) \cup {a}
  BY DEF Consume, Ends, Goes
<1> HIDE DEF a
<1>4. \A k \in 1 .. MaxRequests :
        /\ links'[k].issued = links[k].issued /\ links'[k].email = links[k].email
        /\ links'[k].expired = links[k].expired
  BY <1>1, <1>3 DEF IInv, MagicTypeOK, Links
<1>5. \A e \in Emails : Live(e)' \ hits[e] \subseteq Live(e)
  BY <1>4 DEF Live
<1>6. \A q \in requests' \cap Asking :
        \E p \in requests \cap Asking : q.link = p.link /\ q.email = p.email
  BY <1>2, <1>3
<1>7. QED
  BY <1>3, <1>5, <1>6, OthersCount

LEMMA OpenCounts ==
  ASSUME IInv, Hits, Forgotten, NEW k \in DOMAIN links, NEW n \in 1 .. MaxOpen, Open(k, n)
  PROVE  Hits' /\ Forgotten'
<1> DEFINE a == [link |-> k, n |-> n, step |-> "consume"]
<1>1. a \notin Asking
  BY DEF Asking
<1>2. requests' = requests \cup {a} /\ UNCHANGED <<links, hits, crashes>>
  BY DEF Open, Opened, tables
<1> HIDE DEF a
<1>3. \A e \in Emails : Live(e)' \ hits[e] \subseteq Live(e)
  BY <1>2 DEF Live
<1>4. \A q \in requests' \cap Asking :
        \E p \in requests \cap Asking : q.link = p.link /\ q.email = p.email
  BY <1>1, <1>2
<1>5. QED
  BY <1>2, <1>3, <1>4, OthersCount

LEMMA ExpiresCounts ==
  ASSUME IInv, Hits, Forgotten, NEW k \in DOMAIN links, LinkExpires(k)
  PROVE  Hits' /\ Forgotten'
<1>1. links[k] \in Links /\ k \in 1 .. MaxRequests
  BY DEF IInv, MagicTypeOK
<1>2. links' = [links EXCEPT ![k].expired = TRUE] /\ UNCHANGED <<requests, hits, crashes>>
  BY DEF LinkExpires
<1>3. \A j \in 1 .. MaxRequests :
        /\ links'[j].issued = links[j].issued /\ links'[j].email = links[j].email
        /\ ~links'[j].expired => ~links[j].expired
  BY <1>1, <1>2 DEF IInv, MagicTypeOK, Links
<1>4. \A e \in Emails : Live(e)' \ hits[e] \subseteq Live(e)
  BY <1>3 DEF Live
<1>5. QED
  BY <1>2, <1>4, OthersCount

(* What the limiter forgets after an hour has expired.                     *)
LEMMA HourCounts ==
  ASSUME IInv, Hits, Forgotten, NEW e \in Emails, HourPasses(e)
  PROVE  Hits' /\ Forgotten'
<1>1. PICK n \in hits[e] :
        /\ links[n].issued => links[n].expired
        /\ \A r \in requests : r.link = n => r.step \in {"consume", "verify"}
        /\ hits' = [hits EXCEPT ![e] = hits[e] \ {n}]
        /\ UNCHANGED <<links, requests, crashes>>
  BY DEF HourPasses, tables
<1>2. /\ hits' \in [Emails -> SUBSET (1 .. MaxRequests)] /\ hits'[e] = hits[e] \ {n}
      /\ \A f \in Emails : f # e => hits'[f] = hits[f]
  BY <1>1 DEF Hits
<1>3. Cardinality(hits'[e]) <= PerEmail
  <2>1. IsFiniteSet(hits[e]) /\ Cardinality(hits[e]) \in Nat
    BY Counting
  <2>2. Cardinality(hits[e] \ {n}) = Cardinality(hits[e]) - 1
    BY <1>1, <2>1, FS_RemoveElement
  <2>3. Cardinality(hits[e]) <= PerEmail
    BY DEF Hits
  <2>4. QED
    BY <1>2, <2>1, <2>2, <2>3, MagicBounds
<1>4. \A r \in requests \cap Asking : r.link \in hits'[r.email]
  <2>1. \A r \in requests \cap Asking : r.link # n /\ r.email \in Emails
    BY <1>1 DEF Asking
  <2>2. QED
    BY <1>2, <2>1 DEF Hits
<1>5. Hits'
  BY <1>1, <1>2, <1>3, <1>4 DEF Hits
<1>6. \A f \in Emails : Live(f)' \ hits'[f] \subseteq Live(f) \ hits[f]
  BY <1>1, <1>2 DEF Live
<1>7. QED
  BY <1>1, <1>5, <1>6, NoMoreForgotten

(* A crash forgets the links of one limit at most.                         *)
LEMMA CrashCounts ==
  ASSUME Hits, Forgotten, Crash
  PROVE  Hits' /\ Forgotten'
<1>1. /\ crashes' = crashes + 1 /\ requests' = {} /\ hits' = [e \in Emails |-> {}]
      /\ links' = links
  BY DEF Crash, tables
<1>2. Hits'
  <2>1. Cardinality({}) = 0
    BY FS_EmptySet
  <2>2. \A e \in Emails : Cardinality(hits'[e]) <= PerEmail
    BY <1>1, <2>1, MagicBounds
  <2>3. QED
    BY <1>1, <2>2 DEF Hits
<1>3. ASSUME NEW e \in Emails
      PROVE  Cardinality(Live(e)' \ hits'[e]) <= PerEmail * crashes'
  <2>1. Live(e)' \ hits'[e] = Live(e)
    BY <1>1 DEF Live
  <2>2. /\ Cardinality(hits[e]) \in Nat /\ Cardinality(Live(e)) \in Nat
        /\ Cardinality(Live(e) \ hits[e]) \in Nat
        /\ Cardinality(Live(e)) <= Cardinality(Live(e) \ hits[e]) + Cardinality(hits[e])
    BY Counting
  <2>3. Cardinality(hits[e]) <= PerEmail /\ crashes \in Nat
        /\ Cardinality(Live(e) \ hits[e]) <= PerEmail * crashes
    BY DEF Hits, Forgotten
  <2>4. PerEmail * crashes \in Nat /\ PerEmail * crashes' = PerEmail * crashes + PerEmail
    BY <1>1, <2>3, MagicBounds
  <2>5. Cardinality(Live(e)) <= PerEmail * crashes'
    BY <2>2, <2>3, <2>4, MagicBounds
  <2>6. QED
    BY <2>1, <2>5
<1>4. QED
  BY <1>2, <1>3 DEF Forgotten

LEMMA CountsStep ==
  ASSUME IInv, IInv', Hits, Forgotten, [LinkNext]_linkVars
  PROVE  Hits' /\ Forgotten'
<1>1. ASSUME NEW e \in Emails, NEW x \in Customers, AskForLink(e, x)
      PROVE  Hits' /\ Forgotten'
  BY <1>1, AskCounts
<1>2. ASSUME NEW r \in requests, AddCustomer(r) \/ LookUp(r) \/ AddAddress(r) \/ SignIn(r)
      PROVE  Hits' /\ Forgotten'
  BY <1>2, RowCounts
<1>3. ASSUME NEW r \in requests, AddLink(r)
      PROVE  Hits' /\ Forgotten'
  BY <1>3, AddLinkCounts
<1>4. ASSUME NEW r \in requests, Consume(r)
      PROVE  Hits' /\ Forgotten'
  BY <1>4, ConsumeCounts
<1>5. ASSUME NEW l \in DOMAIN links, LinkExpires(l)
      PROVE  Hits' /\ Forgotten'
  BY <1>5, ExpiresCounts
<1>6. ASSUME NEW l \in DOMAIN links, NEW n \in 1 .. MaxOpen, Open(l, n)
      PROVE  Hits' /\ Forgotten'
  BY <1>6, OpenCounts
<1>7. ASSUME NEW e \in Emails, HourPasses(e)
      PROVE  Hits' /\ Forgotten'
  BY <1>7, HourCounts
<1>8. CASE Crash
  BY <1>8, CrashCounts
<1>9. CASE UNCHANGED linkVars \/ \E x \in Customers : FirstMessage(x)
  <2>1. UNCHANGED <<links, requests, hits, crashes>>
    BY <1>9 DEF linkVars, tables, FirstMessage
  <2>2. \A e \in Emails : Live(e)' \ hits[e] \subseteq Live(e)
    BY <2>1 DEF Live
  <2>3. QED
    BY <2>1, <2>2, OthersCount
<1>10. QED
  BY <1>1, <1>2, <1>3, <1>4, <1>5, <1>6, <1>7, <1>8, <1>9 DEF LinkNext

LEMMA CountingIsEnough ==
  ASSUME IInv, Hits, Forgotten
  PROVE  FewLinks
<1>1. SUFFICES ASSUME NEW e \in Emails PROVE Cardinality(Live(e)) <= PerEmail * (1 + crashes)
  BY DEF FewLinks, Live, IInv, MagicTypeOK
<1>2. /\ Cardinality(hits[e]) \in Nat /\ Cardinality(Live(e)) \in Nat
      /\ Cardinality(Live(e) \ hits[e]) \in Nat
      /\ Cardinality(Live(e)) <= Cardinality(Live(e) \ hits[e]) + Cardinality(hits[e])
  BY Counting
<1>3. Cardinality(hits[e]) <= PerEmail /\ crashes \in Nat
      /\ Cardinality(Live(e) \ hits[e]) <= PerEmail * crashes
  BY DEF Hits, Forgotten
<1>4. PerEmail * crashes \in Nat /\ PerEmail * (1 + crashes) = PerEmail * crashes + PerEmail
  BY <1>3, MagicBounds
<1>5. QED
  BY <1>2, <1>3, <1>4, MagicBounds

(* A link signs in at most one request, however many open it at once and    *)
(* whenever the server crashes: a link is consumed by a conditional update, *)
(* and a token is given out after it only (magic-link.ts).                  *)
THEOREM Redeemed == LinkSpec => []RedeemedOnce
<1>1. IInv => RedeemedOnce
  BY RightIsEnough
<1>2. QED
  BY <1>1, Invariant, PTL

(* An e-mail has at most PerEmail links that can be opened in each life of  *)
(* the server: the limiter counts a request before its link is there, and   *)
(* forgets it after the link has expired or when the process dies (auth.ts).*)
THEOREM Limited == LinkSpec => []FewLinks
<1>1. LinkInit => Hits /\ Forgotten
  BY CountingStarted
<1>2. IInv /\ IInv' /\ Hits /\ Forgotten /\ [LinkNext]_linkVars => Hits' /\ Forgotten'
  BY CountsStep
<1>3. IInv /\ Hits /\ Forgotten => FewLinks
  BY CountingIsEnough
<1>4. QED
  BY <1>1, <1>2, <1>3, Invariant, PTL DEF LinkSpec
-----------------------------------------------------------------------------
(* The chat widget.                                                        *)
Entries == [by : {"user", "reply", "error"}, n : Nat]
UpFrames == [kind : {"init", "message"}, n : Nat]
Replies == [kind : {"message", "confirmation"}, n : Nat \ {0}]
Notices == [kind : {"error", "refused"}, n : Nat]
Readies == [kind : {"ready"}, n : {0}, history : Seq(Entries)]
DownFrames == Replies \cup Notices \cup Readies
Works == [socket : Nat, n : Nat]

Known(s) == \A k \in DOMAIN s : s[k].n <= next

PageTypeOK ==
  /\ next \in Nat /\ number \in Nat
  /\ up \in Seq(UpFrames) /\ down \in Seq(DownFrames) /\ jobs \in Seq(Works)
  /\ rows \in Seq(Entries) /\ shown \in Seq(Entries)
  /\ Known(up) /\ Known(down) /\ Known(jobs) /\ Known(rows) /\ Known(shown)
  /\ \A k \in DOMAIN down : down[k].kind = "ready" => Known(down[k].history)

(* A message is under way once: to the route, in its hands, or answered.    *)
Numbers(s) == {s[k].n : k \in DOMAIN s} \ {0}
Ahead == Numbers(up) \cup Numbers(jobs)
Pending == Ahead \cup Numbers(down)
Distinct(s) == \A k, l \in DOMAIN s : s[k].n = s[l].n /\ s[k].n # 0 => k = l

UnderWayOnce ==
  /\ Distinct(up) /\ Distinct(jobs) /\ Distinct(down)
  /\ Numbers(up) \cap Numbers(jobs) = {} /\ Ahead \cap Numbers(down) = {}

(* Entries that are faithful, and have no answer to the given messages.     *)
Faithful(s) ==
  \A k, l \in DOMAIN s : k < l => s[k] # s[l] /\ (s[k].n = s[l].n => s[k].by = "user")
Tells(s, ns) == Faithful(s) /\ \A k \in DOMAIN s : s[k].n \in ns => s[k].by = "user"

(* What is stored, shown, or on its way as a history, has no answer that    *)
(* is still to come.                                                       *)
NothingEarly ==
  /\ Tells(rows, Ahead) /\ Tells(shown, Pending)
  /\ \A k \in DOMAIN down : down[k].kind = "ready" => Tells(down[k].history, Pending)

(* A message is stored by its turn.                                        *)
StoredByTurn ==
  \A k \in DOMAIN rows :
    rows[k].n \notin Numbers(up) /\ (rows[k].n \in Numbers(jobs) => rows[k].n = turn)

Mine(j) == jobs[j].socket = number

Wires ==
  /\ socket \notin {"open", "closing"} => up = <<>> /\ down = <<>>
  /\ socket = "connecting" => ~ready /\ \A j \in DOMAIN jobs : ~Mine(j)
  /\ access = "origin" => /\ jobs = <<>> /\ ~ready
                          /\ \A k \in DOMAIN down : down[k].kind \in {"error", "refused"}

(* An open socket has one init frame, then one answer to it; then it is    *)
(* ready, or never will be.  All other frames come after.                  *)
GreetedOnce ==
  socket = "open" /\ access # "origin" =>
    /\ \A k \in DOMAIN up : up[k].n = 0 =>
         k = 1 /\ down = <<>> /\ ~ready /\ \A j \in DOMAIN jobs : ~Mine(j)
    /\ \A j \in DOMAIN jobs : Mine(j) /\ jobs[j].n = 0 =>
         /\ down = <<>> /\ ~ready /\ \A k \in DOMAIN up : up[k].n # 0
         /\ \A i \in DOMAIN jobs : Mine(i) => j <= i
    /\ \A k \in DOMAIN down : down[k].n = 0 =>
         /\ k = 1 /\ ~ready /\ \A i \in DOMAIN up : up[i].n # 0
         /\ \A j \in DOMAIN jobs : Mine(j) => jobs[j].n # 0

PageInv ==
  PageTypeOK /\ UnderWayOnce /\ NothingEarly /\ StoredByTurn /\ Wires /\ GreetedOnce

(* Facts about sequences: t is s without some of its elements.             *)
Part(t, s) ==
  \E f \in [DOMAIN t -> DOMAIN s] :
    /\ \A k \in DOMAIN t : t[k] = s[f[k]]
    /\ \A k, l \in DOMAIN t : k < l => f[k] < f[l]

LEMMA Parts ==
  ASSUME NEW S, NEW s \in Seq(S), NEW t \in Seq(S), Part(t, s)
  PROVE  /\ \A k \in DOMAIN t : \E l \in DOMAIN s : t[k] = s[l]
         /\ Numbers(t) \subseteq Numbers(s)
         /\ Distinct(s) => Distinct(t)
         /\ \A ns : Tells(s, ns) => Tells(t, ns)
<1>1. PICK f \in [DOMAIN t -> DOMAIN s] :
        /\ \A k \in DOMAIN t : t[k] = s[f[k]]
        /\ \A k, l \in DOMAIN t : k < l => f[k] < f[l]
  BY DEF Part
<1>2. DOMAIN s = 1 .. Len(s) /\ DOMAIN t = 1 .. Len(t) /\ Len(s) \in Nat /\ Len(t) \in Nat
  BY LenProperties
<1>3. \A k \in DOMAIN t : f[k] \in DOMAIN s /\ t[k] = s[f[k]]
  BY <1>1
<1>4. Numbers(t) \subseteq Numbers(s)
  BY <1>3 DEF Numbers
<1>5. ASSUME Distinct(s) PROVE Distinct(t)
  <2>1. SUFFICES ASSUME NEW k \in DOMAIN t, NEW l \in DOMAIN t, t[k].n = t[l].n, t[k].n # 0,
                        k # l
                 PROVE  FALSE
    BY DEF Distinct
  <2>2. f[k] = f[l]
    BY <1>3, <1>5, <2>1 DEF Distinct
  <2>3. f[k] \in Nat /\ (k < l \/ l < k)
    BY <1>2, <1>3, <2>1
  <2>4. QED
    BY <1>1, <1>2, <2>1, <2>2, <2>3
<1>6. ASSUME NEW ns, Tells(s, ns) PROVE Tells(t, ns)
  <2>1. Faithful(t)
    BY <1>1, <1>3, <1>6 DEF Tells, Faithful
  <2>2. QED
    BY <1>3, <1>6, <2>1 DEF Tells
<1>7. QED
  BY <1>3, <1>4, <1>5, <1>6

LEMMA Itself == ASSUME NEW S, NEW s \in Seq(S) PROVE Part(s, s) /\ Part(<<>>, s)
<1>1. Part(s, s)
  <2>1. /\ [k \in DOMAIN s |-> k] \in [DOMAIN s -> DOMAIN s]
        /\ \A k \in DOMAIN s : s[k] = s[[i \in DOMAIN s |-> i][k]]
        /\ \A k, l \in DOMAIN s : k < l => [i \in DOMAIN s |-> i][k] < [i \in DOMAIN s |-> i][l]
    OBVIOUS
  <2>2. QED
    BY <2>1 DEF Part
<1>2. Part(<<>>, s)
  <2>1. DOMAIN <<>> = {} /\ <<>> \in [DOMAIN <<>> -> DOMAIN s]
    OBVIOUS
  <2>2. QED
    BY <2>1 DEF Part
<1>3. QED
  BY <1>1, <1>2

(* One element less, at j.                                                 *)
Without(t, s, j) ==
  /\ Len(t) = Len(s) - 1
  /\ \A k \in 1 .. Len(t) : t[k] = IF k < j THEN s[k] ELSE s[k + 1]

LEMMA Less ==
  ASSUME NEW S, NEW s \in Seq(S), NEW t \in Seq(S), NEW j \in DOMAIN s, Without(t, s, j)
  PROVE  /\ Part(t, s)
         /\ Numbers(s) \subseteq Numbers(t) \cup {s[j].n}
         /\ Distinct(s) => s[j].n \notin Numbers(t)
<1>1. /\ DOMAIN s = 1 .. Len(s) /\ DOMAIN t = 1 .. Len(t) /\ Len(s) \in Nat /\ Len(t) \in Nat
      /\ j \in 1 .. Len(s) /\ Len(t) = Len(s) - 1
  BY LenProperties DEF Without
<1>2. \A k \in DOMAIN t : t[k] = s[IF k < j THEN k ELSE k + 1]
  BY <1>1 DEF Without
<1>3. Part(t, s)
  <2> DEFINE f == [k \in DOMAIN t |-> IF k < j THEN k ELSE k + 1]
  <2>1. f \in [DOMAIN t -> DOMAIN s]
    BY <1>1
  <2>2. \A k \in DOMAIN t : t[k] = s[f[k]]
    BY <1>2
  <2>3. \A k, l \in DOMAIN t : k < l => f[k] < f[l]
    BY <1>1
  <2>4. QED
    BY <2>1, <2>2, <2>3 DEF Part
<1>4. ASSUME NEW k \in DOMAIN s, k # j PROVE s[k].n \in {t[l].n : l \in DOMAIN t}
  <2>1. CASE k < j
    <3>1. k \in DOMAIN t /\ t[k] = s[k]
      BY <1>1, <1>2, <2>1
    <3>2. QED
      BY <3>1
  <2>2. CASE j < k
    <3>1. k - 1 \in DOMAIN t /\ t[k - 1] = s[k]
      BY <1>1, <1>2, <2>2
    <3>2. QED
      BY <3>1
  <2>3. QED
    BY <1>1, <1>4, <2>1, <2>2
<1>5. Numbers(s) \subseteq Numbers(t) \cup {s[j].n}
  BY <1>4 DEF Numbers
<1>6. ASSUME Distinct(s), s[j].n \in Numbers(t) PROVE FALSE
  <2>1. PICK k \in DOMAIN t : t[k].n = s[j].n /\ s[j].n # 0
    BY <1>6 DEF Numbers
  <2>2. (IF k < j THEN k ELSE k + 1) \in DOMAIN s /\ (IF k < j THEN k ELSE k + 1) # j
    BY <1>1
  <2>3. QED
    BY <1>2, <1>6, <2>1, <2>2 DEF Distinct
<1>7. QED
  BY <1>3, <1>5, <1>6

LEMMA TailIsLess ==
  ASSUME NEW S, NEW s \in Seq(S), s # <<>>
  PROVE  /\ Tail(s) \in Seq(S) /\ Without(Tail(s), s, 1) /\ 1 \in DOMAIN s
         /\ Head(s) = s[1] /\ Head(s) \in S
<1>1. /\ Head(s) \in S /\ Tail(s) \in Seq(S) /\ Len(Tail(s)) = Len(s) - 1
      /\ \A i \in 1 .. Len(Tail(s)) : Tail(s)[i] = s[i + 1]
  BY HeadTailProperties
<1>2. Len(s) \in Nat /\ DOMAIN s = 1 .. Len(s) /\ Len(s) # 0
  BY LenProperties, EmptySeq
<1>3. QED
  BY <1>1, <1>2 DEF Without

LEMMA RemovedIsLess ==
  ASSUME NEW S, NEW s \in Seq(S), NEW j \in DOMAIN s
  PROVE  RemoveAt(s, j) \in Seq(S) /\ Without(RemoveAt(s, j), s, j)
<1> DEFINE a == SubSeq(s, 1, j - 1)
           b == SubSeq(s, j + 1, Len(s))
<1>1. Len(s) \in Nat /\ DOMAIN s = 1 .. Len(s) /\ j \in 1 .. Len(s)
  BY LenProperties
<1>2. /\ a \in Seq(S) /\ Len(a) = j - 1 /\ \A i \in 1 .. j - 1 : a[i] = s[i]
  BY <1>1, SubSeqProperties
<1>3. /\ b \in Seq(S) /\ Len(b) = Len(s) - j
      /\ \A i \in 1 .. Len(s) - j : b[i] = s[j + i]
  BY <1>1, SubSeqProperties
<1>4. /\ a \o b \in Seq(S) /\ Len(a \o b) = Len(a) + Len(b)
      /\ \A i \in 1 .. Len(a) + Len(b) :
           (a \o b)[i] = IF i <= Len(a) THEN a[i] ELSE b[i - Len(a)]
  BY <1>2, <1>3, ConcatProperties
<1>5. RemoveAt(s, j) = a \o b
  BY DEF RemoveAt
<1> DEFINE t == a \o b
<1> HIDE DEF a, b
<1>6. Len(t) = Len(s) - 1 /\ t \in Seq(S)
  BY <1>1, <1>2, <1>3, <1>4
<1>7. ASSUME NEW k \in 1 .. Len(s) - 1 PROVE t[k] = IF k < j THEN s[k] ELSE s[k + 1]
  <2>1. CASE k < j
    <3>1. k \in 1 .. j - 1 /\ t[k] = a[k]
      BY <1>1, <1>2, <1>3, <1>4, <2>1
    <3>2. QED
      BY <1>2, <2>1, <3>1
  <2>2. CASE ~(k < j)
    <3>1. k - (j - 1) \in 1 .. Len(s) - j /\ t[k] = b[k - (j - 1)]
      <4>1. /\ k \in 1 .. Len(a) + Len(b) /\ ~(k <= Len(a)) /\ Len(a) = j - 1
            /\ k - (j - 1) \in 1 .. Len(s) - j
        BY <1>1, <1>2, <1>3, <2>2
      <4>2. t[k] = b[k - Len(a)]
        BY <1>4, <4>1
      <4>3. QED
        BY <4>1, <4>2
    <3>2. j + (k - (j - 1)) = k + 1
      BY <1>1
    <3>3. QED
      BY <1>3, <2>2, <3>1, <3>2
  <2>3. QED
    BY <2>1, <2>2
<1> HIDE DEF t
<1>8. Without(t, s, j)
  BY <1>6, <1>7 DEF Without
<1>9. QED
  BY <1>5, <1>6, <1>8 DEF t

LEMMA SuffixIsPart ==
  ASSUME NEW S, NEW s \in Seq(S), NEW m \in Nat \ {0}
  PROVE  SubSeq(s, m, Len(s)) \in Seq(S) /\ Part(SubSeq(s, m, Len(s)), s)
<1> DEFINE t == SubSeq(s, m, Len(s))
<1>1. Len(s) \in Nat /\ DOMAIN s = 1 .. Len(s)
  BY LenProperties
<1>2. CASE m <= Len(s)
  <2>1. t \in Seq(S) /\ Len(t) = Len(s) - m + 1 /\ \A i \in 1 .. Len(t) : t[i] = s[m + i - 1]
    BY <1>1, <1>2, SubSeqProperties
  <2>2. DOMAIN t = 1 .. Len(s) - m + 1
    BY <2>1, LenProperties
  <2> DEFINE f == [k \in DOMAIN t |-> m + k - 1]
  <2>3. f \in [DOMAIN t -> DOMAIN s]
    BY <1>1, <1>2, <2>2
  <2>4. \A k \in DOMAIN t : t[k] = s[f[k]]
    BY <2>1, <2>2
  <2>5. \A k, l \in DOMAIN t : k < l => f[k] < f[l]
    BY <2>2
  <2>6. QED
    BY <2>1, <2>3, <2>4, <2>5 DEF Part
<1>3. CASE Len(s) < m
  <2>1. t = <<>>
    BY <1>1, <1>3, SubSeqEmpty
  <2>2. QED
    BY <2>1, Itself
<1>4. QED
  BY <1>1, <1>2, <1>3

LEMMA More ==
  ASSUME NEW S, NEW s \in Seq(S), NEW e \in S
  PROVE  /\ Append(s, e) \in Seq(S) /\ Len(s) \in Nat
         /\ DOMAIN s = 1 .. Len(s) /\ DOMAIN Append(s, e) = 1 .. Len(s) + 1
         /\ \A k \in 1 .. Len(s) : Append(s, e)[k] = s[k]
         /\ Append(s, e)[Len(s) + 1] = e
         /\ Numbers(Append(s, e)) = Numbers(s) \cup ({e.n} \ {0})
         /\ Distinct(s) /\ e.n \notin Numbers(s) => Distinct(Append(s, e))
<1> DEFINE t == Append(s, e)
<1>1. /\ t \in Seq(S) /\ Len(s) \in Nat /\ DOMAIN s = 1 .. Len(s)
      /\ DOMAIN t = 1 .. Len(s) + 1
      /\ \A k \in 1 .. Len(s) : t[k] = s[k]
      /\ t[Len(s) + 1] = e
  BY AppendProperties, LenProperties
<1> HIDE DEF t
<1>2. Numbers(t) \subseteq Numbers(s) \cup ({e.n} \ {0})
  BY <1>1 DEF Numbers
<1>3. Numbers(s) \subseteq Numbers(t)
  <2>1. \A k \in DOMAIN s : k \in DOMAIN t /\ t[k].n = s[k].n
    BY <1>1
  <2>2. QED
    BY <2>1 DEF Numbers
<1>4. {e.n} \ {0} \subseteq Numbers(t)
  <2>1. Len(s) + 1 \in DOMAIN t /\ t[Len(s) + 1].n = e.n
    BY <1>1
  <2>2. QED
    BY <2>1 DEF Numbers
<1>5. ASSUME Distinct(s), e.n \notin Numbers(s) PROVE Distinct(t)
  <2>1. \A k \in DOMAIN s : s[k].n # 0 => s[k].n # e.n
    BY <1>5 DEF Numbers
  <2>2. QED
    BY <1>1, <1>5, <2>1 DEF Distinct
<1>6. QED
  BY <1>1, <1>2, <1>3, <1>4, <1>5 DEF t

(* An entry may be added that is new, or the first answer.                 *)
LEMMA TellsMore ==
  ASSUME NEW s \in Seq(Entries), NEW e \in Entries, NEW ns,
         Tells(s, ns \cup {e.n}), e.n \in ns => e.by = "user",
         e.by = "user" => \A k \in DOMAIN s : s[k].n # e.n
  PROVE  Tells(Append(s, e), ns)
<1>1. /\ Len(s) \in Nat /\ DOMAIN s = 1 .. Len(s) /\ DOMAIN Append(s, e) = 1 .. Len(s) + 1
      /\ \A k \in 1 .. Len(s) : Append(s, e)[k] = s[k]
      /\ Append(s, e)[Len(s) + 1] = e
  BY More
<1> DEFINE t == Append(s, e)
<1> HIDE DEF t
<1>2. \A k \in DOMAIN s : s[k] # e /\ (s[k].n = e.n => s[k].by = "user")
  BY DEF Tells
<1>3. \A k, l \in DOMAIN s : k < l => s[k] # s[l] /\ (s[k].n = s[l].n => s[k].by = "user")
  BY DEF Tells, Faithful
<1>4. Faithful(t)
  BY <1>1, <1>2, <1>3 DEF Faithful, t
<1>5. \A k \in DOMAIN t : t[k].n \in ns => t[k].by = "user"
  BY <1>1 DEF Tells, t
<1>6. QED
  BY <1>4, <1>5 DEF Tells, t

LEMMA TellsLess ==
  ASSUME NEW s, NEW ns, NEW ms, Tells(s, ns), ms \subseteq ns PROVE Tells(s, ms)
  BY DEF Tells

(* The number of a new socket is of none there are jobs of.                *)
LEMMA FreeNumber ==
  ASSUME jobs \in Seq(Works)
  PROVE  \E n \in 1 .. Len(jobs) + 1 : \A j \in DOMAIN jobs : jobs[j].socket # n
<1>1. Len(jobs) \in Nat /\ DOMAIN jobs = 1 .. Len(jobs)
  BY LenProperties
<1>2. SUFFICES ASSUME \A n \in 1 .. Len(jobs) + 1 : \E j \in DOMAIN jobs : jobs[j].socket = n
               PROVE  FALSE
  OBVIOUS
<1> DEFINE f == [n \in 1 .. Len(jobs) + 1 |-> CHOOSE j \in DOMAIN jobs : jobs[j].socket = n]
<1>3. \A n \in 1 .. Len(jobs) + 1 : f[n] \in 1 .. Len(jobs) /\ jobs[f[n]].socket = n
  BY <1>1, <1>2
<1>4. f \in [1 .. Len(jobs) + 1 -> 1 .. Len(jobs)]
  BY <1>3
<1>5. /\ IsFiniteSet(1 .. Len(jobs)) /\ Cardinality(1 .. Len(jobs)) = Len(jobs)
      /\ IsFiniteSet(1 .. Len(jobs) + 1) /\ Cardinality(1 .. Len(jobs) + 1) = Len(jobs) + 1
  BY <1>1, FS_Interval
<1> HIDE DEF f
<1>6. \E x, y \in 1 .. Len(jobs) + 1 : x # y /\ f[x] = f[y]
  BY <1>1, <1>4, <1>5, FS_PigeonHole
<1>7. QED
  BY <1>3, <1>6

LEMMA PageStarted == Init => PageInv
<1> SUFFICES ASSUME Init PROVE PageInv
  OBVIOUS
<1>1. /\ next = 0 /\ number = 1 /\ up = <<>> /\ down = <<>> /\ jobs = <<>> /\ rows = <<>>
      /\ shown = <<>> /\ socket = "connecting" /\ ready = FALSE
  BY DEF Init
<1>2. DOMAIN <<>> = {} /\ \A S : <<>> \in Seq(S)
  OBVIOUS
<1>3. QED
  BY <1>1, <1>2 DEF PageInv, PageTypeOK, Known, UnderWayOnce, Ahead, Distinct, Numbers,
     NothingEarly, Tells, Faithful, Pending, StoredByTurn, Wires, GreetedOnce, Mine

(* Steps that say nothing new and may lose what is under way.              *)
Loses ==
  /\ UNCHANGED <<next, rows, shown>>
  /\ up' \in {up, <<>>} /\ down' \in {down, <<>>}
  /\ UNCHANGED <<jobs, turn>> \/ (jobs' = <<>> /\ turn' = 0)

Said == PageTypeOK /\ UnderWayOnce /\ NothingEarly /\ StoredByTurn

LEMMA LosesSaid ==
  ASSUME Said, Loses, number' \in Nat PROVE Said'
<1>1. /\ up \in Seq(UpFrames) /\ down \in Seq(DownFrames) /\ jobs \in Seq(Works)
      /\ up' \in Seq(UpFrames) /\ down' \in Seq(DownFrames) /\ jobs' \in Seq(Works)
      /\ Part(up', up) /\ Part(down', down) /\ Part(jobs', jobs)
  <2>1. up \in Seq(UpFrames) /\ down \in Seq(DownFrames) /\ jobs \in Seq(Works)
    BY DEF Said, PageTypeOK
  <2>2. \A S : <<>> \in Seq(S)
    OBVIOUS
  <2>3. /\ Part(up, up) /\ Part(<<>>, up) /\ Part(down, down) /\ Part(<<>>, down)
        /\ Part(jobs, jobs) /\ Part(<<>>, jobs)
    BY <2>1, Itself
  <2>4. up' \in {up, <<>>} /\ down' \in {down, <<>>} /\ jobs' \in {jobs, <<>>}
    BY DEF Loses
  <2>5. QED
    BY <2>1, <2>2, <2>3, <2>4
<1>2. /\ \A k \in DOMAIN up' : \E l \in DOMAIN up : up'[k] = up[l]
      /\ \A k \in DOMAIN jobs' : \E l \in DOMAIN jobs : jobs'[k] = jobs[l]
      /\ \A k \in DOMAIN down' : \E l \in DOMAIN down : down'[k] = down[l]
      /\ Numbers(up') \subseteq Numbers(up) /\ Numbers(jobs') \subseteq Numbers(jobs)
      /\ Numbers(down') \subseteq Numbers(down)
      /\ Distinct(up) => Distinct(up')
      /\ Distinct(jobs) => Distinct(jobs')
      /\ Distinct(down) => Distinct(down')
  BY <1>1, Parts
<1>3. UNCHANGED <<next, rows, shown>> /\ next \in Nat
  BY DEF Loses, Said, PageTypeOK
<1>4. PageTypeOK'
  BY <1>1, <1>2, <1>3 DEF Said, PageTypeOK, Known
<1>5. Ahead' \subseteq Ahead /\ Pending' \subseteq Pending
  BY <1>2 DEF Ahead, Pending, Numbers
<1>6. UnderWayOnce'
  BY <1>2, <1>5 DEF Said, UnderWayOnce, Ahead, Distinct, Numbers
<1>7. NothingEarly'
  BY <1>2, <1>3, <1>5 DEF Said, NothingEarly, Tells, Faithful
<1>8. StoredByTurn'
  <2>1. CASE UNCHANGED <<jobs, turn>>
    BY <1>2, <1>3, <2>1 DEF Said, StoredByTurn, Numbers
  <2>2. CASE jobs' = <<>>
    BY <1>2, <1>3, <2>2 DEF Said, StoredByTurn, Numbers
  <2>3. QED
    BY <2>1, <2>2 DEF Loses
<1>9. QED
  BY <1>4, <1>6, <1>7, <1>8 DEF Said

LEMMA SaidAndWired == PageInv <=> Said /\ Wires /\ GreetedOnce
  BY DEF PageInv, Said

LEMMA ConnectsStep ==
  ASSUME PageInv, NEW shows, Connects(shows) PROVE PageInv'
<1>1. /\ UNCHANGED <<access, next, rows, shown, jobs, turn>> /\ up' = <<>> /\ down' = <<>>
      /\ socket' = "connecting" /\ ready' = FALSE
      /\ number' = CHOOSE n \in 1 .. Len(jobs) + 1 : \A j \in DOMAIN jobs : jobs[j].socket # n
  BY DEF Connects, dialogue
<1>2. jobs \in Seq(Works) /\ Len(jobs) \in Nat
  BY LenProperties DEF PageInv, PageTypeOK
<1>3. number' \in 1 .. Len(jobs) + 1 /\ \A j \in DOMAIN jobs : jobs[j].socket # number'
  BY <1>1, <1>2, FreeNumber
<1>4. Said'
  BY <1>1, <1>2, <1>3, LosesSaid, SaidAndWired DEF Loses
<1>5. Wires' /\ GreetedOnce'
  BY <1>1, <1>3 DEF Wires, GreetedOnce, Mine, PageInv
<1>6. QED
  BY <1>4, <1>5 DEF PageInv, Said

LEMMA OpensStep ==
  ASSUME PageInv, Opens PROVE PageInv'
<1>1. /\ UNCHANGED <<access, ready, number, next, rows, shown, jobs, turn>>
      /\ socket = "connecting" /\ socket' = "open" /\ up' = <<Frame("init", 0)>>
      /\ down' = IF access = "origin" THEN <<Frame("error", 0), Frame("refused", 0)>>
                 ELSE <<>>
  BY DEF Opens, dialogue, server
<1>2. /\ Frame("init", 0) \in UpFrames /\ Frame("init", 0).n = 0
      /\ \A kind \in {"error", "refused"} :
           /\ Frame(kind, 0) \in Notices /\ Frame(kind, 0) \in DownFrames
           /\ Frame(kind, 0).n = 0 /\ Frame(kind, 0).kind = kind
  BY DEF Frame, UpFrames, Notices, DownFrames
<1>3. up = <<>> /\ down = <<>> /\ ~ready /\ \A j \in DOMAIN jobs : ~Mine(j)
  BY <1>1 DEF PageInv, Wires
<1>4. /\ up' \in Seq(UpFrames) /\ DOMAIN up' = {1} /\ up'[1].n = 0
  BY <1>1, <1>2
<1>5. /\ down' \in Seq(DownFrames)
      /\ \A k \in DOMAIN down' :
           access = "origin" /\ down'[k].n = 0 /\ down'[k].kind \in {"error", "refused"}
      /\ access # "origin" => down' = <<>>
  <2>1. CASE access = "origin"
    <3>1. /\ down' = <<Frame("error", 0), Frame("refused", 0)>>
          /\ DOMAIN down' = 1 .. 2
          /\ down'[1] = Frame("error", 0) /\ down'[2] = Frame("refused", 0)
      BY <1>1, <2>1
    <3>2. QED
      BY <1>2, <2>1, <3>1
  <2>2. CASE access # "origin"
    BY <1>1, <2>2
  <2>3. QED
    BY <2>1, <2>2
<1>6. /\ Numbers(up) = {} /\ Numbers(up') = {} /\ Numbers(down) = {} /\ Numbers(down') = {}
      /\ Numbers(jobs') = Numbers(jobs) /\ Ahead' = Ahead /\ Pending' = Pending
      /\ Distinct(up') /\ Distinct(down')
  BY <1>1, <1>3, <1>4, <1>5 DEF Numbers, Ahead, Pending, Distinct
<1>7. PageTypeOK'
  <2>1. next \in Nat /\ \A k \in DOMAIN down' : down'[k].n <= next /\ down'[k].kind # "ready"
    <3>1. next \in Nat /\ 0 <= next
      BY DEF PageInv, PageTypeOK
    <3>2. QED
      BY <1>5, <3>1
  <2>2. \A k \in DOMAIN up' : up'[k].n <= next
    BY <1>4, <2>1
  <2>3. QED
    BY <1>1, <1>4, <1>5, <2>1, <2>2 DEF PageInv, PageTypeOK, Known
<1>8. UnderWayOnce'
  BY <1>1, <1>6 DEF PageInv, UnderWayOnce
<1>9. NothingEarly'
  BY <1>1, <1>5, <1>6 DEF PageInv, NothingEarly
<1>10. StoredByTurn'
  BY <1>1, <1>6 DEF PageInv, StoredByTurn
<1>11. Wires'
  BY <1>1, <1>5 DEF PageInv, Wires
<1>12. GreetedOnce'
  BY <1>1, <1>3, <1>4, <1>5 DEF GreetedOnce, Mine
<1>13. QED
  BY <1>7, <1>8, <1>9, <1>10, <1>11, <1>12 DEF PageInv

(* The connection comes to an end, or nothing of the above changes.        *)
LEMMA ClosesStep ==
  ASSUME PageInv, Loses, UNCHANGED <<number, ready>>,
         access' = access \/ (access # "origin" /\ access' # "origin"),
         \/ socket' = "none" /\ up' = <<>> /\ down' = <<>>
         \/ socket' = "closing" /\ socket \in {"connecting", "open"}
         \/ UNCHANGED <<socket, up, down>>
  PROVE  PageInv'
<1>1. number' \in Nat
  BY DEF PageInv, PageTypeOK
<1>2. Said'
  BY <1>1, LosesSaid, SaidAndWired
<1>3. UNCHANGED jobs \/ jobs' = <<>>
  BY DEF Loses
<1>4. Wires'
  <2>1. up' \in {up, <<>>} /\ down' \in {down, <<>>}
    BY DEF Loses
  <2>2. QED
    BY <1>3, <2>1 DEF PageInv, Wires, Mine
<1>5. GreetedOnce'
  <2>1. SUFFICES ASSUME socket' = "open", access' # "origin"
                 PROVE  GreetedOnce'
    BY DEF GreetedOnce
  <2>2. UNCHANGED <<socket, up, down, number, ready>> /\ socket = "open" /\ access # "origin"
    BY <2>1
  <2>3. QED
    BY <1>3, <2>1, <2>2 DEF PageInv, GreetedOnce, Mine
<1>6. QED
  BY <1>2, <1>4, <1>5 DEF PageInv, Said

LEMMA QuietSteps ==
  ASSUME PageInv,
         \/ RetryTimer \/ RetryButton \/ Opens \/ Refused \/ CloseEvent \/ Drops
         \/ Rejected \/ HandshakeTimer \/ Unmount \/ Expires \/ Restarts
         \/ UNCHANGED vars
  PROVE  PageInv'
<1>1. CASE RetryTimer \/ RetryButton
  BY <1>1, ConnectsStep DEF RetryTimer, RetryButton
<1>2. CASE Opens
  BY <1>2, OpensStep
<1>3. CASE Refused \/ CloseEvent \/ Drops \/ Rejected
  <2>1. /\ UNCHANGED <<access, number, ready, shown, next, jobs, turn, rows>>
        /\ socket' = "none" /\ up' = <<>> /\ down' = <<>>
    BY <1>3 DEF Refused, CloseEvent, Drops, Rejected, Closed, server
  <2>2. QED
    BY <2>1, ClosesStep DEF Loses
<1>4. CASE Unmount
  <2>1. /\ UNCHANGED <<access, number, ready, shown, next, jobs, turn, rows>>
        /\ socket' = "none" /\ up' = <<>> /\ down' = <<>>
    BY <1>4 DEF Unmount, server
  <2>2. QED
    BY <2>1, ClosesStep DEF Loses
<1>5. CASE HandshakeTimer
  <2>1. /\ UNCHANGED <<access, number, ready, shown, next, jobs, turn, rows, up, down>>
        /\ socket' = "closing" /\ socket \in {"connecting", "open"}
    BY <1>5 DEF HandshakeTimer, Unanswered, server, dialogue
  <2>2. QED
    BY <2>1, ClosesStep DEF Loses
<1>6. CASE Expires \/ UNCHANGED vars
  <2>1. /\ UNCHANGED <<number, ready, shown, next, jobs, turn, rows, up, down, socket>>
        /\ access' = access \/ (access # "origin" /\ access' # "origin")
    BY <1>6 DEF Expires, vars, page, server, dialogue
  <2>2. QED
    BY <2>1, ClosesStep DEF Loses
<1>7. CASE Restarts
  <2>1. /\ UNCHANGED <<access, number, ready, shown, next, rows>> /\ jobs' = <<>> /\ turn' = 0
        /\ \/ socket' = "none" /\ up' = <<>> /\ down' = <<>>
           \/ UNCHANGED <<socket, up, down>>
    BY <1>7 DEF Restarts
  <2>2. QED
    BY <2>1, ClosesStep DEF Loses
<1>8. QED
  BY <1>1, <1>2, <1>3, <1>4, <1>5, <1>6, <1>7

(* The widget takes a frame: what it shows is changed by show.             *)
LEMMA TakesFrame ==
  ASSUME PageInv, socket = "open", down # <<>>, down' = Tail(down)
  PROVE  /\ Head(down) = down[1] /\ 1 \in DOMAIN down /\ Head(down) \in DownFrames
         /\ down' \in Seq(DownFrames) /\ Distinct(down')
         /\ Numbers(down') \subseteq Numbers(down) /\ Head(down).n \notin Numbers(down')
         /\ \A k \in DOMAIN down' : k + 1 \in DOMAIN down /\ down'[k] = down[k + 1]
<1>1. down \in Seq(DownFrames) /\ Distinct(down)
  BY DEF PageInv, PageTypeOK, UnderWayOnce
<1>2. /\ down' \in Seq(DownFrames) /\ Without(down', down, 1) /\ 1 \in DOMAIN down
      /\ Head(down) = down[1] /\ Head(down) \in DownFrames
  BY <1>1, TailIsLess
<1>3. Part(down', down) /\ down[1].n \notin Numbers(down')
  BY <1>1, <1>2, Less
<1>4. Distinct(down') /\ Numbers(down') \subseteq Numbers(down)
  BY <1>1, <1>2, <1>3, Parts
<1>5. /\ DOMAIN down = 1 .. Len(down) /\ DOMAIN down' = 1 .. Len(down') /\ Len(down) \in Nat
      /\ Len(down') \in Nat
  BY <1>1, <1>2, LenProperties
<1>6. \A k \in DOMAIN down' : k + 1 \in DOMAIN down /\ down'[k] = down[k + 1]
  BY <1>2, <1>5 DEF Without
<1>7. QED
  BY <1>2, <1>3, <1>4, <1>6

LEMMA TakenShown ==
  ASSUME PageInv, socket = "open", down # <<>>, down' = Tail(down),
         UNCHANGED <<access, socket, number, next, up, jobs, turn, rows>>,
         shown' \in Seq(Entries), Known(shown'), Tells(shown', Pending'),
         ready' = ready \/ (Head(down).n = 0 /\ Head(down).kind = "ready")
  PROVE  PageInv'
<1>1. /\ Head(down) = down[1] /\ 1 \in DOMAIN down /\ Head(down) \in DownFrames
      /\ down' \in Seq(DownFrames) /\ Distinct(down')
      /\ Numbers(down') \subseteq Numbers(down) /\ Head(down).n \notin Numbers(down')
      /\ \A k \in DOMAIN down' : k + 1 \in DOMAIN down /\ down'[k] = down[k + 1]
  BY TakesFrame
<1>2. down \in Seq(DownFrames)
  BY DEF PageInv, PageTypeOK
<1>3. /\ Numbers(up') = Numbers(up) /\ Numbers(jobs') = Numbers(jobs) /\ Ahead' = Ahead
      /\ Pending' \subseteq Pending
  BY <1>1 DEF Ahead, Pending, Numbers
<1>4. PageTypeOK'
  BY <1>1 DEF PageInv, PageTypeOK, Known
<1>5. UnderWayOnce'
  BY <1>1, <1>3 DEF PageInv, UnderWayOnce, Distinct
<1>6. NothingEarly'
  <2>1. \A k \in DOMAIN down' : down'[k].kind = "ready" => Tells(down'[k].history, Pending')
    BY <1>1, <1>3, TellsLess DEF PageInv, NothingEarly
  <2>2. Tells(rows', Ahead')
    BY <1>3 DEF PageInv, NothingEarly
  <2>3. QED
    BY <2>1, <2>2 DEF NothingEarly
<1>7. StoredByTurn'
  BY <1>3 DEF PageInv, StoredByTurn
<1>8. Wires'
  BY <1>1 DEF PageInv, Wires, Mine
<1>9. GreetedOnce'
  <2>1. SUFFICES ASSUME access # "origin" PROVE GreetedOnce'
    BY DEF GreetedOnce
  <2>2. /\ \A k \in DOMAIN up : up[k].n # 0
        /\ \A j \in DOMAIN jobs : Mine(j) => jobs[j].n # 0
    BY <1>1, <2>1 DEF PageInv, GreetedOnce
  <2>3. \A k \in DOMAIN down' : down'[k].n # 0
    <3>1. SUFFICES ASSUME NEW k \in DOMAIN down', down'[k].n = 0 PROVE FALSE
      OBVIOUS
    <3>2. k + 1 \in DOMAIN down /\ down[k + 1].n = 0
      BY <1>1, <3>1
    <3>3. k + 1 = 1
      BY <2>1, <3>2 DEF PageInv, GreetedOnce
    <3>4. k \in 1 .. Len(down')
      BY <1>1, LenProperties
    <3>5. QED
      BY <3>3, <3>4
  <2>4. QED
    BY <2>2, <2>3 DEF GreetedOnce, Mine
<1>10. QED
  BY <1>4, <1>5, <1>6, <1>7, <1>8, <1>9 DEF PageInv

(* An answer is shown once, after its message.                             *)
LEMMA AnswerShown ==
  ASSUME PageInv, socket = "open", down # <<>>, down' = Tail(down),
         UNCHANGED <<next, up, jobs>>, Head(down).n # 0,
         NEW by \in {"reply", "error"}, shown' = Append(shown, Entry(by, Head(down).n))
  PROVE  shown' \in Seq(Entries) /\ Known(shown') /\ Tells(shown', Pending')
<1>1. /\ Head(down) = down[1] /\ 1 \in DOMAIN down /\ Head(down) \in DownFrames
      /\ Numbers(down') \subseteq Numbers(down) /\ Head(down).n \notin Numbers(down')
  BY TakesFrame
<1> DEFINE e == Entry(by, Head(down).n)
<1>2. Head(down).n \in Nat /\ Head(down).n <= next /\ next \in Nat /\ shown \in Seq(Entries)
      /\ Known(shown)
  BY <1>1 DEF PageInv, PageTypeOK, Known, DownFrames, Replies, Notices, Readies
<1>3. e \in Entries /\ e.n = Head(down).n /\ e.by = by
  BY <1>2 DEF Entry, Entries
<1>4. e.n \in Numbers(down) /\ e.n \notin Ahead
  BY <1>1, <1>3 DEF Numbers, PageInv, UnderWayOnce
<1>5. Ahead' = Ahead /\ Pending' \cup {e.n} \subseteq Pending /\ e.n \notin Pending'
  BY <1>1, <1>3, <1>4 DEF Ahead, Pending, Numbers
<1>6. Tells(shown, Pending' \cup {e.n})
  BY <1>5, TellsLess DEF PageInv, NothingEarly
<1>7. Tells(shown', Pending')
  BY <1>2, <1>3, <1>5, <1>6, TellsMore
<1>8. shown' \in Seq(Entries) /\ Known(shown')
  <2>1. /\ shown' \in Seq(Entries) /\ Len(shown) \in Nat /\ DOMAIN shown = 1 .. Len(shown)
        /\ DOMAIN shown' = 1 .. Len(shown) + 1
        /\ \A k \in 1 .. Len(shown) : shown'[k] = shown[k]
        /\ shown'[Len(shown) + 1] = e
    BY <1>2, <1>3, More
  <2>2. QED
    BY <1>2, <1>3, <2>1 DEF Known
<1>9. QED
  BY <1>7, <1>8

LEMMA GetsStep ==
  ASSUME PageInv, GetsReady \/ GetsReply \/ GetsError PROVE PageInv'
<1>1. /\ UNCHANGED <<access, socket, number, next, up, jobs, turn, rows>>
      /\ socket = "open" /\ down # <<>> /\ down' = Tail(down)
  BY DEF GetsReady, GetsReply, GetsError, Takes, page, server
<1>2. /\ Head(down) = down[1] /\ 1 \in DOMAIN down /\ Head(down) \in DownFrames
      /\ Numbers(down') \subseteq Numbers(down)
  BY <1>1, TakesFrame
<1>3. Ahead' = Ahead /\ Pending' \subseteq Pending
  BY <1>1, <1>2 DEF Ahead, Pending, Numbers
<1>4. shown \in Seq(Entries) /\ Known(shown) /\ Tells(shown, Pending')
  BY <1>3, TellsLess DEF PageInv, PageTypeOK, NothingEarly
<1>5. CASE GetsReady
  <2>1. Head(down).kind = "ready" /\ shown' = WithHistory(Head(down).history)
    BY <1>5 DEF GetsReady, Takes
  <2>2. Head(down).n = 0 /\ Head(down).history \in Seq(Entries)
    BY <1>2, <2>1 DEF DownFrames, Replies, Notices, Readies
  <2>3. Known(Head(down).history) /\ Tells(Head(down).history, Pending')
    BY <1>2, <1>3, <2>1, TellsLess DEF PageInv, PageTypeOK, NothingEarly
  <2>4. shown' \in Seq(Entries) /\ Known(shown') /\ Tells(shown', Pending')
    BY <1>1, <1>4, <2>1, <2>2, <2>3 DEF WithHistory, Known
  <2>5. QED
    BY <1>1, <2>1, <2>2, <2>4, TakenShown
<1>6. CASE GetsReply
  <2>1. /\ Head(down).kind \in {"message", "confirmation"} /\ ready' = ready
        /\ shown' = Append(shown, Entry("reply", Head(down).n))
    BY <1>6 DEF GetsReply, Takes, page
  <2>2. Head(down).n # 0
    BY <1>2, <2>1 DEF DownFrames, Replies, Notices, Readies
  <2>3. shown' \in Seq(Entries) /\ Known(shown') /\ Tells(shown', Pending')
    BY <1>1, <2>1, <2>2, AnswerShown
  <2>4. QED
    BY <1>1, <2>1, <2>3, TakenShown
<1>7. CASE GetsError
  <2>1. /\ ready' = ready
        /\ shown' = IF ready THEN Append(shown, Entry("error", Head(down).n)) ELSE shown
    BY <1>7 DEF GetsError, page
  <2>2. ready => Head(down).n # 0
    BY <1>1, <1>2 DEF PageInv, Wires, GreetedOnce
  <2>3. shown' \in Seq(Entries) /\ Known(shown') /\ Tells(shown', Pending')
    <3>1. CASE ready
      BY <1>1, <2>1, <2>2, <3>1, AnswerShown
    <3>2. CASE ~ready
      BY <1>1, <1>4, <2>1, <3>2 DEF Known
    <3>3. QED
      BY <3>1, <3>2
  <2>4. QED
    BY <1>1, <2>1, <2>3, TakenShown
<1>8. QED
  BY <1>5, <1>6, <1>7

LEMMA Element == ASSUME NEW S, NEW s \in Seq(S), NEW k \in DOMAIN s PROVE s[k] \in S
  BY LenProperties

LEMMA Numbered ==
  ASSUME PageTypeOK
  PROVE  /\ \A k \in DOMAIN up : up[k].n \in Nat
         /\ \A k \in DOMAIN down : down[k].n \in Nat
         /\ \A k \in DOMAIN jobs : jobs[k].n \in Nat
         /\ \A k \in DOMAIN rows : rows[k].n \in Nat
         /\ \A k \in DOMAIN shown : shown[k].n \in Nat
         /\ \A k \in DOMAIN down : down[k].kind = "ready" =>
              /\ down[k].history \in Seq(Entries)
              /\ \A l \in DOMAIN down[k].history : down[k].history[l].n \in Nat
<1>1. \A f \in UpFrames \cup Works \cup Entries : f.n \in Nat
  BY DEF UpFrames, Works, Entries
<1>2. \A f \in DownFrames : f.n \in Nat /\ (f.kind = "ready" => f.history \in Seq(Entries))
  BY DEF DownFrames, Replies, Notices, Readies
<1>3. /\ \A k \in DOMAIN up : up[k] \in UpFrames
      /\ \A k \in DOMAIN down : down[k] \in DownFrames
      /\ \A k \in DOMAIN jobs : jobs[k] \in Works
      /\ \A k \in DOMAIN rows : rows[k] \in Entries
      /\ \A k \in DOMAIN shown : shown[k] \in Entries
  BY Element DEF PageTypeOK
<1>4. ASSUME NEW k \in DOMAIN down, down[k].kind = "ready"
      PROVE  /\ down[k].history \in Seq(Entries)
             /\ \A l \in DOMAIN down[k].history : down[k].history[l].n \in Nat
  <2>1. down[k].history \in Seq(Entries)
    BY <1>2, <1>3, <1>4
  <2>2. \A l \in DOMAIN down[k].history : down[k].history[l] \in Entries
    BY <2>1, Element
  <2>3. QED
    BY <1>1, <2>1, <2>2
<1>5. QED
  BY <1>1, <1>2, <1>3, <1>4

LEMMA SendStep ==
  ASSUME PageInv, Send PROVE PageInv'
<1> DEFINE f == Frame("message", next')
           e == Entry("user", next')
<1>1. /\ UNCHANGED <<access, socket, number, ready, down, jobs, turn, rows>>
      /\ socket = "open" /\ next' = next + 1 /\ shown' = Append(shown, e)
      /\ up' = Append(up, f)
  BY DEF Send, page, server
<1>2. /\ next \in Nat /\ up \in Seq(UpFrames) /\ shown \in Seq(Entries)
      /\ down \in Seq(DownFrames) /\ jobs \in Seq(Works) /\ rows \in Seq(Entries)
  BY DEF PageInv, PageTypeOK
<1>3. /\ next' \in Nat /\ next' # 0 /\ f \in UpFrames /\ f.n = next' /\ e \in Entries
      /\ e.n = next' /\ e.by = "user"
  BY <1>1, <1>2 DEF Frame, Entry, UpFrames, Entries
<1>4. /\ up' \in Seq(UpFrames) /\ Len(up) \in Nat /\ DOMAIN up = 1 .. Len(up)
      /\ DOMAIN up' = 1 .. Len(up) + 1 /\ \A k \in 1 .. Len(up) : up'[k] = up[k]
      /\ up'[Len(up) + 1] = f /\ Numbers(up') = Numbers(up) \cup ({f.n} \ {0})
      /\ Distinct(up) /\ f.n \notin Numbers(up) => Distinct(up')
  BY <1>1, <1>2, <1>3, More
<1>5. /\ shown' \in Seq(Entries) /\ Len(shown) \in Nat /\ DOMAIN shown = 1 .. Len(shown)
      /\ DOMAIN shown' = 1 .. Len(shown) + 1
      /\ \A k \in 1 .. Len(shown) : shown'[k] = shown[k]
      /\ shown'[Len(shown) + 1] = e
  BY <1>1, <1>2, <1>3, More
<1> HIDE DEF f, e
<1>6. \A s : Known(s) /\ (\A k \in DOMAIN s : s[k].n \in Nat) =>
        (\A k \in DOMAIN s : s[k].n <= next' /\ s[k].n # next') /\ next' \notin Numbers(s)
  BY <1>1, <1>2 DEF Known, Numbers
<1>7. /\ Known(up) /\ Known(down) /\ Known(jobs) /\ Known(rows) /\ Known(shown)
      /\ \A k \in DOMAIN up : up[k].n \in Nat
      /\ \A k \in DOMAIN down : down[k].n \in Nat
      /\ \A k \in DOMAIN jobs : jobs[k].n \in Nat
      /\ \A k \in DOMAIN rows : rows[k].n \in Nat
      /\ \A k \in DOMAIN shown : shown[k].n \in Nat
  BY Numbered DEF PageInv, PageTypeOK
<1>8. ASSUME NEW k \in DOMAIN down, down[k].kind = "ready"
      PROVE  /\ Known(down[k].history) /\ Tells(down[k].history, Pending)
             /\ \A l \in DOMAIN down[k].history :
                  down[k].history[l].n \in Nat /\ down[k].history[l].n <= next'
                  /\ down[k].history[l].n # next'
  <2>1. Known(down[k].history) /\ Tells(down[k].history, Pending)
    BY <1>8 DEF PageInv, PageTypeOK, NothingEarly
  <2>2. \A l \in DOMAIN down[k].history : down[k].history[l].n \in Nat
    BY <1>8, Numbered DEF PageInv
  <2>3. QED
    BY <1>6, <2>1, <2>2
<1>9. PageTypeOK'
  <2>1. Known(up)' /\ Known(shown)'
    BY <1>3, <1>4, <1>5, <1>6, <1>7, <1>2, <1>1 DEF Known
  <2>2. Known(down)' /\ Known(jobs)' /\ Known(rows)'
    BY <1>1, <1>6, <1>7 DEF Known
  <2>3. \A k \in DOMAIN down' : down'[k].kind = "ready" => Known(down[k].history)'
    BY <1>1, <1>8 DEF Known
  <2>4. QED
    BY <1>1, <1>2, <1>3, <1>4, <1>5, <2>1, <2>2, <2>3 DEF PageInv, PageTypeOK
<1>10. /\ Numbers(up') = Numbers(up) \cup {next'} /\ Ahead' = Ahead \cup {next'}
       /\ Pending' = Pending \cup {next'} /\ next' \notin Pending
  BY <1>1, <1>3, <1>4, <1>6, <1>7 DEF Ahead, Pending
<1>11. UnderWayOnce'
  BY <1>1, <1>3, <1>4, <1>10 DEF PageInv, UnderWayOnce, Pending, Ahead
<1>12. NothingEarly'
  <2>1. \A s, ns : Tells(s, ns) /\ (\A k \in DOMAIN s : s[k].n # next') =>
          Tells(s, ns \cup {next'})
    BY DEF Tells
  <2>2. Tells(rows', Ahead')
    BY <1>1, <1>6, <1>7, <1>10, <2>1 DEF PageInv, NothingEarly
  <2>3. Tells(shown, Pending' \cup {e.n})
    <3>1. Pending' \cup {e.n} = Pending \cup {next'}
      BY <1>3, <1>10
    <3>2. QED
      BY <1>6, <1>7, <2>1, <3>1 DEF PageInv, NothingEarly
  <2>4. Tells(shown', Pending')
    BY <1>1, <1>2, <1>3, <1>6, <1>7, <2>3, TellsMore
  <2>5. \A k \in DOMAIN down' : down'[k].kind = "ready" => Tells(down'[k].history, Pending')
    BY <1>1, <1>8, <1>10, <2>1
  <2>6. QED
    BY <2>2, <2>4, <2>5 DEF NothingEarly
<1>13. StoredByTurn'
  BY <1>1, <1>6, <1>7, <1>10 DEF PageInv, StoredByTurn
<1>14. Wires'
  BY <1>1 DEF PageInv, Wires, Mine
<1>15. GreetedOnce'
  <2>1. \A k \in DOMAIN up' : up'[k].n = 0 => k \in DOMAIN up /\ up[k].n = 0
    BY <1>3, <1>4
  <2>2. \A k \in DOMAIN up' : k \in DOMAIN up \/ up'[k].n # 0
    BY <2>1
  <2>3. (\A k \in DOMAIN up : up[k].n # 0) => \A k \in DOMAIN up' : up'[k].n # 0
    BY <2>1
  <2>4. QED
    BY <1>1, <2>1, <2>3 DEF PageInv, GreetedOnce, Mine
<1>16. QED
  BY <1>9, <1>11, <1>12, <1>13, <1>14, <1>15 DEF PageInv

LEMMA ArrivesStep ==
  ASSUME PageInv, Arrives PROVE PageInv'
<1> DEFINE w == [socket |-> number, n |-> Head(up).n]
<1>1. /\ UNCHANGED <<access, socket, number, ready, next, shown, down, turn, rows>>
      /\ socket \in {"open", "closing"} /\ access # "origin" /\ up # <<>> /\ up' = Tail(up)
      /\ jobs' = Append(jobs, w)
  BY DEF Arrives, page, dialogue
<1>2. /\ next \in Nat /\ number \in Nat /\ up \in Seq(UpFrames) /\ jobs \in Seq(Works)
      /\ Known(up) /\ Known(jobs) /\ Distinct(up) /\ Distinct(jobs)
  BY DEF PageInv, PageTypeOK, UnderWayOnce
<1>3. /\ up' \in Seq(UpFrames) /\ Without(up', up, 1) /\ 1 \in DOMAIN up
      /\ Head(up) = up[1] /\ Head(up) \in UpFrames
  BY <1>1, <1>2, TailIsLess
<1>4. /\ Part(up', up) /\ Numbers(up) \subseteq Numbers(up') \cup {up[1].n}
      /\ up[1].n \notin Numbers(up')
  BY <1>2, <1>3, Less
<1>5. /\ Numbers(up') \subseteq Numbers(up) /\ Distinct(up')
      /\ \A k \in DOMAIN up' : \E l \in DOMAIN up : up'[k] = up[l]
  BY <1>2, <1>3, <1>4, Parts
<1>6. w \in Works /\ w.n = up[1].n /\ w.socket = number /\ w.n \in Nat /\ w.n <= next
  BY <1>2, <1>3 DEF Works, UpFrames, Known
<1>7. w.n # 0 => w.n \in Numbers(up) /\ w.n \notin Numbers(jobs)
  BY <1>3, <1>6 DEF Numbers, PageInv, UnderWayOnce
<1>8. w.n \notin Numbers(jobs)
  BY <1>7 DEF Numbers
<1>9. /\ jobs' \in Seq(Works) /\ Len(jobs) \in Nat /\ DOMAIN jobs = 1 .. Len(jobs)
      /\ DOMAIN jobs' = 1 .. Len(jobs) + 1 /\ \A k \in 1 .. Len(jobs) : jobs'[k] = jobs[k]
      /\ jobs'[Len(jobs) + 1] = w /\ Numbers(jobs') = Numbers(jobs) \cup ({w.n} \ {0})
      /\ Distinct(jobs) /\ w.n \notin Numbers(jobs) => Distinct(jobs')
  BY <1>1, <1>2, <1>6, More
<1> HIDE DEF w
<1>10. PageTypeOK'
  <2>1. Known(up)'
    BY <1>1, <1>2, <1>5 DEF Known
  <2>2. Known(jobs)'
    BY <1>1, <1>2, <1>6, <1>9 DEF Known
  <2>3. /\ Known(down)' /\ Known(rows)' /\ Known(shown)'
        /\ \A k \in DOMAIN down' : down'[k].kind = "ready" => Known(down[k].history)'
    BY <1>1 DEF PageInv, PageTypeOK, Known
  <2>4. QED
    BY <1>1, <1>3, <1>9, <2>1, <2>2, <2>3 DEF PageInv, PageTypeOK
<1>11. Ahead' = Ahead /\ Pending' = Pending
  <2>1. Numbers(up) = Numbers(up') \cup ({w.n} \ {0})
    BY <1>4, <1>5, <1>6, <1>7 DEF Numbers
  <2>2. Numbers(down)' = Numbers(down)
    BY <1>1 DEF Numbers
  <2>3. Ahead' = Numbers(up') \cup Numbers(jobs')
    BY DEF Ahead, Numbers
  <2>4. Ahead' = Ahead
    BY <1>9, <2>1, <2>3 DEF Ahead
  <2>5. QED
    BY <2>2, <2>4 DEF Pending
<1>12. UnderWayOnce'
  <2>1. Numbers(up') \cap Numbers(jobs') = {}
    BY <1>4, <1>5, <1>6, <1>9 DEF PageInv, UnderWayOnce
  <2>2. QED
    BY <1>1, <1>2, <1>5, <1>8, <1>9, <1>11, <2>1 DEF PageInv, UnderWayOnce
<1>13. NothingEarly'
  BY <1>1, <1>11 DEF PageInv, NothingEarly
<1>14. StoredByTurn'
  BY <1>1, <1>5, <1>7, <1>9 DEF PageInv, StoredByTurn
<1>15. Wires'
  BY <1>1 DEF PageInv, Wires, Mine
<1>16. GreetedOnce'
  <2>1. SUFFICES ASSUME socket = "open" PROVE GreetedOnce'
    BY <1>1 DEF GreetedOnce
  <2>2. \A k \in DOMAIN up' : up'[k].n # 0
    <3>1. SUFFICES ASSUME NEW k \in DOMAIN up', up'[k].n = 0 PROVE FALSE
      OBVIOUS
    <3>2. k \in 1 .. Len(up') /\ up'[k] = up[k + 1] /\ k + 1 \in DOMAIN up /\ k \in Nat /\ k # 0
      BY <1>2, <1>3, <3>1, LenProperties DEF Without
    <3>3. k + 1 = 1
      BY <1>1, <2>1, <3>1, <3>2 DEF PageInv, GreetedOnce
    <3>4. QED
      BY <3>2, <3>3
  <2>3. CASE w.n = 0
    <3>1. down = <<>> /\ ~ready /\ \A j \in DOMAIN jobs : ~Mine(j)
      BY <1>1, <1>3, <1>6, <2>1, <2>3 DEF PageInv, GreetedOnce
    <3>2. \A j \in DOMAIN jobs' : Mine(j)' => j = Len(jobs) + 1
      BY <1>1, <1>9, <3>1 DEF Mine
    <3>3. QED
      BY <1>1, <1>9, <2>2, <3>1, <3>2 DEF GreetedOnce
  <2>4. CASE w.n # 0
    <3>1. \A j \in DOMAIN jobs' : jobs'[j].n = 0 => j \in DOMAIN jobs /\ jobs'[j] = jobs[j]
      BY <1>9, <2>4
    <3>2. ASSUME NEW j \in DOMAIN jobs', Mine(j)', jobs'[j].n = 0
          PROVE  down = <<>> /\ ~ready /\ \A i \in DOMAIN jobs' : Mine(i)' => j <= i
      <4>1. j \in DOMAIN jobs /\ Mine(j) /\ jobs[j].n = 0
        BY <1>1, <3>1, <3>2 DEF Mine
      <4>2. down = <<>> /\ ~ready /\ \A i \in DOMAIN jobs : Mine(i) => j <= i
        BY <1>1, <2>1, <4>1 DEF PageInv, GreetedOnce
      <4>3. \A i \in DOMAIN jobs' : Mine(i)' => j <= i
        BY <1>1, <1>9, <4>1, <4>2 DEF Mine
      <4>4. QED
        BY <4>2, <4>3
    <3>3. ASSUME NEW k \in DOMAIN down, down[k].n = 0
          PROVE  k = 1 /\ ~ready /\ \A j \in DOMAIN jobs' : Mine(j)' => jobs'[j].n # 0
      <4>1. k = 1 /\ ~ready /\ \A j \in DOMAIN jobs : Mine(j) => jobs[j].n # 0
        BY <1>1, <2>1, <3>3 DEF PageInv, GreetedOnce
      <4>2. QED
        BY <1>1, <3>1, <4>1 DEF Mine
    <3>4. QED
      BY <1>1, <2>2, <3>2, <3>3 DEF GreetedOnce
  <2>5. QED
    BY <2>3, <2>4
<1>17. QED
  BY <1>10, <1>12, <1>13, <1>14, <1>15, <1>16 DEF PageInv

(* A job is done with and answered: its frame f goes to the widget if the   *)
(* socket is still the widget's.                                           *)
LEMMA DoneStep ==
  ASSUME PageInv, NEW j \in DOMAIN jobs, NEW f \in DownFrames, f.n = jobs[j].n,
         First(j), Done(j), Told(j, f),
         f.kind = "ready" => jobs[j].n = 0 /\ Known(f.history) /\ Tells(f.history, Ahead),
         UNCHANGED <<access, socket, number, ready, next, up, shown>>,
         turn' = turn \/ (turn' = 0 /\ turn \in {0, jobs[j].n}),
         \/ rows' = rows
         \/ /\ rows' = Append(rows, Entry("reply", jobs[j].n)) /\ jobs[j].n # 0
  PROVE  PageInv'
<1> DEFINE m == jobs[j].n
<1>1. /\ next \in Nat /\ up \in Seq(UpFrames) /\ jobs \in Seq(Works) /\ down \in Seq(DownFrames)
      /\ rows \in Seq(Entries) /\ Known(jobs) /\ Known(down) /\ Known(rows)
      /\ Distinct(jobs) /\ Distinct(down)
  BY DEF PageInv, PageTypeOK, UnderWayOnce
<1>2. m \in Nat /\ m <= next
  BY <1>1, Numbered DEF PageInv, Known
<1>3. jobs' \in Seq(Works) /\ Without(jobs', jobs, j)
  BY <1>1, RemovedIsLess DEF Done
<1>4. Part(jobs', jobs) /\ m \notin Numbers(jobs')
  BY <1>1, <1>3, Less
<1>5. /\ Numbers(jobs') \subseteq Numbers(jobs) /\ Distinct(jobs')
      /\ \A k \in DOMAIN jobs' : \E l \in DOMAIN jobs : jobs'[k] = jobs[l]
  BY <1>1, <1>3, <1>4, Parts
<1>6. /\ down' = IF Connected(j) THEN Append(down, f) ELSE down
      /\ Connected(j) => socket = "open" /\ Mine(j)
  BY DEF Told, Connected, Mine
<1>7. jobs # <<>> /\ access # "origin"
  <2>1. jobs # <<>>
    BY <1>1
  <2>2. QED
    BY <2>1 DEF PageInv, Wires
<1>8. m # 0 => m \in Numbers(jobs) /\ m \notin Numbers(up) /\ m \notin Numbers(down)
  BY DEF Numbers, PageInv, UnderWayOnce, Ahead
<1>9. m \notin Numbers(down) /\ m \notin Numbers(up)
  BY <1>8 DEF Numbers
<1>10. /\ Append(down, f) \in Seq(DownFrames) /\ Len(down) \in Nat
       /\ DOMAIN down = 1 .. Len(down) /\ DOMAIN Append(down, f) = 1 .. Len(down) + 1
       /\ \A k \in 1 .. Len(down) : Append(down, f)[k] = down[k]
       /\ Append(down, f)[Len(down) + 1] = f
       /\ Numbers(Append(down, f)) = Numbers(down) \cup ({m} \ {0})
       /\ Distinct(down) /\ m \notin Numbers(down) => Distinct(Append(down, f))
  BY <1>1, More
<1> HIDE DEF m
<1>11. /\ down' \in Seq(DownFrames) /\ Distinct(down')
       /\ Numbers(down') \subseteq Numbers(down) \cup ({m} \ {0})
       /\ \A k \in DOMAIN down' :
            \/ k \in DOMAIN down /\ down'[k] = down[k]
            \/ k = Len(down) + 1 /\ down'[k] = f /\ Connected(j)
  <2>1. CASE Connected(j)
    <3>1. down' = Append(down, f)
      BY <1>6, <2>1
    <3>2. \A k \in DOMAIN down' : k \in 1 .. Len(down) \/ k = Len(down) + 1
      BY <1>10, <3>1
    <3>3. QED
      BY <1>1, <1>9, <1>10, <2>1, <3>1, <3>2
  <2>2. CASE ~Connected(j)
    BY <1>1, <1>6, <2>2
  <2>3. QED
    BY <2>1, <2>2
<1>12. /\ Numbers(up') = Numbers(up) /\ Ahead' \subseteq Ahead /\ m \notin Ahead'
       /\ Pending' \subseteq Pending
       /\ Ahead' = Numbers(up') \cup Numbers(jobs') /\ Numbers(down)' = Numbers(down')
  <2>1. Numbers(up') = Numbers(up) /\ Numbers(down)' = Numbers(down')
    BY DEF Numbers
  <2>2. Ahead' = Numbers(up') \cup Numbers(jobs')
    BY DEF Ahead, Numbers
  <2>3. Ahead' \subseteq Ahead /\ m \notin Ahead'
    BY <1>4, <1>5, <1>9, <2>1, <2>2 DEF Ahead
  <2>4. {m} \ {0} \subseteq Ahead
    BY <1>8 DEF Ahead, m
  <2>5. QED
    BY <1>11, <2>1, <2>2, <2>3, <2>4 DEF Pending
<1>13. /\ rows' \in Seq(Entries) /\ Tells(rows', Ahead')
       /\ \A k \in DOMAIN rows' : \/ k \in DOMAIN rows /\ rows'[k] = rows[k]
                                  \/ rows'[k].n = m /\ m # 0
  <2>1. Tells(rows, Ahead)
    BY DEF PageInv, NothingEarly
  <2>2. CASE rows' = rows
    BY <1>1, <1>12, <2>1, <2>2, TellsLess
  <2>3. CASE rows' = Append(rows, Entry("reply", m)) /\ m # 0
    <3> DEFINE e == Entry("reply", m)
    <3>1. e \in Entries /\ e.n = m /\ e.by = "reply"
      BY <1>2 DEF Entry, Entries, m
    <3>2. /\ Append(rows, e) \in Seq(Entries) /\ Len(rows) \in Nat
          /\ DOMAIN rows = 1 .. Len(rows) /\ DOMAIN Append(rows, e) = 1 .. Len(rows) + 1
          /\ \A k \in 1 .. Len(rows) : Append(rows, e)[k] = rows[k]
          /\ Append(rows, e)[Len(rows) + 1] = e
      BY <1>1, <3>1, More
    <3> HIDE DEF e
    <3>3. Ahead' \cup {e.n} \subseteq Ahead
      BY <1>8, <1>12, <2>3, <3>1 DEF Ahead, m
    <3>4. Tells(rows, Ahead' \cup {e.n})
      BY <2>1, <3>3, TellsLess
    <3>5. Tells(Append(rows, e), Ahead')
      BY <1>1, <1>12, <3>1, <3>4, TellsMore
    <3>6. rows' = Append(rows, e)
      BY <2>3 DEF e
    <3>7. \A k \in DOMAIN rows' : \/ k \in DOMAIN rows /\ rows'[k] = rows[k]
                                  \/ rows'[k].n = m /\ m # 0
      <4>1. ASSUME NEW k \in DOMAIN rows', k \notin DOMAIN rows PROVE rows'[k].n = m
        <5>1. k \in 1 .. Len(rows) + 1 /\ k \notin 1 .. Len(rows) /\ Len(rows) \in Nat
          BY <3>2, <3>6, <4>1
        <5>2. k = Len(rows) + 1
          BY <5>1
        <5>3. QED
          BY <3>1, <3>2, <3>6, <5>2
      <4>2. QED
        BY <2>3, <3>2, <3>6, <4>1
    <3>8. QED
      BY <3>2, <3>5, <3>6, <3>7
  <2>4. QED
    BY <2>2, <2>3 DEF m
<1>14. PageTypeOK'
  <2>1. Known(jobs)'
    BY <1>1, <1>5 DEF Known
  <2>2. Known(rows)'
    BY <1>1, <1>2, <1>13 DEF Known, m
  <2>3. Known(down)'
    BY <1>1, <1>2, <1>11 DEF Known, m
  <2>4. \A k \in DOMAIN down' : down'[k].kind = "ready" => Known(down[k].history)'
    BY <1>11 DEF PageInv, PageTypeOK, Known
  <2>5. QED
    BY <1>1, <1>3, <1>11, <1>13, <2>1, <2>2, <2>3, <2>4 DEF PageInv, PageTypeOK, Known
<1>15. UnderWayOnce'
  <2>1. Numbers(up') \cap Numbers(jobs') = {}
    BY <1>5, <1>12 DEF PageInv, UnderWayOnce
  <2>2. Ahead' \cap Numbers(down') = {}
    BY <1>11, <1>12 DEF PageInv, UnderWayOnce
  <2>3. Distinct(up')
    BY DEF PageInv, UnderWayOnce
  <2>4. QED
    BY <1>5, <1>11, <1>12, <2>1, <2>2, <2>3 DEF UnderWayOnce, Distinct, Numbers
<1>16. NothingEarly'
  <2>1. Tells(shown', Pending')
    BY <1>12, TellsLess DEF PageInv, NothingEarly
  <2>2. ASSUME NEW k \in DOMAIN down', down'[k].kind = "ready"
        PROVE  Tells(down'[k].history, Pending')
    <3>1. CASE k \in DOMAIN down /\ down'[k] = down[k]
      BY <1>12, <2>2, <3>1, TellsLess DEF PageInv, NothingEarly
    <3>2. CASE down'[k] = f /\ Connected(j)
      <4>1. m = 0 /\ Tells(f.history, Ahead)
        BY <2>2, <3>2 DEF m
      <4>2. down = <<>>
        BY <1>6, <1>7, <3>2, <4>1 DEF PageInv, GreetedOnce, m
      <4>3. Numbers(down) = {}
        BY <4>2 DEF Numbers
      <4>4. Numbers(down') = {}
        BY <1>11, <4>1, <4>3
      <4>5. Pending' \subseteq Ahead
        BY <1>12, <4>4 DEF Pending
      <4>6. QED
        BY <3>2, <4>1, <4>5, TellsLess
    <3>3. QED
      BY <1>11, <3>1, <3>2
  <2>3. Tells(rows', Ahead')
    BY <1>13
  <2>4. QED
    BY <2>1, <2>2, <2>3 DEF NothingEarly
<1>17. StoredByTurn'
  <2>1. SUFFICES ASSUME NEW k \in DOMAIN rows'
                 PROVE  /\ rows'[k].n \notin Numbers(up')
                        /\ rows'[k].n \in Numbers(jobs') => rows'[k].n = turn'
    BY <1>12 DEF StoredByTurn, Numbers
  <2>2. CASE rows'[k].n = m
    BY <1>4, <1>9, <1>12, <2>2
  <2>3. CASE k \in DOMAIN rows /\ rows'[k] = rows[k]
    <3>1. /\ rows[k].n \notin Numbers(up)
          /\ rows[k].n \in Numbers(jobs) => rows[k].n = turn
      BY <2>3 DEF PageInv, StoredByTurn
    <3>2. 0 \notin Numbers(jobs')
      BY DEF Numbers
    <3>3. QED
      BY <1>4, <1>5, <1>12, <2>3, <3>1, <3>2 DEF m
  <2>4. QED
    BY <1>13, <2>2, <2>3
<1>18. Wires'
  <2>1. socket \notin {"open", "closing"} => down' = <<>>
    BY <1>6 DEF PageInv, Wires
  <2>2. socket = "connecting" => ~ready /\ \A i \in DOMAIN jobs' : ~Mine(i)'
    BY <1>5 DEF PageInv, Wires, Mine
  <2>3. QED
    BY <1>7, <2>1, <2>2 DEF PageInv, Wires, Mine
<1>19. GreetedOnce'
  <2>1. SUFFICES ASSUME socket = "open" PROVE GreetedOnce'
    BY DEF GreetedOnce
  <2> DEFINE old(i) == IF i < j THEN i ELSE i + 1
  <2>2. /\ DOMAIN jobs = 1 .. Len(jobs) /\ DOMAIN jobs' = 1 .. Len(jobs')
        /\ Len(jobs) \in Nat /\ Len(jobs') \in Nat /\ Len(jobs') = Len(jobs) - 1
        /\ j \in 1 .. Len(jobs)
    BY <1>1, <1>3, LenProperties DEF Without
  <2>3. \A i \in DOMAIN jobs' :
          old(i) \in DOMAIN jobs /\ old(i) # j /\ jobs'[i] = jobs[old(i)]
    BY <1>3, <2>2 DEF Without
  <2>4. \A i, k \in DOMAIN jobs' : old(i) <= old(k) => i <= k
    BY <2>2
  <2> HIDE DEF old
  <2>5. \A i \in DOMAIN jobs' : Mine(i)' => Mine(old(i))
    BY <2>3 DEF Mine
  <2>6. /\ \A k \in DOMAIN up : up[k].n = 0 =>
             k = 1 /\ down = <<>> /\ ~ready /\ \A i \in DOMAIN jobs : ~Mine(i)
        /\ \A i \in DOMAIN jobs : Mine(i) /\ jobs[i].n = 0 =>
             /\ down = <<>> /\ ~ready /\ \A k \in DOMAIN up : up[k].n # 0
             /\ \A k \in DOMAIN jobs : Mine(k) => i <= k
        /\ \A k \in DOMAIN down : down[k].n = 0 =>
             /\ k = 1 /\ ~ready /\ \A i \in DOMAIN up : up[i].n # 0
             /\ \A i \in DOMAIN jobs : Mine(i) => jobs[i].n # 0
    BY <1>7, <2>1 DEF PageInv, GreetedOnce
  <2>7. ASSUME Connected(j), NEW i \in DOMAIN jobs, i # j, Mine(i), jobs[i].n = 0
        PROVE  FALSE
    <3>1. i <= j /\ i \in 1 .. j - 1
      BY <1>6, <2>2, <2>6, <2>7
    <3>2. jobs[i].socket # jobs[j].socket
      BY <3>1 DEF First
    <3>3. QED
      BY <1>6, <2>7, <3>2 DEF Mine
  <2>8. ASSUME NEW k \in DOMAIN up, up[k].n = 0
        PROVE  k = 1 /\ down' = <<>> /\ ~ready /\ \A i \in DOMAIN jobs' : ~Mine(i)'
    <3>1. k = 1 /\ down = <<>> /\ ~ready /\ \A i \in DOMAIN jobs : ~Mine(i)
      BY <2>6, <2>8
    <3>2. down' = <<>>
      BY <1>6, <3>1
    <3>3. \A i \in DOMAIN jobs' : ~Mine(i)'
      BY <2>3, <2>5, <3>1
    <3>4. QED
      BY <3>1, <3>2, <3>3
  <2>9. ASSUME NEW i \in DOMAIN jobs', Mine(i)', jobs'[i].n = 0
        PROVE  /\ down' = <<>> /\ ~ready /\ \A k \in DOMAIN up : up[k].n # 0
               /\ \A k \in DOMAIN jobs' : Mine(k)' => i <= k
    <3>1. old(i) \in DOMAIN jobs /\ old(i) # j /\ Mine(old(i)) /\ jobs[old(i)].n = 0
      BY <2>3, <2>5, <2>9
    <3>2. ~Connected(j)
      BY <2>7, <3>1
    <3>3. /\ down = <<>> /\ ~ready /\ \A k \in DOMAIN up : up[k].n # 0
          /\ \A k \in DOMAIN jobs : Mine(k) => old(i) <= k
      BY <2>6, <3>1
    <3>4. \A k \in DOMAIN jobs' : Mine(k)' => i <= k
      BY <2>3, <2>4, <2>5, <3>3
    <3>5. QED
      BY <1>6, <3>2, <3>3, <3>4
  <2>10. ASSUME NEW k \in DOMAIN down', down'[k].n = 0
         PROVE  /\ k = 1 /\ ~ready /\ \A i \in DOMAIN up : up[i].n # 0
                /\ \A i \in DOMAIN jobs' : Mine(i)' => jobs'[i].n # 0
    <3>1. CASE k \in DOMAIN down /\ down'[k] = down[k]
      <4>1. /\ k = 1 /\ ~ready /\ \A i \in DOMAIN up : up[i].n # 0
            /\ \A i \in DOMAIN jobs : Mine(i) => jobs[i].n # 0
        BY <2>6, <2>10, <3>1
      <4>2. QED
        BY <2>3, <2>5, <4>1
    <3>2. CASE k = Len(down) + 1 /\ down'[k] = f /\ Connected(j)
      <4>1. Mine(j) /\ jobs[j].n = 0
        BY <1>6, <2>10, <3>2
      <4>2. down = <<>> /\ ~ready /\ \A i \in DOMAIN up : up[i].n # 0
        BY <2>6, <4>1
      <4>3. k = 1
        BY <3>2, <4>2
      <4>4. \A i \in DOMAIN jobs' : Mine(i)' => jobs'[i].n # 0
        BY <2>3, <2>5, <2>7, <3>2
      <4>5. QED
        BY <4>2, <4>3, <4>4
    <3>3. QED
      BY <1>11, <3>1, <3>2
  <2>11. QED
    BY <2>8, <2>9, <2>10 DEF GreetedOnce
<1>20. QED
  BY <1>14, <1>15, <1>16, <1>17, <1>18, <1>19 DEF PageInv

(* The rows a new connection is given: the last ones.                      *)
LEMMA RecentTold ==
  ASSUME PageInv
  PROVE  Recent \in Seq(Entries) /\ Known(Recent) /\ Tells(Recent, Ahead)
<1>1. rows \in Seq(Entries) /\ Len(rows) \in Nat /\ HistoryLimit \in Nat
  BY LenProperties, WidgetConstants DEF PageInv, PageTypeOK
<1> DEFINE m == IF Len(rows) > HistoryLimit THEN Len(rows) - HistoryLimit + 1 ELSE 1
<1>2. m \in Nat \ {0} /\ Recent = SubSeq(rows, m, Len(rows))
  BY <1>1 DEF Recent
<1> HIDE DEF m
<1>3. Recent \in Seq(Entries) /\ Part(Recent, rows)
  BY <1>1, <1>2, SuffixIsPart
<1>4. /\ \A k \in DOMAIN Recent : \E l \in DOMAIN rows : Recent[k] = rows[l]
      /\ Tells(rows, Ahead) => Tells(Recent, Ahead)
  BY <1>1, <1>3, Parts
<1>5. Known(rows) /\ Tells(rows, Ahead)
  BY DEF PageInv, PageTypeOK, NothingEarly
<1>6. QED
  BY <1>3, <1>4, <1>5 DEF Known

LEMMA InitsStep ==
  ASSUME PageInv, NEW j \in DOMAIN jobs, Inits(j) PROVE PageInv'
<1> DEFINE f == [kind |-> "ready", n |-> 0, history |-> Recent]
<1>1. /\ UNCHANGED <<access, socket, number, ready, next, up, shown, turn, rows>>
      /\ First(j) /\ jobs[j].n = 0 /\ Done(j)
      /\ Told(j, f) \/ Told(j, Frame("error", 0))
  BY DEF Inits, page, dialogue
<1>2. f \in DownFrames /\ f.n = 0 /\ f.history = Recent
  BY RecentTold DEF DownFrames, Readies
<1>3. Known(f.history) /\ Tells(f.history, Ahead)
  BY <1>2, RecentTold
<1> HIDE DEF f
<1>4. CASE Told(j, f)
  BY <1>1, <1>2, <1>3, <1>4, DoneStep
<1>5. CASE Told(j, Frame("error", 0))
  <2>1. /\ Frame("error", 0) \in DownFrames /\ Frame("error", 0).n = 0
        /\ Frame("error", 0).kind = "error"
    BY DEF Frame, DownFrames, Notices
  <2>2. QED
    BY <1>1, <1>5, <2>1, DoneStep
<1>6. QED
  BY <1>1, <1>4, <1>5

LEMMA AnswersStep ==
  ASSUME PageInv, NEW j \in DOMAIN jobs, Uninitialised(j) \/ TurnEnds(j) \/ TurnFails(j)
  PROVE  PageInv'
<1>1. /\ UNCHANGED <<access, socket, number, ready, next, up, shown>>
      /\ First(j) /\ Done(j) /\ jobs[j].n > 0
  BY DEF Uninitialised, TurnEnds, TurnFails, Ask, page, dialogue
<1>2. jobs[j].n \in Nat /\ jobs[j].n # 0
  BY <1>1, Numbered DEF PageInv
<1>3. ASSUME NEW kind \in {"message", "confirmation", "error"}
      PROVE  /\ Frame(kind, jobs[j].n) \in DownFrames
             /\ Frame(kind, jobs[j].n).n = jobs[j].n
             /\ Frame(kind, jobs[j].n).kind # "ready"
  BY <1>2 DEF Frame, DownFrames, Replies, Notices
<1>4. \E kind \in {"message", "confirmation", "error"} : Told(j, Frame(kind, jobs[j].n))
  BY DEF Uninitialised, TurnEnds, TurnFails, ToldFailure
<1>5. /\ turn' = turn \/ (turn' = 0 /\ turn \in {0, jobs[j].n})
      /\ rows' = rows \/ rows' = Append(rows, Entry("reply", jobs[j].n))
  BY DEF Uninitialised, TurnEnds, TurnFails
<1>6. PICK kind \in {"message", "confirmation", "error"} : Told(j, Frame(kind, jobs[j].n))
  BY <1>4
<1>7. QED
  BY <1>1, <1>2, <1>3, <1>5, <1>6, DoneStep

LEMMA TurnStartsStep ==
  ASSUME PageInv, NEW j \in DOMAIN jobs, TurnStarts(j) PROVE PageInv'
<1> DEFINE m == jobs[j].n
           e == Entry("user", jobs[j].n)
<1>1. /\ UNCHANGED <<access, socket, number, ready, next, up, down, shown, jobs>>
      /\ m > 0 /\ turn = 0 /\ turn' = m /\ rows' = Append(rows, e)
  BY DEF TurnStarts, Ask, page, dialogue
<1>2. rows \in Seq(Entries) /\ jobs \in Seq(Works) /\ Known(jobs) /\ Known(rows)
  BY DEF PageInv, PageTypeOK
<1>3. m \in Nat /\ m # 0 /\ m <= next /\ m \in Numbers(jobs) /\ m \notin Numbers(up)
  <2>1. m \in Nat /\ m # 0 /\ m <= next
    BY <1>1, <1>2, Numbered DEF PageInv, Known
  <2>2. m \in Numbers(jobs)
    BY <2>1 DEF Numbers
  <2>3. QED
    BY <2>1, <2>2 DEF PageInv, UnderWayOnce
<1>4. e \in Entries /\ e.n = m /\ e.by = "user"
  BY <1>3 DEF Entry, Entries
<1>5. /\ Append(rows, e) \in Seq(Entries) /\ Len(rows) \in Nat
      /\ DOMAIN rows = 1 .. Len(rows) /\ DOMAIN Append(rows, e) = 1 .. Len(rows) + 1
      /\ \A k \in 1 .. Len(rows) : Append(rows, e)[k] = rows[k]
      /\ Append(rows, e)[Len(rows) + 1] = e
  BY <1>2, <1>4, More
<1> HIDE DEF m, e
<1>6. /\ Numbers(up') = Numbers(up) /\ Numbers(jobs') = Numbers(jobs) /\ Ahead' = Ahead
      /\ Pending' = Pending
  BY <1>1 DEF Ahead, Pending, Numbers
<1>7. \A k \in DOMAIN rows : rows[k].n \notin Numbers(jobs) /\ rows[k].n # m
  <2>1. 0 \notin Numbers(jobs)
    BY DEF Numbers
  <2>2. QED
    BY <1>1, <1>3, <2>1 DEF PageInv, StoredByTurn
<1>8. \A k \in DOMAIN rows' : (k \in DOMAIN rows /\ rows'[k] = rows[k]) \/ rows'[k] = e
  <2>1. \A k \in DOMAIN rows' : k \in 1 .. Len(rows) \/ k = Len(rows) + 1
    BY <1>1, <1>5
  <2>2. QED
    BY <1>1, <1>5, <2>1
<1>9. PageTypeOK'
  <2>1. Known(rows)'
    BY <1>1, <1>2, <1>3, <1>4, <1>8 DEF Known
  <2>2. QED
    BY <1>1, <1>5, <2>1 DEF PageInv, PageTypeOK, Known
<1>10. UnderWayOnce'
  <2>1. Numbers(down') = Numbers(down) /\ Distinct(up') /\ Distinct(jobs') /\ Distinct(down')
    BY <1>1 DEF PageInv, UnderWayOnce, Distinct, Numbers
  <2>2. QED
    BY <1>6, <2>1 DEF PageInv, UnderWayOnce
<1>11. NothingEarly'
  <2>1. Tells(rows, Ahead \cup {e.n})
    BY <1>4, <1>7 DEF PageInv, NothingEarly, Tells
  <2>2. Tells(rows', Ahead')
    BY <1>1, <1>2, <1>4, <1>6, <1>7, <2>1, TellsMore
  <2>3. QED
    BY <1>1, <1>6, <2>2 DEF PageInv, NothingEarly
<1>12. StoredByTurn'
  <2>1. SUFFICES ASSUME NEW k \in DOMAIN rows'
                 PROVE  /\ rows'[k].n \notin Numbers(up)
                        /\ rows'[k].n \in Numbers(jobs) => rows'[k].n = turn'
    BY <1>1 DEF StoredByTurn, Numbers
  <2>2. CASE k \in DOMAIN rows /\ rows'[k] = rows[k]
    BY <1>7, <2>2 DEF PageInv, StoredByTurn
  <2>3. CASE rows'[k] = e
    BY <1>1, <1>3, <1>4, <2>3
  <2>4. QED
    BY <1>8, <2>2, <2>3
<1>13. Wires' /\ GreetedOnce'
  BY <1>1 DEF PageInv, Wires, GreetedOnce, Mine
<1>14. QED
  BY <1>9, <1>10, <1>11, <1>12, <1>13 DEF PageInv

LEMMA PageStep ==
  ASSUME PageInv, [Next]_vars PROVE PageInv'
<1>1. CASE \/ RetryTimer \/ RetryButton \/ Opens \/ Refused \/ CloseEvent \/ Drops
           \/ Rejected \/ HandshakeTimer \/ Unmount \/ Expires \/ Restarts
           \/ UNCHANGED vars
  BY <1>1, QuietSteps
<1>2. CASE GetsReady \/ GetsReply \/ GetsError
  BY <1>2, GetsStep
<1>3. CASE Send
  BY <1>3, SendStep
<1>4. CASE Arrives
  BY <1>4, ArrivesStep
<1>5. ASSUME NEW j \in DOMAIN jobs,
             \/ Inits(j) \/ Uninitialised(j) \/ TurnStarts(j) \/ TurnEnds(j)
             \/ TurnFails(j)
      PROVE  PageInv'
  BY <1>5, InitsStep, AnswersStep, TurnStartsStep
<1>6. QED
  BY <1>1, <1>2, <1>3, <1>4, <1>5 DEF Next, ClientStep, ServerStep

(* Whatever connections are lost, turns outlive their socket and histories  *)
(* arrive late, the page shows nothing twice and no answer before its       *)
(* message (widget.tsx replaces the transcript by the history of the ready  *)
(* frame; routes/widget.ts reads it when the init is handled).             *)
THEOREM Shown == Spec => []TranscriptFaithful
<1>1. Init => PageInv
  BY PageStarted
<1>2. PageInv /\ [Next]_vars => PageInv'
  BY PageStep
<1>3. PageInv => TranscriptFaithful
  BY DEF PageInv, NothingEarly, Tells, Faithful, TranscriptFaithful
<1>4. QED
  BY <1>1, <1>2, <1>3, PTL DEF Spec
=============================================================================

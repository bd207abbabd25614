----------------------------- MODULE MagicLinks -----------------------------
(***************************************************************************)
(* Signing in with a link sent by e-mail.  A back end asks the server for a *)
(* link, the visitor opens it once and is given a session token, which the  *)
(* widget presents (module Widget).  Both handlers are chains of awaited    *)
(* SQL statements, so the requests interleave between any two of them; a    *)
(* crash ends all requests and keeps the tables, not the counters of the    *)
(* rate limiter.                                                            *)
(*                                                                         *)
(* Abstractions.  A token is the number of its link, and a link that does   *)
(* not exist changes nothing.  A request refused for its secret, its body   *)
(* or the number of requests from its IP address changes nothing either:    *)
(* the last is a limit on top of the one per e-mail.  A session token names *)
(* its link; how long it is accepted is Expires of Widget.                  *)
(***************************************************************************)
EXTENDS Integers, Sequences, FiniteSets

CONSTANTS
  Emails, Customers, \* Customers: external ids
  PerEmail,          \* links of an e-mail in an hour, 5 in the code
  MaxRequests, MaxOpen, MaxCrashes \* bounds: links asked for, requests at a time

ASSUME MagicBounds ==
  {PerEmail, MaxRequests, MaxOpen, MaxCrashes} \subseteq Nat
ASSUME SomebodyAsks == Emails # {} /\ Customers # {}

VARIABLES
  customers, \* the customers table
  addresses, \* the channel_addresses table, of the web: e-mails with their row
  verified,  \* the e-mails whose row has a verified_at
  links,     \* the magic_links table, in order of the requests for a link
  requests,  \* HTTP requests under way
  hits,      \* requests of the last hour the limiter has counted, of each e-mail
  asked,     \* requests for a link so far
  tokens,    \* history: the session tokens given out, for each link
  crashes

tables == <<customers, addresses, verified, links>>
linkVars == <<tables, requests, hits, asked, tokens, crashes>>

Unissued == [email |-> CHOOSE e \in Emails : TRUE, who |-> CHOOSE x \in Customers : TRUE,
             issued |-> FALSE, expired |-> FALSE, consumed |-> FALSE]

Opened(r) == Cardinality(requests) < MaxOpen /\ requests' = requests \cup {r}
Goes(r, step) == requests' = (requests \ {r}) \cup {[r EXCEPT !.step = step]}
Ends(r) == requests' = requests \ {r}
-----------------------------------------------------------------------------
(* POST /auth/magic-link.                                                  *)

(* Mutant: one request too many passes.                                    *)
MutantAllowed(e) == Cardinality(hits[e]) <= PerEmail
Allowed(e) == Cardinality(hits[e]) < PerEmail

AskForLink(e, x) ==
  /\ asked < MaxRequests /\ asked' = asked + 1
  /\ Allowed(e) /\ hits' = [hits EXCEPT ![e] = @ \cup {asked'}]
  /\ Opened([link |-> asked', email |-> e, who |-> x,
             step |-> IF x \in customers THEN "look" ELSE "customer"])
  /\ UNCHANGED <<tables, tokens, crashes>>

(* The row is unique: the request that finds it inserted meanwhile fails.  *)
AddCustomer(r) ==
  /\ r.step = "customer" /\ customers' = customers \cup {r.who}
  /\ IF r.who \in customers THEN Ends(r) ELSE Goes(r, "look")
  /\ UNCHANGED <<addresses, verified, links, hits, asked, tokens, crashes>>

LookUp(r) ==
  /\ r.step = "look" /\ Goes(r, IF r.email \in addresses THEN "link" ELSE "address")
  /\ UNCHANGED <<tables, hits, asked, tokens, crashes>>

AddAddress(r) ==
  /\ r.step = "address" /\ addresses' = addresses \cup {r.email}
  /\ IF r.email \in addresses THEN Ends(r) ELSE Goes(r, "link")
  /\ UNCHANGED <<customers, verified, links, hits, asked, tokens, crashes>>

AddLink(r) ==
  /\ r.step = "link" /\ Ends(r)
  /\ links' = [links EXCEPT ![r.link] = [email |-> r.email, who |-> r.who, issued |-> TRUE,
                                         expired |-> FALSE, consumed |-> FALSE]]
  /\ UNCHANGED <<customers, addresses, verified, hits, asked, tokens, crashes>>
-----------------------------------------------------------------------------
(* GET /auth/verify.  Two requests for one link are told apart by their n. *)
Open(l, n) ==
  /\ links[l].issued /\ ~links[l].expired /\ ~links[l].consumed
  /\ \A r \in requests : r.step \in {"consume", "verify"} /\ r.link = l => r.n /= n
  /\ Opened([link |-> l, n |-> n, step |-> "consume"])
  /\ UNCHANGED <<tables, hits, asked, tokens, crashes>>

(* Mutant: what was read decides.                                          *)
MutantConsume(r) ==
  /\ r.step = "consume" /\ links' = [links EXCEPT ![r.link].consumed = TRUE] /\ Goes(r, "verify")
  /\ UNCHANGED <<customers, addresses, verified, hits, asked, tokens, crashes>>

Consume(r) ==
  /\ r.step = "consume" /\ links' = [links EXCEPT ![r.link].consumed = TRUE]
  /\ IF links[r.link].consumed THEN Ends(r) ELSE Goes(r, "verify")
  /\ UNCHANGED <<customers, addresses, verified, hits, asked, tokens, crashes>>

Marked(e) == verified \cup ({e} \cap addresses)
WithToken(l) == [tokens EXCEPT ![l] = @ + 1]

(* The row of the address is marked, then the token is made and returned.  *)
SignIn(r) ==
  /\ r.step = "verify" /\ Ends(r)
  /\ verified' = Marked(links[r.link].email) /\ tokens' = WithToken(r.link)
  /\ UNCHANGED <<customers, addresses, links, hits, asked, crashes>>
-----------------------------------------------------------------------------
(* A turn registers its customer, the address under a name of its own.     *)
FirstMessage(x) ==
  /\ x \notin customers /\ customers' = customers \cup {x}
  /\ UNCHANGED <<addresses, verified, links, requests, hits, asked, tokens, crashes>>

(* ttl_minutes: 15, if the configuration does not say otherwise.           *)
LinkExpires(l) ==
  /\ links[l].issued /\ ~links[l].expired /\ links' = [links EXCEPT ![l].expired = TRUE]
  /\ UNCHANGED <<customers, addresses, verified, requests, hits, asked, tokens, crashes>>

(* An hour after a request.  Its link was issued at once and has expired:   *)
(* ttl_minutes is taken to be below an hour.                               *)
HourPasses(e) ==
  \E n \in hits[e] :
    /\ \A k \in hits[e] : n <= k
    /\ links[n].issued => links[n].expired
    /\ \A r \in requests : r.link = n => r.step \in {"consume", "verify"}
    /\ hits' = [hits EXCEPT ![e] = @ \ {n}]
    /\ UNCHANGED <<tables, requests, asked, tokens, crashes>>

Crash ==
  /\ crashes < MaxCrashes /\ crashes' = crashes + 1
  /\ requests' = {} /\ hits' = [e \in Emails |-> {}]
  /\ UNCHANGED <<tables, asked, tokens>>

LinkInit ==
  /\ customers \in SUBSET Customers /\ addresses = {} /\ verified = {}
  /\ links = [l \in 1 .. MaxRequests |-> Unissued] /\ requests = {}
  /\ hits = [e \in Emails |-> {}] /\ asked = 0 /\ crashes = 0
  /\ tokens = [l \in 1 .. MaxRequests |-> 0]

LinkNext ==
  \/ \E e \in Emails, x \in Customers : AskForLink(e, x)
  \/ \E r \in requests :
       \/ AddCustomer(r) \/ LookUp(r) \/ AddAddress(r) \/ AddLink(r)
       \/ Consume(r) \/ SignIn(r)
  \/ \E l \in DOMAIN links : LinkExpires(l) \/ \E n \in 1 .. MaxOpen : Open(l, n)
  \/ \E x \in Customers : FirstMessage(x)
  \/ \E e \in Emails : HourPasses(e)
  \/ Crash

LinkSpec == LinkInit /\ [][LinkNext]_linkVars
-----------------------------------------------------------------------------
(* However many requests open a link at once, it signs in one of them, for *)
(* a customer that exists and with its address marked as verified.         *)
RedeemedOnce ==
  \A l \in DOMAIN links :
    /\ tokens[l] <= 1
    /\ tokens[l] = 1 => /\ links[l].consumed /\ links[l].who \in customers
                        /\ links[l].email \in verified

(* An e-mail has at most PerEmail links that can still be opened, in each   *)
(* life of the server.                                                     *)
FewLinks ==
  \A e \in Emails :
    LET live == {l \in DOMAIN links :
                   links[l].issued /\ links[l].email = e /\ ~links[l].expired}
    IN  Cardinality(live) <= PerEmail * (1 + crashes)
=============================================================================

--------------------------- MODULE MCSpotExchange ---------------------------
EXTENDS SpotExchange

\* SCALE = 2 and odd prices make notionals round; 25% and 12.5% make fees round.
Limit(u, s, p, q, f, po, c) ==
  [user |-> u, side |-> s, type |-> "limit", price |-> p, qty |-> q,
   tif |-> f, postOnly |-> po, cid |-> c]
Market(u, s, p, q, f) ==
  [user |-> u, side |-> s, type |-> "market", price |-> p, qty |-> q,
   tif |-> f, postOnly |-> FALSE, cid |-> NoCid]

MCUsers == {"alice", "bob"}

\* Two users whose sizes do not divide each other, so fills are partial; every
\* flag and every kind of order once; one malformed request.
MCRequests ==
  {Limit("alice", s, p, q, "GTC", FALSE, NoCid) :
     s \in Sides, p \in {3, 5}, q \in {1, 3}}
  \cup {Limit("bob", s, IF s = "buy" THEN 5 ELSE 3, 2, "GTC", FALSE, NoCid) : s \in Sides}
  \cup {Limit("alice", s, IF s = "buy" THEN 3 ELSE 5, 2, "GTC", TRUE, "c1") : s \in Sides}
  \cup {Limit("bob", s, 5, 3, "FOK", FALSE, NoCid) : s \in Sides}
  \cup {Market("bob", s, IF s = "buy" THEN 5 ELSE 3, 3, "IOC") : s \in Sides}
  \cup {Market("alice", "buy", 5, 1, "GTC")}

MCAmendments == {[price |-> 5, qty |-> 4]}
MCTransfers == {[user |-> "alice", asset |-> "quote", amount |-> 6]}
MCStartBalance ==
  [u \in MCUsers |-> [a \in Assets |-> IF a = "base" THEN 5 ELSE 12]]
=============================================================================

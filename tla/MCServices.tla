----------------------------- MODULE MCServices -----------------------------
EXTENDS Services

MCPerps == <<"BTC-PERP">>

\* Two tabs of one wallet and one of another.
MCAddressOf == [t \in Tabs |-> IF t = "b" THEN "B" ELSE "A"]

\* The venue's book of a market: one with room on the tick grid, and one whose
\* best bid and ask meet on it.
MCBooks ==
  {[bids |-> <<[price |-> 3, qty |-> 20]>>,
    asks |-> <<[price |-> 5, qty |-> 10], [price |-> 6, qty |-> 20]>>],
   [bids |-> <<[price |-> 6, qty |-> 20], [price |-> 3, qty |-> 10]>>,
    asks |-> <<[price |-> 5, qty |-> 10]>>]}
=============================================================================

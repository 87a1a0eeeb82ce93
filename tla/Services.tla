------------------------------ MODULE Services ------------------------------
(***************************************************************************)
(* The services around the engine that apps/api/src/server.ts starts, and  *)
(* the browser's end of the stream: the funding poller, the TWAP           *)
(* scheduler, the book mirror, the price feeds, the login nonces, the      *)
(* candle cache, the retention job and the live stream.  They meet only in *)
(* the command pipeline (Pipeline), and none reads another's state, so a   *)
(* behaviour drives one of them, chosen at the start: the states are the   *)
(* sum, and not the product, of theirs, and no property loses a behaviour. *)
(***************************************************************************)
EXTENDS FundingPoller, Twap, AuthNonce, CandleCache, BookMirror, MarkFeed,
        Retention, WsFeed

VARIABLE part  \* the service that is driven

servicesVars ==
  <<part, fundingVars, twapVars, authVars, candleVars, mirrorVars, markVars,
    retentionVars, wsVars>>

Parts ==
  {"funding", "twaps", "nonces", "candles", "mirror", "marks", "tickers",
   "retention", "stream"}

\* A step of the part that is driven leaves the others alone.
Alone(p) ==
  /\ UNCHANGED part
  /\ p # "funding" => UNCHANGED fundingVars
  /\ p # "twaps" => UNCHANGED twapVars
  /\ p # "nonces" => UNCHANGED authVars
  /\ p # "candles" => UNCHANGED candleVars
  /\ p # "mirror" => UNCHANGED mirrorVars
  /\ p \notin {"marks", "tickers"} => UNCHANGED markVars
  /\ p # "retention" => UNCHANGED retentionVars
  /\ p # "stream" => UNCHANGED wsVars

ServicesInit ==
  /\ part \in Parts
  /\ FundingInit /\ TwapInit /\ AuthInit /\ CandleInit /\ MirrorInit /\ MarkInit
  /\ RetentionInit /\ WsInit
  /\ part # "marks" => liar = "hl"
  /\ part # "stream" => channel = "book"

ServicesNext ==
  \/ part = "funding" /\ FundingNext /\ Alone("funding")
  \/ part = "twaps" /\ TwapNext /\ Alone("twaps")
  \/ part = "nonces" /\ AuthNext /\ Alone("nonces")
  \/ part = "candles" /\ CandleNext /\ Alone("candles")
  \/ part = "mirror" /\ MirrorNext /\ Alone("mirror")
  \/ part = "marks" /\ PerpFeedNext /\ Alone("marks")
  \/ part = "tickers" /\ SpotFeedNext /\ Alone("tickers")
  \/ part = "retention" /\ RetentionNext /\ Alone("retention")
  \/ part = "stream" /\ WsNext /\ Alone("stream")

\* MirrorSpec's and WsSpec's fairness: only one of the two is ever driven.
ServicesFairness ==
  /\ WF_servicesVars(\/ part = "mirror" /\ Refresh /\ Alone("mirror")
                     \/ part = "stream" /\ StreamStep /\ Alone("stream"))
  /\ WF_servicesVars(part = "mirror" /\ MirrorElapse /\ Alone("mirror"))
  /\ WF_servicesVars(part = "mirror" /\ MirrorCommand /\ Alone("mirror"))

ServicesSpec == ServicesInit /\ [][ServicesNext]_servicesVars /\ ServicesFairness

\* The type invariants of the parts.
ServicesTypeOK ==
  /\ FundingTypeOK /\ TwapTypeOK /\ AuthTypeOK /\ CandleTypeOK /\ MirrorTypeOK
  /\ MarkTypeOK /\ RetentionTypeOK /\ WsTypeOK
=============================================================================

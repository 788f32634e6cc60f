---------------------------- MODULE MarketFeeds ----------------------------
(***************************************************************************)
(* Where a session's markets and events come from: the listings of         *)
(* src/market_discovery.rs and select_paper_markets of src/main.rs, and    *)
(* the messages of src/normalization.rs and src/reference_feed.rs.         *)
(***************************************************************************)
EXTENDS Integers, Sequences, FiniteSets

CONSTANTS Assets, Quarter      \* Quarter: the length of a 15-minute market

-----------------------------------------------------------------------------
(* A listing is what the market service returned; each entry says which of *)
(* the pieces the bot needs it lacks, and its times.                       *)
Flaws ==     \* what map_gamma_market finds missing or wrong
  {"identity", "end", "clob info", "sizes", "fees", "tokens", "slug interval",
   "resolution source", "resolution rules", "book disabled", "not accepting"}

(* is_candidate_crypto_15m_market *)
Candidate(g) == g.duration = Quarter /\ g.upDown /\ ~ g.closed

(* map_gamma_market: the end date is checked against the slug's interval,  *)
(* with the tolerance the times here are rounded to.                       *)
FlawsOf(g) == g.flaws \cup (IF g.end # g.start + g.duration THEN {"slug interval"} ELSE {})
Lifecycle(g) ==
  IF g.closed THEN "Closed"
  ELSE IF FlawsOf(g) # {} THEN "Ineligible"
  ELSE IF g.active THEN "Active" ELSE "Discovered"
AsMarket(g) == [asset |-> g.asset, start |-> g.start, end |-> g.end,
                state |-> Lifecycle(g), eligible |-> FlawsOf(g) = {}]

(* discover_crypto_15m_markets reads at most max_pages pages; what lies    *)
(* beyond them is not seen.                                                *)
Discovered(pages, maxPages) ==
  {AsMarket(g) : g \in {x \in UNION {pages[n] : n \in DOMAIN pages \cap 1..maxPages} : Candidate(x)}}

(* select_paper_markets: per asset, the open market that ends first. *)
Open(markets, asset, now) ==
  {m \in markets : /\ m.asset = asset /\ m.eligible /\ m.state = "Active"
                   /\ m.start <= now /\ now < m.end}
Selectable(markets, now) == \A a \in Assets : Open(markets, a, now) # {}
Selected(markets, now) ==
  [a \in Assets |-> CHOOSE m \in Open(markets, a, now) :
                      \A other \in Open(markets, a, now) : m.end <= other.end]

-----------------------------------------------------------------------------
(* What a captured message becomes.  It is a sequence of items (one that   *)
(* is not an array has one item), each of which is                         *)
(*   "event"      of a kind that is read, and well-formed,                 *)
(*   "stale"      such an item with a price older than max_staleness_ms,   *)
(*   "malformed"  such an item with a field missing or unreadable,         *)
(*   "unknown"    of any other kind.                                       *)
(* Only how many events come out, and whether one bad item takes the       *)
(* message or the whole session with it, matters to those who store them.  *)
Items == {"event", "stale", "malformed", "unknown"}
Sources == {"clob", "exchange", "rtds", "pyth"}

EventCount(message) == Cardinality({n \in DOMAIN message : message[n] = "event"})
HasItem(message, item) == \E n \in DOMAIN message : message[n] = item

(* The first item the reader stops at. *)
FirstIs(message, item, stops) ==
  \E n \in DOMAIN message : /\ message[n] = item
                            /\ \A k \in 1..(n - 1) : message[k] \notin stops

(* normalize_polymarket_value, normalize_binance_value and                 *)
(* normalize_coinbase_value: no price is too old for them.                 *)
Fresh(message) == [n \in DOMAIN message |-> IF message[n] = "stale" THEN "event" ELSE message[n]]
FeedBatch(message) ==
  IF HasItem(message, "malformed") THEN [refused |-> TRUE, events |-> 0]
  ELSE [refused |-> FALSE, events |-> EventCount(Fresh(message))]

(* parse_polymarket_rtds_chainlink_message: what ends the session is an    *)
(* item malformed before any stale one; a stale one drops its message.     *)
RtdsBatch(message) ==
  IF FirstIs(message, "malformed", {"stale"}) THEN [refused |-> TRUE, events |-> 0]
  ELSE [refused |-> FALSE,
        events |-> IF HasItem(message, "stale") THEN 0 ELSE EventCount(message)]

(* parse_pyth_latest_price_response: a fresh price of each asset.          *)
PythBatch(message) ==
  IF \/ HasItem(message, "malformed") \/ HasItem(message, "stale")
     \/ EventCount(message) # Cardinality(Assets)
  THEN [refused |-> TRUE, events |-> 0]
  ELSE [refused |-> FALSE, events |-> EventCount(message)]

(* normalize_feed_message, or the reader of the reference feed. *)
Batch(source, message) ==
  CASE source = "rtds" -> RtdsBatch(message)
    [] source = "pyth" -> PythBatch(message)
    [] OTHER -> FeedBatch(message)
=============================================================================

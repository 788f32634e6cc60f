--------------------------- MODULE MCPaperSession ---------------------------
(* Cycles of a book snapshot, the venue's websocket and each reference     *)
(* feed; a message is one event or three, a price too old, or unreadable.  *)
EXTENDS PaperSession

Feed(provider, pyth) == [provider |-> provider, pyth |-> pyth, flaws |-> {}]
MCFeeds ==
  {Feed("polymarket_rtds_chainlink", FALSE), Feed("pyth_proxy", TRUE), Feed("pyth_proxy", FALSE),
   Feed("chainlink", FALSE)}
MCProbes == << >>
MCMessages == {<< "event" >>, << "stale" >>, << "malformed" >>}

Gamma(start, flaws) ==
  [asset |-> "btc", start |-> start, end |-> start + 3, duration |-> 3, upDown |-> TRUE,
   closed |-> FALSE, active |-> TRUE, flaws |-> flaws]
MCListings ==
  {[pages |-> << {Gamma(2, {}), Gamma(0, {})} >>, now |-> 1],
   [pages |-> << {Gamma(2, {}), Gamma(0, {"fees"})}, {Gamma(0, {})} >>, now |-> 1]}
MCOutputs == << "orders and fills", "report" >>
=============================================================================

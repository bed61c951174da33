---------------------------- MODULE MCDashboard ----------------------------
(* Dashboard on a small instance. *)
EXTENDS Dashboard

\* Trades of one symbol at two prices and in two buckets, in any order; one of
\* another symbol; a book; a thought.
MCMessage ==
  LET trade(s, p, t) ==
        [channel |-> "trades", symbol |-> s, price |-> p, timestamp |-> t]
  IN {trade("AAPL", 1, 0), trade("AAPL", 2, 0), trade("AAPL", 1, 2)}
     \cup {[channel |-> "agent_thoughts"],
           [channel |-> "orderbook_updates", symbol |-> "TSLA"]}
=============================================================================

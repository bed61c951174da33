------------------------------ MODULE NewsStore ------------------------------
(***************************************************************************)
(* agents/chroma.py and the query of NewsAgent: headlines in a ChromaDB    *)
(* collection, by id, each about a symbol and scored beforehand - or not.  *)
(* Scores are in hundredths.                                               *)
(*                                                                         *)
(* A query ranks the headlines by the distance of their texts from its     *)
(* own.  Neither changes while the agents run, so neither does the         *)
(* ranking; which one it is, the embedding decides.                        *)
(***************************************************************************)
EXTENDS Integers, Sequences, SequencesExt, FiniteSets

CONSTANT Unscored  \* what stands for a missing or non-numeric sentiment

Headline(symbol, sentiment) == [symbol |-> symbol, sentiment |-> sentiment]

\* collection.upsert: an id that is there is written over.
Upsert(collection, headlines) ==
  [id \in DOMAIN headlines \cup DOMAIN collection |->
     IF id \in DOMAIN headlines THEN headlines[id] ELSE collection[id]]

\* seed_sample_headlines
SampleHeadlines ==
  [id \in {"seed-1", "seed-2", "seed-3", "seed-4", "seed-5", "seed-6"} |->
     CASE id = "seed-1" -> Headline("AAPL", 60)
       [] id = "seed-2" -> Headline("AAPL", 40)
       [] id = "seed-3" -> Headline("TSLA", -50)
       [] id = "seed-4" -> Headline("TSLA", -40)
       [] id = "seed-5" -> Headline("MSFT", 50)
       [] id = "seed-6" -> Headline("MSFT", 45)]

\* Mutant of Query: without where.
QueryAll(collection, ranking, symbol, n) ==
  LET matching == {i \in DOMAIN ranking : ranking[i] \in DOMAIN collection}
  IN {i \in matching : Cardinality({j \in matching : j < i}) < n}

\* collection.query: the n_results nearest headlines, at most, of those about
\* the symbol, as places in the ranking.
Query(collection, ranking, symbol, n) ==
  LET matching == {i \in DOMAIN ranking : /\ ranking[i] \in DOMAIN collection
                                          /\ collection[ranking[i]].symbol = symbol}
  IN {i \in matching : Cardinality({j \in matching : j < i}) < n}

\* _recent_average_sentiment, as a sum and a count; a count of none stands for
\* None.
RecentAverageSentiment(collection, ranking, symbol, lookback) ==
  LET Sentiment(i) == collection[ranking[i]].sentiment
      scored == {i \in Query(collection, ranking, symbol, lookback) : Sentiment(i) # Unscored}
  IN [sum |-> SumFunctionOnSet([i \in scored |-> Sentiment(i)], scored),
      count |-> Cardinality(scored)]
=============================================================================

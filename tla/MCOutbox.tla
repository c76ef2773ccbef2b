------------------------------ MODULE MCOutbox -------------------------------
(***************************************************************************)
(* Documents and mutations for Outbox: statutes are projected, embedded    *)
(* and backfilled with their hierarchy, decisions are projected and get    *)
(* official zones, units derived from them and embeddings of the units.    *)
(***************************************************************************)
EXTENDS Outbox, TLC

CONSTANTS d1, d2

StatuteKinds == {"project", "backfill", "embed"}
DecisionKinds == {"project", "zones", "no_zones", "derive", "embed_zones"}

OneCorpus == [d \in Docs |-> "core"]
TwoCorpora == [d \in Docs |-> IF d = d1 THEN "core" ELSE "extra"]

WriterSymmetry == Permutations(Writers)
=============================================================================

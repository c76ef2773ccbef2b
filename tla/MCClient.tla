------------------------------- MODULE MCClient -------------------------------
(***************************************************************************)
(* A client for TLC: two writers that race on the replica, a daemon and an *)
(* update that race along the feed, the trust roots, and a walk over the   *)
(* pages of a search.  Safety only: the liveness of the replica is checked *)
(* by MCClientReplica and that of the feed by MCSite.                      *)
(***************************************************************************)
EXTENDS ClientSuite, MCClientReplica, Sequences

(* Writers are interchangeable, and so are bootstraps.                     *)
ClientSymmetry == WriterSymmetry \cup Permutations(Bootstraps)

(* A corpus that moves and one whose feed stays empty; two daemons, and    *)
(* schemas the client does not know, are in MCSite.                        *)
PolledInOrder == <<"inpi", "core">>

(* Packages of both tiers and of growing license epochs, and a token that  *)
(* covers the first paid one only; under an anchor of other material a     *)
(* stranger has signed them all.                                           *)
PackageOf(key, tier, epoch) == [key |-> key, material |-> "ours", tier |-> tier, epoch |-> epoch]
BothTiers ==
  <<PackageOf("p1", "paid", 1), PackageOf("p1", "open", 0), PackageOf("p1", "paid", 2)>>
OneToken == {[key |-> "l1", material |-> "ours", tier |-> "paid", epoch |-> 1]}

(* Five chunks of four documents in two corpora, with ties between the     *)
(* arms, a document of two chunks, and one the ranking prefers by rank of  *)
(* its source; contents differ by what a package moves.                    *)
FiveChunks == 1 .. 5
FourDocuments == <<11, 12, 13, 13, 14>>
Arms(lexical, dense) == [lexical |-> lexical, dense |-> dense]
Ranking(lexical, dense, articles) ==
  [chunks |-> Arms(lexical, dense), zones |-> Arms(dense, lexical), articles |-> articles]
TwoContents ==
  <<{Ranking(<<1, 2, 4, 3>>, <<2, 1>>, {}), Ranking(<<3, 1, 2>>, <<1, 2, 3, 4>>, {}),
     Ranking(<<4, 3, 1>>, <<>>, {}), Ranking(<<3>>, <<1>>, {11})},
    {Ranking(<<5>>, <<5>>, {}), Ranking(<<>>, <<5>>, {}), Ranking(<<>>, <<>>, {})}>>
Sources == (11 :> "cass") @@ (12 :> "jade") @@ (13 :> "cass") @@ (14 :> "cass")
Markers == (11 :> "none") @@ (12 :> "A") @@ (13 :> "oui") @@ (14 :> "oui")

Ask(group, mode, topK) ==
  [group |-> group, mode |-> mode, topK |-> topK, authority |-> FALSE, citation |-> FALSE, zone |-> FALSE]
AllRequests ==
  {Ask(g, m, k) : g \in {"chunk", "document"}, m \in {"hybrid", "bm25", "dense"}, k \in {1, 2}}
    \cup {[Ask(g, "hybrid", 1) EXCEPT !.citation = TRUE] : g \in {"chunk", "document"}}
    \cup {[Ask(g, m, 3) EXCEPT !.authority = TRUE] : g \in {"chunk", "document"}, m \in {"bm25", "hybrid"}}
    \cup {[Ask("document", m, 1) EXCEPT !.zone = TRUE, !.authority = a] : m \in {"hybrid", "bm25"}, a \in BOOLEAN}
=============================================================================

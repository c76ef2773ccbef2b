--------------------------- MODULE MCClientReplica ---------------------------
(***************************************************************************)
(* A feed for ClientReplica with the cases that matter: for corpus "core"  *)
(* a baseline, an incremental on it, a rebaseline that supersedes both and *)
(* an incremental on that, next to a rival of the first incremental (same  *)
(* id, other artifact) and a rebaseline of the same sequence but another   *)
(* artifact; an update that drops a chunk; and a second corpus.            *)
(***************************************************************************)
EXTENDS ClientReplica, TLC

CONSTANTS d1, d2

CoreGenerations == {"core_g1", "core_g2"}
AllGenerations == CoreGenerations \cup {"extra_g1"}
MCCorpusOf == [g \in Generations |->
                 IF g \in CoreGenerations THEN "core" ELSE "extra"]

Same(ds) == [t \in Tables |-> ds]
Nothing == Same({})

Media(corpus, id, digest, kind, to, gen, rows) ==
  [corpus |-> corpus, id |-> id, digest |-> digest, kind |-> kind,
   from |-> 0, to |-> to, prevId |-> "-", prevDigest |-> "-",
   gen |-> gen, baseline |-> "b", compat |-> "v1",
   upserts |-> rows, deletes |-> Nothing, post |-> rows]

Incremental(id, digest, from, to, prevId, prevDigest, gen, ups, dels, post) ==
  [corpus |-> "core", id |-> id, digest |-> digest, kind |-> "incremental",
   from |-> from, to |-> to, prevId |-> prevId, prevDigest |-> prevDigest,
   gen |-> gen, baseline |-> "b", compat |-> "v1",
   upserts |-> ups, deletes |-> dels, post |-> post]

DocumentsOnly(ds) == [Nothing EXCEPT !["documents"] = ds]

Baseline1 == Media("core", "p1", "a1", "baseline", 1, "core_g1", Same({d1}))
(* d1 is deleted by its documents row alone, d2 is new.                    *)
Inc2 == Incremental("p1-2", "a2", 1, 2, "p1", "a1", "core_g1",
                    Same({d2}), DocumentsOnly({d1}), Same({d2}))
Inc2Rival == Incremental("p1-2", "a2x", 1, 2, "p1", "a1", "core_g1",
                    Same({d2}), Nothing, Same({d1, d2}))
Rebase3 == Media("core", "p3", "a3", "rebaseline", 3, "core_g2", Same({d2}))
Rebase3Rival ==
  Media("core", "p3", "a3x", "rebaseline", 3, "core_g2", Same({d1}))
Rebase2 == Media("core", "r2", "ar2", "rebaseline", 2, "core_g2", Same({d1, d2}))
Inc3 == Incremental("p2-3", "a23", 2, 3, "p1-2", "a2", "core_g1",
                    Same({d1}), Nothing, Same({d1, d2}))
Inc4 == Incremental("p3-4", "a4", 3, 4, "p3", "a3", "core_g2",
                    Same({d1}), Nothing, Same({d1, d2}))
(* The producer declares a chunk without its embedding.                    *)
Uncovered == Incremental("p3-4u", "a4u", 3, 4, "p3", "a3", "core_g2",
                    Nothing, [Nothing EXCEPT !["chunk_embeddings"] = {d2}],
                    [Same({d2}) EXCEPT !["chunk_embeddings"] = {}])
(* The declared rows are not what the payload makes of the replica: the    *)
(* builder left a change out.                                              *)
Drifted == Incremental("p1-2d", "a2d", 1, 2, "p1", "a1", "core_g1",
                    Nothing, Nothing, Same({d2}))
Extra1 == Media("extra", "x1", "e1", "baseline", 1, "extra_g1", Same({d1}))

(* Signed for one corpus under a label of another.                         *)
Mislabelled == Media("extra", "x2", "e2", "baseline", 1, "core_g2", Same({d1}))

LoadPackages == {Baseline1, Inc2, Inc2Rival, Rebase3, Rebase3Rival, Inc4,
                 Uncovered, Drifted}
RacePackages == {Baseline1, Inc2, Inc3, Rebase2, Extra1, Mislabelled}
StampPackages == {Baseline1, Inc2}

(* The writers are interchangeable.                                        *)
WriterSymmetry == Permutations(Procs)
=============================================================================

------------------------------- MODULE Replica -------------------------------
(***************************************************************************)
(* What the consumer side promises: each corpus of the site is, at every   *)
(* moment, exactly one published package of the producer, and it moves     *)
(* from package to package in one step, along the chain or forward by a    *)
(* self-contained rebaseline.                                              *)
(***************************************************************************)
EXTENDS Naturals

CONSTANTS Corpora, Packages, None

VARIABLE site   \* corpus -> [seq, id, digest, rows] or None

Installed(k) == [seq |-> k.to, id |-> k.id, digest |-> k.digest, rows |-> k.post]

Init == site = [c \in Corpora |-> None]

(* A first baseline, or a rebaseline on a corpus that has nothing.         *)
Install(k) ==
  /\ k.kind \in {"baseline", "rebaseline"}
  /\ site[k.corpus] = None
  /\ site' = [site EXCEPT ![k.corpus] = Installed(k)]

(* A rebaseline replaces whatever the corpus held, never backward.         *)
Supersede(k) ==
  /\ k.kind = "rebaseline"
  /\ site[k.corpus] # None
  /\ site[k.corpus].seq < k.to
  /\ site' = [site EXCEPT ![k.corpus] = Installed(k)]

(* An incremental turns the package it was built on into itself.           *)
Extend(k) ==
  /\ k.kind = "incremental"
  /\ site[k.corpus] # None
  /\ site[k.corpus].seq = k.from
  /\ site[k.corpus].id = k.prevId
  /\ site[k.corpus].digest = k.prevDigest
  /\ site' = [site EXCEPT ![k.corpus] = Installed(k)]

Next == \E k \in Packages : Install(k) \/ Supersede(k) \/ Extend(k)

Spec == Init /\ [][Next]_site
=============================================================================

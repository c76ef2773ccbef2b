------------------------- MODULE CatchupFeed_proofs -------------------------
(***************************************************************************)
(* A site follows the chain of its producer, and never runs ahead of it:   *)
(* for any daemons, one-shot updates and corpora, any retention, chain and *)
(* burst limit, whatever is published, lost or restarted in between.       *)
(***************************************************************************)
EXTENDS CatchupFeed, FiniteSetTheorems, SequenceTheorems, TLAPS

(* The newest media package of a catalog.                                  *)
IsMediaRoot(kinds, s) ==
  /\ kinds[s] \in MediaKinds
  /\ \A t \in DOMAIN kinds : t > s => kinds[t] = "incremental"

HasMediaRoot(kinds) == \E s \in DOMAIN kinds : IsMediaRoot(kinds, s)

(* What is published begins with a media package, and what is served has   *)
(* been published.                                                         *)
ServedIsPublished ==
  \A c \in PolledCorpora :
    /\ catalog[c] # <<>> => HasMediaRoot(catalog[c])
    /\ served[c] # None => /\ served[c].head <= Len(catalog[c])
                           /\ served[c].media <= served[c].head

(* A process in a cycle has a corpus, a daemon one of its queue; the       *)
(* manifest it planned with was served, and the head has not moved back    *)
(* since; what it has still to apply is an interval below that head.       *)
InCycle == {"fetch", "plan", "apply"}
CycleIsStale(p) ==
  /\ pc[p] \in InCycle => job[p] \in PolledCorpora
  /\ p \in Daemons /\ pc[p] \in InCycle => queue[p] # <<>>
  /\ pc[p] \in {"plan", "apply"} =>
       /\ manifest[p] # None /\ served[job[p]] # None
       /\ manifest[p].head <= served[job[p]].head
       /\ manifest[p].media <= manifest[p].head
  /\ pc[p] = "apply" =>
       \E a, b \in Nat : /\ 1 <= a /\ a <= b /\ b <= served[job[p]].head
                         /\ chain[p] = a .. b
CyclesAreStale == \A p \in Processes : CycleIsStale(p)

IInv == TypeOK /\ ServedIsPublished /\ CyclesAreStale /\ NeverAhead

-----------------------------------------------------------------------------
(* The operators of the feed and of the planner.                           *)

CatalogType == UNION {[1..n -> Kinds] : n \in 0..MaxSeq}

(* A catalog is a sequence of at most MaxSeq kinds.                        *)
LEMMA CatalogFacts ==
  ASSUME NEW kinds \in CatalogType
  PROVE  /\ kinds \in Seq(Kinds) /\ Len(kinds) \in 0..MaxSeq
         /\ DOMAIN kinds = 1..Len(kinds)
<1>1. PICK n \in 0..MaxSeq : kinds \in [1..n -> Kinds]
  BY DEF CatalogType
<1>2. n \in Nat
  BY <1>1, BoundsAssumption
<1>3. kinds \in Seq(Kinds)
  BY <1>1, <1>2, IsASeq
<1>4. DOMAIN kinds = 1..n
  BY <1>1
<1>5. Len(kinds) = n
  BY <1>2, <1>3, <1>4, LenProperties
<1> QED BY <1>1, <1>3, <1>4, <1>5

(* Publishing one more package gives a catalog again, with a media root.   *)
LEMMA AppendedCatalog ==
  ASSUME NEW kinds \in CatalogType, Len(kinds) < MaxSeq, NEW kind \in Kinds,
         kind = "baseline" <=> kinds = <<>>,
         kinds # <<>> => HasMediaRoot(kinds)
  PROVE  /\ Append(kinds, kind) \in CatalogType
         /\ Len(Append(kinds, kind)) = Len(kinds) + 1
         /\ HasMediaRoot(Append(kinds, kind))
<1> DEFINE longer == Append(kinds, kind)
           n == Len(kinds)
<1>1. kinds \in Seq(Kinds) /\ n \in 0..MaxSeq /\ DOMAIN kinds = 1..n
  BY CatalogFacts
<1>2. n \in Nat
  BY <1>1, BoundsAssumption
<1>3. /\ longer \in Seq(Kinds) /\ Len(longer) = n + 1
      /\ \A i \in 1..n : longer[i] = kinds[i]
      /\ longer[n + 1] = kind
  BY <1>1, <1>2, AppendProperties
<1>4. DOMAIN longer = 1..n + 1
  BY <1>2, <1>3, LenProperties
<1>5. longer \in [1..n + 1 -> Kinds]
  BY <1>3, LenProperties
<1>6. n + 1 \in 0..MaxSeq
  BY <1>1, <1>2, BoundsAssumption
<1>7. longer \in CatalogType
  BY <1>5, <1>6 DEF CatalogType
<1>8. HasMediaRoot(longer)
  <2>1. CASE kind \in MediaKinds
    <3>1. n + 1 \in DOMAIN longer /\ \A t \in DOMAIN longer : ~(t > n + 1)
      BY <1>2, <1>4
    <3>2. IsMediaRoot(longer, n + 1)
      BY <2>1, <1>3, <3>1 DEF IsMediaRoot
    <3> QED BY <3>1, <3>2 DEF HasMediaRoot
  <2>2. CASE kind = "incremental"
    <3>1. PICK s \in 1..n : IsMediaRoot(kinds, s)
      BY <2>2, <1>1 DEF HasMediaRoot
    <3>2. longer[s] \in MediaKinds
      BY <3>1, <1>3 DEF IsMediaRoot
    <3>3. ASSUME NEW t \in DOMAIN longer, t > s PROVE longer[t] = "incremental"
      <4>1. CASE t = n + 1
        BY <4>1, <2>2, <1>3
      <4>2. CASE t # n + 1
        <5>1. t \in 1..n
          BY <4>2, <1>2, <1>4
        <5> QED BY <5>1, <3>1, <3>3, <1>1, <1>3 DEF IsMediaRoot
      <4> QED BY <4>1, <4>2
    <3>4. s \in DOMAIN longer
      BY <1>2, <1>4
    <3> QED BY <3>2, <3>3, <3>4 DEF HasMediaRoot, IsMediaRoot
  <2> QED BY <2>1, <2>2 DEF Kinds
<1> QED BY <1>3, <1>7, <1>8

(* The manifest of a catalog is one, its head the newest package.          *)
LEMMA ManifestTyped ==
  ASSUME NEW kinds \in CatalogType, kinds # <<>>, HasMediaRoot(kinds)
  PROVE  /\ Manifest(kinds) \in ManifestType
         /\ Manifest(kinds).head = Len(kinds)
         /\ Manifest(kinds).media <= Len(kinds)
<1> DEFINE n == Len(kinds)
           root == MediaRoot(kinds)
           retained == {s \in DOMAIN kinds : s > root /\ s > n - MaxRetained}
<1>1. kinds \in Seq(Kinds) /\ n \in 0..MaxSeq /\ DOMAIN kinds = 1..n
  BY CatalogFacts
<1>2. n \in 1..MaxSeq
  BY <1>1, BoundsAssumption, EmptySeq
<1>3. root \in 1..n /\ kinds[root] \in MediaKinds
  BY <1>1 DEF HasMediaRoot, IsMediaRoot, MediaRoot
<1>4. IsFiniteSet(1..n) /\ Cardinality(1..n) = n
  BY <1>2, BoundsAssumption, FS_Interval
<1>5. retained \in SUBSET (1..n)
  BY <1>1
<1>6. Cardinality(retained) \in Nat /\ Cardinality(retained) <= n
  BY <1>4, <1>5, FS_Subset, FS_CardinalityType
<1>7. n - Cardinality(retained) \in 0..MaxSeq
  BY <1>2, <1>6, BoundsAssumption
<1>8. retained \in SUBSET (1..MaxSeq) /\ root \in 1..MaxSeq
  BY <1>2, <1>3, <1>5, BoundsAssumption
<1>9. Manifest(kinds) = [head |-> n, media |-> root, kind |-> kinds[root],
                         entries |-> retained, min |-> n - Cardinality(retained)]
  BY DEF Manifest
<1> HIDE DEF n, root, retained
<1>10. Manifest(kinds) \in ManifestType
  BY <1>2, <1>3, <1>7, <1>8, <1>9 DEF ManifestType
<1>11. Manifest(kinds).head = n /\ Manifest(kinds).media = root
  BY <1>9
<1>12. root <= n
  BY <1>2, <1>3, BoundsAssumption
<1> QED BY <1>10, <1>11, <1>12 DEF n

(* A plan is to apply an interval of the manifest it was made from.        *)
LEMMA PlannedInterval ==
  ASSUME NEW m \in ManifestType, m.media <= m.head, NEW cur \in Nat,
         Plan(m, cur).do \in {"baseline", "incremental"}
  PROVE  \E a, b \in Nat : /\ 1 <= a /\ a <= b /\ b <= m.head
                           /\ Plan(m, cur).steps = a .. b
<1>1. m.head \in 1..MaxSeq /\ m.media \in 1..MaxSeq
  BY DEF ManifestType
<1>2. m.head \in Nat /\ m.media \in Nat /\ 1 <= m.media /\ {m.media} = m.media .. m.media
  BY <1>1, BoundsAssumption
<1>3. CASE Plan(m, cur) = FreshBaseline(m)
  BY <1>2, <1>3 DEF FreshBaseline
<1>4. CASE /\ Plan(m, cur) = [do |-> "incremental", steps |-> Chain(m, cur)]
           /\ cur # m.head /\ ~(cur > m.head)
  <2>1. cur + 1 \in Nat /\ 1 <= cur + 1 /\ cur + 1 <= m.head
    BY <1>2, <1>4
  <2>2. Plan(m, cur).steps = cur + 1 .. m.head
    BY <1>4 DEF Chain
  <2> QED BY <2>1, <2>2, <1>2
<1>5. \/ Plan(m, cur) = FreshBaseline(m)
      \/ /\ Plan(m, cur) = [do |-> "incremental", steps |-> Chain(m, cur)]
         /\ cur # m.head /\ ~(cur > m.head)
      \/ Plan(m, cur).do \in {"nothing", "blocked"}
  BY DEF Plan, ForwardBaseline, BaselineIfKnown, Blocked
<1> QED BY <1>3, <1>4, <1>5

(* The least element of an interval is its start.                          *)
LEMMA LeastOfInterval ==
  ASSUME NEW a \in Nat, NEW b \in Nat, a <= b
  PROVE  /\ Least(a .. b) = a
         /\ (a .. b) \ {a} = a + 1 .. b
         /\ (a .. b) \ {a} = {} <=> a = b
<1>1. a \in a .. b /\ \A t \in a .. b : a <= t
  OBVIOUS
<1>2. \A s \in a .. b : (\A t \in a .. b : s <= t) => s = a
  BY <1>1
<1>3. Least(a .. b) = a
  BY <1>1, <1>2 DEF Least
<1> QED BY <1>3

-----------------------------------------------------------------------------
(* The end of a cycle.                                                     *)

Rests == {SubSeq(Polled, n + 1, Len(Polled)) : n \in 0..Len(Polled)}

(* The rest of a daemon's queue is a rest of what it polls.                *)
LEMMA QueueTail ==
  ASSUME NEW n \in 0..Len(Polled), SubSeq(Polled, n + 1, Len(Polled)) # <<>>
  PROVE  \E k \in 0..Len(Polled) :
           Tail(SubSeq(Polled, n + 1, Len(Polled))) = SubSeq(Polled, k + 1, Len(Polled))
<1>1. Len(Polled) \in Nat
  BY PolledAssumption, LenProperties
<1>2. n # Len(Polled)
  BY <1>1, SubSeqEmpty
<1>3. n + 1 \in 1..Len(Polled) /\ Len(Polled) \in n + 1 .. Len(Polled)
  BY <1>1, <1>2
<1>4. Tail(SubSeq(Polled, n + 1, Len(Polled))) = SubSeq(Polled, n + 2, Len(Polled))
  BY <1>1, <1>3, PolledAssumption, HeadTailOfSubSeq
<1>5. n + 1 \in 0..Len(Polled) /\ (n + 1) + 1 = n + 2
  BY <1>1, <1>3
<1> QED BY <1>4, <1>5

(* A sequence that is not empty differs from its tail.                     *)
LEMMA TailDiffers ==
  ASSUME NEW n \in 0..Len(Polled), SubSeq(Polled, n + 1, Len(Polled)) # <<>>
  PROVE  Tail(SubSeq(Polled, n + 1, Len(Polled))) # SubSeq(Polled, n + 1, Len(Polled))
<1>1. Len(Polled) \in Nat
  BY PolledAssumption, LenProperties
<1>2. \A i \in n + 1 .. Len(Polled) : Polled[i] \in PolledCorpora
  BY <1>1, PolledAssumption, ElementOfSeq
<1>3. SubSeq(Polled, n + 1, Len(Polled)) \in Seq(PolledCorpora)
  BY <1>1, <1>2, SubSeqProperties
<1>4. /\ Len(Tail(SubSeq(Polled, n + 1, Len(Polled))))
           = Len(SubSeq(Polled, n + 1, Len(Polled))) - 1
      /\ Len(SubSeq(Polled, n + 1, Len(Polled))) \in Nat
  BY <1>3, HeadTailProperties, LenProperties
<1> QED BY <1>4

(* Whatever its outcome, the end of a cycle leaves the process well typed  *)
(* and outside of any cycle.                                               *)
LEMMA FinishKeeps ==
  ASSUME TypeOK, CyclesAreStale, NEW p \in Processes, pc[p] \in InCycle,
         NEW outcome, Finish(p, outcome)
  PROVE  /\ pc' \in [Processes -> {"off", "guard", "sleep", "fetch", "plan", "apply"}]
         /\ job' \in [Processes -> {None} \cup PolledCorpora]
         /\ manifest' \in [Processes -> {None} \cup ManifestType]
         /\ chain' \in [Processes -> SUBSET (1..MaxSeq)]
         /\ queue' \in [Processes -> Rests]
         /\ burst' \in [Processes -> 0..MaxBurst - 1]
         /\ pc'[p] \in {"off", "guard"}
         /\ \A q \in Processes \ {p} :
              /\ pc'[q] = pc[q] /\ job'[q] = job[q] /\ manifest'[q] = manifest[q]
              /\ chain'[q] = chain[q] /\ queue'[q] = queue[q]
<1>1. /\ pc' = [pc EXCEPT ![p] = pc'[p]] /\ pc'[p] \in {"off", "guard"}
      /\ job' = [job EXCEPT ![p] = None]
      /\ manifest' = [manifest EXCEPT ![p] = None]
      /\ chain' = [chain EXCEPT ![p] = {}]
  BY DEF Finish, TypeOK
<1>2. CASE p \in Updates
  <2>1. queue' = queue /\ burst' = burst
    BY <1>2 DEF Finish
  <2> QED BY <1>1, <2>1 DEF TypeOK, Rests
<1>3. CASE p \notin Updates
  <2>1. p \in Daemons /\ queue[p] # <<>>
    BY <1>3 DEF Processes, CyclesAreStale, CycleIsStale
  <2>2. PICK n \in 0..Len(Polled) : queue[p] = SubSeq(Polled, n + 1, Len(Polled))
    BY DEF TypeOK
  <2>3. Tail(queue[p]) \in Rests /\ Tail(queue[p]) # queue[p]
    BY <2>1, <2>2, QueueTail, TailDiffers DEF Rests
  <2>4. /\ queue' = [queue EXCEPT ![p] = QueueAfter(p, outcome)]
        /\ burst' = [burst EXCEPT ![p] =
             IF QueueAfter(p, outcome) = queue[p] THEN @ + 1 ELSE 0]
    BY <1>3 DEF Finish
  <2>5. \/ QueueAfter(p, outcome) = queue[p] /\ burst[p] + 1 < MaxBurst
        \/ QueueAfter(p, outcome) = Tail(queue[p])
    BY DEF QueueAfter
  <2>6. queue \in [Processes -> Rests]
    BY DEF TypeOK, Rests
  <2>7. burst' \in [Processes -> 0..MaxBurst - 1]
    <3>1. QueueAfter(p, outcome) = queue[p] => burst[p] + 1 \in 0..MaxBurst - 1
      BY <2>3, <2>5, BoundsAssumption DEF TypeOK
    <3>2. 0 \in 0..MaxBurst - 1
      BY BoundsAssumption
    <3> QED BY <2>4, <3>1, <3>2 DEF TypeOK
  <2>8. queue' \in [Processes -> Rests] /\ \A q \in Processes \ {p} : queue'[q] = queue[q]
    BY <2>3, <2>4, <2>5, <2>6
  <2> QED BY <1>1, <2>7, <2>8 DEF TypeOK
<1> QED BY <1>2, <1>3

-----------------------------------------------------------------------------
(* Each action keeps the invariant.                                        *)

LEMMA PublishKeeps ==
  ASSUME IInv, NEW c \in PolledCorpora, NEW kind \in Kinds, Publish(c, kind)
  PROVE  IInv'
<1>1. /\ catalog \in [PolledCorpora -> CatalogType]
      /\ catalog' = [catalog EXCEPT ![c] = Append(catalog[c], kind)]
      /\ Len(catalog[c]) < MaxSeq /\ (kind = "baseline" <=> catalog[c] = <<>>)
  BY DEF IInv, TypeOK, CatalogType, Publish
<1>2. catalog[c] # <<>> => HasMediaRoot(catalog[c])
  BY DEF IInv, ServedIsPublished
<1>3. /\ Append(catalog[c], kind) \in CatalogType
      /\ Len(Append(catalog[c], kind)) = Len(catalog[c]) + 1
      /\ HasMediaRoot(Append(catalog[c], kind))
  BY <1>1, <1>2, AppendedCatalog
<1>4. UNCHANGED <<served, cursor, lease, pc, job, manifest, chain, queue, burst, shutdown, faults>>
  BY DEF Publish, process
<1>5. TypeOK'
  BY <1>1, <1>3, <1>4 DEF IInv, TypeOK, CatalogType
<1>6. ServedIsPublished'
  <2> SUFFICES ASSUME NEW d \in PolledCorpora
               PROVE  /\ catalog'[d] # <<>> => HasMediaRoot(catalog'[d])
                      /\ served'[d] # None => /\ served'[d].head <= Len(catalog'[d])
                                              /\ served'[d].media <= served'[d].head
    BY DEF ServedIsPublished, HasMediaRoot, IsMediaRoot
  <2>1. CASE d # c
    BY <2>1, <1>1, <1>4 DEF IInv, ServedIsPublished
  <2>2. CASE d = c
    <3>1. Len(catalog[c]) \in Nat
      BY <1>1, CatalogFacts, BoundsAssumption
    <3>2. served[c] # None => served[c].head \in Nat
      BY BoundsAssumption DEF IInv, TypeOK, ManifestType
    <3>3. catalog'[c] = Append(catalog[c], kind)
      BY <1>1
    <3>4. served[c] # None => /\ served[c].head <= Len(catalog[c])
                              /\ served[c].media <= served[c].head
      BY DEF IInv, ServedIsPublished
    <3> QED BY <2>2, <1>3, <1>4, <3>1, <3>2, <3>3, <3>4
  <2> QED BY <2>1, <2>2
<1>7. CyclesAreStale'
  BY <1>4 DEF IInv, CyclesAreStale, CycleIsStale
<1>8. NeverAhead'
  BY <1>4 DEF IInv, NeverAhead
<1> QED BY <1>5, <1>6, <1>7, <1>8 DEF IInv

LEMMA PublishManifestKeeps ==
  ASSUME IInv, NEW c \in PolledCorpora, PublishManifest(c)
  PROVE  IInv'
<1>1. catalog[c] \in CatalogType /\ catalog[c] # <<>> /\ HasMediaRoot(catalog[c])
  BY DEF IInv, TypeOK, CatalogType, ServedIsPublished, PublishManifest
<1> DEFINE m == Manifest(catalog[c])
<1>2. m \in ManifestType /\ m.head = Len(catalog[c]) /\ m.media <= Len(catalog[c])
  BY <1>1, ManifestTyped
<1>3. /\ served' = [served EXCEPT ![c] = m]
      /\ UNCHANGED <<catalog, cursor, lease, pc, job, manifest, chain, queue, burst, shutdown, faults>>
  BY DEF PublishManifest, process
<1> HIDE DEF m
<1>4. m # None /\ m.head \in Nat /\ Len(catalog[c]) \in Nat
  BY <1>1, <1>2, NoneAssumption, BoundsAssumption, CatalogFacts DEF ManifestType
<1>5. served \in [PolledCorpora -> {None} \cup ManifestType]
  BY DEF IInv, TypeOK
<1>6. \A d \in PolledCorpora : served[d] # None =>
        /\ served'[d] # None /\ served[d].head \in Nat /\ served'[d].head \in Nat
        /\ served[d].head <= served'[d].head
  <2> SUFFICES ASSUME NEW d \in PolledCorpora, served[d] # None
               PROVE  /\ served'[d] # None /\ served[d].head \in Nat /\ served'[d].head \in Nat
                      /\ served[d].head <= served'[d].head
    OBVIOUS
  <2>1. served[d].head \in Nat /\ served[d].head <= Len(catalog[d])
    BY <1>5, BoundsAssumption DEF IInv, ServedIsPublished, ManifestType
  <2>2. CASE d = c
    BY <2>1, <2>2, <1>2, <1>3, <1>4, <1>5
  <2>3. CASE d # c
    BY <2>1, <2>3, <1>3, <1>5
  <2> QED BY <2>2, <2>3
<1>7. TypeOK'
  BY <1>2, <1>3 DEF IInv, TypeOK
<1>8. ServedIsPublished'
  BY <1>2, <1>3, <1>5 DEF IInv, ServedIsPublished, HasMediaRoot, IsMediaRoot
<1>9. CyclesAreStale'
  <2> SUFFICES ASSUME NEW p \in Processes
               PROVE  CycleIsStale(p)'
    BY DEF CyclesAreStale
  <2>1. CycleIsStale(p)
    BY DEF IInv, CyclesAreStale
  <2>2. pc[p] \in {"plan", "apply"} =>
          /\ job[p] \in PolledCorpora /\ served'[job[p]] # None
          /\ manifest[p].head <= served'[job[p]].head
    <3> HAVE pc[p] \in {"plan", "apply"}
    <3>1. /\ job[p] \in PolledCorpora /\ served[job[p]] # None /\ manifest[p] # None
          /\ manifest[p].head <= served[job[p]].head
      BY <2>1 DEF CycleIsStale, InCycle
    <3>2. manifest[p].head \in Nat
      BY <3>1, BoundsAssumption DEF IInv, TypeOK, ManifestType
    <3> QED BY <3>1, <3>2, <1>6
  <2>3. ASSUME pc[p] = "apply", NEW a \in Nat, NEW b \in Nat, 1 <= a, a <= b,
               b <= served[job[p]].head, chain[p] = a .. b
        PROVE  b <= served'[job[p]].head
    BY <2>1, <2>3, <1>6 DEF CycleIsStale, InCycle
  <2> QED BY <2>1, <2>2, <2>3, <1>3 DEF CycleIsStale
<1>10. NeverAhead'
  <2> SUFFICES ASSUME NEW d \in PolledCorpora, cursor[d] # 0
               PROVE  served'[d] # None /\ cursor[d] <= served'[d].head
    BY <1>3 DEF NeverAhead
  <2>1. cursor[d] \in Nat /\ served[d] # None /\ cursor[d] <= served[d].head
    BY BoundsAssumption DEF IInv, TypeOK, NeverAhead
  <2> QED BY <2>1, <1>6
<1> QED BY <1>7, <1>8, <1>9, <1>10 DEF IInv

(* A step of a process that leaves the feed alone keeps the invariant if   *)
(* the process ends up with types, a stale cycle and no cursor ahead.      *)
LEMMA OwnStepKeeps ==
  ASSUME IInv, TypeOK', NeverAhead', NEW p \in Processes, CycleIsStale(p)',
         UNCHANGED <<catalog, served>>,
         \A q \in Processes \ {p} :
           /\ pc'[q] = pc[q] /\ job'[q] = job[q] /\ manifest'[q] = manifest[q]
           /\ chain'[q] = chain[q] /\ queue'[q] = queue[q]
  PROVE  IInv'
<1>1. CyclesAreStale'
  <2> SUFFICES ASSUME NEW q \in Processes \ {p}
               PROVE  CycleIsStale(q)'
    BY DEF CyclesAreStale
  <2>1. CycleIsStale(q) /\ served' = served
    BY DEF IInv, CyclesAreStale
  <2>2. /\ pc'[q] = pc[q] /\ job'[q] = job[q] /\ manifest'[q] = manifest[q]
        /\ chain'[q] = chain[q] /\ queue'[q] = queue[q]
    OBVIOUS
  <2> QED BY <2>1, <2>2 DEF CycleIsStale
<1>2. ServedIsPublished'
  BY DEF IInv, ServedIsPublished, HasMediaRoot, IsMediaRoot
<1> QED BY <1>1, <1>2 DEF IInv

(* The end of a cycle is such a step.                                      *)
LEMMA FinishedKeeps ==
  ASSUME IInv, NEW p \in Processes, pc[p] \in InCycle, NEW outcome, Finish(p, outcome),
         UNCHANGED <<catalog, served, lease, shutdown>>, faults' \in 0..MaxFaults,
         cursor' \in [PolledCorpora -> 0..MaxSeq], NeverAhead'
  PROVE  IInv'
<1>1. TypeOK /\ CyclesAreStale
  BY DEF IInv
<1>2. /\ pc' \in [Processes -> {"off", "guard", "sleep", "fetch", "plan", "apply"}]
      /\ job' \in [Processes -> {None} \cup PolledCorpora]
      /\ manifest' \in [Processes -> {None} \cup ManifestType]
      /\ chain' \in [Processes -> SUBSET (1..MaxSeq)]
      /\ queue' \in [Processes -> Rests]
      /\ burst' \in [Processes -> 0..MaxBurst - 1]
      /\ pc'[p] \in {"off", "guard"}
      /\ \A q \in Processes \ {p} :
           /\ pc'[q] = pc[q] /\ job'[q] = job[q] /\ manifest'[q] = manifest[q]
           /\ chain'[q] = chain[q] /\ queue'[q] = queue[q]
  BY <1>1, FinishKeeps
<1>3. TypeOK'
  BY <1>1, <1>2 DEF TypeOK, Rests
<1>4. CycleIsStale(p)'
  BY <1>2 DEF CycleIsStale, InCycle
<1> QED BY <1>2, <1>3, <1>4, OwnStepKeeps

(* Where the cursors and the feed stay, no cursor gets ahead.              *)
LEMMA StillNotAhead ==
  ASSUME IInv, UNCHANGED <<cursor, served>>
  PROVE  NeverAhead' /\ cursor' \in [PolledCorpora -> 0..MaxSeq]
BY DEF IInv, TypeOK, NeverAhead

LEMMA FetchManifestKeeps ==
  ASSUME IInv, NEW p \in Processes, FetchManifest(p)
  PROVE  IInv'
<1>1. /\ UNCHANGED <<catalog, served, cursor, lease, shutdown, faults>>
      /\ pc[p] = "fetch" /\ pc[p] \in InCycle
  BY DEF FetchManifest, producer, InCycle
<1>2. TypeOK /\ CycleIsStale(p) /\ job[p] \in PolledCorpora /\ faults \in 0..MaxFaults
  BY <1>1 DEF IInv, TypeOK, CyclesAreStale, CycleIsStale
<1>3. NeverAhead' /\ cursor' \in [PolledCorpora -> 0..MaxSeq]
  BY <1>1, StillNotAhead
<1>4. CASE served[job[p]] = None
  <2>1. Finish(p, "retryable")
    BY <1>4 DEF FetchManifest
  <2> QED BY <2>1, <1>1, <1>2, <1>3, FinishedKeeps
<1>5. CASE served[job[p]] # None
  <2>1. /\ pc' = [pc EXCEPT ![p] = "plan"]
        /\ manifest' = [manifest EXCEPT ![p] = served[job[p]]]
        /\ UNCHANGED <<job, chain, queue, burst>>
    BY <1>5 DEF FetchManifest, Goto
  <2>2. TypeOK'
    BY <1>1, <1>2, <1>5, <2>1 DEF TypeOK
  <2>3. /\ served[job[p]].head <= served[job[p]].head
        /\ served[job[p]].media <= served[job[p]].head
    BY <1>2, <1>5, BoundsAssumption DEF IInv, TypeOK, ServedIsPublished, ManifestType
  <2>4. pc'[p] = "plan" /\ manifest'[p] = served[job[p]]
    BY <1>2, <2>1 DEF TypeOK
  <2>5. CycleIsStale(p)'
    BY <1>1, <1>2, <1>5, <2>1, <2>3, <2>4 DEF CycleIsStale, InCycle
  <2> QED BY <1>1, <1>2, <1>3, <2>1, <2>2, <2>5, OwnStepKeeps DEF TypeOK
<1> QED BY <1>4, <1>5

LEMMA PlanCatchupKeeps ==
  ASSUME IInv, NEW p \in Processes, PlanCatchup(p)
  PROVE  IInv'
<1> DEFINE plan == Plan(manifest[p], cursor[job[p]])
<1>1. /\ UNCHANGED <<catalog, served, cursor, lease, shutdown, faults>>
      /\ pc[p] = "plan" /\ pc[p] \in InCycle
  BY DEF PlanCatchup, producer, InCycle
<1>2. TypeOK /\ CycleIsStale(p) /\ faults \in 0..MaxFaults
  BY DEF IInv, TypeOK, CyclesAreStale
<1>3. /\ job[p] \in PolledCorpora /\ manifest[p] \in ManifestType
      /\ manifest[p].media <= manifest[p].head
      /\ served[job[p]] \in ManifestType
      /\ manifest[p].head <= served[job[p]].head
      /\ cursor[job[p]] \in Nat
  BY <1>1, <1>2, BoundsAssumption DEF TypeOK, CycleIsStale
<1>4. NeverAhead' /\ cursor' \in [PolledCorpora -> 0..MaxSeq]
  BY <1>1, StillNotAhead
<1>5. \/ Finish(p, "uptodate") \/ Finish(p, "rejected")
      \/ /\ plan.do \in {"baseline", "incremental"}
         /\ pc' = [pc EXCEPT ![p] = "apply"]
         /\ chain' = [chain EXCEPT ![p] = plan.steps]
         /\ UNCHANGED <<job, manifest, queue, burst>>
  BY DEF PlanCatchup, Goto
<1>6. CASE Finish(p, "uptodate") \/ Finish(p, "rejected")
  BY <1>1, <1>2, <1>4, <1>6, FinishedKeeps
<1> HIDE DEF plan
<1>7. CASE /\ plan.do \in {"baseline", "incremental"}
           /\ pc' = [pc EXCEPT ![p] = "apply"]
           /\ chain' = [chain EXCEPT ![p] = plan.steps]
           /\ UNCHANGED <<job, manifest, queue, burst>>
  <2>1. PICK a \in Nat, b \in Nat : /\ 1 <= a /\ a <= b /\ b <= manifest[p].head
                                    /\ plan.steps = a .. b
    BY <1>3, <1>7, PlannedInterval DEF plan
  <2>2. /\ manifest[p].head \in Nat /\ manifest[p].head <= MaxSeq
        /\ served[job[p]].head \in Nat
    BY <1>3, BoundsAssumption DEF ManifestType
  <2>3. a .. b \in SUBSET (1..MaxSeq) /\ a .. b # {} /\ b <= served[job[p]].head
    BY <1>3, <2>1, <2>2, BoundsAssumption
  <2>4. pc'[p] = "apply" /\ chain'[p] = a .. b
    BY <1>2, <1>7, <2>1 DEF TypeOK
  <2>5. TypeOK'
    <3>1. \A q \in Processes : pc'[q] = "apply" => chain'[q] # {}
      BY <1>2, <1>7, <2>3, <2>4 DEF TypeOK
    <3>2. /\ pc' \in [Processes -> {"off", "guard", "sleep", "fetch", "plan", "apply"}]
          /\ chain' \in [Processes -> SUBSET (1..MaxSeq)]
      BY <1>2, <1>7, <2>1, <2>3 DEF TypeOK
    <3> QED BY <1>1, <1>2, <1>7, <3>1, <3>2 DEF TypeOK
  <2>6. CycleIsStale(p)'
    BY <1>1, <1>2, <1>7, <2>1, <2>3, <2>4 DEF CycleIsStale, InCycle
  <2> QED BY <1>1, <1>2, <1>4, <1>7, <2>5, <2>6, OwnStepKeeps DEF TypeOK
<1> QED BY <1>5, <1>6, <1>7

LEMMA ApplyNextKeeps ==
  ASSUME IInv, NEW p \in Processes, ApplyNext(p)
  PROVE  IInv'
<1> DEFINE c == job[p]
           next == Least(chain[p])
           rest == chain[p] \ {next}
<1>1. /\ UNCHANGED <<catalog, served, lease, shutdown, faults>>
      /\ pc[p] = "apply" /\ pc[p] \in InCycle
  BY DEF ApplyNext, producer, InCycle
<1>2. TypeOK /\ CycleIsStale(p) /\ NeverAhead /\ faults \in 0..MaxFaults
  BY DEF IInv, TypeOK, CyclesAreStale
<1>3. c \in PolledCorpora /\ served[c] \in ManifestType /\ served[c] # None
  BY <1>1, <1>2 DEF TypeOK, CycleIsStale
<1>4. PICK a \in Nat, b \in Nat : /\ 1 <= a /\ a <= b /\ b <= served[c].head
                                  /\ chain[p] = a .. b
  BY <1>1, <1>2 DEF CycleIsStale
<1>5. /\ next = a /\ rest = a + 1 .. b /\ (rest = {} <=> a = b)
  BY <1>4, LeastOfInterval
<1>6. served[c].head \in Nat /\ served[c].head <= MaxSeq
  BY <1>3, BoundsAssumption DEF ManifestType
<1>7. a \in 0..MaxSeq /\ a <= served[c].head
  BY <1>4, <1>6, BoundsAssumption
<1>8. \/ /\ cursor' = [cursor EXCEPT ![c] = next]
         /\ \/ Finish(p, "progress")
            \/ /\ rest # {}
               /\ chain' = [chain EXCEPT ![p] = rest]
               /\ UNCHANGED <<pc, job, manifest, queue, burst>>
      \/ Finish(p, "rejected") /\ UNCHANGED cursor
  BY DEF ApplyNext
<1> HIDE DEF next, rest, c
<1>9. cursor' \in [PolledCorpora -> 0..MaxSeq] /\ NeverAhead'
  <2>1. CASE UNCHANGED cursor
    BY <2>1, <1>1, <1>2 DEF TypeOK, NeverAhead
  <2>2. CASE cursor' = [cursor EXCEPT ![c] = next]
    BY <2>2, <1>1, <1>2, <1>3, <1>5, <1>7 DEF TypeOK, NeverAhead
  <2> QED BY <2>1, <2>2, <1>8
<1>10. CASE Finish(p, "progress") \/ Finish(p, "rejected")
  BY <1>1, <1>2, <1>9, <1>10, FinishedKeeps
<1>11. CASE /\ rest # {} /\ chain' = [chain EXCEPT ![p] = rest]
            /\ UNCHANGED <<pc, job, manifest, queue, burst>>
  <2>1. /\ a + 1 \in Nat /\ 1 <= a + 1 /\ a + 1 <= b
        /\ a + 1 .. b \in SUBSET (1..MaxSeq)
    BY <1>4, <1>5, <1>6, <1>11, BoundsAssumption
  <2>2. chain'[p] = a + 1 .. b /\ chain'[p] # {}
    BY <1>2, <1>5, <1>11 DEF TypeOK
  <2>3. TypeOK'
    <3>1. chain' \in [Processes -> SUBSET (1..MaxSeq)]
      BY <1>2, <1>5, <1>11, <2>1 DEF TypeOK
    <3>2. \A q \in Processes : pc'[q] = "apply" => chain'[q] # {}
      BY <1>2, <1>11, <2>2 DEF TypeOK
    <3> QED BY <1>1, <1>2, <1>9, <1>11, <3>1, <3>2 DEF TypeOK
  <2>4. \E i, j \in Nat : /\ 1 <= i /\ i <= j /\ j <= served[c].head
                          /\ chain'[p] = i .. j
    BY <1>4, <2>1, <2>2
  <2>5. CycleIsStale(p)'
    BY <1>1, <1>2, <1>11, <2>4 DEF CycleIsStale, InCycle, c
  <2> QED BY <1>1, <1>2, <1>9, <1>11, <2>3, <2>5, OwnStepKeeps DEF TypeOK
<1> QED BY <1>8, <1>10, <1>11

LEMMA TransientFaultKeeps ==
  ASSUME IInv, NEW p \in Processes, TransientFault(p)
  PROVE  IInv'
<1>1. /\ UNCHANGED <<catalog, served, cursor, lease, shutdown>>
      /\ pc[p] \in InCycle /\ Finish(p, "retryable") /\ faults' = faults + 1
      /\ faults < MaxFaults
  BY DEF TransientFault, producer, InCycle
<1>2. faults' \in 0..MaxFaults
  BY <1>1, BoundsAssumption DEF IInv, TypeOK
<1>3. NeverAhead' /\ cursor' \in [PolledCorpora -> 0..MaxSeq]
  BY <1>1, StillNotAhead
<1> QED BY <1>1, <1>2, <1>3, FinishedKeeps

(* The end of a process, however it comes: on a lost lease, on a shutdown, *)
(* or in a crash.                                                          *)
LEMMA ExitKeeps ==
  ASSUME IInv, NEW p \in Processes, Exit(p), faults' \in 0..MaxFaults
  PROVE  IInv'
<1>1. UNCHANGED <<catalog, served, cursor>>
  BY DEF Exit, producer
<1>2. TypeOK
  BY DEF IInv
<1>3. NeverAhead' /\ cursor' \in [PolledCorpora -> 0..MaxSeq]
  BY <1>1, StillNotAhead
<1>4. /\ pc' = [pc EXCEPT ![p] = "off"] /\ job' = [job EXCEPT ![p] = None]
      /\ manifest' = [manifest EXCEPT ![p] = None] /\ chain' = [chain EXCEPT ![p] = {}]
      /\ queue' = [queue EXCEPT ![p] = <<>>] /\ burst' = [burst EXCEPT ![p] = 0]
      /\ lease' \in {None, lease} /\ shutdown' \subseteq shutdown
  BY DEF Exit
<1>5. <<>> \in Rests
  <2>1. Len(Polled) \in 0..Len(Polled)
    BY PolledAssumption, LenProperties
  <2>2. SubSeq(Polled, Len(Polled) + 1, Len(Polled)) = <<>>
    BY <2>1, SubSeqEmpty
  <2> QED BY <2>1, <2>2 DEF Rests
<1>6. TypeOK'
  <2>1. queue' \in [Processes -> Rests]
    BY <1>2, <1>4, <1>5 DEF TypeOK, Rests
  <2>2. burst' \in [Processes -> 0..MaxBurst - 1]
    <3>1. 0 \in 0..MaxBurst - 1
      BY BoundsAssumption
    <3> QED BY <1>2, <1>4, <3>1 DEF TypeOK
  <2>3. /\ pc' \in [Processes -> {"off", "guard", "sleep", "fetch", "plan", "apply"}]
        /\ job' \in [Processes -> {None} \cup PolledCorpora]
        /\ manifest' \in [Processes -> {None} \cup ManifestType]
        /\ chain' \in [Processes -> SUBSET (1..MaxSeq)]
        /\ lease' \in {None} \cup Daemons /\ shutdown' \subseteq Daemons
    BY <1>2, <1>4 DEF TypeOK
  <2>4. \A q \in Processes : pc'[q] = "apply" => chain'[q] # {}
    BY <1>2, <1>4 DEF TypeOK
  <2> QED BY <1>1, <1>2, <1>3, <2>1, <2>2, <2>3, <2>4 DEF TypeOK, Rests
<1>7. CycleIsStale(p)'
  BY <1>2, <1>4 DEF CycleIsStale, InCycle, TypeOK
<1>8. \A q \in Processes \ {p} :
        /\ pc'[q] = pc[q] /\ job'[q] = job[q] /\ manifest'[q] = manifest[q]
        /\ chain'[q] = chain[q] /\ queue'[q] = queue[q]
  BY <1>2, <1>4 DEF TypeOK
<1> QED BY <1>1, <1>3, <1>6, <1>7, <1>8, OwnStepKeeps

(* A process starts, or a daemon goes on to its next corpus or round.      *)
LEMMA StartUpdateKeeps ==
  ASSUME IInv, NEW p \in Updates, NEW c \in PolledCorpora, StartUpdate(p, c)
  PROVE  IInv'
<1>1. /\ UNCHANGED <<catalog, served, cursor, lease, manifest, chain, queue, burst,
                     shutdown, faults>>
      /\ pc' = [pc EXCEPT ![p] = "fetch"] /\ job' = [job EXCEPT ![p] = c]
  BY DEF StartUpdate, Goto, producer
<1>2. TypeOK /\ p \in Processes /\ p \notin Daemons
  BY ProcsAssumption DEF IInv, Processes
<1>3. TypeOK'
  BY <1>1, <1>2 DEF TypeOK
<1>4. CycleIsStale(p)'
  BY <1>1, <1>2 DEF CycleIsStale, TypeOK
<1> QED BY <1>1, <1>2, <1>3, <1>4, StillNotAhead, OwnStepKeeps DEF TypeOK

LEMMA StartDaemonKeeps ==
  ASSUME IInv, NEW p \in Daemons, StartDaemon(p)
  PROVE  IInv'
<1>1. /\ UNCHANGED <<catalog, served, cursor, job, manifest, chain, shutdown, faults>>
      /\ pc' = [pc EXCEPT ![p] = "guard"] /\ lease' = p
      /\ queue' = [queue EXCEPT ![p] = Polled] /\ burst' = [burst EXCEPT ![p] = 0]
  BY DEF StartDaemon, Goto, producer
<1>2. TypeOK /\ p \in Processes
  BY DEF IInv, Processes
<1>3. Polled \in Rests
  BY PolledAssumption, LenProperties, SubSeqFull DEF Rests
<1>4. 0 \in 0..MaxBurst - 1
  BY BoundsAssumption
<1>5. TypeOK'
  BY <1>1, <1>2, <1>3, <1>4 DEF TypeOK, Rests
<1>6. CycleIsStale(p)'
  BY <1>1, <1>2 DEF CycleIsStale, InCycle, TypeOK
<1> QED BY <1>1, <1>2, <1>5, <1>6, StillNotAhead, OwnStepKeeps DEF TypeOK

LEMMA GuardProceedsKeeps ==
  ASSUME IInv, NEW p \in Daemons, GuardProceeds(p)
  PROVE  IInv'
<1>1. /\ UNCHANGED <<catalog, served, cursor, lease, manifest, chain, queue, burst,
                     shutdown, faults>>
      /\ pc' = [pc EXCEPT ![p] = "fetch"] /\ job' = [job EXCEPT ![p] = Head(queue[p])]
      /\ queue[p] # <<>>
  BY DEF GuardProceeds, Goto, producer
<1>2. TypeOK /\ p \in Processes
  BY DEF IInv, Processes
<1>3. Head(queue[p]) \in PolledCorpora
  <2>1. PICK n \in 0..Len(Polled) : queue[p] = SubSeq(Polled, n + 1, Len(Polled))
    BY <1>2 DEF TypeOK
  <2>2. Len(Polled) \in Nat /\ n # Len(Polled)
    BY <1>1, <2>1, PolledAssumption, LenProperties, SubSeqEmpty
  <2>3. n + 1 \in 1..Len(Polled) /\ Len(Polled) \in n + 1 .. Len(Polled)
    BY <2>2
  <2>4. Head(queue[p]) = Polled[n + 1]
    BY <2>1, <2>3, PolledAssumption, HeadTailOfSubSeq
  <2> QED BY <2>3, <2>4, PolledAssumption, ElementOfSeq
<1>4. TypeOK'
  BY <1>1, <1>2, <1>3 DEF TypeOK
<1>5. CycleIsStale(p)'
  BY <1>1, <1>2, <1>3 DEF CycleIsStale, TypeOK
<1> QED BY <1>1, <1>2, <1>4, <1>5, StillNotAhead, OwnStepKeeps DEF TypeOK

LEMMA SleepKeeps ==
  ASSUME IInv, NEW p \in Daemons, Sleep(p) \/ Wake(p)
  PROVE  IInv'
<1>1. /\ UNCHANGED <<catalog, served, cursor, lease, job, manifest, chain, burst,
                     shutdown, faults>>
      /\ pc' = [pc EXCEPT ![p] = pc'[p]] /\ pc'[p] \in {"guard", "sleep"}
      /\ queue' \in {queue, [queue EXCEPT ![p] = Polled]}
  BY DEF Sleep, Wake, Goto, producer, IInv, TypeOK, Processes
<1>2. TypeOK /\ p \in Processes
  BY DEF IInv, Processes
<1>3. Polled \in Rests
  BY PolledAssumption, LenProperties, SubSeqFull DEF Rests
<1>4. queue' \in [Processes -> Rests] /\ \A q \in Processes \ {p} : queue'[q] = queue[q]
  BY <1>1, <1>2, <1>3 DEF TypeOK, Rests
<1>5. TypeOK'
  BY <1>1, <1>2, <1>4 DEF TypeOK, Rests
<1>6. CycleIsStale(p)'
  BY <1>1 DEF CycleIsStale, InCycle
<1> QED BY <1>1, <1>2, <1>4, <1>5, <1>6, StillNotAhead, OwnStepKeeps DEF TypeOK

LEMMA RequestShutdownKeeps ==
  ASSUME IInv, NEW p \in Daemons, RequestShutdown(p)
  PROVE  IInv'
<1>1. /\ UNCHANGED <<catalog, served, cursor, lease, pc, job, manifest, chain, queue, burst>>
      /\ shutdown' = shutdown \cup {p} /\ faults' = faults + 1 /\ faults < MaxFaults
  BY DEF RequestShutdown, producer, process
<1>2. TypeOK'
  BY <1>1, BoundsAssumption DEF IInv, TypeOK
<1>3. CyclesAreStale' /\ ServedIsPublished'
  BY <1>1 DEF IInv, CyclesAreStale, CycleIsStale, ServedIsPublished, HasMediaRoot, IsMediaRoot
<1> QED BY <1>1, <1>2, <1>3, StillNotAhead DEF IInv

LEMMA LoseLeaseKeeps ==
  ASSUME IInv, LoseLease
  PROVE  IInv'
<1>1. /\ UNCHANGED <<catalog, served, cursor, pc, job, manifest, chain, queue, burst, shutdown>>
      /\ lease' = None /\ faults' = faults + 1 /\ faults < MaxFaults
  BY DEF LoseLease, producer, process
<1>2. TypeOK'
  BY <1>1, BoundsAssumption DEF IInv, TypeOK
<1>3. CyclesAreStale' /\ ServedIsPublished'
  BY <1>1 DEF IInv, CyclesAreStale, CycleIsStale, ServedIsPublished, HasMediaRoot, IsMediaRoot
<1> QED BY <1>1, <1>2, <1>3, StillNotAhead DEF IInv

-----------------------------------------------------------------------------
(* The invariant holds, and with it what it was strengthened for.          *)

LEMMA InitIInv == Init => IInv
<1> SUFFICES ASSUME Init PROVE IInv
  OBVIOUS
<1>1. <<>> \in CatalogType
  <2>1. 0 \in 0..MaxSeq /\ <<>> \in [1..0 -> Kinds]
    BY BoundsAssumption
  <2> QED BY <2>1 DEF CatalogType
<1>2. <<>> \in Rests
  <2>1. Len(Polled) \in 0..Len(Polled)
    BY PolledAssumption, LenProperties
  <2>2. SubSeq(Polled, Len(Polled) + 1, Len(Polled)) = <<>>
    BY <2>1, SubSeqEmpty
  <2> QED BY <2>1, <2>2 DEF Rests
<1>3. 0 \in 0..MaxSeq /\ 0 \in 0..MaxBurst - 1 /\ 0 \in 0..MaxFaults
  BY BoundsAssumption
<1>4. TypeOK
  BY <1>1, <1>2, <1>3 DEF Init, TypeOK, CatalogType, Rests
<1>5. ServedIsPublished /\ CyclesAreStale /\ NeverAhead
  BY DEF Init, ServedIsPublished, CyclesAreStale, CycleIsStale, InCycle, NeverAhead
<1> QED BY <1>4, <1>5 DEF IInv

LEMMA NextIInv == IInv /\ [Next]_vars => IInv'
<1> SUFFICES ASSUME IInv, [Next]_vars PROVE IInv'
  OBVIOUS
<1>1. ASSUME NEW c \in PolledCorpora, NEW kind \in MediaKinds \cup {"incremental"}, Publish(c, kind)
      PROVE  IInv'
  BY <1>1, PublishKeeps DEF Kinds
<1>2. ASSUME NEW c \in PolledCorpora, PublishManifest(c) PROVE IInv'
  BY <1>2, PublishManifestKeeps
<1>3. ASSUME NEW p \in Processes, CycleStep(p) PROVE IInv'
  BY <1>3, FetchManifestKeeps, PlanCatchupKeeps, ApplyNextKeeps DEF CycleStep
<1>4. ASSUME NEW p \in Processes, TransientFault(p) PROVE IInv'
  BY <1>4, TransientFaultKeeps
<1>5. ASSUME NEW p \in Processes, Crash(p) PROVE IInv'
  <2>1. faults' \in 0..MaxFaults
    BY <1>5, BoundsAssumption DEF Crash, IInv, TypeOK
  <2> QED BY <1>5, <2>1, ExitKeeps DEF Crash
<1>6. ASSUME NEW p \in Updates, NEW c \in PolledCorpora, StartUpdate(p, c) PROVE IInv'
  BY <1>6, StartUpdateKeeps
<1>7. ASSUME NEW p \in Daemons, StartDaemon(p) PROVE IInv'
  BY <1>7, StartDaemonKeeps
<1>8. ASSUME NEW p \in Daemons, GuardStops(p) \/ WakeToStop(p) PROVE IInv'
  <2>1. Exit(p) /\ faults' \in 0..MaxFaults /\ p \in Processes
    BY <1>8 DEF GuardStops, WakeToStop, IInv, TypeOK, Processes
  <2> QED BY <2>1, ExitKeeps
<1>9. ASSUME NEW p \in Daemons, DaemonStep(p) PROVE IInv'
  BY <1>8, <1>9, GuardProceedsKeeps, SleepKeeps DEF DaemonStep
<1>10. ASSUME NEW p \in Daemons, RequestShutdown(p) PROVE IInv'
  BY <1>10, RequestShutdownKeeps
<1>11. CASE LoseLease
  BY <1>11, LoseLeaseKeeps
<1>12. CASE UNCHANGED vars
  BY <1>12 DEF vars, IInv, TypeOK, ServedIsPublished, HasMediaRoot, IsMediaRoot,
               CyclesAreStale, CycleIsStale, NeverAhead
<1> QED BY <1>1, <1>2, <1>3, <1>4, <1>5, <1>6, <1>7, <1>9, <1>10, <1>11, <1>12 DEF Next

(* The variables keep their types: a process never indexes an empty chain  *)
(* (run_catchup), the daemon never polls past its list or bursts beyond    *)
(* max_burst (daemon.rs).                                                  *)
THEOREM TypeCorrect == Spec => []TypeOK
<1>1. IInv => TypeOK
  BY DEF IInv
<1> QED BY <1>1, InitIInv, NextIInv, PTL DEF Spec

(* No site is ahead of the manifest that is served, whatever its processes *)
(* planned with before the manifest moved (plan_catchup, run_catchup).     *)
THEOREM NeverAheadAlways == Spec => []NeverAhead
<1>1. IInv => NeverAhead
  BY DEF IInv
<1> QED BY <1>1, InitIInv, NextIInv, PTL DEF Spec

(* A cursor only moves by a package the chain allows at that place: by the *)
(* next incremental, by a first baseline or by a later rebaseline, also if *)
(* two processes work on plans that are stale (the guards of apply).       *)
THEOREM FollowsChainAlways == Spec => FollowsChain
<1> DEFINE Follows ==
      \A c \in PolledCorpora : cursor'[c] # cursor[c] =>
        \/ cursor'[c] = cursor[c] + 1 /\ catalog[c][cursor'[c]] = "incremental"
        \/ cursor[c] = 0 /\ catalog[c][cursor'[c]] \in MediaKinds
        \/ cursor'[c] > cursor[c] /\ catalog[c][cursor'[c]] = "rebaseline"
<1>1. ASSUME IInv, NEW p \in Processes, ApplyNext(p) PROVE Follows
  <2> DEFINE s == Least(chain[p])
             c == job[p]
  <2>1. \/ UNCHANGED cursor
        \/ /\ cursor' = [cursor EXCEPT ![c] = s]
           /\ s \in DOMAIN catalog[c] /\ (cursor[c] = s \/ Accepts(c, s))
    BY <1>1 DEF ApplyNext
  <2>2. c \in PolledCorpora
    BY <1>1 DEF ApplyNext, IInv, CyclesAreStale, CycleIsStale, InCycle
  <2>3. catalog[c] \in CatalogType /\ cursor \in [PolledCorpora -> 0..MaxSeq]
    BY <1>1, <2>2 DEF IInv, TypeOK, CatalogType
  <2> HIDE DEF s, c
  <2>4. CASE UNCHANGED cursor
    BY <2>4
  <2>5. CASE /\ cursor' = [cursor EXCEPT ![c] = s]
             /\ s \in DOMAIN catalog[c] /\ (cursor[c] = s \/ Accepts(c, s))
    <3>1. s \in Nat /\ cursor[c] \in Nat
      BY <2>2, <2>3, <2>5, CatalogFacts, BoundsAssumption
    <3>2. cursor'[c] = s /\ \A d \in PolledCorpora \ {c} : cursor'[d] = cursor[d]
      BY <2>2, <2>3, <2>5
    <3>3. catalog[c][s] \in Kinds
      <4>1. catalog[c] \in Seq(Kinds) /\ s \in 1..Len(catalog[c])
        BY <2>3, <2>5, CatalogFacts
      <4> QED BY <4>1, ElementOfSeq
    <3>4. ASSUME cursor[c] # s
          PROVE  \/ s = cursor[c] + 1 /\ catalog[c][s] = "incremental"
                 \/ cursor[c] = 0 /\ catalog[c][s] \in MediaKinds
                 \/ s > cursor[c] /\ catalog[c][s] = "rebaseline"
      BY <2>5, <3>1, <3>3, <3>4 DEF Accepts, Kinds, MediaKinds
    <3> QED BY <3>2, <3>4
  <2> QED BY <2>1, <2>4, <2>5
<1>2. ASSUME [Next]_vars, ~(\E p \in Processes : ApplyNext(p)) PROVE UNCHANGED cursor
  BY <1>2 DEF Next, vars, Publish, PublishManifest, CycleStep, FetchManifest, PlanCatchup,
     TransientFault, Crash, Exit, StartUpdate, StartDaemon, DaemonStep, GuardProceeds,
     GuardStops, Sleep, Wake, WakeToStop, RequestShutdown, LoseLease, producer
<1>3. IInv /\ [Next]_vars => [Follows]_vars
  BY <1>1, <1>2
<1> QED BY <1>3, InitIInv, NextIInv, PTL DEF Spec, FollowsChain

(* The two together, which is what the runs check of the processes of a    *)
(* site (plan_catchup, run_catchup and the guards of apply).               *)
THEOREM FeedIsFollowedAlways == Spec => FeedIsFollowed
BY NeverAheadAlways, FollowsChainAlways, PTL DEF FeedIsFollowed

=============================================================================

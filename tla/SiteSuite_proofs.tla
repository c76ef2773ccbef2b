--------------------------- MODULE SiteSuite_proofs ---------------------------
(***************************************************************************)
(* A site does what it says, for any readers, connections, commands,       *)
(* generations, corpora, hosts and releases, and any faults: each part by  *)
(* an inductive invariant of its own, and the suite because a part that    *)
(* does not run stands still.                                              *)
(***************************************************************************)
EXTENDS SiteSuite, CatchupFeed_proofs, WellFoundedInduction

-----------------------------------------------------------------------------
(* The reads.  A request that reads the generations it resolved is         *)
(* answered with the rows the site served when it opened.                  *)

(* The site.  What is live is loaded, of its own corpus and not retired;   *)
(* nothing but a retired generation is ever dropped.                       *)

ReadsLiveIsKept ==
  /\ \A c \in Corpora : active[c] # None =>
       active[c] \notin retired /\ rows[active[c]] # 0 /\ CorpusOf[active[c]] = c
  /\ \A g \in Generations : rows[g] = None => g \in retired

(* A switch leads to a loaded generation that is not live yet.             *)
ReadsSwitchIsSound ==
  switch # None =>
    /\ switch.gen \notin retired /\ rows[switch.gen] # 0
    /\ active[CorpusOf[switch.gen]] # switch.gen

-----------------------------------------------------------------------------
(* The requests.                                                           *)

(* A corpus that was live when a request opened still is.                  *)
ReadsRouteIsLive ==
  \A r \in Readers : route[r] # None =>
    \A c \in Corpora : route[r][c] # None => active[c] # None

(* The snapshot of a request holds the rows of what it resolved, as they   *)
(* were served when it opened.                                             *)
ReadsSnapshotIsOpened ==
  \A r \in Readers : route[r] # None =>
    \A c \in Corpora : route[r][c] # None => opened[r][c] = seen[r][route[r][c]]

(* An answer belongs to a request, and repeats its snapshot.               *)
ReadsAnswerIsSeen ==
  \A r \in Readers :
    /\ answer[r] # None => route[r] # None
    /\ answer[r] # None /\ answer[r].path = "generation" =>
         \A c \in DOMAIN answer[r].rows :
           c \in Corpora /\ route[r][c] # None /\ answer[r].rows[c] = seen[r][route[r][c]]

(* Which path a request may have taken.                                    *)
ReadsPathsAreUsed ==
  \A r \in Readers :
    /\ answer[r] # None => answer[r].path \in Paths
    /\ asks[r] # None => "views" \in Paths /\ Reads!Routed(r) = Corpora

(* The rest of the type invariant.                                         *)
ReadsShape ==
  /\ opened \in [Readers -> {None} \cup [Corpora -> Reads!Rows]]
  /\ DOMAIN held = Readers /\ DOMAIN asks = Readers /\ DOMAIN answer = Readers

ReadsIInv ==
  /\ Reads!TypeOK /\ ReadsShape
  /\ ReadsLiveIsKept /\ ReadsSwitchIsSound
  /\ ReadsRouteIsLive /\ ReadsSnapshotIsOpened /\ ReadsAnswerIsSeen /\ ReadsPathsAreUsed

ReadsAssumptions == Reads!LabelAssumption /\ Reads!BoundsAssumption /\ Reads!ViewsAssumption /\ Reads!NoneAssumption

-----------------------------------------------------------------------------
(* What the operators return.                                              *)

LEMMA LeastExists ==
  ASSUME NEW T \in SUBSET Nat, T # {}
  PROVE  \E x \in T : \A y \in T : x <= y
<1> DEFINE R == {ss \in Nat \X Nat : ss[1] < ss[2]}
<1>1. IsWellFoundedOn(R, Nat)
  BY NatLessThanWellFounded DEF OpToRel
<1>2. \A x, y \in Nat : <<y, x>> \in R <=> y < x
  OBVIOUS
<1> HIDE DEF R
<1>3. PICK x \in T : \A y \in T : ~(<<y, x>> \in R)
  BY <1>1, WFMin
<1>4. ASSUME NEW y \in T PROVE x <= y
  <2>1. x \in Nat /\ y \in Nat
    OBVIOUS
  <2>2. ~(y < x)
    BY <1>2, <1>3, <2>1, Zenon
  <2> QED BY <2>1, <2>2
<1> QED BY <1>4

LEMMA ReadsTyped ==
  ASSUME ReadsAssumptions, Reads!TypeOK
  PROVE  /\ None \notin Generations /\ None # 0 /\ MaxContent \in Nat /\ Len(Views) \in Nat
         /\ DOMAIN Views = 1..Len(Views)
         /\ 0 \in Reads!Rows /\ None \in Reads!Rows /\ \A n \in 1..MaxContent : n \in Reads!Rows /\ n # 0 /\ n # None
         /\ \A g \in Generations : CorpusOf[g] \in Corpora /\ rows[g] \in Reads!Rows
         /\ \A c \in Corpora : active[c] # None => active[c] \in Generations
<1>1. Len(Views) \in Nat /\ DOMAIN Views = 1..Len(Views)
  BY DEF ReadsAssumptions, Reads!ViewsAssumption
<1>2. MaxContent \in Nat /\ None \notin Generations /\ None \notin 0..MaxContent
  BY DEF ReadsAssumptions, Reads!BoundsAssumption, Reads!NoneAssumption
<1> QED BY <1>1, <1>2 DEF ReadsAssumptions, Reads!LabelAssumption, Reads!TypeOK, Reads!Rows

LEMMA ReadsNextContentTyped ==
  ASSUME ReadsAssumptions, Reads!Contents # {}
  PROVE  Reads!NextContent \in 1..MaxContent
<1>1. Reads!Contents \in SUBSET Nat /\ Reads!Contents \subseteq 1..MaxContent
  BY DEF Reads!Contents
<1>2. \E n \in Reads!Contents : \A m \in Reads!Contents : n <= m
  BY <1>1, LeastExists
<1> QED BY <1>1, <1>2 DEF Reads!NextContent

(* The site and the requests keep their invariants apart: a step of one    *)
(* leaves the variables of the other alone.                                *)
LEMMA ReadsRequestsUnmoved ==
  ASSUME ReadsIInv, UNCHANGED Reads!request,
         \A c \in Corpora : active[c] # None => active'[c] # None
  PROVE  ReadsRouteIsLive' /\ ReadsSnapshotIsOpened' /\ ReadsAnswerIsSeen' /\ ReadsPathsAreUsed'
<1>1. UNCHANGED <<route, seen, held, touched, asks, opened, answer>>
  BY DEF Reads!request
<1>2. ReadsRouteIsLive'
  BY <1>1 DEF ReadsIInv, ReadsRouteIsLive
<1>3. ReadsSnapshotIsOpened' /\ ReadsAnswerIsSeen'
  BY <1>1 DEF ReadsIInv, ReadsSnapshotIsOpened, ReadsAnswerIsSeen
<1>4. ReadsPathsAreUsed'
  BY <1>1 DEF ReadsIInv, ReadsPathsAreUsed, Reads!Routed
<1> QED BY <1>2, <1>3, <1>4

LEMMA ReadsRequestTypesUnmoved ==
  ASSUME ReadsIInv, UNCHANGED Reads!request,
         active' \in [Corpora -> Generations \cup {None}],
         rows' \in [Generations -> Reads!Rows],
         retired' \subseteq Generations,
         switch' \in {None} \cup [gen : Generations, locked : 0..Len(Views), waits : BOOLEAN],
         \A c \in Corpora : active'[c] # None => rows'[active'[c]] \in Nat \ {0}
  PROVE  Reads!TypeOK' /\ ReadsShape'
<1>1. UNCHANGED <<route, seen, held, touched, asks, opened, answer>>
  BY DEF Reads!request
<1>2. Reads!Rows' = Reads!Rows
  BY DEF Reads!Rows
<1>3. Reads!TypeOK'
  BY <1>1, <1>2 DEF ReadsIInv, Reads!TypeOK
<1> QED BY <1>1, <1>2, <1>3 DEF ReadsIInv, ReadsShape

-----------------------------------------------------------------------------
(* The writers.                                                            *)

(* New rows of one generation, or none when it is dropped.                 *)
LEMMA ReadsRowsKeep ==
  ASSUME ReadsAssumptions, ReadsIInv, NEW g \in Generations, NEW n \in 1..MaxContent \cup {None},
         rows' = [rows EXCEPT ![g] = n], n = None => g \in retired,
         UNCHANGED <<active, retired, switch, Reads!request>>
  PROVE  ReadsIInv'
<1>0. Reads!TypeOK /\ ReadsLiveIsKept /\ ReadsSwitchIsSound
  BY DEF ReadsIInv
<1>1. rows' \in [Generations -> Reads!Rows]
  BY <1>0, ReadsTyped DEF Reads!TypeOK
<1>2. \A h \in Generations : rows'[h] = IF h = g THEN n ELSE rows[h]
  BY <1>0 DEF Reads!TypeOK
<1>3. \A c \in Corpora : active[c] # None =>
        active[c] \in Generations /\ (active[c] = g => n \in Nat \ {0})
  BY <1>0, ReadsTyped DEF ReadsLiveIsKept
<1>4. \A c \in Corpora : active'[c] # None => rows'[active'[c]] \in Nat \ {0}
  BY <1>0, <1>2, <1>3 DEF Reads!TypeOK
<1>5. Reads!TypeOK' /\ ReadsShape'
  BY <1>0, <1>1, <1>4, ReadsRequestTypesUnmoved DEF Reads!TypeOK
<1>6. ReadsLiveIsKept'
  <2>1. \A c \in Corpora : active[c] # None => rows'[active[c]] # 0
    BY <1>4
  <2>2. \A h \in Generations : rows'[h] = None => h \in retired
    BY <1>0, <1>2, ReadsTyped DEF ReadsLiveIsKept
  <2> QED BY <1>0, <2>1, <2>2 DEF ReadsLiveIsKept
<1>7. ReadsSwitchIsSound'
  <2>1. switch # None => switch.gen \in Generations
    BY <1>0 DEF Reads!TypeOK
  <2>2. n # 0
    BY <1>0, ReadsTyped
  <2> QED BY <1>0, <1>2, <2>1, <2>2 DEF ReadsSwitchIsSound
<1> QED BY <1>5, <1>6, <1>7, ReadsRequestsUnmoved DEF ReadsIInv

LEMMA ReadsContentKeeps ==
  ASSUME ReadsAssumptions, ReadsIInv,
         \/ \E g \in Generations : Reads!LoadGeneration(g) \/ Reads!DropRetiredGeneration(g)
         \/ \E c \in Corpora : Reads!ApplyIncremental(c)
  PROVE  ReadsIInv'
<1>1. ASSUME NEW g \in Generations, Reads!LoadGeneration(g) PROVE ReadsIInv'
  BY <1>1, ReadsNextContentTyped, ReadsRowsKeep, ReadsTyped DEF Reads!LoadGeneration, ReadsIInv
<1>2. ASSUME NEW g \in Generations, Reads!DropRetiredGeneration(g) PROVE ReadsIInv'
  BY <1>2, ReadsRowsKeep DEF Reads!DropRetiredGeneration
<1>3. ASSUME NEW c \in Corpora, Reads!ApplyIncremental(c) PROVE ReadsIInv'
  <2>1. active[c] \in Generations
    BY <1>3, ReadsTyped DEF Reads!ApplyIncremental, ReadsIInv
  <2>2. Reads!NextContent \in 1..MaxContent /\ Reads!NextContent # None
    BY <1>3, ReadsNextContentTyped, ReadsTyped DEF Reads!ApplyIncremental, ReadsIInv
  <2> QED BY <1>3, <2>1, <2>2, ReadsRowsKeep DEF Reads!ApplyIncremental
<1> QED BY <1>1, <1>2, <1>3

(* A switch under way, at any of its views, or given up.                   *)
LEMMA ReadsSwitchKeeps ==
  ASSUME ReadsAssumptions, ReadsIInv,
         \/ \E g \in Generations : Reads!BeginSwitch(g)
         \/ Reads!QueueForView \/ Reads!ReplaceView \/ Reads!LockTimeout
  PROVE  ReadsIInv'
<1>0. Reads!TypeOK /\ ReadsLiveIsKept /\ ReadsSwitchIsSound
  BY DEF ReadsIInv
<1>1. UNCHANGED <<active, rows, retired, Reads!request>>
  BY DEF Reads!BeginSwitch, Reads!QueueForView, Reads!ReplaceView, Reads!LockTimeout, Reads!site
<1>2. /\ switch' \in {None} \cup [gen : Generations, locked : 0..Len(Views), waits : BOOLEAN]
      /\ switch' # None =>
           /\ switch'.gen \notin retired /\ rows[switch'.gen] # 0
           /\ active[CorpusOf[switch'.gen]] # switch'.gen
  <2>1. ASSUME NEW g \in Generations, Reads!BeginSwitch(g)
        PROVE  /\ switch' \in [gen : Generations, locked : 0..Len(Views), waits : BOOLEAN]
               /\ switch'.gen = g /\ g \notin retired /\ rows[g] # 0 /\ active[CorpusOf[g]] # g
    BY <1>0, <2>1, ReadsTyped DEF Reads!BeginSwitch
  <2>2. ASSUME Reads!QueueForView \/ Reads!ReplaceView
        PROVE  /\ switch' \in [gen : Generations, locked : 0..Len(Views), waits : BOOLEAN]
               /\ switch # None /\ switch'.gen = switch.gen
    <3>1. /\ switch # None /\ switch.locked < Len(Views)
          /\ switch \in [gen : Generations, locked : 0..Len(Views), waits : BOOLEAN]
      BY <1>0, <2>2 DEF Reads!QueueForView, Reads!ReplaceView, Reads!Replacing, Reads!TypeOK
    <3>2. \/ switch' = [switch EXCEPT !.waits = TRUE]
          \/ switch' = [switch EXCEPT !.locked = @ + 1, !.waits = FALSE]
      BY <2>2 DEF Reads!QueueForView, Reads!ReplaceView
    <3>3. switch.locked + 1 \in 0..Len(Views)
      BY <1>0, <3>1, ReadsTyped
    <3> QED BY <3>1, <3>2, <3>3
  <2>3. Reads!LockTimeout => switch' = None
    BY DEF Reads!LockTimeout
  <2> QED BY <1>0, <2>1, <2>2, <2>3 DEF ReadsSwitchIsSound
<1>3. Reads!TypeOK' /\ ReadsShape'
  BY <1>0, <1>1, <1>2, ReadsRequestTypesUnmoved DEF Reads!TypeOK
<1>4. ReadsLiveIsKept' /\ ReadsSwitchIsSound'
  BY <1>0, <1>1, <1>2 DEF ReadsLiveIsKept, ReadsSwitchIsSound
<1> QED BY <1>1, <1>3, <1>4, ReadsRequestsUnmoved DEF ReadsIInv

(* The generation that becomes live is not the one that retires.           *)
LEMMA ReadsCommitKeeps ==
  ASSUME ReadsAssumptions, ReadsIInv, Reads!CommitSwitch
  PROVE  ReadsIInv'
<1> DEFINE g == switch.gen
           c == CorpusOf[g]
<1>0. Reads!TypeOK /\ ReadsLiveIsKept /\ ReadsSwitchIsSound
  BY DEF ReadsIInv
<1>1. /\ switch # None /\ switch' = None
      /\ active' = [active EXCEPT ![c] = g]
      /\ retired' = IF active[c] = None THEN retired ELSE retired \cup {active[c]}
      /\ UNCHANGED <<rows, Reads!request>>
  BY DEF Reads!CommitSwitch
<1>2. g \in Generations /\ c \in Corpora /\ g # None
  BY <1>0, <1>1, ReadsTyped DEF Reads!TypeOK
<1>3. g \notin retired /\ rows[g] # 0 /\ active[c] # g
  BY <1>0, <1>1 DEF ReadsSwitchIsSound
<1> HIDE DEF g
<1>4. CorpusOf[g] = c
  OBVIOUS
<1> HIDE DEF c
<1>5. \A k \in Corpora : active'[k] = IF k = c THEN g ELSE active[k]
  BY <1>0, <1>1, <1>2 DEF Reads!TypeOK
<1>6. /\ active' \in [Corpora -> Generations \cup {None}]
      /\ retired' \subseteq Generations
  BY <1>0, <1>1, <1>2, ReadsTyped DEF Reads!TypeOK
<1>7. rows[g] \in Nat \ {0}
  BY <1>0, <1>2, <1>3, ReadsTyped DEF ReadsLiveIsKept, Reads!Rows, Reads!TypeOK
<1>8. \A k \in Corpora : active'[k] # None => rows'[active'[k]] \in Nat \ {0}
  BY <1>0, <1>1, <1>5, <1>7 DEF Reads!TypeOK
<1>9. Reads!TypeOK' /\ ReadsShape'
  BY <1>0, <1>1, <1>6, <1>8, ReadsRequestTypesUnmoved DEF Reads!TypeOK
<1>10. ReadsLiveIsKept'
  <2>1. ASSUME NEW k \in Corpora, active'[k] # None
        PROVE  active'[k] \notin retired' /\ rows'[active'[k]] # 0 /\ CorpusOf[active'[k]] = k
    <3>1. CASE k = c
      BY <1>1, <1>3, <1>4, <1>5, <3>1
    <3>2. CASE k # c
      <4>1. active'[k] = active[k] /\ active[k] # None
        BY <1>5, <2>1, <3>2
      <4>2. active[k] \notin retired /\ rows[active[k]] # 0 /\ CorpusOf[active[k]] = k
        BY <1>0, <4>1 DEF ReadsLiveIsKept
      <4>3. active[c] # None => CorpusOf[active[c]] = c
        BY <1>0, <1>2 DEF ReadsLiveIsKept
      <4>4. active[c] # None => active[k] # active[c]
        BY <3>2, <4>2, <4>3
      <4> QED BY <1>1, <4>1, <4>2, <4>4
    <3> QED BY <3>1, <3>2
  <2>2. \A h \in Generations : rows'[h] = None => h \in retired'
    BY <1>0, <1>1 DEF ReadsLiveIsKept
  <2> QED BY <2>1, <2>2 DEF ReadsLiveIsKept
<1>11. ReadsSwitchIsSound'
  BY <1>1 DEF ReadsSwitchIsSound
<1>12. \A k \in Corpora : active[k] # None => active'[k] # None
  BY <1>2, <1>5
<1> QED BY <1>1, <1>9, <1>10, <1>11, <1>12, ReadsRequestsUnmoved DEF ReadsIInv

-----------------------------------------------------------------------------
(* The readers.                                                            *)

LEMMA ReadsSiteUnmoved ==
  ASSUME ReadsIInv, UNCHANGED <<Reads!site, switch>>
  PROVE  ReadsLiveIsKept' /\ ReadsSwitchIsSound'
BY DEF ReadsIInv, ReadsLiveIsKept, ReadsSwitchIsSound, Reads!site

LEMMA ReadsOpenKeeps ==
  ASSUME ReadsAssumptions, ReadsIInv, NEW r \in Readers, Reads!Open(r)
  PROVE  ReadsIInv'
<1>0. Reads!TypeOK /\ ReadsShape /\ ReadsAnswerIsSeen
  BY DEF ReadsIInv
<1>1. /\ route[r] = None /\ answer[r] = None /\ asks[r] = None
      /\ route' = [route EXCEPT ![r] = active]
      /\ seen' = [seen EXCEPT ![r] = rows]
      /\ opened' = [opened EXCEPT ![r] = Reads!Serves]
      /\ UNCHANGED <<active, rows, retired, switch, held, touched, asks, answer>>
  BY <1>0 DEF Reads!Open, Reads!site, Reads!TypeOK, ReadsAnswerIsSeen
<1>2. Reads!Serves \in [Corpora -> Reads!Rows]
  BY <1>0, ReadsTyped DEF Reads!Serves
<1>3. Reads!Rows' = Reads!Rows
  BY DEF Reads!Rows
<1>4. Reads!TypeOK' /\ ReadsShape'
  BY <1>0, <1>1, <1>2, <1>3 DEF Reads!TypeOK, ReadsShape
<1>5. /\ route'[r] = active /\ seen'[r] = rows /\ opened'[r] = Reads!Serves
      /\ \A q \in Readers : q # r =>
           route'[q] = route[q] /\ seen'[q] = seen[q] /\ opened'[q] = opened[q]
  BY <1>0, <1>1 DEF Reads!TypeOK, ReadsShape
<1>6. ReadsRouteIsLive'
  BY <1>1, <1>5 DEF ReadsIInv, ReadsRouteIsLive
<1>7. ReadsSnapshotIsOpened'
  <2>1. \A c \in Corpora : active[c] # None => Reads!Serves[c] = rows[active[c]]
    BY DEF Reads!Serves
  <2> QED BY <1>5, <2>1 DEF ReadsIInv, ReadsSnapshotIsOpened
<1>8. ReadsAnswerIsSeen'
  BY <1>0, <1>1, <1>5 DEF ReadsAnswerIsSeen
<1>9. ReadsPathsAreUsed'
  BY <1>1, <1>5 DEF ReadsIInv, ReadsPathsAreUsed, Reads!Routed
<1> QED BY <1>1, <1>4, <1>6, <1>7, <1>8, <1>9, ReadsSiteUnmoved DEF ReadsIInv, Reads!site

LEMMA ReadsEndKeeps ==
  ASSUME ReadsAssumptions, ReadsIInv, NEW r \in Readers, Reads!End(r)
  PROVE  ReadsIInv'
<1>0. Reads!TypeOK /\ ReadsShape
  BY DEF ReadsIInv
<1>1. /\ UNCHANGED <<active, rows, retired, switch>>
      /\ route' = [route EXCEPT ![r] = None] /\ seen' = [seen EXCEPT ![r] = None]
      /\ held' = [held EXCEPT ![r] = {}] /\ touched' = [touched EXCEPT ![r] = {}]
      /\ asks' = [asks EXCEPT ![r] = None]
      /\ opened' = [opened EXCEPT ![r] = None] /\ answer' = [answer EXCEPT ![r] = None]
  BY DEF Reads!End, Reads!site
<1>2. /\ route'[r] = None /\ held'[r] = {} /\ asks'[r] = None /\ answer'[r] = None
      /\ \A q \in Readers : q # r =>
           /\ route'[q] = route[q] /\ seen'[q] = seen[q] /\ opened'[q] = opened[q]
           /\ held'[q] = held[q] /\ asks'[q] = asks[q] /\ answer'[q] = answer[q]
  BY <1>0, <1>1 DEF Reads!TypeOK, ReadsShape
<1>3. Reads!Rows' = Reads!Rows
  BY DEF Reads!Rows
<1>4. Reads!TypeOK' /\ ReadsShape'
  BY <1>0, <1>1, <1>2, <1>3 DEF Reads!TypeOK, ReadsShape
<1>5. ReadsRouteIsLive' /\ ReadsSnapshotIsOpened'
  BY <1>1, <1>2 DEF ReadsIInv, ReadsRouteIsLive, ReadsSnapshotIsOpened
<1>6. ReadsAnswerIsSeen'
  BY <1>2 DEF ReadsIInv, ReadsAnswerIsSeen
<1>7. ReadsPathsAreUsed'
  BY <1>2 DEF ReadsIInv, ReadsPathsAreUsed, Reads!Routed
<1> QED BY <1>1, <1>4, <1>5, <1>6, <1>7, ReadsSiteUnmoved DEF ReadsIInv, Reads!site

LEMMA ReadsReadGenerationKeeps ==
  ASSUME ReadsAssumptions, ReadsIInv, NEW r \in Readers, NEW c \in Corpora, Reads!ReadGeneration(r, c)
  PROVE  ReadsIInv'
<1> DEFINE reply == [path |-> "generation", rows |-> [d \in {c} |-> Reads!Visible(r, route[r][c])]]
<1>0. Reads!TypeOK /\ ReadsShape
  BY DEF ReadsIInv
<1>1. /\ "generation" \in Paths /\ route[r] # None /\ asks[r] = None /\ route[r][c] # None
      /\ answer' = [answer EXCEPT ![r] = reply]
      /\ touched' = [touched EXCEPT ![r] = @ \cup {route[r][c]}]
      /\ UNCHANGED <<active, rows, retired, switch, route, seen, held, asks, opened>>
  BY DEF Reads!ReadGeneration, Reads!Idle, Reads!Routed, Reads!site
<1>2. /\ reply.path = "generation" /\ DOMAIN reply.rows = {c}
      /\ reply.rows[c] = seen[r][route[r][c]]
  BY DEF Reads!Visible
<1> HIDE DEF reply
<1>3. route[r][c] \in Generations
  BY <1>0, <1>1 DEF Reads!TypeOK
<1>4. answer'[r] = reply /\ \A q \in Readers : q # r => answer'[q] = answer[q]
  BY <1>0, <1>1 DEF ReadsShape
<1>5. Reads!Rows' = Reads!Rows
  BY DEF Reads!Rows
<1>6. Reads!TypeOK' /\ ReadsShape'
  BY <1>0, <1>1, <1>3, <1>5 DEF Reads!TypeOK, ReadsShape
<1>7. ReadsRouteIsLive' /\ ReadsSnapshotIsOpened'
  BY <1>1 DEF ReadsIInv, ReadsRouteIsLive, ReadsSnapshotIsOpened
<1>8. ReadsAnswerIsSeen'
  BY <1>1, <1>2, <1>4 DEF ReadsIInv, ReadsAnswerIsSeen
<1>9. ReadsPathsAreUsed'
  BY <1>1, <1>2, <1>4 DEF ReadsIInv, ReadsPathsAreUsed, Reads!Routed
<1> QED BY <1>1, <1>6, <1>7, <1>8, <1>9, ReadsSiteUnmoved DEF ReadsIInv, Reads!site

LEMMA ReadsAskViewKeeps ==
  ASSUME ReadsAssumptions, ReadsIInv, NEW r \in Readers, NEW i \in 1..Len(Views), Reads!AskView(r, i)
  PROVE  ReadsIInv'
<1>0. Reads!TypeOK /\ ReadsShape
  BY DEF ReadsIInv
<1>1. /\ "views" \in Paths /\ route[r] # None /\ Reads!Routed(r) = Corpora
      /\ asks' = [asks EXCEPT ![r] = Views[i]] /\ answer' = [answer EXCEPT ![r] = None]
      /\ UNCHANGED <<active, rows, retired, switch, route, seen, held, touched, opened>>
  BY DEF Reads!AskView, Reads!Idle, Reads!site
<1>2. /\ answer'[r] = None /\ asks'[r] = Views[i]
      /\ \A q \in Readers : q # r => answer'[q] = answer[q] /\ asks'[q] = asks[q]
  BY <1>0, <1>1 DEF ReadsShape
<1>3. Reads!Rows' = Reads!Rows
  BY DEF Reads!Rows
<1>4. Reads!TypeOK' /\ ReadsShape'
  BY <1>0, <1>1, <1>2, <1>3 DEF Reads!TypeOK, ReadsShape
<1>5. ReadsRouteIsLive' /\ ReadsSnapshotIsOpened'
  BY <1>1 DEF ReadsIInv, ReadsRouteIsLive, ReadsSnapshotIsOpened
<1>6. ReadsAnswerIsSeen'
  BY <1>1, <1>2 DEF ReadsIInv, ReadsAnswerIsSeen
<1>7. ReadsPathsAreUsed'
  BY <1>1, <1>2 DEF ReadsIInv, ReadsPathsAreUsed, Reads!Routed
<1> QED BY <1>1, <1>4, <1>5, <1>6, <1>7, ReadsSiteUnmoved DEF ReadsIInv, Reads!site

(* All corpora were live when the request opened, so a view selects a      *)
(* generation of each.                                                     *)
LEMMA ReadsReadViewKeeps ==
  ASSUME ReadsAssumptions, ReadsIInv, NEW r \in Readers, Reads!ReadView(r)
  PROVE  ReadsIInv'
<1> DEFINE reply == [path |-> "views", rows |-> [c \in Corpora |-> Reads!Visible(r, active[c])]]
<1>0. Reads!TypeOK /\ ReadsShape
  BY DEF ReadsIInv
<1>1. /\ asks[r] # None /\ Reads!Granted(r)
      /\ answer' = [answer EXCEPT ![r] = reply]
      /\ held' = [held EXCEPT ![r] = @ \cup {asks[r]}]
      /\ touched' = [touched EXCEPT ![r] = @ \cup {active[c] : c \in Corpora}]
      /\ asks' = [asks EXCEPT ![r] = None]
      /\ UNCHANGED <<active, rows, retired, switch, route, seen, opened>>
  BY DEF Reads!ReadView, Reads!site
<1>2. reply.path = "views"
  OBVIOUS
<1> HIDE DEF reply
<1>3. route[r] # None /\ "views" \in Paths /\ \A c \in Corpora : route[r][c] # None
  BY <1>0, <1>1 DEF Reads!TypeOK, ReadsIInv, ReadsPathsAreUsed, Reads!Routed
<1>4. \A c \in Corpora : active[c] \in Generations
  BY <1>0, <1>3, ReadsTyped DEF ReadsIInv, ReadsRouteIsLive
<1>5. asks[r] \in {Views[i] : i \in DOMAIN Views}
  BY <1>0, <1>1, ReadsTyped DEF Reads!Granted
<1>6. /\ answer'[r] = reply /\ asks'[r] = None /\ held'[r] = held[r] \cup {asks[r]}
      /\ \A q \in Readers : q # r =>
           answer'[q] = answer[q] /\ asks'[q] = asks[q] /\ held'[q] = held[q]
  BY <1>0, <1>1 DEF ReadsShape
<1>7. Reads!Rows' = Reads!Rows
  BY DEF Reads!Rows
<1>8. Reads!TypeOK' /\ ReadsShape'
  <2>1. touched' \in [Readers -> SUBSET Generations]
    BY <1>0, <1>1, <1>4 DEF Reads!TypeOK
  <2> QED BY <1>0, <1>1, <1>5, <1>6, <1>7, <2>1 DEF Reads!TypeOK, ReadsShape
<1>9. ReadsRouteIsLive' /\ ReadsSnapshotIsOpened'
  BY <1>1 DEF ReadsIInv, ReadsRouteIsLive, ReadsSnapshotIsOpened
<1>10. ReadsAnswerIsSeen'
  BY <1>1, <1>2, <1>3, <1>6 DEF ReadsIInv, ReadsAnswerIsSeen
<1>11. ReadsPathsAreUsed'
  BY <1>1, <1>2, <1>3, <1>6 DEF ReadsIInv, ReadsPathsAreUsed, Reads!Routed
<1> QED BY <1>1, <1>8, <1>9, <1>10, <1>11, ReadsSiteUnmoved DEF ReadsIInv, Reads!site

-----------------------------------------------------------------------------
(* The invariant.                                                          *)

LEMMA ReadsInitKeeps ==
  ASSUME ReadsAssumptions, Reads!Init
  PROVE  ReadsIInv
<1>1. \A r \in Readers : route[r] = None /\ answer[r] = None /\ asks[r] = None /\ held[r] = {}
  BY DEF Reads!Init
<1>2. 0 \in Reads!Rows /\ None \in Reads!Rows /\ None # 0
  BY DEF ReadsAssumptions, Reads!BoundsAssumption, Reads!NoneAssumption, Reads!Rows
<1>3. Reads!TypeOK /\ ReadsShape
  BY <1>1, <1>2 DEF Reads!Init, Reads!TypeOK, ReadsShape
<1>4. ReadsLiveIsKept /\ ReadsSwitchIsSound
  BY <1>2 DEF Reads!Init, ReadsLiveIsKept, ReadsSwitchIsSound
<1> QED BY <1>1, <1>3, <1>4 DEF ReadsIInv, ReadsRouteIsLive, ReadsSnapshotIsOpened, ReadsAnswerIsSeen, ReadsPathsAreUsed

LEMMA ReadsNextKeeps ==
  ASSUME ReadsAssumptions, ReadsIInv, [Reads!Next]_(Reads!vars)
  PROVE  ReadsIInv'
<1>1. ASSUME NEW r \in Readers, Reads!Close(r) \/ \E c \in Corpora : Reads!ReadDropped(r, c)
      PROVE  ReadsIInv'
  BY <1>1, ReadsEndKeeps DEF Reads!Close, Reads!ReadDropped
<1>2. CASE UNCHANGED Reads!vars
  <2>1. UNCHANGED <<active, rows, retired, switch, route, seen, held, touched, asks, opened, answer>>
    BY <1>2 DEF Reads!vars
  <2>2. Reads!TypeOK' /\ ReadsShape'
    BY <2>1 DEF ReadsIInv, Reads!TypeOK, ReadsShape, Reads!Rows
  <2> QED BY <2>1, <2>2, ReadsSiteUnmoved, ReadsRequestsUnmoved DEF ReadsIInv, Reads!site, Reads!request
<1> QED BY <1>1, <1>2, ReadsContentKeeps, ReadsSwitchKeeps, ReadsCommitKeeps, ReadsOpenKeeps, ReadsReadGenerationKeeps,
           ReadsAskViewKeeps, ReadsReadViewKeeps
    DEF Reads!Next

LEMMA ReadsInvariantAlways ==
  ASSUME ReadsAssumptions
  PROVE  Reads!Spec => []ReadsIInv
BY ReadsInitKeeps, ReadsNextKeeps, PTL DEF Reads!Spec

(* Type correctness of the reads and the installations: a live generation  *)
(* is loaded and never dropped (drop_retired_generation).                  *)
LEMMA ReadsTypeCorrect ==
  ASSUME ReadsAssumptions
  PROVE  Reads!Spec => []Reads!TypeOK
<1>1. ReadsIInv => Reads!TypeOK
  BY DEF ReadsIInv
<1> QED BY <1>1, ReadsInvariantAlways, PTL

(* A statement that reads the generation its request resolved returns what *)
(* the site served when the request opened, whatever is installed,         *)
(* switched or dropped meanwhile (LocalSnapshot::open,                     *)
(* read_text_for_corpus).                                                  *)
THEOREM ReadsRoutedTopologyAlways ==
  ASSUME ReadsAssumptions
  PROVE  Reads!Spec => []Reads!RoutedTopology
<1>1. ReadsIInv => Reads!RoutedTopology
  BY DEF ReadsIInv, ReadsAnswerIsSeen, ReadsSnapshotIsOpened, Reads!RoutedTopology, Reads!AsOpened
<1> QED BY <1>1, ReadsInvariantAlways, PTL

(* The promise of query.rs to every request holds where no statement goes  *)
(* through the views, as with a single corpus; with several corpora        *)
(* ReadSnapshot_views.cfg refutes it.                                      *)
THEOREM ReadsOneTopologyWithoutViews ==
  ASSUME ReadsAssumptions, "views" \notin Paths
  PROVE  Reads!Spec => []Reads!OneTopology
<1>1. ReadsIInv => Reads!OneTopology
  <2> SUFFICES ASSUME ReadsIInv, NEW r \in Readers, answer[r] # None
               PROVE  Reads!AsOpened(r)
    BY DEF Reads!OneTopology
  <2>1. answer[r].path = "generation"
    BY DEF ReadsIInv, ReadsPathsAreUsed, ReadsAssumptions, Reads!BoundsAssumption
  <2> QED BY <2>1 DEF ReadsIInv, ReadsAnswerIsSeen, ReadsSnapshotIsOpened, Reads!AsOpened
<1> QED BY <1>1, ReadsInvariantAlways, PTL

-----------------------------------------------------------------------------
(* The request servers.  Every permit is free, with the acceptor or with   *)
(* one thread, and replies answer the requests in their order.             *)

(* A frame is being answered in these stages, and in no other.             *)
ServerBusy(c) == stage[c] \in {"dispatch", "snapshot", "embed_wait", "embedding", "done", "failed"}

(* The backlog is of queued connections, each in it once.                  *)
ServerBacklogIsQueued ==
  /\ \A i \in 1..Len(backlog) : stage[backlog[i]] = "queued"
  /\ \A i, j \in 1..Len(backlog) : backlog[i] = backlog[j] => i = j

(* The frames a connection has not read yet are the last it was sent, and  *)
(* the one it answers comes just before them.                              *)
ServerFramesInOrder ==
  \A c \in Clients :
    /\ Len(inbox[c]) <= sent[c]
    /\ \A i \in 1..Len(inbox[c]) : inbox[c][i].id = sent[c] - Len(inbox[c]) + i
    /\ ServerBusy(c) => current[c].id = sent[c] - Len(inbox[c]) /\ current[c].id # 0
    /\ ~ServerBusy(c) => current[c] = Server!NoFrame

(* The frames that are read and done with.                                 *)
ServerDoneWith(c) == sent[c] - Len(inbox[c]) - (IF ServerBusy(c) THEN 1 ELSE 0)

(* Every reply is to one of them; a site connection that goes on has       *)
(* written at most one reply for each.                                     *)
ServerRepliesToDone ==
  \A c \in Clients :
    /\ \A i \in 1..Len(replies[c]) : replies[c][i].id <= ServerDoneWith(c)
    /\ surface = "site" /\ stage[c] # "closed" => Len(replies[c]) <= ServerDoneWith(c)

ServerRepliesOrdered ==
  \A c \in Clients :
    \A i, j \in 1..Len(replies[c]) :
      i < j /\ replies[c][i].id # 0 /\ replies[c][j].id # 0
        => replies[c][i].id < replies[c][j].id

ServerFatalIsLast ==
  \A c \in Clients :
    \A i \in 1..Len(replies[c]) :
      Server!Fatal(replies[c][i]) => i = Len(replies[c]) /\ stage[c] = "closed"

ServerEmbedding == {c \in Clients : stage[c] = "embedding"}
ServerHeld == IF acceptor = "holding" THEN 1 ELSE 0

(* Every permit is free, with the acceptor or with one thread.             *)
ServerPermitsCounted ==
  /\ slots + Cardinality(Server!Threads) + ServerHeld = Server!Workers
  /\ embeds + Cardinality(ServerEmbedding) = MaxEmbeds

ServerIInv ==
  /\ Server!TypeOK /\ ServerBacklogIsQueued /\ ServerFramesInOrder /\ ServerRepliesToDone
  /\ ServerRepliesOrdered /\ ServerFatalIsLast /\ ServerPermitsCounted

USE DEF ServerHeld, ServerBusy, ServerDoneWith

(* Sizes are those the theorems on finite sets are about.                  *)
LEMMA ServerSizes ==
  ASSUME NEW S
  PROVE  Server!Cardinality(S) = Cardinality(S) /\ (Server!IsFiniteSet(S) <=> IsFiniteSet(S))
BY DEF Server!Cardinality, Cardinality, Server!IsFiniteSet, IsFiniteSet

LEMMA ServerClientsFinite ==
  ASSUME Server!BoundsAssumption
  PROVE  IsFiniteSet(Clients)
BY ServerSizes DEF Server!BoundsAssumption

LEMMA ServerCountsFit ==
  ASSUME Server!BoundsAssumption
  PROVE  /\ IsFiniteSet(Server!Threads) /\ Cardinality(Server!Threads) \in Nat
         /\ IsFiniteSet(ServerEmbedding) /\ Cardinality(ServerEmbedding) \in Nat
         /\ IsFiniteSet(Server!Snapshots) /\ Cardinality(Server!Snapshots) \in Nat
         /\ Cardinality(Server!Snapshots) <= Cardinality(Server!Threads)
<1>1. /\ Server!Threads \subseteq Clients /\ ServerEmbedding \subseteq Clients /\ Server!Snapshots \subseteq Server!Threads
  BY DEF Server!Threads, Server!Snapshots, ServerEmbedding
<1>2. IsFiniteSet(Server!Threads) /\ IsFiniteSet(ServerEmbedding)
  BY <1>1, ServerClientsFinite, FS_Subset
<1>3. IsFiniteSet(Server!Snapshots) /\ Cardinality(Server!Snapshots) <= Cardinality(Server!Threads)
  BY <1>1, <1>2, FS_Subset
<1>4. QED
  BY <1>2, <1>3, FS_CardinalityType

LEMMA ServerWorkersCounted ==
  ASSUME Server!BoundsAssumption, Server!TypeOK
  PROVE  Server!Workers \in Nat
<1>1. workers \in 1..MaxWorkers /\ MaxWorkers \in Nat
  BY DEF Server!BoundsAssumption, Server!TypeOK
<1>2. QED
  BY <1>1 DEF Server!Workers

(* A connection that moves between two stages of its thread.               *)
LEMMA ServerStageMoves ==
  ASSUME Server!BoundsAssumption, Server!TypeOK, NEW c \in Clients, NEW s \in Server!Stages, Server!Goto(c, s),
         stage[c] \notin {"idle", "queued", "closed"}, s \notin {"idle", "queued", "closed"}
  PROVE  /\ Server!Threads' = Server!Threads
         /\ stage[c] # "embedding" /\ s # "embedding" => ServerEmbedding' = ServerEmbedding
         /\ stage[c] # "embedding" /\ s = "embedding"
              => Cardinality(ServerEmbedding') = Cardinality(ServerEmbedding) + 1
         /\ stage[c] = "embedding" /\ s # "embedding"
              => Cardinality(ServerEmbedding') = Cardinality(ServerEmbedding) - 1
<1>1. Server!Threads' = Server!Threads
  BY DEF Server!Goto, Server!Threads, Server!TypeOK
<1>2. stage[c] # "embedding" /\ s # "embedding" => ServerEmbedding' = ServerEmbedding
  BY DEF Server!Goto, Server!TypeOK, ServerEmbedding
<1>3. ASSUME stage[c] # "embedding", s = "embedding"
      PROVE  Cardinality(ServerEmbedding') = Cardinality(ServerEmbedding) + 1
  <2>1. ServerEmbedding' = ServerEmbedding \cup {c} /\ c \notin ServerEmbedding
    BY <1>3 DEF Server!Goto, Server!TypeOK, ServerEmbedding
  <2>2. QED
    BY <2>1, ServerCountsFit, FS_AddElement
<1>4. ASSUME stage[c] = "embedding", s # "embedding"
      PROVE  Cardinality(ServerEmbedding') = Cardinality(ServerEmbedding) - 1
  <2>1. ServerEmbedding' = ServerEmbedding \ {c} /\ c \in ServerEmbedding
    BY <1>4 DEF Server!Goto, Server!TypeOK, ServerEmbedding
  <2>2. QED
    BY <2>1, ServerCountsFit, FS_RemoveElement
<1>5. QED
  BY <1>1, <1>2, <1>3, <1>4

(* A connection that is accepted, or one whose thread ends.                *)
LEMMA ServerThreadStarts ==
  ASSUME Server!BoundsAssumption, Server!TypeOK, NEW c \in Clients, Server!Goto(c, "reading"), stage[c] = "queued"
  PROVE  Cardinality(Server!Threads') = Cardinality(Server!Threads) + 1 /\ ServerEmbedding' = ServerEmbedding
<1>1. Server!Threads' = Server!Threads \cup {c} /\ c \notin Server!Threads
  BY DEF Server!Goto, Server!Threads, Server!TypeOK
<1>2. ServerEmbedding' = ServerEmbedding
  BY DEF Server!Goto, Server!TypeOK, ServerEmbedding
<1>3. QED
  BY <1>1, <1>2, ServerCountsFit, FS_AddElement

LEMMA ServerThreadEnds ==
  ASSUME Server!BoundsAssumption, Server!TypeOK, NEW c \in Clients, Server!Goto(c, "closed"),
         stage[c] \in {"reading", "done", "failed"}
  PROVE  Cardinality(Server!Threads') = Cardinality(Server!Threads) - 1 /\ ServerEmbedding' = ServerEmbedding
<1>1. Server!Threads' = Server!Threads \ {c} /\ c \in Server!Threads
  BY DEF Server!Goto, Server!Threads, Server!TypeOK
<1>2. ServerEmbedding' = ServerEmbedding
  BY DEF Server!Goto, Server!TypeOK, ServerEmbedding
<1>3. QED
  BY <1>1, <1>2, ServerCountsFit, FS_RemoveElement

(* The bound on the frames of all connections bounds those of each.        *)
LEMMA ServerSendIsBounded ==
  ASSUME Server!BoundsAssumption, Server!TypeOK, NEW c \in Clients, Cardinality(Server!SentFrames) < MaxFrames
  PROVE  sent[c] < MaxFrames
<1> DEFINE own == {c} \X (1..sent[c])
<1>0. sent[c] \in 0..MaxFrames /\ MaxFrames \in Nat
  BY DEF Server!TypeOK, Server!BoundsAssumption
<1>1. IsFiniteSet(1..MaxFrames) /\ IsFiniteSet(1..sent[c]) /\ Cardinality(1..sent[c]) = sent[c]
  <2>1. IsFiniteSet(1..MaxFrames)
    BY <1>0, FS_Interval
  <2>2. IsFiniteSet(1..sent[c])
    BY <1>0, FS_Interval
  <2>3. sent[c] \in Int /\ 1 \in Int
    BY <1>0
  <2>4. Cardinality(1..sent[c]) = IF 1 > sent[c] THEN 0 ELSE sent[c] - 1 + 1
    BY <2>3, FS_Interval, Zenon
  <2>5. QED
    BY <1>0, <2>1, <2>2, <2>4
<1>2. IsFiniteSet({c}) /\ Cardinality({c}) = 1
  BY FS_Singleton
<1>3. IsFiniteSet(own) /\ Cardinality(own) = sent[c]
  <2>1. IsFiniteSet(own) /\ Cardinality(own) = Cardinality({c}) * Cardinality(1..sent[c])
    BY <1>1, <1>2, FS_Product
  <2>2. QED
    BY <2>1, <1>0, <1>1, <1>2
<1>4. IsFiniteSet(Clients \X (1..MaxFrames))
  BY <1>1, ServerClientsFinite, FS_Product
<1>5. IsFiniteSet(Server!SentFrames)
  <2>1. Server!SentFrames \subseteq Clients \X (1..MaxFrames)
    BY DEF Server!SentFrames
  <2>2. QED
    BY <2>1, <1>4, FS_Subset
<1>6. own \subseteq Server!SentFrames
  BY <1>0 DEF Server!SentFrames
<1>7. Cardinality(own) <= Cardinality(Server!SentFrames)
  BY <1>5, <1>6, FS_Subset
<1>8. Cardinality(Server!SentFrames) \in Nat
  BY <1>5, FS_CardinalityType
<1>9. QED
  BY <1>0, <1>3, <1>7, <1>8

LEMMA ServerRepliesAreTyped ==
  ASSUME Server!BoundsAssumption, Server!TypeOK, NEW d \in Clients
  PROVE  Len(replies[d]) \in Nat /\ \A i \in 1..Len(replies[d]) : replies[d][i].id \in Int
<1>1. replies[d] \in Seq([id : 0..MaxFrames, ok : BOOLEAN])
  BY DEF Server!TypeOK
<1>2. \A i \in 1..Len(replies[d]) : replies[d][i] \in [id : 0..MaxFrames, ok : BOOLEAN]
  <2> DEFINE R == [id : 0..MaxFrames, ok : BOOLEAN]
  <2>1. replies[d] \in Seq(R)
    BY <1>1
  <2> HIDE DEF R
  <2>2. \A i \in 1..Len(replies[d]) : replies[d][i] \in R
    BY <2>1, ElementOfSeq
  <2>3. QED
    BY <2>2 DEF R
<1>3. QED
  BY <1>1, <1>2 DEF Server!BoundsAssumption

LEMMA ServerTypeIsInitial == ASSUME Server!BoundsAssumption, Server!Init PROVE ServerIInv
<1>1. Server!Threads = {} /\ ServerEmbedding = {}
  BY DEF Server!Init, Server!Threads, ServerEmbedding
<1>2. Cardinality(Server!Threads) = 0 /\ Cardinality(ServerEmbedding) = 0
  BY <1>1, FS_EmptySet
<1>3. Server!TypeOK
  BY DEF Server!Init, Server!TypeOK, Server!Workers, Server!BoundsAssumption, Server!Stages
<1>4. /\ ServerBacklogIsQueued /\ ServerFramesInOrder /\ ServerRepliesToDone /\ ServerRepliesOrdered
      /\ ServerFatalIsLast
  BY <1>3
     DEF Server!Init, ServerBacklogIsQueued, ServerFramesInOrder, ServerRepliesToDone,
         ServerRepliesOrdered, ServerFatalIsLast, Server!TypeOK
<1>5. ServerPermitsCounted
  BY <1>2 DEF Server!Init, ServerPermitsCounted, Server!Workers, Server!BoundsAssumption
<1>6. QED
  BY <1>3, <1>4, <1>5 DEF ServerIInv

LEMMA ServerConnectKeeps ==
  ASSUME Server!BoundsAssumption, ServerIInv, NEW c \in Clients, Server!Connect(c)
  PROVE  ServerIInv'
<1>1. Server!Threads' = Server!Threads /\ ServerEmbedding' = ServerEmbedding
  BY DEF ServerIInv, Server!TypeOK, Server!Connect, Server!Goto, Server!Threads, ServerEmbedding
<1>2. Server!TypeOK'
  <2>1. backlog' \in Seq(Clients)
    BY DEF ServerIInv, Server!TypeOK, Server!Connect
  <2>2. stage' \in [Clients -> Server!Stages] /\ peer' \in [Clients -> {"away", "here", "gone"}]
    BY DEF ServerIInv, Server!TypeOK, Server!Connect, Server!Goto, Server!Stages
  <2>3. QED
    BY <2>1, <2>2 DEF ServerIInv, Server!TypeOK, Server!Connect, Server!Workers
<1>3. ServerBacklogIsQueued'
  <2>1. \A i \in 1..Len(backlog) : backlog[i] # c
    BY DEF ServerIInv, ServerBacklogIsQueued, Server!Connect
  <2>2. Len(backlog') = Len(backlog) + 1
    BY DEF ServerIInv, Server!TypeOK, Server!Connect
  <2>3. \A i \in 1..Len(backlog') :
          IF i <= Len(backlog) THEN i \in 1..Len(backlog) /\ backlog'[i] = backlog[i]
          ELSE i = Len(backlog) + 1 /\ backlog'[i] = c
    BY DEF ServerIInv, Server!TypeOK, Server!Connect
  <2>4. stage'[c] = "queued" /\ \A d \in Clients \ {c} : stage'[d] = stage[d]
    BY DEF ServerIInv, Server!TypeOK, Server!Connect, Server!Goto
  <2>5. \A i \in 1..Len(backlog) : backlog[i] \in Clients
    BY DEF ServerIInv, Server!TypeOK
  <2>6. QED
    BY <2>1, <2>2, <2>3, <2>4, <2>5 DEF ServerIInv, ServerBacklogIsQueued
<1>4. ServerFramesInOrder' /\ ServerRepliesToDone' /\ ServerRepliesOrdered' /\ ServerFatalIsLast'
  BY DEF ServerIInv, Server!TypeOK, ServerFramesInOrder, ServerRepliesToDone, ServerRepliesOrdered,
     ServerFatalIsLast, Server!Fatal, Server!Connect, Server!Goto
<1>5. ServerPermitsCounted'
  BY <1>1 DEF ServerIInv, ServerPermitsCounted, Server!Connect, Server!Workers
<1>6. QED
  BY <1>2, <1>3, <1>4, <1>5 DEF ServerIInv

LEMMA ServerSendKeeps ==
  ASSUME Server!BoundsAssumption, ServerIInv, NEW c \in Clients, NEW k \in Server!Kinds, Server!Send(c,
         k)
  PROVE  ServerIInv'
<1> DEFINE f == [id |-> sent[c] + 1, kind |-> k]
<1>0. sent[c] < MaxFrames /\ sent[c] \in Nat /\ MaxFrames \in Nat /\ inbox[c] \in Seq(Server!Frames)
  <2>1. sent[c] < MaxFrames
    BY ServerSendIsBounded, ServerSizes DEF ServerIInv, Server!Send
  <2>2. QED
    BY <2>1 DEF ServerIInv, Server!TypeOK, Server!BoundsAssumption
<1>1. f \in Server!Frames
  BY <1>0 DEF Server!Frames
<1>2. inbox'[c] = Append(inbox[c], f) /\ sent'[c] = sent[c] + 1
      /\ \A d \in Clients \ {c} : inbox'[d] = inbox[d] /\ sent'[d] = sent[d]
  BY DEF ServerIInv, Server!TypeOK, Server!Send
<1>3. inbox'[c] \in Seq(Server!Frames) /\ Len(inbox'[c]) = Len(inbox[c]) + 1
      /\ \A i \in 1..Len(inbox[c]) : inbox'[c][i] = inbox[c][i]
      /\ inbox'[c][Len(inbox[c]) + 1] = f
  BY <1>0, <1>1, <1>2
<1>4. Server!TypeOK'
  <2>1. inbox' \in [Clients -> Seq(Server!Frames)]
    BY <1>3 DEF ServerIInv, Server!TypeOK, Server!Send
  <2>2. sent' \in [Clients -> 0..MaxFrames]
    BY <1>0 DEF ServerIInv, Server!TypeOK, Server!Send
  <2>3. QED
    BY <2>1, <2>2 DEF ServerIInv, Server!TypeOK, Server!Send, Server!Workers
<1>5. ServerBacklogIsQueued'
  BY DEF ServerIInv, ServerBacklogIsQueued, Server!Send
<1>6. ServerFramesInOrder'
  <2>1. ASSUME NEW d \in Clients
        PROVE  /\ Len(inbox'[d]) <= sent'[d]
               /\ \A i \in 1..Len(inbox'[d]) : inbox'[d][i].id = sent'[d] - Len(inbox'[d]) + i
               /\ ServerBusy(d)' => current'[d].id = sent'[d] - Len(inbox'[d]) /\ current'[d].id # 0
               /\ ~ServerBusy(d)' => current'[d] = Server!NoFrame
    <3>1. CASE d # c
      BY <3>1, <1>2 DEF ServerIInv, ServerFramesInOrder, Server!Send
    <3>2. CASE d = c
      <4>1. Len(inbox[c]) \in Nat /\ Len(inbox[c]) <= sent[c]
        BY <1>0 DEF ServerIInv, ServerFramesInOrder
      <4>2. \A i \in 1..Len(inbox[c]) : inbox[c][i].id = sent[c] - Len(inbox[c]) + i
        BY DEF ServerIInv, ServerFramesInOrder
      <4>3. \A i \in 1..Len(inbox'[c]) : inbox'[c][i].id = sent'[c] - Len(inbox'[c]) + i
        BY <4>1, <4>2, <1>0, <1>2, <1>3
      <4>4. sent'[c] - Len(inbox'[c]) = sent[c] - Len(inbox[c])
        BY <4>1, <1>0, <1>2, <1>3
      <4>5. ServerBusy(d)' = ServerBusy(d) /\ current' = current
        BY DEF Server!Send
      <4>6. Len(inbox'[c]) <= sent'[c]
        BY <4>1, <1>0, <1>2, <1>3
      <4>7. QED
        BY <3>2, <4>3, <4>4, <4>5, <4>6 DEF ServerIInv, ServerFramesInOrder
    <3>3. QED
      BY <3>1, <3>2
  <2>2. QED
    BY <2>1 DEF ServerFramesInOrder
<1>7. \A d \in Clients : ServerDoneWith(d)' = ServerDoneWith(d)
  <2>1. ASSUME NEW d \in Clients PROVE sent'[d] - Len(inbox'[d]) = sent[d] - Len(inbox[d])
    <3>1. CASE d # c
      BY <3>1, <1>2
    <3>2. CASE d = c
      <4>1. Len(inbox[c]) \in Nat
        BY <1>0
      <4>2. QED
        BY <3>2, <4>1, <1>0, <1>2, <1>3
    <3>3. QED
      BY <3>1, <3>2
  <2>2. QED
    BY <2>1 DEF Server!Send
<1>8. ServerRepliesToDone'
  BY <1>7 DEF ServerIInv, ServerRepliesToDone, Server!Send
<1>9. ServerRepliesOrdered' /\ ServerFatalIsLast'
  BY DEF ServerIInv, ServerRepliesOrdered, ServerFatalIsLast, Server!Fatal, Server!Send
<1>10. ServerPermitsCounted'
  BY DEF ServerIInv, ServerPermitsCounted, Server!Send, Server!Threads, ServerEmbedding, Server!Workers
<1>11. QED
  BY <1>4, <1>5, <1>6, <1>8, <1>9, <1>10 DEF ServerIInv

LEMMA ServerHangUpKeeps ==
  ASSUME Server!BoundsAssumption, ServerIInv, NEW c \in Clients, Server!HangUp(c)
  PROVE  ServerIInv'
<1>1. Server!TypeOK'
  BY DEF ServerIInv, Server!TypeOK, Server!HangUp, Server!Workers
<1>2. /\ ServerBacklogIsQueued' /\ ServerFramesInOrder' /\ ServerRepliesToDone' /\ ServerRepliesOrdered'
      /\ ServerFatalIsLast'
  BY DEF ServerIInv, ServerBacklogIsQueued, ServerFramesInOrder, ServerRepliesToDone,
     ServerRepliesOrdered, ServerFatalIsLast, Server!Fatal, Server!HangUp
<1>3. ServerPermitsCounted'
  BY DEF ServerIInv, ServerPermitsCounted, Server!HangUp, Server!Threads, ServerEmbedding,
     Server!Workers
<1>4. QED
  BY <1>1, <1>2, <1>3 DEF ServerIInv

LEMMA ServerAcquireWorkerKeeps ==
  ASSUME Server!BoundsAssumption, ServerIInv, Server!AcquireWorker
  PROVE  ServerIInv'
<1>1. Server!TypeOK'
  <2>1. slots \in 0..Server!Workers /\ Server!Workers \in Nat /\ Server!Workers' = Server!Workers
    BY ServerWorkersCounted DEF ServerIInv, Server!TypeOK, Server!AcquireWorker, Server!Workers
  <2>2. slots' \in 0..Server!Workers'
    BY <2>1 DEF Server!AcquireWorker
  <2>3. QED
    BY <2>2 DEF ServerIInv, Server!TypeOK, Server!AcquireWorker
<1>2. /\ ServerBacklogIsQueued' /\ ServerFramesInOrder' /\ ServerRepliesToDone' /\ ServerRepliesOrdered'
      /\ ServerFatalIsLast'
  BY DEF ServerIInv, ServerBacklogIsQueued, ServerFramesInOrder, ServerRepliesToDone,
     ServerRepliesOrdered, ServerFatalIsLast, Server!Fatal, Server!AcquireWorker
<1>3. ServerPermitsCounted'
  <2>1. /\ Server!Threads' = Server!Threads /\ ServerEmbedding' = ServerEmbedding
        /\ Server!Workers' = Server!Workers
    BY DEF Server!AcquireWorker, Server!Threads, ServerEmbedding, Server!Workers
  <2>2. slots' = slots - 1 /\ acceptor = "free" /\ acceptor' = "holding" /\ embeds' = embeds
    BY DEF Server!AcquireWorker
  <2>3. slots \in Int /\ Cardinality(Server!Threads) \in Nat
    BY ServerCountsFit DEF ServerIInv, Server!TypeOK
  <2>4. QED
    BY <2>1, <2>2, <2>3 DEF ServerIInv, ServerPermitsCounted
<1>4. QED
  BY <1>1, <1>2, <1>3 DEF ServerIInv

LEMMA ServerAcceptKeeps == ASSUME Server!BoundsAssumption, ServerIInv, Server!Accept PROVE ServerIInv'
<1> DEFINE c == Head(backlog)
<1>0. /\ c \in Clients /\ stage[c] = "queued" /\ Server!Goto(c, "reading") /\ Len(backlog) > 0
      /\ c = backlog[1]
  BY DEF ServerIInv, Server!TypeOK, ServerBacklogIsQueued, Server!Accept
<1>1. /\ Cardinality(Server!Threads') = Cardinality(Server!Threads) + 1
      /\ ServerEmbedding' = ServerEmbedding
  BY <1>0, ServerThreadStarts DEF ServerIInv
<1>2. stage' = [stage EXCEPT ![c] = "reading"]
  BY <1>0 DEF Server!Goto
<1>3. Server!TypeOK'
  <2>1. backlog' \in Seq(Clients)
    BY <1>0 DEF ServerIInv, Server!TypeOK, Server!Accept
  <2>2. stage' \in [Clients -> Server!Stages]
    BY <1>0, <1>2 DEF ServerIInv, Server!TypeOK, Server!Stages
  <2>3. QED
    BY <2>1, <2>2 DEF ServerIInv, Server!TypeOK, Server!Accept, Server!Workers
<1>4. ServerBacklogIsQueued'
  <2>1. Len(backlog') = Len(backlog) - 1 /\ \A i \in 1..Len(backlog') : backlog'[i] = backlog[i + 1]
    BY <1>0 DEF ServerIInv, Server!TypeOK, Server!Accept
  <2>2. \A i \in 1..Len(backlog) : backlog[i] \in Clients
    BY DEF ServerIInv, Server!TypeOK
  <2>3. \A i \in 1..Len(backlog') : i + 1 \in 1..Len(backlog) /\ backlog[i + 1] # c
    <3>1. SUFFICES ASSUME NEW i \in 1..Len(backlog') PROVE i + 1 \in 1..Len(backlog) /\ backlog[i + 1] # c
      OBVIOUS
    <3>2. Len(backlog) \in Nat
      BY DEF ServerIInv, Server!TypeOK
    <3>3. i + 1 \in 1..Len(backlog) /\ 1 \in 1..Len(backlog) /\ i + 1 # 1
      BY <1>0, <2>1, <3>2
    <3>4. QED
      BY <1>0, <3>3 DEF ServerIInv, ServerBacklogIsQueued
  <2>4. \A d \in Clients \ {c} : stage'[d] = stage[d]
    BY <1>2 DEF ServerIInv, Server!TypeOK
  <2>5. \A i, j \in 1..Len(backlog') : backlog'[i] = backlog'[j] => i = j
    <3>1. SUFFICES ASSUME NEW i \in 1..Len(backlog'), NEW j \in 1..Len(backlog'), backlog'[i] = backlog'[j]
                   PROVE  i = j
      OBVIOUS
    <3>2. backlog[i + 1] = backlog[j + 1]
      BY <2>1, <3>1
    <3>3. i + 1 = j + 1
      BY <2>3, <3>2 DEF ServerIInv, ServerBacklogIsQueued
    <3>4. QED
      BY <3>3
  <2>6. \A i \in 1..Len(backlog') : stage'[backlog'[i]] = "queued"
    BY <2>1, <2>2, <2>3, <2>4 DEF ServerIInv, ServerBacklogIsQueued
  <2>7. QED
    BY <2>5, <2>6 DEF ServerBacklogIsQueued
<1>5. ServerFramesInOrder' /\ ServerRepliesToDone' /\ ServerRepliesOrdered' /\ ServerFatalIsLast'
  BY <1>0, <1>2
     DEF ServerIInv, Server!TypeOK, ServerFramesInOrder, ServerRepliesToDone, ServerRepliesOrdered,
         ServerFatalIsLast, Server!Fatal, Server!Accept
<1>6. ServerPermitsCounted'
  <2>1. /\ slots' = slots /\ embeds' = embeds /\ ServerHeld = 1 /\ ServerHeld' = 0
        /\ Server!Workers' = Server!Workers
    BY DEF Server!Accept, Server!Workers
  <2>2. slots \in Int /\ Cardinality(Server!Threads) \in Nat
    BY ServerCountsFit DEF ServerIInv, Server!TypeOK
  <2>3. QED
    BY <1>1, <2>1, <2>2 DEF ServerIInv, ServerPermitsCounted
<1>7. QED
  BY <1>3, <1>4, <1>5, <1>6 DEF ServerIInv

----------------------------------------------------------------------------
(* The steps of a thread.                                                  *)

LEMMA ServerReadFrameKeeps ==
  ASSUME Server!BoundsAssumption, ServerIInv, NEW c \in Clients, Server!ReadFrame(c)
  PROVE  ServerIInv'
<1> DEFINE f == Head(inbox[c])
<1>0. inbox[c] \in Seq(Server!Frames) /\ inbox[c] # <<>> /\ f \in Server!Frames /\ f = inbox[c][1]
      /\ Len(inbox[c]) \in Nat \ {0} /\ sent[c] \in Nat
  BY DEF ServerIInv, Server!TypeOK, Server!ReadFrame, Server!BoundsAssumption
<1>1. inbox' = [inbox EXCEPT ![c] = Tail(inbox[c])] /\ sent' = sent
  BY DEF Server!ReadFrame
<1>2. inbox'[c] \in Seq(Server!Frames) /\ Len(inbox'[c]) = Len(inbox[c]) - 1
      /\ \A i \in 1..Len(inbox'[c]) : inbox'[c][i] = inbox[c][i + 1]
      /\ \A d \in Clients \ {c} : inbox'[d] = inbox[d]
  BY <1>0, <1>1 DEF ServerIInv, Server!TypeOK
<1>3. \/ stage' = stage /\ current' = current
      \/ current' = [current EXCEPT ![c] = f] /\ Server!Goto(c, "dispatch")
  BY DEF Server!ReadFrame
<1>4. ~ServerBusy(c) /\ Len(inbox[c]) <= sent[c] /\ stage[c] = "reading"
      /\ \A i \in 1..Len(inbox[c]) : inbox[c][i].id = sent[c] - Len(inbox[c]) + i
  BY DEF ServerIInv, ServerFramesInOrder, Server!ReadFrame
<1>5. Server!TypeOK'
  <2>1. inbox' \in [Clients -> Seq(Server!Frames)]
    BY <1>1, <1>2 DEF ServerIInv, Server!TypeOK
  <2>2. /\ stage' \in [Clients -> Server!Stages]
        /\ current' \in [Clients -> Server!Frames \cup {Server!NoFrame}]
    BY <1>0, <1>3 DEF ServerIInv, Server!TypeOK, Server!Goto, Server!Stages
  <2>3. QED
    BY <2>1, <2>2 DEF ServerIInv, Server!TypeOK, Server!ReadFrame, Server!Workers
<1>6. \A d \in Clients \ {c} : stage'[d] = stage[d] /\ current'[d] = current[d]
  BY <1>3 DEF ServerIInv, Server!TypeOK, Server!Goto
<1>7. ServerBacklogIsQueued'
  <2>1. \A i \in 1..Len(backlog) : backlog[i] \in Clients \ {c}
    BY <1>4 DEF ServerIInv, ServerBacklogIsQueued, Server!TypeOK
  <2>2. QED
    BY <1>6, <2>1 DEF ServerIInv, ServerBacklogIsQueued, Server!ReadFrame
<1>8. \/ ~ServerBusy(c)' /\ current'[c] = Server!NoFrame
      \/ ServerBusy(c)' /\ current'[c] = f
  BY <1>3, <1>4 DEF ServerIInv, Server!TypeOK, Server!Goto, ServerFramesInOrder
<1>9. f.id = sent[c] - Len(inbox[c]) + 1
  <2>1. 1 \in 1..Len(inbox[c])
    BY <1>0
  <2>2. inbox[c][1].id = sent[c] - Len(inbox[c]) + 1
    BY <1>4, <2>1
  <2>3. QED
    BY <2>2, <1>0
<1>10. ServerFramesInOrder'
  <2>1. SUFFICES ASSUME NEW d \in Clients
        PROVE  /\ Len(inbox'[d]) <= sent'[d]
               /\ \A i \in 1..Len(inbox'[d]) : inbox'[d][i].id = sent'[d] - Len(inbox'[d]) + i
               /\ ServerBusy(d)' => current'[d].id = sent'[d] - Len(inbox'[d]) /\ current'[d].id # 0
               /\ ~ServerBusy(d)' => current'[d] = Server!NoFrame
    BY DEF ServerFramesInOrder
  <2>2. CASE d # c
    BY <2>2, <1>1, <1>2, <1>6 DEF ServerIInv, ServerFramesInOrder
  <2>3. CASE d = c
    <3>1. Len(inbox'[c]) <= sent'[c]
      BY <1>0, <1>1, <1>2, <1>4
    <3>2. ASSUME NEW i \in 1..Len(inbox'[c])
          PROVE  inbox'[c][i].id = sent'[c] - Len(inbox'[c]) + i
      <4>1. i + 1 \in 1..Len(inbox[c]) /\ inbox'[c][i] = inbox[c][i + 1]
        BY <1>0, <1>2
      <4>2. inbox[c][i + 1].id = sent[c] - Len(inbox[c]) + (i + 1)
        BY <4>1, <1>4
      <4>3. QED
        BY <4>1, <4>2, <1>0, <1>1, <1>2
    <3>3. ServerBusy(c)' => current'[c].id = sent'[c] - Len(inbox'[c]) /\ current'[c].id # 0
      BY <1>0, <1>1, <1>2, <1>4, <1>8, <1>9
    <3>4. QED
      BY <2>3, <3>1, <3>2, <3>3, <1>8
  <2>4. QED
    BY <2>2, <2>3
<1>11. \A d \in Clients : ServerDoneWith(d) <= ServerDoneWith(d)' /\ ServerDoneWith(d) \in Int /\ ServerDoneWith(d)' \in Int
  <2>1. SUFFICES ASSUME NEW d \in Clients
                 PROVE  ServerDoneWith(d) <= ServerDoneWith(d)' /\ ServerDoneWith(d) \in Int /\ ServerDoneWith(d)' \in Int
    OBVIOUS
  <2>2. sent[d] \in Int /\ Len(inbox[d]) \in Int
    BY DEF ServerIInv, Server!TypeOK, Server!BoundsAssumption
  <2>3. CASE d = c
    <3>1. ServerDoneWith(c) = sent[c] - Len(inbox[c])
      BY <1>0, <1>4
    <3>2. ServerDoneWith(c)' \in {sent[c] - Len(inbox[c]) + 1, sent[c] - Len(inbox[c])}
      BY <1>0, <1>1, <1>2
    <3>3. QED
      BY <2>3, <3>1, <3>2, <1>0
  <2>4. CASE d # c
    BY <2>2, <2>4, <1>1, <1>2, <1>6
  <2>5. QED
    BY <2>3, <2>4
<1>12. \A d \in Clients : replies'[d] = replies[d] /\ Len(replies[d]) \in Nat
                          /\ \A i \in 1..Len(replies[d]) : replies[d][i].id \in Int
  BY ServerRepliesAreTyped DEF ServerIInv, Server!ReadFrame
<1>13. \A d \in Clients : stage'[d] # "closed" => stage[d] # "closed"
  BY <1>4, <1>6
<1>14. ServerRepliesToDone'
  BY <1>11, <1>12, <1>13 DEF ServerIInv, ServerRepliesToDone, Server!ReadFrame
<1>15. ServerRepliesOrdered' /\ ServerFatalIsLast'
  <2>1. \A d \in Clients : stage[d] = "closed" => stage'[d] = "closed"
    BY <1>4, <1>6
  <2>2. QED
    BY <2>1, <1>12
       DEF ServerIInv, ServerRepliesOrdered, ServerFatalIsLast, Server!Fatal, Server!ReadFrame
<1>16. ServerPermitsCounted'
  <2>1. Server!Threads' = Server!Threads /\ ServerEmbedding' = ServerEmbedding
    BY <1>3, <1>4, ServerStageMoves DEF ServerIInv, Server!Stages, Server!Threads, ServerEmbedding
  <2>2. QED
    BY <2>1 DEF ServerIInv, ServerPermitsCounted, Server!ReadFrame, Server!Workers
<1>17. QED
  BY <1>5, <1>7, <1>10, <1>14, <1>15, <1>16 DEF ServerIInv

(* A step that only moves a request on to another stage of its answer.     *)
LEMMA ServerProgressKeeps ==
  ASSUME Server!BoundsAssumption, ServerIInv, NEW c \in Clients, NEW s \in Server!Stages, ServerBusy(c), Server!Goto(c, s),
         s \in {"dispatch", "snapshot", "embed_wait", "embedding", "done", "failed"},
         embeds' \in 0..MaxEmbeds, embeds' + Cardinality(ServerEmbedding') = MaxEmbeds,
         UNCHANGED <<surface, workers, acceptor, backlog, slots, peer, inbox, sent, current, replies>>
  PROVE  ServerIInv'
<1>1. stage' = [stage EXCEPT ![c] = s] /\ stage \in [Clients -> Server!Stages]
  BY DEF Server!Goto, ServerIInv, Server!TypeOK
<1>2. Server!TypeOK'
  BY <1>1 DEF ServerIInv, Server!TypeOK, Server!Workers
<1>3. \A d \in Clients : /\ ServerBusy(d)' <=> ServerBusy(d)
                         /\ stage'[d] = "queued" <=> stage[d] = "queued"
                         /\ stage'[d] = "closed" <=> stage[d] = "closed"
  BY <1>1
<1>4. ServerBacklogIsQueued'
  <2>1. \A i \in 1..Len(backlog) : backlog[i] \in Clients
    BY DEF ServerIInv, Server!TypeOK
  <2>2. QED
    BY <2>1, <1>3 DEF ServerIInv, ServerBacklogIsQueued
<1>5. ServerFramesInOrder'
  BY <1>3 DEF ServerIInv, ServerFramesInOrder
<1>6. \A d \in Clients : ServerDoneWith(d)' = ServerDoneWith(d)
  BY <1>3
<1>7. ServerRepliesToDone'
  BY <1>3, <1>6 DEF ServerIInv, ServerRepliesToDone
<1>8. ServerRepliesOrdered' /\ ServerFatalIsLast'
  BY <1>3 DEF ServerIInv, ServerRepliesOrdered, ServerFatalIsLast, Server!Fatal
<1>9. ServerPermitsCounted'
  <2>1. Server!Threads' = Server!Threads
    BY ServerStageMoves DEF ServerIInv
  <2>2. QED
    BY <2>1 DEF ServerIInv, ServerPermitsCounted, Server!Workers
<1>10. QED
  BY <1>2, <1>4, <1>5, <1>7, <1>8, <1>9 DEF ServerIInv

LEMMA ServerDispatchKeeps ==
  ASSUME Server!BoundsAssumption, ServerIInv, NEW c \in Clients, Server!Dispatch(c)
  PROVE  ServerIInv'
<1>1. PICK s \in {"snapshot", "failed"} : Server!Goto(c, s)
  BY DEF Server!Dispatch
<1>2. ServerEmbedding' = ServerEmbedding
  BY <1>1, ServerStageMoves DEF ServerIInv, Server!Dispatch, Server!Stages
<1>3. embeds' \in 0..MaxEmbeds /\ embeds' + Cardinality(ServerEmbedding') = MaxEmbeds
  BY <1>2 DEF ServerIInv, Server!TypeOK, ServerPermitsCounted, Server!Dispatch
<1>4. QED
  BY <1>1, <1>3, ServerProgressKeeps DEF Server!Dispatch, Server!Stages

LEMMA ServerGateKeeps ==
  ASSUME Server!BoundsAssumption, ServerIInv, NEW c \in Clients, Server!Gate(c)
  PROVE  ServerIInv'
<1>1. PICK s \in {"failed", "embed_wait", "done"} : Server!Goto(c, s)
  BY DEF Server!Gate
<1>2. ServerEmbedding' = ServerEmbedding
  BY <1>1, ServerStageMoves DEF ServerIInv, Server!Gate, Server!Stages
<1>3. embeds' \in 0..MaxEmbeds /\ embeds' + Cardinality(ServerEmbedding') = MaxEmbeds
  BY <1>2 DEF ServerIInv, Server!TypeOK, ServerPermitsCounted, Server!Gate
<1>4. QED
  BY <1>1, <1>3, ServerProgressKeeps DEF Server!Gate, Server!Stages

LEMMA ServerAcquireEmbedKeeps ==
  ASSUME Server!BoundsAssumption, ServerIInv, NEW c \in Clients, Server!AcquireEmbed(c)
  PROVE  ServerIInv'
<1>1. Server!Goto(c, "embedding") /\ stage[c] = "embed_wait"
  BY DEF Server!AcquireEmbed
<1>2. /\ Cardinality(ServerEmbedding') = Cardinality(ServerEmbedding) + 1
      /\ Cardinality(ServerEmbedding) \in Nat
  BY <1>1, ServerStageMoves, ServerCountsFit DEF ServerIInv, Server!Stages
<1>3. embeds' \in 0..MaxEmbeds /\ embeds' + Cardinality(ServerEmbedding') = MaxEmbeds
  BY <1>2
     DEF ServerIInv, Server!TypeOK, ServerPermitsCounted, Server!AcquireEmbed, Server!BoundsAssumption
<1>4. QED
  BY <1>1, <1>3, ServerProgressKeeps DEF Server!AcquireEmbed, Server!Stages

LEMMA ServerEmbedKeeps ==
  ASSUME Server!BoundsAssumption, ServerIInv, NEW c \in Clients, Server!Embed(c)
  PROVE  ServerIInv'
<1>1. PICK s \in {"done", "failed"} : Server!Goto(c, s)
  BY DEF Server!Embed
<1>2. Cardinality(ServerEmbedding') = Cardinality(ServerEmbedding) - 1
  BY <1>1, ServerStageMoves DEF ServerIInv, Server!Embed, Server!Stages
<1>3. Cardinality(ServerEmbedding) \in Nat /\ Cardinality(ServerEmbedding)' \in Nat
  <2>1. IsFiniteSet(ServerEmbedding) /\ IsFiniteSet(ServerEmbedding')
    BY ServerClientsFinite, FS_Subset DEF ServerEmbedding
  <2>2. QED
    BY <2>1, FS_CardinalityType
<1>4. embeds' \in 0..MaxEmbeds /\ embeds' + Cardinality(ServerEmbedding') = MaxEmbeds
  BY <1>2, <1>3
     DEF ServerIInv, Server!TypeOK, ServerPermitsCounted, Server!Embed, Server!BoundsAssumption
<1>5. QED
  BY <1>1, <1>4, ServerProgressKeeps DEF Server!Embed, Server!Stages

(* A reply to the frame being answered comes after the replies to those    *)
(* that are done with.                                                     *)
LEMMA ServerWriteAppends ==
  ASSUME Server!BoundsAssumption, ServerIInv, NEW c \in Clients, NEW r \in [id : 0..MaxFrames, ok : BOOLEAN], Server!Write(c, r),
         r.id # 0 => ServerBusy(c) /\ r.id = current[c].id
  PROVE  /\ replies' \in [Clients -> Seq([id : 0..MaxFrames, ok : BOOLEAN])]
         /\ \A d \in Clients \ {c} : replies'[d] = replies[d]
         /\ Len(replies'[c]) = Len(replies[c]) + 1 /\ replies'[c][Len(replies[c]) + 1] = r
         /\ \A i \in 1..Len(replies[c]) : replies'[c][i] = replies[c][i]
         /\ ServerRepliesOrdered'
         /\ \A i \in 1..Len(replies'[c]) : replies'[c][i].id <= sent[c] - Len(inbox[c])
<1>1. replies[c] \in Seq([id : 0..MaxFrames, ok : BOOLEAN]) /\ Len(replies[c]) \in Nat
      /\ replies'[c] = Append(replies[c], r)
      /\ \A i \in 1..Len(replies[c]) : replies[c][i].id \in Int
  BY ServerRepliesAreTyped DEF ServerIInv, Server!TypeOK, Server!Write
<1>2. Len(replies'[c]) = Len(replies[c]) + 1 /\ replies'[c][Len(replies[c]) + 1] = r
      /\ replies'[c] \in Seq([id : 0..MaxFrames, ok : BOOLEAN])
      /\ \A i \in 1..Len(replies[c]) : replies'[c][i] = replies[c][i]
  BY <1>1
<1>3. \A d \in Clients \ {c} : replies'[d] = replies[d]
  BY DEF ServerIInv, Server!TypeOK, Server!Write
<1>4. replies' \in [Clients -> Seq([id : 0..MaxFrames, ok : BOOLEAN])]
  BY <1>2 DEF ServerIInv, Server!TypeOK, Server!Write
<1>5. sent[c] \in Int /\ Len(inbox[c]) \in Int /\ sent[c] - Len(inbox[c]) >= 0 /\ r.id \in Int
  BY DEF ServerIInv, Server!TypeOK, ServerFramesInOrder, Server!BoundsAssumption
<1>6. /\ ServerBusy(c) => current[c].id = sent[c] - Len(inbox[c])
      /\ \A i \in 1..Len(replies[c]) : replies[c][i].id <= ServerDoneWith(c)
  BY DEF ServerIInv, ServerFramesInOrder, ServerRepliesToDone
<1>7. \A i \in 1..Len(replies'[c]) : i \in 1..Len(replies[c]) \/ i = Len(replies[c]) + 1
  BY <1>1, <1>2
<1>8. \A i \in 1..Len(replies'[c]) : replies'[c][i].id <= sent[c] - Len(inbox[c])
  <2>1. \A i \in 1..Len(replies[c]) : replies[c][i].id <= sent[c] - Len(inbox[c])
    BY <1>1, <1>5, <1>6
  <2>2. r.id <= sent[c] - Len(inbox[c])
    BY <1>5, <1>6
  <2>3. QED
    BY <1>2, <1>7, <2>1, <2>2
<1>9. ServerRepliesOrdered'
  <2>1. SUFFICES ASSUME NEW d \in Clients, NEW i \in 1..Len(replies'[d]), NEW j \in 1..Len(replies'[d]),
                        i < j, replies'[d][i].id # 0, replies'[d][j].id # 0
                 PROVE  replies'[d][i].id < replies'[d][j].id
    BY DEF ServerRepliesOrdered
  <2>2. CASE d # c
    BY <2>1, <2>2, <1>3 DEF ServerIInv, ServerRepliesOrdered
  <2>3. CASE d = c /\ j \in 1..Len(replies[c])
    <3>1. i \in 1..Len(replies[c])
      BY <1>1, <1>2, <2>1, <2>3
    <3>2. QED
      BY <2>1, <2>3, <3>1, <1>2 DEF ServerIInv, ServerRepliesOrdered
  <2>4. CASE d = c /\ j = Len(replies[c]) + 1
    <3>1. i \in 1..Len(replies[c]) /\ replies'[d][j] = r
      BY <1>1, <1>2, <2>1, <2>4
    <3>2. replies[c][i].id <= sent[c] - Len(inbox[c]) - 1 /\ r.id = sent[c] - Len(inbox[c])
      BY <1>5, <1>6, <2>1, <3>1
    <3>3. QED
      BY <3>1, <3>2, <2>4, <1>1, <1>2, <1>5
  <2>5. QED
    BY <1>7, <2>1, <2>2, <2>3, <2>4
<1>10. QED
  BY <1>2, <1>3, <1>4, <1>8, <1>9

(* What ends a connection, with a last reply or without.                   *)
LEMMA ServerCloseKeeps ==
  ASSUME Server!BoundsAssumption, ServerIInv, NEW c \in Clients, stage[c] \in {"reading", "done", "failed"}, Server!Close(c),
         \/ UNCHANGED replies
         \/ \E r \in [id : 0..MaxFrames, ok : BOOLEAN] :
              Server!Write(c, r) /\ (r.id # 0 => ServerBusy(c) /\ r.id = current[c].id),
         UNCHANGED <<surface, workers, acceptor, backlog, embeds, peer, inbox, sent>>
  PROVE  ServerIInv'
<1>1. stage' = [stage EXCEPT ![c] = "closed"] /\ current' = [current EXCEPT ![c] = Server!NoFrame]
      /\ slots' = slots + 1 /\ Server!Goto(c, "closed")
  BY DEF Server!Close, Server!Goto
<1>2. stage'[c] = "closed" /\ current'[c] = Server!NoFrame
      /\ \A d \in Clients \ {c} : stage'[d] = stage[d] /\ current'[d] = current[d]
  BY <1>1 DEF ServerIInv, Server!TypeOK
<1>3. /\ Cardinality(Server!Threads') = Cardinality(Server!Threads) - 1
      /\ ServerEmbedding' = ServerEmbedding
  BY <1>1, ServerThreadEnds DEF ServerIInv
<1>4. /\ Cardinality(Server!Threads') \in Nat /\ Cardinality(Server!Threads) \in Nat
      /\ Server!Workers \in Nat /\ Server!Workers' = Server!Workers
  <2>1. IsFiniteSet(Server!Threads')
    BY ServerClientsFinite, FS_Subset DEF Server!Threads
  <2>2. QED
    BY <1>1, <2>1, FS_CardinalityType, ServerCountsFit, ServerWorkersCounted DEF Server!Workers, ServerIInv
<1>5. ServerPermitsCounted'
  BY <1>1, <1>3, <1>4 DEF ServerIInv, ServerPermitsCounted, Server!TypeOK
<1>6. slots' \in 0..Server!Workers'
  <2>1. slots \in Int /\ slots >= 0 /\ ServerHeld' \in {0, 1}
    BY <1>4 DEF ServerIInv, Server!TypeOK
  <2>2. slots' + Cardinality(Server!Threads') + ServerHeld' = Server!Workers'
    BY <1>5 DEF ServerPermitsCounted
  <2>3. QED
    BY <2>1, <2>2, <1>1, <1>4
<1>7. /\ replies' \in [Clients -> Seq([id : 0..MaxFrames, ok : BOOLEAN])]
      /\ \A d \in Clients \ {c} : replies'[d] = replies[d]
      /\ ServerRepliesOrdered'
      /\ \A i \in 1..Len(replies'[c]) : replies'[c][i].id <= sent[c] - Len(inbox[c])
      /\ \A i \in 1..Len(replies'[c]) : i < Len(replies'[c]) => i \in 1..Len(replies[c]) /\ replies'[c][i] = replies[c][i]
      /\ Len(replies[c]) <= Len(replies'[c])
  <2>1. CASE UNCHANGED replies
    <3>1. sent[c] \in Int /\ Len(inbox[c]) \in Int
      BY DEF ServerIInv, Server!TypeOK, Server!BoundsAssumption
    <3>2. \A i \in 1..Len(replies[c]) : replies[c][i].id \in Int /\ replies[c][i].id <= ServerDoneWith(c)
      BY ServerRepliesAreTyped DEF ServerIInv, ServerRepliesToDone
    <3>3. \A i \in 1..Len(replies[c]) : replies[c][i].id <= sent[c] - Len(inbox[c])
      BY <3>1, <3>2
    <3>4. ServerRepliesOrdered' /\ replies' \in [Clients -> Seq([id : 0..MaxFrames, ok : BOOLEAN])]
      BY <2>1 DEF ServerIInv, Server!TypeOK, ServerRepliesOrdered
    <3>5. Len(replies[c]) \in Nat
      BY ServerRepliesAreTyped DEF ServerIInv
    <3>6. replies'[c] = replies[c] /\ \A d \in Clients \ {c} : replies'[d] = replies[d]
      BY <2>1
    <3>7. \A i \in 1..Len(replies'[c]) : replies'[c][i].id <= sent[c] - Len(inbox[c])
      BY <3>3, <3>6
    <3>8. \A i \in 1..Len(replies'[c]) : i \in 1..Len(replies[c]) /\ replies'[c][i] = replies[c][i]
      BY <3>6
    <3>9. Len(replies[c]) <= Len(replies'[c])
      BY <3>5, <3>6
    <3>10. QED
      BY <3>4, <3>6, <3>7, <3>8, <3>9
  <2>2. CASE \E r \in [id : 0..MaxFrames, ok : BOOLEAN] :
               Server!Write(c, r) /\ (r.id # 0 => ServerBusy(c) /\ r.id = current[c].id)
    <3>1. PICK r \in [id : 0..MaxFrames, ok : BOOLEAN] :
               Server!Write(c, r) /\ (r.id # 0 => ServerBusy(c) /\ r.id = current[c].id)
      BY <2>2
    <3>2. Len(replies[c]) \in Nat
      BY ServerRepliesAreTyped DEF ServerIInv
    <3>3. /\ replies' \in [Clients -> Seq([id : 0..MaxFrames, ok : BOOLEAN])]
          /\ \A d \in Clients \ {c} : replies'[d] = replies[d]
          /\ Len(replies'[c]) = Len(replies[c]) + 1
          /\ \A i \in 1..Len(replies[c]) : replies'[c][i] = replies[c][i]
          /\ ServerRepliesOrdered'
          /\ \A i \in 1..Len(replies'[c]) : replies'[c][i].id <= sent[c] - Len(inbox[c])
      BY <3>1, ServerWriteAppends
    <3>4. \A i \in 1..Len(replies'[c]) : i < Len(replies'[c]) => i \in 1..Len(replies[c])
      BY <3>2, <3>3
    <3>5. Len(replies[c]) <= Len(replies'[c])
      BY <3>2, <3>3
    <3>6. QED
      BY <3>3, <3>4, <3>5
  <2>3. QED
    BY <2>1, <2>2
<1>8. Server!TypeOK'
  <2>1. /\ stage' \in [Clients -> Server!Stages]
        /\ current' \in [Clients -> Server!Frames \cup {Server!NoFrame}]
    BY <1>1 DEF ServerIInv, Server!TypeOK, Server!Stages
  <2>2. QED
    BY <2>1, <1>4, <1>6, <1>7 DEF ServerIInv, Server!TypeOK
<1>9. ServerBacklogIsQueued'
  <2>1. \A i \in 1..Len(backlog) : backlog[i] \in Clients \ {c}
    BY DEF ServerIInv, ServerBacklogIsQueued, Server!TypeOK
  <2>2. QED
    BY <1>2, <2>1 DEF ServerIInv, ServerBacklogIsQueued
<1>10. ServerFramesInOrder'
  BY <1>2 DEF ServerIInv, ServerFramesInOrder
<1>11. ServerRepliesToDone'
  <2>1. SUFFICES ASSUME NEW d \in Clients
                 PROVE  /\ \A i \in 1..Len(replies'[d]) : replies'[d][i].id <= ServerDoneWith(d)'
                        /\ surface' = "site" /\ stage'[d] # "closed" => Len(replies'[d]) <= ServerDoneWith(d)'
    BY DEF ServerRepliesToDone
  <2>2. CASE d = c
    <3>1. ServerDoneWith(c)' = sent[c] - Len(inbox[c])
      BY <1>2 DEF ServerIInv, Server!TypeOK, Server!BoundsAssumption
    <3>2. QED
      BY <2>2, <3>1, <1>2, <1>7
  <2>3. CASE d # c
    BY <2>3, <1>2, <1>7 DEF ServerIInv, ServerRepliesToDone
  <2>4. QED
    BY <2>2, <2>3
<1>12. ServerFatalIsLast'
  <2>1. SUFFICES ASSUME NEW d \in Clients, NEW i \in 1..Len(replies'[d]), Server!Fatal(replies[d][i])'
                 PROVE  i = Len(replies'[d]) /\ stage'[d] = "closed"
    BY DEF ServerFatalIsLast
  <2>2. CASE d = c
    <3>1. Len(replies[c]) \in Nat /\ Len(replies'[c]) \in Nat
      BY <1>7, ServerRepliesAreTyped DEF ServerIInv
    <3>2. CASE i = Len(replies'[c])
      BY <2>2, <3>2, <1>2
    <3>3. CASE i < Len(replies'[c])
      <4>1. i \in 1..Len(replies[c]) /\ Server!Fatal(replies[c][i])
        BY <2>1, <2>2, <3>3, <1>7 DEF Server!Fatal
      <4>2. stage[c] = "closed"
        BY <4>1 DEF ServerIInv, ServerFatalIsLast
      <4>3. QED
        BY <4>2
    <3>4. QED
      BY <2>2, <3>1, <3>2, <3>3
  <2>3. CASE d # c
    BY <2>1, <2>3, <1>2, <1>7 DEF ServerIInv, ServerFatalIsLast, Server!Fatal
  <2>4. QED
    BY <2>2, <2>3
<1>13. QED
  BY <1>5, <1>7, <1>8, <1>9, <1>10, <1>11, <1>12 DEF ServerIInv

LEMMA ServerReadEndsKeeps ==
  ASSUME Server!BoundsAssumption, ServerIInv, NEW c \in Clients, Server!ReadEnds(c)
  PROVE  ServerIInv'
<1>1. [id |-> 0, ok |-> FALSE] \in [id : 0..MaxFrames, ok : BOOLEAN]
  BY DEF Server!BoundsAssumption
<1>2. \/ UNCHANGED replies
      \/ \E r \in [id : 0..MaxFrames, ok : BOOLEAN] :
              Server!Write(c, r) /\ (r.id # 0 => ServerBusy(c) /\ r.id = current[c].id)
  BY <1>1 DEF Server!ReadEnds
<1>3. QED
  BY <1>2, ServerCloseKeeps DEF Server!ReadEnds

(* The reply is written and the connection goes on.                        *)
LEMMA ServerAnswerKeeps ==
  ASSUME Server!BoundsAssumption, ServerIInv, NEW c \in Clients, stage[c] \in {"done", "failed"}, Server!Goto(c, "reading"),
         current' = [current EXCEPT ![c] = Server!NoFrame],
         NEW r \in [id : 0..MaxFrames, ok : BOOLEAN], Server!Write(c, r),
         r.id # 0 => r.id = current[c].id, surface = "site" => r.id # 0,
         UNCHANGED <<surface, workers, acceptor, backlog, slots, embeds, peer, inbox, sent>>
  PROVE  ServerIInv'
<1>1. stage' = [stage EXCEPT ![c] = "reading"]
  BY DEF Server!Goto
<1>2. stage'[c] = "reading" /\ current'[c] = Server!NoFrame
      /\ \A d \in Clients \ {c} : stage'[d] = stage[d] /\ current'[d] = current[d]
  BY <1>1 DEF ServerIInv, Server!TypeOK
<1>3. Server!Threads' = Server!Threads /\ ServerEmbedding' = ServerEmbedding
  BY ServerStageMoves DEF ServerIInv, Server!Stages
<1>4. ServerPermitsCounted'
  BY <1>3 DEF ServerIInv, ServerPermitsCounted, Server!Workers
<1>5. /\ replies' \in [Clients -> Seq([id : 0..MaxFrames, ok : BOOLEAN])]
      /\ \A d \in Clients \ {c} : replies'[d] = replies[d]
      /\ Len(replies'[c]) = Len(replies[c]) + 1 /\ replies'[c][Len(replies[c]) + 1] = r
      /\ \A i \in 1..Len(replies[c]) : replies'[c][i] = replies[c][i]
      /\ ServerRepliesOrdered'
      /\ \A i \in 1..Len(replies'[c]) : replies'[c][i].id <= sent[c] - Len(inbox[c])
  BY ServerWriteAppends
<1>6. Server!TypeOK'
  <2>1. /\ stage' \in [Clients -> Server!Stages]
        /\ current' \in [Clients -> Server!Frames \cup {Server!NoFrame}]
    BY <1>1 DEF ServerIInv, Server!TypeOK, Server!Stages
  <2>2. QED
    BY <2>1, <1>5 DEF ServerIInv, Server!TypeOK, Server!Workers
<1>7. ServerBacklogIsQueued'
  <2>1. \A i \in 1..Len(backlog) : backlog[i] \in Clients \ {c}
    BY DEF ServerIInv, ServerBacklogIsQueued, Server!TypeOK
  <2>2. QED
    BY <1>2, <2>1 DEF ServerIInv, ServerBacklogIsQueued
<1>8. ServerFramesInOrder'
  BY <1>2 DEF ServerIInv, ServerFramesInOrder
<1>9. ServerRepliesToDone'
  <2>1. SUFFICES ASSUME NEW d \in Clients
                 PROVE  /\ \A i \in 1..Len(replies'[d]) : replies'[d][i].id <= ServerDoneWith(d)'
                        /\ surface' = "site" /\ stage'[d] # "closed" => Len(replies'[d]) <= ServerDoneWith(d)'
    BY DEF ServerRepliesToDone
  <2>2. CASE d = c
    <3>1. ServerDoneWith(c)' = sent[c] - Len(inbox[c]) /\ ServerDoneWith(c) = sent[c] - Len(inbox[c]) - 1
          /\ sent[c] \in Int /\ Len(inbox[c]) \in Int
      BY <1>2 DEF ServerIInv, Server!TypeOK, Server!BoundsAssumption
    <3>2. surface = "site" => Len(replies[c]) <= ServerDoneWith(c)
      BY DEF ServerIInv, ServerRepliesToDone
    <3>3. Len(replies[c]) \in Nat
      BY ServerRepliesAreTyped DEF ServerIInv
    <3>4. QED
      BY <2>2, <3>1, <3>2, <3>3, <1>2, <1>5
  <2>3. CASE d # c
    BY <2>3, <1>2, <1>5 DEF ServerIInv, ServerRepliesToDone
  <2>4. QED
    BY <2>2, <2>3
<1>10. ServerFatalIsLast'
  <2>1. SUFFICES ASSUME NEW d \in Clients, NEW i \in 1..Len(replies'[d]), Server!Fatal(replies[d][i])'
                 PROVE  i = Len(replies'[d]) /\ stage'[d] = "closed"
    BY DEF ServerFatalIsLast
  <2>2. CASE d = c
    <3>1. Len(replies[c]) \in Nat
      BY ServerRepliesAreTyped DEF ServerIInv
    <3>2. CASE i = Len(replies[c]) + 1
      BY <2>1, <2>2, <3>2, <1>5 DEF Server!Fatal
    <3>3. CASE i \in 1..Len(replies[c])
      <4>1. Server!Fatal(replies[c][i])
        BY <2>1, <2>2, <3>3, <1>5 DEF Server!Fatal
      <4>2. stage[c] = "closed"
        BY <4>1, <3>3 DEF ServerIInv, ServerFatalIsLast
      <4>3. QED
        BY <4>2
    <3>4. QED
      BY <2>2, <3>1, <3>2, <3>3, <1>5
  <2>3. CASE d # c
    <3>1. replies'[d] = replies[d] /\ stage'[d] = stage[d] /\ surface' = surface
      BY <2>3, <1>2, <1>5
    <3>2. Server!Fatal(replies[d][i])
      BY <2>1, <3>1 DEF Server!Fatal
    <3>3. i = Len(replies[d]) /\ stage[d] = "closed"
      BY <2>1, <3>1, <3>2 DEF ServerIInv, ServerFatalIsLast
    <3>4. QED
      BY <3>1, <3>3
  <2>4. QED
    BY <2>2, <2>3
<1>11. QED
  BY <1>4, <1>5, <1>6, <1>7, <1>8, <1>9, <1>10 DEF ServerIInv

LEMMA ServerRespondKeeps ==
  ASSUME Server!BoundsAssumption, ServerIInv, NEW c \in Clients, Server!Respond(c)
  PROVE  ServerIInv'
<1> DEFINE r == Server!Reply(current[c], stage[c] = "done" \/ (current[c].kind = "exit" /\ surface = "local"))
<1>1. stage[c] \in {"done", "failed"} /\ ServerBusy(c) /\ current[c].id # 0
  BY DEF ServerIInv, ServerFramesInOrder, Server!Respond
<1>2. current[c] \in Server!Frames
  BY <1>1 DEF ServerIInv, Server!TypeOK, Server!NoFrame
<1>3. current[c].id \in 1..MaxFrames
  BY <1>2 DEF Server!Frames
<1>4. r \in [id : 0..MaxFrames, ok : BOOLEAN] /\ (r.id # 0 => r.id = current[c].id)
      /\ (r.id = 0 => current[c].kind \in {"malformed", "oversize"})
  BY <1>3 DEF Server!Reply, Server!BoundsAssumption
<1>5. CASE Server!Write(c, r) /\ ~Server!EndsConnection(current[c]) /\ Server!Goto(c, "reading")
           /\ current' = [current EXCEPT ![c] = Server!NoFrame] /\ UNCHANGED slots
  <2>1. surface = "site" => r.id # 0
    BY <1>4, <1>5 DEF Server!EndsConnection
  <2>2. QED
    BY <1>1, <1>4, <1>5, <2>1, ServerAnswerKeeps DEF Server!Respond
<1>6. CASE Server!Write(c, r) /\ Server!Close(c)
  BY <1>1, <1>4, <1>6, ServerCloseKeeps DEF Server!Respond
<1>7. CASE peer[c] = "gone" /\ Server!Close(c) /\ UNCHANGED replies
  BY <1>1, <1>7, ServerCloseKeeps DEF Server!Respond
<1>8. QED
  BY <1>5, <1>6, <1>7 DEF Server!Respond

LEMMA ServerStepKeeps ==
  ASSUME Server!BoundsAssumption, ServerIInv, [Server!Next]_(Server!vars)
  PROVE  ServerIInv'
<1>1. CASE UNCHANGED Server!vars
  <2>1. Server!TypeOK'
    BY <1>1 DEF ServerIInv, Server!TypeOK, Server!vars, Server!Workers
  <2>2. /\ ServerBacklogIsQueued' /\ ServerFramesInOrder' /\ ServerRepliesToDone'
        /\ ServerRepliesOrdered' /\ ServerFatalIsLast'
    BY <1>1
       DEF ServerIInv, ServerBacklogIsQueued, ServerFramesInOrder, ServerRepliesToDone,
           ServerRepliesOrdered, ServerFatalIsLast, Server!Fatal, Server!vars
  <2>3. ServerPermitsCounted'
    BY <1>1
       DEF ServerIInv, ServerPermitsCounted, Server!Threads, ServerEmbedding, Server!Workers,
           Server!vars
  <2>4. QED
    BY <2>1, <2>2, <2>3 DEF ServerIInv
<1>2. QED
  BY <1>1, ServerConnectKeeps, ServerSendKeeps, ServerHangUpKeeps, ServerAcquireWorkerKeeps,
     ServerAcceptKeeps, ServerReadFrameKeeps,
     ServerReadEndsKeeps, ServerDispatchKeeps, ServerGateKeeps, ServerAcquireEmbedKeeps, ServerEmbedKeeps, ServerRespondKeeps
     DEF Server!Next, Server!ThreadStep

LEMMA ServerInvariance == ASSUME Server!BoundsAssumption PROVE Server!Spec => []ServerIInv
<1>1. Server!Init => ServerIInv
  BY ServerTypeIsInitial
<1>2. ServerIInv /\ [Server!Next]_(Server!vars) => ServerIInv'
  BY ServerStepKeeps
<1>3. QED
  BY <1>1, <1>2, PTL DEF Server!Spec

LEMMA ServerPermitsFollow == ASSUME Server!BoundsAssumption, ServerIInv PROVE Server!PermitsAreConserved
<1>1. ServerEmbedding = {c \in Clients : stage[c] = "embedding"}
  BY DEF ServerEmbedding
<1>2. Cardinality(Server!Snapshots) <= Cardinality(Server!Threads) /\ Cardinality(Server!Snapshots) \in Nat
      /\ Cardinality(Server!Threads) \in Nat /\ Server!Workers \in Nat
  BY ServerCountsFit, ServerWorkersCounted DEF ServerIInv
<1>3. /\ slots + Cardinality(Server!Threads) + ServerHeld = Server!Workers /\ slots \in Nat
      /\ ServerHeld \in {0, 1}
  BY <1>2 DEF ServerIInv, ServerPermitsCounted, Server!TypeOK
<1>4. Cardinality(Server!Snapshots) <= Server!Workers
  BY <1>2, <1>3
<1>5. QED
  BY <1>1, <1>3, <1>4, ServerSizes DEF ServerIInv, ServerPermitsCounted, Server!PermitsAreConserved

LEMMA ServerOrderFollows ==
  ASSUME Server!BoundsAssumption, ServerIInv
  PROVE  Server!RepliesFollowRequests
<1>1. ASSUME NEW c \in Clients, surface = "site", current[c].id # 0
      PROVE  Len(replies[c]) < current[c].id
  <2>1. ServerBusy(c) /\ current[c].id = sent[c] - Len(inbox[c])
    BY <1>1 DEF ServerIInv, ServerFramesInOrder, Server!NoFrame
  <2>2. Len(replies[c]) <= sent[c] - Len(inbox[c]) - 1 /\ Len(replies[c]) \in Nat
    BY <1>1, <2>1, ServerRepliesAreTyped DEF ServerIInv, ServerRepliesToDone
  <2>3. sent[c] \in Int /\ Len(inbox[c]) \in Int
    BY DEF ServerIInv, Server!TypeOK, Server!BoundsAssumption
  <2>4. QED
    BY <2>1, <2>2, <2>3
<1>2. QED
  BY <1>1 DEF ServerIInv, ServerRepliesOrdered, ServerFatalIsLast, Server!RepliesFollowRequests

(* The types of the variables, for every number of connections, workers,   *)
(* embedder permits and frames.                                            *)
LEMMA ServerTypeCorrect ==
  ASSUME Server!BoundsAssumption
  PROVE  Server!Spec => []Server!TypeOK
<1>1. ServerIInv => Server!TypeOK
  BY DEF ServerIInv
<1>2. QED
  BY ServerInvariance, <1>1, PTL

(* Every worker permit is free, with the acceptor or with one open         *)
(* connection, and every embedder permit free or with one call, whatever   *)
(* ends a connection or a request.                                         *)
THEOREM ServerPermitsAreConservedAlways ==
  ASSUME Server!BoundsAssumption
  PROVE  Server!Spec => []Server!PermitsAreConserved
<1>1. ServerIInv => Server!PermitsAreConserved
  BY ServerPermitsFollow
<1>2. QED
  BY ServerInvariance, <1>1, PTL

(* The replies of a connection are in the order of its requests, and       *)
(* nothing follows the error that ends a connection of the site service.   *)
THEOREM ServerRepliesFollowRequestsAlways ==
  ASSUME Server!BoundsAssumption
  PROVE  Server!Spec => []Server!RepliesFollowRequests
<1>1. ServerIInv => Server!RepliesFollowRequests
  BY ServerOrderFollows
<1>2. QED
  BY ServerInvariance, <1>1, PTL


-----------------------------------------------------------------------------
(* The index that is opened and closed.  What a command may rely on grows  *)
(* with the stage it has reached, and it alone holds the lock.             *)

PostgresAssumptions == Postgres!BoundsAssumption /\ Postgres!NoneAssumption

(* What a command has made of the directory, by the stage it has reached.  *)
PostgresOpened(c) ==
  /\ opening[c] # "idle" => lock = c
  /\ opening[c] \notin {"idle", "locked", "initialised", "stopping", "failing"} =>
       conf.profile = profile[c]
  /\ opening[c] \in {"started", "created", "profiled", "advised", "serving"} =>
       server \in Postgres!Servers /\ server.by = c /\ server.conf.profile = profile[c]
  /\ opening[c] \in {"created", "profiled", "advised", "serving"} => database
  /\ opening[c] \in {"profiled", "advised", "serving"} =>
       ((sync = "off") <=> (profile[c] = "BulkIngest"))
  /\ opening[c] \in {"advised", "serving"} => advisory = c
  /\ opening[c] = "serving" => applied = CommandRelease[c]

PostgresIInv == Postgres!TypeOK /\ \A c \in Commands : PostgresOpened(c)

LEMMA PostgresInitKeeps == ASSUME PostgresAssumptions, Postgres!Init PROVE PostgresIInv
<1>a. conf \in Postgres!Settings /\ override \in {"unset", "fits", "absurd"}
  BY DEF Postgres!Init, Postgres!Settings, Postgres!Profiles
<1>b. opening \in [Commands -> Postgres!Stages] /\ profile \in [Commands -> Postgres!Profiles]
  BY DEF Postgres!Init, Postgres!Stages, Postgres!Profiles
<1>c. failures \in 0..MaxKills /\ applied \in Nat
  BY DEF Postgres!Init, PostgresAssumptions, Postgres!BoundsAssumption
<1>1. Postgres!TypeOK
  BY <1>a, <1>b, <1>c DEF Postgres!Init, Postgres!TypeOK
<1>2. \A c \in Commands : PostgresOpened(c)
  BY DEF Postgres!Init, PostgresOpened
<1>3. QED
  BY <1>1, <1>2 DEF PostgresIInv

(* The others wait outside: one command has the lock.                      *)
LEMMA PostgresOthersIdle ==
  ASSUME PostgresAssumptions, PostgresIInv, NEW c \in Commands, lock \in {c, None}
  PROVE  \A d \in Commands \ {c} : opening[d] = "idle"
BY DEF PostgresAssumptions, Postgres!NoneAssumption, PostgresIInv, PostgresOpened

(* A step of the command that holds the lock, or takes it.                 *)
LEMMA PostgresHolderMoves ==
  ASSUME PostgresAssumptions, PostgresIInv, NEW c \in Commands, NEW s \in Postgres!Stages, lock \in {c, None},
         Postgres!Goto(c, s), PostgresOpened(c)'
  PROVE  opening' \in [Commands -> Postgres!Stages] /\ \A d \in Commands : PostgresOpened(d)'
<1>1. opening \in [Commands -> Postgres!Stages]
  BY DEF PostgresIInv, Postgres!TypeOK
<1>2. opening' = [opening EXCEPT ![c] = s]
  BY DEF Postgres!Goto
<1>3. opening' \in [Commands -> Postgres!Stages]
  BY <1>1, <1>2
<1>4. \A d \in Commands \ {c} : opening'[d] = "idle"
  BY <1>1, <1>2, PostgresOthersIdle
<1>5. QED
  BY <1>3, <1>4 DEF PostgresOpened

LEMMA PostgresOpenKeeps ==
  ASSUME PostgresAssumptions, PostgresIInv, NEW c \in Commands, NEW p \in Postgres!Profiles, Postgres!Open(c, p)
  PROVE  PostgresIInv'
<1>1. /\ lock = None /\ lock' = c /\ profile' = [profile EXCEPT ![c] = p] /\ Postgres!Goto(c, "locked")
      /\ UNCHANGED <<Postgres!diskVars, Postgres!serverVars, failures>>
  BY DEF Postgres!Open
<1>2. opening'[c] = "locked"
  BY <1>1 DEF Postgres!Goto, PostgresIInv, Postgres!TypeOK
<1>3. PostgresOpened(c)'
  BY <1>1, <1>2 DEF PostgresOpened
<1>4. opening' \in [Commands -> Postgres!Stages] /\ \A d \in Commands : PostgresOpened(d)'
  BY <1>1, <1>3, PostgresHolderMoves DEF Postgres!Stages
<1>5. Postgres!TypeOK'
  BY <1>1, <1>4 DEF PostgresIInv, Postgres!TypeOK, Postgres!diskVars, Postgres!serverVars
<1>6. QED
  BY <1>4, <1>5 DEF PostgresIInv

LEMMA PostgresStepKeeps ==
  ASSUME PostgresAssumptions, PostgresIInv, NEW c \in Commands,
         Postgres!Step(c) \/ Postgres!Close(c) \/ Postgres!ReclaimTimesOut(c) \/ Postgres!CallFails(c)
  PROVE  PostgresIInv'
<1>1. opening \in [Commands -> Postgres!Stages] /\ PostgresOpened(c) /\ CommandRelease[c] \in Nat
      /\ profile \in [Commands -> Postgres!Profiles] /\ lock \in Commands \union {None}
  BY DEF PostgresIInv, Postgres!TypeOK, PostgresAssumptions, Postgres!BoundsAssumption
<1>2. ASSUME NEW s \in Postgres!Stages, Postgres!Goto(c, s), lock = c, PostgresOpened(c)', UNCHANGED profile,
             lock' \in {lock, None}, advisory' \in {advisory, None, c}, data' \in {data, "ready"},
             conf' \in Postgres!Settings, override' = override, server' \in Postgres!Servers \union {None},
             pidfile' \in {"none", "live", "stale"}, holder' \in {holder, None}, database' \in BOOLEAN,
             sync' \in {"on", "off"}, applied' \in Nat, failures' \in 0..MaxKills
      PROVE  PostgresIInv'
  <2>1. opening' \in [Commands -> Postgres!Stages] /\ \A d \in Commands : PostgresOpened(d)'
    BY <1>2, PostgresHolderMoves
  <2>2. Postgres!TypeOK'
    BY <1>2, <2>1 DEF PostgresIInv, Postgres!TypeOK
  <2>3. QED
    BY <2>1, <2>2 DEF PostgresIInv
<1> USE DEF Postgres!Goto, Postgres!diskVars, Postgres!serverVars, Postgres!Stages
<1>3. CASE Postgres!Initialise(c)
  <2>1. PostgresOpened(c)'
    BY <1>1, <1>3 DEF Postgres!Initialise, PostgresOpened
  <2>2. QED
    BY <1>1, <1>2, <1>3, <2>1 DEF Postgres!Initialise, PostgresOpened, PostgresIInv, Postgres!TypeOK
<1>4. CASE Postgres!WriteConf(c)
  <2>1. PostgresOpened(c)'
    BY <1>1, <1>4 DEF Postgres!WriteConf, PostgresOpened
  <2>2. conf' \in Postgres!Settings
    BY <1>1, <1>4 DEF Postgres!WriteConf, Postgres!Settings, Postgres!Memory
  <2>3. QED
    BY <1>1, <1>2, <1>4, <2>1, <2>2
       DEF Postgres!WriteConf, PostgresOpened, PostgresIInv, Postgres!TypeOK
<1>5. CASE Postgres!Reclaim(c)
  <2>1. PostgresOpened(c)'
    BY <1>1, <1>5 DEF Postgres!Reclaim, PostgresOpened
  <2>2. QED
    BY <1>1, <1>2, <1>5, <2>1 DEF Postgres!Reclaim, PostgresOpened, PostgresIInv, Postgres!TypeOK
<1>6. CASE Postgres!StartServer(c)
  <2>1. server' \in Postgres!Servers /\ server'.by = c /\ server'.conf = conf
    BY <1>6 DEF Postgres!StartServer, Postgres!Servers, PostgresIInv, Postgres!TypeOK
  <2>2. PostgresOpened(c)'
    BY <1>1, <1>6, <2>1 DEF Postgres!StartServer, PostgresOpened
  <2>3. QED
    BY <1>1, <1>2, <1>6, <2>1, <2>2
       DEF Postgres!StartServer, PostgresOpened, PostgresIInv, Postgres!TypeOK
<1>7. CASE Postgres!EnsureDatabase(c)
  <2>1. PostgresOpened(c)'
    BY <1>1, <1>7 DEF Postgres!EnsureDatabase, PostgresOpened
  <2>2. QED
    BY <1>1, <1>2, <1>7, <2>1 DEF Postgres!EnsureDatabase, PostgresOpened, PostgresIInv, Postgres!TypeOK
<1>8. CASE Postgres!ApplyProfile(c)
  <2>1. PostgresOpened(c)'
    BY <1>1, <1>8 DEF Postgres!ApplyProfile, PostgresOpened
  <2>2. QED
    BY <1>1, <1>2, <1>8, <2>1 DEF Postgres!ApplyProfile, PostgresOpened, PostgresIInv, Postgres!TypeOK
<1>9. CASE Postgres!TakeAdvisoryLock(c)
  <2>1. PostgresOpened(c)'
    BY <1>1, <1>9 DEF Postgres!TakeAdvisoryLock, PostgresOpened
  <2>2. QED
    BY <1>1, <1>2, <1>9, <2>1
       DEF Postgres!TakeAdvisoryLock, PostgresOpened, PostgresIInv, Postgres!TypeOK
<1>10. CASE Postgres!Migrate(c)
  <2>1. applied \in Nat
    BY DEF PostgresIInv, Postgres!TypeOK
  <2>2. CASE applied < CommandRelease[c]
    <3>1. opening' = [opening EXCEPT ![c] = "advised"] /\ opening[c] = "advised"
      BY <1>1, <1>10, <2>2 DEF Postgres!Migrate
    <3>2. PostgresOpened(c)'
      BY <1>1, <1>10, <2>2, <3>1 DEF Postgres!Migrate, PostgresOpened
    <3>3. QED
      BY <1>1, <1>2, <1>10, <2>1, <2>2, <3>1, <3>2
         DEF Postgres!Migrate, PostgresOpened, PostgresIInv, Postgres!TypeOK
  <2>3. CASE applied > CommandRelease[c]
    <3>1. Postgres!Goto(c, "stopping") /\ UNCHANGED applied
      BY <1>1, <1>10, <2>1, <2>3 DEF Postgres!Migrate
    <3>2. PostgresOpened(c)'
      BY <1>1, <1>10, <3>1 DEF Postgres!Migrate, PostgresOpened
    <3>3. QED
      BY <1>1, <1>2, <1>10, <3>1, <3>2
         DEF Postgres!Migrate, PostgresOpened, PostgresIInv, Postgres!TypeOK
  <2>4. CASE applied = CommandRelease[c]
    <3>1. Postgres!Goto(c, "serving") /\ UNCHANGED applied
      BY <1>1, <1>10, <2>1, <2>4 DEF Postgres!Migrate
    <3>2. PostgresOpened(c)'
      BY <1>1, <1>10, <2>4, <3>1 DEF Postgres!Migrate, PostgresOpened
    <3>3. QED
      BY <1>1, <1>2, <1>10, <3>1, <3>2
         DEF Postgres!Migrate, PostgresOpened, PostgresIInv, Postgres!TypeOK
  <2>5. QED
    BY <1>1, <2>1, <2>2, <2>3, <2>4
<1>11. CASE Postgres!FailEarly(c)
  <2>1. PICK s \in {"stopping", "failing"} : Postgres!Goto(c, s)
    BY <1>11 DEF Postgres!FailEarly
  <2>2. PostgresOpened(c)'
    BY <1>1, <1>11, <2>1 DEF Postgres!FailEarly, PostgresOpened
  <2>3. QED
    BY <1>1, <1>2, <1>11, <2>1, <2>2
       DEF Postgres!FailEarly, PostgresOpened, PostgresIInv, Postgres!TypeOK
<1>12. CASE Postgres!CallFails(c)
  <2>1. PICK s \in {"stopping", "failing"} : Postgres!Goto(c, s)
    BY <1>12 DEF Postgres!CallFails
  <2>2. PostgresOpened(c)'
    BY <1>1, <1>12, <2>1 DEF Postgres!CallFails, PostgresOpened
  <2>3. failures' \in 0..MaxKills
    BY <1>12
       DEF Postgres!CallFails, PostgresIInv, Postgres!TypeOK, PostgresAssumptions,
           Postgres!BoundsAssumption
  <2>4. QED
    BY <1>1, <1>2, <1>12, <2>1, <2>2, <2>3
       DEF Postgres!CallFails, PostgresOpened, PostgresIInv, Postgres!TypeOK
<1>13. CASE Postgres!Close(c)
  <2>1. PostgresOpened(c)'
    BY <1>1, <1>13 DEF Postgres!Close, PostgresOpened
  <2>2. QED
    BY <1>1, <1>2, <1>13, <2>1 DEF Postgres!Close, PostgresOpened, PostgresIInv, Postgres!TypeOK
<1>14. CASE Postgres!Stop(c)
  <2>1. PostgresOpened(c)'
    BY <1>1, <1>14 DEF Postgres!Stop, PostgresOpened
  <2>2. QED
    BY <1>1, <1>2, <1>14, <2>1 DEF Postgres!Stop, PostgresOpened, PostgresIInv, Postgres!TypeOK
<1>15. CASE Postgres!Unlock(c)
  <2>1. PostgresOpened(c)'
    BY <1>1, <1>15 DEF Postgres!Unlock, PostgresOpened
  <2>2. QED
    BY <1>1, <1>2, <1>15, <2>1 DEF Postgres!Unlock, PostgresOpened, PostgresIInv, Postgres!TypeOK
<1>16. CASE Postgres!ReclaimTimesOut(c)
  <2>1. PostgresOpened(c)'
    BY <1>1, <1>16 DEF Postgres!ReclaimTimesOut, PostgresOpened
  <2>2. failures' \in 0..MaxKills
    BY <1>16
       DEF Postgres!ReclaimTimesOut, PostgresIInv, Postgres!TypeOK, PostgresAssumptions,
           Postgres!BoundsAssumption
  <2>3. QED
    BY <1>1, <1>2, <1>16, <2>1, <2>2
       DEF Postgres!ReclaimTimesOut, PostgresOpened, PostgresIInv, Postgres!TypeOK
<1>17. QED
  BY <1>3, <1>4, <1>5, <1>6, <1>7, <1>8, <1>9, <1>10, <1>11, <1>12, <1>13, <1>14, <1>15, <1>16
     DEF Postgres!Step

LEMMA PostgresKillKeeps ==
  ASSUME PostgresAssumptions, PostgresIInv, NEW c \in Commands, Postgres!Kill(c)
  PROVE  PostgresIInv'
<1>1. opening[c] # "idle" /\ lock = c
  BY DEF Postgres!Kill, PostgresIInv, PostgresOpened
<1>2. Postgres!Goto(c, "idle") /\ opening'[c] = "idle"
  BY DEF Postgres!Kill, Postgres!Goto, PostgresIInv, Postgres!TypeOK
<1>3. opening' \in [Commands -> Postgres!Stages] /\ \A d \in Commands : PostgresOpened(d)'
  BY <1>1, <1>2, PostgresHolderMoves DEF PostgresOpened, Postgres!Stages
<1>4. failures' \in 0..MaxKills /\ data' \in {"none", "torn", "ready"}
  BY DEF Postgres!Kill, PostgresIInv, Postgres!TypeOK, PostgresAssumptions, Postgres!BoundsAssumption
<1>5. lock' \in Commands \union {None} /\ advisory' \in Commands \union {None}
  BY DEF Postgres!Kill, PostgresIInv, Postgres!TypeOK
<1>6. UNCHANGED <<conf, override, database, sync, applied, server, pidfile, holder, profile>>
  BY DEF Postgres!Kill
<1>7. Postgres!TypeOK'
  BY <1>3, <1>4, <1>5, <1>6 DEF PostgresIInv, Postgres!TypeOK
<1>8. QED
  BY <1>3, <1>7 DEF PostgresIInv

LEMMA PostgresPowerLossKeeps ==
  ASSUME PostgresAssumptions, PostgresIInv, Postgres!PowerLoss
  PROVE  PostgresIInv'
<1>1. \A d \in Commands : opening'[d] = "idle"
  BY DEF Postgres!PowerLoss
<1>2. \A d \in Commands : PostgresOpened(d)'
  BY <1>1 DEF PostgresOpened
<1>3. failures' \in 0..MaxKills /\ opening' \in [Commands -> Postgres!Stages]
  BY DEF Postgres!PowerLoss, PostgresIInv, Postgres!TypeOK, PostgresAssumptions,
     Postgres!BoundsAssumption, Postgres!Stages
<1>4. Postgres!TypeOK'
  BY <1>3 DEF Postgres!PowerLoss, PostgresIInv, Postgres!TypeOK, Postgres!diskVars
<1>5. QED
  BY <1>2, <1>4 DEF PostgresIInv

LEMMA PostgresNextKeeps ==
  ASSUME PostgresAssumptions, PostgresIInv, [Postgres!Next]_(Postgres!vars)
  PROVE  PostgresIInv'
<1>1. CASE Postgres!HolderEnds
  <2>1. /\ UNCHANGED <<lock, Postgres!diskVars, server, pidfile, advisory, opening, profile, failures>>
        /\ holder' = None
    BY <1>1 DEF Postgres!HolderEnds
  <2>2. Postgres!TypeOK'
    BY <2>1 DEF PostgresIInv, Postgres!TypeOK, Postgres!diskVars
  <2>3. QED
    BY <2>1, <2>2 DEF PostgresIInv, PostgresOpened, Postgres!diskVars
<1>2. CASE UNCHANGED Postgres!vars
  BY <1>2
     DEF PostgresIInv, Postgres!TypeOK, PostgresOpened, Postgres!vars, Postgres!diskVars,
         Postgres!serverVars
<1>3. QED
  BY <1>1, <1>2, PostgresOpenKeeps, PostgresStepKeeps, PostgresKillKeeps, PostgresPowerLossKeeps
     DEF Postgres!Next

LEMMA PostgresInvariance == ASSUME PostgresAssumptions PROVE Postgres!Spec => []PostgresIInv
<1>1. Postgres!Init => PostgresIInv
  BY PostgresInitKeeps
<1>2. PostgresIInv /\ [Postgres!Next]_(Postgres!vars) => PostgresIInv'
  BY PostgresNextKeeps
<1>3. QED
  BY <1>1, <1>2, PTL DEF Postgres!Spec

(* What the variables of the index and of its server hold.                 *)
LEMMA PostgresTypeCorrect == ASSUME PostgresAssumptions PROVE Postgres!Spec => []Postgres!TypeOK
<1>1. PostgresIInv => Postgres!TypeOK
  BY DEF PostgresIInv
<1>2. QED
  BY <1>1, PostgresInvariance, PTL

(* A command that serves has the index for itself, with its own server.    *)
THEOREM PostgresServesItsOwnServerAlways ==
  ASSUME PostgresAssumptions
  PROVE  Postgres!Spec => []Postgres!ServesItsOwnServer
<1>1. ASSUME PostgresIInv PROVE Postgres!ServesItsOwnServer
  <2>1. ASSUME NEW c \in Commands, opening[c] = "serving"
        PROVE  /\ lock = c /\ advisory = c /\ database
               /\ server # None /\ server.by = c /\ server.conf.profile = profile[c]
               /\ (sync = "off") = (profile[c] = "BulkIngest")
               /\ applied = CommandRelease[c]
    <3>1. PostgresOpened(c)
      BY <1>1 DEF PostgresIInv
    <3>2. ((sync = "off") <=> (profile[c] = "BulkIngest"))
      BY <2>1, <3>1 DEF PostgresOpened
    <3>3. server # None
      BY <2>1, <3>1 DEF PostgresOpened, PostgresAssumptions, Postgres!NoneAssumption
    <3>4. QED
      BY <2>1, <3>1, <3>2, <3>3 DEF PostgresOpened
  <2>2. QED
    BY <2>1 DEF Postgres!ServesItsOwnServer
<1>2. QED
  BY <1>1, PostgresInvariance, PTL

-----------------------------------------------------------------------------
(* The roles.  What was granted beyond the job of a role is only found     *)
(* before provisioning, and a visible generation keeps its grants.         *)

SiteAssumptions == Site!BoundsAssumption /\ Site!NamesAssumption

(* The privileges that are ever granted: nobody but the read role, the     *)
(* writer and PUBLIC meets with more than its surface, and then only where *)
(* provisioning looks; in a provisioned database nothing of it is left.    *)
SiteGranted ==
  \A g \in grants :
    /\ g[1] = "read" /\ g[2] # "select" => g[3] \in Site!AppObjects /\ ~provisioned
    /\ g[1] = "PUBLIC" => g = <<"PUBLIC", "create", "public">> /\ ~provisioned
    /\ g[1] = "owner" /\ g[2] = "create" => purpose = "producer"
    /\ g[1] = "owner" => g[2] # "write"
    /\ g[1] = "writer" /\ g[2] = "create" => g[3] = "database"
    /\ g[1] = "writer" /\ g[2] = "write" /\ g[3] = "template" => ~provisioned \/ purpose = "producer"

(* Who is whose member.                                                    *)
SiteJoined ==
  /\ members \subseteq {<<"read", "rogue">>, <<"read", "owner">>, <<"writer", "owner">>, <<"writer", "read">>}
  /\ provisioned => <<"read", "rogue">> \notin members /\ <<"read", "owner">> \notin members

SiteOwned ==
  /\ \A o \in Site!Objects : owners[o] \in {"admin", "owner", "writer", None}
  /\ owners["template"] = "admin" /\ owners["public"] = "admin"
  /\ provisioned => owners["view"] = "owner" /\ <<"read", "select", "view">> \in grants

(* The visible generation was handed to both roles, and keeps its grants.  *)
SiteHanded ==
  visible # None => <<"read", "select", visible>> \in grants /\ <<"owner", "select", visible>> \in grants

SiteIInv == Site!TypeOK /\ SiteGranted /\ SiteJoined /\ SiteOwned /\ SiteHanded

LEMMA SiteNames ==
  ASSUME SiteAssumptions, NEW g \in Schemas
  PROVE  g \notin Site!AppObjects /\ g \in Site!Objects /\ g # None
BY DEF SiteAssumptions, Site!NamesAssumption, Site!Objects

LEMMA SiteInitKeeps == ASSUME SiteAssumptions, Site!Init PROVE SiteIInv
<1>1. drifts \in 0..MaxDrifts
  BY DEF Site!Init, SiteAssumptions, Site!BoundsAssumption
<1>2. owners \in [Site!Objects -> Site!Roles \cup {None}] /\ SiteOwned
  <2>1. /\ "template" \in Site!Objects /\ "public" \in Site!Objects /\ "template" \in Site!AppObjects
        /\ "public" \in Site!AppObjects
    BY DEF Site!Objects, Site!AppObjects, Site!PublicTables
  <2>2. owners["template"] = "admin" /\ owners["public"] = "admin"
    BY <2>1 DEF Site!Init, SiteAssumptions, Site!NamesAssumption
  <2>3. QED
    BY <2>2 DEF Site!Init, SiteOwned, Site!Roles
<1>3. grants \subseteq Site!Roles \X Site!Privileges \X Site!Objects
  BY DEF Site!Init, Site!Roles, Site!Privileges, Site!Objects, Site!AppObjects
<1>4. Site!TypeOK
  BY <1>1, <1>2, <1>3 DEF Site!Init, Site!TypeOK
<1>5. SiteGranted /\ SiteJoined /\ SiteHanded
  BY DEF Site!Init, SiteGranted, SiteJoined, SiteHanded
<1>6. QED
  BY <1>2, <1>4, <1>5 DEF SiteIInv

LEMMA SiteDriftKeeps == ASSUME SiteAssumptions, SiteIInv, Site!Drift PROVE SiteIInv'
<1>1. /\ provisioned' = FALSE /\ UNCHANGED <<purpose, owners, visible>>
      /\ drifts < MaxDrifts /\ drifts' = drifts + 1
  BY DEF Site!Drift
<1>2. drifts' \in 0..MaxDrifts
  BY <1>1 DEF SiteIInv, Site!TypeOK, SiteAssumptions, Site!BoundsAssumption
<1>3. \/ /\ members' = members
         /\ grants' \in {grants \cup {g} : g \in {<<"read", "write", "control">>, <<"read", "write", "template">>,
                           <<"read", "create", "database">>, <<"writer", "select", "template">>,
                           <<"writer", "write", "template">>, <<"PUBLIC", "create", "public">>}}
      \/ /\ grants' = grants
         /\ members' \in {members \cup {<<"read", "rogue">>}, members \cup {<<"read", "owner">>}}
  BY DEF Site!Drift, Site!Leftover
<1>4. CASE /\ members' = members
           /\ grants' \in {grants \cup {g} : g \in {<<"read", "write", "control">>, <<"read", "write", "template">>,
                             <<"read", "create", "database">>, <<"writer", "select", "template">>,
                             <<"writer", "write", "template">>, <<"PUBLIC", "create", "public">>}}
  <2>1. PICK g \in {<<"read", "write", "control">>, <<"read", "write", "template">>,
                    <<"read", "create", "database">>, <<"writer", "select", "template">>,
                    <<"writer", "write", "template">>, <<"PUBLIC", "create", "public">>} :
          grants' = grants \cup {g}
    BY <1>4
  <2>2. g \in Site!Roles \X Site!Privileges \X Site!Objects
    BY DEF Site!Roles, Site!Privileges, Site!Objects, Site!AppObjects, Site!PublicTables
  <2>3. Site!TypeOK'
    BY <1>1, <1>2, <1>4, <2>1, <2>2 DEF SiteIInv, Site!TypeOK
  <2>4. /\ g[1] = "read" /\ g[2] # "select" => g[3] \in Site!AppObjects
        /\ g[1] = "PUBLIC" => g = <<"PUBLIC", "create", "public">>
        /\ g[1] # "owner"
        /\ g[1] = "writer" /\ g[2] = "create" => g[3] = "database"
    BY DEF Site!AppObjects, Site!PublicTables
  <2>5. SiteGranted'
    BY <1>1, <2>1, <2>4 DEF SiteIInv, SiteGranted
  <2>6. SiteJoined' /\ SiteOwned' /\ SiteHanded'
    BY <1>1, <1>4, <2>1 DEF SiteIInv, SiteJoined, SiteOwned, SiteHanded
  <2>7. QED
    BY <2>3, <2>5, <2>6 DEF SiteIInv
<1>5. CASE /\ grants' = grants
           /\ members' \in {members \cup {<<"read", "rogue">>}, members \cup {<<"read", "owner">>}}
  <2>a. /\ <<"read", "rogue">> \in Site!Roles \X Site!Roles
        /\ <<"read", "owner">> \in Site!Roles \X Site!Roles
    BY DEF Site!Roles
  <2>b. members' \subseteq Site!Roles \X Site!Roles
    BY <1>5, <2>a DEF SiteIInv, Site!TypeOK
  <2>1. Site!TypeOK'
    BY <1>1, <1>2, <1>5, <2>b DEF SiteIInv, Site!TypeOK
  <2>2. SiteJoined'
    BY <1>1, <1>5 DEF SiteIInv, SiteJoined
  <2>3. SiteGranted' /\ SiteOwned' /\ SiteHanded'
    BY <1>1, <1>5 DEF SiteIInv, SiteGranted, SiteOwned, SiteHanded
  <2>4. QED
    BY <2>1, <2>2, <2>3 DEF SiteIInv
<1>6. QED
  BY <1>3, <1>4, <1>5

LEMMA SiteMigrateKeeps == ASSUME SiteAssumptions, SiteIInv, Site!Migrate PROVE SiteIInv'
<1>1. /\ owners' = [owners EXCEPT !["view"] = "admin"] /\ grants' = {g \in grants : g[3] # "view"}
      /\ provisioned' = FALSE /\ drifts < MaxDrifts /\ drifts' = drifts + 1
      /\ UNCHANGED <<purpose, members, visible>>
  BY DEF Site!Migrate
<1>2. drifts' \in 0..MaxDrifts
  BY <1>1 DEF SiteIInv, Site!TypeOK, SiteAssumptions, Site!BoundsAssumption
<1>3. /\ owners' \in [Site!Objects -> Site!Roles \cup {None}]
      /\ \A o \in Site!Objects : owners'[o] = IF o = "view" THEN "admin" ELSE owners[o]
  BY <1>1 DEF SiteIInv, Site!TypeOK, Site!Roles
<1>4. "template" \in Site!Objects /\ "public" \in Site!Objects
  BY DEF Site!Objects, Site!AppObjects, Site!PublicTables
<1>5. SiteOwned'
  BY <1>1, <1>3, <1>4 DEF SiteIInv, SiteOwned
<1>6. SiteHanded'
  <2>1. visible # None => visible # "view"
    BY SiteNames DEF SiteIInv, Site!TypeOK, Site!AppObjects
  <2>2. QED
    BY <1>1, <2>1 DEF SiteIInv, SiteHanded
<1>7. SiteGranted' /\ SiteJoined'
  BY <1>1 DEF SiteIInv, SiteGranted, SiteJoined
<1>8. Site!TypeOK'
  BY <1>1, <1>2, <1>3 DEF SiteIInv, Site!TypeOK
<1>9. QED
  BY <1>5, <1>6, <1>7, <1>8 DEF SiteIInv

(* Provisioning grants what it grants for good.                            *)
LEMMA SiteSurfaceGranted ==
  ASSUME SiteAssumptions, NEW g \in Site!ReadSurface \cup Site!WriterSurface
  PROVE  /\ g \in Site!Roles \X Site!Privileges \X Site!Objects
         /\ g[1] = "read" => g[2] = "select"
         /\ g[1] # "PUBLIC"
         /\ g[1] = "owner" => purpose # "site" /\ g[2] = "create"
         /\ g[1] = "writer" /\ g[2] = "create" => g[3] = "database"
         /\ g[1] = "writer" /\ g[2] = "write" /\ g[3] = "template" => purpose # "site"
<1> USE DEF Site!Roles, Site!Privileges, Site!Objects, Site!AppObjects, Site!PublicTables
<1>1. CASE g \in Site!ReadSurface
  BY <1>1 DEF Site!ReadSurface
<1>2. CASE g = <<"writer", "create", "database">>
  BY <1>2
<1>3. CASE \E p \in {"select", "write"}, o \in {"control", "account", "stamp"} : g = <<"writer", p, o>>
  BY <1>3
<1>4. CASE g = <<"writer", "select", "template">>
  BY <1>4
<1>5. CASE purpose # "site" /\ g \in {<<"writer", "write", "template">>, <<"owner", "create", "public">>}
  BY <1>5
<1>6. QED
  BY <1>1, <1>2, <1>3, <1>4, <1>5 DEF Site!WriterSurface

LEMMA SiteProvisionKeeps == ASSUME SiteAssumptions, SiteIInv, Site!Provision PROVE SiteIInv'
<1>1. /\ grants' = {g \in grants : ~ Site!Revoked(g)} \cup Site!ReadSurface \cup Site!WriterSurface
      /\ members' = Site!KeptMembers \cup {<<"writer", "owner">>, <<"writer", "read">>}
      /\ owners' = [o \in Site!Objects |-> IF o \in {"control", "view", "stamp"} THEN "owner" ELSE owners[o]]
      /\ UNCHANGED <<purpose, visible, drifts>>
  BY DEF Site!Provision
<1>2. provisioned' \in BOOLEAN
  BY DEF Site!Provision
<1>3. purpose \in {"site", "producer"}
  BY DEF SiteIInv, Site!TypeOK
<1>4. Site!TypeOK'
  <2>1. owners' \in [Site!Objects -> Site!Roles \cup {None}]
    BY <1>1 DEF SiteIInv, Site!TypeOK, Site!Roles
  <2>2. members' \subseteq Site!Roles \X Site!Roles
    BY <1>1 DEF SiteIInv, Site!TypeOK, Site!Roles, Site!KeptMembers
  <2>3. grants' \subseteq Site!Roles \X Site!Privileges \X Site!Objects
    BY <1>1, SiteSurfaceGranted DEF SiteIInv, Site!TypeOK
  <2>4. QED
    BY <1>1, <1>2, <2>1, <2>2, <2>3 DEF SiteIInv, Site!TypeOK
<1>5. SiteGranted'
  <2>1. ASSUME NEW g \in grants, ~Site!Revoked(g)
        PROVE  /\ g[1] = "read" => g[2] = "select"
               /\ g[1] # "PUBLIC"
               /\ g[1] = "owner" /\ g[2] = "create" => purpose = "producer"
               /\ g[1] = "owner" => g[2] # "write"
               /\ g[1] = "writer" /\ g[2] = "create" => g[3] = "database"
               /\ ~(g[1] = "writer" /\ g[2] = "write" /\ g[3] = "template")
    BY <2>1 DEF SiteIInv, SiteGranted, Site!Revoked, Site!PublicTables
  <2>2. QED
    BY <1>1, <1>3, <2>1, SiteSurfaceGranted DEF SiteGranted
<1>6. SiteJoined'
  BY <1>1 DEF SiteIInv, SiteJoined, Site!KeptMembers
<1>7. SiteOwned'
  <2>1. "template" \in Site!Objects /\ "public" \in Site!Objects /\ "view" \in Site!Objects
    BY DEF Site!Objects, Site!AppObjects, Site!PublicTables
  <2>2. <<"read", "select", "view">> \in grants'
    BY <1>1 DEF Site!ReadSurface
  <2>3. QED
    BY <1>1, <2>1, <2>2 DEF SiteIInv, SiteOwned
<1>8. SiteHanded'
  <2>1. ASSUME visible # None
        PROVE  <<"read", "select", visible>> \in grants' /\ <<"owner", "select", visible>> \in grants'
    <3>1. visible \notin Site!AppObjects
      BY <2>1, SiteNames DEF SiteIInv, Site!TypeOK
    <3>2. ~Site!Revoked(<<"read", "select", visible>>) /\ ~Site!Revoked(<<"owner", "select", visible>>)
      BY <3>1 DEF Site!Revoked
    <3>3. QED
      BY <1>1, <2>1, <3>2 DEF SiteIInv, SiteHanded
  <2>2. QED
    BY <1>1, <2>1 DEF SiteHanded
<1>9. QED
  BY <1>4, <1>5, <1>6, <1>7, <1>8 DEF SiteIInv

LEMMA SiteBuildKeeps ==
  ASSUME SiteAssumptions, SiteIInv, NEW g \in Schemas, Site!Build(g)
  PROVE  SiteIInv'
<1>1. /\ owners' = [owners EXCEPT ![g] = "writer"]
      /\ UNCHANGED <<purpose, grants, members, provisioned, visible, drifts>>
  BY DEF Site!Build
<1>2. /\ g \in Site!Objects /\ g \notin {"template", "public", "view"}
      /\ {"template", "public", "view"} \subseteq Site!Objects
  BY SiteNames DEF Site!Objects, Site!AppObjects, Site!PublicTables
<1>3. /\ owners' \in [Site!Objects -> Site!Roles \cup {None}]
      /\ \A o \in Site!Objects : owners'[o] = IF o = g THEN "writer" ELSE owners[o]
  BY <1>1 DEF SiteIInv, Site!TypeOK, Site!Roles
<1>4. SiteOwned'
  BY <1>1, <1>2, <1>3 DEF SiteIInv, SiteOwned
<1>5. Site!TypeOK' /\ SiteGranted' /\ SiteJoined' /\ SiteHanded'
  BY <1>1, <1>3 DEF SiteIInv, Site!TypeOK, SiteGranted, SiteJoined, SiteHanded
<1>6. QED
  BY <1>4, <1>5 DEF SiteIInv

LEMMA SiteActivateKeeps ==
  ASSUME SiteAssumptions, SiteIInv, NEW g \in Schemas, Site!Activate(g)
  PROVE  SiteIInv'
<1>1. /\ grants' = grants \cup Site!Visibility(g) /\ visible' = g
      /\ UNCHANGED <<purpose, members, owners, provisioned, drifts>>
  BY DEF Site!Activate
<1>2. Site!Visibility(g) = {<<"read", "select", g>>, <<"owner", "select", g>>}
  BY DEF Site!Visibility
<1>3. Site!Visibility(g) \subseteq Site!Roles \X Site!Privileges \X Site!Objects
  BY <1>2, SiteNames DEF Site!Roles, Site!Privileges
<1>4. Site!TypeOK'
  BY <1>1, <1>3 DEF SiteIInv, Site!TypeOK
<1>5. SiteGranted'
  BY <1>1, <1>2 DEF SiteIInv, SiteGranted
<1>6. SiteJoined' /\ SiteOwned' /\ SiteHanded'
  BY <1>1, <1>2 DEF SiteIInv, SiteJoined, SiteOwned, SiteHanded
<1>7. QED
  BY <1>4, <1>5, <1>6 DEF SiteIInv

LEMMA SiteDropKeeps == ASSUME SiteAssumptions, SiteIInv, NEW g \in Schemas, Site!Drop(g) PROVE SiteIInv'
<1>1. /\ visible \notin {g, None} /\ owners' = [owners EXCEPT ![g] = None]
      /\ grants' = {x \in grants : x[3] # g} /\ UNCHANGED <<purpose, members, provisioned, visible, drifts>>
  BY DEF Site!Drop
<1>2. /\ g \in Site!Objects /\ g \notin {"template", "public", "view"}
      /\ {"template", "public", "view"} \subseteq Site!Objects
  BY SiteNames DEF Site!Objects, Site!AppObjects, Site!PublicTables
<1>3. /\ owners' \in [Site!Objects -> Site!Roles \cup {None}]
      /\ \A o \in Site!Objects : owners'[o] = IF o = g THEN None ELSE owners[o]
  BY <1>1 DEF SiteIInv, Site!TypeOK
<1>4. SiteOwned'
  BY <1>1, <1>2, <1>3 DEF SiteIInv, SiteOwned
<1>5. SiteHanded'
  BY <1>1 DEF SiteIInv, SiteHanded
<1>6. Site!TypeOK' /\ SiteGranted' /\ SiteJoined'
  BY <1>1, <1>3 DEF SiteIInv, Site!TypeOK, SiteGranted, SiteJoined
<1>7. QED
  BY <1>4, <1>5, <1>6 DEF SiteIInv

LEMMA SiteNextKeeps == ASSUME SiteAssumptions, SiteIInv, [Site!Next]_(Site!rolesVars) PROVE SiteIInv'
<1>1. CASE UNCHANGED Site!rolesVars
  BY <1>1 DEF Site!rolesVars, SiteIInv, Site!TypeOK, SiteGranted, SiteJoined, SiteOwned, SiteHanded
<1>2. QED
  BY <1>1, SiteDriftKeeps, SiteMigrateKeeps, SiteProvisionKeeps, SiteBuildKeeps, SiteActivateKeeps,
     SiteDropKeeps
     DEF Site!Next

LEMMA SiteInvariance == ASSUME SiteAssumptions PROVE Site!Spec => []SiteIInv
<1>1. Site!Init => SiteIInv
  BY SiteInitKeeps
<1>2. SiteIInv /\ [Site!Next]_(Site!rolesVars) => SiteIInv'
  BY SiteNextKeeps
<1>3. QED
  BY <1>1, <1>2, PTL DEF Site!Spec

(* What the roles, the grants and the owners may be.                       *)
LEMMA SiteTypeCorrect == ASSUME SiteAssumptions PROVE Site!Spec => []Site!TypeOK
<1>1. SiteIInv => Site!TypeOK
  BY DEF SiteIInv
<1>2. QED
  BY <1>1, SiteInvariance, PTL

(* In a provisioned database the read role acts as nobody but itself, and  *)
(* the writer as itself, the owner role and the read role.                 *)
LEMMA SiteReaderAlone ==
  ASSUME SiteIInv, provisioned
  PROVE  /\ Site!ActsAs("read") = {"read", "PUBLIC"}
         /\ Site!ActsAs("writer") \subseteq {"writer", "PUBLIC", "owner", "read"}
<1>1. /\ Site!Groups("read") = {} /\ Site!Groups("owner") = {}
      /\ Site!Groups("writer") \subseteq {"owner", "read"}
  BY DEF SiteIInv, SiteJoined, Site!Groups
<1>2. QED
  BY <1>1 DEF Site!ActsAs

(* Once provisioned, nobody can do more than the job of its role asks.     *)
THEOREM SiteLeastPrivilegeAlways == ASSUME SiteAssumptions PROVE Site!Spec => []Site!LeastPrivilege
<1>1. ASSUME SiteAssumptions, SiteIInv, provisioned PROVE
        /\ \A o \in Site!Objects : ~ Site!Can("read", "write", o) /\ ~ Site!Can("read", "create", o)
        /\ purpose = "site" => ~ Site!Can("writer", "write", "template") /\ ~ Site!Can("writer", "create", "public")
  <2>1. None \notin {"read", "PUBLIC", "writer", "owner"}
    BY <1>1 DEF SiteAssumptions, Site!NamesAssumption, Site!Roles
  <2>2. ASSUME NEW o \in Site!Objects, NEW p \in {"write", "create"} PROVE ~ Site!Can("read", p, o)
    <3>1. ~ Site!Owns("read", o)
      BY <1>1, <2>1, SiteReaderAlone DEF Site!Owns, SiteIInv, SiteOwned
    <3>2. ASSUME NEW g \in Site!ActsAs("read") PROVE <<g, p, o>> \notin grants
      BY <1>1, <3>2, SiteReaderAlone DEF SiteIInv, SiteGranted
    <3>3. QED
      BY <3>1, <3>2 DEF Site!Can
  <2>3. ASSUME purpose = "site"
        PROVE  ~ Site!Can("writer", "write", "template") /\ ~ Site!Can("writer", "create", "public")
    <3>1. ~ Site!Owns("writer", "template") /\ ~ Site!Owns("writer", "public")
      BY <1>1, SiteReaderAlone DEF Site!Owns, SiteIInv, SiteOwned
    <3>2. ASSUME NEW g \in {"writer", "PUBLIC", "owner", "read"}
          PROVE  <<g, "write", "template">> \notin grants /\ <<g, "create", "public">> \notin grants
      BY <1>1, <2>3, <3>2 DEF SiteIInv, SiteGranted
    <3>3. QED
      BY <1>1, <3>1, <3>2, SiteReaderAlone DEF Site!Can
  <2>4. QED
    BY <2>2, <2>3
<1>2. SiteAssumptions /\ SiteIInv => Site!LeastPrivilege
  BY <1>1 DEF Site!LeastPrivilege
<1>3. SiteIInv => Site!LeastPrivilege
  BY <1>2
<1>4. QED
  BY <1>3, SiteInvariance, PTL

(* Provisioning a live site never blinds it.                               *)
THEOREM SiteActiveStaysReadableAlways ==
  ASSUME SiteAssumptions
  PROVE  Site!Spec => []Site!ActiveStaysReadable
<1>1. ASSUME SiteIInv, provisioned, visible # None
      PROVE  Site!Can("read", "select", visible) /\ Site!ReadsThroughViews("read", visible)
  <2>1. owners["view"] = "owner" /\ <<"read", "select", "view">> \in grants
        /\ <<"read", "select", visible>> \in grants /\ <<"owner", "select", visible>> \in grants
    BY <1>1 DEF SiteIInv, SiteOwned, SiteHanded
  <2>2. "read" \in Site!ActsAs("read") /\ "owner" \in Site!ActsAs("owner")
    BY DEF Site!ActsAs
  <2>3. QED
    BY <2>1, <2>2 DEF Site!Can, Site!ReadsThroughViews
<1>2. SiteIInv => Site!ActiveStaysReadable
  BY <1>1 DEF Site!ActiveStaysReadable
<1>3. QED
  BY <1>2, SiteInvariance, PTL

-----------------------------------------------------------------------------
(* The deployment command.  It has dealt with a corpus once it reached     *)
(* the head that was read, and the gate has seen what was installed.       *)

(* What a command relies on in the corpora it has dealt with: a demo       *)
(* leaves a corpus at the head it read, which is past the floor; the gate  *)
(* has seen only installed corpora, and a ready report fitting ones.       *)
CtlCaught(o) ==
  /\ o.step \in {"prepare", "start"} => o.todo = Subscribed
  /\ o.step # "idle" => \A c \in Subscribed : o.floor[c] <= Ctl!Published(c)
  /\ o.step \in {"apply", "classify"} => o.floor[o.corpus] <= o.head /\ o.head <= Ctl!Published(o.corpus)
  /\ o.step \in {"catchup", "apply", "classify"} =>
       \A c \in Subscribed \ o.todo : o.floor[c] <= installed[c]
  /\ o.demo /\ o.step \in {"readiness", "stamp", "embed", "gate"} =>
       \A c \in Subscribed : o.floor[c] <= installed[c]
  /\ o.step \in {"stamp", "embed", "gate"} => DOMAIN o.seen \subseteq Ctl!Active
  /\ o.step \in {"embed", "gate"} /\ o.ready =>
       DOMAIN o.seen # {} /\ \A c \in DOMAIN o.seen : o.seen[c] = "ours"

CtlIInv == Ctl!TypeOK /\ CtlCaught(op)

(* The feed only grows, and a cursor only moves on within it.              *)
CtlGrows ==
  \A c \in Subscribed : Ctl!Published(c) <= Ctl!Published(c)' /\ installed[c] <= installed'[c]

LEMMA CtlNumbers ==
  ASSUME Ctl!TypeOK
  PROVE  /\ \A c \in Subscribed : Ctl!Published(c) \in Nat /\ installed[c] \in Nat
         /\ \A c \in Subscribed : op.floor[c] \in Nat
         /\ op.head \in Nat
BY DEF Ctl!TypeOK, Ctl!Installs, Ctl!Published

LEMMA CtlCaughtStays ==
  ASSUME Ctl!TypeOK, Ctl!TypeOK', CtlCaught(op), CtlGrows, UNCHANGED op
  PROVE  CtlCaught(op)'
<1> DEFINE
  N == /\ \A c \in Subscribed : /\ Ctl!Published(c) \in Nat /\ installed[c] \in Nat /\ op.floor[c] \in Nat
                                /\ Ctl!Published(c)' \in Nat /\ installed'[c] \in Nat
                                /\ Ctl!Published(c) <= Ctl!Published(c)' /\ installed[c] <= installed'[c]
       /\ op.head \in Nat
<1>1. N
  <2>1. \A c \in Subscribed : Ctl!Published(c)' \in Nat /\ installed'[c] \in Nat
    BY DEF Ctl!TypeOK, Ctl!Published
  <2>2. QED
    BY <2>1, CtlNumbers DEF CtlGrows
<1>2. Ctl!Active \subseteq Ctl!Active'
  BY <1>1 DEF Ctl!Active
<1>3. op.step \in {"apply", "classify"} => op.corpus \in Subscribed
  BY DEF Ctl!TypeOK, Ctl!Installs
<1> HIDE DEF N
<1>4. op.step # "idle" => \A c \in Subscribed : op.floor[c] <= Ctl!Published(c)'
  BY <1>1 DEF CtlCaught, N
<1>5. op.step \in {"apply", "classify"} => op.floor[op.corpus] <= op.head /\ op.head <= Ctl!Published(op.corpus)'
  BY <1>1, <1>3 DEF CtlCaught, N
<1>6. op.step \in {"catchup", "apply", "classify"} => \A c \in Subscribed \ op.todo : op.floor[c] <= installed'[c]
  BY <1>1 DEF CtlCaught, N
<1>7. op.demo /\ op.step \in {"readiness", "stamp", "embed", "gate"} => \A c \in Subscribed : op.floor[c] <= installed'[c]
  BY <1>1 DEF CtlCaught, N
<1>8. op.step \in {"stamp", "embed", "gate"} => DOMAIN op.seen \subseteq Ctl!Active'
  BY <1>2 DEF CtlCaught
<1>9. QED
  BY <1>4, <1>5, <1>6, <1>7, <1>8 DEF CtlCaught, Ctl!Published

LEMMA CtlIdleCaught == CtlCaught(Ctl!IdleOp)
BY DEF CtlCaught, Ctl!IdleOp

LEMMA CtlIdleType ==
  ASSUME MaxReleases \in Nat
  PROVE  Ctl!IdleOp \in Ctl!Installs /\ Ctl!IdleOp.step = "idle"
<1>1. [c \in {} |-> 0] \in [{} -> Ctl!Prints]
  OBVIOUS
<1>2. [c \in {} |-> 0] \in UNION {[corpora -> Ctl!Prints] : corpora \in SUBSET Subscribed}
  BY <1>1
<1>3. [c \in Subscribed |-> 0] \in [Subscribed -> 0..MaxReleases] /\ 0 \in 0..MaxReleases
  OBVIOUS
<1>4. QED
  BY <1>2, <1>3 DEF Ctl!IdleOp, Ctl!Installs, Ctl!Steps

LEMMA CtlInitKeeps == ASSUME Ctl!BoundsAssumption, Ctl!Init PROVE CtlIInv
<1>1. \A c \in Subscribed : releases[c] = <<>> /\ Len(releases[c]) = 0
  BY DEF Ctl!Init
<1>2. releases \in [Subscribed -> Seq(Ctl!Prints)] /\ installed \in [Subscribed -> 0..MaxReleases]
  BY DEF Ctl!Init, Ctl!BoundsAssumption
<1>3. op \in Ctl!Installs /\ op.step = "idle"
  BY CtlIdleType DEF Ctl!Init, Ctl!BoundsAssumption
<1>4. mishaps \in 0..MaxMishaps
  BY DEF Ctl!Init, Ctl!BoundsAssumption
<1>5. \A c \in Subscribed : Ctl!Published(c) <= MaxReleases /\ installed[c] <= Ctl!Published(c)
  BY <1>1 DEF Ctl!Init, Ctl!BoundsAssumption, Ctl!Published
<1>6. Ctl!TypeOK
  BY <1>2, <1>3, <1>4, <1>5 DEF Ctl!Init, Ctl!TypeOK
<1>7. CtlCaught(op)
  BY CtlIdleCaught DEF Ctl!Init
<1>8. QED
  BY <1>6, <1>7 DEF CtlIInv

(* Outside the command's own steps.                                        *)
LEMMA CtlReplicaKeeps ==
  ASSUME Ctl!BoundsAssumption, CtlIInv, UNCHANGED <<op, Ctl!site>>,
         releases' \in [Subscribed -> Seq(Ctl!Prints)], installed' \in [Subscribed -> 0..MaxReleases],
         \A c \in Subscribed : Ctl!Published(c)' <= MaxReleases /\ installed'[c] <= Ctl!Published(c)',
         stamped' \in BOOLEAN, mishaps' \in 0..MaxMishaps, CtlGrows
  PROVE  CtlIInv'
<1>1. Ctl!TypeOK'
  BY DEF CtlIInv, Ctl!TypeOK, Ctl!site
<1>2. QED
  BY <1>1, CtlCaughtStays DEF CtlIInv

LEMMA CtlPublishKeeps ==
  ASSUME Ctl!BoundsAssumption, CtlIInv, NEW c \in Subscribed, Ctl!Publish(c)
  PROVE  CtlIInv'
<1>1. PICK print \in Ctl!Prints :
        /\ Ctl!Published(c) < MaxReleases /\ releases' = [releases EXCEPT ![c] = Append(releases[c], print)]
        /\ UNCHANGED <<installed, stamped, Ctl!site, op, mishaps>>
  BY DEF Ctl!Publish
<1>2. /\ releases \in [Subscribed -> Seq(Ctl!Prints)] /\ installed \in [Subscribed -> 0..MaxReleases] /\ MaxReleases \in Nat
      /\ \A d \in Subscribed : Len(releases[d]) <= MaxReleases /\ installed[d] <= Len(releases[d]) /\ Len(releases[d]) \in Nat
  BY DEF CtlIInv, Ctl!TypeOK, Ctl!BoundsAssumption, Ctl!Published
<1>3. /\ Append(releases[c], print) \in Seq(Ctl!Prints)
      /\ Len(Append(releases[c], print)) = Len(releases[c]) + 1
  BY <1>2
<1>4. releases' \in [Subscribed -> Seq(Ctl!Prints)]
      /\ \A d \in Subscribed : Len(releases'[d]) = IF d = c THEN Len(releases[c]) + 1 ELSE Len(releases[d])
  BY <1>1, <1>2, <1>3
<1>5. \A d \in Subscribed : installed[d] \in Nat
  BY <1>2
<1>6. \A d \in Subscribed : /\ Len(releases[d]) <= Len(releases'[d]) /\ Len(releases'[d]) <= MaxReleases /\ installed'[d] = installed[d]
                            /\ installed[d] <= installed[d] /\ installed[d] <= Len(releases'[d])
  BY <1>1, <1>2, <1>4, <1>5 DEF Ctl!Published
<1>7. CtlGrows
  BY <1>6 DEF CtlGrows, Ctl!Published
<1>8. QED
  BY <1>1, <1>4, <1>6, <1>7, CtlReplicaKeeps DEF CtlIInv, Ctl!TypeOK, Ctl!Published

(* An apply moves one cursor on within the feed.                           *)
LEMMA CtlAdvanceGrows ==
  ASSUME Ctl!BoundsAssumption, CtlIInv, NEW c \in Subscribed, NEW n \in (installed[c] + 1)..Ctl!Published(c), Ctl!AdvanceTo(c, n)
  PROVE  /\ CtlGrows /\ installed' \in [Subscribed -> 0..MaxReleases] /\ releases' = releases /\ stamped' \in BOOLEAN
         /\ \A d \in Subscribed : Ctl!Published(d)' <= MaxReleases /\ installed'[d] <= Ctl!Published(d)'
<1>1. installed' = [installed EXCEPT ![c] = n] /\ stamped' = TRUE /\ releases' = releases
  BY DEF Ctl!AdvanceTo
<1>2. /\ installed \in [Subscribed -> 0..MaxReleases] /\ MaxReleases \in Nat
      /\ \A d \in Subscribed : Len(releases[d]) <= MaxReleases /\ installed[d] <= Len(releases[d]) /\ Len(releases[d]) \in Nat
  BY DEF CtlIInv, Ctl!TypeOK, Ctl!BoundsAssumption, Ctl!Published
<1>3. \A d \in Subscribed : installed[d] \in Nat
  BY <1>2
<1>4. n \in Nat /\ installed[c] <= n /\ n <= Len(releases[c]) /\ n <= MaxReleases
  BY <1>2, <1>3 DEF Ctl!Published
<1>5. /\ installed' \in [Subscribed -> 0..MaxReleases]
      /\ \A d \in Subscribed : installed'[d] = IF d = c THEN n ELSE installed[d]
  BY <1>1, <1>2, <1>4
<1>6. \A d \in Subscribed : Len(releases[d]) <= Len(releases'[d]) /\ installed[d] <= installed'[d] /\ installed'[d] <= Len(releases'[d])
  BY <1>1, <1>2, <1>3, <1>4, <1>5
<1>7. QED
  BY <1>1, <1>2, <1>5, <1>6 DEF CtlGrows, Ctl!Published

LEMMA CtlDaemonKeeps ==
  ASSUME Ctl!BoundsAssumption, CtlIInv, NEW c \in Subscribed, Ctl!DaemonApplies(c)
  PROVE  CtlIInv'
<1>1. PICK n \in (installed[c] + 1)..Ctl!Published(c) : Ctl!AdvanceTo(c, n)
  BY DEF Ctl!DaemonApplies
<1>2. UNCHANGED <<Ctl!site, op, mishaps>>
  BY DEF Ctl!DaemonApplies
<1>3. QED
  BY <1>1, <1>2, CtlAdvanceGrows, CtlReplicaKeeps DEF CtlIInv, Ctl!TypeOK

LEMMA CtlStill ==
  ASSUME Ctl!TypeOK, UNCHANGED <<releases, installed>>
  PROVE  CtlGrows /\ \A c \in Subscribed : Ctl!Published(c)' = Ctl!Published(c) /\ Ctl!Fingerprint(c)' = Ctl!Fingerprint(c)
<1>1. \A c \in Subscribed : Ctl!Published(c) \in Nat /\ installed[c] \in Nat
  BY CtlNumbers
<1>2. QED
  BY <1>1 DEF CtlGrows, Ctl!Published, Ctl!Fingerprint

LEMMA CtlStampLostKeeps == ASSUME Ctl!BoundsAssumption, CtlIInv, Ctl!StampLost PROVE CtlIInv'
<1>1. /\ UNCHANGED <<releases, installed, Ctl!site, op>> /\ stamped' = FALSE /\ mishaps' = mishaps + 1
      /\ mishaps < MaxMishaps
  BY DEF Ctl!StampLost
<1>2. mishaps' \in 0..MaxMishaps
  BY <1>1 DEF CtlIInv, Ctl!TypeOK, Ctl!BoundsAssumption
<1>3. Ctl!TypeOK'
  BY <1>1, <1>2 DEF CtlIInv, Ctl!TypeOK, Ctl!site, Ctl!Published
<1>4. QED
  BY <1>1, <1>3, CtlStill, CtlCaughtStays DEF CtlIInv

-----------------------------------------------------------------------------
(* The steps of the command, and the units.                                *)

(* Where the replica stays, a step is judged by what it makes of the       *)
(* command.                                                                *)
LEMMA CtlCommandKeeps ==
  ASSUME Ctl!BoundsAssumption, CtlIInv, UNCHANGED Ctl!replica, op' \in Ctl!Installs, CtlCaught(op'),
         op'.step \in {"apply", "classify"} => op'.corpus \in op'.todo,
         embedder' \in {"down", "loading", "up"}, running' \subseteq Ctl!Units, enabled' \subseteq Ctl!Units,
         mishaps' \in 0..MaxMishaps
  PROVE  CtlIInv'
<1>1. Ctl!TypeOK'
  BY DEF CtlIInv, Ctl!TypeOK, Ctl!replica, Ctl!Published
<1>2. Ctl!Active' = Ctl!Active /\ \A c \in Subscribed : Ctl!Published(c)' = Ctl!Published(c)
  BY DEF Ctl!Active, Ctl!Published, Ctl!replica
<1>3. installed' = installed /\ releases' = releases
  BY DEF Ctl!replica
<1>4. CtlCaught(op)'
  BY <1>2, <1>3 DEF CtlCaught, Ctl!Published, Ctl!Active
<1>5. QED
  BY <1>1, <1>4 DEF CtlIInv

LEMMA CtlIdleKeeps ==
  ASSUME Ctl!BoundsAssumption, CtlIInv, UNCHANGED Ctl!replica, op' = Ctl!IdleOp \/ (op' = op /\ op = Ctl!IdleOp),
         embedder' \in {"down", "loading", "up"}, running' \subseteq Ctl!Units, enabled' \subseteq Ctl!Units,
         mishaps' \in 0..MaxMishaps
  PROVE  CtlIInv'
<1>1. op' = Ctl!IdleOp
  OBVIOUS
<1>2. op' \in Ctl!Installs /\ op'.step = "idle" /\ CtlCaught(op')
  BY <1>1, CtlIdleType, CtlIdleCaught DEF Ctl!BoundsAssumption
<1>3. QED
  BY <1>2, CtlCommandKeeps

LEMMA CtlStartedUnits ==
  ASSUME CtlIInv, NEW units \in SUBSET Ctl!Units, Ctl!Start(units)
  PROVE  running' \subseteq Ctl!Units /\ embedder' \in {"down", "loading", "up"}
BY DEF Ctl!Start, Ctl!Units, CtlIInv, Ctl!TypeOK

LEMMA CtlUnitsKeep ==
  ASSUME Ctl!BoundsAssumption, CtlIInv, Ctl!Reboot \/ Ctl!Stop \/ Ctl!Restart \/ Ctl!Uninstall \/ Ctl!CommandFails
  PROVE  CtlIInv'
<1>1. /\ UNCHANGED Ctl!replica /\ mishaps' = mishaps + 1 /\ mishaps < MaxMishaps
      /\ (op' = Ctl!IdleOp \/ (op' = op /\ op = Ctl!IdleOp))
  BY DEF Ctl!Reboot, Ctl!Stop, Ctl!Restart, Ctl!Uninstall, Ctl!CommandFails
<1>2. mishaps' \in 0..MaxMishaps
  BY <1>1 DEF CtlIInv, Ctl!TypeOK, Ctl!BoundsAssumption
<1>3. /\ embedder' \in {"down", "loading", "up"} /\ running' \subseteq Ctl!Units
      /\ enabled' \subseteq Ctl!Units
  BY DEF CtlIInv, Ctl!TypeOK, Ctl!Reboot, Ctl!Stop, Ctl!Restart, Ctl!Uninstall, Ctl!CommandFails,
     Ctl!site, Ctl!Units
<1>4. QED
  BY <1>1, <1>2, <1>3, CtlIdleKeeps

LEMMA CtlEmbedderLoadsKeeps == ASSUME Ctl!BoundsAssumption, CtlIInv, Ctl!EmbedderLoads PROVE CtlIInv'
<1>1. UNCHANGED <<Ctl!replica, running, enabled, op, mishaps>> /\ embedder' = "up"
  BY DEF Ctl!EmbedderLoads
<1>2. Ctl!TypeOK'
  BY <1>1 DEF CtlIInv, Ctl!TypeOK, Ctl!replica, Ctl!Published
<1>3. QED
  BY <1>1, <1>2, CtlStill, CtlCaughtStays DEF CtlIInv, Ctl!replica

LEMMA CtlBeginKeeps ==
  ASSUME Ctl!BoundsAssumption, CtlIInv, NEW demo \in BOOLEAN, NEW force \in BOOLEAN, NEW start \in BOOLEAN,
         Ctl!BeginInstall(demo, force, start)
  PROVE  CtlIInv'
<1> DEFINE floors == [c \in Subscribed |-> Ctl!Published(c)]
<1>1. /\ op' = [Ctl!IdleOp EXCEPT !.step = "prepare", !.demo = demo, !.force = force, !.start = start,
                              !.todo = Subscribed, !.floor = floors]
      /\ UNCHANGED <<Ctl!replica, Ctl!site, mishaps>>
  BY DEF Ctl!BeginInstall
<1>2. \A c \in Subscribed : Ctl!Published(c) \in Nat /\ Ctl!Published(c) <= MaxReleases
  BY CtlNumbers DEF CtlIInv, Ctl!TypeOK
<1>3. floors \in [Subscribed -> 0..MaxReleases]
  BY <1>2 DEF Ctl!BoundsAssumption
<1>4. \A c \in Subscribed : floors[c] <= Ctl!Published(c)
  BY <1>2
<1> HIDE DEF floors
<1>5. op' \in Ctl!Installs /\ op'.step = "prepare" /\ op'.floor = floors /\ op'.todo = Subscribed
  BY <1>1, <1>3, CtlIdleType DEF Ctl!Installs, Ctl!Steps, Ctl!IdleOp, Ctl!BoundsAssumption
<1>6. CtlCaught(op')
  BY <1>4, <1>5 DEF CtlCaught
<1>7. QED
  BY <1>1, <1>5, <1>6, CtlCommandKeeps DEF CtlIInv, Ctl!TypeOK, Ctl!site

LEMMA CtlEnableKeeps == ASSUME Ctl!BoundsAssumption, CtlIInv, Ctl!EnableUnits PROVE CtlIInv'
<1>1. CASE op.start
  <2>1. op' = [op EXCEPT !.step = "start"] /\ op.step = "prepare" /\ UNCHANGED <<Ctl!replica, embedder, running, mishaps>>
        /\ enabled' = Ctl!Units
    BY <1>1 DEF Ctl!EnableUnits
  <2>2. op' \in Ctl!Installs /\ op'.step = "start" /\ op'.floor = op.floor /\ op'.todo = op.todo
    BY <2>1 DEF CtlIInv, Ctl!TypeOK, Ctl!Installs, Ctl!Steps
  <2>3. CtlCaught(op')
    BY <2>1, <2>2 DEF CtlCaught, CtlIInv
  <2>4. QED
    BY <2>1, <2>2, <2>3, CtlCommandKeeps DEF CtlIInv, Ctl!TypeOK
<1>2. CASE ~op.start
  BY <1>2, CtlIdleKeeps DEF Ctl!EnableUnits, CtlIInv, Ctl!TypeOK
<1>3. QED
  BY <1>1, <1>2

(* Before the first pass nothing has been dealt with.                      *)
LEMMA CtlPrerequisitesKeep ==
  ASSUME Ctl!BoundsAssumption, CtlIInv, Ctl!StartPrerequisites
  PROVE  CtlIInv'
<1>1. PICK s \in {"catchup", "readiness"} :
        op' = [op EXCEPT !.step = s] /\ (s = "readiness" <=> ~op.demo)
  BY DEF Ctl!StartPrerequisites, CtlIInv, Ctl!TypeOK, Ctl!Installs
<1>2. op.step = "start" /\ UNCHANGED <<Ctl!replica, enabled, mishaps>>
  BY DEF Ctl!StartPrerequisites
<1>3. running' \subseteq Ctl!Units /\ embedder' \in {"down", "loading", "up"}
  BY CtlStartedUnits DEF Ctl!StartPrerequisites, Ctl!Prerequisites, Ctl!Units
<1>a. op \in Ctl!Installs /\ op.todo = Subscribed /\ s \in Ctl!Steps
  BY <1>2 DEF CtlIInv, Ctl!TypeOK, CtlCaught, Ctl!Steps
<1>4. /\ op' \in Ctl!Installs /\ op'.step = s /\ op'.floor = op.floor /\ op'.demo = op.demo
      /\ op'.todo = Subscribed
  BY <1>1, <1>a DEF Ctl!Installs
<1>5. CtlCaught(op')
  BY <1>1, <1>2, <1>4 DEF CtlCaught, CtlIInv
<1>6. QED
  BY <1>2, <1>3, <1>4, <1>5, CtlCommandKeeps DEF CtlIInv, Ctl!TypeOK

(* The manifest of a corpus is read past the floor the command began at.   *)
LEMMA CtlReadsKeeps ==
  ASSUME Ctl!BoundsAssumption, CtlIInv, NEW c \in Subscribed, Ctl!CatchupReads(c)
  PROVE  CtlIInv'
<1>1. /\ op.step = "catchup" /\ c \in op.todo
      /\ op' = [op EXCEPT !.step = "apply", !.corpus = c, !.head = Ctl!Published(c)]
      /\ UNCHANGED <<Ctl!replica, Ctl!site, mishaps>>
  BY DEF Ctl!CatchupReads
<1>2. Ctl!Published(c) \in 0..MaxReleases /\ Ctl!Published(c) <= Ctl!Published(c)
  <2>1. Ctl!Published(c) \in Nat /\ Ctl!Published(c) <= MaxReleases
    BY CtlNumbers DEF CtlIInv, Ctl!TypeOK
  <2>2. QED
    BY <2>1 DEF Ctl!BoundsAssumption
<1>3. /\ op' \in Ctl!Installs /\ op'.step = "apply" /\ op'.corpus = c /\ op'.head = Ctl!Published(c)
      /\ op'.floor = op.floor /\ op'.todo = op.todo
  BY <1>1, <1>2 DEF CtlIInv, Ctl!TypeOK, Ctl!Installs, Ctl!Steps
<1>4. CtlCaught(op')
  BY <1>1, <1>2, <1>3 DEF CtlCaught, CtlIInv
<1>5. QED
  BY <1>1, <1>3, <1>4, CtlCommandKeeps DEF CtlIInv, Ctl!TypeOK, Ctl!site

LEMMA CtlAppliesKeeps == ASSUME Ctl!BoundsAssumption, CtlIInv, Ctl!CatchupApplies PROVE CtlIInv'
<1>1. op.step = "apply" /\ op' = [op EXCEPT !.step = "classify"] /\ UNCHANGED <<Ctl!site, mishaps>>
  BY DEF Ctl!CatchupApplies
<1>2. /\ op' \in Ctl!Installs /\ op'.step = "classify" /\ op'.corpus = op.corpus /\ op'.head = op.head
      /\ op'.floor = op.floor /\ op'.todo = op.todo /\ op.corpus \in op.todo /\ op.corpus \in Subscribed
  BY <1>1 DEF CtlIInv, Ctl!TypeOK, Ctl!Installs, Ctl!Steps
<1>3. CtlCaught(op')
  BY <1>1, <1>2 DEF CtlCaught, CtlIInv
<1>4. CASE UNCHANGED Ctl!replica
  BY <1>1, <1>2, <1>3, <1>4, CtlCommandKeeps DEF CtlIInv, Ctl!TypeOK, Ctl!site
<1>5. CASE \E n \in (installed[op.corpus] + 1)..op.head : Ctl!AdvanceTo(op.corpus, n)
  <2>1. PICK n \in (installed[op.corpus] + 1)..op.head : Ctl!AdvanceTo(op.corpus, n)
    BY <1>5
  <2>2. n \in (installed[op.corpus] + 1)..Ctl!Published(op.corpus)
    <3>1. op.head <= Ctl!Published(op.corpus)
      BY <1>1 DEF CtlCaught, CtlIInv
    <3>2. op.head \in Nat /\ Ctl!Published(op.corpus) \in Nat /\ installed[op.corpus] \in Nat
      BY <1>2, CtlNumbers DEF CtlIInv
    <3>3. QED
      BY <3>1, <3>2
  <2>3. /\ CtlGrows /\ installed' \in [Subscribed -> 0..MaxReleases] /\ releases' = releases /\ stamped' \in BOOLEAN
        /\ \A d \in Subscribed : Ctl!Published(d)' <= MaxReleases /\ installed'[d] <= Ctl!Published(d)'
    BY <1>2, <2>1, <2>2, CtlAdvanceGrows
  <2>4. Ctl!TypeOK'
    BY <1>1, <1>2, <2>3 DEF CtlIInv, Ctl!TypeOK, Ctl!site
  <2>5. \A d \in Subscribed : installed[d] \in Nat /\ installed'[d] \in Nat /\ installed[d] <= installed'[d] /\ op.floor[d] \in Nat
    BY <2>3, <2>4, CtlNumbers DEF CtlIInv, Ctl!TypeOK, CtlGrows
  <2>6. \A d \in Subscribed : Ctl!Published(d)' = Ctl!Published(d)
    BY <2>3 DEF Ctl!Published
  <2>7. \A d \in Subscribed \ op'.todo : op'.floor[d] <= installed'[d]
    BY <1>1, <1>2, <2>5 DEF CtlCaught, CtlIInv
  <2>8. CtlCaught(op)'
    BY <1>2, <1>3, <2>6, <2>7 DEF CtlCaught, Ctl!Published
  <2>9. QED
    BY <2>4, <2>8 DEF CtlIInv
<1>6. QED
  BY <1>4, <1>5 DEF Ctl!CatchupApplies

LEMMA CtlClassifiesKeeps == ASSUME Ctl!BoundsAssumption, CtlIInv, Ctl!CatchupClassifies PROVE CtlIInv'
<1> DEFINE left == op.todo \ {op.corpus}
<1>1. op.step = "classify" /\ UNCHANGED <<Ctl!replica, Ctl!site, mishaps>>
  BY DEF Ctl!CatchupClassifies
<1>2. /\ op \in Ctl!Installs /\ op.corpus \in Subscribed /\ left \in SUBSET Subscribed
      /\ 0 \in 0..MaxReleases
  BY <1>1 DEF CtlIInv, Ctl!TypeOK, Ctl!Installs, Ctl!BoundsAssumption
<1>3. CASE op' = Ctl!IdleOp
  BY <1>1, <1>3, CtlIdleKeeps DEF CtlIInv, Ctl!TypeOK, Ctl!site
<1>4. CASE op' = [op EXCEPT !.step = "catchup", !.corpus = None, !.head = 0]
  <2>1. op' \in Ctl!Installs /\ op'.step = "catchup" /\ op'.floor = op.floor /\ op'.todo = op.todo
    BY <1>2, <1>4 DEF Ctl!Installs, Ctl!Steps
  <2>2. CtlCaught(op')
    BY <1>1, <2>1 DEF CtlCaught, CtlIInv
  <2>3. QED
    BY <1>1, <2>1, <2>2, CtlCommandKeeps DEF CtlIInv, Ctl!TypeOK, Ctl!site
<1>5. CASE /\ Ctl!CatchupGreen(installed[op.corpus], op.head)
           /\ op' = [op EXCEPT !.todo = left, !.corpus = None, !.head = 0,
                               !.step = IF left = {} THEN "readiness" ELSE "catchup"]
  <2>1. PICK s \in {"readiness", "catchup"} :
          /\ op' = [op EXCEPT !.todo = left, !.corpus = None, !.head = 0, !.step = s]
          /\ s = "readiness" => left = {}
    BY <1>5
  <2> HIDE DEF left
  <2>2. op' \in Ctl!Installs /\ op'.step = s /\ op'.floor = op.floor /\ op'.todo = left
    BY <1>2, <2>1 DEF Ctl!Installs, Ctl!Steps
  <2>3. op.floor[op.corpus] <= installed[op.corpus]
    BY <1>1, <1>5 DEF CtlCaught, CtlIInv, Ctl!CatchupGreen
  <2>4. \A d \in Subscribed \ left : op'.floor[d] <= installed[d]
    BY <1>1, <2>2, <2>3 DEF CtlCaught, CtlIInv, left
  <2>5. CtlCaught(op')
    BY <1>1, <2>1, <2>2, <2>4 DEF CtlCaught, CtlIInv
  <2>6. QED
    BY <1>1, <2>1, <2>2, <2>5, CtlCommandKeeps DEF CtlIInv, Ctl!TypeOK, Ctl!site
<1>6. QED
  BY <1>3, <1>4, <1>5 DEF Ctl!CatchupClassifies

(* The three steps of the gate: what is seen, whether it is ready, and     *)
(* what the doctor says.                                                   *)
LEMMA CtlReportsKeep ==
  ASSUME Ctl!BoundsAssumption, CtlIInv, Ctl!ReadTopology \/ Ctl!ReadStamp \/ Ctl!CheckEmbedder
  PROVE  CtlIInv'
<1>1. UNCHANGED <<Ctl!replica, Ctl!site, mishaps>>
  BY DEF Ctl!ReadTopology, Ctl!ReadStamp, Ctl!CheckEmbedder
<1>2. ASSUME op' \in Ctl!Installs, CtlCaught(op'), op'.step \notin {"apply", "classify"} PROVE CtlIInv'
  BY <1>1, <1>2, CtlCommandKeeps DEF CtlIInv, Ctl!TypeOK, Ctl!site
<1>3. CASE Ctl!ReadTopology
  <2>1. op.step = "readiness" /\ op' = [op EXCEPT !.step = "stamp", !.seen = Ctl!Fingerprints]
    BY <1>3 DEF Ctl!ReadTopology
  <2>2. Ctl!Active \in SUBSET Subscribed /\ Ctl!Fingerprints \in [Ctl!Active -> Ctl!Prints]
    <3>1. \A c \in Ctl!Active : c \in Subscribed /\ installed[c] \in Nat /\ installed[c] > 0 /\ installed[c] <= Len(releases[c])
                            /\ Len(releases[c]) \in Nat /\ releases[c] \in Seq(Ctl!Prints)
      BY CtlNumbers DEF CtlIInv, Ctl!TypeOK, Ctl!Active, Ctl!Published
    <3>2. \A c \in Ctl!Active : releases[c][installed[c]] \in Ctl!Prints
      BY <3>1
    <3>3. QED
      BY <3>2 DEF Ctl!Fingerprints, Ctl!Fingerprint, Ctl!Active
  <2>3. /\ Ctl!Fingerprints \in UNION {[corpora -> Ctl!Prints] : corpora \in SUBSET Subscribed}
        /\ DOMAIN Ctl!Fingerprints = Ctl!Active
    BY <2>2
  <2>4. /\ op' \in Ctl!Installs /\ op'.step = "stamp" /\ op'.seen = Ctl!Fingerprints
        /\ op'.floor = op.floor /\ op'.demo = op.demo
    BY <2>1, <2>3 DEF CtlIInv, Ctl!TypeOK, Ctl!Installs, Ctl!Steps
  <2>5. CtlCaught(op')
    BY <2>1, <2>3, <2>4 DEF CtlCaught, CtlIInv
  <2>6. QED
    BY <1>2, <2>4, <2>5
<1>4. CASE Ctl!ReadStamp
  <2>1. op.step = "stamp" /\ op' = [op EXCEPT !.step = "embed", !.ready = Ctl!Readiness(op.seen)]
    BY <1>4 DEF Ctl!ReadStamp
  <2>2. Ctl!Readiness(op.seen) \in BOOLEAN
    BY DEF Ctl!Readiness
  <2>3. /\ op' \in Ctl!Installs /\ op'.step = "embed" /\ op'.seen = op.seen /\ op'.ready = Ctl!Readiness(op.seen)
        /\ op'.floor = op.floor /\ op'.demo = op.demo
    BY <2>1, <2>2 DEF CtlIInv, Ctl!TypeOK, Ctl!Installs, Ctl!Steps
  <2>4. CtlCaught(op')
    BY <2>1, <2>3 DEF CtlCaught, CtlIInv, Ctl!Readiness
  <2>5. QED
    BY <1>2, <2>3, <2>4
<1>5. CASE Ctl!CheckEmbedder
  <2>1. op.step = "embed" /\ op' = [op EXCEPT !.step = "gate", !.healthy = Ctl!EmbedDoctor]
    BY <1>5 DEF Ctl!CheckEmbedder
  <2>2. Ctl!EmbedDoctor \in BOOLEAN
    BY DEF Ctl!EmbedDoctor
  <2>3. /\ op' \in Ctl!Installs /\ op'.step = "gate" /\ op'.seen = op.seen /\ op'.ready = op.ready
        /\ op'.floor = op.floor /\ op'.demo = op.demo
    BY <2>1, <2>2 DEF CtlIInv, Ctl!TypeOK, Ctl!Installs, Ctl!Steps
  <2>4. CtlCaught(op')
    BY <2>1, <2>3 DEF CtlCaught, CtlIInv
  <2>5. QED
    BY <1>2, <2>3, <2>4
<1>6. QED
  BY <1>3, <1>4, <1>5

LEMMA CtlGateKeeps == ASSUME Ctl!BoundsAssumption, CtlIInv, Ctl!Gate PROVE CtlIInv'
<1>1. running' \subseteq Ctl!Units /\ embedder' \in {"down", "loading", "up"}
  <2>1. {"site"} \in SUBSET Ctl!Units
    BY DEF Ctl!Units
  <2>2. CASE Ctl!Start({"site"})
    BY <2>1, <2>2, CtlStartedUnits
  <2>3. CASE UNCHANGED <<running, embedder>>
    BY <2>3 DEF CtlIInv, Ctl!TypeOK
  <2>4. QED
    BY <2>2, <2>3 DEF Ctl!Gate
<1>2. op' = Ctl!IdleOp /\ UNCHANGED <<Ctl!replica, enabled, mishaps>>
  BY DEF Ctl!Gate
<1>3. QED
  BY <1>1, <1>2, CtlIdleKeeps DEF CtlIInv, Ctl!TypeOK

LEMMA CtlNextKeeps ==
  ASSUME Ctl!BoundsAssumption, CtlIInv, [Ctl!Next]_(Ctl!deploymentVars)
  PROVE  CtlIInv'
<1>1. CASE UNCHANGED Ctl!deploymentVars
  BY <1>1, CtlStill, CtlCaughtStays DEF CtlIInv, Ctl!TypeOK, Ctl!deploymentVars, Ctl!site, Ctl!Published
<1>2. CASE Ctl!InstallStep
  BY <1>2, CtlEnableKeeps, CtlPrerequisitesKeep, CtlReadsKeeps, CtlAppliesKeeps, CtlClassifiesKeeps,
     CtlReportsKeep, CtlGateKeeps
     DEF Ctl!InstallStep
<1>3. QED
  BY <1>1, <1>2, CtlPublishKeeps, CtlDaemonKeeps, CtlStampLostKeeps, CtlEmbedderLoadsKeeps,
     CtlBeginKeeps, CtlUnitsKeep
     DEF Ctl!Next

LEMMA CtlInvariance == ASSUME Ctl!BoundsAssumption PROVE Ctl!SafetySpec => []CtlIInv
<1>1. Ctl!Init => CtlIInv
  BY CtlInitKeeps
<1>2. CtlIInv /\ [Ctl!Next]_(Ctl!deploymentVars) => CtlIInv'
  BY CtlNextKeeps
<1>3. QED
  BY <1>1, <1>2, PTL DEF Ctl!SafetySpec

(* What the variables of a site's deployment hold.                         *)
LEMMA CtlTypeCorrect == ASSUME Ctl!BoundsAssumption PROVE Ctl!SafetySpec => []Ctl!TypeOK
<1>1. CtlIInv => Ctl!TypeOK
  BY DEF CtlIInv
<1>2. QED
  BY <1>1, CtlInvariance, PTL

(* The gate starts the query service only over what it may serve.          *)
THEOREM CtlGatedStartAlways == ASSUME Ctl!BoundsAssumption PROVE Ctl!SafetySpec => Ctl!GatedStart
<1> DEFINE Gated ==
      (Ctl!Gate /\ "site" \in running' \ running /\ ~op.force) =>
        /\ Ctl!Active # {}
        /\ \A c \in Ctl!Active \cap DOMAIN op.seen :
             Ctl!Fingerprint(c) = op.seen[c] => Ctl!Fingerprint(c) = "ours"
        /\ op.demo => \A c \in Subscribed : installed[c] >= op.floor[c]
<1>1. ASSUME CtlIInv, Ctl!Gate, "site" \in running' \ running, ~op.force
      PROVE  /\ Ctl!Active # {}
             /\ \A c \in Ctl!Active \cap DOMAIN op.seen :
                  Ctl!Fingerprint(c) = op.seen[c] => Ctl!Fingerprint(c) = "ours"
             /\ op.demo => \A c \in Subscribed : installed[c] >= op.floor[c]
  <2>1. op.step = "gate" /\ op.ready
    BY <1>1 DEF Ctl!Gate, Ctl!MayStart
  <2>2. /\ DOMAIN op.seen # {} /\ DOMAIN op.seen \subseteq Ctl!Active
        /\ \A c \in DOMAIN op.seen : op.seen[c] = "ours"
    BY <1>1, <2>1 DEF CtlIInv, CtlCaught
  <2>3. \A c \in Subscribed : installed[c] \in Nat /\ op.floor[c] \in Nat
    BY <1>1, CtlNumbers DEF CtlIInv
  <2>4. ASSUME op.demo PROVE \A c \in Subscribed : installed[c] >= op.floor[c]
    BY <1>1, <2>1, <2>3, <2>4 DEF CtlIInv, CtlCaught
  <2>5. QED
    BY <2>2, <2>4
<1>2. CtlIInv => Gated
  BY <1>1
<1>3. CtlIInv /\ [Ctl!Next]_(Ctl!deploymentVars) => [Gated]_(Ctl!deploymentVars)
  BY <1>2
<1>4. QED
  BY <1>3, CtlInvariance, PTL DEF Ctl!SafetySpec, Ctl!GatedStart

-----------------------------------------------------------------------------
(* The watchdog.                                                           *)

LEMMA WatchdogVerdictKnown ==
  ASSUME NEW done, NEW produced, NEW since
  PROVE  Watchdog!ClassifyWatchdog(done, produced, since) \in Watchdog!Verdicts
<1>1. CASE done = 0
  BY <1>1 DEF Watchdog!ClassifyWatchdog, Watchdog!Verdicts, Watchdog!Alerts
<1>2. CASE done # 0 /\ done = produced
  BY <1>2 DEF Watchdog!ClassifyWatchdog, Watchdog!Verdicts, Watchdog!Alerts
<1>3. CASE done # 0 /\ done # produced /\ done > produced
  BY <1>3 DEF Watchdog!ClassifyWatchdog, Watchdog!Verdicts, Watchdog!Alerts
<1>4. CASE done # 0 /\ done # produced /\ ~(done > produced)
  BY <1>4 DEF Watchdog!ClassifyWatchdog, Watchdog!Verdicts, Watchdog!Alerts
<1>5. QED
  BY <1>1, <1>2, <1>3, <1>4

LEMMA WatchdogInitTypes == ASSUME Watchdog!BoundsAssumption, Watchdog!Init PROVE Watchdog!TypeOK
<1>1. 0 \in 0..MaxHead /\ 0 \in 0..Threshold /\ 0 \in 0..MaxAway
  BY DEF Watchdog!BoundsAssumption
<1>2. watch \in Watchdog!Runs /\ watch.step = "idle"
  BY <1>1 DEF Watchdog!Init, Watchdog!IdleWatch, Watchdog!Runs
<1>3. verdict \in [Subscribed -> Watchdog!Verdicts]
  BY DEF Watchdog!Init, Watchdog!Verdicts
<1>4. QED
  BY <1>1, <1>2, <1>3 DEF Watchdog!Init, Watchdog!TypeOK

LEMMA WatchdogNextTypes ==
  ASSUME Watchdog!BoundsAssumption, Watchdog!TypeOK, [Watchdog!Next]_(Watchdog!watchdogVars)
  PROVE  Watchdog!TypeOK'
<1>1. /\ head \in [Subscribed -> 0..MaxHead] /\ position \in [Subscribed -> 0..MaxHead]
      /\ age \in [Subscribed -> 0..Threshold] /\ away \in 0..MaxAway
      /\ MaxHead \in Nat /\ Threshold \in Nat /\ MaxAway \in Nat
      /\ watch \in Watchdog!Runs /\ verdict \in [Subscribed -> Watchdog!Verdicts]
  BY DEF Watchdog!TypeOK, Watchdog!BoundsAssumption
<1>2. ASSUME NEW c \in Subscribed, Watchdog!Publish(c) PROVE Watchdog!TypeOK'
  <2>1. head[c] + 1 \in 0..MaxHead
    BY <1>1, <1>2 DEF Watchdog!Publish
  <2>2. head' \in [Subscribed -> 0..MaxHead]
    BY <1>1, <1>2, <2>1 DEF Watchdog!Publish
  <2>3. QED
    BY <1>2, <2>2 DEF Watchdog!Publish, Watchdog!TypeOK
<1>3. ASSUME NEW c \in Subscribed, Watchdog!Apply(c) PROVE Watchdog!TypeOK'
  <2>1. position[c] + 1 \in 0..MaxHead /\ 0 \in 0..Threshold
    BY <1>1, <1>3 DEF Watchdog!Apply
  <2>2. position' \in [Subscribed -> 0..MaxHead] /\ age' \in [Subscribed -> 0..Threshold]
    BY <1>1, <1>3, <2>1 DEF Watchdog!Apply
  <2>3. QED
    BY <1>3, <2>2 DEF Watchdog!Apply, Watchdog!TypeOK
<1>4. CASE Watchdog!DaemonStops \/ Watchdog!DaemonStarts
  <2>1. away' \in 0..MaxAway
    BY <1>1, <1>4 DEF Watchdog!DaemonStops, Watchdog!DaemonStarts
  <2>2. QED
    BY <1>4, <2>1 DEF Watchdog!DaemonStops, Watchdog!DaemonStarts, Watchdog!TypeOK
<1>5. ASSUME NEW c \in Subscribed, Watchdog!FeedReplaced(c) PROVE Watchdog!TypeOK'
  <2>1. head[c] - 1 \in 0..MaxHead /\ away + 1 \in 0..MaxAway
    BY <1>1, <1>5 DEF Watchdog!FeedReplaced
  <2>2. head' \in [Subscribed -> 0..MaxHead]
    BY <1>1, <1>5, <2>1 DEF Watchdog!FeedReplaced
  <2>3. QED
    BY <1>5, <2>1, <2>2 DEF Watchdog!FeedReplaced, Watchdog!TypeOK
<1>6. CASE Watchdog!Tick
  <2>1. age' \in [Subscribed -> 0..Threshold]
    <3>1. \A c \in Subscribed : (IF age[c] < Threshold THEN age[c] + 1 ELSE age[c]) \in 0..Threshold
      <4>1. \A n \in 0..Threshold : (IF n < Threshold THEN n + 1 ELSE n) \in 0..Threshold
        BY <1>1
      <4>2. QED
        BY <1>1, <4>1
    <3>2. QED
      BY <1>6, <3>1 DEF Watchdog!Tick
  <2>2. QED
    BY <1>6, <2>1 DEF Watchdog!Tick, Watchdog!TypeOK
<1>7. ASSUME NEW c \in Subscribed, Watchdog!ReadHead(c) PROVE Watchdog!TypeOK'
  <2>1. watch' \in Watchdog!Runs /\ watch'.corpus = c
    BY <1>1, <1>7 DEF Watchdog!ReadHead, Watchdog!Runs
  <2>2. QED
    BY <1>7, <2>1 DEF Watchdog!ReadHead, Watchdog!TypeOK
<1>8. CASE Watchdog!ReadCursor
  <2>1. watch.corpus \in Subscribed /\ position[watch.corpus] \in 0..MaxHead
    BY <1>1, <1>8 DEF Watchdog!ReadCursor, Watchdog!TypeOK
  <2>2. watch' \in Watchdog!Runs /\ watch'.corpus = watch.corpus
    BY <1>1, <1>8, <2>1 DEF Watchdog!ReadCursor, Watchdog!Runs
  <2>3. QED
    BY <1>8, <2>1, <2>2 DEF Watchdog!ReadCursor, Watchdog!TypeOK
<1>9. CASE Watchdog!ReadAge
  <2>1. verdict' \in [Subscribed -> Watchdog!Verdicts]
    BY <1>1, <1>9, WatchdogVerdictKnown DEF Watchdog!ReadAge
  <2>2. watch' \in Watchdog!Runs /\ watch'.step = "idle"
    BY <1>1, <1>9 DEF Watchdog!ReadAge, Watchdog!IdleWatch, Watchdog!Runs
  <2>3. QED
    BY <1>9, <2>1, <2>2 DEF Watchdog!ReadAge, Watchdog!TypeOK
<1>10. CASE UNCHANGED Watchdog!watchdogVars
  BY <1>10 DEF Watchdog!watchdogVars, Watchdog!TypeOK
<1>11. QED
  BY <1>2, <1>3, <1>4, <1>5, <1>6, <1>7, <1>8, <1>9, <1>10 DEF Watchdog!Next

(* What the variables of the watchdog hold.                                *)
LEMMA WatchdogTypeCorrect ==
  ASSUME Watchdog!BoundsAssumption
  PROVE  Watchdog!SafetySpec => []Watchdog!TypeOK
<1>1. Watchdog!Init => Watchdog!TypeOK
  BY WatchdogInitTypes
<1>2. Watchdog!TypeOK /\ [Watchdog!Next]_(Watchdog!watchdogVars) => Watchdog!TypeOK'
  BY WatchdogNextTypes
<1>3. QED
  BY <1>1, <1>2, PTL DEF Watchdog!SafetySpec

-----------------------------------------------------------------------------
(* The fleet that is upgraded.  A site is at work only for a package that  *)
(* passed its gates, and is stamped with the schema of its tables.         *)

(* The last of finitely many numbers: of those with the fewest after them, *)
(* none has any.                                                           *)
LEMMA FleetLastExists ==
  ASSUME NEW S \in SUBSET Nat, IsFiniteSet(S), S # {}
  PROVE  \E x \in S : \A y \in S : y <= x
<1> DEFINE After(x) == {y \in S : y > x}
           T == {Cardinality(After(x)) : x \in S}
<1>1. \A x \in S : IsFiniteSet(After(x)) /\ Cardinality(After(x)) \in Nat
  BY FS_Subset, FS_CardinalityType
<1>2. T \in SUBSET Nat /\ T # {}
  BY <1>1
<1>3. PICK n \in T : \A m \in T : n <= m
  <2> HIDE DEF T
  <2>1. QED
    BY <1>2, LeastExists
<1>4. PICK x \in S : n = Cardinality(After(x))
  OBVIOUS
<1>5. ASSUME NEW y \in S, ~(y <= x) PROVE FALSE
  <2>0. x \in Nat /\ y \in Nat /\ y > x /\ \A z \in S : z \in Nat
    BY <1>5
  <2>1. y \in After(x) /\ y \notin After(y) /\ After(y) \subseteq After(x)
    <3>1. \A z \in S : z > y => z > x
      BY <2>0
    <3>2. ~ (y > y)
      BY <2>0
    <3>3. QED
      BY <1>5, <2>0, <3>1, <3>2
  <2>2. IsFiniteSet(After(x)) /\ Cardinality(After(y)) \in Nat /\ Cardinality(After(x)) \in Nat
    BY <1>1
  <2>3. Cardinality(After(x)) <= Cardinality(After(y))
    BY <1>3, <1>4
  <2> HIDE DEF After
  <2>4. Cardinality(After(y)) <= Cardinality(After(x))
        /\ (Cardinality(After(x)) = Cardinality(After(y)) => After(x) = After(y))
    BY <2>1, <2>2, FS_Subset
  <2>5. QED
    BY <2>1, <2>2, <2>3, <2>4
<1>6. QED
  BY <1>5

(* A site is at work for a package of one schema throughout, and builds    *)
(* only while it is at work.                                               *)
FleetJobsAreGated ==
  \A c \in Sites :
    /\ apply[c] # None => packages[apply[c]].schema = packages[apply[c]].bundle
    /\ building[c] # None => apply[c] # None

FleetIInv == Fleet!TypeOK /\ FleetJobsAreGated /\ Fleet!ShapeIsStamped

FleetAssumptions == Fleet!ReleasesAssumption /\ Fleet!HostsAssumption /\ Fleet!BoundsAssumption /\ Fleet!NoneAssumption

LEMMA FleetReleaseFacts ==
  ASSUME FleetAssumptions
  PROVE  /\ Fleet!First \in FleetReleases /\ Fleet!Latest \in FleetReleases /\ \A r \in FleetReleases : r <= Fleet!Latest
         /\ FleetReleases \subseteq Nat /\ Fleet!Latest \in Nat /\ Fleet!First \in Nat
<1>1. FleetReleases \in SUBSET Nat /\ FleetReleases # {} /\ IsFiniteSet(FleetReleases)
  <2>1. Fleet!IsFiniteSet(FleetReleases) <=> IsFiniteSet(FleetReleases)
    BY DEF Fleet!IsFiniteSet, IsFiniteSet
  <2>2. QED
    BY <2>1 DEF FleetAssumptions, Fleet!ReleasesAssumption
<1>2. Fleet!First \in FleetReleases
  BY <1>1, LeastExists DEF Fleet!First
<1>3. Fleet!Latest \in FleetReleases /\ \A r \in FleetReleases : r <= Fleet!Latest
  BY <1>1, FleetLastExists DEF Fleet!Latest
<1>4. QED
  BY <1>1, <1>2, <1>3

LEMMA FleetInitKeeps == ASSUME FleetAssumptions, Fleet!Init PROVE FleetIInv
<1>1. Fleet!First \in FleetReleases /\ 0 \in 0..Fleet!Latest /\ Fleet!First \in Nat /\ 0 <= Fleet!First
  BY FleetReleaseFacts
<1>2. packages \in Seq(Fleet!Packages) /\ DOMAIN packages = {} /\ Len(packages) = 0
  BY DEF Fleet!Init
<1>3. losses \in 0..MaxLosses
  BY DEF Fleet!Init, FleetAssumptions, Fleet!BoundsAssumption
<1>4. binary \in [Fleet!Hosts -> FleetReleases] /\ syncd \in [Sites -> FleetReleases] /\ schema \in [Fleet!Hosts -> 0..Fleet!Latest]
      /\ \A h \in Fleet!Hosts : schema[h] <= binary[h]
  BY <1>1 DEF Fleet!Init
<1>5. extensions \in [Fleet!Hosts -> BOOLEAN] /\ major \in [Fleet!Hosts -> Fleet!Majors]
      /\ stampedSchema \in [Sites -> 0..Fleet!Latest] /\ shape \in [Sites -> 0..Fleet!Latest]
  BY <1>1 DEF Fleet!Init, Fleet!Majors
<1>6. sequence \in [Sites -> 0..Len(packages)]
  BY <1>2 DEF Fleet!Init
<1>7. /\ apply \in [Sites -> DOMAIN packages \cup {None}]
      /\ building \in [Sites -> 0..Fleet!Latest \cup {None}]
  BY DEF Fleet!Init
<1>8. Fleet!TypeOK
  BY <1>2, <1>3, <1>4, <1>5, <1>6, <1>7 DEF Fleet!TypeOK
<1>9. FleetJobsAreGated /\ Fleet!ShapeIsStamped
  BY DEF Fleet!Init, FleetJobsAreGated, Fleet!ShapeIsStamped
<1>10. QED
  BY <1>8, <1>9 DEF FleetIInv

-----------------------------------------------------------------------------
(* The hosts and the producer: a site keeps what it has.                   *)

LEMMA FleetSiteStands ==
  ASSUME UNCHANGED <<packages, Fleet!site>>
  PROVE  FleetJobsAreGated' = FleetJobsAreGated /\ Fleet!ShapeIsStamped' = Fleet!ShapeIsStamped
BY DEF Fleet!site, FleetJobsAreGated, Fleet!ShapeIsStamped

LEMMA FleetOperateKeeps ==
  ASSUME FleetAssumptions, FleetIInv, NEW h \in Fleet!Hosts, Fleet!Operate(h)
  PROVE  FleetIInv'
<1>1. UNCHANGED <<syncd, packages, Fleet!site, losses>>
  BY DEF Fleet!Operate, Fleet!InstallRelease, Fleet!UpgradeServer, Fleet!DbaInstallsExtensions,
     Fleet!EnsureRequiredExtensions, Fleet!RunMigration
<1>2. binary \in [Fleet!Hosts -> FleetReleases] /\ schema \in [Fleet!Hosts -> 0..Fleet!Latest] /\ extensions \in [Fleet!Hosts -> BOOLEAN]
      /\ major \in [Fleet!Hosts -> Fleet!Majors] /\ \A k \in Fleet!Hosts : schema[k] <= binary[k]
  BY DEF FleetIInv, Fleet!TypeOK
<1>3. FleetReleases \subseteq Nat /\ Fleet!Latest \in Nat /\ \A r \in FleetReleases : r <= Fleet!Latest
  BY FleetReleaseFacts
<1>4. binary' \in [Fleet!Hosts -> FleetReleases] /\ schema' \in [Fleet!Hosts -> 0..Fleet!Latest] /\ extensions' \in [Fleet!Hosts -> BOOLEAN]
      /\ major' \in [Fleet!Hosts -> Fleet!Majors] /\ \A k \in Fleet!Hosts : schema'[k] <= binary'[k]
  <2>1. CASE \E r \in FleetReleases : Fleet!InstallRelease(h, r)
    <3>0. PICK r \in FleetReleases : Fleet!InstallRelease(h, r)
      BY <2>1
    <3>1. r > binary[h] /\ binary' = [binary EXCEPT ![h] = r] /\ UNCHANGED <<schema, extensions, major>>
      BY <3>0 DEF Fleet!InstallRelease
    <3>2. binary' \in [Fleet!Hosts -> FleetReleases]
      BY <1>2, <3>1
    <3>3. ASSUME NEW k \in Fleet!Hosts PROVE schema[k] <= binary'[k]
      <4>0. schema[k] \in 0..Fleet!Latest /\ binary[k] \in FleetReleases /\ schema[k] <= binary[k]
        BY <1>2
      <4>a. schema[k] \in Nat
        BY <1>3, <4>0
      <4>b. binary[k] \in Nat /\ r \in Nat
        BY <1>3, <4>0, Zenon
      <4>1. schema[k] \in Nat /\ binary[k] \in Nat /\ schema[k] <= binary[k] /\ r \in Nat
        BY <4>0, <4>a, <4>b
      <4>2. binary'[k] = IF k = h THEN r ELSE binary[k]
        BY <1>2, <3>1
      <4>3. QED
        BY <3>1, <4>1, <4>2
    <3>4. QED
      BY <1>2, <3>1, <3>2, <3>3
  <2>2. CASE Fleet!UpgradeServer(h)
    BY <1>2, <2>2 DEF Fleet!UpgradeServer
  <2>3. CASE Fleet!DbaInstallsExtensions(h) \/ Fleet!EnsureRequiredExtensions(h)
    BY <1>2, <2>3 DEF Fleet!DbaInstallsExtensions, Fleet!EnsureRequiredExtensions
  <2>4. CASE Fleet!RunMigration(h)
    <3>1. /\ schema[h] < binary[h] /\ schema' = [schema EXCEPT ![h] = schema[h] + 1]
          /\ extensions' = [extensions EXCEPT ![h] = TRUE] /\ UNCHANGED <<binary, major>>
      BY <2>4 DEF Fleet!RunMigration
    <3>a. schema[h] \in 0..Fleet!Latest /\ binary[h] \in FleetReleases
      BY <1>2
    <3>2. schema[h] \in Nat /\ binary[h] \in Nat /\ binary[h] <= Fleet!Latest
      BY <1>3, <3>a
    <3>3. schema[h] + 1 \in 0..Fleet!Latest /\ schema[h] + 1 <= binary[h]
      BY <1>3, <3>1, <3>2
    <3>4. schema' \in [Fleet!Hosts -> 0..Fleet!Latest] /\ extensions' \in [Fleet!Hosts -> BOOLEAN]
      BY <1>2, <3>1, <3>3
    <3>5. \A k \in Fleet!Hosts : schema'[k] <= binary'[k]
      BY <1>2, <3>1, <3>3
    <3>6. QED
      BY <1>2, <3>1, <3>4, <3>5
  <2>5. QED
    BY <2>1, <2>2, <2>3, <2>4 DEF Fleet!Operate
<1>5. Fleet!TypeOK'
  BY <1>1, <1>4 DEF FleetIInv, Fleet!TypeOK, Fleet!site
<1>6. QED
  BY <1>1, <1>5, FleetSiteStands DEF FleetIInv

LEMMA FleetPublishKeeps ==
  ASSUME FleetAssumptions, FleetIInv, NEW kind \in {"baseline", "incremental", "rebaseline"}, NEW minimum \in FleetReleases,
         Fleet!Publish(kind, minimum), kind = "baseline" <=> packages = <<>>
  PROVE  FleetIInv'
<1> DEFINE p == Fleet!Package(kind, minimum)
<1>1. packages' = Append(packages, p) /\ UNCHANGED <<Fleet!host, syncd, Fleet!site, losses>>
  BY DEF Fleet!Publish
<1>2. p \in Fleet!Packages /\ p.kind = kind
  BY DEF Fleet!Package, Fleet!Packages, FleetIInv, Fleet!TypeOK, Fleet!Hosts
<1>3. /\ packages \in Seq(Fleet!Packages)
      /\ \A s \in DOMAIN packages : packages[s].kind = "baseline" <=> s = 1
  BY DEF FleetIInv, Fleet!TypeOK
<1> HIDE DEF p
<1>4. /\ packages' \in Seq(Fleet!Packages) /\ Len(packages') = Len(packages) + 1 /\ Len(packages) \in Nat
      /\ DOMAIN packages = 1..Len(packages) /\ DOMAIN packages' = 1..(Len(packages) + 1)
      /\ \A s \in 1..Len(packages) : packages'[s] = packages[s]
      /\ packages'[Len(packages) + 1] = p
  BY <1>1, <1>2, <1>3
<1>5. \A s \in DOMAIN packages' : packages'[s].kind = "baseline" <=> s = 1
  <2>1. Len(packages) = 0 <=> kind = "baseline"
    BY <1>3
  <2>2. ASSUME NEW s \in 1..(Len(packages) + 1) PROVE packages'[s].kind = "baseline" <=> s = 1
    <3>1. CASE s \in 1..Len(packages)
      BY <1>3, <1>4, <3>1
    <3>2. CASE s = Len(packages) + 1
      BY <1>2, <1>4, <2>1, <3>2
    <3>3. QED
      BY <1>4, <3>1, <3>2
  <2>3. QED
    BY <1>4, <2>2
<1>6. DOMAIN packages \subseteq DOMAIN packages' /\ 0..Len(packages) \subseteq 0..Len(packages')
  BY <1>4
<1>7. sequence' \in [Sites -> 0..Len(packages')] /\ apply' \in [Sites -> DOMAIN packages' \cup {None}]
  BY <1>1, <1>6 DEF FleetIInv, Fleet!TypeOK, Fleet!site
<1>8. Fleet!TypeOK'
  BY <1>1, <1>4, <1>5, <1>7 DEF FleetIInv, Fleet!TypeOK, Fleet!site, Fleet!host
<1>9. FleetJobsAreGated'
  <2>1. ASSUME NEW c \in Sites, apply[c] # None PROVE packages'[apply[c]] = packages[apply[c]]
    BY <1>4, <2>1 DEF FleetIInv, Fleet!TypeOK
  <2>2. QED
    BY <1>1, <2>1 DEF FleetIInv, FleetJobsAreGated, Fleet!site
<1>10. Fleet!ShapeIsStamped'
  <2>1. ASSUME NEW c \in Sites, sequence[c] > 0 PROVE packages'[sequence[c]] = packages[sequence[c]]
    <3>1. sequence[c] \in 1..Len(packages)
      BY <1>4, <2>1 DEF FleetIInv, Fleet!TypeOK
    <3>2. QED
      BY <1>4, <3>1
  <2>2. QED
    BY <1>1, <2>1 DEF FleetIInv, Fleet!ShapeIsStamped, Fleet!site
<1>11. QED
  BY <1>8, <1>9, <1>10 DEF FleetIInv

LEMMA FleetBuildKeeps ==
  ASSUME FleetAssumptions, FleetIInv, NEW minimum \in FleetReleases, Fleet!Build(minimum)
  PROVE  FleetIInv'
<1>1. CASE Fleet!FirstBaseline(minimum)
  BY <1>1, FleetPublishKeeps DEF Fleet!FirstBaseline
<1>2. CASE Fleet!Incremental(minimum)
  BY <1>2, FleetPublishKeeps DEF Fleet!Incremental
<1>3. CASE \E fromDb \in BOOLEAN : Fleet!Rebaseline(fromDb, minimum)
  BY <1>3, FleetPublishKeeps DEF Fleet!Rebaseline
<1>4. QED
  BY <1>1, <1>2, <1>3 DEF Fleet!Build

-----------------------------------------------------------------------------
(* The cycle of a site.                                                    *)

(* What a site does touches nothing but its own records.                   *)
LEMMA FleetSiteTypes ==
  ASSUME FleetAssumptions, FleetIInv, UNCHANGED <<Fleet!host, packages>>,
         syncd' \in [Sites -> FleetReleases], losses' \in 0..MaxLosses,
         sequence' \in [Sites -> 0..Len(packages)], apply' \in [Sites -> DOMAIN packages \cup {None}],
         stampedSchema' \in [Sites -> 0..Fleet!Latest], shape' \in [Sites -> 0..Fleet!Latest],
         building' \in [Sites -> 0..Fleet!Latest \cup {None}]
  PROVE  Fleet!TypeOK'
BY DEF FleetIInv, Fleet!TypeOK, Fleet!host

LEMMA FleetLeaveKeeps ==
  ASSUME FleetAssumptions, FleetIInv, NEW c \in Sites, Fleet!Leave(c), UNCHANGED packages
  PROVE  /\ apply' \in [Sites -> DOMAIN packages \cup {None}]
         /\ building' \in [Sites -> 0..Fleet!Latest \cup {None}]
         /\ FleetJobsAreGated'
<1>1. /\ apply \in [Sites -> DOMAIN packages \cup {None}]
      /\ building \in [Sites -> 0..Fleet!Latest \cup {None}]
  BY DEF FleetIInv, Fleet!TypeOK
<1>2. apply' = [apply EXCEPT ![c] = None] /\ building' = [building EXCEPT ![c] = None]
  BY DEF Fleet!Leave
<1>3. /\ apply' \in [Sites -> DOMAIN packages \cup {None}]
      /\ building' \in [Sites -> 0..Fleet!Latest \cup {None}]
  BY <1>1, <1>2
<1>4. \A k \in Sites : /\ apply'[k] = IF k = c THEN None ELSE apply[k]
                       /\ building'[k] = IF k = c THEN None ELSE building[k]
  BY <1>1, <1>2
<1>5. QED
  BY <1>3, <1>4 DEF FleetIInv, FleetJobsAreGated

LEMMA FleetRestartKeeps ==
  ASSUME FleetAssumptions, FleetIInv, NEW c \in Sites, Fleet!Restart(c)
  PROVE  FleetIInv'
<1>1. Fleet!Leave(c) /\ syncd' = [syncd EXCEPT ![c] = binary[c]]
      /\ UNCHANGED <<Fleet!host, packages, sequence, stampedSchema, shape, losses>>
  BY DEF Fleet!Restart, Fleet!Leave
<1>2. syncd' \in [Sites -> FleetReleases]
  BY <1>1 DEF FleetIInv, Fleet!TypeOK, Fleet!Hosts
<1>3. Fleet!TypeOK'
  BY <1>1, <1>2, FleetLeaveKeeps, FleetSiteTypes DEF FleetIInv, Fleet!TypeOK
<1>4. Fleet!ShapeIsStamped'
  BY <1>1 DEF FleetIInv, Fleet!ShapeIsStamped
<1>5. QED
  BY <1>1, <1>3, <1>4, FleetLeaveKeeps DEF FleetIInv

(* A plan names packages of the feed.                                      *)
LEMMA FleetPlannedIsPublished ==
  ASSUME FleetAssumptions, FleetIInv, packages # <<>>, NEW c \in Sites, NEW s \in Fleet!Planned(c)
  PROVE  s \in DOMAIN packages
<1> DEFINE T == {t \in DOMAIN packages : packages[t].kind # "incremental"}
<1>1. /\ packages \in Seq(Fleet!Packages) /\ Len(packages) \in Nat /\ DOMAIN packages = 1..Len(packages) /\ 1 \in DOMAIN packages
      /\ packages[1].kind = "baseline" /\ sequence[c] \in 0..Len(packages)
  BY DEF FleetIInv, Fleet!TypeOK
<1>2. T \in SUBSET Nat /\ T # {} /\ IsFiniteSet(T)
  <2>1. IsFiniteSet(1..Len(packages))
    BY <1>1, FS_Interval
  <2>2. T \subseteq 1..Len(packages) /\ 1 \in T
    BY <1>1
  <2>3. 1..Len(packages) \subseteq Nat
    BY <1>1
  <2> HIDE DEF T
  <2>4. IsFiniteSet(T)
    BY <2>1, <2>2, FS_Subset
  <2>5. QED
    BY <2>2, <2>3, <2>4
<1>3. PICK x \in T : \A y \in T : y <= x
  <2> HIDE DEF T
  <2>1. QED
    BY <1>2, FleetLastExists
<1>4. x \in DOMAIN packages /\ packages[x].kind # "incremental"
      /\ \A t \in DOMAIN packages : t > x => packages[t].kind = "incremental"
  BY <1>1, <1>3
<1>5. Fleet!Root \in DOMAIN packages
  BY <1>4, Zenon DEF Fleet!Root
<1>6. s = Fleet!Root \/ s \in (sequence[c] + 1)..Len(packages)
  BY DEF Fleet!Planned
<1>7. QED
  BY <1>1, <1>5, <1>6

LEMMA FleetPlanKeeps ==
  ASSUME FleetAssumptions, FleetIInv, NEW c \in Sites, Fleet!Plan(c)
  PROVE  FleetIInv'
<1>1. PICK s \in Fleet!Planned(c) : Fleet!Gates(c, packages[s]) /\ apply' = [apply EXCEPT ![c] = s]
  BY DEF Fleet!Plan
<1>2. /\ UNCHANGED <<Fleet!host, syncd, packages, sequence, stampedSchema, shape, building, losses>>
      /\ packages # <<>>
  BY DEF Fleet!Plan
<1>3. s \in DOMAIN packages
  BY <1>2, FleetPlannedIsPublished
<1>4. packages[s].schema = packages[s].bundle
  BY <1>1 DEF Fleet!Gates, Fleet!SchemaAgrees
<1>5. apply \in [Sites -> DOMAIN packages \cup {None}] /\ s # None
  <2>1. s \in Nat
    BY <1>3 DEF FleetIInv, Fleet!TypeOK
  <2>2. QED
    BY <2>1 DEF FleetIInv, Fleet!TypeOK, FleetAssumptions, Fleet!NoneAssumption
<1>6. apply' \in [Sites -> DOMAIN packages \cup {None}]
  BY <1>1, <1>3, <1>5
<1>7. Fleet!TypeOK'
  BY <1>2, <1>6, FleetSiteTypes DEF FleetIInv, Fleet!TypeOK
<1>8. FleetJobsAreGated'
  <2>1. \A k \in Sites : apply'[k] = IF k = c THEN s ELSE apply[k]
    BY <1>1, <1>5
  <2>2. QED
    BY <1>2, <1>4, <1>5, <2>1 DEF FleetIInv, FleetJobsAreGated
<1>9. Fleet!ShapeIsStamped'
  BY <1>2 DEF FleetIInv, Fleet!ShapeIsStamped
<1>10. QED
  BY <1>7, <1>8, <1>9 DEF FleetIInv

LEMMA FleetCloneKeeps ==
  ASSUME FleetAssumptions, FleetIInv, NEW c \in Sites, Fleet!CloneTables(c)
  PROVE  FleetIInv'
<1>1. apply[c] # None /\ building' = [building EXCEPT ![c] = schema[c]]
      /\ UNCHANGED <<Fleet!host, syncd, packages, sequence, stampedSchema, shape, apply, losses>>
  BY DEF Fleet!CloneTables
<1>2. building \in [Sites -> 0..Fleet!Latest \cup {None}] /\ schema[c] \in 0..Fleet!Latest
  BY DEF FleetIInv, Fleet!TypeOK, Fleet!Hosts
<1>3. building' \in [Sites -> 0..Fleet!Latest \cup {None}]
      /\ \A k \in Sites : building'[k] = IF k = c THEN schema[c] ELSE building[k]
  BY <1>1, <1>2
<1>4. Fleet!TypeOK'
  BY <1>1, <1>3, FleetSiteTypes DEF FleetIInv, Fleet!TypeOK
<1>5. FleetJobsAreGated'
  BY <1>1, <1>3 DEF FleetIInv, FleetJobsAreGated
<1>6. Fleet!ShapeIsStamped'
  BY <1>1 DEF FleetIInv, Fleet!ShapeIsStamped
<1>7. QED
  BY <1>4, <1>5, <1>6 DEF FleetIInv

(* A generation is activated only with the tables of its package, whose    *)
(* schema and digest the gates had found to agree.                         *)
LEMMA FleetActivateKeeps ==
  ASSUME FleetAssumptions, FleetIInv, NEW c \in Sites, Fleet!Activate(c)
  PROVE  FleetIInv'
<1> DEFINE p == packages[apply[c]]
<1>1. building[c] # None /\ Fleet!Leave(c) /\ UNCHANGED <<Fleet!host, syncd, packages, losses>>
  BY DEF Fleet!Activate
<1>2. \/ /\ building[c] = p.bundle
         /\ sequence' = [sequence EXCEPT ![c] = apply[c]]
         /\ stampedSchema' = [stampedSchema EXCEPT ![c] = p.schema]
         /\ shape' = [shape EXCEPT ![c] = building[c]]
      \/ UNCHANGED <<sequence, stampedSchema, shape>>
  BY DEF Fleet!Activate, Fleet!Reproduces
<1>3. apply[c] \in DOMAIN packages /\ p.schema = p.bundle /\ building[c] \in 0..Fleet!Latest
  BY <1>1 DEF FleetIInv, Fleet!TypeOK, FleetJobsAreGated
<1>4. /\ sequence \in [Sites -> 0..Len(packages)] /\ stampedSchema \in [Sites -> 0..Fleet!Latest]
      /\ shape \in [Sites -> 0..Fleet!Latest]
  BY DEF FleetIInv, Fleet!TypeOK
<1>5. apply[c] \in 0..Len(packages)
  BY <1>3 DEF FleetIInv, Fleet!TypeOK
<1> HIDE DEF p
<1>6. CASE UNCHANGED <<sequence, stampedSchema, shape>>
  <2>1. Fleet!TypeOK'
    BY <1>1, <1>4, <1>6, FleetLeaveKeeps, FleetSiteTypes DEF FleetIInv, Fleet!TypeOK
  <2>2. Fleet!ShapeIsStamped'
    BY <1>1, <1>6 DEF FleetIInv, Fleet!ShapeIsStamped
  <2>3. QED
    BY <1>1, <2>1, <2>2, FleetLeaveKeeps DEF FleetIInv
<1>7. CASE /\ building[c] = p.bundle
           /\ sequence' = [sequence EXCEPT ![c] = apply[c]]
           /\ stampedSchema' = [stampedSchema EXCEPT ![c] = p.schema]
           /\ shape' = [shape EXCEPT ![c] = building[c]]
  <2>1. /\ sequence' \in [Sites -> 0..Len(packages)] /\ stampedSchema' \in [Sites -> 0..Fleet!Latest]
        /\ shape' \in [Sites -> 0..Fleet!Latest]
    BY <1>3, <1>4, <1>5, <1>7
  <2>2. Fleet!TypeOK'
    BY <1>1, <2>1, FleetLeaveKeeps, FleetSiteTypes DEF FleetIInv, Fleet!TypeOK
  <2>3. \A k \in Sites : /\ sequence'[k] = IF k = c THEN apply[c] ELSE sequence[k]
                         /\ stampedSchema'[k] = IF k = c THEN p.schema ELSE stampedSchema[k]
                         /\ shape'[k] = IF k = c THEN building[c] ELSE shape[k]
    BY <1>4, <1>7
  <2>4. Fleet!ShapeIsStamped'
    BY <1>1, <1>3, <1>7, <2>3 DEF FleetIInv, Fleet!ShapeIsStamped, p
  <2>5. QED
    BY <1>1, <2>2, <2>4, FleetLeaveKeeps DEF FleetIInv
<1>8. QED
  BY <1>2, <1>6, <1>7

LEMMA FleetApplyIncrementalKeeps ==
  ASSUME FleetAssumptions, FleetIInv, NEW c \in Sites, Fleet!ApplyIncremental(c)
  PROVE  FleetIInv'
<1>1. /\ apply[c] # None /\ packages[apply[c]].kind = "incremental" /\ Fleet!Leave(c)
      /\ UNCHANGED <<Fleet!host, syncd, packages, stampedSchema, shape, losses>>
      /\ \/ /\ sequence[c] + 1 = apply[c] /\ packages[apply[c]].schema = stampedSchema[c]
            /\ sequence' = [sequence EXCEPT ![c] = apply[c]]
         \/ UNCHANGED sequence
  BY DEF Fleet!ApplyIncremental
<1>2. /\ apply[c] \in DOMAIN packages /\ apply[c] # 1 /\ packages \in Seq(Fleet!Packages)
      /\ sequence \in [Sites -> 0..Len(packages)]
  BY <1>1 DEF FleetIInv, Fleet!TypeOK
<1>3. apply[c] \in 0..Len(packages) /\ sequence[c] \in Nat
  BY <1>2
<1>4. sequence' \in [Sites -> 0..Len(packages)]
  BY <1>1, <1>2, <1>3
<1>5. Fleet!TypeOK'
  BY <1>1, <1>4, FleetLeaveKeeps, FleetSiteTypes DEF FleetIInv, Fleet!TypeOK
<1>6. Fleet!ShapeIsStamped'
  <2>1. CASE UNCHANGED sequence
    BY <1>1, <2>1 DEF FleetIInv, Fleet!ShapeIsStamped
  <2>2. CASE /\ sequence[c] + 1 = apply[c] /\ packages[apply[c]].schema = stampedSchema[c]
             /\ sequence' = [sequence EXCEPT ![c] = apply[c]]
    <3>1. sequence[c] > 0
      BY <1>2, <1>3, <2>2
    <3>2. \A k \in Sites : sequence'[k] = IF k = c THEN apply[c] ELSE sequence[k]
      BY <1>2, <2>2
    <3>3. QED
      BY <1>1, <2>2, <3>1, <3>2 DEF FleetIInv, Fleet!ShapeIsStamped
  <2>3. QED
    BY <1>1, <2>1, <2>2
<1>7. QED
  BY <1>1, <1>5, <1>6, FleetLeaveKeeps DEF FleetIInv

LEMMA FleetFaultKeeps ==
  ASSUME FleetAssumptions, FleetIInv,
         (\E c \in Sites : Fleet!ApplyDies(c)) \/ (\E h \in Fleet!Hosts : Fleet!ExtensionsLost(h))
  PROVE  FleetIInv'
<1>1. losses < MaxLosses /\ losses' = losses + 1 /\ losses' \in 0..MaxLosses
  BY DEF Fleet!ApplyDies, Fleet!ExtensionsLost, FleetIInv, Fleet!TypeOK, FleetAssumptions,
     Fleet!BoundsAssumption
<1>2. ASSUME NEW c \in Sites, Fleet!ApplyDies(c) PROVE FleetIInv'
  <2>1. Fleet!Leave(c) /\ UNCHANGED <<Fleet!host, syncd, packages, sequence, stampedSchema, shape>>
    BY <1>2 DEF Fleet!ApplyDies
  <2>2. Fleet!TypeOK'
    BY <1>1, <2>1, FleetLeaveKeeps, FleetSiteTypes DEF FleetIInv, Fleet!TypeOK
  <2>3. Fleet!ShapeIsStamped'
    BY <2>1 DEF FleetIInv, Fleet!ShapeIsStamped
  <2>4. QED
    BY <2>1, <2>2, <2>3, FleetLeaveKeeps DEF FleetIInv
<1>3. ASSUME NEW h \in Fleet!Hosts, Fleet!ExtensionsLost(h) PROVE FleetIInv'
  <2>1. /\ extensions' = [extensions EXCEPT ![h] = FALSE]
        /\ UNCHANGED <<binary, schema, major, syncd, packages, Fleet!site>>
    BY <1>3 DEF Fleet!ExtensionsLost
  <2>2. extensions' \in [Fleet!Hosts -> BOOLEAN]
    BY <2>1 DEF FleetIInv, Fleet!TypeOK
  <2>3. Fleet!TypeOK'
    BY <1>1, <2>1, <2>2 DEF FleetIInv, Fleet!TypeOK, Fleet!site
  <2>4. QED
    BY <2>1, <2>3, FleetSiteStands DEF FleetIInv
<1>4. QED
  BY <1>2, <1>3

LEMMA FleetNextKeeps ==
  ASSUME FleetAssumptions, FleetIInv, [Fleet!Next]_(Fleet!upgradeVars)
  PROVE  FleetIInv'
<1>1. CASE UNCHANGED Fleet!upgradeVars
  <2>1. UNCHANGED <<Fleet!host, syncd, packages, Fleet!site, losses>>
    BY <1>1 DEF Fleet!upgradeVars, Fleet!host, Fleet!site
  <2>2. Fleet!TypeOK'
    BY <2>1 DEF FleetIInv, Fleet!TypeOK, Fleet!host, Fleet!site
  <2>3. QED
    BY <2>1, <2>2, FleetSiteStands DEF FleetIInv
<1>2. CASE \E h \in Fleet!Hosts : Fleet!Operate(h) \/ Fleet!ExtensionsLost(h)
  BY <1>2, FleetOperateKeeps, FleetFaultKeeps
<1>3. CASE \E minimum \in FleetReleases : Fleet!Build(minimum)
  BY <1>3, FleetBuildKeeps
<1>4. CASE \E c \in Sites : Fleet!Restart(c) \/ Fleet!Cycle(c) \/ Fleet!ApplyDies(c)
  BY <1>4, FleetRestartKeeps, FleetPlanKeeps, FleetCloneKeeps, FleetActivateKeeps,
     FleetApplyIncrementalKeeps, FleetFaultKeeps
     DEF Fleet!Cycle
<1>5. QED
  BY <1>1, <1>2, <1>3, <1>4 DEF Fleet!Next

LEMMA FleetInvariance == ASSUME FleetAssumptions PROVE Fleet!SafetySpec => []FleetIInv
<1>1. Fleet!Init => FleetIInv
  BY FleetInitKeeps
<1>2. FleetIInv /\ [Fleet!Next]_(Fleet!upgradeVars) => FleetIInv'
  BY FleetNextKeeps
<1>3. QED
  BY <1>1, <1>2, PTL DEF Fleet!SafetySpec

(* What the variables of a fleet that is upgraded may hold.                *)
LEMMA FleetTypeCorrect == ASSUME FleetAssumptions PROVE Fleet!SafetySpec => []Fleet!TypeOK
<1>1. FleetIInv => Fleet!TypeOK
  BY DEF FleetIInv
<1>2. QED
  BY FleetInvariance, <1>1, PTL

(* The tables of an installed corpus are of the schema its cursor and the  *)
(* package at its cursor are stamped with, for any hosts, releases, feed   *)
(* and order of upgrades, migrations, applies and deaths.                  *)
THEOREM FleetShapeIsStampedAlways ==
  ASSUME FleetAssumptions
  PROVE  Fleet!SafetySpec => []Fleet!ShapeIsStamped
<1>1. FleetIInv => Fleet!ShapeIsStamped
  BY DEF FleetIInv
<1>2. QED
  BY FleetInvariance, <1>1, PTL

-----------------------------------------------------------------------------
(* The suite: a behaviour of the suite is one of each part, for the parts  *)
(* that do not run stand still.                                            *)

LEMMA PartsBegin ==
  ASSUME SuiteInit
  PROVE  /\ Init /\ Reads!Init /\ Server!Init /\ Postgres!Init /\ Site!Init /\ Ctl!Init
         /\ Watchdog!Init /\ Fleet!Init
BY DEF SuiteInit

LEMMA PartsMove ==
  ASSUME [SuiteNext]_suiteVars
  PROVE  /\ [Next]_vars /\ [Reads!Next]_(Reads!vars) /\ [Server!Next]_(Server!vars)
         /\ [Postgres!Next]_(Postgres!vars) /\ [Site!Next]_(Site!rolesVars)
         /\ [Ctl!Next]_(Ctl!deploymentVars) /\ [Watchdog!Next]_(Watchdog!watchdogVars)
         /\ [Fleet!Next]_(Fleet!upgradeVars)
<1>1. /\ Next \/ UNCHANGED vars
      /\ Reads!Next \/ UNCHANGED readVars
      /\ Server!Next \/ UNCHANGED serverVars
      /\ Postgres!Next \/ UNCHANGED postgresVars
      /\ Site!Next \/ UNCHANGED roleVars
      /\ Ctl!Next \/ UNCHANGED deployVars
      /\ Watchdog!Next \/ UNCHANGED watchVars
      /\ Fleet!Next \/ UNCHANGED fleetVars
  <2>1. CASE UNCHANGED suiteVars
    BY <2>1 DEF suiteVars
  <2>2. CASE SuiteNext
    BY <2>2 DEF SuiteNext, InFeed, InReads, InServer, InPostgres, InRoles, InDeploy, InWatchdog, InFleet
  <2>3. QED
    BY <2>1, <2>2
<1>2. UNCHANGED readVars => UNCHANGED Reads!vars
  BY DEF readVars, Reads!vars
<1>3. UNCHANGED serverVars => UNCHANGED Server!vars
  BY DEF serverVars, Server!vars
<1>4. UNCHANGED postgresVars => UNCHANGED Postgres!vars
  BY DEF postgresVars, Postgres!vars, Postgres!diskVars, Postgres!serverVars
<1>5. UNCHANGED roleVars => UNCHANGED Site!rolesVars
  BY DEF roleVars, Site!rolesVars
<1>6. UNCHANGED deployVars => UNCHANGED Ctl!deploymentVars
  BY DEF deployVars, Ctl!deploymentVars
<1>7. UNCHANGED watchVars => UNCHANGED Watchdog!watchdogVars
  BY DEF watchVars, Watchdog!watchdogVars
<1>8. UNCHANGED fleetVars => UNCHANGED Fleet!upgradeVars
  BY DEF fleetVars, Fleet!upgradeVars
<1>9. QED
  BY <1>1, <1>2, <1>3, <1>4, <1>5, <1>6, <1>7, <1>8

LEMMA SuiteHasParts ==
  SuiteSpec => /\ Spec /\ Reads!Spec /\ Server!Spec /\ Postgres!Spec /\ Site!Spec
               /\ Ctl!SafetySpec /\ Watchdog!SafetySpec /\ Fleet!SafetySpec
<1>1. SuiteInit => /\ Init /\ Reads!Init /\ Server!Init /\ Postgres!Init /\ Site!Init /\ Ctl!Init
                   /\ Watchdog!Init /\ Fleet!Init
  BY PartsBegin
<1>2. [SuiteNext]_suiteVars =>
        /\ [Next]_vars /\ [Reads!Next]_(Reads!vars) /\ [Server!Next]_(Server!vars)
        /\ [Postgres!Next]_(Postgres!vars) /\ [Site!Next]_(Site!rolesVars)
        /\ [Ctl!Next]_(Ctl!deploymentVars) /\ [Watchdog!Next]_(Watchdog!watchdogVars)
        /\ [Fleet!Next]_(Fleet!upgradeVars)
  BY PartsMove
<1>3. QED
  BY <1>1, <1>2, PTL
     DEF SuiteSpec, Spec, Reads!Spec, Server!Spec, Postgres!Spec, Site!Spec,
         Ctl!SafetySpec, Watchdog!SafetySpec, Fleet!SafetySpec

LEMMA SuiteAssumptions ==
  /\ ReadsAssumptions /\ PostgresAssumptions /\ SiteAssumptions /\ FleetAssumptions
  /\ Server!BoundsAssumption /\ Ctl!BoundsAssumption /\ Watchdog!BoundsAssumption
BY ReadsAssumption, ServerAssumption, PostgresAssumption, RolesAssumption,
   DeploymentAssumption, WatchdogAssumption, FleetAssumption
   DEF ReadsAssumptions, PostgresAssumptions, SiteAssumptions, FleetAssumptions

(* What the variables of a site may hold, whatever runs on it: no cursor   *)
(* ahead of its catalog, no live generation dropped, no permit beyond the  *)
(* pool, no schema a binary does not know.                                 *)
THEOREM TypesOKAlways == SuiteSpec => []TypesOK
<1>1. /\ Spec => []TypeOK
      /\ Reads!Spec => []Reads!TypeOK
      /\ Server!Spec => []Server!TypeOK
      /\ Postgres!Spec => []Postgres!TypeOK
      /\ Site!Spec => []Site!TypeOK
      /\ Ctl!SafetySpec => []Ctl!TypeOK
      /\ Watchdog!SafetySpec => []Watchdog!TypeOK
      /\ Fleet!SafetySpec => []Fleet!TypeOK
  BY SuiteAssumptions, TypeCorrect, ReadsTypeCorrect, ServerTypeCorrect, PostgresTypeCorrect,
     SiteTypeCorrect, CtlTypeCorrect, WatchdogTypeCorrect, FleetTypeCorrect
<1>2. QED
  BY <1>1, SuiteHasParts, PTL DEF TypesOK

(* A request is answered from the topology it opened with, under one       *)
(* permit, once and in order (query.rs, serve.rs, listener.rs), and what   *)
(* an operator's command leaves is what it says: a server with its         *)
(* durability and its schema (postgres.rs), roles with the privileges of   *)
(* their job and a readable generation (provision.rs), rows of the shape   *)
(* of their stamp (apply.rs), a site service that was started ready        *)
(* (lifecycle.rs).                                                         *)
THEOREM OperationIsSafeAlways == SuiteSpec => OperationIsSafe
<1>1. /\ Reads!Spec => []Reads!RoutedTopology
      /\ Server!Spec => []Server!PermitsAreConserved
      /\ Server!Spec => []Server!RepliesFollowRequests
      /\ Postgres!Spec => []Postgres!ServesItsOwnServer
      /\ Site!Spec => []Site!LeastPrivilege
      /\ Site!Spec => []Site!ActiveStaysReadable
      /\ Fleet!SafetySpec => []Fleet!ShapeIsStamped
      /\ Ctl!SafetySpec => Ctl!GatedStart
  BY SuiteAssumptions, ReadsRoutedTopologyAlways, ServerPermitsAreConservedAlways,
     ServerRepliesFollowRequestsAlways, PostgresServesItsOwnServerAlways,
     SiteLeastPrivilegeAlways, SiteActiveStaysReadableAlways, FleetShapeIsStampedAlways,
     CtlGatedStartAlways
<1>2. QED
  BY <1>1, SuiteHasParts, PTL DEF OperationIsSafe

(* The daemons and the one-shot updates of a site follow the chain, with   *)
(* whatever else goes on there.                                            *)
THEOREM SiteFollowsFeed == SuiteSpec => FeedIsFollowed
BY SuiteHasParts, FeedIsFollowedAlways, PTL
=============================================================================

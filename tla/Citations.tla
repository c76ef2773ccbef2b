------------------------------ MODULE Citations ------------------------------
(***************************************************************************)
(* Legislation cited by the decisions.  collect-legislation-citations      *)
(* reads the latest archived Judilibre response of each decision, records  *)
(* an occurrence for each visa it can parse and one pending resolution for *)
(* each article and corpus; enrich-legislation-citations asks Legifrance   *)
(* about each resolution.  A command may die between two transactions.     *)
(***************************************************************************)
EXTENDS Integers, Sequences, FiniteSets, FiniteSetsExt

CONSTANTS NumDecisions,     \* decisions, in document_id order
          Corpus,           \* decision -> its corpus
          Articles,         \* articles of a code, 1..n in citation_key order
          Visas,            \* the visa lists a response may carry
          PageSize,         \* COLLECT_CITATIONS_PAGE_SIZE, ENRICH_CITATIONS_PAGE_SIZE
          MaxResponses,     \* bound: archived responses
          MaxFaults,        \* bound: deaths of a command, failures of Legifrance
          None

Decisions == 1..NumDecisions
Corpora == {Corpus[d] : d \in Decisions}

(* A visa title: an article of a code, by its Legifrance link or in plain  *)
(* words, or another text (a law, a decree), which is not resolved.        *)
Link(article) == [form |-> "link", article |-> article]
Words(article) == [form |-> "words", article |-> article]
OtherText == [form |-> "other", article |-> 0]
Titles == {Link(a) : a \in Articles} \union {Words(a) : a \in Articles} \union {OtherText}

BoundsAssumption ==
  /\ NumDecisions \in Nat /\ MaxResponses \in Nat /\ MaxFaults \in Nat
  /\ PageSize \in Nat \ {0}
  /\ Corpus \in [Decisions -> Nat] /\ Articles \subseteq Nat
  /\ Visas \subseteq Seq(Titles)

VARIABLES responses,        \* archived /decision responses: [decision, visa]
          occurrences,      \* decision_legislation_citations
          resolution,       \* <<corpus, key>> -> [status, count], or None
          known,            \* articles Legifrance has
          service,          \* "up", "down" or "garbled"
          phase,            \* "idle", "collect", "finalize", "resolve"
          retry,            \* --retry-errors
          cursor,           \* last key of the page before, or None
          page,             \* what is left of the page: visa entries, or keys
          answer,           \* what Legifrance answered, or None
          faults

vars == <<responses, occurrences, resolution, known, service, phase, retry, cursor,
          page, answer, faults>>
worldVars == <<responses, known, service>>

Keys == Corpora \X Articles

Statuses == {"pending", "ok", "not_found", "upstream_error", "parse_error"}
Entries == [decision : Decisions, index : Nat, key : Articles \union {None}]
Resolutions == [status : Statuses, count : Nat]
NoneAssumption == None \notin Nat \union Statuses \union Resolutions

Init ==
  /\ responses = <<>> /\ occurrences = {}
  /\ resolution = [k \in Keys |-> None]
  /\ known \in SUBSET Articles
  /\ service = "up"
  /\ phase = "idle" /\ retry = FALSE /\ cursor = None /\ page = {} /\ answer = None
  /\ faults = 0

----------------------------------------------------------------------------
(* The zone enrichment archives a response; Legifrance fails and recovers. *)

Archive(d, visa) ==
  /\ phase = "idle" /\ Len(responses) < MaxResponses
  /\ responses' = Append(responses, [decision |-> d, visa |-> visa])
  /\ UNCHANGED <<occurrences, resolution, known, service, phase, retry, cursor, page,
                 answer, faults>>

Disturb(state) ==
  /\ service = "up" /\ faults < MaxFaults
  /\ service' = state /\ faults' = faults + 1
  /\ UNCHANGED <<responses, occurrences, resolution, known, phase, retry, cursor, page,
                 answer>>

Recover ==
  /\ service # "up" /\ service' = "up"
  /\ UNCHANGED <<responses, occurrences, resolution, known, phase, retry, cursor, page,
                 answer, faults>>

----------------------------------------------------------------------------
(* Collecting.                                                             *)

(* Both forms of a title normalize to the same article and code.           *)
Parse(title) == IF title.form = "other" THEN None ELSE title.article

(* The newest response of a decision, of those that carry a visa.          *)
Latest(d) ==
  LET ids == {i \in 1..Len(responses) : /\ responses[i].decision = d
                                        /\ responses[i].visa # <<>>}
  IN  IF ids = {} THEN None ELSE Max(ids)

BeginCollect ==
  /\ phase = "idle"
  /\ phase' = "collect" /\ cursor' = None
  /\ UNCHANGED <<worldVars, occurrences, resolution, retry, page, answer, faults>>

(* The entries of the visa of a decision's latest response.                *)
EntriesOf(d) ==
  LET visa == responses[Latest(d)].visa
  IN  {[decision |-> d, index |-> i, key |-> Parse(visa[i])] : i \in 1..Len(visa)}

(* A page of decisions, opened into its visa entries.                      *)
ReadDecisions ==
  /\ phase = "collect" /\ page = {}
  /\ LET with == {d \in Decisions : Latest(d) # None /\ (cursor # None => d > cursor)}
         docs == {d \in with : Cardinality({e \in with : e < d}) < PageSize}
     IN  IF docs = {}
         THEN phase' = "finalize" /\ UNCHANGED <<cursor, page>>
         ELSE /\ page' = UNION {EntriesOf(d) : d \in docs}
              /\ cursor' = Max(docs) /\ UNCHANGED phase
  /\ UNCHANGED <<worldVars, occurrences, resolution, retry, answer, faults>>

(* A pending resolution, unless this corpus has one for the article.       *)

(* Fault: recording an occurrence makes its resolution pending again.      *)
EnsurePending_Reset(d, key) == [resolution EXCEPT ![<<Corpus[d], key>>] =
                                  [status |-> "pending", count |-> 0]]

(* Fault: a resolution of any corpus is enough.                            *)
EnsurePending_AnyCorpus(d, key) ==
  IF \E c \in Corpora : resolution[<<c, key>>] # None THEN resolution
  ELSE EnsurePending_Reset(d, key)

EnsurePending(d, key) ==
  IF resolution[<<Corpus[d], key>>] # None THEN resolution
  ELSE [resolution EXCEPT ![<<Corpus[d], key>>] = [status |-> "pending", count |-> 0]]

(* Entries come in the order of the decisions, then of the visa.           *)
Sooner(e, o) == e.decision < o.decision \/ (e.decision = o.decision /\ e.index < o.index)

(* An occurrence and its pending resolution are one transaction.           *)
RecordVisa ==
  /\ phase = "collect"
  /\ \E e \in page :
       /\ \A o \in page \ {e} : Sooner(e, o)
       /\ page' = page \ {e}
       /\ IF e.key = None
          THEN UNCHANGED <<occurrences, resolution>>
          ELSE /\ occurrences' = occurrences \union {e}
               /\ resolution' = EnsurePending(e.decision, e.key)
  /\ UNCHANGED <<worldVars, phase, retry, cursor, answer, faults>>

Count(k) == Cardinality({o \in occurrences : Corpus[o.decision] = k[1] /\ o.key = k[2]})

(* Fault: counts are made for resolutions without one only.                *)
Finalize_OnlyNew ==
  /\ phase = "finalize"
  /\ resolution' = [k \in Keys |->
       IF resolution[k] # None /\ resolution[k].count = 0
       THEN [resolution[k] EXCEPT !.count = Count(k)] ELSE resolution[k]]
  /\ phase' = "idle" /\ cursor' = None
  /\ UNCHANGED <<worldVars, occurrences, retry, page, answer, faults>>

(* The counts are recomputed in full, also when nothing was inserted.      *)
Finalize ==
  /\ phase = "finalize"
  /\ resolution' = [k \in Keys |-> IF resolution[k] = None THEN None
                                   ELSE [resolution[k] EXCEPT !.count = Count(k)]]
  /\ phase' = "idle" /\ cursor' = None
  /\ UNCHANGED <<worldVars, occurrences, retry, page, answer, faults>>

----------------------------------------------------------------------------
(* Resolving.                                                              *)

Wanted == {"pending"} \union (IF retry THEN {"upstream_error", "parse_error"} ELSE {})

Before(a, b) == a[1] < b[1] \/ (a[1] = b[1] /\ a[2] < b[2])

BeginResolve(r) ==
  /\ phase = "idle"
  /\ phase' = "resolve" /\ retry' = r /\ cursor' = None
  /\ UNCHANGED <<worldVars, occurrences, resolution, page, answer, faults>>

(* The first keys, a page of them.                                         *)
ReadPending ==
  /\ phase = "resolve" /\ page = {}
  /\ LET todo == {k \in Keys : /\ resolution[k] # None
                               /\ resolution[k].status \in Wanted
                               /\ cursor # None => Before(cursor, k)}
         first == {k \in todo : Cardinality({e \in todo : Before(e, k)}) < PageSize}
     IN  IF todo = {}
         THEN phase' = "idle" /\ cursor' = None /\ retry' = FALSE /\ UNCHANGED page
         ELSE /\ page' = first
              /\ cursor' \in {k \in first : \A e \in first \ {k} : Before(e, k)}
              /\ UNCHANGED <<phase, retry>>
  /\ UNCHANGED <<worldVars, occurrences, resolution, answer, faults>>

IsNext(k) == k \in page /\ \A e \in page \ {k} : Before(k, e)

(* The request is sent before the transaction that records its answer.     *)
Ask ==
  /\ phase = "resolve" /\ answer = None
  /\ \E k \in page :
       /\ IsNext(k)
       /\ answer' = CASE service = "down" -> "upstream_error"
                      [] service = "garbled" -> "parse_error"
                      [] OTHER -> IF k[2] \in known THEN "ok" ELSE "not_found"
  /\ UNCHANGED <<worldVars, occurrences, resolution, phase, retry, cursor, page, faults>>

RecordAnswer ==
  /\ answer # None
  /\ \E k \in page :
       /\ IsNext(k)
       /\ resolution' = [resolution EXCEPT ![k].status = answer]
       /\ page' = page \ {k}
  /\ answer' = None
  /\ UNCHANGED <<worldVars, occurrences, phase, retry, cursor, faults>>

Crash ==
  /\ phase # "idle" /\ faults < MaxFaults
  /\ faults' = faults + 1
  /\ phase' = "idle" /\ retry' = FALSE /\ cursor' = None /\ page' = {} /\ answer' = None
  /\ UNCHANGED <<worldVars, occurrences, resolution>>

----------------------------------------------------------------------------

CommandStep ==
  ReadDecisions \/ RecordVisa \/ Finalize \/ ReadPending \/ Ask \/ RecordAnswer

Next ==
  \/ \E d \in Decisions, v \in Visas : Archive(d, v)
  \/ \E state \in {"down", "garbled"} : Disturb(state)
  \/ Recover \/ BeginCollect
  \/ \E r \in BOOLEAN : BeginResolve(r)
  \/ CommandStep \/ Crash

Spec == Init /\ [][Next]_vars

TypeOK ==
  /\ responses \in Seq([decision : Decisions, visa : Visas])
  /\ occurrences \subseteq Entries /\ \A o \in occurrences : o.key # None
  /\ resolution \in [Keys -> Resolutions \union {None}]
  /\ known \subseteq Articles /\ service \in {"up", "down", "garbled"}
  /\ phase \in {"idle", "collect", "finalize", "resolve"} /\ retry \in BOOLEAN
  /\ answer \in Statuses \union {None} /\ faults \in 0..MaxFaults

(* An occurrence is never recorded without the resolution of its article   *)
(* in the corpus of its decision, and no resolution counts more than there *)
(* are: a death of collect leaves at most a count that is behind.          *)
OccurrencesAreResolvable ==
  /\ \A o \in occurrences : resolution[<<Corpus[o.decision], o.key>>] # None
  /\ \A k \in Keys : resolution[k] # None => resolution[k].count <= Count(k)

(* What Legifrance answered about an article is kept: collecting it again, *)
(* from another decision or another wording, never makes it pending again, *)
(* and no later command asks for it once more.                             *)
AnswersAreKept ==
  [][\A k \in Keys : resolution[k] # None /\ resolution[k].status \in {"ok", "not_found"}
       => resolution'[k] # None /\ resolution'[k].status = resolution[k].status]_vars

(* Once no response is added and the faults are over, commands that are    *)
(* repeated record every article the latest responses cite, learn of each  *)
(* what Legifrance has, and make every count exact.                        *)
CitationsSettle ==
  <>[](/\ \A d \in Decisions : Latest(d) # None =>
            \A i \in 1..Len(responses[Latest(d)].visa) :
              LET key == Parse(responses[Latest(d)].visa[i])
              IN  key # None => resolution[<<Corpus[d], key>>] # None
       /\ \A k \in Keys : resolution[k] # None =>
            /\ resolution[k].status = IF k[2] \in known THEN "ok" ELSE "not_found"
            /\ resolution[k].count = Count(k))
=============================================================================

----------------------------- MODULE Enrichment -----------------------------
(***************************************************************************)
(* Official zones of the decisions: enrich_zones asks the Judilibre API    *)
(* for each candidate decision, a page at a time on several workers, and   *)
(* caches what it learnt, with a lifetime, in decision_zones;              *)
(* build_zone_units then derives the retrieval units of the fresh rows.    *)
(* fetch --part --online runs the same enrichment for one decision.  The   *)
(* API may be down, its content changes, and a run may die anywhere.       *)
(* The bounds a caller may set (--limit, --since, --rebuild) are those of  *)
(* the producer's own runs: none.                                          *)
(***************************************************************************)
EXTENDS Integers, Sequences, FiniteSets, FiniteSetsExt, SequencesExt

CONSTANTS NumDocs,      \* decisions, in document_id order
          Nameless,     \* decisions without a parser-valid pourvoi
          PageSize,     \* ENRICH_ZONES_PAGE_SIZE, BUILD_ZONE_UNITS_PAGE_SIZE
          NumWorkers,   \* --concurrency
          MaxEdits,     \* bound: changes of the official content
          MaxFaults,    \* bound: outages, lost workers and deaths of the run
          None

Documents == 1..NumDocs
Workers == 1..NumWorkers

(* A decision_zones row: text_hash identifies the content; a row written   *)
(* before the hash was introduced has none.                                *)
RowType == [status : {"ok", "invalid_offsets", "not_found", "upstream_error", "unsupported"},
            hash : 0..MaxEdits \cup {None}, fresh : BOOLEAN]

BoundsAssumption ==
  /\ NumDocs \in Nat /\ Nameless \subseteq Documents
  /\ PageSize \in Nat \ {0} /\ NumWorkers \in Nat \ {0}
  /\ MaxEdits \in Nat /\ MaxFaults \in Nat
NoneAssumption == None \notin Documents \cup RowType \cup 0..MaxEdits

VARIABLES upstream,     \* decision -> [kind, rev] the API would answer
          service,      \* "up" or "down"
          row,          \* decision -> its decision_zones row, or None
          units,        \* decision -> text_hash its zone_units carry, or None
          phase,        \* "idle", "enrich", "online", "derive"
          order,        \* "oldest" or "recent": direction of the enrich scan
          cursor,       \* last document of the page before, or None
          considered,   \* decisions the pass went through
          slice,        \* worker -> decisions it still has to resolve
          stage,        \* worker -> where it is with the first of them
          answer,       \* worker -> the row it is about to cache
          page,         \* derivable rows read by the derive pass, oldest first
          edits, faults

workVars == <<slice, stage, answer>>
passVars == <<order, cursor, considered>>
vars == <<upstream, service, row, units, phase, passVars, workVars, page,
          edits, faults>>

Row(status, hash) == [status |-> status, hash |-> hash, fresh |-> TRUE]
Content(kind, rev) == [kind |-> kind, rev |-> rev]
Kinds == {"absent", "zones", "misfit"}

Resting ==
  /\ slice = [w \in Workers |-> <<>>]
  /\ stage = [w \in Workers |-> "search"]
  /\ answer = [w \in Workers |-> None]

Init ==
  /\ upstream = [d \in Documents |-> Content(IF d \in Nameless THEN "absent" ELSE "zones", 0)]
  /\ service = "up"
  /\ row \in [Documents -> {None, Row("ok", None)}]
  /\ \A d \in Nameless : row[d] = None
  /\ units = [d \in Documents |-> None]
  /\ phase = "idle" /\ order = "oldest" /\ cursor = None /\ considered = 0
  /\ Resting /\ page = <<>>
  /\ edits = 0 /\ faults = 0

----------------------------------------------------------------------------
(* The world: a decision is published, revised or withdrawn, or its zones  *)
(* do not fit its text; the API goes down and comes back; a lifetime ends. *)
(* Zones live for 30 days, longer than a run; an error lives for an hour.  *)

Edit(d, kind) ==
  /\ edits < MaxEdits
  /\ edits' = edits + 1
  /\ upstream' = [upstream EXCEPT ![d] = Content(kind, edits + 1)]
  /\ UNCHANGED <<service, row, units, phase, passVars, workVars, page, faults>>

GoDown ==
  /\ service = "up" /\ faults < MaxFaults
  /\ service' = "down" /\ faults' = faults + 1
  /\ UNCHANGED <<upstream, row, units, phase, passVars, workVars, page, edits>>

ComeBack ==
  /\ service = "down" /\ service' = "up"
  /\ UNCHANGED <<upstream, row, units, phase, passVars, workVars, page, edits,
                 faults>>

Expire(d) ==
  /\ row[d] # None /\ row[d].fresh
  /\ row[d].status # "upstream_error" => phase = "idle"
  /\ row' = [row EXCEPT ![d].fresh = FALSE]
  /\ UNCHANGED <<upstream, service, units, phase, passVars, workVars, page,
                 edits, faults>>

----------------------------------------------------------------------------
(* Fault: an answer whose lifetime is over is not asked for again.         *)
Candidates_FreshOnly == {d \in Documents \ Nameless : row[d] = None \/ row[d].hash = None}

(* Decisions without a fresh answer, or whose zones have no text yet.      *)
Candidates ==
  {d \in Documents \ Nameless :
     \/ row[d] = None \/ ~row[d].fresh
     \/ row[d].status \in {"ok", "invalid_offsets"} /\ row[d].hash = None}

(* A decision whose fresh row has no units, or units of other content.     *)
Derivable(d) ==
  /\ row[d] # None /\ row[d].fresh /\ row[d].status = "ok" /\ row[d].hash # None
  /\ units[d] # row[d].hash
  /\ d \notin Nameless

Before(a, b) == IF order = "oldest" THEN a < b ELSE a > b

(* A page of a set: distinct ones of it, in order, and none after them is  *)
(* left out.                                                               *)
IsPage(s, set) ==
  /\ \A i, j \in DOMAIN s : i < j => Before(s[i], s[j])
  /\ \A d \in set : (\E i \in DOMAIN s : s[i] = d) \/ (\A i \in DOMAIN s : Before(s[i], d))
PageOf(set) ==
  CHOOSE s \in [1..Min({PageSize, Cardinality(set)}) -> set] : IsPage(s, set)

(* Fault: each page starts from the first candidate.                       *)
NextPage_NoCursor(set) == PageOf(set)

(* Paging by key: the candidates beyond the cursor, at most a page of them.*)
NextPage(set) == PageOf({d \in set : cursor = None \/ Before(cursor, d)})

(* Entry index of the page goes to worker index % workers.                 *)
Deal(docs) ==
  LET crew == Min({NumWorkers, Len(docs)})
      Share(w) == (Len(docs) - w) \div crew + 1
  IN  [w \in Workers |-> IF w > crew THEN <<>>
                         ELSE [k \in 1..Share(w) |-> docs[w + (k - 1) * crew]]]

----------------------------------------------------------------------------
(* Enrichment of a source, within a producer run.  Without credentials, or *)
(* with --skip-enrich, the run goes straight to the derivation.            *)

Begin(direction, enrich) ==
  /\ phase = "idle"
  /\ phase' = IF enrich THEN "enrich" ELSE "derive"
  /\ order' = IF enrich THEN direction ELSE "oldest"
  /\ cursor' = None /\ considered' = 0
  /\ UNCHANGED <<upstream, service, row, units, workVars, page, edits, faults>>

AllResting == \A w \in Workers : slice[w] = <<>>

ReadCandidates ==
  /\ phase = "enrich" /\ AllResting
  /\ LET docs == NextPage(Candidates)
     IN  IF docs = <<>>
         THEN /\ phase' = "derive" /\ order' = "oldest" /\ cursor' = None
              /\ considered' = 0 /\ UNCHANGED workVars
         ELSE /\ slice' = Deal(docs) /\ cursor' = Last(docs)
              /\ considered' = considered + Len(docs)
              /\ UNCHANGED <<phase, order, stage, answer>>
  /\ UNCHANGED <<upstream, service, row, units, page, edits, faults>>

(* fetch --part --online for a decision without a fresh row.               *)
FetchOnline(d) ==
  /\ phase = "idle"
  /\ row[d] # None => ~row[d].fresh
  /\ phase' = "online"
  /\ slice' = [slice EXCEPT ![1] = <<d>>]
  /\ UNCHANGED <<upstream, service, row, units, passVars, stage, answer, page,
                 edits, faults>>

FinishOnline ==
  /\ phase = "online" /\ AllResting
  /\ phase' = "idle"
  /\ UNCHANGED <<upstream, service, row, units, passVars, workVars, page, edits,
                 faults>>

----------------------------------------------------------------------------
(* A worker, with the first decision of its slice.                         *)

(* Fault: the units of the row that is replaced stay.                      *)
Upsert_KeepsUnits(d, r) == row' = [row EXCEPT ![d] = r] /\ UNCHANGED units

(* An upsert of a row that units cannot be derived from deletes the units  *)
(* in the same transaction.                                                *)
Upsert(d, r) ==
  /\ row' = [row EXCEPT ![d] = r]
  /\ units' = [units EXCEPT ![d] = IF r.status = "ok" /\ r.hash # None THEN @ ELSE None]

(* Without a pourvoi nothing is asked.                                     *)
Unsupported(w, d) ==
  /\ d \in Nameless
  /\ Upsert(d, Row("unsupported", None))
  /\ slice' = [slice EXCEPT ![w] = Tail(@)]
  /\ UNCHANGED <<stage, answer>>

(* The exchange fails once the client's retries are used up; a decision    *)
(* matches by number and date; its zones are valid if one fragment fits    *)
(* the text, and text_hash covers the text, the zones and the update date. *)
ExchangeFails == service = "down"
Matches(d) == upstream[d].kind # "absent"
ZonesRow(d) == Row(IF upstream[d].kind = "zones" THEN "ok" ELSE "invalid_offsets",
                   upstream[d].rev)

(* An exchange also leaves its row in the append-only archive of official  *)
(* responses, which nothing here reads.                                    *)
SearchExchange(w, d) ==
  /\ d \notin Nameless /\ stage[w] = "search"
  /\ IF ~ExchangeFails /\ Matches(d)
     THEN stage' = [stage EXCEPT ![w] = "decision"] /\ UNCHANGED answer
     ELSE /\ stage' = [stage EXCEPT ![w] = "cache"]
          /\ answer' = [answer EXCEPT ![w] =
                          Row(IF ExchangeFails THEN "upstream_error" ELSE "not_found", None)]
  /\ UNCHANGED <<row, units, slice>>

DecisionExchange(w, d) ==
  /\ stage[w] = "decision"
  /\ answer' = [answer EXCEPT ![w] = IF ExchangeFails \/ ~Matches(d)
                                     THEN Row("upstream_error", None) ELSE ZonesRow(d)]
  /\ stage' = [stage EXCEPT ![w] = "cache"]
  /\ UNCHANGED <<row, units, slice>>

Cache(w, d) ==
  /\ stage[w] = "cache"
  /\ Upsert(d, answer[w])
  /\ stage' = [stage EXCEPT ![w] = "search"]
  /\ answer' = [answer EXCEPT ![w] = None]
  /\ slice' = [slice EXCEPT ![w] = Tail(@)]

Resolve(w) ==
  /\ slice[w] # <<>>
  /\ LET d == Head(slice[w])
     IN  Unsupported(w, d) \/ SearchExchange(w, d) \/ DecisionExchange(w, d) \/ Cache(w, d)
  /\ UNCHANGED <<upstream, service, phase, passVars, page, edits, faults>>

(* A worker that cannot connect or panics: its slice counts as errors.     *)
WorkerLost(w) ==
  /\ phase = "enrich" /\ slice[w] # <<>> /\ faults < MaxFaults
  /\ faults' = faults + 1
  /\ slice' = [slice EXCEPT ![w] = <<>>]
  /\ stage' = [stage EXCEPT ![w] = "search"]
  /\ answer' = [answer EXCEPT ![w] = None]
  /\ UNCHANGED <<upstream, service, row, units, phase, passVars, page, edits>>

----------------------------------------------------------------------------
(* build_zone_units: a page of derivable rows, then one transaction for    *)
(* each of its decisions, from the content the page was read with.         *)

ReadDerivable ==
  /\ phase = "derive" /\ page = <<>>
  /\ LET docs == NextPage({d \in Documents : Derivable(d)})
     IN  IF docs = <<>>
         THEN phase' = "idle" /\ cursor' = None /\ UNCHANGED page
         ELSE /\ page' = [i \in 1..Len(docs) |-> <<docs[i], row[docs[i]].hash>>]
              /\ cursor' = Last(docs) /\ UNCHANGED phase
  /\ UNCHANGED <<upstream, service, row, units, order, considered, workVars,
                 edits, faults>>

ReplaceUnits ==
  /\ phase = "derive" /\ page # <<>>
  /\ units' = [units EXCEPT ![Head(page)[1]] = Head(page)[2]]
  /\ page' = Tail(page)
  /\ UNCHANGED <<upstream, service, row, phase, passVars, workVars, edits, faults>>

(* The run dies.  What is not in a table is gone.                          *)
Crash ==
  /\ phase # "idle" /\ faults < MaxFaults
  /\ faults' = faults + 1
  /\ phase' = "idle" /\ page' = <<>>
  /\ order' = "oldest" /\ cursor' = None /\ considered' = 0
  /\ slice' = [w \in Workers |-> <<>>]
  /\ stage' = [w \in Workers |-> "search"]
  /\ answer' = [w \in Workers |-> None]
  /\ UNCHANGED <<upstream, service, row, units, edits>>

----------------------------------------------------------------------------

RunStep ==
  \/ ReadCandidates \/ FinishOnline \/ ReadDerivable \/ ReplaceUnits
  \/ \E w \in Workers : Resolve(w)

Next ==
  \/ \E d \in Documents, kind \in Kinds : Edit(d, kind)
  \/ GoDown \/ ComeBack
  \/ \E d \in Documents : Expire(d) \/ FetchOnline(d)
  \/ \E direction \in {"oldest", "recent"}, enrich \in BOOLEAN : Begin(direction, enrich)
  \/ RunStep
  \/ \E w \in Workers : WorkerLost(w)
  \/ Crash

Spec == Init /\ [][Next]_vars

TypeOK ==
  /\ upstream \in [Documents -> [kind : Kinds, rev : 0..MaxEdits]]
  /\ service \in {"up", "down"}
  /\ row \in [Documents -> RowType \cup {None}]
  /\ units \in [Documents -> 0..MaxEdits \cup {None}]
  /\ phase \in {"idle", "enrich", "online", "derive"} /\ order \in {"oldest", "recent"}
  /\ cursor \in Documents \cup {None} /\ considered \in 0..NumDocs
  /\ slice \in [Workers -> Seq(Documents)]
  /\ stage \in [Workers -> {"search", "decision", "cache"}]
  /\ answer \in [Workers -> RowType \cup {None}]
  /\ page \in Seq(Documents \X (0..MaxEdits))
  /\ edits \in 0..MaxEdits /\ faults \in 0..MaxFaults

(* Retrieval never serves zones the cache has invalidated: a decision has  *)
(* units only while its row is one they can be derived from, across        *)
(* refreshes that fail, content that changes and runs that die.            *)
UnitsNeedOfficialZones ==
  \A d \in Documents : units[d] # None => row[d] # None /\ row[d].status = "ok"
                                     /\ row[d].hash # None

(* A pass goes through a decision at most once, also when a worker is lost *)
(* and its decisions stay candidates, or an error expires under the pass:  *)
(* the counts it reports, and --limit, are about distinct decisions.       *)
ConsideredOnce == considered <= Cardinality(Documents \ Nameless)

ZonesAreSound == UnitsNeedOfficialZones /\ ConsideredOnce

(* Once the official content and the faults have settled, each run brings  *)
(* the units to the published zones and takes away those of a decision     *)
(* that has none: cached answers, also wrong ones, do not stay for ever.   *)
UnitsAreUpstreams ==
  \A d \in Documents \ Nameless :
    units[d] = IF upstream[d].kind = "zones" THEN upstream[d].rev ELSE None
UnitsFollowUpstream == <>[]UnitsAreUpstreams
=============================================================================

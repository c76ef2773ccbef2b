------------------------------ MODULE MCProducer ------------------------------
(***************************************************************************)
(* The work of the producer for TLC: the sizes of its parts, the fairness  *)
(* under which they run, and what must happen in the end.                  *)
(***************************************************************************)
EXTENDS ProducerSuite

CONSTANTS d1, d2, w1, w2, m1, m2   \* model values

MCBaselines == {1, 4}
MCDeltas == {2, 3, 5}
MCCarries == [a \in {1, 2, 3, 4, 5} |->
                CASE a \in {1, 4} -> {d1, d2} [] a = 3 -> {d2} [] OTHER -> {d1}]
MCUnparsable == {<<3, d2, 1>>, <<4, d1, 1>>}

(* Two decisions citing an article by its link, or in words that name it.  *)
Title(form, article) == [form |-> form, article |-> article]
MCVisas == {<<>>, <<Title("link", 1)>>, <<Title("words", 1), Title("other", 0), Title("link", 1)>>}
MCCorpus == <<1, 2>>

(* The fairness of each part is that of its module.  The part never        *)
(* changes, so strong fairness of a disjunction over the parts is strong   *)
(* fairness of the disjunct of the part that runs.  No timeout ends an     *)
(* answer of an official API that keeps coming in: an overdue one need not *)
(* end.                                                                    *)
SuiteFairness ==
  /\ WF_vars(part = "update" /\ RunStep)
  /\ WF_vars(part = "update" /\ Time)
  /\ WF_poolVars(part = "pool" /\ Pool!MainStep)
  /\ \A w \in PoolWorkers : WF_poolVars(part = "pool" /\ Pool!WorkerStep(w))
  /\ WF_zoneVars(part = "zones" /\ Zones!RunStep)
  /\ WF_zoneVars(part = "zones" /\ Zones!ComeBack)
  /\ WF_citationVars(part = "citations" /\ Cited!CommandStep)
  /\ WF_citationVars(part = "citations" /\ Cited!Recover)
  /\ WF_callVars(part = "api" /\ ~ Api!Overdue /\ Api!ApiStep)
  /\ WF_localVars(part = "local" /\ Local!CommandStep)
  /\ SF_suiteVars(\/ InUpdate /\ Begin("update")
                  \/ InZones /\ \E direction \in {"oldest", "recent"} : Zones!Begin(direction, TRUE)
                  \/ InCitations /\ Cited!BeginCollect
                  \/ InLocal /\ task = "none" /\ Local!Start("embed"))
  /\ SF_suiteVars(\/ InZones /\ Zones!Expire(1)
                  \/ InCitations /\ Cited!BeginResolve(TRUE)
                  \/ InLocal /\ Local!Query("search"))
  /\ SF_suiteVars(InZones /\ Zones!Expire(2))

FairSuite == SuiteSpec /\ SuiteFairness

-----------------------------------------------------------------------------
(* Runs that are repeated bring the source up to the publisher's listing,  *)
(* or stop where an operator has to act.                                   *)
UpdatesCatchUp == <>[](part = "update" => OperatorNeeded \/ CaughtUp)

(* A pass of the embedding pool ends, whichever worker failed.             *)
PoolFinishes == Pool!PassEnds

(* Zones and citations end up as the official sources have them, and no    *)
(* call lasts for ever but one whose answer does.                          *)
EnrichmentConverges ==
  /\ <>[](part = "zones" => Zones!UnitsAreUpstreams)
  /\ Cited!CitationsSettle
  /\ Api!ExchangesEnd

(* The local readiness gate lets a search through in the end.              *)
LocalIndexServes == Local!EventuallySearchable
=============================================================================

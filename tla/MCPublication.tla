---------------------------- MODULE MCPublication ----------------------------
(***************************************************************************)
(* What the producer never does, for TLC, one part of it per behaviour     *)
(* (variable part): the publication cycle that dies and is resumed, the    *)
(* update runs of a source, the projection of LEGI archives over several   *)
(* runs, the text of one record on its way to its chunks, and the official *)
(* zones of decisions.  The parts that do not run stay in one initial      *)
(* state.  Safety only: ProducerCycle_live.cfg and MCProducer check        *)
(* liveness, on smaller instances where a part is in both.                 *)
(***************************************************************************)
EXTENDS PublicationSuite, TLC

VARIABLES
  now, mirror, cursor, rejected, fetch, release, records, stored, journal, seeded, base, given, update,
  last, mishaps,
  upstream, service, row, units, phase, order, after, considered, slice, stage, answer, page, edits,
  losses

updateVars == <<now, mirror, cursor, rejected, fetch, release, records, stored, journal, seeded, base,
                given, update, last, mishaps>>
zoneVars == <<upstream, service, row, units, phase, order, after, considered, slice, stage, answer,
              page, edits, losses>>
inputVars == <<updateVars, zoneVars>>

(* One section in two versions, the second of them deeper; an article that *)
(* hangs under it, and its correction by a shorter text; another article,  *)
(* placed by the structure of its text alone.                              *)
Article(id, body_, path, links) ==
  [kind |-> "article", id |-> id, body |-> body_, path |-> path, from |-> 2, links |-> links]
Section(from, to, path) == [kind |-> "section", id |-> "S", from |-> from, to |-> to, path |-> path]
UnderS == {[uid |-> "S", debut |-> None]}
Node(tag, uid, level, title) ==
  [tag |-> tag, uid |-> uid, level |-> level, title |-> title, debut |-> None]
LegiMembers ==
  ("article" :> Article("A", <<"x", "y", "z">>, <<>>, UnderS)) @@
  ("corrected" :> Article("A", <<"x", "y">>, <<>>, UnderS)) @@
  ("old" :> Section(1, 3, <<"L", "T">>)) @@
  ("new" :> Section(3, None, <<"L", "P", "T">>)) @@
  ("listed" :> Article("B", <<"z">>, <<"L">>, {})) @@
  ("plan" :> [kind |-> "structure", id |-> "X",
              links |-> <<Node("section", "U", 1, "L"), Node("section", "S", 2, "P"),
                          Node("article", "B", None, None)>>])

(* A letter, a space, a word on each side of a space and a letter more;    *)
(* three characters to a chunk, so that a text has several.                *)
RecordPieces == {<<TRUE>>, <<FALSE>>, <<TRUE, FALSE, TRUE, TRUE>>}

(* Two baselines and three deltas over five instants; a member that only   *)
(* the second release can parse in a delta, and one in the new baseline.   *)
Source == INSTANCE SourceUpdate
  WITH Docs <- {"d1", "d2"}, Baselines <- {1, 4}, Deltas <- {2, 3, 5}, MaxTime <- 5, Keep <- 3,
       Carries <- <<{"d1", "d2"}, {"d1"}, {"d2"}, {"d1", "d2"}, {"d1"}>>,
       Unparsable <- {<<3, "d2", 1>>, <<4, "d1", 1>>}, MaxStale <- 2, MaxVersion <- 2, AutoAdopt <- TRUE,
       Orders <- {"update", "skip_fetch", "forced", "from_db", "accept_stale"},
       MaxFaults <- 1,
       member <- records, adopted <- base, served <- given, run <- update, faults <- mishaps

(* Two decisions with a name to look their zones up by, and one without.   *)
Zones == INSTANCE Enrichment
  WITH NumDocs <- 3, Nameless <- {3}, PageSize <- 1, NumWorkers <- 2, MaxEdits <- 1, MaxFaults <- 1,
       cursor <- after, faults <- losses

ASSUME Zones!BoundsAssumption /\ Zones!NoneAssumption

MCInit ==
  /\ SuiteInit /\ Source!Init /\ Zones!Init
  /\ part # "zones" => \A d \in Zones!Documents : row[d] = None
  /\ part # "record" => member = CHOOSE m \in Record!Members : TRUE

MCNext ==
  \/ SuiteNext /\ UNCHANGED inputVars
  \/ part = "update" /\ Source!Next /\ UNCHANGED <<suiteVars, zoneVars>>
  \/ part = "zones" /\ Zones!Next /\ UNCHANGED <<suiteVars, updateVars>>

MCSpec == MCInit /\ [][MCNext]_<<suiteVars, inputVars>>

-----------------------------------------------------------------------------
(* What the parts of an update and of the zones may hold.                  *)
InputTypesOK ==
  CASE part = "update" -> Source!TypeOK
    [] part = "zones"  -> Zones!TypeOK
    [] OTHER           -> TRUE

(* What a cycle publishes was come by soundly; each conjunct is stated,    *)
(* with the code it is about, in the module of the part.  The fetch        *)
(* cursor, the mirror, the journal of an update run and what is served     *)
(* agree, wherever a run stopped (MCProducer checks it for dry runs);      *)
(* units exist only under official zones, and a pass asks for a decision   *)
(* once.                                                                   *)
InputsAreSound ==
  /\ Source!MirrorAndJournalAgree
  /\ [](/\ InputTypesOK
        /\ part = "zones" => Zones!ZonesAreSound)
=============================================================================

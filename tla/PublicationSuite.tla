--------------------------- MODULE PublicationSuite ---------------------------
(***************************************************************************)
(* From the archives to what is served, one part of it per behaviour       *)
(* (variable part): the text of one record on its way to its chunks, the   *)
(* projection of LEGI archives over several runs of an update, and the     *)
(* publication cycle that dies and is resumed.  The parts that do not run  *)
(* stay in their initial state.                                            *)
(***************************************************************************)
EXTENDS ProducerCycle

CONSTANTS
  Parts,
  Articles, Words, Archived, Limit, MaxFaults,                       \* LegiProjection
  Pieces, ContextLengths, MaxChars, MaxEvents, MaxDepth              \* Chunking

VARIABLES part,
  published, recorded, consumed, document, edges, chunks, vectors, sections, structures, round, faults,
  member, stack, body, summary, summaries, events, status, pieces, read, separation

legiVars == <<published, recorded, consumed, document, edges, chunks, vectors, sections, structures,
              round, faults>>
recordVars == <<member, stack, body, summary, summaries, events, status, pieces, read, separation>>
suiteVars == <<vars, legiVars, recordVars, part>>

(* An instance of the module that proves the projection's theorems, so     *)
(* that they are theorems about the part.                                  *)
Projection == INSTANCE LegiProjection_proofs WITH Member <- Archived, run <- round

(* What is proved of a record is in PublicationSuite_proofs.                *)
Record == INSTANCE Chunking WITH chunks <- pieces, pending <- separation

ASSUME ProjectionAssumption ==
  Projection!MembersAssumption /\ Projection!BoundsAssumption /\ Projection!NoneAssumption

ASSUME RecordAssumption == Record!BoundsAssumption

SuiteInit == Init /\ Projection!Init /\ Record!Init /\ part \in Parts

InCycle == part = "cycle" /\ UNCHANGED <<part, legiVars, recordVars>>
InLegi == part = "legi" /\ UNCHANGED <<part, vars, recordVars>>
InRecord == part = "record" /\ UNCHANGED <<part, vars, legiVars>>

SuiteNext ==
  \/ InCycle /\ Next
  \/ InLegi /\ Projection!Next
  \/ InRecord /\ Record!Next

SuiteSpec == SuiteInit /\ [][SuiteNext]_suiteVars

-----------------------------------------------------------------------------
(* The properties, by theme; each is stated, with the code it is about, in *)
(* the module of the part.                                                 *)

(* What the variables of the parts may hold.                               *)
TypesOK == TypeOK /\ Projection!TypeOK /\ Record!TypeOK

(* The text of an article and its place in its code reach the index whole, *)
(* wherever earlier runs stopped; the text of a record survives its way to *)
(* its chunks whole, in chunks that fit, and no record stops the run of    *)
(* its archive.                                                            *)
ProjectionHolds ==
  /\ Projection!IndexCarriesTheText /\ Projection!HierarchySettles
  /\ Record!TextSurvives /\ Record!NeverAborts /\ Record!WithinBudget
=============================================================================

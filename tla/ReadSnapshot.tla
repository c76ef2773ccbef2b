---------------------------- MODULE ReadSnapshot ----------------------------
(***************************************************************************)
(* What a query of the site reads while packages are installed             *)
(* (jurisearch-storage/query.rs against generations.rs).  One request is   *)
(* one REPEATABLE READ transaction that resolves the active corpora once.  *)
(* Its statements read either a physical generation or, with more than one *)
(* corpus, the jurisearch_server views, which a switch replaces.           *)
(*                                                                         *)
(* PostgreSQL is modelled by what the code relies on: rows are read in the *)
(* snapshot of the transaction, names and view definitions as they are     *)
(* when the statement runs; a statement holds shared locks on its views    *)
(* and tables to the end of its transaction, replacing a view or dropping  *)
(* a schema needs them exclusively, and waiters are served in order.       *)
(***************************************************************************)
EXTENDS Naturals, Sequences

CONSTANTS
  Readers, Corpora, Generations,
  CorpusOf,    \* generation -> its corpus
  Views,       \* REPLICATED_TABLES: the order in which a switch replaces them
  Paths,       \* "generation" and "views": the read paths requests use
  MaxContent,  \* bound: states of the rows of generations
  None

LabelAssumption == CorpusOf \in [Generations -> Corpora]
BoundsAssumption == MaxContent \in Nat /\ Paths \subseteq {"generation", "views"}
ViewsAssumption == Views \in Seq({Views[i] : i \in DOMAIN Views})
NoneAssumption == None \notin Generations /\ None \notin 0..MaxContent

VARIABLES
  active,   \* corpus -> its live generation, or None (corpus_state)
  rows,     \* generation -> which rows it has, 0 before it is loaded, or None
  retired,  \* superseded generations
  switch,   \* the switch under way: its target and the views it has locked
  route,    \* reader -> the generations its request resolved, or None
  seen,     \* reader -> rows of every generation in its snapshot
  held,     \* reader -> views it has a shared lock on
  touched,  \* reader -> generations it has a shared lock on
  asks,     \* reader -> the view its statement waits for, or None
  opened,   \* reader -> what the site served when the request opened
  answer    \* reader -> path of its last statement, and the rows by corpus

site == <<active, rows, retired>>
request == <<route, seen, held, touched, asks, opened, answer>>
vars == <<active, rows, retired, switch, route, seen, held, touched, asks, opened,
          answer>>

Contents == {n \in 1..MaxContent : \A g \in Generations : rows[g] # n}
NextContent == CHOOSE n \in Contents : \A m \in Contents : n <= m

(* The rows the site serves, by corpus.                                    *)
Serves == [c \in Corpora |-> IF active[c] = None THEN 0 ELSE rows[active[c]]]

-----------------------------------------------------------------------------
(* The writers.                                                            *)

(* A media package is loaded, committed, before its switch begins.         *)
LoadGeneration(g) ==
  /\ rows[g] = 0 /\ g \notin retired
  /\ Contents # {}
  /\ rows' = [rows EXCEPT ![g] = NextContent]
  /\ UNCHANGED <<active, retired, switch, request>>

BeginSwitch(g) ==
  /\ switch = None
  /\ rows[g] # 0 /\ g \notin retired /\ active[CorpusOf[g]] # g
  /\ switch' = [gen |-> g, locked |-> 0, waits |-> FALSE]
  /\ UNCHANGED <<site, request>>

Locked(i) == switch # None /\ i <= switch.locked
Replacing == switch # None /\ switch.locked < Len(Views)
HeldByReader(i) == \E r \in Readers : Views[i] \in held[r]

(* rebuild_server_views: CREATE OR REPLACE VIEW, one after the other, each *)
(* behind the readers that have the view.                                  *)
QueueForView ==
  /\ Replacing /\ ~switch.waits
  /\ HeldByReader(switch.locked + 1)
  /\ switch' = [switch EXCEPT !.waits = TRUE]
  /\ UNCHANGED <<site, request>>

ReplaceView ==
  /\ Replacing
  /\ ~HeldByReader(switch.locked + 1)
  /\ switch' = [switch EXCEPT !.locked = @ + 1, !.waits = FALSE]
  /\ UNCHANGED <<site, request>>

(* Cursor, registry and views change in one transaction.                   *)
CommitSwitch ==
  /\ switch # None /\ switch.locked = Len(Views)
  /\ LET g == switch.gen
         c == CorpusOf[g]
     IN /\ active' = [active EXCEPT ![c] = g]
        /\ retired' = IF active[c] = None THEN retired ELSE retired \cup {active[c]}
  /\ switch' = None
  /\ UNCHANGED <<rows, request>>

(* Fault: no lock_timeout, the switch waits as long as a reader likes.     *)
LockTimeout_None ==
  /\ switch # None /\ ~switch.waits
  /\ switch' = None
  /\ UNCHANGED <<site, request>>

(* lock_timeout, the deadlock detector, an error: the switch rolls back.   *)
LockTimeout ==
  /\ switch # None
  /\ switch' = None
  /\ UNCHANGED <<site, request>>

(* An incremental package: one transaction on the rows of the live         *)
(* generation, under the same apply lock as a switch.                      *)
ApplyIncremental(c) ==
  /\ switch = None
  /\ active[c] # None
  /\ Contents # {}
  /\ rows' = [rows EXCEPT ![active[c]] = NextContent]
  /\ UNCHANGED <<active, retired, switch, request>>

(* Fault: the registry state is not looked at.                             *)
DropRetiredGeneration_Any(g) ==
  /\ rows[g] # None
  /\ \A r \in Readers : g \notin touched[r]
  /\ rows' = [rows EXCEPT ![g] = None]
  /\ UNCHANGED <<active, retired, switch, request>>

(* drop_retired_generation waits for the readers of the generation.        *)
DropRetiredGeneration(g) ==
  /\ g \in retired /\ rows[g] # None
  /\ \A r \in Readers : g \notin touched[r]
  /\ rows' = [rows EXCEPT ![g] = None]
  /\ UNCHANGED <<active, retired, switch, request>>

-----------------------------------------------------------------------------
(* The readers.                                                            *)

(* LocalSnapshot::open: the query that resolves the corpora is the first   *)
(* of the transaction and fixes its snapshot.                              *)
Open(r) ==
  /\ route[r] = None
  /\ route' = [route EXCEPT ![r] = active]
  /\ seen' = [seen EXCEPT ![r] = rows]
  /\ opened' = [opened EXCEPT ![r] = Serves]
  /\ UNCHANGED <<site, switch, held, touched, asks, answer>>

(* Fault: READ COMMITTED, each statement has a snapshot of its own.        *)
Visible_EachStatement(r, g) == rows[g]

(* The rows of g in the snapshot; a generation loaded later is empty.      *)
Visible(r, g) == seen[r][g]

Routed(r) == {c \in Corpora : route[r][c] # None}
Idle(r) == route[r] # None /\ asks[r] = None

End(r) ==
  /\ route' = [route EXCEPT ![r] = None]
  /\ seen' = [seen EXCEPT ![r] = None]
  /\ held' = [held EXCEPT ![r] = {}]
  /\ touched' = [touched EXCEPT ![r] = {}]
  /\ asks' = [asks EXCEPT ![r] = None]
  /\ opened' = [opened EXCEPT ![r] = None]
  /\ answer' = [answer EXCEPT ![r] = None]
  /\ UNCHANGED <<site, switch>>

(* read_text_for_corpus, and read_text with a single corpus: the physical  *)
(* generation that was resolved.                                           *)
ReadGeneration(r, c) ==
  /\ "generation" \in Paths
  /\ Idle(r) /\ c \in Routed(r)
  /\ rows[route[r][c]] # None
  /\ answer' = [answer EXCEPT ![r] =
       [path |-> "generation", rows |-> [d \in {c} |-> Visible(r, route[r][c])]]]
  /\ touched' = [touched EXCEPT ![r] = @ \cup {route[r][c]}]
  /\ UNCHANGED <<site, switch, route, seen, held, asks, opened>>

(* The resolved generation has been dropped: the statement fails.          *)
ReadDropped(r, c) ==
  /\ "generation" \in Paths
  /\ Idle(r) /\ c \in Routed(r)
  /\ rows[route[r][c]] = None
  /\ End(r)

(* read_text with several corpora: the statement asks for a view ...       *)
AskView(r, i) ==
  /\ "views" \in Paths
  /\ Idle(r) /\ Routed(r) = Corpora
  /\ asks' = [asks EXCEPT ![r] = Views[i]]
  /\ answer' = [answer EXCEPT ![r] = None]
  /\ UNCHANGED <<site, switch, route, seen, held, touched, opened>>

Granted(r) ==
  \E i \in 1..Len(Views) :
    /\ Views[i] = asks[r]
    /\ ~Locked(i)
    /\ Replacing /\ switch.waits /\ i = switch.locked + 1 => asks[r] \in held[r]

(* ... and, when it has it, reads the generations the view selects now.    *)
ReadView(r) ==
  /\ asks[r] # None
  /\ Granted(r)
  /\ answer' = [answer EXCEPT ![r] =
       [path |-> "views", rows |-> [c \in Corpora |-> Visible(r, active[c])]]]
  /\ held' = [held EXCEPT ![r] = @ \cup {asks[r]}]
  /\ touched' = [touched EXCEPT ![r] = @ \cup {active[c] : c \in Corpora}]
  /\ asks' = [asks EXCEPT ![r] = None]
  /\ UNCHANGED <<site, switch, route, seen, opened>>

(* The request is answered and rolls back, or fails, or its deadlock with  *)
(* a switch is resolved against it.                                        *)
Close(r) == route[r] # None /\ End(r)

Init ==
  /\ active = [c \in Corpora |-> None]
  /\ rows = [g \in Generations |-> 0]
  /\ retired = {} /\ switch = None
  /\ route = [r \in Readers |-> None]
  /\ seen = [r \in Readers |-> None]
  /\ held = [r \in Readers |-> {}]
  /\ touched = [r \in Readers |-> {}]
  /\ asks = [r \in Readers |-> None]
  /\ opened = [r \in Readers |-> None]
  /\ answer = [r \in Readers |-> None]

Next ==
  \/ \E g \in Generations :
       LoadGeneration(g) \/ BeginSwitch(g) \/ DropRetiredGeneration(g)
  \/ QueueForView \/ ReplaceView \/ CommitSwitch \/ LockTimeout
  \/ \E c \in Corpora : ApplyIncremental(c)
  \/ \E r \in Readers :
       \/ Open(r) \/ ReadView(r) \/ Close(r)
       \/ \E c \in Corpora : ReadGeneration(r, c) \/ ReadDropped(r, c)
       \/ \E i \in 1..Len(Views) : AskView(r, i)

(* A switch goes on or times out; a waiting statement that could have its  *)
(* lock again and again gets it.  A request need not ever end.             *)
Fairness ==
  /\ WF_vars(QueueForView \/ ReplaceView) /\ WF_vars(CommitSwitch)
  /\ WF_vars(Replacing /\ switch.waits /\ LockTimeout)
  /\ \A r \in Readers : SF_vars(ReadView(r))

Spec == Init /\ [][Next]_vars
FairSpec == Spec /\ Fairness

-----------------------------------------------------------------------------
(* Properties.                                                             *)

Rows == 0..MaxContent \cup {None}

(* The types of the variables.                                             *)
TypeOK ==
  /\ active \in [Corpora -> Generations \cup {None}]
  /\ rows \in [Generations -> Rows]
  /\ retired \subseteq Generations
  /\ switch \in {None} \cup [gen : Generations, locked : 0..Len(Views),
                          waits : BOOLEAN]
  /\ route \in [Readers -> {None} \cup [Corpora -> Generations \cup {None}]]
  /\ seen \in [Readers -> {None} \cup [Generations -> Rows]]
  /\ \A r \in Readers : held[r] \subseteq {Views[i] : i \in DOMAIN Views}
  /\ touched \in [Readers -> SUBSET Generations]
  /\ \A r \in Readers : asks[r] # None => route[r] # None
  /\ \A c \in Corpora : active[c] # None => rows[active[c]] \in Nat \ {0}

(* One request, one topology: whatever is installed, switched or dropped   *)
(* meanwhile, a statement that is answered returns the rows the site       *)
(* served when the request opened ...                                      *)
AsOpened(r) ==
  \A c \in DOMAIN answer[r].rows : answer[r].rows[c] = opened[r][c]

(* ... when it reads the generations the request resolved,                 *)
RoutedTopology ==
  \A r \in Readers :
    answer[r] # None /\ answer[r].path = "generation" => AsOpened(r)

(* ... and, as query.rs promises of every request, by whatever path.       *)
OneTopology == \A r \in Readers : answer[r] # None => AsOpened(r)

(* A statement that waits for a view is answered in the end.  The switch   *)
(* ahead of it may be waiting for views of that very request, or of one    *)
(* that never ends: it gives up by its lock timeout.                       *)
WaitersAreServed == \A r \in Readers : []<>(asks[r] = None)
=============================================================================

----------------------------- MODULE FetchEngine -----------------------------
(***************************************************************************)
(* How the archives of one DILA source reach the producer's mirror         *)
(* (jurisearch-fetch: engine.rs, cursor.rs, integrity.rs, listing.rs).  An *)
(* archive is the instant of its timestamp; DILA publishes it then and     *)
(* lists a delta for Keep instants.  A fetch downloads what the listing    *)
(* has and the cursor file has not, oldest first.  An archive enters the   *)
(* mirror once its bytes are verified, by a rename; the cursor is saved    *)
(* once, when the fetch ends.  The actions are composed by SourceUpdate.   *)
(***************************************************************************)
EXTENDS Naturals, FiniteSets, FiniteSetsExt

CONSTANTS
  Baselines, Deltas,   \* the instants of the archives DILA publishes
  MaxTime,             \* bound: the last instant of the timeline
  Keep                 \* instants a delta stays in the listing

Archives == Baselines \cup Deltas
Newest(S) == IF S = {} THEN 0 ELSE Max(S)

VARIABLES
  now,        \* the instant
  mirror,     \* archives_dir/<source>: accepted archives
  cursor,     \* fetch-cursor-<source>.json: archives recorded as fetched
  rejected,   \* archives of which a download was quarantined (history)
  fetch       \* the fetch under way: archives to do, the cursor in memory

fetchVars == <<now, mirror, cursor, rejected, fetch>>

NotFetching == [busy |-> FALSE, todo |-> {}, mem |-> {}]

FetchTypeOK ==
  /\ now \in 0..MaxTime
  /\ mirror \subseteq Archives /\ cursor \subseteq Archives /\ rejected \subseteq Archives
  /\ fetch \in [busy : BOOLEAN, todo : SUBSET Archives, mem : SUBSET Archives]
  /\ fetch.busy \/ fetch = NotFetching

FetchInit ==
  /\ now = 0
  /\ mirror = {} /\ cursor = {} /\ rejected = {}
  /\ fetch = NotFetching

(* The directory listing: the newest baseline, and the deltas DILA keeps.  *)
Listing ==
  {a \in Deltas : a <= now /\ now - a < Keep}
    \cup {b \in Baselines : b <= now /\ \A c \in Baselines : c <= now => c <= b}

(* The fetched baseline of the cursor: record keeps the newest.            *)
FetchedBaseline == Newest(cursor \cap Baselines)

Tick ==
  /\ now < MaxTime
  /\ now' = now + 1
  /\ UNCHANGED <<mirror, cursor, rejected, fetch>>

(* plan: list, and leave out what the cursor has.                          *)
StartFetch ==
  /\ ~fetch.busy
  /\ fetch' = [busy |-> TRUE, todo |-> Listing \ cursor, mem |-> cursor]
  /\ UNCHANGED <<now, mirror, cursor, rejected>>

(* fetch_one: the part file is verified, renamed into the mirror, and only *)
(* then recorded, in memory.                                               *)
Download ==
  /\ fetch.todo # {}
  /\ LET a == Min(fetch.todo)
     IN /\ mirror' = mirror \cup {a}
        /\ fetch' = [fetch EXCEPT !.todo = @ \ {a}, !.mem = @ \cup {a}]
  /\ UNCHANGED <<now, cursor, rejected>>

(* Fault: an archive is recorded before it is verified.                    *)
Quarantine_Recorded ==
  /\ fetch.todo # {}
  /\ LET a == Min(fetch.todo)
     IN /\ rejected' = rejected \cup {a}
        /\ fetch' = [fetch EXCEPT !.todo = @ \ {a}, !.mem = @ \cup {a}]
  /\ UNCHANGED <<now, mirror, cursor>>

(* The bytes fail the integrity check: set aside, and the fetch goes on.   *)
Quarantine ==
  /\ fetch.todo # {}
  /\ LET a == Min(fetch.todo)
     IN /\ rejected' = rejected \cup {a}
        /\ fetch' = [fetch EXCEPT !.todo = @ \ {a}]
  /\ UNCHANGED <<now, mirror, cursor>>

(* Fault: the rest of the list survives a hard error.                      *)
SaveCursor_LeavesList ==
  /\ fetch.busy
  /\ cursor' = fetch.mem
  /\ fetch' = [fetch EXCEPT !.busy = FALSE, !.mem = {}]
  /\ UNCHANGED <<now, mirror, rejected>>

(* cursor.save, at the end of the list and also after a hard error.        *)
SaveCursor ==
  /\ fetch.busy
  /\ cursor' = fetch.mem
  /\ fetch' = NotFetching
  /\ UNCHANGED <<now, mirror, rejected>>

(* The process dies: what was promoted stays, what was noted is gone.      *)
AbandonFetch ==
  /\ fetch' = NotFetching
  /\ UNCHANGED <<now, mirror, cursor, rejected>>

-----------------------------------------------------------------------------
(* What the cursor says is fetched is an accepted archive of the mirror,   *)
(* wherever a fetch stops: a name in the cursor is never downloaded again  *)
(* (FetchCursor::record only after verify_targz, rename before record).    *)
CursorIsMirrored == cursor \cup fetch.mem \subseteq mirror
=============================================================================

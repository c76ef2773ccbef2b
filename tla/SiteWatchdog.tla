---------------------------- MODULE SiteWatchdog ----------------------------
(***************************************************************************)
(* jurisearchctl site watchdog beside the producer, the sync daemon and a   *)
(* clock: a run reads the verified head, then the cursor, then the time the *)
(* cursor advanced, on reads of their own, and tells a cursor that is stuck *)
(* from a feed that has nothing new.                                       *)
(***************************************************************************)
EXTENDS Naturals

CONSTANTS Corpora,      \* sync.corpora
          MaxSeq,       \* bound: packages published for one corpus
          Threshold,    \* the stall window, in ticks of the clock
          MaxAway,      \* bound: times a daemon is stopped or the feed replaced
          None

BoundsAssumption == MaxSeq \in Nat /\ Threshold \in Nat /\ MaxAway \in Nat

VARIABLES head,         \* corpus -> head of the verified manifest, 0 for none
          cursor,       \* corpus -> applied sequence, 0 when not installed
          age,          \* corpus -> ticks since the cursor advanced
          legible,      \* applied_at is printed in a form that parses
          daemon,       \* the sync daemon applies
          watch,        \* the watchdog's run
          verdict,      \* corpus -> last verdict
          away

watchdogVars == <<head, cursor, age, legible, daemon, watch, verdict, away>>

IdleWatch == [step |-> "idle", corpus |-> None, head |-> 0, applied |-> 0]
Alerts == {"stalled_cursor", "ahead_of_head"}

Init ==
  /\ head = [c \in Corpora |-> 0]
  /\ cursor = [c \in Corpora |-> 0]
  /\ age = [c \in Corpora |-> 0]
  /\ legible \in BOOLEAN
  /\ daemon = TRUE
  /\ watch = IdleWatch
  /\ verdict = [c \in Corpora |-> "none"]
  /\ away = 0

----------------------------------------------------------------------------
(* The surroundings: the producer, the daemon and the clock.               *)

Publish(c) ==
  /\ head[c] < MaxSeq
  /\ head' = [head EXCEPT ![c] = @ + 1]
  /\ UNCHANGED <<cursor, age, legible, daemon, watch, verdict, away>>

Apply(c) ==
  /\ daemon
  /\ cursor[c] < head[c]
  /\ cursor' = [cursor EXCEPT ![c] = @ + 1]
  /\ age' = [age EXCEPT ![c] = 0]
  /\ UNCHANGED <<head, legible, daemon, watch, verdict, away>>

DaemonStops ==
  /\ daemon
  /\ away < MaxAway
  /\ away' = away + 1
  /\ daemon' = FALSE
  /\ UNCHANGED <<head, cursor, age, legible, watch, verdict>>

DaemonStarts ==
  /\ ~daemon
  /\ daemon' = TRUE
  /\ UNCHANGED <<head, cursor, age, legible, watch, verdict, away>>

(* source_root is pointed at another environment, whose head is lower.     *)
FeedReplaced(c) ==
  /\ away < MaxAway
  /\ away' = away + 1
  /\ head[c] > 1
  /\ head' = [head EXCEPT ![c] = @ - 1]
  /\ UNCHANGED <<cursor, age, legible, daemon, watch, verdict>>

(* A tick is long beside a run of the watchdog.                            *)
Tick ==
  /\ watch = IdleWatch
  /\ \E c \in Corpora : age[c] < Threshold
  /\ age' = [c \in Corpora |-> IF age[c] < Threshold THEN age[c] + 1 ELSE age[c]]
  /\ UNCHANGED <<head, cursor, legible, daemon, watch, verdict, away>>

----------------------------------------------------------------------------
(* classify_watchdog: at the head is healthy whatever the age; behind is a *)
(* catch-up only when the age is known and within the window.              *)

(* Fault: behind at an unknown age counts as catching up.                  *)
ClassifyWatchdog_TrustsUnknownAge(applied, produced, since) ==
  CASE applied = 0 -> "no_active_corpus"
    [] applied = produced -> "no_new_packages"
    [] applied > produced -> "ahead_of_head"
    [] OTHER -> IF since = None \/ since < Threshold THEN "catching_up" ELSE "stalled_cursor"

(* Fault: an old cursor is stalled, also at the head.                      *)
ClassifyWatchdog_AgeFirst(applied, produced, since) ==
  CASE applied = 0 -> "no_active_corpus"
    [] since = None \/ since >= Threshold -> "stalled_cursor"
    [] applied > produced -> "ahead_of_head"
    [] applied = produced -> "no_new_packages"
    [] OTHER -> "catching_up"

ClassifyWatchdog(applied, produced, since) ==
  CASE applied = 0 -> "no_active_corpus"
    [] applied = produced -> "no_new_packages"
    [] applied > produced -> "ahead_of_head"
    [] OTHER -> IF since # None /\ since < Threshold THEN "catching_up" ELSE "stalled_cursor"

(* The trust anchors and the signed manifest; an unreadable or missing one *)
(* ends the run with an error and leaves no verdict.                       *)
ReadHead(c) ==
  /\ watch = IdleWatch
  /\ head[c] > 0
  /\ watch' = [step |-> "cursor", corpus |-> c, head |-> head[c], applied |-> 0]
  /\ UNCHANGED <<head, cursor, age, legible, daemon, verdict, away>>

ReadCursor ==
  /\ watch.step = "cursor"
  /\ watch' = [watch EXCEPT !.step = "age", !.applied = cursor[watch.corpus]]
  /\ UNCHANGED <<head, cursor, age, legible, daemon, verdict, away>>

(* corpus_status has a row, and applied_at in it, once a corpus is active. *)
CursorAge(c) == IF legible /\ cursor[c] > 0 THEN age[c] ELSE None

ReadAge ==
  /\ watch.step = "age"
  /\ verdict' = [verdict EXCEPT ![watch.corpus] =
                   ClassifyWatchdog(watch.applied, watch.head, CursorAge(watch.corpus))]
  /\ watch' = IdleWatch
  /\ UNCHANGED <<head, cursor, age, legible, daemon, away>>

Next ==
  \/ \E c \in Corpora : Publish(c) \/ Apply(c) \/ FeedReplaced(c) \/ ReadHead(c)
  \/ DaemonStops \/ DaemonStarts \/ Tick \/ ReadCursor \/ ReadAge

(* A timer runs the watchdog over every corpus, and time passes between    *)
(* its runs; nothing is asked of the daemon, which is what is watched.     *)
SafetySpec == Init /\ [][Next]_watchdogVars

Spec ==
  /\ SafetySpec
  /\ WF_watchdogVars(ReadCursor \/ ReadAge)
  /\ SF_watchdogVars(Tick)
  /\ \A c \in Corpora : SF_watchdogVars(ReadHead(c))

----------------------------------------------------------------------------
Verdicts == Alerts \cup {"none", "no_active_corpus", "no_new_packages", "catching_up"}
Runs ==
  [step : {"idle", "cursor", "age"}, corpus : Corpora \cup {None}, head : 0..MaxSeq, applied : 0..MaxSeq]

TypeOK ==
  /\ head \in [Corpora -> 0..MaxSeq] /\ cursor \in [Corpora -> 0..MaxSeq]
  /\ age \in [Corpora -> 0..Threshold]
  /\ legible \in BOOLEAN /\ daemon \in BOOLEAN
  /\ watch \in Runs /\ (watch.step # "idle" => watch.corpus \in Corpora)
  /\ verdict \in [Corpora -> Verdicts]
  /\ away \in 0..MaxAway

(* The watchdog ends by telling the two apart (watchdog.rs:10): a cursor    *)
(* that stays behind the verified head is alerted, with a legible time or  *)
(* without, and one that stays at the head is not, whatever raced the      *)
(* reads of the runs before.                                               *)
TellsStuckFromQuiet ==
  \A c \in Corpora :
    /\ <>[](cursor[c] > 0 /\ cursor[c] < head[c]) => <>[](verdict[c] = "stalled_cursor")
    /\ <>[](cursor[c] > 0 /\ cursor[c] = head[c]) => <>[](verdict[c] = "no_new_packages")

(* What watchdog.rs:16 says of an alert that the cursor is ahead: the site *)
(* is on another feed.  The head is read before the cursor, so a package   *)
(* published and applied between the two reads raises it as well.          *)
AheadMeansOtherFeed ==
  [][\A c \in Corpora :
       verdict'[c] = "ahead_of_head" /\ verdict[c] # "ahead_of_head" =>
         cursor[c] > head[c]]_watchdogVars
=============================================================================

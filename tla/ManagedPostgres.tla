--------------------------- MODULE ManagedPostgres ---------------------------
(***************************************************************************)
(* The PostgreSQL server a local index manages for itself.  Each command   *)
(* that opens the index locks it, initialises the data directory once,     *)
(* writes the configuration of its profile, takes the directory back from  *)
(* a server that an earlier command left behind, starts its own server,    *)
(* migrates the schema, and stops the server when it is done.  Commands    *)
(* overlap, are killed at any point, and the machine may lose power.       *)
(***************************************************************************)
EXTENDS Integers, FiniteSets

CONSTANTS Commands,     \* processes that open the index
          Binary,       \* command -> CURRENT_SCHEMA_VERSION of its binary
          MaxFaults,    \* bound: kills, power losses, failed calls
          None

BoundsAssumption == Binary \in [Commands -> Nat] /\ MaxFaults \in Nat

VARIABLES lock,         \* command holding jurisearch-storage.lock, or None
          data,         \* data directory: "none", "torn" (initdb cut short), "ready"
          conf,         \* jurisearch.conf: profile and memory setting
          override,     \* JURISEARCH_PG_*: "unset", "fits" or "absurd"
          server,       \* running postmaster: [by, conf], or None
          pidfile,      \* postmaster.pid: "none", "live", or "stale", left by a server that is gone
          holder,       \* process that has the pid in a stale pidfile by now, or None
          database,     \* the jurisearch database exists
          sync,         \* its synchronous_commit: "on" or "off"
          applied,      \* schema versions 1..applied are in schema_migrations
          advisory,     \* command whose session holds the advisory lock, or None
          stage,        \* command -> where its open or close is
          profile,      \* command -> profile it opened the index with
          faults

diskVars == <<data, conf, override, database, sync, applied>>
serverVars == <<server, pidfile, holder, advisory>>
vars == <<lock, diskVars, serverVars, stage, profile, faults>>

Profiles == {"Durable", "BulkIngest"}
Settings == [profile : Profiles, memory : {"default", "override", "absurd"}]
Servers == [by : Commands, conf : Settings]
(* What a recycled pid may belong to: another PostgreSQL server of the      *)
(* same user; a process of that user which names postgres and outlives an  *)
(* interrupt, as a session of another server does; a process of another    *)
(* user which names postgres; a process which does not.                    *)
Holders == {"server", "session", "elsewhere", "process"}

Stages == {"idle", "locked", "initialised", "configured", "reclaimed", "started",
           "created", "profiled", "advised", "serving", "stopping", "failing"}

NoneAssumption == None \notin Commands \union Holders /\ None \notin Servers

Init ==
  /\ lock = None /\ data = "none"
  /\ conf = [profile |-> "Durable", memory |-> "default"]
  /\ override \in {"unset", "fits", "absurd"}
  /\ server = None /\ pidfile = "none" /\ holder = None /\ advisory = None
  /\ database = FALSE /\ sync = "on" /\ applied = 0
  /\ stage = [c \in Commands |-> "idle"]
  /\ profile = [c \in Commands |-> "Durable"]
  /\ faults = 0

Goto(c, s) == stage' = [stage EXCEPT ![c] = s]

----------------------------------------------------------------------------
(* start_durable_with_profile.                                             *)

(* A command that finds the lock taken gives up: StorageLockBusy.          *)
Open(c, p) ==
  /\ stage[c] = "idle" /\ lock = None
  /\ lock' = c /\ profile' = [profile EXCEPT ![c] = p] /\ Goto(c, "locked")
  /\ UNCHANGED <<diskVars, serverVars, faults>>

(* initdb runs unless PG_VERSION, which it writes first, is there.         *)
Initialise(c) ==
  /\ stage[c] = "locked"
  /\ data' = IF data = "none" THEN "ready" ELSE data
  /\ Goto(c, "initialised")
  /\ UNCHANGED <<lock, conf, override, database, sync, applied, serverVars, profile, faults>>

(* Fault: an override is written into the configuration as it is.          *)
Memory_Verbatim == IF override = "unset" THEN "default" ELSE override

(* An override that PostgreSQL would refuse falls back to the default.     *)
Memory == IF override = "fits" THEN "override" ELSE "default"

WriteConf(c) ==
  /\ stage[c] = "initialised" /\ data = "ready"
  /\ conf' = [profile |-> profile[c], memory |-> Memory]
  /\ Goto(c, "configured")
  /\ UNCHANGED <<lock, data, override, database, sync, applied, serverVars, profile, faults>>

(* Fault: a pidfile without a server stays.                                *)
Reclaim_StopsOnly(c) ==
  /\ stage[c] = "configured"
  /\ IF pidfile = "live" THEN server' = None /\ pidfile' = "none" /\ advisory' = None
     ELSE UNCHANGED <<server, pidfile, advisory>>
  /\ holder' = IF holder = "server" THEN None ELSE holder
  /\ Goto(c, "reclaimed")
  /\ UNCHANGED <<lock, diskVars, profile, faults>>

(* What still runs under the pid once it was asked to stop, and names      *)
(* postgres: an interrupt does not end it, or could not be sent to it.     *)
PostmasterAlive == holder \in {"session", "elsewhere"}

(* pg_ctl asks whatever process the pidfile names to stop, before anybody  *)
(* looks whose it is: the server of this directory, and just as well a     *)
(* server of the same user that got the pid of one which is gone.  The     *)
(* pidfile goes, unless a process that names postgres still runs.          *)
Reclaim(c) ==
  /\ stage[c] = "configured"
  /\ IF PostmasterAlive THEN UNCHANGED serverVars
     ELSE server' = None /\ pidfile' = "none" /\ holder' = None /\ advisory' = None
  /\ Goto(c, "reclaimed")
  /\ UNCHANGED <<lock, diskVars, profile, faults>>

(* A server that does not stop within the 20 seconds keeps its pidfile.    *)
ReclaimTimesOut(c) ==
  /\ stage[c] = "configured" /\ faults < MaxFaults
  /\ pidfile = "live" \/ holder = "server"
  /\ faults' = faults + 1
  /\ Goto(c, "reclaimed")
  /\ UNCHANGED <<lock, diskVars, serverVars, profile>>

(* PostgreSQL starts over a pidfile unless its pid is that of a process of *)
(* the same user.                                                          *)
CanStart ==
  /\ conf.memory # "absurd"
  /\ pidfile = "none" \/ (pidfile = "stale" /\ holder \in {None, "elsewhere"})

StartServer(c) ==
  /\ stage[c] = "reclaimed" /\ CanStart
  /\ server' = [by |-> c, conf |-> conf] /\ pidfile' = "live" /\ holder' = None
  /\ Goto(c, "started")
  /\ UNCHANGED <<lock, diskVars, advisory, profile, faults>>

EnsureDatabase(c) ==
  /\ stage[c] = "started"
  /\ database' = TRUE
  /\ Goto(c, "created")
  /\ UNCHANGED <<lock, data, conf, override, sync, applied, serverVars, profile, faults>>

(* Fault: a durable command does not take the setting back.                *)
ApplyProfile_BulkOnly(c) ==
  /\ stage[c] = "created"
  /\ sync' = IF profile[c] = "BulkIngest" THEN "off" ELSE sync
  /\ Goto(c, "profiled")
  /\ UNCHANGED <<lock, data, conf, override, database, applied, serverVars, profile, faults>>

(* The setting lives in the database: it outlasts the bulk run that made it*)
ApplyProfile(c) ==
  /\ stage[c] = "created"
  /\ sync' = IF profile[c] = "BulkIngest" THEN "off" ELSE "on"
  /\ Goto(c, "profiled")
  /\ UNCHANGED <<lock, data, conf, override, database, applied, serverVars, profile, faults>>

TakeAdvisoryLock(c) ==
  /\ stage[c] = "profiled" /\ advisory = None
  /\ advisory' = c
  /\ Goto(c, "advised")
  /\ UNCHANGED <<lock, diskVars, server, pidfile, holder, profile, faults>>

(* Each migration is a transaction with its row in schema_migrations; a    *)
(* schema newer than the binary is refused before anything is touched.     *)
Migrate(c) ==
  /\ stage[c] = "advised"
  /\ IF applied < Binary[c]
     THEN applied' = applied + 1 /\ UNCHANGED stage
     ELSE /\ Goto(c, IF applied > Binary[c] THEN "stopping" ELSE "serving")
          /\ UNCHANGED applied
  /\ UNCHANGED <<lock, data, conf, override, database, sync, serverVars, profile, faults>>

----------------------------------------------------------------------------
(* Leaving.  Until the ManagedPostgres value exists a failing step only    *)
(* releases the lock; afterwards its drop also stops the server.           *)

FailEarly(c) ==
  /\ \/ stage[c] = "initialised" /\ data = "torn"
     \/ stage[c] = "reclaimed" /\ ~CanStart
     \/ stage[c] = "profiled" /\ advisory # None
  /\ Goto(c, IF stage[c] = "profiled" THEN "stopping" ELSE "failing")
  /\ UNCHANGED <<lock, diskVars, serverVars, profile, faults>>

(* initdb, the start (a port that was taken meanwhile) or a psql call fail.*)
CallFails(c) ==
  /\ stage[c] \in {"reclaimed", "started", "created", "advised"} /\ faults < MaxFaults
  /\ faults' = faults + 1
  /\ Goto(c, IF stage[c] = "advised" THEN "stopping" ELSE "failing")
  /\ UNCHANGED <<lock, diskVars, serverVars, profile>>

Close(c) ==
  /\ stage[c] = "serving"
  /\ Goto(c, "stopping")
  /\ UNCHANGED <<lock, diskVars, serverVars, profile, faults>>

(* Fault: the lock is released before the server stops.                    *)
Stop_AfterUnlock(c) ==
  /\ stage[c] = "stopping"
  /\ IF lock = c THEN lock' = None /\ UNCHANGED <<serverVars, stage>>
     ELSE /\ server' = None /\ advisory' = None
          /\ pidfile' = IF pidfile = "live" THEN "none" ELSE pidfile
          /\ Goto(c, "idle") /\ UNCHANGED <<lock, holder>>
  /\ UNCHANGED <<diskVars, profile, faults>>

(* The drop releases the advisory lock and stops the server, whichever     *)
(* runs in the directory, and only then the lock file.                     *)
Stop(c) ==
  /\ stage[c] = "stopping"
  /\ server' = None /\ advisory' = None
  /\ pidfile' = IF pidfile = "live" THEN "none" ELSE pidfile
  /\ Goto(c, "failing")
  /\ UNCHANGED <<lock, diskVars, holder, profile, faults>>

Unlock(c) ==
  /\ stage[c] = "failing"
  /\ lock' = None /\ Goto(c, "idle")
  /\ UNCHANGED <<diskVars, serverVars, profile, faults>>

(* A killed command: the kernel releases its lock and ends its sessions,   *)
(* the server it started goes on; an initdb it was running may be torn.    *)
Kill(c) ==
  /\ stage[c] # "idle" /\ faults < MaxFaults
  /\ faults' = faults + 1
  /\ lock' = IF lock = c THEN None ELSE lock
  /\ advisory' = IF advisory = c THEN None ELSE advisory
  /\ data' \in {data} \union (IF stage[c] = "locked" /\ data = "none" THEN {"torn"} ELSE {})
  /\ Goto(c, "idle")
  /\ UNCHANGED <<conf, override, database, sync, applied, server, pidfile, holder, profile>>

(* After the restart any process may have the pid the pidfile names.       *)
PowerLoss ==
  /\ faults < MaxFaults /\ pidfile # "none"
  /\ faults' = faults + 1
  /\ lock' = None /\ advisory' = None /\ server' = None
  /\ pidfile' = "stale" /\ holder' \in Holders \union {None}
  /\ stage' = [c \in Commands |-> "idle"]
  /\ UNCHANGED <<diskVars, profile>>

HolderEnds ==
  /\ holder # None /\ holder' = None
  /\ UNCHANGED <<lock, diskVars, server, pidfile, advisory, stage, profile, faults>>

----------------------------------------------------------------------------

Step(c) ==
  \/ Initialise(c) \/ WriteConf(c) \/ Reclaim(c) \/ StartServer(c) \/ EnsureDatabase(c)
  \/ ApplyProfile(c) \/ TakeAdvisoryLock(c) \/ Migrate(c)
  \/ FailEarly(c) \/ Stop(c) \/ Unlock(c)

Next ==
  \/ \E c \in Commands : \/ \E p \in Profiles : Open(c, p)
                         \/ Step(c) \/ Close(c) \/ ReclaimTimesOut(c) \/ CallFails(c) \/ Kill(c)
  \/ PowerLoss \/ HolderEnds

Spec == Init /\ [][Next]_vars

TypeOK ==
  /\ lock \in Commands \union {None} /\ advisory \in Commands \union {None}
  /\ data \in {"none", "torn", "ready"}
  /\ conf \in Settings /\ override \in {"unset", "fits", "absurd"}
  /\ server \in Servers \union {None}
  /\ pidfile \in {"none", "live", "stale"} /\ holder \in Holders \union {None}
  /\ database \in BOOLEAN /\ sync \in {"on", "off"} /\ applied \in Nat
  /\ stage \in [Commands -> Stages] /\ profile \in [Commands -> Profiles]
  /\ faults \in 0..MaxFaults

(* A command that serves has the index for itself: the server that runs is *)
(* the one it started, with the durability of its own profile (a bulk run  *)
(* that was killed does not leave asynchronous commits to the next durable *)
(* one) and the schema of its own binary; no other command's end stops it. *)
ServesItsOwnServer ==
  \A c \in Commands : stage[c] = "serving" =>
    /\ lock = c /\ advisory = c /\ database
    /\ server # None /\ server.by = c /\ server.conf.profile = profile[c]
    /\ (sync = "off") = (profile[c] = "BulkIngest")
    /\ applied = Binary[c]

(* Whatever was left behind, a stale pidfile, a server of a killed command *)
(* or an override PostgreSQL refuses, the index opens again, unless initdb *)
(* was cut short (that directory is never initialised again) or the pid of *)
(* the server that is gone now belongs to a process of the same user that  *)
(* names postgres and does not end.                                        *)
Opens == data = "torn" \/ holder = "session" \/ \E c \in Commands : stage[c] = "serving"
OpensAgain == []<>Opens
=============================================================================

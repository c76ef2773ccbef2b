--------------------------- MODULE SchemaUpgrade ----------------------------
(***************************************************************************)
(* A producer and its sites are moved to new releases, each in its own     *)
(* time: the binaries are replaced, the databases migrated one version at  *)
(* a time, the PostgreSQL server upgraded, while packages are built with   *)
(* the stamps of one side and applied under the gates of the other         *)
(* (jurisearch-storage/migrations.rs and generations.rs, jurisearch-       *)
(* package-build, jurisearch-syncd/planner.rs and apply.rs).  A release is *)
(* named by the schema version it is built for.  Nothing but the gates     *)
(* keeps a migration and an apply of one site apart.                       *)
(***************************************************************************)
EXTENDS Naturals, Sequences, FiniteSets

CONSTANTS
  Clients,     \* sites
  Producer,    \* the host that builds the packages
  Releases,    \* the releases, by their CURRENT_SCHEMA_VERSION
  Privileged,  \* hosts whose admin role may create extensions
  MaxSeq,      \* bound: packages of the feed
  MaxFaults,   \* bound: crashes of an apply, extensions lost
  None

ReleasesAssumption == Releases \subseteq Nat \ {0} /\ Releases # {} /\ IsFiniteSet(Releases)
HostsAssumption == Producer \notin Clients /\ Privileged \subseteq Clients \cup {Producer}
BoundsAssumption == MaxSeq \in Nat /\ MaxFaults \in Nat
NoneAssumption == None \notin Nat

Hosts == Clients \cup {Producer}
First == CHOOSE r \in Releases : \A q \in Releases : r <= q
Latest == CHOOSE r \in Releases : \A q \in Releases : q <= r
Majors == {1, 2}

VARIABLES
  binary,      \* host -> the installed release
  applied,     \* host -> max(version) of schema_migrations, 0 without a schema
  extensions,  \* host -> are vector and pg_search installed in its database
  major,       \* host -> major version of its PostgreSQL server
  daemon,      \* client -> the release the running syncd was started from
  feed,        \* the published packages, by sequence
  cursor,      \* client -> sequence of its corpus, 0 when not installed
  stamped,     \* client -> schema_version of corpus_state
  shape,       \* client -> the schema its active generation was cloned from
  job,         \* client -> the sequence it has passed the gates for, or None
  building,    \* client -> the schema the building generation was cloned from
  faults

upgradeVars == <<binary, applied, extensions, major, daemon, feed, cursor, stamped,
                 shape, job, building, faults>>
host == <<binary, applied, extensions, major>>
site == <<cursor, stamped, shape, job, building>>

Init ==
  /\ binary = [h \in Hosts |-> First]
  /\ applied = [h \in Hosts |-> 0]
  /\ extensions = [h \in Hosts |-> FALSE]
  /\ major = [h \in Hosts |-> 1]
  /\ daemon = [c \in Clients |-> First]
  /\ feed = <<>>
  /\ cursor = [c \in Clients |-> 0]
  /\ stamped = [c \in Clients |-> 0]
  /\ shape = [c \in Clients |-> 0]
  /\ job = [c \in Clients |-> None]
  /\ building = [c \in Clients |-> None]
  /\ faults = 0

-----------------------------------------------------------------------------
(* Operators of a host.                                                    *)

InstallRelease(h, r) ==
  /\ r > binary[h]
  /\ binary' = [binary EXCEPT ![h] = r]
  /\ UNCHANGED <<applied, extensions, major, daemon, feed, site, faults>>

UpgradeServer(h) ==
  /\ major[h] + 1 \in Majors
  /\ major' = [major EXCEPT ![h] = @ + 1]
  /\ UNCHANGED <<binary, applied, extensions, daemon, feed, site, faults>>

(* The statement ExtensionPrivilege asks the DBA to run.                   *)
DbaInstallsExtensions(h) ==
  /\ ~ extensions[h]
  /\ extensions' = [extensions EXCEPT ![h] = TRUE]
  /\ UNCHANGED <<binary, applied, major, daemon, feed, site, faults>>

(* A database that is already migrated is repaired in a step of its own,   *)
(* unless it is ahead of the binary.                                       *)
EnsureRequiredExtensions(h) ==
  /\ applied[h] \in 1 .. binary[h]
  /\ ~ extensions[h] /\ h \in Privileged
  /\ extensions' = [extensions EXCEPT ![h] = TRUE]
  /\ UNCHANGED <<binary, applied, major, daemon, feed, site, faults>>

(* One migration of run_migrations_on, in a transaction of its own, which  *)
(* also creates the extensions when it is the first.                       *)
RunMigration(h) ==
  /\ applied[h] < binary[h]
  /\ extensions[h] \/ (applied[h] = 0 /\ h \in Privileged)
  /\ applied' = [applied EXCEPT ![h] = @ + 1]
  /\ extensions' = [extensions EXCEPT ![h] = TRUE]
  /\ UNCHANGED <<binary, major, daemon, feed, site, faults>>

Restart(c) ==
  /\ daemon[c] # binary[c]
  /\ daemon' = [daemon EXCEPT ![c] = binary[c]]
  /\ job' = [job EXCEPT ![c] = None]
  /\ building' = [building EXCEPT ![c] = None]
  /\ UNCHANGED <<host, feed, cursor, stamped, shape, faults>>

-----------------------------------------------------------------------------
(* The producer.  A package carries the schema of the binary that built it *)
(* and the migrations of the database it was built from.                   *)

Package(kind, minimum) ==
  [kind |-> kind, schema |-> binary[Producer], bundle |-> applied[Producer],
   major |-> major[Producer], minimum |-> minimum]

(* ensure_provisioned                                                      *)
Provisioned == applied[Producer] > 0

(* bootstrap_preflight                                                     *)
Preflight == applied[Producer] = binary[Producer]

Publish(kind, minimum) ==
  /\ Len(feed) < MaxSeq
  /\ minimum <= binary[Producer]
  /\ feed' = Append(feed, Package(kind, minimum))
  /\ UNCHANGED <<host, daemon, site, faults>>

FirstBaseline(minimum) ==
  /\ Provisioned /\ feed = <<>> /\ Preflight
  /\ Publish("baseline", minimum)

(* Fault: an incremental crosses a schema boundary.                        *)
SameSchema_Unchecked == TRUE

(* build_incremental_inner: against the last package of the catalog.       *)
SameSchema == binary[Producer] = feed[Len(feed)].schema

Incremental(minimum) ==
  /\ Provisioned /\ feed # <<>> /\ SameSchema
  /\ Publish("incremental", minimum)

(* Only the rebaseline from the database runs the preflight.               *)
Rebaseline(fromDb, minimum) ==
  /\ Provisioned /\ feed # <<>>
  /\ fromDb => Preflight
  /\ Publish("rebaseline", minimum)

-----------------------------------------------------------------------------
(* A cycle of a site.                                                      *)

Root == CHOOSE s \in DOMAIN feed :
          /\ feed[s].kind # "incremental"
          /\ \A t \in DOMAIN feed : t > s => feed[t].kind = "incremental"

Understood(c, s) == feed[s].minimum <= daemon[c] /\ feed[s].schema <= daemon[c]

(* plan_catchup: the sequences to apply, none when there is nothing to do  *)
(* or the plan is blocked.                                                 *)
Planned(c) ==
  LET chain == cursor[c] + 1 .. Len(feed)
      root == {s \in {Root} : Understood(c, s)}
  IN IF cursor[c] = 0 THEN root
     ELSE IF \E s \in chain : feed[s].kind # "incremental" THEN root
     ELSE IF \A s \in chain : Understood(c, s) THEN chain
     ELSE {}

(* check_schema_compatibility                                              *)
SchemaAgrees(c, p) ==
  /\ applied[c] <= daemon[c]
  /\ p.schema = applied[c]
  /\ p.bundle = applied[c]

(* check_client_version, check_extensions and, for the binary files of a   *)
(* baseline, check_copy_binary_guard.                                      *)
Gates(c, p) ==
  /\ p.minimum <= daemon[c]
  /\ SchemaAgrees(c, p)
  /\ extensions[c]
  /\ p.kind # "incremental" => major[c] = p.major

Plan(c) ==
  /\ job[c] = None /\ feed # <<>>
  /\ \E s \in Planned(c) :
       /\ \A t \in Planned(c) : s <= t
       /\ Gates(c, feed[s])
       /\ job' = [job EXCEPT ![c] = s]
  /\ UNCHANGED <<host, daemon, feed, cursor, stamped, shape, building, faults>>

(* create_generation_load_tables: tables like those of public by now.      *)
CloneTables(c) ==
  /\ job[c] # None /\ building[c] = None
  /\ feed[job[c]].kind # "incremental"
  /\ building' = [building EXCEPT ![c] = applied[c]]
  /\ UNCHANGED <<host, daemon, feed, cursor, stamped, shape, job, faults>>

Leave(c) ==
  /\ job' = [job EXCEPT ![c] = None]
  /\ building' = [building EXCEPT ![c] = None]

(* Fault: the digests are taken over the columns of the package.           *)
Reproduces_ItsColumns(tables, p) == TRUE

(* validate_postconditions: whole rows are digested, so tables with other  *)
(* columns than the producer's have another digest.  Every migration is    *)
(* taken to change a replicated table.                                     *)
Reproduces(tables, p) == tables = p.bundle

Activate(c) ==
  /\ building[c] # None
  /\ LET p == feed[job[c]] IN
       IF Reproduces(building[c], p)
       THEN /\ cursor' = [cursor EXCEPT ![c] = job[c]]
            /\ stamped' = [stamped EXCEPT ![c] = p.schema]
            /\ shape' = [shape EXCEPT ![c] = building[c]]
       ELSE UNCHANGED <<cursor, stamped, shape>>
  /\ Leave(c)
  /\ UNCHANGED <<host, daemon, feed, faults>>

(* apply_incremental: the columns are those of public, the tables those of *)
(* the generation; the stamp of the cursor has to be the package's.        *)
ApplyIncremental(c) ==
  /\ job[c] # None /\ feed[job[c]].kind = "incremental"
  /\ LET p == feed[job[c]] IN
       IF /\ cursor[c] + 1 = job[c] /\ p.schema = stamped[c]
          /\ applied[c] = shape[c] /\ Reproduces(shape[c], p)
       THEN cursor' = [cursor EXCEPT ![c] = job[c]]
       ELSE UNCHANGED cursor
  /\ Leave(c)
  /\ UNCHANGED <<host, daemon, feed, stamped, shape, faults>>

-----------------------------------------------------------------------------
(* Faults.                                                                 *)

ApplyDies(c) ==
  /\ faults < MaxFaults /\ job[c] # None
  /\ Leave(c)
  /\ faults' = faults + 1
  /\ UNCHANGED <<host, daemon, feed, cursor, stamped, shape>>

ExtensionsLost(h) ==
  /\ faults < MaxFaults /\ extensions[h]
  /\ extensions' = [extensions EXCEPT ![h] = FALSE]
  /\ faults' = faults + 1
  /\ UNCHANGED <<binary, applied, major, daemon, feed, site>>

-----------------------------------------------------------------------------
Operate(h) ==
  \/ \E r \in Releases : InstallRelease(h, r)
  \/ UpgradeServer(h) \/ DbaInstallsExtensions(h)
  \/ EnsureRequiredExtensions(h) \/ RunMigration(h)

Build(minimum) ==
  \/ FirstBaseline(minimum) \/ Incremental(minimum)
  \/ \E fromDb \in BOOLEAN : Rebaseline(fromDb, minimum)

Cycle(c) == Plan(c) \/ CloneTables(c) \/ Activate(c) \/ ApplyIncremental(c)

Next ==
  \/ \E h \in Hosts : Operate(h) \/ ExtensionsLost(h)
  \/ \E minimum \in Releases : Build(minimum)
  \/ \E c \in Clients : Restart(c) \/ Cycle(c) \/ ApplyDies(c)

(* Every host is brought to the latest release in the end, every daemon    *)
(* restarted on it, and the daemon goes on polling.  Nothing is assumed of *)
(* when the producer builds.                                               *)
Upgrading ==
  \E h \in Hosts :
    \/ InstallRelease(h, Latest) \/ UpgradeServer(h) \/ RunMigration(h)
    \/ EnsureRequiredExtensions(h) \/ (h \notin Privileged /\ DbaInstallsExtensions(h))

SafetySpec == Init /\ [][Next]_upgradeVars

Fairness ==
  /\ WF_upgradeVars(Upgrading)
  /\ \A c \in Clients : WF_upgradeVars(Restart(c)) /\ WF_upgradeVars(Cycle(c))

Spec == SafetySpec /\ Fairness

-----------------------------------------------------------------------------
Packages ==
  [kind : {"baseline", "incremental", "rebaseline"}, schema : Releases, bundle : 0 .. Latest,
   major : Majors, minimum : Releases]

TypeOK ==
  /\ binary \in [Hosts -> Releases] /\ daemon \in [Clients -> Releases]
  /\ applied \in [Hosts -> 0 .. Latest] /\ \A h \in Hosts : applied[h] <= binary[h]
  /\ extensions \in [Hosts -> BOOLEAN] /\ major \in [Hosts -> Majors]
  /\ feed \in Seq(Packages) /\ \A s \in DOMAIN feed : feed[s].kind = "baseline" <=> s = 1
  /\ cursor \in [Clients -> 0 .. Len(feed)] /\ job \in [Clients -> DOMAIN feed \cup {None}]
  /\ stamped \in [Clients -> 0 .. Latest] /\ shape \in [Clients -> 0 .. Latest]
  /\ building \in [Clients -> 0 .. Latest \cup {None}]
  /\ faults \in 0 .. MaxFaults

(* The tables of an installed corpus are of the schema its cursor is       *)
(* stamped with, and so are the packages applied to it: the gates look at  *)
(* the schema before the apply, and a migration that runs between them and *)
(* the cloning of the tables is caught by the digests of the rows.         *)
ShapeIsStamped ==
  \A c \in Clients :
    cursor[c] > 0 =>
      /\ shape[c] = stamped[c]
      /\ feed[cursor[c]].schema = stamped[c]

(* When the feed ends in packages of the latest release that were built    *)
(* from a migrated database of the server version the sites have, then     *)
(* every site ends at its head, in whatever order binaries, databases,     *)
(* servers and daemons were upgraded on either side.                       *)
FeedIsSound ==
  /\ feed # <<>>
  /\ feed[Len(feed)].schema = Latest
  /\ \A s \in Root .. Len(feed) : feed[s].bundle = feed[s].schema
  /\ \A c \in Clients : feed[Root].major = major[c]

SitesFollow ==
  <>[]FeedIsSound => <>[](\A c \in Clients : cursor[c] = Len(feed))

(* The schema version of a package is "the storage schema_version the      *)
(* package was built against" (jurisearch-package/src/compat.rs:17).  It   *)
(* is not: a producer whose binary is newer than its database publishes a  *)
(* rebaseline no site can ever apply, for the number is the binary's and   *)
(* the bundle digest the database's.                                       *)
StampedAsBuilt == \A s \in DOMAIN feed : feed[s].schema = feed[s].bundle
=============================================================================

------------------------------- MODULE Roles -------------------------------
(***************************************************************************)
(* The least-privilege roles of a shared PostgreSQL                        *)
(* (jurisearch-storage/src/backend.rs, provision.rs): provisioning, run    *)
(* again and again by an administrator over whatever grants, memberships   *)
(* and owners it finds, and the activation of generations by the writer    *)
(* role, which hands each new schema to the read role and probes it.       *)
(*                                                                         *)
(* An object stands for the tables that are granted alike: "template" the  *)
(* replicated public tables, "account" the accounting tables of a site,    *)
(* "stamp" the four public tables given to the owner role, "control" the   *)
(* control and app schemas, "view" the stable views, "public" the schema   *)
(* itself, and one object for each generation schema.                      *)
(***************************************************************************)
EXTENDS Naturals, FiniteSets

CONSTANTS Generations,      \* the generation schemas that may be built
          MaxDrifts,        \* bound on the leftovers and upgrades of a run
          None              \* no generation, no owner

VARIABLES profile,      \* what the database is for, "site" or "producer"
          grants,       \* triples <<role, privilege, object>>
          members,      \* pairs <<member role, group role>>
          owners,       \* the owner of each object, None if it does not exist
          provisioned,  \* provisioning ran since the last leftover
          active,       \* the generation the stable views read
          drifts        \* leftovers so far

rolesVars == <<profile, grants, members, owners, provisioned, active, drifts>>

PublicTables == {"template", "account", "stamp"}
AppObjects   == PublicTables \cup {"control", "view", "public", "database"}
Objects      == AppObjects \cup Generations
Roles        == {"owner", "writer", "read", "rogue", "PUBLIC", "admin"}
Privileges   == {"select", "write", "create"}

BoundsAssumption == MaxDrifts \in Nat
NamesAssumption ==
  /\ Generations \cap AppObjects = {}
  /\ None \notin Roles \cup Generations

TypeOK ==
  /\ profile \in {"site", "producer"}
  /\ grants \subseteq Roles \X Privileges \X Objects
  /\ members \subseteq Roles \X Roles
  /\ owners \in [Objects -> Roles \cup {None}]
  /\ provisioned \in BOOLEAN
  /\ active \in Generations \cup {None}
  /\ drifts \in 0 .. MaxDrifts

(***************************************************************************)
(* PostgreSQL's own rules: a role acts as itself, as PUBLIC and, by        *)
(* inheritance or SET ROLE, as every role it is directly or indirectly a   *)
(* member of; a view reads with its owner's privileges.                    *)
(***************************************************************************)
Groups(r)    == {g \in Roles : <<r, g>> \in members}
ActsAs(r)    == {r, "PUBLIC"} \cup Groups(r) \cup UNION {Groups(g) : g \in Groups(r)}
Owns(r, o)   == owners[o] \in ActsAs(r)
Can(r, p, o) == r = "admin" \/ Owns(r, o) \/ \E g \in ActsAs(r) : <<g, p, o>> \in grants

ReadsThroughViews(r, generation) ==
  Can(r, "select", "view") /\ Can(owners["view"], "select", generation)

Init ==
  /\ profile \in {"site", "producer"}
  /\ grants = {<<"rogue", "write", "control">>}
  /\ members = {}
  /\ owners = [o \in Objects |-> IF o \in Generations THEN None ELSE "admin"]
  /\ provisioned = FALSE
  /\ active = None
  /\ drifts = 0

(***************************************************************************)
(* What an earlier deployment or an operator left behind: a grant of the   *)
(* kinds the comments of the provisioning list, or a membership of the     *)
(* read role. A read role that is a member of the writer is left out:      *)
(* there the GRANT of the read role to the writer closes a cycle and       *)
(* PostgreSQL refuses the whole batch.                                     *)
(***************************************************************************)
Leftover ==
  \/ \E o \in {"control", "template", "database"} :
       /\ grants' = grants \cup {<<"read", IF o = "database" THEN "create" ELSE "write", o>>}
       /\ UNCHANGED members
  \/ \E p \in {"select", "write"} :
       /\ grants' = grants \cup {<<"writer", p, "template">>}
       /\ UNCHANGED members
  \/ grants' = grants \cup {<<"PUBLIC", "create", "public">>} /\ UNCHANGED members
  \/ \E g \in {"rogue", "owner"} :
       /\ members' = members \cup {<<"read", g>>}
       /\ UNCHANGED grants

Drift ==
  /\ drifts < MaxDrifts
  /\ Leftover
  /\ provisioned' = FALSE
  /\ drifts' = drifts + 1
  /\ UNCHANGED <<profile, owners, active>>

\* A migration run by the administrator adds a stable view: nobody was granted it yet.
Migrate ==
  /\ drifts < MaxDrifts
  /\ owners' = [owners EXCEPT !["view"] = "admin"]
  /\ grants' = {g \in grants : g[3] # "view"}
  /\ provisioned' = FALSE
  /\ drifts' = drifts + 1
  /\ UNCHANGED <<profile, members, active>>

(* Fault: the converging revoke covers the generation schemas too.         *)
Revoked_EverySchema(g) ==
  \/ g[1] = "read"
  \/ g[1] = "writer" /\ g[3] \in PublicTables
  \/ g = <<"PUBLIC", "create", "public">>

(* Fault: provisioning only adds, and an over-privileged writer stays so.  *)
Revoked_ReadOnly(g) == g[1] = "read" /\ g[3] \in AppObjects

(***************************************************************************)
(* build_provision_sql, one implicit transaction: what is revoked, what is *)
(* granted, whose memberships are stripped, what changes owner.            *)
(***************************************************************************)
Revoked(g) ==
  \/ g[1] = "read" /\ g[3] \in AppObjects
  \/ g[1] = "writer" /\ g[3] \in PublicTables
  \/ g = <<"PUBLIC", "create", "public">>

ReadSurface == {<<"read", "select", o>> : o \in {"control", "stamp", "view"}}

WriterSurface ==
  {<<"writer", "create", "database">>}
    \cup {<<"writer", p, o>> : p \in {"select", "write"}, o \in {"control", "account", "stamp"}}
    \cup (IF profile = "site"
            THEN {<<"writer", "select", "template">>}
            ELSE {<<"writer", "select", "template">>, <<"writer", "write", "template">>,
                  <<"owner", "create", "public">>})

(* Fault: only memberships in the application's own roles are stripped.    *)
KeptMembers_OwnRoles == {m \in members : m[1] = "read" => m[2] = "rogue"}

KeptMembers == {m \in members : m[1] # "read"}

\* provision_external_db probes a producer: as the writer every write goes through, as the read role one is denied.
Probed ==
  /\ \A o \in PublicTables : Can("writer", "write", o)
  /\ \E o \in PublicTables : ~ Can("read", "write", o)

\* provision_roles on a site, provision_external_db for a producer.
Provision ==
  /\ grants' = {g \in grants : ~ Revoked(g)} \cup ReadSurface \cup WriterSurface
  /\ members' = KeptMembers \cup {<<"writer", "owner">>, <<"writer", "read">>}
  /\ owners' = [o \in Objects |-> IF o \in {"control", "view", "stamp"} THEN "owner" ELSE owners[o]]
  /\ UNCHANGED <<profile, active, drifts>>
  /\ provisioned' = (profile = "producer" => Probed)'

(***************************************************************************)
(* The writer builds a generation: a schema of its own, its tables cloned  *)
(* from the public templates.                                              *)
(***************************************************************************)
Build(g) ==
  /\ owners[g] = None
  /\ Can("writer", "create", "database") /\ Can("writer", "select", "template")
  /\ owners' = [owners EXCEPT ![g] = "writer"]
  /\ UNCHANGED <<profile, grants, members, provisioned, active, drifts>>

(* Fault: the owner of the views is not granted the new schema.            *)
Visibility_ReadOnly(g) == {<<"read", "select", g>>}

(* Fault: the read role is not granted the new schema itself.              *)
Visibility_OwnerOnly(g) == {<<"owner", "select", g>>}

Visibility(g) == {<<r, "select", g>> : r \in {"read", "owner"}}

(***************************************************************************)
(* The activation: grants, CREATE OR REPLACE of the views (their owner     *)
(* only), and the probe as the read role, which rolls all of it back.      *)
(***************************************************************************)
Activate(g) ==
  /\ owners[g] = "writer" /\ active # g
  /\ Owns("writer", "view") /\ Can("writer", "write", "control")
  /\ "read" \in ActsAs("writer")
  /\ grants' = grants \cup Visibility(g)
  /\ active' = g
  /\ UNCHANGED <<profile, members, owners, provisioned, drifts>>
  /\ (ReadsThroughViews("read", g) /\ Can("read", "select", g) /\ Can("read", "select", "control"))'

\* The cleanup of a retired generation drops its schema, and its grants with it.
Drop(g) ==
  /\ owners[g] # None /\ active \notin {g, None}
  /\ owners' = [owners EXCEPT ![g] = None]
  /\ grants' = {x \in grants : x[3] # g}
  /\ UNCHANGED <<profile, members, provisioned, active, drifts>>

Next ==
  \/ Drift
  \/ Migrate
  \/ Provision
  \/ \E g \in Generations : Build(g) \/ Activate(g) \/ Drop(g)

Spec == Init /\ [][Next]_rolesVars

-----------------------------------------------------------------------------
(***************************************************************************)
(* Once provisioned, whatever was there before, the read role has no way   *)
(* to write or create anywhere, a generation included, neither of its own  *)
(* nor through a role it can become, and a site's writer can neither write *)
(* the public working tables nor create objects beside them.               *)
(***************************************************************************)
LeastPrivilege ==
  provisioned =>
    /\ \A o \in Objects : ~ Can("read", "write", o) /\ ~ Can("read", "create", o)
    /\ profile = "site" => ~ Can("writer", "write", "template") /\ ~ Can("writer", "create", "public")

(***************************************************************************)
(* Provisioning a live site never blinds it: the active generation stays   *)
(* readable by the read role, directly and through the stable views.       *)
(***************************************************************************)
ActiveStaysReadable ==
  provisioned /\ active # None =>
    Can("read", "select", active) /\ ReadsThroughViews("read", active)

(***************************************************************************)
(* Whatever was left behind, a generation is activated in the end: the     *)
(* rights the writer needs are restored, and the probe passes.             *)
(***************************************************************************)
EventuallyVisible == <>[](active # None)
=============================================================================

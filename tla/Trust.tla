------------------------------- MODULE Trust -------------------------------
(***************************************************************************)
(* Whom a client trusts: the anchors and license tokens of its database    *)
(* (jurisearch-storage/src/trust.rs), the operator's bootstraps of them    *)
(* (jurisearch-deploy/src/ops/trust.rs), `syncd trust install-anchor`      *)
(* (jurisearch-syncd/src/main.rs), and the catch-up cycle that verifies    *)
(* what it applies with them (jurisearch-syncd/src/trust.rs).              *)
(*                                                                         *)
(* A key identity is its key id and epoch.  A document signed under it     *)
(* verifies when the material it was signed with is the anchor's; one that *)
(* was altered or signed by a stranger carries other material.             *)
(***************************************************************************)
EXTENDS Naturals, Sequences, FiniteSets

CONSTANTS PackageKeys,  \* key identities of the package purpose
          LicenseKeys,  \* key identities of the license purpose
          Materials,    \* public keys
          Packages,     \* what the media serve, in order: records of key, material, tier and epoch
          Tokens,       \* the license tokens an operator may be given
          Bootstraps,   \* processes that bootstrap the trust, of one operator or of several
          MaxEdits,     \* bound on the operator's edits, removals and installs by hand
          MaxCrashes,   \* bound on deaths of a bootstrap
          None          \* no anchor, no cycle

VARIABLES config,    \* the anchors of site.toml
          anchors,   \* jurisearch_control.trust_anchor
          tokens,    \* jurisearch_control.license_token
          clock,     \* the license tokens that ran out by the database's clock
          planned,   \* per bootstrap, the anchors it has yet to install, None if it does not run
          raced,     \* history: per bootstrap, the keys others have installed since it planned
          verifier,  \* the anchors the running cycle loaded, None between cycles
          known,     \* history: the anchors there were when the running cycle began
          applied,   \* how many packages of the media are applied
          edits, crashes

trustVars == <<config, anchors, tokens, clock, planned, raced, verifier, known, applied,
               edits, crashes>>

(* A package names the key it is signed under; SignedPackage is what a    *)
(* medium may serve, whoever signed it.                                    *)
SignedPackage == [key : PackageKeys, material : Materials, tier : {"open", "paid"}, epoch : Nat]
PackagesAssumption == Packages \in Seq(SignedPackage)
BoundsAssumption   == MaxEdits \in Nat /\ MaxCrashes \in Nat

Keys    == PackageKeys \cup LicenseKeys
Anchors == [Keys -> Materials \cup {None}]

TypeOK ==
  /\ config \in Anchors /\ anchors \in Anchors
  /\ tokens \subseteq Tokens /\ clock \subseteq Tokens
  /\ planned \in [Bootstraps -> {None} \cup SUBSET (Keys \X Materials)]
  /\ raced \in [Bootstraps -> SUBSET Keys]
  /\ verifier \in [PackageKeys -> Materials \cup {None}] \cup {None}
  /\ known \in Anchors
  /\ applied \in 0 .. Len(Packages)
  /\ edits \in 0 .. MaxEdits /\ crashes \in 0 .. MaxCrashes

NoAnchors == [k \in Keys |-> None]

Init ==
  /\ config \in {c \in Anchors : \E k \in PackageKeys : c[k] # None}
  /\ anchors = NoAnchors /\ known = NoAnchors
  /\ tokens = {} /\ clock = {}
  /\ planned = [b \in Bootstraps |-> None] /\ raced = [b \in Bootstraps |-> {}]
  /\ verifier = None
  /\ applied = 0 /\ edits = 0 /\ crashes = 0

\* Signed::verify under an anchor: the identity is known and the bytes check out.
Verifies(trusted, doc) == trusted[doc.key] # None /\ trusted[doc.key] = doc.material

-----------------------------------------------------------------------------
(***************************************************************************)
(* The operator.  An anchor is revoked by removing its row, out of band.   *)
(***************************************************************************)
EditConfig ==
  /\ edits < MaxEdits
  /\ \E k \in Keys, m \in Materials : config' = [config EXCEPT ![k] = m]
  /\ edits' = edits + 1
  /\ UNCHANGED <<anchors, tokens, clock, planned, raced, verifier, known, applied, crashes>>

RemoveAnchor(k) ==
  /\ edits < MaxEdits
  /\ anchors[k] # None
  /\ anchors' = [anchors EXCEPT ![k] = None]
  /\ edits' = edits + 1
  /\ UNCHANGED <<config, tokens, clock, planned, raced, verifier, known, applied, crashes>>

Expire(t) ==
  /\ t \in tokens \ clock
  /\ clock' = clock \cup {t}
  /\ UNCHANGED <<config, anchors, tokens, planned, raced, verifier, known, applied, edits, crashes>>

\* install_trust_anchor: an upsert on the key, whatever is installed under it.
Upsert(k, m) == anchors' = [anchors EXCEPT ![k] = m]

\* An upsert of k overtakes the others that have planned and not finished.
Overtakes(k, others) ==
  raced' = [b \in Bootstraps |-> IF b \in others /\ planned[b] # None THEN raced[b] \cup {k} ELSE raced[b]]

\* `syncd trust install-anchor`: the upsert alone, compared with nothing.
InstallByHand(k, m) ==
  /\ edits < MaxEdits
  /\ Upsert(k, m) /\ Overtakes(k, Bootstraps)
  /\ edits' = edits + 1
  /\ UNCHANGED <<config, tokens, clock, planned, verifier, known, applied, crashes>>

(* Fault: the plan compares nothing with what is installed.                *)
Conflicting_Never(k) == FALSE

(***************************************************************************)
(* bootstrap_trust: plan_anchor_installs over what is installed, refused   *)
(* as a whole on a conflict; then one upsert after the other, each in a    *)
(* transaction of its own that compares nothing any more.                  *)
(***************************************************************************)
Conflicting(k) == config[k] # None /\ anchors[k] \notin {None, config[k]}

PlanBootstrap(b) ==
  /\ planned[b] = None
  /\ \A k \in Keys : ~ Conflicting(k)
  /\ planned' = [planned EXCEPT ![b] =
                   {<<k, config[k]>> : k \in {x \in Keys : config[x] \notin {None, anchors[x]}}}]
  /\ UNCHANGED <<config, anchors, tokens, clock, raced, verifier, known, applied, edits, crashes>>

InstallAnchor(b) ==
  /\ planned[b] # None
  /\ \E p \in planned[b] :
       /\ Upsert(p[1], p[2]) /\ Overtakes(p[1], Bootstraps \ {b})
       /\ planned' = [planned EXCEPT ![b] = @ \ {p}]
  /\ UNCHANGED <<config, tokens, clock, verifier, known, applied, edits, crashes>>

\* No bootstrap any more; the next one plans afresh.
Ends(b) == planned' = [planned EXCEPT ![b] = None] /\ raced' = [raced EXCEPT ![b] = {}]

\* The configured license token, verified once here, and the end of the bootstrap.
FinishBootstrap(b) ==
  /\ planned[b] = {}
  /\ \/ UNCHANGED tokens
     \/ \E t \in Tokens : Verifies(anchors, t) /\ tokens' = tokens \cup {t}
  /\ Ends(b)
  /\ UNCHANGED <<config, anchors, clock, verifier, known, applied, edits, crashes>>

CrashBootstrap(b) ==
  /\ crashes < MaxCrashes /\ planned[b] # None
  /\ Ends(b)
  /\ crashes' = crashes + 1
  /\ UNCHANGED <<config, anchors, tokens, clock, verifier, known, applied, edits>>

Bootstrap(b) == PlanBootstrap(b) \/ InstallAnchor(b) \/ FinishBootstrap(b)

-----------------------------------------------------------------------------

(* Fault: the daemon keeps the verifier it loaded first.                   *)
LoadVerifier_Cached ==
  [k \in PackageKeys |-> IF known[k] # None THEN known[k] ELSE anchors[k]]

(***************************************************************************)
(* A catch-up cycle: run_corpus_cycle loads the verifier, then applies one *)
(* package after the other with it; entitlement is looked up afresh for    *)
(* each package, in the database.                                          *)
(***************************************************************************)
LoadVerifier == [k \in PackageKeys |-> anchors[k]]

StartCycle ==
  /\ verifier = None
  /\ verifier' = LoadVerifier
  /\ known' = anchors
  /\ UNCHANGED <<config, anchors, tokens, clock, planned, raced, applied, edits, crashes>>

(* Fault: the stored token is taken at its word.                           *)
Entitles_Stored(t, p) ==
  /\ t.tier = p.tier /\ t.epoch >= p.epoch
  /\ t \notin clock

\* check_entitlement: each stored token is verified again, covers the package and has not expired.
Entitles(t, p) ==
  /\ Verifies(anchors, t)
  /\ t.tier = p.tier /\ t.epoch >= p.epoch
  /\ t \notin clock

Entitled(p) == p.tier = "open" \/ \E t \in tokens : Entitles(t, p)

ApplyPackage ==
  /\ verifier # None /\ applied < Len(Packages)
  /\ Verifies(verifier, Packages[applied + 1])
  /\ Entitled(Packages[applied + 1])
  /\ applied' = applied + 1
  /\ UNCHANGED <<config, anchors, tokens, clock, planned, raced, verifier, known, edits, crashes>>

\* Caught up, a rejection or a fault: the daemon sleeps and starts again.
EndCycle ==
  /\ verifier # None
  /\ verifier' = None
  /\ UNCHANGED <<config, anchors, tokens, clock, planned, raced, known, applied, edits, crashes>>

Next ==
  \/ EditConfig
  \/ \E k \in Keys : RemoveAnchor(k) \/ \E m \in Materials : InstallByHand(k, m)
  \/ \E t \in Tokens : Expire(t)
  \/ \E b \in Bootstraps : Bootstrap(b) \/ CrashBootstrap(b)
  \/ StartCycle \/ ApplyPackage \/ EndCycle

Spec == Init /\ [][Next]_trustVars

-----------------------------------------------------------------------------
(***************************************************************************)
(* A bootstrap replaces no trust root: whatever the operator writes into   *)
(* site.toml, and wherever a bootstrap dies, it puts no other material     *)
(* over an installed anchor, unless another command has installed that key *)
(* since it planned.  The plan and the upserts are not one transaction, so *)
(* that exception is the code's; an install by hand replaces by intent.    *)
(***************************************************************************)
RootsAreNotReplaced ==
  [][\A b \in Bootstraps, k \in Keys :
       planned'[b] # planned[b] /\ anchors[k] # None =>
         anchors'[k] = anchors[k] \/ k \in raced[b]]_trustVars

(***************************************************************************)
(* Removing an anchor revokes it: a cycle that began after the removal     *)
(* applies nothing signed under it, nor anything under material that was   *)
(* not the anchor's when the cycle began.                                  *)
(***************************************************************************)
RevocationHolds ==
  [][applied' > applied => Verifies(known, Packages[applied'])]_trustVars

(***************************************************************************)
(* What is not open is applied only while a license stands behind it: a    *)
(* token of a license key still trusted at that moment.                    *)
(***************************************************************************)
LicenseStandsBehind ==
  [][ applied' > applied /\ Packages[applied'].tier # "open" =>
        \E t \in tokens : Verifies(anchors, t) /\ t \notin clock /\ t.epoch >= Packages[applied'].epoch ]_trustVars

(***************************************************************************)
(* No bootstrap replaces a trust root, a removed one trusts nothing, and   *)
(* what is licensed needs its license when it is applied.                  *)
(***************************************************************************)
TrustHolds == RootsAreNotReplaced /\ RevocationHolds /\ LicenseStandsBehind
=============================================================================

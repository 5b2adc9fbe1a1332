----------------------------- MODULE AuthKernel -----------------------------
(***************************************************************************)
(* The access chain of the auth kernel as functions of its seed and        *)
(* override files: who the peer evidence is, what the bindings give that   *)
(* actor, gate 0, the decision on one capability in one scope, and the     *)
(* access context envelope.                                                *)
(*                                                                         *)
(* Refs, reason, restriction and obligation codes, dates and the audit     *)
(* ledger are left out.  A capability outside the policy catalog is in no  *)
(* grant profile (the loader insists), so both refusals are one.           *)
(***************************************************************************)
EXTENDS Naturals, FiniteSets

CONSTANTS
  Alias,     \* peer identities: a namespace and a value
  Actor, Tenant, Scope, Role, Capability,
  None,
  Grants,    \* role -> the capabilities of its grant profile
  \* the conversation binding profile
  AutoBindSingleScope, MultiScopeStatus, InvalidScopeStatus

BindingStatus == {"bound", "pending_scope", "suspended"}

\* what the access context envelope tells of scopes
Envelope == [primary : Scope, granted : SUBSET Scope]

ASSUME AuthKernelAssumption ==
  /\ None \notin Actor \cup Scope \cup Envelope
  /\ Grants \in [Role -> SUBSET Capability]
  /\ AutoBindSingleScope \in BOOLEAN
  /\ MultiScopeStatus \in BindingStatus /\ InvalidScopeStatus \in BindingStatus

\* The files: the actors, their aliases (an alias belongs to one actor at
\* most, whom the registry may not know), the role bindings and the scope
\* bindings.  first is the scope of an actor that is marked primary, or else
\* stands first.
ActorFile == [state : [Actor -> {"active", "inactive", "missing"}], tenant : [Actor -> Tenant]]
AliasFile == [Alias -> Actor \cup {None}]
RoleFile  == SUBSET (Actor \X Role)
ScopeFile == [bound : SUBSET (Actor \X Tenant \X Scope), first : [Actor -> Scope]]

Files == [actors : ActorFile, aliases : AliasFile, roles : RoleFile, scopes : ScopeFile]

\* loadActorRegistryBackbone, from the contents of its two files
ActorRegistry ==
  [alias : AliasFile, state : [Actor -> {"active", "inactive", "missing"}],
   tenant : [Actor -> Tenant]]

ActorsIn(v) == [alias |-> v.aliases, state |-> v.actors.state, tenant |-> v.actors.tenant]

\* loadBindingBackbone, from the contents of its two files
Bindings ==
  [roles : RoleFile, scopes : SUBSET (Actor \X Tenant \X Scope), first : [Actor -> Scope]]

BindingsIn(v) == [roles |-> v.roles, scopes |-> v.scopes.bound, first |-> v.scopes.first]

-----------------------------------------------------------------------------
\* resolveActorFromIngress
Resolution ==
  [status : {"resolved", "inactive", "unknown", "ambiguous"}, actor : Actor \cup {None},
   tenant : Tenant \cup {None}]

Matched(registry, evidence) == {registry.alias[x] : x \in evidence} \ {None}

\* mutant: whoever the registry knows may act
ResolveAnyState(registry, evidence) ==
  LET matched == Matched(registry, evidence)
      known   == {a \in Actor : matched = {a} /\ registry.state[a] # "missing"}
      a       == CHOOSE a \in known : TRUE
  IN  IF known = {} THEN [status |-> "unknown", actor |-> None, tenant |-> None]
      ELSE [status |-> "resolved", actor |-> a, tenant |-> registry.tenant[a]]

Resolve(registry, evidence) ==
  LET matched == Matched(registry, evidence)
      known   == {a \in Actor : matched = {a} /\ registry.state[a] # "missing"}
      a       == CHOOSE a \in known : TRUE
  IN  IF known = {}
      THEN [status |-> IF Cardinality(matched) > 1 THEN "ambiguous" ELSE "unknown",
            actor |-> None, tenant |-> None]
      ELSE [status |-> IF registry.state[a] = "active" THEN "resolved" ELSE "inactive",
            actor |-> a, tenant |-> registry.tenant[a]]

-----------------------------------------------------------------------------
\* buildBindingSnapshot.  One binding of another tenant voids all of them.
Snapshot ==
  [roles : SUBSET Role, granted : SUBSET Scope, selected : Scope \cup {None},
   primary : Scope \cup {None}, status : BindingStatus]

Unbound == [roles |-> {}, granted |-> {}, selected |-> None, primary |-> None,
            status |-> "suspended"]

ForeignBinding(who, bindings) ==
  \E b \in bindings.scopes : b[1] = who.actor /\ b[2] # who.tenant

GrantedScopes(who, bindings) ==
  IF ForeignBinding(who, bindings) THEN {}
  ELSE {s \in Scope : <<who.actor, who.tenant, s>> \in bindings.scopes}

\* mutant: a scope that is not granted counts as none
SelectedIfGranted(who, bindings, hint) ==
  LET granted == GrantedScopes(who, bindings)
      only    == {s \in granted : granted = {s}}
  IN  IF hint \in granted THEN hint
      ELSE IF AutoBindSingleScope /\ only # {} THEN CHOOSE s \in only : TRUE
      ELSE None

SelectedScope(who, bindings, hint) ==
  LET granted == GrantedScopes(who, bindings)
      only    == {s \in granted : granted = {s}}
  IN  IF hint # None THEN IF hint \in granted THEN hint ELSE None
      ELSE IF AutoBindSingleScope /\ only # {} THEN CHOOSE s \in only : TRUE
      ELSE None

StatusOf(who, bindings, hint) ==
  CASE ForeignBinding(who, bindings) -> "suspended"
    [] ~ ForeignBinding(who, bindings) /\ SelectedScope(who, bindings, hint) # None -> "bound"
    [] ~ ForeignBinding(who, bindings) /\ SelectedScope(who, bindings, hint) = None ->
         IF hint # None THEN InvalidScopeStatus
         ELSE IF \E s, t \in GrantedScopes(who, bindings) : s # t THEN MultiScopeStatus
         ELSE "suspended"

PrimaryScope(who, bindings, hint) ==
  IF StatusOf(who, bindings, hint) # "bound" THEN None
  ELSE IF SelectedScope(who, bindings, hint) # None THEN SelectedScope(who, bindings, hint)
  ELSE IF bindings.first[who.actor] \in GrantedScopes(who, bindings)
       THEN bindings.first[who.actor] ELSE None

SnapshotOf(who, bindings, hint) ==
  IF who.status # "resolved" THEN Unbound
  ELSE [roles    |-> {r \in Role : <<who.actor, r>> \in bindings.roles},
        granted  |-> GrantedScopes(who, bindings),
        selected |-> SelectedScope(who, bindings, hint),
        primary  |-> PrimaryScope(who, bindings, hint),
        status   |-> StatusOf(who, bindings, hint)]

\* applyScopeSelectionToBindingSnapshot
Selecting(snapshot, requested) ==
  IF requested = None THEN snapshot
  ELSE IF requested \in snapshot.granted
  THEN [snapshot EXCEPT !.selected = requested, !.primary = requested, !.status = "bound"]
  ELSE [snapshot EXCEPT !.selected = None, !.primary = None, !.status = "suspended"]

-----------------------------------------------------------------------------
\* evaluateGate0
Gate0(who, snapshot) ==
  IF who.status # "resolved" THEN "deny"
  ELSE IF snapshot.status = "pending_scope" THEN "restricted"
  ELSE IF snapshot.status = "suspended" \/ snapshot.roles = {} \/ snapshot.granted = {}
  THEN "deny" ELSE "allow"

\* collectGrantedCapabilities
GrantedCapabilities(roles) == UNION {Grants[r] : r \in roles}

\* evaluateCapabilityAccess, on the effective snapshot
DecidedScope(snapshot, requested) ==
  IF requested # None THEN requested
  ELSE IF snapshot.selected # None THEN snapshot.selected ELSE snapshot.primary

Allowed(gate0, snapshot, requested, capability) ==
  /\ gate0 # "deny"
  /\ DecidedScope(snapshot, requested) \in snapshot.granted
  /\ capability \in GrantedCapabilities(snapshot.roles)

\* buildSessionGrantSnapshot: an allowed decision without a selected scope
\* is withheld, and buildAccessContextEnvelope answers null
GrantIssued(gate0, snapshot, requested, capability) ==
  Allowed(gate0, snapshot, requested, capability) /\ snapshot.selected # None

\* runAuthKernelAccessChain
AccessChain(who, bindings, hint, requested, capability) ==
  LET bound     == SnapshotOf(who, bindings, hint)
      gate0     == Gate0(who, bound)
      effective == IF gate0 = "deny" THEN bound ELSE Selecting(bound, requested)
  IN  [gate0    |-> gate0,
       allowed  |-> Allowed(gate0, effective, requested, capability),
       scope    |-> DecidedScope(effective, requested),
       envelope |-> IF GrantIssued(gate0, effective, requested, capability)
                    THEN [primary |-> effective.selected, granted |-> effective.granted]
                    ELSE None]
=============================================================================

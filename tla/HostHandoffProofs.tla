-------------------------- MODULE HostHandoffProofs --------------------------
(***************************************************************************)
(* The access chain and the hand-over of a tool call, for every content of *)
(* the four files, policy and conversation profile and any number of       *)
(* replacements while a call is under way.  The argument: a call remembers *)
(* nothing but answers of the chain on mixtures of files it has seen       *)
(* (CallInv), and what such an answer implies is a fact about the chain    *)
(* alone (the lemmas).                                                     *)
(***************************************************************************)
EXTENDS HostHandoff, TLAPS

USE AuthKernelAssumption, HandoffAssumption

-----------------------------------------------------------------------------
(* Whoever a registry resolves is entitled to act for the evidence. *)
LEMMA ResolvedActsFor ==
  ASSUME NEW registry \in ActorRegistry, NEW evidence \in SUBSET Alias
  PROVE  LET r == Resolve(registry, evidence) IN
         /\ r \in Resolution
         /\ r.status = "resolved" =>
              /\ r.actor \in Actor /\ r.tenant = registry.tenant[r.actor]
              /\ ActsFor(registry, evidence, r.actor)
<1> DEFINE matched == Matched(registry, evidence)
           known   == {a \in Actor : matched = {a} /\ registry.state[a] # "missing"}
           chosen  == CHOOSE a \in known : TRUE
<1>1. CASE known = {}
  <2>1. Resolve(registry, evidence) =
          [status |-> IF Cardinality(matched) > 1 THEN "ambiguous" ELSE "unknown",
           actor |-> None, tenant |-> None]
    BY <1>1 DEF Resolve
  <2>2. QED BY <2>1 DEF Resolution
<1>2. CASE known # {}
  <2>1. chosen \in known BY <1>2
  <2>2. chosen \in Actor /\ matched = {chosen} BY <2>1
  <2>3. Resolve(registry, evidence) =
          [status |-> IF registry.state[chosen] = "active" THEN "resolved" ELSE "inactive",
           actor |-> chosen, tenant |-> registry.tenant[chosen]]
    BY <1>2 DEF Resolve
  <2>4. registry.tenant[chosen] \in Tenant BY <2>2 DEF ActorRegistry
  <2>5. Resolve(registry, evidence) \in Resolution BY <2>2, <2>3, <2>4 DEF Resolution
  <2>6. /\ \E x \in evidence : registry.alias[x] = chosen
        /\ \A x \in evidence : registry.alias[x] \in {chosen, None}
    BY <2>2 DEF Matched
  <2>7. QED BY <2>2, <2>3, <2>5, <2>6 DEF ActsFor
<1>3. QED BY <1>1, <1>2

(* The converse: an actor entitled to act for the evidence is resolved. *)
LEMMA ActsForResolved ==
  ASSUME NEW registry \in ActorRegistry, NEW evidence \in SUBSET Alias, NEW a \in Actor,
         ActsFor(registry, evidence, a)
  PROVE  Resolve(registry, evidence) =
           [status |-> "resolved", actor |-> a, tenant |-> registry.tenant[a]]
<1> DEFINE matched == Matched(registry, evidence)
           known   == {b \in Actor : matched = {b} /\ registry.state[b] # "missing"}
           chosen  == CHOOSE b \in known : TRUE
<1>1. matched = {a} BY DEF Matched, ActsFor
<1>2. registry.state[a] = "active" BY DEF ActsFor
<1>3. known = {a} BY <1>1, <1>2
<1>4. chosen = a BY <1>3
<1>5. QED BY <1>2, <1>3, <1>4 DEF Resolve

-----------------------------------------------------------------------------
(* A binding snapshot: what is selected is granted, the scopes of a sender  *)
(* without a binding of another tenant are those bound, a foreign binding   *)
(* voids all.                                                               *)
LEMMA GrantedIsBound ==
  ASSUME NEW w \in Resolution, NEW b \in Bindings, NEW s \in GrantedScopes(w, b)
  PROVE  /\ GrantedScopes(w, b) = ScopesOf(w.tenant, b, w.actor)
         /\ \A t \in Tenant, x \in Scope : <<w.actor, t, x>> \in b.scopes => t = w.tenant
         /\ s \in Scope
<1>1. ~ ForeignBinding(w, b) BY DEF GrantedScopes
<1>2. QED BY <1>1 DEF GrantedScopes, ScopesOf, ForeignBinding

LEMMA BoundIsGranted ==
  ASSUME NEW w \in Resolution, NEW b \in Bindings, w.actor \in Actor,
         \A t \in Tenant, x \in Scope : <<w.actor, t, x>> \in b.scopes => t = w.tenant
  PROVE  /\ ~ ForeignBinding(w, b)
         /\ GrantedScopes(w, b) = ScopesOf(w.tenant, b, w.actor)
<1>1. \A y \in b.scopes : y = <<y[1], y[2], y[3]>> /\ y[2] \in Tenant /\ y[3] \in Scope
  BY DEF Bindings
<1>2. ~ ForeignBinding(w, b) BY <1>1 DEF ForeignBinding
<1>3. QED BY <1>2 DEF GrantedScopes, ScopesOf

LEMMA SelectedIsGranted ==
  ASSUME NEW w \in Resolution, NEW b \in Bindings, NEW hint \in Scope \cup {None}
  PROVE  LET s == SelectedScope(w, b, hint) IN
         /\ s # None => s \in GrantedScopes(w, b)
         /\ s # None /\ hint # None => s = hint
         /\ s # None /\ hint = None => GrantedScopes(w, b) = {s}
         /\ hint \in GrantedScopes(w, b) => s = hint
         /\ hint = None /\ AutoBindSingleScope =>
              \A x \in Scope : GrantedScopes(w, b) = {x} => s = x
<1> DEFINE granted == GrantedScopes(w, b)
           only    == {x \in granted : granted = {x}}
<1>1. granted \subseteq Scope BY DEF GrantedScopes
<1>2. CASE hint # None BY <1>1, <1>2 DEF SelectedScope
<1>3. CASE hint = None
  <2>1. CASE AutoBindSingleScope /\ only # {}
    <3>1. (CHOOSE x \in only : TRUE) \in only BY <2>1
    <3>2. SelectedScope(w, b, hint) = CHOOSE x \in only : TRUE
      BY <1>3, <2>1 DEF SelectedScope
    <3>3. QED BY <1>1, <1>3, <3>1, <3>2
  <2>2. CASE ~ (AutoBindSingleScope /\ only # {})
    <3>1. SelectedScope(w, b, hint) = None BY <1>3, <2>2 DEF SelectedScope
    <3>2. QED BY <1>1, <1>3, <2>2, <3>1
  <2>3. QED BY <2>1, <2>2
<1>4. QED BY <1>2, <1>3

-----------------------------------------------------------------------------
(* What the chain allows, the sender holds: in the scope of the decision,   *)
(* which is the requested one if there is one.                              *)
LEMMA AllowedIsHeld ==
  ASSUME NEW w \in Resolution, w.status = "resolved" => w.actor \in Actor,
         NEW b \in Bindings, NEW hint \in Scope \cup {None},
         NEW requested \in Scope \cup {None}, NEW k \in Capability,
         AccessChain(w, b, hint, requested, k).allowed
  PROVE  LET answer == AccessChain(w, b, hint, requested, k) IN
         /\ w.status = "resolved"
         /\ Holds(w.tenant, b, w.actor, k, answer.scope)
         /\ answer.scope \in Scope
         /\ requested # None => answer.scope = requested
<1> DEFINE bound     == SnapshotOf(w, b, hint)
           gate0     == Gate0(w, bound)
           effective == IF gate0 = "deny" THEN bound ELSE Selecting(bound, requested)
           scope     == DecidedScope(effective, requested)
<1>1. Allowed(gate0, effective, requested, k) BY DEF AccessChain
<1>2. gate0 # "deny" /\ effective = Selecting(bound, requested) BY <1>1 DEF Allowed
<1>3. w.status = "resolved" BY <1>2 DEF Gate0
<1>4. bound = [roles    |-> {r \in Role : <<w.actor, r>> \in b.roles},
               granted  |-> GrantedScopes(w, b),
               selected |-> SelectedScope(w, b, hint),
               primary  |-> PrimaryScope(w, b, hint),
               status   |-> StatusOf(w, b, hint)]
  BY <1>3 DEF SnapshotOf
<1>5. effective.granted = bound.granted /\ effective.roles = bound.roles
  <2> HIDE DEF bound
  <2>1. CASE requested = None BY <1>2, <2>1 DEF Selecting
  <2>2. CASE requested # None /\ requested \in bound.granted
    <3>1. effective = [bound EXCEPT !.selected = requested, !.primary = requested,
                                    !.status = "bound"]
      BY <1>2, <2>2 DEF Selecting
    <3>2. QED BY <1>4, <3>1
  <2>3. CASE requested # None /\ requested \notin bound.granted
    <3>1. effective = [bound EXCEPT !.selected = None, !.primary = None,
                                    !.status = "suspended"]
      BY <1>2, <2>3 DEF Selecting
    <3>2. QED BY <1>4, <3>1
  <2>4. QED BY <2>1, <2>2, <2>3
<1>6. scope \in GrantedScopes(w, b) BY <1>1, <1>4, <1>5 DEF Allowed
<1>7. \E r \in Role : <<w.actor, r>> \in b.roles /\ k \in Grants[r]
  BY <1>1, <1>4, <1>5 DEF Allowed, GrantedCapabilities
<1>8. AccessChain(w, b, hint, requested, k).scope = scope BY DEF AccessChain
<1>9. Holds(w.tenant, b, w.actor, k, scope) /\ scope \in Scope
  <2> HIDE DEF scope
  <2>1. QED BY <1>6, <1>7, GrantedIsBound DEF Holds
<1>10. requested # None => scope = requested BY DEF DecidedScope
<1>11. QED BY <1>3, <1>8, <1>9, <1>10

(* An envelope tells the granted scopes, and as primary the scope that was  *)
(* asked for, or else the only one.                                         *)
LEMMA EnvelopeTellsTheScope ==
  ASSUME NEW w \in Resolution, w.status = "resolved" => w.actor \in Actor,
         NEW b \in Bindings, NEW hint \in Scope \cup {None},
         NEW requested \in {None, hint}, NEW k \in Capability,
         AccessChain(w, b, hint, requested, k).envelope # None
  PROVE  LET answer == AccessChain(w, b, hint, requested, k) IN
         /\ answer.allowed
         /\ answer.envelope \in Envelope
         /\ answer.envelope.granted = GrantedScopes(w, b)
         /\ answer.envelope.primary \in GrantedScopes(w, b)
         /\ hint # None => answer.envelope.primary = hint
         /\ hint = None => GrantedScopes(w, b) = {answer.envelope.primary}
<1> DEFINE bound     == SnapshotOf(w, b, hint)
           gate0     == Gate0(w, bound)
           effective == IF gate0 = "deny" THEN bound ELSE Selecting(bound, requested)
           answer    == AccessChain(w, b, hint, requested, k)
<1>1. GrantIssued(gate0, effective, requested, k) BY DEF AccessChain
<1>2. gate0 # "deny" /\ effective = Selecting(bound, requested) /\ effective.selected # None
  BY <1>1 DEF GrantIssued, Allowed
<1>3. w.status = "resolved" BY <1>2 DEF Gate0
<1>4. bound = [roles    |-> {r \in Role : <<w.actor, r>> \in b.roles},
               granted  |-> GrantedScopes(w, b),
               selected |-> SelectedScope(w, b, hint),
               primary  |-> PrimaryScope(w, b, hint),
               status   |-> StatusOf(w, b, hint)]
  BY <1>3 DEF SnapshotOf
<1>5. /\ answer.allowed
      /\ answer.envelope = [primary |-> effective.selected, granted |-> effective.granted]
  BY <1>1 DEF AccessChain, GrantIssued
<1>6. /\ effective.granted = GrantedScopes(w, b)
      /\ requested = None => effective.selected = SelectedScope(w, b, hint)
      /\ requested # None => /\ effective.selected = requested
                             /\ requested \in GrantedScopes(w, b)
  <2> HIDE DEF bound
  <2>1. CASE requested = None BY <1>2, <1>4, <2>1 DEF Selecting
  <2>2. CASE requested # None /\ requested \in bound.granted
    <3>1. effective = [bound EXCEPT !.selected = requested, !.primary = requested,
                                    !.status = "bound"]
      BY <1>2, <2>2 DEF Selecting
    <3>2. QED BY <1>4, <2>2, <3>1
  <2>3. CASE requested # None /\ requested \notin bound.granted
    <3>1. effective = [bound EXCEPT !.selected = None, !.primary = None,
                                    !.status = "suspended"]
      BY <1>2, <2>3 DEF Selecting
    <3>2. QED BY <1>2, <1>4, <3>1
  <2>4. QED BY <2>1, <2>2, <2>3
<1> DEFINE primary == answer.envelope.primary
<1>7. primary = effective.selected /\ answer.envelope.granted = effective.granted BY <1>5
<1>8. /\ primary \in GrantedScopes(w, b)
      /\ hint # None => primary = hint
      /\ hint = None => GrantedScopes(w, b) = {primary}
  <2> HIDE DEF answer, primary, effective
  <2>1. CASE requested = None BY <1>2, <1>6, <1>7, <2>1, SelectedIsGranted
  <2>2. CASE requested # None BY <1>6, <1>7, <2>2
  <2>3. QED BY <2>1, <2>2
<1>9. GrantedScopes(w, b) \subseteq Scope BY DEF GrantedScopes
<1>10. answer.envelope \in Envelope BY <1>5, <1>6, <1>7, <1>8, <1>9 DEF Envelope
<1>11. QED BY <1>5, <1>6, <1>7, <1>8, <1>10

(* Completeness: a sender entitled to the scope it names, or who has one    *)
(* scope only and names none, passes gate 0 and is allowed, with an         *)
(* envelope.                                                                *)
LEMMA EntitledIsAllowed ==
  ASSUME NEW w \in Resolution, w.status = "resolved", w.actor \in Actor,
         NEW b \in Bindings, NEW hint \in Scope \cup {None},
         NEW requested \in {None, hint}, NEW k \in Capability, NEW s \in Scope,
         IF hint # None THEN s = hint
         ELSE AutoBindSingleScope /\ ScopesOf(w.tenant, b, w.actor) = {s},
         Holds(w.tenant, b, w.actor, k, s)
  PROVE  LET answer == AccessChain(w, b, hint, requested, k) IN
         answer.gate0 = "allow" /\ answer.allowed /\ answer.envelope # None
<1> DEFINE bound     == SnapshotOf(w, b, hint)
           gate0     == Gate0(w, bound)
           effective == IF gate0 = "deny" THEN bound ELSE Selecting(bound, requested)
           answer    == AccessChain(w, b, hint, requested, k)
<1>1. ~ ForeignBinding(w, b) /\ GrantedScopes(w, b) = ScopesOf(w.tenant, b, w.actor)
  BY BoundIsGranted DEF Holds
<1>2. s \in GrantedScopes(w, b) BY <1>1 DEF Holds
<1>3. SelectedScope(w, b, hint) = s BY <1>1, <1>2, SelectedIsGranted
<1>4. StatusOf(w, b, hint) = "bound" BY <1>1, <1>3 DEF StatusOf
<1>5. bound = [roles    |-> {r \in Role : <<w.actor, r>> \in b.roles},
               granted  |-> GrantedScopes(w, b),
               selected |-> s,
               primary  |-> PrimaryScope(w, b, hint),
               status   |-> "bound"]
  BY <1>3, <1>4 DEF SnapshotOf
<1>6. PICK r \in Role : <<w.actor, r>> \in b.roles /\ k \in Grants[r] BY DEF Holds
<1>7. bound.roles # {} /\ bound.granted # {} /\ bound.status = "bound" /\ r \in bound.roles
  BY <1>2, <1>5, <1>6
<1>8. gate0 = "allow" BY <1>7 DEF Gate0
<1>9. effective.granted = bound.granted /\ effective.roles = bound.roles /\ effective.selected = s
  <2>0. effective = Selecting(bound, requested) BY <1>8
  <2> HIDE DEF bound, effective
  <2>1. CASE requested = None BY <2>0, <1>5, <2>1 DEF Selecting
  <2>2. CASE requested # None
    <3>1. requested = s /\ s \in bound.granted BY <1>2, <1>5, <2>2
    <3>2. effective = [bound EXCEPT !.selected = s, !.primary = s, !.status = "bound"]
      BY <2>0, <2>2, <3>1 DEF Selecting
    <3>3. QED BY <1>5, <3>2
  <2>3. QED BY <2>1, <2>2
<1>10. DecidedScope(effective, requested) = s
  <2> HIDE DEF effective
  <2>1. QED BY <1>9 DEF DecidedScope
<1>11. Allowed(gate0, effective, requested, k)
  <2>1. effective.granted = GrantedScopes(w, b) BY <1>5, <1>9
  <2>2. k \in GrantedCapabilities(effective.roles) BY <1>6, <1>7, <1>9 DEF GrantedCapabilities
  <2> HIDE DEF effective, gate0
  <2>3. QED BY <1>2, <1>8, <1>10, <2>1, <2>2 DEF Allowed
<1>12. GrantIssued(gate0, effective, requested, k)
  <2> HIDE DEF effective, gate0
  <2>1. QED BY <1>9, <1>11 DEF GrantIssued
<1>13. /\ answer.gate0 = gate0 /\ answer.allowed
       /\ answer.envelope = [primary |-> s, granted |-> GrantedScopes(w, b)]
  <2>1. answer.gate0 = gate0 /\ answer.allowed = Allowed(gate0, effective, requested, k)
    BY DEF AccessChain
  <2>2. answer.envelope = [primary |-> effective.selected, granted |-> effective.granted]
    BY <1>12 DEF AccessChain
  <2> HIDE DEF effective, gate0, answer, bound
  <2>3. QED BY <1>5, <1>9, <1>11, <2>1, <2>2
<1>14. answer.envelope \in Envelope BY <1>13 DEF Envelope, GrantedScopes
<1>15. QED BY <1>8, <1>13, <1>14

-----------------------------------------------------------------------------
(* What a call remembers: answers on the mixtures of files it may have read *)
Identity(v) == Resolve(ActorsIn(v), call.evidence)

HostAnswer(v)    == Answer(v, Hint, call.asked)
RuntimeAnswer(v) == Answer(v, TargetScope, TargetScope)

Handed == \E v \in Mixtures : envelope = HostAnswer(v).envelope /\ envelope # None

\* what a chain has read so far, it has read while the call was under way
ReadIsSeen ==
  /\ reading \in {"aliases", "roles", "scopes", "done"} => read.actors \in seen.actors
  /\ reading \in {"roles", "scopes", "done"} => read.aliases \in seen.aliases
  /\ reading \in {"scopes", "done"} => read.roles \in seen.roles
  /\ reading = "done" => read.scopes \in seen.scopes

CallInv ==
  /\ TypeOK
  /\ layer # "idle" \/ outcome # "none" => call \in Call
  /\ layer # "idle" => files \in Mixtures /\ outcome = "none"
  /\ ReadIsSeen
  /\ layer = "runtime" => Handed
  /\ outcome \in {"host_rejected", "host_scope_confirmation", "blocked_missing_access_context"} =>
       \E v \in Mixtures : HostAnswer(v).gate0 = "deny" \/ HostAnswer(v).envelope = None
  /\ outcome = "access_denied" => Handed /\ \E v \in Mixtures : ~ RuntimeAnswer(v).allowed
  /\ outcome = "granted" =>
       /\ Handed
       /\ \E v \in Mixtures :
            /\ RuntimeAnswer(v).allowed
            /\ grant = [actor |-> Identity(v).actor, scope |-> RuntimeAnswer(v).scope]

(* The hint and what the bridge asks for, and the target scope of a handed  *)
(* call, are what the lemmas on the chain expect.                           *)
LEMMA HintType ==
  ASSUME call \in Call
  PROVE  /\ Hint \in Scope \cup {None} /\ call.asked \in {None, Hint}
         /\ call.evidence \in SUBSET Alias /\ call.capability \in Capability
BY DEF Call, Hint

(* A mixture of contents the files had is itself a content of the files. *)
LEMMA MixtureType ==
  ASSUME TypeOK, NEW v \in Mixtures
  PROVE  v \in Files /\ ActorsIn(v) \in ActorRegistry /\ BindingsIn(v) \in Bindings
<1>1. v \in Files BY DEF TypeOK, Mixtures, Files
<1>2. ActorsIn(v) \in ActorRegistry
  BY <1>1 DEF Files, ActorsIn, ActorRegistry, ActorFile
<1>3. BindingsIn(v) \in Bindings
  BY <1>1 DEF Files, BindingsIn, Bindings, ScopeFile
<1>4. QED BY <1>1, <1>2, <1>3

LEMMA IdentityType ==
  ASSUME TypeOK, call \in Call, NEW v \in Mixtures
  PROVE  /\ ActorsIn(v) \in ActorRegistry /\ BindingsIn(v) \in Bindings
         /\ Identity(v) \in Resolution
         /\ Identity(v).status = "resolved" =>
              /\ Identity(v).actor \in Actor
              /\ Identity(v).tenant = v.actors.tenant[Identity(v).actor]
              /\ Sends(v, Identity(v).actor)
<1>1. ActorsIn(v) \in ActorRegistry /\ BindingsIn(v) \in Bindings BY MixtureType
<1>2. ActorsIn(v).tenant = v.actors.tenant BY DEF ActorsIn
<1>3. QED BY <1>1, <1>2, HintType, ResolvedActsFor DEF Identity, Sends

LEMMA HandedScope ==
  ASSUME TypeOK, call \in Call, NEW v \in Mixtures,
         envelope = HostAnswer(v).envelope, envelope # None
  PROVE  /\ HostAnswer(v).allowed /\ Identity(v).status = "resolved"
         /\ Entitled(v, Identity(v).actor, TargetScope)
         /\ TargetScope \in Scope
         /\ Hint # None => TargetScope = Hint
         /\ Hint = None => OwnScopes(v, Identity(v).actor) = {TargetScope}
<1> DEFINE who    == Identity(v)
           b      == BindingsIn(v)
           answer == AccessChain(who, b, Hint, call.asked, call.capability)
<1>1. /\ who \in Resolution /\ (who.status = "resolved" => who.actor \in Actor)
      /\ b \in Bindings
  BY IdentityType
<1>2. /\ Hint \in Scope \cup {None} /\ call.asked \in {None, Hint}
      /\ call.asked \in Scope \cup {None} /\ call.capability \in Capability
  BY HintType
<1>3. HostAnswer(v) = answer BY DEF HostAnswer, Answer, Identity
<1> HIDE DEF who, b
<1>4. /\ answer.allowed
      /\ answer.envelope.granted = GrantedScopes(who, b)
      /\ answer.envelope.primary \in GrantedScopes(who, b)
      /\ Hint # None => answer.envelope.primary = Hint
      /\ Hint = None => GrantedScopes(who, b) = {answer.envelope.primary}
  BY <1>1, <1>2, <1>3, EnvelopeTellsTheScope
<1>5. who.status = "resolved" /\ Holds(who.tenant, b, who.actor, call.capability, answer.scope)
  BY <1>1, <1>2, <1>4, AllowedIsHeld
<1>6. TargetScope = answer.envelope.primary
  BY <1>3, <1>4 DEF TargetScope
<1>7. TargetScope \in GrantedScopes(who, b) BY <1>4, <1>6
<1>8. /\ GrantedScopes(who, b) = ScopesOf(who.tenant, b, who.actor)
      /\ TargetScope \in Scope
  <2>1. \A s \in GrantedScopes(who, b) :
          GrantedScopes(who, b) = ScopesOf(who.tenant, b, who.actor) /\ s \in Scope
    BY <1>1, GrantedIsBound
  <2>2. QED BY <1>7, <2>1
<1>9. Holds(who.tenant, b, who.actor, call.capability, TargetScope)
  <2> HIDE DEF answer
  <2>1. QED BY <1>5, <1>7, <1>8 DEF Holds
<1>10. who.tenant = v.actors.tenant[who.actor] /\ Sends(v, who.actor)
  BY <1>5, IdentityType DEF who
<1>11. Entitled(v, who.actor, TargetScope) BY <1>9, <1>10 DEF Entitled, b
<1>12. Hint = None => OwnScopes(v, who.actor) = {TargetScope}
  BY <1>4, <1>6, <1>8, <1>10 DEF OwnScopes, b
<1>13. QED
  <2>1. HostAnswer(v).allowed BY <1>3, <1>4
  <2>2. QED BY <1>4, <1>5, <1>6, <1>8, <1>11, <1>12, <2>1 DEF who

-----------------------------------------------------------------------------
LEMMA InitCall == Init => CallInv
<1> SUFFICES ASSUME Init PROVE CallInv OBVIOUS
<1>1. TypeOK
  BY DEF Init, TypeOK, Files, NoGrant, Unread, NothingSeen, HandoffAssumption
<1>2. ReadIsSeen BY DEF Init, ReadIsSeen
<1>3. QED BY <1>1, <1>2 DEF Init, CallInv

(* What a call has answered on the files it has seen is the same, in every  *)
(* step that changes neither the call nor its envelope...                   *)
LEMMA AnswersStay ==
  ASSUME call' = call
  PROVE  /\ Hint' = Hint
         /\ \A v : /\ Identity(v)' = Identity(v) /\ HostAnswer(v)' = HostAnswer(v)
                   /\ envelope' = envelope => RuntimeAnswer(v)' = RuntimeAnswer(v)
<1>1. Hint' = Hint BY DEF Hint
<1>2. \A v, hint, requested : Answer(v, hint, requested)' = Answer(v, hint, requested) BY DEF Answer
<1>3. envelope' = envelope => TargetScope' = TargetScope BY <1>1 DEF TargetScope
<1>4. QED BY <1>1, <1>2, <1>3 DEF Identity, HostAnswer, RuntimeAnswer, Answer

LEMMA MixturesStay == seen' = seen => Mixtures' = Mixtures
BY DEF Mixtures

(* ...and a replaced file only adds to what the call may have read.         *)
LEMMA WriteCall ==
  ASSUME CallInv, NEW new \in Files, Write(new)
  PROVE  CallInv'
<1>1. /\ call' = call /\ layer' = layer /\ reading' = reading /\ read' = read
      /\ envelope' = envelope /\ outcome' = outcome /\ grant' = grant /\ files' = new
      /\ seen' = IF layer = "idle" THEN seen ELSE Seeing(new)
  BY DEF Write, chain
<1>2. /\ new.actors \in ActorFile /\ new.aliases \in AliasFile /\ new.roles \in RoleFile
      /\ new.scopes \in ScopeFile
      /\ new = [actors |-> new.actors, aliases |-> new.aliases, roles |-> new.roles,
                scopes |-> new.scopes]
  BY DEF Files
<1>3. /\ seen.actors \subseteq seen'.actors /\ seen.aliases \subseteq seen'.aliases
      /\ seen.roles \subseteq seen'.roles /\ seen.scopes \subseteq seen'.scopes
      /\ seen' \in [actors : SUBSET ActorFile, aliases : SUBSET AliasFile,
                    roles : SUBSET RoleFile, scopes : SUBSET ScopeFile]
      /\ layer # "idle" => /\ new.actors \in seen'.actors /\ new.aliases \in seen'.aliases
                           /\ new.roles \in seen'.roles /\ new.scopes \in seen'.scopes
  <2>1. CASE layer = "idle" BY <1>1, <2>1 DEF CallInv, TypeOK
  <2>2. CASE layer # "idle" BY <1>1, <1>2, <2>2 DEF CallInv, TypeOK, Seeing
  <2>3. QED BY <2>1, <2>2
<1>4. Mixtures \subseteq Mixtures'
  <2> SUFFICES ASSUME NEW v \in Mixtures PROVE v \in Mixtures' OBVIOUS
  <2>1. QED BY <1>3 DEF Mixtures
<1>5. layer # "idle" => files' \in Mixtures' BY <1>1, <1>2, <1>3 DEF Mixtures
<1>6. TypeOK' BY <1>1, <1>3 DEF CallInv, TypeOK
<1>7. ReadIsSeen' BY <1>1, <1>3 DEF CallInv, ReadIsSeen
<1>8. Handed => Handed' BY <1>1, <1>4, AnswersStay DEF Handed
<1>9. QED BY <1>1, <1>4, <1>5, <1>6, <1>7, <1>8, AnswersStay DEF CallInv

LEMMA AdministerCall == CallInv /\ Administer => CallInv'
<1> SUFFICES ASSUME CallInv, Administer PROVE CallInv' OBVIOUS
<1>1. files \in Files BY DEF CallInv, TypeOK
<1>2. ASSUME NEW c \in ActorFiles, Write([files EXCEPT !.actors = c]) PROVE CallInv'
  BY <1>1, <1>2, WriteCall DEF Files, HandoffAssumption
<1>3. ASSUME NEW c \in AliasFiles, Write([files EXCEPT !.aliases = c]) PROVE CallInv'
  BY <1>1, <1>3, WriteCall DEF Files, HandoffAssumption
<1>4. ASSUME NEW c \in RoleFiles, Write([files EXCEPT !.roles = c]) PROVE CallInv'
  BY <1>1, <1>4, WriteCall DEF Files, HandoffAssumption
<1>5. ASSUME NEW c \in ScopeFiles, Write([files EXCEPT !.scopes = c]) PROVE CallInv'
  BY <1>1, <1>5, WriteCall DEF Files, HandoffAssumption
<1>6. QED BY <1>2, <1>3, <1>4, <1>5 DEF Administer

LEMMA ArriveCall == \A q \in Calls : CallInv /\ Arrive(q) => CallInv'
<1> SUFFICES ASSUME NEW q \in Calls, CallInv, Arrive(q) PROVE CallInv' OBVIOUS
<1>1. /\ call' = q /\ layer' = "bridge" /\ reading' = "actors" /\ read' = Unread
      /\ envelope' = None /\ outcome' = "none" /\ grant' = NoGrant /\ files' = files
      /\ seen' = [actors |-> {files.actors}, aliases |-> {files.aliases},
                  roles |-> {files.roles}, scopes |-> {files.scopes}]
  BY DEF Arrive, StartChain
<1>2. files \in Files BY DEF CallInv, TypeOK
<1>3. TypeOK' BY <1>1, <1>2 DEF TypeOK, Files, NoGrant, Unread
<1>4. files' \in Mixtures' BY <1>1, <1>2 DEF Files, Mixtures
<1>5. ReadIsSeen' BY <1>1 DEF ReadIsSeen
<1>6. QED BY <1>1, <1>3, <1>4, <1>5 DEF CallInv

LEMMA ReadFileCall == CallInv /\ ReadFile => CallInv'
<1> SUFFICES ASSUME CallInv, ReadFile PROVE CallInv' OBVIOUS
<1>1. /\ layer # "idle" /\ UNCHANGED <<files, call, layer, envelope, outcome, grant, seen>>
      /\ Mixtures' = Mixtures
  BY MixturesStay DEF ReadFile
<1>2. /\ files.actors \in seen.actors /\ files.aliases \in seen.aliases
      /\ files.roles \in seen.roles /\ files.scopes \in seen.scopes /\ files \in Files
  BY <1>1 DEF CallInv, TypeOK, Mixtures
<1>3. TypeOK' /\ ReadIsSeen'
  <2>1. CASE reading = "actors" /\ reading' = "aliases" /\ read' = [read EXCEPT !.actors = files.actors]
    BY <1>1, <1>2, <2>1 DEF CallInv, TypeOK, ReadIsSeen, Files
  <2>2. CASE reading = "aliases" /\ reading' = "roles" /\ read' = [read EXCEPT !.aliases = files.aliases]
    BY <1>1, <1>2, <2>2 DEF CallInv, TypeOK, ReadIsSeen, Files
  <2>3. CASE reading = "roles" /\ reading' = "scopes" /\ read' = [read EXCEPT !.roles = files.roles]
    BY <1>1, <1>2, <2>3 DEF CallInv, TypeOK, ReadIsSeen, Files
  <2>4. CASE reading = "scopes" /\ reading' = "done" /\ read' = [read EXCEPT !.scopes = files.scopes]
    BY <1>1, <1>2, <2>4 DEF CallInv, TypeOK, ReadIsSeen, Files
  <2>5. QED BY <2>1, <2>2, <2>3, <2>4 DEF ReadFile
<1>4. Handed => Handed' BY <1>1, AnswersStay DEF Handed
<1>5. QED BY <1>1, <1>3, <1>4 DEF CallInv

(* A chain that has read its files decides on a mixture the call has seen.  *)
LEMMA ReadIsMixture ==
  ASSUME CallInv, reading = "done"
  PROVE  read \in Mixtures
<1>1. /\ read.actors \in seen.actors /\ read.aliases \in seen.aliases
      /\ read.roles \in seen.roles /\ read.scopes \in seen.scopes
  BY DEF CallInv, ReadIsSeen
<1>2. read = [actors |-> read.actors, aliases |-> read.aliases, roles |-> read.roles,
              scopes |-> read.scopes]
  BY DEF CallInv, TypeOK
<1>3. QED BY <1>1, <1>2 DEF Mixtures

LEMMA HostDecidesCall == CallInv /\ HostDecides => CallInv'
<1> SUFFICES ASSUME CallInv, HostDecides PROVE CallInv' OBVIOUS
<1> DEFINE answer == HostAnswer(read)
<1>1. /\ layer = "bridge" /\ reading = "done" /\ envelope' = answer.envelope
      /\ call' = call /\ files' = files /\ grant' = grant /\ seen' = seen
      /\ reading' = "actors" /\ read' = Unread
      /\ \/ /\ answer.gate0 = "deny" \/ answer.envelope = None
            /\ layer' = "idle"
            /\ outcome' \in {"host_rejected", "host_scope_confirmation",
                             "blocked_missing_access_context"}
         \/ answer.envelope # None /\ layer' = "runtime" /\ outcome' = outcome
  BY DEF HostDecides, End, StartChain, HostAnswer
<1>2. call \in Call /\ files \in Mixtures /\ outcome = "none" BY <1>1 DEF CallInv
<1>3. read \in Mixtures /\ Mixtures' = Mixtures BY <1>1, ReadIsMixture, MixturesStay
<1>4. answer.envelope \in Envelope \cup {None}
  <2>1. /\ Identity(read) \in Resolution /\ BindingsIn(read) \in Bindings
        /\ Identity(read).status = "resolved" => Identity(read).actor \in Actor
    BY <1>2, <1>3, IdentityType DEF CallInv
  <2>2. /\ Hint \in Scope \cup {None} /\ call.asked \in {None, Hint}
        /\ call.capability \in Capability
    BY <1>2, HintType
  <2>3. answer = AccessChain(Identity(read), BindingsIn(read), Hint, call.asked, call.capability)
    BY DEF HostAnswer, Answer, Identity
  <2>4. answer.envelope # None => answer.envelope \in Envelope
    BY <2>1, <2>2, <2>3, EnvelopeTellsTheScope
  <2>5. QED BY <2>4
<1> HIDE DEF answer
<1>5. TypeOK' BY <1>1, <1>4 DEF CallInv, TypeOK, Outcome, Unread
<1>6. ReadIsSeen' BY <1>1 DEF ReadIsSeen
<1>7. \A v : HostAnswer(v)' = HostAnswer(v) BY <1>1, AnswersStay
<1>8. layer' = "runtime" => Handed'
  <2>1. HostAnswer(read) = answer BY DEF answer
  <2>2. QED BY <1>1, <1>3, <1>7, <2>1, AnswersStay DEF Handed
<1>9. layer' = "idle" =>
        \E v \in Mixtures' : HostAnswer(v)'.gate0 = "deny" \/ HostAnswer(v)'.envelope = None
  <2>1. HostAnswer(read) = answer BY DEF answer
  <2>2. QED BY <1>1, <1>2, <1>3, <1>7, <2>1
<1>10. QED BY <1>1, <1>2, <1>3, <1>5, <1>6, <1>8, <1>9 DEF CallInv

LEMMA RuntimeDecidesCall == CallInv /\ RuntimeDecides => CallInv'
<1> SUFFICES ASSUME CallInv, RuntimeDecides PROVE CallInv' OBVIOUS
<1> DEFINE answer == RuntimeAnswer(read)
<1>1. /\ layer = "runtime" /\ reading = "done" /\ layer' = "idle" /\ envelope' = envelope
      /\ call' = call /\ files' = files /\ seen' = seen
      /\ reading' = "actors" /\ read' = Unread
      /\ \/ ~ answer.allowed /\ outcome' = "access_denied" /\ grant' = grant
         \/ /\ answer.allowed /\ outcome' = "granted"
            /\ grant' = [actor |-> Identity(read).actor, scope |-> answer.scope]
  BY DEF RuntimeDecides, End, StartChain, RuntimeAnswer, Identity
<1>2. call \in Call /\ files \in Mixtures /\ outcome = "none" /\ Handed BY <1>1 DEF CallInv
<1>3. read \in Mixtures /\ Mixtures' = Mixtures BY <1>1, ReadIsMixture, MixturesStay
<1>4. answer.allowed => Identity(read).actor \in Actor /\ answer.scope \in Scope
  <2>1. /\ Identity(read) \in Resolution /\ BindingsIn(read) \in Bindings
        /\ Identity(read).status = "resolved" => Identity(read).actor \in Actor
    BY <1>2, <1>3, IdentityType DEF CallInv
  <2>2. TargetScope \in Scope BY <1>2, HandedScope DEF CallInv, Handed
  <2>3. call.capability \in Capability BY <1>2, HintType
  <2>4. answer = AccessChain(Identity(read), BindingsIn(read), TargetScope, TargetScope,
                             call.capability)
    BY DEF RuntimeAnswer, Answer, Identity
  <2>5. QED BY <2>1, <2>2, <2>3, <2>4, AllowedIsHeld
<1> HIDE DEF answer
<1>5. TypeOK' BY <1>1, <1>4 DEF CallInv, TypeOK, Outcome, Unread
<1>6. ReadIsSeen' BY <1>1 DEF ReadIsSeen
<1>7. \A v : /\ Identity(v)' = Identity(v) /\ HostAnswer(v)' = HostAnswer(v)
             /\ RuntimeAnswer(v)' = RuntimeAnswer(v)
  BY <1>1, AnswersStay
<1>8. Handed' BY <1>1, <1>2, <1>3, <1>7 DEF Handed
<1>9. answer = RuntimeAnswer(read) BY DEF answer
<1>10. outcome' = "access_denied" => \E v \in Mixtures' : ~ RuntimeAnswer(v)'.allowed
  BY <1>1, <1>3, <1>7, <1>9
<1>11. outcome' = "granted" =>
         \E v \in Mixtures' :
           /\ RuntimeAnswer(v)'.allowed
           /\ grant' = [actor |-> Identity(v)'.actor, scope |-> RuntimeAnswer(v)'.scope]
  BY <1>1, <1>3, <1>7, <1>9
<1>12. QED BY <1>1, <1>2, <1>5, <1>6, <1>8, <1>10, <1>11 DEF CallInv

LEMMA ReadFailsCall == CallInv /\ ReadFails => CallInv'
<1> SUFFICES ASSUME CallInv, ReadFails PROVE CallInv' OBVIOUS
<1>1. /\ layer # "idle" /\ layer' = "idle" /\ outcome' \in {"threw", "dependency_error"}
      /\ reading' = "actors" /\ read' = Unread
      /\ UNCHANGED <<files, call, envelope, grant, seen>>
  BY DEF ReadFails, End, StartChain
<1>2. TypeOK' BY <1>1 DEF CallInv, TypeOK, Outcome, Unread
<1>3. ReadIsSeen' BY <1>1 DEF ReadIsSeen
<1>4. QED BY <1>1, <1>2, <1>3 DEF CallInv

LEMMA StutterCall == CallInv /\ UNCHANGED vars => CallInv'
<1> SUFFICES ASSUME CallInv, UNCHANGED vars PROVE CallInv' OBVIOUS
<1>1. /\ files' = files /\ call' = call /\ layer' = layer /\ reading' = reading
      /\ read' = read /\ envelope' = envelope /\ outcome' = outcome /\ grant' = grant
      /\ seen' = seen /\ Mixtures' = Mixtures
  BY MixturesStay DEF vars, chain
<1>2. TypeOK' BY <1>1 DEF CallInv, TypeOK
<1>3. ReadIsSeen' BY <1>1 DEF CallInv, ReadIsSeen
<1>4. \A v : /\ Identity(v)' = Identity(v) /\ HostAnswer(v)' = HostAnswer(v)
             /\ RuntimeAnswer(v)' = RuntimeAnswer(v)
  BY <1>1, AnswersStay
<1>5. Handed => Handed' BY <1>1, <1>4 DEF Handed
<1>6. QED BY <1>1, <1>2, <1>3, <1>4, <1>5 DEF CallInv

(* The inductive invariant: a call in flight or ended knows only answers of *)
(* the chain on mixtures of files it has seen.                              *)
THEOREM CallRemembersAnswers == Spec => []CallInv
<1>1. CallInv /\ [Next]_vars => CallInv'
  BY AdministerCall, ArriveCall, ReadFileCall, HostDecidesCall, RuntimeDecidesCall,
     ReadFailsCall, StutterCall DEF Next
<1>2. QED BY InitCall, <1>1, PTL DEF Spec

-----------------------------------------------------------------------------
(* Nothing is served on the strength of a replaced file: each fact a grant  *)
(* rests on stood in its own file at some moment of the call, whichever of  *)
(* the eight reads of the two chains the replacements fall between.         *)
THEOREM ServedWasEntitled == Spec => []GrantedWasEntitled
<1>1. CallInv => GrantedWasEntitled
  <2> SUFFICES ASSUME CallInv, outcome = "granted" PROVE GrantedWasEntitled
    BY DEF GrantedWasEntitled
  <2>1. PICK v \in Mixtures :
          /\ RuntimeAnswer(v).allowed
          /\ grant = [actor |-> Identity(v).actor, scope |-> RuntimeAnswer(v).scope]
    BY DEF CallInv
  <2>2. TypeOK /\ call \in Call /\ Handed BY DEF CallInv
  <2>3. TargetScope \in Scope BY <2>2, HandedScope DEF Handed
  <2>4. /\ BindingsIn(v) \in Bindings /\ Identity(v) \in Resolution
        /\ Identity(v).status = "resolved" =>
             /\ Identity(v).actor \in Actor
             /\ Identity(v).tenant = v.actors.tenant[Identity(v).actor]
             /\ Sends(v, Identity(v).actor)
    BY <2>2, IdentityType
  <2>5. call.capability \in Capability BY <2>2, HintType
  <2>6. RuntimeAnswer(v) = AccessChain(Identity(v), BindingsIn(v), TargetScope, TargetScope,
                                       call.capability)
    BY DEF RuntimeAnswer, Answer, Identity
  <2>7. /\ Identity(v).status = "resolved"
        /\ Holds(Identity(v).tenant, BindingsIn(v), Identity(v).actor, call.capability,
                 RuntimeAnswer(v).scope)
    BY <2>1, <2>3, <2>4, <2>5, <2>6, AllowedIsHeld
  <2>8. Entitled(v, Identity(v).actor, RuntimeAnswer(v).scope) BY <2>4, <2>7 DEF Entitled
  <2>9. QED BY <2>1, <2>8 DEF GrantedWasEntitled
<1>2. QED BY CallRemembersAnswers, <1>1, PTL

(* A scope is never guessed: the runtime serves the scope the call named,   *)
(* or the only one its sender had in the files the bridge read.             *)
THEOREM NoScopeGuessed == Spec => []ScopeIsNeverGuessed
<1>1. CallInv => ScopeIsNeverGuessed
  <2> SUFFICES ASSUME CallInv, outcome = "granted" PROVE ScopeIsNeverGuessed
    BY DEF ScopeIsNeverGuessed
  <2>1. PICK v \in Mixtures :
          /\ RuntimeAnswer(v).allowed
          /\ grant = [actor |-> Identity(v).actor, scope |-> RuntimeAnswer(v).scope]
    BY DEF CallInv
  <2>2. TypeOK /\ call \in Call /\ Handed BY DEF CallInv
  <2>3. PICK x \in Mixtures : envelope = HostAnswer(x).envelope /\ envelope # None
    BY <2>2 DEF Handed
  <2>4. /\ Identity(x).status = "resolved" /\ TargetScope \in Scope
        /\ Hint # None => TargetScope = Hint
        /\ Hint = None => OwnScopes(x, Identity(x).actor) = {TargetScope}
    BY <2>2, <2>3, HandedScope
  <2>5. grant.scope = TargetScope
    <3>1. /\ Identity(v) \in Resolution /\ BindingsIn(v) \in Bindings
          /\ Identity(v).status = "resolved" => Identity(v).actor \in Actor
      BY <2>2, IdentityType
    <3>2. call.capability \in Capability BY <2>2, HintType
    <3>3. RuntimeAnswer(v) = AccessChain(Identity(v), BindingsIn(v), TargetScope, TargetScope,
                                         call.capability)
      BY DEF RuntimeAnswer, Answer, Identity
    <3>4. RuntimeAnswer(v).scope = TargetScope
      BY <2>1, <2>4, <3>1, <3>2, <3>3, AllowedIsHeld
    <3>5. QED BY <2>1, <3>4
  <2>6. Identity(x).actor \in Actor /\ Sends(x, Identity(x).actor)
    BY <2>2, <2>4, IdentityType
  <2>7. QED BY <2>4, <2>5, <2>6 DEF ScopeIsNeverGuessed
<1>2. QED BY CallRemembersAnswers, <1>1, PTL

(* On unchanged files the runtime's chain allows what the bridge's chain    *)
(* handed over...                                                           *)
LEMMA RuntimeConcurs ==
  ASSUME CallInv, call \in Call, NEW v \in Mixtures, Mixtures = {v}, Handed
  PROVE  /\ RuntimeAnswer(v).allowed
         /\ \E a \in Actor, s \in Scope : Wanted(v, a, s) /\ Entitled(v, a, s)
<1> DEFINE who == Identity(v)
           b   == BindingsIn(v)
<1>1. TypeOK /\ envelope = HostAnswer(v).envelope /\ envelope # None
  BY DEF CallInv, Handed
<1>2. /\ HostAnswer(v).allowed /\ who.status = "resolved" /\ TargetScope \in Scope
      /\ Entitled(v, who.actor, TargetScope)
      /\ Hint # None => TargetScope = Hint
      /\ Hint = None => OwnScopes(v, who.actor) = {TargetScope}
  BY <1>1, HandedScope
<1>3. /\ who \in Resolution /\ b \in Bindings /\ who.actor \in Actor
      /\ who.tenant = v.actors.tenant[who.actor]
  BY <1>1, <1>2, IdentityType
<1>4. call.capability \in Capability /\ TargetScope # None BY <1>2, HintType
<1>5. RuntimeAnswer(v).allowed
  <2>1. Holds(who.tenant, b, who.actor, call.capability, TargetScope)
    BY <1>2, <1>3 DEF Entitled
  <2>2. RuntimeAnswer(v) = AccessChain(who, b, TargetScope, TargetScope, call.capability)
    BY DEF RuntimeAnswer, Answer, Identity
  <2> HIDE DEF who, b
  <2>3. QED BY <1>2, <1>3, <1>4, <2>1, <2>2, EntitledIsAllowed
<1>6. Hint = None => AutoBindSingleScope
  <2> SUFFICES ASSUME Hint = None, ~ AutoBindSingleScope PROVE FALSE OBVIOUS
  <2>1. call.asked = None BY HintType
  <2>2. SelectedScope(who, b, Hint) = None BY DEF SelectedScope
  <2>3. SnapshotOf(who, b, Hint).selected = None BY <1>2, <2>2 DEF SnapshotOf
  <2>4. ~ GrantIssued(Gate0(who, SnapshotOf(who, b, Hint)), SnapshotOf(who, b, Hint),
                      call.asked, call.capability)
    BY <2>3 DEF GrantIssued
  <2>5. HostAnswer(v) = AccessChain(who, b, Hint, call.asked, call.capability)
    BY DEF HostAnswer, Answer, Identity
  <2> HIDE DEF who, b
  <2>6. HostAnswer(v).envelope = None
    BY <2>1, <2>4, <2>5 DEF AccessChain, Selecting
  <2>7. QED BY <1>1, <2>6
<1>7. Wanted(v, who.actor, TargetScope) BY <1>2, <1>6 DEF Wanted
<1>8. QED BY <1>2, <1>3, <1>5, <1>7

(* ...and the bridge refuses nobody who is entitled. *)
LEMMA BridgeRefusesNoEntitled ==
  ASSUME CallInv, call \in Call, NEW v \in Mixtures, NEW a \in Actor, NEW s \in Scope,
         Wanted(v, a, s), Entitled(v, a, s)
  PROVE  HostAnswer(v).gate0 # "deny" /\ HostAnswer(v).envelope # None
<1> DEFINE who == Identity(v)
           b   == BindingsIn(v)
<1>1. TypeOK BY DEF CallInv
<1>2. ActorsIn(v) \in ActorRegistry /\ b \in Bindings /\ who \in Resolution
  BY <1>1, IdentityType
<1>3. /\ Hint \in Scope \cup {None} /\ call.asked \in {None, Hint}
      /\ call.evidence \in SUBSET Alias /\ call.capability \in Capability
  BY HintType
<1>4. who = [status |-> "resolved", actor |-> a, tenant |-> ActorsIn(v).tenant[a]]
  BY <1>2, <1>3, ActsForResolved DEF Identity, Entitled, Sends
<1>5. who.status = "resolved" /\ who.actor = a /\ who.tenant = v.actors.tenant[a]
  <2>1. ActorsIn(v).tenant = v.actors.tenant BY DEF ActorsIn
  <2> HIDE DEF who
  <2>2. QED BY <1>4, <2>1
<1>6. HostAnswer(v) = AccessChain(who, b, Hint, call.asked, call.capability)
  BY DEF HostAnswer, Answer, Identity
<1>7. IF Hint # None THEN s = Hint
      ELSE AutoBindSingleScope /\ ScopesOf(who.tenant, b, who.actor) = {s}
  BY <1>5 DEF Wanted, OwnScopes
<1>8. Holds(who.tenant, b, who.actor, call.capability, s) BY <1>5 DEF Entitled
<1> HIDE DEF who, b
<1>9. QED BY <1>2, <1>3, <1>5, <1>6, <1>7, <1>8, EntitledIsAllowed

(* The two layers agree on a call during which no file changes, and grant   *)
(* it exactly if its sender is entitled.                                    *)
THEOREM LayersNeverDisagree == Spec => []LayersAgree
<1>1. CallInv => LayersAgree
  <2> SUFFICES ASSUME CallInv, NEW v \in Mixtures, Undisturbed(v)
               PROVE  /\ outcome # "access_denied"
                      /\ outcome = "granted" <=>
                           \E a \in Actor, s \in Scope : Wanted(v, a, s) /\ Entitled(v, a, s)
    BY DEF LayersAgree
  <2>1. /\ Mixtures = {v} /\ outcome \notin {"none", "threw", "dependency_error"}
        /\ call \in Call /\ outcome \in Outcome
    BY DEF CallInv, TypeOK, Undisturbed
  <2>2. outcome # "access_denied"
    <3> SUFFICES ASSUME outcome = "access_denied" PROVE FALSE OBVIOUS
    <3>1. Handed /\ ~ RuntimeAnswer(v).allowed BY <2>1 DEF CallInv
    <3>2. QED BY <2>1, <3>1, RuntimeConcurs
  <2>3. ASSUME outcome = "granted"
        PROVE  \E a \in Actor, s \in Scope : Wanted(v, a, s) /\ Entitled(v, a, s)
    <3>1. Handed BY <2>3 DEF CallInv
    <3>2. QED BY <2>1, <3>1, RuntimeConcurs
  <2>4. ASSUME NEW a \in Actor, NEW s \in Scope, Wanted(v, a, s), Entitled(v, a, s)
        PROVE  outcome = "granted"
    <3>1. HostAnswer(v).gate0 # "deny" /\ HostAnswer(v).envelope # None
      BY <2>1, <2>4, BridgeRefusesNoEntitled
    <3>2. outcome \notin {"host_rejected", "host_scope_confirmation",
                          "blocked_missing_access_context"}
      BY <2>1, <3>1 DEF CallInv
    <3>3. QED BY <2>1, <2>2, <3>2 DEF Outcome
  <2>5. QED BY <2>2, <2>3, <2>4
<1>2. QED BY CallRemembersAnswers, <1>1, PTL
=============================================================================

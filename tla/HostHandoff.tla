---------------------------- MODULE HostHandoff ----------------------------
(***************************************************************************)
(* A tool call of the host, from its arrival to the decision it is served  *)
(* under.  The bridge runs the access chain of the auth kernel and         *)
(* enforces its gate 0; what passes is handed to the runtime, which        *)
(* derives the target scope from the envelope and runs the access chain    *)
(* anew for the same evidence.  Each chain reads four files one after the  *)
(* other - the actors, their aliases, the role and the scope bindings -    *)
(* and an administrator may replace any of them between two reads, so that *)
(* a chain may decide on a mixture of files no moment has ever seen.       *)
(*                                                                         *)
(* Calls share nothing but these files, so one call at a time is followed. *)
(* What the runtime does under a granted decision is GuardedRuntime.  The  *)
(* override of the conversation profile, a fifth file, does not change.    *)
(***************************************************************************)
EXTENDS AuthKernel

CONSTANTS
  Calls,            \* the tool calls that may arrive
  ActorFiles, AliasFiles, RoleFiles, ScopeFiles,   \* what the files may hold
  MaxMixtures       \* bound of the model: mixtures of files one call may read

\* asked is the scope the tool input names, default the defaultScopeRef of
\* the plugin's configuration.
Call ==
  [evidence : SUBSET Alias, capability : Capability, asked : Scope \cup {None},
   default : Scope \cup {None}]

ASSUME HandoffAssumption ==
  /\ Calls \subseteq Call
  /\ ActorFiles \subseteq ActorFile /\ AliasFiles \subseteq AliasFile
  /\ RoleFiles \subseteq RoleFile /\ ScopeFiles \subseteq ScopeFile
  /\ MaxMixtures \in Nat

NoCall  == [evidence |-> {}, capability |-> None, asked |-> None, default |-> None]
NoGrant == [actor |-> None, scope |-> None]
Unread  == [actors |-> None, aliases |-> None, roles |-> None, scopes |-> None]

Outcome == {"host_rejected", "host_scope_confirmation", "blocked_missing_access_context",
            "access_denied", "granted", "threw", "dependency_error"}

VARIABLES
  files,
  call,
  layer,      \* whose chain is under way: the bridge's or the runtime's
  reading,    \* the file this chain reads next, "done" once it has them all
  read,       \* what it has read
  envelope,   \* the envelope the bridge handed over
  outcome,
  grant,      \* the actor and scope the call is served under
  seen        \* history: per file, its contents since the call arrived

chain == <<layer, reading, read>>
vars  == <<files, call, chain, envelope, outcome, grant, seen>>

-----------------------------------------------------------------------------
NothingSeen == [actors |-> {}, aliases |-> {}, roles |-> {}, scopes |-> {}]

Seeing(v) ==
  [actors |-> seen.actors \cup {v.actors}, aliases |-> seen.aliases \cup {v.aliases},
   roles |-> seen.roles \cup {v.roles}, scopes |-> seen.scopes \cup {v.scopes}]

\* what one call may have read: each file as it stood at some moment of it
Mixtures ==
  [actors : seen.actors, aliases : seen.aliases, roles : seen.roles, scopes : seen.scopes]

Init ==
  /\ files \in [actors : ActorFiles, aliases : AliasFiles, roles : RoleFiles,
                scopes : ScopeFiles]
  /\ call = NoCall /\ layer = "idle" /\ reading = "actors" /\ read = Unread
  /\ envelope = None /\ outcome = "none" /\ grant = NoGrant
  /\ seen = NothingSeen

\* An override file is written, between any two reads of a call.
Write(new) ==
  /\ new # files
  /\ files' = new
  /\ seen' = IF layer = "idle" THEN seen ELSE Seeing(new)
  /\ Cardinality(Mixtures') <= MaxMixtures
  /\ UNCHANGED <<call, chain, envelope, outcome, grant>>

Administer ==
  \/ \E c \in ActorFiles : Write([files EXCEPT !.actors = c])
  \/ \E c \in AliasFiles : Write([files EXCEPT !.aliases = c])
  \/ \E c \in RoleFiles : Write([files EXCEPT !.roles = c])
  \/ \E c \in ScopeFiles : Write([files EXCEPT !.scopes = c])

StartChain(l) == layer' = l /\ reading' = "actors" /\ read' = Unread

End(result) == StartChain("idle") /\ outcome' = result

Arrive(q) ==
  /\ layer = "idle"
  /\ call' = q /\ StartChain("bridge")
  /\ seen' = [actors |-> {files.actors}, aliases |-> {files.aliases},
              roles |-> {files.roles}, scopes |-> {files.scopes}]
  /\ envelope' = None /\ outcome' = "none" /\ grant' = NoGrant
  /\ UNCHANGED files

Hint == IF call.asked # None THEN call.asked ELSE call.default

\* The four reads of a chain, in the order of the code
ReadFile ==
  /\ layer # "idle"
  /\ \/ reading = "actors"  /\ reading' = "aliases" /\ read' = [read EXCEPT !.actors = files.actors]
     \/ reading = "aliases" /\ reading' = "roles"   /\ read' = [read EXCEPT !.aliases = files.aliases]
     \/ reading = "roles"   /\ reading' = "scopes"  /\ read' = [read EXCEPT !.roles = files.roles]
     \/ reading = "scopes"  /\ reading' = "done"    /\ read' = [read EXCEPT !.scopes = files.scopes]
  /\ UNCHANGED <<files, call, layer, envelope, outcome, grant, seen>>

\* what a chain that has read v makes of the call
Answer(v, hint, requested) ==
  AccessChain(Resolve(ActorsIn(v), call.evidence), BindingsIn(v), hint, requested,
              call.capability)

\* The bridge's chain and enforceGate0Result: what is not refused by gate 0
\* still needs an envelope to be handed over.
HostDecides ==
  LET answer == Answer(read, Hint, call.asked) IN
  /\ layer = "bridge" /\ reading = "done"
  /\ envelope' = answer.envelope
  /\ \/ answer.gate0 = "deny" /\ End("host_rejected")
     \/ answer.gate0 = "restricted" /\ answer.envelope = None /\ End("host_scope_confirmation")
     \/ answer.gate0 = "allow" /\ answer.envelope = None /\ End("blocked_missing_access_context")
     \/ answer.gate0 # "deny" /\ answer.envelope # None
        /\ StartChain("runtime") /\ UNCHANGED outcome
  /\ UNCHANGED <<files, call, grant, seen>>

\* mutant: the runtime is told the scope of the tool input only
AskedOnly == call.asked

\* chooseTargetScopeRef
TargetScope == IF Hint \in envelope.granted THEN Hint ELSE envelope.primary

\* The runtime's own chain, for the scope of its plan: the decision it
\* serves under.
RuntimeDecides ==
  LET answer == Answer(read, TargetScope, TargetScope)
  IN  /\ layer = "runtime" /\ reading = "done"
      /\ \/ ~ answer.allowed /\ End("access_denied") /\ UNCHANGED grant
         \/ /\ answer.allowed /\ End("granted")
            /\ grant' = [actor |-> Resolve(ActorsIn(read), call.evidence).actor,
                         scope |-> answer.scope]
      /\ UNCHANGED <<files, call, envelope, seen>>

\* A file cannot be parsed while it is being written: the bridge's chain
\* throws, the runtime's ends in a dependency error.
ReadFails ==
  /\ reading # "done"
  /\ \/ layer = "bridge" /\ End("threw")
     \/ layer = "runtime" /\ End("dependency_error")
  /\ UNCHANGED <<files, call, envelope, grant, seen>>

Next ==
  \/ Administer
  \/ \E q \in Calls : Arrive(q)
  \/ ReadFile \/ HostDecides \/ RuntimeDecides \/ ReadFails

Spec == Init /\ [][Next]_vars

-----------------------------------------------------------------------------
TypeOK ==
  /\ files \in Files
  /\ call \in Call \cup {NoCall}
  /\ layer \in {"idle", "bridge", "runtime"}
  /\ reading \in {"actors", "aliases", "roles", "scopes", "done"}
  /\ read \in [actors : ActorFile \cup {None}, aliases : AliasFile \cup {None},
              roles : RoleFile \cup {None}, scopes : ScopeFile \cup {None}]
  /\ envelope \in Envelope \cup {None}
  /\ outcome \in Outcome \cup {"none"}
  /\ grant \in [actor : Actor \cup {None}, scope : Scope \cup {None}]
  /\ seen \in [actors : SUBSET ActorFile, aliases : SUBSET AliasFile,
              roles : SUBSET RoleFile, scopes : SUBSET ScopeFile]

\* What the policy says, without the chain: the evidence is that of one
\* active actor, all of whose scopes are in its own tenant...
ActsFor(registry, evidence, a) ==
  /\ \E x \in evidence : registry.alias[x] = a
  /\ \A x \in evidence : registry.alias[x] \in {a, None}
  /\ registry.state[a] = "active"

ScopesOf(tenant, b, a) == {s \in Scope : <<a, tenant, s>> \in b.scopes}

\* ...which holds the scope, and a role that grants the capability.
Holds(tenant, b, a, capability, s) ==
  /\ s \in ScopesOf(tenant, b, a)
  /\ \A t \in Tenant, x \in Scope : <<a, t, x>> \in b.scopes => t = tenant
  /\ \E r \in Role : <<a, r>> \in b.roles /\ capability \in Grants[r]

Sends(v, a)       == ActsFor(ActorsIn(v), call.evidence, a)
OwnScopes(v, a)   == ScopesOf(v.actors.tenant[a], BindingsIn(v), a)
Entitled(v, a, s) ==
  Sends(v, a) /\ Holds(v.actors.tenant[a], BindingsIn(v), a, call.capability, s)

(* Nothing is served on the strength of a file that was replaced before    *)
(* the call arrived: whoever the bridge took the sender for and whatever   *)
(* its envelope says, each fact the grant rests on - the alias, the active *)
(* actor and its tenant, the role, the scope - stood in its own file at    *)
(* some moment of the call.  They need not have stood there together: a    *)
(* role that was taken away may be combined with a scope that was given    *)
(* only later.                                                             *)
GrantedWasEntitled == outcome = "granted" =>
  \E v \in Mixtures : Entitled(v, grant.actor, grant.scope)

(* "The multi-scope manager without scope selection stays restricted": a   *)
(* scope is never guessed.  A call that names one is served in it or not   *)
(* at all; one that names none only in the one scope its sender had, going *)
(* by files as they stood while the call was under way.                    *)
ScopeIsNeverGuessed == outcome = "granted" =>
  IF Hint # None THEN grant.scope = Hint
  ELSE \E v \in Mixtures, a \in Actor : Sends(v, a) /\ OwnScopes(v, a) = {grant.scope}

\* the scope a call is about
Wanted(v, a, s) ==
  IF Hint # None THEN s = Hint ELSE AutoBindSingleScope /\ OwnScopes(v, a) = {s}

(* The two layers agree: if no file changed while a call was under way and *)
(* none failed to be read, the runtime does not refuse what the bridge     *)
(* handed over, and the call is granted exactly if its sender is entitled. *)
Undisturbed(v) == Mixtures = {v} /\ outcome \notin {"none", "threw", "dependency_error"}

LayersAgree ==
  \A v \in Mixtures : Undisturbed(v) =>
    /\ outcome # "access_denied"
    /\ outcome = "granted" <=> \E a \in Actor, s \in Scope : Wanted(v, a, s) /\ Entitled(v, a, s)

(* What the plugin tells the host of its tools, "Omit to let Navly fall    *)
(* back to the actor primary scope when available": a call that names no   *)
(* scope, of a sender entitled in its primary scope, is served in that.    *)
(* The code asks a sender of several scopes to select one.                 *)
PrimaryScopeStandsIn ==
  \A v \in Mixtures, a \in Actor :
    Undisturbed(v) /\ Hint = None /\ Entitled(v, a, v.scopes.first[a]) =>
      outcome = "granted" /\ grant.scope = v.scopes.first[a]
=============================================================================

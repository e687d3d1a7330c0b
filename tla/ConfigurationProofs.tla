------------------------- MODULE ConfigurationProofs -------------------------
(***************************************************************************)
(* Proofs about what the two configurations decide: GatewayConfig, for     *)
(* every set of settings, model names, environments and files, over any    *)
(* number of starts and edits; and ToolPolicy, for every set of tools,     *)
(* classification of their names, configuration and history of starts.     *)
(*                                                                         *)
(* The gateway and the broker each decide once, from sources that change   *)
(* under them.  So each invariant says of the process what the sources     *)
(* said when it started: of the gateway, with what was asked of the        *)
(* database since; of the broker, with the rules that each record of its   *)
(* catalog follows.  The two share no variable.                            *)
(***************************************************************************)
EXTENDS GatewayConfig, ToolPolicy, TLAPS

-----------------------------------------------------------------------------
(* The configuration of the gateway. *)

(* The database holds whatever was last asked for, and a running process has
   what was asked before it started. *)
Kept ==
  /\ \A k \in Keys : asked[k] # "absent" => db[k] = asked[k]
  /\ AskedIsApplied

(* The pool of a running process was filtered against its own runtimes. *)
Apart ==
  proc # Stopped =>
    /\ \A u \in proc.pool : \A m \in u.models :
         Lower[m] \notin ManagedAliases(proc.managed)
    /\ \A u \in proc.pool : u.local => proc.allowed

IInv == TypeOK /\ Kept /\ Apart

(* What the environment and the file hold. *)
LEMMA SourceTypes ==
  ASSUME TypeOK
  PROVE  env \in Source /\ file \in Source
BY SourcesAssumption DEF TypeOK

(* A setting of a start is a value; of a number, one that parses. *)
LEMMA ConfiguredType ==
  ASSUME TypeOK, NEW k \in Keys
  PROVE  /\ Configured(k) \in Given \ {"absent"}
         /\ k \in Numbers => Configured(k) \in Values \cup {"zero"}
<1> USE ConfigAssumption
<1>1. env.settings[k] \in Given /\ file.settings[k] \in Given
  BY SourceTypes DEF Source
<1>2. Default \in Given \ {"absent"}
  BY DEF Given
<1>3. /\ ReadFile(k) \in Given \ {"absent"}
      /\ k \in Numbers => ReadFile(k) \in Values \cup {"zero"}
  BY <1>1, <1>2 DEF ReadFile, Given
<1>4. CASE env.settings[k] \in Usable(k) \cup {"zero"}
  <2>1. Configured(k) = env.settings[k]
    BY <1>4 DEF Configured, ReadEnv
  <2>2. QED  BY <1>1, <1>4, <2>1 DEF Usable, Given
<1>5. CASE env.settings[k] \notin Usable(k) \cup {"zero"}
  <2>1. Configured(k) = ReadFile(k)
    BY <1>5 DEF Configured, ReadEnv
  <2>2. QED  BY <1>3, <2>1
<1>6. QED  BY <1>4, <1>5

(* What a start takes of a stored setting. *)
LEMMA AppliedType ==
  ASSUME TypeOK, NEW k \in Keys, NEW stored \in Given \ {"absent"}
  PROVE  /\ Applied(k, stored) \in Given \ {"absent"}
         /\ k \in Numbers => Applied(k, stored) \in Values \cup {"zero"}
         /\ stored \in Usable(k) => Applied(k, stored) = stored
<1>1. CASE stored \in Usable(k)
  BY <1>1, ConfigAssumption DEF Applied, Usable
<1>2. CASE stored \notin Usable(k)
  BY <1>2, ConfiguredType DEF Applied
<1>3. QED  BY <1>1, <1>2

LEMMA UsableIsGiven ==
  ASSUME NEW k \in Keys
  PROVE  Usable(k) \subseteq Given \ {"absent"}
BY ConfigAssumption DEF Usable, Given

(* The first start writes every setting; a later one overwrites none. *)
LEMMA SeedType ==
  ASSUME TypeOK
  PROVE  /\ Seed \in [Keys -> Given \ {"absent"}]
         /\ \A k \in Keys : db[k] # "absent" => Seed[k] = db[k]
<1>1. ASSUME NEW k \in Keys
      PROVE  (IF db[k] = "absent" THEN Configured(k) ELSE db[k])
               \in Given \ {"absent"}
  BY ConfiguredType DEF TypeOK
<1>2. QED  BY <1>1 DEF Seed

LEMMA RuntimesType ==
  ASSUME TypeOK
  PROVE  ManagedRuntimes \in SUBSET Runtime
BY SourceTypes DEF ManagedRuntimes, ListOf, Source, List

LEMMA PoolType ==
  ASSUME TypeOK, NEW rs
  PROVE  OpenAiUpstreams(rs) \in SUBSET Upstream
BY SourceTypes DEF OpenAiUpstreams, ListOf, Source, List

LEMMA InitHolds == Init => IInv
<1>1. SUFFICES ASSUME Init PROVE IInv
  OBVIOUS
<1>2. TypeOK
  BY <1>1 DEF Init, TypeOK, Given
<1>3. Kept
  BY <1>1 DEF Init, Kept, AskedIsApplied
<1>4. Apart
  BY <1>1 DEF Init, Apart
<1>5. QED  BY <1>2, <1>3, <1>4 DEF IInv

(* A start makes a process that its sources justify. *)
LEMMA StartHolds == IInv /\ Start => IInv'
<1>1. SUFFICES ASSUME IInv, Start PROVE IInv'
  OBVIOUS
<1>2. TypeOK /\ Kept
  BY <1>1 DEF IInv
<1> DEFINE settings == [k \in Keys |-> Applied(k, db'[k])]
           managed == ManagedRuntimes
           pool == OpenAiUpstreams(managed)
           allowed == "yes" \in {env.allow, file.allow}
<1>3. /\ db' = Seed /\ UNCHANGED <<env, file, asked>>
      /\ proc' = [settings |-> settings, managed |-> managed, pool |-> pool,
                  asked |-> asked, allowed |-> allowed]
  BY <1>1 DEF Start
<1>4. /\ db' \in [Keys -> Given \ {"absent"}]
      /\ \A k \in Keys : db[k] # "absent" => db'[k] = db[k]
  BY <1>2, <1>3, SeedType
<1>5. settings \in [Keys -> Given \ {"absent"}]
  <2>1. \A k \in Keys : Applied(k, db'[k]) \in Given \ {"absent"}
    BY <1>2, <1>4, AppliedType
  <2>2. QED  BY <2>1
<1>6. \A k \in Numbers : settings[k] \in Values \cup {"zero"}
  BY <1>2, <1>4, AppliedType DEF Keys
<1>7. \A k \in Keys : db'[k] \in Usable(k) => settings[k] = db'[k]
  BY <1>2, <1>4, AppliedType
<1>8. managed \in SUBSET Runtime /\ pool \in SUBSET Upstream
  BY <1>2, RuntimesType, PoolType
<1>9. /\ \A u \in pool : \A m \in u.models :
           Lower[m] \notin ManagedAliases(managed)
      /\ \A u \in pool : u.local => allowed
  <2> HIDE DEF managed
  <2>1. QED  BY DEF OpenAiUpstreams, ReadFlag
<1> HIDE DEF settings, managed, pool, allowed
<1>10. /\ proc'.settings = settings /\ proc'.managed = managed
       /\ proc'.pool = pool /\ proc'.asked = asked /\ proc'.allowed = allowed
  BY <1>3
<1>11. TypeOK'
  <2>1. proc' \in Process
    <3>1. allowed \in BOOLEAN /\ asked \in [Keys -> Given]
      BY <1>2 DEF allowed, TypeOK
    <3>2. QED  BY <1>3, <1>5, <1>8, <3>1 DEF Process
  <2>2. db' \in [Keys -> Given]
    BY <1>4
  <2>3. QED  BY <1>2, <1>3, <1>6, <1>10, <2>1, <2>2 DEF TypeOK
<1>12. \A k \in Keys : asked[k] # "absent" => db'[k] = asked[k]
  BY <1>2, <1>4 DEF Kept
<1>13. AskedIsApplied'
  <2>1. ASSUME NEW k \in Keys, asked[k] \in Usable(k)
        PROVE  settings[k] = asked[k]
    BY <1>7, <1>12, <2>1, UsableIsGiven
  <2>2. QED  BY <1>6, <1>10, <2>1 DEF AskedIsApplied, Usable
<1>14. Kept'
  BY <1>3, <1>12, <1>13 DEF Kept
<1>15. Apart'
  BY <1>9, <1>10 DEF Apart, ManagedAliases
<1>16. QED  BY <1>11, <1>14, <1>15 DEF IInv

(* A change of the settings is for the next process, not for this one. *)
LEMMA UpdateHolds ==
  ASSUME IInv, NEW ks \in SUBSET Keys,
         NEW entries \in [ks -> Given \ {"absent"}], UpdateConfig(ks, entries)
  PROVE  IInv'
<1>1. /\ db' = [k \in Keys |-> IF k \in ks THEN entries[k] ELSE db[k]]
      /\ asked' = [k \in Keys |-> IF k \in ks THEN entries[k] ELSE asked[k]]
      /\ UNCHANGED <<env, file, proc>>
  BY DEF UpdateConfig
<1>2. TypeOK /\ Kept /\ Apart
  BY DEF IInv
<1>3. db' \in [Keys -> Given] /\ asked' \in [Keys -> Given]
  <2>1. \A k \in ks : entries[k] \in Given
    OBVIOUS
  <2>2. db \in [Keys -> Given] /\ asked \in [Keys -> Given]
    BY <1>2 DEF TypeOK
  <2>3. QED  BY <1>1, <2>1, <2>2
<1>4. TypeOK'
  BY <1>1, <1>2, <1>3 DEF TypeOK
<1>5. \A k \in Keys : asked'[k] # "absent" => db'[k] = asked'[k]
  BY <1>1, <1>2 DEF Kept
<1>6. AskedIsApplied' /\ Apart'
  BY <1>1, <1>2 DEF Kept, AskedIsApplied, Apart, Usable, ManagedAliases
<1>7. QED  BY <1>4, <1>5, <1>6 DEF IInv, Kept

LEMMA StepHolds == IInv /\ [Next]_vars => IInv'
<1>1. SUFFICES ASSUME IInv, [Next]_vars PROVE IInv'
  OBVIOUS
<1>2. TypeOK /\ Kept /\ Apart
  BY <1>1 DEF IInv
<1>3. ASSUME UNCHANGED <<db, asked, proc>>, env' \in Envs, file' \in Files
      PROVE  IInv'
  <2>1. TypeOK'
    BY <1>2, <1>3 DEF TypeOK
  <2>2. Kept' /\ Apart'
    BY <1>2, <1>3 DEF Kept, AskedIsApplied, Apart, Usable, ManagedAliases
  <2>3. QED  BY <2>1, <2>2 DEF IInv
<1>4. env \in Envs /\ file \in Files
  BY <1>2 DEF TypeOK
<1>5. CASE Start
  BY <1>1, <1>5, StartHolds
<1>6. CASE Stop
  <2>1. TypeOK'
    BY <1>2, <1>6 DEF Stop, TypeOK
  <2>2. Kept' /\ Apart'
    BY <1>2, <1>6 DEF Stop, Kept, AskedIsApplied, Apart
  <2>3. QED  BY <2>1, <2>2 DEF IInv
<1>7. CASE EditEnv
  BY <1>3, <1>4, <1>7 DEF EditEnv
<1>8. CASE EditFile
  BY <1>3, <1>4, <1>8 DEF EditFile
<1>9. ASSUME NEW ks \in SUBSET Keys,
             NEW entries \in [ks -> Given \ {"absent"}],
             UpdateConfig(ks, entries)
      PROVE  IInv'
  BY <1>1, <1>9, UpdateHolds
<1>10. CASE UNCHANGED vars
  BY <1>3, <1>4, <1>10 DEF vars
<1>11. QED
  BY <1>1, <1>5, <1>6, <1>7, <1>8, <1>9, <1>10 DEF Next

LEMMA InvariantSeparates == IInv => NoBypass
<1>1. SUFFICES ASSUME IInv, proc # Stopped
               PROVE  /\ \A m \in Names : ~(ServedManaged(m) /\ ServedPooled(m))
                      /\ \A r \in proc.managed : ~ServedPooled(r.upstream)
                      /\ \A u \in proc.pool : u.local => proc.allowed
  BY DEF NoBypass
<1>2. /\ \A u \in proc.pool : \A m \in u.models :
           Lower[m] \notin ManagedAliases(proc.managed)
      /\ \A u \in proc.pool : u.local => proc.allowed
  BY <1>1 DEF IInv, Apart
<1>3. \A r \in proc.managed :
        /\ Lower[r.alias] \in ManagedAliases(proc.managed)
        /\ Lower[r.upstream] \in ManagedAliases(proc.managed)
  BY DEF ManagedAliases
<1>4. \A m \in Names : ~(ServedManaged(m) /\ ServedPooled(m))
  BY <1>2, <1>3 DEF ServedManaged, ServedPooled
<1>5. \A r \in proc.managed : ~ServedPooled(r.upstream)
  BY <1>2, <1>3 DEF ServedPooled
<1>6. QED  BY <1>2, <1>4, <1>5

(* Whatever text the environment, the file and update_config hold, a number
   of a running process is a number (config.ts 66-96, 276-330). *)
THEOREM ConfigTypeCorrect == Spec => []TypeOK
<1>1. IInv => TypeOK
  BY DEF IInv
<1>2. QED  BY InitHolds, StepHolds, <1>1, PTL DEF Spec

(* What update_config was last given is what the next process runs with, over
   any starts and edits of the sources in between (db.ts 287-344). *)
THEOREM AskedSettingsHold == Spec => []AskedIsApplied
<1>1. IInv => AskedIsApplied
  BY DEF IInv, Kept, TypeOK, AskedIsApplied
<1>2. QED  BY InitHolds, StepHolds, <1>1, PTL DEF Spec

(* No configuration lets a request for a managed model reach the pool, where
   nothing admits it to the GPU (config.ts 206-274). *)
THEOREM NothingBypassesTheCoordinator == Spec => []NoBypass
BY InitHolds, StepHolds, InvariantSeparates, PTL DEF Spec

-----------------------------------------------------------------------------
(* The policy of the broker. *)


(* The rules give every tool a policy. *)
LEMMA RecordType ==
  ASSUME NEW c \in Config, NEW t \in Tools
  PROVE  ToolRecord(c, t) \in Record
<1>1. c.default \in Raw /\ c.tools[t] \in Raw \cup {NoEntry}
  BY DEF Config
<1>2. NormalizePolicy(c.default, Base) \in Policy
  BY <1>1 DEF NormalizePolicy, Raw, Policy, Base, Effects, Confirmations
<1>3. Explicit(c, t) \in Policy
  BY <1>1, <1>2
  DEF Explicit, NormalizePolicy, Raw, NoEntry, Policy, Effects, Confirmations
<1>4. ASSUME NEW p \in Policy, NEW e \in Effects
      PROVE  WithEffect(p, e) \in Policy
  BY <1>4 DEF WithEffect, Policy
<1>5. ResolveToolPolicy(c, t) \in Policy
  BY <1>2, <1>3, <1>4 DEF ResolveToolPolicy, Effects
<1>6. IsReadOnlyTool(c, t) \in BOOLEAN
  BY DEF IsReadOnlyTool
<1>7. QED  BY <1>5, <1>6 DEF ToolRecord, Record

(* What is exposed of one configuration is warranted by it. *)
LEMMA ExposedByRules ==
  ASSUME NEW c \in Config, NEW t \in Tools, IsReadOnlyTool(c, t)
  PROVE  /\ t \notin c.exclude
         /\ c.tools[t].confirmation # "required"
         /\ c.default.confirmation = "required"
              => c.tools[t].confirmation \in Confirmations
         /\ \/ c.tools[t].effect = "read"
            \/ /\ c.tools[t] # NoEntry /\ c.tools[t].effect \notin Effects
               /\ c.default.effect = "read"
            \/ /\ c.tools[t] = NoEntry /\ t \notin Mutating
               /\ \/ t \in c.include
                  \/ /\ c.include = {}
                     /\ \/ t \in Reading \/ c.readOnly \/ KnownServer
                        \/ c.default.effect = "read"
<1> DEFINE base == NormalizePolicy(c.default, Base)
           p == ResolveToolPolicy(c, t)
<1>1. c.default \in Raw /\ c.tools[t] \in Raw \cup {NoEntry}
  BY DEF Config
<1>2. p.effect = "read" /\ p.confirmation # "required"
  BY DEF IsReadOnlyTool
<1>3. /\ base \in Policy
      /\ base.effect = "read" => c.default.effect = "read"
      /\ base.confirmation # "required"
           => c.default.confirmation # "required"
  BY <1>1 DEF NormalizePolicy, Base, Raw, Policy, Effects, Confirmations
<1>4. /\ Explicit(c, t) \in Policy
      /\ c.tools[t].effect # "read" /\ Explicit(c, t).effect = "read"
           => c.tools[t].effect \notin Effects /\ base.effect = "read"
      /\ Explicit(c, t).confirmation # "required"
           => /\ c.tools[t].confirmation # "required"
              /\ c.tools[t].confirmation \notin Confirmations
                   => base.confirmation # "required"
  <2>1. Explicit(c, t) = NormalizePolicy(c.tools[t], base)
    BY DEF Explicit
  <2>2. c.tools[t] \in Raw \/ c.tools[t] = NoEntry
    BY <1>1
  <2> HIDE DEF base
  <2>3. QED
    BY <1>3, <2>1, <2>2
    DEF NormalizePolicy, Raw, NoEntry, Policy, Effects, Confirmations
<1>5. ASSUME NEW q \in Policy, NEW e
      PROVE  WithEffect(q, e).effect = e
             /\ WithEffect(q, e).confirmation = q.confirmation
  BY <1>5 DEF WithEffect, Policy
<1>6. WithEffect(Explicit(c, t), "write").effect = "write"
  BY <1>4, <1>5
<1>7. CASE t \notin c.exclude /\ c.tools[t] # NoEntry
  <2>1. p = Explicit(c, t)
    BY <1>7 DEF ResolveToolPolicy
  <2> HIDE DEF p, base
  <2>2. QED  BY <1>2, <1>3, <1>4, <1>7, <2>1
<1>8. CASE t \notin c.exclude /\ c.tools[t] = NoEntry
  <2>1. c.tools[t].confirmation = "none" /\ c.tools[t].effect = "none"
    BY <1>8 DEF NoEntry
  <2>2. \/ /\ t \in Mutating \/ (c.include # {} /\ t \notin c.include)
           /\ p = WithEffect(base, "write")
        \/ /\ t \notin Mutating
           /\ \/ t \in c.include
              \/ /\ c.include = {}
                 /\ t \in Reading \/ c.readOnly \/ KnownServer
           /\ p = WithEffect(base, "read")
        \/ t \notin Mutating /\ c.include = {} /\ p = base
    BY <1>8 DEF ResolveToolPolicy
  <2> HIDE DEF p, base
  <2>3. WithEffect(base, "write").effect = "write"
    BY <1>3, <1>5
  <2>4. p.confirmation = base.confirmation
    BY <1>3, <1>5, <2>2
  <2>5. c.default.confirmation # "required"
    BY <1>2, <1>3, <2>4
  <2>6. QED  BY <1>2, <1>3, <1>8, <2>1, <2>2, <2>3, <2>5
<1>9. CASE t \in c.exclude
  <2>1. p = WithEffect(Explicit(c, t), "write")
    BY <1>9 DEF ResolveToolPolicy
  <2> HIDE DEF p
  <2>2. QED  BY <1>2, <1>6, <2>1
<1>10. QED
  <2> HIDE DEF p, base
  <2>1. QED  BY <1>7, <1>8, <1>9

(* A tool of the include list that no other rule speaks of is exposed. *)
LEMMA IncludedByRules ==
  ASSUME NEW c \in Config, NEW t \in Tools,
         t \in c.include \ (c.exclude \cup Mutating), c.tools[t] = NoEntry,
         c.default.confirmation # "required"
  PROVE  IsReadOnlyTool(c, t)
<1> DEFINE base == NormalizePolicy(c.default, Base)
<1>1. c.default \in Raw
  BY DEF Config
<1>2. base \in Policy /\ base.confirmation # "required"
  BY <1>1 DEF NormalizePolicy, Base, Raw, Policy, Effects, Confirmations
<1>3. ResolveToolPolicy(c, t) = WithEffect(base, "read")
  BY DEF ResolveToolPolicy
<1>4. /\ WithEffect(base, "read").effect = "read"
      /\ WithEffect(base, "read").confirmation = base.confirmation
  <2> HIDE DEF base
  <2>1. QED  BY <1>2 DEF WithEffect, Policy
<1> HIDE DEF base
<1>5. QED  BY <1>2, <1>3, <1>4 DEF IsReadOnlyTool

-----------------------------------------------------------------------------
(* The catalog. *)

(* A record of the catalog is the one that the configuration the broker runs
   with gives now: not that of an earlier start, nor of the file. *)
Current ==
  /\ running # NoBroker => running \in Config
  /\ running = NoBroker => DOMAIN catalog = {}
  /\ DOMAIN catalog \subseteq Tools
  /\ \A t \in DOMAIN catalog : catalog[t] = ToolRecord(running, t)

PolicyInv == PolicyTypeOK /\ Current

LEMMA AppliedRecords ==
  ASSUME NEW c, NEW ts
  PROVE  /\ DOMAIN AppliedTools(c, ts) = ts
         /\ \A t \in ts : AppliedTools(c, ts)[t] = ToolRecord(c, t)
BY DEF AppliedTools

LEMMA StoppedIsNoConfig == NoBroker \notin Config
BY DEF NoBroker, Config

LEMMA EmptyCatalog == DOMAIN << >> = {}
OBVIOUS

(* An applied catalog has the types it should, and is current. *)
LEMMA AppliedIsCurrent ==
  ASSUME NEW c \in Config, NEW ts \in SUBSET Tools,
         running' = c, catalog' = AppliedTools(c, ts)
  PROVE  /\ Current'
         /\ DOMAIN catalog' \subseteq Tools
         /\ \A t \in DOMAIN catalog' : catalog'[t] \in Record
         /\ running' # NoBroker
<1>1. /\ DOMAIN catalog' = ts
      /\ \A t \in ts : catalog'[t] = ToolRecord(c, t)
  BY AppliedRecords
<1>2. running' # NoBroker
  BY StoppedIsNoConfig
<1>3. \A t \in ts : catalog'[t] \in Record
  BY <1>1, RecordType
<1>4. Current'
  BY <1>1, <1>2 DEF Current
<1>5. QED  BY <1>1, <1>2, <1>3, <1>4

LEMMA PolicyInitHolds == PolicyInit => PolicyInv
<1>1. SUFFICES ASSUME PolicyInit PROVE PolicyInv
  OBVIOUS
<1>2. DOMAIN catalog = {}
  BY <1>1, EmptyCatalog DEF PolicyInit
<1>3. PolicyTypeOK
  BY <1>1, <1>2 DEF PolicyInit, PolicyTypeOK
<1>4. Current
  BY <1>1, <1>2 DEF PolicyInit, Current
<1>5. QED  BY <1>3, <1>4 DEF PolicyInv

LEMMA PolicyStepHolds == PolicyInv /\ [PolicyNext]_policyVars => PolicyInv'
<1> USE PolicyAssumption, ConfigsAssumption
<1>1. SUFFICES ASSUME PolicyInv, [PolicyNext]_policyVars PROVE PolicyInv'
  OBVIOUS
<1>2. PolicyTypeOK /\ Current
  BY <1>1 DEF PolicyInv
<1>3. CASE StartBroker
  <2>1. PICK c \in EnabledConfig(conf) :
          running' = c /\ catalog' = AppliedTools(c, cache)
    BY <1>3 DEF StartBroker
  <2>2. c \in Configs /\ c.enabled # "no" /\ c \in Config
    BY <1>2, <2>1 DEF EnabledConfig, PolicyTypeOK
  <2>3. cache \in SUBSET Tools
    BY <1>2 DEF PolicyTypeOK
  <2>4. UNCHANGED <<conf, offered, cache>>
    BY <1>3 DEF StartBroker
  <2>5. /\ Current'
        /\ DOMAIN catalog' \subseteq Tools
        /\ \A t \in DOMAIN catalog' : catalog'[t] \in Record
        /\ running' # NoBroker
    BY <2>1, <2>2, <2>3, AppliedIsCurrent
  <2>6. PolicyTypeOK'
    BY <1>2, <2>1, <2>2, <2>4, <2>5 DEF PolicyTypeOK
  <2>7. QED  BY <2>5, <2>6 DEF PolicyInv
<1>4. CASE Refresh
  <2>1. /\ running \in Config /\ running \in Configs
        /\ running.enabled # "no"
    BY <1>2, <1>4 DEF Refresh, PolicyTypeOK
  <2>2. offered \in SUBSET Tools
    BY <1>2 DEF PolicyTypeOK
  <2>3. /\ catalog' = AppliedTools(running, offered) /\ running' = running
        /\ cache' \in {cache, offered} /\ UNCHANGED <<conf, offered>>
    BY <1>4 DEF Refresh
  <2>4. /\ Current'
        /\ DOMAIN catalog' \subseteq Tools
        /\ \A t \in DOMAIN catalog' : catalog'[t] \in Record
        /\ running' # NoBroker
    BY <2>1, <2>2, <2>3, AppliedIsCurrent
  <2>5. PolicyTypeOK'
    BY <1>2, <2>1, <2>3, <2>4 DEF PolicyTypeOK
  <2>6. QED  BY <2>4, <2>5 DEF PolicyInv
<1>5. CASE StopBroker
  <2>1. DOMAIN catalog' = {}
    BY <1>5, EmptyCatalog DEF StopBroker
  <2>2. PolicyTypeOK'
    BY <1>2, <1>5, <2>1 DEF StopBroker, PolicyTypeOK
  <2>3. Current'
    BY <1>5, <2>1 DEF StopBroker, Current
  <2>4. QED  BY <2>2, <2>3 DEF PolicyInv
<1>6. CASE Edit
  <2>1. PolicyTypeOK'
    BY <1>2, <1>6 DEF Edit, PolicyTypeOK
  <2>2. Current'
    BY <1>2, <1>6 DEF Edit, Current
  <2>3. QED  BY <2>1, <2>2 DEF PolicyInv
<1>7. CASE Offer
  <2>1. PolicyTypeOK'
    BY <1>2, <1>7 DEF Offer, PolicyTypeOK
  <2>2. Current'
    BY <1>2, <1>7 DEF Offer, Current
  <2>3. QED  BY <2>1, <2>2 DEF PolicyInv
<1>8. CASE UNCHANGED policyVars
  BY <1>2, <1>8 DEF PolicyInv, PolicyTypeOK, Current, policyVars
<1>9. QED  BY <1>1, <1>3, <1>4, <1>5, <1>6, <1>7, <1>8 DEF PolicyNext

-----------------------------------------------------------------------------
(* What the invariant gives. *)

LEMMA ExposedFact ==
  ASSUME PolicyInv, NEW t \in Exposed
  PROVE  running \in Config /\ t \in Tools /\ IsReadOnlyTool(running, t)
<1>1. t \in DOMAIN catalog /\ catalog[t].allowed
  BY DEF Exposed
<1>2. running \in Config /\ t \in Tools
  BY <1>1 DEF PolicyInv, Current
<1>3. catalog[t] = ToolRecord(running, t)
  BY <1>1 DEF PolicyInv, Current
<1>4. QED  BY <1>1, <1>2, <1>3 DEF ToolRecord

LEMMA InvariantWarrants == PolicyInv => ExposedIsWarranted
<1>1. SUFFICES ASSUME PolicyInv PROVE ExposedIsWarranted
  OBVIOUS
<1>2. ASSUME NEW t \in Exposed
      PROVE  /\ running \in Config /\ t \in Tools
             /\ IsReadOnlyTool(running, t)
  BY <1>1, <1>2, ExposedFact
<1>3. QED  BY <1>2, ExposedByRules DEF ExposedIsWarranted

LEMMA InvariantExposes == PolicyInv => IncludedIsExposed
<1>1. SUFFICES ASSUME PolicyInv, NEW t \in DOMAIN catalog,
                      t \in running.include \ (running.exclude \cup Mutating),
                      running.tools[t] = NoEntry,
                      running.default.confirmation # "required"
               PROVE  t \in Exposed
  BY DEF IncludedIsExposed
<1>2. running \in Config /\ t \in Tools /\ catalog[t] = ToolRecord(running, t)
  BY <1>1 DEF PolicyInv, Current
<1>3. IsReadOnlyTool(running, t)
  BY <1>1, <1>2, IncludedByRules
<1>4. ResolveToolPolicy(running, t).confirmation # "required"
  BY <1>3 DEF IsReadOnlyTool
<1>5. QED  BY <1>1, <1>2, <1>3, <1>4 DEF Exposed, ToolRecord

(* The broker stays in the states its code can name: whatever the file, the
   cache and the server say, the catalog only holds whole records. *)
THEOREM PolicyTypeCorrect == PolicySpec => []PolicyTypeOK
<1>1. PolicyInv => PolicyTypeOK
  BY DEF PolicyInv
<1>2. QED  BY PolicyInitHolds, PolicyStepHolds, <1>1, PTL DEF PolicySpec

(* The read-only promise of the broker: no rule, order of rules, edited file
   or cache of another configuration exposes a tool without a warrant
   (allowlist.ts 107-152, broker.ts 530-591). *)
THEOREM OnlyWarrantedToolsAreExposed == PolicySpec => []ExposedIsWarranted
BY PolicyInitHolds, PolicyStepHolds, InvariantWarrants, PTL DEF PolicySpec

(* The include list is enough: a tool on it is never lost to the rules that
   follow, nor to a stale cache (allowlist.ts 134-136). *)
THEOREM IncludedToolsAreExposed == PolicySpec => []IncludedIsExposed
BY PolicyInitHolds, PolicyStepHolds, InvariantExposes, PTL DEF PolicySpec

(* Exposure follows the rules of the running configuration both ways, for
   every configuration, list of tools and history (broker.ts 530-591). *)
THEOREM ToolsFollowRules == PolicySpec => []ExposureFollowsRules
<1>1. PolicyInv => ExposureFollowsRules
  BY InvariantWarrants, InvariantExposes DEF ExposureFollowsRules
<1>2. QED  BY PolicyInitHolds, PolicyStepHolds, <1>1, PTL DEF PolicySpec
=============================================================================

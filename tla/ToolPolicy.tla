----------------------------- MODULE ToolPolicy -----------------------------
(***************************************************************************)
(* Which downstream tools the lazy MCP broker exposes: the policy of a     *)
(* tool (allowlist.ts), from the configuration of its server (config.ts),  *)
(* kept in the catalog (catalog.ts, broker.ts 530-591).                    *)
(*                                                                         *)
(* The configuration is read when the broker starts, and the catalog is    *)
(* filled from a file that an earlier process wrote, perhaps under another *)
(* configuration.  One server; McpBroker has its connections.              *)
(*                                                                         *)
(* The names differ from those of GatewayConfig, so that a module can      *)
(* extend both (MCConfiguration).                                          *)
(*                                                                         *)
(* A definition marked "mutant" is the next one with a plausible bug.      *)
(***************************************************************************)
EXTENDS FiniteSets

CONSTANTS
  Tools,
  Mutating, Reading,   \* the tools with a word of MUTATING_WORDS, READ_WORDS
  KnownServer,         \* the server is one of DEFAULT_READ_ONLY_SERVERS
  Configs,             \* the configurations of the server, from Config
  Edited,              \* those the operator may change to later
  Offers               \* the sets of tools that the server may offer

ASSUME PolicyAssumption ==
  /\ IsFiniteSet(Tools)
  /\ Mutating \subseteq Tools /\ Reading \subseteq Tools
  /\ KnownServer \in BOOLEAN /\ Offers \subseteq SUBSET Tools

VARIABLES
  conf,      \* the configuration file, as the operator left it
  running,   \* the configuration the broker runs with, or NoBroker
  offered,   \* what the server answers to tools/list
  cache,     \* the tools in the catalog cache
  catalog    \* this.catalog: the record of each tool it holds

policyVars == <<conf, running, offered, cache, catalog>>

Effects == {"read", "write"}
Confirmations == {"never", "required"}
Policy == [effect : Effects, confirmation : Confirmations]

(* What a configuration may say of a policy; "other" is any other value. *)
Raw == [effect : Effects \cup {"absent", "other"},
        confirmation : Confirmations \cup {"absent", "other"}]
Unset == [effect |-> "absent", confirmation |-> "absent"]
NoEntry == [effect |-> "none", confirmation |-> "none"]

Config ==
  [ enabled : {"absent", "yes", "no"},   \* "0", "false", "no", "off" is "no"
    include : SUBSET Tools, exclude : SUBSET Tools,
    tools : [Tools -> Raw \cup {NoEntry}],     \* tools.<name>, if an object
    default : Raw,                             \* default_policy
    readOnly : BOOLEAN ]                       \* default_read_only is true

ASSUME ConfigsAssumption == Configs \subseteq Config /\ Edited \subseteq Configs

Record == [allowed : BOOLEAN, policy : Policy]

NoBroker == [enabled |-> "stopped"]

-----------------------------------------------------------------------------
(* The policy of a tool. *)

Base == [effect |-> "write", confirmation |-> "never"]

NormalizeRead(raw, fallback) ==       \* mutant: only 'read' is understood
  [ effect |-> IF raw.effect = "read" THEN "read" ELSE fallback.effect,
    confirmation |-> IF raw.confirmation \in Confirmations
                     THEN raw.confirmation ELSE fallback.confirmation ]

NormalizePolicy(raw, fallback) ==
  [ effect |-> IF raw.effect \in Effects THEN raw.effect ELSE fallback.effect,
    confirmation |-> IF raw.confirmation \in Confirmations
                     THEN raw.confirmation ELSE fallback.confirmation ]

Explicit(c, t) ==
  NormalizePolicy(c.tools[t], NormalizePolicy(c.default, Base))

WithEffect(p, effect) == [p EXCEPT !.effect = effect]

(* resolveToolPolicy: the first rule that speaks of the tool decides. *)
ResolveToolPolicy(c, t) ==
  LET base == NormalizePolicy(c.default, Base)
  IN  IF t \in c.exclude THEN WithEffect(Explicit(c, t), "write")
      ELSE IF c.tools[t] # NoEntry THEN Explicit(c, t)
      ELSE IF t \in Mutating THEN WithEffect(base, "write")
      ELSE IF c.include # {}
           THEN WithEffect(base, IF t \in c.include THEN "read" ELSE "write")
      ELSE IF t \in Reading \/ c.readOnly \/ KnownServer
           THEN WithEffect(base, "read")
      ELSE base

IsReadOnlyTool(c, t) ==
  LET p == ResolveToolPolicy(c, t)
  IN  p.effect = "read" /\ p.confirmation # "required"

ToolRecord(c, t) ==
  [allowed |-> IsReadOnlyTool(c, t), policy |-> ResolveToolPolicy(c, t)]

-----------------------------------------------------------------------------
(* The catalog. *)

PolicyInit ==
  /\ conf \in Configs
  /\ running = NoBroker
  /\ offered \in Offers
  /\ cache = {}
  /\ catalog = << >>

(* loadBrokerConfig: a server that is not enabled is left out. *)
EnabledConfig(c) == IF c.enabled = "no" THEN {} ELSE {c}

(* applyServerTools: the server's records, resolved anew. *)
AppliedTools(c, ts) == [t \in ts |-> ToolRecord(c, t)]

(* initialize, with loadCatalogCache. *)
StartBroker ==
  /\ running = NoBroker
  /\ \E c \in EnabledConfig(conf) :
       running' = c /\ catalog' = AppliedTools(c, cache)
  /\ UNCHANGED <<conf, offered, cache>>

(* A refresh of the catalog, which saves it unless that fails; a server
   without tools leaves no entry. *)
Refresh ==
  /\ running # NoBroker
  /\ catalog' = AppliedTools(running, offered)
  /\ cache' \in {cache, offered}
  /\ UNCHANGED <<conf, running, offered>>

StopBroker ==
  /\ running # NoBroker
  /\ running' = NoBroker /\ catalog' = << >>
  /\ UNCHANGED <<conf, offered, cache>>

Edit ==
  /\ conf' \in Edited \ {conf}
  /\ UNCHANGED <<running, offered, cache, catalog>>

Offer ==
  /\ offered' \in Offers \ {offered}
  /\ UNCHANGED <<conf, running, cache, catalog>>

PolicyNext == StartBroker \/ Refresh \/ StopBroker \/ Edit \/ Offer

PolicySpec == PolicyInit /\ [][PolicyNext]_policyVars

(* What search_tools lists and describe_tool and call_tool serve. *)
Exposed ==
  {t \in DOMAIN catalog :
     catalog[t].allowed /\ catalog[t].policy.confirmation # "required"}

-----------------------------------------------------------------------------
(* Properties *)

PolicyTypeOK ==
  /\ conf \in Configs
  /\ running \in {c \in Configs : c.enabled # "no"} \cup {NoBroker}
  /\ offered \in Offers /\ cache \in Offers \cup {{}}
  /\ DOMAIN catalog \subseteq Tools
  /\ \A t \in DOMAIN catalog : catalog[t] \in Record
  /\ running = NoBroker => catalog = << >>

(* A tool is exposed only if something warrants it under the configuration
   that the broker runs with, whatever the cache was written under: it is
   not excluded; its own entry or, if that is silent, the default asks for
   no confirmation; and it reads by its entry or, if that is silent, by the
   default, or it has no entry, its name has no mutating word and an include
   list, its name, the server or the default makes it a read
   (docs/broker-policy.md 12-15). *)
ExposedIsWarranted ==
  \A t \in Exposed :
    LET entry == running.tools[t]
        asks(raw) == raw.confirmation = "required"
        silent(raw) == raw.confirmation \notin Confirmations
    IN  /\ t \notin running.exclude
        /\ ~asks(entry) /\ (asks(running.default) => ~silent(entry))
        /\ \/ entry.effect = "read"
           \/ /\ entry # NoEntry /\ entry.effect \notin Effects
              /\ running.default.effect = "read"
           \/ /\ entry = NoEntry /\ t \notin Mutating
              /\ \/ t \in running.include
                 \/ /\ running.include = {}
                    /\ \/ t \in Reading \/ running.readOnly \/ KnownServer
                       \/ running.default.effect = "read"

(* An operator who puts a tool of the include list in no other rule, and asks
   for no confirmation, has it exposed as soon as the server offers it. *)
IncludedIsExposed ==
  \A t \in DOMAIN catalog :
    /\ t \in running.include \ (running.exclude \cup Mutating)
    /\ running.tools[t] = NoEntry
    /\ running.default.confirmation # "required"
    => t \in Exposed

(* Both ways: nothing is exposed that should not be, and not by exposing
   nothing (resolveToolPolicy, applyServerTools, loadCatalogCache). *)
ExposureFollowsRules == ExposedIsWarranted /\ IncludedIsExposed
=============================================================================

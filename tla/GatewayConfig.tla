---------------------------- MODULE GatewayConfig ----------------------------
(***************************************************************************)
(* The configuration of the gateway over its starts: the environment over  *)
(* the file over the defaults (config.ts), then the settings kept in the   *)
(* database over both (db.ts 287-344, server.ts 41-54, 158-177), which     *)
(* update_config changes for the next start (tools/index.ts 396-414).      *)
(*                                                                         *)
(* Of the rest of the configuration: the managed runtimes, the upstreams   *)
(* that are not managed, and the address and token of the server.  An      *)
(* operator edits the environment and the file at any time.                *)
(*                                                                         *)
(* A definition marked "mutant" is the next one with a plausible bug.      *)
(***************************************************************************)
EXTENDS FiniteSets

CONSTANTS
  Numbers, Texts,   \* the keys of CONFIG_KEYS: numbers, and texts
  Values,           \* values that are numbers, and not 0
  Default,          \* the value that the code has for an absent setting
  Names, Lower,     \* model names, and toLowerCase over them
  Envs, Files       \* the environments and the files there may be

Keys == Numbers \cup Texts

ASSUME ConfigAssumption ==
  /\ Default \in Values
  /\ Numbers \cap Texts = {}
  /\ Values \cap {"absent", "bad", "zero", "blank"} = {}
  /\ Lower \in [Names -> Names]

VARIABLES
  env,     \* the environment variables
  file,    \* the configuration file
  db,      \* the config table: a value of each key, or "absent"
  asked,   \* what update_config last set each key to, or "absent"
  proc     \* the process (Process below), or Stopped

vars == <<env, file, db, asked, proc>>

(* A runtime as it is written: with its URLs and script, or not. *)
Runtime == [alias : Names, upstream : Names, complete : BOOLEAN,
            enabled : BOOLEAN]
(* An upstream of the pool.  What it calls a model when it forwards it
   (upstreamModel) is left out: nothing is checked about it. *)
Upstream == [models : SUBSET Names, local : BOOLEAN]

Flag == {"absent", "yes", "no"}   \* a boolean; asBoolean ignores other texts

(* "bad" is text that is no number; "zero" and "blank" are 0 and "". *)
Given == Values \cup {"absent", "bad", "zero", "blank"}

(* What is true in JavaScript, of a number and of a text. *)
Usable(k) == IF k \in Numbers THEN Values ELSE Given \ {"absent", "blank"}

(* The lists of the environment are JSON; what is no list is ignored. *)
List(Item) == [given : BOOLEAN, items : SUBSET Item]

Source ==
  [ settings : [Keys -> Given],
    runtimes : List(Runtime), upstreams : List(Upstream),
    allow : Flag,                    \* allow_unmanaged_local_upstreams
    remote : Flag,                   \* the host is not a loopback host
    token : Flag ]                   \* "yes": there is a token

ASSUME SourcesAssumption == Envs \subseteq Source /\ Files \subseteq Source

Stopped == [settings |-> "none"]

-----------------------------------------------------------------------------
(* resolveGatewayConfig. *)

(* readNumberEnv and readStringEnv: what is unset or unusable is skipped. *)
ReadEnv(k, fallback) ==
  LET e == env.settings[k]
  IN  IF e \in Usable(k) \cup {"zero"} THEN e ELSE fallback

(* asNumber and String(... ?? ...) over the file: Number("") is 0. *)
ReadFile(k) ==
  LET f == file.settings[k]
  IN  IF f = "absent" \/ (f = "bad" /\ k \in Numbers) THEN Default
      ELSE IF f = "blank" /\ k \in Numbers THEN "zero" ELSE f

Configured(k) == ReadEnv(k, ReadFile(k))

ReadFlag(e, f) == IF e # "absent" THEN e = "yes" ELSE f = "yes"

ListOf(e, f) ==
  IF e.given THEN e.items ELSE IF f.given THEN f.items ELSE {}

(* parseManagedRuntimes: the complete and enabled ones. *)
ManagedRuntimes ==
  {r \in ListOf(env.runtimes, file.runtimes) : r.complete /\ r.enabled}

ManagedAliasesOnly(rs) ==            \* mutant: upstream models not reserved
  {Lower[r.alias] : r \in rs}

ManagedAliases(rs) ==
  {Lower[r.alias] : r \in rs} \cup {Lower[r.upstream] : r \in rs}

(* parseOpenAiUpstreams and validateOpenAiUpstreams. *)
OpenAiUpstreams(rs) ==
  {u \in ListOf(env.upstreams, file.upstreams) :
     /\ u.models # {}
     /\ \A m \in u.models : Lower[m] \notin ManagedAliases(rs)
     /\ u.local => ReadFlag(env.allow, file.allow)}

(* validateGatewayConfig; otherwise the process does not start. *)
Valid ==
  ReadFlag(env.remote, file.remote) => "yes" \in {env.token, file.token}

-----------------------------------------------------------------------------
(* The process. *)

SeedOver == [k \in Keys |-> Configured(k)]   \* mutant: ON CONFLICT DO UPDATE

(* seedConfig: only what the table does not have. *)
Seed == [k \in Keys |-> IF db[k] = "absent" THEN Configured(k) ELSE db[k]]

(* getRuntimeSettings and applyRuntimeSettings: what is stored, unless it is
   0 or no number, or empty. *)
Applied(k, stored) == IF stored \in Usable(k) THEN stored ELSE Configured(k)

Process ==
  [ settings : [Keys -> Given \ {"absent"}],
    managed : SUBSET Runtime,
    pool : SUBSET Upstream,
    asked : [Keys -> Given],     \* history: what was asked when it started
    allowed : BOOLEAN ]          \* history: a source allowed local upstreams

Init ==
  /\ env \in Envs /\ file \in Files
  /\ db = [k \in Keys |-> "absent"]
  /\ asked = [k \in Keys |-> "absent"]
  /\ proc = Stopped

Start ==
  /\ proc = Stopped /\ Valid
  /\ db' = Seed
  /\ proc' =
       [ settings |-> [k \in Keys |-> Applied(k, db'[k])],
         managed |-> ManagedRuntimes,
         pool |-> OpenAiUpstreams(ManagedRuntimes),
         asked |-> asked,
         allowed |-> "yes" \in {env.allow, file.allow} ]
  /\ UNCHANGED <<env, file, asked>>

Stop ==
  /\ proc # Stopped
  /\ proc' = Stopped
  /\ UNCHANGED <<env, file, db, asked>>

(* The tool update_config, with one entry or more; no value is refused. *)
UpdateConfig(ks, entries) ==
  /\ proc # Stopped /\ ks # {}
  /\ db' = [k \in Keys |-> IF k \in ks THEN entries[k] ELSE db[k]]
  /\ asked' = [k \in Keys |-> IF k \in ks THEN entries[k] ELSE asked[k]]
  /\ UNCHANGED <<env, file, proc>>

EditEnv ==
  /\ env' \in Envs \ {env}
  /\ UNCHANGED <<file, db, asked, proc>>

EditFile ==
  /\ file' \in Files \ {file}
  /\ UNCHANGED <<env, db, asked, proc>>

Next ==
  \/ Start \/ Stop \/ EditEnv \/ EditFile
  \/ \E ks \in SUBSET Keys :
       \E entries \in [ks -> Given \ {"absent"}] : UpdateConfig(ks, entries)

Spec == Init /\ [][Next]_vars

(* GpuCoordinator.hasModel, and hasModel of OpenAiUpstreamPool. *)
ServedManaged(m) == \E r \in proc.managed : Lower[r.alias] = Lower[m]
ServedPooled(m) ==
  \E u \in proc.pool : \E n \in u.models : Lower[n] = Lower[m]

-----------------------------------------------------------------------------
(* Properties *)

(* The state has its type; in particular no number of a running process is
   one that could not be parsed. *)
TypeOK ==
  /\ env \in Envs /\ file \in Files
  /\ db \in [Keys -> Given] /\ asked \in [Keys -> Given]
  /\ proc = Stopped \/ proc \in Process
  /\ proc # Stopped =>
       \A k \in Numbers : proc.settings[k] \in Values \cup {"zero"}

(* "Persist config values for next restart" (tools/index.ts 399): what was
   asked before a start is in force after it, whatever the environment, the
   file and the starts in between.  (The environment alone has no such force:
   the first start writes every setting to the database, which from then on
   is put over the environment.)  No number that does not parse is ever in
   force, whatever texts were asked for or are in the sources. *)
AskedIsApplied ==
  proc # Stopped =>
    \A k \in Keys :
      /\ proc.asked[k] \in Usable(k) => proc.settings[k] = proc.asked[k]
      /\ k \in Numbers => proc.settings[k] \in Values \cup {"zero"}

(* "No managed local GPU request should bypass the coordinator" (README.md
   110): a model that a managed runtime serves, under its alias or as its
   upstream model, is never also a model of the pool, however it is spelt;
   and the pool has no local upstream unless the operator allowed it. *)
NoBypass ==
  proc # Stopped =>
    /\ \A m \in Names : ~(ServedManaged(m) /\ ServedPooled(m))
    /\ \A r \in proc.managed : ~ServedPooled(r.upstream)
    /\ \A u \in proc.pool : u.local => proc.allowed
=============================================================================

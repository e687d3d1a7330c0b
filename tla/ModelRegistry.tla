---------------------------- MODULE ModelRegistry ---------------------------
(***************************************************************************)
(* The registry of LoRA adapters: syncFromSourceMap, importModel and       *)
(* removeModel (model-registry.ts) over the models table (db.ts), the      *)
(* folder each alias has in managed storage and the source files.          *)
(*                                                                         *)
(* Workers are the tool calls that run at a time; Boot is the sync of      *)
(* startGateway, which ends before any of them begins.  Every await is a   *)
(* step and may fail: files are moved by the file system while other calls *)
(* go on and somebody writes or deletes the sources.  A file is its        *)
(* content, and so is its checksum.  No alias names a folder inside the    *)
(* folder of another, and two copies never share a temporary name.         *)
(*                                                                         *)
(* A definition marked "mutant" is the next one with a plausible bug.      *)
(***************************************************************************)
EXTENDS Naturals

CONSTANTS
  Aliases, Sources, Workers,
  Contents,    \* what a file may hold
  FileNames,
  FileName,    \* FileName[f]: basename of source f; two may have the same
  Boot,        \* the worker of startGateway
  Startup,     \* config.startupModels: [some aliases -> Sources]
  MaxCrashes,  \* bound: crashes of the gateway
  None

ASSUME RegistryAssumption ==
  /\ Boot \notin Workers /\ None \notin Sources \cup Aliases \cup Contents
  /\ FileName \in [Sources -> FileNames]
  /\ DOMAIN Startup \subseteq Aliases
  /\ \A a \in DOMAIN Startup : Startup[a] \in Sources
  /\ MaxCrashes \in Nat

VARIABLES
  source,      \* external: the content of each source file, or None
  row,         \* the models table: the source and the checksum of each alias
  stored,      \* stored[a][n]: the file named n in the alias's folder
  folder,      \* the folder of the alias exists
  call,        \* the calls that run
  crashes,
  parted,      \* history: the aliases whose file came without its row
  raced        \* history: the operations that met another on an alias

state == <<source, row, stored, folder, call, crashes, parted>>
vars == <<state, raced>>

Everyone == Workers \cup {Boot}
File == Contents \cup {None}
NoRow == [src |-> None, sum |-> None]
Row == {NoRow} \cup [src : Sources, sum : Contents]
NoFiles == [n \in FileNames |-> None]

(* The file that the row of an alias, or a copy of source f, is about. *)
Managed(a, f) == stored[a][FileName[f]]

Call ==
  [ at : {"idle", "next", "stat", "hash", "mkdir", "copy", "rename",
          "register", "rm"},
    op : {"import", "remove", "sync", "none"},
    alias : Aliases \cup {None},
    src : Sources \cup {None},
    todo : SUBSET Aliases,   \* sync: the aliases of the map not yet seen
    sum : File,              \* sourceHash
    temp : File,             \* the copy under its temporary name
    written : BOOLEAN ]      \* history: the source changed since its hash

Idle == [at |-> "idle", op |-> "none", alias |-> None, src |-> None,
         todo |-> {}, sum |-> None, temp |-> None, written |-> FALSE]

Syncing == [Idle EXCEPT !.at = "next", !.op = "sync",
                        !.todo = DOMAIN Startup]

(* An alias of a sync, or an import, is over, well or not. *)
Over(q) ==
  IF q.op = "sync" THEN [Syncing EXCEPT !.todo = q.todo] ELSE Idle

TypeOK ==
  /\ source \in [Sources -> File]
  /\ row \in [Aliases -> Row]
  /\ stored \in [Aliases -> [FileNames -> File]]
  /\ folder \in [Aliases -> BOOLEAN]
  /\ call \in [Everyone -> Call]
  /\ crashes \in 0..MaxCrashes
  /\ parted \subseteq Aliases
  /\ raced \subseteq Aliases \X {"import", "remove", "sync"}

Init ==
  /\ source \in [Sources -> File]
  /\ row = [a \in Aliases |-> NoRow]
  /\ stored = [a \in Aliases |-> NoFiles]
  /\ folder = [a \in Aliases |-> FALSE]
  /\ call = [w \in Everyone |-> IF w = Boot THEN Syncing ELSE Idle]
  /\ crashes = 0
  /\ parted = {}
  /\ raced = {}

Becomes(w, q) == call' = [call EXCEPT ![w] = q]

-----------------------------------------------------------------------------
(* The tools import_model and sync_models. *)
Begin(w, op, a, f) ==
  /\ w \in Workers /\ call[w].at = "idle" /\ call[Boot].at = "idle"
  /\ op \in {"import", "sync"}
  /\ Becomes(w, IF op = "sync" THEN Syncing
                ELSE [Idle EXCEPT !.at = "stat", !.op = op, !.alias = a,
                                  !.src = f])
  /\ UNCHANGED <<source, row, stored, folder, crashes, parted>>

(* The loop of a sync goes on to its next alias, or the sync is over. *)
NextAlias(w) ==
  LET q == call[w] IN
  /\ q.at = "next"
  /\ \/ /\ q.todo = {}
        /\ Becomes(w, Idle)
     \/ \E a \in q.todo :
          Becomes(w, [q EXCEPT !.at = "stat", !.alias = a,
                               !.src = Startup[a], !.todo = @ \ {a}])
  /\ UNCHANGED <<source, row, stored, folder, crashes, parted>>

FileExists(w) ==
  LET q == call[w] IN
  /\ q.at = "stat" /\ source[q.src] # None
  /\ Becomes(w, [q EXCEPT !.at = "hash"])
  /\ UNCHANGED <<source, row, stored, folder, crashes, parted>>

(* A sync skips an alias whose row has this hash, whatever source the row
   names (rows are all enabled). *)
Hashed(w) ==
  LET q == call[w]
      known == q.op = "sync" /\ row[q.alias].sum = source[q.src] IN
  /\ q.at = "hash" /\ source[q.src] # None
  /\ Becomes(w, IF known THEN Over(q)
                ELSE [q EXCEPT !.at = "mkdir", !.sum = source[q.src]])
  /\ UNCHANGED <<source, row, stored, folder, crashes, parted>>

EnsureDir(w) ==
  LET q == call[w] IN
  /\ q.at = "mkdir"
  /\ folder' = [folder EXCEPT ![q.alias] = TRUE]
  /\ Becomes(w, [q EXCEPT !.at = "copy"])
  /\ UNCHANGED <<source, row, stored, crashes, parted>>

(* mutant: the row is written before the file is in place *)
CopiedAndRegistered(w) ==
  LET q == call[w] IN
  /\ q.at = "copy" /\ source[q.src] # None /\ folder[q.alias]
  /\ Becomes(w, [q EXCEPT !.at = "rename", !.temp = source[q.src]])
  /\ row' = [row EXCEPT ![q.alias] = [src |-> q.src, sum |-> q.sum]]
  /\ UNCHANGED <<source, stored, folder, crashes, parted>>

(* mutant: the copy goes to its place at once, not by a temporary name *)
CopiedInPlace(w) ==
  LET q == call[w] IN
  /\ q.at = "copy" /\ source[q.src] # None /\ folder[q.alias]
  /\ Becomes(w, [q EXCEPT !.at = "rename", !.temp = source[q.src]])
  /\ stored' = [stored EXCEPT ![q.alias][FileName[q.src]] = source[q.src]]
  /\ UNCHANGED <<source, row, folder, crashes, parted>>

(* copyFileAtomic: copyFile. *)
Copied(w) ==
  LET q == call[w] IN
  /\ q.at = "copy" /\ source[q.src] # None /\ folder[q.alias]
  /\ Becomes(w, [q EXCEPT !.at = "rename", !.temp = source[q.src]])
  /\ UNCHANGED <<source, row, stored, folder, crashes, parted>>

(* ... and rename. *)
Renamed(w) ==
  LET q == call[w] IN
  /\ q.at = "rename" /\ q.temp # None
  /\ stored' = [stored EXCEPT ![q.alias][FileName[q.src]] = q.temp]
  /\ Becomes(w, [q EXCEPT !.at = "register", !.temp = None])
  /\ UNCHANGED <<source, row, folder, crashes, parted>>

UpsertModel(w) ==
  LET q == call[w] IN
  /\ q.at = "register"
  /\ row' = [row EXCEPT ![q.alias] = [src |-> q.src, sum |-> q.sum]]
  /\ parted' = IF q.written THEN parted \cup {q.alias}
                            ELSE parted \ {q.alias}
  /\ Becomes(w, Over(q))
  /\ UNCHANGED <<source, stored, folder, crashes>>

(* There is no such file, or an await, or the write of the row, fails: an
   import throws, and a sync notes the source as missing. *)
Fails(w) ==
  LET q == call[w] IN
  /\ q.at \in {"stat", "hash", "mkdir", "copy", "rename", "register"}
  /\ parted' = IF q.at = "register" THEN parted \cup {q.alias} ELSE parted
  /\ Becomes(w, Over(q))
  /\ UNCHANGED <<source, row, stored, folder, crashes>>

RemoveModel(w, a) ==
  /\ w \in Workers /\ call[w].at = "idle" /\ call[Boot].at = "idle"
  /\ row' = [row EXCEPT ![a] = NoRow]
  /\ Becomes(w, IF row[a] = NoRow THEN Idle
                ELSE [Idle EXCEPT !.at = "rm", !.op = "remove", !.alias = a])
  /\ UNCHANGED <<source, stored, folder, crashes, parted>>

(* The folder goes with all that is in it, copies under way included, or   *)
(* only some files go: "Best effort cleanup only".                         *)
RemoveFolder(w) ==
  LET q == call[w] IN
  /\ q.at = "rm"
  /\ \/ /\ stored' = [stored EXCEPT ![q.alias] = NoFiles]
        /\ folder' = [folder EXCEPT ![q.alias] = FALSE]
        /\ call' = [v \in Everyone |->
                      IF v = w THEN Idle
                      ELSE IF call[v].alias = q.alias
                      THEN [call[v] EXCEPT !.temp = None] ELSE call[v]]
     \/ /\ \E left \in SUBSET FileNames :
             stored' = [stored EXCEPT ![q.alias] =
                          [n \in FileNames |-> IF n \in left THEN @[n] ELSE None]]
        /\ Becomes(w, Idle)
        /\ UNCHANGED folder
  /\ UNCHANGED <<source, row, crashes, parted>>

-----------------------------------------------------------------------------
(* The gateway dies at any point and starts again with a sync. *)
Crash ==
  /\ crashes < MaxCrashes
  /\ crashes' = crashes + 1
  /\ parted' = parted \cup {call[w].alias : w \in
                              {v \in Everyone : call[v].at = "register"}}
  /\ call' = [w \in Everyone |-> IF w = Boot THEN Syncing ELSE Idle]
  /\ UNCHANGED <<source, row, stored, folder>>

(* External: a source file is written, put back to what it was, or deleted. *)
Replace(f) ==
  /\ source' \in {[source EXCEPT ![f] = c] : c \in File \ {source[f]}}
  /\ call' = [w \in Everyone |->
                [call[w] EXCEPT !.written =
                   @ \/ (call[w].src = f /\ call[w].at \in {"mkdir", "copy"})]]
  /\ UNCHANGED <<row, stored, folder, crashes, parted>>

Works(w) ==
  \/ NextAlias(w) \/ FileExists(w) \/ Hashed(w) \/ EnsureDir(w) \/ Copied(w)
  \/ Renamed(w) \/ UpsertModel(w) \/ Fails(w) \/ RemoveFolder(w)

Step ==
  \/ \E w \in Workers, op \in {"import", "sync"}, a \in Aliases, f \in Sources :
       Begin(w, op, a, f)
  \/ \E w \in Workers, a \in Aliases : RemoveModel(w, a)
  \/ \E w \in Everyone : Works(w)
  \/ \E f \in Sources : Replace(f)
  \/ Crash

(* The operations of two calls that have the same alias in hand. *)
Racing ==
  {<<call[v].alias, call[v].op>> : v \in
     {u \in Everyone : \E w \in Everyone \ {u} :
        call[u].alias # None /\ call[w].alias = call[u].alias}}

(* Operation op on a never ran beside another one on a. *)
Apart(a, op) == <<a, op>> \notin raced

Next == Step /\ raced' = raced \cup Racing'

Spec == Init /\ [][Next]_vars

-----------------------------------------------------------------------------
(* A registered alias has its file in managed storage, whatever failed or  *)
(* happened between the copy, the row and the removal (importModel,        *)
(* removeModel), as long as no call was on the alias while it was removed: *)
(* removeModel awaits the removal of the folder after it has deleted the   *)
(* row, so an import that runs meanwhile may register a file that is then  *)
(* deleted.                                                                *)
RegisteredIsStored ==
  \A a \in Aliases :
    Apart(a, "remove") /\ row[a] # NoRow => Managed(a, row[a].src) # None

(* The checksum of a row is that of the file in managed storage: a copy    *)
(* that fails, or is cut by a crash, leaves the file of the row as it was, *)
(* and so do other sources, of the same name too, until they have a row    *)
(* (copyFileAtomic, syncFromSourceMap, importModel).  Row and file part if *)
(* the source was written between its hash and its copy, or if the row     *)
(* could not be written after the file (parted, until the next copy is     *)
(* registered), and where two calls meet on the alias.                     *)
ChecksumIsOfFile ==
  \A a \in Aliases \ parted :
    /\ row[a] # NoRow
    /\ \A op \in {"import", "remove", "sync"} : Apart(a, op)
    /\ \A w \in Everyone : call[w].at = "register" => call[w].alias # a
    => Managed(a, row[a].src) = row[a].sum
=============================================================================

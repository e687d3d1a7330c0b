------------------------- MODULE ModelRegistryProofs -------------------------
(***************************************************************************)
(* Proofs about ModelRegistry, for every number of aliases, sources, file  *)
(* names, contents and tool calls, every startup map and any number of     *)
(* crashes.                                                                *)
(*                                                                         *)
(* Every meeting of two calls on an alias is on record, so a call on an    *)
(* alias without such a record has the row and the files of the alias to   *)
(* itself.  What it does to them is then one line of steps: the file is    *)
(* there before the row, the row goes before the file, and the file is     *)
(* what the checksum was taken of.                                         *)
(***************************************************************************)
EXTENDS ModelRegistry, TLAPS

Operations == {"import", "remove", "sync"}

(* No two calls were ever at an alias at a time. *)
Quiet(a) == \A op \in Operations : Apart(a, op)

(* A call has in hand what its place in the code gives it; what it hashed is
   what it copied, unless the source was written in between. *)
Held(q) ==
  /\ q.alias = None <=> q.at \in {"idle", "next"}
  /\ q.at # "idle" => q.op \in Operations
  /\ q.op = "remove" <=> q.at = "rm"
  /\ q.todo \subseteq DOMAIN Startup
  /\ q.at \in {"stat", "hash", "mkdir", "copy", "rename", "register"} =>
       q.src \in Sources
  /\ q.at \in {"mkdir", "copy", "rename", "register"} => q.sum \in Contents
  /\ q.at \in {"mkdir", "copy"} => q.written \/ q.sum = source[q.src]
  /\ q.at = "rename" => q.written \/ q.temp \in {None, q.sum}
  /\ q.at \in {"idle", "next", "stat", "hash", "rm"} => ~q.written

(* The file is there before the row and the row goes before the file. *)
Backed(a) ==
  /\ row[a] # NoRow => Managed(a, row[a].src) # None
  /\ \A w \in Everyone :
       call[w].alias = a =>
         /\ call[w].at = "register" => Managed(a, call[w].src) # None
         /\ call[w].at = "rm" => row[a] = NoRow

(* The file is the one that the row, or the call that is about to write the
   row, has the checksum of. *)
Matched(a) ==
  /\ /\ a \notin parted /\ row[a] # NoRow
     /\ \A w \in Everyone : call[w].at = "register" => call[w].alias # a
     => Managed(a, row[a].src) = row[a].sum
  /\ \A w \in Everyone :
       call[w].alias = a /\ call[w].at = "register" /\ ~call[w].written =>
         Managed(a, call[w].src) = call[w].sum

IInv ==
  /\ TypeOK
  /\ Racing \subseteq raced
  /\ \A w \in Everyone : Held(call[w])
  /\ \A a \in Aliases : Apart(a, "remove") => Backed(a)
  /\ \A a \in Aliases : Quiet(a) => Matched(a)

-----------------------------------------------------------------------------
(* Calls. *)

LEMMA IdleIsCall == Idle \in Call /\ Syncing \in Call
<1>1. Idle \in Call
  BY RegistryAssumption DEF Idle, Call, File
<1>2. DOMAIN Startup \in SUBSET Aliases
  BY RegistryAssumption
<1>3. QED  BY <1>1, <1>2 DEF Idle, Syncing, Call

LEMMA OverIsCall ==
  ASSUME NEW q \in Call
  PROVE  /\ Over(q) \in Call
         /\ Over(q).at = "next" \/ Over(q) = Idle
<1>1. Syncing \in Call /\ Idle \in Call
  BY IdleIsCall
<1>2. [Syncing EXCEPT !.todo = q.todo] \in Call
  BY <1>1 DEF Call, Syncing, Idle
<1>3. [Syncing EXCEPT !.todo = q.todo].at = "next"
  BY <1>1 DEF Call, Syncing, Idle
<1>4. QED  BY <1>1, <1>2, <1>3 DEF Over

(* What an idle call and one that goes on to its next alias hold. *)
LEMMA RestHolds ==
  /\ Held(Idle)
  /\ Held(Syncing)
  /\ \A q \in Call : Held(q) => Held(Over(q))
<1>1. Held(Idle) /\ Held(Syncing)
  BY DEF Held, Idle, Syncing, Operations
<1>2. ASSUME NEW q \in Call, Held(q) PROVE Held(Over(q))
  <2>1. CASE q.op = "sync"
    <3>1. Over(q) = [Syncing EXCEPT !.todo = q.todo]
      BY <2>1 DEF Over
    <3>2. q.todo \subseteq DOMAIN Startup
      BY <1>2 DEF Held
    <3>3. QED  BY <3>1, <3>2 DEF Held, Idle, Syncing, Operations
  <2>2. CASE q.op # "sync"
    BY <1>1, <2>2 DEF Over
  <2>3. QED  BY <2>1, <2>2
<1>3. QED  BY <1>1, <1>2

(* The calls after a call has moved. *)
LEMMA Moved ==
  ASSUME TypeOK, NEW w \in Everyone, NEW q \in Call, Becomes(w, q)
  PROVE  /\ call' \in [Everyone -> Call]
         /\ call'[w] = q
         /\ \A v \in Everyone : v # w => call'[v] = call[v]
BY DEF TypeOK, Becomes

LEMMA CallFacts ==
  ASSUME IInv, NEW w \in Everyone
  PROVE  /\ call[w] \in Call /\ Held(call[w])
         /\ call[w].at \notin {"idle", "next"} => call[w].alias \in Aliases
<1>1. call[w] \in Call /\ Held(call[w])
  BY DEF IInv, TypeOK
<1>2. QED  BY <1>1 DEF Call, Held

-----------------------------------------------------------------------------
(* The record of calls that met. *)

(* What is on record stays there. *)
LEMMA RecordGrows ==
  ASSUME raced' = raced \cup Racing', NEW a \in Aliases
  PROVE  /\ Apart(a, "remove")' => Apart(a, "remove")
         /\ Quiet(a)' => Quiet(a)
         /\ Quiet(a) => Apart(a, "remove")
<1>1. \A op \in Operations : Apart(a, op)' => Apart(a, op)
  BY DEF Apart
<1>2. Quiet(a)' => Quiet(a)
  BY <1>1 DEF Quiet
<1>3. "remove" \in Operations
  BY DEF Operations
<1>4. QED  BY <1>1, <1>2, <1>3 DEF Quiet

(* A call at an alias that nobody was at with another has it to itself. *)
LEMMA Own ==
  ASSUME IInv, NEW w \in Everyone, NEW v \in Everyone, v # w,
         call[w].alias # None, call[v].alias = call[w].alias
  PROVE  /\ ~Apart(call[w].alias, call[w].op)
         /\ ~Quiet(call[w].alias)
<1>1. <<call[w].alias, call[w].op>> \in Racing
  BY DEF Racing
<1>2. ~Apart(call[w].alias, call[w].op)
  BY <1>1 DEF Apart, IInv
<1>3. call[w].op \in Operations
  BY DEF IInv, Held
<1>4. QED  BY <1>2, <1>3 DEF Quiet

(* The record is of aliases and operations. *)
LEMMA RecordHolds ==
  ASSUME IInv, call' \in [Everyone -> Call],
         \A v \in Everyone : Held(call[v])',
         raced' = raced \cup Racing'
  PROVE  /\ Racing' \subseteq raced'
         /\ raced' \subseteq Aliases \X {"import", "remove", "sync"}
<1>1. Racing' \subseteq Aliases \X Operations
  <2>1. SUFFICES ASSUME NEW v \in Everyone, call'[v].alias # None
                 PROVE  call'[v].alias \in Aliases /\ call'[v].op \in Operations
    BY DEF Racing
  <2>2. call'[v] \in Call
    OBVIOUS
  <2>3. call'[v].alias \in Aliases
    BY <2>1, <2>2 DEF Call
  <2>4. Held(call[v])'
    OBVIOUS
  <2>5. call'[v].at # "idle"
    BY <2>1, <2>4 DEF Held
  <2>6. QED  BY <2>3, <2>4, <2>5 DEF Held
<1>2. QED  BY <1>1 DEF IInv, TypeOK, Operations

(* One call moves: calls and record stay in order. *)
LEMMA CallsHold ==
  ASSUME IInv, NEW w \in Everyone, NEW q \in Call, Held(q), Becomes(w, q),
         UNCHANGED source, raced' = raced \cup Racing'
  PROVE  /\ call' \in [Everyone -> Call]
         /\ \A v \in Everyone : Held(call[v])'
         /\ Racing' \subseteq raced'
         /\ raced' \subseteq Aliases \X {"import", "remove", "sync"}
<1>1. /\ call' \in [Everyone -> Call]
      /\ call'[w] = q
      /\ \A v \in Everyone : v # w => call'[v] = call[v]
  BY Moved DEF IInv
<1>2. ASSUME NEW v \in Everyone PROVE Held(call[v])'
  <2>1. CASE v = w
    BY <1>1, <2>1 DEF Held
  <2>2. CASE v # w
    <3>1. Held(call[v]) /\ call'[v] = call[v]
      BY <1>1, <2>2 DEF IInv
    <3>2. QED  BY <3>1 DEF Held
  <2>3. QED  BY <2>1, <2>2
<1>3. QED  BY <1>1, <1>2, RecordHolds

-----------------------------------------------------------------------------
(* Steps that leave the rows and the managed files alone. *)

LEMMA CallMoves ==
  ASSUME IInv, NEW w \in Everyone, NEW q \in Call, Held(q), Becomes(w, q),
         call[w].at # "register", q.at \notin {"register", "rm"},
         UNCHANGED <<source, row, stored, crashes, parted>>,
         folder' \in [Aliases -> BOOLEAN], raced' = raced \cup Racing'
  PROVE  IInv'
<1>1. /\ call'[w] = q
      /\ \A v \in Everyone : v # w => call'[v] = call[v]
  BY Moved DEF IInv
<1>2. /\ call' \in [Everyone -> Call]
      /\ \A v \in Everyone : Held(call[v])'
      /\ Racing' \subseteq raced'
      /\ raced' \subseteq Aliases \X {"import", "remove", "sync"}
  BY CallsHold
<1>3. TypeOK'
  BY <1>2 DEF IInv, TypeOK
<1>4. \A v \in Everyone :
        call'[v].at \in {"register", "rm"} => call'[v] = call[v]
  BY <1>1
<1>5. \A v \in Everyone : call[v].at = "register" => call'[v] = call[v]
  BY <1>1
<1>6. ASSUME NEW a \in Aliases, Apart(a, "remove")' PROVE Backed(a)'
  <2>1. Backed(a)
    BY <1>6, RecordGrows DEF IInv
  <2>2. QED  BY <1>4, <2>1 DEF Backed, Managed
<1>7. ASSUME NEW a \in Aliases, Quiet(a)' PROVE Matched(a)'
  <2>1. Matched(a)
    BY <1>7, RecordGrows DEF IInv
  <2>2. QED  BY <1>4, <1>5, <2>1 DEF Matched, Managed
<1>8. QED  BY <1>2, <1>3, <1>6, <1>7 DEF IInv

LEMMA StepBegin ==
  ASSUME IInv, NEW w \in Workers, NEW op \in {"import", "sync"},
         NEW a \in Aliases, NEW f \in Sources, Begin(w, op, a, f),
         raced' = raced \cup Racing'
  PROVE  IInv'
<1>1. w \in Everyone
  BY DEF Everyone
<1> DEFINE q == IF op = "sync" THEN Syncing
                ELSE [Idle EXCEPT !.at = "stat", !.op = op, !.alias = a,
                                  !.src = f]
<1>2. q \in Call
  BY IdleIsCall DEF Idle, Call
<1>3. Held(q)
  <2>1. a # None
    BY RegistryAssumption
  <2>2. CASE op = "sync"
    BY <2>2, RestHolds
  <2>3. CASE op # "sync"
    BY <2>1, <2>3 DEF Held, Idle, Operations
  <2>4. QED  BY <2>2, <2>3
<1>4. q.at \notin {"register", "rm"}
  BY DEF Idle, Syncing
<1>5. /\ Becomes(w, q) /\ call[w].at # "register"
      /\ UNCHANGED <<source, row, stored, folder, crashes, parted>>
  BY DEF Begin
<1>6. folder' \in [Aliases -> BOOLEAN]
  BY <1>5 DEF IInv, TypeOK
<1> HIDE DEF q
<1>7. QED  BY <1>1, <1>2, <1>3, <1>4, <1>5, <1>6, CallMoves

LEMMA StepNext ==
  ASSUME IInv, NEW w \in Everyone, NextAlias(w), raced' = raced \cup Racing'
  PROVE  IInv'
<1>1. call[w] \in Call /\ Held(call[w]) /\ call[w].at = "next"
  BY CallFacts DEF NextAlias
<1>2. /\ folder' \in [Aliases -> BOOLEAN]
      /\ UNCHANGED <<source, row, stored, crashes, parted>>
  BY DEF IInv, TypeOK, NextAlias
<1>3. CASE Becomes(w, Idle)
  <2>1. Idle.at = "idle"
    BY DEF Idle
  <2>2. QED  BY <1>1, <1>2, <1>3, <2>1, IdleIsCall, RestHolds, CallMoves
<1>4. ASSUME NEW a \in call[w].todo,
             Becomes(w, [call[w] EXCEPT !.at = "stat", !.alias = a,
                                        !.src = Startup[a], !.todo = @ \ {a}])
      PROVE  IInv'
  <2> DEFINE q == [call[w] EXCEPT !.at = "stat", !.alias = a,
                                  !.src = Startup[a], !.todo = @ \ {a}]
  <2>1. /\ a \in DOMAIN Startup /\ a \in Aliases /\ a # None
        /\ Startup[a] \in Sources
    BY <1>1, RegistryAssumption DEF Held
  <2>2. q \in Call
    BY <1>1, <2>1 DEF Call
  <2>3. /\ q.at = "stat" /\ q.alias = a /\ q.src = Startup[a]
        /\ q.op = call[w].op /\ q.todo \subseteq call[w].todo
        /\ q.written = call[w].written
    BY <1>1 DEF Call
  <2> HIDE DEF q
  <2>4. Held(q)
    BY <1>1, <2>1, <2>3 DEF Held
  <2>5. QED  BY <1>1, <1>2, <1>4, <2>2, <2>3, <2>4, CallMoves DEF q
<1>5. QED  BY <1>3, <1>4 DEF NextAlias

(* An alias is skipped, or over before anything was written. *)
LEMMA CallEnds ==
  ASSUME IInv, NEW w \in Everyone, call[w].at # "register",
         Becomes(w, Over(call[w])),
         UNCHANGED <<source, row, stored, folder, crashes, parted>>,
         raced' = raced \cup Racing'
  PROVE  IInv'
<1>1. call[w] \in Call /\ Held(call[w])
  BY CallFacts
<1>2. /\ Over(call[w]) \in Call /\ Held(Over(call[w]))
      /\ Over(call[w]).at = "next" \/ Over(call[w]) = Idle
  BY <1>1, OverIsCall, RestHolds
<1>3. Over(call[w]).at \notin {"register", "rm"}
  BY <1>2 DEF Idle
<1>4. folder' \in [Aliases -> BOOLEAN]
  BY DEF IInv, TypeOK
<1>5. QED  BY <1>2, <1>3, <1>4, CallMoves

LEMMA StepRead ==
  ASSUME IInv, NEW w \in Everyone,
         FileExists(w) \/ Hashed(w) \/ EnsureDir(w) \/ Copied(w),
         raced' = raced \cup Racing'
  PROVE  IInv'
<1> DEFINE q == call[w]
<1>1. q \in Call /\ Held(q)
  BY CallFacts
<1>2. /\ source \in [Sources -> File] /\ folder \in [Aliases -> BOOLEAN]
      /\ q.at \notin {"idle", "next"} => q.alias \in Aliases
  BY CallFacts DEF IInv, TypeOK
<1>3. CASE FileExists(w)
  <2> DEFINE p == [q EXCEPT !.at = "hash"]
  <2>1. /\ q.at = "stat" /\ Becomes(w, p)
        /\ UNCHANGED <<source, row, stored, folder, crashes, parted>>
    BY <1>3 DEF FileExists
  <2>2. p \in Call /\ p.at = "hash"
    BY <1>1 DEF Call
  <2>3. Held(p)
    BY <1>1, <2>1 DEF Held, Call
  <2> HIDE DEF p, q
  <2>4. QED  BY <1>2, <2>1, <2>2, <2>3, CallMoves DEF q
<1>4. CASE Hashed(w)
  <2>1. /\ q.at = "hash" /\ source[q.src] # None
        /\ UNCHANGED <<source, row, stored, folder, crashes, parted>>
    BY <1>4 DEF Hashed
  <2> DEFINE p == [q EXCEPT !.at = "mkdir", !.sum = source[q.src]]
  <2>2. Becomes(w, Over(q)) \/ Becomes(w, p)
    BY <1>4 DEF Hashed
  <2>3. CASE Becomes(w, Over(q))
    BY <2>1, <2>3, CallEnds
  <2>4. CASE Becomes(w, p)
    <3>1. q.src \in Sources /\ source[q.src] \in Contents
      BY <1>1, <1>2, <2>1 DEF Held, File
    <3>2. p \in Call /\ p.at = "mkdir" /\ p.sum = source[q.src]
          /\ p.src = q.src /\ p.alias = q.alias /\ p.op = q.op
          /\ p.todo = q.todo /\ p.written = q.written
      BY <1>1, <3>1 DEF Call, File
    <3> HIDE DEF p
    <3>3. Held(p)
      BY <1>1, <2>1, <3>1, <3>2 DEF Held
    <3> HIDE DEF q
    <3>4. QED  BY <1>2, <2>1, <2>4, <3>2, <3>3, CallMoves DEF q
  <2>5. QED  BY <2>2, <2>3, <2>4
<1>5. CASE EnsureDir(w)
  <2> DEFINE p == [q EXCEPT !.at = "copy"]
  <2>1. /\ q.at = "mkdir" /\ Becomes(w, p)
        /\ folder' = [folder EXCEPT ![q.alias] = TRUE]
        /\ UNCHANGED <<source, row, stored, crashes, parted>>
    BY <1>5 DEF EnsureDir
  <2>2. p \in Call /\ p.at = "copy"
    BY <1>1 DEF Call
  <2>3. Held(p)
    BY <1>1, <2>1 DEF Held, Call
  <2>4. folder' \in [Aliases -> BOOLEAN]
    BY <1>2, <2>1
  <2> HIDE DEF p, q
  <2>5. QED  BY <2>1, <2>2, <2>3, <2>4, CallMoves DEF q
<1>6. CASE Copied(w)
  <2> DEFINE p == [q EXCEPT !.at = "rename", !.temp = source[q.src]]
  <2>1. /\ q.at = "copy" /\ Becomes(w, p)
        /\ UNCHANGED <<source, row, stored, folder, crashes, parted>>
    BY <1>6 DEF Copied
  <2>2. q.src \in Sources
    BY <1>1, <2>1 DEF Held
  <2>3. /\ p \in Call /\ p.at = "rename" /\ p.temp = source[q.src]
        /\ p.src = q.src /\ p.alias = q.alias /\ p.op = q.op
        /\ p.todo = q.todo /\ p.written = q.written /\ p.sum = q.sum
    BY <1>1, <1>2, <2>2 DEF Call
  <2> HIDE DEF p
  <2>4. Held(p)
    BY <1>1, <2>1, <2>2, <2>3 DEF Held
  <2> HIDE DEF q
  <2>5. QED  BY <1>2, <2>1, <2>3, <2>4, CallMoves DEF q
<1>7. QED  BY <1>3, <1>4, <1>5, <1>6

-----------------------------------------------------------------------------
(* Steps that write a file or a row. *)

LEMMA StepRenamed ==
  ASSUME IInv, NEW w \in Everyone, Renamed(w), raced' = raced \cup Racing'
  PROVE  IInv'
<1> DEFINE q == call[w]
           p == [q EXCEPT !.at = "register", !.temp = None]
           n == FileName[q.src]
<1>1. /\ q \in Call /\ Held(q) /\ q.alias \in Aliases /\ q.at = "rename"
      /\ q.temp # None
  BY CallFacts DEF Renamed
<1>2. /\ stored' = [stored EXCEPT ![q.alias][n] = q.temp]
      /\ Becomes(w, p)
      /\ UNCHANGED <<source, row, folder, crashes, parted>>
  BY DEF Renamed
<1>3. /\ q.src \in Sources /\ n \in FileNames /\ q.temp \in Contents
      /\ q.written \/ q.temp = q.sum
  BY <1>1, RegistryAssumption DEF Held, Call, File
<1>4. /\ p \in Call /\ p.at = "register" /\ p.alias = q.alias /\ p.op = q.op
      /\ p.src = q.src /\ p.sum = q.sum /\ p.written = q.written
      /\ p.todo = q.todo
  BY <1>1 DEF Call, File
<1> HIDE DEF p, n
<1>5. Held(p)
  BY <1>1, <1>4 DEF Held
<1>6. /\ call'[w] = p
      /\ \A v \in Everyone : v # w => call'[v] = call[v]
  BY <1>2, <1>4, Moved DEF IInv
<1>7. /\ call' \in [Everyone -> Call]
      /\ \A v \in Everyone : Held(call[v])'
      /\ Racing' \subseteq raced'
      /\ raced' \subseteq Aliases \X {"import", "remove", "sync"}
  BY <1>2, <1>4, <1>5, CallsHold
<1>8. /\ stored \in [Aliases -> [FileNames -> File]]
      /\ stored' \in [Aliases -> [FileNames -> File]]
  BY <1>1, <1>2, <1>3 DEF IInv, TypeOK, File
<1>9. TypeOK'
  BY <1>2, <1>7, <1>8 DEF IInv, TypeOK
<1>10. /\ stored'[q.alias][n] = q.temp
       /\ \A a \in Aliases, m \in FileNames :
            a # q.alias \/ m # n => stored'[a][m] = stored[a][m]
  BY <1>1, <1>2, <1>3, <1>8
<1>11. \A a \in Aliases, f \in Sources :
         Managed(a, f) # None => Managed(a, f)' # None
  <2>1. SUFFICES ASSUME NEW a \in Aliases, NEW f \in Sources,
                        Managed(a, f) # None
                 PROVE  stored'[a][FileName[f]] # None
    BY DEF Managed
  <2>2. FileName[f] \in FileNames
    BY RegistryAssumption
  <2>3. CASE a = q.alias /\ FileName[f] = n
    BY <1>1, <1>10, <2>3
  <2>4. CASE a # q.alias \/ FileName[f] # n
    BY <1>10, <2>1, <2>2, <2>4 DEF Managed
  <2>5. QED  BY <2>3, <2>4
<1>13. \A a \in Aliases : row[a] # NoRow => row[a].src \in Sources
  BY DEF IInv, TypeOK, Row
<1>14. ASSUME NEW a \in Aliases, Apart(a, "remove")' PROVE Backed(a)'
  <2>1. Backed(a)
    BY <1>14, RecordGrows DEF IInv
  <2>2. row'[a] # NoRow => Managed(a, row[a].src)' # None
    BY <1>2, <1>11, <1>13, <2>1 DEF Backed
  <2>3. ASSUME NEW v \in Everyone, call'[v].alias = a
        PROVE  /\ call'[v].at = "register" => Managed(a, call[v].src)' # None
               /\ call'[v].at = "rm" => row'[a] = NoRow
    <3>1. CASE v = w
      <4>1. call'[v].src = q.src /\ a = q.alias /\ call'[v].at = "register"
        BY <1>4, <1>6, <2>3, <3>1
      <4>2. Managed(a, call[v].src)' = q.temp
        BY <1>10, <4>1 DEF Managed, n
      <4>3. QED  BY <1>1, <4>1, <4>2
    <3>2. CASE v # w
      <4>1. call'[v] = call[v] /\ Held(call[v])
        BY <1>6, <3>2, CallFacts
      <4>2. call[v].at = "register" => call[v].src \in Sources
        BY <4>1 DEF Held
      <4>3. call[v].at = "register" => Managed(a, call[v].src) # None
        BY <2>1, <2>3, <4>1 DEF Backed
      <4>4. call[v].at = "register" => Managed(a, call[v].src)' # None
        <5>1. SUFFICES ASSUME call[v].at = "register"
                       PROVE  stored'[a][FileName[call[v].src]] # None
          BY <4>1 DEF Managed
        <5>2. PICK f \in Sources : f = call[v].src
          BY <4>2, <5>1
        <5>3. Managed(a, f)' # None
          BY <1>11, <4>3, <5>1, <5>2
        <5>4. QED  BY <5>2, <5>3 DEF Managed
      <4>5. call[v].at = "rm" => row[a] = NoRow
        BY <2>1, <2>3, <4>1 DEF Backed
      <4>6. QED  BY <1>2, <4>1, <4>4, <4>5
    <3>3. QED  BY <3>1, <3>2
  <2>4. QED  BY <2>2, <2>3 DEF Backed
<1>15. ASSUME NEW a \in Aliases, Quiet(a)' PROVE Matched(a)'
  <2>1. Quiet(a) /\ Matched(a)
    BY <1>15, RecordGrows DEF IInv
  <2>2. CASE a = q.alias
    <3>1. \A v \in Everyone : v # w => call'[v].alias # a
      <4>1. a # None
        BY RegistryAssumption
      <4>2. QED  BY <1>6, <2>1, <2>2, <4>1, Own
    <3>2. call'[w].at = "register" /\ call'[w].alias = a
      BY <1>4, <1>6, <2>2
    <3>3. ~call'[w].written => Managed(a, call[w].src)' = call'[w].sum
      <4>1. Managed(a, call[w].src)' = q.temp
        BY <1>4, <1>6, <1>10, <2>2 DEF Managed, n
      <4>2. QED  BY <1>3, <1>4, <1>6, <4>1
    <3>4. QED  BY <3>1, <3>2, <3>3 DEF Matched
  <2>3. CASE a # q.alias
    <3>1. \A f \in Sources : stored'[a][FileName[f]] = stored[a][FileName[f]]
      BY <1>10, <2>3, RegistryAssumption
    <3>2. \A v \in Everyone : call'[v].alias = a => call'[v] = call[v]
      BY <1>4, <1>6, <2>3
    <3>3. \A v \in Everyone : call[v].alias = a => call'[v] = call[v]
      BY <1>4, <1>6, <2>3
    <3>4. \A v \in Everyone : call[v].at = "register" => call[v].src \in Sources
      BY CallFacts DEF Held
    <3>5. /\ a \notin parted' /\ row'[a] # NoRow
          /\ \A v \in Everyone : call'[v].at = "register" => call'[v].alias # a
          => stored'[a][FileName[row'[a].src]] = row'[a].sum
      BY <1>2, <1>13, <2>1, <3>1, <3>3 DEF Matched, Managed
    <3>6. ASSUME NEW v \in Everyone, call'[v].alias = a,
                 call'[v].at = "register", ~call'[v].written
          PROVE  stored'[a][FileName[call'[v].src]] = call'[v].sum
      BY <2>1, <3>1, <3>2, <3>4, <3>6 DEF Matched, Managed
    <3>7. QED  BY <3>5, <3>6 DEF Matched, Managed
  <2>4. QED  BY <2>2, <2>3
<1>16. QED  BY <1>7, <1>9, <1>14, <1>15 DEF IInv

LEMMA StepUpsert ==
  ASSUME IInv, NEW w \in Everyone, UpsertModel(w), raced' = raced \cup Racing'
  PROVE  IInv'
<1> DEFINE q == call[w]
           p == Over(q)
           x == [src |-> q.src, sum |-> q.sum]
<1>1. /\ q \in Call /\ Held(q) /\ q.alias \in Aliases /\ q.at = "register"
  BY CallFacts DEF UpsertModel
<1>2. /\ row' = [row EXCEPT ![q.alias] = x]
      /\ parted' = IF q.written THEN parted \cup {q.alias}
                                ELSE parted \ {q.alias}
      /\ Becomes(w, p)
      /\ UNCHANGED <<source, stored, folder, crashes>>
  BY DEF UpsertModel
<1>3. q.src \in Sources /\ q.sum \in Contents
  BY <1>1 DEF Held
<1>4. /\ p \in Call /\ Held(p) /\ p.at \notin {"register", "rm"}
  BY <1>1, OverIsCall, RestHolds DEF Idle
<1>5. x \in Row /\ x.src = q.src /\ x.sum = q.sum
  BY <1>3 DEF Row
<1> HIDE DEF p, x
<1>6. /\ call'[w] = p
      /\ \A v \in Everyone : v # w => call'[v] = call[v]
  BY <1>2, <1>4, Moved DEF IInv
<1>7. /\ call' \in [Everyone -> Call]
      /\ \A v \in Everyone : Held(call[v])'
      /\ Racing' \subseteq raced'
      /\ raced' \subseteq Aliases \X {"import", "remove", "sync"}
  BY <1>2, <1>4, CallsHold
<1>8. /\ row \in [Aliases -> Row] /\ row' \in [Aliases -> Row]
      /\ parted' \subseteq Aliases
  BY <1>1, <1>2, <1>5 DEF IInv, TypeOK
<1>9. TypeOK'
  BY <1>2, <1>7, <1>8 DEF IInv, TypeOK
<1>10. /\ row'[q.alias] = x
       /\ \A a \in Aliases : a # q.alias => row'[a] = row[a]
  BY <1>1, <1>2, <1>8
<1>11. \A v \in Everyone :
         call'[v].at \in {"register", "rm"} => call'[v] = call[v] /\ v # w
  BY <1>4, <1>6
<1>12. ASSUME NEW a \in Aliases, Apart(a, "remove")' PROVE Backed(a)'
  <2>1. Apart(a, "remove") /\ Backed(a)
    BY <1>12, RecordGrows DEF IInv
  <2>2. row'[a] # NoRow => stored'[a][FileName[row'[a].src]] # None
    <3>1. CASE a = q.alias
      BY <1>1, <1>2, <1>5, <1>10, <2>1, <3>1 DEF Backed, Managed
    <3>2. CASE a # q.alias
      BY <1>2, <1>10, <2>1, <3>2 DEF Backed, Managed
    <3>3. QED  BY <3>1, <3>2
  <2>3. ASSUME NEW v \in Everyone, call'[v].alias = a, call'[v].at = "register"
        PROVE  stored'[a][FileName[call'[v].src]] # None
    BY <1>2, <1>11, <2>1, <2>3 DEF Backed, Managed
  <2>4. ASSUME NEW v \in Everyone, call'[v].alias = a, call'[v].at = "rm"
        PROVE  row'[a] = NoRow
    <3>1. call'[v] = call[v] /\ v # w
      BY <1>11, <2>4
    <3>2. CASE a = q.alias
      <4>1. call[v].op = "remove" /\ call[v].alias = a /\ a # None
        BY <2>4, <3>1, CallFacts, RegistryAssumption DEF Held
      <4>2. QED  BY <2>1, <3>1, <3>2, <4>1, Own
    <3>3. CASE a # q.alias
      BY <1>10, <2>1, <2>4, <3>1, <3>3 DEF Backed
    <3>4. QED  BY <3>2, <3>3
  <2>5. QED  BY <2>2, <2>3, <2>4 DEF Backed, Managed
<1>13. ASSUME NEW a \in Aliases, Quiet(a)' PROVE Matched(a)'
  <2>1. Quiet(a) /\ Matched(a)
    BY <1>13, RecordGrows DEF IInv
  <2>2. CASE a = q.alias
    <3>1. a \notin parted' => ~q.written
      BY <1>2, <2>2
    <3>2. a \notin parted' => stored'[a][FileName[row'[a].src]] = row'[a].sum
      BY <1>1, <1>2, <1>5, <1>10, <2>1, <2>2, <3>1 DEF Matched, Managed
    <3>3. \A v \in Everyone :
            call'[v].at = "register" => call'[v].alias # a
      <4>1. a # None
        BY RegistryAssumption
      <4>2. QED  BY <1>11, <2>1, <2>2, <4>1, Own
    <3>4. QED  BY <3>2, <3>3 DEF Matched, Managed
  <2>3. CASE a # q.alias
    <3>1. /\ row'[a] = row[a] /\ stored'[a] = stored[a]
          /\ a \in parted <=> a \in parted'
      BY <1>2, <1>10, <2>3
    <3>2. \A v \in Everyone : call[v].at = "register" /\ call[v].alias = a =>
            call'[v] = call[v]
      BY <1>6, <2>3
    <3>3. QED  BY <1>11, <2>1, <3>1, <3>2 DEF Matched, Managed
  <2>4. QED  BY <2>2, <2>3
<1>14. QED  BY <1>7, <1>9, <1>12, <1>13 DEF IInv

LEMMA StepFails ==
  ASSUME IInv, NEW w \in Everyone, Fails(w), raced' = raced \cup Racing'
  PROVE  IInv'
<1> DEFINE q == call[w]
           p == Over(q)
<1>1. /\ q \in Call /\ Held(q) /\ q.alias \in Aliases
  BY CallFacts DEF Fails
<1>2. /\ Becomes(w, p)
      /\ parted' = IF q.at = "register" THEN parted \cup {q.alias} ELSE parted
      /\ UNCHANGED <<source, row, stored, folder, crashes>>
  BY DEF Fails
<1>3. CASE q.at # "register"
  BY <1>2, <1>3, CallEnds
<1>4. CASE q.at = "register"
  <2>1. /\ p \in Call /\ Held(p) /\ p.at \notin {"register", "rm"}
    BY <1>1, OverIsCall, RestHolds DEF Idle
  <2> HIDE DEF p
  <2>2. /\ call'[w] = p
        /\ \A v \in Everyone : v # w => call'[v] = call[v]
    BY <1>2, <2>1, Moved DEF IInv
  <2>3. /\ call' \in [Everyone -> Call]
        /\ \A v \in Everyone : Held(call[v])'
        /\ Racing' \subseteq raced'
        /\ raced' \subseteq Aliases \X {"import", "remove", "sync"}
    BY <1>2, <2>1, CallsHold
  <2>4. parted' = parted \cup {q.alias} /\ TypeOK'
    BY <1>1, <1>2, <1>4, <2>3 DEF IInv, TypeOK
  <2>5. \A v \in Everyone :
          call'[v].at \in {"register", "rm"} => call'[v] = call[v]
    BY <2>1, <2>2
  <2>6. ASSUME NEW a \in Aliases, Apart(a, "remove")' PROVE Backed(a)'
    <3>1. Backed(a)
      BY <2>6, RecordGrows DEF IInv
    <3>2. QED  BY <1>2, <2>5, <3>1 DEF Backed, Managed
  <2>7. ASSUME NEW a \in Aliases, Quiet(a)' PROVE Matched(a)'
    <3>1. Matched(a)
      BY <2>7, RecordGrows DEF IInv
    <3>2. a \notin parted' =>
            \A v \in Everyone : call[v].at = "register" /\ call[v].alias = a =>
              call'[v] = call[v]
      BY <2>2, <2>4
    <3>3. QED  BY <1>2, <2>4, <2>5, <3>1, <3>2 DEF Matched, Managed
  <2>8. QED  BY <2>3, <2>4, <2>6, <2>7 DEF IInv
<1>5. QED  BY <1>3, <1>4

-----------------------------------------------------------------------------
(* Removal, crashes and the sources. *)

LEMMA StepRemove ==
  ASSUME IInv, NEW w \in Workers, NEW b \in Aliases, RemoveModel(w, b),
         raced' = raced \cup Racing'
  PROVE  IInv'
<1> DEFINE p == IF row[b] = NoRow THEN Idle
                ELSE [Idle EXCEPT !.at = "rm", !.op = "remove", !.alias = b]
<1>1. w \in Everyone /\ b # None
  BY RegistryAssumption DEF Everyone
<1>2. /\ row' = [row EXCEPT ![b] = NoRow] /\ Becomes(w, p)
      /\ call[w].at = "idle"
      /\ UNCHANGED <<source, stored, folder, crashes, parted>>
  BY DEF RemoveModel
<1>3. p \in Call
  BY IdleIsCall DEF Idle, Call
<1>4. Held(p)
  <2>1. CASE row[b] = NoRow
    BY <2>1, RestHolds
  <2>2. CASE row[b] # NoRow
    BY <1>1, <2>2 DEF Held, Idle, Operations
  <2>3. QED  BY <2>1, <2>2
<1>5. p.at = "idle" \/ (p.at = "rm" /\ p.alias = b)
  BY DEF Idle
<1> HIDE DEF p
<1>6. /\ call'[w] = p
      /\ \A v \in Everyone : v # w => call'[v] = call[v]
  BY <1>1, <1>2, <1>3, Moved DEF IInv
<1>7. /\ call' \in [Everyone -> Call]
      /\ \A v \in Everyone : Held(call[v])'
      /\ Racing' \subseteq raced'
      /\ raced' \subseteq Aliases \X {"import", "remove", "sync"}
  BY <1>1, <1>2, <1>3, <1>4, CallsHold
<1>8. /\ row \in [Aliases -> Row] /\ row' \in [Aliases -> Row]
      /\ row'[b] = NoRow /\ \A a \in Aliases : a # b => row'[a] = row[a]
  BY <1>2 DEF IInv, TypeOK, Row
<1>9. TypeOK'
  BY <1>2, <1>7, <1>8 DEF IInv, TypeOK
<1>10. \A a \in Aliases : row'[a] # NoRow => row'[a] = row[a]
  BY <1>8
<1>11. \A v \in Everyone : call'[v].at = "register" => call'[v] = call[v]
  BY <1>5, <1>6
<1>12. \A v \in Everyone : call[v].at = "register" => call'[v] = call[v]
  BY <1>2, <1>6
<1>13. ASSUME NEW a \in Aliases, Apart(a, "remove")' PROVE Backed(a)'
  <2>1. Backed(a)
    BY <1>13, RecordGrows DEF IInv
  <2>2. ASSUME NEW v \in Everyone, call'[v].alias = a, call'[v].at = "rm"
        PROVE  row'[a] = NoRow
    <3>1. CASE v = w
      BY <1>5, <1>6, <1>8, <2>2, <3>1
    <3>2. CASE v # w
      BY <1>6, <1>10, <2>1, <2>2, <3>2 DEF Backed
    <3>3. QED  BY <3>1, <3>2
  <2>3. QED  BY <1>2, <1>10, <1>11, <2>1, <2>2 DEF Backed, Managed
<1>14. ASSUME NEW a \in Aliases, Quiet(a)' PROVE Matched(a)'
  <2>1. Matched(a)
    BY <1>14, RecordGrows DEF IInv
  <2>2. QED  BY <1>2, <1>10, <1>11, <1>12, <2>1 DEF Matched, Managed
<1>15. QED  BY <1>7, <1>9, <1>13, <1>14 DEF IInv

LEMMA StepRemoveFolder ==
  ASSUME IInv, NEW w \in Everyone, RemoveFolder(w), raced' = raced \cup Racing'
  PROVE  IInv'
<1> DEFINE b == call[w].alias
<1>1. /\ call[w] \in Call /\ Held(call[w]) /\ b \in Aliases /\ b # None
      /\ call[w].at = "rm" /\ call[w].op = "remove"
  BY CallFacts, RegistryAssumption DEF RemoveFolder, Held
<1>2. UNCHANGED <<source, row, crashes, parted>>
  BY DEF RemoveFolder
<1>3. /\ stored \in [Aliases -> [FileNames -> File]]
      /\ folder \in [Aliases -> BOOLEAN] /\ call \in [Everyone -> Call]
  BY DEF IInv, TypeOK
<1>4. /\ stored' \in [Aliases -> [FileNames -> File]]
      /\ \A a \in Aliases : a # b => stored'[a] = stored[a]
      /\ folder' \in [Aliases -> BOOLEAN]
  <2>1. CASE /\ stored' = [stored EXCEPT ![b] = NoFiles]
             /\ folder' = [folder EXCEPT ![b] = FALSE]
    BY <1>1, <1>3, <2>1 DEF NoFiles, File
  <2>2. ASSUME NEW left \in SUBSET FileNames,
               stored' = [stored EXCEPT ![b] =
                            [n \in FileNames |-> IF n \in left THEN @[n] ELSE None]],
               UNCHANGED folder
        PROVE  /\ stored' \in [Aliases -> [FileNames -> File]]
               /\ \A a \in Aliases : a # b => stored'[a] = stored[a]
               /\ folder' \in [Aliases -> BOOLEAN]
    <3> DEFINE kept == [n \in FileNames |->
                          IF n \in left THEN stored[b][n] ELSE None]
    <3>1. kept \in [FileNames -> File]
      BY <1>1, <1>3 DEF File
    <3>2. stored' = [stored EXCEPT ![b] = kept]
      BY <2>2
    <3> HIDE DEF kept
    <3>3. QED  BY <1>1, <1>3, <2>2, <3>1, <3>2
  <2>3. QED  BY <2>1, <2>2 DEF RemoveFolder
<1>5. /\ call' \in [Everyone -> Call] /\ call'[w] = Idle
      /\ \A v \in Everyone : v # w =>
           call'[v] \in {call[v], [call[v] EXCEPT !.temp = None]}
      /\ \A v \in Everyone : v # w /\ call[v].alias # b => call'[v] = call[v]
  <2>1. CASE call' = [v \in Everyone |->
                        IF v = w THEN Idle
                        ELSE IF call[v].alias = b
                        THEN [call[v] EXCEPT !.temp = None] ELSE call[v]]
    <3>1. \A v \in Everyone : [call[v] EXCEPT !.temp = None] \in Call
      BY <1>3 DEF Call, File
    <3>2. QED  BY <1>3, <2>1, <3>1, IdleIsCall
  <2>2. CASE Becomes(w, Idle)
    BY <1>3, <2>2, IdleIsCall DEF Becomes
  <2>3. QED  BY <2>1, <2>2 DEF RemoveFolder
<1>6. ASSUME NEW v \in Everyone, v # w
      PROVE  /\ call'[v].at = call[v].at /\ call'[v].alias = call[v].alias
             /\ call'[v].op = call[v].op /\ call'[v].src = call[v].src
             /\ call'[v].sum = call[v].sum /\ call'[v].todo = call[v].todo
             /\ call'[v].written = call[v].written
             /\ call'[v].temp \in {None, call[v].temp}
  BY <1>3, <1>5, <1>6 DEF Call
<1>7. ASSUME NEW v \in Everyone PROVE Held(call[v])'
  <2>1. CASE v = w
    BY <1>2, <1>5, <2>1, RestHolds DEF Held
  <2>2. CASE v # w
    <3>1. Held(call[v])
      BY CallFacts
    <3>2. QED  BY <1>2, <1>6, <2>2, <3>1 DEF Held
  <2>3. QED  BY <2>1, <2>2
<1>8. /\ Racing' \subseteq raced'
      /\ raced' \subseteq Aliases \X {"import", "remove", "sync"}
  BY <1>5, <1>7, RecordHolds
<1>9. TypeOK'
  BY <1>2, <1>4, <1>5, <1>8 DEF IInv, TypeOK
<1>10. Idle.at = "idle" /\ Idle.alias = None
  BY DEF Idle
<1>11. \A a \in Aliases : Apart(a, "remove") /\ a = b =>
         /\ row[a] = NoRow
         /\ \A v \in Everyone : call'[v].alias # a
  <2>1. SUFFICES ASSUME Apart(b, "remove")
                 PROVE  /\ row[b] = NoRow
                        /\ \A v \in Everyone : call'[v].alias # b
    OBVIOUS
  <2>2. row[b] = NoRow
    BY <1>1, <2>1 DEF IInv, Backed
  <2>3. \A v \in Everyone : v # w => call[v].alias # b
    BY <1>1, <2>1, Own
  <2>4. QED  BY <1>1, <1>5, <1>6, <1>10, <2>2, <2>3
<1>12. ASSUME NEW a \in Aliases, Apart(a, "remove")' PROVE Backed(a)'
  <2>1. Apart(a, "remove") /\ Backed(a)
    BY <1>12, RecordGrows DEF IInv
  <2>2. CASE a = b
    BY <1>2, <1>11, <2>1, <2>2 DEF Backed
  <2>3. CASE a # b
    <3>1. \A v \in Everyone : call'[v].alias = a => call'[v] = call[v]
      BY <1>5, <1>6, <1>10, <2>3, RegistryAssumption
    <3>2. QED  BY <1>2, <1>4, <2>1, <2>3, <3>1 DEF Backed, Managed
  <2>4. QED  BY <2>2, <2>3
<1>13. ASSUME NEW a \in Aliases, Quiet(a)' PROVE Matched(a)'
  <2>1. Quiet(a) /\ Apart(a, "remove") /\ Matched(a)
    BY <1>13, RecordGrows DEF IInv
  <2>2. CASE a = b
    BY <1>2, <1>11, <2>1, <2>2 DEF Matched
  <2>3. CASE a # b
    <3>1. \A v \in Everyone : call'[v].alias = a => call'[v] = call[v]
      BY <1>5, <1>6, <1>10, <2>3, RegistryAssumption
    <3>2. \A v \in Everyone : call[v].alias = a => call'[v] = call[v]
      BY <1>5, <2>3
    <3>3. QED  BY <1>2, <1>4, <2>1, <2>3, <3>1, <3>2 DEF Matched, Managed
  <2>4. QED  BY <2>2, <2>3
<1>14. QED  BY <1>7, <1>8, <1>9, <1>12, <1>13 DEF IInv

LEMMA StepCrash ==
  ASSUME IInv, Crash, raced' = raced \cup Racing'
  PROVE  IInv'
<1>1. /\ call' = [w \in Everyone |-> IF w = Boot THEN Syncing ELSE Idle]
      /\ parted' = parted \cup {call[w].alias : w \in
                                  {v \in Everyone : call[v].at = "register"}}
      /\ UNCHANGED <<source, row, stored, folder>>
      /\ crashes < MaxCrashes /\ crashes' = crashes + 1
  BY DEF Crash
<1>2. call' \in [Everyone -> Call]
  BY <1>1, IdleIsCall
<1>3. \A v \in Everyone : /\ Held(call[v])'
                          /\ call'[v].at \in {"idle", "next"}
  <2>1. Held(Idle) /\ Held(Syncing)
    BY RestHolds
  <2>2. Idle.at = "idle" /\ Syncing.at = "next"
    BY DEF Idle, Syncing
  <2>3. \A v \in Everyone : call'[v] \in {Idle, Syncing}
    BY <1>1
  <2>4. QED  BY <1>1, <2>1, <2>2, <2>3 DEF Held
<1>4. /\ Racing' \subseteq raced'
      /\ raced' \subseteq Aliases \X {"import", "remove", "sync"}
  BY <1>2, <1>3, RecordHolds
<1>5. parted' \subseteq Aliases
  <2>1. \A v \in Everyone : call[v].at = "register" => call[v].alias \in Aliases
    BY CallFacts
  <2>2. QED  BY <1>1, <2>1 DEF IInv, TypeOK
<1>6. crashes' \in 0..MaxCrashes
  BY <1>1, RegistryAssumption DEF IInv, TypeOK
<1>7. TypeOK'
  BY <1>1, <1>2, <1>4, <1>5, <1>6 DEF IInv, TypeOK
<1>8. ASSUME NEW a \in Aliases, Apart(a, "remove")' PROVE Backed(a)'
  <2>1. Backed(a)
    BY <1>8, RecordGrows DEF IInv
  <2>2. QED  BY <1>1, <1>3, <2>1 DEF Backed, Managed
<1>9. ASSUME NEW a \in Aliases, Quiet(a)' PROVE Matched(a)'
  <2>1. Matched(a)
    BY <1>9, RecordGrows DEF IInv
  <2>2. a \notin parted' =>
          /\ a \notin parted
          /\ \A v \in Everyone : call[v].at = "register" => call[v].alias # a
    BY <1>1
  <2>3. QED  BY <1>1, <1>3, <2>1, <2>2 DEF Matched, Managed
<1>10. QED  BY <1>3, <1>4, <1>7, <1>8, <1>9 DEF IInv

LEMMA StepReplace ==
  ASSUME IInv, NEW f \in Sources, Replace(f), raced' = raced \cup Racing'
  PROVE  IInv'
<1>1. PICK c \in File : source' = [source EXCEPT ![f] = c]
  BY DEF Replace
<1>2. /\ call' = [w \in Everyone |->
                    [call[w] EXCEPT !.written =
                       @ \/ (call[w].src = f /\ call[w].at \in {"mkdir", "copy"})]]
      /\ UNCHANGED <<row, stored, folder, crashes, parted>>
  BY DEF Replace
<1>3. source \in [Sources -> File] /\ call \in [Everyone -> Call]
  BY DEF IInv, TypeOK
<1>4. ASSUME NEW v \in Everyone
      PROVE  /\ call'[v] \in Call
             /\ call'[v].at = call[v].at /\ call'[v].alias = call[v].alias
             /\ call'[v].op = call[v].op /\ call'[v].src = call[v].src
             /\ call'[v].sum = call[v].sum /\ call'[v].todo = call[v].todo
             /\ call'[v].temp = call[v].temp
             /\ call[v].written => call'[v].written
             /\ call[v].at \in {"mkdir", "copy"} /\ call[v].src = f =>
                  call'[v].written
             /\ call[v].at \notin {"mkdir", "copy"} =>
                  call'[v].written = call[v].written
  <2>1. call[v] \in Call
    BY <1>3
  <2> DEFINE b == call[v].written
                  \/ (call[v].src = f /\ call[v].at \in {"mkdir", "copy"})
  <2>2. call'[v] = [call[v] EXCEPT !.written = b]
    BY <1>2
  <2>3. b \in BOOLEAN
    BY <2>1 DEF Call
  <2>4. call'[v].written = b
    BY <2>1, <2>2 DEF Call
  <2>5. /\ call[v].written => b
        /\ call[v].at \in {"mkdir", "copy"} /\ call[v].src = f => b
        /\ call[v].at \notin {"mkdir", "copy"} => b = call[v].written
    BY <2>1 DEF Call
  <2> HIDE DEF b
  <2>6. QED  BY <2>1, <2>2, <2>3, <2>4, <2>5 DEF Call
<1>5. call' \in [Everyone -> Call]
  BY <1>2, <1>4
<1>6. source' \in [Sources -> File]
      /\ \A g \in Sources : g # f => source'[g] = source[g]
  BY <1>1, <1>3
<1>7. ASSUME NEW v \in Everyone PROVE Held(call[v])'
  <2>1. Held(call[v])
    BY CallFacts
  <2>2. call'[v].at \in {"mkdir", "copy"} =>
          call'[v].written \/ call'[v].sum = source'[call'[v].src]
    BY <1>4, <1>6, <2>1 DEF Held
  <2>3. QED  BY <1>4, <2>1, <2>2 DEF Held
<1>8. /\ Racing' \subseteq raced'
      /\ raced' \subseteq Aliases \X {"import", "remove", "sync"}
  BY <1>5, <1>7, RecordHolds
<1>9. TypeOK'
  BY <1>2, <1>5, <1>6, <1>8 DEF IInv, TypeOK
<1>10. ASSUME NEW a \in Aliases, Apart(a, "remove")' PROVE Backed(a)'
  <2>1. Backed(a)
    BY <1>10, RecordGrows DEF IInv
  <2>2. QED  BY <1>2, <1>4, <2>1 DEF Backed, Managed
<1>11. ASSUME NEW a \in Aliases, Quiet(a)' PROVE Matched(a)'
  <2>1. Matched(a)
    BY <1>11, RecordGrows DEF IInv
  <2>2. /\ row' = row /\ stored' = stored /\ parted' = parted
        /\ \A v \in Everyone :
             /\ call'[v].at = call[v].at /\ call'[v].alias = call[v].alias
             /\ call'[v].src = call[v].src /\ call'[v].sum = call[v].sum
    BY <1>2, <1>4
  <2>3. \A v \in Everyone : call[v].at = "register" =>
          call'[v].written = call[v].written
    BY <1>4
  <2>4. /\ a \notin parted' /\ row'[a] # NoRow
        /\ \A v \in Everyone : call'[v].at = "register" => call'[v].alias # a
        => stored'[a][FileName[row'[a].src]] = row'[a].sum
    <3>1. /\ a \notin parted /\ row[a] # NoRow
          /\ \A v \in Everyone : call[v].at = "register" => call[v].alias # a
          => stored[a][FileName[row[a].src]] = row[a].sum
      BY <2>1 DEF Matched, Managed
    <3>2. QED  BY <2>2, <3>1
  <2>5. ASSUME NEW v \in Everyone, call'[v].alias = a,
               call'[v].at = "register", ~call'[v].written
        PROVE  stored'[a][FileName[call'[v].src]] = call'[v].sum
    <3>1. /\ call[v].alias = a /\ call[v].at = "register"
          /\ ~call[v].written
      BY <2>2, <2>3, <2>5
    <3>2. stored[a][FileName[call[v].src]] = call[v].sum
      BY <2>1, <3>1 DEF Matched, Managed
    <3>3. QED  BY <2>2, <3>2
  <2>6. QED  BY <2>4, <2>5 DEF Matched, Managed
<1>12. QED  BY <1>7, <1>8, <1>9, <1>10, <1>11 DEF IInv

-----------------------------------------------------------------------------
(* Every step. *)

LEMMA InitIInv == Init => IInv
<1>1. SUFFICES ASSUME Init PROVE IInv
  OBVIOUS
<1>2. /\ \A w \in Everyone : call[w] \in {Idle, Syncing}
      /\ call \in [Everyone -> Call]
  BY <1>1, IdleIsCall DEF Init
<1>3. \A w \in Everyone : Held(call[w])
  BY <1>2, RestHolds
<1>4. /\ Idle.alias = None /\ Syncing.alias = None
      /\ Idle.at = "idle" /\ Syncing.at = "next"
  BY DEF Idle, Syncing
<1>5. \A w \in Everyone : call[w].alias = None /\ call[w].at # "register"
  BY <1>2, <1>4
<1>6. Racing = {}
  BY <1>5 DEF Racing
<1>7. /\ row \in [Aliases -> Row] /\ \A a \in Aliases : row[a] = NoRow
      /\ stored \in [Aliases -> [FileNames -> File]]
  BY <1>1 DEF Init, Row, NoFiles, File
<1>8. TypeOK
  BY <1>1, <1>2, <1>7, RegistryAssumption DEF Init, TypeOK
<1>9. \A a \in Aliases : Backed(a) /\ Matched(a)
  BY <1>5, <1>7, RegistryAssumption DEF Backed, Matched
<1>10. QED  BY <1>3, <1>6, <1>8, <1>9 DEF IInv

LEMMA NextIInv == IInv /\ [Next]_vars => IInv'
<1>1. SUFFICES ASSUME IInv, [Next]_vars PROVE IInv'
  OBVIOUS
<1>2. CASE UNCHANGED vars
  BY <1>1, <1>2 DEF vars, state, IInv, TypeOK, Racing, Held, Backed, Matched,
                    Managed, Quiet, Apart
<1>3. CASE Next
  <2>1. raced' = raced \cup Racing' /\ Step
    BY <1>3 DEF Next
  <2>2. ASSUME NEW w \in Workers, NEW op \in {"import", "sync"},
               NEW a \in Aliases, NEW f \in Sources, Begin(w, op, a, f)
        PROVE  IInv'
    BY <1>1, <2>1, <2>2, StepBegin
  <2>3. ASSUME NEW w \in Workers, NEW a \in Aliases, RemoveModel(w, a)
        PROVE  IInv'
    BY <1>1, <2>1, <2>3, StepRemove
  <2>4. ASSUME NEW w \in Everyone, Works(w) PROVE IInv'
    <3>1. CASE NextAlias(w)
      BY <1>1, <2>1, <3>1, StepNext
    <3>2. CASE FileExists(w) \/ Hashed(w) \/ EnsureDir(w) \/ Copied(w)
      BY <1>1, <2>1, <3>2, StepRead
    <3>3. CASE Renamed(w)
      BY <1>1, <2>1, <3>3, StepRenamed
    <3>4. CASE UpsertModel(w)
      BY <1>1, <2>1, <3>4, StepUpsert
    <3>5. CASE Fails(w)
      BY <1>1, <2>1, <3>5, StepFails
    <3>6. CASE RemoveFolder(w)
      BY <1>1, <2>1, <3>6, StepRemoveFolder
    <3>7. QED  BY <2>4, <3>1, <3>2, <3>3, <3>4, <3>5, <3>6 DEF Works
  <2>5. ASSUME NEW f \in Sources, Replace(f) PROVE IInv'
    BY <1>1, <2>1, <2>5, StepReplace
  <2>6. CASE Crash
    BY <1>1, <2>1, <2>6, StepCrash
  <2>7. QED  BY <2>1, <2>2, <2>3, <2>4, <2>5, <2>6 DEF Step
<1>4. QED  BY <1>1, <1>2, <1>3

-----------------------------------------------------------------------------
(* Every value has its type. *)
THEOREM RegistryTypeCorrect == Spec => []TypeOK
<1>1. IInv => TypeOK
  BY DEF IInv
<1>2. QED  BY <1>1, InitIInv, NextIInv, PTL DEF Spec

(* A row has its file, whatever fails and whenever the gateway dies, unless *)
(* a removal of the alias met another call (importModel, removeModel).      *)
THEOREM RegisteredModelsAreStored == Spec => []RegisteredIsStored
<1>1. IInv => RegisteredIsStored
  BY DEF IInv, Backed, RegisteredIsStored
<1>2. QED  BY <1>1, InitIInv, NextIInv, PTL DEF Spec

(* The file of a row is the one its checksum was taken of, except where the *)
(* code does not see to it: a source written while it is read, a row that   *)
(* could not be written after its file, and calls that met (copyFileAtomic, *)
(* syncFromSourceMap, importModel).                                         *)
THEOREM ChecksumsAreTrue == Spec => []ChecksumIsOfFile
<1>1. IInv => ChecksumIsOfFile
  BY DEF IInv, Matched, Quiet, Operations, ChecksumIsOfFile
<1>2. QED  BY <1>1, InitIInv, NextIInv, PTL DEF Spec
=============================================================================

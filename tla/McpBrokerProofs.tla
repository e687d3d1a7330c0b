--------------------------- MODULE McpBrokerProofs ---------------------------
(***************************************************************************)
(* Proofs about McpBroker, for every finite set of servers and callers,    *)
(* every world of requests and failures, and lists and searches without    *)
(* bound.                                                                  *)
(***************************************************************************)
EXTENDS McpBroker, FiniteSetTheorems, WellFoundedInduction, TLAPS

-----------------------------------------------------------------------------
(* The inductive invariants *)

(* A task works on a server, its call is sent once, and once more after it *)
(* reconnected, and only a call that was sent is answered.                 *)
Fits(q) ==
  /\ q \in Task
  /\ q.at \notin {"idle", "done"} => q.server \in Servers
  /\ q.at # "done" => q.outcome = "none"
  /\ q.at \notin {"calling", "done"} =>
       q.sent <= IF q.mode = "force" THEN 1 ELSE 0
  /\ q.at \in {"resolved", "waiting", "woken", "closing"} => q.sent = 0
  /\ q.at = "calling" => q.sent > 0 /\ (q.mode # "force" => q.sent = 1)
  /\ q.kind = "call" /\ q.outcome = "answered" => q.sent > 0

Fitted(f) == f \in [Tasks -> Task] /\ \A t \in Tasks : Fits(f[t])

TInv ==
  /\ TypeOK
  /\ world \in Worlds /\ IsFiniteSet(open)
  /\ Fitted(task)

(* Calls to tools in the catalog, of servers that never fail a call.       *)
Quiet == KnownCalls /\ world.faults \subseteq {"connect"}

(* Each server has one connection, or one that is being made; nobody       *)
(* refreshes or reconnects.                                                *)
OneConnection(s) ==
  /\ catalog[s] = 1 /\ offer[s] = 1 /\ task[s].at = "idle"
  /\ srv[s].status = "connected" => srv[s].client \in open
  /\ srv[s].status # "connected" => srv[s].client = 0
  /\ srv[s].status = "refreshing" => connections[s] # None
  /\ connections[s] # None =>
       /\ connections[s] \in Callers
       /\ task[connections[s]].server = s
       /\ task[connections[s]].at \in {"connecting", "saving"}

Registered(c) ==
  LET q == task[c]
      s == q.server IN
  /\ q.at \in {"connecting", "saving"} => connections[s] = c
  /\ q.at = "connecting" => q.since = 1 /\ srv[s].status = "refreshing"
  /\ q.at \in {"saving", "linked"} => srv[s].status = "connected"
  /\ q.at = "joined" => q.on = connections[s] /\ q.on # None
  /\ q.at = "calling" => q.client \in open

Plain(q) ==
  /\ q.at \in {"idle", "resolved", "connecting", "saving", "joined",
               "linked", "calling", "done"}
  /\ q.at # "idle" => q.kind = "call"
  /\ q.at \notin {"idle", "done"} => q.tool <= 1
  /\ q.mode \in {"none", "link"}
  /\ q.at \in {"connecting", "saving"} => q.mode = "link"
  /\ world.faults = {} /\ q.at = "done" => q.outcome = "answered" /\ q.sent = 1

Orderly ==
  /\ \A s \in Servers : OneConnection(s)
  /\ \A c \in Callers : Plain(task[c]) /\ Registered(c)
  /\ \A k \in open : \E s \in Servers : srv[s].client = k

QInv == Quiet => Orderly

-----------------------------------------------------------------------------
(* What the parts of a step make of a task *)

(* A function has as many values as arguments, at most. *)
LEMMA ValuesFinite ==
  ASSUME NEW S, IsFiniteSet(S), NEW f, f = [x \in S |-> f[x]]
  PROVE  IsFiniteSet({f[x] : x \in S})
<1> DEFINE T == {f[x] : x \in S}
<1>1. f \in Surjection(S, T)
  BY DEF Surjection
<1> QED
  BY <1>1, FS_Surjection

(* The numbers of clients run out for no task. *)
LEMMA NewClientFree ==
  ASSUME TInv
  PROVE  NewClient \in Nat \ {0} /\ NewClient \notin open
<1> DEFINE used == open \cup {srv[s].client : s \in Servers}
                        \cup {task[t].client : t \in Tasks}
                        \cup {task[t].was.client : t \in Tasks}
                        \cup {task[t].old.client : t \in Tasks}
           free == {k \in Nat \ {0} : k \notin used}
           New(k) == k \notin used /\ \A j \in 1..(k - 1) : j \in used
<1>1. IsFiniteSet(used)
  <2>1. IsFiniteSet(Tasks) /\ IsFiniteSet(Servers)
    BY BrokerAssumption, FS_Union DEF Tasks
  <2>2. IsFiniteSet({srv[s].client : s \in Servers})
    <3> DEFINE f == [s \in Servers |-> srv[s].client]
    <3>1. IsFiniteSet({f[x] : x \in Servers})
      BY <2>1, ValuesFinite
    <3> QED
      BY <3>1
  <2>3. IsFiniteSet({task[t].client : t \in Tasks})
    <3> DEFINE f == [t \in Tasks |-> task[t].client]
    <3>1. IsFiniteSet({f[x] : x \in Tasks})
      BY <2>1, ValuesFinite
    <3> QED
      BY <3>1
  <2>4. IsFiniteSet({task[t].was.client : t \in Tasks})
    <3> DEFINE f == [t \in Tasks |-> task[t].was.client]
    <3>1. IsFiniteSet({f[x] : x \in Tasks})
      BY <2>1, ValuesFinite
    <3> QED
      BY <3>1
  <2>5. IsFiniteSet({task[t].old.client : t \in Tasks})
    <3> DEFINE f == [t \in Tasks |-> task[t].old.client]
    <3>1. IsFiniteSet({f[x] : x \in Tasks})
      BY <2>1, ValuesFinite
    <3> QED
      BY <3>1
  <2>6. IsFiniteSet(open)
    BY DEF TInv
  <2> QED
    BY <2>2, <2>3, <2>4, <2>5, <2>6, FS_Union
<1>2. Cardinality(used) \in Nat
  BY <1>1, FS_CardinalityType
<1> HIDE DEF used
<1>3. \E k \in 1..(Cardinality(used) + 1) : k \notin used
  <2> SUFFICES ASSUME 1..(Cardinality(used) + 1) \subseteq used PROVE FALSE
    OBVIOUS
  <2>1. Cardinality(1..(Cardinality(used) + 1)) = Cardinality(used) + 1
    BY <1>2, FS_Interval
  <2>2. Cardinality(1..(Cardinality(used) + 1)) <= Cardinality(used)
    BY <1>1, FS_Subset
  <2> QED
    BY <1>2, <2>1, <2>2
<1>4. PICK k \in free : \A m \in free : ~(<<m, k>> \in OpToRel(<, Nat))
  <2>1. free # {} /\ free \subseteq Nat
    BY <1>2, <1>3
  <2> HIDE DEF free
  <2> QED
    BY <2>1, NatLessThanWellFounded, WFMin
<1>5. New(k)
  <2> SUFFICES ASSUME NEW j \in 1..(k - 1), j \notin used PROVE FALSE
    BY <1>4
  <2>1. j \in free /\ j < k /\ j \in Nat /\ k \in Nat
    OBVIOUS
  <2> QED
    BY <1>4, <2>1 DEF OpToRel
<1>6. k \in 1..(Cardinality(used) + 1)
  <2>1. PICK m \in 1..(Cardinality(used) + 1) : m \notin used
    BY <1>3
  <2>2. ~(m \in 1..(k - 1))
    BY <1>5, <2>1
  <2>3. k \in Nat \ {0} /\ m \in Nat
    BY <1>2
  <2> QED
    BY <1>2, <2>2, <2>3
<1>7. NewClient \in 1..(Cardinality(used) + 1) /\ New(NewClient)
  <2>1. NewClient = CHOOSE n \in 1..(Cardinality(used) + 1) : New(n)
    BY DEF NewClient, used
  <2> HIDE DEF New
  <2> QED
    BY <1>5, <1>6, <2>1
<1>8. open \subseteq used
  BY DEF used
<1> QED
  BY <1>2, <1>7, <1>8

(* A task of no work. *)
LEMMA IdleFits == Fits(Idle)
<1>1. 0 \in Versions /\ NoRecord \in Record
  BY BrokerAssumption DEF Versions, NoRecord, Record
<1> QED
  BY <1>1 DEF Fits, Idle, Task

(* What a task keeps when it goes on, set in two parts. *)
KeptFor(i, at, kind, s) ==
  [i EXCEPT !.at = at, !.kind = kind, !.server = s]
KeptOf(i, tool, mode, sent) ==
  [i EXCEPT !.tool = tool, !.mode = mode, !.sent = sent]

(* Gone sets the one part and then the other. *)
LEMMA GoneInTwo ==
  ASSUME NEW q, NEW at
  PROVE  Gone(q, at) = KeptOf(KeptFor(Idle, at, q.kind, q.server),
                              q.tool, q.mode, q.sent)
BY DEF Gone, KeptFor, KeptOf

(* The first part is of the type of a task. *)
LEMMA KeptForFits ==
  ASSUME NEW i \in Task,
         NEW at \in {"resolved", "linked", "closing", "calling", "dropping"},
         NEW kind \in {"none", "call", "describe", "search"},
         NEW s \in Servers \cup {None}
  PROVE  KeptFor(i, at, kind, s) \in Task
BY DEF KeptFor, Task

(* So is the second. *)
LEMMA KeptOfFits ==
  ASSUME NEW i \in Task, NEW tool \in Versions,
         NEW mode \in {"none", "refresh", "keep", "link", "force"},
         NEW sent \in 0..2
  PROVE  KeptOf(i, tool, mode, sent) \in Task
BY DEF KeptOf, Task

(* What a task keeps when it goes on is of its type. *)
LEMMA GoneTyped ==
  ASSUME NEW q \in Task,
         NEW at \in {"resolved", "linked", "closing", "calling", "dropping"}
  PROVE  Gone(q, at) \in Task
<1>1. Idle \in Task
  BY IdleFits DEF Fits
<1>2. /\ q.kind \in {"none", "call", "describe", "search"}
      /\ q.server \in Servers \cup {None} /\ q.tool \in Versions
      /\ q.mode \in {"none", "refresh", "keep", "link", "force"}
      /\ q.sent \in 0..2
  BY DEF Task
<1>3. KeptFor(Idle, at, q.kind, q.server) \in Task
  BY <1>1, <1>2, KeptForFits
<1> QED
  BY <1>2, <1>3, GoneInTwo, KeptOfFits

(* A task that has done with its connection, or with its client. *)
LEMMA GoneFits ==
  ASSUME NEW q, Fits(q), q.at \notin {"idle", "done"},
         NEW at \in {"resolved", "linked", "closing"},
         at \in {"resolved", "closing"} => q.sent = 0,
         at = "linked" => q.at # "calling"
  PROVE  Fits(Gone(q, at))
<1>1. Gone(q, at) \in Task
  BY GoneTyped DEF Fits
<1> QED
  BY <1>1 DEF Fits, Gone, Idle

(* A request that is over. *)
LEMMA EndedFits ==
  ASSUME NEW q, Fits(q), NEW outcome \in {"answered", "failed"},
         outcome = "answered" /\ q.kind = "call" => q.sent > 0
  PROVE  Fits(Ended(q, outcome))
<1>1. q.kind \in {"none", "call", "describe", "search"} /\ q.sent \in 0..2
  BY DEF Fits, Task
<1>2. Ended(q, outcome) \in Task
  <2> DEFINE i == Idle
             g == [i EXCEPT !.at = "done", !.kind = q.kind]
             h == [g EXCEPT !.sent = q.sent, !.outcome = outcome]
  <2>1. i \in Task
    BY IdleFits DEF Fits
  <2>2. Ended(q, outcome) = h
    BY DEF Ended
  <2> HIDE DEF i
  <2>3. g \in Task
    BY <1>1, <2>1 DEF Task
  <2> HIDE DEF g
  <2>4. h \in Task
    BY <1>1, <2>3 DEF Task
  <2> QED
    BY <2>2, <2>4
<1> QED
  BY <1>2 DEF Fits, Ended, Idle

(* A call that failed is sent again only if it was sent once. *)
LEMMA FailingFits ==
  ASSUME TInv, NEW q, Fits(q), q.at \notin {"idle", "done"}
  PROVE  Fits(Failing(q))
<1>1. 0 \in Versions /\ NoRecord \in Record /\ srv[q.server] \in Record
  BY BrokerAssumption
  DEF Versions, NoRecord, Record, TInv, TypeOK, Fits
<1>2. CASE q.mode # "force"
  <2>1. Failing(q) \in Task
    <3>1. Gone(q, "dropping") \in Task
      BY GoneTyped DEF Fits
    <3> QED
      BY <1>1, <1>2, <3>1 DEF Failing, Task
  <2>2. q.sent <= 1 /\ q.sent \in 0..2
    BY <1>2 DEF Fits, Task
  <2> QED
    BY <1>2, <2>1, <2>2 DEF Fits, Failing, Gone, Idle
<1>3. CASE q.mode = "force"
  BY <1>3, EndedFits DEF Failing
<1> QED
  BY <1>2, <1>3

(* tryCall sends the call to a client, or has failed. *)
LEMMA TriedFits ==
  ASSUME TInv, NEW q, Fits(q), q.at \in {"resolved", "woken", "linked"}
  PROVE  Fits(Tried(q))
<1>1. 0 \in Versions /\ NoRecord \in Record /\ srv[q.server] \in Record
  BY BrokerAssumption
  DEF Versions, NoRecord, Record, TInv, TypeOK, Fits
<1>2. CASE srv[q.server].status = "connected" /\ srv[q.server].client # 0
  <2>1. q.sent \in 0..1 /\ (q.mode # "force" => q.sent = 0)
    BY DEF Fits, Task
  <2>2. Tried(q) = [Gone(q, "calling") EXCEPT !.sent = q.sent + 1,
                      !.client = srv[q.server].client]
    BY <1>2 DEF Tried, Gone, Idle
  <2>3. q \in Task /\ srv[q.server].client \in Nat /\ q.sent + 1 \in 0..2
    BY <1>1, <2>1 DEF Fits, Record
  <2>4. Tried(q) \in Task
    <3>1. Gone(q, "calling") \in Task
      BY <2>3, GoneTyped
    <3> QED
      BY <2>2, <2>3, <3>1 DEF Task
  <2> QED
    BY <2>1, <2>2, <2>4 DEF Fits, Gone, Idle
<1>3. CASE ~(srv[q.server].status = "connected" /\ srv[q.server].client # 0)
  BY <1>3, FailingFits DEF Tried
<1> QED
  BY <1>2, <1>3

(* One task moves on. *)
LEMMA OneFits ==
  ASSUME TInv, NEW t \in Tasks, NEW q, Fits(q)
  PROVE  Fitted([task EXCEPT ![t] = q])
BY DEF TInv, Fitted, Fits

(* Those who await a connection resume. *)
LEMMA JoinedFits ==
  ASSUME TInv, NEW t \in Tasks, NEW to \in {"linked", "done"}
  PROVE  Fitted(Joined(t, to))
<1> SUFFICES ASSUME NEW u \in Tasks
             PROVE  Fits(Joined(t, to)[u])
  BY DEF Fitted, Fits, Joined
<1>1. Fits(task[u])
  BY DEF TInv, Fitted
<1>2. CASE task[u].at = "joined" /\ task[u].on = t
  BY <1>1, <1>2, GoneFits, EndedFits DEF Joined
<1>3. CASE ~(task[u].at = "joined" /\ task[u].on = t)
  BY <1>1, <1>3 DEF Joined
<1> QED
  BY <1>2, <1>3

(* Those who await a refresh resume. *)
LEMMA RefreshedFits ==
  ASSUME TInv, NEW t \in Tasks, NEW q, q = task[t],
         q.at \notin {"idle", "done", "waiting"},
         NEW outcome \in {"answered", "failed"},
         outcome = "answered" => q.sent = 0
  PROVE  Fitted(Refreshed(t, q, outcome))
<1>0. Fits(q)
  BY DEF TInv, Fitted
<1>1. CASE t \in Callers
  <2>1. Fits(IF outcome = "failed" THEN Ended(q, outcome)
             ELSE Gone(q, "resolved"))
    BY <1>0, GoneFits, EndedFits
  <2> QED
    BY <1>1, <2>1, OneFits DEF Refreshed
<1>2. CASE t \notin Callers
  <2> SUFFICES ASSUME NEW u \in Tasks
               PROVE  Fits(Refreshed(t, q, outcome)[u])
    BY <1>2 DEF Fitted, Fits, Refreshed
  <2>1. Fits(task[u])
    BY DEF TInv, Fitted
  <2>2. CASE u # t /\ task[u].at = "waiting" /\ task[u].server = t
    <3>1. Refreshed(t, q, outcome)[u] = [task[u] EXCEPT !.at = "woken"]
      BY <1>2, <2>2 DEF Refreshed
    <3>2. [task[u] EXCEPT !.at = "woken"] \in Task
      BY <2>1 DEF Fits, Task
    <3> QED
      BY <2>1, <2>2, <3>1, <3>2 DEF Fits, Task
  <2>3. CASE ~(u # t /\ task[u].at = "waiting" /\ task[u].server = t)
    <3>1. CASE u = t
      BY <1>2, <3>1, IdleFits DEF Refreshed
    <3>2. CASE u # t
      <4>1. Refreshed(t, q, outcome)[u] = task[u]
        BY <1>2, <2>3, <3>2 DEF Refreshed
      <4> QED
        BY <2>1, <4>1
    <3> QED
      BY <3>1, <3>2
  <2> QED
    BY <2>2, <2>3
<1> QED
  BY <1>1, <1>2

(* A refresh or a connection fails. *)
LEMMA CaughtFits ==
  ASSUME TInv, NEW t \in Tasks, task[t].at \in {"connecting", "saving"},
         Caught(t, task[t])
  PROVE  /\ Fitted(task')
         /\ srv' \in [Servers -> Record]
         /\ connections' \in [Servers -> Tasks \cup {None}]
         /\ srv'[task[t].server].status = "failed"
         /\ \A s \in Servers : s # task[t].server => srv'[s] = srv[s]
<1> DEFINE q == task[t]
           s == q.server
<1>1. Fits(q) /\ s \in Servers /\ srv[s] \in Record /\ q.old \in Record
  BY DEF TInv, TypeOK, Fitted, Fits, Task
<1>2. srv' \in [Servers -> Record]
  <2>1. [srv[s] EXCEPT !.client = 0, !.status = "failed"] \in Record
    BY <1>1 DEF Record
  <2>2. [[srv[s] EXCEPT !.client = 0, !.status = "failed"]
            EXCEPT !.tools = q.old.tools] \in Record
    BY <1>1 DEF Record
  <2> QED
    BY <2>1, <2>2 DEF Caught, TInv, TypeOK
<1>3. /\ srv'[s].status = "failed"
      /\ \A n \in Servers : n # s => srv'[n] = srv[n]
  BY <1>1 DEF Caught, TInv, TypeOK, Record
<1>4. CASE q.mode \in {"link", "force"}
  <2>1. connections' \in [Servers -> Tasks \cup {None}]
    BY <1>4 DEF Caught, TInv, TypeOK
  <2>2. task' = [Joined(t, "done") EXCEPT ![t] = Ended(q, "failed")]
    BY <1>4 DEF Caught
  <2>3. Fitted(task')
    BY <1>1, <2>2, JoinedFits, EndedFits DEF Fitted, Fits
  <2> QED
    BY <1>2, <1>3, <2>1, <2>3
<1>5. CASE q.mode \notin {"link", "force"}
  <2>1. connections' \in [Servers -> Tasks \cup {None}]
    BY <1>5 DEF Caught, TInv, TypeOK
  <2>2. CASE q.mode = "refresh" /\ q.client # 0
    <3> DEFINE p == [Gone(q, "closing") EXCEPT !.broken = TRUE,
                                               !.client = q.client]
    <3>1. task' = [task EXCEPT ![t] = p]
      BY <1>5, <2>2 DEF Caught
    <3>2. Fits(Gone(q, "closing"))
      BY <1>1, <2>2, GoneFits DEF Fits, Task
    <3>3. p \in Task
      BY <1>1, <3>2 DEF Fits, Task
    <3>4. Fits(p)
      BY <3>2, <3>3 DEF Fits, Task
    <3> HIDE DEF p
    <3>5. Fitted(task')
      BY <3>1, <3>4, OneFits
    <3> QED
      BY <1>2, <1>3, <2>1, <3>5
  <2>3. CASE ~(q.mode = "refresh" /\ q.client # 0)
    <3>1. task' = Refreshed(t, q, "failed")
      BY <1>5, <2>3 DEF Caught
    <3>2. Fitted(task')
      BY <1>1, <3>1, RefreshedFits
    <3> QED
      BY <1>2, <1>3, <2>1, <3>2
  <2> QED
    BY <2>2, <2>3
<1> QED
  BY <1>4, <1>5

(* A refresh or a connection of ensureConnected begins. *)
LEMMA BeginsFits ==
  ASSUME NEW q, q \in Task, q.server \in Servers, q.sent = 0,
         q.outcome = "none",
         NEW mode \in {"refresh", "keep", "link"},
         NEW was \in Record, NEW since \in Versions
  PROVE  Fits([q EXCEPT !.at = "connecting", !.mode = mode, !.was = was,
                        !.since = since])
<1>1. [q EXCEPT !.at = "connecting", !.mode = mode, !.was = was,
                !.since = since] \in Task
  BY DEF Task
<1> QED
  BY <1>1 DEF Fits, Task

(* So the record and the task of a connection are of their types. *)
LEMMA LinkingFits ==
  ASSUME TInv, NEW t \in Tasks, task[t].at \in {"resolved", "woken"},
         NEW was \in Record, Linking(t, task[t], was)
  PROVE  /\ Fitted(task')
         /\ srv' \in [Servers -> Record]
         /\ connections' \in [Servers -> Tasks \cup {None}]
<1> DEFINE q == task[t]
           s == q.server
<1>1. Fits(q) /\ q \in Task /\ s \in Servers /\ offer[s] \in Versions
  BY DEF TInv, TypeOK, Fitted, Fits
<1>2. q.sent = 0 /\ q.outcome = "none"
  BY <1>1 DEF Fits
<1>3. Fits([q EXCEPT !.at = "connecting", !.mode = "link", !.was = was,
                     !.since = offer[s]])
  BY <1>1, <1>2, BeginsFits
<1>4. [was EXCEPT !.client = 0, !.status = "refreshing"] \in Record
  BY DEF Record
<1> QED
  BY <1>1, <1>3, <1>4, OneFits DEF Linking, TInv, TypeOK

(* So they are of a refresh.                                               *)
LEMMA RefreshingFits ==
  ASSUME TInv, NEW t \in Tasks, NEW q, q \in Task, q.server \in Servers,
         q.sent = 0, q.outcome = "none", NEW mode \in {"refresh", "keep"},
         Refreshing(t, q, q.server, mode)
  PROVE  Fitted(task') /\ srv' \in [Servers -> Record]
<1> DEFINE s == q.server
<1>1. srv[s] \in Record /\ offer[s] \in Versions
  BY DEF TInv, TypeOK
<1>2. Fits([q EXCEPT !.at = "connecting", !.mode = mode, !.was = srv[s],
                     !.since = offer[s]])
  BY <1>1, BeginsFits
<1>3. [srv[s] EXCEPT !.status = "refreshing"] \in Record
  BY <1>1 DEF Record
<1> QED
  BY <1>2, <1>3, OneFits DEF Refreshing, TInv, TypeOK

-----------------------------------------------------------------------------
(* Type correctness *)

(* The handlers of a request, up to a connection. *)
LEMMA RequestsTyped ==
  ASSUME TInv, UNCHANGED world
  PROVE  /\ \A c \in Callers, kind \in {"call", "describe"}, s \in Servers,
              tool \in 1..world.lists : Ask(c, kind, s, tool) => TInv'
         /\ \A s \in Servers : Search(s) => TInv'
         /\ \A c \in Callers : Resolved(c) \/ Woken(c) \/ Linked(c) => TInv'
<1>1. world \in Worldly /\ world.lists \in 1..MaxVersion
  BY BrokerAssumption DEF TInv, Worldly
<1>2. Callers \subseteq Tasks /\ Servers \subseteq Tasks
  BY DEF Tasks
<1>3. 0 \in Versions /\ NoRecord \in Record
  BY BrokerAssumption DEF Versions, NoRecord, Record
<1>4. ASSUME NEW c \in Callers, NEW kind \in {"call", "describe"},
             NEW s \in Servers, NEW tool \in 1..world.lists,
             Ask(c, kind, s, tool)
      PROVE  TInv'
  <2> DEFINE q == [Idle EXCEPT !.kind = kind, !.server = s, !.tool = tool]
  <2>1. tool \in Versions
    BY <1>1, BrokerAssumption DEF Versions
  <2>2. Idle \in Task
    BY IdleFits DEF Fits
  <2>3. /\ q \in Task /\ q.server = s /\ q.sent = 0 /\ q.outcome = "none"
        /\ q.kind = kind /\ q.mode = "none"
    BY <2>1, <2>2 DEF Task, Idle
  <2>4. \/ task' = [task EXCEPT ![c] = [q EXCEPT !.at = "resolved"]]
           /\ UNCHANGED srv
        \/ \E mode \in {"refresh", "keep"} : Refreshing(c, q, s, mode)
    BY <1>4 DEF Ask
  <2>5. UNCHANGED <<catalog, connections, file, open, offer, searches>>
    BY <1>4 DEF Ask
  <2> HIDE DEF q
  <2>6. Fitted(task') /\ srv' \in [Servers -> Record]
    <3>1. CASE task' = [task EXCEPT ![c] = [q EXCEPT !.at = "resolved"]]
               /\ UNCHANGED srv
      <4>1. [q EXCEPT !.at = "resolved"] \in Task
        BY <2>3 DEF Task
      <4>2. Fits([q EXCEPT !.at = "resolved"])
        BY <2>3, <4>1 DEF Fits, Task
      <4> QED
        BY <1>2, <3>1, <4>2, OneFits DEF TInv, TypeOK
    <3>2. CASE \E mode \in {"refresh", "keep"} : Refreshing(c, q, s, mode)
      BY <1>2, <2>3, <3>2, RefreshingFits
    <3> QED
      BY <2>4, <3>1, <3>2
  <2> QED
    BY <2>5, <2>6 DEF TInv, TypeOK, Fitted
<1>5. ASSUME NEW s \in Servers, Search(s)
      PROVE  TInv'
  <2> DEFINE q == [Idle EXCEPT !.kind = "search", !.server = s]
  <2>1. Idle \in Task
    BY IdleFits DEF Fits
  <2>2. q \in Task /\ q.server = s /\ q.sent = 0 /\ q.outcome = "none"
    BY <2>1 DEF Task, Idle
  <2>3. Refreshing(s, q, s, "refresh")
    BY <1>5 DEF Search
  <2>4. /\ UNCHANGED <<catalog, connections, file, open, offer>>
        /\ searches < MaxSearches /\ searches' = searches + 1
    BY <1>5 DEF Search
  <2> HIDE DEF q
  <2>5. Fitted(task') /\ srv' \in [Servers -> Record]
    BY <1>2, <2>2, <2>3, RefreshingFits
  <2>6. searches' \in 0..MaxSearches
    BY <2>4, BrokerAssumption DEF TInv, TypeOK
  <2> QED
    BY <2>4, <2>5, <2>6 DEF TInv, TypeOK, Fitted
<1>6. ASSUME NEW c \in Callers, Resolved(c) \/ Woken(c) \/ Linked(c)
      PROVE  TInv'
  <2> DEFINE q == task[c]
             s == q.server
  <2>1. /\ c \in Tasks /\ Fits(q) /\ q \in Task
        /\ q.at \in {"resolved", "woken", "linked"}
    BY <1>2, <1>6 DEF Resolved, Woken, Linked, TInv, Fitted, Fits
  <2>2. s \in Servers /\ srv[s] \in Record /\ q.was \in Record
    BY <2>1 DEF TInv, TypeOK, Fits, Task
  <2>3. UNCHANGED <<catalog, file, open, offer, searches>>
    BY <1>6 DEF Resolved, Woken, Linked
  <2>4. /\ Fitted(task') /\ srv' \in [Servers -> Record]
        /\ connections' \in [Servers -> Tasks \cup {None}]
    <3>0. srv \in [Servers -> Record]
          /\ connections \in [Servers -> Tasks \cup {None}]
      BY DEF TInv, TypeOK
    <3>1. CASE \E p : /\ Fits(p) /\ task' = [task EXCEPT ![c] = p]
                      /\ UNCHANGED <<srv, connections>>
      BY <2>1, <3>0, <3>1, OneFits
    <3>2. CASE \E was \in Record : Linking(c, q, was) /\ q.at # "linked"
      BY <2>1, <3>2, LinkingFits
    <3>3. CASE Linked(c)
      <4>1. Fits(Tried(q))
        BY <2>1, TriedFits
      <4> QED
        BY <3>1, <3>3, <4>1 DEF Linked
    <3>4. CASE Woken(c)
      <4>1. Fits(Tried(q))
        BY <2>1, TriedFits
      <4> QED
        BY <2>2, <3>1, <3>2, <3>4, <4>1 DEF Woken
    <3>5. CASE Resolved(c)
      <4>0. q.at = "resolved" /\ q.sent = 0 /\ q.outcome = "none"
        BY <2>1, <3>5 DEF Resolved, Fits
      <4>1. CASE q.kind = "describe" \/ ~(catalog[s] >= q.tool)
        <5>1. \E outcome \in {"answered", "failed"} :
                /\ task' = [task EXCEPT ![c] = Ended(q, outcome)]
                /\ outcome = "answered" => q.kind = "describe"
                /\ UNCHANGED <<srv, connections>>
          BY <3>5, <4>1 DEF Resolved
        <5> QED
          BY <2>1, <3>1, <5>1, EndedFits
      <4>2. CASE q.kind = "call" /\ catalog[s] >= q.tool
        <5>1. CASE srv[s].status = "connected" /\ srv[s].client # 0
          <6>1. Fits(Tried(q))
            BY <2>1, TriedFits
          <6>2. task' = [task EXCEPT ![c] = Tried(q)]
                /\ UNCHANGED <<srv, connections>>
            BY <3>5, <4>2, <5>1 DEF Resolved
          <6> QED
            BY <3>1, <6>1, <6>2
        <5>2. CASE srv[s].status # "connected" /\ connections[s] # None
          <6> DEFINE p == [q EXCEPT !.at = "joined", !.on = connections[s]]
          <6>1. task' = [task EXCEPT ![c] = p] /\ UNCHANGED <<srv, connections>>
            BY <3>5, <4>2, <5>2 DEF Resolved
          <6>2. p \in Task
            BY <2>1, <2>2, <3>0 DEF Task
          <6>3. Fits(p)
            BY <2>1, <4>0, <6>2 DEF Fits, Task
          <6> HIDE DEF p
          <6> QED
            BY <3>1, <6>1, <6>3
        <5>3. CASE /\ srv[s].status # "connected" /\ connections[s] = None
                   /\ task[s].at # "idle"
          <6> DEFINE p == [q EXCEPT !.at = "waiting", !.was = srv[s]]
          <6>1. task' = [task EXCEPT ![c] = p] /\ UNCHANGED <<srv, connections>>
            BY <3>5, <4>2, <5>3 DEF Resolved
          <6>2. p \in Task
            BY <2>1, <2>2 DEF Task
          <6>3. Fits(p)
            BY <2>1, <4>0, <6>2 DEF Fits, Task
          <6> HIDE DEF p
          <6> QED
            BY <3>1, <6>1, <6>3
        <5>4. CASE /\ ~(srv[s].status = "connected" /\ srv[s].client # 0)
                   /\ ~(srv[s].status # "connected" /\ connections[s] # None)
                   /\ ~(/\ srv[s].status # "connected" /\ connections[s] = None
                        /\ task[s].at # "idle")
          <6>1. Linking(c, q, srv[s])
            BY <3>5, <4>2, <5>4 DEF Resolved
          <6> QED
            BY <2>2, <3>2, <4>0, <6>1
        <5> QED
          BY <5>1, <5>2, <5>3, <5>4
      <4> QED
        BY <3>5, <4>1, <4>2 DEF Resolved
    <3> QED
      BY <1>6, <3>3, <3>4, <3>5
  <2> QED
    BY <2>3, <2>4 DEF TInv, TypeOK, Fitted
<1> QED
  BY <1>4, <1>5, <1>6

(* connectOne, what follows it and how it fails. *)
LEMMA MovesTyped ==
  ASSUME TInv, UNCHANGED world, NEW t \in Tasks, Moves(t)
  PROVE  TInv'
<1> DEFINE q == task[t]
           s == q.server
<1>1. Fits(q) /\ q \in Task
  BY DEF TInv, Fitted, Fits
<1>2. q.at \in {"connecting", "saving", "closing"} /\ s \in Servers
  BY <1>1 DEF Moves, Connected, ConnectFails, Saved, SaveFails, Closed, Fits
<1>3. /\ srv \in [Servers -> Record] /\ srv[s] \in Record
      /\ connections \in [Servers -> Tasks \cup {None}]
      /\ offer[s] \in Versions /\ IsFiniteSet(open) /\ open \subseteq Nat \ {0}
  BY <1>2 DEF TInv, TypeOK
<1>4. CASE Connected(t)
  <2> DEFINE k == NewClient
             status == IF q.mode = "refresh" THEN "cached" ELSE "connected"
             snap == [n \in Servers |-> srv'[n].tools]
  <2>1. PICK v \in q.since..offer[s] : Applied(s, status, k, v)
    BY <1>4 DEF Connected
  <2>2. k \in Nat \ {0} /\ v \in Versions
    BY <1>1, <1>3, NewClientFree, BrokerAssumption DEF Task, Versions
  <2>3. srv' \in [Servers -> Record]
        /\ catalog' \in [Servers -> Versions]
    BY <1>2, <1>3, <2>1, <2>2 DEF Applied, TInv, TypeOK, Record
  <2>4. snap \in [Servers -> Versions]
    BY <2>3 DEF Record
  <2> DEFINE p == [q EXCEPT !.at = "saving", !.client = k, !.was = NoRecord,
                            !.since = 0, !.snap = snap]
  <2>5. task' = [task EXCEPT ![t] = p] /\ open' = open \cup {k}
        /\ UNCHANGED <<connections, file, offer, searches>>
    BY <1>4 DEF Connected
  <2>6. 0 \in Versions /\ NoRecord \in Record
    BY BrokerAssumption DEF Versions, NoRecord, Record
  <2> HIDE DEF snap, k
  <2>7. p \in Task
    BY <1>1, <2>2, <2>4, <2>6 DEF Task
  <2>8. Fits(p)
    BY <1>1, <1>2, <1>4, <2>7 DEF Fits, Task, Connected
  <2> HIDE DEF p
  <2>9. Fitted(task')
    BY <2>5, <2>8, OneFits
  <2>10. IsFiniteSet(open') /\ open' \subseteq Nat \ {0}
    BY <1>3, <2>2, <2>5, FS_AddElement
  <2> QED
    BY <2>3, <2>5, <2>9, <2>10 DEF TInv, TypeOK, Fitted
<1>5. CASE ConnectFails(t) \/ SaveFails(t)
  <2>1. Caught(t, q) /\ q.at \in {"connecting", "saving"}
        /\ UNCHANGED <<catalog, file, offer, searches>>
        /\ open' \in {open, open \cup {NewClient}}
    BY <1>5 DEF ConnectFails, SaveFails
  <2>2. /\ Fitted(task') /\ srv' \in [Servers -> Record]
        /\ connections' \in [Servers -> Tasks \cup {None}]
    BY <2>1, CaughtFits
  <2>3. IsFiniteSet(open') /\ open' \subseteq Nat \ {0}
    BY <1>3, <2>1, NewClientFree, FS_AddElement
  <2> QED
    BY <2>1, <2>2, <2>3 DEF TInv, TypeOK, Fitted
<1>6. CASE Saved(t)
  <2>1. /\ q.at = "saving" /\ file' = q.snap
        /\ UNCHANGED <<srv, catalog, open, offer, searches>>
    BY <1>6 DEF Saved
  <2>2. file' \in [Servers -> Versions]
    BY <1>1, <2>1 DEF Task
  <2>3. Fitted(task') /\ connections' \in [Servers -> Tasks \cup {None}]
    <3>1. CASE q.mode = "refresh"
      <4> DEFINE p == [Gone(q, "closing") EXCEPT !.client = q.client]
      <4>1. task' = [task EXCEPT ![t] = p] /\ UNCHANGED connections
        BY <1>6, <3>1 DEF Saved
      <4>2. Fits(Gone(q, "closing"))
        BY <1>1, <2>1, <3>1, GoneFits DEF Fits, Task
      <4>3. p \in Task
        BY <1>1, <4>2 DEF Fits, Task
      <4>4. Fits(p)
        BY <4>2, <4>3 DEF Fits, Task
      <4> HIDE DEF p
      <4> QED
        BY <1>3, <4>1, <4>4, OneFits
    <3>2. CASE q.mode = "keep"
      <4>1. task' = Refreshed(t, q, "answered") /\ UNCHANGED connections
        BY <1>6, <3>2 DEF Saved
      <4>2. q.sent = 0
        BY <1>1, <2>1, <3>2 DEF Fits, Task
      <4> QED
        BY <1>3, <2>1, <4>1, <4>2, RefreshedFits
    <3>3. CASE q.mode \notin {"refresh", "keep"}
      <4>1. /\ task' = [Joined(t, "linked") EXCEPT ![t] = Gone(q, "linked")]
            /\ connections' = [connections EXCEPT ![s] = None]
        BY <1>6, <3>3 DEF Saved
      <4>2. Fits(Gone(q, "linked"))
        BY <1>1, <2>1, GoneFits
      <4> QED
        BY <1>3, <4>1, <4>2, JoinedFits DEF Fitted, Fits
    <3> QED
      BY <3>1, <3>2, <3>3
  <2> QED
    BY <2>1, <2>2, <2>3 DEF TInv, TypeOK, Fitted
<1>7. CASE Closed(t)
  <2>1. /\ q.at = "closing"
        /\ open' = open \ {q.client}
        /\ srv' = [srv EXCEPT ![s].client =
                     IF srv[s].status = "cached" THEN 0 ELSE @]
        /\ \E outcome \in {"answered", "failed"} :
             task' = Refreshed(t, q, outcome)
        /\ UNCHANGED <<catalog, connections, file, offer, searches>>
    BY <1>7 DEF Closed
  <2>2. q.sent = 0
    BY <1>1, <2>1 DEF Fits
  <2>3. Fitted(task')
    BY <2>1, <2>2, RefreshedFits
  <2>4. srv' \in [Servers -> Record]
    BY <1>3, <2>1 DEF Record
  <2>5. IsFiniteSet(open') /\ open' \subseteq Nat \ {0}
    BY <1>3, <2>1, FS_Subset
  <2> QED
    BY <2>1, <2>3, <2>4, <2>5 DEF TInv, TypeOK, Fitted
<1> QED
  BY <1>4, <1>5, <1>6, <1>7 DEF Moves

(* The call and the reconnection. *)
LEMMA CallsTyped ==
  ASSUME TInv, UNCHANGED world, NEW c \in Callers,
         CallReturns(c) \/ CallFails(c) \/ Dropped(c) \/ Reclosed(c)
  PROVE  TInv'
<1> DEFINE q == task[c]
           s == q.server
<1>1. c \in Tasks /\ Fits(q) /\ q \in Task
  BY DEF TInv, Fitted, Fits, Tasks
<1>2. q.at \in {"calling", "dropping", "reclosing"} /\ s \in Servers
  BY <1>1 DEF CallReturns, CallFails, Dropped, Reclosed, Fits
<1>3. /\ srv \in [Servers -> Record] /\ srv[s] \in Record
      /\ connections \in [Servers -> Tasks \cup {None}]
      /\ offer[s] \in Versions /\ IsFiniteSet(open) /\ open \subseteq Nat \ {0}
  BY <1>2 DEF TInv, TypeOK
<1>4. CASE CallReturns(c) \/ CallFails(c)
  <2>1. /\ q.at = "calling"
        /\ UNCHANGED <<srv, catalog, connections, file, open, offer, searches>>
        /\ \/ task' = [task EXCEPT ![c] = Ended(q, "answered")]
           \/ task' = [task EXCEPT ![c] = Failing(q)]
    BY <1>4 DEF CallReturns, CallFails
  <2>2. Fits(Ended(q, "answered")) /\ Fits(Failing(q))
    <3>1. q.sent > 0
      BY <1>1, <2>1 DEF Fits
    <3> QED
      BY <1>1, <2>1, <3>1, EndedFits, FailingFits
  <2>3. Fitted(task')
    BY <1>1, <2>1, <2>2, OneFits
  <2> QED
    BY <2>1, <2>3 DEF TInv, TypeOK, Fitted
<1>5. CASE Dropped(c)
  <2> DEFINE p == [q EXCEPT !.at = "reclosing", !.was = srv[s]]
  <2>1. /\ q.at = "dropping"
        /\ task' = [task EXCEPT ![c] = p]
        /\ open' = open \ {q.old.client}
        /\ connections' = [connections EXCEPT ![s] = c]
        /\ UNCHANGED <<srv, catalog, file, offer, searches>>
    BY <1>5 DEF Dropped
  <2>2. p \in Task
    BY <1>1, <1>3 DEF Task
  <2>3. Fits(p)
    BY <1>1, <2>1, <2>2 DEF Fits, Task
  <2> HIDE DEF p
  <2>4. Fitted(task')
    BY <1>1, <2>1, <2>3, OneFits
  <2>5. IsFiniteSet(open') /\ open' \subseteq Nat \ {0}
    BY <1>3, <2>1, FS_Subset
  <2>6. connections' \in [Servers -> Tasks \cup {None}]
    BY <1>1, <1>3, <2>1
  <2> QED
    BY <2>1, <2>4, <2>5, <2>6 DEF TInv, TypeOK, Fitted
<1>6. CASE Reclosed(c)
  <2> DEFINE p == [q EXCEPT !.at = "connecting", !.since = offer[s]]
  <2>1. /\ q.at = "reclosing"
        /\ task' = [task EXCEPT ![c] = p]
        /\ open' = open \ {q.was.client}
        /\ srv' = [srv EXCEPT ![s] =
                     [q.was EXCEPT !.client = 0, !.status = "refreshing"]]
        /\ UNCHANGED <<catalog, connections, file, offer, searches>>
    BY <1>6 DEF Reclosed
  <2>2. p \in Task /\ q.was \in Record
    BY <1>1, <1>3 DEF Task
  <2>3. Fits(p)
    BY <1>1, <2>1, <2>2 DEF Fits, Task
  <2> HIDE DEF p
  <2>4. Fitted(task')
    BY <1>1, <2>1, <2>3, OneFits
  <2>5. IsFiniteSet(open') /\ open' \subseteq Nat \ {0}
    BY <1>3, <2>1, FS_Subset
  <2>6. srv' \in [Servers -> Record]
    BY <1>3, <2>1, <2>2 DEF Record
  <2> QED
    BY <2>1, <2>4, <2>5, <2>6 DEF TInv, TypeOK, Fitted
<1> QED
  BY <1>4, <1>5, <1>6

(* The cache file gives the records and the catalog their types.           *)
LEMMA InitTyped == Init => TInv
<1> SUFFICES ASSUME Init PROVE TInv
  OBVIOUS
<1>1. world \in Worlds /\ world.cached \subseteq {0, 1}
  BY BrokerAssumption DEF Init, Worldly
<1>2. 0 \in Versions /\ 1 \in Versions
  BY BrokerAssumption DEF Versions
<1>3. file \in [Servers -> Versions]
  BY <1>1, <1>2 DEF Init
<1>4. srv \in [Servers -> Record]
  BY <1>1, <1>2, <1>3 DEF Init, NoRecord, Record
<1>5. Fitted(task)
  BY IdleFits DEF Init, Fitted, Fits
<1>6. IsFiniteSet(open)
  BY FS_EmptySet DEF Init
<1>7. /\ connections \in [Servers -> Tasks \cup {None}]
      /\ catalog \in [Servers -> Versions] /\ open \subseteq Nat \ {0}
      /\ offer \in [Servers -> Versions]
  BY <1>2, <1>3 DEF Init
<1>8. searches \in 0..MaxSearches
  <2>1. searches = 0
    BY DEF Init
  <2> QED
    BY <2>1, BrokerAssumption
<1> QED
  BY <1>1, <1>3, <1>4, <1>5, <1>6, <1>7, <1>8 DEF TInv, TypeOK, Fitted

(* Every step keeps the types.                                             *)
LEMMA NextTyped == TInv /\ [Next]_vars => TInv'
<1> SUFFICES ASSUME TInv, [Next]_vars PROVE TInv'
  OBVIOUS
<1>1. CASE UNCHANGED vars
  BY <1>1 DEF vars, state, TInv, TypeOK, Fitted
<1>2. CASE Next
  <2>0. UNCHANGED world
    BY <1>2 DEF Next
  <2>1. CASE \E s \in Servers : Offers(s)
    <3>1. PICK s \in Servers : Offers(s)
      BY <2>1
    <3>2. world.lists \in 1..MaxVersion
      BY BrokerAssumption DEF TInv, Worldly
    <3>3. offer' \in [Servers -> Versions]
      BY <3>1, <3>2, BrokerAssumption DEF Offers, TInv, TypeOK, Versions
    <3> QED
      BY <2>0, <3>1, <3>3 DEF Offers, TInv, TypeOK, Fitted
  <2>2. CASE \E k \in open : Dies(k)
    <3>1. PICK k \in open : Dies(k)
      BY <2>2
    <3>2. IsFiniteSet(open') /\ open' \subseteq Nat \ {0}
      BY <3>1, FS_Subset DEF Dies, TInv, TypeOK
    <3> QED
      BY <2>0, <3>1, <3>2 DEF Dies, TInv, TypeOK, Fitted
  <2> QED
    BY <1>2, <2>0, <2>1, <2>2, RequestsTyped, MovesTyped, CallsTyped
    DEF Next, Step, Goes
<1> QED
  BY <1>1, <1>2

(* Every variable keeps its type, whatever fails and however requests,     *)
(* refreshes and connections overlap; of each request that holds which     *)
(* the invariant Fits says.                                                *)
THEOREM BrokerTypeCorrect == Spec => []TypeOK
<1>1. Spec => []TInv
  BY InitTyped, NextTyped, PTL DEF Spec
<1> QED
  BY <1>1, PTL DEF TInv

-----------------------------------------------------------------------------
(* The records and the catalog *)

(* A step leaves the record of s alone, and those who work on it, or makes *)
(* it failed, refreshing, the client's or, when a refresh ends, without    *)
(* client.                                                                 *)
Works(t, s, at) == task[t].server = s /\ task[t].at \in at

Kept(s) ==
  /\ srv'[s] = srv[s] /\ catalog'[s] = catalog[s]
  /\ \A t \in Tasks :
       /\ Works(t, s, {"connecting"}) => Works(t, s, {"connecting"})'
                                         /\ task'[t].mode = task[t].mode
       /\ /\ srv[s].status = "cached" /\ task[t].mode = "refresh"
          /\ Works(t, s, {"saving", "closing"})
          => Works(t, s, {"saving", "closing"})' /\ task'[t].mode = "refresh"

Becomes(s) ==
  \/ catalog'[s] = catalog[s] /\ srv'[s].status = "failed"
  \/ /\ catalog'[s] = catalog[s] /\ srv'[s].status = "refreshing"
     /\ \E t \in Tasks : Works(t, s, {"connecting"})'
  \/ /\ catalog'[s] = srv'[s].tools /\ srv'[s].status # "refreshing"
     /\ \E t \in Tasks :
          /\ Works(t, s, {"saving"})'
          /\ srv'[s].status = "cached" => task'[t].mode = "refresh"
  \/ /\ catalog'[s] = catalog[s] /\ srv[s].status = "cached"
     /\ srv'[s] = [srv[s] EXCEPT !.client = 0]

(* Only those who await something are moved by the step of another task. *)
OthersStay(t) ==
  \A u \in Tasks : u # t /\ task[u].at \notin {"joined", "waiting"} =>
                   task'[u] = task[u]

(* A failure moves the task that failed and those who await it.            *)
LEMMA CaughtStay ==
  ASSUME TInv, NEW t \in Tasks, task[t].at \in {"connecting", "saving"},
         Caught(t, task[t])
  PROVE  OthersStay(t)
<1>1. task \in [Tasks -> Task]
  BY DEF TInv, TypeOK
<1> QED
  BY <1>1 DEF Caught, Joined, Refreshed, OthersStay

(* A step leaves the records alone that it does not change.                *)
LEMMA KeptByOther ==
  ASSUME TInv, NEW t \in Tasks, OthersStay(t), NEW s \in Servers,
         srv'[s] = srv[s], catalog'[s] = catalog[s],
         \/ task[t].server # s
         \/ task[t].at \notin {"connecting", "saving", "closing"}
         \/ task[t].at # "connecting" /\ srv[s].status # "cached"
  PROVE  Kept(s)
BY DEF Kept, OthersStay, Works

(* The steps of a connection, and how they fail.                           *)
LEMMA MovesKeep ==
  ASSUME TInv, NEW t \in Tasks, Moves(t), NEW s \in Servers
  PROVE  Kept(s) \/ Becomes(s)
<1> DEFINE q == task[t]
           n == q.server
<1>0. Fits(q) /\ q \in Task /\ task \in [Tasks -> Task]
  BY DEF TInv, TypeOK, Fitted, Fits
<1>1. q.at \in {"connecting", "saving", "closing"} /\ n \in Servers
  BY <1>0 DEF Moves, Connected, ConnectFails, Saved, SaveFails, Closed, Fits
<1>2. /\ srv \in [Servers -> Record] /\ catalog \in [Servers -> Versions]
  BY <1>1 DEF TInv, TypeOK
<1>4. CASE Connected(t)
  <2> DEFINE status == IF q.mode = "refresh" THEN "cached" ELSE "connected"
             p == [q EXCEPT !.at = "saving", !.client = NewClient,
                            !.was = NoRecord, !.since = 0,
                            !.snap = [m \in Servers |-> srv'[m].tools]]
  <2>1. PICK v \in q.since..offer[n] : Applied(n, status, NewClient, v)
    BY <1>4 DEF Connected
  <2>2. task' = [task EXCEPT ![t] = p]
    BY <1>4 DEF Connected
  <2>3. p.server = n /\ p.at = "saving" /\ p.mode = q.mode
    BY <1>0 DEF Task
  <2> HIDE DEF p
  <2>4. task'[t] = p
    BY <1>0, <2>2
  <2>5. CASE s = n
    <3>1. srv'[s].status = status /\ catalog'[s] = srv'[s].tools
      BY <1>1, <1>2, <2>1, <2>5 DEF Applied
    <3>2. Works(t, s, {"saving"})'
      BY <2>3, <2>4, <2>5 DEF Works
    <3> QED
      BY <2>3, <2>4, <3>1, <3>2 DEF Becomes
  <2>6. CASE s # n
    <3>1. OthersStay(t)
      BY <1>0, <2>2 DEF OthersStay
    <3>2. srv'[s] = srv[s] /\ catalog'[s] = catalog[s]
      BY <1>2, <2>1, <2>6 DEF Applied
    <3> QED
      BY <2>6, <3>1, <3>2, KeptByOther
  <2> QED
    BY <2>5, <2>6
<1>5. CASE ConnectFails(t) \/ SaveFails(t)
  <2>1. Caught(t, q) /\ q.at \in {"connecting", "saving"}
        /\ UNCHANGED catalog
    BY <1>5 DEF ConnectFails, SaveFails
  <2>2. /\ srv'[n].status = "failed"
        /\ s # n => srv'[s] = srv[s]
    BY <2>1, CaughtFits
  <2>3. OthersStay(t)
    BY <2>1, CaughtStay
  <2> QED
    BY <2>1, <2>2, <2>3, KeptByOther DEF Becomes
<1>6. CASE Saved(t)
  <2>1. UNCHANGED <<srv, catalog>> /\ q.at = "saving"
    BY <1>6 DEF Saved
  <2>2. OthersStay(t)
    BY <1>0, <1>6 DEF Saved, OthersStay, Joined, Refreshed
  <2>3. CASE q.mode = "refresh"
    <3>1. task'[t] = [Gone(q, "closing") EXCEPT !.client = q.client]
      BY <1>0, <1>6, <2>3 DEF Saved
    <3>2. /\ task'[t].server = n /\ task'[t].at = "closing"
          /\ task'[t].mode = "refresh"
      BY <2>3, <3>1 DEF Gone, Idle
    <3> QED
      BY <2>1, <2>2, <3>2 DEF Kept, OthersStay, Works
  <2>4. CASE q.mode # "refresh"
    BY <2>1, <2>2, <2>4 DEF Kept, OthersStay, Works
  <2> QED
    BY <2>3, <2>4
<1>7. CASE Closed(t)
  <2>1. /\ q.at = "closing" /\ UNCHANGED catalog
        /\ srv' = [srv EXCEPT ![n].client =
                     IF srv[n].status = "cached" THEN 0 ELSE @]
    BY <1>7 DEF Closed
  <2>2. OthersStay(t)
    BY <1>0, <1>7 DEF Closed, OthersStay, Refreshed
  <2>3. CASE s = n /\ srv[s].status = "cached"
    <3>1. srv'[s] = [srv[s] EXCEPT !.client = 0]
      BY <1>1, <1>2, <2>1, <2>3
    <3> QED
      BY <2>1, <2>3, <3>1 DEF Becomes
  <2>4. CASE ~(s = n /\ srv[s].status = "cached")
    <3>1. srv'[s] = srv[s]
      BY <1>1, <1>2, <2>1, <2>4 DEF Record
    <3> QED
      BY <2>1, <2>2, <2>4, <3>1, KeptByOther
  <2> QED
    BY <2>3, <2>4
<1> QED
  BY <1>4, <1>5, <1>6, <1>7 DEF Moves

(* Linking and Refreshing make a record refreshing. *)
LEMMA BeginsBecomes ==
  ASSUME TInv, NEW t \in Tasks, task[t].at \notin {"connecting", "saving",
         "closing"}, UNCHANGED catalog, NEW n \in Servers,
         srv' = [srv EXCEPT ![n] = srv'[n]], srv'[n].status = "refreshing",
         NEW p, task' = [task EXCEPT ![t] = p],
         p.at = "connecting", p.server = n, NEW s \in Servers
  PROVE  Kept(s) \/ Becomes(s)
<1>1. task'[t] = p /\ OthersStay(t)
  BY DEF TInv, TypeOK, OthersStay
<1>2. CASE s = n
  BY <1>1, <1>2 DEF Becomes, Works
<1>3. CASE s # n
  <2>1. srv'[s] = srv[s] /\ catalog'[s] = catalog[s]
    BY <1>3 DEF TInv, TypeOK
  <2> QED
    BY <1>1, <1>3, <2>1, KeptByOther
<1> QED
  BY <1>2, <1>3

(* So do the handlers of a request and a reconnection. *)
LEMMA RequestsKeep ==
  ASSUME TInv, NEW s \in Servers,
         \/ \E c \in Callers, kind \in {"call", "describe"}, n \in Servers,
              tool \in 1..world.lists : Ask(c, kind, n, tool)
         \/ \E n \in Servers : Search(n)
         \/ \E c \in Callers : Resolved(c) \/ Woken(c) \/ Linked(c)
         \/ \E c \in Callers : CallReturns(c) \/ CallFails(c)
                               \/ Dropped(c) \/ Reclosed(c)
  PROVE  Kept(s) \/ Becomes(s)
<1>0. Callers \subseteq Tasks /\ Servers \subseteq Tasks
      /\ srv \in [Servers -> Record] /\ task \in [Tasks -> Task]
  BY DEF Tasks, TInv, TypeOK
<1>1. ASSUME NEW t \in Tasks, NEW p, task' = [task EXCEPT ![t] = p],
             UNCHANGED <<srv, catalog>>,
             task[t].at \notin {"connecting", "saving", "closing"}
      PROVE  Kept(s)
  <2>1. OthersStay(t)
    BY <1>0, <1>1 DEF OthersStay
  <2> QED
    BY <1>1, <2>1, KeptByOther
<1>2. ASSUME NEW t \in Tasks, NEW q \in Task, NEW n \in Servers,
             NEW mode, Refreshing(t, q, n, mode), q.server = n,
             UNCHANGED catalog, task[t].at = "idle"
      PROVE  Kept(s) \/ Becomes(s)
  <2> DEFINE p == [q EXCEPT !.at = "connecting", !.mode = mode,
                            !.was = srv[n], !.since = offer[n]]
  <2>1. task' = [task EXCEPT ![t] = p]
    BY <1>2 DEF Refreshing
  <2>2. p.at = "connecting" /\ p.server = n
    BY <1>2 DEF Task
  <2>3. srv' = [srv EXCEPT ![n] = srv'[n]] /\ srv'[n].status = "refreshing"
    BY <1>0, <1>2 DEF Refreshing, Record
  <2> HIDE DEF p
  <2> QED
    BY <1>2, <2>1, <2>2, <2>3, BeginsBecomes
<1>3. ASSUME NEW t \in Tasks, NEW was \in Record, Linking(t, task[t], was),
             UNCHANGED catalog, task[t].at \in {"resolved", "woken"}
      PROVE  Kept(s) \/ Becomes(s)
  <2> DEFINE q == task[t]
             n == q.server
             p == [q EXCEPT !.at = "connecting", !.mode = "link",
                            !.was = was, !.since = offer[n]]
  <2>0. q \in Task /\ n \in Servers
    BY <1>0, <1>3 DEF TInv, Fitted, Fits
  <2>1. task' = [task EXCEPT ![t] = p]
    BY <1>3 DEF Linking
  <2>2. p.at = "connecting" /\ p.server = n
    BY <2>0 DEF Task
  <2>3. srv' = [srv EXCEPT ![n] = srv'[n]] /\ srv'[n].status = "refreshing"
    BY <1>0, <1>3, <2>0 DEF Linking, Record
  <2> HIDE DEF p
  <2> QED
    BY <1>3, <2>0, <2>1, <2>2, <2>3, BeginsBecomes
<1>4. CASE \E c \in Callers, kind \in {"call", "describe"}, n \in Servers,
             tool \in 1..world.lists : Ask(c, kind, n, tool)
  <2>1. PICK c \in Callers, kind \in {"call", "describe"}, n \in Servers,
             tool \in 1..world.lists : Ask(c, kind, n, tool)
    BY <1>4
  <2> DEFINE q == [Idle EXCEPT !.kind = kind, !.server = n, !.tool = tool]
  <2>2. tool \in Versions
    BY BrokerAssumption DEF TInv, Worldly, Versions
  <2>3. Idle \in Task
    BY IdleFits DEF Fits
  <2>4. q \in Task /\ q.server = n
    BY <2>2, <2>3 DEF Task
  <2>5. UNCHANGED catalog /\ task[c].at = "idle"
    BY <2>1 DEF Ask
  <2>6. \/ \E p : task' = [task EXCEPT ![c] = p] /\ UNCHANGED srv
        \/ \E mode : Refreshing(c, q, n, mode)
    BY <2>1 DEF Ask
  <2> HIDE DEF q
  <2> QED
    BY <1>0, <1>1, <1>2, <2>4, <2>5, <2>6
<1>5. CASE \E n \in Servers : Search(n)
  <2>1. PICK n \in Servers : Search(n)
    BY <1>5
  <2> DEFINE q == [Idle EXCEPT !.kind = "search", !.server = n]
  <2>2. Idle \in Task
    BY IdleFits DEF Fits
  <2>3. q \in Task /\ q.server = n
    BY <2>2 DEF Task
  <2>4. UNCHANGED catalog /\ task[n].at = "idle"
        /\ Refreshing(n, q, n, "refresh")
    BY <2>1 DEF Search
  <2> HIDE DEF q
  <2> QED
    BY <1>0, <1>2, <2>3, <2>4
<1>6. CASE \E c \in Callers : Resolved(c) \/ Woken(c) \/ Linked(c)
  <2>1. PICK c \in Callers : Resolved(c) \/ Woken(c) \/ Linked(c)
    BY <1>6
  <2>2. UNCHANGED catalog /\ task[c].at \in {"resolved", "woken", "linked"}
    BY <2>1 DEF Resolved, Woken, Linked
  <2>3. srv[task[c].server] \in Record /\ task[c].was \in Record
    BY <1>0, <2>2 DEF TInv, Fitted, Fits, Task
  <2>4. \/ \E p : task' = [task EXCEPT ![c] = p] /\ UNCHANGED srv
        \/ /\ \E was \in Record : Linking(c, task[c], was)
           /\ task[c].at \in {"resolved", "woken"}
    <3>1. CASE Resolved(c)
      BY <2>3, <3>1 DEF Resolved
    <3>2. CASE Woken(c)
      BY <2>3, <3>2 DEF Woken
    <3>3. CASE Linked(c)
      BY <3>3 DEF Linked
    <3> QED
      BY <2>1, <3>1, <3>2, <3>3
  <2> QED
    BY <1>0, <1>1, <1>3, <2>2, <2>4
<1>7. CASE \E c \in Callers : CallReturns(c) \/ CallFails(c)
                              \/ Dropped(c) \/ Reclosed(c)
  <2>1. PICK c \in Callers : CallReturns(c) \/ CallFails(c)
                             \/ Dropped(c) \/ Reclosed(c)
    BY <1>7
  <2>2. CASE CallReturns(c) \/ CallFails(c) \/ Dropped(c)
    <3>1. /\ \E p : task' = [task EXCEPT ![c] = p]
          /\ UNCHANGED <<srv, catalog>>
          /\ task[c].at \in {"calling", "dropping"}
      BY <2>2 DEF CallReturns, CallFails, Dropped
    <3> QED
      BY <1>0, <1>1, <3>1
  <2>3. CASE Reclosed(c)
    <3> DEFINE q == task[c]
               n == q.server
               p == [q EXCEPT !.at = "connecting", !.since = offer[n]]
    <3>1. q \in Task /\ n \in Servers /\ q.at = "reclosing" /\ UNCHANGED catalog
      BY <1>0, <2>3 DEF TInv, Fitted, Fits, Reclosed
    <3>2. task' = [task EXCEPT ![c] = p]
      BY <2>3 DEF Reclosed
    <3>3. p.at = "connecting" /\ p.server = n
      BY <3>1 DEF Task
    <3>4. srv' = [srv EXCEPT ![n] = srv'[n]] /\ srv'[n].status = "refreshing"
      BY <1>0, <2>3, <3>1 DEF Reclosed, Record, Task
    <3> HIDE DEF p
    <3> QED
      BY <1>0, <3>1, <3>2, <3>3, <3>4, BeginsBecomes
  <2> QED
    BY <2>1, <2>2, <2>3
<1> QED
  BY <1>4, <1>5, <1>6, <1>7

(* So does every step.                                                     *)
LEMMA NextKeeps ==
  ASSUME TInv, [Next]_vars, NEW s \in Servers
  PROVE  Kept(s) \/ Becomes(s)
<1>1. CASE UNCHANGED vars
  BY <1>1 DEF vars, state, Kept, Works
<1>2. CASE \E k \in open : Dies(k)
  BY <1>2 DEF Dies, Kept, Works
<1>3. CASE \E n \in Servers : Offers(n)
  BY <1>3 DEF Offers, Kept, Works
<1>4. CASE \E t \in Tasks : Moves(t)
  BY <1>4, MovesKeep
<1> QED
  BY <1>1, <1>2, <1>3, <1>4, RequestsKeep DEF Next, Step, Goes

(* A record begins with the tools the catalog has, and no client. *)
LEMMA InitRecords ==
  ASSUME Init, NEW s \in Servers
  PROVE  /\ srv[s].tools = catalog[s] /\ srv[s].client = 0
         /\ srv[s].status \in {"not_connected", "cached"}
<1>1. catalog[s] = file[s]
  BY DEF Init
<1>2. srv[s] = [NoRecord EXCEPT !.tools = file[s],
                  !.status = IF file[s] = 0 THEN @ ELSE "cached"]
  BY DEF Init
<1> QED
  BY <1>1, <1>2 DEF NoRecord

(* list_servers never calls a server connected or cached whose tools in    *)
(* the catalog are not those of its record: the two change in one step, to *)
(* the list a client gave, and a record a task writes back is refreshing.  *)
THEOREM ListedToolsAgree == Spec => []ListedAgree
<1>1. Init => ListedAgree
  BY InitRecords DEF ListedAgree
<1>2. TInv /\ ListedAgree /\ [Next]_vars => ListedAgree'
  <2> SUFFICES ASSUME TInv, ListedAgree, [Next]_vars, NEW s \in Servers,
                      srv'[s].status \in {"connected", "cached"}
               PROVE  catalog'[s] = srv'[s].tools
    BY DEF ListedAgree
  <2>1. Kept(s) \/ Becomes(s)
    BY NextKeeps
  <2>2. srv[s] \in Record
    BY DEF TInv, TypeOK
  <2> QED
    BY <2>1, <2>2 DEF Kept, Becomes, ListedAgree, Record
<1> QED
  BY <1>1, <1>2, InitTyped, NextTyped, PTL DEF Spec

(* A record is refreshing only while a task connects its server, and keeps *)
(* a client that will be closed only until that refresh is over: no order  *)
(* of overlapping refreshes, connections and failures, and no two writers  *)
(* of one record leave a server refreshing for ever.                       *)
THEOREM RecordsAreTended == Spec => []RecordIsTended
<1>1. Init => RecordIsTended
  BY InitRecords DEF RecordIsTended
<1>2. TInv /\ RecordIsTended /\ [Next]_vars => RecordIsTended'
  <2> SUFFICES ASSUME TInv, RecordIsTended, [Next]_vars, NEW s \in Servers
               PROVE  /\ srv'[s].status = "refreshing" =>
                           \E t \in Tasks : Works(t, s, {"connecting"})'
                      /\ srv'[s].status = "cached" /\ srv'[s].client # 0 =>
                           \E t \in Tasks :
                             /\ Works(t, s, {"connecting", "saving",
                                             "closing"})'
                             /\ task'[t].mode = "refresh"
    BY DEF RecordIsTended, Busy, Works
  <2>1. srv[s] \in Record
    BY DEF TInv, TypeOK
  <2>2. CASE Becomes(s)
    BY <2>1, <2>2 DEF Becomes, Works, Record
  <2>3. CASE Kept(s)
    <3>1. ASSUME srv'[s].status = "refreshing"
          PROVE  \E t \in Tasks : Works(t, s, {"connecting"})'
      <4>1. PICK t \in Tasks : Works(t, s, {"connecting"})
        BY <2>3, <3>1 DEF Kept, RecordIsTended, Busy, Works
      <4> QED
        BY <2>3, <4>1 DEF Kept
    <3>2. ASSUME srv'[s].status = "cached", srv'[s].client # 0
          PROVE  \E t \in Tasks :
                   /\ Works(t, s, {"connecting", "saving", "closing"})'
                   /\ task'[t].mode = "refresh"
      <4>1. PICK t \in Tasks :
                   /\ Works(t, s, {"connecting", "saving", "closing"})
                   /\ task[t].mode = "refresh"
        BY <2>3, <3>2 DEF Kept, RecordIsTended, Busy, Works
      <4>2. srv[s].status = "cached"
        BY <2>3, <3>2 DEF Kept
      <4> QED
        BY <2>3, <4>1, <4>2 DEF Kept, Works
    <3> QED
      BY <3>1, <3>2
  <2> QED
    BY <2>2, <2>3, NextKeeps
<1> QED
  BY <1>1, <1>2, InitTyped, NextTyped, PTL DEF Spec

-----------------------------------------------------------------------------
(* Calls to servers that do not fail them *)

(* A step of a caller that is neither before nor after a connection.       *)
LEMMA StepOrderly ==
  ASSUME TInv, Orderly, UNCHANGED world, NEW c \in Callers, NEW p,
         task' = [task EXCEPT ![c] = p],
         UNCHANGED <<srv, catalog, connections, open, offer>>,
         task[c].at \notin {"connecting", "saving"},
         p.at \notin {"connecting", "saving"},
         Plain(p), Registered(c)'
  PROVE  Orderly'
<1>1. /\ task \in [Tasks -> Task] /\ Callers \subseteq Tasks
      /\ Servers \subseteq Tasks /\ c \notin Servers
  BY BrokerAssumption DEF TInv, TypeOK, Tasks
<1>2. task'[c] = p /\ \A u \in Tasks : u # c => task'[u] = task[u]
  BY <1>1
<1>3. ASSUME NEW s \in Servers
      PROVE  OneConnection(s)'
  <2>1. OneConnection(s)
    BY DEF Orderly
  <2>2. task'[s] = task[s]
    BY <1>1, <1>2
  <2>3. connections[s] # None => task'[connections[s]] = task[connections[s]]
    BY <1>1, <1>2, <2>1 DEF OneConnection
  <2> QED
    BY <2>1, <2>2, <2>3 DEF OneConnection
<1>4. ASSUME NEW d \in Callers
      PROVE  Plain(task[d])' /\ Registered(d)'
  <2>1. Plain(task[d]) /\ Registered(d)
    BY DEF Orderly
  <2>2. CASE d = c
    BY <1>2, <2>2 DEF Plain
  <2>3. CASE d # c
    <3>1. task'[d] = task[d]
      BY <1>1, <1>2, <2>3
    <3> QED
      BY <2>1, <3>1 DEF Plain, Registered
  <2> QED
    BY <2>2, <2>3
<1>5. \A k \in open' : \E s \in Servers : srv'[s].client = k
  BY DEF Orderly
<1> QED
  BY <1>3, <1>4, <1>5 DEF Orderly

(* Of a server that is not connected nobody has a client. *)
LEMMA LinkOrderly ==
  ASSUME TInv, Orderly, UNCHANGED world, NEW c \in Callers,
         task[c].at = "resolved",
         srv[task[c].server].status # "connected",
         connections[task[c].server] = None,
         Linking(c, task[c], srv[task[c].server]),
         UNCHANGED <<catalog, open, offer>>
  PROVE  Orderly'
<1> DEFINE q == task[c]
           n == q.server
           p == [q EXCEPT !.at = "connecting", !.mode = "link",
                          !.was = srv[n], !.since = offer[n]]
<1>1. /\ task \in [Tasks -> Task] /\ Callers \subseteq Tasks
      /\ Servers \subseteq Tasks /\ c \notin Servers
      /\ srv \in [Servers -> Record] /\ c # None
      /\ connections \in [Servers -> Tasks \cup {None}]
      /\ open \subseteq Nat \ {0}
  BY BrokerAssumption DEF TInv, TypeOK, Tasks
<1>2. q \in Task /\ n \in Servers /\ Plain(q)
  BY <1>1 DEF TInv, Fitted, Fits, Orderly
<1>3. /\ task' = [task EXCEPT ![c] = p]
      /\ connections' = [connections EXCEPT ![n] = c]
      /\ srv' = [srv EXCEPT ![n] =
                   [srv[n] EXCEPT !.client = 0, !.status = "refreshing"]]
  BY DEF Linking
<1>4. /\ p.at = "connecting" /\ p.server = n /\ p.mode = "link"
      /\ p.since = offer[n] /\ p.kind = q.kind /\ p.tool = q.tool
  BY <1>2 DEF Task
<1> HIDE DEF p
<1>5. task'[c] = p /\ \A u \in Tasks : u # c => task'[u] = task[u]
  BY <1>1, <1>3
<1>6. /\ connections'[n] = c
      /\ \A s \in Servers : s # n => connections'[s] = connections[s]
  BY <1>1, <1>2, <1>3
<1>7. /\ srv'[n].client = 0 /\ srv'[n].status = "refreshing"
      /\ \A s \in Servers : s # n => srv'[s] = srv[s]
  BY <1>1, <1>2, <1>3 DEF Record
<1>8. srv[n].client = 0 /\ offer[n] = 1
  BY <1>2 DEF Orderly, OneConnection
<1>9. ASSUME NEW s \in Servers
      PROVE  OneConnection(s)'
  <2>1. OneConnection(s)
    BY DEF Orderly
  <2>2. task'[s] = task[s]
    BY <1>1, <1>5
  <2>3. CASE s = n
    BY <1>1, <1>4, <1>5, <1>6, <1>7, <2>1, <2>2, <2>3 DEF OneConnection
  <2>4. CASE s # n
    <3>1. connections[s] # None => connections[s] # c
      BY <2>1 DEF OneConnection
    <3>2. connections[s] # None => task'[connections[s]] = task[connections[s]]
      BY <1>1, <1>5, <2>1, <3>1 DEF OneConnection
    <3> QED
      BY <1>6, <1>7, <2>1, <2>2, <2>4, <3>2 DEF OneConnection
  <2> QED
    BY <2>3, <2>4
<1>10. ASSUME NEW d \in Callers
       PROVE  Plain(task[d])' /\ Registered(d)'
  <2>1. Plain(task[d]) /\ Registered(d)
    BY DEF Orderly
  <2>2. CASE d = c
    <3>1. Plain(p)
      BY <1>2, <1>4 DEF Plain
    <3>2. Registered(c)'
      BY <1>4, <1>5, <1>6, <1>7, <1>8 DEF Registered
    <3> QED
      BY <1>5, <2>2, <3>1, <3>2 DEF Plain
  <2>3. CASE d # c
    <3>1. task'[d] = task[d] /\ Fits(task[d])
      BY <1>1, <1>5, <2>3 DEF TInv, Fitted
    <3>2. CASE task[d].server # n
      BY <1>6, <1>7, <2>1, <3>1, <3>2 DEF Plain, Registered, Fits
    <3>3. CASE task[d].server = n
      <4>1. task[d].at \notin {"connecting", "saving", "linked", "joined"}
        <5>1. d # None
          BY BrokerAssumption
        <5> QED
          BY <1>1, <2>1, <3>3, <5>1 DEF Registered
      <4> QED
        BY <2>1, <3>1, <4>1 DEF Plain, Registered
    <3> QED
      BY <3>2, <3>3
  <2> QED
    BY <2>2, <2>3
<1>11. ASSUME NEW k \in open'
       PROVE  \E s \in Servers : srv'[s].client = k
  <2>1. PICK s \in Servers : srv[s].client = k
    BY DEF Orderly
  <2>2. s # n
    BY <1>1, <1>8, <2>1
  <2> QED
    BY <1>7, <2>1, <2>2
<1> QED
  BY <1>9, <1>10, <1>11 DEF Orderly

(* A connection gives its server a client, which was without.              *)
LEMMA ConnectedOrderly ==
  ASSUME TInv, Orderly, UNCHANGED world, NEW c \in Callers, Connected(c)
  PROVE  Orderly'
<1> DEFINE q == task[c]
           n == q.server
           k == NewClient
           p == [q EXCEPT !.at = "saving", !.client = k, !.was = NoRecord,
                          !.since = 0,
                          !.snap = [m \in Servers |-> srv'[m].tools]]
<1>1. /\ task \in [Tasks -> Task] /\ Callers \subseteq Tasks
      /\ Servers \subseteq Tasks /\ c \notin Servers
      /\ srv \in [Servers -> Record]
      /\ catalog \in [Servers -> Versions]
      /\ open \subseteq Nat \ {0}
  BY BrokerAssumption DEF TInv, TypeOK, Tasks
<1>2. q \in Task /\ n \in Servers /\ Plain(q) /\ Registered(c)
      /\ q.at = "connecting"
  BY <1>1 DEF TInv, Fitted, Fits, Orderly, Connected
<1>3. /\ q.mode = "link" /\ q.since = 1 /\ connections[n] = c
      /\ srv[n].status = "refreshing"
  BY <1>2 DEF Plain, Registered
<1>4. OneConnection(n)
  BY <1>2 DEF Orderly
<1>5. task' = [task EXCEPT ![c] = p] /\ open' = open \cup {k}
      /\ UNCHANGED <<connections, offer>>
  BY DEF Connected
<1>6. Applied(n, "connected", k, 1)
  BY <1>3, <1>4 DEF Connected, OneConnection
<1>7. /\ srv'[n].client = k /\ srv'[n].status = "connected" /\ catalog'[n] = 1
      /\ \A s \in Servers : s # n =>
           srv'[s] = srv[s] /\ catalog'[s] = catalog[s]
  BY <1>1, <1>2, <1>6 DEF Applied
<1>8. /\ p.at = "saving" /\ p.server = n /\ p.mode = "link"
      /\ p.kind = q.kind /\ p.tool = q.tool
  BY <1>2, <1>3 DEF Task
<1> HIDE DEF p, k
<1>9. task'[c] = p /\ \A u \in Tasks : u # c => task'[u] = task[u]
  BY <1>1, <1>5
<1>10. ASSUME NEW s \in Servers
       PROVE  OneConnection(s)'
  <2>1. OneConnection(s)
    BY DEF Orderly
  <2>2. task'[s] = task[s]
    BY <1>1, <1>9
  <2>3. CASE s = n
    BY <1>1, <1>3, <1>5, <1>7, <1>8, <1>9, <2>1, <2>2, <2>3
    DEF OneConnection
  <2>4. CASE s # n
    <3>1. connections[s] # None => connections[s] # c
      BY <2>1, <2>4 DEF OneConnection
    <3>2. connections[s] # None => task'[connections[s]] = task[connections[s]]
      BY <1>1, <1>9, <2>1, <3>1 DEF OneConnection
    <3> QED
      BY <1>5, <1>7, <2>1, <2>2, <2>4, <3>2 DEF OneConnection
  <2> QED
    BY <2>3, <2>4
<1>11. ASSUME NEW d \in Callers
       PROVE  Plain(task[d])' /\ Registered(d)'
  <2>1. Plain(task[d]) /\ Registered(d)
    BY DEF Orderly
  <2>2. CASE d = c
    <3>1. Plain(p)
      BY <1>2, <1>8 DEF Plain
    <3>2. Registered(c)'
      BY <1>3, <1>5, <1>7, <1>8, <1>9 DEF Registered
    <3> QED
      BY <1>9, <2>2, <3>1, <3>2 DEF Plain
  <2>3. CASE d # c
    <3>1. task'[d] = task[d] /\ Fits(task[d])
      BY <1>1, <1>9, <2>3 DEF TInv, Fitted
    <3>2. CASE task[d].server # n
      BY <1>5, <1>7, <2>1, <3>1, <3>2 DEF Plain, Registered, Fits
    <3>3. CASE task[d].server = n
      <4>1. task[d].at \notin {"connecting", "saving", "linked"}
        BY <1>3, <2>1, <2>3, <3>3 DEF Registered
      <4> QED
        BY <1>5, <2>1, <3>1, <4>1 DEF Plain, Registered
    <3> QED
      BY <3>2, <3>3
  <2> QED
    BY <2>2, <2>3
<1>12. ASSUME NEW j \in open'
       PROVE  \E s \in Servers : srv'[s].client = j
  <2>1. CASE j = k
    BY <1>2, <1>7, <2>1
  <2>2. CASE j # k
    <3>1. PICK s \in Servers : srv[s].client = j
      BY <1>5, <2>2 DEF Orderly
    <3>2. s # n
      BY <1>1, <1>3, <1>4, <1>5, <2>2, <3>1 DEF OneConnection
    <3> QED
      BY <1>7, <3>1, <3>2
  <2> QED
    BY <2>1, <2>2
<1> QED
  BY <1>10, <1>11, <1>12 DEF Orderly

(* The connection settles: its caller p and those who joined it go on. *)
LEMMA SettledOrderly ==
  ASSUME TInv, Orderly, UNCHANGED world, NEW c \in Callers, NEW p,
         NEW to \in {"linked", "done"},
         task[c].at \in {"connecting", "saving"},
         task' = [Joined(c, to) EXCEPT ![c] = p], p.at = to, Plain(p),
         connections' = [connections EXCEPT ![task[c].server] = None],
         to = "linked" => /\ task[c].at = "saving" /\ UNCHANGED srv
                          /\ p.server = task[c].server,
         to = "done" => /\ task[c].at = "connecting" /\ world.faults # {}
                        /\ srv' = [srv EXCEPT ![task[c].server] =
                             [srv[task[c].server] EXCEPT !.client = 0,
                                                         !.status = "failed"]],
         UNCHANGED <<catalog, open, offer>>
  PROVE  Orderly'
<1> DEFINE q == task[c]
           n == q.server
<1>1. /\ task \in [Tasks -> Task] /\ Callers \subseteq Tasks
      /\ Servers \subseteq Tasks /\ c \notin Servers
      /\ srv \in [Servers -> Record]
      /\ connections \in [Servers -> Tasks \cup {None}]
      /\ open \subseteq Nat \ {0}
      /\ None \notin Tasks
  BY BrokerAssumption DEF TInv, TypeOK, Tasks
<1>2. q \in Task /\ n \in Servers /\ Registered(c)
  BY <1>1 DEF TInv, Fitted, Fits, Orderly
<1>3. /\ connections[n] = c
      /\ q.at = "connecting" => srv[n].status = "refreshing"
      /\ q.at = "saving" => srv[n].status = "connected"
  BY <1>2 DEF Registered
<1>4. OneConnection(n)
  BY <1>2 DEF Orderly
<1>5. /\ connections'[n] = None
      /\ \A s \in Servers : s # n => connections'[s] = connections[s]
  BY <1>1, <1>2
<1>6. /\ to = "done" => srv'[n].client = 0 /\ srv'[n].status = "failed"
      /\ to = "linked" => srv'[n] = srv[n]
      /\ \A s \in Servers : s # n => srv'[s] = srv[s]
  <2>1. CASE to = "linked"
    BY <2>1
  <2>2. CASE to = "done"
    <3>1. srv' = [srv EXCEPT ![n] = [srv[n] EXCEPT !.client = 0,
                                                   !.status = "failed"]]
      BY <2>2
    <3>2. srv[n] \in Record
      BY <1>1, <1>2
    <3>3. /\ srv'[n] = [srv[n] EXCEPT !.client = 0, !.status = "failed"]
          /\ \A s \in Servers : s # n => srv'[s] = srv[s]
      BY <1>1, <1>2, <3>1
    <3> QED
      BY <2>2, <3>2, <3>3 DEF Record
  <2> QED
    BY <2>1, <2>2
<1>7. /\ task'[c] = p
      /\ \A u \in Tasks : u # c => task'[u] = Joined(c, to)[u]
  BY <1>1 DEF Joined
<1>8. ASSUME NEW u \in Tasks, u # c, task[u].at # "joined" \/ task[u].on # c
      PROVE  task'[u] = task[u]
  BY <1>7, <1>8 DEF Joined
<1>9. ASSUME NEW d \in Callers, task[d].at = "joined"
      PROVE  task[d].on = c <=> task[d].server = n
  <2>1. Registered(d) /\ task[d].server \in Servers
    BY <1>1, <1>9 DEF Orderly, TInv, Fitted, Fits
  <2>2. OneConnection(task[d].server)
    BY <2>1 DEF Orderly
  <2> QED
    BY <1>3, <1>9, <2>1, <2>2 DEF Registered, OneConnection
<1>10. ASSUME NEW s \in Servers
       PROVE  OneConnection(s)'
  <2>1. OneConnection(s)
    BY DEF Orderly
  <2>2. task'[s] = task[s]
    BY <1>1, <1>8, <2>1 DEF OneConnection
  <2>3. CASE s = n
    BY <1>3, <1>5, <1>6, <2>1, <2>2, <2>3 DEF OneConnection
  <2>4. CASE s # n
    <3>1. connections[s] # None => connections[s] # c
      BY <2>1, <2>4 DEF OneConnection
    <3>2. connections[s] # None => task'[connections[s]] = task[connections[s]]
      BY <1>1, <1>8, <2>1, <3>1 DEF OneConnection
    <3> QED
      BY <1>5, <1>6, <2>1, <2>2, <2>4, <3>2 DEF OneConnection
  <2> QED
    BY <2>3, <2>4
<1>11. ASSUME NEW d \in Callers
       PROVE  Plain(task[d])' /\ Registered(d)'
  <2>1. Plain(task[d]) /\ Registered(d) /\ d \in Tasks
    BY <1>1 DEF Orderly
  <2>2. CASE d = c
    <3>1. Registered(c)'
      BY <1>3, <1>6, <1>7 DEF Registered
    <3> QED
      BY <1>7, <2>2, <3>1 DEF Plain
  <2>3. CASE d # c /\ task[d].at = "joined" /\ task[d].on = c
    <3>1. task'[d] = IF to = "linked" THEN Gone(task[d], to)
                     ELSE Ended(task[d], "failed")
      BY <1>7, <2>1, <2>3 DEF Joined
    <3>2. task[d].server = n
      BY <1>9, <2>3
    <3>5. CASE to = "linked"
      <4>1. /\ task'[d].at = "linked" /\ task'[d].kind = task[d].kind
            /\ task'[d].tool = task[d].tool /\ task'[d].mode = task[d].mode
            /\ task'[d].server = n
        <5> DEFINE e == task[d]
                   g == Gone(e, "linked")
        <5>1. /\ g.at = "linked" /\ g.kind = e.kind /\ g.tool = e.tool
              /\ g.mode = e.mode /\ g.server = e.server
          BY DEF Gone, Idle
        <5>2. task'[d] = g
          BY <3>1, <3>5
        <5> HIDE DEF g
        <5> QED
          BY <3>2, <5>1, <5>2
      <4> QED
        BY <1>3, <1>6, <2>1, <2>3, <3>5, <4>1 DEF Plain, Registered
    <3>6. CASE to = "done"
      <4>1. /\ task'[d].at = "done" /\ task'[d].kind = task[d].kind
            /\ task'[d].mode = "none"
        <5> DEFINE e == task[d]
                   g == Ended(e, "failed")
        <5>1. g.at = "done" /\ g.kind = e.kind /\ g.mode = "none"
          BY DEF Ended, Idle
        <5>2. task'[d] = g
          BY <3>1, <3>6
        <5> HIDE DEF g
        <5> QED
          BY <5>1, <5>2
      <4> QED
        BY <2>1, <2>3, <3>6, <4>1 DEF Plain, Registered
    <3> QED
      BY <3>5, <3>6
  <2>4. CASE d # c /\ ~(task[d].at = "joined" /\ task[d].on = c)
    <3>1. task'[d] = task[d] /\ Fits(task[d])
      BY <1>1, <1>8, <2>1, <2>4 DEF TInv, Fitted
    <3>2. CASE task[d].server # n
      BY <1>5, <1>6, <2>1, <3>1, <3>2 DEF Plain, Registered, Fits
    <3>3. CASE task[d].server = n
      <4>1. task[d].at \notin {"connecting", "saving", "joined"}
        BY <1>3, <1>9, <2>1, <2>4, <3>3 DEF Registered
      <4>2. task[d].at = "linked" => to = "linked"
        BY <1>3, <2>1, <3>3 DEF Registered
      <4> QED
        BY <1>6, <2>1, <3>1, <3>3, <4>1, <4>2 DEF Plain, Registered
    <3> QED
      BY <3>2, <3>3
  <2> QED
    BY <2>2, <2>3, <2>4
<1>12. ASSUME NEW j \in open'
       PROVE  \E s \in Servers : srv'[s].client = j
  <2>1. PICK s \in Servers : srv[s].client = j
    BY DEF Orderly
  <2>2. to = "done" => s # n
    BY <1>1, <1>3, <1>4, <2>1 DEF OneConnection
  <2> QED
    BY <1>6, <2>1, <2>2
<1> QED
  BY <1>10, <1>11, <1>12 DEF Orderly

(* In a quiet world nobody refreshes, reconnects or loses a client. *)
LEMMA NextOrderly ==
  ASSUME TInv, Quiet, Orderly, [Next]_vars
  PROVE  Orderly'
<1>0. /\ world.kinds = {"call"} /\ world.lists = 1
      /\ world.faults \subseteq {"connect"}
  BY DEF Quiet, KnownCalls
<1>1. /\ task \in [Tasks -> Task] /\ Callers \subseteq Tasks
      /\ Tasks = Callers \cup Servers /\ srv \in [Servers -> Record]
      /\ open \subseteq Nat \ {0}
  BY DEF TInv, TypeOK, Tasks
<1>2. CASE UNCHANGED vars
  BY <1>2 DEF vars, state, Orderly, OneConnection, Plain, Registered
<1>3. CASE Next
  <2>0. UNCHANGED world
    BY <1>3 DEF Next
  <2>1. ASSUME NEW s \in Servers, Search(s) \/ Offers(s)
        PROVE  FALSE
    <3>1. offer[s] = 1
      BY DEF Orderly, OneConnection
    <3> QED
      BY <1>0, <2>1, <3>1 DEF Search, Offers
  <2>2. ASSUME NEW k \in open, Dies(k)
        PROVE  FALSE
    BY <1>0, <2>2 DEF Dies
  <2>3. ASSUME NEW c \in Callers, NEW kind \in {"call", "describe"},
               NEW s \in Servers, NEW tool \in 1..world.lists,
               Ask(c, kind, s, tool)
        PROVE  Orderly'
    <3> DEFINE p == [[Idle EXCEPT !.kind = kind, !.server = s, !.tool = tool]
                       EXCEPT !.at = "resolved"]
    <3>1. kind = "call" /\ tool = 1 /\ catalog[s] = 1
      BY <1>0, <2>3 DEF Ask, Orderly, OneConnection
    <3>2. /\ task[c].at = "idle" /\ task' = [task EXCEPT ![c] = p]
          /\ UNCHANGED <<srv, catalog, connections, open, offer>>
      BY <2>3, <3>1 DEF Ask
    <3>3. /\ p.at = "resolved" /\ p.kind = "call" /\ p.tool = 1
          /\ p.mode = "none"
      BY <3>1 DEF Idle
    <3> HIDE DEF p
    <3>4. task'[c] = p
      BY <1>1, <3>2
    <3>5. Plain(p)
      BY <3>3 DEF Plain
    <3>6. Registered(c)'
      BY <3>3, <3>4 DEF Registered
    <3> QED
      BY <2>0, <3>2, <3>3, <3>5, <3>6, StepOrderly
  <2>4. ASSUME NEW t \in Tasks, Moves(t)
        PROVE  Orderly'
    <3>1. t \in Callers
      <4>1. task[t].at # "idle"
        BY <2>4 DEF Moves, Connected, ConnectFails, Saved, SaveFails, Closed
      <4> QED
        BY <1>1, <4>1 DEF Orderly, OneConnection
    <3> DEFINE q == task[t]
    <3>2. /\ Plain(q) /\ q \in Task /\ Fits(q)
      BY <1>1, <3>1 DEF Orderly, TInv, Fitted
    <3>3. ~Closed(t) /\ ~SaveFails(t)
      BY <1>0, <3>2 DEF Closed, SaveFails, Plain
    <3>4. CASE Connected(t)
      BY <2>0, <3>1, <3>4, ConnectedOrderly
    <3>5. CASE ConnectFails(t)
      <4>1. /\ q.at = "connecting" /\ q.mode = "link"
            /\ "connect" \in world.faults
            /\ UNCHANGED <<open, catalog, offer>> /\ Caught(t, q)
        BY <1>0, <3>2, <3>5 DEF ConnectFails, Plain
      <4> DEFINE p == Ended(q, "failed")
      <4>2. /\ task' = [Joined(t, "done") EXCEPT ![t] = p]
            /\ connections' = [connections EXCEPT ![q.server] = None]
            /\ srv' = [srv EXCEPT ![q.server] =
                         [srv[q.server] EXCEPT !.client = 0,
                                               !.status = "failed"]]
        BY <4>1 DEF Caught
      <4>3. p.at = "done" /\ p.kind = q.kind /\ p.mode = "none"
        BY DEF Ended, Idle
      <4>4. Plain(p)
        BY <3>2, <4>1, <4>3 DEF Plain
      <4> HIDE DEF p
      <4> QED
        BY <2>0, <3>1, <4>1, <4>2, <4>3, <4>4, SettledOrderly
    <3>6. CASE Saved(t)
      <4>1. /\ q.at = "saving" /\ q.mode = "link"
            /\ UNCHANGED <<srv, open, catalog, offer>>
        BY <3>2, <3>6 DEF Saved, Plain
      <4> DEFINE p == Gone(q, "linked")
      <4>2. /\ task' = [Joined(t, "linked") EXCEPT ![t] = p]
            /\ connections' = [connections EXCEPT ![q.server] = None]
        BY <3>6, <4>1 DEF Saved
      <4>3. /\ p.at = "linked" /\ p.kind = q.kind /\ p.mode = q.mode
            /\ p.tool = q.tool /\ p.server = q.server
        BY DEF Gone, Idle
      <4>4. Plain(p)
        BY <3>2, <4>1, <4>3 DEF Plain
      <4> HIDE DEF p
      <4> QED
        BY <2>0, <3>1, <4>1, <4>2, <4>3, <4>4, SettledOrderly
    <3> QED
      BY <2>4, <3>3, <3>4, <3>5, <3>6 DEF Moves
  <2>5. ASSUME NEW c \in Callers, Goes(c)
        PROVE  Orderly'
    <3> DEFINE q == task[c]
               s == q.server
    <3>1. Plain(q) /\ Registered(c) /\ q \in Task /\ Fits(q)
      BY <1>1 DEF Orderly, TInv, Fitted
    <3>2. /\ ~Woken(c) /\ ~Dropped(c) /\ ~Reclosed(c)
      BY <3>1 DEF Woken, Dropped, Reclosed, Plain
    <3>3. ~CallFails(c)
      BY <1>0, <3>1 DEF CallFails, Registered
    <3>4. ASSUME NEW r \in Servers, srv[r].status = "connected"
          PROVE  srv[r].client \in open /\ srv[r].client # 0
      BY <1>1, <3>4 DEF Orderly, OneConnection
    <3>5. ASSUME q.at \in {"resolved", "linked"}, s \in Servers,
                 srv[s].status = "connected",
                 task' = [task EXCEPT ![c] = Tried(q)],
                 UNCHANGED <<srv, catalog, connections, open, offer>>
          PROVE  Orderly'
      <4>1. Tried(q) = [Gone(q, "calling") EXCEPT !.sent = @ + 1,
                                                 !.client = srv[s].client]
        BY <3>4, <3>5 DEF Tried
      <4> DEFINE p == Tried(q)
      <4>2. /\ p.at = "calling" /\ p.kind = q.kind /\ p.mode = q.mode
            /\ p.tool = q.tool /\ p.client = srv[s].client
        BY <4>1 DEF Gone, Idle
      <4> HIDE DEF p
      <4>3. Plain(p)
        BY <3>1, <3>5, <4>2 DEF Plain
      <4>4. task' = [task EXCEPT ![c] = p] /\ task'[c] = p
        BY <1>1, <3>5 DEF p
      <4>5. Registered(c)'
        BY <3>4, <3>5, <4>2, <4>4 DEF Registered
      <4> QED
        BY <2>0, <3>5, <4>2, <4>3, <4>4, <4>5, StepOrderly
    <3>6. CASE Resolved(c)
      <4>0. q.at = "resolved" /\ UNCHANGED <<catalog, open, offer>>
        BY <3>6 DEF Resolved
      <4>1. s \in Servers /\ q.kind = "call" /\ q.tool <= 1 /\ q.tool \in Nat
        BY <3>1, <4>0 DEF Fits, Plain, Task, Versions
      <4>2. OneConnection(s)
        BY <4>1 DEF Orderly
      <4>3. catalog[s] >= q.tool
        BY <4>1, <4>2 DEF OneConnection
      <4>4. CASE srv[s].status = "connected"
        <5>1. /\ task' = [task EXCEPT ![c] = Tried(q)]
              /\ UNCHANGED <<srv, connections>>
          BY <3>4, <3>6, <4>1, <4>3, <4>4 DEF Resolved
        <5> QED
          BY <3>5, <4>0, <4>1, <4>4, <5>1
      <4>5. CASE srv[s].status # "connected" /\ connections[s] # None
        <5> DEFINE p == [q EXCEPT !.at = "joined", !.on = connections[s]]
        <5>1. /\ task' = [task EXCEPT ![c] = p]
              /\ UNCHANGED <<srv, connections>>
          BY <3>6, <4>1, <4>3, <4>5 DEF Resolved
        <5>2. /\ p.at = "joined" /\ p.kind = q.kind /\ p.mode = q.mode
              /\ p.tool = q.tool /\ p.server = s /\ p.on = connections[s]
          BY <3>1 DEF Task
        <5> HIDE DEF p
        <5>3. Plain(p)
          BY <3>1, <4>1, <5>2 DEF Plain
        <5>4. task'[c] = p
          BY <1>1, <5>1
        <5>5. Registered(c)'
          BY <4>5, <5>1, <5>2, <5>4 DEF Registered
        <5> QED
          BY <2>0, <4>0, <5>1, <5>2, <5>3, <5>5, StepOrderly
      <4>6. CASE srv[s].status # "connected" /\ connections[s] = None
        <5>1. task[s].at = "idle"
          BY <4>2 DEF OneConnection
        <5>2. Linking(c, q, srv[s])
          BY <3>6, <4>1, <4>3, <4>6, <5>1 DEF Resolved
        <5> QED
          BY <2>0, <4>0, <4>6, <5>2, LinkOrderly
      <4> QED
        BY <4>4, <4>5, <4>6
    <3>7. CASE Linked(c)
      <4>1. /\ q.at = "linked" /\ task' = [task EXCEPT ![c] = Tried(q)]
            /\ UNCHANGED <<srv, catalog, connections, open, offer>>
        BY <3>7 DEF Linked
      <4>2. s \in Servers /\ srv[s].status = "connected"
        BY <3>1, <4>1 DEF Fits, Registered
      <4> QED
        BY <3>5, <4>1, <4>2
    <3>8. CASE CallReturns(c)
      <4> DEFINE p == Ended(q, "answered")
      <4>1. /\ q.at = "calling" /\ task' = [task EXCEPT ![c] = p]
            /\ UNCHANGED <<srv, catalog, connections, open, offer>>
        BY <3>8 DEF CallReturns
      <4>2. /\ p.at = "done" /\ p.kind = q.kind /\ p.mode = "none"
            /\ p.outcome = "answered" /\ p.sent = q.sent
        BY DEF Ended, Idle
      <4>3. q.sent = 1
        BY <3>1, <4>1 DEF Fits, Plain
      <4> HIDE DEF p
      <4>4. Plain(p)
        BY <3>1, <4>1, <4>2, <4>3 DEF Plain
      <4>5. task'[c] = p
        BY <1>1, <4>1
      <4>6. Registered(c)'
        BY <4>2, <4>5 DEF Registered
      <4> QED
        BY <2>0, <4>1, <4>2, <4>4, <4>6, StepOrderly
    <3> QED
      BY <2>5, <3>2, <3>3, <3>6, <3>7, <3>8 DEF Goes
  <2> QED
    BY <1>3, <2>1, <2>2, <2>3, <2>4, <2>5 DEF Next, Step
<1> QED
  BY <1>2, <1>3

(* The invariants hold throughout.                                         *)
LEMMA QuietInv == Spec => [](TInv /\ QInv)
<1>1. Init => QInv
  <2> SUFFICES ASSUME Init, Quiet PROVE Orderly
    BY DEF QInv
  <2>1. /\ \A s \in Servers : catalog[s] = 1 /\ offer[s] = 1
        /\ connections = [s \in Servers |-> None]
        /\ task = [t \in Tasks |-> Idle] /\ open = {}
    BY DEF Init, Quiet, KnownCalls
  <2>2. Idle.at = "idle" /\ Idle.mode = "none" /\ Idle.tool = 0
    BY DEF Idle
  <2>3. Callers \subseteq Tasks /\ Servers \subseteq Tasks
    BY DEF Tasks
  <2>4. ASSUME NEW s \in Servers
        PROVE  OneConnection(s)
    BY <2>1, <2>2, <2>3, InitRecords DEF OneConnection
  <2>5. ASSUME NEW c \in Callers
        PROVE  Plain(task[c]) /\ Registered(c)
    BY <2>1, <2>2, <2>3 DEF Plain, Registered
  <2> QED
    BY <2>1, <2>4, <2>5 DEF Orderly
<1>2. TInv /\ QInv /\ [Next]_vars => QInv'
  <2>1. ASSUME [Next]_vars, Quiet' PROVE Quiet
    BY <2>1 DEF Next, vars, Quiet, KnownCalls
  <2> QED
    BY <2>1, NextOrderly DEF QInv
<1> QED
  BY <1>1, <1>2, InitTyped, NextTyped, PTL DEF Spec

(* No client is left behind by calls to known tools of servers that answer *)
(* those they accept, however many callers connect at a time, and however  *)
(* often a connection fails.                                               *)
THEOREM NoClientIsLost == Spec => []NoStrayClient
<1>1. TInv /\ QInv => NoStrayClient
  BY DEF QInv, Quiet, Orderly, NoStrayClient
<1> QED
  BY <1>1, QuietInv, PTL

(* A call is sent at most twice, whatever fails, and an answer is one to a *)
(* call that was sent; where nothing fails the callers of a server share   *)
(* its connection and each is answered after one sending.                  *)
THEOREM CallsAreAnswered == Spec => []CallsAnswered
<1>1. TInv /\ QInv => CallsAnswered
  <2> SUFFICES ASSUME TInv, QInv, NEW c \in Callers
               PROVE  /\ task[c].sent <= 2
                      /\ task[c].outcome = "answered" /\ task[c].kind = "call"
                           => task[c].sent > 0
                      /\ KnownCalls /\ world.faults = {} /\ task[c].at = "done"
                           => task[c].outcome = "answered" /\ task[c].sent = 1
    BY DEF CallsAnswered
  <2>1. Fits(task[c])
    BY DEF TInv, Fitted, Tasks
  <2>2. Quiet => Plain(task[c])
    BY DEF QInv, Orderly
  <2> QED
    BY <2>1, <2>2 DEF Fits, Task, Plain, Quiet
<1> QED
  BY <1>1, QuietInv, PTL

=============================================================================

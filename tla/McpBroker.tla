------------------------------ MODULE McpBroker -----------------------------
(***************************************************************************)
(* LazyMcpBroker: the records of the downstream servers, their clients,    *)
(* the tool catalog and its cache file (broker.ts).                        *)
(*                                                                         *)
(* A caller runs describe_tool or call_tool; search_tools may start the    *)
(* background refresh of a server, the task named by that server.  Between *)
(* two awaits a task runs alone, and whoever waits for it resumes before   *)
(* any other event: actions that stand for events wait for Settled.        *)
(*                                                                         *)
(* A list of tools is its version: a server's lists only grow, and a tool  *)
(* is named by the first version that has it.  The servers behind the      *)
(* clients, the file system and the MCP client library are external: they  *)
(* answer, or fail in the ways the world of the behaviour names.           *)
(*                                                                         *)
(* A definition marked "mutant" is the next one with a plausible bug.      *)
(***************************************************************************)
EXTENDS Naturals, FiniteSets

CONSTANTS
  Servers, Callers,
  Worlds,      \* what is asked, fails, is cached and offered (Worldly below)
  MaxVersion,  \* bound: lists of tools a server ever offers
  MaxSearches, \* bound: background refreshes
  None

AllKinds == {"call", "describe", "search"}
AllFaults == {"connect", "list", "save", "die", "call"}

(* A behaviour has one world: the kinds of requests and of failures there   *)
(* are, what the cache file may hold at the start, and the lists of tools a *)
(* server comes to offer.                                                   *)
Worldly ==
  [ kinds : SUBSET AllKinds, faults : SUBSET AllFaults,
    cached : SUBSET {0, 1}, lists : 1..MaxVersion ]

ASSUME BrokerAssumption ==
  /\ IsFiniteSet(Servers) /\ IsFiniteSet(Callers)
  /\ Servers \cap Callers = {} /\ None \notin Servers \cup Callers
  /\ MaxVersion \in Nat \ {0} /\ MaxSearches \in Nat
  /\ Worlds \subseteq Worldly

VARIABLES
  world,       \* it never changes
  srv,         \* this.servers: status, client (0: undefined), tools
  catalog,     \* catalog[s]: the version whose tools this.catalog has
  connections, \* connections[s]: the task that registered its promise
  file,        \* the cache file: the version of each server, 0 for none
  task,        \* the locals of the callers and of the refreshes
  open,        \* external: the clients whose server still runs
  offer,       \* external: the newest list of each server
  searches     \* background refreshes so far

state == <<srv, catalog, connections, file, task, open, offer, searches>>
vars == <<world, state>>

Tasks == Callers \cup Servers
Versions == 0..MaxVersion

Record ==
  [ status : {"not_connected", "cached", "refreshing", "connected", "failed"},
    client : Nat,
    tools : Versions ]

NoRecord == [status |-> "not_connected", client |-> 0, tools |-> 0]

(* mode: a refresh that closes its client ("refresh") or keeps it ("keep"), *)
(* a connection of ensureConnected ("link"), one of reconnectServer ("force") *)
Task ==
  [ at : {"idle", "connecting", "saving", "closing", "resolved", "joined",
          "waiting", "woken", "linked", "calling", "dropping", "reclosing",
          "done"},
    kind : {"none", "call", "describe", "search"},
    server : Servers \cup {None},
    tool : Versions,
    mode : {"none", "refresh", "keep", "link", "force"},
    was : Record,            \* current, as the function read it
    old : Record,            \* current of reconnectServer
    since : Versions,        \* the list when connectOne began
    client : Nat,            \* of its connection, or of its call
    snap : [Servers -> Versions],         \* what it is saving
    broken : BOOLEAN,        \* the save failed
    on : Tasks \cup {None},  \* whose connection it awaits
    sent : 0..2,             \* times its call was sent
    outcome : {"none", "answered", "failed"} ]

Idle ==
  [ at |-> "idle", kind |-> "none", server |-> None, tool |-> 0,
    mode |-> "none", was |-> NoRecord, old |-> NoRecord, since |-> 0,
    client |-> 0, snap |-> [s \in Servers |-> 0], broken |-> FALSE,
    on |-> None, sent |-> 0, outcome |-> "none" ]

TypeOK ==
  /\ srv \in [Servers -> Record]
  /\ catalog \in [Servers -> Versions]
  /\ connections \in [Servers -> Tasks \cup {None}]
  /\ file \in [Servers -> Versions]
  /\ task \in [Tasks -> Task]
  /\ open \subseteq Nat \ {0}
  /\ offer \in [Servers -> Versions]
  /\ searches \in 0..MaxSearches

(* Nobody is about to resume: promise callbacks run before other events. *)
Settled == \A t \in Tasks : task[t].at \notin {"resolved", "woken", "linked"}

(* What a task still needs once its connectOne is over, and at its end. *)
Gone(q, at) ==
  [Idle EXCEPT !.at = at, !.kind = q.kind, !.server = q.server,
               !.tool = q.tool, !.mode = q.mode, !.sent = q.sent]

Ended(q, outcome) ==
  [Idle EXCEPT !.at = "done", !.kind = q.kind, !.sent = q.sent,
               !.outcome = outcome]

(* Clients are numbered; a number nothing refers to any more is free. *)
NewClient ==
  LET used == open \cup {srv[s].client : s \in Servers}
                   \cup {task[t].client : t \in Tasks}
                   \cup {task[t].was.client : t \in Tasks}
                   \cup {task[t].old.client : t \in Tasks}
  IN  CHOOSE k \in 1..(Cardinality(used) + 1) :
        k \notin used /\ \A j \in 1..(k - 1) : j \in used

-----------------------------------------------------------------------------
(* Parts of a step. *)

Refreshing(t, q, s, mode) ==                       \* refreshServerCatalog
  /\ srv' = [srv EXCEPT ![s].status = "refreshing"]
  /\ task' = [task EXCEPT ![t] = [q EXCEPT !.at = "connecting",
                !.mode = mode, !.was = srv[s], !.since = offer[s]]]

(* mutant: the connection is not registered *)
LinkingUnseen(t, q, was) ==
  LET s == q.server IN
  /\ srv' = [srv EXCEPT ![s] =
               [was EXCEPT !.client = 0, !.status = "refreshing"]]
  /\ connections' = connections
  /\ task' = [task EXCEPT ![t] = [q EXCEPT !.at = "connecting",
                !.mode = "link", !.was = was, !.since = offer[s]]]

(* The connection of ensureConnected begins. *)
Linking(t, q, was) ==
  LET s == q.server IN
  /\ srv' = [srv EXCEPT ![s] =
               [was EXCEPT !.client = 0, !.status = "refreshing"]]
  /\ connections' = [connections EXCEPT ![s] = t]
  /\ task' = [task EXCEPT ![t] = [q EXCEPT !.at = "connecting",
                !.mode = "link", !.was = was, !.since = offer[s]]]

(* A call failed: callWithReconnect reconnects once, then gives up. *)
Failing(q) ==
  IF q.mode # "force"
  THEN [Gone(q, "dropping") EXCEPT !.mode = "force", !.old = srv[q.server]]
  ELSE Ended(q, "failed")

Tried(q) ==                                         \* tryCall
  IF srv[q.server].status = "connected" /\ srv[q.server].client # 0
  THEN [Gone(q, "calling") EXCEPT !.sent = @ + 1,
                                  !.client = srv[q.server].client]
  ELSE Failing(q)

(* mutant: those who await it never learn *)
JoinedNobody(t, to) ==
  [u \in Tasks |-> task[u]]

(* mutant: to them it always failed *)
JoinedRejected(t, to) ==
  [u \in Tasks |-> IF task[u].at = "joined" /\ task[u].on = t
                   THEN Ended(task[u], "failed") ELSE task[u]]

(* The promise of t's connection settles: whoever awaits it resumes. *)
Joined(t, to) ==
  [u \in Tasks |->
     CASE task[u].at # "joined" \/ task[u].on # t -> task[u]
       [] task[u].at = "joined" /\ task[u].on = t ->
            IF to = "linked" THEN Gone(task[u], to)
            ELSE Ended(task[u], "failed")]

(* A refresh ends: of a caller, or the background one that others await. *)
Refreshed(t, q, outcome) ==
  IF t \in Callers
  THEN [task EXCEPT ![t] = IF outcome = "failed" THEN Ended(q, outcome)
                           ELSE Gone(q, "resolved")]
  ELSE [u \in Tasks |->
          CASE u = t -> Idle
            [] task[u].at = "waiting" /\ task[u].server = t ->
                 [task[u] EXCEPT !.at = "woken"]
            [] OTHER -> task[u]]

(* The catch of a refresh or a connection whose connectOne or save failed. *)
Caught(t, q) ==
  LET s == q.server
      failed == [srv[s] EXCEPT !.client = 0, !.status = "failed"] IN
  /\ srv' = [srv EXCEPT ![s] =
               IF q.mode = "force" THEN [failed EXCEPT !.tools = q.old.tools]
               ELSE failed]
  /\ IF q.mode \in {"link", "force"}
     THEN /\ connections' = [connections EXCEPT ![s] = None]
          /\ task' = [Joined(t, "done") EXCEPT ![t] = Ended(q, "failed")]
     ELSE /\ UNCHANGED connections
          /\ task' = IF q.mode = "refresh" /\ q.client # 0
                     THEN [task EXCEPT ![t] =
                             [Gone(q, "closing") EXCEPT !.broken = TRUE,
                                !.client = q.client]]
                     ELSE Refreshed(t, q, "failed")

-----------------------------------------------------------------------------
(* initialize: loadCatalogCache. *)
Init ==
  /\ world \in Worlds
  /\ file \in [Servers -> world.cached]
  /\ catalog = file
  /\ srv = [s \in Servers |-> [NoRecord EXCEPT !.tools = file[s],
              !.status = IF file[s] = 0 THEN @ ELSE "cached"]]
  /\ connections = [s \in Servers |-> None]
  /\ task = [t \in Tasks |-> Idle]
  /\ open = {} /\ searches = 0
  /\ offer = [s \in Servers |-> 1]

(* describeTool, callTool: resolveToolRecord. *)
Ask(c, kind, s, tool) ==
  LET q == [Idle EXCEPT !.kind = kind, !.server = s, !.tool = tool] IN
  /\ Settled
  /\ kind \in world.kinds
  /\ task[c].at = "idle"
  /\ IF catalog[s] >= tool
     THEN /\ task' = [task EXCEPT ![c] = [q EXCEPT !.at = "resolved"]]
          /\ UNCHANGED srv
     ELSE Refreshing(c, q, s, IF kind = "call" THEN "keep" ELSE "refresh")
  /\ UNCHANGED <<catalog, connections, file, open, offer, searches>>

(* searchTools, or initialize: scheduleCatalogRefresh. *)
Search(s) ==
  /\ Settled
  /\ "search" \in world.kinds
  /\ searches < MaxSearches
  /\ task[s].at = "idle" /\ connections[s] = None
  /\ searches' = searches + 1
  /\ Refreshing(s, [Idle EXCEPT !.kind = "search", !.server = s], s, "refresh")
  /\ UNCHANGED <<catalog, connections, file, open, offer>>

(* The record is found, or is not; call_tool goes on to ensureConnected. *)
Resolved(c) ==
  LET q == task[c]
      s == q.server
      found == catalog[s] >= q.tool IN
  /\ q.at = "resolved"
  /\ \/ /\ q.kind = "describe" \/ ~found
        /\ task' = [task EXCEPT ![c] =
                      Ended(q, IF found THEN "answered" ELSE "failed")]
        /\ UNCHANGED <<srv, connections>>
     \/ /\ q.kind = "call" /\ found
        /\ CASE srv[s].status = "connected" /\ srv[s].client # 0 ->
                  /\ task' = [task EXCEPT ![c] = Tried(q)]
                  /\ UNCHANGED <<srv, connections>>
             [] srv[s].status # "connected" /\ connections[s] # None ->
                  /\ task' = [task EXCEPT ![c] =
                                [q EXCEPT !.at = "joined",
                                          !.on = connections[s]]]
                  /\ UNCHANGED <<srv, connections>>
             [] /\ srv[s].status # "connected"
                /\ connections[s] = None /\ task[s].at # "idle" ->
                  /\ task' = [task EXCEPT ![c] =
                                [q EXCEPT !.at = "waiting", !.was = srv[s]]]
                  /\ UNCHANGED <<srv, connections>>
             [] OTHER -> Linking(c, q, srv[s])
  /\ UNCHANGED <<catalog, file, open, offer, searches>>

(* After the refresh it awaited: connected, or a connection of its own. *)
Woken(c) ==
  LET q == task[c]
      s == q.server IN
  /\ q.at = "woken"
  /\ IF srv[s].status = "connected" /\ srv[s].client # 0
     THEN /\ task' = [task EXCEPT ![c] = Tried(q)]
          /\ UNCHANGED <<srv, connections>>
     ELSE Linking(c, q, q.was)
  /\ UNCHANGED <<catalog, file, open, offer, searches>>

(* ensureConnected has returned: tryCall. *)
Linked(c) ==
  /\ task[c].at = "linked"
  /\ task' = [task EXCEPT ![c] = Tried(task[c])]
  /\ UNCHANGED <<srv, catalog, connections, file, open, offer, searches>>

-----------------------------------------------------------------------------
(* connectOne and what follows it. *)

(* mutant: the record keeps the tools it had *)
AppliedToCatalog(s, status, client, tools) ==
  /\ catalog' = [catalog EXCEPT ![s] = tools]
  /\ srv' = [srv EXCEPT ![s].status = status, ![s].client = client]

(* applyServerTools: the record and the catalog take the client's tools. *)
Applied(s, status, client, tools) ==
  /\ catalog' = [catalog EXCEPT ![s] = tools]
  /\ srv' = [srv EXCEPT ![s] =
               [status |-> status, client |-> client, tools |-> tools]]

Connected(t) ==
  LET q == task[t]
      s == q.server
      k == NewClient
      status == IF q.mode = "refresh" THEN "cached" ELSE "connected" IN
  /\ Settled
  /\ q.at = "connecting"
  /\ open' = open \cup {k}
  /\ \E v \in q.since..offer[s] : Applied(s, status, k, v)
  /\ task' = [task EXCEPT ![t] =             \* saveCatalogCache's snapshot
                [q EXCEPT !.at = "saving", !.client = k, !.was = NoRecord,
                          !.since = 0,
                          !.snap = [n \in Servers |-> srv'[n].tools]]]
  /\ UNCHANGED <<connections, file, offer, searches>>

(* The client does not connect, or connects and then lists nothing. *)
ConnectFails(t) ==
  /\ Settled
  /\ task[t].at = "connecting"
  /\ \/ "connect" \in world.faults /\ UNCHANGED open
     \/ /\ "list" \in world.faults
        /\ open' = open \cup {NewClient}
  /\ Caught(t, task[t])
  /\ UNCHANGED <<catalog, file, offer, searches>>

(* The rest of saveCatalogCache, and the code after it. *)
Saved(t) ==
  LET q == task[t] IN
  /\ Settled
  /\ q.at = "saving"
  /\ file' = q.snap
  /\ CASE q.mode = "refresh" ->
            /\ task' = [task EXCEPT ![t] =
                          [Gone(q, "closing") EXCEPT !.client = q.client]]
            /\ UNCHANGED connections
       [] q.mode = "keep" ->
            /\ task' = Refreshed(t, q, "answered")
            /\ UNCHANGED connections
       [] OTHER ->
            /\ connections' = [connections EXCEPT ![q.server] = None]
            /\ task' = [Joined(t, "linked") EXCEPT ![t] = Gone(q, "linked")]
  /\ UNCHANGED <<srv, catalog, open, offer, searches>>

SaveFails(t) ==
  /\ Settled
  /\ "save" \in world.faults
  /\ task[t].at = "saving"
  /\ Caught(t, task[t])
  /\ UNCHANGED <<catalog, file, open, offer, searches>>

(* mutant: the record keeps the client that was closed *)
ClosedKept(t) ==
  LET q == task[t]
      s == q.server IN
  /\ Settled
  /\ q.at = "closing"
  /\ open' = open \ {q.client}
  /\ srv' = srv
  /\ task' = Refreshed(t, q, IF q.broken THEN "failed" ELSE "answered")
  /\ UNCHANGED <<catalog, connections, file, offer, searches>>

(* The finally of a refresh that does not keep its client. *)
Closed(t) ==
  LET q == task[t]
      s == q.server IN
  /\ Settled
  /\ q.at = "closing"
  /\ open' = open \ {q.client}
  /\ srv' = [srv EXCEPT ![s].client =
               IF srv[s].status = "cached" THEN 0 ELSE @]
  /\ task' = Refreshed(t, q, IF q.broken THEN "failed" ELSE "answered")
  /\ UNCHANGED <<catalog, connections, file, offer, searches>>

-----------------------------------------------------------------------------
(* The call, its timer and the reconnection. *)

CallReturns(c) ==
  /\ Settled
  /\ task[c].at = "calling" /\ task[c].client \in open
  /\ task' = [task EXCEPT ![c] = Ended(task[c], "answered")]
  /\ UNCHANGED <<srv, catalog, connections, file, open, offer, searches>>

(* The client has gone, the server refuses the call, or the timer fires. *)
CallFails(c) ==
  /\ Settled
  /\ task[c].at = "calling"
  /\ task[c].client \notin open \/ "call" \in world.faults
  /\ task' = [task EXCEPT ![c] = Failing(task[c])]
  /\ UNCHANGED <<srv, catalog, connections, file, open, offer, searches>>

(* reconnectServer has closed the client it read; ensureConnected reads    *)
(* the record again and registers its connection.                          *)
Dropped(c) ==
  LET q == task[c]
      s == q.server IN
  /\ Settled
  /\ q.at = "dropping"
  /\ open' = open \ {q.old.client}
  /\ connections' = [connections EXCEPT ![s] = c]
  /\ task' = [task EXCEPT ![c] =
                [q EXCEPT !.at = "reclosing", !.was = srv[s]]]
  /\ UNCHANGED <<srv, catalog, file, offer, searches>>

(* ... which closes the client of that record and connects. *)
Reclosed(c) ==
  LET q == task[c]
      s == q.server IN
  /\ Settled
  /\ q.at = "reclosing"
  /\ open' = open \ {q.was.client}
  /\ srv' = [srv EXCEPT ![s] =
               [q.was EXCEPT !.client = 0, !.status = "refreshing"]]
  /\ task' = [task EXCEPT ![c] = [q EXCEPT !.at = "connecting",
                                           !.since = offer[s]]]
  /\ UNCHANGED <<catalog, connections, file, offer, searches>>

-----------------------------------------------------------------------------
(* External: a server stops, or has more tools to list. *)

Dies(k) ==
  /\ Settled
  /\ "die" \in world.faults
  /\ k \in open
  /\ open' = open \ {k}
  /\ UNCHANGED <<srv, catalog, connections, file, task, offer, searches>>

Offers(s) ==
  /\ Settled
  /\ offer[s] < world.lists
  /\ offer' = [offer EXCEPT ![s] = @ + 1]
  /\ UNCHANGED <<srv, catalog, connections, file, task, open, searches>>

Moves(t) ==
  \/ Connected(t) \/ ConnectFails(t) \/ Saved(t) \/ SaveFails(t) \/ Closed(t)

Goes(c) ==
  \/ Resolved(c) \/ Woken(c) \/ Linked(c)
  \/ CallReturns(c) \/ CallFails(c) \/ Dropped(c) \/ Reclosed(c)

Step ==
  \/ \E c \in Callers, kind \in {"call", "describe"}, s \in Servers,
        tool \in 1..world.lists : Ask(c, kind, s, tool)
  \/ \E s \in Servers : Search(s) \/ Offers(s)
  \/ \E t \in Tasks : Moves(t)
  \/ \E c \in Callers : Goes(c)
  \/ \E k \in open : Dies(k)

Next == Step /\ UNCHANGED world

(* connect, listTools, writeFile and close settle; a call has its timer. *)
Fairness ==
  /\ \A t \in Tasks : WF_state(Moves(t))
  /\ \A c \in Callers : WF_state(Goes(c))

Spec == Init /\ [][Next]_vars

FairSpec == Spec /\ Fairness

-----------------------------------------------------------------------------
Busy(s) == {t \in Tasks : task[t].server = s /\
                          task[t].at \in {"connecting", "saving", "closing"}}

(* A record says "refreshing" only while a task connects the server, and   *)
(* names a client it does not keep only until a refresh has closed it: no  *)
(* order of refreshes, connections and failures leaves a server refreshing *)
(* for ever, or cached with the client of a process that is gone.          *)
RecordIsTended ==
  \A s \in Servers :
    /\ srv[s].status = "refreshing" =>
         \E t \in Busy(s) : task[t].at = "connecting"
    /\ srv[s].status = "cached" /\ srv[s].client # 0 =>
         \E t \in Busy(s) : task[t].mode = "refresh"

(* Of a server that list_servers reports connected or cached, the tools    *)
(* search_tools finds are those the record has, which are those saved,     *)
(* although tasks write back records they read before they waited.         *)
ListedAgree ==
  \A s \in Servers :
    srv[s].status \in {"connected", "cached"} => catalog[s] = srv[s].tools

(* A client that still runs is the one its server's record names, or one a *)
(* task has in hand: clients that are replaced have been closed first      *)
(* (reconnectServer, ensureConnected).  That is so of calls to tools in    *)
(* the catalog whose client does not fail them.  Two calls that fail on    *)
(* one client both reconnect, and the second connection replaces the       *)
(* client of the first, which nothing closes; a refresh that meets a       *)
(* connection, a list that fails and a cache that cannot be saved leave a  *)
(* client behind in the same way.                                          *)
InHand(t, k) ==
  LET q == task[t] IN
  \/ q.at \in {"saving", "closing", "calling"} /\ q.client = k
  \/ q.at = "dropping" /\ q.old.client = k
  \/ q.at = "reclosing" /\ q.was.client = k

KnownCalls ==
  world.kinds = {"call"} /\ world.cached = {1} /\ world.lists = 1

NoStrayClient ==
  KnownCalls /\ world.faults \subseteq {"connect"} =>
  \A k \in open : \/ \E s \in Servers : srv[s].client = k
                  \/ \E t \in Tasks : InHand(t, k)

(* A call is sent at most twice and answered by a sending of its own       *)
(* (callWithReconnect); without faults, calls that share a server share    *)
(* its connection, and each is sent once and answered.                     *)
CallsAnswered ==
  \A c \in Callers :
    LET q == task[c] IN
    /\ q.sent <= 2
    /\ q.outcome = "answered" /\ q.kind = "call" => q.sent > 0
    /\ KnownCalls /\ world.faults = {} /\ q.at = "done" =>
         q.outcome = "answered" /\ q.sent = 1

(* Every request of a client of the broker is answered or refused, however *)
(* tasks wait for each other's connections and refreshes.                  *)
EveryRequestEnds ==
  \A c \in Callers : task[c].at # "idle" ~> task[c].at = "done"

=============================================================================

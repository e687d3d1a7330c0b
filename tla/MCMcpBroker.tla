----------------------------- MODULE MCMcpBroker ----------------------------
(* An instance of McpBroker for TLC. *)
EXTENDS McpBroker

World(kinds, faults, cached, lists) ==
  [kinds |-> kinds, faults |-> faults, cached |-> cached, lists |-> lists]

(* Calls alone, that fail or do not; requests of every kind while setup     *)
(* fails, or clients list nothing; lists that grow; clients that die.       *)
MCWorlds ==
  { World({"call"}, {}, {1}, 1),
    World({"call"}, {"connect"}, {1}, 1),
    World({"call"}, {"call", "connect"}, {1}, 1),
    World(AllKinds, {"connect", "save"}, {0, 1}, 1),
    World(AllKinds, {"list"}, {0, 1}, 1),
    World({"describe", "search"}, {"connect", "save"}, {1}, 2),
    World({"call", "search"}, {"die"}, {1}, 1) }
=============================================================================

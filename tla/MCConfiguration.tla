-------------------------- MODULE MCConfiguration --------------------------
(* Instances of GatewayConfig and ToolPolicy for TLC, in one model: the two
   share no state, so that each is checked while the other one stands at its
   beginning, and one after the other. *)
EXTENDS GatewayConfig, ToolPolicy

CONSTANTS v0, v1, max_queue, model_source_dir, A, a, B

MCLower == [m \in Names |-> IF m = A THEN a ELSE m]

Absent == [given |-> FALSE, items |-> {}]
L(items) == [given |-> TRUE, items |-> items]

Nothing ==
  [ settings |-> [k \in Keys |-> "absent"],
    runtimes |-> Absent, upstreams |-> Absent,
    allow |-> "absent", remote |-> "absent", token |-> "absent" ]

R(alias, upstream, complete, enabled) ==
  [ alias |-> alias, upstream |-> upstream,
    complete |-> complete, enabled |-> enabled ]
U(models, local) == [models |-> models, local |-> local]

Set(x) == [Nothing EXCEPT !.settings = [k \in Keys |-> x]]

(* Settings that are unusable or good, lists, flags and a token. *)
MCEnvs ==
  { Set("absent"), Set("zero"), Set(v1),
    [Nothing EXCEPT !.upstreams = L({U({B}, FALSE)}), !.remote = "yes"],
    [Nothing EXCEPT !.allow = "no"] }

MCFiles ==
  {Set("blank"), Set(v0)} \cup
  { [Nothing EXCEPT !.runtimes = L(rs), !.upstreams = L(us),
                    !.allow = "yes", !.token = "yes"] :
      rs \in { {R(A, B, TRUE, TRUE)},
               {R(a, a, FALSE, TRUE), R(A, a, TRUE, FALSE), R(B, B, TRUE, TRUE)} },
      us \in { {U({a}, FALSE)}, {U({A, B}, TRUE), U({B}, FALSE), U({}, FALSE)} } }

-----------------------------------------------------------------------------
CONSTANTS plain, adds, gets, getsAndAdds

MCTools == {plain, adds, gets, getsAndAdds}

Entry(effect, confirmation) ==
  [effect |-> effect, confirmation |-> confirmation]

(* One entry for all tools, of each kind there is, under each default. *)
MCEveryPolicy ==
  { c \in [ enabled : {"absent"},
            include : {{}, {plain, adds}}, exclude : {{}, {gets}},
            tools : {[t \in MCTools |-> e] : e \in Raw \cup {NoEntry}},
            default : Raw,
            readOnly : BOOLEAN ] : TRUE }

(* A few configurations that an operator changes between starts. *)
MCEdited ==
  { c \in [ enabled : {"yes", "no"},
            include : {{}, {plain, adds}}, exclude : {{}, {plain}},
            tools : {[t \in MCTools |-> NoEntry],
                     [t \in MCTools |-> IF t = adds THEN Entry("read", "absent")
                                        ELSE NoEntry]},
            default : {Unset}, readOnly : {FALSE} ] : TRUE }

MCConfigs == MCEveryPolicy \cup MCEdited
MCOffers == {{}, {gets, adds}, MCTools}

-----------------------------------------------------------------------------
(* Where one of them stands while the other one moves. *)
MCEnv == Set("absent")
MCFile == Set("blank")
MCConfig == CHOOSE c \in MCEdited : TRUE

GatewayRests ==
  /\ proc = Stopped /\ env = MCEnv /\ file = MCFile
  /\ \A k \in Keys : db[k] = "absent" /\ asked[k] = "absent"

BrokerRests ==
  /\ running = NoBroker /\ offered = {} /\ cache = {}
  /\ conf = MCConfig

BothInit == Init /\ PolicyInit /\ (GatewayRests \/ BrokerRests)

BothNext ==
  \/ BrokerRests /\ Next /\ UNCHANGED policyVars
  \/ GatewayRests /\ PolicyNext /\ UNCHANGED vars

Both == BothInit /\ [][BothNext]_<<vars, policyVars>>
=============================================================================

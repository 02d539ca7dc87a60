-------------------------------- MODULE Config --------------------------------
(***************************************************************************)
(* AlgorandConfig.__post_init__: from the network and the URLs that were   *)
(* given to the endpoints the client will read, once, at start.  Of a URL  *)
(* only the names of networks in its text matter, and the chain that is    *)
(* really behind it, which the program cannot see.                         *)
(***************************************************************************)
CONSTANTS
    Networks,        (* the keys of NETWORK_ENDPOINTS                      *)
    Nameless,        (* those whose own URLs do not name them (localnet)   *)
    Given,           (* the settings a service may be started with         *)
    Unset            (* no URL given, or an empty one                      *)

Roles == {"algod", "indexer"}
Urls == [names : SUBSET Networks, serves : Networks]

\* What the constructor is given: a label, URLs as arguments, URLs in the
\* environment.
Settings == [network : STRING, argument : [Roles -> Urls \cup {Unset}],
             environment : [Roles -> Urls \cup {Unset}]]

ASSUME ConfigAssumption ==
    /\ Nameless \subseteq Networks
    /\ Unset \notin Urls
    /\ Given \subseteq Settings

\* NETWORK_ENDPOINTS
DefaultFixedMutant(network) ==                  \* one default for all labels
    LET main == CHOOSE n \in Networks \ Nameless : TRUE IN [names |-> {main}, serves |-> main]
Default(network) == [names |-> {network} \ Nameless, serves |-> network]

\* An argument comes before the environment, the default last.
Effective(s, role) ==
    CASE s.argument[role] # Unset -> s.argument[role]
      [] s.argument[role] = Unset /\ s.environment[role] # Unset -> s.environment[role]
      [] OTHER -> Default(s.network)

\* An unknown label raises.
Boots(s) == s.network \in Networks

\* The warnings logged: a role, and another network its URL names.
Warnings(s) ==
    {w \in Roles \X Networks : w[2] # s.network /\ w[2] \in Effective(s, w[1]).names}

GivenUrl(s, role) == {s.argument[role], s.environment[role]} # {Unset}

\* The chain that is read, and the node of one beside the archive of another.
Serves(s, role) == Effective(s, role).serves
Mixed(s) == Serves(s, "algod") # Serves(s, "indexer")

\* A URL that does not name the network behind it.
Quiet(s, role) == GivenUrl(s, role) /\ Serves(s, role) \notin Effective(s, role).names
==============================================================================

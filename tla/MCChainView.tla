------------------------------ MODULE MCChainView ------------------------------
(* TLC instance of ChainView with the configuration of its two upstreams.      *)
(* Requests share nothing, so one request against a chain that moves is the   *)
(* whole interaction.                                                         *)
EXTENDS ChainView

Main == [names |-> {"mainnet"}, serves |-> "mainnet"]
Test == [names |-> {"testnet"}, serves |-> "testnet"]
Unnamed == [names |-> {}, serves |-> "testnet"]
Misnamed == [names |-> {"mainnet", "testnet"}, serves |-> "testnet"]

Started(network, argument, environment) ==
    [network |-> network, argument |-> argument, environment |-> environment]

NoUrls == [role \in Roles |-> Unset]
Both(url) == [role \in Roles |-> url]
OneOf(role, url) == [NoUrls EXCEPT ![role] = url]

MCGiven ==
    {Started(n, NoUrls, NoUrls) : n \in {"mainnet", "testnet", "localnet", "devnet"}}
    \cup {Started("mainnet", NoUrls, Both(Test)),
          Started("mainnet", OneOf("algod", Main), Both(Test)),
          Started("mainnet", OneOf("indexer", Unnamed), NoUrls),
          Started("testnet", OneOf("algod", Misnamed), NoUrls),
          Started("localnet", NoUrls, OneOf("algod", Main))}
==============================================================================

------------------------------ MODULE MCServe ------------------------------
(* Two files, a network of three nodes and two services beside the DHT. *)
EXTENDS Serve

CONSTANTS v, seed, health, indexer

MCOrder == <<"ip", "port">>
MCValues == {v}
MCSeeds == {seed}
MCObservers == {health}
MCServers == {}
MCWorkers == {indexer}

=============================================================================

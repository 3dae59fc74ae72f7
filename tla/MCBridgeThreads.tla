---- MODULE MCBridgeThreads ----
(* BridgeThreads with an ingress ring of three slots and a core of two frames. *)
EXTENDS BridgeThreads
====

------------------------------ MODULE MC_PubSub ------------------------------
(* The instance of PubSub for TLC: see pubsub.cfg and README.md. *)
EXTENDS PubSub
==============================================================================

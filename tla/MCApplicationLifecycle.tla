---------------------- MODULE MCApplicationLifecycle ----------------------
(* Model values for TLC. *)
EXTENDS ApplicationLifecycle

CONSTANTS orders, stock, broker, relay, c1, c2, c3

TwoGateways == <<orders, stock>>
============================================================================

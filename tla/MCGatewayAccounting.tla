------------------------ MODULE MCGatewayAccounting ------------------------
(* GatewayAccounting for TLC.  Requests, handlers and workers are model     *)
(* values; those of one kind are interchangeable as long as no liveness     *)
(* property is checked.                                                     *)
EXTENDS GatewayAccounting, TLC

CallSymmetry ==
  Permutations(Requests) \cup Permutations(Handlers) \cup Permutations(Workers)

ProcSymmetry == Permutations(Handlers) \cup Permutations(Workers)

=============================================================================

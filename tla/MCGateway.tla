------------------------------ MODULE MCGateway ------------------------------
(* What follows the answer of the provider, one kind at a time: the         *)
(* settlement of the calls by their handlers and the worker, or the capture *)
(* of one streamed answer.  They share no row.                              *)
EXTENDS MCGatewayAccounting, CaptureQueue

VARIABLE part  \* which of them moves

gatewayVars == <<part, vars, captureVars>>

GatewayInit == Init /\ CaptureInit /\ part \in {"settlement", "capture"}

GatewayNext ==
  /\ \/ part = "settlement" /\ Next /\ UNCHANGED captureVars
     \/ part = "capture" /\ CaptureNext /\ UNCHANGED vars
  /\ UNCHANGED part

\* The capture has a task from the start, which must not wait where it does not move.
Capturing(A) == part = "capture" /\ A

GatewaySpec ==
  /\ GatewayInit /\ [][GatewayNext]_gatewayVars
  /\ Fairness
  /\ WF_captureVars(Capturing(PullStep))
  /\ WF_captureVars(Capturing(CancelStep))
  /\ WF_captureVars(Capturing(RunTask))
=============================================================================

-------------------------- MODULE MCEvtchnDispatch --------------------------
(* EvtchnDispatch for TLC: three ports in two words of two bits; ports 0   *)
(* and 1 share a word and are bound to IRQs 0 and 1, port 2 is unbound,   *)
(* and IRQ 2 has no port.                                                  *)
EXTENDS EvtchnDispatch, TLC

MCBinding == (0 :> 0) @@ (1 :> 1) @@ (2 :> NoIrq)
=============================================================================

-------------------------- MODULE MCCanaryGateway --------------------------
(* A small instance of the gateway: one payload per vector. *)
EXTENDS CanaryGateway, TLC

MCPayload == [vector : Vector]
MCThreadSymmetry == Permutations(Thread)
=============================================================================

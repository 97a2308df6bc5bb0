---------------------------- MODULE MCBaselines ----------------------------
(* Two exports of one producer and one of another. *)
EXTENDS Baselines

MCBlProducer == <<1, 1, 2>>
=============================================================================

---------------------------- MODULE MCClientConn -----------------------------
(* An instance of ClientConn for TLC: a frame of two bytes for each protocol, *)
(* and one whose tag is unknown.                                              *)
EXTENDS ClientConn

MCFrames == {<<3, t>> : t \in {0, 1, 2, 5}}
=============================================================================

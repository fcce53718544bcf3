----------------------------- MODULE MCWSPool -----------------------------
(* The module the WSPool runs check; every constant has its value in the   *)
(* .cfg.                                                                    *)
EXTENDS WSPool
=============================================================================

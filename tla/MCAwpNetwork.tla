---------------------------- MODULE MCAwpNetwork ----------------------------
(* Instances of AwpNetwork.                                                 *)
EXTENDS AwpNetwork
=============================================================================

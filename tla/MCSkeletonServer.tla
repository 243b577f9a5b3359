-------------------------- MODULE MCSkeletonServer --------------------------
(* Values for the constants of SkeletonServer that a .cfg cannot write. *)
EXTENDS SkeletonServer, TLC

(* Protocol 500 replies, as TestProtocol of dummyServer does; 501, as      *)
(* KeepAlive, does not; 502 is not registered.                             *)
Replying == (500 :> TRUE) @@ (501 :> FALSE)
Silent == (501 :> FALSE)
=============================================================================

--------------------------- MODULE MCSyncSession ----------------------------
EXTENDS SyncSession

GarbageSizes == {2, 4}

(* The stream of replies stays in step with the requests: a reply that     *)
(* Recv hands out is the caller's own, and nothing is left of an exchange, *)
(* unless an earlier Recv went without its reply (OwnReply, InStep).       *)
RepliesInStep == TypeOK /\ OwnReply /\ InStep
=============================================================================

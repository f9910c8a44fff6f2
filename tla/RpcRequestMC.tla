---------------------------- MODULE RpcRequestMC ----------------------------
(* RpcRequest with the constants of RpcRequestSafety.cfg. *)
EXTENDS RpcRequest
=============================================================================

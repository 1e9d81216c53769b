----------------------------- MODULE MCRpcPath -----------------------------
(***************************************************************************)
(* One call on a path of two interceptors, every client of which tries      *)
(* twice, with bounds on what goes wrong on the way.                        *)
(***************************************************************************)
EXTENDS RpcPath

UpTo2 == {1, 2}

=============================================================================

---------------------------- MODULE MCRpcClient ----------------------------
(* RpcClient on small sets of threads, keys and calls. *)
EXTENDS RpcClient, TLC

\* The user threads are alike, and so are the keys.
Symmetry == Permutations(Users) \cup Permutations(Keys)

====

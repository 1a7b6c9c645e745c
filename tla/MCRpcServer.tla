---------------------------- MODULE MCRpcServer ----------------------------
(* RpcServer with one key and one token.  *)
EXTENDS RpcServer, TLC

CONSTANTS key, tok, none, plain, tokened

MCTopic  == <<key, none>> :> plain @@ <<key, tok>> :> tokened
MCWithin == {none} \X {plain, tokened} \cup {<<tok, tokened>>}

MCSymmetry == Permutations(Conns)

=============================================================================

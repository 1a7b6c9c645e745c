--------------------------- MODULE FunctionTable ---------------------------
(***************************************************************************)
(* What a server promises about the functions it offers: a call by name     *)
(* runs the function last registered under that very name, and none when    *)
(* the name was never registered or has been removed.  A name that cannot   *)
(* be told from others may run the function of any of them.                 *)
(***************************************************************************)
CONSTANTS
    Names,      \* the names functions are registered and called by
    Alike,      \* for each name, the names that cannot be told from it
    Handlers,   \* a function with the mode it is registered in
    Nobody      \* stands for "no function was run"

VARIABLES
    table,      \* name -> the handler registered under it
    called,     \* the name that was called last
    ran         \* the handler that call ran

Init == /\ table = [n \in {} |-> Nobody]
        /\ called \in Names
        /\ ran = Nobody

Register(n, h) ==
    /\ table' = [m \in DOMAIN table \cup {n} |-> IF m = n THEN h ELSE table[m]]
    /\ UNCHANGED <<called, ran>>

Remove(n) ==
    /\ table' = [m \in DOMAIN table \ {n} |-> table[m]]
    /\ UNCHANGED <<called, ran>>

\* The arguments may be rejected before the function is run.
Call(n) ==
    /\ called' = n
    /\ \/ ran' = Nobody
       \/ \E m \in Alike[n] \cap DOMAIN table : ran' = table[m]
    /\ UNCHANGED table

Next == \E n \in Names : \/ \E h \in Handlers : Register(n, h)
                         \/ Remove(n)
                         \/ Call(n)

vars == <<table, called, ran>>
Spec == Init /\ [][Next]_vars

=============================================================================

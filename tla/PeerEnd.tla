------------------------------ MODULE PeerEnd ------------------------------
(***************************************************************************)
(* What the far end of a connection promises to a client: nothing is         *)
(* answered that was not asked, and a request is answered once at most; only *)
(* one that fails after another thread has been given it is answered a       *)
(* second time.  A publication comes only after a subscription.  A           *)
(* connection that is gone says nothing more.  RpcClient assumes this of its *)
(* peer (PeerAnswers, PeerRepeats, PeerPublishes); Connection is shown to    *)
(* implement it.                                                             *)
(***************************************************************************)
EXTENDS Sequences

CONSTANTS
    Ids,        \* the ids of the requests a client may send
    NoId        \* the id that publications carry

VARIABLES
    held,       \* the requests sent to the far end and not answered yet
    failed,     \* the requests to be answered twice, until they have been
    subscribed, \* whether the far end knows of a subscription
    stream      \* the ids of the messages it has sent, in order

Init == held = {} /\ failed = {} /\ subscribed = FALSE /\ stream = <<>>

Ask(id) == /\ id \notin held
           /\ \A i \in DOMAIN stream : stream[i] # id
           /\ held' = held \cup {id}
           /\ UNCHANGED <<failed, subscribed, stream>>

Answer(id) == /\ id \in held
              /\ held' = held \ {id}
              /\ stream' = Append(stream, id)
              /\ UNCHANGED <<failed, subscribed>>

\* The function that took the request gives it to another thread, then throws.
Fail(id) == /\ id \in held
            /\ failed' = failed \cup {id}
            /\ UNCHANGED <<held, subscribed, stream>>

AnswerAgain(id) == /\ id \in failed \ held
                   /\ failed' = failed \ {id}
                   /\ stream' = Append(stream, id)
                   /\ UNCHANGED <<held, subscribed>>

Subscribe == subscribed' = TRUE /\ UNCHANGED <<held, failed, stream>>

Publish == /\ subscribed
           /\ stream' = Append(stream, NoId)
           /\ UNCHANGED <<held, failed, subscribed>>

Gone == held' = {} /\ failed' = {} /\ subscribed' = FALSE /\ UNCHANGED stream

Next == \/ \E id \in Ids : Ask(id) \/ Answer(id) \/ Fail(id) \/ AnswerAgain(id)
        \/ Subscribe \/ Publish \/ Gone

vars == <<held, failed, subscribed, stream>>
Spec == Init /\ [][Next]_vars

=============================================================================

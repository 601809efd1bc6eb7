----------------------------- MODULE RpcChannel -----------------------------
(***************************************************************************)
(* What a connection to the server promises its client: every request is   *)
(* answered, one reply each, in the order of the requests, for as long as  *)
(* the connection is open.  A request is the number of requests sent       *)
(* before it plus one, and the reply to request n is n.                    *)
(***************************************************************************)
EXTENDS Naturals, Sequences

VARIABLES
    requests,  \* number of requests sent
    replies,   \* the replies received, in the order of their arrival
    open       \* neither side has closed the connection

vars == <<requests, replies, open>>

Init == requests = 0 /\ replies = <<>> /\ open = TRUE

\* A client may still send on a connection that the server has closed.
Request ==
    /\ requests' = requests + 1
    /\ UNCHANGED <<replies, open>>

Reply ==
    /\ open
    /\ Len(replies) < requests
    /\ replies' = Append(replies, Len(replies) + 1)
    /\ UNCHANGED <<requests, open>>

Close ==
    /\ open
    /\ open' = FALSE
    /\ UNCHANGED <<requests, replies>>

Next == Request \/ Reply \/ Close

Spec == Init /\ [][Next]_vars

FairSpec == Spec /\ WF_vars(Reply)
=============================================================================

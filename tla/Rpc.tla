--------------------------------- MODULE Rpc ---------------------------------
(***************************************************************************)
(* What a caller may rely on when it calls the neb (transport.Transport):  *)
(* one call at a time is under way, a response is the answer to the call   *)
(* that returns it, and a transport that is dead never answers again.      *)
(* Stdio implements it (Transport), and so does the lifecycle manager's    *)
(* use of it (Lifecycle).                                                  *)
(***************************************************************************)
EXTENDS Naturals

CONSTANTS
    Requests,     \* the requests
    Statuses,     \* what a response can say, "error" among it
    Idle          \* no call

VARIABLES
    call,         \* the request of the call under way, or Idle
    outcome,      \* what the last call returned, and to which request
    dead,         \* no call will be answered any more
    renewals      \* how often a new transport has replaced the old one

rpcVars == <<call, outcome, dead, renewals>>

Outcome == [to : Requests, status : Statuses]

Init ==
    /\ call = Idle
    /\ outcome \in Outcome
    /\ dead = FALSE
    /\ renewals = 0

Begin(r) ==
    /\ call = Idle
    /\ call' = r
    /\ UNCHANGED <<outcome, dead, renewals>>

\* The neb has answered.
Answer ==
    /\ call # Idle
    /\ ~dead
    /\ outcome' \in Outcome
    /\ outcome'.to = call
    /\ call' = Idle
    /\ UNCHANGED <<dead, renewals>>

\* The call fails, and may leave the transport dead.
Fail ==
    /\ call # Idle
    /\ outcome' = [to |-> call, status |-> "error"]
    /\ call' = Idle
    /\ dead' \in {dead, TRUE}
    /\ UNCHANGED renewals

\* A runtime that is started again makes another transport.
Renew ==
    /\ call' = Idle
    /\ outcome' \in Outcome
    /\ dead' = FALSE
    /\ renewals' = renewals + 1

Next ==
    \/ \E r \in Requests : Begin(r)
    \/ Answer
    \/ Fail
    \/ Renew

Spec == Init /\ [][Next]_rpcVars
===============================================================================

------------------------- MODULE GraphLeaseContract -------------------------
(***************************************************************************)
(* What GraphManager promises the holders of a GraphLease, without locks,  *)
(* gates, catalog or directories: an instance is served, then withdrawn    *)
(* from service, and its connections are closed only once nobody uses it;  *)
(* an instance that is still used when patience runs out is leaked.        *)
(***************************************************************************)
CONSTANTS Instances, Users

VARIABLES
    status,     \* instance -> "absent", "serving", "withdrawn", "leaked", "closed"
    users       \* instance -> the users holding a lease on it

contractVars == <<status, users>>

CInit ==
    /\ status = [i \in Instances |-> "absent"]
    /\ users = [i \in Instances |-> {}]

Serve(i) ==
    /\ status[i] = "absent"
    /\ status' = [status EXCEPT ![i] = "serving"]
    /\ UNCHANGED users

Enter(u, i) ==
    /\ status[i] = "serving"
    /\ users' = [users EXCEPT ![i] = @ \cup {u}]
    /\ UNCHANGED status

Release(u, i) ==
    /\ u \in users[i]
    /\ users' = [users EXCEPT ![i] = @ \ {u}]
    /\ UNCHANGED status

Withdraw(S) ==
    /\ \A i \in S : status[i] = "serving"
    /\ status' = [i \in Instances |-> IF i \in S THEN "withdrawn" ELSE status[i]]
    /\ UNCHANGED users

Close(S) ==
    /\ \A i \in S : status[i] = "withdrawn" /\ users[i] = {}
    /\ status' = [i \in Instances |-> IF i \in S THEN "closed" ELSE status[i]]
    /\ UNCHANGED users

Leak(i) ==
    /\ status[i] = "withdrawn" /\ users[i] # {}
    /\ status' = [status EXCEPT ![i] = "leaked"]
    /\ UNCHANGED users

\* The process ends.
ProcessEnd ==
    /\ status' = [i \in Instances |-> "absent"]
    /\ users' = [i \in Instances |-> {}]

CNext ==
    \/ \E i \in Instances :
          \/ Serve(i) \/ Leak(i)
          \/ \E u \in Users : Enter(u, i) \/ Release(u, i)
    \/ \E S \in SUBSET Instances : Withdraw(S) \/ Close(S)
    \/ ProcessEnd

Contract == CInit /\ [][CNext]_contractVars
=============================================================================

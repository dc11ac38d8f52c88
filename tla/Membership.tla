----------------------------- MODULE Membership -----------------------------
(***************************************************************************)
(* What the hub promises about one device name on the private network,     *)
(* with no agent, no database and no message: an operator grants single-use *)
(* keys, a grant admits at most one node, an evicted node stays out.       *)
(* Enrollment is shown to implement this module.                           *)
(***************************************************************************)
CONSTANT Key

VARIABLES
    granted,   \* keys an operator's decision has put in the device's row
    spent,     \* keys the control server has accepted once
    members    \* nodes on the private network, each named by the key it used

vars == <<granted, spent, members>>

Init ==
    /\ granted = {}
    /\ spent = {}
    /\ members = {}

\* The operator approves the device, or issues it a new key.
Grant(k) ==
    /\ k \notin granted
    /\ granted' = granted \cup {k}
    /\ UNCHANGED <<spent, members>>

\* A node enters with a granted key nobody has used.
Admit(k) ==
    /\ k \in granted \ spent
    /\ spent' = spent \cup {k}
    /\ members' = members \cup {k}
    /\ UNCHANGED granted

\* The operator takes nodes off the network.
Evict(gone) ==
    /\ members' = members \ gone
    /\ UNCHANGED <<granted, spent>>

Next ==
    \/ \E k \in Key : Grant(k) \/ Admit(k)
    \/ \E gone \in SUBSET members : Evict(gone)

Spec == Init /\ [][Next]_vars
=============================================================================

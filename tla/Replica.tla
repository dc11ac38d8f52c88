------------------------------ MODULE Replica ------------------------------
(***************************************************************************)
(* What the portal promises of a device's configuration, with no call, no  *)
(* heartbeat and no listener: saves make versions, and the device serves   *)
(* nothing (while it changes over, for one) or exactly one of them, and    *)
(* goes forward only, until it starts again with none. ConfigSync is shown *)
(* to implement this module.                                               *)
(***************************************************************************)
EXTENDS Naturals

CONSTANTS
    Rule,       \* forwards
    MaxVersion  \* saves

VARIABLES
    version,    \* the last version saved
    saved,      \* per version, the forwards saved with it
    copy,       \* the version the device has adopted, and its forwards
    serving     \* the forwards the device serves

vars == <<version, saved, copy, serving>>

Nothing == [version |-> 0, remote |-> {}]

Init ==
    /\ version = 1 /\ \E c \in SUBSET Rule : saved = [v \in 0..MaxVersion |-> IF v = 1 THEN c ELSE {}]
    /\ copy = Nothing /\ serving = {}

Publish(c) ==
    /\ version < MaxVersion
    /\ version' = version + 1
    /\ saved' = [saved EXCEPT ![version + 1] = c]
    /\ UNCHANGED <<copy, serving>>

\* A version later than the device's, not always the last one.
Adopt(v) ==
    /\ copy.version < v /\ v <= version
    /\ copy' = [version |-> v, remote |-> saved[v]]
    /\ serving' = saved[v]
    /\ UNCHANGED <<version, saved>>

Withdraw ==
    /\ serving' = {}
    /\ UNCHANGED <<version, saved, copy>>

\* The device starts again.
Forget ==
    /\ copy' = Nothing /\ serving' = {}
    /\ UNCHANGED <<version, saved>>

Next ==
    \/ \E c \in SUBSET Rule : Publish(c)
    \/ \E v \in 1..MaxVersion : Adopt(v)
    \/ Withdraw \/ Forget

Spec == Init /\ [][Next]_vars
=============================================================================

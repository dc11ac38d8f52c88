-------------------------- MODULE ConfigSyncProofs --------------------------
(***************************************************************************)
(* Proofs about ConfigSync, for any forwards, and any number of saves and  *)
(* faults.                                                                 *)
(***************************************************************************)
EXTENDS ConfigSync, TLAPS

USE ConfigAssumption

\* What the agent has received or applied is what was saved under that version.
Copied ==
    /\ mine.version # 0 => mine.remote = saved[mine.version]
    /\ fetched.version # 0 => fetched.remote = saved[fetched.version]

\* The agent never goes back: what it was told is not older, what it has received is newer.
Forward ==
    /\ phase = "told" => mine.version <= told
    /\ phase \in {"fetch", "fetched", "start"} => first \/ mine.version < version
    /\ phase \in {"fetched", "start"} => mine.version < fetched.version
    /\ first => mine.version = 0
    /\ phase \in {"online", "told", "pause"} => ~first

\* What listens: the forwards of the version applied, or, after a failure that the
\* agent will repair, none; and while they are started, those that are not yet to do.
Listening ==
    /\ phase # "start" => open = (IF running THEN mine.remote ELSE {})
    /\ phase = "start" => open \cup todo = fetched.remote /\ ~running
    /\ phase # "start" /\ ~first => running \/ mine.version < version
    /\ ~first => mine.version # 0
    /\ phase = "off" => first
    /\ first => ~running

IInv == TypeOK /\ Copied /\ Forward /\ Listening

LEMMA InitInv == Init => IInv
<1> SUFFICES ASSUME Init PROVE IInv
  OBVIOUS
<1> USE DEF Init, NoCopy
<1>1. TypeOK
  <2>1. PICK c \in Config : saved = [v \in Version |-> IF v = 1 THEN c ELSE {}]
    OBVIOUS
  <2>2. saved \in [Version -> Config]
    BY <2>1 DEF Config
  <2>3. version \in Version \ {0} /\ told \in 0..version /\ faults \in 0..MaxFaults
    BY DEF Version
  <2>4. mine \in Copy /\ fetched \in Copy /\ mine.version <= version /\ fetched.version <= version
    BY DEF Copy, Version, Config
  <2>5. first \in BOOLEAN /\ phase = "off"
    OBVIOUS
  <2>6. running \in BOOLEAN /\ open \cap closing = {}
    OBVIOUS
  <2>7. QED
    BY <2>2, <2>3, <2>4, <2>5, <2>6 DEF TypeOK
<1>2. Copied
  BY DEF Copied
<1>3. Forward /\ Listening
  BY DEF Forward, Listening
<1>4. QED
  BY <1>1, <1>2, <1>3 DEF IInv

\* A cycle that is over has nothing to keep.
LEMMA OverInv ==
    ASSUME IInv, Over, UNCHANGED <<hub, fetched, told>>, faults' \in 0..MaxFaults
    PROVE  IInv'
<1> USE DEF Over, hub
<1>1. TypeOK'
  <2>1. mine' \in Copy /\ mine'.version <= version'
    BY DEF IInv, TypeOK, Copy, NoCopy, Version, Config
  <2>2. first' \in BOOLEAN /\ running' \in BOOLEAN
    OBVIOUS
  <2>3. QED
    BY <2>1, <2>2 DEF IInv, TypeOK
<1>2. Copied'
  BY DEF IInv, Copied, NoCopy
<1>3. Forward' /\ Listening'
  BY DEF Forward, Listening, NoCopy
<1>4. QED
  BY <1>1, <1>2, <1>3 DEF IInv

LEMMA FaultTyped == TypeOK /\ (Fault \/ UNCHANGED faults) => faults' \in 0..MaxFaults
BY DEF TypeOK, Fault

\* What no step of the agent changes.
LEMMA CopiedKept == ASSUME Copied, UNCHANGED <<hub, fetched, mine>> PROVE Copied'
BY DEF Copied, hub

LEMMA SaveInv == ASSUME IInv, NEW c \in Config, Save(c) PROVE IInv'
<1> USE DEF Save, fwds
<1>1. version \in Nat /\ version' = version + 1 /\ version' \in Version \ {0}
  BY DEF IInv, TypeOK, Version
<1>2. TypeOK'
  <2>1. saved' \in [Version -> Config]
    BY <1>1 DEF IInv, TypeOK
  <2>2. told' \in 0..version' /\ mine'.version <= version' /\ fetched'.version <= version'
    BY <1>1 DEF IInv, TypeOK, Copy, Version
  <2>3. QED
    BY <1>1, <2>1, <2>2 DEF IInv, TypeOK
<1>3. Copied'
  <2>1. \A v \in Version : v <= version => saved'[v] = saved[v]
    BY <1>1 DEF IInv, TypeOK, Version
  <2>2. QED
    BY <2>1 DEF IInv, Copied, TypeOK, Copy
<1>4. Forward' /\ Listening'
  BY <1>1 DEF IInv, Forward, Listening, TypeOK, Copy, Version
<1>5. QED
  BY <1>2, <1>3, <1>4 DEF IInv

LEMMA InvStep == IInv /\ [Next]_vars => IInv'
<1> SUFFICES ASSUME IInv, [Next]_vars PROVE IInv'
  OBVIOUS
<1>t. TypeOK /\ Copied /\ Forward /\ Listening
  BY DEF IInv
<1>v. mine.version \in Nat /\ fetched.version \in Nat /\ version \in Nat /\ told \in Nat /\ version # 0
  BY <1>t DEF TypeOK, Copy, Version
<1>0. CASE UNCHANGED vars
  BY <1>0, <1>t DEF IInv, vars, TypeOK, Copied, Forward, Listening
<1>1. CASE \E c \in Config : Save(c)
  BY <1>1, SaveInv
<1>2. ASSUME NEW r \in Rule, Close(r) PROVE IInv'
  <2>1. TypeOK'
    BY <1>2, <1>t DEF Close, TypeOK, hub
  <2>2. Copied' /\ Forward' /\ Listening'
    BY <1>2, <1>t, CopiedKept DEF Close, Forward, Listening, hub
  <2>3. QED
    BY <2>1, <2>2 DEF IInv
<1>3. CASE CycleStart
  <2>1. TypeOK'
    BY <1>3, <1>t DEF CycleStart, TypeOK, hub, fwds
  <2>2. Copied' /\ Forward' /\ Listening'
    BY <1>3, <1>t, CopiedKept DEF CycleStart, Forward, Listening, hub, fwds
  <2>3. QED
    BY <2>1, <2>2 DEF IInv
<1>4. CASE ConfigRead
  <2>1. fetched' \in Copy /\ fetched'.version = version /\ fetched'.remote = saved[version]
    BY <1>4, <1>t DEF ConfigRead, TypeOK, Copy, Version
  <2>2. TypeOK'
    BY <1>4, <1>t, <1>v, <2>1 DEF ConfigRead, TypeOK, hub, fwds
  <2>3. Copied'
    BY <1>4, <1>t, <2>1 DEF ConfigRead, Copied, hub
  <2>4. mine.version < version
    BY <1>4, <1>t, <1>v DEF ConfigRead, Forward
  <2>5. Forward' /\ Listening'
    BY <1>4, <1>t, <1>v, <2>1, <2>4 DEF ConfigRead, Forward, Listening, hub, fwds
  <2>6. QED
    BY <2>2, <2>3, <2>5 DEF IInv
<1>5. CASE ConfigFails
  <2>1. faults' \in 0..MaxFaults
    BY <1>5, <1>t, FaultTyped DEF ConfigFails
  <2>2. CASE first
    BY <1>5, <2>1, <2>2, OverInv DEF ConfigFails
  <2>3. CASE ~first
    <3>1. TypeOK'
      BY <1>5, <1>t, <2>1, <2>3 DEF ConfigFails, TypeOK, hub, fwds
    <3>2. Copied' /\ Forward' /\ Listening'
      BY <1>5, <1>t, <2>3, CopiedKept DEF ConfigFails, Forward, Listening, hub, fwds
    <3>3. QED
      BY <3>1, <3>2 DEF IInv
  <2>4. QED
    BY <2>2, <2>3
<1>6. CASE Stop
  <2>1. TypeOK'
    BY <1>6, <1>t DEF Stop, TypeOK, hub, Copy, Config
  <2>2. Copied' /\ Forward' /\ Listening'
    BY <1>6, <1>t, CopiedKept DEF Stop, Forward, Listening, hub
  <2>3. QED
    BY <2>1, <2>2 DEF IInv
<1>7. ASSUME NEW r \in Rule, Listen(r) PROVE IInv'
  <2>1. TypeOK'
    BY <1>7, <1>t DEF Listen, TypeOK, hub
  <2>2. Copied' /\ Forward' /\ Listening'
    BY <1>7, <1>t, CopiedKept DEF Listen, Forward, Listening, hub
  <2>3. QED
    BY <2>1, <2>2 DEF IInv
<1>8. CASE ListenFails
  <2>1. faults' \in 0..MaxFaults
    BY <1>8, <1>t, FaultTyped DEF ListenFails
  <2>2. CASE first
    BY <1>8, <2>1, <2>2, OverInv DEF ListenFails, Back
  <2>3. CASE ~first
    <3>1. TypeOK'
      BY <1>8, <1>t, <2>1, <2>3 DEF ListenFails, Back, TypeOK, hub
    <3>2. Copied' /\ Forward' /\ Listening'
      BY <1>8, <1>t, <2>3, CopiedKept DEF ListenFails, Back, Forward, Listening, hub
    <3>3. QED
      BY <3>1, <3>2 DEF IInv
  <2>4. QED
    BY <2>2, <2>3
<1>9. CASE Apply
  <2>1. TypeOK'
    BY <1>9, <1>t DEF Apply, TypeOK, hub
  <2>2. Copied'
    BY <1>9, <1>t DEF Apply, Copied, hub
  <2>3. Forward' /\ Listening'
    BY <1>9, <1>t, <1>v DEF Apply, Forward, Listening, hub
  <2>4. QED
    BY <2>1, <2>2, <2>3 DEF IInv
<1>10. CASE BeatRead
  <2>1. TypeOK'
    BY <1>10, <1>t, <1>v DEF BeatRead, TypeOK, hub, fwds
  <2>2. Copied' /\ Forward' /\ Listening'
    BY <1>10, <1>t, <1>v, CopiedKept DEF BeatRead, TypeOK, Forward, Listening, hub, fwds
  <2>3. QED
    BY <2>1, <2>2 DEF IInv
<1>11. CASE BeatReply
  <2>1. TypeOK'
    BY <1>11, <1>t DEF BeatReply, TypeOK, hub, fwds
  <2>2. Copied' /\ Forward' /\ Listening'
    BY <1>11, <1>t, <1>v, CopiedKept DEF BeatReply, TypeOK, Forward, Listening, hub, fwds
  <2>3. QED
    BY <2>1, <2>2 DEF IInv
<1>12. CASE BeatFails \/ Pause
  <2>1. TypeOK'
    BY <1>12, <1>t, FaultTyped DEF BeatFails, Pause, TypeOK, hub, fwds
  <2>2. Copied' /\ Forward' /\ Listening'
    BY <1>12, <1>t, CopiedKept DEF BeatFails, Pause, Forward, Listening, hub, fwds
  <2>3. QED
    BY <2>1, <2>2 DEF IInv
<1>13. CASE CycleEnd
  BY <1>13, <1>t, FaultTyped, OverInv DEF CycleEnd
<1>14. QED
  BY <1>0, <1>1, <1>2, <1>3, <1>4, <1>5, <1>6, <1>7, <1>8, <1>9, <1>10, <1>11, <1>12, <1>13
     DEF Next, Agent, Reload

-----------------------------------------------------------------------------
(* Theorems. *)

\* What is inductive.
THEOREM Invariant == Spec => []IInv
BY InitInv, InvStep, PTL DEF Spec

\* Every variable of ConfigSync stays in its type.
THEOREM TypeCorrect == Spec => []TypeOK
<1>1. IInv => TypeOK
  BY DEF IInv
<1>2. QED
  BY <1>1, Invariant, PTL

\* An agent that reports the row's version listens on that version's forwards, however
\* saves, failures and restarts are interleaved with its reloads.
THEOREM ForwardsInStep == Spec => []InStep
<1>1. IInv => InStep
  BY DEF IInv, InStep, TypeOK, Version, Copied, Forward, Listening
<1>2. QED
  BY <1>1, Invariant, PTL

-----------------------------------------------------------------------------
(* ConfigSync implements Replica.                                          *)

LEMMA ReplicaInit == Init => R!Init
BY DEF Init, R!Init, R!Nothing, NoCopy, Serving, Config, Version

\* The steps of a reload and of the heartbeats around it leave the version the agent has
\* adopted alone, and either what it serves too or serve nothing.
LEMMA SameOrNothing ==
    ASSUME UNCHANGED <<version, saved, mine>>, Serving' \in {Serving, {}}
    PROVE  [R!Next]_(R!vars)
<1>1. CASE Serving' = Serving
  BY <1>1 DEF R!vars
<1>2. CASE Serving' = {}
  BY <1>2 DEF R!Withdraw, R!Next
<1>3. QED
  BY <1>1, <1>2

LEMMA StartsAgain ==
    ASSUME Over, UNCHANGED hub
    PROVE  [R!Next]_(R!vars)
<1>1. R!Forget
  BY DEF Over, hub, R!Forget, R!Nothing, NoCopy, Serving
<1>2. QED
  BY <1>1 DEF R!Next

LEMMA ReplicaStep ==
    ASSUME IInv, [Next]_vars
    PROVE  [R!Next]_(R!vars)
<1>1. CASE UNCHANGED vars
  BY <1>1 DEF vars, R!vars, Serving
<1>2. ASSUME NEW c \in Config, Save(c) PROVE [R!Next]_(R!vars)
  <2>1. R!Publish(c)
    BY <1>2 DEF Save, fwds, R!Publish, Serving
  <2>2. QED
    BY <2>1 DEF R!Next, Config
<1>3. CASE Apply
  <2>1. /\ fetched.version \in Version /\ fetched.version <= version
        /\ mine.version < fetched.version
    BY <1>3 DEF Apply, IInv, TypeOK, Copy, Forward
  <2>2. fetched.version # 0 /\ fetched.version \in 1..MaxVersion
    BY <1>3, <2>1 DEF IInv, TypeOK, Copy, Version
  <2>3. open = fetched.remote /\ fetched.remote = saved[fetched.version]
    BY <1>3, <2>2 DEF Apply, IInv, Listening, Copied
  <2>4. mine' = [version |-> fetched.version, remote |-> saved[fetched.version]]
    BY <1>3, <2>3 DEF Apply, IInv, TypeOK, Copy
  <2>5. Serving' = saved[fetched.version]
    BY <1>3, <2>3 DEF Apply, Serving
  <2>6. R!Adopt(fetched.version)
    BY <1>3, <2>1, <2>4, <2>5 DEF Apply, hub, R!Adopt
  <2>7. QED
    BY <2>2, <2>6 DEF R!Next
<1>4. CASE ConfigFails
  BY <1>4, StartsAgain, SameOrNothing DEF ConfigFails, hub, fwds, Serving
<1>5. CASE ListenFails
  BY <1>5, StartsAgain, SameOrNothing DEF ListenFails, Back, hub, Serving
<1>6. CASE CycleEnd
  BY <1>6, StartsAgain DEF CycleEnd
<1>7. ASSUME NEW r \in Rule, Listen(r) PROVE [R!Next]_(R!vars)
  <2>1. ~running
    BY <1>7 DEF Listen, IInv, Listening
  <2>2. QED
    BY <1>7, <2>1, SameOrNothing DEF Listen, hub, Serving
<1>8. CASE Stop
  BY <1>8, SameOrNothing DEF Stop, hub, Serving
<1>9. CASE CycleStart \/ ConfigRead \/ BeatRead \/ BeatReply \/ Pause \/ BeatFails
  BY <1>9, SameOrNothing
     DEF CycleStart, ConfigRead, BeatRead, BeatReply, Pause, BeatFails, hub, fwds, Serving
<1>10. ASSUME NEW r \in Rule, Close(r) PROVE [R!Next]_(R!vars)
  BY <1>10, SameOrNothing DEF Close, hub, Serving
<1>11. QED
  BY <1>1, <1>2, <1>3, <1>4, <1>5, <1>6, <1>7, <1>8, <1>9, <1>10 DEF Next, Agent, Reload

\* The portal, the agent and the listeners together implement Replica: the agent adopts
\* only what was saved, later than what it has, and serves exactly that or nothing.
THEOREM ImplementsReplica == Spec => ReplicaSpec
<1>1. IInv /\ [Next]_vars => [R!Next]_(R!vars)
  BY ReplicaStep
<1>2. QED
  BY <1>1, ReplicaInit, Invariant, PTL DEF Spec, ReplicaSpec, R!Spec
=============================================================================

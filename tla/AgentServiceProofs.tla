-------------------------- MODULE AgentServiceProofs --------------------------
(***************************************************************************)
(* Proofs about AgentService, for any keys, handlers, requests and faults. *)
(***************************************************************************)
EXTENDS AgentService, TLAPS

USE ServiceAssumption

Step == {"idle", "write", "validate", "rename", "forget", "reload"}

\* Until two requests overlap, at most one is under way,
Alone == ~overlap => \A g, h \in Handler : req[g] # "idle" /\ req[h] # "idle" => g = h

\* and what it is about to rename has been loaded.
Checked == ~overlap => \A h \in Handler : req[h] = "rename" => Loads(tmp)

IInv == TypeOK /\ Alone /\ Checked /\ FileLoads

-----------------------------------------------------------------------------
(* Types. *)

LEMMA InitInv == Init => IInv
<1> SUFFICES ASSUME Init PROVE IInv
  OBVIOUS
<1> USE DEF Init
<1>1. TypeOK
  <2>1. /\ stopping \in BOOLEAN /\ signal \in BOOLEAN /\ cancelled \in BOOLEAN
        /\ overlap \in BOOLEAN /\ stale \in BOOLEAN /\ torn \in BOOLEAN
        /\ resets \in [Handler -> BOOLEAN]
    OBVIOUS
  <2>2. /\ file \in Valid \cup {Bad, Absent} /\ tmp \in Valid \cup {Bad, Absent}
        /\ state \in Valid /\ node \in Valid /\ conf \in Valid /\ st \in Valid /\ asked \in Valid
        /\ content \in [Handler -> Valid \cup {Bad}]
    BY DEF Valid
  <2>3. QED
    BY <2>1, <2>2 DEF TypeOK
<1>2. Alone /\ Checked /\ FileLoads
  BY DEF Alone, Checked, FileLoads, Loads, Valid
<1>3. QED
  BY <1>1, <1>2 DEF IInv

\* The files, the enrolment and what a cycle holds keep their types.
LEMMA FilesTyped ==
    ASSUME TypeOK, [Next]_vars
    PROVE  /\ file' \in Valid \cup {Bad, Absent} /\ tmp' \in Valid \cup {Bad, Absent}
           /\ asked' \in Valid
<1> USE DEF TypeOK
<1>1. CASE \E h \in Handler : Write(h) \/ Validate(h) \/ Rename(h)
  <2>1. PICK h \in Handler : Write(h) \/ Validate(h) \/ Rename(h)
    BY <1>1
  <2>2. /\ file' = file \/ file' = tmp
        /\ tmp' = tmp \/ tmp' = Absent \/ tmp' = content[h]
    BY <2>1 DEF Write, Validate, Rename, files
  <2>3. asked' = asked \/ asked' = None \/ (asked' = tmp /\ tmp \in Key)
    BY <2>1 DEF Write, Validate, Rename, history
  <2>4. QED
    BY <2>2, <2>3 DEF Valid
<1>2. QED
  BY <1>1 DEF Next, Loop, Portal, Serve, Start, Stop, Exit, Crash, Dies, Load, Begin, Watch,
     Enrolled, SaveEnrolled, Approved, Joined, Unauthorized, CycleEnds, Again, PutConfig,
     PostProject, PostReload, Request, Forget, Reload, files, history, vars

LEMMA CycleTyped ==
    ASSUME TypeOK, [Next]_vars
    PROVE  /\ state' \in Valid /\ node' \in Valid /\ conf' \in Valid /\ st' \in Valid
           /\ phase' \in Running \cup {"dead", "load", "begin", "backoff"}
<1> USE DEF TypeOK, Running, Valid
<1>1. CASE Start \/ Load
  BY <1>1 DEF Start, Load, Loaded, Loads, enrolment
<1>2. CASE Exit \/ Crash
  BY <1>2 DEF Exit, Crash, Dies, enrolment
<1>3. CASE \E h \in Handler : Forget(h)
  BY <1>3 DEF Forget, cycle
<1>4. CASE Begin \/ Enrolled \/ SaveEnrolled \/ Approved \/ Joined
  BY <1>4 DEF Begin, Enrolled, SaveEnrolled, Approved, Joined, Saves, enrolment
<1>5. CASE Unauthorized \/ CycleEnds \/ Again
  BY <1>5 DEF Unauthorized, CycleEnds, Again, enrolment
<1>6. QED
  BY <1>1, <1>2, <1>3, <1>4, <1>5 DEF Next, Loop, Portal, Serve, Stop, Watch, PutConfig,
     PostProject, PostReload, Write, Validate, Rename, Reload, enrolment, cycle, vars

\* So do the handlers,
LEMMA PanelTyped ==
    ASSUME TypeOK, [Next]_vars
    PROVE  req' \in [Handler -> Step] /\ content' \in [Handler -> Valid \cup {Bad}]
<1> USE DEF TypeOK, Step, Go, Valid
<1>1. CASE Exit \/ Crash
  BY <1>1 DEF Exit, Crash, Dies
<1>2. CASE \E h \in Handler : PutConfig(h) \/ PostProject(h) \/ PostReload(h)
  BY <1>2 DEF PutConfig, PostProject, PostReload
<1>3. CASE \E h \in Handler : Serve(h)
  BY <1>3 DEF Serve, Write, Validate, Rename, Forget, Reload
<1>4. QED
  BY <1>1, <1>2, <1>3 DEF Next, Loop, Portal, Start, Stop, Load, Begin, Watch, Enrolled,
     SaveEnrolled, Approved, Joined, Unauthorized, CycleEnds, Again, panel, vars

\* the flags and the bounds.
LEMMA FlagsTyped ==
    ASSUME TypeOK, [Next]_vars
    PROVE  stopping' \in BOOLEAN /\ signal' \in BOOLEAN /\ cancelled' \in BOOLEAN
<1> USE DEF TypeOK
<1>1. CASE Exit \/ Crash \/ Unauthorized \/ CycleEnds \/ Start \/ Stop
  BY <1>1 DEF Exit, Crash, Dies, Unauthorized, CycleEnds, Start, Stop
<1>2. CASE \E h \in Handler : Serve(h)
  BY <1>2 DEF Serve, Write, Validate, Rename, Forget, Reload, cycle, wake
<1>3. CASE Loop \/ Portal \/ Watch
  BY <1>3 DEF Loop, Portal, Load, Begin, Watch, Enrolled, SaveEnrolled, Approved, Joined, Again,
     cycle, wake
<1>4. QED
  BY <1>1, <1>2, <1>3 DEF Next, PutConfig, PostProject, PostReload, cycle, wake, vars

LEMMA ForgetFlag ==
    ASSUME NEW h \in Handler, Forget(h)
    PROVE  stale' \in BOOLEAN /\ torn' \in BOOLEAN
<1>1. stale' \in BOOLEAN
  BY DEF Forget
<1>2. torn' = (torn \/ (state' # None \/ node' # None))
  BY DEF Forget
<1>3. torn' \in BOOLEAN
  BY <1>2, Zenon
<1>4. QED
  BY <1>1, <1>3

LEMMA HistoryTyped ==
    ASSUME TypeOK, [Next]_vars
    PROVE  overlap' \in BOOLEAN /\ stale' \in BOOLEAN /\ torn' \in BOOLEAN
<1> USE DEF TypeOK
<1>1. CASE Exit \/ Crash
  <2>1. torn' = (torn \/ \E h \in Handler : req[h] = "forget") /\ stale' = FALSE
        /\ overlap' = overlap
    BY <1>1 DEF Exit, Crash, Dies
  <2>2. torn' \in BOOLEAN
    BY <2>1, Zenon
  <2>3. QED
    BY <2>1, <2>2
<1>2. CASE \E h \in Handler : Serve(h)
  <2>1. overlap' = overlap
    BY <1>2 DEF Serve, Write, Validate, Rename, Forget, Reload, history
  <2>2. \A h \in Handler : Serve(h) /\ ~Forget(h) => stale' = stale /\ torn' = torn
    BY DEF Serve, Write, Validate, Rename, Reload, history
  <2>3. stale' \in BOOLEAN /\ torn' \in BOOLEAN
    BY <1>2, <2>2, ForgetFlag
  <2>4. QED
    BY <2>1, <2>3
<1>3. CASE Loop \/ Portal \/ Watch
  <2>1. /\ overlap' = overlap /\ stale' \in {stale, FALSE}
        /\ torn' = torn \/ torn' = (torn \/ Late)
    BY <1>3 DEF Loop, Portal, Load, Begin, Watch, Enrolled, SaveEnrolled, Approved, Joined, Saves,
       Again, history
  <2>2. torn' \in BOOLEAN
    BY <2>1, Zenon
  <2>3. QED
    BY <2>1, <2>2
<1>4. CASE \E h \in Handler : PutConfig(h) \/ PostProject(h) \/ PostReload(h)
  BY <1>4 DEF PutConfig, PostProject, PostReload, Request
<1>5. QED
  BY <1>1, <1>2, <1>3, <1>4 DEF Next, Start, Stop, Unauthorized, CycleEnds, history, vars

LEMMA ResetsTyped ==
    ASSUME TypeOK, [Next]_vars
    PROVE  resets' \in [Handler -> BOOLEAN]
<1> USE DEF TypeOK
<1>1. CASE Exit \/ Crash
  BY <1>1 DEF Exit, Crash, Dies
<1>2. CASE \E h \in Handler : PutConfig(h) \/ PostProject(h) \/ PostReload(h)
  BY <1>2 DEF PutConfig, PostProject, PostReload
<1>3. CASE \E h \in Handler : Serve(h)
  BY <1>3 DEF Serve, Write, Validate, Rename, Forget, Reload
<1>4. QED
  BY <1>1, <1>2, <1>3 DEF Next, Loop, Portal, Start, Stop, Load, Begin, Watch, Enrolled,
     SaveEnrolled, Approved, Joined, Unauthorized, CycleEnds, Again, panel, vars

LEMMA BoundsTyped ==
    ASSUME TypeOK, [Next]_vars
    PROVE  requests' \in 0..MaxRequests /\ faults' \in 0..MaxFaults
<1>1. requests' = requests \/ (requests < MaxRequests /\ requests' = requests + 1)
  BY DEF Next, Loop, Portal, Serve, Start, Stop, Exit, Crash, Dies, Load, Begin, Watch, Enrolled,
     SaveEnrolled, Approved, Joined, Unauthorized, CycleEnds, Again, PutConfig, PostProject,
     PostReload, Request, Write, Validate, Rename, Forget, Reload, vars
<1>2. faults' = faults \/ Fault
  BY DEF Next, Loop, Portal, Serve, Start, Stop, Exit, Crash, Dies, Load, Begin, Watch, Enrolled,
     SaveEnrolled, Approved, Joined, Unauthorized, CycleEnds, Again, PutConfig, PostProject,
     PostReload, Request, Write, Validate, Rename, Forget, Reload, vars
<1>3. QED
  BY <1>1, <1>2 DEF TypeOK, Fault

LEMMA TypeStep ==
    ASSUME TypeOK, [Next]_vars
    PROVE  TypeOK'
BY FilesTyped, CycleTyped, PanelTyped, FlagsTyped, HistoryTyped, ResetsTyped, BoundsTyped
   DEF TypeOK, Step

-----------------------------------------------------------------------------
(* agent.toml. *)

\* No step that is no request's touches the files, the handlers or the overlap.
LEMMA Elsewhere ==
    ASSUME TypeOK, [Next]_vars,
           ~ \E h \in Handler : PutConfig(h) \/ PostProject(h) \/ PostReload(h) \/ Serve(h)
    PROVE  /\ file' = file /\ tmp' = tmp /\ overlap' = overlap
           /\ \A h \in Handler : req'[h] \in {req[h], "idle"}
BY DEF TypeOK, Next, Loop, Portal, Start, Stop, Exit, Crash, Dies, Load, Begin, Watch, Enrolled,
   SaveEnrolled, Approved, Joined, Unauthorized, CycleEnds, Again, files, panel, history, vars

\* A request that begins while another is under way is an overlap.
LEMMA Begins ==
    ASSUME TypeOK, Alone, NEW h \in Handler, PutConfig(h) \/ PostProject(h) \/ PostReload(h)
    PROVE  /\ file' = file /\ tmp' = tmp /\ req'[h] # "rename"
           /\ \A g \in Handler \ {h} : req'[g] = req[g]
           /\ overlap' \/ (~overlap /\ \A g \in Handler \ {h} : req[g] = "idle")
BY DEF TypeOK, PutConfig, PostProject, PostReload, Request, Go, files

\* A step of a request that is under way.
LEMMA Serves ==
    ASSUME TypeOK, NEW h \in Handler, Serve(h)
    PROVE  /\ overlap' = overlap /\ req[h] # "idle"
           /\ \A g \in Handler \ {h} : req'[g] = req[g]
           /\ req'[h] = "rename" => Loads(tmp) /\ tmp' = tmp
           /\ file' = file \/ (req[h] = "rename" /\ file' = tmp)
BY DEF TypeOK, Serve, Write, Validate, Rename, Forget, Reload, Go, files, history

LEMMA FileStep ==
    ASSUME IInv, [Next]_vars
    PROVE  Alone' /\ Checked' /\ FileLoads'
<1> USE DEF IInv, Alone, Checked, FileLoads
<1>1. CASE ~ \E h \in Handler : PutConfig(h) \/ PostProject(h) \/ PostReload(h) \/ Serve(h)
  BY <1>1, Elsewhere DEF Loads
<1>2. CASE \E h \in Handler : PutConfig(h) \/ PostProject(h) \/ PostReload(h)
  <2>1. PICK h \in Handler : PutConfig(h) \/ PostProject(h) \/ PostReload(h)
    BY <1>2
  <2>2. QED
    BY <2>1, Begins DEF Loads
<1>3. CASE \E h \in Handler : Serve(h)
  <2>1. PICK h \in Handler : Serve(h)
    BY <1>3
  <2>2. QED
    BY <2>1, Serves DEF Loads
<1>4. QED
  BY <1>1, <1>2, <1>3

LEMMA InvStep ==
    ASSUME IInv, [Next]_vars
    PROVE  IInv'
BY TypeStep, FileStep DEF IInv

-----------------------------------------------------------------------------
(* Theorems. *)

\* What is inductive.
THEOREM Invariant == Spec => []IInv
BY InitInv, InvStep, PTL DEF Spec

\* Every variable of AgentService stays in its type.
THEOREM TypeCorrect == Spec => []TypeOK
<1>1. IInv => TypeOK
  BY DEF IInv
<1>2. QED
  BY <1>1, Invariant, PTL

\* Wherever the process dies and whatever the panel is sent, agent.toml can be loaded,
\* as long as no two requests overlap.
THEOREM ConfigurationLoads == Spec => []FileLoads
<1>1. IInv => FileLoads
  BY DEF IInv
<1>2. QED
  BY <1>1, Invariant, PTL
=============================================================================

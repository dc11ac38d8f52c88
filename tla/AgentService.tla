---------------------------- MODULE AgentService ----------------------------
(***************************************************************************)
(* The agent as a service: the process and its loop of cycles, the reload  *)
(* channel, and the local panel whose requests rewrite agent.toml and      *)
(* forget the enrolment while a cycle runs. A configuration is told apart  *)
(* by its project key. What a cycle says to the portal is that of          *)
(* Enrollment, reduced here to what reads or writes the agent's files. A   *)
(* watcher of the reload channel whose cycle is over is assumed to end     *)
(* within the back-off, a second at least.                                 *)
(***************************************************************************)
EXTENDS Naturals

CONSTANTS
    Key,          \* project keys
    None,         \* no key; no enrolment
    Bad,          \* a content that config.Load refuses
    Absent,       \* no file
    Handler,      \* requests the panel's server runs at a time
    MaxRequests,  \* requests that change something
    MaxFaults     \* failed cycles, refused tokens, crashes

ASSUME ServiceAssumption ==
    /\ None \notin Key /\ Bad \notin Key \cup {None} /\ Absent \notin Key \cup {None, Bad}
    /\ MaxRequests \in Nat /\ MaxFaults \in Nat

VARIABLES
    file,      \* agent.toml
    tmp,       \* agent.toml.tmp
    state,     \* device.json: the key of the project it was enrolled with
    node,      \* tsnet/: the enrolment whose node it holds
    phase,     \* where the loop is; "dead" when there is no process
    stopping,  \* the service's context is cancelled
    conf,      \* p.cfg
    st,        \* the enrolment the cycle works with
    signal,    \* p.reload holds a request
    cancelled, \* the cycle's context is cancelled
    req,       \* per handler, what it does next
    content,   \* per handler, what it writes
    resets,    \* per handler, it forgets the enrolment afterwards
    asked,     \* the key of the last project saved, if no other file followed
    overlap,   \* two requests were under way at once
    stale,     \* the enrolment was forgotten since the cycle began
    torn,      \* a reset was cut off or failed, or such a cycle wrote its enrolment again
    requests, faults

files == <<file, tmp>>
enrolment == <<state, node>>
cycle == <<phase, stopping, conf, st>>
wake == <<signal, cancelled>>
panel == <<req, content, resets>>
history == <<asked, overlap, stale, torn>>
vars == <<file, tmp, state, node, phase, stopping, conf, st, signal, cancelled, req, content, resets,
          asked, overlap, stale, torn, requests, faults>>

Valid == Key \cup {None}
\* What Load makes of a file: one that does not exist is the default configuration.
Loads(c) == c # Bad
Loaded(c) == IF c = Absent THEN None ELSE c

Waiting == {"no-key", "enroll", "approval", "online", "backoff"}
Running == {"no-key", "enroll", "save", "approval", "join", "online"}

Init ==
    /\ file \in Valid \cup {Absent} /\ tmp = Absent
    /\ state \in {None} \cup ({file} \cap Key) /\ node = state
    /\ phase = "dead" /\ stopping = FALSE
    /\ conf = None /\ st = None /\ signal = FALSE /\ cancelled = FALSE
    /\ req = [h \in Handler |-> "idle"] /\ content = [h \in Handler |-> None]
    /\ resets = [h \in Handler |-> FALSE]
    /\ asked = None /\ overlap = FALSE /\ stale = FALSE /\ torn = FALSE
    /\ requests = 0 /\ faults = 0

Fault == faults < MaxFaults /\ faults' = faults + 1
Go(h, r) == req' = [req EXCEPT ![h] = r]

-----------------------------------------------------------------------------
(* The process. *)

\* main loads the configuration before anything else, and gives up on a bad one; the
\* service manager tries again.
Start ==
    /\ phase = "dead" /\ Loads(file)
    /\ conf' = Loaded(file) /\ phase' = "load"
    /\ signal' = FALSE /\ cancelled' = FALSE
    /\ UNCHANGED <<files, enrolment, stopping, st, panel, history, requests, faults>>

\* The service is stopped, or restarted by a detached process.
Stop ==
    /\ phase # "dead" /\ ~stopping
    /\ requests < MaxRequests /\ requests' = requests + 1
    /\ stopping' = TRUE /\ cancelled' = TRUE
    /\ UNCHANGED <<files, enrolment, phase, conf, st, signal, panel, history, faults>>

\* With the process end the loop and the handlers.
Dies ==
    /\ phase' = "dead" /\ stopping' = FALSE /\ conf' = None /\ st' = None
    /\ signal' = FALSE /\ cancelled' = FALSE
    /\ req' = [h \in Handler |-> "idle"]
    /\ content' = [h \in Handler |-> None] /\ resets' = [h \in Handler |-> FALSE]
    /\ torn' = (torn \/ \E h \in Handler : req[h] = "forget") /\ stale' = FALSE
    /\ UNCHANGED <<files, enrolment, asked, overlap, requests>>

\* p.done, or ten seconds.
Exit == stopping /\ Dies /\ UNCHANGED faults
Crash == phase # "dead" /\ Fault /\ Dies

-----------------------------------------------------------------------------
(* The loop. *)

\* Mutant: the loop reads agent.toml only once.
LoadOnce ==
    /\ phase = "load"
    /\ IF conf = None /\ Loads(file) THEN conf' = Loaded(file) ELSE UNCHANGED conf
    /\ phase' = "begin" /\ cancelled' = stopping /\ stale' = FALSE
    /\ UNCHANGED <<files, enrolment, stopping, st, signal, panel, asked, overlap, torn, requests, faults>>

\* Mutant: a file that does not load is run as it is.
LoadAny ==
    /\ phase = "load"
    /\ conf' = Loaded(file)
    /\ phase' = "begin" /\ cancelled' = stopping /\ stale' = FALSE
    /\ UNCHANGED <<files, enrolment, stopping, st, signal, panel, asked, overlap, torn, requests, faults>>

\* A cycle starts, with the file read again unless it is bad.
Load ==
    /\ phase = "load"
    /\ IF Loads(file) THEN conf' = Loaded(file) ELSE UNCHANGED conf
    /\ phase' = "begin" /\ cancelled' = stopping /\ stale' = FALSE
    /\ UNCHANGED <<files, enrolment, stopping, st, signal, panel, asked, overlap, torn, requests, faults>>

\* runOnce: an enrolment on the disk is taken up whatever the key.
Begin ==
    /\ phase = "begin"
    /\ st' = state
    /\ phase' = IF state # None THEN "approval" ELSE IF conf = None THEN "no-key" ELSE "enroll"
    /\ UNCHANGED <<files, enrolment, stopping, conf, wake, panel, history, requests, faults>>

\* The goroutine beside the cycle.
Watch ==
    /\ signal /\ phase \in Running
    /\ signal' = FALSE /\ cancelled' = TRUE
    /\ UNCHANGED <<files, enrolment, cycle, panel, history, requests, faults>>

\* The portal answers the enrolment. The answer may be there when the context ends.
Enrolled ==
    /\ phase = "enroll"
    /\ st' = conf /\ phase' = "save"
    /\ UNCHANGED <<files, enrolment, stopping, conf, wake, panel, history, requests, faults>>

\* A cycle that began before the reset goes on with what the reset forgot.
Late == stale /\ st # asked

\* SaveState writes what the cycle holds, whatever became of the file meanwhile.
Saves == state' = st /\ torn' = (torn \/ Late)

SaveEnrolled ==
    /\ phase = "save"
    /\ Saves
    /\ phase' = "approval"
    /\ UNCHANGED <<files, node, stopping, conf, st, wake, panel, asked, overlap, stale, requests, faults>>

\* An operator has approved. The control server's address is saved, if it is new and can
\* be. The cycle joins, or fails: a device that has not joined and gets no key, because
\* its earlier enrolment has used it, does so in every cycle.
Approved ==
    /\ phase = "approval" /\ ~cancelled
    /\ Saves \/ UNCHANGED <<state, torn>>
    /\ \/ phase' = "join" /\ UNCHANGED signal
       \/ phase' = "backoff" /\ \E b \in BOOLEAN : signal' = (signal /\ b)
    /\ UNCHANGED <<files, node, stopping, conf, st, cancelled, panel, asked, overlap, stale, requests, faults>>

\* tunnel.Start joins the network, with the node on the disk if there is one. A join with
\* a key is saved, if it can be.
Joined ==
    /\ phase = "join"
    /\ node' = IF node = None THEN st ELSE node
    /\ state' \in {state, st} /\ torn' = (torn \/ Late)
    /\ phase' = "online"
    /\ UNCHANGED <<files, stopping, conf, st, wake, panel, asked, overlap, stale, requests, faults>>

\* The portal refuses the token: the device was deleted. Removing device.json may fail.
Unauthorized ==
    /\ phase \in {"approval", "online"}
    /\ Fault
    /\ state' \in {None, state}
    /\ phase' = "backoff"
    /\ \E b \in BOOLEAN : signal' = (signal /\ b)
    /\ UNCHANGED <<files, node, stopping, conf, st, cancelled, panel, history, requests>>

\* runOnce returns, because it is cancelled or with an error. A request in the channel
\* may be taken by the watcher that ends.
CycleEnds ==
    /\ phase \in Running
    /\ IF cancelled /\ phase # "save" THEN UNCHANGED faults ELSE Fault
    /\ phase' = "backoff"
    /\ \E b \in BOOLEAN : signal' = (signal /\ b)
    /\ UNCHANGED <<files, enrolment, stopping, conf, st, cancelled, panel, history, requests>>

\* The back-off ends, unless the service does.
Again ==
    /\ phase = "backoff"
    /\ ~stopping
    /\ phase' = "load"
    /\ UNCHANGED <<files, enrolment, stopping, conf, st, wake, panel, history, requests, faults>>

-----------------------------------------------------------------------------
(* The panel. *)

Request(h) ==
    /\ phase # "dead" /\ req[h] = "idle"
    /\ requests < MaxRequests /\ requests' = requests + 1
    /\ overlap' = (overlap \/ \E g \in Handler : req[g] # "idle")

\* putConfig: any text.
PutConfig(h) ==
    /\ Request(h)
    /\ \E c \in Valid \cup {Bad} : content' = [content EXCEPT ![h] = c]
    /\ resets' = [resets EXCEPT ![h] = FALSE]
    /\ Go(h, "write")
    /\ UNCHANGED <<files, enrolment, cycle, wake, asked, stale, torn, faults>>

\* postProject reads the file and puts the key into it. A section that is not known, or
\* a bad value elsewhere, stays.
PostProject(h) ==
    /\ Request(h)
    /\ \E k \in Key, bad \in BOOLEAN :
         content' = [content EXCEPT ![h] = IF bad /\ file = Bad THEN Bad ELSE k]
    /\ resets' = [resets EXCEPT ![h] = TRUE]
    /\ Go(h, "write")
    /\ UNCHANGED <<files, enrolment, cycle, wake, asked, stale, torn, faults>>

\* POST /api/reload, POST /api/reset.
PostReload(h) ==
    /\ Request(h)
    /\ \E forget \in BOOLEAN : Go(h, IF forget THEN "forget" ELSE "reload")
    /\ UNCHANGED <<files, enrolment, cycle, wake, content, resets, asked, stale, torn, faults>>

\* writeConfig: the text is written beside the file, under a name all requests share,
Write(h) ==
    /\ req[h] = "write"
    /\ tmp' = content[h]
    /\ Go(h, "validate")
    /\ UNCHANGED <<file, enrolment, cycle, wake, content, resets, history, requests, faults>>

\* Mutant: it is not loaded first.
ValidateNothing(h) ==
    /\ req[h] = "validate"
    /\ Go(h, "rename")
    /\ UNCHANGED <<files, enrolment, cycle, wake, content, resets, history, requests, faults>>

\* loaded from there,
Validate(h) ==
    /\ req[h] = "validate"
    /\ IF Loads(tmp) THEN Go(h, "rename") /\ UNCHANGED tmp
       ELSE tmp' = Absent /\ Go(h, "idle")
    /\ UNCHANGED <<file, enrolment, cycle, wake, content, resets, history, requests, faults>>

\* and renamed.
Rename(h) ==
    /\ req[h] = "rename"
    /\ IF tmp = Absent THEN Go(h, "idle") /\ UNCHANGED <<files, asked>>
       ELSE /\ file' = tmp /\ tmp' = Absent
            /\ asked' = IF resets[h] /\ tmp \in Key THEN tmp ELSE None
            /\ Go(h, IF resets[h] THEN "forget" ELSE "reload")
    /\ UNCHANGED <<enrolment, cycle, wake, content, resets, overlap, stale, torn, requests, faults>>

\* Mutant: the reset forgets only the network.
ForgetNode(h) ==
    /\ req[h] = "forget"
    /\ node' = None
    /\ stale' = (phase \in Running \cup {"begin"})
    /\ Go(h, "reload")
    /\ UNCHANGED <<files, state, cycle, wake, content, resets, asked, overlap, torn, requests, faults>>

\* resetEnrollment: either removal may fail, and nobody looks.
Forget(h) ==
    /\ req[h] = "forget"
    /\ state' \in {None, state} /\ node' \in {None, node}
    /\ LET kept == state' # None \/ node' # None
       IN  torn' = (torn \/ kept) /\ IF kept THEN Fault ELSE UNCHANGED faults
    /\ stale' = (phase \in Running \cup {"begin"})
    /\ Go(h, "reload")
    /\ UNCHANGED <<files, cycle, wake, content, resets, asked, overlap, requests>>

\* Reload never blocks: one request in the channel is enough.
Reload(h) ==
    /\ req[h] = "reload"
    /\ signal' = TRUE
    /\ Go(h, "idle")
    /\ content' = [content EXCEPT ![h] = None] /\ resets' = [resets EXCEPT ![h] = FALSE]
    /\ UNCHANGED <<files, enrolment, cycle, cancelled, history, requests, faults>>

Loop == Load \/ Begin \/ SaveEnrolled \/ Again
Portal == Enrolled \/ Approved \/ Joined
Serve(h) == Write(h) \/ Validate(h) \/ Rename(h) \/ Forget(h) \/ Reload(h)

Next ==
    \/ Start \/ Stop \/ Exit \/ Crash
    \/ Loop \/ Portal \/ Watch \/ Unauthorized \/ CycleEnds
    \/ \E h \in Handler : PutConfig(h) \/ PostProject(h) \/ PostReload(h) \/ Serve(h)

Spec == Init /\ [][Next]_vars

\* The service manager starts the process again, goroutines run, the portal answers an
\* enrolment, and a cycle whose context is cancelled returns. No operator has to approve.
FairSpec ==
    /\ Spec
    /\ WF_vars(Start) /\ WF_vars(Exit)
    /\ WF_vars(Loop) /\ WF_vars(Enrolled) /\ WF_vars(Watch) /\ WF_vars(cancelled /\ CycleEnds)
    /\ \A h \in Handler : WF_vars(Serve(h))

-----------------------------------------------------------------------------
TypeOK ==
    /\ file \in Valid \cup {Bad, Absent} /\ tmp \in Valid \cup {Bad, Absent}
    /\ state \in Valid /\ node \in Valid
    /\ phase \in Running \cup {"dead", "load", "begin", "backoff"}
    /\ conf \in Valid /\ st \in Valid
    /\ stopping \in BOOLEAN /\ signal \in BOOLEAN /\ cancelled \in BOOLEAN
    /\ req \in [Handler -> {"idle", "write", "validate", "rename", "forget", "reload"}]
    /\ content \in [Handler -> Valid \cup {Bad}] /\ resets \in [Handler -> BOOLEAN]
    /\ asked \in Valid /\ overlap \in BOOLEAN /\ stale \in BOOLEAN /\ torn \in BOOLEAN
    /\ requests \in 0..MaxRequests /\ faults \in 0..MaxFaults

\* "putConfig remplace agent.toml après validation": whatever is sent and wherever the
\* process dies, agent.toml stays loadable, as long as no two requests overlap (all of
\* them write to the same agent.toml.tmp).
FileLoads == ~overlap => Loads(file)

\* What is saved ends up running: from some point on every cycle runs with the content
\* agent.toml keeps, however the request fell between the cycles and their watchers,
\* as long as no two requests overlap.
SavedRuns ==
    \A c \in Valid : <>[](file = c) => <>[](conf = c) \/ <>overlap

\* "Une nouvelle clé de projet ou un nouvel identifiant impliquent une nouvelle
\* inscription": once a project is saved and nothing else, the device ends up enrolled in
\* it and stays so, and no node but its own is left, unless the reset was cut off by the
\* end of the process or failed, or the running cycle wrote its enrolment again. Its
\* approval, and so its joining, is up to an operator and to the key that is left.
ResetHolds ==
    \A k \in Key :
        <>[](asked = k) => <>[](state = k /\ node \in {None, k}) \/ <>torn \/ <>overlap
=============================================================================

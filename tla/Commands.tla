------------------------------ MODULE Commands ------------------------------
(***************************************************************************)
(* The commands of one device, from the portal to the agent and back:      *)
(*   - RunActionWith and runAutomation queue them (scheduler.go), and so   *)
(*     does the operator (apiDeviceCommand);                               *)
(*   - handleHeartbeat hands the queued ones over and marks them sent,     *)
(*     handleCommandResult records what the agent reports (agentapi.go);   *)
(*   - the agent runs each in a goroutine, runCommand (main.go).           *)
(* A handler is split where another handler's SQL can come between two of  *)
(* its own.  The device stays enrolled: Enrollment models the rest.        *)
(***************************************************************************)
EXTENDS Naturals, FiniteSets

CONSTANTS
    MaxCmd,      \* commands queued in a behaviour
    BatchLimit,  \* commands a heartbeat hands over at most (LIMIT 20)
    Kind,        \* kinds of command an operator may ask for
    Slot,        \* agent calls the hub can be running at once
    Runner,      \* executions of the action the hub can be running at once
    None,
    MaxFaults    \* losses, time-outs, crashes and failed writes in a behaviour

ASSUME CmdAssumption == MaxCmd \in Nat
ASSUME LimitAssumption == BatchLimit \in Nat \ {0}
\* A probe and a scan are handled as an http_request is.
ASSUME KindAssumption == Kind \subseteq {"http", "update", "restart"}
ASSUME BoundAssumption == MaxFaults \in Nat
ASSUME NoSlotAssumption == None \notin Slot

VARIABLES
    count,      \* commands inserted so far: ids follow insertion
    status,     \* commands.status, "absent" before the insertion
    kind,       \* commands.kind
    origin,     \* what the command comes from
    approved,   \* the device's row says approved
    last,       \* last_result of the action and of the automation
    runner,     \* per execution, the step of RunActionWith
    calls,      \* per slot, the call the hub is running or has answered
    up,         \* the agent's heartbeat loop runs
    waiting,    \* the heartbeat the loop is waiting for
    jobs,       \* goroutines running commands
    restarting, \* a restart of the service has been spawned
    runs,       \* history: how many times a command was started
    unmarked,   \* history: commands whose UPDATE to sent failed
    faults

hubVars   == <<count, status, kind, origin, last, runner>>
agentVars == <<up, waiting, jobs, restarting, runs>>
vars == <<count, status, kind, origin, approved, last, runner, calls, up, waiting,
          jobs, restarting, runs, unmarked, faults>>

Cmd == 1..MaxCmd
Origin == {"manual", "action", "automation"}
Finished(c) == status[c] \in {"done", "failed"}

\* A last_result: nothing yet, a refusal, "en file" or the result of a command.
Text == [about : {"nothing", "error", "queued", "result"}, cmd : Cmd \cup {0}]
Blank == [about |-> "nothing", cmd |-> 0]

\* An execution of the action, alone or for the automation.
Run == [op : {"none", "action", "automation"}, at : {"queue", "write", "automation"},
        text : Text]
NoRun == [op |-> "none", at |-> "queue", text |-> Blank]

\* A heartbeat: the status the hub read, the commands it hands over, those it has
\* still to mark.  A result: the command and how it went.
Call == [op : {"none", "heartbeat", "result"},
         at : {"sent", "select", "mark", "action", "automation", "done"},
         approved : BOOLEAN, batch : SUBSET Cmd, left : SUBSET Cmd,
         cmd : Cmd \cup {0}, ok : BOOLEAN]
NoCall == [op |-> "none", at |-> "done", approved |-> FALSE, batch |-> {}, left |-> {},
           cmd |-> 0, ok |-> FALSE]

\* A goroutine of runCommand: which start of the command it is, and the call that
\* reports its result.
Job == [cmd : Cmd, turn : Nat, slot : Slot \cup {None}]

Fault == faults < MaxFaults /\ faults' = faults + 1

Init ==
    /\ count = 0
    /\ status = [c \in Cmd |-> "absent"]
    /\ kind = [c \in Cmd |-> "http"] /\ origin = [c \in Cmd |-> "manual"]
    /\ approved = TRUE
    /\ last = [o \in {"action", "automation"} |-> Blank]
    /\ runner = [r \in Runner |-> NoRun]
    /\ calls = [s \in Slot |-> NoCall]
    /\ up = TRUE /\ waiting = None /\ jobs = {} /\ restarting = FALSE
    /\ runs = [c \in Cmd |-> 0] /\ unmarked = {} /\ faults = 0

-----------------------------------------------------------------------------
(* The portal's side. *)

\* queueCommand
Insert(k, o) ==
    /\ count < MaxCmd
    /\ count' = count + 1
    /\ status' = [status EXCEPT ![count'] = "queued"]
    /\ kind' = [kind EXCEPT ![count'] = k]
    /\ origin' = [origin EXCEPT ![count'] = o]

\* apiDeviceCommand asks for no approval.
Manual ==
    /\ \E k \in Kind : Insert(k, "manual")
    /\ UNCHANGED <<approved, last, runner, calls, agentVars, unmarked, faults>>

\* RunActionWith refuses a device that is not approved, and a request whose variables
\* do not resolve; what it has read of the device it does not read again.
RunStart(r) ==
    /\ runner[r].op = "none"
    /\ \E op \in {"action", "automation"}, refused \in BOOLEAN :
        /\ refused \/ (approved /\ count < MaxCmd)
        /\ runner' = [runner EXCEPT ![r] =
            [op |-> op, at |-> IF refused THEN "write" ELSE "queue",
             text |-> [Blank EXCEPT !.about = IF refused THEN "error" ELSE "nothing"]]]
    /\ UNCHANGED <<count, status, kind, origin, last, approved, calls, agentVars,
                   unmarked, faults>>

RunQueue(r) ==
    /\ runner[r].op # "none" /\ runner[r].at = "queue"
    /\ Insert("http", runner[r].op)
    /\ runner' = [runner EXCEPT ![r] = [@ EXCEPT !.at = "write",
                    !.text = [about |-> "queued", cmd |-> count']]]
    /\ UNCHANGED <<last, approved, calls, agentVars, unmarked, faults>>

\* It writes its own text over what the action's last_result is by now.
RunWrite(r) ==
    /\ runner[r].op # "none" /\ runner[r].at = "write"
    /\ last' = [last EXCEPT !["action"] = runner[r].text]
    /\ runner' = [runner EXCEPT ![r] = IF @.op = "automation"
                                       THEN [@ EXCEPT !.at = "automation"] ELSE NoRun]
    /\ UNCHANGED <<count, status, kind, origin, approved, calls, agentVars, unmarked, faults>>

\* runAutomation does the same to the automation's.
RunAutomation(r) ==
    /\ runner[r].op # "none" /\ runner[r].at = "automation"
    /\ last' = [last EXCEPT !["automation"] = runner[r].text]
    /\ runner' = [runner EXCEPT ![r] = NoRun]
    /\ UNCHANGED <<count, status, kind, origin, approved, calls, agentVars, unmarked, faults>>

\* An operator approves or bars the device (Enrollment).
Decide ==
    /\ approved' = ~approved
    /\ UNCHANGED <<hubVars, calls, agentVars, unmarked, faults>>

RunnerStep(r) == RunQueue(r) \/ RunWrite(r) \/ RunAutomation(r)

-----------------------------------------------------------------------------
(* The hub's handlers for the agent. *)

Awaited(s) == waiting = s \/ \E j \in jobs : j.slot = s
Answer(s, c) ==
    calls' = [calls EXCEPT ![s] = IF Awaited(s) THEN [c EXCEPT !.at = "done"] ELSE NoCall]

\* handleHeartbeat: deviceFromRequest and the UPDATE of the heartbeat.
BeatRead(s) ==
    /\ calls[s].op = "heartbeat" /\ calls[s].at = "sent"
    /\ calls' = [calls EXCEPT ![s] = [@ EXCEPT !.at = "select", !.approved = approved]]
    /\ UNCHANGED <<hubVars, approved, agentVars, unmarked, faults>>

\* The oldest queued commands, BatchLimit of them: SELECT ... ORDER BY id LIMIT 20.
Queued == {c \in Cmd : status[c] = "queued"}
Oldest(set) == {c \in set : Cardinality({d \in set : d < c}) < BatchLimit}

\* Mutant: sent commands are handed over again until they are finished.
BeatSelectUnfinished(s) ==
    /\ calls[s].op = "heartbeat" /\ calls[s].at = "select"
    /\ LET batch == IF calls[s].approved
                    THEN Oldest({c \in Cmd : status[c] \in {"queued", "sent"}}) ELSE {}
       IN calls' = [calls EXCEPT ![s] = [@ EXCEPT !.at = "mark", !.batch = batch, !.left = batch]]
    /\ UNCHANGED <<hubVars, approved, agentVars, unmarked, faults>>

\* Mutant: the query has no ORDER BY.
BeatSelectUnordered(s) ==
    /\ calls[s].op = "heartbeat" /\ calls[s].at = "select"
    /\ \E batch \in {b \in SUBSET Queued : Cardinality(b) <= BatchLimit} :
        /\ calls[s].approved \/ batch = {}
        /\ calls' = [calls EXCEPT ![s] = [@ EXCEPT !.at = "mark", !.batch = batch, !.left = batch]]
    /\ UNCHANGED <<hubVars, approved, agentVars, unmarked, faults>>

\* Mutant: nothing is handed over while a command is under way.
BeatSelectAlone(s) ==
    /\ calls[s].op = "heartbeat" /\ calls[s].at = "select"
    /\ LET busy == \E c \in Cmd : status[c] = "sent"
           batch == IF calls[s].approved /\ ~busy THEN Oldest(Queued) ELSE {}
       IN calls' = [calls EXCEPT ![s] = [@ EXCEPT !.at = "mark", !.batch = batch, !.left = batch]]
    /\ UNCHANGED <<hubVars, approved, agentVars, unmarked, faults>>

BeatSelect(s) ==
    /\ calls[s].op = "heartbeat" /\ calls[s].at = "select"
    /\ LET batch == IF calls[s].approved THEN Oldest(Queued) ELSE {}
       IN calls' = [calls EXCEPT ![s] = [@ EXCEPT !.at = "mark", !.batch = batch, !.left = batch]]
    /\ UNCHANGED <<hubVars, approved, agentVars, unmarked, faults>>


\* An UPDATE to sent per command, whatever the command has become.
First(s, c) == c \in calls[s].left /\ \A d \in calls[s].left : c <= d
Mark(s) == calls[s].op = "heartbeat" /\ calls[s].at = "mark"

BeatMark(s) ==
    /\ Mark(s)
    /\ \E c \in Cmd :
        /\ First(s, c)
        /\ status' = [status EXCEPT ![c] = "sent"]
        /\ calls' = [calls EXCEPT ![s].left = @ \ {c}]
    /\ UNCHANGED <<count, kind, origin, last, runner, approved, agentVars, unmarked, faults>>

\* Its error is not looked at.
BeatMarkFails(s) ==
    /\ Mark(s) /\ Fault
    /\ \E c \in Cmd :
        /\ First(s, c)
        /\ unmarked' = unmarked \cup {c}
        /\ calls' = [calls EXCEPT ![s].left = @ \ {c}]
    /\ UNCHANGED <<hubVars, approved, agentVars>>

\* Mutant: the answer goes out before the commands are marked.
BeatAnswerUnmarked(s) ==
    /\ Mark(s)
    /\ Answer(s, calls[s])
    /\ UNCHANGED <<hubVars, approved, agentVars, unmarked, faults>>

BeatAnswer(s) ==
    /\ Mark(s) /\ calls[s].left = {}
    /\ Answer(s, calls[s])
    /\ UNCHANGED <<hubVars, approved, agentVars, unmarked, faults>>

\* handleCommandResult: the command, then its action, then its automation.
\* Mutant: an error is stored as the status.
ResultUpdateError(s) ==
    /\ calls[s].op = "result" /\ calls[s].at = "sent"
    /\ status' = [status EXCEPT ![calls[s].cmd] = IF calls[s].ok THEN "done" ELSE "error"]
    /\ calls' = [calls EXCEPT ![s].at = "action"]
    /\ UNCHANGED <<count, kind, origin, last, runner, approved, agentVars, unmarked, faults>>

ResultUpdate(s) ==
    /\ calls[s].op = "result" /\ calls[s].at = "sent"
    /\ status' = [status EXCEPT ![calls[s].cmd] = IF calls[s].ok THEN "done" ELSE "failed"]
    /\ calls' = [calls EXCEPT ![s].at = "action"]
    /\ UNCHANGED <<count, kind, origin, last, runner, approved, agentVars, unmarked, faults>>

Result(c) == [about |-> "result", cmd |-> c]

ResultAction(s) ==
    /\ calls[s].op = "result" /\ calls[s].at = "action"
    /\ LET c == calls[s].cmd IN
        last' = IF origin[c] = "manual" THEN last ELSE [last EXCEPT !["action"] = Result(c)]
    /\ calls' = [calls EXCEPT ![s].at = "automation"]
    /\ UNCHANGED <<count, status, kind, origin, runner, approved, agentVars, unmarked, faults>>

ResultAutomation(s) ==
    /\ calls[s].op = "result" /\ calls[s].at = "automation"
    /\ LET c == calls[s].cmd IN
        last' = IF origin[c] = "automation" THEN [last EXCEPT !["automation"] = Result(c)] ELSE last
    /\ Answer(s, calls[s])
    /\ UNCHANGED <<count, status, kind, origin, runner, approved, agentVars, unmarked, faults>>

HubStep(s) ==
    \/ BeatRead(s) \/ BeatSelect(s) \/ BeatMark(s) \/ BeatAnswer(s)
    \/ ResultUpdate(s) \/ ResultAction(s) \/ ResultAutomation(s)

-----------------------------------------------------------------------------
(* The agent. *)

\* The cycle reaches its heartbeat loop once the hub says approved (Enrollment).
Up ==
    /\ ~up /\ approved
    /\ up' = TRUE
    /\ UNCHANGED <<hubVars, approved, calls, waiting, jobs, restarting, runs, unmarked, faults>>

Beat ==
    /\ up /\ waiting = None
    /\ \E s \in Slot :
        /\ calls[s].op = "none"
        /\ calls' = [calls EXCEPT ![s] = [NoCall EXCEPT !.op = "heartbeat", !.at = "sent"]]
        /\ waiting' = s
    /\ UNCHANGED <<hubVars, approved, up, jobs, restarting, runs, unmarked, faults>>

\* The cycle's context is cancelled: no goroutine can report any more.  One that
\* runs a restart goes on to spawn it.
Cancelled(again) ==
    /\ up' = FALSE /\ waiting' = None /\ jobs' = {}
    /\ restarting' = again
    /\ calls' = [s \in Slot |-> IF calls[s].at = "done" THEN NoCall ELSE calls[s]]
RestartJob == \E j \in jobs : kind[j.cmd] = "restart"

\* The answer to the heartbeat: each command gets a goroutine, or the cycle ends.
BeatReply ==
    /\ waiting # None /\ calls[waiting].at = "done"
    /\ LET c == calls[waiting] IN
        IF c.approved
        THEN /\ jobs' = jobs \cup {[cmd |-> d, turn |-> runs[d] + 1, slot |-> None] : d \in c.batch}
             /\ runs' = [d \in Cmd |-> IF d \in c.batch THEN runs[d] + 1 ELSE runs[d]]
             /\ waiting' = None
             /\ calls' = [calls EXCEPT ![waiting] = NoCall]
             /\ UNCHANGED <<up, restarting>>
        ELSE Cancelled(restarting \/ RestartJob) /\ UNCHANGED runs
    /\ UNCHANGED <<hubVars, approved, unmarked, faults>>

\* runCommand: a command has run, and reports.  An update that was installed has
\* spawned the restart of the service before that; a restart reports first.
Report(j) ==
    /\ j.slot = None
    /\ \E s \in Slot, ok \in BOOLEAN :
        /\ calls[s].op = "none"
        /\ kind[j.cmd] = "restart" => ok
        /\ calls' = [calls EXCEPT ![s] = [NoCall EXCEPT !.op = "result", !.at = "sent",
                                            !.cmd = j.cmd, !.ok = ok]]
        /\ jobs' = (jobs \ {j}) \cup {[j EXCEPT !.slot = s]}
        /\ \/ UNCHANGED restarting
           \/ kind[j.cmd] = "update" /\ ok /\ restarting' = TRUE
    /\ UNCHANGED <<hubVars, approved, up, waiting, runs, unmarked, faults>>

\* The call of slot s is over for the agent, answered or not; its error is logged.
Over(s) ==
    /\ waiting' = IF waiting = s THEN None ELSE waiting
    /\ jobs' = {j \in jobs : j.slot # s}
    /\ restarting' = (restarting \/ \E j \in jobs : j.slot = s /\ kind[j.cmd] = "restart")

ReportEnd(j) ==
    /\ j.slot # None /\ calls[j.slot].at = "done"
    /\ Over(j.slot)
    /\ calls' = [calls EXCEPT ![j.slot] = NoCall]
    /\ UNCHANGED <<hubVars, approved, up, runs, unmarked, faults>>

\* The restart that was spawned stops the service and starts it again.
ServiceRestart ==
    /\ restarting
    /\ Cancelled(FALSE)
    /\ UNCHANGED <<hubVars, approved, runs, unmarked, faults>>

-----------------------------------------------------------------------------
(* The environment. *)

\* A request that does not reach the hub, or an answer the agent does not get.
Lose(s) ==
    /\ calls[s].op # "none" /\ calls[s].at \in {"sent", "done"} /\ Fault
    /\ Over(s)
    /\ calls' = [calls EXCEPT ![s] = NoCall]
    /\ UNCHANGED <<hubVars, approved, up, runs, unmarked>>

\* The agent stops waiting (20 s for a heartbeat) while the hub goes on.
TimeOut(s) ==
    /\ Awaited(s) /\ calls[s].at # "done" /\ Fault
    /\ Over(s)
    /\ UNCHANGED <<hubVars, approved, calls, up, runs, unmarked>>

\* A reload of the configuration ends the cycle; a crash takes the process down.
CycleEnd ==
    /\ up /\ Fault
    /\ Cancelled(restarting \/ RestartJob) \/ Cancelled(FALSE)
    /\ UNCHANGED <<hubVars, approved, runs, unmarked>>

\* The hub stops: its handlers end where they are, its callers get an error.
HubCrash ==
    /\ Fault
    /\ calls' = [s \in Slot |-> NoCall]
    /\ runner' = [r \in Runner |-> NoRun]
    /\ waiting' = None /\ jobs' = {j \in jobs : j.slot = None}
    /\ restarting' = (restarting \/ \E j \in jobs : j.slot # None /\ kind[j.cmd] = "restart")
    /\ UNCHANGED <<count, status, kind, origin, last, approved, up, runs, unmarked>>

Next ==
    \/ Manual \/ Decide
    \/ \E r \in Runner : RunStart(r) \/ RunnerStep(r)
    \/ \E s \in Slot : HubStep(s) \/ BeatMarkFails(s) \/ Lose(s) \/ TimeOut(s)
    \/ Up \/ Beat \/ BeatReply \/ ServiceRestart
    \/ \E j \in jobs : Report(j) \/ ReportEnd(j)
    \/ CycleEnd \/ HubCrash

Spec == Init /\ [][Next]_vars

\* Handlers end; the agent's loop and its goroutines go on.
Reporting(c) == \E j \in jobs : j.cmd = c /\ (Report(j) \/ ReportEnd(j))
FairSpec ==
    /\ Spec
    /\ \A s \in Slot : WF_vars(HubStep(s))
    /\ \A r \in Runner : WF_vars(RunnerStep(r))
    /\ WF_vars(Up) /\ WF_vars(Beat) /\ WF_vars(BeatReply) /\ WF_vars(ServiceRestart)
    /\ \A c \in Cmd : WF_vars(Reporting(c))

-----------------------------------------------------------------------------
(* Properties. *)

TypeOK ==
    /\ count \in 0..MaxCmd
    /\ status \in [Cmd -> {"absent", "queued", "sent", "done", "failed"}]
    /\ kind \in [Cmd -> Kind \cup {"http"}] /\ origin \in [Cmd -> Origin]
    /\ approved \in BOOLEAN
    /\ last \in [{"action", "automation"} -> Text]
    /\ runner \in [Runner -> Run]
    /\ calls \in [Slot -> Call]
    /\ up \in BOOLEAN /\ waiting \in Slot \cup {None}
    /\ jobs \subseteq Job
    /\ restarting \in BOOLEAN
    /\ runs \in [Cmd -> Nat] /\ unmarked \subseteq Cmd
    /\ faults \in 0..MaxFaults

\* A command is started at most once, whatever is lost, late or restarted: the
\* heartbeat marks it sent before it answers, and the loop waits for one heartbeat
\* at a time.  Only an UPDATE to sent that failed lets it run again.
AtMostOnce == \A c \in Cmd : runs[c] <= 1 \/ c \in unmarked

\* Two heartbeats in flight hand commands over oldest first all the same.
InOrder ==
    [][\A c, d \in Cmd : /\ d < c /\ status[d] = "queued" /\ d \notin unmarked
                         /\ status[c] = "queued"
         => status'[c] # "sent"]_status

\* A command that ended stays ended, except for the late UPDATE of a heartbeat
\* that the agent no longer waits for (or when an UPDATE to sent has failed).
FinalUnlessAbandoned ==
    [][\A c \in Cmd \ unmarked : Finished(c) /\ status'[c] = "sent" =>
         \E s \in Slot : s # waiting /\ calls[s].op = "heartbeat" /\ c \in calls[s].left]_status

\* While the device is approved a queued command leaves the queue: no lost answer
\* and no command that never reports can hold the queue up.
QueueDrains ==
    \A c \in Cmd : status[c] = "queued" ~> status[c] # "queued" \/ ~approved

-----------------------------------------------------------------------------
(* The inductive invariant behind AtMostOnce. *)

HandedOver(c) == status[c] \in {"sent", "done", "failed"}

\* Ids follow insertion: what is not inserted has no status, and nobody speaks of it.
Inserted ==
    /\ \A c \in Cmd : status[c] # "absent" => c <= count
    /\ \A s \in Slot : calls[s].batch \cup calls[s].left \cup {calls[s].cmd} \subseteq 0..count
    /\ \A j \in jobs : j.cmd <= count

\* A command started, or marked by a heartbeat, cannot be selected again.
StartedMarked == \A c \in Cmd \ unmarked : runs[c] <= 1 /\ (runs[c] > 0 => HandedOver(c))
BatchMarked ==
    \A s \in Slot :
        /\ \A c \in calls[s].batch \ (calls[s].left \cup unmarked) : HandedOver(c)
        /\ calls[s].at # "mark" => calls[s].left = {}

\* What the awaited heartbeat hands over has never been started.
BatchFresh == waiting # None => \A c \in calls[waiting].batch \ unmarked : runs[c] = 0

HandOver == TypeOK /\ Inserted /\ StartedMarked /\ BatchMarked /\ BatchFresh
=============================================================================

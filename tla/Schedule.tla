------------------------------ MODULE Schedule ------------------------------
(***************************************************************************)
(* The automations of one project, the actions they run, and the cron      *)
(* instance of the scheduler that follows them: the operators' handlers of *)
(* portal.go and Scheduler.Reload of scheduler.go, one step per statement. *)
(* What a due entry runs is in Commands.  The project is deleted at most   *)
(* once and not created again.                                             *)
(***************************************************************************)
EXTENDS Naturals, FiniteSetsExt

CONSTANTS
    MaxAuto,    \* the largest row identifier an automation gets
    MaxAction,  \* the largest row identifier an action gets
    Cron,       \* cron expressions
    Req,        \* operator requests the hub can be running at once
    None,       \* no expression, no request
    MaxFaults   \* statements that fail in a behaviour

ASSUME ScheduleAssumption ==
    /\ MaxAuto \in Nat /\ MaxAction \in Nat /\ MaxFaults \in Nat
    /\ None \notin Cron \cup Req

VARIABLES
    project,    \* the project's row exists
    autos,      \* the rows of automations
    actions,    \* the row identifiers of actions
    entries,    \* entries of the running cron instance: automation and expression
    lock,       \* the request that holds the scheduler's mutex
    req,        \* per request, the handler in progress
    lost,       \* history: the last Reload could not read the project or the automations
    overlapped, \* history: two requests were once in progress together
    faults

rows == <<project, autos, actions>>
cron == <<entries, lock, lost>>
vars == <<project, autos, actions, entries, lock, req, lost, overlapped, faults>>

AutoId == 1..MaxAuto
ActionId == 1..MaxAction
Entry == AutoId \X Cron

NoAuto == [exists |-> FALSE, enabled |-> FALSE, cron |-> None, action |-> 0]
AutoRow == {NoAuto} \cup [exists : {TRUE}, enabled : BOOLEAN, cron : Cron, action : ActionId]

\* A handler: what it does, its next statement, the row it is about, the automation
\* it was given, and the entries Reload is about to start.
Op == {"save", "update", "delete", "deleteAction", "settings", "deleteProject"}
Place == {"find", "check", "write", "drop", "actions", "project", "reload", "list", "start"}
NoRequest == [op |-> "none", at |-> "find", id |-> 0, new |-> NoAuto, entries |-> {}]
Request == {NoRequest} \cup
    [op : Op, at : Place, id : AutoId \cup ActionId \cup {0}, new : AutoRow, entries : SUBSET Entry]

\* A row identifier follows the largest in use: that of a deleted row may come back.
NextId(ids) == 1 + Max(ids \cup {0})
Rows == {a \in AutoId : autos[a].exists}

\* The entries of the enabled automations.
Due == {<<a, autos[a].cron>> : a \in {b \in Rows : autos[b].enabled}}

Init ==
    /\ project = TRUE
    /\ autos = [a \in AutoId |-> NoAuto]
    /\ actions = {}
    /\ entries = {} /\ lock = None
    /\ req = [q \in Req |-> NoRequest]
    /\ lost = FALSE /\ overlapped = FALSE /\ faults = 0

-----------------------------------------------------------------------------
(* The operators' requests. *)

At(q, op, at) == req[q].op = op /\ req[q].at = at
Go(q, at) == req' = [req EXCEPT ![q].at = at]
End(q) == req' = [req EXCEPT ![q] = NoRequest]

Asked(q, op, at, id, new) ==
    req' = [req EXCEPT ![q] = [op |-> op, at |-> at, id |-> id, new |-> new, entries |-> {}]]

\* What an operator may ask for; withProject refuses what concerns a deleted project.
Ask(q) ==
    \/ \E e \in BOOLEAN, c \in Cron, x \in ActionId :
        LET new == [exists |-> TRUE, enabled |-> e, cron |-> c, action |-> x] IN
        \/ project /\ Asked(q, "save", "check", 0, new)
        \/ \E a \in AutoId : Asked(q, "update", "find", a, new)
    \/ \E a \in AutoId : Asked(q, "delete", "find", a, NoAuto)
    \/ \E x \in ActionId : Asked(q, "deleteAction", "check", x, NoAuto)
    \/ project /\ Asked(q, "settings", "write", 0, NoAuto)
    \/ project /\ Asked(q, "deleteProject", "write", 0, NoAuto)

Begin(q) ==
    /\ req[q].op = "none"
    /\ Ask(q)
    /\ overlapped' = (overlapped \/ \E r \in Req \ {q} : req[r].op # "none")
    /\ UNCHANGED <<rows, cron, faults>>

\* apiSaveAction
SaveAction ==
    /\ project
    /\ NextId(actions) \in ActionId
    /\ actions' = actions \cup {NextId(actions)}
    /\ UNCHANGED <<project, autos, cron, req, overlapped, faults>>

\* apiUpdateAutomation and apiDeleteAutomation look the automation's project up; the
\* deletion of an automation that is not there goes on, with no project.
Find(q) ==
    /\ req[q].op \in {"update", "delete"} /\ req[q].at = "find"
    /\ \/ req[q].id \in Rows /\ Go(q, IF req[q].op = "update" THEN "check" ELSE "write")
       \/ req[q].id \notin Rows /\ req[q].op = "update" /\ End(q)
       \/ req[q].id \notin Rows /\ req[q].op = "delete" /\ Go(q, "drop")
    /\ UNCHANGED <<rows, cron, overlapped, faults>>

\* validateAutomation: the action is one of the project.
Validate(q) ==
    /\ req[q].op \in {"save", "update"} /\ req[q].at = "check"
    /\ IF req[q].new.action \in actions THEN Go(q, "write") ELSE End(q)
    /\ UNCHANGED <<rows, cron, overlapped, faults>>

SaveWrite(q) ==
    /\ At(q, "save", "write")
    /\ NextId(Rows) \in AutoId
    /\ autos' = [autos EXCEPT ![NextId(Rows)] = req[q].new]
    /\ Go(q, "reload")
    /\ UNCHANGED <<project, actions, cron, overlapped, faults>>

\* Mutant: an update does not reload the scheduler.
UpdateWriteOnly(q) ==
    /\ At(q, "update", "write")
    /\ autos' = IF req[q].id \in Rows THEN [autos EXCEPT ![req[q].id] = req[q].new] ELSE autos
    /\ End(q)
    /\ UNCHANGED <<project, actions, cron, overlapped, faults>>

UpdateWrite(q) ==
    /\ At(q, "update", "write")
    /\ autos' = IF req[q].id \in Rows THEN [autos EXCEPT ![req[q].id] = req[q].new] ELSE autos
    /\ Go(q, "reload")
    /\ UNCHANGED <<project, actions, cron, overlapped, faults>>

\* Without a project there is nothing to reload.
DeleteWrite(q) ==
    /\ req[q].op = "delete" /\ req[q].at \in {"write", "drop"}
    /\ autos' = [autos EXCEPT ![req[q].id] = NoAuto]
    /\ IF req[q].at = "drop" THEN End(q) ELSE Go(q, "reload")
    /\ UNCHANGED <<project, actions, cron, overlapped, faults>>

\* apiDeleteAction counts the automations that use the action, then deletes it.
Using(x) == {a \in Rows : autos[a].action = x}

\* Mutant: only enabled automations count.
CountUsesEnabled(q) ==
    /\ At(q, "deleteAction", "check")
    /\ IF \A a \in Using(req[q].id) : ~autos[a].enabled THEN Go(q, "write") ELSE End(q)
    /\ UNCHANGED <<rows, cron, overlapped, faults>>

CountUses(q) ==
    /\ At(q, "deleteAction", "check")
    /\ IF Using(req[q].id) = {} THEN Go(q, "write") ELSE End(q)
    /\ UNCHANGED <<rows, cron, overlapped, faults>>

DeleteAction(q) ==
    /\ At(q, "deleteAction", "write")
    /\ actions' = actions \ {req[q].id}
    /\ End(q)
    /\ UNCHANGED <<project, autos, cron, overlapped, faults>>

\* apiUpdateProject: the time zone, then the scheduler.
Settings(q) ==
    /\ At(q, "settings", "write")
    /\ Go(q, "reload")
    /\ UNCHANGED <<rows, cron, overlapped, faults>>

\* apiDeleteProject: the automations, the actions, the project, then the scheduler.
PurgeAutos(q) ==
    /\ At(q, "deleteProject", "write")
    /\ autos' = [a \in AutoId |-> NoAuto]
    /\ Go(q, "actions")
    /\ UNCHANGED <<project, actions, cron, overlapped, faults>>

PurgeActions(q) ==
    /\ At(q, "deleteProject", "actions")
    /\ actions' = {}
    /\ Go(q, "project")
    /\ UNCHANGED <<project, autos, cron, overlapped, faults>>

PurgeProject(q) ==
    /\ At(q, "deleteProject", "project")
    /\ project' = FALSE
    /\ Go(q, "reload")
    /\ UNCHANGED <<autos, actions, cron, overlapped, faults>>

Fail == faults < MaxFaults /\ faults' = faults + 1

\* A failed look-up of apiUpdateAutomation or of the action refuses the request; every
\* other error is dropped, and the handler goes on.
StatementFails(q) ==
    /\ Fail
    /\ \/ req[q].op \in {"save", "update"} /\ req[q].at \in {"find", "check"} /\ End(q)
       \/ At(q, "delete", "find") /\ Go(q, "drop")
       \/ req[q].op \in {"save", "update", "delete", "settings"} /\ req[q].at = "write" /\ Go(q, "reload")
       \/ At(q, "delete", "drop") /\ End(q)
       \/ At(q, "deleteAction", "check") /\ Go(q, "write")
       \/ At(q, "deleteAction", "write") /\ End(q)
       \/ At(q, "deleteProject", "write") /\ Go(q, "actions")
       \/ At(q, "deleteProject", "actions") /\ Go(q, "project")
       \/ At(q, "deleteProject", "project") /\ Go(q, "reload")
    /\ UNCHANGED <<rows, cron, overlapped>>

-----------------------------------------------------------------------------
(* Scheduler.Reload, under its mutex. *)

\* Mutant: the mutex is not taken.
LockNever(q) ==
    /\ req[q].at = "reload"
    /\ entries' = {}
    /\ IF project THEN lock' = q /\ Go(q, "list") ELSE lock' = None /\ End(q)
    /\ UNCHANGED <<rows, lost, overlapped, faults>>

\* The cron instance is stopped, the project is read.
Lock(q) ==
    /\ req[q].at = "reload"
    /\ lock = None
    /\ entries' = {}
    /\ IF project THEN lock' = q /\ Go(q, "list") ELSE lock' = None /\ End(q)
    /\ UNCHANGED <<rows, lost, overlapped, faults>>

List(q) ==
    /\ req[q].at = "list"
    /\ req' = [req EXCEPT ![q].at = "start", ![q].entries = Due]
    /\ lost' = FALSE
    /\ UNCHANGED <<rows, entries, lock, overlapped, faults>>

\* Without the project there is no cron instance; the error of listAutomations is
\* dropped, and the instance has no entry.
ReadFails(q) ==
    /\ Fail
    /\ lost' = TRUE
    /\ \/ req[q].at = "reload" /\ lock = None /\ entries' = {} /\ End(q)
       \/ req[q].at = "list" /\ Go(q, "start") /\ UNCHANGED entries
    /\ UNCHANGED <<rows, lock, overlapped>>

Start(q) ==
    /\ req[q].at = "start"
    /\ entries' = req[q].entries
    /\ lock' = None
    /\ End(q)
    /\ UNCHANGED <<rows, lost, overlapped, faults>>

\* The hub restarts: no request is left, ReloadAll runs before the server listens.
Restart ==
    /\ req' = [q \in Req |-> NoRequest]
    /\ lock' = None
    /\ \/ entries' = (IF project THEN Due ELSE {}) /\ lost' = FALSE /\ UNCHANGED faults
       \/ Fail /\ entries' = {} /\ lost' = TRUE
    /\ UNCHANGED <<rows, overlapped>>

Handle(q) ==
    \/ Find(q) \/ Validate(q) \/ SaveWrite(q) \/ UpdateWrite(q) \/ DeleteWrite(q)
    \/ CountUses(q) \/ DeleteAction(q) \/ Settings(q)
    \/ PurgeAutos(q) \/ PurgeActions(q) \/ PurgeProject(q)
Reload(q) == Lock(q) \/ List(q) \/ Start(q)

Next ==
    \/ \E q \in Req : Begin(q) \/ Handle(q) \/ Reload(q) \/ StatementFails(q) \/ ReadFails(q)
    \/ SaveAction \/ Restart

Spec == Init /\ [][Next]_vars

\* Handlers go on, and the mutex is fair.
FairSpec == Spec /\ \A q \in Req : WF_vars(Handle(q) \/ List(q) \/ Start(q)) /\ SF_vars(Lock(q))

-----------------------------------------------------------------------------
(* Properties. *)

\* The types; and the request between the first and the last statement of Reload is
\* the one that holds the mutex.
TypeOK ==
    /\ project \in BOOLEAN
    /\ autos \in [AutoId -> AutoRow]
    /\ actions \subseteq ActionId
    /\ entries \subseteq Entry
    /\ lock \in Req \cup {None}
    /\ req \in [Req -> Request]
    /\ lost \in BOOLEAN /\ overlapped \in BOOLEAN /\ faults \in 0..MaxFaults
    /\ \A q \in Req : req[q].at \in {"list", "start"} <=> lock = q

\* These entries follow the table: each enabled automation has its entry, and no entry
\* is of an automation that is disabled or was rescheduled.  (That of a row that is
\* gone starts nothing.)
Current(found) ==
    /\ Due \subseteq found
    /\ \A e \in found : e[1] \in Rows => e \in Due

\* When no request is in progress the cron instance follows the table, however the
\* last requests were interleaved (Scheduler.Reload, its callers in portal.go).
CronFollows ==
    project /\ ~lost /\ (\A q \in Req : req[q].op = "none") => Current(entries)

\* An automation that is enabled gets its entry, whatever other operators do.
EntryAppears ==
    \A e \in Entry : e \in Due ~> (e \in entries \/ e \notin Due \/ ~project \/ lost)

\* As long as requests come one at a time and no statement fails, no automation names
\* a deleted action (apiDeleteAction, validateAutomation, apiDeleteProject).
Quiet == ~overlapped /\ faults = 0
ActionsKept == Quiet => \A a \in Rows : autos[a].action \in actions
=============================================================================

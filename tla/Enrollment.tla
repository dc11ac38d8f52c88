----------------------------- MODULE Enrollment -----------------------------
(***************************************************************************)
(* The life of one device: enrolment with the hub, the operator's decision, *)
(* delivery and acknowledgement of the single-use network key, the join,   *)
(* revocation.  Three parties act concurrently:                            *)
(*   - the hub's handlers for the agent (agentapi.go), one per call;       *)
(*   - the hub's handlers for the operators (portal.go), one per request;  *)
(*   - the agent's cycle runOnce (agent/cmd/agent/main.go).                *)
(* A handler is split where another handler's SQL can come between two of  *)
(* its own: the hub uses no transaction.  The control server (Headscale)   *)
(* and the network client (tsnet) are modelled from how the code uses them. *)
(***************************************************************************)
EXTENDS Naturals

CONSTANTS
    Key,              \* pre-auth keys the control server may issue
    Token,            \* device tokens an enrolment may draw
    DeviceId,         \* row identifiers; SQLite may reuse that of a deleted row
    Slot,             \* agent calls the hub can be running at once
    Admin,            \* operator requests the hub can be running at once
    None,             \* no key, no token, no identifier, no call
    HeadscaleEnabled, \* the hub has a control server to call
    MaxFaults         \* losses, crashes, time-outs and resets in a behaviour

ASSUME NoneAssumption == None \notin Key \cup Token \cup DeviceId \cup Slot
ASSUME EnabledAssumption == HeadscaleEnabled \in BOOLEAN
ASSUME FaultsAssumption == MaxFaults \in Nat

VARIABLES
    row,       \* the device's row in the hub's database
    calls,     \* per slot, the agent call the hub is running or has answered
    admin,     \* per operator request, the handler in progress
    preauth,   \* keys the control server would still accept
    issued,    \* keys the control server has created
    nodes,     \* nodes registered under the device's name, by the key they used
    granted,   \* history: keys a decision has put in the row
    spent,     \* history: keys that registered a node
    phase,     \* where the agent's cycle is
    st,        \* the agent's device.json as the cycle holds it in memory
    authKey,   \* the key the cycle got with its last status
    waiting,   \* the call the cycle is waiting for
    disk,      \* device.json
    tsnet,     \* the network identity kept in the tsnet directory
    reload,    \* a pending request to restart the cycle
    minted,    \* tokens drawn so far
    faults,    \* faults so far
    wiped,     \* history: device.json was removed once
    unsaved,   \* history: a join that could not be written to device.json went on
    revived    \* history: an enrolment wrote "approved" over another status

hubVars   == <<row, calls, admin, minted>>
netVars   == <<preauth, issued, nodes, spent>>
agentVars == <<phase, st, authKey, waiting, disk, tsnet, reload, unsaved>>
vars == <<row, calls, admin, preauth, issued, nodes, granted, spent,
          phase, st, authKey, waiting, disk, tsnet, reload, minted, faults,
          wiped, unsaved, revived>>

Status  == {"pending", "approved", "rejected", "revoked"}
Banned  == {"rejected", "revoked"}
Phase   == {"idle", "enrolling", "poll", "joining", "joined", "acking",
            "configure", "online"}

\* The row of the devices table (db.go); "none" when there is no row.
Row == [status : Status \cup {"none"}, id : DeviceId \cup {None},
        token : Token \cup {None}, key : Key \cup {None}, delivered : BOOLEAN]
NoRow == [status |-> "none", id |-> None, token |-> None, key |-> None,
          delivered |-> FALSE]

\* DeviceState of the agent: token, Joined, and whether ControlURL is known.
Local == [token : Token \cup {None}, joined : BOOLEAN, url : BOOLEAN]
NoLocal == [token |-> None, joined |-> FALSE, url |-> FALSE]

\* An agent call: what it asks, how far the hub is, what the hub read first
\* (id, status) and what it answers (status, key, and token of an enrolment).
Call == [op : {"none", "enroll", "status", "ack", "config", "heartbeat"},
         at : {"sent", "read", "done"}, token : Token \cup {None},
         id : DeviceId \cup {None},
         status : Status \cup {"none", "unauthorized", "error"},
         key : Key \cup {None}]
NoCall == [op |-> "none", at |-> "done", token |-> None, id |-> None,
           status |-> "none", key |-> None]

\* An operator request: what it does, its next step, the row it is about.
Request == [op : {"none", "approve", "rekey", "reject", "revoke", "delete"},
            at : {"key", "write", "nodes", "purge"},
            id : DeviceId \cup {None}, key : Key \cup {None}]
NoRequest == [op |-> "none", at |-> "key", id |-> None, key |-> None]

\* Every way the environment fails costs one of MaxFaults.
Fault == faults < MaxFaults /\ faults' = faults + 1

Exists == row.status # "none"
Hit(id) == Exists /\ row.id = id     \* UPDATE ... WHERE id finds the row

Init ==
    /\ row = NoRow
    /\ calls = [s \in Slot |-> NoCall]
    /\ admin = [a \in Admin |-> NoRequest]
    /\ preauth = {} /\ issued = {} /\ nodes = {}
    /\ granted = {} /\ spent = {}
    /\ phase = "idle" /\ st = NoLocal /\ authKey = None /\ waiting = None
    /\ disk = NoLocal /\ tsnet = None /\ reload = FALSE
    /\ minted = {} /\ faults = 0
    /\ wiped = FALSE /\ unsaved = FALSE /\ revived = FALSE

-----------------------------------------------------------------------------
(* The hub's handlers for the agent. *)

\* The answer reaches the agent only if it is still waiting for this call.
Answer(s, c) ==
    calls' = [calls EXCEPT ![s] = IF waiting = s THEN [c EXCEPT !.at = "done", !.id = None]
                                  ELSE NoCall]

\* handleEnroll draws a token and looks the device up by project and name.
EnrollRead(s) ==
    /\ calls[s].op = "enroll" /\ calls[s].at = "sent"
    /\ \E t \in Token \ minted :
        /\ minted' = minted \cup {t}
        /\ calls' = [calls EXCEPT ![s] = [@ EXCEPT !.at = "read", !.token = t,
                                 !.id = row.id, !.status = row.status]]
    /\ UNCHANGED <<row, admin, netVars, granted, agentVars, faults,
                   wiped, revived>>

\* The status it goes back to, from the one it read: approved stays approved.
EnrollStatus(read) == IF read \in Banned THEN "pending" ELSE read

\* handleEnroll writes: the row it found, or a new one, whose id SQLite picks.
EnrollUpdate(s) ==
    LET c == calls[s] IN
    /\ c.op = "enroll" /\ c.at = "read" /\ c.status # "none"
    /\ row' = IF Hit(c.id)
              THEN [row EXCEPT !.token = c.token, !.delivered = FALSE,
                               !.status = EnrollStatus(c.status)]
              ELSE row
    /\ revived' = (revived \/ ( /\ Hit(c.id) /\ c.status = "approved"
                                /\ row.status # "approved" ))
    /\ Answer(s, [c EXCEPT !.status = "pending"])
    /\ UNCHANGED <<admin, minted, netVars, granted, agentVars, faults, wiped>>

EnrollInsert(s) ==
    LET c == calls[s] IN
    /\ c.op = "enroll" /\ c.at = "read" /\ c.status = "none"
    /\ IF Exists   \* UNIQUE(project_id, slug) refuses a second row
       THEN /\ Answer(s, [c EXCEPT !.status = "error"])
            /\ UNCHANGED row
       ELSE /\ \E id \in DeviceId :
                 row' = [NoRow EXCEPT !.status = "pending", !.id = id,
                                      !.token = c.token]
            /\ Answer(s, [c EXCEPT !.status = "pending"])
    /\ UNCHANGED <<admin, minted, netVars, granted, agentVars, faults,
                   wiped, revived>>

\* A refused enrolment: unknown project key, unreadable request, SQL error.
EnrollRefuse(s) ==
    /\ calls[s].op = "enroll" /\ calls[s].at = "sent"
    /\ Answer(s, [calls[s] EXCEPT !.status = "error"])
    /\ UNCHANGED <<row, admin, minted, netVars, granted, agentVars,
                   faults, wiped, revived>>

\* deviceFromRequest: 401 without a row for the token.  handleAgentConfig and
\* handleHeartbeat answer with the status of the row read here.
Authenticate(s) ==
    LET c == calls[s]
        known == Exists /\ row.token = c.token
    IN
    /\ c.op \in {"status", "ack", "config", "heartbeat"} /\ c.at = "sent"
    /\ IF ~known
       THEN Answer(s, [c EXCEPT !.status = "unauthorized"])
       ELSE IF c.op \in {"config", "heartbeat"}
       THEN Answer(s, [c EXCEPT !.status = row.status])
       ELSE calls' = [calls EXCEPT ![s] = [c EXCEPT !.at = "read", !.id = row.id,
                                                    !.status = row.status]]
    /\ UNCHANGED <<row, admin, minted, netVars, granted, agentVars,
                   faults, wiped, revived>>

\* statusFor: the status of the first read, the key of a second one.
StatusAnswer(s) ==
    LET c == calls[s]
        due == c.status = "approved" /\ Hit(c.id) /\ ~row.delivered
    IN
    /\ c.op = "status" /\ c.at = "read"
    /\ Answer(s, [c EXCEPT !.key = IF due THEN row.key ELSE None])
    /\ UNCHANGED <<row, admin, minted, netVars, granted, agentVars,
                   faults, wiped, revived>>

\* handleAckKey erases whatever key the row holds by now.
AckKey(s) ==
    LET c == calls[s] IN
    /\ c.op = "ack" /\ c.at = "read"
    /\ row' = IF Hit(c.id) THEN [row EXCEPT !.key = None, !.delivered = TRUE]
              ELSE row
    /\ Answer(s, c)
    /\ UNCHANGED <<admin, minted, netVars, granted, agentVars, faults,
                   wiped, revived>>

HubStep(s) ==
    \/ EnrollRead(s) \/ EnrollUpdate(s) \/ EnrollInsert(s) \/ EnrollRefuse(s)
    \/ Authenticate(s) \/ StatusAnswer(s) \/ AckKey(s)

-----------------------------------------------------------------------------
(* The hub's handlers for the operators. *)

\* withDevice finds the row; rekey is refused unless it is approved and the
\* hub has a control server.
Begin(a) ==
    /\ admin[a].op = "none" /\ Exists
    /\ \E op \in {"approve", "rekey", "reject", "revoke", "delete"} :
        /\ op = "rekey" => row.status = "approved" /\ HeadscaleEnabled
        /\ admin' = [admin EXCEPT ![a] =
             [op |-> op, id |-> row.id, key |-> None,
              at |-> IF op \in {"approve", "rekey"} /\ HeadscaleEnabled
                     THEN "key" ELSE "write"]]
    /\ UNCHANGED <<row, calls, minted, netVars, granted, agentVars,
                   faults, wiped, revived>>

\* PreauthKey: the control server creates a single-use key, or the request
\* fails within hsTimeout and changes nothing.
NewKey(a) ==
    /\ admin[a].at = "key" /\ admin[a].op \in {"approve", "rekey"}
    /\ \/ \E k \in Key \ issued :
            /\ issued' = issued \cup {k} /\ preauth' = preauth \cup {k}
            /\ admin' = [admin EXCEPT ![a] = [@ EXCEPT !.at = "write", !.key = k]]
       \/ /\ admin' = [admin EXCEPT ![a] = NoRequest]
          /\ UNCHANGED <<issued, preauth>>
    /\ UNCHANGED <<row, calls, minted, nodes, spent, granted, agentVars,
                   faults, wiped, revived>>

\* approveDevice and apiRekeyDevice write the key over what the row holds by now.
GrantWrite(a) ==
    LET r == admin[a] IN
    /\ r.at = "write" /\ r.op \in {"approve", "rekey"}
    /\ row' = IF Hit(r.id)
              THEN [row EXCEPT !.key = r.key, !.delivered = FALSE,
                      !.status = IF r.op = "approve" THEN "approved" ELSE @]
              ELSE row
    /\ granted' = IF Hit(r.id) THEN granted \cup ({r.key} \ {None}) ELSE granted
    /\ admin' = [admin EXCEPT ![a] = NoRequest]
    /\ UNCHANGED <<calls, minted, netVars, agentVars, faults, wiped, revived>>

\* What follows the write or the removal of nodes: a deletion also drops the row.
AfterEviction(r) == IF r.op = "delete" THEN [r EXCEPT !.at = "purge"] ELSE NoRequest

\* Mutant: the request's verb is written where the status belongs.
RevokeWriteVerb(a) ==
    LET r == admin[a] IN
    /\ r.at = "write" /\ r.op \in {"reject", "revoke", "delete"}
    /\ row' = IF Hit(r.id)
              THEN [row EXCEPT !.key = None, !.delivered = FALSE, !.status = r.op]
              ELSE row
    /\ admin' = [admin EXCEPT ![a] = IF HeadscaleEnabled
                                     THEN [r EXCEPT !.at = "nodes"]
                                     ELSE AfterEviction(r)]
    /\ UNCHANGED <<calls, minted, netVars, granted, agentVars, faults,
                   wiped, revived>>

\* revokeDevice writes the status first and withdraws the key.
RevokeWrite(a) ==
    LET r == admin[a] IN
    /\ r.at = "write" /\ r.op \in {"reject", "revoke", "delete"}
    /\ row' = IF Hit(r.id)
              THEN [row EXCEPT !.key = None, !.delivered = FALSE,
                      !.status = IF r.op = "reject" THEN "rejected" ELSE "revoked"]
              ELSE row
    /\ admin' = [admin EXCEPT ![a] = IF HeadscaleEnabled
                                     THEN [r EXCEPT !.at = "nodes"]
                                     ELSE AfterEviction(r)]
    /\ UNCHANGED <<calls, minted, netVars, granted, agentVars, faults,
                   wiped, revived>>

\* DeleteNodes: every node of that name or, with a warning to the operator, some of them.
RemoveNodes(a) ==
    /\ admin[a].at = "nodes"
    /\ \E gone \in SUBSET nodes : nodes' = nodes \ gone
    /\ admin' = [admin EXCEPT ![a] = AfterEviction(@)]
    /\ UNCHANGED <<row, calls, minted, preauth, issued, spent, granted, agentVars,
                   faults, wiped, revived>>

\* DELETE FROM devices, after the removal of the nodes.
PurgeRow(a) ==
    /\ admin[a].at = "purge"
    /\ row' = IF Hit(admin[a].id) THEN NoRow ELSE row
    /\ admin' = [admin EXCEPT ![a] = NoRequest]
    /\ UNCHANGED <<calls, minted, netVars, granted, agentVars, faults,
                   wiped, revived>>

AdminStep(a) == NewKey(a) \/ GrantWrite(a) \/ RevokeWrite(a) \/ RemoveNodes(a) \/ PurgeRow(a)

-----------------------------------------------------------------------------
(* The agent's cycle. *)

\* Stop waiting: an answer already given is lost, an unfinished call runs on.
Forget ==
    calls' = [s \in Slot |-> IF s = waiting /\ calls[s].at = "done"
                             THEN NoCall ELSE calls[s]]

Free(s) == calls[s].op = "none"
Send(s, op, token) ==
    /\ waiting = None /\ Free(s)
    /\ waiting' = s
    /\ calls' = [calls EXCEPT ![s] = [NoCall EXCEPT !.op = op, !.at = "sent",
                                                    !.token = token]]

Received(c) == waiting # None /\ c = calls[waiting] /\ c.op # "none" /\ c.at = "done"

\* runOnce returns: what it held in memory is gone.
EndCycle == phase' = "idle" /\ st' = NoLocal /\ authKey' = None

cycleRest == <<row, admin, minted, netVars, granted, reload, revived>>
agentRest == <<cycleRest, unsaved, faults>>

\* os.Remove of device.json: its error is not looked at.
Removed ==
    \/ disk' = NoLocal /\ wiped' = TRUE /\ UNCHANGED faults
    \/ Fault /\ UNCHANGED <<disk, wiped>>

\* SaveState: beside the file, then renamed.
Saved(local) == disk' = local /\ UNCHANGED faults
NotSaved == Fault /\ UNCHANGED disk

\* The cycle starts: resume from device.json, or enrol.
Resume ==
    /\ phase = "idle" /\ disk # NoLocal
    /\ phase' = "poll" /\ st' = disk
    /\ UNCHANGED <<authKey, calls, waiting, disk, tsnet, wiped, agentRest>>

EnrollSend ==
    /\ phase = "idle" /\ disk = NoLocal
    /\ phase' = "enrolling"
    /\ \E s \in Slot : Send(s, "enroll", None)
    /\ UNCHANGED <<st, authKey, disk, tsnet, wiped, agentRest>>

\* Mutant: the error of SaveState is dropped here too.
EnrollReplyUnchecked ==
    /\ phase = "enrolling"
    /\ \E c \in {calls[s] : s \in Slot} :
        /\ Received(c)
        /\ IF c.status = "error"
           THEN EndCycle /\ UNCHANGED <<disk, faults>>
           ELSE /\ st' = [NoLocal EXCEPT !.token = c.token]
                /\ Saved(st') \/ NotSaved
                /\ phase' = "poll" /\ UNCHANGED authKey
    /\ Forget /\ waiting' = None
    /\ UNCHANGED <<tsnet, wiped, cycleRest, unsaved>>

\* enroll: SaveState, or give the cycle up, as when SaveState fails.
EnrollReply ==
    /\ phase = "enrolling"
    /\ \E c \in {calls[s] : s \in Slot} :
        /\ Received(c)
        /\ \/ c.status = "error" /\ EndCycle /\ UNCHANGED <<disk, faults>>
           \/ c.status # "error" /\ NotSaved /\ EndCycle
           \/ /\ c.status # "error"
              /\ st' = [NoLocal EXCEPT !.token = c.token] /\ Saved(st')
              /\ phase' = "poll" /\ UNCHANGED authKey
    /\ Forget /\ waiting' = None
    /\ UNCHANGED <<tsnet, wiped, cycleRest, unsaved>>

StatusSend ==
    /\ phase = "poll"
    /\ \E s \in Slot : Send(s, "status", st.token)
    /\ UNCHANGED <<phase, st, authKey, disk, tsnet, wiped, agentRest>>

\* 401: forget device.json.  Not approved: ask again later.
StatusRefused ==
    /\ phase = "poll"
    /\ \E c \in {calls[s] : s \in Slot} :
        /\ Received(c) /\ c.status # "approved"
        /\ IF c.status = "unauthorized"
           THEN EndCycle /\ Removed
           ELSE UNCHANGED <<phase, st, authKey, disk, wiped, faults>>
    /\ Forget /\ waiting' = None
    /\ UNCHANGED <<tsnet, cycleRest, unsaved>>


\* Approved: remember ControlURL, on disk if it can be, then join, unless there is
\* nothing to join with.
StatusApproved ==
    /\ phase = "poll"
    /\ \E c \in {calls[s] : s \in Slot} :
        /\ Received(c) /\ c.status = "approved"
        /\ \/ Saved(IF st.url THEN disk ELSE [st EXCEPT !.url = TRUE])
           \/ ~st.url /\ NotSaved
        /\ IF ~st.joined /\ c.key = None
           THEN EndCycle
           ELSE /\ phase' = "joining" /\ authKey' = c.key
                /\ st' = [st EXCEPT !.url = TRUE]
    /\ Forget /\ waiting' = None
    /\ UNCHANGED <<tsnet, wiped, cycleRest, unsaved>>

\* Mutant: the keys are created reusable.
RegisterReusable ==
    /\ phase = "joining" /\ tsnet \notin nodes
    /\ authKey \in preauth
    /\ spent' = spent \cup {authKey}
    /\ nodes' = nodes \cup {authKey} /\ tsnet' = authKey
    /\ UNCHANGED <<row, calls, admin, minted, preauth, issued, granted, phase,
                   st, authKey, waiting, disk, reload, unsaved, faults, wiped, revived>>

\* tunnel.Start, on the control server's side: an identity it does not know
\* needs a key it still accepts, and uses it up.
Register ==
    /\ phase = "joining" /\ tsnet \notin nodes
    /\ authKey \in preauth
    /\ preauth' = preauth \ {authKey} /\ spent' = spent \cup {authKey}
    /\ nodes' = nodes \cup {authKey} /\ tsnet' = authKey
    /\ UNCHANGED <<row, calls, admin, minted, issued, granted, phase, st,
                   authKey, waiting, disk, reload, unsaved, faults, wiped, revived>>

\* tunnel.Start returns: with a registered identity, or with an error.
TunnelUp ==
    /\ phase = "joining" /\ tsnet \in nodes
    /\ phase' = "joined"
    /\ UNCHANGED <<calls, st, authKey, waiting, disk, tsnet, wiped, agentRest>>

TunnelFailed ==
    /\ phase = "joining" /\ tsnet \notin nodes /\ authKey \notin preauth
    /\ EndCycle
    /\ UNCHANGED <<calls, waiting, disk, tsnet, wiped, agentRest>>

\* Mutant: Joined is noted in memory only before the key is acknowledged.
SaveJoinedInMemory ==
    /\ phase = "joined"
    /\ IF authKey = None
       THEN phase' = "configure" /\ UNCHANGED <<st, disk>>
       ELSE /\ st' = [st EXCEPT !.joined = TRUE]
            /\ phase' = "acking" /\ UNCHANGED disk
    /\ UNCHANGED <<calls, authKey, waiting, tsnet, wiped, agentRest>>

\* Joined is saved before the hub is told to erase the key, but nothing is made of an
\* error: the acknowledgement follows all the same.
SaveJoined ==
    /\ phase = "joined"
    /\ IF authKey = None
       THEN phase' = "configure" /\ UNCHANGED <<st, disk, unsaved, faults>>
       ELSE /\ st' = [st EXCEPT !.joined = TRUE]
            /\ phase' = "acking"
            /\ \/ Saved(st') /\ UNCHANGED unsaved
               \/ NotSaved /\ unsaved' = TRUE
    /\ UNCHANGED <<calls, authKey, waiting, tsnet, wiped, cycleRest>>

AckSend ==
    /\ phase = "acking"
    /\ \E s \in Slot : Send(s, "ack", st.token)
    /\ UNCHANGED <<phase, st, authKey, disk, tsnet, wiped, agentRest>>

\* The result of AckKey is not looked at.
AckReply ==
    /\ phase = "acking"
    /\ \E c \in {calls[s] : s \in Slot} : Received(c)
    /\ phase' = "configure"
    /\ Forget /\ waiting' = None
    /\ authKey' = None   \* not read again in this cycle
    /\ UNCHANGED <<st, disk, tsnet, wiped, agentRest>>

\* reloadConfig and the heartbeats, with the tunnel up.
OnlineSend ==
    /\ \/ phase = "configure" /\ \E s \in Slot : Send(s, "config", st.token)
       \/ phase = "online" /\ \E s \in Slot : Send(s, "heartbeat", st.token)
    /\ UNCHANGED <<phase, st, authKey, disk, tsnet, wiped, agentRest>>

\* Mutant: the status a heartbeat brings back is not looked at.
OnlineReplyBlind ==
    /\ phase \in {"configure", "online"}
    /\ \E c \in {calls[s] : s \in Slot} :
        /\ Received(c)
        /\ IF c.status = "approved" \/ (phase = "online" /\ c.status # "unauthorized")
           THEN phase' = "online" /\ UNCHANGED <<st, authKey>>
           ELSE EndCycle
        /\ IF c.status = "unauthorized" /\ c.op = "heartbeat"
           THEN Removed
           ELSE UNCHANGED <<disk, wiped, faults>>
    /\ Forget /\ waiting' = None
    /\ UNCHANGED <<tsnet, cycleRest, unsaved>>

\* Anything but approved ends the cycle and closes the tunnel; a 401 to a
\* heartbeat also forgets device.json.
OnlineReply ==
    /\ phase \in {"configure", "online"}
    /\ \E c \in {calls[s] : s \in Slot} :
        /\ Received(c)
        /\ IF c.status = "approved"
           THEN phase' = "online" /\ UNCHANGED <<st, authKey>>
           ELSE EndCycle
        /\ IF c.status = "unauthorized" /\ c.op = "heartbeat"
           THEN Removed
           ELSE UNCHANGED <<disk, wiped, faults>>
    /\ Forget /\ waiting' = None
    /\ UNCHANGED <<tsnet, cycleRest, unsaved>>

\* A call that failed: the cycle ends, except that an acknowledgement or a
\* heartbeat that fails is only logged.
CallFailed ==
    /\ waiting # None /\ waiting' = None
    /\ \/ phase = "acking" /\ phase' = "configure" /\ authKey' = None /\ UNCHANGED st
       \/ phase = "online" /\ UNCHANGED <<phase, st, authKey>>
       \/ phase \notin {"acking", "online"} /\ EndCycle
    /\ UNCHANGED <<disk, tsnet, wiped>>

\* The connection is gone with the call.
CallBroken ==
    /\ \E s \in Slot : waiting = s /\ Free(s)
    /\ CallFailed
    /\ UNCHANGED <<calls, agentRest>>

\* The cycle is stopped: its context is cancelled.
StopCycle ==
    /\ EndCycle /\ waiting' = None
    /\ Forget
    /\ UNCHANGED <<disk, tsnet, wiped>>

Reload ==
    /\ reload /\ reload' = FALSE
    /\ StopCycle
    /\ UNCHANGED <<row, admin, minted, netVars, granted, unsaved, faults, revived>>

AgentStep ==
    \/ Resume \/ EnrollSend \/ EnrollReply
    \/ StatusSend \/ StatusRefused \/ StatusApproved
    \/ Register \/ TunnelUp \/ TunnelFailed
    \/ SaveJoined \/ AckSend \/ AckReply
    \/ OnlineSend \/ OnlineReply \/ CallBroken \/ Reload

-----------------------------------------------------------------------------
(* What goes wrong around them. *)

\* The request never arrives, or its answer is lost.
Lose(s) ==
    /\ Fault
    /\ calls[s].op # "none" /\ calls[s].at \in {"sent", "done"}
    /\ calls' = [calls EXCEPT ![s] = NoCall]
    /\ UNCHANGED <<row, admin, minted, netVars, granted, agentVars, wiped,
                   revived>>

\* The agent's HTTP client gives up on a call the hub goes on with.
TimeOut ==
    /\ Fault
    /\ CallFailed /\ Forget
    /\ UNCHANGED <<cycleRest, unsaved>>

\* The agent's process dies and is restarted by the service manager, or the
\* 90 s of tunnel.Start run out.
Crash ==
    /\ Fault
    /\ StopCycle /\ reload' = FALSE
    /\ UNCHANGED <<row, admin, minted, netVars, granted, unsaved, revived>>

\* The hub's process dies between two SQL statements.
HubCrash ==
    /\ Fault
    /\ calls' = [s \in Slot |-> NoCall]
    /\ admin' = [a \in Admin |-> NoRequest]
    /\ UNCHANGED <<row, minted, netVars, granted, agentVars, wiped, revived>>

\* resetEnrollment, from the local panel (a reload follows) or `agent reset`
\* (it does not), while the cycle runs on.
Reset ==
    /\ Fault
    /\ disk' = NoLocal /\ tsnet' = None /\ wiped' = TRUE
    /\ reload' \in {TRUE, reload}
    /\ UNCHANGED <<row, calls, admin, minted, netVars, granted, phase, st,
                   authKey, waiting, unsaved, revived>>

\* A key expires after 24 h.
Expire ==
    /\ Fault
    /\ \E k \in preauth : preauth' = preauth \ {k}
    /\ UNCHANGED <<row, calls, admin, minted, issued, nodes, spent, granted,
                   agentVars, wiped, revived>>

Failure == (\E s \in Slot : Lose(s)) \/ TimeOut \/ Crash \/ HubCrash \/ Reset \/ Expire

Next ==
    \/ \E s \in Slot : HubStep(s)
    \/ \E a \in Admin : Begin(a) \/ AdminStep(a)
    \/ AgentStep
    \/ Failure

Spec == Init /\ [][Next]_vars

\* Handlers that run finish, and the agent's loop goes on; operators need not act.
Fairness ==
    /\ \A s \in Slot : WF_vars(HubStep(s))
    /\ \A a \in Admin : WF_vars(AdminStep(a))
    /\ WF_vars(AgentStep)
FairSpec == Spec /\ Fairness

-----------------------------------------------------------------------------
(* Properties. *)

TypeOK ==
    /\ row \in Row
    /\ calls \in [Slot -> Call]
    /\ admin \in [Admin -> Request]
    /\ preauth \subseteq Key /\ issued \subseteq Key /\ nodes \subseteq Key
    /\ granted \subseteq Key /\ spent \subseteq Key
    /\ phase \in Phase /\ st \in Local /\ disk \in Local
    /\ authKey \in Key \cup {None} /\ tsnet \in Key \cup {None}
    /\ waiting \in Slot \cup {None}
    /\ minted \subseteq Token /\ faults \in 0..MaxFaults
    /\ reload \in BOOLEAN
    /\ wiped \in BOOLEAN /\ unsaved \in BOOLEAN /\ revived \in BOOLEAN

\* The hub never leaves an approved device without a key before the device has
\* recorded that it joined, whatever is lost, late or restarted (SaveState comes
\* before AckKey, delivery repeats until the acknowledgement).  Only the loss of
\* device.json, a join that could not be written to it and was acknowledged all the
\* same, or a revocation an enrolment undid, can strand a device.
NeverStranded ==
    (HeadscaleEnabled /\ ~wiped /\ ~unsaved /\ ~revived) =>
        (row.status = "approved" /\ row.key = None => disk.joined)

\* Network membership follows the operators' grants (Membership.tla): no node
\* without a grant, one node per grant, no return after an eviction.
M == INSTANCE Membership WITH members <- nodes
MembershipSpec == M!Spec

\* A device that is not approved ends up without a tunnel, or is approved again:
\* the next heartbeat tells it, even if the control server could not be reached.
TunnelOpen == phase \in {"joined", "acking", "configure", "online"}
Barred == row.status \in Banned
TunnelCloses == Barred ~> (~TunnelOpen \/ ~Barred)

\* An approved device whose device.json is current and that has a way in (a
\* registered identity or a valid key waiting for it) comes online, or loses
\* the way in.
HasWay ==
    /\ row.status = "approved" /\ disk.token = row.token /\ ~wiped
    /\ \/ disk.joined /\ tsnet \in nodes
       \/ row.key \in preauth /\ ~row.delivered

-----------------------------------------------------------------------------
(* The inductive invariant behind TypeOK, NeverStranded and MembershipSpec. *)

\* What a handler has read is a status of the row; an operator's handler that
\* writes has its key.
HandlerShape ==
    /\ \A s \in Slot : calls[s].at = "read" => calls[s].status \in Status \cup {"none"}
    /\ \A a \in Admin :
        /\ admin[a].op = "rekey" => HeadscaleEnabled
        /\ HeadscaleEnabled /\ admin[a].op \in {"approve", "rekey"} /\ admin[a].at = "write"
             => admin[a].key # None

\* The cycle works with the token on disk and knows of a join noted there; if it knows
\* of one that is not, the write has failed. It acknowledges no other.
CycleSaved ==
    /\ phase = "enrolling" => disk = NoLocal
    /\ phase \notin {"idle", "enrolling"} =>
         /\ st.token = disk.token
         /\ disk.joined => st.joined
         /\ st.joined => disk.joined \/ unsaved
    /\ phase = "acking" => st.joined

\* So it is until device.json is removed once, and so an acknowledgement on its way is
\* of a join on disk, or of one whose write has failed.
SavedFirst ==
    ~wiped => CycleSaved /\ \A s \in Slot : calls[s].op = "ack" => disk.joined \/ unsaved

\* A key is created once, waits in one request until it is granted, and only
\* granted keys travel.
KeyCustody ==
    /\ preauth \cup granted \cup spent \subseteq issued
    /\ preauth \cap spent = {}
    /\ \A a \in Admin : admin[a].key # None =>
        /\ admin[a].key \in issued \ granted
        /\ \A b \in Admin \ {a} : admin[b].key # admin[a].key
    /\ {row.key, authKey} \subseteq granted \cup {None}
    /\ \A s \in Slot : calls[s].key \in granted \cup {None}

IInv == TypeOK /\ HandlerShape /\ SavedFirst /\ NeverStranded /\ KeyCustody

-----------------------------------------------------------------------------
(* A statement of the repository that the code does not live up to. *)

\* agentapi.go:51 : a device that enrols again keeps its status, except that a
\* revoked one goes back to pending.
RevokedReenrolsPending ==
    [][row.status \in Banned /\ row'.token \notin {row.token, None}
         => row'.status = "pending"]_row
=============================================================================

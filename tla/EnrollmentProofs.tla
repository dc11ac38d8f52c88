-------------------------- MODULE EnrollmentProofs --------------------------
(***************************************************************************)
(* Proofs about Enrollment, for any keys, tokens, row identifiers, number  *)
(* of concurrent calls and requests, and number of faults.                 *)
(***************************************************************************)
EXTENDS Enrollment, TLAPS

USE NoneAssumption, EnabledAssumption, FaultsAssumption

-----------------------------------------------------------------------------
(* Types. *)

LEMMA NoRowType == NoRow \in Row
BY DEF NoRow, Row, Status

LEMMA NoLocalType == NoLocal \in Local
BY DEF NoLocal, Local

LEMMA NoCallType == NoCall \in Call
BY DEF NoCall, Call, Status

LEMMA NoRequestType == NoRequest \in Request
BY DEF NoRequest, Request

\* What the handlers make of a call is again a call.
LEMMA CallRead ==
    ASSUME NEW c \in Call, NEW id \in DeviceId \cup {None},
           NEW status \in Status \cup {"none"}
    PROVE  [c EXCEPT !.at = "read", !.id = id, !.status = status] \in Call
BY DEF Call

LEMMA CallDrawn ==
    ASSUME NEW c \in Call, NEW t \in Token, NEW id \in DeviceId \cup {None},
           NEW status \in Status \cup {"none"}
    PROVE  [c EXCEPT !.at = "read", !.token = t, !.id = id, !.status = status] \in Call
BY DEF Call

LEMMA CallStatus ==
    ASSUME NEW c \in Call,
           NEW status \in Status \cup {"none", "unauthorized", "error"}
    PROVE  [c EXCEPT !.status = status] \in Call
BY DEF Call

LEMMA CallKey ==
    ASSUME NEW c \in Call, NEW key \in Key \cup {None}
    PROVE  [c EXCEPT !.key = key] \in Call
BY DEF Call

\* Answering, sending and forgetting a call keep the calls well formed.
LEMMA AnswerTyped ==
    ASSUME calls \in [Slot -> Call], NEW s \in Slot, NEW c \in Call, Answer(s, c)
    PROVE  calls' \in [Slot -> Call]
<1>1. [c EXCEPT !.at = "done", !.id = None] \in Call
  BY DEF Call
<1>2. QED
  BY <1>1, NoCallType DEF Answer

LEMMA SendTyped ==
    ASSUME calls \in [Slot -> Call], NEW s \in Slot, NEW t \in Token \cup {None},
           NEW op \in {"enroll", "status", "ack", "config", "heartbeat"},
           Send(s, op, t)
    PROVE  calls' \in [Slot -> Call] /\ waiting' \in Slot \cup {None}
<1>1. [NoCall EXCEPT !.op = op, !.at = "sent", !.token = t] \in Call
  BY NoCallType DEF Call
<1>2. QED
  BY <1>1 DEF Send

LEMMA ForgetTyped ==
    ASSUME calls \in [Slot -> Call], Forget
    PROVE  calls' \in [Slot -> Call]
<1>1. \A s \in Slot : (IF s = waiting /\ calls[s].at = "done" THEN NoCall ELSE calls[s]) \in Call
  BY NoCallType
<1>2. QED
  BY <1>1 DEF Forget

LEMMA InitType == Init => TypeOK
<1> SUFFICES ASSUME Init PROVE TypeOK
  OBVIOUS
<1>1. row \in Row /\ st \in Local /\ disk \in Local
  BY NoRowType, NoLocalType DEF Init
<1>2. calls \in [Slot -> Call] /\ admin \in [Admin -> Request]
  BY NoCallType, NoRequestType DEF Init
<1>3. phase \in Phase /\ faults \in 0..MaxFaults
  BY DEF Init, Phase
<1>4. reload \in BOOLEAN /\ wiped \in BOOLEAN /\ unsaved \in BOOLEAN /\ revived \in BOOLEAN
  BY DEF Init
<1>5. QED
  BY <1>1, <1>2, <1>3, <1>4 DEF Init, TypeOK

\* The hub's handlers for the agent.
LEMMA HubType ==
    ASSUME TypeOK, HandlerShape, NEW s \in Slot, HubStep(s)
    PROVE  TypeOK'
<1>1. /\ calls \in [Slot -> Call] /\ calls[s] \in Call
      /\ row \in Row
      /\ row.id \in DeviceId \cup {None} /\ row.status \in Status \cup {"none"}
      /\ row.key \in Key \cup {None}
  BY DEF TypeOK, Row
<1>2. CASE EnrollRead(s)
  <2>1. PICK t \in Token \ minted :
          /\ minted' = minted \cup {t}
          /\ calls' = [calls EXCEPT ![s] = [@ EXCEPT !.at = "read", !.token = t,
                                   !.id = row.id, !.status = row.status]]
    BY <1>2 DEF EnrollRead
  <2>2. [calls[s] EXCEPT !.at = "read", !.token = t,
                         !.id = row.id, !.status = row.status] \in Call
    BY <1>1, CallDrawn
  <2>3. calls' \in [Slot -> Call]
    BY <1>1, <2>1, <2>2
  <2>4. QED
    BY <1>2, <2>1, <2>3 DEF EnrollRead, TypeOK, netVars, agentVars
<1>3. CASE EnrollUpdate(s)
  <2>1. [calls[s] EXCEPT !.status = "pending"] \in Call
    BY <1>1, CallStatus DEF Status
  <2>2. calls' \in [Slot -> Call]
    BY <1>1, <1>3, <2>1, AnswerTyped DEF EnrollUpdate
  <2>3. EnrollStatus(calls[s].status) \in Status
    BY <1>1, <1>3 DEF EnrollUpdate, EnrollStatus, HandlerShape, Status
  <2>4. row' \in Row
    BY <1>1, <1>3, <2>3 DEF EnrollUpdate, Row, Call
  <2>5. revived' \in BOOLEAN
    BY <1>3 DEF EnrollUpdate
  <2>6. QED
    BY <1>3, <2>2, <2>4, <2>5 DEF EnrollUpdate, TypeOK, netVars, agentVars
<1>4. CASE EnrollInsert(s)
  <2>1. /\ [calls[s] EXCEPT !.status = "pending"] \in Call
        /\ [calls[s] EXCEPT !.status = "error"] \in Call
    BY <1>1, CallStatus DEF Status
  <2>2. calls' \in [Slot -> Call]
    BY <1>1, <1>4, <2>1, AnswerTyped DEF EnrollInsert
  <2>3. ASSUME NEW id \in DeviceId
        PROVE  [NoRow EXCEPT !.status = "pending", !.id = id, !.token = calls[s].token] \in Row
    BY <1>1 DEF NoRow, Row, Call, Status
  <2>4. row' \in Row
    BY <1>1, <1>4, <2>3 DEF EnrollInsert
  <2>5. QED
    BY <1>4, <2>2, <2>4 DEF EnrollInsert, TypeOK, netVars, agentVars
<1>5. CASE EnrollRefuse(s)
  <2>1. [calls[s] EXCEPT !.status = "error"] \in Call
    BY <1>1, CallStatus
  <2>2. calls' \in [Slot -> Call]
    BY <1>1, <1>5, <2>1, AnswerTyped DEF EnrollRefuse
  <2>3. QED
    BY <1>5, <2>2 DEF EnrollRefuse, TypeOK, netVars, agentVars
<1>6. CASE Authenticate(s)
  <2>1. /\ [calls[s] EXCEPT !.status = "unauthorized"] \in Call
        /\ [calls[s] EXCEPT !.status = row.status] \in Call
    BY <1>1, CallStatus
  <2>2. [calls[s] EXCEPT !.at = "read", !.id = row.id, !.status = row.status] \in Call
    BY <1>1, CallRead
  <2>3. calls' \in [Slot -> Call]
    BY <1>1, <1>6, <2>1, <2>2, AnswerTyped DEF Authenticate
  <2>4. QED
    BY <1>6, <2>3 DEF Authenticate, TypeOK, netVars, agentVars
<1>7. CASE StatusAnswer(s)
  <2>1. [calls[s] EXCEPT !.key = row.key] \in Call /\ [calls[s] EXCEPT !.key = None] \in Call
    BY <1>1, CallKey
  <2>2. calls' \in [Slot -> Call]
    BY <1>1, <1>7, <2>1, AnswerTyped DEF StatusAnswer
  <2>3. QED
    BY <1>7, <2>2 DEF StatusAnswer, TypeOK, netVars, agentVars
<1>8. CASE AckKey(s)
  <2>1. calls' \in [Slot -> Call]
    BY <1>1, <1>8, AnswerTyped DEF AckKey
  <2>2. row' \in Row
    BY <1>1, <1>8 DEF AckKey, Row
  <2>3. QED
    BY <1>8, <2>1, <2>2 DEF AckKey, TypeOK, netVars, agentVars
<1>9. QED
  BY <1>2, <1>3, <1>4, <1>5, <1>6, <1>7, <1>8 DEF HubStep

\* The hub's handlers for the operators.
LEMMA AdminType ==
    ASSUME TypeOK, NEW a \in Admin, Begin(a) \/ AdminStep(a)
    PROVE  TypeOK'
<1>1. /\ admin \in [Admin -> Request] /\ admin[a] \in Request
      /\ row \in Row /\ NoRow \in Row /\ NoRequest \in Request
      /\ row.id \in DeviceId \cup {None}
  BY NoRowType, NoRequestType DEF TypeOK, Row
<1>2. AfterEviction(admin[a]) \in Request
  BY <1>1 DEF AfterEviction, Request
<1>3. CASE Begin(a)
  <2>1. admin' \in [Admin -> Request]
    BY <1>1, <1>3 DEF Begin, Request
  <2>2. QED
    BY <1>3, <2>1 DEF Begin, TypeOK, netVars, agentVars
<1>4. CASE NewKey(a)
  <2>1. ASSUME NEW k \in Key PROVE [admin[a] EXCEPT !.at = "write", !.key = k] \in Request
    BY <1>1 DEF Request
  <2>2. admin' \in [Admin -> Request]
    BY <1>1, <1>4, <2>1 DEF NewKey
  <2>3. preauth' \subseteq Key /\ issued' \subseteq Key
    BY <1>4 DEF NewKey, TypeOK
  <2>4. QED
    BY <1>4, <2>2, <2>3 DEF NewKey, TypeOK, netVars, agentVars
<1>5. CASE GrantWrite(a)
  <2>1. row' \in Row
    BY <1>1, <1>5 DEF GrantWrite, Row, Request, Status
  <2>2. granted' \subseteq Key /\ admin' \in [Admin -> Request]
    BY <1>1, <1>5 DEF GrantWrite, TypeOK, Request
  <2>3. QED
    BY <1>5, <2>1, <2>2 DEF GrantWrite, TypeOK, netVars, agentVars
<1>6. CASE RevokeWrite(a)
  <2>1. row' \in Row
    BY <1>1, <1>6 DEF RevokeWrite, Row, Status
  <2>2. [admin[a] EXCEPT !.at = "nodes"] \in Request
    BY <1>1 DEF Request
  <2>3. admin' \in [Admin -> Request]
    BY <1>1, <1>2, <1>6, <2>2 DEF RevokeWrite
  <2>4. QED
    BY <1>6, <2>1, <2>3 DEF RevokeWrite, TypeOK, netVars, agentVars
<1>7. CASE RemoveNodes(a)
  <2>1. nodes' \subseteq Key
    BY <1>7 DEF RemoveNodes, TypeOK
  <2>2. admin' \in [Admin -> Request]
    BY <1>1, <1>2, <1>7 DEF RemoveNodes
  <2>3. QED
    BY <1>7, <2>1, <2>2 DEF RemoveNodes, TypeOK, agentVars
<1>8. CASE PurgeRow(a)
  <2>1. row' \in Row /\ admin' \in [Admin -> Request]
    BY <1>1, <1>8 DEF PurgeRow
  <2>2. QED
    BY <1>8, <2>1 DEF PurgeRow, TypeOK, netVars, agentVars
<1>9. QED
  BY <1>3, <1>4, <1>5, <1>6, <1>7, <1>8 DEF AdminStep

\* What a cycle gives up, and the answer it reads, are well formed.
LEMMA EndCycleTyped ==
    ASSUME EndCycle
    PROVE  phase' \in Phase /\ st' \in Local /\ authKey' \in Key \cup {None}
BY NoLocalType DEF EndCycle, Phase

LEMMA CallFailedTyped ==
    ASSUME TypeOK, CallFailed
    PROVE  /\ phase' \in Phase /\ st' \in Local /\ authKey' \in Key \cup {None}
           /\ waiting' = None
BY EndCycleTyped DEF CallFailed, TypeOK, Phase

LEMMA LocalUpdates ==
    ASSUME NEW x \in Local, NEW t \in Token \cup {None}
    PROVE  /\ [x EXCEPT !.url = TRUE] \in Local
           /\ [x EXCEPT !.joined = TRUE] \in Local
           /\ [NoLocal EXCEPT !.token = t] \in Local
<1>1. [x EXCEPT !.url = TRUE] \in Local
  BY DEF Local
<1>2. [x EXCEPT !.joined = TRUE] \in Local
  BY DEF Local
<1>3. [NoLocal EXCEPT !.token = t] \in Local
  BY DEF Local, NoLocal
<1>4. QED
  BY <1>1, <1>2, <1>3

LEMMA FaultTyped ==
    ASSUME TypeOK, Fault \/ UNCHANGED faults
    PROVE  faults' \in 0..MaxFaults
BY DEF TypeOK, Fault

\* What the cycle does to device.json.
LEMMA RemovedTyped ==
    ASSUME TypeOK, Removed
    PROVE  disk' \in Local /\ wiped' \in BOOLEAN /\ faults' \in 0..MaxFaults
BY NoLocalType, FaultTyped DEF Removed, TypeOK

LEMMA SavedTyped ==
    ASSUME TypeOK, NEW x \in Local, Saved(x) \/ NotSaved
    PROVE  disk' \in Local /\ faults' \in 0..MaxFaults
BY FaultTyped DEF Saved, NotSaved, TypeOK

\* The agent's cycle.
LEMMA AgentType ==
    ASSUME TypeOK, AgentStep
    PROVE  TypeOK'
<1>1. /\ calls \in [Slot -> Call] /\ st \in Local /\ disk \in Local
      /\ NoLocal \in Local /\ st.token \in Token \cup {None}
      /\ \A s \in Slot : calls[s].token \in Token \cup {None}
                         /\ calls[s].key \in Key \cup {None}
  BY NoLocalType DEF TypeOK, Local, Call
<1>2. /\ [st EXCEPT !.url = TRUE] \in Local /\ [st EXCEPT !.joined = TRUE] \in Local
      /\ \A s \in Slot : [NoLocal EXCEPT !.token = calls[s].token] \in Local
  BY <1>1, LocalUpdates
<1> USE DEF agentRest, cycleRest, netVars
<1>3. CASE Resume
  BY <1>3 DEF Resume, TypeOK, Phase
<1>4. CASE EnrollSend
  <2>1. calls' \in [Slot -> Call] /\ waiting' \in Slot \cup {None}
    BY <1>1, <1>4, SendTyped DEF EnrollSend
  <2>2. QED
    BY <1>4, <2>1 DEF EnrollSend, TypeOK, Phase
<1>5. CASE EnrollReply
  <2>1. calls' \in [Slot -> Call]
    BY <1>1, <1>5, ForgetTyped DEF EnrollReply
  <2>2. PICK c \in {calls[s] : s \in Slot} :
          \/ EndCycle /\ UNCHANGED <<disk, faults>>
          \/ NotSaved /\ EndCycle
          \/ /\ st' = [NoLocal EXCEPT !.token = c.token] /\ Saved(st')
             /\ phase' = "poll" /\ UNCHANGED authKey
    BY <1>5 DEF EnrollReply
  <2>3. /\ phase' \in Phase /\ st' \in Local /\ authKey' \in Key \cup {None}
    BY <1>1, <1>2, <2>2, EndCycleTyped DEF TypeOK, Phase
  <2>4. disk' \in Local /\ faults' \in 0..MaxFaults
    BY <1>1, <2>2, <2>3, SavedTyped DEF TypeOK
  <2>5. QED
    BY <1>5, <2>1, <2>3, <2>4 DEF EnrollReply, TypeOK
<1>6. CASE StatusSend
  <2>1. calls' \in [Slot -> Call] /\ waiting' \in Slot \cup {None}
    BY <1>1, <1>6, SendTyped DEF StatusSend
  <2>2. QED
    BY <1>6, <2>1 DEF StatusSend, TypeOK
<1>7. CASE StatusRefused
  <2>1. calls' \in [Slot -> Call]
    BY <1>1, <1>7, ForgetTyped DEF StatusRefused
  <2>2. \/ EndCycle /\ Removed
        \/ UNCHANGED <<phase, st, authKey, disk, wiped, faults>>
    BY <1>7 DEF StatusRefused
  <2>3. /\ phase' \in Phase /\ st' \in Local /\ disk' \in Local
        /\ authKey' \in Key \cup {None} /\ wiped' \in BOOLEAN /\ faults' \in 0..MaxFaults
    BY <1>1, <2>2, EndCycleTyped, RemovedTyped DEF TypeOK
  <2>4. QED
    BY <1>7, <2>1, <2>3 DEF StatusRefused, TypeOK
<1>8. CASE StatusApproved
  <2>1. calls' \in [Slot -> Call]
    BY <1>1, <1>8, ForgetTyped DEF StatusApproved
  <2>2. PICK s \in Slot :
          /\ \/ Saved(IF st.url THEN disk ELSE [st EXCEPT !.url = TRUE])
             \/ NotSaved
          /\ \/ EndCycle
             \/ /\ phase' = "joining" /\ authKey' = calls[s].key
                /\ st' = [st EXCEPT !.url = TRUE]
    BY <1>8 DEF StatusApproved
  <2>3. /\ phase' \in Phase /\ st' \in Local /\ authKey' \in Key \cup {None}
    BY <1>1, <1>2, <2>2, EndCycleTyped DEF Phase
  <2>4. disk' \in Local /\ faults' \in 0..MaxFaults
    BY <1>1, <1>2, <2>2, SavedTyped
  <2>5. QED
    BY <1>8, <2>1, <2>3, <2>4 DEF StatusApproved, TypeOK
<1>9. CASE Register
  BY <1>9 DEF Register, TypeOK
<1>10. CASE TunnelUp
  BY <1>10 DEF TunnelUp, TypeOK, Phase
<1>11. CASE TunnelFailed
  BY <1>11, EndCycleTyped DEF TunnelFailed, TypeOK
<1>12. CASE SaveJoined
  <2>1. phase' \in Phase /\ st' \in Local /\ unsaved' \in BOOLEAN
    BY <1>1, <1>2, <1>12 DEF SaveJoined, TypeOK, Phase
  <2>2. UNCHANGED <<disk, faults>> \/ Saved(st') \/ NotSaved
    BY <1>12 DEF SaveJoined
  <2>3. disk' \in Local /\ faults' \in 0..MaxFaults
    BY <1>1, <2>1, <2>2, SavedTyped DEF TypeOK
  <2>4. QED
    BY <1>12, <2>1, <2>3 DEF SaveJoined, TypeOK
<1>13. CASE AckSend
  <2>1. calls' \in [Slot -> Call] /\ waiting' \in Slot \cup {None}
    BY <1>1, <1>13, SendTyped DEF AckSend
  <2>2. QED
    BY <1>13, <2>1 DEF AckSend, TypeOK
<1>14. CASE AckReply
  <2>1. calls' \in [Slot -> Call]
    BY <1>1, <1>14, ForgetTyped DEF AckReply
  <2>2. QED
    BY <1>14, <2>1 DEF AckReply, TypeOK, Phase
<1>15. CASE OnlineSend
  <2>1. calls' \in [Slot -> Call] /\ waiting' \in Slot \cup {None}
    BY <1>1, <1>15, SendTyped DEF OnlineSend
  <2>2. QED
    BY <1>15, <2>1 DEF OnlineSend, TypeOK
<1>16. CASE OnlineReply
  <2>1. calls' \in [Slot -> Call]
    BY <1>1, <1>16, ForgetTyped DEF OnlineReply
  <2>2. /\ \/ phase' = "online" /\ UNCHANGED <<st, authKey>>
           \/ EndCycle
        /\ Removed \/ UNCHANGED <<disk, wiped, faults>>
    BY <1>16 DEF OnlineReply
  <2>3. /\ phase' \in Phase /\ st' \in Local /\ disk' \in Local
        /\ authKey' \in Key \cup {None} /\ wiped' \in BOOLEAN /\ faults' \in 0..MaxFaults
    BY <1>1, <2>2, EndCycleTyped, RemovedTyped DEF TypeOK, Phase
  <2>4. QED
    BY <1>16, <2>1, <2>3 DEF OnlineReply, TypeOK
<1>17. CASE CallBroken
  <2>1. /\ phase' \in Phase /\ st' \in Local /\ authKey' \in Key \cup {None}
        /\ waiting' = None
    BY <1>17, CallFailedTyped DEF CallBroken
  <2>2. QED
    BY <1>17, <2>1 DEF CallBroken, CallFailed, TypeOK
<1>18. CASE Reload
  <2>1. calls' \in [Slot -> Call]
    BY <1>1, <1>18, ForgetTyped DEF Reload, StopCycle
  <2>2. phase' \in Phase /\ st' \in Local /\ authKey' \in Key \cup {None}
    BY <1>18, EndCycleTyped DEF Reload, StopCycle
  <2>3. QED
    BY <1>18, <2>1, <2>2 DEF Reload, StopCycle, TypeOK
<1>19. QED
  BY <1>3, <1>4, <1>5, <1>6, <1>7, <1>8, <1>9, <1>10, <1>11, <1>12, <1>13, <1>14,
     <1>15, <1>16, <1>17, <1>18 DEF AgentStep

\* What goes wrong.
LEMMA FailureType ==
    ASSUME TypeOK, Failure
    PROVE  TypeOK'
<1>1. calls \in [Slot -> Call] /\ NoCall \in Call /\ NoLocal \in Local
  BY NoCallType, NoLocalType DEF TypeOK
<1>2. Fault => faults' \in 0..MaxFaults
  BY DEF Fault, TypeOK
<1> USE DEF netVars, agentVars, cycleRest
<1>3. ASSUME NEW s \in Slot, Lose(s) PROVE TypeOK'
  <2>1. calls' \in [Slot -> Call] /\ faults' \in 0..MaxFaults
    BY <1>1, <1>2, <1>3 DEF Lose
  <2>2. QED
    BY <1>3, <2>1 DEF Lose, TypeOK
<1>4. CASE TimeOut
  <2>1. calls' \in [Slot -> Call] /\ faults' \in 0..MaxFaults
    BY <1>1, <1>2, <1>4, ForgetTyped DEF TimeOut
  <2>2. /\ phase' \in Phase /\ st' \in Local /\ authKey' \in Key \cup {None}
        /\ waiting' = None
    BY <1>4, CallFailedTyped DEF TimeOut
  <2>3. QED
    BY <1>4, <2>1, <2>2 DEF TimeOut, CallFailed, TypeOK
<1>5. CASE Crash
  <2>1. calls' \in [Slot -> Call] /\ faults' \in 0..MaxFaults
    BY <1>1, <1>2, <1>5, ForgetTyped DEF Crash, StopCycle
  <2>2. phase' \in Phase /\ st' \in Local /\ authKey' \in Key \cup {None}
    BY <1>5, EndCycleTyped DEF Crash, StopCycle
  <2>3. QED
    BY <1>5, <2>1, <2>2 DEF Crash, StopCycle, TypeOK
<1>6. CASE HubCrash
  <2>1. calls' \in [Slot -> Call] /\ faults' \in 0..MaxFaults
    BY <1>1, <1>2, <1>6 DEF HubCrash
  <2>2. admin' \in [Admin -> Request]
    BY <1>6, NoRequestType DEF HubCrash, TypeOK
  <2>3. QED
    BY <1>6, <2>1, <2>2 DEF HubCrash, TypeOK
<1>7. CASE Reset
  <2>1. faults' \in 0..MaxFaults /\ reload' \in BOOLEAN
    BY <1>2, <1>7 DEF Reset, TypeOK
  <2>2. QED
    BY <1>1, <1>7, <2>1 DEF Reset, TypeOK
<1>8. CASE Expire
  <2>1. faults' \in 0..MaxFaults /\ preauth' \subseteq Key
    BY <1>2, <1>8 DEF Expire, TypeOK
  <2>2. QED
    BY <1>8, <2>1 DEF Expire, TypeOK
<1>9. QED
  BY <1>3, <1>4, <1>5, <1>6, <1>7, <1>8 DEF Failure

LEMMA TypeStep ==
    ASSUME TypeOK, HandlerShape, [Next]_vars
    PROVE  TypeOK'
<1>1. CASE UNCHANGED vars
  BY <1>1 DEF vars, TypeOK
<1>2. CASE Next
  BY <1>2, HubType, AdminType, AgentType, FailureType DEF Next
<1>3. QED
  BY <1>1, <1>2

-----------------------------------------------------------------------------
(* What a step does to the calls in progress. *)

LEMMA AnswerCalls ==
    ASSUME calls \in [Slot -> Call], NEW s \in Slot, NEW c \in Call, Answer(s, c)
    PROVE  \A x \in Slot :
              \/ calls'[x] = calls[x]
              \/ /\ x = s /\ calls'[x].at = "done"
                 /\ calls'[x].op \in {c.op, "none"} /\ calls'[x].key \in {c.key, None}
BY DEF Answer, NoCall, Call

LEMMA SendCalls ==
    ASSUME calls \in [Slot -> Call], NEW s \in Slot, NEW op, NEW t, Send(s, op, t)
    PROVE  \A x \in Slot :
              \/ calls'[x] = calls[x]
              \/ calls'[x].at = "sent" /\ calls'[x].op = op /\ calls'[x].key = None
BY DEF Send, NoCall, Call

LEMMA ForgetCalls ==
    ASSUME calls \in [Slot -> Call], Forget
    PROVE  \A x \in Slot : calls'[x] \in {calls[x], NoCall}
BY DEF Forget

\* The hub moves one call on, and puts no key in it but that of the row.
LEMMA HubCalls ==
    ASSUME TypeOK, NEW s \in Slot, HubStep(s)
    PROVE  \A x \in Slot :
              \/ calls'[x] = calls[x]
              \/ /\ x = s /\ calls'[x].op \in {calls[x].op, "none"}
                 /\ calls'[x].at = "read" => calls'[x].status = row.status
                 /\ calls'[x].key \in {calls[x].key, row.key, None}
<1>1. calls \in [Slot -> Call] /\ calls[s] \in Call /\ row.key \in Key \cup {None}
      /\ row.status \in Status \cup {"none"}
  BY DEF TypeOK, Row
<1>2. CASE EnrollRead(s)
  BY <1>1, <1>2 DEF EnrollRead, Call
<1>3. CASE EnrollUpdate(s)
  <2>1. PICK c \in Call : Answer(s, c) /\ c.op = calls[s].op /\ c.key = calls[s].key
    <3>1. [calls[s] EXCEPT !.status = "pending"] \in Call
      BY <1>1, CallStatus DEF Status
    <3>2. QED
      BY <1>1, <1>3, <3>1 DEF EnrollUpdate, Call
  <2>2. QED
    BY <1>1, <2>1, AnswerCalls
<1>4. CASE EnrollInsert(s)
  <2>1. PICK c \in Call : Answer(s, c) /\ c.op = calls[s].op /\ c.key = calls[s].key
    <3>1. /\ [calls[s] EXCEPT !.status = "pending"] \in Call
          /\ [calls[s] EXCEPT !.status = "error"] \in Call
      BY <1>1, CallStatus DEF Status
    <3>2. QED
      BY <1>1, <1>4, <3>1 DEF EnrollInsert, Call
  <2>2. QED
    BY <1>1, <2>1, AnswerCalls
<1>5. CASE EnrollRefuse(s)
  <2>1. PICK c \in Call : Answer(s, c) /\ c.op = calls[s].op /\ c.key = calls[s].key
    <3>1. [calls[s] EXCEPT !.status = "error"] \in Call
      BY <1>1, CallStatus
    <3>2. QED
      BY <1>1, <1>5, <3>1 DEF EnrollRefuse, Call
  <2>2. QED
    BY <1>1, <2>1, AnswerCalls
<1>6. CASE Authenticate(s)
  <2>1. CASE calls' = [calls EXCEPT ![s] = [calls[s] EXCEPT !.at = "read", !.id = row.id,
                                                            !.status = row.status]]
    BY <1>1, <2>1 DEF Call
  <2>2. CASE \E c \in Call : Answer(s, c) /\ c.op = calls[s].op /\ c.key = calls[s].key
    BY <1>1, <2>2, AnswerCalls
  <2>3. /\ [calls[s] EXCEPT !.status = "unauthorized"] \in Call
        /\ [calls[s] EXCEPT !.status = row.status] \in Call
    BY <1>1, CallStatus
  <2>4. QED
    BY <1>1, <1>6, <2>1, <2>2, <2>3 DEF Authenticate, Call
<1>7. CASE StatusAnswer(s)
  <2>1. PICK c \in Call : Answer(s, c) /\ c.op = calls[s].op /\ c.key \in {row.key, None}
    <3>1. [calls[s] EXCEPT !.key = row.key] \in Call /\ [calls[s] EXCEPT !.key = None] \in Call
      BY <1>1, CallKey
    <3>2. QED
      BY <1>1, <1>7, <3>1 DEF StatusAnswer, Call
  <2>2. QED
    BY <1>1, <2>1, AnswerCalls
<1>8. CASE AckKey(s)
  BY <1>1, <1>8, AnswerCalls DEF AckKey
<1>9. QED
  BY <1>2, <1>3, <1>4, <1>5, <1>6, <1>7, <1>8 DEF HubStep

\* The agent starts one call, forgets one, or leaves them alone.
LEMMA AgentCalls ==
    ASSUME TypeOK, AgentStep
    PROVE  \A x \in Slot :
              \/ calls'[x] \in {calls[x], NoCall}
              \/ /\ calls'[x].at = "sent" /\ calls'[x].key = None
                 /\ calls'[x].op = "ack" => phase = "acking" /\ AckSend
<1>1. calls \in [Slot -> Call]
  BY DEF TypeOK
<1>2. CASE EnrollSend
  BY <1>1, <1>2, SendCalls DEF EnrollSend
<1>3. CASE StatusSend
  BY <1>1, <1>3, SendCalls DEF StatusSend
<1>4. CASE AckSend
  BY <1>1, <1>4, SendCalls DEF AckSend
<1>5. CASE OnlineSend
  BY <1>1, <1>5, SendCalls DEF OnlineSend
<1>6. CASE Forget
  BY <1>1, <1>6, ForgetCalls
<1>7. CASE UNCHANGED calls
  BY <1>7
<1>8. QED
  BY <1>2, <1>3, <1>4, <1>5, <1>6, <1>7
     DEF AgentStep, Resume, EnrollReply, StatusRefused, StatusApproved, Register, TunnelUp,
         TunnelFailed, SaveJoined, AckReply, OnlineReply, CallBroken, Reload, StopCycle

LEMMA FailureCalls ==
    ASSUME TypeOK, Failure
    PROVE  \A x \in Slot : calls'[x] \in {calls[x], NoCall}
<1>1. calls \in [Slot -> Call]
  BY DEF TypeOK
<1>2. CASE Forget
  BY <1>1, <1>2, ForgetCalls
<1>3. CASE UNCHANGED calls
  BY <1>3
<1>4. ASSUME NEW s \in Slot, Lose(s) PROVE \A x \in Slot : calls'[x] \in {calls[x], NoCall}
  BY <1>1, <1>4 DEF Lose
<1>5. CASE HubCrash
  BY <1>5 DEF HubCrash
<1>6. QED
  BY <1>2, <1>3, <1>4, <1>5 DEF Failure, cycleRest, TimeOut, Crash, StopCycle, Reset, Expire, agentVars

-----------------------------------------------------------------------------
(* What a handler has read. *)

LEMMA ShapeStep ==
    ASSUME TypeOK, HandlerShape, [Next]_vars
    PROVE  HandlerShape'
<1> DEFINE CallShape(x) == calls[x].at = "read" => calls[x].status \in Status \cup {"none"}
           ReqShape(b) ==
             /\ admin[b].op = "rekey" => HeadscaleEnabled
             /\ HeadscaleEnabled /\ admin[b].op \in {"approve", "rekey"} /\ admin[b].at = "write"
                  => admin[b].key # None
<1>1. (\A x \in Slot : CallShape(x)) /\ (\A b \in Admin : ReqShape(b))
  BY DEF HandlerShape
<1>2. NoCall.at = "done" /\ NoRequest.op = "none" /\ row.status \in Status \cup {"none"}
      /\ admin \in [Admin -> Request]
  BY DEF NoCall, NoRequest, TypeOK, Row
<1>3. CASE UNCHANGED vars
  BY <1>3 DEF vars, HandlerShape
<1>4. ASSUME NEW s \in Slot, HubStep(s) PROVE HandlerShape'
  <2>1. \A x \in Slot : CallShape(x)'
    BY <1>1, <1>2, <1>4, HubCalls
  <2>2. UNCHANGED admin
    BY <1>4 DEF HubStep, EnrollRead, EnrollUpdate, EnrollInsert, EnrollRefuse, Authenticate,
                StatusAnswer, AckKey
  <2>3. QED
    BY <1>1, <2>1, <2>2 DEF HandlerShape
<1>5. ASSUME NEW a \in Admin, Begin(a) \/ AdminStep(a) PROVE HandlerShape'
  <2>1. UNCHANGED calls
    BY <1>5 DEF Begin, AdminStep, NewKey, GrantWrite, RevokeWrite, RemoveNodes, PurgeRow
  <2>2. \A b \in Admin : b # a => admin'[b] = admin[b]
    BY <1>2, <1>5 DEF Begin, AdminStep, NewKey, GrantWrite, RevokeWrite, RemoveNodes, PurgeRow
  <2>3. ReqShape(a)'
    <3>1. CASE Begin(a)
      BY <1>2, <3>1 DEF Begin
    <3>2. CASE NewKey(a)
      BY <1>1, <1>2, <3>2 DEF NewKey, Request
    <3>3. CASE admin' = [admin EXCEPT ![a] = NoRequest]
      BY <1>2, <3>3
    <3>4. CASE RevokeWrite(a)
      BY <1>2, <3>4 DEF RevokeWrite, AfterEviction, Request
    <3>5. CASE RemoveNodes(a)
      BY <1>1, <1>2, <3>5 DEF RemoveNodes, AfterEviction, Request
    <3>6. QED
      BY <1>5, <3>1, <3>2, <3>3, <3>4, <3>5 DEF AdminStep, GrantWrite, PurgeRow
  <2>4. QED
    BY <1>1, <2>1, <2>2, <2>3 DEF HandlerShape
<1>6. CASE AgentStep
  <2>1. \A x \in Slot : CallShape(x)'
    BY <1>1, <1>2, <1>6, AgentCalls
  <2>2. UNCHANGED admin
    BY <1>6 DEF AgentStep, agentRest, cycleRest, Resume, EnrollSend, EnrollReply, StatusSend, StatusRefused,
       StatusApproved, Register, TunnelUp, TunnelFailed, SaveJoined, AckSend, AckReply,
       OnlineSend, OnlineReply, CallBroken, Reload
  <2>3. QED
    BY <1>1, <2>1, <2>2 DEF HandlerShape
<1>7. CASE Failure
  <2>1. \A x \in Slot : CallShape(x)'
    BY <1>1, <1>2, <1>7, FailureCalls
  <2>2. \A b \in Admin : ReqShape(b)'
    BY <1>1, <1>2, <1>7 DEF Failure, cycleRest, Lose, TimeOut, Crash, HubCrash, Reset, Expire
  <2>3. QED
    BY <2>1, <2>2 DEF HandlerShape
<1>8. QED
  BY <1>3, <1>4, <1>5, <1>6, <1>7 DEF Next

-----------------------------------------------------------------------------
(* What the agent acknowledges is on disk, unless its write failed. *)

\* Only the agent touches its files, and it forgets that it joined only when it
\* removes them.
LEMMA JoinedKept ==
    ASSUME TypeOK, SavedFirst, Next, ~wiped'
    PROVE  ~wiped /\ (disk.joined => disk'.joined) /\ (unsaved => unsaved')
<1>1. disk \in Local /\ st \in Local
  BY DEF TypeOK
<1>2. ASSUME NEW s \in Slot, HubStep(s) PROVE UNCHANGED <<disk, wiped, unsaved>>
  BY <1>2 DEF HubStep, EnrollRead, EnrollUpdate, EnrollInsert, EnrollRefuse, Authenticate,
              StatusAnswer, AckKey, agentVars
<1>3. ASSUME NEW a \in Admin, Begin(a) \/ AdminStep(a) PROVE UNCHANGED <<disk, wiped, unsaved>>
  BY <1>3 DEF Begin, AdminStep, NewKey, GrantWrite, RevokeWrite, RemoveNodes, PurgeRow, agentVars
<1>4. CASE AgentStep
  <2>1. CASE EnrollReply
    BY <2>1 DEF EnrollReply, Saved, NotSaved, SavedFirst, CycleSaved, NoLocal
  <2>2. CASE StatusApproved
    BY <1>1, <2>2 DEF StatusApproved, Saved, NotSaved, SavedFirst, CycleSaved, Local
  <2>3. CASE SaveJoined
    BY <1>1, <2>3 DEF SaveJoined, Saved, NotSaved, Local
  <2>4. CASE StatusRefused
    BY <2>4 DEF StatusRefused, Removed
  <2>5. CASE OnlineReply
    BY <2>5 DEF OnlineReply, Removed
  <2>6. CASE UNCHANGED <<disk, wiped, unsaved>>
    BY <2>6
  <2>7. QED
    BY <1>4, <2>1, <2>2, <2>3, <2>4, <2>5, <2>6
       DEF AgentStep, agentRest, Resume, EnrollSend, StatusSend, Register, TunnelUp, TunnelFailed,
           AckSend, AckReply, OnlineSend, CallBroken, CallFailed, Reload, StopCycle
<1>5. CASE UNCHANGED <<disk, wiped, unsaved>>
  BY <1>5
<1>6. CASE Failure
  <2>1. ~Reset
    BY DEF Reset
  <2>2. UNCHANGED <<disk, wiped, unsaved>>
    BY <1>6, <2>1 DEF Failure, cycleRest, Lose, TimeOut, CallFailed, Crash, StopCycle, HubCrash, Expire,
                      agentVars
  <2>3. QED
    BY <1>5, <2>2
<1>7. QED
  BY <1>2, <1>3, <1>4, <1>5, <1>6 DEF Next

\* What the cycle holds is what it last saved, or could not save.
LEMMA CycleStep ==
    ASSUME TypeOK, SavedFirst, AgentStep \/ Failure, ~wiped, ~wiped'
    PROVE  CycleSaved'
<1>1. disk \in Local /\ st \in Local /\ phase \in Phase
  BY DEF TypeOK
<1>2. CycleSaved
  BY DEF SavedFirst, CycleSaved
<1> USE DEF CycleSaved
<1>3. CASE EndCycle
  BY <1>3 DEF EndCycle
<1>4. CASE UNCHANGED <<phase, st, disk, unsaved>>
  BY <1>2, <1>4
<1>5. CASE Resume
  BY <1>5 DEF Resume
<1>6. CASE EnrollSend
  BY <1>6 DEF EnrollSend
<1>7. CASE EnrollReply
  BY <1>3, <1>7 DEF EnrollReply, Saved, NoLocal
<1>8. CASE StatusRefused
  BY <1>3, <1>4, <1>8 DEF StatusRefused
<1>9. CASE StatusApproved
  <2>1. phase = "poll"
    BY <1>9 DEF StatusApproved
  <2>2. UNCHANGED unsaved /\ disk' \in {disk, [st EXCEPT !.url = TRUE]}
    BY <1>9 DEF StatusApproved, Saved, NotSaved
  <2>3. CASE ~EndCycle
    BY <1>1, <1>2, <1>9, <2>1, <2>2, <2>3 DEF StatusApproved, Local
  <2>4. QED
    BY <1>3, <2>3
<1>10. CASE TunnelUp
  BY <1>2, <1>10 DEF TunnelUp, agentRest
<1>11. CASE SaveJoined
  BY <1>1, <1>2, <1>11 DEF SaveJoined, Saved, NotSaved, Local
<1>12. CASE AckReply
  BY <1>2, <1>12 DEF AckReply, agentRest
<1>13. CASE OnlineReply
  BY <1>1, <1>2, <1>3, <1>13 DEF OnlineReply, Removed
<1>14. CASE CallFailed /\ UNCHANGED unsaved
  BY <1>2, <1>3, <1>4, <1>14 DEF CallFailed
<1>15. QED
  BY <1>3, <1>4, <1>5, <1>6, <1>7, <1>8, <1>9, <1>10, <1>11, <1>12, <1>13, <1>14
     DEF AgentStep, agentRest, StatusSend, Register, TunnelFailed, AckSend, OnlineSend, CallBroken, Reload,
         StopCycle, Failure, cycleRest, Lose, TimeOut, Crash, HubCrash, Reset, Expire, agentVars

LEMMA SavedStep ==
    ASSUME TypeOK, SavedFirst, [Next]_vars
    PROVE  SavedFirst'
<1>1. CASE UNCHANGED vars
  BY <1>1 DEF vars, SavedFirst, CycleSaved
<1>2. CASE Next
  <2> SUFFICES ASSUME ~wiped'
               PROVE  /\ CycleSaved'
                      /\ \A x \in Slot : calls'[x].op = "ack" => disk'.joined \/ unsaved'
    BY DEF SavedFirst, CycleSaved
  <2>1. ~wiped /\ (disk.joined => disk'.joined) /\ (unsaved => unsaved')
    BY <1>2, JoinedKept
  <2>2. CycleSaved'
    <3>1. CASE AgentStep \/ Failure
      BY <2>1, <3>1, CycleStep
    <3>2. ASSUME NEW s \in Slot, HubStep(s) PROVE UNCHANGED <<phase, st, disk, unsaved>>
      BY <3>2 DEF HubStep, EnrollRead, EnrollUpdate, EnrollInsert, EnrollRefuse, Authenticate,
                  StatusAnswer, AckKey, agentVars
    <3>3. ASSUME NEW a \in Admin, Begin(a) \/ AdminStep(a) PROVE UNCHANGED <<phase, st, disk, unsaved>>
      BY <3>3 DEF Begin, AdminStep, NewKey, GrantWrite, RevokeWrite, RemoveNodes, PurgeRow, agentVars
    <3>4. QED
      BY <1>2, <2>1, <3>1, <3>2, <3>3 DEF Next, SavedFirst, CycleSaved
  <2>3. \A x \in Slot : calls'[x].op = "ack" => calls[x].op = "ack" \/ phase = "acking"
    <3>1. ASSUME NEW a \in Admin, Begin(a) \/ AdminStep(a) PROVE UNCHANGED calls
      BY <3>1 DEF Begin, AdminStep, NewKey, GrantWrite, RevokeWrite, RemoveNodes, PurgeRow
    <3>2. NoCall.op = "none"
      BY DEF NoCall
    <3>3. QED
      BY <1>2, <3>1, <3>2, HubCalls, AgentCalls, FailureCalls DEF Next
  <2>4. phase = "acking" => disk.joined \/ unsaved
    BY <2>1 DEF SavedFirst, CycleSaved
  <2>5. QED
    BY <2>1, <2>2, <2>3, <2>4 DEF SavedFirst, CycleSaved
<1>3. QED
  BY <1>1, <1>2

-----------------------------------------------------------------------------
(* No approved device without a key that has not joined. *)

LEMMA StrandedStep ==
    ASSUME TypeOK, HandlerShape, SavedFirst, NeverStranded, [Next]_vars
    PROVE  NeverStranded'
<1>1. CASE UNCHANGED vars
  BY <1>1 DEF vars, NeverStranded
<1>2. CASE Next
  <2> SUFFICES ASSUME HeadscaleEnabled, ~wiped', ~unsaved', ~revived',
                      row'.status = "approved", row'.key = None
               PROVE  disk'.joined
    BY DEF NeverStranded
  <2>1. ~wiped /\ ~unsaved /\ (disk.joined => disk'.joined)
    BY <1>2, JoinedKept
  <2>2. row \in Row
    BY DEF TypeOK
  <2>3. ~revived
    BY <1>2 DEF Next, HubStep, EnrollRead, EnrollUpdate, EnrollInsert, EnrollRefuse,
       Authenticate, StatusAnswer, AckKey, agentRest, cycleRest,
       Begin, AdminStep, NewKey, GrantWrite, RevokeWrite, RemoveNodes, PurgeRow,
       AgentStep, Resume, EnrollSend, EnrollReply, StatusSend, StatusRefused, StatusApproved,
       Register, TunnelUp, TunnelFailed, SaveJoined, AckSend, AckReply, OnlineSend,
       OnlineReply, CallBroken, Reload, Failure, Lose, TimeOut, Crash, HubCrash, Reset, Expire
  <2>4. CASE row.status = "approved" /\ row.key = None
    BY <2>1, <2>3, <2>4 DEF NeverStranded
  <2>5. ASSUME NEW s \in Slot, HubStep(s), ~(row.status = "approved" /\ row.key = None)
        PROVE  disk.joined
    <3>1. CASE EnrollUpdate(s)
      BY <2>2, <2>5, <3>1 DEF EnrollUpdate, EnrollStatus, Banned, Row
    <3>2. CASE EnrollInsert(s)
      BY <2>2, <2>5, <3>2 DEF EnrollInsert, NoRow, Row
    <3>3. CASE AckKey(s)
      BY <2>1, <3>3 DEF AckKey, SavedFirst
    <3>4. CASE UNCHANGED row
      BY <2>5, <3>4
    <3>5. QED
      BY <2>5, <3>1, <3>2, <3>3, <3>4 DEF HubStep, EnrollRead, EnrollRefuse, Authenticate,
         StatusAnswer
  <2>6. ASSUME NEW a \in Admin, Begin(a) \/ AdminStep(a),
               ~(row.status = "approved" /\ row.key = None)
        PROVE  FALSE
    <3>1. CASE GrantWrite(a)
      BY <2>2, <2>6, <3>1 DEF GrantWrite, HandlerShape, Row
    <3>2. CASE RevokeWrite(a)
      BY <2>2, <2>6, <3>2 DEF RevokeWrite, Row
    <3>3. CASE PurgeRow(a)
      BY <2>6, <3>3 DEF PurgeRow, NoRow
    <3>4. CASE UNCHANGED row
      BY <2>6, <3>4
    <3>5. QED
      BY <2>6, <3>1, <3>2, <3>3, <3>4 DEF AdminStep, Begin, NewKey, RemoveNodes
  <2>7. AgentStep \/ Failure => UNCHANGED row
    BY DEF AgentStep, agentRest, cycleRest, Resume, EnrollSend, EnrollReply, StatusSend, StatusRefused,
       StatusApproved, Register, TunnelUp, TunnelFailed, SaveJoined, AckSend, AckReply,
       OnlineSend, OnlineReply, CallBroken, Reload, Failure, Lose, TimeOut, Crash, HubCrash,
       Reset, Expire
  <2>8. QED
    BY <1>2, <2>1, <2>4, <2>5, <2>6, <2>7 DEF Next
<1>3. QED
  BY <1>1, <1>2

-----------------------------------------------------------------------------
(* Where keys are. *)

\* A step that creates, grants and uses no key keeps the custody of keys.
LEMMA CustodyFrame ==
    ASSUME KeyCustody, UNCHANGED <<issued, granted, spent>>, preauth' \subseteq preauth,
           \A b \in Admin : admin'[b].key \in {admin[b].key, None},
           row'.key \in {row.key, None}, authKey' \in {authKey, None},
           \A x \in Slot : calls'[x].key \in {calls[x].key, row.key, None}
    PROVE  KeyCustody'
<1>1. preauth' \cup granted' \cup spent' \subseteq issued' /\ preauth' \cap spent' = {}
  BY DEF KeyCustody
<1>2. \A b \in Admin : admin'[b].key # None =>
        /\ admin'[b].key \in issued' \ granted'
        /\ \A d \in Admin \ {b} : admin'[d].key # admin'[b].key
  BY DEF KeyCustody
<1>3. {row'.key, authKey'} \subseteq granted' \cup {None}
  BY DEF KeyCustody
<1>4. \A x \in Slot : calls'[x].key \in granted' \cup {None}
  BY DEF KeyCustody
<1>5. QED
  BY <1>1, <1>2, <1>3, <1>4 DEF KeyCustody

LEMMA HubCustody ==
    ASSUME TypeOK, KeyCustody, NEW s \in Slot, HubStep(s)
    PROVE  KeyCustody'
<1>1. row \in Row
  BY DEF TypeOK
<1>2. row'.key \in {row.key, None}
  <2>1. CASE EnrollUpdate(s)
    BY <1>1, <2>1 DEF EnrollUpdate, Row
  <2>2. CASE EnrollInsert(s)
    BY <2>2 DEF EnrollInsert, NoRow
  <2>3. CASE AckKey(s)
    BY <1>1, <2>3 DEF AckKey, Row
  <2>4. CASE UNCHANGED row
    BY <2>4
  <2>5. QED
    BY <2>1, <2>2, <2>3, <2>4 DEF HubStep, EnrollRead, EnrollRefuse, Authenticate, StatusAnswer
<1>3. \A x \in Slot : calls'[x].key \in {calls[x].key, row.key, None}
  BY HubCalls
<1>4. UNCHANGED <<issued, granted, spent, preauth, admin, authKey>>
  BY DEF HubStep, EnrollRead, EnrollUpdate, EnrollInsert, EnrollRefuse, Authenticate,
         StatusAnswer, AckKey, netVars, agentVars
<1>5. QED
  BY <1>2, <1>3, <1>4, CustodyFrame

LEMMA AdminCustody ==
    ASSUME TypeOK, KeyCustody, NEW a \in Admin, Begin(a) \/ AdminStep(a)
    PROVE  KeyCustody'
<1>1. /\ row \in Row /\ admin \in [Admin -> Request] /\ admin[a] \in Request
      /\ NoRequest.key = None /\ NoRow.key = None
  BY DEF TypeOK, NoRequest, NoRow
<1>2. UNCHANGED calls /\ UNCHANGED <<spent, authKey>>
  BY DEF Begin, AdminStep, NewKey, GrantWrite, RevokeWrite, RemoveNodes, PurgeRow, netVars,
         agentVars
<1>3. CASE Begin(a)
  <2>1. \A b \in Admin : admin'[b].key \in {admin[b].key, None}
    BY <1>1, <1>3 DEF Begin
  <2>2. QED
    BY <1>2, <1>3, <2>1, CustodyFrame DEF Begin, netVars
<1>4. CASE NewKey(a)
  <2>1. CASE admin' = [admin EXCEPT ![a] = NoRequest] /\ UNCHANGED <<issued, preauth>>
    <3>1. \A b \in Admin : admin'[b].key \in {admin[b].key, None}
      BY <1>1, <2>1
    <3>2. QED
      BY <1>2, <1>4, <2>1, <3>1, CustodyFrame DEF NewKey
  <2>2. CASE ~(admin' = [admin EXCEPT ![a] = NoRequest] /\ UNCHANGED <<issued, preauth>>)
    <3>1. PICK k \in Key \ issued :
            /\ issued' = issued \cup {k} /\ preauth' = preauth \cup {k}
            /\ admin' = [admin EXCEPT ![a] = [@ EXCEPT !.at = "write", !.key = k]]
      BY <1>4, <2>2 DEF NewKey
    <3>2. UNCHANGED <<granted, row>>
      BY <1>4 DEF NewKey
    <3>3. admin'[a].key = k /\ \A b \in Admin \ {a} : admin'[b] = admin[b]
      BY <1>1, <3>1 DEF Request
    <3>4. k \notin issued /\ k # None
      BY <3>1
    <3>5. \A b \in Admin : admin'[b].key # None =>
            /\ admin'[b].key \in issued' \ granted'
            /\ \A d \in Admin \ {b} : admin'[d].key # admin'[b].key
      BY <3>1, <3>2, <3>3, <3>4 DEF KeyCustody
    <3>6. preauth' \cup granted' \cup spent' \subseteq issued' /\ preauth' \cap spent' = {}
      BY <1>2, <3>1, <3>2 DEF KeyCustody
    <3>7. QED
      BY <1>2, <3>2, <3>5, <3>6 DEF KeyCustody
  <2>3. QED
    BY <2>1, <2>2
<1>5. CASE GrantWrite(a)
  <2>1. /\ granted' = IF Hit(admin[a].id) THEN granted \cup ({admin[a].key} \ {None}) ELSE granted
        /\ UNCHANGED <<issued, preauth>>
    BY <1>5 DEF GrantWrite, netVars
  <2>2. admin'[a].key = None /\ \A b \in Admin \ {a} : admin'[b] = admin[b]
    BY <1>1, <1>5 DEF GrantWrite
  <2>3. \A b \in Admin : admin'[b].key # None =>
          /\ admin'[b].key \in issued' \ granted'
          /\ \A d \in Admin \ {b} : admin'[d].key # admin'[b].key
    BY <2>1, <2>2 DEF KeyCustody
  <2>4. preauth' \cup granted' \cup spent' \subseteq issued' /\ preauth' \cap spent' = {}
    BY <1>2, <2>1 DEF KeyCustody
  <2>5. row'.key \in granted' \cup {None}
    BY <1>1, <1>5, <2>1 DEF GrantWrite, KeyCustody, Row
  <2>6. QED
    BY <1>2, <2>1, <2>3, <2>4, <2>5 DEF KeyCustody
<1>6. CASE RevokeWrite(a)
  <2>1. row'.key \in {row.key, None} /\ \A b \in Admin : admin'[b].key \in {admin[b].key, None}
    BY <1>1, <1>6 DEF RevokeWrite, AfterEviction, Row, Request
  <2>2. QED
    BY <1>2, <1>6, <2>1, CustodyFrame DEF RevokeWrite, netVars
<1>7. CASE RemoveNodes(a)
  <2>1. \A b \in Admin : admin'[b].key \in {admin[b].key, None}
    BY <1>1, <1>7 DEF RemoveNodes, AfterEviction, Request
  <2>2. QED
    BY <1>2, <1>7, <2>1, CustodyFrame DEF RemoveNodes
<1>8. CASE PurgeRow(a)
  <2>1. row'.key \in {row.key, None} /\ \A b \in Admin : admin'[b].key \in {admin[b].key, None}
    BY <1>1, <1>8 DEF PurgeRow
  <2>2. QED
    BY <1>2, <1>8, <2>1, CustodyFrame DEF PurgeRow, netVars
<1>9. QED
  BY <1>3, <1>4, <1>5, <1>6, <1>7, <1>8 DEF AdminStep

\* Outside the join, the agent and the failures only pass keys on.
LEMMA AgentCustody ==
    ASSUME TypeOK, KeyCustody, AgentStep \/ Failure
    PROVE  KeyCustody'
<1>1. NoCall.key = None /\ NoRequest.key = None
  BY DEF NoCall, NoRequest
<1>2. \A x \in Slot : calls'[x].key \in {calls[x].key, row.key, None}
  BY <1>1, AgentCalls, FailureCalls
<1>3. CASE Register
  <2>1. /\ authKey \in preauth /\ preauth' = preauth \ {authKey}
        /\ spent' = spent \cup {authKey}
        /\ UNCHANGED <<row, admin, issued, granted, authKey, calls>>
    BY <1>3 DEF Register
  <2>2. preauth' \cup granted' \cup spent' \subseteq issued' /\ preauth' \cap spent' = {}
    BY <2>1 DEF KeyCustody
  <2>3. QED
    BY <2>1, <2>2 DEF KeyCustody
<1>4. CASE StatusApproved
  <2>1. PICK s \in Slot : authKey' \in {None, calls[s].key}
    BY <1>4 DEF StatusApproved, EndCycle
  <2>2. UNCHANGED <<row, admin, preauth, issued, spent, granted>>
    BY <1>4 DEF StatusApproved, agentRest, cycleRest, netVars
  <2>3. \A x \in Slot : calls'[x].key \in granted \cup {None}
    BY <1>2 DEF KeyCustody
  <2>4. QED
    BY <2>1, <2>2, <2>3 DEF KeyCustody
<1>5. CASE AgentStep /\ ~Register /\ ~StatusApproved
  <2>1. UNCHANGED <<issued, granted, spent, preauth, row, admin>> /\ authKey' \in {authKey, None}
    BY <1>5 DEF AgentStep, agentRest, cycleRest, netVars, EndCycle, Resume, EnrollSend, EnrollReply,
       StatusSend, StatusRefused, TunnelUp, TunnelFailed, SaveJoined, AckSend, AckReply,
       OnlineSend, OnlineReply, CallBroken, CallFailed, Reload, StopCycle
  <2>2. QED
    BY <1>2, <2>1, CustodyFrame
<1>6. CASE Failure
  <2>1. UNCHANGED <<issued, granted, spent, row>> /\ preauth' \subseteq preauth
    BY <1>6 DEF Failure, cycleRest, netVars, Lose, TimeOut, Crash, HubCrash, Reset, Expire
  <2>2. authKey' \in {authKey, None}
    BY <1>6 DEF Failure, cycleRest, agentVars, EndCycle, Lose, TimeOut, CallFailed, Crash, StopCycle,
                HubCrash, Reset, Expire
  <2>3. \A b \in Admin : admin'[b].key \in {admin[b].key, None}
    BY <1>1, <1>6 DEF Failure, cycleRest, Lose, TimeOut, Crash, HubCrash, Reset, Expire
  <2>4. QED
    BY <1>2, <2>1, <2>2, <2>3, CustodyFrame
<1>7. QED
  BY <1>3, <1>4, <1>5, <1>6

LEMMA CustodyStep ==
    ASSUME TypeOK, KeyCustody, [Next]_vars
    PROVE  KeyCustody'
<1>1. CASE UNCHANGED vars
  BY <1>1 DEF vars, KeyCustody
<1>2. QED
  BY <1>1, HubCustody, AdminCustody, AgentCustody DEF Next

-----------------------------------------------------------------------------
(* The theorems. *)

LEMMA InitInvariant == Init => IInv
<1> SUFFICES ASSUME Init PROVE IInv
  OBVIOUS
<1>1. TypeOK
  BY InitType
<1>2. HandlerShape
  BY DEF Init, HandlerShape, NoCall, NoRequest
<1>3. SavedFirst
  BY DEF Init, SavedFirst, CycleSaved, NoCall
<1>4. NeverStranded
  BY DEF Init, NeverStranded, NoRow
<1>5. KeyCustody
  BY DEF Init, KeyCustody, NoCall, NoRequest, NoRow
<1>6. QED
  BY <1>1, <1>2, <1>3, <1>4, <1>5 DEF IInv

LEMMA InvariantStep == IInv /\ [Next]_vars => IInv'
BY TypeStep, ShapeStep, SavedStep, StrandedStep, CustodyStep DEF IInv

\* The inductive invariant holds in every reachable state: types, what handlers have
\* read, what is on disk, and where every key is.
THEOREM Invariant == Spec => []IInv
BY InitInvariant, InvariantStep, PTL DEF Spec

\* Every variable stays in its type.
THEOREM TypeCorrect == Spec => []TypeOK
<1>1. IInv => TypeOK
  BY DEF IInv
<1>2. QED
  BY <1>1, Invariant, PTL

\* SaveState before AckKey, and a key delivered until it is acknowledged, leave no
\* approved device without a key and without a join.
THEOREM NoDeviceStranded == Spec => []NeverStranded
<1>1. IInv => NeverStranded
  BY DEF IInv
<1>2. QED
  BY <1>1, Invariant, PTL

\* A step of the hub, an operator or the agent is a grant, an admission, an eviction,
\* or nothing to the network's membership.
LEMMA MembershipStep ==
    ASSUME IInv, [Next]_vars
    PROVE  [M!Next]_(M!vars)
<1> USE DEF IInv
<1>1. CASE UNCHANGED <<granted, spent, nodes>>
  BY <1>1 DEF M!vars
<1>2. CASE UNCHANGED vars
  BY <1>1, <1>2 DEF vars
<1>3. ASSUME NEW s \in Slot, HubStep(s) PROVE UNCHANGED <<granted, spent, nodes>>
  BY <1>3 DEF HubStep, EnrollRead, EnrollUpdate, EnrollInsert, EnrollRefuse, Authenticate,
              StatusAnswer, AckKey, netVars
<1>4. ASSUME NEW a \in Admin, Begin(a) \/ AdminStep(a)
      PROVE  [M!Next]_(M!vars)
  <2>1. CASE GrantWrite(a)
    <3>1. UNCHANGED <<spent, nodes>> /\ granted' \in {granted, granted \cup ({admin[a].key} \ {None})}
      BY <2>1 DEF GrantWrite, netVars
    <3>2. CASE UNCHANGED granted
      BY <1>1, <3>1, <3>2
    <3>3. CASE ~UNCHANGED granted
      <4>1. admin[a].key # None /\ granted' = granted \cup {admin[a].key}
        BY <3>1, <3>3
      <4>2. admin[a].key \in Key /\ admin[a].key \notin granted
        BY <4>1 DEF KeyCustody, TypeOK
      <4>3. M!Grant(admin[a].key)
        BY <3>1, <4>1, <4>2 DEF M!Grant
      <4>4. QED
        BY <4>2, <4>3 DEF M!Next
    <3>4. QED
      BY <3>2, <3>3
  <2>2. CASE RemoveNodes(a)
    <3>1. PICK gone \in SUBSET nodes : nodes' = nodes \ gone
      BY <2>2 DEF RemoveNodes
    <3>2. M!Evict(gone)
      BY <2>2, <3>1 DEF RemoveNodes, M!Evict
    <3>3. QED
      BY <3>1, <3>2 DEF M!Next
  <2>3. CASE Begin(a) \/ NewKey(a) \/ RevokeWrite(a) \/ PurgeRow(a)
    BY <1>1, <2>3 DEF Begin, NewKey, RevokeWrite, PurgeRow, netVars
  <2>4. QED
    BY <1>4, <2>1, <2>2, <2>3 DEF AdminStep
<1>5. CASE Register
  <2>1. authKey \in granted \ spent /\ authKey \in Key
    BY <1>5 DEF Register, KeyCustody, TypeOK
  <2>2. M!Admit(authKey)
    BY <1>5, <2>1 DEF Register, M!Admit
  <2>3. QED
    BY <2>1, <2>2 DEF M!Next
<1>6. CASE (AgentStep /\ ~Register) \/ Failure
  <2>1. UNCHANGED <<granted, spent, nodes>>
    BY <1>6 DEF AgentStep, agentRest, cycleRest, netVars, Resume, EnrollSend, EnrollReply, StatusSend,
       StatusRefused, StatusApproved, TunnelUp, TunnelFailed, SaveJoined, AckSend, AckReply,
       OnlineSend, OnlineReply, CallBroken, Reload, Failure, Lose, TimeOut, Crash, HubCrash,
       Reset, Expire
  <2>2. QED
    BY <1>1, <2>1
<1>7. QED
  BY <1>1, <1>2, <1>3, <1>4, <1>5, <1>6 DEF Next

\* The hub and the agent together implement Membership: only grants admit, each one
\* node, and an evicted node does not come back.
THEOREM ImplementsMembership == Spec => MembershipSpec
<1>1. Init => M!Init
  BY DEF Init, M!Init
<1>2. IInv /\ [Next]_vars => [M!Next]_(M!vars)
  BY MembershipStep
<1>3. QED
  BY <1>1, <1>2, Invariant, PTL DEF Spec, MembershipSpec, M!Spec
=============================================================================

--------------------------- MODULE CommandsProofs ---------------------------
(***************************************************************************)
(* Proofs about Commands, for any number of commands, calls, executions    *)
(* and faults, and any batch limit.                                        *)
(***************************************************************************)
EXTENDS Commands, FiniteSetTheorems, TLAPS

USE CmdAssumption, LimitAssumption, KindAssumption, BoundAssumption, NoSlotAssumption

-----------------------------------------------------------------------------
(* Types. *)

LEMMA NoCallType == NoCall \in Call
BY DEF NoCall, Call

LEMMA NoRunType == NoRun \in Run
BY DEF NoRun, Run, Blank, Text

\* Sending, dropping, losing and answering a call keep the calls well formed.
LEMMA AnswerTyped ==
    ASSUME calls \in [Slot -> Call], NEW s \in Slot, NEW c \in Call, Answer(s, c)
    PROVE  calls' \in [Slot -> Call]
<1>1. [c EXCEPT !.at = "done"] \in Call
  BY DEF Call
<1>2. QED
  BY <1>1, NoCallType DEF Answer

LEMMA CallSelect ==
    ASSUME NEW c \in Call, NEW b \in BOOLEAN
    PROVE  [c EXCEPT !.at = "select", !.approved = b] \in Call
BY DEF Call

LEMMA CallMark ==
    ASSUME NEW c \in Call, NEW batch \in SUBSET Cmd
    PROVE  [c EXCEPT !.at = "mark", !.batch = batch, !.left = batch] \in Call
BY DEF Call

LEMMA CallLeft ==
    ASSUME NEW c \in Call, NEW d
    PROVE  [c EXCEPT !.left = @ \ {d}] \in Call
BY DEF Call

LEMMA CallAt ==
    ASSUME NEW c \in Call, NEW at \in {"action", "automation"}
    PROVE  [c EXCEPT !.at = at] \in Call
BY DEF Call

LEMMA CallSent ==
    ASSUME NEW op \in {"heartbeat", "result"}, NEW c \in Cmd \cup {0}, NEW ok \in BOOLEAN
    PROVE  [NoCall EXCEPT !.op = op, !.at = "sent", !.cmd = c, !.ok = ok] \in Call
BY DEF Call, NoCall

\* The hub's bookkeeping on a call leaves what the call is about.
LEMMA AtKept ==
    ASSUME NEW c \in Call, NEW at, NEW d, d = [c EXCEPT !.at = at]
    PROVE  d.batch = c.batch /\ d.left = c.left /\ d.cmd = c.cmd
BY DEF Call

LEMMA ReadKept ==
    ASSUME NEW c \in Call, NEW b, NEW d, d = [c EXCEPT !.at = "select", !.approved = b]
    PROVE  d.batch = c.batch /\ d.left = c.left /\ d.cmd = c.cmd
BY DEF Call

\* A call that is sent hands nothing over.
LEMMA BeatEmpty ==
    ASSUME NEW d, d = [NoCall EXCEPT !.op = "heartbeat", !.at = "sent"]
    PROVE  d.batch = {} /\ d.left = {} /\ d.cmd = 0
BY DEF NoCall

LEMMA ResultEmpty ==
    ASSUME NEW c, NEW ok, NEW d,
           d = [NoCall EXCEPT !.op = "result", !.at = "sent", !.cmd = c, !.ok = ok]
    PROVE  d.batch = {} /\ d.left = {} /\ d.cmd = c
BY DEF NoCall

LEMMA InsertTyped ==
    ASSUME TypeOK, NEW k \in Kind \cup {"http"}, NEW o \in Origin, Insert(k, o)
    PROVE  /\ count' \in 0..MaxCmd /\ count' \in Cmd
           /\ status' \in [Cmd -> {"absent", "queued", "sent", "done", "failed"}]
           /\ kind' \in [Cmd -> Kind \cup {"http"}] /\ origin' \in [Cmd -> Origin]
BY DEF TypeOK, Insert, Cmd

LEMMA RunText ==
    ASSUME NEW run \in Run, NEW text \in Text
    PROVE  [run EXCEPT !.at = "write", !.text = text] \in Run
BY DEF Run

LEMMA RunnerTyped ==
    ASSUME TypeOK, NEW r \in Runner, RunStart(r) \/ RunnerStep(r)
    PROVE  TypeOK'
<1> USE DEF TypeOK
<1>1. CASE RunStart(r)
  <2>1. PICK op \in {"action", "automation"}, refused \in BOOLEAN : runner' = [runner EXCEPT ![r] =
            [op |-> op, at |-> IF refused THEN "write" ELSE "queue",
             text |-> [Blank EXCEPT !.about = IF refused THEN "error" ELSE "nothing"]]]
    BY <1>1 DEF RunStart
  <2>2. [Blank EXCEPT !.about = IF refused THEN "error" ELSE "nothing"] \in Text
    BY DEF Blank, Text
  <2>3. runner' \in [Runner -> Run]
    BY <2>1, <2>2 DEF Run
  <2>4. QED
    BY <1>1, <2>3 DEF RunStart, agentVars
<1>2. CASE RunQueue(r)
  <2>1. /\ runner[r].op \in {"action", "automation"}
        /\ Insert("http", runner[r].op)
    BY <1>2 DEF RunQueue, Run
  <2>2. /\ count' \in 0..MaxCmd /\ count' \in Cmd
        /\ status' \in [Cmd -> {"absent", "queued", "sent", "done", "failed"}]
        /\ kind' \in [Cmd -> Kind \cup {"http"}] /\ origin' \in [Cmd -> Origin]
    BY <2>1, InsertTyped DEF Origin
  <2>3. [about |-> "queued", cmd |-> count'] \in Text
    BY <2>2 DEF Text
  <2>4. [runner[r] EXCEPT !.at = "write", !.text = [about |-> "queued", cmd |-> count']] \in Run
    BY <2>3, RunText
  <2>5. runner' = [runner EXCEPT ![r] =
            [@ EXCEPT !.at = "write", !.text = [about |-> "queued", cmd |-> count']]]
    BY <1>2 DEF RunQueue
  <2>6. runner' \in [Runner -> Run]
    BY <2>4, <2>5
  <2>7. QED
    BY <1>2, <2>2, <2>6 DEF RunQueue, agentVars
<1>3. CASE RunWrite(r)
  <2>1. /\ runner[r].text \in Text
        /\ [runner[r] EXCEPT !.at = "automation"] \in Run
    BY DEF Run
  <2>2. last' \in [{"action", "automation"} -> Text] /\ runner' \in [Runner -> Run]
    BY <1>3, <2>1, NoRunType DEF RunWrite
  <2>3. QED
    BY <1>3, <2>2 DEF RunWrite, agentVars
<1>4. CASE RunAutomation(r)
  <2>1. runner[r].text \in Text
    BY DEF Run
  <2>2. last' \in [{"action", "automation"} -> Text] /\ runner' \in [Runner -> Run]
    BY <1>4, <2>1, NoRunType DEF RunAutomation
  <2>3. QED
    BY <1>4, <2>2 DEF RunAutomation, agentVars
<1>5. QED
  BY <1>1, <1>2, <1>3, <1>4 DEF RunnerStep

LEMMA HubTyped ==
    ASSUME TypeOK, NEW s \in Slot, HubStep(s) \/ BeatMarkFails(s)
    PROVE  TypeOK'
<1> USE DEF TypeOK
<1>0. calls[s] \in Call
  OBVIOUS
<1>1. CASE BeatRead(s)
  <2>1. calls' \in [Slot -> Call]
    BY <1>0, <1>1, CallSelect DEF BeatRead
  <2>2. QED
    BY <1>1, <2>1 DEF BeatRead, hubVars, agentVars
<1>2. CASE BeatSelect(s)
  <2>1. (IF calls[s].approved THEN Oldest(Queued) ELSE {}) \in SUBSET Cmd
    BY DEF Oldest, Queued
  <2>2. calls' \in [Slot -> Call]
    BY <1>0, <1>2, <2>1, CallMark DEF BeatSelect
  <2>3. QED
    BY <1>2, <2>2 DEF BeatSelect, hubVars, agentVars
<1>3. CASE BeatMark(s)
  <2>1. PICK c \in Cmd : /\ status' = [status EXCEPT ![c] = "sent"]
                         /\ calls' = [calls EXCEPT ![s].left = @ \ {c}]
    BY <1>3 DEF BeatMark
  <2>2. calls' \in [Slot -> Call]
    BY <1>0, <2>1, CallLeft
  <2>3. QED
    BY <1>3, <2>1, <2>2 DEF BeatMark, agentVars
<1>4. CASE BeatMarkFails(s)
  <2>1. PICK c \in Cmd : /\ unmarked' = unmarked \cup {c}
                         /\ calls' = [calls EXCEPT ![s].left = @ \ {c}]
    BY <1>4 DEF BeatMarkFails
  <2>2. calls' \in [Slot -> Call]
    BY <1>0, <2>1, CallLeft
  <2>3. QED
    BY <1>4, <2>1, <2>2 DEF BeatMarkFails, hubVars, agentVars, Fault
<1>5. CASE BeatAnswer(s)
  <2>1. calls' \in [Slot -> Call]
    BY <1>0, <1>5, AnswerTyped DEF BeatAnswer
  <2>2. QED
    BY <1>5, <2>1 DEF BeatAnswer, hubVars, agentVars
<1>6. CASE ResultUpdate(s)
  <2>1. calls' \in [Slot -> Call]
    BY <1>0, <1>6, CallAt DEF ResultUpdate
  <2>2. status' \in [Cmd -> {"absent", "queued", "sent", "done", "failed"}]
    BY <1>6 DEF ResultUpdate
  <2>3. QED
    BY <1>6, <2>1, <2>2 DEF ResultUpdate, agentVars
<1>7. CASE ResultAction(s)
  <2>1. calls' \in [Slot -> Call]
    BY <1>0, <1>7, CallAt DEF ResultAction
  <2>2. Result(calls[s].cmd) \in Text
    BY <1>0 DEF Result, Text, Call
  <2>3. last' \in [{"action", "automation"} -> Text]
    BY <1>7, <2>2 DEF ResultAction
  <2>4. QED
    BY <1>7, <2>1, <2>3 DEF ResultAction, agentVars
<1>8. CASE ResultAutomation(s)
  <2>1. calls' \in [Slot -> Call]
    BY <1>0, <1>8, AnswerTyped DEF ResultAutomation
  <2>2. Result(calls[s].cmd) \in Text
    BY <1>0 DEF Result, Text, Call
  <2>3. last' \in [{"action", "automation"} -> Text]
    BY <1>8, <2>2 DEF ResultAutomation
  <2>4. QED
    BY <1>8, <2>1, <2>3 DEF ResultAutomation, agentVars
<1>9. QED
  BY <1>1, <1>2, <1>3, <1>4, <1>5, <1>6, <1>7, <1>8 DEF HubStep

LEMMA CancelledTyped ==
    ASSUME TypeOK, NEW again \in BOOLEAN, Cancelled(again)
    PROVE  /\ up' \in BOOLEAN /\ waiting' \in Slot \cup {None} /\ jobs' \subseteq Job
           /\ restarting' \in BOOLEAN /\ calls' \in [Slot -> Call]
BY NoCallType DEF TypeOK, Cancelled

LEMMA OverTyped ==
    ASSUME TypeOK, NEW s, Over(s)
    PROVE  /\ waiting' \in Slot \cup {None} /\ jobs' \subseteq Job
           /\ restarting' \in BOOLEAN
BY DEF TypeOK, Over

LEMMA AgentTyped ==
    ASSUME TypeOK,
           Up \/ Beat \/ BeatReply \/ ServiceRestart \/ CycleEnd
    PROVE  TypeOK'
<1> USE DEF TypeOK
<1>1. CASE Up
  BY <1>1 DEF Up, hubVars
<1>2. CASE Beat
  <2>1. PICK s \in Slot :
            /\ calls' = [calls EXCEPT ![s] = [NoCall EXCEPT !.op = "heartbeat", !.at = "sent"]]
            /\ waiting' = s
    BY <1>2 DEF Beat
  <2>2. [NoCall EXCEPT !.op = "heartbeat", !.at = "sent"] \in Call
    BY DEF NoCall, Call
  <2>3. calls' \in [Slot -> Call]
    BY <2>1, <2>2
  <2>4. QED
    BY <1>2, <2>1, <2>3 DEF Beat, hubVars
<1>3. CASE BeatReply
  <2>0. waiting \in Slot /\ calls[waiting] \in Call
    BY <1>3 DEF BeatReply
  <2>1. CASE calls[waiting].approved
    <3>1. runs' \in [Cmd -> Nat]
      BY <1>3, <2>1 DEF BeatReply
    <3>2. \A d \in calls[waiting].batch : d \in Cmd
      BY <2>0 DEF Call
    <3>3. \A d \in calls[waiting].batch : [cmd |-> d, turn |-> runs[d] + 1, slot |-> None] \in Job
      BY <3>2 DEF Job
    <3>4. jobs' \subseteq Job
      BY <1>3, <2>1, <3>3 DEF BeatReply
    <3>5. calls' \in [Slot -> Call] /\ waiting' = None
      BY <1>3, <2>1, NoCallType DEF BeatReply
    <3>6. QED
      BY <1>3, <2>1, <3>1, <3>4, <3>5 DEF BeatReply, hubVars
  <2>2. CASE ~calls[waiting].approved
    <3>1. Cancelled(restarting \/ RestartJob) /\ UNCHANGED runs
      BY <1>3, <2>2 DEF BeatReply
    <3>2. (restarting \/ RestartJob) \in BOOLEAN
      OBVIOUS
    <3>3. /\ up' \in BOOLEAN /\ waiting' \in Slot \cup {None} /\ jobs' \subseteq Job
          /\ restarting' \in BOOLEAN /\ calls' \in [Slot -> Call]
      BY <3>1, <3>2, CancelledTyped
    <3>4. QED
      BY <1>3, <3>1, <3>3 DEF BeatReply, hubVars
  <2>3. QED
    BY <2>1, <2>2
<1>4. CASE ServiceRestart
  <2>1. /\ up' \in BOOLEAN /\ waiting' \in Slot \cup {None} /\ jobs' \subseteq Job
        /\ restarting' \in BOOLEAN /\ calls' \in [Slot -> Call]
    BY <1>4, CancelledTyped DEF ServiceRestart
  <2>2. QED
    BY <1>4, <2>1 DEF ServiceRestart, hubVars
<1>5. CASE CycleEnd
  <2>1. PICK again \in BOOLEAN : Cancelled(again)
    BY <1>5 DEF CycleEnd
  <2>2. /\ up' \in BOOLEAN /\ waiting' \in Slot \cup {None} /\ jobs' \subseteq Job
        /\ restarting' \in BOOLEAN /\ calls' \in [Slot -> Call]
    BY <2>1, CancelledTyped
  <2>3. QED
    BY <1>5, <2>2 DEF CycleEnd, hubVars, Fault
<1>6. QED
  BY <1>1, <1>2, <1>3, <1>4, <1>5

LEMMA ReportTyped ==
    ASSUME TypeOK, NEW j \in jobs, Report(j) \/ ReportEnd(j)
    PROVE  TypeOK'
<1> USE DEF TypeOK
<1>0. j \in Job
  OBVIOUS
<1>1. CASE Report(j)
  <2>1. PICK s \in Slot, ok \in BOOLEAN :
            /\ calls' = [calls EXCEPT ![s] = [NoCall EXCEPT !.op = "result", !.at = "sent",
                                                !.cmd = j.cmd, !.ok = ok]]
            /\ jobs' = (jobs \ {j}) \cup {[j EXCEPT !.slot = s]}
    BY <1>1 DEF Report
  <2>2. calls' \in [Slot -> Call]
    <3>1. [NoCall EXCEPT !.op = "result", !.at = "sent", !.cmd = j.cmd, !.ok = ok] \in Call
      BY <1>0, CallSent DEF Job
    <3>2. QED
      BY <2>1, <3>1
  <2>3. [j EXCEPT !.slot = s] \in Job
    BY <1>0 DEF Job
  <2>4. jobs' \subseteq Job
    BY <2>1, <2>3
  <2>5. QED
    BY <1>1, <2>2, <2>4 DEF Report, hubVars
<1>2. CASE ReportEnd(j)
  <2>1. calls' \in [Slot -> Call]
    BY <1>2, NoCallType DEF ReportEnd
  <2>2. QED
    BY <1>2, <2>1, OverTyped DEF ReportEnd, hubVars
<1>3. QED
  BY <1>1, <1>2

LEMMA TypeStep ==
    ASSUME TypeOK, [Next]_vars
    PROVE  TypeOK'
<1> USE DEF TypeOK
<1>1. CASE Manual
  <2>1. PICK k \in Kind : Insert(k, "manual")
    BY <1>1 DEF Manual
  <2>2. QED
    BY <1>1, <2>1, InsertTyped DEF Manual, Origin, agentVars
<1>2. CASE Decide
  BY <1>2 DEF Decide, hubVars, agentVars
<1>3. CASE \E s \in Slot : Lose(s)
  BY <1>3, OverTyped, NoCallType DEF Lose, Fault, hubVars
<1>4. CASE \E s \in Slot : TimeOut(s)
  BY <1>4, OverTyped DEF TimeOut, Fault, hubVars
<1>5. CASE HubCrash
  BY <1>5, NoCallType, NoRunType DEF HubCrash, Fault
<1>6. CASE UNCHANGED vars
  BY <1>6 DEF vars
<1>7. QED
  BY <1>1, <1>2, <1>3, <1>4, <1>5, <1>6, RunnerTyped, HubTyped, AgentTyped, ReportTyped
  DEF Next

-----------------------------------------------------------------------------
(* A command is handed over at most once. *)

LEMMA InsertedStep ==
    ASSUME TypeOK, Inserted, TypeOK', [Next]_vars
    PROVE  Inserted'
<1> USE DEF TypeOK, Inserted
<1>0. /\ \A s \in Slot : calls[s] \in Call /\ calls'[s] \in Call
      /\ \A j \in jobs : j \in Job
  OBVIOUS
<1>1. ASSUME NEW k \in Kind \cup {"http"}, NEW o \in Origin, Insert(k, o), UNCHANGED <<calls, jobs>>
      PROVE  Inserted'
  BY <1>0, <1>1 DEF Insert, Cmd, Job
<1>2. CASE Manual
  BY <1>1, <1>2 DEF Manual, Origin, agentVars
<1>3. CASE \E r \in Runner : RunStart(r) \/ RunnerStep(r)
  <2>1. CASE \E r \in Runner : RunQueue(r)
    BY <1>1, <2>1 DEF RunQueue, Run, Origin, agentVars
  <2>2. CASE \E r \in Runner : RunStart(r) \/ RunWrite(r) \/ RunAutomation(r)
    BY <2>2 DEF RunStart, RunWrite, RunAutomation, agentVars
  <2>3. QED
    BY <1>3, <2>1, <2>2 DEF RunnerStep
<1>4. ASSUME count' = count, \A j \in jobs' : j \in jobs \/ j.cmd <= count,
             \A c \in Cmd : status[c] = "absent" => status'[c] = "absent",
             \A s \in Slot : calls'[s].batch \cup calls'[s].left \cup {calls'[s].cmd} \subseteq 0..count
      PROVE  Inserted'
  BY <1>4
<1>5. NoCall.batch = {} /\ NoCall.left = {} /\ NoCall.cmd = 0 /\ 0 \in 0..count
  BY DEF NoCall
<1>6. ASSUME NEW s \in Slot, HubStep(s) \/ BeatMarkFails(s)
      PROVE  Inserted'
  <2>1. \A t \in Slot : calls'[t].batch \cup calls'[t].left \cup {calls'[t].cmd} \subseteq 0..count
    <3>1. CASE BeatSelect(s)
      <4>1. (IF calls[s].approved THEN Oldest(Queued) ELSE {}) \subseteq 0..count
        BY DEF Oldest, Queued, Cmd
      <4>2. QED
        BY <1>0, <3>1, <4>1 DEF BeatSelect, Call
    <3>2. CASE BeatMark(s) \/ BeatMarkFails(s)
      BY <1>0, <3>2 DEF BeatMark, BeatMarkFails, Call
    <3>3. CASE BeatAnswer(s) \/ ResultAutomation(s)
      <4>1. Answer(s, calls[s])
        BY <3>3 DEF BeatAnswer, ResultAutomation
      <4>2. /\ \A t \in Slot \ {s} : calls'[t] = calls[t]
            /\ calls'[s] = NoCall \/ calls'[s] = [calls[s] EXCEPT !.at = "done"]
        BY <4>1 DEF Answer
      <4>3. calls'[s].batch \cup calls'[s].left \cup {calls'[s].cmd} \subseteq 0..count
        <5>1. calls[s].batch \cup calls[s].left \cup {calls[s].cmd} \subseteq 0..count
          OBVIOUS
        <5>2. CASE calls'[s] = NoCall
          BY <1>5, <5>2
        <5>3. CASE calls'[s] = [calls[s] EXCEPT !.at = "done"]
          <6>1. /\ calls'[s].batch = calls[s].batch /\ calls'[s].left = calls[s].left
                /\ calls'[s].cmd = calls[s].cmd
            BY <1>0, <5>3, AtKept
          <6>2. QED
            BY <5>1, <6>1
        <5>4. QED
          BY <4>2, <5>2, <5>3
      <4>4. QED
        BY <4>2, <4>3
    <3>4. CASE BeatRead(s) \/ ResultUpdate(s) \/ ResultAction(s)
      <4>1. /\ \A t \in Slot \ {s} : calls'[t] = calls[t]
            /\ \/ calls'[s] = [calls[s] EXCEPT !.at = "select", !.approved = approved]
               \/ \E at \in {"action", "automation"} : calls'[s] = [calls[s] EXCEPT !.at = at]
        BY <1>0, <3>4 DEF BeatRead, ResultUpdate, ResultAction
      <4>2. calls'[s].batch \cup calls'[s].left \cup {calls'[s].cmd} \subseteq 0..count
        <5>1. calls[s].batch \cup calls[s].left \cup {calls[s].cmd} \subseteq 0..count
          OBVIOUS
        <5>2. /\ calls'[s].batch = calls[s].batch /\ calls'[s].left = calls[s].left
              /\ calls'[s].cmd = calls[s].cmd
          <6>1. CASE calls'[s] = [calls[s] EXCEPT !.at = "select", !.approved = approved]
            BY <1>0, <6>1 DEF Call
          <6>2. CASE \E at \in {"action", "automation"} : calls'[s] = [calls[s] EXCEPT !.at = at]
            BY <1>0, <6>2, AtKept
          <6>3. QED
            BY <4>1, <6>1, <6>2
        <5>3. QED
          BY <5>1, <5>2
      <4>3. QED
        BY <4>1, <4>2
    <3>5. QED
      BY <1>6, <3>1, <3>2, <3>3, <3>4 DEF HubStep
  <2>2. count' = count /\ jobs' = jobs
    BY <1>6 DEF HubStep, BeatRead, BeatSelect, BeatMark, BeatMarkFails, BeatAnswer, ResultUpdate,
       ResultAction, ResultAutomation, hubVars, agentVars
  <2>3. \A c \in Cmd : status'[c] # "absent" => c <= count
    <3>1. CASE BeatMark(s)
      BY <1>0, <3>1 DEF BeatMark, First, Mark
    <3>2. CASE ResultUpdate(s)
      BY <1>0, <3>2 DEF ResultUpdate, Call, Cmd
    <3>3. CASE status' = status
      BY <3>3
    <3>4. QED
      BY <1>6, <3>1, <3>2, <3>3 DEF HubStep, BeatRead, BeatSelect, BeatMarkFails, BeatAnswer,
         ResultAction, ResultAutomation, hubVars
  <2>4. QED
    BY <2>1, <2>2, <2>3
<1>7. CASE BeatReply
  <2>1. count' = count /\ status' = status
    BY <1>7 DEF BeatReply, hubVars
  <2>2. \A s \in Slot : calls'[s] = calls[s] \/ calls'[s] = NoCall
    BY <1>7 DEF BeatReply, Cancelled
  <2>3. waiting \in Slot
    BY <1>7 DEF BeatReply
  <2>4. \A j \in jobs' : j \in jobs \/ j.cmd \in calls[waiting].batch
    BY <1>7 DEF BeatReply, Cancelled
  <2>5. \A j \in jobs' : j \in jobs \/ j.cmd <= count
    BY <2>3, <2>4
  <2>6. QED
    BY <1>4, <1>5, <2>1, <2>2, <2>5
<1>8. ASSUME NEW j \in jobs, Report(j) \/ ReportEnd(j)
      PROVE  Inserted'
  <2>1. CASE Report(j)
    <3>1. PICK s \in Slot, ok \in BOOLEAN :
              /\ calls' = [calls EXCEPT ![s] = [NoCall EXCEPT !.op = "result", !.at = "sent",
                                                  !.cmd = j.cmd, !.ok = ok]]
              /\ jobs' = (jobs \ {j}) \cup {[j EXCEPT !.slot = s]}
      BY <2>1 DEF Report
    <3>2. [j EXCEPT !.slot = s].cmd = j.cmd /\ j.cmd \in 0..count
      BY <1>0 DEF Job, Cmd
    <3>3. /\ \A t \in Slot \ {s} : calls'[t] = calls[t]
          /\ calls'[s].batch = {} /\ calls'[s].left = {} /\ calls'[s].cmd = j.cmd
      BY <3>1 DEF NoCall
    <3>4. \A t \in Slot : calls'[t].batch \cup calls'[t].left \cup {calls'[t].cmd} \subseteq 0..count
      BY <3>2, <3>3
    <3>5. \A i \in jobs' : i \in jobs \/ i.cmd <= count
      BY <3>1, <3>2
    <3>6. QED
      BY <1>4, <2>1, <3>4, <3>5 DEF Report, hubVars
  <2>2. CASE ReportEnd(j)
    <3>1. \A s \in Slot : calls'[s] = calls[s] \/ calls'[s] = NoCall
      BY <2>2 DEF ReportEnd
    <3>2. QED
      BY <1>4, <1>5, <2>2, <3>1 DEF ReportEnd, Over, hubVars
  <2>3. QED
    BY <1>8, <2>1, <2>2
<1>9. CASE Beat
  <2>1. \A s \in Slot :
            \/ calls'[s] = calls[s]
            \/ (calls'[s].batch = {} /\ calls'[s].left = {} /\ calls'[s].cmd = 0)
    <3>1. PICK s \in Slot : calls' = [calls EXCEPT ![s] =
                  [NoCall EXCEPT !.op = "heartbeat", !.at = "sent"]]
      BY <1>9 DEF Beat
    <3>2. calls'[s] = [NoCall EXCEPT !.op = "heartbeat", !.at = "sent"]
      BY <3>1
    <3>3. \A t \in Slot \ {s} : calls'[t] = calls[t]
      BY <3>1
    <3>4. calls'[s].batch = {} /\ calls'[s].left = {} /\ calls'[s].cmd = 0
      BY <3>2 DEF NoCall
    <3>5. QED
      BY <3>3, <3>4
  <2>2. \A t \in Slot : calls'[t].batch \cup calls'[t].left \cup {calls'[t].cmd} \subseteq 0..count
    BY <1>5, <2>1
  <2>3. QED
    BY <1>4, <1>9, <2>2 DEF Beat, hubVars
<1>10. CASE \/ Decide \/ Up \/ ServiceRestart \/ CycleEnd \/ HubCrash \/ UNCHANGED vars
            \/ \E s \in Slot : Lose(s) \/ TimeOut(s)
  <2>1. \A s \in Slot : calls'[s] = calls[s] \/ calls'[s] = NoCall
    BY <1>10 DEF Decide, Up, ServiceRestart, CycleEnd, HubCrash, vars, Lose, TimeOut, Cancelled
  <2>2. count' = count /\ status' = status /\ jobs' \subseteq jobs
    BY <1>10 DEF Decide, Up, ServiceRestart, CycleEnd, HubCrash, vars, Lose, TimeOut, Cancelled,
       Over, hubVars, agentVars
  <2>3. QED
    BY <1>4, <1>5, <2>1, <2>2
<1>11. QED
  BY <1>2, <1>3, <1>6, <1>7, <1>8, <1>9, <1>10 DEF Next

\* Where no command is inserted, started or selected and no call gains a batch, the
\* hand-over's parts are kept.
LEMMA HandOverFrame ==
    ASSUME HandOver, TypeOK', Inserted', runs' = runs,
           unmarked \subseteq unmarked',
           \A c \in Cmd : HandedOver(c) => HandedOver(c)',
           \A s \in Slot :
               /\ calls'[s].batch = {} \/ calls'[s].batch = calls[s].batch
               /\ calls'[s].batch \ (calls'[s].left \cup unmarked')
                    \subseteq calls[s].batch \ (calls[s].left \cup unmarked)
               /\ calls'[s].at # "mark" => calls'[s].left = {},
           waiting' = waiting \/ waiting' = None
    PROVE  HandOver'
<1> USE DEF HandOver
<1>2. StartedMarked'
  BY DEF StartedMarked
<1>3. BatchMarked'
  <2>1. \A s \in Slot : calls[s].batch \subseteq Cmd
    BY DEF TypeOK, Call
  <2>2. QED
    BY <2>1 DEF BatchMarked
<1>4. BatchFresh'
  BY DEF BatchFresh, TypeOK
<1>5. QED
  BY <1>2, <1>3, <1>4

LEMMA InsertHandOver ==
    ASSUME HandOver, TypeOK', Inserted', NEW k \in Kind \cup {"http"}, NEW o \in Origin, Insert(k, o),
           UNCHANGED <<calls, waiting, runs, unmarked>>
    PROVE  HandOver'
<1> USE DEF HandOver, HandedOver
<1>1. /\ count' = count + 1 /\ count \in Nat /\ count' \in Cmd
      /\ status[count'] = "absent"
      /\ status' = [status EXCEPT ![count'] = "queued"]
  BY DEF Insert, Inserted, TypeOK, Cmd
<1>2. \A c \in Cmd \ {count'} : status'[c] = status[c]
  BY <1>1 DEF TypeOK
<1>4. StartedMarked'
  BY <1>1, <1>2 DEF StartedMarked
<1>5. BatchMarked'
  <2>1. \A s \in Slot : calls[s].batch \subseteq Cmd
    BY DEF TypeOK, Call
  <2>2. QED
    BY <1>1, <1>2, <2>1 DEF BatchMarked
<1>6. BatchFresh'
  BY DEF BatchFresh
<1>7. QED
  BY <1>4, <1>5, <1>6

\* The heartbeat selects queued commands, which were never started; it marks each of
\* its batch before it answers.
LEMMA HubHandOver ==
    ASSUME HandOver, TypeOK', Inserted', NEW s \in Slot, HubStep(s) \/ BeatMarkFails(s)
    PROVE  HandOver'
<1> USE DEF HandOver, HandedOver
<1>0. /\ calls \in [Slot -> Call] /\ calls[s] \in Call
      /\ status \in [Cmd -> {"absent", "queued", "sent", "done", "failed"}]
  BY DEF TypeOK
<1>a. \A t \in Slot : calls[t].at # "mark" => calls[t].left = {}
  BY DEF BatchMarked
<1>1. CASE BeatSelect(s)
  <2> DEFINE batch == IF calls[s].approved THEN Oldest(Queued) ELSE {}
  <2>1. /\ calls' = [calls EXCEPT ![s] =
                [@ EXCEPT !.at = "mark", !.batch = batch, !.left = batch]]
        /\ UNCHANGED <<count, status, waiting, runs, unmarked>>
    BY <1>1 DEF BeatSelect, hubVars, agentVars
  <2>2. /\ calls'[s].batch = batch /\ calls'[s].left = batch /\ calls'[s].at = "mark"
        /\ \A t \in Slot \ {s} : calls'[t] = calls[t]
    BY <1>0, <2>1 DEF Call
  <2>3. \A c \in batch \ unmarked : runs[c] = 0
    <3>1. \A c \in batch : c \in Cmd /\ status[c] = "queued"
      BY DEF Oldest, Queued
    <3>2. QED
      BY <3>1 DEF StartedMarked, TypeOK
  <2>4. StartedMarked'
    BY <2>1 DEF StartedMarked
  <2>5. BatchMarked'
    BY <2>1, <2>2 DEF BatchMarked
  <2>6. BatchFresh'
    BY <2>1, <2>2, <2>3 DEF BatchFresh, TypeOK
  <2>7. QED
    BY <2>4, <2>5, <2>6
<1>2. CASE BeatMark(s)
  <2>1. PICK c \in Cmd : /\ status' = [status EXCEPT ![c] = "sent"]
                         /\ calls' = [calls EXCEPT ![s].left = @ \ {c}]
                         /\ c \in calls[s].left /\ calls[s].at = "mark"
    BY <1>2 DEF BeatMark, First, Mark
  <2>2. UNCHANGED <<count, waiting, runs, unmarked>>
    BY <1>2 DEF BeatMark, agentVars
  <2>3. /\ calls'[s].batch = calls[s].batch /\ calls'[s].left = calls[s].left \ {c}
        /\ calls'[s].at = "mark"
        /\ \A t \in Slot \ {s} : calls'[t] = calls[t]
    BY <1>0, <2>1 DEF Call
  <2>4. /\ status'[c] = "sent"
        /\ \A d \in Cmd \ {c} : status'[d] = status[d]
    BY <1>0, <2>1
  <2>6. StartedMarked'
    BY <2>2, <2>4 DEF StartedMarked
  <2>7. BatchMarked'
    BY <1>0, <2>2, <2>3, <2>4 DEF BatchMarked, Call
  <2>8. BatchFresh'
    BY <2>2, <2>3 DEF BatchFresh, TypeOK
  <2>9. QED
    BY <2>6, <2>7, <2>8
<1>3. CASE BeatMarkFails(s)
  <2>1. PICK c \in Cmd : /\ unmarked' = unmarked \cup {c}
                         /\ calls' = [calls EXCEPT ![s].left = @ \ {c}]
                         /\ calls[s].at = "mark"
    BY <1>3 DEF BeatMarkFails, Mark
  <2>2. /\ calls'[s].batch = calls[s].batch /\ calls'[s].left = calls[s].left \ {c}
        /\ calls'[s].at = "mark"
        /\ \A t \in Slot \ {s} : calls'[t] = calls[t]
    BY <1>0, <2>1 DEF Call
  <2>3. QED
    BY <1>3, <1>a, <2>1, <2>2, HandOverFrame DEF BeatMarkFails, hubVars, agentVars
<1>4. CASE BeatAnswer(s) \/ ResultAutomation(s)
  <2>1. /\ Answer(s, calls[s]) /\ calls[s].left = {}
        /\ UNCHANGED <<count, status, waiting, runs, unmarked>>
    BY <1>4, <1>a DEF BeatAnswer, ResultAutomation, hubVars, agentVars
  <2>2. /\ \A t \in Slot \ {s} : calls'[t] = calls[t]
        /\ calls'[s] = NoCall \/ calls'[s] = [calls[s] EXCEPT !.at = "done"]
    BY <1>0, <2>1 DEF Answer
  <2>3. calls'[s].left = {} /\ (calls'[s].batch = {} \/ calls'[s].batch = calls[s].batch)
    BY <1>0, <2>1, <2>2 DEF NoCall, Call
  <2>4. QED
    BY <1>a, <2>1, <2>2, <2>3, HandOverFrame
<1>5. CASE BeatRead(s) \/ ResultAction(s)
  <2>1. /\ \A t \in Slot \ {s} : calls'[t] = calls[t]
        /\ calls'[s].left = {} /\ calls[s].left = {} /\ calls'[s].batch = calls[s].batch
    <3>1. /\ calls[s].left = {}
          /\ \A t \in Slot \ {s} : calls'[t] = calls[t]
          /\ \/ calls'[s] = [calls[s] EXCEPT !.at = "select", !.approved = approved]
             \/ calls'[s] = [calls[s] EXCEPT !.at = "automation"]
      BY <1>0, <1>5, <1>a DEF BeatRead, ResultAction
    <3>2. QED
      <4>1. CASE calls'[s] = [calls[s] EXCEPT !.at = "select", !.approved = approved]
        BY <1>0, <3>1, <4>1 DEF Call
      <4>2. CASE calls'[s] = [calls[s] EXCEPT !.at = "automation"]
        BY <1>0, <3>1, <4>2, AtKept
      <4>3. QED
        BY <3>1, <4>1, <4>2
  <2>2. QED
    BY <1>5, <1>a, <2>1, HandOverFrame DEF BeatRead, ResultAction, hubVars, agentVars
<1>6. CASE ResultUpdate(s)
  <2>1. /\ \A t \in Slot \ {s} : calls'[t] = calls[t]
        /\ calls'[s].left = {} /\ calls[s].left = {} /\ calls'[s].batch = calls[s].batch
    BY <1>0, <1>6, <1>a DEF ResultUpdate, Call
  <2>2. \A c \in Cmd : HandedOver(c) => HandedOver(c)'
    BY <1>0, <1>6 DEF ResultUpdate
  <2>3. QED
    BY <1>6, <1>a, <2>1, <2>2, HandOverFrame DEF ResultUpdate, agentVars
<1>7. QED
  BY <1>1, <1>2, <1>3, <1>4, <1>5, <1>6 DEF HubStep

\* The loop waits for one heartbeat at a time, so what it starts is fresh, and marked.
LEMMA StartHandOver ==
    ASSUME HandOver, TypeOK', Inserted', BeatReply
    PROVE  HandOver'
<1> USE DEF HandOver, HandedOver
<1>0. /\ waiting \in Slot /\ calls[waiting].at = "done" /\ calls[waiting].left = {}
      /\ UNCHANGED <<status, unmarked>>
  BY DEF BeatReply, BatchMarked, TypeOK, hubVars
<1>1. \A s \in Slot : calls'[s] = calls[s] \/ calls'[s] = NoCall
  <2>1. calls \in [Slot -> Call]
    BY DEF TypeOK
  <2>2. \/ calls' = [calls EXCEPT ![waiting] = NoCall]
        \/ calls' = [s \in Slot |-> IF calls[s].at = "done" THEN NoCall ELSE calls[s]]
    BY DEF BeatReply, Cancelled
  <2>3. QED
    BY <2>1, <2>2
<1>2. waiting' = None
  BY DEF BeatReply, Cancelled
<1>3. StartedMarked'
  <2>1. \A c \in Cmd : \/ runs'[c] = runs[c]
                      \/ (c \in calls[waiting].batch /\ runs'[c] = runs[c] + 1)
    <3>1. \/ runs' = runs
          \/ runs' = [d \in Cmd |-> IF d \in calls[waiting].batch THEN runs[d] + 1 ELSE runs[d]]
      BY DEF BeatReply
    <3>2. CASE runs' = [d \in Cmd |-> IF d \in calls[waiting].batch THEN runs[d] + 1 ELSE runs[d]]
      <4>1. \A c \in Cmd : runs'[c] = IF c \in calls[waiting].batch THEN runs[c] + 1 ELSE runs[c]
        BY <3>2
      <4>2. QED
        BY <4>1
    <3>3. QED
      BY <3>1, <3>2
  <2>2. \A c \in calls[waiting].batch \ unmarked : HandedOver(c) /\ runs[c] = 0
    BY <1>0, NoSlotAssumption DEF BatchMarked, BatchFresh
  <2>3. QED
    BY <1>0, <2>1, <2>2 DEF StartedMarked
<1>4. BatchMarked'
  BY <1>0, <1>1 DEF BatchMarked, NoCall
<1>5. BatchFresh'
  BY <1>2 DEF BatchFresh
<1>6. QED
  BY <1>3, <1>4, <1>5

\* A call that begins hands nothing over.
Begun(s) ==
    /\ \A t \in Slot \ {s} : calls'[t] = calls[t]
    /\ calls'[s].batch = {} /\ calls'[s].left = {}
    /\ waiting' = waiting \/ waiting' = s

LEMMA CallBegins ==
    ASSUME TypeOK, Beat \/ (\E j \in jobs : Report(j))
    PROVE  \E s \in Slot : Begun(s)
<1> USE DEF Begun
<1>0. calls \in [Slot -> Call]
  BY DEF TypeOK
<1>1. CASE Beat
  <2>1. PICK s \in Slot :
          /\ calls' = [calls EXCEPT ![s] = [NoCall EXCEPT !.op = "heartbeat", !.at = "sent"]]
          /\ waiting' = s
    BY <1>1 DEF Beat
  <2>2. calls'[s] = [NoCall EXCEPT !.op = "heartbeat", !.at = "sent"]
    BY <1>0, <2>1
  <2>3. QED
    BY <1>0, <2>1, <2>2, BeatEmpty
<1>2. CASE \E j \in jobs : Report(j)
  <2>1. PICK j \in jobs : Report(j)
    BY <1>2
  <2>2. PICK s \in Slot, ok \in BOOLEAN :
          /\ calls' = [calls EXCEPT ![s] = [NoCall EXCEPT !.op = "result", !.at = "sent",
                                              !.cmd = j.cmd, !.ok = ok]]
          /\ waiting' = waiting
    BY <2>1 DEF Report
  <2>3. calls'[s] = [NoCall EXCEPT !.op = "result", !.at = "sent", !.cmd = j.cmd, !.ok = ok]
    BY <1>0, <2>2
  <2>4. calls'[s].batch = {} /\ calls'[s].left = {}
    BY <2>3 DEF NoCall
  <2>5. QED
    BY <1>0, <2>2, <2>4
<1>3. QED
  BY <1>1, <1>2

LEMMA HandOverStep ==
    ASSUME HandOver, [Next]_vars
    PROVE  HandOver'
<1> USE DEF HandOver
<1>0. TypeOK' /\ Inserted'
  BY TypeStep, InsertedStep
<1>a. \A s \in Slot : calls[s].at # "mark" => calls[s].left = {}
  BY DEF BatchMarked
<1>1. CASE Manual
  BY <1>0, <1>1, InsertHandOver DEF Manual, Origin, agentVars
<1>2. CASE \E r \in Runner : RunQueue(r)
  BY <1>0, <1>2, InsertHandOver DEF RunQueue, Run, Origin, TypeOK, agentVars
<1>3. CASE \E s \in Slot : HubStep(s) \/ BeatMarkFails(s)
  BY <1>0, <1>3, HubHandOver
<1>4. CASE BeatReply
  BY <1>0, <1>4, StartHandOver
<1>5. CASE \/ Decide \/ Up \/ ServiceRestart \/ CycleEnd \/ HubCrash \/ UNCHANGED vars
           \/ \E r \in Runner : RunStart(r) \/ RunWrite(r) \/ RunAutomation(r)
           \/ \E s \in Slot : Lose(s) \/ TimeOut(s)
           \/ \E j \in jobs : ReportEnd(j)
  <2>1. \A s \in Slot : calls'[s] = calls[s] \/ calls'[s] = NoCall
    BY <1>5 DEF TypeOK, Decide, Up, ServiceRestart, CycleEnd, HubCrash, vars, Lose, TimeOut,
       Cancelled, RunStart, RunWrite, RunAutomation, ReportEnd
  <2>2. /\ UNCHANGED <<status, runs, unmarked>>
        /\ waiting' = waiting \/ waiting' = None
    BY <1>5 DEF Decide, Up, ServiceRestart, CycleEnd, HubCrash, vars, Lose, TimeOut, Cancelled,
       Over, RunStart, RunWrite, RunAutomation, ReportEnd, hubVars, agentVars
  <2>3. NoCall.batch = {} /\ NoCall.left = {}
    BY DEF NoCall
  <2>4. \A c \in Cmd : HandedOver(c) => HandedOver(c)'
    BY <2>2 DEF HandedOver
  <2>5. QED
    BY <1>0, <1>a, <2>1, <2>2, <2>3, <2>4, HandOverFrame
<1>6. CASE Beat \/ \E j \in jobs : Report(j)
  <2>0. PICK s \in Slot : Begun(s)
    BY <1>6, CallBegins
  <2>1. /\ \A t \in Slot \ {s} : calls'[t] = calls[t]
        /\ calls'[s].batch = {} /\ calls'[s].left = {}
        /\ waiting' = waiting \/ waiting' = s
    BY <2>0 DEF Begun
  <2>2. UNCHANGED <<status, runs, unmarked>>
    BY <1>6 DEF Beat, Report, hubVars
  <2>3. StartedMarked' /\ BatchMarked'
    BY <1>a, <2>1, <2>2 DEF StartedMarked, BatchMarked, HandedOver
  <2>4. BatchFresh'
    BY <2>1, <2>2 DEF BatchFresh, TypeOK
  <2>5. QED
    BY <1>0, <2>3, <2>4
<1>7. QED
  BY <1>1, <1>2, <1>3, <1>4, <1>5, <1>6 DEF Next, RunnerStep

LEMMA InitHandOver == Init => HandOver
<1> SUFFICES ASSUME Init PROVE HandOver
  OBVIOUS
<1> USE DEF Init
<1>1. TypeOK
  <2>1. Blank \in Text
    BY DEF Blank, Text
  <2>2. count \in 0..MaxCmd /\ faults \in 0..MaxFaults /\ runs \in [Cmd -> Nat]
    OBVIOUS
  <2>3. /\ status \in [Cmd -> {"absent", "queued", "sent", "done", "failed"}]
        /\ kind \in [Cmd -> Kind \cup {"http"}] /\ origin \in [Cmd -> Origin]
    BY DEF Origin
  <2>4. /\ last \in [{"action", "automation"} -> Text]
        /\ runner \in [Runner -> Run] /\ calls \in [Slot -> Call]
    BY <2>1, NoCallType, NoRunType
  <2>5. QED
    BY <2>2, <2>3, <2>4 DEF TypeOK
<1>2. Inserted
  BY DEF Inserted, NoCall
<1>3. StartedMarked /\ BatchMarked /\ BatchFresh
  BY DEF StartedMarked, BatchMarked, BatchFresh, NoCall
<1>4. QED
  BY <1>1, <1>2, <1>3 DEF HandOver

\* What the heartbeat hands over was never started, and is marked before it is.
THEOREM HandOverInvariant == Spec => []HandOver
BY InitHandOver, HandOverStep, PTL DEF Spec

\* Whatever is lost, late, retried or restarted, a command is started at most once
\* unless an UPDATE to sent has failed.
THEOREM StartedAtMostOnce == Spec => []AtMostOnce
<1>1. HandOver => AtMostOnce
  BY DEF HandOver, StartedMarked, AtMostOnce
<1>2. QED
  BY <1>1, HandOverInvariant, PTL

\* Every variable of Commands stays in its type.
THEOREM TypeCorrect == Spec => []TypeOK
<1>1. HandOver => TypeOK
  BY DEF HandOver
<1>2. QED
  BY <1>1, HandOverInvariant, PTL

-----------------------------------------------------------------------------
(* What a late heartbeat can do to a command: order and ended commands. *)

\* What has ended, or is reported, was started.
Ran ==
    /\ \A c \in Cmd : Finished(c) => runs[c] > 0
    /\ \A s \in Slot : calls[s].op = "result" => calls[s].cmd \in Cmd /\ runs[calls[s].cmd] > 0
    /\ \A j \in jobs : runs[j.cmd] > 0

\* A batch holds every older command that is queued.
Batches ==
    \A s \in Slot :
        /\ calls[s].left \subseteq calls[s].batch
        /\ \A c \in calls[s].batch, d \in Cmd :
             d < c /\ status[d] = "queued" => d \in calls[s].batch

\* Where commands only leave the queue and no call gains a batch, batches are kept.
LEMMA BatchesFrame ==
    ASSUME TypeOK, Batches,
           \A c \in Cmd : status'[c] = "queued" => status[c] = "queued",
           \A s \in Slot :
               \/ calls'[s].batch = {} /\ calls'[s].left = {}
               \/ calls'[s].batch = calls[s].batch /\ calls'[s].left \subseteq calls[s].left
    PROVE  Batches'
<1>1. \A s \in Slot : calls[s].batch \subseteq Cmd
  BY DEF TypeOK, Call
<1>2. QED
  BY <1>1 DEF Batches

\* A command that is inserted is younger than all of a batch.
LEMMA BatchesInsert ==
    ASSUME TypeOK, Inserted, Batches, NEW k, NEW o, Insert(k, o), calls' = calls
    PROVE  Batches'
<1>1. count \in Nat /\ \A c \in Cmd \ {count + 1} : status'[c] = status[c]
  BY DEF Insert, TypeOK
<1>2. \A s \in Slot : \A c \in calls[s].batch : c \in Cmd /\ c <= count
  BY <1>1 DEF Inserted, TypeOK, Call
<1>3. QED
  BY <1>1, <1>2 DEF Batches, Cmd

\* The oldest of a set of commands hold every older one.
LEMMA OldestDown ==
    ASSUME NEW set \in SUBSET Cmd, NEW c \in Oldest(set), NEW d \in set, d < c
    PROVE  d \in Oldest(set)
<1> DEFINE younger(x) == {e \in set : e < x}
<1>1. IsFiniteSet(younger(c)) /\ younger(d) \subseteq younger(c)
  <2>1. IsFiniteSet(Cmd)
    <3>1. 1 \in Int /\ MaxCmd \in Int
      OBVIOUS
    <3>2. QED
      BY <3>1, FS_Interval DEF Cmd
  <2>2. IsFiniteSet(younger(c))
    <3>1. younger(c) \in SUBSET Cmd
      OBVIOUS
    <3>2. QED
      BY <2>1, <3>1, FS_Subset
  <2>3. c \in Nat /\ d \in Nat /\ \A e \in set : e \in Nat
    BY DEF Oldest, Cmd
  <2>4. \A e \in set : e < d => e < c
    BY <2>3
  <2>5. younger(d) \subseteq younger(c)
    BY <2>4
  <2>6. QED
    BY <2>2, <2>5
<1>2. /\ Cardinality(younger(d)) <= Cardinality(younger(c))
      /\ Cardinality(younger(d)) \in Nat /\ Cardinality(younger(c)) \in Nat
  BY <1>1, FS_Subset, FS_CardinalityType
<1>3. Cardinality(younger(c)) < BatchLimit
  BY DEF Oldest
<1>4. Cardinality(younger(d)) < BatchLimit
  BY <1>2, <1>3
<1>5. QED
  BY <1>4 DEF Oldest

LEMMA HubBatches ==
    ASSUME HandOver, Batches, TypeOK', NEW s \in Slot, HubStep(s) \/ BeatMarkFails(s)
    PROVE  Batches'
<1> USE DEF HandOver
<1>0. /\ calls \in [Slot -> Call] /\ calls[s] \in Call
      /\ status \in [Cmd -> {"absent", "queued", "sent", "done", "failed"}]
  BY DEF TypeOK
<1>1. CASE BeatSelect(s)
  <2> DEFINE batch == IF calls[s].approved THEN Oldest(Queued) ELSE {}
  <2>1. /\ calls' = [calls EXCEPT ![s] =
                [@ EXCEPT !.at = "mark", !.batch = batch, !.left = batch]]
        /\ status' = status
    BY <1>1 DEF BeatSelect, hubVars
  <2>2. /\ calls'[s].batch = batch /\ calls'[s].left = batch
        /\ \A t \in Slot \ {s} : calls'[t] = calls[t]
    BY <1>0, <2>1 DEF Call
  <2>3. \A c \in batch, d \in Cmd : d < c /\ status[d] = "queued" => d \in batch
    <3>1. Queued \in SUBSET Cmd /\ \A d \in Cmd : status[d] = "queued" => d \in Queued
      BY DEF Queued
    <3>2. QED
      BY <3>1, OldestDown
  <2>4. QED
    BY <2>1, <2>2, <2>3 DEF Batches
<1>2. CASE BeatMark(s) \/ BeatMarkFails(s)
  <2>1. PICK c \in Cmd : calls' = [calls EXCEPT ![s].left = @ \ {c}]
    BY <1>2 DEF BeatMark, BeatMarkFails
  <2>2. /\ calls'[s].batch = calls[s].batch /\ calls'[s].left \subseteq calls[s].left
        /\ \A t \in Slot \ {s} : calls'[t] = calls[t]
    BY <1>0, <2>1 DEF Call
  <2>3. \A d \in Cmd : status'[d] = "queued" => status[d] = "queued"
    BY <1>0, <1>2 DEF BeatMark, BeatMarkFails, hubVars
  <2>4. QED
    BY <2>2, <2>3, BatchesFrame
<1>3. CASE BeatRead(s) \/ BeatAnswer(s) \/ ResultUpdate(s) \/ ResultAction(s) \/ ResultAutomation(s)
  <2>1. /\ \A t \in Slot \ {s} : calls'[t] = calls[t]
        /\ \/ calls'[s] = NoCall
           \/ calls'[s] = [calls[s] EXCEPT !.at = "select", !.approved = approved]
           \/ \E a \in {"done", "action", "automation"} : calls'[s] = [calls[s] EXCEPT !.at = a]
    BY <1>0, <1>3 DEF BeatRead, BeatAnswer, ResultUpdate, ResultAction, ResultAutomation, Answer
  <2>2. \/ calls'[s].batch = {} /\ calls'[s].left = {}
        \/ calls'[s].batch = calls[s].batch /\ calls'[s].left \subseteq calls[s].left
    <3>1. CASE calls'[s] = NoCall
      BY <3>1 DEF NoCall
    <3>2. CASE calls'[s] = [calls[s] EXCEPT !.at = "select", !.approved = approved]
      BY <1>0, <3>2 DEF Call
    <3>3. CASE \E a \in {"done", "action", "automation"} : calls'[s] = [calls[s] EXCEPT !.at = a]
      BY <1>0, <3>3 DEF Call
    <3>4. QED
      BY <2>1, <3>1, <3>2, <3>3
  <2>3. \A d \in Cmd : status'[d] = "queued" => status[d] = "queued"
    BY <1>0, <1>3 DEF BeatRead, BeatAnswer, ResultUpdate, ResultAction, ResultAutomation, hubVars
  <2>4. QED
    BY <2>1, <2>2, <2>3, BatchesFrame
<1>4. QED
  BY <1>1, <1>2, <1>3 DEF HubStep

LEMMA BatchesStep ==
    ASSUME HandOver, Batches, [Next]_vars
    PROVE  Batches'
<1> USE DEF HandOver
<1>0. TypeOK' /\ calls \in [Slot -> Call]
  BY TypeStep DEF TypeOK
<1>1. CASE Manual \/ \E r \in Runner : RunQueue(r)
  BY <1>1, BatchesInsert DEF Manual, RunQueue
<1>2. CASE \E s \in Slot : HubStep(s) \/ BeatMarkFails(s)
  BY <1>0, <1>2, HubBatches
<1>3. CASE \/ Decide \/ Up \/ ServiceRestart \/ CycleEnd \/ HubCrash \/ BeatReply \/ UNCHANGED vars
           \/ \E r \in Runner : RunStart(r) \/ RunWrite(r) \/ RunAutomation(r)
           \/ \E s \in Slot : Lose(s) \/ TimeOut(s)
           \/ \E j \in jobs : ReportEnd(j)
  <2>1. \A s \in Slot : calls'[s] = calls[s] \/ calls'[s] = NoCall
    BY <1>0, <1>3 DEF Decide, Up, ServiceRestart, CycleEnd, HubCrash, BeatReply, vars, Lose,
       TimeOut, Cancelled, RunStart, RunWrite, RunAutomation, ReportEnd
  <2>2. status' = status
    BY <1>3 DEF Decide, Up, ServiceRestart, CycleEnd, HubCrash, BeatReply, vars, Lose, TimeOut,
       RunStart, RunWrite, RunAutomation, ReportEnd, hubVars
  <2>3. NoCall.batch = {} /\ NoCall.left = {}
    BY DEF NoCall
  <2>4. QED
    BY <2>1, <2>2, <2>3, BatchesFrame
<1>4. CASE Beat \/ \E j \in jobs : Report(j)
  <2>1. PICK t \in Slot : Begun(t)
    BY <1>4, CallBegins
  <2>2. \A s \in Slot : \/ calls'[s].batch = {} /\ calls'[s].left = {}
                        \/ calls'[s] = calls[s]
    BY <2>1 DEF Begun
  <2>3. status' = status
    BY <1>4 DEF Beat, Report, hubVars
  <2>4. QED
    BY <2>2, <2>3, BatchesFrame
<1>5. QED
  BY <1>1, <1>2, <1>3, <1>4 DEF Next, RunnerStep

LEMMA InitBatches == Init => Batches
BY DEF Init, Batches, NoCall

\* Only the UPDATE of a heartbeat makes a command sent.
LEMMA OnlyMarks ==
    ASSUME TypeOK, [Next]_vars, NEW c \in Cmd, status[c] # "sent", status'[c] = "sent"
    PROVE  \E s \in Slot : BeatMark(s) /\ First(s, c)
<1>1. status \in [Cmd -> {"absent", "queued", "sent", "done", "failed"}]
  BY DEF TypeOK
<1>2. CASE \E s \in Slot : HubStep(s)
  BY <1>1, <1>2 DEF HubStep, BeatRead, BeatSelect, BeatMark, BeatAnswer, ResultUpdate,
     ResultAction, ResultAutomation, hubVars
<1>3. CASE Manual \/ \E r \in Runner : RunQueue(r)
  BY <1>1, <1>3 DEF Manual, RunQueue, Insert
<1>4. QED
  BY <1>2, <1>3 DEF Next, RunnerStep, RunStart, RunWrite, RunAutomation, Decide,
     BeatMarkFails, Lose, TimeOut, Up, Beat, BeatReply, ServiceRestart, Report, ReportEnd,
     CycleEnd, HubCrash, hubVars, vars

\* Two heartbeats in flight hand commands over oldest first.
THEOREM HandedInOrder == Spec => InOrder
<1>1. HandOver /\ Batches /\ [Next]_vars =>
        [\A c, d \in Cmd : /\ d < c /\ status[d] = "queued" /\ d \notin unmarked
                           /\ status[c] = "queued"
           => status'[c] # "sent"]_status
  <2> SUFFICES ASSUME HandOver, Batches, [Next]_vars, status' # status,
                      NEW c \in Cmd, NEW d \in Cmd,
                      d < c, status[d] = "queued", d \notin unmarked, status[c] = "queued",
                      status'[c] = "sent"
               PROVE  FALSE
    OBVIOUS
  <2>1. \E s \in Slot : BeatMark(s) /\ First(s, c)
    BY OnlyMarks DEF HandOver
  <2>2. PICK s \in Slot : c \in calls[s].left /\ \A e \in calls[s].left : c <= e
    BY <2>1 DEF First
  <2>3. d \in calls[s].batch
    BY <2>2 DEF Batches
  <2>4. d \in calls[s].left
    BY <2>3 DEF HandOver, BatchMarked, HandedOver
  <2>5. QED
    BY <2>2, <2>4 DEF Cmd
<1>2. QED
  BY <1>1, HandOverInvariant, InitHandOver, InitBatches, BatchesStep, HandOverStep, PTL
     DEF Spec, InOrder

\* Where nothing ends, no call and no job is new, what has run stays so.
LEMMA RanFrame ==
    ASSUME TypeOK, Ran,
           \A c \in Cmd : runs'[c] >= runs[c],
           \A c \in Cmd : Finished(c)' => Finished(c) \/ runs[c] > 0,
           \A s \in Slot : calls'[s].op = "result" =>
               /\ calls'[s].cmd \in Cmd
               /\ runs[calls'[s].cmd] > 0,
           \A j \in jobs' : j.cmd \in Cmd /\ runs'[j.cmd] > 0,
           runs' \in [Cmd -> Nat]
    PROVE  Ran'
<1>1. \A c \in Cmd : runs[c] \in Nat /\ runs'[c] \in Nat
  BY DEF TypeOK
<1>2. \A c \in Cmd : runs[c] > 0 => runs'[c] > 0
  BY <1>1
<1>3. QED
  BY <1>2 DEF Ran

\* The call of a slot is kept, dropped or taken one step further.
LEMMA RanHub ==
    ASSUME HandOver, Ran, HandOver', NEW s \in Slot, HubStep(s) \/ BeatMarkFails(s)
    PROVE  Ran'
<1> USE DEF HandOver
<1>0. /\ calls \in [Slot -> Call] /\ calls[s] \in Call
      /\ status \in [Cmd -> {"absent", "queued", "sent", "done", "failed"}]
      /\ runs \in [Cmd -> Nat] /\ NoCall.op = "none"
  BY DEF TypeOK, NoCall
<1>1. runs' = runs /\ jobs' = jobs
  BY DEF HubStep, BeatRead, BeatSelect, BeatMark, BeatMarkFails, BeatAnswer, ResultUpdate,
     ResultAction, ResultAutomation, agentVars
<1>2. \A t \in Slot \ {s} : calls'[t] = calls[t]
  BY <1>0 DEF HubStep, BeatRead, BeatSelect, BeatMark, BeatMarkFails, BeatAnswer, ResultUpdate,
     ResultAction, ResultAutomation, Answer
<1>3. calls'[s].op = "none" \/ (calls'[s].op = calls[s].op /\ calls'[s].cmd = calls[s].cmd)
  <2>1. CASE BeatRead(s)
    BY <1>0, <2>1 DEF BeatRead, Call
  <2>2. CASE BeatSelect(s)
    <3> DEFINE batch == IF calls[s].approved THEN Oldest(Queued) ELSE {}
    <3>1. calls' = [calls EXCEPT ![s] = [@ EXCEPT !.at = "mark", !.batch = batch, !.left = batch]]
      BY <2>2 DEF BeatSelect
    <3> HIDE DEF batch
    <3>2. QED
      BY <1>0, <3>1 DEF Call
  <2>3. CASE BeatMark(s) \/ BeatMarkFails(s) \/ ResultUpdate(s) \/ ResultAction(s)
    BY <1>0, <2>3 DEF BeatMark, BeatMarkFails, ResultUpdate, ResultAction, Call
  <2>4. CASE BeatAnswer(s) \/ ResultAutomation(s)
    BY <1>0, <2>4 DEF BeatAnswer, ResultAutomation, Answer, Call
  <2>5. QED
    BY <2>1, <2>2, <2>3, <2>4 DEF HubStep
<1>4. \A c \in Cmd : Finished(c)' => Finished(c) \/ runs[c] > 0
  <2>1. CASE ResultUpdate(s)
    BY <1>0, <2>1 DEF ResultUpdate, Finished, Ran
  <2>2. CASE BeatMark(s)
    BY <1>0, <2>2 DEF BeatMark, Finished
  <2>3. CASE status' = status
    BY <2>3 DEF Finished
  <2>4. QED
    BY <2>1, <2>2, <2>3 DEF HubStep, BeatRead, BeatSelect, BeatMarkFails, BeatAnswer,
       ResultAction, ResultAutomation, hubVars
<1>5. \A t \in Slot : calls'[t].op = "result" =>
        calls'[t].cmd \in Cmd /\ runs[calls'[t].cmd] > 0
  BY <1>2, <1>3 DEF Ran
<1>6. \A j \in jobs' : j.cmd \in Cmd /\ runs'[j.cmd] > 0
  BY <1>1 DEF Ran, TypeOK, Job
<1>7. \A c \in Cmd : runs'[c] >= runs[c]
  BY <1>0, <1>1
<1>8. QED
  BY <1>0, <1>1, <1>4, <1>5, <1>6, <1>7, RanFrame

LEMMA RanStep ==
    ASSUME HandOver, Ran, [Next]_vars
    PROVE  Ran'
<1> USE DEF HandOver
<1>0. /\ HandOver' /\ calls \in [Slot -> Call] /\ runs \in [Cmd -> Nat]
      /\ NoCall.op = "none" /\ jobs \subseteq Job
      /\ \A j \in jobs : j.cmd \in Cmd /\ runs[j.cmd] > 0
  BY HandOverStep DEF TypeOK, NoCall, Ran, Job
<1>1. CASE \E s \in Slot : HubStep(s) \/ BeatMarkFails(s)
  BY <1>0, <1>1, RanHub
<1>2. CASE BeatReply
  <2>1. \A c \in Cmd : runs'[c] >= runs[c]
    BY <1>0, <1>2 DEF BeatReply, Cancelled
  <2>2. \A c \in Cmd : Finished(c)' => Finished(c)
    BY <1>2 DEF BeatReply, hubVars, Finished
  <2>3. \A s \in Slot : calls'[s] = calls[s] \/ calls'[s] = NoCall
    BY <1>0, <1>2 DEF BeatReply, Cancelled
  <2>4. \A j \in jobs' : j.cmd \in Cmd /\ runs'[j.cmd] > 0
    <3>1. waiting \in Slot /\ calls[waiting].batch \subseteq Cmd
      BY <1>0, <1>2 DEF BeatReply, TypeOK, Call
    <3>2. CASE calls[waiting].approved
      <4>1. /\ jobs' = jobs \cup {[cmd |-> d, turn |-> runs[d] + 1, slot |-> None] :
                                   d \in calls[waiting].batch}
            /\ runs' = [d \in Cmd |-> IF d \in calls[waiting].batch THEN runs[d] + 1 ELSE runs[d]]
        BY <1>2, <3>2 DEF BeatReply
      <4>2. QED
        BY <1>0, <3>1, <4>1
    <3>3. CASE ~calls[waiting].approved
      BY <1>2, <3>3 DEF BeatReply, Cancelled
    <3>4. QED
      BY <3>2, <3>3
  <2>5. QED
    BY <1>0, <2>1, <2>2, <2>3, <2>4, RanFrame DEF Ran, TypeOK
<1>3. CASE Manual \/ \E r \in Runner : RunQueue(r)
  <2>1. \E k, o : Insert(k, o)
    BY <1>3 DEF Manual, RunQueue
  <2>2. \A c \in Cmd : Finished(c)' => Finished(c)
    BY <2>1 DEF Insert, Finished, TypeOK
  <2>3. calls' = calls /\ jobs' = jobs /\ runs' = runs
    BY <1>3 DEF Manual, RunQueue, agentVars
  <2>4. QED
    BY <1>0, <2>2, <2>3, RanFrame DEF Ran
<1>4. CASE \/ Decide \/ Up \/ ServiceRestart \/ CycleEnd \/ HubCrash \/ UNCHANGED vars
           \/ \E r \in Runner : RunStart(r) \/ RunWrite(r) \/ RunAutomation(r)
           \/ \E s \in Slot : Lose(s) \/ TimeOut(s)
           \/ \E j \in jobs : ReportEnd(j)
  <2>1. \A s \in Slot : calls'[s] = calls[s] \/ calls'[s] = NoCall
    BY <1>0, <1>4 DEF Decide, Up, ServiceRestart, CycleEnd, HubCrash, vars, Lose, TimeOut,
       Cancelled, RunStart, RunWrite, RunAutomation, ReportEnd
  <2>2. status' = status /\ runs' = runs /\ jobs' \subseteq jobs
    BY <1>4 DEF Decide, Up, ServiceRestart, CycleEnd, HubCrash, vars, Lose, TimeOut, Cancelled,
       Over, RunStart, RunWrite, RunAutomation, ReportEnd, hubVars, agentVars
  <2>3. QED
    BY <1>0, <2>1, <2>2, RanFrame DEF Ran, Finished
<1>5. CASE Beat
  <2>1. PICK s \in Slot :
          calls' = [calls EXCEPT ![s] = [NoCall EXCEPT !.op = "heartbeat", !.at = "sent"]]
    BY <1>5 DEF Beat
  <2>2. calls'[s].op = "heartbeat" /\ \A t \in Slot \ {s} : calls'[t] = calls[t]
    BY <1>0, <2>1 DEF NoCall
  <2>3. status' = status /\ runs' = runs /\ jobs' = jobs
    BY <1>5 DEF Beat, hubVars
  <2>4. QED
    BY <1>0, <2>2, <2>3, RanFrame DEF Ran, Finished
<1>6. CASE \E j \in jobs : Report(j)
  <2>1. PICK j \in jobs, s \in Slot, ok \in BOOLEAN :
          /\ calls' = [calls EXCEPT ![s] = [NoCall EXCEPT !.op = "result", !.at = "sent",
                                              !.cmd = j.cmd, !.ok = ok]]
          /\ jobs' = (jobs \ {j}) \cup {[j EXCEPT !.slot = s]}
    BY <1>6 DEF Report
  <2>2. calls'[s].cmd = j.cmd /\ \A t \in Slot \ {s} : calls'[t] = calls[t]
    BY <1>0, <2>1 DEF NoCall
  <2>3. [j EXCEPT !.slot = s].cmd = j.cmd
    BY <1>0 DEF Job
  <2>4. status' = status /\ runs' = runs
    BY <1>6 DEF Report, hubVars
  <2>5. \A t \in Slot : calls'[t].op = "result" =>
          calls'[t].cmd \in Cmd /\ runs[calls'[t].cmd] > 0
    BY <1>0, <2>2 DEF Ran
  <2>6. \A k \in jobs' : k.cmd \in Cmd /\ runs'[k.cmd] > 0
    BY <1>0, <2>1, <2>3, <2>4
  <2>7. QED
    BY <1>0, <2>4, <2>5, <2>6, RanFrame DEF Finished
<1>7. QED
  BY <1>1, <1>2, <1>3, <1>4, <1>5, <1>6 DEF Next, RunnerStep

LEMMA InitRan == Init => Ran
BY DEF Init, Ran, Finished, NoCall

\* A command that ended is marked sent again only by a heartbeat the agent has given
\* up on.
THEOREM EndedUnlessAbandoned == Spec => FinalUnlessAbandoned
<1>1. HandOver /\ Batches /\ Ran /\ [Next]_vars =>
        [\A c \in Cmd \ unmarked : Finished(c) /\ status'[c] = "sent" =>
           \E s \in Slot : s # waiting /\ calls[s].op = "heartbeat" /\ c \in calls[s].left]_status
  <2> SUFFICES ASSUME HandOver, Batches, Ran, [Next]_vars, status' # status,
                      NEW c \in Cmd \ unmarked, Finished(c), status'[c] = "sent"
               PROVE  \E s \in Slot : /\ s # waiting /\ calls[s].op = "heartbeat"
                                      /\ c \in calls[s].left
    OBVIOUS
  <2>1. PICK s \in Slot : BeatMark(s) /\ First(s, c)
    BY OnlyMarks DEF HandOver, Finished
  <2>2. c \in calls[s].left /\ calls[s].op = "heartbeat"
    BY <2>1 DEF First, BeatMark, Mark
  <2>3. s # waiting
    <3>1. SUFFICES ASSUME s = waiting PROVE FALSE
      OBVIOUS
    <3>2. c \in calls[waiting].batch \ unmarked
      BY <2>2, <3>1 DEF Batches
    <3>3. runs[c] = 0
      BY <3>1, <3>2 DEF HandOver, BatchFresh
    <3>4. QED
      BY <3>3 DEF Ran
  <2>4. QED
    BY <2>2, <2>3
<1>2. QED
  BY <1>1, HandOverInvariant, InitHandOver, InitBatches, BatchesStep, InitRan, RanStep,
     HandOverStep, PTL DEF Spec, FinalUnlessAbandoned
=============================================================================

--------------------------- MODULE ScheduleProofs ---------------------------
(***************************************************************************)
(* Proofs about Schedule, for any number of automations, actions, requests *)
(* in progress and failed statements.                                      *)
(***************************************************************************)
EXTENDS Schedule, TLAPS

USE ScheduleAssumption

Busy(q) == req[q].op # "none"

\* Either what is running is current, or a Reload that will read the table is to come.
Follow ==
    project /\ ~lost =>
        \/ \E q \in Req : req[q].at \in {"reload", "list"}
        \/ \E q \in Req : req[q].at = "start" /\ Current(req[q].entries)
        \/ lock = None /\ Current(entries)

\* What a request that runs alone has checked still holds when it writes.
Checked(q) ==
    /\ req[q].op \in {"save", "update"} /\ req[q].at = "write" => req[q].new.action \in actions
    /\ At(q, "deleteAction", "write") => Using(req[q].id) = {}
    /\ At(q, "deleteProject", "actions") => Rows = {}

Used ==
    Quiet =>
        /\ \A q, r \in Req : Busy(q) /\ Busy(r) => q = r
        /\ \A a \in Rows : autos[a].action \in actions
        /\ \A q \in Req : Checked(q)

IInv == TypeOK /\ Follow /\ Used

-----------------------------------------------------------------------------
(* Requests. *)

LEMMA Idle == NoRequest \in Request /\ NoAuto \in AutoRow
BY DEF Request, AutoRow

\* A request in progress is a record of its own.
LEMMA InProgress ==
    ASSUME NEW r \in Request, r.op # "none" \/ r.at # "find"
    PROVE  r \in [op : Op, at : Place, id : AutoId \cup ActionId \cup {0}, new : AutoRow,
                  entries : SUBSET Entry]
BY DEF Request, NoRequest

LEMMA GoFacts ==
    ASSUME req \in [Req -> Request], NEW q \in Req, NEW at \in Place, Go(q, at),
           req[q].op # "none" \/ req[q].at # "find"
    PROVE  /\ req' \in [Req -> Request]
           /\ req'[q].at = at /\ req'[q].op = req[q].op /\ req'[q].op # "none"
           /\ req'[q].id = req[q].id /\ req'[q].new = req[q].new
           /\ req'[q].entries = req[q].entries
           /\ \A r \in Req \ {q} : req'[r] = req[r]
<1>1. req[q] \in [op : Op, at : Place, id : AutoId \cup ActionId \cup {0}, new : AutoRow,
                  entries : SUBSET Entry]
  BY InProgress
<1>2. [req[q] EXCEPT !.at = at] \in [op : Op, at : Place, id : AutoId \cup ActionId \cup {0},
                                     new : AutoRow, entries : SUBSET Entry]
  BY <1>1
<1>3. [req[q] EXCEPT !.at = at] \in Request
  BY <1>2 DEF Request
<1>4. req' = [req EXCEPT ![q] = [req[q] EXCEPT !.at = at]]
  BY DEF Go
<1>5. req'[q] = [req[q] EXCEPT !.at = at] /\ req[q].op # "none"
  BY <1>1, <1>4 DEF Op
<1>6. req' \in [Req -> Request] /\ \A r \in Req \ {q} : req'[r] = req[r]
  BY <1>3, <1>4
<1>7. QED
  BY <1>1, <1>5, <1>6

LEMMA EndFacts ==
    ASSUME req \in [Req -> Request], NEW q \in Req, End(q)
    PROVE  /\ req' \in [Req -> Request]
           /\ req'[q] = NoRequest
           /\ \A r \in Req \ {q} : req'[r] = req[r]
BY Idle DEF End

LEMMA AskedFacts ==
    ASSUME req \in [Req -> Request], NEW q \in Req, NEW op \in Op, NEW at \in Place,
           NEW id \in AutoId \cup ActionId \cup {0}, NEW new \in AutoRow, Asked(q, op, at, id, new)
    PROVE  /\ req' \in [Req -> Request]
           /\ req'[q].at = at /\ req'[q].op = op
           /\ \A r \in Req \ {q} : req'[r] = req[r]
<1>1. [op |-> op, at |-> at, id |-> id, new |-> new, entries |-> {}] \in Request
  BY DEF Request
<1>2. QED
  BY <1>1 DEF Asked

\* What a request starts with: it has checked and changed nothing.
LEMMA AskFacts ==
    ASSUME req \in [Req -> Request], NEW q \in Req, Ask(q)
    PROVE  /\ req' \in [Req -> Request]
           /\ req'[q].at \in {"find", "check", "write"}
           /\ req'[q].at = "write" => req'[q].op \in {"settings", "deleteProject"}
           /\ \A r \in Req \ {q} : req'[r] = req[r]
<1> USE DEF Op, Place
<1>1. CASE \E e \in BOOLEAN, c \in Cron, x \in ActionId :
             LET new == [exists |-> TRUE, enabled |-> e, cron |-> c, action |-> x] IN
             \/ project /\ Asked(q, "save", "check", 0, new)
             \/ \E a \in AutoId : Asked(q, "update", "find", a, new)
  <2>1. PICK e \in BOOLEAN, c \in Cron, x \in ActionId :
             LET new == [exists |-> TRUE, enabled |-> e, cron |-> c, action |-> x] IN
             \/ project /\ Asked(q, "save", "check", 0, new)
             \/ \E a \in AutoId : Asked(q, "update", "find", a, new)
    BY <1>1
  <2> DEFINE new == [exists |-> TRUE, enabled |-> e, cron |-> c, action |-> x]
  <2>2. new \in AutoRow
    BY DEF AutoRow
  <2>3. CASE Asked(q, "save", "check", 0, new)
    <3> HIDE DEF new
    <3> QED
      BY <2>2, <2>3, AskedFacts
  <2>4. CASE \E a \in AutoId : Asked(q, "update", "find", a, new)
    <3> HIDE DEF new
    <3> QED
      BY <2>2, <2>4, AskedFacts
  <2>5. QED
    BY <2>1, <2>3, <2>4
<1>2. CASE \E a \in AutoId : Asked(q, "delete", "find", a, NoAuto)
  BY <1>2, Idle, AskedFacts
<1>3. CASE \E x \in ActionId : Asked(q, "deleteAction", "check", x, NoAuto)
  BY <1>3, Idle, AskedFacts
<1>4. CASE Asked(q, "settings", "write", 0, NoAuto)
  BY <1>4, Idle, AskedFacts
<1>5. CASE Asked(q, "deleteProject", "write", 0, NoAuto)
  BY <1>5, Idle, AskedFacts
<1>6. QED
  BY <1>1, <1>2, <1>3, <1>4, <1>5 DEF Ask

-----------------------------------------------------------------------------
(* Types, and the mutex. *)

InReload(at) == at \in {"list", "start"}

\* A step of a request outside Reload.
LEMMA MutexKept ==
    ASSUME TypeOK, NEW q \in Req, lock' = lock,
           ~InReload(req[q].at), ~InReload(req'[q].at), \A r \in Req \ {q} : req'[r] = req[r]
    PROVE  lock' \in Req \cup {None} /\ \A r \in Req : req'[r].at \in {"list", "start"} <=> lock' = r
BY DEF TypeOK, InReload

LEMMA DueTyped == TypeOK => Due \subseteq Entry
<1> SUFFICES ASSUME TypeOK, NEW b \in Rows PROVE autos[b].cron \in Cron
  BY DEF Due, Entry, Rows
<1>1. autos[b] \in AutoRow /\ autos[b].exists
  BY DEF TypeOK, Rows
<1>2. autos[b] # NoAuto
  <2>1. ~NoAuto.exists
    BY DEF NoAuto
  <2>2. QED
    BY <1>1, <2>1
<1>3. QED
  BY <1>1, <1>2 DEF AutoRow

LEMMA RowsTyped == TypeOK => Rows \subseteq AutoId
BY DEF TypeOK, Rows

LEMMA RequestTyped ==
    ASSUME TypeOK, NEW q \in Req
    PROVE  /\ req[q] \in Request /\ req[q].new \in AutoRow /\ req[q].entries \subseteq Entry
           /\ req[q].at \in Place
<1>1. req[q] \in Request
  BY DEF TypeOK
<1>2. QED
  BY <1>1, Idle DEF Request, NoRequest, Place

LEMMA TypeInit == Init => TypeOK
<1> SUFFICES ASSUME Init PROVE TypeOK
  OBVIOUS
<1> USE DEF Init
<1>1. autos \in [AutoId -> AutoRow] /\ req \in [Req -> Request]
  BY Idle
<1>2. \A q \in Req : req[q].at \notin {"list", "start"} /\ lock # q
  BY DEF NoRequest
<1>3. project \in BOOLEAN
  OBVIOUS
<1>4. lost \in BOOLEAN /\ overlapped \in BOOLEAN
  OBVIOUS
<1>5. faults \in 0..MaxFaults
  OBVIOUS
<1>6. QED
  BY <1>1, <1>2, <1>3, <1>4, <1>5 DEF TypeOK

\* What a step that writes a row may write.
LEMMA RowWritten ==
    ASSUME TypeOK, NEW a, NEW row \in AutoRow, autos' = [autos EXCEPT ![a] = row]
    PROVE  autos' \in [AutoId -> AutoRow]
BY DEF TypeOK

LEMMA TypeStep == TypeOK /\ [Next]_vars => TypeOK'
<1> SUFFICES ASSUME TypeOK, [Next]_vars PROVE TypeOK'
  OBVIOUS
<1> USE DEF Place
<1>0. CASE UNCHANGED vars
  BY <1>0 DEF vars, TypeOK, AutoRow, Request
<1>1. ASSUME NEW q \in Req, Begin(q) PROVE TypeOK'
  <2>1. ~InReload(req[q].at)
    BY <1>1, RequestTyped DEF Begin, InReload, Request, NoRequest, Op
  <2>2. QED
    BY <1>1, <2>1, AskFacts, MutexKept DEF Begin, InReload, TypeOK, rows, cron
<1>2. CASE SaveAction
  BY <1>2 DEF SaveAction, TypeOK, cron
<1>3. ASSUME NEW q \in Req, Find(q) PROVE TypeOK'
  BY <1>3, GoFacts, EndFacts, MutexKept DEF Find, InReload, TypeOK, rows, cron, NoRequest
<1>4. ASSUME NEW q \in Req, Validate(q) PROVE TypeOK'
  BY <1>4, GoFacts, EndFacts, MutexKept DEF Validate, InReload, TypeOK, rows, cron, NoRequest
<1>5. ASSUME NEW q \in Req, SaveWrite(q) PROVE TypeOK'
  <2>1. autos' \in [AutoId -> AutoRow]
    BY <1>5, RequestTyped, RowWritten DEF SaveWrite
  <2>2. QED
    BY <1>5, <2>1, GoFacts, MutexKept DEF SaveWrite, At, InReload, TypeOK, cron
<1>6. ASSUME NEW q \in Req, UpdateWrite(q) PROVE TypeOK'
  <2>1. autos' \in [AutoId -> AutoRow]
    BY <1>6, RequestTyped, RowWritten DEF UpdateWrite, TypeOK
  <2>2. QED
    BY <1>6, <2>1, GoFacts, MutexKept DEF UpdateWrite, At, InReload, TypeOK, cron
<1>7. ASSUME NEW q \in Req, DeleteWrite(q) PROVE TypeOK'
  <2>1. autos' \in [AutoId -> AutoRow]
    BY <1>7, Idle, RowWritten DEF DeleteWrite
  <2>2. QED
    BY <1>7, <2>1, GoFacts, EndFacts, MutexKept
       DEF DeleteWrite, InReload, TypeOK, cron, NoRequest
<1>8. ASSUME NEW q \in Req, CountUses(q) PROVE TypeOK'
  BY <1>8, GoFacts, EndFacts, MutexKept DEF CountUses, At, InReload, TypeOK, rows, cron, NoRequest
<1>9. ASSUME NEW q \in Req, DeleteAction(q) PROVE TypeOK'
  BY <1>9, EndFacts, MutexKept DEF DeleteAction, At, InReload, TypeOK, cron, NoRequest
<1>10. ASSUME NEW q \in Req, Settings(q) PROVE TypeOK'
  BY <1>10, GoFacts, MutexKept DEF Settings, At, InReload, TypeOK, rows, cron
<1>11. ASSUME NEW q \in Req, PurgeAutos(q) PROVE TypeOK'
  BY <1>11, Idle, GoFacts, MutexKept DEF PurgeAutos, At, InReload, TypeOK, cron
<1>12. ASSUME NEW q \in Req, PurgeActions(q) PROVE TypeOK'
  BY <1>12, GoFacts, MutexKept DEF PurgeActions, At, InReload, TypeOK, cron
<1>13. ASSUME NEW q \in Req, PurgeProject(q) PROVE TypeOK'
  BY <1>13, GoFacts, MutexKept DEF PurgeProject, At, InReload, TypeOK, cron
<1>14. ASSUME NEW q \in Req, Lock(q) PROVE TypeOK'
  BY <1>14, GoFacts, EndFacts DEF Lock, TypeOK, rows, NoRequest
<1>15. ASSUME NEW q \in Req, List(q) PROVE TypeOK'
  <2> DEFINE r == [req[q] EXCEPT !.at = "start", !.entries = Due]
  <2>1. r \in Request /\ r.at = "start"
    BY <1>15, DueTyped, RequestTyped, InProgress DEF List, Request
  <2>2. req' = [req EXCEPT ![q] = r]
    BY <1>15 DEF List
  <2> HIDE DEF r
  <2>3. QED
    BY <1>15, <2>1, <2>2 DEF List, TypeOK, rows
<1>16. ASSUME NEW q \in Req, ReadFails(q) PROVE TypeOK'
  BY <1>16, GoFacts, EndFacts DEF ReadFails, Fail, TypeOK, rows, NoRequest
<1>17. ASSUME NEW q \in Req, Start(q) PROVE TypeOK'
  BY <1>17, EndFacts, RequestTyped DEF Start, TypeOK, rows, NoRequest
<1>18. CASE Restart
  <2>1. req' \in [Req -> Request] /\ \A q \in Req : ~InReload(req'[q].at) /\ lock' # q
    BY <1>18, Idle DEF Restart, NoRequest, InReload
  <2>2. entries' \subseteq Entry /\ lost' \in BOOLEAN /\ lock' = None
    BY <1>18, DueTyped DEF Restart
  <2>3. faults' \in 0..MaxFaults
    BY <1>18 DEF Restart, Fail, TypeOK
  <2>4. QED
    BY <1>18, <2>1, <2>2, <2>3 DEF Restart, TypeOK, rows, InReload
<1>19. ASSUME NEW q \in Req, StatementFails(q) PROVE TypeOK'
  <2>1. ~InReload(req[q].at) /\ ~InReload(req'[q].at) /\ \A r \in Req \ {q} : req'[r] = req[r]
    BY <1>19, GoFacts, EndFacts DEF StatementFails, At, InReload, TypeOK, NoRequest
  <2>2. req' \in [Req -> Request]
    BY <1>19, GoFacts, EndFacts DEF StatementFails, At, TypeOK
  <2>3. QED
    BY <1>19, <2>1, <2>2, MutexKept DEF StatementFails, Fail, TypeOK, rows, cron
<1>20. QED
  BY <1>0, <1>1, <1>2, <1>3, <1>4, <1>5, <1>6, <1>7, <1>8, <1>9, <1>10, <1>11, <1>12, <1>13,
     <1>14, <1>15, <1>16, <1>17, <1>18, <1>19 DEF Next, Handle, Reload

-----------------------------------------------------------------------------
(* The cron instance follows the table. *)

\* Entries stay current while rows only go.
LEMMA CurrentKept ==
    ASSUME Rows' \subseteq Rows, \A b \in Rows' : autos'[b] = autos[b], NEW found, Current(found)
    PROVE  Due' \subseteq found /\ \A e \in found : e[1] \in Rows' => e \in Due'
<1>1. Due' \subseteq Due
  BY DEF Due, Rows
<1>2. ASSUME NEW e \in found, e[1] \in Rows' PROVE e \in Due'
  <2>1. e \in Due
    BY <1>2 DEF Current
  <2>2. PICK b \in Rows : autos[b].enabled /\ e = <<b, autos[b].cron>>
    BY <2>1 DEF Due
  <2>3. b \in Rows'
    BY <1>2, <2>2
  <2>4. QED
    BY <2>2, <2>3 DEF Due
<1>3. QED
  BY <1>1, <1>2 DEF Current

\* A step that leaves the scheduler and no more than removes rows.
LEMMA FollowKept ==
    ASSUME Follow, NEW q \in Req, req[q].at \notin {"reload", "list", "start"},
           \A r \in Req \ {q} : req'[r] = req[r],
           Rows' \subseteq Rows, \A b \in Rows' : autos'[b] = autos[b],
           project' => project, lost' = lost, lock' = lock, entries' = entries
    PROVE  Follow'
<1> SUFFICES ASSUME project', ~lost' PROVE
        \/ \E r \in Req : req'[r].at \in {"reload", "list"}
        \/ \E r \in Req : req'[r].at = "start" /\ Current(req[r].entries)'
        \/ lock' = None /\ Current(entries)'
  BY DEF Follow
<1>1. CASE \E r \in Req : req[r].at \in {"reload", "list"}
  BY <1>1
<1>2. CASE \E r \in Req : req[r].at = "start" /\ Current(req[r].entries)
  <2>1. PICK r \in Req : req[r].at = "start" /\ Current(req[r].entries)
    BY <1>2
  <2>2. req'[r] = req[r]
    BY <2>1
  <2>3. Current(req[r].entries)'
    BY <2>1, <2>2, CurrentKept DEF Current
  <2>4. QED
    BY <2>1, <2>2, <2>3
<1>3. CASE lock = None /\ Current(entries)
  BY <1>3, CurrentKept DEF Current
<1>4. QED
  BY <1>1, <1>2, <1>3 DEF Follow

\* Once a request is about to read the table nothing is missed.
LEMMA ReloadToCome ==
    ASSUME NEW q \in Req, req'[q].at \in {"reload", "list"}
    PROVE  Follow'
BY DEF Follow

LEMMA FollowStep == TypeOK /\ Follow /\ [Next]_vars => Follow'
<1> SUFFICES ASSUME TypeOK, Follow, [Next]_vars PROVE Follow'
  OBVIOUS
<1> USE DEF Place
<1>r. req \in [Req -> Request]
  BY DEF TypeOK
<1>0. CASE UNCHANGED vars
  BY <1>0 DEF vars, Follow, Current, Due, Rows
<1>1. ASSUME NEW q \in Req, Begin(q) PROVE Follow'
  <2>1. req[q].at \notin {"reload", "list", "start"}
    BY <1>1, RequestTyped DEF Begin, Request, NoRequest, Op
  <2>2. QED
    BY <1>1, <2>1, <1>r, AskFacts, FollowKept DEF Begin, rows, cron, Rows
<1>2. CASE SaveAction
  BY <1>2 DEF SaveAction, Follow, Current, Due, Rows, cron
<1>3. ASSUME NEW q \in Req, Find(q) PROVE Follow'
  BY <1>3, <1>r, GoFacts, EndFacts, FollowKept DEF Find, rows, cron, Rows
<1>4. ASSUME NEW q \in Req, Validate(q) PROVE Follow'
  BY <1>4, <1>r, GoFacts, EndFacts, FollowKept DEF Validate, rows, cron, Rows
<1>5. ASSUME NEW q \in Req, SaveWrite(q) \/ UpdateWrite(q) \/ Settings(q) \/ PurgeProject(q) PROVE Follow'
  BY <1>5, <1>r, GoFacts, ReloadToCome DEF SaveWrite, UpdateWrite, Settings, PurgeProject, At
<1>6. ASSUME NEW q \in Req, DeleteWrite(q) PROVE Follow'
  <2>1. CASE req[q].at = "write"
    BY <1>6, <2>1, <1>r, GoFacts, ReloadToCome DEF DeleteWrite
  <2>2. CASE req[q].at = "drop"
    <3>1. Rows' \subseteq Rows /\ \A b \in Rows' : autos'[b] = autos[b]
      BY <1>6 DEF DeleteWrite, Rows, TypeOK, NoAuto
    <3>2. QED
      BY <1>6, <2>2, <3>1, <1>r, EndFacts, FollowKept DEF DeleteWrite, cron
  <2>3. QED
    BY <1>6, <2>1, <2>2 DEF DeleteWrite
<1>7. ASSUME NEW q \in Req, CountUses(q) PROVE Follow'
  BY <1>7, <1>r, GoFacts, EndFacts, FollowKept DEF CountUses, At, rows, cron, Rows
<1>8. ASSUME NEW q \in Req, DeleteAction(q) PROVE Follow'
  BY <1>8, <1>r, EndFacts, FollowKept DEF DeleteAction, At, cron, Rows
<1>9. ASSUME NEW q \in Req, PurgeAutos(q) PROVE Follow'
  <2>1. Rows' = {}
    BY <1>9 DEF PurgeAutos, Rows, NoAuto
  <2>2. QED
    BY <1>9, <2>1, <1>r, GoFacts, FollowKept DEF PurgeAutos, At, cron
<1>10. ASSUME NEW q \in Req, PurgeActions(q) PROVE Follow'
  BY <1>10, <1>r, GoFacts, FollowKept DEF PurgeActions, At, cron, Rows
<1>11. ASSUME NEW q \in Req, Lock(q) PROVE Follow'
  <2>1. CASE project
    BY <1>11, <2>1, <1>r, GoFacts, ReloadToCome DEF Lock
  <2>2. CASE ~project
    BY <1>11, <2>2 DEF Lock, rows, Follow
  <2>3. QED
    BY <2>1, <2>2
<1>12. ASSUME NEW q \in Req, List(q) PROVE Follow'
  <2>1. req'[q].at = "start" /\ req'[q].entries = Due
    BY <1>12, <1>r, InProgress DEF List
  <2>2. Current(req[q].entries)'
    BY <1>12, <2>1, RowsTyped DEF List, Current, rows, Due, Rows
  <2>3. QED
    BY <2>1, <2>2 DEF Follow
<1>13. ASSUME NEW q \in Req, ReadFails(q) PROVE Follow'
  BY <1>13 DEF ReadFails, Follow
<1>14. ASSUME NEW q \in Req, Start(q) PROVE Follow'
  <2> SUFFICES ASSUME project', ~lost' PROVE
          \/ \E r \in Req : req'[r].at \in {"reload", "list"}
          \/ lock' = None /\ Current(entries)'
    BY DEF Follow
  <2>1. project /\ ~lost /\ lock = q /\ lock # None
    BY <1>14 DEF Start, rows, TypeOK
  <2>2. CASE \E r \in Req : req[r].at \in {"reload", "list"}
    BY <1>14, <2>2, <1>r, EndFacts DEF Start
  <2>3. CASE \E r \in Req : req[r].at = "start" /\ Current(req[r].entries)
    <3>1. Current(req[q].entries)
      BY <2>1, <2>3 DEF TypeOK
    <3>2. QED
      BY <1>14, <3>1 DEF Start, Current, Due, Rows, rows
  <2>4. QED
    BY <2>1, <2>2, <2>3 DEF Follow
<1>15. CASE Restart
  <2>1. project' /\ ~lost' => lock' = None /\ entries' = Due /\ autos' = autos
    BY <1>15 DEF Restart, rows
  <2>2. project' /\ ~lost' => Current(entries)'
    BY <2>1 DEF Current, Due, Rows
  <2>3. QED
    BY <2>1, <2>2 DEF Follow
<1>16. ASSUME NEW q \in Req, StatementFails(q) PROVE Follow'
  <2>1. CASE req'[q].at = "reload"
    BY <2>1, ReloadToCome
  <2>2. CASE req'[q].at # "reload"
    <3>1. req[q].at \notin {"reload", "list", "start"} /\ \A r \in Req \ {q} : req'[r] = req[r]
      BY <1>16, <1>r, GoFacts, EndFacts DEF StatementFails, At
    <3>2. QED
      BY <1>16, <3>1, FollowKept DEF StatementFails, rows, cron, Rows
  <2>3. QED
    BY <2>1, <2>2
<1>17. QED
  BY <1>0, <1>1, <1>2, <1>3, <1>4, <1>5, <1>6, <1>7, <1>8, <1>9, <1>10, <1>11, <1>12, <1>13,
     <1>14, <1>15, <1>16 DEF Next, Handle, Reload

-----------------------------------------------------------------------------
(* No automation names a deleted action. *)

\* While requests come one at a time, what the others have checked is nothing.
LEMMA UsedBy ==
    ASSUME NEW q \in Req, Used, Busy(q), Quiet' => Quiet,
           \A r \in Req \ {q} : req'[r] = req[r],
           Quiet => \A a \in Rows' : autos'[a].action \in actions',
           Quiet => Checked(q)'
    PROVE  Used'
<1> SUFFICES ASSUME Quiet, Quiet'
             PROVE  /\ \A s, r \in Req : Busy(s)' /\ Busy(r)' => s = r
                    /\ \A r \in Req : Checked(r)'
  BY DEF Used
<1>1. \A r \in Req \ {q} : ~Busy(r) /\ ~Busy(r)'
  BY DEF Used, Busy
<1>2. \A r \in Req \ {q} : Checked(r)'
  BY <1>1 DEF Busy, Checked, At
<1>3. QED
  BY <1>1, <1>2

LEMMA UsedStep == TypeOK /\ Used /\ [Next]_vars => Used'
<1> SUFFICES ASSUME TypeOK, Used, [Next]_vars PROVE Used'
  OBVIOUS
<1> USE DEF Place
<1>r. req \in [Req -> Request]
  BY DEF TypeOK
<1>b. ASSUME NEW q \in Req, req[q].at # "find" PROVE Busy(q)
  BY <1>b, <1>r, InProgress DEF Busy, Op
<1>q. Quiet' => Quiet
  <2>1. ASSUME NEW q \in Req, Handle(q) \/ Reload(q) PROVE UNCHANGED <<overlapped, faults>>
    BY <2>1 DEF Handle, Reload, Find, Validate, SaveWrite, UpdateWrite, DeleteWrite, CountUses,
       DeleteAction, Settings, PurgeAutos, PurgeActions, PurgeProject, Lock, List, Start
  <2>2. ASSUME NEW q \in Req, Begin(q) PROVE faults' = faults /\ (overlapped => overlapped')
    BY <2>2 DEF Begin
  <2>3. ASSUME (\E q \in Req : StatementFails(q) \/ ReadFails(q)) \/ Restart
        PROVE  overlapped' = overlapped /\ (faults' = faults \/ faults' = faults + 1)
    BY <2>3 DEF StatementFails, ReadFails, Restart, Fail
  <2>4. CASE SaveAction \/ UNCHANGED vars
    BY <2>4 DEF SaveAction, vars, Quiet
  <2>5. QED
    BY <2>1, <2>2, <2>3, <2>4 DEF Next, Quiet, TypeOK
<1>0. CASE UNCHANGED vars
  BY <1>0 DEF vars, Used, Quiet, Busy, Checked, At, Using, Rows
<1>1. ASSUME NEW q \in Req, Begin(q) PROVE Used'
  <2> SUFFICES ASSUME Quiet' PROVE
          /\ \A s, r \in Req : Busy(s)' /\ Busy(r)' => s = r
          /\ \A a \in Rows' : autos'[a].action \in actions'
          /\ \A r \in Req : Checked(r)'
    BY DEF Used
  <2>1. Quiet /\ \A r \in Req \ {q} : ~Busy(r)
    BY <1>1 DEF Begin, Busy, Quiet
  <2>2. \A r \in Req \ {q} : ~Busy(r)' /\ Checked(r)'
    BY <1>1, <2>1, <1>r, AskFacts DEF Begin, Busy, Checked, At
  <2>3. Checked(q)'
    BY <1>1, <1>r, AskFacts DEF Begin, Checked, At
  <2>4. QED
    BY <1>1, <2>1, <2>2, <2>3 DEF Begin, rows, Used, Rows
<1>2. CASE SaveAction
  <2>1. actions \subseteq actions'
    BY <1>2 DEF SaveAction
  <2>2. QED
    BY <1>2, <2>1 DEF SaveAction, Used, Quiet, Busy, Checked, At, Using, Rows
<1>3. ASSUME NEW q \in Req, Find(q) PROVE Used'
  <2>1. Checked(q)'
    BY <1>3, <1>r, GoFacts, EndFacts DEF Find, Checked, At, NoRequest
  <2>2. QED
    BY <1>3, <2>1, <1>r, <1>q, GoFacts, EndFacts, UsedBy DEF Find, rows, Rows, Used, Busy
<1>4. ASSUME NEW q \in Req, Validate(q) PROVE Used'
  <2>1. Checked(q)'
    BY <1>4, <1>r, GoFacts, EndFacts DEF Validate, Checked, At, NoRequest, rows
  <2>2. QED
    BY <1>4, <2>1, <1>r, <1>b, <1>q, GoFacts, EndFacts, UsedBy DEF Validate, rows, Rows, Used
<1>5. ASSUME NEW q \in Req, SaveWrite(q) \/ UpdateWrite(q) PROVE Used'
  <2>1. Checked(q)'
    BY <1>5, <1>r, GoFacts DEF SaveWrite, UpdateWrite, Checked, At
  <2>2. ASSUME Quiet, NEW a \in Rows' PROVE autos'[a].action \in actions'
    <3>1. req[q].new.action \in actions /\ actions' = actions
      BY <1>5, <2>2 DEF SaveWrite, UpdateWrite, Used, Checked, At
    <3>2. autos'[a] = req[q].new \/ (autos'[a] = autos[a] /\ a \in Rows)
      BY <1>5, <2>2 DEF SaveWrite, UpdateWrite, Rows, TypeOK
    <3>3. QED
      BY <2>2, <3>1, <3>2 DEF Used
  <2>3. QED
    BY <1>5, <2>1, <2>2, <1>r, <1>b, <1>q, GoFacts, UsedBy DEF SaveWrite, UpdateWrite, At
<1>6. ASSUME NEW q \in Req, DeleteWrite(q) PROVE Used'
  <2>1. Checked(q)'
    BY <1>6, <1>r, GoFacts, EndFacts DEF DeleteWrite, Checked, At, NoRequest
  <2>2. Rows' \subseteq Rows /\ \A a \in Rows' : autos'[a] = autos[a]
    BY <1>6 DEF DeleteWrite, Rows, TypeOK, NoAuto
  <2>3. QED
    BY <1>6, <2>1, <2>2, <1>r, <1>b, <1>q, GoFacts, EndFacts, UsedBy DEF DeleteWrite, Used
<1>7. ASSUME NEW q \in Req, CountUses(q) PROVE Used'
  <2>1. Checked(q)'
    BY <1>7, <1>r, GoFacts, EndFacts DEF CountUses, Checked, At, NoRequest, rows, Using, Rows
  <2>2. QED
    BY <1>7, <2>1, <1>r, <1>b, <1>q, GoFacts, EndFacts, UsedBy DEF CountUses, At, rows, Rows, Used
<1>8. ASSUME NEW q \in Req, DeleteAction(q) PROVE Used'
  <2>1. Checked(q)'
    BY <1>8, <1>r, EndFacts DEF DeleteAction, Checked, At, NoRequest
  <2>2. ASSUME Quiet, NEW a \in Rows' PROVE autos'[a].action \in actions'
    <3>1. a \in Rows /\ autos[a].action \in actions /\ autos[a].action # req[q].id
      BY <1>8, <2>2 DEF DeleteAction, Used, Checked, Using, Rows
    <3>2. QED
      BY <1>8, <3>1 DEF DeleteAction
  <2>3. QED
    BY <1>8, <2>1, <2>2, <1>r, <1>b, <1>q, EndFacts, UsedBy DEF DeleteAction, At
<1>9. ASSUME NEW q \in Req, Settings(q) PROVE Used'
  <2>1. Checked(q)'
    BY <1>9, <1>r, GoFacts DEF Settings, Checked, At
  <2>2. QED
    BY <1>9, <2>1, <1>r, <1>b, <1>q, GoFacts, UsedBy DEF Settings, At, rows, Rows, Used
<1>10. ASSUME NEW q \in Req, PurgeAutos(q) PROVE Used'
  <2>1. Rows' = {}
    BY <1>10 DEF PurgeAutos, Rows, NoAuto
  <2>2. Checked(q)'
    BY <1>10, <2>1, <1>r, GoFacts DEF PurgeAutos, Checked, At
  <2>3. QED
    BY <1>10, <2>1, <2>2, <1>r, <1>b, <1>q, GoFacts, UsedBy DEF PurgeAutos, At
<1>11. ASSUME NEW q \in Req, PurgeActions(q) PROVE Used'
  <2>1. Checked(q)'
    BY <1>11, <1>r, GoFacts DEF PurgeActions, Checked, At
  <2>2. Quiet => Rows' = {}
    BY <1>11 DEF PurgeActions, Used, Checked, At, Rows
  <2>3. QED
    BY <1>11, <2>1, <2>2, <1>r, <1>b, <1>q, GoFacts, UsedBy DEF PurgeActions, At
<1>12. ASSUME NEW q \in Req, PurgeProject(q) PROVE Used'
  <2>1. Checked(q)'
    BY <1>12, <1>r, GoFacts DEF PurgeProject, Checked, At
  <2>2. QED
    BY <1>12, <2>1, <1>r, <1>b, <1>q, GoFacts, UsedBy DEF PurgeProject, At, Rows, Used
<1>13. ASSUME NEW q \in Req, Lock(q) PROVE Used'
  <2>1. Checked(q)'
    BY <1>13, <1>r, GoFacts, EndFacts DEF Lock, Checked, At, NoRequest
  <2>2. QED
    BY <1>13, <2>1, <1>r, <1>b, <1>q, GoFacts, EndFacts, UsedBy DEF Lock, rows, Rows, Used
<1>14. ASSUME NEW q \in Req, List(q) PROVE Used'
  <2>1. req'[q].at = "start" /\ \A r \in Req \ {q} : req'[r] = req[r]
    BY <1>14, <1>r, InProgress DEF List
  <2>2. Checked(q)'
    BY <2>1 DEF Checked, At
  <2>3. QED
    BY <1>14, <2>1, <2>2, <1>b, <1>q, UsedBy DEF List, rows, Rows, Used
<1>15. ASSUME NEW q \in Req, ReadFails(q) \/ StatementFails(q) PROVE Used'
  <2>1. ~Quiet'
    BY <1>15 DEF ReadFails, StatementFails, Fail, Quiet, TypeOK
  <2>2. QED
    BY <2>1 DEF Used
<1>16. ASSUME NEW q \in Req, Start(q) PROVE Used'
  <2>1. Checked(q)'
    BY <1>16, <1>r, EndFacts DEF Start, Checked, At, NoRequest
  <2>2. QED
    BY <1>16, <2>1, <1>r, <1>b, <1>q, EndFacts, UsedBy DEF Start, rows, Rows, Used
<1>17. CASE Restart
  <2>1. \A q \in Req : ~Busy(q)' /\ Checked(q)'
    BY <1>17 DEF Restart, Busy, Checked, At, NoRequest
  <2>2. QED
    BY <1>17, <1>q, <2>1 DEF Restart, rows, Used, Rows
<1>18. QED
  BY <1>0, <1>1, <1>2, <1>3, <1>4, <1>5, <1>6, <1>7, <1>8, <1>9, <1>10, <1>11, <1>12, <1>13,
     <1>14, <1>15, <1>16, <1>17 DEF Next, Handle, Reload

-----------------------------------------------------------------------------
(* Theorems. *)

LEMMA InvInit == Init => IInv
<1> SUFFICES ASSUME Init PROVE Follow /\ Used
  BY TypeInit DEF IInv
<1>1. Rows = {}
  BY DEF Init, Rows, NoAuto
<1>2. Follow
  BY <1>1 DEF Init, Follow, Current, Due
<1>3. Used
  BY <1>1 DEF Init, Used, Busy, Checked, At, NoRequest
<1>4. QED
  BY <1>2, <1>3

\* What is inductive.
THEOREM Invariant == Spec => []IInv
<1>1. IInv /\ [Next]_vars => IInv'
  BY TypeStep, FollowStep, UsedStep DEF IInv
<1>2. QED
  BY <1>1, InvInit, PTL DEF Spec

\* Only the request that holds the mutex is inside Reload, and every value keeps its type.
THEOREM TypeCorrect == Spec => []TypeOK
<1>1. IInv => TypeOK
  BY DEF IInv
<1>2. QED
  BY <1>1, Invariant, PTL

\* When the last of any number of overlapping requests has ended, the cron instance
\* that runs follows the table.
THEOREM SchedulerFollows == Spec => []CronFollows
<1>1. IInv => CronFollows
  <2> SUFFICES ASSUME IInv, project, ~lost, \A q \in Req : req[q].op = "none"
               PROVE  Current(entries)
    BY DEF CronFollows
  <2>1. \A q \in Req : req[q].at = "find"
    BY DEF IInv, TypeOK, Request, NoRequest, Op
  <2>2. QED
    BY <2>1 DEF IInv, Follow
<1>2. QED
  BY <1>1, Invariant, PTL

\* While operators' requests come one at a time, an automation's action is there.
THEOREM ActionsThere == Spec => []ActionsKept
<1>1. IInv => ActionsKept
  BY DEF IInv, Used, ActionsKept
<1>2. QED
  BY <1>1, Invariant, PTL
=============================================================================

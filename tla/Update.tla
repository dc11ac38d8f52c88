------------------------------- MODULE Update -------------------------------
(***************************************************************************)
(* The agent's self-update: a release is checked, its binary downloaded    *)
(* beside the one in place and swapped with it by two renames, the tray    *)
(* application after it, and the service restarted. The hourly loop, each  *)
(* update command and the command line run the same code on the same       *)
(* names. Files are POSIX ones: one that is open stays writable when it is *)
(* renamed or removed.                                                     *)
(***************************************************************************)
EXTENDS Naturals

CONSTANTS
    Updater,    \* goroutines and processes that may call Check and Apply
    Loop,       \* updateLoop, which ends once it has installed a release
    Cli,        \* processes of `agent update`: not stopped with the service
    MaxRelease, \* releases published
    MaxFaults   \* downloads or renames that fail, crashes

ASSUME UpdateAssumption ==
    /\ Loop \subseteq Updater /\ Cli \subseteq Updater
    /\ MaxRelease \in Nat \ {0} /\ MaxFaults \in Nat

VARIABLES
    latest,    \* the release GitHub calls the latest
    running,   \* version of the service's process, 0 when none runs
    ran,       \* highest version the service has run
    fresh,     \* the process has yet to call CleanupOld
    restart,   \* a detached `agent restart` is under way
    file,      \* name -> the two halves of the file's content
    phase,     \* per updater
    cur,       \* per updater, Options.Current
    rel,       \* per updater, the release it read
    asset,     \* per updater, the binary it replaces
    open,      \* per updater, the name under which the file it has open now is
    enabled,   \* the Update.Enabled the process has from the portal
    overlap,   \* an update began, or CleanupOld ran, while another update was under way
    blind,     \* one of the two happened with nothing under the agent's name
    faults

service == <<running, ran, fresh, restart>>
mine == <<phase, cur, rel, asset, open>>
past == <<overlap, blind>>
vars == <<latest, running, ran, fresh, restart, file, phase, cur, rel, asset, open,
          enabled, overlap, blind, faults>>

Release == 1..MaxRelease
Asset == {"agent", "tray"}
Name == {"download", "agent", "agent.old", "tray", "tray.old"}
Phase == {"idle", "sums", "open", "half1", "half2", "hash", "remove", "aside", "place", "undo",
          "installed", "ended"}

Hole == <<"none", 0>>
Piece == (Asset \X Release) \cup {Hole}
Empty == <<Hole, Hole>>
Absent == <<>>
Binary(a, v) == <<<<a, v>>, <<a, v>>>>

Old(a) == IF a = "agent" THEN "agent.old" ELSE "tray.old"
Exists(n) == file[n] # Absent
Whole(n, a) == \E v \in Release : file[n] = Binary(a, v)
\* The version the service manager would run.
InPlace == file["agent"][1][2]

Init ==
    /\ latest = 1 /\ running = 1 /\ ran = 1 /\ fresh = FALSE /\ restart = FALSE
    /\ \E tray \in {Absent, Binary("tray", 1)} :
         file = [n \in Name |-> CASE n = "agent" -> Binary("agent", 1) [] n = "tray" -> tray
                                 [] OTHER -> Absent]
    /\ phase = [u \in Updater |-> "idle"]
    /\ cur = [u \in Updater |-> 1] /\ rel = [u \in Updater |-> 1]
    /\ asset = [u \in Updater |-> "agent"] /\ open = [u \in Updater |-> "none"]
    /\ enabled \in BOOLEAN /\ overlap = FALSE /\ blind = FALSE /\ faults = 0

Fault == faults < MaxFaults /\ faults' = faults + 1

Busy(u) == phase[u] \notin {"idle", "ended"}

Go(u, p) == phase' = [phase EXCEPT ![u] = p]
\* Closing a file; removing and renaming a name, which leads the open files elsewhere.
Closed(o, u) == [o EXCEPT ![u] = "none"]
Unlinked(n) == [u \in Updater |-> IF open[u] = n THEN "none" ELSE open[u]]
Moved(a, b) == [u \in Updater |-> IF open[u] = a THEN b ELSE IF open[u] = b THEN "none" ELSE open[u]]
Remove(n) == file' = [file EXCEPT ![n] = Absent]
Rename(a, b) == file' = [file EXCEPT ![b] = file[a], ![a] = Absent]

-----------------------------------------------------------------------------
(* A release and its signature are published, or withdrawn, at once. *)
Publish ==
    /\ \/ latest < MaxRelease /\ latest' = latest + 1
       \/ latest > 1 /\ latest' = latest - 1
    /\ UNCHANGED <<service, file, mine, enabled, past, faults>>

(* The portal's configuration reaches the process. *)
Configure ==
    /\ enabled' = ~enabled
    /\ UNCHANGED <<latest, service, file, mine, past, faults>>

\* Check reads checksums.txt. Options.Current is the caller's own version, a release: a
\* development build only updates with -force. The service's updaters start after its
\* CleanupOld. The loop lets its timer pass while updates are disabled, a command or the
\* command line does not ask.
Begin(u) ==
    /\ phase[u] = "idle"
    /\ u \in Loop => enabled
    /\ IF u \in Cli THEN Whole("agent", "agent") ELSE running # 0 /\ ~fresh
    /\ cur' = [cur EXCEPT ![u] = IF u \in Cli THEN InPlace ELSE running]
    /\ rel' = [rel EXCEPT ![u] = latest]
    /\ asset' = [asset EXCEPT ![u] = "agent"]
    /\ overlap' = (overlap \/ \E w \in Updater \ {u} : Busy(w))
    /\ blind' = (blind \/ ~Exists("agent"))
    /\ Go(u, "sums")
    /\ UNCHANGED <<latest, service, file, open, enabled, faults>>

\* Mutant: any other release is applied.
CheckOther(u) ==
    /\ phase[u] = "sums"
    /\ \/ rel[u] = latest /\ rel[u] # cur[u] /\ Go(u, "open") /\ UNCHANGED faults
       \/ (rel[u] # latest \/ rel[u] = cur[u]) /\ Go(u, "idle") /\ UNCHANGED faults
       \/ Fault /\ Go(u, "idle")
    /\ UNCHANGED <<latest, service, file, cur, rel, asset, open, enabled, past>>

\* Check reads the signature, which is that of the latest release by then, and compares
\* the versions.
Check(u) ==
    /\ phase[u] = "sums"
    /\ \/ rel[u] = latest /\ rel[u] > cur[u] /\ Go(u, "open") /\ UNCHANGED faults
       \/ (rel[u] # latest \/ rel[u] <= cur[u]) /\ Go(u, "idle") /\ UNCHANGED faults
       \/ Fault /\ Go(u, "idle")
    /\ UNCHANGED <<latest, service, file, cur, rel, asset, open, enabled, past>>

-----------------------------------------------------------------------------
(* replaceBinary, and Apply around it. *)

\* replaceBinary returns to Apply: with an error, which for the tray is only logged, or
\* without one. The agent's binary done, the tray's follows if it is installed.
Return(u, ok) ==
    IF asset[u] = "agent"
    THEN IF ok /\ Exists("tray")
         THEN asset' = [asset EXCEPT ![u] = "tray"] /\ Go(u, "open")
         ELSE Go(u, IF ok THEN "installed" ELSE "idle") /\ UNCHANGED asset
    ELSE Go(u, "installed") /\ UNCHANGED asset

\* OpenFile with O_CREATE|O_TRUNC: a download already there is emptied, and shared.
Open(u) ==
    /\ phase[u] = "open"
    /\ file' = [file EXCEPT !["download"] = Empty]
    /\ open' = [open EXCEPT ![u] = "download"]
    /\ Go(u, "half1")
    /\ UNCHANGED <<latest, service, cur, rel, asset, enabled, past, faults>>

\* Mutant: the second half is written past the end.
WriteBeyond(u) ==
    /\ phase[u] \in {"half1", "half2"}
    /\ IF open[u] = "none" THEN UNCHANGED file
       ELSE file' = [file EXCEPT ![open[u]] =
                IF phase[u] = "half1" THEN <<<<asset[u], rel[u]>>, @[2]>>
                ELSE <<@[1], @[2], <<asset[u], rel[u]>>>>]
    /\ Go(u, IF phase[u] = "half1" THEN "half2" ELSE "hash")
    /\ UNCHANGED <<latest, service, cur, rel, asset, open, enabled, past, faults>>

\* The copy writes what it receives at its own offset in the file it holds.
Write(u) ==
    /\ phase[u] \in {"half1", "half2"}
    /\ IF open[u] = "none" THEN UNCHANGED file
       ELSE file' = [file EXCEPT ![open[u]] =
                IF phase[u] = "half1" THEN <<<<asset[u], rel[u]>>, @[2]>>
                ELSE <<@[1], <<asset[u], rel[u]>>>>]
    /\ Go(u, IF phase[u] = "half1" THEN "half2" ELSE "hash")
    /\ UNCHANGED <<latest, service, cur, rel, asset, open, enabled, past, faults>>

\* The file is closed. The SHA-256 is that of the bytes received, not of the file.
Hash(u) ==
    /\ phase[u] = "hash"
    /\ open' = Closed(open, u)
    /\ Go(u, "remove")
    /\ UNCHANGED <<latest, service, file, cur, rel, asset, enabled, past, faults>>

\* Mutant: a copy cut short is not noticed.
CutShort(u) ==
    /\ phase[u] \in {"half1", "half2", "hash"}
    /\ Fault
    /\ open' = Closed(open, u)
    /\ Go(u, "remove")
    /\ UNCHANGED <<latest, service, file, cur, rel, asset, enabled, past>>

\* The request or the copy fails, or the hash is wrong: the download is removed by name.
DownloadFails(u) ==
    /\ phase[u] \in {"half1", "half2", "hash"}
    /\ Fault
    /\ Remove("download") /\ open' = Closed(Unlinked("download"), u)
    /\ Return(u, FALSE)
    /\ UNCHANGED <<latest, service, cur, rel, enabled, past>>

RemoveOld(u) ==
    /\ phase[u] = "remove"
    /\ Remove(Old(asset[u])) /\ open' = Unlinked(Old(asset[u]))
    /\ Go(u, "aside")
    /\ UNCHANGED <<latest, service, cur, rel, asset, enabled, past, faults>>

\* Mutant: the binary in place is deleted instead.
Deleted(u) ==
    /\ phase[u] = "aside"
    /\ Exists(asset[u])
    /\ Remove(asset[u]) /\ open' = Unlinked(asset[u])
    /\ Go(u, "place")
    /\ UNCHANGED <<latest, service, cur, rel, asset, enabled, past, faults>>

SetAside(u) ==
    /\ phase[u] = "aside"
    /\ \/ /\ Exists(asset[u])
          /\ Rename(asset[u], Old(asset[u])) /\ open' = Moved(asset[u], Old(asset[u]))
          /\ Go(u, "place")
          /\ UNCHANGED <<asset, faults>>
       \/ /\ IF Exists(asset[u]) THEN Fault ELSE UNCHANGED faults
          /\ Remove("download") /\ open' = Unlinked("download")
          /\ Return(u, FALSE)
    /\ UNCHANGED <<latest, service, cur, rel, enabled, past>>

Place(u) ==
    /\ phase[u] = "place"
    /\ \/ /\ Exists("download")
          /\ Rename("download", asset[u]) /\ open' = Moved("download", asset[u])
          /\ Return(u, TRUE)
          /\ UNCHANGED faults
       \/ /\ IF Exists("download") THEN Fault ELSE UNCHANGED faults
          /\ Go(u, "undo")
          /\ UNCHANGED <<file, asset, open>>
    /\ UNCHANGED <<latest, service, cur, rel, enabled, past>>

\* The rename back, whose error is not looked at: the name may go on leading nowhere. It
\* costs no fault of its own, the rename before it has failed.
Undo(u) ==
    /\ phase[u] = "undo"
    /\ \/ /\ Exists(Old(asset[u]))
          /\ Rename(Old(asset[u]), asset[u]) /\ open' = Moved(Old(asset[u]), asset[u])
       \/ UNCHANGED <<file, open>>
    /\ Return(u, FALSE)
    /\ UNCHANGED <<latest, service, cur, rel, enabled, past, faults>>

\* Mutant: nobody restarts the service.
NoRespawn(u) ==
    /\ phase[u] = "installed"
    /\ Go(u, IF u \in Loop THEN "ended" ELSE "idle")
    /\ UNCHANGED <<latest, service, file, cur, rel, asset, open, enabled, past, faults>>

\* applyUpdate and runUpdate: SpawnRestart runs what is under the agent's name. The
\* hourly loop returns if that could be started, and goes on otherwise.
Respawn(u) ==
    /\ phase[u] = "installed"
    /\ restart' = (restart \/ Whole("agent", "agent"))
    /\ Go(u, IF u \in Loop /\ Whole("agent", "agent") THEN "ended" ELSE "idle")
    /\ UNCHANGED <<latest, running, ran, fresh, file, cur, rel, asset, open, enabled, past, faults>>

-----------------------------------------------------------------------------
(* The service. *)

\* The updaters in dead end where they are.
Kill(dead) ==
    /\ phase' = [u \in Updater |-> IF u \in dead THEN "idle" ELSE phase[u]]
    /\ open' = [u \in Updater |-> IF u \in dead THEN "none" ELSE open[u]]

Stop ==
    /\ restart
    /\ running' = 0 /\ restart' = FALSE /\ fresh' = FALSE
    /\ Kill(Updater \ Cli)
    /\ UNCHANGED <<latest, ran, file, cur, rel, asset, enabled, past, faults>>

Crash ==
    /\ Fault
    /\ running' = 0 /\ restart' = FALSE /\ fresh' = FALSE
    /\ Kill(Updater)
    /\ UNCHANGED <<latest, ran, file, cur, rel, asset, enabled, past>>

\* The service manager starts what is under the agent's name, if that can run.
Start ==
    /\ running = 0
    /\ Whole("agent", "agent")
    /\ running' = InPlace /\ fresh' = TRUE
    /\ ran' = IF InPlace > ran THEN InPlace ELSE ran
    /\ UNCHANGED <<latest, restart, file, mine, enabled, past, faults>>

CleanupOld ==
    /\ fresh
    /\ fresh' = FALSE
    /\ Remove("agent.old") /\ open' = Unlinked("agent.old")
    /\ overlap' = (overlap \/ \E u \in Updater : Busy(u))
    /\ blind' = (blind \/ ~Exists("agent"))
    /\ UNCHANGED <<latest, running, ran, restart, phase, cur, rel, asset, enabled, faults>>

UpdateStep(u) ==
    \/ Check(u) \/ Open(u) \/ Write(u) \/ Hash(u) \/ RemoveOld(u) \/ SetAside(u) \/ Place(u)
    \/ Undo(u) \/ Respawn(u)

Next ==
    \/ Publish \/ Configure
    \/ \E u \in Updater : Begin(u) \/ UpdateStep(u) \/ DownloadFails(u)
    \/ Stop \/ Crash \/ Start \/ CleanupOld

Spec == Init /\ [][Next]_vars

\* While updates are enabled the loop's timer leads to a check again and again; its steps
\* and the service's are taken. Nobody has to publish, enable or ask.
FairSpec ==
    /\ Spec
    /\ \A u \in Updater : WF_vars(UpdateStep(u) \/ (u \in Loop /\ Begin(u)))
    /\ WF_vars(Stop) /\ WF_vars(Start \/ CleanupOld)

-----------------------------------------------------------------------------
TypeOK ==
    /\ latest \in Release /\ running \in 0..MaxRelease /\ ran \in Release
    /\ fresh \in BOOLEAN /\ restart \in BOOLEAN /\ enabled \in BOOLEAN
    /\ overlap \in BOOLEAN /\ blind \in BOOLEAN
    /\ file \in [Name -> (Piece \X Piece) \cup {Absent}]
    /\ phase \in [Updater -> Phase]
    /\ cur \in [Updater -> Release] /\ rel \in [Updater -> Release]
    /\ asset \in [Updater -> Asset] /\ open \in [Updater -> Name \cup {"none"}]
    /\ faults \in 0..MaxFaults

\* What replaceBinary puts under a binary's name was downloaded whole and hashed: as long
\* as no two updates overlap, neither a part of a file nor another program stands there,
\* through crashes and failed renames.
InPlaceWhole == ~overlap => \A a \in Asset : Exists(a) => Whole(a, a)

\* A crash may fall anywhere and every rename may fail, the one back included: as long as
\* no two updates overlap, a whole agent is on the disk, under its name or set aside, for
\* a person to put back -- until an update or CleanupOld goes ahead with nothing under the
\* name, and removes what is aside.
AgentKept == ~overlap /\ ~blind => Whole("agent", "agent") \/ Whole("agent.old", "agent")

\* Check refuses a release that is not newer, rollbacks put back what was there: the
\* service never runs an older version than it has run, as long as no two updates overlap.
NeverOlder == ~overlap /\ Whole("agent", "agent") => InPlace >= ran

\* A release that stays the latest while updates stay enabled ends up running, unless
\* updates overlapped or the agent's name leads nowhere for good: a process died between
\* the two renames, or the second failed and the rename back with it.
ReachesLatest ==
    <>[](latest = MaxRelease /\ enabled)
    => <>(running = MaxRelease) \/ <>[]~Exists("agent") \/ <>overlap
=============================================================================

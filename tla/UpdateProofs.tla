----------------------------- MODULE UpdateProofs -----------------------------
(***************************************************************************)
(* Proofs about Update, for any updaters, releases and faults.             *)
(***************************************************************************)
EXTENDS Update, TLAPS

USE UpdateAssumption

\* A file that is open is there, and its updater is downloading; the updaters of the
\* service end with it.
Base ==
    /\ \A u \in Updater : open[u] # "none" =>
         phase[u] \in {"half1", "half2", "hash"} /\ Exists(open[u])
    /\ \A u \in Updater \ Cli : Busy(u) => running # 0
    /\ fresh => running # 0

\* What holds until two updates overlap. One updater is at work,
Alone == \A u, w \in Updater : Busy(u) /\ Busy(w) => u = w

\* what it has received is in the file under the download's name,
Downloaded(u) ==
    /\ phase[u] \in {"half1", "half2", "hash"} => open[u] = "download"
    /\ phase[u] = "half1" => file["download"] = Empty
    /\ phase[u] = "half2" => file["download"] = <<<<asset[u], rel[u]>>, Hole>>
    /\ phase[u] \in {"hash", "remove", "aside", "place"}
         => file["download"] = Binary(asset[u], rel[u])

\* between its two renames the binary is aside,
Swapping(u) == phase[u] \in {"place", "undo"}
Swapped(u) == Swapping(u) => ~Exists(asset[u]) /\ Whole(Old(asset[u]), asset[u])

\* what it brings is newer than all that the service has run,
Before == {"sums", "open", "half1", "half2", "hash", "remove", "aside"}
Newer(u) ==
    asset[u] = "agent" =>
        /\ phase[u] \in Before => cur[u] >= ran /\ (u \in Cli => cur[u] = InPlace)
        /\ Swapping(u) => cur[u] >= ran /\ file["agent.old"][1][2] >= ran
        /\ phase[u] \in (Before \ {"sums"}) \cup {"place"} => rel[u] > cur[u]

Work == Alone /\ \A u \in Updater : Downloaded(u) /\ Swapped(u) /\ Newer(u)
Disk ==
    /\ \A a \in Asset : Exists(a) => Whole(a, a)
    /\ Whole("agent", "agent") => InPlace >= ran
Calm == Work /\ Disk /\ running \in {0, ran}

\* Until something goes ahead with nothing under the agent's name, it is in place while
\* an update is at work and not between the agent's own renames,
Standing ==
    \A u \in Updater : Busy(u) /\ (asset[u] = "agent" => ~Swapping(u)) => Whole("agent", "agent")

\* so what removes the copy set aside does not remove the only one.
Kept == Standing /\ (Whole("agent", "agent") \/ Whole("agent.old", "agent"))

IInv ==
    /\ TypeOK /\ Base
    /\ ~overlap => Calm
    /\ ~overlap /\ ~blind => Kept

-----------------------------------------------------------------------------
(* Files. *)

Content == (Piece \X Piece) \cup {Absent}

\* A binary is a file of its own, and tells its program and its version.
LEMMA BinaryFacts ==
    ASSUME NEW a \in Asset, NEW v \in Release
    PROVE  /\ Binary(a, v) \in Piece \X Piece /\ Binary(a, v) # Absent
           /\ Binary(a, v)[1][2] = v
BY DEF Binary, Piece, Absent

LEMMA BinarySame ==
    ASSUME NEW a \in Asset, NEW b \in Asset, NEW v \in Release, NEW w \in Release,
           Binary(a, v) = Binary(b, w)
    PROVE  a = b /\ v = w
BY DEF Binary

LEMMA EmptyFacts == Empty \in Piece \X Piece /\ Empty # Absent
BY DEF Empty, Piece, Absent, Hole

\* Each half is written over that half.
LEMMA Written ==
    ASSUME NEW f \in Piece \X Piece, NEW p \in Piece
    PROVE  /\ <<p, f[2]>> \in Piece \X Piece /\ <<p, f[2]>> # Absent
           /\ <<f[1], p>> \in Piece \X Piece /\ <<f[1], p>> # Absent
BY DEF Absent

LEMMA WholeFacts ==
    ASSUME NEW n \in Name, NEW a \in Asset, Whole(n, a)
    PROVE  Exists(n) /\ file[n] \in Content /\ file[n][1][2] \in Release
BY BinaryFacts DEF Whole, Exists, Content

LEMMA Names ==
    \A a \in Asset : /\ a \in Name /\ Old(a) \in Name /\ a # Old(a)
                     /\ a # "download" /\ Old(a) # "download"
BY DEF Asset, Name, Old

-----------------------------------------------------------------------------
(* Types. *)

\* An open file is there.
Opened == \A u \in Updater : open[u] # "none" => Exists(open[u])
FilesOK == file \in [Name -> Content] /\ open \in [Updater -> Name \cup {"none"}] /\ Opened

\* A name that is removed or renamed is nobody's any more.
LEMMA Removes ==
    ASSUME FilesOK, NEW n \in Name, Remove(n),
           open' \in [Updater -> Name \cup {"none"}],
           \A u \in Updater : open'[u] \in {"none", Unlinked(n)[u]}
    PROVE  FilesOK'
<1>1. file' = [file EXCEPT ![n] = Absent] /\ file \in [Name -> Content]
  BY DEF Remove, FilesOK
<1>2. file' \in [Name -> Content]
  BY <1>1 DEF Content
<1>3. \A u \in Updater : open'[u] # "none" => open'[u] = open[u] /\ open[u] # n
  BY DEF Unlinked
<1>4. Opened'
  BY <1>1, <1>3 DEF Opened, Exists, FilesOK
<1>5. QED
  BY <1>2, <1>4 DEF FilesOK

LEMMA Renames ==
    ASSUME FilesOK, NEW a \in Name, NEW b \in Name, a # b, Exists(a), Rename(a, b),
           open' = Moved(a, b)
    PROVE  FilesOK'
<1>1. file' = [file EXCEPT ![b] = file[a], ![a] = Absent] /\ file \in [Name -> Content]
  BY DEF Rename, FilesOK
<1>2. file' \in [Name -> Content]
  BY <1>1 DEF Content
<1>3. open' \in [Updater -> Name \cup {"none"}]
  BY DEF FilesOK, Moved
<1>4. /\ file'[b] # Absent
      /\ \A n \in Name : n # a /\ n # b => file'[n] = file[n]
  BY <1>1 DEF Exists
<1>5. \A u \in Updater : open'[u] # "none" =>
        open'[u] = b \/ (open'[u] = open[u] /\ open[u] # a /\ open[u] # b)
  BY DEF Moved
<1>6. Opened'
  BY <1>3, <1>4, <1>5 DEF Opened, Exists, FilesOK
<1>7. QED
  BY <1>2, <1>3, <1>6 DEF FilesOK

LEMMA FilesStep ==
    ASSUME TypeOK, FilesOK, [Next]_vars
    PROVE  FilesOK'
<1>1. \A u \in Updater : asset[u] \in Asset /\ rel[u] \in Release
  BY DEF TypeOK
<1>2. CASE \E u \in Updater : Open(u)
  <2>1. PICK u \in Updater : Open(u)
    BY <1>2
  <2>2. /\ file' = [file EXCEPT !["download"] = Empty]
        /\ open' = [open EXCEPT ![u] = "download"] /\ "download" \in Name
    BY <2>1 DEF Open, Name
  <2>3. QED
    BY <2>2, EmptyFacts DEF FilesOK, Opened, Exists, Content
<1>3. CASE \E u \in Updater : Write(u)
  <2>1. PICK u \in Updater : Write(u)
    BY <1>3
  <2>2. open' = open
    BY <2>1 DEF Write
  <2>3. CASE open[u] = "none"
    BY <2>1, <2>2, <2>3 DEF Write, FilesOK, Opened, Exists
  <2>4. CASE open[u] # "none"
    <3> DEFINE n == open[u]
               p == <<asset[u], rel[u]>>
               f == file[n]
    <3>1. n \in Name /\ f \in Piece \X Piece /\ p \in Piece
      BY <1>1, <2>4 DEF FilesOK, Opened, Exists, Content, Piece
    <3>2. PICK g : /\ file' = [file EXCEPT ![n] = g]
                   /\ g = <<p, f[2]>> \/ g = <<f[1], p>>
      BY <2>1, <2>4 DEF Write
    <3>3. g \in Content /\ g # Absent
      BY <3>1, <3>2, Written DEF Content
    <3>4. file \in [Name -> Content] /\ Opened /\ open \in [Updater -> Name \cup {"none"}]
      BY DEF FilesOK
    <3> HIDE DEF n, p, f
    <3>5. /\ file' \in [Name -> Content] /\ file'[n] = g
          /\ \A m \in Name : m # n => file'[m] = file[m]
      BY <3>1, <3>2, <3>3, <3>4
    <3>6. Opened'
      BY <2>2, <3>3, <3>4, <3>5 DEF Opened, Exists
    <3>7. QED
      BY <2>2, <3>4, <3>5, <3>6 DEF FilesOK
  <2>5. QED
    BY <2>3, <2>4
<1>4. CASE \E u \in Updater : DownloadFails(u) \/ RemoveOld(u)
  <2>1. PICK u \in Updater : DownloadFails(u) \/ RemoveOld(u)
    BY <1>4
  <2>2. PICK n \in Name : Remove(n) /\ (open' = Unlinked(n) \/ open' = Closed(Unlinked(n), u))
    BY <1>1, <2>1, Names DEF DownloadFails, RemoveOld, Name
  <2>3. Unlinked(n) \in [Updater -> Name \cup {"none"}]
    BY DEF Unlinked, FilesOK
  <2>4. /\ open' \in [Updater -> Name \cup {"none"}]
        /\ \A w \in Updater : open'[w] \in {"none", Unlinked(n)[w]}
    BY <2>2, <2>3 DEF Closed
  <2>5. QED
    BY <2>2, <2>4, Removes
<1>5. CASE CleanupOld
  <2>1. "agent.old" \in Name /\ Remove("agent.old") /\ open' = Unlinked("agent.old")
    BY <1>5 DEF CleanupOld, Name
  <2>2. open' \in [Updater -> Name \cup {"none"}]
    BY <2>1 DEF Unlinked, FilesOK
  <2>3. QED
    BY <2>1, <2>2, Removes
<1>6. CASE \E u \in Updater : SetAside(u) \/ Place(u) \/ Undo(u)
  <2>1. PICK u \in Updater : SetAside(u) \/ Place(u) \/ Undo(u)
    BY <1>6
  <2>2. \/ UNCHANGED <<file, open>>
        \/ Remove("download") /\ open' = Unlinked("download")
        \/ \E a, b \in Name : a # b /\ Exists(a) /\ Rename(a, b) /\ open' = Moved(a, b)
    <3>1. "download" \in Name
      BY DEF Name
    <3>2. QED
      BY <1>1, <2>1, <3>1, Names DEF SetAside, Place, Undo
  <2>3. "download" \in Name /\ Unlinked("download") \in [Updater -> Name \cup {"none"}]
    BY DEF Unlinked, FilesOK, Name
  <2>4. CASE Remove("download") /\ open' = Unlinked("download")
    BY <2>3, <2>4, Removes
  <2>5. CASE UNCHANGED <<file, open>>
    BY <2>5 DEF FilesOK, Opened, Exists
  <2>6. QED
    BY <2>2, <2>4, <2>5, Renames
<1>7. CASE file' = file /\ \E dead \in SUBSET Updater : Kill(dead)
  BY <1>7 DEF Kill, FilesOK, Opened, Exists
<1>8. CASE file' = file /\ \E u \in Updater : Hash(u)
  BY <1>8 DEF Hash, Closed, FilesOK, Opened, Exists
<1>9. CASE UNCHANGED <<file, open>>
  BY <1>9 DEF FilesOK, Opened, Exists
<1>10. QED
  BY <1>2, <1>3, <1>4, <1>5, <1>6, <1>7, <1>8, <1>9 DEF Next, UpdateStep, Publish, Configure, Begin, Check,
     Hash, Respawn, Stop, Crash, Start, mine, vars

\* The version that is in place, where a whole agent is.
LEMMA InPlaceTyped ==
    ASSUME Whole("agent", "agent")
    PROVE  InPlace \in Release /\ file["agent"] = Binary("agent", InPlace)
BY BinaryFacts DEF Whole, InPlace, Asset

LEMMA VersionsTyped ==
    ASSUME TypeOK, [Next]_vars
    PROVE  /\ latest' \in Release /\ running' \in 0..MaxRelease /\ ran' \in Release
           /\ cur' \in [Updater -> Release] /\ rel' \in [Updater -> Release]
<1>1. /\ latest \in Release /\ running \in 0..MaxRelease /\ ran \in Release
      /\ cur \in [Updater -> Release] /\ rel \in [Updater -> Release]
  BY DEF TypeOK
<1>2. CASE Publish
  BY <1>1, <1>2 DEF Publish, service, mine, Release
<1>3. CASE \E u \in Updater : Begin(u)
  <2>1. PICK u \in Updater : Begin(u)
    BY <1>3
  <2>2. (IF u \in Cli THEN InPlace ELSE running) \in Release
    BY <1>1, <2>1, InPlaceTyped DEF Begin, Release
  <2>3. QED
    BY <1>1, <2>1, <2>2 DEF Begin, service
<1>4. CASE Stop \/ Crash
  BY <1>1, <1>4 DEF Stop, Crash
<1>5. CASE Start
  BY <1>1, <1>5, InPlaceTyped DEF Start, mine, Release
<1>6. CASE UNCHANGED <<latest, running, ran, cur, rel>>
  BY <1>1, <1>6
<1>7. QED
  BY <1>2, <1>3, <1>4, <1>5, <1>6 DEF Next, UpdateStep, Configure, DownloadFails, Check, Open,
     Write, Hash, RemoveOld, SetAside, Place, Undo, Respawn, CleanupOld, service, mine, vars

LEMMA ReturnTyped ==
    ASSUME phase \in [Updater -> Phase], asset \in [Updater -> Asset],
           NEW u \in Updater, NEW ok \in BOOLEAN, Return(u, ok)
    PROVE  phase' \in [Updater -> Phase] /\ asset' \in [Updater -> Asset]
BY DEF Return, Go, Phase, Asset

LEMMA PhasesTyped ==
    ASSUME TypeOK, [Next]_vars
    PROVE  phase' \in [Updater -> Phase] /\ asset' \in [Updater -> Asset]
<1>1. phase \in [Updater -> Phase] /\ asset \in [Updater -> Asset]
  BY DEF TypeOK
<1>2. CASE \E u \in Updater : Begin(u)
  BY <1>1, <1>2 DEF Begin, Go, Phase, Asset
<1>3. CASE \E u \in Updater : Check(u) \/ Open(u) \/ Write(u) \/ Hash(u) \/ RemoveOld(u) \/ Respawn(u)
  BY <1>1, <1>3 DEF Check, Open, Write, Hash, RemoveOld, Respawn, Go, Phase
<1>4. CASE \E u \in Updater : DownloadFails(u) \/ SetAside(u) \/ Place(u) \/ Undo(u)
  <2>1. PICK u \in Updater : DownloadFails(u) \/ SetAside(u) \/ Place(u) \/ Undo(u)
    BY <1>4
  <2>2. CASE \E ok \in BOOLEAN : Return(u, ok)
    BY <1>1, <2>2, ReturnTyped
  <2>3. CASE asset' = asset /\ \E p \in {"place", "undo"} : Go(u, p)
    BY <1>1, <2>3 DEF Go, Phase
  <2>4. QED
    BY <2>1, <2>2, <2>3 DEF DownloadFails, SetAside, Place, Undo
<1>5. CASE asset' = asset /\ \E dead \in SUBSET Updater : Kill(dead)
  BY <1>1, <1>5 DEF Kill, Phase
<1>6. CASE UNCHANGED <<phase, asset>>
  BY <1>1, <1>6
<1>7. QED
  BY <1>2, <1>3, <1>4, <1>5, <1>6 DEF Next, UpdateStep, Publish, Configure, Stop, Crash, Start, CleanupOld,
     mine, vars

LEMMA FlagsTyped ==
    ASSUME TypeOK, [Next]_vars
    PROVE  /\ fresh' \in BOOLEAN /\ restart' \in BOOLEAN /\ enabled' \in BOOLEAN
           /\ overlap' \in BOOLEAN /\ blind' \in BOOLEAN /\ faults' \in 0..MaxFaults
<1>1. /\ fresh \in BOOLEAN /\ restart \in BOOLEAN /\ enabled \in BOOLEAN /\ overlap \in BOOLEAN
      /\ blind \in BOOLEAN /\ faults \in 0..MaxFaults
  BY DEF TypeOK
<1>2. fresh' \in {fresh, TRUE, FALSE}
  BY DEF Next, UpdateStep, Publish, Configure, Begin, DownloadFails, Check, Open, Write, Hash, RemoveOld,
     SetAside, Place, Undo, Respawn, Stop, Crash, Start, CleanupOld, service, past, vars
<1>3. \/ restart' = restart \/ restart' = FALSE
      \/ restart' = (restart \/ Whole("agent", "agent"))
  BY DEF Next, UpdateStep, Publish, Configure, Begin, DownloadFails, Check, Open, Write, Hash, RemoveOld,
     SetAside, Place, Undo, Respawn, Stop, Crash, Start, CleanupOld, service, past, vars
<1>4. \/ overlap' = overlap
      \/ overlap' = (overlap \/ \E u \in Updater : Busy(u))
      \/ \E u \in Updater : overlap' = (overlap \/ \E w \in Updater \ {u} : Busy(w))
  BY DEF Next, UpdateStep, Publish, Configure, Begin, DownloadFails, Check, Open, Write, Hash, RemoveOld,
     SetAside, Place, Undo, Respawn, Stop, Crash, Start, CleanupOld, past, vars
<1>5. faults' = faults \/ Fault
  BY DEF Next, UpdateStep, Publish, Configure, Begin, DownloadFails, Check, Open, Write, Hash, RemoveOld,
     SetAside, Place, Undo, Respawn, Stop, Crash, Start, CleanupOld, past, vars
<1>6. restart' \in BOOLEAN
  BY <1>1, <1>3, Zenon
<1>7. overlap' \in BOOLEAN
  BY <1>1, <1>4, Zenon
<1>8. faults' \in 0..MaxFaults
  BY <1>1, <1>5 DEF Fault
<1>9. blind' = blind \/ blind' = (blind \/ ~Exists("agent"))
  BY DEF Next, UpdateStep, Publish, Configure, Begin, DownloadFails, Check, Open, Write, Hash,
     RemoveOld, SetAside, Place, Undo, Respawn, Stop, Crash, Start, CleanupOld, past, vars
<1>10. blind' \in BOOLEAN
  BY <1>1, <1>9, Zenon
<1>11. enabled' = enabled \/ enabled' = ~enabled
  BY DEF Next, UpdateStep, Publish, Configure, Begin, DownloadFails, Check, Open, Write, Hash,
     RemoveOld, SetAside, Place, Undo, Respawn, Stop, Crash, Start, CleanupOld, past, vars
<1>12. enabled' \in BOOLEAN
  BY <1>1, <1>11, Zenon
<1>13. QED
  BY <1>1, <1>2, <1>6, <1>7, <1>8, <1>10, <1>12

LEMMA TypeStep ==
    ASSUME TypeOK, Base, [Next]_vars
    PROVE  TypeOK' /\ Opened'
<1>1. FilesOK
  BY DEF TypeOK, Base, FilesOK, Opened, Content
<1>2. FilesOK'
  BY <1>1, FilesStep
<1>3. file' \in [Name -> (Piece \X Piece) \cup {Absent}]
  BY <1>2 DEF FilesOK, Content
<1>4. open' \in [Updater -> Name \cup {"none"}] /\ Opened'
  BY <1>2 DEF FilesOK
<1>5. QED
  BY <1>3, <1>4, VersionsTyped, PhasesTyped, FlagsTyped DEF TypeOK

\* Where an update stands between two steps of the service.
LEMMA BaseStep ==
    ASSUME TypeOK, Base, [Next]_vars
    PROVE  Base'
<1>0. /\ phase \in [Updater -> Phase] /\ open \in [Updater -> Name \cup {"none"}]
      /\ asset \in [Updater -> Asset] /\ Opened'
  BY TypeStep DEF TypeOK
<1>1. \A u \in Updater : open'[u] # "none" => phase'[u] \in {"half1", "half2", "hash"}
  <2>1. CASE \E u \in Updater : Begin(u) \/ Check(u) \/ Open(u) \/ Write(u) \/ Hash(u)
    BY <1>0, <2>1 DEF Begin, Check, Open, Write, Hash, Go, Closed, Base
  <2>2. CASE \E u \in Updater : DownloadFails(u) \/ RemoveOld(u) \/ SetAside(u) \/ Place(u)
                               \/ Undo(u) \/ Respawn(u)
    <3>1. PICK u \in Updater : DownloadFails(u) \/ RemoveOld(u) \/ SetAside(u) \/ Place(u)
                               \/ Undo(u) \/ Respawn(u)
      BY <2>2
    <3>2. \A w \in Updater \ {u} : phase'[w] = phase[w]
      BY <1>0, <3>1 DEF DownloadFails, RemoveOld, SetAside, Place, Undo, Respawn, Return, Go
    <3>3. \A w \in Updater : open'[w] # "none" => open[w] # "none"
      <4>1. \/ open' = open \/ open' = Closed(Unlinked("download"), u)
            \/ \E n : open' = Unlinked(n)
            \/ \E a, b \in Name : open' = Moved(a, b)
        BY <1>0, <3>1, Names DEF DownloadFails, RemoveOld, SetAside, Place, Undo, Respawn, Name
      <4>2. \A n : \A w \in Updater : Unlinked(n)[w] # "none" => open[w] # "none"
        BY DEF Unlinked
      <4>3. \A w \in Updater : Closed(Unlinked("download"), u)[w] \in {"none", Unlinked("download")[w]}
        BY DEF Unlinked, Closed
      <4>4. \A a, b \in Name : \A w \in Updater : Moved(a, b)[w] # "none" => open[w] # "none"
        BY DEF Moved, Name
      <4>5. CASE \E a, b \in Name : open' = Moved(a, b)
        BY <4>4, <4>5
      <4>6. CASE \E n : open' = Unlinked(n)
        BY <4>2, <4>6
      <4>7. QED
        BY <4>1, <4>2, <4>3, <4>5, <4>6
    <3>4. open'[u] = "none"
      <4>1. CASE DownloadFails(u)
        BY <1>0, <4>1 DEF DownloadFails, Closed, Unlinked
      <4>2. CASE ~DownloadFails(u)
        <5>1. open[u] = "none"
          BY <3>1, <4>2 DEF Base, RemoveOld, SetAside, Place, Undo, Respawn
        <5>2. QED
          BY <3>3, <5>1
      <4>3. QED
        BY <4>1, <4>2
    <3>5. QED
      BY <3>2, <3>3, <3>4 DEF Base
  <2>3. CASE Stop \/ Crash
    BY <1>0, <2>3 DEF Stop, Crash, Kill, Base
  <2>4. CASE CleanupOld
    BY <1>0, <2>4 DEF CleanupOld, Unlinked, Base
  <2>5. CASE UNCHANGED <<phase, open>>
    BY <2>5 DEF Base
  <2>6. QED
    BY <2>1, <2>2, <2>3, <2>4, <2>5 DEF Next, UpdateStep, Publish, Configure, Start, mine, vars
<1>2. \A u \in Updater \ Cli : Busy(u)' => running' # 0
  <2>1. CASE \E u \in Updater : Begin(u) \/ UpdateStep(u) \/ DownloadFails(u)
    <3>1. running' = running
      BY <2>1 DEF Begin, UpdateStep, DownloadFails, Check, Open, Write, Hash, RemoveOld, SetAside,
         Place, Undo, Respawn, service
    <3>2. PICK u \in Updater : Begin(u) \/ UpdateStep(u) \/ DownloadFails(u)
      BY <2>1
    <3>3. \A w \in Updater \ {u} : phase'[w] = phase[w]
      BY <1>0, <3>2 DEF Begin, UpdateStep, DownloadFails, Check, Open, Write, Hash, RemoveOld,
         SetAside, Place, Undo, Respawn, Go, Return
    <3>4. u \notin Cli => running # 0
      <4>1. Begin(u) \/ Busy(u)
        BY <3>2 DEF UpdateStep, DownloadFails, Check, Open, Write, Hash, RemoveOld, SetAside,
           Place, Undo, Respawn, Busy
      <4>2. QED
        BY <4>1 DEF Begin, Base
    <3>5. QED
      BY <3>1, <3>3, <3>4 DEF Base, Busy
  <2>2. CASE Stop \/ Crash
    BY <1>0, <2>2 DEF Stop, Crash, Kill, Base, Busy
  <2>3. CASE Start
    BY <2>3, InPlaceTyped DEF Start, Release
  <2>4. CASE UNCHANGED <<phase, running>>
    BY <2>4 DEF Base, Busy
  <2>5. QED
    BY <2>1, <2>2, <2>3, <2>4 DEF Next, Publish, Configure, CleanupOld, service, mine, past, vars
<1>3. fresh' => running' # 0
  <2>1. CASE Start
    BY <2>1, InPlaceTyped DEF Start, Release
  <2>2. QED
    BY <2>1 DEF Base, Next, UpdateStep, Publish, Configure, Begin, DownloadFails, Check, Open, Write, Hash,
       RemoveOld, SetAside, Place, Undo, Respawn, Stop, Crash, CleanupOld, service, past, vars
<1>4. QED
  BY <1>0, <1>1, <1>2, <1>3 DEF Base, Opened
-----------------------------------------------------------------------------
(* A step of the updater at work. *)

Resting == {"idle", "ended"}

\* The others rest, and go on resting.
LEMMA OthersRest ==
    ASSUME Alone, NEW u \in Updater, Busy(u),
           \A w \in Updater \ {u} : phase'[w] = phase[w]
    PROVE  \A w \in Updater \ {u} : phase[w] \in Resting /\ phase'[w] \in Resting
BY DEF Alone, Busy, Resting

\* So the invariant is about the one at work.
LEMMA WorkOfOne ==
    ASSUME NEW u \in Updater, \A w \in Updater \ {u} : phase'[w] \in Resting,
           Downloaded(u)', Swapped(u)', Newer(u)'
    PROVE  Work'
<1>1. \A w \in Updater \ {u} : Downloaded(w)' /\ Swapped(w)' /\ Newer(w)'
  BY DEF Resting, Downloaded, Swapped, Swapping, Newer, Before
<1>2. Alone'
  BY DEF Alone, Busy, Resting
<1>3. QED
  BY <1>1, <1>2 DEF Work

\* And so is Kept.
LEMMA KeptOfOne ==
    ASSUME NEW u \in Updater, \A w \in Updater \ {u} : phase'[w] \in Resting,
           \/ Whole("agent", "agent")'
           \/ /\ Whole("agent.old", "agent")'
              /\ phase'[u] \in Resting \/ (asset'[u] = "agent" /\ Swapping(u)')
    PROVE  Kept'
<1>1. SUFFICES ASSUME ~Whole("agent", "agent")', NEW w \in Updater, Busy(w)',
                      asset'[w] = "agent" => ~Swapping(w)'
               PROVE  FALSE
  BY DEF Kept, Standing
<1>2. QED
  BY <1>1 DEF Busy, Resting

\* A file that is kept stays what it is.
LEMMA WholeKept ==
    ASSUME NEW n \in Name, file'[n] = file[n]
    PROVE  /\ Exists(n)' <=> Exists(n)
           /\ \A a \in Asset : Whole(n, a)' <=> Whole(n, a)
BY DEF Exists, Whole

\* A step that touches no file but the download: an update goes on, or ends.
LEMMA Downloading ==
    ASSUME TypeOK, Calm, NEW u \in Updater, Busy(u),
           \A w \in Updater \ {u} : phase'[w] = phase[w],
           UNCHANGED <<running, ran, cur, rel, asset>>,
           \A n \in Name \ {"download"} : file'[n] = file[n],
           Downloaded(u)',
           \/ phase'[u] \in Resting
           \/ ~(asset[u] = "agent" /\ Swapping(u)) /\ phase'[u] = "installed"
           \/ phase[u] \in Before /\ phase'[u] \in Before \ {"sums"}
                /\ (phase[u] # "sums" \/ rel[u] > cur[u])
           \/ phase[u] = "place" /\ phase'[u] = "undo"
    PROVE  Calm' /\ (Kept => Kept')
<1>1. \A w \in Updater \ {u} : phase[w] \in Resting /\ phase'[w] \in Resting
  BY OthersRest DEF Calm, Work
<1>2. \A n \in Name \ {"download"} : /\ Exists(n)' <=> Exists(n)
                                     /\ \A a \in Asset : Whole(n, a)' <=> Whole(n, a)
  BY WholeKept
<1>3. /\ "agent" \in Name \ {"download"} /\ "agent.old" \in Name \ {"download"}
      /\ "agent" \in Asset /\ asset[u] \in Asset
  BY DEF Name, Asset, TypeOK
<1>4. Disk'
  <2>1. \A a \in Asset : a \in Name \ {"download"}
    BY Names
  <2>2. InPlace' = InPlace
    BY <1>3 DEF InPlace
  <2>3. QED
    BY <1>2, <1>3, <2>1, <2>2 DEF Calm, Disk
<1>5. Swapped(u)'
  <2>1. asset[u] \in Name \ {"download"} /\ Old(asset[u]) \in Name \ {"download"}
    BY <1>3, Names
  <2>2. Swapping(u)' => Swapping(u)
    BY DEF Swapping, Before, Resting
  <2>3. Old(asset[u])' = Old(asset[u])
    BY DEF Old
  <2>4. QED
    BY <1>2, <1>3, <2>1, <2>2, <2>3 DEF Calm, Work, Swapped
<1>6. Newer(u)'
  <2>1. InPlace' = InPlace /\ file'["agent.old"] = file["agent.old"]
    BY <1>3 DEF InPlace
  <2>2. Newer(u)
    BY DEF Calm, Work
  <2>3. QED
    BY <2>1, <2>2 DEF Newer, Swapping, Before, Resting
<1>7. Kept => Kept'
  <2>1. SUFFICES ASSUME Kept, ~Whole("agent", "agent")'
                 PROVE  Kept'
    BY <1>1, KeptOfOne
  <2>2. ~Whole("agent", "agent") /\ Whole("agent.old", "agent")'
    BY <1>2, <1>3, <2>1 DEF Kept
  <2>3. asset[u] = "agent" /\ Swapping(u)
    BY <2>1, <2>2 DEF Kept, Standing
  <2>4. phase'[u] \in Resting \/ Swapping(u)'
    BY <2>3 DEF Swapping, Before
  <2>5. QED
    BY <1>1, <2>2, <2>3, <2>4, KeptOfOne
<1>8. QED
  BY <1>1, <1>4, <1>5, <1>6, <1>7, WorkOfOne DEF Calm

\* The second rename, or the rename back.
LEMMA Installs ==
    ASSUME TypeOK, Calm, NEW u \in Updater, Swapping(u),
           \A w \in Updater \ {u} : phase'[w] = phase[w],
           UNCHANGED <<running, ran>>,
           NEW v \in Release, file'[asset[u]] = Binary(asset[u], v),
           asset[u] = "agent" => v >= ran,
           \A a \in Asset \ {asset[u]} : file'[a] = file[a],
           \/ phase'[u] \in Resting \cup {"installed"}
           \/ phase'[u] = "open" /\ asset'[u] = "tray"
    PROVE  Calm' /\ (Kept => Kept')
<1>1. /\ Busy(u) /\ \A w \in Updater \ {u} : phase[w] \in Resting /\ phase'[w] \in Resting
  <2>1. Busy(u)
    BY DEF Busy, Swapping
  <2>2. QED
    BY <2>1, OthersRest DEF Calm, Work
<1>2. asset[u] \in Asset /\ "agent" \in Asset /\ "agent" \in Name
  BY DEF TypeOK, Asset, Name
<1>3. \A a \in Asset \ {asset[u]} : /\ Exists(a)' <=> Exists(a)
                                    /\ Whole(a, a)' <=> Whole(a, a)
  BY WholeKept, Names
<1>4. \A a \in Asset : a = asset[u] => Whole(a, a)'
  BY DEF Whole
<1>5. Whole("agent", "agent")' => InPlace' >= ran
  <2>1. CASE asset[u] = "agent"
    BY <2>1, BinaryFacts, <1>2 DEF InPlace
  <2>2. CASE asset[u] # "agent"
    <3>1. (Whole("agent", "agent")' <=> Whole("agent", "agent")) /\ InPlace' = InPlace
      BY <1>2, <1>3, <2>2 DEF InPlace
    <3>2. QED
      BY <3>1 DEF Calm, Disk
  <2>3. QED
    BY <2>1, <2>2
<1>6. Disk'
  <2>1. \A a \in Asset : Exists(a)' => Whole(a, a)'
    <3>1. SUFFICES ASSUME NEW a \in Asset, a # asset[u], Exists(a)'
                   PROVE  Whole(a, a)'
      BY <1>4
    <3>2. QED
      BY <1>3, <3>1 DEF Calm, Disk
  <2>2. QED
    BY <1>5, <2>1 DEF Disk
<1>7. Downloaded(u)' /\ Swapped(u)' /\ Newer(u)'
  BY DEF Downloaded, Swapped, Swapping, Newer, Before, Resting
<1>8. Kept => Kept'
  <2>1. SUFFICES ASSUME Kept PROVE Whole("agent", "agent")'
    BY <1>1, KeptOfOne
  <2>2. CASE asset[u] = "agent"
    BY <1>2, <1>4, <2>2
  <2>3. CASE asset[u] # "agent"
    <3>1. Whole("agent", "agent")
      BY <1>1, <2>1, <2>3 DEF Kept, Standing
    <3>2. QED
      BY <1>2, <1>3, <2>3, <3>1
  <2>4. QED
    BY <2>2, <2>3
<1>9. QED
  BY <1>1, <1>6, <1>7, <1>8, WorkOfOne DEF Calm

-----------------------------------------------------------------------------
(* The updaters' steps. *)

\* The operators of replaceBinary leave these.
LEMMA Going ==
    ASSUME TypeOK, NEW u \in Updater, NEW p, Go(u, p)
    PROVE  phase'[u] = p /\ \A w \in Updater \ {u} : phase'[w] = phase[w]
BY DEF Go, TypeOK

LEMMA Failing ==
    ASSUME TypeOK, NEW u \in Updater, Return(u, FALSE)
    PROVE  /\ phase'[u] \in {"idle", "installed"} /\ asset' = asset
           /\ asset[u] = "agent" => phase'[u] = "idle"
           /\ \A w \in Updater \ {u} : phase'[w] = phase[w]
BY DEF Return, Go, TypeOK

LEMMA Succeeding ==
    ASSUME TypeOK, NEW u \in Updater, Return(u, TRUE)
    PROVE  /\ phase'[u] = "installed" \/ (phase'[u] = "open" /\ asset'[u] = "tray")
           /\ \A w \in Updater \ {u} : phase'[w] = phase[w]
BY DEF Return, Go, TypeOK

\* Check, hash and restart touch no file.
LEMMA CheckCalm ==
    ASSUME TypeOK, Calm, NEW u \in Updater, Check(u) \/ Hash(u) \/ Respawn(u)
    PROVE  Calm' /\ (Kept => Kept')
<1>1. PICK p : Go(u, p) /\ (p = "open" => rel[u] > cur[u])
               /\ (\/ phase[u] = "sums" /\ p \in {"open", "idle"}
                   \/ phase[u] = "hash" /\ p = "remove"
                   \/ phase[u] = "installed" /\ p \in {"ended", "idle"})
  BY DEF Check, Hash, Respawn
<1>2. phase'[u] = p /\ \A w \in Updater \ {u} : phase'[w] = phase[w]
  BY <1>1, Going
<1>3. UNCHANGED <<running, ran, cur, rel, asset, file>>
  BY DEF Check, Hash, Respawn, service
<1>4. Downloaded(u)'
  BY <1>1, <1>2, <1>3 DEF Downloaded, Calm, Work
<1>5. QED
  BY <1>1, <1>2, <1>3, <1>4, Downloading DEF Busy, Swapping, Before, Resting

LEMMA WriteCalm ==
    ASSUME TypeOK, Calm, NEW u \in Updater, Open(u) \/ Write(u)
    PROVE  Calm' /\ (Kept => Kept')
<1>1. UNCHANGED <<running, ran, cur, rel, asset>>
  BY DEF Open, Write, service
<1>2. CASE Open(u)
  <2>1. phase'[u] = "half1" /\ \A w \in Updater \ {u} : phase'[w] = phase[w]
    BY <1>2, Going DEF Open
  <2>2. file'["download"] = Empty /\ open'[u] = "download"
        /\ \A n \in Name \ {"download"} : file'[n] = file[n]
    BY <1>2 DEF Open, TypeOK, Name
  <2>3. Downloaded(u)'
    BY <2>1, <2>2 DEF Downloaded
  <2>4. phase[u] = "open"
    BY <1>2 DEF Open
  <2>5. QED
    BY <1>1, <2>1, <2>2, <2>3, <2>4, Downloading DEF Busy, Before
<1>3. CASE Write(u)
  <2>1. open[u] = "download" /\ open' = open /\ Downloaded(u)
    BY <1>3 DEF Write, Downloaded, Calm, Work
  <2>2. \A n \in Name \ {"download"} : file'[n] = file[n]
    BY <1>3, <2>1 DEF Write, TypeOK, Name
  <2>3. file \in [Name -> (Piece \X Piece) \cup {Absent}] /\ "download" \in Name
    BY DEF TypeOK, Name
  <2>4. CASE phase[u] = "half1"
    <3>1. phase'[u] = "half2" /\ \A w \in Updater \ {u} : phase'[w] = phase[w]
      BY <1>3, <2>4, Going DEF Write
    <3>2. file'["download"] = <<<<asset[u], rel[u]>>, file["download"][2]>>
      BY <1>3, <2>1, <2>3, <2>4 DEF Write
    <3>3. file["download"] = Empty
      BY <2>1, <2>4 DEF Downloaded
    <3>4. Downloaded(u)'
      BY <1>1, <2>1, <3>1, <3>2, <3>3 DEF Downloaded, Empty
    <3>5. QED
      BY <1>1, <2>2, <2>4, <3>1, <3>4, Downloading DEF Busy, Before
  <2>5. CASE phase[u] = "half2"
    <3>1. phase'[u] = "hash" /\ \A w \in Updater \ {u} : phase'[w] = phase[w]
      BY <1>3, <2>5, Going DEF Write
    <3>2. file'["download"] = <<file["download"][1], <<asset[u], rel[u]>>>>
      BY <1>3, <2>1, <2>3, <2>5 DEF Write
    <3>3. file["download"] = <<<<asset[u], rel[u]>>, Hole>>
      BY <2>1, <2>5 DEF Downloaded
    <3>4. Downloaded(u)'
      BY <1>1, <2>1, <3>1, <3>2, <3>3 DEF Downloaded, Binary
    <3>5. QED
      BY <1>1, <2>2, <2>5, <3>1, <3>4, Downloading DEF Busy, Before
  <2>6. QED
    BY <1>3, <2>4, <2>5 DEF Write
<1>4. QED
  BY <1>2, <1>3

\* A failure before the first rename leaves what is in place.
LEMMA FailCalm ==
    ASSUME TypeOK, Calm, NEW u \in Updater,
           phase[u] \in {"half1", "half2", "hash", "aside"}, Remove("download"),
           Return(u, FALSE), UNCHANGED <<running, ran, cur, rel>>
    PROVE  Calm' /\ (Kept => Kept')
<1>1. /\ phase'[u] \in {"idle", "installed"} /\ asset' = asset
      /\ \A w \in Updater \ {u} : phase'[w] = phase[w]
  BY Failing
<1>2. \A n \in Name \ {"download"} : file'[n] = file[n]
  BY DEF Remove, TypeOK
<1>3. Downloaded(u)'
  BY <1>1 DEF Downloaded
<1>4. QED
  BY <1>1, <1>2, <1>3, Downloading DEF Busy, Swapping, Resting

LEMMA RemoveCalm ==
    ASSUME TypeOK, Calm, NEW u \in Updater, RemoveOld(u)
    PROVE  Calm' /\ (Kept => Kept')
<1> DEFINE a == asset[u]
<1>1. /\ phase[u] = "remove" /\ phase'[u] = "aside"
      /\ \A w \in Updater \ {u} : phase'[w] = phase[w]
  BY Going DEF RemoveOld
<1>2. /\ UNCHANGED <<running, ran, cur, rel, asset>> /\ Busy(u) /\ ~Swapping(u)
      /\ \A n \in Name : n # Old(a) => file'[n] = file[n]
  BY <1>1 DEF RemoveOld, Remove, service, Busy, Swapping, TypeOK
<1>3. a \in Asset /\ "agent" \in Asset /\ "agent" \in Name /\ "agent" # Old(a)
      /\ "download" \in Name /\ "download" # Old(a)
  BY DEF TypeOK, Asset, Name, Old
<1>4. \A w \in Updater \ {u} : phase'[w] \in Resting
  BY <1>1, <1>2, OthersRest DEF Calm, Work
<1>5. \A b \in Asset : b \in Name /\ b # Old(a) /\ file'[b] = file[b]
  BY <1>2, <1>3 DEF Asset, Name, Old
<1>6. \A b \in Asset : (Exists(b)' <=> Exists(b)) /\ (Whole(b, b)' <=> Whole(b, b))
  BY <1>5, WholeKept
<1>7. Kept => Kept'
  <2>1. Kept => Whole("agent", "agent")'
    BY <1>2, <1>3, <1>6 DEF Kept, Standing
  <2>2. QED
    BY <1>4, <2>1, KeptOfOne
<1>8. InPlace' = InPlace
  BY <1>3, <1>5 DEF InPlace
<1>9. Disk'
  BY <1>2, <1>3, <1>6, <1>8 DEF Calm, Disk
<1>10. Downloaded(u)'
  BY <1>1, <1>2, <1>3 DEF Downloaded, Calm, Work
<1>11. Swapped(u)' /\ Newer(u)'
  <2>1. Newer(u)
    BY DEF Calm, Work
  <2>2. QED
    BY <1>1, <1>2, <1>8, <2>1 DEF Swapped, Swapping, Newer, Before
<1>12. QED
  BY <1>2, <1>4, <1>7, <1>9, <1>10, <1>11, WorkOfOne DEF Calm

\* The first rename sets a whole binary aside.
LEMMA AsideCalm ==
    ASSUME TypeOK, Calm, NEW u \in Updater, phase[u] = "aside", Exists(asset[u]),
           Rename(asset[u], Old(asset[u])), Go(u, "place"),
           UNCHANGED <<running, ran, cur, rel, asset>>
    PROVE  Calm' /\ (Kept => Kept')
<1> DEFINE a == asset[u]
<1>1. /\ phase'[u] = "place" /\ \A w \in Updater \ {u} : phase'[w] = phase[w]
      /\ Busy(u) /\ ~Swapping(u)
  BY Going DEF Busy, Swapping
<1>2. \A w \in Updater \ {u} : phase'[w] \in Resting
  BY <1>1, OthersRest DEF Calm, Work
<1>3. /\ a \in Asset /\ a \in Name /\ Old(a) \in Name /\ a # Old(a)
      /\ a # "download" /\ Old(a) # "download" /\ "download" \in Name
      /\ file \in [Name -> (Piece \X Piece) \cup {Absent}]
  BY Names DEF TypeOK, Name
<1>4. /\ file'[a] = Absent /\ file'[Old(a)] = file[a]
      /\ \A n \in Name : n # a /\ n # Old(a) => file'[n] = file[n]
  BY <1>3 DEF Rename
<1>5. Whole(a, a)
  BY <1>3 DEF Calm, Disk
<1>6. Swapped(u)'
  BY <1>4, <1>5 DEF Swapped, Exists, Whole, Old
<1>7. Downloaded(u)'
  BY <1>1, <1>3, <1>4 DEF Downloaded, Calm, Work
<1>8. CASE a = "agent"
  <2>1. Old(a) = "agent.old" /\ file'["agent.old"] = file["agent"] /\ ~Exists("agent")'
    BY <1>4, <1>8 DEF Old, Exists
  <2>2. Newer(u)'
    <3>1. file'["agent.old"][1][2] >= ran
      BY <1>5, <1>8, <2>1 DEF Calm, Disk, InPlace
    <3>2. Newer(u)
      BY DEF Calm, Work
    <3>3. QED
      BY <1>1, <1>8, <3>1, <3>2 DEF Newer, Swapping, Before
  <2>3. Disk'
    <3>1. Whole("agent.old", "agent")' /\ ~Whole("agent", "agent")'
      <4>1. "agent" \in Name /\ "agent" \in Asset
        BY DEF Name, Asset
      <4>2. QED
        BY <1>5, <1>8, <2>1, <4>1, BinaryFacts DEF Whole, Exists
    <3>2. \A b \in Asset : b # a => file'[b] = file[b]
      BY <1>4, <1>8 DEF Asset, Name, Old
    <3>3. QED
      BY <1>8, <2>1, <3>1, <3>2 DEF Calm, Disk, Exists, Whole
  <2>4. Kept'
    <3>1. Whole("agent.old", "agent")' /\ asset'[u] = "agent" /\ Swapping(u)'
      BY <1>1, <1>5, <1>8, <2>1 DEF Whole, Swapping
    <3>2. QED
      BY <1>2, <3>1, KeptOfOne
  <2>5. QED
    BY <1>2, <1>6, <1>7, <2>2, <2>3, <2>4, WorkOfOne DEF Calm
<1>9. CASE a = "tray"
  <2>1. /\ file'["agent"] = file["agent"] /\ InPlace' = InPlace
        /\ (Whole("agent", "agent")' <=> Whole("agent", "agent"))
        /\ (Exists("agent")' <=> Exists("agent"))
    BY <1>4, <1>9 DEF Name, Old, Whole, InPlace, Exists
  <2>2. Newer(u)'
    BY <1>9 DEF Newer
  <2>3. Disk'
    <3>1. ~Exists("tray")' /\ Asset = {"agent", "tray"}
      BY <1>4, <1>9 DEF Exists, Asset
    <3>2. \A b \in Asset : Exists(b)' => Whole(b, b)'
      BY <2>1, <3>1 DEF Calm, Disk
    <3>3. QED
      BY <2>1, <3>2 DEF Calm, Disk
  <2>4. Kept => Kept'
    <3>1. Kept => Whole("agent", "agent")'
      BY <1>1, <1>9, <2>1 DEF Kept, Standing
    <3>2. QED
      BY <1>2, <3>1, KeptOfOne
  <2>5. QED
    BY <1>2, <1>6, <1>7, <2>2, <2>3, <2>4, WorkOfOne DEF Calm
<1>10. QED
  BY <1>3, <1>8, <1>9 DEF Asset

LEMMA SetAsideCalm ==
    ASSUME TypeOK, Calm, NEW u \in Updater, SetAside(u)
    PROVE  Calm' /\ (Kept => Kept')
<1>1. phase[u] = "aside" /\ UNCHANGED <<running, ran, cur, rel>>
  BY DEF SetAside, service
<1>2. \/ Exists(asset[u]) /\ Rename(asset[u], Old(asset[u])) /\ Go(u, "place") /\ asset' = asset
      \/ Remove("download") /\ Return(u, FALSE)
  BY DEF SetAside
<1>3. QED
  BY <1>1, <1>2, AsideCalm, FailCalm

LEMMA PlaceCalm ==
    ASSUME TypeOK, Calm, NEW u \in Updater, Place(u)
    PROVE  Calm' /\ (Kept => Kept')
<1> DEFINE a == asset[u]
<1>1. phase[u] = "place" /\ UNCHANGED <<running, ran, cur, rel>>
  BY DEF Place, service
<1>2. CASE Exists("download") /\ Rename("download", a) /\ Return(u, TRUE)
  <2>1. /\ a \in Asset /\ a \in Name /\ a # "download" /\ rel[u] \in Release
        /\ file \in [Name -> (Piece \X Piece) \cup {Absent}]
    BY Names DEF TypeOK
  <2>2. file["download"] = Binary(a, rel[u])
    BY <1>1 DEF Calm, Work, Downloaded
  <2>3. /\ file'[a] = Binary(a, rel[u])
        /\ \A b \in Asset \ {a} : file'[b] = file[b]
    BY <1>2, <2>1, <2>2, Names DEF Rename
  <2>4. a = "agent" => rel[u] >= ran
    <3>1. Newer(u) /\ cur[u] \in Release /\ ran \in Release
      BY DEF Calm, Work, TypeOK
    <3>2. a = "agent" => cur[u] >= ran /\ rel[u] > cur[u]
      BY <1>1, <3>1 DEF Newer, Swapping
    <3>3. QED
      BY <2>1, <3>1, <3>2 DEF Release
  <2>5. /\ phase'[u] = "installed" \/ (phase'[u] = "open" /\ asset'[u] = "tray")
        /\ \A w \in Updater \ {u} : phase'[w] = phase[w]
    BY <1>2, Succeeding
  <2>6. QED
    BY <1>1, <2>1, <2>3, <2>4, <2>5, Installs DEF Swapping
<1>3. CASE Go(u, "undo") /\ UNCHANGED <<file, asset, open>>
  <2>1. phase'[u] = "undo" /\ \A w \in Updater \ {u} : phase'[w] = phase[w]
    BY <1>3, Going
  <2>2. Downloaded(u)'
    BY <2>1 DEF Downloaded
  <2>3. QED
    BY <1>1, <1>3, <2>1, <2>2, Downloading DEF Busy
<1>4. QED
  BY <1>2, <1>3 DEF Place

LEMMA UndoCalm ==
    ASSUME TypeOK, Calm, NEW u \in Updater, Undo(u)
    PROVE  Calm' /\ (Kept => Kept')
<1> DEFINE a == asset[u]
<1>1. phase[u] = "undo" /\ UNCHANGED <<running, ran, cur, rel>> /\ Return(u, FALSE)
  BY DEF Undo, service
<1>2. /\ a \in Asset /\ a \in Name /\ Old(a) \in Name /\ a # Old(a)
      /\ file \in [Name -> (Piece \X Piece) \cup {Absent}]
  BY Names DEF TypeOK
<1>3. Whole(Old(a), a) /\ Exists(Old(a))
  BY <1>1, <1>2, WholeFacts DEF Calm, Work, Swapped, Swapping
<1>4. PICK v \in Release : file[Old(a)] = Binary(a, v)
  BY <1>3 DEF Whole
<1>5. Rename(Old(a), a) \/ UNCHANGED file
  BY <1>3 DEF Undo
<1>6. Rename(Old(a), a) =>
        file'[a] = Binary(a, v) /\ \A b \in Asset \ {a} : file'[b] = file[b]
  BY <1>2, <1>4 DEF Rename, Asset, Name, Old
<1>7. a = "agent" => v >= ran
  <2>1. a = "agent" => file["agent.old"][1][2] >= ran
    BY <1>1 DEF Calm, Work, Newer, Swapping
  <2>2. a = "agent" => Old(a) = "agent.old"
    BY DEF Old
  <2>3. QED
    BY <1>2, <1>4, <2>1, <2>2, BinaryFacts
<1>8. /\ phase'[u] \in {"idle", "installed"} /\ asset' = asset
      /\ a = "agent" => phase'[u] = "idle"
      /\ \A w \in Updater \ {u} : phase'[w] = phase[w]
  BY <1>1, Failing
<1>9. CASE Rename(Old(a), a)
  BY <1>1, <1>6, <1>7, <1>8, <1>9, Installs DEF Swapping, Resting
<1>10. CASE UNCHANGED file
  <2>1. Downloaded(u)'
    BY <1>8 DEF Downloaded
  <2>2. QED
    BY <1>1, <1>8, <1>10, <2>1, Downloading DEF Busy, Resting
<1>11. QED
  BY <1>5, <1>9, <1>10

LEMMA BeginCalm ==
    ASSUME TypeOK, Base, Calm, NEW u \in Updater, Begin(u), ~overlap'
    PROVE  Calm' /\ (~blind' => Kept')
<1>1. /\ phase'[u] = "sums" /\ \A w \in Updater \ {u} : phase'[w] = phase[w]
      /\ UNCHANGED <<running, ran, file>>
  BY Going DEF Begin, service
<1>2. \A w \in Updater \ {u} : phase[w] \in Resting /\ phase'[w] \in Resting
  BY <1>1 DEF Begin, Busy, Resting
<1>3. cur'[u] = (IF u \in Cli THEN InPlace ELSE running) /\ asset'[u] = "agent"
  BY DEF Begin, TypeOK
<1>4. ~blind' => Whole("agent", "agent")
  BY DEF Begin, Calm, Disk, Asset
<1>5. cur'[u] >= ran
  <2>1. u \in Cli => InPlace >= ran
    BY DEF Begin, Calm, Disk
  <2>2. u \notin Cli => running = ran /\ ran \in Nat
    BY DEF Begin, Calm, TypeOK, Release
  <2>3. QED
    BY <1>3, <2>1, <2>2
<1>6. Downloaded(u)' /\ Swapped(u)'
  BY <1>1 DEF Downloaded, Swapped, Swapping
<1>7. Newer(u)'
  BY <1>1, <1>3, <1>5 DEF Newer, Swapping, Before, InPlace
<1>8. Disk'
  BY <1>1 DEF Calm, Disk, Exists, Whole, InPlace
<1>9. ~blind' => Kept'
  <2>1. ~blind' => Whole("agent", "agent")'
    BY <1>1, <1>4 DEF Whole
  <2>2. QED
    BY <1>2, <2>1, KeptOfOne
<1>10. Work'
  BY <1>2, <1>6, <1>7, WorkOfOne
<1>11. QED
  BY <1>1, <1>8, <1>9, <1>10 DEF Calm

-----------------------------------------------------------------------------
(* The service's steps. *)

\* Updaters that end leave the rest of the work as it is.
LEMMA KillCalm ==
    ASSUME TypeOK, Calm, NEW dead \in SUBSET Updater, Kill(dead), running' = 0,
           UNCHANGED <<ran, file, cur, rel, asset>>
    PROVE  Calm' /\ (Kept => Kept')
<1>1. \A u \in Updater : \/ phase'[u] = "idle"
                         \/ phase'[u] = phase[u] /\ open'[u] = open[u]
  BY DEF Kill
<1>2. \A u \in Updater : Downloaded(u)' /\ Swapped(u)' /\ Newer(u)'
  <2>1. SUFFICES ASSUME NEW u \in Updater, phase'[u] = phase[u] /\ open'[u] = open[u]
                 PROVE  Downloaded(u)' /\ Swapped(u)' /\ Newer(u)'
    BY <1>1 DEF Downloaded, Swapped, Swapping, Newer, Before
  <2>2. Downloaded(u) /\ Swapped(u) /\ Newer(u)
    BY DEF Calm, Work
  <2>3. QED
    BY <2>1, <2>2 DEF Downloaded, Swapped, Swapping, Newer, Before, InPlace, Exists, Whole, Old
<1>3. \A u \in Updater : Busy(u)' => Busy(u) /\ phase'[u] = phase[u]
  BY <1>1 DEF Busy
<1>4. Alone'
  BY <1>3 DEF Calm, Work, Alone
<1>5. Disk'
  BY DEF Calm, Disk, Exists, Whole, InPlace
<1>6. Kept => Kept'
  <2>1. SUFFICES ASSUME Kept, NEW u \in Updater, Busy(u)', asset'[u] = "agent" => ~Swapping(u)'
                 PROVE  Whole("agent", "agent")'
    BY DEF Kept, Standing, Whole
  <2>2. Busy(u) /\ (asset[u] = "agent" => ~Swapping(u))
    BY <1>3, <2>1 DEF Swapping
  <2>3. QED
    BY <2>1, <2>2 DEF Kept, Standing, Whole
<1>7. QED
  BY <1>2, <1>4, <1>5, <1>6 DEF Calm, Work

LEMMA StartCalm ==
    ASSUME TypeOK, Base, Calm, Start
    PROVE  Calm' /\ (Kept => Kept')
<1>1. /\ running = 0 /\ Whole("agent", "agent") /\ running' = InPlace
      /\ UNCHANGED <<file, phase, cur, rel, asset, open>>
  BY DEF Start, mine
<1>2. InPlace \in Release /\ InPlace >= ran /\ ran \in Release
  BY <1>1, InPlaceTyped DEF Calm, Disk, TypeOK
<1>3. ran' = InPlace
  BY <1>2 DEF Start, Release
<1>4. \A u \in Updater : Downloaded(u)' /\ Swapped(u)'
  BY <1>1 DEF Calm, Work, Downloaded, Swapped, Swapping, Exists, Whole, Old
<1>5. \A u \in Updater : Newer(u)'
  <2>1. SUFFICES ASSUME NEW u \in Updater, asset[u] = "agent", phase[u] \notin Resting
                 PROVE  Newer(u)'
    BY <1>1 DEF Newer, Swapping, Before, Resting
  <2>2. u \in Cli
    BY <1>1, <2>1 DEF Base, Busy, Resting
  <2>3. ~Swapping(u)
    <3>1. Exists("agent")
      BY <1>1, WholeFacts DEF Name, Asset
    <3>2. QED
      BY <2>1, <3>1 DEF Calm, Work, Swapped
  <2>4. phase[u] \in Before => cur[u] = InPlace
    BY <2>1, <2>2 DEF Calm, Work, Newer
  <2>5. Newer(u)
    BY DEF Calm, Work
  <2>6. QED
    BY <1>1, <1>2, <1>3, <2>1, <2>3, <2>4, <2>5 DEF Newer, Swapping, InPlace, Release, Before
<1>6. Alone' /\ (Kept => Kept')
  <2>1. Whole("agent", "agent")'
    BY <1>1 DEF Whole
  <2>2. QED
    BY <1>1, <2>1 DEF Calm, Work, Alone, Busy, Kept, Standing
<1>7. Disk'
  <2>1. InPlace' = InPlace
    BY <1>1 DEF InPlace
  <2>2. InPlace' >= ran'
    BY <1>2, <1>3, <2>1 DEF Release
  <2>3. QED
    BY <1>1, <2>2 DEF Calm, Disk, Exists, Whole
<1>8. QED
  BY <1>1, <1>3, <1>4, <1>5, <1>6, <1>7 DEF Calm, Work

LEMMA CleanupCalm ==
    ASSUME TypeOK, Base, Calm, CleanupOld, ~overlap'
    PROVE  Calm' /\ (~blind' => Kept')
<1>1. /\ running # 0 /\ UNCHANGED <<running, ran, phase, cur, rel, asset>>
      /\ \A u \in Updater : ~Busy(u)
  BY DEF CleanupOld, Base
<1>2. \A u \in Updater : phase[u] \in Resting /\ ~Swapping(u)
  BY <1>1 DEF Busy, Resting, Swapping
<1>3. ~blind' => Whole("agent", "agent")
  BY DEF CleanupOld, Calm, Disk, Asset
<1>4. \A n \in Name : n # "agent.old" => file'[n] = file[n]
  BY DEF CleanupOld, Remove, TypeOK
<1>5. \A a \in Asset : a \in Name /\ a # "agent.old"
  BY DEF Asset, Name
<1>6. \A a \in Asset : (Exists(a)' <=> Exists(a)) /\ (Whole(a, a)' <=> Whole(a, a))
  BY <1>4, <1>5, WholeKept
<1>7. "agent" \in Asset /\ InPlace' = InPlace
  BY <1>4, <1>5 DEF InPlace, Asset
<1>8. Disk'
  BY <1>1, <1>6, <1>7 DEF Calm, Disk
<1>9. Work'
  BY <1>1, <1>2 DEF Work, Alone, Busy, Downloaded, Swapped, Swapping, Newer, Before, Resting
<1>10. ~blind' => Kept'
  BY <1>3, <1>6, <1>7 DEF Kept, Standing
<1>11. QED
  BY <1>1, <1>8, <1>9, <1>10 DEF Calm

-----------------------------------------------------------------------------
(* The invariant. *)

LEMMA BlindStays ==
    ASSUME TypeOK, [Next]_vars
    PROVE  (~overlap' => ~overlap) /\ (~blind' => ~blind)
BY DEF TypeOK, Next, UpdateStep, Publish, Configure, Begin, DownloadFails, Check, Open, Write,
   Hash, RemoveOld, SetAside, Place, Undo, Respawn, Stop, Crash, Start, CleanupOld, past, vars

LEMMA CalmStep ==
    ASSUME TypeOK, Base, Calm, [Next]_vars, ~overlap'
    PROVE  Calm' /\ (~blind' /\ (~blind => Kept) => Kept')
<1>0. ~blind' => ~blind
  BY BlindStays
<1>1. CASE \E u \in Updater : UpdateStep(u) \/ DownloadFails(u)
  <2>1. PICK u \in Updater : UpdateStep(u) \/ DownloadFails(u)
    BY <1>1
  <2>2. CASE DownloadFails(u)
    BY <1>0, <2>2, FailCalm DEF DownloadFails, service
  <2>3. QED
    BY <1>0, <2>1, <2>2, CheckCalm, WriteCalm, RemoveCalm, SetAsideCalm, PlaceCalm, UndoCalm
       DEF UpdateStep
<1>2. CASE Stop \/ Crash
  <2>1. \E dead \in SUBSET Updater : Kill(dead)
    BY <1>2 DEF Stop, Crash
  <2>2. running' = 0 /\ UNCHANGED <<ran, file, cur, rel, asset>>
    BY <1>2 DEF Stop, Crash
  <2>3. QED
    BY <1>0, <2>1, <2>2, KillCalm
<1>3. CASE UNCHANGED <<running, ran, file, phase, cur, rel, asset, open>>
  <2>1. Work' /\ (Kept => Kept')
    BY <1>3 DEF Calm, Work, Alone, Busy, Downloaded, Swapped, Swapping, Newer, Before, InPlace,
       Exists, Whole, Old, Kept, Standing
  <2>2. Disk'
    BY <1>3 DEF Calm, Disk, Exists, Whole, InPlace
  <2>3. QED
    BY <1>0, <1>3, <2>1, <2>2 DEF Calm
<1>4. QED
  BY <1>0, <1>1, <1>2, <1>3, BeginCalm, StartCalm, CleanupCalm DEF Next, Publish, Configure, service, mine, vars

LEMMA InvStep ==
    ASSUME IInv, [Next]_vars
    PROVE  IInv'
<1>1. (~overlap' => ~overlap) /\ (~blind' => ~blind)
  BY BlindStays DEF IInv
<1>2. TypeOK' /\ Base'
  BY TypeStep, BaseStep DEF IInv
<1>3. QED
  BY <1>1, <1>2, CalmStep DEF IInv

LEMMA InitInv == Init => IInv
<1> SUFFICES ASSUME Init PROVE IInv
  OBVIOUS
<1> USE DEF Init
<1>1. /\ 1 \in Release /\ "agent" \in Asset /\ "tray" \in Asset
      /\ \A n \in {"agent", "tray"} : n \in Name
  BY DEF Release, Asset, Name
<1>2. /\ file["agent"] = Binary("agent", 1)
      /\ file["tray"] = Absent \/ file["tray"] = Binary("tray", 1)
  BY <1>1
<1>3. file \in [Name -> (Piece \X Piece) \cup {Absent}]
  <2>1. Binary("agent", 1) \in Piece \X Piece /\ Binary("tray", 1) \in Piece \X Piece
    BY <1>1, BinaryFacts
  <2>2. QED
    BY <2>1
<1>4. TypeOK
  <2>1. /\ fresh \in BOOLEAN /\ restart \in BOOLEAN /\ enabled \in BOOLEAN
        /\ overlap \in BOOLEAN /\ blind \in BOOLEAN
    OBVIOUS
  <2>2. /\ latest \in Release /\ running \in 0..MaxRelease /\ ran \in Release
        /\ cur \in [Updater -> Release] /\ rel \in [Updater -> Release] /\ faults \in 0..MaxFaults
    BY <1>1 DEF Release
  <2>3. /\ phase \in [Updater -> Phase] /\ asset \in [Updater -> Asset]
        /\ open \in [Updater -> Name \cup {"none"}]
    BY <1>1 DEF Phase
  <2>4. QED
    BY <1>3, <2>1, <2>2, <2>3 DEF TypeOK
<1>5. Base
  BY DEF Base, Busy
<1>6. Whole("agent", "agent") /\ InPlace = 1
  BY <1>1, <1>2, BinaryFacts DEF Whole, InPlace
<1>7. Disk
  <2>1. Exists("tray") => Whole("tray", "tray")
    BY <1>1, <1>2 DEF Exists, Whole
  <2>2. QED
    BY <1>6, <2>1 DEF Disk, Asset
<1>8. Work
  BY DEF Work, Alone, Busy, Downloaded, Swapped, Swapping, Newer, Before
<1>9. QED
  BY <1>4, <1>5, <1>6, <1>7, <1>8 DEF IInv, Calm, Kept, Standing

-----------------------------------------------------------------------------
(* Theorems. *)

\* What is inductive.
THEOREM Invariant == Spec => []IInv
BY InitInv, InvStep, PTL DEF Spec

\* Every variable of Update stays in its type, overlapping updates or not.
THEOREM TypeCorrect == Spec => []TypeOK
<1>1. IInv => TypeOK
  BY DEF IInv
<1>2. QED
  BY <1>1, Invariant, PTL

\* What stands under a binary's name is that binary, whole, through crashes and failed
\* renames.
THEOREM WholeBinaries == Spec => []InPlaceWhole
<1>1. IInv => InPlaceWhole
  BY DEF IInv, Calm, Disk, InPlaceWhole
<1>2. QED
  BY <1>1, Invariant, PTL

\* A whole agent stays on the disk, in place or aside.
THEOREM AgentStays == Spec => []AgentKept
<1>1. IInv => AgentKept
  BY DEF IInv, Kept, AgentKept
<1>2. QED
  BY <1>1, Invariant, PTL

\* The agent in place is never older than what the service has run.
THEOREM NoDowngrade == Spec => []NeverOlder
<1>1. IInv => NeverOlder
  BY DEF IInv, Calm, Disk, NeverOlder
<1>2. QED
  BY <1>1, Invariant, PTL
=============================================================================

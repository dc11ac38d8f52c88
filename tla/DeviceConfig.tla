---------------------------- MODULE DeviceConfig ----------------------------
(***************************************************************************)
(* What a device's configuration is: sub-devices, forwards, and the link   *)
(* between the two, which the portal rebuilds each time it reads or writes *)
(* one. A device enrols with a proposal of its agent.toml; afterwards the  *)
(* portal's page, or a client of its API, reads the configuration, edits   *)
(* it and saves it. How a saved configuration gets to the agent is that of *)
(* ConfigSync. A forward's name and the readings of a sub-device take no   *)
(* part in any of this.                                                    *)
(***************************************************************************)
EXTENDS Integers, Sequences, Functions

CONSTANTS
    Name,       \* names of sub-devices
    Ip,
    Port,
    None,       \* no sub-device
    Odd,        \* a target with a colon that is not host:port
    MaxSubs, MaxForwards,
    MaxEdits    \* edits between opening the page and saving

ASSUME ConfigAssumption ==
    /\ Port \subseteq Nat \ {0}
    /\ None \notin Name /\ Odd \notin Ip \X Port
    /\ MaxSubs \in Nat /\ MaxForwards \in Nat /\ MaxEdits \in Nat

VARIABLES
    stored,  \* devices.config
    form,    \* what the client that edits it holds, None when there is none
    saved,   \* the last body a page has saved, None if something else followed
    edits

vars == <<stored, form, saved, edits>>

Target == (Ip \X Port) \cup {Odd}
Proto == {"tcp", "udp"}
SubDevice == [name : Name, ip : Ip, port : Port, expose : BOOLEAN, listen : Port \cup {0}]
Forward == [proto : Proto, listen : Port, target : Target, sub : Name \cup {None}]

SeqUpTo(S, n) == UNION {[1..k -> S] : k \in 0..n}
Without(s, i) == SubSeq(s, 1, i - 1) \o SubSeq(s, i + 1, Len(s))
First(P) == CHOOSE p \in P : \A q \in P : p <= q
Last(P) == CHOOSE p \in P : \A q \in P : p >= q
Local(sd) == <<sd.ip, sd.port>>
Fwd(p, l, t, s) == [proto |-> p, listen |-> l, target |-> t, sub |-> s]

\* The elements of s at the positions of I, in their order.
Kept(s, I) ==
    LET upTo[k \in 0..Len(s)] ==
          IF k = 0 THEN <<>> ELSE IF k \in I THEN Append(upTo[k - 1], s[k]) ELSE upTo[k - 1]
    IN  upTo[Len(s)]

-----------------------------------------------------------------------------
(* models.go. *)

Put(s, i, e) == [j \in DOMAIN s |-> IF j = i THEN e ELSE s[j]]

\* Mutant: the port is forgotten.
ExposeOnly(c, k, i, n) ==
    [c EXCEPT
       !.subs = Put(@, i, [@[i] EXCEPT !.expose = TRUE]),
       !.fwds = Put(@, k, [@[k] EXCEPT !.sub = n])]

Expose(c, k, i, n) ==
    [c EXCEPT
       !.subs = Put(@, i, [@[i] EXCEPT !.expose = TRUE, !.listen = c.fwds[k].listen]),
       !.fwds = Put(@, k, [@[k] EXCEPT !.sub = n])]

\* Mutant: a sub-device may be taken twice.
LinkTwice(c, k) ==
    LET f == c.fwds[k]
        named == {i \in DOMAIN c.subs : c.subs[i].name = f.sub}
        aimed == {i \in DOMAIN c.subs : f.target = Local(c.subs[i])}
    IN IF f.sub # None
       THEN IF named # {} THEN Expose(c, k, Last(named), f.sub) ELSE [c EXCEPT !.fwds = Put(@, k, [@[k] EXCEPT !.sub = None])]
       ELSE IF f.proto = "tcp" /\ aimed # {}
            THEN Expose(c, k, First(aimed), c.subs[First(aimed)].name)
            ELSE c

\* One step of linkForwards: forward k goes to the sub-device it names (of two with one
\* name, the last), or a tcp one to the first sub-device with its target that is not
\* exposed yet.
LinkOne(c, k) ==
    LET f == c.fwds[k]
        named == {i \in DOMAIN c.subs : c.subs[i].name = f.sub}
        aimed == {i \in DOMAIN c.subs : ~c.subs[i].expose /\ f.target = Local(c.subs[i])}
    IN IF f.sub # None
       THEN IF named # {} /\ ~c.subs[Last(named)].expose THEN Expose(c, k, Last(named), f.sub)
            ELSE [c EXCEPT !.fwds = Put(@, k, [@[k] EXCEPT !.sub = None])]
       ELSE IF f.proto = "tcp" /\ aimed # {}
            THEN Expose(c, k, First(aimed), c.subs[First(aimed)].name)
            ELSE c

\* linkForwards reads the markers of the forwards as they come.
linkForwards(c) ==
    LET pass[k \in 0..Len(c.fwds)] == IF k = 0 THEN c ELSE LinkOne(pass[k - 1], k)
    IN  pass[Len(c.fwds)]

\* What a sub-device says of its exposure is dropped: the forwards say it.
unlinked(c) ==
    [c EXCEPT !.subs = [i \in DOMAIN c.subs |-> [c.subs[i] EXCEPT !.expose = FALSE, !.listen = 0]]]
normalize(c) == linkForwards(unlinked(c))

\* A proposal of an old agent has one sub-device, the processor.
normalizeOld(c, processor) ==
    normalize(IF processor # None /\ c.subs = <<>> THEN [c EXCEPT !.subs = <<processor>>] ELSE c)

Access(sd) == Fwd("tcp", IF sd.listen = 0 THEN sd.port ELSE sd.listen, Local(sd), sd.name)
Accesses(c) ==
    Kept([i \in DOMAIN c.subs |-> Access(c.subs[i])], {i \in DOMAIN c.subs : c.subs[i].expose})

Free(f) == f.sub = None
FreeForwards(c) == Kept(c.fwds, {k \in DOMAIN c.fwds : Free(c.fwds[k])})

\* The port a sub-device is reached at; none if it is not exposed.
Opened(sd) == [sd EXCEPT !.listen = IF sd.expose THEN Access(sd).listen ELSE 0]

\* Mutant: the old accesses stay in the list.
buildForwardsAll(c) ==
    [c EXCEPT
       !.subs = [i \in DOMAIN c.subs |-> Opened(c.subs[i])],
       !.fwds = Accesses(c) \o c.fwds]

\* The accesses of the exposed sub-devices, then the free forwards.
buildForwards(c) ==
    [c EXCEPT
       !.subs = [i \in DOMAIN c.subs |-> Opened(c.subs[i])],
       !.fwds = Accesses(c) \o FreeForwards(c)]

\* scanDevice: every reader of the row gets it normalized. The agent gets it so twice.
Read == normalize(stored)
forAgent == normalize(Read)

-----------------------------------------------------------------------------
(* The two validations. *)

DistinctNames(subs) == \A i, j \in DOMAIN subs : subs[i].name = subs[j].name => i = j
DistinctPorts(fwds) ==
    \A i, j \in DOMAIN fwds :
        <<fwds[i].proto, fwds[i].listen>> = <<fwds[j].proto, fwds[j].listen>> => i = j

\* ValidateForwards of the agent, which splits the target into host and port.
ValidateForwards(fwds) ==
    DistinctPorts(fwds) /\ \A k \in DOMAIN fwds : fwds[k].target # Odd

\* Mutant: two forwards may listen to one port.
AcceptsPorts(c) == DistinctNames(c.subs)

\* apiSaveDeviceConfig: a target needs a colon.
Accepts(c) == DistinctNames(c.subs) /\ DistinctPorts(c.fwds)

-----------------------------------------------------------------------------
(* config.Load of the agent, for what it proposes. *)

\* Without forwards of its own, one tcp forward for each sub-device.
Proposal(subs, fwds) ==
    [subs |-> subs,
     fwds |-> IF fwds # <<>> THEN fwds
              ELSE [k \in DOMAIN subs |-> Fwd("tcp", subs[k].port, Local(subs[k]), None)]]

Declared == {sd \in SubDevice : ~sd.expose /\ sd.listen = 0}
DeclaredForward == {f \in Forward : Free(f) /\ f.target # Odd}

\* handleEnroll, for a device that is new: the proposal is normalized twice.
Init ==
    /\ \E subs \in SeqUpTo(Declared, MaxSubs), fwds \in SeqUpTo(DeclaredForward, 1) :
         LET c == Proposal(subs, fwds)
         IN /\ ValidateForwards(c.fwds)
            /\ \/ stored = normalize(normalizeOld(c, None))
               \/ \E sd \in Declared :
                    stored = normalize(normalizeOld([subs |-> <<>>, fwds |-> fwds], sd))
    /\ form = None /\ saved = None /\ edits = 0

-----------------------------------------------------------------------------
(* The page, or a client of the API. *)

Open ==
    /\ form = None
    /\ form' = Read /\ edits' = 0
    /\ UNCHANGED <<stored, saved>>

Edit(c) ==
    /\ form # None /\ edits < MaxEdits
    /\ form' = c /\ edits' = edits + 1
    /\ UNCHANGED <<stored, saved>>

AddSub ==
    /\ form # None /\ Len(form.subs) < MaxSubs
    /\ \E sd \in SubDevice :
         /\ sd.expose /\ sd.listen = 0
         /\ Edit([form EXCEPT !.subs = Append(@, sd)])

\* A sub-device gets another name, address or exposure. Its listening port goes with the tick.
EditSub ==
    /\ form # None
    /\ \E i \in DOMAIN form.subs, sd \in SubDevice :
         /\ sd.expose \/ sd.listen = 0
         /\ Edit([form EXCEPT !.subs[i] = sd])

RemoveSub ==
    /\ form # None
    /\ \E i \in DOMAIN form.subs : Edit([form EXCEPT !.subs = Without(@, i)])

AddForward ==
    /\ form # None /\ Len(form.fwds) < MaxForwards
    /\ \E f \in Forward : Free(f) /\ Edit([form EXCEPT !.fwds = Append(@, f)])

RemoveForward ==
    /\ form # None
    /\ \E k \in DOMAIN form.fwds :
         Free(form.fwds[k]) /\ Edit([form EXCEPT !.fwds = Without(@, k)])

\* PUT /api/devices/{id}/config.
apiSaveDeviceConfig(body) ==
    LET c == buildForwards(normalize(body))
    IN IF Accepts(c) THEN stored' = c ELSE UNCHANGED stored

\* saveConfig of the page sends the sub-devices as they are ticked, and of the forwards
\* only those it shows, the free ones.
SavePage ==
    /\ form # None
    /\ LET body == [form EXCEPT !.fwds = FreeForwards(form)]
       IN /\ apiSaveDeviceConfig(body)
          /\ saved' = IF Accepts(buildForwards(normalize(body))) THEN body ELSE saved
    /\ form' = None /\ edits' = 0

\* A client that sends back all it has read.
SaveClient ==
    /\ form # None
    /\ apiSaveDeviceConfig(form)
    /\ saved' = IF Accepts(buildForwards(normalize(form))) THEN None ELSE saved
    /\ form' = None /\ edits' = 0

Next ==
    \/ Open \/ SavePage \/ SaveClient
    \/ AddSub \/ EditSub \/ RemoveSub \/ AddForward \/ RemoveForward

Spec == Init /\ [][Next]_vars

-----------------------------------------------------------------------------
Configuration == [subs : Seq(SubDevice), fwds : Seq(Forward)]

\* Of a stored sub-device, only an exposed one has a port to listen to.
TypeOK ==
    /\ stored \in Configuration
    /\ \A i \in DOMAIN stored.subs : stored.subs[i].expose <=> stored.subs[i].listen # 0
    /\ form \in Configuration \cup {None}
    /\ saved \in Configuration \cup {None} /\ edits \in 0..MaxEdits

\* A portal keeps no two sub-devices of one name, unless the device enrolled with them.
NamesDiffer == DistinctNames(stored.subs)

\* The page shows what the agent runs: a forward is either in its list of free ones or is
\* the access of the sub-device that is ticked, at the port and for the address shown;
\* and each ticked sub-device has its own.
ShownIsRun ==
    NamesDiffer =>
      LET run == forAgent.fwds
      IN /\ \A k \in DOMAIN run : Free(Read.fwds[k]) \/
              \E i \in DOMAIN Read.subs : Read.subs[i].expose /\ Access(Read.subs[i]) = Read.fwds[k]
         /\ \A i \in DOMAIN Read.subs : Read.subs[i].expose =>
              \E k \in DOMAIN run :
                run[k].proto = "tcp" /\ run[k].target = Local(Read.subs[i])
                /\ run[k].listen = Access(Read.subs[i]).listen

\* The agent refuses a configuration and keeps its forwards, or does not come up at all,
\* when ValidateForwards fails: it accepts what the portal has accepted, except for a
\* target the portal should not have.
AgentAccepts ==
    (\A k \in DOMAIN stored.fwds : stored.fwds[k].target # Odd) => ValidateForwards(forAgent.fwds)

\* A client of the API that saves what it has read changes no forward: the markers carry
\* the exposure through normalize and buildForwards.
SaveBackKeeps ==
    NamesDiffer =>
      LET again == normalize(buildForwards(normalize(Read)))
      IN Accepts(buildForwards(normalize(Read))) /\ again.subs = Read.subs
         /\ Range(again.fwds) = Range(Read.fwds)

\* "Expose ouvre en plus un accès depuis le réseau privé (l'agent reçoit le forward
\* correspondant)": a sub-device ticked on the page that was saved has its forward.
ExposeOpens ==
    saved # None =>
      \A i \in DOMAIN saved.subs : saved.subs[i].expose =>
        \E k \in DOMAIN stored.fwds : stored.fwds[k] = Access(saved.subs[i])
=============================================================================

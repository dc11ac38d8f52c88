----------------------------- MODULE ConfigSync -----------------------------
(***************************************************************************)
(* The configuration of one approved device: saved in the portal, fetched  *)
(* by the agent when a heartbeat names another version, and applied by     *)
(* closing the agent's forwards and opening those of the new version.      *)
(* A configuration is the set of its forwards, each on a port of its own   *)
(* (apiSaveDeviceConfig and ValidateForwards refuse two on one port).      *)
(***************************************************************************)
EXTENDS Naturals

CONSTANTS
    Rule,       \* forwards
    Refused,    \* those the portal saves and the agent's ValidateForwards refuses
    Dead,       \* those whose listener cannot be opened
    MaxVersion, \* saves
    MaxFaults   \* calls that fail, listeners that fail once, cycles cut short

ASSUME ConfigAssumption ==
    Refused \subseteq Rule /\ Dead \subseteq Rule /\ MaxVersion \in Nat \ {0} /\ MaxFaults \in Nat

VARIABLES
    version,    \* config_version of the row
    saved,      \* per version, the configuration saved with it (config, and its past)
    phase,      \* where runOnce is, from the tunnel on
    first,      \* this reloadConfig is the one the cycle starts with
    mine,       \* a.version and a.remote
    running,    \* a.fwdStop is set
    fetched,    \* what reloadConfig received
    told,       \* the version the heartbeat's handler read
    todo,       \* the rules StartAll has yet to start
    open,       \* listeners that accept
    closing,    \* listeners whose context is cancelled and that are not closed yet
    faults

hub == <<version, saved>>
fwds == <<running, open, closing>>
vars == <<version, saved, phase, first, mine, running, fetched, told, todo, open, closing, faults>>

Version == 0..MaxVersion
Config == SUBSET Rule
Copy == [version : Version, remote : Config]
NoCopy == [version |-> 0, remote |-> {}]

Init ==
    /\ version = 1 /\ \E c \in Config : saved = [v \in Version |-> IF v = 1 THEN c ELSE {}]
    /\ phase = "off" /\ first = TRUE
    /\ mine = NoCopy /\ fetched = NoCopy /\ told = 0
    /\ running = FALSE /\ todo = {} /\ open = {} /\ closing = {}
    /\ faults = 0

Fault == faults < MaxFaults /\ faults' = faults + 1

\* Mutant: an emptied configuration goes back to the default of the column.
SaveReset(c) ==
    /\ version < MaxVersion
    /\ version' = IF c = {} THEN 1 ELSE version + 1
    /\ saved' = [saved EXCEPT ![version'] = c]
    /\ UNCHANGED <<phase, first, mine, fetched, told, todo, fwds, faults>>

\* apiSaveDeviceConfig: one statement.
Save(c) ==
    /\ version < MaxVersion
    /\ version' = version + 1
    /\ saved' = [saved EXCEPT ![version + 1] = c]
    /\ UNCHANGED <<phase, first, mine, fetched, told, todo, fwds, faults>>

-----------------------------------------------------------------------------
(* The agent. *)

\* A cycle of the agent ends: its context is cancelled and its tunnel closed, with
\* every listener; the next one starts with nothing.
Over ==
    /\ phase' = "off" /\ first' = TRUE
    /\ mine' = NoCopy /\ running' = FALSE
    /\ todo' = {} /\ open' = {} /\ closing' = {}

\* reloadConfig returns an error: the cycle ends if it was its first, and goes on with
\* the heartbeats otherwise.
Back(left) ==
    IF first THEN Over
    ELSE phase' = "pause" /\ open' = {} /\ closing' = closing \cup left /\ todo' = {}
         /\ UNCHANGED <<first, mine, running>>

CycleStart ==
    /\ phase = "off"
    /\ phase' = "fetch"
    /\ UNCHANGED <<hub, first, mine, fetched, told, todo, fwds, faults>>

\* handleAgentConfig: the row is read by one statement.
ConfigRead ==
    /\ phase = "fetch"
    /\ fetched' = [version |-> version, remote |-> saved[version]]
    /\ phase' = "fetched"
    /\ UNCHANGED <<hub, first, mine, told, todo, fwds, faults>>

\* The call fails, or ValidateForwards refuses the configuration: the forwards stay.
ConfigFails ==
    /\ \/ phase \in {"fetch", "fetched"} /\ Fault
       \/ phase = "fetched" /\ fetched.remote \cap Refused # {} /\ UNCHANGED faults
    /\ IF first THEN Over ELSE phase' = "pause" /\ UNCHANGED <<first, mine, todo, fwds>>
    /\ UNCHANGED <<hub, fetched, told>>

\* Mutant: the agent adopts the version before its forwards are started.
StopAdopts ==
    /\ phase = "fetched" /\ fetched.remote \cap Refused = {}
    /\ running' = FALSE
    /\ open' = {} /\ closing' = closing \cup open
    /\ todo' = fetched.remote
    /\ mine' = fetched
    /\ phase' = "start"
    /\ UNCHANGED <<hub, first, fetched, told, faults>>

\* stopForwards.
Stop ==
    /\ phase = "fetched" /\ fetched.remote \cap Refused = {}
    /\ running' = FALSE
    /\ open' = {} /\ closing' = closing \cup open
    /\ todo' = fetched.remote
    /\ phase' = "start"
    /\ UNCHANGED <<hub, first, mine, fetched, told, faults>>

\* StartAll: a listener opens on a port that no listener holds.
Listen(r) ==
    /\ phase = "start" /\ r \in todo
    /\ r \notin closing \cup Dead
    /\ open' = open \cup {r}
    /\ todo' = todo \ {r}
    /\ UNCHANGED <<hub, phase, first, mine, fetched, told, running, closing, faults>>

\* Its error cancels the listeners already opened.
ListenFails ==
    /\ phase = "start" /\ todo # {}
    /\ \/ todo \cap (closing \cup Dead) # {} /\ UNCHANGED faults
       \/ Fault
    /\ Back(open)
    /\ UNCHANGED <<hub, fetched, told>>

\* Mutant: the agent notes the version the heartbeat named, not the one it received.
ApplyTold ==
    /\ phase = "start" /\ todo = {}
    /\ mine' = [fetched EXCEPT !.version = IF first THEN @ ELSE told] /\ running' = TRUE
    /\ phase' = (IF first THEN "online" ELSE "pause") /\ first' = FALSE
    /\ UNCHANGED <<hub, fetched, told, todo, open, closing, faults>>

Apply ==
    /\ phase = "start" /\ todo = {}
    /\ mine' = fetched /\ running' = TRUE
    /\ phase' = (IF first THEN "online" ELSE "pause") /\ first' = FALSE
    /\ UNCHANGED <<hub, fetched, told, todo, open, closing, faults>>

\* handleHeartbeat: the version is of the row its handler read first.
BeatRead ==
    /\ phase = "online"
    /\ told' = version
    /\ phase' = "told"
    /\ UNCHANGED <<hub, first, mine, fetched, todo, fwds, faults>>

BeatReply ==
    /\ phase = "told"
    /\ phase' = IF told # mine.version THEN "fetch" ELSE "pause"
    /\ UNCHANGED <<hub, first, mine, fetched, told, todo, fwds, faults>>

BeatFails ==
    /\ phase \in {"online", "told"} /\ Fault
    /\ phase' = "pause"
    /\ UNCHANGED <<hub, first, mine, fetched, told, todo, fwds>>

\* Five seconds at least between two heartbeats: cancelled listeners are closed by then.
Pause ==
    /\ phase = "pause" /\ closing = {}
    /\ phase' = "online"
    /\ UNCHANGED <<hub, first, mine, fetched, told, todo, fwds, faults>>

\* The goroutine that waits for the end of a listener's context closes it.
Close(r) ==
    /\ r \in closing
    /\ closing' = closing \ {r}
    /\ UNCHANGED <<hub, phase, first, mine, fetched, told, todo, running, open, faults>>

\* agent.toml changed, a reset, a restart, a crash, a revocation.
CycleEnd ==
    /\ phase # "off" /\ Fault
    /\ Over
    /\ UNCHANGED <<hub, fetched, told>>

Reload == ConfigRead \/ ConfigFails \/ Stop \/ (\E r \in Rule : Listen(r)) \/ ListenFails \/ Apply
Agent == CycleStart \/ Reload \/ BeatRead \/ BeatReply \/ Pause

Next ==
    \/ \E c \in Config : Save(c)
    \/ \E r \in Rule : Close(r)
    \/ Agent \/ BeatFails \/ CycleEnd

Spec == Init /\ [][Next]_vars

FairSpec == Spec /\ WF_vars(Agent) /\ \A r \in Rule : WF_vars(Close(r))

-----------------------------------------------------------------------------
(* Properties. *)

\* The types; no copy is of a version the row never had, and no port is listened on
\* while the listener it replaces is still closing.
TypeOK ==
    /\ version \in Version \ {0} /\ saved \in [Version -> Config]
    /\ phase \in {"off", "fetch", "fetched", "start", "online", "told", "pause"}
    /\ first \in BOOLEAN /\ running \in BOOLEAN
    /\ mine \in Copy /\ fetched \in Copy /\ told \in 0..version
    /\ mine.version <= version /\ fetched.version <= version
    /\ todo \subseteq Rule /\ open \subseteq Rule /\ closing \subseteq Rule
    /\ open \cap closing = {}
    /\ faults \in 0..MaxFaults

\* What the agent serves once StartAll has opened them all, and until stopForwards.
Serving == IF running THEN open ELSE {}

\* The agent serves nothing or exactly what was saved under the version it reports, and
\* never goes back to an older one while its cycle lasts, however its reloads overlap
\* with saves, fail half-way or are told of a version that is no longer the last
\* (handleAgentConfig, reloadConfig).
R == INSTANCE Replica WITH copy <- mine, serving <- Serving
ReplicaSpec == R!Spec

\* Between two heartbeats an agent that reports the row's version listens on the
\* forwards saved with it, no more and no less; when they could not all be opened it
\* reports another, and so tries again (reloadConfig, stopForwards).
InStep ==
    phase \in {"online", "told", "pause"} /\ mine.version = version => open = saved[version]

\* The last configuration saved is applied if it can be, whatever failed before it.
Applied ==
    \A v \in Version :
        (version = v /\ saved[v] \cap (Refused \cup Dead) = {})
            ~> (version # v \/ (mine.version = v /\ open = saved[v]))
=============================================================================

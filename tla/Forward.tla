------------------------------ MODULE Forward ------------------------------
(***************************************************************************)
(* A forward of the agent, from when it is started until its context is    *)
(* cancelled: over UDP with its table of sessions by source address, or    *)
(* over TCP with one of its connections. A session's age counts the ticks  *)
(* of 30 seconds since a datagram was counted; a session that never counted *)
(* one (last = 0) is older than any limit.                                 *)
(***************************************************************************)
EXTENDS Naturals

CONSTANTS
    Client,     \* source addresses
    Session,    \* session objects, used again when nothing holds them any more
    None,
    IdleTicks,  \* ticks in two minutes
    MaxFaults   \* failed dials, failed writes, peers that go away

ASSUME ForwardAssumption ==
    None \notin Client \cup Session /\ IdleTicks \in Nat \ {0} /\ MaxFaults \in Nat

VARIABLES
    proto,      \* Rule.Proto
    stopped,    \* the context is cancelled
    listening,  \* its listener, or packet socket, is open
    table,      \* client -> its session (sessions)
    owner,      \* session -> the address its reader answers to (from)
    socket,     \* session -> its socket to the target is open
    reader,     \* session -> where its goroutine is: it reads, or has a datagram to relay
    age,        \* session -> ticks since last
    silence,    \* session -> ticks since a datagram came, either way
    hand,       \* the session whose datagram the receiving goroutine holds
    step,       \* and what it does next with it
    purging,    \* the purge's goroutine runs
    reply,      \* sessions with an answer to read
    refused,    \* sessions with a "port unreachable" to read
    tcp,        \* where handleTCP is
    sent,       \* per direction, what the sending side has written
    ended,      \* per direction, that side has ended its stream
    got,        \* per direction, what the receiving side has got
    copying,    \* per direction, the io.Copy runs
    shut,       \* per direction, the relay has ended the stream to the receiver
    gone,       \* peers whose connection is broken
    faults

forward == <<proto, stopped, listening>>
sessions == <<table, owner, socket, reader, age, silence>>
receiver == <<hand, step>>
target == <<reply, refused>>
udp == <<sessions, receiver, purging, target>>
relay == <<tcp, sent, ended, got, copying, shut, gone>>
vars == <<proto, stopped, listening, table, owner, socket, reader, age, silence, hand, step, purging,
          reply, refused, tcp, sent, ended, got, copying, shut, gone, faults>>

Side == {"client", "target"}
\* A direction is named after the side that sends.
To(d) == IF d = "client" THEN "target" ELSE "client"
Stale == IdleTicks + 1
Reading == {"none", "read", "relay"}

Init ==
    /\ proto \in {"tcp", "udp"} /\ stopped = FALSE /\ listening = TRUE
    /\ table = [c \in Client |-> None] /\ owner = [s \in Session |-> None]
    /\ socket = [s \in Session |-> FALSE] /\ reader = [s \in Session |-> "none"]
    /\ age = [s \in Session |-> Stale] /\ silence = [s \in Session |-> Stale]
    /\ hand = None /\ step = "recv"
    /\ purging = (proto = "udp") /\ reply = {} /\ refused = {}
    /\ tcp = "none"
    /\ sent = [d \in Side |-> 0] /\ got = [d \in Side |-> 0]
    /\ ended = [d \in Side |-> FALSE] /\ shut = [d \in Side |-> FALSE]
    /\ copying = [d \in Side |-> FALSE] /\ gone = {}
    /\ faults = 0

Fault == faults < MaxFaults /\ faults' = faults + 1

-----------------------------------------------------------------------------
(* startUDP. *)

\* A datagram arrives; under the mutex its session is looked up, or made: the socket is
\* dialed and the reader started.
Receive(c) ==
    /\ proto = "udp" /\ listening /\ step = "recv"
    /\ \/ /\ table[c] # None
          /\ hand' = table[c]
          /\ UNCHANGED <<table, owner, socket, reader, age>>
       \/ /\ table[c] = None
          /\ \E s \in Session :
               /\ ~socket[s] /\ reader[s] = "none"
               /\ hand' = s
               /\ table' = [table EXCEPT ![c] = s]
               /\ owner' = [owner EXCEPT ![s] = c]
               /\ socket' = [socket EXCEPT ![s] = TRUE]
               /\ reader' = [reader EXCEPT ![s] = "read"]
               /\ age' = [age EXCEPT ![s] = Stale]
    /\ silence' = [silence EXCEPT ![hand'] = 0]
    /\ step' = "touch"
    /\ UNCHANGED <<forward, purging, target, relay, faults>>

\* The session's socket cannot be dialed: the datagram is dropped.
DialFails(c) ==
    /\ proto = "udp" /\ listening /\ step = "recv" /\ table[c] = None
    /\ Fault
    /\ UNCHANGED <<forward, udp, relay>>

\* s.last.Store, after the unlock.
Touch ==
    /\ step = "touch"
    /\ age' = [age EXCEPT ![hand] = 0]
    /\ step' = "send"
    /\ UNCHANGED <<forward, table, owner, socket, reader, silence, hand, purging, target, relay, faults>>

\* s.conn.Write: a closed socket drops the datagram, as does an error yet to be reported.
Send ==
    /\ step = "send"
    /\ refused' = refused \ {hand}
    /\ hand' = None /\ step' = "recv"
    /\ UNCHANGED <<forward, sessions, purging, reply, relay, faults>>

\* The reader of a session takes a datagram from its socket,
Read(s) ==
    /\ reader[s] = "read" /\ socket[s] /\ s \in reply
    /\ reply' = reply \ {s}
    /\ silence' = [silence EXCEPT ![s] = 0]
    /\ reader' = [reader EXCEPT ![s] = "relay"]
    /\ UNCHANGED <<forward, table, owner, socket, age, receiver, purging, refused, relay, faults>>

\* Mutant: the answers are not counted.
RelayUncounted(s) ==
    /\ reader[s] = "relay"
    /\ reader' = [reader EXCEPT ![s] = IF listening THEN "read" ELSE "none"]
    /\ UNCHANGED <<forward, table, owner, socket, age, silence, receiver, purging, target, relay, faults>>

\* counts it, whatever the purge has done meanwhile, and answers the client the session
\* was made for. It ends on an error of the socket to the clients,
Relay(s) ==
    /\ reader[s] = "relay"
    /\ age' = [age EXCEPT ![s] = 0]
    /\ \/ listening /\ reader' = [reader EXCEPT ![s] = "read"] /\ UNCHANGED faults
       \/ /\ IF listening THEN Fault ELSE UNCHANGED faults
          /\ reader' = [reader EXCEPT ![s] = "none"]
    /\ UNCHANGED <<forward, table, owner, socket, silence, receiver, purging, target, relay>>

\* or of the one to the target.
ReadError(s) ==
    /\ reader[s] = "read"
    /\ \/ ~socket[s] /\ UNCHANGED refused
       \/ s \in refused /\ refused' = refused \ {s}
    /\ reader' = [reader EXCEPT ![s] = "none"]
    /\ UNCHANGED <<forward, table, owner, socket, age, silence, receiver, purging, reply, relay, faults>>

\* 30 seconds go by.
Tick ==
    /\ age' = [s \in Session |-> IF age[s] < Stale THEN age[s] + 1 ELSE age[s]]
    /\ silence' = [s \in Session |-> IF silence[s] < Stale THEN silence[s] + 1 ELSE silence[s]]
    /\ UNCHANGED <<forward, table, owner, socket, reader, receiver, purging, target, relay, faults>>

Expired == {s \in Session : socket[s] /\ age[s] > IdleTicks /\ \E c \in Client : table[c] = s}

\* Mutant: the entries go, the sockets stay.
PurgeTable ==
    /\ purging
    /\ table' = [c \in Client |-> IF table[c] \in Expired THEN None ELSE table[c]]
    /\ UNCHANGED <<forward, owner, socket, reader, age, silence, receiver, purging, target, relay, faults>>

\* Mutant: the sockets are closed, the entries stay.
PurgeSockets ==
    /\ purging
    /\ socket' = [s \in Session |-> socket[s] /\ s \notin Expired]
    /\ reply' = reply \ Expired /\ refused' = refused \ Expired
    /\ UNCHANGED <<forward, table, owner, reader, age, silence, receiver, purging, relay, faults>>

\* The purge, under the mutex. The tick it wakes on is its own.
Purge ==
    /\ purging
    /\ table' = [c \in Client |-> IF table[c] \in Expired THEN None ELSE table[c]]
    /\ socket' = [s \in Session |-> socket[s] /\ s \notin Expired]
    /\ reply' = reply \ Expired /\ refused' = refused \ Expired
    /\ UNCHANGED <<forward, owner, reader, age, silence, receiver, purging, relay, faults>>

-----------------------------------------------------------------------------
(* The target of the UDP forward answers, or its machine says that none listens there:  *)
(* one or the other at a time is to be read, and nothing that nobody will read.         *)

Answer(s) ==
    /\ socket[s] /\ reader[s] # "none" /\ s \notin reply \cup refused
    /\ \/ reply' = reply \cup {s} /\ UNCHANGED refused
       \/ refused' = refused \cup {s} /\ UNCHANGED reply
    /\ UNCHANGED <<forward, sessions, receiver, purging, relay, faults>>

-----------------------------------------------------------------------------
(* startTCP and handleTCP, for one connection. *)

Accept ==
    /\ proto = "tcp" /\ tcp = "none" /\ listening
    /\ tcp' = "dial"
    /\ UNCHANGED <<forward, udp, sent, ended, got, copying, shut, gone, faults>>

Dial ==
    /\ tcp = "dial"
    /\ \/ ~stopped /\ tcp' = "relay" /\ copying' = [d \in Side |-> TRUE] /\ UNCHANGED <<gone, faults>>
       \/ /\ IF stopped THEN UNCHANGED faults ELSE Fault
          /\ tcp' = "over" /\ gone' = Side
          /\ UNCHANGED copying
    /\ UNCHANGED <<forward, udp, sent, ended, got, shut>>

\* A side writes, ends its stream, or breaks off.
PeerSends(d) ==
    /\ tcp \in {"dial", "relay"} /\ (d = "client" \/ tcp = "relay")
    /\ d \notin gone /\ ~ended[d] /\ sent[d] = 0
    /\ sent' = [sent EXCEPT ![d] = 1]
    /\ UNCHANGED <<forward, udp, tcp, ended, got, copying, shut, gone, faults>>

PeerEnds(d) ==
    /\ tcp \in {"dial", "relay"} /\ (d = "client" \/ tcp = "relay")
    /\ d \notin gone /\ ~ended[d]
    /\ ended' = [ended EXCEPT ![d] = TRUE]
    /\ UNCHANGED <<forward, udp, tcp, sent, got, copying, shut, gone, faults>>

PeerBreaks(d) ==
    /\ tcp = "relay" /\ d \notin gone
    /\ Fault
    /\ gone' = gone \cup {d}
    /\ UNCHANGED <<forward, udp, tcp, sent, ended, got, copying, shut>>

\* Mutant: what was copied is copied again.
CopyAgain(d) ==
    /\ copying[d] /\ {d, To(d)} \cap gone = {} /\ got[d] <= sent[d] /\ sent[d] > 0
    /\ got' = [got EXCEPT ![d] = @ + 1]
    /\ UNCHANGED <<forward, udp, tcp, sent, ended, copying, shut, gone, faults>>

Copy(d) ==
    /\ copying[d] /\ {d, To(d)} \cap gone = {} /\ got[d] < sent[d]
    /\ got' = [got EXCEPT ![d] = @ + 1]
    /\ UNCHANGED <<forward, udp, tcp, sent, ended, copying, shut, gone, faults>>

\* io.Copy returns at the end of the stream, when it cannot read on or cannot write.
Done(d) ==
    IF got[d] = sent[d] THEN ended[d] \/ d \in gone ELSE d \in gone \/ To(d) \in gone

\* Mutant: the whole connection is closed, not one direction of it.
CopyEndsBoth(d) ==
    /\ copying[d] /\ Done(d)
    /\ copying' = [copying EXCEPT ![d] = FALSE]
    /\ shut' = [e \in Side |-> TRUE]
    /\ UNCHANGED <<forward, udp, tcp, sent, ended, got, gone, faults>>

\* Mutant: a copy that fails is tried again.
CopyEndsClean(d) ==
    /\ copying[d] /\ got[d] = sent[d] /\ ended[d]
    /\ copying' = [copying EXCEPT ![d] = FALSE]
    /\ shut' = [shut EXCEPT ![d] = TRUE]
    /\ UNCHANGED <<forward, udp, tcp, sent, ended, got, gone, faults>>

\* closeWrite passes the end on.
CopyEnds(d) ==
    /\ copying[d] /\ Done(d)
    /\ copying' = [copying EXCEPT ![d] = FALSE]
    /\ shut' = [shut EXCEPT ![d] = TRUE]
    /\ UNCHANGED <<forward, udp, tcp, sent, ended, got, gone, faults>>

\* Both copies have ended: both connections are closed.
Over ==
    /\ tcp = "relay" /\ \A d \in Side : ~copying[d]
    /\ tcp' = "over" /\ gone' = Side
    /\ UNCHANGED <<forward, udp, sent, ended, got, copying, shut, faults>>

-----------------------------------------------------------------------------
(* The end of the forwards: stopForwards, or the end of the agent's cycle. *)

Stop ==
    /\ ~stopped
    /\ stopped' = TRUE
    /\ UNCHANGED <<proto, listening, udp, relay, faults>>

ListenersClose ==
    /\ stopped /\ listening
    /\ listening' = FALSE
    /\ UNCHANGED <<proto, stopped, udp, relay, faults>>

PurgeEnds ==
    /\ stopped /\ purging
    /\ purging' = FALSE
    /\ UNCHANGED <<forward, sessions, receiver, target, relay, faults>>

UdpStep ==
    \/ Touch \/ Send \/ Tick \/ Purge
    \/ \E s \in Session : Read(s) \/ Relay(s) \/ ReadError(s) \/ Answer(s)

TcpStep == Dial \/ Over \/ \E d \in Side : Copy(d) \/ CopyEnds(d)

Next ==
    \/ \E c \in Client : Receive(c) \/ DialFails(c)
    \/ UdpStep
    \/ Accept \/ TcpStep
    \/ \E d \in Side : PeerSends(d) \/ PeerEnds(d) \/ PeerBreaks(d)
    \/ Stop \/ ListenersClose \/ PurgeEnds

Spec == Init /\ [][Next]_vars

\* The goroutines run and the clock goes on; clients, targets and the operator may not.
FairSpec ==
    /\ Spec
    /\ WF_vars(Touch \/ Send) /\ WF_vars(Tick) /\ WF_vars(Purge)
    /\ WF_vars(Dial \/ Over) /\ \A d \in Side : WF_vars(Copy(d) \/ CopyEnds(d))

-----------------------------------------------------------------------------
TypeOK ==
    /\ proto \in {"tcp", "udp"} /\ stopped \in BOOLEAN /\ listening \in BOOLEAN
    /\ table \in [Client -> Session \cup {None}] /\ owner \in [Session -> Client \cup {None}]
    /\ socket \in [Session -> BOOLEAN] /\ reader \in [Session -> Reading]
    /\ age \in [Session -> 0..Stale] /\ silence \in [Session -> 0..Stale]
    /\ hand \in Session \cup {None} /\ step \in {"recv", "touch", "send"}
    /\ purging \in BOOLEAN /\ reply \subseteq Session /\ refused \subseteq Session
    /\ tcp \in {"none", "dial", "relay", "over"} /\ gone \subseteq Side
    /\ sent \in [Side -> 0..1] /\ got \in [Side -> 0..1]
    /\ ended \in [Side -> BOOLEAN] /\ copying \in [Side -> BOOLEAN] /\ shut \in [Side -> BOOLEAN]
    /\ faults \in 0..MaxFaults

\* Creations, purges and readers that end leave every open socket in the table, under the
\* client its answers go to: none leaks while the forward runs, and no client is
\* answered through another's session.
NoLeak == \A s \in Session : socket[s] => owner[s] # None /\ table[owner[s]] = s
NoClosed == \A c \in Client : table[c] # None => socket[table[c]] /\ owner[table[c]] = c

\* A session that the purge closes has seen no datagram for two minutes, unless one is in a
\* goroutine's hands and not counted yet: the receiver has looked the session up, or made
\* it with last = 0, or the reader has returned from Read.
Uncounted(s) == (hand = s /\ step = "touch") \/ reader[s] = "relay"
PurgedIdle ==
    [][\A s \in Session : socket[s] /\ ~socket'[s] => silence[s] > IdleTicks \/ Uncounted(s)]_vars

\* While the forward runs, a socket is closed or a datagram passes again and again.
NoIdleSocket == \A s \in Session : []<>(~socket[s] \/ silence[s] = 0 \/ stopped)

\* A side is told of the end of the other's stream only when it has all of it: the two
\* directions end one by one.
EndsAfterAll == \A d \in Side : shut[d] => got[d] = sent[d] \/ gone # {}

\* The relay of a connection ends when each side has ended its stream or is gone. One
\* side's breaking off is not enough: the other's copy notices at its next write.
RelayEnds == (\A d \in Side : ended[d] \/ d \in gone) ~> tcp # "relay"
=============================================================================

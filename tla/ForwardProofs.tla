---------------------------- MODULE ForwardProofs ----------------------------
(***************************************************************************)
(* Proofs about Forward, for any clients, sessions, idle time and faults.  *)
(***************************************************************************)
EXTENDS Forward, TLAPS

USE ForwardAssumption

\* The receiving goroutine holds a session from its lookup to its write.
Holding == step \in {"touch", "send"} => hand \in Session

\* Only a datagram that is not counted yet makes an open session older than it is.
Counted == \A s \in Session : socket[s] => age[s] <= silence[s] \/ Uncounted(s)

\* A direction that was shut had ended, and nothing is left to copy.
ShutWhole == \A d \in Side : shut[d] => (ended[d] /\ got[d] = sent[d]) \/ gone # {}

IInv == TypeOK /\ Holding /\ NoLeak /\ NoClosed /\ Counted /\ ShutWhole

-----------------------------------------------------------------------------
(* Types. *)

LEMMA InitInv == Init => IInv
<1> SUFFICES ASSUME Init PROVE IInv
  OBVIOUS
<1> USE DEF Init
<1>1. TypeOK
  <2>1. Stale \in 0..Stale /\ 0 \in 0..Stale /\ faults \in 0..MaxFaults
    BY DEF Stale
  <2>2. purging \in BOOLEAN /\ stopped \in BOOLEAN /\ listening \in BOOLEAN
    OBVIOUS
  <2>3. /\ socket \in [Session -> BOOLEAN] /\ reader \in [Session -> Reading]
        /\ ended \in [Side -> BOOLEAN] /\ copying \in [Side -> BOOLEAN] /\ shut \in [Side -> BOOLEAN]
    BY DEF Reading
  <2>4. age \in [Session -> 0..Stale] /\ silence \in [Session -> 0..Stale]
    BY <2>1
  <2>5. sent \in [Side -> 0..1] /\ got \in [Side -> 0..1]
    OBVIOUS
  <2>6. QED
    BY <2>1, <2>2, <2>3, <2>4, <2>5 DEF TypeOK
<1>2. Holding /\ NoLeak /\ NoClosed /\ Counted /\ ShutWhole
  BY DEF Holding, NoLeak, NoClosed, Counted, ShutWhole
<1>3. QED
  BY <1>1, <1>2 DEF IInv

\* The table and the sessions keep their types.
LEMMA SessionsTyped ==
    ASSUME TypeOK, Holding, [Next]_vars
    PROVE  /\ table' \in [Client -> Session \cup {None}]
           /\ owner' \in [Session -> Client \cup {None}]
           /\ hand' \in Session \cup {None} /\ step' \in {"recv", "touch", "send"}
           /\ reply' \subseteq Session /\ refused' \subseteq Session
<1> USE DEF TypeOK, Holding
<1>1. CASE \E c \in Client : Receive(c)
  BY <1>1 DEF Receive, target
<1>2. CASE Purge
  BY <1>2 DEF Purge, receiver
<1>3. CASE Touch \/ Send
  BY <1>3 DEF Touch, Send, sessions, target
<1>4. CASE \E s \in Session : Read(s) \/ Relay(s) \/ ReadError(s) \/ Answer(s)
  BY <1>4 DEF Read, Relay, ReadError, Answer, sessions, receiver, target
<1>5. QED
  BY <1>1, <1>2, <1>3, <1>4 DEF Next, UdpStep, TcpStep, DialFails, Tick, Accept, Dial, Over,
     Copy, CopyEnds, PeerSends, PeerEnds, PeerBreaks, Stop, ListenersClose, PurgeEnds, udp,
     sessions, receiver, target, vars

LEMMA SocketsTyped ==
    ASSUME TypeOK, [Next]_vars
    PROVE  socket' \in [Session -> BOOLEAN] /\ reader' \in [Session -> Reading]
<1> USE DEF TypeOK
<1>1. CASE \E c \in Client : Receive(c)
  <2>1. PICK c \in Client : Receive(c)
    BY <1>1
  <2>2. CASE table[c] # None
    BY <2>1, <2>2 DEF Receive
  <2>3. CASE table[c] = None
    <3>1. PICK s \in Session : /\ socket' = [socket EXCEPT ![s] = TRUE]
                               /\ reader' = [reader EXCEPT ![s] = "read"]
      BY <2>1, <2>3 DEF Receive
    <3>2. QED
      BY <3>1 DEF Reading
  <2>4. QED
    BY <2>2, <2>3
<1>2. CASE Purge
  BY <1>2 DEF Purge
<1>3. CASE \E s \in Session : Read(s) \/ Relay(s) \/ ReadError(s)
  BY <1>3 DEF Read, Relay, ReadError, Reading
<1>4. QED
  BY <1>1, <1>2, <1>3 DEF Next, UdpStep, TcpStep, Touch, Send, Answer, DialFails, Tick, Accept,
     Dial, Over, Copy, CopyEnds, PeerSends, PeerEnds, PeerBreaks, Stop, ListenersClose,
     PurgeEnds, udp, sessions, vars

LEMMA AgesTyped ==
    ASSUME TypeOK, Holding, [Next]_vars
    PROVE  age' \in [Session -> 0..Stale] /\ silence' \in [Session -> 0..Stale]
<1> USE DEF TypeOK, Holding, Stale
<1>1. CASE \E c \in Client : Receive(c)
  BY <1>1 DEF Receive
<1>2. CASE Tick
  BY <1>2 DEF Tick
<1>3. CASE Touch
  BY <1>3 DEF Touch
<1>4. CASE \E s \in Session : Read(s) \/ Relay(s)
  BY <1>4 DEF Read, Relay
<1>5. QED
  BY <1>1, <1>2, <1>3, <1>4 DEF Next, UdpStep, TcpStep, Send, ReadError, Answer, Purge,
     DialFails, Accept, Dial, Over, Copy, CopyEnds, PeerSends, PeerEnds, PeerBreaks, Stop,
     ListenersClose, PurgeEnds, udp, sessions, vars

\* So does the relay of a connection.
LEMMA RelayTyped ==
    ASSUME TypeOK, [Next]_vars
    PROVE  /\ tcp' \in {"none", "dial", "relay", "over"} /\ gone' \subseteq Side
           /\ sent' \in [Side -> 0..1] /\ got' \in [Side -> 0..1]
<1> USE DEF TypeOK
<1>1. CASE \E d \in Side : Copy(d)
  BY <1>1 DEF Copy
<1>2. CASE \E d \in Side : PeerSends(d)
  BY <1>2 DEF PeerSends
<1>3. QED
  BY <1>1, <1>2 DEF Next, UdpStep, TcpStep, Receive, DialFails, Touch, Send, Read, Relay, ReadError,
     Answer, Tick, Purge, Accept, Dial, Over, CopyEnds, PeerEnds, PeerBreaks, Stop,
     ListenersClose, PurgeEnds, relay, vars

LEMMA EndsTyped ==
    ASSUME TypeOK, [Next]_vars
    PROVE  /\ ended' \in [Side -> BOOLEAN] /\ copying' \in [Side -> BOOLEAN]
           /\ shut' \in [Side -> BOOLEAN]
<1> USE DEF TypeOK
<1>1. CASE \E d \in Side : PeerEnds(d)
  BY <1>1 DEF PeerEnds
<1>2. CASE \E d \in Side : CopyEnds(d)
  BY <1>2 DEF CopyEnds
<1>3. CASE Dial
  BY <1>3 DEF Dial
<1>4. QED
  BY <1>1, <1>2, <1>3 DEF Next, UdpStep, TcpStep, Receive, DialFails, Touch, Send, Read, Relay,
     ReadError, Answer, Tick, Purge, Accept, Over, Copy, PeerSends, PeerBreaks, Stop,
     ListenersClose, PurgeEnds, relay, vars

LEMMA FlagsTyped ==
    ASSUME TypeOK, [Next]_vars
    PROVE  /\ proto' \in {"tcp", "udp"} /\ stopped' \in BOOLEAN /\ listening' \in BOOLEAN
           /\ purging' \in BOOLEAN /\ faults' \in 0..MaxFaults
<1> USE DEF TypeOK
<1>1. proto' = proto /\ stopped' \in BOOLEAN /\ listening' \in BOOLEAN
  BY DEF Next, UdpStep, TcpStep, Receive, DialFails, Touch, Send, Read, Relay, ReadError, Answer,
     Tick, Purge, Accept, Dial, Over, Copy, CopyEnds, PeerSends, PeerEnds, PeerBreaks, Stop,
     ListenersClose, PurgeEnds, forward, vars
<1>2. purging' \in BOOLEAN
  BY DEF Next, UdpStep, TcpStep, Receive, DialFails, Touch, Send, Read, Relay, ReadError, Answer,
     Tick, Purge, Accept, Dial, Over, Copy, CopyEnds, PeerSends, PeerEnds, PeerBreaks, Stop,
     ListenersClose, PurgeEnds, udp, vars
<1>3. faults' = faults \/ Fault
  BY DEF Next, UdpStep, TcpStep, Receive, DialFails, Touch, Send, Read, Relay, ReadError, Answer,
     Tick, Purge, Accept, Dial, Over, Copy, CopyEnds, PeerSends, PeerEnds, PeerBreaks, Stop,
     ListenersClose, PurgeEnds, vars
<1>4. faults' \in 0..MaxFaults
  BY <1>3 DEF Fault
<1>5. QED
  BY <1>1, <1>2, <1>4

LEMMA TypeStep ==
    ASSUME TypeOK, Holding, [Next]_vars
    PROVE  TypeOK'
BY SessionsTyped, SocketsTyped, AgesTyped, RelayTyped, EndsTyped, FlagsTyped DEF TypeOK

-----------------------------------------------------------------------------
(* The table, the sockets and the ages. *)

\* What a step that concerns neither the table nor a socket leaves alone.
LEMMA TableFrame ==
    ASSUME NoLeak, NoClosed, UNCHANGED <<table, owner, socket>>
    PROVE  NoLeak' /\ NoClosed'
BY DEF NoLeak, NoClosed

LEMMA TableStep ==
    ASSUME TypeOK, NoLeak, NoClosed, [Next]_vars
    PROVE  NoLeak' /\ NoClosed'
<1> USE DEF TypeOK, NoLeak, NoClosed
<1>1. CASE \E c \in Client : Receive(c)
  <2>1. PICK c \in Client : Receive(c)
    BY <1>1
  <2>2. CASE table[c] # None
    BY <2>1, <2>2, TableFrame DEF Receive
  <2>3. CASE table[c] = None
    <3>1. PICK s \in Session :
            /\ ~socket[s]
            /\ table' = [table EXCEPT ![c] = s]
            /\ owner' = [owner EXCEPT ![s] = c]
            /\ socket' = [socket EXCEPT ![s] = TRUE]
      BY <2>1, <2>3 DEF Receive
    <3>2. NoLeak'
      BY <2>3, <3>1
    <3>3. NoClosed'
      BY <3>1
    <3>4. QED
      BY <3>2, <3>3
  <2>4. QED
    BY <2>2, <2>3
<1>2. CASE Purge
  <2>1. /\ table' = [c \in Client |-> IF table[c] \in Expired THEN None ELSE table[c]]
        /\ socket' = [s \in Session |-> socket[s] /\ s \notin Expired]
        /\ owner' = owner
    BY <1>2 DEF Purge
  <2>2. NoLeak'
    <3>1. SUFFICES ASSUME NEW s \in Session, socket'[s]
                   PROVE  owner[s] # None /\ table'[owner[s]] = s
      BY <2>1
    <3>2. socket[s] /\ s \notin Expired
      BY <2>1, <3>1
    <3>3. owner[s] \in Client /\ table[owner[s]] = s /\ owner[s] # None
      BY <3>2
    <3>4. QED
      BY <2>1, <3>2, <3>3
  <2>3. NoClosed'
    BY <2>1
  <2>4. QED
    BY <2>2, <2>3
<1>3. CASE UNCHANGED <<table, owner, socket>>
  BY <1>3, TableFrame
<1>4. QED
  BY <1>1, <1>2, <1>3 DEF Next, UdpStep, TcpStep, Touch, Send, Read, Relay, ReadError, Answer,
     DialFails, Tick, Accept, Dial, Over, Copy, CopyEnds, PeerSends, PeerEnds, PeerBreaks, Stop,
     ListenersClose, PurgeEnds, udp, sessions, vars

LEMMA HoldingStep ==
    ASSUME TypeOK, Holding, [Next]_vars
    PROVE  Holding'
<1> USE DEF Holding, TypeOK
<1>1. CASE \E c \in Client : Receive(c)
  BY <1>1 DEF Receive
<1>2. CASE Touch \/ Send
  BY <1>2 DEF Touch, Send
<1>3. QED
  BY <1>1, <1>2 DEF Next, UdpStep, TcpStep, Read, Relay, ReadError, Answer, DialFails, Tick, Purge,
     Accept, Dial, Over, Copy, CopyEnds, PeerSends, PeerEnds, PeerBreaks, Stop, ListenersClose,
     PurgeEnds, udp, receiver, vars

LEMMA CountedStep ==
    ASSUME TypeOK, Holding, Counted, [Next]_vars
    PROVE  Counted'
<1> USE DEF TypeOK, Holding, Counted, Uncounted
<1>1. CASE \E c \in Client : Receive(c)
  <2>1. PICK c \in Client : Receive(c)
    BY <1>1
  <2>2. /\ hand' \in Session /\ step' = "touch" /\ step = "recv"
        /\ \A s \in Session \ {hand'} : /\ socket'[s] = socket[s] /\ age'[s] = age[s]
                                        /\ silence'[s] = silence[s] /\ reader'[s] = reader[s]
    BY <2>1 DEF Receive
  <2>3. QED
    BY <2>2
<1>2. CASE Tick
  <2>1. /\ \A s \in Session : age[s] \in 0..Stale /\ silence[s] \in 0..Stale
        /\ UNCHANGED <<socket, reader, hand, step>> /\ Stale \in Nat
    BY <1>2 DEF Tick, receiver, Stale
  <2>2. \A s \in Session : /\ age'[s] = IF age[s] < Stale THEN age[s] + 1 ELSE age[s]
                           /\ silence'[s] = IF silence[s] < Stale THEN silence[s] + 1 ELSE silence[s]
    BY <1>2 DEF Tick
  <2>3. \A s \in Session : age[s] <= silence[s] => age'[s] <= silence'[s]
    BY <2>1, <2>2
  <2>4. QED
    BY <2>1, <2>3
<1>3. CASE Touch
  <2>1. /\ hand \in Session /\ UNCHANGED <<socket, reader, silence, hand>> /\ step = "touch"
        /\ age' = [age EXCEPT ![hand] = 0] /\ 0 <= silence[hand]
    BY <1>3 DEF Touch
  <2>2. QED
    BY <2>1
<1>4. CASE Send
  BY <1>4 DEF Send, sessions
<1>5. CASE \E s \in Session : Read(s) \/ Relay(s)
  <2>1. PICK s \in Session : Read(s) \/ Relay(s)
    BY <1>5
  <2>2. CASE Read(s)
    <3>1. /\ UNCHANGED <<socket, age, hand, step>> /\ reader'[s] = "relay"
          /\ \A r \in Session \ {s} : silence'[r] = silence[r] /\ reader'[r] = reader[r]
      BY <2>2 DEF Read, receiver
    <3>2. QED
      BY <3>1
  <2>3. CASE Relay(s)
    <3>1. /\ UNCHANGED <<socket, silence, hand, step>> /\ age'[s] = 0 /\ 0 <= silence[s]
          /\ \A r \in Session \ {s} : age'[r] = age[r] /\ reader'[r] = reader[r]
      BY <2>3 DEF Relay, receiver
    <3>2. QED
      BY <3>1
  <2>4. QED
    BY <2>1, <2>2, <2>3
<1>6. CASE Purge
  BY <1>6 DEF Purge, receiver
<1>7. CASE UNCHANGED <<socket, age, silence, hand, step>> /\ \E s \in Session : ReadError(s)
  BY <1>7 DEF ReadError
<1>8. CASE UNCHANGED <<socket, reader, age, silence, hand, step>>
  BY <1>8
<1>9. QED
  BY <1>1, <1>2, <1>3, <1>4, <1>5, <1>6, <1>7, <1>8 DEF Next, UdpStep, TcpStep, ReadError,
     Answer, DialFails, Accept, Dial, Over, Copy, CopyEnds, PeerSends, PeerEnds, PeerBreaks, Stop,
     ListenersClose, PurgeEnds, udp, sessions, receiver, vars

-----------------------------------------------------------------------------
(* The directions of a connection. *)

LEMMA ShutStep ==
    ASSUME TypeOK, ShutWhole, [Next]_vars
    PROVE  ShutWhole'
<1> USE DEF TypeOK, ShutWhole
<1>1. CASE \E d \in Side : CopyEnds(d)
  <2>1. PICK d \in Side : CopyEnds(d)
    BY <1>1
  <2>2. (ended[d] /\ got[d] = sent[d]) \/ gone # {}
    BY <2>1 DEF CopyEnds, Done
  <2>3. UNCHANGED <<sent, ended, got, gone>> /\ shut' = [shut EXCEPT ![d] = TRUE]
    BY <2>1 DEF CopyEnds
  <2>4. QED
    BY <2>2, <2>3
<1>2. CASE \E d \in Side : Copy(d)
  BY <1>2 DEF Copy
<1>3. CASE \E d \in Side : PeerSends(d)
  BY <1>3 DEF PeerSends
<1>4. CASE \E d \in Side : PeerEnds(d)
  BY <1>4 DEF PeerEnds
<1>5. CASE Dial \/ Over \/ \E d \in Side : PeerBreaks(d)
  BY <1>5 DEF Dial, Over, PeerBreaks, Side
<1>6. CASE UNCHANGED <<shut, ended, got, sent, gone>>
  BY <1>6
<1>7. QED
  BY <1>1, <1>2, <1>3, <1>4, <1>5, <1>6 DEF Next, UdpStep, TcpStep, Receive, DialFails, Touch,
     Send, Read, Relay, ReadError, Answer, Tick, Purge, Accept, Stop, ListenersClose, PurgeEnds,
     relay, vars

LEMMA InvStep ==
    ASSUME IInv, [Next]_vars
    PROVE  IInv'
BY TypeStep, TableStep, HoldingStep, CountedStep, ShutStep DEF IInv

-----------------------------------------------------------------------------
(* Theorems. *)

\* What is inductive.
THEOREM Invariant == Spec => []IInv
BY InitInv, InvStep, PTL DEF Spec

\* Every variable of Forward stays in its type.
THEOREM TypeCorrect == Spec => []TypeOK
<1>1. IInv => TypeOK
  BY DEF IInv
<1>2. QED
  BY <1>1, Invariant, PTL

\* Every open socket of a UDP forward is in the table, under the client it answers to.
THEOREM SocketsHeld == Spec => []NoLeak
<1>1. IInv => NoLeak
  BY DEF IInv
<1>2. QED
  BY <1>1, Invariant, PTL

\* The table names open sockets only, each under its own client.
THEOREM SocketsOpen == Spec => []NoClosed
<1>1. IInv => NoClosed
  BY DEF IInv
<1>2. QED
  BY <1>1, Invariant, PTL

\* A side is told of the end of the other's stream only when it has all of it.
THEOREM EndsInOrder == Spec => []EndsAfterAll
<1>1. IInv => EndsAfterAll
  BY DEF IInv, ShutWhole, EndsAfterAll
<1>2. QED
  BY <1>1, Invariant, PTL

\* The purge closes idle sessions only, save for one whose datagram a goroutine holds.
THEOREM OnlyIdlePurged == Spec => PurgedIdle
<1>1. IInv /\ [Next]_vars =>
        [\A s \in Session : socket[s] /\ ~socket'[s] => silence[s] > IdleTicks \/ Uncounted(s)]_vars
  <2> SUFFICES ASSUME IInv, [Next]_vars, NEW s \in Session, socket[s], ~socket'[s]
               PROVE  silence[s] > IdleTicks \/ Uncounted(s)
    OBVIOUS
  <2>1. Purge
    BY DEF IInv, TypeOK, Next, UdpStep, TcpStep, Receive, Touch, Send, Read, Relay, ReadError, Answer,
       DialFails, Tick, Accept, Dial, Over, Copy, CopyEnds, PeerSends, PeerEnds, PeerBreaks,
       Stop, ListenersClose, PurgeEnds, udp, sessions, vars
  <2>2. age[s] > IdleTicks
    BY <2>1 DEF Purge, Expired, IInv, TypeOK
  <2>3. age[s] \in 0..Stale /\ silence[s] \in 0..Stale /\ Stale \in Nat
    BY DEF IInv, TypeOK, Stale
  <2>4. QED
    BY <2>2, <2>3 DEF IInv, Counted
<1>2. QED
  BY <1>1, Invariant, InitInv, InvStep, PTL DEF Spec, PurgedIdle
=============================================================================

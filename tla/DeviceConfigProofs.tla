-------------------------- MODULE DeviceConfigProofs --------------------------
(***************************************************************************)
(* Proofs about DeviceConfig, for any names, addresses, ports and lengths. *)
(***************************************************************************)
EXTENDS DeviceConfig, SequenceTheorems, WellFoundedInduction, TLAPS

USE ConfigAssumption

-----------------------------------------------------------------------------
(* Induction over the natural numbers, stated of a set, and what it gives:  *)
(* a bounded set has a greatest and a least element, and the two recursive *)
(* functions of DeviceConfig are what their equations say.                  *)

LEMMA LeastOf ==
    ASSUME NEW T \in SUBSET Nat, T # {}
    PROVE  \E m \in T : \A k \in T : m <= k
<1>1. PICK m \in T : \A k \in T : <<k, m>> \notin OpToRel(<, Nat)
  BY NatLessThanWellFounded, WFMin
<1>2. \A k \in T : ~(k < m)
  BY <1>1 DEF OpToRel
<1>3. QED
  BY <1>2

LEMMA Induction ==
    ASSUME NEW T, 0 \in T, \A n \in Nat : n \in T => n + 1 \in T
    PROVE  \A n \in Nat : n \in T
<1> DEFINE F == {n \in Nat : n \notin T}
<1> SUFFICES ASSUME F # {} PROVE FALSE
  OBVIOUS
<1>1. PICK m \in F : \A k \in F : m <= k
  <2> HIDE DEF F
  <2>1. F \subseteq Nat
    BY DEF F
  <2>2. QED
    BY <2>1, LeastOf
<1>2. m \in Nat \ {0} /\ m \notin T
  OBVIOUS
<1>3. m - 1 \in Nat /\ m - 1 \notin F
  BY <1>1, <1>2
<1>4. QED
  BY <1>2, <1>3

LEMMA FirstIn ==
    ASSUME NEW T \in SUBSET Nat, T # {}
    PROVE  First(T) \in T
BY LeastOf DEF First

LEMMA LastIn ==
    ASSUME NEW n \in Nat, NEW T \in SUBSET (1..n), T # {}
    PROVE  Last(T) \in T
<1> DEFINE D == {n - t : t \in T}
<1>1. D \in SUBSET Nat /\ D # {}
  <2>1. \A t \in T : n - t \in Nat
    OBVIOUS
  <2>2. QED
    BY <2>1
<1>2. PICK m \in D : \A k \in D : m <= k
  BY <1>1, LeastOf
<1>3. PICK t \in T : m = n - t
  OBVIOUS
<1>4. \A u \in T : t >= u
  <2>1. TAKE u \in T
  <2>2. n - u \in D
    OBVIOUS
  <2>3. n - t <= n - u
    BY <1>2, <1>3, <2>2
  <2>4. t \in Int /\ u \in Int
    OBVIOUS
  <2>5. QED
    BY <2>3, <2>4
<1>5. QED
  BY <1>4 DEF Last

\* The recursion of linkForwards is well defined.
IsPass(h, c, n) == h = [k \in 0..n |-> IF k = 0 THEN c ELSE LinkOne(h[k - 1], k)]

Steps(h, c, n) == h[0] = c /\ \A k \in 1..n : h[k] = LinkOne(h[k - 1], k)

LEMMA PassSteps ==
    ASSUME NEW c, NEW n \in Nat, NEW h, IsPass(h, c, n)
    PROVE  Steps(h, c, n)
<1>1. \A k \in 0..n : h[k] = IF k = 0 THEN c ELSE LinkOne(h[k - 1], k)
  BY DEF IsPass
<1>2. QED
  BY <1>1 DEF Steps

LEMMA PassExtends ==
    ASSUME NEW c, NEW n \in Nat, NEW h, IsPass(h, c, n)
    PROVE  \E g : IsPass(g, c, n + 1)
<1> DEFINE g == [k \in 0..(n + 1) |-> IF k = n + 1 THEN LinkOne(h[n], n + 1) ELSE h[k]]
<1>1. \A k \in 0..(n + 1) : g[k] = IF k = 0 THEN c ELSE LinkOne(g[k - 1], k)
  <2>1. TAKE k \in 0..(n + 1)
  <2>2. CASE k = n + 1
    BY <2>2
  <2>3. CASE k # n + 1
    <3>1. k \in 0..n /\ g[k] = h[k] /\ (k # 0 => k - 1 \in 0..n /\ g[k - 1] = h[k - 1])
      BY <2>3
    <3>2. h[k] = IF k = 0 THEN c ELSE LinkOne(h[k - 1], k)
      BY <3>1 DEF IsPass
    <3>3. QED
      BY <3>1, <3>2
  <2>4. QED
    BY <2>2, <2>3
<1>2. IsPass(g, c, n + 1)
  BY <1>1 DEF IsPass
<1> HIDE DEF g
<1>3. QED
  BY <1>2

LEMMA PassExists ==
    ASSUME NEW c, NEW n \in Nat
    PROVE  \E h : IsPass(h, c, n)
<1> DEFINE T == {m \in Nat : \E h : IsPass(h, c, m)}
<1>1. 0 \in T
  <2> DEFINE h == [k \in 0..0 |-> c]
  <2>1. IsPass(h, c, 0)
    BY DEF IsPass
  <2> HIDE DEF h
  <2>2. QED
    BY <2>1
<1>2. ASSUME NEW m \in Nat, m \in T PROVE m + 1 \in T
  BY <1>2, PassExtends
<1>3. n \in T
  <2> HIDE DEF T
  <2>1. QED
    BY <1>1, <1>2, Induction
<1>4. QED
  BY <1>3

LEMMA PassIs ==
    ASSUME NEW c, Len(c.fwds) \in Nat
    PROVE  \E h : Steps(h, c, Len(c.fwds)) /\ linkForwards(c) = h[Len(c.fwds)]
<1>1. PICK g : IsPass(g, c, Len(c.fwds))
  BY PassExists
<1>2. PICK h : IsPass(h, c, Len(c.fwds)) /\ linkForwards(c) = h[Len(c.fwds)]
  BY <1>1 DEF linkForwards, IsPass
<1>3. QED
  BY <1>2, PassSteps

-----------------------------------------------------------------------------
(* Sequences and configurations. *)

LEMMA SeqFacts ==
    ASSUME NEW S, NEW s \in Seq(S)
    PROVE  /\ Len(s) \in Nat /\ DOMAIN s = 1..Len(s)
           /\ s \in [1..Len(s) -> S] /\ \A i \in DOMAIN s : s[i] \in S
BY LenProperties

LEMMA FunSeq ==
    ASSUME NEW S, NEW n \in Nat, NEW f \in [1..n -> S]
    PROVE  f \in Seq(S) /\ Len(f) = n
<1>1. f \in Seq(S)
  BY SeqDef
<1>2. DOMAIN f = 1..Len(f) /\ Len(f) \in Nat
  BY <1>1, LenProperties
<1>3. DOMAIN f = 1..n
  OBVIOUS
<1>4. QED
  BY <1>1, <1>2, <1>3

\* t is s with e at position i.
Differs(s, t, i, e) ==
    DOMAIN t = DOMAIN s /\ t[i] = e /\ \A j \in DOMAIN s \ {i} : t[j] = s[j]

LEMMA PutFacts ==
    ASSUME NEW S, NEW s \in Seq(S), NEW i \in DOMAIN s, NEW e \in S
    PROVE  Put(s, i, e) \in Seq(S) /\ Differs(s, Put(s, i, e), i, e)
<1>1. Len(s) \in Nat /\ DOMAIN s = 1..Len(s) /\ \A j \in DOMAIN s : s[j] \in S
  BY SeqFacts
<1>2. Put(s, i, e) \in [1..Len(s) -> S]
  BY <1>1 DEF Put
<1>3. QED
  BY <1>1, <1>2, FunSeq DEF Put, Differs

\* d is c but for the exposure of its sub-devices and the markers of its forwards.
Alike(c, d) ==
    /\ d \in Configuration
    /\ DOMAIN d.subs = DOMAIN c.subs /\ DOMAIN d.fwds = DOMAIN c.fwds
    /\ \A i \in DOMAIN c.subs :
         /\ d.subs[i].name = c.subs[i].name
         /\ d.subs[i].ip = c.subs[i].ip /\ d.subs[i].port = c.subs[i].port
    /\ \A k \in DOMAIN c.fwds :
         /\ d.fwds[k].proto = c.fwds[k].proto
         /\ d.fwds[k].listen = c.fwds[k].listen /\ d.fwds[k].target = c.fwds[k].target

\* Exactly the exposed sub-devices have a port to listen to.
Flags(c) == \A i \in DOMAIN c.subs : c.subs[i].expose <=> c.subs[i].listen # 0

LEMMA ConfigFacts ==
    ASSUME NEW c \in Configuration
    PROVE  /\ Len(c.subs) \in Nat /\ DOMAIN c.subs = 1..Len(c.subs)
           /\ Len(c.fwds) \in Nat /\ DOMAIN c.fwds = 1..Len(c.fwds)
           /\ c.subs \in Seq(SubDevice) /\ c.fwds \in Seq(Forward)
           /\ \A i \in DOMAIN c.subs : c.subs[i] \in SubDevice
           /\ \A k \in DOMAIN c.fwds : c.fwds[k] \in Forward
<1>1. c.subs \in Seq(SubDevice) /\ c.fwds \in Seq(Forward)
  BY DEF Configuration
<1>2. QED
  BY <1>1, SeqFacts

LEMMA AlikeSame ==
    ASSUME NEW c \in Configuration
    PROVE  Alike(c, c)
BY DEF Alike

LEMMA AlikeTrans ==
    ASSUME NEW c, NEW d, NEW e, Alike(c, d), Alike(d, e)
    PROVE  Alike(c, e)
BY DEF Alike

-----------------------------------------------------------------------------
(* One step of linkForwards. *)

\* In e sub-device i is exposed through forward k, which is marked n.
Exposes(c, e, k, i, n) ==
    /\ Alike(c, e)
    /\ e.subs[i].expose = TRUE /\ e.subs[i].listen = c.fwds[k].listen
    /\ \A j \in DOMAIN c.subs \ {i} : e.subs[j] = c.subs[j]
    /\ e.fwds[k].sub = n
    /\ \A j \in DOMAIN c.fwds \ {k} : e.fwds[j] = c.fwds[j]

LEMMA ExposeFacts ==
    ASSUME NEW c \in Configuration, NEW k \in DOMAIN c.fwds, NEW i \in DOMAIN c.subs,
           NEW n \in Name \cup {None}
    PROVE  Exposes(c, Expose(c, k, i, n), k, i, n)
<1> DEFINE sd == [c.subs[i] EXCEPT !.expose = TRUE, !.listen = c.fwds[k].listen]
           f == [c.fwds[k] EXCEPT !.sub = n]
           e == Expose(c, k, i, n)
<1>1. c.subs[i] \in SubDevice /\ c.fwds[k] \in Forward
  BY ConfigFacts
<1>2. /\ sd \in SubDevice /\ sd.expose = TRUE /\ sd.listen = c.fwds[k].listen
      /\ sd.name = c.subs[i].name /\ sd.ip = c.subs[i].ip /\ sd.port = c.subs[i].port
  BY <1>1 DEF SubDevice, Forward
<1>3. /\ f \in Forward /\ f.sub = n
      /\ f.proto = c.fwds[k].proto /\ f.listen = c.fwds[k].listen /\ f.target = c.fwds[k].target
  BY <1>1 DEF Forward
<1>4. e = [c EXCEPT !.subs = Put(c.subs, i, sd), !.fwds = Put(c.fwds, k, f)]
  BY DEF Expose
<1> HIDE DEF sd, f, e
<1>5. /\ e.subs = Put(c.subs, i, sd) /\ e.fwds = Put(c.fwds, k, f)
      /\ e = [subs |-> Put(c.subs, i, sd), fwds |-> Put(c.fwds, k, f)]
  BY <1>4 DEF Configuration
<1>6. c.subs \in Seq(SubDevice) /\ c.fwds \in Seq(Forward)
  BY ConfigFacts
<1>7. e.subs \in Seq(SubDevice) /\ Differs(c.subs, e.subs, i, sd)
  BY <1>2, <1>5, <1>6, PutFacts
<1>8. e.fwds \in Seq(Forward) /\ Differs(c.fwds, e.fwds, k, f)
  BY <1>3, <1>5, <1>6, PutFacts
<1>9. e \in Configuration
  BY <1>5, <1>7, <1>8 DEF Configuration
<1>10. Alike(c, e)
  BY <1>2, <1>3, <1>7, <1>8, <1>9 DEF Alike, Differs
<1>11. QED
  BY <1>2, <1>3, <1>7, <1>8, <1>10 DEF Exposes, Differs, e

\* A marker that leads nowhere is dropped.
Dropped(c, k) == [c EXCEPT !.fwds = Put(c.fwds, k, [c.fwds[k] EXCEPT !.sub = None])]

LEMMA DroppedFacts ==
    ASSUME NEW c \in Configuration, NEW k \in DOMAIN c.fwds
    PROVE  LET e == Dropped(c, k) IN  Alike(c, e) /\ e.subs = c.subs
<1> DEFINE f == [c.fwds[k] EXCEPT !.sub = None]
           e == Dropped(c, k)
<1>1. c.fwds[k] \in Forward
  BY ConfigFacts
<1>2. /\ f \in Forward
      /\ f.proto = c.fwds[k].proto /\ f.listen = c.fwds[k].listen /\ f.target = c.fwds[k].target
  BY <1>1 DEF Forward
<1>3. e = [c EXCEPT !.fwds = Put(c.fwds, k, f)]
  BY DEF Dropped
<1> HIDE DEF f, e
<1>4. /\ e.subs = c.subs /\ e.fwds = Put(c.fwds, k, f)
      /\ e = [subs |-> c.subs, fwds |-> Put(c.fwds, k, f)]
  BY <1>3 DEF Configuration
<1>5. e.fwds \in Seq(Forward) /\ Differs(c.fwds, e.fwds, k, f)
  <2>1. c.fwds \in Seq(Forward)
    BY ConfigFacts
  <2>2. QED
    BY <1>2, <1>4, <2>1, PutFacts
<1>6. e \in Configuration
  BY <1>4, <1>5, ConfigFacts DEF Configuration
<1>7. QED
  BY <1>2, <1>4, <1>5, <1>6 DEF Alike, Differs, e

\* What a step does: it links the forward to a sub-device, drops its marker, or leaves
\* it free.
LEMMA LinkCases ==
    ASSUME NEW c \in Configuration, NEW k \in DOMAIN c.fwds
    PROVE  LET f == c.fwds[k]
               e == LinkOne(c, k)
           IN  \/ \E i \in DOMAIN c.subs :
                    /\ ~c.subs[i].expose /\ e = Expose(c, k, i, c.subs[i].name)
                    /\ \/ f.sub = c.subs[i].name
                       \/ f.sub = None /\ f.proto = "tcp" /\ f.target = Local(c.subs[i])
               \/ /\ f.sub # None /\ e = Dropped(c, k)
                  /\ (\E i \in DOMAIN c.subs : c.subs[i].name = f.sub)
                       => \E i \in DOMAIN c.subs : c.subs[i].name = f.sub /\ c.subs[i].expose
               \/ /\ f.sub = None /\ e = c
                  /\ f.proto = "tcp" =>
                       \A i \in DOMAIN c.subs : f.target = Local(c.subs[i]) => c.subs[i].expose
<1> DEFINE f == c.fwds[k]
           named == {i \in DOMAIN c.subs : c.subs[i].name = f.sub}
           aimed == {i \in DOMAIN c.subs : ~c.subs[i].expose /\ f.target = Local(c.subs[i])}
<1>1. Len(c.subs) \in Nat /\ named \in SUBSET (1..Len(c.subs)) /\ aimed \in SUBSET (1..Len(c.subs))
  BY ConfigFacts
<1>2. CASE f.sub # None
  <2>1. CASE named # {} /\ ~c.subs[Last(named)].expose
    <3>1. Last(named) \in named
      BY <1>1, <2>1, LastIn
    <3>2. LinkOne(c, k) = Expose(c, k, Last(named), f.sub)
      BY <1>2, <2>1 DEF LinkOne
    <3>3. QED
      BY <2>1, <3>1, <3>2
  <2>2. CASE ~(named # {} /\ ~c.subs[Last(named)].expose)
    <3>1. named # {} => Last(named) \in named
      BY <1>1, LastIn
    <3>2. LinkOne(c, k) = Dropped(c, k)
      BY <1>2, <2>2 DEF LinkOne, Dropped
    <3>3. QED
      BY <1>2, <2>2, <3>1, <3>2
  <2>3. QED
    BY <2>1, <2>2
<1>3. CASE f.sub = None
  <2>1. CASE f.proto = "tcp" /\ aimed # {}
    <3>1. First(aimed) \in aimed
      <4>1. aimed \in SUBSET Nat
        BY <1>1
      <4>2. QED
        BY <2>1, <4>1, FirstIn
    <3>2. LinkOne(c, k) = Expose(c, k, First(aimed), c.subs[First(aimed)].name)
      BY <1>3, <2>1 DEF LinkOne
    <3>3. QED
      BY <1>3, <2>1, <3>1, <3>2
  <2>2. CASE ~(f.proto = "tcp" /\ aimed # {})
    <3>1. LinkOne(c, k) = c
      BY <1>3, <2>2 DEF LinkOne
    <3>2. QED
      BY <1>3, <2>2, <3>1
  <2>3. QED
    BY <2>1, <2>2
<1>4. QED
  BY <1>2, <1>3

-----------------------------------------------------------------------------
(* Types, for any configuration. *)

LEMMA LinkTyped ==
    ASSUME NEW c \in Configuration, Flags(c), NEW k \in DOMAIN c.fwds
    PROVE  Alike(c, LinkOne(c, k)) /\ Flags(LinkOne(c, k))
<1> DEFINE e == LinkOne(c, k)
<1>1. CASE \E i \in DOMAIN c.subs : e = Expose(c, k, i, c.subs[i].name)
  <2>1. PICK i \in DOMAIN c.subs : e = Expose(c, k, i, c.subs[i].name)
    BY <1>1
  <2>2. c.subs[i].name \in Name \cup {None} /\ c.fwds[k].listen \in Port
    BY ConfigFacts DEF SubDevice, Forward
  <2> HIDE DEF e
  <2>3. Exposes(c, e, k, i, c.subs[i].name)
    BY <2>1, <2>2, ExposeFacts
  <2>4. DOMAIN e.subs = DOMAIN c.subs
    BY <2>3 DEF Exposes, Alike
  <2>5. c.fwds[k].listen # 0
    BY <2>2
  <2>6. Flags(e)
    BY <2>3, <2>4, <2>5 DEF Exposes, Flags
  <2>7. QED
    BY <2>3, <2>6 DEF Exposes, e
<1>2. CASE e = Dropped(c, k)
  <2> HIDE DEF e
  <2>1. Alike(c, e) /\ e.subs = c.subs
    BY <1>2, DroppedFacts
  <2>2. QED
    BY <2>1 DEF Flags, e
<1>3. CASE e = c
  BY <1>3, AlikeSame
<1>4. QED
  BY <1>1, <1>2, <1>3, LinkCases

LEMMA LinkedTyped ==
    ASSUME NEW c \in Configuration, Flags(c)
    PROVE  Alike(c, linkForwards(c)) /\ Flags(linkForwards(c))
<1> DEFINE n == Len(c.fwds)
<1>1. n \in Nat /\ DOMAIN c.fwds = 1..n
  BY ConfigFacts
<1>2. PICK h : Steps(h, c, n) /\ linkForwards(c) = h[n]
  BY <1>1, PassIs
<1> DEFINE T == {k \in Nat : k <= n => Alike(c, h[k]) /\ Flags(h[k])}
<1> HIDE DEF n
<1>3. 0 \in T
  BY <1>2, AlikeSame DEF Steps
<1>4. ASSUME NEW k \in Nat, k \in T PROVE k + 1 \in T
  <2>1. SUFFICES ASSUME k + 1 <= n PROVE Alike(c, h[k + 1]) /\ Flags(h[k + 1])
    OBVIOUS
  <2>2. Alike(c, h[k]) /\ Flags(h[k])
    BY <1>1, <1>4, <2>1
  <2>3. h[k] \in Configuration /\ k + 1 \in DOMAIN h[k].fwds
    BY <1>1, <2>1, <2>2 DEF Alike
  <2>4. h[k + 1] = LinkOne(h[k], k + 1)
    <3>1. k + 1 \in 1..n /\ (k + 1) - 1 = k
      BY <1>1, <2>1
    <3>2. QED
      BY <1>2, <3>1 DEF Steps
  <2>5. Alike(h[k], h[k + 1]) /\ Flags(h[k + 1])
    BY <2>2, <2>3, <2>4, LinkTyped
  <2>6. QED
    BY <2>2, <2>5, AlikeTrans
<1>5. n \in T
  <2> HIDE DEF T
  <2>1. QED
    BY <1>1, <1>3, <1>4, Induction
<1>6. QED
  BY <1>1, <1>2, <1>5

LEMMA UnlinkedFacts ==
    ASSUME NEW c \in Configuration
    PROVE  /\ Alike(c, unlinked(c)) /\ Flags(unlinked(c))
           /\ \A i \in DOMAIN c.subs : unlinked(c).subs[i].expose = FALSE
           /\ unlinked(c).fwds = c.fwds
<1> DEFINE cleared == [i \in DOMAIN c.subs |-> [c.subs[i] EXCEPT !.expose = FALSE, !.listen = 0]]
           e == unlinked(c)
<1>1. \A i \in DOMAIN c.subs :
         /\ cleared[i] \in SubDevice /\ cleared[i].expose = FALSE /\ cleared[i].listen = 0
         /\ cleared[i].name = c.subs[i].name /\ cleared[i].ip = c.subs[i].ip
         /\ cleared[i].port = c.subs[i].port
  <2>1. TAKE i \in DOMAIN c.subs
  <2>2. c.subs[i] \in SubDevice
    BY ConfigFacts
  <2>3. cleared[i] = [c.subs[i] EXCEPT !.expose = FALSE, !.listen = 0]
    OBVIOUS
  <2> HIDE DEF cleared
  <2>4. QED
    BY <2>2, <2>3 DEF SubDevice
<1>2. e.subs = cleared /\ e.fwds = c.fwds /\ e = [subs |-> cleared, fwds |-> c.fwds]
  <2>1. e = [c EXCEPT !.subs = cleared]
    BY DEF unlinked
  <2> HIDE DEF cleared, e
  <2>2. QED
    BY <2>1 DEF Configuration
<1>3. DOMAIN cleared = DOMAIN c.subs
  OBVIOUS
<1> HIDE DEF cleared, e
<1>4. cleared \in Seq(SubDevice)
  <2>1. Len(c.subs) \in Nat /\ DOMAIN c.subs = 1..Len(c.subs)
    BY ConfigFacts
  <2>2. cleared \in [1..Len(c.subs) -> SubDevice]
    BY <1>1, <2>1 DEF cleared
  <2>3. QED
    BY <2>1, <2>2, FunSeq
<1>5. e \in Configuration
  BY <1>2, <1>4, ConfigFacts DEF Configuration
<1>6. QED
  BY <1>1, <1>2, <1>3, <1>5 DEF Alike, Flags, e

LEMMA NormalizeTyped ==
    ASSUME NEW c \in Configuration
    PROVE  Alike(c, normalize(c)) /\ Flags(normalize(c))
<1>1. Alike(c, unlinked(c)) /\ Flags(unlinked(c)) /\ unlinked(c) \in Configuration
  BY UnlinkedFacts DEF Alike
<1>2. Alike(unlinked(c), normalize(c)) /\ Flags(normalize(c))
  BY <1>1, LinkedTyped DEF normalize
<1>3. QED
  BY <1>1, <1>2, AlikeTrans

-----------------------------------------------------------------------------
(* The elements that Kept keeps. *)

IsKept(h, s, I, n) ==
    h = [k \in 0..n |-> IF k = 0 THEN <<>>
                        ELSE IF k \in I THEN Append(h[k - 1], s[k]) ELSE h[k - 1]]

LEMMA KeptExtends ==
    ASSUME NEW s, NEW I, NEW n \in Nat, NEW h, IsKept(h, s, I, n)
    PROVE  \E g : IsKept(g, s, I, n + 1)
<1> DEFINE Next1 == IF n + 1 \in I THEN Append(h[n], s[n + 1]) ELSE h[n]
           g == [k \in 0..(n + 1) |-> IF k = n + 1 THEN Next1 ELSE h[k]]
<1>1. \A k \in 0..(n + 1) :
        g[k] = IF k = 0 THEN <<>> ELSE IF k \in I THEN Append(g[k - 1], s[k]) ELSE g[k - 1]
  <2>1. TAKE k \in 0..(n + 1)
  <2>2. CASE k = n + 1
    BY <2>2
  <2>3. CASE k # n + 1
    <3>1. k \in 0..n /\ g[k] = h[k] /\ (k # 0 => k - 1 \in 0..n /\ g[k - 1] = h[k - 1])
      BY <2>3
    <3>2. h[k] = IF k = 0 THEN <<>> ELSE IF k \in I THEN Append(h[k - 1], s[k]) ELSE h[k - 1]
      BY <3>1 DEF IsKept
    <3>3. QED
      BY <3>1, <3>2
  <2>4. QED
    BY <2>2, <2>3
<1>2. IsKept(g, s, I, n + 1)
  BY <1>1 DEF IsKept
<1> HIDE DEF g
<1>3. QED
  BY <1>2

LEMMA KeptExists ==
    ASSUME NEW s, NEW I, NEW n \in Nat
    PROVE  \E h : IsKept(h, s, I, n)
<1> DEFINE T == {m \in Nat : \E h : IsKept(h, s, I, m)}
<1>1. 0 \in T
  <2> DEFINE h == [k \in 0..0 |-> <<>>]
  <2>1. IsKept(h, s, I, 0)
    BY DEF IsKept
  <2> HIDE DEF h
  <2>2. QED
    BY <2>1
<1>2. ASSUME NEW m \in Nat, m \in T PROVE m + 1 \in T
  BY <1>2, KeptExtends
<1>3. n \in T
  <2> HIDE DEF T
  <2>1. QED
    BY <1>1, <1>2, Induction
<1>4. QED
  BY <1>3

\* g tells where each element of r stands in s, and it meets each position of J once.
Picks(g, r, s, J) ==
    /\ g \in [1..Len(r) -> J]
    /\ \A p, q \in 1..Len(r) : g[p] = g[q] => p = q
    /\ \A j \in J : \E p \in 1..Len(r) : g[p] = j
    /\ \A p \in 1..Len(r) : r[p] = s[g[p]]

LEMMA PicksNext ==
    ASSUME NEW S, NEW s, NEW r \in Seq(S), NEW J \in SUBSET Nat, NEW n \in Nat, n \notin J,
           s[n] \in S, NEW g, Picks(g, r, s, J)
    PROVE  /\ Append(r, s[n]) \in Seq(S)
           /\ \E f : Picks(f, Append(r, s[n]), s, J \cup {n})
<1> DEFINE t == Append(r, s[n])
           m == Len(r)
           f == [p \in 1..(m + 1) |-> IF p = m + 1 THEN n ELSE g[p]]
<1>1. m \in Nat
  BY LenProperties
<1>2. /\ t \in Seq(S) /\ Len(t) = m + 1
      /\ t[m + 1] = s[n] /\ \A p \in 1..m : t[p] = r[p]
  BY AppendProperties
<1>3. Picks(f, t, s, J \cup {n})
  <2> HIDE DEF t, m
  <2>1. /\ g \in [1..m -> J] /\ \A p, q \in 1..m : g[p] = g[q] => p = q
        /\ \A j \in J : \E p \in 1..m : g[p] = j
        /\ \A p \in 1..m : r[p] = s[g[p]]
    BY DEF Picks, m
  <2>2. f[m + 1] = n /\ \A p \in 1..m : f[p] = g[p] /\ f[p] \in J /\ f[p] # n
    BY <1>1, <2>1
  <2>3. f \in [1..(m + 1) -> J \cup {n}]
    BY <1>1, <2>1
  <2> HIDE DEF f
  <2>4. \A p \in 1..(m + 1) : p \in 1..m \/ p = m + 1
    BY <1>1
  <2>5. \A p, q \in 1..(m + 1) : f[p] = f[q] => p = q
    BY <2>1, <2>2, <2>4
  <2>6. ASSUME NEW j \in J \cup {n} PROVE \E p \in 1..(m + 1) : f[p] = j
    <3>1. \A p \in 1..m : p \in 1..(m + 1)
      BY <1>1
    <3>2. m + 1 \in 1..(m + 1)
      BY <1>1
    <3>3. QED
      BY <2>1, <2>2, <3>1, <3>2
  <2>7. \A p \in 1..(m + 1) : t[p] = s[f[p]]
    BY <1>2, <2>1, <2>2, <2>4
  <2>8. QED
    BY <1>2, <2>3, <2>5, <2>6, <2>7 DEF Picks
<1> HIDE DEF t, f
<1>4. QED
  BY <1>2, <1>3 DEF t

LEMMA KeptPicks ==
    ASSUME NEW S, NEW s \in Seq(S), NEW I \in SUBSET (DOMAIN s)
    PROVE  Kept(s, I) \in Seq(S) /\ \E g : Picks(g, Kept(s, I), s, I)
<1> DEFINE n == Len(s)
<1>1. n \in Nat /\ DOMAIN s = 1..n /\ \A i \in 1..n : s[i] \in S
  BY SeqFacts
<1>2. PICK h : IsKept(h, s, I, n) /\ Kept(s, I) = h[n]
  <2>1. \E h : IsKept(h, s, I, n)
    BY <1>1, KeptExists
  <2>2. QED
    BY <2>1 DEF Kept, IsKept
<1>3. \A k \in 0..n :
        h[k] = IF k = 0 THEN <<>> ELSE IF k \in I THEN Append(h[k - 1], s[k]) ELSE h[k - 1]
  BY <1>2 DEF IsKept
<1> DEFINE To(k) == {i \in I : i <= k}
           Done(k) == h[k] \in Seq(S) /\ \E g : Picks(g, h[k], s, To(k))
           T == {k \in Nat : k <= n => Done(k)}
<1> HIDE DEF n, To, Done
<1>4. 0 \in T
  <2>1. h[0] = <<>> /\ To(0) = {}
    BY <1>1, <1>3 DEF To
  <2>2. Picks(<<>>, <<>>, s, {})
    BY EmptySeq DEF Picks
  <2>3. Done(0)
    BY <2>1, <2>2, EmptySeq DEF Done
  <2>4. QED
    BY <2>3
<1>5. ASSUME NEW k \in Nat, k \in T PROVE k + 1 \in T
  <2>1. SUFFICES ASSUME k + 1 <= n PROVE Done(k + 1)
    OBVIOUS
  <2>2. Done(k)
    BY <1>1, <1>5, <2>1
  <2>3. PICK g : h[k] \in Seq(S) /\ Picks(g, h[k], s, To(k))
    BY <2>2 DEF Done
  <2>4. h[k + 1] = IF k + 1 \in I THEN Append(h[k], s[k + 1]) ELSE h[k]
    <3>1. k + 1 \in 0..n /\ k + 1 # 0 /\ (k + 1) - 1 = k
      BY <1>1, <2>1
    <3>2. QED
      BY <1>3, <3>1
  <2>5. /\ k + 1 \in Nat /\ s[k + 1] \in S
        /\ To(k) \in SUBSET Nat /\ k + 1 \notin To(k)
    BY <1>1, <2>1 DEF To
  <2>6. To(k + 1) = IF k + 1 \in I THEN To(k) \cup {k + 1} ELSE To(k)
    BY <1>1 DEF To
  <2>7. CASE k + 1 \in I
    <3>1. /\ Append(h[k], s[k + 1]) \in Seq(S)
          /\ \E f : Picks(f, Append(h[k], s[k + 1]), s, To(k) \cup {k + 1})
      BY <2>3, <2>5, PicksNext
    <3>2. QED
      BY <2>4, <2>6, <2>7, <3>1 DEF Done
  <2>8. CASE k + 1 \notin I
    BY <2>3, <2>4, <2>6, <2>8 DEF Done
  <2>9. QED
    BY <2>7, <2>8
<1>6. n \in T
  <2> HIDE DEF T
  <2>1. QED
    BY <1>1, <1>4, <1>5, Induction
<1>7. To(n) = I
  BY <1>1 DEF To
<1>8. Done(n)
  BY <1>1, <1>6
<1>9. QED
  BY <1>2, <1>7, <1>8 DEF Done

-----------------------------------------------------------------------------
(* What linkForwards establishes, forward by forward.                      *)

\* Each marked forward is the access of an exposed sub-device.
Marked(c, n) ==
    \A k \in 1..n : ~Free(c.fwds[k]) =>
      \E i \in DOMAIN c.subs : c.subs[i].expose /\ c.fwds[k] = Access(c.subs[i])

\* Each exposed sub-device has a forward.
Served(c, n) ==
    \A i \in DOMAIN c.subs : c.subs[i].expose =>
      \E k \in 1..n : c.fwds[k].sub = c.subs[i].name

\* A free tcp forward to a sub-device comes after the one that is its access.
Late(c, n) ==
    \A k \in 1..n : Free(c.fwds[k]) /\ c.fwds[k].proto = "tcp" =>
      \A i \in DOMAIN c.subs : c.fwds[k].target = Local(c.subs[i]) =>
        \E j \in 1..(k - 1) : c.fwds[j].sub = c.subs[i].name

\* No two forwards have one marker.
Unshared(c, n) ==
    \A j, k \in 1..n : ~Free(c.fwds[j]) /\ c.fwds[j].sub = c.fwds[k].sub => j = k

Linked(c, n) == Marked(c, n) /\ Served(c, n) /\ Late(c, n) /\ Unshared(c, n)
Settled(c) == Flags(c) /\ Linked(c, Len(c.fwds))

\* The first step of each kind that LinkCases names: the forward is linked, ...
LEMMA StepLinks ==
    ASSUME NEW c \in Configuration, Flags(c), DistinctNames(c.subs),
           NEW n \in Nat, n + 1 \in DOMAIN c.fwds, Linked(c, n),
           NEW i \in DOMAIN c.subs, ~c.subs[i].expose,
           c.fwds[n + 1].proto = "tcp", c.fwds[n + 1].target = Local(c.subs[i]),
           NEW e, Exposes(c, e, n + 1, i, c.subs[i].name)
    PROVE  Linked(e, n + 1)
<1> DEFINE m == n + 1
<1>1. /\ \A j \in DOMAIN c.subs : c.subs[j] \in SubDevice
      /\ \A k \in DOMAIN c.fwds : c.fwds[k] \in Forward
      /\ DOMAIN c.fwds = 1..Len(c.fwds) /\ Len(c.fwds) \in Nat
  BY ConfigFacts
<1>2. \A k \in 1..n : k \in DOMAIN c.fwds \ {m} /\ k \in 1..m
  BY <1>1
<1>3. \A k \in 1..m : k \in 1..n \/ k = m
  OBVIOUS
<1>4. m \in 1..m /\ m \in DOMAIN c.fwds
  OBVIOUS
<1> HIDE DEF m
<1>5. /\ Alike(c, e)
      /\ e.subs[i].expose = TRUE /\ e.subs[i].listen = c.fwds[m].listen
      /\ \A j \in DOMAIN c.subs \ {i} : e.subs[j] = c.subs[j]
      /\ e.fwds[m].sub = c.subs[i].name
      /\ \A j \in DOMAIN c.fwds \ {m} : e.fwds[j] = c.fwds[j]
  BY DEF Exposes, m
<1>6. /\ \A k \in 1..n : e.fwds[k] = c.fwds[k]
      /\ DOMAIN e.subs = DOMAIN c.subs
      /\ \A j \in DOMAIN c.subs : e.subs[j].name = c.subs[j].name /\ Local(e.subs[j]) = Local(c.subs[j])
  BY <1>2, <1>5 DEF Alike, Local
<1>7. \A j \in DOMAIN c.subs : c.subs[j].expose => j # i /\ e.subs[j] = c.subs[j]
  BY <1>5
<1>8. e.fwds[m] = Access(e.subs[i])
  <2>1. e.fwds[m] \in Forward /\ e.subs[i] \in SubDevice
    <3>1. e \in Configuration /\ m \in DOMAIN e.fwds /\ i \in DOMAIN e.subs
      BY <1>4, <1>5 DEF Alike
    <3>2. QED
      BY <3>1, ConfigFacts
  <2>2. /\ e.fwds[m].proto = "tcp" /\ e.fwds[m].listen = e.subs[i].listen
        /\ e.fwds[m].target = Local(e.subs[i]) /\ e.fwds[m].sub = e.subs[i].name
    BY <1>4, <1>5, <1>6 DEF Alike, m
  <2>3. e.subs[i].listen # 0
    BY <1>1, <1>4, <1>5 DEF Forward
  <2>4. e.fwds[m] = Fwd("tcp", e.subs[i].listen, Local(e.subs[i]), e.subs[i].name)
    BY <2>1, <2>2 DEF Forward, Fwd
  <2>5. QED
    BY <2>3, <2>4 DEF Access
<1>9. Marked(e, m)
  <2>1. SUFFICES ASSUME NEW k \in 1..m, ~Free(e.fwds[k])
                 PROVE  \E j \in DOMAIN e.subs : e.subs[j].expose /\ e.fwds[k] = Access(e.subs[j])
    BY DEF Marked
  <2>2. CASE k = m
    BY <1>5, <1>6, <1>8, <2>2
  <2>3. CASE k \in 1..n
    <3>1. PICK j \in DOMAIN c.subs : c.subs[j].expose /\ c.fwds[k] = Access(c.subs[j])
      BY <1>6, <2>1, <2>3 DEF Linked, Marked
    <3>2. QED
      BY <1>6, <1>7, <2>3, <3>1
  <2>4. QED
    BY <1>3, <2>2, <2>3
<1>10. Served(e, m)
  <2>1. SUFFICES ASSUME NEW j \in DOMAIN e.subs, e.subs[j].expose
                 PROVE  \E k \in 1..m : e.fwds[k].sub = e.subs[j].name
    BY DEF Served
  <2>2. CASE j = i
    BY <1>4, <1>5, <1>6, <2>2
  <2>3. CASE j # i
    <3>1. c.subs[j].expose
      BY <1>5, <1>6, <2>1, <2>3
    <3>2. PICK k \in 1..n : c.fwds[k].sub = c.subs[j].name
      BY <1>6, <3>1 DEF Linked, Served
    <3>3. QED
      BY <1>2, <1>6, <3>2
  <2>4. QED
    BY <2>2, <2>3
<1>11. ~Free(e.fwds[m])
  BY <1>1, <1>5 DEF Free, SubDevice
<1>12. Late(e, m)
  <2>1. SUFFICES ASSUME NEW k \in 1..m, Free(e.fwds[k]), e.fwds[k].proto = "tcp",
                        NEW j \in DOMAIN e.subs, e.fwds[k].target = Local(e.subs[j])
                 PROVE  \E l \in 1..(k - 1) : e.fwds[l].sub = e.subs[j].name
    BY DEF Late
  <2>2. k \in 1..n
    BY <1>3, <1>11, <2>1
  <2>3. PICK l \in 1..(k - 1) : c.fwds[l].sub = c.subs[j].name
    BY <1>6, <2>1, <2>2 DEF Linked, Late
  <2>4. l \in 1..n
    BY <2>2
  <2>5. QED
    BY <1>6, <2>3, <2>4
<1>13. \A k \in 1..n : c.fwds[k].sub # c.subs[i].name
  <2>1. SUFFICES ASSUME NEW k \in 1..n, c.fwds[k].sub = c.subs[i].name PROVE FALSE
    OBVIOUS
  <2>2. ~Free(c.fwds[k])
    BY <1>1, <2>1 DEF Free, SubDevice
  <2>3. PICK j \in DOMAIN c.subs : c.subs[j].expose /\ c.fwds[k] = Access(c.subs[j])
    BY <2>2 DEF Linked, Marked
  <2>4. c.subs[j].name = c.subs[i].name
    BY <2>1, <2>3 DEF Access, Fwd
  <2>5. QED
    BY <2>3, <2>4 DEF DistinctNames
<1>14. Unshared(e, m)
  BY <1>3, <1>5, <1>6, <1>13 DEF Linked, Unshared
<1>15. QED
  BY <1>9, <1>10, <1>12, <1>14 DEF Linked, m

\* ... or left free.
LEMMA StepLeaves ==
    ASSUME NEW c \in Configuration,
           NEW n \in Nat, n + 1 \in DOMAIN c.fwds, Linked(c, n),
           Free(c.fwds[n + 1]),
           c.fwds[n + 1].proto = "tcp" =>
             \A i \in DOMAIN c.subs : c.fwds[n + 1].target = Local(c.subs[i]) => c.subs[i].expose
    PROVE  Linked(c, n + 1)
<1> DEFINE m == n + 1
<1>1. \A k \in 1..m : k \in 1..n \/ k = m
  OBVIOUS
<1>2. (\A k \in 1..n : k \in 1..m) /\ m - 1 = n
  OBVIOUS
<1> HIDE DEF m
<1>3. Free(c.fwds[m])
  BY DEF m
<1>4. Marked(c, m)
  BY <1>1, <1>3 DEF Linked, Marked
<1>5. Served(c, m)
  BY <1>2 DEF Linked, Served
<1>6. Late(c, m)
  <2>1. SUFFICES ASSUME NEW k \in 1..m, Free(c.fwds[k]), c.fwds[k].proto = "tcp",
                        NEW j \in DOMAIN c.subs, c.fwds[k].target = Local(c.subs[j])
                 PROVE  \E l \in 1..(k - 1) : c.fwds[l].sub = c.subs[j].name
    BY DEF Late
  <2>2. CASE k = m
    BY <1>2, <2>1, <2>2 DEF Linked, Served, m
  <2>3. CASE k \in 1..n
    BY <2>1, <2>3 DEF Linked, Late
  <2>4. QED
    BY <1>1, <2>2, <2>3
<1>7. Unshared(c, m)
  <2>1. SUFFICES ASSUME NEW j \in 1..m, NEW k \in 1..m,
                        ~Free(c.fwds[j]), c.fwds[j].sub = c.fwds[k].sub
                 PROVE  j = k
    BY DEF Unshared
  <2>2. j \in 1..n /\ k \in 1..n
    BY <1>1, <1>3, <2>1 DEF Free
  <2>3. QED
    BY <2>1, <2>2 DEF Linked, Unshared
<1>8. QED
  BY <1>4, <1>5, <1>6, <1>7 DEF Linked, m

-----------------------------------------------------------------------------
(* A proper configuration loses no marker when it is normalized.           *)

\* A marked forward aims at the sub-device it names,
Aimed(c) ==
    \A k \in DOMAIN c.fwds : ~Free(c.fwds[k]) =>
      \E i \in DOMAIN c.subs :
        /\ c.fwds[k].sub = c.subs[i].name
        /\ c.fwds[k].proto = "tcp" /\ c.fwds[k].target = Local(c.subs[i])

\* and no free one before it could take that sub-device first.
Prior(c) ==
    \A j, k \in DOMAIN c.fwds :
      j < k /\ Free(c.fwds[j]) /\ c.fwds[j].proto = "tcp" /\ ~Free(c.fwds[k])
        => c.fwds[j].target # c.fwds[k].target

Proper(c) == Aimed(c) /\ Prior(c) /\ Unshared(c, Len(c.fwds))

\* h is what has become of c once its first n forwards have been read.
Tracks(c, h, n) ==
    /\ Alike(c, h) /\ Flags(h)
    /\ \A k \in DOMAIN c.fwds : k > n => h.fwds[k] = c.fwds[k]
    /\ \A k \in DOMAIN c.fwds :
         h.fwds[k].sub = c.fwds[k].sub \/ (Free(c.fwds[k]) /\ c.fwds[k].proto = "tcp")

LEMMA NeverDropped ==
    ASSUME NEW c \in Configuration, DistinctNames(c.subs), Proper(c),
           NEW n \in Nat, n + 1 \in DOMAIN c.fwds,
           NEW h, Tracks(c, h, n), Linked(h, n),
           ~Free(c.fwds[n + 1]),
           NEW i \in DOMAIN c.subs, h.subs[i].name = c.fwds[n + 1].sub, h.subs[i].expose
    PROVE  FALSE
<1> DEFINE m == n + 1
<1>1. DOMAIN c.fwds = 1..Len(c.fwds) /\ Len(c.fwds) \in Nat
  BY ConfigFacts
<1>2. \A k \in 1..n : k \in DOMAIN c.fwds /\ k < m
  BY <1>1
<1> HIDE DEF m
<1>3. m \in DOMAIN c.fwds /\ ~Free(c.fwds[m]) /\ h.subs[i].name = c.fwds[m].sub
  BY DEF m
<1>4. Alike(c, h)
  BY DEF Tracks
<1>5. PICK a \in DOMAIN c.subs : c.fwds[m].sub = c.subs[a].name /\ c.fwds[m].target = Local(c.subs[a])
  BY <1>3 DEF Proper, Aimed
<1>6. a = i
  BY <1>3, <1>4, <1>5 DEF Alike, DistinctNames
<1>7. PICK j \in 1..n : h.fwds[j].sub = h.subs[i].name
  BY <1>4 DEF Linked, Served, Alike
<1>8. j \in DOMAIN c.fwds /\ j # m /\ j < m
  <2>1. m \notin 1..n
    BY DEF m
  <2>2. QED
    BY <1>2, <2>1
<1>9. c.fwds[j].sub # c.fwds[m].sub
  BY <1>1, <1>3, <1>8 DEF Proper, Unshared, Free
<1>10. Free(c.fwds[j]) /\ c.fwds[j].proto = "tcp"
  BY <1>3, <1>7, <1>8, <1>9 DEF Tracks
<1>11. PICK b \in DOMAIN h.subs : h.fwds[j] = Access(h.subs[b])
  <2>1. ~Free(h.fwds[j])
    BY <1>3, <1>7 DEF Free
  <2>2. QED
    BY <2>1 DEF Linked, Marked
<1>12. h.subs[b].name = h.subs[i].name /\ h.fwds[j].target = Local(h.subs[b])
  BY <1>7, <1>11 DEF Access, Fwd
<1>13. b = i
  BY <1>4, <1>12 DEF Alike, DistinctNames
<1>14. c.fwds[j].target = Local(c.subs[i])
  BY <1>4, <1>8, <1>12, <1>13 DEF Alike, Local
<1>15. QED
  BY <1>3, <1>5, <1>6, <1>8, <1>10, <1>14 DEF Proper, Prior

LEMMA TracksNext ==
    ASSUME NEW c \in Configuration, DistinctNames(c.subs), Proper(c),
           NEW n \in Nat, n + 1 \in DOMAIN c.fwds,
           NEW h, Tracks(c, h, n), Linked(h, n)
    PROVE  Tracks(c, LinkOne(h, n + 1), n + 1) /\ Linked(LinkOne(h, n + 1), n + 1)
<1> DEFINE m == n + 1
           e == LinkOne(h, m)
           f == h.fwds[m]
<1>1. Alike(c, h) /\ Flags(h) /\ h \in Configuration
  BY DEF Tracks, Alike
<1>2. m \in DOMAIN c.fwds /\ m \in DOMAIN h.fwds /\ n + 1 \in DOMAIN h.fwds
  BY <1>1 DEF Alike
<1>3. f = c.fwds[m]
  <2>1. m > n
    OBVIOUS
  <2>2. QED
    BY <1>2, <2>1 DEF Tracks
<1>4. \A k \in DOMAIN c.fwds : k > m => k > n /\ k # m
  BY ConfigFacts
<1>5. DistinctNames(h.subs)
  BY <1>1 DEF Alike, DistinctNames
<1>6. CASE \E i \in DOMAIN h.subs :
             /\ ~h.subs[i].expose /\ e = Expose(h, m, i, h.subs[i].name)
             /\ \/ f.sub = h.subs[i].name
                \/ f.sub = None /\ f.proto = "tcp" /\ f.target = Local(h.subs[i])
  <2>1. PICK i \in DOMAIN h.subs :
             /\ ~h.subs[i].expose /\ e = Expose(h, m, i, h.subs[i].name)
             /\ \/ f.sub = h.subs[i].name
                \/ f.sub = None /\ f.proto = "tcp" /\ f.target = Local(h.subs[i])
    BY <1>6
  <2>2. h.subs[i].name \in Name \cup {None} /\ h.subs[i].name # None
    BY <1>1, ConfigFacts DEF SubDevice
  <2>3. f.proto = "tcp" /\ f.target = Local(h.subs[i])
    <3>1. CASE f.sub = h.subs[i].name
      <4>1. PICK a \in DOMAIN c.subs :
              f.sub = c.subs[a].name /\ f.proto = "tcp" /\ f.target = Local(c.subs[a])
        BY <1>2, <1>3, <2>2, <3>1 DEF Proper, Aimed, Free
      <4>2. a = i
        BY <1>1, <3>1, <4>1 DEF Alike, DistinctNames
      <4>3. QED
        BY <1>1, <4>1, <4>2 DEF Alike, Local
    <3>2. QED
      BY <2>1, <3>1
  <2> HIDE DEF e, f, m
  <2>4. Exposes(h, e, m, i, h.subs[i].name)
    BY <1>1, <1>2, <2>1, <2>2, ExposeFacts
  <2>5. Linked(e, m)
    BY <1>1, <1>2, <1>5, <2>1, <2>3, <2>4, StepLinks DEF m, f
  <2>6. Alike(h, e) /\ Alike(c, e)
    BY <1>1, <2>4, AlikeTrans DEF Exposes
  <2>7. Flags(e)
    BY <1>1, <1>2, LinkTyped DEF e
  <2>8. \A k \in DOMAIN c.fwds \ {m} : e.fwds[k] = h.fwds[k]
    BY <1>1, <2>4 DEF Exposes, Alike
  <2>9. \A k \in DOMAIN c.fwds : k > m => e.fwds[k] = c.fwds[k]
    BY <1>4, <2>8 DEF Tracks
  <2>10. e.fwds[m].sub = c.fwds[m].sub \/ (Free(c.fwds[m]) /\ c.fwds[m].proto = "tcp")
    BY <1>3, <2>1, <2>4 DEF Exposes, Free
  <2>11. Tracks(c, e, m)
    BY <2>6, <2>7, <2>8, <2>9, <2>10 DEF Tracks
  <2>12. QED
    BY <2>5, <2>11 DEF e, m
<1>7. CASE f.sub # None /\ e = Dropped(h, m)
  <2>1. PICK a \in DOMAIN c.subs : f.sub = c.subs[a].name
    BY <1>2, <1>3, <1>7 DEF Proper, Aimed, Free
  <2>2. h.subs[a].name = f.sub /\ a \in DOMAIN h.subs
    BY <1>1, <2>1 DEF Alike
  <2>3. (\E i \in DOMAIN h.subs : h.subs[i].name = f.sub /\ h.subs[i].expose) => FALSE
    BY <1>1, <1>3, <1>7, NeverDropped DEF Alike, Free
  <2>4. PICK i \in DOMAIN h.subs :
          /\ ~h.subs[i].expose /\ e = Expose(h, m, i, h.subs[i].name)
          /\ \/ f.sub = h.subs[i].name
             \/ f.sub = None /\ f.proto = "tcp" /\ f.target = Local(h.subs[i])
    BY <1>1, <1>2, <1>7, <2>2, <2>3, LinkCases
  <2>5. QED
    BY <1>6, <2>4
<1>8. CASE /\ f.sub = None /\ e = h
           /\ f.proto = "tcp" =>
                \A i \in DOMAIN h.subs : f.target = Local(h.subs[i]) => h.subs[i].expose
  <2>1. Linked(h, m)
    BY <1>1, <1>2, <1>8, StepLeaves DEF Free
  <2>2. Tracks(c, h, m)
    BY <1>4 DEF Tracks
  <2>3. QED
    BY <1>8, <2>1, <2>2
<1>9. QED
  BY <1>1, <1>2, <1>6, <1>7, <1>8, LinkCases

LEMMA Settles ==
    ASSUME NEW c \in Configuration, DistinctNames(c.subs), Proper(c)
    PROVE  Tracks(c, normalize(c), Len(c.fwds)) /\ Settled(normalize(c))
<1> DEFINE u == unlinked(c)
           n == Len(c.fwds)
<1>1. n \in Nat /\ DOMAIN c.fwds = 1..n
  BY ConfigFacts
<1> HIDE DEF u, n
<1>2. /\ Alike(c, u) /\ Flags(u) /\ u.fwds = c.fwds
      /\ \A i \in DOMAIN c.subs : u.subs[i].expose = FALSE
  BY UnlinkedFacts DEF u
<1>3. PICK h : Steps(h, u, n) /\ normalize(c) = h[n]
  BY <1>1, <1>2, PassIs DEF normalize, u, n
<1> DEFINE T == {k \in Nat : k <= n => Tracks(c, h[k], k) /\ Linked(h[k], k)}
<1>4. 0 \in T
  <2>1. h[0] = u
    BY <1>3 DEF Steps
  <2>2. Tracks(c, u, 0)
    BY <1>2 DEF Tracks
  <2>3. Linked(u, 0)
    <3>1. 1..0 = {}
      OBVIOUS
    <3>2. DOMAIN u.subs = DOMAIN c.subs
      BY <1>2 DEF Alike
    <3>3. QED
      BY <1>2, <3>1, <3>2 DEF Linked, Marked, Served, Late, Unshared
  <2>4. QED
    BY <2>1, <2>2, <2>3
<1>5. ASSUME NEW k \in Nat, k \in T PROVE k + 1 \in T
  <2>1. SUFFICES ASSUME k + 1 <= n PROVE Tracks(c, h[k + 1], k + 1) /\ Linked(h[k + 1], k + 1)
    OBVIOUS
  <2>2. Tracks(c, h[k], k) /\ Linked(h[k], k)
    BY <1>1, <1>5, <2>1
  <2>3. k + 1 \in 1..n /\ (k + 1) - 1 = k
    BY <1>1, <2>1
  <2>4. h[k + 1] = LinkOne(h[k], k + 1)
    BY <1>3, <2>3 DEF Steps
  <2>5. QED
    BY <1>1, <2>2, <2>3, <2>4, TracksNext
<1>6. n \in T
  <2> HIDE DEF T
  <2>1. QED
    BY <1>1, <1>4, <1>5, Induction
<1>7. Tracks(c, normalize(c), n) /\ Linked(normalize(c), n)
  BY <1>1, <1>3, <1>6
<1>8. Len(normalize(c).fwds) = n
  <2>1. Alike(c, normalize(c))
    BY <1>7 DEF Tracks
  <2>2. normalize(c) \in Configuration /\ DOMAIN normalize(c).fwds = DOMAIN c.fwds
    BY <2>1 DEF Alike
  <2>3. Len(normalize(c).fwds) \in Nat /\ DOMAIN normalize(c).fwds = 1..Len(normalize(c).fwds)
    BY <2>2, ConfigFacts
  <2>4. QED
    BY <1>1, <2>2, <2>3
<1>9. QED
  BY <1>7, <1>8 DEF Tracks, Settled, n

-----------------------------------------------------------------------------
(* A settled configuration is what normalize makes of it.                  *)

LEMMA AccessFacts ==
    ASSUME NEW sd \in SubDevice
    PROVE  /\ Access(sd).sub = sd.name /\ Access(sd).proto = "tcp"
           /\ Access(sd).target = Local(sd) /\ ~Free(Access(sd))
           /\ Access(sd).listen = IF sd.listen = 0 THEN sd.port ELSE sd.listen
           /\ Access(sd) \in Forward /\ Access(sd).listen # 0
BY DEF Access, Fwd, Free, SubDevice, Forward, Proto, Target, Local

LEMMA SettledProper ==
    ASSUME NEW c \in Configuration, Settled(c)
    PROVE  Proper(c)
<1>1. /\ DOMAIN c.fwds = 1..Len(c.fwds) /\ Len(c.fwds) \in Nat
      /\ \A i \in DOMAIN c.subs : c.subs[i] \in SubDevice
  BY ConfigFacts
<1>2. \A k \in DOMAIN c.fwds : ~Free(c.fwds[k]) =>
        \E i \in DOMAIN c.subs : c.fwds[k] = Access(c.subs[i])
  BY <1>1 DEF Settled, Linked, Marked
<1>3. Aimed(c)
  BY <1>1, <1>2, AccessFacts DEF Aimed
<1>4. Prior(c)
  <2>1. SUFFICES ASSUME NEW j \in DOMAIN c.fwds, NEW k \in DOMAIN c.fwds, j < k,
                        Free(c.fwds[j]), c.fwds[j].proto = "tcp", ~Free(c.fwds[k]),
                        c.fwds[j].target = c.fwds[k].target
                 PROVE  FALSE
    BY DEF Prior
  <2>2. PICK i \in DOMAIN c.subs : c.fwds[k] = Access(c.subs[i])
    BY <1>2, <2>1
  <2>3. c.fwds[j].target = Local(c.subs[i]) /\ c.fwds[k].sub = c.subs[i].name
    BY <1>1, <2>1, <2>2, AccessFacts
  <2>4. PICK l \in 1..(j - 1) : c.fwds[l].sub = c.subs[i].name
    BY <1>1, <2>1, <2>3 DEF Settled, Linked, Late
  <2>5. l \in 1..Len(c.fwds) /\ l # k
    BY <1>1, <2>1
  <2>6. QED
    BY <1>1, <2>1, <2>3, <2>4, <2>5 DEF Settled, Linked, Unshared
<1>5. QED
  BY <1>3, <1>4 DEF Settled, Linked, Proper

\* Of two sequences: of one length and with the same elements, they are equal.
LEMMA SameSeq ==
    ASSUME NEW S, NEW s \in Seq(S), NEW t \in Seq(S), DOMAIN t = DOMAIN s,
           \A i \in DOMAIN s : t[i] = s[i]
    PROVE  t = s
<1>1. s \in [DOMAIN s -> S] /\ t \in [DOMAIN s -> S]
  BY SeqFacts
<1>2. QED
  BY <1>1

LEMMA SameConfig ==
    ASSUME NEW c \in Configuration, NEW d, Alike(c, d),
           \A k \in DOMAIN c.fwds : d.fwds[k].sub = c.fwds[k].sub,
           \A i \in DOMAIN c.subs :
             d.subs[i].expose = c.subs[i].expose /\ d.subs[i].listen = c.subs[i].listen
    PROVE  d = c
<1>1. d \in Configuration /\ DOMAIN d.fwds = DOMAIN c.fwds /\ DOMAIN d.subs = DOMAIN c.subs
  BY DEF Alike
<1>2. \A k \in DOMAIN c.fwds : d.fwds[k] = c.fwds[k]
  <2>1. TAKE k \in DOMAIN c.fwds
  <2>2. d.fwds[k] \in Forward /\ c.fwds[k] \in Forward
    BY <1>1, ConfigFacts
  <2>3. QED
    BY <2>2 DEF Forward, Alike
<1>3. \A i \in DOMAIN c.subs : d.subs[i] = c.subs[i]
  <2>1. TAKE i \in DOMAIN c.subs
  <2>2. d.subs[i] \in SubDevice /\ c.subs[i] \in SubDevice
    BY <1>1, ConfigFacts
  <2>3. QED
    BY <2>2 DEF SubDevice, Alike
<1>4. d.fwds = c.fwds
  BY <1>1, <1>2, ConfigFacts, SameSeq
<1>5. d.subs = c.subs
  BY <1>1, <1>3, ConfigFacts, SameSeq
<1>6. QED
  BY <1>1, <1>4, <1>5 DEF Configuration

\* The exposed sub-devices are those that some marker names.
LEMMA ExposedNamed ==
    ASSUME NEW c \in Configuration, DistinctNames(c.subs), Settled(c), NEW i \in DOMAIN c.subs
    PROVE  c.subs[i].expose <=> \E k \in DOMAIN c.fwds : c.fwds[k].sub = c.subs[i].name
<1>1. /\ DOMAIN c.fwds = 1..Len(c.fwds)
      /\ \A j \in DOMAIN c.subs : c.subs[j] \in SubDevice
  BY ConfigFacts
<1>2. ASSUME NEW k \in DOMAIN c.fwds, c.fwds[k].sub = c.subs[i].name
      PROVE  c.subs[i].expose
  <2>1. ~Free(c.fwds[k])
    BY <1>1, <1>2 DEF Free, SubDevice
  <2>2. PICK j \in DOMAIN c.subs : c.subs[j].expose /\ c.fwds[k] = Access(c.subs[j])
    BY <1>1, <2>1 DEF Settled, Linked, Marked
  <2>3. c.subs[j].name = c.subs[i].name
    BY <1>1, <1>2, <2>2, AccessFacts
  <2>4. QED
    BY <2>2, <2>3 DEF DistinctNames
<1>3. QED
  BY <1>1, <1>2 DEF Settled, Linked, Served

\* The access of an exposed sub-device is in the list, and listens at its port.
LEMMA ExposedServed ==
    ASSUME NEW c \in Configuration, DistinctNames(c.subs), Settled(c),
           NEW i \in DOMAIN c.subs, c.subs[i].expose
    PROVE  \E k \in DOMAIN c.fwds : c.fwds[k] = Access(c.subs[i])
<1>1. /\ DOMAIN c.fwds = 1..Len(c.fwds)
      /\ \A j \in DOMAIN c.subs : c.subs[j] \in SubDevice
  BY ConfigFacts
<1>2. PICK k \in DOMAIN c.fwds : c.fwds[k].sub = c.subs[i].name
  BY ExposedNamed
<1>3. ~Free(c.fwds[k])
  BY <1>1, <1>2 DEF Free, SubDevice
<1>4. PICK j \in DOMAIN c.subs : c.fwds[k] = Access(c.subs[j])
  BY <1>1, <1>3 DEF Settled, Linked, Marked
<1>5. c.subs[j].name = c.subs[i].name
  BY <1>1, <1>2, <1>4, AccessFacts
<1>6. j = i
  BY <1>5 DEF DistinctNames
<1>7. QED
  BY <1>4, <1>6

LEMMA SettledStays ==
    ASSUME NEW c \in Configuration, DistinctNames(c.subs), Settled(c)
    PROVE  normalize(c) = c
<1> DEFINE d == normalize(c)
<1> HIDE DEF d
<1>1. Proper(c)
  BY SettledProper
<1>2. Tracks(c, d, Len(c.fwds)) /\ Settled(d)
  BY <1>1, Settles DEF d
<1>3. Alike(c, d) /\ d \in Configuration /\ DistinctNames(d.subs)
  BY <1>2 DEF Tracks, Alike, DistinctNames
<1>4. /\ DOMAIN c.fwds = 1..Len(c.fwds) /\ DOMAIN d.fwds = 1..Len(d.fwds)
      /\ Len(c.fwds) \in Nat /\ DOMAIN d.fwds = DOMAIN c.fwds
      /\ DOMAIN d.subs = DOMAIN c.subs
      /\ \A i \in DOMAIN d.subs : d.subs[i] \in SubDevice
      /\ \A i \in DOMAIN c.subs : c.subs[i] \in SubDevice
      /\ \A i \in DOMAIN c.subs : d.subs[i].name = c.subs[i].name /\ Local(d.subs[i]) = Local(c.subs[i])
  BY <1>3, ConfigFacts DEF Alike, Local
<1>5. ASSUME NEW k \in DOMAIN c.fwds PROVE d.fwds[k].sub = c.fwds[k].sub
  <2>1. SUFFICES ASSUME d.fwds[k].sub # c.fwds[k].sub PROVE FALSE
    OBVIOUS
  <2>2. Free(c.fwds[k]) /\ c.fwds[k].proto = "tcp"
    BY <1>2, <2>1 DEF Tracks
  <2>3. ~Free(d.fwds[k])
    BY <2>1, <2>2 DEF Free
  <2>4. PICK i \in DOMAIN d.subs : d.fwds[k] = Access(d.subs[i])
    BY <1>2, <1>4, <2>3 DEF Settled, Linked, Marked
  <2>5. d.fwds[k].sub = c.subs[i].name /\ d.fwds[k].target = Local(c.subs[i])
    BY <1>4, <2>4, AccessFacts
  <2>6. c.fwds[k].target = Local(c.subs[i])
    BY <1>3, <2>5 DEF Alike
  <2>7. PICK l \in 1..(k - 1) : c.fwds[l].sub = c.subs[i].name
    BY <1>4, <2>2, <2>6 DEF Settled, Linked, Late
  <2>8. l \in DOMAIN c.fwds /\ l # k
    BY <1>4, <2>7
  <2>9. ~Free(c.fwds[l])
    BY <1>4, <2>7 DEF Free, SubDevice
  <2>10. d.fwds[l].sub = d.fwds[k].sub
    BY <1>2, <2>5, <2>7, <2>8, <2>9 DEF Tracks
  <2>11. QED
    BY <1>2, <1>4, <2>3, <2>8, <2>10 DEF Settled, Linked, Unshared
<1>6. ASSUME NEW i \in DOMAIN c.subs
      PROVE  d.subs[i].expose = c.subs[i].expose /\ d.subs[i].listen = c.subs[i].listen
  <2>1. d.subs[i].expose <=> c.subs[i].expose
    <3>1. d.subs[i].expose <=> \E k \in DOMAIN d.fwds : d.fwds[k].sub = d.subs[i].name
      BY <1>2, <1>3, <1>4, ExposedNamed
    <3>2. c.subs[i].expose <=> \E k \in DOMAIN c.fwds : c.fwds[k].sub = c.subs[i].name
      BY ExposedNamed
    <3>3. QED
      BY <1>4, <1>5, <3>1, <3>2
  <2>2. d.subs[i].expose = c.subs[i].expose
    <3>1. d.subs[i].expose \in BOOLEAN /\ c.subs[i].expose \in BOOLEAN
      BY <1>4 DEF SubDevice
    <3>2. QED
      BY <2>1, <3>1
  <2>3. CASE c.subs[i].expose
    <3>1. PICK k \in DOMAIN c.fwds : c.fwds[k] = Access(c.subs[i])
      BY <2>3, ExposedServed
    <3>2. PICK l \in DOMAIN d.fwds : d.fwds[l] = Access(d.subs[i])
      BY <1>2, <1>3, <1>4, <2>1, <2>3, ExposedServed
    <3>3. /\ c.fwds[k].sub = c.subs[i].name /\ d.fwds[l].sub = c.subs[i].name
          /\ c.fwds[k].listen = IF c.subs[i].listen = 0 THEN c.subs[i].port ELSE c.subs[i].listen
          /\ d.fwds[l].listen = IF d.subs[i].listen = 0 THEN d.subs[i].port ELSE d.subs[i].listen
      BY <1>4, <3>1, <3>2, AccessFacts
    <3>4. k = l
      <4>1. c.fwds[l].sub = c.fwds[k].sub
        BY <1>4, <1>5, <3>3
      <4>2. ~Free(c.fwds[k])
        BY <1>4, <3>1, AccessFacts
      <4>3. QED
        BY <1>4, <4>1, <4>2 DEF Settled, Linked, Unshared
    <3>5. d.fwds[l].listen = c.fwds[k].listen
      BY <1>3, <3>4 DEF Alike
    <3>6. c.subs[i].listen # 0 /\ d.subs[i].listen # 0
      BY <1>2, <1>4, <2>1, <2>3 DEF Settled, Flags
    <3>7. QED
      BY <2>2, <3>3, <3>5, <3>6
  <2>4. CASE ~c.subs[i].expose
    BY <1>2, <1>4, <2>1, <2>2, <2>4 DEF Settled, Flags
  <2>5. QED
    BY <2>3, <2>4
<1>7. d = c
  BY <1>3, <1>5, <1>6, SameConfig
<1>8. QED
  BY <1>7 DEF d

\* normalize is idempotent on what enrols and on what buildForwards returns. (It is not on
\* any list of forwards: a marker that is dropped may leave a tcp forward that the next
\* call links to another sub-device.)
THEOREM NormalizeTwice ==
    ASSUME NEW c \in Configuration, DistinctNames(c.subs), Proper(c)
    PROVE  normalize(normalize(c)) = normalize(c)
<1> DEFINE d == normalize(c)
<1> HIDE DEF d
<1>1. Tracks(c, d, Len(c.fwds)) /\ Settled(d)
  BY Settles DEF d
<1>2. d \in Configuration /\ DistinctNames(d.subs)
  BY <1>1 DEF Tracks, Alike, DistinctNames
<1>3. QED
  BY <1>1, <1>2, SettledStays DEF d

-----------------------------------------------------------------------------
(* buildForwards.                                                          *)

LEMMA OpenedFacts ==
    ASSUME NEW sd \in SubDevice
    PROVE  /\ Opened(sd) \in SubDevice
           /\ Opened(sd).name = sd.name /\ Opened(sd).ip = sd.ip /\ Opened(sd).port = sd.port
           /\ Opened(sd).expose = sd.expose
           /\ Opened(sd).expose <=> Opened(sd).listen # 0
           /\ (sd.expose <=> sd.listen # 0) => Opened(sd) = sd
<1> DEFINE l == IF sd.expose THEN Access(sd).listen ELSE 0
           e == Opened(sd)
<1>1. l \in Port \cup {0} /\ (sd.expose <=> l # 0) /\ ((sd.expose <=> sd.listen # 0) => l = sd.listen)
  <2>1. /\ sd.expose \in BOOLEAN /\ Access(sd).listen \in Port /\ Access(sd).listen # 0
        /\ Access(sd).listen = IF sd.listen = 0 THEN sd.port ELSE sd.listen
    BY AccessFacts DEF Forward, SubDevice
  <2>2. QED
    BY <2>1
<1>2. e = [sd EXCEPT !.listen = l]
  BY DEF Opened
<1> HIDE DEF l, e
<1>3. e = [name |-> sd.name, ip |-> sd.ip, port |-> sd.port, expose |-> sd.expose, listen |-> l]
  BY <1>2 DEF SubDevice
<1>4. sd = [name |-> sd.name, ip |-> sd.ip, port |-> sd.port, expose |-> sd.expose, listen |-> sd.listen]
  BY DEF SubDevice
<1>5. e \in SubDevice
  BY <1>1, <1>3 DEF SubDevice
<1>6. (sd.expose <=> sd.listen # 0) => e = sd
  BY <1>1, <1>3, <1>4
<1>7. QED
  BY <1>1, <1>3, <1>5, <1>6 DEF e

\* In b the first m forwards are the accesses of the exposed sub-devices of c, in the order
\* of g; the others are the free forwards of c, in the order of f.
Lists(c, b, m, g, f) ==
    /\ m \in 0..Len(b.fwds)
    /\ \A k \in 1..m :
         /\ g[k] \in DOMAIN c.subs /\ c.subs[g[k]].expose
         /\ b.fwds[k] = Access(c.subs[g[k]])
    /\ \A j, k \in 1..m : g[j] = g[k] => j = k
    /\ \A i \in DOMAIN c.subs : c.subs[i].expose => \E k \in 1..m : g[k] = i
    /\ \A k \in (m + 1)..Len(b.fwds) :
         /\ f[k] \in DOMAIN c.fwds /\ Free(c.fwds[f[k]])
         /\ b.fwds[k] = c.fwds[f[k]]
    /\ \A j, k \in (m + 1)..Len(b.fwds) : f[j] = f[k] => j = k
    /\ \A i \in DOMAIN c.fwds : Free(c.fwds[i]) => \E k \in (m + 1)..Len(b.fwds) : f[k] = i

LEMMA AccessesFacts ==
    ASSUME NEW c \in Configuration
    PROVE  /\ Accesses(c) \in Seq(Forward) /\ Len(Accesses(c)) \in Nat
           /\ \E g : LET m == Len(Accesses(c)) IN
                /\ \A k \in 1..m :
                     /\ g[k] \in DOMAIN c.subs /\ c.subs[g[k]].expose
                     /\ Accesses(c)[k] = Access(c.subs[g[k]])
                /\ \A j, k \in 1..m : g[j] = g[k] => j = k
                /\ \A i \in DOMAIN c.subs : c.subs[i].expose => \E k \in 1..m : g[k] = i
<1> DEFINE s == [i \in DOMAIN c.subs |-> Access(c.subs[i])]
           J == {i \in DOMAIN c.subs : c.subs[i].expose}
<1>1. /\ Len(c.subs) \in Nat /\ DOMAIN c.subs = 1..Len(c.subs)
      /\ \A i \in DOMAIN c.subs : Access(c.subs[i]) \in Forward
  BY ConfigFacts, AccessFacts
<1>2. s \in [1..Len(c.subs) -> Forward]
  BY <1>1
<1>3. DOMAIN s = DOMAIN c.subs /\ \A i \in DOMAIN c.subs : s[i] = Access(c.subs[i])
  OBVIOUS
<1>4. Accesses(c) = Kept(s, J)
  BY DEF Accesses
<1> HIDE DEF s
<1>5. s \in Seq(Forward)
  BY <1>1, <1>2, FunSeq
<1>6. J \in SUBSET (DOMAIN s)
  BY <1>3
<1> HIDE DEF J
<1>7. PICK g : Accesses(c) \in Seq(Forward) /\ Picks(g, Accesses(c), s, J)
  BY <1>4, <1>5, <1>6, KeptPicks
<1>8. Len(Accesses(c)) \in Nat
  BY <1>7, LenProperties
<1>9. QED
  BY <1>3, <1>7, <1>8 DEF Picks, J

LEMMA FreeForwardsFacts ==
    ASSUME NEW c \in Configuration
    PROVE  /\ FreeForwards(c) \in Seq(Forward) /\ Len(FreeForwards(c)) \in Nat
           /\ \E g : LET n == Len(FreeForwards(c)) IN
                /\ \A k \in 1..n :
                     /\ g[k] \in DOMAIN c.fwds /\ Free(c.fwds[g[k]])
                     /\ FreeForwards(c)[k] = c.fwds[g[k]]
                /\ \A j, k \in 1..n : g[j] = g[k] => j = k
                /\ \A i \in DOMAIN c.fwds : Free(c.fwds[i]) => \E k \in 1..n : g[k] = i
<1> DEFINE J == {k \in DOMAIN c.fwds : Free(c.fwds[k])}
<1>1. c.fwds \in Seq(Forward) /\ J \in SUBSET (DOMAIN c.fwds)
  BY ConfigFacts
<1>2. FreeForwards(c) = Kept(c.fwds, J)
  BY DEF FreeForwards
<1> HIDE DEF J
<1>3. PICK g : FreeForwards(c) \in Seq(Forward) /\ Picks(g, FreeForwards(c), c.fwds, J)
  BY <1>1, <1>2, KeptPicks
<1>4. Len(FreeForwards(c)) \in Nat
  BY <1>3, LenProperties
<1>5. QED
  BY <1>3, <1>4 DEF Picks, J

LEMMA BuiltTyped ==
    ASSUME NEW c \in Configuration
    PROVE  LET b == buildForwards(c) IN
             /\ b \in Configuration /\ Flags(b) /\ DOMAIN b.subs = DOMAIN c.subs
             /\ b.fwds = Accesses(c) \o FreeForwards(c)
             /\ \A i \in DOMAIN c.subs :
                  /\ b.subs[i] = Opened(c.subs[i])
                  /\ b.subs[i].name = c.subs[i].name /\ Local(b.subs[i]) = Local(c.subs[i])
<1> DEFINE s == [i \in DOMAIN c.subs |-> Opened(c.subs[i])]
           t == Accesses(c) \o FreeForwards(c)
           b == buildForwards(c)
<1>1. /\ Len(c.subs) \in Nat /\ DOMAIN c.subs = 1..Len(c.subs)
      /\ \A i \in DOMAIN c.subs : c.subs[i] \in SubDevice
  BY ConfigFacts
<1>2. \A i \in DOMAIN c.subs :
        /\ Opened(c.subs[i]) \in SubDevice /\ Opened(c.subs[i]).name = c.subs[i].name
        /\ Local(Opened(c.subs[i])) = Local(c.subs[i])
        /\ Opened(c.subs[i]).expose <=> Opened(c.subs[i]).listen # 0
  BY <1>1, OpenedFacts DEF Local
<1>3. s \in [1..Len(c.subs) -> SubDevice]
  BY <1>1, <1>2
<1>4. DOMAIN s = DOMAIN c.subs /\ \A i \in DOMAIN c.subs : s[i] = Opened(c.subs[i])
  OBVIOUS
<1>5. b = [c EXCEPT !.subs = s, !.fwds = t]
  BY DEF buildForwards
<1> HIDE DEF s, t, b
<1>6. b = [subs |-> s, fwds |-> t] /\ b.subs = s /\ b.fwds = t
  BY <1>5 DEF Configuration
<1>7. s \in Seq(SubDevice)
  BY <1>1, <1>3, FunSeq
<1>8. t \in Seq(Forward)
  BY AccessesFacts, FreeForwardsFacts, ConcatProperties DEF t
<1>9. b \in Configuration
  BY <1>6, <1>7, <1>8 DEF Configuration
<1>10. QED
  BY <1>2, <1>4, <1>6, <1>9 DEF Flags, b, t

LEMMA BuiltLists ==
    ASSUME NEW c \in Configuration
    PROVE  \E m, g, f : Lists(c, buildForwards(c), m, g, f)
<1> DEFINE a == Accesses(c)
           r == FreeForwards(c)
           b == buildForwards(c)
           m == Len(a)
           n == Len(r)
<1>1. b.fwds = a \o r
  BY BuiltTyped
<1>2. a \in Seq(Forward) /\ r \in Seq(Forward) /\ m \in Nat /\ n \in Nat
  BY AccessesFacts, FreeForwardsFacts
<1>3. PICK g : /\ \A k \in 1..m :
                    /\ g[k] \in DOMAIN c.subs /\ c.subs[g[k]].expose
                    /\ a[k] = Access(c.subs[g[k]])
               /\ \A j, k \in 1..m : g[j] = g[k] => j = k
               /\ \A i \in DOMAIN c.subs : c.subs[i].expose => \E k \in 1..m : g[k] = i
  BY AccessesFacts
<1>4. PICK h : /\ \A k \in 1..n :
                    /\ h[k] \in DOMAIN c.fwds /\ Free(c.fwds[h[k]])
                    /\ r[k] = c.fwds[h[k]]
               /\ \A j, k \in 1..n : h[j] = h[k] => j = k
               /\ \A i \in DOMAIN c.fwds : Free(c.fwds[i]) => \E k \in 1..n : h[k] = i
  BY FreeForwardsFacts
<1>5. /\ Len(b.fwds) = m + n
      /\ \A k \in 1..(m + n) : b.fwds[k] = IF k <= m THEN a[k] ELSE r[k - m]
  <2> HIDE DEF a, r, b
  <2>1. QED
    BY <1>1, <1>2, ConcatProperties
<1> HIDE DEF a, r, b, m, n
<1> DEFINE f == [k \in (m + 1)..(m + n) |-> h[k - m]]
<1>6. \A k \in (m + 1)..(m + n) :
        k - m \in 1..n /\ k \in 1..(m + n) /\ ~(k <= m) /\ f[k] = h[k - m]
  BY <1>2
<1>7. \A k \in 1..m : k \in 1..(m + n) /\ k <= m
  BY <1>2
<1> HIDE DEF f
<1>8. \A k \in 1..m : /\ g[k] \in DOMAIN c.subs /\ c.subs[g[k]].expose
                      /\ b.fwds[k] = Access(c.subs[g[k]])
  BY <1>3, <1>5, <1>7
<1>9. \A k \in (m + 1)..Len(b.fwds) : /\ f[k] \in DOMAIN c.fwds /\ Free(c.fwds[f[k]])
                                      /\ b.fwds[k] = c.fwds[f[k]]
  BY <1>4, <1>5, <1>6
<1>10. \A j, k \in (m + 1)..Len(b.fwds) : f[j] = f[k] => j = k
  <2>1. SUFFICES ASSUME NEW j \in (m + 1)..(m + n), NEW k \in (m + 1)..(m + n), f[j] = f[k]
                 PROVE  j = k
    BY <1>5
  <2>2. j - m = k - m
    BY <1>4, <1>6, <2>1
  <2>3. QED
    BY <1>2, <2>2
<1>11. ASSUME NEW i \in DOMAIN c.fwds, Free(c.fwds[i])
       PROVE  \E k \in (m + 1)..Len(b.fwds) : f[k] = i
  <2>1. PICK p \in 1..n : h[p] = i
    BY <1>4, <1>11
  <2>2. m + p \in (m + 1)..(m + n) /\ (m + p) - m = p
    BY <1>2
  <2>3. QED
    BY <1>5, <1>6, <2>1, <2>2
<1>12. m \in 0..Len(b.fwds)
  BY <1>2, <1>5
<1>13. Lists(c, b, m, g, f)
  BY <1>3, <1>8, <1>9, <1>10, <1>11, <1>12 DEF Lists
<1>14. QED
  BY <1>13 DEF b

\* The first m forwards are marked, with the names of sub-devices that differ.
LEMMA ListsSplit ==
    ASSUME NEW c \in Configuration, NEW b \in Configuration,
           NEW m, NEW g, NEW f, Lists(c, b, m, g, f)
    PROVE  /\ \A k \in DOMAIN b.fwds : k \in 1..m \/ k \in (m + 1)..Len(b.fwds)
           /\ \A k \in DOMAIN b.fwds : ~Free(b.fwds[k]) <=> k \in 1..m
           /\ \A k \in 1..m :
                /\ k \in DOMAIN b.fwds
                /\ b.fwds[k].sub = c.subs[g[k]].name /\ b.fwds[k].proto = "tcp"
                /\ b.fwds[k].target = Local(c.subs[g[k]])
           /\ \A k \in (m + 1)..Len(b.fwds) : k \in DOMAIN b.fwds /\ k \notin 1..m
           /\ m \in Nat
<1>1. /\ DOMAIN b.fwds = 1..Len(b.fwds) /\ Len(b.fwds) \in Nat
      /\ \A i \in DOMAIN c.subs : c.subs[i] \in SubDevice
  BY ConfigFacts
<1>2. m \in Nat /\ m <= Len(b.fwds)
  BY <1>1 DEF Lists
<1>3. \A k \in DOMAIN b.fwds : k \in 1..m \/ k \in (m + 1)..Len(b.fwds)
  BY <1>1, <1>2
<1>4. \A k \in (m + 1)..Len(b.fwds) : k \in DOMAIN b.fwds /\ k \notin 1..m
  BY <1>1, <1>2
<1>5. \A k \in 1..m : k \in DOMAIN b.fwds
  BY <1>1, <1>2
<1>6. \A k \in 1..m :
        /\ b.fwds[k].sub = c.subs[g[k]].name /\ b.fwds[k].proto = "tcp"
        /\ b.fwds[k].target = Local(c.subs[g[k]]) /\ ~Free(b.fwds[k])
  BY <1>1, AccessFacts DEF Lists
<1>7. \A k \in (m + 1)..Len(b.fwds) : Free(b.fwds[k])
  BY DEF Lists
<1>8. QED
  BY <1>2, <1>3, <1>4, <1>5, <1>6, <1>7

LEMMA BuiltProper ==
    ASSUME NEW c \in Configuration, DistinctNames(c.subs)
    PROVE  Proper(buildForwards(c))
<1> DEFINE b == buildForwards(c)
<1> HIDE DEF b
<1>1. /\ b \in Configuration /\ DOMAIN b.subs = DOMAIN c.subs
      /\ \A i \in DOMAIN c.subs :
           b.subs[i].name = c.subs[i].name /\ Local(b.subs[i]) = Local(c.subs[i])
  BY BuiltTyped DEF b
<1>2. PICK m, g, f : Lists(c, b, m, g, f)
  BY BuiltLists DEF b
<1>3. /\ \A k \in DOMAIN b.fwds : ~Free(b.fwds[k]) <=> k \in 1..m
      /\ \A k \in 1..m :
           /\ k \in DOMAIN b.fwds
           /\ b.fwds[k].sub = c.subs[g[k]].name /\ b.fwds[k].proto = "tcp"
           /\ b.fwds[k].target = Local(c.subs[g[k]])
      /\ m \in Nat
  BY <1>1, <1>2, ListsSplit
<1>4. DOMAIN b.fwds = 1..Len(b.fwds) /\ Len(b.fwds) \in Nat
  BY <1>1, ConfigFacts
<1>5. Aimed(b)
  BY <1>1, <1>2, <1>3 DEF Aimed, Lists
<1>6. Prior(b)
  <2>1. SUFFICES ASSUME NEW j \in DOMAIN b.fwds, NEW k \in DOMAIN b.fwds,
                        j < k, Free(b.fwds[j]), ~Free(b.fwds[k])
                 PROVE  FALSE
    BY DEF Prior
  <2>2. k \in 1..m /\ j \notin 1..m
    BY <1>3, <2>1
  <2>3. QED
    BY <1>3, <1>4, <2>1, <2>2
<1>7. Unshared(b, Len(b.fwds))
  <2>1. SUFFICES ASSUME NEW j \in DOMAIN b.fwds, NEW k \in DOMAIN b.fwds,
                        ~Free(b.fwds[j]), b.fwds[j].sub = b.fwds[k].sub
                 PROVE  j = k
    BY <1>4 DEF Unshared
  <2>2. j \in 1..m /\ k \in 1..m
    BY <1>3, <2>1 DEF Free
  <2>3. /\ g[j] \in DOMAIN c.subs /\ g[k] \in DOMAIN c.subs
        /\ c.subs[g[j]].name = c.subs[g[k]].name
    BY <1>2, <1>3, <2>1, <2>2 DEF Lists
  <2>4. g[j] = g[k]
    BY <2>3 DEF DistinctNames
  <2>5. QED
    BY <1>2, <2>2, <2>4 DEF Lists
<1>8. QED
  BY <1>5, <1>6, <1>7 DEF Proper, b

LEMMA BuiltSettled ==
    ASSUME NEW c \in Configuration, DistinctNames(c.subs), Settled(c)
    PROVE  buildForwards(c).subs = c.subs /\ Settled(buildForwards(c))
<1> DEFINE b == buildForwards(c)
<1> HIDE DEF b
<1>1. /\ b \in Configuration /\ Flags(b) /\ DOMAIN b.subs = DOMAIN c.subs
      /\ \A i \in DOMAIN c.subs : b.subs[i] = Opened(c.subs[i])
  BY BuiltTyped DEF b
<1>2. /\ DOMAIN b.fwds = 1..Len(b.fwds) /\ Len(b.fwds) \in Nat
      /\ DOMAIN c.fwds = 1..Len(c.fwds)
      /\ \A i \in DOMAIN c.subs : c.subs[i] \in SubDevice
  BY <1>1, ConfigFacts
<1>3. b.subs = c.subs
  <2>1. \A i \in DOMAIN c.subs : b.subs[i] = c.subs[i]
    BY <1>1, <1>2, OpenedFacts DEF Settled, Flags
  <2>2. b.subs \in Seq(SubDevice) /\ c.subs \in Seq(SubDevice)
    BY <1>1, ConfigFacts
  <2>3. QED
    BY <1>1, <2>1, <2>2, SameSeq
<1>4. PICK m, g, f : Lists(c, b, m, g, f)
  BY BuiltLists DEF b
<1>5. /\ \A k \in DOMAIN b.fwds : k \in 1..m \/ k \in (m + 1)..Len(b.fwds)
      /\ \A k \in DOMAIN b.fwds : ~Free(b.fwds[k]) <=> k \in 1..m
      /\ \A k \in 1..m : k \in DOMAIN b.fwds /\ b.fwds[k].sub = c.subs[g[k]].name
      /\ m \in Nat
  BY <1>1, <1>4, ListsSplit
<1>6. Marked(b, Len(b.fwds))
  BY <1>2, <1>3, <1>4, <1>5 DEF Marked, Lists
<1>7. Served(b, Len(b.fwds))
  BY <1>2, <1>3, <1>4, <1>5 DEF Served, Lists
<1>8. Late(b, Len(b.fwds))
  <2>1. SUFFICES ASSUME NEW k \in DOMAIN b.fwds, Free(b.fwds[k]), b.fwds[k].proto = "tcp",
                        NEW i \in DOMAIN c.subs, b.fwds[k].target = Local(c.subs[i])
                 PROVE  \E j \in 1..(k - 1) : b.fwds[j].sub = c.subs[i].name
    BY <1>2, <1>3 DEF Late
  <2>2. k \in (m + 1)..Len(b.fwds)
    BY <1>5, <2>1
  <2>3. f[k] \in DOMAIN c.fwds /\ Free(c.fwds[f[k]]) /\ b.fwds[k] = c.fwds[f[k]]
    BY <1>4, <2>2 DEF Lists
  <2>4. PICK l \in 1..(f[k] - 1) : c.fwds[l].sub = c.subs[i].name
    BY <1>2, <2>1, <2>3 DEF Settled, Linked, Late
  <2>5. l \in DOMAIN c.fwds
    BY <1>2, <2>3, <2>4
  <2>6. c.subs[i].expose
    BY <2>4, <2>5, ExposedNamed
  <2>7. PICK j \in 1..m : g[j] = i
    BY <1>4, <2>6 DEF Lists
  <2>8. j \in 1..(k - 1) /\ b.fwds[j].sub = c.subs[i].name
    BY <1>2, <1>5, <2>2, <2>7
  <2>9. QED
    BY <2>8
<1>9. Unshared(b, Len(b.fwds))
  BY BuiltProper DEF Proper, b
<1>10. QED
  BY <1>1, <1>3, <1>6, <1>7, <1>8, <1>9 DEF Settled, Linked, b

\* The forwards are the same ones, in another order.
LEMMA BuiltFromSettled ==
    ASSUME NEW c \in Configuration, DistinctNames(c.subs), Settled(c)
    PROVE  \E p : LET b == buildForwards(c) IN
             /\ \A k \in DOMAIN b.fwds : p[k] \in DOMAIN c.fwds /\ b.fwds[k] = c.fwds[p[k]]
             /\ \A j, k \in DOMAIN b.fwds : p[j] = p[k] => j = k
             /\ \A i \in DOMAIN c.fwds : \E k \in DOMAIN b.fwds : b.fwds[k] = c.fwds[i]
<1> DEFINE b == buildForwards(c)
<1> HIDE DEF b
<1>1. b \in Configuration
  BY BuiltTyped DEF b
<1>2. PICK m, g, f : Lists(c, b, m, g, f)
  BY BuiltLists DEF b
<1>3. /\ \A k \in DOMAIN b.fwds : k \in 1..m \/ k \in (m + 1)..Len(b.fwds)
      /\ \A k \in DOMAIN b.fwds : ~Free(b.fwds[k]) <=> k \in 1..m
      /\ \A k \in 1..m : k \in DOMAIN b.fwds
      /\ \A k \in (m + 1)..Len(b.fwds) : k \in DOMAIN b.fwds /\ k \notin 1..m
  BY <1>1, <1>2, ListsSplit
<1>4. DOMAIN c.fwds = 1..Len(c.fwds)
  BY ConfigFacts
<1> DEFINE At(i) == CHOOSE l \in DOMAIN c.fwds : c.fwds[l] = Access(c.subs[i])
           p == [k \in DOMAIN b.fwds |-> IF k \in 1..m THEN At(g[k]) ELSE f[k]]
<1>5. \A i \in DOMAIN c.subs : c.subs[i].expose =>
        At(i) \in DOMAIN c.fwds /\ c.fwds[At(i)] = Access(c.subs[i])
  BY ExposedServed
<1> HIDE DEF At
<1>6. /\ \A k \in 1..m : p[k] = At(g[k])
      /\ \A k \in (m + 1)..Len(b.fwds) : p[k] = f[k]
  BY <1>3
<1> HIDE DEF p
<1>7. ASSUME NEW k \in DOMAIN b.fwds
      PROVE  p[k] \in DOMAIN c.fwds /\ b.fwds[k] = c.fwds[p[k]]
  <2>1. CASE k \in 1..m
    BY <1>2, <1>5, <1>6, <2>1 DEF Lists
  <2>2. CASE k \in (m + 1)..Len(b.fwds)
    BY <1>2, <1>6, <2>2 DEF Lists
  <2>3. QED
    BY <1>3, <2>1, <2>2
<1>8. ASSUME NEW j \in DOMAIN b.fwds, NEW k \in DOMAIN b.fwds, p[j] = p[k]
      PROVE  j = k
  <2>1. b.fwds[j] = b.fwds[k]
    BY <1>7, <1>8
  <2>2. CASE j \in 1..m
    <3>1. ~Free(b.fwds[j])
      BY <1>3, <2>2
    <3>2. Unshared(b, Len(b.fwds)) /\ DOMAIN b.fwds = 1..Len(b.fwds)
      BY <1>1, BuiltProper, ConfigFacts DEF Proper, b
    <3>3. QED
      BY <2>1, <3>1, <3>2 DEF Unshared
  <2>3. CASE j \in (m + 1)..Len(b.fwds)
    <3>1. Free(b.fwds[k])
      BY <1>3, <2>1, <2>3
    <3>2. k \in (m + 1)..Len(b.fwds)
      BY <1>3, <3>1
    <3>3. f[j] = f[k]
      BY <1>6, <1>8, <2>3, <3>2
    <3>4. QED
      BY <1>2, <2>3, <3>2, <3>3 DEF Lists
  <2>4. QED
    BY <1>3, <2>2, <2>3
<1>9. ASSUME NEW i \in DOMAIN c.fwds
      PROVE  \E k \in DOMAIN b.fwds : b.fwds[k] = c.fwds[i]
  <2>1. CASE Free(c.fwds[i])
    BY <1>2, <1>3, <2>1 DEF Lists
  <2>2. CASE ~Free(c.fwds[i])
    <3>1. PICK a \in DOMAIN c.subs : c.subs[a].expose /\ c.fwds[i] = Access(c.subs[a])
      BY <1>4, <2>2 DEF Settled, Linked, Marked
    <3>2. QED
      BY <1>2, <1>3, <3>1 DEF Lists
  <2>3. QED
    BY <2>1, <2>2
<1>10. QED
  BY <1>7, <1>8, <1>9 DEF b

-----------------------------------------------------------------------------
(* The invariant. A stored configuration need not be settled, only proper  *)
(* when its names differ: an accepted one is what buildForwards returned,  *)
(* and the portal normalizes it again when it reads it.                    *)

Sound(c) ==
    /\ c \in Configuration /\ Flags(c)
    /\ DistinctPorts(c.fwds)
    /\ DistinctNames(c.subs) => Proper(c)

IInv == TypeOK /\ Sound(stored)

LEMMA AlikeKeeps ==
    ASSUME NEW c \in Configuration, NEW d, Alike(c, d)
    PROVE  /\ DistinctPorts(c.fwds) <=> DistinctPorts(d.fwds)
           /\ DistinctNames(c.subs) <=> DistinctNames(d.subs)
<1>1. DistinctPorts(c.fwds) <=> DistinctPorts(d.fwds)
  <2>1. \A j, k \in DOMAIN c.fwds :
          <<c.fwds[j].proto, c.fwds[j].listen>> = <<c.fwds[k].proto, c.fwds[k].listen>>
            <=> <<d.fwds[j].proto, d.fwds[j].listen>> = <<d.fwds[k].proto, d.fwds[k].listen>>
    BY DEF Alike
  <2>2. DOMAIN d.fwds = DOMAIN c.fwds
    BY DEF Alike
  <2>3. QED
    BY <2>1, <2>2 DEF DistinctPorts
<1>2. DistinctNames(c.subs) <=> DistinctNames(d.subs)
  BY DEF Alike, DistinctNames
<1>3. QED
  BY <1>1, <1>2

LEMMA NormalizeSound ==
    ASSUME NEW c \in Configuration, DistinctPorts(c.fwds), DistinctNames(c.subs) => Proper(c)
    PROVE  Sound(normalize(c))
<1> DEFINE d == normalize(c)
<1> HIDE DEF d
<1>1. Alike(c, d) /\ Flags(d) /\ d \in Configuration
  BY NormalizeTyped DEF d, Alike
<1>2. DistinctPorts(d.fwds) /\ (DistinctNames(d.subs) => DistinctNames(c.subs))
  BY <1>1, AlikeKeeps
<1>3. DistinctNames(c.subs) => Proper(d)
  BY <1>1, Settles, SettledProper DEF d
<1>4. QED
  BY <1>1, <1>2, <1>3 DEF Sound, d

LEMMA BuildSound ==
    ASSUME NEW c \in Configuration, Accepts(buildForwards(c))
    PROVE  Sound(buildForwards(c))
<1> DEFINE b == buildForwards(c)
<1> HIDE DEF b
<1>1. /\ b \in Configuration /\ Flags(b) /\ DOMAIN b.subs = DOMAIN c.subs
      /\ \A i \in DOMAIN c.subs : b.subs[i].name = c.subs[i].name
  BY BuiltTyped DEF b
<1>2. DistinctNames(b.subs) /\ DistinctPorts(b.fwds)
  BY DEF Accepts, b
<1>3. DistinctNames(c.subs)
  BY <1>1, <1>2 DEF DistinctNames
<1>4. Proper(b)
  BY <1>3, BuiltProper DEF b
<1>5. QED
  BY <1>1, <1>2, <1>4 DEF Sound, b

LEMMA SeqUpToTyped ==
    ASSUME NEW S, NEW n \in Nat, NEW s \in SeqUpTo(S, n)
    PROVE  s \in Seq(S)
<1>1. PICK k \in 0..n : s \in [1..k -> S]
  BY DEF SeqUpTo
<1>2. QED
  BY <1>1, FunSeq

LEMMA SeqWithin ==
    ASSUME NEW S, NEW R, S \subseteq R, NEW s \in Seq(S)
    PROVE  s \in Seq(R)
<1>1. Len(s) \in Nat /\ s \in [1..Len(s) -> S]
  BY SeqFacts
<1>2. s \in [1..Len(s) -> R]
  BY <1>1
<1>3. QED
  BY <1>1, <1>2, FunSeq

\* An enrolled configuration has only free forwards.
LEMMA FreeProper ==
    ASSUME NEW c \in Configuration, \A k \in DOMAIN c.fwds : Free(c.fwds[k])
    PROVE  Proper(c)
BY ConfigFacts DEF Proper, Aimed, Prior, Unshared

LEMMA EnrolSound ==
    ASSUME NEW c \in Configuration, \A k \in DOMAIN c.fwds : Free(c.fwds[k]),
           DistinctPorts(c.fwds)
    PROVE  Sound(normalize(normalize(c)))
<1>1. Sound(normalize(c))
  BY FreeProper, NormalizeSound
<1>2. QED
  BY <1>1, NormalizeSound DEF Sound

LEMMA ProposalTyped ==
    ASSUME NEW subs \in Seq(SubDevice), NEW fwds \in Seq(DeclaredForward)
    PROVE  /\ Proposal(subs, fwds) \in Configuration
           /\ \A k \in DOMAIN Proposal(subs, fwds).fwds : Free(Proposal(subs, fwds).fwds[k])
<1> DEFINE own == [k \in DOMAIN subs |-> Fwd("tcp", subs[k].port, Local(subs[k]), None)]
           c == Proposal(subs, fwds)
<1>1. /\ Len(subs) \in Nat /\ DOMAIN subs = 1..Len(subs)
      /\ \A k \in DOMAIN subs : subs[k] \in SubDevice
  BY SeqFacts
<1>2. \A k \in DOMAIN subs : own[k] \in Forward /\ Free(own[k])
  BY <1>1 DEF Fwd, Forward, Proto, SubDevice, Target, Local, Free
<1>3. own \in [1..Len(subs) -> Forward] /\ DOMAIN own = DOMAIN subs
  BY <1>1, <1>2
<1>4. fwds \in Seq(Forward) /\ \A k \in DOMAIN fwds : Free(fwds[k])
  <2>1. DeclaredForward \subseteq Forward
    BY DEF DeclaredForward
  <2>2. \A k \in DOMAIN fwds : fwds[k] \in DeclaredForward
    BY SeqFacts
  <2>3. QED
    BY <2>1, <2>2, SeqWithin DEF DeclaredForward
<1>5. c = [subs |-> subs, fwds |-> IF fwds # <<>> THEN fwds ELSE own]
  BY DEF Proposal
<1> HIDE DEF own, c
<1>6. own \in Seq(Forward)
  BY <1>1, <1>3, FunSeq
<1>7. QED
  BY <1>2, <1>3, <1>4, <1>5, <1>6 DEF Configuration, c

LEMMA OldFacts ==
    ASSUME NEW subs \in Seq(SubDevice), NEW fwds \in Seq(Forward), NEW sd,
           sd \in SubDevice \/ sd = None
    PROVE  \E s \in Seq(SubDevice) :
             normalizeOld([subs |-> subs, fwds |-> fwds], sd) = normalize([subs |-> s, fwds |-> fwds])
<1> DEFINE c == [subs |-> subs, fwds |-> fwds]
<1>1. CASE sd # None /\ subs = <<>>
  <2>1. [c EXCEPT !.subs = <<sd>>] = [subs |-> <<sd>>, fwds |-> fwds]
    OBVIOUS
  <2>2. <<sd>> \in Seq(SubDevice)
    <3>1. sd \in SubDevice
      BY <1>1
    <3>2. QED
      BY <3>1
  <2>3. normalizeOld(c, sd) = normalize([subs |-> <<sd>>, fwds |-> fwds])
    BY <1>1, <2>1 DEF normalizeOld
  <2>4. QED
    BY <2>2, <2>3
<1>2. CASE ~(sd # None /\ subs = <<>>)
  BY <1>2 DEF normalizeOld
<1>3. QED
  BY <1>1, <1>2

LEMMA InitSound == Init => IInv
<1> SUFFICES ASSUME Init PROVE IInv
  OBVIOUS
<1>1. PICK subs \in SeqUpTo(Declared, MaxSubs), fwds \in SeqUpTo(DeclaredForward, 1) :
        LET c == Proposal(subs, fwds)
        IN  /\ ValidateForwards(c.fwds)
            /\ \/ stored = normalize(normalizeOld(c, None))
               \/ \E sd \in Declared :
                    stored = normalize(normalizeOld([subs |-> <<>>, fwds |-> fwds], sd))
  BY DEF Init
<1>2. subs \in Seq(SubDevice) /\ fwds \in Seq(DeclaredForward) /\ fwds \in Seq(Forward)
  <2>1. Declared \subseteq SubDevice /\ DeclaredForward \subseteq Forward
    BY DEF Declared, DeclaredForward
  <2>2. subs \in Seq(Declared) /\ fwds \in Seq(DeclaredForward)
    BY SeqUpToTyped
  <2>3. QED
    BY <2>1, <2>2, SeqWithin
<1> DEFINE c == Proposal(subs, fwds)
<1>3. /\ c \in Configuration /\ \A k \in DOMAIN c.fwds : Free(c.fwds[k])
      /\ DistinctPorts(c.fwds)
  BY <1>1, <1>2, ProposalTyped DEF ValidateForwards
<1>4. ASSUME stored = normalize(normalizeOld(c, None))
      PROVE  Sound(stored)
  <2> HIDE DEF c
  <2>1. normalizeOld(c, None) = normalize(c)
    BY DEF normalizeOld
  <2>2. QED
    BY <1>3, <1>4, <2>1, EnrolSound
<1>5. ASSUME \E sd \in Declared : stored = normalize(normalizeOld([subs |-> <<>>, fwds |-> fwds], sd))
      PROVE  Sound(stored)
  <2>1. PICK sd \in Declared : stored = normalize(normalizeOld([subs |-> <<>>, fwds |-> fwds], sd))
    BY <1>5
  <2>2. PICK s \in Seq(SubDevice) :
          stored = normalize(normalize([subs |-> s, fwds |-> fwds]))
    <3>1. sd \in SubDevice
      BY DEF Declared
    <3>2. <<>> \in Seq(SubDevice)
      OBVIOUS
    <3>3. PICK s \in Seq(SubDevice) :
            normalizeOld([subs |-> <<>>, fwds |-> fwds], sd) = normalize([subs |-> s, fwds |-> fwds])
      BY <1>2, <3>1, <3>2, OldFacts
    <3>4. QED
      BY <2>1, <3>3
  <2>3. \A k \in DOMAIN fwds : Free(fwds[k])
    BY <1>2, SeqFacts DEF DeclaredForward
  <2>4. DistinctPorts(fwds)
    <3>1. CASE fwds # <<>>
      BY <1>3, <3>1 DEF Proposal
    <3>2. CASE fwds = <<>>
      BY <3>2, EmptySeq DEF DistinctPorts
    <3>3. QED
      BY <3>1, <3>2
  <2> DEFINE d == [subs |-> s, fwds |-> fwds]
  <2>5. d \in Configuration /\ d.fwds = fwds
    BY <1>2 DEF Configuration
  <2> HIDE DEF d
  <2>6. Sound(normalize(normalize(d)))
    BY <2>3, <2>4, <2>5, EnrolSound
  <2>7. QED
    BY <2>2, <2>6 DEF d
<1>6. Sound(stored)
  BY <1>1, <1>4, <1>5
<1>7. TypeOK
  BY <1>6 DEF Init, TypeOK, Sound, Flags
<1>8. QED
  BY <1>6, <1>7 DEF IInv

-----------------------------------------------------------------------------
(* The steps of the page and of the API's clients.                         *)

LEMMA WithoutTyped ==
    ASSUME NEW S, NEW s \in Seq(S), NEW i \in DOMAIN s
    PROVE  Without(s, i) \in Seq(S)
<1>1. Len(s) \in Nat /\ DOMAIN s = 1..Len(s) /\ \A j \in DOMAIN s : s[j] \in S
  BY SeqFacts
<1>2. i \in Int /\ \A j \in 1..(i - 1) : j \in DOMAIN s
  BY <1>1
<1>3. \A j \in (i + 1)..Len(s) : j \in DOMAIN s
  BY <1>1
<1>4. SubSeq(s, 1, i - 1) \in Seq(S)
  <2>1. 1 \in Int /\ i - 1 \in Int /\ \A j \in 1..(i - 1) : s[j] \in S
    BY <1>1, <1>2
  <2>2. QED
    BY <2>1, SubSeqProperties
<1>5. SubSeq(s, i + 1, Len(s)) \in Seq(S)
  <2>1. i + 1 \in Int /\ Len(s) \in Int /\ \A j \in (i + 1)..Len(s) : s[j] \in S
    BY <1>1, <1>2, <1>3
  <2>2. QED
    BY <2>1, SubSeqProperties
<1>6. QED
  BY <1>4, <1>5, ConcatProperties DEF Without

LEMMA WithSubs ==
    ASSUME NEW c \in Configuration, NEW s \in Seq(SubDevice)
    PROVE  [c EXCEPT !.subs = s] \in Configuration
BY DEF Configuration

LEMMA WithFwds ==
    ASSUME NEW c \in Configuration, NEW s \in Seq(Forward)
    PROVE  [c EXCEPT !.fwds = s] \in Configuration
BY DEF Configuration

LEMMA PutTyped ==
    ASSUME NEW S, NEW s \in Seq(S), NEW i \in DOMAIN s, NEW e \in S
    PROVE  [s EXCEPT ![i] = e] \in Seq(S)
<1>1. Len(s) \in Nat /\ DOMAIN s = 1..Len(s) /\ s \in [1..Len(s) -> S]
  BY SeqFacts
<1>2. [s EXCEPT ![i] = e] \in [1..Len(s) -> S]
  BY <1>1
<1>3. QED
  BY <1>1, <1>2, FunSeq

LEMMA EditKeeps ==
    ASSUME IInv, NEW c \in Configuration, Edit(c)
    PROVE  IInv'
<1>1. edits + 1 \in 0..MaxEdits
  BY DEF IInv, TypeOK, Edit
<1>2. QED
  BY <1>1 DEF IInv, TypeOK, Edit

LEMMA SaveKeeps ==
    ASSUME IInv, NEW body \in Configuration, apiSaveDeviceConfig(body),
           saved' \in Configuration \cup {None}, form' = None, edits' = 0
    PROVE  IInv'
<1>1. Sound(stored')
  <2> DEFINE c == normalize(body)
             b == buildForwards(c)
  <2>1. c \in Configuration
    BY NormalizeTyped DEF Alike
  <2>2. (stored' = b /\ Accepts(b)) \/ stored' = stored
    BY DEF apiSaveDeviceConfig
  <2> HIDE DEF c
  <2>3. Accepts(b) => Sound(b)
    BY <2>1, BuildSound
  <2> HIDE DEF b
  <2>4. QED
    BY <2>2, <2>3 DEF IInv
<1>2. TypeOK'
  BY <1>1 DEF TypeOK, Sound, Flags
<1>3. QED
  BY <1>1, <1>2 DEF IInv

LEMMA ReadFacts ==
    ASSUME IInv
    PROVE  /\ stored \in Configuration
           /\ Alike(stored, Read) /\ Read \in Configuration
           /\ DistinctPorts(Read.fwds)
           /\ NamesDiffer => DistinctNames(Read.subs) /\ Settled(Read)
<1>1. /\ stored \in Configuration /\ DistinctPorts(stored.fwds)
      /\ NamesDiffer => Proper(stored) /\ DistinctNames(stored.subs)
  BY DEF IInv, Sound, NamesDiffer
<1>2. Alike(stored, Read) /\ Read \in Configuration
  BY <1>1, NormalizeTyped DEF Read, Alike
<1>3. DistinctPorts(Read.fwds) /\ (NamesDiffer => DistinctNames(Read.subs))
  BY <1>1, <1>2, AlikeKeeps
<1>4. NamesDiffer => Settled(Read)
  BY <1>1, Settles DEF Read
<1>5. QED
  BY <1>1, <1>2, <1>3, <1>4

LEMMA NextKeeps == IInv /\ [Next]_vars => IInv'
<1> SUFFICES ASSUME IInv, [Next]_vars PROVE IInv'
  OBVIOUS
<1>1. form # None => form \in Configuration
  BY DEF IInv, TypeOK
<1>2. form # None => form.subs \in Seq(SubDevice) /\ form.fwds \in Seq(Forward)
  BY <1>1, ConfigFacts
<1>3. CASE Open
  <2>1. Read \in Configuration /\ 0 \in 0..MaxEdits
    BY ReadFacts
  <2>2. form' = Read /\ edits' = 0 /\ stored' = stored /\ saved' = saved
    BY <1>3 DEF Open
  <2>3. QED
    BY <2>1, <2>2 DEF IInv, TypeOK
<1>4. CASE SavePage
  <2> DEFINE body == [form EXCEPT !.fwds = FreeForwards(form)]
  <2>1. body \in Configuration
    <3>1. form \in Configuration
      BY <1>1, <1>4 DEF SavePage
    <3>2. FreeForwards(form) \in Seq(Forward)
      BY <3>1, FreeForwardsFacts
    <3>3. QED
      BY <3>1, <3>2, WithFwds
  <2>2. /\ apiSaveDeviceConfig(body) /\ form' = None /\ edits' = 0
        /\ saved' = body \/ saved' = saved
    BY <1>4 DEF SavePage
  <2> HIDE DEF body
  <2>3. saved' \in Configuration \cup {None}
    BY <2>1, <2>2 DEF IInv, TypeOK
  <2>4. QED
    BY <2>1, <2>2, <2>3, SaveKeeps
<1>5. CASE SaveClient
  <2>1. /\ apiSaveDeviceConfig(form) /\ form' = None /\ edits' = 0
        /\ saved' = None \/ saved' = saved
    BY <1>5 DEF SaveClient
  <2>2. form \in Configuration
    BY <1>1, <1>5 DEF SaveClient
  <2>3. saved' \in Configuration \cup {None}
    BY <2>1 DEF IInv, TypeOK
  <2>4. QED
    BY <2>1, <2>2, <2>3, SaveKeeps
<1>6. CASE AddSub
  <2>1. form # None
    BY <1>6 DEF AddSub
  <2>2. PICK sd \in SubDevice : Edit([form EXCEPT !.subs = Append(form.subs, sd)])
    BY <1>6 DEF AddSub
  <2>3. Append(form.subs, sd) \in Seq(SubDevice)
    BY <1>2, <2>1, AppendProperties
  <2>4. [form EXCEPT !.subs = Append(form.subs, sd)] \in Configuration
    BY <1>1, <2>1, <2>3, WithSubs
  <2>5. QED
    BY <2>2, <2>4, EditKeeps
<1>7. CASE EditSub
  <2>1. form # None
    BY <1>7 DEF EditSub
  <2>2. PICK i \in DOMAIN form.subs, sd \in SubDevice :
          Edit([form EXCEPT !.subs = [form.subs EXCEPT ![i] = sd]])
    BY <1>7 DEF EditSub
  <2>3. [form.subs EXCEPT ![i] = sd] \in Seq(SubDevice)
    BY <1>2, <2>1, PutTyped
  <2>4. [form EXCEPT !.subs = [form.subs EXCEPT ![i] = sd]] \in Configuration
    BY <1>1, <2>1, <2>3, WithSubs
  <2>5. QED
    BY <2>2, <2>4, EditKeeps
<1>8. CASE RemoveSub
  <2>1. form # None
    BY <1>8 DEF RemoveSub
  <2>2. PICK i \in DOMAIN form.subs : Edit([form EXCEPT !.subs = Without(form.subs, i)])
    BY <1>8 DEF RemoveSub
  <2>3. Without(form.subs, i) \in Seq(SubDevice)
    BY <1>2, <2>1, WithoutTyped
  <2>4. [form EXCEPT !.subs = Without(form.subs, i)] \in Configuration
    BY <1>1, <2>1, <2>3, WithSubs
  <2>5. QED
    BY <2>2, <2>4, EditKeeps
<1>9. CASE AddForward
  <2>1. form # None
    BY <1>9 DEF AddForward
  <2>2. PICK f \in Forward : Edit([form EXCEPT !.fwds = Append(form.fwds, f)])
    BY <1>9 DEF AddForward
  <2>3. Append(form.fwds, f) \in Seq(Forward)
    BY <1>2, <2>1, AppendProperties
  <2>4. [form EXCEPT !.fwds = Append(form.fwds, f)] \in Configuration
    BY <1>1, <2>1, <2>3, WithFwds
  <2>5. QED
    BY <2>2, <2>4, EditKeeps
<1>10. CASE RemoveForward
  <2>1. form # None
    BY <1>10 DEF RemoveForward
  <2>2. PICK k \in DOMAIN form.fwds : Edit([form EXCEPT !.fwds = Without(form.fwds, k)])
    BY <1>10 DEF RemoveForward
  <2>3. Without(form.fwds, k) \in Seq(Forward)
    BY <1>2, <2>1, WithoutTyped
  <2>4. [form EXCEPT !.fwds = Without(form.fwds, k)] \in Configuration
    BY <1>1, <2>1, <2>3, WithFwds
  <2>5. QED
    BY <2>2, <2>4, EditKeeps
<1>11. CASE UNCHANGED vars
  BY <1>11 DEF IInv, TypeOK, vars
<1>12. QED
  BY <1>3, <1>4, <1>5, <1>6, <1>7, <1>8, <1>9, <1>10, <1>11 DEF Next

\* A stored configuration has one port for each forward, exposes what it has a port for,
\* and, if its names differ, marks its forwards so that normalize finds each sub-device.
THEOREM Invariant == Spec => []IInv
BY InitSound, NextKeeps, PTL DEF Spec

\* What the portal stores, the page holds and a save leaves has its type (Device.Config,
\* models.go).
THEOREM TypeCorrect == Spec => []TypeOK
<1>1. IInv => TypeOK
  BY DEF IInv
<1>2. QED
  BY <1>1, Invariant, PTL

-----------------------------------------------------------------------------
(* The properties. *)

\* The agent accepts the forwards of any configuration the portal stores, as its
\* ValidateForwards finds them, unless a target is not host:port.
THEOREM AgentAlwaysAccepts == Spec => []AgentAccepts
<1>1. IInv => AgentAccepts
  <2>1. SUFFICES ASSUME IInv, \A k \in DOMAIN stored.fwds : stored.fwds[k].target # Odd
                 PROVE  ValidateForwards(forAgent.fwds)
    BY DEF AgentAccepts
  <2>2. Alike(stored, Read) /\ Read \in Configuration /\ DistinctPorts(Read.fwds)
    BY <2>1, ReadFacts
  <2>3. Alike(Read, forAgent)
    BY <2>2, NormalizeTyped DEF forAgent
  <2>4. DistinctPorts(forAgent.fwds)
    BY <2>2, <2>3, AlikeKeeps
  <2>5. \A k \in DOMAIN forAgent.fwds : forAgent.fwds[k].target # Odd
    BY <2>1, <2>2, <2>3 DEF Alike
  <2>6. QED
    BY <2>4, <2>5 DEF ValidateForwards
<1>2. QED
  BY <1>1, Invariant, PTL

\* What the page reads is settled, so that the second normalization, on the way to the
\* agent, changes nothing: each forward the agent runs is one the page shows, and each
\* sub-device the page shows ticked has its own.
THEOREM ShownAlwaysRuns == Spec => []ShownIsRun
<1>1. IInv => ShownIsRun
  <2>1. SUFFICES ASSUME IInv, NamesDiffer
                 PROVE  /\ \A k \in DOMAIN forAgent.fwds : Free(Read.fwds[k]) \/
                             \E i \in DOMAIN Read.subs :
                               Read.subs[i].expose /\ Access(Read.subs[i]) = Read.fwds[k]
                        /\ \A i \in DOMAIN Read.subs : Read.subs[i].expose =>
                             \E k \in DOMAIN forAgent.fwds :
                               /\ forAgent.fwds[k].proto = "tcp"
                               /\ forAgent.fwds[k].target = Local(Read.subs[i])
                               /\ forAgent.fwds[k].listen = Access(Read.subs[i]).listen
    BY DEF ShownIsRun
  <2>2. Read \in Configuration /\ DistinctNames(Read.subs) /\ Settled(Read)
    BY <2>1, ReadFacts
  <2>3. forAgent = Read
    BY <2>2, SettledStays DEF forAgent
  <2>4. /\ DOMAIN Read.fwds = 1..Len(Read.fwds)
        /\ \A i \in DOMAIN Read.subs : Read.subs[i] \in SubDevice
    BY <2>2, ConfigFacts
  <2>5. ASSUME NEW k \in DOMAIN Read.fwds, ~Free(Read.fwds[k])
        PROVE  \E i \in DOMAIN Read.subs :
                 Read.subs[i].expose /\ Access(Read.subs[i]) = Read.fwds[k]
    BY <2>2, <2>4, <2>5 DEF Settled, Linked, Marked
  <2>6. ASSUME NEW i \in DOMAIN Read.subs, Read.subs[i].expose
        PROVE  \E k \in DOMAIN Read.fwds :
                 /\ Read.fwds[k].proto = "tcp" /\ Read.fwds[k].target = Local(Read.subs[i])
                 /\ Read.fwds[k].listen = Access(Read.subs[i]).listen
    <3>1. PICK k \in DOMAIN Read.fwds : Read.fwds[k] = Access(Read.subs[i])
      BY <2>2, <2>6, ExposedServed
    <3>2. QED
      BY <2>4, <3>1, AccessFacts
  <2>7. QED
    BY <2>3, <2>5, <2>6
<1>2. QED
  BY <1>1, Invariant, PTL

\* A client that sends back what it has read is accepted and changes no forward, and no
\* sub-device's exposure.
THEOREM SaveBackAlwaysKeeps == Spec => []SaveBackKeeps
<1>1. IInv => SaveBackKeeps
  <2> DEFINE b == buildForwards(Read)
  <2>1. SUFFICES ASSUME IInv, NamesDiffer
                 PROVE  /\ Accepts(buildForwards(normalize(Read)))
                        /\ normalize(buildForwards(normalize(Read))).subs = Read.subs
                        /\ Range(normalize(buildForwards(normalize(Read))).fwds) = Range(Read.fwds)
    BY DEF SaveBackKeeps
  <2> HIDE DEF b
  <2>2. /\ Read \in Configuration /\ DistinctNames(Read.subs) /\ Settled(Read)
        /\ DistinctPorts(Read.fwds)
    BY <2>1, ReadFacts
  <2>3. normalize(Read) = Read
    BY <2>2, SettledStays
  <2>4. b.subs = Read.subs /\ Settled(b) /\ b \in Configuration
    BY <2>2, BuiltSettled, BuiltTyped DEF b
  <2>5. normalize(b) = b
    BY <2>2, <2>4, SettledStays
  <2>6. PICK p : /\ \A k \in DOMAIN b.fwds : p[k] \in DOMAIN Read.fwds /\ b.fwds[k] = Read.fwds[p[k]]
                 /\ \A j, k \in DOMAIN b.fwds : p[j] = p[k] => j = k
                 /\ \A i \in DOMAIN Read.fwds : \E k \in DOMAIN b.fwds : b.fwds[k] = Read.fwds[i]
    BY <2>2, BuiltFromSettled DEF b
  <2>7. DistinctPorts(b.fwds)
    BY <2>2, <2>6 DEF DistinctPorts
  <2>8. Range(b.fwds) = Range(Read.fwds)
    BY <2>6 DEF Range
  <2>9. QED
    BY <2>2, <2>3, <2>4, <2>5, <2>7, <2>8 DEF Accepts, b
<1>2. QED
  BY <1>1, Invariant, PTL
=============================================================================

-------------------------- MODULE PanelClientProofs --------------------------
(***************************************************************************)
(* The send lock, the count of callers behind it, and the pile a stalled   *)
(* panel leaves in the transport, for any set of callers and any limit.    *)
(***************************************************************************)
EXTENDS PanelClient, FrameReader, FiniteSetTheorems, SequenceTheorems, TLAPS

Distinct(q) == \A i, j \in DOMAIN q : q[i] = q[j] => i = j
Holds(q, c) == \E i \in DOMAIN q : q[i] = c

\* LockIsExact, with the queue's two parts named.
Lock ==
    /\ IsFiniteSet(Sending) /\ waiting = Cardinality(Sending)
    /\ \A s \in Caller : phase[s] = "draining" <=> holder = s
    /\ \A s \in Caller : phase[s] = "queued" <=> Holds(queue, s)
    /\ Distinct(queue)

\* What lies in a stalled transport: nothing before the connection, and with
\* the lock free only frames whose senders were cancelled.
Pile ==
    /\ PileIsBounded
    /\ ~paused => held = 0
    /\ writer = "none" => held = 0
    /\ MayWrite /\ holder = Nobody => held <= abandoned

IInv == TypeOK /\ Lock /\ Pile

------------------------------------------------------------------------------
(* The queue                                                               *)

LEMMA SeqFacts ==
    ASSUME NEW q \in Seq(Caller)
    PROVE  /\ Len(q) \in Nat /\ DOMAIN q = 1..Len(q)
           /\ \A i \in 1..Len(q) : q[i] \in Caller
  OBVIOUS

\* What Without promises of a queue in which nobody stands twice.
LEMMA WithoutLemma ==
    ASSUME NEW q \in Seq(Caller), Distinct(q), NEW s
    PROVE  /\ Without(q, s) \in Seq(Caller) /\ Distinct(Without(q, s))
           /\ \A c \in Caller : Holds(Without(q, s), c) <=> Holds(q, c) /\ c # s
<1>1. CASE \A i \in DOMAIN q : q[i] # s
  BY <1>1 DEF Without, Holds
<1>2. CASE ~\A i \in DOMAIN q : q[i] # s
  <2> DEFINE at == CHOOSE i \in DOMAIN q : q[i] = s
             w == [i \in 1..(Len(q) - 1) |-> IF i < at THEN q[i] ELSE q[i + 1]]
  <2>1. Without(q, s) = w
    BY <1>2 DEF Without
  <2>2. at \in DOMAIN q /\ q[at] = s
    BY <1>2
  <2> HIDE DEF at
  <2>3. /\ Len(q) \in Nat /\ DOMAIN q = 1..Len(q)
        /\ \A i \in 1..Len(q) : q[i] \in Caller
    BY SeqFacts
  <2>4. \A i \in 1..(Len(q) - 1) : (IF i < at THEN q[i] ELSE q[i + 1]) \in Caller
    BY <2>2, <2>3
  <2>5. Len(q) - 1 \in Nat
    BY <2>2, <2>3
  <2>6. w \in [1..(Len(q) - 1) -> Caller]
    BY <2>4
  <2>7. w \in Seq(Caller) /\ DOMAIN w = 1..(Len(q) - 1)
    BY <2>5, <2>6
  <2>8. \A i, j \in 1..(Len(q) - 1) : w[i] = w[j] => i = j
    BY <2>2, <2>3, <2>5 DEF Distinct
  <2>9. ASSUME NEW c \in Caller
        PROVE  (\E i \in 1..(Len(q) - 1) : w[i] = c) <=> Holds(q, c) /\ c # s
    <3>1. ASSUME NEW i \in 1..(Len(q) - 1), w[i] = c
          PROVE  Holds(q, c) /\ c # s
      BY <2>2, <2>3, <2>5, <3>1 DEF Distinct, Holds
    <3>2. ASSUME NEW k \in 1..Len(q), q[k] = c, c # s
          PROVE  \E i \in 1..(Len(q) - 1) : w[i] = c
      <4>1. CASE k < at
        <5>1. k \in 1..(Len(q) - 1) /\ w[k] = c
          BY <2>2, <2>3, <3>2, <4>1
        <5> QED
          BY <5>1
      <4>2. CASE k > at
        <5>1. k - 1 \in 1..(Len(q) - 1) /\ ~(k - 1 < at) /\ (k - 1) + 1 = k
          BY <2>2, <2>3, <4>2
        <5>2. w[k - 1] = c
          BY <3>2, <5>1
        <5> QED
          BY <5>1, <5>2
      <4> QED
        BY <2>2, <2>3, <3>2, <4>1, <4>2
    <3> QED
      BY <2>3, <3>1, <3>2 DEF Holds
  <2> HIDE DEF w
  <2>10. Distinct(w) /\ \A c \in Caller : Holds(w, c) <=> Holds(q, c) /\ c # s
    BY <2>7, <2>8, <2>9 DEF Distinct, Holds
  <2> QED
    BY <2>1, <2>7, <2>10
<1> QED
  BY <1>1, <1>2

\* Who joins the queue was not in it and stands last; who takes the lock was
\* first in it and is in it no more.
LEMMA JoinLemma ==
    ASSUME NEW q \in Seq(Caller), Distinct(q), NEW s \in Caller, ~Holds(q, s)
    PROVE  /\ Append(q, s) \in Seq(Caller) /\ Distinct(Append(q, s))
           /\ \A c \in Caller : Holds(Append(q, s), c) <=> Holds(q, c) \/ c = s
<1> DEFINE w == Append(q, s)
<1>1. /\ Len(q) \in Nat /\ DOMAIN q = 1..Len(q)
      /\ w \in Seq(Caller) /\ DOMAIN w = 1..(Len(q) + 1)
      /\ \A i \in 1..Len(q) : w[i] = q[i]
      /\ w[Len(q) + 1] = s
  OBVIOUS
<1> HIDE DEF w
<1>2. \A i \in 1..Len(q) : q[i] # s
  BY <1>1 DEF Holds
<1>3. Distinct(w)
  BY <1>1, <1>2 DEF Distinct
<1>4. ASSUME NEW c \in Caller
      PROVE  Holds(w, c) <=> Holds(q, c) \/ c = s
  BY <1>1 DEF Holds
<1> QED
  BY <1>1, <1>3, <1>4 DEF w

LEMMA HeadLemma ==
    ASSUME NEW q \in Seq(Caller), Distinct(q), q # <<>>
    PROVE  /\ Tail(q) \in Seq(Caller) /\ Distinct(Tail(q))
           /\ Head(q) \in Caller /\ Holds(q, Head(q))
           /\ \A c \in Caller : Holds(Tail(q), c) <=> Holds(q, c) /\ c # Head(q)
<1> DEFINE w == Tail(q)
           h == Head(q)
<1>1. /\ Len(q) \in Nat /\ Len(q) >= 1 /\ DOMAIN q = 1..Len(q)
      /\ w \in Seq(Caller) /\ DOMAIN w = 1..(Len(q) - 1)
      /\ \A i \in 1..(Len(q) - 1) : w[i] = q[i + 1]
      /\ q[1] = h /\ h \in Caller
  OBVIOUS
<1> HIDE DEF w, h
<1>2. Distinct(w)
  BY <1>1 DEF Distinct
<1>3. ASSUME NEW c \in Caller
      PROVE  Holds(w, c) <=> Holds(q, c) /\ c # h
  <2>1. ASSUME NEW i \in 1..(Len(q) - 1), w[i] = c
        PROVE  Holds(q, c) /\ c # h
    BY <1>1, <2>1 DEF Holds, Distinct
  <2>2. ASSUME NEW k \in 1..Len(q), q[k] = c, c # h
        PROVE  Holds(w, c)
    <3>1. k - 1 \in 1..(Len(q) - 1) /\ (k - 1) + 1 = k
      BY <1>1, <2>2
    <3>2. w[k - 1] = c
      BY <1>1, <2>2, <3>1
    <3> QED
      BY <1>1, <3>1, <3>2 DEF Holds
  <2> QED
    BY <1>1, <2>1, <2>2 DEF Holds
<1>4. Holds(q, h)
  BY <1>1 DEF Holds
<1> QED
  BY <1>1, <1>2, <1>3, <1>4 DEF w, h

------------------------------------------------------------------------------
(* The lock                                                                *)

LockTypes ==
    /\ waiting \in 0..SEND_QUEUE_MAX
    /\ holder \in Caller \cup {Nobody} /\ queue \in Seq(Caller)
    /\ phase \in [Caller -> {"idle", "queued", "draining", "told"}]

\* Whoever leaves a send takes its count, its lock and its place with it.
LEMMA LeavesLemma ==
    ASSUME ClientAssumption, TypeOK, Lock, NEW s \in Sending, NEW p \in {"idle", "told"},
           Leaves(s, p)
    PROVE  LockTypes' /\ Lock'
<1>1. /\ s \in Caller /\ phase[s] \in {"queued", "draining"} /\ s # Nobody
      /\ Nobody \notin Caller /\ SEND_QUEUE_MAX \in Nat
  BY DEF Sending, ClientAssumption
<1>2. /\ waiting' = waiting - 1 /\ holder' = (IF holder = s THEN Nobody ELSE holder)
      /\ queue' = Without(queue, s) /\ phase' = [phase EXCEPT ![s] = p]
  BY DEF Leaves
<1>3. /\ phase' \in [Caller -> {"idle", "queued", "draining", "told"}]
      /\ \A c \in Caller : phase'[c] = IF c = s THEN p ELSE phase[c]
  BY <1>1, <1>2 DEF TypeOK
<1>4. Sending' = Sending \ {s}
  BY <1>1, <1>3 DEF Sending
<1>5. /\ IsFiniteSet(Sending') /\ Cardinality(Sending') = Cardinality(Sending) - 1
  BY <1>4, FS_RemoveElement DEF Lock
<1>6. Cardinality(Sending') \in Nat
  BY <1>5, FS_CardinalityType
<1>7. waiting' = Cardinality(Sending') /\ waiting' \in 0..SEND_QUEUE_MAX
  BY <1>1, <1>2, <1>5, <1>6 DEF Lock, TypeOK
<1>8. /\ queue' \in Seq(Caller) /\ Distinct(queue')
      /\ \A c \in Caller : Holds(queue', c) <=> Holds(queue, c) /\ c # s
  <2>1. queue \in Seq(Caller) /\ Distinct(queue)
    BY DEF TypeOK, Lock
  <2> QED
    BY <1>2, <2>1, WithoutLemma
<1>9. \A c \in Caller : phase'[c] = "queued" <=> Holds(queue', c)
  BY <1>3, <1>8 DEF Lock
<1>10. /\ \A c \in Caller : phase'[c] = "draining" <=> holder' = c
       /\ holder' \in Caller \cup {Nobody}
  BY <1>1, <1>2, <1>3 DEF Lock, TypeOK
<1> QED
  BY <1>3, <1>5, <1>7, <1>8, <1>9, <1>10 DEF LockTypes, Lock

LEMMA BeginsLemma ==
    ASSUME ClientAssumption, TypeOK, Lock, NEW s \in Caller, SendBegins(s)
    PROVE  LockTypes' /\ Lock'
<1>1. /\ phase[s] = "idle" /\ waiting < SEND_QUEUE_MAX /\ waiting \in Nat
      /\ SEND_QUEUE_MAX \in Nat /\ Nobody \notin Caller
  BY DEF SendBegins, Refuses, ClientAssumption, TypeOK
<1>2. /\ waiting' = waiting + 1 /\ holder' = holder /\ queue' = Append(queue, s)
      /\ phase' = [phase EXCEPT ![s] = "queued"]
  BY DEF SendBegins
<1>3. /\ phase' \in [Caller -> {"idle", "queued", "draining", "told"}]
      /\ \A c \in Caller : phase'[c] = IF c = s THEN "queued" ELSE phase[c]
  BY <1>2 DEF TypeOK
<1>4. Sending' = Sending \cup {s} /\ s \notin Sending
  BY <1>1, <1>3 DEF Sending
<1>5. IsFiniteSet(Sending') /\ Cardinality(Sending') = Cardinality(Sending) + 1
  BY <1>4, FS_AddElement DEF Lock
<1>6. waiting' = Cardinality(Sending') /\ waiting' \in 0..SEND_QUEUE_MAX
  BY <1>1, <1>2, <1>5 DEF Lock
<1>7. /\ queue' \in Seq(Caller) /\ Distinct(queue')
      /\ \A c \in Caller : Holds(queue', c) <=> Holds(queue, c) \/ c = s
  <2>1. queue \in Seq(Caller) /\ Distinct(queue) /\ ~Holds(queue, s)
    BY <1>1 DEF TypeOK, Lock
  <2> QED
    BY <1>2, <2>1, JoinLemma
<1>8. \A c \in Caller : phase'[c] = "queued" <=> Holds(queue', c)
  BY <1>3, <1>7 DEF Lock
<1>9. /\ \A c \in Caller : phase'[c] = "draining" <=> holder' = c
      /\ holder' \in Caller \cup {Nobody}
  BY <1>1, <1>2, <1>3 DEF Lock, TypeOK
<1> QED
  BY <1>3, <1>5, <1>6, <1>7, <1>8, <1>9 DEF LockTypes, Lock

LEMMA WriteLemma ==
    ASSUME ClientAssumption, TypeOK, Lock, NEW s \in Caller, Write(s)
    PROVE  LockTypes' /\ Lock'
<1>1. /\ holder = Nobody /\ queue # <<>> /\ s = Head(queue) /\ Nobody \notin Caller
  BY DEF Write, ClientAssumption
<1>2. /\ waiting' = waiting /\ holder' = s /\ queue' = Tail(queue)
      /\ phase' = [phase EXCEPT ![s] = "draining"]
  BY DEF Write
<1>3. /\ phase' \in [Caller -> {"idle", "queued", "draining", "told"}]
      /\ \A c \in Caller : phase'[c] = IF c = s THEN "draining" ELSE phase[c]
  BY <1>2 DEF TypeOK
<1>4. queue \in Seq(Caller) /\ Distinct(queue)
  BY DEF TypeOK, Lock
<1>5. /\ queue' \in Seq(Caller) /\ Distinct(queue') /\ Holds(queue, s)
      /\ \A c \in Caller : Holds(queue', c) <=> Holds(queue, c) /\ c # s
  BY <1>1, <1>2, <1>4, HeadLemma
<1>6. Sending' = Sending
  BY <1>3, <1>5 DEF Sending, Lock
<1>7. IsFiniteSet(Sending') /\ waiting' = Cardinality(Sending')
  BY <1>2, <1>6 DEF Lock
<1>8. \A c \in Caller : phase'[c] = "queued" <=> Holds(queue', c)
  BY <1>3, <1>5 DEF Lock
<1>9. \A c \in Caller : phase'[c] = "draining" <=> holder' = c
  BY <1>1, <1>2, <1>3 DEF Lock
<1> QED
  BY <1>2, <1>3, <1>5, <1>7, <1>8, <1>9 DEF LockTypes, Lock, TypeOK

\* Who is turned away, or closes after having been told, was not sending.
LEMMA OutsideLemma ==
    ASSUME TypeOK, Lock, NEW s \in Caller, phase[s] \in {"idle", "told"},
           NEW p \in {"idle", "told"}, phase' = [phase EXCEPT ![s] = p], UNCHANGED lockVars
    PROVE  LockTypes' /\ Lock'
<1>1. /\ phase' \in [Caller -> {"idle", "queued", "draining", "told"}]
      /\ \A c \in Caller : phase'[c] = IF c = s THEN p ELSE phase[c]
  BY DEF TypeOK
<1>2. Sending' = Sending
  BY <1>1 DEF Sending
<1>3. waiting' = waiting /\ holder' = holder /\ queue' = queue
  BY DEF lockVars
<1>4. IsFiniteSet(Sending') /\ waiting' = Cardinality(Sending')
  BY <1>2, <1>3 DEF Lock
<1>5. /\ \A c \in Caller : phase'[c] = "queued" <=> Holds(queue', c)
      /\ \A c \in Caller : phase'[c] = "draining" <=> holder' = c
      /\ Distinct(queue')
  BY <1>1, <1>3 DEF Lock
<1> QED
  BY <1>1, <1>3, <1>4, <1>5 DEF LockTypes, Lock, TypeOK
------------------------------------------------------------------------------
(* The pile, and the steps together                                        *)

FlowTypes ==
    /\ writer \in {"none", "up", "closed"} /\ broken \in BOOLEAN
    /\ transport \in {"none", "up", "closing", "lost"}
    /\ paused \in BOOLEAN /\ held \in Nat /\ abandoned \in 0..AbandonMax

LEMMA StepLock ==
    ASSUME ClientAssumption, TypeOK, Lock, Next
    PROVE  LockTypes' /\ Lock'
<1>1. ASSUME NEW s \in Caller, SendBegins(s)
      PROVE  LockTypes' /\ Lock'
  BY <1>1, BeginsLemma
<1>2. ASSUME NEW s \in Caller, Write(s)
      PROVE  LockTypes' /\ Lock'
  BY <1>2, WriteLemma
<1>3. ASSUME NEW s \in Caller, SendRefused(s) \/ CallerCloses(s)
      PROVE  LockTypes' /\ Lock'
  <2>1. PICK p \in {"idle", "told"} :
           phase[s] \in {"idle", "told"} /\ phase' = [phase EXCEPT ![s] = p]
    BY <1>3 DEF SendRefused, CallerCloses
  <2>2. UNCHANGED lockVars
    BY <1>3 DEF SendRefused, CallerCloses
  <2> QED
    BY <2>1, <2>2, OutsideLemma
<1>4. ASSUME NEW s \in Caller, LinkGone(s) \/ Sent(s) \/ Lost(s) \/ TimesOut(s) \/ Cancelled(s)
      PROVE  LockTypes' /\ Lock'
  <2>1. PICK p \in {"idle", "told"} : Leaves(s, p)
    BY <1>4 DEF LinkGone, Sent, Lost, TimesOut, Cancelled
  <2>2. s \in Sending
    <3>1. CASE LinkGone(s)
      <4>1. queue \in Seq(Caller) /\ Distinct(queue) /\ queue # <<>> /\ s = Head(queue)
        BY <3>1 DEF LinkGone, TypeOK, Lock
      <4>2. Holds(queue, s)
        BY <4>1, HeadLemma
      <4> QED
        BY <4>2 DEF Lock, Sending
    <3> QED
      BY <1>4, <3>1 DEF Sent, Lost, TimesOut, Cancelled, Sending
  <2> QED
    BY <2>1, <2>2, LeavesLemma
<1>5. ASSUME Connect \/ Close \/ Resumes \/ ConnectionLost
      PROVE  LockTypes' /\ Lock'
  <2>1. waiting' = waiting /\ holder' = holder /\ queue' = queue /\ phase' = phase
    BY <1>5 DEF Connect, Close, Resumes, ConnectionLost, lockVars
  <2>2. Sending' = Sending
    BY <2>1 DEF Sending
  <2> QED
    BY <2>1, <2>2 DEF LockTypes, Lock, TypeOK
<1> QED
  BY <1>1, <1>2, <1>3, <1>4, <1>5 DEF Next

LEMMA StepPile ==
    ASSUME ClientAssumption, IInv, Next
    PROVE  FlowTypes' /\ Pile'
<1>1. /\ FlowTypes /\ Nobody \notin Caller /\ AbandonMax \in Nat
      /\ \A s \in Caller : phase[s] = "draining" <=> holder = s
  BY DEF IInv, TypeOK, FlowTypes, Lock, ClientAssumption
<1>2. /\ held <= 1 + abandoned /\ (~paused => held = 0) /\ (writer = "none" => held = 0)
      /\ (writer = "up" /\ ~broken /\ holder = Nobody => held <= abandoned)
  BY DEF IInv, Pile, PileIsBounded, MayWrite
<1>3. ASSUME NEW s \in Caller, SendBegins(s) \/ SendRefused(s)
      PROVE  FlowTypes' /\ Pile'
  <2>1. UNCHANGED <<writer, broken, holder, transport, paused, held, abandoned>>
    BY <1>3 DEF SendBegins, SendRefused, lockVars, flowVars
  <2> QED
    BY <1>1, <1>2, <2>1 DEF FlowTypes, Pile, PileIsBounded, MayWrite
<1>4. ASSUME NEW s \in Caller, Write(s)
      PROVE  FlowTypes' /\ Pile'
  <2>1. /\ paused' \in {paused, TRUE} /\ held' = (IF paused' THEN held + 1 ELSE 0)
        /\ UNCHANGED <<writer, broken, transport, abandoned>>
        /\ writer = "up" /\ ~broken /\ holder = Nobody /\ holder' = s
    BY <1>4 DEF Write, MayWrite
  <2>2. held <= abandoned
    BY <1>2, <2>1
  <2>3. FlowTypes'
    <3>1. paused' \in BOOLEAN
      BY <1>1, <2>1 DEF FlowTypes
    <3>2. held' = held + 1 \/ held' = 0
      BY <2>1
    <3>3. held' \in Nat
      BY <1>1, <3>2 DEF FlowTypes
    <3> QED
      BY <1>1, <2>1, <3>1, <3>3 DEF FlowTypes
  <2>4. held' <= 1 + abandoned' /\ (~paused' => held' = 0)
    BY <1>1, <2>1, <2>2 DEF FlowTypes
  <2> QED
    BY <1>1, <2>1, <2>3, <2>4 DEF Pile, PileIsBounded, MayWrite
<1>5. ASSUME NEW s \in Caller, LinkGone(s)
      PROVE  FlowTypes' /\ Pile'
  <2>1. UNCHANGED <<writer, broken, transport, paused, held, abandoned>> /\ ~MayWrite
    BY <1>5 DEF LinkGone, Leaves, flowVars
  <2> QED
    BY <1>1, <1>2, <2>1 DEF FlowTypes, Pile, PileIsBounded, MayWrite
<1>6. ASSUME NEW s \in Caller, Sent(s)
      PROVE  FlowTypes' /\ Pile'
  <2>1. UNCHANGED <<writer, broken, transport, paused, held, abandoned>> /\ ~paused
    BY <1>6 DEF Sent, Leaves, flowVars
  <2> QED
    BY <1>1, <1>2, <2>1 DEF FlowTypes, Pile, PileIsBounded, MayWrite
<1>7. ASSUME NEW s \in Caller, Lost(s) \/ TimesOut(s)
      PROVE  FlowTypes' /\ Pile'
  <2>1. UNCHANGED <<writer, transport, paused, held, abandoned>> /\ broken' = TRUE
    BY <1>7 DEF Lost, TimesOut, Leaves, flowVars
  <2> QED
    BY <1>1, <1>2, <2>1 DEF FlowTypes, Pile, PileIsBounded, MayWrite
<1>8. ASSUME NEW s \in Caller, Cancelled(s)
      PROVE  FlowTypes' /\ Pile'
  <2>1. /\ (phase[s] = "draining" /\ paused) => abandoned < AbandonMax
        /\ abandoned' = IF phase[s] = "draining" /\ paused THEN abandoned + 1 ELSE abandoned
        /\ holder' = (IF holder = s THEN Nobody ELSE holder)
        /\ UNCHANGED <<writer, transport, broken, paused, held>>
    BY <1>8 DEF Cancelled, Leaves
  <2>2. CASE holder = s /\ paused
    <3>1. abandoned' = abandoned + 1 /\ abandoned < AbandonMax
      BY <1>1, <2>1, <2>2
    <3>2. abandoned' \in 0..AbandonMax /\ held' <= abandoned'
      BY <1>1, <1>2, <2>1, <3>1 DEF FlowTypes
    <3>3. held' <= 1 + abandoned'
      BY <1>1, <2>1, <3>2 DEF FlowTypes
    <3> QED
      BY <1>1, <1>2, <2>1, <3>2, <3>3 DEF FlowTypes, Pile, PileIsBounded, MayWrite
  <2>3. CASE ~(holder = s /\ paused)
    <3>1. abandoned' = abandoned
      BY <1>1, <2>1, <2>3
    <3>2. CASE holder = s
      <4>1. held = 0 /\ abandoned \in Nat
        BY <1>1, <1>2, <2>3, <3>2 DEF FlowTypes
      <4> QED
        BY <1>1, <1>2, <2>1, <3>1, <4>1 DEF FlowTypes, Pile, PileIsBounded, MayWrite
    <3>3. CASE holder # s
      BY <1>1, <1>2, <2>1, <3>1, <3>3 DEF FlowTypes, Pile, PileIsBounded, MayWrite
    <3> QED
      BY <3>2, <3>3
  <2> QED
    BY <2>2, <2>3
<1>9. ASSUME NEW s \in Caller, CallerCloses(s)
      PROVE  FlowTypes' /\ Pile'
  <2>1. /\ writer' = (IF writer = "up" THEN "closed" ELSE writer)
        /\ transport' = (IF transport = "up" THEN "closing" ELSE transport)
        /\ UNCHANGED <<broken, holder, paused, held, abandoned>>
    BY <1>9 DEF CallerCloses, lockVars, flowVars
  <2> QED
    BY <1>1, <1>2, <2>1 DEF FlowTypes, Pile, PileIsBounded, MayWrite
<1>10. CASE Connect
  <2>1. /\ writer = "none" /\ writer' = "up" /\ transport' = "up" /\ broken' = FALSE
        /\ UNCHANGED <<holder, paused, held, abandoned>>
    BY <1>10 DEF Connect, lockVars, flowVars
  <2>2. held = 0 /\ abandoned \in Nat
    BY <1>1, <1>2, <2>1 DEF FlowTypes
  <2>3. FlowTypes'
    BY <1>1, <2>1 DEF FlowTypes
  <2>4. held' = 0 /\ abandoned' = abandoned
    BY <2>1, <2>2
  <2>5. held' <= abandoned' /\ held' <= 1 + abandoned'
    BY <2>2, <2>4
  <2>6. Pile'
    BY <2>4, <2>5 DEF Pile, PileIsBounded
  <2> QED
    BY <2>3, <2>6
<1>11. CASE Close \/ ConnectionLost
  <2>1. /\ writer' \in {writer, "closed"} /\ transport' \in {transport, "closing", "lost"}
        /\ UNCHANGED <<broken, holder, paused, held, abandoned>>
    BY <1>11 DEF Close, ConnectionLost, lockVars, flowVars
  <2> QED
    BY <1>1, <1>2, <2>1 DEF FlowTypes, Pile, PileIsBounded, MayWrite
<1>12. CASE Resumes
  <2>1. /\ paused' = FALSE /\ held' = 0 /\ abandoned' = 0
        /\ UNCHANGED <<writer, broken, holder, transport>>
    BY <1>12 DEF Resumes, lockVars
  <2>2. held' \in Nat /\ abandoned' \in 0..AbandonMax
    <3>1. AbandonMax \in Nat /\ held' = 0 /\ abandoned' = 0
      BY <1>1, <2>1
    <3> QED
      BY <3>1
  <2>3. paused' \in BOOLEAN /\ broken' \in BOOLEAN /\ writer' \in {"none", "up", "closed"}
        /\ transport' \in {"none", "up", "closing", "lost"}
    BY <1>1, <2>1, Zenon DEF FlowTypes
  <2>4. FlowTypes'
    BY <2>2, <2>3 DEF FlowTypes
  <2>5. held' <= abandoned' /\ held' <= 1 + abandoned' /\ held' = 0
    BY <2>1
  <2> QED
    BY <2>4, <2>5 DEF Pile, PileIsBounded
<1> QED
  BY <1>3, <1>4, <1>5, <1>6, <1>7, <1>8, <1>9, <1>10, <1>11, <1>12 DEF Next

\* The inductive invariant holds in every reachable state.
THEOREM Invariance == Spec => []IInv
<1>1. ClientAssumption
  BY ClientAssumption
<1>2. Init => IInv
  <2> SUFFICES ASSUME Init PROVE IInv
    OBVIOUS
  <2>1. Sending = {}
    BY DEF Init, Sending
  <2>2. Lock
    <3>1. IsFiniteSet(Sending) /\ waiting = Cardinality(Sending)
      BY <2>1, FS_EmptySet DEF Init
    <3>2. /\ \A s \in Caller : phase[s] = "idle" /\ holder # s
          /\ DOMAIN queue = {}
      BY <1>1 DEF Init, ClientAssumption
    <3> QED
      BY <3>1, <3>2 DEF Lock, Holds, Distinct
  <2>3. TypeOK
    <3>1. waiting \in 0..SEND_QUEUE_MAX /\ abandoned \in 0..AbandonMax /\ held \in Nat
      BY <1>1 DEF Init, ClientAssumption
    <3>2. queue \in Seq(Caller) /\ holder \in Caller \cup {Nobody}
      BY DEF Init
    <3> QED
      BY <3>1, <3>2 DEF Init, TypeOK
  <2>4. Pile
    BY DEF Init, Pile, PileIsBounded, MayWrite
  <2> QED
    BY <2>2, <2>3, <2>4 DEF IInv
<1>3. IInv /\ [Next]_vars => IInv'
  <2> SUFFICES ASSUME IInv, [Next]_vars PROVE IInv'
    OBVIOUS
  <2>1. CASE Next
    <3>1. LockTypes' /\ Lock' /\ FlowTypes' /\ Pile'
      BY <1>1, <2>1, StepLock, StepPile DEF IInv
    <3> QED
      BY <3>1 DEF IInv, TypeOK, LockTypes, FlowTypes
  <2>2. CASE UNCHANGED vars
    BY <2>2 DEF vars, IInv, TypeOK, Lock, Sending, Pile, PileIsBounded, MayWrite
  <2> QED
    BY <2>1, <2>2
<1> QED
  BY <1>2, <1>3, PTL DEF Spec

\* Every variable keeps its type; the count of callers inside a send never
\* passes the limit.
THEOREM TypeCorrect == Spec => []TypeOK
  BY Invariance, PTL DEF IInv

\* Whatever interrupts a send - its deadline, a cancellation, a lost link - the
\* count, the lock and the queue stay those of the callers inside one.
THEOREM LockExact == Spec => []LockIsExact
<1>1. IInv => LockIsExact
  BY DEF IInv, Lock, Holds, Distinct, LockIsExact
<1> QED
  BY <1>1, Invariance, PTL

\* A panel that stopped reading has one frame piled up in the transport and one
\* for each send cancelled in its drain, however many callers there are.
THEOREM PileBounded == Spec => []PileIsBounded
<1>1. IInv => PileIsBounded
  BY DEF IInv, Pile
<1> QED
  BY <1>1, Invariance, PTL

\* ... so with nobody to cancel a send, what send's docstring says is true.
THEOREM OneFrameUncancelled ==
    ASSUME Cancellable = {} PROVE Spec => []OneFrameAtATime
<1> DEFINE NoneAbandoned == abandoned = 0
<1>1. Init => NoneAbandoned
  BY DEF Init
<1>2. NoneAbandoned /\ [Next]_vars => NoneAbandoned'
  BY DEF Next, Connect, Close, Resumes, ConnectionLost, SendRefused, SendBegins, Write,
         LinkGone, Sent, Lost, TimesOut, Cancelled, CallerCloses, flowVars, vars
<1>3. PileIsBounded /\ TypeOK /\ NoneAbandoned => OneFrameAtATime
  BY DEF PileIsBounded, TypeOK, OneFrameAtATime
<1> HIDE DEF NoneAbandoned
<1> QED
  BY <1>1, <1>2, <1>3, PileBounded, TypeCorrect, PTL DEF Spec

------------------------------------------------------------------------------
(* The receiving half, for frames of any size off a stream cut anywhere.   *)
(* The invariant says where reading is in what the panel sent: what has    *)
(* arrived or will, and is no message yet, is consecutive bytes of it, and *)
(* begins where the reader takes it to begin.                              *)

LastOf(s, i) == HEADER + s[i].size

\* Within a frame byte follows byte; after its last comes the next one's first.
Follows(u, s, j, i, k) ==
    /\ u[j] = <<i, k>> /\ k <= LastOf(s, i)
    /\ \A d \in Nat : j + d <= Len(u) =>
         /\ k + d <= LastOf(s, i) => u[j + d] = <<i, k + d>>
         /\ k + d = LastOf(s, i) + 1 => u[j + d] = <<i + 1, 1>>

Stream(u, s) ==
    \A j \in 1..Len(u) : \E i \in 1..Len(s), k \in Nat \ {0} : Follows(u, s, j, i, k)

\* Nothing is missing at its end.
Whole(u, s) ==
    \A j \in 1..Len(u) : \A i \in 1..Len(s), k \in Nat : u[j] = <<i, k>> =>
        /\ j + (LastOf(s, i) - k) <= Len(u)
        /\ i < Len(s) => j + (LastOf(s, i) - k) < Len(u)

\* What has arrived, or will, and is no message yet.
Unread == buf \o wire

Aligned ==
    /\ Len(got) <= Len(sent)
    /\ Unread # <<>> => Unread[1] = <<Len(got) + 1, IF length = NoLength THEN 1 ELSE HEADER + 1>>
    /\ length # NoLength => Len(got) < Len(sent) /\ length = sent[Len(got) + 1].size

\* While the connection is up, nothing is: an empty stream is one read to the
\* end of a frame.
Complete == Whole(Unread, sent) /\ (Unread = <<>> => length = NoLength /\ Len(got) = Len(sent))

ReaderIInv ==
    /\ ReaderTypeOK
    /\ reads = "over" <=> end # "open"
    /\ end = "open" => Stream(Unread, sent) /\ Aligned
    /\ end = "open" /\ link = "up" => Complete

\* Of a stream, what is left after n bytes ...
LEMMA DropLemma ==
    ASSUME NEW s \in Seq(Frame), NEW u \in Seq(Byte), NEW v \in Seq(Byte), NEW n \in 0..Len(u),
           Len(v) = Len(u) - n, \A j \in 1..Len(v) : v[j] = u[j + n]
    PROVE  /\ Stream(u, s) => Stream(v, s)
           /\ Whole(u, s) => Whole(v, s)
<1>. USE ReaderAssumption
<1>1. ASSUME Stream(u, s), NEW j \in 1..Len(v)
      PROVE  \E i \in 1..Len(s), k \in Nat \ {0} : Follows(v, s, j, i, k)
  <2>1. j + n \in 1..Len(u) /\ v[j] = u[j + n]
    OBVIOUS
  <2>2. PICK i \in 1..Len(s), k \in Nat \ {0} : Follows(u, s, j + n, i, k)
    BY <1>1, <2>1 DEF Stream
  <2>3. ASSUME NEW d \in Nat, j + d <= Len(v)
        PROVE  (j + n) + d <= Len(u) /\ v[j + d] = u[(j + n) + d]
    <3>1. j + d \in 1..Len(v) /\ (j + d) + n = (j + n) + d /\ Len(u) \in Nat
      BY <2>3
    <3> QED
      BY <3>1
  <2>4. Follows(v, s, j, i, k)
    BY <2>1, <2>2, <2>3 DEF Follows
  <2> QED
    BY <2>4
<1>2. ASSUME Whole(u, s), NEW j \in 1..Len(v), NEW i \in 1..Len(s), NEW k \in Nat, v[j] = <<i, k>>
      PROVE  /\ j + (LastOf(s, i) - k) <= Len(v)
             /\ i < Len(s) => j + (LastOf(s, i) - k) < Len(v)
  <2>0. j + n \in 1..Len(u) /\ v[j] = u[j + n]
    BY SMTT(40)
  <2>1. j + n \in 1..Len(u) /\ u[j + n] = <<i, k>>
    BY <1>2, <2>0
  <2>2. LastOf(s, i) \in Nat
    <3>1. s[i] \in Frame
      OBVIOUS
    <3> QED
      BY <3>1 DEF LastOf
  <2>3. /\ (j + n) + (LastOf(s, i) - k) <= Len(u)
        /\ i < Len(s) => (j + n) + (LastOf(s, i) - k) < Len(u)
    BY <1>2, <2>1 DEF Whole
  <2> QED
    BY <2>2, <2>3, SMTT(40)
<1> QED
  BY <1>1, <1>2 DEF Stream, Whole

\* ... and what is left of it when it is cut short.
LEMMA CutLemma ==
    ASSUME NEW s \in Seq(Frame), NEW u \in Seq(Byte), NEW v \in Seq(Byte), Len(v) <= Len(u),
           \A j \in 1..Len(v) : v[j] = u[j], Stream(u, s)
    PROVE  Stream(v, s)
<1> SUFFICES ASSUME NEW j \in 1..Len(v)
             PROVE  \E i \in 1..Len(s), k \in Nat \ {0} : Follows(v, s, j, i, k)
  BY DEF Stream
<1>1. j \in 1..Len(u) /\ v[j] = u[j]
  OBVIOUS
<1>2. PICK i \in 1..Len(s), k \in Nat \ {0} : Follows(u, s, j, i, k)
  BY <1>1 DEF Stream
<1>3. \A d \in Nat : j + d <= Len(v) => j + d <= Len(u) /\ v[j + d] = u[j + d]
  OBVIOUS
<1>4. Follows(v, s, j, i, k)
  BY <1>1, <1>2, <1>3 DEF Follows
<1> QED
  BY <1>4

\* The bytes of a frame.
LEMMA BytesLemma ==
    ASSUME NEW m \in Nat \ {0}, NEW f \in Frame
    PROVE  /\ f.size \in Nat /\ f.json \in BOOLEAN
           /\ Header(m) \in Seq({m} \X Nat) /\ Len(Header(m)) = HEADER
           /\ \A k \in 1..HEADER : Header(m)[k] = <<m, k>>
           /\ Payload(m, f.size) \in Seq({m} \X Nat) /\ Len(Payload(m, f.size)) = f.size
           /\ \A k \in 1..f.size : Payload(m, f.size)[k] = <<m, HEADER + k>>
           /\ Bytes(m, f) \in Seq({m} \X Nat) /\ Len(Bytes(m, f)) = HEADER + f.size
           /\ \A k \in 1..(HEADER + f.size) : Bytes(m, f)[k] = <<m, k>>
<1> USE ReaderAssumption
<1>0. f.size \in Nat /\ f.json \in BOOLEAN /\ HEADER + f.size \in Nat
  <2>1. f \in [size : Nat, json : BOOLEAN]
    OBVIOUS
  <2> QED
    BY <2>1
<1>1. /\ Header(m) \in Seq({m} \X Nat) /\ Len(Header(m)) = HEADER
      /\ \A k \in 1..HEADER : Header(m)[k] = <<m, k>>
  BY DEF Header
<1>2. /\ Payload(m, f.size) \in Seq({m} \X Nat) /\ Len(Payload(m, f.size)) = f.size
      /\ \A k \in 1..f.size : Payload(m, f.size)[k] = <<m, HEADER + k>>
  <2> DEFINE w == f.size
  <2>1. w \in Nat
    BY <1>0
  <2> HIDE DEF w
  <2>2. \A k \in 1..w : HEADER + k \in Nat /\ <<m, HEADER + k>> \in {m} \X Nat
    BY <2>1
  <2>3. Payload(m, w) = [k \in 1..w |-> <<m, HEADER + k>>]
    BY DEF Payload
  <2>4. Payload(m, w) \in [1..w -> {m} \X Nat]
    BY <2>2, <2>3
  <2>5. Payload(m, w) \in Seq({m} \X Nat) /\ Len(Payload(m, w)) = w
    BY <2>1, <2>4
  <2> QED
    BY <2>3, <2>5 DEF w
<1>3. Len(Bytes(m, f)) = HEADER + f.size /\ Bytes(m, f) \in Seq({m} \X Nat)
  <2>1. \A S : \A a, b \in Seq(S) : a \o b \in Seq(S) /\ Len(a \o b) = Len(a) + Len(b)
    OBVIOUS
  <2> QED
    BY <2>1, <1>1, <1>2 DEF Bytes
<1>4. ASSUME NEW k \in 1..HEADER + f.size PROVE Bytes(m, f)[k] = <<m, k>>
  <2>1. CASE k <= HEADER
    BY <2>1, <1>0, <1>1, <1>2 DEF Bytes
  <2>2. CASE k > HEADER
    <3>1. k - HEADER \in 1..f.size /\ HEADER + (k - HEADER) = k
      BY <2>2, <1>0
    <3>2. Bytes(m, f)[k] = Payload(m, f.size)[k - HEADER]
      BY <2>2, <1>0, <1>1, <1>2 DEF Bytes
    <3> QED
      BY <3>1, <3>2, <1>2
  <2> QED
    BY <2>1, <2>2, <1>0
<1> QED
  BY <1>0, <1>1, <1>2, <1>3, <1>4

\* A frame sent goes on where the stream ends.
LEMMA SentLemma ==
    ASSUME NEW s \in Seq(Frame), NEW u \in Seq(Byte), NEW f \in Frame,
           Stream(u, s), Whole(u, s)
    PROVE  LET m == Len(s) + 1
               v == u \o Bytes(m, f)
           IN  Stream(v, Append(s, f)) /\ Whole(v, Append(s, f)) /\ v # <<>>
               /\ v[1] = IF u = <<>> THEN <<m, 1>> ELSE u[1]
<1> USE ReaderAssumption
<1> DEFINE m == Len(s) + 1
           v == u \o Bytes(m, f)
           t == Append(s, f)
           n == Len(u)
           L == HEADER + f.size
<1>1. /\ f.size \in Nat /\ L \in Nat /\ n \in Nat /\ m \in Nat \ {0}
      /\ Len(t) = m /\ t[m] = f /\ \A i \in 1..Len(s) : t[i] = s[i]
  <2>1. f \in [size : Nat, json : BOOLEAN]
    OBVIOUS
  <2> QED
    BY <2>1
<1>2. /\ Bytes(m, f) \in Seq({m} \X Nat) /\ Len(Bytes(m, f)) = L
      /\ \A k \in 1..L : Bytes(m, f)[k] = <<m, k>>
  BY <1>1, BytesLemma
<1>3. /\ Len(v) = n + L
      /\ \A j \in 1..n : v[j] = u[j]
      /\ \A k \in 1..L : v[n + k] = <<m, k>>
  <2>1. \A S, T : \A a \in Seq(S), b \in Seq(T) :
          /\ Len(a \o b) = Len(a) + Len(b)
          /\ \A j \in 1..Len(a) : (a \o b)[j] = a[j]
          /\ \A j \in 1..Len(b) : (a \o b)[Len(a) + j] = b[j]
    OBVIOUS
  <2>2. Len(v) = n + L /\ \A j \in 1..n : v[j] = u[j]
    <3> DEFINE b == Bytes(m, f)
    <3>1. u \in Seq(Byte) /\ b \in Seq({m} \X Nat) /\ Len(b) = L
      BY <1>2
    <3> HIDE DEF b, L
    <3>2. Len(u \o b) = Len(u) + Len(b)
      <4>1. \A x \in Seq(Byte), y \in Seq({m} \X Nat) : Len(x \o y) = Len(x) + Len(y)
        OBVIOUS
      <4> QED
        BY <3>1, <4>1
    <3>3. ASSUME NEW j \in 1..Len(u) PROVE (u \o b)[j] = u[j]
      BY <3>1, <2>1
    <3> QED
      BY <3>1, <3>2, <3>3 DEF b
  <2>3. ASSUME NEW k \in 1..L PROVE v[n + k] = <<m, k>>
    BY <2>1, <1>2
  <2> QED
    BY <2>2, <2>3
<1>4. LastOf(t, m) = L /\ \A i \in 1..Len(s) : LastOf(t, i) = LastOf(s, i) /\ LastOf(s, i) \in Nat
  <2>1. \A i \in 1..Len(s) : s[i] \in [size : Nat, json : BOOLEAN]
    OBVIOUS
  <2> QED
    BY <1>1, <2>1 DEF LastOf
<1>5. L \in Nat \ {0}
  BY <1>1
<1> HIDE DEF v, t, L, m, n
<1>6. ASSUME NEW j \in 1..Len(v)
      PROVE  \E i \in 1..Len(t), k \in Nat \ {0} : Follows(v, t, j, i, k)
  <2>1. CASE j <= n
    <3>1. j \in 1..Len(u) /\ Len(u) = n
      BY <2>1, <1>1, <1>3 DEF n
    <3>p. PICK i \in 1..Len(s), k \in Nat \ {0} : Follows(u, s, j, i, k)
      BY <3>1 DEF Stream
    <3>2. /\ u[j] = <<i, k>> /\ k <= LastOf(s, i)
          /\ \A d \in Nat : j + d <= Len(u) =>
               /\ k + d <= LastOf(s, i) => u[j + d] = <<i, k + d>>
               /\ k + d = LastOf(s, i) + 1 => u[j + d] = <<i + 1, 1>>
      BY <3>p DEF Follows
    <3>3. /\ j + (LastOf(s, i) - k) <= n
          /\ i < Len(s) => j + (LastOf(s, i) - k) < n
      BY <3>1, <3>2 DEF Whole
    <3>4. i \in 1..Len(t) /\ LastOf(t, i) = LastOf(s, i) /\ LastOf(s, i) \in Nat /\ Len(s) \in Nat
      BY <1>1, <1>4 DEF m
    <3>5. ASSUME NEW d \in Nat, j + d <= Len(v), k + d <= LastOf(s, i)
          PROVE  v[j + d] = <<i, k + d>>
      <4>1. j + d <= n /\ j + d \in 1..n
        BY <3>3, <3>4, <3>5, <1>1
      <4> QED
        BY <4>1, <3>1, <3>2, <3>5, <1>3
    <3>6. ASSUME NEW d \in Nat, j + d <= Len(v), k + d = LastOf(s, i) + 1
          PROVE  v[j + d] = <<i + 1, 1>>
      <4>1. CASE i < Len(s)
        <5>1. j + d <= n /\ j + d \in 1..n
          BY <3>3, <3>4, <3>6, <4>1, <1>1, SMTT(40)
        <5> QED
          BY <5>1, <3>1, <3>2, <3>6, <1>3
      <4>2. CASE ~(i < Len(s))
        <5>1. i + 1 = m
          BY <4>2, <3>4 DEF m
        <5>2. j + d <= n + 1
          BY <3>3, <3>4, <3>6, <1>1
        <5>3. CASE j + d = n + 1
          <6>1. 1 \in 1..L /\ v[n + 1] = <<m, 1>>
            BY <1>5, <1>3
          <6> QED
            BY <6>1, <5>1, <5>3
        <5>4. CASE j + d <= n
          <6>1. j + d \in 1..Len(u) /\ j + d <= Len(u)
            BY <5>4, <3>1, <1>1
          <6>2. u[j + d] = <<i + 1, 1>>
            BY <6>1, <3>2, <3>6
          <6>3. \E a \in 1..Len(s), b \in Nat \ {0} : u[j + d] = <<a, b>>
            BY <6>1, ZenonT(60) DEF Stream, Follows
          <6> QED
            BY <6>2, <6>3, <4>2, <3>4
        <5> QED
          BY <5>2, <5>3, <5>4, <1>1, SMTT(40)
      <4> QED
        BY <4>1, <4>2
    <3>7. Follows(v, t, j, i, k)
      BY <3>1, <3>2, <3>4, <3>5, <3>6, <1>3 DEF Follows
    <3> QED
      BY <3>4, <3>7
  <2>2. CASE j > n
    <3>1. j - n \in 1..L /\ n + (j - n) = j
      BY <2>2, <1>1, <1>3, <1>5
    <3>2. v[j] = <<m, j - n>> /\ m \in 1..Len(t) /\ j - n <= LastOf(t, m)
      BY <3>1, <1>1, <1>3, <1>4
    <3>3. ASSUME NEW d \in Nat, j + d <= Len(v)
          PROVE  v[j + d] = <<m, (j - n) + d>> /\ (j - n) + d # LastOf(t, m) + 1
      <4>1. (j - n) + d \in 1..L /\ n + ((j - n) + d) = j + d
        BY <3>1, <3>3, <1>1, <1>3, <1>5, SMTT(40)
      <4> QED
        BY <4>1, <1>3, <1>4, <1>5
    <3>4. ASSUME NEW d \in Nat, j + d <= Len(v)
          PROVE  /\ (j - n) + d <= LastOf(t, m) => v[j + d] = <<m, (j - n) + d>>
                 /\ (j - n) + d = LastOf(t, m) + 1 => v[j + d] = <<m + 1, 1>>
      BY <3>3, <3>4
    <3>5. Follows(v, t, j, m, j - n)
      BY <3>2, <3>4 DEF Follows
    <3>6. j - n \in Nat \ {0}
      BY <3>1
    <3> QED
      BY <3>2, <3>5, <3>6
  <2>3. n \in Int /\ j \in Int
    BY <1>1
  <2> QED
    BY <2>1, <2>2, <2>3
<1>7. ASSUME NEW j \in 1..Len(v), NEW i \in 1..Len(t), NEW k \in Nat, v[j] = <<i, k>>
      PROVE  /\ j + (LastOf(t, i) - k) <= Len(v)
             /\ i < Len(t) => j + (LastOf(t, i) - k) < Len(v)
  <2>1. CASE j <= n
    <3>1. j \in 1..Len(u) /\ Len(u) = n /\ u[j] = <<i, k>>
      BY <2>1, <1>1, <1>3, <1>7 DEF n
    <3>2. i \in 1..Len(s)
      <4>1. \E a \in 1..Len(s), b \in Nat \ {0} : u[j] = <<a, b>>
        BY <3>1 DEF Stream, Follows
      <4> QED
        BY <4>1, <3>1
    <3>3. j + (LastOf(s, i) - k) <= n
      BY <3>1, <3>2 DEF Whole
    <3> QED
      BY <3>2, <3>3, <1>1, <1>3, <1>4, <1>5
  <2>2. CASE j > n
    <3>1. j - n \in 1..L /\ n + (j - n) = j
      BY <2>2, <1>1, <1>3, <1>5
    <3>2. i = m /\ k = j - n
      BY <3>1, <1>3, <1>7
    <3> QED
      BY <3>1, <3>2, <1>1, <1>3, <1>4, <1>5
  <2> QED
    BY <2>1, <2>2, <1>1, <1>3, <1>5
<1>8. v # <<>> /\ v[1] = IF u = <<>> THEN <<m, 1>> ELSE u[1]
  <2>1. 1 \in 1..L /\ Len(v) > 0
    BY <1>1, <1>3, <1>5
  <2>2. CASE u = <<>>
    <3>1. n = 0
      BY <2>2 DEF n
    <3>2. n + 1 = 1 /\ v[n + 1] = <<m, 1>>
      BY <3>1, <2>1, <1>3
    <3> QED
      BY <2>1, <2>2, <3>2
  <2>3. CASE u # <<>>
    <3>1. 1 \in 1..n
      BY <2>3 DEF n
    <3> QED
      BY <2>1, <2>3, <3>1, <1>3
  <2> QED
    BY <2>2, <2>3
<1> QED
  BY <1>6, <1>7, <1>8 DEF Stream, Whole, v, t, m

LEMMA ReaderInitLemma == ReaderInit => ReaderIInv
<1> SUFFICES ASSUME ReaderInit PROVE ReaderIInv
  OBVIOUS
<1>1. Unread = <<>> /\ Len(Unread) = 0 /\ Len(got) = 0 /\ Len(sent) = 0
  BY DEF ReaderInit, Unread
<1>2. ReaderTypeOK
  BY ReaderAssumption DEF ReaderInit, ReaderTypeOK, NoLength
<1>3. Stream(Unread, sent) /\ Aligned /\ Complete
  BY <1>1 DEF Stream, Whole, Aligned, Complete, ReaderInit, NoLength
<1> QED
  BY <1>2, <1>3 DEF ReaderInit, ReaderIInv

\* A sequence is its two halves.
LEMMA HalvesLemma ==
    ASSUME NEW S, NEW h \in Seq(S), NEW w \in Seq(S), NEW u \in Seq(S),
           Len(h) + Len(w) = Len(u),
           \A k \in 1..Len(h) : h[k] = u[k],
           \A k \in 1..Len(w) : w[k] = u[Len(h) + k]
    PROVE  h \o w = u
<1>1. /\ h \o w \in Seq(S) /\ Len(h \o w) = Len(h) + Len(w)
      /\ \A k \in 1..Len(h) + Len(w) :
           (h \o w)[k] = IF k <= Len(h) THEN h[k] ELSE w[k - Len(h)]
  BY ONLY ConcatProperties
<1>2. ASSUME NEW k \in 1..Len(u) PROVE (h \o w)[k] = u[k]
  <2>1. (h \o w)[k] = IF k <= Len(h) THEN h[k] ELSE w[k - Len(h)]
    BY <1>1
  <2>2. CASE k <= Len(h)
    BY <2>1, <2>2
  <2>3. CASE ~(k <= Len(h))
    <3>1. k - Len(h) \in 1..Len(w) /\ Len(h) + (k - Len(h)) = k
      BY <2>3
    <3> QED
      BY <2>1, <2>3, <3>1
  <2> QED
    BY <2>2, <2>3
<1> QED
  BY <1>1, <1>2, SeqEqual

\* What n more bytes make of the buffer, and leave of the stream: together
\* they are what there was.
Filled(n) == buf \o SubSeq(wire, 1, n)
Left(n) == SubSeq(wire, n + 1, Len(wire))

LEMMA CutWireLemma ==
    ASSUME ReaderTypeOK, NEW n \in 0..Len(wire)
    PROVE  LET b == Filled(n)
               w == Left(n) IN
           /\ b \in Seq(Byte) /\ w \in Seq(Byte) /\ Unread \in Seq(Byte) /\ b \o w = Unread
           /\ Len(b) = Len(buf) + n /\ Len(w) = Len(wire) - n
           /\ Len(b) \in 0..Len(Unread) /\ Len(w) = Len(Unread) - Len(b)
           /\ \A k \in 1..Len(b) : b[k] = Unread[k]
           /\ \A k \in 1..Len(w) : w[k] = Unread[k + Len(b)]
<1> DEFINE b == Filled(n)
           w == Left(n)
<1>1. buf \in Seq(Byte) /\ wire \in Seq(Byte) /\ Len(buf) \in Nat /\ Len(wire) \in Nat
  BY DEF ReaderTypeOK
<1>2. /\ SubSeq(wire, 1, n) \in Seq(Byte) /\ Len(SubSeq(wire, 1, n)) = n
      /\ \A k \in 1..n : SubSeq(wire, 1, n)[k] = wire[k]
  BY <1>1
<1>3. /\ w \in Seq(Byte) /\ Len(w) = Len(wire) - n
      /\ \A k \in 1..Len(w) : w[k] = wire[n + k]
  BY <1>1 DEF Left
<1>4. /\ b \in Seq(Byte) /\ Len(b) = Len(buf) + n
      /\ \A k \in 1..Len(buf) : b[k] = buf[k]
      /\ \A k \in 1..n : b[Len(buf) + k] = wire[k]
  BY <1>1, <1>2 DEF Filled
<1>5. /\ Unread \in Seq(Byte) /\ Len(Unread) = Len(buf) + Len(wire)
      /\ \A k \in 1..Len(buf) : Unread[k] = buf[k]
      /\ \A k \in 1..Len(wire) : Unread[Len(buf) + k] = wire[k]
  BY <1>1 DEF Unread
<1>6. ASSUME NEW k \in 1..Len(b) PROVE b[k] = Unread[k]
  <2>1. CASE k <= Len(buf)
    BY <2>1, <1>1, <1>4, <1>5
  <2>2. CASE k > Len(buf)
    <3>1. k - Len(buf) \in 1..n /\ Len(buf) + (k - Len(buf)) = k
      BY <2>2, <1>1, <1>4
    <3>2. b[k] = wire[k - Len(buf)]
      BY <3>1, <1>4
    <3>3. Unread[k] = wire[k - Len(buf)]
      BY <3>1, <1>1, <1>5
    <3> QED
      BY <3>2, <3>3
  <2> QED
    BY <2>1, <2>2, <1>1
<1>7. ASSUME NEW k \in 1..Len(w) PROVE w[k] = Unread[k + Len(b)]
  <2>1. n + k \in 1..Len(wire) /\ Len(buf) + (n + k) = k + Len(b)
    BY <1>1, <1>3, <1>4
  <2> QED
    BY <2>1, <1>3, <1>5
<1>9. Len(b) \in 0..Len(Unread) /\ Len(w) = Len(Unread) - Len(b)
  BY <1>1, <1>3, <1>4, <1>5
<1>8. b \o w = Unread
  <2>1. \A k \in 1..Len(w) : w[k] = Unread[Len(b) + k]
    <3>1. \A k \in 1..Len(w) : k + Len(b) = Len(b) + k
      BY <1>1, <1>3, <1>4
    <3> QED
      BY <3>1, <1>7
  <2>2. Len(b) + Len(w) = Len(Unread)
    BY ONLY <1>9, <1>5
  <2>3. b \in Seq(Byte) /\ w \in Seq(Byte) /\ Unread \in Seq(Byte)
    BY <1>3, <1>4, <1>5
  <2> QED
    BY <2>1, <2>2, <2>3, <1>6, HalvesLemma
<1> QED
  BY <1>3, <1>4, <1>5, <1>6, <1>7, <1>8, <1>9

\* The stream from its first byte on.
LEMMA FirstLemma ==
    ASSUME NEW s, NEW u, Stream(u, s), Len(u) \in Nat \ {0}, NEW i, NEW k, u[1] = <<i, k>>
    PROVE  i \in 1..Len(s) /\ k \in Nat \ {0} /\ Follows(u, s, 1, i, k)
<1>1. 1 \in 1..Len(u)
  OBVIOUS
<1>2. PICK a \in 1..Len(s), b \in Nat \ {0} : Follows(u, s, 1, a, b)
  BY <1>1 DEF Stream
<1>3. u[1] = <<a, b>>
  BY <1>2 DEF Follows
<1>4. a = i /\ b = k
  BY <1>3
<1> QED
  BY <1>2, <1>4

\* A whole header is that of the frame that is due: no other is read, and the
\* payload comes next.
LEMMA HeaderLemma ==
    ASSUME ReaderIInv, end = "open", length = NoLength,
           NEW b \in Seq(Byte), NEW w \in Seq(Byte), Len(b) = HEADER,
           Len(b) <= Len(Unread), Len(w) = Len(Unread) - Len(b), Unread \in Seq(Byte),
           \A k \in 1..Len(b) : b[k] = Unread[k],
           \A k \in 1..Len(w) : w[k] = Unread[k + Len(b)]
    PROVE  LET i == Len(got) + 1 IN
           /\ i \in DOMAIN sent /\ Announced(b) = {sent[i].size}
           /\ sent[i].size \in Nat /\ sent[i].json \in BOOLEAN
           /\ sent[i].size > 0 /\ w # <<>> => w[1] = <<i, HEADER + 1>>
           /\ link = "up" /\ sent[i].size > 0 => w # <<>>
<1> USE ReaderAssumption
<1> DEFINE i == Len(got) + 1
<1>1. /\ sent \in Seq(Frame) /\ DOMAIN sent = 1..Len(sent) /\ Len(sent) \in Nat
      /\ Len(got) \in Nat
  BY DEF ReaderIInv, ReaderTypeOK
<1>2. Len(Unread) \in Nat \ {0} /\ Unread # <<>> /\ 1 \in 1..Len(b)
  OBVIOUS
<1>3. Stream(Unread, sent) /\ Unread[1] = <<i, 1>>
  BY <1>2 DEF ReaderIInv, Aligned
<1>4. i \in 1..Len(sent) /\ Follows(Unread, sent, 1, i, 1)
  BY <1>2, <1>3, FirstLemma
<1>5. /\ sent[i].size \in Nat /\ sent[i].json \in BOOLEAN
      /\ LastOf(sent, i) = HEADER + sent[i].size
  <2>1. sent[i] \in Frame
    BY <1>1, <1>4
  <2>2. sent[i] \in [size : Nat, json : BOOLEAN]
    BY <2>1
  <2> QED
    BY <2>2 DEF LastOf
<1>6. /\ \A d \in Nat : 1 + d <= Len(Unread) /\ 1 + d <= LastOf(sent, i) => Unread[1 + d] = <<i, 1 + d>>
  BY <1>4 DEF Follows
<1> HIDE DEF i
<1>7. b = Header(i)
  <2>1. ASSUME NEW k \in 1..HEADER PROVE b[k] = <<i, k>>
    <3>1. k - 1 \in Nat /\ 1 + (k - 1) = k
      OBVIOUS
    <3>2. k <= Len(Unread) /\ k <= LastOf(sent, i)
      BY <1>5
    <3>3. Unread[k] = <<i, k>>
      BY <3>1, <3>2, <1>6
    <3> QED
      BY <3>3
  <2>2. b = [k \in 1..HEADER |-> b[k]]
    OBVIOUS
  <2> QED
    BY <2>1, <2>2 DEF Header
<1>8. \A j \in DOMAIN sent : b = Header(j) => j = i
  <2> SUFFICES ASSUME NEW j \in DOMAIN sent, b = Header(j) PROVE j = i
    OBVIOUS
  <2>1. Header(i)[1] = <<i, 1>> /\ Header(j)[1] = <<j, 1>>
    BY DEF Header
  <2> QED
    BY <2>1, <1>7
<1>9. Announced(b) = {sent[i].size}
  <2>1. i \in DOMAIN sent /\ {j \in DOMAIN sent : b = Header(j)} = {i}
    BY <1>1, <1>4, <1>7, <1>8
  <2>2. \E j \in DOMAIN sent : b = Header(j)
    BY <2>1, <1>7
  <2> QED
    BY <2>1, <2>2 DEF Announced
<1>10. ASSUME sent[i].size > 0, w # <<>> PROVE w[1] = <<i, HEADER + 1>>
  <2>1. 1 \in 1..Len(w)
    BY <1>10
  <2>2. w[1] = Unread[1 + HEADER] /\ 1 + HEADER <= Len(Unread) /\ 1 + HEADER <= LastOf(sent, i)
    BY <2>1, <1>5, <1>10
  <2> QED
    BY <2>2, <1>6
<1>11. ASSUME link = "up", sent[i].size > 0 PROVE w # <<>>
  <2>1. 1 + (LastOf(sent, i) - 1) <= Len(Unread)
    <3>1. Whole(Unread, sent)
      BY <1>11 DEF ReaderIInv, Complete
    <3>2. 1 \in 1..Len(Unread) /\ 1 \in Nat /\ Unread[1] = <<i, 1>>
      BY <1>2, <1>3, SMTT(40) DEF i
    <3> QED
      BY <3>1, <3>2, <1>4 DEF Whole, i
  <2> QED
    BY <2>1, <1>5, <1>11
<1> QED
  BY <1>1, <1>4, <1>5, <1>9, <1>10, <1>11 DEF i

\* A whole payload is that of the frame that is due, and the next frame comes
\* next.
LEMMA PayloadLemma ==
    ASSUME ReaderIInv, end = "open", length # NoLength,
           NEW b \in Seq(Byte), NEW w \in Seq(Byte), Len(b) = length,
           Len(b) <= Len(Unread), Len(w) = Len(Unread) - Len(b), Unread \in Seq(Byte),
           \A k \in 1..Len(b) : b[k] = Unread[k],
           \A k \in 1..Len(w) : w[k] = Unread[k + Len(b)]
    PROVE  LET i == Len(got) + 1 IN
           /\ i \in DOMAIN sent /\ Fits(sent[i].size) /\ sent[i].json \in BOOLEAN
           /\ b = Payload(i, sent[i].size)
           /\ \A j \in DOMAIN sent : b = Payload(j, sent[j].size) => j = i
           /\ w # <<>> => w[1] = <<i + 1, 1>>
           /\ link = "up" /\ w = <<>> => i = Len(sent)
<1> USE ReaderAssumption
<1> DEFINE i == Len(got) + 1
           n == sent[i].size
<1>1. /\ sent \in Seq(Frame) /\ DOMAIN sent = 1..Len(sent) /\ Len(sent) \in Nat
      /\ Len(got) \in Nat /\ length \in 1..FRAME_MAX
  BY DEF ReaderIInv, ReaderTypeOK, NoLength
<1>2. Len(Unread) \in Nat \ {0} /\ Unread # <<>> /\ 1 \in 1..Len(b)
  BY <1>1
<1>3. Stream(Unread, sent) /\ Unread[1] = <<i, HEADER + 1>> /\ length = n
  BY <1>2 DEF ReaderIInv, Aligned
<1>4. i \in 1..Len(sent) /\ Follows(Unread, sent, 1, i, HEADER + 1)
  BY <1>2, <1>3, FirstLemma
<1>5. /\ n \in 1..FRAME_MAX /\ sent[i].json \in BOOLEAN
      /\ LastOf(sent, i) = HEADER + n
  <2>1. sent[i] \in Frame
    BY <1>1, <1>4
  <2>2. sent[i] \in [size : Nat, json : BOOLEAN]
    BY <2>1
  <2> QED
    BY <2>2, <1>1, <1>3 DEF LastOf
<1>6. \A d \in Nat : 1 + d <= Len(Unread) =>
         /\ (HEADER + 1) + d <= LastOf(sent, i) => Unread[1 + d] = <<i, (HEADER + 1) + d>>
         /\ (HEADER + 1) + d = LastOf(sent, i) + 1 => Unread[1 + d] = <<i + 1, 1>>
  BY <1>4 DEF Follows
<1> HIDE DEF i, n
<1>7. b = Payload(i, n)
  <2>1. ASSUME NEW k \in 1..n PROVE b[k] = <<i, HEADER + k>>
    <3>1. k - 1 \in Nat /\ 1 + (k - 1) = k /\ (HEADER + 1) + (k - 1) = HEADER + k
      BY <1>5
    <3>2. k <= Len(Unread) /\ HEADER + k <= LastOf(sent, i) /\ k \in 1..Len(b)
      BY <1>3, <1>5
    <3>3. Unread[k] = <<i, HEADER + k>>
      BY <3>1, <3>2, <1>6
    <3> QED
      BY <3>2, <3>3
  <2>2. b = [k \in 1..n |-> b[k]]
    BY <1>3
  <2> QED
    BY <2>1, <2>2 DEF Payload
<1>8. ASSUME NEW j \in DOMAIN sent, b = Payload(j, sent[j].size) PROVE j = i
  <2>1. sent[j].size \in Nat
    <3>1. sent[j] \in Frame
      BY <1>1
    <3>2. sent[j] \in [size : Nat, json : BOOLEAN]
      BY <3>1
    <3> QED
      BY <3>2
  <2>2. 1 \in DOMAIN Payload(j, sent[j].size)
    BY <1>2, <1>8
  <2>3. Payload(j, sent[j].size)[1] = <<j, HEADER + 1>>
    BY <2>2 DEF Payload
  <2>4. Payload(i, n)[1] = <<i, HEADER + 1>>
    BY <1>5 DEF Payload
  <2> QED
    BY <2>3, <2>4, <1>7, <1>8
<1>9. ASSUME w # <<>> PROVE w[1] = <<i + 1, 1>>
  <2>1. 1 \in 1..Len(w)
    BY <1>9
  <2>2. w[1] = Unread[1 + n] /\ 1 + n <= Len(Unread) /\ (HEADER + 1) + n = LastOf(sent, i) + 1
    BY <2>1, <1>3, <1>5
  <2> QED
    BY <2>2, <1>5, <1>6
<1>10. ASSUME link = "up", w = <<>> PROVE i = Len(sent)
  <2>1. Len(Unread) = n
    BY <1>10, <1>3
  <2>2. Whole(Unread, sent)
    BY <1>10 DEF ReaderIInv, Complete
  <2>3. 1 \in 1..Len(Unread) /\ HEADER + 1 \in Nat /\ Unread[1] = <<i, HEADER + 1>>
    BY <1>2, <1>3
  <2>4. i < Len(sent) => 1 + (LastOf(sent, i) - (HEADER + 1)) < Len(Unread)
    BY <2>2, <2>3, <1>4 DEF Whole, i
  <2>5. i \in Nat /\ i <= Len(sent)
    BY <1>1, <1>4
  <2>6. 1 + (LastOf(sent, i) - (HEADER + 1)) = n
    BY <1>5
  <2>7. ~(n < Len(Unread))
    BY <2>1, <1>5
  <2>8. ~(i < Len(sent))
    BY ONLY <2>4, <2>6, <2>7, Zenon
  <2>9. Len(sent) \in Nat
    BY <1>1
  <2> QED
    BY ONLY <2>5, <2>8, <2>9
<1> QED
  BY <1>1, <1>4, <1>5, <1>7, <1>8, <1>9, <1>10 DEF i, n, Fits

\* The reader's actions.  What is read of the stream stays unread until it
\* makes a header or a payload.
LEMMA ReadLemma ==
    ASSUME ReaderIInv, NEW n \in 1..Len(wire), Read(n)
    PROVE  ReaderIInv' /\ [Channel!Next]_<<sent, got, end>>
<1> USE ReaderAssumption
<1> DEFINE b == Filled(n)
           w == Left(n)
           i == Len(got) + 1
<1>1. /\ ReaderTypeOK /\ end = "open" /\ Stream(Unread, sent) /\ Aligned
      /\ link = "up" => Complete
      /\ n \in 0..Len(wire)
  BY DEF Read, Reading, ReaderIInv
<1>2. /\ wire' = w /\ UNCHANGED <<sent, link, cancels>> /\ n <= Wanted
      /\ n < Wanted => buf' = b /\ UNCHANGED <<length, reads, got, end>>
      /\ ~(n < Wanted) /\ length = NoLength => buf' = <<>> /\ HeaderIn(b)
      /\ ~(n < Wanted) /\ length # NoLength => buf' = <<>> /\ PayloadIn(b)
  BY DEF Read, Filled, Left
<1>3. /\ b \in Seq(Byte) /\ w \in Seq(Byte) /\ Unread \in Seq(Byte) /\ b \o w = Unread
      /\ Len(b) = Len(buf) + n
      /\ Len(b) \in 0..Len(Unread) /\ Len(w) = Len(Unread) - Len(b)
      /\ \A k \in 1..Len(b) : b[k] = Unread[k]
      /\ \A k \in 1..Len(w) : w[k] = Unread[k + Len(b)]
  BY <1>1, CutWireLemma
<1> HIDE DEF b, w
<1>4. /\ sent \in Seq(Frame) /\ got \in Seq(Frame) /\ length \in 0..FRAME_MAX
      /\ Len(buf) \in Nat /\ Len(got) \in Nat /\ Len(sent) \in Nat
      /\ reads \in {"first", "stall"}
  BY <1>1 DEF ReaderTypeOK, Read, Reading
<1>5. /\ Stream(Unread, sent) => Stream(w, sent)
      /\ Whole(Unread, sent) => Whole(w, sent)
  BY <1>3, <1>4, DropLemma
<1>6. CASE n < Wanted
  <2>1. Unread' = Unread /\ UNCHANGED <<sent, link, cancels, length, reads, got, end>>
    BY <1>2, <1>3, <1>6 DEF Unread
  <2>2. Len(b) < IF length = NoLength THEN HEADER ELSE length
    BY <1>3, <1>4, <1>6 DEF Wanted
  <2>3. ReaderTypeOK'
    BY <1>1, <1>2, <1>3, <1>6, <2>1, <2>2 DEF ReaderTypeOK
  <2>4. Aligned' /\ (link' = "up" => Complete') /\ Stream(Unread', sent')
    BY <1>1, <2>1 DEF Aligned, Complete
  <2> QED
    BY <2>1, <2>3, <2>4, <1>1 DEF ReaderIInv
<1>7. CASE ~(n < Wanted)
  <2>0. /\ length = NoLength => Len(b) = HEADER
        /\ length # NoLength => Len(b) = length
    <3>1. n = Wanted /\ Len(b) = Len(buf) + n
      <4>1. Wanted \in Int /\ HEADER \in Nat
        BY <1>4 DEF Wanted
      <4>2. n \in Int /\ n <= Wanted /\ ~(n < Wanted)
        BY <1>1, <1>2, <1>7
      <4> QED
        BY <4>1, <4>2, <1>3
    <3>2. CASE length = NoLength
      BY <3>1, <3>2, <1>4 DEF Wanted
    <3>3. CASE length # NoLength
      BY <3>1, <3>3, <1>4 DEF Wanted
    <3> QED
      BY <3>2, <3>3
  <2>1. Unread' = w /\ buf' = <<>> /\ Len(buf') = 0
    BY <1>2, <1>3, <1>7, ConcatEmptySeq DEF Unread
  <2>2. Len(w) \in Nat /\ (w # <<>> <=> Len(w) > 0)
    BY <1>3
  <2>3. CASE length = NoLength
    <3>1. /\ i \in DOMAIN sent /\ Announced(b) = {sent[i].size}
          /\ sent[i].size \in Nat /\ sent[i].json \in BOOLEAN
          /\ sent[i].size > 0 /\ w # <<>> => w[1] = <<i, HEADER + 1>>
          /\ link = "up" /\ sent[i].size > 0 => w # <<>>
      <4>1. Len(b) = HEADER /\ Len(b) <= Len(Unread) /\ ReaderIInv /\ end = "open"
        BY <1>1, <1>3, <2>0, <2>3
      <4> QED
        BY ONLY <4>1, <1>3, <2>3, HeaderLemma
    <3>2. HeaderIn(b) /\ got' = got /\ i \in 1..Len(sent)
      BY <1>2, <1>4, <1>7, <2>3, <3>1 DEF HeaderIn
    <3>3. CASE Fits(sent[i].size)
      <4>1. length' = sent[i].size /\ UNCHANGED <<reads, end>>
        BY <3>1, <3>2, <3>3 DEF HeaderIn
      <4>2. length' # NoLength /\ sent[i].size > 0 /\ length' \in 1..FRAME_MAX
        BY <3>1, <3>3, <4>1 DEF Fits, NoLength
      <4>3. ReaderTypeOK'
        BY <1>1, <1>2, <1>3, <2>1, <3>2, <4>1, <4>2 DEF ReaderTypeOK
      <4>4. Aligned'
        BY <1>1, <1>2, <1>4, <2>1, <3>1, <3>2, <4>1, <4>2 DEF Aligned
      <4>5. link' = "up" => Complete'
        BY <1>1, <1>2, <1>5, <2>1, <3>1, <4>2 DEF Complete
      <4>6. Stream(Unread', sent')
        BY <1>1, <1>2, <1>5, <2>1
      <4> QED
        BY <4>1, <4>3, <4>4, <4>5, <4>6, <1>1, <1>2, <3>2 DEF ReaderIInv
    <3>4. CASE ~Fits(sent[i].size)
      <4>1. reads' = "over" /\ end' = "refused" /\ length' = length
        BY <3>1, <3>2, <3>4 DEF HeaderIn, Finish
      <4>2. ReaderTypeOK'
        BY <1>1, <1>2, <1>3, <2>1, <2>3, <3>2, <4>1 DEF ReaderTypeOK
      <4>3. Channel!Refuse
        BY <1>1, <1>2, <1>4, <3>2, <3>4, <4>1
           DEF Channel!Refuse, Channel!More, Channel!Due, Valid
      <4> QED
        BY <4>1, <4>2, <4>3 DEF ReaderIInv, Channel!Next
    <3> QED
      BY <3>3, <3>4
  <2>4. CASE length # NoLength
    <3>1. /\ i \in DOMAIN sent /\ Fits(sent[i].size) /\ sent[i].json \in BOOLEAN
          /\ b = Payload(i, sent[i].size)
          /\ \A j \in DOMAIN sent : b = Payload(j, sent[j].size) => j = i
          /\ w # <<>> => w[1] = <<i + 1, 1>>
          /\ link = "up" /\ w = <<>> => i = Len(sent)
      <4>1. Len(b) = length /\ Len(b) <= Len(Unread) /\ ReaderIInv /\ end = "open"
        BY <1>1, <1>3, <2>0, <2>4
      <4> QED
        BY ONLY <4>1, <1>3, <2>4, PayloadLemma
    <3>2. PayloadIn(b) /\ length' = NoLength /\ i \in 1..Len(sent)
      BY <1>2, <1>4, <1>7, <2>4, <3>1 DEF PayloadIn
    <3>3. CASE sent[i].json
      <4>1. got' = Append(got, sent[i]) /\ reads' = "idle" /\ end' = end
        BY <3>1, <3>2, <3>3 DEF PayloadIn
      <4>2. sent[i] \in Frame /\ got' \in Seq(Frame) /\ Len(got') = i
        BY <1>4, <3>2, <4>1
      <4>3. ReaderTypeOK'
        BY <1>1, <1>2, <1>3, <2>1, <3>2, <4>1, <4>2 DEF ReaderTypeOK, NoLength
      <4>4. Aligned'
        BY <1>2, <1>4, <2>1, <3>1, <3>2, <4>2 DEF Aligned
      <4>5. link' = "up" => Complete'
        BY <1>1, <1>2, <1>5, <2>1, <3>1, <3>2, <4>2 DEF Complete
      <4>6. Stream(Unread', sent')
        BY <1>1, <1>2, <1>5, <2>1
      <4>7. Channel!Deliver
        BY <1>1, <1>2, <1>4, <3>1, <3>2, <3>3, <4>1
           DEF Channel!Deliver, Channel!More, Channel!Due, Valid
      <4> QED
        BY <4>1, <4>3, <4>4, <4>5, <4>6, <4>7, <1>1, <1>2 DEF ReaderIInv, Channel!Next
    <3>4. CASE ~sent[i].json
      <4>1. reads' = "over" /\ end' = "refused" /\ got' = got
        BY <3>1, <3>2, <3>4 DEF PayloadIn, Finish
      <4>2. ReaderTypeOK'
        BY <1>1, <1>2, <1>3, <2>1, <3>2, <4>1 DEF ReaderTypeOK, NoLength
      <4>3. Channel!Refuse
        BY <1>1, <1>2, <1>4, <3>2, <3>4, <4>1
           DEF Channel!Refuse, Channel!More, Channel!Due, Valid
      <4> QED
        BY <4>1, <4>2, <4>3 DEF ReaderIInv, Channel!Next
    <3> QED
      BY <3>3, <3>4
  <2> QED
    BY <2>3, <2>4
<1> QED
  BY <1>6, <1>7

LEMMA PanelSendsLemma ==
    ASSUME ReaderIInv, NEW f \in Frame, PanelSends(f)
    PROVE  ReaderIInv' /\ [Channel!Next]_<<sent, got, end>>
<1> DEFINE m == Len(sent) + 1
<1>1. /\ link = "up" /\ end = "open" /\ ReaderTypeOK /\ Stream(Unread, sent) /\ Aligned /\ Complete
      /\ UNCHANGED <<link, buf, length, reads, got, end, cancels>>
      /\ sent' = Append(sent, f) /\ Len(sent) < FramesMax
  BY DEF PanelSends, ReaderIInv
<1>2. /\ sent \in Seq(Frame) /\ Len(sent) \in Nat /\ FramesMax \in Nat
      /\ buf \in Seq(Byte) /\ wire \in Seq(Byte) /\ Unread \in Seq(Byte)
      /\ Len(got) \in Nat
  BY <1>1, ReaderAssumption DEF ReaderTypeOK, Unread
<1>3. /\ sent' \in Seq(Frame) /\ Len(sent') = m /\ m \in 1..FramesMax /\ sent' # <<>>
      /\ \A i \in 1..Len(sent) : sent'[i] = sent[i]
  BY <1>1, <1>2
<1>4. wire' = wire \o Bytes(m, f)
  BY <1>3 DEF PanelSends
<1>5. Bytes(m, f) \in Seq(Byte)
  <2>1. Bytes(m, f) \in Seq({m} \X Nat)
    BY <1>3, BytesLemma
  <2>2. {m} \X Nat \subseteq Byte
    BY <1>3 DEF Byte
  <2> QED
    BY <2>1, <2>2, SeqMonotonic
<1>6. wire' \in Seq(Byte) /\ Unread' = Unread \o Bytes(m, f)
  <2>1. wire' \in Seq(Byte)
    BY <1>2, <1>4, <1>5, ConcatProperties
  <2>2. (buf \o wire) \o Bytes(m, f) = buf \o (wire \o Bytes(m, f))
    BY <1>2, <1>5, ConcatAssociative, SMTT(40)
  <2> QED
    BY <2>1, <2>2, <1>1, <1>4 DEF Unread
<1>7. /\ Stream(Unread', sent') /\ Whole(Unread', sent') /\ Unread' # <<>>
      /\ Unread'[1] = IF Unread = <<>> THEN <<m, 1>> ELSE Unread[1]
  BY <1>1, <1>2, <1>6, SentLemma DEF Complete
<1>8. Aligned'
  <2>1. Unread = <<>> => length = NoLength /\ m = Len(got) + 1
    BY <1>1 DEF Complete
  <2>2. /\ Len(got) <= Len(sent)
        /\ Unread # <<>> => Unread[1] = <<Len(got) + 1, IF length = NoLength THEN 1 ELSE HEADER + 1>>
        /\ length # NoLength => Len(got) < Len(sent) /\ length = sent[Len(got) + 1].size
    BY <1>1 DEF Aligned
  <2>3. Unread'[1] = <<Len(got) + 1, IF length = NoLength THEN 1 ELSE HEADER + 1>>
    BY <1>7, <2>1, <2>2
  <2>4. Len(got) <= Len(sent')
    BY <1>2, <1>3, <2>2
  <2>5. ASSUME length # NoLength
        PROVE  Len(got) < Len(sent') /\ length = sent'[Len(got) + 1].size
    <3>1. Len(got) < Len(sent) /\ length = sent[Len(got) + 1].size /\ Len(got) + 1 \in 1..Len(sent)
      BY <1>2, <2>2, <2>5
    <3>2. Len(got) < Len(sent') /\ sent'[Len(got) + 1] = sent[Len(got) + 1]
      BY <3>1, <1>2, <1>3
    <3> QED
      BY <3>1, <3>2
  <2>6. got' = got /\ length' = length
    BY <1>1
  <2> QED
    BY ONLY <2>3, <2>4, <2>5, <2>6 DEF Aligned
<1>9. ReaderTypeOK'
  BY <1>1, <1>3, <1>6 DEF ReaderTypeOK
<1>10. Channel!Next
  BY <1>1 DEF Channel!Next, Channel!Send
<1> QED
  BY <1>1, <1>7, <1>8, <1>9, <1>10 DEF ReaderIInv, Complete

LEMMA LinkEndsLemma == ASSUME ReaderIInv, LinkEnds PROVE ReaderIInv' /\ UNCHANGED <<sent, got, end>>
<1>1. PICK n \in 0..Len(wire) : wire' = SubSeq(wire, 1, n)
  BY DEF LinkEnds
<1>2. /\ link' \in {"eof", "timedout"} /\ UNCHANGED <<sent, buf, length, reads, got, end, cancels>>
      /\ ReaderTypeOK
  BY DEF LinkEnds, ReaderIInv
<1>3. wire' \in Seq(Byte) /\ ReaderTypeOK'
  BY <1>1, <1>2 DEF ReaderTypeOK
<1>4. Unread' = Filled(n)
  BY <1>1, <1>2 DEF Unread, Filled
<1>5. /\ Unread' \in Seq(Byte) /\ Unread \in Seq(Byte) /\ Len(Unread') \in 0..Len(Unread)
      /\ \A k \in 1..Len(Unread') : Unread'[k] = Unread[k]
  BY <1>2, <1>4, CutWireLemma
<1>6. ASSUME end = "open" PROVE Stream(Unread', sent') /\ Aligned'
  <2>1. Stream(Unread, sent) /\ Aligned /\ sent \in Seq(Frame) /\ Len(Unread) \in Nat
    BY <1>2, <1>5, <1>6 DEF ReaderIInv, ReaderTypeOK
  <2>2. Stream(Unread', sent)
    BY <1>5, <2>1, CutLemma
  <2>3. Unread' # <<>> => Unread # <<>> /\ Unread'[1] = Unread[1]
    <3>1. Unread' # <<>> => Len(Unread') > 0
      BY <1>5
    <3> QED
      BY <3>1, <1>5, <2>1
  <2> QED
    BY <2>1, <2>2, <2>3, <1>2 DEF Aligned
<1> QED
  BY <1>2, <1>3, <1>6 DEF ReaderIInv

\* Every step of the reader keeps the invariant and is one the channel allows.
LEMMA ReaderStepLemma ==
    ASSUME ReaderIInv, [ReaderNext]_readerVars
    PROVE  ReaderIInv' /\ [Channel!Next]_<<sent, got, end>>
<1>1. CASE Begins \/ ReadTimesOut \/ ReadCancelled \/ UNCHANGED readerVars
  <2>1. UNCHANGED <<sent, wire, link, buf, length, got, end>> /\ cancels' \in 0..CancelsMax
    BY <1>1, ReaderAssumption
       DEF Begins, ReadTimesOut, ReadCancelled, readerVars, ReaderIInv, ReaderTypeOK
  <2>2. /\ reads' \in {"idle", "first", "stall", "quiet", "over"}
        /\ reads' = "over" <=> reads = "over"
    BY <1>1 DEF Begins, ReadTimesOut, ReadCancelled, Reading, readerVars, ReaderIInv, ReaderTypeOK
  <2>3. Unread' = Unread
    BY <2>1 DEF Unread
  <2>4. ReaderTypeOK'
    BY <2>1, <2>2 DEF ReaderIInv, ReaderTypeOK
  <2>5. Aligned' = Aligned /\ Complete' = Complete /\ Stream(Unread', sent') = Stream(Unread, sent)
    BY <2>1, <2>3 DEF Aligned, Complete
  <2> QED
    BY <2>1, <2>2, <2>4, <2>5 DEF ReaderIInv
<1>2. CASE ReadEof \/ StallEnds
  <2>1. /\ reads # "over" /\ reads' = "over" /\ end' = "gone"
        /\ UNCHANGED <<sent, wire, link, buf, length, got, cancels>>
    BY <1>2 DEF ReadEof, StallEnds, Reading, Finish
  <2>2. ReaderTypeOK' /\ end = "open"
    BY <2>1 DEF ReaderIInv, ReaderTypeOK
  <2> QED
    BY <2>1, <2>2 DEF ReaderIInv, Channel!Next, Channel!Ends
<1>3. CASE \E n \in 1..Len(wire) : Read(n)
  BY <1>3, ReadLemma
<1>4. CASE LinkEnds
  BY <1>4, LinkEndsLemma
<1>5. CASE \E f \in Frame : PanelSends(f)
  BY <1>5, PanelSendsLemma
<1> QED
  BY <1>1, <1>2, <1>3, <1>4, <1>5 DEF ReaderNext

\* The frames of the panel, however their bytes arrive and wherever reads are
\* interrupted, are told one by one, in order, and only what is no message is
\* refused: the reader implements MessageChannel (HA10).
THEOREM ImplementsChannel == ReaderSpec => IsChannel
<1>1. ReaderInit => Channel!Init
  BY DEF ReaderInit, Channel!Init
<1>2. ReaderIInv /\ [ReaderNext]_readerVars => ReaderIInv' /\ [Channel!Next]_<<sent, got, end>>
  BY ReaderStepLemma
<1> QED
  BY <1>1, <1>2, ReaderInitLemma, PTL DEF ReaderSpec, IsChannel, Channel!Spec

\* What the reader keeps is bytes of the panel's, less than it waits for.
THEOREM ReaderTypeCorrect == ReaderSpec => []ReaderTypeOK
<1>1. ReaderIInv => ReaderTypeOK
  BY DEF ReaderIInv
<1>2. ReaderIInv /\ [ReaderNext]_readerVars => ReaderIInv'
  BY ReaderStepLemma
<1> QED
  BY <1>1, <1>2, ReaderInitLemma, PTL DEF ReaderSpec
==============================================================================

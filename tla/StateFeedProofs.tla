--------------------------- MODULE StateFeedProofs ---------------------------
(***************************************************************************)
(* What holds of StateFeed for every set of entities, values, options,     *)
(* watch lists and listeners.                                              *)
(***************************************************************************)
EXTENDS StateFeed, FiniteSetTheorems, TLAPS

------------------------------------------------------------------------------
(* Filtering a list and cutting it into pages                              *)

\* Filter keeps the elements that are in S, all of them, in their order: h
\* says where in the list each one comes from.
LEMMA FilterLemma ==
    ASSUME NEW T, NEW s \in Seq(T), NEW S
    PROVE  /\ Filter(s, S) \in Seq(T)
           /\ \E h \in [1..Len(Filter(s, S)) -> 1..Len(s)] :
                /\ \A k \in 1..Len(Filter(s, S)) :
                     Filter(s, S)[k] = s[h[k]] /\ s[h[k]] \in S
                /\ \A k, l \in 1..Len(Filter(s, S)) : k < l => h[k] < h[l]
                /\ \A i \in 1..Len(s) :
                     s[i] \in S => \E k \in 1..Len(Filter(s, S)) : h[k] = i
<1> DEFINE K == {i \in DOMAIN s : s[i] \in S}
           UpTo(i) == {j \in K : j <= i}
           Rank(i) == Cardinality(UpTo(i))
           n == Cardinality(K)
           at == [k \in 1..n |-> CHOOSE i \in K : Rank(i) = k]
           rank == [i \in K |-> Rank(i)]
<1>1. K \subseteq 1..Len(s) /\ Len(s) \in Nat
  OBVIOUS
<1>2. IsFiniteSet(K) /\ n \in Nat
  <2>1. IsFiniteSet(1..Len(s))
    BY <1>1, FS_Interval
  <2> QED
    BY <1>1, <2>1, FS_Subset, FS_CardinalityType
<1>3. ASSUME NEW i \in K PROVE IsFiniteSet(UpTo(i)) /\ Rank(i) \in 1..n
  <2>1. UpTo(i) \in SUBSET K /\ i \in UpTo(i)
    BY <1>1
  <2>2. IsFiniteSet(UpTo(i)) /\ Rank(i) <= n
    BY <1>2, <2>1, FS_Subset
  <2>3. Rank(i) \in Nat /\ Rank(i) # 0
    BY <2>1, <2>2, FS_CardinalityType, FS_EmptySet
  <2> QED
    BY <1>2, <2>2, <2>3
<1>4. ASSUME NEW i \in K, NEW j \in K, i < j PROVE Rank(i) < Rank(j)
  <2>1. UpTo(i) \in SUBSET UpTo(j) /\ j \in UpTo(j) /\ j \notin UpTo(i)
    BY <1>1, <1>4
  <2>2. Rank(i) <= Rank(j) /\ Rank(i) # Rank(j)
    <3>1. IsFiniteSet(UpTo(j)) /\ UpTo(i) # UpTo(j)
      BY <1>3, <2>1
    <3> HIDE DEF UpTo
    <3> QED
      BY <2>1, <3>1, FS_Subset
  <2> HIDE DEF Rank, n, UpTo, K
  <2>3. Rank(i) \in Nat /\ Rank(j) \in Nat
    BY <1>2, <1>3
  <2> QED
    BY <2>2, <2>3
<1> HIDE DEF Rank, UpTo, n
<1>5. \A i, j \in K : Rank(i) = Rank(j) => i = j
  <2> SUFFICES ASSUME NEW i \in K, NEW j \in K, i # j PROVE Rank(i) # Rank(j)
    OBVIOUS
  <2>1. Rank(i) \in Nat /\ Rank(j) \in Nat /\ i \in Nat /\ j \in Nat
    BY <1>1, <1>2, <1>3
  <2>2. CASE i < j
    BY <1>4, <2>1, <2>2
  <2>3. CASE j < i
    BY <1>4, <2>1, <2>3
  <2> QED
    BY <2>1, <2>2, <2>3
<1>6. ASSUME NEW k \in 1..n PROVE \E i \in K : Rank(i) = k
  <2>1. rank \in Injection(K, 1..n)
    BY <1>3, <1>5 DEF Injection, IsInjective
  <2>2. IsFiniteSet(1..n) /\ Cardinality(1..n) = n
    BY <1>2, FS_Interval
  <2>3. rank \in Surjection(K, 1..n)
    BY <2>1, <2>2, FS_Injection DEF n
  <2> QED
    BY <1>6, <2>3 DEF Surjection
<1>7. \A k \in 1..n : at[k] \in K /\ Rank(at[k]) = k
  BY <1>6
<1>8. Filter(s, S) = [k \in 1..n |-> s[at[k]]]
  BY DEF Filter, Rank, UpTo, n
<1> HIDE DEF at
<1>9. \A k \in 1..n : s[at[k]] \in T /\ s[at[k]] \in S /\ at[k] \in 1..Len(s)
  BY <1>1, <1>7
<1>10. Filter(s, S) \in Seq(T) /\ Len(Filter(s, S)) = n
  <2>1. Filter(s, S) \in [1..n -> T]
    BY <1>8, <1>9
  <2> QED
    BY <1>2, <2>1, <1>8
<1>11. \A k, l \in 1..n : k < l => at[k] < at[l]
  <2> SUFFICES ASSUME NEW k \in 1..n, NEW l \in 1..n, k < l, ~(at[k] < at[l]) PROVE FALSE
    OBVIOUS
  <2>1. at[k] \in K /\ at[l] \in K /\ Rank(at[k]) = k /\ Rank(at[l]) = l
    BY <1>7
  <2>2. at[k] \in Nat /\ at[l] \in Nat /\ k \in Nat /\ l \in Nat
    BY <1>9, <1>2
  <2>3. CASE at[k] = at[l]
    BY <2>1, <2>2, <2>3
  <2>4. CASE at[l] < at[k]
    BY <1>4, <2>1, <2>2, <2>4
  <2> QED
    BY <2>2, <2>3, <2>4
<1>12. ASSUME NEW i \in 1..Len(s), s[i] \in S PROVE \E k \in 1..n : at[k] = i
  <2>1. i \in K /\ Rank(i) \in 1..n
    BY <1>3, <1>12
  <2> QED
    BY <1>5, <1>7, <2>1
<1>13. at \in [1..n -> 1..Len(s)]
  BY <1>9 DEF at
<1> QED
  BY <1>8, <1>9, <1>10, <1>11, <1>12, <1>13

\* ... and so its elements are those of s that are in S.
LEMMA FilterElems ==
    ASSUME NEW T, NEW s \in Seq(T), NEW S
    PROVE  Elems(Filter(s, S)) = Elems(s) \cap S
<1> DEFINE f == Filter(s, S)
<1>1. PICK h \in [1..Len(f) -> 1..Len(s)] :
        /\ \A k \in 1..Len(f) : f[k] = s[h[k]] /\ s[h[k]] \in S
        /\ \A i \in 1..Len(s) : s[i] \in S => \E k \in 1..Len(f) : h[k] = i
  BY FilterLemma
<1>2. f \in Seq(T) /\ DOMAIN f = 1..Len(f) /\ DOMAIN s = 1..Len(s)
  BY FilterLemma
<1> HIDE DEF f
<1>3. Elems(f) = Elems(s) \cap S
  <2>1. ASSUME NEW x \in Elems(f) PROVE x \in Elems(s) \cap S
    BY <1>1, <1>2 DEF Elems
  <2>2. ASSUME NEW x \in Elems(s) \cap S PROVE x \in Elems(f)
    <3>1. PICK i \in 1..Len(s) : s[i] = x
      BY <1>2 DEF Elems
    <3>2. PICK k \in 1..Len(f) : h[k] = i
      BY <1>1, <3>1
    <3> QED
      BY <1>1, <1>2, <3>1, <3>2 DEF Elems
  <2> QED
    BY <2>1, <2>2
<1> QED
  BY <1>3 DEF f

LEMMA ConcatElems ==
    ASSUME NEW T, NEW s \in Seq(T), NEW u \in Seq(T)
    PROVE  Elems(s \o u) = Elems(s) \cup Elems(u)
<1> DEFINE c == s \o u
<1>1. /\ Len(c) = Len(s) + Len(u) /\ DOMAIN c = 1..Len(c)
      /\ DOMAIN s = 1..Len(s) /\ DOMAIN u = 1..Len(u) /\ Len(s) \in Nat /\ Len(u) \in Nat
  OBVIOUS
<1>2. \A i \in 1..Len(s) : c[i] = s[i]
  OBVIOUS
<1>3. \A i \in 1..Len(u) : Len(s) + i \in 1..Len(c) /\ c[Len(s) + i] = u[i]
  OBVIOUS
<1>4. \A i \in 1..Len(c) : i \in 1..Len(s) \/ (i - Len(s) \in 1..Len(u) /\ c[i] = u[i - Len(s)])
  OBVIOUS
<1> HIDE DEF c
<1>5. Elems(c) \subseteq Elems(s) \cup Elems(u)
  BY <1>1, <1>2, <1>4 DEF Elems
<1>6. Elems(s) \subseteq Elems(c)
  BY <1>1, <1>2 DEF Elems
<1>7. Elems(u) \subseteq Elems(c)
  BY <1>1, <1>3 DEF Elems
<1> QED
  BY <1>5, <1>6, <1>7 DEF c

LEMMA TailElems ==
    ASSUME NEW T, NEW s \in Seq(T), s # <<>>
    PROVE  Elems(s) = {Head(s)} \cup Elems(Tail(s))
<1> DEFINE u == Tail(s)
<1>1. /\ Len(s) \in Nat \ {0} /\ Len(u) = Len(s) - 1
      /\ DOMAIN s = 1..Len(s) /\ DOMAIN u = 1..Len(u)
      /\ \A i \in 1..Len(u) : u[i] = s[i + 1]
      /\ Head(s) = s[1]
  OBVIOUS
<1> HIDE DEF u
<1>2. Elems(u) \subseteq Elems(s) /\ Head(s) \in Elems(s)
  BY <1>1 DEF Elems
<1>3. ASSUME NEW x \in Elems(s) PROVE x = Head(s) \/ x \in Elems(u)
  <2>1. PICK i \in 1..Len(s) : x = s[i]
    BY <1>1, <1>3 DEF Elems
  <2>2. CASE i > 1
    <3>1. i - 1 \in 1..Len(u) /\ u[i - 1] = s[i]
      BY <1>1, <2>2
    <3> QED
      BY <1>1, <2>1, <3>1 DEF Elems
  <2> QED
    BY <1>1, <2>1, <2>2
<1> QED
  BY <1>2, <1>3 DEF u

LEMMA AppendElems ==
    ASSUME NEW T, NEW s \in Seq(T), NEW x \in T
    PROVE  Elems(Append(s, x)) = Elems(s) \cup {x}
<1> DEFINE c == Append(s, x)
<1>1. /\ Len(c) = Len(s) + 1 /\ DOMAIN c = 1..Len(c) /\ DOMAIN s = 1..Len(s)
      /\ Len(s) \in Nat /\ c[Len(c)] = x /\ \A i \in 1..Len(s) : c[i] = s[i]
  OBVIOUS
<1> HIDE DEF c
<1>2. Elems(c) = Elems(s) \cup {x}
  BY <1>1 DEF Elems
<1> QED
  BY <1>2 DEF c

\* The options lists are sequences of entities, and what is made of them.
LEMMA ListsLemma ==
    ASSUME FeedAssumption, options \in Options
    PROVE  /\ Allowed \in Seq(Entity) /\ Controllable \in Seq(Entity)
           /\ Catalogued \in Seq(Entity)
<1>1. Allowed \in Seq(Entity) /\ Controllable \in Seq(Entity)
  BY DEF FeedAssumption, Allowed, Controllable
<1>2. Without(Controllable, Allowed) \in Seq(Entity)
  BY <1>1, FilterLemma DEF Without
<1> QED
  BY <1>1, <1>2 DEF Catalogued

LEMMA SubscribedLemma ==
    ASSUME FeedAssumption, options \in Options, NEW w \in Seq(Entity)
    PROVE  Elems(Subscribed(w)) = Elems(w) \cup Elems(Controllable)
<1>1. Controllable \in Seq(Entity)
  BY ListsLemma
<1> DEFINE r == Without(Controllable, w)
<1>2. r \in Seq(Entity) /\ Elems(r) = Elems(Controllable) \ Elems(w)
  BY <1>1, FilterLemma, FilterElems DEF Without
<1> HIDE DEF r
<1>3. Elems(w \o r) = Elems(w) \cup Elems(r)
  BY <1>2, ConcatElems
<1>4. Subscribed(w) = w \o r
  BY DEF Subscribed, r
<1> QED
  BY <1>2, <1>3, <1>4

\* Every place in the list is on a page.
LEMMA PageOf ==
    ASSUME NEW p \in Nat \ {0}, NEW n \in Nat, NEW j \in 1..n
    PROVE  \E i \in 1..((n + p - 1) \div p) : (i - 1) * p + 1 <= j /\ j <= i * p
<1> DEFINE q == (j - 1) \div p
           r == (j - 1) % p
           a == n + p - 1
           m == a \div p
<1>1. q \in Nat /\ r \in Nat /\ r < p /\ j - 1 = p * q + r
  OBVIOUS
<1>2. m \in Nat /\ a % p \in Nat /\ a % p < p /\ a = p * m + (a % p)
  OBVIOUS
<1> HIDE DEF q, r, m
<1>3. q * p + 1 <= j /\ j <= (q + 1) * p
  BY <1>1
<1>4. q + 1 <= m
  BY <1>1, <1>2
<1>5. q + 1 \in 1..m /\ (q + 1) - 1 = q
  BY <1>1, <1>2, <1>4
<1> QED
  BY <1>3, <1>5 DEF m

\* A catalog has a page at least, page 0 comes first and is the only first one,
\* and everything the options list is on some page.
LEMMA PagesLemma ==
    ASSUME FeedAssumption, options \in Options
    PROVE  /\ Pages \in Seq(Step) /\ Len(Pages) \in Nat \ {0}
           /\ \A i \in 1..Len(Pages) : Pages[i].op = "page" /\ (Pages[i].first <=> i = 1)
           /\ \A x \in Elems(Catalogued) :
                \E i \in 1..Len(Pages) : x \in Elems(Pages[i].list)
<1> DEFINE s == Catalogued
           n == IF s = <<>> THEN 1 ELSE (Len(s) + PageSize - 1) \div PageSize
           to(i) == IF i * PageSize < Len(s) THEN i * PageSize ELSE Len(s)
           list(i) == SubSeq(s, (i - 1) * PageSize + 1, to(i))
<1>1. s \in Seq(Entity) /\ Len(s) \in Nat /\ PageSize \in Nat \ {0}
  BY ListsLemma DEF FeedAssumption
<1> HIDE DEF s
<1>2. n \in Nat \ {0}
  <2>1. CASE s = <<>>
    BY <2>1
  <2>2. CASE s # <<>>
    <3>1. 1 \in 1..Len(s)
      BY <1>1, <2>2
    <3>2. \E i \in 1..n : (i - 1) * PageSize + 1 <= 1 /\ 1 <= i * PageSize
      BY <1>1, <2>2, <3>1, PageOf
    <3>3. n \in Int
      BY <1>1, <2>2
    <3> QED
      BY <3>2, <3>3
  <2> QED
    BY <2>1, <2>2
<1>3. Pages = [i \in 1..n |-> [op |-> "page", first |-> i = 1, list |-> list(i)]]
  BY DEF Pages, s
<1> HIDE DEF n
<1>4. ASSUME NEW i \in 1..n
      PROVE  /\ (i - 1) * PageSize + 1 \in Nat \ {0} /\ to(i) \in Nat /\ to(i) <= Len(s)
             /\ list(i) \in Seq(Entity)
             /\ \A j \in 1..Len(s) : (i - 1) * PageSize + 1 <= j /\ j <= i * PageSize
                   => s[j] \in Elems(list(i))
  <2>1. i \in Nat \ {0} /\ i - 1 \in Nat
    BY <1>2
  <2>2. (i - 1) * PageSize \in Nat /\ i * PageSize \in Nat
    BY <1>1, <2>1
  <2> DEFINE a == (i - 1) * PageSize + 1
             b == to(i)
             l == SubSeq(s, a, b)
  <2>3. a \in Nat \ {0} /\ b \in Nat /\ b <= Len(s)
    <3> DEFINE q == i * PageSize
               r == (i - 1) * PageSize
    <3>1. q \in Nat /\ r \in Nat /\ a = r + 1 /\ b = (IF q < Len(s) THEN q ELSE Len(s))
      BY <2>2
    <3> HIDE DEF q, r, a, b, to
    <3> QED
      BY <1>1, <3>1
  <2>4. ASSUME NEW j \in 1..Len(s), a <= j, j <= i * PageSize PROVE j <= b /\ a <= j
    BY <1>1, <2>2, <2>4
  <2>5. list(i) = l
    OBVIOUS
  <2> HIDE DEF a, b, to, list
  <2>6. l = [k \in 1..(b - a + 1) |-> s[a + k - 1]] /\ l \in Seq(Entity)
    <3>1. l = [k \in 1..(b - a + 1) |-> s[a + k - 1]]
      BY <1>1, <2>3 DEF l
    <3>2. \A k \in 1..(b - a + 1) : a + k - 1 \in 1..Len(s)
      BY <1>1, <2>3
    <3>3. \A k \in 1..(b - a + 1) : s[a + k - 1] \in Entity
      BY <1>1, <3>2
    <3>4. b - a + 1 \in Int
      BY <2>3
    <3>5. [k \in 1..(b - a + 1) |-> s[a + k - 1]] \in Seq(Entity)
      <4>1. CASE b - a + 1 \in Nat
        BY <3>3, <4>1
      <4>2. CASE b - a + 1 \notin Nat
        <5>1. 1..(b - a + 1) = 1..0
          BY <3>4, <4>2
        <5>2. [k \in 1..0 |-> s[a + k - 1]] = <<>>
          OBVIOUS
        <5>3. <<>> \in Seq(Entity)
          OBVIOUS
        <5> QED
          BY <5>1, <5>2, <5>3
      <4> QED
        BY <4>1, <4>2
    <3> QED
      BY <3>1, <3>5
  <2> HIDE DEF l
  <2>7. ASSUME NEW j \in 1..Len(s), a <= j, j <= b PROVE s[j] \in Elems(l)
    <3>1. j - a + 1 \in 1..(b - a + 1) /\ a + (j - a + 1) - 1 = j
      BY <1>1, <2>3, <2>7
    <3>2. l[j - a + 1] = s[j] /\ DOMAIN l = 1..(b - a + 1)
      BY <2>6, <3>1
    <3> QED
      BY <3>1, <3>2 DEF Elems
  <2> QED
    BY <2>3, <2>4, <2>5, <2>6, <2>7 DEF a, b, to
<1> HIDE DEF list, to
<1>5. ASSUME NEW i \in 1..n
      PROVE  Pages[i] = [op |-> "page", first |-> i = 1, list |-> list(i)] /\ Pages[i] \in Step
  BY <1>3, <1>4 DEF Step
<1>6. Pages \in Seq(Step) /\ Len(Pages) = n
  <2>1. Pages \in [1..n -> Step]
    BY <1>3, <1>5
  <2> QED
    BY <1>2, <1>3, <2>1
<1>7. ASSUME NEW x \in Elems(s) PROVE \E i \in 1..n : x \in Elems(Pages[i].list)
  <2>1. PICK j \in 1..Len(s) : x = s[j]
    BY <1>1, <1>7 DEF Elems
  <2>2. n = (Len(s) + PageSize - 1) \div PageSize
    BY <1>1, <2>1 DEF n
  <2>3. PICK i \in 1..n : (i - 1) * PageSize + 1 <= j /\ j <= i * PageSize
    BY <1>1, <2>2, PageOf
  <2>4. s[j] \in Elems(list(i))
    BY <1>4, <2>3
  <2>5. Pages[i] = [op |-> "page", first |-> i = 1, list |-> list(i)]
    BY <1>5
  <2>6. Pages[i].list = list(i)
    BY <2>5
  <2> QED
    BY <2>1, <2>4, <2>6
<1>8. ASSUME NEW i \in 1..n PROVE Pages[i].op = "page" /\ (Pages[i].first <=> i = 1)
  <2>1. Pages[i] = [op |-> "page", first |-> i = 1, list |-> list(i)]
    BY <1>5
  <2>2. Pages[i].op = "page"
    BY <2>1
  <2>3. Pages[i].first = (i = 1)
    BY <2>1
  <2> QED
    BY <2>2, <2>3, Zenon
<1> QED
  BY <1>2, <1>6, <1>7, <1>8 DEF s
------------------------------------------------------------------------------
(* The inductive invariant                                                 *)

Steps(t) == Elems(todo[t])

\* A step that opens what a task does: it is taken before the task waits.
Opens(s) == s.op \in {"catalog", "watch"} \/ s.first

\* A coroutine's remaining steps: what opens it comes first, pushControl last.
WellFormed(steps) ==
    \A i \in 1..Len(steps) :
        /\ Opens(steps[i]) => i = 1
        /\ steps[i].op = "pushControl" => i = Len(steps)
        /\ steps[i].op = "state" => Len(steps[i].list) = 1
        /\ steps[i].first => steps[i].op = "page"

\* A task that pushes is running, waits for a send, or is about to learn that
\* its send raised; it has not waited since a step that opens it; and it ends
\* with pushControl if it is to filter the watch list again.
Tasks ==
    \A t \in Pusher :
        /\ WellFormed(todo[t])
        /\ todo[t] # <<>> => cpu = t \/ t \in failed \/ t \in Senders
        /\ cpu # t => \A s \in Steps(t) : ~Opens(s)
        /\ \A s \in Steps(t) : s.op \in {"watch", "rewatchIfUnseen"} => t = "link"
        /\ \A s \in Steps(t) : s.op \in {"rewatch", "rewatchIfUnseen"} =>
             \E r \in Steps(t) : r.op = "pushControl"

\* Each task waits in one place at most, a state message is of one entity.
Queued ==
    /\ \A i, j \in 1..Len(sendq) : sendq[i].by = sendq[j].by => i = j
    /\ \A i \in 1..Len(sendq) :
         sendq[i].op = "state" => Len(sendq[i].list) = 1 /\ sendq[i].value \in Value
    /\ cpu \notin Senders /\ cpu \notin failed /\ Senders \cap failed = {}
    /\ draining <=> cpu = "drain" \/ "drain" \in failed \/ "drain" \in Senders

\* What there is only while a connection is up, and only while it is not.
PerLink ==
    /\ sendq # <<>> => link = "up"
    /\ failed # {} => link # "up"
    /\ link = "down" => \A e \in Entity : sent[e] = None
    /\ link # "up" => \A e \in Entity : told[e] = None

OutboxOnce ==
    /\ \A i, j \in 1..Len(outbox) : outbox[i] = outbox[j] => i = j
    /\ Elems(outbox) \subseteq sub
    /\ outbox # <<>> => draining

\* What there is before the first connection: no coroutine, no subscription.
Unmade ==
    /\ link # "down" => loaded
    /\ loaded /\ ~listening /\ link = "down" =>
         sub = {} /\ failed = {} /\ \A t \in Pusher : todo[t] = <<>>

IInv == TypeOK /\ Tasks /\ Queued /\ PerLink /\ OutboxOnce

\* The head of the queue has been written; what is remembered of any other
\* entity is what the panel was given last.
Writing(e) == sendq # <<>> /\ Head(sendq).op = "state" /\ Head(sendq).list[1] = e

Remembers ==
    link = "up" => \A e \in Entity :
        IF Writing(e) THEN told[e] = Head(sendq).value
                      ELSE sent[e] # None => told[e] = sent[e]

\* A task is going to send this entity's state, or to filter the watch list.
Named(e) == \E t \in Pusher : \E s \in Steps(t) :
                s.op \in {"push", "state"} /\ e \in Elems(s.list)
Rewatching == \E t \in Pusher : \E s \in Steps(t) :
                \/ s.op \in {"rewatch", "watch"}
                \/ s.op = "rewatchIfUnseen" /\ ~watchSeen
ControlPending == \E t \in Pusher : \E s \in Steps(t) : s.op = "pushControl"

Due(e) == told[e] # None \/ Waiting(e) \/ Named(e) \/ e \in refused

Restates ==
    /\ link = "up" /\ (phase = "listen" \/ watchSeen) /\ ~Rewatching =>
         \A e \in Elems(watched) : Due(e)
    /\ link = "up" /\ phase = "listen" /\ ~unheard /\ ~ControlPending =>
         \A e \in Elems(Controllable) : Due(e)

\* The last message of an entity on its way.
LastOf(i, e) ==
    /\ sendq[i].op = "state" /\ sendq[i].list[1] = e
    /\ \A j \in 1..Len(sendq) : j > i => ~(sendq[j].op = "state" /\ sendq[j].list[1] = e)

\* The last thing said of an entity, on its way or told, is how it is.
Fresh(e) ==
    /\ \A i \in 1..Len(sendq) : LastOf(i, e) => sendq[i].value = ha[e]
    /\ ~Waiting(e) => told[e] \in {None, ha[e]}

\* A watch list is to be filtered for certain.
Relisting == \E t \in Pusher : \E s \in Steps(t) : s.op \in {"watch", "rewatch"}

Owes(e) == e \in missed \/ e \in Elems(outbox) \/ Named(e) \/ Fresh(e)

Keeps ==
    /\ link = "up" => \A e \in Elems(watched) : Owes(e)
    /\ link = "up" /\ ~unheard /\ ~ControlPending => \A e \in Elems(Controllable) : Owes(e)
    /\ loaded /\ ~unheard /\ ~Relisting =>
         sub \subseteq Elems(watched) \cup Elems(Controllable)

Filters ==
    /\ Elems(watched) \subseteq Elems(panelWatch)
    /\ link = "up" /\ (phase = "listen" \/ watchSeen) /\ ~unheard /\ ~Rewatching =>
         /\ Elems(watched) \subseteq Elems(Allowed)
         /\ panelWatch # <<>> => sub = Elems(watched) \cup Elems(Controllable)

\* A page with this entity is still to be sent; or waits in the queue and no
\* page 0 after it; or has been heard and no page 0 waits.
Current(t) == t = listing \/ \E s \in Steps(t) : s.first
PageToCome(x) == \E t \in Pusher :
    Current(t) /\ \E s \in Steps(t) : s.op = "page" /\ x \in Elems(s.list)
PageWaits(x) == \E i \in 2..Len(sendq) :
    /\ sendq[i].op = "page" /\ x \in Elems(sendq[i].list)
    /\ \A j \in 2..Len(sendq) : j > i => ~sendq[j].first
PageHeard(x) == x \in cat /\ \A j \in 2..Len(sendq) : ~sendq[j].first
CatalogPending == \E t \in Pusher : \E s \in Steps(t) : s.op = "catalog"

Lists ==
    /\ \A t \in Pusher : (\E s \in Steps(t) : s.first) =>
         \A x \in Elems(Catalogued) : \E s \in Steps(t) : s.op = "page" /\ x \in Elems(s.list)
    /\ link = "up" /\ phase = "listen" /\ ~unheard /\ listing # "cut" /\ ~CatalogPending =>
         \A x \in Elems(Catalogued) : PageToCome(x) \/ PageWaits(x) \/ PageHeard(x)

------------------------------------------------------------------------------
(* What the steps do to the coroutines and to the queue                    *)

\* A step replaced by others that neither end nor, but for the first, open.
LEMMA ThenLemma ==
    ASSUME NEW s \in Seq(Step), s # <<>>, WellFormed(s),
           NEW u \in Seq(Step), WellFormed(u), \A x \in Elems(u) : x.op # "pushControl"
    PROVE  /\ u \o Tail(s) \in Seq(Step) /\ WellFormed(u \o Tail(s))
           /\ Elems(u \o Tail(s)) = Elems(u) \cup Elems(Tail(s))
           /\ Elems(s) = {Head(s)} \cup Elems(Tail(s))
           /\ \A x \in Elems(Tail(s)) : ~Opens(x)
<1> DEFINE r == Tail(s)
           c == u \o r
<1>1. /\ r \in Seq(Step) /\ Len(s) \in Nat \ {0} /\ Len(r) = Len(s) - 1
      /\ \A i \in 1..Len(r) : r[i] = s[i + 1] /\ i + 1 \in 1..Len(s)
      /\ DOMAIN r = 1..Len(r)
  OBVIOUS
<1>2. Elems(s) = {Head(s)} \cup Elems(r)
  BY TailElems
<1> HIDE DEF r
<1>3. /\ c \in Seq(Step) /\ Len(c) = Len(u) + Len(r) /\ Len(u) \in Nat
      /\ DOMAIN u = 1..Len(u)
      /\ \A i \in 1..Len(c) : \/ i \in 1..Len(u) /\ c[i] = u[i]
                              \/ i - Len(u) \in 1..Len(r) /\ c[i] = r[i - Len(u)]
  BY <1>1
<1>4. Elems(c) = Elems(u) \cup Elems(r)
  BY <1>1, ConcatElems
<1> HIDE DEF c
<1>5. ASSUME NEW i \in 1..Len(r) PROVE ~Opens(r[i])
  <2>1. i + 1 \in 1..Len(s) /\ i + 1 # 1 /\ r[i] = s[i + 1]
    BY <1>1
  <2> QED
    BY <2>1 DEF WellFormed
<1>6. ASSUME NEW i \in 1..Len(c)
      PROVE  /\ Opens(c[i]) => i = 1
             /\ c[i].op = "pushControl" => i = Len(c)
             /\ c[i].op = "state" => Len(c[i].list) = 1
             /\ c[i].first => c[i].op = "page"
  <2>1. CASE i \in 1..Len(u) /\ c[i] = u[i]
    <3>1. u[i].op # "pushControl"
      BY <1>3, <2>1 DEF Elems
    <3> QED
      BY <2>1, <3>1 DEF WellFormed
  <2>2. CASE i - Len(u) \in 1..Len(r) /\ c[i] = r[i - Len(u)]
    <3> DEFINE k == i - Len(u)
    <3>1. k \in 1..Len(r) /\ c[i] = r[k] /\ r[k] = s[k + 1] /\ k + 1 \in 1..Len(s)
      BY <1>1, <2>2
    <3>2. k + 1 = Len(s) => i = Len(c)
      BY <1>1, <1>3, <2>2
    <3> HIDE DEF k
    <3>3. ~Opens(c[i])
      BY <1>5, <3>1
    <3> QED
      BY <3>1, <3>2, <3>3 DEF WellFormed
  <2> QED
    BY <1>3, <2>1, <2>2
<1>7. WellFormed(c)
  BY <1>6 DEF WellFormed
<1>8. \A x \in Elems(r) : ~Opens(x)
  BY <1>1, <1>5 DEF Elems
<1> QED
  BY <1>2, <1>3, <1>4, <1>7, <1>8 DEF c, r

\* The rest of a catalog given up.
LEMMA RaiseLemma ==
    ASSUME NEW s \in Seq(Step), WellFormed(s)
    PROVE  /\ AfterRaise(s) \in Seq(Step) /\ WellFormed(AfterRaise(s))
           /\ Elems(AfterRaise(s)) = {x \in Elems(s) : x.op # "page"}
<1> DEFINE S == {x \in Elems(s) : x.op # "page"}
           f == Filter(s, S)
           Picked(U) == \E h \in [1..Len(Filter(s, U)) -> 1..Len(s)] :
             /\ \A k \in 1..Len(Filter(s, U)) : Filter(s, U)[k] = s[h[k]] /\ s[h[k]] \in U
             /\ \A k, l \in 1..Len(Filter(s, U)) : k < l => h[k] < h[l]
             /\ \A i \in 1..Len(s) : s[i] \in U => \E k \in 1..Len(Filter(s, U)) : h[k] = i
<1>1. AfterRaise(s) = f
  BY DEF AfterRaise
<1>2. f \in Seq(Step) /\ Elems(f) = Elems(s) \cap S
  BY FilterLemma, FilterElems
<1>0. ASSUME NEW U PROVE Picked(U)
  BY FilterLemma
<1> HIDE DEF S
<1>3. PICK h \in [1..Len(f) -> 1..Len(s)] :
        /\ \A k \in 1..Len(f) : f[k] = s[h[k]] /\ s[h[k]] \in S
        /\ \A k, l \in 1..Len(f) : k < l => h[k] < h[l]
        /\ \A i \in 1..Len(s) : s[i] \in S => \E k \in 1..Len(f) : h[k] = i
  <2> HIDE DEF Picked
  <2>1. Picked(S)
    BY ONLY <1>0
  <2> QED
    BY ONLY <2>1 DEF Picked
<1> HIDE DEF f
<1>4. ASSUME NEW k \in 1..Len(f)
      PROVE  /\ Opens(f[k]) => k = 1
             /\ f[k].op = "pushControl" => k = Len(f)
             /\ f[k].op = "state" => Len(f[k].list) = 1
             /\ f[k].first => f[k].op = "page"
  <2>1. h[k] \in 1..Len(s) /\ f[k] = s[h[k]] /\ Len(f) \in Nat /\ Len(s) \in Nat
    BY <1>2, <1>3
  <2>2. h[k] = 1 => k = 1
    <3>1. k > 1 => 1 \in 1..Len(f) /\ h[1] < h[k] /\ h[1] \in 1..Len(s)
      BY <1>3, <2>1
    <3> QED
      BY <2>1, <3>1
  <2>3. h[k] = Len(s) => k = Len(f)
    <3>1. k < Len(f) => Len(f) \in 1..Len(f) /\ h[k] < h[Len(f)] /\ h[Len(f)] \in 1..Len(s)
      BY <1>3, <2>1
    <3> QED
      BY <2>1, <3>1
  <2> QED
    BY <2>1, <2>2, <2>3 DEF WellFormed
<1>5. WellFormed(f)
  BY <1>4 DEF WellFormed
<1> QED
  BY <1>1, <1>2, <1>5 DEF S

\* What a task goes on to do when it has taken one step.
LEMMA StepTaken ==
    ASSUME TypeOK, Tasks, NEW t \in Pusher, todo[t] # <<>>,
           NEW u \in Seq(Step), WellFormed(u), \A x \in Elems(u) : x.op # "pushControl",
           todo' = [todo EXCEPT ![t] = u \o Tail(todo[t])]
    PROVE  /\ todo' \in [Pusher -> Seq(Step)] /\ WellFormed(todo'[t])
           /\ \A r \in Pusher : r # t => todo'[r] = todo[r]
           /\ Elems(todo'[t]) = Elems(u) \cup Elems(Rest(t))
           /\ Elems(todo[t]) = {Head(todo[t])} \cup Elems(Rest(t))
           /\ \A x \in Elems(Rest(t)) : ~Opens(x)
<1>1. todo[t] \in Seq(Step) /\ WellFormed(todo[t])
  BY DEF TypeOK, Tasks
<1>2. todo'[t] = u \o Tail(todo[t]) /\ \A r \in Pusher : r # t => todo'[r] = todo[r]
  BY DEF TypeOK
<1>3. /\ u \o Tail(todo[t]) \in Seq(Step) /\ WellFormed(u \o Tail(todo[t]))
      /\ Elems(u \o Tail(todo[t])) = Elems(u) \cup Elems(Tail(todo[t]))
      /\ Elems(todo[t]) = {Head(todo[t])} \cup Elems(Tail(todo[t]))
      /\ \A x \in Elems(Tail(todo[t])) : ~Opens(x)
  BY <1>1, ThenLemma
<1>4. todo' \in [Pusher -> Seq(Step)]
  BY <1>3 DEF TypeOK
<1> QED
  BY <1>2, <1>3, <1>4 DEF Rest

LEMMA DoLemma ==
    ASSUME NEW op \in {"watch", "push", "state"}, NEW l \in Seq(Entity),
           op = "state" => Len(l) = 1
    PROVE  /\ <<Do(op, l)>> \in Seq(Step) /\ WellFormed(<<Do(op, l)>>)
           /\ Elems(<<Do(op, l)>>) = {Do(op, l)}
           /\ Do(op, l).op = op /\ Do(op, l).list = l /\ Do(op, l).first = FALSE
<1>1. Do(op, l) \in Step /\ Do(op, l).op = op /\ Do(op, l).list = l /\ Do(op, l).first = FALSE
  BY DEF Do, Step
<1>2. <<Do(op, l)>> \in Seq(Step) /\ Elems(<<Do(op, l)>>) = {Do(op, l)}
  BY <1>1 DEF Elems
<1>3. WellFormed(<<Do(op, l)>>)
  <2> DEFINE q == <<Do(op, l)>>
  <2>1. \A i \in 1..Len(q) : i = 1 /\ i = Len(q) /\ q[i] = Do(op, l)
    OBVIOUS
  <2> HIDE DEF q
  <2>2. WellFormed(q)
    BY <1>1, <2>1 DEF WellFormed, Opens
  <2> QED
    BY <2>2 DEF q
<1> QED
  BY <1>1, <1>2, <1>3

\* A watch list taken up: what is followed from here on, and that its states
\* are to be sent; or, when this connection has had one already, nothing.
LEMMA WatchEffect ==
    ASSUME FeedAssumption, IInv, NEW t \in Pusher, WatchStep(t)
    PROVE  /\ cpu = t /\ todo[t] # <<>>
           /\ Head(todo[t]).op \in {"watch", "rewatch", "rewatchIfUnseen"}
           /\ UNCHANGED <<stillVars, listening, cpu, sendq, told, cat, missed, refused, listing>>
           /\ todo' \in [Pusher -> Seq(Step)] /\ WellFormed(todo'[t])
           /\ \A r \in Pusher : r # t => todo'[r] = todo[r]
           /\ Elems(todo[t]) = {Head(todo[t])} \cup Elems(Rest(t))
           /\ \A x \in Elems(Rest(t)) : ~Opens(x)
           /\ \/ /\ Head(todo[t]).op = "rewatchIfUnseen" /\ (watchSeen \/ panelWatch = <<>>)
                 /\ UNCHANGED feedVars
                 /\ Elems(todo'[t]) = Elems(Rest(t))
              \/ /\ panelWatch' \in Seq(Entity) /\ watched' \in Seq(Entity)
                 /\ Elems(watched') = Elems(panelWatch') \cap Elems(Allowed)
                 /\ sub' = Elems(watched') \cup Elems(Controllable)
                 /\ outbox' = Filter(outbox, sub')
                 /\ sent' = [e \in Entity |-> IF e \in sub' THEN sent[e] ELSE None]
                 /\ Elems(todo'[t]) = {Do("push", watched')} \cup Elems(Rest(t))
<1>1. /\ cpu = t /\ todo[t] # <<>>
      /\ Head(todo[t]).op \in {"watch", "rewatch", "rewatchIfUnseen"}
      /\ UNCHANGED <<stillVars, listening, cpu, sendq, told, cat, missed, refused, listing>>
  BY DEF WatchStep, Runs
<1>2. TypeOK /\ Tasks
  BY DEF IInv
<1>3. \/ \E asked \in Seq(Entity) : Watch(t, asked)
      \/ /\ Head(todo[t]).op = "rewatchIfUnseen" /\ (watchSeen \/ panelWatch = <<>>)
         /\ UNCHANGED feedVars /\ Then(t, <<>>)
  <2>1. Head(todo[t]) \in Step /\ panelWatch \in Seq(Entity)
    BY <1>1, <1>2 DEF TypeOK
  <2>2. Head(todo[t]).list \in Seq(Entity)
    BY <2>1 DEF Step
  <2> QED
    BY <2>1, <2>2 DEF WatchStep, Runs
<1>4. CASE \E asked \in Seq(Entity) : Watch(t, asked)
  <2>1. PICK asked \in Seq(Entity) : Watch(t, asked)
    BY <1>4
  <2> DEFINE w == Filter(asked, Elems(Allowed))
  <2>2. w \in Seq(Entity) /\ Elems(w) = Elems(asked) \cap Elems(Allowed)
    BY FilterLemma, FilterElems
  <2>3. Elems(Subscribed(w)) = Elems(w) \cup Elems(Controllable)
    BY <1>2, <2>2, SubscribedLemma DEF TypeOK
  <2>4. /\ panelWatch' = asked /\ watched' = w
        /\ todo' = [todo EXCEPT ![t] = <<Do("push", w)>> \o Tail(todo[t])]
        /\ sub' = Elems(Subscribed(w))
        /\ outbox' = Filter(outbox, Elems(Subscribed(w)))
        /\ sent' = [e \in Entity |-> IF e \in Elems(Subscribed(w)) THEN sent[e] ELSE None]
    BY <2>1 DEF Watch, Resubscribe, Then, Rest
  <2> HIDE DEF w
  <2>5. /\ <<Do("push", w)>> \in Seq(Step) /\ WellFormed(<<Do("push", w)>>)
        /\ Elems(<<Do("push", w)>>) = {Do("push", w)} /\ Do("push", w).op = "push"
    BY <2>2, DoLemma
  <2>6. /\ todo' \in [Pusher -> Seq(Step)] /\ WellFormed(todo'[t])
        /\ \A r \in Pusher : r # t => todo'[r] = todo[r]
        /\ Elems(todo'[t]) = {Do("push", w)} \cup Elems(Rest(t))
        /\ Elems(todo[t]) = {Head(todo[t])} \cup Elems(Rest(t))
        /\ \A x \in Elems(Rest(t)) : ~Opens(x)
    BY <1>1, <1>2, <2>4, <2>5, StepTaken
  <2> QED
    BY <1>1, <2>2, <2>3, <2>4, <2>6
<1>5. CASE /\ Head(todo[t]).op = "rewatchIfUnseen" /\ (watchSeen \/ panelWatch = <<>>)
           /\ UNCHANGED feedVars /\ Then(t, <<>>)
  <2>1. <<>> \in Seq(Step) /\ WellFormed(<<>>) /\ Elems(<<>>) = {}
    BY DEF WellFormed, Elems
  <2>2. todo' = [todo EXCEPT ![t] = <<>> \o Tail(todo[t])]
    BY <1>5 DEF Then, Rest
  <2>3. /\ todo' \in [Pusher -> Seq(Step)] /\ WellFormed(todo'[t])
        /\ \A r \in Pusher : r # t => todo'[r] = todo[r]
        /\ Elems(todo'[t]) = {} \cup Elems(Rest(t))
        /\ Elems(todo[t]) = {Head(todo[t])} \cup Elems(Rest(t))
        /\ \A x \in Elems(Rest(t)) : ~Opens(x)
    BY <1>1, <1>2, <2>1, <2>2, StepTaken
  <2> QED
    BY <1>1, <1>5, <2>3
<1> QED
  BY <1>3, <1>4, <1>5

\* What is to be sent is fixed: the pages, the controllable entities that are
\* not watched, or the states of a list one by one.
LEMMA PlanEffect ==
    ASSUME FeedAssumption, IInv, NEW t \in Pusher, PlanStep(t)
    PROVE  /\ cpu = t /\ todo[t] # <<>>
           /\ UNCHANGED <<stillVars, feedVars, listening, cpu, sendq, told, cat, missed,
                       refused, listing>>
           /\ todo' \in [Pusher -> Seq(Step)] /\ WellFormed(todo'[t])
           /\ \A r \in Pusher : r # t => todo'[r] = todo[r]
           /\ Elems(todo[t]) = {Head(todo[t])} \cup Elems(Rest(t))
           /\ \A x \in Elems(Rest(t)) : ~Opens(x)
           /\ \/ /\ Head(todo[t]).op = "catalog"
                 /\ \E new \in SUBSET Step :
                      /\ Elems(todo'[t]) = new \cup Elems(Rest(t))
                      /\ \A s \in new : s.op = "page"
                      /\ link = "down" => new = {}
                      /\ link # "down" => /\ \E s \in new : s.first
                                          /\ \A x \in Elems(Catalogued) :
                                               \E s \in new : x \in Elems(s.list)
              \/ /\ Head(todo[t]).op = "pushControl"
                 /\ \E l \in Seq(Entity) :
                      /\ Elems(l) = Elems(Controllable) \ Elems(watched)
                      /\ Elems(todo'[t]) = {Do("push", l)} \cup Elems(Rest(t))
              \/ /\ Head(todo[t]).op = "push"
                 /\ Elems(todo'[t]) = {Do("state", <<e>>) : e \in Elems(Head(todo[t]).list)}
                                        \cup Elems(Rest(t))
<1>1. /\ cpu = t /\ todo[t] # <<>>
      /\ UNCHANGED <<stillVars, feedVars, listening, cpu, sendq, told, cat, missed,
                       refused, listing>>
  BY DEF PlanStep, Runs
<1>2. TypeOK /\ Tasks /\ options \in Options
  BY DEF IInv, TypeOK
<1>3. Head(todo[t]) \in Step
  BY <1>1, <1>2 DEF TypeOK
<1>4. CASE Runs(t, "catalog") /\ Then(t, IF link = "down" THEN <<>> ELSE Pages)
  <2> DEFINE u == IF link = "down" THEN <<>> ELSE Pages
  <2>1. CASE link = "down"
    <3>1. <<>> \in Seq(Step) /\ WellFormed(<<>>) /\ Elems(<<>>) = {}
      BY DEF WellFormed, Elems
    <3>2. todo' = [todo EXCEPT ![t] = <<>> \o Tail(todo[t])]
      BY <1>4, <2>1 DEF Then, Rest
    <3>3. /\ todo' \in [Pusher -> Seq(Step)] /\ WellFormed(todo'[t])
          /\ \A r \in Pusher : r # t => todo'[r] = todo[r]
          /\ Elems(todo'[t]) = {} \cup Elems(Rest(t))
          /\ Elems(todo[t]) = {Head(todo[t])} \cup Elems(Rest(t))
          /\ \A x \in Elems(Rest(t)) : ~Opens(x)
      BY <1>1, <1>2, <3>1, <3>2, StepTaken
    <3> QED
      BY <1>1, <1>4, <2>1, <3>3 DEF Runs
  <2>2. CASE link # "down"
    <3>1. /\ Pages \in Seq(Step) /\ Len(Pages) \in Nat \ {0}
          /\ \A i \in 1..Len(Pages) : Pages[i].op = "page" /\ (Pages[i].first <=> i = 1)
          /\ \A x \in Elems(Catalogued) :
               \E i \in 1..Len(Pages) : x \in Elems(Pages[i].list)
      BY <1>2, PagesLemma
    <3>2. /\ DOMAIN Pages = 1..Len(Pages) /\ Elems(Pages) \subseteq Step
          /\ \A i \in 1..Len(Pages) : Pages[i] \in Elems(Pages)
          /\ \A s \in Elems(Pages) : \E i \in 1..Len(Pages) : s = Pages[i]
      BY <3>1 DEF Elems
    <3>3. WellFormed(Pages)
      BY <3>1 DEF WellFormed, Opens
    <3>4. /\ \A s \in Elems(Pages) : s.op = "page"
          /\ \A x \in Elems(Catalogued) : \E s \in Elems(Pages) : x \in Elems(s.list)
          /\ \E s \in Elems(Pages) : s.first
      BY <3>1, <3>2
    <3>5. todo' = [todo EXCEPT ![t] = Pages \o Tail(todo[t])]
      BY <1>4, <2>2 DEF Then, Rest
    <3>6. /\ todo' \in [Pusher -> Seq(Step)] /\ WellFormed(todo'[t])
          /\ \A r \in Pusher : r # t => todo'[r] = todo[r]
          /\ Elems(todo'[t]) = Elems(Pages) \cup Elems(Rest(t))
          /\ Elems(todo[t]) = {Head(todo[t])} \cup Elems(Rest(t))
          /\ \A x \in Elems(Rest(t)) : ~Opens(x)
      BY <1>1, <1>2, <3>1, <3>3, <3>4, <3>5, StepTaken
    <3> DEFINE new == Elems(Pages)
    <3>7. /\ new \in SUBSET Step /\ Elems(todo'[t]) = new \cup Elems(Rest(t))
          /\ \A s \in new : s.op = "page"
          /\ link = "down" => new = {}
          /\ link # "down" => /\ \E s \in new : s.first
                              /\ \A x \in Elems(Catalogued) :
                                   \E s \in new : x \in Elems(s.list)
      BY <2>2, <3>2, <3>4, <3>6
    <3>8. Head(todo[t]).op = "catalog"
      BY <1>4 DEF Runs
    <3> HIDE DEF new
    <3> QED
      BY <1>1, <3>6, <3>7, <3>8
  <2> QED
    BY <2>1, <2>2
<1>5. CASE Runs(t, "pushControl") /\ Then(t, <<Do("push", Without(Controllable, watched))>>)
  <2> DEFINE l == Without(Controllable, watched)
  <2>1. l \in Seq(Entity) /\ Elems(l) = Elems(Controllable) \ Elems(watched)
    BY <1>2, ListsLemma, FilterLemma, FilterElems DEF Without
  <2>2. todo' = [todo EXCEPT ![t] = <<Do("push", l)>> \o Tail(todo[t])]
    BY <1>5 DEF Then, Rest
  <2> HIDE DEF l
  <2>3. /\ <<Do("push", l)>> \in Seq(Step) /\ WellFormed(<<Do("push", l)>>)
        /\ Elems(<<Do("push", l)>>) = {Do("push", l)} /\ Do("push", l).op = "push"
    BY <2>1, DoLemma
  <2>4. /\ todo' \in [Pusher -> Seq(Step)] /\ WellFormed(todo'[t])
        /\ \A r \in Pusher : r # t => todo'[r] = todo[r]
        /\ Elems(todo'[t]) = {Do("push", l)} \cup Elems(Rest(t))
        /\ Elems(todo[t]) = {Head(todo[t])} \cup Elems(Rest(t))
        /\ \A x \in Elems(Rest(t)) : ~Opens(x)
    BY <1>1, <1>2, <2>2, <2>3, StepTaken
  <2> QED
    BY <1>1, <1>5, <2>1, <2>4 DEF Runs
<1>6. CASE /\ Runs(t, "push")
           /\ Then(t, [i \in DOMAIN Head(todo[t]).list |->
                         Do("state", <<Head(todo[t]).list[i]>>)])
  <2> DEFINE l == Head(todo[t]).list
             u == [i \in DOMAIN l |-> Do("state", <<l[i]>>)]
  <2>1. l \in Seq(Entity)
    BY <1>3 DEF Step
  <2>2. todo' = [todo EXCEPT ![t] = u \o Tail(todo[t])]
    BY <1>6 DEF Then, Rest
  <2> HIDE DEF l
  <2>3. DOMAIN l = 1..Len(l) /\ Len(l) \in Nat /\ \A i \in 1..Len(l) : l[i] \in Entity
    BY <2>1
  <2>4. ASSUME NEW i \in 1..Len(l)
        PROVE  /\ Do("state", <<l[i]>>) \in Step /\ Do("state", <<l[i]>>).op = "state"
               /\ Len(Do("state", <<l[i]>>).list) = 1 /\ Do("state", <<l[i]>>).first = FALSE
    <3>1. <<l[i]>> \in Seq(Entity) /\ Len(<<l[i]>>) = 1
      BY <2>3
    <3> QED
      BY <3>1 DEF Do, Step
  <2>5. u \in Seq(Step) /\ Len(u) = Len(l)
    <3>1. u \in [1..Len(l) -> Step]
      BY <2>3, <2>4
    <3> QED
      BY <2>3, <3>1
  <2>6. \A i \in 1..Len(u) : u[i] = Do("state", <<l[i]>>)
    BY <2>3, <2>5
  <2>7. Elems(u) = {Do("state", <<e>>) : e \in Elems(l)}
    BY <2>3 DEF Elems
  <2> HIDE DEF u
  <2>8. WellFormed(u)
    BY <2>4, <2>5, <2>6 DEF WellFormed, Opens
  <2>9. \A x \in Elems(u) : x.op # "pushControl"
    BY <2>7 DEF Do
  <2>10. /\ todo' \in [Pusher -> Seq(Step)] /\ WellFormed(todo'[t])
         /\ \A r \in Pusher : r # t => todo'[r] = todo[r]
         /\ Elems(todo'[t]) = Elems(u) \cup Elems(Rest(t))
         /\ Elems(todo[t]) = {Head(todo[t])} \cup Elems(Rest(t))
         /\ \A x \in Elems(Rest(t)) : ~Opens(x)
    BY <1>1, <1>2, <2>2, <2>5, <2>8, <2>9, StepTaken
  <2> QED
    BY <1>1, <1>6, <2>7, <2>10 DEF Runs, l
<1> QED
  BY <1>4, <1>5, <1>6 DEF PlanStep

\* A message that joins the queue; the first in it is heard at once.
LEMMA SendLemma ==
    ASSUME FeedAssumption, IInv, NEW t \in Task, cpu = t, NEW m \in Msg, m.by = t,
           m.op = "state" => Len(m.list) = 1 /\ m.value \in Value,
           Send(m)
    PROVE  /\ sendq' \in Seq(Msg) /\ Len(sendq) \in Nat
           /\ Len(sendq') = Len(sendq) + 1 /\ sendq'[Len(sendq) + 1] = m
           /\ \A i \in 1..Len(sendq) : sendq'[i] = sendq[i]
           /\ cpu' = None /\ Senders' = Senders \cup {t}
           /\ \A i, j \in 1..Len(sendq') : sendq'[i].by = sendq'[j].by => i = j
           /\ \A i \in 1..Len(sendq') :
                sendq'[i].op = "state" => Len(sendq'[i].list) = 1 /\ sendq'[i].value \in Value
           /\ told' \in [Entity -> Value \cup {None}] /\ cat' \subseteq Entity
           /\ IF sendq = <<>> THEN Hears(m) ELSE UNCHANGED <<told, cat>>
<1>1. sendq \in Seq(Msg) /\ told \in [Entity -> Value \cup {None}] /\ cat \subseteq Entity
  BY DEF IInv, TypeOK
<1>2. sendq' = Append(sendq, m) /\ cpu' = None
  BY DEF Send
<1>3. IF sendq = <<>> THEN Hears(m) ELSE UNCHANGED <<told, cat>>
  BY DEF Send
<1>4. /\ sendq' \in Seq(Msg) /\ Len(sendq) \in Nat
      /\ Len(sendq') = Len(sendq) + 1 /\ sendq'[Len(sendq) + 1] = m
      /\ \A i \in 1..Len(sendq) : sendq'[i] = sendq[i]
      /\ DOMAIN sendq = 1..Len(sendq) /\ DOMAIN sendq' = 1..Len(sendq')
  BY <1>1, <1>2
<1>5. Senders' = Senders \cup {t}
  <2>1. Senders' \subseteq Senders \cup {t}
    BY <1>4 DEF Senders
  <2>2. Senders \subseteq Senders'
    BY <1>4 DEF Senders
  <2>3. t \in Senders'
    BY <1>4 DEF Senders
  <2> QED
    BY <2>1, <2>2, <2>3
<1>6. \A i \in 1..Len(sendq) : sendq[i].by # t
  BY <1>4 DEF IInv, Queued, Senders
<1>7. /\ \A i, j \in 1..Len(sendq) : sendq[i].by = sendq[j].by => i = j
      /\ \A i \in 1..Len(sendq) :
           sendq[i].op = "state" => Len(sendq[i].list) = 1 /\ sendq[i].value \in Value
  BY DEF IInv, Queued
<1>8. \A i, j \in 1..Len(sendq') : sendq'[i].by = sendq'[j].by => i = j
  BY <1>4, <1>6, <1>7
<1>9. \A i \in 1..Len(sendq') :
        sendq'[i].op = "state" => Len(sendq'[i].list) = 1 /\ sendq'[i].value \in Value
  BY <1>4, <1>7
<1>10. told' \in [Entity -> Value \cup {None}] /\ cat' \subseteq Entity
  <2>1. m.value \in Value \cup {None} /\ m.list \in Seq(Entity)
    BY DEF Msg
  <2>2. Elems(m.list) \subseteq Entity
    BY <2>1 DEF Elems
  <2> QED
    BY <1>1, <1>3, <2>1, <2>2 DEF Hears
<1> QED
  BY <1>2, <1>3, <1>4, <1>5, <1>8, <1>9, <1>10

\* A message given up, and with a page all that is left of its catalog.
LEMMA GiveUpEffect ==
    ASSUME IInv, NEW t \in Pusher, todo[t] # <<>>,
           Head(todo[t]).op \in {"state", "page"},
           todo' = [todo EXCEPT ![t] = IF Head(todo[t]).op = "page" THEN AfterRaise(@)
                                       ELSE Rest(t)]
    PROVE  /\ todo' \in [Pusher -> Seq(Step)] /\ WellFormed(todo'[t])
           /\ \A r \in Pusher : r # t => todo'[r] = todo[r]
           /\ Elems(todo[t]) = {Head(todo[t])} \cup Elems(Rest(t))
           /\ Elems(todo'[t]) \subseteq Elems(Rest(t))
           /\ \A x \in Elems(todo'[t]) : ~Opens(x)
           /\ \A s \in Elems(Rest(t)) : s.op # "page" => s \in Elems(todo'[t])
           /\ Head(todo[t]).op = "state" => Elems(todo'[t]) = Elems(Rest(t))
<1> DEFINE s == Head(todo[t])
<1>1. TypeOK /\ Tasks /\ todo[t] \in Seq(Step) /\ WellFormed(todo[t])
  BY DEF IInv, TypeOK, Tasks
<1>2. <<>> \in Seq(Step) /\ WellFormed(<<>>) /\ Elems(<<>>) = {}
  BY DEF WellFormed, Elems
<1>3. /\ Elems(todo[t]) = {s} \cup Elems(Rest(t))
      /\ \A x \in Elems(Rest(t)) : ~Opens(x)
  BY <1>1, <1>2, ThenLemma DEF Rest
<1>4. CASE s.op = "state"
  <2>1. <<>> \o Tail(todo[t]) = Rest(t)
    BY <1>1 DEF Rest
  <2>2. todo' = [todo EXCEPT ![t] = <<>> \o Tail(todo[t])]
    BY <1>4, <2>1
  <2>3. /\ todo' \in [Pusher -> Seq(Step)] /\ WellFormed(todo'[t])
        /\ \A r \in Pusher : r # t => todo'[r] = todo[r]
        /\ Elems(todo'[t]) = {} \cup Elems(Rest(t))
    BY <1>1, <1>2, <2>2, StepTaken
  <2> QED
    BY <1>3, <2>3
<1>5. CASE s.op = "page"
  <2>1. /\ AfterRaise(todo[t]) \in Seq(Step) /\ WellFormed(AfterRaise(todo[t]))
        /\ Elems(AfterRaise(todo[t])) = {x \in Elems(todo[t]) : x.op # "page"}
    BY <1>1, RaiseLemma
  <2>2. /\ todo'[t] = AfterRaise(todo[t]) /\ \A r \in Pusher : r # t => todo'[r] = todo[r]
        /\ todo' \in [Pusher -> Seq(Step)]
    BY <1>1, <1>5, <2>1 DEF TypeOK
  <2>3. Elems(todo'[t]) \subseteq Elems(Rest(t)) /\ \A x \in Elems(todo'[t]) : ~Opens(x)
    BY <1>3, <1>5, <2>1, <2>2
  <2> QED
    BY <1>3, <1>5, <2>1, <2>2, <2>3
<1> QED
  BY <1>4, <1>5

\* A state message is of one entity.
LEMMA HeadLemma ==
    ASSUME IInv, NEW t \in Pusher, todo[t] # <<>>
    PROVE  /\ Head(todo[t]) \in Step /\ Head(todo[t]).list \in Seq(Entity)
           /\ Head(todo[t]).op = "state" =>
                /\ Head(todo[t]).list[1] \in Entity
                /\ Head(todo[t]).list = <<Head(todo[t]).list[1]>>
<1> DEFINE s == Head(todo[t])
<1>1. todo[t] \in Seq(Step) /\ WellFormed(todo[t])
  BY DEF IInv, TypeOK, Tasks
<1>2. s \in Step /\ s = todo[t][1] /\ 1 \in 1..Len(todo[t])
  BY <1>1
<1>3. s.list \in Seq(Entity)
  BY <1>2 DEF Step
<1>4. s.op = "state" => Len(s.list) = 1
  BY <1>1, <1>2 DEF WellFormed
<1> HIDE DEF s
<1>5. s.op = "state" => s.list[1] \in Entity /\ s.list = <<s.list[1]>>
  BY <1>3, <1>4
<1> QED
  BY <1>2, <1>3, <1>5 DEF s

\* The states and pages a task is to send: one joins the queue while the
\* connection is up; otherwise it raises, or there is no client.
LEMMA SendEffect ==
    ASSUME FeedAssumption, IInv, NEW t \in Pusher, SendStep(t)
    PROVE  /\ cpu = t /\ todo[t] # <<>> /\ Head(todo[t]).op \in {"state", "page"}
           /\ UNCHANGED <<stillVars, feedVars, listening>>
           /\ todo' \in [Pusher -> Seq(Step)] /\ WellFormed(todo'[t])
           /\ \A r \in Pusher : r # t => todo'[r] = todo[r]
           /\ Elems(todo[t]) = {Head(todo[t])} \cup Elems(Rest(t))
           /\ \A x \in Elems(todo'[t]) : ~Opens(x)
           /\ \/ /\ link = "up" /\ Elems(todo'[t]) = Elems(Rest(t))
                 /\ \E m \in Msg :
                      /\ m.by = t /\ Send(m)
                      /\ \/ /\ Head(todo[t]).op = "state" /\ m.op = "state" /\ m.first = FALSE
                            /\ listing' = listing
                            /\ \E e \in Entity :
                                 /\ Head(todo[t]).list = <<e>> /\ m.list = <<e>>
                                 /\ m.value = ha[e] /\ missed' = missed \ {e}
                                 /\ refused' = refused \ {e}
                         \/ /\ Head(todo[t]).op = "page" /\ m.op = "page"
                            /\ m.first = Head(todo[t]).first /\ m.list = Head(todo[t]).list
                            /\ missed' = missed /\ refused' = refused
                            /\ listing' = Begun(t)
              \/ /\ link # "up"
                 /\ UNCHANGED <<cpu, sendq, told, cat, missed, refused, listing>>
                 /\ Elems(todo'[t]) \subseteq Elems(todo[t])
                 /\ \A s \in Elems(todo[t]) :
                      s.op \notin {"state", "page"} => s \in Elems(todo'[t])
<1> DEFINE s == Head(todo[t])
<1>1. /\ cpu = t /\ todo[t] # <<>> /\ s.op \in {"state", "page"}
      /\ UNCHANGED <<stillVars, feedVars, listening>>
  BY DEF SendStep, Runs
<1>2. TypeOK /\ Tasks
  BY DEF IInv
<1>3. s \in Step /\ s.list \in Seq(Entity)
  BY <1>1, HeadLemma
<1>4. s.op = "state" => s.list[1] \in Entity /\ s.list = <<s.list[1]>>
  BY <1>1, HeadLemma
<1>5. ASSUME todo' = [todo EXCEPT ![t] = <<>> \o Tail(todo[t])]
      PROVE  /\ todo' \in [Pusher -> Seq(Step)] /\ WellFormed(todo'[t])
             /\ \A r \in Pusher : r # t => todo'[r] = todo[r]
             /\ Elems(todo'[t]) = Elems(Rest(t))
             /\ Elems(todo[t]) = {Head(todo[t])} \cup Elems(Rest(t))
             /\ \A x \in Elems(Rest(t)) : ~Opens(x)
  <2>1. <<>> \in Seq(Step) /\ WellFormed(<<>>) /\ Elems(<<>>) = {}
    BY DEF WellFormed, Elems
  <2>2. /\ todo' \in [Pusher -> Seq(Step)] /\ WellFormed(todo'[t])
        /\ \A r \in Pusher : r # t => todo'[r] = todo[r]
        /\ Elems(todo'[t]) = {} \cup Elems(Rest(t))
        /\ Elems(todo[t]) = {Head(todo[t])} \cup Elems(Rest(t))
        /\ \A x \in Elems(Rest(t)) : ~Opens(x)
    BY <1>1, <1>2, <1>5, <2>1, StepTaken
  <2> QED
    BY <2>2
<1> HIDE DEF s
<1>6. CASE link = "up"
  <2> DEFINE m == IF s.op = "state" THEN StateMsg(t, s.list[1]) ELSE PageMsg(t, s)
  <2>1. /\ todo' = [todo EXCEPT ![t] = <<>> \o Tail(todo[t])] /\ Send(m)
        /\ IF s.op = "state"
           THEN /\ missed' = missed \ {s.list[1]} /\ refused' = refused \ {s.list[1]}
                /\ listing' = listing
           ELSE listing' = Begun(t) /\ missed' = missed /\ refused' = refused
    BY <1>6 DEF SendStep, Then, Rest, GoesOut, s
  <2>2. CASE s.op = "state"
    <3>1. m = [by |-> t, op |-> "state", first |-> FALSE, list |-> <<s.list[1]>>,
               value |-> ha[s.list[1]]]
      BY <2>2 DEF StateMsg
    <3>2. t \in Task /\ ha[s.list[1]] \in Value /\ <<s.list[1]>> \in Seq(Entity)
      BY <1>2, <1>4, <2>2 DEF Task, TypeOK
    <3> HIDE DEF m
    <3>3. m \in Msg
      BY <3>1, <3>2 DEF Msg
    <3>4. m.by = t /\ m.op = "state" /\ m.list = <<s.list[1]>> /\ m.value = ha[s.list[1]]
      BY <3>1
    <3>5. m.first = FALSE
      BY <3>1
    <3>6. \E e \in Entity : /\ s.list = <<e>> /\ m.list = <<e>> /\ m.value = ha[e]
                            /\ missed' = missed \ {e} /\ refused' = refused \ {e}
      BY <1>4, <2>1, <2>2, <3>4
    <3> QED
      BY <1>1, <1>5, <1>6, <2>1, <2>2, <3>3, <3>4, <3>5, <3>6 DEF s
  <2>3. CASE s.op = "page"
    <3>1. m = [by |-> t, op |-> "page", first |-> s.first, list |-> s.list, value |-> None]
      BY <2>3 DEF PageMsg
    <3>2. t \in Task /\ s.first \in BOOLEAN
      BY <1>3 DEF Task, Step
    <3> HIDE DEF m
    <3>3. m \in Msg
      BY <1>3, <3>1, <3>2 DEF Msg
    <3>4. m.by = t /\ m.op = "page" /\ m.list = s.list
      BY <3>1
    <3>5. m.first = s.first
      BY <3>1
    <3>6. missed' = missed /\ refused' = refused /\ listing' = Begun(t)
      BY <2>1, <2>3
    <3> QED
      BY <1>1, <1>5, <1>6, <2>1, <2>3, <3>3, <3>4, <3>5, <3>6 DEF s
  <2> QED
    BY <1>1, <2>2, <2>3
<1>7. CASE link # "up"
  <2>1. /\ UNCHANGED <<cpu, sendq, told, cat, missed, refused, listing>>
        /\ todo' = [todo EXCEPT ![t] = IF s.op = "page" THEN AfterRaise(@) ELSE Rest(t)]
    BY <1>7 DEF SendStep, s
  <2>2. /\ todo' \in [Pusher -> Seq(Step)] /\ WellFormed(todo'[t])
        /\ \A r \in Pusher : r # t => todo'[r] = todo[r]
        /\ Elems(todo[t]) = {s} \cup Elems(Rest(t))
        /\ Elems(todo'[t]) \subseteq Elems(Rest(t))
        /\ \A x \in Elems(todo'[t]) : ~Opens(x)
        /\ \A x \in Elems(Rest(t)) : x.op # "page" => x \in Elems(todo'[t])
    BY <1>1, <2>1, GiveUpEffect DEF s
  <2> QED
    BY <1>1, <1>7, <2>1, <2>2 DEF s
<1> QED
  BY <1>6, <1>7

\* A message that is too long for a frame is given up on a connection that
\* stays.
LEMMA TooLongEffect ==
    ASSUME FeedAssumption, IInv, NEW t \in Pusher, SendTooLong(t)
    PROVE  /\ cpu = t /\ todo[t] # <<>> /\ Head(todo[t]).op \in {"state", "page"}
           /\ link = "up"
           /\ UNCHANGED <<stillVars, feedVars, listening, cpu, sendq, told, cat>>
           /\ todo' \in [Pusher -> Seq(Step)] /\ WellFormed(todo'[t])
           /\ \A r \in Pusher : r # t => todo'[r] = todo[r]
           /\ Elems(todo[t]) = {Head(todo[t])} \cup Elems(Rest(t))
           /\ Elems(todo'[t]) \subseteq Elems(Rest(t))
           /\ \A x \in Elems(todo'[t]) : ~Opens(x)
           /\ \A s \in Elems(Rest(t)) : s.op # "page" => s \in Elems(todo'[t])
           /\ \/ /\ Head(todo[t]).op = "state" /\ listing' = listing
                 /\ Elems(todo'[t]) = Elems(Rest(t))
                 /\ \E e \in Entity :
                      /\ Head(todo[t]).list = <<e>>
                      /\ missed' = missed \cup {e} /\ refused' = refused \cup {e}
              \/ /\ Head(todo[t]).op = "page" /\ missed' = missed /\ refused' = refused
                 /\ listing' = IF Head(todo[t]).first \/ listing = t THEN "cut" ELSE listing
<1> DEFINE s == Head(todo[t])
<1>1. /\ cpu = t /\ todo[t] # <<>> /\ s.op \in {"state", "page"} /\ link = "up"
      /\ UNCHANGED <<stillVars, feedVars, listening, cpu, sendq, told, cat>>
      /\ todo' = [todo EXCEPT ![t] = IF s.op = "page" THEN AfterRaise(@) ELSE Rest(t)]
  BY DEF SendTooLong, Runs, MayBeLong
<1>2. s.op = "state" => s.list[1] \in Entity /\ s.list = <<s.list[1]>>
  BY <1>1, HeadLemma
<1>3. IF s.op = "state"
      THEN /\ missed' = missed \cup {s.list[1]} /\ refused' = refused \cup {s.list[1]}
           /\ listing' = listing
      ELSE /\ listing' = IF s.first \/ listing = t THEN "cut" ELSE listing
           /\ missed' = missed /\ refused' = refused
  BY DEF SendTooLong, LeftOut
<1>4. /\ todo' \in [Pusher -> Seq(Step)] /\ WellFormed(todo'[t])
      /\ \A r \in Pusher : r # t => todo'[r] = todo[r]
      /\ Elems(todo[t]) = {s} \cup Elems(Rest(t))
      /\ Elems(todo'[t]) \subseteq Elems(Rest(t))
      /\ \A x \in Elems(todo'[t]) : ~Opens(x)
      /\ \A x \in Elems(Rest(t)) : x.op # "page" => x \in Elems(todo'[t])
      /\ s.op = "state" => Elems(todo'[t]) = Elems(Rest(t))
  BY <1>1, GiveUpEffect
<1> HIDE DEF s
<1>5. CASE s.op = "state"
  <2>1. \E e \in Entity : /\ s.list = <<e>> /\ missed' = missed \cup {e}
                          /\ refused' = refused \cup {e}
    BY <1>2, <1>3, <1>5
  <2>2. listing' = listing
    BY <1>3, <1>5
  <2> QED
    BY <1>1, <1>4, <1>5, <2>1, <2>2 DEF s
<1>6. CASE s.op = "page"
  <2>1. /\ missed' = missed /\ refused' = refused
        /\ listing' = IF s.first \/ listing = t THEN "cut" ELSE listing
    BY <1>3, <1>6
  <2> QED
    BY <1>1, <1>4, <1>6, <2>1 DEF s
<1> QED
  BY <1>1, <1>5, <1>6

\* The head of the queue drained.
LEMMA DoneEffect ==
    ASSUME FeedAssumption, IInv, SendDone
    PROVE  /\ cpu = None /\ link = "up" /\ sendq # <<>> /\ Head(sendq) \in Msg
           /\ Head(sendq) = sendq[1] /\ Len(sendq) \in Nat \ {0}
           /\ sendq' \in Seq(Msg) /\ Len(sendq') = Len(sendq) - 1
           /\ \A i \in 1..Len(sendq') : sendq'[i] = sendq[i + 1]
           /\ cpu' = Head(sendq).by /\ cpu' \in Task
           /\ Senders = Senders' \cup {cpu'} /\ cpu' \notin Senders'
           /\ sent' = Remembered(Head(sendq))
           /\ IF sendq' # <<>> THEN Hears(Head(sendq')) ELSE UNCHANGED <<told, cat>>
           /\ told' \in [Entity -> Value \cup {None}] /\ cat' \subseteq Entity
           /\ UNCHANGED <<ha, options, loaded, listening, link, phase, panelWatch, watchSeen, watched,
                          sub, outbox, draining, todo, failed, missed, refused, listing,
                          unheard>>
<1>1. /\ cpu = None /\ link = "up" /\ sendq # <<>> /\ sendq' = Tail(sendq)
      /\ cpu' = Head(sendq).by /\ sent' = Remembered(Head(sendq))
      /\ IF sendq' # <<>> THEN Hears(Head(sendq')) ELSE UNCHANGED <<told, cat>>
      /\ UNCHANGED <<ha, options, loaded, listening, link, phase, panelWatch, watchSeen, watched,
                     sub, outbox, draining, todo, failed, missed, refused, listing, unheard>>
  BY DEF SendDone, ghosts
<1>2. /\ sendq \in Seq(Msg) /\ told \in [Entity -> Value \cup {None}] /\ cat \subseteq Entity
      /\ \A i, j \in 1..Len(sendq) : sendq[i].by = sendq[j].by => i = j
  BY DEF IInv, TypeOK, Queued
<1>3. /\ Head(sendq) \in Msg /\ Head(sendq) = sendq[1] /\ Len(sendq) \in Nat \ {0}
      /\ sendq' \in Seq(Msg) /\ Len(sendq') = Len(sendq) - 1
      /\ \A i \in 1..Len(sendq') : sendq'[i] = sendq[i + 1] /\ i + 1 \in 1..Len(sendq)
      /\ DOMAIN sendq = 1..Len(sendq) /\ DOMAIN sendq' = 1..Len(sendq')
  BY <1>1, <1>2
<1>4. cpu' \in Task
  BY <1>1, <1>3 DEF Msg
<1>5. Senders = Senders' \cup {cpu'}
  <2>1. Senders' \subseteq Senders /\ cpu' \in Senders
    BY <1>1, <1>3 DEF Senders
  <2>2. ASSUME NEW i \in 1..Len(sendq) PROVE sendq[i].by \in Senders' \cup {cpu'}
    <3>1. CASE i = 1
      BY <1>1, <1>3, <3>1
    <3>2. CASE i # 1
      <4>1. i - 1 \in 1..Len(sendq') /\ sendq'[i - 1] = sendq[i]
        BY <1>3, <3>2
      <4> QED
        BY <1>3, <4>1 DEF Senders
    <3> QED
      BY <3>1, <3>2
  <2>3. \A x \in Senders : \E i \in 1..Len(sendq) : x = sendq[i].by
    BY <1>3 DEF Senders
  <2> QED
    BY <2>1, <2>2, <2>3
<1>6. cpu' \notin Senders'
  <2>1. \A i \in 1..Len(sendq') : sendq'[i].by # sendq[1].by
    BY <1>2, <1>3
  <2> QED
    BY <1>1, <1>3, <2>1 DEF Senders
<1>7. told' \in [Entity -> Value \cup {None}] /\ cat' \subseteq Entity
  <2>1. CASE sendq' # <<>>
    <3> DEFINE m == Head(sendq')
    <3>1. m \in Msg
      BY <1>3, <2>1
    <3> HIDE DEF m
    <3>2. m.value \in Value \cup {None} /\ m.list \in Seq(Entity)
      BY <3>1 DEF Msg
    <3>3. Elems(m.list) \subseteq Entity
      BY <3>2 DEF Elems
    <3>4. Hears(m)
      BY <1>1, <2>1 DEF m
    <3> QED
      BY <1>2, <3>2, <3>3, <3>4 DEF Hears
  <2> QED
    BY <1>1, <1>2, <2>1
<1> QED
  BY <1>1, <1>3, <1>4, <1>5, <1>6, <1>7

\* A filtered outbox still has each entity once, and followed ones only.
LEMMA FilterOutbox ==
    ASSUME TypeOK, OutboxOnce, outbox' = Filter(outbox, sub'), draining' = draining
    PROVE  outbox' \in Seq(Entity) /\ OutboxOnce'
           /\ Elems(outbox') = Elems(outbox) \cap sub'
<1>1. outbox \in Seq(Entity)
  BY DEF TypeOK
<1>2. outbox' \in Seq(Entity) /\ Elems(outbox') = Elems(outbox) \cap sub'
  BY <1>1, FilterLemma, FilterElems
<1>3. PICK h \in [1..Len(outbox') -> 1..Len(outbox)] :
        /\ \A k \in 1..Len(outbox') : outbox'[k] = outbox[h[k]] /\ outbox[h[k]] \in sub'
        /\ \A k, l \in 1..Len(outbox') : k < l => h[k] < h[l]
  <2>1. \A k : k \in sub' => k \in sub'
    OBVIOUS
  <2>2. \A S : \E h \in [1..Len(Filter(outbox, S)) -> 1..Len(outbox)] :
          /\ \A k \in 1..Len(Filter(outbox, S)) :
               Filter(outbox, S)[k] = outbox[h[k]] /\ outbox[h[k]] \in S
          /\ \A k, l \in 1..Len(Filter(outbox, S)) : k < l => h[k] < h[l]
    BY <1>1, FilterLemma
  <2> QED
    BY <2>2
<1>4. \A i, j \in 1..Len(outbox') : outbox'[i] = outbox'[j] => i = j
  <2> SUFFICES ASSUME NEW i \in 1..Len(outbox'), NEW j \in 1..Len(outbox'),
                      outbox'[i] = outbox'[j]
               PROVE  i = j
    OBVIOUS
  <2>1. h[i] = h[j]
    BY <1>3, SMTT(40) DEF OutboxOnce
  <2>2. i \in Nat /\ j \in Nat /\ h[i] \in Nat /\ h[j] \in Nat
    BY <1>1, <1>2, <1>3
  <2> QED
    BY <1>3, <2>1, <2>2
<1>5. outbox' # <<>> => draining'
  <2>1. outbox' # <<>> => outbox # <<>>
    <3>1. outbox' # <<>> => 1 \in 1..Len(outbox')
      BY <1>2
    <3>2. outbox' # <<>> => h[1] \in 1..Len(outbox)
      BY <1>3, <3>1
    <3> QED
      BY <1>1, <3>2
  <2> QED
    BY <2>1 DEF OutboxOnce
<1> QED
  BY <1>2, <1>4, <1>5 DEF OutboxOnce

\* pushControl is the last thing a task does.
LEMMA ControlIsLast ==
    ASSUME TypeOK, Tasks, NEW t \in Pusher, todo[t] # <<>>,
           Head(todo[t]).op = "pushControl"
    PROVE  Elems(Rest(t)) = {}
<1>1. todo[t] \in Seq(Step) /\ WellFormed(todo[t])
  BY DEF TypeOK, Tasks
<1>2. /\ Len(todo[t]) \in Nat \ {0} /\ Head(todo[t]) = todo[t][1]
      /\ Tail(todo[t]) \in Seq(Step) /\ Len(Tail(todo[t])) = Len(todo[t]) - 1
  BY <1>1
<1>3. Len(todo[t]) = 1
  <2>1. \A i \in 1..Len(todo[t]) : todo[t][i].op = "pushControl" => i = Len(todo[t])
    BY <1>1, Zenon DEF WellFormed
  <2>2. 1 \in 1..Len(todo[t]) /\ todo[t][1].op = "pushControl"
    BY <1>2
  <2> QED
    BY <2>1, <2>2
<1>4. DOMAIN Rest(t) = {}
  <2>1. DOMAIN Tail(todo[t]) = 1..Len(Tail(todo[t])) /\ Len(Tail(todo[t])) = 0
    BY <1>2, <1>3
  <2>2. 1..0 = {}
    OBVIOUS
  <2>3. DOMAIN Tail(todo[t]) = {}
    BY <2>1, <2>2, Zenon
  <2> QED
    BY <2>3, Zenon DEF Rest
<1> QED
  BY <1>4 DEF Elems

\* The task running takes a step; the others' coroutines are as they were.
LEMMA TasksAfter ==
    ASSUME IInv, NEW t \in Pusher, cpu = t, WellFormed(todo'[t]),
           \A r \in Pusher : r # t => todo'[r] = todo[r],
           failed' = failed, Senders \subseteq Senders', cpu' # t => cpu' = None,
           \/ cpu' = t
           \/ t \in Senders' /\ \A x \in Elems(todo'[t]) : ~Opens(x)
           \/ todo'[t] = <<>>,
           \A x \in Elems(todo'[t]) :
             x.op \in {"watch", "rewatch", "rewatchIfUnseen"} => x \in Elems(todo[t]),
           \A x \in Elems(todo[t]) : x.op = "pushControl" =>
             \/ x \in Elems(todo'[t])
             \/ \A y \in Elems(todo'[t]) : y.op \notin {"rewatch", "rewatchIfUnseen"}
    PROVE  Tasks'
<1> USE DEF IInv
<1>1. SUFFICES ASSUME NEW r \in Pusher
               PROVE  /\ WellFormed(todo'[r])
                      /\ todo'[r] # <<>> => cpu' = r \/ r \in failed' \/ r \in Senders'
                      /\ cpu' # r => \A s \in Elems(todo'[r]) : ~Opens(s)
                      /\ \A s \in Elems(todo'[r]) :
                           s.op \in {"watch", "rewatchIfUnseen"} => r = "link"
                      /\ \A s \in Elems(todo'[r]) : s.op \in {"rewatch", "rewatchIfUnseen"} =>
                           \E p \in Elems(todo'[r]) : p.op = "pushControl"
  BY DEF Tasks, Steps
<1>2. CASE r # t
  BY <1>2 DEF Tasks, Steps
<1>3. CASE r = t
  <2>1. cpu' # t => \A s \in Elems(todo'[t]) : ~Opens(s)
    BY DEF Elems
  <2>2. todo'[t] # <<>> => cpu' = t \/ t \in Senders'
    OBVIOUS
  <2>3. \A s \in Elems(todo'[t]) : s.op \in {"watch", "rewatchIfUnseen"} => t = "link"
    BY DEF Tasks, Steps
  <2>4. \A s \in Elems(todo'[t]) : s.op \in {"rewatch", "rewatchIfUnseen"} =>
          \E p \in Elems(todo'[t]) : p.op = "pushControl"
    BY DEF Tasks, Steps
  <2> QED
    BY <1>3, <2>1, <2>2, <2>3, <2>4
<1> QED
  BY <1>2, <1>3

------------------------------------------------------------------------------
(* The invariant is preserved: the pushing tasks and the drain job         *)

\* Nobody is no task, and the drain job pushes nothing.
LEMMA NobodyLemma ==
    ASSUME FeedAssumption, TypeOK
    PROVE  /\ None \notin Task /\ None # "drain" /\ \A t \in Pusher : t # "drain"
           /\ None \notin Senders /\ None \notin failed /\ Senders \subseteq Task
<1>1. None \notin Task /\ None # "drain" /\ \A t \in Pusher : t # "drain"
  BY DEF FeedAssumption, Task, Pusher
<1>2. sendq \in Seq(Msg) /\ failed \subseteq Task
  BY DEF TypeOK
<1>3. \A i \in DOMAIN sendq : sendq[i].by \in Task
  <2>1. \A m \in Msg : m.by \in Task
    BY DEF Msg
  <2> QED
    BY <1>2, <2>1
<1>4. Senders \subseteq Task
  BY <1>3 DEF Senders
<1> QED
  BY <1>1, <1>2, <1>4

LEMMA WatchInd ==
    ASSUME FeedAssumption, IInv, NEW t \in Pusher, WatchStep(t)
    PROVE  IInv'
<1> USE DEF IInv
<1> DEFINE skipped ==
             /\ Head(todo[t]).op = "rewatchIfUnseen" /\ (watchSeen \/ panelWatch = <<>>)
             /\ UNCHANGED feedVars
             /\ Elems(todo'[t]) = Elems(Rest(t))
           taken ==
             /\ panelWatch' \in Seq(Entity) /\ watched' \in Seq(Entity)
             /\ Elems(watched') = Elems(panelWatch') \cap Elems(Allowed)
             /\ sub' = Elems(watched') \cup Elems(Controllable)
             /\ outbox' = Filter(outbox, sub')
             /\ sent' = [e \in Entity |-> IF e \in sub' THEN sent[e] ELSE None]
             /\ Elems(todo'[t]) = {Do("push", watched')} \cup Elems(Rest(t))
<1>1. /\ cpu = t /\ todo[t] # <<>>
      /\ Head(todo[t]).op \in {"watch", "rewatch", "rewatchIfUnseen"}
      /\ UNCHANGED <<stillVars, listening, cpu, sendq, told, cat, missed, refused, listing>>
      /\ todo' \in [Pusher -> Seq(Step)] /\ WellFormed(todo'[t])
      /\ \A r \in Pusher : r # t => todo'[r] = todo[r]
      /\ Elems(todo[t]) = {Head(todo[t])} \cup Elems(Rest(t))
      /\ skipped \/ taken
  BY WatchEffect
<1>2. Controllable \in Seq(Entity)
  BY ListsLemma DEF TypeOK
<1>3. CASE skipped
  <2>1. TypeOK'
    BY <1>1, <1>3 DEF TypeOK, stillVars, feedVars
  <2>2. Tasks'
    BY <1>1, <1>3, TasksAfter DEF stillVars, Senders
  <2> QED
    BY <1>1, <1>3, <2>1, <2>2
    DEF Queued, PerLink, OutboxOnce, Senders, stillVars, feedVars
<1>4. CASE taken
  <2>1. outbox' \in Seq(Entity) /\ OutboxOnce'
    BY <1>1, <1>4, FilterOutbox DEF stillVars
  <2>2. sub' \subseteq Entity
    BY <1>2, <1>4 DEF Elems
  <2>3. sent' \in [Entity -> Value \cup {None}]
    BY <1>4 DEF TypeOK
  <2>4. TypeOK'
    BY <1>1, <1>4, <2>1, <2>2, <2>3 DEF TypeOK, stillVars
  <2>5. Tasks'
    <3>1. Do("push", watched').op = "push"
      BY DEF Do
    <3> QED
      BY <1>1, <1>4, <3>1, TasksAfter DEF stillVars, Senders
  <2>6. PerLink'
    <3>1. \A e \in Entity : sent[e] = None => sent'[e] = None
      BY <1>4
    <3> QED
      BY <1>1, <3>1 DEF PerLink, stillVars
  <2>7. Queued'
    <3>1. UNCHANGED <<cpu, sendq, failed, draining>>
      BY <1>1 DEF stillVars
    <3> QED
      BY <3>1 DEF Queued, Senders
  <2> QED
    BY <2>1, <2>4, <2>5, <2>6, <2>7
<1> QED
  BY <1>1, <1>3, <1>4

LEMMA PlanInd ==
    ASSUME FeedAssumption, IInv, NEW t \in Pusher, PlanStep(t)
    PROVE  IInv'
<1> USE DEF IInv
<1>1. /\ cpu = t /\ todo[t] # <<>>
      /\ UNCHANGED <<stillVars, feedVars, listening, cpu, sendq, told, cat, missed,
                     refused, listing>>
      /\ todo' \in [Pusher -> Seq(Step)] /\ WellFormed(todo'[t])
      /\ \A r \in Pusher : r # t => todo'[r] = todo[r]
      /\ Elems(todo[t]) = {Head(todo[t])} \cup Elems(Rest(t))
  BY PlanEffect
<1>2. \E new \in SUBSET Step :
        /\ Elems(todo'[t]) = new \cup Elems(Rest(t))
        /\ \A s \in new : s.op \in {"page", "push", "state"}
        /\ Head(todo[t]).op = "pushControl" => Elems(Rest(t)) = {}
  <2>1. Head(todo[t]).op = "pushControl" => Elems(Rest(t)) = {}
    BY <1>1, ControlIsLast
  <2>2. \A l : Do("push", l).op = "push" /\ Do("state", l).op = "state"
    BY DEF Do
  <2>3. Elems(todo'[t]) \subseteq Step
    BY <1>1 DEF Elems
  <2>4. \/ \E new \in SUBSET Step :
             /\ Elems(todo'[t]) = new \cup Elems(Rest(t))
             /\ \A s \in new : s.op = "page"
        \/ \E l \in Seq(Entity) : Elems(todo'[t]) = {Do("push", l)} \cup Elems(Rest(t))
        \/ Elems(todo'[t]) = {Do("state", <<e>>) : e \in Elems(Head(todo[t]).list)}
                                \cup Elems(Rest(t))
    BY PlanEffect
  <2>5. CASE \E new \in SUBSET Step :
               /\ Elems(todo'[t]) = new \cup Elems(Rest(t))
               /\ \A s \in new : s.op = "page"
    BY <2>1, <2>5
  <2>6. CASE \E l \in Seq(Entity) : Elems(todo'[t]) = {Do("push", l)} \cup Elems(Rest(t))
    <3>1. PICK l \in Seq(Entity) : Elems(todo'[t]) = {Do("push", l)} \cup Elems(Rest(t))
      BY <2>6
    <3> DEFINE new == {Do("push", l)}
    <3>2. new \in SUBSET Step /\ \A s \in new : s.op = "push"
      BY <2>2, <2>3, <3>1
    <3> HIDE DEF new
    <3> QED
      BY <2>1, <3>1, <3>2 DEF new
  <2>7. CASE Elems(todo'[t]) = {Do("state", <<e>>) : e \in Elems(Head(todo[t]).list)}
                                  \cup Elems(Rest(t))
    <3> DEFINE new == {Do("state", <<e>>) : e \in Elems(Head(todo[t]).list)}
    <3>1. \A s \in new : s.op = "state"
      BY <2>2
    <3>2. new \in SUBSET Step /\ Elems(todo'[t]) = new \cup Elems(Rest(t))
      BY <2>3, <2>7
    <3> HIDE DEF new
    <3> QED
      BY <2>1, <3>1, <3>2
  <2> QED
    BY <2>4, <2>5, <2>6, <2>7
<1>3. Tasks'
  BY <1>1, <1>2, TasksAfter DEF stillVars, Senders
<1>4. TypeOK'
  BY <1>1 DEF TypeOK, stillVars, feedVars
<1> QED
  BY <1>1, <1>3, <1>4 DEF Queued, PerLink, OutboxOnce, Senders, stillVars, feedVars

LEMMA SendInd ==
    ASSUME FeedAssumption, IInv, NEW t \in Pusher, SendStep(t)
    PROVE  IInv'
<1> USE DEF IInv
<1>1. /\ cpu = t /\ todo[t] # <<>> /\ Head(todo[t]).op \in {"state", "page"}
      /\ UNCHANGED <<stillVars, feedVars, listening>>
      /\ todo' \in [Pusher -> Seq(Step)] /\ WellFormed(todo'[t])
      /\ \A r \in Pusher : r # t => todo'[r] = todo[r]
      /\ Elems(todo[t]) = {Head(todo[t])} \cup Elems(Rest(t))
      /\ \A x \in Elems(todo'[t]) : ~Opens(x)
  BY SendEffect
<1>2. CASE link = "up"
  <2>1. /\ Elems(todo'[t]) = Elems(Rest(t))
        /\ \E m \in Msg :
             /\ m.by = t /\ Send(m)
             /\ missed' \subseteq missed /\ refused' \subseteq refused
             /\ listing' \in Pusher \cup {None, "cut"}
             /\ m.op = "state" => Len(m.list) = 1 /\ m.value \in Value
    <3>1. Elems(todo'[t]) = Elems(Rest(t))
      BY <1>2, SendEffect
    <3>2. PICK m \in Msg :
            /\ m.by = t /\ Send(m)
            /\ \/ /\ Head(todo[t]).op = "state" /\ m.op = "state" /\ m.first = FALSE
                  /\ listing' = listing
                  /\ \E e \in Entity :
                       /\ Head(todo[t]).list = <<e>> /\ m.list = <<e>>
                       /\ m.value = ha[e] /\ missed' = missed \ {e}
                       /\ refused' = refused \ {e}
               \/ /\ Head(todo[t]).op = "page" /\ m.op = "page"
                  /\ m.first = Head(todo[t]).first /\ m.list = Head(todo[t]).list
                  /\ missed' = missed /\ refused' = refused /\ listing' = Begun(t)
      BY <1>2, SendEffect
    <3>3. missed' \subseteq missed /\ refused' \subseteq refused
      BY <3>2
    <3>6. listing' \in Pusher \cup {None, "cut"}
      <4>1. Begun(t) \in {t, None, listing}
        BY DEF Begun
      <4> QED
        BY <3>2, <4>1 DEF TypeOK
    <3>4. m.op = "state" => \E e \in Entity : m.list = <<e>> /\ m.value = ha[e]
      BY <3>2
    <3>5. m.op = "state" => Len(m.list) = 1 /\ m.value \in Value
      <4>1. \A e \in Entity : ha[e] \in Value /\ Len(<<e>>) = 1
        BY DEF TypeOK
      <4> QED
        BY <3>4, <4>1
    <3> QED
      BY <3>1, <3>2, <3>3, <3>5, <3>6
  <2>2. PICK m \in Msg : /\ m.by = t /\ Send(m)
                         /\ missed' \subseteq missed /\ refused' \subseteq refused
                         /\ listing' \in Pusher \cup {None, "cut"}
                         /\ m.op = "state" => Len(m.list) = 1 /\ m.value \in Value
    BY <2>1
  <2>3. t \in Task
    BY DEF Task
  <2>4. /\ sendq' \in Seq(Msg) /\ Len(sendq') = Len(sendq) + 1 /\ Len(sendq) \in Nat
        /\ cpu' = None /\ Senders' = Senders \cup {t}
        /\ \A i, j \in 1..Len(sendq') : sendq'[i].by = sendq'[j].by => i = j
        /\ \A i \in 1..Len(sendq') :
             sendq'[i].op = "state" => Len(sendq'[i].list) = 1 /\ sendq'[i].value \in Value
        /\ told' \in [Entity -> Value \cup {None}] /\ cat' \subseteq Entity
    BY <1>1, <2>2, <2>3, SendLemma
  <2>5. TypeOK'
    BY <1>1, <2>2, <2>4 DEF TypeOK, stillVars, feedVars
  <2>6. Tasks'
    BY <1>1, <2>1, <2>4, TasksAfter DEF stillVars
  <2>7. /\ None \notin Task /\ t # "drain" /\ None # "drain"
        /\ None \notin Senders /\ None \notin failed
    BY NobodyLemma
  <2>8. Queued'
    <3>1. cpu' \notin Senders' /\ cpu' \notin failed' /\ Senders' \cap failed' = {}
      <4>1. Senders' = Senders \cup {t} /\ failed' = failed /\ cpu' = None
        BY <1>1, <2>4 DEF stillVars
      <4> QED
        BY <1>1, <2>3, <2>7, <4>1 DEF Queued
    <3>2. draining' <=> cpu' = "drain" \/ "drain" \in failed' \/ "drain" \in Senders'
      BY <1>1, <2>4, <2>7 DEF Queued, stillVars, Task
    <3> QED
      BY <2>4, <3>1, <3>2 DEF Queued
  <2>9. PerLink' /\ OutboxOnce'
    BY <1>1, <1>2 DEF PerLink, OutboxOnce, stillVars, feedVars
  <2> QED
    BY <2>5, <2>6, <2>8, <2>9
<1>3. CASE link # "up"
  <2>1. /\ UNCHANGED <<cpu, sendq, told, cat, missed, refused, listing>>
        /\ Elems(todo'[t]) \subseteq Elems(todo[t])
        /\ \A s \in Elems(todo[t]) : s.op \notin {"state", "page"} => s \in Elems(todo'[t])
    BY <1>3, SendEffect
  <2>2. Tasks'
    BY <1>1, <2>1, TasksAfter DEF stillVars, Senders
  <2>3. TypeOK'
    BY <1>1, <2>1 DEF TypeOK, stillVars, feedVars
  <2> QED
    BY <1>1, <2>1, <2>2, <2>3 DEF Queued, PerLink, OutboxOnce, Senders, stillVars, feedVars
<1> QED
  BY <1>2, <1>3

LEMMA TooLongInd ==
    ASSUME FeedAssumption, IInv, NEW t \in Pusher, SendTooLong(t)
    PROVE  IInv'
<1> USE DEF IInv
<1>1. /\ cpu = t /\ todo[t] # <<>> /\ Head(todo[t]).op \in {"state", "page"}
      /\ UNCHANGED <<stillVars, feedVars, listening, cpu, sendq, told, cat>>
      /\ todo' \in [Pusher -> Seq(Step)] /\ WellFormed(todo'[t])
      /\ \A r \in Pusher : r # t => todo'[r] = todo[r]
      /\ Elems(todo[t]) = {Head(todo[t])} \cup Elems(Rest(t))
      /\ Elems(todo'[t]) \subseteq Elems(Rest(t))
      /\ \A s \in Elems(Rest(t)) : s.op # "page" => s \in Elems(todo'[t])
  BY TooLongEffect
<1>2. /\ missed' \subseteq Entity /\ refused' \subseteq Entity
      /\ listing' \in Pusher \cup {None, "cut"}
  <2>1. \/ listing' \in {"cut", listing}
    BY TooLongEffect
  <2>2. \/ missed' = missed /\ refused' = refused
        \/ \E e \in Entity : missed' = missed \cup {e} /\ refused' = refused \cup {e}
    BY TooLongEffect
  <2> QED
    BY <2>1, <2>2 DEF TypeOK
<1>3. Tasks'
  BY <1>1, TasksAfter DEF stillVars, Senders
<1>4. TypeOK'
  BY <1>1, <1>2 DEF TypeOK, stillVars, feedVars
<1> QED
  BY <1>1, <1>3, <1>4 DEF Queued, PerLink, OutboxOnce, Senders, stillVars, feedVars

LEMMA ReturnsInd ==
    ASSUME FeedAssumption, IInv, NEW t \in Pusher, Returns(t)
    PROVE  IInv'
<1> USE DEF IInv
<1>1. /\ cpu = t /\ todo[t] = <<>> /\ cpu' = None
      /\ listening' \in BOOLEAN
      /\ UNCHANGED <<stillVars, feedVars, todo, sendq, told, cat, missed, refused, listing>>
  BY DEF Returns, IInv, TypeOK
<1>2. None \notin Task /\ t # "drain" /\ None # "drain"
  BY NobodyLemma
<1>3. None \notin Senders /\ None \notin failed
  BY NobodyLemma
<1>4. Tasks'
  BY <1>1, TasksAfter DEF stillVars, Senders, Tasks
<1>5. TypeOK'
  BY <1>1 DEF TypeOK, stillVars, feedVars
<1>6. Queued'
  BY <1>1, <1>2, <1>3 DEF Queued, Senders, stillVars, Task
<1> QED
  BY <1>1, <1>4, <1>5, <1>6 DEF PerLink, OutboxOnce, stillVars, feedVars

\* The oldest entity owed is done with.
LEMMA TailOutbox ==
    ASSUME IInv, outbox # <<>>, outbox' = Tail(outbox), draining' = draining, sub' = sub
    PROVE  /\ Head(outbox) \in Entity /\ outbox' \in Seq(Entity) /\ OutboxOnce'
           /\ Elems(outbox) = {Head(outbox)} \cup Elems(outbox')
<1>1. outbox \in Seq(Entity)
  BY DEF IInv, TypeOK
<1>2. /\ Head(outbox) \in Entity /\ outbox' \in Seq(Entity) /\ Len(outbox) \in Nat \ {0}
      /\ Len(outbox') = Len(outbox) - 1
      /\ \A i \in 1..Len(outbox') : outbox'[i] = outbox[i + 1] /\ i + 1 \in 1..Len(outbox)
  BY <1>1
<1>3. Elems(outbox) = {Head(outbox)} \cup Elems(outbox')
  BY <1>1, TailElems
<1>4. \A i, j \in 1..Len(outbox') : outbox'[i] = outbox'[j] => i = j
  BY <1>2 DEF IInv, OutboxOnce
<1>5. Elems(outbox') \subseteq sub' /\ draining'
  BY <1>3 DEF IInv, OutboxOnce
<1> QED
  BY <1>2, <1>3, <1>4, <1>5 DEF OutboxOnce

\* One turn of the drain loop.
LEMMA DrainEffect ==
    ASSUME FeedAssumption, IInv, DrainTurn
    PROVE  /\ cpu = "drain"
           /\ UNCHANGED <<ha, options, loaded, listening, link, phase, panelWatch, watchSeen,
                          watched, sub, sent, todo, failed, listing, unheard>>
           /\ \/ /\ outbox = <<>> /\ draining' = FALSE /\ cpu' = None
                 /\ UNCHANGED <<outbox, sendq, told, cat, missed, refused>>
              \/ /\ outbox' \in Seq(Entity) /\ draining' = draining /\ OutboxOnce'
                 /\ \E e \in Entity :
                      /\ Elems(outbox) = {e} \cup Elems(outbox')
                      /\ \/ /\ link # "up" \/ sent[e] = ha[e]
                            /\ UNCHANGED <<cpu, sendq, told, cat, refused>>
                            /\ missed' = IF link = "up" /\ Waiting(e)
                                         THEN missed \cup {e} ELSE missed
                         \/ /\ link = "up"
                            /\ \E m \in Msg :
                                 /\ m.by = "drain" /\ m.op = "state" /\ m.first = FALSE
                                 /\ m.list = <<e>> /\ m.value = ha[e]
                                 /\ Send(m) /\ missed' = missed \ {e}
                                 /\ refused' = refused \ {e}
<1>1. /\ cpu = "drain"
      /\ UNCHANGED <<ha, options, loaded, listening, link, phase, panelWatch, watchSeen,
                     watched, sub, sent, todo, failed, listing, unheard>>
  BY DEF DrainTurn
<1>2. CASE outbox = <<>>
  BY <1>1, <1>2 DEF DrainTurn
<1>3. CASE outbox # <<>>
  <2> DEFINE e == Head(outbox)
             m == StateMsg("drain", e)
  <2>1. /\ outbox' = Tail(outbox) /\ draining' = draining
        /\ IF link # "up" \/ sent[e] = ha[e]
           THEN /\ missed' = IF link = "up" /\ Waiting(e) THEN missed \cup {e} ELSE missed
                /\ UNCHANGED <<cpu, sendq, told, cat, refused>>
           ELSE Send(m) /\ missed' = missed \ {e} /\ refused' = refused \ {e}
    BY <1>3 DEF DrainTurn, Unchanged, GoesOut
  <2>2. /\ e \in Entity /\ outbox' \in Seq(Entity) /\ OutboxOnce'
        /\ Elems(outbox) = {e} \cup Elems(outbox')
    BY <1>1, <1>3, <2>1, TailOutbox
  <2> HIDE DEF e
  <2>5. /\ m \in Msg /\ m.by = "drain" /\ m.op = "state" /\ m.list = <<e>>
        /\ m.value = ha[e]
    <3>1. ha[e] \in Value /\ <<e>> \in Seq(Entity) /\ "drain" \in Task
      BY <2>2 DEF IInv, TypeOK, Task
    <3> QED
      BY <3>1 DEF StateMsg, Msg
  <2>6. m.first = FALSE
    BY SMTT(40) DEF StateMsg
  <2> HIDE DEF m
  <2>7. CASE link # "up" \/ sent[e] = ha[e]
    BY <1>1, <2>1, <2>2, <2>7
  <2>8. CASE ~(link # "up" \/ sent[e] = ha[e])
    <3>1. link = "up" /\ Send(m) /\ missed' = missed \ {e} /\ refused' = refused \ {e}
      BY <2>1, <2>8
    <3> QED
      BY <1>1, <2>1, <2>2, <2>5, <2>6, <3>1
  <2> QED
    BY <2>7, <2>8
<1> QED
  BY <1>2, <1>3

\* ... or its message is given up.
LEMMA DrainTooLongEffect ==
    ASSUME FeedAssumption, IInv, DrainTooLong
    PROVE  /\ cpu = "drain" /\ link = "up"
           /\ UNCHANGED <<ha, options, loaded, listening, link, phase, panelWatch, watchSeen,
                          watched, sub, sent, draining, todo, cpu, sendq, failed, told, cat,
                          listing, unheard>>
           /\ outbox' \in Seq(Entity) /\ OutboxOnce'
           /\ \E e \in Entity :
                /\ Elems(outbox) = {e} \cup Elems(outbox')
                /\ missed' = missed \cup {e} /\ refused' = refused \cup {e}
<1> DEFINE e == Head(outbox)
<1>1. /\ cpu = "drain" /\ link = "up" /\ outbox # <<>> /\ outbox' = Tail(outbox)
      /\ missed' = missed \cup {e} /\ refused' = refused \cup {e}
      /\ UNCHANGED <<ha, options, loaded, listening, link, phase, panelWatch, watchSeen,
                     watched, sub, sent, draining, todo, cpu, sendq, failed, told, cat,
                     listing, unheard>>
  BY DEF DrainTooLong, MayBeLong, LeftOut
<1>2. /\ e \in Entity /\ outbox' \in Seq(Entity) /\ OutboxOnce'
      /\ Elems(outbox) = {e} \cup Elems(outbox')
  BY <1>1, TailOutbox
<1> QED
  BY <1>1, <1>2

\* The coroutines are as they were, and nobody that had to run is forgotten.
LEMMA TasksStay ==
    ASSUME Tasks, UNCHANGED todo,
           \A t \in Pusher : /\ t \in failed \/ t \in Senders \/ cpu = t
                                   => cpu' = t \/ t \in failed' \/ t \in Senders'
                             /\ cpu = t => cpu' = t
    PROVE  Tasks'
  BY DEF Tasks, Steps

LEMMA DrainInd ==
    ASSUME FeedAssumption, IInv, DrainTurn
    PROVE  IInv'
<1> USE DEF IInv
<1>1. /\ cpu = "drain" /\ "drain" \in Task /\ "drain" \notin Pusher
      /\ UNCHANGED <<ha, options, loaded, listening, link, phase, panelWatch, watchSeen, watched,
                     sub, sent, todo, failed, listing, unheard>>
  BY DrainEffect, NobodyLemma DEF Task
<1>2. /\ None \notin Task /\ None # "drain" /\ None \notin Senders /\ None \notin failed
  BY NobodyLemma
<1>3. CASE /\ outbox = <<>> /\ draining' = FALSE /\ cpu' = None
           /\ UNCHANGED <<outbox, sendq, told, cat, missed, refused>>
  <2>1. Tasks'
    BY <1>1, <1>3, TasksStay DEF Senders
  <2>2. TypeOK'
    BY <1>1, <1>3 DEF TypeOK
  <2>3. Queued'
    BY <1>1, <1>2, <1>3 DEF Queued, Senders
  <2>4. PerLink' /\ OutboxOnce'
    BY <1>1, <1>3 DEF PerLink, OutboxOnce
  <2> QED
    BY <2>1, <2>2, <2>3, <2>4
<1>4. ASSUME outbox' \in Seq(Entity), draining' = draining, OutboxOnce',
             UNCHANGED <<cpu, sendq, told, cat>>,
             missed' \subseteq Entity, refused' \subseteq Entity
      PROVE  IInv'
  <2>1. Tasks'
    BY <1>1, <1>4, TasksStay DEF Senders
  <2>2. TypeOK'
    BY <1>1, <1>4 DEF TypeOK
  <2>3. Queued' /\ PerLink'
    BY <1>1, <1>4 DEF Queued, Senders, PerLink
  <2> QED
    BY <1>4, <2>1, <2>2, <2>3
<1>5. ASSUME outbox' \in Seq(Entity), draining' = draining, OutboxOnce', link = "up",
             missed' \subseteq Entity, refused' \subseteq Entity,
             NEW m \in Msg, m.by = "drain", Send(m),
             m.op = "state" => Len(m.list) = 1 /\ m.value \in Value
      PROVE  IInv'
  <2>1. /\ sendq' \in Seq(Msg) /\ Len(sendq') = Len(sendq) + 1 /\ Len(sendq) \in Nat
        /\ cpu' = None /\ Senders' = Senders \cup {"drain"}
        /\ \A i, j \in 1..Len(sendq') : sendq'[i].by = sendq'[j].by => i = j
        /\ \A i \in 1..Len(sendq') :
             sendq'[i].op = "state" => Len(sendq'[i].list) = 1 /\ sendq'[i].value \in Value
        /\ told' \in [Entity -> Value \cup {None}] /\ cat' \subseteq Entity
    BY <1>1, <1>5, SendLemma
  <2>2. Tasks'
    BY <1>1, <2>1, TasksStay
  <2>3. TypeOK'
    BY <1>1, <1>5, <2>1 DEF TypeOK
  <2>4. Queued'
    <3>1. cpu' \notin Senders' /\ cpu' \notin failed' /\ Senders' \cap failed' = {}
      BY <1>1, <1>2, <2>1 DEF Queued
    <3>2. draining' /\ "drain" \in Senders'
      BY <1>1, <1>5, <2>1 DEF Queued
    <3> QED
      BY <2>1, <3>1, <3>2 DEF Queued
  <2>5. PerLink'
    BY <1>1, <1>5 DEF PerLink
  <2> QED
    BY <1>5, <2>2, <2>3, <2>4, <2>5
<1>6. \/ /\ outbox = <<>> /\ draining' = FALSE /\ cpu' = None
         /\ UNCHANGED <<outbox, sendq, told, cat, missed, refused>>
      \/ /\ outbox' \in Seq(Entity) /\ draining' = draining /\ OutboxOnce'
         /\ missed' \subseteq Entity /\ refused' \subseteq Entity
         /\ \/ UNCHANGED <<cpu, sendq, told, cat>>
            \/ /\ link = "up"
               /\ \E m \in Msg :
                    /\ m.by = "drain" /\ Send(m)
                    /\ m.op = "state" => Len(m.list) = 1 /\ m.value \in Value
  <2>1. \A e \in Entity : ha[e] \in Value /\ Len(<<e>>) = 1
    BY DEF TypeOK
  <2>2. missed \subseteq Entity /\ refused \subseteq Entity
    BY DEF TypeOK
  <2> QED
    BY <2>1, <2>2, DrainEffect
<1> QED
  BY <1>3, <1>4, <1>5, <1>6

LEMMA DrainTooLongInd ==
    ASSUME FeedAssumption, IInv, DrainTooLong
    PROVE  IInv'
<1> USE DEF IInv
<1>1. /\ UNCHANGED <<ha, options, loaded, listening, link, phase, panelWatch, watchSeen,
                     watched, sub, sent, draining, todo, cpu, sendq, failed, told, cat,
                     listing, unheard>>
      /\ outbox' \in Seq(Entity) /\ OutboxOnce'
      /\ missed' \subseteq Entity /\ refused' \subseteq Entity
  BY DrainTooLongEffect DEF TypeOK
<1>2. Tasks'
  BY <1>1, TasksStay DEF Senders
<1>3. TypeOK'
  BY <1>1 DEF TypeOK
<1>4. Queued' /\ PerLink'
  BY <1>1 DEF Queued, Senders, PerLink
<1> QED
  BY <1>1, <1>2, <1>3, <1>4

------------------------------------------------------------------------------
(* ... the queue and Home Assistant                                        *)

LEMMA DoneInd ==
    ASSUME FeedAssumption, IInv, SendDone
    PROVE  IInv'
<1> USE DEF IInv
<1> DEFINE m == Head(sendq)
<1>1. /\ cpu = None /\ link = "up" /\ sendq # <<>> /\ m \in Msg
      /\ Len(sendq) \in Nat \ {0} /\ sendq' \in Seq(Msg) /\ Len(sendq') = Len(sendq) - 1
      /\ \A i \in 1..Len(sendq') : sendq'[i] = sendq[i + 1]
      /\ cpu' \in Task /\ Senders = Senders' \cup {cpu'} /\ cpu' \notin Senders'
      /\ sent' = Remembered(m)
      /\ told' \in [Entity -> Value \cup {None}] /\ cat' \subseteq Entity
      /\ UNCHANGED <<ha, options, loaded, listening, link, phase, panelWatch, watchSeen, watched,
                     sub, outbox, draining, todo, failed, missed, refused, listing, unheard>>
  BY DoneEffect
<1> HIDE DEF m
<1>2. None \notin Task /\ None # "drain"
  BY NobodyLemma
<1>3. sent' \in [Entity -> Value \cup {None}]
  <2>1. m.value \in Value \cup {None}
    BY <1>1 DEF Msg
  <2> QED
    BY <1>1, <2>1 DEF Remembered, TypeOK
<1>4. TypeOK'
  BY <1>1, <1>3 DEF TypeOK
<1>5. Tasks'
  <2>1. \A t \in Pusher : t # None
    BY <1>2 DEF Task
  <2> QED
    BY <1>1, <2>1, TasksStay
<1>6. Queued'
  <2>1. \A i, j \in 1..Len(sendq') : sendq'[i].by = sendq'[j].by => i = j
    <3> SUFFICES ASSUME NEW i \in 1..Len(sendq'), NEW j \in 1..Len(sendq'),
                        sendq'[i].by = sendq'[j].by
                 PROVE  i = j
      OBVIOUS
    <3>1. i + 1 \in 1..Len(sendq) /\ j + 1 \in 1..Len(sendq)
      BY <1>1
    <3>2. sendq[i + 1].by = sendq[j + 1].by
      BY <1>1
    <3>3. i + 1 = j + 1
      BY <3>1, <3>2 DEF Queued
    <3> QED
      BY <3>3
  <2>2. \A i \in 1..Len(sendq') :
          sendq'[i].op = "state" => Len(sendq'[i].list) = 1 /\ sendq'[i].value \in Value
    <3> SUFFICES ASSUME NEW i \in 1..Len(sendq'), sendq'[i].op = "state"
                 PROVE  Len(sendq'[i].list) = 1 /\ sendq'[i].value \in Value
      OBVIOUS
    <3>1. i + 1 \in 1..Len(sendq) /\ sendq'[i] = sendq[i + 1]
      BY <1>1
    <3> QED
      BY <3>1 DEF Queued
  <2>3. cpu' \notin Senders' /\ cpu' \notin failed' /\ Senders' \cap failed' = {}
    BY <1>1 DEF Queued
  <2>4. draining' <=> cpu' = "drain" \/ "drain" \in failed' \/ "drain" \in Senders'
    <3>1. draining <=> "drain" \in failed \/ "drain" \in Senders
      BY <1>1, <1>2 DEF Queued
    <3> QED
      BY <1>1, <3>1
  <2> QED
    BY <2>1, <2>2, <2>3, <2>4 DEF Queued
<1>7. PerLink' /\ OutboxOnce'
  BY <1>1 DEF PerLink, OutboxOnce
<1> QED
  BY <1>4, <1>5, <1>6, <1>7

LEMMA RaisedInd ==
    ASSUME FeedAssumption, IInv, NEW t \in Task, SendRaised(t)
    PROVE  IInv'
<1> USE DEF IInv
<1>1. /\ cpu = None /\ t \in failed /\ failed' = failed \ {t} /\ cpu' = t
      /\ todo' = IF t = "drain" THEN todo ELSE [todo EXCEPT ![t] = AfterRaise(@)]
      /\ UNCHANGED <<ha, options, loaded, listening, link, phase, panelWatch, watchSeen, watched,
                     sub, outbox, sent, draining, sendq, told, cat, missed, refused,
                     listing, unheard>>
  BY DEF SendRaised, ghosts
<1>2. /\ None \notin Task /\ None # "drain" /\ None \notin Senders /\ None \notin failed
      /\ \A r \in Pusher : r # "drain" /\ r # None
  BY NobodyLemma DEF Task
<1>3. Senders' = Senders
  BY <1>1 DEF Senders
<1>4. CASE t = "drain"
  <2>1. Tasks'
    BY <1>1, <1>2, <1>3, <1>4, TasksStay
  <2>2. TypeOK'
    BY <1>1, <1>4 DEF TypeOK
  <2>3. Queued'
    BY <1>1, <1>2, <1>3, <1>4 DEF Queued
  <2> QED
    BY <1>1, <2>1, <2>2, <2>3 DEF PerLink, OutboxOnce
<1>5. CASE t # "drain"
  <2>1. t \in Pusher /\ todo[t] \in Seq(Step) /\ WellFormed(todo[t])
    BY <1>5 DEF Task, TypeOK, Tasks
  <2>2. /\ AfterRaise(todo[t]) \in Seq(Step) /\ WellFormed(AfterRaise(todo[t]))
        /\ Elems(AfterRaise(todo[t])) = {x \in Elems(todo[t]) : x.op # "page"}
    BY <2>1, RaiseLemma
  <2>3. /\ todo' \in [Pusher -> Seq(Step)] /\ todo'[t] = AfterRaise(todo[t])
        /\ \A r \in Pusher : r # t => todo'[r] = todo[r]
    BY <1>1, <1>5, <2>1, <2>2 DEF TypeOK
  <2>4. \A x \in Elems(todo'[t]) : x \in Elems(todo[t])
    BY <2>2, <2>3
  <2>5. ASSUME NEW r \in Pusher
        PROVE  /\ WellFormed(todo'[r])
               /\ todo'[r] # <<>> => cpu' = r \/ r \in failed' \/ r \in Senders'
               /\ cpu' # r => \A s \in Elems(todo'[r]) : ~Opens(s)
               /\ \A s \in Elems(todo'[r]) :
                    s.op \in {"watch", "rewatchIfUnseen"} => r = "link"
               /\ \A s \in Elems(todo'[r]) : s.op \in {"rewatch", "rewatchIfUnseen"} =>
                    \E p \in Elems(todo'[r]) : p.op = "pushControl"
    <3>1. CASE r # t
      <4>1. todo'[r] = todo[r] /\ cpu # r
        BY <1>1, <1>2, <2>3, <3>1
      <4> QED
        BY <1>1, <1>2, <1>3, <3>1, <4>1 DEF Tasks, Steps
    <3>2. CASE r = t
      <4>1. \A s \in Elems(todo'[t]) :
              s.op \in {"watch", "rewatchIfUnseen"} => t = "link"
        BY <2>1, <2>4 DEF Tasks, Steps
      <4>2. \A s \in Elems(todo'[t]) : s.op \in {"rewatch", "rewatchIfUnseen"} =>
              \E p \in Elems(todo'[t]) : p.op = "pushControl"
        BY <2>1, <2>2, <2>3 DEF Tasks, Steps
      <4> QED
        BY <1>1, <2>2, <2>3, <3>2, <4>1, <4>2
    <3> QED
      BY <3>1, <3>2
  <2>6. Tasks'
    BY <2>5 DEF Tasks, Steps
  <2>7. TypeOK'
    BY <1>1, <2>3 DEF TypeOK
  <2>8. Queued'
    BY <1>1, <1>2, <1>3, <1>5 DEF Queued
  <2> QED
    BY <1>1, <2>6, <2>7, <2>8 DEF PerLink, OutboxOnce
<1> QED
  BY <1>4, <1>5

LEMMA ChangeInd ==
    ASSUME FeedAssumption, IInv, NEW e \in Entity, NEW v \in Value, StateChanges(e, v)
    PROVE  IInv'
<1> USE DEF IInv
<1>1. /\ cpu = None /\ ha' \in [Entity -> Value]
      /\ UNCHANGED <<options, loaded, listening, link, phase, panelWatch, watchSeen, watched, sub,
                     sent, todo, sendq, failed, told, cat, refused, listing, unheard>>
  BY DEF StateChanges, TypeOK, ghosts
<1>2. /\ None \notin Task /\ None # "drain" /\ None \notin Senders /\ None \notin failed
      /\ \A r \in Pusher : r # "drain" /\ r # None
  BY NobodyLemma DEF Task
<1>3. Senders' = Senders
  BY <1>1 DEF Senders
<1>4. CASE e \in sub
  <2>1. /\ outbox' = Owed(e) /\ draining' = TRUE /\ missed' = missed
        /\ cpu' = IF draining THEN None ELSE "drain"
    BY <1>4 DEF StateChanges
  <2>2. outbox \in Seq(Entity)
    BY DEF TypeOK
  <2>3. outbox' \in Seq(Entity) /\ Elems(outbox') = Elems(outbox) \cup {e}
    BY <2>1, <2>2, AppendElems DEF Owed
  <2>4. \A i, j \in 1..Len(outbox') : outbox'[i] = outbox'[j] => i = j
    <3>1. CASE e \in Elems(outbox)
      BY <2>1, <3>1 DEF OutboxOnce, Owed
    <3>2. CASE e \notin Elems(outbox)
      <4>1. /\ Len(outbox') = Len(outbox) + 1 /\ Len(outbox) \in Nat
            /\ outbox'[Len(outbox) + 1] = e
            /\ \A i \in 1..Len(outbox) : outbox'[i] = outbox[i]
        BY <2>1, <2>2, <3>2 DEF Owed
      <4>2. \A i \in 1..Len(outbox) : outbox[i] # e
        BY <2>2, <3>2 DEF Elems
      <4> QED
        BY <4>1, <4>2 DEF OutboxOnce
    <3> QED
      BY <3>1, <3>2
  <2>5. OutboxOnce'
    BY <1>1, <1>4, <2>1, <2>3, <2>4 DEF OutboxOnce
  <2>6. Tasks'
    BY <1>1, <1>2, <1>3, TasksStay
  <2>7. TypeOK'
    BY <1>1, <2>1, <2>3 DEF TypeOK, Task
  <2>8. Queued'
    <3>1. cpu' \notin Senders' /\ cpu' \notin failed' /\ Senders' \cap failed' = {}
      BY <1>1, <1>2, <1>3, <2>1 DEF Queued
    <3>2. draining' <=> cpu' = "drain" \/ "drain" \in failed' \/ "drain" \in Senders'
      BY <1>1, <1>2, <1>3, <2>1 DEF Queued
    <3>3. \A i, j \in 1..Len(sendq') : sendq'[i].by = sendq'[j].by => i = j
      BY <1>1 DEF Queued
    <3>4. \A i \in 1..Len(sendq') :
            sendq'[i].op = "state" => Len(sendq'[i].list) = 1 /\ sendq'[i].value \in Value
      BY <1>1 DEF Queued
    <3> QED
      BY <3>1, <3>2, <3>3, <3>4 DEF Queued
  <2> QED
    BY <1>1, <2>5, <2>6, <2>7, <2>8 DEF PerLink
<1>5. CASE e \notin sub
  <2>1. /\ missed' = IF link = "up" THEN missed \cup {e} ELSE missed
        /\ UNCHANGED <<outbox, draining, cpu>>
    BY <1>5 DEF StateChanges
  <2>2. Tasks'
    BY <1>1, <1>3, <2>1, TasksStay
  <2>3. TypeOK'
    BY <1>1, <2>1 DEF TypeOK
  <2> QED
    BY <1>1, <1>3, <2>1, <2>2, <2>3 DEF Queued, PerLink, OutboxOnce
<1> QED
  BY <1>4, <1>5

------------------------------------------------------------------------------
(* ... the link, the options and unloading                                 *)

\* What a connection or a change of the options makes a task do.
LEMMA OpeningLemma ==
    ASSUME NEW op \in {"rewatch", "rewatchIfUnseen"}, NEW q,
           q = <<Do("catalog", <<>>), Do(op, <<>>), Do("pushControl", <<>>)>>
    PROVE  /\ q \in Seq(Step) /\ WellFormed(q)
           /\ Elems(q) = {Do("catalog", <<>>), Do(op, <<>>), Do("pushControl", <<>>)}
<1>1. \A o \in {"catalog", op, "pushControl"} :
        Do(o, <<>>) \in Step /\ Do(o, <<>>).op = o /\ Do(o, <<>>).first = FALSE
  BY DEF Do, Step
<1>2. /\ q \in Seq(Step) /\ Len(q) = 3 /\ DOMAIN q = 1..3
      /\ q[1] = Do("catalog", <<>>) /\ q[2] = Do(op, <<>>) /\ q[3] = Do("pushControl", <<>>)
  BY <1>1
<1>3. \A i \in 1..3 : i = 1 \/ i = 2 \/ i = 3
  OBVIOUS
<1>4. WellFormed(q)
  BY <1>1, <1>2, <1>3 DEF WellFormed, Opens
<1>5. Elems(q) = {Do("catalog", <<>>), Do(op, <<>>), Do("pushControl", <<>>)}
  BY <1>2, <1>3 DEF Elems
<1> QED
  BY <1>2, <1>4, <1>5

\* An idle task starts.
LEMMA StartInd ==
    ASSUME FeedAssumption, IInv, NEW t \in Pusher, NEW q \in Seq(Step), WellFormed(q),
           cpu = None, Idle(t), cpu' = t, todo' = [todo EXCEPT ![t] = q],
           \A s \in Elems(q) : s.op \in {"watch", "rewatchIfUnseen"} => t = "link",
           \A s \in Elems(q) : s.op \in {"rewatch", "rewatchIfUnseen"} =>
             \E r \in Elems(q) : r.op = "pushControl",
           options' \in Options, phase' \in {"off", "resync", "listen"},
           watchSeen' \in BOOLEAN, unheard' \in BOOLEAN,
           UNCHANGED <<ha, loaded, listening, link, panelWatch, watched, sub, outbox, sent, draining,
                       sendq, failed, told, cat, missed, refused, listing>>
    PROVE  IInv'
<1> USE DEF IInv
<1>1. /\ None \notin Task /\ None # "drain" /\ None \notin Senders /\ None \notin failed
      /\ \A r \in Pusher : r # "drain" /\ r # None
  BY NobodyLemma DEF Task
<1>2. Senders' = Senders /\ t \notin Senders /\ t \notin failed /\ t \in Task
  BY DEF Senders, Idle, Task
<1>3. /\ todo' \in [Pusher -> Seq(Step)] /\ todo'[t] = q
      /\ \A r \in Pusher : r # t => todo'[r] = todo[r]
  BY DEF TypeOK
<1>4. ASSUME NEW r \in Pusher
      PROVE  /\ WellFormed(todo'[r])
             /\ todo'[r] # <<>> => cpu' = r \/ r \in failed' \/ r \in Senders'
             /\ cpu' # r => \A s \in Elems(todo'[r]) : ~Opens(s)
             /\ \A s \in Elems(todo'[r]) :
                  s.op \in {"watch", "rewatchIfUnseen"} => r = "link"
             /\ \A s \in Elems(todo'[r]) : s.op \in {"rewatch", "rewatchIfUnseen"} =>
                  \E p \in Elems(todo'[r]) : p.op = "pushControl"
  <2>1. CASE r # t
    <3>1. todo'[r] = todo[r] /\ cpu # r
      BY <1>1, <1>3, <2>1
    <3> QED
      BY <1>1, <1>2, <2>1, <3>1 DEF Tasks, Steps
  <2>2. CASE r = t
    BY <1>3, <2>2
  <2> QED
    BY <2>1, <2>2
<1>5. Tasks'
  BY <1>4 DEF Tasks, Steps
<1>6. TypeOK'
  BY <1>2, <1>3 DEF TypeOK
<1>7. Queued'
  BY <1>1, <1>2 DEF Queued
<1> QED
  BY <1>5, <1>6, <1>7 DEF PerLink, OutboxOnce

LEMMA WatchArrivesInd ==
    ASSUME FeedAssumption, IInv, NEW ids \in WatchLists, WatchArrives(ids)
    PROVE  IInv'
<1> DEFINE q == <<Do("watch", ids)>>
<1>1. ids \in Seq(Entity) /\ "link" \in Pusher
  BY DEF FeedAssumption, Pusher
<1>2. /\ cpu = None /\ Idle("link") /\ cpu' = "link" /\ todo' = [todo EXCEPT !["link"] = q]
      /\ watchSeen' = TRUE
      /\ UNCHANGED <<ha, options, loaded, listening, link, phase, panelWatch, watched, sub, outbox,
                     sent, draining, sendq, failed, told, cat, missed, refused, listing,
                     unheard>>
  BY DEF WatchArrives, LinkReads, ghosts
<1>3. /\ q \in Seq(Step) /\ WellFormed(q) /\ \A s \in Elems(q) : s.op = "watch"
  <2>1. /\ q \in Seq(Step) /\ WellFormed(q) /\ Elems(q) = {Do("watch", ids)}
        /\ Do("watch", ids).op = "watch"
    BY <1>1, DoLemma
  <2> QED
    BY <2>1, Zenon
<1> HIDE DEF q
<1>4. /\ options' \in Options /\ phase' \in {"off", "resync", "listen"} /\ watchSeen' \in BOOLEAN
      /\ unheard' \in BOOLEAN
  BY <1>2 DEF IInv, TypeOK
<1> QED
  BY <1>1, <1>2, <1>3, <1>4, StartInd

LEMMA SnapshotInd ==
    ASSUME FeedAssumption, IInv, SnapshotArrives
    PROVE  IInv'
<1>1. /\ cpu = None /\ Idle("link") /\ cpu' = "link"
      /\ todo' = [todo EXCEPT !["link"] = AfterConnect] /\ phase' = "listen"
      /\ UNCHANGED <<ha, options, loaded, listening, link, panelWatch, watchSeen, watched, sub, outbox,
                     sent, draining, sendq, failed, told, cat, missed, refused, listing,
                     unheard>>
  BY DEF SnapshotArrives, LinkReads, ghosts
<1>2. "link" \in Pusher
  BY DEF Pusher
<1> DEFINE q == AfterConnect
<1>3. /\ q \in Seq(Step) /\ WellFormed(q)
      /\ Elems(q) = {Do("catalog", <<>>), Do("rewatchIfUnseen", <<>>),
                     Do("pushControl", <<>>)}
  BY OpeningLemma DEF AfterConnect
<1> HIDE DEF q
<1>4. /\ \A s \in Elems(q) : s.op \in {"rewatch", "rewatchIfUnseen"} =>
           \E r \in Elems(q) : r.op = "pushControl"
  BY <1>3 DEF Do
<1>5. /\ options' \in Options /\ phase' \in {"off", "resync", "listen"} /\ watchSeen' \in BOOLEAN
      /\ unheard' \in BOOLEAN
  BY <1>1 DEF IInv, TypeOK
<1> QED
  BY <1>1, <1>2, <1>3, <1>4, <1>5, StartInd DEF q

LEMMA OptionsInd ==
    ASSUME FeedAssumption, IInv, NEW o \in Options, NEW t \in OptTask, OptionsChange(o, t)
    PROVE  IInv'
<1>1. /\ cpu = None /\ Idle(t) /\ cpu' = t /\ options' = o
      /\ unheard' = FALSE
      /\ todo' = [todo EXCEPT ![t] = EntryUpdated]
      /\ UNCHANGED <<ha, loaded, listening, link, phase, panelWatch, watchSeen, watched, sub, outbox,
                     sent, draining, sendq, failed, told, cat, missed, refused, listing>>
  BY DEF OptionsChange
<1>2. t \in Pusher
  BY DEF Pusher
<1> DEFINE q == EntryUpdated
<1>3. /\ q \in Seq(Step) /\ WellFormed(q)
      /\ Elems(q) = {Do("catalog", <<>>), Do("rewatch", <<>>), Do("pushControl", <<>>)}
  BY OpeningLemma DEF EntryUpdated
<1> HIDE DEF q
<1>4. /\ \A s \in Elems(q) : s.op \in {"rewatch", "rewatchIfUnseen"} =>
           \E r \in Elems(q) : r.op = "pushControl"
      /\ \A s \in Elems(q) : s.op \notin {"watch", "rewatchIfUnseen"}
  BY <1>3 DEF Do
<1>5. /\ options' \in Options /\ phase' \in {"off", "resync", "listen"} /\ watchSeen' \in BOOLEAN
      /\ unheard' \in BOOLEAN
  BY <1>1 DEF IInv, TypeOK
<1> QED
  BY <1>1, <1>2, <1>3, <1>4, <1>5, StartInd DEF q

LEMMA UnheardInd ==
    ASSUME FeedAssumption, IInv, NEW o \in Options, OptionsChangeUnheard(o)
    PROVE  IInv'
<1> USE DEF IInv
<1>1. /\ options' \in Options /\ unheard' \in BOOLEAN
      /\ UNCHANGED <<ha, loaded, listening, link, phase, panelWatch, watchSeen, watched, sub,
                     outbox, sent, draining, todo, cpu, sendq, failed, told, cat, missed,
                     refused, listing>>
  BY DEF OptionsChangeUnheard
<1>2. Tasks'
  BY <1>1, TasksStay DEF Senders
<1>3. TypeOK'
  BY <1>1 DEF TypeOK
<1>4. Queued'
  BY <1>1 DEF Queued, Senders
<1>5. PerLink' /\ OutboxOnce'
  BY <1>1 DEF PerLink, OutboxOnce
<1> QED
  BY <1>2, <1>3, <1>4, <1>5

LEMMA StopsInd ==
    ASSUME FeedAssumption, IInv, StopsListening
    PROVE  IInv'
<1> USE DEF IInv
<1>1. /\ listening' = FALSE
      /\ UNCHANGED <<ha, options, loaded, link, phase, panelWatch, watchSeen, watched, sub,
                     outbox, sent, draining, todo, cpu, sendq, failed, told, cat, missed,
                     refused, listing, unheard>>
  BY DEF StopsListening, ghosts
<1>2. Tasks'
  BY <1>1, TasksStay DEF Senders
<1>3. TypeOK'
  BY <1>1 DEF TypeOK
<1>4. Queued'
  BY <1>1 DEF Queued, Senders
<1>5. PerLink' /\ OutboxOnce'
  BY <1>1 DEF PerLink, OutboxOnce
<1> QED
  BY <1>2, <1>3, <1>4, <1>5

LEMMA ConnectsInd ==
    ASSUME FeedAssumption, IInv, Connects
    PROVE  IInv'
<1> USE DEF IInv
<1>1. /\ cpu = None /\ loaded /\ link = "down" /\ failed = {}
      /\ link' = "up" /\ phase' = "resync" /\ watchSeen' = FALSE
      /\ UNCHANGED <<ha, options, loaded, listening, panelWatch, watched, sub, outbox, sent, draining,
                     todo, cpu, sendq, failed, told, cat, missed, refused, listing, unheard>>
  BY DEF Connects, ghosts
<1>2. Tasks'
  BY <1>1, TasksStay DEF Senders
<1>3. TypeOK'
  BY <1>1 DEF TypeOK
<1> QED
  BY <1>1, <1>2, <1>3 DEF Queued, Senders, PerLink, OutboxOnce

LEMMA FailsInd ==
    ASSUME FeedAssumption, IInv, LinkFails
    PROVE  IInv'
<1> USE DEF IInv
<1>1. /\ cpu = None /\ link = "up" /\ link' = "failed"
      /\ failed' = failed \cup Senders /\ sendq' = <<>>
      /\ told' = [e \in Entity |-> None] /\ missed' = {}
      /\ refused' = {} /\ listing' = None
      /\ UNCHANGED <<ha, options, loaded, listening, phase, panelWatch, watchSeen, watched,
                     sub, outbox, sent, draining, todo, cpu, cat, unheard>>
  BY DEF LinkFails, Forgotten
<1>2. /\ None \notin Task /\ None # "drain" /\ None \notin Senders /\ None \notin failed
      /\ Senders \subseteq Task
  BY NobodyLemma
<1>3. Senders' = {} /\ Len(sendq') = 0 /\ sendq' \in Seq(Msg)
  BY <1>1 DEF Senders
<1>4. Tasks'
  BY <1>1, TasksStay
<1>5. TypeOK'
  BY <1>1, <1>2, <1>3 DEF TypeOK
<1>6. Queued'
  BY <1>1, <1>2, <1>3 DEF Queued
<1> QED
  BY <1>1, <1>4, <1>5, <1>6 DEF PerLink, OutboxOnce

LEMMA EndsInd ==
    ASSUME FeedAssumption, IInv, SessionEnds
    PROVE  IInv'
<1> USE DEF IInv
<1>1. /\ cpu = None /\ link = "failed" /\ link' = "down" /\ phase' = "off"
      /\ sub' = {} /\ watched' = <<>> /\ outbox' = <<>>
      /\ sent' = [e \in Entity |-> None]
      /\ loaded' \in BOOLEAN /\ unheard' = FALSE
      /\ UNCHANGED <<ha, options, listening, panelWatch, watchSeen, draining, todo, cpu,
                     sendq, failed, told, cat, missed, refused, listing>>
  BY DEF SessionEnds, DropWatch, TypeOK
<1>2. Tasks'
  BY <1>1, TasksStay DEF Senders
<1>3. TypeOK'
  <2>1. sub' \subseteq Entity /\ sent' \in [Entity -> Value \cup {None}]
    BY <1>1
  <2>2. watched' \in Seq(Entity) /\ outbox' \in Seq(Entity)
    BY <1>1
  <2> QED
    BY <1>1, <2>1, <2>2 DEF TypeOK
<1>4. Queued'
  BY <1>1 DEF Queued, Senders
<1> QED
  BY <1>1, <1>2, <1>3, <1>4 DEF PerLink, OutboxOnce, Elems

LEMMA UnloadInd ==
    ASSUME FeedAssumption, IInv, Unload
    PROVE  IInv'
<1> USE DEF IInv
<1>1. /\ cpu = None /\ loaded' = FALSE /\ link' = "down" /\ phase' = "off"
      /\ sub' = {} /\ watched' = <<>> /\ outbox' = <<>>
      /\ sent' = [e \in Entity |-> None]
      /\ todo' = [todo EXCEPT !["link"] = <<>>]
      /\ failed' = (failed \cup Senders) \ {"link"} /\ sendq' = <<>>
      /\ told' = [e \in Entity |-> None] /\ missed' = {}
      /\ refused' = {} /\ listing' = None /\ unheard' = FALSE
      /\ UNCHANGED <<ha, options, listening, panelWatch, watchSeen, draining, cpu, cat>>
  BY DEF Unload, DropWatch, Forgotten
<1>2. /\ None \notin Task /\ None # "drain" /\ None \notin Senders /\ None \notin failed
      /\ Senders \subseteq Task /\ "link" # "drain"
  BY NobodyLemma
<1>3. Senders' = {} /\ Len(sendq') = 0 /\ sendq' \in Seq(Msg)
  BY <1>1 DEF Senders
<1>4. /\ todo' \in [Pusher -> Seq(Step)] /\ "link" \in Pusher /\ todo'["link"] = <<>>
      /\ \A r \in Pusher : r # "link" => todo'[r] = todo[r]
  BY <1>1 DEF TypeOK, Pusher
<1>5. Tasks'
  <2>1. WellFormed(<<>>) /\ Elems(<<>>) = {}
    BY DEF WellFormed, Elems
  <2>2. ASSUME NEW r \in Pusher
        PROVE  /\ WellFormed(todo'[r])
               /\ todo'[r] # <<>> => cpu' = r \/ r \in failed' \/ r \in Senders'
               /\ cpu' # r => \A s \in Elems(todo'[r]) : ~Opens(s)
               /\ \A s \in Elems(todo'[r]) :
                    s.op \in {"watch", "rewatchIfUnseen"} => r = "link"
               /\ \A s \in Elems(todo'[r]) : s.op \in {"rewatch", "rewatchIfUnseen"} =>
                    \E p \in Elems(todo'[r]) : p.op = "pushControl"
    <3>1. CASE r = "link"
      BY <1>4, <2>1, <3>1
    <3>2. CASE r # "link"
      BY <1>1, <1>4, <3>2 DEF Tasks, Steps
    <3> QED
      BY <3>1, <3>2
  <2> QED
    BY <2>2 DEF Tasks, Steps
<1>6. TypeOK'
  <2>1. failed' \subseteq Task /\ missed' \subseteq Entity /\ sub' \subseteq Entity
    BY <1>1, <1>2 DEF TypeOK
  <2>2. /\ sent' \in [Entity -> Value \cup {None}]
        /\ told' \in [Entity -> Value \cup {None}]
    BY <1>1
  <2>3. watched' \in Seq(Entity) /\ outbox' \in Seq(Entity)
    BY <1>1
  <2> QED
    BY <1>1, <1>3, <1>4, <2>1, <2>2, <2>3 DEF TypeOK
<1>7. Queued'
  BY <1>1, <1>2, <1>3 DEF Queued
<1> QED
  BY <1>1, <1>5, <1>6, <1>7 DEF PerLink, OutboxOnce, Elems

LEMMA InitInd == FeedAssumption /\ Init => IInv
<1> SUFFICES ASSUME FeedAssumption, Init PROVE IInv
  OBVIOUS
<1>1. todo \in [Pusher -> Seq(Step)] /\ \A t \in Pusher : todo[t] = <<>>
  BY DEF Init
<1>2. WellFormed(<<>>) /\ Elems(<<>>) = {}
  BY DEF WellFormed, Elems
<1>3. Tasks
  BY <1>1, <1>2 DEF Tasks, Steps
<1>4. sendq \in Seq(Msg) /\ Len(sendq) = 0 /\ Senders = {}
  BY DEF Init, Senders
<1>5. TypeOK
  <2>1. /\ ha \in [Entity -> Value] /\ options \in Options /\ loaded \in BOOLEAN
        /\ listening \in BOOLEAN /\ unheard \in BOOLEAN
        /\ listing \in Pusher \cup {None, "cut"}
        /\ link \in {"up", "failed", "down"} /\ phase \in {"off", "resync", "listen"}
        /\ watchSeen \in BOOLEAN /\ draining \in BOOLEAN /\ cpu \in Task \cup {None}
    BY DEF Init
  <2>2. /\ sub \subseteq Entity /\ failed \subseteq Task /\ cat \subseteq Entity
        /\ missed \subseteq Entity /\ refused \subseteq Entity
    BY DEF Init
  <2>3. panelWatch \in Seq(Entity) /\ watched \in Seq(Entity) /\ outbox \in Seq(Entity)
    BY DEF Init
  <2>4. /\ sent \in [Entity -> Value \cup {None}]
        /\ told \in [Entity -> Value \cup {None}]
    BY DEF Init
  <2> QED
    BY <1>1, <1>4, <2>1, <2>2, <2>3, <2>4 DEF TypeOK
<1>6. Queued
  BY <1>4 DEF Init, Queued, FeedAssumption
<1>7. PerLink /\ OutboxOnce
  BY <1>2 DEF Init, PerLink, OutboxOnce
<1> QED
  BY <1>3, <1>5, <1>6, <1>7 DEF IInv

\* There is a client only while the coordinator lives, and nothing to send and
\* nothing followed before its first one.
LEMMA StepUnmade == FeedAssumption /\ IInv /\ Unmade /\ [Next]_vars => Unmade'
<1> SUFFICES ASSUME FeedAssumption, IInv, Unmade, [Next]_vars PROVE Unmade'
  OBVIOUS
<1> DEFINE before == loaded /\ ~listening /\ link = "down"
<1>1. ASSUME UNCHANGED <<loaded, listening, link>>, ~before PROVE Unmade'
  BY <1>1 DEF Unmade
<1>2. CASE \/ DrainTurn \/ DrainTooLong \/ UNCHANGED vars
           \/ \E e \in Entity, v \in Value : StateChanges(e, v)
           \/ \E o \in Options : OptionsChangeUnheard(o)
  <2>1. UNCHANGED <<loaded, listening, link, sub, failed, todo>>
    BY <1>2 DEF DrainTurn, DrainTooLong, vars, StateChanges, OptionsChangeUnheard
  <2> QED
    BY <2>1 DEF Unmade
<1>3. CASE \E t \in Pusher : \/ WatchStep(t) \/ PlanStep(t) \/ SendStep(t)
                             \/ SendTooLong(t)
  <2>1. PICK t \in Pusher : WatchStep(t) \/ PlanStep(t) \/ SendStep(t) \/ SendTooLong(t)
    BY <1>3
  <2>2. UNCHANGED <<loaded, listening, link>> /\ todo[t] # <<>>
    BY <2>1, Zenon DEF WatchStep, PlanStep, SendStep, SendTooLong, Runs, stillVars
  <2>3. ~before
    BY <2>2 DEF Unmade
  <2> QED
    BY <1>1, <2>2, <2>3
<1>4. CASE \E t \in Pusher : Returns(t)
  <2>1. /\ UNCHANGED <<loaded, link, sub, failed, todo>>
        /\ listening => listening'
    BY <1>4 DEF Returns, stillVars, feedVars
  <2> QED
    BY <2>1 DEF Unmade
<1>5. CASE SendDone \/ SnapshotArrives \/ \E ids \in WatchLists : WatchArrives(ids)
  <2>1. UNCHANGED <<loaded, listening, link>> /\ link = "up"
    BY <1>5 DEF SendDone, SnapshotArrives, WatchArrives, LinkReads
  <2> QED
    BY <1>1, <2>1
<1>6. CASE \E o \in Options, t \in OptTask : OptionsChange(o, t)
  <2>1. UNCHANGED <<loaded, listening, link>> /\ listening
    BY <1>6 DEF OptionsChange
  <2> QED
    BY <1>1, <2>1
<1>7. CASE \E t \in Task : SendRaised(t)
  <2>1. UNCHANGED <<loaded, listening, link>> /\ failed # {}
    BY <1>7 DEF SendRaised
  <2> QED
    BY <1>1, <2>1 DEF Unmade
<1>8. CASE Connects \/ LinkFails
  <2>1. loaded' /\ link' # "down"
    BY <1>8 DEF Connects, LinkFails, Unmade
  <2> QED
    BY <2>1 DEF Unmade
<1>9. CASE SessionEnds \/ Unload \/ StopsListening
  <2>1. loaded' => listening'
    BY <1>9 DEF SessionEnds, Unload, StopsListening, IInv, TypeOK
  <2>2. link' # "down" => loaded'
    BY <1>9 DEF SessionEnds, Unload, StopsListening, Unmade
  <2> QED
    BY <2>1, <2>2 DEF Unmade
<1> QED
  BY <1>2, <1>3, <1>4, <1>5, <1>6, <1>7, <1>8, <1>9 DEF Next

LEMMA StepInd == FeedAssumption /\ IInv /\ [Next]_vars => IInv'
<1> SUFFICES ASSUME FeedAssumption, IInv, [Next]_vars PROVE IInv'
  OBVIOUS
<1>1. CASE UNCHANGED vars
  BY <1>1 DEF vars, ghosts, IInv, TypeOK, Tasks, Steps, Queued, Senders, PerLink, OutboxOnce
<1>2. CASE Next
  BY <1>2, DoneInd, DrainInd, RaisedInd, WatchInd, PlanInd, SendInd, ReturnsInd, ChangeInd,
     ConnectsInd, SnapshotInd, FailsInd, EndsInd, UnloadInd, WatchArrivesInd, OptionsInd,
     DrainTooLongInd, TooLongInd, StopsInd, UnheardInd
  DEF Next
<1> QED
  BY <1>1, <1>2

THEOREM Invariance == Spec => []IInv
<1>1. Init => IInv
  BY FeedAssumption, InitInd
<1>2. IInv /\ [Next]_vars => IInv'
  BY FeedAssumption, StepInd
<1> QED
  BY <1>1, <1>2, PTL DEF Spec

\* The state of the feed is what its comments say it is.
THEOREM TypeCorrect == Spec => []TypeOK
<1>1. IInv => TypeOK
  BY DEF IInv
<1> QED
  BY <1>1, Invariance, PTL

\* A burst waits as one entry per entity, of followed entities only, and while
\* anything is owed the drain job runs, waits for a send or is about to learn
\* that its send raised (_async_state_changed, _async_drain).
THEOREM OutboxDrained == Spec => []OutboxIsDrained
<1>1. IInv => OutboxIsDrained
  <2> SUFFICES ASSUME IInv PROVE OutboxIsDrained
    OBVIOUS
  <2>1. outbox \in Seq(Entity) /\ DOMAIN outbox = 1..Len(outbox)
    BY DEF IInv, TypeOK
  <2>2. draining => ~Idle("drain")
    BY DEF IInv, Queued, Idle, Senders
  <2> QED
    BY <2>1, <2>2 DEF IInv, OutboxOnce, OutboxIsDrained
<1> QED
  BY <1>1, Invariance, PTL

------------------------------------------------------------------------------
(* What is remembered is what the panel was told                           *)

LEMMA HearsLemma ==
    ASSUME FeedAssumption, TypeOK, NEW m \in Msg, Hears(m)
    PROVE  /\ \A e \in Entity :
                told'[e] = IF m.op = "state" /\ m.list[1] = e THEN m.value ELSE told[e]
           /\ cat' = IF m.op = "state" THEN cat
                     ELSE IF m.first THEN Elems(m.list) ELSE cat \cup Elems(m.list)
  BY DEF Hears, TypeOK, Msg

\* A message that joins the queue is heard at once if it is the first in it.
LEMMA SendRemembers ==
    ASSUME FeedAssumption, IInv, Remembers, NEW m \in Msg, Send(m), UNCHANGED <<link, sent>>
    PROVE  Remembers'
<1>1. /\ sendq' = Append(sendq, m) /\ sendq \in Seq(Msg)
      /\ IF sendq = <<>> THEN Hears(m) ELSE UNCHANGED <<told, cat>>
  BY DEF Send, IInv, TypeOK
<1>2. sendq' # <<>> /\ Head(sendq') = IF sendq = <<>> THEN m ELSE Head(sendq)
  BY <1>1
<1>3. CASE sendq = <<>>
  <2>1. \A e \in Entity :
          told'[e] = IF m.op = "state" /\ m.list[1] = e THEN m.value ELSE told[e]
    BY <1>1, <1>3, HearsLemma DEF IInv
  <2> QED
    BY <1>2, <1>3, <2>1 DEF Remembers, Writing
<1>4. CASE sendq # <<>>
  BY <1>1, <1>2, <1>4 DEF Remembers, Writing
<1> QED
  BY <1>3, <1>4

\* The head is remembered when it has drained, and the next one is heard.
LEMMA DoneRemembers ==
    ASSUME FeedAssumption, IInv, Remembers, SendDone
    PROVE  Remembers'
<1> DEFINE m == Head(sendq)
<1>1. /\ link = "up" /\ link' = link /\ sendq # <<>> /\ m \in Msg /\ m = sendq[1]
      /\ sendq' \in Seq(Msg) /\ sent' = Remembered(m)
      /\ IF sendq' # <<>> THEN Hears(Head(sendq')) ELSE UNCHANGED <<told, cat>>
  BY DoneEffect
<1>2. sent \in [Entity -> Value \cup {None}]
  BY DEF IInv, TypeOK
<1>3. ASSUME NEW e \in Entity PROVE sent'[e] # None => told[e] = sent'[e]
  <2>1. CASE m.op = "state" /\ m.list[1] = e
    BY <1>1, <1>2, <2>1 DEF Remembers, Writing, Remembered
  <2>2. CASE ~(m.op = "state" /\ m.list[1] = e)
    BY <1>1, <1>2, <2>2 DEF Remembers, Writing, Remembered
  <2> QED
    BY <2>1, <2>2
<1>4. CASE sendq' = <<>>
  BY <1>1, <1>3, <1>4 DEF Remembers, Writing
<1>5. CASE sendq' # <<>>
  <2> DEFINE h == Head(sendq')
  <2>1. h \in Msg /\ Hears(h)
    BY <1>1, <1>5
  <2>2. \A e \in Entity :
          told'[e] = IF h.op = "state" /\ h.list[1] = e THEN h.value ELSE told[e]
    BY <2>1, HearsLemma DEF IInv
  <2> QED
    BY <1>3, <1>5, <2>2 DEF Remembers, Writing
<1> QED
  BY <1>4, <1>5

\* Steps that say nothing and at most forget.
LEMMA QuietRemembers ==
    ASSUME Remembers, UNCHANGED <<link, sendq, told>>,
           \A e \in Entity : sent'[e] \in {sent[e], None}
    PROVE  Remembers'
  BY DEF Remembers, Writing

LEMMA StepRemembers ==
    FeedAssumption /\ IInv /\ Remembers /\ [Next]_vars => Remembers'
<1> SUFFICES ASSUME FeedAssumption, IInv, Remembers, [Next]_vars PROVE Remembers'
  OBVIOUS
<1>1. CASE SendDone
  BY <1>1, DoneRemembers
<1>2. CASE DrainTurn
  <2>1. UNCHANGED <<link, sent>>
    BY <1>2, DrainEffect
  <2>2. UNCHANGED <<sendq, told>> \/ \E m \in Msg : Send(m)
    BY <1>2, DrainEffect
  <2> QED
    BY <2>1, <2>2, SendRemembers, QuietRemembers
<1>3. CASE \E t \in Pusher : SendStep(t)
  <2>1. PICK t \in Pusher : SendStep(t)
    BY <1>3
  <2>2. UNCHANGED <<link, sent>>
    BY <2>1, SendEffect DEF stillVars, feedVars
  <2>3. UNCHANGED <<sendq, told>> \/ \E m \in Msg : Send(m)
    BY <2>1, SendEffect
  <2> QED
    BY <2>2, <2>3, SendRemembers, QuietRemembers
<1>4. CASE \E t \in Pusher : WatchStep(t)
  <2>1. PICK t \in Pusher : WatchStep(t)
    BY <1>4
  <2>2. UNCHANGED <<link, sendq, told>>
    BY <2>1, WatchEffect DEF stillVars
  <2>3. \/ sent' = sent
        \/ sent' = [e \in Entity |-> IF e \in sub' THEN sent[e] ELSE None]
    BY <2>1, WatchEffect DEF feedVars
  <2> QED
    BY <2>2, <2>3, QuietRemembers
<1>5. CASE Connects
  <2>1. link = "down" /\ UNCHANGED <<sendq, told, sent>>
    BY <1>5 DEF Connects
  <2>2. sendq = <<>> /\ \A e \in Entity : sent[e] = None
    BY <2>1 DEF IInv, PerLink
  <2> QED
    BY <2>1, <2>2 DEF Remembers, Writing
<1>6. CASE LinkFails \/ SessionEnds \/ Unload
  <2>1. link' # "up"
    BY <1>6 DEF LinkFails, SessionEnds, Unload
  <2> QED
    BY <2>1 DEF Remembers
<1>7. CASE \/ \E t \in Task : SendRaised(t)
           \/ \E t \in Pusher : PlanStep(t) \/ SendTooLong(t) \/ Returns(t)
           \/ DrainTooLong \/ StopsListening \/ \E o \in Options : OptionsChangeUnheard(o)
           \/ \E e \in Entity, v \in Value : StateChanges(e, v)
           \/ SnapshotArrives \/ \E ids \in WatchLists : WatchArrives(ids)
           \/ \E o \in Options, t \in OptTask : OptionsChange(o, t)
           \/ UNCHANGED vars
  <2>1. UNCHANGED <<link, sendq, told, sent>>
    BY <1>7 DEF SendRaised, PlanStep, SendTooLong, DrainTooLong, StopsListening,
                OptionsChangeUnheard, Returns, StateChanges, SnapshotArrives, WatchArrives,
                OptionsChange, vars, stillVars, feedVars
  <2> QED
    BY <2>1, QuietRemembers
<1> QED
  BY <1>1, <1>2, <1>3, <1>4, <1>5, <1>6, <1>7 DEF Next

\* _sent holds, of an entity none of whose messages is on its way, what the
\* panel was last given: a message that repeats it may be left out
\* (_async_drain, _async_send_state).
THEOREM SentTold == Spec => []SentIsTold
<1>1. Init => IInv /\ Remembers
  BY FeedAssumption, InitInd DEF Init, Remembers
<1>2. (IInv /\ Remembers) /\ [Next]_vars => (IInv /\ Remembers)'
  BY FeedAssumption, StepInd, StepRemembers
<1>3. IInv /\ Remembers => SentIsTold
  <2> SUFFICES ASSUME IInv, Remembers, link = "up", NEW e \in Entity, sent[e] # None,
                      ~Waiting(e)
               PROVE  told[e] = sent[e]
    BY DEF SentIsTold
  <2>1. ~Writing(e)
    <3>1. sendq # <<>> => 1 \in DOMAIN sendq /\ Head(sendq) = sendq[1]
      BY DEF IInv, TypeOK
    <3> QED
      BY <3>1 DEF Waiting, Writing
  <2> QED
    BY <2>1 DEF Remembers
<1> QED
  BY <1>1, <1>2, <1>3, PTL DEF Spec

------------------------------------------------------------------------------
(* What is filtered follows the options                                    *)

Rewatchers == {"watch", "rewatch", "rewatchIfUnseen"}

\* No coroutine gains or loses a step of these kinds.
Kept(ops) ==
    \A t \in Pusher : /\ \A s \in Elems(todo[t]) : s.op \in ops => s \in Elems(todo'[t])
                      /\ \A s \in Elems(todo'[t]) : s.op \in ops => s \in Elems(todo[t])

LEMMA SameRewatching ==
    ASSUME Kept(Rewatchers), watchSeen' = watchSeen
    PROVE  Rewatching' <=> Rewatching
<1>1. Rewatching => Rewatching'
  BY DEF Kept, Rewatchers, Rewatching, Steps
<1>2. Rewatching' => Rewatching
  BY DEF Kept, Rewatchers, Rewatching, Steps
<1> QED
  BY <1>1, <1>2

LEMMA SendKept ==
    ASSUME FeedAssumption, IInv, NEW t \in Pusher, SendStep(t)
    PROVE  Kept({"catalog", "watch", "rewatch", "rewatchIfUnseen", "push", "pushControl"})
<1>1. /\ Head(todo[t]).op \in {"state", "page"}
      /\ \A r \in Pusher : r # t => todo'[r] = todo[r]
      /\ Elems(todo[t]) = {Head(todo[t])} \cup Elems(Rest(t))
  BY SendEffect
<1>2. \/ Elems(todo'[t]) = Elems(Rest(t))
      \/ /\ Elems(todo'[t]) \subseteq Elems(todo[t])
         /\ \A s \in Elems(todo[t]) :
              s.op \notin {"state", "page"} => s \in Elems(todo'[t])
  BY SendEffect
<1> QED
  BY <1>1, <1>2 DEF Kept

LEMMA TooLongKept ==
    ASSUME FeedAssumption, IInv, NEW t \in Pusher, SendTooLong(t)
    PROVE  Kept({"catalog", "watch", "rewatch", "rewatchIfUnseen", "push", "pushControl"})
<1>1. /\ Head(todo[t]).op \in {"state", "page"}
      /\ \A r \in Pusher : r # t => todo'[r] = todo[r]
      /\ Elems(todo[t]) = {Head(todo[t])} \cup Elems(Rest(t))
      /\ Elems(todo'[t]) \subseteq Elems(Rest(t))
      /\ \A s \in Elems(Rest(t)) : s.op # "page" => s \in Elems(todo'[t])
  BY TooLongEffect
<1> QED
  BY <1>1 DEF Kept

LEMMA RaisedKept ==
    ASSUME FeedAssumption, IInv, NEW t \in Task, SendRaised(t)
    PROVE  Kept({"catalog", "watch", "rewatch", "rewatchIfUnseen", "push", "pushControl",
                 "state"})
<1>1. /\ todo' = IF t = "drain" THEN todo ELSE [todo EXCEPT ![t] = AfterRaise(@)]
      /\ todo \in [Pusher -> Seq(Step)]
  BY DEF SendRaised, IInv, TypeOK
<1>2. CASE t = "drain"
  BY <1>1, <1>2 DEF Kept
<1>3. CASE t # "drain"
  <2>1. t \in Pusher /\ todo[t] \in Seq(Step) /\ WellFormed(todo[t])
    BY <1>1, <1>3 DEF Task, IInv, Tasks
  <2>2. Elems(AfterRaise(todo[t])) = {x \in Elems(todo[t]) : x.op # "page"}
    BY <2>1, RaiseLemma
  <2>3. /\ todo'[t] = AfterRaise(todo[t])
        /\ \A r \in Pusher : r # t => todo'[r] = todo[r]
    BY <1>1, <1>3, <2>1
  <2> QED
    BY <2>2, <2>3 DEF Kept
<1> QED
  BY <1>2, <1>3

\* A plan takes its own step and adds what is to be sent.
LEMMA PlanKept ==
    ASSUME FeedAssumption, IInv, NEW t \in Pusher, PlanStep(t)
    PROVE  /\ Kept({"watch", "rewatch", "rewatchIfUnseen"})
           /\ Head(todo[t]).op # "catalog" => Kept({"catalog", "page"})
           /\ Head(todo[t]).op # "pushControl" => Kept({"pushControl"})
           /\ \A s \in Elems(todo[t]) : s = Head(todo[t]) \/ s \in Elems(todo'[t])
<1>1. /\ \A r \in Pusher : r # t => todo'[r] = todo[r]
      /\ Elems(todo[t]) = {Head(todo[t])} \cup Elems(Rest(t))
      /\ \A l : Do("push", l).op = "push" /\ Do("state", l).op = "state"
  BY PlanEffect DEF Do
<1>2. CASE /\ Head(todo[t]).op = "catalog"
           /\ \E new \in SUBSET Step : /\ Elems(todo'[t]) = new \cup Elems(Rest(t))
                                       /\ \A s \in new : s.op = "page"
  BY <1>1, <1>2 DEF Kept
<1>3. CASE /\ Head(todo[t]).op = "pushControl"
           /\ \E l \in Seq(Entity) : Elems(todo'[t]) = {Do("push", l)} \cup Elems(Rest(t))
  BY <1>1, <1>3 DEF Kept
<1>4. CASE /\ Head(todo[t]).op = "push"
           /\ Elems(todo'[t]) = {Do("state", <<e>>) : e \in Elems(Head(todo[t]).list)}
                                   \cup Elems(Rest(t))
  <2> DEFINE new == {Do("state", <<e>>) : e \in Elems(Head(todo[t]).list)}
  <2>1. \A s \in new : s.op = "state"
    BY <1>1
  <2>2. Elems(todo'[t]) = new \cup Elems(Rest(t))
    BY <1>4
  <2> HIDE DEF new
  <2> QED
    BY <1>1, <1>4, <2>1, <2>2 DEF Kept
<1>5. \/ /\ Head(todo[t]).op = "catalog"
         /\ \E new \in SUBSET Step : /\ Elems(todo'[t]) = new \cup Elems(Rest(t))
                                     /\ \A s \in new : s.op = "page"
      \/ /\ Head(todo[t]).op = "pushControl"
         /\ \E l \in Seq(Entity) : Elems(todo'[t]) = {Do("push", l)} \cup Elems(Rest(t))
      \/ /\ Head(todo[t]).op = "push"
         /\ Elems(todo'[t]) = {Do("state", <<e>>) : e \in Elems(Head(todo[t]).list)}
                                 \cup Elems(Rest(t))
  BY PlanEffect
<1> QED
  BY <1>2, <1>3, <1>4, <1>5

LEMMA WatchKept ==
    ASSUME FeedAssumption, IInv, NEW t \in Pusher, WatchStep(t)
    PROVE  /\ Kept({"catalog", "page", "state", "pushControl"})
           /\ \A s \in Elems(todo[t]) : s.op = "push" => s \in Elems(todo'[t])
<1>1. /\ \A r \in Pusher : r # t => todo'[r] = todo[r]
      /\ Elems(todo[t]) = {Head(todo[t])} \cup Elems(Rest(t))
      /\ Head(todo[t]).op \in {"watch", "rewatch", "rewatchIfUnseen"}
      /\ Do("push", watched').op = "push"
  BY WatchEffect DEF Do
<1>2. \/ Elems(todo'[t]) = Elems(Rest(t))
      \/ Elems(todo'[t]) = {Do("push", watched')} \cup Elems(Rest(t))
  BY WatchEffect
<1> QED
  BY <1>1, <1>2 DEF Kept

\* A watch list that is passed over leaves everything that is to be filtered.
LEMMA SkipKept ==
    ASSUME FeedAssumption, IInv, NEW t \in Pusher, WatchStep(t), watchSeen,
           Head(todo[t]).op = "rewatchIfUnseen", Elems(todo'[t]) = Elems(Rest(t))
    PROVE  Rewatching' <=> Rewatching
<1>1. /\ \A r \in Pusher : r # t => todo'[r] = todo[r]
      /\ Elems(todo[t]) = {Head(todo[t])} \cup Elems(Rest(t))
      /\ watchSeen' = watchSeen
  BY WatchEffect DEF stillVars
<1>2. Rewatching => Rewatching'
  BY <1>1 DEF Rewatching, Steps
<1>3. Rewatching' => Rewatching
  BY <1>1 DEF Rewatching, Steps
<1> QED
  BY <1>2, <1>3

\* What a task starts with that had nothing to do.
LEMMA StartSteps ==
    ASSUME FeedAssumption, IInv, NEW t \in Pusher, Idle(t), NEW q, todo' = [todo EXCEPT ![t] = q]
    PROVE  /\ Steps(t) = {} /\ todo'[t] = q
           /\ \A r \in Pusher : r # t => todo'[r] = todo[r]
<1>1. t # "drain" => todo[t] = <<>>
  BY DEF Idle
<1>2. todo'[t] = q /\ \A r \in Pusher : r # t => todo'[r] = todo[r]
  BY DEF IInv, TypeOK
<1>3. t # "drain" => Steps(t) = {}
  BY <1>1 DEF Steps, Elems
<1>4. t # "drain"
  BY NobodyLemma DEF IInv
<1> QED
  BY <1>2, <1>3, <1>4

LEMMA WatchFilters ==
    ASSUME FeedAssumption, IInv, Filters, NEW t \in Pusher, WatchStep(t)
    PROVE  Filters'
<1>1. UNCHANGED <<ha, options, loaded, link, phase, watchSeen, unheard>>
  BY WatchEffect DEF stillVars
<1>2. CASE /\ Head(todo[t]).op = "rewatchIfUnseen" /\ (watchSeen \/ panelWatch = <<>>)
           /\ UNCHANGED feedVars
           /\ Elems(todo'[t]) = Elems(Rest(t))
  <2>1. CASE watchSeen
    <3>1. Rewatching' <=> Rewatching
      BY <1>2, <2>1, SkipKept
    <3> QED
      BY <1>1, <1>2, <3>1 DEF Filters, feedVars, Allowed, Controllable
  <2>2. CASE panelWatch = <<>>
    <3>1. Elems(panelWatch) = {}
      BY <2>2 DEF Elems
    <3>2. Elems(watched') = {} /\ panelWatch' = <<>> /\ panelWatch' = panelWatch
      BY <1>2, <2>2, <3>1 DEF Filters, feedVars
    <3> QED
      BY <3>2 DEF Filters
  <2> QED
    BY <1>2, <2>1, <2>2
<1>3. CASE /\ Elems(watched') = Elems(panelWatch') \cap Elems(Allowed)
           /\ sub' = Elems(watched') \cup Elems(Controllable)
  <2>1. Allowed' = Allowed /\ Controllable' = Controllable
    BY <1>1 DEF Allowed, Controllable
  <2> QED
    BY <1>3, <2>1 DEF Filters
<1> QED
  BY <1>2, <1>3, WatchEffect

\* The steps that neither filter nor change what is filtered.
LEMMA QuietFilters ==
    ASSUME Filters, Kept(Rewatchers),
           UNCHANGED <<options, link, phase, panelWatch, watchSeen, watched, sub, unheard>>
    PROVE  Filters'
<1>1. Rewatching' <=> Rewatching
  BY SameRewatching
<1>2. Allowed' = Allowed /\ Controllable' = Controllable
  BY DEF Allowed, Controllable
<1> QED
  BY <1>1, <1>2 DEF Filters

\* A watch list is to be filtered.
LEMMA RewatchingFilters ==
    ASSUME Filters, Rewatching', UNCHANGED <<panelWatch, watched>>
    PROVE  Filters'
  BY DEF Filters

LEMMA StepFilters ==
    FeedAssumption /\ IInv /\ Filters /\ [Next]_vars => Filters'
<1> SUFFICES ASSUME FeedAssumption, IInv, Filters, [Next]_vars PROVE Filters'
  OBVIOUS
<1>0. ASSUME UNCHANGED todo PROVE Kept(Rewatchers)
  BY <1>0 DEF Kept
<1>1. CASE \E t \in Pusher : WatchStep(t)
  BY <1>1, WatchFilters
<1>2. CASE \/ \E t \in Pusher : PlanStep(t) \/ SendStep(t) \/ SendTooLong(t) \/ Returns(t)
           \/ \E t \in Task : SendRaised(t)
           \/ SendDone \/ DrainTurn \/ DrainTooLong \/ StopsListening
           \/ \E e \in Entity, v \in Value : StateChanges(e, v)
           \/ UNCHANGED vars
  <2>1. UNCHANGED <<options, link, phase, panelWatch, watchSeen, watched, sub, unheard>>
    BY <1>2 DEF PlanStep, SendStep, SendTooLong, Returns, SendRaised, SendDone, DrainTurn,
                DrainTooLong, StopsListening, StateChanges, vars, stillVars, feedVars, ghosts
  <2>2. CASE \E t \in Pusher : SendStep(t)
    BY <2>1, <2>2, SendKept, QuietFilters DEF Kept, Rewatchers
  <2>3. CASE \E t \in Pusher : PlanStep(t)
    BY <2>1, <2>3, PlanKept, QuietFilters DEF Rewatchers
  <2>4. CASE \E t \in Task : SendRaised(t)
    BY <2>1, <2>4, RaisedKept, QuietFilters DEF Kept, Rewatchers
  <2>5. CASE \/ \E t \in Pusher : Returns(t)
             \/ SendDone \/ DrainTurn \/ DrainTooLong \/ StopsListening
             \/ \E e \in Entity, v \in Value : StateChanges(e, v)
             \/ UNCHANGED vars
    <3>1. UNCHANGED todo
      BY <2>5 DEF Returns, SendDone, DrainTurn, DrainTooLong, StopsListening, StateChanges,
                  vars
    <3> QED
      BY <1>0, <2>1, <3>1, QuietFilters
  <2>6. CASE \E t \in Pusher : SendTooLong(t)
    BY <2>1, <2>6, TooLongKept, QuietFilters DEF Kept, Rewatchers
  <2> QED
    BY <1>2, <2>2, <2>3, <2>4, <2>5, <2>6
<1>3. CASE Connects
  <2>1. /\ phase' = "resync" /\ watchSeen' = FALSE
        /\ UNCHANGED <<options, todo, panelWatch, watched, sub>>
    BY <1>3 DEF Connects
  <2> QED
    BY <2>1 DEF Filters
<1>4. CASE SnapshotArrives
  <2>1. /\ Idle("link") /\ todo' = [todo EXCEPT !["link"] = AfterConnect] /\ "link" \in Pusher
        /\ link = "up"
        /\ UNCHANGED <<options, link, panelWatch, watched, sub, watchSeen, unheard>>
    BY <1>4 DEF SnapshotArrives, LinkReads, Pusher, ghosts
  <2>2. /\ Steps("link") = {} /\ todo'["link"] = AfterConnect
        /\ \A r \in Pusher : r # "link" => todo'[r] = todo[r]
    BY <2>1, StartSteps
  <2>3. Rewatching => Rewatching'
    BY <2>1, <2>2 DEF Rewatching, Steps
  <2>4. ~watchSeen => Rewatching'
    <3>1. /\ Do("rewatchIfUnseen", <<>>) \in Elems(todo'["link"])
          /\ Do("rewatchIfUnseen", <<>>).op = "rewatchIfUnseen"
      BY <2>2, OpeningLemma DEF AfterConnect, Do
    <3> QED
      BY <2>1, <3>1 DEF Rewatching, Steps
  <2>5. Allowed' = Allowed /\ Controllable' = Controllable
    BY <2>1 DEF Allowed, Controllable
  <2> QED
    BY <2>1, <2>3, <2>4, <2>5 DEF Filters
<1>5. CASE \E ids \in WatchLists : WatchArrives(ids)
  <2>1. PICK ids \in WatchLists : WatchArrives(ids)
    BY <1>5
  <2>2. /\ Idle("link") /\ "link" \in Pusher
        /\ todo' = [todo EXCEPT !["link"] = <<Do("watch", ids)>>]
        /\ UNCHANGED <<panelWatch, watched>>
    BY <2>1 DEF WatchArrives, LinkReads, Pusher
  <2>3. todo'["link"] = <<Do("watch", ids)>>
    BY <2>2, StartSteps
  <2>4. Do("watch", ids) \in Elems(todo'["link"]) /\ Do("watch", ids).op = "watch"
    <3>1. ids \in Seq(Entity)
      BY DEF FeedAssumption
    <3>2. /\ Elems(<<Do("watch", ids)>>) = {Do("watch", ids)}
          /\ Do("watch", ids).op = "watch"
      BY <3>1, DoLemma
    <3> QED
      BY <2>3, <3>2, Zenon
  <2>5. Rewatching'
    BY <2>2, <2>4 DEF Rewatching, Steps
  <2> QED
    BY <2>2, <2>5, RewatchingFilters
<1>6. CASE \E o \in Options, t \in OptTask : OptionsChange(o, t)
  <2>1. PICK o \in Options, t \in OptTask : OptionsChange(o, t)
    BY <1>6
  <2>2. /\ Idle(t) /\ t \in Pusher /\ todo' = [todo EXCEPT ![t] = EntryUpdated]
        /\ UNCHANGED <<panelWatch, watched>>
    BY <2>1 DEF OptionsChange, Pusher
  <2>3. todo'[t] = EntryUpdated
    BY <2>2, StartSteps
  <2>4. Do("rewatch", <<>>) \in Elems(todo'[t]) /\ Do("rewatch", <<>>).op = "rewatch"
    BY <2>3, OpeningLemma DEF EntryUpdated, Do
  <2>5. Rewatching'
    BY <2>2, <2>4 DEF Rewatching, Steps
  <2> QED
    BY <2>2, <2>5, RewatchingFilters
<1>7. CASE LinkFails \/ \E o \in Options : OptionsChangeUnheard(o)
  <2>1. UNCHANGED <<panelWatch, watched>> /\ (link' = "up" => unheard')
    BY <1>7 DEF LinkFails, OptionsChangeUnheard
  <2> QED
    BY <2>1 DEF Filters
<1>8. CASE SessionEnds \/ Unload
  <2>1. link' # "up" /\ Elems(watched') = {}
    BY <1>8 DEF SessionEnds, Unload, DropWatch, Elems
  <2> QED
    BY <2>1 DEF Filters
<1> QED
  BY <1>1, <1>2, <1>3, <1>4, <1>5, <1>6, <1>7, <1>8 DEF Next

LEMMA InitFilters == Init => Filters
<1> SUFFICES ASSUME Init PROVE Filters
  OBVIOUS
<1>1. Elems(watched) = {} /\ link = "down"
  BY DEF Init, Elems
<1> QED
  BY <1>1 DEF Filters

\* Nothing under way is nothing to be filtered and nothing to be sent.
LEMMA SettledLemma ==
    ASSUME FeedAssumption, IInv, Settled
    PROVE  /\ link = "up" /\ phase = "listen" /\ sendq = <<>>
           /\ \A t \in Pusher : Steps(t) = {}
           /\ ~Rewatching /\ ~ControlPending /\ ~CatalogPending
<1>1. \A t \in Pusher : t \in Task /\ t # "drain"
  BY NobodyLemma DEF IInv, Task
<1>2. \A t \in Pusher : Steps(t) = {}
  BY <1>1 DEF Settled, Idle, Steps, Elems
<1> QED
  BY <1>2 DEF Settled, Rewatching, ControlPending, CatalogPending

\* With nothing under way, and unless the options changed while nothing listened,
\* the watch list is filtered by today's options and the subscription is the
\* watched and the controllable entities, however many options changes and
\* watch lists crossed (_async_watch, _async_entry_updated).
THEOREM FollowsToday == Spec => []FollowsOptions
<1>1. Init => IInv /\ Filters
  BY FeedAssumption, InitInd, InitFilters
<1>2. (IInv /\ Filters) /\ [Next]_vars => (IInv /\ Filters)'
  BY FeedAssumption, StepInd, StepFilters
<1>3. IInv /\ Filters => FollowsOptions
  <2> SUFFICES ASSUME IInv, Filters, Settled
               PROVE  /\ Elems(watched) \subseteq Elems(panelWatch)
                      /\ ~unheard => /\ Elems(watched) \subseteq Elems(Allowed)
                                     /\ panelWatch # <<>> =>
                                          sub = Elems(Subscribed(watched))
    BY DEF FollowsOptions
  <2>1. Elems(Subscribed(watched)) = Elems(watched) \cup Elems(Controllable)
    BY FeedAssumption, SubscribedLemma DEF IInv, TypeOK
  <2>2. link = "up" /\ phase = "listen" /\ ~Rewatching
    BY FeedAssumption, SettledLemma
  <2> QED
    BY <2>1, <2>2 DEF Filters
<1> QED
  BY <1>1, <1>2, <1>3, PTL DEF Spec

------------------------------------------------------------------------------
(* Every connection restates what is followed                              *)

\* What the panel has been told stays told, and what waits is heard.
LEMMA SendWaits ==
    ASSUME FeedAssumption, IInv, NEW t \in Task, cpu = t, NEW m \in Msg, m.by = t,
           m.op = "state" => Len(m.list) = 1 /\ m.value \in Value,
           Send(m), NEW e \in Entity
    PROVE  /\ told[e] # None => told'[e] # None
           /\ Waiting(e) => Waiting(e)'
           /\ m.op = "state" /\ m.list[1] = e => Waiting(e)'
<1>1. /\ sendq' \in Seq(Msg) /\ Len(sendq) \in Nat
      /\ Len(sendq') = Len(sendq) + 1 /\ sendq'[Len(sendq) + 1] = m
      /\ \A i \in 1..Len(sendq) : sendq'[i] = sendq[i]
      /\ IF sendq = <<>> THEN Hears(m) ELSE UNCHANGED <<told, cat>>
  BY SendLemma
<1>2. DOMAIN sendq = 1..Len(sendq) /\ DOMAIN sendq' = 1..Len(sendq')
  BY <1>1 DEF IInv, TypeOK
<1>3. Waiting(e) => Waiting(e)'
  BY <1>1, <1>2 DEF Waiting
<1>4. m.op = "state" /\ m.list[1] = e => Waiting(e)'
  <2>1. Len(sendq) + 1 \in DOMAIN sendq'
    BY <1>1, <1>2
  <2> QED
    BY <1>1, <2>1 DEF Waiting
<1>5. told[e] # None => told'[e] # None
  <2>1. CASE sendq = <<>>
    <3>1. told'[e] = IF m.op = "state" /\ m.list[1] = e THEN m.value ELSE told[e]
      BY <1>1, <2>1, HearsLemma DEF IInv
    <3> QED
      BY <3>1 DEF FeedAssumption
  <2>2. CASE sendq # <<>>
    BY <1>1, <2>2
  <2> QED
    BY <2>1, <2>2
<1> QED
  BY <1>3, <1>4, <1>5

LEMMA DoneWaits ==
    ASSUME FeedAssumption, IInv, Remembers, SendDone, NEW e \in Entity
    PROVE  /\ told[e] # None => told'[e] # None
           /\ Waiting(e) => Waiting(e)' \/ told'[e] # None
<1>1. /\ link = "up" /\ sendq # <<>> /\ Head(sendq) = sendq[1] /\ Len(sendq) \in Nat \ {0}
      /\ sendq \in Seq(Msg)
      /\ sendq' \in Seq(Msg) /\ Len(sendq') = Len(sendq) - 1
      /\ \A i \in 1..Len(sendq') : sendq'[i] = sendq[i + 1]
      /\ IF sendq' # <<>> THEN Hears(Head(sendq')) ELSE UNCHANGED <<told, cat>>
  BY DoneEffect DEF IInv, TypeOK
<1>2. DOMAIN sendq = 1..Len(sendq) /\ DOMAIN sendq' = 1..Len(sendq')
  BY <1>1
<1>3. told[e] # None => told'[e] # None
  <2>1. CASE sendq' # <<>>
    <3> DEFINE h == Head(sendq')
    <3>1. h \in Msg /\ Hears(h) /\ h = sendq[2] /\ 2 \in 1..Len(sendq)
      BY <1>1, <2>1
    <3>2. h.op = "state" => h.value \in Value
      BY <3>1 DEF IInv, Queued
    <3> HIDE DEF h
    <3>3. told'[e] = IF h.op = "state" /\ h.list[1] = e THEN h.value ELSE told[e]
      BY <3>1, HearsLemma DEF IInv
    <3> QED
      BY <3>2, <3>3 DEF FeedAssumption
  <2> QED
    BY <1>1, <2>1
<1>4. Writing(e) => told[e] # None
  <2>1. Writing(e) => told[e] = sendq[1].value /\ sendq[1].op = "state"
    BY <1>1 DEF Remembers, Writing
  <2>2. 1 \in 1..Len(sendq)
    BY <1>1
  <2>3. sendq[1].op = "state" => sendq[1].value \in Value
    BY <2>2 DEF IInv, Queued
  <2> QED
    BY <2>1, <2>3 DEF FeedAssumption
<1>5. ASSUME NEW i \in 1..Len(sendq), sendq[i].op = "state", sendq[i].list[1] = e
      PROVE  Writing(e) \/ Waiting(e)'
  <2>1. CASE i = 1
    BY <1>1, <1>5, <2>1 DEF Writing
  <2>2. CASE i # 1
    <3>1. i - 1 \in 1..Len(sendq') /\ sendq'[i - 1] = sendq[i]
      BY <1>1, <2>2
    <3> QED
      BY <1>2, <1>5, <3>1 DEF Waiting
  <2> QED
    BY <2>1, <2>2
<1>6. Waiting(e) => Writing(e) \/ Waiting(e)'
  BY <1>2, <1>5 DEF Waiting
<1> QED
  BY <1>3, <1>4, <1>6

\* An entity whose state is to be sent is to be sent, or waits, still.
LEMMA SendNamed ==
    ASSUME FeedAssumption, IInv, NEW t \in Pusher, SendStep(t), link = "up",
           NEW e \in Entity
    PROVE  Due(e) => Due(e)'
<1>1. /\ cpu = t /\ \A r \in Pusher : r # t => todo'[r] = todo[r]
      /\ Elems(todo[t]) = {Head(todo[t])} \cup Elems(Rest(t))
      /\ Elems(todo'[t]) = Elems(Rest(t))
  BY SendEffect
<1>2. PICK m \in Msg :
        /\ m.by = t /\ Send(m)
        /\ \/ /\ Head(todo[t]).op = "state" /\ m.op = "state" /\ m.first = FALSE
              /\ listing' = listing
              /\ \E x \in Entity :
                   /\ Head(todo[t]).list = <<x>> /\ m.list = <<x>>
                   /\ m.value = ha[x] /\ missed' = missed \ {x}
                   /\ refused' = refused \ {x}
           \/ /\ Head(todo[t]).op = "page" /\ m.op = "page"
              /\ m.first = Head(todo[t]).first /\ m.list = Head(todo[t]).list
              /\ missed' = missed /\ refused' = refused
              /\ listing' = Begun(t)
  BY SendEffect
<1>3. m.op = "state" => Len(m.list) = 1 /\ m.value \in Value
  <2>1. m.op = "state" => \E x \in Entity : m.list = <<x>> /\ m.value = ha[x]
    BY <1>2
  <2>2. \A x \in Entity : ha[x] \in Value /\ Len(<<x>>) = 1
    BY DEF IInv, TypeOK
  <2> QED
    BY <2>1, <2>2
<1>4. /\ told[e] # None => told'[e] # None
      /\ Waiting(e) => Waiting(e)'
      /\ m.op = "state" /\ m.list[1] = e => Waiting(e)'
  <2>1. t \in Task
    BY DEF Task
  <2> QED
    BY <1>1, <1>2, <1>3, <2>1, SendWaits
<1>5. Named(e) => Named(e)' \/ Waiting(e)'
  <2> SUFFICES ASSUME NEW r \in Pusher, NEW s \in Elems(todo[r]),
                      s.op \in {"push", "state"}, e \in Elems(s.list)
               PROVE  Named(e)' \/ Waiting(e)'
    BY DEF Named, Steps
  <2>1. CASE s \in Elems(todo'[r])
    BY <2>1 DEF Named, Steps
  <2>2. CASE s \notin Elems(todo'[r])
    <3>1. r = t /\ s = Head(todo[t])
      BY <1>1, <2>2
    <3>2. \E x \in Entity : s.list = <<x>> /\ m.list = <<x>> /\ m.op = "state"
      BY <1>2, <3>1
    <3>3. \A x \in Entity : Elems(<<x>>) = {x}
      BY DEF Elems
    <3> QED
      BY <1>4, <3>2, <3>3
  <2> QED
    BY <2>1, <2>2
<1>6. e \in refused => e \in refused' \/ Waiting(e)'
  BY <1>2, <1>4
<1> QED
  BY <1>4, <1>5, <1>6 DEF Due

LEMMA TooLongNamed ==
    ASSUME FeedAssumption, IInv, NEW t \in Pusher, SendTooLong(t), NEW e \in Entity
    PROVE  Due(e) => Due(e)'
<1>1. /\ UNCHANGED <<told, sendq>> /\ \A r \in Pusher : r # t => todo'[r] = todo[r]
      /\ Elems(todo[t]) = {Head(todo[t])} \cup Elems(Rest(t))
      /\ \A s \in Elems(Rest(t)) : s.op # "page" => s \in Elems(todo'[t])
  BY TooLongEffect
<1>2. /\ refused \subseteq refused'
      /\ \/ Head(todo[t]).op = "page"
         \/ \E x \in Entity : Head(todo[t]).list = <<x>> /\ x \in refused'
  BY TooLongEffect
<1>3. ASSUME NEW r \in Pusher, NEW s \in Elems(todo[r]),
             s.op \in {"push", "state"}, e \in Elems(s.list)
      PROVE  Named(e)' \/ e \in refused'
  <2>1. CASE s \in Elems(todo'[r])
    BY <1>3, <2>1 DEF Named, Steps
  <2>2. CASE s \notin Elems(todo'[r])
    <3>1. r = t /\ s = Head(todo[t])
      BY <1>1, <1>3, <2>2
    <3>2. PICK x \in Entity : s.list = <<x>> /\ x \in refused'
      BY <1>2, <1>3, <3>1
    <3>3. Elems(<<x>>) = {x}
      BY DEF Elems
    <3> QED
      BY <1>3, <3>2, <3>3
  <2> QED
    BY <2>1, <2>2
<1>4. Named(e) => Named(e)' \/ e \in refused'
  BY <1>3 DEF Named, Steps
<1> QED
  BY <1>1, <1>2, <1>4 DEF Due, Waiting

LEMMA PlanNamed ==
    ASSUME FeedAssumption, IInv, NEW t \in Pusher, PlanStep(t), NEW e \in Entity
    PROVE  /\ Named(e) => Named(e)'
           /\ Head(todo[t]).op = "pushControl" =>
                (e \in Elems(Controllable) /\ e \notin Elems(watched) => Named(e)')
<1>1. /\ \A r \in Pusher : r # t => todo'[r] = todo[r]
      /\ Elems(todo[t]) = {Head(todo[t])} \cup Elems(Rest(t))
  BY PlanEffect
<1>2. ASSUME NEW x \in Entity, Head(todo[t]).op = "push", x \in Elems(Head(todo[t]).list)
      PROVE  Do("state", <<x>>) \in Elems(todo'[t])
  <2>1. Elems(todo'[t]) = {Do("state", <<y>>) : y \in Elems(Head(todo[t]).list)}
                             \cup Elems(Rest(t))
    BY <1>2, PlanEffect
  <2> QED
    BY <1>2, <2>1
<1>3. ASSUME NEW r \in Pusher, NEW s \in Elems(todo[r]),
             s.op \in {"push", "state"}, e \in Elems(s.list)
      PROVE  Named(e)'
  <2>1. CASE s \in Elems(todo'[r])
    BY <1>3, <2>1 DEF Named, Steps
  <2>2. CASE s \notin Elems(todo'[r])
    <3>1. r = t /\ s = Head(todo[t]) /\ Head(todo[t]).op \in {"catalog", "pushControl", "push"}
      <4>1. s = Head(todo[t]) \/ s \in Elems(todo'[t]) \/ r # t
        BY PlanKept
      <4>2. Head(todo[t]).op \in {"catalog", "pushControl", "push"}
        BY DEF PlanStep, Runs
      <4> QED
        BY <1>1, <2>2, <4>1, <4>2
    <3>2. Do("state", <<e>>) \in Elems(todo'[t])
      BY <1>2, <1>3, <3>1
    <3>3. /\ Do("state", <<e>>).op = "state" /\ Do("state", <<e>>).list = <<e>>
          /\ Elems(<<e>>) = {e}
      BY DEF Do, Elems
    <3> QED
      BY <3>2, <3>3 DEF Named, Steps
  <2> QED
    BY <2>1, <2>2
<1>4. Named(e) => Named(e)'
  BY <1>3 DEF Named, Steps
<1>5. ASSUME Head(todo[t]).op = "pushControl", e \in Elems(Controllable),
             e \notin Elems(watched)
      PROVE  Named(e)'
  <2>1. PICK l \in Seq(Entity) : /\ Elems(l) = Elems(Controllable) \ Elems(watched)
                                 /\ Elems(todo'[t]) = {Do("push", l)} \cup Elems(Rest(t))
    BY <1>5, PlanEffect
  <2>2. Do("push", l).op = "push" /\ Do("push", l).list = l
    BY DEF Do
  <2> QED
    BY <1>5, <2>1, <2>2 DEF Named, Steps
<1> QED
  BY <1>4, <1>5

LEMMA WatchNamed ==
    ASSUME FeedAssumption, IInv, NEW t \in Pusher, WatchStep(t), NEW e \in Entity
    PROVE  Named(e) => Named(e)'
<1>1. Kept({"state"}) /\ \A s \in Elems(todo[t]) : s.op = "push" => s \in Elems(todo'[t])
  BY WatchKept DEF Kept
<1>2. \A r \in Pusher : r # t => todo'[r] = todo[r]
  BY WatchEffect
<1> QED
  BY <1>1, <1>2 DEF Kept, Named, Steps

\* A task that is to filter the watch list again is not past its pushControl:
\* whoever takes the last pushControl finds the watch list filtered.
LEMMA LastControl ==
    ASSUME FeedAssumption, IInv, NEW t \in Pusher, PlanStep(t),
           Head(todo[t]).op = "pushControl", ~ControlPending'
    PROVE  ~Rewatching
<1>1. /\ cpu = t /\ todo[t] # <<>> /\ \A r \in Pusher : r # t => todo'[r] = todo[r]
      /\ Elems(todo[t]) = {Head(todo[t])} \cup Elems(Rest(t))
  BY PlanEffect
<1>2. Elems(Rest(t)) = {}
  BY <1>1, ControlIsLast DEF IInv
<1>3. ASSUME NEW r \in Pusher, NEW s \in Elems(todo[r]), s.op \in Rewatchers PROVE FALSE
  <2>1. r # t
    BY <1>1, <1>2, <1>3 DEF Rewatchers
  <2>2. s.op \in {"rewatch", "rewatchIfUnseen"}
    <3>1. ~Opens(s)
      BY <1>1, <2>1 DEF IInv, Tasks, Steps
    <3> QED
      BY <1>3, <3>1 DEF Rewatchers, Opens
  <2>3. PICK c \in Elems(todo[r]) : c.op = "pushControl"
    BY <2>2 DEF IInv, Tasks, Steps
  <2> QED
    BY <1>1, <2>1, <2>3 DEF ControlPending, Steps
<1> QED
  BY <1>3 DEF Rewatching, Rewatchers, Steps

\* Steps that leave what is followed, and lose nobody's state.
LEMMA QuietRestates ==
    ASSUME FeedAssumption, TypeOK, Restates,
           \A e \in Entity : Due(e) => Due(e)',
           Rewatching => Rewatching', ControlPending => ControlPending',
           UNCHANGED <<options, link, phase, watchSeen, watched, unheard>>
    PROVE  Restates'
<1>1. Elems(watched) \subseteq Entity /\ Elems(Controllable) \subseteq Entity
  <2>1. watched \in Seq(Entity) /\ Controllable \in Seq(Entity)
    BY ListsLemma DEF TypeOK
  <2> QED
    BY <2>1 DEF Elems
<1>2. Elems(watched)' = Elems(watched) /\ Elems(Controllable)' = Elems(Controllable)
  BY DEF Controllable, Elems
<1> QED
  BY <1>1, <1>2 DEF Restates

LEMMA SameControl ==
    ASSUME Kept({"pushControl"})
    PROVE  ControlPending' <=> ControlPending
<1>1. ControlPending' => ControlPending
  BY DEF Kept, ControlPending, Steps
<1>2. ControlPending => ControlPending'
  BY DEF Kept, ControlPending, Steps
<1> QED
  BY <1>1, <1>2

LEMMA WatchRestates ==
    ASSUME FeedAssumption, IInv, Filters, Restates, NEW t \in Pusher, WatchStep(t)
    PROVE  Restates'
<1>1. UNCHANGED <<ha, options, loaded, link, phase, watchSeen, unheard, sendq, told,
                 refused>>
  BY WatchEffect DEF stillVars
<1>2. ASSUME NEW e \in Entity PROVE Due(e) => Due(e)'
  BY <1>1, WatchNamed DEF Due, Waiting
<1>3. ControlPending' <=> ControlPending
  <2>1. Kept({"pushControl"})
    BY WatchKept DEF Kept
  <2> QED
    BY <2>1, SameControl
<1>4. CASE /\ Head(todo[t]).op = "rewatchIfUnseen" /\ (watchSeen \/ panelWatch = <<>>)
           /\ UNCHANGED feedVars
           /\ Elems(todo'[t]) = Elems(Rest(t))
  <2>1. CASE watchSeen
    <3>1. Rewatching' <=> Rewatching
      BY <1>4, <2>1, SkipKept
    <3> QED
      BY <1>1, <1>2, <1>3, <1>4, <3>1, QuietRestates DEF feedVars, IInv
  <2>2. CASE panelWatch = <<>>
    <3>1. Elems(panelWatch) = {}
      BY <2>2 DEF Elems
    <3>2. Elems(watched') = {}
      BY <1>4, <3>1 DEF Filters, feedVars
    <3>3. Controllable' = Controllable /\ Elems(Controllable) \subseteq Entity
      <4>1. Controllable \in Seq(Entity)
        BY ListsLemma DEF IInv, TypeOK
      <4> QED
        BY <1>1, <4>1 DEF Controllable, Elems
    <3> QED
      BY <1>1, <1>2, <1>3, <3>2, <3>3 DEF Restates
  <2> QED
    BY <1>4, <2>1, <2>2
<1>5. CASE Elems(todo'[t]) = {Do("push", watched')} \cup Elems(Rest(t))
  <2>1. \A e \in Elems(watched') : Named(e)'
    <3>1. Do("push", watched').op = "push" /\ Do("push", watched').list = watched'
      BY DEF Do
    <3> QED
      BY <1>5, <3>1 DEF Named, Steps
  <2>2. Controllable' = Controllable /\ Elems(Controllable) \subseteq Entity
    <3>1. Controllable \in Seq(Entity)
      BY ListsLemma DEF IInv, TypeOK
    <3> QED
      BY <1>1, <3>1 DEF Controllable, Elems
  <2>3. \A e \in Elems(watched') : Due(e)'
    BY <2>1 DEF Due
  <2> QED
    BY <1>1, <1>2, <1>3, <2>2, <2>3 DEF Restates
<1> QED
  BY <1>4, <1>5, WatchEffect

LEMMA PlanRestates ==
    ASSUME FeedAssumption, IInv, Restates, NEW t \in Pusher, PlanStep(t)
    PROVE  Restates'
<1>1. UNCHANGED <<options, link, phase, watchSeen, watched, unheard, sendq, told, refused>>
  BY PlanEffect DEF stillVars, feedVars
<1>2. ASSUME NEW e \in Entity PROVE Due(e) => Due(e)'
  BY <1>1, PlanNamed DEF Due, Waiting
<1>3. Rewatching' <=> Rewatching
  BY <1>1, PlanKept, SameRewatching DEF Rewatchers
<1>4. CASE Head(todo[t]).op # "pushControl"
  <2>1. ControlPending' <=> ControlPending
    BY <1>4, PlanKept, SameControl
  <2> QED
    BY <1>1, <1>2, <1>3, <2>1, QuietRestates DEF IInv
<1>5. CASE Head(todo[t]).op = "pushControl"
  <2>1. /\ Elems(watched) \subseteq Entity /\ Elems(Controllable) \subseteq Entity
        /\ Controllable' = Controllable
    <3>1. watched \in Seq(Entity) /\ Controllable \in Seq(Entity)
      BY ListsLemma DEF IInv, TypeOK
    <3> QED
      BY <1>1, <3>1 DEF Controllable, Elems
  <2>2. ASSUME link = "up", phase = "listen", ~unheard, ~ControlPending',
               NEW e \in Elems(Controllable)
        PROVE  Due(e)'
    <3>1. CASE e \in Elems(watched)
      <4>1. ~Rewatching
        BY <1>5, <2>2, LastControl
      <4>2. Due(e)
        BY <2>2, <3>1, <4>1 DEF Restates
      <4> QED
        BY <1>2, <2>1, <4>2
    <3>2. CASE e \notin Elems(watched)
      <4>1. Named(e)'
        BY <1>5, <2>1, <2>2, <3>2, PlanNamed
      <4> QED
        BY <4>1 DEF Due
    <3> QED
      BY <3>1, <3>2
  <2> QED
    BY <1>1, <1>2, <1>3, <2>1, <2>2 DEF Restates
<1> QED
  BY <1>4, <1>5

LEMMA SendRestates ==
    ASSUME FeedAssumption, IInv, Restates, NEW t \in Pusher, SendStep(t)
    PROVE  Restates'
<1>1. UNCHANGED <<options, link, phase, watchSeen, watched, unheard>>
  BY SendEffect DEF stillVars, feedVars
<1>2. CASE link = "up"
  <2>1. \A e \in Entity : Due(e) => Due(e)'
    BY <1>2, SendNamed
  <2>2. Kept(Rewatchers) /\ Kept({"pushControl"})
    BY SendKept DEF Kept, Rewatchers
  <2>3. (Rewatching' <=> Rewatching) /\ (ControlPending' <=> ControlPending)
    BY <1>1, <2>2, SameRewatching, SameControl
  <2> QED
    BY <1>1, <2>1, <2>3, QuietRestates DEF IInv
<1>3. CASE link # "up"
  BY <1>1, <1>3 DEF Restates
<1> QED
  BY <1>2, <1>3

LEMMA DrainRestates ==
    ASSUME FeedAssumption, IInv, Restates, DrainTurn
    PROVE  Restates'
<1>1. UNCHANGED <<options, link, phase, watchSeen, watched, unheard, todo>> /\ cpu = "drain"
  BY DrainEffect
<1>2. ASSUME NEW e \in Entity PROVE Due(e) => Due(e)'
  <2>1. Named(e) => Named(e)'
    BY <1>1 DEF Named, Steps
  <2>2. CASE UNCHANGED <<sendq, told, refused>>
    BY <2>1, <2>2 DEF Due, Waiting
  <2>3. CASE \E m \in Msg : \E x \in Entity :
               /\ m.by = "drain" /\ m.op = "state" /\ m.list = <<x>> /\ m.value = ha[x]
               /\ Send(m) /\ refused' = refused \ {x}
    <3>1. PICK m \in Msg : \E x \in Entity :
               /\ m.by = "drain" /\ m.op = "state" /\ m.list = <<x>> /\ m.value = ha[x]
               /\ Send(m) /\ refused' = refused \ {x}
      BY <2>3
    <3>2. Len(m.list) = 1 /\ m.value \in Value
      <4>1. \A x \in Entity : ha[x] \in Value /\ Len(<<x>>) = 1
        BY DEF IInv, TypeOK
      <4> QED
        BY <3>1, <4>1
    <3>3. "drain" \in Task
      BY DEF Task
    <3>4. /\ told[e] # None => told'[e] # None
          /\ Waiting(e) => Waiting(e)'
          /\ m.list[1] = e => Waiting(e)'
      BY <1>1, <3>1, <3>2, <3>3, SendWaits
    <3>5. e \in refused => e \in refused' \/ m.list[1] = e
      BY <3>1
    <3> QED
      BY <2>1, <3>4, <3>5 DEF Due
  <2>4. \/ UNCHANGED <<sendq, told, refused>>
        \/ \E m \in Msg : \E x \in Entity :
               /\ m.by = "drain" /\ m.op = "state" /\ m.list = <<x>> /\ m.value = ha[x]
               /\ Send(m) /\ refused' = refused \ {x}
    BY DrainEffect
  <2> QED
    BY <2>2, <2>3, <2>4
<1>3. (Rewatching => Rewatching') /\ (ControlPending => ControlPending')
  BY <1>1 DEF Rewatching, ControlPending, Steps
<1> QED
  BY <1>1, <1>2, <1>3, QuietRestates DEF IInv

LEMMA StepRestates ==
    FeedAssumption /\ IInv /\ Remembers /\ Filters /\ Restates /\ [Next]_vars => Restates'
<1> SUFFICES ASSUME FeedAssumption, IInv, Remembers, Filters, Restates, [Next]_vars
             PROVE  Restates'
  OBVIOUS
<1>1. CASE \E t \in Pusher : WatchStep(t) \/ PlanStep(t) \/ SendStep(t)
  BY <1>1, WatchRestates, PlanRestates, SendRestates
<1>2. CASE DrainTurn
  BY <1>2, DrainRestates
<1>3. CASE \/ SendDone \/ \E t \in Pusher : Returns(t)
           \/ \E e \in Entity, v \in Value : StateChanges(e, v)
           \/ DrainTooLong \/ StopsListening \/ UNCHANGED vars
  <2>1. UNCHANGED <<options, link, phase, watchSeen, watched, unheard, todo>>
    BY <1>3 DEF SendDone, Returns, StateChanges, DrainTooLong, StopsListening, vars,
                stillVars, feedVars, ghosts
  <2>2. ASSUME NEW e \in Entity PROVE Due(e) => Due(e)'
    <3>1. Named(e) => Named(e)'
      BY <2>1 DEF Named, Steps
    <3>2. CASE SendDone
      <4>1. refused' = refused
        BY <3>2 DEF SendDone, ghosts
      <4> QED
        BY <3>1, <3>2, <4>1, DoneWaits DEF Due
    <3>3. CASE \/ \E t \in Pusher : Returns(t)
               \/ \E x \in Entity, v \in Value : StateChanges(x, v)
               \/ DrainTooLong \/ StopsListening \/ UNCHANGED vars
      <4>1. UNCHANGED <<sendq, told>> /\ refused \subseteq refused'
        BY <3>3 DEF Returns, StateChanges, DrainTooLong, LeftOut, StopsListening, vars, ghosts
      <4> QED
        BY <3>1, <4>1 DEF Due, Waiting
    <3> QED
      BY <1>3, <3>2, <3>3
  <2>3. (Rewatching => Rewatching') /\ (ControlPending => ControlPending')
    BY <2>1 DEF Rewatching, ControlPending, Steps
  <2> QED
    BY <2>1, <2>2, <2>3, QuietRestates DEF IInv
<1>4. CASE \E t \in Task : SendRaised(t)
  <2>1. link # "up" /\ link' = link
    BY <1>4 DEF SendRaised, IInv, PerLink
  <2> QED
    BY <2>1 DEF Restates
<1>5. CASE Connects
  <2>1. phase' = "resync" /\ watchSeen' = FALSE
    BY <1>5 DEF Connects
  <2> QED
    BY <2>1 DEF Restates
<1>6. CASE SnapshotArrives
  <2>1. /\ Idle("link") /\ todo' = [todo EXCEPT !["link"] = AfterConnect] /\ "link" \in Pusher
        /\ UNCHANGED <<options, link, watched, watchSeen, sendq, told, refused>>
    BY <1>6 DEF SnapshotArrives, LinkReads, Pusher, ghosts
  <2>2. /\ Steps("link") = {} /\ todo'["link"] = AfterConnect
        /\ \A r \in Pusher : r # "link" => todo'[r] = todo[r]
    BY <2>1, StartSteps
  <2>3. Rewatching => Rewatching'
    BY <2>1, <2>2 DEF Rewatching, Steps
  <2>4. (~watchSeen => Rewatching') /\ ControlPending'
    <3>1. /\ Do("rewatchIfUnseen", <<>>) \in Elems(todo'["link"])
          /\ Do("pushControl", <<>>) \in Elems(todo'["link"])
          /\ Do("rewatchIfUnseen", <<>>).op = "rewatchIfUnseen"
          /\ Do("pushControl", <<>>).op = "pushControl"
      BY <2>2, OpeningLemma DEF AfterConnect, Do
    <3> QED
      BY <2>1, <3>1 DEF Rewatching, ControlPending, Steps
  <2>5. ASSUME NEW e \in Entity PROVE Due(e) => Due(e)'
    <3>1. Named(e) => Named(e)'
      BY <2>2 DEF Named, Steps
    <3> QED
      BY <2>1, <3>1 DEF Due, Waiting
  <2>6. Elems(watched) \subseteq Entity
    BY DEF IInv, TypeOK, Elems
  <2> QED
    BY <2>1, <2>3, <2>4, <2>5, <2>6 DEF Restates
<1>7. CASE \E ids \in WatchLists : WatchArrives(ids)
  <2>1. PICK ids \in WatchLists : WatchArrives(ids)
    BY <1>7
  <2>2. /\ Idle("link") /\ "link" \in Pusher
        /\ todo' = [todo EXCEPT !["link"] = <<Do("watch", ids)>>]
        /\ UNCHANGED <<options, link, phase, watched, sendq, told, refused, unheard>>
    BY <2>1 DEF WatchArrives, LinkReads, Pusher, ghosts
  <2>3. /\ Steps("link") = {} /\ todo'["link"] = <<Do("watch", ids)>>
        /\ \A r \in Pusher : r # "link" => todo'[r] = todo[r]
    BY <2>2, StartSteps
  <2>4. Rewatching'
    <3>1. ids \in Seq(Entity)
      BY DEF FeedAssumption
    <3>2. /\ Elems(<<Do("watch", ids)>>) = {Do("watch", ids)}
          /\ Do("watch", ids).op = "watch"
      BY <3>1, DoLemma
    <3>3. Do("watch", ids) \in Elems(todo'["link"])
      BY <2>3, <3>2, Zenon
    <3> QED
      BY <2>2, <3>2, <3>3 DEF Rewatching, Steps
  <2>5. ASSUME NEW e \in Entity PROVE Due(e) => Due(e)'
    <3>1. Named(e) => Named(e)'
      BY <2>3 DEF Named, Steps
    <3> QED
      BY <2>2, <3>1 DEF Due, Waiting
  <2>6. ControlPending => ControlPending'
    BY <2>3 DEF ControlPending, Steps
  <2>7. Elems(Controllable) \subseteq Entity /\ Controllable' = Controllable
    <3>1. Controllable \in Seq(Entity)
      BY ListsLemma DEF IInv, TypeOK
    <3> QED
      BY <2>2, <3>1 DEF Controllable, Elems
  <2> QED
    BY <2>2, <2>4, <2>5, <2>6, <2>7 DEF Restates
<1>8. CASE \E o \in Options, t \in OptTask : OptionsChange(o, t)
  <2>1. PICK o \in Options, t \in OptTask : OptionsChange(o, t)
    BY <1>8
  <2>2. Idle(t) /\ t \in Pusher /\ todo' = [todo EXCEPT ![t] = EntryUpdated]
    BY <2>1 DEF OptionsChange, Pusher
  <2>3. todo'[t] = EntryUpdated
    BY <2>2, StartSteps
  <2>4. /\ Do("rewatch", <<>>) \in Elems(todo'[t]) /\ Do("pushControl", <<>>) \in Elems(todo'[t])
        /\ Do("rewatch", <<>>).op = "rewatch" /\ Do("pushControl", <<>>).op = "pushControl"
    BY <2>3, OpeningLemma DEF EntryUpdated, Do
  <2>5. Rewatching' /\ ControlPending'
    BY <2>2, <2>4 DEF Rewatching, ControlPending, Steps
  <2> QED
    BY <2>5 DEF Restates
<1>9. CASE LinkFails \/ SessionEnds \/ Unload
  <2>1. link' # "up"
    BY <1>9 DEF LinkFails, SessionEnds, Unload
  <2> QED
    BY <2>1 DEF Restates
<1>10. CASE \E t \in Pusher : SendTooLong(t)
  <2>1. PICK t \in Pusher : SendTooLong(t)
    BY <1>10
  <2>2. UNCHANGED <<options, link, phase, watchSeen, watched, unheard>>
    BY <2>1, TooLongEffect DEF stillVars, feedVars
  <2>3. \A e \in Entity : Due(e) => Due(e)'
    BY <2>1, TooLongNamed
  <2>4. Kept(Rewatchers) /\ Kept({"pushControl"})
    BY <2>1, TooLongKept DEF Kept, Rewatchers
  <2>5. (Rewatching' <=> Rewatching) /\ (ControlPending' <=> ControlPending)
    BY <2>2, <2>4, SameRewatching, SameControl
  <2> QED
    BY <2>2, <2>3, <2>5, QuietRestates DEF IInv
<1>11. CASE \E o \in Options : OptionsChangeUnheard(o)
  <2>1. /\ UNCHANGED <<link, phase, watchSeen, watched, sendq, told, todo, refused>>
        /\ link = "up" => unheard'
    BY <1>11 DEF OptionsChangeUnheard
  <2>2. \A e \in Entity : Due(e)' <=> Due(e)
    BY <2>1 DEF Due, Waiting, Named, Steps
  <2>3. Rewatching' <=> Rewatching
    BY <2>1 DEF Rewatching, Steps
  <2>4. Elems(watched) \subseteq Entity
    BY DEF IInv, TypeOK, Elems
  <2> QED
    BY <2>1, <2>2, <2>3, <2>4 DEF Restates
<1> QED
  BY <1>1, <1>2, <1>3, <1>4, <1>5, <1>6, <1>7, <1>8, <1>9, <1>10, <1>11 DEF Next

\* With nothing under way every watched entity has been told on this connection,
\* whether or not the panel repeated its watch list, and every controllable one
\* of the options that were heard; but for those whose last message was too long
\* for a frame (_async_after_connect, _async_push_control; ZSRC-015, HA01, HA02).
THEOREM Restated == Spec => []EverythingRestated
<1> DEFINE RInv == IInv /\ Remembers /\ Filters /\ Restates
<1>1. Init => RInv
  BY FeedAssumption, InitInd, InitFilters DEF Init, Remembers, Restates
<1>2. RInv /\ [Next]_vars => RInv'
  BY FeedAssumption, StepInd, StepRemembers, StepFilters, StepRestates
<1>3. RInv => EverythingRestated
  <2> SUFFICES ASSUME RInv, Settled,
                      NEW e, e \notin refused,
                      \/ e \in Elems(watched)
                      \/ ~unheard /\ e \in Elems(Controllable)
               PROVE  told[e] # None
    BY DEF EverythingRestated
  <2>1. /\ link = "up" /\ phase = "listen" /\ sendq = <<>>
        /\ \A t \in Pusher : Steps(t) = {}
        /\ ~Rewatching /\ ~ControlPending
    BY FeedAssumption, SettledLemma
  <2>2. Due(e)
    BY <2>1 DEF Restates
  <2>3. ~Waiting(e) /\ ~Named(e)
    BY <2>1 DEF Waiting, Named
  <2> QED
    BY <2>2, <2>3 DEF Due
<1> HIDE DEF RInv
<1> QED
  BY <1>1, <1>2, <1>3, PTL DEF Spec

------------------------------------------------------------------------------
(* What the panel was told is how things are                               *)

\* A state joins the queue as it is now: the last thing said of the entity is
\* true, and nothing changes for the others.
LEMMA SendFresh ==
    ASSUME FeedAssumption, IInv, NEW t \in Task, cpu = t, NEW m \in Msg, m.by = t,
           m.op = "state" => Len(m.list) = 1 /\ m.value \in Value /\ m.value = ha[m.list[1]],
           Send(m), ha' = ha, NEW e \in Entity
    PROVE  /\ Fresh(e) => Fresh(e)'
           /\ m.op = "state" /\ m.list[1] = e => Fresh(e)'
<1>1. /\ sendq' \in Seq(Msg) /\ Len(sendq) \in Nat
      /\ Len(sendq') = Len(sendq) + 1 /\ sendq'[Len(sendq) + 1] = m
      /\ \A i \in 1..Len(sendq) : sendq'[i] = sendq[i]
      /\ IF sendq = <<>> THEN Hears(m) ELSE UNCHANGED <<told, cat>>
      /\ DOMAIN sendq = 1..Len(sendq) /\ DOMAIN sendq' = 1..Len(sendq')
  BY SendLemma DEF IInv, TypeOK
<1>2. CASE m.op = "state" /\ m.list[1] = e
  <2>1. ASSUME NEW i \in 1..Len(sendq'), LastOf(i, e)' PROVE sendq'[i].value = ha[e]
    <3>1. i = Len(sendq) + 1
      BY <1>1, <1>2, <2>1 DEF LastOf
    <3> QED
      BY <1>1, <1>2, <3>1
  <2>2. Waiting(e)'
    <3>1. Len(sendq) + 1 \in DOMAIN sendq'
      BY <1>1
    <3> QED
      BY <1>1, <1>2, <3>1 DEF Waiting
  <2> QED
    BY <2>1, <2>2 DEF Fresh
<1>3. ASSUME ~(m.op = "state" /\ m.list[1] = e), Fresh(e) PROVE Fresh(e)'
  <2>1. ASSUME NEW i \in 1..Len(sendq'), LastOf(i, e)' PROVE sendq'[i].value = ha[e]
    <3>1. i \in 1..Len(sendq) /\ sendq'[i] = sendq[i]
      BY <1>1, <1>3, <2>1 DEF LastOf
    <3>2. LastOf(i, e)
      BY <1>1, <2>1, <3>1 DEF LastOf
    <3> QED
      BY <1>3, <3>1, <3>2 DEF Fresh
  <2>2. Waiting(e) => Waiting(e)'
    BY <1>1 DEF Waiting
  <2>3. told'[e] = told[e]
    <3>1. CASE sendq = <<>>
      BY <1>1, <1>3, <3>1, HearsLemma DEF IInv
    <3> QED
      BY <1>1, <3>1
  <2> QED
    BY <1>3, <2>1, <2>2, <2>3 DEF Fresh
<1> QED
  BY <1>2, <1>3

\* The head has drained: what it said of its entity is what the panel holds.
LEMMA DoneFresh ==
    ASSUME FeedAssumption, IInv, Remembers, SendDone, NEW e \in Entity, Fresh(e)
    PROVE  Fresh(e)'
<1>1. /\ link = "up" /\ sendq # <<>> /\ Head(sendq) = sendq[1] /\ Len(sendq) \in Nat \ {0}
      /\ sendq \in Seq(Msg) /\ ha' = ha
      /\ sendq' \in Seq(Msg) /\ Len(sendq') = Len(sendq) - 1
      /\ \A i \in 1..Len(sendq') : sendq'[i] = sendq[i + 1]
      /\ IF sendq' # <<>> THEN Hears(Head(sendq')) ELSE UNCHANGED <<told, cat>>
  BY DoneEffect DEF IInv, TypeOK
<1>2. DOMAIN sendq = 1..Len(sendq) /\ DOMAIN sendq' = 1..Len(sendq')
  BY <1>1
<1>3. ASSUME NEW i \in 1..Len(sendq'), LastOf(i, e)' PROVE sendq'[i].value = ha[e]
  <2>1. i + 1 \in 1..Len(sendq) /\ sendq'[i] = sendq[i + 1]
    BY <1>1
  <2>2. ASSUME NEW j \in 1..Len(sendq), j > i + 1
        PROVE  ~(sendq[j].op = "state" /\ sendq[j].list[1] = e)
    <3>1. j - 1 \in 1..Len(sendq') /\ j - 1 > i /\ sendq'[j - 1] = sendq[j]
      BY <1>1, <2>2
    <3> QED
      BY <1>3, <3>1 DEF LastOf
  <2>3. LastOf(i + 1, e)
    BY <1>3, <2>1, <2>2 DEF LastOf
  <2> QED
    BY <2>1, <2>3 DEF Fresh
<1>4. ASSUME ~Waiting(e)' PROVE told'[e] \in {None, ha[e]}
  <2>1. ASSUME NEW j \in 1..Len(sendq), j > 1
        PROVE  ~(sendq[j].op = "state" /\ sendq[j].list[1] = e)
    <3>1. j - 1 \in DOMAIN sendq' /\ sendq'[j - 1] = sendq[j]
      BY <1>1, <1>2, <2>1
    <3> QED
      BY <1>4, <3>1 DEF Waiting
  <2>2. told'[e] = told[e]
    <3>1. CASE sendq' # <<>>
      <4> DEFINE h == Head(sendq')
      <4>1. h \in Msg /\ Hears(h) /\ h = sendq[2] /\ 2 \in 1..Len(sendq)
        BY <1>1, <3>1
      <4>2. ~(h.op = "state" /\ h.list[1] = e)
        BY <2>1, <4>1
      <4> HIDE DEF h
      <4> QED
        BY <4>1, <4>2, HearsLemma DEF IInv
    <3> QED
      BY <1>1, <3>1
  <2>3. CASE Writing(e)
    <3>1. told[e] = sendq[1].value /\ sendq[1].op = "state" /\ sendq[1].list[1] = e
      BY <1>1, <2>3 DEF Remembers, Writing
    <3>2. LastOf(1, e) /\ 1 \in 1..Len(sendq)
      BY <1>1, <2>1, <3>1 DEF LastOf
    <3> QED
      BY <2>2, <3>1, <3>2 DEF Fresh
  <2>4. CASE ~Writing(e)
    <3>1. ~Waiting(e)
      BY <1>1, <1>2, <2>1, <2>4 DEF Waiting, Writing
    <3> QED
      BY <2>2, <3>1 DEF Fresh
  <2> QED
    BY <2>3, <2>4
<1> QED
  BY <1>1, <1>3, <1>4 DEF Fresh

\* An entity left out because nothing new would be said of it, and of which no
\* message is on its way, is known to the panel as it is.
LEMMA LeftOutFresh ==
    ASSUME FeedAssumption, IInv, Remembers, link = "up", NEW e \in Entity,
           sent[e] = ha[e], ~Waiting(e)
    PROVE  Fresh(e)
<1>1. DOMAIN sendq = 1..Len(sendq) /\ (sendq # <<>> => 1 \in DOMAIN sendq)
  BY DEF IInv, TypeOK
<1>2. ~Writing(e)
  <2>1. sendq # <<>> => Head(sendq) = sendq[1]
    BY DEF IInv, TypeOK
  <2> QED
    BY <1>1, <2>1 DEF Waiting, Writing
<1>3. sent[e] # None
  BY DEF FeedAssumption, IInv, TypeOK
<1>4. told[e] = ha[e]
  BY <1>2, <1>3 DEF Remembers
<1>5. \A i \in 1..Len(sendq) : ~LastOf(i, e)
  BY <1>1 DEF LastOf, Waiting
<1> QED
  BY <1>4, <1>5 DEF Fresh

LEMMA SameRelisting ==
    ASSUME Kept({"watch", "rewatch"})
    PROVE  Relisting' <=> Relisting
<1>1. Relisting' => Relisting
  BY DEF Kept, Relisting, Steps
<1>2. Relisting => Relisting'
  BY DEF Kept, Relisting, Steps
<1> QED
  BY <1>1, <1>2

LEMMA ListedEntities ==
    ASSUME FeedAssumption, TypeOK
    PROVE  /\ Elems(watched) \subseteq Entity /\ Elems(Controllable) \subseteq Entity
           /\ sub \subseteq Entity
<1>1. watched \in Seq(Entity) /\ Controllable \in Seq(Entity)
  BY ListsLemma DEF TypeOK
<1> QED
  BY <1>1 DEF Elems, TypeOK

\* Steps that leave what is followed, and forget nothing that is owed.
LEMMA QuietKeeps ==
    ASSUME FeedAssumption, TypeOK, Keeps,
           link = "up" => \A e \in Entity : Owes(e) => Owes(e)',
           Relisting => Relisting', ControlPending => ControlPending',
           UNCHANGED <<options, loaded, unheard, link, watched, sub>>
    PROVE  Keeps'
<1>1. Elems(watched) \subseteq Entity /\ Elems(Controllable) \subseteq Entity
  BY ListedEntities
<1>2. Elems(watched)' = Elems(watched) /\ Elems(Controllable)' = Elems(Controllable)
  BY DEF Controllable, Elems
<1> QED
  BY <1>1, <1>2 DEF Keeps

LEMMA WatchKeeps ==
    ASSUME FeedAssumption, IInv, Keeps, NEW t \in Pusher, WatchStep(t)
    PROVE  Keeps'
<1>1. UNCHANGED <<ha, options, loaded, link, phase, watchSeen, unheard, sendq, told,
                 missed>>
  BY WatchEffect DEF stillVars
<1>2. ControlPending' <=> ControlPending
  <2>1. Kept({"pushControl"})
    BY WatchKept DEF Kept
  <2> QED
    BY <2>1, SameControl
<1>3. ASSUME NEW e \in Entity
      PROVE  (Named(e) => Named(e)') /\ (Fresh(e) => Fresh(e)')
  BY <1>1, WatchNamed DEF Fresh, LastOf, Waiting
<1>4. CASE /\ Head(todo[t]).op = "rewatchIfUnseen"
           /\ UNCHANGED feedVars
           /\ Elems(todo'[t]) = Elems(Rest(t))
  <2>1. \A e \in Entity : Owes(e) => Owes(e)'
    BY <1>1, <1>3, <1>4 DEF Owes, feedVars
  <2>2. Relisting => Relisting'
    <3>1. /\ \A r \in Pusher : r # t => todo'[r] = todo[r]
          /\ Elems(todo[t]) = {Head(todo[t])} \cup Elems(Rest(t))
      BY WatchEffect
    <3> QED
      BY <1>4, <3>1 DEF Relisting, Steps
  <2> QED
    BY <1>1, <1>2, <1>4, <2>1, <2>2, QuietKeeps DEF IInv, feedVars
<1>5. CASE /\ sub' = Elems(watched') \cup Elems(Controllable)
           /\ outbox' = Filter(outbox, sub')
           /\ Elems(todo'[t]) = {Do("push", watched')} \cup Elems(Rest(t))
  <2>1. \A e \in Elems(watched') : Owes(e)'
    <3>1. Do("push", watched').op = "push" /\ Do("push", watched').list = watched'
      BY DEF Do
    <3> QED
      BY <1>5, <3>1 DEF Owes, Named, Steps
  <2>2. Elems(Controllable) \subseteq Entity /\ Controllable' = Controllable
    BY <1>1, ListedEntities DEF Controllable, IInv
  <2>3. ASSUME NEW e \in Elems(Controllable), Owes(e) PROVE Owes(e)'
    <3>1. Elems(outbox') = Elems(outbox) \cap sub'
      <4>1. outbox \in Seq(Entity)
        BY DEF IInv, TypeOK
      <4> QED
        BY <1>5, <4>1, FilterElems
    <3> QED
      BY <1>1, <1>3, <1>5, <2>2, <2>3, <3>1 DEF Owes
  <2> QED
    BY <1>1, <1>2, <1>5, <2>1, <2>2, <2>3 DEF Keeps
<1> QED
  BY <1>4, <1>5, WatchEffect

LEMMA PlanKeeps ==
    ASSUME FeedAssumption, IInv, Keeps, NEW t \in Pusher, PlanStep(t)
    PROVE  Keeps'
<1>1. UNCHANGED <<ha, options, loaded, unheard, link, phase, watchSeen, watched, sub, outbox,
                  sendq, told, missed>>
  BY PlanEffect DEF stillVars, feedVars
<1>2. ASSUME NEW e \in Entity PROVE Owes(e) => Owes(e)'
  BY <1>1, PlanNamed DEF Owes, Fresh, LastOf, Waiting
<1>3. Relisting' <=> Relisting
  <2>1. Kept({"watch", "rewatch"})
    BY PlanKept DEF Kept
  <2> QED
    BY <2>1, SameRelisting
<1>4. CASE Head(todo[t]).op # "pushControl"
  <2>1. ControlPending' <=> ControlPending
    BY <1>4, PlanKept, SameControl
  <2> QED
    BY <1>1, <1>2, <1>3, <2>1, QuietKeeps DEF IInv
<1>5. CASE Head(todo[t]).op = "pushControl"
  <2>1. /\ Elems(watched) \subseteq Entity /\ Elems(Controllable) \subseteq Entity
        /\ Controllable' = Controllable
    BY <1>1, ListedEntities DEF Controllable, IInv
  <2>2. ASSUME link = "up", NEW e \in Elems(Controllable) PROVE Owes(e)'
    <3>1. CASE e \in Elems(watched)
      BY <1>2, <2>1, <2>2, <3>1 DEF Keeps
    <3>2. CASE e \notin Elems(watched)
      <4>1. Named(e)'
        BY <1>5, <2>1, <2>2, <3>2, PlanNamed
      <4> QED
        BY <4>1 DEF Owes
    <3> QED
      BY <3>1, <3>2
  <2> QED
    BY <1>1, <1>2, <1>3, <2>1, <2>2 DEF Keeps
<1> QED
  BY <1>4, <1>5

LEMMA SendKeeps ==
    ASSUME FeedAssumption, IInv, Keeps, NEW t \in Pusher, SendStep(t)
    PROVE  Keeps'
<1>1. UNCHANGED <<ha, options, loaded, unheard, link, phase, watchSeen, watched, sub, outbox>>
  BY SendEffect DEF stillVars, feedVars
<1>2. (Relisting' <=> Relisting) /\ (ControlPending' <=> ControlPending)
  <2>1. Kept({"watch", "rewatch"}) /\ Kept({"pushControl"})
    BY SendKept DEF Kept
  <2> QED
    BY <2>1, SameRelisting, SameControl
<1>3. ASSUME link = "up", NEW e \in Entity, Owes(e) PROVE Owes(e)'
  <2>1. /\ cpu = t /\ t \in Task /\ \A r \in Pusher : r # t => todo'[r] = todo[r]
        /\ Elems(todo[t]) = {Head(todo[t])} \cup Elems(Rest(t))
        /\ Elems(todo'[t]) = Elems(Rest(t))
    BY <1>3, SendEffect DEF Task
  <2>2. PICK m \in Msg :
          /\ m.by = t /\ Send(m)
          /\ \/ /\ Head(todo[t]).op = "state" /\ m.op = "state" /\ m.first = FALSE
                /\ listing' = listing
                /\ \E x \in Entity :
                     /\ Head(todo[t]).list = <<x>> /\ m.list = <<x>>
                     /\ m.value = ha[x] /\ missed' = missed \ {x}
                     /\ refused' = refused \ {x}
             \/ /\ Head(todo[t]).op = "page" /\ m.op = "page"
                /\ m.first = Head(todo[t]).first /\ m.list = Head(todo[t]).list
                /\ missed' = missed /\ refused' = refused
                /\ listing' = Begun(t)
    BY <1>3, SendEffect
  <2>3. \A x \in Entity : ha[x] \in Value /\ Len(<<x>>) = 1 /\ <<x>>[1] = x /\ Elems(<<x>>) = {x}
    BY DEF IInv, TypeOK, Elems
  <2>4. m.op = "state" => Len(m.list) = 1 /\ m.value \in Value /\ m.value = ha[m.list[1]]
    BY <2>2, <2>3
  <2>5. /\ Fresh(e) => Fresh(e)'
        /\ m.op = "state" /\ m.list[1] = e => Fresh(e)'
    BY <1>1, <2>1, <2>2, <2>4, SendFresh
  <2>6. CASE m.op = "state" /\ m.list[1] = e
    BY <2>5, <2>6 DEF Owes
  <2>7. CASE ~(m.op = "state" /\ m.list[1] = e)
    <3>1. e \in missed => e \in missed'
      BY <2>2, <2>3, <2>7
    <3>2. Named(e) => Named(e)'
      <4> SUFFICES ASSUME NEW r \in Pusher, NEW s \in Elems(todo[r]),
                          s.op \in {"push", "state"}, e \in Elems(s.list)
                   PROVE  s \in Elems(todo'[r])
        BY DEF Named, Steps
      <4>1. Head(todo[t]).op \in {"push", "state"} =>
              /\ m.op = "state"
              /\ \E x \in Entity : Head(todo[t]).list = <<x>> /\ m.list = <<x>>
        BY <2>2
      <4>2. s # Head(todo[t])
        <5> SUFFICES ASSUME s = Head(todo[t]) PROVE FALSE
          OBVIOUS
        <5>1. PICK x \in Entity : s.list = <<x>> /\ m.list = <<x>> /\ m.op = "state"
          BY <4>1
        <5>2. x = e /\ m.list[1] = x
          BY <2>3, <5>1, ZenonT(60)
        <5> QED
          BY <2>7, <5>1, <5>2
      <4> QED
        BY <2>1, <4>2
    <3> QED
      BY <1>1, <1>3, <2>5, <3>1, <3>2 DEF Owes
  <2> QED
    BY <2>6, <2>7
<1> QED
  BY <1>1, <1>2, <1>3, QuietKeeps DEF IInv

LEMMA TooLongKeeps ==
    ASSUME FeedAssumption, IInv, Keeps, NEW t \in Pusher, SendTooLong(t)
    PROVE  Keeps'
<1>1. UNCHANGED <<ha, options, loaded, unheard, link, watched, sub, outbox, sendq, told>>
  BY TooLongEffect DEF stillVars, feedVars
<1>2. (Relisting' <=> Relisting) /\ (ControlPending' <=> ControlPending)
  <2>1. Kept({"watch", "rewatch"}) /\ Kept({"pushControl"})
    BY TooLongKept DEF Kept
  <2> QED
    BY <2>1, SameRelisting, SameControl
<1>3. /\ missed \subseteq missed'
      /\ \/ Head(todo[t]).op = "page"
         \/ \E x \in Entity : Head(todo[t]).list = <<x>> /\ x \in missed'
  BY TooLongEffect
<1>4. /\ \A r \in Pusher : r # t => todo'[r] = todo[r]
      /\ Elems(todo[t]) = {Head(todo[t])} \cup Elems(Rest(t))
      /\ \A s \in Elems(Rest(t)) : s.op # "page" => s \in Elems(todo'[t])
  BY TooLongEffect
<1>5. ASSUME NEW e \in Entity, NEW r \in Pusher, NEW s \in Elems(todo[r]),
             s.op \in {"push", "state"}, e \in Elems(s.list)
      PROVE  Named(e)' \/ e \in missed'
  <2>1. CASE s \in Elems(todo'[r])
    BY <1>5, <2>1 DEF Named, Steps
  <2>2. CASE s \notin Elems(todo'[r])
    <3>1. r = t /\ s = Head(todo[t])
      BY <1>4, <1>5, <2>2
    <3>2. PICK x \in Entity : s.list = <<x>> /\ x \in missed'
      BY <1>3, <1>5, <3>1
    <3>3. Elems(<<x>>) = {x}
      BY DEF Elems
    <3> QED
      BY <1>5, <3>2, <3>3
  <2> QED
    BY <2>1, <2>2
<1>6. ASSUME NEW e \in Entity PROVE Owes(e) => Owes(e)'
  <2>1. Named(e) => Named(e)' \/ e \in missed'
    BY <1>5 DEF Named, Steps
  <2>2. Fresh(e) => Fresh(e)'
    BY <1>1 DEF Fresh, LastOf, Waiting
  <2> QED
    BY <1>1, <1>3, <2>1, <2>2 DEF Owes
<1> QED
  BY <1>1, <1>2, <1>6, QuietKeeps DEF IInv

LEMMA DrainKeeps ==
    ASSUME FeedAssumption, IInv, Remembers, Keeps, DrainTurn
    PROVE  Keeps'
<1>1. /\ UNCHANGED <<ha, options, loaded, unheard, link, watched, sub, todo>>
      /\ cpu = "drain" /\ "drain" \in Task
  BY DrainEffect DEF Task
<1>2. (Relisting => Relisting') /\ (ControlPending => ControlPending')
  BY <1>1 DEF Relisting, ControlPending, Steps
<1>3. ASSUME link = "up", NEW e \in Entity, Owes(e) PROVE Owes(e)'
  <2>0. Named(e) => Named(e)'
    BY <1>1 DEF Named, Steps
  <2>1. CASE UNCHANGED <<outbox, sendq, told, cat, missed, refused>>
    BY <1>1, <1>3, <2>0, <2>1 DEF Owes, Fresh, LastOf, Waiting
  <2>2. ASSUME NEW x \in Entity, Elems(outbox) = {x} \cup Elems(outbox'), sent[x] = ha[x],
               UNCHANGED <<cpu, sendq, told, cat>>,
               missed' = IF link = "up" /\ Waiting(x) THEN missed \cup {x} ELSE missed
        PROVE  Owes(e)'
    <3>1. Fresh(e) => Fresh(e)'
      BY <1>1, <2>2 DEF Fresh, LastOf, Waiting
    <3>2. CASE e # x
      BY <1>3, <2>0, <2>2, <3>1, <3>2 DEF Owes
    <3>3. CASE e = x /\ Waiting(x)
      BY <1>3, <2>2, <3>3 DEF Owes
    <3>4. CASE e = x /\ ~Waiting(x)
      BY <1>3, <2>2, <3>1, <3>4, LeftOutFresh DEF Owes
    <3> QED
      BY <3>2, <3>3, <3>4
  <2>3. ASSUME NEW x \in Entity, Elems(outbox) = {x} \cup Elems(outbox'),
               missed' = missed \ {x}, NEW m \in Msg, m.by = "drain", m.op = "state",
               m.list = <<x>>, m.value = ha[x], Send(m)
        PROVE  Owes(e)'
    <3>1. Len(m.list) = 1 /\ m.list[1] = x /\ m.value \in Value
      BY <2>3 DEF IInv, TypeOK
    <3>2. (Fresh(e) => Fresh(e)') /\ (x = e => Fresh(e)')
      BY <1>1, <2>3, <3>1, SendFresh
    <3> QED
      BY <1>3, <2>0, <2>3, <3>2 DEF Owes
  <2>4. \/ UNCHANGED <<outbox, sendq, told, cat, missed, refused>>
        \/ \E x \in Entity :
             /\ Elems(outbox) = {x} \cup Elems(outbox')
             /\ \/ /\ link # "up" \/ sent[x] = ha[x]
                   /\ UNCHANGED <<cpu, sendq, told, cat, refused>>
                   /\ missed' = IF link = "up" /\ Waiting(x) THEN missed \cup {x} ELSE missed
                \/ /\ link = "up"
                   /\ \E m \in Msg :
                        /\ m.by = "drain" /\ m.op = "state" /\ m.first = FALSE
                        /\ m.list = <<x>> /\ m.value = ha[x]
                        /\ Send(m) /\ missed' = missed \ {x}
                        /\ refused' = refused \ {x}
    BY DrainEffect
  <2> QED
    BY <1>3, <2>1, <2>2, <2>3, <2>4
<1> QED
  BY <1>1, <1>2, <1>3, QuietKeeps DEF IInv

LEMMA DrainTooLongKeeps ==
    ASSUME FeedAssumption, IInv, Keeps, DrainTooLong
    PROVE  Keeps'
<1>1. UNCHANGED <<ha, options, loaded, unheard, link, watched, sub, todo, sendq, told>>
  BY DrainTooLongEffect
<1>2. (Relisting => Relisting') /\ (ControlPending => ControlPending')
  BY <1>1 DEF Relisting, ControlPending, Steps
<1>3. PICK x \in Entity : Elems(outbox) = {x} \cup Elems(outbox') /\ missed' = missed \cup {x}
  BY DrainTooLongEffect
<1>4. ASSUME NEW e \in Entity PROVE Owes(e) => Owes(e)'
  <2>1. (Named(e) => Named(e)') /\ (Fresh(e) => Fresh(e)')
    BY <1>1 DEF Named, Steps, Fresh, LastOf, Waiting
  <2> QED
    BY <1>3, <2>1 DEF Owes
<1> QED
  BY <1>1, <1>2, <1>4, QuietKeeps DEF IInv

\* A followed entity that moves is owed, any other has moved unnoticed.
LEMMA ChangeKeeps ==
    ASSUME FeedAssumption, IInv, Keeps, NEW x \in Entity, NEW v \in Value, StateChanges(x, v)
    PROVE  Keeps'
<1>1. /\ UNCHANGED <<options, loaded, unheard, link, watched, sub, todo, sendq, told>>
      /\ \A e \in Entity : e # x => ha'[e] = ha[e]
  BY DEF StateChanges, IInv, TypeOK, ghosts
<1>2. (Relisting => Relisting') /\ (ControlPending => ControlPending')
  BY <1>1 DEF Relisting, ControlPending, Steps
<1>3. /\ Elems(outbox) \subseteq Elems(outbox') /\ missed \subseteq missed'
      /\ x \in Elems(outbox') \/ link # "up" \/ x \in missed'
  <2>1. CASE x \in sub
    <3>1. /\ outbox \in Seq(Entity) /\ missed' = missed
          /\ outbox' = IF x \in Elems(outbox) THEN outbox ELSE Append(outbox, x)
      BY <2>1 DEF StateChanges, Owed, IInv, TypeOK
    <3>2. Elems(outbox') = Elems(outbox) \cup {x}
      BY <3>1, AppendElems
    <3> QED
      BY <3>1, <3>2
  <2>2. CASE x \notin sub
    BY <2>2 DEF StateChanges
  <2> QED
    BY <2>1, <2>2
<1>4. ASSUME link = "up", NEW e \in Entity, Owes(e) PROVE Owes(e)'
  <2>1. CASE e = x
    BY <1>3, <1>4, <2>1 DEF Owes
  <2>2. CASE e # x
    <3>1. Fresh(e) => Fresh(e)'
      BY <1>1, <2>2 DEF Fresh, LastOf, Waiting
    <3>2. Named(e) => Named(e)'
      BY <1>1 DEF Named, Steps
    <3> QED
      BY <1>3, <1>4, <3>1, <3>2 DEF Owes
  <2> QED
    BY <2>1, <2>2
<1> QED
  BY <1>1, <1>2, <1>4, QuietKeeps DEF IInv

LEMMA StepKeeps ==
    FeedAssumption /\ IInv /\ Unmade /\ Remembers /\ Keeps /\ [Next]_vars => Keeps'
<1> SUFFICES ASSUME FeedAssumption, IInv, Unmade, Remembers, Keeps, [Next]_vars PROVE Keeps'
  OBVIOUS
<1>1. CASE \E t \in Pusher : \/ WatchStep(t) \/ PlanStep(t) \/ SendStep(t)
                             \/ SendTooLong(t)
  BY <1>1, WatchKeeps, PlanKeeps, SendKeeps, TooLongKeeps
<1>2. CASE DrainTurn \/ DrainTooLong
  BY <1>2, DrainKeeps, DrainTooLongKeeps
<1>3. CASE \E e \in Entity, v \in Value : StateChanges(e, v)
  BY <1>3, ChangeKeeps
<1>4. CASE SendDone \/ (\E t \in Pusher : Returns(t)) \/ StopsListening \/ UNCHANGED vars
  <2>1. UNCHANGED <<ha, options, loaded, unheard, link, watched, sub, todo, outbox, missed>>
    BY <1>4 DEF SendDone, Returns, StopsListening, vars, stillVars, feedVars, ghosts
  <2>2. (Relisting => Relisting') /\ (ControlPending => ControlPending')
    BY <2>1 DEF Relisting, ControlPending, Steps
  <2>3. ASSUME NEW e \in Entity PROVE Owes(e) => Owes(e)'
    <3>1. Named(e) => Named(e)'
      BY <2>1 DEF Named, Steps
    <3>2. Fresh(e) => Fresh(e)'
      <4>1. CASE SendDone
        BY <4>1, DoneFresh
      <4>2. CASE (\E t \in Pusher : Returns(t)) \/ StopsListening \/ UNCHANGED vars
        <5>1. UNCHANGED <<ha, sendq, told>>
          BY <4>2 DEF Returns, StopsListening, vars, stillVars
        <5> QED
          BY <5>1 DEF Fresh, LastOf, Waiting
      <4> QED
        BY <1>4, <4>1, <4>2
    <3> QED
      BY <2>1, <3>1, <3>2 DEF Owes
  <2> QED
    BY <2>1, <2>2, <2>3, QuietKeeps DEF IInv
<1>5. CASE \E t \in Task : SendRaised(t)
  <2>1. link # "up" /\ UNCHANGED <<options, loaded, unheard, link, watched, sub>>
    BY <1>5 DEF SendRaised, IInv, PerLink, ghosts
  <2>2. Kept({"watch", "rewatch"}) /\ Kept({"pushControl"})
    BY <1>5, RaisedKept DEF Kept
  <2>3. (Relisting' <=> Relisting) /\ (ControlPending' <=> ControlPending)
    BY <2>2, SameRelisting, SameControl
  <2> QED
    BY <2>1, <2>3, QuietKeeps DEF IInv
<1>6. CASE Connects
  <2>1. /\ link = "down"
        /\ UNCHANGED <<options, loaded, unheard, watched, sub, todo, sendq, told>>
    BY <1>6 DEF Connects, ghosts
  <2>2. sendq = <<>> /\ Len(sendq) = 0 /\ \A e \in Entity : told[e] = None
    BY <2>1 DEF IInv, PerLink, TypeOK
  <2>3. ASSUME NEW e \in Entity PROVE Owes(e)'
    <3>1. Fresh(e)'
      BY <2>1, <2>2 DEF Fresh
    <3> QED
      BY <3>1 DEF Owes
  <2>4. Relisting => Relisting'
    BY <2>1 DEF Relisting, Steps
  <2>5. /\ Elems(watched') \subseteq Entity /\ Elems(Controllable') \subseteq Entity
        /\ watched' = watched /\ Controllable' = Controllable /\ sub' = sub
    BY <2>1, ListedEntities DEF Controllable, IInv
  <2> QED
    BY <2>1, <2>3, <2>4, <2>5 DEF Keeps
<1>7. CASE SnapshotArrives \/ \E ids \in WatchLists : WatchArrives(ids)
  <2>1. /\ Idle("link") /\ "link" \in Pusher
        /\ \E q : todo' = [todo EXCEPT !["link"] = q]
        /\ UNCHANGED <<ha, options, loaded, unheard, link, watched, sub, outbox, missed,
                       sendq, told>>
    BY <1>7 DEF SnapshotArrives, WatchArrives, LinkReads, Pusher, ghosts
  <2>2. Steps("link") = {} /\ \A r \in Pusher : r # "link" => todo'[r] = todo[r]
    BY <2>1, StartSteps
  <2>3. (Relisting => Relisting') /\ (ControlPending => ControlPending')
    BY <2>2 DEF Relisting, ControlPending, Steps
  <2>4. ASSUME NEW e \in Entity PROVE Owes(e) => Owes(e)'
    <3>1. Named(e) => Named(e)'
      BY <2>2 DEF Named, Steps
    <3> QED
      BY <2>1, <3>1 DEF Owes, Fresh, LastOf, Waiting
  <2> QED
    BY <2>1, <2>3, <2>4, QuietKeeps DEF IInv
<1>8. CASE \E o \in Options, t \in OptTask : OptionsChange(o, t)
  <2>1. PICK o \in Options, t \in OptTask : OptionsChange(o, t)
    BY <1>8
  <2>2. /\ Idle(t) /\ t \in Pusher /\ todo' = [todo EXCEPT ![t] = EntryUpdated]
        /\ UNCHANGED <<ha, link, watched, sub, outbox, missed, sendq, told>>
    BY <2>1 DEF OptionsChange, Pusher
  <2>3. /\ Steps(t) = {} /\ todo'[t] = EntryUpdated
        /\ \A r \in Pusher : r # t => todo'[r] = todo[r]
    BY <2>2, StartSteps
  <2>4. /\ Do("rewatch", <<>>) \in Elems(todo'[t]) /\ Do("pushControl", <<>>) \in Elems(todo'[t])
        /\ Do("rewatch", <<>>).op = "rewatch" /\ Do("pushControl", <<>>).op = "pushControl"
    BY <2>3, OpeningLemma DEF EntryUpdated, Do
  <2>5. Relisting' /\ ControlPending'
    BY <2>2, <2>4 DEF Relisting, ControlPending, Steps
  <2>6. ASSUME NEW e \in Entity PROVE Owes(e) => Owes(e)'
    <3>1. Named(e) => Named(e)'
      BY <2>3 DEF Named, Steps
    <3> QED
      BY <2>2, <3>1 DEF Owes, Fresh, LastOf, Waiting
  <2>7. Elems(watched) \subseteq Entity
    BY ListedEntities DEF IInv
  <2> QED
    BY <2>2, <2>5, <2>6, <2>7 DEF Keeps
<1>9. CASE LinkFails
  <2>1. link' # "up" /\ UNCHANGED <<options, loaded, unheard, watched, sub, todo>>
    BY <1>9 DEF LinkFails
  <2>2. Relisting => Relisting'
    BY <2>1 DEF Relisting, Steps
  <2>3. Controllable' = Controllable
    BY <2>1 DEF Controllable
  <2> QED
    BY <2>1, <2>2, <2>3 DEF Keeps
<1>10. CASE SessionEnds \/ Unload
  <2>1. link' # "up" /\ sub' = {}
    BY <1>10 DEF SessionEnds, Unload, DropWatch
  <2> QED
    BY <2>1 DEF Keeps
<1>11. CASE \E o \in Options : OptionsChangeUnheard(o)
  <2>1. /\ ~listening /\ unheard' = (link # "down")
        /\ UNCHANGED <<ha, loaded, link, watched, sub, outbox, missed, sendq, told, todo>>
    BY <1>11 DEF OptionsChangeUnheard
  <2>2. ASSUME NEW e \in Entity PROVE Owes(e) => Owes(e)'
    <3>1. (Named(e) => Named(e)') /\ (Fresh(e) => Fresh(e)')
      BY <2>1 DEF Named, Steps, Fresh, LastOf, Waiting
    <3> QED
      BY <2>1, <3>1 DEF Owes
  <2>3. Elems(watched) \subseteq Entity
    BY ListedEntities DEF IInv
  <2>4. link = "up" => \A e \in Elems(watched') : Owes(e)'
    BY <2>1, <2>2, <2>3 DEF Keeps
  <2>5. loaded' /\ ~unheard' => sub' = {}
    BY <2>1 DEF Unmade
  <2> QED
    BY <2>1, <2>4, <2>5 DEF Keeps
<1> QED
  BY <1>1, <1>2, <1>3, <1>4, <1>5, <1>6, <1>7, <1>8, <1>9, <1>10, <1>11 DEF Next

\* A message too long leaves the panel with an older one.
LEMMA StepRefused ==
    FeedAssumption /\ IInv /\ refused \subseteq missed /\ [Next]_vars =>
      refused' \subseteq missed'
<1> SUFFICES ASSUME FeedAssumption, IInv, refused \subseteq missed, [Next]_vars
             PROVE  refused' \subseteq missed'
  OBVIOUS
<1>1. CASE \E t \in Pusher : SendStep(t)
  <2>1. PICK t \in Pusher : SendStep(t)
    BY <1>1
  <2>2. \/ missed' = missed /\ refused' = refused
        \/ \E e \in Entity : missed' = missed \ {e} /\ refused' = refused \ {e}
    BY <2>1, SendEffect
  <2> QED
    BY <2>2
<1>2. CASE (\E t \in Pusher : SendTooLong(t)) \/ DrainTooLong
  BY <1>2 DEF SendTooLong, DrainTooLong, LeftOut
<1>3. CASE DrainTurn
  BY <1>3 DEF DrainTurn, GoesOut
<1>4. CASE LinkFails \/ Unload
  BY <1>4 DEF LinkFails, Unload, Forgotten
<1>5. CASE \E e \in Entity, v \in Value : StateChanges(e, v)
  BY <1>5 DEF StateChanges, ghosts
<1>6. CASE \/ SendDone \/ (\E t \in Task : SendRaised(t)) \/ Connects \/ SnapshotArrives
           \/ SessionEnds \/ StopsListening \/ UNCHANGED vars
           \/ \E t \in Pusher : WatchStep(t) \/ PlanStep(t) \/ Returns(t)
           \/ \E ids \in WatchLists : WatchArrives(ids)
           \/ \E o \in Options, t \in OptTask : OptionsChange(o, t)
           \/ \E o \in Options : OptionsChangeUnheard(o)
  <2>1. missed' = missed /\ refused' = refused
    BY <1>6, Zenon DEF SendDone, SendRaised, Connects, SnapshotArrives, SessionEnds,
       StopsListening, vars, WatchStep, PlanStep, Returns, WatchArrives, OptionsChange,
       OptionsChangeUnheard, ghosts
  <2> QED
    BY <2>1
<1> QED
  BY <1>1, <1>2, <1>3, <1>4, <1>5, <1>6 DEF Next

\* With nothing under way and no options unheard the panel knows the state of
\* everything it follows as it is, save what moved unnoticed and what was too
\* long for a frame (_async_drain, _async_push_states).
THEOREM ToldCurrent == Spec => []ToldIsCurrent
<1> DEFINE KInv == /\ IInv /\ Unmade /\ Remembers /\ Filters /\ Restates /\ Keeps
                   /\ refused \subseteq missed
<1>1. Init => KInv
  BY FeedAssumption, InitInd, InitFilters DEF Init, Unmade, Remembers, Restates, Keeps
<1>2. KInv /\ [Next]_vars => KInv'
  BY FeedAssumption, StepInd, StepUnmade, StepRemembers, StepFilters, StepRestates, StepKeeps,
     StepRefused
<1>3. KInv => ToldIsCurrent
  <2> SUFFICES ASSUME KInv, Settled, ~unheard, NEW e \in sub \ missed
               PROVE  told[e] = ha[e]
    BY DEF ToldIsCurrent
  <2>1. /\ link = "up" /\ phase = "listen" /\ sendq = <<>>
        /\ \A t \in Pusher : Steps(t) = {}
        /\ ~Rewatching /\ ~ControlPending
    BY FeedAssumption, SettledLemma
  <2>2. ~Relisting /\ ~Waiting(e) /\ ~Named(e)
    BY <2>1 DEF Relisting, Waiting, Named
  <2>3. e \in Elems(watched) \cup Elems(Controllable)
    <3>1. loaded
      BY <2>1 DEF Unmade
    <3> QED
      BY <2>2, <3>1 DEF Keeps
  <2>4. Owes(e) /\ Due(e)
    BY <2>1, <2>3 DEF Keeps, Restates
  <2>5. Elems(outbox) = {}
    <3>1. ~draining
      <4>1. "drain" \notin Senders /\ "drain" \notin failed /\ cpu # "drain"
        BY DEF Settled, Idle, Senders, Task
      <4> QED
        BY <4>1 DEF IInv, Queued
    <3>2. outbox = <<>>
      BY <3>1 DEF IInv, OutboxOnce
    <3> QED
      BY <3>2 DEF Elems
  <2> QED
    BY <2>2, <2>4, <2>5 DEF Owes, Due, Fresh
<1> HIDE DEF KInv
<1> QED
  BY <1>1, <1>2, <1>3, PTL DEF Spec

------------------------------------------------------------------------------
(* The catalog holds everything the options list                           *)

\* A page that joins the queue waits in it, or is heard at once if the queue
\* was empty; unless it is a page 0 the others stay where they are.
LEMMA SendPages ==
    ASSUME FeedAssumption, IInv, NEW t \in Task, cpu = t, NEW m \in Msg, m.by = t,
           m.op = "state" => Len(m.list) = 1 /\ m.value \in Value,
           Send(m), NEW x
    PROVE  /\ m.first = FALSE => (PageWaits(x) \/ PageHeard(x) => PageWaits(x)' \/ PageHeard(x)')
           /\ m.op = "page" /\ x \in Elems(m.list) => PageWaits(x)' \/ PageHeard(x)'
<1>1. /\ sendq' \in Seq(Msg) /\ Len(sendq) \in Nat
      /\ Len(sendq') = Len(sendq) + 1 /\ sendq'[Len(sendq) + 1] = m
      /\ \A i \in 1..Len(sendq) : sendq'[i] = sendq[i]
      /\ IF sendq = <<>> THEN Hears(m) ELSE UNCHANGED <<told, cat>>
      /\ sendq = <<>> <=> Len(sendq) = 0
  BY SendLemma DEF IInv, TypeOK
<1>2. CASE sendq = <<>>
  <2>1. \A j \in 2..Len(sendq') : FALSE
    BY <1>1, <1>2
  <2>2. \A i \in 2..Len(sendq) : FALSE
    BY <1>1, <1>2
  <2>3. cat' = IF m.op = "state" THEN cat
               ELSE IF m.first THEN Elems(m.list) ELSE cat \cup Elems(m.list)
    BY <1>1, <1>2, HearsLemma DEF IInv
  <2>4. m.first = FALSE => cat \subseteq cat'
    BY <2>3
  <2>5. m.op = "page" => Elems(m.list) \subseteq cat'
    <3>1. m.op = "page" => cat' = Elems(m.list) \/ cat' = cat \cup Elems(m.list)
      BY <2>3
    <3> QED
      BY <3>1
  <2>6. x \in cat' => PageHeard(x)'
    BY <2>1 DEF PageHeard
  <2>7. PageWaits(x) \/ PageHeard(x) => x \in cat
    BY <2>2 DEF PageWaits, PageHeard
  <2> QED
    BY <2>4, <2>5, <2>6, <2>7
<1>3. CASE sendq # <<>>
  <2> DEFINE n == Len(sendq)
  <2>1. /\ n \in Nat \ {0} /\ n + 1 \in 2..Len(sendq') /\ cat' = cat
        /\ \A i \in 2..n : i \in 2..Len(sendq') /\ sendq'[i] = sendq[i]
        /\ \A i \in 2..Len(sendq') : i \in 2..n \/ i = n + 1
    BY <1>1, <1>3
  <2>2. sendq'[n + 1] = m
    BY <1>1
  <2> HIDE DEF n
  <2>3. m.op = "page" /\ x \in Elems(m.list) => PageWaits(x)'
    <3>1. \A j \in 2..Len(sendq') : ~(j > n + 1)
      BY <2>1
    <3> QED
      BY <2>1, <2>2, <3>1 DEF PageWaits
  <2>4. ASSUME m.first = FALSE, PageWaits(x) PROVE PageWaits(x)'
    <3>1. PICK i \in 2..n : /\ sendq[i].op = "page" /\ x \in Elems(sendq[i].list)
                            /\ \A j \in 2..n : j > i => ~sendq[j].first
      BY <2>4 DEF PageWaits, n
    <3>2. ASSUME NEW j \in 2..Len(sendq'), j > i PROVE ~sendq'[j].first
      <4>1. CASE j \in 2..n
        <5>1. ~sendq[j].first
          BY <3>1, <3>2, <4>1
        <5>2. sendq'[j] = sendq[j]
          BY <2>1, <4>1
        <5> QED
          BY <5>1, <5>2, Zenon
      <4>2. CASE j = n + 1
        <5>1. sendq'[j].first = FALSE
          BY <2>2, <2>4, <4>2, Zenon
        <5> QED
          BY <5>1, Zenon
      <4> QED
        BY <2>1, <4>1, <4>2
    <3>3. i \in 2..Len(sendq') /\ sendq'[i].op = "page" /\ x \in Elems(sendq'[i].list)
      BY <2>1, <3>1
    <3> QED
      BY <3>2, <3>3, Zenon DEF PageWaits
  <2>5. ASSUME m.first = FALSE, PageHeard(x) PROVE PageHeard(x)'
    <3>1. x \in cat /\ \A j \in 2..n : ~sendq[j].first
      BY <2>5 DEF PageHeard, n
    <3>2. ASSUME NEW j \in 2..Len(sendq') PROVE ~sendq'[j].first
      <4>1. CASE j \in 2..n
        <5>1. ~sendq[j].first
          BY <3>1, <4>1
        <5>2. sendq'[j] = sendq[j]
          BY <2>1, <4>1
        <5> QED
          BY <5>1, <5>2, Zenon
      <4>2. CASE j = n + 1
        <5>1. sendq'[j].first = FALSE
          BY <2>2, <2>5, <4>2, Zenon
        <5> QED
          BY <5>1, Zenon
      <4> QED
        BY <2>1, <4>1, <4>2
    <3> QED
      BY <2>1, <3>1, <3>2, Zenon DEF PageHeard
  <2> QED
    BY <2>3, <2>4, <2>5
<1> QED
  BY <1>2, <1>3

\* The page next in the queue is heard, the others come nearer.
LEMMA DonePages ==
    ASSUME FeedAssumption, IInv, SendDone, NEW x, PageWaits(x) \/ PageHeard(x)
    PROVE  PageWaits(x)' \/ PageHeard(x)'
<1>1. /\ sendq # <<>> /\ Len(sendq) \in Nat \ {0} /\ sendq \in Seq(Msg)
      /\ sendq' \in Seq(Msg) /\ Len(sendq') = Len(sendq) - 1
      /\ \A i \in 1..Len(sendq') : sendq'[i] = sendq[i + 1]
      /\ IF sendq' # <<>> THEN Hears(Head(sendq')) ELSE UNCHANGED <<told, cat>>
  BY DoneEffect DEF IInv, TypeOK
<1>2. ASSUME NEW j \in 2..Len(sendq')
      PROVE  j + 1 \in 2..Len(sendq) /\ j + 1 > 2 /\ sendq'[j] = sendq[j + 1]
  BY <1>1
<1>3. CASE sendq' = <<>>
  <2>0. Len(sendq') = 0 /\ Len(sendq) = 1 /\ cat' = cat
    BY <1>1, <1>3
  <2>1. (\A j \in 2..Len(sendq) : FALSE) /\ (\A j \in 2..Len(sendq') : FALSE) /\ cat' = cat
    BY <2>0
  <2> QED
    BY <2>1 DEF PageWaits, PageHeard
<1>4. CASE sendq' # <<>>
  <2> DEFINE h == Head(sendq')
  <2>1. h \in Msg /\ Hears(h) /\ h = sendq[2] /\ 2 \in 2..Len(sendq)
    BY <1>1, <1>4
  <2> HIDE DEF h
  <2>2. cat' = IF h.op = "state" THEN cat
               ELSE IF h.first THEN Elems(h.list) ELSE cat \cup Elems(h.list)
    BY <2>1, HearsLemma DEF IInv
  <2>3. CASE PageHeard(x)
    <3>1. ~h.first
      BY <2>1, <2>3, Zenon DEF PageHeard
    <3>2. x \in cat'
      BY <2>2, <2>3, <3>1 DEF PageHeard
    <3>3. ASSUME NEW j \in 2..Len(sendq') PROVE ~sendq'[j].first
      <4>1. ~sendq[j + 1].first
        BY <1>2, <2>3, Zenon DEF PageHeard
      <4> QED
        BY <1>2, <4>1, Zenon
    <3> QED
      BY <3>2, <3>3, Zenon DEF PageHeard
  <2>4. CASE PageWaits(x)
    <3>1. PICK i \in 2..Len(sendq) :
            /\ sendq[i].op = "page" /\ x \in Elems(sendq[i].list)
            /\ \A j \in 2..Len(sendq) : j > i => ~sendq[j].first
      BY <2>4 DEF PageWaits
    <3>2. CASE i = 2
      <4>1. x \in cat'
        <5>1. h.op = "page" /\ x \in Elems(h.list)
          BY <2>1, <3>1, <3>2
        <5>2. cat' = Elems(h.list) \/ cat' = cat \cup Elems(h.list)
          BY <2>2, <5>1
        <5> QED
          BY <5>1, <5>2
      <4>2. ASSUME NEW j \in 2..Len(sendq') PROVE ~sendq'[j].first
        <5>1. ~sendq[j + 1].first
          BY <1>2, <3>1, <3>2
        <5> QED
          BY <1>2, <5>1, Zenon
      <4> QED
        BY <4>1, <4>2, Zenon DEF PageHeard
    <3>3. CASE i # 2
      <4>1. i - 1 \in 2..Len(sendq') /\ sendq'[i - 1] = sendq[i]
        BY <1>1, <3>3
      <4>2. ASSUME NEW j \in 2..Len(sendq'), j > i - 1 PROVE ~sendq'[j].first
        <5>1. j + 1 > i
          BY <4>2
        <5>2. ~sendq[j + 1].first
          BY <1>2, <3>1, <5>1
        <5> QED
          BY <1>2, <5>2, Zenon
      <4>3. sendq'[i - 1].op = "page" /\ x \in Elems(sendq'[i - 1].list)
        BY <3>1, <4>1
      <4> QED
        BY <4>1, <4>2, <4>3, Zenon DEF PageWaits
    <3> QED
      BY <3>2, <3>3
  <2> QED
    BY <2>3, <2>4
<1> QED
  BY <1>3, <1>4

LEMMA FirstIsPage ==
    ASSUME NEW q \in Seq(Step), WellFormed(q), NEW s \in Elems(q), s.first
    PROVE  s.op = "page" /\ Opens(s)
<1>1. PICK i \in 1..Len(q) : s = q[i]
  BY DEF Elems
<1> QED
  BY <1>1 DEF WellFormed, Opens

\* While a task has page 0 to send it has the whole catalog to send.
Led == \A t \in Pusher : (\E s \in Steps(t) : s.first) =>
           \A x \in Elems(Catalogued) : \E s \in Steps(t) : s.op = "page" /\ x \in Elems(s.list)

\* It is so of each task whose pages stay, and of each that has no page 0.
LEMMA KeptLed ==
    ASSUME FeedAssumption, IInv, Lists, UNCHANGED options, todo' \in [Pusher -> Seq(Step)],
           \A t \in Pusher :
             \/ \A s \in Elems(todo'[t]) : ~Opens(s)
             \/ /\ WellFormed(todo'[t])
                /\ \A s \in Step : s.op = "page" => (s \in Elems(todo'[t]) <=> s \in Elems(todo[t]))
    PROVE  Led'
<1>1. Catalogued' = Catalogued
  BY DEF Catalogued, Allowed, Controllable
<1>2. ASSUME NEW t \in Pusher, NEW p \in Elems(todo'[t]), p.first, NEW x \in Elems(Catalogued)
      PROVE  \E s \in Elems(todo'[t]) : s.op = "page" /\ x \in Elems(s.list)
  <2>1. todo'[t] \in Seq(Step) /\ todo[t] \in Seq(Step)
    BY DEF IInv, TypeOK
  <2>2. Opens(p)
    BY <1>2 DEF Opens
  <2>3. /\ WellFormed(todo'[t])
        /\ \A s \in Step : s.op = "page" => (s \in Elems(todo'[t]) <=> s \in Elems(todo[t]))
    BY <1>2, <2>2
  <2>4. p.op = "page"
    BY <1>2, <2>1, <2>3, FirstIsPage
  <2>5. Elems(todo'[t]) \subseteq Step /\ Elems(todo[t]) \subseteq Step
    BY <2>1 DEF Elems
  <2>6. p \in Elems(todo[t])
    BY <2>3, <2>4, <2>5
  <2>7. PICK s \in Elems(todo[t]) : s.op = "page" /\ x \in Elems(s.list)
    BY <1>2, <2>6 DEF Lists, Steps
  <2> QED
    BY <2>3, <2>5, <2>7
<1> QED
  BY <1>1, <1>2 DEF Led, Steps

\* Steps that leave the options and every catalog where it is.
LEMMA QuietLists ==
    ASSUME FeedAssumption, IInv, IInv', Lists, Kept({"catalog", "page"}),
           \A x \in Elems(Catalogued) : link = "up" /\ (PageWaits(x) \/ PageHeard(x))
                                          => PageWaits(x)' \/ PageHeard(x)',
           UNCHANGED <<options, link, phase, unheard, listing>>
    PROVE  Lists'
<1>1. Catalogued' = Catalogued
  BY DEF Catalogued, Allowed, Controllable
<1>2. Led'
  <2>1. todo' \in [Pusher -> Seq(Step)] /\ \A t \in Pusher : WellFormed(todo'[t])
    BY DEF IInv, TypeOK, Tasks
  <2> QED
    BY <2>1, KeptLed DEF Kept
<1>3. CatalogPending => CatalogPending'
  BY DEF CatalogPending, Kept, Steps
<1>4. ASSUME NEW x \in Elems(Catalogued), PageToCome(x) PROVE PageToCome(x)'
  <2>1. PICK t \in Pusher :
          Current(t) /\ \E s \in Elems(todo[t]) : s.op = "page" /\ x \in Elems(s.list)
    BY <1>4 DEF PageToCome, Steps
  <2>2. \A s \in Elems(todo[t]) : s.op = "page" => s \in Elems(todo'[t])
    BY DEF Kept
  <2>3. Current(t)'
    <3>1. CASE t = listing
      BY <3>1 DEF Current
    <3>2. CASE t # listing
      <4>1. PICK s \in Elems(todo[t]) : s.first
        BY <2>1, <3>2 DEF Current, Steps
      <4>2. todo[t] \in Seq(Step) /\ WellFormed(todo[t])
        BY DEF IInv, TypeOK, Tasks
      <4>3. s.op = "page"
        BY <4>1, <4>2, FirstIsPage
      <4> QED
        BY <2>2, <4>1, <4>3 DEF Current, Steps
    <3> QED
      BY <3>1, <3>2
  <2> QED
    BY <2>1, <2>2, <2>3 DEF PageToCome, Steps
<1> QED
  BY <1>1, <1>2, <1>3, <1>4 DEF Lists, Led

LEMMA PlanLists ==
    ASSUME FeedAssumption, IInv, IInv', Lists, NEW t \in Pusher, PlanStep(t)
    PROVE  Lists'
<1>1. /\ UNCHANGED <<options, link, phase, unheard, listing, sendq, cat>>
      /\ \A r \in Pusher : r # t => todo'[r] = todo[r]
      /\ todo' \in [Pusher -> Seq(Step)] /\ WellFormed(todo'[t])
      /\ Elems(todo[t]) = {Head(todo[t])} \cup Elems(Rest(t))
      /\ \A s \in Elems(Rest(t)) : ~Opens(s)
  BY PlanEffect DEF stillVars
<1>2. \A x : (PageWaits(x) => PageWaits(x)') /\ (PageHeard(x) => PageHeard(x)')
  BY <1>1 DEF PageWaits, PageHeard
<1>3. CASE Head(todo[t]).op # "catalog"
  BY <1>1, <1>2, <1>3, PlanKept, QuietLists
<1>4. CASE Head(todo[t]).op = "catalog"
  <2>1. PICK new \in SUBSET Step :
          /\ Elems(todo'[t]) = new \cup Elems(Rest(t))
          /\ \A s \in new : s.op = "page"
          /\ link = "down" => new = {}
          /\ link # "down" => /\ \E s \in new : s.first
                              /\ \A x \in Elems(Catalogued) : \E s \in new : x \in Elems(s.list)
    BY <1>4, PlanEffect
  <2>2. Catalogued' = Catalogued
    BY <1>1 DEF Catalogued, Allowed, Controllable
  <2>3. ASSUME NEW r \in Pusher, NEW p \in Elems(todo'[r]), p.first, NEW x \in Elems(Catalogued)
        PROVE  \E s \in Elems(todo'[r]) : s.op = "page" /\ x \in Elems(s.list)
    <3>1. CASE r # t
      BY <1>1, <2>3, <3>1 DEF Lists, Steps
    <3>2. CASE r = t
      <4>1. Opens(p)
        BY <2>3 DEF Opens
      <4>2. link # "down"
        BY <1>1, <2>1, <2>3, <3>2, <4>1
      <4> QED
        BY <2>1, <2>3, <3>2, <4>2
    <3> QED
      BY <3>1, <3>2
  <2>4. link = "up" => \A x \in Elems(Catalogued) : PageToCome(x)'
    <3>1. link = "up" => \A x \in Elems(Catalogued) :
                           \E s \in Elems(todo'[t]) : s.op = "page" /\ x \in Elems(s.list)
      BY <2>1
    <3>2. link = "up" => Current(t)'
      BY <2>1 DEF Current, Steps
    <3> QED
      BY <3>1, <3>2 DEF PageToCome, Steps
  <2> QED
    BY <1>1, <2>2, <2>3, <2>4 DEF Lists, Steps
<1> QED
  BY <1>3, <1>4

LEMMA SendLists ==
    ASSUME FeedAssumption, IInv, IInv', Lists, NEW t \in Pusher, SendStep(t)
    PROVE  Lists'
<1>1. /\ UNCHANGED <<options, link, phase, unheard>> /\ cpu = t /\ t \in Task
      /\ \A r \in Pusher : r # t => todo'[r] = todo[r]
      /\ todo' \in [Pusher -> Seq(Step)]
      /\ Elems(todo[t]) = {Head(todo[t])} \cup Elems(Rest(t))
      /\ \A s \in Elems(todo'[t]) : ~Opens(s)
  BY SendEffect DEF stillVars, Task
<1>2. Led'
  <2>1. \A r \in Pusher : WellFormed(todo'[r])
    BY DEF IInv, Tasks
  <2> QED
    BY <1>1, <2>1, KeptLed
<1>3. Catalogued' = Catalogued
  BY <1>1 DEF Catalogued, Allowed, Controllable
<1>4. CatalogPending => CatalogPending'
  BY SendKept DEF Kept, CatalogPending, Steps
<1>5. ASSUME link = "up", NEW x \in Elems(Catalogued), listing' # "cut",
             listing # "cut" => PageToCome(x) \/ PageWaits(x) \/ PageHeard(x)
      PROVE  PageToCome(x)' \/ PageWaits(x)' \/ PageHeard(x)'
  <2>1. Elems(todo'[t]) = Elems(Rest(t))
    BY <1>5, SendEffect
  <2>2. PICK m \in Msg :
          /\ m.by = t /\ Send(m)
          /\ \/ /\ Head(todo[t]).op = "state" /\ m.op = "state" /\ m.first = FALSE
                /\ listing' = listing
                /\ \E y \in Entity :
                     /\ Head(todo[t]).list = <<y>> /\ m.list = <<y>>
                     /\ m.value = ha[y] /\ missed' = missed \ {y}
                     /\ refused' = refused \ {y}
             \/ /\ Head(todo[t]).op = "page" /\ m.op = "page"
                /\ m.first = Head(todo[t]).first /\ m.list = Head(todo[t]).list
                /\ missed' = missed /\ refused' = refused
                /\ listing' = Begun(t)
    BY <1>5, SendEffect
  <2>3. m.op = "state" => Len(m.list) = 1 /\ m.value \in Value
    <3>1. m.op = "state" => \E y \in Entity : m.list = <<y>> /\ m.value = ha[y]
      BY <2>2
    <3>2. \A y \in Entity : ha[y] \in Value /\ Len(<<y>>) = 1
      BY DEF IInv, TypeOK
    <3> QED
      BY <3>1, <3>2
  <2>4. /\ m.first = FALSE => (PageWaits(x) \/ PageHeard(x) => PageWaits(x)' \/ PageHeard(x)')
        /\ m.op = "page" /\ x \in Elems(m.list) => PageWaits(x)' \/ PageHeard(x)'
    BY <1>1, <2>2, <2>3, SendPages
  <2>5. ASSUME NEW s \in Elems(todo[t]), s.op = "page", x \in Elems(s.list),
               Head(todo[t]).op = "page",
               Head(todo[t]).first \/ listing = t
        PROVE  PageToCome(x)' \/ PageWaits(x)' \/ PageHeard(x)'
    <3>1. CASE s = Head(todo[t])
      BY <2>2, <2>4, <2>5, <3>1
    <3>2. CASE s \in Elems(Rest(t))
      <4>1. listing' = t
        BY <2>2, <2>5, <3>2 DEF Begun
      <4> QED
        BY <2>1, <2>5, <3>2, <4>1 DEF PageToCome, Current, Steps
    <3> QED
      BY <1>1, <3>1, <3>2
  <2>6. CASE m.first
    <3>1. Head(todo[t]).first /\ Head(todo[t]).op = "page"
      BY <2>2, <2>6
    <3>2. Head(todo[t]) \in Steps(t)
      BY <1>1 DEF Steps
    <3>3. PICK s \in Steps(t) : s.op = "page" /\ x \in Elems(s.list)
      BY <3>1, <3>2 DEF Lists
    <3> QED
      BY <2>5, <3>1, <3>3 DEF Steps
  <2>7. CASE m.first = FALSE
    <3>1. Head(todo[t]).op = "page" => ~Head(todo[t]).first
      BY <2>2, <2>7
    <3>2. listing # "cut"
      <4>1. t # "cut"
        BY DEF FeedAssumption, Pusher
      <4>2. listing = "cut" => listing' = listing
        BY <2>2, <3>1, <4>1 DEF Begun
      <4> QED
        BY <1>5, <4>2
    <3>3. CASE PageToCome(x)
      <4>1. PICK r \in Pusher :
              Current(r) /\ \E s \in Elems(todo[r]) : s.op = "page" /\ x \in Elems(s.list)
        BY <3>3 DEF PageToCome, Steps
      <4>2. PICK s \in Elems(todo[r]) : s.op = "page" /\ x \in Elems(s.list)
        BY <4>1
      <4>3. r = listing
        <5>1. ASSUME NEW f \in Elems(todo[r]), f.first PROVE FALSE
          <6>1. Opens(f)
            BY <5>1 DEF Opens
          <6>2. r = t
            BY <1>1, <5>1, <6>1 DEF IInv, Tasks, Steps
          <6>3. f = Head(todo[t])
            <7>1. \A q \in Elems(Rest(t)) : ~Opens(q)
              BY <1>1, <2>1
            <7> QED
              BY <1>1, <5>1, <6>1, <6>2, <7>1
          <6>4. f.op = "page"
            <7>1. todo[r] \in Seq(Step) /\ WellFormed(todo[r])
              BY DEF IInv, TypeOK, Tasks
            <7> QED
              BY <5>1, <7>1, FirstIsPage
          <6> QED
            BY <3>1, <5>1, <6>3, <6>4
        <5> QED
          BY <4>1, <5>1 DEF Current, Steps
      <4>4. CASE r = t /\ Head(todo[t]).op = "page"
        BY <2>5, <4>2, <4>3, <4>4
      <4>5. CASE r # t \/ Head(todo[t]).op # "page"
        <5>1. listing' = listing
          BY <2>2, <3>1, <4>3, <4>5 DEF Begun
        <5>2. s \in Elems(todo'[r])
          BY <1>1, <2>1, <4>2, <4>5
        <5> QED
          BY <4>2, <4>3, <5>1, <5>2 DEF PageToCome, Current, Steps
      <4> QED
        BY <4>4, <4>5
    <3> QED
      BY <1>5, <2>4, <2>7, <3>2, <3>3
  <2>8. m.first \in BOOLEAN
    BY DEF Msg
  <2> QED
    BY <2>6, <2>7, <2>8
<1>6. ASSUME (link = "up" /\ phase = "listen" /\ ~unheard /\ listing # "cut" /\ ~CatalogPending)'
      PROVE  \A x \in Elems(Catalogued) : PageToCome(x)' \/ PageWaits(x)' \/ PageHeard(x)'
  <2>1. link = "up" /\ phase = "listen" /\ ~unheard /\ ~CatalogPending
    BY <1>1, <1>4, <1>6 DEF stillVars
  <2>2. listing # "cut" => \A x \in Elems(Catalogued) :
                             PageToCome(x) \/ PageWaits(x) \/ PageHeard(x)
    BY <2>1 DEF Lists
  <2> QED
    BY <1>5, <1>6, <2>1, <2>2
<1> QED
  BY <1>2, <1>3, <1>6 DEF Lists, Led

\* Only the next step of a task opens anything.
LEMMA TooLongRest ==
    ASSUME FeedAssumption, IInv, NEW t \in Pusher, SendTooLong(t)
    PROVE  \A x \in Elems(Rest(t)) : ~Opens(x)
<1>1. todo[t] \in Seq(Step) /\ todo[t] # <<>> /\ WellFormed(todo[t])
  BY TooLongEffect DEF IInv, TypeOK, Tasks
<1>2. <<>> \in Seq(Step) /\ WellFormed(<<>>) /\ Elems(<<>>) = {}
  BY DEF WellFormed, Elems
<1>3. \A x \in Elems(Tail(todo[t])) : ~Opens(x)
  BY <1>1, <1>2, ThenLemma
<1> QED
  BY <1>3 DEF Rest

\* A page too long: the catalog begun last is cut short by it, or it was of an
\* older one.
LEMMA TooLongLists ==
    ASSUME FeedAssumption, IInv, IInv', Lists, NEW t \in Pusher, SendTooLong(t)
    PROVE  Lists'
<1>1. /\ UNCHANGED <<options, link, phase, unheard, sendq, cat>>
      /\ \A r \in Pusher : r # t => todo'[r] = todo[r]
      /\ todo' \in [Pusher -> Seq(Step)] /\ cpu = t
      /\ Elems(todo[t]) = {Head(todo[t])} \cup Elems(Rest(t))
      /\ \A s \in Elems(todo'[t]) : ~Opens(s)
      /\ \/ /\ Head(todo[t]).op = "state" /\ listing' = listing
            /\ Elems(todo'[t]) = Elems(Rest(t))
         \/ /\ Head(todo[t]).op = "page"
            /\ listing' = IF Head(todo[t]).first \/ listing = t THEN "cut" ELSE listing
  BY TooLongEffect DEF stillVars
<1>2. Led'
  <2>1. \A r \in Pusher : WellFormed(todo'[r])
    BY DEF IInv, Tasks
  <2> QED
    BY <1>1, <2>1, KeptLed
<1>3. Catalogued' = Catalogued
  BY <1>1 DEF Catalogued, Allowed, Controllable
<1>4. CatalogPending => CatalogPending'
  BY TooLongKept DEF Kept, CatalogPending, Steps
<1>5. \A x : (PageWaits(x) => PageWaits(x)') /\ (PageHeard(x) => PageHeard(x)')
  BY <1>1 DEF PageWaits, PageHeard
<1>6. CASE Head(todo[t]).op = "state"
  <2>1. Kept({"catalog", "page"})
    <3>1. Elems(todo'[t]) = Elems(Rest(t))
      BY <1>1, <1>6
    <3> QED
      BY <1>1, <1>6, <3>1 DEF Kept
  <2>2. listing' = listing
    BY <1>1, <1>6
  <2> QED
    BY <1>1, <1>5, <2>1, <2>2, QuietLists
<1>7. CASE Head(todo[t]).op = "page"
  <2>1. ASSUME listing' # "cut"
        PROVE  listing' = listing /\ ~Head(todo[t]).first /\ listing # t
    BY <1>1, <1>7, <2>1
  <2>2. ASSUME listing' # "cut", NEW x, PageToCome(x) PROVE PageToCome(x)'
    <3>1. PICK r \in Pusher :
            Current(r) /\ \E s \in Elems(todo[r]) : s.op = "page" /\ x \in Elems(s.list)
      BY <2>2 DEF PageToCome, Steps
    <3>2. ASSUME NEW f \in Elems(todo[r]), f.first PROVE FALSE
      <4>1. Opens(f)
        BY <3>2 DEF Opens
      <4>2. r = t
        BY <1>1, <3>2, <4>1 DEF IInv, Tasks, Steps
      <4>3. \A q \in Elems(Rest(t)) : ~Opens(q)
        BY TooLongRest
      <4> QED
        BY <1>1, <2>1, <2>2, <3>2, <4>1, <4>2, <4>3
    <3>3. r = listing /\ r # t
      BY <2>1, <2>2, <3>1, <3>2 DEF Current, Steps
    <3> QED
      BY <1>1, <2>1, <2>2, <3>1, <3>3 DEF PageToCome, Current, Steps
  <2> QED
    BY <1>1, <1>2, <1>3, <1>4, <1>5, <2>1, <2>2 DEF Lists, Led
<1> QED
  BY <1>1, <1>6, <1>7

LEMMA DrainLists ==
    ASSUME FeedAssumption, IInv, IInv', Lists, DrainTurn
    PROVE  Lists'
<1>1. /\ UNCHANGED <<options, link, phase, todo, unheard, listing>>
      /\ cpu = "drain" /\ "drain" \in Task
      /\ Kept({"catalog", "page"})
  BY DrainEffect DEF Task, Kept
<1>2. ASSUME NEW x, PageWaits(x) \/ PageHeard(x) PROVE PageWaits(x)' \/ PageHeard(x)'
  <2>1. CASE UNCHANGED <<sendq, cat>>
    BY <1>2, <2>1 DEF PageWaits, PageHeard
  <2>2. CASE \E m \in Msg : \E y \in Entity :
               /\ m.by = "drain" /\ m.first = FALSE
               /\ m.list = <<y>> /\ m.value = ha[y] /\ Send(m)
    <3>1. PICK m \in Msg : \E y \in Entity :
               /\ m.by = "drain" /\ m.first = FALSE
               /\ m.list = <<y>> /\ m.value = ha[y] /\ Send(m)
      BY <2>2
    <3>2. Len(m.list) = 1 /\ m.value \in Value
      <4>1. \A y \in Entity : ha[y] \in Value /\ Len(<<y>>) = 1
        BY DEF IInv, TypeOK
      <4> QED
        BY <3>1, <4>1
    <3>3. m.first = FALSE => (PageWaits(x) \/ PageHeard(x) => PageWaits(x)' \/ PageHeard(x)')
      BY <1>1, <3>1, <3>2, SendPages
    <3> QED
      BY <1>2, <3>1, <3>3
  <2>3. \/ UNCHANGED <<sendq, cat>>
        \/ \E m \in Msg : \E y \in Entity :
               /\ m.by = "drain" /\ m.first = FALSE
               /\ m.list = <<y>> /\ m.value = ha[y] /\ Send(m)
    BY DrainEffect
  <2> QED
    BY <2>1, <2>2, <2>3
<1> QED
  BY <1>1, <1>2, QuietLists

LEMMA StepLists ==
    FeedAssumption /\ IInv /\ Lists /\ [Next]_vars => Lists'
<1> SUFFICES ASSUME FeedAssumption, IInv, Lists, [Next]_vars PROVE Lists'
  OBVIOUS
<1>a. IInv'
  BY StepInd
<1> DEFINE typed == todo' \in [Pusher -> Seq(Step)] /\ \A t \in Pusher : WellFormed(todo'[t])
<1>b. typed
  BY <1>a DEF IInv, TypeOK, Tasks
<1>1. CASE \E t \in Pusher : PlanStep(t) \/ SendStep(t) \/ SendTooLong(t)
  BY <1>a, <1>1, PlanLists, SendLists, TooLongLists
<1>2. CASE DrainTurn
  BY <1>a, <1>2, DrainLists
<1>3. CASE SendDone
  <2>1. UNCHANGED <<options, link, phase, todo, unheard, listing>> /\ Kept({"catalog", "page"})
    BY <1>3 DEF SendDone, Kept, ghosts
  <2> QED
    BY <1>a, <1>3, <2>1, DonePages, QuietLists
<1>4. CASE \/ \E t \in Pusher : WatchStep(t) \/ Returns(t)
           \/ \E e \in Entity, v \in Value : StateChanges(e, v)
           \/ DrainTooLong \/ StopsListening \/ UNCHANGED vars
  <2>1. UNCHANGED <<options, link, phase, sendq, cat, unheard, listing>>
    BY <1>4 DEF WatchStep, Returns, StateChanges, DrainTooLong, StopsListening, vars, stillVars,
       ghosts
  <2>2. Kept({"catalog", "page"})
    <3>1. CASE \E t \in Pusher : WatchStep(t)
      BY <3>1, WatchKept DEF Kept
    <3>2. CASE \/ \E t \in Pusher : Returns(t)
               \/ \E e \in Entity, v \in Value : StateChanges(e, v)
               \/ DrainTooLong \/ StopsListening \/ UNCHANGED vars
      <4>1. UNCHANGED todo
        BY <3>2 DEF Returns, StateChanges, DrainTooLong, StopsListening, vars
      <4> QED
        BY <4>1 DEF Kept
    <3> QED
      BY <1>4, <3>1, <3>2
  <2>3. \A x : (PageWaits(x) => PageWaits(x)') /\ (PageHeard(x) => PageHeard(x)')
    BY <2>1 DEF PageWaits, PageHeard
  <2> QED
    BY <1>a, <2>1, <2>2, <2>3, QuietLists
<1>5. CASE \E t \in Task : SendRaised(t)
  <2>1. PICK t \in Task : SendRaised(t)
    BY <1>5
  <2>2. link # "up" /\ UNCHANGED <<options, link>>
    BY <2>1 DEF SendRaised, IInv, PerLink
  <2>3. todo' = IF t = "drain" THEN todo ELSE [todo EXCEPT ![t] = AfterRaise(@)]
    BY <2>1 DEF SendRaised
  <2>4. ASSUME NEW r \in Pusher
        PROVE  todo'[r] = todo[r] \/ \A s \in Elems(todo'[r]) : ~Opens(s)
    <3>1. CASE r # t \/ t = "drain"
      BY <2>3, <3>1 DEF IInv, TypeOK
    <3>2. CASE r = t /\ t # "drain"
      <4>1. /\ todo[t] \in Seq(Step) /\ WellFormed(todo[t]) /\ todo'[t] = AfterRaise(todo[t])
            /\ cpu # t
        <5>1. cpu = None /\ None \notin Task
          BY <2>1, NobodyLemma DEF SendRaised, IInv
        <5> QED
          BY <2>3, <3>2, <5>1 DEF IInv, TypeOK, Tasks
      <4>2. Elems(todo'[t]) \subseteq Elems(todo[t])
        BY <4>1, RaiseLemma
      <4> QED
        BY <3>2, <4>1, <4>2 DEF IInv, Tasks, Steps
    <3> QED
      BY <3>1, <3>2
  <2>5. Led'
    BY <1>b, <2>2, <2>4, KeptLed
  <2> QED
    BY <2>2, <2>5 DEF Lists, Led
<1>6. CASE Connects \/ LinkFails \/ SessionEnds
  <2>1. UNCHANGED <<options, todo>> /\ (link' # "up" \/ phase' # "listen")
    BY <1>6 DEF Connects, LinkFails, SessionEnds
  <2>2. Led'
    BY <1>b, <2>1, KeptLed
  <2> QED
    BY <2>1, <2>2 DEF Lists, Led
<1>7. CASE Unload
  <2>1. UNCHANGED options /\ link' # "up" /\ todo' = [todo EXCEPT !["link"] = <<>>]
    BY <1>7 DEF Unload
  <2>2. ASSUME NEW r \in Pusher PROVE todo'[r] = todo[r] \/ Elems(todo'[r]) = {}
    BY <2>1 DEF IInv, TypeOK, Elems
  <2>3. Led'
    BY <1>b, <2>1, <2>2, KeptLed
  <2> QED
    BY <2>1, <2>3 DEF Lists, Led
<1>8. CASE SnapshotArrives
  <2>1. /\ Idle("link") /\ todo' = [todo EXCEPT !["link"] = AfterConnect] /\ "link" \in Pusher
        /\ UNCHANGED options
    BY <1>8 DEF SnapshotArrives, LinkReads, Pusher
  <2>2. /\ Steps("link") = {} /\ todo'["link"] = AfterConnect
        /\ \A r \in Pusher : r # "link" => todo'[r] = todo[r]
    BY <2>1, StartSteps
  <2>3. Elems(todo'["link"]) = {Do("catalog", <<>>), Do("rewatchIfUnseen", <<>>),
                                Do("pushControl", <<>>)}
    BY <2>2, OpeningLemma DEF AfterConnect
  <2>4. \A o, l : Do(o, l).op = o
    BY DEF Do
  <2>5. \A s \in Elems(todo'["link"]) : s.op # "page"
    BY <2>3, <2>4
  <2>6. Led'
    <3>1. \A s \in Step : s.op = "page" =>
            (s \in Elems(todo'["link"]) <=> s \in Elems(todo["link"]))
      BY <2>2, <2>5 DEF Steps
    <3> QED
      BY <1>b, <2>1, <2>2, <3>1, KeptLed
  <2>7. CatalogPending'
    BY <2>1, <2>3, <2>4 DEF CatalogPending, Steps
  <2> QED
    BY <2>6, <2>7 DEF Lists, Led
<1>9. CASE \E ids \in WatchLists : WatchArrives(ids)
  <2>1. PICK ids \in WatchLists : WatchArrives(ids)
    BY <1>9
  <2>2. /\ Idle("link") /\ "link" \in Pusher
        /\ todo' = [todo EXCEPT !["link"] = <<Do("watch", ids)>>]
        /\ UNCHANGED <<options, link, phase, sendq, cat, unheard, listing>>
    BY <2>1 DEF WatchArrives, LinkReads, Pusher, ghosts
  <2>3. /\ Steps("link") = {} /\ todo'["link"] = <<Do("watch", ids)>>
        /\ \A r \in Pusher : r # "link" => todo'[r] = todo[r]
    BY <2>2, StartSteps
  <2>4. Kept({"catalog", "page"})
    <3>1. ids \in Seq(Entity)
      BY DEF FeedAssumption
    <3>2. /\ Elems(<<Do("watch", ids)>>) = {Do("watch", ids)}
          /\ Do("watch", ids).op = "watch"
      BY <3>1, DoLemma
    <3>3. \A s \in Elems(todo'["link"]) : s.op = "watch"
      BY <2>3, <3>2, Zenon
    <3> QED
      BY <2>3, <3>3 DEF Kept, Steps
  <2>5. \A x : (PageWaits(x) => PageWaits(x)') /\ (PageHeard(x) => PageHeard(x)')
    BY <2>2 DEF PageWaits, PageHeard
  <2> QED
    BY <1>a, <2>2, <2>4, <2>5, QuietLists
<1>10. CASE \E o \in Options, t \in OptTask : OptionsChange(o, t)
  <2>1. PICK o \in Options, t \in OptTask : OptionsChange(o, t)
    BY <1>10
  <2>2. /\ Idle(t) /\ t \in Pusher /\ todo' = [todo EXCEPT ![t] = EntryUpdated] /\ cpu = None
    BY <2>1 DEF OptionsChange, Pusher
  <2>3. /\ todo'[t] = EntryUpdated
        /\ \A r \in Pusher : r # t => todo'[r] = todo[r]
    BY <2>2, StartSteps
  <2>4. Elems(todo'[t]) = {Do("catalog", <<>>), Do("rewatch", <<>>), Do("pushControl", <<>>)}
    BY <2>3, OpeningLemma DEF EntryUpdated
  <2>5. \A q, l : Do(q, l).op = q /\ Do(q, l).first = FALSE
    BY DEF Do
  <2>6. ASSUME NEW r \in Pusher, NEW s \in Elems(todo'[r]) PROVE ~s.first
    <3>1. CASE r = t
      <4>1. s.first = FALSE
        BY <2>4, <2>5, <2>6, <3>1
      <4> QED
        BY <4>1, Zenon
    <3>2. CASE r # t
      <4>1. cpu # r /\ s \in Elems(todo[r])
        BY <2>2, <2>3, <2>6, <3>2, NobodyLemma DEF Task, IInv
      <4>2. ~Opens(s)
        BY <4>1 DEF IInv, Tasks, Steps
      <4> QED
        BY <4>2 DEF Opens
    <3> QED
      BY <3>1, <3>2
  <2>7. CatalogPending'
    BY <2>2, <2>4, <2>5 DEF CatalogPending, Steps
  <2> QED
    BY <2>6, <2>7 DEF Lists, Steps
<1>11. CASE \E o \in Options : OptionsChangeUnheard(o)
  <2>1. cpu = None /\ todo' = todo /\ (link' # "up" \/ unheard')
    BY <1>11 DEF OptionsChangeUnheard
  <2>2. ASSUME NEW r \in Pusher, NEW s \in Elems(todo[r]) PROVE ~s.first
    <3>1. cpu # r
      BY <2>1, NobodyLemma DEF Task, IInv
    <3>2. ~Opens(s)
      BY <2>2, <3>1 DEF IInv, Tasks, Steps
    <3> QED
      BY <3>2 DEF Opens
  <2> QED
    BY <2>1, <2>2 DEF Lists, Steps
<1> QED
  BY <1>1, <1>2, <1>3, <1>4, <1>5, <1>6, <1>7, <1>8, <1>9, <1>10, <1>11 DEF Next

\* With nothing under way the panel's catalog holds everything the options
\* list, whatever catalogs crossed on the way; unless they changed unheard or a
\* page of the last catalog was too long (_async_send_catalog).
THEOREM CatalogCovered == Spec => []CatalogCovers
<1>1. Init => IInv /\ Lists
  <2> SUFFICES ASSUME Init PROVE IInv /\ Lists
    OBVIOUS
  <2>1. \A t \in Pusher : Steps(t) = {}
    BY DEF Init, Steps, Elems
  <2>2. link = "down"
    BY DEF Init
  <2>3. Lists
    BY <2>1, <2>2 DEF Lists
  <2> QED
    BY FeedAssumption, <2>3, InitInd
<1>2. (IInv /\ Lists) /\ [Next]_vars => (IInv /\ Lists)'
  BY FeedAssumption, StepInd, StepLists
<1>3. IInv /\ Lists => CatalogCovers
  <2> SUFFICES ASSUME IInv, Lists, Settled, ~unheard, listing # "cut",
                      NEW x \in Elems(Catalogued)
               PROVE  x \in cat
    BY DEF CatalogCovers
  <2>1. /\ link = "up" /\ phase = "listen" /\ sendq = <<>>
        /\ \A t \in Pusher : Steps(t) = {}
        /\ ~CatalogPending
    BY FeedAssumption, SettledLemma
  <2>2. ~PageToCome(x) /\ ~PageWaits(x)
    BY <2>1 DEF PageToCome, PageWaits
  <2> QED
    BY <2>1, <2>2 DEF Lists, PageHeard
<1> QED
  BY <1>1, <1>2, <1>3, PTL DEF Spec
==============================================================================

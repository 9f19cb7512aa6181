-------------------------- MODULE KeepaliveProofs --------------------------
(***************************************************************************)
(* The keepalive's three promises for every length of a round, a stall, a  *)
(* send and a handler, and every number of rounds from three up.  The      *)
(* invariant bounds, place by place, what the ages and the deadline under  *)
(* way add up to.                                                          *)
(***************************************************************************)
EXTENDS Keepalive, TLAPS

\* How long the loop may have left something unread: no longer than n, or
\* only since the handler before began.
Behind(n) == heard <= gap + n \/ heard <= HOLD_MAX + n

\* What was heard last, and whether anything waits.
Hearing ==
    /\ gap <= heard
    /\ unread # "whole" => gap = heard
    /\ pc = "top" => \/ Behind(0)
                     \/ since < QUIET_PING /\ sent < QUIET_PING /\ Behind(since)
    /\ pc = "ping" => Behind(since) /\ since + left <= QUIET_PING
    /\ pc = "recv" => left > 0 \/ gap = heard
    /\ pc = "handle" => heard = hold /\ hold <= HOLD_MAX

\* No wait goes on past what bounds the panel's silence ...
HeardInTime ==
    /\ pc = "top" => heard < Dead + QUIET_PING \/ heard <= HOLD_MAX
    /\ pc = "ping" => heard + left < Dead + QUIET_PING
    /\ pc = "recv" => heard + left <= Dead
    /\ pc = "stall" => heard + left <= Dead + STALL

\* ... or this side's.
SentInTime ==
    /\ pc = "top" => sent <= QUIET_PING + STALL
    /\ pc = "recv" => sent + left <= QUIET_PING
    /\ pc = "stall" => sent + left <= QUIET_PING + STALL
    /\ pc \in {"ping", "handle"} => sent + left <= QUIET_PING + STALL + QUIET_PING

\* Handlers end within what the three rounds leave.
HoldShort == HOLD_MAX <= Kept

IInv == /\ TypeOK /\ Hearing /\ HeardInTime /\ SentInTime
        /\ why # "none" <=> pc = "dropped"
        /\ HoldShort => LiveLinkKept

------------------------------------------------------------------------------

\* The last round is one round, and there are three or more.
LEMMA Rounds ==
    /\ QUIET_PING \in Nat /\ QUIET_PING > 0 /\ Dead \in Nat /\ Kept \in Nat
    /\ Dead = Kept + QUIET_PING
    /\ Dead >= 3 * QUIET_PING
    /\ STALL \in Nat /\ SEND \in Nat /\ HOLD_MAX \in Nat
    /\ 0 < STALL /\ STALL < QUIET_PING /\ 0 < SEND /\ SEND <= QUIET_PING
<1>1. /\ QUIET_PING \in Nat /\ QUIET_PING > 0 /\ HOLD_MAX \in Nat
      /\ QUIET_LIMIT \in Nat /\ QUIET_LIMIT >= 3
      /\ STALL \in Nat /\ SEND \in Nat
      /\ 0 < STALL /\ STALL < QUIET_PING /\ 0 < SEND /\ SEND <= QUIET_PING
  BY KeepaliveAssumption
<1>2. PICK k \in Nat : QUIET_LIMIT = k + 3
  <2>1. QUIET_LIMIT - 3 \in Nat /\ QUIET_LIMIT = (QUIET_LIMIT - 3) + 3
    BY <1>1
  <2> QED
    BY <2>1
<1>3. QUIET_PING * k \in Nat
  BY <1>1, <1>2
<1>4. Dead = QUIET_PING * k + 3 * QUIET_PING
  BY <1>1, <1>2 DEF Dead
<1>5. Kept = QUIET_PING * k + 2 * QUIET_PING
  <2>1. QUIET_LIMIT - 1 = k + 2
    BY <1>2
  <2> QED
    BY <1>1, <1>2, <2>1 DEF Kept
<1> QED
  BY <1>1, <1>3, <1>4, <1>5

\* The least of three deadlines is one of them, and none is nearer.
LEMMA LeastOfThree ==
    ASSUME NEW a \in Nat, NEW b \in Nat, NEW c \in Nat
    PROVE  /\ Min({a, b, c}) \in {a, b, c}
           /\ Min({a, b, c}) <= a /\ Min({a, b, c}) <= b /\ Min({a, b, c}) <= c
<1>1. \E x \in {a, b, c} : \A y \in {a, b, c} : x <= y
  <2>1. CASE a <= b /\ a <= c
    BY <2>1
  <2>2. CASE b <= a /\ b <= c
    BY <2>2
  <2>3. CASE c <= a /\ c <= b
    BY <2>3
  <2> QED
    BY <2>1, <2>2, <2>3
<1> QED
  BY <1>1 DEF Min

LEMMA InitLemma == Init => IInv
  BY Rounds DEF Init, IInv, TypeOK, Hearing, HeardInTime, SentInTime, LiveLinkKept, Behind,
                Unread

\* Dropping keeps everything, a quiet panel given up included.
LEMMA DropLemma ==
    ASSUME IInv, NEW w \in {"quiet", "lost"}, Drop(w),
           w = "quiet" => (HoldShort => gap > Kept)
    PROVE  IInv'
  BY DEF IInv, Drop, TypeOK, Hearing, HeardInTime, SentInTime, LiveLinkKept, clocks, HoldShort,
         Kept

LEMMA GivesUpLemma == IInv /\ GivesUp => IInv'
<1> SUFFICES ASSUME IInv, GivesUp PROVE IInv'
  OBVIOUS
<1>1. HoldShort => gap > Kept
  BY Rounds DEF IInv, TypeOK, GivesUp, Quiet, Hearing, Behind, HoldShort
<1> QED
  BY <1>1, DropLemma DEF GivesUp

LEMMA TopLemma == IInv /\ (Pings \/ Listens) => IInv'
<1> SUFFICES ASSUME IInv, Pings \/ Listens PROVE IInv'
  OBVIOUS
<1> USE DEF IInv, TypeOK, LiveLinkKept, HoldShort, Kept
<1>1. CASE Pings
  <2>1. Behind(0)
    BY <1>1, Rounds DEF Pings, PingDue, OwnSilence, Hearing
  <2> QED
    BY <1>1, <2>1, Rounds
    DEF Pings, Quiet, Hearing, HeardInTime, SentInTime, Behind
<1>2. CASE Listens
  <2>1. /\ QUIET_PING - sent \in Nat /\ QUIET_PING - since \in Nat /\ Dead - heard \in Nat
        /\ QUIET_PING - sent > 0 /\ QUIET_PING - since > 0 /\ Dead - heard > 0
    BY <1>2, Rounds DEF Listens, Quiet, PingDue, OwnSilence
  <2>2. /\ left' \in Nat /\ left' > 0
        /\ left' <= QUIET_PING - sent /\ left' <= Dead - heard
    BY <1>2, <2>1, LeastOfThree DEF Listens, OwnSilence
  <2> QED
    BY <1>2, <2>1, <2>2, Rounds
    DEF Listens, Hearing, HeardInTime, SentInTime, clocks
<1> QED
  BY <1>1, <1>2

LEMMA WaitLemma ==
    IInv /\ (PingSent \/ Received \/ HandlerSent \/ RecvTimesOut) => IInv'
<1> SUFFICES ASSUME IInv, PingSent \/ Received \/ HandlerSent \/ RecvTimesOut PROVE IInv'
  OBVIOUS
<1> USE DEF IInv, TypeOK, LiveLinkKept, HoldShort, Hearing, HeardInTime, SentInTime, Behind,
            clocks
<1>1. CASE PingSent
  BY <1>1, Rounds DEF PingSent
<1>2. CASE Received
  BY <1>2, Rounds DEF Received, Unread
<1>3. CASE HandlerSent
  BY <1>3, Rounds DEF HandlerSent
<1>4. CASE RecvTimesOut
  BY <1>4, Rounds DEF RecvTimesOut
<1> QED
  BY <1>1, <1>2, <1>3, <1>4

LEMMA EnvironmentLemma ==
    IInv /\ (Reconnects \/ OtherSends \/ Arrives \/ Tick) => IInv'
<1> SUFFICES ASSUME IInv, Reconnects \/ OtherSends \/ Arrives \/ Tick PROVE IInv'
  OBVIOUS
<1> USE DEF IInv, TypeOK, LiveLinkKept, HoldShort, Hearing, HeardInTime, SentInTime, Behind,
            clocks
<1>1. CASE Reconnects
  BY <1>1, Rounds DEF Reconnects, Starts, Unread
<1>2. CASE OtherSends
  BY <1>2, Rounds DEF OtherSends
<1>3. CASE Arrives
  BY <1>3, Rounds DEF Arrives, Unread
<1>4. CASE Tick
  BY <1>4, Rounds DEF Tick
<1> QED
  BY <1>1, <1>2, <1>3, <1>4

\* The ages and the deadline under way stay within their bounds.
THEOREM Invariance == Spec => []IInv
<1>1. IInv /\ [Next]_vars => IInv'
  <2> SUFFICES ASSUME IInv, [Next]_vars PROVE IInv'
    OBVIOUS
  <2>1. CASE WaitGivesUp \/ LinkLost
    BY <2>1, DropLemma DEF WaitGivesUp, LinkLost
  <2>2. CASE UNCHANGED vars
    BY <2>2 DEF vars, IInv, TypeOK, LiveLinkKept, HoldShort, Hearing, HeardInTime, SentInTime,
                Behind
  <2> QED
    BY <2>1, <2>2, GivesUpLemma, TopLemma, WaitLemma, EnvironmentLemma DEF Next
<1> QED
  BY <1>1, InitLemma, PTL DEF Spec

\* Every clock stays a number, every place one of the six.
THEOREM TypeCorrect == Spec => []TypeOK
  BY Invariance, PTL DEF IInv

\* A panel heard from within QUIET_LIMIT - 1 rounds is never given up as
\* quiet, when handlers end within as many rounds.
THEOREM LiveLinksAreKept ==
    ASSUME HoldShort PROVE Spec => []LiveLinkKept
<1>1. IInv => LiveLinkKept
  BY DEF IInv, HoldShort
<1> QED
  BY <1>1, Invariance, PTL

\* A panel that has fallen silent is given up within one more round, when
\* handlers end within the rounds before it.
THEOREM DeadLinksAreFound ==
    ASSUME HoldShort PROVE Spec => []DeadLinkFound
<1>1. IInv => DeadLinkFound
  BY Rounds DEF IInv, TypeOK, DeadLinkFound, Hearing, HeardInTime, HoldShort
<1> QED
  BY <1>1, Invariance, PTL

\* This side is never silent for as long as the panel would take for a dead
\* link, however long handlers take.
THEOREM ThePanelHearsUs == Spec => []PanelHearsUs
<1>1. IInv => PanelHearsUs
  BY Rounds DEF IInv, TypeOK, PanelHearsUs, SentInTime
<1> QED
  BY <1>1, Invariance, PTL
==============================================================================

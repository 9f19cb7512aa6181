---------------------------- MODULE CommandsProofs ----------------------------
(***************************************************************************)
(* A command is told what the panel said to it, can always be woken and    *)
(* leaves nothing behind, for any number of commands.                      *)
(***************************************************************************)
EXTENDS Commands, TLAPS

\* A verdict, in a future or told to the caller, is what the panel said to that
\* very command.
VerdictsAreItsOwn ==
    \A r \in Request :
        /\ future[r] \in Verdict => future[r] = said[r]
        /\ outcome[r] \in Verdict => outcome[r] = said[r]

\* CanBeWoken is not inductive: a request that is still sending when its answer
\* or the end of the session comes is to be waiting later.
Wakeable ==
    \A r \in Request : phase[r] \in {"sending", "waiting"} /\ future[r] = "pending" =>
        r \in pending /\ client # "none"

\* A request that has not begun has no future yet.
NoFutureYet == \A r \in Request : phase[r] = "new" => future[r] = None

IInv == TypeOK /\ NoFutureYet /\ VerdictsAreItsOwn /\ Wakeable /\ NothingLeftPending

LEMMA InitInv == Init => IInv
  BY CommandsAssumption
     DEF Init, IInv, TypeOK, NoFutureYet, VerdictsAreItsOwn, Wakeable, NothingLeftPending, Flying, Verdict

\* Each move of a request, of the link task and of the panel keeps the
\* invariant.
LEMMA RequestInv ==
    ASSUME IInv, NEW r \in Request,
           NotConnected(r) \/ Requests(r) \/ Writes(r) \/ Sent(r) \/ SendFails(r)
             \/ Answered(r) \/ Dropped(r) \/ Expires(r) \/ GivesUp(r)
    PROVE  IInv'
<1> USE CommandsAssumption DEF IInv, TypeOK, Verdict, NoFutureYet
<1>1. CASE NotConnected(r)
  BY <1>1 DEF NotConnected, Tells, panelVars, VerdictsAreItsOwn, Wakeable,
              NothingLeftPending, Flying
<1>2. CASE Requests(r)
  BY <1>2 DEF Requests, panelVars, VerdictsAreItsOwn, Wakeable, NothingLeftPending, Flying
<1>3. CASE Writes(r)
  BY <1>3 DEF Writes, VerdictsAreItsOwn, Wakeable, NothingLeftPending, Flying
<1>4. CASE Sent(r)
  BY <1>4 DEF Sent, panelVars, VerdictsAreItsOwn, Wakeable, NothingLeftPending, Flying
<1>5. CASE SendFails(r)
  BY <1>5 DEF SendFails, Tells, LinkGone, VerdictsAreItsOwn, Wakeable,
              NothingLeftPending, Flying
<1>6. CASE Answered(r)
  BY <1>6 DEF Answered, Tells, panelVars, VerdictsAreItsOwn, Wakeable,
              NothingLeftPending, Flying
<1>7. CASE Dropped(r)
  BY <1>7 DEF Dropped, Tells, LinkGone, VerdictsAreItsOwn, Wakeable,
              NothingLeftPending, Flying
<1>8. CASE Expires(r)
  BY <1>8 DEF Expires, panelVars, VerdictsAreItsOwn, Wakeable, NothingLeftPending, Flying
<1>9. CASE GivesUp(r)
  BY <1>9 DEF GivesUp, Tells, panelVars, VerdictsAreItsOwn, Wakeable,
              NothingLeftPending, Flying
<1> QED
  BY <1>1, <1>2, <1>3, <1>4, <1>5, <1>6, <1>7, <1>8, <1>9

LEMMA ResultInv == ASSUME IInv, NEW r \in Request, Result(r) PROVE IInv'
<1> USE CommandsAssumption DEF IInv, TypeOK, Verdict, NoFutureYet
<1>1. answers' \in Seq(Request)
  BY DEF Result
<1>2. /\ UNCHANGED <<client, phase, outcome, written, said>>
      /\ pending' = pending \ {r}
  BY DEF Result
<1>3. \/ future' = future /\ r \notin pending
      \/ /\ r \in pending
         /\ future' = [future EXCEPT ![r] = IF @ = "pending" THEN said[r] ELSE @]
  BY DEF Result, Set
<1>4. TypeOK'
  BY <1>1, <1>2, <1>3
<1>5. VerdictsAreItsOwn'
  BY <1>2, <1>3 DEF VerdictsAreItsOwn
<1>6. Wakeable'
  BY <1>2, <1>3 DEF Wakeable
<1>7. NothingLeftPending'
  BY <1>2 DEF NothingLeftPending, Flying
<1>8. NoFutureYet'
  BY <1>2, <1>3
<1> QED
  BY <1>4, <1>5, <1>6, <1>7, <1>8

LEMMA LinkInv == ASSUME IInv, LinkFails \/ SessionEnds \/ Reconnects PROVE IInv'
<1> USE CommandsAssumption DEF IInv, TypeOK, Verdict, NoFutureYet
<1>1. CASE LinkFails
  BY <1>1 DEF LinkFails, LinkGone, VerdictsAreItsOwn, Wakeable, NothingLeftPending, Flying
<1>2. CASE SessionEnds
  BY <1>2 DEF SessionEnds, PendingTold, VerdictsAreItsOwn, Wakeable,
              NothingLeftPending, Flying
<1>3. CASE Reconnects
  BY <1>3 DEF Reconnects, panelVars, VerdictsAreItsOwn, Wakeable, NothingLeftPending, Flying
<1> QED
  BY <1>1, <1>2, <1>3

LEMMA PanelInv ==
    ASSUME IInv, NEW r \in Request, NEW v \in Verdict, PanelAnswers(r, v) PROVE IInv'
  BY CommandsAssumption
     DEF PanelAnswers, IInv, TypeOK, NoFutureYet, Verdict, VerdictsAreItsOwn, Wakeable,
         NothingLeftPending, Flying

LEMMA StepInv == IInv /\ [Next]_vars => IInv'
<1> SUFFICES ASSUME IInv, [Next]_vars PROVE IInv'
  OBVIOUS
<1>1. CASE UNCHANGED vars
  BY <1>1 DEF vars, IInv, TypeOK, NoFutureYet, VerdictsAreItsOwn, Wakeable, NothingLeftPending,
                   Flying
<1>2. ASSUME NEW r \in Request, Result(r) PROVE IInv'
  BY <1>2, ResultInv
<1>3. ASSUME NEW r \in Request, NEW v \in Verdict, PanelAnswers(r, v) PROVE IInv'
  BY <1>3, PanelInv
<1> QED
  BY <1>1, <1>2, <1>3, RequestInv, LinkInv DEF Next

\* Everything below rests on this invariant of every behaviour.
THEOREM Invariance == Spec => []IInv
  BY InitInv, StepInv, PTL DEF Spec

\* Type correctness (the fields of _async_request and its futures).
THEOREM TypeCorrect == Spec => []TypeOK
  BY Invariance, PTL DEF IInv

\* A caller is told what the panel said to its own command (_async_request,
\* the `result' branch of _handle_message).
THEOREM AnswersAreOwn == Spec => []OwnAnswer
<1>1. IInv => OwnAnswer
  BY DEF IInv, VerdictsAreItsOwn, OwnAnswer
<1> QED
  BY Invariance, <1>1, PTL

\* A command that waits can be woken, by its answer or by the session's end.
THEOREM WaitersCanBeWoken == Spec => []CanBeWoken
<1>1. IInv => CanBeWoken
  BY DEF IInv, Wakeable, CanBeWoken
<1> QED
  BY Invariance, <1>1, PTL

\* No id outlives its request (_async_request's finally).
THEOREM PendingIsExact == Spec => []NothingLeftPending
  BY Invariance, PTL DEF IInv

\* A future that is done is left alone by the reader, the deadline and the end
\* of the session.
THEOREM FuturesAreFinal == Spec => FutureIsFinal
<1>1. IInv /\ [Next]_vars =>
        [\A r \in Request : future[r] \notin {None, "pending"} => future'[r] = future[r]]_vars
  <2> SUFFICES ASSUME IInv, Next, NEW q \in Request, future[q] \notin {None, "pending"}
               PROVE  future'[q] = future[q]
    OBVIOUS
  <2>1. ASSUME NEW r \in Request,
               NotConnected(r) \/ Writes(r) \/ Sent(r) \/ SendFails(r) \/ Answered(r)
                 \/ Dropped(r) \/ GivesUp(r)
        PROVE  future' = future
    BY <2>1 DEF NotConnected, Writes, Sent, SendFails, Answered, Dropped, GivesUp
  <2>2. ASSUME NEW r \in Request, Requests(r) PROVE future'[q] = future[q]
    BY <2>2 DEF Requests, IInv, TypeOK, NoFutureYet
  <2>3. ASSUME NEW r \in Request, Expires(r) PROVE future'[q] = future[q]
    BY <2>3 DEF Expires, IInv, TypeOK
  <2>4. ASSUME NEW r \in Request, Result(r) PROVE future'[q] = future[q]
    BY <2>4 DEF Result, Set, IInv, TypeOK
  <2>5. CASE LinkFails \/ Reconnects
    BY <2>5 DEF LinkFails, Reconnects
  <2>6. CASE SessionEnds
    BY <2>6 DEF SessionEnds, PendingTold, IInv, TypeOK
  <2>7. ASSUME NEW r \in Request, NEW v \in Verdict, PanelAnswers(r, v)
        PROVE  future' = future
    BY <2>7 DEF PanelAnswers
  <2> QED
    BY <2>1, <2>2, <2>3, <2>4, <2>5, <2>6, <2>7 DEF Next
<1> QED
  BY Invariance, <1>1, PTL DEF Spec, FutureIsFinal
==============================================================================

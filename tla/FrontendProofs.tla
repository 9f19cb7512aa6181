--------------------------- MODULE FrontendProofs ---------------------------
(***************************************************************************)
(* What a person starts from Home Assistant's frontend: the chime switch   *)
(* and the config flow.  They share no state; each has its invariant.      *)
(***************************************************************************)
EXTENDS Chime, ConfigFlow, TLAPS

------------------------------------------------------------------------------
(* The chime toggles as asked, for any number of requests.  The invariant  *)
(* says what one request at a time means: while nothing has upset the      *)
(* order, either all is settled or exactly one request is between its      *)
(* toggle and the update that shows it, and which of those points it is at *)
(* is told by what is on its way.                                          *)

\* The toggle of r has not reached the panel.
Pending(r) ==
    /\ req[r] = "asking" /\ result[r] = "none" /\ up
    /\ toggles = <<r>> /\ deltas = <<>>
    /\ panel \in BOOLEAN /\ told = panel /\ shown = panel /\ panel = ~want[r]

\* The panel did not take it.
Declined(r) ==
    /\ (req[r] = "asking" /\ result[r] = "refused") \/ req[r] = "error"
    /\ up /\ toggles = <<>> /\ deltas = <<>>
    /\ panel \in BOOLEAN /\ told = panel /\ shown = panel

\* It did, and this is not shown yet, on its way, or shown.
Taken(r) ==
    /\ (req[r] = "asking" /\ result[r] = "ok") \/ req[r] \in {"answered", "confirming", "confirmed"}
    /\ up /\ toggles = <<>>
    /\ panel \in BOOLEAN /\ panel = want[r]
    /\ \/ deltas = <<>> /\ told # panel /\ shown # panel
       \/ deltas = <<panel>> /\ told = panel /\ shown # panel
       \/ deltas = <<>> /\ told = panel /\ shown = panel
    /\ req[r] = "confirmed" => deltas = <<>> /\ told = panel /\ shown = panel

InTurn(r) == Pending(r) \/ Declined(r) \/ Taken(r)
Ordered == Settled \/ \E r \in Request : InTurn(r)

\* Whoever has read is_on holds the lock; who has not has nothing under way.
Locked ==
    \A r \in Request :
        /\ req[r] \in Active => Holds(r)
        /\ req[r] = "queued" => result[r] = "none" /\ \A i \in DOMAIN toggles : toggles[i] # r

ChimeIInv == ChimeTypeOK /\ Locked /\ (~loose => Ordered)

------------------------------------------------------------------------------

LEMMA ChimeInitLemma == ChimeInit => ChimeIInv
<1> SUFFICES ASSUME ChimeInit PROVE ChimeIInv
  OBVIOUS
<1>1. ChimeTypeOK
  <2>1. panel \in Chimes /\ told \in Chimes /\ shown \in Chimes
    BY Zenon DEF ChimeInit, Chimes
  <2>2. up \in BOOLEAN /\ loose \in BOOLEAN /\ want \in [Request -> BOOLEAN]
    BY Zenon DEF ChimeInit
  <2>3. /\ deltas \in Seq(Chimes) /\ toggles \in Seq(Request) /\ queue \in Seq(Request)
        /\ result \in [Request -> {"none", "ok", "refused"}]
        /\ req \in [Request -> Active \cup Ended \cup {"queued", "cancelled"}]
    BY DEF ChimeInit, Ended
  <2> QED
    BY <2>1, <2>2, <2>3 DEF ChimeTypeOK
<1>2. \A r \in Request : req[r] = "idle"
  BY DEF ChimeInit
<1>3. Locked /\ Settled
  BY <1>2 DEF ChimeInit, Locked, Settled, Active
<1> QED
  BY <1>1, <1>3 DEF ChimeIInv, Ordered

\* Where the order is said to hold after a step, all has settled or it held
\* before and the step did not upset it.
LEMMA UpsetLemma ==
    ASSUME NEW e, Upset(e), ~loose' PROVE Settled' \/ (~loose /\ ~e)
  BY DEF Upset

\* Who is served finds nothing under way: no other request is in its turn.
LEMMA ServedLemma ==
    ASSUME ChimeIInv, ~loose, NEW r \in Request, Holds(r), req[r] \notin Active
    PROVE  Settled
<1>1. \A s \in Request : InTurn(s) => req[s] \in Active
  BY DEF InTurn, Pending, Declined, Taken, Active
<1>2. \A s \in Request : req[s] \in Active => s = r
  BY DEF ChimeIInv, Locked, Holds
<1> QED
  BY <1>1, <1>2 DEF ChimeIInv, Ordered

\* And who is in its turn is the only one.
LEMMA TurnLemma ==
    ASSUME ChimeIInv, ~loose, NEW r \in Request, req[r] \in Active
    PROVE  InTurn(r)
<1>1. ~Settled
  BY DEF Settled
<1>2. PICK s \in Request : InTurn(s)
  BY <1>1 DEF ChimeIInv, Ordered
<1>3. req[s] \in Active
  BY <1>2 DEF InTurn, Pending, Declined, Taken, Active
<1> QED
  BY <1>2, <1>3 DEF ChimeIInv, Locked, Holds

------------------------------------------------------------------------------
(* Types and the lock                                                      *)

\* A request that ends leaves nobody behind it at work.
LEMMA EndsLemma ==
    ASSUME ChimeIInv, NEW r \in Request, Holds(r), NEW how \in Ended, Ends(r, how),
           UNCHANGED <<result, toggles>>
    PROVE  /\ req' \in [Request -> Active \cup Ended \cup {"queued", "cancelled"}]
           /\ queue' \in Seq(Request)
           /\ Locked'
           /\ \A s \in Request : req'[s] \notin Active
<1>1. req' \in [Request -> Active \cup Ended \cup {"queued", "cancelled"}]
  BY DEF ChimeIInv, ChimeTypeOK, Ends
<1>2. queue' \in Seq(Request)
  BY DEF ChimeIInv, ChimeTypeOK, Ends, Holds
<1>3. \A s \in Request : req'[s] \notin Active
  BY DEF ChimeIInv, ChimeTypeOK, Locked, Ends, Holds, Ended, Active
<1>4. Locked'
  BY <1>3 DEF ChimeIInv, ChimeTypeOK, Locked, Ends, Ended
<1> QED
  BY <1>1, <1>2, <1>3, <1>4

LEMMA RequestedLemma ==
    ASSUME ChimeIInv, NEW r \in Request, NEW on \in BOOLEAN, Requested(r, on)
    PROVE  ChimeTypeOK' /\ Locked'
<1>1. ChimeTypeOK'
  BY DEF ChimeIInv, ChimeTypeOK, Requested, panelVars, wireVars, Upset
<1>2. ASSUME NEW s \in Request, req'[s] \in Active PROVE Holds(s)'
  <2>1. s # r /\ req[s] = req'[s]
    BY <1>2 DEF ChimeIInv, ChimeTypeOK, Requested, Active
  <2>2. queue # <<>> /\ Head(queue) = s
    BY <1>2, <2>1 DEF ChimeIInv, Locked, Holds
  <2>3. queue' = Append(queue, r) /\ queue \in Seq(Request)
    BY DEF ChimeIInv, ChimeTypeOK, Requested
  <2> QED
    BY <2>2, <2>3 DEF Holds
<1>3. ASSUME NEW s \in Request, req'[s] = "queued"
      PROVE  result'[s] = "none" /\ \A i \in DOMAIN toggles' : toggles'[i] # s
  BY <1>3 DEF ChimeIInv, ChimeTypeOK, Locked, Requested, Recycled, wireVars
<1> QED
  BY <1>1, <1>2, <1>3 DEF Locked

LEMMA StepKeepsLock ==
    ASSUME ChimeIInv, NEW r \in Request, Step(r) \/ Cancelled(r)
    PROVE  ChimeTypeOK' /\ Locked'
<1> USE DEF panelVars, wireVars, Upset
<1>1. ASSUME NEW how \in Ended, Holds(r), Ends(r, how), loose' \in BOOLEAN,
             UNCHANGED <<panelVars, wireVars, up, shown, want>>
      PROVE  ChimeTypeOK' /\ Locked'
  BY <1>1, EndsLemma DEF ChimeIInv, ChimeTypeOK
<1>2. CASE NothingToDo(r) \/ NotConnected(r) \/ Returns(r) \/ CommandTimesOut(r)
           \/ ConfirmTimesOut(r) \/ PassedOver(r)
  BY <1>1, <1>2 DEF NothingToDo, NotConnected, Returns, CommandTimesOut, ConfirmTimesOut,
                    PassedOver, Served, Ended
<1>3. CASE Continues(r)
  <2>1. CASE shown = want[r]
    BY <1>1, <1>3, <2>1 DEF Continues, Ended
  <2>2. CASE shown # want[r]
    BY <1>3, <2>2 DEF Continues, ChimeIInv, ChimeTypeOK, Locked, Active, Holds
  <2> QED
    BY <2>1, <2>2
<1>4. CASE Asks(r)
  <2>1. toggles' \in Seq(Request) /\ ChimeTypeOK'
    BY <1>4 DEF Asks, ChimeIInv, ChimeTypeOK, Active
  <2>2. ASSUME NEW s \in Request, req'[s] = "queued"
        PROVE  result'[s] = "none" /\ \A i \in DOMAIN toggles' : toggles'[i] # s
    <3>1. s # r /\ req[s] = "queued"
      BY <1>4, <2>2 DEF Asks, ChimeIInv, ChimeTypeOK
    <3> QED
      BY <1>4, <3>1 DEF Asks, ChimeIInv, ChimeTypeOK, Locked
  <2>3. ASSUME NEW s \in Request, req'[s] \in Active PROVE Holds(s)'
    BY <1>4, <2>3 DEF Asks, Served, ChimeIInv, ChimeTypeOK, Locked, Holds
  <2> QED
    BY <2>1, <2>2, <2>3 DEF Locked
<1>5. CASE Cancelled(r)
  <2>1. CASE req[r] = "queued"
    BY <1>5, <2>1 DEF Cancelled, ChimeIInv, ChimeTypeOK, Locked, Active, Holds
  <2>2. CASE req[r] \in Active
    BY <1>1, <1>5, <2>2 DEF Cancelled, Ended, Active
  <2> QED
    BY <1>5, <2>1, <2>2 DEF Cancelled
<1> QED
  BY <1>2, <1>3, <1>4, <1>5 DEF Step

LEMMA LinkKeepsLock ==
    ASSUME ChimeIInv,
           \/ \E r \in Request : ResultRead(r)
           \/ DeltaRead \/ LinkDrops \/ Reconnects
           \/ Executes \/ Refuses \/ Lost \/ Reports \/ Changes
    PROVE  ChimeTypeOK' /\ Locked'
<1> USE DEF panelVars, wireVars, Upset, ChimeIInv, ChimeTypeOK, Locked, Holds
<1>1. CASE \E r \in Request : ResultRead(r)
  BY <1>1 DEF ResultRead, Active
<1>2. CASE DeltaRead
  BY <1>2 DEF DeltaRead, Active
<1>3. CASE LinkDrops
  <2>1. /\ req' = [r \in Request |-> IF req[r] = "asking" THEN "error" ELSE req[r]]
        /\ result' = [r \in Request |-> "none"] /\ up' = FALSE /\ deltas' = <<>>
        /\ loose' \in BOOLEAN /\ UNCHANGED <<panel, told, toggles, shown, queue, want>>
    BY <1>3 DEF LinkDrops
  <2>2. ChimeTypeOK'
    <3>1. req' \in [Request -> Active \cup Ended \cup {"queued", "cancelled"}]
      BY <2>1 DEF Active
    <3>2. deltas' \in Seq(Chimes) /\ result' \in [Request -> {"none", "ok", "refused"}]
      BY <2>1
    <3>3. up' \in BOOLEAN
      BY <2>1, Zenon
    <3> QED
      BY <2>1, <3>1, <3>2, <3>3
  <2>3. Locked'
    BY <2>1 DEF Active
  <2> QED
    BY <2>2, <2>3
<1>4. CASE Reconnects
  BY <1>4 DEF Reconnects
<1>5. CASE Executes \/ Refuses \/ Lost
  <2>1. /\ toggles' \in Seq(Request) /\ Head(toggles) \in Request /\ toggles # <<>>
        /\ \A i \in DOMAIN toggles' : \E j \in DOMAIN toggles : toggles'[i] = toggles[j]
        /\ \E j \in DOMAIN toggles : toggles[j] = Head(toggles)
    <3>1. toggles' = Tail(toggles) /\ toggles # <<>>
      BY <1>5 DEF Executes, Refuses, Lost
    <3>2. \A i \in DOMAIN toggles' : i + 1 \in DOMAIN toggles /\ toggles'[i] = toggles[i + 1]
      BY <3>1
    <3> QED
      BY <3>1, <3>2
  <2>2. CASE Executes
    BY <2>1, <2>2 DEF Executes, Answers, Chimes
  <2>3. CASE Refuses
    BY <2>1, <2>3 DEF Refuses, Answers
  <2>4. CASE Lost
    BY <2>1, <2>4 DEF Lost
  <2> QED
    BY <1>5, <2>2, <2>3, <2>4
<1>6. CASE Reports
  BY <1>6 DEF Reports
<1>7. CASE Changes
  BY <1>7 DEF Changes
<1> QED
  BY <1>1, <1>2, <1>3, <1>4, <1>5, <1>6, <1>7

------------------------------------------------------------------------------
(* The order                                                               *)

LEMMA StepKeepsOrder ==
    ASSUME ChimeIInv, ~loose, NEW r \in Request, Step(r) \/ Cancelled(r), ~loose'
    PROVE  Ordered'
<1>1. ASSUME NEW how \in Ended, Holds(r), Ends(r, how), UNCHANGED <<panelVars, wireVars, shown>>,
             toggles = <<>>, deltas = <<>>, panel \in BOOLEAN, told = panel, shown = panel
      PROVE  Ordered'
  BY <1>1, EndsLemma DEF Ordered, Settled, panelVars, wireVars
<1>2. CASE NothingToDo(r) \/ NotConnected(r) \/ PassedOver(r)
  <2>1. Settled
    BY <1>2, ServedLemma DEF NothingToDo, NotConnected, PassedOver, Served, Active
  <2> QED
    BY <1>1, <1>2, <2>1 DEF NothingToDo, NotConnected, PassedOver, Served, Settled, Ended
<1>3. CASE Asks(r)
  <2>1. Settled
    BY <1>3, ServedLemma DEF Asks, Served, Active
  <2>2. Pending(r)'
    BY <1>3, <2>1 DEF Asks, Served, Settled, Pending, ChimeIInv, ChimeTypeOK, Locked, panelVars
  <2> QED
    BY <2>2 DEF Ordered, InTurn
<1>4. CASE Continues(r)
  <2>1. Taken(r)
    BY <1>4, TurnLemma DEF Continues, InTurn, Pending, Declined, Active
  <2>2. CASE shown = want[r]
    BY <1>1, <1>4, <2>1, <2>2 DEF Continues, Taken, Ended
  <2>3. CASE shown # want[r]
    <3>1. Taken(r)'
      BY <1>4, <2>1, <2>3 DEF Continues, Taken, ChimeIInv, ChimeTypeOK, panelVars, wireVars
    <3> QED
      BY <3>1 DEF Ordered, InTurn
  <2> QED
    BY <2>2, <2>3
<1>5. CASE Returns(r)
  <2>1. Taken(r) \/ Declined(r)
    BY <1>5, TurnLemma DEF Returns, InTurn, Pending, Active
  <2>2. deltas = <<>> /\ toggles = <<>> /\ panel \in BOOLEAN /\ told = panel /\ shown = panel
    BY <1>5, <2>1 DEF Returns, Taken, Declined
  <2> QED
    BY <1>1, <1>5, <2>2 DEF Returns, Ended
<1>6. CASE CommandTimesOut(r) \/ ConfirmTimesOut(r)
  BY <1>6, UpsetLemma DEF CommandTimesOut, ConfirmTimesOut, Ordered
<1>7. CASE Cancelled(r)
  <2>1. CASE req[r] \in Active
    BY <1>7, <2>1, UpsetLemma DEF Cancelled, Ordered
  <2>2. CASE req[r] = "queued"
    <3>1. /\ req' = [req EXCEPT ![r] = "cancelled"]
          /\ UNCHANGED <<panelVars, wireVars, up, shown, queue, want>>
      BY <1>7, <2>2 DEF Cancelled, Active
    <3>2. Settled => Settled'
      BY <3>1 DEF Settled, ChimeIInv, ChimeTypeOK, Active, panelVars, wireVars
    <3>3. ASSUME NEW s \in Request, InTurn(s) PROVE InTurn(s)'
      BY <2>2, <3>1, <3>3 DEF InTurn, Pending, Declined, Taken, ChimeIInv, ChimeTypeOK, panelVars, wireVars
    <3> QED
      BY <3>2, <3>3 DEF ChimeIInv, Ordered
  <2> QED
    BY <1>7, <2>1, <2>2 DEF Cancelled
<1> QED
  BY <1>2, <1>3, <1>4, <1>5, <1>6, <1>7 DEF Step

LEMMA RequestKeepsOrder ==
    ASSUME ChimeIInv, ~loose, NEW r \in Request, NEW on \in BOOLEAN, Requested(r, on)
    PROVE  Ordered'
<1>1. /\ req' = [req EXCEPT ![r] = "queued"] /\ want' = [want EXCEPT ![r] = on]
      /\ req[r] \in Ended /\ UNCHANGED <<panelVars, wireVars, up, shown>>
  BY DEF Requested, Recycled
<1>2. Settled => Settled'
  BY <1>1 DEF Settled, ChimeIInv, ChimeTypeOK, Active, panelVars, wireVars
<1>3. ASSUME NEW s \in Request, InTurn(s) PROVE InTurn(s)'
  <2>1. s # r
    BY <1>1, <1>3 DEF InTurn, Pending, Declined, Taken, Ended
  <2> QED
    BY <1>1, <1>3, <2>1 DEF InTurn, Pending, Declined, Taken, ChimeIInv, ChimeTypeOK, panelVars, wireVars
<1> QED
  BY <1>2, <1>3 DEF ChimeIInv, Ordered

LEMMA LinkKeepsOrder ==
    ASSUME ChimeIInv, ~loose, ~loose',
           \/ \E r \in Request : ResultRead(r)
           \/ DeltaRead \/ LinkDrops \/ Reconnects
           \/ Executes \/ Refuses \/ Lost \/ Reports \/ Changes
    PROVE  Ordered'
<1> USE DEF panelVars, wireVars
<1>1. CASE LinkDrops \/ Changes
  BY <1>1, UpsetLemma DEF LinkDrops, Changes, Ordered
<1>2. CASE Settled
  <2>1. CASE \E r \in Request : ResultRead(r)
    BY <1>2, <2>1 DEF ResultRead, Settled, Ordered, ChimeIInv, ChimeTypeOK, Active
  <2>2. CASE Reconnects
    BY <1>2, <2>2 DEF Reconnects, Settled, Ordered
  <2> QED
    BY <1>1, <1>2, <2>1, <2>2
    DEF Settled, DeltaRead, Executes, Refuses, Lost, Reports
<1>3. CASE ~Settled
  <2>1. PICK s \in Request : InTurn(s)
    BY <1>3 DEF ChimeIInv, Ordered
  <2>2. req[s] \in Active
    BY <2>1 DEF InTurn, Pending, Declined, Taken, Active
  <2>3. SUFFICES ASSUME ~(LinkDrops \/ Changes) PROVE InTurn(s)'
    BY <1>1 DEF Ordered
  <2>4. CASE \E r \in Request : ResultRead(r)
    <3>1. PICK r \in Request : ResultRead(r)
      BY <2>4
    <3>2. UNCHANGED <<panel, told, deltas, toggles, up, shown, want>>
      BY <3>1 DEF ResultRead
    <3>3. CASE r = s
      BY <2>1, <3>1, <3>2, <3>3
      DEF ResultRead, InTurn, Pending, Declined, Taken, ChimeIInv, ChimeTypeOK
    <3>4. CASE r # s
      <4>1. req'[s] = req[s] /\ result'[s] = result[s]
        BY <3>1, <3>4 DEF ResultRead, ChimeIInv, ChimeTypeOK
      <4> QED
        BY <2>1, <3>2, <4>1 DEF InTurn, Pending, Declined, Taken
    <3> QED
      BY <3>3, <3>4
  <2>5. CASE DeltaRead
    <3>1. Taken(s) /\ deltas = <<panel>>
      BY <2>1, <2>5 DEF DeltaRead, InTurn, Pending, Declined, Taken
    <3>2. Head(deltas) = panel /\ Tail(deltas) = <<>>
      BY <3>1
    <3> QED
      BY <2>5, <3>1, <3>2 DEF DeltaRead, InTurn, Taken, ChimeIInv, ChimeTypeOK
  <2>6. CASE Reconnects
    BY <2>2, <2>6 DEF Reconnects, Active, Ended
  <2>7. CASE Executes \/ Refuses
    <3>1. Pending(s)
      BY <2>1, <2>7 DEF Executes, Refuses, InTurn, Declined, Taken
    <3>2. Head(toggles) = s /\ Tail(toggles) = <<>>
      BY <3>1 DEF Pending
    <3> QED
      BY <2>7, <3>1, <3>2
      DEF Executes, Refuses, Answers, InTurn, Pending, Declined, Taken, ChimeIInv, ChimeTypeOK
  <2>8. CASE Lost
    BY <2>1, <2>8 DEF Lost, InTurn, Pending, Declined, Taken
  <2>9. CASE Reports
    <3>1. Taken(s) /\ deltas = <<>> /\ told # panel /\ shown # panel
      BY <2>1, <2>9 DEF Reports, InTurn, Pending, Declined, Taken
    <3>2. deltas' = <<panel>> /\ told' = panel
      BY <2>9, <3>1 DEF Reports
    <3> QED
      BY <2>9, <3>1, <3>2 DEF Reports, InTurn, Taken
  <2> QED
    BY <2>3, <2>4, <2>5, <2>6, <2>7, <2>8, <2>9
<1> QED
  BY <1>2, <1>3

LEMMA NextLemma == ChimeIInv /\ [ChimeNext]_chimeVars => ChimeIInv'
<1> SUFFICES ASSUME ChimeIInv, [ChimeNext]_chimeVars PROVE ChimeIInv'
  OBVIOUS
<1>1. CASE UNCHANGED chimeVars
  BY <1>1 DEF chimeVars, ChimeIInv, ChimeTypeOK, Locked, Holds, Ordered, Settled, InTurn, Pending, Declined, Taken
<1>2. CASE ChimeNext
  <2>1. ChimeTypeOK' /\ Locked'
    BY <1>2, StepKeepsLock, RequestedLemma, LinkKeepsLock DEF ChimeNext
  <2>2. ASSUME ~loose' PROVE Ordered'
    <3>1. CASE ~loose
      BY <1>2, <2>2, <3>1, StepKeepsOrder, RequestKeepsOrder, LinkKeepsOrder DEF ChimeNext
    <3>2. CASE loose
      <4>1. Settled'
        BY <1>2, <2>2, <3>2 DEF Upset, ChimeNext, Step, Requested, NothingToDo, NotConnected, Asks, Continues, Returns,
                    CommandTimesOut, ConfirmTimesOut, Cancelled, PassedOver, ResultRead,
                    DeltaRead, LinkDrops, Reconnects, Executes, Refuses, Lost, Reports, Changes
      <4> QED
        BY <4>1 DEF Ordered
    <3> QED
      BY <3>1, <3>2
  <2> QED
    BY <2>1, <2>2 DEF ChimeIInv
<1> QED
  BY <1>1, <1>2

\* One request at a time is in its turn, and what is on its way tells where.
THEOREM ChimeInvariance == ChimeSpec => []ChimeIInv
  BY ChimeInitLemma, NextLemma, PTL DEF ChimeSpec

\* Every variable keeps its type.
THEOREM ChimeTypeCorrect == ChimeSpec => []ChimeTypeOK
  BY ChimeInvariance, PTL DEF ChimeIInv

\* However many requests pile up, the toggle on its way is one, and sets what
\* its request asked for (HA13).
THEOREM TogglesFlipAsAsked == ChimeSpec => []FlipsAsAsked
<1>1. ChimeIInv => FlipsAsAsked
  <2> SUFFICES ASSUME ChimeIInv, ~loose
               PROVE  /\ Len(toggles) <= 1
                      /\ \A i \in DOMAIN toggles : panel = ~want[toggles[i]]
    BY DEF FlipsAsAsked
  <2>1. toggles = <<>> \/ \E r \in Request : toggles = <<r>> /\ panel = ~want[r]
    BY DEF ChimeIInv, Ordered, Settled, InTurn, Pending, Declined, Taken
  <2>2. CASE toggles = <<>>
    BY <2>2
  <2>3. ASSUME NEW r \in Request, toggles = <<r>>, panel = ~want[r]
        PROVE  /\ Len(toggles) <= 1
               /\ \A i \in DOMAIN toggles : panel = ~want[toggles[i]]
    <3>1. Len(toggles) = 1 /\ \A i \in DOMAIN toggles : toggles[i] = r
      BY <2>3
    <3> QED
      BY <2>3, <3>1
  <2> QED
    BY <2>1, <2>2, <2>3
<1> QED
  BY <1>1, ChimeInvariance, PTL

\* A request that is over because is_on agrees leaves the panel as asked.
THEOREM DoneAsAsked == ChimeSpec => DoneIsAsked
<1> DEFINE Good == \A r \in Request : req[r] # "done" /\ req'[r] = "done" /\ ~loose => panel = want[r]
<1>1. ChimeIInv /\ [ChimeNext]_chimeVars => Good
  <2> SUFFICES ASSUME ChimeIInv, [ChimeNext]_chimeVars, NEW r \in Request, req[r] # "done", req'[r] = "done", ~loose
               PROVE  panel = want[r]
    OBVIOUS
  <2>1. NothingToDo(r) \/ Continues(r) \/ Returns(r)
    BY ZenonT(60)
    DEF ChimeNext, Step, Requested, NothingToDo, NotConnected, Asks, Continues, Returns, chimeVars,
           CommandTimesOut, ConfirmTimesOut, Cancelled, PassedOver, ResultRead, Ends,
           DeltaRead, LinkDrops, Reconnects, Executes, Refuses, Lost, Reports, Changes,
           ChimeIInv, ChimeTypeOK
  <2>2. CASE NothingToDo(r)
    <3>1. Settled
      BY <2>2, ServedLemma DEF NothingToDo, Served, Active
    <3> QED
      BY <2>2, <3>1 DEF NothingToDo, Settled
  <2>3. CASE Continues(r) \/ Returns(r)
    <3>1. req[r] \in Active
      BY <2>3 DEF Continues, Returns, Active
    <3>2. Taken(r)
      BY <2>3, <3>1, TurnLemma DEF Continues, Returns, Ends, InTurn, Pending, Declined, ChimeIInv, ChimeTypeOK
    <3> QED
      BY <3>2 DEF Taken
  <2> QED
    BY <2>1, <2>2, <2>3
<1> QED
  BY <1>1, ChimeInvariance, PTL DEF ChimeSpec, DoneIsAsked

------------------------------------------------------------------------------
(* The config flow, for any number of connections and panels, whoever      *)
(* answers at the address, whenever the dialog is closed, the request of a *)
(* step goes away or a socket ends.                                        *)

Checks == {"validated", "recheck", "moved", "restore"}

\* A step's place in the flow: what it connects for goes with the form it
\* started from and with the kind of the flow, and the close it waits for with
\* what it connected for.
InStep ==
    /\ pc \in {"connect", "begin", "progress", "close"} => (goal = "pair" <=> page = "pair")
    /\ pc \in {"begin", "progress"} => goal = "pair"
    /\ pc = "unload" => goal = "probe" /\ page = "address"
    /\ pc \in {"connect", "close"} /\ goal = "validate" => kind = "user"
    /\ pc \in {"connect", "close"} /\ goal = "recheck" => kind = "reauth"
    /\ pc = "close" => (then \in Checks <=> goal # "pair")
    /\ pc = "close" /\ then = "validated" => goal = "validate"
    /\ pc = "close" /\ then = "recheck" => goal = "recheck"
    /\ pc = "close" /\ then \in Checks => local # None

\* What is being closed is not open any more, and is all there is left to let
\* go of; a flow that asks for an address holds no connection.
Closing ==
    /\ local # None => pc = "close" /\ sock[local] # "open"
    /\ pc = "close" => held \in {None, local}
    /\ page = "address" => held = None

\* Whoever is paired with is the panel the flow is about, which for an entry
\* that is paired again is the entry's own.
Checked ==
    /\ pc \in {"begin", "progress"} /\ held # None => peer[held] = uid
    /\ pc = "progress" => held # None
    /\ pc = "close" /\ then = "done" => local # None /\ peer[local] = uid
    /\ kind = "reauth" /\ pc # "over" => uid = owner

IInv == TypeOK /\ InStep /\ Closing /\ Checked /\ PinsTheOneChecked

LEMMA InitLemma == Init => IInv
  BY FlowAssumption DEF Init, IInv, TypeOK, InStep, Closing, Checked, PinsTheOneChecked, Checks, Kinds

LEMMA FormLemma ==
    ASSUME IInv, \/ \E k \in Kinds : Starts(k)
                 \/ SubmitAddress \/ UnloadDone \/ UnloadRefused \/ SubmitPair \/ Removed \/ StepCancelled
    PROVE  IInv'
<1> USE FlowAssumption DEF IInv, TypeOK, InStep, Closing, Checked, PinsTheOneChecked, Checks,
        flowVars, entryVars
<1>1. CASE \E k \in Kinds : Starts(k)
  BY <1>1 DEF Starts, Kinds
<1>2. CASE SubmitAddress
  BY <1>2 DEF SubmitAddress, Kinds
<1>3. CASE UnloadRefused
  BY <1>3, ZenonT(60) DEF UnloadRefused, Leaves
<1>4. CASE SubmitPair
  BY <1>4 DEF SubmitPair
<1>5. CASE Removed
  <2>1. here' \in BOOLEAN /\ UNCHANGED <<kind, page, uid, goal, then, local, peer, at, entryVars>>
    BY <1>5 DEF Removed
  <2>2. held' = None /\ pc' \in {pc, "over"} /\ (pc = "progress" => pc' = "over")
    BY <1>5 DEF Removed, RemovesClient
  <2>3. task' \in {task, "none"}
    BY <1>5 DEF Removed
  <2>4. /\ sock' \in [Conn -> {"free", "open", "closing"}]
        /\ \A c \in Conn : sock'[c] = "open" => sock[c] = "open"
    BY <1>5 DEF Removed, RemovesClient, ClosedSock
  <2>5. pc = "close" => pc' = "close"
    BY <1>5 DEF Removed
  <2> QED
    BY <2>1, <2>2, <2>3, <2>4, <2>5
<1>6. CASE StepCancelled
  BY <1>6 DEF StepCancelled, Shows, Restored
<1>7. CASE UnloadDone
  BY <1>7 DEF UnloadDone
<1> QED
  BY <1>1, <1>2, <1>3, <1>4, <1>5, <1>6, <1>7

LEMMA ConnectLemma ==
    ASSUME IInv, \/ ConnectFails
                 \/ \E c \in Conn : ConnectedToPair(c)
                 \/ \E c \in Conn, n \in BOOLEAN : ConnectedToCheck(c, n)
    PROVE  IInv'
<1> USE FlowAssumption DEF IInv, TypeOK, InStep, Closing, Checked, PinsTheOneChecked, Checks,
        flowVars, entryVars
<1>1. CASE ConnectFails
  BY <1>1 DEF ConnectFails, ClosesHeld, ClosedSock, Shows, Restored
<1>2. CASE \E c \in Conn : ConnectedToPair(c)
  BY <1>2 DEF ConnectedToPair, Proves
<1>3. CASE \E c \in Conn, n \in BOOLEAN : ConnectedToCheck(c, n)
  BY <1>3 DEF ConnectedToCheck
<1> QED
  BY <1>1, <1>2, <1>3

LEMMA PairLemma ==
    ASSUME IInv, PairBegins \/ PairBeginFails \/ ProgressDone
                   \/ \E r \in {"paired", "failed"} : PairEnds(r)
    PROVE  IInv'
<1> USE FlowAssumption DEF IInv, TypeOK, InStep, Closing, Checked, PinsTheOneChecked, Checks,
        flowVars, entryVars
<1>1. CASE PairBegins
  BY <1>1 DEF PairBegins
<1>2. CASE PairBeginFails
  BY <1>2 DEF PairBeginFails, ClosesHeld, ClosedSock
<1>3. CASE ProgressDone
  BY <1>3 DEF ProgressDone, ClosesHeld, ClosedSock, AfterPairing
<1>4. CASE \E r \in {"paired", "failed"} : PairEnds(r)
  BY <1>4 DEF PairEnds
<1> QED
  BY <1>1, <1>2, <1>3, <1>4

LEMMA ClosedLemma == ASSUME IInv, Closed PROVE IInv'
<1> USE FlowAssumption DEF IInv, TypeOK, InStep, Closing, Checked, PinsTheOneChecked, Checks,
        flowVars, entryVars
<1>1. CASE then = "validated"
  <2>1. /\ here' \in BOOLEAN /\ pc' \in {"form", "over"} /\ local' = None
        /\ page' \in {page, "pair"} /\ uid' = peer[local] /\ local \in Conn
    BY <1>1 DEF Closed, Validated, Leaves, Shows
  <2>2. /\ kind = "user" /\ held' = None /\ entry' \in {entry, "setup"}
        /\ UNCHANGED <<kind, goal, then, task, sock, peer, at, owner, pin>>
    BY <1>1 DEF Closed, Validated
  <2> QED
    BY <2>1, <2>2
<1>2. CASE then = "recheck"
  <2>1. /\ here' \in BOOLEAN /\ pc' \in {"form", "over"} /\ local' = None
        /\ \/ pc' = "over" /\ page' = page
           \/ page' = "pair" /\ owner = peer[local]
    BY <1>2 DEF Closed, Rechecked, Leaves, Shows
  <2>2. /\ kind = "reauth" /\ local \in Conn /\ held' = None
        /\ UNCHANGED <<uid, kind, goal, then, task, sock, peer, at, entryVars>>
    BY <1>2 DEF Closed, Rechecked
  <2> QED
    BY <2>1, <2>2
<1>3. CASE then = "moved"
  BY <1>3 DEF Closed, Moved, Leaves
<1>4. CASE then = "restore"
  BY <1>4, ZenonT(60) DEF Closed, NotMoved, Restored, Leaves, Shows
<1>5. CASE then = "pair"
  BY <1>5 DEF Closed, Shows
<1>6. CASE then = "done"
  BY <1>6 DEF Closed, Paired, Leaves
<1>7. CASE then \in {"abort", "failed"}
  BY <1>7 DEF Closed, Leaves
<1> QED
  BY <1>1, <1>2, <1>3, <1>4, <1>5, <1>6, <1>7

LEMMA RestLemma ==
    ASSUME IInv, (\E c \in Conn : SocketGone(c)) \/ EntryLoads \/ AddressMoves
    PROVE  IInv'
<1> USE FlowAssumption DEF IInv, TypeOK, InStep, Closing, Checked, PinsTheOneChecked, Checks,
        flowVars, entryVars
<1>1. CASE \E c \in Conn : SocketGone(c)
  BY <1>1 DEF SocketGone
<1>2. CASE EntryLoads
  BY <1>2 DEF EntryLoads
<1>3. CASE AddressMoves
  BY <1>3 DEF AddressMoves
<1> QED
  BY <1>1, <1>2, <1>3

LEMMA FlowLemma == ASSUME IInv, [Next]_vars PROVE IInv'
<1>1. CASE UNCHANGED vars
  BY <1>1 DEF vars, IInv, TypeOK, InStep, Closing, Checked, PinsTheOneChecked
<1>2. CASE Next
  BY <1>2, FormLemma, ConnectLemma, PairLemma, ClosedLemma, RestLemma DEF Next
<1> QED
  BY <1>1, <1>2

THEOREM Invariance == Spec => []IInv
<1> QED
  BY InitLemma, FlowLemma, PTL DEF Spec

\* The flow's state is what its comments say, and there is an id to compare
\* with whenever the pair form is up (async_step_pair).
THEOREM TypeCorrect == Spec => []TypeOK
<1>1. IInv => TypeOK
  BY DEF IInv
<1> QED
  BY <1>1, Invariance, PTL

\* An entry pins the certificate of the panel it is named after (HA14).
THEOREM OneChecked == Spec => []PinsTheOneChecked
<1>1. IInv => PinsTheOneChecked
  BY DEF IInv
<1> QED
  BY <1>1, Invariance, PTL

\* A flow that ends, by a step or by the person, leaves no connection of its
\* own open (async_remove, _async_close_client, HA07).
THEOREM LetsGo == Spec => FlowLetsGo
<1>1. IInv /\ [Next]_vars =>
        [here /\ ~here' => \A c \in {held, held'} \ {None} : sock'[c] # "open"]_vars
  <2> SUFFICES ASSUME IInv, Next, here, ~here', NEW c \in {held, held'} \ {None}
               PROVE  sock'[c] # "open"
    OBVIOUS
  <2>1. CASE UnloadRefused
    BY <2>1 DEF UnloadRefused, IInv, InStep, Closing
  <2>2. CASE Removed
    BY <2>2 DEF Removed, RemovesClient, ClosedSock, IInv, TypeOK
  <2>3. CASE Closed
    <3>1. sock' = sock /\ held' \in {held, None} /\ held \in {None, local}
      BY <2>3 DEF Closed, IInv, Closing
    <3> QED
      BY <3>1 DEF IInv, Closing
  <2>4. here' # here
    OBVIOUS
  <2> QED
    BY <2>1, <2>2, <2>3, <2>4 DEF Next, Starts, SubmitAddress, UnloadDone, SubmitPair, StepCancelled,
       ConnectFails, ConnectedToPair, ConnectedToCheck, PairBegins, PairBeginFails, PairEnds,
       ProgressDone, ClosesHeld, SocketGone, EntryLoads, AddressMoves, flowVars
<1> QED
  BY <1>1, Invariance, PTL DEF Spec, FlowLetsGo

\* When the flow has the entry set up, its own connection is off the panel's
\* one slot (async_step_pair_done, async_step_reconfigure).
THEOREM SetsUp == Spec => SetsUpAlone
<1>1. IInv /\ [Next]_vars =>
        [entry # "setup" /\ entry' = "setup" =>
           \A c \in {local, held} \ {None} : sock'[c] # "open"]_vars
  <2> SUFFICES ASSUME IInv, Next, entry # "setup", entry' = "setup",
                      NEW c \in {local, held} \ {None}
               PROVE  sock'[c] # "open"
    OBVIOUS
  <2>1. CASE StepCancelled
    BY <2>1 DEF StepCancelled, IInv, TypeOK, InStep, Closing
  <2>2. CASE ConnectFails
    BY <2>2 DEF ConnectFails, ClosesHeld, IInv, TypeOK, InStep, Closing
  <2>3. CASE Closed
    BY <2>3 DEF Closed, IInv, Closing
  <2> QED
    BY <2>1, <2>2, <2>3 DEF Next, Starts, SubmitAddress, UnloadDone, UnloadRefused, SubmitPair, Removed,
       ConnectedToPair, ConnectedToCheck, PairBegins, PairBeginFails, PairEnds,
       ProgressDone, ClosesHeld, SocketGone, EntryLoads, AddressMoves, entryVars
<1> QED
  BY <1>1, Invariance, PTL DEF Spec, SetsUpAlone
=============================================================================

-------------------------- MODULE DeviceCallsProofs --------------------------
(***************************************************************************)
(* At most once, one answer, and no untracked work, for any number of ids, *)
(* entities, tasks and limits.                                             *)
(***************************************************************************)
EXTENDS DeviceCalls, FiniteSetTheorems, TLAPS

Stage(i) == IF calls[i] = None THEN "none" ELSE task[calls[i]].phase

\* A tracked id is tracked by a task of its own that is not gone, and a task at
\* work is tracked.
Tracking ==
    /\ \A i \in Id : calls[i] # None =>
         task[calls[i]].id = i /\ task[calls[i]].phase \notin {"free", "cancelled"}
    /\ \A t \in Active : task[t].id \in Id
    /\ WorkIsTracked

\* The insertion order lists remembered ids, each once.
OrderIsKeys ==
    /\ \A k \in 1..Len(order) : answered[order[k]] # None
    /\ \A k, l \in 1..Len(order) : order[k] = order[l] => k = l

\* What an id has been given and has had done is fixed by where it stands.
LedgerOf(i) ==
    /\ Stage(i) = "ready" => answered[i] = None /\ acted[i] = 0
    /\ Stage(i) = "acting" => answered[i] = None /\ acted[i] = 1
    /\ answered[i] = None /\ Stage(i) # "acting" => acted[i] = 0
    /\ acted[i] <= 1
    /\ given[i] = IF answered[i] = None THEN {} ELSE {answered[i]}

Ledger == \A i \in Id : LedgerOf(i)

IInv == TypeOK /\ Tracking /\ OrderIsKeys /\ Ledger

------------------------------------------------------------------------------

\* _remember on an id it does not hold adds that id and drops at most others
\* it holds.
LEMMA RememberLemma ==
    ASSUME CallsAssumption, TypeOK, OrderIsKeys, NEW i \in Id, answered[i] = None,
           NEW a \in Answer, Remember(i, a)
    PROVE  /\ order' \in Seq(Id) /\ Len(order') <= ANSWERED_MAX /\ OrderIsKeys'
           /\ \E d \in SUBSET (Id \ {i}) :
                /\ \A j \in d : answered[j] # None
                /\ answered' = [j \in Id |-> IF j \in d THEN None
                                             ELSE IF j = i THEN a ELSE answered[j]]
                /\ given' = [j \in Id |-> IF j \in d THEN {}
                                          ELSE IF j = i THEN given[j] \cup {a} ELSE given[j]]
                /\ acted' = [j \in Id |-> IF j \in d THEN 0 ELSE acted[j]]
<1> DEFINE o == Append(order, i)
<1>0. /\ a # None /\ order \in Seq(Id) /\ ANSWERED_MAX \in Nat \ {0}
      /\ Len(order) <= ANSWERED_MAX
  BY DEF CallsAssumption, Answer, TypeOK
<1>1. /\ o \in Seq(Id) /\ Len(o) = Len(order) + 1
      /\ \A k \in 1..Len(order) : o[k] = order[k]
      /\ o[Len(order) + 1] = i
  BY <1>0
<1>2. \A k \in 1..Len(order) : order[k] # i
  BY DEF OrderIsKeys
<1>3. \A k, l \in 1..Len(o) : o[k] = o[l] => k = l
  BY <1>0, <1>1, <1>2 DEF OrderIsKeys
<1>4. CASE ~(Len(o) > ANSWERED_MAX)
  <2>1. /\ order' = o
        /\ answered' = [j \in Id |-> IF j = i THEN a ELSE answered[j]]
        /\ given' = [j \in Id |-> IF j = i THEN given[j] \cup {a} ELSE given[j]]
        /\ acted' = acted
    BY <1>4 DEF Remember, TypeOK
  <2>2. \A k \in 1..Len(o) : answered'[o[k]] # None
    BY <1>0, <1>1, <1>2, <2>1 DEF OrderIsKeys
  <2>3. OrderIsKeys'
    BY <1>3, <2>1, <2>2 DEF OrderIsKeys
  <2> DEFINE d == {}
  <2>4. /\ answered' = [j \in Id |-> IF j \in d THEN None ELSE IF j = i THEN a ELSE answered[j]]
        /\ given' = [j \in Id |-> IF j \in d THEN {}
                                  ELSE IF j = i THEN given[j] \cup {a} ELSE given[j]]
        /\ acted' = [j \in Id |-> IF j \in d THEN 0 ELSE acted[j]]
    BY <2>1 DEF TypeOK
  <2>5. d \in SUBSET (Id \ {i}) /\ \A j \in d : answered[j] # None
    OBVIOUS
  <2> HIDE DEF d
  <2>6. Len(order') <= ANSWERED_MAX
    BY <1>0, <1>1, <1>4, <2>1
  <2> QED
    BY <1>1, <2>1, <2>3, <2>4, <2>5, <2>6
<1>5. CASE Len(o) > ANSWERED_MAX
  <2> DEFINE h == Head(o)
  <2>1. Len(order) \in Nat /\ Len(order) >= 1
    BY <1>0, <1>1, <1>5
  <2>2. h = order[1] /\ h \in Id /\ h # i /\ answered[h] # None
    BY <1>0, <1>1, <1>2, <2>1 DEF OrderIsKeys
  <2>3. /\ order' = Tail(o)
        /\ answered' = [j \in Id |-> IF j \in {h} THEN None ELSE IF j = i THEN a ELSE answered[j]]
        /\ given' = [j \in Id |-> IF j \in {h} THEN {}
                                  ELSE IF j = i THEN given[j] \cup {a} ELSE given[j]]
        /\ acted' = [j \in Id |-> IF j \in {h} THEN 0 ELSE acted[j]]
    BY <1>5 DEF Remember
  <2>4. /\ Tail(o) \in Seq(Id) /\ Len(Tail(o)) = Len(order)
        /\ \A k \in 1..Len(order) : Tail(o)[k] = o[k + 1]
    BY <1>0, <1>1, <2>1
  <2>5. \A k \in 1..Len(order) : Tail(o)[k] # h
    <3> SUFFICES ASSUME NEW k \in 1..Len(order) PROVE Tail(o)[k] # h
      OBVIOUS
    <3>1. k + 1 \in 1..Len(o) /\ 1 \in 1..Len(o) /\ k + 1 # 1 /\ h = o[1]
      BY <1>0, <1>1, <2>1
    <3> QED
      BY <1>3, <2>4, <3>1
  <2>6. \A k \in 1..Len(order) : answered'[Tail(o)[k]] # None
    <3> SUFFICES ASSUME NEW k \in 1..Len(order) PROVE answered'[Tail(o)[k]] # None
      OBVIOUS
    <3>1. Tail(o)[k] \in Id \ {h} /\ Tail(o)[k] = o[k + 1]
      BY <2>4, <2>5
    <3>2. CASE k + 1 \in 1..Len(order)
      BY <1>0, <1>1, <2>3, <3>1, <3>2 DEF OrderIsKeys
    <3>3. CASE k + 1 = Len(order) + 1
      BY <1>0, <1>1, <2>3, <3>1, <3>3
    <3> QED
      BY <2>1, <3>2, <3>3
  <2>7. \A k, l \in 1..Len(order) : Tail(o)[k] = Tail(o)[l] => k = l
    <3> SUFFICES ASSUME NEW k \in 1..Len(order), NEW l \in 1..Len(order),
                        Tail(o)[k] = Tail(o)[l]
                 PROVE  k = l
      OBVIOUS
    <3>1. k + 1 \in 1..Len(o) /\ l + 1 \in 1..Len(o) /\ o[k + 1] = o[l + 1]
      BY <1>1, <2>1, <2>4
    <3>2. k + 1 = l + 1
      BY <1>3, <3>1
    <3> QED
      BY <2>1, <3>2
  <2>8. OrderIsKeys'
    BY <2>3, <2>4, <2>6, <2>7 DEF OrderIsKeys
  <2> DEFINE d == {h}
  <2>9. d \in SUBSET (Id \ {i}) /\ \A j \in d : answered[j] # None
    BY <2>2
  <2>10. /\ answered' = [j \in Id |-> IF j \in d THEN None ELSE IF j = i THEN a ELSE answered[j]]
         /\ given' = [j \in Id |-> IF j \in d THEN {}
                                   ELSE IF j = i THEN given[j] \cup {a} ELSE given[j]]
         /\ acted' = [j \in Id |-> IF j \in d THEN 0 ELSE acted[j]]
    BY <2>3
  <2> HIDE DEF d
  <2>11. Len(order') <= ANSWERED_MAX
    BY <1>0, <2>3, <2>4
  <2> QED
    BY <2>3, <2>4, <2>8, <2>9, <2>10, <2>11
<1> QED
  BY <1>4, <1>5

------------------------------------------------------------------------------
(* One step of an answer being fixed: by a refusal, or by a task           *)

\* The answer to an id without a task: a call refused.
LEMMA RefusedLemma ==
    ASSUME CallsAssumption, IInv, NEW i \in Id, CallRefused(i)
    PROVE  IInv'
<1>1. answered[i] = None /\ calls[i] = None /\ "failed" \in Answer /\ Remember(i, "failed")
  BY DEF CallRefused, Running, Answer
<1>2. /\ order' \in Seq(Id) /\ Len(order') <= ANSWERED_MAX /\ OrderIsKeys'
      /\ UNCHANGED <<up, control, task, calls>>
  BY <1>1, RememberLemma DEF CallRefused, IInv
<1>3. PICK d \in SUBSET (Id \ {i}) :
        /\ \A j \in d : answered[j] # None
        /\ answered' = [j \in Id |-> IF j \in d THEN None
                                     ELSE IF j = i THEN "failed" ELSE answered[j]]
        /\ given' = [j \in Id |-> IF j \in d THEN {}
                                  ELSE IF j = i THEN given[j] \cup {"failed"} ELSE given[j]]
        /\ acted' = [j \in Id |-> IF j \in d THEN 0 ELSE acted[j]]
  BY <1>1, RememberLemma DEF IInv
<1>4. TypeOK'
  BY <1>1, <1>2, <1>3 DEF IInv, TypeOK
<1>5. Tracking'
  BY <1>2 DEF IInv, Tracking, WorkIsTracked, Active
<1>6. Ledger'
  <2> SUFFICES ASSUME NEW j \in Id PROVE LedgerOf(j)'
    BY DEF Ledger
  <2>1. Stage(j)' = Stage(j)
    BY <1>2 DEF Stage
  <2>2. "failed" # None
    BY DEF CallsAssumption
  <2> QED
    BY <1>1, <1>3, <2>1, <2>2 DEF IInv, Ledger, LedgerOf, TypeOK, Stage
<1> QED
  BY <1>2, <1>4, <1>5, <1>6 DEF IInv

\* The answer to an id whose task is at work: declined, or carried out.
LEMMA AnsweredLemma ==
    ASSUME CallsAssumption, IInv, NEW t \in TaskRef, task[t].phase \in {"ready", "acting"},
           NEW a \in Answer, Remember(task[t].id, a), Moves(t, "answering"),
           UNCHANGED <<up, control, calls>>
    PROVE  IInv'
<1> DEFINE i == task[t].id
<1>1. t \in Active /\ i \in Id /\ calls[i] = t /\ t # None
  BY DEF IInv, Tracking, WorkIsTracked, Active, CallsAssumption
<1>2. Stage(i) \in {"ready", "acting"} /\ answered[i] = None
  BY <1>1 DEF Stage, IInv, Ledger, LedgerOf
<1>3. order' \in Seq(Id) /\ Len(order') <= ANSWERED_MAX /\ OrderIsKeys'
  BY <1>1, <1>2, RememberLemma DEF IInv
<1>4. PICK d \in SUBSET (Id \ {i}) :
        /\ \A j \in d : answered[j] # None
        /\ answered' = [j \in Id |-> IF j \in d THEN None
                                     ELSE IF j = i THEN a ELSE answered[j]]
        /\ given' = [j \in Id |-> IF j \in d THEN {}
                                  ELSE IF j = i THEN given[j] \cup {a} ELSE given[j]]
        /\ acted' = [j \in Id |-> IF j \in d THEN 0 ELSE acted[j]]
  BY <1>1, <1>2, RememberLemma, ZenonT(60) DEF IInv
<1>5. task' \in [TaskRef -> Tasks] /\ task'[t].phase = "answering" /\ task'[t].id = i
      /\ \A u \in TaskRef \ {t} : task'[u] = task[u]
  BY DEF IInv, TypeOK, Moves, Tasks, Phase
<1>6. TypeOK'
  BY <1>3, <1>4, <1>5 DEF IInv, TypeOK
<1>7. Tracking'
  BY <1>1, <1>5 DEF IInv, TypeOK, Tracking, WorkIsTracked, Active
<1>8. Ledger'
  <2> SUFFICES ASSUME NEW j \in Id PROVE LedgerOf(j)'
    BY DEF Ledger
  <2>1. CASE j = i
    <3>1. Stage(j)' = "answering" /\ a # None
      BY <1>1, <1>5, <2>1 DEF Stage, CallsAssumption, Answer
    <3>2. /\ answered'[j] = a /\ given'[j] = given[j] \cup {a} /\ acted'[j] = acted[j]
          /\ given[j] = {} /\ acted[j] <= 1
      BY <1>1, <1>2, <1>4, <2>1 DEF IInv, Ledger, LedgerOf
    <3> QED
      BY <3>1, <3>2 DEF LedgerOf
  <2>2. CASE j # i
    <3>1. calls[j] # t
      BY <1>1, <2>2 DEF IInv, Tracking
    <3>2. Stage(j)' = Stage(j)
      BY <1>5, <3>1 DEF Stage, IInv, TypeOK
    <3>3. LedgerOf(j)
      BY DEF IInv, Ledger
    <3>4. CASE j \in d
      BY <1>4, <3>2, <3>3, <3>4 DEF LedgerOf
    <3>5. CASE j \notin d
      <4>1. /\ answered'[j] = answered[j] /\ given'[j] = given[j] /\ acted'[j] = acted[j]
        BY <1>4, <2>2, <3>5
      <4> QED
        BY <3>2, <3>3, <4>1 DEF LedgerOf
    <3> QED
      BY <3>4, <3>5
  <2> QED
    BY <2>1, <2>2
<1> QED
  BY <1>3, <1>6, <1>7, <1>8 DEF IInv

------------------------------------------------------------------------------
(* The other steps                                                         *)

\* A call accepted: its task is new, its id has no record yet.
LEMMA AcceptedLemma ==
    ASSUME CallsAssumption, IInv, NEW i \in Id, NEW e \in Entity, NEW t \in TaskRef,
           CallAccepted(i, e, t)
    PROVE  IInv'
<1>1. /\ calls[i] = None /\ answered[i] = None /\ task[t].phase = "free" /\ t # None
      /\ \A j \in Id : calls[j] # t
  BY DEF CallAccepted, Running, CallsAssumption, IInv, Tracking
<1>2. /\ task' \in [TaskRef -> Tasks] /\ calls' \in [Id -> TaskRef \cup {None}]
      /\ task'[t] = [phase |-> "ready", id |-> i, entity |-> e]
      /\ \A u \in TaskRef \ {t} : task'[u] = task[u]
      /\ calls'[i] = t /\ \A j \in Id \ {i} : calls'[j] = calls[j]
      /\ UNCHANGED <<up, control, answered, order, given, acted>>
  BY DEF CallAccepted, IInv, TypeOK, Tasks, Phase
<1>3. TypeOK' /\ OrderIsKeys'
  BY <1>2 DEF IInv, TypeOK, OrderIsKeys
<1>4. Tracking'
  <2>1. \A j \in Id : calls'[j] # None =>
          task'[calls'[j]].id = j /\ task'[calls'[j]].phase \notin {"free", "cancelled"}
    BY <1>1, <1>2 DEF IInv, TypeOK, Tracking
  <2>2. \A u \in TaskRef : task'[u].phase \in {"ready", "acting", "answering"} =>
          task'[u].id \in Id /\ calls'[task'[u].id] = u
    <3> SUFFICES ASSUME NEW u \in TaskRef, task'[u].phase \in {"ready", "acting", "answering"}
                 PROVE  task'[u].id \in Id /\ calls'[task'[u].id] = u
      OBVIOUS
    <3>1. CASE u = t
      BY <1>2, <3>1
    <3>2. CASE u # t
      <4>1. u \in Active /\ task'[u] = task[u] /\ task[u].id \in Id /\ calls[task[u].id] = u
        BY <1>2, <3>2 DEF IInv, Tracking, WorkIsTracked, Active
      <4>2. u # None
        BY DEF CallsAssumption
      <4> QED
        BY <1>1, <1>2, <4>1, <4>2
    <3> QED
      BY <3>1, <3>2
  <2> QED
    BY <2>1, <2>2 DEF Tracking, WorkIsTracked, Active
<1>5. Ledger'
  <2> SUFFICES ASSUME NEW j \in Id PROVE LedgerOf(j)'
    BY DEF Ledger
  <2>1. CASE j = i
    <3>1. /\ answered'[j] = None /\ acted'[j] = 0 /\ given'[j] = {}
      BY <1>1, <1>2, <2>1 DEF IInv, Ledger, LedgerOf, Stage
    <3>2. Stage(j)' = "ready"
      BY <1>1, <1>2, <2>1 DEF Stage
    <3> QED
      BY <3>1, <3>2 DEF LedgerOf
  <2>2. CASE j # i
    <3>1. Stage(j)' = Stage(j)
      BY <1>1, <1>2, <2>2 DEF Stage, IInv, TypeOK
    <3> QED
      BY <1>2, <3>1 DEF IInv, Ledger, LedgerOf
  <2> QED
    BY <2>1, <2>2
<1> QED
  BY <1>3, <1>4, <1>5 DEF IInv

LEMMA BeginsLemma ==
    ASSUME CallsAssumption, IInv, NEW t \in TaskRef, ActBegins(t)
    PROVE  IInv'
<1> DEFINE i == task[t].id
<1>1. task[t].phase = "ready" /\ t \in Active /\ i \in Id /\ calls[i] = t /\ t # None
  BY DEF ActBegins, IInv, Tracking, WorkIsTracked, Active, CallsAssumption
<1>2. acted[i] = 0 /\ answered[i] = None
  BY <1>1 DEF IInv, Ledger, LedgerOf, Stage
<1>3. /\ task' \in [TaskRef -> Tasks] /\ task'[t].phase = "acting" /\ task'[t].id = i
      /\ \A u \in TaskRef \ {t} : task'[u] = task[u]
      /\ UNCHANGED <<up, control, calls, answered, order, given>>
  BY DEF ActBegins, Moves, IInv, TypeOK, Tasks, Phase
<1>4. acted' \in [Id -> 0..2] /\ acted'[i] = 1 /\ \A j \in Id \ {i} : acted'[j] = acted[j]
  BY <1>1, <1>2 DEF ActBegins, IInv, TypeOK
<1>5. TypeOK' /\ OrderIsKeys'
  BY <1>3, <1>4 DEF IInv, TypeOK, OrderIsKeys
<1>6. Tracking'
  BY <1>1, <1>3 DEF IInv, TypeOK, Tracking, WorkIsTracked, Active
<1>7. Ledger'
  <2> SUFFICES ASSUME NEW j \in Id PROVE LedgerOf(j)'
    BY DEF Ledger
  <2>1. CASE j = i
    <3>1. Stage(j)' = "acting"
      BY <1>1, <1>3, <2>1 DEF Stage
    <3>2. answered'[j] = None /\ acted'[j] = 1 /\ given'[j] = {}
      BY <1>1, <1>2, <1>3, <1>4, <2>1 DEF IInv, Ledger, LedgerOf
    <3> QED
      BY <3>1, <3>2 DEF LedgerOf
  <2>2. CASE j # i
    <3>1. calls[j] # t
      BY <1>1, <2>2 DEF IInv, Tracking
    <3>2. Stage(j)' = Stage(j)
      BY <1>3, <3>1 DEF Stage, IInv, TypeOK
    <3> QED
      BY <1>3, <1>4, <2>2, <3>2 DEF IInv, Ledger, LedgerOf
  <2> QED
    BY <2>1, <2>2
<1> QED
  BY <1>5, <1>6, <1>7 DEF IInv

\* The answer is sent, or the done callback runs: only bookkeeping of a task
\* that is no longer at work changes.
LEMMA DoneLemma ==
    ASSUME CallsAssumption, IInv, NEW t \in TaskRef, AnswerSent(t) \/ CallDone(t)
    PROVE  IInv'
<1>1. task[t].phase \in {"answering", "finished", "cancelled"}
  BY DEF AnswerSent, CallDone
<1>2. /\ task' \in [TaskRef -> Tasks] /\ calls' \in [Id -> TaskRef \cup {None}]
      /\ \A u \in TaskRef \ {t} : task'[u] = task[u]
      /\ task'[t].phase \in {"finished", "free"}
      /\ \A j \in Id : calls'[j] = calls[j] \/ (calls[j] = t /\ calls'[j] = None)
      /\ task'[t].phase = "free" => \A j \in Id : calls'[j] # t
      /\ task'[t].phase = "finished" => calls' = calls /\ task[t].phase = "answering"
                                        /\ task'[t].id = task[t].id
      /\ UNCHANGED <<up, control, answered, order, given, acted>>
  <2>1. CASE AnswerSent(t)
    BY <2>1 DEF AnswerSent, Moves, IInv, TypeOK, Tasks, Phase
  <2>2. CASE CallDone(t)
    BY <2>2 DEF CallDone, CallsWithout, Free, IInv, TypeOK, Tasks, Phase, CallsAssumption
  <2> QED
    BY <2>1, <2>2
<1>3. TypeOK' /\ OrderIsKeys'
  BY <1>2 DEF IInv, TypeOK, OrderIsKeys
<1>4. Tracking'
  <2>1. \A i \in Id : calls'[i] # None =>
          task'[calls'[i]].id = i /\ task'[calls'[i]].phase \notin {"free", "cancelled"}
    BY <1>2 DEF IInv, TypeOK, Tracking
  <2>2. \A u \in TaskRef : task'[u].phase \in {"ready", "acting", "answering"} =>
          u # t /\ task'[u] = task[u] /\ u \in Active /\ calls'[task[u].id] = u
    BY <1>2 DEF IInv, TypeOK, Tracking, WorkIsTracked, Active
  <2> QED
    BY <2>1, <2>2 DEF IInv, Tracking, WorkIsTracked, Active
<1>5. Ledger'
  <2> SUFFICES ASSUME NEW j \in Id PROVE LedgerOf(j)'
    BY DEF Ledger
  <2>1. Stage(j)' = Stage(j)
        \/ (Stage(j) \notin {"ready", "acting"} /\ Stage(j)' \notin {"ready", "acting"})
    BY <1>1, <1>2 DEF Stage, IInv, TypeOK
  <2> QED
    BY <1>2, <2>1 DEF IInv, Ledger, LedgerOf
<1> QED
  BY <1>3, <1>4, <1>5 DEF IInv

\* The end of a session: all records are gone and nothing is at work.
LEMMA SessionLemma ==
    ASSUME CallsAssumption, IInv, SessionEnds
    PROVE  IInv'
<1>1. \A t \in Active : task[t].id \in Id /\ calls[task[t].id] = t
  BY DEF IInv, Tracking, WorkIsTracked
<1>2. task' = [t \in TaskRef |-> IF t \in Active THEN [task[t] EXCEPT !.phase = "cancelled"]
                                                 ELSE task[t]]
  BY <1>1 DEF SessionEnds, CancelledTasks
<1>3. task' \in [TaskRef -> Tasks]
  BY <1>2 DEF IInv, TypeOK, Tasks, Phase
<1>4. \A t \in TaskRef : task'[t].phase \notin {"ready", "acting", "answering"}
  BY <1>2 DEF IInv, TypeOK, Tasks, Active
<1>5. /\ calls' = Nothing /\ answered' = Nothing /\ order' = <<>>
      /\ given' = [i \in Id |-> {}] /\ acted' = [i \in Id |-> 0]
      /\ UNCHANGED control /\ up' = FALSE
  BY DEF SessionEnds
<1>6. TypeOK'
  <2>1. up' \in BOOLEAN /\ control' \subseteq Entity
    BY <1>5 DEF IInv, TypeOK
  <2>2. /\ calls' \in [Id -> TaskRef \cup {None}] /\ answered' \in [Id -> Answer \cup {None}]
        /\ order' \in Seq(Id) /\ given' \in [Id -> SUBSET Answer] /\ acted' \in [Id -> 0..2]
        /\ Len(order') <= ANSWERED_MAX
    BY <1>5 DEF Nothing, CallsAssumption
  <2> QED
    BY <1>3, <2>1, <2>2 DEF TypeOK
<1> QED
  BY <1>4, <1>5, <1>6
  DEF IInv, Tracking, WorkIsTracked, Active, OrderIsKeys, Ledger, LedgerOf, Stage, Nothing

LEMMA InitLemma == CallsAssumption /\ Init => IInv
<1> SUFFICES ASSUME CallsAssumption, Init PROVE IInv
  OBVIOUS
<1>1. task \in [TaskRef -> Tasks] /\ \A t \in TaskRef : task[t].phase = "free"
  BY DEF Init, Free, Tasks, Phase
<1>2. TypeOK
  BY <1>1 DEF Init, TypeOK, Nothing, CallsAssumption
<1> QED
  BY <1>1, <1>2 DEF Init, IInv, Tracking, WorkIsTracked, Active, OrderIsKeys, Ledger, LedgerOf, Stage, Nothing

\* The inductive invariant holds in every reachable state.
THEOREM Invariance == Spec => []IInv
<1>1. CallsAssumption
  BY CallsAssumption
<1>2. Init => IInv
  BY <1>1, InitLemma
<1>3. IInv /\ [Next]_vars => IInv'
  <2> SUFFICES ASSUME IInv, [Next]_vars PROVE IInv'
    OBVIOUS
  <2>1. CASE \E i \in Id : CallRefused(i)
    BY <1>1, <2>1, RefusedLemma
  <2>2. CASE \E i \in Id, e \in Entity, t \in TaskRef : CallAccepted(i, e, t)
    BY <1>1, <2>2, AcceptedLemma
  <2>3. ASSUME NEW t \in TaskRef, ActDeclined(t) \/ ActEnds(t)
        PROVE  IInv'
    <3>1. PICK a \in Answer : Remember(task[t].id, a)
      BY <2>3 DEF ActDeclined, ActEnds, Answer
    <3>2. /\ task[t].phase \in {"ready", "acting"} /\ Moves(t, "answering")
          /\ UNCHANGED <<up, control, calls>>
      BY <2>3 DEF ActDeclined, ActEnds
    <3> QED
      BY <1>1, <3>1, <3>2, AnsweredLemma
  <2>4. CASE \E t \in TaskRef : ActBegins(t)
    BY <1>1, <2>4, BeginsLemma
  <2>5. CASE \E t \in TaskRef : AnswerSent(t) \/ CallDone(t)
    BY <1>1, <2>5, DoneLemma
  <2>6. CASE SessionEnds
    BY <1>1, <2>6, SessionLemma
  <2>7. ASSUME NEW i \in Id, CallRepeated(i)
        PROVE  IInv'
    <3>1. given' = given
      BY <2>7 DEF CallRepeated, IInv, TypeOK, Ledger, LedgerOf
    <3> QED
      BY <2>7, <3>1 DEF CallRepeated, IInv, TypeOK, Tracking, WorkIsTracked, Active,
                        OrderIsKeys, Ledger, LedgerOf, Stage
  <2>8. CASE \/ Reconnects \/ UNCHANGED vars
             \/ \E i \in Id : CallIgnored(i)
             \/ \E c \in SUBSET Entity : OptionsChange(c)
    <3>1. /\ UNCHANGED <<task, calls, answered, order, given, acted>>
          /\ up' \in BOOLEAN /\ control' \subseteq Entity
      BY <2>8 DEF Reconnects, CallIgnored, OptionsChange, vars, IInv, TypeOK
    <3> QED
      BY <3>1 DEF IInv, TypeOK, Tracking, WorkIsTracked, Active, OrderIsKeys, Ledger, LedgerOf, Stage
  <2> QED
    BY <2>1, <2>2, <2>3, <2>4, <2>5, <2>6, <2>7, <2>8 DEF Next
<1> QED
  BY <1>2, <1>3, PTL DEF Spec

\* Every variable keeps its type.
THEOREM TypeCorrect == Spec => []TypeOK
  BY Invariance, PTL DEF IInv

\* However often the panel repeats a call on a connection, the device action
\* behind it is carried out at most once while its answer is remembered.
THEOREM RunsAtMostOnce == Spec => []AtMostOnce
<1>1. IInv => AtMostOnce
  BY DEF IInv, Ledger, LedgerOf, AtMostOnce
<1> QED
  BY <1>1, Invariance, PTL

\* ... and it is never answered in two ways.
THEOREM OneAnswer == Spec => []AnswersAgree
<1>1. IInv => AnswersAgree
  <2> SUFFICES ASSUME IInv, NEW i \in Id PROVE Cardinality(given[i]) <= 1
    BY DEF AnswersAgree
  <2>1. given[i] = {} \/ \E a \in Answer : given[i] = {a}
    BY DEF IInv, Ledger, LedgerOf, TypeOK
  <2>2. \A a \in Answer : Cardinality({a}) = 1
    BY FS_Singleton
  <2>3. Cardinality({}) = 0
    BY FS_EmptySet
  <2> QED
    BY <2>1, <2>2, <2>3
<1> QED
  BY <1>1, Invariance, PTL

\* A device action still at work is always within reach of the end of its
\* session: the task tracked under its id.
THEOREM WorkTracked == Spec => []WorkIsTracked
<1>1. IInv => WorkIsTracked
  BY DEF IInv, Tracking
<1> QED
  BY <1>1, Invariance, PTL

\* A call that stops being outstanding has its answer, or has lost its session.
LEMMA AnsweredOrOver ==
    ASSUME CallsAssumption, IInv, Next, NEW i \in Id, Outstanding(i), ~Outstanding(i)'
    PROVE  answered'[i] # None \/ ~up'
<1> DEFINE w == calls[i]
<1>1. w \in TaskRef /\ w # None /\ task[w].id = i /\ task[w].phase \in {"ready", "acting"}
  BY DEF Outstanding, IInv, TypeOK, Tracking
<1>2. calls'[i] # w \/ task'[w].phase \notin {"ready", "acting"}
  BY <1>1 DEF Outstanding
<1>3. CASE SessionEnds
  BY <1>3 DEF SessionEnds
<1>4. ASSUME NEW t \in TaskRef, ActDeclined(t) \/ ActEnds(t)
      PROVE  answered'[i] # None
  <2>1. t = w
    BY <1>1, <1>2, <1>4 DEF ActDeclined, ActEnds, Moves, IInv, TypeOK
  <2>2. PICK a \in Answer : Remember(i, a)
    BY <1>1, <1>4, <2>1 DEF ActDeclined, ActEnds, Answer
  <2>3. answered[i] = None
    BY <1>1 DEF IInv, Ledger, LedgerOf, Stage
  <2>4. answered'[i] = a
    BY <2>2, <2>3, RememberLemma DEF IInv
  <2> QED
    BY <2>4 DEF CallsAssumption, Answer
<1>5. ASSUME NEW t \in TaskRef, ActBegins(t) \/ AnswerSent(t) \/ CallDone(t)
      PROVE  FALSE
  <2>1. CASE ActBegins(t)
    BY <1>1, <1>2, <2>1 DEF ActBegins, Moves, IInv, TypeOK, Tasks
  <2>2. CASE AnswerSent(t)
    BY <1>1, <1>2, <2>2 DEF AnswerSent, Moves, IInv, TypeOK
  <2>3. CASE CallDone(t)
    BY <1>1, <1>2, <2>3 DEF CallDone, CallsWithout, Free, IInv, TypeOK
  <2> QED
    BY <1>5, <2>1, <2>2, <2>3
<1>6. ASSUME NEW j \in Id, NEW e \in Entity, NEW t \in TaskRef, CallAccepted(j, e, t)
      PROVE  FALSE
  BY <1>1, <1>2, <1>6 DEF CallAccepted, Running, IInv, TypeOK
<1>7. CASE \/ Reconnects
           \/ \E j \in Id : CallIgnored(j) \/ CallRepeated(j) \/ CallRefused(j)
           \/ \E c \in SUBSET Entity : OptionsChange(c)
  <2>1. UNCHANGED <<task, calls>>
    BY <1>7 DEF Reconnects, CallIgnored, CallRepeated, CallRefused, OptionsChange, vars
  <2> QED
    BY <1>1, <1>2, <2>1
<1> QED
  BY <1>3, <1>4, <1>5, <1>6, <1>7 DEF Next

\* An accepted call never silently ceases: it is answered or its session ends.
THEOREM NothingForgotten == Spec => NoCallForgotten
<1>1. CallsAssumption
  BY CallsAssumption
<1>2. IInv /\ [Next]_vars =>
        [\A i \in Id : Outstanding(i) /\ ~Outstanding(i)' => answered'[i] # None \/ ~up']_vars
  BY <1>1, AnsweredOrOver DEF vars
<1> QED
  BY <1>2, Invariance, PTL DEF Spec, NoCallForgotten
------------------------------------------------------------------------------

\* No more ids are tracked than the limit allows.
TrackedBounded == IsFiniteSet(Tracked) /\ Cardinality(Tracked) <= CALLS_MAX

\* A step that is not an acceptance tracks no new id; an acceptance tracks one
\* more, below the limit.
LEMMA TrackedStep ==
    ASSUME CallsAssumption, IInv, TrackedBounded, [Next]_vars
    PROVE  TrackedBounded'
<1>1. CASE \E i \in Id, e \in Entity, t \in TaskRef : CallAccepted(i, e, t)
  <2>1. PICK i \in Id, t \in TaskRef : calls' = [calls EXCEPT ![i] = t] /\ ~Full
    BY <1>1 DEF CallAccepted
  <2>2. Tracked' = Tracked \cup {i}
    BY <2>1 DEF Tracked, IInv, TypeOK, CallsAssumption
  <2>3. Cardinality(Tracked) \in Nat
    BY FS_CardinalityType DEF TrackedBounded
  <2>4. Cardinality(Tracked) + 1 <= CALLS_MAX
    BY <2>1, <2>3 DEF Full, CallsAssumption
  <2>5. /\ IsFiniteSet(Tracked \cup {i})
        /\ Cardinality(Tracked \cup {i}) <= Cardinality(Tracked) + 1
    BY <2>3, FS_AddElement DEF TrackedBounded
  <2>6. Cardinality(Tracked \cup {i}) \in Nat
    BY <2>5, FS_CardinalityType
  <2>7. Cardinality(Tracked \cup {i}) <= CALLS_MAX
    BY <2>3, <2>4, <2>5, <2>6 DEF CallsAssumption
  <2> QED
    BY <2>2, <2>5, <2>7 DEF TrackedBounded
<1>2. CASE ~\E i \in Id, e \in Entity, t \in TaskRef : CallAccepted(i, e, t)
  <2>1. CASE calls' = calls
    BY <2>1 DEF TrackedBounded, Tracked
  <2>2. CASE SessionEnds \/ \E t \in TaskRef : CallDone(t)
    <3>1. Tracked' \subseteq Tracked
      BY <2>2 DEF SessionEnds, CallDone, CallsWithout, Nothing, Tracked
    <3>2. /\ IsFiniteSet(Tracked')
          /\ Cardinality(Tracked') <= Cardinality(Tracked)
      BY <3>1, FS_Subset DEF TrackedBounded
    <3>3. Cardinality(Tracked) \in Nat /\ Cardinality(Tracked') \in Nat
      BY <3>2, FS_CardinalityType DEF TrackedBounded
    <3> QED
      BY <3>2, <3>3 DEF TrackedBounded, CallsAssumption
  <2>3. calls' = calls \/ SessionEnds \/ \E t \in TaskRef : CallDone(t)
    BY <1>2 DEF Next, CallIgnored, CallRepeated, CallRefused, ActDeclined, ActBegins,
                ActEnds, AnswerSent, Reconnects, OptionsChange, vars
  <2> QED
    BY <2>1, <2>2, <2>3
<1> QED
  BY <1>1, <1>2

\* However many calls the panel sends, no more than CALLS_MAX device actions
\* are at work at once, those of an ended session included.
THEOREM BoundedWork == Spec => []ActionsBounded
<1>1. CallsAssumption
  BY CallsAssumption
<1>2. Init => TrackedBounded
  <2>1. Init => Tracked = {}
    BY DEF Init, Nothing, Tracked
  <2> QED
    BY <1>1, <2>1, FS_EmptySet DEF TrackedBounded, CallsAssumption
<1>3. IInv /\ TrackedBounded /\ [Next]_vars => TrackedBounded'
  BY <1>1, TrackedStep
<1>4. IInv /\ TrackedBounded => ActionsBounded
  <2> SUFFICES ASSUME IInv, TrackedBounded PROVE ActionsBounded
    OBVIOUS
  <2> DEFINE f == [t \in Active |-> task[t].id]
  <2>1. \A t \in Active : task[t].id \in Id /\ calls[task[t].id] = t /\ t # None
    BY <1>1 DEF IInv, Tracking, WorkIsTracked, Active, CallsAssumption
  <2>2. f \in [Active -> Tracked]
    BY <2>1 DEF Tracked
  <2>3. \A t, u \in Active : f[t] = f[u] => t = u
    BY <2>1
  <2>4. f \in Injection(Active, Tracked)
    BY <2>2, <2>3 DEF Injection, IsInjective
  <2>5. IsFiniteSet(Active) /\ Cardinality(Active) <= Cardinality(Tracked)
    BY <2>4, FS_Injection DEF TrackedBounded
  <2>6. Cardinality(Active) \in Nat /\ Cardinality(Tracked) \in Nat
    BY <2>5, FS_CardinalityType DEF TrackedBounded
  <2> QED
    BY <1>1, <2>5, <2>6 DEF TrackedBounded, ActionsBounded, CallsAssumption
<1> QED
  BY <1>2, <1>3, <1>4, Invariance, PTL DEF Spec
==============================================================================

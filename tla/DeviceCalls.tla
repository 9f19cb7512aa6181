----------------------------- MODULE DeviceCalls -----------------------------
(***************************************************************************)
(* Device actions: the panel asks for one with a `call' message, each runs *)
(* in a task of its own beside the receive loop, and each accepted id is   *)
(* answered once per connection.  Modelled: _calls with its limit, the     *)
(* done callbacks that empty it, _answered with its limit, the checks made *)
(* when the action runs, timeouts, and the end of a session, which cancels *)
(* the tasks of its connection while the next one may begin.               *)
(***************************************************************************)
EXTENDS Naturals, Sequences, FiniteSets

CONSTANTS
    Id,            \* call ids the panel uses
    Entity,
    TaskRef,       \* asyncio tasks, used again once gone
    None,
    CALLS_MAX,
    ANSWERED_MAX

ASSUME CallsAssumption ==
    /\ None \notin TaskRef \cup {"done", "failed", "timeout", "not_allowed", "unavailable"}
    /\ CALLS_MAX \in Nat \ {0} /\ ANSWERED_MAX \in Nat \ {0}

VARIABLES
    up,          \* a connection is there
    control,     \* the entities the options let the panel act on
    task,        \* each task: where it is, the id and the entity it is for
    calls,       \* _calls
    answered,    \* _answered: the answer each id was given, or None
    order,       \* the insertion order of _answered
    given,       \* ghost: every answer an id has been given on this connection
    acted        \* ghost: its service calls on this connection, 2 for "more"
                 \* (both since _remember last dropped the id, if it has)

vars == <<up, control, task, calls, answered, order, given, acted>>

Answer == {"done", "failed", "timeout", "not_allowed", "unavailable"}
Phase == {"free", "ready", "acting", "answering", "finished", "cancelled"}
Tasks == [phase : Phase, id : Id \cup {None}, entity : Entity \cup {None}]
Free == [phase |-> "free", id |-> None, entity |-> None]

Remembered == {i \in Id : answered[i] # None}
Tracked == {i \in Id : calls[i] # None}
Active == {t \in TaskRef : task[t].phase \in {"ready", "acting", "answering"}}

TypeOK ==
    /\ up \in BOOLEAN /\ control \subseteq Entity
    /\ task \in [TaskRef -> Tasks]
    /\ calls \in [Id -> TaskRef \cup {None}]
    /\ answered \in [Id -> Answer \cup {None}]
    /\ order \in Seq(Id) /\ Len(order) <= ANSWERED_MAX
    /\ given \in [Id -> SUBSET Answer] /\ acted \in [Id -> 0..2]

Nothing == [i \in Id |-> None]

Init ==
    /\ up = TRUE /\ control \in SUBSET Entity
    /\ task = [t \in TaskRef |-> Free]
    /\ calls = Nothing /\ answered = Nothing /\ order = <<>>
    /\ given = [i \in Id |-> {}] /\ acted = [i \in Id |-> 0]

------------------------------------------------------------------------------
(* _remember and the answers                                               *)

\* The oldest answers beyond the limit are dropped.
Remember(i, a) ==
    LET o == Append(order, i)
        full == Len(o) > ANSWERED_MAX
    IN /\ answered' = [j \in Id |-> IF full /\ j = Head(o) THEN None
                                    ELSE IF j = i THEN a ELSE answered[j]]
       /\ order' = IF full THEN Tail(o) ELSE o
       /\ given' = [j \in Id |-> IF full /\ j = Head(o) THEN {}
                                 ELSE IF j = i THEN given[j] \cup {a} ELSE given[j]]
       /\ acted' = [j \in Id |-> IF full /\ j = Head(o) THEN 0 ELSE acted[j]]

Moves(t, p) == task' = [task EXCEPT ![t].phase = p]

------------------------------------------------------------------------------
(* A call comes in: _async_start_call                                      *)

Running(i) == calls[i] # None
Full == Cardinality(Tracked) >= CALLS_MAX

\* Still running: its own task gives the one answer.
CallIgnored(i) == up /\ Running(i) /\ UNCHANGED vars

\* Answered before: the same answer again.
CallRepeated(i) ==
    /\ up /\ ~Running(i) /\ answered[i] # None
    /\ given' = [given EXCEPT ![i] = @ \cup {answered[i]}]
    /\ UNCHANGED <<up, control, task, calls, answered, order, acted>>

\* (slip) The limit is looked at before the answers that were given.
CallRefusedFirst(i) ==
    /\ up /\ ~Running(i) /\ Full
    /\ Remember(i, "failed")
    /\ UNCHANGED <<up, control, task, calls>>

\* Too many running: refused, and remembered as that.
CallRefused(i) ==
    /\ up /\ ~Running(i) /\ answered[i] = None /\ Full
    /\ Remember(i, "failed")
    /\ UNCHANGED <<up, control, task, calls>>

\* (slip) The answers given are not looked at.
CallAcceptedAgain(i, e, t) ==
    /\ up /\ ~Running(i) /\ ~Full
    /\ task[t].phase = "free"
    /\ task' = [task EXCEPT ![t] = [phase |-> "ready", id |-> i, entity |-> e]]
    /\ calls' = [calls EXCEPT ![i] = t]
    /\ UNCHANGED <<up, control, answered, order, given, acted>>

CallAccepted(i, e, t) ==
    /\ up /\ ~Running(i) /\ answered[i] = None /\ ~Full
    /\ task[t].phase = "free"
    /\ task' = [task EXCEPT ![t] = [phase |-> "ready", id |-> i, entity |-> e]]
    /\ calls' = [calls EXCEPT ![i] = t]
    /\ UNCHANGED <<up, control, answered, order, given, acted>>

------------------------------------------------------------------------------
(* A task: _async_call, _async_act, _async_call_result                     *)

MayAct(t) == task[t].entity \in control

ActDeclined(t) ==
    /\ task[t].phase = "ready"
    /\ \/ Remember(task[t].id, "not_allowed")
       \/ MayAct(t) /\ Remember(task[t].id, "unavailable")
    /\ Moves(t, "answering")
    /\ UNCHANGED <<up, control, calls>>

ActBegins(t) ==
    /\ task[t].phase = "ready" /\ MayAct(t)
    /\ acted' = [acted EXCEPT ![task[t].id] = IF @ < 2 THEN @ + 1 ELSE @]
    /\ Moves(t, "acting")
    /\ UNCHANGED <<up, control, calls, answered, order, given>>

\* (slip) A service call that runs into its deadline is given up silently.
ActEndsSilently(t) ==
    /\ task[t].phase = "acting"
    /\ \/ (\E a \in {"done", "failed"} : Remember(task[t].id, a)) /\ Moves(t, "answering")
       \/ Moves(t, "finished") /\ UNCHANGED <<answered, order, given, acted>>
    /\ UNCHANGED <<up, control, calls>>

\* The service returned, raised, or ran into _CALL_TIMEOUT_S.
ActEnds(t) ==
    /\ task[t].phase = "acting"
    /\ \E a \in {"done", "failed", "timeout"} : Remember(task[t].id, a)
    /\ Moves(t, "answering")
    /\ UNCHANGED <<up, control, calls>>

\* The answer is out, or its send has raised.
AnswerSent(t) ==
    /\ task[t].phase = "answering"
    /\ Moves(t, "finished")
    /\ UNCHANGED <<up, control, calls, answered, order, given, acted>>

\* (slip) The callback forgets whatever task its id has now.
CallsWithoutItsId(t) == [calls EXCEPT ![task[t].id] = None]

\* A cancelled task has unwound or a finished one is done: its callback stops
\* tracking exactly that task.
CallsWithout(t) == [i \in Id |-> IF calls[i] = t THEN None ELSE calls[i]]

CallDone(t) ==
    /\ task[t].phase \in {"finished", "cancelled"}
    /\ task' = [task EXCEPT ![t] = Free]
    /\ calls' = CallsWithout(t)
    /\ UNCHANGED <<up, control, answered, order, given, acted>>

------------------------------------------------------------------------------
(* The session and the options                                             *)

\* _async_end_session: every tracked task is cancelled and forgotten, and so
\* is every answer.  A task that is past its last await is only forgotten.
CancelledTasks ==
    [t \in TaskRef |-> IF t \in Active /\ \E i \in Id : calls[i] = t
                       THEN [task[t] EXCEPT !.phase = "cancelled"] ELSE task[t]]

SessionEnds ==
    /\ up /\ up' = FALSE
    /\ task' = CancelledTasks
    /\ calls' = Nothing /\ answered' = Nothing /\ order' = <<>>
    /\ given' = [i \in Id |-> {}] /\ acted' = [i \in Id |-> 0]
    /\ UNCHANGED control

Reconnects ==
    /\ ~up /\ up' = TRUE
    /\ UNCHANGED <<control, task, calls, answered, order, given, acted>>

OptionsChange(c) ==
    /\ control' = c
    /\ UNCHANGED <<up, task, calls, answered, order, given, acted>>

Next ==
    \/ \E i \in Id : CallIgnored(i) \/ CallRepeated(i) \/ CallRefused(i)
    \/ \E i \in Id, e \in Entity, t \in TaskRef : CallAccepted(i, e, t)
    \/ \E t \in TaskRef : ActDeclined(t) \/ ActBegins(t) \/ ActEnds(t) \/ AnswerSent(t) \/ CallDone(t)
    \/ SessionEnds \/ Reconnects
    \/ \E c \in SUBSET Entity : OptionsChange(c)

Spec == Init /\ [][Next]_vars

------------------------------------------------------------------------------
(* Properties                                                              *)

\* On one connection a device action is run at most once for an id, however
\* often the panel repeats the call: repeating a lock or a cover whose outcome
\* is uncertain is worse than repeating the answer.  Only an id older than
\* ANSWERED_MAX answers may run again.
AtMostOnce == \A i \in Id : acted[i] <= 1

\* ... and whatever it is answered, it is always answered the same.
AnswersAgree == \A i \in Id : Cardinality(given[i]) <= 1

\* Every task still at work is the one tracked for its id, so the end of the
\* session reaches it: no device action of an old connection runs on.
WorkIsTracked == \A t \in Active : calls[task[t].id] = t

\* No more than CALLS_MAX device actions run at once, whoever began them.
ActionsBounded == Cardinality(Active) <= CALLS_MAX

Outstanding(i) == calls[i] # None /\ task[calls[i]].phase \in {"ready", "acting"}

\* An accepted call stops being outstanding - acted on, failed, declined or out
\* of time - only with an answer to remember, or by the end of its session.
NoCallForgotten ==
    [][\A i \in Id : Outstanding(i) /\ ~Outstanding(i)' => answered'[i] # None \/ ~up']_vars
==============================================================================

----------------------------- MODULE PanelClient -----------------------------
(***************************************************************************)
(* The sending half of one PanelClient connection: the FIFO send lock, the *)
(* bounded number of callers behind it, the transport that stops taking    *)
(* data when the panel stops reading, send deadlines, the _broken flag of  *)
(* a connection whose sending gave up, callers cancelled inside a send,    *)
(* and the close every caller owes a connection that failed it.            *)
(***************************************************************************)
EXTENDS Naturals, Sequences, FiniteSets

CONSTANTS
    Caller,        \* tasks that send
    Cancellable,   \* those that something outside send() can cancel: a command
                   \* by its own deadline, a device action, the link task
    Nobody,
    SEND_QUEUE_MAX,
    AbandonMax     \* bound: sends cancelled while the transport is paused

ASSUME ClientAssumption ==
    /\ Cancellable \subseteq Caller /\ Nobody \notin Caller
    /\ SEND_QUEUE_MAX \in Nat \ {0} /\ AbandonMax \in Nat

VARIABLES
    writer,     \* _writer: none before connect, up, closed
    broken,     \* _broken
    waiting,    \* _waiting
    holder,     \* who has the send lock
    queue,      \* who waits for it, in order
    phase,      \* each caller: idle, queued, draining, told (the link is gone)
    transport,  \* asyncio's transport: none, up, closing, lost
    paused,     \* the transport holds more than its high-water mark
    held,       \* frames handed to it while it does
    abandoned   \* ghost: sends cancelled in their drain while it does

vars == <<writer, broken, waiting, holder, queue, phase, transport, paused, held, abandoned>>
lockVars == <<waiting, holder, queue>>
flowVars == <<paused, held, abandoned>>

Sending == {s \in Caller : phase[s] \in {"queued", "draining"}}

TypeOK ==
    /\ writer \in {"none", "up", "closed"} /\ broken \in BOOLEAN
    /\ waiting \in 0..SEND_QUEUE_MAX
    /\ holder \in Caller \cup {Nobody} /\ queue \in Seq(Caller)
    /\ phase \in [Caller -> {"idle", "queued", "draining", "told"}]
    /\ transport \in {"none", "up", "closing", "lost"}
    /\ paused \in BOOLEAN /\ held \in Nat /\ abandoned \in 0..AbandonMax

Init ==
    /\ writer = "none" /\ broken = FALSE /\ waiting = 0
    /\ holder = Nobody /\ queue = <<>> /\ phase = [s \in Caller |-> "idle"]
    /\ transport = "none" /\ paused = FALSE /\ held = 0 /\ abandoned = 0

\* connect(): one connection per client.
Connect ==
    /\ writer = "none"
    /\ writer' = "up" /\ transport' = "up" /\ broken' = FALSE
    /\ UNCHANGED <<lockVars, phase, flowVars>>

------------------------------------------------------------------------------
(* send()                                                                  *)

\* Why a send raises before it waits: no connection, one that gave up, or
\* SEND_QUEUE_MAX callers ahead (SendOverflow, a CannotConnect too).
Refuses == writer # "up" \/ broken \/ waiting >= SEND_QUEUE_MAX

SendRefused(s) ==
    /\ phase[s] = "idle" /\ Refuses
    /\ phase' = [phase EXCEPT ![s] = "told"]
    /\ UNCHANGED <<writer, broken, lockVars, transport, flowVars>>

SendBegins(s) ==
    /\ phase[s] = "idle" /\ ~Refuses
    /\ waiting' = waiting + 1
    /\ queue' = Append(queue, s)
    /\ phase' = [phase EXCEPT ![s] = "queued"]
    /\ UNCHANGED <<writer, broken, holder, transport, flowVars>>

MayWrite == writer = "up" /\ ~broken

\* The caller has the lock: the whole frame goes to the transport, which may
\* thereby pass its high-water mark.
Write(s) ==
    /\ holder = Nobody /\ queue # <<>> /\ s = Head(queue) /\ MayWrite
    /\ holder' = s /\ queue' = Tail(queue)
    /\ phase' = [phase EXCEPT ![s] = "draining"]
    /\ paused' \in {paused, TRUE}
    /\ held' = IF paused' THEN held + 1 ELSE 0
    /\ UNCHANGED <<writer, broken, waiting, transport, abandoned>>

\* The queue once s, which is in it once or not at all, has left it.
Without(q, s) ==
    IF \A i \in DOMAIN q : q[i] # s THEN q
    ELSE LET at == CHOOSE i \in DOMAIN q : q[i] = s
         IN [i \in 1..(Len(q) - 1) |-> IF i < at THEN q[i] ELSE q[i + 1]]

\* (slip) The count is given back only by a caller that got the lock.
LeavesLocked(s, p) ==
    /\ waiting' = IF holder = s THEN waiting - 1 ELSE waiting
    /\ holder' = IF holder = s THEN Nobody ELSE holder
    /\ queue' = Without(queue, s)
    /\ phase' = [phase EXCEPT ![s] = p]
    /\ UNCHANGED <<writer, transport>>

\* s leaves send(): the count and, if it has it, the lock are given back.
Leaves(s, p) ==
    /\ waiting' = waiting - 1
    /\ holder' = IF holder = s THEN Nobody ELSE holder
    /\ queue' = Without(queue, s)
    /\ phase' = [phase EXCEPT ![s] = p]
    /\ UNCHANGED <<writer, transport>>

\* It has the lock, but the connection is gone or gave up meanwhile.
LinkGone(s) ==
    /\ holder = Nobody /\ queue # <<>> /\ s = Head(queue) /\ ~MayWrite
    /\ Leaves(s, "told") /\ UNCHANGED <<broken, flowVars>>

\* drain() returns: the transport is below its mark.
Sent(s) ==
    /\ phase[s] = "draining" /\ ~paused /\ transport # "lost"
    /\ Leaves(s, "idle") /\ UNCHANGED <<broken, flowVars>>

\* drain() raises: the connection is lost.
Lost(s) ==
    /\ phase[s] = "draining" /\ transport = "lost"
    /\ Leaves(s, "told") /\ broken' = TRUE /\ UNCHANGED flowVars

\* (slips) The deadline does not finish the connection; starts behind the lock;
\* is not reported to the caller.
TimesOutOnly(s) ==
    /\ s \in Sending
    /\ Leaves(s, "told") /\ UNCHANGED <<broken, flowVars>>
TimesOutBehindLock(s) ==
    /\ phase[s] = "draining"
    /\ Leaves(s, "told") /\ broken' = TRUE /\ UNCHANGED flowVars
TimesOutUnreported(s) ==
    /\ s \in Sending
    /\ Leaves(s, "idle") /\ broken' = TRUE /\ UNCHANGED flowVars

\* The send's own deadline, behind the lock or in the drain.
TimesOut(s) ==
    /\ s \in Sending
    /\ Leaves(s, "told") /\ broken' = TRUE /\ UNCHANGED flowVars

\* Cancelled from outside: CancelledError is none of the errors send handles.
Cancelled(s) ==
    /\ s \in Cancellable \cap Sending
    /\ (phase[s] = "draining" /\ paused) => abandoned < AbandonMax
    /\ abandoned' = IF phase[s] = "draining" /\ paused THEN abandoned + 1 ELSE abandoned
    /\ Leaves(s, "idle") /\ UNCHANGED <<broken, paused, held>>

\* Told that the link is gone, every caller closes it (_async_link_failed,
\* _async_end_session).
CallerCloses(s) ==
    /\ phase[s] = "told"
    /\ phase' = [phase EXCEPT ![s] = "idle"]
    /\ writer' = IF writer = "up" THEN "closed" ELSE writer
    /\ transport' = IF transport = "up" THEN "closing" ELSE transport
    /\ UNCHANGED <<broken, lockVars, flowVars>>

\* The session ends for a reason of its own: a failed recv, an unload.
Close ==
    /\ writer = "up"
    /\ writer' = "closed"
    /\ transport' = IF transport = "up" THEN "closing" ELSE transport
    /\ UNCHANGED <<broken, lockVars, phase, flowVars>>

------------------------------------------------------------------------------
(* The transport (external)                                                *)

Resumes ==
    /\ paused /\ transport \in {"up", "closing"}
    /\ paused' = FALSE /\ held' = 0 /\ abandoned' = 0
    /\ UNCHANGED <<writer, broken, lockVars, phase, transport>>

ConnectionLost ==
    /\ transport \in {"up", "closing"}
    /\ transport' = "lost"
    /\ UNCHANGED <<writer, broken, lockVars, phase, flowVars>>

Next ==
    \/ Connect \/ Close \/ Resumes \/ ConnectionLost
    \/ \E s \in Caller :
         \/ SendRefused(s) \/ SendBegins(s) \/ Write(s) \/ LinkGone(s) \/ Sent(s)
         \/ Lost(s) \/ TimesOut(s) \/ Cancelled(s) \/ CallerCloses(s)

Spec == Init /\ [][Next]_vars

\* Every send has a deadline, and a caller told that the link is gone runs on.
Fairness == \A s \in Caller : WF_vars(TimesOut(s)) /\ WF_vars(CallerCloses(s))

FairSpec == Spec /\ Fairness

------------------------------------------------------------------------------
(* Properties                                                              *)

\* The count of callers inside send() is exact, so that a caller is turned
\* away only at the limit and never for a send that ended; the lock is held
\* by the one caller that is draining, and the queue holds the others once.
LockIsExact ==
    /\ waiting = Cardinality(Sending)
    /\ \A s \in Caller : phase[s] = "draining" <=> holder = s
    /\ \A s \in Caller : phase[s] = "queued" <=> \E i \in DOMAIN queue : queue[i] = s
    /\ \A i, j \in DOMAIN queue : queue[i] = queue[j] => i = j

\* A panel that stopped reading has at most one frame piled up in the
\* transport, and one more for each send that was cancelled in its drain.
PileIsBounded == held <= 1 + abandoned

\* No caller hangs in a send, whatever the panel does (HA11).
SendsEnd == \A s \in Caller : s \in Sending ~> s \notin Sending

\* A send that gave up finishes the connection: it is closed, for good.
GivingUpCloses == broken ~> writer = "closed"

\* "Only one frame is handed to the transport at a time, so a peer that stops
\* reading cannot have callers pile encoded payloads into it."
OneFrameAtATime == held <= 1
==============================================================================

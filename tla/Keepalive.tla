----------------------------- MODULE Keepalive -----------------------------
(***************************************************************************)
(* The listening loop's clock: _async_listen judges a silent panel, pings  *)
(* it, and keeps this side from falling silent itself, while its own reads *)
(* and sends wait on the connection.                                       *)
(*                                                                         *)
(* Time is counted in units (5 s in the checked instance).  The code's    *)
(* moments are kept as ages: `heard' is how long ago heard was set.  A     *)
(* wait ends when its deadline has no time `left'; what happens in the     *)
(* very unit of a deadline comes too late for it.  What does not wait takes *)
(* no time.                                                                *)
(***************************************************************************)
EXTENDS Naturals, FiniteSetsExt

CONSTANTS
    QUIET_PING,   \* _QUIET_PING_S
    QUIET_LIMIT,  \* _QUIET_LIMIT: rounds
    STALL,        \* _FRAME_STALL
    SEND,         \* _SEND_TIMEOUT
    HOLD_MAX      \* bound: how long the sends of one handler take together

ASSUME KeepaliveAssumption ==
    /\ QUIET_PING \in Nat \ {0} /\ QUIET_LIMIT \in Nat /\ QUIET_LIMIT >= 3
    /\ STALL \in 1..QUIET_PING - 1 /\ SEND \in 1..QUIET_PING
    /\ HOLD_MAX \in Nat

VARIABLES
    pc,       \* "top" of the loop, sending a "ping", in "recv", in its "stall"
              \* window, in a handler ("handle"), or the link is "dropped"
    heard,    \* age of heard: since a message was read
    since,    \* age of max(heard, asked)
    sent,     \* age of client.last_sent
    left,     \* what is left of the deadline of the wait under way
    unread,   \* what the panel has sent and the loop has not read
    hold,     \* how long this handler has been at it
    gap,      \* (ghost) how long the panel has said nothing whole, frozen
              \* while a whole message waits to be read
    why       \* why the link was dropped: "quiet", or "lost"

vars == <<pc, heard, since, sent, left, unread, hold, gap, why>>
clocks == <<heard, since, gap>>

Unread == {"none", "part", "whole"}

TypeOK ==
    /\ pc \in {"top", "ping", "recv", "stall", "handle", "dropped"}
    /\ heard \in Nat /\ since \in Nat /\ sent \in Nat /\ left \in Nat
    /\ hold \in Nat /\ gap \in Nat
    /\ unread \in Unread /\ why \in {"none", "quiet", "lost"}

Dead == QUIET_PING * QUIET_LIMIT

\* _async_listen begins: the connection's hello and its first states are out.
Starts ==
    /\ pc' = "top" /\ heard' = 0 /\ since' = 0 /\ sent' \in 0..QUIET_PING
    /\ left' = 0 /\ unread' \in Unread /\ hold' = 0 /\ gap' = 0 /\ why' = "none"

Init ==
    /\ pc = "top" /\ heard = 0 /\ since = 0 /\ sent \in 0..QUIET_PING
    /\ left = 0 /\ unread \in Unread /\ hold = 0 /\ gap = 0 /\ why = "none"

------------------------------------------------------------------------------
(* The top of the loop                                                     *)

\* (slip) A round too few.
QuietEarly == heard >= QUIET_PING * (QUIET_LIMIT - 1)

Quiet == heard >= Dead

\* (slip) This side's silence is measured by what it hears: the panel's own
\* updates keep it from ever pinging.
OwnSilenceHeard == since

\* ... by what this side sent.
OwnSilence == sent

PingDue == OwnSilence >= QUIET_PING \/ since >= QUIET_PING

Drop(w) ==
    /\ pc' = "dropped" /\ why' = w
    /\ UNCHANGED <<clocks, sent, left, unread, hold>>

\* "the panel went quiet"
GivesUp == pc = "top" /\ Quiet /\ Drop("quiet")

\* (slip) One variable for both: a ping counts as having heard something.
PingsHeard ==
    /\ pc = "top" /\ ~Quiet /\ PingDue
    /\ pc' = "ping" /\ since' = 0 /\ heard' = 0 /\ left' = QUIET_PING
    /\ UNCHANGED <<gap, sent, unread, hold, why>>

Pings ==
    /\ pc = "top" /\ ~Quiet /\ PingDue
    /\ pc' = "ping" /\ since' = 0 /\ left' = QUIET_PING
    /\ UNCHANGED <<heard, gap, sent, unread, hold, why>>

\* Neither of the two is due, nor the end: the nearest of them is the deadline.
Listens ==
    /\ pc = "top" /\ ~Quiet /\ ~PingDue
    /\ pc' = "recv"
    /\ left' = Min({QUIET_PING - OwnSilence, QUIET_PING - since, Dead - heard})
    /\ UNCHANGED <<clocks, sent, unread, hold, why>>

------------------------------------------------------------------------------
(* Waiting                                                                 *)

\* The ping is drained (PanelClient.send notes last_sent).
PingSent ==
    /\ pc = "ping" /\ left > 0
    /\ pc' = "top" /\ sent' = 0 /\ left' = 0
    /\ UNCHANGED <<clocks, unread, hold, why>>

\* recv, its first wait or its stall window, has a whole message.  The handler
\* may have to send: a pong within QUIET_PING, states within SEND each.  More
\* of the panel's messages may be there already.
Received ==
    /\ pc \in {"recv", "stall"} /\ left > 0 /\ unread = "whole"
    /\ heard' = 0 /\ since' = 0 /\ gap' = 0 /\ hold' = 0
    /\ unread' \in Unread
    /\ \/ pc' = "top" /\ left' = 0
       \/ pc' = "handle" /\ left' \in {SEND, QUIET_PING}
    /\ UNCHANGED <<sent, why>>

\* A send of the handler's is drained; another follows, or it was the last.
HandlerSent ==
    /\ pc = "handle" /\ left > 0
    /\ sent' = 0
    /\ \/ pc' = "top" /\ left' = 0
       \/ pc' = pc /\ left' = SEND
    /\ UNCHANGED <<clocks, unread, hold, why>>

\* recv timed out: back to the top, or on with a frame that has begun.
RecvTimesOut ==
    /\ pc = "recv" /\ left = 0
    /\ IF unread = "part" THEN pc' = "stall" /\ left' = STALL
                          ELSE pc' = "top" /\ left' = 0
    /\ UNCHANGED <<clocks, sent, unread, hold, why>>

\* A send gave up, or a frame stopped halfway.
WaitGivesUp == pc \in {"ping", "stall", "handle"} /\ left = 0 /\ Drop("lost")

\* The connection ended, a frame was refused, another task's send gave up.
LinkLost == pc # "dropped" /\ Drop("lost")

\* _async_link has a new connection.
Reconnects == pc = "dropped" /\ Starts

------------------------------------------------------------------------------
(* Other tasks, the panel and time (external)                              *)

OtherSends ==
    /\ pc # "dropped" /\ sent' = 0
    /\ UNCHANGED <<pc, clocks, left, unread, hold, why>>

Arrives ==
    /\ pc # "dropped"
    /\ \/ unread = "none" /\ unread' \in {"part", "whole"}
       \/ unread = "part" /\ unread' = "whole"
    /\ UNCHANGED <<pc, clocks, sent, left, hold, why>>

\* Time passes while the loop waits, up to its deadline, and not past a
\* message it can read.
Tick ==
    /\ pc \in {"ping", "recv", "stall", "handle"} /\ left > 0
    /\ ~(pc \in {"recv", "stall"} /\ unread = "whole")
    /\ pc = "handle" => hold < HOLD_MAX
    /\ heard' = heard + 1 /\ since' = since + 1 /\ sent' = sent + 1
    /\ left' = left - 1
    /\ hold' = IF pc = "handle" THEN hold + 1 ELSE hold
    /\ gap' = IF unread = "whole" THEN gap ELSE gap + 1
    /\ UNCHANGED <<pc, unread, why>>

Next ==
    \/ GivesUp \/ Pings \/ Listens \/ PingSent \/ Received \/ HandlerSent
    \/ RecvTimesOut \/ WaitGivesUp \/ LinkLost \/ Reconnects
    \/ OtherSends \/ Arrives \/ Tick

Spec == Init /\ [][Next]_vars

------------------------------------------------------------------------------
(* Properties                                                              *)

\* A panel that says something after no more than QUIET_LIMIT - 1 quiet rounds
\* is never given up as quiet, also when the message arrives while the loop is
\* held in a slow ping or in the sends of a handler.  It needs those sends to
\* be over in that time (HOLD_MAX); the code bounds each, not their number.
Kept == QUIET_PING * (QUIET_LIMIT - 1)
LiveLinkKept == why = "quiet" => gap > Kept

\* A panel that says nothing is given up at most one ping's deadline after
\* protocol.md's 90 s, whatever this side or other tasks send meanwhile.
DeadLinkFound == pc # "dropped" => gap < Dead + QUIET_PING

\* The panel, which judges this side by the same rule, hears it in time: no
\* stall, slow send or stream of its own updates keeps this side from
\* finishing a send for 90 s.
PanelHearsUs == pc # "dropped" => sent < Dead
=============================================================================

------------------------------ MODULE StateFeed ------------------------------
(***************************************************************************)
(* What the panel is told about Home Assistant: the watch list, the one    *)
(* subscription, the outbox of entities whose newest state is owed, the    *)
(* last message carried for each, the catalog, and the options that say    *)
(* what may be told at all.                                                *)
(*                                                                         *)
(* Three kinds of task send concurrently: the link task (`link': watch     *)
(* lists and what a fresh connection is owed), the one state-change job    *)
(* that drains the outbox (`drain'), and the options listeners (OptTask).  *)
(* Tasks are cooperative: `cpu' is the task running between two awaits,    *)
(* and only a send makes a task wait.  Sends pass one FIFO lock, so `sendq'*)
(* is in the order the messages were built; its head has been written and  *)
(* waits for the transport to drain.                                       *)
(***************************************************************************)
EXTENDS Naturals, Sequences, FiniteSets

CONSTANTS
    Entity,      \* Home Assistant entities
    Value,       \* what a state message can say of one
    None,        \* nothing said, nobody running
    Options,     \* the options entries: [share, control : Seq(Entity)]
    WatchLists,  \* the watch lists the panel sends
    OptTask,     \* options listeners that can be under way at once
    Long,        \* entities whose messages may not fit into a frame
    PageSize     \* _CATALOG_PAGE

ASSUME FeedAssumption ==
    /\ None \notin Value \cup OptTask \cup {"link", "drain", "cut"}
    /\ Options \subseteq [share : Seq(Entity), control : Seq(Entity)]
    /\ WatchLists \subseteq Seq(Entity)
    /\ {"link", "drain", "cut"} \cap OptTask = {}
    /\ PageSize \in Nat \ {0}

VARIABLES
    ha,          \* the state of each entity
    options,     \* the entry's options
    loaded,      \* the coordinator lives: from async_start until unload or
                 \* until a setup that fails, which Home Assistant tries again
                 \* with a coordinator of its own
    listening,   \* its options listener is registered, its link task exists
    link,        \* "up"; "failed" (client closed, still set); "down" (no client)
    phase,       \* the link task: off, resync, listen
    panelWatch,  \* _panel_watch
    watchSeen,   \* _watch_seen
    watched,     \* _watched
    sub,         \* entities behind _unwatch; {} is no subscription
    outbox,      \* _outbox, oldest first
    sent,        \* _sent
    draining,    \* _draining
    todo,        \* what is left of each pushing task's coroutine
    cpu,         \* the task running, or None
    sendq,       \* sends waiting for the lock, the head for the transport
    failed,      \* tasks whose send has raised and that have not run since
    told,        \* the panel: the last state it was given on this connection
    cat,         \* the panel: the entities of its catalog
    missed,      \* ghost: entities that moved unnoticed: not followed, or not
                 \* sent because of _sent while an older message of theirs
                 \* still waited; and the refused ones.  Whatever is sent of
                 \* one later makes it good.
    refused,     \* ghost: entities whose last message was too long to send
    listing,     \* ghost: the task that sends the catalog begun last, None if
                 \* all of it is sent, "cut" if a page was too long to send
    unheard      \* ghost: the options changed on this connection, unheard

vars == <<ha, options, loaded, listening, link, phase, panelWatch, watchSeen, watched, sub,
          outbox, sent, draining, todo, cpu, sendq, failed, told, cat, missed,
          refused, listing, unheard>>

ghosts == <<refused, listing, unheard>>

Pusher == {"link"} \cup OptTask
Task == Pusher \cup {"drain"}

\* A task's remaining steps.  `list' is a page, a watch list, or one entity.
Step == [op : {"catalog", "page", "watch", "rewatch", "rewatchIfUnseen", "push",
               "pushControl", "state"},
         first : BOOLEAN, list : Seq(Entity)]
Do(op, list) == [op |-> op, first |-> FALSE, list |-> list]

\* A message in the send queue.
Msg == [by : Task, op : {"page", "state"}, first : BOOLEAN, list : Seq(Entity),
        value : Value \cup {None}]

TypeOK ==
    /\ ha \in [Entity -> Value] /\ options \in Options /\ loaded \in BOOLEAN
    /\ listening \in BOOLEAN /\ link \in {"up", "failed", "down"} /\ phase \in {"off", "resync", "listen"}
    /\ panelWatch \in Seq(Entity) /\ watchSeen \in BOOLEAN
    /\ watched \in Seq(Entity) /\ sub \subseteq Entity /\ outbox \in Seq(Entity)
    /\ sent \in [Entity -> Value \cup {None}] /\ draining \in BOOLEAN
    /\ todo \in [Pusher -> Seq(Step)] /\ cpu \in Task \cup {None}
    /\ sendq \in Seq(Msg) /\ failed \subseteq Task
    /\ told \in [Entity -> Value \cup {None}] /\ cat \subseteq Entity
    /\ missed \subseteq Entity /\ refused \subseteq Entity
    /\ listing \in Pusher \cup {None, "cut"} /\ unheard \in BOOLEAN

Init ==
    /\ ha \in [Entity -> Value] /\ options \in Options /\ loaded = TRUE /\ listening = FALSE
    /\ link = "down" /\ phase = "off"
    /\ panelWatch = <<>> /\ watchSeen = FALSE /\ watched = <<>> /\ sub = {}
    /\ outbox = <<>> /\ sent = [e \in Entity |-> None] /\ draining = FALSE
    /\ todo = [t \in Pusher |-> <<>>] /\ cpu = None
    /\ sendq = <<>> /\ failed = {}
    /\ told = [e \in Entity |-> None] /\ cat = {} /\ missed = {}
    /\ refused = {} /\ listing = None /\ unheard = FALSE

------------------------------------------------------------------------------
(* The options lists                                                       *)

Elems(s) == {s[i] : i \in DOMAIN s}

\* The elements of s that are in S, in their order (SelectSeq, by ranks and so
\* without its recursion).
Filter(s, S) ==
    LET K == {i \in DOMAIN s : s[i] \in S}
        Rank(i) == Cardinality({j \in K : j <= i})
    IN [k \in 1..Cardinality(K) |-> s[CHOOSE i \in K : Rank(i) = k]]

Without(s, t) == Filter(s, Elems(s) \ Elems(t))

Allowed == options.share
Controllable == options.control
Catalogued == Allowed \o Without(Controllable, Allowed)
Subscribed(w) == w \o Without(Controllable, w)

\* (slip) Every page says it is page 0.
PagesAllFirst ==
    [i \in DOMAIN Catalogued |-> [op |-> "page", first |-> TRUE, list |-> <<Catalogued[i]>>]]

\* The catalog in pages, one empty page when there is nothing to list.
Pages ==
    LET s == Catalogued
        n == IF s = <<>> THEN 1 ELSE (Len(s) + PageSize - 1) \div PageSize
    IN [i \in 1..n |->
          [op |-> "page", first |-> i = 1,
           list |-> SubSeq(s, (i - 1) * PageSize + 1,
                           IF i * PageSize < Len(s) THEN i * PageSize ELSE Len(s))]]

------------------------------------------------------------------------------
(* Sending                                                                 *)

\* What the panel makes of a message it gets: page 0 replaces its catalog.
Hears(m) ==
    IF m.op = "state"
    THEN /\ told' = [told EXCEPT ![m.list[1]] = m.value]
         /\ UNCHANGED cat
    ELSE /\ cat' = IF m.first THEN Elems(m.list) ELSE cat \cup Elems(m.list)
         /\ UNCHANGED told

\* client.send: the lock is FIFO; a message that has it is written at once.
Send(m) ==
    /\ sendq' = Append(sendq, m)
    /\ cpu' = None
    /\ IF sendq = <<>> THEN Hears(m) ELSE UNCHANGED <<told, cat>>

StateMsg(t, e) == [by |-> t, op |-> "state", first |-> FALSE, list |-> <<e>>,
                   value |-> ha[e]]
PageMsg(t, s) == [by |-> t, op |-> "page", first |-> s.first, list |-> s.list,
                  value |-> None]

\* (slip) The entity is remembered in place of its message.
RememberedEntity(m) == IF m.op = "state" THEN [sent EXCEPT ![m.list[1]] = m.list[1]] ELSE sent

\* The head of the queue has drained: its task goes on, the next is written.
Remembered(m) == IF m.op = "state" THEN [sent EXCEPT ![m.list[1]] = m.value] ELSE sent

SendDone ==
    /\ cpu = None /\ link = "up" /\ sendq # <<>>
    /\ sendq' = Tail(sendq)
    /\ cpu' = Head(sendq).by
    /\ sent' = Remembered(Head(sendq))
    /\ IF sendq' # <<>> THEN Hears(Head(sendq')) ELSE UNCHANGED <<told, cat>>
    /\ UNCHANGED <<ha, options, loaded, listening, link, phase, panelWatch, watchSeen, watched,
                   sub, outbox, draining, todo, failed, missed, ghosts>>

\* A message of these entities may be longer than a frame: encode_frame then
\* raises before the send waits for anything.
MayBeLong(list) == link = "up" /\ Elems(list) \cap Long # {}

\* A send that raised gives up the rest of a catalog.
AfterRaise(s) == Filter(s, {x \in Elems(s) : x.op # "page"})

\* A task whose send raised CannotConnect runs again: it has closed the
\* connection, or found it closed (_async_link_failed).
SendRaised(t) ==
    /\ cpu = None /\ t \in failed
    /\ failed' = failed \ {t}
    /\ cpu' = t
    /\ todo' = IF t = "drain" THEN todo ELSE [todo EXCEPT ![t] = AfterRaise(@)]
    /\ UNCHANGED <<ha, options, loaded, listening, link, phase, panelWatch, watchSeen, watched,
                   sub, outbox, sent, draining, sendq, told, cat, missed, ghosts>>

------------------------------------------------------------------------------
(* The state-change job                                                    *)

\* (slip) An entity already owed is owed twice.
OwedTwice(e) == Append(outbox, e)

\* _async_state_changed: a followed entity moved; one job at a time drains.
Owed(e) == IF e \in Elems(outbox) THEN outbox ELSE Append(outbox, e)

StateChanges(e, v) ==
    /\ cpu = None /\ ha[e] # v
    /\ ha' = [ha EXCEPT ![e] = v]
    /\ IF e \in sub
       THEN /\ outbox' = Owed(e)
            /\ draining' = TRUE
            /\ cpu' = IF draining THEN None ELSE "drain"
            /\ UNCHANGED missed
       ELSE /\ missed' = IF link = "up" THEN missed \cup {e} ELSE missed
            /\ UNCHANGED <<outbox, draining, cpu>>
    /\ UNCHANGED <<options, loaded, listening, link, phase, panelWatch, watchSeen, watched,
                   sub, sent, todo, sendq, failed, told, cat, ghosts>>

Waiting(e) == \E i \in DOMAIN sendq : sendq[i].op = "state" /\ sendq[i].list[1] = e

\* (slip) An entity this connection carried a message of is skipped.
CarriedOnce(e) == sent[e] # None

\* The message is the last one this connection carried for the entity.
Unchanged(e) == sent[e] = ha[e]

\* Of an entity whose message goes out, or is too long to.
GoesOut(e) == missed' = missed \ {e} /\ refused' = refused \ {e}
LeftOut(e) == missed' = missed \cup {e} /\ refused' = refused \cup {e}

\* One turn of the drain loop: nothing is owed any more, or the oldest entity
\* is sent, unless there is no client, its message says nothing new, or the
\* connection is finished and the send raises at once.
DrainTurn ==
    /\ cpu = "drain"
    /\ IF outbox = <<>>
       THEN /\ draining' = FALSE /\ cpu' = None
            /\ UNCHANGED <<outbox, sendq, told, cat, missed, refused>>
       ELSE LET e == Head(outbox) IN
            /\ outbox' = Tail(outbox)
            /\ IF link # "up" \/ Unchanged(e)
               THEN /\ missed' = IF link = "up" /\ Waiting(e) THEN missed \cup {e} ELSE missed
                    /\ UNCHANGED <<cpu, sendq, told, cat, refused>>
               ELSE Send(StateMsg("drain", e)) /\ GoesOut(e)
            /\ UNCHANGED draining
    /\ UNCHANGED <<ha, options, loaded, listening, link, phase, panelWatch, watchSeen, watched,
                   sub, sent, todo, failed, listing, unheard>>

\* Its message is too long: the entity is done with, the connection goes on.
DrainTooLong ==
    /\ cpu = "drain" /\ outbox # <<>>
    /\ LET e == Head(outbox) IN
       MayBeLong(<<e>>) /\ ~Unchanged(e) /\ LeftOut(e)
    /\ outbox' = Tail(outbox)
    /\ UNCHANGED <<ha, options, loaded, listening, link, phase, panelWatch, watchSeen, watched,
                   sub, sent, draining, todo, cpu, sendq, failed, told, cat, listing, unheard>>

------------------------------------------------------------------------------
(* The pushing tasks: one step of a coroutine                              *)

Rest(t) == Tail(todo[t])
Then(t, steps) == todo' = [todo EXCEPT ![t] = steps \o Rest(t)]
Runs(t, op) == cpu = t /\ todo[t] # <<>> /\ Head(todo[t]).op = op

feedVars == <<panelWatch, watched, sub, outbox, sent>>
stillVars == <<ha, options, loaded, link, phase, watchSeen, draining, failed, unheard>>

\* _async_resubscribe: one subscription for everything followed, the owed and
\* the remembered of what no longer is are dropped.
Resubscribe(w) ==
    LET following == Elems(Subscribed(w)) IN
    /\ sub' = following
    /\ outbox' = Filter(outbox, following)
    /\ sent' = [e \in Entity |-> IF e \in following THEN sent[e] ELSE None]

\* _async_watch: the allowed part of what the panel asked, then its states.
Watch(t, asked) ==
    LET w == Filter(asked, Elems(Allowed)) IN
    /\ panelWatch' = asked
    /\ watched' = w
    /\ Resubscribe(w)
    /\ Then(t, <<Do("push", w)>>)

WatchStep(t) ==
    /\ \/ Runs(t, "watch") /\ Watch(t, Head(todo[t]).list)
       \/ Runs(t, "rewatch") /\ Watch(t, panelWatch)
       \/ /\ Runs(t, "rewatchIfUnseen")
          /\ IF ~watchSeen /\ panelWatch # <<>>
             THEN Watch(t, panelWatch)
             ELSE Then(t, <<>>) /\ UNCHANGED feedVars
    /\ UNCHANGED <<stillVars, listening, cpu, sendq, told, cat, missed, refused, listing>>

\* _async_send_catalog up to its first page, _async_push_control up to its
\* first entity, _async_push_states: what is to be sent is fixed here.
PlanStep(t) ==
    /\ \/ Runs(t, "catalog") /\ Then(t, IF link = "down" THEN <<>> ELSE Pages)
       \/ Runs(t, "pushControl") /\ Then(t, <<Do("push", Without(Controllable, watched))>>)
       \/ /\ Runs(t, "push")
          /\ LET l == Head(todo[t]).list IN
             Then(t, [i \in DOMAIN l |-> Do("state", <<l[i]>>)])
    /\ UNCHANGED <<stillVars, feedVars, listening, cpu, sendq, told, cat, missed, refused, listing>>

\* The catalog begun last goes on, and is whole with its last page.
Begun(t) ==
    IF Head(todo[t]).first \/ listing = t
    THEN IF \E s \in Elems(Rest(t)) : s.op = "page" THEN t ELSE None
    ELSE listing

\* One send_state of a push, one page: sent; raised at once on a connection
\* that is finished; or nothing without a client.
SendStep(t) ==
    /\ Runs(t, "state") \/ Runs(t, "page")
    /\ LET s == Head(todo[t]) IN
       IF link = "up"
       THEN /\ Then(t, <<>>)
            /\ Send(IF s.op = "state" THEN StateMsg(t, s.list[1]) ELSE PageMsg(t, s))
            /\ IF s.op = "state"
               THEN GoesOut(s.list[1]) /\ UNCHANGED listing
               ELSE listing' = Begun(t) /\ UNCHANGED <<missed, refused>>
       ELSE /\ todo' = [todo EXCEPT ![t] = IF s.op = "page" THEN AfterRaise(@) ELSE Rest(t)]
            /\ UNCHANGED <<cpu, sendq, told, cat, missed, refused, listing>>
    /\ UNCHANGED <<stillVars, feedVars, listening>>

\* A message too long is given up, of a catalog all that is left, and the task
\* goes on: the connection is as good as before.
SendTooLong(t) ==
    /\ Runs(t, "state") \/ Runs(t, "page")
    /\ LET s == Head(todo[t]) IN
       /\ MayBeLong(s.list)
       /\ todo' = [todo EXCEPT ![t] = IF s.op = "page" THEN AfterRaise(@) ELSE Rest(t)]
       /\ IF s.op = "state"
          THEN LeftOut(s.list[1]) /\ UNCHANGED listing
          ELSE /\ listing' = IF s.first \/ listing = t THEN "cut" ELSE listing
               /\ UNCHANGED <<missed, refused>>
    /\ UNCHANGED <<stillVars, feedVars, listening, cpu, sendq, told, cat>>

\* A task is done.  The first connection's async_start then registers the
\* options listener and starts the link task.
Returns(t) ==
    /\ cpu = t /\ todo[t] = <<>>
    /\ cpu' = None
    /\ listening' = (listening \/ (t = "link" /\ phase = "listen"))
    /\ UNCHANGED <<stillVars, feedVars, todo, sendq, told, cat, missed, refused, listing>>

Idle(t) ==
    /\ t # "drain" => todo[t] = <<>>
    /\ cpu # t /\ t \notin failed
    /\ \A i \in DOMAIN sendq : sendq[i].by # t

------------------------------------------------------------------------------
(* The link, the options and unloading                                     *)

\* A new connection: nothing has been said on it yet.  The backoff outlasts
\* every send of the connection before.
Connects ==
    /\ cpu = None /\ loaded /\ link = "down" /\ failed = {}
    /\ link' = "up" /\ phase' = "resync" /\ watchSeen' = FALSE
    /\ UNCHANGED <<ha, options, loaded, listening, panelWatch, watched, sub, outbox, sent,
                   draining, todo, cpu, sendq, failed, told, cat, missed, ghosts>>

LinkReads == cpu = None /\ link = "up" /\ Idle("link")

\* The panel's watch list, before its snapshot or after.
WatchArrives(ids) ==
    /\ LinkReads /\ phase # "off"
    /\ watchSeen' = TRUE
    /\ todo' = [todo EXCEPT !["link"] = <<Do("watch", ids)>>]
    /\ cpu' = "link"
    /\ UNCHANGED <<ha, options, loaded, listening, link, phase, panelWatch, watched, sub,
                   outbox, sent, draining, sendq, failed, told, cat, missed, ghosts>>

\* The snapshot is in: _async_after_connect.
\* (slip) A panel that does not repeat its watch list is told nothing of it.
AfterConnectOnly == <<Do("catalog", <<>>), Do("pushControl", <<>>)>>

AfterConnect ==
    <<Do("catalog", <<>>), Do("rewatchIfUnseen", <<>>), Do("pushControl", <<>>)>>

SnapshotArrives ==
    /\ LinkReads /\ phase = "resync"
    /\ phase' = "listen"
    /\ todo' = [todo EXCEPT !["link"] = AfterConnect]
    /\ cpu' = "link"
    /\ UNCHANGED <<ha, options, loaded, listening, link, panelWatch, watchSeen, watched, sub,
                   outbox, sent, draining, sendq, failed, told, cat, missed, ghosts>>

Senders == {sendq[i].by : i \in DOMAIN sendq}

\* What the panel was told counts for one connection (ZSRC-015).
Forgotten ==
    told' = [e \in Entity |-> None] /\ missed' = {} /\ refused' = {} /\ listing' = None

\* A send gave up, or the connection dropped: every send on it raises.
LinkFails ==
    /\ cpu = None /\ link = "up"
    /\ link' = "failed"
    /\ failed' = failed \cup Senders /\ sendq' = <<>>
    /\ Forgotten
    /\ UNCHANGED <<ha, options, loaded, listening, phase, panelWatch, watchSeen, watched, sub,
                   outbox, sent, draining, todo, cpu, cat, unheard>>

\* (slip) What was said on the old connection is remembered.
DropWatchOnly == sub' = {} /\ watched' = <<>> /\ outbox' = <<>> /\ sent' = sent

\* _async_drop_watch
DropWatch ==
    /\ sub' = {} /\ watched' = <<>> /\ outbox' = <<>>
    /\ sent' = [e \in Entity |-> None]

\* The link task's next recv fails: _async_end_session.  In async_start that
\* is a setup that failed.
SessionEnds ==
    /\ cpu = None /\ link = "failed" /\ Idle("link")
    /\ DropWatch
    /\ link' = "down" /\ phase' = "off" /\ unheard' = FALSE
    /\ loaded' = (loaded /\ listening)
    /\ UNCHANGED <<ha, options, listening, panelWatch, watchSeen, draining, todo, cpu, sendq,
                   failed, told, cat, missed, refused, listing>>

\* async_shutdown cancels the link task and ends its session, as does a setup
\* that is cancelled; the listeners and the drain job under way are not
\* cancelled, their sends raise.
Unload ==
    /\ cpu = None /\ loaded
    /\ loaded' = FALSE
    /\ DropWatch
    /\ link' = "down" /\ phase' = "off"
    /\ todo' = [todo EXCEPT !["link"] = <<>>]
    /\ failed' = (failed \cup Senders) \ {"link"} /\ sendq' = <<>>
    /\ Forgotten /\ unheard' = FALSE
    /\ UNCHANGED <<ha, options, listening, panelWatch, watchSeen, draining, cpu, cat>>

\* Home Assistant drops the listener when the unload is over.
StopsListening ==
    /\ cpu = None /\ ~loaded /\ listening
    /\ listening' = FALSE
    /\ UNCHANGED <<ha, options, loaded, link, phase, panelWatch, watchSeen, watched, sub,
                   outbox, sent, draining, todo, cpu, sendq, failed, told, cat, missed, ghosts>>

\* The person changes the options: _async_entry_updated, in a task of its own.
\* (slip) The watch list is not filtered again.
EntryUpdatedOnly == <<Do("catalog", <<>>), Do("pushControl", <<>>)>>

EntryUpdated == <<Do("catalog", <<>>), Do("rewatch", <<>>), Do("pushControl", <<>>)>>

OptionsChange(o, t) ==
    /\ cpu = None /\ listening /\ Idle(t) /\ o # options
    /\ options' = o /\ unheard' = FALSE
    /\ todo' = [todo EXCEPT ![t] = EntryUpdated]
    /\ cpu' = t
    /\ UNCHANGED <<ha, loaded, listening, link, phase, panelWatch, watchSeen, watched, sub,
                   outbox, sent, draining, sendq, failed, told, cat, missed, refused, listing>>

\* The options change while nothing listens: before the first connection has
\* been told everything, or after the end.
OptionsChangeUnheard(o) ==
    /\ cpu = None /\ ~listening /\ o # options
    /\ options' = o /\ unheard' = (link # "down")
    /\ UNCHANGED <<ha, loaded, listening, link, phase, panelWatch, watchSeen, watched, sub,
                   outbox, sent, draining, todo, cpu, sendq, failed, told, cat, missed,
                   refused, listing>>

------------------------------------------------------------------------------
Next ==
    \/ SendDone \/ DrainTurn \/ DrainTooLong
    \/ \E t \in Task : SendRaised(t)
    \/ \E t \in Pusher : \/ WatchStep(t) \/ PlanStep(t) \/ SendStep(t)
                         \/ SendTooLong(t) \/ Returns(t)
    \/ \E e \in Entity, v \in Value : StateChanges(e, v)
    \/ Connects \/ SnapshotArrives \/ LinkFails \/ SessionEnds \/ Unload \/ StopsListening
    \/ \E ids \in WatchLists : WatchArrives(ids)
    \/ \E o \in Options, t \in OptTask : OptionsChange(o, t)
    \/ \E o \in Options : OptionsChangeUnheard(o)

Spec == Init /\ [][Next]_vars

------------------------------------------------------------------------------
(* Properties                                                              *)

\* A connection that has been told what it is owed and has nothing under way.
Settled ==
    /\ link = "up" /\ phase = "listen" /\ cpu = None /\ sendq = <<>>
    /\ \A t \in Task : Idle(t)

\* A burst waits as one entry per entity, of followed entities only, and
\* there is always a job to send them: nothing owed is forgotten (HA11).
OutboxIsDrained ==
    /\ \A i, j \in DOMAIN outbox : outbox[i] = outbox[j] => i = j
    /\ Elems(outbox) \subseteq sub
    /\ outbox # <<>> => draining /\ ~Idle("drain")

\* _sent is what the panel was last given, once nothing of the entity waits:
\* so skipping an unchanged message leaves the panel right.
SentIsTold ==
    link = "up" => \A e \in Entity : sent[e] # None /\ ~Waiting(e) => told[e] = sent[e]

\* Every connection restates every watched entity, whether or not the panel
\* repeats its watch list, and every controllable one of the options that were
\* heard; but for an entity whose message is too long (ZSRC-015, HA01, HA02).
EverythingRestated ==
    Settled =>
        /\ \A e \in Elems(watched) \ refused : told[e] # None
        /\ ~unheard => \A e \in Elems(Controllable) \ refused : told[e] # None

\* With nothing under way and no options unheard the panel knows the state of
\* everything followed as it is, save the entities that moved unnoticed or
\* whose message is too long.
ToldIsCurrent == Settled /\ ~unheard => \A e \in sub \ missed : told[e] = ha[e]

\* The watch list is filtered by today's options, unless they changed unheard,
\* and, once the panel has sent a watch list, the subscription covers it and
\* every controllable entity.
FollowsOptions ==
    Settled =>
        /\ Elems(watched) \subseteq Elems(panelWatch)
        /\ ~unheard => /\ Elems(watched) \subseteq Elems(Allowed)
                       /\ panelWatch # <<>> => sub = Elems(Subscribed(watched))

\* Page 0 replaces what the panel had, so with nothing under way its catalog
\* holds everything the options list, whatever catalogs crossed on the way;
\* unless the options changed unheard, or the last catalog begun was cut short
\* by a page too long.
CatalogCovers ==
    Settled /\ ~unheard /\ listing # "cut" => Elems(Catalogued) \subseteq cat

\* The statements of the code's own comments that the code does not keep:

\* "Everything this link follows ... plus every entity it may act on."
ControllableFollowed == Settled /\ ~unheard => Elems(Controllable) \subseteq sub

\* "An entity the options no longer allow stops being followed at once."
RevokedIsDropped == Settled => Elems(watched) \subseteq Elems(Allowed)

\* A change of an entity the panel watches reaches it: "Nothing is lost".
WatchedConverge == Settled => \A e \in Elems(watched) \ refused : told[e] = ha[e]

\* Nothing outside the options lists leaves Home Assistant.
NothingRevokedLeaves ==
    [][Len(sendq') > Len(sendq) =>
         Elems(sendq'[Len(sendq')].list) \subseteq Elems(Allowed) \cup Elems(Controllable)]_vars

\* Page 0 replaces what the panel had: its catalog is the options' one, and
\* nothing of an older one.
CatalogIsWhole ==
    Settled /\ ~unheard /\ listing # "cut" => cat = Elems(Catalogued)

\* Nothing outlives its generation: at unload the subscription stops.
SubscriptionEnds == ~loaded /\ (\A t \in Task : Idle(t)) => sub = {}
==============================================================================

--------------------------- MODULE SituationRoom ---------------------------
(***************************************************************************)
(* The SituationRoom Durable Object of one workspace (packages/situation): *)
(* the object cache, the KPIs, the automations and their alerts, kept in   *)
(* step with the object graph by domain events from a queue.               *)
(*                                                                         *)
(* A room runs one piece of code at a time and lets other calls in only    *)
(* where it awaits another service: the read of changed objects, the reads *)
(* of an initialization, the check of an object type.  Awaits on its own   *)
(* storage let nothing in.  A step below is the code between two awaits    *)
(* of another service, or that service's answer.                           *)
(*                                                                         *)
(* Abstracted: one object type with two properties; titles, severities,    *)
(* snapshots and hit counts of alerts; trend points but the latest; the    *)
(* realtime messages (module LiveStream has them); the dedupe window of a  *)
(* day, which is longer than the queue keeps a message.                    *)
(***************************************************************************)
EXTENDS Integers, Sequences, FiniteSets, FiniteSetsExt

CONSTANTS
    Rids,         \* numbers of objects, in the order pages list them
    Objects,      \* the values of their properties p and q
    Consumers,    \* invocations of the queue consumer at work at once, numbered
    Callers,      \* calls of people at work at once, numbered
    UserRules,    \* ids of the automations people may create
    UserDefs,     \* the definitions they may give
    MaxScheduled, \* CE_LIMITS.maxScheduledAutomations (3)
    Every,        \* everyHours of scheduled rules, in ticks
    Cooldown,     \* cooldownSec, in ticks
    TombTtl,      \* LIFECYCLE.tombstoneHours, in ticks
    MaxRetries,   \* max_retries of the queue
    MaxBatch,     \* max_batch_size of the queue
    Workloads,    \* bounds: how many steps of each kind may happen
    MaxTime,      \* bound: ticks
    MaxInits,     \* bound: initializations at work at once
    None

ASSUME RoomAssumption ==
    /\ Rids \subseteq Nat /\ IsFiniteSet(Rids)
    /\ Objects \subseteq [p : 1 .. 2, q : 0 .. 1]
    /\ 1 \in Rids => [p |-> 2, q |-> 1] \in Objects
    /\ Consumers \subseteq Nat /\ Callers \subseteq Nat
    /\ {MaxScheduled, Every, Cooldown, TombTtl, MaxRetries, MaxBatch,
        MaxTime, MaxInits} \subseteq Nat
    /\ Every > 0 /\ MaxBatch > 0
    /\ UserDefs \subseteq [trigger : {"threshold", "schedule"}, prop : {"p", "q"}, on : BOOLEAN]
    /\ None \notin Int

VARIABLES
    graph,        \* the object graph: each object, or None
    template,     \* the template of the workspace's ontology
    events,       \* domain events written so far
    queue,        \* those still to be delivered, with their failures
    clearing,     \* a clear has emptied the graph and not yet the room
    room,         \* the room's storage
    alarm,        \* its alarm
    ringing,      \* the alarm is on its way to the room
    now,
    initializing, \* rt.initializing: the attempt callers share, or 0
    inits,        \* attempts at work
    work,         \* the consumers
    calls,        \* the callers
    left,         \* what is left of the workload
    missed,       \* history: objects an overtaken read was stored of
    unarmed       \* a call cleared `inactive` and set no alarm

outside == <<graph, template, events, clearing>>
clock == <<now, ringing>>
memory == <<initializing, inits>>
ghosts == <<missed, unarmed>>
vars == <<outside, queue, room, alarm, clock, memory, work, calls, left, ghosts>>

----------------------------------------------------------------------------
(* Data *)

Kpis == {"sum", "max"}
Rules == {"s1", "s2"} \cup UserRules
Triggers == {"threshold", "schedule"}
Pairs == Rules \X Rids
Times == 0 .. (MaxTime + Every + TombTtl + 1)
Tokens == 1 .. MaxInits

NoCache == [r \in Rids |-> None]
NoAlert == [active |-> <<>>, closed |-> None]

\* Template "sample" has two KPIs, a threshold rule and a scheduled rule;
\* the blank template has nothing.
SeedKpis(t) == IF t = "sample" THEN Kpis ELSE {}
SeedDefs(t) ==
    IF t = "sample"
    THEN [s \in {"s1", "s2"} |->
            IF s = "s1" THEN [trigger |-> "threshold", prop |-> "p", on |-> TRUE]
                        ELSE [trigger |-> "schedule", prop |-> "q", on |-> TRUE]]
    ELSE [s \in {} |-> None]

NewRoom ==
    [bound |-> FALSE, inited |-> FALSE, inactive |-> FALSE, flushAt |-> None,
     cache |-> NoCache, kpi |-> [k \in {} |-> None],
     point |-> [k \in Kpis |-> None], rules |-> [r \in {} |-> None],
     alerts |-> [a \in Pairs |-> NoAlert], seen |-> {}, tomb |-> None]

\* late: the events of objects already read, as numbers, that are written
\* after the read (0 for a clear); no part of the program.
IdleConsumer == [pc |-> "idle", evs |-> {}, cur |-> NoCache, tok |-> 0, late |-> {}]
IdleCall == [pc |-> "idle", kind |-> "none", id |-> None, def |-> None,
             ifMatch |-> 0, re |-> FALSE, tok |-> 0]
NoInit == [pc |-> "free", tpl |-> None, found |-> NoCache, todo |-> {}, late |-> {}]

----------------------------------------------------------------------------
(* KPIs: the sum and the maximum of p over the objects with q = 1 *)

Contribution(o) == IF o = None THEN None ELSE IF o.q = 1 THEN o.p ELSE None

OrZero(x) == IF x = None THEN 0 ELSE x
Counts(x) == IF x = None THEN 0 ELSE 1

ComputeKpi(k, cache) ==
    LET rs == {r \in Rids : Contribution(cache[r]) # None}
        total == MapThenSumSet(LAMBDA r : cache[r].p, rs) IN
    [cnt |-> Cardinality(rs), total |-> total,
     value |-> CASE k = "sum" -> total
                 [] k = "max" /\ rs = {} -> None
                 [] OTHER -> Max({cache[r].p : r \in rs})]

\* applyKpiDelta, and the recomputation when the maximum left.
ApplyDelta(k, s, b, a, cache) ==
    LET cnt == s.cnt + Counts(a) - Counts(b)
        total == s.total + OrZero(a) - OrZero(b)
        with(v) == [cnt |-> cnt, total |-> total, value |-> v] IN
    CASE b = a -> s
      [] b # a /\ k = "sum" -> with(total)
      [] b # a /\ k = "max" /\ cnt = 0 -> with(None)
      [] OTHER ->
           IF b # None /\ s.value # None /\ b = s.value /\ (a = None \/ b > OrZero(a))
           THEN ComputeKpi(k, cache)
           ELSE with(IF a # None /\ (s.value = None \/ a > OrZero(s.value))
                     THEN a ELSE s.value)

----------------------------------------------------------------------------
(* Alerts *)

Matches(rule, o) ==
    /\ o # None
    /\ rule.on
    /\ CASE rule.prop = "p" -> o.p = 2 [] rule.prop = "q" -> o.q = 1

\* decideAlert and the store's update.
Decide(al, matches) ==
    CASE ~matches /\ al.active # <<>> -> [active |-> Tail(al.active), closed |-> now]
      [] matches /\ al.active = <<>>
         /\ ~(al.closed # None /\ now < OrZero(al.closed) + Cooldown) ->
           [al EXCEPT !.active = <<"OPEN">>]
      [] OTHER -> al

\* The alerts after rule.evaluate of every pair of ps over cache.
Evaluated(s, ps) ==
    [a \in Pairs |->
       IF a \in ps THEN Decide(s.alerts[a], Matches(s.rules[a[1]], s.cache[a[2]]))
       ELSE s.alerts[a]]

Close(al) == IF al.active = <<>> THEN al ELSE [active |-> Tail(al.active), closed |-> now]

Cached(s) == {r \in Rids : s.cache[r] # None}
ThresholdRules(s) == {i \in DOMAIN s.rules : s.rules[i].trigger = "threshold" /\ s.rules[i].on}
Scheduled(s) == {i \in DOMAIN s.rules : s.rules[i].trigger = "schedule"}
ActiveOf(s, i) == {r \in Rids : s.alerts[<<i, r>>].active # <<>>}

----------------------------------------------------------------------------
(* The alarm *)

\* What reschedule aims at: the next flush or scheduled run.
Due(s) ==
    LET ts == ({s.flushAt} \cup {s.rules[i].next : i \in {j \in Scheduled(s) : s.rules[j].on}})
              \ {None} IN
    IF ts = {} THEN None ELSE Min(ts)

\* Mutant: the flush is forgotten.
RescheduledRules(s) ==
    IF s.tomb # None THEN s.tomb
    ELSE IF s.inactive THEN None ELSE Due([s EXCEPT !.flushAt = None])

Rescheduled(s) ==
    IF s.tomb # None THEN s.tomb
    ELSE IF s.inactive THEN None ELSE Due(s)

Reschedule(s) == alarm' = Rescheduled(s) /\ unarmed' = FALSE

FlushMetrics(s) ==
    [s EXCEPT !.flushAt = None,
              !.point = [k \in Kpis |->
                           IF k \in DOMAIN s.kpi
                           THEN IF s.kpi[k].value # None THEN s.kpi[k].value ELSE s.point[k]
                           ELSE s.point[k]]]

----------------------------------------------------------------------------
(* Initialization *)

SomeoneAtWork ==
    \/ \E c \in Consumers : work[c].pc # "idle"
    \/ \E t \in Tokens : inits[t].pc # "free"

FreeTokens == {t \in Tokens : inits[t].pc = "free"}

\* The attempt ensureInitialized returns.
Attempt(cur) == IF cur # 0 THEN cur ELSE Min(FreeTokens)

\* ensureInitialized of a room that is not: joins the attempt at work, cur,
\* or starts one.
Join(cur) ==
    /\ cur # 0 \/ FreeTokens # {}
    /\ initializing' = Attempt(cur)
    /\ inits' = IF cur # 0 THEN inits
                ELSE [inits EXCEPT ![Attempt(cur)] = [NoInit EXCEPT !.pc = "schema"]]

\* getCompiledSchema and getTemplateSeeds answer.
ReadSchema(t) ==
    /\ inits[t].pc = "schema"
    /\ inits' = [inits EXCEPT ![t] = [pc |-> "pages", tpl |-> template,
                                      found |-> NoCache, todo |-> Rids, late |-> {}]]
    /\ UNCHANGED <<outside, queue, room, alarm, clock, initializing, work, calls, left, ghosts>>

\* listObjects answers with the next page.
ReadPage(t) ==
    /\ inits[t].pc = "pages" /\ inits[t].todo # {}
    /\ LET r == Min(inits[t].todo) IN
       inits' = [inits EXCEPT ![t].found[r] = graph[r], ![t].todo = @ \ {r}]
    /\ UNCHANGED <<outside, queue, room, alarm, clock, initializing, work, calls, left, ghosts>>

Seeded(d, version) ==
    [trigger |-> d.trigger, prop |-> d.prop, on |-> d.on, version |-> version,
     next |-> IF d.trigger = "schedule" THEN now + Every ELSE None]

EventsOf(r) == {e \in events : e.rid = r}

\* What was read of r is older than an event the room has seen, or a clear.
Overtaken(r, late, seen) == 0 \in late \/ \E e \in seen : e.rid = r /\ e.n \in late

\* What installing i leaves wrong of a room that has then seen these events:
\* overtaken reads, and objects that are gone but stay in a kept cache when
\* no event of theirs is left to remove them.
LostBy(i, seen) ==
    {r \in Rids : \/ Overtaken(r, i.late, seen)
                  \/ i.found[r] = None /\ room.cache[r] # None /\ EventsOf(r) \subseteq seen}

\* Mutant: objects in a kept cache are not replaced.
InstallKeeping(s, i) ==
    LET cache == [r \in Rids |-> IF s.cache[r] # None THEN s.cache[r] ELSE i.found[r]]
        defs == SeedDefs(i.tpl)
        s1 == FlushMetrics([s EXCEPT !.cache = cache,
                !.kpi = [k \in SeedKpis(i.tpl) |-> ComputeKpi(k, cache)],
                !.rules = [d \in DOMAIN defs |-> Seeded(defs[d], 1)]]) IN
    [s1 EXCEPT !.alerts = Evaluated(s1, ThresholdRules(s1) \X Cached(s1)),
               !.inited = TRUE]

\* Mutant: the threshold rules are not evaluated over the snapshot.
InstallSilent(s, i) ==
    LET cache == [r \in Rids |-> IF i.found[r] # None THEN i.found[r] ELSE s.cache[r]]
        defs == SeedDefs(i.tpl) IN
    FlushMetrics([s EXCEPT !.cache = cache, !.inited = TRUE,
        !.kpi = [k \in SeedKpis(i.tpl) |-> ComputeKpi(k, cache)],
        !.rules = [d \in DOMAIN defs |-> Seeded(defs[d], 1)]])

Install(s, i) ==
    LET cache == [r \in Rids |-> IF i.found[r] # None THEN i.found[r] ELSE s.cache[r]]
        kpi == [k \in DOMAIN s.kpi \cup SeedKpis(i.tpl) |->
                  IF k \in SeedKpis(i.tpl) THEN ComputeKpi(k, cache) ELSE s.kpi[k]]
        defs == SeedDefs(i.tpl)
        fits == {d \in DOMAIN defs \ DOMAIN s.rules :
                   defs[d].trigger = "schedule" => Cardinality(Scheduled(s)) < MaxScheduled}
        rules == [d \in DOMAIN s.rules \cup fits |->
                    IF d \in fits THEN Seeded(defs[d], 1) ELSE s.rules[d]]
        s1 == FlushMetrics([s EXCEPT !.cache = cache, !.kpi = kpi, !.rules = rules]) IN
    [s1 EXCEPT !.alerts = Evaluated(s1, ThresholdRules(s1) \X Cached(s1)),
               !.inited = TRUE]

----------------------------------------------------------------------------
(* The queue *)

Taken == UNION {work[c].evs : c \in Consumers}
Queued == {e \in events : queue[e.n] # None}

Acked(E) == [n \in DOMAIN queue |-> IF \E e \in E : e.n = n THEN None ELSE queue[n]]

\* The messages are acknowledged; the acknowledgement may be lost.
Ack(E) ==
    \/ queue' = Acked(E) /\ UNCHANGED left
    \/ /\ left.dup > 0
       /\ left' = [left EXCEPT !.dup = @ - 1]
       /\ UNCHANGED queue

\* The messages are retried, or moved to the dead letter queue.
Retry(E) ==
    queue' = [n \in DOMAIN queue |->
                IF ~\E e \in E : e.n = n THEN queue[n]
                ELSE IF queue[n] < MaxRetries THEN queue[n] + 1 ELSE None]

\* applyEvents up to its first await.  Consumers are alike: the first idle
\* one takes the batch.
Deliver(c, E) ==
    /\ work[c].pc = "idle" /\ \A d \in Consumers : d < c => work[d].pc # "idle"
    /\ E # {} /\ E \subseteq Queued \ Taken /\ Cardinality(E) <= MaxBatch
    /\ UNCHANGED <<outside, alarm, clock, calls, ghosts>>
    /\ \/ /\ room.tomb # None \/ E \subseteq room.seen
          /\ queue' = Acked(E)
          /\ UNCHANGED <<room, memory, work, left>>
       \/ /\ room.tomb = None /\ ~(E \subseteq room.seen)
          /\ room' = [room EXCEPT !.bound = TRUE]
          /\ IF room.inited
             THEN /\ work' = [work EXCEPT ![c] = [IdleConsumer EXCEPT !.pc = "read", !.evs = E]]
                  /\ UNCHANGED memory
             ELSE /\ Join(initializing)
                  /\ work' = [work EXCEPT ![c] =
                       [IdleConsumer EXCEPT !.pc = "init", !.evs = E, !.tok = Attempt(initializing)]]
          /\ UNCHANGED <<queue, left>>

\* Mutant: objects in the cache are not read again.
ReadObjectsOnce(c) ==
    /\ work[c].pc = "read"
    /\ work' = [work EXCEPT ![c].pc = "apply",
                            ![c].cur = [r \in Rids |->
                               IF room.cache[r] # None THEN room.cache[r] ELSE graph[r]]]
    /\ UNCHANGED <<outside, queue, room, alarm, clock, memory, calls, left, ghosts>>

\* getObjects answers.
ReadObjects(c) ==
    /\ work[c].pc = "read"
    /\ work' = [work EXCEPT ![c].pc = "apply",
                            ![c].cur = [r \in Rids |->
                               IF \E e \in work[c].evs : e.rid = r THEN graph[r] ELSE None]]
    /\ UNCHANGED <<outside, queue, room, alarm, clock, memory, calls, left, ghosts>>

\* getObjects fails: the batch is retried.
FailRead(c) ==
    /\ work[c].pc = "read" /\ left.fail > 0
    /\ left' = [left EXCEPT !.fail = @ - 1]
    /\ Retry(work[c].evs)
    /\ work' = [work EXCEPT ![c] = IdleConsumer]
    /\ UNCHANGED <<outside, room, alarm, clock, memory, calls, ghosts>>

\* The KPIs and the cache after the objects of rs became cur, one by one.
Tracked(s, cur, rs) ==
    LET one(r, acc) ==
          LET before == acc.cache[r]
              cache == [acc.cache EXCEPT ![r] = cur[r]]
              next == [k \in DOMAIN s.kpi |->
                         ApplyDelta(k, acc.kpi[k], Contribution(before), Contribution(cur[r]), cache)]
          IN [cache |-> cache, kpi |-> next,
              changed |-> acc.changed \cup
                 {k \in DOMAIN s.kpi : next[k].value # acc.kpi[k].value
                                       \/ next[k].cnt # acc.kpi[k].cnt}]
    IN FoldSet(one, [cache |-> s.cache, kpi |-> s.kpi, changed |-> {}], rs)

\* The rules to evaluate: of a new object every threshold rule of its type,
\* else those whose condition reads a changed property.
Candidates(s, r, changed) ==
    {i \in ThresholdRules(s) : s.cache[r] = None \/ s.rules[i].prop \in changed}

MarkMetricsDirty(s) == IF s.flushAt = None THEN [s EXCEPT !.flushAt = now + 1] ELSE s

\* The synchronous part of applyEvents on the storage s.
Applied(s, todo, cur) ==
    LET rs == {e.rid : e \in todo}
        changed(r) == UNION {e.changed : e \in {x \in todo : x.rid = r}}
        tr == Tracked(s, cur, rs)
        gone == {r \in rs : cur[r] = None}
        pairs == UNION {Candidates(s, r, changed(r)) \X {r} : r \in rs \ gone}
        s1 == [s EXCEPT !.cache = tr.cache,
                        !.kpi = [k \in DOMAIN s.kpi |-> IF k \in tr.changed THEN tr.kpi[k] ELSE s.kpi[k]],
                        !.seen = @ \cup todo]
        s2 == [s1 EXCEPT !.alerts = [a \in Pairs |->
                 IF a[2] \in gone THEN Close(s.alerts[a]) ELSE Evaluated(s1, pairs)[a]]]
    IN IF tr.changed # {} THEN MarkMetricsDirty(s2) ELSE s2

\* The rest of applyEvents, and the consumer's acknowledgement.
Apply(c) ==
    /\ work[c].pc = "apply"
    /\ LET s == Applied(room, work[c].evs \ room.seen, work[c].cur) IN
       IF room.tomb # None THEN UNCHANGED <<room, alarm, ghosts>>
       ELSE /\ room' = s
            /\ missed' = missed \cup {r \in {e.rid : e \in work[c].evs \ room.seen} :
                                      Overtaken(r, work[c].late, s.seen)}
            /\ IF Tracked(room, work[c].cur, {e.rid : e \in work[c].evs \ room.seen}).changed # {}
               THEN Reschedule(s) ELSE UNCHANGED <<alarm, unarmed>>
    /\ Ack(work[c].evs)
    /\ work' = [work EXCEPT ![c] = IdleConsumer]
    /\ UNCHANGED <<outside, clock, memory, calls>>

----------------------------------------------------------------------------
(* The end of an initialization, and those who wait for it *)

\* After its reads an initialization installs unless the room is purged or
\* another attempt was first.
MayInstallPurged(s) == ~s.inited
MayInstall(s) == s.tomb = None /\ ~s.inited

\* Mutant: only those who wait for the shared attempt are told.
WaitingShared(t) ==
    {c \in Consumers : work[c].pc = "init" /\ work[c].tok = t /\ initializing = t}

Waiting(t) == {c \in Consumers : work[c].pc = "init" /\ work[c].tok = t}
Callees(t) == {u \in Callers : calls[u].pc = "init" /\ calls[u].tok = t}

\* initialize() after its last read; then every waiting call goes on.  The
\* waiting consumers mark their events seen and apply nothing, even when
\* another attempt was first and this one installs nothing.
FinishInit(t) ==
    /\ inits[t].pc = "pages" /\ inits[t].todo = {}
    /\ inits' = [inits EXCEPT ![t] = NoInit]
    /\ initializing' = 0
    /\ LET installs == MayInstall(room)
           s == IF installs THEN Install(room, inits[t]) ELSE room
           evs == UNION {work[c].evs : c \in Waiting(t)}
           re == \E u \in Callees(t) : calls[u].re IN
       /\ room' = IF s.tomb = None THEN [s EXCEPT !.seen = @ \cup evs] ELSE s
       /\ missed' = missed \cup
            (IF s.tomb # None THEN {}
             ELSE IF installs THEN LostBy(inits[t], room.seen \cup evs)
             ELSE {e.rid : e \in evs \ room.seen})
       /\ IF installs \/ re THEN Reschedule(s) ELSE UNCHANGED <<alarm, unarmed>>
       /\ Ack(evs)
    /\ work' = [c \in Consumers |-> IF c \in Waiting(t) THEN IdleConsumer ELSE work[c]]
    /\ calls' = [u \in Callers |->
         IF u \notin Callees(t) THEN calls[u]
         ELSE IF calls[u].kind \in {"create", "put"}
              THEN [calls[u] EXCEPT !.pc = "check", !.tok = 0, !.re = FALSE]
         ELSE IF calls[u].kind = "delete"
              THEN [calls[u] EXCEPT !.pc = "commit", !.tok = 0, !.re = FALSE]
         ELSE IdleCall]
    /\ UNCHANGED <<outside, clock>>

\* A read of initialize() fails: the attempt leaves the room as it was, the
\* consumers retry; only an overview goes on and sets the alarm.
FailInit(t) ==
    /\ inits[t].pc # "free" /\ left.fail > 0
    /\ left' = [left EXCEPT !.fail = @ - 1]
    /\ inits' = [inits EXCEPT ![t] = NoInit]
    /\ initializing' = 0
    /\ Retry(UNION {work[c].evs : c \in Waiting(t)})
    /\ work' = [c \in Consumers |-> IF c \in Waiting(t) THEN IdleConsumer ELSE work[c]]
    /\ LET re == {u \in Callees(t) : calls[u].re} IN
       IF \E u \in re : calls[u].kind = "overview" THEN Reschedule(room)
       ELSE unarmed' = (unarmed \/ re # {}) /\ UNCHANGED alarm
    /\ calls' = [u \in Callers |-> IF u \in Callees(t) THEN IdleCall ELSE calls[u]]
    /\ UNCHANGED <<outside, room, clock, missed>>

----------------------------------------------------------------------------
(* Calls of people *)

\* touch: binds the room and clears `inactive`.  Refused by a tombstone.
Touched(s) == [s EXCEPT !.bound = TRUE, !.inactive = FALSE]

CallKinds == {"overview", "list", "create", "put", "delete"}

\* checkVersion and validateAutomation.
Accepts(s, c) ==
    LET others == Scheduled(s) \ {c.id} IN
    /\ s.tomb = None
    /\ c.kind # "create" => c.id \in DOMAIN s.rules /\ s.rules[c.id].version = c.ifMatch
    /\ c.kind # "delete" /\ c.def.trigger = "schedule" => Cardinality(others) < MaxScheduled

Without(f, ids) == [i \in DOMAIN f \ ids |-> f[i]]

\* deleteAutomation: the rule's active alerts close.
Deleted(s, id) ==
    [s EXCEPT !.alerts = [a \in Pairs |-> IF a[1] = id THEN Close(s.alerts[a]) ELSE s.alerts[a]],
              !.rules = Without(@, {id})]

\* The calls that reach ensureInitialized: overview, listAlerts ("list"), and
\* prepare() of the automation calls.  A delete has no other await.
Call(u, kind, id, def) ==
    /\ calls[u].pc = "idle" /\ left.call > 0 /\ room.tomb = None
    /\ \A v \in Callers : v < u => calls[v].pc # "idle"
    /\ kind \in left.kinds
    /\ left' = [left EXCEPT !.call = @ - 1]
    /\ LET s == Touched(room)
           re == room.inactive /\ kind # "list"
           c == [IdleCall EXCEPT !.kind = kind, !.id = id, !.def = def,
                   !.ifMatch = IF id \in DOMAIN room.rules THEN room.rules[id].version ELSE 0] IN
       /\ IF room.inited
          THEN /\ room' = IF kind = "delete" THEN Deleted(s, id) ELSE s
               /\ IF re \/ kind = "delete" THEN Reschedule(room')
                  ELSE UNCHANGED alarm /\ unarmed' = (unarmed \/ room.inactive)
               /\ calls' = [calls EXCEPT ![u] =
                    IF kind \in {"create", "put"} THEN [c EXCEPT !.pc = "check"] ELSE IdleCall]
               /\ UNCHANGED memory
          ELSE /\ room' = s
               /\ Join(initializing)
               /\ calls' = [calls EXCEPT ![u] =
                    [c EXCEPT !.pc = "init", !.tok = Attempt(initializing), !.re = re]]
               /\ unarmed' = (unarmed \/ (room.inactive /\ ~re))
               /\ UNCHANGED alarm
    /\ UNCHANGED <<outside, queue, clock, work, missed>>

StartCall(u) ==
    \E kind \in CallKinds :
      \/ kind \in {"overview", "list"} /\ Call(u, kind, None, None)
      \/ /\ kind = "create"
         /\ \E id \in UserRules \ DOMAIN room.rules, def \in UserDefs :
              /\ \A v \in Callers : calls[v].kind = "create" => calls[v].id # id
              /\ Call(u, kind, id, def)
      \/ kind = "put" /\ \E id \in DOMAIN room.rules, def \in UserDefs : Call(u, kind, id, def)
      \/ kind = "delete" /\ \E id \in DOMAIN room.rules : Call(u, kind, id, None)

\* The rule a put stores: it keeps its schedule when that did not change.
Replaced(old, d) ==
    [Seeded(d, old.version + 1) EXCEPT
       !.next = IF d.trigger = "schedule" /\ old.trigger = "schedule" /\ old.next # None
                THEN old.next ELSE @]

\* reevaluate: an enabled threshold rule over the cache, any rule over its
\* active alerts.
Reevaluated(s, id) ==
    LET over == IF s.rules[id].trigger = "threshold" /\ s.rules[id].on THEN Cached(s) ELSE {} IN
    [s EXCEPT !.alerts = Evaluated(s, {id} \X (over \cup ActiveOf(s, id)))]

Put(f, id, v) == [i \in DOMAIN f \cup {id} |-> IF i = id THEN v ELSE f[i]]

Stored(s, c) ==
    LET rule == IF c.kind = "create" THEN Seeded(c.def, 1)
                ELSE Replaced(s.rules[c.id], c.def) IN
    Reevaluated([s EXCEPT !.rules = Put(@, c.id, rule)], c.id)

\* The answer of checkObjectType (put has checked the version before it).
\* Types of another template are unknown: the call is refused.
CheckType(u) ==
    /\ calls[u].pc = "check"
    /\ calls' = [calls EXCEPT ![u] =
         IF template = "sample"
            /\ (calls[u].kind = "put" => calls[u].id \in DOMAIN room.rules)
         THEN [@ EXCEPT !.pc = "commit"] ELSE IdleCall]
    /\ UNCHANGED <<outside, queue, room, alarm, clock, memory, work, left, ghosts>>

\* createAutomation, putAutomation and deleteAutomation after their awaits.
CommitRule(u) ==
    /\ calls[u].pc = "commit"
    /\ calls' = [calls EXCEPT ![u] = IdleCall]
    /\ LET c == calls[u]
           s == IF c.kind = "delete" THEN Deleted(room, c.id) ELSE Stored(room, c) IN
       IF Accepts(room, c) THEN room' = s /\ Reschedule(s)
       ELSE UNCHANGED <<room, alarm, unarmed>>
    /\ UNCHANGED <<outside, queue, clock, memory, work, left, missed>>

\* acknowledgeAlert of an OPEN alert (others change nothing but `inactive`),
\* and pushRecommendation: no initialization, no alarm.
Acknowledge(a) ==
    /\ left.ack > 0 /\ room.tomb = None
    /\ left' = [left EXCEPT !.ack = @ - 1]
    /\ unarmed' = (unarmed \/ room.inactive)
    /\ room' = [Touched(room) EXCEPT !.alerts[a].active =
                  [i \in DOMAIN @ |-> "ACKED"]]
    /\ UNCHANGED <<outside, queue, alarm, clock, memory, work, calls, missed>>

----------------------------------------------------------------------------
(* Resets *)

\* What resetForTemplate and clearWorkspace do before they initialize.
Restart(s) ==
    /\ room' = [s EXCEPT !.inited = FALSE, !.bound = TRUE, !.inactive = FALSE]
    /\ Join(0)
    /\ unarmed' = (unarmed \/ room.inactive)
    /\ UNCHANGED <<alarm, missed>>

\* resetForTemplate, called at the end of a sample load.
ResetForTemplate ==
    /\ left.reset > 0 /\ room.tomb = None /\ ~clearing
    /\ left' = [left EXCEPT !.reset = @ - 1]
    /\ Restart([room EXCEPT !.kpi = [k \in {} |-> None], !.rules = [r \in {} |-> None]])
    /\ UNCHANGED <<outside, queue, clock, work, calls>>

\* The write n comes after a read that is not stored yet.
Late(x, pc, n) == IF x.pc = pc THEN [x EXCEPT !.late = @ \cup {n}] ELSE x

\* clearWorkspaceBff: the graph is emptied and the template set to blank ...
ClearGraph ==
    /\ left.clear > 0 /\ room.tomb = None
    /\ left' = [left EXCEPT !.clear = @ - 1]
    /\ graph' = NoCache
    /\ template' = "blank"
    /\ clearing' = TRUE
    /\ inits' = [t \in Tokens |->
         IF inits[t].todo # Rids THEN Late(inits[t], "pages", 0) ELSE inits[t]]
    /\ work' = [c \in Consumers |-> Late(work[c], "apply", 0)]
    /\ UNCHANGED <<events, queue, room, alarm, clock, initializing, calls, ghosts>>

\* ... and then the room, with clearScenarioData.
ClearRoom ==
    /\ clearing /\ room.tomb = None
    /\ clearing' = FALSE
    /\ Restart([room EXCEPT !.cache = NoCache, !.kpi = [k \in {} |-> None],
                            !.point = [k \in Kpis |-> None], !.rules = [r \in {} |-> None],
                            !.alerts = [a \in Pairs |-> NoAlert]])
    /\ UNCHANGED <<graph, template, events, queue, clock, work, calls, left>>

----------------------------------------------------------------------------
(* The alarm and the lifecycle *)

\* advanceRun: keeps the phase and skips missed slots.
AdvanceRun(due) == Min({due + k * Every : k \in 1 .. (MaxTime + 1)} \cap {t \in Times : t > now})

Ran(s) ==
    LET s1 == IF s.flushAt # None /\ OrZero(s.flushAt) <= now THEN FlushMetrics(s) ELSE s
        due == {i \in Scheduled(s) : s.rules[i].on /\ s.rules[i].next <= now} IN
    [s1 EXCEPT
       !.alerts = Evaluated(s1, UNION {{i} \X (Cached(s) \cup ActiveOf(s, i)) : i \in due}),
       !.rules = [i \in DOMAIN s.rules |->
                    IF i \in due THEN [s.rules[i] EXCEPT !.next = AdvanceRun(@)] ELSE s.rules[i]]]

\* The platform takes the alarm off and calls the room ...
Ring ==
    /\ alarm # None /\ now >= OrZero(alarm)
    /\ alarm' = None /\ ringing' = TRUE
    /\ UNCHANGED <<outside, queue, room, now, memory, work, calls, left, ghosts>>

\* ... runAlarm.  When a tombstone goes, no message from before it is left.
RunAlarm ==
    /\ ringing
    /\ ringing' = FALSE
    /\ \/ /\ room.tomb # None /\ now >= OrZero(room.tomb)
          /\ Queued = {}
          /\ room' = NewRoom /\ alarm' = None
          /\ initializing' = 0 /\ UNCHANGED <<inits, unarmed>>
       \/ /\ room.tomb # None /\ now < OrZero(room.tomb)
          /\ alarm' = room.tomb /\ UNCHANGED <<room, memory, unarmed>>
       \/ /\ room.tomb = None /\ room.inactive
          /\ Reschedule(room) /\ UNCHANGED <<room, memory>>
       \/ /\ room.tomb = None /\ ~room.inactive
          /\ room' = Ran(room) /\ Reschedule(Ran(room)) /\ UNCHANGED memory
    /\ UNCHANGED <<outside, queue, now, work, calls, left, missed>>

\* closeStreams, when the trial ends.
CloseStreams ==
    /\ left.close > 0
    /\ left' = [left EXCEPT !.close = @ - 1]
    /\ LET s == IF room.tomb = None /\ room.bound THEN [room EXCEPT !.inactive = TRUE] ELSE room IN
       room' = s /\ Reschedule(s)
    /\ UNCHANGED <<outside, queue, clock, memory, work, calls, missed>>

\* purgeRoom.
PurgeRoom ==
    /\ left.purge > 0 /\ room.tomb = None
    /\ left' = [left EXCEPT !.purge = @ - 1]
    /\ room' = [NewRoom EXCEPT !.tomb = now + TombTtl]
    /\ alarm' = now + TombTtl
    /\ initializing' = 0
    /\ unarmed' = FALSE
    /\ UNCHANGED <<outside, queue, clock, inits, work, calls, missed>>

----------------------------------------------------------------------------
(* The graph and the clock *)

\* A write of the object graph with its domain event.
Write(r, o) ==
    /\ left.write > 0 /\ r \in left.rids
    /\ template = "sample" /\ ~clearing /\ o # graph[r]
    /\ left' = [left EXCEPT !.write = @ - 1]
    /\ graph' = [graph EXCEPT ![r] = o]
    /\ LET n == Cardinality(events) + 1
           changed == IF o = None \/ graph[r] = None THEN (IF o = None THEN {} ELSE {"p", "q"})
                      ELSE {f \in {"p", "q"} : o[f] # graph[r][f]} IN
       /\ events' = events \cup {[n |-> n, rid |-> r, changed |-> changed]}
       /\ queue' = [i \in 1 .. n |-> IF i = n THEN 0 ELSE queue[i]]
       /\ inits' = [t \in Tokens |->
            IF r \notin inits[t].todo THEN Late(inits[t], "pages", n) ELSE inits[t]]
       /\ work' = [c \in Consumers |-> Late(work[c], "apply", n)]
    /\ UNCHANGED <<template, clearing, room, alarm, clock, initializing, calls, ghosts>>

\* A tick is longer than any call: none is at work when time passes, and an
\* alarm that is due has run.
Tick ==
    /\ left.tick > 0 /\ now < MaxTime
    /\ ~SomeoneAtWork /\ \A u \in Callers : calls[u].pc = "idle"
    /\ ~ringing /\ (alarm # None => now < OrZero(alarm))
    /\ left' = [left EXCEPT !.tick = @ - 1]
    /\ now' = now + 1
    /\ UNCHANGED <<outside, queue, room, alarm, ringing, memory, work, calls, ghosts>>

Init ==
    /\ graph = [r \in Rids |-> IF r = 1 THEN [p |-> 2, q |-> 1] ELSE None]
    /\ template = "sample"
    /\ events = {} /\ queue = <<>>
    /\ clearing = FALSE
    /\ room = NewRoom
    /\ alarm = None
    /\ now = 0 /\ ringing = FALSE
    /\ initializing = 0
    /\ inits = [t \in Tokens |-> NoInit]
    /\ work = [c \in Consumers |-> IdleConsumer]
    /\ calls = [u \in Callers |-> IdleCall]
    /\ left \in Workloads
    /\ missed = {} /\ unarmed = FALSE

\* The queue delivers what it holds, the services answer, the room goes on.
Service ==
    \/ \E c \in Consumers : \/ \E E \in SUBSET Queued : Deliver(c, E)
                            \/ ReadObjects(c) \/ Apply(c)
    \/ \E t \in Tokens : ReadSchema(t) \/ ReadPage(t) \/ FinishInit(t)

Next ==
    \/ \E r \in Rids, o \in Objects \cup {None} : Write(r, o)
    \/ Service
    \/ \E c \in Consumers : FailRead(c)
    \/ \E t \in Tokens : FailInit(t)
    \/ \E u \in Callers : StartCall(u) \/ CheckType(u) \/ CommitRule(u)
    \/ \E a \in Pairs : Acknowledge(a)
    \/ ResetForTemplate \/ ClearGraph \/ ClearRoom
    \/ Ring \/ RunAlarm \/ CloseStreams \/ PurgeRoom
    \/ Tick

Spec == Init /\ [][Next]_vars
----------------------------------------------------------------------------
(* Properties *)

KpiStates == [cnt : Nat, total : Int, value : Int \cup {None}]
RuleRecs == [trigger : Triggers, prop : {"p", "q"}, on : BOOLEAN, version : Nat,
             next : Times \cup {None}]

TypeOK ==
    /\ graph \in [Rids -> Objects \cup {None}]
    /\ template \in {"sample", "blank"}
    /\ \A e \in events : e.rid \in Rids /\ e.changed \subseteq {"p", "q"}
    /\ DOMAIN queue = {e.n : e \in events}
    /\ \A n \in DOMAIN queue : queue[n] \in (0 .. MaxRetries) \cup {None}
    /\ room.cache \in [Rids -> Objects \cup {None}]
    /\ DOMAIN room.kpi \subseteq Kpis
    /\ \A k \in DOMAIN room.kpi : room.kpi[k] \in KpiStates
    /\ DOMAIN room.rules \subseteq Rules
    /\ \A i \in DOMAIN room.rules : room.rules[i] \in RuleRecs
    /\ room.seen \subseteq events
    /\ alarm \in Times \cup {None}
    /\ initializing \in Tokens \cup {0}
    /\ initializing # 0 => inits[initializing].pc # "free"

\* The KPIs a room keeps up to date change by change are the ones it would
\* compute over its whole cache, whatever order deliveries, initializations,
\* clears and resets take (KpiTracker, applyKpiDelta, install).
KpiMatchesCache ==
    \A k \in DOMAIN room.kpi :
        LET full == ComputeKpi(k, room.cache) IN
        room.kpi[k].value = full.value /\ room.kpi[k].cnt = full.cnt

\* "At most one active (OPEN or ACKED) alert per (automation, rid)"
\* (alert_policy.ts), whoever evaluates the rule.
OneActiveAlert == \A a \in Pairs : Len(room.alerts[a].active) <= 1

\* An object all whose events the room has seen is in the cache as it is in
\* the graph, however consumers, initializations and clears interleave.  The
\* objects in missed are excepted, of which the room stored what it had read
\* before an event it has seen: it compares no versions.  That happens when
\* two reads of an object are stored in the other order, but also when a
\* delivery waits for an initialization that had read the object before the
\* change, against the comment of applyEvents (process_situation_event.ts:
\* 62-64), when it waits for one that installs nothing, and when a deleted
\* object stays in the cache a reset kept (LostBy).
CacheFresh ==
    room.inited /\ ~clearing =>
        \A r \in Rids \ missed : EventsOf(r) \subseteq room.seen => room.cache[r] = graph[r]

\* The alerts of enabled threshold rules agree with the cache once an object's
\* events are seen, but for the objects in missed: an active alert has a
\* matching object, and a match without one was closed before and is cooling
\* down or waits for the next change.
AlertsMatchCache ==
    room.inited =>
        \A i \in ThresholdRules(room), r \in Rids \ missed :
            EventsOf(r) \subseteq room.seen =>
                LET al == room.alerts[<<i, r>>]
                    m == Matches(room.rules[i], room.cache[r]) IN
                /\ al.active # <<>> => m
                /\ m /\ al.active = <<>> => al.closed # None

\* A room never has more scheduled automations than the limit, however many
\* people create and change automations at once (validateAutomation runs
\* after the last await).
ScheduledBounded == Cardinality(Scheduled(room)) <= MaxScheduled

\* The single alarm is never later than the next flush or scheduled run of a
\* room in use, unless a call that sets no alarm was the one to wake it.
AlarmArmed ==
    room.tomb = None /\ ~room.inactive /\ ~unarmed /\ Due(room) # None
    /\ (\A u \in Callers : ~calls[u].re) =>
        ringing \/ (alarm # None /\ OrZero(alarm) <= Due(room))

\* A KPI value that is not the latest point has a flush on its way, so trends
\* miss no value that lasts.
TrendPending ==
    room.inited /\ room.flushAt = None =>
        \A k \in DOMAIN room.kpi :
            room.kpi[k].value # None => room.point[k] = room.kpi[k].value

\* Nothing comes back into a purged room: consumers, initializations and
\* calls that were at work when the purge ran write nothing after it.
TombstoneEmpty ==
    room.tomb # None =>
        /\ room = [NewRoom EXCEPT !.tomb = room.tomb]
        /\ ringing \/ alarm = room.tomb

\* Whoever waits for an initialization waits for one that is at work: a
\* reset, a purge or another attempt's end never leaves a call waiting for
\* ever (rt.initializing is shared, replaced and cleared by each of them).
WaitersServed ==
    /\ \A c \in Consumers : work[c].pc = "init" => inits[work[c].tok].pc # "free"
    /\ \A u \in Callers : calls[u].pc = "init" => inits[calls[u].tok].pc # "free"

\* What a room derives agrees with what it caches, through duplicated and
\* reordered deliveries, initializations, clears and resets: KPIs, and at
\* most one active alert for each automation and object, the right one.
DerivedMatchesCache ==
    TypeOK /\ KpiMatchesCache /\ OneActiveAlert /\ AlertsMatchCache

\* What is to happen later does: the room's one alarm is never later than
\* its next flush or scheduled run, of which there are not too many, and no
\* trend misses a value that lasts.
TimersKept == AlarmArmed /\ TrendPending /\ ScheduledBounded
=============================================================================

---------------------------- MODULE LiveStream ----------------------------
(***************************************************************************)
(* The live stream of one workspace: the SituationRoom's realtime messages *)
(* (packages/situation), the reconnecting client WsClient, and StreamHub,  *)
(* which gives the tabs of one browser one connection (apps/web).          *)
(*                                                                         *)
(* The room numbers its messages and keeps the last ReplayMax of them.  A  *)
(* message is its number; what a tab shows is the set of messages its      *)
(* overview reflects.  A snapshot or a polled overview reflects every      *)
(* message up to the moment the room built it and replaces what was shown. *)
(*                                                                         *)
(* Messages of one connection arrive in order; a dropped connection loses  *)
(* those under way.  Timers and answers are steps of their own, so each    *)
(* may come arbitrarily late.                                              *)
(*                                                                         *)
(* Abstracted: one user; delays of timers; heartbeats; the connection      *)
(* badge (`state' messages between tabs); browsers without Web Locks.      *)
(***************************************************************************)
EXTENDS Integers, Sequences, FiniteSets, FiniteSetsExt, SequencesExt

CONSTANTS
    Tabs,
    Browser,      \* the browser of each tab
    Cap,          \* CE_LIMITS.streams (3)
    ReplayMax,    \* WS_REPLAY_MAX (200)
    MaxFailures,  \* WS_DEFAULTS.failuresBeforePolling (3)
    Conns,        \* bound: connections at once
    Workloads,    \* bounds: how many steps of each kind may happen
    None

ASSUME StreamAssumption ==
    /\ IsFiniteSet(Tabs) /\ IsFiniteSet(Conns) /\ Conns \subseteq Nat
    /\ DOMAIN Browser = Tabs
    /\ {Cap, ReplayMax, MaxFailures} \subseteq Nat \ {0}

VARIABLES
    maxSeq,   \* the room's last message
    live,     \* the trial runs
    listed,   \* the room's sockets, oldest first
    conns,    \* the connections
    tab,      \* the tabs: hub, client and what they show
    lock,     \* the tabs that asked for a browser's Web Lock, the holder first
    inbox,    \* messages of the BroadcastChannel still to be heard
    left      \* what is left of the workload

room == <<maxSeq, live>>
vars == <<room, listed, conns, tab, lock, inbox, left>>

----------------------------------------------------------------------------
(* Data *)

Kinds == {"push", "drop", "fail", "poll", "hide", "stop", "end", "extend"}
States == {"idle", "connecting", "open", "reconnecting", "polling", "paused",
           "ended", "closed"}

ExpiredCode == 4401
ReplacedCode == 4408
LimitCodes == {1008, 1013, 4429}

UpTo(n) == 1 .. n
Snapshot(n) == [type |-> "snapshot", seq |-> n]
Increment(n) == [type |-> "increment", seq |-> n]
Asked == [type |-> "asked", seq |-> 0]
Poll(n) == [type |-> "poll", seq |-> n]
Close(code) == [type |-> "close", seq |-> code]
Opened == [type |-> "opened", seq |-> 0]

\* A tab that was not opened yet.  `hub' is its StreamHub: seen are the tabs
\* it believes visible, ticking its timer of hidden tabs, byHub that it
\* paused the client.  `ws' is the hub's WsClient: asking and late are ticket
\* requests under way of the latest connect and of earlier ones, polled the
\* answer of a poll (or Asked); `based', history, that it has had a snapshot
\* with a number to resume from.
NewClient ==
    [state |-> "idle", lastSeq |-> 0, failures |-> 0, opened |-> FALSE,
     pending |-> FALSE, stopped |-> TRUE, paused |-> FALSE, asking |-> FALSE,
     late |-> FALSE, retry |-> FALSE, polling |-> FALSE, polled |-> None,
     socket |-> None, based |-> FALSE]
NewTab ==
    [life |-> "new", visible |-> FALSE, leader |-> FALSE, seen |-> {},
     ticking |-> FALSE, byHub |-> FALSE, ws |-> NewClient,
     batch |-> <<>>, shows |-> {}, checks |-> FALSE, hid |-> 0]

Spend(k) == left[k] > 0 /\ left' = [left EXCEPT ![k] = @ - 1]

Siblings(t) == {u \in Tabs : u # t /\ Browser[u] = Browser[t] /\ tab[u].life = "on"}

\* What the other tabs of the browser have to hear once t posted ms.
Posted(t, ms) == [u \in Tabs |-> IF u \in Siblings(t) THEN inbox[u] \o ms ELSE inbox[u]]

Msg(k, t) == [t |-> k, of |-> t, frame |-> None]
Frame(f) == [t |-> "frame", of |-> None, frame |-> f]
Vis(t, v) == Msg(IF v THEN "visible" ELSE "hidden", t)

----------------------------------------------------------------------------
(* The client *)

Running(c) == ~c.stopped /\ ~c.paused

Connect(c) ==
    IF ~Running(c) THEN c
    ELSE [c EXCEPT !.asking = TRUE, !.late = c.late \/ c.asking, !.retry = FALSE,
                   !.state = CASE @ = "polling" -> @
                               [] @ # "polling" /\ c.failures > 0 -> "reconnecting"
                               [] OTHER -> "connecting"]

\* Mutant: an answer of an earlier connect is used as well.
UsesTicketAny(c, which) == Running(c)

UsesTicket(c, which) == Running(c) /\ which = "asking"

ScheduleReconnect(c, s) == [c EXCEPT !.state = s, !.retry = TRUE]

StartPolling(c) ==
    IF c.polling THEN c
    ELSE [c EXCEPT !.polling = TRUE, !.polled = IF @ = None THEN Asked ELSE @]

\* Mutant: a client that polls does not try to connect again.
FailStops(c, limit) ==
    LET n == IF c.failures < MaxFailures THEN c.failures + 1 ELSE MaxFailures
        d == [c EXCEPT !.failures = n] IN
    IF limit \/ n >= MaxFailures THEN [StartPolling(d) EXCEPT !.state = "polling"]
    ELSE ScheduleReconnect(d, "reconnecting")

\* fail(limit); the count stops at the failures that matter.
Fail(c, limit) ==
    LET n == IF c.failures < MaxFailures THEN c.failures + 1 ELSE MaxFailures
        d == [c EXCEPT !.failures = n]
        e == IF limit \/ n >= MaxFailures THEN StartPolling(d) ELSE d IN
    ScheduleReconnect(e, IF e.polling THEN "polling" ELSE "reconnecting")

Idle(c) == [c EXCEPT !.retry = FALSE, !.polling = FALSE, !.socket = None]

Stop(c) == [Idle(c) EXCEPT !.stopped = TRUE,
                           !.state = IF @ = "ended" THEN @ ELSE "closed"]

Pause(c) ==
    IF ~Running(c) THEN c
    ELSE [Idle(c) EXCEPT !.paused = TRUE, !.state = "paused"]

Resume(c) ==
    IF c.stopped \/ ~c.paused THEN c
    ELSE Connect([c EXCEPT !.paused = FALSE, !.failures = 0])

HandleOpen(c) ==
    [c EXCEPT !.opened = TRUE, !.failures = 0, !.polling = FALSE, !.state = "open",
              !.pending = c.lastSeq > 0]

\* What handleClose does with a close code, but for the call of onEnded.
HandleClose(c, code) ==
    LET d == [c EXCEPT !.socket = None] IN
    CASE code = ExpiredCode ->
           [Idle(d) EXCEPT !.stopped = TRUE, !.state = "ended"]
      [] code \in LimitCodes -> Fail(d, TRUE)
      [] code \notin LimitCodes \cup {ExpiredCode} /\ c.opened ->
           ScheduleReconnect([d EXCEPT !.opened = FALSE, !.failures = 0], "reconnecting")
      [] OTHER -> Fail(d, FALSE)

Accepts(c, f) ==
    \/ f.type = "snapshot"
    \/ c.lastSeq = 0
    \/ f.seq = c.lastSeq + 1

\* A message beyond the next one: ask for a replay once.
Gap(c, f) == ~Accepts(c, f) /\ f.seq > c.lastSeq /\ ~c.pending

----------------------------------------------------------------------------
(* The tabs *)

\* checkVisibility
CheckVisibility(s) ==
    CASE ~s.leader -> s
      [] s.leader /\ s.seen # {} ->
           [s EXCEPT !.ticking = FALSE, !.byHub = FALSE,
                     !.ws = IF s.byHub THEN Resume(@) ELSE @]
      [] OTHER -> [s EXCEPT !.ticking = TRUE]

\* hub.stop(), and releaseAll: the batcher is disposed.
Released(s) ==
    [s EXCEPT !.life = "off", !.leader = FALSE, !.ticking = FALSE, !.seen = {},
              !.ws = [Stop(@) EXCEPT !.polled = None, !.asking = FALSE, !.late = FALSE],
              !.batch = <<>>, !.checks = FALSE]

\* The connections once the tabs are ts and the room lists l: one that its
\* client gave up is cut, and is forgotten when the room does not know it.
Tidy(ts, l, cs) ==
    [i \in Conns |->
       CASE cs[i] = None -> None
         [] cs[i] # None /\ ts[cs[i].tab].ws.socket # i
            /\ ~cs[i].dialing /\ i \notin Range(l) -> None
         [] cs[i] # None /\ ts[cs[i].tab].ws.socket # i
            /\ (cs[i].dialing \/ i \in Range(l)) ->
              [cs[i] EXCEPT !.cut = TRUE, !.toClient = <<>>, !.toRoom = <<>>]
         [] OTHER -> cs[i]]

\* Tab t becomes s; l and cs are the room's sockets and the connections.
Become(t, s, l, cs) ==
    LET ts == [tab EXCEPT ![t] = s] IN
    /\ tab' = ts
    /\ listed' = l
    /\ conns' = Tidy(ts, l, cs)

Only(t, s) == Become(t, s, listed, conns)

\* hub.start
OpenTab(t) == \E v \in BOOLEAN :
    /\ tab[t].life = "new" /\ t \in left.tabs
    /\ IF v THEN UNCHANGED left ELSE Spend("hide")
    /\ tab' = [tab EXCEPT ![t] =
                 [@ EXCEPT !.life = "on", !.visible = v, !.seen = {u \in {t} : v},
                           !.shows = UpTo(maxSeq)]]
    /\ inbox' = Posted(t, <<Msg("hello", t), Vis(t, v)>>)
    /\ lock' = [lock EXCEPT ![Browser[t]] = Append(@, t)]
    /\ UNCHANGED <<room, listed, conns>>

\* The lock is granted: becomeLeader, or nothing when the hub has stopped.
Grant(t) ==
    /\ lock[Browser[t]] # <<>> /\ Head(lock[Browser[t]]) = t
    /\ ~tab[t].leader
    /\ IF tab[t].life # "on"
       THEN /\ lock' = [lock EXCEPT ![Browser[t]] = Tail(@)]
            /\ UNCHANGED <<inbox, tab, listed, conns>>
       ELSE /\ Only(t, CheckVisibility(
                         [tab[t] EXCEPT !.leader = TRUE,
                                        !.ws = Connect([NewClient EXCEPT !.stopped = FALSE])]))
            /\ inbox' = Posted(t, <<Msg("probe", t)>>)
            /\ UNCHANGED lock
    /\ UNCHANGED <<room, left>>

Freed(t) == [lock EXCEPT ![Browser[t]] = IF tab[t].leader THEN Tail(@) ELSE @]

Leave(t, ms) ==
    /\ Only(t, Released(tab[t]))
    /\ lock' = Freed(t)
    /\ inbox' = [Posted(t, ms) EXCEPT ![t] = <<>>]

\* The layout unmounts (sign-out, another workspace) ...
StopTab(t) ==
    /\ tab[t].life = "on"
    /\ Spend("stop")
    /\ Leave(t, <<Msg("bye", t)>>)
    /\ UNCHANGED room

\* ... or the page closes: a visible page is told it is hidden, no more.
CloseTab(t) ==
    /\ tab[t].life = "on"
    /\ Spend("stop")
    /\ Leave(t, IF tab[t].visible THEN <<Vis(t, FALSE)>> ELSE <<>>)
    /\ UNCHANGED room

\* onVisibility
SetVisible(t) ==
    LET v == ~tab[t].visible IN
    /\ tab[t].life = "on"
    /\ Spend("hide")
    /\ Only(t, CheckVisibility(
                 [tab[t] EXCEPT !.visible = v,
                                !.seen = IF v THEN @ \cup {t} ELSE @ \ {t}]))
    /\ inbox' = Posted(t, <<Vis(t, v)>>)
    /\ UNCHANGED <<room, lock>>

\* The timer of checkVisibility.
HiddenLong(t) ==
    /\ tab[t].ticking
    /\ Only(t, [tab[t] EXCEPT !.ticking = FALSE, !.byHub = TRUE, !.ws = Pause(@)])
    /\ UNCHANGED <<room, lock, inbox, left>>

\* Mutant: a tab that leaves is still believed visible.
HeardNoBye(s, m) ==
    CASE m.t = "frame" /\ ~s.leader -> [s EXCEPT !.batch = Append(@, m.frame)]
      [] m.t = "ended" /\ ~s.leader -> [s EXCEPT !.checks = TRUE]
      [] m.t = "visible" -> CheckVisibility([s EXCEPT !.seen = @ \cup {m.of}])
      [] m.t = "hidden" -> CheckVisibility([s EXCEPT !.seen = @ \ {m.of}])
      [] OTHER -> s

\* onMessage
Heard(s, m) ==
    CASE m.t = "frame" /\ ~s.leader -> [s EXCEPT !.batch = Append(@, m.frame)]
      [] m.t = "ended" /\ ~s.leader -> [s EXCEPT !.checks = TRUE]
      [] m.t = "visible" -> CheckVisibility([s EXCEPT !.seen = @ \cup {m.of}])
      [] m.t \in {"hidden", "bye"} -> CheckVisibility([s EXCEPT !.seen = @ \ {m.of}])
      [] OTHER -> s

Hear(t) ==
    /\ inbox[t] # <<>>
    /\ LET m == Head(inbox[t]) IN
       /\ Only(t, Heard(tab[t], m))
       /\ inbox' = [Posted(t, IF m.t \in {"hello", "probe"} THEN <<Vis(t, tab[t].visible)>>
                              ELSE <<>>)
                    EXCEPT ![t] = Tail(@)]
    /\ UNCHANGED <<room, lock, left>>

----------------------------------------------------------------------------
(* Connecting *)

\* The reconnect timer.
Retry(t) ==
    /\ tab[t].ws.retry
    /\ Only(t, [tab[t] EXCEPT !.ws = Connect([@ EXCEPT !.retry = FALSE])])
    /\ UNCHANGED <<room, lock, inbox, left>>

Answered(c, which) == [c EXCEPT ![which] = FALSE]

NewConn(t) == [tab |-> t, dialing |-> TRUE, cut |-> FALSE, toClient |-> <<>>,
               toRoom |-> <<>>, snaps |-> 0]

\* The answer of POST /situation/stream-tickets: a ticket, to dial with ...
TicketIssued(t, which) ==
    LET c == tab[t].ws
        d == Answered(c, which) IN
    /\ c[which] /\ live
    /\ IF ~UsesTicket(c, which) THEN Only(t, [tab[t] EXCEPT !.ws = d])
       ELSE LET free == {j \in Conns : conns[j] = None}
                i == Min(free) IN
            /\ free # {}
            /\ Become(t, [tab[t] EXCEPT !.ws = [d EXCEPT !.opened = FALSE, !.socket = i]],
                      listed, [conns EXCEPT ![i] = NewConn(t)])
    /\ UNCHANGED <<room, lock, inbox, left>>

\* ... or none: the call failed.
TicketFailed(t, which) ==
    LET c == tab[t].ws
        d == Answered(c, which) IN
    /\ c[which]
    /\ Spend("fail")
    /\ Only(t, [tab[t] EXCEPT !.ws = IF UsesTicket(c, which) THEN Fail(d, FALSE) ELSE d])
    /\ UNCHANGED <<room, lock, inbox>>

Told(cs, i, m) ==
    [cs EXCEPT ![i] = IF @.cut THEN @ ELSE [@ EXCEPT !.toClient = Append(@, m)]]

\* socketsToEvict: the oldest beyond the limit.
Evict(l) == IF Len(l) > Cap THEN SubSeq(l, 1, Len(l) - Cap) ELSE <<>>

\* The room redeems the ticket and accepts the socket; onConnect evicts the
\* oldest ones and begins a snapshot.
Accept(i) ==
    LET l == Append(listed, i)
        old == Range(Evict(l)) \ {i}
        told == FoldSet(LAMBDA j, cs : Told(cs, j, Close(ReplacedCode)),
                        Told(conns, i, Opened), old) IN
    /\ conns[i] # None /\ conns[i].dialing
    /\ listed' = SelectSeq(l, LAMBDA j : j \notin old)
    /\ conns' = Tidy(tab, listed', [told EXCEPT ![i] = [@ EXCEPT !.dialing = FALSE, !.snaps = 1]])
    /\ UNCHANGED <<room, tab, lock, inbox, left>>

\* The ticket has expired or the upgrade fails; or the client had gone.
Refuse(i) ==
    /\ conns[i] # None /\ conns[i].dialing
    /\ IF conns[i].cut THEN UNCHANGED left ELSE Spend("fail")
    /\ conns' = Tidy(tab, listed,
                     [Told(conns, i, Close(1006)) EXCEPT ![i] = [@ EXCEPT !.dialing = FALSE]])
    /\ UNCHANGED <<room, listed, tab, lock, inbox>>

----------------------------------------------------------------------------
(* The connection *)

\* Mutant: a cached overview, one message old.
SnapshotSeqOld(i) == IF maxSeq > 0 THEN maxSeq - 1 ELSE 0

SnapshotSeq(i) == maxSeq

\* snapshotMsg: the overview and the last number, read together.
SendSnapshot(i) ==
    /\ conns[i] # None /\ conns[i].snaps > 0
    /\ conns' = [Told(conns, i, Snapshot(SnapshotSeq(i))) EXCEPT ![i] = [@ EXCEPT !.snaps = @ - 1]]
    /\ UNCHANGED <<room, listed, tab, lock, inbox, left>>

\* support.push
Push ==
    /\ Spend("push")
    /\ maxSeq' = maxSeq + 1
    /\ conns' = FoldSet(LAMBDA i, cs : Told(cs, i, Increment(maxSeq')), conns, Range(listed))
    /\ UNCHANGED <<live, listed, tab, lock, inbox>>

MinSeq == IF maxSeq > ReplayMax THEN maxSeq - ReplayMax + 1 ELSE IF maxSeq > 0 THEN 1 ELSE 0

PlanResume(n) ==
    CASE n = maxSeq -> "none"
      [] n > maxSeq \/ maxSeq - n > ReplayMax \/ (n < maxSeq /\ MinSeq > n + 1) -> "snapshot"
      [] OTHER -> "replay"

Replay(n) ==
    LET from == IF MinSeq > n + 1 THEN MinSeq ELSE n + 1 IN
    [k \in 1 .. (maxSeq - from + 1) |-> Increment(from + k - 1)]

\* onMessage of the room: a resume.
ReceiveResume(i) ==
    /\ conns[i] # None /\ i \in Range(listed)
    /\ conns[i].toRoom # <<>>
    /\ LET n == Head(conns[i].toRoom)
           c == [conns[i] EXCEPT !.toRoom = Tail(@)] IN
       conns' = [conns EXCEPT ![i] =
                   CASE PlanResume(n) = "none" -> c
                     [] PlanResume(n) = "snapshot" -> [c EXCEPT !.snaps = @ + 1]
                     [] OTHER -> [c EXCEPT !.toClient = @ \o Replay(n)]]
    /\ UNCHANGED <<room, listed, tab, lock, inbox, left>>

\* The connection breaks; the room notices later.
Drop(i) ==
    /\ conns[i] # None /\ ~conns[i].cut /\ ~conns[i].dialing /\ i \in Range(listed)
    /\ Spend("drop")
    /\ conns' = [conns EXCEPT ![i] = [@ EXCEPT !.cut = TRUE, !.toClient = <<Close(1006)>>,
                                               !.toRoom = <<>>]]
    /\ UNCHANGED <<room, listed, tab, lock, inbox>>

NoticeGone(i) ==
    /\ conns[i] # None /\ conns[i].cut /\ i \in Range(listed)
    /\ listed' = SelectSeq(listed, LAMBDA j : j # i)
    /\ conns' = Tidy(tab, listed', [conns EXCEPT ![i] = [@ EXCEPT !.snaps = 0]])
    /\ UNCHANGED <<room, tab, lock, inbox, left>>

\* onFrame of the leader: its own batch, and the other tabs.
Emits(t, s, f) ==
    /\ Only(t, [s EXCEPT !.batch = Append(@, f)])
    /\ inbox' = Posted(t, <<Frame(f)>>)

\* The client asks for what it missed.
AsksResume(t, i, s, cs) ==
    Become(t, s, listed, [cs EXCEPT ![i] = [@ EXCEPT !.toRoom = Append(@, s.ws.lastSeq)]])

\* The client's onopen, onclose and onmessage.
Deliver(i) ==
    /\ conns[i] # None /\ conns[i].toClient # <<>>
    /\ LET t == conns[i].tab
           s == tab[t]
           m == Head(conns[i].toClient)
           cs == [conns EXCEPT ![i] = [@ EXCEPT !.toClient = Tail(@)]]
           with(c) == [s EXCEPT !.ws = c]
           took == with([s.ws EXCEPT !.lastSeq = m.seq, !.pending = FALSE,
                                     !.based = @ \/ (m.type = "snapshot" /\ m.seq > 0)]) IN
       \/ /\ m.type = "opened"
          /\ IF s.ws.lastSeq > 0 THEN AsksResume(t, i, with(HandleOpen(s.ws)), cs)
             ELSE Become(t, with(HandleOpen(s.ws)), listed, cs)
          /\ UNCHANGED inbox
       \/ /\ m.type = "close"
          /\ Become(t, [with(HandleClose(s.ws, m.seq)) EXCEPT
                          !.checks = @ \/ m.seq = ExpiredCode], listed, cs)
          /\ inbox' = IF m.seq = ExpiredCode THEN Posted(t, <<Msg("ended", t)>>) ELSE inbox
       \/ /\ m.type \in {"snapshot", "increment"}
          /\ Accepts(s.ws, m)
          /\ Become(t, [took EXCEPT !.batch = Append(@, m)], listed, cs)
          /\ inbox' = Posted(t, <<Frame(m)>>)
       \/ /\ m.type \in {"snapshot", "increment"}
          /\ ~Accepts(s.ws, m)
          /\ IF Gap(s.ws, m)
             THEN AsksResume(t, i, with([s.ws EXCEPT !.pending = TRUE]), cs)
             ELSE Become(t, s, listed, cs)
          /\ UNCHANGED inbox
    /\ UNCHANGED <<room, lock, left>>

----------------------------------------------------------------------------
(* What a tab shows *)


IsPoll(f) == f.type = "poll"

\* mergeOverview
Merged(shown, fs) ==
    FoldLeft(LAMBDA acc, f : CASE f.type = "snapshot" -> UpTo(f.seq)
                               [] f.type = "increment" -> acc \cup {f.seq}
                               [] OTHER -> acc, shown, fs)

\* applyFrames: the last poll of a batch replaces what the others gave.
\* `hid' is history: the last message the tab had when an older poll replaced
\* it, 0 when what it shows has caught up since.
Flushed(s) ==
    LET shown == Merged(s.shows, s.batch)
        ps == SelectSeq(s.batch, IsPoll) IN
    [s EXCEPT !.batch = <<>>,
              !.shows = IF ps = <<>> THEN shown ELSE UpTo(Last(ps).seq),
              !.hid = CASE ps # <<>> -> LET had == Max(shown \cup {@}) IN
                                        IF had > Last(ps).seq THEN had ELSE 0
                        [] ps = <<>> /\ \E k \in DOMAIN s.batch : s.batch[k].type = "snapshot" -> 0
                        [] OTHER -> @]

\* The frame batcher's animation frame.
Flush(t) ==
    /\ tab[t].batch # <<>>
    /\ tab' = [tab EXCEPT ![t] = Flushed(@)]
    /\ UNCHANGED <<room, listed, conns, lock, inbox, left>>

\* The polling interval.
PollAgain(t) ==
    /\ tab[t].ws.polling /\ tab[t].ws.polled = None
    /\ Spend("poll")
    /\ tab' = [tab EXCEPT ![t].ws.polled = Asked]
    /\ UNCHANGED <<room, listed, conns, lock, inbox>>

\* The room builds the overview a poll asked for ...
PollRead(t) ==
    /\ tab[t].ws.polled = Asked /\ live
    /\ tab' = [tab EXCEPT ![t].ws.polled = Poll(maxSeq)]
    /\ UNCHANGED <<room, listed, conns, lock, inbox, left>>

\* ... the answer is emitted, whatever the client is doing by now ...
PollAnswered(t) ==
    /\ tab[t].ws.polled \notin {None, Asked}
    /\ Emits(t, [tab[t] EXCEPT !.ws.polled = None], tab[t].ws.polled)
    /\ UNCHANGED <<room, lock, left>>

\* ... or the call fails.
PollFailed(t) ==
    /\ tab[t].ws.polled = Asked
    /\ Spend("fail")
    /\ tab' = [tab EXCEPT ![t].ws.polled = None]
    /\ UNCHANGED <<room, listed, conns, lock, inbox>>

----------------------------------------------------------------------------
(* The end of the trial *)

\* closeStreams(4401)
EndTrial ==
    /\ live
    /\ Spend("end")
    /\ live' = FALSE
    /\ listed' = <<>>
    /\ conns' = Tidy(tab, <<>>, FoldSet(LAMBDA i, cs : Told(cs, i, Close(ExpiredCode)),
                                        conns, Range(listed)))
    /\ UNCHANGED <<maxSeq, tab, lock, inbox>>

\* The administrator extends the trial.
Extend ==
    /\ ~live
    /\ Spend("extend")
    /\ live' = TRUE
    /\ UNCHANGED <<maxSeq, listed, conns, tab, lock, inbox>>

\* onEnded of the app: one refresh; when it fails the session is left.
Recheck(t) ==
    /\ tab[t].checks
    /\ IF live
       THEN /\ Only(t, [tab[t] EXCEPT !.checks = FALSE])
            /\ UNCHANGED <<lock, inbox>>
       ELSE Leave(t, <<Msg("bye", t)>>)
    /\ UNCHANGED <<room, left>>

\* A request after the end: the session is left.
TurnedAway(t) ==
    /\ ~live
    /\ tab[t].ws.asking \/ tab[t].ws.late \/ tab[t].ws.polled = Asked
    /\ Leave(t, <<Msg("bye", t)>>)
    /\ UNCHANGED <<room, left>>

----------------------------------------------------------------------------
(* The specification *)

Init ==
    /\ maxSeq = 0 /\ live = TRUE
    /\ listed = <<>>
    /\ conns = [i \in Conns |-> None]
    /\ tab = [t \in Tabs |-> NewTab]
    /\ lock = [b \in Range(Browser) |-> <<>>]
    /\ inbox = [t \in Tabs |-> <<>>]
    /\ left \in Workloads

\* What people, the network and the administrator do.
Outside ==
    \/ \E t \in Tabs :
         \/ OpenTab(t) \/ StopTab(t) \/ CloseTab(t) \/ SetVisible(t)
         \/ PollAgain(t) \/ PollFailed(t)
         \/ \E w \in {"asking", "late"} : TicketFailed(t, w)
    \/ \E i \in Conns : Refuse(i) \/ Drop(i)
    \/ Push \/ EndTrial \/ Extend

Next ==
    \/ \E t \in Tabs :
         \/ Grant(t) \/ Hear(t) \/ HiddenLong(t) \/ Retry(t) \/ Flush(t)
         \/ PollRead(t) \/ PollAnswered(t) \/ Recheck(t) \/ TurnedAway(t)
         \/ \E w \in {"asking", "late"} : TicketIssued(t, w)
    \/ \E i \in Conns :
         Accept(i) \/ SendSnapshot(i) \/ ReceiveResume(i) \/ NoticeGone(i) \/ Deliver(i)
    \/ Outside

Spec == Init /\ [][Next]_vars

\* Timers fire, requests are answered, messages of a connection that holds
\* are delivered, a free lock is granted and a batch is rendered.
FairSpec ==
    /\ Spec
    /\ \A t \in Tabs :
         /\ WF_vars(Grant(t)) /\ WF_vars(Hear(t)) /\ WF_vars(HiddenLong(t))
         /\ WF_vars(Retry(t)) /\ WF_vars(Flush(t))
         /\ WF_vars(PollRead(t) \/ PollAnswered(t))
         /\ WF_vars(Recheck(t)) /\ WF_vars(TurnedAway(t))
         /\ WF_vars(\E w \in {"asking", "late"} : TicketIssued(t, w))
    /\ \A i \in Conns :
         /\ WF_vars(Accept(i)) /\ WF_vars(SendSnapshot(i)) /\ WF_vars(ReceiveResume(i))
         /\ WF_vars(NoticeGone(i)) /\ WF_vars(Deliver(i))

----------------------------------------------------------------------------
(* Properties *)

\* The state is well formed: a client that stopped or paused holds no
\* socket and has no timer (stop, pause, handleClose).
TypeOK ==
    /\ maxSeq \in Nat /\ live \in BOOLEAN
    /\ listed \in Seq(Conns) /\ Len(listed) = Cardinality(Range(listed))
    /\ \A i \in Range(listed) : conns[i] # None
    /\ \A t \in Tabs :
         LET s == tab[t] IN
         /\ s.life \in {"new", "on", "off"}
         /\ s.ws.state \in States
         /\ s.ws.lastSeq \in 0 .. maxSeq
         /\ s.ws.failures \in 0 .. MaxFailures
         /\ s.shows \subseteq UpTo(maxSeq)
         /\ s.seen \subseteq Tabs
         /\ s.ws.socket # None => conns[s.ws.socket] # None
         /\ ~Running(s.ws) => s.ws.socket = None /\ ~s.ws.retry /\ ~s.ws.polling

Leaders(b) == {t \in Tabs : Browser[t] = b /\ tab[t].leader}

\* One tab of a browser leads, and it holds the browser's Web Lock
\* (stream_hub.ts: one connection per browser), whichever tabs come and go.
OneLeader ==
    \A b \in Range(Browser) :
       /\ Cardinality(Leaders(b)) <= 1
       /\ \A t \in Leaders(b) : lock[b] # <<>> /\ Head(lock[b]) = t

\* A client that is about to dial holds no connection: the answers of
\* tickets asked for before a pause are not used after it (connect).
DialsOnce ==
    [][\A t \in Tabs :
         LET old == tab[t].ws.socket
             new == tab'[t].ws.socket IN
         new \notin {old, None} => old = None]_vars

\* The user holds at most CE_LIMITS.streams connections (onConnect).
CapKept == Len(listed) <= Cap

\* lastSeq is honest: a leader that has had a numbered snapshot and has taken
\* message n shows (or is about to render) every message up to n, over reconnects,
\* replays and messages pushed meanwhile, unless a poll's older overview
\* replaced them (handleMessage, planResume, applyFrames).
NothingSkipped ==
    \A t \in Tabs :
       LET s == tab[t]
           f == Flushed(s) IN
       s.leader /\ s.ws.based => f.hid > 0 \/ UpTo(s.ws.lastSeq) \subseteq f.shows

\* lastSeq of a client never goes back: a snapshot is never older than the
\* messages sent before it (snapshotMsg reads the number after its wait).
SeqForward ==
    [][\A t \in Tabs : tab[t].leader /\ tab'[t].leader
                         => tab'[t].ws.lastSeq >= tab[t].ws.lastSeq]_vars

LeaderOf(t) == {u \in Tabs : Browser[u] = Browser[t] /\ tab[u].leader}
Ended(t) == \E u \in LeaderOf(t) : tab[u].ws.state = "ended"
Watching(t) == tab[t].life = "on" /\ tab[t].visible

\* In the end every visible tab of a running trial shows every message:
\* connections that break, tickets that fail, hand-overs and pauses are all
\* made up for (resume, snapshot on connect, fan-out), unless an older poll
\* overtook the stream or its client was told the trial had ended.
CatchesUp ==
    <>[](\A t \in Tabs :
           Watching(t) /\ live /\ ~Ended(t)
             => tab[t].hid > 0 \/ tab[t].shows = UpTo(maxSeq))

\* In the end a browser's leader is paused exactly when every tab is hidden:
\* a visible tab wakes it, whichever tab leads, and hidden tabs let it
\* disconnect, also when a visible tab has left meanwhile (checkVisibility,
\* hello, probe, bye).
PausedIffHidden ==
    <>[](\A t \in Tabs :
           tab[t].leader /\ ~tab[t].ws.stopped
             => (tab[t].ws.paused <=> \A u \in Tabs : Browser[u] = Browser[t] => ~Watching(u)))

\* A browser has one leading tab, which dials once at a time, and a user no
\* more connections than the limit.
OneConnection == [](TypeOK /\ OneLeader /\ CapKept) /\ DialsOnce

\* The stream is read in order and without a hole: lastSeq stands for what
\* the tab shows and never goes back.
StreamInOrder == []NothingSkipped /\ SeqForward
=============================================================================

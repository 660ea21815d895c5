---------------------------- MODULE ObjectGraph ----------------------------
(***************************************************************************)
(* The object graph of one workspace (packages/object-graph): import       *)
(* batches, merge patches and actions write objects, their property index, *)
(* links and an outbox row in one D1 batch each; the request then sends    *)
(* the row to the domain-events queue and deletes it, and a cron sends     *)
(* what a request left behind.                                             *)
(*                                                                         *)
(* A D1 statement or batch is one step.  What a request read before its    *)
(* commit may be stale by then: that is what the SQL guards are for.       *)
(*                                                                         *)
(* Abstracted: types, titles, provenance and link weights; schema and      *)
(* value validation and tombstones (a refused request changes nothing); a  *)
(* batch names an object once; the idempotency of actions (module          *)
(* Recommendation); the split of an event into queue messages (a part sent *)
(* twice is a duplicate either way).                                       *)
(***************************************************************************)
EXTENDS Naturals, Sequences, FiniteSets

CONSTANTS
    Keys,         \* primary keys of the workspace's one object type
    Props, Vals,  \* properties and their values
    Writers,      \* concurrent requests
    Workloads,    \* what they may ask for, and how often: see below
    Start,        \* primary keys of the objects there at first
    StartLinks,   \* links there at first, as pairs of primary keys
    StartVal,     \* the value every property of those has
    MaxObjects,   \* GraphCaps.maxObjects (300)
    MaxLinks,     \* GraphCaps.maxLinks (900)
    MaxOps,       \* bound: requests of a workload
    MaxFailures,  \* bound: its failed sends, killed requests and cron runs
    None

\* A workload says what each of some writers may ask for, and bounds a run:
\* [asks |-> [w |-> inputs], ops |-> requests, failures |-> failures].
\* An input has a kind and rows [pk, set, to]: a row of an import batch sets
\* some properties of the object with a primary key and may link it to
\* another; a patch and an action have one row, whose link is a relink.

IsRow(row) ==
    /\ row.pk \in Keys /\ row.to \in Keys \cup {None}
    /\ \A p \in DOMAIN row.set : row.set[p] \in Vals \cup {None}

IsInput(i) ==
    /\ i.kind \in {"upsert", "patch", "action", "clear"}
    /\ Len(i.rows) \in Nat
    /\ i.kind \in {"patch", "action"} => Len(i.rows) = 1
    /\ \A n \in 1 .. Len(i.rows) : IsRow(i.rows[n])
    /\ \A m, n \in 1 .. Len(i.rows) :
         i.rows[m].pk = i.rows[n].pk => m = n

ASSUME ConstantsAssumption ==
    /\ IsFiniteSet(Keys)
    /\ Start \subseteq Keys /\ StartLinks \subseteq Start \X Start
    /\ StartVal \in Vals
    /\ \A x \in Workloads :
         /\ DOMAIN x.asks \subseteq Writers
         /\ \A w \in DOMAIN x.asks : \A i \in x.asks[w] : IsInput(i)
         /\ x.ops \in 0 .. MaxOps /\ x.failures \in 0 .. MaxFailures
    /\ MaxObjects \in Nat /\ MaxLinks \in Nat
    /\ Cardinality(Start) <= MaxObjects
    /\ Cardinality(StartLinks) <= MaxLinks
    /\ MaxOps \in Nat /\ MaxFailures \in Nat

VARIABLES
    work,      \* what this run is asked for, one of Workloads
    objs,      \* og_object, by rid
    idx,       \* og_prop_index: the indexed values of each rid
    links,     \* og_link
    outbox,    \* domain_event
    sent,      \* the messages in the domain-events queue, ever
    writers,   \* the requests in flight
    cron,      \* the outbox row the cron is delivering
    changes,   \* history: the commits whose event has not been dropped
    revived,   \* history: objects a clear took from under an import, which
               \* then wrote them again
    ops, failures

vars == <<work, objs, idx, links, outbox, sent, writers, cron, changes,
          revived, ops, failures>>

\* newRid is unique: a rid is the key and the request that made it.
Rids == Keys \X (0 .. MaxOps)

PropMap == [Props -> Vals \cup {None}]

Object == [props : PropMap, version : Nat]

EventRow == [id : Nat, rids : SUBSET Rids]

\* "No key", "no object" and "no row" are none of these.
ASSUME NoneAssumption ==
    /\ None \notin Keys \cup Nat /\ None \notin PropMap /\ None \notin Object
    /\ None \notin [row : EventRow, pc : {"publish", "delete"}]

Idle == [pc |-> "idle", id |-> 0, input |-> [kind |-> "clear", rows |-> <<>>],
         pending |-> {}, counts |-> [objects |-> 0, links |-> 0],
         found |-> <<>>, have |-> {}, event |-> {}]

Objects == {r \in Rids : objs[r] # None}

\* The rid of the object with a primary key, of those in a set.
Named(pk, rids) == {r \in rids : r[1] = pk}

Init ==
    /\ work \in Workloads
    /\ objs = [r \in Rids |->
         IF r[2] = 0 /\ r[1] \in Start
         THEN [props |-> [p \in Props |-> StartVal], version |-> 1] ELSE None]
    /\ idx = [r \in Rids |->
         IF objs[r] = None THEN None ELSE objs[r].props]
    /\ links = {<< <<l[1], 0>>, <<l[2], 0>> >> : l \in StartLinks}
    /\ outbox = {} /\ sent = {}
    /\ writers = [w \in Writers |-> Idle]
    /\ cron = None
    /\ changes = {} /\ revived = {}
    /\ ops = 0 /\ failures = 0

----------------------------------------------------------------------------
(* Reading *)

Goto(w, place) == writers' = [writers EXCEPT ![w].pc = place]

Return(w) == writers' = [writers EXCEPT ![w] = Idle]

KeysOf(input) ==
    UNION {{input.rows[i].pk, input.rows[i].to} \ {None} :
             i \in 1 .. Len(input.rows)}

\* What the request reads at once (Promise.all); a patch needs no counts.
FirstReads(input) ==
    CASE input.kind = "clear" -> {}
      [] input.kind = "patch" -> {"find"}
      [] OTHER -> {"counts", "find"}

\* Only a request with links reads links, once the first reads are done.
HasLinks(input) ==
    /\ input.kind # "patch"
    /\ \E i \in 1 .. Len(input.rows) : input.rows[i].to # None

Begin(w, input) ==
    /\ writers[w].pc = "idle" /\ ops < work.ops
    /\ ops' = ops + 1
    /\ writers' = [writers EXCEPT ![w] =
         [Idle EXCEPT !.id = ops + 1, !.input = input,
            !.pending = FirstReads(input),
            !.pc = IF input.kind = "clear" THEN "clear" ELSE "read"]]
    /\ UNCHANGED <<work, objs, idx, links, outbox, sent, cron, changes, revived,
                   failures>>

AfterRead(w, what) ==
    IF writers[w].pending # {what} THEN "read"
    ELSE IF HasLinks(writers[w].input) THEN "links" ELSE "commit"

\* repos.reader.counts()
ReadCounts(w) ==
    /\ "counts" \in writers[w].pending
    /\ writers' = [writers EXCEPT
         ![w].pc = AfterRead(w, "counts"),
         ![w].pending = @ \ {"counts"},
         ![w].counts = [objects |-> Cardinality(Objects),
                        links |-> Cardinality(links)]]
    /\ UNCHANGED <<work, objs, idx, links, outbox, sent, cron, changes, revived,
                   ops, failures>>

\* findByKeys, or get: rid, version and properties of every object the
\* request names.  (An action looks its reference up a step later; only a
\* clear, which removes the target too, could make a difference.)
ReadObjects(w) ==
    LET wanted == {r \in Objects : r[1] \in KeysOf(writers[w].input)} IN
    /\ "find" \in writers[w].pending
    /\ writers' = [writers EXCEPT
         ![w].pc = AfterRead(w, "find"),
         ![w].pending = @ \ {"find"},
         ![w].found = [r \in wanted |-> objs[r]]]
    /\ UNCHANGED <<work, objs, idx, links, outbox, sent, cron, changes, revived,
                   ops, failures>>

\* linksFrom / linksOf: the links of the named objects.
ReadLinks(w) ==
    /\ writers[w].pc = "links"
    /\ writers' = [writers EXCEPT ![w].pc = "commit",
         ![w].have = {l \in links : l[1] \in DOMAIN writers[w].found}]
    /\ UNCHANGED <<work, objs, idx, links, outbox, sent, cron, changes, revived,
                   ops, failures>>

----------------------------------------------------------------------------
(* planUpsert *)

\* mergeLatestWins, and the properties of a merge patch: what the input
\* does not name keeps the value that was read.
Merge(props, set) ==
    [p \in Props |-> IF p \in DOMAIN set THEN set[p] ELSE props[p]]

Blank == [p \in Props |-> None]

RowsOf(w) == writers[w].input.rows

IsNew(w, i) == Named(RowsOf(w)[i].pk, DOMAIN writers[w].found) = {}

\* newOrdinal: the how manyth new object of the batch row i makes.
Ordinal(w, i) == Cardinality({j \in 1 .. i : IsNew(w, j)})

\* A new object beyond the limit is rejected by the plan already.
Planned(w) ==
    {i \in 1 .. Len(RowsOf(w)) :
        IsNew(w, i) =>
            writers[w].counts.objects + Ordinal(w, i) <= MaxObjects}

RidOf(w, pk) ==
    IF Named(pk, DOMAIN writers[w].found) = {} THEN <<pk, writers[w].id>>
    ELSE CHOOSE r \in Named(pk, DOMAIN writers[w].found) : TRUE

PlannedProps(w, i) ==
    Merge(IF IsNew(w, i) THEN Blank
          ELSE writers[w].found[RidOf(w, RowsOf(w)[i].pk)].props,
          RowsOf(w)[i].set)

\* Rows of known objects that change nothing are skipped.
Changing(w) ==
    {i \in Planned(w) :
        \/ IsNew(w, i)
        \/ PlannedProps(w, i)
             # writers[w].found[RidOf(w, RowsOf(w)[i].pk)].props}

RowFor(w, r) == CHOOSE i \in Changing(w) : RidOf(w, RowsOf(w)[i].pk) = r

\* The planned objects: properties, and newOrdinal for the new ones.
PlanObjects(w) ==
    [r \in {RidOf(w, RowsOf(w)[i].pk) : i \in Changing(w)} |->
        LET i == RowFor(w, r) IN
        [props |-> PlannedProps(w, i),
         n |-> IF IsNew(w, i) THEN Ordinal(w, i) ELSE None]]

\* Links to an object the batch neither found nor makes are rejected
\* (REF_MISSING); known ones are not written again.
LinkOf(w, i) == <<RidOf(w, RowsOf(w)[i].pk), RidOf(w, RowsOf(w)[i].to)>>

Linking(w) ==
    {i \in Planned(w) :
        /\ RowsOf(w)[i].to # None
        /\ \/ Named(RowsOf(w)[i].to, DOMAIN writers[w].found) # {}
           \/ \E j \in Planned(w) : RowsOf(w)[j].pk = RowsOf(w)[i].to
        /\ LinkOf(w, i) \notin writers[w].have}

LinkOrdinal(w, i) == Cardinality({j \in Linking(w) : j <= i})

\* The planned links with their ordinals; those beyond the limit are
\* rejected by the plan already.
PlanLinks(w) ==
    {[link |-> LinkOf(w, i), n |-> LinkOrdinal(w, i)] :
        i \in {j \in Linking(w) :
                 writers[w].counts.links + LinkOrdinal(w, j) <= MaxLinks}}

----------------------------------------------------------------------------
(* commitUpsert, from the planned objects (plan) and links (pls) *)

\* Mutant: every new row is compared with the count alone.
FitsAlone(o) == o.n # None => Cardinality(Objects) < MaxObjects

\* The guard of the INSERT: only rows planned as new are counted.
Fits(o) == o.n # None => Cardinality(Objects) + o.n <= MaxObjects

LinkFits(pl) == Cardinality(links) + pl.n <= MaxLinks

\* The rows the INSERT ... ON CONFLICT DO UPDATE writes.
Written(plan) ==
    {r \in DOMAIN plan :
        Fits(plan[r]) /\ (objs[r] # None => objs[r].props # plan[r].props)}

\* A row planned as an update whose object is gone is inserted again under
\* its old rid, at version 1, and no limit counts it.
Revived(plan, written) == {r \in written : objs[r] = None /\ plan[r].n = None}

\* UNIQUE (tenant_id, object_type, primary_key): the batch fails.
Duplicate(plan) ==
    \E r \in DOMAIN plan :
        Fits(plan[r]) /\ \E o \in Objects \ {r} : o[1] = r[1]

\* Mutant: an import does not count as a new version.
NextVersionKept(r) == IF objs[r] = None THEN 1 ELSE objs[r].version

NextVersion(r) == IF objs[r] = None THEN 1 ELSE objs[r].version + 1

AfterUpsert(plan, written) ==
    [r \in Rids |->
        IF r \in written
        THEN [props |-> plan[r].props, version |-> NextVersion(r)]
        ELSE objs[r]]

\* Index rows follow the objects that now have the planned properties.
Indexed(plan, after) ==
    {r \in DOMAIN plan :
        after[r] # None /\ after[r].props = plan[r].props}

\* Mutant: the ends of a link are not looked up again.
EndsExistUnchecked(l, table) == TRUE

EndsExist(l, table) == table[l[1]] # None /\ table[l[2]] # None

WrittenLinks(pls, after) ==
    {pl.link : pl \in {x \in pls : EndsExist(x.link, after) /\ LinkFits(x)}}
    \ links

\* upsertOutboxStmt keeps the changes whose object this batch wrote or
\* whose planned link is there, whoever wrote it.
Stored(written, pls, table) ==
    written \cup {pl.link[1] : pl \in {x \in pls : x.link \in table}}

\* What the request itself sends: the changes its commit reports.
Reported(written, newLinks) == written \cup {l[1] : l \in newLinks}

Event(w, rids) == [id |-> writers[w].id, rids |-> rids]

\* The history of what was committed under an event.
Commit(w, rids) ==
    changes' = IF rids = {} THEN changes ELSE changes \cup {Event(w, rids)}

CommitUpsert(w) ==
    LET plan == PlanObjects(w)
        pls == PlanLinks(w)
        written == Written(plan)
        after == AfterUpsert(plan, written)
        indexed == Indexed(plan, after)
        newLinks == WrittenLinks(pls, after)
        stored == Stored(written, pls, links \cup newLinks)
        reported == Reported(written, newLinks)
    IN
    /\ writers[w].pc = "commit" /\ writers[w].input.kind = "upsert"
    /\ \/ /\ Duplicate(plan) /\ Return(w)
          /\ UNCHANGED <<work, objs, idx, links, outbox, changes, revived>>
       \/ /\ ~Duplicate(plan)
          /\ objs' = after
          /\ revived' = revived \cup Revived(plan, written)
          /\ idx' = [r \in Rids |->
                       IF r \in indexed THEN plan[r].props ELSE idx[r]]
          /\ links' = links \cup newLinks
          /\ outbox' = IF stored = {} THEN outbox
                       ELSE outbox \cup {Event(w, stored)}
          /\ Commit(w, reported)
          /\ IF reported = {} THEN Return(w)
             ELSE writers' = [writers EXCEPT ![w].pc = "publish",
                                             ![w].event = reported]
    /\ UNCHANGED <<work, sent, cron, ops, failures>>

----------------------------------------------------------------------------
(* patchObject and applyAction: every statement guarded on the version *)

Target(w) == RidOf(w, RowsOf(w)[1].pk)

\* The object was found by the request and still has the version it read.
Guard(w) ==
    objs[Target(w)] # None
    /\ objs[Target(w)].version = writers[w].found[Target(w)].version

NewProps(w) == Merge(writers[w].found[Target(w)].props, RowsOf(w)[1].set)

\* applyEffects: relink replaces the target's link.
Relinks(w) == writers[w].input.kind = "action" /\ RowsOf(w)[1].to # None

RemoveLinks(w) ==
    IF Relinks(w)
    THEN {l \in writers[w].have : l[1] = Target(w)} \ {LinkOf(w, 1)} ELSE {}

AddLinks(w) == IF Relinks(w) THEN {LinkOf(w, 1)} \ writers[w].have ELSE {}

Missing(w) ==
    \E pk \in KeysOf(writers[w].input) :
        Named(pk, DOMAIN writers[w].found) = {}

LinkLimit(w) ==
    /\ Cardinality(AddLinks(w)) > Cardinality(RemoveLinks(w))
    /\ writers[w].counts.links + Cardinality(AddLinks(w))
         > MaxLinks + Cardinality(RemoveLinks(w))

\* Not found, nothing to change or LINK_LIMIT: no write.
Refused(w) ==
    IF Missing(w) THEN TRUE
    ELSE IF writers[w].input.kind = "patch"
         THEN NewProps(w) = writers[w].found[Target(w)].props
         ELSE LinkLimit(w)

Refuse(w) ==
    /\ writers[w].pc = "commit"
    /\ writers[w].input.kind \in {"patch", "action"}
    /\ Refused(w)
    /\ Return(w)
    /\ UNCHANGED <<work, objs, idx, links, outbox, sent, cron, changes, revived,
                   ops, failures>>

Ends(ls) == {l[1] : l \in ls} \cup {l[2] : l \in ls}

Touched(w) == {Target(w)} \cup Ends(RemoveLinks(w) \cup AddLinks(w))

CommitGuarded(w) ==
    /\ writers[w].pc = "commit"
    /\ writers[w].input.kind \in {"patch", "action"}
    /\ ~Refused(w)
    /\ \/ /\ ~Guard(w) /\ Return(w)
          /\ UNCHANGED <<work, objs, idx, links, outbox, changes>>
       \/ /\ Guard(w)
          /\ objs' = [objs EXCEPT ![Target(w)] =
                        [props |-> NewProps(w), version |-> @.version + 1]]
          /\ idx' = [idx EXCEPT ![Target(w)] = NewProps(w)]
          /\ links' = (links \ RemoveLinks(w)) \cup AddLinks(w)
          /\ outbox' = outbox \cup {Event(w, Touched(w))}
          /\ Commit(w, Touched(w))
          /\ writers' = [writers EXCEPT ![w].pc = "publish",
                                        ![w].event = Touched(w)]
    /\ UNCHANGED <<work, sent, cron, revived, ops, failures>>

\* clearAll: everything but the action log goes, undelivered events too.
ClearAll(w) ==
    /\ writers[w].pc = "clear"
    /\ objs' = [r \in Rids |-> None]
    /\ idx' = [r \in Rids |-> None]
    /\ links' = {} /\ outbox' = {} /\ changes' = {}
    /\ Return(w)
    /\ UNCHANGED <<work, sent, cron, revived, ops, failures>>

----------------------------------------------------------------------------
(* Delivery *)

\* deliver: send first; a failed send is left to the cron.
Publish(w) ==
    /\ writers[w].pc = "publish"
    /\ sent' = sent \cup {Event(w, writers[w].event)}
    /\ Goto(w, "delete")
    /\ UNCHANGED <<work, objs, idx, links, outbox, cron, changes, revived, ops,
                   failures>>

DeleteRow(w) ==
    /\ writers[w].pc = "delete"
    /\ outbox' = {e \in outbox : e.id # writers[w].id}
    /\ Return(w)
    /\ UNCHANGED <<work, objs, idx, links, sent, cron, changes, revived, ops,
                   failures>>

\* Any await of a request may fail or its Worker be killed.
Stop(w) ==
    /\ writers[w].pc # "idle" /\ failures < work.failures
    /\ failures' = failures + 1
    /\ Return(w)
    /\ UNCHANGED <<work, objs, idx, links, outbox, sent, cron, changes, revived,
                   ops>>

\* runMaintenance, row by row, from the rows it read at its start.
CronRead(e) ==
    /\ cron = None /\ e \in outbox
    /\ cron' = [row |-> e, pc |-> "publish"]
    /\ UNCHANGED <<work, objs, idx, links, outbox, sent, writers, changes, revived,
                   ops, failures>>

CronPublish ==
    /\ cron # None /\ cron.pc = "publish"
    /\ sent' = sent \cup {cron.row}
    /\ cron' = [cron EXCEPT !.pc = "delete"]
    /\ UNCHANGED <<work, objs, idx, links, outbox, writers, changes, revived, ops,
                   failures>>

\* Mutant: the cron leaves the row to the request that wrote it.
CronDeleteNothing ==
    /\ cron # None /\ cron.pc = "delete"
    /\ cron' = None
    /\ UNCHANGED <<work, objs, idx, links, outbox, sent, writers, changes, revived, ops,
                   failures>>

CronDelete ==
    /\ cron # None /\ cron.pc = "delete"
    /\ outbox' = {e \in outbox : e.id # cron.row.id}
    /\ cron' = None
    /\ UNCHANGED <<work, objs, idx, links, sent, writers, changes, revived, ops,
                   failures>>

CronStop ==
    /\ cron # None /\ failures < work.failures
    /\ failures' = failures + 1
    /\ cron' = None
    /\ UNCHANGED <<work, objs, idx, links, outbox, sent, writers, changes, revived,
                   ops>>

----------------------------------------------------------------------------
WriterStep(w) ==
    \/ ReadCounts(w) \/ ReadObjects(w) \/ ReadLinks(w)
    \/ CommitUpsert(w) \/ Refuse(w) \/ CommitGuarded(w) \/ ClearAll(w)
    \/ Publish(w) \/ DeleteRow(w)

CronStep == (\E e \in outbox : CronRead(e)) \/ CronPublish \/ CronDelete

Next ==
    \/ \E w \in DOMAIN work.asks : \E i \in work.asks[w] : Begin(w, i)
    \/ \E w \in Writers : WriterStep(w) \/ Stop(w)
    \/ CronStep \/ CronStop

Spec == Init /\ [][Next]_vars

\* The cron trigger comes back every 15 minutes and the runtime runs what
\* it starts; requests may stop for good at any point.
FairSpec == Spec /\ WF_vars(CronStep)
----------------------------------------------------------------------------
(* Properties *)

Places == {"idle", "read", "links", "commit", "publish",
           "delete", "clear"}

\* Tables, requests and events stay well formed, whatever was read before
\* and planned from it.
TypeOK ==
    /\ \A r \in Rids : objs[r] # None =>
         /\ objs[r].props \in PropMap
         /\ objs[r].version \in Nat \ {0}
    /\ \A r \in Rids : idx[r] # None => idx[r] \in PropMap
    /\ links \subseteq Rids \X Rids /\ revived \subseteq Rids
    /\ \A w \in Writers :
         /\ writers[w].pc \in Places /\ writers[w].id \in 0 .. MaxOps
         /\ writers[w].pending \subseteq {"counts", "find"}
         /\ (writers[w].pending # {}) = (writers[w].pc = "read")
         /\ DOMAIN writers[w].found \subseteq Rids
         /\ writers[w].have \subseteq Rids \X Rids
         /\ writers[w].event \subseteq Rids
         /\ writers[w].pc \in {"publish", "delete"} => writers[w].event # {}
    /\ \A e \in outbox \cup sent \cup changes :
         e.id \in 1 .. MaxOps /\ e.rids \subseteq Rids /\ e.rids # {}
    /\ ops \in 0 .. MaxOps /\ failures \in 0 .. MaxFailures

\* Concurrent import batches that each saw room for their rows never fill
\* the workspace beyond its limit of objects, those apart that a clear took
\* from under an import: it writes them again uncounted.
ObjectCap == Cardinality(Objects \ revived) <= MaxObjects

\* ... nor beyond its limit of links.  (commitAction has no such guard: an
\* action adds its link to whatever the count has become since it read it.)
LinkCap ==
    (\A w \in DOMAIN work.asks : \A i \in work.asks[w] : i.kind # "action")
    => Cardinality(links) <= MaxLinks

\* A link never refers to an object that is not there, even when the
\* workspace is cleared between an import's reads and its commit.  (Only an
\* action on a revived object may relink it to one that is gone: its version
\* is again the one the action read.)
LinkEndsThere ==
    \A l \in links :
        /\ objs[l[1]] # None
        /\ objs[l[2]] # None \/ l[1] \in revived

\* The property index agrees with the objects after every batch, with rows
\* the limit refused, stale plans and clears: a filter finds what is there.
IndexAgrees ==
    \A r \in Rids :
        idx[r] = IF objs[r] = None THEN None ELSE objs[r].props

\* A patch or an action that commits was computed from the object's current
\* properties, whoever else wrote it in between (optimistic concurrency);
\* only a revived object, back at version 1, passes for the one it was.
GuardedWriteCurrent ==
    [][\A w \in Writers :
         /\ writers[w].input.kind \in {"patch", "action"}
         /\ writers[w].pc = "commit" /\ writers'[w].pc = "publish"
         => \/ objs[Target(w)] = writers[w].found[Target(w)]
            \/ Target(w) \in revived]_vars

\* A committed change whose event is not in the queue is still in the
\* outbox, with every object it touched.
NoEventLost ==
    \A c \in changes :
        \E e \in outbox \cup sent : e.id = c.id /\ c.rids \subseteq e.rids

\* Every outbox row leaves in the end, sent (or dropped by a clear), however
\* many requests stop before they delivered theirs.
OutboxDrains == \A n \in 1 .. MaxOps :
    (\E e \in outbox : e.id = n) ~> ~(\E e \in outbox : e.id = n)

\* The workspace keeps its limits: batches that each saw room for their rows
\* do not exceed them together.
LimitsKept == ObjectCap /\ LinkCap

\* Objects, links and property index agree after every commit, with stale
\* plans, refused rows and clears in between, and every change is announced.
GraphConsistent == TypeOK /\ LinkEndsThere /\ IndexAgrees /\ NoEventLost
============================================================================

------------------------- MODULE SituationRoomProofs -------------------------
(***************************************************************************)
(* What a room keeps however consumers, initializations, calls of people,  *)
(* resets, the alarm and the end of the trial interleave: whoever waits    *)
(* for an initialization is served, a purged room stays empty, what is to  *)
(* happen later has its alarm, KPIs and alerts agree with the cache, and   *)
(* the cache agrees with the graph once the events of an object are seen.  *)
(***************************************************************************)
EXTENDS SituationRoom, FiniteSetTheorems, WellFoundedInduction,
        TLAPS

(* What is known of a rule, and of the fields of the room these properties *)
(* look at: the cache and the KPIs' values are left open.                  *)
Rule == {d \in [trigger : Triggers, prop : {"p", "q"}, on : BOOLEAN, version : Nat,
                next : Nat \cup {None}] :
           d.trigger = "schedule" => d.next # None}

IsFcn(f) == f = [i \in DOMAIN f |-> f[i]]

RoomOK(s) ==
  /\ DOMAIN s = DOMAIN NewRoom
  /\ {s.bound, s.inited, s.inactive} \subseteq BOOLEAN
  /\ s.flushAt \in Nat \cup {None} /\ s.tomb \in Nat \cup {None}
  /\ IsFcn(s.kpi) /\ DOMAIN s.kpi \subseteq Kpis
  /\ DOMAIN s.point = Kpis
  /\ IsFcn(s.rules) /\ DOMAIN s.rules \subseteq Rules
  /\ \A i \in DOMAIN s.rules : s.rules[i] \in Rule
  /\ IsFiniteSet(Scheduled(s))

(* ... and what it keeps: no trend misses a value, scheduled rules are     *)
(* within the limit, a purged room is empty.                               *)
Trend(s) == \A k \in DOMAIN s.kpi :
              s.kpi[k].value # None => s.point[k] = s.kpi[k].value
RoomKept(s) ==
  /\ RoomOK(s)
  /\ s.inited /\ s.flushAt = None => Trend(s)
  /\ Cardinality(Scheduled(s)) <= MaxScheduled
  /\ s.tomb # None => s = [NewRoom EXCEPT !.tomb = s.tomb]

(* The local state of consumers, attempts and calls.                       *)
ConsumerFields == {"pc", "evs", "cur", "tok", "late"}
InitFields == {"pc", "tpl", "found", "todo", "late"}
CallRec == [pc : {"idle", "init", "check", "commit"}, kind : CallKinds \cup {"none"},
            id : Rules \cup {None}, def : UserDefs \cup {None}, ifMatch : Nat,
            re : BOOLEAN, tok : Tokens \cup {0}]

CallOK(c) ==
  /\ c.re => c.pc = "init"
  /\ c.kind \in {"create", "put"} => c.id \in Rules /\ c.def \in UserDefs
  /\ c.pc \in {"check", "commit"} => c.kind \in {"create", "put", "delete"}
  /\ c.pc = "check" => c.kind # "delete"
  /\ c.pc # "idle" => c.kind \in CallKinds

WorkOK == /\ DOMAIN work = Consumers
          /\ \A c \in Consumers : DOMAIN work[c] = ConsumerFields
InitsOK == /\ DOMAIN inits = Tokens
           /\ \A t \in Tokens : DOMAIN inits[t] = InitFields
CallsOK == calls \in [Callers -> CallRec] /\ \A u \in Callers : CallOK(calls[u])

ClockOK == now \in Nat /\ now <= MaxTime /\ alarm \in Nat \cup {None}

(* The attempt calls share is at work, and so is every attempt waited for. *)
SharedAtWork ==
  /\ initializing \in Tokens \cup {0}
  /\ initializing # 0 => inits[initializing].pc # "free"
WaitersInv ==
  /\ \A c \in Consumers : work[c].pc = "init" => work[c].tok \in Tokens
  /\ \A u \in Callers : calls[u].pc = "init" => calls[u].tok \in Tokens
  /\ WaitersServed

LocalInv == WorkOK /\ InitsOK /\ CallsOK /\ SharedAtWork /\ WaitersInv

-----------------------------------------------------------------------------
(* The fields of a room.                                                   *)
LEMMA Fields ==
  DOMAIN NewRoom = {"bound", "inited", "inactive", "flushAt", "cache", "kpi", "point",
                    "rules", "alerts", "seen", "tomb"}
BY DEF NewRoom

(* Nothing scheduled is more than the limit in a subset of what is not.    *)
LEMMA FewerScheduled ==
  ASSUME NEW A, NEW B, B \subseteq A, IsFiniteSet(A), Cardinality(A) <= MaxScheduled
  PROVE  IsFiniteSet(B) /\ Cardinality(B) <= MaxScheduled
<1>1. IsFiniteSet(B) /\ Cardinality(B) <= Cardinality(A)
  BY FS_Subset
<1>2. Cardinality(B) \in Nat /\ Cardinality(A) \in Nat /\ MaxScheduled \in Nat
  BY <1>1, FS_CardinalityType, RoomAssumption
<1> QED
  BY <1>1, <1>2

(* A flush makes the trends current and changes nothing else.              *)
LEMMA Flushed ==
  ASSUME NEW s, RoomOK(s), NEW t, t = FlushMetrics(s)
  PROVE  /\ RoomOK(t) /\ Trend(t) /\ t.flushAt = None
         /\ t.tomb = s.tomb /\ t.inited = s.inited /\ t.inactive = s.inactive
         /\ t.rules = s.rules /\ t.kpi = s.kpi
<1>1. /\ DOMAIN t = DOMAIN s /\ t.flushAt = None /\ t.bound = s.bound
      /\ t.tomb = s.tomb /\ t.inited = s.inited /\ t.inactive = s.inactive
      /\ t.rules = s.rules /\ t.kpi = s.kpi
      /\ t.point = [k \in Kpis |->
                      IF k \in DOMAIN s.kpi
                      THEN IF s.kpi[k].value # None THEN s.kpi[k].value ELSE s.point[k]
                      ELSE s.point[k]]
  BY Fields DEF FlushMetrics, RoomOK
<1>2. Scheduled(t) = Scheduled(s)
  BY <1>1 DEF Scheduled
<1>3. RoomOK(t)
  BY <1>1, <1>2 DEF RoomOK
<1>4. Trend(t)
  BY <1>1 DEF Trend, RoomOK
<1> QED
  BY <1>1, <1>3, <1>4

(* A set of numbers that is not empty has a least, which Min returns.      *)
LEMMA LeastNumber ==
  ASSUME NEW S, S # {}, S \subseteq Nat
  PROVE  Min(S) \in S /\ \A y \in S : Min(S) <= y
<1>1. PICK R : R = {p \in Nat \X Nat : p[1] < p[2]}
  OBVIOUS
<1>2. IsWellFoundedOn(R, Nat)
  BY <1>1, NatLessThanWellFounded DEF OpToRel
<1>3. PICK x \in S : \A y \in S : ~ (<<y, x>> \in R)
  BY <1>2, WFMin
<1>4. ASSUME NEW y \in S PROVE x <= y
  <2>1. <<y, x>> \in Nat \X Nat /\ <<y, x>>[1] = y /\ <<y, x>>[2] = x
    OBVIOUS
  <2>2. ~ (y < x)
    BY <1>1, <1>3, <2>1
  <2> QED
    BY <2>2
<1> QED
  BY <1>4 DEF Min

(* A flush is put on the way.                                              *)
LEMMA MarkedDirty ==
  ASSUME NEW s, RoomOK(s), now \in Nat, NEW t, t = MarkMetricsDirty(s)
  PROVE  /\ RoomOK(t) /\ t.flushAt # None
         /\ t.tomb = s.tomb /\ t.inited = s.inited /\ t.inactive = s.inactive
         /\ t.rules = s.rules /\ t.kpi = s.kpi /\ t.point = s.point
<1>1. now + 1 \in Nat /\ now + 1 # None
  BY RoomAssumption
<1>2. CASE s.flushAt # None
  BY <1>2 DEF MarkMetricsDirty
<1>3. CASE s.flushAt = None
  <2>1. /\ DOMAIN t = DOMAIN s /\ t.flushAt = now + 1 /\ t.bound = s.bound
        /\ t.tomb = s.tomb /\ t.inited = s.inited /\ t.inactive = s.inactive
        /\ t.rules = s.rules /\ t.kpi = s.kpi /\ t.point = s.point
    BY <1>3, Fields DEF MarkMetricsDirty, RoomOK
  <2>2. Scheduled(t) = Scheduled(s)
    BY <2>1 DEF Scheduled
  <2> QED
    BY <1>1, <2>1, <2>2 DEF RoomOK
<1> QED
  BY <1>2, <1>3

(* The rules of a template; a rule that is stored.                         *)
LEMMA Seeds ==
  ASSUME NEW tpl, NEW f, f = SeedDefs(tpl)
  PROVE  /\ DOMAIN f \subseteq {"s1", "s2"}
         /\ \A d \in DOMAIN f :
              /\ f[d] \in [trigger : Triggers, prop : {"p", "q"}, on : BOOLEAN]
              /\ f[d].trigger = "schedule" => d = "s2"
BY DEF SeedDefs, Triggers

LEMMA SeededRule ==
  ASSUME now \in Nat, NEW d \in [trigger : Triggers, prop : {"p", "q"}, on : BOOLEAN],
         NEW v \in Nat, NEW r, r = Seeded(d, v)
  PROVE  r \in Rule /\ r.trigger = d.trigger /\ r.next \in Nat \cup {None}
<1>1. now + Every \in Nat /\ now + Every # None
  BY RoomAssumption
<1> QED
  BY <1>1 DEF Seeded, Rule

(* An initialization installs the KPIs and rules of the template that are  *)
(* not there, within the limit, and flushes.                               *)
LEMMA Installed ==
  ASSUME NEW s, RoomOK(s), Cardinality(Scheduled(s)) <= MaxScheduled, now \in Nat,
         NEW i, NEW t, t = Install(s, i)
  PROVE  /\ RoomOK(t) /\ Trend(t) /\ t.inited /\ t.flushAt = None
         /\ Cardinality(Scheduled(t)) <= MaxScheduled
         /\ t.tomb = s.tomb /\ t.inactive = s.inactive
<1> DEFINE defs == SeedDefs(i.tpl)
           fits == {d \in DOMAIN defs \ DOMAIN s.rules :
                      defs[d].trigger = "schedule" => Cardinality(Scheduled(s)) < MaxScheduled}
           rules == [d \in DOMAIN s.rules \cup fits |->
                       IF d \in fits THEN Seeded(defs[d], 1) ELSE s.rules[d]]
           cache == [r \in Rids |-> IF i.found[r] # None THEN i.found[r] ELSE s.cache[r]]
           kpi == [k \in DOMAIN s.kpi \cup SeedKpis(i.tpl) |->
                     IF k \in SeedKpis(i.tpl) THEN ComputeKpi(k, cache) ELSE s.kpi[k]]
           s0 == [s EXCEPT !.cache = cache, !.kpi = kpi, !.rules = rules]
           s1 == FlushMetrics(s0)
           alerts == Evaluated(s1, ThresholdRules(s1) \X Cached(s1))
<1>1. t = [s1 EXCEPT !.alerts = alerts, !.inited = TRUE]
  BY DEF Install
<1> HIDE DEF s0, s1, alerts, cache
<1>2. /\ DOMAIN s0 = DOMAIN s /\ s0.flushAt = s.flushAt /\ s0.bound = s.bound
      /\ s0.tomb = s.tomb /\ s0.inited = s.inited /\ s0.inactive = s.inactive
      /\ s0.rules = rules /\ s0.kpi = kpi /\ s0.point = s.point
  BY Fields DEF RoomOK, s0
<1> HIDE DEF kpi
<1>3. \A d \in DOMAIN rules : rules[d] \in Rule
        /\ (rules[d].trigger = "schedule" =>
              d \in Scheduled(s)
              \/ (d = "s2" /\ Cardinality(Scheduled(s)) < MaxScheduled))
  <2> SUFFICES ASSUME NEW d \in DOMAIN rules
               PROVE  rules[d] \in Rule
                      /\ (rules[d].trigger = "schedule" =>
                            d \in Scheduled(s)
                            \/ (d = "s2" /\ Cardinality(Scheduled(s)) < MaxScheduled))
    OBVIOUS
  <2>1. CASE d \in fits
    <3>1. /\ defs[d] \in [trigger : Triggers, prop : {"p", "q"}, on : BOOLEAN]
          /\ defs[d].trigger = "schedule" => d = "s2"
      BY <2>1, Seeds
    <3>2. rules[d] = Seeded(defs[d], 1)
      BY <2>1
    <3>3. rules[d] \in Rule /\ rules[d].trigger = defs[d].trigger
      BY <3>1, <3>2, SeededRule
    <3> QED
      BY <2>1, <3>1, <3>3
  <2>2. CASE d \notin fits
    <3>1. d \in DOMAIN s.rules /\ rules[d] = s.rules[d]
      BY <2>2
    <3> QED
      BY <3>1 DEF RoomOK, Scheduled
  <2> QED
    BY <2>1, <2>2
<1>4. Scheduled(s0) = {d \in DOMAIN rules : rules[d].trigger = "schedule"}
  BY <1>2 DEF Scheduled
<1>5. IsFiniteSet(Scheduled(s0)) /\ Cardinality(Scheduled(s0)) <= MaxScheduled
  <2> PICK A : A = Scheduled(s)
    OBVIOUS
  <2>0. IsFiniteSet(A) /\ Cardinality(A) \in Nat /\ MaxScheduled \in Nat
        /\ Cardinality(A) <= MaxScheduled
    BY FS_CardinalityType, RoomAssumption DEF RoomOK
  <2>1. CASE Cardinality(A) < MaxScheduled
    <3>1. Scheduled(s0) \subseteq A \cup {"s2"}
      BY <1>3, <1>4
    <3>2. IsFiniteSet(A \cup {"s2"}) /\ Cardinality(A \cup {"s2"}) <= MaxScheduled
      <4>1. IsFiniteSet(A \cup {"s2"})
            /\ Cardinality(A \cup {"s2"}) = (IF "s2" \in A THEN Cardinality(A)
                                             ELSE Cardinality(A) + 1)
        BY <2>0, FS_AddElement
      <4> QED
        BY <2>0, <2>1, <4>1
    <3> QED
      BY <3>1, <3>2, FewerScheduled
  <2>2. CASE ~ (Cardinality(A) < MaxScheduled)
    <3>1. Scheduled(s0) \subseteq A
      BY <1>3, <1>4, <2>2
    <3> QED
      BY <2>0, <3>1, FewerScheduled
  <2> QED
    BY <2>1, <2>2
<1>6. RoomOK(s0)
  <2>1. IsFcn(rules) /\ DOMAIN rules \subseteq Rules
    BY Seeds DEF IsFcn, RoomOK, Rules
  <2>2. IsFcn(kpi) /\ DOMAIN kpi \subseteq Kpis
    BY DEF IsFcn, RoomOK, SeedKpis, kpi
  <2> QED
    BY <1>2, <1>3, <1>5, <2>1, <2>2 DEF RoomOK
<1> HIDE DEF rules, fits, defs
<1>7. /\ RoomOK(s1) /\ Trend(s1) /\ s1.flushAt = None
      /\ s1.tomb = s.tomb /\ s1.inactive = s.inactive /\ s1.rules = rules
  BY <1>2, <1>6, Flushed DEF s1
<1>8. /\ DOMAIN t = DOMAIN s1 /\ t.flushAt = s1.flushAt /\ t.bound = s1.bound
      /\ t.tomb = s1.tomb /\ t.inited = TRUE /\ t.inactive = s1.inactive
      /\ t.rules = s1.rules /\ t.kpi = s1.kpi /\ t.point = s1.point
  BY <1>1, <1>7, Fields DEF RoomOK
<1>9. Scheduled(t) = Scheduled(s0) /\ Scheduled(s1) = Scheduled(s0)
  BY <1>2, <1>7, <1>8 DEF Scheduled
<1>10. RoomOK(t)
  BY <1>7, <1>8, <1>9 DEF RoomOK
<1>11. Trend(t)
  BY <1>7, <1>8 DEF Trend
<1> QED
  BY <1>5, <1>7, <1>8, <1>9, <1>10, <1>11

(* The KPIs whose value the objects of some events change.                  *)
Moved(s, todo, cur) == Tracked(s, cur, {e.rid : e \in todo}).changed

(* What the room's code between two awaits keeps: applyEvents ...          *)
LEMMA AppliedKept ==
  ASSUME NEW s, RoomKept(s), s.tomb = None, now \in Nat, NEW todo, NEW cur,
         NEW t, t = Applied(s, todo, cur),
         NEW ch, ch = Moved(s, todo, cur)
  PROVE  /\ RoomKept(t) /\ t.tomb = None /\ t.inactive = s.inactive /\ t.rules = s.rules
         /\ ch = {} => t.flushAt = s.flushAt
<1> DEFINE rs == {e.rid : e \in todo}
           changed(r) == UNION {e.changed : e \in {x \in todo : x.rid = r}}
           tr == Tracked(s, cur, rs)
           gone == {r \in rs : cur[r] = None}
           pairs == UNION {Candidates(s, r, changed(r)) \X {r} : r \in rs \ gone}
           kpi == [k \in DOMAIN s.kpi |-> IF k \in tr.changed THEN tr.kpi[k] ELSE s.kpi[k]]
           s1 == [s EXCEPT !.cache = tr.cache, !.kpi = kpi, !.seen = @ \cup todo]
           alerts == [a \in Pairs |-> IF a[2] \in gone THEN Close(s.alerts[a])
                                      ELSE Evaluated(s1, pairs)[a]]
           s2 == [s1 EXCEPT !.alerts = alerts]
<1>1. t = IF tr.changed # {} THEN MarkMetricsDirty(s2) ELSE s2
  BY DEF Applied
<1>2. ch = tr.changed
  BY DEF Moved
<1> HIDE DEF tr, gone, pairs, alerts, s1, s2
<1>3. kpi = s.kpi \/ ch # {}
  BY <1>2 DEF RoomKept, RoomOK, IsFcn
<1>4. IsFcn(kpi) /\ DOMAIN kpi = DOMAIN s.kpi
  BY DEF IsFcn
<1> HIDE DEF kpi
<1>5. /\ DOMAIN s1 = DOMAIN s /\ s1.flushAt = s.flushAt /\ s1.bound = s.bound
      /\ s1.tomb = s.tomb /\ s1.inited = s.inited /\ s1.inactive = s.inactive
      /\ s1.rules = s.rules /\ s1.kpi = kpi /\ s1.point = s.point
  BY Fields DEF RoomKept, RoomOK, s1
<1>6. /\ DOMAIN s2 = DOMAIN s /\ s2.flushAt = s.flushAt /\ s2.bound = s.bound
      /\ s2.tomb = s.tomb /\ s2.inited = s.inited /\ s2.inactive = s.inactive
      /\ s2.rules = s.rules /\ s2.kpi = kpi /\ s2.point = s.point
  BY <1>5, Fields DEF RoomKept, RoomOK, s2
<1>7. Scheduled(s2) = Scheduled(s)
  BY <1>6 DEF Scheduled
<1>8. RoomOK(s2)
  BY <1>4, <1>6, <1>7 DEF RoomKept, RoomOK
<1>9. CASE ch = {}
  <2>1. t = s2 /\ kpi = s.kpi
    BY <1>1, <1>2, <1>3, <1>9
  <2> QED
    BY <1>6, <1>7, <1>8, <2>1 DEF RoomKept, Trend
<1>10. CASE ch # {}
  <2>1. t = MarkMetricsDirty(s2)
    BY <1>1, <1>2, <1>10
  <2>2. /\ RoomOK(t) /\ t.flushAt # None /\ t.tomb = None
        /\ t.inactive = s.inactive /\ t.rules = s.rules
    BY <1>6, <1>8, <2>1, MarkedDirty
  <2>3. Scheduled(t) = Scheduled(s)
    BY <2>2 DEF Scheduled
  <2> QED
    BY <1>10, <2>2, <2>3 DEF RoomKept
<1> QED
  BY <1>9, <1>10

(* ... a room with the same rules, KPIs and timers, or one that a purge or *)
(* a reset has emptied of what it derives ...                              *)
Alike(s, t) ==
  /\ DOMAIN t = DOMAIN s /\ t.bound \in BOOLEAN /\ t.inactive \in BOOLEAN
  /\ t.flushAt = s.flushAt /\ t.tomb = s.tomb /\ t.inited = s.inited
  /\ t.rules = s.rules /\ t.kpi = s.kpi /\ t.point = s.point

LEMMA AlikeKept ==
  ASSUME NEW s, RoomKept(s), s.tomb = None, NEW t, Alike(s, t) PROVE RoomKept(t)
<1>1. Scheduled(t) = Scheduled(s)
  BY DEF Scheduled, Alike
<1> QED
  BY <1>1 DEF RoomKept, RoomOK, Alike, Trend

LEMMA NewRoomKept ==
  /\ RoomKept(NewRoom) /\ NewRoom.tomb = None /\ NewRoom.flushAt = None
  /\ DOMAIN NewRoom.rules = {}
  /\ \A x \in Nat : LET t == [NewRoom EXCEPT !.tomb = x] IN RoomKept(t) /\ t.tomb = x
<1>1. /\ DOMAIN NewRoom.kpi = {} /\ IsFcn(NewRoom.kpi)
      /\ DOMAIN NewRoom.rules = {} /\ IsFcn(NewRoom.rules)
      /\ DOMAIN NewRoom.point = Kpis /\ NewRoom.flushAt = None
      /\ NewRoom.tomb = None /\ NewRoom.inited = FALSE
      /\ NewRoom.bound = FALSE /\ NewRoom.inactive = FALSE
  BY DEF NewRoom, IsFcn
<1>2. Scheduled(NewRoom) = {}
  BY <1>1 DEF Scheduled
<1>3. IsFiniteSet({}) /\ Cardinality({}) = 0 /\ MaxScheduled \in Nat
  BY FS_EmptySet, RoomAssumption
<1>4. RoomKept(NewRoom)
  <2>1. RoomOK(NewRoom)
    BY <1>1, <1>2, <1>3 DEF RoomOK
  <2>2. Cardinality(Scheduled(NewRoom)) <= MaxScheduled
    BY <1>2, <1>3
  <2> QED
    BY <1>1, <2>1, <2>2 DEF RoomKept
<1>5. ASSUME NEW x \in Nat, NEW t, t = [NewRoom EXCEPT !.tomb = x]
      PROVE  RoomKept(t) /\ t.tomb = x
  <2>1. /\ DOMAIN t = DOMAIN NewRoom /\ t.kpi = NewRoom.kpi /\ t.rules = NewRoom.rules
        /\ t.point = NewRoom.point /\ t.flushAt = None /\ t.tomb = x
        /\ t.inited = FALSE /\ t.bound = FALSE /\ t.inactive = FALSE
    BY <1>1, <1>5, Fields
  <2>2. Scheduled(t) = {}
    BY <1>1, <2>1 DEF Scheduled
  <2>3. RoomOK(t)
    BY ONLY <1>1, <1>3, <2>1, <2>2, x \in Nat DEF RoomOK
  <2>4. Cardinality(Scheduled(t)) <= MaxScheduled
    BY ONLY <1>3, <2>2
  <2>5. t = [NewRoom EXCEPT !.tomb = t.tomb]
    BY <1>5, <2>1
  <2> QED
    BY <2>1, <2>3, <2>4, <2>5, Zenon DEF RoomKept
<1> QED
  BY <1>1, <1>4, <1>5

(* ... the same with other rules, still within the limit.                  *)
AlikeBut(s, t) ==
  /\ DOMAIN t = DOMAIN s /\ t.bound \in BOOLEAN /\ t.inactive \in BOOLEAN
  /\ t.flushAt = s.flushAt /\ t.tomb = s.tomb /\ t.inited = s.inited
  /\ t.kpi = s.kpi /\ t.point = s.point

LEMMA OtherRules ==
  ASSUME NEW s, RoomKept(s), s.tomb = None, NEW t, AlikeBut(s, t),
         IsFcn(t.rules), DOMAIN t.rules \subseteq Rules,
         \A i \in DOMAIN t.rules : t.rules[i] \in Rule,
         IsFiniteSet(Scheduled(t)), Cardinality(Scheduled(t)) <= MaxScheduled
  PROVE  RoomKept(t)
BY DEF RoomKept, RoomOK, AlikeBut, Trend

(* deleteAutomation.                                                       *)
LEMMA DeletedKept ==
  ASSUME NEW s, RoomKept(s), s.tomb = None, NEW id, NEW t, t = Deleted(s, id)
  PROVE  RoomKept(t) /\ t.tomb = None
<1>1. AlikeBut(s, t) /\ t.rules = Without(s.rules, {id})
  BY Fields DEF Deleted, RoomKept, RoomOK, AlikeBut
<1>2. /\ IsFcn(t.rules) /\ DOMAIN t.rules \subseteq DOMAIN s.rules
      /\ \A i \in DOMAIN t.rules : t.rules[i] = s.rules[i]
  BY <1>1 DEF Without, IsFcn
<1>3. Scheduled(t) \subseteq Scheduled(s)
  BY <1>2 DEF Scheduled
<1>4. IsFiniteSet(Scheduled(t)) /\ Cardinality(Scheduled(t)) <= MaxScheduled
  BY <1>3, FewerScheduled DEF RoomKept, RoomOK
<1>5. DOMAIN t.rules \subseteq Rules /\ \A i \in DOMAIN t.rules : t.rules[i] \in Rule
  BY <1>2 DEF RoomKept, RoomOK
<1> QED
  BY <1>1, <1>2, <1>4, <1>5, OtherRules DEF AlikeBut

(* createAutomation and putAutomation, whose limit is checked after the    *)
(* last await.                                                             *)
LEMMA StoredKept ==
  ASSUME NEW s, RoomKept(s), s.tomb = None, now \in Nat,
         NEW c \in CallRec, c.kind # "delete", c.id \in Rules, c.def \in UserDefs, Accepts(s, c),
         NEW t, t = Stored(s, c)
  PROVE  RoomKept(t) /\ t.tomb = None
<1> DEFINE rule == IF c.kind = "create" THEN Seeded(c.def, 1)
                   ELSE Replaced(s.rules[c.id], c.def)
           rules == Put(s.rules, c.id, rule)
           s1 == [s EXCEPT !.rules = rules]
<1>1. t = Reevaluated(s1, c.id)
  BY DEF Stored
<1>2. c.def \in [trigger : Triggers, prop : {"p", "q"}, on : BOOLEAN]
  BY RoomAssumption DEF Triggers
<1>3. rule \in Rule /\ rule.trigger = c.def.trigger
  <2>1. CASE c.kind = "create"
    BY <1>2, <2>1, SeededRule
  <2>2. CASE c.kind # "create"
    <3> PICK old : old = s.rules[c.id]
      OBVIOUS
    <3>1. old \in Rule /\ old.version + 1 \in Nat
      BY <2>2 DEF Accepts, RoomKept, RoomOK, Rule
    <3> PICK r : r = Seeded(c.def, old.version + 1)
      OBVIOUS
    <3>2. r \in Rule /\ r.trigger = c.def.trigger
      BY <1>2, <3>1, SeededRule
    <3>3. rule = [r EXCEPT !.next =
                    IF c.def.trigger = "schedule" /\ old.trigger = "schedule" /\ old.next # None
                    THEN old.next ELSE @]
      BY <2>2 DEF Replaced
    <3> HIDE DEF rule
    <3>4. rule = [r EXCEPT !.next = old.next] \/ rule = r
      BY <3>2, <3>3 DEF Rule
    <3>5. old.next \in Nat \cup {None} /\ (old.next # None \/ rule = r)
      BY <3>1, <3>2, <3>3 DEF Rule
    <3> QED
      BY <3>2, <3>4, <3>5 DEF Rule
  <2> QED
    BY <2>1, <2>2
<1> HIDE DEF rule
<1>4. /\ DOMAIN rules = DOMAIN s.rules \cup {c.id} /\ IsFcn(rules)
      /\ \A i \in DOMAIN rules : rules[i] = IF i = c.id THEN rule ELSE s.rules[i]
  BY DEF Put, IsFcn
<1> HIDE DEF rules
<1>5. AlikeBut(s, s1) /\ s1.rules = rules
  BY Fields DEF RoomKept, RoomOK, AlikeBut
<1> HIDE DEF s1
<1>6. AlikeBut(s, t) /\ t.rules = rules
  <2> PICK e : t = [s1 EXCEPT !.alerts = e]
    BY <1>1 DEF Reevaluated
  <2> QED
    BY <1>5, Fields DEF RoomKept, RoomOK, AlikeBut
<1>7. /\ DOMAIN t.rules \subseteq Rules /\ IsFcn(t.rules)
      /\ \A i \in DOMAIN t.rules : t.rules[i] \in Rule
  BY <1>3, <1>4, <1>6 DEF RoomKept, RoomOK
<1> PICK A : A = Scheduled(s)
  OBVIOUS
<1>8. /\ IsFiniteSet(A) /\ Cardinality(A) <= MaxScheduled /\ MaxScheduled \in Nat
  BY RoomAssumption DEF RoomKept, RoomOK
<1>9. CASE c.def.trigger = "schedule"
  <2> PICK B : B = A \ {c.id}
    OBVIOUS
  <2>1. Cardinality(B) < MaxScheduled /\ IsFiniteSet(B) /\ Cardinality(B) \in Nat
    BY <1>8, <1>9, FS_Subset, FS_CardinalityType DEF Accepts
  <2>2. IsFiniteSet(B \cup {c.id}) /\ Cardinality(B \cup {c.id}) = Cardinality(B) + 1
    BY <2>1, FS_AddElement
  <2>3. Cardinality(B \cup {c.id}) <= MaxScheduled
    BY <1>8, <2>1, <2>2
  <2>4. Scheduled(t) \subseteq B \cup {c.id}
    BY <1>4, <1>6 DEF Scheduled
  <2> QED
    BY <1>6, <1>7, <2>2, <2>3, <2>4, FewerScheduled, OtherRules DEF AlikeBut
<1>10. CASE c.def.trigger # "schedule"
  <2>1. Scheduled(t) \subseteq A
    BY <1>3, <1>4, <1>6, <1>10 DEF Scheduled
  <2> QED
    BY <1>6, <1>7, <1>8, <2>1, FewerScheduled, OtherRules DEF AlikeBut
<1> QED
  BY <1>9, <1>10

(* advanceRun has a slot to advance to.                                    *)
LEMMA NextRun ==
  ASSUME now \in Nat, now <= MaxTime, NEW due \in Nat, due <= now
  PROVE  AdvanceRun(due) \in Times /\ AdvanceRun(due) \in Nat /\ AdvanceRun(due) > now
<1> DEFINE S == {due + k * Every : k \in 1 .. (MaxTime + 1)} \cap {t \in Times : t > now}
<1>0. {Every, MaxTime, TombTtl} \subseteq Nat /\ Every > 0
  BY RoomAssumption
<1>1. S # {}
  <2> DEFINE T == {k \in Nat : due + k * Every > now}
  <2>1. now - due + 1 \in T
    <3> PICK n : n = now - due + 1
      OBVIOUS
    <3>1. n \in Nat /\ n * Every >= n
      BY <1>0
    <3>2. n * Every \in Nat
      BY <1>0, <3>1
    <3> QED
      BY <1>0, <3>1, <3>2
  <2>2. PICK k \in T : \A m \in T : k <= m
    <3>1. T # {} /\ T \subseteq Nat
      BY <2>1
    <3> HIDE DEF T
    <3> QED
      BY <3>1, LeastNumber
  <2>3. k \in Nat /\ k <= now - due + 1 /\ k # 0
    BY <1>0, <2>1, <2>2
  <2>4. ~ (due + (k - 1) * Every > now) /\ (k - 1) * Every = k * Every - Every
    BY <1>0, <2>2, <2>3
  <2>5. k * Every \in Nat /\ due + k * Every > now /\ due + k * Every <= now + Every
    BY <1>0, <2>3, <2>4
  <2>6. due + k * Every \in Times /\ k \in 1 .. (MaxTime + 1)
    BY <1>0, <2>3, <2>5 DEF Times
  <2> QED
    BY <2>5, <2>6
<1>2. S \subseteq Nat /\ S \subseteq Times /\ \A x \in S : x > now
  BY <1>0 DEF Times
<1>3. AdvanceRun(due) = Min(S)
  BY DEF AdvanceRun
<1> HIDE DEF S
<1> QED
  BY <1>1, <1>2, <1>3, LeastNumber

(* runAlarm.                                                               *)
LEMMA RanKept ==
  ASSUME NEW s, RoomKept(s), s.tomb = None, now \in Nat, now <= MaxTime,
         NEW t, t = Ran(s)
  PROVE  RoomKept(t) /\ t.tomb = None /\ t.inactive = s.inactive
<1> DEFINE s1 == IF s.flushAt # None /\ OrZero(s.flushAt) <= now THEN FlushMetrics(s) ELSE s
           due == {i \in Scheduled(s) : s.rules[i].on /\ s.rules[i].next <= now}
           rules == [i \in DOMAIN s.rules |->
                       IF i \in due THEN [s.rules[i] EXCEPT !.next = AdvanceRun(@)]
                       ELSE s.rules[i]]
           alerts == Evaluated(s1, UNION {{i} \X (Cached(s) \cup ActiveOf(s, i)) : i \in due})
<1>1. t = [s1 EXCEPT !.alerts = alerts, !.rules = rules]
  BY DEF Ran
<1> HIDE DEF s1, alerts
<1>2. RoomOK(s)
  BY DEF RoomKept
<1>3. /\ RoomKept(s1) /\ s1.tomb = None /\ s1.inactive = s.inactive /\ s1.rules = s.rules
  <2>1. CASE s1 = s
    BY <2>1
  <2>2. CASE s1 = FlushMetrics(s)
    <3>1. /\ RoomOK(s1) /\ Trend(s1) /\ s1.tomb = None
          /\ s1.inactive = s.inactive /\ s1.rules = s.rules
      BY <1>2, <2>2, Flushed
    <3>2. Scheduled(s1) = Scheduled(s)
      BY <3>1 DEF Scheduled
    <3> QED
      BY <3>1, <3>2 DEF RoomKept
  <2> QED
    BY <2>1, <2>2 DEF s1
<1>4. ASSUME NEW i \in DOMAIN s.rules
      PROVE  rules[i] \in Rule /\ rules[i].trigger = s.rules[i].trigger
  <2> PICK r : r = s.rules[i]
    OBVIOUS
  <2>1. r \in Rule
    BY <1>2 DEF RoomOK
  <2>2. CASE i \notin due
    BY <2>1, <2>2
  <2>3. CASE i \in due
    <3>1. r.trigger = "schedule" /\ r.next <= now /\ r.next \in Nat
      BY <2>1, <2>3 DEF Scheduled, Rule
    <3> PICK n : n = AdvanceRun(r.next)
      OBVIOUS
    <3>2. n \in Nat /\ n # None
      BY <3>1, NextRun, RoomAssumption
    <3>3. rules[i] = [r EXCEPT !.next = n]
      BY <2>3
    <3> HIDE DEF rules
    <3> QED
      BY <2>1, <3>2, <3>3 DEF Rule
  <2> QED
    BY <2>2, <2>3
<1>5. IsFcn(rules) /\ DOMAIN rules = DOMAIN s.rules
  BY DEF IsFcn
<1> HIDE DEF rules
<1>6. AlikeBut(s1, t) /\ t.rules = rules /\ t.inactive = s1.inactive
  BY <1>1, <1>3, Fields DEF RoomKept, RoomOK, AlikeBut
<1>7. Scheduled(t) = Scheduled(s)
  BY <1>4, <1>5, <1>6 DEF Scheduled
<1> QED
  BY <1>3, <1>4, <1>5, <1>6, <1>7, OtherRules DEF AlikeBut, RoomKept, RoomOK

-----------------------------------------------------------------------------
(* When the alarm is due: the next flush or scheduled run.                 *)
Wakes(s) == ({s.flushAt} \cup {s.rules[i].next : i \in {j \in Scheduled(s) : s.rules[j].on}})
            \ {None}

LEMMA DueLeast ==
  ASSUME NEW s, RoomOK(s)
  PROVE  \/ Wakes(s) = {} /\ Due(s) = None
         \/ /\ Due(s) \in Wakes(s) /\ Due(s) \in Nat /\ Due(s) # None
            /\ \A x \in Wakes(s) : x \in Nat /\ Due(s) <= x
<1>1. Wakes(s) \subseteq Nat
  BY DEF Wakes, RoomOK, Scheduled, Rule
<1>2. Due(s) = IF Wakes(s) = {} THEN None ELSE Min(Wakes(s))
  BY DEF Due, Wakes
<1>3. CASE Wakes(s) # {}
  BY <1>1, <1>2, <1>3, LeastNumber, RoomAssumption
<1> QED
  BY <1>2, <1>3

LEMMA DueLater ==
  ASSUME NEW s, RoomOK(s), NEW t, RoomOK(t), Wakes(t) \subseteq Wakes(s), Due(t) # None
  PROVE  Due(s) # None /\ Due(s) \in Nat /\ Due(t) \in Nat /\ Due(s) <= Due(t)
BY DueLeast

(* The alarm that reschedule sets.                                         *)
SameTimers(s, t) == /\ t.flushAt = s.flushAt /\ t.rules = s.rules
                    /\ t.inactive = s.inactive /\ t.tomb = s.tomb

LEMMA RescheduledWell ==
  ASSUME NEW s, NEW t, RoomOK(t), SameTimers(s, t), NEW a, a = Rescheduled(s)
  PROVE  /\ a \in Nat \cup {None}
         /\ t.tomb # None => a = t.tomb
         /\ t.tomb = None /\ ~ t.inactive /\ Due(t) # None =>
              a # None /\ OrZero(a) <= Due(t)
<1>1. Due(s) = Due(t)
  BY DEF Due, Scheduled, SameTimers
<1>2. Due(t) \in Nat \cup {None}
  BY DueLeast
<1>3. \A x \in Nat : OrZero(x) = x /\ x <= x
  BY RoomAssumption DEF OrZero
<1> QED
  BY <1>1, <1>2, <1>3 DEF Rescheduled, SameTimers, RoomOK

-----------------------------------------------------------------------------
(* Who waits for an initialization.                                        *)
LEMMA Joined ==
  ASSUME InitsOK, NEW cur \in Tokens \cup {0}, cur # 0 => inits[cur].pc # "free", Join(cur)
  PROVE  /\ InitsOK' /\ initializing' = Attempt(cur) /\ initializing' \in Tokens
         /\ inits'[initializing'].pc # "free"
         /\ \A t \in Tokens : inits[t].pc # "free" => inits'[t].pc # "free"
<1>1. 0 \notin Tokens /\ Tokens \subseteq Nat
  BY RoomAssumption DEF Tokens
<1>2. CASE cur # 0
  BY <1>2 DEF Join, Attempt, InitsOK
<1>3. CASE cur = 0
  <2> PICK m : m = Min(FreeTokens)
    OBVIOUS
  <2>1. FreeTokens # {} /\ FreeTokens \subseteq Tokens
    BY <1>3 DEF Join, FreeTokens
  <2>2. m \in Tokens
    BY <1>1, <2>1, LeastNumber
  <2>3. Attempt(cur) = m
    BY <1>3 DEF Attempt
  <2>4. initializing' = m /\ inits' = [inits EXCEPT ![m] = [NoInit EXCEPT !.pc = "schema"]]
    BY <1>3, <2>3 DEF Join
  <2>5. PICK i : i = [NoInit EXCEPT !.pc = "schema"]
    OBVIOUS
  <2>6. DOMAIN i = InitFields /\ i.pc = "schema"
    BY <2>5 DEF NoInit, InitFields
  <2> QED
    BY <2>2, <2>3, <2>4, <2>5, <2>6 DEF InitsOK
<1> QED
  BY <1>2, <1>3

(* Nobody starts or stops waiting, and no attempt ends.                    *)
LEMMA NobodyMoves ==
  ASSUME LocalInv, UNCHANGED <<inits, work, calls>>, initializing' \in {initializing, 0}
  PROVE  LocalInv'
BY DEF LocalInv, WorkOK, InitsOK, CallsOK, CallOK, SharedAtWork, WaitersInv, WaitersServed, CallRec

(* A write and a clear mark the reads that they overtake and change        *)
(* nothing else of consumers and attempts.                                 *)
AllBut(f, x, y) == DOMAIN y = DOMAIN x /\ \A g \in DOMAIN x \ {f} : y[g] = x[g]
Marks ==
  /\ DOMAIN inits' = Tokens /\ \A t \in Tokens : AllBut("late", inits[t], inits'[t])
  /\ DOMAIN work' = Consumers /\ \A c \in Consumers : AllBut("late", work[c], work'[c])

LEMMA LateMarks ==
  ASSUME NEW x, NEW pc, NEW n PROVE AllBut("late", x, x) /\ AllBut("late", x, Late(x, pc, n))
BY DEF AllBut, Late

LEMMA Marked ==
  ASSUME ClearGraph \/ \E r \in Rids, o \in Objects \cup {None} : Write(r, o) PROVE Marks
<1>1. CASE ClearGraph
  <2>1. /\ inits' = [t \in Tokens |->
             IF inits[t].todo # Rids THEN Late(inits[t], "pages", 0) ELSE inits[t]]
        /\ work' = [c \in Consumers |-> Late(work[c], "apply", 0)]
    BY <1>1, Zenon DEF ClearGraph
  <2> QED
    BY <2>1, LateMarks DEF Marks
<1>2. ASSUME NEW r \in Rids, NEW o \in Objects \cup {None}, Write(r, o) PROVE Marks
  <2>1. PICK n : n = Cardinality(events) + 1
    OBVIOUS
  <2>2. /\ inits' = [t \in Tokens |->
             IF r \notin inits[t].todo THEN Late(inits[t], "pages", n) ELSE inits[t]]
        /\ work' = [c \in Consumers |-> Late(work[c], "apply", n)]
    BY <1>2, <2>1, Zenon DEF Write
  <2> QED
    BY <2>2, LateMarks DEF Marks
<1> QED
  BY <1>1, <1>2

LEMMA MarksMoveNobody ==
  ASSUME LocalInv, Marks, UNCHANGED <<initializing, calls>> PROVE LocalInv'
<1>1. WorkOK' /\ InitsOK'
  BY DEF LocalInv, WorkOK, InitsOK, Marks, AllBut
<1>2. /\ \A t \in Tokens : inits'[t].pc = inits[t].pc
      /\ \A c \in Consumers : work'[c].pc = work[c].pc /\ work'[c].tok = work[c].tok
  BY DEF LocalInv, WorkOK, InitsOK, Marks, AllBut, ConsumerFields, InitFields
<1>3. SharedAtWork' /\ WaitersInv'
  BY <1>2 DEF LocalInv, SharedAtWork, WaitersInv, WaitersServed
<1> QED
  BY <1>1, <1>3 DEF LocalInv, CallsOK

LEMMA MarkedReads ==
  ASSUME LocalInv, Marks
  PROVE  /\ \A c \in Consumers : /\ work'[c].pc = work[c].pc /\ work'[c].evs = work[c].evs
                                 /\ work'[c].cur = work[c].cur
         /\ \A t \in Tokens : /\ inits'[t].pc = inits[t].pc /\ inits'[t].todo = inits[t].todo
                              /\ inits'[t].found = inits[t].found
BY DEF LocalInv, WorkOK, InitsOK, Marks, AllBut, ConsumerFields, InitFields

LEMMA LocalStep ==
  ASSUME LocalInv, RoomOK(room), [Next]_vars PROVE LocalInv'
<1> USE DEF LocalInv
<1>1. CASE UNCHANGED vars
  BY <1>1, NobodyMoves DEF vars, memory
<1>2. ASSUME NEW r \in Rids, NEW o \in Objects \cup {None}, Write(r, o) PROVE LocalInv'
  BY <1>2, Marked, MarksMoveNobody, Zenon DEF Write
<1>3. ASSUME NEW a \in Pairs, Acknowledge(a) PROVE LocalInv'
  BY <1>3, NobodyMoves DEF Acknowledge, memory
<1>4. CASE ClearGraph \/ Ring \/ RunAlarm \/ CloseStreams \/ PurgeRoom \/ Tick
  <2>1. CASE ClearGraph
    BY <2>1, Marked, MarksMoveNobody, Zenon DEF ClearGraph
  <2>2. CASE ~ ClearGraph
    BY <1>4, <2>2, NobodyMoves DEF Ring, RunAlarm, CloseStreams, PurgeRoom, Tick, memory
  <2> QED
    BY <2>1, <2>2
<1>5. CASE ResetForTemplate \/ ClearRoom
  <2>1. Join(0) /\ UNCHANGED <<work, calls>>
    BY <1>5 DEF ResetForTemplate, ClearRoom, Restart
  <2>2. /\ InitsOK' /\ initializing' \in Tokens /\ inits'[initializing'].pc # "free"
        /\ \A t \in Tokens : inits[t].pc # "free" => inits'[t].pc # "free"
    BY <2>1, Joined
  <2> QED
    BY <2>1, <2>2 DEF WorkOK, CallsOK, SharedAtWork, WaitersInv, WaitersServed
<1>6. ASSUME NEW c \in Consumers, NEW E \in SUBSET Queued, Deliver(c, E) PROVE LocalInv'
  <2>1. CASE UNCHANGED <<work, memory>>
    BY <1>6, <2>1, NobodyMoves DEF Deliver, memory
  <2>2. CASE ~ UNCHANGED <<work, memory>>
    <3> DEFINE x == [IdleConsumer EXCEPT !.pc = "read", !.evs = E]
               y == [IdleConsumer EXCEPT !.pc = "init", !.evs = E, !.tok = Attempt(initializing)]
    <3>1. DOMAIN x = ConsumerFields /\ x.pc = "read"
      BY DEF IdleConsumer, ConsumerFields
    <3>2. DOMAIN y = ConsumerFields /\ y.pc = "init" /\ y.tok = Attempt(initializing)
      BY DEF IdleConsumer, ConsumerFields
    <3>3. /\ UNCHANGED calls
          /\ \/ work' = [work EXCEPT ![c] = x] /\ UNCHANGED memory
             \/ Join(initializing) /\ work' = [work EXCEPT ![c] = y]
      BY <1>6, <2>2 DEF Deliver
    <3> HIDE DEF x, y
    <3>4. CASE work' = [work EXCEPT ![c] = x] /\ UNCHANGED memory
      <4>1. WorkOK' /\ \A d \in Consumers : work'[d].pc = "init" => work'[d] = work[d]
        BY <3>1, <3>4 DEF WorkOK
      <4> QED
        BY <3>3, <3>4, <4>1
           DEF InitsOK, CallsOK, SharedAtWork, WaitersInv, WaitersServed, memory
    <3>5. CASE Join(initializing) /\ work' = [work EXCEPT ![c] = y]
      <4>1. /\ InitsOK' /\ initializing' = Attempt(initializing) /\ initializing' \in Tokens
            /\ inits'[initializing'].pc # "free"
            /\ \A t \in Tokens : inits[t].pc # "free" => inits'[t].pc # "free"
        BY <3>5, Joined DEF SharedAtWork
      <4>2. WorkOK' /\ \A d \in Consumers : work'[d].pc = "init" =>
                         work'[d] = work[d] \/ work'[d].tok = initializing'
        BY <3>2, <3>5, <4>1 DEF WorkOK
      <4> QED
        BY <3>3, <4>1, <4>2 DEF CallsOK, SharedAtWork, WaitersInv, WaitersServed
    <3> QED
      BY <3>3, <3>4, <3>5
  <2> QED
    BY <2>1, <2>2
<1>7. ASSUME NEW c \in Consumers, ReadObjects(c) \/ Apply(c) \/ FailRead(c) PROVE LocalInv'
  <2>1. DOMAIN IdleConsumer = ConsumerFields /\ IdleConsumer.pc = "idle"
    BY DEF IdleConsumer, ConsumerFields
  <2>2. work' = [work EXCEPT ![c] = IdleConsumer] =>
          WorkOK' /\ \A d \in Consumers : work'[d].pc = "init" => work'[d] = work[d]
    BY <2>1 DEF WorkOK, ConsumerFields
  <2>3. ReadObjects(c) => WorkOK' /\ \A d \in Consumers : work'[d].pc = "init" => work'[d] = work[d]
    <3> HAVE ReadObjects(c)
    <3>1. PICK cur : work' = [work EXCEPT ![c].pc = "apply", ![c].cur = cur]
      BY Zenon DEF ReadObjects
    <3> QED
      BY <3>1 DEF WorkOK, ConsumerFields
  <2>4. WorkOK' /\ \A d \in Consumers : work'[d].pc = "init" => work'[d] = work[d]
    BY <1>7, <2>2, <2>3, Zenon DEF Apply, FailRead
  <2> QED
    BY <1>7, <2>4 DEF ReadObjects, Apply, FailRead,
       InitsOK, CallsOK, SharedAtWork, WaitersInv, WaitersServed, memory
<1>8. ASSUME NEW t \in Tokens, ReadSchema(t) \/ ReadPage(t) PROVE LocalInv'
  <2>1. PICK x : /\ x.pc = "pages" /\ DOMAIN x = InitFields
                 /\ inits' = [inits EXCEPT ![t] = x]
    <3>1. CASE ReadSchema(t)
      <4>1. PICK x : x = [pc |-> "pages", tpl |-> template, found |-> NoCache, todo |-> Rids]
        OBVIOUS
      <4> QED
        BY <3>1, <4>1 DEF ReadSchema, InitFields
    <3>2. CASE ReadPage(t)
      <4>1. inits[t].pc = "pages" /\ DOMAIN inits[t] = InitFields /\ DOMAIN inits = Tokens
        BY <3>2 DEF ReadPage, InitsOK
      <4>2. PICK r : inits' = [[inits EXCEPT ![t].found[r] = graph[r]] EXCEPT ![t].todo = @ \ {r}]
        BY <3>2, Zenon DEF ReadPage
      <4>3. inits' = [inits EXCEPT ![t] = inits'[t]] /\ DOMAIN inits'[t] = InitFields
            /\ inits'[t].pc = "pages"
        BY <4>1, <4>2 DEF InitFields
      <4> QED
        BY <4>3
    <3> QED
      BY <1>8, <3>1, <3>2
  <2>2. UNCHANGED <<initializing, work, calls>> /\ inits[t].pc # "free"
    BY <1>8 DEF ReadSchema, ReadPage
  <2>3. InitsOK' /\ \A u \in Tokens : inits[u].pc # "free" => inits'[u].pc # "free"
    BY <2>1 DEF InitsOK
  <2> QED
    BY <2>2, <2>3 DEF WorkOK, CallsOK, SharedAtWork, WaitersInv, WaitersServed
<1>9. ASSUME NEW t \in Tokens, FinishInit(t) \/ FailInit(t) PROVE LocalInv'
  <2>1. /\ DOMAIN IdleConsumer = ConsumerFields /\ IdleConsumer.pc = "idle"
        /\ DOMAIN NoInit = InitFields
        /\ IdleCall \in CallRec /\ IdleCall.pc = "idle" /\ CallOK(IdleCall)
    BY DEF IdleConsumer, ConsumerFields, NoInit, InitFields, IdleCall, CallRec, CallOK
  <2>2. /\ inits' = [inits EXCEPT ![t] = NoInit] /\ initializing' = 0
        /\ work' = [c \in Consumers |-> IF c \in Waiting(t) THEN IdleConsumer ELSE work[c]]
    BY <1>9, Zenon DEF FinishInit, FailInit
  <2>3. /\ InitsOK' /\ \A u \in Tokens \ {t} : inits'[u] = inits[u]
    BY <2>1, <2>2 DEF InitsOK
  <2>4. /\ WorkOK' /\ \A c \in Consumers : work'[c].pc = "init" =>
                        work'[c] = work[c] /\ work'[c].tok # t
    BY <2>1, <2>2 DEF WorkOK, Waiting
  <2>5. /\ CallsOK' /\ \A u \in Callers : calls'[u].pc = "init" =>
                        calls'[u] = calls[u] /\ calls'[u].tok # t
    <3>1. CASE FailInit(t)
      BY <2>1, <3>1 DEF FailInit, Callees, CallsOK
    <3>2. CASE FinishInit(t)
      <4>1. calls' = [u \in Callers |->
              IF u \notin Callees(t) THEN calls[u]
              ELSE IF calls[u].kind \in {"create", "put"}
                   THEN [calls[u] EXCEPT !.pc = "check", !.tok = 0, !.re = FALSE]
              ELSE IF calls[u].kind = "delete"
                   THEN [calls[u] EXCEPT !.pc = "commit", !.tok = 0, !.re = FALSE]
              ELSE IdleCall]
        BY <3>2, Zenon DEF FinishInit
      <4>2. ASSUME NEW u \in Callers
            PROVE  /\ calls'[u] \in CallRec /\ CallOK(calls'[u])
                   /\ calls'[u].pc = "init" => calls'[u] = calls[u] /\ calls'[u].tok # t
        <5>1. PICK c \in CallRec : c = calls[u] /\ CallOK(c)
          BY DEF CallsOK
        <5>2. CASE u \notin Callees(t)
          <6>1. calls'[u] = calls[u]
            BY <4>1, <5>2, Zenon
          <6> QED
            BY <5>1, <5>2, <6>1 DEF Callees
        <5>3. CASE u \in Callees(t) /\ calls'[u] = IdleCall
          BY <2>1, <5>3
        <5>4. CASE u \in Callees(t) /\ calls'[u] # IdleCall
          <6>1. \E p \in {"check", "commit"} :
                  /\ calls'[u] = [c EXCEPT !.pc = p, !.tok = 0, !.re = FALSE]
                  /\ c.kind \in {"create", "put", "delete"} /\ (p = "check" => c.kind # "delete")
            <7>1. calls'[u] =
                    IF c.kind \in {"create", "put"}
                    THEN [c EXCEPT !.pc = "check", !.tok = 0, !.re = FALSE]
                    ELSE IF c.kind = "delete"
                    THEN [c EXCEPT !.pc = "commit", !.tok = 0, !.re = FALSE] ELSE IdleCall
              BY <4>1, <5>1, <5>4, Zenon
            <7> QED
              BY <5>4, <7>1, Zenon
          <6> QED
            BY <5>1, <6>1 DEF CallRec, CallOK
        <5> QED
          BY <5>2, <5>3, <5>4
      <4> QED
        BY <4>1, <4>2 DEF CallsOK
    <3> QED
      BY <1>9, <3>1, <3>2
  <2> QED
    BY <2>2, <2>3, <2>4, <2>5 DEF SharedAtWork, WaitersInv, WaitersServed
<1>10. ASSUME NEW u \in Callers, StartCall(u) PROVE LocalInv'
  <2>1. PICK kind \in CallKinds, id \in Rules \cup {None}, def \in UserDefs \cup {None} :
          /\ Call(u, kind, id, def)
          /\ kind \in {"create", "put"} => id \in Rules /\ def \in UserDefs
    <3>1. DOMAIN room.rules \subseteq Rules /\ UserRules \subseteq Rules
      BY DEF RoomOK, Rules
    <3> QED
      BY <1>10, <3>1, Zenon DEF StartCall
  <2> DEFINE n == IF id \in DOMAIN room.rules THEN room.rules[id].version ELSE 0
             c == [IdleCall EXCEPT !.kind = kind, !.id = id, !.def = def, !.ifMatch = n]
             re == room.inactive /\ kind # "list"
  <2>2. n \in Nat
    BY DEF RoomOK, Rule
  <2> HIDE DEF n
  <2>3. c \in CallRec /\ c.pc = "idle" /\ c.kind = kind /\ c.id = id /\ c.def = def
        /\ c.re = FALSE /\ IdleCall \in CallRec /\ CallOK(IdleCall) /\ IdleCall.pc = "idle"
    BY <2>2 DEF IdleCall, CallRec, CallOK
  <2> HIDE DEF c
  <2>4. re \in BOOLEAN
    BY DEF RoomOK
  <2> HIDE DEF re
  <2>5. UNCHANGED work
    BY <2>1, Zenon DEF Call
  <2>6. CASE UNCHANGED memory /\ \E x \in {[c EXCEPT !.pc = "check"], IdleCall} :
               /\ calls' = [calls EXCEPT ![u] = x]
               /\ x # IdleCall => kind \in {"create", "put"}
    <3>1. PICK x \in {[c EXCEPT !.pc = "check"], IdleCall} :
               /\ calls' = [calls EXCEPT ![u] = x]
               /\ x # IdleCall => kind \in {"create", "put"}
      BY <2>6
    <3>2. x \in CallRec /\ CallOK(x) /\ x.pc # "init"
      BY <2>1, <2>3, <3>1 DEF CallRec, CallOK
    <3>3. CallsOK' /\ \A v \in Callers : calls'[v].pc = "init" => calls'[v] = calls[v]
      BY <3>1, <3>2 DEF CallsOK
    <3> QED
      BY <2>5, <2>6, <3>3 DEF WorkOK, InitsOK, SharedAtWork, WaitersInv, WaitersServed, memory
  <2>7. CASE Join(initializing) /\ calls' = [calls EXCEPT ![u] =
               [c EXCEPT !.pc = "init", !.tok = Attempt(initializing), !.re = re]]
    <3>1. /\ InitsOK' /\ initializing' = Attempt(initializing) /\ initializing' \in Tokens
          /\ inits'[initializing'].pc # "free"
          /\ \A t \in Tokens : inits[t].pc # "free" => inits'[t].pc # "free"
      BY <2>7, Joined DEF SharedAtWork
    <3>2. PICK x : x = [c EXCEPT !.pc = "init", !.tok = Attempt(initializing), !.re = re]
      OBVIOUS
    <3>3. x \in CallRec /\ CallOK(x) /\ x.tok = initializing'
      BY <2>1, <2>3, <2>4, <3>1, <3>2 DEF CallRec, CallOK
    <3>4. CallsOK' /\ \A v \in Callers : calls'[v].pc = "init" =>
                        calls'[v] = calls[v] \/ calls'[v].tok = initializing'
      BY <2>7, <3>2, <3>3 DEF CallsOK
    <3> QED
      BY <2>5, <3>1, <3>4 DEF WorkOK, SharedAtWork, WaitersInv, WaitersServed
  <2> QED
    BY <2>1, <2>6, <2>7, Zenon DEF Call, c, n, re
<1>11. ASSUME NEW u \in Callers, CheckType(u) \/ CommitRule(u) PROVE LocalInv'
  <2>1. IdleCall \in CallRec /\ CallOK(IdleCall) /\ IdleCall.pc = "idle"
    BY DEF IdleCall, CallRec, CallOK
  <2>2. PICK x : /\ calls' = [calls EXCEPT ![u] = x]
                 /\ \/ x = IdleCall
                    \/ calls[u].pc = "check" /\ x = [calls[u] EXCEPT !.pc = "commit"]
    BY <1>11, Zenon DEF CheckType, CommitRule
  <2>3. x \in CallRec /\ CallOK(x) /\ x.pc # "init"
    BY <2>1, <2>2 DEF CallsOK, CallRec, CallOK
  <2>4. CallsOK' /\ \A v \in Callers : calls'[v].pc = "init" => calls'[v] = calls[v]
    BY <2>2, <2>3 DEF CallsOK
  <2>5. UNCHANGED <<work, memory>>
    BY <1>11 DEF CheckType, CommitRule
  <2> QED
    BY <2>4, <2>5 DEF WorkOK, InitsOK, SharedAtWork, WaitersInv, WaitersServed, memory
<1> QED
  BY <1>1, <1>2, <1>3, <1>4, <1>5, <1>6, <1>7, <1>8, <1>9, <1>10, <1>11 DEF Next, Service

-----------------------------------------------------------------------------
(* What a step does to the room and its alarm: it sets the alarm for what  *)
(* the room now holds, or keeps alarm and timers.  Excused are the calls   *)
(* that wake the room and set no alarm, or set it when they end.           *)
Excused == unarmed \/ room.inactive \/ \E u \in Callers : calls[u].re

Rearmed == \E s : alarm' = Rescheduled(s) /\ SameTimers(s, room')
Kept == /\ UNCHANGED <<alarm, ringing>> /\ room'.tomb = room.tomb
        /\ ~ Excused' => ~ Excused /\ Wakes(room') \subseteq Wakes(room)
Effect == RoomKept(room') /\ (Rearmed \/ Kept \/ (ringing' = TRUE /\ alarm' = None))

LEMMA StillAlike ==
  ASSUME RoomKept(room), Alike(room, room'), room.tomb = None,
         UNCHANGED <<alarm, ringing>>, ~ Excused' => ~ Excused
  PROVE  Effect
<1>1. RoomKept(room')
  BY AlikeKept
<1>2. Wakes(room') = Wakes(room) /\ room'.tomb = room.tomb
  BY DEF Alike, Wakes, Scheduled
<1> QED
  BY <1>1, <1>2 DEF Effect, Kept

LEMMA SameRoom ==
  ASSUME RoomKept(room), UNCHANGED <<room, alarm, ringing>>, ~ Excused' => ~ Excused
  PROVE  Effect
BY DEF Effect, Kept

LEMMA ArmedAnew ==
  ASSUME RoomKept(room'), alarm' = Rescheduled(room') PROVE Effect
<1>1. SameTimers(room', room')
  BY DEF SameTimers
<1> QED
  BY <1>1 DEF Effect, Rearmed

LEMMA RoomStep ==
  ASSUME LocalInv, RoomKept(room), ClockOK, [Next]_vars PROVE Effect
<1> USE DEF ClockOK
<1>0. RoomOK(room)
  BY DEF RoomKept
<1>1. CASE UNCHANGED vars
  BY <1>1, SameRoom DEF vars, clock, ghosts, Excused
<1>2. ASSUME NEW r \in Rids, NEW o \in Objects \cup {None}, Write(r, o) PROVE Effect
  BY <1>2, SameRoom DEF Write, clock, ghosts, Excused
<1>3. ASSUME NEW c \in Consumers, FailRead(c) \/ ReadObjects(c) PROVE Effect
  BY <1>3, SameRoom DEF FailRead, ReadObjects, clock, ghosts, Excused
<1>4. ASSUME NEW t \in Tokens, ReadSchema(t) \/ ReadPage(t) PROVE Effect
  BY <1>4, SameRoom DEF ReadSchema, ReadPage, clock, ghosts, Excused
<1>5. CASE ClearGraph \/ Tick
  BY <1>5, SameRoom DEF ClearGraph, Tick, clock, ghosts, Excused
<1>6. CASE Ring
  BY <1>6 DEF Ring, Effect
<1>7. ASSUME NEW a \in Pairs, Acknowledge(a) PROVE Effect
  <2>1. /\ room.tomb = None /\ unarmed' = (unarmed \/ room.inactive)
        /\ UNCHANGED <<alarm, ringing, calls>>
    BY <1>7 DEF Acknowledge, clock
  <2>2. PICK x : room' = [Touched(room) EXCEPT !.alerts = x]
    BY <1>7, Zenon DEF Acknowledge
  <2>3. Alike(room, room')
    BY <1>0, <2>2, Fields DEF Touched, Alike, RoomOK
  <2> QED
    BY <2>1, <2>3, StillAlike DEF Excused
<1>8. CASE ResetForTemplate \/ ClearRoom
  <2>1. PICK s : /\ Restart(s) /\ room.tomb = None /\ UNCHANGED <<ringing, calls>>
                 /\ DOMAIN s = DOMAIN room /\ s.flushAt = room.flushAt /\ s.tomb = room.tomb
                 /\ DOMAIN s.kpi = {} /\ IsFcn(s.kpi) /\ DOMAIN s.rules = {} /\ IsFcn(s.rules)
                 /\ DOMAIN s.point = Kpis
    <3>1. CASE ResetForTemplate
      <4>1. PICK s : s = [room EXCEPT !.kpi = [k \in {} |-> None], !.rules = [r \in {} |-> None]]
        OBVIOUS
      <4>2. /\ DOMAIN s = DOMAIN room /\ s.flushAt = room.flushAt /\ s.tomb = room.tomb
            /\ DOMAIN s.kpi = {} /\ IsFcn(s.kpi) /\ DOMAIN s.rules = {} /\ IsFcn(s.rules)
            /\ DOMAIN s.point = Kpis
        BY <1>0, <4>1, Fields DEF RoomOK, IsFcn
      <4>3. Restart(s) /\ room.tomb = None /\ UNCHANGED <<ringing, calls>>
        BY <3>1, <4>1 DEF ResetForTemplate, clock
      <4> QED
        BY <4>2, <4>3
    <3>2. CASE ClearRoom
      <4>1. PICK s : s = [room EXCEPT !.cache = NoCache, !.kpi = [k \in {} |-> None],
                            !.point = [k \in Kpis |-> None], !.rules = [r \in {} |-> None],
                            !.alerts = [a \in Pairs |-> NoAlert]]
        OBVIOUS
      <4>2. /\ DOMAIN s = DOMAIN room /\ s.flushAt = room.flushAt /\ s.tomb = room.tomb
            /\ DOMAIN s.kpi = {} /\ IsFcn(s.kpi) /\ DOMAIN s.rules = {} /\ IsFcn(s.rules)
            /\ DOMAIN s.point = Kpis
        BY <1>0, <4>1, Fields DEF RoomOK, IsFcn
      <4>3. Restart(s) /\ room.tomb = None /\ UNCHANGED <<ringing, calls>>
        BY <3>2, <4>1 DEF ClearRoom, clock
      <4> QED
        BY <4>2, <4>3
    <3> QED
      BY <1>8, <3>1, <3>2
  <2>2. room' = [s EXCEPT !.inited = FALSE, !.bound = TRUE, !.inactive = FALSE]
        /\ alarm' = alarm /\ unarmed' = (unarmed \/ room.inactive)
    BY <2>1 DEF Restart
  <2>3. /\ DOMAIN room' = DOMAIN room /\ room'.flushAt = room.flushAt /\ room'.tomb = None
        /\ DOMAIN room'.kpi = {} /\ IsFcn(room'.kpi)
        /\ DOMAIN room'.rules = {} /\ IsFcn(room'.rules)
        /\ DOMAIN room'.point = Kpis
        /\ room'.inited = FALSE /\ room'.bound = TRUE /\ room'.inactive = FALSE
    BY <1>0, <2>1, <2>2, Fields DEF RoomOK
  <2>4. Scheduled(room') = {}
    BY <2>3 DEF Scheduled
  <2>5. IsFiniteSet({}) /\ Cardinality({}) = 0 /\ MaxScheduled \in Nat
    BY FS_EmptySet, RoomAssumption
  <2>6. RoomKept(room')
    <3>1. RoomOK(room')
      BY <1>0, <2>3, <2>4, <2>5 DEF RoomOK
    <3> QED
      BY <2>3, <2>4, <2>5, <3>1 DEF RoomKept
  <2>7. Wakes(room') \subseteq Wakes(room)
    BY <2>3, <2>4 DEF Wakes
  <2> QED
    BY <2>1, <2>2, <2>3, <2>6, <2>7 DEF Effect, Kept, Excused
<1>9. CASE CloseStreams
  <2>1. alarm' = Rescheduled(room')
    BY <1>9 DEF CloseStreams, Reschedule
  <2>2. room' = room \/ (room.tomb = None /\ room' = [room EXCEPT !.inactive = TRUE])
    BY <1>9 DEF CloseStreams
  <2>3. room' = room \/ (room.tomb = None /\ Alike(room, room'))
    BY <1>0, <2>2, Fields DEF Alike, RoomOK
  <2> QED
    BY <2>1, <2>3, AlikeKept, ArmedAnew
<1>10. CASE PurgeRoom
  <2> PICK x : x = now + TombTtl
    OBVIOUS
  <2>1. x \in Nat /\ x # None
    BY RoomAssumption
  <2>2. room' = [NewRoom EXCEPT !.tomb = x] /\ alarm' = x
    BY <1>10 DEF PurgeRoom
  <2>3. RoomKept(room') /\ room'.tomb = x
    BY <2>1, <2>2, NewRoomKept
  <2> QED
    BY <2>1, <2>2, <2>3, ArmedAnew DEF Rescheduled
<1>11. CASE RunAlarm
  <2>1. CASE room' = NewRoom /\ alarm' = None
    <3>1. RoomKept(NewRoom) /\ NewRoom.tomb = None /\ NewRoom.flushAt = None
          /\ DOMAIN NewRoom.rules = {}
      BY NewRoomKept
    <3>2. Wakes(NewRoom) = {}
      BY <3>1 DEF Wakes, Scheduled
    <3>3. Due(NewRoom) = None
      BY <3>1, <3>2, DueLeast DEF RoomKept
    <3>4. alarm' = Rescheduled(room')
      BY <2>1, <3>1, <3>3 DEF Rescheduled
    <3> QED
      BY <2>1, <3>1, <3>4, ArmedAnew
  <2>2. CASE room' = room /\ (Reschedule(room) \/ (room.tomb # None /\ alarm' = room.tomb))
    BY <2>2, ArmedAnew DEF Rescheduled, Reschedule
  <2>3. CASE room.tomb = None /\ room' = Ran(room) /\ Reschedule(Ran(room))
    BY <2>3, RanKept, ArmedAnew DEF Reschedule
  <2> QED
    BY <1>11, <2>1, <2>2, <2>3 DEF RunAlarm
<1>12. ASSUME NEW c \in Consumers, NEW E \in SUBSET Queued, Deliver(c, E) PROVE Effect
  <2>1. UNCHANGED <<alarm, ringing, calls, unarmed>>
    BY <1>12 DEF Deliver, clock, ghosts
  <2>2. room' = room \/ (room.tomb = None /\ room' = [room EXCEPT !.bound = TRUE])
    BY <1>12 DEF Deliver
  <2>3. room' = room \/ (room.tomb = None /\ Alike(room, room'))
    BY <1>0, <2>2, Fields DEF Alike, RoomOK
  <2>4. room'.inactive = room.inactive
    BY <1>0, <2>2, Fields DEF RoomOK
  <2> QED
    BY <2>1, <2>3, <2>4, StillAlike, SameRoom DEF Excused
<1>13. ASSUME NEW c \in Consumers, Apply(c) PROVE Effect
  <2> PICK todo, cur : todo = work[c].evs \ room.seen /\ cur = work[c].cur
    OBVIOUS
  <2> DEFINE s == Applied(room, todo, cur)
             ch == Moved(room, todo, cur)
  <2>1. /\ UNCHANGED <<ringing, calls>>
        /\ \/ room.tomb # None /\ UNCHANGED <<room, alarm, unarmed>>
           \/ room.tomb = None /\ room' = s /\ ch # {} /\ Reschedule(s)
           \/ room.tomb = None /\ room' = s /\ ch = {} /\ UNCHANGED <<alarm, unarmed>>
    BY <1>13 DEF Apply, Moved, clock, ghosts
  <2>2. room.tomb = None =>
          /\ RoomKept(s) /\ s.tomb = None /\ s.inactive = room.inactive /\ s.rules = room.rules
          /\ ch = {} => s.flushAt = room.flushAt
    BY AppliedKept
  <2> HIDE DEF s, ch
  <2>3. CASE room.tomb # None /\ UNCHANGED <<room, alarm, unarmed>>
    BY <2>1, <2>3, SameRoom DEF Excused
  <2>4. CASE room.tomb = None /\ room' = s /\ Reschedule(s)
    BY <2>2, <2>4, ArmedAnew DEF Reschedule
  <2>5. CASE room.tomb = None /\ room' = s /\ ch = {} /\ UNCHANGED <<alarm, unarmed>>
    <3>1. Wakes(room') = Wakes(room)
      BY <2>2, <2>5 DEF Wakes, Scheduled
    <3> QED
      BY <2>1, <2>2, <2>5, <3>1 DEF Effect, Kept, Excused
  <2> QED
    BY <2>1, <2>3, <2>4, <2>5
<1>14. ASSUME NEW t \in Tokens, FinishInit(t) PROVE Effect
  <2> PICK s, evs : /\ s = IF MayInstall(room) THEN Install(room, inits[t]) ELSE room
                    /\ evs = UNION {work[c].evs : c \in Waiting(t)}
    OBVIOUS
  <2> DEFINE re == \E u \in Callees(t) : calls[u].re
  <2>1. /\ room' = IF s.tomb = None THEN [s EXCEPT !.seen = @ \cup evs] ELSE s
        /\ IF MayInstall(room) \/ re THEN Reschedule(s) ELSE UNCHANGED <<alarm, unarmed>>
    BY <1>14, Zenon DEF FinishInit
  <2>2. RoomKept(s) /\ (~ MayInstall(room) => s = room)
    <3>1. CASE MayInstall(room)
      BY <1>0, <3>1, Installed DEF MayInstall, RoomKept
    <3> QED
      BY <3>1
  <2>3. room' = s \/ (s.tomb = None /\ Alike(s, room') /\ room'.inactive = s.inactive)
    BY <2>1, <2>2, Fields DEF Alike, RoomKept, RoomOK
  <2>4. RoomKept(room') /\ SameTimers(s, room')
    BY <2>2, <2>3, AlikeKept DEF SameTimers, Alike
  <2>5. CASE MayInstall(room) \/ re
    BY <2>1, <2>4, <2>5 DEF Effect, Rearmed, Reschedule
  <2>6. CASE ~ (MayInstall(room) \/ re)
    <3>1. s = room /\ UNCHANGED <<alarm, unarmed, ringing>>
      <4>1. UNCHANGED ringing
        <5>1. UNCHANGED <<outside, clock>>
          BY <1>14, Zenon DEF FinishInit
        <5> QED
          BY <5>1 DEF clock
      <4> QED
        BY <2>1, <2>2, <2>6, <4>1
    <3>2. Wakes(room') = Wakes(room)
      BY <2>4, <3>1 DEF SameTimers, Wakes, Scheduled
    <3>3. \A u \in Callers : calls[u].re => calls'[u].re
      <4> SUFFICES ASSUME NEW u \in Callers, calls[u].re PROVE calls'[u].re
        OBVIOUS
      <4>1. u \notin Callees(t)
        BY <2>6
      <4>2. calls'[u] = calls[u]
        BY <1>14, <4>1, Zenon DEF FinishInit
      <4> QED
        BY <4>2
    <3> QED
      BY <2>4, <3>1, <3>2, <3>3 DEF Effect, Kept, Excused, SameTimers
  <2> QED
    BY <2>5, <2>6
<1>15. ASSUME NEW t \in Tokens, FailInit(t) PROVE Effect
  <2> DEFINE re == {u \in Callees(t) : calls[u].re}
  <2>1. /\ UNCHANGED <<room, ringing>>
        /\ calls' = [u \in Callers |-> IF u \in Callees(t) THEN IdleCall ELSE calls[u]]
        /\ Reschedule(room) \/ (unarmed' = (unarmed \/ re # {}) /\ UNCHANGED alarm)
    BY <1>15, Zenon DEF FailInit, clock
  <2>2. CASE Reschedule(room)
    BY <2>1, <2>2, ArmedAnew DEF Reschedule
  <2>3. CASE unarmed' = (unarmed \/ re # {}) /\ UNCHANGED alarm
    <3>1. re = {} => \A u \in Callers : calls[u].re => calls'[u] = calls[u]
      BY <2>1
    <3> QED
      BY <2>1, <2>3, <3>1, SameRoom DEF Excused
  <2> QED
    BY <2>1, <2>2, <2>3
<1>16. ASSUME NEW u \in Callers, StartCall(u) PROVE Effect
  <2>1. PICK kind, id, def : Call(u, kind, id, def)
    BY <1>16, Zenon DEF StartCall
  <2> DEFINE s == Touched(room)
             re == room.inactive /\ kind # "list"
  <2>2. room.tomb = None /\ UNCHANGED ringing /\ calls[u].pc = "idle"
    BY <2>1 DEF Call, clock
  <2>3. PICK x : calls' = [calls EXCEPT ![u] = x] /\ (~ room.inited => x.re = re)
    <3> DEFINE c == [IdleCall EXCEPT !.kind = kind, !.id = id, !.def = def,
                       !.ifMatch = IF id \in DOMAIN room.rules THEN room.rules[id].version ELSE 0]
               y == [c EXCEPT !.pc = "init", !.tok = Attempt(initializing), !.re = re]
    <3>1. y.re = re
      <4>1. DOMAIN c = {"pc", "kind", "id", "def", "ifMatch", "re", "tok"}
        BY DEF IdleCall
      <4> HIDE DEF c
      <4> QED
        BY <4>1
    <3>2. \/ room.inited /\ calls' = [calls EXCEPT ![u] =
                 IF kind \in {"create", "put"} THEN [c EXCEPT !.pc = "check"] ELSE IdleCall]
          \/ calls' = [calls EXCEPT ![u] = y]
      BY <2>1, Zenon DEF Call
    <3> HIDE DEF c, y
    <3> QED
      BY <3>1, <3>2, Zenon
  <2>4. \A v \in Callers : calls[v].re => calls'[v].re
    BY <2>2, <2>3 DEF LocalInv, CallsOK, CallOK
  <2>5. Alike(room, s) /\ s.inactive = FALSE
    BY <1>0, Fields DEF Touched, Alike, RoomOK
  <2>6. RoomKept(s) /\ s.tomb = None
    BY <2>2, <2>5, AlikeKept DEF Alike
  <2>7. \/ room' \in {s, Deleted(s, id)} /\ Reschedule(room')
        \/ room' = s /\ UNCHANGED alarm /\ unarmed' = (unarmed \/ room.inactive)
        \/ room' = s /\ UNCHANGED alarm /\ unarmed' = (unarmed \/ (room.inactive /\ ~ re))
           /\ ~ room.inited
    BY <2>1, Zenon DEF Call
  <2> HIDE DEF s
  <2>8. CASE room' \in {s, Deleted(s, id)} /\ Reschedule(room')
    BY <2>6, <2>8, DeletedKept, ArmedAnew DEF Reschedule
  <2>9. CASE room' = s /\ UNCHANGED alarm /\ unarmed' = (unarmed \/ room.inactive)
    BY <2>2, <2>4, <2>5, <2>9, StillAlike DEF Excused
  <2>10. CASE /\ room' = s /\ UNCHANGED alarm /\ ~ room.inited
              /\ unarmed' = (unarmed \/ (room.inactive /\ ~ re))
    <3>1. calls'[u].re <=> re
      BY <2>3, <2>10 DEF LocalInv, CallsOK
    <3> QED
      BY <2>2, <2>4, <2>5, <2>10, <3>1, StillAlike DEF Excused
  <2> QED
    BY <2>7, <2>8, <2>9, <2>10
<1>17. ASSUME NEW u \in Callers, CheckType(u) PROVE Effect
  <2>1. \A v \in Callers : calls[v].re => calls'[v].re
    BY <1>17 DEF CheckType, LocalInv, CallsOK, CallOK
  <2> QED
    BY <1>17, <2>1, SameRoom DEF CheckType, clock, ghosts, Excused
<1>18. ASSUME NEW u \in Callers, CommitRule(u) PROVE Effect
  <2> PICK c \in CallRec : c = calls[u] /\ CallOK(c)
    BY DEF LocalInv, CallsOK
  <2>1. /\ c.pc = "commit" /\ calls' = [calls EXCEPT ![u] = IdleCall] /\ UNCHANGED ringing
        /\ IF Accepts(room, c)
           THEN /\ room' = IF c.kind = "delete" THEN Deleted(room, c.id) ELSE Stored(room, c)
                /\ Reschedule(room')
           ELSE UNCHANGED <<room, alarm, unarmed>>
    BY <1>18 DEF CommitRule, clock
  <2>2. \A v \in Callers : calls[v].re => calls'[v].re
    BY <2>1 DEF LocalInv, CallsOK, CallOK
  <2>3. CASE Accepts(room, c)
    <3>1. room.tomb = None
      BY <2>3 DEF Accepts
    <3>2. c.kind # "delete" => c.id \in Rules /\ c.def \in UserDefs
      BY <2>1 DEF CallOK
    <3>3. RoomKept(room')
      <4>1. CASE c.kind = "delete"
        BY <2>1, <2>3, <3>1, <4>1, DeletedKept
      <4>2. CASE c.kind # "delete"
        BY <2>1, <2>3, <3>1, <3>2, <4>2, StoredKept
      <4> QED
        BY <4>1, <4>2
    <3> QED
      BY <2>1, <2>3, <3>3, ArmedAnew DEF Reschedule
  <2>4. CASE ~ Accepts(room, c)
    BY <2>1, <2>2, <2>4, SameRoom DEF Excused
  <2> QED
    BY <2>3, <2>4
<1> QED
  BY <1>1, <1>2, <1>3, <1>4, <1>5, <1>6, <1>7, <1>8, <1>9, <1>10, <1>11, <1>12, <1>13,
     <1>14, <1>15, <1>16, <1>17, <1>18 DEF Next, Service

(* The clock goes up to its bound; an alarm is a time.                     *)
LEMMA ClockStep ==
  ASSUME ClockOK, RoomKept(room), Effect, [Next]_vars PROVE ClockOK'
<1>1. now' \in Nat /\ now' <= MaxTime
  <2>1. UNCHANGED now \/ (now < MaxTime /\ now' = now + 1)
    <3>1. CASE Tick
      BY <3>1 DEF Tick
    <3>2. CASE ClearGraph \/ ResetForTemplate \/ ClearRoom \/ Ring \/ RunAlarm \/ CloseStreams
               \/ PurgeRoom \/ UNCHANGED vars
      BY <3>2 DEF ClearGraph, ResetForTemplate, ClearRoom, Ring, RunAlarm, CloseStreams,
         PurgeRoom, vars, clock
    <3>3. CASE \E c \in Consumers : \/ \E E \in SUBSET Queued : Deliver(c, E)
                                    \/ ReadObjects(c) \/ Apply(c) \/ FailRead(c)
      BY <3>3, Zenon DEF Deliver, ReadObjects, Apply, FailRead, clock
    <3>4. CASE \E t \in Tokens : ReadSchema(t) \/ ReadPage(t) \/ FinishInit(t) \/ FailInit(t)
      BY <3>4, Zenon DEF ReadSchema, ReadPage, FinishInit, FailInit, clock
    <3>5. CASE \E u \in Callers : StartCall(u) \/ CheckType(u) \/ CommitRule(u)
      <4>1. ASSUME NEW u \in Callers, StartCall(u) PROVE UNCHANGED now
        <5>1. PICK kind, id, def : Call(u, kind, id, def)
          BY <4>1, Zenon DEF StartCall
        <5> QED
          BY <5>1, Zenon DEF Call, clock
      <4> QED
        BY <3>5, <4>1, Zenon DEF CheckType, CommitRule, clock
    <3>6. CASE \/ \E r \in Rids, o \in Objects \cup {None} : Write(r, o)
               \/ \E a \in Pairs : Acknowledge(a)
      BY <3>6, Zenon DEF Write, Acknowledge, clock
    <3> QED
      BY <3>1, <3>2, <3>3, <3>4, <3>5, <3>6 DEF Next, Service
  <2> QED
    BY <2>1, RoomAssumption DEF ClockOK
<1>2. alarm' \in Nat \cup {None}
  <2>1. CASE Rearmed
    <3>1. PICK s, a : a = Rescheduled(s) /\ alarm' = a /\ SameTimers(s, room')
      BY <2>1 DEF Rearmed
    <3>2. RoomOK(room')
      BY DEF Effect, RoomKept
    <3> QED
      BY <3>1, <3>2, RescheduledWell
  <2> QED
    BY <2>1 DEF Effect, Kept, ClockOK
<1> QED
  BY <1>1, <1>2 DEF ClockOK

(* The alarm of a purged room is the tombstone's.                          *)
AlarmInv == AlarmArmed /\ (room.tomb # None => ringing \/ alarm = room.tomb)

LEMMA AlarmStep ==
  ASSUME AlarmInv, ClockOK, RoomKept(room), Effect PROVE AlarmInv'
<1>1. RoomOK(room) /\ RoomOK(room')
  BY DEF Effect, RoomKept
<1>2. CASE ringing' = TRUE
  BY <1>2 DEF AlarmInv, AlarmArmed
<1>3. CASE Rearmed
  <2>1. PICK s, a : a = Rescheduled(s) /\ alarm' = a /\ SameTimers(s, room')
    BY <1>3 DEF Rearmed
  <2>2. /\ room'.tomb # None => a = room'.tomb
        /\ room'.tomb = None /\ ~ room'.inactive /\ Due(room') # None =>
             a # None /\ OrZero(a) <= Due(room')
    BY <1>1, <2>1, RescheduledWell
  <2> QED
    BY <2>1, <2>2 DEF AlarmInv, AlarmArmed
<1>4. CASE Kept
  <2>1. room'.tomb # None => ringing' \/ alarm' = room'.tomb
    BY <1>4 DEF Kept, AlarmInv
  <2>2. AlarmArmed'
    <3> SUFFICES ASSUME room'.tomb = None, ~ Excused', Due(room') # None
                 PROVE  ringing' \/ (alarm' # None /\ OrZero(alarm') <= Due(room'))
      BY DEF AlarmArmed, Excused
    <3>1. /\ UNCHANGED <<alarm, ringing>> /\ room.tomb = None /\ ~ Excused
          /\ Wakes(room') \subseteq Wakes(room)
      BY <1>4 DEF Kept
    <3>2. /\ Due(room) # None /\ Due(room) \in Nat /\ Due(room') \in Nat
          /\ Due(room) <= Due(room')
      BY <1>1, <3>1, DueLater
    <3>3. ringing \/ (alarm # None /\ OrZero(alarm) <= Due(room))
      BY <3>1, <3>2 DEF AlarmInv, AlarmArmed, Excused
    <3>4. alarm # None => OrZero(alarm) \in Nat
      BY DEF OrZero, ClockOK
    <3> QED
      BY <3>1, <3>2, <3>3, <3>4
  <2> QED
    BY <2>1, <2>2 DEF AlarmInv
<1> QED
  <2>1. Rearmed \/ Kept \/ ringing' = TRUE
    BY DEF Effect
  <2> QED
    BY <1>2, <1>3, <1>4, <2>1

-----------------------------------------------------------------------------
(* The invariant and the theorems.                                         *)
RoomInv == LocalInv /\ RoomKept(room) /\ ClockOK /\ AlarmInv

LEMMA RoomInvInit == ASSUME Init PROVE RoomInv
<1>1. RoomKept(room) /\ room.tomb = None
  BY NewRoomKept DEF Init
<1>2. ClockOK
  BY RoomAssumption DEF Init, ClockOK
<1>3. AlarmInv
  <2>1. NewRoom.flushAt = None /\ DOMAIN NewRoom.rules = {} /\ RoomOK(NewRoom)
    BY NewRoomKept DEF RoomKept
  <2>2. Wakes(NewRoom) = {}
    BY <2>1 DEF Wakes, Scheduled
  <2>3. Due(room) = None
    BY <2>1, <2>2, DueLeast DEF Init
  <2> QED
    BY <1>1, <2>3 DEF AlarmInv, AlarmArmed
<1>4. LocalInv
  <2>1. /\ DOMAIN IdleConsumer = ConsumerFields /\ IdleConsumer.pc = "idle"
        /\ DOMAIN NoInit = InitFields
        /\ IdleCall \in CallRec /\ IdleCall.pc = "idle" /\ CallOK(IdleCall)
    BY DEF IdleConsumer, ConsumerFields, NoInit, InitFields, IdleCall, CallRec, CallOK
  <2> QED
    BY <2>1 DEF Init, LocalInv, WorkOK, InitsOK, CallsOK, SharedAtWork, WaitersInv, WaitersServed
<1> QED
  BY <1>1, <1>2, <1>3, <1>4 DEF RoomInv

LEMMA RoomInvStep == ASSUME RoomInv, [Next]_vars PROVE RoomInv'
<1> USE DEF RoomInv
<1>1. RoomOK(room)
  BY DEF RoomKept
<1>2. LocalInv'
  BY <1>1, LocalStep
<1>3. Effect
  BY RoomStep
<1>4. RoomKept(room)'
  BY <1>3 DEF Effect
<1>5. ClockOK' /\ AlarmInv'
  BY <1>3, ClockStep, AlarmStep
<1> QED
  BY <1>2, <1>4, <1>5

LEMMA RoomInvHolds == Spec => []RoomInv
<1>1. Init => RoomInv
  BY RoomInvInit
<1>2. RoomInv /\ [Next]_vars => RoomInv'
  BY RoomInvStep
<1> QED
  BY <1>1, <1>2, PTL DEF Spec

(* Whoever waits for an initialization waits for one that is at work,      *)
(* whatever resets, purges and failing reads come between.                 *)
THEOREM WaitersServedHolds == Spec => []WaitersServed
<1>1. RoomInv => WaitersServed
  BY DEF RoomInv, LocalInv, WaitersInv
<1> QED
  BY <1>1, RoomInvHolds, PTL

(* Nothing comes back into a purged room, and its alarm is on its way.     *)
THEOREM TombstoneEmptyHolds == Spec => []TombstoneEmpty
<1>1. RoomInv => TombstoneEmpty
  BY DEF RoomInv, RoomKept, AlarmInv, TombstoneEmpty
<1> QED
  BY <1>1, RoomInvHolds, PTL

(* The alarm is never later than what the room waits for, no trend misses  *)
(* a value that lasts, and scheduled rules stay within their limit.        *)
THEOREM TimersKeptHolds == Spec => []TimersKept
<1>1. RoomInv => TimersKept
  BY DEF RoomInv, RoomKept, AlarmInv, TimersKept, TrendPending, Trend, ScheduledBounded
<1> QED
  BY <1>1, RoomInvHolds, PTL

-----------------------------------------------------------------------------
(* Sums over finite sets.  A fold takes the elements of a set in the order *)
(* CHOOSE gives them; the lemmas below follow from its recursion equation. *)
Pick(S) == CHOOSE x \in S : TRUE

IsSum(g, f, S) ==
  g = [T \in SUBSET S |-> IF T = {} THEN 0 ELSE f[Pick(T)] + g[T \ {Pick(T)}]]
SumOf(f, S) == (CHOOSE g : IsSum(g, f, S))[S]

(* What holds of a set when it holds of its smaller subsets holds of every *)
(* finite set; and so does what passes to a set from the set without its   *)
(* pick.                                                                   *)
LEMMA SubsetInduction ==
  ASSUME NEW S, IsFiniteSet(S), NEW Q,
         \A T \in SUBSET S : (\A U \in SUBSET T : U # T => U \in Q) => T \in Q
  PROVE  \A T \in SUBSET S : T \in Q
<1> DEFINE Bad == {T \in SUBSET S : T \notin Q}
           Sizes == {Cardinality(T) : T \in Bad}
<1> SUFFICES ASSUME Bad # {} PROVE FALSE
  OBVIOUS
<1>1. \A T \in SUBSET S : IsFiniteSet(T) /\ Cardinality(T) \in Nat
  BY FS_Subset, FS_CardinalityType
<1>2. Sizes # {} /\ Sizes \subseteq Nat
  BY <1>1
<1> PICK n : n = Min(Sizes)
  OBVIOUS
<1>3. n \in Sizes /\ \A y \in Sizes : n <= y
  BY <1>2, LeastNumber
<1>4. PICK T \in Bad : \A U \in Bad : Cardinality(T) <= Cardinality(U)
  BY <1>3
<1>5. PICK U \in SUBSET T : U # T /\ U \notin Q
  BY <1>4
<1>6. U \in Bad
  BY <1>5
<1>7. Cardinality(U) <= Cardinality(T) /\ Cardinality(U) # Cardinality(T)
  BY <1>1, <1>5, FS_Subset
<1> QED
  BY <1>1, <1>4, <1>6, <1>7

LEMMA PickInduction ==
  ASSUME NEW S, IsFiniteSet(S), NEW Q,
         {} \in Q,
         \A T \in SUBSET S : T # {} /\ T \ {Pick(T)} \in Q => T \in Q
  PROVE  \A T \in SUBSET S : T \in Q
<1>1. ASSUME NEW T \in SUBSET S, \A U \in SUBSET T : U # T => U \in Q PROVE T \in Q
  <2>1. CASE T # {}
    <3> PICK p : p = Pick(T)
      OBVIOUS
    <3>1. p \in T
      BY <2>1 DEF Pick
    <3>2. T \ {p} \in Q
      BY <1>1, <3>1
    <3> QED
      BY <2>1, <3>2
  <2> QED
    BY <2>1
<1>2. \A T \in SUBSET S : (\A U \in SUBSET T : U # T => U \in Q) => T \in Q
  BY <1>1
<1> QED
  BY ONLY <1>2, IsFiniteSet(S), SubsetInduction

(* The recursion has a solution: level by level.                           *)
LEMMA SumExists ==
  ASSUME NEW S, IsFiniteSet(S), NEW f
  PROVE  \E g : IsSum(g, f, S)
<1> DEFINE Upto(g, n) == g = [T \in SUBSET S |->
                   IF Cardinality(T) <= n /\ T # {} THEN f[Pick(T)] + g[T \ {Pick(T)}] ELSE 0]
           Fails == {n \in Nat : ~ \E g : Upto(g, n)}
<1>0. \A T \in SUBSET S : /\ IsFiniteSet(T) /\ Cardinality(T) \in Nat
                          /\ Cardinality(T) <= Cardinality(S)
                          /\ Cardinality(T) = 0 <=> T = {}
  BY FS_Subset, FS_CardinalityType, FS_EmptySet
<1>1. ASSUME NEW T \in SUBSET S, T # {}
      PROVE  T \ {Pick(T)} \in SUBSET S /\ Cardinality(T \ {Pick(T)}) = Cardinality(T) - 1
  <2>1. Pick(T) \in T
    BY <1>1 DEF Pick
  <2> QED
    BY <1>0, <2>1, FS_RemoveElement
<1>2. Fails = {}
  <2> SUFFICES ASSUME Fails # {} PROVE FALSE
    OBVIOUS
  <2> PICK n : n = Min(Fails)
    OBVIOUS
  <2>1. n \in Fails /\ \A m \in Fails : n <= m
    BY LeastNumber
  <2> HIDE DEF Fails
  <2>2. n \in Nat
    BY <2>1 DEF Fails
  <2>3. CASE n = 0
    <3> PICK g : g = [T \in SUBSET S |-> 0]
      OBVIOUS
    <3>1. Upto(g, 0)
      BY <1>0
    <3> HIDE DEF Upto
    <3> QED
      BY <2>1, <2>3, <3>1 DEF Fails
  <2>4. CASE n # 0
    <3>1. n - 1 \in Nat /\ n - 1 \notin Fails
      BY <2>1, <2>2, <2>4
    <3>2. PICK g : Upto(g, n - 1)
      BY <3>1 DEF Fails
    <3> DEFINE h == [T \in SUBSET S |->
                       IF Cardinality(T) <= n /\ T # {} THEN f[Pick(T)] + g[T \ {Pick(T)}] ELSE 0]
    <3>3. ASSUME NEW T \in SUBSET S, Cardinality(T) <= n, T # {}
          PROVE  h[T \ {Pick(T)}] = g[T \ {Pick(T)}]
      <4> PICK U : U = T \ {Pick(T)}
        OBVIOUS
      <4>1. U \in SUBSET S /\ Cardinality(U) <= n - 1 /\ Cardinality(U) <= n
        BY <1>0, <1>1, <2>2, <3>3
      <4>2. g[U] = IF Cardinality(U) <= n - 1 /\ U # {} THEN f[Pick(U)] + g[U \ {Pick(U)}] ELSE 0
        BY <3>2, <4>1
      <4>3. h[U] = IF Cardinality(U) <= n /\ U # {} THEN f[Pick(U)] + g[U \ {Pick(U)}] ELSE 0
        BY <4>1
      <4> QED
        BY <4>1, <4>2, <4>3
    <3>4. Upto(h, n)
      <4> SUFFICES ASSUME NEW T \in SUBSET S
                   PROVE  h[T] = IF Cardinality(T) <= n /\ T # {}
                                 THEN f[Pick(T)] + h[T \ {Pick(T)}] ELSE 0
        BY Zenon
      <4> QED
        BY <3>3
    <3> QED
      BY <2>1, <3>4 DEF Fails
  <2> QED
    BY <2>3, <2>4
<1>3. Cardinality(S) \in Nat
  BY FS_CardinalityType
<1>4. PICK g : Upto(g, Cardinality(S))
  BY <1>2, <1>3
<1>5. IsSum(g, f, S)
  BY <1>0, <1>4 DEF IsSum
<1> QED
  BY <1>5

(* The recursion equation.                                                 *)
LEMMA SumEquation ==
  ASSUME NEW g, NEW f, NEW S, IsSum(g, f, S), NEW T \in SUBSET S
  PROVE  g[T] = IF T = {} THEN 0 ELSE f[Pick(T)] + g[T \ {Pick(T)}]
<1>1. g = [U \in SUBSET S |-> IF U = {} THEN 0 ELSE f[Pick(U)] + g[U \ {Pick(U)}]]
  BY DEF IsSum
<1> QED
  BY <1>1, Zenon

(* Sums of functions that agree agree.                                     *)
LEMMA SumAgree ==
  ASSUME NEW f, NEW g, NEW S, IsFiniteSet(S), IsSum(g, f, S),
         NEW e, NEW h, NEW R, IsSum(h, e, R),
         NEW T, T \subseteq S, T \subseteq R, \A x \in T : f[x] = e[x]
  PROVE  g[T] = h[T]
<1> DEFINE Q == {U \in SUBSET T : g[U] = h[U]}
<1>0. IsFiniteSet(T)
  BY FS_Subset
<1>1. {} \in Q
  BY SumEquation
<1>2. ASSUME NEW U \in SUBSET T, U # {}, U \ {Pick(U)} \in Q PROVE U \in Q
  <2>1. Pick(U) \in U
    BY <1>2 DEF Pick
  <2>2. U \in SUBSET S /\ U \in SUBSET R
    OBVIOUS
  <2>3. g[U] = f[Pick(U)] + g[U \ {Pick(U)}]
    BY <1>2, <2>2, SumEquation
  <2>4. h[U] = e[Pick(U)] + h[U \ {Pick(U)}]
    BY <1>2, <2>2, SumEquation
  <2> QED
    BY <1>2, <2>1, <2>3, <2>4
<1>3. T \in Q
  BY <1>0, <1>1, <1>2, PickInduction, Zenon
<1> QED
  BY <1>3

(* SumOf is the sum, whatever larger set the recursion runs over.          *)
LEMMA SumOfIs ==
  ASSUME NEW f, NEW S, IsFiniteSet(S), NEW g, IsSum(g, f, S), NEW T \in SUBSET S
  PROVE  SumOf(f, T) = g[T]
<1>1. IsFiniteSet(T)
  BY FS_Subset
<1>2. PICK h : h = CHOOSE k : IsSum(k, f, T)
  OBVIOUS
<1>3. IsSum(h, f, T)
  BY <1>1, <1>2, SumExists, Zenon
<1>4. g[T] = h[T]
  BY <1>3, SumAgree
<1> QED
  BY <1>2, <1>4 DEF SumOf

LEMMA SumEmpty == ASSUME NEW f PROVE SumOf(f, {}) = 0
<1>1. IsFiniteSet({})
  BY FS_EmptySet
<1>2. PICK g : IsSum(g, f, {})
  BY <1>1, SumExists
<1>3. SumOf(f, {}) = g[{}]
  BY <1>1, <1>2, SumOfIs
<1>4. g[{}] = 0
  BY <1>2, SumEquation
<1> QED
  BY <1>3, <1>4

LEMMA SumSame ==
  ASSUME NEW S, IsFiniteSet(S), NEW f, NEW e, \A x \in S : f[x] = e[x]
  PROVE  SumOf(f, S) = SumOf(e, S)
<1>1. PICK g : IsSum(g, f, S)
  BY SumExists
<1>2. PICK h : IsSum(h, e, S)
  BY SumExists
<1>3. g[S] = h[S]
  BY <1>1, <1>2, SumAgree
<1>4. SumOf(f, S) = g[S] /\ SumOf(e, S) = h[S]
  BY <1>1, <1>2, SumOfIs
<1> QED
  BY <1>3, <1>4

(* A sum of integers is one, of numbers that are not negative too; and any *)
(* element can be taken out of it.                                         *)
LEMMA SumInt ==
  ASSUME NEW S, IsFiniteSet(S), NEW f, \A x \in S : f[x] \in Int
  PROVE  SumOf(f, S) \in Int /\ ((\A x \in S : f[x] >= 0) => SumOf(f, S) >= 0)
<1>1. PICK g : IsSum(g, f, S)
  BY SumExists
<1> DEFINE Q == {U \in SUBSET S : g[U] \in Int /\ ((\A x \in S : f[x] >= 0) => g[U] >= 0)}
<1>2. {} \in Q
  <2>1. {} \in SUBSET S
    OBVIOUS
  <2>2. g[{}] = 0
    BY <1>1, <2>1, SumEquation
  <2> QED
    BY <2>1, <2>2
<1>3. ASSUME NEW U \in SUBSET S, U # {}, U \ {Pick(U)} \in Q PROVE U \in Q
  <2>1. Pick(U) \in U
    BY <1>3 DEF Pick
  <2>2. g[U] = f[Pick(U)] + g[U \ {Pick(U)}]
    BY <1>1, <1>3, SumEquation
  <2>3. f[Pick(U)] \in Int /\ g[U \ {Pick(U)}] \in Int
    BY <1>3, <2>1
  <2> QED
    BY <1>3, <2>1, <2>2, <2>3
<1>4. S \in Q
  BY <1>2, <1>3, PickInduction, Zenon
<1>5. SumOf(f, S) = g[S]
  BY <1>1, SumOfIs
<1> QED
  BY <1>4, <1>5

LEMMA SumTake ==
  ASSUME NEW S, IsFiniteSet(S), NEW f, \A x \in S : f[x] \in Int, NEW y \in S
  PROVE  SumOf(f, S) = f[y] + SumOf(f, S \ {y})
<1>1. PICK g : IsSum(g, f, S)
  BY SumExists
<1>2. \A U \in SUBSET S : SumOf(f, U) = g[U]
  BY <1>1, SumOfIs
<1>3. \A U \in SUBSET S : g[U] \in Int
  <2> TAKE U \in SUBSET S
  <2>1. IsFiniteSet(U)
    BY FS_Subset
  <2>2. SumOf(f, U) \in Int
    BY <2>1, SumInt
  <2> QED
    BY <1>2, <2>2
<1> DEFINE Q == {U \in SUBSET S : \A x \in U : g[U] = f[x] + g[U \ {x}]}
<1>4. ASSUME NEW T \in SUBSET S, \A U \in SUBSET T : U # T => U \in Q PROVE T \in Q
  <2> SUFFICES ASSUME NEW x \in T PROVE g[T] = f[x] + g[T \ {x}]
    OBVIOUS
  <2> PICK p : p = Pick(T)
    OBVIOUS
  <2>1. p \in T
    BY DEF Pick
  <2>2. g[T] = f[p] + g[T \ {p}]
    BY <1>1, SumEquation
  <2>3. CASE x = p
    BY <2>2, <2>3
  <2>4. CASE x # p
    <3> PICK R : R = T \ {p, x}
      OBVIOUS
    <3>1. g[T \ {p}] = f[x] + g[R]
      <4>1. T \ {p} \in Q /\ x \in T \ {p} /\ (T \ {p}) \ {x} = R
        BY <1>4, <2>1, <2>4
      <4> QED
        BY <4>1
    <3>2. g[T \ {x}] = f[p] + g[R]
      <4>1. T \ {x} \in Q /\ p \in T \ {x} /\ (T \ {x}) \ {p} = R
        BY <1>4, <2>1, <2>4
      <4> QED
        BY <4>1
    <3>3. f[p] \in Int /\ f[x] \in Int /\ g[R] \in Int
      BY <1>3, <2>1
    <3> QED
      BY <2>2, <3>1, <3>2, <3>3
  <2> QED
    BY <2>3, <2>4
<1>5. \A T \in SUBSET S : (\A U \in SUBSET T : U # T => U \in Q) => T \in Q
  BY <1>4
<1> HIDE DEF Q
<1>6. \A T \in SUBSET S : T \in Q
  BY ONLY <1>5, IsFiniteSet(S), SubsetInduction
<1>7. S \in Q
  BY <1>6
<1> QED
  BY <1>2, <1>7 DEF Q

-----------------------------------------------------------------------------
(* KPIs.  What is computed over a cache, in terms of sums ...              *)
Caches == [Rids -> Objects \cup {None}]
Counted(cache) == {r \in Rids : Contribution(cache[r]) # None}
Worth(cache) == [r \in Rids |-> OrZero(Contribution(cache[r]))]

LEMMA Contributes ==
  ASSUME NEW o \in Objects \cup {None}
  PROVE  /\ Contribution(o) \in (1 .. 2) \cup {None}
         /\ OrZero(Contribution(o)) \in 0 .. 2
         /\ Contribution(o) # None => Contribution(o) = o.p /\ OrZero(Contribution(o)) = o.p
BY RoomAssumption DEF Contribution, OrZero

LEMMA TotalIsSum ==
  ASSUME NEW cache, NEW rs
  PROVE  MapThenSumSet(LAMBDA r : cache[r].p, rs) = SumOf([r \in rs |-> cache[r].p], rs)
BY DEF MapThenSumSet, MapThenFoldSet, SumOf, IsSum, Pick

LEMMA KpiIs ==
  ASSUME NEW cache \in Caches, NEW k, NEW full, full = ComputeKpi(k, cache)
  PROVE  /\ IsFiniteSet(Counted(cache))
         /\ full.cnt = Cardinality(Counted(cache)) /\ full.cnt \in Nat
         /\ full.total = SumOf(Worth(cache), Counted(cache)) /\ full.total \in Int
         /\ full.value = IF k = "sum" THEN full.total
                         ELSE IF k = "max" /\ Counted(cache) = {} THEN None
                         ELSE Max({cache[r].p : r \in Counted(cache)})
<1> PICK rs : rs = Counted(cache)
  OBVIOUS
<1>1. rs \subseteq Rids /\ rs = {r \in Rids : Contribution(cache[r]) # None}
  BY DEF Counted
<1>2. IsFiniteSet(rs)
  BY <1>1, RoomAssumption, FS_Subset
<1> PICK f : f = [r \in rs |-> cache[r].p]
  OBVIOUS
<1>3. MapThenSumSet(LAMBDA r : cache[r].p, rs) = SumOf(f, rs)
  <2>1. MapThenSumSet(LAMBDA r : cache[r].p, rs) = SumOf([r \in rs |-> cache[r].p], rs)
    BY TotalIsSum
  <2> QED
    BY <2>1, Zenon
<1>4. \A r \in rs : f[r] = Worth(cache)[r] /\ f[r] \in Int
  <2> TAKE r \in rs
  <2>1. cache[r] \in Objects \cup {None} /\ Contribution(cache[r]) # None
    BY <1>1 DEF Caches
  <2>2. OrZero(Contribution(cache[r])) = cache[r].p /\ OrZero(Contribution(cache[r])) \in Int
    BY <2>1, Contributes
  <2> QED
    BY <1>1, <2>2 DEF Worth
<1>5. SumOf(f, rs) = SumOf(Worth(cache), rs) /\ SumOf(f, rs) \in Int
  BY <1>2, <1>4, SumSame, SumInt
<1>6. /\ full.cnt = Cardinality(rs)
      /\ full.total = MapThenSumSet(LAMBDA r : cache[r].p, rs)
      /\ full.value = IF k = "sum" THEN full.total
                      ELSE IF k = "max" /\ rs = {} THEN None
                      ELSE Max({cache[r].p : r \in rs})
  BY <1>1 DEF ComputeKpi
<1> QED
  BY <1>2, <1>3, <1>5, <1>6, FS_CardinalityType

(* ... and what a KPI keeps step by step.  The total of a maximum is not   *)
(* kept: a change that leaves value and count leaves the stored total.     *)
ExactFor(k, st, cache) ==
  LET full == ComputeKpi(k, cache) IN
  /\ st \in KpiStates
  /\ st.value = full.value /\ st.cnt = full.cnt
  /\ k = "sum" => st.total = full.total

LEMMA Greatest ==
  ASSUME NEW S, S \subseteq 1 .. 2, S # {}
  PROVE  /\ Max(S) \in S /\ \A y \in S : Max(S) >= y
         /\ \A m \in S : (\A y \in S : m >= y) => m = Max(S)
<1>1. \E m \in S : \A y \in S : m >= y
  <2>1. CASE 2 \in S
    BY <2>1
  <2>2. CASE 2 \notin S
    <3>1. \A y \in S : y = 1
      BY <2>2
    <3>2. PICK m : m \in S
      OBVIOUS
    <3> QED
      BY <3>1, <3>2
  <2> QED
    BY <2>1, <2>2
<1> PICK x : x = Max(S)
  OBVIOUS
<1>2. x \in S /\ \A y \in S : x >= y
  BY <1>1 DEF Max
<1>3. ASSUME NEW m \in S, \A y \in S : m >= y PROVE m = x
  <2>1. m >= x /\ x >= m /\ m \in 1 .. 2 /\ x \in 1 .. 2
    BY <1>2, <1>3
  <2> QED
    BY <2>1
<1> QED
  BY <1>2, <1>3

(* Count and total after one object changed.                               *)
Changes(r, b, a, cache, next) ==
  /\ Counted(next) \ {r} = Counted(cache) \ {r}
  /\ r \in Counted(cache) <=> b # None
  /\ r \in Counted(next) <=> a # None
  /\ Cardinality(Counted(next)) = Cardinality(Counted(cache)) + Counts(a) - Counts(b)
  /\ SumOf(Worth(next), Counted(next))
       = SumOf(Worth(cache), Counted(cache)) + OrZero(a) - OrZero(b)

LEMMA OneChange ==
  ASSUME NEW cache \in Caches, NEW r \in Rids, NEW o \in Objects \cup {None},
         NEW next, next = [cache EXCEPT ![r] = o],
         NEW b, b = Contribution(cache[r]), NEW a, a = Contribution(o)
  PROVE  next \in Caches /\ Changes(r, b, a, cache, next)
<1>1. next \in Caches /\ next[r] = o /\ \A x \in Rids \ {r} : next[x] = cache[x]
  BY DEF Caches
<1> PICK C : C = Counted(cache)
  OBVIOUS
<1> PICK D : D = Counted(next)
  OBVIOUS
<1> PICK R : R = C \ {r}
  OBVIOUS
<1> PICK w : w = Worth(cache)
  OBVIOUS
<1> PICK v : v = Worth(next)
  OBVIOUS
<1>2. D \ {r} = R /\ (r \in C <=> b # None) /\ (r \in D <=> a # None)
  BY <1>1 DEF Counted
<1>3. IsFiniteSet(C) /\ IsFiniteSet(D) /\ IsFiniteSet(R)
  BY <1>1, KpiIs, FS_RemoveElement
<1>4. /\ w[r] = OrZero(b) /\ v[r] = OrZero(a) /\ OrZero(a) \in Int /\ OrZero(b) \in Int
      /\ \A x \in Rids : w[x] \in Int /\ v[x] \in Int
      /\ \A x \in R : w[x] = v[x]
  <2>1. \A x \in Rids : cache[x] \in Objects \cup {None} /\ next[x] \in Objects \cup {None}
    BY <1>1 DEF Caches
  <2>2. \A x \in Rids : w[x] = OrZero(Contribution(cache[x])) /\ v[x] = OrZero(Contribution(next[x]))
    BY DEF Worth
  <2>3. \A x \in Objects \cup {None} : OrZero(Contribution(x)) \in Int
    BY Contributes
  <2>4. \A x \in Rids : w[x] \in Int /\ v[x] \in Int
    BY <2>1, <2>2, <2>3
  <2>5. R \subseteq Rids \ {r}
    BY DEF Counted
  <2>6. \A x \in R : w[x] = v[x]
    <3> TAKE x \in R
    <3>1. x \in Rids /\ next[x] = cache[x]
      BY <1>1, <2>5
    <3>2. w[x] = OrZero(Contribution(cache[x])) /\ v[x] = OrZero(Contribution(next[x]))
      BY <2>2, <3>1
    <3> QED
      BY <3>1, <3>2, Zenon
  <2>7. w[r] = OrZero(b) /\ v[r] = OrZero(a)
    BY <1>1, <2>2
  <2> QED
    BY <2>4, <2>6, <2>7
<1>5. C \subseteq Rids /\ D \subseteq Rids /\ R \subseteq Rids
  BY DEF Counted
<1>6. /\ Cardinality(C) = Cardinality(R) + Counts(b)
      /\ Cardinality(D) = Cardinality(R) + Counts(a)
      /\ Cardinality(R) \in Nat /\ Counts(a) \in Nat /\ Counts(b) \in Nat
  <2>1. Cardinality(R) \in Nat /\ Cardinality(C) \in Nat /\ Cardinality(D) \in Nat
    BY <1>3, FS_CardinalityType
  <2>2. Cardinality(R) = IF r \in C THEN Cardinality(C) - 1 ELSE Cardinality(C)
    BY <1>3, FS_RemoveElement
  <2>3. Cardinality(R) = IF r \in D THEN Cardinality(D) - 1 ELSE Cardinality(D)
    <3>1. R = D \ {r} /\ IsFiniteSet(D)
      BY <1>2, <1>3
    <3> QED
      BY ONLY <3>1, FS_RemoveElement
  <2>4. Counts(b) = (IF r \in C THEN 1 ELSE 0) /\ Counts(a) = (IF r \in D THEN 1 ELSE 0)
    BY <1>2 DEF Counts
  <2> QED
    BY ONLY <2>1, <2>2, <2>3, <2>4
<1>0. OrZero(None) = 0
  BY DEF OrZero
<1>7. SumOf(w, C) = SumOf(w, R) + OrZero(b) /\ SumOf(w, R) \in Int
  <2>1. SumOf(w, R) \in Int
    BY <1>3, <1>4, <1>5, SumInt
  <2>2. CASE r \in C
    <3>1. SumOf(w, C) = w[r] + SumOf(w, R)
      BY <1>3, <1>4, <1>5, <2>2, SumTake
    <3> QED
      BY <1>4, <2>1, <3>1
  <2>3. CASE r \notin C
    <3>1. SumOf(w, C) = SumOf(w, R) /\ OrZero(b) = 0
      BY <1>0, <1>2, <2>3
    <3> QED
      BY <2>1, <3>1
  <2> QED
    BY <2>1, <2>2, <2>3
<1>8. SumOf(v, D) = SumOf(v, R) + OrZero(a) /\ SumOf(v, R) \in Int
  <2>1. SumOf(v, R) \in Int
    BY <1>3, <1>4, <1>5, SumInt
  <2>2. CASE r \in D
    <3>1. \A x \in D : v[x] \in Int
      BY <1>4, <1>5
    <3>2. SumOf(v, D) = v[r] + SumOf(v, D \ {r})
      BY ONLY <1>3, <2>2, <3>1, SumTake
    <3>3. D \ {r} = R /\ v[r] = OrZero(a) /\ OrZero(a) \in Int
      BY <1>2, <1>4
    <3>4. SumOf(v, D) = v[r] + SumOf(v, R)
      BY ONLY <3>2, <3>3
    <3> QED
      BY ONLY <2>1, <3>4, <3>3
  <2>3. CASE r \notin D
    <3>1. SumOf(v, D) = SumOf(v, R) /\ OrZero(a) = 0
      BY <1>0, <1>2, <2>3
    <3> QED
      BY <2>1, <3>1
  <2> QED
    BY <2>1, <2>2, <2>3
<1>9. SumOf(w, R) = SumOf(v, R)
  BY <1>3, <1>4, SumSame
<1>10. /\ Cardinality(D) = Cardinality(C) + Counts(a) - Counts(b)
       /\ SumOf(v, D) = SumOf(w, C) + OrZero(a) - OrZero(b)
  BY <1>4, <1>6, <1>7, <1>8, <1>9
<1> QED
  BY <1>1, <1>2, <1>10 DEF Changes

(* A KPI that was exact is exact after applyKpiDelta.                      *)
LEMMA DeltaExact ==
  ASSUME NEW cache \in Caches, NEW r \in Rids, NEW o \in Objects \cup {None},
         NEW next, next = [cache EXCEPT ![r] = o],
         NEW k \in Kpis, NEW st, ExactFor(k, st, cache),
         NEW t, t = ApplyDelta(k, st, Contribution(cache[r]), Contribution(o), next)
  PROVE  ExactFor(k, t, next)
<1>b. PICK b : b = Contribution(cache[r])
  OBVIOUS
<1>a. PICK a : a = Contribution(o)
  OBVIOUS
<1>C. PICK C : C = Counted(cache)
  OBVIOUS
<1>D. PICK D : D = Counted(next)
  OBVIOUS
<1>old. PICK old : old = ComputeKpi(k, cache)
  OBVIOUS
<1>new. PICK new : new = ComputeKpi(k, next)
  OBVIOUS
<1>1. /\ next \in Caches /\ D \ {r} = C \ {r}
      /\ r \in C <=> b # None
      /\ r \in D <=> a # None
      /\ Cardinality(D) = Cardinality(C) + Counts(a) - Counts(b)
      /\ SumOf(Worth(next), D) = SumOf(Worth(cache), C) + OrZero(a) - OrZero(b)
  <2>1. next \in Caches /\ Changes(r, b, a, cache, next)
    BY <1>a, <1>b, OneChange
  <2> QED
    BY <1>C, <1>D, <2>1 DEF Changes
<1>2. /\ a \in (1 .. 2) \cup {None} /\ b \in (1 .. 2) \cup {None}
      /\ OrZero(a) \in 0 .. 2 /\ OrZero(b) \in 0 .. 2
      /\ Counts(a) \in 0 .. 1 /\ Counts(b) \in 0 .. 1
      /\ a # None => a = o.p /\ OrZero(a) = a
      /\ b # None => b = cache[r].p /\ OrZero(b) = b
  <2>1. cache[r] \in Objects \cup {None}
    BY DEF Caches
  <2>2. Counts(a) \in 0 .. 1 /\ Counts(b) \in 0 .. 1
    BY DEF Counts
  <2>3. /\ a \in (1 .. 2) \cup {None} /\ OrZero(a) \in 0 .. 2
        /\ a # None => a = o.p /\ OrZero(a) = a
    BY <1>a, Contributes
  <2>4. /\ b \in (1 .. 2) \cup {None} /\ OrZero(b) \in 0 .. 2
        /\ b # None => b = cache[r].p /\ OrZero(b) = b
    BY <1>b, <2>1, Contributes
  <2> QED
    BY <2>2, <2>3, <2>4
<1>3. /\ old.cnt = Cardinality(C) /\ old.cnt \in Nat /\ IsFiniteSet(C)
      /\ old.total = SumOf(Worth(cache), C) /\ old.total \in Int
      /\ old.value = IF k = "sum" THEN old.total
                     ELSE IF k = "max" /\ C = {} THEN None
                     ELSE Max({cache[x].p : x \in C})
  BY <1>C, <1>old, KpiIs
<1>4. /\ new.cnt = Cardinality(D) /\ new.cnt \in Nat /\ IsFiniteSet(D)
      /\ new.total = SumOf(Worth(next), D) /\ new.total \in Int
      /\ new.value = IF k = "sum" THEN new.total
                     ELSE IF k = "max" /\ D = {} THEN None
                     ELSE Max({next[x].p : x \in D})
  <2>1. next \in Caches
    BY <1>1
  <2> QED
    BY <1>D, <1>new, <2>1, KpiIs
<1>5. /\ st \in KpiStates /\ st.value = old.value /\ st.cnt = old.cnt
      /\ k = "sum" => st.total = old.total
  BY <1>old DEF ExactFor
<1>6. st.cnt \in Nat /\ st.total \in Int /\ st.value \in Int \cup {None}
  BY <1>5 DEF KpiStates
<1>P. PICK P : P = {cache[x].p : x \in C \ {r}}
  OBVIOUS
<1>7. /\ P \subseteq 1 .. 2
      /\ {cache[x].p : x \in C} = P \cup (IF b # None THEN {b} ELSE {})
      /\ {next[x].p : x \in D} = P \cup (IF a # None THEN {a} ELSE {})
  <2>1. \A x \in C : x \in Rids /\ cache[x] \in Objects
    BY <1>C DEF Counted, Contribution, Caches
  <2>2. P \subseteq 1 .. 2
    BY <1>P, <2>1, RoomAssumption
  <2>3. \A x \in Rids \ {r} : next[x] = cache[x]
    BY DEF Caches
  <2>4. next[r] = o
    BY DEF Caches
  <2>5. {cache[x].p : x \in C} = P \cup (IF b # None THEN {b} ELSE {})
    BY <1>1, <1>2, <1>P
  <2>6. P = {next[x].p : x \in D \ {r}}
    BY <1>1, <1>P, <2>1, <2>3
  <2>7. {next[x].p : x \in D} = P \cup (IF a # None THEN {a} ELSE {})
    BY <1>1, <1>2, <2>4, <2>6
  <2> QED
    BY <2>2, <2>5, <2>7
<1> DEFINE cnt == st.cnt + Counts(a) - Counts(b)
           total == st.total + OrZero(a) - OrZero(b)
           with(v) == [cnt |-> cnt, total |-> total, value |-> v]
<1>8. cnt = new.cnt /\ cnt \in Nat /\ total \in Int /\ (k = "sum" => total = new.total)
  BY <1>1, <1>2, <1>3, <1>4, <1>5, <1>6
<1>9. \A v \in Int \cup {None} : with(v) \in KpiStates /\ with(v).cnt = cnt
                                 /\ with(v).total = total /\ with(v).value = v
  BY <1>8 DEF KpiStates
<1>10. t = CASE b = a -> st
             [] b # a /\ k = "sum" -> with(total)
             [] b # a /\ k = "max" /\ cnt = 0 -> with(None)
             [] OTHER ->
                  IF b # None /\ st.value # None /\ b = st.value /\ (a = None \/ b > OrZero(a))
                  THEN new
                  ELSE with(IF a # None /\ (st.value = None \/ a > OrZero(st.value))
                            THEN a ELSE st.value)
  BY <1>a, <1>b, <1>new DEF ApplyDelta
<1> HIDE DEF with, cnt, total
<1>11. k = "sum" \/ k = "max"
  BY DEF Kpis
<1>12. new \in KpiStates
  <2>1. new.value \in Int \cup {None}
    <3>1. CASE k = "sum"
      BY <1>4, <3>1
    <3>2. CASE k = "max" /\ D = {}
      BY <1>4, <3>2
    <3>3. CASE k = "max" /\ D # {}
      <4> PICK S : S = {next[x].p : x \in D}
        OBVIOUS
      <4>0. (IF a # None THEN {a} ELSE {}) \subseteq 1 .. 2
        BY <1>2
      <4>1. S \subseteq 1 .. 2 /\ S # {}
        <5>1. S = P \cup (IF a # None THEN {a} ELSE {}) /\ P \subseteq 1 .. 2
          BY <1>7
        <5>2. S # {}
          BY <3>3
        <5> QED
          BY ONLY <4>0, <5>1, <5>2
      <4>2. Max(S) \in S
        BY <4>1, Greatest
      <4>3. new.value = Max(S)
        BY <1>4, <3>3
      <4> QED
        BY <4>1, <4>2, <4>3
    <3> QED
      BY <1>11, <3>1, <3>2, <3>3
  <2>2. new = [cnt |-> new.cnt, total |-> new.total, value |-> new.value]
    BY <1>new DEF ComputeKpi
  <2> QED
    BY <1>4, <2>1, <2>2 DEF KpiStates
<1> SUFFICES /\ t \in KpiStates /\ t.value = new.value /\ t.cnt = new.cnt
             /\ k = "sum" => t.total = new.total
  BY <1>new DEF ExactFor
<1>13. CASE b = a
  <2>1. t = st
    BY <1>10, <1>13
  <2>2. cnt = st.cnt /\ total = st.total
    BY <1>2, <1>6, <1>13 DEF cnt, total
  <2>3. D = C
    BY <1>1, <1>13
  <2>4. {next[x].p : x \in D} = {cache[x].p : x \in C}
    BY <1>7, <1>13
  <2>5. k = "max" => new.value = old.value
    BY <1>3, <1>4, <2>3, <2>4
  <2>6. k = "sum" => new.value = new.total /\ new.total = old.total /\ old.value = old.total
    BY <1>3, <1>4, <1>5, <1>8, <2>2
  <2> QED
    BY <1>5, <1>8, <1>11, <2>1, <2>2, <2>5, <2>6
<1>14. CASE b # a /\ k = "sum"
  <2>1. t = with(total)
    BY <1>10, <1>14
  <2> QED
    BY <1>4, <1>8, <1>9, <1>14, <2>1
<1>15. CASE b # a /\ k = "max" /\ cnt = 0
  <2>1. t = with(None)
    BY <1>10, <1>15
  <2>2. D = {}
    BY <1>4, <1>8, <1>15, FS_EmptySet
  <2> QED
    BY <1>4, <1>8, <1>9, <1>15, <2>1, <2>2
<1>16. CASE b # a /\ k = "max" /\ cnt # 0
  <2>1. t = IF b # None /\ st.value # None /\ b = st.value /\ (a = None \/ b > OrZero(a))
            THEN new
            ELSE with(IF a # None /\ (st.value = None \/ a > OrZero(st.value))
                      THEN a ELSE st.value)
    BY <1>10, <1>16
  <2>2. CASE b # None /\ st.value # None /\ b = st.value /\ (a = None \/ b > OrZero(a))
    BY <1>12, <1>16, <2>1, <2>2
  <2>3. CASE ~ (b # None /\ st.value # None /\ b = st.value /\ (a = None \/ b > OrZero(a)))
    <3> PICK v : v = IF a # None /\ (st.value = None \/ a > OrZero(st.value)) THEN a ELSE st.value
      OBVIOUS
    <3>1. t = with(v) /\ v \in Int \cup {None}
      BY <1>2, <1>6, <2>1, <2>3
    <3>2. D # {}
      BY <1>4, <1>8, <1>16, FS_EmptySet
    <3> PICK S : S = {next[x].p : x \in D}
      OBVIOUS
    <3> PICK R : R = {cache[x].p : x \in C}
      OBVIOUS
    <3>3. S \subseteq 1 .. 2 /\ S # {} /\ S = P \cup (IF a # None THEN {a} ELSE {})
      <4>0. (IF a # None THEN {a} ELSE {}) \subseteq 1 .. 2
        BY <1>2
      <4>1. S = P \cup (IF a # None THEN {a} ELSE {}) /\ P \subseteq 1 .. 2
        BY <1>7
      <4>2. S # {}
        BY <3>2
      <4> QED
        BY ONLY <4>0, <4>1, <4>2
    <3>4. new.value = Max(S)
      BY <1>4, <1>16, <3>2
    <3>5. R \subseteq 1 .. 2 /\ R = P \cup (IF b # None THEN {b} ELSE {}) /\ (R = {} <=> C = {})
      <4>1. R \subseteq 1 .. 2 /\ R = P \cup (IF b # None THEN {b} ELSE {})
        BY <1>2, <1>7
      <4> QED
        BY <4>1
    <3>6. /\ st.value = None => R = {}
          /\ st.value # None => st.value \in R /\ \A y \in R : st.value >= y
      <4>1. st.value = IF C = {} THEN None ELSE Max(R)
        BY <1>3, <1>5, <1>16
      <4>2. R # {} => Max(R) \in R /\ \A y \in R : Max(R) >= y
        BY <3>5, Greatest
      <4>3. R # {} => Max(R) # None
        <5> PICK m : m = Max(R)
          OBVIOUS
        <5>1. m \in 1 .. 2 => m # None
          BY RoomAssumption
        <5> QED
          BY <3>5, <4>2, <5>1
      <4> QED
        BY <3>5, <4>1, <4>2, <4>3
    <3>7. v \in S /\ \A y \in S : v >= y
      <4> PICK w : w = st.value
        OBVIOUS
      <4>1. \A x \in 1 .. 2 : OrZero(x) = x /\ x # None
        BY RoomAssumption DEF OrZero
      <4>2. CASE w = None
        <5>1. P = {} /\ a # None /\ v = a
          BY <1>2, <3>3, <3>5, <3>6, <4>2
        <5>2. S = {a}
          BY <3>3, <5>1
        <5>3. a \in 1 .. 2
          BY <3>3, <5>2
        <5> QED
          BY ONLY <5>1, <5>2, <5>3
      <4>3. CASE w # None
        <5>1. w \in R /\ w \in 1 .. 2 /\ OrZero(w) = w /\ \A y \in R : w >= y
          BY <3>5, <3>6, <4>1, <4>3
        <5>2. CASE a # None /\ a > w
          <6>1. v = a
            BY <5>1, <5>2
          <6>2. \A y \in P : a >= y
            BY <1>2, <1>7, <3>5, <5>1, <5>2
          <6> QED
            BY <1>2, <3>3, <5>2, <6>1, <6>2
        <5>3. CASE ~ (a # None /\ a > w)
          <6>1. v = w
            BY <4>3, <5>1, <5>3
          <6>2. w \in S
            <7>1. CASE w \in P
              BY <3>3, <7>1
            <7>2. CASE w \notin P
              <8>1. b # None /\ b = w
                BY <3>5, <5>1, <7>2
              <8>2. a # None /\ ~ (b > a)
                BY <1>2, <2>3, <4>3, <8>1
              <8>3. a = w
                BY <1>2, <5>1, <5>3, <8>1, <8>2
              <8> QED
                BY <3>3, <8>2, <8>3
            <7> QED
              BY <7>1, <7>2
          <6>3. \A y \in S : w >= y
            <7> TAKE y \in S
            <7>1. y \in P \/ (a # None /\ y = a)
              BY <3>3
            <7>2. y \in P => y \in R
              BY <3>5
            <7>3. y \in 1 .. 2
              BY <3>3
            <7> QED
              BY <5>1, <5>3, <7>1, <7>2, <7>3
          <6> QED
            BY <6>1, <6>2, <6>3
        <5> QED
          BY <5>2, <5>3
      <4> QED
        BY <4>2, <4>3
    <3>8. v = Max(S)
      BY <3>3, <3>7, Greatest
    <3> QED
      BY <1>8, <1>9, <1>16, <3>1, <3>4, <3>8
  <2> QED
    BY <2>2, <2>3
<1> QED
  BY <1>11, <1>13, <1>14, <1>15, <1>16

(* The objects of some events become current one by one: a fold, whose     *)
(* recursion has a solution, level by level as for sums.                   *)
TrackStep(s, cur, r, acc) ==
  LET before == acc.cache[r]
      cache == [acc.cache EXCEPT ![r] = cur[r]]
      next == [k \in DOMAIN s.kpi |->
                 ApplyDelta(k, acc.kpi[k], Contribution(before), Contribution(cur[r]), cache)]
  IN [cache |-> cache, kpi |-> next,
      changed |-> acc.changed \cup
         {k \in DOMAIN s.kpi : next[k].value # acc.kpi[k].value
                               \/ next[k].cnt # acc.kpi[k].cnt}]
TrackBase(s) == [cache |-> s.cache, kpi |-> s.kpi, changed |-> {}]

IsTrack(g, s, cur, rs) ==
  g = [T \in SUBSET rs |-> IF T = {} THEN TrackBase(s)
                           ELSE TrackStep(s, cur, Pick(T), g[T \ {Pick(T)}])]

LEMMA TrackedIs ==
  ASSUME NEW s, NEW cur, NEW rs
  PROVE  Tracked(s, cur, rs) = (CHOOSE g : IsTrack(g, s, cur, rs))[rs]
BY DEF Tracked, FoldSet, MapThenFoldSet, IsTrack, TrackStep, TrackBase, Pick

LEMMA TrackExists ==
  ASSUME NEW rs, IsFiniteSet(rs), NEW s, NEW cur
  PROVE  \E g : IsTrack(g, s, cur, rs)
<1> DEFINE Next1(T, old) == IF T = {} THEN TrackBase(s) ELSE TrackStep(s, cur, Pick(T), old)
           Upto(g, n) == g = [T \in SUBSET rs |->
                   IF Cardinality(T) <= n THEN Next1(T, g[T \ {Pick(T)}]) ELSE 0]
           Fails == {n \in Nat : ~ \E g : Upto(g, n)}
<1>0. \A T \in SUBSET rs : /\ IsFiniteSet(T) /\ Cardinality(T) \in Nat
                           /\ Cardinality(T) <= Cardinality(rs)
                           /\ Cardinality(T) = 0 <=> T = {}
  BY FS_Subset, FS_CardinalityType, FS_EmptySet
<1>1. ASSUME NEW T \in SUBSET rs, T # {}
      PROVE  T \ {Pick(T)} \in SUBSET rs /\ Cardinality(T \ {Pick(T)}) = Cardinality(T) - 1
  <2>1. Pick(T) \in T
    BY <1>1 DEF Pick
  <2> QED
    BY <1>0, <2>1, FS_RemoveElement
<1>2. \A x, y : Next1({}, x) = Next1({}, y)
  OBVIOUS
<1> HIDE DEF Next1
<1>3. Fails = {}
  <2> SUFFICES ASSUME Fails # {} PROVE FALSE
    OBVIOUS
  <2>1. PICK n : n \in Fails /\ \A m \in Fails : n <= m
    BY LeastNumber
  <2> HIDE DEF Fails
  <2>2. n \in Nat
    BY <2>1 DEF Fails
  <2>3. CASE n = 0
    <3>1. PICK g : g = [T \in SUBSET rs |->
                     IF Cardinality(T) <= 0 THEN Next1(T, 0) ELSE 0]
      OBVIOUS
    <3>2. Upto(g, 0)
      <4> SUFFICES [T \in SUBSET rs |-> IF Cardinality(T) <= 0 THEN Next1(T, 0) ELSE 0]
             = [T \in SUBSET rs |->
                  IF Cardinality(T) <= 0 THEN Next1(T, g[T \ {Pick(T)}]) ELSE 0]
        BY <3>1, Zenon
      <4>1. \A T \in SUBSET rs : Cardinality(T) <= 0 => T = {}
        BY <1>0
      <4>2. \A T \in SUBSET rs : Cardinality(T) <= 0 =>
              Next1(T, 0) = Next1(T, g[T \ {Pick(T)}])
        BY <1>2, <4>1, Zenon
      <4> QED
        BY <4>2, Zenon
    <3> HIDE DEF Upto
    <3> QED
      BY <2>1, <2>3, <3>2 DEF Fails
  <2>4. CASE n # 0
    <3>1. n - 1 \in Nat /\ n - 1 \notin Fails
      BY <2>1, <2>2, <2>4
    <3>2. PICK g : Upto(g, n - 1)
      BY <3>1 DEF Fails
    <3> DEFINE h == [T \in SUBSET rs |->
                       IF Cardinality(T) <= n THEN Next1(T, g[T \ {Pick(T)}]) ELSE 0]
    <3>3. ASSUME NEW T \in SUBSET rs, Cardinality(T) <= n, T # {}
          PROVE  h[T \ {Pick(T)}] = g[T \ {Pick(T)}]
      <4>0. PICK U : U = T \ {Pick(T)}
        OBVIOUS
      <4>1. U \in SUBSET rs /\ Cardinality(U) <= n - 1 /\ Cardinality(U) <= n
        BY <1>0, <1>1, <2>2, <3>3, <4>0
      <4>2. g[U] = IF Cardinality(U) <= n - 1 THEN Next1(U, g[U \ {Pick(U)}]) ELSE 0
        BY <3>2, <4>1, Zenon
      <4>3. h[U] = IF Cardinality(U) <= n THEN Next1(U, g[U \ {Pick(U)}]) ELSE 0
        BY <4>1, Zenon
      <4> QED
        BY <4>0, <4>1, <4>2, <4>3
    <3>4. Upto(h, n)
      <4> SUFFICES ASSUME NEW T \in SUBSET rs
                   PROVE  h[T] = IF Cardinality(T) <= n THEN Next1(T, h[T \ {Pick(T)}]) ELSE 0
        BY Zenon
      <4>1. CASE T = {}
        BY <1>2, <4>1, Zenon
      <4>2. CASE T # {}
        BY <3>3, <4>2, Zenon
      <4> QED
        BY <4>1, <4>2
    <3> HIDE DEF Upto
    <3> QED
      BY <2>1, <3>4 DEF Fails
  <2> QED
    BY <2>3, <2>4
<1>4. Cardinality(rs) \in Nat
  BY FS_CardinalityType
<1>5. PICK g : Upto(g, Cardinality(rs))
  BY <1>3, <1>4
<1>6. g = [T \in SUBSET rs |-> Next1(T, g[T \ {Pick(T)}])]
  BY <1>0, <1>5, Zenon
<1> QED
  BY <1>6, Zenon DEF Next1, IsTrack

(* What the fold keeps: the cache is the old one with the new objects, and *)
(* every KPI is exact for it.                                              *)
Tracks(s, cur, T, acc) ==
  /\ acc.cache = [r \in Rids |-> IF r \in T THEN cur[r] ELSE s.cache[r]]
  /\ acc.kpi = [k \in DOMAIN s.kpi |-> acc.kpi[k]]
  /\ \A k \in DOMAIN s.kpi : ExactFor(k, acc.kpi[k], acc.cache)
  /\ acc.changed \subseteq DOMAIN s.kpi
  /\ \A k \in DOMAIN s.kpi \ acc.changed :
        acc.kpi[k].value = s.kpi[k].value /\ acc.kpi[k].cnt = s.kpi[k].cnt

LEMMA TrackOne ==
  ASSUME NEW s, NEW cur, cur \in Caches, s.cache \in Caches, DOMAIN s.kpi \subseteq Kpis,
         NEW T, T \subseteq Rids, NEW r \in Rids, r \notin T,
         NEW acc, Tracks(s, cur, T, acc), NEW t, t = TrackStep(s, cur, r, acc)
  PROVE  Tracks(s, cur, T \cup {r}, t)
<1>1. PICK o : o = cur[r]
  OBVIOUS
<1>2. PICK cache : cache = acc.cache
  OBVIOUS
<1>3. cache \in Caches /\ o \in Objects \cup {None}
  BY <1>1, <1>2 DEF Tracks, Caches
<1>4. PICK after : after = [cache EXCEPT ![r] = o]
  OBVIOUS
<1>5. after = [x \in Rids |-> IF x \in T \cup {r} THEN cur[x] ELSE s.cache[x]]
  BY <1>1, <1>2, <1>4 DEF Tracks
<1>6. PICK next : next = [k \in DOMAIN s.kpi |->
                 ApplyDelta(k, acc.kpi[k], Contribution(cache[r]), Contribution(o), after)]
  OBVIOUS
<1>7. /\ t.cache = after /\ t.kpi = next
      /\ t.changed = acc.changed \cup {k \in DOMAIN s.kpi : next[k].value # acc.kpi[k].value
                                                         \/ next[k].cnt # acc.kpi[k].cnt}
  <2>1. t = [cache |-> after, kpi |-> next,
             changed |-> acc.changed \cup {k \in DOMAIN s.kpi : next[k].value # acc.kpi[k].value
                                                         \/ next[k].cnt # acc.kpi[k].cnt}]
    BY <1>1, <1>2, <1>4, <1>6, Zenon DEF TrackStep
  <2> QED
    BY <2>1
<1>8. ASSUME NEW k \in DOMAIN s.kpi PROVE ExactFor(k, next[k], after)
  <2>1. ExactFor(k, acc.kpi[k], cache) /\ k \in Kpis
    BY <1>2 DEF Tracks
  <2>2. next[k] = ApplyDelta(k, acc.kpi[k], Contribution(cache[r]), Contribution(o), after)
    BY <1>6, Zenon
  <2> QED
    BY <1>3, <1>4, <2>1, <2>2, DeltaExact
<1>9. next = [k \in DOMAIN s.kpi |-> next[k]]
  BY <1>6
<1>10. ASSUME NEW k \in DOMAIN s.kpi \ t.changed
       PROVE  next[k].value = s.kpi[k].value /\ next[k].cnt = s.kpi[k].cnt
  BY <1>7 DEF Tracks
<1>11. t.changed \subseteq DOMAIN s.kpi
  BY <1>7 DEF Tracks
<1> QED
  BY <1>5, <1>7, <1>8, <1>9, <1>10, <1>11, Zenon DEF Tracks

LEMMA TrackedWell ==
  ASSUME NEW s, NEW cur, cur \in Caches, s.cache \in Caches,
         DOMAIN s.kpi \subseteq Kpis, IsFcn(s.kpi),
         \A k \in DOMAIN s.kpi : ExactFor(k, s.kpi[k], s.cache),
         NEW rs, rs \subseteq Rids
  PROVE  Tracks(s, cur, rs, Tracked(s, cur, rs))
<1>0. IsFiniteSet(rs)
  BY RoomAssumption, FS_Subset
<1>1. PICK g : g = CHOOSE h : IsTrack(h, s, cur, rs)
  OBVIOUS
<1>2. IsTrack(g, s, cur, rs)
  BY <1>0, <1>1, TrackExists, Zenon
<1>3. Tracked(s, cur, rs) = g[rs]
  BY <1>1, TrackedIs
<1>4. ASSUME NEW T \in SUBSET rs
      PROVE  g[T] = IF T = {} THEN TrackBase(s)
                    ELSE TrackStep(s, cur, Pick(T), g[T \ {Pick(T)}])
  <2>1. g = [U \in SUBSET rs |-> IF U = {} THEN TrackBase(s)
                                 ELSE TrackStep(s, cur, Pick(U), g[U \ {Pick(U)}])]
    BY <1>2, Zenon DEF IsTrack
  <2> QED
    BY <2>1, Zenon
<1>5. PICK Q : Q = {T \in SUBSET rs : Tracks(s, cur, T, g[T])}
  OBVIOUS
<1>6. {} \in Q
  <2>1. {} \in SUBSET rs
    OBVIOUS
  <2>2. PICK b : b = TrackBase(s)
    OBVIOUS
  <2>3. g[{}] = b
    BY <1>4, <2>1, <2>2, Zenon
  <2>4. b.cache = s.cache /\ b.kpi = s.kpi /\ b.changed = {}
    BY <2>2 DEF TrackBase
  <2>5. s.cache = [r \in Rids |-> IF r \in {} THEN cur[r] ELSE s.cache[r]]
    BY DEF Caches
  <2>6. Tracks(s, cur, {}, b)
    BY <2>4, <2>5, Zenon DEF Tracks, IsFcn
  <2> QED
    BY <1>5, <2>1, <2>3, <2>6
<1>7. ASSUME NEW T \in SUBSET rs, T # {}, T \ {Pick(T)} \in Q PROVE T \in Q
  <2>1. PICK r : r = Pick(T)
    OBVIOUS
  <2>2. r \in T
    BY <1>7, <2>1 DEF Pick
  <2>3. PICK U : U = T \ {r}
    OBVIOUS
  <2>4. U \subseteq Rids /\ r \in Rids /\ r \notin U /\ U \cup {r} = T
    BY <2>2, <2>3
  <2>5. Tracks(s, cur, U, g[U])
    BY <1>5, <1>7, <2>1, <2>3
  <2>6. g[T] = TrackStep(s, cur, r, g[U])
    BY <1>4, <1>7, <2>1, <2>3, Zenon
  <2>7. Tracks(s, cur, U \cup {r}, g[T])
    BY <2>4, <2>5, <2>6, TrackOne
  <2> QED
    BY <1>5, <2>4, <2>7
<1>8. \A T \in SUBSET rs : T # {} /\ T \ {Pick(T)} \in Q => T \in Q
  BY <1>7
<1>9. \A T \in SUBSET rs : T \in Q
  BY ONLY <1>0, <1>6, <1>8, PickInduction
<1> QED
  BY <1>3, <1>5, <1>9

-----------------------------------------------------------------------------
(* What a room derives: exact KPIs, at most one active alert for each      *)
(* automation and object and none for an object that is not cached, and    *)
(* times the instance has.                                                 *)
Actives == {<<>>, <<"OPEN">>, <<"ACKED">>}
AlertRecs == [active : Actives, closed : Int \cup {None}]

KpisOK(s) == \A k \in DOMAIN s.kpi : ExactFor(k, s.kpi[k], s.cache)
AlertsOK(s) ==
  /\ s.alerts \in [Pairs -> AlertRecs]
  /\ \A a \in Pairs : s.cache[a[2]] = None => s.alerts[a].active = <<>>
TimesOK(s) ==
  /\ \A i \in DOMAIN s.rules : s.rules[i].next \in Times \cup {None}
  /\ s.flushAt \in Times \cup {None} /\ s.tomb \in Times \cup {None}
DataOK(s) ==
  /\ s.cache \in Caches /\ KpisOK(s) /\ AlertsOK(s) /\ TimesOK(s)
  /\ ~ s.inited => DOMAIN s.kpi = {}

(* An alert as the condition of its rule wants it, given what closed it.   *)
Agrees(al, m) == (al.active # <<>> => m) /\ (m /\ al.active = <<>> => al.closed # None)

LEMMA NowIsTime ==
  ASSUME ClockOK
  PROVE  /\ now \in Int /\ now # None
         /\ \A d \in {0, 1, Every, TombTtl} : now + d \in Times
         /\ None \notin Times
BY RoomAssumption DEF ClockOK, Times

LEMMA MatchesNone ==
  ASSUME NEW rule, NEW o PROVE Matches(rule, o) \in BOOLEAN /\ (o = None => ~ Matches(rule, o))
BY DEF Matches

LEMMA Single == \A x : Tail(<<x>>) = <<>> /\ <<x>> # <<>>
OBVIOUS

LEMMA DecideWell ==
  ASSUME now \in Int, NEW al \in AlertRecs, NEW m \in BOOLEAN, NEW d, d = Decide(al, m)
  PROVE  d \in AlertRecs /\ Agrees(d, m)
<1>0. now # None /\ <<>> # <<"OPEN">> /\ <<>> # <<"ACKED">>
  BY RoomAssumption
<1>1. al.active \in Actives /\ al.closed \in Int \cup {None}
      /\ al = [active |-> al.active, closed |-> al.closed]
  BY DEF AlertRecs
<1>2. CASE ~ m /\ al.active # <<>>
  <2>1. d = [active |-> Tail(al.active), closed |-> now]
    BY <1>2 DEF Decide
  <2>2. Tail(al.active) = <<>>
    BY <1>1, <1>2, Single DEF Actives
  <2> QED
    BY <1>2, <2>1, <2>2 DEF AlertRecs, Actives, Agrees
<1>3. CASE m /\ al.active = <<>> /\ ~ (al.closed # None /\ now < OrZero(al.closed) + Cooldown)
  <2>1. d = [al EXCEPT !.active = <<"OPEN">>]
    BY <1>3 DEF Decide
  <2>2. d = [active |-> <<"OPEN">>, closed |-> al.closed]
    BY <1>1, <2>1
  <2>3. <<"OPEN">> \in Actives /\ <<"OPEN">> # <<>>
    BY <1>0 DEF Actives
  <2>4. \A x, y : x \in Actives /\ y \in Int \cup {None} =>
               [active |-> x, closed |-> y] \in AlertRecs /\ [active |-> x, closed |-> y].active = x
    BY DEF AlertRecs
  <2>5. d \in AlertRecs /\ d.active = <<"OPEN">>
    BY <1>1, <2>2, <2>3, <2>4, Zenon
  <2>6. d.active # <<>>
    BY <2>3, <2>5, Zenon
  <2>7. Agrees(d, m)
    BY <1>3, <2>6, Zenon DEF Agrees
  <2> QED
    BY <2>5, <2>7
<1>4. CASE ~ (~ m /\ al.active # <<>>)
           /\ ~ (m /\ al.active = <<>> /\ ~ (al.closed # None /\ now < OrZero(al.closed) + Cooldown))
  <2>1. d = al
    BY <1>4 DEF Decide
  <2> QED
    BY <1>4, <2>1 DEF Agrees
<1> QED
  BY <1>2, <1>3, <1>4

LEMMA CloseWell ==
  ASSUME now \in Int, NEW al \in AlertRecs, NEW d, d = Close(al)
  PROVE  d \in AlertRecs /\ d.active = <<>>
<1>1. al.active \in Actives /\ al.closed \in Int \cup {None}
  BY DEF AlertRecs
<1>2. CASE al.active # <<>>
  <2>1. d = [active |-> Tail(al.active), closed |-> now] /\ Tail(al.active) = <<>>
    BY <1>1, <1>2, Single DEF Close, Actives
  <2> QED
    BY <2>1 DEF AlertRecs, Actives
<1> QED
  BY <1>2 DEF Close

(* The alerts after some pairs were evaluated.                             *)
LEMMA EvaluatedWell ==
  ASSUME now \in Int, NEW s, AlertsOK(s), NEW ps, NEW u, u = Evaluated(s, ps)
  PROVE  /\ u \in [Pairs -> AlertRecs]
         /\ \A a \in Pairs \cap ps : Agrees(u[a], Matches(s.rules[a[1]], s.cache[a[2]]))
         /\ \A a \in Pairs \ ps : u[a] = s.alerts[a]
         /\ \A a \in Pairs : s.cache[a[2]] = None => u[a].active = <<>>
<1>1. u = [a \in Pairs |-> IF a \in ps THEN Decide(s.alerts[a], Matches(s.rules[a[1]], s.cache[a[2]]))
                           ELSE s.alerts[a]]
  BY DEF Evaluated
<1>2. ASSUME NEW a \in Pairs \cap ps
      PROVE  /\ u[a] \in AlertRecs
             /\ Agrees(u[a], Matches(s.rules[a[1]], s.cache[a[2]]))
  <2>1. u[a] = Decide(s.alerts[a], Matches(s.rules[a[1]], s.cache[a[2]]))
    BY <1>1, Zenon
  <2>2. s.alerts[a] \in AlertRecs
    BY DEF AlertsOK
  <2> QED
    BY <2>1, <2>2, MatchesNone, DecideWell
<1>3. ASSUME NEW a \in Pairs \ ps PROVE u[a] = s.alerts[a] /\ u[a] \in AlertRecs
  BY <1>1 DEF AlertsOK
<1>4. u \in [Pairs -> AlertRecs]
  <2>1. u = [a \in Pairs |-> u[a]] /\ \A a \in Pairs : u[a] \in AlertRecs
    BY <1>1, <1>2, <1>3
  <2> QED
    BY <2>1, Zenon
<1>5. ASSUME NEW a \in Pairs, s.cache[a[2]] = None PROVE u[a].active = <<>>
  <2>1. CASE a \in ps
    BY <1>2, <1>5, <2>1, MatchesNone DEF Agrees
  <2>2. CASE a \notin ps
    BY <1>3, <1>5, <2>2 DEF AlertsOK
  <2> QED
    BY <2>1, <2>2
<1> QED
  BY <1>2, <1>3, <1>4, <1>5

(* What no part of which changed is as it was.                             *)
LEMMA SameData ==
  ASSUME NEW s, DataOK(s), NEW t, t.cache = s.cache, t.kpi = s.kpi, t.alerts = s.alerts,
         t.rules = s.rules, t.flushAt = s.flushAt, t.tomb = s.tomb, t.inited = s.inited
  PROVE  DataOK(t)
BY DEF DataOK, KpisOK, AlertsOK, TimesOK

(* applyEvents: the objects of some events, and what the events say        *)
(* changed.                                                                *)
RidsOf(E) == {e.rid : e \in E}
ChangedBy(E, r) == UNION {e.changed : e \in {x \in E : x.rid = r}}

AppliedAs(s, todo, cur, t) ==
  /\ DataOK(t) /\ DOMAIN t = DOMAIN NewRoom
  /\ t.cache = [r \in Rids |-> IF r \in RidsOf(todo) THEN cur[r] ELSE s.cache[r]]
  /\ t.seen = s.seen \cup todo
  /\ t.inited = s.inited /\ t.rules = s.rules /\ t.tomb = s.tomb
  /\ \A a \in Pairs :
       \/ Agrees(t.alerts[a], Matches(t.rules[a[1]], t.cache[a[2]]))
       \/ /\ t.alerts[a] = s.alerts[a]
          /\ a[2] \in RidsOf(todo) => /\ cur[a[2]] # None
                                     /\ a[1] \notin Candidates(s, a[2], ChangedBy(todo, a[2]))

LEMMA AppliedData ==
  ASSUME NEW s, RoomOK(s), DataOK(s), ClockOK, NEW todo, \A e \in todo : e.rid \in Rids,
         NEW cur \in Caches, NEW t, t = Applied(s, todo, cur)
  PROVE  AppliedAs(s, todo, cur, t)
<1> PICK rs : rs = RidsOf(todo)
  OBVIOUS
<1> DEFINE changed(r) == UNION {e.changed : e \in {x \in todo : x.rid = r}}
           tr == Tracked(s, cur, rs)
           gone == {r \in rs : cur[r] = None}
           pairs == UNION {Candidates(s, r, changed(r)) \X {r} : r \in rs \ gone}
           kpi == [k \in DOMAIN s.kpi |-> IF k \in tr.changed THEN tr.kpi[k] ELSE s.kpi[k]]
           s1 == [s EXCEPT !.cache = tr.cache, !.kpi = kpi, !.seen = @ \cup todo]
           ev == Evaluated(s1, pairs)
           alerts == [a \in Pairs |-> IF a[2] \in gone THEN Close(s.alerts[a]) ELSE ev[a]]
           s2 == [s1 EXCEPT !.alerts = alerts]
<1>0. rs = {e.rid : e \in todo} /\ \A r : ChangedBy(todo, r) = changed(r)
  BY DEF RidsOf, ChangedBy
<1>1. t = IF tr.changed # {} THEN MarkMetricsDirty(s2) ELSE s2
  BY <1>0, Zenon DEF Applied
<1>2. /\ s.cache \in Caches /\ KpisOK(s) /\ AlertsOK(s) /\ TimesOK(s)
      /\ DOMAIN s = DOMAIN NewRoom /\ IsFcn(s.kpi) /\ DOMAIN s.kpi \subseteq Kpis
  BY DEF DataOK, RoomOK
<1>3. now \in Int
  BY NowIsTime
<1>4. rs \subseteq Rids
  BY <1>0
<1>5. Tracks(s, cur, rs, tr)
  BY <1>2, <1>4, TrackedWell DEF KpisOK
<1>6. PICK cache : cache = tr.cache
  OBVIOUS
<1>7. cache = [r \in Rids |-> IF r \in rs THEN cur[r] ELSE s.cache[r]] /\ cache \in Caches
  BY <1>2, <1>5, <1>6 DEF Tracks, Caches
<1>8. ASSUME NEW k \in DOMAIN s.kpi PROVE ExactFor(k, kpi[k], cache)
  <2>1. ExactFor(k, tr.kpi[k], cache) /\ ExactFor(k, s.kpi[k], s.cache)
    BY <1>2, <1>5, <1>6 DEF Tracks, KpisOK
  <2>2. CASE k \in tr.changed
    BY <2>1, <2>2
  <2>3. CASE k \notin tr.changed
    <3>1. kpi[k] = s.kpi[k]
      BY <2>3
    <3>2. PICK new : new = ComputeKpi(k, cache)
      OBVIOUS
    <3>3. PICK old : old = ComputeKpi(k, s.cache)
      OBVIOUS
    <3>4. new.value = (IF k = "sum" THEN new.total
                       ELSE IF k = "max" /\ Counted(cache) = {} THEN None
                       ELSE Max({cache[r].p : r \in Counted(cache)}))
      BY <1>7, <3>2, KpiIs
    <3>5. old.value = (IF k = "sum" THEN old.total
                       ELSE IF k = "max" /\ Counted(s.cache) = {} THEN None
                       ELSE Max({s.cache[r].p : r \in Counted(s.cache)}))
      BY <1>2, <3>3, KpiIs
    <3>6. tr.kpi[k].value = s.kpi[k].value /\ tr.kpi[k].cnt = s.kpi[k].cnt
      BY <1>5, <2>3 DEF Tracks
    <3>7. /\ tr.kpi[k].value = new.value /\ tr.kpi[k].cnt = new.cnt
          /\ s.kpi[k] \in KpiStates /\ s.kpi[k].value = old.value
          /\ k = "sum" => s.kpi[k].total = old.total
      BY <2>1, <3>2, <3>3 DEF ExactFor
    <3>8. k = "sum" => s.kpi[k].total = new.total
      BY <3>4, <3>5, <3>6, <3>7
    <3> QED
      BY <3>1, <3>2, <3>6, <3>7, <3>8 DEF ExactFor
  <2> QED
    BY <2>2, <2>3
<1>9. DOMAIN kpi = DOMAIN s.kpi
  OBVIOUS
<1> HIDE DEF tr, kpi, s1, s2, ev, alerts, pairs
<1>10. /\ DOMAIN s1 = DOMAIN NewRoom /\ s1.flushAt = s.flushAt /\ s1.tomb = s.tomb
       /\ s1.inited = s.inited /\ s1.rules = s.rules /\ s1.alerts = s.alerts
       /\ s1.kpi = kpi /\ s1.cache = cache /\ s1.seen = s.seen \cup todo
  BY <1>2, <1>6, Fields DEF s1
<1>11. /\ DOMAIN s2 = DOMAIN NewRoom /\ s2.flushAt = s1.flushAt /\ s2.tomb = s1.tomb
       /\ s2.inited = s1.inited /\ s2.rules = s1.rules /\ s2.alerts = alerts
       /\ s2.kpi = s1.kpi /\ s2.cache = s1.cache /\ s2.seen = s1.seen
  BY <1>10, Fields DEF s2
<1>12. /\ DOMAIN t = DOMAIN NewRoom /\ t.tomb = s2.tomb
       /\ t.inited = s2.inited /\ t.rules = s2.rules /\ t.alerts = s2.alerts
       /\ t.kpi = s2.kpi /\ t.cache = s2.cache /\ t.seen = s2.seen
       /\ t.flushAt \in {s2.flushAt, now + 1}
  <2>1. t = s2 \/ t = [s2 EXCEPT !.flushAt = now + 1]
    BY <1>1 DEF MarkMetricsDirty
  <2> QED
    BY <1>11, <2>1, Fields
<1>13. /\ \A a \in Pairs : s.alerts[a] \in AlertRecs
       /\ \A a \in Pairs : a[1] \in Rules /\ a[2] \in Rids
       /\ \A a \in Pairs : s.cache[a[2]] = None => s.alerts[a].active = <<>>
  BY <1>2 DEF AlertsOK, Pairs
<1>14. PICK mid : mid = [s1 EXCEPT !.cache = s.cache]
  OBVIOUS
<1>15. ASSUME NEW a \in Pairs
       PROVE  /\ a \in pairs =>
                   /\ ev[a] \in AlertRecs
                   /\ Agrees(ev[a], Matches(s.rules[a[1]], cache[a[2]]))
              /\ a \notin pairs => ev[a] = s.alerts[a]
  <2>1. ev[a] = IF a \in pairs THEN Decide(s.alerts[a], Matches(s.rules[a[1]], cache[a[2]]))
                ELSE s.alerts[a]
    BY <1>10 DEF ev, Evaluated
  <2>2. Matches(s.rules[a[1]], cache[a[2]]) \in BOOLEAN
    BY MatchesNone
  <2>3. CASE a \in pairs
    <3>1. ev[a] = Decide(s.alerts[a], Matches(s.rules[a[1]], cache[a[2]]))
      BY <2>1, <2>3
    <3> QED
      BY <1>3, <1>13, <2>2, <2>3, <3>1, DecideWell
  <2> QED
    BY <2>1, <2>3
<1>16. ASSUME NEW a \in Pairs
       PROVE  a \in pairs <=> /\ a[2] \in rs \ gone
                              /\ a[1] \in Candidates(s, a[2], changed(a[2]))
  <2>1. a = <<a[1], a[2]>>
    BY DEF Pairs
  <2>2. \A r : a \in Candidates(s, r, changed(r)) \X {r}
                 <=> a[1] \in Candidates(s, r, changed(r)) /\ a[2] = r
    BY <2>1
  <2>3. a \in pairs <=> \E r \in rs \ gone : a \in Candidates(s, r, changed(r)) \X {r}
    BY Zenon DEF pairs
  <2> QED
    BY <2>2, <2>3, Zenon
<1>17. ASSUME NEW a \in Pairs
       PROVE  /\ alerts[a] \in AlertRecs
              /\ cache[a[2]] = None => alerts[a].active = <<>>
              /\ \/ Agrees(alerts[a], Matches(s.rules[a[1]], cache[a[2]]))
                 \/ /\ alerts[a] = s.alerts[a]
                    /\ a[2] \in rs => cur[a[2]] # None
                         /\ a[1] \notin Candidates(s, a[2], changed(a[2]))
  <2>1. alerts[a] = IF a[2] \in gone THEN Close(s.alerts[a]) ELSE ev[a]
    BY DEF alerts
  <2>2. cache[a[2]] = IF a[2] \in rs THEN cur[a[2]] ELSE s.cache[a[2]]
    BY <1>7, <1>13
  <2>3. CASE a[2] \in gone
    <3>1. alerts[a] = Close(s.alerts[a]) /\ cache[a[2]] = None
      BY <2>1, <2>2, <2>3
    <3>2. alerts[a] \in AlertRecs /\ alerts[a].active = <<>>
      BY <1>3, <1>13, <3>1, CloseWell
    <3>3. Agrees(alerts[a], Matches(s.rules[a[1]], cache[a[2]]))
      BY <3>1, <3>2, MatchesNone DEF Agrees
    <3> QED
      BY <3>2, <3>3
  <2>4. CASE a[2] \notin gone /\ a \in pairs
    <3>1. alerts[a] = ev[a] /\ cache[a[2]] # None
      BY <1>16, <2>1, <2>2, <2>4
    <3> QED
      BY <1>15, <2>4, <3>1
  <2>5. CASE a[2] \notin gone /\ a \notin pairs
    <3>1. alerts[a] = s.alerts[a]
      BY <1>15, <2>1, <2>5
    <3>2. cache[a[2]] = None => s.cache[a[2]] = None
      BY <2>2, <2>5
    <3> QED
      BY <1>13, <1>16, <2>5, <3>1, <3>2
  <2> QED
    BY <2>3, <2>4, <2>5
<1>18. alerts \in [Pairs -> AlertRecs]
  <2>1. alerts = [a \in Pairs |-> alerts[a]]
    BY DEF alerts
  <2> QED
    BY <1>17, <2>1
<1>19. t.cache = cache /\ t.rules = s.rules /\ t.alerts = alerts /\ t.kpi = kpi
  BY <1>10, <1>11, <1>12
<1>20. AlertsOK(t) /\ KpisOK(t) /\ t.cache \in Caches
  BY <1>7, <1>8, <1>9, <1>17, <1>18, <1>19 DEF AlertsOK, KpisOK
<1>21. TimesOK(t)
  <2>1. now + 1 \in Times
    BY NowIsTime
  <2> QED
    BY <1>2, <1>10, <1>11, <1>12, <2>1 DEF TimesOK
<1> QED
  BY <1>0, <1>7, <1>9, <1>10, <1>11, <1>12, <1>17, <1>19, <1>20, <1>21 DEF DataOK, AppliedAs

(* What the other code of the room does to what it derives: nothing it     *)
(* does to rules or alerts alone makes an alert disagree that agreed.      *)
Disagrees(s, i, r) == ~ Agrees(s.alerts[<<i, r>>], Matches(s.rules[i], s.cache[r]))

Settled(s, t) ==
  /\ t.cache = s.cache /\ t.seen = s.seen /\ t.inited = s.inited
  /\ \A i \in ThresholdRules(t), r \in Rids : Disagrees(t, i, r) =>
       /\ i \in ThresholdRules(s) /\ Disagrees(s, i, r)
       /\ t.rules[i].prop = s.rules[i].prop

LEMMA FlushedData ==
  ASSUME NEW s, RoomOK(s), DataOK(s), NEW t, t = FlushMetrics(s)
  PROVE  /\ DataOK(t) /\ t.cache = s.cache /\ t.alerts = s.alerts /\ t.seen = s.seen
         /\ t.flushAt = None
<1>1. PICK x : t = [s EXCEPT !.flushAt = None, !.point = x]
  BY Zenon DEF FlushMetrics
<1>2. /\ t.cache = s.cache /\ t.kpi = s.kpi /\ t.alerts = s.alerts /\ t.rules = s.rules
      /\ t.flushAt = None /\ t.tomb = s.tomb /\ t.inited = s.inited /\ t.seen = s.seen
  BY <1>1, Fields DEF RoomOK
<1> QED
  BY <1>2 DEF DataOK, KpisOK, AlertsOK, TimesOK

LEMMA SeededTime ==
  ASSUME ClockOK, NEW d, NEW v PROVE Seeded(d, v).next \in Times \cup {None}
BY NowIsTime DEF Seeded

(* install: every KPI is computed, every threshold rule evaluated.         *)
LEMMA InstalledData ==
  ASSUME NEW s, RoomOK(s), DataOK(s), ~ s.inited, ClockOK,
         NEW i, i.found \in Caches, NEW t, t = Install(s, i)
  PROVE  /\ DataOK(t)
         /\ t.cache = [r \in Rids |-> IF i.found[r] # None THEN i.found[r] ELSE s.cache[r]]
         /\ t.seen = s.seen
         /\ \A d \in ThresholdRules(t), r \in Rids : ~ Disagrees(t, d, r)
<1> DEFINE defs == SeedDefs(i.tpl)
           fits == {d \in DOMAIN defs \ DOMAIN s.rules :
                      defs[d].trigger = "schedule" => Cardinality(Scheduled(s)) < MaxScheduled}
           rules == [d \in DOMAIN s.rules \cup fits |->
                       IF d \in fits THEN Seeded(defs[d], 1) ELSE s.rules[d]]
           cache == [r \in Rids |-> IF i.found[r] # None THEN i.found[r] ELSE s.cache[r]]
           kpi == [k \in DOMAIN s.kpi \cup SeedKpis(i.tpl) |->
                     IF k \in SeedKpis(i.tpl) THEN ComputeKpi(k, cache) ELSE s.kpi[k]]
           s0 == [s EXCEPT !.cache = cache, !.kpi = kpi, !.rules = rules]
           s1 == FlushMetrics(s0)
           alerts == Evaluated(s1, ThresholdRules(s1) \X Cached(s1))
<1>1. t = [s1 EXCEPT !.alerts = alerts, !.inited = TRUE]
  BY DEF Install
<1>2. cache \in Caches
  BY DEF DataOK, Caches
<1>3. \A k \in DOMAIN kpi : ExactFor(k, kpi[k], cache)
  <2> TAKE k \in DOMAIN kpi
  <2>1. kpi[k] = ComputeKpi(k, cache)
    BY DEF DataOK
  <2>2. PICK full : full = ComputeKpi(k, cache)
    OBVIOUS
  <2>3. /\ full.cnt \in Nat /\ full.total \in Int
        /\ full.value = (IF k = "sum" THEN full.total
                         ELSE IF k = "max" /\ Counted(cache) = {} THEN None
                         ELSE Max({cache[r].p : r \in Counted(cache)}))
    BY <1>2, <2>2, KpiIs
  <2>4. full.value \in Int \cup {None}
    <3>1. CASE k = "sum" \/ Counted(cache) = {}
      <4>1. k = "sum" \/ k = "max"
        BY DEF Kpis, SeedKpis, DataOK
      <4> QED
        BY <2>3, <3>1, <4>1
    <3>2. CASE k # "sum" /\ Counted(cache) # {}
      <4>1. PICK S : S = {cache[r].p : r \in Counted(cache)}
        OBVIOUS
      <4>2. S # {} /\ S \subseteq 1 .. 2
        <5>1. ASSUME NEW r \in Counted(cache) PROVE cache[r].p \in 1 .. 2
          <6>1. PICK o : o = cache[r]
            OBVIOUS
          <6>2. o \in Objects \cup {None} /\ Contribution(o) # None
            BY <1>2, <6>1 DEF Counted, Caches
          <6> QED
            BY <6>1, <6>2, Contributes
        <5> HIDE DEF cache
        <5> QED
          BY <3>2, <4>1, <5>1
      <4>3. Max(S) \in 1 .. 2
        BY <4>2, Greatest
      <4> QED
        BY <2>3, <3>2, <4>1, <4>3
    <3> QED
      BY <3>1, <3>2
  <2>5. full = [cnt |-> full.cnt, total |-> full.total, value |-> full.value]
    BY <2>2 DEF ComputeKpi
  <2>6. full \in KpiStates
    BY <2>3, <2>4, <2>5 DEF KpiStates
  <2> QED
    BY <2>1, <2>2, <2>6 DEF ExactFor
<1>4. \A d \in DOMAIN rules : rules[d].next \in Times \cup {None}
  BY SeededTime DEF DataOK, TimesOK
<1> HIDE DEF s0, s1, alerts, cache, kpi, rules, fits, defs
<1>5. /\ DOMAIN s0 = DOMAIN s /\ s0.flushAt = s.flushAt /\ s0.tomb = s.tomb
      /\ s0.rules = rules /\ s0.kpi = kpi /\ s0.cache = cache /\ s0.alerts = s.alerts
      /\ s0.seen = s.seen
  BY Fields DEF RoomOK, s0
<1>6. PICK x : s1 = [s0 EXCEPT !.flushAt = None, !.point = x]
  BY Zenon DEF FlushMetrics, s1
<1>7. /\ DOMAIN s1 = DOMAIN s /\ s1.flushAt = None /\ s1.tomb = s.tomb
      /\ s1.rules = rules /\ s1.kpi = kpi /\ s1.cache = cache /\ s1.alerts = s.alerts
      /\ s1.seen = s.seen
  BY <1>5, <1>6, Fields DEF RoomOK
<1>8. /\ t.flushAt = None /\ t.tomb = s.tomb /\ t.inited
      /\ t.rules = rules /\ t.kpi = kpi /\ t.cache = cache /\ t.alerts = alerts
      /\ t.seen = s.seen
  BY <1>1, <1>7, Fields DEF RoomOK
<1>9. AlertsOK(s1)
  <2>1. \A a \in Pairs : cache[a[2]] = None => s.cache[a[2]] = None
    BY DEF cache, Pairs
  <2> QED
    BY <1>7, <2>1 DEF DataOK, AlertsOK
<1>10. PICK ps : ps = ThresholdRules(s1) \X Cached(s1)
  OBVIOUS
<1>11. alerts = Evaluated(s1, ps) /\ now \in Int
  BY <1>10, NowIsTime DEF alerts
<1>12. /\ alerts \in [Pairs -> AlertRecs]
       /\ \A a \in Pairs \cap ps : Agrees(alerts[a], Matches(rules[a[1]], cache[a[2]]))
       /\ \A a \in Pairs : cache[a[2]] = None => alerts[a].active = <<>>
  BY <1>7, <1>9, <1>11, EvaluatedWell
<1>13. TimesOK(t) /\ KpisOK(t) /\ AlertsOK(t)
  BY <1>3, <1>4, <1>8, <1>12 DEF TimesOK, KpisOK, AlertsOK, DataOK
<1>14. ASSUME NEW d \in ThresholdRules(t), NEW r \in Rids PROVE ~ Disagrees(t, d, r)
  <2>1. d \in DOMAIN rules /\ d \in ThresholdRules(s1) /\ DOMAIN rules \subseteq Rules
    <3>1. DOMAIN rules \subseteq Rules
      BY Seeds DEF rules, fits, defs, RoomOK, Rules
    <3> QED
      BY <1>7, <1>8, <3>1 DEF ThresholdRules
  <2>2. PICK a : a = <<d, r>>
    OBVIOUS
  <2>3. a \in Pairs /\ a[1] = d /\ a[2] = r
    BY <2>1, <2>2 DEF Pairs
  <2>4. CASE cache[r] = None
    BY <1>8, <1>12, <2>2, <2>3, <2>4, MatchesNone DEF Disagrees, Agrees
  <2>5. CASE cache[r] # None
    <3>1. a \in ps
      BY <1>7, <1>10, <2>1, <2>2, <2>5 DEF Cached
    <3> QED
      BY <1>8, <1>12, <2>2, <2>3, <3>1 DEF Disagrees
  <2> QED
    BY <2>4, <2>5
<1> QED
  BY <1>2, <1>8, <1>13, <1>14 DEF DataOK, cache

(* Rules come, change and go: the alerts of the others stay.               *)
LEMMA DeletedData ==
  ASSUME NEW s, RoomOK(s), DataOK(s), ClockOK, NEW id, NEW t, t = Deleted(s, id)
  PROVE  DataOK(t) /\ Settled(s, t)
<1>1. PICK x : x = [a \in Pairs |-> IF a[1] = id THEN Close(s.alerts[a]) ELSE s.alerts[a]]
  OBVIOUS
<1>2. PICK y : y = Without(s.rules, {id})
  OBVIOUS
<1>3. t = [s EXCEPT !.alerts = x, !.rules = y]
  BY <1>1, <1>2 DEF Deleted
<1>4. /\ t.cache = s.cache /\ t.kpi = s.kpi /\ t.alerts = x /\ t.rules = y
      /\ t.flushAt = s.flushAt /\ t.tomb = s.tomb /\ t.inited = s.inited /\ t.seen = s.seen
  BY <1>3, Fields DEF RoomOK
<1>5. DOMAIN y = DOMAIN s.rules \ {id} /\ \A i \in DOMAIN y : y[i] = s.rules[i]
  BY <1>2 DEF Without
<1>6. ASSUME NEW a \in Pairs
      PROVE  /\ x[a] \in AlertRecs
             /\ s.cache[a[2]] = None => x[a].active = <<>>
             /\ a[1] # id => x[a] = s.alerts[a]
  <2>1. s.alerts[a] \in AlertRecs
    BY DEF DataOK, AlertsOK
  <2>2. x[a] = IF a[1] = id THEN Close(s.alerts[a]) ELSE s.alerts[a]
    BY <1>1, Zenon
  <2>3. CASE a[1] = id
    BY <2>1, <2>2, <2>3, NowIsTime, CloseWell
  <2>4. CASE a[1] # id
    BY <2>1, <2>2, <2>4 DEF DataOK, AlertsOK
  <2> QED
    BY <2>3, <2>4
<1>7. x \in [Pairs -> AlertRecs]
  <2>1. x = [a \in Pairs |-> x[a]]
    BY <1>1
  <2> QED
    BY <1>6, <2>1
<1>8. DataOK(t)
  BY <1>4, <1>5, <1>6, <1>7 DEF DataOK, KpisOK, AlertsOK, TimesOK
<1>9. ASSUME NEW i \in ThresholdRules(t), NEW r \in Rids
      PROVE  /\ i \in ThresholdRules(s) /\ t.rules[i] = s.rules[i]
             /\ t.alerts[<<i, r>>] = s.alerts[<<i, r>>]
  <2>1. i \in DOMAIN y /\ i # id /\ i \in ThresholdRules(s) /\ i \in Rules
    BY <1>4, <1>5 DEF ThresholdRules, RoomOK
  <2>2. PICK a : a = <<i, r>>
    OBVIOUS
  <2>3. a \in Pairs /\ a[1] = i
    BY <2>1, <2>2 DEF Pairs
  <2> QED
    BY <1>4, <1>5, <1>6, <2>1, <2>2, <2>3
<1>10. Settled(s, t)
  BY <1>4, <1>9 DEF Settled, Disagrees
<1> QED
  BY <1>8, <1>10

LEMMA StoredData ==
  ASSUME NEW s, RoomOK(s), DataOK(s), ClockOK,
         NEW c, c.id \in Rules, c.kind # "create" => c.id \in DOMAIN s.rules,
         NEW t, t = Stored(s, c)
  PROVE  DataOK(t) /\ Settled(s, t)
<1>1. PICK rule : rule = IF c.kind = "create" THEN Seeded(c.def, 1)
                         ELSE Replaced(s.rules[c.id], c.def)
  OBVIOUS
<1>2. PICK rules : rules = Put(s.rules, c.id, rule)
  OBVIOUS
<1>3. PICK s1 : s1 = [s EXCEPT !.rules = rules]
  OBVIOUS
<1>4. t = Reevaluated(s1, c.id)
  BY <1>1, <1>2, <1>3 DEF Stored
<1>5. /\ DOMAIN s1 = DOMAIN s /\ s1.cache = s.cache /\ s1.kpi = s.kpi /\ s1.alerts = s.alerts
      /\ s1.flushAt = s.flushAt /\ s1.tomb = s.tomb /\ s1.inited = s.inited
      /\ s1.seen = s.seen /\ s1.rules = rules
  BY <1>3, Fields DEF RoomOK
<1>6. PICK ps : ps = {c.id} \X ((IF s1.rules[c.id].trigger = "threshold" /\ s1.rules[c.id].on
                                 THEN Cached(s1) ELSE {}) \cup ActiveOf(s1, c.id))
  OBVIOUS
<1>7. PICK x : x = Evaluated(s1, ps)
  OBVIOUS
<1>8. t = [s1 EXCEPT !.alerts = x]
  BY <1>4, <1>6, <1>7 DEF Reevaluated
<1>9. /\ t.cache = s.cache /\ t.kpi = s.kpi /\ t.alerts = x
      /\ t.flushAt = s.flushAt /\ t.tomb = s.tomb /\ t.inited = s.inited
      /\ t.seen = s.seen /\ t.rules = rules
  BY <1>5, <1>8, Fields DEF RoomOK
<1>10. /\ DOMAIN rules = DOMAIN s.rules \cup {c.id}
       /\ \A i \in DOMAIN rules : rules[i] = IF i = c.id THEN rule ELSE s.rules[i]
  BY <1>2 DEF Put
<1>11. rule.next \in Times \cup {None}
  <2>1. CASE c.kind = "create"
    BY <1>1, <2>1, SeededTime
  <2>2. CASE c.kind # "create"
    <3>1. PICK old : old = s.rules[c.id]
      OBVIOUS
    <3>2. old.next \in Times \cup {None}
      BY <2>2, <3>1 DEF DataOK, TimesOK
    <3>3. PICK n : n = Seeded(c.def, old.version + 1)
      OBVIOUS
    <3>4. n.next \in Times \cup {None} /\ "next" \in DOMAIN n
      BY <3>3, SeededTime DEF Seeded
    <3>5. rule = [n EXCEPT !.next = IF c.def.trigger = "schedule" /\ old.trigger = "schedule"
                                       /\ old.next # None THEN old.next ELSE @]
      BY <1>1, <2>2, <3>1, <3>3 DEF Replaced
    <3>6. rule.next = IF c.def.trigger = "schedule" /\ old.trigger = "schedule"
                         /\ old.next # None THEN old.next ELSE n.next
      BY ONLY <3>4, <3>5
    <3> QED
      BY <3>2, <3>4, <3>6
  <2> QED
    BY <2>1, <2>2
<1>12. TimesOK(t)
  BY <1>9, <1>10, <1>11 DEF DataOK, TimesOK
<1>13. AlertsOK(s1) /\ now \in Int
  BY <1>5, NowIsTime DEF DataOK, AlertsOK
<1>14. /\ x \in [Pairs -> AlertRecs]
       /\ \A a \in Pairs \cap ps : Agrees(x[a], Matches(rules[a[1]], s.cache[a[2]]))
       /\ \A a \in Pairs \ ps : x[a] = s.alerts[a]
       /\ \A a \in Pairs : s.cache[a[2]] = None => x[a].active = <<>>
  BY <1>5, <1>7, <1>13, EvaluatedWell
<1>15. DataOK(t)
  BY <1>9, <1>12, <1>14 DEF DataOK, KpisOK, AlertsOK
<1>16. ASSUME NEW i \in ThresholdRules(t), NEW r \in Rids, Disagrees(t, i, r)
       PROVE  /\ i \in ThresholdRules(s) /\ Disagrees(s, i, r)
              /\ t.rules[i].prop = s.rules[i].prop
  <2>1. PICK a : a = <<i, r>>
    OBVIOUS
  <2>2. i \in DOMAIN rules /\ rules[i].trigger = "threshold" /\ rules[i].on
    BY <1>9 DEF ThresholdRules
  <2>3. a \in Pairs /\ a[1] = i /\ a[2] = r
    BY <1>10, <2>1, <2>2 DEF Pairs, RoomOK
  <2>4. ~ Agrees(x[a], Matches(rules[i], s.cache[r]))
    BY <1>9, <1>16, <2>1 DEF Disagrees
  <2>5. a \notin ps
    BY <1>14, <2>3, <2>4
  <2>6. i # c.id
    <3> SUFFICES ASSUME i = c.id PROVE FALSE
      OBVIOUS
    <3>1. r \notin Cached(s1)
      BY <1>5, <1>6, <2>1, <2>2, <2>5
    <3>2. s.cache[r] = None
      BY <1>5, <3>1 DEF Cached
    <3> QED
      BY <1>14, <2>3, <2>4, <3>2, MatchesNone DEF Agrees
  <2>7. rules[i] = s.rules[i] /\ i \in DOMAIN s.rules /\ x[a] = s.alerts[a]
    BY <1>10, <1>14, <2>2, <2>3, <2>5, <2>6
  <2> QED
    BY <1>9, <2>1, <2>2, <2>4, <2>7 DEF Disagrees, ThresholdRules
<1> QED
  BY <1>9, <1>15, <1>16 DEF Settled

(* runAlarm evaluates scheduled rules only.                                *)
LEMMA RanData ==
  ASSUME NEW s, RoomOK(s), DataOK(s), ClockOK, NEW t, t = Ran(s)
  PROVE  DataOK(t) /\ Settled(s, t)
<1>1. PICK s1 : s1 = IF s.flushAt # None /\ OrZero(s.flushAt) <= now THEN FlushMetrics(s) ELSE s
  OBVIOUS
<1>2. PICK due : due = {i \in Scheduled(s) : s.rules[i].on /\ s.rules[i].next <= now}
  OBVIOUS
<1>3. PICK rules : rules = [i \in DOMAIN s.rules |->
                       IF i \in due THEN [s.rules[i] EXCEPT !.next = AdvanceRun(@)]
                       ELSE s.rules[i]]
  OBVIOUS
<1>4. PICK ps : ps = UNION {{i} \X (Cached(s) \cup ActiveOf(s, i)) : i \in due}
  OBVIOUS
<1>5. PICK x : x = Evaluated(s1, ps)
  OBVIOUS
<1>6. t = [s1 EXCEPT !.alerts = x, !.rules = rules]
  BY <1>1, <1>2, <1>3, <1>4, <1>5, Zenon DEF Ran
<1>7. RoomOK(s1) /\ DataOK(s1) /\ s1.cache = s.cache /\ s1.alerts = s.alerts /\ s1.seen = s.seen
      /\ s1.rules = s.rules /\ s1.inited = s.inited
  BY <1>1, Flushed, FlushedData
<1>8. /\ t.cache = s.cache /\ t.kpi = s1.kpi /\ t.alerts = x /\ t.rules = rules
      /\ t.flushAt = s1.flushAt /\ t.tomb = s1.tomb /\ t.inited = s.inited /\ t.seen = s.seen
  BY <1>6, <1>7, Fields DEF RoomOK
<1>9. DOMAIN rules = DOMAIN s.rules
  BY <1>3
<1>10. ASSUME NEW i \in DOMAIN s.rules
       PROVE  /\ rules[i].next \in Times \cup {None}
              /\ rules[i].trigger = s.rules[i].trigger /\ rules[i].on = s.rules[i].on
              /\ rules[i].prop = s.rules[i].prop
              /\ i \in due => s.rules[i].trigger = "schedule"
              /\ i \notin due => rules[i] = s.rules[i]
  <2>1. PICK r : r = s.rules[i]
    OBVIOUS
  <2>2. r \in Rule /\ r.next \in Times \cup {None}
    BY <2>1 DEF RoomOK, DataOK, TimesOK
  <2>3. CASE i \notin due
    BY <1>3, <2>1, <2>2, <2>3
  <2>4. CASE i \in due
    <3>1. r.trigger = "schedule" /\ r.next <= now /\ r.next \in Nat
      BY <1>2, <2>1, <2>2, <2>4 DEF Scheduled, Rule
    <3>2. PICK n : n = AdvanceRun(r.next)
      OBVIOUS
    <3>3. n \in Times
      BY <3>1, <3>2, NextRun DEF ClockOK
    <3>4. rules[i] = [r EXCEPT !.next = n]
      BY <1>3, <2>1, <2>4, <3>2
    <3>5. /\ rules[i].next = n /\ rules[i].trigger = r.trigger /\ rules[i].on = r.on
          /\ rules[i].prop = r.prop
      BY ONLY <2>2, <3>4 DEF Rule
    <3> QED
      BY <2>1, <2>4, <3>1, <3>3, <3>5
  <2> QED
    BY <2>3, <2>4
<1>11. AlertsOK(s1) /\ now \in Int
  BY <1>7, NowIsTime DEF DataOK
<1>12. /\ x \in [Pairs -> AlertRecs]
       /\ \A a \in Pairs \ ps : x[a] = s.alerts[a]
       /\ \A a \in Pairs : s.cache[a[2]] = None => x[a].active = <<>>
  BY <1>5, <1>7, <1>11, EvaluatedWell
<1>13. TimesOK(t)
  BY <1>7, <1>8, <1>9, <1>10 DEF DataOK, TimesOK
<1>14. DataOK(t)
  BY <1>7, <1>8, <1>12, <1>13 DEF DataOK, KpisOK, AlertsOK
<1>15. ASSUME NEW i \in ThresholdRules(t), NEW r \in Rids, Disagrees(t, i, r)
       PROVE  /\ i \in ThresholdRules(s) /\ Disagrees(s, i, r)
              /\ t.rules[i].prop = s.rules[i].prop
  <2>1. PICK a : a = <<i, r>>
    OBVIOUS
  <2>2. i \in DOMAIN s.rules /\ rules[i].trigger = "threshold" /\ rules[i].on
    BY <1>8, <1>9 DEF ThresholdRules
  <2>3. a \in Pairs /\ i \in ThresholdRules(s) /\ i \notin due /\ rules[i] = s.rules[i]
    BY <1>10, <2>1, <2>2 DEF Pairs, RoomOK, ThresholdRules
  <2>4. a \notin ps
    BY <1>4, <2>1, <2>3
  <2>5. x[a] = s.alerts[a]
    BY <1>12, <2>3, <2>4
  <2> QED
    BY <1>8, <1>15, <2>1, <2>3, <2>5 DEF Disagrees
<1> QED
  BY <1>8, <1>14, <1>15 DEF Settled

LEMMA AckedData ==
  ASSUME NEW s, RoomOK(s), DataOK(s), NEW b \in Pairs,
         NEW t, t = [Touched(s) EXCEPT !.alerts[b].active = [i \in DOMAIN @ |-> "ACKED"]]
  PROVE  DataOK(t) /\ Settled(s, t)
<1>1. PICK s1 : s1 = Touched(s)
  OBVIOUS
<1>2. /\ DOMAIN s1 = DOMAIN s /\ s1.cache = s.cache /\ s1.kpi = s.kpi /\ s1.alerts = s.alerts
      /\ s1.flushAt = s.flushAt /\ s1.tomb = s.tomb /\ s1.inited = s.inited
      /\ s1.seen = s.seen /\ s1.rules = s.rules
  BY <1>1, Fields DEF Touched, RoomOK
<1>3. s.alerts \in [Pairs -> AlertRecs]
  BY DEF DataOK, AlertsOK
<1>4. PICK al : al = s.alerts[b]
  OBVIOUS
<1>5. al.active \in Actives /\ al = [active |-> al.active, closed |-> al.closed]
      /\ al.closed \in Int \cup {None}
  BY <1>3, <1>4 DEF AlertRecs
<1>6. PICK y : y = [i \in DOMAIN al.active |-> "ACKED"]
  OBVIOUS
<1>7. y \in Actives /\ (y = <<>> <=> al.active = <<>>)
  <2>1. CASE al.active = <<>>
    BY <1>6, <2>1 DEF Actives
  <2>2. CASE al.active # <<>>
    <3>1. DOMAIN al.active = {1}
      BY <1>5, <2>2 DEF Actives
    <3>2. y = <<"ACKED">>
      BY <1>6, <3>1
    <3> QED
      BY <2>2, <3>2 DEF Actives
  <2> QED
    BY <2>1, <2>2
<1>8. t = [s1 EXCEPT !.alerts[b].active = [i \in DOMAIN @ |-> "ACKED"]]
  BY <1>1
<1>9. t = [s1 EXCEPT !.alerts = [s.alerts EXCEPT ![b] = [al EXCEPT !.active = y]]]
  BY <1>2, <1>4, <1>6, <1>8
<1>10. PICK d : d = [active |-> y, closed |-> al.closed]
  OBVIOUS
<1>11. d = [al EXCEPT !.active = y] /\ d \in AlertRecs /\ d.active = y /\ d.closed = al.closed
  BY <1>5, <1>7, <1>10 DEF AlertRecs
<1>12. PICK x : x = [s.alerts EXCEPT ![b] = d]
  OBVIOUS
<1>13. t = [s1 EXCEPT !.alerts = x]
  BY <1>9, <1>11, <1>12
<1>14. /\ t.cache = s.cache /\ t.kpi = s.kpi /\ t.alerts = x
       /\ t.flushAt = s.flushAt /\ t.tomb = s.tomb /\ t.inited = s.inited
       /\ t.seen = s.seen /\ t.rules = s.rules
  BY <1>2, <1>13, Fields DEF RoomOK
<1>15. /\ x \in [Pairs -> AlertRecs]
       /\ \A a \in Pairs : /\ x[a].closed = s.alerts[a].closed
                           /\ x[a].active = <<>> <=> s.alerts[a].active = <<>>
  BY <1>3, <1>4, <1>7, <1>11, <1>12
<1>16. DataOK(t)
  BY <1>14, <1>15 DEF DataOK, KpisOK, AlertsOK, TimesOK
<1>17. ASSUME NEW i \in ThresholdRules(t), NEW r \in Rids
       PROVE  /\ i \in ThresholdRules(s)
              /\ Disagrees(t, i, r) => Disagrees(s, i, r)
  <2>1. i \in ThresholdRules(s) /\ i \in Rules
    BY <1>14 DEF ThresholdRules, RoomOK
  <2>2. <<i, r>> \in Pairs
    BY <2>1 DEF Pairs
  <2> QED
    BY <1>14, <1>15, <2>1, <2>2 DEF Disagrees, Agrees
<1> QED
  BY <1>14, <1>16, <1>17 DEF Settled

(* A room that is new, purged, reset or cleared.                           *)
LEMMA NoCacheWell ==
  NoCache \in Caches /\ \A r \in Rids : NoCache[r] = None
BY DEF NoCache, Caches

LEMMA NoAlerts ==
  ASSUME NEW x, x = [a \in Pairs |-> NoAlert]
  PROVE  x \in [Pairs -> AlertRecs] /\ \A a \in Pairs : x[a].active = <<>>
<1>1. NoAlert \in AlertRecs /\ NoAlert.active = <<>>
  BY DEF NoAlert, AlertRecs, Actives
<1> QED
  BY <1>1

LEMMA EmptyData ==
  ASSUME NEW s, ~ s.inited,
         \/ s.cache = NoCache /\ s.alerts = [a \in Pairs |-> NoAlert]
         \/ s.cache \in Caches /\ AlertsOK(s),
         DOMAIN s.kpi = {}, DOMAIN s.rules = {},
         s.flushAt \in Times \cup {None}, s.tomb \in Times \cup {None}
  PROVE  DataOK(s)
<1>1. CASE s.cache = NoCache /\ s.alerts = [a \in Pairs |-> NoAlert]
  BY <1>1, NoCacheWell, NoAlerts DEF DataOK, KpisOK, AlertsOK, TimesOK
<1>2. CASE s.cache \in Caches /\ AlertsOK(s)
  BY <1>2 DEF DataOK, KpisOK, TimesOK
<1> QED
  BY <1>1, <1>2

LEMMA NewRoomData ==
  ASSUME NEW x \in Times \cup {None}, NEW t, t = NewRoom \/ t = [NewRoom EXCEPT !.tomb = x]
  PROVE  /\ DataOK(t) /\ ~ t.inited /\ t.cache = NoCache /\ t.seen = {}
         /\ t.tomb \in {None, x}
<1>1. /\ t.flushAt = None /\ t.cache = NoCache /\ t.alerts = [a \in Pairs |-> NoAlert]
      /\ t.kpi = [k \in {} |-> None] /\ t.rules = [r \in {} |-> None]
      /\ t.tomb \in {None, x} /\ ~ t.inited /\ t.seen = {}
  BY DEF NewRoom
<1>2. DOMAIN t.kpi = {} /\ DOMAIN t.rules = {}
  BY <1>1
<1> QED
  BY <1>1, <1>2, EmptyData

(* The alarm is a time the instance has.                                   *)
LEMMA RescheduledTime ==
  ASSUME NEW s, RoomOK(s), TimesOK(s) PROVE Rescheduled(s) \in Times \cup {None}
<1>1. Wakes(s) \subseteq Times
  BY DEF Wakes, TimesOK, Scheduled
<1>2. Due(s) \in Times \cup {None}
  BY <1>1, DueLeast
<1> QED
  BY <1>2 DEF Rescheduled, TimesOK

-----------------------------------------------------------------------------
(* Domain events are numbered as they are written; the queue holds each at *)
(* most once, and no two consumers hold the same.                          *)
EventsOK ==
  /\ IsFiniteSet(events)
  /\ {e.n : e \in events} = 1 .. Cardinality(events)
  /\ \A e, f \in events : e.n = f.n => e = f
  /\ \A e \in events : e.rid \in Rids /\ e.changed \subseteq {"p", "q"}
QueueOK == queue \in [1 .. Cardinality(events) -> (0 .. MaxRetries) \cup {None}]
HeldOK ==
  /\ \A c \in Consumers : work[c].evs \subseteq Queued
  /\ \A c, d \in Consumers : c # d => work[c].evs \cap work[d].evs = {}
  /\ \A c \in Consumers : work[c].pc = "idle" => work[c].evs = {}
EventInv == EventsOK /\ QueueOK /\ HeldOK

LEMMA EventNumbers ==
  ASSUME EventsOK, QueueOK
  PROVE  /\ DOMAIN queue = 1 .. Cardinality(events) /\ Cardinality(events) \in Nat
         /\ \A e \in events : e.n \in DOMAIN queue
         /\ \A n \in DOMAIN queue : queue[n] \in (0 .. MaxRetries) \cup {None}
BY FS_CardinalityType DEF EventsOK, QueueOK

(* The queue after E was acknowledged or is to be retried.                 *)
LEMMA QueueTaken ==
  ASSUME EventsOK, QueueOK, UNCHANGED events, NEW E, E \subseteq Queued,
         UNCHANGED queue \/ queue' = Acked(E) \/ Retry(E)
  PROVE  QueueOK' /\ Queued \ E \subseteq Queued'
<1>1. /\ DOMAIN queue = 1 .. Cardinality(events)
      /\ \A e \in events : e.n \in DOMAIN queue
      /\ \A n \in DOMAIN queue : queue[n] \in (0 .. MaxRetries) \cup {None}
  BY EventNumbers
<1>2. E \subseteq events /\ \A e \in E : queue[e.n] # None
  BY DEF Queued
<1>3. ASSUME NEW e \in Queued \ E PROVE e \in events /\ ~ \E x \in E : x.n = e.n
  BY <1>2 DEF Queued, EventsOK
<1>4. CASE UNCHANGED queue
  BY <1>4 DEF QueueOK, Queued
<1>5. CASE queue' = Acked(E)
  <2>1. queue' = [n \in DOMAIN queue |-> IF \E e \in E : e.n = n THEN None ELSE queue[n]]
    BY <1>5 DEF Acked
  <2>2. QueueOK'
    BY <1>1, <2>1 DEF QueueOK
  <2>3. ASSUME NEW e \in Queued \ E PROVE e \in Queued'
    <3>1. queue'[e.n] = queue[e.n]
      BY <1>1, <1>3, <2>1
    <3> QED
      BY <1>3, <3>1 DEF Queued
  <2> QED
    BY <2>2, <2>3
<1>6. CASE Retry(E)
  <2>1. queue' = [n \in DOMAIN queue |->
                    IF ~\E e \in E : e.n = n THEN queue[n]
                    ELSE IF queue[n] < MaxRetries THEN queue[n] + 1 ELSE None]
    BY <1>6 DEF Retry
  <2>2. ASSUME NEW n \in DOMAIN queue PROVE queue'[n] \in (0 .. MaxRetries) \cup {None}
    <3>1. CASE \E e \in E : e.n = n
      <4>1. queue[n] \in 0 .. MaxRetries /\ MaxRetries \in Nat
        BY <1>1, <1>2, <3>1, RoomAssumption
      <4>2. queue'[n] = IF queue[n] < MaxRetries THEN queue[n] + 1 ELSE None
        BY <2>1, <3>1
      <4> QED
        BY <4>1, <4>2
    <3>2. CASE ~ \E e \in E : e.n = n
      BY <1>1, <2>1, <3>2
    <3> QED
      BY <3>1, <3>2
  <2>3. QueueOK'
    BY <1>1, <2>1, <2>2 DEF QueueOK
  <2>4. ASSUME NEW e \in Queued \ E PROVE e \in Queued'
    <3>1. queue'[e.n] = queue[e.n]
      BY <1>1, <1>3, <2>1
    <3> QED
      BY <1>3, <3>1 DEF Queued
  <2> QED
    BY <2>3, <2>4
<1> QED
  BY <1>4, <1>5, <1>6

LEMMA EventsKept ==
  ASSUME EventsOK, UNCHANGED events PROVE EventsOK'
BY DEF EventsOK

(* Consumers of D are done with what they held.                            *)
LEMMA Released ==
  ASSUME EventInv, UNCHANGED events, NEW D \in SUBSET Consumers,
         NEW E, E = UNION {work[c].evs : c \in D}, Ack(E) \/ Retry(E),
         work' = [c \in Consumers |-> IF c \in D THEN IdleConsumer ELSE work[c]]
  PROVE  EventInv'
<1>1. E \subseteq Queued
  BY DEF EventInv, HeldOK
<1>2. UNCHANGED queue \/ queue' = Acked(E) \/ Retry(E)
  BY DEF Ack
<1>3. EventsOK' /\ QueueOK' /\ Queued \ E \subseteq Queued'
  BY <1>1, <1>2, QueueTaken, EventsKept DEF EventInv
<1>4. IdleConsumer.evs = {}
  BY DEF IdleConsumer
<1>5. ASSUME NEW c \in Consumers
      PROVE  \/ work'[c] = IdleConsumer
             \/ work'[c] = work[c] /\ work[c].evs \cap E = {}
  BY DEF EventInv, HeldOK
<1>6. HeldOK'
  BY <1>3, <1>4, <1>5 DEF EventInv, HeldOK
<1> QED
  BY <1>3, <1>6 DEF EventInv

LEMMA HeldOn ==
  ASSUME EventInv, UNCHANGED <<events, queue>>,
         \A c \in Consumers : /\ work'[c].evs = work[c].evs
                              /\ work'[c].pc = "idle" => work[c].pc = "idle"
  PROVE  EventInv'
<1>1. EventsOK' /\ QueueOK' /\ Queued' = Queued
  BY EventsKept DEF EventInv, QueueOK, Queued
<1> QED
  BY <1>1 DEF EventInv, HeldOK

(* A write appends an event no one has seen.                               *)
NewEvent(r, o) ==
  [n |-> Cardinality(events) + 1, rid |-> r,
   changed |-> IF o = None \/ graph[r] = None THEN (IF o = None THEN {} ELSE {"p", "q"})
               ELSE {f \in {"p", "q"} : o[f] # graph[r][f]}]

LEMMA Written ==
  ASSUME LocalInv, EventInv, NEW r \in Rids, NEW o \in Objects \cup {None}, Write(r, o)
  PROVE  EventInv' /\ events' = events \cup {NewEvent(r, o)} /\ NewEvent(r, o) \notin events
<1>1. PICK e : e = NewEvent(r, o)
  OBVIOUS
<1>2. PICK n : n = Cardinality(events) + 1
  OBVIOUS
<1>3. Cardinality(events) \in Nat /\ DOMAIN queue = 1 .. Cardinality(events)
      /\ n \in Nat
  BY <1>2, EventNumbers DEF EventInv
<1>4. e.n = n /\ e.rid = r /\ e.changed \subseteq {"p", "q"}
  BY <1>1, <1>2 DEF NewEvent
<1>5. /\ events' = events \cup {e}
      /\ \A c \in Consumers : work'[c].pc = work[c].pc /\ work'[c].evs = work[c].evs
  <2>1. events' = events \cup {e}
    BY <1>1, Zenon DEF Write, NewEvent
  <2> QED
    BY <2>1, Marked, MarkedReads
<1>6. queue' = [i \in 1 .. n |-> IF i = n THEN 0 ELSE queue[i]]
  BY <1>2, Zenon DEF Write
<1>7. e \notin events
  BY <1>2, <1>3, <1>4 DEF EventInv, EventsOK
<1>8. IsFiniteSet(events') /\ Cardinality(events') = n
  <2>1. IsFiniteSet(events)
    BY DEF EventInv, EventsOK
  <2>2. IsFiniteSet(events \cup {e}) /\ Cardinality(events \cup {e})
          = IF e \in events THEN Cardinality(events) ELSE Cardinality(events) + 1
    BY <2>1, FS_AddElement
  <2> QED
    BY <1>2, <1>5, <1>7, <2>2
<1>9. EventsOK'
  <2>1. {x.n : x \in events'} = 1 .. n
    <3>1. {x.n : x \in events'} = {x.n : x \in events} \cup {n}
      BY <1>4, <1>5
    <3>2. {x.n : x \in events} = 1 .. Cardinality(events)
      BY DEF EventInv, EventsOK
    <3>3. \A k \in Nat : (1 .. k) \cup {k + 1} = 1 .. (k + 1)
      OBVIOUS
    <3> QED
      BY ONLY <1>2, <1>3, <3>1, <3>2, <3>3
  <2>2. \A x \in events : x.n \in 1 .. Cardinality(events)
    BY DEF EventInv, EventsOK
  <2>3. \A x, y \in events' : x.n = y.n => x = y
    BY <1>2, <1>3, <1>4, <1>5, <2>2 DEF EventInv, EventsOK
  <2>4. \A x \in events' : x.rid \in Rids /\ x.changed \subseteq {"p", "q"}
    BY <1>4, <1>5 DEF EventInv, EventsOK
  <2> QED
    BY <1>8, <2>1, <2>3, <2>4 DEF EventsOK
<1>10. QueueOK'
  <2>1. MaxRetries \in Nat
    BY RoomAssumption
  <2>2. \A i \in 1 .. n : i # n => i \in 1 .. Cardinality(events)
    BY <1>2, <1>3
  <2>3. \A i \in 1 .. Cardinality(events) : queue[i] \in (0 .. MaxRetries) \cup {None}
    BY DEF EventInv, QueueOK
  <2> QED
    BY <1>6, <1>8, <2>1, <2>2, <2>3 DEF QueueOK
<1>11. Queued \subseteq Queued'
  <2> SUFFICES ASSUME NEW x \in Queued PROVE x \in Queued'
    OBVIOUS
  <2>1. x \in events /\ queue[x.n] # None /\ x.n \in 1 .. Cardinality(events)
    BY <1>3, EventNumbers DEF Queued, EventInv
  <2>2. x.n \in 1 .. n /\ x.n # n
    BY <1>2, <1>3, <2>1
  <2>3. queue'[x.n] = queue[x.n]
    BY <1>6, <2>2
  <2> QED
    BY <1>5, <2>1, <2>3 DEF Queued
<1>12. HeldOK'
  BY <1>5, <1>11 DEF EventInv, HeldOK
<1> QED
  BY <1>1, <1>5, <1>7, <1>9, <1>10, <1>12 DEF EventInv

(* The queue hands out what nobody holds.                                  *)
LEMMA Handed ==
  ASSUME EventInv, WorkOK, NEW c \in Consumers, NEW E, Deliver(c, E) PROVE EventInv'
<1>1. UNCHANGED events /\ E \subseteq Queued \ Taken /\ work[c].pc = "idle"
  BY Zenon DEF Deliver, outside
<1>2. CASE queue' = Acked(E) /\ UNCHANGED work
  <2>1. EventsOK' /\ QueueOK' /\ Queued \ E \subseteq Queued'
    BY <1>1, <1>2, QueueTaken, EventsKept DEF EventInv
  <2>2. \A d \in Consumers : work[d].evs \subseteq Queued \ E
    BY <1>1 DEF EventInv, HeldOK, Taken
  <2> QED
    BY <1>2, <2>1, <2>2 DEF EventInv, HeldOK
<1>3. CASE UNCHANGED queue /\ \E x : /\ work' = [work EXCEPT ![c] = x]
                                     /\ x.evs = E /\ x.pc # "idle"
  <2>1. PICK x : work' = [work EXCEPT ![c] = x] /\ x.evs = E /\ x.pc # "idle"
    BY <1>3
  <2>2. EventsOK' /\ QueueOK' /\ Queued' = Queued
    BY <1>1, <1>3, EventsKept DEF EventInv, QueueOK, Queued
  <2>3. \A d \in Consumers : work[d].evs \cap E = {}
    BY <1>1 DEF Taken
  <2>4. \A d \in Consumers : work'[d] = IF d = c THEN x ELSE work[d]
    BY <2>1 DEF WorkOK
  <2> QED
    BY <1>1, <2>1, <2>2, <2>3, <2>4 DEF EventInv, HeldOK
<1>4. PICK x, y : /\ x = [IdleConsumer EXCEPT !.pc = "read", !.evs = E]
                  /\ y = [IdleConsumer EXCEPT !.pc = "init", !.evs = E,
                                              !.tok = Attempt(initializing)]
  OBVIOUS
<1>5. x.evs = E /\ x.pc # "idle" /\ y.evs = E /\ y.pc # "idle"
  BY <1>4 DEF IdleConsumer
<1>6. \/ queue' = Acked(E) /\ UNCHANGED work
      \/ UNCHANGED queue /\ (work' = [work EXCEPT ![c] = x] \/ work' = [work EXCEPT ![c] = y])
  BY <1>4, Zenon DEF Deliver
<1> QED
  BY <1>2, <1>3, <1>5, <1>6, Zenon

(* What the graph, the attempts and the consumers hold.                    *)
GraphInv ==
  /\ graph \in Caches /\ template \in {"sample", "blank"}
  /\ clearing => graph = NoCache
ReadInv ==
  /\ \A t \in Tokens : inits[t].pc # "free" =>
        inits[t].found \in Caches /\ inits[t].todo \subseteq Rids
  /\ \A c \in Consumers : work[c].cur \in Caches
RoomData ==
  /\ DataOK(room) /\ room.seen \subseteq events /\ alarm \in Times \cup {None}

DataInv == EventInv /\ GraphInv /\ ReadInv /\ RoomData

LEMMA SameReads ==
  ASSUME ReadInv, UNCHANGED <<inits, work>> PROVE ReadInv'
BY DEF ReadInv

(* An attempt that starts has found nothing yet.                           *)
LEMMA JoinedReads ==
  ASSUME ReadInv, InitsOK, NEW cur \in Tokens \cup {0}, Join(cur)
  PROVE  /\ \A t \in Tokens : inits'[t] = inits[t] \/ (cur = 0 /\ inits'[t].pc = "schema")
         /\ \A t \in Tokens : inits'[t].pc # "free" =>
              inits'[t].found \in Caches /\ inits'[t].todo \subseteq Rids
<1>1. PICK i : i = [NoInit EXCEPT !.pc = "schema"]
  OBVIOUS
<1>2. i.found = NoCache /\ i.todo = {} /\ i.pc = "schema"
  BY <1>1 DEF NoInit
<1>3. inits' = inits \/ (cur = 0 /\ inits' = [inits EXCEPT ![Attempt(cur)] = i])
  BY <1>1, Zenon DEF Join
<1>4. \A t \in Tokens : inits'[t] = inits[t] \/ (cur = 0 /\ inits'[t] = i)
  BY <1>3 DEF InitsOK
<1> QED
  BY <1>2, <1>4, NoCacheWell DEF ReadInv

LEMMA GraphStep ==
  ASSUME GraphInv, [Next]_vars PROVE GraphInv'
<1> USE DEF GraphInv
<1>1. CASE UNCHANGED outside
  BY <1>1 DEF outside
<1>2. ASSUME NEW r \in Rids, NEW o \in Objects \cup {None}, Write(r, o) PROVE GraphInv'
  <2>1. graph' = [graph EXCEPT ![r] = o] /\ UNCHANGED <<template, clearing>> /\ ~ clearing
    BY <1>2 DEF Write
  <2> QED
    BY <2>1 DEF Caches
<1>3. CASE ClearGraph
  BY <1>3, NoCacheWell DEF ClearGraph
<1>4. CASE ClearRoom
  <2>1. clearing' = FALSE /\ UNCHANGED <<graph, template>>
    BY <1>4, Zenon DEF ClearRoom
  <2> QED
    BY <2>1
<1>5. CASE UNCHANGED vars
  BY <1>1, <1>5 DEF vars
<1>6. CASE ResetForTemplate \/ Ring \/ RunAlarm \/ CloseStreams \/ PurgeRoom \/ Tick
  BY <1>1, <1>6, Zenon DEF ResetForTemplate, Ring, RunAlarm, CloseStreams, PurgeRoom, Tick
<1>7. CASE \E c \in Consumers : \/ \E E \in SUBSET Queued : Deliver(c, E)
                                \/ ReadObjects(c) \/ Apply(c) \/ FailRead(c)
  BY <1>1, <1>7, Zenon DEF Deliver, ReadObjects, Apply, FailRead
<1>8. CASE \E t \in Tokens : ReadSchema(t) \/ ReadPage(t) \/ FinishInit(t) \/ FailInit(t)
  BY <1>1, <1>8, Zenon DEF ReadSchema, ReadPage, FinishInit, FailInit
<1>9. ASSUME NEW u \in Callers, StartCall(u) PROVE GraphInv'
  <2>1. PICK kind, id, def : Call(u, kind, id, def)
    BY <1>9, Zenon DEF StartCall
  <2> QED
    BY <1>1, <2>1, Zenon DEF Call
<1>10. CASE \/ \E u \in Callers : CheckType(u) \/ CommitRule(u)
            \/ \E a \in Pairs : Acknowledge(a)
  BY <1>1, <1>10, Zenon DEF CheckType, CommitRule, Acknowledge
<1> QED
  BY <1>2, <1>3, <1>4, <1>5, <1>6, <1>7, <1>8, <1>9, <1>10 DEF Next, Service

LEMMA ReadStep ==
  ASSUME LocalInv, GraphInv, ReadInv, [Next]_vars PROVE ReadInv'
<1>0. IdleConsumer.cur \in Caches /\ NoInit.pc = "free"
  BY NoCacheWell DEF IdleConsumer, NoInit
<1>1. CASE UNCHANGED vars
  BY <1>1, SameReads DEF vars, memory
<1>2. CASE ClearGraph \/ \E r \in Rids, o \in Objects \cup {None} : Write(r, o)
  BY <1>2, Marked, MarkedReads DEF ReadInv
<1>3. ASSUME NEW a \in Pairs, Acknowledge(a) PROVE ReadInv'
  BY <1>3, SameReads DEF Acknowledge, memory
<1>4. CASE Ring \/ RunAlarm \/ CloseStreams \/ PurgeRoom \/ Tick
  BY <1>4, SameReads DEF Ring, RunAlarm, CloseStreams, PurgeRoom, Tick, memory
<1>5. CASE ResetForTemplate \/ ClearRoom
  <2>1. Join(0) /\ UNCHANGED work
    BY <1>5 DEF ResetForTemplate, ClearRoom, Restart
  <2> QED
    BY <2>1, JoinedReads DEF ReadInv, LocalInv
<1>6. ASSUME NEW c \in Consumers, NEW E \in SUBSET Queued, Deliver(c, E) PROVE ReadInv'
  <2>1. PICK x, y : /\ x = [IdleConsumer EXCEPT !.pc = "read", !.evs = E]
                    /\ y = [IdleConsumer EXCEPT !.pc = "init", !.evs = E,
                                                !.tok = Attempt(initializing)]
    OBVIOUS
  <2>2. x.cur \in Caches /\ y.cur \in Caches
    BY <2>1, NoCacheWell DEF IdleConsumer
  <2>3. /\ UNCHANGED memory \/ Join(initializing)
        /\ UNCHANGED work \/ work' = [work EXCEPT ![c] = x] \/ work' = [work EXCEPT ![c] = y]
    BY <1>6, <2>1, Zenon DEF Deliver
  <2>4. \A d \in Consumers : work'[d].cur \in Caches
    BY <2>2, <2>3 DEF ReadInv, LocalInv, WorkOK
  <2>5. CASE UNCHANGED memory
    BY <2>4, <2>5 DEF ReadInv, memory
  <2>6. CASE Join(initializing)
    BY <2>4, <2>6, JoinedReads DEF ReadInv, LocalInv, SharedAtWork
  <2> QED
    BY <2>3, <2>5, <2>6
<1>7. ASSUME NEW c \in Consumers, ReadObjects(c) PROVE ReadInv'
  <2>1. PICK cur : cur = [r \in Rids |->
                            IF \E e \in work[c].evs : e.rid = r THEN graph[r] ELSE None]
    OBVIOUS
  <2>2. work' = [work EXCEPT ![c].pc = "apply", ![c].cur = cur] /\ UNCHANGED inits
    BY <1>7, <2>1 DEF ReadObjects, memory
  <2>3. cur \in Caches
    BY <2>1 DEF GraphInv, Caches
  <2>4. \A d \in Consumers : work'[d].cur = IF d = c THEN cur ELSE work[d].cur
    BY <2>2 DEF LocalInv, WorkOK, ConsumerFields
  <2> QED
    BY <2>2, <2>3, <2>4 DEF ReadInv
<1>8. ASSUME NEW c \in Consumers, Apply(c) \/ FailRead(c) PROVE ReadInv'
  <2>1. work' = [work EXCEPT ![c] = IdleConsumer] /\ UNCHANGED inits
    BY <1>8, Zenon DEF Apply, FailRead, memory
  <2> QED
    BY <1>0, <2>1 DEF ReadInv, LocalInv, WorkOK
<1>9. ASSUME NEW t \in Tokens, ReadSchema(t) PROVE ReadInv'
  <2>1. PICK i : i = [pc |-> "pages", tpl |-> template, found |-> NoCache, todo |-> Rids,
                      late |-> {}]
    OBVIOUS
  <2>2. inits' = [inits EXCEPT ![t] = i] /\ UNCHANGED work
    BY <1>9, <2>1 DEF ReadSchema
  <2> QED
    BY <2>1, <2>2, NoCacheWell DEF ReadInv, LocalInv, InitsOK
<1>10. ASSUME NEW t \in Tokens, ReadPage(t) PROVE ReadInv'
  <2>1. PICK r : r = Min(inits[t].todo)
    OBVIOUS
  <2>2. /\ inits' = [[inits EXCEPT ![t].found[r] = graph[r]] EXCEPT ![t].todo = @ \ {r}]
        /\ UNCHANGED work /\ inits[t].pc = "pages" /\ inits[t].todo # {}
    BY <1>10, <2>1 DEF ReadPage
  <2>3. r \in Rids
    BY <2>1, <2>2, RoomAssumption, LeastNumber DEF ReadInv
  <2>4. /\ DOMAIN inits[t] = InitFields /\ DOMAIN inits = Tokens
        /\ inits[t].found \in Caches /\ inits[t].todo \subseteq Rids
    BY <2>2 DEF ReadInv, LocalInv, InitsOK
  <2>5. PICK f : f = [inits[t].found EXCEPT ![r] = graph[r]]
    OBVIOUS
  <2>6. f \in Caches
    BY <2>3, <2>4, <2>5 DEF GraphInv, Caches
  <2>7. inits' = [inits EXCEPT ![t] = [inits[t] EXCEPT !.found = f, !.todo = inits[t].todo \ {r}]]
    BY <2>2, <2>4, <2>5 DEF InitFields
  <2>8. PICK i : i = [inits[t] EXCEPT !.found = f, !.todo = inits[t].todo \ {r}]
    OBVIOUS
  <2>9. i.found = f /\ i.todo \subseteq Rids
    BY <2>4, <2>8 DEF InitFields
  <2>10. inits' = [inits EXCEPT ![t] = i]
    BY <2>7, <2>8
  <2> QED
    BY <2>2, <2>4, <2>6, <2>9, <2>10 DEF ReadInv
<1>11. ASSUME NEW t \in Tokens, FinishInit(t) \/ FailInit(t) PROVE ReadInv'
  <2>1. /\ inits' = [inits EXCEPT ![t] = NoInit]
        /\ work' = [c \in Consumers |-> IF c \in Waiting(t) THEN IdleConsumer ELSE work[c]]
    BY <1>11, Zenon DEF FinishInit, FailInit
  <2> QED
    BY <1>0, <2>1 DEF ReadInv, LocalInv, InitsOK
<1>12. ASSUME NEW u \in Callers, StartCall(u) PROVE ReadInv'
  <2>1. PICK kind, id, def : Call(u, kind, id, def)
    BY <1>12, Zenon DEF StartCall
  <2>2. UNCHANGED work /\ (UNCHANGED memory \/ Join(initializing))
    BY <2>1, Zenon DEF Call
  <2>3. CASE UNCHANGED memory
    BY <2>2, <2>3, SameReads DEF memory
  <2>4. CASE Join(initializing)
    BY <2>2, <2>4, JoinedReads DEF ReadInv, LocalInv, SharedAtWork
  <2> QED
    BY <2>2, <2>3, <2>4
<1>13. ASSUME NEW u \in Callers, CheckType(u) \/ CommitRule(u) PROVE ReadInv'
  BY <1>13, SameReads DEF CheckType, CommitRule, memory
<1> QED
  BY <1>1, <1>2, <1>3, <1>4, <1>5, <1>6, <1>7, <1>8, <1>9, <1>10, <1>11, <1>12, <1>13
     DEF Next, Service

LEMMA EventStep ==
  ASSUME LocalInv, EventInv, [Next]_vars PROVE EventInv'
<1>1. CASE UNCHANGED <<events, queue, work>>
  BY <1>1, HeldOn
<1>2. ASSUME NEW r \in Rids, NEW o \in Objects \cup {None}, Write(r, o) PROVE EventInv'
  BY <1>2, Written
<1>3. ASSUME NEW a \in Pairs, Acknowledge(a) PROVE EventInv'
  BY <1>1, <1>3, Zenon DEF Acknowledge, outside
<1>4. CASE \/ Ring \/ RunAlarm \/ CloseStreams \/ PurgeRoom \/ Tick
           \/ ResetForTemplate \/ ClearRoom
  BY <1>1, <1>4, Zenon DEF Ring, RunAlarm, CloseStreams, PurgeRoom, Tick,
     ResetForTemplate, ClearRoom, outside
<1>5. CASE UNCHANGED vars \/ ClearGraph
  <2>1. CASE UNCHANGED vars
    BY <1>1, <2>1 DEF vars, outside
  <2>2. CASE ClearGraph
    <3>1. UNCHANGED <<events, queue>>
      BY <2>2, Zenon DEF ClearGraph
    <3> QED
      BY <2>2, <3>1, Marked, MarkedReads, HeldOn
  <2> QED
    BY <1>5, <2>1, <2>2
<1>6. ASSUME NEW c \in Consumers, NEW E \in SUBSET Queued, Deliver(c, E) PROVE EventInv'
  BY <1>6, Handed DEF LocalInv
<1>7. ASSUME NEW c \in Consumers, ReadObjects(c) PROVE EventInv'
  <2>1. PICK cur : work' = [work EXCEPT ![c].pc = "apply", ![c].cur = cur]
    BY <1>7, Zenon DEF ReadObjects
  <2>2. UNCHANGED <<events, queue>>
    BY <1>7 DEF ReadObjects, outside
  <2>3. \A d \in Consumers : /\ work'[d].evs = work[d].evs
                             /\ work'[d].pc = IF d = c THEN "apply" ELSE work[d].pc
    BY <2>1 DEF LocalInv, WorkOK, ConsumerFields
  <2> QED
    BY <2>2, <2>3, HeldOn
<1>8. ASSUME NEW c \in Consumers, Apply(c) \/ FailRead(c) PROVE EventInv'
  <2>1. /\ work' = [work EXCEPT ![c] = IdleConsumer] /\ UNCHANGED events
        /\ Ack(work[c].evs) \/ Retry(work[c].evs)
    BY <1>8, Zenon DEF Apply, FailRead, outside
  <2>2. PICK D : D = {c}
    OBVIOUS
  <2>3. PICK E : E = UNION {work[d].evs : d \in D}
    OBVIOUS
  <2>4. E = work[c].evs /\ D \in SUBSET Consumers
    BY <2>2, <2>3
  <2>5. work' = [d \in Consumers |-> IF d \in D THEN IdleConsumer ELSE work[d]]
    <3>1. work' = [d \in Consumers |-> IF d = c THEN IdleConsumer ELSE work[d]]
      BY <2>1 DEF LocalInv, WorkOK
    <3> QED
      BY <2>2, <3>1
  <2>6. Ack(E) \/ Retry(E)
    BY <2>1, <2>4
  <2> QED
    BY <2>1, <2>3, <2>4, <2>5, <2>6, Released
<1>9. ASSUME NEW t \in Tokens, ReadSchema(t) \/ ReadPage(t) PROVE EventInv'
  BY <1>1, <1>9, Zenon DEF ReadSchema, ReadPage, outside
<1>10. ASSUME NEW t \in Tokens, FinishInit(t) \/ FailInit(t) PROVE EventInv'
  <2>1. PICK D : D = Waiting(t)
    OBVIOUS
  <2>2. PICK E : E = UNION {work[c].evs : c \in D}
    OBVIOUS
  <2>3. /\ Ack(E) \/ Retry(E)
        /\ work' = [c \in Consumers |-> IF c \in D THEN IdleConsumer ELSE work[c]]
        /\ UNCHANGED events
    BY <1>10, <2>1, <2>2, Zenon DEF FinishInit, FailInit, outside
  <2>4. D \in SUBSET Consumers
    BY <2>1 DEF Waiting
  <2> QED
    BY <2>2, <2>3, <2>4, Released
<1>11. ASSUME NEW u \in Callers, StartCall(u) PROVE EventInv'
  <2>1. PICK kind, id, def : Call(u, kind, id, def)
    BY <1>11, Zenon DEF StartCall
  <2> QED
    BY <1>1, <2>1, Zenon DEF Call, outside
<1>12. ASSUME NEW u \in Callers, CheckType(u) \/ CommitRule(u) PROVE EventInv'
  BY <1>1, <1>12, Zenon DEF CheckType, CommitRule, outside
<1> QED
  BY <1>2, <1>3, <1>4, <1>5, <1>6, <1>7, <1>8, <1>9, <1>10, <1>11, <1>12 DEF Next, Service

LEMMA SameRoomData ==
  ASSUME RoomData, room' = room, events \subseteq events', alarm' \in Times \cup {None}
  PROVE  RoomData'
BY DEF RoomData

LEMMA OtherRoomData ==
  ASSUME RoomData, RoomOK(room), TimesOK(room), NEW s, DataOK(s), RoomOK(s), room' = s,
         s.seen \subseteq events, events \subseteq events',
         \/ UNCHANGED alarm \/ alarm' \in Times \cup {None} \/ alarm' = Rescheduled(s)
  PROVE  RoomData'
<1>1. alarm' \in Times \cup {None}
  BY RescheduledTime DEF DataOK, RoomData
<1> QED
  BY <1>1 DEF RoomData

(* touch, and the flags of a room.                                         *)
LEMMA TouchedData ==
  ASSUME NEW s, RoomOK(s), DataOK(s), NEW t,
         \/ t = Touched(s) \/ t = [s EXCEPT !.bound = TRUE] \/ t = [s EXCEPT !.inactive = TRUE]
         \/ \E E : t = [s EXCEPT !.seen = @ \cup E]
  PROVE  /\ RoomOK(t) /\ DataOK(t) /\ t.cache = s.cache /\ t.inited = s.inited
         /\ t.alerts = s.alerts /\ t.rules = s.rules /\ t.tomb = s.tomb
<1>1. /\ DOMAIN t = DOMAIN s /\ {t.bound, t.inited, t.inactive} \subseteq BOOLEAN
      /\ t.cache = s.cache /\ t.kpi = s.kpi
      /\ t.alerts = s.alerts /\ t.rules = s.rules /\ t.flushAt = s.flushAt
      /\ t.tomb = s.tomb /\ t.inited = s.inited /\ t.point = s.point
  BY Fields DEF RoomOK, Touched
<1>2. Scheduled(t) = Scheduled(s)
  BY <1>1 DEF Scheduled
<1>3. RoomOK(t)
  BY <1>1, <1>2 DEF RoomOK
<1>4. DataOK(t)
  BY <1>1, SameData
<1> QED
  BY <1>1, <1>3, <1>4

(* A room that a template or a clear restarts.                             *)
LEMMA RestartedData ==
  ASSUME NEW s, RoomOK(s), DataOK(s), NEW u, NEW t,
         \/ u = [s EXCEPT !.kpi = [k \in {} |-> None], !.rules = [r \in {} |-> None]]
         \/ u = [s EXCEPT !.cache = NoCache, !.kpi = [k \in {} |-> None],
                          !.point = [k \in Kpis |-> None], !.rules = [r \in {} |-> None],
                          !.alerts = [a \in Pairs |-> NoAlert]],
         t = [u EXCEPT !.inited = FALSE, !.bound = TRUE, !.inactive = FALSE]
  PROVE  DataOK(t) /\ t.seen = s.seen
<1>1. /\ DOMAIN u = DOMAIN NewRoom /\ u.kpi = [k \in {} |-> None] /\ u.rules = [r \in {} |-> None]
      /\ u.flushAt = s.flushAt /\ u.tomb = s.tomb /\ u.seen = s.seen
      /\ \/ u.cache = s.cache /\ u.alerts = s.alerts
         \/ u.cache = NoCache /\ u.alerts = [a \in Pairs |-> NoAlert]
  BY Fields DEF RoomOK
<1>2. /\ t.kpi = u.kpi /\ t.rules = u.rules /\ t.flushAt = u.flushAt /\ t.tomb = u.tomb
      /\ t.cache = u.cache /\ t.alerts = u.alerts /\ t.inited = FALSE /\ t.seen = u.seen
  BY ONLY <1>1, t = [u EXCEPT !.inited = FALSE, !.bound = TRUE, !.inactive = FALSE], Fields
<1>3. DOMAIN t.kpi = {} /\ DOMAIN t.rules = {}
  BY <1>1, <1>2
<1>4. /\ t.flushAt \in Times \cup {None} /\ t.tomb \in Times \cup {None} /\ s.cache \in Caches
      /\ AlertsOK(s)
  BY <1>1, <1>2 DEF DataOK, TimesOK
<1>5. \/ t.cache = NoCache /\ t.alerts = [a \in Pairs |-> NoAlert]
      \/ t.cache \in Caches /\ AlertsOK(t)
  BY <1>1, <1>2, <1>4 DEF AlertsOK
<1>6. DataOK(t)
  BY <1>2, <1>3, <1>4, <1>5, EmptyData
<1> QED
  BY <1>1, <1>2, <1>6

(* The steps that change rules, alerts and flags only.                     *)
LEMMA SettledSame ==
  ASSUME NEW s, NEW t, t.cache = s.cache, t.seen = s.seen, t.inited = s.inited,
         t.alerts = s.alerts, t.rules = s.rules
  PROVE  Settled(s, t)
BY DEF Settled, Disagrees, ThresholdRules

LEMMA SettledStep ==
  ASSUME RoomInv, DataInv,
         \/ \E a \in Pairs : Acknowledge(a)
         \/ \E u \in Callers : StartCall(u) \/ CommitRule(u)
         \/ \E c \in Consumers, E \in SUBSET Queued : Deliver(c, E)
         \/ CloseStreams
         \/ RunAlarm /\ (room.tomb = None \/ room' = room)
  PROVE  DataOK(room') /\ Settled(room, room')
<1>0. RoomOK(room) /\ DataOK(room) /\ ClockOK
  BY DEF RoomInv, RoomKept, DataInv, RoomData
<1>1. CASE room' = room
  BY <1>0, <1>1, SettledSame
<1>2. CASE \/ room' = Touched(room) \/ room' = [room EXCEPT !.bound = TRUE]
           \/ room' = [room EXCEPT !.inactive = TRUE]
  <2>1. DataOK(room')
    BY <1>0, <1>2, TouchedData
  <2>2. /\ room'.cache = room.cache /\ room'.seen = room.seen /\ room'.inited = room.inited
        /\ room'.alerts = room.alerts /\ room'.rules = room.rules
    BY <1>0, <1>2, Fields DEF RoomOK, Touched
  <2> QED
    BY <2>1, <2>2, SettledSame
<1>3. CASE \E a \in Pairs : Acknowledge(a)
  <2>1. PICK a \in Pairs :
          room' = [Touched(room) EXCEPT !.alerts[a].active = [i \in DOMAIN @ |-> "ACKED"]]
    BY <1>3, Zenon DEF Acknowledge
  <2> QED
    BY <1>0, <2>1, AckedData
<1>4. ASSUME NEW u \in Callers, StartCall(u) PROVE DataOK(room') /\ Settled(room, room')
  <2>1. PICK kind, id, def : Call(u, kind, id, def)
    BY <1>4, Zenon DEF StartCall
  <2>2. PICK s : s = Touched(room)
    OBVIOUS
  <2>3. room' = s \/ room' = Deleted(s, id)
    BY <2>1, <2>2, Zenon DEF Call
  <2>4. RoomOK(s) /\ DataOK(s)
    BY <1>0, <2>2, TouchedData
  <2>5. /\ s.cache = room.cache /\ s.seen = room.seen /\ s.inited = room.inited
        /\ s.alerts = room.alerts /\ s.rules = room.rules
    BY <1>0, <2>2, Fields DEF RoomOK, Touched
  <2>6. CASE room' = Deleted(s, id)
    <3>1. DataOK(room') /\ Settled(s, room')
      BY <1>0, <2>4, <2>6, DeletedData
    <3> QED
      BY <2>5, <3>1 DEF Settled, Disagrees, ThresholdRules
  <2> QED
    BY <1>2, <2>2, <2>3, <2>6
<1>5. ASSUME NEW u \in Callers, CommitRule(u) PROVE DataOK(room') /\ Settled(room, room')
  <2>1. PICK c : c = calls[u]
    OBVIOUS
  <2>2. \/ room' = room
        \/ /\ Accepts(room, c)
           /\ room' = IF c.kind = "delete" THEN Deleted(room, c.id) ELSE Stored(room, c)
    BY <1>5, <2>1, Zenon DEF CommitRule
  <2>3. CASE /\ Accepts(room, c)
             /\ room' = IF c.kind = "delete" THEN Deleted(room, c.id) ELSE Stored(room, c)
    <3>1. CASE c.kind = "delete"
      BY <1>0, <2>3, <3>1, DeletedData
    <3>2. CASE c.kind # "delete"
      <4>1. c.pc = "commit" /\ CallOK(c)
        BY <1>5, <2>1 DEF CommitRule, RoomInv, LocalInv, CallsOK
      <4>2. c.kind \in {"create", "put"}
        BY <3>2, <4>1 DEF CallOK
      <4>3. c.id \in Rules /\ (c.kind # "create" => c.id \in DOMAIN room.rules)
        BY <2>3, <4>1, <4>2 DEF CallOK, Accepts
      <4> QED
        BY <1>0, <2>3, <3>2, <4>3, StoredData
    <3> QED
      BY <3>1, <3>2
  <2> QED
    BY <1>1, <2>2, <2>3
<1>6. CASE \E c \in Consumers, E \in SUBSET Queued : Deliver(c, E)
  BY <1>1, <1>2, <1>6, Zenon DEF Deliver
<1>7. CASE CloseStreams
  BY <1>1, <1>2, <1>7, Zenon DEF CloseStreams
<1>8. CASE RunAlarm /\ room.tomb = None
  <2>1. room' = room \/ room' = Ran(room)
    BY <1>8, Zenon DEF RunAlarm
  <2> QED
    BY <1>0, <1>1, <2>1, RanData
<1> QED
  BY <1>1, <1>3, <1>4, <1>5, <1>6, <1>7, <1>8

LEMMA RoomDataStep ==
  ASSUME RoomInv, RoomOK(room'), DataInv, [Next]_vars PROVE RoomData'
<1>0. /\ RoomOK(room) /\ DataOK(room) /\ TimesOK(room) /\ RoomData /\ ClockOK
      /\ room.seen \subseteq events /\ alarm \in Times \cup {None}
  BY DEF RoomInv, RoomKept, DataInv, RoomData, DataOK
<1>1. CASE UNCHANGED <<room, alarm, events>>
  BY <1>0, <1>1, SameRoomData
<1>2. ASSUME NEW r \in Rids, NEW o \in Objects \cup {None}, Write(r, o) PROVE RoomData'
  <2>1. UNCHANGED <<room, alarm>> /\ events \subseteq events'
    BY <1>2, Zenon DEF Write
  <2> QED
    BY <1>0, <2>1, SameRoomData
<1>3. CASE UNCHANGED vars \/ ClearGraph \/ Tick
  BY <1>1, <1>3, Zenon DEF ClearGraph, Tick, vars, outside
<1>4. CASE Ring
  <2>1. UNCHANGED <<room, events>> /\ alarm' = None
    BY <1>4, Zenon DEF Ring, outside
  <2> QED
    BY <1>0, <2>1, SameRoomData
<1>5. ASSUME NEW c \in Consumers, FailRead(c) \/ ReadObjects(c) PROVE RoomData'
  BY <1>1, <1>5, Zenon DEF FailRead, ReadObjects, outside
<1>6. ASSUME NEW t \in Tokens, ReadSchema(t) \/ ReadPage(t) PROVE RoomData'
  BY <1>1, <1>6, Zenon DEF ReadSchema, ReadPage, outside
<1>7. ASSUME NEW a \in Pairs, Acknowledge(a) PROVE RoomData'
  <2>1. UNCHANGED <<alarm, events>>
    BY <1>7, Zenon DEF Acknowledge, outside
  <2>2. DataOK(room') /\ room'.seen = room.seen
    BY <1>7, SettledStep DEF Settled
  <2> QED
    BY <1>0, <2>1, <2>2, OtherRoomData
<1>8. CASE ResetForTemplate \/ ClearRoom
  <2>1. PICK u : /\ \/ u = [room EXCEPT !.kpi = [k \in {} |-> None], !.rules = [r \in {} |-> None]]
                    \/ u = [room EXCEPT !.cache = NoCache, !.kpi = [k \in {} |-> None],
                            !.point = [k \in Kpis |-> None], !.rules = [r \in {} |-> None],
                            !.alerts = [a \in Pairs |-> NoAlert]]
                 /\ room' = [u EXCEPT !.inited = FALSE, !.bound = TRUE, !.inactive = FALSE]
                 /\ UNCHANGED <<alarm, events>>
    BY <1>8, Zenon DEF ResetForTemplate, ClearRoom, Restart, outside
  <2>2. DataOK(room') /\ room'.seen = room.seen
    BY <1>0, <2>1, RestartedData
  <2> QED
    BY <1>0, <2>1, <2>2, OtherRoomData
<1>9. CASE CloseStreams
  <2>1. alarm' = Rescheduled(room') /\ UNCHANGED events
    BY <1>9, Zenon DEF CloseStreams, Reschedule, outside
  <2>2. DataOK(room') /\ room'.seen = room.seen
    BY <1>9, SettledStep DEF Settled
  <2> QED
    BY <1>0, <2>1, <2>2, OtherRoomData
<1>10. CASE PurgeRoom
  <2>1. PICK x : x = now + TombTtl
    OBVIOUS
  <2>2. room' = [NewRoom EXCEPT !.tomb = x] /\ alarm' = x /\ UNCHANGED events
    BY <1>10, <2>1, Zenon DEF PurgeRoom, outside
  <2>3. x \in Times
    BY <1>0, <2>1, NowIsTime
  <2>4. DataOK(room') /\ room'.seen = {}
    BY <2>2, <2>3, NewRoomData
  <2> QED
    BY <1>0, <2>2, <2>3, <2>4, OtherRoomData
<1>11. CASE RunAlarm
  <2>0. UNCHANGED events
    BY <1>11, Zenon DEF RunAlarm, outside
  <2>1. CASE room' = NewRoom /\ alarm' = None
    <3>1. DataOK(room') /\ room'.seen = {}
      BY <2>1, NewRoomData
    <3> QED
      BY <1>0, <2>0, <2>1, <3>1, OtherRoomData
  <2>2. CASE room' = room /\ (alarm' = Rescheduled(room) \/ alarm' = room.tomb)
    <3>1. room.tomb \in Times \cup {None}
      BY <1>0 DEF TimesOK
    <3> QED
      BY <1>0, <2>0, <2>2, <3>1, OtherRoomData
  <2>3. CASE room.tomb = None /\ alarm' = Rescheduled(room')
    <3>1. DataOK(room') /\ room'.seen = room.seen
      BY <1>11, <2>3, SettledStep DEF Settled
    <3> QED
      BY <1>0, <2>0, <2>3, <3>1, OtherRoomData
  <2> QED
    <3>1. \/ room' = NewRoom /\ alarm' = None
          \/ room' = room /\ (alarm' = Rescheduled(room) \/ alarm' = room.tomb)
          \/ room.tomb = None /\ room' = Ran(room) /\ alarm' = Rescheduled(Ran(room))
      BY <1>11, Zenon DEF RunAlarm, Reschedule
    <3> QED
      BY <2>1, <2>2, <2>3, <3>1
<1>12. ASSUME NEW c \in Consumers, NEW E \in SUBSET Queued, Deliver(c, E) PROVE RoomData'
  <2>1. UNCHANGED <<alarm, events>>
    BY <1>12, Zenon DEF Deliver, outside
  <2>2. DataOK(room') /\ room'.seen = room.seen
    BY <1>12, SettledStep DEF Settled
  <2> QED
    BY <1>0, <2>1, <2>2, OtherRoomData
<1>13. ASSUME NEW c \in Consumers, Apply(c) PROVE RoomData'
  <2>1. PICK todo : todo = work[c].evs \ room.seen
    OBVIOUS
  <2>2. PICK cur : cur = work[c].cur
    OBVIOUS
  <2>3. PICK s : s = Applied(room, todo, cur)
    OBVIOUS
  <2>4. /\ UNCHANGED events
        /\ \/ UNCHANGED <<room, alarm>>
           \/ room' = s /\ (alarm' = Rescheduled(s) \/ UNCHANGED alarm)
    <3>1. UNCHANGED events
      BY <1>13, Zenon DEF Apply, outside
    <3>2. \/ UNCHANGED <<room, alarm>>
          \/ room' = Applied(room, work[c].evs \ room.seen, work[c].cur)
             /\ \/ alarm' = Rescheduled(Applied(room, work[c].evs \ room.seen, work[c].cur))
                \/ UNCHANGED alarm
      BY <1>13, Zenon DEF Apply, Reschedule
    <3> QED
      BY <2>1, <2>2, <2>3, <3>1, <3>2, Zenon
  <2>5. todo \subseteq events /\ cur \in Caches /\ \A e \in todo : e.rid \in Rids
    BY <2>1, <2>2 DEF DataInv, EventInv, EventsOK, HeldOK, ReadInv, Queued
  <2>6. AppliedAs(room, todo, cur, s)
    BY <1>0, <2>3, <2>5, AppliedData
  <2>7. DataOK(s) /\ s.seen = room.seen \cup todo
    BY <2>6 DEF AppliedAs
  <2> QED
    BY <1>0, <1>1, <2>4, <2>5, <2>7, OtherRoomData
<1>14. ASSUME NEW t \in Tokens, FinishInit(t) PROVE RoomData'
  <2>1. PICK s : s = IF MayInstall(room) THEN Install(room, inits[t]) ELSE room
    OBVIOUS
  <2>2. PICK evs : evs = UNION {work[c].evs : c \in Waiting(t)}
    OBVIOUS
  <2>3. /\ room' = IF s.tomb = None THEN [s EXCEPT !.seen = @ \cup evs] ELSE s
        /\ alarm' = Rescheduled(s) \/ UNCHANGED alarm
        /\ UNCHANGED events /\ inits[t].pc = "pages"
    BY <1>14, <2>1, <2>2, Zenon DEF FinishInit, Reschedule, outside
  <2>4. evs \subseteq events
    BY <2>2 DEF DataInv, EventInv, HeldOK, Queued, Waiting
  <2>5. RoomOK(s) /\ DataOK(s) /\ s.seen = room.seen
    <3>1. CASE MayInstall(room)
      <4>1. s = Install(room, inits[t]) /\ ~ room.inited /\ inits[t].found \in Caches
        BY <2>1, <2>3, <3>1 DEF MayInstall, DataInv, ReadInv
      <4>2. RoomOK(s)
        BY <4>1, Installed DEF RoomInv, RoomKept, ClockOK
      <4>3. DataOK(s) /\ s.seen = room.seen
        BY <1>0, <4>1, InstalledData
      <4> QED
        BY <4>2, <4>3
    <3> QED
      BY <1>0, <2>1, <3>1
  <2>6. DataOK(room') /\ room'.seen \subseteq events
    <3>1. CASE room' = s
      BY <1>0, <2>5, <3>1
    <3>2. CASE room' = [s EXCEPT !.seen = @ \cup evs]
      <4>1. room'.seen = s.seen \cup evs
        BY <2>5, <3>2, Fields DEF RoomOK
      <4>2. DataOK(room')
        BY <2>5, <3>2, TouchedData
      <4> QED
        BY <1>0, <2>4, <2>5, <4>1, <4>2
    <3> QED
      BY <2>3, <3>1, <3>2
  <2>7. alarm' \in Times \cup {None}
    <3>1. TimesOK(s)
      BY <2>5 DEF DataOK
    <3> QED
      BY <1>0, <2>3, <2>5, <3>1, RescheduledTime
  <2> QED
    BY <1>0, <2>3, <2>6, <2>7, OtherRoomData
<1>15. ASSUME NEW t \in Tokens, FailInit(t) PROVE RoomData'
  <2>1. UNCHANGED <<room, events>> /\ (alarm' = Rescheduled(room) \/ UNCHANGED alarm)
    BY <1>15, Zenon DEF FailInit, Reschedule, outside
  <2> QED
    BY <1>0, <2>1, OtherRoomData
<1>16. ASSUME NEW u \in Callers, StartCall(u) PROVE RoomData'
  <2>1. PICK kind, id, def : Call(u, kind, id, def)
    BY <1>16, Zenon DEF StartCall
  <2>2. UNCHANGED events /\ (alarm' = Rescheduled(room') \/ UNCHANGED alarm)
    BY <2>1, Zenon DEF Call, Reschedule, outside
  <2>3. DataOK(room') /\ room'.seen = room.seen
    BY <1>16, SettledStep DEF Settled
  <2> QED
    BY <1>0, <2>2, <2>3, OtherRoomData
<1>17. ASSUME NEW u \in Callers, CheckType(u) PROVE RoomData'
  BY <1>1, <1>17, Zenon DEF CheckType, outside
<1>18. ASSUME NEW u \in Callers, CommitRule(u) PROVE RoomData'
  <2>1. UNCHANGED events /\ (alarm' = Rescheduled(room') \/ UNCHANGED alarm)
    BY <1>18, Zenon DEF CommitRule, Reschedule, outside
  <2>2. DataOK(room') /\ room'.seen = room.seen
    BY <1>18, SettledStep DEF Settled
  <2> QED
    BY <1>0, <2>1, <2>2, OtherRoomData
<1> QED
  BY <1>2, <1>3, <1>4, <1>5, <1>6, <1>7, <1>8, <1>9, <1>10, <1>11, <1>12, <1>13, <1>14,
     <1>15, <1>16, <1>17, <1>18 DEF Next, Service

LEMMA DataInvInit == ASSUME Init PROVE DataInv
<1>1. EventInv
  <2>1. events = {} /\ queue = <<>> /\ work = [c \in Consumers |-> IdleConsumer]
    BY DEF Init
  <2>2. IsFiniteSet({}) /\ Cardinality({}) = 0 /\ 1 .. 0 = {} /\ DOMAIN queue = {}
    BY <2>1, FS_EmptySet
  <2>3. IdleConsumer.evs = {}
    BY DEF IdleConsumer
  <2>4. EventsOK
    BY <2>1, <2>2 DEF EventsOK
  <2>5. QueueOK
    <3>1. queue = [i \in 1 .. 0 |-> queue[i]]
      BY <2>1, <2>2
    <3> QED
      BY <2>1, <2>2, <3>1 DEF QueueOK
  <2> QED
    BY <2>1, <2>3, <2>4, <2>5 DEF EventInv, HeldOK
<1>2. GraphInv
  <2>1. /\ graph = [r \in Rids |-> IF r = 1 THEN [p |-> 2, q |-> 1] ELSE None]
        /\ template = "sample" /\ clearing = FALSE
    BY DEF Init
  <2> QED
    BY <2>1, RoomAssumption DEF GraphInv, Caches
<1>3. ReadInv
  <2>1. /\ work = [c \in Consumers |-> IdleConsumer] /\ inits = [t \in Tokens |-> NoInit]
    BY DEF Init
  <2>2. IdleConsumer.cur \in Caches /\ NoInit.pc = "free"
    BY NoCacheWell DEF IdleConsumer, NoInit
  <2> QED
    BY <2>1, <2>2 DEF ReadInv
<1>4. RoomData
  <2>1. room = NewRoom /\ alarm = None
    BY DEF Init
  <2> QED
    BY <2>1, NewRoomData DEF RoomData
<1> QED
  BY <1>1, <1>2, <1>3, <1>4 DEF DataInv

LEMMA DataInvStep ==
  ASSUME RoomInv, RoomInv', DataInv, [Next]_vars PROVE DataInv'
<1>1. LocalInv /\ RoomOK(room')
  BY DEF RoomInv, RoomKept
<1>2. EventInv' /\ GraphInv' /\ ReadInv'
  BY <1>1, EventStep, GraphStep, ReadStep DEF DataInv
<1>3. RoomData'
  BY <1>1, RoomDataStep
<1> QED
  BY <1>2, <1>3 DEF DataInv

LEMMA DataInvHolds == Spec => []DataInv
<1>1. Init => DataInv
  BY DataInvInit
<1>2. RoomInv /\ RoomInv' /\ DataInv /\ [Next]_vars => DataInv'
  BY DataInvStep
<1> QED
  BY <1>1, <1>2, RoomInvHolds, PTL DEF Spec

-----------------------------------------------------------------------------
(* What the cache does not show yet of an object that is not missed has an *)
(* event the room has not seen, and what a read does not show an event     *)
(* that came after it.                                                     *)
Unseen == events \ room.seen
Numbered(L) == {e \in events : e.n \in L}

(* What differs between the values u and v of r is shown by an event of E. *)
Shown(r, u, v, E) ==
  /\ u # None /\ v # None =>
       \A f \in {"p", "q"} : u[f] # v[f] => \E e \in E : e.rid = r /\ f \in e.changed
  /\ u = None /\ v # None => \E e \in E : e.rid = r /\ e.changed = {"p", "q"}
  /\ u # None /\ v = None => \E e \in E : e.rid = r

CacheShown ==
  room.inited /\ ~ clearing =>
    \A r \in Rids \ missed : Shown(r, room.cache[r], graph[r], Unseen)
CurShown ==
  \A c \in Consumers : work[c].pc = "apply" /\ 0 \notin work[c].late =>
    \A r \in RidsOf(work[c].evs) :
      Shown(r, work[c].cur[r], graph[r], Numbered(work[c].late))
FoundShown ==
  \A t \in Tokens : inits[t].pc = "pages" /\ 0 \notin inits[t].late =>
    \A r \in Rids \ inits[t].todo :
      Shown(r, inits[t].found[r], graph[r], Numbered(inits[t].late))

(* An alert that disagrees with the cache waits for an event: one of the   *)
(* property its rule looks at, or any of an object that is gone.           *)
Awaited(i, r, E) ==
  \E e \in E : e.rid = r /\ (graph[r] = None \/ room.rules[i].prop \in e.changed)
AlertsShown ==
  room.inited => \A i \in ThresholdRules(room), r \in Rids \ missed :
    Disagrees(room, i, r) => Awaited(i, r, Unseen)

FreshInv == CacheShown /\ CurShown /\ FoundShown /\ AlertsShown

LEMMA ShownMore ==
  ASSUME NEW r, NEW u, NEW v, NEW E, Shown(r, u, v, E),
         NEW F, \A e \in E : e.rid = r => e \in F
  PROVE  Shown(r, u, v, F)
BY DEF Shown

LEMMA ShownSame == ASSUME NEW r, NEW u, NEW E PROVE Shown(r, u, u, E)
BY DEF Shown

LEMMA ShownWritten ==
  ASSUME NEW r, NEW u, NEW E, NEW o, Shown(r, u, graph[r], E),
         NEW e, e = NewEvent(r, o), NEW F, E \cup {e} \subseteq F
  PROVE  Shown(r, u, o, F)
<1>1. /\ e \in F /\ e.rid = r
      /\ e.changed = IF o = None \/ graph[r] = None THEN (IF o = None THEN {} ELSE {"p", "q"})
                     ELSE {f \in {"p", "q"} : o[f] # graph[r][f]}
  BY DEF NewEvent
<1> PICK v : v = graph[r]
  OBVIOUS
<1>2. CASE u = None
  BY <1>1, <1>2 DEF Shown
<1>3. CASE u # None /\ o = None
  BY <1>1, <1>3 DEF Shown
<1>4. CASE u # None /\ o # None
  <2>1. ASSUME NEW f \in {"p", "q"}, u[f] # o[f] PROVE \E x \in F : x.rid = r /\ f \in x.changed
    <3>1. CASE v = None \/ o[f] # v[f]
      BY <1>1, <1>4, <3>1
    <3>2. CASE v # None /\ o[f] = v[f]
      BY <1>4, <2>1, <3>2 DEF Shown
    <3> QED
      BY <3>1, <3>2
  <2> QED
    BY <1>4, <2>1 DEF Shown
<1> QED
  BY <1>2, <1>3, <1>4

(* Nobody reads, or a reader starts over.                                  *)
LEMMA ReadsKept ==
  ASSUME FreshInv, UNCHANGED <<graph, events>>,
         \A c \in Consumers : work'[c] = work[c] \/ work'[c].pc # "apply",
         \A t \in Tokens : \/ inits'[t] = inits[t] \/ inits'[t].pc # "pages"
                           \/ inits'[t].todo = Rids
  PROVE  CurShown' /\ FoundShown'
<1>1. CurShown'
  BY DEF FreshInv, CurShown, Numbered
<1>2. FoundShown'
  <2> SUFFICES ASSUME NEW t \in Tokens, inits'[t].pc = "pages", 0 \notin inits'[t].late,
                      NEW r \in Rids \ inits'[t].todo
               PROVE  Shown(r, inits'[t].found[r], graph[r], Numbered(inits'[t].late))
    BY DEF FoundShown, Numbered
  <2>1. inits'[t] = inits[t]
    OBVIOUS
  <2> QED
    BY <2>1 DEF FreshInv, FoundShown
<1> QED
  BY <1>1, <1>2

(* Nothing is read or seen, and no alert disagrees anew.                   *)
LEMMA FreshKept ==
  ASSUME FreshInv, UNCHANGED <<graph, events>>, missed \subseteq missed',
         ~ room'.inited \/ (Settled(room, room') /\ UNCHANGED clearing),
         \A c \in Consumers : work'[c] = work[c] \/ work'[c].pc # "apply",
         \A t \in Tokens : \/ inits'[t] = inits[t] \/ inits'[t].pc # "pages"
                           \/ inits'[t].todo = Rids
  PROVE  FreshInv'
<1>1. CurShown' /\ FoundShown'
  BY ReadsKept
<1>2. CASE ~ room'.inited
  BY <1>1, <1>2 DEF FreshInv, CacheShown, AlertsShown
<1>3. CASE Settled(room, room') /\ UNCHANGED clearing
  <2>1. room'.cache = room.cache /\ room'.seen = room.seen /\ room'.inited = room.inited
    BY <1>3 DEF Settled
  <2>2. Unseen' = Unseen
    BY <2>1 DEF Unseen
  <2>3. CacheShown'
    BY <1>3, <2>1, <2>2 DEF FreshInv, CacheShown
  <2>4. AlertsShown'
    <3> SUFFICES ASSUME room'.inited, NEW i \in ThresholdRules(room'), NEW r \in Rids \ missed',
                        Disagrees(room', i, r)
                 PROVE  \E e \in Unseen : e.rid = r /\ (graph[r] = None
                                                        \/ room'.rules[i].prop \in e.changed)
      BY <2>2 DEF AlertsShown, Awaited
    <3>1. i \in ThresholdRules(room) /\ Disagrees(room, i, r)
          /\ room'.rules[i].prop = room.rules[i].prop
      BY <1>3 DEF Settled
    <3> QED
      BY <2>1, <3>1 DEF FreshInv, AlertsShown, Awaited
  <2> QED
    BY <1>1, <2>3, <2>4 DEF FreshInv
<1> QED
  BY <1>2, <1>3

LEMMA SameFresh ==
  ASSUME FreshInv, UNCHANGED <<graph, clearing, events, inits, work, room>>,
         missed \subseteq missed'
  PROVE  FreshInv'
BY SettledSame, FreshKept

(* A write shows what it changes, in the cache and in what was read.       *)
LEMMA FreshWritten ==
  ASSUME RoomInv, DataInv, FreshInv, NEW r \in Rids, NEW o \in Objects \cup {None}, Write(r, o)
  PROVE  FreshInv'
<1>0. LocalInv
  BY DEF RoomInv
<1>1. PICK e : e = NewEvent(r, o)
  OBVIOUS
<1>2. events' = events \cup {e} /\ e \notin events
  BY <1>0, <1>1, Written DEF DataInv
<1>3. PICK n : n = Cardinality(events) + 1
  OBVIOUS
<1>4. e.n = n
  BY <1>1, <1>3 DEF NewEvent
<1>5. /\ graph' = [graph EXCEPT ![r] = o] /\ ~ clearing
      /\ UNCHANGED <<room, clearing, missed>>
      /\ inits' = [t \in Tokens |->
           IF r \notin inits[t].todo THEN Late(inits[t], "pages", n) ELSE inits[t]]
      /\ work' = [c \in Consumers |-> Late(work[c], "apply", n)]
  BY <1>3 DEF Write, ghosts
<1>6. graph'[r] = o /\ \A x \in Rids \ {r} : graph'[x] = graph[x]
  BY <1>5 DEF DataInv, GraphInv, Caches
<1>7. Unseen' = Unseen \cup {e}
  BY <1>2, <1>5 DEF Unseen, DataInv, RoomData
<1>8. ASSUME NEW x \in Rids, NEW w, NEW E, Shown(x, w, graph[x], E), NEW F, E \subseteq F,
             x = r => e \in F
      PROVE  Shown(x, w, graph'[x], F)
  <2>1. CASE x = r
    BY <1>1, <1>6, <1>8, <2>1, ShownWritten
  <2>2. CASE x # r
    <3>1. graph'[x] = graph[x]
      BY <1>6, <2>2
    <3>2. \A y \in E : y.rid = x => y \in F
      BY <1>8
    <3> QED
      BY <1>8, <3>1, <3>2, ShownMore
  <2> QED
    BY <2>1, <2>2
<1>9. CacheShown'
  BY <1>5, <1>7, <1>8 DEF FreshInv, CacheShown
<1>10. ASSUME NEW L, NEW M, L \subseteq M
       PROVE  /\ Numbered(L) \subseteq {y \in events' : y.n \in M}
              /\ n \in M => e \in {y \in events' : y.n \in M}
  BY <1>2, <1>4, <1>10 DEF Numbered
<1>11. CurShown'
  <2> SUFFICES ASSUME NEW c \in Consumers, work'[c].pc = "apply", 0 \notin work'[c].late,
                      NEW x \in RidsOf(work'[c].evs)
               PROVE  Shown(x, work'[c].cur[x], graph'[x], {y \in events' : y.n \in work'[c].late})
    BY DEF CurShown, Numbered
  <2>1. DOMAIN work[c] = ConsumerFields
    BY <1>0 DEF LocalInv, WorkOK
  <2>2. work'[c] = Late(work[c], "apply", n)
    BY <1>5
  <2>3. work[c].pc = "apply"
    BY <2>1, <2>2 DEF Late, ConsumerFields
  <2>4. /\ work'[c].evs = work[c].evs /\ work'[c].cur = work[c].cur
        /\ work'[c].late = work[c].late \cup {n}
    BY <2>1, <2>2, <2>3 DEF Late, ConsumerFields
  <2>5. Shown(x, work[c].cur[x], graph[x], Numbered(work[c].late))
    BY <2>3, <2>4 DEF FreshInv, CurShown
  <2>6. x \in Rids
    BY <2>4 DEF DataInv, EventInv, EventsOK, HeldOK, Queued, RidsOf
  <2>7. work[c].late \subseteq work'[c].late /\ n \in work'[c].late
    BY <2>4
  <2> QED
    BY <1>8, <1>10, <2>4, <2>5, <2>6, <2>7
<1>12. FoundShown'
  <2> SUFFICES ASSUME NEW t \in Tokens, inits'[t].pc = "pages", 0 \notin inits'[t].late,
                      NEW x \in Rids \ inits'[t].todo
               PROVE  Shown(x, inits'[t].found[x], graph'[x], {y \in events' : y.n \in inits'[t].late})
    BY DEF FoundShown, Numbered
  <2>1. DOMAIN inits[t] = InitFields
    BY <1>0 DEF LocalInv, InitsOK
  <2>2. inits'[t] = IF r \notin inits[t].todo THEN Late(inits[t], "pages", n) ELSE inits[t]
    BY <1>5
  <2>3. inits[t].pc = "pages"
    BY <2>1, <2>2 DEF Late, InitFields
  <2>4. /\ inits'[t].todo = inits[t].todo /\ inits'[t].found = inits[t].found
        /\ inits'[t].late = IF r \notin inits[t].todo THEN inits[t].late \cup {n}
                            ELSE inits[t].late
    BY <2>1, <2>2, <2>3 DEF Late, InitFields
  <2>5. Shown(x, inits[t].found[x], graph[x], Numbered(inits[t].late))
    BY <2>3, <2>4 DEF FreshInv, FoundShown
  <2>6. inits[t].late \subseteq inits'[t].late /\ (x = r => n \in inits'[t].late)
    BY <2>4
  <2> QED
    BY <1>8, <1>10, <2>4, <2>5, <2>6
<1>13. AlertsShown'
  <2> SUFFICES ASSUME room.inited, NEW i \in ThresholdRules(room), NEW x \in Rids \ missed,
                      Disagrees(room, i, x)
               PROVE  \E y \in Unseen' : y.rid = x /\ (graph'[x] = None
                                                       \/ room.rules[i].prop \in y.changed)
    BY <1>5 DEF AlertsShown, Awaited
  <2>1. PICK y \in Unseen : y.rid = x /\ (graph[x] = None \/ room.rules[i].prop \in y.changed)
    BY DEF FreshInv, AlertsShown, Awaited
  <2>2. CASE room.rules[i].prop \in y.changed \/ graph'[x] = None
    BY <1>7, <2>1, <2>2
  <2>3. CASE graph[x] = None /\ graph'[x] # None
    <3>1. x = r /\ o # None
      BY <1>6, <2>3
    <3>2. e.rid = r /\ e.changed = {"p", "q"}
      BY <1>1, <2>3, <3>1 DEF NewEvent
    <3>3. room.rules[i].prop \in {"p", "q"}
      BY DEF RoomInv, RoomKept, ThresholdRules, RoomOK, Rule
    <3> QED
      BY <1>7, <3>1, <3>2, <3>3
  <2> QED
    BY <2>1, <2>2, <2>3
<1> QED
  BY <1>9, <1>11, <1>12, <1>13 DEF FreshInv

(* A clear overtakes every read.                                           *)
LEMMA FreshCleared ==
  ASSUME LocalInv, DataInv, FreshInv, ClearGraph PROVE FreshInv'
<1>1. /\ graph' = NoCache /\ clearing' = TRUE /\ UNCHANGED <<events, room, missed>>
      /\ inits' = [t \in Tokens |->
           IF inits[t].todo # Rids THEN Late(inits[t], "pages", 0) ELSE inits[t]]
      /\ work' = [c \in Consumers |-> Late(work[c], "apply", 0)]
  BY DEF ClearGraph, ghosts
<1>2. ASSUME NEW c \in Consumers, work'[c].pc = "apply" PROVE 0 \in work'[c].late
  BY <1>1, <1>2 DEF Late, LocalInv, WorkOK, ConsumerFields
<1>3. ASSUME NEW t \in Tokens, inits'[t].pc = "pages", inits'[t].todo # Rids
      PROVE  0 \in inits'[t].late
  <2>1. DOMAIN inits[t] = InitFields
    BY DEF LocalInv, InitsOK
  <2>2. inits'[t] = IF inits[t].todo # Rids THEN Late(inits[t], "pages", 0) ELSE inits[t]
    BY <1>1
  <2>3. inits[t].todo # Rids /\ inits[t].pc = "pages"
    BY <1>3, <2>1, <2>2 DEF Late, InitFields
  <2> QED
    BY <2>1, <2>2, <2>3 DEF Late, InitFields
<1>4. FoundShown'
  <2> SUFFICES ASSUME NEW t \in Tokens, inits'[t].pc = "pages", 0 \notin inits'[t].late,
                      NEW x \in Rids \ inits'[t].todo
               PROVE  FALSE
    BY DEF FoundShown
  <2> QED
    BY <1>3
<1>5. CurShown' /\ CacheShown'
  BY <1>1, <1>2 DEF CurShown, CacheShown
<1>6. AlertsShown'
  <2>1. Unseen' = Unseen /\ \A r \in Rids : graph'[r] = None
    BY <1>1, NoCacheWell DEF Unseen
  <2> QED
    BY <1>1, <2>1 DEF FreshInv, AlertsShown, Awaited
<1> QED
  BY <1>4, <1>5, <1>6 DEF FreshInv

(* A reader's answer is the graph as it is.                                *)
LEMMA FreshRead ==
  ASSUME LocalInv, DataInv, FreshInv, NEW c \in Consumers, ReadObjects(c)
  PROVE  FreshInv'
<1>1. PICK cur : cur = [r \in Rids |->
                          IF \E e \in work[c].evs : e.rid = r THEN graph[r] ELSE None]
  OBVIOUS
<1>2. /\ work' = [work EXCEPT ![c].pc = "apply", ![c].cur = cur] /\ work[c].pc = "read"
      /\ UNCHANGED <<graph, clearing, events, inits, room, missed>>
  BY <1>1 DEF ReadObjects, outside, memory, ghosts
<1>3. \A d \in Consumers : /\ d # c => work'[d] = work[d]
                           /\ work'[c].evs = work[c].evs /\ work'[c].cur = cur
  BY <1>2 DEF LocalInv, WorkOK, ConsumerFields
<1>4. \A r \in RidsOf(work[c].evs) : r \in Rids /\ cur[r] = graph[r]
  BY <1>1 DEF RidsOf, DataInv, EventInv, EventsOK, HeldOK, Queued
<1>5. CurShown'
  <2> SUFFICES ASSUME NEW d \in Consumers, work'[d].pc = "apply", 0 \notin work'[d].late,
                      NEW r \in RidsOf(work'[d].evs)
               PROVE  Shown(r, work'[d].cur[r], graph[r], Numbered(work'[d].late))
    BY <1>2 DEF CurShown, Numbered
  <2>1. CASE d = c
    BY <1>3, <1>4, <2>1, ShownSame
  <2>2. CASE d # c
    BY <1>3, <2>2 DEF FreshInv, CurShown
  <2> QED
    BY <2>1, <2>2
<1>6. CacheShown' /\ FoundShown' /\ AlertsShown'
  <2>1. CacheShown'
    BY <1>2 DEF FreshInv, CacheShown, Unseen
  <2>2. FoundShown'
    BY <1>2 DEF FreshInv, FoundShown, Numbered
  <2>3. AlertsShown'
    BY <1>2 DEF FreshInv, AlertsShown, Awaited, Numbered, Unseen
  <2> QED
    BY <2>1, <2>2, <2>3
<1> QED
  BY <1>5, <1>6 DEF FreshInv

LEMMA FreshPage ==
  ASSUME LocalInv, DataInv, FreshInv, NEW t \in Tokens, ReadPage(t)
  PROVE  FreshInv'
<1>1. UNCHANGED <<graph, clearing, events, work, room, missed>> /\ inits[t].pc = "pages"
  BY DEF ReadPage, outside, ghosts
<1>2. PICK r : r = Min(inits[t].todo)
  OBVIOUS
<1>3. PICK f : f = [inits[t].found EXCEPT ![r] = graph[r]]
  OBVIOUS
<1>4. PICK i : i = [inits[t] EXCEPT !.found = f, !.todo = inits[t].todo \ {r}]
  OBVIOUS
<1>5. DOMAIN inits[t] = InitFields /\ DOMAIN inits = Tokens /\ inits[t].found \in Caches
  BY <1>1 DEF DataInv, ReadInv, LocalInv, InitsOK
<1>6. inits' = [inits EXCEPT ![t] = i]
  <2>1. inits' = [[inits EXCEPT ![t].found[r] = graph[r]] EXCEPT ![t].todo = @ \ {r}]
    BY <1>2 DEF ReadPage
  <2> QED
    BY <1>3, <1>4, <1>5, <2>1 DEF InitFields
<1>7. i.todo = inits[t].todo \ {r} /\ i.found = f /\ i.late = inits[t].late
  BY <1>4, <1>5 DEF InitFields
<1>8. \A x \in Rids : f[x] = IF x = r THEN graph[r] ELSE inits[t].found[x]
  BY <1>3, <1>5 DEF Caches
<1>9. FoundShown'
  <2> SUFFICES ASSUME NEW u \in Tokens, inits'[u].pc = "pages", 0 \notin inits'[u].late,
                      NEW x \in Rids \ inits'[u].todo
               PROVE  Shown(x, inits'[u].found[x], graph[x], Numbered(inits'[u].late))
    BY <1>1 DEF FoundShown, Numbered
  <2>1. CASE u # t
    BY <1>5, <1>6, <2>1 DEF FreshInv, FoundShown
  <2>2. CASE u = t
    <3>1. inits'[u] = i
      BY <1>5, <1>6, <2>2
    <3>2. CASE x = r
      BY <1>7, <1>8, <3>1, <3>2, ShownSame
    <3>3. CASE x # r
      BY <1>1, <1>7, <1>8, <3>1, <3>3 DEF FreshInv, FoundShown
    <3> QED
      BY <3>2, <3>3
  <2> QED
    BY <2>1, <2>2
<1>10. CacheShown' /\ CurShown' /\ AlertsShown'
  <2>1. CacheShown'
    BY <1>1 DEF FreshInv, CacheShown, Unseen
  <2>2. CurShown'
    BY <1>1 DEF FreshInv, CurShown, Numbered
  <2>3. AlertsShown'
    BY <1>1 DEF FreshInv, AlertsShown, Awaited, Numbered, Unseen
  <2> QED
    BY <2>1, <2>2, <2>3
<1> QED
  BY <1>9, <1>10 DEF FreshInv

(* An alert that disagrees after the objects of some events were applied,  *)
(* when what was read of the object shows all but events not seen yet.     *)
LEMMA StillShown ==
  ASSUME RoomOK(room), GraphInv, FreshInv, NEW E, NEW todo, todo = E \ room.seen, E \subseteq events,
         NEW cur, NEW s, AppliedAs(room, todo, cur, s), s.inited,
         NEW r \in Rids \ missed, NEW i \in ThresholdRules(s), Disagrees(s, i, r),
         r \in RidsOf(todo) => Shown(r, cur[r], graph[r], Unseen \ E)
  PROVE  Awaited(i, r, Unseen \ E)
<1> PICK f : f = room.rules[i].prop
  OBVIOUS
<1>1. /\ s.rules = room.rules /\ room.inited
      /\ i \in ThresholdRules(room) /\ i \in Rules /\ f \in {"p", "q"}
      /\ f = s.rules[i].prop
  BY DEF AppliedAs, ThresholdRules, RoomOK, Rule
<1>2. s.cache[r] = IF r \in RidsOf(todo) THEN cur[r] ELSE room.cache[r]
  BY DEF AppliedAs
<1>3. /\ s.alerts[<<i, r>>] = room.alerts[<<i, r>>]
      /\ r \in RidsOf(todo) => cur[r] # None /\ i \notin Candidates(room, r, ChangedBy(todo, r))
  <2>1. <<i, r>> \in Pairs /\ <<i, r>>[1] = i /\ <<i, r>>[2] = r
    BY <1>1 DEF Pairs
  <2>2. \/ Agrees(s.alerts[<<i, r>>], Matches(s.rules[i], s.cache[r]))
        \/ /\ s.alerts[<<i, r>>] = room.alerts[<<i, r>>]
           /\ r \in RidsOf(todo) =>
                cur[r] # None /\ i \notin Candidates(room, r, ChangedBy(todo, r))
    BY <2>1 DEF AppliedAs
  <2> QED
    BY <2>2 DEF Disagrees
<1>4. ASSUME Disagrees(room, i, r)
      PROVE  \E e \in Unseen : e.rid = r /\ (graph[r] = None \/ f \in e.changed)
  BY <1>1, <1>4 DEF FreshInv, AlertsShown, Awaited
<1>5. CASE r \notin RidsOf(todo)
  <2>1. Disagrees(room, i, r)
    BY <1>1, <1>2, <1>3, <1>5 DEF Disagrees
  <2>2. PICK e \in Unseen : e.rid = r /\ (graph[r] = None \/ f \in e.changed)
    BY <1>4, <2>1
  <2>3. e \notin E
    BY <1>5, <2>2 DEF RidsOf, Unseen
  <2> QED
    BY <2>2, <2>3 DEF Awaited
<1>6. CASE r \in RidsOf(todo)
  <2>1. /\ room.cache[r] # None /\ cur[r] # None /\ f \notin ChangedBy(todo, r)
        /\ s.cache[r] = cur[r]
    BY <1>1, <1>2, <1>3, <1>6 DEF Candidates
  <2>2. ASSUME NEW e \in Unseen, e.rid = r, f \in e.changed PROVE e \in Unseen \ E
    BY <2>1, <2>2 DEF ChangedBy, Unseen
  <2>3. Shown(r, cur[r], graph[r], Unseen \ E)
    BY <1>6
  <2>4. CASE graph[r] = None
    BY <2>1, <2>3, <2>4 DEF Shown, Awaited
  <2>5. CASE graph[r] # None
    <3>1. ~ clearing
      BY <2>5, NoCacheWell DEF GraphInv
    <3>2. Shown(r, room.cache[r], graph[r], Unseen)
      BY <1>1, <3>1 DEF FreshInv, CacheShown
    <3>3. CASE cur[r][f] # graph[r][f]
      BY <1>1, <2>1, <2>3, <2>5, <3>3 DEF Shown, Awaited
    <3>4. CASE room.cache[r][f] # graph[r][f]
      BY <1>1, <2>1, <2>2, <2>5, <3>2, <3>4 DEF Shown, Awaited
    <3>5. CASE room.cache[r][f] = cur[r][f]
      <4> PICK rule, u, v : rule = room.rules[i] /\ u = room.cache[r] /\ v = cur[r]
        OBVIOUS
      <4>0. u # None /\ v # None /\ u[f] = v[f] /\ rule.prop = f /\ f \in {"p", "q"}
        BY <1>1, <2>1, <3>5
      <4>1. Matches(s.rules[i], s.cache[r]) <=> Matches(room.rules[i], room.cache[r])
        <5>1. Matches(rule, v) <=> Matches(rule, u)
          BY ONLY <4>0 DEF Matches
        <5> QED
          BY <1>1, <2>1, <5>1
      <4>2. Disagrees(room, i, r)
        BY <1>3, <4>1 DEF Disagrees, Agrees
      <4> QED
        BY <1>4, <2>2, <2>5, <4>2 DEF Awaited
    <3> QED
      BY <3>3, <3>4, <3>5
  <2> QED
    BY <2>4, <2>5
<1> QED
  BY <1>5, <1>6

LEMMA FreshApplied ==
  ASSUME RoomInv, DataInv, FreshInv, NEW c \in Consumers, Apply(c)
  PROVE  FreshInv'
<1>0. RoomOK(room) /\ DataOK(room) /\ ClockOK /\ LocalInv /\ GraphInv
  BY DEF RoomInv, RoomKept, DataInv, RoomData
<1>1. /\ work' = [work EXCEPT ![c] = IdleConsumer] /\ work[c].pc = "apply"
      /\ UNCHANGED <<graph, events, clearing, inits>>
  BY Zenon DEF Apply, outside, memory
<1>2. \A d \in Consumers : work'[d] = work[d] \/ work'[d].pc # "apply"
  <2>1. \A d \in Consumers : work'[d] = work[d] \/ work'[d] = IdleConsumer
    BY <1>0, <1>1 DEF LocalInv, WorkOK
  <2>2. IdleConsumer.pc # "apply"
    BY DEF IdleConsumer
  <2> QED
    BY <2>1, <2>2
<1>3. PICK E : E = work[c].evs
  OBVIOUS
<1>4. PICK todo : todo = E \ room.seen
  OBVIOUS
<1>5. PICK cur : cur = work[c].cur
  OBVIOUS
<1>6. PICK late : late = work[c].late
  OBVIOUS
<1>7. PICK s : s = Applied(room, todo, cur)
  OBVIOUS
<1>8. \/ room' = room /\ missed' = missed
      \/ room' = s /\ missed' = missed \cup {r \in RidsOf(todo) : Overtaken(r, late, s.seen)}
  <2>1. \/ UNCHANGED <<room, ghosts>>
        \/ /\ room' = Applied(room, work[c].evs \ room.seen, work[c].cur)
           /\ missed' = missed \cup {r \in {e.rid : e \in work[c].evs \ room.seen} :
                Overtaken(r, work[c].late,
                          Applied(room, work[c].evs \ room.seen, work[c].cur).seen)}
    BY Zenon DEF Apply
  <2>2. CASE UNCHANGED <<room, ghosts>>
    BY <2>2 DEF ghosts
  <2>3. CASE /\ room' = Applied(room, work[c].evs \ room.seen, work[c].cur)
             /\ missed' = missed \cup {r \in {e.rid : e \in work[c].evs \ room.seen} :
                Overtaken(r, work[c].late,
                          Applied(room, work[c].evs \ room.seen, work[c].cur).seen)}
    BY <1>3, <1>4, <1>5, <1>6, <1>7, <2>3, Zenon DEF RidsOf
  <2> QED
    BY <2>1, <2>2, <2>3
<1>9. CASE room' = room /\ missed' = missed
  BY <1>1, <1>2, <1>9, SettledSame, FreshKept
<1>10. CASE room' = s /\ missed' = missed \cup {r \in RidsOf(todo) : Overtaken(r, late, s.seen)}
  <2>1. E \subseteq events /\ cur \in Caches /\ \A e \in E : e.rid \in Rids
    BY <1>3, <1>5 DEF DataInv, EventInv, EventsOK, HeldOK, ReadInv, Queued
  <2>2. AppliedAs(room, todo, cur, s)
    <3>1. \A e \in todo : e.rid \in Rids
      BY <1>4, <2>1
    <3> QED
      BY <1>0, <1>7, <2>1, <3>1, AppliedData
  <2>3. /\ s.cache = [r \in Rids |-> IF r \in RidsOf(todo) THEN cur[r] ELSE room.cache[r]]
        /\ s.seen = room.seen \cup todo /\ s.inited = room.inited
    BY <2>2 DEF AppliedAs
  <2>4. Unseen' = Unseen \ E
    BY <1>1, <1>4, <1>10, <2>1, <2>3 DEF Unseen
  <2>5. ASSUME NEW r \in RidsOf(todo), r \notin missed'
        PROVE  Shown(r, cur[r], graph[r], Unseen \ E)
    <3>1. ~ Overtaken(r, late, s.seen)
      BY <1>10, <2>5
    <3>2. r \in RidsOf(E)
      BY <1>4 DEF RidsOf
    <3>3. Shown(r, cur[r], graph[r], Numbered(late))
      BY <1>1, <1>3, <1>5, <1>6, <3>1, <3>2 DEF Overtaken, FreshInv, CurShown
    <3>4. \A e \in Numbered(late) : e.rid = r => e \in Unseen \ E
      BY <1>1, <1>10, <2>4, <3>1 DEF Overtaken, Numbered, Unseen
    <3> QED
      BY <3>3, <3>4, ShownMore
  <2>6. CacheShown'
    <3> SUFFICES ASSUME s.inited, ~ clearing, NEW r \in Rids \ missed'
                 PROVE  Shown(r, s.cache[r], graph[r], Unseen \ E)
      BY <1>1, <1>10, <2>4 DEF CacheShown
    <3>1. CASE r \in RidsOf(todo)
      BY <2>3, <2>5, <3>1
    <3>2. CASE r \notin RidsOf(todo)
      <4>1. Shown(r, room.cache[r], graph[r], Unseen)
        BY <1>10, <2>3 DEF FreshInv, CacheShown
      <4>2. \A e \in Unseen : e.rid = r => e \in Unseen \ E
        BY <1>4, <3>2 DEF RidsOf, Unseen
      <4> QED
        BY <2>3, <3>2, <4>1, <4>2, ShownMore
    <3> QED
      BY <3>1, <3>2
  <2>7. AlertsShown'
    <3>1. ASSUME s.inited, NEW i \in ThresholdRules(s), NEW r \in Rids \ missed',
                 Disagrees(s, i, r)
          PROVE  Awaited(i, r, Unseen \ E)
      <4>1. r \in Rids \ missed /\ (r \in RidsOf(todo) => Shown(r, cur[r], graph[r], Unseen \ E))
        BY <1>10, <2>5
      <4> QED
        BY ONLY <1>0, FreshInv, <1>4, <2>1, <2>2, <3>1, <4>1, StillShown
    <3>2. s.rules = room.rules
      BY <2>2 DEF AppliedAs
    <3> SUFFICES ASSUME s.inited, NEW i \in ThresholdRules(s), NEW r \in Rids \ missed',
                        Disagrees(s, i, r)
                 PROVE  \E e \in Unseen \ E : e.rid = r /\ (graph[r] = None
                                                            \/ s.rules[i].prop \in e.changed)
      BY <1>1, <1>10, <2>4 DEF AlertsShown, Awaited
    <3> QED
      BY <3>1, <3>2 DEF Awaited
  <2> QED
    BY <1>1, <1>2, <2>6, <2>7, ReadsKept DEF FreshInv
<1> QED
  BY <1>8, <1>9, <1>10

(* What an initialization installs is the graph as it was read, and its    *)
(* alerts agree with it.  One that comes second installs nothing.          *)
LEMMA FreshInstalled ==
  ASSUME RoomInv, DataInv, FreshInv, NEW t \in Tokens, FinishInit(t)
  PROVE  FreshInv'
<1>0. RoomKept(room) /\ RoomOK(room) /\ DataOK(room) /\ ClockOK /\ LocalInv
  BY DEF RoomInv, RoomKept, DataInv, RoomData
<1>1. /\ inits[t].pc = "pages" /\ inits[t].todo = {}
      /\ inits' = [inits EXCEPT ![t] = NoInit]
      /\ work' = [c \in Consumers |-> IF c \in Waiting(t) THEN IdleConsumer ELSE work[c]]
      /\ UNCHANGED <<graph, events, clearing>>
  BY Zenon DEF FinishInit, outside
<1>2. IdleConsumer.pc = "idle" /\ NoInit.pc = "free"
  BY DEF IdleConsumer, NoInit
<1>3. \A u \in Tokens : inits'[u] = inits[u] \/ inits'[u].pc # "pages"
  BY <1>0, <1>1, <1>2 DEF LocalInv, InitsOK
<1>4. \A c \in Consumers : work'[c] = work[c] \/ work'[c].pc # "apply"
  BY <1>1, <1>2
<1>5. PICK i : i = inits[t]
  OBVIOUS
<1>6. PICK s : s = IF MayInstall(room) THEN Install(room, i) ELSE room
  OBVIOUS
<1>7. PICK evs : evs = UNION {work[c].evs : c \in Waiting(t)}
  OBVIOUS
<1>8. /\ room' = IF s.tomb = None THEN [s EXCEPT !.seen = @ \cup evs] ELSE s
      /\ missed' = missed \cup
            (IF s.tomb # None THEN {}
             ELSE IF MayInstall(room) THEN LostBy(i, room.seen \cup evs)
             ELSE {e.rid : e \in evs \ room.seen})
  BY <1>5, <1>6, <1>7, Zenon DEF FinishInit
<1>9. evs \subseteq events
  BY <1>7 DEF DataInv, EventInv, HeldOK, Queued, Waiting
<1>10. CASE room.tomb # None
  <2>1. s = room /\ room' = room
    BY <1>6, <1>8, <1>10 DEF MayInstall
  <2>2. missed \subseteq missed'
    BY <1>8
  <2> QED
    BY <1>1, <1>3, <1>4, <2>1, <2>2, SettledSame, FreshKept
<1>11. CASE room.tomb = None /\ MayInstall(room)
  <2>1. PICK found : found = i.found
    OBVIOUS
  <2>2. s = Install(room, i) /\ ~ room.inited /\ i.found \in Caches
    BY <1>1, <1>5, <1>6, <1>11 DEF MayInstall, DataInv, ReadInv
  <2>3. /\ s.cache = [r \in Rids |-> IF found[r] # None THEN found[r] ELSE room.cache[r]]
        /\ s.seen = room.seen
        /\ \A d \in ThresholdRules(s), r \in Rids : ~ Disagrees(s, d, r)
    BY <1>0, <2>1, <2>2, InstalledData
  <2>4. RoomOK(s) /\ s.tomb = None
    BY <1>0, <1>11, <2>2, Installed DEF RoomKept, ClockOK
  <2>5. /\ room'.cache = s.cache /\ room'.alerts = s.alerts /\ room'.rules = s.rules
        /\ room'.seen = room.seen \cup evs
    BY <1>8, <2>3, <2>4, Fields DEF RoomOK
  <2>6. Unseen' = events \ (room.seen \cup evs)
    BY <1>1, <2>5 DEF Unseen
  <2>7. ASSUME ~ clearing, NEW r \in Rids \ missed'
        PROVE  Shown(r, s.cache[r], graph[r], events \ (room.seen \cup evs))
    <3>1. /\ ~ Overtaken(r, i.late, room.seen \cup evs)
          /\ found[r] = None /\ room.cache[r] # None => ~ EventsOf(r) \subseteq room.seen \cup evs
      BY <1>8, <1>11, <2>1, <2>4 DEF LostBy
    <3>2. Shown(r, found[r], graph[r], Numbered(i.late))
      BY <1>1, <1>5, <2>1, <3>1 DEF Overtaken, FreshInv, FoundShown
    <3>3. \A e \in Numbered(i.late) : e.rid = r => e \in events \ (room.seen \cup evs)
      BY <3>1 DEF Overtaken, Numbered
    <3>4. Shown(r, found[r], graph[r], events \ (room.seen \cup evs))
      BY <3>2, <3>3, ShownMore
    <3>5. CASE found[r] # None \/ room.cache[r] = None
      <4>1. s.cache[r] = found[r]
        BY <2>3, <3>5
      <4> QED
        BY <3>4, <4>1
    <3>6. CASE found[r] = None /\ room.cache[r] # None
      <4>1. s.cache[r] = room.cache[r]
        BY <2>3, <3>6
      <4>2. PICK e \in events \ (room.seen \cup evs) : e.rid = r
        BY <3>1, <3>6 DEF EventsOf
      <4> QED
        BY <3>4, <3>6, <4>1, <4>2 DEF Shown
    <3> QED
      BY <3>5, <3>6
  <2>8. CacheShown'
    BY <1>1, <2>5, <2>6, <2>7 DEF CacheShown
  <2>9. AlertsShown'
    BY <2>3, <2>5 DEF AlertsShown, Disagrees, ThresholdRules
  <2> QED
    BY <1>1, <1>3, <1>4, <2>8, <2>9, ReadsKept DEF FreshInv
<1>12. CASE room.tomb = None /\ ~ MayInstall(room)
  <2>1. s = room /\ room.inited
    BY <1>6, <1>12 DEF MayInstall
  <2>2. /\ room'.cache = room.cache /\ room'.alerts = room.alerts /\ room'.rules = room.rules
        /\ room'.seen = room.seen \cup evs
    BY <1>0, <1>8, <1>12, <2>1, Fields DEF RoomOK
  <2>3. Unseen' = events \ (room.seen \cup evs)
    BY <1>1, <2>2 DEF Unseen
  <2>4. ASSUME NEW r \in Rids \ missed', NEW e \in Unseen, e.rid = r PROVE e \in Unseen'
    BY <1>8, <1>12, <2>1, <2>3, <2>4 DEF Unseen
  <2>5. CacheShown'
    <3> SUFFICES ASSUME ~ clearing, NEW r \in Rids \ missed'
                 PROVE  Shown(r, room.cache[r], graph[r], Unseen')
      BY <1>1, <2>2 DEF CacheShown
    <3>1. Shown(r, room.cache[r], graph[r], Unseen)
      BY <1>8, <2>1 DEF FreshInv, CacheShown
    <3> QED
      BY <2>4, <3>1, ShownMore
  <2>6. AlertsShown'
    <3> SUFFICES ASSUME NEW j \in ThresholdRules(room), NEW r \in Rids \ missed',
                        Disagrees(room, j, r)
                 PROVE  \E e \in Unseen' : e.rid = r /\ (graph[r] = None
                                                         \/ room.rules[j].prop \in e.changed)
      BY <1>1, <2>2 DEF AlertsShown, Awaited, Disagrees, ThresholdRules
    <3>1. r \in Rids \ missed
      BY <1>8
    <3>2. PICK e \in Unseen : e.rid = r /\ (graph[r] = None \/ room.rules[j].prop \in e.changed)
      BY <2>1, <3>1 DEF FreshInv, AlertsShown, Awaited
    <3> QED
      BY <2>4, <3>2
  <2> QED
    BY <1>1, <1>3, <1>4, <2>5, <2>6, ReadsKept DEF FreshInv
<1> QED
  BY <1>10, <1>11, <1>12

(* Who joins an initialization, or starts one, reads nothing yet.          *)
LEMMA JoinedKept ==
  ASSUME LocalInv, NEW cur \in Tokens \cup {0}, Join(cur)
  PROVE  \A t \in Tokens : inits'[t] = inits[t] \/ inits'[t].pc # "pages"
<1>1. PICK i : i = [NoInit EXCEPT !.pc = "schema"]
  OBVIOUS
<1>2. i.pc = "schema"
  BY <1>1 DEF NoInit
<1>3. inits' = inits \/ inits' = [inits EXCEPT ![Attempt(cur)] = i]
  BY <1>1, Zenon DEF Join
<1> QED
  BY <1>2, <1>3 DEF LocalInv, InitsOK

LEMMA FreshStep ==
  ASSUME RoomInv, DataInv, FreshInv, [Next]_vars PROVE FreshInv'
<1>0. LocalInv /\ ClockOK /\ initializing \in Tokens \cup {0}
  BY DEF RoomInv, LocalInv, SharedAtWork
<1>01. IdleConsumer.pc = "idle" /\ NoInit.pc = "free"
  BY DEF IdleConsumer, NoInit
<1>1. CASE UNCHANGED vars
  BY <1>1, SameFresh DEF vars, outside, memory, ghosts
<1>2. ASSUME NEW r \in Rids, NEW o \in Objects \cup {None}, Write(r, o) PROVE FreshInv'
  BY <1>2, FreshWritten
<1>3. ASSUME NEW c \in Consumers, NEW E \in SUBSET Queued, Deliver(c, E) PROVE FreshInv'
  <2>1. Settled(room, room')
    BY <1>3, SettledStep
  <2>2. UNCHANGED <<graph, events, clearing, missed>>
    BY <1>3, Zenon DEF Deliver, outside, ghosts
  <2>3. PICK x, y : /\ x = [IdleConsumer EXCEPT !.pc = "read", !.evs = E]
                    /\ y = [IdleConsumer EXCEPT !.pc = "init", !.evs = E,
                                                !.tok = Attempt(initializing)]
    OBVIOUS
  <2>4. x.pc = "read" /\ y.pc = "init"
    BY <2>3 DEF IdleConsumer
  <2>5. /\ UNCHANGED work \/ work' = [work EXCEPT ![c] = x] \/ work' = [work EXCEPT ![c] = y]
        /\ UNCHANGED memory \/ Join(initializing)
    BY <1>3, <2>3, Zenon DEF Deliver
  <2>6. \A d \in Consumers : work'[d] = work[d] \/ work'[d].pc # "apply"
    BY <1>0, <2>4, <2>5 DEF LocalInv, WorkOK
  <2>7. \A t \in Tokens : inits'[t] = inits[t] \/ inits'[t].pc # "pages"
    BY <1>0, <2>5, JoinedKept DEF memory
  <2> QED
    BY <2>1, <2>2, <2>6, <2>7, FreshKept
<1>4. ASSUME NEW c \in Consumers, ReadObjects(c) \/ Apply(c) PROVE FreshInv'
  BY <1>0, <1>4, FreshRead, FreshApplied
<1>5. ASSUME NEW c \in Consumers, FailRead(c) PROVE FreshInv'
  <2>1. /\ work' = [work EXCEPT ![c] = IdleConsumer]
        /\ UNCHANGED <<graph, clearing, events, room, inits, missed>>
    BY <1>5, Zenon DEF FailRead, outside, memory, ghosts
  <2>2. \A d \in Consumers : work'[d] = work[d] \/ work'[d].pc # "apply"
    BY <1>0, <1>01, <2>1 DEF LocalInv, WorkOK
  <2> QED
    BY <2>1, <2>2, SettledSame, FreshKept
<1>6. ASSUME NEW t \in Tokens, ReadSchema(t) PROVE FreshInv'
  <2>1. PICK i : i = [pc |-> "pages", tpl |-> template, found |-> NoCache, todo |-> Rids,
                      late |-> {}]
    OBVIOUS
  <2>2. inits' = [inits EXCEPT ![t] = i] /\ UNCHANGED <<graph, clearing, events, room, work, missed>>
    BY <1>6, <2>1 DEF ReadSchema, outside, ghosts
  <2>3. \A u \in Tokens : inits'[u] = inits[u] \/ inits'[u].todo = Rids
    BY <1>0, <2>1, <2>2 DEF LocalInv, InitsOK
  <2> QED
    BY <2>2, <2>3, SettledSame, FreshKept
<1>7. ASSUME NEW t \in Tokens, ReadPage(t) \/ FinishInit(t) PROVE FreshInv'
  BY <1>0, <1>7, FreshPage, FreshInstalled
<1>8. ASSUME NEW t \in Tokens, FailInit(t) PROVE FreshInv'
  <2>1. /\ inits' = [inits EXCEPT ![t] = NoInit]
        /\ work' = [c \in Consumers |-> IF c \in Waiting(t) THEN IdleConsumer ELSE work[c]]
        /\ UNCHANGED <<graph, clearing, events, room, missed>>
    BY <1>8, Zenon DEF FailInit, outside
  <2>2. \A d \in Consumers : work'[d] = work[d] \/ work'[d].pc # "apply"
    BY <1>01, <2>1
  <2>3. \A u \in Tokens : inits'[u] = inits[u] \/ inits'[u].pc # "pages"
    BY <1>0, <1>01, <2>1 DEF LocalInv, InitsOK
  <2> QED
    BY <2>1, <2>2, <2>3, SettledSame, FreshKept
<1>9. ASSUME NEW u \in Callers, StartCall(u) PROVE FreshInv'
  <2>1. Settled(room, room')
    BY <1>9, SettledStep
  <2>2. PICK kind, id, def : Call(u, kind, id, def)
    BY <1>9, Zenon DEF StartCall
  <2>3. /\ UNCHANGED <<graph, events, clearing, work, missed>>
        /\ UNCHANGED memory \/ Join(initializing)
    BY <2>2, Zenon DEF Call, outside
  <2>4. \A t \in Tokens : inits'[t] = inits[t] \/ inits'[t].pc # "pages"
    BY <1>0, <2>3, JoinedKept DEF memory
  <2> QED
    BY <2>1, <2>3, <2>4, FreshKept
<1>10. CASE \/ Ring \/ Tick \/ \E u \in Callers : CheckType(u)
  <2>1. UNCHANGED <<graph, clearing, events, inits, work, room, missed>>
    BY <1>10, Zenon DEF CheckType, Ring, Tick, outside, memory, ghosts
  <2> QED
    BY <2>1, SameFresh
<1>11. CASE \/ \E u \in Callers : CommitRule(u)
            \/ \E a \in Pairs : Acknowledge(a)
            \/ CloseStreams
  <2>1. UNCHANGED <<graph, clearing, events, inits, work, missed>>
    BY <1>11, Zenon DEF CommitRule, Acknowledge, CloseStreams, outside, memory
  <2>2. Settled(room, room')
    BY <1>11, SettledStep
  <2> QED
    BY <2>1, <2>2, FreshKept
<1>12. CASE ResetForTemplate \/ ClearRoom
  <2>1. /\ UNCHANGED <<graph, events, work, missed>> /\ Join(0)
    BY <1>12, Zenon DEF ResetForTemplate, ClearRoom, Restart, outside
  <2>2. ~ room'.inited
    <3>1. PICK u : /\ \/ u = [room EXCEPT !.kpi = [k \in {} |-> None], !.rules = [r \in {} |-> None]]
                      \/ u = [room EXCEPT !.cache = NoCache, !.kpi = [k \in {} |-> None],
                              !.point = [k \in Kpis |-> None], !.rules = [r \in {} |-> None],
                              !.alerts = [a \in Pairs |-> NoAlert]]
                   /\ room' = [u EXCEPT !.inited = FALSE, !.bound = TRUE, !.inactive = FALSE]
      BY <1>12, Zenon DEF ResetForTemplate, ClearRoom, Restart
    <3>2. DOMAIN room = DOMAIN NewRoom
      BY DEF RoomInv, RoomKept, RoomOK
    <3>3. DOMAIN u = DOMAIN NewRoom
      BY <3>1, <3>2
    <3> QED
      BY <3>1, <3>3, Fields
  <2>3. \A t \in Tokens : inits'[t] = inits[t] \/ inits'[t].pc # "pages"
    BY <1>0, <2>1, JoinedKept
  <2> QED
    BY <2>1, <2>2, <2>3, FreshKept
<1>13. CASE ClearGraph
  BY <1>0, <1>13, FreshCleared
<1>14. CASE RunAlarm
  <2>1. UNCHANGED <<graph, clearing, events, inits, work, missed>>
    BY <1>14, Zenon DEF RunAlarm, outside, memory
  <2>2. room' = NewRoom \/ room' = room \/ room.tomb = None
    BY <1>14, Zenon DEF RunAlarm
  <2>3. CASE room' = NewRoom
    <3>1. ~ room'.inited
      BY <2>3, NewRoomData
    <3> QED
      BY <2>1, <3>1, FreshKept
  <2>4. CASE room' = room \/ room.tomb = None
    <3>1. Settled(room, room')
      BY <1>14, <2>4, SettledStep
    <3> QED
      BY <2>1, <3>1, FreshKept
  <2> QED
    BY <2>2, <2>3, <2>4
<1>15. CASE PurgeRoom
  <2>1. PICK x : x = now + TombTtl
    OBVIOUS
  <2>2. /\ UNCHANGED <<graph, clearing, events, inits, work, missed>>
        /\ room' = [NewRoom EXCEPT !.tomb = x]
    BY <1>15, <2>1, Zenon DEF PurgeRoom, outside
  <2>3. ~ room'.inited
    BY <2>2 DEF NewRoom
  <2> QED
    BY <2>2, <2>3, FreshKept
<1> QED
  BY <1>1, <1>2, <1>3, <1>4, <1>5, <1>6, <1>7, <1>8, <1>9, <1>10, <1>11, <1>12, <1>13, <1>14,
     <1>15 DEF Next, Service

LEMMA FreshInit == ASSUME Init PROVE FreshInv
<1>1. /\ work = [c \in Consumers |-> IdleConsumer] /\ inits = [t \in Tokens |-> NoInit]
      /\ room = NewRoom
  BY DEF Init
<1>2. IdleConsumer.pc = "idle" /\ NoInit.pc = "free"
  BY DEF IdleConsumer, NoInit
<1>3. ~ room.inited
  BY <1>1, NewRoomData
<1>4. \A c \in Consumers : work[c].pc = "idle"
  BY <1>1, <1>2
<1>5. \A t \in Tokens : inits[t].pc = "free"
  BY <1>1, <1>2
<1> QED
  BY <1>3, <1>4, <1>5 DEF FreshInv, CacheShown, CurShown, FoundShown, AlertsShown

LEMMA FreshInvHolds == Spec => []FreshInv
<1>1. Init => FreshInv
  BY FreshInit
<1>2. RoomInv /\ DataInv /\ FreshInv /\ [Next]_vars => FreshInv'
  BY FreshStep
<1> QED
  BY <1>1, <1>2, RoomInvHolds, DataInvHolds, PTL DEF Spec

LEMMA RoomTyped == ASSUME RoomInv, DataInv PROVE TypeOK
<1>1. /\ RoomOK(room) /\ DataOK(room) /\ TimesOK(room) /\ KpisOK(room)
      /\ EventsOK /\ QueueOK /\ SharedAtWork
  BY DEF RoomInv, RoomKept, LocalInv, DataInv, RoomData, EventInv, DataOK
<1>2. /\ DOMAIN queue = {e.n : e \in events}
      /\ \A n \in DOMAIN queue : queue[n] \in (0 .. MaxRetries) \cup {None}
  BY <1>1, EventNumbers DEF EventsOK
<1>3. ASSUME NEW i \in DOMAIN room.rules PROVE room.rules[i] \in RuleRecs
  <2>1. room.rules[i] \in Rule /\ room.rules[i].next \in Times \cup {None}
    BY <1>1 DEF RoomOK, TimesOK
  <2> QED
    BY <2>1 DEF Rule, RuleRecs
<1>4. \A k \in DOMAIN room.kpi : room.kpi[k] \in KpiStates
  BY <1>1 DEF KpisOK, ExactFor
<1> QED
  BY <1>1, <1>2, <1>3, <1>4
  DEF TypeOK, DataInv, GraphInv, RoomData, EventsOK, RoomOK, DataOK, SharedAtWork, Caches

(* What a room derives agrees with what it caches: its KPIs are the ones   *)
(* it would compute over its whole cache, and each automation has at most  *)
(* one active alert for an object, the right one once the events of the    *)
(* object are seen.                                                        *)
THEOREM DerivedMatchesCacheHolds == Spec => []DerivedMatchesCache
<1>1. ASSUME RoomInv, DataInv, FreshInv PROVE DerivedMatchesCache
  <2>1. KpiMatchesCache
    BY <1>1 DEF DataInv, RoomData, DataOK, KpisOK, ExactFor, KpiMatchesCache
  <2>2. OneActiveAlert
    <3>1. \A x \in Actives : Len(x) <= 1
      <4>1. Len(<<>>) <= 1 /\ Len(<<"OPEN">>) <= 1 /\ Len(<<"ACKED">>) <= 1
        OBVIOUS
      <4> QED
        BY <4>1 DEF Actives
    <3>2. \A a \in Pairs : room.alerts[a].active \in Actives
      BY <1>1 DEF DataInv, RoomData, DataOK, AlertsOK, AlertRecs
    <3> QED
      BY <3>1, <3>2 DEF OneActiveAlert
  <2>3. AlertsMatchCache
    <3> SUFFICES ASSUME room.inited, NEW i \in ThresholdRules(room), NEW r \in Rids \ missed,
                        EventsOf(r) \subseteq room.seen
                 PROVE  Agrees(room.alerts[<<i, r>>], Matches(room.rules[i], room.cache[r]))
      BY DEF AlertsMatchCache, Agrees
    <3>1. ~ \E e \in Unseen : e.rid = r
      BY DEF Unseen, EventsOf
    <3> QED
      BY <1>1, <3>1 DEF FreshInv, AlertsShown, Awaited, Disagrees
  <2> QED
    BY <1>1, <2>1, <2>2, <2>3, RoomTyped DEF DerivedMatchesCache
<1> QED
  BY <1>1, RoomInvHolds, DataInvHolds, FreshInvHolds, PTL

(* An object all whose events the room has seen is in the cache as it is   *)
(* in the graph, unless the room stored what it had read of it before an   *)
(* event it has seen, or kept it while it was gone (missed).               *)
THEOREM CacheFreshHolds == Spec => []CacheFresh
<1>1. ASSUME DataInv, FreshInv PROVE CacheFresh
  <2> SUFFICES ASSUME room.inited, ~ clearing, NEW r \in Rids \ missed,
                      EventsOf(r) \subseteq room.seen
               PROVE  room.cache[r] = graph[r]
    BY DEF CacheFresh
  <2> PICK u, v : u = room.cache[r] /\ v = graph[r]
    OBVIOUS
  <2>1. ~ \E e \in Unseen : e.rid = r
    BY DEF Unseen, EventsOf
  <2>2. Shown(r, u, v, Unseen)
    BY <1>1 DEF FreshInv, CacheShown
  <2>3. u \in Objects \cup {None} /\ v \in Objects \cup {None}
    BY <1>1 DEF DataInv, RoomData, DataOK, GraphInv, Caches
  <2>4. u = None <=> v = None
    BY <2>1, <2>2 DEF Shown
  <2>5. CASE u # None /\ v # None
    <3>1. u["p"] = v["p"] /\ u["q"] = v["q"]
      BY <2>1, <2>2, <2>5 DEF Shown
    <3>2. u \in [p : 1 .. 2, q : 0 .. 1] /\ v \in [p : 1 .. 2, q : 0 .. 1]
      BY <2>3, <2>5, RoomAssumption
    <3>3. u = v
      BY <3>1, <3>2
    <3> QED
      BY <3>3
  <2> QED
    BY <2>4, <2>5
<1> QED
  BY <1>1, DataInvHolds, FreshInvHolds, PTL
=============================================================================

------------------------- MODULE ObjectGraphProofs -------------------------
(***************************************************************************)
(* Theorems about the object graph, for every number of keys, writers,     *)
(* requests and failures, every workload and every pair of limits.         *)
(***************************************************************************)
EXTENDS ObjectGraph, FiniteSetTheorems, TLAPS

(* The places of a request that has committed nothing yet.                 *)
Waiting == {"read", "links", "commit", "clear"}

Delivering == {"publish", "delete"}

(* What this run's writers may ask for.                                    *)
Asked == UNION {work.asks[w] : w \in DOMAIN work.asks}

IsWriter(x) ==
  x = [pc |-> x.pc, id |-> x.id, input |-> x.input, pending |-> x.pending,
       counts |-> x.counts, found |-> x.found, have |-> x.have, event |-> x.event]

(* A request is a record that fits the place it is in.                     *)
Shape(x) ==
  /\ IsWriter(x) /\ x.pc \in Places
  /\ x.id \in 0 .. ops
  /\ x.pending \subseteq {"counts", "find"}
  /\ (x.pending # {}) = (x.pc = "read")
  /\ x.pc # "idle" => /\ x.input \in Asked /\ x.id > 0
                      /\ x.pc = "clear" <=> x.input.kind = "clear"
  /\ DOMAIN x.found \subseteq Rids
  /\ \A r \in DOMAIN x.found : x.found[r] \in Object
  /\ x.have \subseteq Rids \X Rids
  /\ x.event \subseteq Rids
  /\ x.pc \in Delivering => x.event # {}

(* What a request found is still there, unless a clear came: then none of  *)
(* it is, but for what an import has revived.  The version tells.          *)
FoundOK(x) ==
  \A r \in DOMAIN x.found :
    objs[r] # None /\ r \notin revived =>
      /\ objs[r].version >= x.found[r].version
      /\ objs[r].version = x.found[r].version => objs[r] = x.found[r]
      /\ \A t \in DOMAIN x.found : objs[t] # None

IsEvent(e) ==
  e \in EventRow /\ e.id \in 1 .. ops /\ e.rids # {}

StoreOK ==
  /\ work \in Workloads
  /\ objs \in [Rids -> Object \cup {None}]
  /\ \A r \in Rids : objs[r] # None => objs[r].version > 0
  /\ idx \in [Rids -> PropMap \cup {None}]
  /\ links \subseteq Rids \X Rids
  /\ revived \subseteq Rids
  /\ \A e \in outbox \cup sent \cup changes : IsEvent(e)
  /\ cron # None => /\ cron \in [row : EventRow, pc : Delivering]
                    /\ IsEvent(cron.row)
  /\ ops \in 0 .. MaxOps /\ failures \in 0 .. MaxFailures

WritersOK ==
  /\ writers = [w \in Writers |-> writers[w]]
  /\ \A w \in Writers : Shape(writers[w])

(* Nothing bears the number of a request that has committed nothing.       *)
Unused(n) ==
  /\ \A r \in Rids : r[2] = n =>
       objs[r] = None /\ \A v \in Writers : r \notin DOMAIN writers[v].found
  /\ \A e \in outbox \cup sent \cup changes : e.id # n
  /\ cron # None => cron.row.id # n

IdInv ==
  /\ \A n \in 1 .. MaxOps : n > ops => Unused(n)
  /\ \A w \in Writers : writers[w].pc \in Waiting => Unused(writers[w].id)
  /\ \A v, w \in Writers :
       /\ writers[v].pc # "idle" /\ writers[w].pc # "idle"
       /\ writers[v].id = writers[w].id
       => v = w

FoundInv == \A w \in Writers : FoundOK(writers[w])

(* A change is announced by whoever delivers its event, with every object. *)
Announces(e) == \A c \in changes : c.id = e.id => c.rids \subseteq e.rids

EventInv ==
  /\ NoEventLost
  /\ \A e \in outbox : Announces(e)
  /\ cron # None => Announces(cron.row) /\ (cron.pc = "delete" => cron.row \in sent)
  /\ \A w \in Writers :
       /\ writers[w].pc \in Delivering => Announces(Event(w, writers[w].event))
       /\ writers[w].pc = "delete" => Event(w, writers[w].event) \in sent

IInv == /\ StoreOK /\ WritersOK /\ IdInv /\ FoundInv /\ EventInv
        /\ IndexAgrees /\ LinkEndsThere /\ ObjectCap /\ LinkCap
-----------------------------------------------------------------------------
(* Counting.                                                               *)

LEMMA RidsFinite == IsFiniteSet(Rids) /\ \A S \in SUBSET Rids : IsFiniteSet(S)
<1>1. IsFiniteSet(0 .. MaxOps)
  BY FS_Interval, ConstantsAssumption
<1>2. IsFiniteSet(Keys \X (0 .. MaxOps))
  BY <1>1, FS_Product, ConstantsAssumption
<1> QED
  BY <1>2, FS_Subset DEF Rids

LEMMA LinksFinite == \A S \in SUBSET (Rids \X Rids) : IsFiniteSet(S)
<1>1. IsFiniteSet(Rids \X Rids)
  BY RidsFinite, FS_Product
<1> QED
  BY <1>1, FS_Subset

(* The how manyth of the numbers in A.                                     *)
Rank(A, i) == Cardinality({k \in A : k <= i})

LEMMA RankFacts ==
  ASSUME NEW A, A \subseteq Nat, IsFiniteSet(A), NEW i \in A
  PROVE  /\ Rank(A, i) \in Nat /\ Rank(A, i) > 0
         /\ \A j \in A : Rank(A, i) = Rank(A, j) => i = j
<1> DEFINE Upto(k) == {x \in A : x <= k}
<1>1. \A k \in A : IsFiniteSet(Upto(k)) /\ Cardinality(Upto(k)) \in Nat
  <2> TAKE k \in A
  <2>1. Upto(k) \in SUBSET A
    OBVIOUS
  <2>2. IsFiniteSet(Upto(k))
    BY <2>1, FS_Subset
  <2> QED
    BY <2>2, FS_CardinalityType
<1>2. Rank(A, i) \in Nat /\ Rank(A, i) > 0
  <2>1. i \in Upto(i)
    OBVIOUS
  <2>2. Cardinality(Upto(i)) # 0
    BY <1>1, <2>1, FS_EmptySet
  <2> QED
    BY <1>1, <2>2 DEF Rank
<1>3. \A m, n \in A : m < n => Cardinality(Upto(m)) # Cardinality(Upto(n))
  <2> SUFFICES ASSUME NEW m \in A, NEW n \in A, m < n,
                      Cardinality(Upto(m)) = Cardinality(Upto(n))
               PROVE  FALSE
    OBVIOUS
  <2>1. m \in Nat /\ n \in Nat
    OBVIOUS
  <2>2. Upto(m) \in SUBSET Upto(n)
    <3>1. \A x \in A : x \in Nat
      OBVIOUS
    <3>2. \A x \in Nat : x <= m => x <= n
      BY <2>1
    <3> QED
      BY <3>1, <3>2
  <2>3. Upto(n) = Upto(m)
    BY <1>1, <2>2, FS_Subset
  <2>4. n \in Upto(n) /\ n \notin Upto(m)
    BY <2>1
  <2> QED
    BY <2>3, <2>4
<1>4. \A j \in A : Rank(A, i) = Rank(A, j) => i = j
  <2> TAKE j \in A
  <2>1. i \in Nat /\ j \in Nat
    OBVIOUS
  <2>2. Rank(A, i) = Cardinality(Upto(i)) /\ Rank(A, j) = Cardinality(Upto(j))
    BY DEF Rank
  <2>3. i = j \/ i < j \/ j < i
    BY <2>1
  <2> QED
    BY <1>3, <2>2, <2>3
<1> QED
  BY <1>2, <1>4

(* New elements with numbers of their own, each of which leaves room among *)
(* all there are, never exceed a limit that the counted ones keep.         *)
LEMMA RoomForAll ==
  ASSUME NEW All, IsFiniteSet(All), NEW Old \in SUBSET All, NEW Max \in Nat,
         Cardinality(Old) <= Max, NEW New, NEW f \in [New -> Nat],
         \A x \in New : f[x] > 0 /\ Cardinality(All) + f[x] <= Max,
         \A x, y \in New : f[x] = f[y] => x = y
  PROVE  IsFiniteSet(Old \cup New) /\ Cardinality(Old \cup New) <= Max
<1>1. /\ IsFiniteSet(Old) /\ Cardinality(Old) <= Cardinality(All)
      /\ Cardinality(Old) \in Nat /\ Cardinality(All) \in Nat
  BY FS_Subset, FS_CardinalityType
<1>2. CASE New = {}
  BY <1>1, <1>2
<1>3. CASE New # {}
  <2> PICK m : m = Max - Cardinality(All)
    OBVIOUS
  <2>0. PICK x \in New : TRUE
    BY <1>3
  <2>1. m \in Nat /\ \A y \in New : f[y] \in 1 .. m
    BY <1>1, <2>0
  <2>2. f \in Injection(New, 1 .. m)
    BY <2>1, f \in [New -> Nat] DEF Injection, IsInjective
  <2>3. IsFiniteSet(1 .. m) /\ Cardinality(1 .. m) = m
    BY <2>1, FS_Interval
  <2>4. IsFiniteSet(New) /\ Cardinality(New) <= m /\ Cardinality(New) \in Nat
    BY <2>2, <2>3, FS_Injection, FS_CardinalityType
  <2>5. IsFiniteSet(Old \cup New)
        /\ Cardinality(Old \cup New) =
             Cardinality(Old) + Cardinality(New) - Cardinality(Old \cap New)
    BY <1>1, <2>4, FS_Union
  <2>6. Old \cap New \in SUBSET Old
    OBVIOUS
  <2>7. Cardinality(Old \cap New) \in Nat
    BY <1>1, <2>6, FS_Subset, FS_CardinalityType
  <2> QED
    BY <1>1, <2>1, <2>4, <2>5, <2>7
<1> QED
  BY <1>2, <1>3

-----------------------------------------------------------------------------
(* Requests.                                                               *)

LEMMA InputFacts ==
  ASSUME StoreOK, NEW i \in Asked
  PROVE  /\ IsInput(i) /\ Len(i.rows) \in Nat
         /\ i.kind \in {"upsert", "patch", "action", "clear"}
         /\ \A n \in 1 .. Len(i.rows) : IsRow(i.rows[n])
<1>1. PICK w \in DOMAIN work.asks : i \in work.asks[w]
  BY DEF Asked
<1>2. IsInput(i)
  BY <1>1, ConstantsAssumption DEF StoreOK
<1> QED
  BY <1>2 DEF IsInput

LEMMA WriterFacts ==
  ASSUME IInv, NEW w \in Writers
  PROVE  /\ IsWriter(writers[w]) /\ Shape(writers[w]) /\ writers[w].pc \in Places
         /\ writers[w].id \in Nat /\ writers[w].id <= ops
         /\ ops \in Nat /\ MaxOps \in Nat /\ ops <= MaxOps
         /\ DOMAIN writers[w].found \subseteq Rids
         /\ writers[w].pc # "idle" =>
              writers[w].input \in Asked /\ writers[w].id \in 1 .. ops
BY ConstantsAssumption DEF IInv, StoreOK, WritersOK, Shape

LEMMA IdleShape ==
  ASSUME ops \in Nat
  PROVE  Shape(Idle) /\ Idle.pc = "idle" /\ FoundOK(Idle) /\ DOMAIN Idle.found = {}
<1>1. /\ IsWriter(Idle) /\ Idle.pc = "idle" /\ Idle.id = 0 /\ Idle.pending = {}
      /\ Idle.found = <<>> /\ Idle.have = {} /\ Idle.event = {}
  BY DEF Idle, IsWriter
<1>2. DOMAIN Idle.found = {}
  BY <1>1
<1> HIDE DEF Idle
<1> QED
  BY <1>1, <1>2 DEF Shape, Places, Delivering, FoundOK

LEMMA OneEach ==
  ASSUME IInv, NEW u \in Writers, NEW v \in Writers,
         writers[u].pc # "idle", writers[v].pc # "idle", writers[u].id = writers[v].id
  PROVE  u = v
<1>1. IdInv
  BY DEF IInv
<1> QED
  BY <1>1 DEF IdInv

(* One request changes.                                                    *)
LEMMA OneWriter ==
  ASSUME IInv, NEW w \in Writers, NEW x, writers' = [writers EXCEPT ![w] = x]
  PROVE  /\ \A v \in Writers : writers'[v] = IF v = w THEN x ELSE writers[v]
         /\ writers' = [v \in Writers |-> writers'[v]]
BY DEF IInv, WritersOK

LEMMA ShapeKept ==
  ASSUME NEW x, Shape(x), work' = work, ops' \in Nat, ops \in Nat, ops' >= ops
  PROVE  Shape(x)'
<1>1. x.id \in 0 .. ops'
  BY DEF Shape
<1>2. Asked' = Asked
  BY DEF Asked
<1> QED
  BY <1>1, <1>2 DEF Shape

(* A request that reads, or ends without a commit.                         *)
LEMMA ReadingStep ==
  ASSUME IInv, NEW w \in Writers, NEW x, writers' = [writers EXCEPT ![w] = x],
         UNCHANGED <<work, objs, idx, links, outbox, sent, cron, changes, revived, ops>>,
         failures' \in 0 .. MaxFailures, Shape(x), FoundOK(x),
         x.pc # "idle" => /\ x.id = writers[w].id
                          /\ writers[w].pc \in Waiting /\ x.pc \in Waiting,
         \A r \in DOMAIN x.found : r \in DOMAIN writers[w].found \/ objs[r] # None
  PROVE  IInv'
<1>1. /\ \A v \in Writers : writers'[v] = IF v = w THEN x ELSE writers[v]
      /\ writers' = [v \in Writers |-> writers'[v]]
  BY OneWriter
<1>2. StoreOK'
  BY DEF IInv, StoreOK, IsEvent
<1>3. WritersOK'
  <2>1. \A v \in Writers : Shape(writers'[v])
    BY <1>1 DEF IInv, WritersOK
  <2>2. \A v \in Writers : Shape(writers[v])'
    BY <2>1, ShapeKept DEF IInv, StoreOK, Shape, Asked
  <2> QED
    BY <1>1, <2>2 DEF WritersOK
<1>4. IdInv'
  <2>1. ASSUME NEW n, Unused(n) PROVE Unused(n)'
    BY <1>1, <2>1 DEF Unused
  <2>2. \A v \in Writers : writers'[v].pc \in Waiting => Unused(writers[v].id)
                                /\ writers'[v].id = writers[v].id
    BY <1>1 DEF IInv, IdInv, Waiting
  <2>3. \A v \in Writers : writers'[v].pc # "idle" =>
           writers[v].pc # "idle" /\ writers'[v].id = writers[v].id
    BY <1>1 DEF Waiting
  <2>4. \A n \in 1 .. MaxOps : n > ops => Unused(n)'
    BY <2>1 DEF IInv, IdInv
  <2>5. \A v \in Writers : writers'[v].pc \in Waiting => Unused(writers[v].id)'
    <3> SUFFICES ASSUME NEW v \in Writers, writers'[v].pc \in Waiting
                 PROVE  Unused(writers[v].id)'
      OBVIOUS
    <3> PICK n : n = writers[v].id
      OBVIOUS
    <3>1. Unused(n) /\ writers'[v].id = n
      BY <2>2
    <3>2. Unused(n)'
      BY <2>1, <3>1
    <3> QED
      BY <3>1, <3>2
  <2>6. \A u, v \in Writers : /\ writers'[u].pc # "idle" /\ writers'[v].pc # "idle"
                              /\ writers'[u].id = writers'[v].id
                              => u = v
    BY <2>3, OneEach
  <2> QED
    BY <2>4, <2>5, <2>6 DEF IdInv
<1>5. FoundInv'
  <2>1. \A v \in Writers : FoundOK(writers'[v])
    BY <1>1 DEF IInv, FoundInv
  <2> QED
    BY <2>1 DEF FoundInv, FoundOK
<1>6. EventInv'
  <2>1. \A v \in Writers : writers'[v].pc \in Delivering => writers'[v] = writers[v]
    BY <1>1, IdleShape DEF Waiting, Delivering
  <2> QED
    BY <2>1 DEF IInv, EventInv, NoEventLost, Announces, Event, Delivering
<1>7. IndexAgrees' /\ LinkEndsThere'
  BY DEF IInv, IndexAgrees, LinkEndsThere
<1>8. ObjectCap' /\ LinkCap'
  BY DEF IInv, ObjectCap, LinkCap, Objects
<1> QED
  BY <1>2, <1>3, <1>4, <1>5, <1>6, <1>7, <1>8 DEF IInv

LEMMA ReturnStep ==
  ASSUME IInv, NEW w \in Writers, Return(w),
         UNCHANGED <<work, objs, idx, links, outbox, sent, cron, changes, revived, ops>>,
         failures' \in 0 .. MaxFailures
  PROVE  IInv'
<1>1. Shape(Idle) /\ Idle.pc = "idle" /\ FoundOK(Idle) /\ DOMAIN Idle.found = {}
  BY WriterFacts, IdleShape
<1> HIDE DEF Idle
<1>2. writers' = [writers EXCEPT ![w] = Idle]
  BY DEF Return
<1> QED
  BY <1>1, <1>2, ReadingStep

(* A request begins, under a number nothing bears.                         *)
LEMMA BeginOK ==
  ASSUME IInv, NEW w \in DOMAIN work.asks, NEW i \in work.asks[w], Begin(w, i)
  PROVE  IInv'
<1> PICK x : x = [Idle EXCEPT !.id = ops + 1, !.input = i,
                    !.pending = FirstReads(i),
                    !.pc = IF i.kind = "clear" THEN "clear" ELSE "read"]
  OBVIOUS
<1>0. /\ w \in Writers /\ writers[w].pc = "idle" /\ ops < work.ops /\ ops' = ops + 1
      /\ writers' = [writers EXCEPT ![w] = x]
      /\ UNCHANGED <<work, objs, idx, links, outbox, sent, cron, changes, revived, failures>>
  BY ConstantsAssumption DEF Begin, IInv, StoreOK
<1>1. ops \in Nat /\ ops' \in 1 .. MaxOps /\ ops' > ops
  BY <1>0, ConstantsAssumption DEF IInv, StoreOK
<1>2. i \in Asked
  BY DEF Asked
<1>3. /\ IsWriter(x) /\ x.pc = (IF i.kind = "clear" THEN "clear" ELSE "read")
      /\ x.id = ops + 1 /\ x.input = i /\ x.pending = FirstReads(i)
      /\ x.found = <<>> /\ x.have = {} /\ x.event = {}
  BY DEF Idle, IsWriter
<1>4. DOMAIN x.found = {} /\ x.pc \in Waiting
  BY <1>3 DEF Waiting
<1>5. /\ FirstReads(i) \subseteq {"counts", "find"}
      /\ (FirstReads(i) # {}) = (x.pc = "read")
  BY <1>3 DEF FirstReads
<1>6. Shape(x)'
  <2>1. Asked' = Asked
    BY <1>0 DEF Asked
  <2> QED
    BY <1>0, <1>1, <1>2, <1>3, <1>4, <1>5, <2>1 DEF Shape, Places, Delivering
<1>7. /\ \A v \in Writers : writers'[v] = IF v = w THEN x ELSE writers[v]
      /\ writers' = [v \in Writers |-> writers'[v]]
  BY <1>0, OneWriter
<1>8. StoreOK'
  <2>1. \A e : IsEvent(e) => IsEvent(e)'
    BY <1>1 DEF IsEvent
  <2>2. \A e \in (outbox \cup sent \cup changes)' : IsEvent(e)'
    BY <1>0, <2>1 DEF IInv, StoreOK
  <2>3. (cron # None)' => (cron \in [row : EventRow, pc : Delivering] /\ IsEvent(cron.row))'
    BY <1>0, <2>1 DEF IInv, StoreOK
  <2> QED
    BY <1>0, <1>1, <2>2, <2>3 DEF IInv, StoreOK
<1>9. WritersOK'
  <2>1. \A v \in Writers : Shape(writers[v])'
    <3> TAKE v \in Writers
    <3>1. CASE v = w
      BY <1>6, <1>7, <3>1 DEF Shape
    <3>2. CASE v # w
      <4>1. Shape(writers[v]) /\ writers'[v] = writers[v]
        BY <1>7, <3>2, WriterFacts
      <4> PICK y : y = writers[v]
        OBVIOUS
      <4>2. Shape(y)'
        BY <1>0, <1>1, <4>1, ShapeKept
      <4> QED
        BY <4>1, <4>2 DEF Shape
    <3> QED
      BY <3>1, <3>2
  <2> QED
    BY <1>7, <2>1 DEF WritersOK
<1>10. IdInv'
  <2>1. ASSUME NEW n, Unused(n) PROVE Unused(n)'
    BY <1>0, <1>4, <1>7, <2>1 DEF Unused
  <2>2. Unused(ops + 1)
    BY <1>0, <1>1 DEF IInv, IdInv
  <2>3. \A n \in 1 .. MaxOps : n > ops' => Unused(n)'
    BY <1>1, <2>1 DEF IInv, IdInv
  <2>4. \A v \in Writers : writers'[v].pc \in Waiting => Unused(writers[v].id)'
    <3> SUFFICES ASSUME NEW v \in Writers, writers'[v].pc \in Waiting
                 PROVE  Unused(writers[v].id)'
      OBVIOUS
    <3> PICK n : n = IF v = w THEN ops + 1 ELSE writers[v].id
      OBVIOUS
    <3>1. Unused(n) /\ writers'[v].id = n
      BY <1>3, <1>7, <2>2 DEF IInv, IdInv
    <3>2. Unused(n)'
      BY <2>1, <3>1
    <3> QED
      BY <3>1, <3>2
  <2>5. \A v \in Writers : writers[v].id # ops + 1
    BY <1>1, WriterFacts
  <2>6. \A u, v \in Writers : /\ writers'[u].pc # "idle" /\ writers'[v].pc # "idle"
                              /\ writers'[u].id = writers'[v].id
                              => u = v
    <3> TAKE u, v \in Writers
    <3>0. x.id = ops + 1
      BY <1>3
    <3>1. CASE u = w \/ v = w
      <4>1. writers'[u].id = IF u = w THEN x.id ELSE writers[u].id
        BY <1>7
      <4>2. writers'[v].id = IF v = w THEN x.id ELSE writers[v].id
        BY <1>7
      <4> QED
        BY <2>5, <3>0, <3>1, <4>1, <4>2
    <3>2. CASE u # w /\ v # w
      BY <1>7, <3>2, OneEach
    <3> QED
      BY <3>1, <3>2
  <2> QED
    BY <2>3, <2>4, <2>6 DEF IdInv
<1>11. FoundInv'
  <2>1. FoundOK(x)
    BY <1>4 DEF FoundOK
  <2>2. \A v \in Writers : FoundOK(writers'[v])
    BY <1>7, <2>1 DEF IInv, FoundInv
  <2> QED
    BY <1>0, <2>2 DEF FoundInv, FoundOK
<1>12. EventInv'
  <2>1. \A v \in Writers : writers'[v].pc \in Delivering => writers'[v] = writers[v]
    BY <1>4, <1>7 DEF Waiting, Delivering
  <2> QED
    BY <1>0, <2>1 DEF IInv, EventInv, NoEventLost, Announces, Event, Delivering
<1>13. IndexAgrees' /\ LinkEndsThere'
  BY <1>0 DEF IInv, IndexAgrees, LinkEndsThere
<1>14. ObjectCap' /\ LinkCap'
  BY <1>0 DEF IInv, ObjectCap, LinkCap, Objects
<1> QED
  BY <1>8, <1>9, <1>10, <1>11, <1>12, <1>13, <1>14 DEF IInv

LEMMA FailuresOK == IInv => failures \in 0 .. MaxFailures /\ MaxFailures \in Nat
BY ConstantsAssumption DEF IInv, StoreOK

(* A request that reads was begun, and goes on to a place of one.          *)
LEMMA PendingFacts ==
  ASSUME IInv, NEW w \in Writers, NEW what, what \in writers[w].pending
  PROVE  /\ writers[w].pc = "read" /\ writers[w].pc \in Waiting
         /\ AfterRead(w, what) \in {"read", "links", "commit"}
         /\ (writers[w].pending \ {what} # {}) = (AfterRead(w, what) = "read")
<1>1. Shape(writers[w])
  BY WriterFacts
<1>2. writers[w].pc = "read"
  BY <1>1 DEF Shape
<1>3. CASE writers[w].pending # {what}
  <2>1. AfterRead(w, what) = "read"
    BY <1>3 DEF AfterRead
  <2>2. writers[w].pending \ {what} # {}
    BY <1>3
  <2> QED
    BY <1>2, <2>1, <2>2 DEF Waiting
<1>4. CASE writers[w].pending = {what}
  <2>1. AfterRead(w, what) = IF HasLinks(writers[w].input) THEN "links" ELSE "commit"
    BY <1>4 DEF AfterRead
  <2> QED
    BY <1>2, <1>4, <2>1 DEF Waiting
<1> QED
  BY <1>3, <1>4

LEMMA ReadCountsOK == ASSUME IInv, NEW w \in Writers, ReadCounts(w) PROVE IInv'
<1> PICK y : y = writers[w]
  OBVIOUS
<1> PICK place : place = AfterRead(w, "counts")
  OBVIOUS
<1> PICK n : n = [objects |-> Cardinality(Objects), links |-> Cardinality(links)]
  OBVIOUS
<1> PICK x : x = [y EXCEPT !.pc = place, !.pending = @ \ {"counts"}, !.counts = n]
  OBVIOUS
<1>0. /\ "counts" \in y.pending /\ writers' = [writers EXCEPT ![w] = x]
      /\ UNCHANGED <<work, objs, idx, links, outbox, sent, cron, changes, revived, ops, failures>>
  BY DEF ReadCounts
<1>1. /\ y.pc = "read" /\ y.pc \in Waiting /\ place \in {"read", "links", "commit"}
      /\ (y.pending \ {"counts"} # {}) = (place = "read")
  BY <1>0, PendingFacts
<1>2. Shape(y) /\ IsWriter(y)
  BY WriterFacts
<1>3. /\ IsWriter(x) /\ x.pc = place /\ x.id = y.id /\ x.input = y.input
      /\ x.pending = y.pending \ {"counts"} /\ x.found = y.found /\ x.have = y.have
      /\ x.event = y.event
  BY <1>2 DEF IsWriter
<1>4. Shape(x) /\ x.pc \in Waiting
  BY <1>1, <1>2, <1>3 DEF Shape, Places, Delivering, Waiting
<1>5. FoundOK(x)
  BY <1>3 DEF IInv, FoundInv, FoundOK
<1> QED
  BY <1>0, <1>1, <1>3, <1>4, <1>5, FailuresOK, ReadingStep

LEMMA ReadObjectsOK == ASSUME IInv, NEW w \in Writers, ReadObjects(w) PROVE IInv'
<1> PICK y : y = writers[w]
  OBVIOUS
<1> PICK place : place = AfterRead(w, "find")
  OBVIOUS
<1> PICK wanted : wanted = {r \in Objects : r[1] \in KeysOf(y.input)}
  OBVIOUS
<1> PICK found : found = [r \in wanted |-> objs[r]]
  OBVIOUS
<1> PICK x : x = [y EXCEPT !.pc = place, !.pending = @ \ {"find"}, !.found = found]
  OBVIOUS
<1>0. /\ "find" \in y.pending /\ writers' = [writers EXCEPT ![w] = x]
      /\ UNCHANGED <<work, objs, idx, links, outbox, sent, cron, changes, revived, ops, failures>>
  BY DEF ReadObjects
<1>1. /\ y.pc = "read" /\ y.pc \in Waiting /\ place \in {"read", "links", "commit"}
      /\ (y.pending \ {"find"} # {}) = (place = "read")
  BY <1>0, PendingFacts
<1>2. Shape(y) /\ IsWriter(y)
  BY WriterFacts
<1>3. /\ IsWriter(x) /\ x.pc = place /\ x.id = y.id /\ x.input = y.input
      /\ x.pending = y.pending \ {"find"} /\ x.found = found /\ x.have = y.have
      /\ x.event = y.event
  BY <1>2 DEF IsWriter
<1>4. /\ DOMAIN found \subseteq Rids
      /\ \A r \in DOMAIN found : objs[r] # None /\ found[r] = objs[r] /\ objs[r] \in Object
  BY DEF Objects, IInv, StoreOK
<1>5. Shape(x) /\ x.pc \in Waiting
  BY <1>1, <1>2, <1>3, <1>4 DEF Shape, Places, Delivering, Waiting
<1>6. FoundOK(x)
  <2>1. \A o \in Object : o.version \in Nat
    BY DEF Object
  <2> QED
    BY <1>3, <1>4, <2>1 DEF FoundOK
<1>7. /\ x.pc # "idle" => /\ x.id = writers[w].id
                          /\ writers[w].pc \in Waiting /\ x.pc \in Waiting
      /\ \A r \in DOMAIN x.found : r \in DOMAIN writers[w].found \/ objs[r] # None
  BY <1>1, <1>3, <1>4, <1>5
<1>8. failures' \in 0 .. MaxFailures
  BY <1>0, FailuresOK
<1> QED
  BY <1>0, <1>5, <1>6, <1>7, <1>8, ReadingStep

LEMMA ReadLinksOK == ASSUME IInv, NEW w \in Writers, ReadLinks(w) PROVE IInv'
<1> PICK y : y = writers[w]
  OBVIOUS
<1> PICK have : have = {l \in links : l[1] \in DOMAIN y.found}
  OBVIOUS
<1> PICK x : x = [y EXCEPT !.pc = "commit", !.have = have]
  OBVIOUS
<1>0. /\ y.pc = "links" /\ writers' = [writers EXCEPT ![w] = x]
      /\ UNCHANGED <<work, objs, idx, links, outbox, sent, cron, changes, revived, ops, failures>>
  BY DEF ReadLinks
<1>2. Shape(y) /\ IsWriter(y)
  BY WriterFacts
<1>3. /\ IsWriter(x) /\ x.pc = "commit" /\ x.id = y.id /\ x.input = y.input
      /\ x.pending = y.pending /\ x.found = y.found /\ x.have = have
      /\ x.event = y.event
  BY <1>2 DEF IsWriter
<1>4. have \subseteq Rids \X Rids
  BY DEF IInv, StoreOK
<1>5. Shape(x) /\ x.pc \in Waiting /\ y.pc \in Waiting
  BY <1>0, <1>2, <1>3, <1>4 DEF Shape, Places, Delivering, Waiting
<1>6. FoundOK(x)
  BY <1>3 DEF IInv, FoundInv, FoundOK
<1> QED
  BY <1>0, <1>3, <1>5, <1>6, FailuresOK, ReadingStep

LEMMA RefuseOK == ASSUME IInv, NEW w \in Writers, Refuse(w) PROVE IInv'
BY ReturnStep, FailuresOK DEF Refuse

LEMMA StopOK == ASSUME IInv, NEW w \in Writers, Stop(w) PROVE IInv'
<1>1. failures' \in 0 .. MaxFailures
  <2>1. work.failures \in 0 .. MaxFailures
    BY ConstantsAssumption DEF IInv, StoreOK
  <2>2. failures \in 0 .. MaxFailures /\ MaxFailures \in Nat
    BY FailuresOK
  <2>3. failures < work.failures /\ failures' = failures + 1
    BY DEF Stop
  <2> QED
    BY <2>1, <2>2, <2>3
<1> QED
  BY <1>1, ReturnStep DEF Stop

-----------------------------------------------------------------------------
(* Delivery.                                                               *)

(* What a delivery leaves alone.                                           *)
LEMMA StoreAlone ==
  ASSUME IInv, UNCHANGED <<work, objs, idx, links, revived>>
  PROVE  IndexAgrees' /\ LinkEndsThere' /\ ObjectCap' /\ LinkCap'
BY DEF IInv, IndexAgrees, LinkEndsThere, ObjectCap, LinkCap, Objects

LEMMA EventFacts ==
  ASSUME IInv, NEW w \in Writers, writers[w].pc \in Delivering
  PROVE  /\ IsEvent(Event(w, writers[w].event))
         /\ Event(w, writers[w].event).id = writers[w].id
         /\ Event(w, writers[w].event).rids = writers[w].event
<1>1. writers[w].id \in 1 .. ops /\ ops \in Nat
  BY WriterFacts DEF Delivering
<1>2. writers[w].event \in SUBSET Rids /\ writers[w].event # {}
  BY WriterFacts DEF Shape
<1> QED
  BY <1>1, <1>2 DEF IsEvent, Event, EventRow

LEMMA PublishOK == ASSUME IInv, NEW w \in Writers, Publish(w) PROVE IInv'
<1> PICK y : y = writers[w]
  OBVIOUS
<1> PICK x : x = [y EXCEPT !.pc = "delete"]
  OBVIOUS
<1> PICK e : e = Event(w, y.event)
  OBVIOUS
<1>0. /\ y.pc = "publish" /\ writers' = [writers EXCEPT ![w] = x] /\ sent' = sent \cup {e}
      /\ UNCHANGED <<work, objs, idx, links, outbox, cron, changes, revived, ops, failures>>
  BY DEF Publish, Goto
<1>1. Shape(y) /\ IsWriter(y) /\ y.id \in 1 .. ops
  BY <1>0, WriterFacts
<1>2. /\ IsWriter(x) /\ x.pc = "delete" /\ x.id = y.id /\ x.input = y.input
      /\ x.pending = y.pending /\ x.found = y.found /\ x.have = y.have
      /\ x.event = y.event
  BY <1>1 DEF IsWriter
<1>3. /\ \A v \in Writers : writers'[v] = IF v = w THEN x ELSE writers[v]
      /\ writers' = [v \in Writers |-> writers'[v]]
  BY <1>0, OneWriter
<1>4. IsEvent(e) /\ e.id = y.id /\ Announces(e)
  BY <1>0, EventFacts DEF IInv, EventInv, Delivering
<1>5. StoreOK'
  BY <1>0, <1>4 DEF IInv, StoreOK, IsEvent
<1>6. WritersOK'
  <2>1. Shape(x)
    BY <1>0, <1>1, <1>2 DEF Shape, Places, Delivering
  <2>2. \A v \in Writers : Shape(writers'[v])
    BY <1>3, <2>1, WriterFacts
  <2> QED
    BY <1>0, <1>3, <2>2 DEF WritersOK, Shape, Asked
<1>7. IdInv'
  <2>1. ASSUME NEW n, n # y.id, Unused(n) PROVE Unused(n)'
    BY <1>0, <1>2, <1>3, <1>4, <2>1 DEF Unused
  <2>2. \A n \in 1 .. MaxOps : n > ops' => Unused(n)'
    BY <1>0, <1>1, <2>1, WriterFacts DEF IInv, IdInv
  <2>3. \A v \in Writers : writers'[v].pc \in Waiting => Unused(writers[v].id)'
    <3> SUFFICES ASSUME NEW v \in Writers, writers'[v].pc \in Waiting
                 PROVE  Unused(writers[v].id)'
      OBVIOUS
    <3> PICK n : n = writers[v].id
      OBVIOUS
    <3>1. v # w /\ writers'[v] = writers[v]
      BY <1>2, <1>3 DEF Waiting
    <3>2. Unused(n)
      BY <3>1 DEF IInv, IdInv
    <3>3. n # y.id
      BY <1>0, <3>1, OneEach DEF Waiting
    <3>4. Unused(n)'
      BY <2>1, <3>2, <3>3
    <3> QED
      BY <3>1, <3>4
  <2>4. \A v \in Writers : /\ writers'[v].id = writers[v].id
                           /\ writers'[v].pc # "idle" => writers[v].pc # "idle"
    BY <1>0, <1>2, <1>3
  <2>5. \A u, v \in Writers : /\ writers'[u].pc # "idle" /\ writers'[v].pc # "idle"
                              /\ writers'[u].id = writers'[v].id
                              => u = v
    BY <2>4, OneEach
  <2> QED
    BY <2>2, <2>3, <2>5 DEF IdInv
<1>8. FoundInv'
  <2>1. \A v \in Writers : writers'[v].found = writers[v].found
    BY <1>2, <1>3
  <2> QED
    BY <1>0, <2>1 DEF IInv, FoundInv, FoundOK
<1>9. EventInv'
  <2>1. NoEventLost'
    BY <1>0 DEF IInv, EventInv, NoEventLost
  <2>2. \A v \in Writers : /\ writers'[v].id = writers[v].id
                           /\ writers'[v].event = writers[v].event
                           /\ writers'[v].pc \in Delivering => writers[v].pc \in Delivering
                           /\ writers'[v].pc = "delete" => v = w \/ writers[v].pc = "delete"
    BY <1>0, <1>2, <1>3 DEF Delivering
  <2>3. \A f : Announces(f) => Announces(f)'
    BY <1>0 DEF Announces
  <2>4. \A v \in Writers : writers'[v].pc \in Delivering => Announces(Event(v, writers[v].event))'
    BY <1>0, <2>2 DEF IInv, EventInv, Announces, Event
  <2>5. \A v \in Writers : writers'[v].pc = "delete" => (Event(v, writers[v].event) \in sent)'
    BY <1>0, <2>2 DEF IInv, EventInv, Event
  <2>6. \A f \in outbox' : Announces(f)'
    BY <1>0, <2>3 DEF IInv, EventInv
  <2>7. cron' # None => Announces(cron.row)' /\ (cron.pc = "delete" => cron.row \in sent)'
    BY <1>0, <2>3 DEF IInv, EventInv, Announces
  <2> QED
    BY <2>1, <2>4, <2>5, <2>6, <2>7 DEF EventInv
<1> QED
  BY <1>0, <1>5, <1>6, <1>7, <1>8, <1>9, StoreAlone DEF IInv

(* Rows of an event that is in the queue may go.                           *)
LEMMA RowsGone ==
  ASSUME IInv, NEW sentEvent \in sent, Announces(sentEvent),
         outbox' = {e \in outbox : e.id # sentEvent.id}, UNCHANGED <<sent, changes>>
  PROVE  NoEventLost' /\ (\A e \in outbox' : Announces(e)') /\ outbox' \subseteq outbox
<1>1. NoEventLost'
  <2> SUFFICES ASSUME NEW c \in changes
               PROVE  \E e \in outbox' \cup sent : e.id = c.id /\ c.rids \subseteq e.rids
    BY DEF NoEventLost
  <2>1. CASE c.id = sentEvent.id
    BY <2>1 DEF Announces
  <2>2. CASE c.id # sentEvent.id
    BY <2>2 DEF IInv, EventInv, NoEventLost
  <2> QED
    BY <2>1, <2>2
<1> QED
  BY <1>1 DEF IInv, EventInv, Announces

LEMMA DeleteRowOK == ASSUME IInv, NEW w \in Writers, DeleteRow(w) PROVE IInv'
<1> PICK x : x = Idle
  OBVIOUS
<1> PICK f : f = Event(w, writers[w].event)
  OBVIOUS
<1>0. /\ writers[w].pc = "delete" /\ writers' = [writers EXCEPT ![w] = x]
      /\ outbox' = {e \in outbox : e.id # writers[w].id}
      /\ UNCHANGED <<work, objs, idx, links, sent, cron, changes, revived, ops, failures>>
  BY DEF DeleteRow, Return
<1>1. Shape(x) /\ x.pc = "idle" /\ FoundOK(x) /\ DOMAIN x.found = {}
  BY WriterFacts, IdleShape
<1>2. /\ \A v \in Writers : writers'[v] = IF v = w THEN x ELSE writers[v]
      /\ writers' = [v \in Writers |-> writers'[v]]
  BY <1>0, OneWriter
<1>3. f \in sent /\ Announces(f) /\ f.id = writers[w].id
  BY <1>0 DEF IInv, EventInv, Delivering, Event
<1>4. NoEventLost' /\ (\A e \in outbox' : Announces(e)') /\ outbox' \subseteq outbox
  BY <1>0, <1>3, RowsGone
<1>5. StoreOK'
  BY <1>0, <1>4 DEF IInv, StoreOK, IsEvent
<1>6. WritersOK'
  <2>1. \A v \in Writers : Shape(writers'[v])
    BY <1>1, <1>2, WriterFacts
  <2> QED
    BY <1>0, <1>2, <2>1 DEF WritersOK, Shape, Asked
<1>7. IdInv'
  <2>1. ASSUME NEW n, Unused(n) PROVE Unused(n)'
    BY <1>0, <1>1, <1>2, <1>4, <2>1 DEF Unused
  <2>2. \A n \in 1 .. MaxOps : n > ops' => Unused(n)'
    BY <1>0, <2>1 DEF IInv, IdInv
  <2>3. \A v \in Writers : writers'[v].pc # "idle" => writers'[v] = writers[v]
    BY <1>1, <1>2
  <2>4. \A v \in Writers : writers'[v].pc \in Waiting => Unused(writers[v].id)'
    <3> SUFFICES ASSUME NEW v \in Writers, writers'[v].pc \in Waiting
                 PROVE  Unused(writers[v].id)'
      OBVIOUS
    <3> PICK n : n = writers[v].id
      OBVIOUS
    <3>1. writers'[v] = writers[v] /\ Unused(n)
      BY <2>3 DEF IInv, IdInv, Waiting
    <3>2. Unused(n)'
      BY <2>1, <3>1
    <3> QED
      BY <3>1, <3>2
  <2>5. \A u, v \in Writers : /\ writers'[u].pc # "idle" /\ writers'[v].pc # "idle"
                              /\ writers'[u].id = writers'[v].id
                              => u = v
    BY <2>3, OneEach
  <2> QED
    BY <2>2, <2>4, <2>5 DEF IdInv
<1>8. FoundInv'
  <2>1. \A v \in Writers : FoundOK(writers'[v])
    BY <1>1, <1>2 DEF IInv, FoundInv
  <2> QED
    BY <1>0, <2>1 DEF FoundInv, FoundOK
<1>9. EventInv'
  <2>1. \A v \in Writers : writers'[v].pc \in Delivering => writers'[v] = writers[v]
    BY <1>1, <1>2 DEF Delivering
  <2>2. \A v \in Writers : writers'[v].pc \in Delivering => Announces(Event(v, writers[v].event))'
    BY <1>0, <2>1 DEF IInv, EventInv, Announces, Event
  <2>3. \A v \in Writers : writers'[v].pc = "delete" => (Event(v, writers[v].event) \in sent)'
    BY <1>0, <2>1 DEF IInv, EventInv, Event, Delivering
  <2>4. cron' # None => Announces(cron.row)' /\ (cron.pc = "delete" => cron.row \in sent)'
    BY <1>0 DEF IInv, EventInv, Announces
  <2> QED
    BY <1>4, <2>2, <2>3, <2>4 DEF EventInv
<1> QED
  BY <1>0, <1>5, <1>6, <1>7, <1>8, <1>9, StoreAlone DEF IInv

(* The cron hands on what was in the outbox, or in its hands.              *)
Held(e) == e \in outbox \/ (cron # None /\ e = cron.row)

LEMMA CronKeeps ==
  ASSUME IInv, UNCHANGED <<work, objs, idx, links, writers, changes, revived, ops>>,
         failures' \in 0 .. MaxFailures,
         outbox' \subseteq outbox, sent \subseteq sent',
         \A e \in sent' : e \in sent \/ Held(e),
         cron' # None => /\ cron' \in [row : EventRow, pc : Delivering]
                         /\ Held(cron'.row)
                         /\ cron'.pc = "delete" => cron'.row \in sent',
         NoEventLost'
  PROVE  IInv'
<1>1. \A e : Held(e) => /\ IsEvent(e) /\ Announces(e)
                        /\ \A n : Unused(n) => e.id # n
  BY DEF Held, IInv, StoreOK, EventInv, Unused
<1>2. StoreOK'
  <2>1. \A e : IsEvent(e)' <=> IsEvent(e)
    BY DEF IsEvent
  <2>2. \A e \in (outbox \cup sent \cup changes)' : IsEvent(e)'
    BY <1>1, <2>1 DEF IInv, StoreOK
  <2>3. cron' # None => cron' \in [row : EventRow, pc : Delivering] /\ IsEvent(cron.row)'
    BY <1>1 DEF IsEvent
  <2> QED
    BY <2>2, <2>3 DEF IInv, StoreOK
<1>3. WritersOK'
  BY DEF IInv, WritersOK, Shape, Asked
<1>4. IdInv'
  <2>1. ASSUME NEW n, Unused(n) PROVE Unused(n)'
    BY <1>1, <2>1 DEF Unused
  <2>2. ASSUME NEW v \in Writers, writers[v].pc \in Waiting PROVE Unused(writers[v].id)'
    <3> PICK n : n = writers[v].id
      OBVIOUS
    <3>1. Unused(n)
      BY <2>2 DEF IInv, IdInv
    <3>2. Unused(n)'
      BY <2>1, <3>1
    <3> QED
      BY <3>2
  <2>3. \A n \in 1 .. MaxOps : n > ops' => Unused(n)'
    BY <2>1 DEF IInv, IdInv
  <2>4. \A u, v \in Writers : /\ writers[u].pc # "idle" /\ writers[v].pc # "idle"
                              /\ writers[u].id = writers[v].id
                              => u = v
    BY OneEach
  <2> QED
    BY <2>2, <2>3, <2>4 DEF IdInv
<1>5. FoundInv'
  BY DEF IInv, FoundInv, FoundOK
<1>6. EventInv'
  <2>1. \A e : Announces(e)' <=> Announces(e)
    BY DEF Announces
  <2>2. \A e \in outbox' : Announces(e)'
    BY <2>1 DEF IInv, EventInv
  <2>3. cron' # None => Announces(cron.row)' /\ (cron.pc = "delete" => cron.row \in sent)'
    BY <1>1 DEF Announces
  <2>4. \A v \in Writers : writers'[v].pc \in Delivering => Announces(Event(v, writers[v].event))'
    BY DEF IInv, EventInv, Announces, Event
  <2>5. \A v \in Writers : writers'[v].pc = "delete" => (Event(v, writers[v].event) \in sent)'
    BY DEF IInv, EventInv, Event
  <2> QED
    BY <2>2, <2>3, <2>4, <2>5 DEF EventInv
<1> QED
  BY <1>2, <1>3, <1>4, <1>5, <1>6, StoreAlone DEF IInv

LEMMA CronReadOK == ASSUME IInv, NEW e \in outbox, CronRead(e) PROVE IInv'
<1> PICK k : k = [row |-> e, pc |-> "publish"]
  OBVIOUS
<1>0. /\ cron' = k
      /\ UNCHANGED <<work, objs, idx, links, outbox, sent, writers, changes, revived, ops, failures>>
  BY DEF CronRead
<1>1. e \in EventRow
  BY DEF IInv, StoreOK, IsEvent
<1>2. k \in [row : EventRow, pc : Delivering] /\ k.row = e /\ k.pc = "publish"
  BY <1>1 DEF Delivering
<1>3. NoEventLost'
  BY <1>0 DEF IInv, EventInv, NoEventLost
<1> QED
  BY <1>0, <1>2, <1>3, FailuresOK, CronKeeps DEF Held

LEMMA CronPublishOK == ASSUME IInv, CronPublish PROVE IInv'
<1> PICK k : k = [cron EXCEPT !.pc = "delete"]
  OBVIOUS
<1>0. /\ cron # None /\ cron' = k /\ sent' = sent \cup {cron.row}
      /\ UNCHANGED <<work, objs, idx, links, outbox, writers, changes, revived, ops, failures>>
  BY DEF CronPublish
<1>1. cron \in [row : EventRow, pc : Delivering]
  BY <1>0 DEF IInv, StoreOK
<1>2. k \in [row : EventRow, pc : Delivering] /\ k.row = cron.row /\ k.pc = "delete"
  BY <1>1 DEF Delivering
<1>3. NoEventLost'
  BY <1>0 DEF IInv, EventInv, NoEventLost
<1> QED
  BY <1>0, <1>2, <1>3, FailuresOK, CronKeeps DEF Held

LEMMA CronDeleteOK == ASSUME IInv, CronDelete PROVE IInv'
<1> PICK f : f = cron.row
  OBVIOUS
<1>0. /\ cron # None /\ cron.pc = "delete" /\ cron' = None
      /\ outbox' = {e \in outbox : e.id # f.id}
      /\ UNCHANGED <<work, objs, idx, links, sent, writers, changes, revived, ops, failures>>
  BY DEF CronDelete
<1>1. f \in sent /\ Announces(f)
  BY <1>0 DEF IInv, EventInv
<1>2. NoEventLost' /\ outbox' \subseteq outbox
  BY <1>0, <1>1, RowsGone
<1> QED
  BY <1>0, <1>2, FailuresOK, CronKeeps

LEMMA CronStopOK == ASSUME IInv, CronStop PROVE IInv'
<1>0. /\ cron' = None /\ failures < work.failures /\ failures' = failures + 1
      /\ UNCHANGED <<work, objs, idx, links, outbox, sent, writers, changes, revived, ops>>
  BY DEF CronStop
<1>1. failures' \in 0 .. MaxFailures
  <2>1. work.failures \in 0 .. MaxFailures
    BY ConstantsAssumption DEF IInv, StoreOK
  <2>2. failures \in 0 .. MaxFailures /\ MaxFailures \in Nat
    BY FailuresOK
  <2> QED
    BY <1>0, <2>1, <2>2
<1>2. NoEventLost'
  BY <1>0 DEF IInv, EventInv, NoEventLost
<1> QED
  BY <1>0, <1>1, <1>2, CronKeeps

-----------------------------------------------------------------------------
(* "Clear workspace": nothing is left to agree with.                       *)
LEMMA ClearAllOK == ASSUME IInv, NEW w \in Writers, ClearAll(w) PROVE IInv'
<1> PICK x : x = Idle
  OBVIOUS
<1>0. /\ writers' = [writers EXCEPT ![w] = x]
      /\ objs' = [r \in Rids |-> None] /\ idx' = [r \in Rids |-> None]
      /\ links' = {} /\ outbox' = {} /\ changes' = {}
      /\ UNCHANGED <<work, sent, cron, revived, ops, failures>>
  BY DEF ClearAll, Return
<1>1. Shape(x) /\ x.pc = "idle" /\ DOMAIN x.found = {}
  BY WriterFacts, IdleShape
<1>2. /\ \A v \in Writers : writers'[v] = IF v = w THEN x ELSE writers[v]
      /\ writers' = [v \in Writers |-> writers'[v]]
  BY <1>0, OneWriter
<1>3. StoreOK'
  BY <1>0 DEF IInv, StoreOK, IsEvent
<1>4. WritersOK'
  <2>1. \A v \in Writers : Shape(writers'[v])
    BY <1>1, <1>2, WriterFacts
  <2> QED
    BY <1>0, <1>2, <2>1 DEF WritersOK, Shape, Asked
<1>5. IdInv'
  <2>1. ASSUME NEW n, Unused(n) PROVE Unused(n)'
    BY <1>0, <1>1, <1>2, <2>1 DEF Unused
  <2>2. \A n \in 1 .. MaxOps : n > ops' => Unused(n)'
    BY <1>0, <2>1 DEF IInv, IdInv
  <2>3. \A v \in Writers : writers'[v].pc # "idle" => writers'[v] = writers[v]
    BY <1>1, <1>2
  <2>4. ASSUME NEW v \in Writers, writers'[v].pc \in Waiting PROVE Unused(writers[v].id)'
    <3> PICK n : n = writers[v].id
      OBVIOUS
    <3>1. writers'[v] = writers[v] /\ Unused(n)
      BY <2>3, <2>4 DEF IInv, IdInv, Waiting
    <3>2. Unused(n)'
      BY <2>1, <3>1
    <3> QED
      BY <3>1, <3>2
  <2>5. \A u, v \in Writers : /\ writers'[u].pc # "idle" /\ writers'[v].pc # "idle"
                              /\ writers'[u].id = writers'[v].id
                              => u = v
    BY <2>3, OneEach
  <2> QED
    BY <2>2, <2>4, <2>5 DEF IdInv
<1>6. FoundInv'
  <2>1. \A v \in Writers : \A r \in DOMAIN writers'[v].found : objs'[r] = None
    BY <1>0, <1>1, <1>2, WriterFacts
  <2> QED
    BY <2>1 DEF FoundInv, FoundOK
<1>7. EventInv'
  <2>1. \A v \in Writers : writers'[v].pc = "delete" => writers'[v] = writers[v]
    BY <1>1, <1>2
  <2>2. \A v \in Writers : writers'[v].pc = "delete" => (Event(v, writers[v].event) \in sent)'
    BY <1>0, <2>1 DEF IInv, EventInv, Event
  <2>3. cron' # None => (cron.pc = "delete" => cron.row \in sent)'
    BY <1>0 DEF IInv, EventInv
  <2>4. \A e : Announces(e)'
    BY <1>0 DEF Announces
  <2>5. NoEventLost'
    BY <1>0 DEF NoEventLost
  <2> QED
    BY <1>0, <2>2, <2>3, <2>4, <2>5 DEF EventInv
<1>8. IndexAgrees' /\ LinkEndsThere'
  BY <1>0 DEF IndexAgrees, LinkEndsThere
<1>9. ObjectCap' /\ LinkCap'
  <2>1. (Objects \ revived)' = {} /\ links' = {}
    BY <1>0 DEF Objects
  <2>2. Cardinality({}) = 0
    BY FS_EmptySet
  <2> QED
    BY <2>1, <2>2, ConstantsAssumption DEF ObjectCap, LinkCap
<1> QED
  BY <1>3, <1>4, <1>5, <1>6, <1>7, <1>8, <1>9 DEF IInv

-----------------------------------------------------------------------------
(* Commits.                                                                *)

(* The object a request means by a primary key: the one it found, or a new *)
(* one that bears its number.                                              *)
LEMMA RidOfFacts ==
  ASSUME IInv, NEW w \in Writers, NEW pk \in Keys
  PROVE  /\ RidOf(w, pk) \in Rids /\ RidOf(w, pk)[1] = pk
         /\ Named(pk, DOMAIN writers[w].found) = {} => RidOf(w, pk)[2] = writers[w].id
         /\ Named(pk, DOMAIN writers[w].found) # {} => RidOf(w, pk) \in DOMAIN writers[w].found
<1> PICK known : known = Named(pk, DOMAIN writers[w].found)
  OBVIOUS
<1>1. \A r \in known : r \in Rids /\ r[1] = pk /\ r \in DOMAIN writers[w].found
  BY WriterFacts DEF Named
<1>2. CASE known = {}
  <2>1. RidOf(w, pk) = <<pk, writers[w].id>>
    BY <1>2 DEF RidOf
  <2>2. writers[w].id \in 0 .. MaxOps
    BY WriterFacts
  <2> QED
    BY <1>2, <2>1, <2>2 DEF Rids
<1>3. CASE known # {}
  <2>1. RidOf(w, pk) = CHOOSE r \in known : TRUE
    BY <1>3 DEF RidOf
  <2>2. RidOf(w, pk) \in known
    BY <1>3, <2>1
  <2> QED
    BY <1>1, <1>3, <2>2
<1> QED
  BY <1>2, <1>3

LEMMA RowFacts ==
  ASSUME IInv, NEW w \in Writers, writers[w].pc = "commit"
  PROVE  /\ Len(RowsOf(w)) \in Nat
         /\ \A i \in 1 .. Len(RowsOf(w)) : IsRow(RowsOf(w)[i])
         /\ writers[w].input.kind \in {"patch", "action"} => Len(RowsOf(w)) = 1
<1>1. writers[w].input \in Asked
  BY WriterFacts
<1>2. IsInput(writers[w].input)
  BY <1>1, InputFacts DEF IInv
<1> QED
  BY <1>2 DEF IsInput, RowsOf

LEMMA MergeType ==
  ASSUME NEW props \in PropMap, NEW row, IsRow(row)
  PROVE  Merge(props, row.set) \in PropMap
<1>1. \A p \in Props : (IF p \in DOMAIN row.set THEN row.set[p] ELSE props[p]) \in Vals \cup {None}
  BY DEF PropMap, IsRow
<1> QED
  BY <1>1 DEF Merge, PropMap

(* A batch numbers its new objects, each by itself.                        *)
LEMMA OrdinalFacts ==
  ASSUME IInv, NEW w \in Writers, writers[w].pc = "commit",
         NEW i \in 1 .. Len(RowsOf(w)), IsNew(w, i)
  PROVE  /\ Ordinal(w, i) \in Nat /\ Ordinal(w, i) > 0
         /\ \A j \in 1 .. Len(RowsOf(w)) :
              IsNew(w, j) /\ Ordinal(w, i) = Ordinal(w, j) => i = j
<1> PICK new : new = {j \in 1 .. Len(RowsOf(w)) : IsNew(w, j)}
  OBVIOUS
<1>1. Len(RowsOf(w)) \in Nat
  BY RowFacts
<1>2. new \subseteq Nat /\ i \in new /\ IsFiniteSet(new)
  <2>1. IsFiniteSet(1 .. Len(RowsOf(w)))
    BY <1>1, FS_Interval
  <2>2. new \in SUBSET (1 .. Len(RowsOf(w)))
    OBVIOUS
  <2>3. IsFiniteSet(new)
    BY <2>1, <2>2, FS_Subset
  <2> QED
    BY <1>1, <2>3
<1>3. \A j \in 1 .. Len(RowsOf(w)) : Ordinal(w, j) = Rank(new, j)
  <2> TAKE j \in 1 .. Len(RowsOf(w))
  <2>1. {k \in 1 .. j : IsNew(w, k)} = {k \in new : k <= j}
    BY <1>1
  <2> QED
    BY <2>1 DEF Ordinal, Rank
<1>4. /\ Rank(new, i) \in Nat /\ Rank(new, i) > 0
      /\ \A j \in new : Rank(new, i) = Rank(new, j) => i = j
  BY <1>2, RankFacts
<1> QED
  BY <1>3, <1>4

LEMMA PlanFacts ==
  ASSUME IInv, NEW w \in Writers, writers[w].pc = "commit"
  PROVE  /\ DOMAIN PlanObjects(w) \subseteq Rids
         /\ PlanObjects(w) = [r \in DOMAIN PlanObjects(w) |-> PlanObjects(w)[r]]
         /\ \A r \in DOMAIN PlanObjects(w) :
              /\ PlanObjects(w)[r].props \in PropMap
              /\ \/ PlanObjects(w)[r].n = None /\ r \in DOMAIN writers[w].found
                 \/ PlanObjects(w)[r].n \in Nat \ {0, None} /\ r[2] = writers[w].id
         /\ \A r, s \in DOMAIN PlanObjects(w) :
              PlanObjects(w)[r].n = PlanObjects(w)[s].n /\ PlanObjects(w)[r].n # None => r = s
<1> PICK plan : plan = PlanObjects(w)
  OBVIOUS
<1>1. \A i \in Changing(w) : i \in 1 .. Len(RowsOf(w)) /\ IsRow(RowsOf(w)[i])
  BY RowFacts DEF Changing, Planned
<1>2. /\ DOMAIN plan = {RidOf(w, RowsOf(w)[i].pk) : i \in Changing(w)}
      /\ plan = [r \in DOMAIN plan |-> plan[r]]
      /\ \A r \in DOMAIN plan : plan[r] =
           [props |-> PlannedProps(w, RowFor(w, r)),
            n |-> IF IsNew(w, RowFor(w, r)) THEN Ordinal(w, RowFor(w, r)) ELSE None]
  BY DEF PlanObjects
<1>3. \A r \in DOMAIN plan :
         RowFor(w, r) \in Changing(w) /\ r = RidOf(w, RowsOf(w)[RowFor(w, r)].pk)
  <2> TAKE r \in DOMAIN plan
  <2>1. \E i \in Changing(w) : RidOf(w, RowsOf(w)[i].pk) = r
    BY <1>2
  <2> QED
    BY <2>1 DEF RowFor
<1>4. ASSUME NEW r \in DOMAIN plan, NEW i, i = RowFor(w, r)
      PROVE  /\ r \in Rids /\ plan[r].props \in PropMap
             /\ i \in 1 .. Len(RowsOf(w)) /\ r = RidOf(w, RowsOf(w)[i].pk)
             /\ IsNew(w, i) => /\ r[2] = writers[w].id /\ plan[r].n = Ordinal(w, i)
                               /\ Ordinal(w, i) \in Nat \ {0}
             /\ ~IsNew(w, i) => r \in DOMAIN writers[w].found /\ plan[r].n = None
  <2>1. /\ i \in 1 .. Len(RowsOf(w)) /\ IsRow(RowsOf(w)[i])
        /\ r = RidOf(w, RowsOf(w)[i].pk) /\ RowsOf(w)[i].pk \in Keys
    BY <1>1, <1>3, <1>4 DEF IsRow
  <2>2. /\ r \in Rids
        /\ IsNew(w, i) => r[2] = writers[w].id
        /\ ~IsNew(w, i) => r \in DOMAIN writers[w].found
    BY <2>1, RidOfFacts DEF IsNew
  <2>3. plan[r] = [props |-> PlannedProps(w, i),
                   n |-> IF IsNew(w, i) THEN Ordinal(w, i) ELSE None]
    BY <1>2, <1>4
  <2>4. PlannedProps(w, i) \in PropMap
    <3>1. CASE IsNew(w, i)
      <4>1. Blank \in PropMap
        BY DEF Blank, PropMap
      <4>2. PlannedProps(w, i) = Merge(Blank, RowsOf(w)[i].set)
        BY <3>1 DEF PlannedProps
      <4> QED
        BY <2>1, <4>1, <4>2, MergeType
    <3>2. CASE ~IsNew(w, i)
      <4>1. writers[w].found[r].props \in PropMap
        BY <2>2, <3>2, WriterFacts DEF Shape, Object
      <4>2. PlannedProps(w, i) = Merge(writers[w].found[r].props, RowsOf(w)[i].set)
        BY <2>1, <3>2 DEF PlannedProps
      <4> QED
        BY <2>1, <4>1, <4>2, MergeType
    <3> QED
      BY <3>1, <3>2
  <2>5. IsNew(w, i) => Ordinal(w, i) \in Nat \ {0}
    BY <2>1, OrdinalFacts
  <2>6. /\ plan[r].props = PlannedProps(w, i)
        /\ IsNew(w, i) => plan[r].n = Ordinal(w, i)
        /\ ~IsNew(w, i) => plan[r].n = None
    BY <2>3
  <2> QED
    BY <2>1, <2>2, <2>4, <2>5, <2>6
<1>5. \A r \in DOMAIN plan :
         /\ r \in Rids /\ plan[r].props \in PropMap
         /\ \/ plan[r].n = None /\ r \in DOMAIN writers[w].found
            \/ plan[r].n \in Nat \ {0, None} /\ r[2] = writers[w].id
  BY <1>4, NoneAssumption
<1>6. \A r, s \in DOMAIN plan : plan[r].n = plan[s].n /\ plan[r].n # None => r = s
  <2> SUFFICES ASSUME NEW r \in DOMAIN plan, NEW s \in DOMAIN plan,
                      plan[r].n = plan[s].n, plan[r].n # None
               PROVE  r = s
    OBVIOUS
  <2> PICK i : i = RowFor(w, r)
    OBVIOUS
  <2> PICK j : j = RowFor(w, s)
    OBVIOUS
  <2>1. /\ i \in 1 .. Len(RowsOf(w)) /\ r = RidOf(w, RowsOf(w)[i].pk)
        /\ IsNew(w, i) /\ plan[r].n = Ordinal(w, i)
    BY <1>4
  <2>2. /\ j \in 1 .. Len(RowsOf(w)) /\ s = RidOf(w, RowsOf(w)[j].pk)
        /\ IsNew(w, j) /\ plan[s].n = Ordinal(w, j)
    BY <1>4
  <2>3. i = j
    BY <2>1, <2>2, OrdinalFacts
  <2> QED
    BY <2>1, <2>2, <2>3
<1> QED
  BY <1>2, <1>5, <1>6

LEMMA LinkFacts ==
  ASSUME IInv, NEW w \in Writers, writers[w].pc = "commit"
  PROVE  /\ \A x \in PlanLinks(w) : x.link \in Rids \X Rids /\ x.n \in Nat \ {0}
         /\ \A x, y \in PlanLinks(w) : x.n = y.n => x = y
<1> PICK all : all = Linking(w)
  OBVIOUS
<1>1. Len(RowsOf(w)) \in Nat
  BY RowFacts
<1>2. /\ all \subseteq 1 .. Len(RowsOf(w))
      /\ \A i \in all : RowsOf(w)[i].to # None /\ IsRow(RowsOf(w)[i])
  BY RowFacts DEF Linking, Planned
<1>3. all \subseteq Nat /\ IsFiniteSet(all)
  <2>1. IsFiniteSet(1 .. Len(RowsOf(w)))
    BY <1>1, FS_Interval
  <2>2. IsFiniteSet(all)
    BY <1>2, <2>1, FS_Subset
  <2> QED
    BY <1>1, <1>2, <2>2
<1>4. \A i \in all : LinkOrdinal(w, i) = Rank(all, i)
  BY DEF LinkOrdinal, Rank
<1>5. \A i \in all : /\ LinkOrdinal(w, i) \in Nat /\ LinkOrdinal(w, i) > 0
                     /\ \A j \in all : LinkOrdinal(w, i) = LinkOrdinal(w, j) => i = j
  BY <1>3, <1>4, RankFacts
<1>6. \A i \in all : LinkOf(w, i) \in Rids \X Rids
  <2> TAKE i \in all
  <2>1. RowsOf(w)[i].pk \in Keys /\ RowsOf(w)[i].to \in Keys
    BY <1>2 DEF IsRow
  <2>2. RidOf(w, RowsOf(w)[i].pk) \in Rids /\ RidOf(w, RowsOf(w)[i].to) \in Rids
    BY <2>1, RidOfFacts
  <2> QED
    BY <2>2 DEF LinkOf
<1>7. \A x \in PlanLinks(w) :
         \E i \in all : x = [link |-> LinkOf(w, i), n |-> LinkOrdinal(w, i)]
  BY DEF PlanLinks
<1> QED
  BY <1>5, <1>6, <1>7

(* What every commit does to requests and events: the event it stores has  *)
(* a number nothing bears, and names at least what the commit reports.     *)
LEMMA CommitStep ==
  ASSUME IInv, NEW w \in Writers, writers[w].pc = "commit", NEW x,
         NEW stored \in SUBSET Rids, NEW reported \in SUBSET stored,
         UNCHANGED <<work, sent, cron, ops, failures>>,
         outbox' = IF stored = {} THEN outbox ELSE outbox \cup {Event(w, stored)},
         Commit(w, reported),
         writers' = [writers EXCEPT ![w] = x],
         x = IF reported = {} THEN Idle
             ELSE [writers[w] EXCEPT !.pc = "publish", !.event = reported],
         objs' \in [Rids -> Object \cup {None}],
         \A r \in Rids : objs'[r] # None => objs'[r].version > 0,
         idx' \in [Rids -> PropMap \cup {None}],
         links' \subseteq Rids \X Rids,
         revived \subseteq revived', revived' \subseteq Rids,
         \A r \in Rids : objs[r] # None => objs'[r] # None,
         \A r \in Rids : objs'[r] # objs[r] =>
           \/ r[2] = writers[w].id
           \/ /\ r \in DOMAIN writers[w].found
              /\ r \in revived' \/ (objs[r] # None /\ objs'[r].version > objs[r].version)
  PROVE  StoreOK' /\ WritersOK' /\ IdInv' /\ FoundInv' /\ EventInv'
<1> PICK y : y = writers[w]
  OBVIOUS
<1> PICK e : e = Event(w, stored)
  OBVIOUS
<1> PICK c : c = Event(w, reported)
  OBVIOUS
<1>1. /\ Shape(y) /\ IsWriter(y) /\ y.pc = "commit" /\ y.id \in 1 .. ops
      /\ ops \in Nat /\ y.input \in Asked
  BY WriterFacts
<1>2. Unused(y.id)
  BY <1>1 DEF IInv, IdInv, Waiting
<1>3. /\ IsEvent(e) \/ stored = {}
      /\ IsEvent(c) \/ reported = {}
      /\ e.id = y.id /\ c.id = y.id /\ e.rids = stored /\ c.rids = reported
  <2>1. stored \in SUBSET Rids /\ reported \in SUBSET Rids
    OBVIOUS
  <2> QED
    BY <1>1, <2>1 DEF Event, IsEvent, EventRow
<1>4. /\ Shape(x)
      /\ x.found = y.found \/ DOMAIN x.found = {}
      /\ x.pc \in {"idle", "publish"}
      /\ x.pc = "publish" => x.id = y.id /\ x.event = reported
      /\ DOMAIN x.found \subseteq Rids
  <2>1. CASE reported = {}
    <3>1. x = Idle
      BY <2>1
    <3> QED
      BY <1>1, <3>1, IdleShape
  <2>2. CASE reported # {}
    <3>1. x = [y EXCEPT !.pc = "publish", !.event = reported]
      BY <2>2
    <3>2. /\ IsWriter(x) /\ x.pc = "publish" /\ x.id = y.id /\ x.input = y.input
          /\ x.pending = y.pending /\ x.found = y.found /\ x.have = y.have
          /\ x.event = reported
      BY <1>1, <3>1 DEF IsWriter
    <3>3. Shape(x)
      BY <1>1, <2>2, <3>2 DEF Shape, Places, Delivering
    <3> QED
      BY <1>1, <3>2, <3>3, WriterFacts
  <2> QED
    BY <2>1, <2>2
<1>5. /\ \A v \in Writers : writers'[v] = IF v = w THEN x ELSE writers[v]
      /\ writers' = [v \in Writers |-> writers'[v]]
  BY OneWriter
<1>6. /\ outbox' \subseteq outbox \cup {e} /\ outbox \subseteq outbox'
      /\ stored # {} => e \in outbox'
      /\ stored = {} => outbox' = outbox
      /\ changes' \subseteq changes \cup {c}
      /\ reported = {} => changes' = changes
  BY DEF Commit
<1>7. StoreOK'
  <2>1. \A f : IsEvent(f)' <=> IsEvent(f)
    BY DEF IsEvent
  <2>2. \A f \in (outbox \cup sent \cup changes)' : IsEvent(f)'
    BY <1>3, <1>6, <2>1 DEF IInv, StoreOK
  <2>3. cron' # None => cron' \in [row : EventRow, pc : Delivering] /\ IsEvent(cron.row)'
    BY DEF IsEvent, IInv, StoreOK
  <2> QED
    BY <2>2, <2>3 DEF IInv, StoreOK
<1>8. WritersOK'
  <2>0. Shape(x)
    BY <1>1, <1>4, IdleShape
  <2>1. \A v \in Writers : Shape(writers'[v])
    BY <1>5, <2>0, WriterFacts
  <2> QED
    BY <1>5, <2>1 DEF WritersOK, Shape, Asked
<1>9. \A v \in Writers : DOMAIN writers'[v].found \subseteq DOMAIN writers[v].found
  BY <1>4, <1>5
<1>10. IdInv'
  <2>1. ASSUME NEW n, n # y.id, Unused(n) PROVE Unused(n)'
    <3>1. \A r \in Rids : r[2] = n => objs[r] = None /\ objs'[r] = objs[r]
      BY <2>1 DEF Unused
    <3>2. \A v \in Writers : \A r \in Rids : r[2] = n => r \notin DOMAIN writers'[v].found
      BY <1>9, <2>1 DEF Unused
    <3>3. \A f \in outbox' \cup sent' \cup changes' : f.id # n
      BY <1>3, <1>6, <2>1 DEF Unused
    <3> QED
      BY <2>1, <3>1, <3>2, <3>3 DEF Unused
  <2>2. \A n \in 1 .. MaxOps : n > ops' => Unused(n)'
    BY <1>1, <2>1 DEF IInv, IdInv
  <2>3. ASSUME NEW v \in Writers, writers'[v].pc \in Waiting PROVE Unused(writers[v].id)'
    <3> PICK n : n = writers[v].id
      OBVIOUS
    <3>1. v # w /\ writers'[v] = writers[v]
      BY <1>4, <1>5, <2>3 DEF Waiting
    <3>2. Unused(n)
      BY <2>3, <3>1 DEF IInv, IdInv
    <3>3. n # y.id
      BY <1>1, <2>3, <3>1, OneEach DEF Waiting
    <3>4. Unused(n)'
      BY <2>1, <3>2, <3>3
    <3> QED
      BY <3>1, <3>4
  <2>4. \A v \in Writers : writers'[v].pc # "idle" =>
           writers'[v].id = writers[v].id /\ writers[v].pc # "idle"
    BY <1>1, <1>4, <1>5
  <2>5. \A u, v \in Writers : /\ writers'[u].pc # "idle" /\ writers'[v].pc # "idle"
                              /\ writers'[u].id = writers'[v].id
                              => u = v
    BY <2>4, OneEach
  <2> QED
    BY <2>2, <2>3, <2>5 DEF IdInv
<1>11. FoundInv'
  <2> SUFFICES ASSUME NEW v \in Writers PROVE FoundOK(writers[v])'
    BY DEF FoundInv
  <2> SUFFICES ASSUME NEW r \in DOMAIN writers'[v].found, objs'[r] # None, r \notin revived'
               PROVE  /\ objs'[r].version >= writers'[v].found[r].version
                      /\ objs'[r].version = writers'[v].found[r].version
                           => objs'[r] = writers'[v].found[r]
                      /\ \A t \in DOMAIN writers'[v].found : objs'[t] # None
    BY DEF FoundOK
  <2>1. /\ r \in Rids /\ writers'[v].found = writers[v].found
        /\ r \in DOMAIN writers[v].found
    BY <1>4, <1>5, WriterFacts
  <2>2. r[2] # y.id /\ r \notin revived
    BY <1>2, <2>1 DEF Unused
  <2>3. objs[r] # None /\ (objs'[r] = objs[r] \/ objs'[r].version > objs[r].version)
    BY <2>2, <2>1
  <2>4. /\ objs[r].version >= writers[v].found[r].version
        /\ objs[r].version = writers[v].found[r].version => objs[r] = writers[v].found[r]
        /\ \A t \in DOMAIN writers[v].found : objs[t] # None
    BY <2>1, <2>2, <2>3 DEF IInv, FoundInv, FoundOK
  <2>5. \A t \in DOMAIN writers[v].found : t \in Rids
    BY WriterFacts
  <2>6. \A o \in Object : o.version \in Nat
    BY DEF Object
  <2>7. /\ objs[r].version \in Nat /\ objs'[r].version \in Nat
        /\ writers[v].found[r].version \in Nat
    BY <2>1, <2>3, <2>6, WriterFacts DEF IInv, StoreOK, Shape
  <2> QED
    BY <2>1, <2>3, <2>4, <2>5, <2>7
<1>12. EventInv'
  <2>1. \A f : f.id # y.id /\ Announces(f) => Announces(f)'
    BY <1>3, <1>6 DEF Announces
  <2>2. \A f : f.id = y.id /\ (reported \subseteq f.rids) => Announces(f)'
    <3>1. \A d \in changes : d.id # y.id
      BY <1>2 DEF Unused
    <3>2. \A d \in changes' : d = c \/ d.id # y.id
      BY <1>6, <3>1
    <3> QED
      BY <1>3, <3>2 DEF Announces
  <2>3. NoEventLost'
    <3> SUFFICES ASSUME NEW d \in changes'
                 PROVE  \E f \in outbox' \cup sent' : f.id = d.id /\ d.rids \subseteq f.rids
      BY DEF NoEventLost
    <3>1. CASE d \in changes
      BY <1>6, <3>1 DEF IInv, EventInv, NoEventLost
    <3>2. CASE d \notin changes
      <4>1. d = c /\ reported # {}
        BY <1>6, <3>2
      <4>2. e \in outbox' /\ e.id = d.id /\ d.rids \subseteq e.rids
        BY <1>3, <1>6, <4>1
      <4> QED
        BY <4>2
    <3> QED
      BY <3>1, <3>2
  <2>4. \A f \in outbox' : Announces(f)'
    <3>1. \A f \in outbox : f.id # y.id /\ Announces(f)
      BY <1>2 DEF Unused, IInv, EventInv
    <3> QED
      BY <1>3, <1>6, <2>1, <2>2, <3>1
  <2>5. cron' # None => Announces(cron.row)' /\ (cron.pc = "delete" => cron.row \in sent)'
    <3>1. cron # None => cron.row.id # y.id
      BY <1>2 DEF Unused
    <3>2. cron' # None => Announces(cron.row)'
      BY <2>1, <3>1 DEF IInv, EventInv, Announces
    <3> QED
      BY <3>2 DEF IInv, EventInv
  <2>6. \A v \in Writers : /\ writers'[v].pc \in Delivering => Announces(Event(v, writers[v].event))'
                           /\ writers'[v].pc = "delete" => (Event(v, writers[v].event) \in sent)'
    <3> TAKE v \in Writers
    <3>1. CASE v = w
      <4>1. writers'[v] = x
        BY <1>5, <3>1
      <4>2. x.pc # "delete" /\ (x.pc \in Delivering => x.pc = "publish")
        BY <1>4 DEF Delivering
      <4> PICK f : f = [id |-> x.id, rids |-> x.event]
        OBVIOUS
      <4>3. x.pc \in Delivering => f.id = y.id /\ reported \subseteq f.rids
        BY <1>4, <4>2
      <4>4. x.pc \in Delivering => Announces(f)'
        BY <2>2, <4>3
      <4>5. f = Event(v, writers[v].event)'
        BY <4>1 DEF Event
      <4> QED
        BY <4>1, <4>2, <4>4, <4>5
    <3>2. CASE v # w
      <4>1. writers'[v] = writers[v]
        BY <1>5, <3>2
      <4> PICK f : f = Event(v, writers[v].event)
        OBVIOUS
      <4>2. f.id = writers[v].id /\ f = Event(v, writers[v].event)'
        BY <4>1 DEF Event
      <4>3. writers[v].pc \in Delivering => f.id # y.id /\ Announces(f)
        BY <1>1, <3>2, <4>2, OneEach DEF Delivering, IInv, EventInv
      <4>4. writers[v].pc = "delete" => f \in sent
        BY DEF IInv, EventInv
      <4>5. writers'[v].pc \in Delivering => Announces(f)'
        BY <2>1, <4>1, <4>3
      <4>6. writers'[v].pc = "delete" => f \in sent'
        BY <4>1, <4>4
      <4>7. (f \in sent') = (Event(v, writers[v].event) \in sent)'
        BY <4>2
      <4>8. writers'[v].pc \in Delivering => Announces(Event(v, writers[v].event))'
        BY <4>2, <4>5
      <4> QED
        BY <4>6, <4>7, <4>8
    <3> QED
      BY <3>1, <3>2
  <2> QED
    BY <2>3, <2>4, <2>5, <2>6 DEF EventInv
<1> QED
  BY <1>7, <1>8, <1>10, <1>11, <1>12

LEMMA CommitUpsertOK == ASSUME IInv, NEW w \in Writers, CommitUpsert(w) PROVE IInv'
<1> PICK plan : plan = PlanObjects(w)
  OBVIOUS
<1> PICK pls : pls = PlanLinks(w)
  OBVIOUS
<1> PICK written : written = Written(plan)
  OBVIOUS
<1> PICK after : after = AfterUpsert(plan, written)
  OBVIOUS
<1> PICK indexed : indexed = Indexed(plan, after)
  OBVIOUS
<1> PICK newLinks : newLinks = WrittenLinks(pls, after)
  OBVIOUS
<1> PICK stored : stored = Stored(written, pls, links \cup newLinks)
  OBVIOUS
<1> PICK reported : reported = Reported(written, newLinks)
  OBVIOUS
<1> PICK x : x = IF reported = {} THEN Idle
                 ELSE [writers[w] EXCEPT !.pc = "publish", !.event = reported]
  OBVIOUS
<1>1. CASE Duplicate(plan) /\ Return(w)
             /\ UNCHANGED <<work, objs, idx, links, outbox, changes, revived>>
  <2>1. UNCHANGED <<sent, cron, ops, failures>>
    BY DEF CommitUpsert
  <2> QED
    BY <1>1, <2>1, FailuresOK, ReturnStep
<1>2. ASSUME ~(Duplicate(plan) /\ Return(w)
                 /\ UNCHANGED <<work, objs, idx, links, outbox, changes, revived>>)
      PROVE  IInv'
  <2>1. /\ writers[w].pc = "commit"
        /\ objs' = after /\ revived' = revived \cup Revived(plan, written)
        /\ idx' = [r \in Rids |-> IF r \in indexed THEN plan[r].props ELSE idx[r]]
        /\ links' = links \cup newLinks
        /\ outbox' = IF stored = {} THEN outbox ELSE outbox \cup {Event(w, stored)}
        /\ Commit(w, reported)
        /\ UNCHANGED <<work, sent, cron, ops, failures>>
    BY <1>2 DEF CommitUpsert
  <2>2. writers' = [writers EXCEPT ![w] = x]
    <3>1. CASE reported = {}
      BY <1>2, <3>1 DEF CommitUpsert, Return
    <3>2. CASE reported # {}
      BY <1>2, <3>2 DEF CommitUpsert
    <3> QED
      BY <3>1, <3>2
  <2>3. /\ DOMAIN plan \subseteq Rids
        /\ \A r \in DOMAIN plan :
             /\ plan[r].props \in PropMap
             /\ \/ plan[r].n = None /\ r \in DOMAIN writers[w].found
                \/ plan[r].n \in Nat \ {0, None} /\ r[2] = writers[w].id
        /\ \A r, s \in DOMAIN plan : plan[r].n = plan[s].n /\ plan[r].n # None => r = s
    BY <2>1, PlanFacts
  <2>4. /\ \A l \in pls : l.link \in Rids \X Rids /\ l.n \in Nat \ {0}
        /\ \A k, l \in pls : k.n = l.n => k = l
    BY <2>1, LinkFacts
  <2>5. /\ written \subseteq DOMAIN plan
        /\ \A r \in written : Fits(plan[r]) /\ (objs[r] # None => objs[r].props # plan[r].props)
    BY DEF Written
  <2>6. /\ DOMAIN after = Rids
        /\ \A r \in written : after[r] = [props |-> plan[r].props, version |-> NextVersion(r)]
        /\ \A r \in Rids : r \notin written => after[r] = objs[r]
    BY <2>3, <2>5 DEF AfterUpsert
  <2>7. /\ newLinks \cap links = {}
        /\ \A l \in newLinks : \E k \in pls : k.link = l /\ EndsExist(l, after) /\ LinkFits(k)
    BY DEF WrittenLinks
  <2>8. \A r \in Rids : objs[r] # None => objs[r] \in Object /\ objs[r].version \in Nat \ {0}
    BY DEF IInv, StoreOK, Object
  <2>9. \A r \in written : /\ after[r] \in Object /\ after[r] # None
                           /\ after[r].props = plan[r].props
                           /\ after[r].version \in Nat \ {0}
                           /\ objs[r] # None => after[r].version > objs[r].version
    <3> TAKE r \in written
    <3>1. /\ NextVersion(r) \in Nat \ {0}
          /\ objs[r] # None => NextVersion(r) > objs[r].version
      BY <2>3, <2>5, <2>8 DEF NextVersion
    <3> PICK n : n = NextVersion(r)
      OBVIOUS
    <3> PICK props : props = plan[r].props
      OBVIOUS
    <3>2. props \in PropMap /\ n \in Nat \ {0}
      BY <2>3, <2>5, <3>1
    <3>3. after[r] = [props |-> props, version |-> n]
      BY <2>6
    <3>4. after[r] \in Object /\ after[r].props = props /\ after[r].version = n
      BY <3>2, <3>3 DEF Object
    <3> QED
      BY <3>1, <3>2, <3>4, NoneAssumption
  <2>10. Revived(plan, written) = {r \in written : objs[r] = None /\ plan[r].n = None}
    BY DEF Revived
  <2>11. stored \in SUBSET Rids /\ reported \in SUBSET stored
    <3>1. stored = written \cup {k.link[1] : k \in {l \in pls : l.link \in links \cup newLinks}}
      BY DEF Stored
    <3>2. reported = written \cup {l[1] : l \in newLinks}
      BY DEF Reported
    <3>3. \A l \in newLinks : l[1] \in stored
      BY <2>7, <3>1
    <3>4. \A k \in pls : k.link[1] \in Rids
      BY <2>4
    <3>5. \A r \in stored : r \in Rids
      BY ZenonT(40), <2>3, <2>5, <3>1, <3>4
    <3>6. \A r \in reported : r \in stored
      <4> TAKE r \in reported
      <4>1. r \in written \/ \E l \in newLinks : r = l[1]
        BY <3>2
      <4>2. \A t \in written : t \in stored
        BY <3>1
      <4> QED
        BY <3>3, <4>1, <4>2
    <3> QED
      BY <3>5, <3>6
  <2>12. /\ objs' \in [Rids -> Object \cup {None}]
         /\ \A r \in Rids : objs'[r] # None => objs'[r].version > 0
    <3>1. \A r \in Rids : objs'[r] = after[r] /\ after[r] \in Object \cup {None}
      BY <2>1, <2>6, <2>8, <2>9
    <3>2. objs' \in [Rids -> Object \cup {None}]
      BY <2>1, <3>1 DEF AfterUpsert
    <3> QED
      BY <2>6, <2>8, <2>9, <3>1, <3>2
  <2>13. idx' \in [Rids -> PropMap \cup {None}] /\ (indexed \subseteq DOMAIN plan)
    <3>1. indexed \subseteq DOMAIN plan
      BY DEF Indexed
    <3>2. idx \in [Rids -> PropMap \cup {None}]
      BY DEF IInv, StoreOK
    <3> QED
      BY <2>1, <2>3, <3>1, <3>2
  <2>14. links' \subseteq Rids \X Rids
    BY <2>1, <2>4, <2>7 DEF IInv, StoreOK
  <2>15. revived \subseteq revived' /\ revived' \subseteq Rids
    BY <2>1, <2>3, <2>5, <2>10 DEF IInv, StoreOK
  <2>16. \A r \in Rids : objs[r] # None => objs'[r] # None
    BY <2>1, <2>6, <2>9
  <2>17. \A r \in Rids : objs'[r] # objs[r] =>
           \/ r[2] = writers[w].id
           \/ /\ r \in DOMAIN writers[w].found
              /\ r \in revived' \/ (objs[r] # None /\ objs'[r].version > objs[r].version)
    <3> SUFFICES ASSUME NEW r \in Rids, objs'[r] # objs[r], r[2] # writers[w].id
                 PROVE  /\ r \in DOMAIN writers[w].found
                        /\ r \in revived' \/ (objs[r] # None /\ objs'[r].version > objs[r].version)
      OBVIOUS
    <3>1. r \in written
      BY <2>1, <2>6
    <3>2. plan[r].n = None /\ r \in DOMAIN writers[w].found
      BY <2>3, <2>5, <3>1
    <3> QED
      BY <2>1, <2>9, <2>10, <3>1, <3>2
  <2>0. /\ IInv /\ w \in Writers
        /\ x = IF reported = {} THEN Idle
               ELSE [writers[w] EXCEPT !.pc = "publish", !.event = reported]
    OBVIOUS
  <2>18. StoreOK' /\ WritersOK' /\ IdInv' /\ FoundInv' /\ EventInv'
    BY ONLY <2>0, <2>1, <2>2, <2>11, <2>12, <2>13, <2>14, <2>15, <2>16, <2>17, CommitStep
  <2>19. IndexAgrees'
    <3> SUFFICES ASSUME NEW r \in Rids
                 PROVE  idx'[r] = IF objs'[r] = None THEN None ELSE objs'[r].props
      BY DEF IndexAgrees
    <3>1. r \in indexed <=> /\ r \in DOMAIN plan
                            /\ after[r] # None /\ after[r].props = plan[r].props
      BY DEF Indexed
    <3>2. CASE r \in indexed
      BY <2>1, <3>1, <3>2
    <3>3. CASE r \notin indexed
      <4>1. r \notin written
        BY <2>5, <2>9, <3>1, <3>3
      <4>2. objs'[r] = objs[r] /\ idx'[r] = idx[r]
        BY <2>1, <2>6, <3>3, <4>1
      <4> QED
        BY <4>2 DEF IInv, IndexAgrees
    <3> QED
      BY <3>2, <3>3
  <2>20. LinkEndsThere'
    <3> SUFFICES ASSUME NEW l \in links'
                 PROVE  objs'[l[1]] # None /\ (objs'[l[2]] # None \/ l[1] \in revived')
      BY DEF LinkEndsThere
    <3>1. CASE l \in links
      <4>1. objs[l[1]] # None /\ (objs[l[2]] # None \/ l[1] \in revived)
        BY <3>1 DEF IInv, LinkEndsThere
      <4>2. l[1] \in Rids /\ l[2] \in Rids
        BY <3>1 DEF IInv, StoreOK
      <4> QED
        BY <2>15, <2>16, <4>1, <4>2
    <3>2. CASE l \in newLinks
      BY <2>1, <2>7, <3>2 DEF EndsExist
    <3> QED
      BY <2>1, <3>1, <3>2
  <2>21. ObjectCap'
    <3> PICK all : all = Objects
      OBVIOUS
    <3> PICK old : old = Objects \ revived
      OBVIOUS
    <3> PICK new : new = {r \in written : plan[r].n # None}
      OBVIOUS
    <3> PICK f : f = [r \in new |-> plan[r].n]
      OBVIOUS
    <3>1. (Objects \ revived)' \subseteq old \cup new
      <4> SUFFICES ASSUME NEW r \in Rids, objs'[r] # None, r \notin revived',
                          r \notin old
                   PROVE  r \in new
        BY DEF Objects
      <4>1. objs[r] = None
        BY <2>15 DEF Objects
      <4>2. r \in written
        BY <2>1, <2>6, <4>1
      <4> QED
        BY <2>1, <2>10, <4>1, <4>2
    <3>2. IsFiniteSet(all) /\ old \in SUBSET all
      BY RidsFinite DEF Objects
    <3>3. f \in [new -> Nat]
      BY <2>3, <2>5
    <3>4. \A r \in new : f[r] > 0 /\ Cardinality(all) + f[r] <= MaxObjects
      BY <2>3, <2>5 DEF Fits
    <3>5. \A r, s \in new : f[r] = f[s] => r = s
      BY <2>3, <2>5
    <3>6. Cardinality(old) <= MaxObjects /\ MaxObjects \in Nat
      BY ConstantsAssumption DEF IInv, ObjectCap
    <3>7. IsFiniteSet(old \cup new) /\ Cardinality(old \cup new) <= MaxObjects
      BY ONLY <3>2, <3>3, <3>4, <3>5, <3>6, RoomForAll
    <3> PICK now : now = (Objects \ revived)'
      OBVIOUS
    <3>8. /\ Cardinality(now) <= Cardinality(old \cup new)
          /\ Cardinality(now) \in Nat /\ Cardinality(old \cup new) \in Nat
      BY <3>1, <3>7, FS_Subset, FS_CardinalityType
    <3> QED
      BY <3>6, <3>7, <3>8 DEF ObjectCap
  <2>22. LinkCap'
    <3> SUFFICES ASSUME \A v \in DOMAIN work.asks : \A i \in work.asks[v] : i.kind # "action"
                 PROVE  Cardinality(links') <= MaxLinks
      BY <2>1 DEF LinkCap
    <3> PICK f : f = [l \in newLinks |-> (CHOOSE k \in pls : k.link = l /\ LinkFits(k)).n]
      OBVIOUS
    <3>1. \A l \in newLinks : \E k \in pls : k.link = l /\ LinkFits(k) /\ f[l] = k.n
      BY <2>7
    <3>2. f \in [newLinks -> Nat]
      BY <2>4, <3>1
    <3>3. \A l \in newLinks : f[l] > 0 /\ Cardinality(links) + f[l] <= MaxLinks
      BY <2>4, <3>1 DEF LinkFits
    <3>4. \A k, l \in newLinks : f[k] = f[l] => k = l
      BY <2>4, <3>1
    <3>5. Cardinality(links) <= MaxLinks /\ MaxLinks \in Nat
      BY ConstantsAssumption DEF IInv, LinkCap
    <3>6. IsFiniteSet(links)
      BY LinksFinite DEF IInv, StoreOK
    <3>7. Cardinality(links \cup newLinks) <= MaxLinks
      BY <3>2, <3>3, <3>4, <3>5, <3>6, RoomForAll
    <3> QED
      BY <2>1, <3>7
  <2> QED
    BY <2>18, <2>19, <2>20, <2>21, <2>22 DEF IInv
<1> QED
  BY <1>1, <1>2

(* A request that was not refused found what it names.                     *)
LEMMA TargetFacts ==
  ASSUME IInv, NEW w \in Writers, writers[w].pc = "commit",
         writers[w].input.kind \in {"patch", "action"}, ~Refused(w)
  PROVE  /\ IsRow(RowsOf(w)[1])
         /\ Target(w) \in DOMAIN writers[w].found /\ Target(w) \in Rids
         /\ RowsOf(w)[1].to # None =>
              LinkOf(w, 1)[1] = Target(w) /\ LinkOf(w, 1)[2] \in DOMAIN writers[w].found
              /\ LinkOf(w, 1) \in Rids \X Rids
<1>1. Len(RowsOf(w)) = 1 /\ IsRow(RowsOf(w)[1])
  BY RowFacts
<1>2. \A pk \in KeysOf(writers[w].input) : Named(pk, DOMAIN writers[w].found) # {}
  BY DEF Refused, Missing
<1>3. KeysOf(writers[w].input) = {RowsOf(w)[1].pk, RowsOf(w)[1].to} \ {None}
  BY <1>1 DEF KeysOf, RowsOf
<1>4. RowsOf(w)[1].pk \in Keys /\ RowsOf(w)[1].pk # None
  BY <1>1, NoneAssumption DEF IsRow
<1>5. Named(RowsOf(w)[1].pk, DOMAIN writers[w].found) # {}
  BY <1>2, <1>3, <1>4
<1>6. Target(w) \in DOMAIN writers[w].found /\ Target(w) \in Rids
  BY <1>4, <1>5, RidOfFacts DEF Target
<1>7. ASSUME RowsOf(w)[1].to # None
      PROVE  /\ RidOf(w, RowsOf(w)[1].to) \in DOMAIN writers[w].found
             /\ RidOf(w, RowsOf(w)[1].to) \in Rids
  <2>1. RowsOf(w)[1].to \in Keys
    BY <1>1, <1>7 DEF IsRow
  <2>2. Named(RowsOf(w)[1].to, DOMAIN writers[w].found) # {}
    BY <1>2, <1>3, <1>7
  <2> QED
    BY <2>1, <2>2, RidOfFacts
<1>8. LinkOf(w, 1) = <<Target(w), RidOf(w, RowsOf(w)[1].to)>>
  BY DEF LinkOf, Target
<1> QED
  BY <1>1, <1>6, <1>7, <1>8

LEMMA CommitGuardedOK == ASSUME IInv, NEW w \in Writers, CommitGuarded(w) PROVE IInv'
<1> PICK t : t = Target(w)
  OBVIOUS
<1> PICK props : props = NewProps(w)
  OBVIOUS
<1> PICK gone : gone = RemoveLinks(w)
  OBVIOUS
<1> PICK added : added = AddLinks(w)
  OBVIOUS
<1> PICK touched : touched = Touched(w)
  OBVIOUS
<1> PICK x : x = IF touched = {} THEN Idle
                 ELSE [writers[w] EXCEPT !.pc = "publish", !.event = touched]
  OBVIOUS
<1>1. CASE ~Guard(w) /\ Return(w) /\ UNCHANGED <<work, objs, idx, links, outbox, changes>>
  <2>1. UNCHANGED <<sent, cron, revived, ops, failures>>
    BY DEF CommitGuarded
  <2> QED
    BY <1>1, <2>1, FailuresOK, ReturnStep
<1>2. ASSUME ~(~Guard(w) /\ Return(w)
                 /\ UNCHANGED <<work, objs, idx, links, outbox, changes>>)
      PROVE  IInv'
  <2>1. /\ writers[w].pc = "commit" /\ writers[w].input.kind \in {"patch", "action"}
        /\ ~Refused(w) /\ Guard(w)
        /\ objs' = [objs EXCEPT ![t] = [props |-> props, version |-> @.version + 1]]
        /\ idx' = [idx EXCEPT ![t] = props]
        /\ links' = (links \ gone) \cup added
        /\ outbox' = outbox \cup {Event(w, touched)}
        /\ Commit(w, touched)
        /\ writers' = [writers EXCEPT ![w].pc = "publish", ![w].event = touched]
        /\ UNCHANGED <<work, sent, cron, revived, ops, failures>>
    BY <1>2 DEF CommitGuarded
  <2>2. /\ IsRow(RowsOf(w)[1])
        /\ t \in DOMAIN writers[w].found /\ t \in Rids
        /\ RowsOf(w)[1].to # None =>
             LinkOf(w, 1)[1] = t /\ LinkOf(w, 1)[2] \in DOMAIN writers[w].found
             /\ LinkOf(w, 1) \in Rids \X Rids
    BY <2>1, TargetFacts
  <2>3. /\ objs[t] # None /\ objs[t].version = writers[w].found[t].version
        /\ objs[t] \in Object /\ objs[t].version \in Nat \ {0}
    BY <2>1, <2>2 DEF Guard, IInv, StoreOK, Object
  <2>4. props \in PropMap
    <3>1. writers[w].found[t].props \in PropMap
      BY <2>2, WriterFacts DEF Shape, Object
    <3>2. props = Merge(writers[w].found[t].props, RowsOf(w)[1].set)
      BY DEF NewProps
    <3> QED
      BY <2>2, <3>1, <3>2, MergeType
  <2> PICK row : row = [props |-> props, version |-> objs[t].version + 1]
    OBVIOUS
  <2>5. /\ row \in Object /\ row # None /\ row.props = props
        /\ row.version > objs[t].version /\ row.version > 0
    <3>1. row \in Object
      BY <2>3, <2>4 DEF Object
    <3> QED
      BY <2>3, <3>1, NoneAssumption
  <2>6. /\ objs \in [Rids -> Object \cup {None}] /\ idx \in [Rids -> PropMap \cup {None}]
        /\ links \subseteq Rids \X Rids /\ revived \subseteq Rids
    BY DEF IInv, StoreOK
  <2>7. objs' = [objs EXCEPT ![t] = row]
    BY <2>1
  <2>8. \A r \in Rids : /\ objs'[r] = (IF r = t THEN row ELSE objs[r])
                        /\ idx'[r] = (IF r = t THEN props ELSE idx[r])
    BY <2>1, <2>6, <2>7
  <2>9. /\ objs' \in [Rids -> Object \cup {None}] /\ idx' \in [Rids -> PropMap \cup {None}]
        /\ \A r \in Rids : objs'[r] # None => objs'[r].version > 0
        /\ \A r \in Rids : objs[r] # None => objs'[r] # None
    <3>1. objs' \in [Rids -> Object \cup {None}]
      BY <2>5, <2>6, <2>7
    <3>2. idx' \in [Rids -> PropMap \cup {None}]
      BY <2>1, <2>4, <2>6
    <3>3. \A r \in Rids : objs[r] # None => objs[r].version > 0
      BY DEF IInv, StoreOK
    <3> QED
      BY <2>5, <2>8, <3>1, <3>2, <3>3
  <2>10. \A r \in Rids : objs'[r] # objs[r] =>
           \/ r[2] = writers[w].id
           \/ /\ r \in DOMAIN writers[w].found
              /\ r \in revived' \/ (objs[r] # None /\ objs'[r].version > objs[r].version)
    BY <2>2, <2>3, <2>5, <2>8
  <2>11. /\ added \subseteq Rids \X Rids /\ gone \subseteq Rids \X Rids
         /\ \A l \in added : /\ l[1] = t /\ l[2] \in DOMAIN writers[w].found
                             /\ writers[w].input.kind = "action"
    <3>1. writers[w].have \subseteq Rids \X Rids
      BY WriterFacts DEF Shape
    <3>2. gone \subseteq writers[w].have
      BY DEF RemoveLinks
    <3>3. \A l \in added : l = LinkOf(w, 1) /\ Relinks(w)
      BY DEF AddLinks
    <3> QED
      BY <2>2, <3>1, <3>2, <3>3 DEF Relinks
  <2>12. touched \subseteq Rids /\ t \in touched
    <3>1. touched = {t} \cup {l[1] : l \in gone \cup added} \cup {l[2] : l \in gone \cup added}
      BY DEF Touched, Ends
    <3>2. \A l \in gone \cup added : l[1] \in Rids /\ l[2] \in Rids
      BY <2>11
    <3> QED
      BY <2>2, <3>1, <3>2
  <2>13. links' \subseteq Rids \X Rids
    BY <2>1, <2>6, <2>11
  <2>14. writers' = [writers EXCEPT ![w] = x]
    BY <2>1, <2>12
  <2>15. StoreOK' /\ WritersOK' /\ IdInv' /\ FoundInv' /\ EventInv'
    <3>1. /\ IInv /\ w \in Writers
          /\ x = IF touched = {} THEN Idle
                 ELSE [writers[w] EXCEPT !.pc = "publish", !.event = touched]
      OBVIOUS
    <3>2. touched \in SUBSET Rids /\ touched \in SUBSET touched
      BY <2>12
    <3>3. outbox' = IF touched = {} THEN outbox ELSE outbox \cup {Event(w, touched)}
      BY <2>1, <2>12
    <3>4. revived \subseteq revived' /\ revived' \subseteq Rids
      BY <2>1, <2>6
    <3>5. /\ writers[w].pc = "commit" /\ Commit(w, touched)
          /\ UNCHANGED <<work, sent, cron, ops, failures>>
      BY <2>1
    <3> QED
      BY ONLY <3>5, <2>9, <2>10, <2>13, <2>14, <3>1, <3>2, <3>3, <3>4, CommitStep
  <2>16. IndexAgrees'
    BY <2>5, <2>8 DEF IInv, IndexAgrees
  <2>17. LinkEndsThere'
    <3> SUFFICES ASSUME NEW l \in links'
                 PROVE  objs'[l[1]] # None /\ (objs'[l[2]] # None \/ l[1] \in revived')
      BY DEF LinkEndsThere
    <3>1. l[1] \in Rids /\ l[2] \in Rids
      BY <2>13
    <3>2. CASE l \in links
      <4>1. objs[l[1]] # None /\ (objs[l[2]] # None \/ l[1] \in revived)
        BY <3>2 DEF IInv, LinkEndsThere
      <4> QED
        BY <2>1, <2>9, <3>1, <4>1
    <3>3. CASE l \in added
      <4>1. l[1] = t /\ l[2] \in DOMAIN writers[w].found
        BY <2>11, <3>3
      <4>2. t \notin revived => \A r \in DOMAIN writers[w].found : objs[r] # None
        BY <2>2, <2>3 DEF IInv, FoundInv, FoundOK
      <4> QED
        BY <2>1, <2>3, <2>9, <3>1, <4>1, <4>2
    <3> QED
      BY <2>1, <3>2, <3>3
  <2>18. ObjectCap'
    <3>1. (Objects \ revived)' = Objects \ revived
      BY <2>1, <2>3, <2>5, <2>8 DEF Objects
    <3> QED
      BY <3>1 DEF IInv, ObjectCap
  <2>19. LinkCap'
    <3> SUFFICES ASSUME \A v \in DOMAIN work.asks : \A i \in work.asks[v] : i.kind # "action"
                 PROVE  Cardinality(links') <= MaxLinks
      BY <2>1 DEF LinkCap
    <3>1. writers[w].input.kind # "action"
      BY <2>1, WriterFacts DEF Asked
    <3>2. added = {} /\ gone = {}
      BY <2>11, <3>1 DEF RemoveLinks, Relinks
    <3> QED
      BY <2>1, <3>2 DEF IInv, LinkCap
  <2> QED
    BY <2>15, <2>16, <2>17, <2>18, <2>19 DEF IInv
<1> QED
  BY <1>1, <1>2

-----------------------------------------------------------------------------
(* The invariant.                                                          *)

LEMMA InitOK == ASSUME Init PROVE IInv
<1> PICK x : x = Idle
  OBVIOUS
<1>0. /\ work \in Workloads /\ links = {<< <<l[1], 0>>, <<l[2], 0>> >> : l \in StartLinks}
      /\ objs = [r \in Rids |->
           IF r[2] = 0 /\ r[1] \in Start
           THEN [props |-> [p \in Props |-> StartVal], version |-> 1] ELSE None]
      /\ idx = [r \in Rids |-> IF objs[r] = None THEN None ELSE objs[r].props]
      /\ outbox = {} /\ sent = {} /\ writers = [w \in Writers |-> x] /\ cron = None
      /\ changes = {} /\ revived = {} /\ ops = 0 /\ failures = 0
  BY DEF Init
<1>1. Shape(x) /\ x.pc = "idle" /\ DOMAIN x.found = {}
  BY <1>0, IdleShape
<1> PICK row : row = [props |-> [p \in Props |-> StartVal], version |-> 1]
  OBVIOUS
<1>2. row \in Object /\ row # None /\ row.props \in PropMap /\ row.version = 1
  <2>1. [p \in Props |-> StartVal] \in PropMap
    BY ConstantsAssumption DEF PropMap
  <2>2. row \in Object
    BY <2>1 DEF Object
  <2> QED
    BY <2>1, <2>2, NoneAssumption
<1>3. \A r \in Rids : /\ objs[r] = (IF r[2] = 0 /\ r[1] \in Start THEN row ELSE None)
                      /\ idx[r] = (IF objs[r] = None THEN None ELSE objs[r].props)
  BY <1>0
<1>4. \A l \in StartLinks : /\ <<l[1], 0>> \in Rids /\ <<l[2], 0>> \in Rids
                            /\ l[1] \in Start /\ l[2] \in Start /\ l = <<l[1], l[2]>>
  BY ConstantsAssumption DEF Rids
<1>5. \A l \in links : \E k \in StartLinks : l = << <<k[1], 0>>, <<k[2], 0>> >>
  BY <1>0
<1>6. StoreOK
  <2>1. links \subseteq Rids \X Rids
    BY <1>4, <1>5
  <2>2. objs \in [Rids -> Object \cup {None}]
    <3>1. \A r \in Rids : objs[r] \in Object \cup {None}
      BY <1>2, <1>3
    <3> QED
      BY <1>0, <3>1
  <2>3. idx \in [Rids -> PropMap \cup {None}]
    <3>1. \A r \in Rids : idx[r] \in PropMap \cup {None}
      BY <1>2, <1>3
    <3> QED
      BY <1>0, <3>1
  <2>4. \A r \in Rids : objs[r] # None => objs[r].version > 0
    BY <1>2, <1>3
  <2> QED
    BY <1>0, <2>1, <2>2, <2>3, <2>4, ConstantsAssumption DEF StoreOK
<1>7. WritersOK
  BY <1>0, <1>1 DEF WritersOK
<1>8. IdInv
  <2>1. \A n \in 1 .. MaxOps : Unused(n)
    <3> SUFFICES ASSUME NEW n \in 1 .. MaxOps PROVE Unused(n)
      OBVIOUS
    <3>1. n # 0
      BY ConstantsAssumption
    <3> QED
      BY <1>0, <1>1, <1>3, <3>1 DEF Unused
  <2> QED
    BY <1>0, <1>1, <2>1 DEF IdInv, Waiting
<1>9. FoundInv /\ EventInv
  BY <1>0, <1>1 DEF FoundInv, FoundOK, EventInv, NoEventLost, Delivering
<1>10. IndexAgrees
  BY <1>3 DEF IndexAgrees
<1>11. LinkEndsThere
  <2> SUFFICES ASSUME NEW l \in links PROVE objs[l[1]] # None /\ objs[l[2]] # None
    BY DEF LinkEndsThere
  <2>1. PICK k \in StartLinks : l = << <<k[1], 0>>, <<k[2], 0>> >>
    BY <1>5
  <2>2. \A s \in Start : <<s, 0>> \in Rids => objs[<<s, 0>>] = row
    BY <1>3
  <2> QED
    BY <1>2, <1>4, <2>1, <2>2
<1>12. ObjectCap
  <2> PICK there : there = Objects \ revived
    OBVIOUS
  <2> PICK f : f = [r \in there |-> r[1]]
    OBVIOUS
  <2>1. \A r \in there : r \in Rids /\ r[2] = 0 /\ r[1] \in Start
    BY <1>3 DEF Objects
  <2>2. \A r, s \in there : r[1] = s[1] => r = s
    BY <2>1 DEF Rids
  <2>3. f \in Injection(there, Start)
    BY <2>1, <2>2 DEF Injection, IsInjective
  <2>4. IsFiniteSet(Start)
    BY ConstantsAssumption, FS_Subset
  <2>5. /\ Cardinality(there) <= Cardinality(Start)
        /\ Cardinality(there) \in Nat /\ Cardinality(Start) \in Nat
    BY <2>3, <2>4, FS_Injection, FS_CardinalityType
  <2> QED
    BY <2>5, ConstantsAssumption DEF ObjectCap
<1>13. LinkCap
  <2> PICK f : f = [l \in links |-> <<l[1][1], l[2][1]>>]
    OBVIOUS
  <2>1. \A l \in links : f[l] \in StartLinks /\ l = << <<f[l][1], 0>>, <<f[l][2], 0>> >>
    <3> TAKE l \in links
    <3>1. PICK k \in StartLinks : l = << <<k[1], 0>>, <<k[2], 0>> >>
      BY <1>5
    <3>2. f[l] = k
      BY <1>4, <3>1
    <3> QED
      BY <3>1, <3>2
  <2>2. f \in Injection(links, StartLinks)
    BY <2>1 DEF Injection, IsInjective
  <2>3. IsFiniteSet(StartLinks)
    <3>1. IsFiniteSet(Start)
      BY ConstantsAssumption, FS_Subset
    <3>2. IsFiniteSet(Start \X Start)
      BY <3>1, FS_Product
    <3> QED
      BY <3>2, ConstantsAssumption, FS_Subset
  <2>4. /\ Cardinality(links) <= Cardinality(StartLinks)
        /\ Cardinality(links) \in Nat /\ Cardinality(StartLinks) \in Nat
    BY <2>2, <2>3, FS_Injection, FS_CardinalityType
  <2> QED
    BY <2>4, ConstantsAssumption DEF LinkCap
<1> QED
  BY <1>6, <1>7, <1>8, <1>9, <1>10, <1>11, <1>12, <1>13 DEF IInv

LEMMA StutterOK == ASSUME IInv, UNCHANGED vars PROVE IInv'
<1>1. UNCHANGED <<work, objs, idx, links, outbox, sent, cron, changes, revived, ops, writers,
                  failures>>
  BY DEF vars
<1>2. NoEventLost'
  BY <1>1 DEF IInv, EventInv, NoEventLost
<1>3. cron # None => (cron.pc = "delete" => cron.row \in sent)
  BY DEF IInv, EventInv
<1>4. cron # None => cron \in [row : EventRow, pc : Delivering]
  BY DEF IInv, StoreOK
<1> QED
  BY <1>1, <1>2, <1>3, <1>4, FailuresOK, CronKeeps DEF Held

LEMMA NextOK == ASSUME IInv, [Next]_vars PROVE IInv'
<1>1. CASE \E w \in DOMAIN work.asks : \E i \in work.asks[w] : Begin(w, i)
  BY <1>1, BeginOK
<1>2. ASSUME NEW w \in Writers, WriterStep(w) PROVE IInv'
  BY <1>2, ReadCountsOK, ReadObjectsOK, ReadLinksOK, CommitUpsertOK, RefuseOK,
     CommitGuardedOK, ClearAllOK, PublishOK, DeleteRowOK DEF WriterStep
<1>3. ASSUME NEW w \in Writers, Stop(w) PROVE IInv'
  BY <1>3, StopOK
<1>4. CASE CronStep
  BY <1>4, CronReadOK, CronPublishOK, CronDeleteOK DEF CronStep
<1>5. CASE CronStop
  BY <1>5, CronStopOK
<1>6. CASE UNCHANGED vars
  BY <1>6, StutterOK
<1> QED
  BY <1>1, <1>2, <1>3, <1>4, <1>5, <1>6 DEF Next

(* The inductive invariant holds in every state.                           *)
THEOREM Invariant == Spec => []IInv
<1>1. Init => IInv
  BY InitOK
<1>2. IInv /\ [Next]_vars => IInv'
  BY NextOK
<1> QED
  BY <1>1, <1>2, PTL DEF Spec

-----------------------------------------------------------------------------
(* What follows for the workspace.                                         *)

(* However many imports commit at once from counts that are no longer true *)
(* (commitUpsert), a workspace never has more objects than its limit, but  *)
(* for those a clear took from under an import; and without actions, never *)
(* more links.                                                             *)
THEOREM LimitsHold == Spec => []LimitsKept
<1>1. IInv => LimitsKept
  BY DEF IInv, LimitsKept
<1> QED
  BY <1>1, Invariant, PTL

(* After every batch (commitUpsert, patchObject, commitAction, clearAll)   *)
(* links have their ends, filters find what the objects say, and every     *)
(* change that was committed is in the queue or in the outbox.             *)
THEOREM GraphStaysConsistent == Spec => []GraphConsistent
<1>1. IInv => TypeOK
  <2> SUFFICES ASSUME IInv PROVE TypeOK
    OBVIOUS
  <2>1. \A r \in Rids : objs[r] # None =>
          objs[r].props \in PropMap /\ objs[r].version \in Nat \ {0}
    BY DEF IInv, StoreOK, Object
  <2>2. \A r \in Rids : idx[r] # None => idx[r] \in PropMap
    BY DEF IInv, StoreOK
  <2>3. \A w \in Writers :
         /\ writers[w].pc \in Places /\ writers[w].id \in 0 .. MaxOps
         /\ writers[w].pending \subseteq {"counts", "find"}
         /\ (writers[w].pending # {}) = (writers[w].pc = "read")
         /\ DOMAIN writers[w].found \subseteq Rids
         /\ writers[w].have \subseteq Rids \X Rids
         /\ writers[w].event \subseteq Rids
         /\ writers[w].pc \in {"publish", "delete"} => writers[w].event # {}
    BY WriterFacts DEF Shape, Delivering
  <2>4. \A e \in outbox \cup sent \cup changes :
          e.id \in 1 .. MaxOps /\ e.rids \subseteq Rids /\ e.rids # {}
    <3>1. ops \in 0 .. MaxOps /\ MaxOps \in Nat
      BY ConstantsAssumption DEF IInv, StoreOK
    <3>2. 1 .. ops \subseteq 1 .. MaxOps
      BY <3>1
    <3> QED
      BY <3>2 DEF IInv, StoreOK, IsEvent, EventRow
  <2> QED
    BY <2>1, <2>2, <2>3, <2>4 DEF IInv, StoreOK, TypeOK
<1>2. IInv => GraphConsistent
  BY <1>1 DEF IInv, EventInv, GraphConsistent
<1> QED
  BY <1>2, Invariant, PTL

(* Only CommitGuarded, with its guard, takes a patch or an action on.      *)
LEMMA OnlyGuarded ==
  ASSUME IInv, [Next]_vars, NEW w \in Writers,
         writers[w].input.kind \in {"patch", "action"},
         writers[w].pc = "commit", writers'[w].pc = "publish"
  PROVE  CommitGuarded(w) /\ Guard(w)
<1>0. writers = [v \in Writers |-> writers[v]] /\ Idle.pc = "idle"
  BY DEF IInv, WritersOK, Idle
<1> HIDE DEF Idle
<1>1. ASSUME NEW v \in Writers, NEW x, writers' = [writers EXCEPT ![v] = x], v # w
      PROVE  FALSE
  BY <1>0, <1>1
<1>2. ~ \E v \in DOMAIN work.asks : \E i \in work.asks[v] : Begin(v, i)
  <2> SUFFICES ASSUME NEW v \in DOMAIN work.asks, NEW i \in work.asks[v], Begin(v, i)
               PROVE  FALSE
    OBVIOUS
  <2>1. v \in Writers
    BY ConstantsAssumption DEF IInv, StoreOK
  <2>2. writers[v].pc = "idle" /\ v # w
    BY DEF Begin
  <2> QED
    BY <1>1, <2>1, <2>2 DEF Begin
<1>3. ~CronStep /\ ~CronStop /\ ~UNCHANGED vars
  BY DEF CronStep, CronRead, CronPublish, CronDelete, CronStop, vars
<1>4. ASSUME NEW v \in Writers, Stop(v) PROVE FALSE
  <2>1. writers' = [writers EXCEPT ![v] = Idle]
    BY <1>4 DEF Stop, Return
  <2> QED
    BY <1>0, <1>1, <2>1
<1>5. ASSUME NEW v \in Writers, WriterStep(v) PROVE CommitGuarded(w) /\ Guard(w)
  <2>1. ASSUME Return(v) PROVE FALSE
    BY <1>0, <1>1, <2>1 DEF Return
  <2>2. ~Refuse(v) /\ ~ClearAll(v) /\ ~DeleteRow(v)
    BY <2>1 DEF Refuse, ClearAll, DeleteRow
  <2>3. ASSUME "counts" \in writers[v].pending \/ "find" \in writers[v].pending
               \/ writers[v].pc # "commit"
        PROVE  v # w
    BY <2>3, WriterFacts DEF Shape
  <2>4. ~ReadCounts(v) /\ ~ReadObjects(v) /\ ~ReadLinks(v) /\ ~Publish(v)
    <3>1. ~ReadCounts(v)
      BY <1>1, <2>3 DEF ReadCounts
    <3>2. ~ReadObjects(v)
      BY <1>1, <2>3 DEF ReadObjects
    <3>3. ~ReadLinks(v)
      BY <1>1, <2>3 DEF ReadLinks
    <3>4. ~Publish(v)
      BY <1>1, <2>3 DEF Publish, Goto
    <3> QED
      BY <3>1, <3>2, <3>3, <3>4
  <2>5. ~CommitUpsert(v)
    <3> SUFFICES ASSUME CommitUpsert(v) PROVE FALSE
      OBVIOUS
    <3>1. v # w
      BY DEF CommitUpsert
    <3>2. writers'[w] = writers[w]
      <4>1. \/ Return(v)
            \/ \E r : writers' = [writers EXCEPT ![v].pc = "publish", ![v].event = r]
        BY DEF CommitUpsert
      <4>2. PICK r : writers' = [writers EXCEPT ![v].pc = "publish", ![v].event = r]
        BY <2>1, <4>1
      <4> QED
        BY <1>0, <3>1, <4>2
    <3> QED
      BY <3>2
  <2>6. CommitGuarded(v)
    BY <1>5, <2>2, <2>4, <2>5 DEF WriterStep
  <2>7. Guard(v) /\ writers' = [writers EXCEPT ![v].pc = "publish", ![v].event = Touched(v)]
    BY <2>1, <2>6 DEF CommitGuarded
  <2>8. v = w
    BY <1>0, <2>7
  <2> QED
    BY <2>6, <2>7, <2>8
<1> QED
  BY <1>2, <1>3, <1>4, <1>5 DEF Next

(* A patch or an action commits only what it computed from the object as   *)
(* it is: one whose object was written in between fails on the version     *)
(* (patchObject, commitAction).                                            *)
THEOREM GuardedWritesAreCurrent == Spec => GuardedWriteCurrent
<1> DEFINE Current(w) ==
      /\ writers[w].input.kind \in {"patch", "action"}
      /\ writers[w].pc = "commit" /\ writers'[w].pc = "publish"
      => \/ objs[Target(w)] = writers[w].found[Target(w)]
         \/ Target(w) \in revived
<1>1. IInv /\ [Next]_vars => \A w \in Writers : Current(w)
  <2> SUFFICES ASSUME IInv, [Next]_vars, NEW w \in Writers,
                      writers[w].input.kind \in {"patch", "action"},
                      writers[w].pc = "commit", writers'[w].pc = "publish"
               PROVE  \/ objs[Target(w)] = writers[w].found[Target(w)]
                      \/ Target(w) \in revived
    OBVIOUS
  <2>1. CommitGuarded(w) /\ Guard(w)
    BY OnlyGuarded
  <2>2. Target(w) \in DOMAIN writers[w].found
    BY <2>1, TargetFacts DEF CommitGuarded
  <2> QED
    BY <2>1, <2>2 DEF Guard, IInv, FoundInv, FoundOK
<1>2. Spec => [][\A w \in Writers : Current(w)]_vars
  BY <1>1, Invariant, PTL DEF Spec
<1> QED
  BY <1>2 DEF GuardedWriteCurrent

=============================================================================

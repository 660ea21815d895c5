--------------------------- MODULE ImportJobProofs ---------------------------
(***************************************************************************)
(* Imports are exact, paid for and over when they are over, for every      *)
(* file, batch size, limit and number of jobs and requests.                *)
(*                                                                         *)
(* The stored batches of a job are at most one per seq and its counters    *)
(* their sums (CountInv).  While the runner is at work they are stacked:   *)
(* batch n starts where the batches before it end, every request on its    *)
(* way carries a batch that would follow so, or one that is stored, and    *)
(* what the runner has been told is the stack up to its next batch, which  *)
(* the plan tiles the file with (RunnerInv).  A script without a runner    *)
(* never reports (ScriptInv).  A day's counter covers its jobs and the     *)
(* reservations whose job is not inserted yet (PaidInv); the seed budget   *)
(* covers the loads that finished and the requests that still may, each    *)
(* with a job only it can finish (SeedInv).                                *)
(***************************************************************************)
EXTENDS ImportJob, FiniteSetTheorems, SequenceTheorems,
        WellFoundedInduction, TLAPS

(* A set of numbers that is not empty has a least, which Min returns.      *)
LEMMA LeastNumber ==
  ASSUME NEW S, S # {}, S \subseteq Nat
  PROVE  Min(S) \in S /\ \A y \in S : Min(S) <= y
<1>1. PICK R : R = {p \in Nat \X Nat : p[1] < p[2]}
  OBVIOUS
<1>2. IsWellFoundedOn(R, Nat)
  BY <1>1, NatLessThanWellFounded DEF OpToRel
<1>3. PICK x \in S : \A y \in S : ~ (<<y, x>> \in R)
  BY <1>2, WFMin
<1>4. ASSUME NEW y \in S PROVE x <= y
  <2>1. <<y, x>> \in Nat \X Nat /\ <<y, x>>[1] = y /\ <<y, x>>[2] = x
    OBVIOUS
  <2>2. ~ (y < x)
    BY <1>1, <1>3, <2>1
  <2> QED
    BY <2>2
<1> QED
  BY <1>4 DEF Min

(* Sums over finite sets.  A fold takes the elements of a set in the order *)
(* CHOOSE gives them; the lemmas below follow from its recursion equation. *)
Pick(S) == CHOOSE x \in S : TRUE

IsSum(g, f, S) ==
  g = [T \in SUBSET S |-> IF T = {} THEN 0 ELSE f[Pick(T)] + g[T \ {Pick(T)}]]
SumOf(f, S) == (CHOOSE g : IsSum(g, f, S))[S]

(* What holds of a set when it holds of its smaller subsets holds of every *)
(* finite set; and so does what passes to a set from the set without its   *)
(* pick.                                                                   *)
LEMMA SubsetInduction ==
  ASSUME NEW S, IsFiniteSet(S), NEW Q,
         \A T \in SUBSET S : (\A U \in SUBSET T : U # T => U \in Q) => T \in Q
  PROVE  \A T \in SUBSET S : T \in Q
<1> DEFINE Bad == {T \in SUBSET S : T \notin Q}
           Sizes == {Cardinality(T) : T \in Bad}
<1> SUFFICES ASSUME Bad # {} PROVE FALSE
  OBVIOUS
<1>1. \A T \in SUBSET S : IsFiniteSet(T) /\ Cardinality(T) \in Nat
  BY FS_Subset, FS_CardinalityType
<1>2. Sizes # {} /\ Sizes \subseteq Nat
  BY <1>1
<1> PICK n : n = Min(Sizes)
  OBVIOUS
<1>3. n \in Sizes /\ \A y \in Sizes : n <= y
  BY <1>2, LeastNumber
<1>4. PICK T \in Bad : \A U \in Bad : Cardinality(T) <= Cardinality(U)
  BY <1>3
<1>5. PICK U \in SUBSET T : U # T /\ U \notin Q
  BY <1>4
<1>6. U \in Bad
  BY <1>5
<1>7. Cardinality(U) <= Cardinality(T) /\ Cardinality(U) # Cardinality(T)
  BY <1>1, <1>5, FS_Subset
<1> QED
  BY <1>1, <1>4, <1>6, <1>7

LEMMA PickInduction ==
  ASSUME NEW S, IsFiniteSet(S), NEW Q,
         {} \in Q,
         \A T \in SUBSET S : T # {} /\ T \ {Pick(T)} \in Q => T \in Q
  PROVE  \A T \in SUBSET S : T \in Q
<1>1. ASSUME NEW T \in SUBSET S, \A U \in SUBSET T : U # T => U \in Q PROVE T \in Q
  <2>1. CASE T # {}
    <3> PICK p : p = Pick(T)
      OBVIOUS
    <3>1. p \in T
      BY <2>1 DEF Pick
    <3>2. T \ {p} \in Q
      BY <1>1, <3>1
    <3> QED
      BY <2>1, <3>2
  <2> QED
    BY <2>1
<1>2. \A T \in SUBSET S : (\A U \in SUBSET T : U # T => U \in Q) => T \in Q
  BY <1>1
<1> QED
  BY ONLY <1>2, IsFiniteSet(S), SubsetInduction

(* The recursion has a solution: level by level.                           *)
LEMMA SumExists ==
  ASSUME NEW S, IsFiniteSet(S), NEW f
  PROVE  \E g : IsSum(g, f, S)
<1> DEFINE Upto(g, n) == g = [T \in SUBSET S |->
                   IF Cardinality(T) <= n /\ T # {} THEN f[Pick(T)] + g[T \ {Pick(T)}] ELSE 0]
           Fails == {n \in Nat : ~ \E g : Upto(g, n)}
<1>0. \A T \in SUBSET S : /\ IsFiniteSet(T) /\ Cardinality(T) \in Nat
                          /\ Cardinality(T) <= Cardinality(S)
                          /\ Cardinality(T) = 0 <=> T = {}
  BY FS_Subset, FS_CardinalityType, FS_EmptySet
<1>1. ASSUME NEW T \in SUBSET S, T # {}
      PROVE  T \ {Pick(T)} \in SUBSET S /\ Cardinality(T \ {Pick(T)}) = Cardinality(T) - 1
  <2>1. Pick(T) \in T
    BY <1>1 DEF Pick
  <2> QED
    BY <1>0, <2>1, FS_RemoveElement
<1>2. Fails = {}
  <2> SUFFICES ASSUME Fails # {} PROVE FALSE
    OBVIOUS
  <2> PICK n : n = Min(Fails)
    OBVIOUS
  <2>1. n \in Fails /\ \A m \in Fails : n <= m
    BY LeastNumber
  <2> HIDE DEF Fails
  <2>2. n \in Nat
    BY <2>1 DEF Fails
  <2>3. CASE n = 0
    <3> PICK g : g = [T \in SUBSET S |-> 0]
      OBVIOUS
    <3>1. Upto(g, 0)
      BY <1>0
    <3> HIDE DEF Upto
    <3> QED
      BY <2>1, <2>3, <3>1 DEF Fails
  <2>4. CASE n # 0
    <3>1. n - 1 \in Nat /\ n - 1 \notin Fails
      BY <2>1, <2>2, <2>4
    <3>2. PICK g : Upto(g, n - 1)
      BY <3>1 DEF Fails
    <3> DEFINE h == [T \in SUBSET S |->
                       IF Cardinality(T) <= n /\ T # {} THEN f[Pick(T)] + g[T \ {Pick(T)}] ELSE 0]
    <3>3. ASSUME NEW T \in SUBSET S, Cardinality(T) <= n, T # {}
          PROVE  h[T \ {Pick(T)}] = g[T \ {Pick(T)}]
      <4> PICK U : U = T \ {Pick(T)}
        OBVIOUS
      <4>1. U \in SUBSET S /\ Cardinality(U) <= n - 1 /\ Cardinality(U) <= n
        BY <1>0, <1>1, <2>2, <3>3
      <4>2. g[U] = IF Cardinality(U) <= n - 1 /\ U # {} THEN f[Pick(U)] + g[U \ {Pick(U)}] ELSE 0
        BY <3>2, <4>1
      <4>3. h[U] = IF Cardinality(U) <= n /\ U # {} THEN f[Pick(U)] + g[U \ {Pick(U)}] ELSE 0
        BY <4>1
      <4> QED
        BY <4>1, <4>2, <4>3
    <3>4. Upto(h, n)
      <4> SUFFICES ASSUME NEW T \in SUBSET S
                   PROVE  h[T] = IF Cardinality(T) <= n /\ T # {}
                                 THEN f[Pick(T)] + h[T \ {Pick(T)}] ELSE 0
        BY Zenon
      <4> QED
        BY <3>3
    <3> QED
      BY <2>1, <3>4 DEF Fails
  <2> QED
    BY <2>3, <2>4
<1>3. Cardinality(S) \in Nat
  BY FS_CardinalityType
<1>4. PICK g : Upto(g, Cardinality(S))
  BY <1>2, <1>3
<1>5. IsSum(g, f, S)
  BY <1>0, <1>4 DEF IsSum
<1> QED
  BY <1>5

(* The recursion equation.                                                 *)
LEMMA SumEquation ==
  ASSUME NEW g, NEW f, NEW S, IsSum(g, f, S), NEW T \in SUBSET S
  PROVE  g[T] = IF T = {} THEN 0 ELSE f[Pick(T)] + g[T \ {Pick(T)}]
<1>1. g = [U \in SUBSET S |-> IF U = {} THEN 0 ELSE f[Pick(U)] + g[U \ {Pick(U)}]]
  BY DEF IsSum
<1> QED
  BY <1>1, Zenon

(* Sums of functions that agree agree.                                     *)
LEMMA SumAgree ==
  ASSUME NEW f, NEW g, NEW S, IsFiniteSet(S), IsSum(g, f, S),
         NEW e, NEW h, NEW R, IsSum(h, e, R),
         NEW T, T \subseteq S, T \subseteq R, \A x \in T : f[x] = e[x]
  PROVE  g[T] = h[T]
<1> DEFINE Q == {U \in SUBSET T : g[U] = h[U]}
<1>0. IsFiniteSet(T)
  BY FS_Subset
<1>1. {} \in Q
  BY SumEquation
<1>2. ASSUME NEW U \in SUBSET T, U # {}, U \ {Pick(U)} \in Q PROVE U \in Q
  <2>1. Pick(U) \in U
    BY <1>2 DEF Pick
  <2>2. U \in SUBSET S /\ U \in SUBSET R
    OBVIOUS
  <2>3. g[U] = f[Pick(U)] + g[U \ {Pick(U)}]
    BY <1>2, <2>2, SumEquation
  <2>4. h[U] = e[Pick(U)] + h[U \ {Pick(U)}]
    BY <1>2, <2>2, SumEquation
  <2> QED
    BY <1>2, <2>1, <2>3, <2>4
<1>3. T \in Q
  BY <1>0, <1>1, <1>2, PickInduction, Zenon
<1> QED
  BY <1>3

(* SumOf is the sum, whatever larger set the recursion runs over.          *)
LEMMA SumOfIs ==
  ASSUME NEW f, NEW S, IsFiniteSet(S), NEW g, IsSum(g, f, S), NEW T \in SUBSET S
  PROVE  SumOf(f, T) = g[T]
<1>1. IsFiniteSet(T)
  BY FS_Subset
<1>2. PICK h : h = CHOOSE k : IsSum(k, f, T)
  OBVIOUS
<1>3. IsSum(h, f, T)
  BY <1>1, <1>2, SumExists, Zenon
<1>4. g[T] = h[T]
  BY <1>3, SumAgree
<1> QED
  BY <1>2, <1>4 DEF SumOf

LEMMA SumEmpty == ASSUME NEW f PROVE SumOf(f, {}) = 0
<1>1. IsFiniteSet({})
  BY FS_EmptySet
<1>2. PICK g : IsSum(g, f, {})
  BY <1>1, SumExists
<1>3. SumOf(f, {}) = g[{}]
  BY <1>1, <1>2, SumOfIs
<1>4. g[{}] = 0
  BY <1>2, SumEquation
<1> QED
  BY <1>3, <1>4

LEMMA SumSame ==
  ASSUME NEW S, IsFiniteSet(S), NEW f, NEW e, \A x \in S : f[x] = e[x]
  PROVE  SumOf(f, S) = SumOf(e, S)
<1>1. PICK g : IsSum(g, f, S)
  BY SumExists
<1>2. PICK h : IsSum(h, e, S)
  BY SumExists
<1>3. g[S] = h[S]
  BY <1>1, <1>2, SumAgree
<1>4. SumOf(f, S) = g[S] /\ SumOf(e, S) = h[S]
  BY <1>1, <1>2, SumOfIs
<1> QED
  BY <1>3, <1>4

(* A sum of integers is one, of numbers that are not negative too; and any *)
(* element can be taken out of it.                                         *)
LEMMA SumInt ==
  ASSUME NEW S, IsFiniteSet(S), NEW f, \A x \in S : f[x] \in Int
  PROVE  SumOf(f, S) \in Int /\ ((\A x \in S : f[x] >= 0) => SumOf(f, S) >= 0)
<1>1. PICK g : IsSum(g, f, S)
  BY SumExists
<1> DEFINE Q == {U \in SUBSET S : g[U] \in Int /\ ((\A x \in S : f[x] >= 0) => g[U] >= 0)}
<1>2. {} \in Q
  <2>1. {} \in SUBSET S
    OBVIOUS
  <2>2. g[{}] = 0
    BY <1>1, <2>1, SumEquation
  <2> QED
    BY <2>1, <2>2
<1>3. ASSUME NEW U \in SUBSET S, U # {}, U \ {Pick(U)} \in Q PROVE U \in Q
  <2>1. Pick(U) \in U
    BY <1>3 DEF Pick
  <2>2. g[U] = f[Pick(U)] + g[U \ {Pick(U)}]
    BY <1>1, <1>3, SumEquation
  <2>3. f[Pick(U)] \in Int /\ g[U \ {Pick(U)}] \in Int
    BY <1>3, <2>1
  <2> QED
    BY <1>3, <2>1, <2>2, <2>3
<1>4. S \in Q
  BY <1>2, <1>3, PickInduction, Zenon
<1>5. SumOf(f, S) = g[S]
  BY <1>1, SumOfIs
<1> QED
  BY <1>4, <1>5

LEMMA SumTake ==
  ASSUME NEW S, IsFiniteSet(S), NEW f, \A x \in S : f[x] \in Int, NEW y \in S
  PROVE  SumOf(f, S) = f[y] + SumOf(f, S \ {y})
<1>1. PICK g : IsSum(g, f, S)
  BY SumExists
<1>2. \A U \in SUBSET S : SumOf(f, U) = g[U]
  BY <1>1, SumOfIs
<1>3. \A U \in SUBSET S : g[U] \in Int
  <2> TAKE U \in SUBSET S
  <2>1. IsFiniteSet(U)
    BY FS_Subset
  <2>2. SumOf(f, U) \in Int
    BY <2>1, SumInt
  <2> QED
    BY <1>2, <2>2
<1> DEFINE Q == {U \in SUBSET S : \A x \in U : g[U] = f[x] + g[U \ {x}]}
<1>4. ASSUME NEW T \in SUBSET S, \A U \in SUBSET T : U # T => U \in Q PROVE T \in Q
  <2> SUFFICES ASSUME NEW x \in T PROVE g[T] = f[x] + g[T \ {x}]
    OBVIOUS
  <2> PICK p : p = Pick(T)
    OBVIOUS
  <2>1. p \in T
    BY DEF Pick
  <2>2. g[T] = f[p] + g[T \ {p}]
    BY <1>1, SumEquation
  <2>3. CASE x = p
    BY <2>2, <2>3
  <2>4. CASE x # p
    <3> PICK R : R = T \ {p, x}
      OBVIOUS
    <3>1. g[T \ {p}] = f[x] + g[R]
      <4>1. T \ {p} \in Q /\ x \in T \ {p} /\ (T \ {p}) \ {x} = R
        BY <1>4, <2>1, <2>4
      <4> QED
        BY <4>1
    <3>2. g[T \ {x}] = f[p] + g[R]
      <4>1. T \ {x} \in Q /\ p \in T \ {x} /\ (T \ {x}) \ {p} = R
        BY <1>4, <2>1, <2>4
      <4> QED
        BY <4>1
    <3>3. f[p] \in Int /\ f[x] \in Int /\ g[R] \in Int
      BY <1>3, <2>1
    <3> QED
      BY <2>2, <3>1, <3>2, <3>3
  <2> QED
    BY <2>3, <2>4
<1>5. \A T \in SUBSET S : (\A U \in SUBSET T : U # T => U \in Q) => T \in Q
  BY <1>4
<1> HIDE DEF Q
<1>6. \A T \in SUBSET S : T \in Q
  BY ONLY <1>5, IsFiniteSet(S), SubsetInduction
<1>7. S \in Q
  BY <1>6
<1> QED
  BY <1>2, <1>7 DEF Q

-----------------------------------------------------------------------------
Keys ==
  {File[i] : i \in 1 .. N}
    \cup UNION {{ScenarioKeys[sc][i] : i \in 1 .. SampleRows(sc)} : sc \in Scenarios}

FinInts == {S \in SUBSET Int : IsFiniteSet(S)}

(* A row of int_batch, a request, and the UploadState.                     *)
BatchRec ==
  [seq : Nat, first : Nat, len : Nat, from : Int, upserted : Nat,
   skipped : Nat, keys : SUBSET Keys, rejects : FinInts]

FinBatches == {S \in SUBSET BatchRec : IsFiniteSet(S)}

CreatePcs == {"stats", "take", "insert"}
MappingPcs == {"read", "set"}
BatchPcs == {"job", "prior", "upsert", "commit", "refund"}
SamplePcs ==
  {"check", "take", "template", "insert", "upsert", "commit", "room",
   "failed", "undo"}

Request ==
  [kind : {"none", "create", "mapping", "batch", "sample"},
   pc : {"none"} \cup CreatePcs \cup MappingPcs \cup BatchPcs \cup SamplePcs,
   job : Ids \cup {None}, seq : Nat, first : Nat, len : Nat, last : BOOLEAN,
   snap : Job \cup {None}, prior : FinBatches, day : Days,
   done : BatchRec \cup {None}, scenario : Scenarios \cup {None}]

Upload ==
  [pc : {"idle", "create", "mapping", "batches", "final", "done", "stopped"},
   job : Ids \cup {None}, mapped : BOOLEAN, plan : Seq(Batches), next : Nat,
   attempt : 0 .. Retries, req : Slots \cup {None}, runs : Nat]

(* What is stored.                                                         *)
StoreOK ==
  /\ jobs \in [Ids -> Job \cup {None}]
  /\ stored \in [Ids -> FinBatches]
  /\ rejects \in [Ids -> FinInts]
  /\ \A j \in Ids : Cardinality(rejects[j]) <= MaxRejects
  /\ \A j \in Ids \ Jobs : stored[j] = {} /\ rejects[j] = {}

SpaceOK ==
  /\ usage \in [Days -> 0 .. DailyRows] /\ seeds \in 0 .. SeedRows
  /\ IsFiniteSet(graph) /\ Cardinality(graph) <= MaxObjects
  /\ today \in Days /\ work \in Workloads

(* What a request carries at its step, when J are the jobs.                *)
Carries(r, J) ==
  /\ r.kind = "none" => r = NoReq
  /\ r.kind = "create" => r.pc \in CreatePcs
  /\ r.kind = "mapping" => r.pc \in MappingPcs /\ r.job \in J
  /\ r.kind = "batch" =>
       /\ r.pc \in BatchPcs /\ r.job \in J
       /\ r.first >= 1 /\ r.len >= 1 /\ r.first + r.len - 1 <= N
       /\ r.pc # "job" => r.snap \in Job /\ Bytes(r) <= GatewayBytes
  /\ r.kind = "sample" =>
       /\ r.pc \in SamplePcs /\ r.scenario \in Scenarios
       /\ r.pc \in {"check", "take", "template", "insert"} => r.job = None
       /\ r.pc \in {"upsert", "commit"} =>
            /\ r.job \in J /\ r.snap \in Job
            /\ r.first >= 1 /\ r.first + r.len - 1 <= SampleRows(r.scenario)
            /\ ~ r.last => r.first + r.len <= SampleRows(r.scenario)
       /\ r.pc \in {"failed", "undo"} => r.job \in J \cup {None}
  /\ r.pc \in {"commit", "refund"} =>
       /\ r.done \in BatchRec
       /\ r.done.seq = r.seq /\ r.done.first = r.first /\ r.done.len = r.len

(* Who is at work.                                                         *)
Belongs(r, w) ==
  /\ r.kind \in {"create", "mapping", "batch"} => w # "sample"
  /\ r.kind = "sample" => w = "sample"

Fits(r, J, w) == r \in Request /\ Carries(r, J) /\ Belongs(r, w)

ReqsOK ==
  /\ DOMAIN reqs = Slots
  /\ \A s \in Slots : Fits(reqs[s], Jobs, work)

(* What the runner waits for, and where its upload is.                     *)
Waits(u, r, w) ==
  \/ u.pc = "create" /\ r.kind = "create"
  \/ u.pc = "mapping" /\ r.kind = "mapping" /\ r.job = u.job
  \/ /\ u.pc = "batches" /\ r.kind = "batch" /\ r.job = u.job
     /\ w \in {"web", "clear"}
     /\ r.seq = u.next /\ u.next < Len(u.plan)
     /\ u.plan[u.next + 1] = [first |-> r.first, len |-> r.len]

UpFits(u, J, w) ==
  /\ u \in Upload
  /\ u.next <= Len(u.plan)
  /\ u.job # None => u.job \in J
  /\ u.job = None => u.next = 0
  /\ u.pc \in {"mapping", "batches", "final", "done"} => u.job # None
  /\ u.pc = "create" => u.job = None
  /\ u.pc = "idle" => u.job = None /\ u.plan = <<>>
  /\ u.plan = <<>> => u.pc = "idle"
  /\ u.pc \in {"idle", "stopped", "final", "done"} => u.req = None
  /\ w = "sample" => u.pc = "idle"

UpOK ==
  /\ UpFits(up, Jobs, work)
  /\ up.req # None => Waits(up, reqs[up.req], work)

Shape == StoreOK /\ SpaceOK /\ ReqsOK /\ UpOK

-----------------------------------------------------------------------------
(* Requests.  What changes at a slot changes nothing elsewhere.            *)
LEMMA Bounds ==
  /\ N \in Nat /\ N >= 1 /\ MaxBytes \in Nat /\ GatewayBytes \in Nat
  /\ Retries \in Nat /\ MaxObjects \in Nat /\ MaxRejects \in Nat
  /\ DailyRows \in Nat /\ SeedRows \in Nat /\ BatchRows \in Nat /\ BatchRows >= 1
  /\ Ids \subseteq Nat /\ Slots \subseteq Nat /\ None \notin Ids /\ None \notin Slots
  /\ IsFiniteSet(Ids) /\ IsFiniteSet(Slots)
  /\ \A sc \in Scenarios : SampleRows(sc) \in Nat
<1>1. /\ N \in Nat /\ N >= 1 /\ MaxBytes \in Nat /\ GatewayBytes \in Nat
      /\ Retries \in Nat /\ MaxObjects \in Nat /\ MaxRejects \in Nat
      /\ DailyRows \in Nat /\ SeedRows \in Nat /\ BatchRows \in Nat /\ BatchRows >= 1
      /\ MaxJobs \in Nat /\ MaxReqs \in Nat /\ None \notin Int
  BY ImportAssumption
<1>2. IsFiniteSet(Ids) /\ IsFiniteSet(Slots)
  BY <1>1, FS_Interval DEF Ids, Slots
<1>3. \A sc \in Scenarios : SampleRows(sc) \in Nat
  BY ImportAssumption DEF SampleRows
<1>4. Ids \subseteq Nat /\ Slots \subseteq Nat /\ None \notin Ids /\ None \notin Slots
  BY <1>1 DEF Ids, Slots
<1> QED
  BY <1>1, <1>2, <1>3, <1>4

LEMMA NoReqFits == ASSUME NEW J, NEW w PROVE Fits(NoReq, J, w)
<1>1. {} \in FinBatches
  BY FS_EmptySet DEF FinBatches
<1>2. NoReq \in Request
  BY <1>1 DEF NoReq, Request, Days
<1> QED
  BY <1>2 DEF Fits, Carries, Belongs, NoReq

LEMMA FitsMore ==
  ASSUME NEW r, NEW J, NEW K, J \subseteq K, NEW w, Fits(r, J, w) PROVE Fits(r, K, w)
BY DEF Fits, Carries

LEMMA SlotChange ==
  ASSUME ReqsOK, NEW s \in Slots, NEW t, reqs' = [reqs EXCEPT ![s] = t],
         Jobs \subseteq Jobs', work' = work, Fits(t, Jobs', work)
  PROVE  ReqsOK' /\ reqs'[s] = t /\ \A o \in Slots \ {s} : reqs'[o] = reqs[o]
<1>1. DOMAIN reqs' = Slots /\ reqs'[s] = t /\ \A o \in Slots \ {s} : reqs'[o] = reqs[o]
  BY DEF ReqsOK
<1>2. \A o \in Slots : Fits(reqs'[o], Jobs', work')
  BY <1>1, FitsMore DEF ReqsOK
<1> QED
  BY <1>1, <1>2 DEF ReqsOK

LEMMA SameReqs ==
  ASSUME ReqsOK, reqs' = reqs, Jobs \subseteq Jobs', work' = work PROVE ReqsOK'
BY FitsMore DEF ReqsOK

LEMMA SameStore == ASSUME StoreOK, UNCHANGED jobVars PROVE StoreOK' /\ Jobs' = Jobs
BY DEF StoreOK, jobVars, Jobs

LEMMA SameSpace ==
  ASSUME SpaceOK, UNCHANGED <<quotas, graph, today, work>> PROVE SpaceOK'
BY DEF SpaceOK, quotas

(* A request at another step, with what it carried.                        *)
LEMMA Moved ==
  ASSUME NEW r \in Request, NEW p, NEW t, t = [r EXCEPT !.pc = p]
  PROVE  /\ t.pc = p /\ t.kind = r.kind /\ t.job = r.job /\ t.seq = r.seq
         /\ t.first = r.first /\ t.len = r.len /\ t.last = r.last /\ t.snap = r.snap
         /\ t.prior = r.prior /\ t.day = r.day /\ t.done = r.done
         /\ t.scenario = r.scenario
         /\ p \in {"none"} \cup CreatePcs \cup MappingPcs \cup BatchPcs \cup SamplePcs
              => t \in Request
BY DEF Request

(* The upload.                                                             *)
LEMMA UpMore ==
  ASSUME NEW u, NEW J, NEW K, J \subseteq K, NEW w, UpFits(u, J, w) PROVE UpFits(u, K, w)
BY DEF UpFits

(* The awaited request goes on, or another one does something.             *)
LEMMA UpKept ==
  ASSUME UpOK, up' = up, work' = work, Jobs \subseteq Jobs',
         up.req # None => \/ reqs'[up.req] = reqs[up.req]
                          \/ /\ reqs'[up.req].kind = reqs[up.req].kind
                             /\ reqs'[up.req].job = reqs[up.req].job
                             /\ reqs'[up.req].seq = reqs[up.req].seq
                             /\ reqs'[up.req].first = reqs[up.req].first
                             /\ reqs'[up.req].len = reqs[up.req].len
  PROVE  UpOK'
<1>1. UpFits(up', Jobs', work')
  BY UpMore DEF UpOK
<1>2. ASSUME up'.req # None PROVE Waits(up', reqs'[up'.req], work')
  BY <1>2 DEF UpOK, Waits
<1> QED
  BY <1>1, <1>2 DEF UpOK

LEMMA UpSame ==
  ASSUME UpOK, UNCHANGED <<up, work, reqs>>, Jobs \subseteq Jobs' PROVE UpOK'
BY UpKept

(* Nothing is awaited any more.                                            *)
LEMMA UpFree ==
  ASSUME NEW u, up' = u, u.req = None, UpFits(u, Jobs', work') PROVE UpOK'
BY DEF UpOK

LEMMA UpStopped ==
  ASSUME UpOK, up.pc # "idle", up' = Stopped, work' = work, Jobs \subseteq Jobs'
  PROVE  UpOK'
<1> PICK u : u = Stopped
  OBVIOUS
<1>1. 0 \in 0 .. Retries
  BY Bounds
<1>2. /\ u \in Upload /\ u.pc = "stopped" /\ u.req = None /\ u.job = up.job
      /\ u.plan = up.plan /\ u.next = up.next
  BY <1>1 DEF Stopped, UpOK, UpFits, Upload
<1>3. UpFits(u, Jobs, work)
  BY <1>2 DEF UpOK, UpFits
<1> QED
  BY <1>2, <1>3, UpMore, UpFree

LEMMA Answered ==
  ASSUME UpOK, NEW s \in Slots, Awaited(s)
  PROVE  /\ up.req = s /\ up.req # None /\ Waits(up, reqs[s], work)
         /\ up.pc \in {"create", "mapping", "batches"}
BY Bounds DEF UpOK, UpFits, Awaited, Waits

LEMMA UpAfterError ==
  ASSUME UpOK, up.pc \in {"create", "mapping", "batches"}, NEW b \in BOOLEAN,
         up' = AfterError(b), work' = work, Jobs \subseteq Jobs'
  PROVE  UpOK'
<1>1. CASE up' = Stopped
  BY <1>1, UpStopped
<1>2. CASE up' # Stopped
  <2> PICK u : u = [up EXCEPT !.req = None, !.attempt = @ + 1]
    OBVIOUS
  <2>1. up' = u /\ up.attempt < Retries
    BY <1>2 DEF AfterError
  <2>2. up.attempt + 1 \in 0 .. Retries
    BY <2>1, Bounds DEF UpOK, UpFits, Upload
  <2>3. /\ u \in Upload /\ u.pc = up.pc /\ u.req = None /\ u.job = up.job
        /\ u.plan = up.plan /\ u.next = up.next
    BY <2>2 DEF UpOK, UpFits, Upload
  <2>4. UpFits(u, Jobs, work)
    BY <2>3 DEF UpOK, UpFits
  <2> QED
    BY <2>1, <2>3, <2>4, UpMore, UpFree
<1> QED
  BY <1>1, <1>2

(* A request that ends with an error, or is lost.                          *)
LEMMA ErrorAnswered ==
  ASSUME ReqsOK, UpOK, NEW s \in Slots, NEW b \in BOOLEAN, AnswerError(s, b),
         work' = work, Jobs \subseteq Jobs'
  PROVE  /\ ReqsOK' /\ UpOK' /\ reqs'[s] = NoReq
         /\ \A o \in Slots \ {s} : reqs'[o] = reqs[o]
<1>1. reqs' = [reqs EXCEPT ![s] = NoReq] /\ up' = IF Awaited(s) THEN AfterError(b) ELSE up
  BY DEF AnswerError, End
<1>2. ReqsOK' /\ reqs'[s] = NoReq /\ \A o \in Slots \ {s} : reqs'[o] = reqs[o]
  BY <1>1, NoReqFits, SlotChange
<1>3. CASE Awaited(s)
  BY <1>1, <1>2, <1>3, Answered, UpAfterError
<1>4. CASE ~ Awaited(s)
  <2>1. up.req # None => up.req \in Slots \ {s}
    BY <1>4 DEF Awaited, UpOK, UpFits, Upload
  <2> QED
    BY <1>1, <1>2, <1>4, <2>1, UpKept
<1> QED
  BY <1>2, <1>3, <1>4

(* A batch is answered: the runner goes on to the next.                    *)
LEMMA UpNext ==
  ASSUME UpOK, NEW r, Waits(up, r, work), r.kind = "batch",
         up' = NextBatch, work' = work, Jobs \subseteq Jobs'
  PROVE  UpOK'
<1> PICK u : u = NextBatch
  OBVIOUS
<1>1. /\ up.pc = "batches" /\ up.next < Len(up.plan) /\ up \in Upload
      /\ up.next \in Nat /\ Len(up.plan) \in Nat /\ 0 \in 0 .. Retries
  BY Bounds DEF UpOK, UpFits, Upload, Waits
<1>2. /\ u \in Upload /\ u.pc \in {"batches", "final"} /\ u.req = None
      /\ u.job = up.job /\ u.plan = up.plan /\ u.next = up.next + 1
  <2>1. PICK m : m = [up EXCEPT !.next = @ + 1, !.req = None, !.attempt = 0]
    OBVIOUS
  <2>2. /\ m \in Upload /\ m.req = None /\ m.job = up.job /\ m.plan = up.plan
        /\ m.next = up.next + 1 /\ m.pc = up.pc
    <3>1. up.next + 1 \in Nat
      BY <1>1
    <3>2. m \in Upload
      BY ONLY <1>1, <2>1, <3>1 DEF Upload
    <3>3. m.req = None /\ m.job = up.job /\ m.plan = up.plan /\ m.pc = up.pc
      BY <1>1, <2>1 DEF Upload
    <3>4. m.next = up.next + 1
      BY <1>1, <2>1 DEF Upload
    <3> QED
      BY <3>2, <3>3, <3>4
  <2>3. CASE u = m
    BY <1>1, <2>2, <2>3
  <2>4. CASE u # m
    <3>1. u = [m EXCEPT !.pc = "final"]
      BY <2>1, <2>4, Zenon DEF NextBatch
    <3>2. u \in Upload
      BY ONLY <2>2, <3>1 DEF Upload
    <3>3. u.pc = "final" /\ u.req = None /\ u.job = up.job
      BY <2>2, <3>1 DEF Upload
    <3>4. u.plan = up.plan /\ u.next = up.next + 1
      BY <2>2, <3>1 DEF Upload
    <3> QED
      BY <3>2, <3>3, <3>4
  <2> QED
    BY <2>3, <2>4
<1>3. UpFits(u, Jobs, work)
  BY <1>1, <1>2 DEF UpOK, UpFits
<1> QED
  BY <1>2, <1>3, UpMore, UpFree

(* A request that ends with the answer to a batch.                         *)
LEMMA BatchAnswered ==
  ASSUME ReqsOK, UpOK, NEW s \in Slots, reqs[s].kind = "batch", End(s),
         AnswerOk(s, NextBatch), work' = work, Jobs \subseteq Jobs'
  PROVE  /\ ReqsOK' /\ UpOK' /\ reqs'[s] = NoReq
         /\ \A o \in Slots \ {s} : reqs'[o] = reqs[o]
<1>1. reqs' = [reqs EXCEPT ![s] = NoReq] /\ up' = IF Awaited(s) THEN NextBatch ELSE up
  BY DEF AnswerOk, End
<1>2. ReqsOK' /\ reqs'[s] = NoReq /\ \A o \in Slots \ {s} : reqs'[o] = reqs[o]
  BY <1>1, NoReqFits, SlotChange
<1>3. CASE Awaited(s)
  BY <1>1, <1>2, <1>3, Answered, UpNext
<1>4. CASE ~ Awaited(s)
  <2>1. up.req # None => up.req \in Slots \ {s}
    BY <1>4 DEF Awaited, UpOK, UpFits, Upload
  <2> QED
    BY <1>1, <1>2, <1>4, <2>1, UpKept
<1> QED
  BY <1>2, <1>3, <1>4

(* A request goes on and nobody is answered.                               *)
LEMMA GoesOn ==
  ASSUME ReqsOK, UpOK, NEW s \in Slots, NEW t, reqs' = [reqs EXCEPT ![s] = t],
         up' = up, Jobs \subseteq Jobs', work' = work, Fits(t, Jobs', work),
         \/ up.req # s
         \/ /\ t.kind = reqs[s].kind /\ t.job = reqs[s].job /\ t.seq = reqs[s].seq
            /\ t.first = reqs[s].first /\ t.len = reqs[s].len
  PROVE  ReqsOK' /\ UpOK' /\ reqs'[s] = t /\ \A o \in Slots \ {s} : reqs'[o] = reqs[o]
<1>1. ReqsOK' /\ reqs'[s] = t /\ \A o \in Slots \ {s} : reqs'[o] = reqs[o]
  BY SlotChange
<1>2. up.req # None => up.req \in Slots
  BY DEF UpOK, UpFits, Upload
<1> QED
  BY <1>1, <1>2, UpKept

-----------------------------------------------------------------------------
(* What is computed for a request, and what is stored of it.               *)
LEMMA SumIs ==
  /\ \A S : MapThenSumSet(LAMBDA b : b.len, S) = SumOf([b \in S |-> b.len], S)
  /\ \A S : MapThenSumSet(LAMBDA b : Cardinality(b.rejects), S)
              = SumOf([b \in S |-> Cardinality(b.rejects)], S)
  /\ \A S, f : MapThenSumSet(LAMBDA b : b[f], S) = SumOf([b \in S |-> b[f]], S)
  /\ \A S, f : SumFunctionOnSet(f, S) = SumOf([i \in S |-> f[i]], S)
<1>1. ASSUME NEW S PROVE MapThenSumSet(LAMBDA b : b.len, S) = SumOf([b \in S |-> b.len], S)
  BY DEF MapThenSumSet, MapThenFoldSet, SumOf, IsSum, Pick
<1>2. ASSUME NEW S PROVE MapThenSumSet(LAMBDA b : Cardinality(b.rejects), S)
              = SumOf([b \in S |-> Cardinality(b.rejects)], S)
  BY DEF MapThenSumSet, MapThenFoldSet, SumOf, IsSum, Pick
<1>3. ASSUME NEW S, NEW f PROVE MapThenSumSet(LAMBDA b : b[f], S) = SumOf([b \in S |-> b[f]], S)
  BY DEF MapThenSumSet, MapThenFoldSet, SumOf, IsSum, Pick
<1>4. ASSUME NEW S, NEW f PROVE SumFunctionOnSet(f, S) = SumOf([i \in S |-> f[i]], S)
  BY DEF SumFunctionOnSet, FoldFunctionOnSet, MapThenFoldSet, SumOf, IsSum, Pick
<1> QED
  BY <1>1, <1>2, <1>3, <1>4

LEMMA FirstRowNat ==
  ASSUME NEW S \in FinBatches, NEW n PROVE FirstRow(S, n) \in Nat /\ FirstRow(S, n) >= 1
<1> PICK T : T = {b \in S : b.seq < n}
  OBVIOUS
<1> PICK f : f = [b \in T |-> b.len]
  OBVIOUS
<1>1. IsFiniteSet(T) /\ T \subseteq BatchRec
  BY FS_Subset DEF FinBatches
<1>2. \A b \in T : f[b] \in Int /\ f[b] >= 0
  BY <1>1 DEF BatchRec
<1>3. SumOf(f, T) \in Int /\ SumOf(f, T) >= 0
  BY <1>1, <1>2, SumInt
<1>4. FirstRow(S, n) = SumOf(f, T) + 1
  BY SumIs DEF FirstRow
<1> QED
  BY <1>3, <1>4

(* A finite set of numbers has a greatest, and those of rank k are k.      *)
LEMMA GreatestNumber ==
  ASSUME NEW S, IsFiniteSet(S), S \subseteq Int, S # {}
  PROVE  \E x \in S : \A y \in S : y <= x
<1> DEFINE Q == {T \in SUBSET S : T # {} => \E x \in T : \A y \in T : y <= x}
<1>1. {} \in Q
  OBVIOUS
<1>2. ASSUME NEW T \in SUBSET S, T # {}, T \ {Pick(T)} \in Q PROVE T \in Q
  <2> PICK p : p = Pick(T)
    OBVIOUS
  <2>1. p \in T
    BY <1>2 DEF Pick
  <2>2. CASE T \ {p} = {}
    BY <2>1, <2>2
  <2>3. CASE T \ {p} # {}
    <3>1. PICK x \in T \ {p} : \A y \in T \ {p} : y <= x
      BY <1>2, <2>3
    <3>2. CASE p <= x
      BY <3>1, <3>2
    <3>3. CASE ~ (p <= x)
      <4>1. \A y \in T : y <= p
        BY <2>1, <3>1, <3>3
      <4> QED
        BY <2>1, <4>1
    <3> QED
      BY <3>2, <3>3
  <2> QED
    BY <2>2, <2>3
<1> HIDE DEF Q
<1>3. S \in Q
  BY <1>1, <1>2, PickInduction, Zenon
<1> QED
  BY <1>3 DEF Q

Ranked(S, k, m) == {i \in S : k + Cardinality({h \in S : h <= i}) <= m}

LEMMA FewRanked ==
  ASSUME NEW S, IsFiniteSet(S), S \subseteq Int, NEW k \in Nat, NEW m \in Nat, k <= m
  PROVE  IsFiniteSet(Ranked(S, k, m)) /\ Cardinality(Ranked(S, k, m)) + k <= m
<1> PICK T : T = {i \in S : k + Cardinality({h \in S : h <= i}) <= m}
  OBVIOUS
<1>0. T = Ranked(S, k, m)
  BY DEF Ranked
<1>1. IsFiniteSet(T) /\ T \subseteq Int
  BY FS_Subset
<1>2. CASE T = {}
  <2>1. Cardinality(T) = 0
    BY ONLY <1>2, FS_EmptySet
  <2>2. 0 + k <= m
    OBVIOUS
  <2> QED
    BY ONLY <1>0, <1>1, <2>1, <2>2
<1>3. CASE T # {}
  <2>1. PICK x \in T : \A y \in T : y <= x
    BY <1>1, <1>3, GreatestNumber
  <2> PICK U : U = {h \in S : h <= x}
    OBVIOUS
  <2>2. IsFiniteSet(U) /\ T \subseteq U
    BY <2>1, FS_Subset
  <2>3. Cardinality(T) <= Cardinality(U) /\ Cardinality(U) \in Nat /\ Cardinality(T) \in Nat
    BY <1>1, <2>2, FS_Subset, FS_CardinalityType
  <2>4. k + Cardinality(U) <= m
    OBVIOUS
  <2>5. k \in Nat /\ m \in Nat
    OBVIOUS
  <2> QED
    BY ONLY <1>0, <1>1, <2>3, <2>4, <2>5
<1> QED
  BY <1>2, <1>3

LEMMA RejectsKept ==
  ASSUME NEW old \in FinInts, NEW new \in FinInts, Cardinality(old) <= MaxRejects
  PROVE  /\ KeptRejects(old, new) \in FinInts
         /\ Cardinality(KeptRejects(old, new)) <= MaxRejects
<1>0. /\ IsFiniteSet(old) /\ IsFiniteSet(new) /\ old \subseteq Int /\ new \subseteq Int
      /\ MaxRejects \in Nat /\ Cardinality(old) \in Nat
  BY Bounds, FS_CardinalityType DEF FinInts
<1> PICK T : T = {i \in new : Cardinality(old) + Cardinality({h \in new : h <= i}) <= MaxRejects}
  OBVIOUS
<1>1. IsFiniteSet(T) /\ Cardinality(T) + Cardinality(old) <= MaxRejects
  <2> PICK c : c = Cardinality(old)
    OBVIOUS
  <2>1. /\ IsFiniteSet(new) /\ new \subseteq Int /\ c \in Nat /\ MaxRejects \in Nat
        /\ c <= MaxRejects
        /\ T = Ranked(new, c, MaxRejects)
    BY <1>0 DEF Ranked
  <2>2. IsFiniteSet(T) /\ Cardinality(T) + c <= MaxRejects
    BY ONLY <2>1, FewRanked
  <2> QED
    BY <2>2
<1>2. KeptRejects(old, new) = old \cup T
  BY DEF KeptRejects
<1>3. IsFiniteSet(old \cup T) /\ Cardinality(old \cup T) <= Cardinality(old) + Cardinality(T)
  <2>1. IsFiniteSet(old \cup T) /\ IsFiniteSet(old \cap T)
    BY <1>0, <1>1, FS_Union, FS_Subset
  <2>2. Cardinality(old \cup T) = Cardinality(old) + Cardinality(T) - Cardinality(old \cap T)
    BY <1>0, <1>1, FS_Union
  <2>3. Cardinality(old \cap T) \in Nat /\ Cardinality(T) \in Nat
    BY <1>1, <2>1, FS_CardinalityType
  <2> QED
    BY <1>0, <2>1, <2>2, <2>3
<1>4. Cardinality(old \cup T) \in Nat /\ Cardinality(T) \in Nat
  BY <1>1, <1>3, FS_CardinalityType
<1> QED
  <2>1. old \cup T \subseteq Int
    BY <1>0
  <2>2. Cardinality(old \cup T) <= MaxRejects
    BY ONLY <1>0, <1>1, <1>3, <1>4
  <2> QED
    BY <1>2, <1>3, <2>1, <2>2 DEF FinInts

(* A request that writes.                                                  *)
LEMMA Writing ==
  ASSUME NEW r \in Request, NEW J, Carries(r, J), r.pc = "upsert"
  PROVE  /\ r.kind \in {"batch", "sample"} /\ r.job \in J /\ r.snap \in Job
         /\ Rows(r) = r.first .. r.first + r.len - 1
         /\ IsFiniteSet(Rows(r)) /\ Rows(r) \subseteq Int
         /\ \A i \in Rows(r) : KeyOf(r, i) \in Keys
<1>1. r.kind \in {"batch", "sample"}
  BY DEF Carries, Request, CreatePcs, MappingPcs, NoReq
<1>2. /\ r.job \in J /\ r.snap \in Job /\ r.first >= 1 /\ r.first \in Nat /\ r.len \in Nat
      /\ r.kind = "batch" => r.first + r.len - 1 <= N
      /\ r.kind = "sample" => /\ r.scenario \in Scenarios
                              /\ r.first + r.len - 1 <= SampleRows(r.scenario)
  BY <1>1 DEF Carries, Request
<1>3. Rows(r) = r.first .. r.first + r.len - 1
  BY DEF Rows
<1>4. IsFiniteSet(Rows(r)) /\ Rows(r) \subseteq Int
  <2>1. r.first \in Int /\ r.first + r.len - 1 \in Int
    BY ONLY <1>2
  <2>2. IsFiniteSet(r.first .. r.first + r.len - 1)
    BY ONLY <2>1, FS_Interval
  <2> QED
    BY ONLY <1>3, <2>1, <2>2
<1>5. ASSUME NEW i \in Rows(r) PROVE KeyOf(r, i) \in Keys
  <2>1. i \in Nat /\ i >= 1 /\ i <= r.first + r.len - 1
    BY <1>2, <1>3
  <2>2. CASE r.kind = "batch"
    <3>1. i \in 1 .. N
      BY <1>2, <2>1, <2>2, Bounds
    <3> QED
      BY <2>2, <3>1 DEF KeyOf, Keys
  <2>3. CASE r.kind = "sample"
    <3> PICK sc \in Scenarios : sc = r.scenario
      BY <1>2, <2>3
    <3>1. SampleRows(sc) \in Nat /\ i \in 1 .. SampleRows(sc)
      BY <1>2, <2>1, <2>3, Bounds
    <3>2. KeyOf(r, i) = ScenarioKeys[sc][i]
      BY <2>3 DEF KeyOf
    <3>3. ScenarioKeys[sc][i] \in Keys
      BY <3>1 DEF Keys
    <3> QED
      BY <3>2, <3>3
  <2> QED
    BY <1>1, <2>2, <2>3
<1> QED
  BY <1>1, <1>2, <1>3, <1>4, <1>5

LEMMA OutcomeOK ==
  ASSUME NEW r \in Request, NEW J, Carries(r, J), r.pc = "upsert", SpaceOK,
         NEW o, o = Outcome(r)
  PROVE  /\ o \in BatchRec /\ o.seq = r.seq /\ o.first = r.first /\ o.len = r.len
         /\ o.from = FirstRow(r.prior, r.seq)
         /\ IsFiniteSet(graph \cup o.keys) /\ Cardinality(graph \cup o.keys) <= MaxObjects
<1>0. /\ IsFiniteSet(Rows(r)) /\ Rows(r) \subseteq Int
      /\ \A i \in Rows(r) : KeyOf(r, i) \in Keys
  BY Writing
<1>1. r.seq \in Nat /\ r.first \in Nat /\ r.len \in Nat /\ r.prior \in FinBatches
  BY DEF Request
<1> PICK fr : fr = FirstRow(r.prior, r.seq)
  OBVIOUS
<1>2. fr \in Nat
  BY <1>1, FirstRowNat
<1> PICK M : M = Mapped(r)
  OBVIOUS
<1> PICK W : W = NewRows(r)
  OBVIOUS
<1> PICK L : L = OverLimit(r)
  OBVIOUS
<1>3. M \subseteq Rows(r) /\ W \subseteq M /\ L \subseteq W
  BY DEF Mapped, NewRows, OverLimit
<1>4. IsFiniteSet(M) /\ IsFiniteSet(W) /\ IsFiniteSet(W \ L) /\ IsFiniteSet(M \ W) /\ IsFiniteSet(M \ L)
  BY <1>0, <1>3, FS_Subset
<1>5. Cardinality(W \ L) \in Nat /\ Cardinality(M \ W) \in Nat
  BY <1>4, FS_CardinalityType
<1> PICK K : K = {KeyOf(r, i) : i \in M \ L}
  OBVIOUS
<1> PICK B : B = {fr + i - r.first : i \in Rows(r) \ (M \ L)}
  OBVIOUS
<1>6. K \subseteq Keys
  BY <1>0, <1>3
<1>7. B \in FinInts
  <2>1. IsFiniteSet(Rows(r) \ (M \ L))
    BY <1>0, FS_Subset
  <2>2. B \subseteq Int
    BY <1>0, <1>1, <1>2
  <2> PICK D : D = Rows(r) \ (M \ L)
    OBVIOUS
  <2> PICK f : f = [i \in D |-> fr + i - r.first]
    OBVIOUS
  <2>3. f \in Surjection(D, B)
    BY DEF Surjection
  <2>4. IsFiniteSet(B)
    BY <2>1, <2>3, FS_Surjection
  <2> QED
    BY <2>2, <2>4 DEF FinInts
<1>8. o = [seq |-> r.seq, first |-> r.first, len |-> r.len, from |-> fr,
           upserted |-> Cardinality(W \ L), skipped |-> Cardinality(M \ W),
           keys |-> K, rejects |-> B]
  BY DEF Outcome
<1>9. o \in BatchRec /\ o.seq = r.seq /\ o.first = r.first /\ o.len = r.len /\ o.from = fr /\ o.keys = K
  BY <1>1, <1>2, <1>5, <1>6, <1>7, <1>8 DEF BatchRec
<1>10. IsFiniteSet(graph \cup K) /\ Cardinality(graph \cup K) <= MaxObjects
  <2>0. /\ IsFiniteSet(graph) /\ Cardinality(graph) <= MaxObjects /\ MaxObjects \in Nat
        /\ Cardinality(graph) \in Nat
    BY Bounds, FS_CardinalityType DEF SpaceOK
  <2> PICK V : V = W \ L
    OBVIOUS
  <2> PICK X : X = {KeyOf(r, i) : i \in V}
    OBVIOUS
  <2>1. graph \cup K = graph \cup X
    <3>1. \A i \in M \ W : KeyOf(r, i) \in graph
      BY DEF NewRows
    <3>2. K \subseteq graph \cup X
      BY <3>1
    <3>3. X \subseteq K
      BY <1>3
    <3> QED
      BY <3>2, <3>3
  <2>2. V = {i \in W : Cardinality(graph) + Cardinality({h \in W : h <= i}) <= MaxObjects}
    <3>1. L = {i \in W : Cardinality(graph) + Cardinality({h \in W : h <= i}) > MaxObjects}
      BY DEF OverLimit
    <3>2. \A i \in W : Cardinality({h \in W : h <= i}) \in Nat
      BY <1>4, FS_Subset, FS_CardinalityType
    <3> QED
      BY <2>0, <3>1, <3>2
  <2>3. IsFiniteSet(V) /\ Cardinality(V) + Cardinality(graph) <= MaxObjects
    <3> PICK c : c = Cardinality(graph)
      OBVIOUS
    <3>1. /\ IsFiniteSet(W) /\ W \subseteq Int /\ c \in Nat /\ MaxObjects \in Nat
          /\ c <= MaxObjects
      BY <1>0, <1>3, <1>4, <2>0
    <3>2. V = Ranked(W, c, MaxObjects)
      BY <2>2 DEF Ranked
    <3>3. IsFiniteSet(Ranked(W, c, MaxObjects))
          /\ Cardinality(Ranked(W, c, MaxObjects)) + c <= MaxObjects
      BY ONLY <3>1, FewRanked
    <3> QED
      BY <3>2, <3>3
  <2> PICK f : f = [i \in V |-> KeyOf(r, i)]
    OBVIOUS
  <2>4. f \in Surjection(V, X)
    BY DEF Surjection
  <2>5. IsFiniteSet(X) /\ Cardinality(X) <= Cardinality(V)
    BY <2>3, <2>4, FS_Surjection
  <2>6. /\ IsFiniteSet(graph \cup X) /\ IsFiniteSet(graph \cap X)
        /\ Cardinality(graph \cup X) = Cardinality(graph) + Cardinality(X) - Cardinality(graph \cap X)
    BY <2>0, <2>5, FS_Union, FS_Subset
  <2>7. Cardinality(graph \cap X) \in Nat /\ Cardinality(X) \in Nat /\ Cardinality(V) \in Nat
    BY <2>3, <2>5, <2>6, FS_CardinalityType
  <2> QED
    <3>1. Cardinality(graph \cup X) <= MaxObjects
      BY ONLY <2>0, <2>3, <2>5, <2>6, <2>7
    <3> QED
      BY ONLY <2>1, <2>6, <3>1, Zenon
<1> QED
  BY <1>9, <1>10

-----------------------------------------------------------------------------
(* The plan.  Batches that lie end to end from row a up to row z.          *)
Tiles(p, a, z) ==
  /\ p \in Seq(Batches) /\ Len(p) > 0
  /\ p[1].first = a /\ p[Len(p)].first + p[Len(p)].len = z
  /\ \A i \in 1 .. Len(p) - 1 : p[i + 1].first = p[i].first + p[i].len
  /\ \A i, k \in 1 .. Len(p) : i < k => p[i].first + p[i].len <= p[k].first
  /\ \A x \in a .. z - 1 : \E i \in 1 .. Len(p) : x \in Rows(p[i])

LEMMA BatchesAre ==
  ASSUME NEW b \in Batches
  PROVE  /\ b.first \in Nat /\ b.len \in Nat /\ b.first >= 1 /\ b.len >= 1
         /\ b.first + b.len - 1 <= N /\ b = [first |-> b.first, len |-> b.len]
         /\ b.len <= N
         /\ \A x : x \in Rows(b) <=> x \in Int /\ b.first <= x /\ x < b.first + b.len
BY Bounds DEF Batches, Rows

LEMMA BytesInt ==
  ASSUME NEW b, b.first \in Nat, b.first >= 1, b.len \in Nat, b.first + b.len - 1 <= N
  PROVE  Bytes(b) \in Int
<1> PICK R : R = Rows(b)
  OBVIOUS
<1>1. R = b.first .. b.first + b.len - 1 /\ IsFiniteSet(R) /\ R \subseteq 1 .. N
  <2>1. R = b.first .. b.first + b.len - 1
    BY DEF Rows
  <2>2. IsFiniteSet(b.first .. b.first + b.len - 1)
    <3>1. b.first \in Int /\ b.first + b.len - 1 \in Int
      OBVIOUS
    <3> QED
      BY ONLY <3>1, FS_Interval
  <2>3. b.first .. b.first + b.len - 1 \subseteq 1 .. N
    BY Bounds
  <2> QED
    BY <2>1, <2>2, <2>3
<1> PICK f : f = [i \in R |-> RowBytes[i]]
  OBVIOUS
<1>2. \A i \in R : f[i] \in Int
  <2>1. \A i \in 1 .. N : RowBytes[i] \in Int
    BY ONLY ImportAssumption
  <2>2. R \subseteq 1 .. N /\ \A i \in R : f[i] = RowBytes[i]
    BY <1>1
  <2> QED
    BY ONLY <2>1, <2>2
<1>3. SumOf(f, R) \in Int
  BY <1>1, <1>2, SumInt
<1> QED
  BY <1>3, SumIs DEF Bytes

LEMMA BytesSame ==
  ASSUME NEW b, NEW c, b.first = c.first, b.len = c.len PROVE Bytes(b) = Bytes(c)
<1>1. Rows(b) = Rows(c)
  BY DEF Rows
<1> QED
  BY <1>1 DEF Bytes

LEMMA TilesIs ==
  ASSUME NEW p \in Seq(Batches), Len(p) > 0, NEW a, NEW z,
         p[1].first = a, p[Len(p)].first + p[Len(p)].len = z,
         \A i \in 1 .. Len(p) - 1 : p[i + 1].first = p[i].first + p[i].len,
         \A i, k \in 1 .. Len(p) : i < k => p[i].first + p[i].len <= p[k].first,
         \A x \in a .. z - 1 : \E i \in 1 .. Len(p) : x \in Rows(p[i])
  PROVE  Tiles(p, a, z)
BY DEF Tiles

LEMMA TilesOne == ASSUME NEW b \in Batches PROVE Tiles(<<b>>, b.first, b.first + b.len)
<1>0. PICK p : p = <<b>>
  OBVIOUS
<1>1. p \in Seq(Batches) /\ Len(p) = 1 /\ p[1] = b
  BY <1>0
<1>2. PICK z : z = b.first + b.len
  OBVIOUS
<1>3. \A x \in b.first .. z - 1 : x \in Rows(b)
  BY <1>2, BatchesAre
<1>4. /\ p[1].first = b.first /\ p[Len(p)].first + p[Len(p)].len = z /\ Len(p) > 0
      /\ \A i \in 1 .. Len(p) - 1 : p[i + 1].first = p[i].first + p[i].len
      /\ \A i, k \in 1 .. Len(p) : i < k => p[i].first + p[i].len <= p[k].first
  BY <1>1, <1>2
<1>5. \A x \in b.first .. z - 1 : \E i \in 1 .. Len(p) : x \in Rows(p[i])
  BY <1>1, <1>3
<1>6. Tiles(p, b.first, z)
  BY <1>1, <1>4, <1>5, TilesIs
<1> QED
  BY <1>0, <1>2, <1>6

LEMMA Halves ==
  ASSUME NEW b \in Batches, b.len > 1
  PROVE  /\ Half(b) \in Seq(Batches) /\ Len(Half(b)) = 2
         /\ Half(b)[1] \in Batches /\ Half(b)[2] \in Batches
         /\ Half(b)[1].first = b.first
         /\ Half(b)[2].first = b.first + Half(b)[1].len
         /\ Half(b)[2].len = b.len - Half(b)[1].len
         /\ Half(b)[1].len < b.len /\ Half(b)[2].len < b.len
<1> PICK mid : mid = (b.len + 1) \div 2
  OBVIOUS
<1>1. mid \in Nat /\ mid >= 1 /\ mid < b.len
  BY BatchesAre
<1> PICK x : x = [first |-> b.first, len |-> mid]
  OBVIOUS
<1> PICK y : y = [first |-> b.first + mid, len |-> b.len - mid]
  OBVIOUS
<1>2. Half(b) = <<x, y>>
  BY DEF Half
<1>3. /\ b.first \in Nat /\ b.len \in Nat /\ b.first >= 1 /\ b.first + b.len - 1 <= N
      /\ N \in Nat
  BY BatchesAre, Bounds
<1>4. x \in Batches /\ x.first = b.first /\ x.len = mid
  BY <1>1, <1>3 DEF Batches
<1>5. y \in Batches /\ y.first = b.first + mid /\ y.len = b.len - mid
  BY <1>1, <1>3 DEF Batches
<1>6. Half(b)[1] = x /\ Half(b)[2] = y /\ Len(Half(b)) = 2 /\ Half(b) \in Seq(Batches)
  BY <1>2, <1>4, <1>5
<1> QED
  BY <1>1, <1>3, <1>4, <1>5, <1>6

(* What comes before the end of a tiling, and after its start.             *)
LEMMA TilesWithin ==
  ASSUME NEW p, NEW a, NEW z, Tiles(p, a, z), NEW i \in 1 .. Len(p)
  PROVE  p[i] \in Batches /\ a <= p[i].first /\ p[i].first + p[i].len <= z
<1>1. /\ p \in Seq(Batches) /\ Len(p) \in Nat /\ Len(p) > 0
      /\ p[1].first = a /\ p[Len(p)].first + p[Len(p)].len = z
      /\ \A k \in 1 .. Len(p) : p[k] \in Batches
  BY DEF Tiles
<1>2. \A k \in 1 .. Len(p) : /\ p[k].first \in Nat /\ p[k].len \in Nat /\ p[k].len >= 1
  BY <1>1, BatchesAre
<1>3. a <= p[i].first
  <2>1. CASE i = 1
    BY <1>1, <1>2, <2>1
  <2>2. CASE i # 1
    <3>1. p[1].first + p[1].len <= p[i].first
      BY <1>1, <2>2 DEF Tiles
    <3> QED
      BY <1>1, <1>2, <3>1
  <2> QED
    BY <2>1, <2>2
<1>4. p[i].first + p[i].len <= z
  <2>1. CASE i = Len(p)
    BY <1>1, <1>2, <2>1
  <2>2. CASE i # Len(p)
    <3>1. p[i].first + p[i].len <= p[Len(p)].first
      BY <1>1, <2>2 DEF Tiles
    <3>2. p[Len(p)].first \in Nat /\ p[Len(p)].len \in Nat
      BY <1>1, <1>2
    <3>3. p[i].first \in Nat /\ p[i].len \in Nat
      BY <1>2
    <3> QED
      BY ONLY <1>1, <3>1, <3>2, <3>3
  <2> QED
    BY <2>1, <2>2
<1> QED
  BY <1>1, <1>3, <1>4

LEMMA TilesJoin ==
  ASSUME NEW p, NEW q, NEW a, NEW m, NEW z, Tiles(p, a, m), Tiles(q, m, z),
         a \in Int, m \in Int, z \in Int
  PROVE  Tiles(p \o q, a, z)
<1> PICK n \in Nat : n = Len(p)
  BY DEF Tiles
<1> PICK l \in Nat : l = Len(q)
  BY DEF Tiles
<1> PICK r : r = p \o q
  OBVIOUS
<1>1. /\ r \in Seq(Batches) /\ Len(r) = n + l /\ n > 0 /\ l > 0
      /\ \A i \in 1 .. n + l : r[i] = IF i <= n THEN p[i] ELSE q[i - n]
  BY DEF Tiles
<1>2. \A i \in 1 .. n : p[i] \in Batches /\ a <= p[i].first /\ p[i].first + p[i].len <= m
  BY TilesWithin
<1>3. \A i \in 1 .. l : q[i] \in Batches /\ m <= q[i].first /\ q[i].first + q[i].len <= z
  BY TilesWithin
<1>4. /\ p[1].first = a /\ p[n].first + p[n].len = m
      /\ q[1].first = m /\ q[l].first + q[l].len = z
      /\ \A i \in 1 .. n - 1 : p[i + 1].first = p[i].first + p[i].len
      /\ \A i \in 1 .. l - 1 : q[i + 1].first = q[i].first + q[i].len
  BY DEF Tiles
<1>5. r[1].first = a /\ r[Len(r)].first + r[Len(r)].len = z
  <2>1. r[1] = p[1] /\ r[n + l] = q[n + l - n] /\ n + l - n = l
    BY <1>1
  <2> QED
    BY <1>1, <1>4, <2>1
<1>6. ASSUME NEW i \in 1 .. Len(r) - 1 PROVE r[i + 1].first = r[i].first + r[i].len
  <2>1. CASE i < n
    <3>1. r[i + 1] = p[i + 1] /\ r[i] = p[i] /\ i \in 1 .. n - 1
      BY <1>1, <2>1
    <3> QED
      BY <1>4, <3>1
  <2>2. CASE i = n
    <3>1. r[i + 1] = q[n + 1 - n] /\ n + 1 - n = 1 /\ r[i] = p[n]
      BY <1>1, <2>2
    <3> QED
      BY <1>4, <3>1
  <2>3. CASE i > n
    <3>1. r[i + 1] = q[i + 1 - n] /\ r[i] = q[i - n] /\ i - n \in 1 .. l - 1 /\ i + 1 - n = (i - n) + 1
      BY <1>1, <2>3
    <3> QED
      BY <1>4, <3>1
  <2> QED
    BY <1>1, <2>1, <2>2, <2>3
<1>7. ASSUME NEW i \in 1 .. Len(r), NEW k \in 1 .. Len(r), i < k
      PROVE  r[i].first + r[i].len <= r[k].first
  <2>1. CASE k <= n
    <3>1. r[i] = p[i] /\ r[k] = p[k] /\ i \in 1 .. n /\ k \in 1 .. n
      BY <1>1, <1>7, <2>1
    <3> QED
      BY <1>7, <3>1 DEF Tiles
  <2>2. CASE i <= n /\ ~ (k <= n)
    <3>1. r[i] = p[i] /\ r[k] = q[k - n] /\ i \in 1 .. n /\ k - n \in 1 .. l
      BY <1>1, <1>7, <2>2
    <3>2. p[i].first + p[i].len <= m /\ m <= q[k - n].first /\ p[i] \in Batches /\ q[k - n] \in Batches
      BY <1>2, <1>3, <3>1
    <3>3. p[i].first \in Nat /\ p[i].len \in Nat /\ q[k - n].first \in Nat
      BY <3>2, BatchesAre
    <3>4. p[i].first + p[i].len <= q[k - n].first
      BY ONLY <3>2, <3>3, m \in Int
    <3> QED
      BY <3>1, <3>4
  <2>3. CASE ~ (i <= n)
    <3>1. r[i] = q[i - n] /\ r[k] = q[k - n] /\ i - n \in 1 .. l /\ k - n \in 1 .. l /\ i - n < k - n
      <4>1. ~ (k <= n) /\ i - n \in 1 .. l /\ k - n \in 1 .. l /\ i - n < k - n
        BY <1>1, <1>7, <2>3
      <4>2. r[i] = q[i - n] /\ r[k] = q[k - n]
        BY <1>1, <2>3, <4>1
      <4> QED
        BY <4>1, <4>2
    <3> QED
      BY <3>1 DEF Tiles
  <2> QED
    BY <1>1, <1>7, <2>1, <2>2, <2>3
<1>8. ASSUME NEW x \in a .. z - 1 PROVE \E i \in 1 .. Len(r) : x \in Rows(r[i])
  <2>1. CASE x < m
    <3>1. PICK i \in 1 .. n : x \in Rows(p[i])
      BY <2>1 DEF Tiles
    <3>2. r[i] = p[i] /\ i \in 1 .. Len(r)
      BY <1>1
    <3> QED
      BY <3>1, <3>2
  <2>2. CASE ~ (x < m)
    <3>1. PICK i \in 1 .. l : x \in Rows(q[i])
      BY <2>2 DEF Tiles
    <3>2. i + n \in 1 .. Len(r) /\ r[i + n] = q[i + n - n] /\ i + n - n = i
      BY <1>1
    <3> QED
      BY <3>1, <3>2
  <2> QED
    BY <2>1, <2>2
<1>9. r \in Seq(Batches) /\ Len(r) > 0
  BY <1>1
<1>10. Tiles(r, a, z)
  BY <1>5, <1>6, <1>7, <1>8, <1>9 DEF Tiles
<1> QED
  BY <1>10

(* The halves of a batch tile what it does.                                *)
LEMMA HalvesTile ==
  ASSUME NEW b \in Batches, b.len > 1, NEW p, NEW q, NEW h, NEW k,
         h = Half(b)[1], k = Half(b)[2],
         Tiles(p, h.first, h.first + h.len), Tiles(q, k.first, k.first + k.len)
  PROVE  Tiles(p \o q, b.first, b.first + b.len)
<1>1. /\ h \in Batches /\ k \in Batches /\ h.first = b.first
      /\ k.first = b.first + h.len /\ k.len = b.len - h.len
  BY Halves
<1>2. /\ b.first \in Int /\ b.len \in Int /\ h.len \in Int
  BY <1>1, BatchesAre
<1>3. h.first + h.len = k.first /\ k.first + k.len = b.first + b.len
  BY <1>1, <1>2
<1>4. b.first + h.len \in Int /\ b.first + b.len \in Int
  BY <1>2
<1> QED
  BY ONLY <1>1, <1>3, <1>4, <1>2, TilesJoin, Tiles(p, h.first, h.first + h.len),
          Tiles(q, k.first, k.first + k.len)

(* splitToFit ends.                                                        *)
Fitting(b) == Bytes(b) <= MaxBytes \/ b.len = 1

LEMMA SplitEquation ==
  ASSUME NEW b \in Batches
  PROVE  SplitToFit[b] = IF Fitting(b) THEN <<b>>
                         ELSE SplitToFit[Half(b)[1]] \o SplitToFit[Half(b)[2]]
<1> DEFINE Level(g, n) == g = [c \in Batches |->
                   IF Fitting(c) THEN <<c>>
                   ELSE IF c.len <= n THEN g[Half(c)[1]] \o g[Half(c)[2]] ELSE <<>>]
           Fails == {n \in Nat : ~ \E g : Level(g, n)}
<1>1. \A c \in Batches : ~ Fitting(c) => c.len > 1 /\ c.len \in Nat /\ c.len <= N
  BY BatchesAre DEF Fitting
<1>2. Fails = {}
  <2> SUFFICES ASSUME Fails # {} PROVE FALSE
    OBVIOUS
  <2> PICK n : n = Min(Fails)
    OBVIOUS
  <2>1. n \in Fails /\ \A m \in Fails : n <= m
    BY LeastNumber
  <2> HIDE DEF Fails
  <2>2. n \in Nat
    BY <2>1 DEF Fails
  <2>3. CASE n = 0
    <3> PICK g : g = [c \in Batches |-> IF Fitting(c) THEN <<c>> ELSE <<>>]
      OBVIOUS
    <3>1. Level(g, 0)
      BY <1>1
    <3> HIDE DEF Level
    <3> QED
      BY <2>1, <2>3, <3>1 DEF Fails
  <2>4. CASE n # 0
    <3>1. n - 1 \in Nat /\ n - 1 \notin Fails
      BY <2>1, <2>2, <2>4
    <3>2. PICK g : Level(g, n - 1)
      BY <3>1 DEF Fails
    <3> DEFINE h == [c \in Batches |->
                       IF Fitting(c) THEN <<c>>
                       ELSE IF c.len <= n THEN g[Half(c)[1]] \o g[Half(c)[2]] ELSE <<>>]
    <3>3. ASSUME NEW d \in Batches, d.len <= n - 1 PROVE h[d] = g[d]
      <4>1. g[d] = IF Fitting(d) THEN <<d>>
                   ELSE IF d.len <= n - 1 THEN g[Half(d)[1]] \o g[Half(d)[2]] ELSE <<>>
        BY <3>2
      <4>2. h[d] = IF Fitting(d) THEN <<d>>
                   ELSE IF d.len <= n THEN g[Half(d)[1]] \o g[Half(d)[2]] ELSE <<>>
        OBVIOUS
      <4>3. d.len <= n
        BY <2>2, <3>3, BatchesAre
      <4> QED
        BY <3>3, <4>1, <4>2, <4>3
    <3>4. ASSUME NEW c \in Batches, ~ Fitting(c), c.len <= n
          PROVE  h[Half(c)[1]] = g[Half(c)[1]] /\ h[Half(c)[2]] = g[Half(c)[2]]
      <4> PICK x : x = Half(c)[1]
        OBVIOUS
      <4> PICK y : y = Half(c)[2]
        OBVIOUS
      <4>1. x \in Batches /\ y \in Batches /\ x.len < c.len /\ y.len < c.len /\ c.len \in Nat
        BY <1>1, <3>4, Halves
      <4>2. x.len <= n - 1 /\ y.len <= n - 1
        BY <2>2, <3>4, <4>1, BatchesAre
      <4> QED
        BY <3>3, <4>1, <4>2
    <3>5. Level(h, n)
      <4> SUFFICES ASSUME NEW c \in Batches
                   PROVE  h[c] = IF Fitting(c) THEN <<c>>
                                 ELSE IF c.len <= n THEN h[Half(c)[1]] \o h[Half(c)[2]] ELSE <<>>
        BY Zenon
      <4> QED
        BY <3>4
    <3> QED
      BY <2>1, <3>5 DEF Fails
  <2> QED
    BY <2>3, <2>4
<1>3. PICK g : Level(g, N)
  BY <1>2, Bounds
<1>4. g = [c \in Batches |-> IF Fitting(c) THEN <<c>> ELSE g[Half(c)[1]] \o g[Half(c)[2]]]
  BY <1>1, <1>3
<1>5. SplitToFit = CHOOSE f : f = [c \in Batches |->
            IF Fitting(c) THEN <<c>> ELSE f[Half(c)[1]] \o f[Half(c)[2]]]
  BY DEF SplitToFit, Fitting
<1>6. SplitToFit = [c \in Batches |->
            IF Fitting(c) THEN <<c>> ELSE SplitToFit[Half(c)[1]] \o SplitToFit[Half(c)[2]]]
  BY <1>4, <1>5, Zenon
<1> QED
  BY <1>6, Zenon

LEMMA SplitTiles ==
  ASSUME NEW b \in Batches PROVE Tiles(SplitToFit[b], b.first, b.first + b.len)
<1> DEFINE Bad == {c \in Batches : ~ Tiles(SplitToFit[c], c.first, c.first + c.len)}
           Lens == {c.len : c \in Bad}
<1> SUFFICES ASSUME Bad # {} PROVE FALSE
  OBVIOUS
<1>1. Lens \subseteq Nat /\ Lens # {}
  BY BatchesAre
<1> PICK n : n = Min(Lens)
  OBVIOUS
<1>2. n \in Lens /\ \A m \in Lens : n <= m
  BY <1>1, LeastNumber
<1>3. PICK c \in Bad : \A d \in Bad : c.len <= d.len
  BY <1>2
<1>4. c \in Batches /\ c.len \in Nat
  BY BatchesAre
<1>5. CASE Fitting(c)
  <2>1. SplitToFit[c] = <<c>>
    BY <1>4, <1>5, SplitEquation
  <2>2. Tiles(<<c>>, c.first, c.first + c.len)
    BY <1>4, TilesOne
  <2> QED
    BY <2>1, <2>2
<1>6. CASE ~ Fitting(c)
  <2> PICK x : x = Half(c)[1]
    OBVIOUS
  <2> PICK y : y = Half(c)[2]
    OBVIOUS
  <2>1. c.len > 1
    BY <1>4, <1>6, BatchesAre DEF Fitting
  <2>2. x \in Batches /\ y \in Batches /\ x.len < c.len /\ y.len < c.len
    BY <1>4, <2>1, Halves
  <2>3. x \notin Bad /\ y \notin Bad
    BY <1>3, <1>4, <2>2, BatchesAre
  <2>4. Tiles(SplitToFit[x], x.first, x.first + x.len) /\ Tiles(SplitToFit[y], y.first, y.first + y.len)
    BY <2>2, <2>3
  <2>5. SplitToFit[c] = SplitToFit[x] \o SplitToFit[y]
    BY <1>4, <1>6, SplitEquation
  <2> PICK p : p = SplitToFit[x]
    OBVIOUS
  <2> PICK q : q = SplitToFit[y]
    OBVIOUS
  <2>6. Tiles(p \o q, c.first, c.first + c.len)
    BY <1>4, <2>1, <2>4, HalvesTile
  <2> QED
    BY <2>5, <2>6
<1> QED
  BY <1>5, <1>6

(* Sequences put together.                                                 *)
LEMMA FlattenEquation ==
  ASSUME NEW s, NEW n \in Nat, n > 0, Len(s) = n
  PROVE  \E f : /\ FlattenSeq(s) = f[n]
                /\ \A i \in 1 .. n : f[i] = IF i = 1 THEN s[i] ELSE f[i - 1] \o s[i]
<1> DEFINE Level(g, m) == g = [i \in 1 .. n |->
                 IF i = 1 THEN s[i] ELSE IF i <= m THEN g[i - 1] \o s[i] ELSE <<>>]
           Fails == {m \in Nat : ~ \E g : Level(g, m)}
<1>1. Fails = {}
  <2> SUFFICES ASSUME Fails # {} PROVE FALSE
    OBVIOUS
  <2> PICK m : m = Min(Fails)
    OBVIOUS
  <2>1. m \in Fails /\ \A k \in Fails : m <= k
    BY LeastNumber
  <2> HIDE DEF Fails
  <2>2. m \in Nat
    BY <2>1 DEF Fails
  <2>3. CASE m = 0
    <3> PICK g : g = [i \in 1 .. n |-> IF i = 1 THEN s[i] ELSE <<>>]
      OBVIOUS
    <3>1. Level(g, 0)
      OBVIOUS
    <3> HIDE DEF Level
    <3> QED
      BY <2>1, <2>3, <3>1 DEF Fails
  <2>4. CASE m # 0
    <3>1. m - 1 \in Nat /\ m - 1 \notin Fails
      BY <2>1, <2>2, <2>4
    <3>2. PICK g : Level(g, m - 1)
      BY <3>1 DEF Fails
    <3> DEFINE h == [i \in 1 .. n |->
                       IF i = 1 THEN s[i] ELSE IF i <= m THEN g[i - 1] \o s[i] ELSE <<>>]
    <3>3. ASSUME NEW i \in 1 .. n, i <= m - 1 PROVE h[i] = g[i]
      <4>1. g[i] = IF i = 1 THEN s[i] ELSE IF i <= m - 1 THEN g[i - 1] \o s[i] ELSE <<>>
        BY <3>2, Zenon
      <4>2. h[i] = IF i = 1 THEN s[i] ELSE IF i <= m THEN g[i - 1] \o s[i] ELSE <<>>
        BY Zenon
      <4>3. i <= m
        BY <2>2, <3>3
      <4> QED
        BY <3>3, <4>1, <4>2, <4>3
    <3>4. ASSUME NEW i \in 1 .. n, i # 1, i <= m PROVE h[i - 1] = g[i - 1]
      <4>1. i - 1 \in 1 .. n /\ i - 1 <= m - 1
        BY <2>2, <3>4
      <4> QED
        BY <3>3, <4>1
    <3>5. Level(h, m)
      <4> SUFFICES ASSUME NEW i \in 1 .. n
                   PROVE  h[i] = IF i = 1 THEN s[i]
                                 ELSE IF i <= m THEN h[i - 1] \o s[i] ELSE <<>>
        BY Zenon
      <4> QED
        BY <3>4
    <3> QED
      BY <2>1, <3>5 DEF Fails
  <2> QED
    BY <2>3, <2>4
<1>2. \E g : Level(g, n)
  <2> HIDE DEF Level
  <2>1. n \notin Fails
    BY ONLY <1>1
  <2> QED
    BY <2>1
<1>3. PICK g : g = [i \in 1 .. n |-> IF i = 1 THEN s[i] ELSE g[i - 1] \o s[i]]
  <2>1. PICK g : Level(g, n)
    BY <1>2
  <2>2. \A i \in 1 .. n : i <= n
    OBVIOUS
  <2>3. g = [i \in 1 .. n |-> IF i = 1 THEN s[i] ELSE g[i - 1] \o s[i]]
    BY <2>1, <2>2, Zenon
  <2> QED
    BY <2>3
<1> HIDE DEF Level, Fails
<1>4. PICK f : f = CHOOSE k : k = [i \in 1 .. n |-> IF i = 1 THEN s[i] ELSE k[i - 1] \o s[i]]
  OBVIOUS
<1>5. f = [i \in 1 .. n |-> IF i = 1 THEN s[i] ELSE f[i - 1] \o s[i]]
  BY <1>3, <1>4, Zenon
<1>6. FlattenSeq(s) = f[n]
  BY <1>4 DEF FlattenSeq
<1>7. \A i \in 1 .. n : f[i] = IF i = 1 THEN s[i] ELSE f[i - 1] \o s[i]
  BY <1>5, Zenon
<1> QED
  BY <1>6, <1>7, Zenon

(* planBatches covers the file from its first row to its last.             *)
LEMMA MinOfTwo ==
  ASSUME NEW a \in Nat, NEW b \in Nat PROVE Min({a, b}) = IF a <= b THEN a ELSE b
<1>1. Min({a, b}) \in {a, b} /\ \A y \in {a, b} : Min({a, b}) <= y
  <2>1. {a, b} # {} /\ {a, b} \subseteq Nat
    OBVIOUS
  <2> QED
    BY ONLY <2>1, LeastNumber
<1> PICK m : m = Min({a, b})
  OBVIOUS
<1>2. (m = a \/ m = b) /\ m <= a /\ m <= b
  BY <1>1
<1> QED
  BY <1>2

LEMMA Multiples ==
  ASSUME NEW i \in Nat, NEW k \in Nat, i <= k, NEW b \in Nat
  PROVE  i * b <= k * b /\ i * b \in Nat /\ (i + 1) * b = i * b + b
<1>1. i * b \in Nat /\ k * b \in Nat /\ (i + 1) * b = i * b + b
  BY SMTT(20)
<1>2. (k - i) * b \in Nat /\ (k - i) * b = k * b - i * b
  BY SMTT(20)
<1> QED
  BY <1>1, <1>2

LEMMA Chunks ==
  ASSUME NEW n, n = (N + BatchRows - 1) \div BatchRows
  PROVE  /\ n \in Nat /\ n > 0 /\ n * BatchRows >= N
         /\ \A i \in 1 .. n : (i - 1) * BatchRows \in Nat /\ (i - 1) * BatchRows < N
         /\ \A i \in 1 .. n - 1 : i * BatchRows < N
<1> PICK b \in Nat : b = BatchRows
  BY Bounds
<1>1. b >= 1 /\ N \in Nat /\ N >= 1 /\ n = (N + b - 1) \div b
  BY Bounds
<1>2. n \in Nat /\ n * b <= N + b - 1 /\ N + b - 1 < n * b + b /\ n * b \in Nat
  BY ONLY b \in Nat, <1>1, SMTT(30)
<1>3. n > 0
  <2>1. CASE n = 0
    <3>1. 0 * b = 0
      OBVIOUS
    <3> QED
      BY <1>1, <1>2, <2>1, <3>1
  <2> QED
    BY <1>2, <2>1
<1>4. ASSUME NEW i \in 1 .. n PROVE (i - 1) * b \in Nat /\ (i - 1) * b < N
  <2> PICK k \in Nat : k = i - 1
    OBVIOUS
  <2>1. k + 1 <= n /\ k + 1 \in Nat /\ k <= k + 1
    BY <1>2
  <2>2. (k + 1) * b <= n * b
    BY <1>2, <2>1, Multiples
  <2>3. k * b \in Nat /\ (k + 1) * b = k * b + b
    BY <2>1, Multiples
  <2>4. k * b < N
    BY ONLY b \in Nat, <1>1, <1>2, <2>2, <2>3
  <2> QED
    BY <2>3, <2>4
<1>5. ASSUME NEW i \in 1 .. n - 1 PROVE i * b < N
  <2>1. i + 1 \in 1 .. n /\ (i + 1) - 1 = i
    BY <1>2
  <2> QED
    BY <1>4, <2>1
<1> QED
  BY <1>1, <1>2, <1>3, <1>4, <1>5

LEMMA PlanBatchesTile == Tiles(PlanBatches, 1, N + 1)
<1>0. PICK n : n = (N + BatchRows - 1) \div BatchRows
  OBVIOUS
<1>1. /\ n \in Nat /\ n > 0 /\ n * BatchRows >= N
      /\ \A i \in 1 .. n : (i - 1) * BatchRows \in Nat /\ (i - 1) * BatchRows < N
      /\ \A i \in 1 .. n - 1 : i * BatchRows < N
  BY <1>0, Chunks
<1>2. PICK c : c = [i \in 1 .. n |->
                      [first |-> (i - 1) * BatchRows + 1,
                       len |-> Min({BatchRows, N - ((i - 1) * BatchRows + 1) + 1})]]
  OBVIOUS
<1>3. ASSUME NEW i \in 1 .. n
      PROVE  /\ c[i] \in Batches /\ c[i].first = (i - 1) * BatchRows + 1
             /\ c[i].first + c[i].len = IF i = n THEN N + 1 ELSE i * BatchRows + 1
  <2>1. PICK m : m = (i - 1) * BatchRows
    OBVIOUS
  <2>2. m \in Nat /\ m < N /\ N \in Nat /\ BatchRows \in Nat /\ BatchRows >= 1
    BY <1>1, <2>1, Bounds
  <2>3. c[i] = [first |-> m + 1, len |-> Min({BatchRows, N - (m + 1) + 1})]
    BY <1>2, <2>1
  <2>4. N - (m + 1) + 1 = N - m /\ N - m \in Nat
    BY <2>2
  <2>5. Min({BatchRows, N - m}) = IF BatchRows <= N - m THEN BatchRows ELSE N - m
    BY ONLY <2>2, <2>4, MinOfTwo
  <2>6. c[i].first = m + 1 /\ c[i].len = IF BatchRows <= N - m THEN BatchRows ELSE N - m
    BY <2>3, <2>4, <2>5
  <2>7. c[i] = [first |-> c[i].first, len |-> c[i].len]
    BY <2>3
  <2>8. c[i] \in Batches
    <3>1. c[i].first \in 1 .. N /\ c[i].len \in 1 .. N /\ c[i].first + c[i].len - 1 <= N
      BY ONLY <2>2, <2>6
    <3> QED
      BY ONLY <2>7, <3>1 DEF Batches
  <2>9. i * BatchRows = m + BatchRows
    <3>1. i - 1 \in Nat /\ (i - 1) + 1 = i
      OBVIOUS
    <3>2. ((i - 1) + 1) * BatchRows = (i - 1) * BatchRows + BatchRows
      BY ONLY <3>1, <2>2, Multiples
    <3> QED
      BY <2>1, <3>1, <3>2
  <2>10. CASE i = n
    <3>1. N <= m + BatchRows
      BY <1>1, <2>9, <2>10
    <3> QED
      BY <2>1, <2>2, <2>6, <2>8, <2>10, <3>1
  <2>11. CASE i # n
    <3>1. i \in 1 .. n - 1
      BY <1>1, <2>11
    <3>2. m + BatchRows < N
      BY <1>1, <2>9, <3>1
    <3> QED
      BY <2>1, <2>2, <2>6, <2>8, <2>9, <2>11, <3>2
  <2> QED
    BY <2>10, <2>11
<1>4. PICK s : s = [i \in 1 .. n |-> SplitToFit[c[i]]]
  OBVIOUS
<1>5. PlanBatches = FlattenSeq(s)
  <2>1. [i \in 1 .. n |-> SplitToFit[[first |-> (i - 1) * BatchRows + 1,
               len |-> Min({BatchRows, N - ((i - 1) * BatchRows + 1) + 1})]]] = s
    BY <1>2, <1>4
  <2> QED
    BY <1>0, <2>1, Zenon DEF PlanBatches
<1>6. Len(s) = n
  BY <1>1, <1>4
<1>7. PICK f : /\ FlattenSeq(s) = f[n]
               /\ \A i \in 1 .. n : f[i] = IF i = 1 THEN s[i] ELSE f[i - 1] \o s[i]
  BY <1>1, <1>6, FlattenEquation
<1>8. \A i \in 1 .. n : s[i] = SplitToFit[c[i]]
  BY <1>4
<1> DEFINE Bad == {i \in 1 .. n : ~ Tiles(f[i], 1, c[i].first + c[i].len)}
<1>9. Bad = {}
  <2> SUFFICES ASSUME Bad # {} PROVE FALSE
    OBVIOUS
  <2>1. PICK i : i \in Bad /\ \A k \in Bad : i <= k
    <3>1. Bad \subseteq Nat
      OBVIOUS
    <3> QED
      BY <3>1, LeastNumber
  <2>2. i \in 1 .. n /\ ~ Tiles(f[i], 1, c[i].first + c[i].len)
    BY <2>1
  <2>3. Tiles(s[i], c[i].first, c[i].first + c[i].len)
    BY <1>3, <1>8, <2>2, SplitTiles
  <2>4. CASE i = 1
    <3>1. c[1].first = 1
      <4>1. (1 - 1) * BatchRows + 1 = 1
        BY Bounds
      <4> QED
        BY <1>1, <1>3, <4>1
    <3>2. f[1] = s[1]
      BY <1>1, <1>7
    <3> QED
      BY <2>2, <2>3, <2>4, <3>1, <3>2
  <2>5. CASE i # 1
    <3>1. PICK k : k = i - 1
      OBVIOUS
    <3>2. k \in 1 .. n /\ k # n /\ ~ (i <= k)
      BY <1>1, <2>2, <2>5, <3>1
    <3>3. k \notin Bad
      BY <2>1, <3>2
    <3>4. Tiles(f[k], 1, c[k].first + c[k].len)
      BY <3>2, <3>3
    <3>5. c[k].first + c[k].len = c[i].first
      BY <1>3, <2>2, <3>1, <3>2
    <3>6. f[i] = f[k] \o s[i]
      BY <1>7, <2>2, <2>5, <3>1
    <3>7. PICK p : p = f[k]
      OBVIOUS
    <3>8. PICK q : q = s[i]
      OBVIOUS
    <3>9. PICK m : m = c[i].first
      OBVIOUS
    <3>10. PICK z : z = c[i].first + c[i].len
      OBVIOUS
    <3>11. m \in Int /\ z \in Int /\ 1 \in Int
      BY <1>3, <2>2, <3>9, <3>10, BatchesAre
    <3>12. Tiles(p, 1, m) /\ Tiles(q, m, z)
      BY <2>3, <3>4, <3>5, <3>7, <3>8, <3>9, <3>10
    <3>13. Tiles(p \o q, 1, z)
      BY ONLY <3>11, <3>12, TilesJoin
    <3> QED
      BY <2>2, <3>6, <3>7, <3>8, <3>10, <3>13
  <2> QED
    BY <2>4, <2>5
<1> HIDE DEF Bad
<1>10. Tiles(f[n], 1, c[n].first + c[n].len)
  <2>1. n \in 1 .. n /\ n \notin Bad
    BY <1>1, <1>9
  <2> QED
    BY <2>1 DEF Bad
<1>11. c[n].first + c[n].len = N + 1
  BY <1>1, <1>3
<1> QED
  BY <1>5, <1>7, <1>10, <1>11

LEMMA PlanOK ==
  /\ Plan \in Seq(Batches) /\ Len(Plan) > 0
  /\ Runner => Tiles(Plan, 1, N + 1)
<1>1. CASE work = "script"
  <2>1. PICK p : p = [i \in 1 .. N |-> [first |-> i, len |-> 1]]
    OBVIOUS
  <2>2. N \in Nat /\ N >= 1
    BY Bounds
  <2>3. \A i \in 1 .. N : [first |-> i, len |-> 1] \in Batches
    BY <2>2 DEF Batches
  <2>4. p \in Seq(Batches) /\ Len(p) = N
    BY <2>1, <2>2, <2>3
  <2> QED
    BY <1>1, <2>1, <2>2, <2>4 DEF Plan, Runner
<1>2. CASE work # "script"
  <2>1. Plan = PlanBatches
    BY <1>2 DEF Plan
  <2> QED
    BY <2>1, PlanBatchesTile DEF Tiles
<1> QED
  BY <1>1, <1>2

(* The runner halves a batch that turned out too large.                    *)
Halved(p, n) == SubSeq(p, 1, n) \o Half(p[n + 1]) \o SubSeq(p, n + 2, Len(p))

LEMMA HalvedIs ==
  ASSUME NEW p \in Seq(Batches), NEW n \in Nat, n < Len(p), p[n + 1].len > 1,
         NEW q, q = Halved(p, n), NEW h, h = Half(p[n + 1])
  PROVE  /\ q \in Seq(Batches) /\ Len(q) = Len(p) + 1
         /\ \A i \in 1 .. n : q[i] = p[i]
         /\ q[n + 1] = h[1] /\ q[n + 2] = h[2]
         /\ \A i \in n + 3 .. Len(p) + 1 : q[i] = p[i - 1]
<1>1. PICK l : l = Len(p)
  OBVIOUS
<1>2. l \in Nat /\ n + 1 \in 1 .. l /\ p[n + 1] \in Batches
  BY <1>1
<1>3. h \in Seq(Batches) /\ Len(h) = 2
  BY <1>2, Halves
<1>4. PICK a : a = SubSeq(p, 1, n)
  OBVIOUS
<1>5. a \in Seq(Batches) /\ Len(a) = n /\ \A i \in 1 .. n : a[i] = p[i]
  <2>1. \A i \in 1 .. n : p[i] \in Batches
    BY <1>1, <1>2
  <2>2. /\ a \in Seq(Batches) /\ Len(a) = IF 1 <= n THEN n - 1 + 1 ELSE 0
        /\ \A i \in 1 .. n - 1 + 1 : a[i] = p[1 + i - 1]
    BY <1>4, <2>1, SubSeqProperties
  <2> QED
    BY <2>2
<1>6. PICK c : c = SubSeq(p, n + 2, l)
  OBVIOUS
<1>7. c \in Seq(Batches) /\ Len(c) = l - n - 1 /\ \A i \in 1 .. l - n - 1 : c[i] = p[n + 1 + i]
  <2>1. \A i \in n + 2 .. l : p[i] \in Batches
    BY <1>1, <1>2
  <2>2. PICK m \in Int : m = n + 2
    OBVIOUS
  <2>3. /\ c \in Seq(Batches) /\ Len(c) = IF m <= l THEN l - m + 1 ELSE 0
        /\ \A i \in 1 .. l - m + 1 : c[i] = p[m + i - 1]
    BY <1>2, <1>6, <2>1, <2>2, SubSeqProperties
  <2>4. Len(c) = l - n - 1
    BY <1>2, <2>2, <2>3
  <2>5. ASSUME NEW i \in 1 .. l - n - 1 PROVE c[i] = p[n + 1 + i]
    <3>1. i \in 1 .. l - m + 1 /\ m + i - 1 = n + 1 + i
      BY <1>2, <2>2
    <3> QED
      BY <2>3, <3>1
  <2> QED
    BY <2>3, <2>4, <2>5
<1>8. PICK b : b = a \o h
  OBVIOUS
<1>9. /\ b \in Seq(Batches) /\ Len(b) = n + 2
      /\ \A i \in 1 .. n + 2 : b[i] = IF i <= n THEN a[i] ELSE h[i - n]
  <2>1. /\ b \in Seq(Batches) /\ Len(b) = Len(a) + Len(h)
        /\ \A i \in 1 .. Len(a) + Len(h) : b[i] = IF i <= Len(a) THEN a[i] ELSE h[i - Len(a)]
    BY ONLY <1>3, <1>5, <1>8, ConcatProperties
  <2> QED
    BY ONLY <1>3, <1>5, <2>1
<1>10. q = b \o c
  BY <1>1, <1>4, <1>6, <1>8 DEF Halved
<1>11. /\ q \in Seq(Batches) /\ Len(q) = l + 1
       /\ \A i \in 1 .. l + 1 : q[i] = IF i <= n + 2 THEN b[i] ELSE c[i - (n + 2)]
  <2>1. /\ q \in Seq(Batches) /\ Len(q) = Len(b) + Len(c)
        /\ \A i \in 1 .. Len(b) + Len(c) : q[i] = IF i <= Len(b) THEN b[i] ELSE c[i - Len(b)]
    BY ONLY <1>7, <1>9, <1>10, ConcatProperties
  <2>2. (n + 2) + (l - n - 1) = l + 1
    BY <1>2
  <2> QED
    BY ONLY <1>7, <1>9, <2>1, <2>2
<1>12. \A i \in 1 .. n : q[i] = p[i]
  BY <1>2, <1>5, <1>9, <1>11
<1>13. q[n + 1] = h[1] /\ q[n + 2] = h[2]
  <2>1. n + 1 \in 1 .. n + 2 /\ n + 2 \in 1 .. n + 2 /\ n + 1 - n = 1 /\ n + 2 - n = 2
    OBVIOUS
  <2>2. b[n + 1] = h[1] /\ b[n + 2] = h[2]
    BY <1>9, <2>1
  <2>3. n + 1 \in 1 .. l + 1 /\ n + 2 \in 1 .. l + 1
    BY <1>2
  <2> QED
    BY <1>11, <2>1, <2>2, <2>3
<1>14. ASSUME NEW i \in n + 3 .. l + 1 PROVE q[i] = p[i - 1]
  <2>1. i \in 1 .. l + 1 /\ ~ (i <= n + 2) /\ i - (n + 2) \in 1 .. l - n - 1
        /\ n + 1 + (i - (n + 2)) = i - 1
    BY <1>2
  <2> QED
    BY <1>7, <1>11, <2>1
<1> QED
  BY <1>1, <1>11, <1>12, <1>13, <1>14

LEMMA HalvedTiles ==
  ASSUME NEW p, NEW a, NEW z, Tiles(p, a, z), NEW n \in Nat, n < Len(p), p[n + 1].len > 1,
         NEW q, q = Halved(p, n)
  PROVE  Tiles(q, a, z)
<1>1. PICK l : l = Len(p)
  OBVIOUS
<1>2. /\ p \in Seq(Batches) /\ l \in Nat /\ n + 1 \in 1 .. l /\ p[n + 1] \in Batches
      /\ \A i \in 1 .. l : p[i] \in Batches
  BY <1>1 DEF Tiles
<1>3. PICK h : h = Half(p[n + 1])
  OBVIOUS
<1>4. /\ q \in Seq(Batches) /\ Len(q) = l + 1
      /\ \A i \in 1 .. n : q[i] = p[i]
      /\ q[n + 1] = h[1] /\ q[n + 2] = h[2]
      /\ \A i \in n + 3 .. l + 1 : q[i] = p[i - 1]
  <2>1. p \in Seq(Batches) /\ n \in Nat /\ n < Len(p) /\ p[n + 1].len > 1
    BY <1>2
  <2>2. q = Halved(p, n) /\ h = Half(p[n + 1])
    BY <1>3
  <2>3. /\ q \in Seq(Batches) /\ Len(q) = Len(p) + 1
        /\ \A i \in 1 .. n : q[i] = p[i]
        /\ q[n + 1] = h[1] /\ q[n + 2] = h[2]
        /\ \A i \in n + 3 .. Len(p) + 1 : q[i] = p[i - 1]
    BY ONLY <2>1, <2>2, HalvedIs
  <2> QED
    BY ONLY <1>1, <2>3
<1>5. PICK x : x = h[1]
  OBVIOUS
<1>6. PICK y : y = h[2]
  OBVIOUS
<1>7. PICK b : b = p[n + 1]
  OBVIOUS
<1>8. /\ x \in Batches /\ y \in Batches /\ x.first = b.first /\ y.first = b.first + x.len
      /\ y.len = b.len - x.len
  BY <1>2, <1>3, <1>5, <1>6, <1>7, Halves
<1>9. /\ b.first \in Nat /\ b.len \in Nat /\ x.first \in Nat /\ x.len \in Nat
      /\ y.first \in Nat /\ y.len \in Nat /\ x.len >= 1 /\ y.len >= 1
  BY <1>2, <1>7, <1>8, BatchesAre
<1>10. /\ x.first + x.len = y.first /\ y.first + y.len = b.first + b.len
  BY ONLY <1>8, <1>9
<1>11. /\ p[1].first = a /\ p[l].first + p[l].len = z
       /\ \A i \in 1 .. l - 1 : p[i + 1].first = p[i].first + p[i].len
       /\ \A i, k \in 1 .. l : i < k => p[i].first + p[i].len <= p[k].first
       /\ \A r \in a .. z - 1 : \E i \in 1 .. l : r \in Rows(p[i])
  BY <1>1 DEF Tiles
<1>12. q[1].first = a
  <2>1. CASE n = 0
    BY <1>4, <1>5, <1>7, <1>8, <1>11, <2>1
  <2>2. CASE n # 0
    <3>1. 1 \in 1 .. n
      BY <2>2
    <3>2. q[1] = p[1]
      BY ONLY <1>4, <3>1
    <3> QED
      BY <1>11, <3>2
  <2> QED
    BY <2>1, <2>2
<1>13. q[l + 1].first + q[l + 1].len = z
  <2>1. CASE n + 2 = l + 1
    <3>1. n + 1 = l
      BY <1>2, <2>1
    <3> QED
      BY <1>4, <1>6, <1>7, <1>10, <1>11, <2>1, <3>1
  <2>2. CASE n + 2 # l + 1
    <3>1. l + 1 \in n + 3 .. l + 1 /\ l + 1 - 1 = l
      BY <1>2, <2>2
    <3> PICK k : k = l + 1
      OBVIOUS
    <3>2. q[k] = p[k - 1] /\ k - 1 = l
      BY ONLY <1>2, <1>4, <3>1, k = l + 1
    <3> QED
      BY <1>11, <3>2
  <2> QED
    BY <2>1, <2>2
<1>14. ASSUME NEW i \in 1 .. l PROVE q[i + 1].first = q[i].first + q[i].len
  <2>1. CASE i < n
    <3>1. i \in 1 .. n /\ i + 1 \in 1 .. n /\ i \in 1 .. l - 1
      BY <1>2, <2>1
    <3> QED
      BY <1>4, <1>11, <3>1
  <2>2. CASE i = n
    <3>1. i \in 1 .. n /\ i \in 1 .. l - 1
      BY <1>2, <2>2
    <3> QED
      BY <1>4, <1>5, <1>7, <1>8, <1>11, <2>2, <3>1
  <2>3. CASE i = n + 1
    <3>1. i + 1 = n + 2
      BY <2>3
    <3> QED
      BY <1>4, <1>5, <1>6, <1>10, <2>3, <3>1
  <2>4. CASE i = n + 2
    <3>1. i + 1 \in n + 3 .. l + 1 /\ i + 1 - 1 = (n + 1) + 1 /\ n + 1 \in 1 .. l - 1
      BY <1>2, <2>4
    <3>2. q[i + 1] = p[(n + 1) + 1]
      BY <1>4, <3>1
    <3> QED
      BY <1>4, <1>6, <1>7, <1>10, <1>11, <2>4, <3>1, <3>2
  <2>5. CASE i > n + 2
    <3>1. /\ i + 1 \in n + 3 .. l + 1 /\ i \in n + 3 .. l + 1 /\ i - 1 \in 1 .. l - 1
          /\ i + 1 - 1 = (i - 1) + 1
      BY <1>2, <2>5
    <3>2. q[i + 1] = p[(i - 1) + 1] /\ q[i] = p[i - 1]
      BY ONLY <1>4, <3>1
    <3>3. p[(i - 1) + 1].first = p[i - 1].first + p[i - 1].len
      BY ONLY <1>11, <3>1
    <3> QED
      BY ONLY <3>2, <3>3
  <2> QED
    BY <1>2, <2>1, <2>2, <2>3, <2>4, <2>5
<1>15. PICK src : src = [i \in 1 .. l + 1 |-> IF i <= n + 1 THEN i ELSE i - 1]
  OBVIOUS
<1>16. ASSUME NEW i \in 1 .. l + 1
       PROVE  /\ src[i] \in 1 .. l /\ q[i] \in Batches
              /\ p[src[i]].first <= q[i].first
              /\ q[i].first + q[i].len <= p[src[i]].first + p[src[i]].len
  <2>0. src[i] = IF i <= n + 1 THEN i ELSE i - 1
    BY <1>15
  <2>1. CASE i <= n
    <3>1. i \in 1 .. n /\ i \in 1 .. l /\ src[i] = i
      BY <1>2, <2>0, <2>1
    <3>2. q[i] = p[i] /\ p[i] \in Batches
      BY <1>2, <1>4, <3>1
    <3>3. p[i].first \in Nat /\ p[i].len \in Nat
      BY <3>2, BatchesAre
    <3> QED
      BY <3>1, <3>2, <3>3
  <2>2. CASE i = n + 1
    <3>1. src[i] = n + 1 /\ q[i] = x
      BY <1>4, <1>5, <2>0, <2>2
    <3>2. b.first <= x.first /\ x.first + x.len <= b.first + b.len
      BY ONLY <1>8, <1>9, <1>10
    <3> QED
      BY <1>2, <1>7, <1>8, <3>1, <3>2
  <2>3. CASE i = n + 2
    <3>1. src[i] = n + 1 /\ q[i] = y
      BY <1>4, <1>6, <2>0, <2>3
    <3>2. b.first <= y.first /\ y.first + y.len <= b.first + b.len
      BY ONLY <1>8, <1>9, <1>10
    <3> QED
      BY <1>2, <1>7, <1>8, <3>1, <3>2
  <2>4. CASE i > n + 2
    <3>1. i \in n + 3 .. l + 1 /\ i - 1 \in 1 .. l /\ src[i] = i - 1
      BY <1>2, <2>0, <2>4
    <3>2. q[i] = p[i - 1] /\ p[i - 1] \in Batches
      BY <1>2, <1>4, <3>1
    <3>3. p[i - 1].first \in Nat /\ p[i - 1].len \in Nat
      BY <3>2, BatchesAre
    <3> QED
      BY <3>1, <3>2, <3>3
  <2> QED
    BY <1>2, <2>1, <2>2, <2>3, <2>4
<1>17. ASSUME NEW i \in 1 .. l + 1, NEW k \in 1 .. l + 1, i < k
       PROVE  q[i].first + q[i].len <= q[k].first
  <2>0. src[i] = (IF i <= n + 1 THEN i ELSE i - 1) /\ src[k] = (IF k <= n + 1 THEN k ELSE k - 1)
    BY <1>15
  <2>1. CASE i = n + 1 /\ k = n + 2
    <3>1. q[i] = x /\ q[k] = y
      BY <1>4, <1>5, <1>6, <2>1
    <3> QED
      BY <1>9, <1>10, <3>1
  <2>2. CASE ~ (i = n + 1 /\ k = n + 2)
    <3>1. src[i] < src[k] /\ src[i] \in 1 .. l /\ src[k] \in 1 .. l
      BY <1>2, <1>16, <1>17, <2>0, <2>2
    <3>2. p[src[i]].first + p[src[i]].len <= p[src[k]].first
      BY <1>11, <3>1
    <3>3. /\ p[src[i]].first + p[src[i]].len \in Int /\ p[src[k]].first \in Int
          /\ q[i].first + q[i].len \in Int /\ q[k].first \in Int
      <4>1. p[src[i]] \in Batches /\ p[src[k]] \in Batches /\ q[i] \in Batches /\ q[k] \in Batches
        BY <1>2, <1>16, <3>1
      <4>2. \A c \in Batches : c.first \in Int /\ c.first + c.len \in Int
        BY BatchesAre
      <4> QED
        BY ONLY <4>1, <4>2
    <3>4. q[i].first + q[i].len <= p[src[i]].first + p[src[i]].len /\ p[src[k]].first <= q[k].first
      BY <1>16
    <3> QED
      BY ONLY <3>2, <3>3, <3>4
  <2> QED
    BY <2>1, <2>2
<1>18. ASSUME NEW r \in a .. z - 1 PROVE \E i \in 1 .. l + 1 : r \in Rows(q[i])
  <2>1. PICK i \in 1 .. l : r \in Rows(p[i])
    BY <1>11
  <2>2. CASE i <= n
    <3>1. i \in 1 .. n /\ i \in 1 .. l + 1
      BY <1>2, <2>2
    <3> QED
      BY <1>4, <2>1, <3>1
  <2>3. CASE i = n + 1
    <3>1. r \in Int /\ b.first <= r /\ r < b.first + b.len
      BY <1>2, <1>7, <2>1, <2>3, BatchesAre
    <3>2. r \in Rows(x) \/ r \in Rows(y)
      <4>1. (x.first <= r /\ r < x.first + x.len) \/ (y.first <= r /\ r < y.first + y.len)
        BY ONLY <1>8, <1>9, <1>10, <3>1
      <4> QED
        BY <1>8, <3>1, <4>1, BatchesAre
    <3>3. n + 1 \in 1 .. l + 1 /\ n + 2 \in 1 .. l + 1
      BY <1>2
    <3> QED
      BY <1>4, <1>5, <1>6, <3>2, <3>3
  <2>4. CASE i > n + 1
    <3>1. i + 1 \in n + 3 .. l + 1 /\ i + 1 \in 1 .. l + 1 /\ i + 1 - 1 = i
      BY <1>2, <2>4
    <3>2. q[i + 1] = p[i]
      BY <1>4, <3>1
    <3> QED
      BY <2>1, <3>1, <3>2
  <2> QED
    BY <1>2, <2>2, <2>3, <2>4
<1>19. Len(q) > 0 /\ l + 1 - 1 = l
  BY <1>2, <1>4
<1>20. PICK m : m = Len(q)
  OBVIOUS
<1>21. /\ m = l + 1 /\ q[m].first + q[m].len = z
       /\ \A i \in 1 .. m - 1 : q[i + 1].first = q[i].first + q[i].len
       /\ \A i, k \in 1 .. m : i < k => q[i].first + q[i].len <= q[k].first
       /\ \A r \in a .. z - 1 : \E i \in 1 .. m : r \in Rows(q[i])
  <2>0. m = l + 1
    BY ONLY <1>4, <1>20
  <2>1. m = l + 1 /\ 1 .. m - 1 = 1 .. l
    BY ONLY <1>2, <2>0
  <2>2. \A i \in 1 .. m - 1 : q[i + 1].first = q[i].first + q[i].len
    BY ONLY <1>14, <2>1
  <2> QED
    BY ONLY <1>13, <1>17, <1>18, <2>1, <2>2
<1> QED
  BY ONLY <1>4, <1>12, <1>19, <1>20, <1>21, TilesIs

-----------------------------------------------------------------------------
(* The requests that create a job and set its mapping.                     *)
LEMMA AtSlot ==
  ASSUME ReqsOK, NEW s \in Slots
  PROVE  reqs[s] \in Request /\ Carries(reqs[s], Jobs) /\ Belongs(reqs[s], work)
BY DEF ReqsOK, Fits

LEMMA FreeSlot ==
  ASSUME UpOK, NEW s \in Slots, Free(s) PROVE up.req # s /\ reqs[s] = NoReq
BY Bounds DEF UpOK, Waits, NoReq, Free

LEMMA Sent ==
  ASSUME ReqsOK, UpOK, NEW s \in Slots, NEW t, reqs' = [reqs EXCEPT ![s] = t],
         up' = [up EXCEPT !.req = s], work' = work, Jobs' = Jobs,
         Fits(t, Jobs, work), Waits(up, t, work)
  PROVE  ReqsOK' /\ UpOK'
<1>1. ReqsOK' /\ reqs'[s] = t
  BY SlotChange
<1> PICK u : u = [up EXCEPT !.req = s]
  OBVIOUS
<1>2. /\ u \in Upload /\ u.pc = up.pc /\ u.req = s /\ u.job = up.job
      /\ u.plan = up.plan /\ u.next = up.next
  BY DEF UpOK, UpFits, Upload
<1>3. UpFits(u, Jobs, work)
  BY <1>2 DEF UpOK, UpFits, Waits
<1>4. Waits(u, t, work)
  BY <1>2 DEF Waits
<1> QED
  BY <1>1, <1>2, <1>3, <1>4 DEF UpOK

(* A job changes or is new.                                                *)
LEMMA SetJob ==
  ASSUME StoreOK, NEW j \in Ids, NEW x \in Job, jobs' = [jobs EXCEPT ![j] = x],
         UNCHANGED <<stored, rejects>>
  PROVE  StoreOK' /\ Jobs' = Jobs \cup {j} /\ jobs'[j] = x
         /\ \A i \in Ids \ {j} : jobs'[i] = jobs[i]
<1>1. /\ jobs' \in [Ids -> Job \cup {None}] /\ jobs'[j] = x
      /\ \A i \in Ids \ {j} : jobs'[i] = jobs[i]
  BY DEF StoreOK
<1>2. Jobs' = Jobs \cup {j}
  BY <1>1, ImportAssumption DEF Jobs
<1> QED
  BY <1>1, <1>2 DEF StoreOK

LEMMA NewJobOK ==
  ASSUME NEW kind \in {"file", "sample"}, NEW total \in Nat, NEW day \in Days,
         NEW x, x = NewJob(kind, total, day)
  PROVE  /\ x \in Job /\ x.kind = kind /\ x.status = "RECEIVING" /\ x.total = total
         /\ x.received = 0 /\ x.upserted = 0 /\ x.skipped = 0 /\ x.rejected = 0
         /\ x.day = day
BY DEF NewJob, Job, Status

LEMMA StartCreateKeeps ==
  ASSUME Shape, NEW s \in Slots, StartCreate(s) PROVE Shape'
<1> USE DEF Shape
<1> PICK t : t = [NoReq EXCEPT !.kind = "create", !.pc = "stats"]
  OBVIOUS
<1>1. /\ reqs' = [reqs EXCEPT ![s] = t] /\ up' = [up EXCEPT !.req = s]
      /\ up.pc = "create" /\ UNCHANGED <<jobVars, quotas, space, env>>
  BY DEF StartCreate
<1>2. StoreOK' /\ Jobs' = Jobs /\ SpaceOK'
  BY <1>1, SameStore, SameSpace DEF space, env
<1>3. t \in Request /\ t.kind = "create" /\ t.pc = "stats"
  <2>1. NoReq \in Request
    BY NoReqFits DEF Fits
  <2> QED
    BY <2>1 DEF Request, CreatePcs
<1>4. work # "sample"
  BY <1>1 DEF UpOK, UpFits
<1>5. Fits(t, Jobs, work)
  BY <1>3, <1>4 DEF Fits, Carries, Belongs, CreatePcs
<1>6. Waits(up, t, work)
  BY <1>1, <1>3 DEF Waits
<1> QED
  BY <1>1, <1>2, <1>5, <1>6, Sent DEF env

LEMMA CreateStatsKeeps ==
  ASSUME Shape, NEW s \in Slots, CreateStats(s) PROVE Shape'
<1> USE DEF Shape
<1> PICK r : r = reqs[s]
  OBVIOUS
<1>1. /\ r.kind = "create" /\ UNCHANGED <<jobVars, quotas, space, env>>
      /\ AnswerError(s, FALSE) \/ (Goto(s, "take") /\ UNCHANGED up)
  BY DEF CreateStats
<1>2. StoreOK' /\ Jobs' = Jobs /\ SpaceOK' /\ work' = work
  BY <1>1, SameStore, SameSpace DEF space, env
<1>3. CASE AnswerError(s, FALSE)
  BY <1>2, <1>3, ErrorAnswered
<1>4. CASE Goto(s, "take") /\ UNCHANGED up
  <2> PICK t : t = [r EXCEPT !.pc = "take"]
    OBVIOUS
  <2>1. reqs' = [reqs EXCEPT ![s] = t]
    BY <1>4 DEF Goto
  <2>2. t \in Request /\ t.pc = "take" /\ t.kind = r.kind /\ t.job = r.job
        /\ t.seq = r.seq /\ t.first = r.first /\ t.len = r.len
    BY AtSlot, Moved DEF CreatePcs
  <2>3. Fits(t, Jobs, work)
    BY <1>1, <2>2, AtSlot DEF Fits, Carries, Belongs, CreatePcs
  <2> QED
    BY <1>2, <1>4, <2>1, <2>2, <2>3, GoesOn
<1> QED
  BY <1>1, <1>3, <1>4

LEMMA CreateTakeKeeps ==
  ASSUME Shape, NEW s \in Slots, CreateTake(s) PROVE Shape'
<1> USE DEF Shape
<1> PICK r : r = reqs[s]
  OBVIOUS
<1>1. r.kind = "create" /\ UNCHANGED <<jobVars, space, env, seeds>>
  BY DEF CreateTake
<1>2. StoreOK' /\ Jobs' = Jobs /\ work' = work
  BY <1>1, SameStore DEF env
<1>3. CASE usage[today] + N > DailyRows
  <2>1. AnswerError(s, FALSE) /\ UNCHANGED usage
    BY <1>3 DEF CreateTake
  <2>2. SpaceOK'
    BY <1>1, <2>1, SameSpace DEF space, env, quotas
  <2> QED
    BY <1>2, <2>1, <2>2, ErrorAnswered
<1>4. CASE ~ (usage[today] + N > DailyRows)
  <2> PICK t : t = [r EXCEPT !.pc = "insert", !.day = today]
    OBVIOUS
  <2>1. /\ usage' = [usage EXCEPT ![today] = @ + N] /\ up' = up
        /\ reqs' = [reqs EXCEPT ![s] = t]
    BY <1>4 DEF CreateTake
  <2>2. t \in Request /\ t.pc = "insert" /\ t.kind = r.kind /\ t.job = r.job
        /\ t.seq = r.seq /\ t.first = r.first /\ t.len = r.len
    <3>1. today \in Days
      BY DEF SpaceOK
    <3>2. r \in Request /\ t = [r EXCEPT !.pc = "insert", !.day = today]
      BY AtSlot
    <3> QED
      BY ONLY <3>1, <3>2 DEF Request, CreatePcs
  <2>3. Fits(t, Jobs, work)
    BY <1>1, <2>2, AtSlot DEF Fits, Carries, Belongs, CreatePcs
  <2>4. SpaceOK'
    <3>1. usage' \in [Days -> 0 .. DailyRows]
      BY <1>4, <2>1, Bounds DEF SpaceOK
    <3> QED
      BY <1>1, <3>1 DEF SpaceOK, space, env
  <2> QED
    BY <1>2, <2>1, <2>2, <2>3, <2>4, GoesOn
<1> QED
  BY <1>3, <1>4

LEMMA CreateInsertKeeps ==
  ASSUME Shape, NEW s \in Slots, CreateInsert(s) PROVE Shape'
<1> USE DEF Shape
<1> PICK r : r = reqs[s]
  OBVIOUS
<1>1. r.kind = "create" /\ End(s) /\ UNCHANGED <<quotas, space, env, stored, rejects>>
  BY DEF CreateInsert
<1>2. PICK j \in Ids \ Jobs :
        /\ jobs' = [jobs EXCEPT ![j] = NewJob("file", N, r.day)]
        /\ AnswerOk(s, [up EXCEPT !.pc = "mapping", !.req = None, !.job = j])
  BY DEF CreateInsert
<1>3. NewJob("file", N, r.day) \in Job
  BY AtSlot, NewJobOK, Bounds DEF Request
<1>4. StoreOK' /\ Jobs' = Jobs \cup {j} /\ Jobs \subseteq Jobs' /\ j \in Jobs'
  BY <1>1, <1>2, <1>3, SetJob
<1>5. SpaceOK' /\ work' = work /\ reqs' = [reqs EXCEPT ![s] = NoReq]
  BY <1>1, SameSpace DEF space, env, End
<1>6. ReqsOK' /\ reqs'[s] = NoReq /\ \A o \in Slots \ {s} : reqs'[o] = reqs[o]
  BY <1>4, <1>5, NoReqFits, SlotChange
<1>7. CASE Awaited(s)
  <2> PICK u : u = [up EXCEPT !.pc = "mapping", !.req = None, !.job = j]
    OBVIOUS
  <2>1. up' = u
    BY <1>2, <1>7 DEF AnswerOk
  <2>2. up.pc = "create" /\ up \in Upload /\ up.job = None /\ up.plan # <<>>
    BY <1>1, <1>7, Answered DEF Waits, UpOK, UpFits
  <2>3. /\ u \in Upload /\ u.pc = "mapping" /\ u.req = None /\ u.job = j
        /\ u.plan = up.plan /\ u.next = up.next
    BY <2>2 DEF Upload
  <2>4. UpFits(u, Jobs', work')
    <3>1. j # None
      BY Bounds
    <3>2. up.next <= Len(up.plan) /\ (work = "sample" => up.pc = "idle")
      BY DEF UpOK, UpFits
    <3> QED
      BY <1>4, <1>5, <2>2, <2>3, <3>1, <3>2 DEF UpFits
  <2> QED
    BY <1>4, <1>5, <1>6, <2>1, <2>3, <2>4, UpFree
<1>8. CASE ~ Awaited(s)
  <2>1. up' = up /\ (up.req # None => up.req \in Slots \ {s})
    BY <1>2, <1>8 DEF AnswerOk, Awaited, UpOK, UpFits, Upload
  <2>2. UpOK'
    BY <1>4, <1>5, <1>6, <2>1, UpKept
  <2> QED
    BY <1>4, <1>5, <1>6, <2>2
<1> QED
  BY <1>7, <1>8

LEMMA CreateUndoKeeps ==
  ASSUME Shape, NEW s \in Slots, CreateUndo(s) PROVE Shape'
<1> USE DEF Shape
<1> PICK r : r = reqs[s]
  OBVIOUS
<1>1. /\ AnswerError(s, TRUE) /\ UNCHANGED <<jobVars, space, seeds, clear, today, work>>
      /\ usage' = [usage EXCEPT ![r.day] = @ - Min({@, N})]
  BY DEF CreateUndo
<1>2. StoreOK' /\ Jobs' = Jobs
  BY <1>1, SameStore
<1>3. r.day \in Days /\ usage[r.day] \in 0 .. DailyRows
  BY AtSlot DEF Request, SpaceOK
<1>4. usage[r.day] - Min({usage[r.day], N}) \in 0 .. DailyRows
  <2> PICK x : x = usage[r.day]
    OBVIOUS
  <2>1. x \in Nat /\ x <= DailyRows /\ N \in Nat /\ DailyRows \in Nat
    BY <1>3, Bounds
  <2>2. Min({x, N}) \in {x, N} /\ Min({x, N}) <= x
    BY <2>1, MinOfTwo
  <2> QED
    BY <2>1, <2>2
<1>5. SpaceOK'
  <2>1. usage' \in [Days -> 0 .. DailyRows]
    BY <1>1, <1>3, <1>4 DEF SpaceOK
  <2> QED
    BY <1>1, <2>1 DEF SpaceOK, space
<1> QED
  BY <1>1, <1>2, <1>5, ErrorAnswered

LEMMA StartMappingKeeps ==
  ASSUME Shape, NEW s \in Slots, StartMapping(s) PROVE Shape'
<1> USE DEF Shape
<1> PICK t : t = [NoReq EXCEPT !.kind = "mapping", !.pc = "read", !.job = up.job]
  OBVIOUS
<1>1. /\ reqs' = [reqs EXCEPT ![s] = t] /\ up' = [up EXCEPT !.req = s]
      /\ up.pc = "mapping" /\ UNCHANGED <<jobVars, quotas, space, env>>
  BY DEF StartMapping
<1>2. StoreOK' /\ Jobs' = Jobs /\ SpaceOK'
  BY <1>1, SameStore, SameSpace DEF space, env
<1>3. up.job \in Jobs /\ work # "sample" /\ up.job \in Ids
  BY <1>1 DEF UpOK, UpFits, Jobs
<1>4. t \in Request /\ t.kind = "mapping" /\ t.pc = "read" /\ t.job = up.job
  <2>1. NoReq \in Request
    BY NoReqFits DEF Fits
  <2> QED
    BY <1>3, <2>1 DEF Request, MappingPcs
<1>5. Fits(t, Jobs, work)
  BY <1>3, <1>4 DEF Fits, Carries, Belongs, MappingPcs
<1>6. Waits(up, t, work)
  BY <1>1, <1>4 DEF Waits
<1> QED
  BY <1>1, <1>2, <1>5, <1>6, Sent DEF env

LEMMA MappingReadKeeps ==
  ASSUME Shape, NEW s \in Slots, MappingRead(s) PROVE Shape'
<1> USE DEF Shape
<1> PICK r : r = reqs[s]
  OBVIOUS
<1>1. /\ r.kind = "mapping" /\ UNCHANGED <<jobVars, quotas, space, env>>
      /\ AnswerError(s, FALSE) \/ (Goto(s, "set") /\ UNCHANGED up)
  BY DEF MappingRead
<1>2. StoreOK' /\ Jobs' = Jobs /\ SpaceOK' /\ work' = work
  BY <1>1, SameStore, SameSpace DEF space, env
<1>3. CASE AnswerError(s, FALSE)
  BY <1>2, <1>3, ErrorAnswered
<1>4. CASE Goto(s, "set") /\ UNCHANGED up
  <2> PICK t : t = [r EXCEPT !.pc = "set"]
    OBVIOUS
  <2>1. reqs' = [reqs EXCEPT ![s] = t]
    BY <1>4 DEF Goto
  <2>2. t \in Request /\ t.pc = "set" /\ t.kind = r.kind /\ t.job = r.job
        /\ t.seq = r.seq /\ t.first = r.first /\ t.len = r.len
    <3>1. "set" \in MappingPcs /\ r \in Request
      BY AtSlot DEF MappingPcs
    <3> QED
      BY <3>1, Moved
  <2>3. Fits(t, Jobs, work)
    BY <1>1, <2>2, AtSlot DEF Fits, Carries, Belongs, MappingPcs
  <2> QED
    BY <1>2, <1>4, <2>1, <2>2, <2>3, GoesOn
<1> QED
  BY <1>1, <1>3, <1>4

LEMMA MappingSetKeeps ==
  ASSUME Shape, NEW s \in Slots, MappingSet(s) PROVE Shape'
<1> USE DEF Shape
<1> PICK r : r = reqs[s]
  OBVIOUS
<1> PICK j : j = r.job
  OBVIOUS
<1>1. r.kind = "mapping" /\ UNCHANGED <<quotas, space, env, stored, rejects>>
  BY DEF MappingSet
<1>2. SpaceOK' /\ work' = work
  BY <1>1, SameSpace DEF space, env
<1>3. j \in Jobs /\ j \in Ids /\ jobs[j] \in Job
  BY <1>1, AtSlot DEF Carries, Jobs, StoreOK
<1>4. CASE jobs[j].received > 0
  <2>1. AnswerError(s, FALSE) /\ UNCHANGED jobs
    BY <1>4 DEF MappingSet
  <2>2. StoreOK' /\ Jobs' = Jobs
    BY <1>1, <2>1, SameStore DEF jobVars
  <2> QED
    BY <1>2, <2>1, <2>2, ErrorAnswered
<1>5. CASE ~ (jobs[j].received > 0)
  <2> PICK x : x = [jobs[j] EXCEPT !.mapped = TRUE, !.stale = FALSE]
    OBVIOUS
  <2>1. /\ jobs' = [jobs EXCEPT ![j] = x] /\ End(s)
        /\ AnswerOk(s, [up EXCEPT !.pc = "batches", !.req = None, !.mapped = TRUE,
                          !.attempt = 0])
    BY <1>5, Zenon DEF MappingSet
  <2>2. x \in Job
    BY <1>3 DEF Job
  <2>3. StoreOK' /\ Jobs' = Jobs
    <3>1. /\ StoreOK /\ j \in Ids /\ x \in Job /\ jobs' = [jobs EXCEPT ![j] = x]
          /\ UNCHANGED <<stored, rejects>>
      BY <1>1, <1>3, <2>1, <2>2 DEF Jobs
    <3>2. StoreOK' /\ Jobs' = Jobs \cup {j}
      BY ONLY <3>1, SetJob
    <3> QED
      BY <1>3, <3>2
  <2>4. reqs' = [reqs EXCEPT ![s] = NoReq]
    BY <2>1 DEF End
  <2>5. ReqsOK' /\ reqs'[s] = NoReq /\ \A o \in Slots \ {s} : reqs'[o] = reqs[o]
    BY <1>2, <2>3, <2>4, NoReqFits, SlotChange
  <2>6. CASE Awaited(s)
    <3> PICK m : m = [up EXCEPT !.pc = "batches", !.req = None]
      OBVIOUS
    <3> PICK u : u = [m EXCEPT !.mapped = TRUE, !.attempt = 0]
      OBVIOUS
    <3>1. up' = u
      <4>1. up' = [up EXCEPT !.pc = "batches", !.req = None, !.mapped = TRUE, !.attempt = 0]
        BY <2>1, <2>6 DEF AnswerOk
      <4> QED
        BY <4>1
    <3>2. up.pc = "mapping" /\ up \in Upload /\ up.job # None /\ up.plan # <<>>
          /\ 0 \in 0 .. Retries
      <4>1. Waits(up, r, work)
        BY <2>6, Answered
      <4> QED
        BY <1>1, <4>1, Bounds DEF Waits, UpOK, UpFits
    <3>3. /\ m \in Upload /\ m.pc = "batches" /\ m.req = None /\ m.job = up.job
          /\ m.plan = up.plan /\ m.next = up.next
      BY <3>2 DEF Upload
    <3>4. /\ u \in Upload /\ u.pc = "batches" /\ u.req = None /\ u.job = up.job
          /\ u.plan = up.plan /\ u.next = up.next
      BY <3>2, <3>3 DEF Upload
    <3>5. UpFits(u, Jobs, work)
      BY <3>2, <3>4 DEF UpFits, UpOK
    <3> QED
      BY <1>2, <2>3, <2>5, <3>1, <3>4, <3>5, UpFree
  <2>7. CASE ~ Awaited(s)
    <3>1. up' = up /\ (up.req # None => up.req \in Slots \ {s})
      BY <2>1, <2>7 DEF AnswerOk, Awaited, UpOK, UpFits, Upload
    <3>2. UpOK'
      BY <1>2, <2>3, <2>5, <3>1, UpKept
    <3> QED
      BY <1>2, <2>3, <2>5, <3>2
  <2> QED
    BY <2>6, <2>7
<1> QED
  BY <1>4, <1>5

-----------------------------------------------------------------------------
(* The requests that import a batch.                                       *)
LEMMA BatchReqFits ==
  ASSUME Shape, up.pc = "batches", NEW n \in Nat, n < Len(up.plan),
         NEW t, t = BatchReq(n)
  PROVE  /\ Fits(t, Jobs, work) /\ t.kind = "batch" /\ t.pc = "job"
         /\ t.job = up.job /\ t.seq = n /\ t.last = (n = Len(up.plan) - 1)
         /\ up.plan[n + 1] = [first |-> t.first, len |-> t.len]
<1> USE DEF Shape
<1> PICK b : b = up.plan[n + 1]
  OBVIOUS
<1>1. /\ up.job \in Jobs /\ up.job \in Ids /\ work # "sample"
      /\ up.plan \in Seq(Batches) /\ b \in Batches
  BY DEF UpOK, UpFits, Upload, Jobs
<1>2. t = [NoReq EXCEPT !.kind = "batch", !.pc = "job", !.job = up.job, !.seq = n,
             !.first = b.first, !.len = b.len, !.last = (n = Len(up.plan) - 1)]
  BY DEF BatchReq
<1>3. NoReq \in Request
  BY NoReqFits DEF Fits
<1>4. /\ b.first \in Nat /\ b.len \in Nat /\ b.first >= 1 /\ b.len >= 1
      /\ b.first + b.len - 1 <= N /\ b = [first |-> b.first, len |-> b.len]
  BY <1>1, BatchesAre
<1>5. /\ t \in Request /\ t.kind = "batch" /\ t.pc = "job"
      /\ t.job = up.job /\ t.seq = n /\ t.last = (n = Len(up.plan) - 1)
      /\ t.first = b.first /\ t.len = b.len
  <2>1. PICK e : e = (n = Len(up.plan) - 1)
    OBVIOUS
  <2>2. PICK q : q = [NoReq EXCEPT !.kind = "batch", !.pc = "job", !.job = up.job]
    OBVIOUS
  <2>3. PICK k : k = [q EXCEPT !.seq = n, !.first = b.first, !.len = b.len]
    OBVIOUS
  <2>4. q \in Request /\ q.kind = "batch" /\ q.pc = "job" /\ q.job = up.job
    BY ONLY <1>1, <1>3, <2>2 DEF Request, BatchPcs
  <2>5. /\ k \in Request /\ k.kind = "batch" /\ k.pc = "job" /\ k.job = up.job
        /\ k.seq = n /\ k.first = b.first /\ k.len = b.len
    BY ONLY <1>4, <2>3, <2>4, n \in Nat DEF Request
  <2>6. t = [k EXCEPT !.last = e]
    BY ONLY <1>2, <2>1, <2>2, <2>3 DEF NoReq
  <2>7. e \in BOOLEAN
    BY <2>1
  <2>8. /\ t \in Request /\ t.kind = "batch" /\ t.pc = "job" /\ t.job = up.job
        /\ t.seq = n /\ t.first = b.first /\ t.len = b.len /\ t.last = e
    BY ONLY <2>5, <2>6, <2>7 DEF Request
  <2> QED
    BY ONLY <2>1, <2>8
<1>6. Fits(t, Jobs, work)
  BY <1>1, <1>4, <1>5 DEF Fits, Carries, Belongs, BatchPcs
<1> QED
  BY <1>4, <1>5, <1>6

LEMMA StartBatchKeeps ==
  ASSUME Shape, NEW s \in Slots, StartBatch(s) PROVE Shape'
<1> USE DEF Shape
<1> PICK t : t = BatchReq(up.next)
  OBVIOUS
<1>1. /\ reqs' = [reqs EXCEPT ![s] = t] /\ up' = [up EXCEPT !.req = s] /\ Runner
      /\ up.pc = "batches" /\ UNCHANGED <<jobVars, quotas, space, env>>
      /\ up.next < Len(up.plan)
  BY DEF StartBatch
<1>2. StoreOK' /\ Jobs' = Jobs /\ SpaceOK'
  BY <1>1, SameStore, SameSpace DEF space, env
<1>3. up.next \in Nat
  BY DEF UpOK, UpFits, Upload
<1>4. /\ Fits(t, Jobs, work) /\ t.kind = "batch" /\ t.job = up.job /\ t.seq = up.next
      /\ up.plan[up.next + 1] = [first |-> t.first, len |-> t.len]
  BY <1>1, <1>3, BatchReqFits
<1>5. Waits(up, t, work)
  BY <1>1, <1>4 DEF Waits, Runner
<1> QED
  BY <1>1, <1>2, <1>4, <1>5, Sent DEF env

LEMMA SendAnyKeeps ==
  ASSUME Shape, NEW s \in Slots, NEW n \in Nat, SendAny(s, n) PROVE Shape'
<1> USE DEF Shape
<1> PICK t : t = BatchReq(n)
  OBVIOUS
<1>1. /\ reqs' = [reqs EXCEPT ![s] = t] /\ Free(s) /\ n \in 0 .. Len(up.plan) - 1
      /\ up.pc = "batches" /\ UNCHANGED <<jobVars, quotas, space, env, up>>
  BY DEF SendAny
<1>2. StoreOK' /\ Jobs' = Jobs /\ SpaceOK' /\ work' = work
  BY <1>1, SameStore, SameSpace DEF space, env
<1>3. n < Len(up.plan)
  BY <1>1 DEF UpOK, UpFits, Upload
<1>4. Fits(t, Jobs, work)
  BY <1>1, <1>3, BatchReqFits
<1>5. up.req # s
  BY <1>1, FreeSlot
<1> QED
  BY <1>1, <1>2, <1>4, <1>5, GoesOn

LEMMA TooLargeUp ==
  ASSUME Shape, NEW s \in Slots, TooLarge(s)
  PROVE  \/ ~ Awaited(s) /\ up' = up
         \/ Awaited(s) /\ up' = Stopped
         \/ /\ Awaited(s) /\ up.plan[up.next + 1].len > 1 /\ up.next < Len(up.plan)
            /\ up' = [up EXCEPT !.req = None, !.attempt = 0, !.plan = Halved(@, up.next)]
<1> PICK r : r = reqs[s]
  OBVIOUS
<1>1. r.kind = "batch"
  BY DEF TooLarge
<1>2. CASE ~ Awaited(s)
  BY <1>2 DEF TooLarge
<1>3. CASE Awaited(s) /\ r.len > 1
  <2>1. /\ r.seq = up.next /\ up.next < Len(up.plan)
        /\ up.plan[up.next + 1] = [first |-> r.first, len |-> r.len]
    BY <1>1, <1>3, Answered DEF Waits, Shape
  <2>2. up' = [up EXCEPT !.req = None, !.attempt = 0,
                 !.plan = SubSeq(@, 1, r.seq) \o Half(@[r.seq + 1])
                            \o SubSeq(@, r.seq + 2, Len(@))]
    BY <1>3 DEF TooLarge
  <2>3. up' = [up EXCEPT !.req = None, !.attempt = 0, !.plan = Halved(@, up.next)]
    BY <2>1, <2>2, Zenon DEF Halved
  <2> QED
    BY <1>3, <2>1, <2>3
<1>4. CASE Awaited(s) /\ ~ (r.len > 1)
  BY <1>4 DEF TooLarge
<1> QED
  BY <1>2, <1>3, <1>4

(* The runner halves the batch it is at.                                   *)
LEMMA UpHalved ==
  ASSUME UpOK, up.pc = "batches", up.next < Len(up.plan), up.plan[up.next + 1].len > 1,
         up' = [up EXCEPT !.req = None, !.attempt = 0, !.plan = Halved(@, up.next)],
         work' = work, Jobs' = Jobs
  PROVE  /\ UpOK' /\ up'.plan = Halved(up.plan, up.next) /\ up'.next = up.next
         /\ up'.job = up.job /\ up'.req = None /\ up'.pc = up.pc
<1> PICK q : q = Halved(up.plan, up.next)
  OBVIOUS
<1> PICK m : m = [up EXCEPT !.req = None, !.attempt = 0]
  OBVIOUS
<1> PICK u : u = [m EXCEPT !.plan = q]
  OBVIOUS
<1>1. up' = u
  OBVIOUS
<1>2. up \in Upload /\ 0 \in 0 .. Retries
  BY Bounds DEF UpOK, UpFits
<1>3. /\ m \in Upload /\ m.pc = up.pc /\ m.req = None /\ m.job = up.job
      /\ m.plan = up.plan /\ m.next = up.next
  BY <1>2 DEF Upload
<1>4. /\ up.plan \in Seq(Batches) /\ Len(up.plan) \in Nat /\ up.next \in Nat
      /\ up.plan[up.next + 1] \in Batches
  BY <1>2 DEF Upload
<1>5. q \in Seq(Batches) /\ Len(q) = Len(up.plan) + 1
  BY <1>4, HalvedIs
<1>6. /\ u \in Upload /\ u.pc = up.pc /\ u.req = None /\ u.job = up.job
      /\ u.plan = q /\ u.next = up.next
  BY <1>3, <1>5 DEF Upload
<1>7. UpFits(u, Jobs, work)
  <2>1. up.next <= Len(q) /\ q # <<>>
    BY <1>4, <1>5
  <2> QED
    BY <1>6, <2>1 DEF UpOK, UpFits
<1> QED
  BY <1>1, <1>6, <1>7, UpFree

LEMMA TooLargeKeeps ==
  ASSUME Shape, NEW s \in Slots, TooLarge(s) PROVE Shape'
<1> USE DEF Shape
<1>1. /\ reqs' = [reqs EXCEPT ![s] = NoReq] /\ UNCHANGED <<jobVars, quotas, space, env>>
      /\ reqs[s].kind = "batch"
  BY DEF TooLarge, End
<1>2. StoreOK' /\ Jobs' = Jobs /\ SpaceOK' /\ work' = work
  BY <1>1, SameStore, SameSpace DEF space, env
<1>3. ReqsOK' /\ reqs'[s] = NoReq /\ \A o \in Slots \ {s} : reqs'[o] = reqs[o]
  BY <1>1, <1>2, NoReqFits, SlotChange
<1>4. CASE ~ Awaited(s) /\ up' = up
  <2>1. up.req # None => up.req \in Slots \ {s}
    BY <1>4 DEF Awaited, UpOK, UpFits, Upload
  <2>2. UpOK'
    BY <1>2, <1>3, <1>4, <2>1, UpKept
  <2> QED
    BY <1>2, <1>3, <2>2
<1>5. CASE Awaited(s) /\ up' = Stopped
  <2>1. up.pc # "idle"
    BY <1>5, Answered
  <2>2. UpOK'
    BY <1>2, <1>5, <2>1, UpStopped
  <2> QED
    BY <1>2, <1>3, <2>2
<1>6. CASE /\ Awaited(s) /\ up.plan[up.next + 1].len > 1 /\ up.next < Len(up.plan)
           /\ up' = [up EXCEPT !.req = None, !.attempt = 0, !.plan = Halved(@, up.next)]
  <2>1. up.pc = "batches"
    BY <1>1, <1>6, Answered DEF Waits
  <2>2. UpOK'
    BY <1>2, <1>6, <2>1, UpHalved
  <2> QED
    BY <1>2, <1>3, <2>2
<1> QED
  BY <1>4, <1>5, <1>6, TooLargeUp

LEMMA BatchJobKeeps ==
  ASSUME Shape, NEW s \in Slots, BatchJob(s) PROVE Shape'
<1> USE DEF Shape
<1> PICK r : r = reqs[s]
  OBVIOUS
<1> PICK t : t = [r EXCEPT !.pc = "prior", !.snap = jobs[r.job]]
  OBVIOUS
<1>1. /\ r.kind = "batch" /\ r.pc = "job" /\ Bytes(r) <= GatewayBytes /\ up' = up
      /\ reqs' = [reqs EXCEPT ![s] = t] /\ UNCHANGED <<jobVars, quotas, space, env>>
  BY DEF BatchJob
<1>2. StoreOK' /\ Jobs' = Jobs /\ SpaceOK' /\ work' = work
  BY <1>1, SameStore, SameSpace DEF space, env
<1>3. r.job \in Jobs /\ jobs[r.job] \in Job
  BY <1>1, AtSlot DEF Carries, Jobs, StoreOK
<1>4. /\ t \in Request /\ t.pc = "prior" /\ t.kind = r.kind /\ t.job = r.job
      /\ t.seq = r.seq /\ t.first = r.first /\ t.len = r.len /\ t.snap \in Job
  <2>1. r \in Request /\ t = [r EXCEPT !.pc = "prior", !.snap = jobs[r.job]]
    BY AtSlot
  <2> QED
    BY ONLY <1>3, <2>1 DEF Request, BatchPcs
<1>5. Bytes(t) = Bytes(r)
  BY <1>4 DEF Bytes, Rows
<1>6. Fits(t, Jobs, work)
  BY <1>1, <1>3, <1>4, <1>5, AtSlot DEF Fits, Carries, Belongs, BatchPcs
<1> QED
  BY <1>1, <1>2, <1>4, <1>6, GoesOn

LEMMA BatchPriorKeeps ==
  ASSUME Shape, NEW s \in Slots, BatchPrior(s) PROVE Shape'
<1> USE DEF Shape
<1> PICK r : r = reqs[s]
  OBVIOUS
<1> PICK t : t = [r EXCEPT !.pc = "upsert", !.day = today, !.prior = stored[r.job]]
  OBVIOUS
<1>1. /\ r.kind = "batch" /\ r.pc = "prior" /\ UNCHANGED <<jobVars, quotas, space, env>>
      /\ \/ End(s) /\ AnswerOk(s, NextBatch)
         \/ AnswerError(s, FALSE)
         \/ reqs' = [reqs EXCEPT ![s] = t] /\ up' = up
  BY DEF BatchPrior
<1>2. StoreOK' /\ Jobs' = Jobs /\ SpaceOK' /\ work' = work
  BY <1>1, SameStore, SameSpace DEF space, env
<1>3. CASE End(s) /\ AnswerOk(s, NextBatch)
  BY <1>1, <1>2, <1>3, BatchAnswered
<1>4. CASE AnswerError(s, FALSE)
  BY <1>2, <1>4, ErrorAnswered
<1>5. CASE reqs' = [reqs EXCEPT ![s] = t] /\ up' = up
  <2>1. r.job \in Ids /\ stored[r.job] \in FinBatches /\ today \in Days
    BY <1>1, AtSlot DEF Carries, Jobs, StoreOK, SpaceOK
  <2>2. /\ t \in Request /\ t.pc = "upsert" /\ t.kind = r.kind /\ t.job = r.job
        /\ t.seq = r.seq /\ t.first = r.first /\ t.len = r.len /\ t.snap = r.snap
    <3>1. r \in Request
      BY AtSlot
    <3>2. PICK m : m = [r EXCEPT !.pc = "upsert"]
      OBVIOUS
    <3>3. t = [m EXCEPT !.prior = stored[r.job], !.day = today]
      BY <3>2
    <3>4. /\ m \in Request /\ m.pc = "upsert" /\ m.kind = r.kind /\ m.job = r.job
          /\ m.seq = r.seq /\ m.first = r.first /\ m.len = r.len /\ m.snap = r.snap
      BY ONLY <3>1, <3>2 DEF Request, BatchPcs
    <3> QED
      BY ONLY <2>1, <3>3, <3>4 DEF Request
  <2>3. Bytes(t) = Bytes(r)
    BY <2>2 DEF Bytes, Rows
  <2>4. Fits(t, Jobs, work)
    BY <1>1, <2>2, <2>3, AtSlot DEF Fits, Carries, Belongs, BatchPcs
  <2> QED
    BY <1>2, <1>5, <2>2, <2>4, GoesOn
<1> QED
  BY <1>1, <1>3, <1>4, <1>5

LEMMA UpsertKeeps ==
  ASSUME Shape, NEW s \in Slots, Upsert(s) PROVE Shape'
<1> USE DEF Shape
<1> PICK r : r = reqs[s]
  OBVIOUS
<1> PICK o : o = Outcome(r)
  OBVIOUS
<1> PICK t : t = [r EXCEPT !.pc = "commit", !.done = o]
  OBVIOUS
<1>1. /\ r.pc = "upsert" /\ graph' = graph \cup o.keys /\ up' = up
      /\ reqs' = [reqs EXCEPT ![s] = t] /\ UNCHANGED <<jobVars, quotas, env>>
  BY DEF Upsert
<1>2. StoreOK' /\ Jobs' = Jobs /\ work' = work
  BY <1>1, SameStore DEF env
<1>3. /\ o \in BatchRec /\ o.seq = r.seq /\ o.first = r.first /\ o.len = r.len
      /\ IsFiniteSet(graph \cup o.keys) /\ Cardinality(graph \cup o.keys) <= MaxObjects
  BY <1>1, AtSlot, OutcomeOK
<1>4. SpaceOK'
  BY <1>1, <1>3 DEF SpaceOK, quotas, env
<1>5. /\ t \in Request /\ t.pc = "commit" /\ t.kind = r.kind /\ t.job = r.job
      /\ t.seq = r.seq /\ t.first = r.first /\ t.len = r.len /\ t.snap = r.snap
      /\ t.last = r.last /\ t.done = o /\ t.scenario = r.scenario
  <2>1. r \in Request /\ t = [r EXCEPT !.pc = "commit", !.done = o]
    BY AtSlot
  <2>2. t \in Request /\ t.pc = "commit" /\ t.done = o
    BY ONLY <1>3, <2>1 DEF Request, BatchPcs
  <2>3. /\ t.kind = r.kind /\ t.job = r.job /\ t.seq = r.seq /\ t.first = r.first
        /\ t.len = r.len /\ t.snap = r.snap /\ t.last = r.last /\ t.scenario = r.scenario
    BY ONLY <2>1 DEF Request
  <2> QED
    BY ONLY <2>2, <2>3
<1>6. Bytes(t) = Bytes(r)
  BY <1>5 DEF Bytes, Rows
<1>7. r.kind \in {"batch", "sample"} /\ Carries(r, Jobs) /\ Belongs(r, work)
  BY <1>1, AtSlot, Writing
<1>8. Fits(t, Jobs, work)
  BY <1>1, <1>3, <1>5, <1>6, <1>7 DEF Fits, Carries, Belongs, BatchPcs, SamplePcs
<1>9. ReqsOK' /\ UpOK'
  <2>1. ReqsOK /\ UpOK /\ s \in Slots /\ reqs' = [reqs EXCEPT ![s] = t] /\ up' = up
    BY <1>1
  <2>2. Jobs \subseteq Jobs' /\ work' = work /\ Fits(t, Jobs', work)
    BY <1>2, <1>8
  <2>3. /\ t.kind = reqs[s].kind /\ t.job = reqs[s].job /\ t.seq = reqs[s].seq
        /\ t.first = reqs[s].first /\ t.len = reqs[s].len
    BY <1>5
  <2> QED
    BY ONLY <2>1, <2>2, <2>3, GoesOn
<1> QED
  BY <1>2, <1>4, <1>9

(* What is counted of a batch.                                             *)
LEMMA CountedOK ==
  ASSUME NEW job \in Job, NEW r, r.len \in Nat, r.done \in BatchRec,
         NEW x, x = Counted(job, r)
  PROVE  /\ x \in Job /\ x.kind = job.kind /\ x.total = job.total /\ x.day = job.day
         /\ x.received = job.received + r.len
         /\ x.upserted = job.upserted + r.done.upserted
         /\ x.skipped = job.skipped + r.done.skipped
         /\ x.rejected = job.rejected + Cardinality(r.done.rejects)
         /\ Cardinality(r.done.rejects) \in Nat
         /\ x.status = IF r.last /\ job.status = "RECEIVING" THEN "DONE" ELSE job.status
<1>1. r.done.upserted \in Nat /\ r.done.skipped \in Nat /\ IsFiniteSet(r.done.rejects)
  BY DEF BatchRec, FinInts
<1> PICK c : c = Cardinality(r.done.rejects)
  OBVIOUS
<1>2. c \in Nat
  BY <1>1, FS_CardinalityType
<1> PICK st : st = IF r.last /\ job.status = "RECEIVING" THEN "DONE" ELSE job.status
  OBVIOUS
<1>3. st \in Status
  BY DEF Job, Status
<1> PICK a : a = job.received + r.len
  OBVIOUS
<1> PICK b : b = job.upserted + r.done.upserted
  OBVIOUS
<1> PICK d : d = job.skipped + r.done.skipped
  OBVIOUS
<1> PICK e : e = job.rejected + c
  OBVIOUS
<1>0. a \in Nat /\ b \in Nat /\ d \in Nat /\ e \in Nat
  BY <1>1, <1>2 DEF Job
<1>m. PICK m : m = [job EXCEPT !.received = a, !.upserted = b]
  OBVIOUS
<1>4. /\ m \in Job /\ m.kind = job.kind /\ m.total = job.total /\ m.day = job.day
      /\ m.received = job.received + r.len /\ m.upserted = job.upserted + r.done.upserted
      /\ m.skipped = job.skipped /\ m.rejected = job.rejected /\ m.status = job.status
  <2>1. m \in Job
    BY ONLY <1>0, <1>m, job \in Job DEF Job
  <2>2. /\ m.kind = job.kind /\ m.total = job.total /\ m.day = job.day
        /\ m.skipped = job.skipped /\ m.rejected = job.rejected /\ m.status = job.status
    BY <1>m DEF Job
  <2>3. m.received = job.received + r.len /\ m.upserted = job.upserted + r.done.upserted
    BY <1>m DEF Job
  <2> QED
    BY <2>1, <2>2, <2>3
<1>n. PICK n : n = [m EXCEPT !.skipped = d, !.rejected = e]
  OBVIOUS
<1>5. /\ n \in Job /\ n.kind = m.kind /\ n.total = m.total /\ n.day = m.day
      /\ n.received = m.received /\ n.upserted = m.upserted
      /\ n.skipped = m.skipped + r.done.skipped /\ n.rejected = m.rejected + c
      /\ n.status = m.status
  <2>1. n \in Job
    BY ONLY <1>0, <1>4, <1>n DEF Job
  <2>2. /\ n.kind = m.kind /\ n.total = m.total /\ n.day = m.day
        /\ n.received = m.received /\ n.upserted = m.upserted /\ n.status = m.status
    BY <1>4, <1>n DEF Job
  <2>3. n.skipped = m.skipped + r.done.skipped /\ n.rejected = m.rejected + c
    BY <1>4, <1>n DEF Job
  <2> QED
    BY <2>1, <2>2, <2>3
<1>y. PICK y : y = [n EXCEPT !.status = st, !.stale = FALSE]
  OBVIOUS
<1>6. /\ y \in Job /\ y.kind = n.kind /\ y.total = n.total /\ y.day = n.day
      /\ y.received = n.received /\ y.upserted = n.upserted
      /\ y.skipped = n.skipped /\ y.rejected = n.rejected /\ y.status = st
  <2>1. y \in Job
    BY ONLY <1>3, <1>5, <1>y DEF Job
  <2>2. /\ y.kind = n.kind /\ y.total = n.total /\ y.day = n.day
        /\ y.received = n.received /\ y.upserted = n.upserted
        /\ y.skipped = n.skipped /\ y.rejected = n.rejected
    BY <1>5, <1>y DEF Job
  <2>3. y.status = st
    BY <1>5, <1>y DEF Job
  <2> QED
    BY <2>1, <2>2, <2>3
<1>7. x = y
  BY <1>m, <1>n, <1>y DEF Counted, Job
<1> QED
  BY <1>2, <1>4, <1>5, <1>6, <1>7

LEMMA CommitStore ==
  ASSUME StoreOK, NEW r \in Request, r.job \in Jobs, r.done \in BatchRec, CommitBatch(r)
  PROVE  /\ StoreOK' /\ Jobs' = Jobs
         /\ stored'[r.job] = stored[r.job] \cup {r.done}
         /\ jobs'[r.job] = Counted(jobs[r.job], r) /\ jobs'[r.job] \in Job
         /\ \A i \in Ids \ {r.job} : stored'[i] = stored[i] /\ jobs'[i] = jobs[i]
<1> PICK j : j = r.job
  OBVIOUS
<1>1. j \in Ids /\ jobs[j] \in Job /\ r.len \in Nat
  BY DEF Jobs, StoreOK, Request
<1>2. Counted(jobs[j], r) \in Job
  BY <1>1, CountedOK
<1>3. /\ stored' = [stored EXCEPT ![j] = @ \cup {r.done}]
      /\ jobs' = [jobs EXCEPT ![j] = Counted(@, r)]
      /\ rejects' = [rejects EXCEPT ![j] = KeptRejects(@, r.done.rejects)]
  BY DEF CommitBatch
<1>4. stored[j] \cup {r.done} \in FinBatches
  <2>1. IsFiniteSet(stored[j] \cup {r.done})
    <3>1. IsFiniteSet(stored[j])
      BY <1>1 DEF StoreOK, FinBatches
    <3> QED
      BY <3>1, FS_AddElement
  <2> QED
    BY <1>1, <2>1 DEF StoreOK, FinBatches
<1>5. /\ stored' \in [Ids -> FinBatches] /\ stored'[j] = stored[j] \cup {r.done}
      /\ \A i \in Ids \ {j} : stored'[i] = stored[i]
  BY <1>1, <1>3, <1>4 DEF StoreOK
<1>6. /\ jobs' \in [Ids -> Job \cup {None}] /\ jobs'[j] = Counted(jobs[j], r)
      /\ \A i \in Ids \ {j} : jobs'[i] = jobs[i]
  BY <1>1, <1>2, <1>3 DEF StoreOK
<1>7. /\ KeptRejects(rejects[j], r.done.rejects) \in FinInts
      /\ Cardinality(KeptRejects(rejects[j], r.done.rejects)) <= MaxRejects
  BY <1>1, RejectsKept DEF StoreOK, BatchRec
<1>8. /\ rejects' \in [Ids -> FinInts] /\ Cardinality(rejects'[j]) <= MaxRejects
      /\ \A i \in Ids \ {j} : rejects'[i] = rejects[i]
  BY <1>1, <1>3, <1>7 DEF StoreOK
<1>9. Jobs' = Jobs
  BY <1>1, <1>2, <1>6, ImportAssumption DEF Jobs
<1>10. StoreOK'
  BY <1>1, <1>5, <1>6, <1>8, <1>9 DEF StoreOK
<1> QED
  BY <1>2, <1>5, <1>6, <1>9, <1>10

LEMMA CommitKeeps ==
  ASSUME Shape, NEW s \in Slots, Commit(s) PROVE Shape'
<1> USE DEF Shape
<1> PICK r : r = reqs[s]
  OBVIOUS
<1>1. /\ r.kind = "batch" /\ r.pc = "commit" /\ UNCHANGED <<quotas, space, env>>
      /\ CommitBatch(r) \/ LoseBatch(r)
      /\ \/ Goto(s, "refund") /\ UNCHANGED up
         \/ End(s) /\ AnswerOk(s, NextBatch)
  BY DEF Commit
<1>2. SpaceOK' /\ work' = work
  BY <1>1, SameSpace DEF space, env
<1>3. r.job \in Jobs /\ r.done \in BatchRec /\ r \in Request
  BY <1>1, AtSlot DEF Carries
<1>4. StoreOK' /\ Jobs' = Jobs
  BY <1>1, <1>3, CommitStore, SameStore DEF LoseBatch
<1>5. CASE End(s) /\ AnswerOk(s, NextBatch)
  BY <1>1, <1>2, <1>4, <1>5, BatchAnswered
<1>6. CASE Goto(s, "refund") /\ UNCHANGED up
  <2> PICK t : t = [r EXCEPT !.pc = "refund"]
    OBVIOUS
  <2>1. reqs' = [reqs EXCEPT ![s] = t]
    BY <1>6 DEF Goto
  <2>2. "refund" \in BatchPcs
    BY DEF BatchPcs
  <2>3. /\ t \in Request /\ t.pc = "refund" /\ t.kind = r.kind /\ t.job = r.job
        /\ t.seq = r.seq /\ t.first = r.first /\ t.len = r.len /\ t.snap = r.snap
        /\ t.done = r.done
    BY <1>3, <2>2, Moved
  <2>4. Bytes(t) = Bytes(r)
    BY <2>3 DEF Bytes, Rows
  <2>5. Fits(t, Jobs, work)
    BY <1>1, <2>2, <2>3, <2>4, AtSlot DEF Fits, Carries, Belongs
  <2> QED
    BY <1>2, <1>4, <1>6, <2>1, <2>3, <2>5, GoesOn
<1> QED
  BY <1>1, <1>5, <1>6

LEMMA RefundKeeps ==
  ASSUME Shape, NEW s \in Slots, Refund(s) PROVE Shape'
<1> USE DEF Shape
<1> PICK r : r = reqs[s]
  OBVIOUS
<1>1. /\ r.kind = "batch" /\ r.pc = "refund" /\ UNCHANGED <<jobVars, space, env, seeds>>
      /\ usage' = [usage EXCEPT ![r.snap.day] = @ - Min({@, Unused(r)})]
      /\ End(s) /\ AnswerOk(s, NextBatch)
  BY DEF Refund
<1>2. StoreOK' /\ Jobs' = Jobs /\ work' = work
  BY <1>1, SameStore DEF env
<1>3. r.snap \in Job /\ r.len \in Nat
  BY <1>1, AtSlot DEF Carries, Request
<1>4. r.snap.day \in Days /\ usage[r.snap.day] \in 0 .. DailyRows /\ Unused(r) \in Nat
  BY <1>3 DEF Job, SpaceOK, Unused
<1>5. usage[r.snap.day] - Min({usage[r.snap.day], Unused(r)}) \in 0 .. DailyRows
  <2> PICK x : x = usage[r.snap.day]
    OBVIOUS
  <2> PICK y : y = Unused(r)
    OBVIOUS
  <2>1. x \in Nat /\ x <= DailyRows /\ y \in Nat /\ DailyRows \in Nat
    BY <1>4, Bounds
  <2>2. Min({x, y}) \in Nat /\ Min({x, y}) <= x
    BY <2>1, MinOfTwo
  <2> QED
    BY <2>1, <2>2
<1>6. SpaceOK'
  <2>1. usage' \in [Days -> 0 .. DailyRows]
    BY <1>1, <1>4, <1>5 DEF SpaceOK
  <2> QED
    BY <1>1, <2>1 DEF SpaceOK, space, env
<1> QED
  BY <1>1, <1>2, <1>6, BatchAnswered

-----------------------------------------------------------------------------
(* What the person at the page does.                                       *)
LEMMA StartRunIs ==
  ASSUME UpOK, StartRun
  PROVE  /\ UpFits(up', Jobs, work) /\ up'.req = None /\ up'.job = up.job
         /\ up'.next = up.next
         /\ up'.plan = IF up.plan = <<>> THEN Plan ELSE up.plan
         /\ up'.pc = "final" => ~ (up.next < Len(up.plan)) /\ up.job # None
         /\ up'.pc # "done"
<1> PICK p : p = IF up.plan = <<>> THEN Plan ELSE up.plan
  OBVIOUS
<1>1. PICK q : q = CASE up.job = None -> "create"
                  [] up.job # None /\ ~up.mapped -> "mapping"
                  [] up.job # None /\ up.mapped /\ up.next < Len(up.plan) -> "batches"
                  [] OTHER -> "final"
  OBVIOUS
<1>2. /\ q \in {"create", "mapping", "batches", "final"}
      /\ q = "create" <=> up.job = None
      /\ q = "final" => ~ (up.next < Len(up.plan))
  <2>1. CASE up.job = None
    BY <1>1, <2>1
  <2>2. CASE up.job # None /\ ~ up.mapped
    BY <1>1, <2>2
  <2>3. CASE up.job # None /\ up.mapped /\ up.next < Len(up.plan)
    BY <1>1, <2>3
  <2>4. CASE up.job # None /\ up.mapped /\ ~ (up.next < Len(up.plan))
    BY <1>1, <2>4
  <2> QED
    BY <2>1, <2>2, <2>3, <2>4
<1>3. up' = [up EXCEPT !.runs = @ + 1, !.plan = p, !.pc = q]
  BY <1>1 DEF StartRun
<1>4. work # "sample" /\ up.pc \in {"idle", "stopped"}
  BY DEF StartRun
<1>5. /\ up \in Upload /\ up.req = None /\ up.next \in Nat
      /\ up.next <= Len(up.plan) /\ up.plan \in Seq(Batches)
  BY <1>4 DEF UpOK, UpFits, Upload
<1>6. p \in Seq(Batches) /\ p # <<>> /\ up.next <= Len(p)
  <2>1. CASE up.plan = <<>>
    <3>1. p = Plan /\ Len(p) \in Nat /\ Len(p) > 0 /\ p \in Seq(Batches)
      BY <2>1, PlanOK
    <3>2. up.next = 0
      BY <1>5, <2>1
    <3> QED
      BY <3>1, <3>2
  <2>2. CASE up.plan # <<>>
    BY <1>5, <2>2
  <2> QED
    BY <2>1, <2>2
<1>7. PICK m : m = [up EXCEPT !.runs = @ + 1, !.plan = p]
  OBVIOUS
<1>8. /\ m \in Upload /\ m.req = None /\ m.job = up.job /\ m.next = up.next
      /\ m.plan = p
  <2>1. up.runs + 1 \in Nat
    BY <1>5 DEF Upload
  <2>2. m \in Upload
    BY ONLY <1>5, <1>6, <1>7, <2>1 DEF Upload
  <2>3. m.req = None /\ m.job = up.job /\ m.next = up.next
    BY ONLY <1>5, <1>7 DEF Upload
  <2>4. m.plan = p
    BY ONLY <1>5, <1>7 DEF Upload
  <2> QED
    BY <2>2, <2>3, <2>4
<1>9. up' = [m EXCEPT !.pc = q]
  BY <1>3, <1>7
<1>10. /\ up' \in Upload /\ up'.req = None /\ up'.job = up.job /\ up'.next = up.next
       /\ up'.plan = p /\ up'.pc = q
  BY <1>2, <1>8, <1>9 DEF Upload
<1>11. (up.job # None => up.job \in Jobs) /\ (up.job = None => up.next = 0)
  BY DEF UpOK, UpFits
<1>12. UpFits(up', Jobs, work)
  BY <1>2, <1>4, <1>6, <1>10, <1>11 DEF UpFits
<1> QED
  BY <1>2, <1>10, <1>12

LEMMA StartRunKeeps == ASSUME Shape, StartRun PROVE Shape'
<1> USE DEF Shape
<1>1. UNCHANGED <<jobVars, quotas, space, env, reqs>>
  BY DEF StartRun
<1>2. StoreOK' /\ Jobs' = Jobs /\ SpaceOK' /\ work' = work
  BY <1>1, SameStore, SameSpace DEF space, env
<1>3. ReqsOK'
  BY <1>1, <1>2, SameReqs
<1>4. UpFits(up', Jobs', work') /\ up'.req = None
  BY <1>2, StartRunIs
<1> QED
  BY <1>2, <1>3, <1>4 DEF UpOK

LEMMA CancelKeeps == ASSUME Shape, Cancel PROVE Shape'
<1> USE DEF Shape
<1>1. UNCHANGED <<jobVars, quotas, space, env, reqs>> /\ up' = Stopped /\ up.pc # "idle"
  BY DEF Cancel
<1>2. StoreOK' /\ Jobs' = Jobs /\ SpaceOK' /\ work' = work
  BY <1>1, SameStore, SameSpace DEF space, env
<1> QED
  BY <1>1, <1>2, SameReqs, UpStopped

LEMMA EditMappingKeeps == ASSUME Shape, EditMapping PROVE Shape'
<1> USE DEF Shape
<1>1. /\ UNCHANGED <<jobVars, quotas, space, env, reqs>> /\ up.pc = "stopped"
      /\ up' = IF up.next > 0 THEN [IdleUpload EXCEPT !.runs = up.runs]
               ELSE [up EXCEPT !.mapped = FALSE]
  BY DEF EditMapping
<1>2. StoreOK' /\ Jobs' = Jobs /\ SpaceOK' /\ work' = work
  BY <1>1, SameStore, SameSpace DEF space, env
<1>3. ReqsOK'
  BY <1>1, <1>2, SameReqs
<1>4. up \in Upload /\ up.req = None
  BY <1>1 DEF UpOK, UpFits
<1>5. CASE up.next > 0
  <2>1. up' = [IdleUpload EXCEPT !.runs = up.runs]
    BY <1>1, <1>5
  <2>2. 0 \in 0 .. Retries /\ <<>> \in Seq(Batches) /\ up.runs \in Nat
    BY <1>4, Bounds DEF Upload
  <2>3. /\ up' \in Upload /\ up'.pc = "idle" /\ up'.job = None /\ up'.plan = <<>>
        /\ up'.next = 0 /\ up'.req = None
    BY <2>1, <2>2 DEF IdleUpload, Upload
  <2>4. UpFits(up', Jobs, work)
    BY <2>3 DEF UpFits
  <2> QED
    BY <1>2, <1>3, <2>3, <2>4 DEF UpOK
<1>6. CASE ~ (up.next > 0)
  <2>1. up' = [up EXCEPT !.mapped = FALSE]
    BY <1>1, <1>6
  <2>2. /\ up' \in Upload /\ up'.pc = up.pc /\ up'.job = up.job /\ up'.plan = up.plan
        /\ up'.next = up.next /\ up'.req = None
    BY <1>4, <2>1 DEF Upload
  <2>3. UpFits(up', Jobs, work)
    BY <2>2 DEF UpFits, UpOK
  <2> QED
    BY <1>2, <1>3, <2>2, <2>3 DEF UpOK
<1> QED
  BY <1>5, <1>6

LEMMA GetImportKeeps == ASSUME Shape, GetImport PROVE Shape'
<1> USE DEF Shape
<1>1. /\ UNCHANGED <<jobVars, quotas, space, env, reqs>> /\ up.pc = "final"
      /\ up' = [up EXCEPT !.pc = "done"]
  BY DEF GetImport
<1>2. StoreOK' /\ Jobs' = Jobs /\ SpaceOK' /\ work' = work
  BY <1>1, SameStore, SameSpace DEF space, env
<1>3. ReqsOK'
  BY <1>1, <1>2, SameReqs
<1>4. up \in Upload /\ up.req = None
  BY <1>1 DEF UpOK, UpFits
<1>5. /\ up' \in Upload /\ up'.pc = "done" /\ up'.job = up.job /\ up'.plan = up.plan
      /\ up'.next = up.next /\ up'.req = None
  BY <1>1, <1>4 DEF Upload
<1>6. UpFits(up', Jobs, work)
  BY <1>1, <1>5 DEF UpFits, UpOK
<1> QED
  BY <1>2, <1>3, <1>5, <1>6 DEF UpOK

-----------------------------------------------------------------------------
(* The requests that load sample data.                                     *)
LEMMA SampleAlone ==
  ASSUME ReqsOK, UpOK, NEW s \in Slots, reqs[s].kind = "sample"
  PROVE  /\ work = "sample" /\ up.req # s /\ reqs[s].scenario \in Scenarios
         /\ SampleRows(reqs[s].scenario) \in Nat
<1>1. work = "sample" /\ reqs[s].scenario \in Scenarios
  BY AtSlot DEF Belongs, Carries
<1>2. up.req = None
  BY <1>1 DEF UpOK, UpFits
<1> QED
  BY <1>1, <1>2, Bounds

(* A sample request goes on to a step where it carries nothing of a batch. *)
LEMMA SampleMoves ==
  ASSUME ReqsOK, UpOK, NEW s \in Slots, reqs[s].kind = "sample",
         NEW p \in {"take", "template", "insert", "room", "failed", "undo"},
         p \in {"failed", "undo"} => reqs[s].job \in Jobs \cup {None},
         p \in {"take", "template", "insert"} =>
           reqs[s].pc \in {"check", "take", "template"},
         Goto(s, p), up' = up, work' = work, Jobs \subseteq Jobs'
  PROVE  /\ ReqsOK' /\ UpOK' /\ \A o \in Slots \ {s} : reqs'[o] = reqs[o]
         /\ reqs'[s] = [reqs[s] EXCEPT !.pc = p]
<1> PICK r : r = reqs[s]
  OBVIOUS
<1>1. PICK t : t = [r EXCEPT !.pc = p]
  OBVIOUS
<1>2. reqs' = [reqs EXCEPT ![s] = t]
  BY <1>1 DEF Goto
<1>3. p \in SamplePcs
  BY DEF SamplePcs
<1>4. t \in Request /\ t.pc = p /\ t.kind = r.kind /\ t.job = r.job /\ t.scenario = r.scenario
  BY <1>1, <1>3, AtSlot, Moved
<1>5. Fits(t, Jobs, work)
  BY <1>3, <1>4, AtSlot DEF Fits, Carries, Belongs
<1> QED
  BY <1>1, <1>2, <1>5, FitsMore, SampleAlone, GoesOn

LEMMA SampleEnds ==
  ASSUME ReqsOK, UpOK, NEW s \in Slots, reqs[s].kind = "sample",
         End(s), up' = up, work' = work, Jobs \subseteq Jobs'
  PROVE  ReqsOK' /\ UpOK' /\ reqs'[s] = NoReq /\ \A o \in Slots \ {s} : reqs'[o] = reqs[o]
BY NoReqFits, SampleAlone, GoesOn DEF End

LEMMA ChunkFits ==
  ASSUME NEW r \in Request, r.kind = "sample", r.scenario \in Scenarios, r.snap \in Job,
         NEW J, r.job \in J, work = "sample", NEW n \in Nat, NEW first \in Nat, first >= 1,
         first <= SampleRows(r.scenario) + 1,
         NEW t, t = Chunk(r, n, first)
  PROVE  /\ Fits(t, J, work) /\ t.kind = "sample" /\ t.pc = "upsert" /\ t.job = r.job
         /\ t.seq = n /\ t.snap = r.snap /\ t.prior = r.prior /\ t.scenario = r.scenario
<1> PICK rows : rows = SampleRows(r.scenario)
  OBVIOUS
<1> PICK left : left = rows - first + 1
  OBVIOUS
<1>1. rows \in Nat /\ left \in Nat /\ BatchRows \in Nat
  BY Bounds
<1> PICK l : l = Min({BatchRows, left})
  OBVIOUS
<1>2. l = IF BatchRows <= left THEN BatchRows ELSE left
  BY <1>1, MinOfTwo
<1>3. l \in Nat /\ l <= left /\ (~ (left <= BatchRows) => l < left)
  BY <1>1, <1>2
<1>4. PICK m : m = [r EXCEPT !.pc = "upsert", !.seq = n]
  OBVIOUS
<1>5. PICK k : k = [m EXCEPT !.first = first, !.len = l]
  OBVIOUS
<1>6. t = [k EXCEPT !.last = (left <= BatchRows)]
  <2>1. t = [r EXCEPT !.pc = "upsert", !.seq = n, !.first = first, !.len = l, !.last = (left <= BatchRows)]
    BY DEF Chunk
  <2> QED
    BY <1>4, <1>5, <2>1
<1>7. /\ m \in Request /\ m.pc = "upsert" /\ m.seq = n /\ m.kind = "sample" /\ m.job = r.job
      /\ m.snap = r.snap /\ m.prior = r.prior /\ m.scenario = r.scenario
  BY <1>4 DEF Request, BatchPcs
<1>8. /\ k \in Request /\ k.pc = "upsert" /\ k.seq = n /\ k.kind = "sample" /\ k.job = r.job
      /\ k.snap = r.snap /\ k.prior = r.prior /\ k.scenario = r.scenario
      /\ k.first = first /\ k.len = l
  <2>1. k \in Request
    BY ONLY <1>3, <1>5, <1>7, first \in Nat DEF Request
  <2>2. /\ k.pc = "upsert" /\ k.seq = n /\ k.kind = "sample" /\ k.job = r.job
        /\ k.snap = r.snap /\ k.prior = r.prior /\ k.scenario = r.scenario
    BY ONLY <1>5, <1>7 DEF Request
  <2>3. k.first = first /\ k.len = l
    BY ONLY <1>5, <1>7 DEF Request
  <2> QED
    BY ONLY <2>1, <2>2, <2>3
<1>9. /\ t \in Request /\ t.pc = "upsert" /\ t.seq = n /\ t.kind = "sample" /\ t.job = r.job
      /\ t.snap = r.snap /\ t.prior = r.prior /\ t.scenario = r.scenario
      /\ t.first = first /\ t.len = l /\ t.last = (left <= BatchRows)
  <2>1. t \in Request
    <3>1. CASE left <= BatchRows
      <4>1. t = [k EXCEPT !.last = TRUE]
        BY <1>6, <3>1
      <4> QED
        BY ONLY <1>8, <4>1 DEF Request
    <3>2. CASE ~ (left <= BatchRows)
      <4>1. t = [k EXCEPT !.last = FALSE]
        <5>1. (left <= BatchRows) = FALSE
          BY <3>2
        <5> QED
          BY ONLY <1>6, <5>1, Zenon
      <4> QED
        BY ONLY <1>8, <4>1 DEF Request
    <3> QED
      BY <3>1, <3>2
  <2>2. /\ t.pc = "upsert" /\ t.seq = n /\ t.kind = "sample" /\ t.job = r.job
        /\ t.snap = r.snap /\ t.prior = r.prior /\ t.scenario = r.scenario
    BY ONLY <1>1, <1>6, <1>8 DEF Request
  <2>3. t.first = first /\ t.len = l
    BY ONLY <1>1, <1>6, <1>8 DEF Request
  <2>4. t.last = (left <= BatchRows)
    BY ONLY <1>1, <1>6, <1>8 DEF Request
  <2> QED
    BY ONLY <2>1, <2>2, <2>3, <2>4
<1>10. /\ first + l - 1 <= rows
       /\ ~ (left <= BatchRows) => first + l <= rows
  BY ONLY <1>1, <1>3, left = rows - first + 1, first \in Nat
<1>11. Carries(t, J) /\ Belongs(t, work)
  BY <1>9, <1>10 DEF Carries, Belongs, SamplePcs
<1> QED
  BY <1>9, <1>11 DEF Fits

LEMMA StartSampleKeeps ==
  ASSUME Shape, NEW s \in Slots, NEW sc \in Scenarios, StartSample(s, sc) PROVE Shape'
<1> USE DEF Shape
<1>1. PICK t : t = [NoReq EXCEPT !.kind = "sample", !.pc = "check", !.scenario = sc]
  OBVIOUS
<1>2. /\ reqs' = [reqs EXCEPT ![s] = t] /\ Free(s) /\ work = "sample"
      /\ up' = [up EXCEPT !.runs = @ + 1] /\ UNCHANGED <<jobVars, quotas, space, env>>
  BY <1>1 DEF StartSample
<1>3. StoreOK' /\ Jobs' = Jobs /\ SpaceOK' /\ work' = work
  BY <1>2, SameStore, SameSpace DEF space, env
<1>4. t \in Request /\ t.kind = "sample" /\ t.pc = "check" /\ t.scenario = sc
      /\ t.job = None
  <2>1. NoReq \in Request
    BY NoReqFits DEF Fits
  <2> QED
    BY <1>1, <2>1 DEF Request, SamplePcs, NoReq
<1>5. Fits(t, Jobs, work)
  BY <1>2, <1>4 DEF Fits, Carries, Belongs, SamplePcs
<1>6. ReqsOK'
  BY <1>2, <1>3, <1>5, SlotChange
<1>7. up \in Upload /\ up.req = None
  BY <1>2 DEF UpOK, UpFits
<1>8. /\ up' \in Upload /\ up'.pc = up.pc /\ up'.job = up.job /\ up'.plan = up.plan
      /\ up'.next = up.next /\ up'.req = None
  BY <1>2, <1>7 DEF Upload
<1>9. UpFits(up', Jobs, work)
  BY <1>8 DEF UpFits, UpOK
<1> QED
  BY <1>3, <1>6, <1>8, <1>9 DEF UpOK

LEMMA SampleCheckKeeps ==
  ASSUME Shape, NEW s \in Slots, SampleCheck(s) PROVE Shape'
<1> USE DEF Shape
<1>1. /\ reqs[s].kind = "sample" /\ reqs[s].pc = "check"
      /\ (End(s) \/ Goto(s, "take"))
      /\ UNCHANGED <<jobVars, quotas, space, env, up>>
  BY DEF SampleCheck
<1>2. StoreOK' /\ Jobs' = Jobs /\ SpaceOK' /\ work' = work
  BY <1>1, SameStore, SameSpace DEF space, env
<1> QED
  BY <1>1, <1>2, SampleEnds, SampleMoves

LEMMA SampleTakeKeeps ==
  ASSUME Shape, NEW s \in Slots, SampleTake(s) PROVE Shape'
<1> USE DEF Shape
<1> PICK rows : rows = SampleRows(reqs[s].scenario)
  OBVIOUS
<1>1. /\ reqs[s].kind = "sample" /\ reqs[s].pc = "take"
      /\ UNCHANGED <<jobVars, space, env, usage, up>>
      /\ \/ End(s) /\ seeds' = seeds
         \/ Goto(s, "template") /\ seeds' = seeds + rows /\ ~ (seeds + rows > SeedRows)
  BY DEF SampleTake
<1>2. StoreOK' /\ Jobs' = Jobs /\ work' = work
  BY <1>1, SameStore DEF env
<1>3. seeds \in 0 .. SeedRows /\ SeedRows \in Nat /\ rows \in Nat
  BY <1>1, SampleAlone, Bounds DEF SpaceOK
<1>4. seeds' \in 0 .. SeedRows
  BY <1>1, <1>3
<1>5. SpaceOK'
  BY <1>1, <1>4 DEF SpaceOK, space, env
<1> QED
  BY <1>1, <1>2, <1>5, SampleEnds, SampleMoves

LEMMA SampleTemplateKeeps ==
  ASSUME Shape, NEW s \in Slots, SampleTemplate(s) PROVE Shape'
<1> USE DEF Shape
<1>1. /\ reqs[s].kind = "sample" /\ reqs[s].pc = "template" /\ Goto(s, "insert")
      /\ UNCHANGED <<jobVars, quotas, env, graph, up>>
  BY DEF SampleTemplate
<1>2. StoreOK' /\ Jobs' = Jobs /\ SpaceOK' /\ work' = work
  BY <1>1, SameStore, SameSpace DEF env
<1> QED
  BY <1>1, <1>2, SampleMoves

LEMMA SampleInsertKeeps ==
  ASSUME Shape, NEW s \in Slots, SampleInsert(s) PROVE Shape'
<1> USE DEF Shape
<1> PICK r : r = reqs[s]
  OBVIOUS
<1> PICK job : job = NewJob("sample", SampleRows(r.scenario), today)
  OBVIOUS
<1>1. r.kind = "sample" /\ UNCHANGED <<quotas, space, env, stored, rejects, up>>
  BY DEF SampleInsert
<1>2. PICK j \in Ids \ Jobs :
        /\ jobs' = [jobs EXCEPT ![j] = job]
        /\ reqs' = [reqs EXCEPT ![s] = Chunk([r EXCEPT !.job = j, !.snap = job], 0, 1)]
  BY DEF SampleInsert
<1>3. work = "sample" /\ up.req # s /\ r.scenario \in Scenarios /\ SampleRows(r.scenario) \in Nat
  BY <1>1, SampleAlone
<1>4. job \in Job
  BY <1>3, NewJobOK DEF SpaceOK
<1>5. StoreOK' /\ Jobs' = Jobs \cup {j} /\ Jobs \subseteq Jobs' /\ j \in Jobs'
  BY <1>1, <1>2, <1>4, SetJob
<1>6. SpaceOK' /\ work' = work
  BY <1>1, SameSpace DEF space, env
<1>7. PICK m : m = [r EXCEPT !.job = j, !.snap = job]
  OBVIOUS
<1>8. /\ m \in Request /\ m.kind = "sample" /\ m.scenario = r.scenario /\ m.snap = job
      /\ m.job = j
  <2>1. r \in Request /\ r.kind = "sample" /\ j \in Ids
    BY <1>1, AtSlot
  <2> QED
    BY ONLY <1>4, <1>7, <2>1 DEF Request
<1> PICK t : t = Chunk(m, 0, 1)
  OBVIOUS
<1>9. 1 <= SampleRows(m.scenario) + 1
  BY <1>3, <1>8
<1>10. Fits(t, Jobs', work)
  BY <1>3, <1>4, <1>5, <1>8, <1>9, ChunkFits
<1>11. reqs' = [reqs EXCEPT ![s] = t]
  BY <1>2, <1>7
<1> QED
  BY <1>1, <1>3, <1>5, <1>6, <1>10, <1>11, GoesOn

(* A sample request after its commit.                                      *)
LEMMA SampleAfter ==
  ASSUME NEW r \in Request, r.snap \in Job, r.done \in BatchRec,
         NEW t, t = [r EXCEPT !.snap = Counted(@, r), !.done = None,
                       !.prior = @ \cup {[r.done EXCEPT !.keys = {}]}]
  PROVE  /\ t \in Request /\ t.kind = r.kind /\ t.pc = r.pc /\ t.job = r.job
         /\ t.seq = r.seq /\ t.snap = Counted(r.snap, r) /\ t.snap \in Job
         /\ t.scenario = r.scenario
<1> PICK x : x = Counted(r.snap, r)
  OBVIOUS
<1>1. x \in Job
  <2>1. r.len \in Nat
    BY DEF Request
  <2> QED
    BY <2>1, CountedOK
<1> PICK y : y = [r.done EXCEPT !.keys = {}]
  OBVIOUS
<1>2. y \in BatchRec
  BY DEF BatchRec
<1> PICK p : p = r.prior \cup {y}
  OBVIOUS
<1>3. p \in FinBatches
  <2>1. IsFiniteSet(r.prior) /\ r.prior \subseteq BatchRec
    BY DEF Request, FinBatches
  <2>2. IsFiniteSet(p)
    BY <2>1, FS_AddElement
  <2> QED
    BY <1>2, <2>1, <2>2 DEF FinBatches
<1>4. t = [r EXCEPT !.snap = x, !.done = None, !.prior = p]
  BY DEF Request
<1> QED
  BY <1>1, <1>3, <1>4 DEF Request

LEMMA SampleCommitKeeps ==
  ASSUME Shape, NEW s \in Slots, SampleCommit(s) PROVE Shape'
<1> USE DEF Shape
<1> PICK r : r = reqs[s]
  OBVIOUS
<1>1. PICK after : after = [r EXCEPT !.snap = Counted(@, r), !.done = None,
                    !.prior = @ \cup {[r.done EXCEPT !.keys = {}]}]
  OBVIOUS
<1>2. /\ r.kind = "sample" /\ r.pc = "commit" /\ CommitBatch(r)
      /\ reqs' = [reqs EXCEPT ![s] =
           IF r.last THEN [after EXCEPT !.pc = "room"]
           ELSE Chunk(after, r.seq + 1, r.first + r.len)]
      /\ UNCHANGED <<quotas, space, env, up>>
  BY <1>1 DEF SampleCommit
<1>3. SpaceOK' /\ work' = work
  BY <1>2, SameSpace DEF space, env
<1>4. /\ r \in Request /\ r.job \in Jobs /\ r.snap \in Job /\ r.done \in BatchRec
      /\ r.first >= 1
      /\ ~ r.last => r.first + r.len <= SampleRows(r.scenario)
      /\ r.first \in Nat /\ r.len \in Nat /\ r.seq \in Nat
  BY <1>2, AtSlot DEF Carries, Request
<1>5. StoreOK' /\ Jobs' = Jobs
  BY <1>2, <1>4, CommitStore
<1>6. work = "sample" /\ up.req # s /\ r.scenario \in Scenarios /\ SampleRows(r.scenario) \in Nat
  BY <1>2, SampleAlone
<1>7. /\ after \in Request /\ after.kind = "sample" /\ after.job = r.job
      /\ after.snap \in Job /\ after.scenario = r.scenario
  BY <1>1, <1>2, <1>4, SampleAfter
<1>8. CASE r.last
  <2> PICK t : t = [after EXCEPT !.pc = "room"]
    OBVIOUS
  <2>1. "room" \in SamplePcs
    BY DEF SamplePcs
  <2>2. t \in Request /\ t.pc = "room" /\ t.kind = "sample" /\ t.scenario = r.scenario
    BY <1>7, <2>1, Moved
  <2>3. Fits(t, Jobs, work)
    BY <1>6, <2>1, <2>2 DEF Fits, Carries, Belongs
  <2>4. reqs' = [reqs EXCEPT ![s] = t]
    BY <1>2, <1>8
  <2> QED
    BY <1>2, <1>3, <1>5, <1>6, <2>3, <2>4, GoesOn
<1>9. CASE ~ r.last
  <2> PICK n : n = r.seq + 1
    OBVIOUS
  <2> PICK f : f = r.first + r.len
    OBVIOUS
  <2> PICK t : t = Chunk(after, n, f)
    OBVIOUS
  <2>1. n \in Nat /\ f \in Nat /\ f >= 1 /\ f <= SampleRows(after.scenario) + 1
    <3>1. after.scenario = r.scenario /\ r.first + r.len <= SampleRows(r.scenario)
      BY <1>4, <1>7, <1>9
    <3>2. n \in Nat /\ f \in Nat /\ f >= 1
      BY <1>4
    <3>3. f <= SampleRows(r.scenario) + 1
      BY <1>6, <3>1, <3>2
    <3> QED
      BY <3>1, <3>2, <3>3
  <2>2. Fits(t, Jobs, work)
    BY <1>4, <1>6, <1>7, <2>1, ChunkFits
  <2>3. reqs' = [reqs EXCEPT ![s] = t]
    BY <1>2, <1>9
  <2> QED
    BY <1>2, <1>3, <1>5, <1>6, <2>2, <2>3, GoesOn
<1> QED
  BY <1>8, <1>9

LEMMA SampleRoomKeeps ==
  ASSUME Shape, NEW s \in Slots, SampleRoom(s) PROVE Shape'
<1> USE DEF Shape
<1>1. reqs[s].kind = "sample" /\ End(s) /\ UNCHANGED <<jobVars, quotas, space, env, up>>
  BY DEF SampleRoom
<1>2. StoreOK' /\ Jobs' = Jobs /\ SpaceOK' /\ work' = work
  BY <1>1, SameStore, SameSpace DEF space, env
<1> QED
  BY <1>1, <1>2, SampleEnds

LEMMA SampleFailKeeps ==
  ASSUME Shape, NEW s \in Slots, SampleFail(s) PROVE Shape'
<1> USE DEF Shape
<1> PICK r : r = reqs[s]
  OBVIOUS
<1>1. /\ r.kind = "sample" /\ r.pc \in Guarded /\ Goto(s, "failed")
      /\ UNCHANGED <<jobVars, quotas, space, up, clear, today, work>>
  BY DEF SampleFail
<1>2. StoreOK' /\ Jobs' = Jobs /\ SpaceOK' /\ work' = work
  BY <1>1, SameStore, SameSpace DEF space
<1>3. r.job \in Jobs \cup {None}
  <2>1. r.pc = "insert" => r.job = None
    BY <1>1, AtSlot DEF Carries
  <2> QED
    BY <1>1, <2>1, AtSlot DEF Guarded, Carries
<1> QED
  BY <1>1, <1>2, <1>3, SampleMoves

(* markFailed changes the status alone.                                    *)
LEMMA FailOK ==
  ASSUME NEW job \in Job, NEW x, x = Fail(job)
  PROVE  /\ x \in Job /\ x.kind = job.kind /\ x.total = job.total /\ x.day = job.day
         /\ x.received = job.received /\ x.upserted = job.upserted
         /\ x.skipped = job.skipped /\ x.rejected = job.rejected
         /\ x.status = IF job.status = "RECEIVING" THEN "FAILED" ELSE job.status
<1>1. CASE job.status = "RECEIVING"
  <2>1. x = [job EXCEPT !.status = "FAILED", !.stale = FALSE]
    BY <1>1 DEF Fail
  <2>2. x \in Job
    BY <2>1 DEF Job, Status
  <2> QED
    BY <1>1, <2>1, <2>2 DEF Job
<1>2. CASE job.status # "RECEIVING"
  BY <1>2 DEF Fail
<1> QED
  BY <1>1, <1>2

LEMMA SampleMarkKeeps ==
  ASSUME Shape, NEW s \in Slots, SampleMark(s) PROVE Shape'
<1> USE DEF Shape
<1> PICK j : j = reqs[s].job
  OBVIOUS
<1>1. /\ reqs[s].kind = "sample" /\ reqs[s].pc = "failed" /\ Goto(s, "undo")
      /\ jobs' = IF j = None THEN jobs ELSE [jobs EXCEPT ![j] = Fail(@)]
      /\ UNCHANGED <<quotas, space, env, stored, rejects, up>>
  BY DEF SampleMark
<1>2. SpaceOK' /\ work' = work
  BY <1>1, SameSpace DEF space, env
<1>3. j \in Jobs \cup {None}
  BY <1>1, AtSlot DEF Carries
<1>4. StoreOK' /\ Jobs' = Jobs
  <2>1. CASE j = None
    BY <1>1, <2>1, SameStore DEF jobVars
  <2>2. CASE j # None
    <3>1. j \in Jobs /\ j \in Ids /\ jobs[j] \in Job
      BY <1>3, <2>2 DEF Jobs, StoreOK
    <3> PICK x : x = Fail(jobs[j])
      OBVIOUS
    <3>2. x \in Job
      BY <3>1, FailOK
    <3>3. jobs' = [jobs EXCEPT ![j] = x]
      BY <1>1, <2>2
    <3>4. StoreOK' /\ Jobs' = Jobs \cup {j}
      BY <1>1, <3>1, <3>2, <3>3, SetJob
    <3> QED
      BY <3>1, <3>4
  <2> QED
    BY <2>1, <2>2
<1> QED
  BY <1>1, <1>2, <1>3, <1>4, SampleMoves

LEMMA SampleUndoKeeps ==
  ASSUME Shape, NEW s \in Slots, SampleUndo(s) PROVE Shape'
<1> USE DEF Shape
<1> PICK rows : rows = SampleRows(reqs[s].scenario)
  OBVIOUS
<1>1. /\ reqs[s].kind = "sample" /\ End(s) /\ UNCHANGED <<jobVars, space, env, usage, up>>
      /\ seeds' = seeds - Min({seeds, rows})
  BY DEF SampleUndo
<1>2. StoreOK' /\ Jobs' = Jobs /\ work' = work
  BY <1>1, SameStore DEF env
<1>3. seeds \in Nat /\ seeds <= SeedRows /\ SeedRows \in Nat /\ rows \in Nat
  BY <1>1, SampleAlone, Bounds DEF SpaceOK
<1>4. Min({seeds, rows}) \in Nat /\ Min({seeds, rows}) <= seeds
  BY <1>3, MinOfTwo
<1>5. seeds' \in 0 .. SeedRows
  BY <1>1, <1>3, <1>4
<1>6. SpaceOK'
  BY <1>1, <1>5 DEF SpaceOK, space, env
<1> QED
  BY <1>1, <1>2, <1>6, SampleEnds

-----------------------------------------------------------------------------
(* A clear, time and faults.                                               *)
LEMMA ClearImportsKeeps ==
  ASSUME Shape, ClearImports
  PROVE  /\ Shape' /\ Jobs' = Jobs
         /\ \A j \in Jobs : jobs[j] \in Job /\ jobs'[j] = Fail(jobs[j])
<1> USE DEF Shape
<1>1. /\ jobs' = [j \in Ids |-> IF j \in Jobs THEN Fail(jobs[j]) ELSE None]
      /\ UNCHANGED <<quotas, space, stored, rejects, reqs, up, today, work>>
  BY DEF ClearImports
<1>2. \A j \in Jobs : j \in Ids /\ jobs[j] \in Job /\ Fail(jobs[j]) \in Job
  BY FailOK DEF Jobs, StoreOK
<1>3. /\ jobs' \in [Ids -> Job \cup {None}] /\ Jobs' = Jobs
      /\ \A j \in Jobs : jobs'[j] = Fail(jobs[j])
  <2>1. \A j \in Ids : jobs'[j] = IF j \in Jobs THEN Fail(jobs[j]) ELSE None
    BY <1>1
  <2>2. jobs' \in [Ids -> Job \cup {None}]
    BY <1>1, <1>2
  <2>3. \A j \in Ids : jobs'[j] # None <=> j \in Jobs
    BY <1>2, <2>1, ImportAssumption
  <2>4. Jobs' = {j \in Ids : jobs'[j] # None} /\ Jobs \subseteq Ids
    BY DEF Jobs
  <2>5. Jobs' = Jobs
    BY ONLY <2>3, <2>4
  <2> QED
    BY <1>2, <2>1, <2>2, <2>5
<1>4. StoreOK'
  BY <1>1, <1>3 DEF StoreOK
<1>5. SpaceOK' /\ work' = work
  BY <1>1, SameSpace DEF space
<1> QED
  BY <1>1, <1>2, <1>3, <1>4, <1>5, SameReqs, UpSame

LEMMA GoStaleKeeps ==
  ASSUME Shape, NEW j \in Ids, GoStale(j)
  PROVE  /\ Shape' /\ Jobs' = Jobs /\ j \in Jobs
         /\ jobs' = [jobs EXCEPT ![j].stale = TRUE] /\ jobs[j] \in Job
<1> USE DEF Shape
<1>1. /\ jobs' = [jobs EXCEPT ![j].stale = TRUE] /\ j \in Jobs
      /\ UNCHANGED <<quotas, space, env, stored, rejects, reqs, up>>
  BY DEF GoStale
<1>2. jobs[j] \in Job
  BY <1>1 DEF StoreOK, Jobs
<1> PICK x : x = [jobs[j] EXCEPT !.stale = TRUE]
  OBVIOUS
<1>3. x \in Job /\ jobs' = [jobs EXCEPT ![j] = x]
  BY <1>1, <1>2 DEF Job
<1>4. StoreOK' /\ Jobs' = Jobs
  <2>1. StoreOK' /\ Jobs' = Jobs \cup {j}
    BY <1>1, <1>3, SetJob
  <2> QED
    BY <1>1, <2>1
<1>5. SpaceOK' /\ work' = work
  BY <1>1, SameSpace DEF space, env
<1> QED
  BY <1>1, <1>2, <1>4, <1>5, SameReqs, UpSame

LEMMA ElseKeeps ==
  ASSUME Shape, ClearObjects \/ ClearTemplate \/ NextDay PROVE Shape'
<1> USE DEF Shape
<1>1. UNCHANGED <<jobVars, quotas, reqs, up, work>>
  BY DEF ClearObjects, ClearTemplate, NextDay
<1>2. StoreOK' /\ Jobs' = Jobs
  BY <1>1, SameStore
<1>3. ReqsOK' /\ UpOK'
  BY <1>1, <1>2, SameReqs, UpSame
<1>4. CASE ClearObjects
  <2>1. graph' = {} /\ today' = today
    BY <1>4 DEF ClearObjects
  <2>2. IsFiniteSet(graph') /\ Cardinality(graph') <= MaxObjects
    BY <2>1, FS_EmptySet, Bounds
  <2>3. SpaceOK'
    BY <1>1, <2>1, <2>2 DEF SpaceOK, quotas
  <2> QED
    BY <1>2, <1>3, <2>3
<1>5. CASE ClearTemplate
  <2>1. SpaceOK'
    BY <1>1, <1>5, SameSpace DEF ClearTemplate
  <2> QED
    BY <1>2, <1>3, <2>1
<1>6. CASE NextDay
  <2>1. today' \in Days /\ graph' = graph
    BY <1>6 DEF NextDay, Days, space
  <2>2. SpaceOK'
    BY <1>1, <2>1 DEF SpaceOK, quotas
  <2> QED
    BY <1>2, <1>3, <2>2
<1> QED
  BY <1>4, <1>5, <1>6

LEMMA LoseAnswerKeeps ==
  ASSUME Shape, NEW s \in Slots, LoseAnswer(s) PROVE Shape'
<1> USE DEF Shape
<1>1. /\ UNCHANGED <<jobVars, quotas, space, reqs, today, work>> /\ Awaited(s)
      /\ up' = AfterError(TRUE)
  BY DEF LoseAnswer
<1>2. StoreOK' /\ Jobs' = Jobs /\ SpaceOK'
  BY <1>1, SameStore, SameSpace DEF space
<1> QED
  BY <1>1, <1>2, Answered, SameReqs, UpAfterError

LEMMA KillKeeps ==
  ASSUME Shape, NEW s \in Slots, Kill(s) PROVE Shape'
<1> USE DEF Shape
<1>1. /\ UNCHANGED <<jobVars, quotas, space, today, work>> /\ AnswerError(s, TRUE)
  BY DEF Kill
<1>2. StoreOK' /\ Jobs' = Jobs /\ SpaceOK'
  BY <1>1, SameStore, SameSpace DEF space
<1> QED
  BY <1>1, <1>2, ErrorAnswered

(* The actions, one by one.                                                *)
AtSlotStep(s) ==
  \/ StartCreate(s) \/ StartMapping(s) \/ StartBatch(s) \/ ServerStep(s)
  \/ CreateUndo(s) \/ SampleFail(s) \/ LoseAnswer(s) \/ Kill(s)
  \/ \E n \in Nat : SendAny(s, n)
  \/ \E sc \in Scenarios : StartSample(s, sc)

LEMMA NextIs ==
  ASSUME Next
  PROVE  \/ \E s \in Slots : AtSlotStep(s)
         \/ GetImport \/ StartRun \/ Cancel \/ EditMapping
         \/ ClearImports \/ ClearObjects \/ ClearTemplate \/ NextDay
         \/ \E j \in Ids : GoStale(j)
<1>1. CASE RunnerStep
  BY <1>1 DEF RunnerStep, AtSlotStep
<1>2. ASSUME NEW s \in Slots,
             \/ ServerStep(s) \/ CreateUndo(s) \/ SampleFail(s)
             \/ LoseAnswer(s) \/ Kill(s)
             \/ \E seq \in 0 .. N - 1 : SendAny(s, seq)
             \/ \E sc \in Scenarios : StartSample(s, sc)
      PROVE  AtSlotStep(s)
  BY <1>2 DEF AtSlotStep
<1> QED
  BY <1>1, <1>2 DEF Next

LEMMA ShapeStep == ASSUME Shape, [Next]_vars PROVE Shape'
<1>1. CASE UNCHANGED vars
  <2>1. UNCHANGED <<jobVars, quotas, graph, today, work, reqs, up>>
    BY <1>1 DEF vars, space, env
  <2>2. StoreOK' /\ Jobs' = Jobs /\ SpaceOK'
    BY <2>1, SameStore, SameSpace DEF Shape
  <2> QED
    BY <2>1, <2>2, SameReqs, UpSame DEF Shape
<1>2. ASSUME NEW s \in Slots, AtSlotStep(s) PROVE Shape'
  <2>1. CASE StartCreate(s) \/ StartMapping(s) \/ StartBatch(s)
    BY <2>1, StartCreateKeeps, StartMappingKeeps, StartBatchKeeps
  <2>2. CASE CreateStats(s) \/ CreateTake(s) \/ CreateInsert(s) \/ CreateUndo(s)
    BY <2>2, CreateStatsKeeps, CreateTakeKeeps, CreateInsertKeeps, CreateUndoKeeps
  <2>3. CASE MappingRead(s) \/ MappingSet(s)
    BY <2>3, MappingReadKeeps, MappingSetKeeps
  <2>4. CASE TooLarge(s) \/ BatchJob(s) \/ BatchPrior(s) \/ Upsert(s) \/ Commit(s) \/ Refund(s)
    BY <2>4, TooLargeKeeps, BatchJobKeeps, BatchPriorKeeps, UpsertKeeps, CommitKeeps,
       RefundKeeps
  <2>5. CASE SampleCheck(s) \/ SampleTake(s) \/ SampleTemplate(s) \/ SampleInsert(s)
               \/ SampleCommit(s)
    BY <2>5, SampleCheckKeeps, SampleTakeKeeps, SampleTemplateKeeps, SampleInsertKeeps,
       SampleCommitKeeps
  <2>6. CASE SampleRoom(s) \/ SampleFail(s) \/ SampleMark(s) \/ SampleUndo(s)
    BY <2>6, SampleRoomKeeps, SampleFailKeeps, SampleMarkKeeps, SampleUndoKeeps
  <2>7. CASE LoseAnswer(s) \/ Kill(s)
    BY <2>7, LoseAnswerKeeps, KillKeeps
  <2>8. CASE \E n \in Nat : SendAny(s, n)
    BY <2>8, SendAnyKeeps
  <2>9. CASE \E sc \in Scenarios : StartSample(s, sc)
    BY <2>9, StartSampleKeeps
  <2> QED
    BY <1>2, <2>1, <2>2, <2>3, <2>4, <2>5, <2>6, <2>7, <2>8, <2>9 DEF AtSlotStep, ServerStep
<1>3. CASE GetImport \/ StartRun \/ Cancel \/ EditMapping
  BY <1>3, GetImportKeeps, StartRunKeeps, CancelKeeps, EditMappingKeeps
<1>4. CASE ClearImports \/ ClearObjects \/ ClearTemplate \/ NextDay
  BY <1>4, ClearImportsKeeps, ElseKeeps
<1>5. CASE \E j \in Ids : GoStale(j)
  BY <1>5, GoStaleKeeps
<1> QED
  BY <1>1, <1>2, <1>3, <1>4, <1>5, NextIs

LEMMA ShapeInit == Init => Shape
<1> SUFFICES ASSUME Init PROVE Shape
  OBVIOUS
<1>1. {} \in FinBatches /\ {} \in FinInts /\ Cardinality({}) = 0 /\ IsFiniteSet({})
  BY FS_EmptySet DEF FinBatches, FinInts
<1>2. Jobs = {}
  BY DEF Init, Jobs
<1>3. StoreOK
  BY <1>1, <1>2, Bounds DEF Init, StoreOK
<1>4. SpaceOK
  BY <1>1, Bounds DEF Init, SpaceOK, Days
<1>5. ReqsOK
  BY NoReqFits DEF Init, ReqsOK
<1>6. UpOK
  <2>1. up = IdleUpload /\ 0 \in 0 .. Retries /\ <<>> \in Seq(Batches)
    BY Bounds DEF Init
  <2>2. up \in Upload
    BY <2>1 DEF IdleUpload, Upload
  <2>3. up.pc = "idle" /\ up.job = None /\ up.plan = <<>> /\ up.next = 0 /\ up.req = None
    BY <2>1 DEF IdleUpload
  <2> QED
    BY <2>2, <2>3 DEF UpOK, UpFits
<1> QED
  BY <1>3, <1>4, <1>5, <1>6 DEF Shape

LEMMA ShapeHolds == Spec => []Shape
<1>1. Shape /\ [Next]_vars => Shape'
  BY ShapeStep
<1> QED
  BY <1>1, ShapeInit, PTL DEF Spec

LEMMA ShapeTypes == Shape => TypeOK
<1> SUFFICES ASSUME Shape PROVE TypeOK
  OBVIOUS
<1>1. \A j \in Jobs : j \in Ids
  BY DEF Jobs
<1>2. up \in Upload /\ up.next \in 0 .. Len(up.plan) /\ up.attempt \in 0 .. Retries
      /\ up.job \in Ids \cup {None}
  BY DEF Shape, UpOK, UpFits, Upload
<1> QED
  BY <1>1, <1>2 DEF Shape, StoreOK, SpaceOK, TypeOK

-----------------------------------------------------------------------------
(* What the steps do to the requests and the jobs.                         *)
ToNew(s) == CreateInsert(s) \/ SampleInsert(s)
ToStore(s) == Commit(s) \/ SampleCommit(s)

(* A sample request moves on without its job.                              *)
Moves(s) ==
  /\ reqs[s].kind = "sample" /\ reqs'[s].kind = "sample"
  /\ reqs'[s].job = reqs[s].job /\ reqs'[s].scenario = reqs[s].scenario

LEMMA SlotAfter ==
  ASSUME Shape, NEW s \in Slots, AtSlotStep(s)
  PROVE  /\ \A o \in Slots \ {s} : reqs'[o] = reqs[o]
         /\ work' = work
         /\ \/ LoseAnswer(s) /\ reqs' = reqs
            \/ reqs'[s] = NoReq
            \/ StartCreate(s) /\ reqs'[s].kind = "create" /\ reqs'[s].pc = "stats"
            \/ CreateStats(s) /\ reqs'[s].kind = "create" /\ reqs'[s].pc = "take"
            \/ CreateTake(s) /\ reqs'[s].kind = "create" /\ reqs'[s].pc = "insert"
            \/ (StartMapping(s) \/ MappingRead(s)) /\ reqs'[s].kind = "mapping"
            \/ reqs'[s].kind = "batch"
                 /\ \/ StartBatch(s) \/ BatchJob(s) \/ BatchPrior(s) \/ Upsert(s) \/ Commit(s)
                    \/ \E n \in Nat : SendAny(s, n)
            \/ SampleFail(s) /\ Moves(s) /\ reqs'[s].pc = "failed" /\ reqs[s].pc \in Guarded
            \/ SampleCheck(s) /\ Moves(s) /\ reqs'[s].pc = "take" /\ reqs[s].pc = "check"
            \/ SampleTake(s) /\ Moves(s) /\ reqs'[s].pc = "template" /\ reqs[s].pc = "take"
            \/ /\ SampleTemplate(s) /\ Moves(s) /\ reqs'[s].pc = "insert"
               /\ reqs[s].pc = "template"
            \/ SampleMark(s) /\ Moves(s) /\ reqs'[s].pc = "undo" /\ reqs[s].pc = "failed"
            \/ /\ \E sc \in Scenarios : StartSample(s, sc)
               /\ reqs'[s].kind = "sample" /\ reqs'[s].pc = "check" /\ reqs'[s].job = None
            \/ /\ Upsert(s) /\ Moves(s) /\ reqs[s].pc = "upsert" /\ reqs'[s].pc = "commit"
               /\ reqs'[s].seq = reqs[s].seq
            \/ SampleInsert(s) \/ SampleCommit(s)
<1> PICK r : r = reqs[s]
  OBVIOUS
<1>0. r \in Request /\ NoReq \in Request /\ DOMAIN reqs = Slots
  BY AtSlot, NoReqFits DEF Shape, ReqsOK, Fits
<1>t. ASSUME NEW t, reqs' = [reqs EXCEPT ![s] = t]
      PROVE  reqs'[s] = t /\ \A o \in Slots \ {s} : reqs'[o] = reqs[o]
  BY <1>0, <1>t
<1>e. ASSUME End(s) PROVE reqs'[s] = NoReq /\ \A o \in Slots \ {s} : reqs'[o] = reqs[o]
  BY <1>e, <1>t DEF End
<1>a. ASSUME NEW b, AnswerError(s, b)
      PROVE  reqs'[s] = NoReq /\ \A o \in Slots \ {s} : reqs'[o] = reqs[o]
  BY <1>a, <1>e DEF AnswerError
<1>g. ASSUME NEW p, Goto(s, p), p # r.pc
      PROVE  /\ reqs'[s].pc = p /\ reqs'[s].kind = r.kind /\ reqs'[s].job = r.job
             /\ reqs'[s].scenario = r.scenario
             /\ \A o \in Slots \ {s} : reqs'[o] = reqs[o]
  <2>1. PICK t : t = [r EXCEPT !.pc = p]
    OBVIOUS
  <2>2. reqs' = [reqs EXCEPT ![s] = t]
    BY <1>g, <2>1 DEF Goto
  <2>3. t.pc = p /\ t.kind = r.kind /\ t.job = r.job /\ t.scenario = r.scenario
    BY <1>0, <2>1, Moved
  <2> QED
    BY <1>t, <2>2, <2>3
<1>1. CASE StartCreate(s)
  <2>1. PICK t : t = [NoReq EXCEPT !.kind = "create", !.pc = "stats"]
    OBVIOUS
  <2>2. reqs' = [reqs EXCEPT ![s] = t] /\ work' = work
    BY <1>1, <2>1 DEF StartCreate, env
  <2>3. t.kind = "create" /\ t.pc = "stats"
    BY <2>1 DEF NoReq
  <2> QED
    BY <1>1, <1>t, <2>2, <2>3
<1>2. CASE CreateStats(s)
  <2>1. /\ r.kind = "create" /\ r.pc = "stats" /\ work' = work
        /\ AnswerError(s, FALSE) \/ Goto(s, "take")
    BY <1>2 DEF CreateStats, env
  <2> QED
    BY <1>2, <1>a, <1>g, <2>1
<1>3. CASE CreateTake(s)
  <2>1. work' = work /\ r.kind = "create" /\ today \in Days
    BY <1>3 DEF CreateTake, env, Shape, SpaceOK
  <2>2. CASE AnswerError(s, FALSE)
    BY <1>a, <2>1, <2>2
  <2>3. CASE ~ AnswerError(s, FALSE)
    <3>1. PICK t : t = [r EXCEPT !.pc = "insert", !.day = today]
      OBVIOUS
    <3>2. reqs' = [reqs EXCEPT ![s] = t]
      BY <1>3, <2>3, <3>1 DEF CreateTake
    <3>3. t.kind = "create" /\ t.pc = "insert"
      BY <1>0, <2>1, <3>1 DEF Request
    <3> QED
      BY <1>3, <1>t, <2>1, <3>2, <3>3
  <2> QED
    BY <2>2, <2>3
<1>4. CASE CreateInsert(s)
  BY <1>4, <1>e DEF CreateInsert, env
<1>5. CASE CreateUndo(s)
  BY <1>5, <1>a DEF CreateUndo
<1>6. CASE StartMapping(s)
  <2>1. PICK t : t = [NoReq EXCEPT !.kind = "mapping", !.pc = "read", !.job = up.job]
    OBVIOUS
  <2>2. reqs' = [reqs EXCEPT ![s] = t] /\ work' = work
    BY <1>6, <2>1 DEF StartMapping, env
  <2>3. t.kind = "mapping"
    BY <2>1 DEF NoReq
  <2> QED
    BY <1>6, <1>t, <2>2, <2>3
<1>7. CASE MappingRead(s)
  <2>1. /\ r.kind = "mapping" /\ r.pc = "read" /\ work' = work
        /\ AnswerError(s, FALSE) \/ Goto(s, "set")
    BY <1>7 DEF MappingRead, env
  <2> QED
    BY <1>7, <1>a, <1>g, <2>1
<1>8. CASE MappingSet(s)
  <2>1. AnswerError(s, FALSE) \/ End(s)
    BY <1>8 DEF MappingSet
  <2>2. work' = work
    BY <1>8 DEF MappingSet, env
  <2> QED
    BY <1>a, <1>e, <2>1, <2>2
<1>9. CASE StartBatch(s) \/ \E n \in Nat : SendAny(s, n)
  <2>1. PICK n : reqs' = [reqs EXCEPT ![s] = BatchReq(n)]
    BY <1>9 DEF StartBatch, SendAny
  <2>2. work' = work
    BY <1>9 DEF StartBatch, SendAny, env
  <2>3. BatchReq(n).kind = "batch"
    BY DEF BatchReq, NoReq
  <2> QED
    BY <1>9, <1>t, <2>1, <2>2, <2>3
<1>10. CASE TooLarge(s)
  BY <1>10, <1>e DEF TooLarge, env
<1>11. CASE BatchJob(s)
  <2>1. PICK t : t = [r EXCEPT !.pc = "prior", !.snap = jobs[r.job]]
    OBVIOUS
  <2>2. reqs' = [reqs EXCEPT ![s] = t] /\ r.kind = "batch" /\ work' = work
    BY <1>11, <2>1 DEF BatchJob, env
  <2>3. t.kind = "batch"
    BY <1>0, <2>1, <2>2 DEF Request
  <2> QED
    BY <1>11, <1>t, <2>2, <2>3
<1>12. CASE BatchPrior(s)
  <2>1. PICK t : t = [r EXCEPT !.pc = "upsert", !.day = today, !.prior = stored[r.job]]
    OBVIOUS
  <2>2. /\ r.kind = "batch" /\ work' = work
        /\ End(s) \/ AnswerError(s, FALSE) \/ reqs' = [reqs EXCEPT ![s] = t]
    BY <1>12, <2>1 DEF BatchPrior, env
  <2>3. t.kind = "batch"
    BY <1>0, <2>1, <2>2 DEF Request
  <2> QED
    BY <1>12, <1>a, <1>e, <1>t, <2>2, <2>3
<1>13. CASE Upsert(s)
  <2>1. PICK t : t = [r EXCEPT !.pc = "commit", !.done = Outcome(r)]
    OBVIOUS
  <2>2. reqs' = [reqs EXCEPT ![s] = t] /\ r.pc = "upsert" /\ work' = work
    BY <1>13, <2>1 DEF Upsert, env
  <2>3. /\ t.kind = r.kind /\ t.job = r.job /\ t.scenario = r.scenario /\ t.pc = "commit"
        /\ t.seq = r.seq
    BY <1>0, <2>1 DEF Request
  <2>4. r.kind \in {"batch", "sample"}
    BY <2>2, AtSlot, Writing DEF Shape
  <2> QED
    BY <1>13, <1>t, <2>2, <2>3, <2>4 DEF Moves
<1>14. CASE Commit(s)
  <2>1. r.kind = "batch" /\ r.pc = "commit" /\ work' = work
    BY <1>14 DEF Commit, env
  <2>2. Goto(s, "refund") \/ End(s)
    BY <1>14 DEF Commit
  <2> QED
    BY <1>14, <1>e, <1>g, <2>1, <2>2
<1>15. CASE Refund(s)
  BY <1>15, <1>e DEF Refund, env
<1>16. CASE SampleCheck(s)
  <2>1. r.kind = "sample" /\ r.pc = "check" /\ work' = work
    BY <1>16 DEF SampleCheck, env
  <2>2. Goto(s, "take") \/ End(s)
    BY <1>16 DEF SampleCheck
  <2> QED
    BY <1>16, <1>e, <1>g, <2>1, <2>2 DEF Moves
<1>17. CASE SampleTake(s)
  <2>1. r.kind = "sample" /\ r.pc = "take" /\ work' = work
    BY <1>17 DEF SampleTake, env
  <2>2. Goto(s, "template") \/ End(s)
    BY <1>17 DEF SampleTake
  <2> QED
    BY <1>17, <1>e, <1>g, <2>1, <2>2 DEF Moves
<1>18. CASE SampleTemplate(s)
  <2>1. r.kind = "sample" /\ r.pc = "template" /\ work' = work /\ Goto(s, "insert")
    BY <1>18 DEF SampleTemplate, env
  <2> QED
    BY <1>18, <1>g, <2>1 DEF Moves
<1>19. CASE SampleInsert(s)
  <2>1. \E t : reqs' = [reqs EXCEPT ![s] = t]
    BY <1>19 DEF SampleInsert
  <2>2. work' = work
    BY <1>19 DEF SampleInsert, env
  <2> QED
    BY <1>19, <1>t, <2>1, <2>2
<1>20. CASE SampleCommit(s)
  <2>1. \E t : reqs' = [reqs EXCEPT ![s] = t]
    BY <1>20 DEF SampleCommit
  <2>2. work' = work
    BY <1>20 DEF SampleCommit, env
  <2> QED
    BY <1>20, <1>t, <2>1, <2>2
<1>21. CASE SampleRoom(s)
  BY <1>21, <1>e DEF SampleRoom, env
<1>22. CASE SampleMark(s)
  <2>1. r.kind = "sample" /\ r.pc = "failed" /\ work' = work /\ Goto(s, "undo")
    BY <1>22 DEF SampleMark, env
  <2> QED
    BY <1>22, <1>g, <2>1 DEF Moves
<1>23. CASE SampleUndo(s)
  BY <1>23, <1>e DEF SampleUndo, env
<1>24. CASE SampleFail(s)
  <2>1. r.kind = "sample" /\ r.pc \in Guarded /\ work' = work /\ Goto(s, "failed")
    BY <1>24 DEF SampleFail
  <2>2. r.pc # "failed"
    BY <2>1 DEF Guarded
  <2> QED
    BY <1>24, <1>g, <2>1, <2>2 DEF Moves
<1>25. CASE LoseAnswer(s)
  BY <1>25 DEF LoseAnswer
<1>26. CASE Kill(s)
  BY <1>26, <1>a DEF Kill
<1>27. CASE \E sc \in Scenarios : StartSample(s, sc)
  <2>1. PICK sc \in Scenarios : StartSample(s, sc)
    BY <1>27
  <2>2. PICK t : t = [NoReq EXCEPT !.kind = "sample", !.pc = "check", !.scenario = sc]
    OBVIOUS
  <2>3. reqs' = [reqs EXCEPT ![s] = t] /\ work' = work
    BY <2>1, <2>2 DEF StartSample, env
  <2>4. t.kind = "sample" /\ t.pc = "check" /\ t.job = None
    BY <2>2 DEF NoReq
  <2> QED
    BY <1>27, <1>t, <2>3, <2>4
<1> QED
  BY <1>1, <1>2, <1>3, <1>4, <1>5, <1>6, <1>7, <1>8, <1>9, <1>10, <1>11, <1>12, <1>13,
     <1>14, <1>15, <1>16, <1>17, <1>18, <1>19, <1>20, <1>21, <1>22, <1>23, <1>24, <1>25,
     <1>26, <1>27 DEF AtSlotStep, ServerStep

(* A job that is not counted on: its numbers stay, and so does its end.    *)
SameCounts(x, y) ==
  /\ y.kind = x.kind /\ y.total = x.total /\ y.day = x.day
  /\ y.received = x.received /\ y.upserted = x.upserted
  /\ y.skipped = x.skipped /\ y.rejected = x.rejected
  /\ x.status # "RECEIVING" => y.status = x.status
  /\ y.status = "DONE" => x.status = "DONE"

JobsKept ==
  /\ Jobs' = Jobs /\ stored' = stored
  /\ \A j \in Jobs : SameCounts(jobs[j], jobs'[j])

LEMMA JobsSame == ASSUME UNCHANGED jobVars PROVE JobsKept
BY DEF jobVars, JobsKept, Jobs, SameCounts

LEMMA OneJob ==
  ASSUME StoreOK, NEW j \in Jobs, NEW x \in Job, jobs' = [jobs EXCEPT ![j] = x],
         UNCHANGED <<stored, rejects>>, SameCounts(jobs[j], x)
  PROVE  JobsKept
<1>1. j \in Ids
  BY DEF Jobs
<1>2. Jobs' = Jobs \cup {j} /\ jobs'[j] = x /\ \A i \in Ids \ {j} : jobs'[i] = jobs[i]
  BY <1>1, SetJob
<1>3. ASSUME NEW i \in Jobs PROVE SameCounts(jobs[i], jobs'[i])
  <2>1. i \in Ids
    BY DEF Jobs
  <2> QED
    BY <1>2, <2>1 DEF SameCounts
<1> QED
  BY <1>2, <1>3 DEF JobsKept

LEMMA FailCounts == ASSUME NEW job \in Job PROVE SameCounts(job, Fail(job))
<1> PICK x : x = Fail(job)
  OBVIOUS
<1>1. /\ x.kind = job.kind /\ x.total = job.total /\ x.day = job.day
      /\ x.received = job.received /\ x.upserted = job.upserted
      /\ x.skipped = job.skipped /\ x.rejected = job.rejected
      /\ x.status = IF job.status = "RECEIVING" THEN "FAILED" ELSE job.status
  BY FailOK
<1> QED
  BY <1>1 DEF SameCounts

LEMMA JobsAfter ==
  ASSUME Shape, NEW s \in Slots, AtSlotStep(s), ~ ToNew(s), ~ ToStore(s) PROVE JobsKept
<1> PICK r : r = reqs[s]
  OBVIOUS
<1>1. CASE MappingSet(s)
  <2> PICK j : j = r.job
    OBVIOUS
  <2>1. r.kind = "mapping" /\ stored' = stored /\ rejects' = rejects
    BY <1>1 DEF MappingSet
  <2>2. j \in Jobs /\ jobs[j] \in Job
    BY <2>1, AtSlot DEF Shape, Carries, Jobs, StoreOK
  <2>3. CASE jobs' = jobs
    BY <2>1, <2>3, JobsSame DEF jobVars
  <2>4. CASE jobs' # jobs
    <3> PICK x : x = [jobs[j] EXCEPT !.mapped = TRUE, !.stale = FALSE]
      OBVIOUS
    <3>1. jobs' = [jobs EXCEPT ![j] = x]
      BY <1>1, <2>4 DEF MappingSet
    <3>2. x \in Job /\ SameCounts(jobs[j], x)
      BY <2>2 DEF Job, SameCounts
    <3> QED
      BY <2>1, <2>2, <3>1, <3>2, OneJob DEF Shape
  <2> QED
    BY <2>3, <2>4
<1>2. CASE SampleMark(s)
  <2> PICK j : j = r.job
    OBVIOUS
  <2>1. /\ r.kind = "sample" /\ r.pc = "failed" /\ stored' = stored /\ rejects' = rejects
        /\ jobs' = IF j = None THEN jobs ELSE [jobs EXCEPT ![j] = Fail(@)]
    BY <1>2 DEF SampleMark
  <2>2. j \in Jobs \cup {None}
    BY <2>1, AtSlot DEF Shape, Carries
  <2>3. CASE j = None
    BY <2>1, <2>3, JobsSame DEF jobVars
  <2>4. CASE j # None
    <3> PICK x : x = Fail(jobs[j])
      OBVIOUS
    <3>1. j \in Jobs /\ jobs[j] \in Job
      BY <2>2, <2>4 DEF Shape, Jobs, StoreOK
    <3>2. jobs' = [jobs EXCEPT ![j] = x]
      BY <2>1, <2>4
    <3>3. x \in Job /\ SameCounts(jobs[j], x)
      BY <3>1, FailOK, FailCounts
    <3> QED
      BY <2>1, <3>1, <3>2, <3>3, OneJob DEF Shape
  <2> QED
    BY <2>3, <2>4
<1>3. CASE StartCreate(s) \/ CreateStats(s) \/ CreateTake(s) \/ CreateUndo(s)
           \/ StartMapping(s) \/ MappingRead(s) \/ LoseAnswer(s) \/ Kill(s)
  BY <1>3, JobsSame DEF StartCreate, CreateStats, CreateTake, CreateUndo, StartMapping,
     MappingRead, LoseAnswer, Kill
<1>4. CASE StartBatch(s) \/ TooLarge(s) \/ BatchJob(s) \/ BatchPrior(s) \/ Upsert(s)
           \/ Refund(s) \/ \E n \in Nat : SendAny(s, n)
  BY <1>4, JobsSame DEF StartBatch, TooLarge, BatchJob, BatchPrior, Upsert, Refund, SendAny
<1>5. CASE SampleCheck(s) \/ SampleTake(s) \/ SampleTemplate(s) \/ SampleRoom(s)
           \/ SampleUndo(s) \/ SampleFail(s) \/ \E sc \in Scenarios : StartSample(s, sc)
  BY <1>5, JobsSame DEF SampleCheck, SampleTake, SampleTemplate, SampleRoom, SampleUndo,
     SampleFail, StartSample
<1> QED
  BY <1>1, <1>2, <1>3, <1>4, <1>5 DEF AtSlotStep, ServerStep, ToNew, ToStore

(* A step that is at no slot.                                              *)
ElseStep ==
  \/ GetImport \/ StartRun \/ Cancel \/ EditMapping
  \/ ClearImports \/ ClearObjects \/ ClearTemplate \/ NextDay
  \/ \E j \in Ids : GoStale(j)

LEMMA ElseAfter ==
  ASSUME Shape, ElseStep \/ UNCHANGED vars
  PROVE  JobsKept /\ reqs' = reqs /\ work' = work
<1>1. reqs' = reqs /\ work' = work
  BY DEF ElseStep, GetImport, StartRun, Cancel, EditMapping, ClearImports, ClearObjects,
     ClearTemplate, NextDay, GoStale, env, vars
<1>2. CASE ClearImports
  <2>1. stored' = stored
    BY <1>2 DEF ClearImports
  <2> QED
    BY <1>1, <1>2, <2>1, ClearImportsKeeps, FailCounts DEF JobsKept
<1>3. ASSUME NEW j \in Ids, GoStale(j) PROVE JobsKept
  <2>1. j \in Jobs /\ jobs[j] \in Job /\ jobs' = [jobs EXCEPT ![j].stale = TRUE]
    BY <1>3, GoStaleKeeps
  <2> PICK x : x = [jobs[j] EXCEPT !.stale = TRUE]
    OBVIOUS
  <2>2. x \in Job /\ SameCounts(jobs[j], x) /\ jobs' = [jobs EXCEPT ![j] = x]
    BY <2>1 DEF Job, SameCounts
  <2>3. UNCHANGED <<stored, rejects>>
    BY <1>3 DEF GoStale
  <2> QED
    BY <2>1, <2>2, <2>3, OneJob DEF Shape
<1>4. CASE \/ GetImport \/ StartRun \/ Cancel \/ EditMapping \/ ClearObjects
           \/ ClearTemplate \/ NextDay \/ UNCHANGED vars
  <2>1. UNCHANGED jobVars
    BY <1>4 DEF GetImport, StartRun, Cancel, EditMapping, ClearObjects, ClearTemplate,
       NextDay, vars
  <2> QED
    BY <1>1, <2>1, JobsSame
<1> QED
  BY <1>1, <1>2, <1>3, <1>4 DEF ElseStep

LEMMA Steps ==
  ASSUME [Next]_vars
  PROVE  (\E s \in Slots : AtSlotStep(s)) \/ ElseStep \/ UNCHANGED vars
BY NextIs DEF ElseStep

(* A job that is new has no batch, and nothing is known of it.             *)
LEMMA CreateInsertAfter ==
  ASSUME Shape, NEW s \in Slots, CreateInsert(s)
  PROVE  \E j \in Ids \ Jobs :
           /\ Jobs' = Jobs \cup {j} /\ stored' = stored /\ stored[j] = {}
           /\ \A i \in Jobs : jobs'[i] = jobs[i]
           /\ jobs'[j] = NewJob("file", N, reqs[s].day) /\ jobs'[j] \in Job
           /\ reqs[s].kind = "create" /\ reqs[s].pc = "insert" /\ reqs'[s] = NoReq
           /\ reqs[s].day \in Days
           /\ up' = IF Awaited(s)
                    THEN [up EXCEPT !.pc = "mapping", !.req = None, !.job = j] ELSE up
<1> USE DEF Shape
<1> PICK r : r = reqs[s]
  OBVIOUS
<1>1. /\ r.kind = "create" /\ r.pc = "insert" /\ stored' = stored /\ rejects' = rejects
      /\ reqs' = [reqs EXCEPT ![s] = NoReq]
  BY DEF CreateInsert, End
<1>2. PICK j \in Ids \ Jobs :
        /\ jobs' = [jobs EXCEPT ![j] = NewJob("file", N, r.day)]
        /\ AnswerOk(s, [up EXCEPT !.pc = "mapping", !.req = None, !.job = j])
  BY DEF CreateInsert
<1>3. NewJob("file", N, r.day) \in Job /\ r.day \in Days
  BY AtSlot, NewJobOK, Bounds DEF Request
<1>4. /\ Jobs' = Jobs \cup {j} /\ jobs'[j] = NewJob("file", N, r.day)
      /\ \A i \in Ids \ {j} : jobs'[i] = jobs[i]
  BY <1>1, <1>2, <1>3, SetJob
<1>5. Jobs \subseteq Ids /\ stored[j] = {} /\ reqs'[s] = NoReq
  BY <1>1 DEF Jobs, StoreOK, ReqsOK
<1> QED
  BY <1>1, <1>2, <1>3, <1>4, <1>5 DEF AnswerOk

LEMMA SampleInsertAfter ==
  ASSUME Shape, NEW s \in Slots, SampleInsert(s)
  PROVE  \E j \in Ids \ Jobs :
           /\ Jobs' = Jobs \cup {j} /\ stored' = stored /\ stored[j] = {}
           /\ \A i \in Jobs : jobs'[i] = jobs[i]
           /\ jobs'[j] = NewJob("sample", SampleRows(reqs[s].scenario), today)
           /\ jobs'[j] \in Job
           /\ reqs[s].kind = "sample" /\ reqs[s].pc = "insert" /\ work = "sample"
           /\ reqs'[s].kind = "sample" /\ reqs'[s].pc = "upsert" /\ reqs'[s].job = j
           /\ reqs'[s].seq = 0 /\ reqs'[s].scenario = reqs[s].scenario
           /\ reqs[s].scenario \in Scenarios /\ today \in Days
<1> USE DEF Shape
<1> PICK r : r = reqs[s]
  OBVIOUS
<1>1. PICK job : job = NewJob("sample", SampleRows(r.scenario), today)
  OBVIOUS
<1>2. /\ r.kind = "sample" /\ r.pc = "insert" /\ stored' = stored /\ rejects' = rejects
  BY DEF SampleInsert
<1>3. PICK j \in Ids \ Jobs :
        /\ jobs' = [jobs EXCEPT ![j] = job]
        /\ reqs' = [reqs EXCEPT ![s] = Chunk([r EXCEPT !.job = j, !.snap = job], 0, 1)]
  BY <1>1 DEF SampleInsert
<1>4. work = "sample" /\ r.scenario \in Scenarios /\ SampleRows(r.scenario) \in Nat
  BY <1>2, SampleAlone
<1>5. job \in Job /\ today \in Days
  BY <1>1, <1>4, NewJobOK DEF SpaceOK
<1>6. /\ Jobs' = Jobs \cup {j} /\ jobs'[j] = job
      /\ \A i \in Ids \ {j} : jobs'[i] = jobs[i]
  BY <1>2, <1>3, <1>5, SetJob
<1>7. PICK m : m = [r EXCEPT !.job = j, !.snap = job]
  OBVIOUS
<1>8. /\ m \in Request /\ m.kind = "sample" /\ m.scenario = r.scenario /\ m.snap = job
      /\ m.job = j
  <2>1. r \in Request /\ r.kind = "sample" /\ j \in Ids
    BY <1>2, AtSlot
  <2> QED
    BY ONLY <1>5, <1>7, <2>1 DEF Request
<1> PICK t : t = Chunk(m, 0, 1)
  OBVIOUS
<1>9. 1 <= SampleRows(m.scenario) + 1
  BY <1>4, <1>8
<1>10. /\ t.kind = "sample" /\ t.pc = "upsert" /\ t.job = j /\ t.seq = 0
       /\ t.scenario = r.scenario
  BY <1>4, <1>5, <1>6, <1>8, <1>9, ChunkFits
<1>11. reqs'[s] = t
  BY <1>3, <1>7 DEF ReqsOK
<1>12. Jobs \subseteq Ids /\ stored[j] = {}
  BY DEF Jobs, StoreOK
<1> QED
  BY <1>1, <1>2, <1>4, <1>5, <1>6, <1>10, <1>11, <1>12

(* A batch that is stored: the job counts it.                              *)
Stores(r) ==
  /\ r \in Request /\ r.job \in Jobs /\ r.done \in BatchRec
  /\ r.done.seq = r.seq /\ r.done.first = r.first /\ r.done.len = r.len
  /\ Jobs' = Jobs /\ stored'[r.job] = stored[r.job] \cup {r.done}
  /\ jobs'[r.job] = Counted(jobs[r.job], r) /\ jobs[r.job] \in Job
  /\ \A i \in Ids \ {r.job} : stored'[i] = stored[i] /\ jobs'[i] = jobs[i]

LEMMA CommitAfter ==
  ASSUME Shape, NEW s \in Slots, Commit(s)
  PROVE  /\ reqs[s].kind = "batch" /\ reqs[s].pc = "commit"
         /\ \/ JobsKept /\ ~ Won(reqs[s])
            \/ Won(reqs[s]) /\ Stores(reqs[s])
         /\ \/ /\ reqs'[s] = [reqs[s] EXCEPT !.pc = "refund"] /\ up' = up /\ Won(reqs[s])
               /\ Unused(reqs[s]) > 0
            \/ reqs'[s] = NoReq /\ up' = IF Awaited(s) THEN NextBatch ELSE up
<1> USE DEF Shape
<1> PICK r : r = reqs[s]
  OBVIOUS
<1>1. /\ r.kind = "batch" /\ r.pc = "commit"
      /\ IF Won(r) THEN CommitBatch(r) ELSE LoseBatch(r)
      /\ \/ Goto(s, "refund") /\ UNCHANGED up /\ Won(r) /\ Unused(r) > 0
         \/ End(s) /\ AnswerOk(s, NextBatch)
  BY DEF Commit
<1>2. /\ r.job \in Jobs /\ r.done \in BatchRec /\ r \in Request
      /\ r.done.seq = r.seq /\ r.done.first = r.first /\ r.done.len = r.len
      /\ jobs[r.job] \in Job
  BY <1>1, AtSlot DEF Carries, Jobs, StoreOK
<1>3. \/ JobsKept /\ ~ Won(r)
      \/ Won(r) /\ Stores(r)
  <2>1. CASE Won(r)
    BY <1>1, <1>2, <2>1, CommitStore DEF Stores
  <2>2. CASE ~ Won(r)
    BY <1>1, <2>2, JobsSame DEF LoseBatch
  <2> QED
    BY <2>1, <2>2
<1>4. \/ reqs'[s] = [r EXCEPT !.pc = "refund"] /\ up' = up /\ Won(r) /\ Unused(r) > 0
      \/ reqs'[s] = NoReq /\ up' = IF Awaited(s) THEN NextBatch ELSE up
  BY <1>1 DEF Goto, End, AnswerOk, ReqsOK
<1> QED
  BY <1>1, <1>3, <1>4

LEMMA SampleCommitAfter ==
  ASSUME Shape, NEW s \in Slots, SampleCommit(s)
  PROVE  /\ reqs[s].kind = "sample" /\ reqs[s].pc = "commit" /\ work = "sample"
         /\ Stores(reqs[s])
         /\ reqs'[s].kind = "sample" /\ reqs'[s].job = reqs[s].job
         /\ reqs'[s].scenario = reqs[s].scenario
         /\ \/ reqs[s].last /\ reqs'[s].pc = "room"
            \/ ~ reqs[s].last /\ reqs'[s].pc = "upsert" /\ reqs'[s].seq = reqs[s].seq + 1
<1> USE DEF Shape
<1> PICK r : r = reqs[s]
  OBVIOUS
<1>1. PICK after : after = [r EXCEPT !.snap = Counted(@, r), !.done = None,
                    !.prior = @ \cup {[r.done EXCEPT !.keys = {}]}]
  OBVIOUS
<1>2. /\ r.kind = "sample" /\ r.pc = "commit" /\ CommitBatch(r)
      /\ reqs' = [reqs EXCEPT ![s] =
           IF r.last THEN [after EXCEPT !.pc = "room"]
           ELSE Chunk(after, r.seq + 1, r.first + r.len)]
  BY <1>1 DEF SampleCommit
<1>3. /\ r \in Request /\ r.job \in Jobs /\ r.snap \in Job /\ r.done \in BatchRec
      /\ r.done.seq = r.seq /\ r.done.first = r.first /\ r.done.len = r.len
      /\ r.first >= 1
      /\ ~ r.last => r.first + r.len <= SampleRows(r.scenario)
      /\ r.first \in Nat /\ r.len \in Nat /\ r.seq \in Nat /\ jobs[r.job] \in Job
  BY <1>2, AtSlot DEF Carries, Request, Jobs, StoreOK
<1>4. Stores(r)
  BY <1>2, <1>3, CommitStore DEF Stores
<1>5. work = "sample" /\ r.scenario \in Scenarios /\ SampleRows(r.scenario) \in Nat
  BY <1>2, SampleAlone
<1>6. /\ after \in Request /\ after.kind = "sample" /\ after.job = r.job
      /\ after.snap \in Job /\ after.scenario = r.scenario
  <2>1. /\ after \in Request /\ after.kind = r.kind /\ after.job = r.job
        /\ after.snap \in Job /\ after.scenario = r.scenario
    BY ONLY <1>1, <1>3, SampleAfter
  <2> QED
    BY <1>2, <2>1
<1>7. reqs'[s] = IF r.last THEN [after EXCEPT !.pc = "room"]
                 ELSE Chunk(after, r.seq + 1, r.first + r.len)
  BY <1>2 DEF ReqsOK
<1>8. CASE r.last
  <2> PICK t : t = [after EXCEPT !.pc = "room"]
    OBVIOUS
  <2>1. /\ t.pc = "room" /\ t.kind = "sample" /\ t.scenario = r.scenario
        /\ t.job = r.job
    BY <1>6, Moved
  <2> QED
    BY <1>2, <1>4, <1>5, <1>7, <1>8, <2>1
<1>9. CASE ~ r.last
  <2> PICK n : n = r.seq + 1
    OBVIOUS
  <2> PICK f : f = r.first + r.len
    OBVIOUS
  <2> PICK t : t = Chunk(after, n, f)
    OBVIOUS
  <2>1. n \in Nat /\ f \in Nat /\ f >= 1
    BY <1>3
  <2>2. f <= SampleRows(after.scenario) + 1
    BY <1>3, <1>5, <1>6, <1>9
  <2>3. /\ t.pc = "upsert" /\ t.kind = "sample" /\ t.scenario = r.scenario
        /\ t.job = r.job /\ t.seq = n
    BY <1>3, <1>5, <1>6, <2>1, <2>2, ChunkFits
  <2> QED
    BY <1>2, <1>4, <1>5, <1>7, <1>9, <2>3
<1> QED
  BY <1>8, <1>9

-----------------------------------------------------------------------------
(* The counters of a job are the sums over its batches, one per seq; a     *)
(* sample load has its job to itself.                                      *)
OnePerSeq(S) == \A b, c \in S : b.seq = c.seq => b = c

Tally(x, S) ==
  /\ OnePerSeq(S)
  /\ x.received = SumOf([b \in S |-> b.len], S)
  /\ x.upserted = SumOf([b \in S |-> b.upserted], S)
  /\ x.skipped = SumOf([b \in S |-> b.skipped], S)
  /\ x.rejected = SumOf([b \in S |-> Cardinality(b.rejects)], S)

Loading(r) == r.kind = "sample" /\ r.pc \in {"upsert", "commit"}

OwnJob ==
  \A s \in Slots : Loading(reqs[s]) =>
    /\ \A b \in stored[reqs[s].job] : b.seq < reqs[s].seq
    /\ \A t \in Slots : Loading(reqs[t]) /\ reqs[t].job = reqs[s].job => t = s

CountInv == OwnJob /\ \A j \in Jobs : Tally(jobs[j], stored[j])

LEMMA SumMore ==
  ASSUME NEW S, IsFiniteSet(S), NEW x, x \notin S, NEW T, T = S \cup {x},
         NEW f, NEW g, \A y \in S : f[y] \in Int /\ g[y] = f[y], g[x] \in Int
  PROVE  SumOf(g, T) = SumOf(f, S) + g[x]
<1>1. IsFiniteSet(T)
  BY FS_AddElement
<1>2. \A y \in T : g[y] \in Int
  OBVIOUS
<1>3. SumOf(g, T) = g[x] + SumOf(g, T \ {x})
  BY <1>1, <1>2, SumTake
<1>4. T \ {x} = S
  OBVIOUS
<1>5. SumOf(g, S) = SumOf(f, S)
  BY SumSame
<1>6. SumOf(f, S) \in Int
  BY SumInt
<1>7. SumOf(g, T) = g[x] + SumOf(f, S)
  BY ONLY <1>3, <1>4, <1>5, Zenon
<1>8. g[x] \in Int
  OBVIOUS
<1> QED
  BY ONLY <1>6, <1>7, <1>8

LEMMA TallyNew ==
  ASSUME NEW x, x.received = 0, x.upserted = 0, x.skipped = 0, x.rejected = 0
  PROVE  Tally(x, {})
BY SumEmpty DEF Tally, OnePerSeq

LEMMA TallySame ==
  ASSUME NEW x, NEW y, NEW S, Tally(x, S), SameCounts(x, y) PROVE Tally(y, S)
BY DEF Tally, SameCounts

LEMMA TallyMore ==
  ASSUME NEW S \in FinBatches, NEW job \in Job, Tally(job, S), NEW r, r.len \in Nat,
         r.done \in BatchRec, r.done.len = r.len, \A b \in S : b.seq # r.done.seq
  PROVE  Tally(Counted(job, r), S \cup {r.done})
<1> PICK d : d = r.done
  OBVIOUS
<1> PICK T : T = S \cup {d}
  OBVIOUS
<1> PICK x : x = Counted(job, r)
  OBVIOUS
<1>1. /\ x.received = job.received + d.len
      /\ x.upserted = job.upserted + d.upserted
      /\ x.skipped = job.skipped + d.skipped
      /\ x.rejected = job.rejected + Cardinality(d.rejects)
  BY CountedOK
<1>2. /\ IsFiniteSet(S) /\ S \subseteq BatchRec /\ d \in BatchRec /\ d \notin S
      /\ IsFiniteSet(T) /\ T \subseteq BatchRec
  <2>1. IsFiniteSet(S)
    BY DEF FinBatches
  <2>2. IsFiniteSet(T)
    BY <2>1, FS_AddElement
  <2> QED
    BY <2>1, <2>2 DEF FinBatches
<1>3. \A b \in BatchRec : /\ b.len \in Int /\ b.upserted \in Int /\ b.skipped \in Int
                          /\ Cardinality(b.rejects) \in Int
  <2> TAKE b \in BatchRec
  <2>1. b.len \in Int /\ b.upserted \in Int /\ b.skipped \in Int /\ IsFiniteSet(b.rejects)
    BY DEF BatchRec, FinInts
  <2> QED
    BY <2>1, FS_CardinalityType
<1>4. SumOf([b \in T |-> b.len], T) = SumOf([b \in S |-> b.len], S) + d.len
  <2> PICK f : f = [b \in S |-> b.len]
    OBVIOUS
  <2> PICK g : g = [b \in T |-> b.len]
    OBVIOUS
  <2>1. (\A y \in S : f[y] \in Int /\ g[y] = f[y]) /\ g[d] = d.len /\ g[d] \in Int
    BY <1>2, <1>3
  <2> QED
    BY <1>2, <2>1, SumMore
<1>5. SumOf([b \in T |-> b.upserted], T) = SumOf([b \in S |-> b.upserted], S) + d.upserted
  <2> PICK f : f = [b \in S |-> b.upserted]
    OBVIOUS
  <2> PICK g : g = [b \in T |-> b.upserted]
    OBVIOUS
  <2>1. (\A y \in S : f[y] \in Int /\ g[y] = f[y]) /\ g[d] = d.upserted /\ g[d] \in Int
    BY <1>2, <1>3
  <2> QED
    BY <1>2, <2>1, SumMore
<1>6. SumOf([b \in T |-> b.skipped], T) = SumOf([b \in S |-> b.skipped], S) + d.skipped
  <2> PICK f : f = [b \in S |-> b.skipped]
    OBVIOUS
  <2> PICK g : g = [b \in T |-> b.skipped]
    OBVIOUS
  <2>1. (\A y \in S : f[y] \in Int /\ g[y] = f[y]) /\ g[d] = d.skipped /\ g[d] \in Int
    BY <1>2, <1>3
  <2> QED
    BY <1>2, <2>1, SumMore
<1>7. SumOf([b \in T |-> Cardinality(b.rejects)], T)
        = SumOf([b \in S |-> Cardinality(b.rejects)], S) + Cardinality(d.rejects)
  <2> PICK f : f = [b \in S |-> Cardinality(b.rejects)]
    OBVIOUS
  <2> PICK g : g = [b \in T |-> Cardinality(b.rejects)]
    OBVIOUS
  <2>1. /\ \A y \in S : f[y] \in Int /\ g[y] = f[y]
        /\ g[d] = Cardinality(d.rejects) /\ g[d] \in Int
    BY <1>2, <1>3
  <2> QED
    BY <1>2, <2>1, SumMore
<1>8. OnePerSeq(T)
  BY DEF Tally, OnePerSeq
<1> QED
  BY <1>1, <1>4, <1>5, <1>6, <1>7, <1>8 DEF Tally

(* Nothing was loading at the slot, or it goes on with the same batch.     *)
LEMMA OwnKept ==
  ASSUME Shape, OwnJob, NEW s \in Slots, \A o \in Slots \ {s} : reqs'[o] = reqs[o],
         \A j \in Jobs : stored'[j] = stored[j],
         Loading(reqs'[s]) => /\ Loading(reqs[s]) /\ reqs'[s].job = reqs[s].job
                              /\ reqs'[s].seq = reqs[s].seq
  PROVE  OwnJob'
<1>1. ASSUME NEW o \in Slots
      PROVE  Loading(reqs'[o]) => /\ Loading(reqs[o]) /\ reqs'[o].job = reqs[o].job
                                  /\ reqs'[o].seq = reqs[o].seq
  BY <1>1
<1>2. ASSUME NEW o \in Slots, Loading(reqs[o]) PROVE reqs[o].job \in Jobs
  BY <1>2, AtSlot DEF Shape, Carries, Loading
<1>3. ASSUME NEW o \in Slots, Loading(reqs'[o])
      PROVE  /\ \A b \in stored'[reqs'[o].job] : b.seq < reqs'[o].seq
             /\ \A t \in Slots : Loading(reqs'[t]) /\ reqs'[t].job = reqs'[o].job => t = o
  BY <1>1, <1>2, <1>3 DEF OwnJob
<1> QED
  BY <1>3 DEF OwnJob, Loading

LEMMA CountStep ==
  ASSUME Shape, CountInv, [Next]_vars PROVE CountInv'
<1>1. CASE ElseStep \/ UNCHANGED vars
  <2>1. JobsKept /\ reqs' = reqs
    BY <1>1, ElseAfter
  <2>2. OwnJob'
    BY <2>1 DEF JobsKept, CountInv, OwnJob
  <2>3. \A j \in Jobs' : Tally(jobs'[j], stored'[j])
    BY <2>1, TallySame DEF JobsKept, CountInv
  <2> QED
    BY <2>2, <2>3 DEF CountInv
<1>2. ASSUME NEW s \in Slots, AtSlotStep(s) PROVE CountInv'
  <2> PICK r : r = reqs[s]
    OBVIOUS
  <2>0. (\A o \in Slots \ {s} : reqs'[o] = reqs[o]) /\ work' = work
    BY <1>2, SlotAfter
  <2>n. ASSUME JobsKept PROVE \A j \in Jobs' : Tally(jobs'[j], stored'[j])
    BY <2>n, TallySame DEF JobsKept, CountInv
  <2>1. CASE ~ ToNew(s) /\ ~ ToStore(s)
    <3>1. JobsKept
      BY <1>2, <2>1, JobsAfter
    <3>2. Loading(reqs'[s]) => /\ Loading(r) /\ reqs'[s].job = r.job /\ reqs'[s].seq = r.seq
      BY <1>2, <2>1, SlotAfter DEF ToNew, ToStore, Loading, NoReq, Moves
    <3>3. OwnJob'
      BY <2>0, <3>1, <3>2, OwnKept DEF JobsKept, CountInv
    <3> QED
      BY <2>n, <3>1, <3>3 DEF CountInv
  <2>2. CASE CreateInsert(s)
    <3>1. PICK j \in Ids \ Jobs :
           /\ Jobs' = Jobs \cup {j} /\ stored' = stored /\ stored[j] = {}
           /\ \A i \in Jobs : jobs'[i] = jobs[i]
           /\ jobs'[j] = NewJob("file", N, reqs[s].day)
           /\ reqs'[s] = NoReq
      BY <2>2, CreateInsertAfter
    <3>2. OwnJob'
      BY <2>0, <3>1, OwnKept DEF Loading, NoReq, CountInv
    <3>3. Tally(jobs'[j], stored'[j])
      BY <3>1, TallyNew DEF NewJob
    <3>4. \A i \in Jobs : Tally(jobs'[i], stored'[i])
      BY <3>1 DEF CountInv
    <3> QED
      BY <3>1, <3>2, <3>3, <3>4 DEF CountInv
  <2>3. CASE SampleInsert(s)
    <3>1. PICK j \in Ids \ Jobs :
           /\ Jobs' = Jobs \cup {j} /\ stored' = stored /\ stored[j] = {}
           /\ \A i \in Jobs : jobs'[i] = jobs[i]
           /\ jobs'[j] = NewJob("sample", SampleRows(reqs[s].scenario), today)
           /\ reqs'[s].kind = "sample" /\ reqs'[s].pc = "upsert" /\ reqs'[s].job = j
      BY <2>3, SampleInsertAfter
    <3>2. ASSUME NEW o \in Slots \ {s}, Loading(reqs[o]) PROVE reqs[o].job \in Jobs
      BY <3>2, AtSlot DEF Shape, Carries, Loading
    <3>3. ASSUME NEW o \in Slots, Loading(reqs'[o])
          PROVE  /\ \A b \in stored'[reqs'[o].job] : b.seq < reqs'[o].seq
                 /\ \A t \in Slots : Loading(reqs'[t]) /\ reqs'[t].job = reqs'[o].job => t = o
      BY <2>0, <3>1, <3>2, <3>3 DEF OwnJob, CountInv
    <3>4. OwnJob'
      BY <3>3 DEF OwnJob, Loading
    <3>5. Tally(jobs'[j], stored'[j])
      BY <3>1, TallyNew DEF NewJob
    <3>6. \A i \in Jobs : Tally(jobs'[i], stored'[i])
      BY <3>1 DEF CountInv
    <3> QED
      BY <3>1, <3>4, <3>5, <3>6 DEF CountInv
  <2>m. ASSUME Stores(r), \A b \in stored[r.job] : b.seq # r.seq
        PROVE  \A j \in Jobs' : Tally(jobs'[j], stored'[j])
    <3>1. r.job \in Ids /\ stored[r.job] \in FinBatches /\ r.len \in Nat
      BY <2>m DEF Shape, StoreOK, Stores, Jobs, Request
    <3>2. Tally(jobs[r.job], stored[r.job]) /\ jobs[r.job] \in Job
      BY <2>m DEF CountInv, Stores
    <3>3. \A b \in stored[r.job] : b.seq # r.done.seq
      BY <2>m DEF Stores
    <3>4. Tally(Counted(jobs[r.job], r), stored[r.job] \cup {r.done})
      BY <2>m, <3>1, <3>2, <3>3, TallyMore DEF Stores
    <3>5. \A j \in Jobs : j \in Ids /\ Tally(jobs[j], stored[j])
      BY DEF CountInv, Jobs
    <3> QED
      BY <2>m, <3>4, <3>5 DEF Stores
  <2>4. CASE Commit(s)
    <3>1. /\ r.kind = "batch"
          /\ \/ JobsKept
             \/ Won(r) /\ Stores(r)
          /\ reqs'[s] = [r EXCEPT !.pc = "refund"] \/ reqs'[s] = NoReq
      BY <2>4, CommitAfter
    <3>2. \A o \in Slots : ~ Loading(reqs'[o])
      <4>1. reqs'[s].kind \in {"batch", "none"}
        BY <3>1, AtSlot DEF NoReq, Shape, Request
      <4>2. work # "sample"
        BY <3>1, AtSlot DEF Shape, Belongs
      <4>3. \A o \in Slots \ {s} : reqs[o].kind # "sample"
        BY <4>2, AtSlot DEF Shape, Belongs
      <4> QED
        BY <2>0, <4>1, <4>3 DEF Loading
    <3>3. OwnJob'
      BY <3>2 DEF OwnJob, Loading
    <3>4. \A j \in Jobs' : Tally(jobs'[j], stored'[j])
      BY <2>m, <2>n, <3>1 DEF Won
    <3> QED
      BY <3>3, <3>4 DEF CountInv
  <2>5. CASE SampleCommit(s)
    <3>1. /\ r.kind = "sample" /\ r.pc = "commit" /\ Stores(r)
          /\ reqs'[s].kind = "sample" /\ reqs'[s].job = r.job
          /\ \/ reqs'[s].pc = "room"
             \/ reqs'[s].pc = "upsert" /\ reqs'[s].seq = r.seq + 1
      BY <2>5, SampleCommitAfter
    <3>2. /\ \A b \in stored[r.job] : b.seq < r.seq
          /\ \A t \in Slots : Loading(reqs[t]) /\ reqs[t].job = r.job => t = s
      BY <3>1 DEF CountInv, OwnJob, Loading
    <3>3. r.seq \in Nat /\ stored[r.job] \subseteq BatchRec /\ r.job \in Ids
      BY <3>1 DEF Stores, Request, Shape, StoreOK, Jobs, FinBatches
    <3>4. \A b \in stored[r.job] : b.seq \in Nat /\ b.seq # r.seq
      BY <3>2, <3>3 DEF BatchRec
    <3>5. ASSUME NEW o \in Slots \ {s}, Loading(reqs[o])
          PROVE  reqs[o].job \in Ids \ {r.job}
      BY <3>2, <3>5, AtSlot DEF Shape, Carries, Loading, Jobs
    <3>6. ASSUME NEW o \in Slots, Loading(reqs'[o])
          PROVE  /\ \A b \in stored'[reqs'[o].job] : b.seq < reqs'[o].seq
                 /\ \A t \in Slots : Loading(reqs'[t]) /\ reqs'[t].job = reqs'[o].job => t = o
      <4>1. CASE o = s
        <5>1. reqs'[s].seq = r.seq + 1 /\ reqs'[s].job = r.job
          BY <3>1, <3>6, <4>1 DEF Loading
        <5>2. \A b \in stored'[r.job] : b \in stored[r.job] \/ b.seq = r.seq
          BY <3>1 DEF Stores
        <5>3. \A b \in stored'[r.job] : b.seq < r.seq + 1
          BY <3>2, <3>3, <3>4, <5>2
        <5>4. \A t \in Slots \ {s} : Loading(reqs'[t]) => reqs'[t].job # r.job
          BY <2>0, <3>5
        <5> QED
          BY <4>1, <5>1, <5>3, <5>4
      <4>2. CASE o # s
        <5>1. reqs'[o] = reqs[o] /\ reqs[o].job \in Ids \ {r.job}
          BY <2>0, <3>5, <3>6, <4>2
        <5>2. stored'[reqs[o].job] = stored[reqs[o].job]
          BY <3>1, <5>1 DEF Stores
        <5>3. Loading(reqs[o])
          BY <3>6, <5>1
        <5>4. \A b \in stored[reqs[o].job] : b.seq < reqs[o].seq
          BY <5>3 DEF CountInv, OwnJob
        <5>5. ASSUME NEW t \in Slots, Loading(reqs'[t]), reqs'[t].job = reqs'[o].job
              PROVE  t = o
          <6>1. t # s
            BY <3>1, <5>1, <5>5
          <6>2. reqs'[t] = reqs[t]
            BY <2>0, <6>1
          <6> QED
            BY <5>1, <5>3, <5>5, <6>2 DEF CountInv, OwnJob
        <5> QED
          BY <5>1, <5>2, <5>4, <5>5
      <4> QED
        BY <4>1, <4>2
    <3>7. OwnJob'
      BY <3>6 DEF OwnJob, Loading
    <3> QED
      BY <2>m, <3>1, <3>4, <3>7 DEF CountInv
  <2> QED
    BY <2>1, <2>2, <2>3, <2>4, <2>5 DEF ToNew, ToStore
<1> QED
  BY <1>1, <1>2, Steps

LEMMA CountInit == Init => CountInv
<1> SUFFICES ASSUME Init PROVE CountInv
  OBVIOUS
<1>1. Jobs = {} /\ \A s \in Slots : reqs[s] = NoReq
  BY DEF Init, Jobs
<1> QED
  BY <1>1 DEF CountInv, OwnJob, Loading, NoReq

LEMMA CountsMatch == ASSUME Shape, CountInv PROVE CountersMatchBatches
<1> SUFFICES ASSUME NEW j \in Jobs
             PROVE  /\ \A b, c \in stored[j] : b.seq = c.seq => b = c
                    /\ jobs[j].received = Sum(j, "len")
                    /\ jobs[j].upserted = Sum(j, "upserted")
                    /\ jobs[j].skipped = Sum(j, "skipped")
                    /\ jobs[j].rejected
                         = MapThenSumSet(LAMBDA b : Cardinality(b.rejects), stored[j])
  BY DEF CountersMatchBatches
<1> PICK S : S = stored[j]
  OBVIOUS
<1>1. Tally(jobs[j], S)
  BY DEF CountInv
<1>2. \A f : Sum(j, f) = SumOf([b \in S |-> b[f]], S)
  BY SumIs DEF Sum
<1>3. MapThenSumSet(LAMBDA b : Cardinality(b.rejects), S)
        = SumOf([b \in S |-> Cardinality(b.rejects)], S)
  BY SumIs
<1>4. /\ Sum(j, "len") = SumOf([b \in S |-> b.len], S)
      /\ Sum(j, "upserted") = SumOf([b \in S |-> b.upserted], S)
      /\ Sum(j, "skipped") = SumOf([b \in S |-> b.skipped], S)
  BY <1>2
<1>5. OnePerSeq(S)
  BY <1>1 DEF Tally
<1>6. \A b, c \in S : b.seq = c.seq => b = c
  BY <1>5 DEF OnePerSeq
<1> QED
  BY <1>1, <1>3, <1>4, <1>6 DEF Tally

-----------------------------------------------------------------------------
(* The rows of the batches before one.                                     *)
Before(S, n) == {c \in S : c.seq < n}
Upto(S, n) == \A k \in 0 .. n - 1 : \E c \in S : c.seq = k
RowsOf(S) == SumOf([b \in S |-> b.len], S)

LEMMA SumWithin ==
  ASSUME NEW S, IsFiniteSet(S), NEW f, \A x \in S : f[x] \in Int /\ f[x] >= 0,
         NEW T, T \subseteq S
  PROVE  SumOf(f, T) <= SumOf(f, S)
<1> PICK D : D = S \ T
  OBVIOUS
<1>0. IsFiniteSet(D) /\ IsFiniteSet(T)
  BY FS_Subset
<1>1. SumOf(f, T) \in Int
  BY <1>0, SumInt
<1> DEFINE Q == {U \in SUBSET D : SumOf(f, T) <= SumOf(f, T \cup U)}
<1>2. {} \in Q
  <2>1. T \cup {} = T
    OBVIOUS
  <2> QED
    BY <1>1, <2>1
<1>3. ASSUME NEW U \in SUBSET D, U # {}, U \ {Pick(U)} \in Q PROVE U \in Q
  <2> PICK p : p = Pick(U)
    OBVIOUS
  <2>1. p \in U
    BY <1>3 DEF Pick
  <2> PICK V : V = T \cup U
    OBVIOUS
  <2>2. IsFiniteSet(V) /\ p \in V /\ \A x \in V : f[x] \in Int
    BY <2>1, FS_Subset
  <2>3. SumOf(f, V) = f[p] + SumOf(f, V \ {p})
    BY <2>2, SumTake
  <2>4. V \ {p} = T \cup (U \ {p})
    BY <2>1
  <2>5. SumOf(f, T) <= SumOf(f, V \ {p})
    BY <1>3, <2>4
  <2>6. SumOf(f, V \ {p}) \in Int
    BY <2>2, FS_Subset, SumInt
  <2>7. f[p] \in Int /\ f[p] >= 0
    BY <2>1
  <2>8. SumOf(f, T) <= SumOf(f, V)
    BY ONLY <1>1, <2>3, <2>5, <2>6, <2>7
  <2> QED
    BY <2>8
<1> HIDE DEF Q
<1>4. \A U \in SUBSET D : U # {} /\ U \ {Pick(U)} \in Q => U \in Q
  BY <1>3
<1>6. \A U \in SUBSET D : U \in Q
  <2>1. IsFiniteSet(D)
    BY <1>0
  <2> QED
    BY ONLY <1>2, <1>4, <2>1, PickInduction, Zenon
<1>5. T \cup D = S
  OBVIOUS
<1> QED
  BY <1>5, <1>6 DEF Q

LEMMA RowsOfAre ==
  ASSUME NEW S \in FinBatches, NEW n
  PROVE  /\ Before(S, n) \in FinBatches /\ IsFiniteSet(S) /\ S \subseteq BatchRec
         /\ RowsOf(S) \in Nat /\ FirstRow(S, n) \in Nat
         /\ FirstRow(S, n) = RowsOf(Before(S, n)) + 1
         /\ FirstRow(S, n) <= RowsOf(S) + 1
<1> PICK B : B = Before(S, n)
  OBVIOUS
<1>1. /\ IsFiniteSet(S) /\ S \subseteq BatchRec /\ B \subseteq S /\ IsFiniteSet(B)
      /\ B \in FinBatches /\ B = {b \in S : b.seq < n}
  BY FS_Subset DEF FinBatches, Before
<1> PICK f : f = [b \in S |-> b.len]
  OBVIOUS
<1> PICK g : g = [b \in B |-> b.len]
  OBVIOUS
<1>2. /\ \A b \in S : f[b] \in Int /\ f[b] >= 0
      /\ \A b \in B : g[b] \in Int /\ g[b] >= 0 /\ f[b] = g[b]
  BY <1>1 DEF BatchRec
<1>3. SumOf(f, S) \in Nat /\ SumOf(g, B) \in Nat
  BY <1>1, <1>2, SumInt
<1>4. SumOf(f, B) = SumOf(g, B)
  BY <1>1, <1>2, SumSame
<1>5. SumOf(f, B) <= SumOf(f, S)
  BY <1>1, <1>2, SumWithin
<1>6. FirstRow(S, n) = SumOf(g, B) + 1
  BY <1>1, SumIs DEF FirstRow
<1>7. RowsOf(S) = SumOf(f, S) /\ RowsOf(B) = SumOf(g, B)
  BY DEF RowsOf
<1>8. FirstRow(S, n) = RowsOf(B) + 1 /\ RowsOf(B) \in Nat /\ RowsOf(B) <= RowsOf(S)
  BY ONLY <1>3, <1>4, <1>5, <1>6, <1>7
<1>9. FirstRow(S, n) \in Nat /\ FirstRow(S, n) <= RowsOf(S) + 1 /\ RowsOf(S) \in Nat
  BY ONLY <1>3, <1>7, <1>8
<1> QED
  BY <1>1, <1>8, <1>9

LEMMA RowsMore ==
  ASSUME NEW S \in FinBatches, NEW c \in BatchRec, c \notin S
  PROVE  RowsOf(S \cup {c}) = RowsOf(S) + c.len
<1> PICK T : T = S \cup {c}
  OBVIOUS
<1> PICK f : f = [b \in S |-> b.len]
  OBVIOUS
<1> PICK g : g = [b \in T |-> b.len]
  OBVIOUS
<1>1. IsFiniteSet(S) /\ S \subseteq BatchRec
  BY DEF FinBatches
<1>2. (\A y \in S : f[y] \in Int /\ g[y] = f[y]) /\ g[c] = c.len /\ g[c] \in Int
  BY <1>1 DEF BatchRec
<1>3. SumOf(g, T) = SumOf(f, S) + g[c]
  BY <1>1, <1>2, SumMore
<1> QED
  BY <1>2, <1>3 DEF RowsOf

LEMMA FirstRowNext ==
  ASSUME NEW S \in FinBatches, OnePerSeq(S), NEW c \in S
  PROVE  FirstRow(S, c.seq + 1) = FirstRow(S, c.seq) + c.len
<1> PICK B : B = Before(S, c.seq)
  OBVIOUS
<1>1. c \in BatchRec /\ c.seq \in Nat /\ c.len \in Nat /\ \A b \in S : b.seq \in Nat
  BY DEF FinBatches, BatchRec
<1>2. B \in FinBatches /\ c \notin B
  <2>1. B \in FinBatches
    BY RowsOfAre
  <2>2. B = {b \in S : b.seq < c.seq}
    BY DEF Before
  <2>3. ~ (c.seq < c.seq)
    BY <1>1
  <2> QED
    BY <2>1, <2>2, <2>3
<1>3. Before(S, c.seq + 1) = B \cup {c}
  <2>1. \A b \in S : b.seq < c.seq + 1 <=> b.seq < c.seq \/ b.seq = c.seq
    BY <1>1
  <2>2. \A b \in S : b.seq = c.seq => b = c
    BY DEF OnePerSeq
  <2>3. Before(S, c.seq + 1) = {b \in S : b.seq < c.seq + 1} /\ B = {b \in S : b.seq < c.seq}
    BY DEF Before
  <2> QED
    BY <2>1, <2>2, <2>3
<1>4. RowsOf(B \cup {c}) = RowsOf(B) + c.len /\ RowsOf(B) \in Nat
  BY <1>1, <1>2, RowsMore, RowsOfAre
<1>5. FirstRow(S, c.seq + 1) = RowsOf(B \cup {c}) + 1 /\ FirstRow(S, c.seq) = RowsOf(B) + 1
  BY <1>3, RowsOfAre
<1> QED
  BY ONLY <1>1, <1>4, <1>5

LEMMA FirstRowAll ==
  ASSUME NEW S \in FinBatches, NEW n, \A b \in S : b.seq < n
  PROVE  FirstRow(S, n) = RowsOf(S) + 1
<1>1. Before(S, n) = S
  BY DEF Before
<1> QED
  BY <1>1, RowsOfAre

(* The batches of a job lie end to end.                                    *)
Stacked(S) ==
  \A b \in S :
    /\ b.from = b.first /\ b.first = FirstRow(S, b.seq) /\ Upto(S, b.seq)
    /\ b.len >= 1 /\ b.first + b.len - 1 <= N /\ Bytes(b) <= GatewayBytes

(* A batch that follows goes after all of them but those that follow it.   *)
LEMMA StackMore ==
  ASSUME NEW S \in FinBatches, Stacked(S), NEW d \in BatchRec,
         \A b \in S : b.seq # d.seq, d.from = d.first, d.first = FirstRow(S, d.seq),
         Upto(S, d.seq), d.len >= 1, d.first + d.len - 1 <= N, Bytes(d) <= GatewayBytes,
         NEW T, T = S \cup {d}
  PROVE  /\ Stacked(T)
         /\ \A n \in Nat : Upto(S, n) => /\ Upto(T, n) /\ Before(T, n) = Before(S, n)
                                         /\ FirstRow(T, n) = FirstRow(S, n)
<1>1. d.seq \in Nat /\ \A b \in S : b.seq \in Nat
  BY DEF FinBatches, BatchRec
<1>2. ASSUME NEW n \in Nat, Upto(S, n)
      PROVE  /\ Upto(T, n) /\ Before(T, n) = Before(S, n)
             /\ FirstRow(T, n) = FirstRow(S, n)
  <2>1. ~ (d.seq < n)
    <3> SUFFICES ASSUME d.seq < n PROVE FALSE
      OBVIOUS
    <3>1. d.seq \in 0 .. n - 1
      BY <1>1
    <3> QED
      BY <1>2, <3>1 DEF Upto
  <2>2. Before(T, n) = Before(S, n)
    BY <2>1 DEF Before
  <2>3. Upto(T, n)
    BY <1>2 DEF Upto
  <2> QED
    BY <2>2, <2>3 DEF FirstRow, Before
<1>3. ASSUME NEW b \in T
      PROVE  /\ b.from = b.first /\ b.first = FirstRow(T, b.seq) /\ Upto(T, b.seq)
             /\ b.len >= 1 /\ b.first + b.len - 1 <= N /\ Bytes(b) <= GatewayBytes
  <2>1. CASE b = d
    BY <1>1, <1>2, <2>1
  <2>2. CASE b \in S
    BY <1>1, <1>2, <2>2 DEF Stacked
  <2> QED
    BY <2>1, <2>2
<1> QED
  BY <1>2, <1>3 DEF Stacked

(* So they hold no more rows than the file has.                            *)
LEMMA StackedRows ==
  ASSUME NEW S \in FinBatches, Stacked(S), OnePerSeq(S) PROVE RowsOf(S) \in Nat /\ RowsOf(S) <= N
<1>0. RowsOf(S) \in Nat /\ IsFiniteSet(S) /\ S \subseteq BatchRec /\ N \in Nat
  BY RowsOfAre, Bounds
<1>1. CASE S = {}
  <2>1. RowsOf(S) = 0
    BY <1>1, SumEmpty DEF RowsOf
  <2> QED
    BY <1>0, <2>1
<1>2. CASE S # {}
  <2> PICK Q : Q = {b.seq : b \in S}
    OBVIOUS
  <2> PICK f : f = [b \in S |-> b.seq]
    OBVIOUS
  <2>1. f \in Surjection(S, Q)
    BY DEF Surjection
  <2>2. IsFiniteSet(Q) /\ Q # {} /\ Q \subseteq Int
    BY <1>0, <1>2, <2>1, FS_Surjection DEF BatchRec
  <2>3. PICK n \in Q : \A m \in Q : m <= n
    BY <2>2, GreatestNumber
  <2>4. PICK c \in S : c.seq = n
    BY <2>3
  <2>5. \A b \in S : b.seq < c.seq + 1
    <3>1. \A b \in S : b.seq <= n /\ b.seq \in Nat
      BY <1>0, <2>3 DEF BatchRec
    <3> QED
      BY <2>4, <3>1
  <2>6. FirstRow(S, c.seq + 1) = RowsOf(S) + 1
    BY <2>5, FirstRowAll
  <2>7. FirstRow(S, c.seq + 1) = FirstRow(S, c.seq) + c.len
    BY FirstRowNext
  <2>8. c.first = FirstRow(S, c.seq) /\ c.first + c.len - 1 <= N
    BY DEF Stacked
  <2>9. c.first \in Nat /\ c.len \in Nat
    BY <1>0 DEF BatchRec
  <2> QED
    BY ONLY <1>0, <2>6, <2>7, <2>8, <2>9
<1> QED
  BY <1>1, <1>2

-----------------------------------------------------------------------------
(* What the runner sends fits the batches stored so far, and its plan.     *)
Small(r) == r.kind = "batch" /\ Bytes(r) <= GatewayBytes

Follows(r, S) ==
  /\ r.first = FirstRow(S, r.seq) /\ Upto(S, r.seq)
  /\ r.last => r.first + r.len = N + 1
  /\ r.pc # "job" => r.snap.received + 1 >= r.first /\ r.snap.total = N
  /\ r.pc = "upsert" => Before(r.prior, r.seq) = Before(S, r.seq)
  /\ r.pc = "commit" => r.done.from = r.first
  /\ r.pc # "refund"

Planned(b, u) ==
  /\ b.seq <= u.next /\ b.seq < Len(u.plan)
  /\ u.plan[b.seq + 1] = [first |-> b.first, len |-> b.len]

(* An upload, the batches of its job and the requests at work.             *)
Placed(u, S, q) ==
  /\ Upto(S, u.next)
  /\ \A b \in S : Planned(b, u)
  /\ \A s \in Slots : Small(q[s]) /\ q[s].job = u.job =>
       Planned(q[s], u) /\ (q[s].last <=> q[s].seq = Len(u.plan) - 1)

UpPlaced ==
  /\ up.plan # <<>> => Tiles(up.plan, 1, N + 1)
  /\ up.pc \in {"final", "done"} => up.next = Len(up.plan)
  /\ up.job # None => Placed(up, stored[up.job], reqs)

RunnerInv ==
  Runner =>
    /\ \A j \in Jobs : Stacked(stored[j]) /\ jobs[j].total = N
    /\ \A s \in Slots : Small(reqs[s]) => Follows(reqs[s], stored[reqs[s].job])
    /\ UpPlaced

LEMMA BatchIs ==
  ASSUME Shape, NEW s \in Slots, NEW r, r = reqs[s], r.kind = "batch"
  PROVE  /\ r \in Request /\ r.job \in Jobs /\ r.job \in Ids /\ jobs[r.job] \in Job
         /\ stored[r.job] \in FinBatches
         /\ r.seq \in Nat /\ r.first \in Nat /\ r.len \in Nat
         /\ r.first >= 1 /\ r.len >= 1 /\ r.first + r.len - 1 <= N
         /\ r.pc \in BatchPcs /\ (r.pc # "job" => r.snap \in Job /\ Small(r))
BY AtSlot DEF Shape, Carries, Request, Jobs, StoreOK, Small

LEMMA RunnerOf ==
  ASSUME Shape, CountInv, RunnerInv, Runner, NEW j \in Jobs
  PROVE  /\ Stacked(stored[j]) /\ jobs[j].total = N /\ OnePerSeq(stored[j])
         /\ stored[j] \in FinBatches /\ jobs[j].received = RowsOf(stored[j])
BY DEF RunnerInv, CountInv, Tally, RowsOf, Shape, StoreOK, Jobs

(* The upload goes on with its plan and its job.                           *)
UpStays(u) ==
  /\ u.plan = up.plan /\ u.next = up.next /\ u.job = up.job
  /\ u.pc \in {"final", "done"} => up.next = Len(up.plan)

LEMMA RunnerQuiet ==
  ASSUME Shape, RunnerInv, Runner, work' = work, JobsKept, UpStays(up'),
         \A s \in Slots : Small(reqs'[s]) => reqs'[s] = reqs[s]
  PROVE  RunnerInv'
<1>1. \A j \in Jobs' : Stacked(stored'[j]) /\ jobs'[j].total = N
  BY DEF RunnerInv, JobsKept, SameCounts
<1>2. \A s \in Slots : Small(reqs'[s]) => Follows(reqs'[s], stored'[reqs'[s].job])
  BY DEF RunnerInv, JobsKept
<1>3. (up'.plan # <<>> => Tiles(up'.plan, 1, N + 1))
      /\ (up'.pc \in {"final", "done"} => up'.next = Len(up'.plan))
  BY DEF RunnerInv, UpPlaced, UpStays
<1>4. ASSUME up'.job # None PROVE Placed(up', stored'[up'.job], reqs')
  <2>1. Placed(up, stored[up.job], reqs)
    BY <1>4 DEF RunnerInv, UpPlaced, UpStays
  <2>2. stored'[up'.job] = stored[up.job]
    BY DEF JobsKept, UpStays
  <2> QED
    BY <2>1, <2>2 DEF Placed, Planned, UpStays
<1> QED
  BY <1>1, <1>2, <1>3, <1>4 DEF RunnerInv, UpPlaced, Small

(* Nobody runs the upload of a script: it is never at its end.             *)
Quiet == up.next = 0 /\ up.pc \notin {"final", "done"}

LEMMA StoppedStays ==
  ASSUME Shape, UpPlaced \/ Quiet
  PROVE  UpStays(Stopped) /\ UpStays(up) /\ \A b \in BOOLEAN : UpStays(AfterError(b))
<1> PICK u : u = Stopped
  OBVIOUS
<1> PICK v : v = [up EXCEPT !.req = None, !.attempt = @ + 1]
  OBVIOUS
<1>0. up \in Upload
  BY DEF Shape, UpOK, UpFits
<1>1. u.plan = up.plan /\ u.next = up.next /\ u.job = up.job /\ u.pc = "stopped"
  BY <1>0 DEF Stopped, Upload
<1>2. v.plan = up.plan /\ v.next = up.next /\ v.job = up.job /\ v.pc = up.pc
  BY <1>0 DEF Upload
<1>3. UpStays(u) /\ UpStays(v) /\ UpStays(up)
  BY <1>1, <1>2 DEF UpStays, UpPlaced, Quiet
<1>4. ASSUME NEW b \in BOOLEAN PROVE AfterError(b) = u \/ AfterError(b) = v
  BY DEF AfterError
<1> QED
  BY <1>3, <1>4

LEMMA ErrorStays ==
  ASSUME Shape, UpPlaced \/ Quiet, NEW s \in Slots, NEW b \in BOOLEAN, AnswerError(s, b)
  PROVE  UpStays(up')
BY StoppedStays DEF AnswerError

(* The runner waits for a request, or sets a mapping.                      *)
LEMMA SentStays ==
  ASSUME Shape, UpPlaced \/ Quiet, NEW s, up' = [up EXCEPT !.req = s] PROVE UpStays(up')
<1>1. up'.plan = up.plan /\ up'.next = up.next /\ up'.job = up.job /\ up'.pc = up.pc
  BY DEF Shape, UpOK, UpFits, Upload
<1> QED
  BY <1>1 DEF UpStays, UpPlaced, Quiet

LEMMA MappedStays ==
  ASSUME Shape, UpPlaced \/ Quiet, NEW s \in Slots, MappingSet(s) PROVE UpStays(up')
<1>1. \/ AnswerError(s, FALSE)
      \/ AnswerOk(s, [up EXCEPT !.pc = "batches", !.req = None, !.mapped = TRUE,
                        !.attempt = 0])
  BY DEF MappingSet
<1>2. CASE up' = [up EXCEPT !.pc = "batches", !.req = None, !.mapped = TRUE, !.attempt = 0]
  <2>1. up \in Upload
    BY DEF Shape, UpOK, UpFits
  <2>2. up'.plan = up.plan /\ up'.next = up.next
    BY <1>2, <2>1 DEF Upload
  <2>3. up'.job = up.job /\ up'.pc = "batches"
    BY <1>2, <2>1 DEF Upload
  <2> QED
    BY <2>2, <2>3 DEF UpStays
<1> QED
  BY <1>1, <1>2, ErrorStays, StoppedStays DEF AnswerOk

LEMMA NextUp ==
  ASSUME Shape, NEW u, u = NextBatch, up.pc = "batches"
  PROVE  /\ u.plan = up.plan /\ u.next = up.next + 1 /\ u.job = up.job
         /\ u.pc \in {"final", "done"} => up.next + 1 = Len(up.plan)
<1>0. up \in Upload /\ up.next \in Nat
  BY DEF Shape, UpOK, UpFits, Upload
<1>1. PICK m : m = [up EXCEPT !.next = @ + 1, !.req = None, !.attempt = 0]
  OBVIOUS
<1>2. m.next = up.next + 1
  BY <1>0, <1>1 DEF Upload
<1>3. m.plan = up.plan /\ m.job = up.job /\ m.pc = up.pc
  BY <1>0, <1>1 DEF Upload
<1>4. CASE up.next + 1 = Len(up.plan)
  <2>1. u = [up EXCEPT !.next = @ + 1, !.req = None, !.attempt = 0, !.pc = "final"]
    BY <1>4, Zenon DEF NextBatch
  <2>2. u.next = up.next + 1
    BY <1>0, <2>1 DEF Upload
  <2>3. u.plan = up.plan /\ u.job = up.job
    BY <1>0, <2>1 DEF Upload
  <2> QED
    BY <1>4, <2>2, <2>3
<1>5. CASE up.next + 1 # Len(up.plan)
  <2>1. u = m
    BY <1>1, <1>5, Zenon DEF NextBatch
  <2> QED
    BY <1>2, <1>3, <2>1
<1> QED
  BY <1>4, <1>5

(* A request of a batch goes on.                                           *)
LEMMA RunnerMoves ==
  ASSUME Shape, RunnerInv, Runner, work' = work, JobsKept, up' = up,
         NEW s \in Slots, \A o \in Slots \ {s} : reqs'[o] = reqs[o],
         NEW r, r = reqs[s], NEW t, t = reqs'[s],
         t.kind = r.kind, t.job = r.job, t.seq = r.seq, t.first = r.first, t.len = r.len,
         t.last = r.last, Small(r) => Follows(t, stored[r.job])
  PROVE  RunnerInv'
<1>0. Small(t) <=> Small(r)
  <2>1. Bytes(t) = Bytes(r)
    BY DEF Bytes, Rows
  <2> QED
    BY <2>1 DEF Small
<1>1. \A j \in Jobs' : Stacked(stored'[j]) /\ jobs'[j].total = N
  BY DEF RunnerInv, JobsKept, SameCounts
<1>2. ASSUME NEW o \in Slots, Small(reqs'[o]) PROVE Follows(reqs'[o], stored'[reqs'[o].job])
  <2>1. CASE o = s
    BY <1>0, <1>2, <2>1 DEF JobsKept
  <2>2. CASE o # s
    BY <1>2, <2>2 DEF RunnerInv, JobsKept
  <2> QED
    BY <2>1, <2>2
<1>3. ASSUME up'.job # None PROVE Placed(up', stored'[up'.job], reqs')
  <2>1. Placed(up, stored[up.job], reqs)
    BY <1>3 DEF RunnerInv, UpPlaced
  <2>2. ASSUME NEW o \in Slots, Small(reqs'[o]), reqs'[o].job = up.job
        PROVE  Planned(reqs'[o], up) /\ (reqs'[o].last <=> reqs'[o].seq = Len(up.plan) - 1)
    <3>1. CASE o = s
      <4>1. Planned(r, up) /\ (r.last <=> r.seq = Len(up.plan) - 1)
        BY <1>0, <2>1, <2>2, <3>1 DEF Placed
      <4> QED
        BY <3>1, <4>1 DEF Planned
    <3>2. CASE o # s
      BY <2>1, <2>2, <3>2 DEF Placed
    <3> QED
      BY <3>1, <3>2
  <2> QED
    BY <2>1, <2>2 DEF Placed, JobsKept
<1>4. /\ up.plan # <<>> => Tiles(up.plan, 1, N + 1)
      /\ up.pc \in {"final", "done"} => up.next = Len(up.plan)
  BY DEF RunnerInv, UpPlaced
<1> QED
  BY <1>1, <1>2, <1>3, <1>4 DEF RunnerInv, UpPlaced, Small

LEMMA BatchJobMoves ==
  ASSUME Shape, CountInv, RunnerInv, Runner, NEW s \in Slots, BatchJob(s)
  PROVE  RunnerInv'
<1> PICK r : r = reqs[s]
  OBVIOUS
<1>1. PICK t : t = [r EXCEPT !.pc = "prior", !.snap = jobs[r.job]]
  OBVIOUS
<1>2. /\ r.kind = "batch" /\ up' = up /\ reqs' = [reqs EXCEPT ![s] = t]
      /\ UNCHANGED jobVars /\ work' = work
  BY <1>1 DEF BatchJob, env
<1>3. /\ r \in Request /\ r.job \in Jobs /\ stored[r.job] \in FinBatches
  BY <1>2, BatchIs
<1>4. /\ t.pc = "prior" /\ t.kind = r.kind /\ t.job = r.job /\ t.seq = r.seq
      /\ t.first = r.first /\ t.len = r.len /\ t.last = r.last /\ t.snap = jobs[r.job]
  BY <1>1, <1>3 DEF Request
<1>5. reqs'[s] = t /\ \A o \in Slots \ {s} : reqs'[o] = reqs[o]
  BY <1>2 DEF Shape, ReqsOK
<1>6. ASSUME Small(r) PROVE Follows(t, stored[r.job])
  <2> PICK S : S = stored[r.job]
    OBVIOUS
  <2>1. Follows(r, S)
    BY <1>6 DEF RunnerInv
  <2>2. jobs[r.job].total = N /\ jobs[r.job].received = RowsOf(S)
    BY <1>3, RunnerOf
  <2>3. FirstRow(S, r.seq) <= RowsOf(S) + 1 /\ RowsOf(S) \in Nat /\ FirstRow(S, r.seq) \in Nat
    BY <1>3, RowsOfAre
  <2>4. r.first = FirstRow(S, r.seq)
    BY <2>1 DEF Follows
  <2>5. jobs[r.job].received + 1 >= r.first
    BY <2>2, <2>3, <2>4
  <2> QED
    BY <1>4, <2>1, <2>2, <2>5 DEF Follows
<1>7. JobsKept
  BY <1>2, JobsSame
<1> QED
  BY <1>2, <1>4, <1>5, <1>6, <1>7, RunnerMoves

LEMMA UpsertMoves ==
  ASSUME Shape, CountInv, RunnerInv, Runner, NEW s \in Slots, Upsert(s)
  PROVE  RunnerInv'
<1> PICK r : r = reqs[s]
  OBVIOUS
<1>1. PICK t : t = [r EXCEPT !.pc = "commit", !.done = Outcome(r)]
  OBVIOUS
<1>2. /\ r.pc = "upsert" /\ up' = up /\ reqs' = [reqs EXCEPT ![s] = t]
      /\ UNCHANGED jobVars /\ work' = work
  BY <1>1 DEF Upsert, env
<1>3. r \in Request /\ r.kind \in {"batch", "sample"}
  BY <1>2, AtSlot, Writing DEF Shape
<1>4. /\ t.pc = "commit" /\ t.kind = r.kind /\ t.job = r.job /\ t.seq = r.seq
      /\ t.first = r.first /\ t.len = r.len /\ t.last = r.last /\ t.snap = r.snap
      /\ t.done = Outcome(r)
  BY <1>1, <1>3 DEF Request
<1>5. reqs'[s] = t /\ \A o \in Slots \ {s} : reqs'[o] = reqs[o]
  BY <1>2 DEF Shape, ReqsOK
<1>6. ASSUME Small(r) PROVE Follows(t, stored[r.job])
  <2> PICK S : S = stored[r.job]
    OBVIOUS
  <2>1. Follows(r, S)
    BY <1>6 DEF RunnerInv
  <2>2. Before(r.prior, r.seq) = Before(S, r.seq)
    BY <1>2, <2>1 DEF Follows
  <2>3. FirstRow(r.prior, r.seq) = FirstRow(S, r.seq)
    BY <2>2 DEF FirstRow, Before
  <2>4. Outcome(r).from = r.first
    BY <2>1, <2>3 DEF Outcome, Follows
  <2> QED
    BY <1>2, <1>4, <2>1, <2>4 DEF Follows
<1>7. JobsKept
  BY <1>2, JobsSame
<1> QED
  BY <1>2, <1>4, <1>5, <1>6, <1>7, RunnerMoves

(* The runner goes on to the next batch when this one is stored.           *)
LEMMA GoneOn ==
  ASSUME Shape, UpPlaced, up.pc = "batches", up.next < Len(up.plan),
         NEW S, NEW q, Placed(up, S, q), \E b \in S : b.seq = up.next,
         \A b \in S : b.seq \in Nat, \A o \in Slots : Small(q[o]) => q[o].seq \in Nat,
         NEW u, u = NextBatch
  PROVE  /\ u.job = up.job /\ Placed(u, S, q)
         /\ u.plan # <<>> => Tiles(u.plan, 1, N + 1)
         /\ u.pc \in {"final", "done"} => u.next = Len(u.plan)
<1>1. up.next \in Nat
  BY DEF Shape, UpOK, UpFits, Upload
<1>2. /\ u.plan = up.plan /\ u.next = up.next + 1 /\ u.job = up.job
      /\ u.pc \in {"final", "done"} => up.next + 1 = Len(up.plan)
  BY NextUp
<1>3. Upto(S, up.next + 1)
  <2>1. \A k \in 0 .. (up.next + 1) - 1 : k \in 0 .. up.next - 1 \/ k = up.next
    BY <1>1
  <2>2. \A k \in 0 .. up.next - 1 : \E c \in S : c.seq = k
    BY DEF Upto, Placed
  <2> QED
    BY <2>1, <2>2 DEF Upto
<1>4. ASSUME NEW b, Planned(b, up), b.seq \in Nat PROVE Planned(b, u)
  BY <1>1, <1>2, <1>4 DEF Planned
<1>5. \A b \in S : Planned(b, u)
  BY <1>4 DEF Placed
<1>6. ASSUME NEW o \in Slots, Small(q[o]), q[o].job = u.job
      PROVE  Planned(q[o], u) /\ (q[o].last <=> q[o].seq = Len(u.plan) - 1)
  <2>1. Planned(q[o], up) /\ (q[o].last <=> q[o].seq = Len(up.plan) - 1)
    BY <1>2, <1>6 DEF Placed
  <2> QED
    BY <1>2, <1>4, <1>6, <2>1
<1>7. Placed(u, S, q)
  BY <1>2, <1>3, <1>5, <1>6 DEF Placed
<1> QED
  BY <1>2, <1>7 DEF UpPlaced

LEMMA SeqNat ==
  ASSUME Shape
  PROVE  /\ \A j \in Jobs : \A b \in stored[j] : b.seq \in Nat
         /\ \A o \in Slots : Small(reqs[o]) => reqs[o].seq \in Nat
<1>1. \A o \in Slots : Small(reqs[o]) => reqs[o].seq \in Nat
  BY BatchIs DEF Small
<1> QED
  BY <1>1 DEF Shape, StoreOK, Jobs, FinBatches, BatchRec

LEMMA EndIs ==
  ASSUME Shape, NEW s \in Slots, End(s)
  PROVE  /\ reqs'[s] = NoReq /\ \A o \in Slots \ {s} : reqs'[o] = reqs[o]
         /\ \A o \in Slots : Small(reqs'[o]) => reqs'[o] = reqs[o]
BY DEF End, Shape, ReqsOK, Small, NoReq

(* The answer to a batch that is stored.                                   *)
LEMMA RunnerAnswered ==
  ASSUME Shape, RunnerInv, Runner, work' = work, JobsKept, NEW s \in Slots,
         \A o \in Slots \ {s} : reqs'[o] = reqs[o], reqs'[s] = NoReq,
         NEW r, r = reqs[s], r.kind = "batch", \E b \in stored[r.job] : b.seq = r.seq,
         up' = IF Awaited(s) THEN NextBatch ELSE up
  PROVE  RunnerInv'
<1>0. \A o \in Slots : Small(reqs'[o]) => reqs'[o] = reqs[o]
  BY DEF Small, NoReq
<1>1. CASE ~ Awaited(s)
  BY <1>0, <1>1, RunnerQuiet, StoppedStays DEF RunnerInv
<1>2. CASE Awaited(s)
  <2>1. up.pc = "batches" /\ r.job = up.job /\ r.seq = up.next /\ up.next < Len(up.plan)
    BY <1>2, Answered DEF Shape, Waits
  <2>2. up' = NextBatch
    BY <1>2
  <2>3. up.job # None /\ up.job \in Jobs /\ UpPlaced
    BY <2>1 DEF Shape, UpOK, UpFits, RunnerInv
  <2> PICK S : S = stored[up.job]
    OBVIOUS
  <2>4. Placed(up, S, reqs')
    <3>1. Placed(up, S, reqs)
      BY <2>3 DEF UpPlaced
    <3> QED
      BY <1>0, <3>1 DEF Placed
  <2>5. /\ \E b \in S : b.seq = up.next
        /\ \A b \in S : b.seq \in Nat
        /\ \A o \in Slots : Small(reqs'[o]) => reqs'[o].seq \in Nat
    BY <1>0, <2>1, <2>3, SeqNat
  <2>6. /\ up'.job = up.job /\ Placed(up', S, reqs')
        /\ up'.plan # <<>> => Tiles(up'.plan, 1, N + 1)
        /\ up'.pc \in {"final", "done"} => up'.next = Len(up'.plan)
    BY <2>1, <2>2, <2>3, <2>4, <2>5, GoneOn
  <2>7. UpPlaced'
    <3>1. stored'[up'.job] = S
      BY <2>6 DEF JobsKept
    <3> QED
      BY <2>6, <3>1 DEF UpPlaced
  <2>8. \A j \in Jobs' : Stacked(stored'[j]) /\ jobs'[j].total = N
    BY DEF RunnerInv, JobsKept, SameCounts
  <2>9. \A o \in Slots : Small(reqs'[o]) => Follows(reqs'[o], stored'[reqs'[o].job])
    BY <1>0 DEF RunnerInv, JobsKept
  <2> QED
    BY <2>7, <2>8, <2>9 DEF RunnerInv, Small
<1> QED
  BY <1>1, <1>2


LEMMA BatchPriorMoves ==
  ASSUME Shape, CountInv, RunnerInv, Runner, NEW s \in Slots, BatchPrior(s)
  PROVE  RunnerInv'
<1> PICK r : r = reqs[s]
  OBVIOUS
<1>1. PICK t : t = [r EXCEPT !.pc = "upsert", !.day = today, !.prior = stored[r.job]]
  OBVIOUS
<1>2. /\ r.kind = "batch" /\ r.pc = "prior" /\ UNCHANGED jobVars /\ work' = work
      /\ IF \E b \in stored[r.job] : b.seq = r.seq
         THEN End(s) /\ AnswerOk(s, NextBatch)
         ELSE \/ AnswerError(s, FALSE)
              \/ reqs' = [reqs EXCEPT ![s] = t] /\ up' = up
  BY <1>1 DEF BatchPrior, env
<1>3. JobsKept /\ UpPlaced
  BY <1>2, JobsSame DEF RunnerInv
<1>4. CASE \E b \in stored[r.job] : b.seq = r.seq
  <2>1. End(s) /\ AnswerOk(s, NextBatch)
    BY <1>2, <1>4
  <2>2. up' = IF Awaited(s) THEN NextBatch ELSE up
    BY <2>1 DEF AnswerOk
  <2> QED
    BY <1>2, <1>3, <1>4, <2>1, <2>2, EndIs, RunnerAnswered
<1>5. CASE AnswerError(s, FALSE)
  <2>1. End(s) /\ UpStays(up')
    BY <1>3, <1>5, ErrorStays DEF AnswerError
  <2> QED
    BY <1>2, <1>3, <2>1, EndIs, RunnerQuiet
<1>6. CASE reqs' = [reqs EXCEPT ![s] = t] /\ up' = up
  <2>1. r \in Request /\ r.job \in Jobs /\ stored[r.job] \in FinBatches /\ Small(r)
    BY <1>2, BatchIs
  <2>2. /\ t.pc = "upsert" /\ t.kind = r.kind /\ t.job = r.job /\ t.seq = r.seq
        /\ t.first = r.first /\ t.len = r.len /\ t.last = r.last /\ t.snap = r.snap
        /\ t.prior = stored[r.job]
    BY <1>1, <2>1 DEF Request
  <2>3. reqs'[s] = t /\ \A o \in Slots \ {s} : reqs'[o] = reqs[o]
    BY <1>6 DEF Shape, ReqsOK
  <2>4. Follows(r, stored[r.job])
    BY <2>1 DEF RunnerInv
  <2>5. Follows(t, stored[r.job])
    BY <1>2, <2>2, <2>4 DEF Follows
  <2> QED
    BY <1>2, <1>3, <1>6, <2>2, <2>3, <2>5, RunnerMoves
<1> QED
  BY <1>2, <1>4, <1>5, <1>6

(* The runner's last batch leaves no row unused.                           *)
LEMMA NoRefund ==
  ASSUME Shape, RunnerInv, Runner, NEW s \in Slots, NEW r, r = reqs[s],
         r.kind = "batch", r.pc = "commit"
  PROVE  ~ (Unused(r) > 0)
<1>1. Small(r) /\ r.snap \in Job /\ r.first \in Nat /\ r.len \in Nat /\ N \in Nat
  BY BatchIs, Bounds
<1>2. Follows(r, stored[r.job])
  BY <1>1 DEF RunnerInv
<1>3. r.snap.received \in Nat /\ r.snap.total \in Nat
  BY <1>1 DEF Job
<1>4. /\ r.last => r.first + r.len = N + 1
      /\ r.snap.received + 1 >= r.first /\ r.snap.total = N
  BY <1>2 DEF Follows
<1>5. r.last => ~ (r.snap.total > r.snap.received + r.len)
  BY <1>1, <1>3, <1>4
<1> QED
  BY <1>5 DEF Unused

(* A batch is stored.                                                      *)
LEMMA CommitMoves ==
  ASSUME Shape, CountInv, RunnerInv, Runner, NEW s \in Slots, Commit(s)
  PROVE  RunnerInv'
<1> PICK r : r = reqs[s]
  OBVIOUS
<1>1. /\ r.kind = "batch" /\ r.pc = "commit"
      /\ (JobsKept /\ ~ Won(r)) \/ (Won(r) /\ Stores(r))
      /\ reqs'[s] = NoReq /\ up' = IF Awaited(s) THEN NextBatch ELSE up
  BY CommitAfter, NoRefund
<1>2. work' = work /\ \A o \in Slots \ {s} : reqs'[o] = reqs[o]
  BY SlotAfter DEF AtSlotStep, ServerStep
<1>3. CASE JobsKept /\ ~ Won(r)
  <2>1. \E b \in stored[r.job] : b.seq = r.seq
    BY <1>3 DEF Won
  <2> QED
    BY <1>1, <1>2, <1>3, <2>1, RunnerAnswered
<1>4. CASE Won(r) /\ Stores(r)
  <2> PICK S : S = stored[r.job]
    OBVIOUS
  <2> PICK d : d = r.done
    OBVIOUS
  <2> PICK T : T = S \cup {d}
    OBVIOUS
  <2> PICK j : j = r.job
    OBVIOUS
  <2>1. /\ d \in BatchRec /\ d.seq = r.seq /\ d.first = r.first /\ d.len = r.len
        /\ Jobs' = Jobs /\ stored'[j] = T /\ jobs'[j] = Counted(jobs[j], r) /\ jobs[j] \in Job
        /\ \A i \in Ids \ {j} : stored'[i] = stored[i] /\ jobs'[i] = jobs[i]
        /\ \A b \in S : b.seq # d.seq
    BY <1>4 DEF Stores, Won
  <2>2. /\ S \in FinBatches /\ Small(r) /\ r.len >= 1 /\ r.first + r.len - 1 <= N
        /\ j \in Jobs /\ j \in Ids /\ r.len \in Nat
    BY <1>1, BatchIs
  <2>3. /\ Follows(r, S) /\ Stacked(S) /\ jobs[j].total = N /\ UpPlaced
    BY <2>2 DEF RunnerInv
  <2>4. Bytes(d) <= GatewayBytes
    <3>1. Bytes(d) = Bytes(r)
      BY <2>1, BytesSame
    <3> QED
      BY <2>2, <3>1 DEF Small
  <2>5. d.from = d.first /\ d.first = FirstRow(S, d.seq) /\ Upto(S, d.seq)
    BY <1>1, <2>1, <2>3 DEF Follows
  <2>6. /\ Stacked(T)
        /\ \A n \in Nat : Upto(S, n) => /\ Upto(T, n) /\ Before(T, n) = Before(S, n)
                                        /\ FirstRow(T, n) = FirstRow(S, n)
    <3>1. d.len >= 1 /\ d.first + d.len - 1 <= N
      BY <2>1, <2>2
    <3> QED
      BY <2>1, <2>2, <2>3, <2>4, <2>5, <3>1, StackMore
  <2>7. \A i \in Jobs' : Stacked(stored'[i]) /\ jobs'[i].total = N
    <3>1. jobs'[j].total = N
      BY <2>1, <2>2, <2>3, CountedOK
    <3>2. \A i \in Jobs : i \in Ids
      BY DEF Jobs
    <3>3. Stacked(stored'[j]) /\ jobs'[j].total = N
      BY ONLY <2>1, <2>6, <3>1
    <3>4. \A i \in Jobs : Stacked(stored[i]) /\ jobs[i].total = N
      BY DEF RunnerInv
    <3>5. \A i \in Jobs : i # j => Stacked(stored'[i]) /\ jobs'[i].total = N
      BY ONLY <2>1, <3>2, <3>4
    <3> QED
      BY ONLY <2>1, <3>3, <3>5
  <2>8. \A o \in Slots : Small(reqs'[o]) => reqs'[o] = reqs[o]
    BY <1>1, <1>2 DEF Small, NoReq
  <2>9. ASSUME NEW o \in Slots, Small(reqs'[o]) PROVE Follows(reqs'[o], stored'[reqs'[o].job])
    <3> PICK q : q = reqs[o]
      OBVIOUS
    <3>1. reqs'[o] = q /\ q.kind = "batch"
      BY <2>8, <2>9 DEF Small
    <3>2. Follows(q, stored[q.job]) /\ q.job \in Ids /\ q.seq \in Nat
      BY <2>9, <3>1, BatchIs DEF RunnerInv
    <3>3. CASE q.job = j
      <4>1. Follows(q, S)
        BY <3>2, <3>3
      <4>2. Upto(T, q.seq) /\ Before(T, q.seq) = Before(S, q.seq)
            /\ FirstRow(T, q.seq) = FirstRow(S, q.seq)
        BY <2>6, <3>2, <4>1 DEF Follows
      <4>3. Follows(q, T)
        BY <4>1, <4>2 DEF Follows
      <4> QED
        BY <2>1, <3>1, <3>3, <4>3
    <3>4. CASE q.job # j
      BY <2>1, <3>1, <3>2, <3>4
    <3> QED
      BY <3>3, <3>4
  <2>10. ASSUME up.job = j PROVE Placed(up, T, reqs')
    <3>1. up.job # None /\ up.next \in Nat
      BY <2>10, <2>2, Bounds DEF Shape, UpOK, UpFits, Upload
    <3>2. Placed(up, S, reqs)
      BY <2>10, <2>3, <3>1 DEF UpPlaced
    <3>3. Upto(T, up.next)
      BY <2>6, <3>1, <3>2 DEF Placed
    <3>4. Planned(d, up)
      <4>1. Planned(r, up)
        BY <2>2, <2>10, <3>2 DEF Placed
      <4> QED
        BY <2>1, <4>1 DEF Planned
    <3> QED
      BY <2>8, <3>2, <3>3, <3>4 DEF Placed
  <2>11. UpPlaced'
    <3>1. CASE ~ Awaited(s)
      <4>1. up' = up
        BY <1>1, <3>1
      <4>2. ASSUME up.job # None PROVE Placed(up, stored'[up.job], reqs')
        <5>1. CASE up.job = j
          BY <2>1, <2>10, <5>1
        <5>2. CASE up.job # j
          <6>1. up.job \in Ids /\ Placed(up, stored[up.job], reqs)
            BY <2>3, <4>2 DEF UpPlaced, Shape, UpOK, UpFits, Jobs
          <6>2. stored'[up.job] = stored[up.job]
            BY <2>1, <5>2, <6>1
          <6> QED
            BY <2>8, <6>1, <6>2 DEF Placed
        <5> QED
          BY <5>1, <5>2
      <4> QED
        BY <2>3, <4>1, <4>2 DEF UpPlaced
    <3>2. CASE Awaited(s)
      <4>1. up.pc = "batches" /\ j = up.job /\ r.seq = up.next /\ up.next < Len(up.plan)
        BY <1>1, <3>2, Answered DEF Shape, Waits
      <4>2. up' = NextBatch
        BY <1>1, <3>2
      <4>3. \E b \in T : b.seq = up.next
        BY <2>1, <4>1
      <4>4. /\ \A b \in T : b.seq \in Nat
            /\ \A o \in Slots : Small(reqs'[o]) => reqs'[o].seq \in Nat
        BY <2>1, <2>2, <2>8, SeqNat DEF BatchRec
      <4>5. Placed(up, T, reqs')
        BY <2>10, <4>1
      <4>6. /\ up'.job = up.job /\ Placed(up', T, reqs')
            /\ up'.plan # <<>> => Tiles(up'.plan, 1, N + 1)
            /\ up'.pc \in {"final", "done"} => up'.next = Len(up'.plan)
        BY <2>3, <4>1, <4>2, <4>3, <4>4, <4>5, GoneOn
      <4>7. stored'[up'.job] = T
        BY <2>1, <4>1, <4>6
      <4> QED
        BY <4>6, <4>7 DEF UpPlaced
    <3> QED
      BY <3>1, <3>2
  <2> QED
    BY <2>7, <2>9, <2>11 DEF RunnerInv, Small
<1> QED
  BY <1>1, <1>3, <1>4


(* The next batch of the plan goes after those that are stored.            *)
LEMMA NextFits ==
  ASSUME Shape, CountInv, RunnerInv, Runner, up.pc = "batches", up.next < Len(up.plan),
         NEW S, S = stored[up.job], NEW b, b = up.plan[up.next + 1]
  PROVE  /\ b.first = FirstRow(S, up.next) /\ Upto(S, up.next)
         /\ up.next = Len(up.plan) - 1 => b.first + b.len = N + 1
<1> PICK p : p = up.plan
  OBVIOUS
<1> PICK n : n = up.next
  OBVIOUS
<1>1. up.job # None /\ up.job \in Jobs /\ p \in Seq(Batches) /\ n \in Nat /\ n < Len(p)
  BY DEF Shape, UpOK, UpFits, Upload
<1>2. UpPlaced /\ Stacked(S) /\ OnePerSeq(S) /\ S \in FinBatches
  BY <1>1, RunnerOf DEF RunnerInv
<1>3. Placed(up, S, reqs)
  BY <1>1, <1>2 DEF UpPlaced
<1>4. p # <<>> /\ Len(p) \in Nat
  BY <1>1
<1>5. Tiles(p, 1, N + 1)
  BY <1>2, <1>4 DEF UpPlaced
<1>6. Upto(S, n)
  BY <1>3 DEF Placed
<1>7. ASSUME n = Len(p) - 1 PROVE b.first + b.len = N + 1
  <2>1. n + 1 = Len(p)
    BY <1>4, <1>7
  <2> QED
    BY <1>5, <2>1 DEF Tiles
<1>8. CASE n = 0
  <2>1. Before(S, 0) = {}
    <3>1. \A c \in S : c.seq \in Nat
      BY <1>1, SeqNat
    <3> QED
      BY <3>1 DEF Before
  <2>2. FirstRow(S, 0) = RowsOf({}) + 1 /\ RowsOf({}) = 0
    BY <1>2, <2>1, RowsOfAre, SumEmpty DEF RowsOf
  <2>3. b.first = 1
    BY <1>5, <1>8 DEF Tiles
  <2> QED
    BY <1>6, <1>7, <1>8, <2>2, <2>3
<1>9. CASE n # 0
  <2>1. n - 1 \in 0 .. n - 1 /\ n \in 1 .. Len(p) - 1
    BY <1>1, <1>4, <1>9
  <2>2. PICK c \in S : c.seq = n - 1
    BY <1>6, <2>1 DEF Upto
  <2>3. c.seq + 1 = n
    BY <1>1, <2>2
  <2>4. FirstRow(S, n) = FirstRow(S, c.seq) + c.len
    BY <1>2, <2>3, FirstRowNext
  <2>5. c.first = FirstRow(S, c.seq)
    BY <1>2 DEF Stacked
  <2>6. p[n] = [first |-> c.first, len |-> c.len]
    BY <1>3, <2>3 DEF Placed, Planned
  <2>7. p[n + 1].first = p[n].first + p[n].len
    BY <1>5, <2>1 DEF Tiles
  <2> QED
    BY <1>6, <1>7, <2>4, <2>5, <2>6, <2>7
<1> QED
  BY <1>8, <1>9

LEMMA StartBatchMoves ==
  ASSUME Shape, CountInv, RunnerInv, Runner, NEW s \in Slots, StartBatch(s)
  PROVE  RunnerInv'
<1> PICK t : t = BatchReq(up.next)
  OBVIOUS
<1>1. /\ reqs' = [reqs EXCEPT ![s] = t] /\ up' = [up EXCEPT !.req = s]
      /\ up.pc = "batches" /\ UNCHANGED jobVars /\ work' = work
      /\ up.next < Len(up.plan)
  BY DEF StartBatch, env
<1>2. JobsKept /\ UpPlaced /\ up.next \in Nat /\ up.job # None
  BY <1>1, JobsSame DEF RunnerInv, Shape, UpOK, UpFits, Upload
<1>3. /\ t.pc = "job" /\ t.job = up.job /\ t.seq = up.next
      /\ t.last = (up.next = Len(up.plan) - 1)
      /\ up.plan[up.next + 1] = [first |-> t.first, len |-> t.len]
  BY <1>1, <1>2, BatchReqFits
<1> PICK S : S = stored[up.job]
  OBVIOUS
<1>4. /\ t.first = FirstRow(S, up.next) /\ Upto(S, up.next)
      /\ up.next = Len(up.plan) - 1 => t.first + t.len = N + 1
  BY <1>1, <1>3, NextFits
<1>5. Follows(t, S)
  BY <1>3, <1>4 DEF Follows
<1>6. reqs'[s] = t /\ \A o \in Slots \ {s} : reqs'[o] = reqs[o]
  BY <1>1 DEF Shape, ReqsOK
<1>7. \A o \in Slots : Small(reqs'[o]) => Follows(reqs'[o], stored'[reqs'[o].job])
  BY <1>2, <1>3, <1>5, <1>6 DEF RunnerInv, JobsKept
<1>8. \A j \in Jobs' : Stacked(stored'[j]) /\ jobs'[j].total = N
  BY <1>2 DEF RunnerInv, JobsKept, SameCounts
<1>9. /\ UpStays(up') /\ up'.job = up.job /\ up'.plan = up.plan /\ up'.next = up.next
  BY <1>1, <1>2, SentStays DEF UpStays
<1>10. Planned(t, up)
  BY <1>1, <1>2, <1>3 DEF Planned
<1>11. Placed(up, S, reqs)
  BY <1>2 DEF UpPlaced
<1>12. Placed(up, S, reqs')
  <2>1. ASSUME NEW o \in Slots, Small(reqs'[o]), reqs'[o].job = up.job
        PROVE  Planned(reqs'[o], up) /\ (reqs'[o].last <=> reqs'[o].seq = Len(up.plan) - 1)
    <3>1. CASE o = s
      BY <1>3, <1>6, <1>10, <3>1
    <3>2. CASE o # s
      BY <1>6, <1>11, <2>1, <3>2 DEF Placed
    <3> QED
      BY <3>1, <3>2
  <2> QED
    BY <1>11, <2>1 DEF Placed
<1>13. Placed(up', S, reqs')
  BY <1>9, <1>12 DEF Placed, Planned
<1>14. UpPlaced'
  <2>1. stored'[up'.job] = S
    BY <1>2, <1>9 DEF JobsKept
  <2> QED
    BY <1>2, <1>9, <1>13, <2>1 DEF UpPlaced, UpStays
<1> QED
  BY <1>7, <1>8, <1>14 DEF RunnerInv, Small

(* What is stored or on its way is not the batch that was too large.       *)
LEMMA HalvedStays ==
  ASSUME NEW u, NEW p, p = u.plan, NEW n, n = u.next,
         p \in Seq(Batches), n \in Nat, n < Len(p), p[n + 1].len > 1,
         NEW v, v.plan = Halved(p, n), v.next = n,
         NEW b, Planned(b, u), b.seq \in Nat, Bytes(b) <= GatewayBytes,
         NEW r, Bytes(r) > GatewayBytes, p[n + 1] = [first |-> r.first, len |-> r.len],
         Bytes(r) \in Int
  PROVE  Planned(b, v) /\ b.seq # Len(p) - 1 /\ b.seq # Len(v.plan) - 1
<1>1. Len(v.plan) = Len(p) + 1 /\ \A i \in 1 .. n : v.plan[i] = p[i]
  <2> PICK q : q = v.plan
    OBVIOUS
  <2> PICK h : h = Half(p[n + 1])
    OBVIOUS
  <2>1. /\ p \in Seq(Batches) /\ n \in Nat /\ n < Len(p) /\ p[n + 1].len > 1
        /\ q = Halved(p, n) /\ h = Half(p[n + 1])
    OBVIOUS
  <2>2. Len(q) = Len(p) + 1 /\ \A i \in 1 .. n : q[i] = p[i]
    BY ONLY <2>1, HalvedIs
  <2> QED
    BY <2>2
<1>2. b.seq <= n /\ b.seq < Len(p) /\ p[b.seq + 1] = [first |-> b.first, len |-> b.len]
  BY DEF Planned
<1>3. b.seq # n
  <2> SUFFICES ASSUME b.seq = n PROVE FALSE
    OBVIOUS
  <2>1. b.first = r.first /\ b.len = r.len
    BY <1>2
  <2>2. Bytes(b) = Bytes(r)
    BY <2>1, BytesSame
  <2>3. GatewayBytes \in Int
    BY Bounds
  <2> QED
    BY <2>2, <2>3
<1>4. b.seq + 1 \in 1 .. n /\ b.seq < n /\ Len(p) \in Nat
  BY <1>2, <1>3
<1>5. v.plan[b.seq + 1] = p[b.seq + 1]
  BY <1>1, <1>4
<1> QED
  BY <1>1, <1>2, <1>4, <1>5 DEF Planned

LEMMA TooLargeMoves ==
  ASSUME Shape, CountInv, RunnerInv, Runner, NEW s \in Slots, TooLarge(s)
  PROVE  RunnerInv'
<1> PICK r : r = reqs[s]
  OBVIOUS
<1>1. /\ End(s) /\ UNCHANGED jobVars /\ work' = work /\ r.kind = "batch"
      /\ Bytes(r) > GatewayBytes
  BY DEF TooLarge, env
<1>2. JobsKept /\ UpPlaced /\ \A o \in Slots : Small(reqs'[o]) => reqs'[o] = reqs[o]
  BY <1>1, JobsSame, EndIs DEF RunnerInv
<1>3. CASE up' = up \/ up' = Stopped
  BY <1>1, <1>2, <1>3, StoppedStays, RunnerQuiet
<1>4. CASE /\ Awaited(s) /\ up.plan[up.next + 1].len > 1 /\ up.next < Len(up.plan)
           /\ up' = [up EXCEPT !.req = None, !.attempt = 0, !.plan = Halved(@, up.next)]
  <2>1. /\ up.pc = "batches" /\ r.job = up.job
        /\ up.plan[up.next + 1] = [first |-> r.first, len |-> r.len]
    BY <1>1, <1>4, Answered DEF Shape, Waits
  <2>2. /\ up'.plan = Halved(up.plan, up.next) /\ up'.next = up.next
        /\ up'.job = up.job /\ up'.pc = up.pc
    <3>1. Jobs' = Jobs /\ UpOK
      BY <1>2 DEF JobsKept, Shape
    <3> QED
      BY ONLY <1>1, <1>4, <2>1, <3>1, UpHalved
  <2>3. up.job # None /\ up.job \in Jobs /\ up.plan \in Seq(Batches) /\ up.next \in Nat
    BY <2>1 DEF Shape, UpOK, UpFits, Upload
  <2>4. Tiles(up.plan, 1, N + 1)
    BY <1>2, <1>4, <2>3 DEF UpPlaced
  <2>5. Tiles(up'.plan, 1, N + 1)
    BY ONLY <1>4, <2>2, <2>3, <2>4, HalvedTiles
  <2> PICK S : S = stored[up.job]
    OBVIOUS
  <2>6. Placed(up, S, reqs) /\ Stacked(S)
    BY <1>2, <2>3, RunnerOf DEF UpPlaced
  <2>7. Bytes(r) \in Int
    BY <1>1, BatchIs, BytesInt
  <2>8. ASSUME NEW b, Planned(b, up), b.seq \in Nat, Bytes(b) <= GatewayBytes
        PROVE  Planned(b, up') /\ b.seq # Len(up.plan) - 1 /\ b.seq # Len(up'.plan) - 1
    <3> PICK u : u = up
      OBVIOUS
    <3> PICK v : v = up'
      OBVIOUS
    <3>1. /\ u.plan \in Seq(Batches) /\ u.next \in Nat /\ u.next < Len(u.plan)
          /\ u.plan[u.next + 1].len > 1 /\ Planned(b, u)
          /\ u.plan[u.next + 1] = [first |-> r.first, len |-> r.len]
      BY <1>4, <2>1, <2>3, <2>8
    <3>2. v.plan = Halved(u.plan, u.next) /\ v.next = u.next
      BY <2>2
    <3>3. Planned(b, v) /\ b.seq # Len(u.plan) - 1 /\ b.seq # Len(v.plan) - 1
      BY ONLY <1>1, <2>7, <2>8, <3>1, <3>2, HalvedStays
    <3> QED
      BY <3>3
  <2>9. \A b \in S : Planned(b, up')
    BY <2>3, <2>6, <2>8, SeqNat DEF Placed, Stacked
  <2>10. ASSUME NEW o \in Slots, Small(reqs'[o]), reqs'[o].job = up.job
         PROVE  Planned(reqs'[o], up') /\ (reqs'[o].last <=> reqs'[o].seq = Len(up'.plan) - 1)
    <3> PICK q : q = reqs[o]
      OBVIOUS
    <3>1. reqs'[o] = q /\ Small(q) /\ q.job = up.job
      BY <1>2, <2>10
    <3>2. Planned(q, up) /\ (q.last <=> q.seq = Len(up.plan) - 1)
      BY <2>6, <3>1 DEF Placed
    <3>3. q.seq \in Nat /\ Bytes(q) <= GatewayBytes
      BY <3>1, SeqNat DEF Small
    <3> QED
      BY <2>8, <3>1, <3>2, <3>3
  <2>11. Placed(up', S, reqs')
    BY <2>2, <2>6, <2>9, <2>10 DEF Placed
  <2>12. UpPlaced'
    <3>1. stored'[up'.job] = S
      BY <1>2, <2>2 DEF JobsKept
    <3> QED
      BY <2>1, <2>2, <2>5, <2>11, <3>1 DEF UpPlaced
  <2>13. \A j \in Jobs' : Stacked(stored'[j]) /\ jobs'[j].total = N
    BY <1>2 DEF RunnerInv, JobsKept, SameCounts
  <2>14. \A o \in Slots : Small(reqs'[o]) => Follows(reqs'[o], stored'[reqs'[o].job])
    BY <1>2 DEF RunnerInv, JobsKept
  <2> QED
    BY <2>12, <2>13, <2>14 DEF RunnerInv, Small
<1> QED
  BY <1>3, <1>4, TooLargeUp


(* The job of an upload is new: nothing is stored, nothing on its way.     *)
LEMMA CreateInsertMoves ==
  ASSUME Shape, CountInv, RunnerInv, Runner, NEW s \in Slots, CreateInsert(s)
  PROVE  RunnerInv'
<1>1. PICK j \in Ids \ Jobs :
        /\ Jobs' = Jobs \cup {j} /\ stored' = stored /\ stored[j] = {}
        /\ \A i \in Jobs : jobs'[i] = jobs[i]
        /\ jobs'[j] = NewJob("file", N, reqs[s].day)
        /\ reqs'[s] = NoReq
        /\ up' = IF Awaited(s)
                 THEN [up EXCEPT !.pc = "mapping", !.req = None, !.job = j] ELSE up
  BY CreateInsertAfter
<1>2. work' = work /\ \A o \in Slots \ {s} : reqs'[o] = reqs[o]
  BY SlotAfter DEF AtSlotStep, ServerStep
<1>3. \A o \in Slots : Small(reqs'[o]) => reqs'[o] = reqs[o]
  BY <1>1, <1>2 DEF Small, NoReq
<1>4. \A i \in Jobs' : Stacked(stored'[i]) /\ jobs'[i].total = N
  <2>1. jobs'[j].total = N
    BY <1>1 DEF NewJob
  <2>2. Stacked({})
    BY DEF Stacked
  <2> QED
    BY <1>1, <2>1, <2>2 DEF RunnerInv
<1>5. \A o \in Slots : Small(reqs'[o]) => Follows(reqs'[o], stored'[reqs'[o].job])
  BY <1>1, <1>3 DEF RunnerInv
<1>6. UpPlaced /\ up \in Upload
  BY DEF RunnerInv, Shape, UpOK, UpFits
<1>7. CASE ~ Awaited(s)
  <2>1. up' = up
    BY <1>1, <1>7
  <2>2. up.job # None => Placed(up, stored[up.job], reqs')
    BY <1>3, <1>6 DEF UpPlaced, Placed
  <2>3. UpPlaced'
    BY <1>1, <1>6, <2>1, <2>2 DEF UpPlaced
  <2> QED
    BY <1>4, <1>5, <2>3 DEF RunnerInv, Small
<1>8. CASE Awaited(s)
  <2>1. up' = [up EXCEPT !.pc = "mapping", !.req = None, !.job = j]
    BY <1>1, <1>8
  <2>2. up'.pc = "mapping" /\ up'.job = j /\ up'.plan = up.plan /\ up'.next = up.next
    BY <1>6, <2>1 DEF Upload
  <2>3. up.next = 0
    <3>1. reqs[s].kind = "create"
      BY DEF CreateInsert
    <3>2. up.pc = "create"
      BY <1>8, <3>1, Answered DEF Shape, Waits
    <3> QED
      BY <3>2 DEF Shape, UpOK, UpFits
  <2>4. \A o \in Slots : Small(reqs'[o]) => reqs'[o].job # j
    BY <1>1, <1>3, BatchIs DEF Small
  <2>5. Placed(up', {}, reqs')
    <3>1. Upto({}, 0)
      BY DEF Upto
    <3> QED
      BY <2>2, <2>3, <2>4, <3>1 DEF Placed
  <2>6. stored'[up'.job] = {}
    BY <1>1, <2>2
  <2>7. UpPlaced'
    BY <1>6, <2>2, <2>5, <2>6 DEF UpPlaced
  <2> QED
    BY <1>4, <1>5, <2>7 DEF RunnerInv, Small
<1> QED
  BY <1>7, <1>8

(* An upload with another plan or without one has no job yet.              *)
LEMMA RunnerFresh ==
  ASSUME Shape, RunnerInv, Runner, work' = work, JobsKept, reqs' = reqs, up'.job = None,
         up'.plan # <<>> => Tiles(up'.plan, 1, N + 1), up'.pc \notin {"final", "done"}
  PROVE  RunnerInv'
<1>1. UpPlaced'
  BY DEF UpPlaced
<1>2. \A j \in Jobs' : Stacked(stored'[j]) /\ jobs'[j].total = N
  BY DEF RunnerInv, JobsKept, SameCounts
<1>3. \A o \in Slots : Small(reqs'[o]) => Follows(reqs'[o], stored'[reqs'[o].job])
  BY DEF RunnerInv, JobsKept
<1> QED
  BY <1>1, <1>2, <1>3 DEF RunnerInv, Small

LEMMA StartRunMoves ==
  ASSUME Shape, RunnerInv, Runner, StartRun, JobsKept, reqs' = reqs, work' = work
  PROVE  RunnerInv'
<1>1. /\ up'.job = up.job /\ up'.next = up.next
      /\ up'.plan = IF up.plan = <<>> THEN Plan ELSE up.plan
      /\ up'.pc = "final" => ~ (up.next < Len(up.plan)) /\ up.job # None
      /\ up'.pc # "done"
  BY StartRunIs DEF Shape
<1>2. /\ up.plan \in Seq(Batches) /\ up.next \in Nat /\ up.next <= Len(up.plan)
      /\ up.plan = <<>> => up.job = None
  BY DEF Shape, UpOK, UpFits, Upload
<1>3. CASE up.plan = <<>>
  <2>1. Tiles(Plan, 1, N + 1)
    BY PlanOK
  <2> QED
    BY <1>1, <1>2, <1>3, <2>1, RunnerFresh
<1>4. CASE up.plan # <<>>
  <2>1. up'.pc = "final" => up.next = Len(up.plan)
    BY <1>1, <1>2
  <2>2. UpStays(up')
    BY <1>1, <1>4, <2>1 DEF UpStays
  <2> QED
    BY <2>2, RunnerQuiet
<1> QED
  BY <1>3, <1>4

LEMMA EditMappingMoves ==
  ASSUME Shape, RunnerInv, Runner, EditMapping, JobsKept, reqs' = reqs, work' = work
  PROVE  RunnerInv'
<1>1. /\ up.pc = "stopped"
      /\ \/ up' = [IdleUpload EXCEPT !.runs = up.runs]
         \/ up' = [up EXCEPT !.mapped = FALSE]
  BY DEF EditMapping
<1>2. CASE up' = [IdleUpload EXCEPT !.runs = up.runs]
  <2>1. up'.job = None /\ up'.plan = <<>> /\ up'.pc = "idle"
    BY <1>2 DEF IdleUpload
  <2> QED
    BY <2>1, RunnerFresh
<1>3. CASE up' = [up EXCEPT !.mapped = FALSE]
  <2>1. up'.plan = up.plan /\ up'.next = up.next /\ up'.job = up.job /\ up'.pc = "stopped"
    BY <1>1, <1>3 DEF Shape, UpOK, UpFits, Upload
  <2>2. UpStays(up')
    BY <2>1 DEF UpStays
  <2> QED
    BY <2>2, RunnerQuiet
<1> QED
  BY <1>1, <1>2, <1>3

LEMMA ElseMoves ==
  ASSUME Shape, RunnerInv, Runner, ElseStep \/ UNCHANGED vars PROVE RunnerInv'
<1>1. JobsKept /\ reqs' = reqs /\ work' = work /\ UpPlaced
  BY ElseAfter DEF RunnerInv
<1>2. CASE StartRun
  BY <1>1, <1>2, StartRunMoves
<1>3. CASE EditMapping
  BY <1>1, <1>3, EditMappingMoves
<1>4. CASE Cancel
  <2>1. UpStays(up')
    BY <1>1, <1>4, StoppedStays DEF Cancel
  <2> QED
    BY <1>1, <2>1, RunnerQuiet
<1>5. CASE GetImport
  <2>1. up.pc = "final" /\ up' = [up EXCEPT !.pc = "done"]
    BY <1>5 DEF GetImport
  <2>2. up'.plan = up.plan /\ up'.next = up.next /\ up'.job = up.job
    BY <2>1 DEF Shape, UpOK, UpFits, Upload
  <2>3. up.next = Len(up.plan)
    BY <1>1, <2>1 DEF UpPlaced
  <2>4. UpStays(up')
    BY <2>2, <2>3 DEF UpStays
  <2> QED
    BY <1>1, <2>4, RunnerQuiet
<1>6. CASE up' = up
  BY <1>1, <1>6, StoppedStays, RunnerQuiet
<1>7. CASE \/ ClearImports \/ ClearObjects \/ ClearTemplate \/ NextDay
           \/ UNCHANGED vars \/ \E j \in Ids : GoStale(j)
  <2>1. up' = up
    BY <1>7 DEF ClearImports, ClearObjects, ClearTemplate, NextDay, GoStale, vars
  <2> QED
    BY <1>6, <2>1
<1> QED
  BY <1>2, <1>3, <1>4, <1>5, <1>7 DEF ElseStep

LEMMA SlotMoves ==
  ASSUME Shape, CountInv, RunnerInv, Runner, NEW s \in Slots, AtSlotStep(s) PROVE RunnerInv'
<1>1. work' = work /\ \A o \in Slots \ {s} : reqs'[o] = reqs[o]
  BY SlotAfter
<1>2. UpPlaced
  BY DEF RunnerInv
<1>3. ASSUME UpStays(up'), ~ Small(reqs'[s]) \/ reqs'[s] = reqs[s], ~ ToNew(s), ~ ToStore(s)
      PROVE  RunnerInv'
  <2>1. JobsKept
    BY <1>3, JobsAfter
  <2>2. \A o \in Slots : Small(reqs'[o]) => reqs'[o] = reqs[o]
    BY <1>1, <1>3
  <2> QED
    BY <1>1, <1>3, <2>1, <2>2, RunnerQuiet
<1>4. work # "sample" /\ work # "script" /\ reqs[s].kind # "sample"
  BY SampleAlone DEF Runner, Shape
<1>5. CASE TooLarge(s) \/ BatchJob(s) \/ BatchPrior(s) \/ Upsert(s) \/ Commit(s)
           \/ StartBatch(s) \/ CreateInsert(s)
  BY <1>5, TooLargeMoves, BatchJobMoves, BatchPriorMoves, UpsertMoves, CommitMoves,
     StartBatchMoves, CreateInsertMoves
<1>6. CASE Refund(s)
  <2>1. reqs[s].kind = "batch" /\ reqs[s].pc = "refund"
    BY <1>6 DEF Refund
  <2>2. Small(reqs[s])
    BY <2>1, BatchIs
  <2> QED
    BY <2>1, <2>2 DEF RunnerInv, Follows
<1>7. CASE \/ SampleCheck(s) \/ SampleTake(s) \/ SampleTemplate(s) \/ SampleInsert(s)
           \/ SampleCommit(s) \/ SampleRoom(s) \/ SampleMark(s) \/ SampleUndo(s)
           \/ SampleFail(s) \/ (\E sc \in Scenarios : StartSample(s, sc))
           \/ \E n \in Nat : SendAny(s, n)
  BY <1>4, <1>7 DEF SampleCheck, SampleTake, SampleTemplate, SampleInsert, SampleCommit,
     SampleRoom, SampleMark, SampleUndo, SampleFail, StartSample, SendAny
<1>8. CASE LoseAnswer(s)
  <2>1. reqs' = reqs /\ up' = AfterError(TRUE)
    BY <1>8 DEF LoseAnswer
  <2>2. UpStays(up')
    BY <1>2, <2>1, StoppedStays
  <2>3. JobsKept
    <3>1. UNCHANGED jobVars
      BY <1>8 DEF LoseAnswer
    <3> QED
      BY <3>1, JobsSame
  <2> QED
    BY <1>1, <2>1, <2>2, <2>3, RunnerQuiet
<1>9. ASSUME ~ ToNew(s), ~ ToStore(s), UpStays(up'), reqs'[s].kind # "batch" PROVE RunnerInv'
  BY <1>3, <1>9 DEF Small
<1>10. CASE Kill(s)
  <2>1. AnswerError(s, TRUE) /\ UNCHANGED jobVars
    BY <1>10 DEF Kill
  <2>2. UpStays(up') /\ JobsKept /\ End(s)
    BY <1>2, <2>1, ErrorStays, JobsSame DEF AnswerError
  <2> QED
    BY <1>1, <2>2, EndIs, RunnerQuiet
<1>11. CASE StartCreate(s) \/ CreateStats(s) \/ CreateTake(s) \/ CreateUndo(s)
            \/ StartMapping(s) \/ MappingRead(s) \/ MappingSet(s)
  <2>1. UpStays(up')
    BY <1>2, <1>11, ErrorStays, SentStays, MappedStays, StoppedStays
       DEF StartCreate, CreateStats, CreateTake, CreateUndo, StartMapping, MappingRead
  <2>2. \/ reqs'[s].kind # "batch" /\ ~ ToNew(s) /\ ~ ToStore(s)
        \/ LoseAnswer(s) \/ Commit(s) \/ StartBatch(s) \/ CreateInsert(s)
        \/ BatchJob(s) \/ BatchPrior(s) \/ Upsert(s) \/ SampleInsert(s) \/ SampleCommit(s)
        \/ \E n \in Nat : SendAny(s, n)
    <3>1. \/ LoseAnswer(s) \/ reqs'[s].kind # "batch"
          \/ StartBatch(s) \/ BatchJob(s) \/ BatchPrior(s) \/ Upsert(s) \/ Commit(s)
          \/ \E n \in Nat : SendAny(s, n)
          \/ SampleInsert(s) \/ SampleCommit(s)
      BY SlotAfter DEF Moves, NoReq
    <3> QED
      BY <3>1 DEF ToNew, ToStore
  <2> QED
    BY <1>5, <1>7, <1>8, <1>9, <2>1, <2>2
<1> QED
  BY <1>5, <1>6, <1>7, <1>8, <1>10, <1>11 DEF AtSlotStep, ServerStep


LEMMA RunnerStepKeeps ==
  ASSUME Shape, CountInv, RunnerInv, [Next]_vars PROVE RunnerInv'
<1>1. CASE Runner
  BY <1>1, Steps, SlotMoves, ElseMoves
<1>2. CASE ~ Runner
  <2>1. work' = work
    BY Steps, SlotAfter, ElseAfter
  <2> QED
    BY <1>2, <2>1 DEF RunnerInv, Runner
<1> QED
  BY <1>1, <1>2

LEMMA RunnerInit == Init => RunnerInv
<1> SUFFICES ASSUME Init PROVE RunnerInv
  OBVIOUS
<1>1. Jobs = {} /\ \A s \in Slots : reqs[s] = NoReq
  BY DEF Init, Jobs
<1>2. up.plan = <<>> /\ up.pc = "idle" /\ up.job = None
  BY DEF Init, IdleUpload
<1> QED
  BY <1>1, <1>2 DEF RunnerInv, UpPlaced, Small, NoReq

(* A script sends its batches without the runner.                          *)
LEMMA QuietStays ==
  ASSUME Shape', Quiet, UpStays(up') PROVE Quiet'
<1>1. up'.next = 0
  BY DEF Quiet, UpStays
<1>2. ASSUME up'.pc \in {"final", "done"} PROVE FALSE
  <2>1. Len(up'.plan) = 0
    BY <1>1, <1>2 DEF UpStays
  <2>2. up'.plan \in Seq(Batches) /\ up'.plan # <<>>
    BY <1>2 DEF Shape, UpOK, UpFits, Upload
  <2> QED
    BY <2>1, <2>2
<1> QED
  BY <1>1, <1>2 DEF Quiet

LEMMA QuietSlot ==
  ASSUME Shape, Shape', Quiet, ~ Runner, NEW s \in Slots, AtSlotStep(s) PROVE Quiet'
<1>1. ASSUME reqs[s].kind = "batch" PROVE ~ Awaited(s)
  BY <1>1, Answered DEF Shape, Waits, Runner
<1>2. CASE CreateInsert(s)
  <2>1. PICK j : up' = IF Awaited(s)
                       THEN [up EXCEPT !.pc = "mapping", !.req = None, !.job = j] ELSE up
    BY <1>2, CreateInsertAfter
  <2>2. CASE up' = up
    BY <2>2 DEF Quiet
  <2>3. CASE up' = [up EXCEPT !.pc = "mapping", !.req = None, !.job = j]
    <3>1. up'.pc = "mapping" /\ up'.next = up.next
      BY <2>3 DEF Shape, UpOK, UpFits, Upload
    <3> QED
      BY <3>1 DEF Quiet
  <2> QED
    BY <2>1, <2>2, <2>3
<1>3. CASE \E sc \in Scenarios : StartSample(s, sc)
  <2>1. up' = [up EXCEPT !.runs = @ + 1]
    BY <1>3 DEF StartSample
  <2>2. up'.pc = up.pc /\ up'.next = up.next
    BY <2>1 DEF Shape, UpOK, UpFits, Upload
  <2> QED
    BY <2>2 DEF Quiet
<1>4. CASE TooLarge(s) \/ BatchPrior(s) \/ Commit(s) \/ Refund(s)
  <2>1. reqs[s].kind = "batch"
    BY <1>4 DEF TooLarge, BatchPrior, Commit, Refund
  <2>2. up' = up
    BY <1>1, <1>4, <2>1 DEF TooLarge, BatchPrior, Commit, Refund, AnswerOk, AnswerError
  <2> QED
    BY <2>2 DEF Quiet
<1>5. CASE StartBatch(s)
  BY <1>5 DEF StartBatch
<1>6. CASE MappingSet(s)
  BY <1>6, MappedStays, QuietStays
<1>7. CASE StartCreate(s) \/ CreateStats(s) \/ CreateTake(s) \/ CreateUndo(s)
           \/ StartMapping(s) \/ MappingRead(s) \/ LoseAnswer(s) \/ Kill(s)
  <2>1. UpStays(up')
    BY <1>7, ErrorStays, SentStays, StoppedStays
       DEF StartCreate, CreateStats, CreateTake, CreateUndo, StartMapping, MappingRead,
       LoseAnswer, Kill
  <2> QED
    BY <2>1, QuietStays
<1>8. CASE \/ BatchJob(s) \/ Upsert(s) \/ SampleCheck(s) \/ SampleTake(s) \/ SampleTemplate(s)
           \/ SampleInsert(s) \/ SampleCommit(s) \/ SampleRoom(s) \/ SampleMark(s)
           \/ SampleUndo(s) \/ SampleFail(s) \/ \E n \in Nat : SendAny(s, n)
  <2>1. up' = up
    BY <1>8 DEF BatchJob, Upsert, SampleCheck, SampleTake, SampleTemplate, SampleInsert,
       SampleCommit, SampleRoom, SampleMark, SampleUndo, SampleFail, SendAny
  <2> QED
    BY <2>1 DEF Quiet
<1> QED
  BY <1>2, <1>3, <1>4, <1>5, <1>6, <1>7, <1>8 DEF AtSlotStep, ServerStep

LEMMA QuietElse ==
  ASSUME Shape, Quiet, ~ Runner, ElseStep \/ UNCHANGED vars PROVE Quiet'
<1>1. CASE StartRun
  <2>1. /\ up'.next = up.next /\ up'.pc # "done"
        /\ up'.pc = "final" => ~ (up.next < Len(up.plan)) /\ up.job # None
    BY <1>1, StartRunIs DEF Shape
  <2>2. ASSUME up'.pc = "final" PROVE FALSE
    <3>1. up.plan \in Seq(Batches) /\ ~ (0 < Len(up.plan)) /\ up.job # None
      BY <2>1, <2>2 DEF Quiet, Shape, UpOK, UpFits, Upload
    <3>2. up.plan = <<>>
      BY <3>1
    <3> QED
      BY <3>1, <3>2 DEF Shape, UpOK, UpFits
  <2> QED
    BY <2>1, <2>2 DEF Quiet
<1>2. CASE Cancel \/ EditMapping \/ GetImport
  BY <1>2 DEF Cancel, EditMapping, GetImport, Quiet
<1>3. CASE \/ ClearImports \/ ClearObjects \/ ClearTemplate \/ NextDay
           \/ UNCHANGED vars \/ \E j \in Ids : GoStale(j)
  <2>1. up' = up
    BY <1>3 DEF ClearImports, ClearObjects, ClearTemplate, NextDay, GoStale, vars
  <2> QED
    BY <2>1 DEF Quiet
<1> QED
  BY <1>1, <1>2, <1>3 DEF ElseStep

ScriptInv == ~ Runner => Quiet

LEMMA ScriptStep ==
  ASSUME Shape, Shape', ScriptInv, [Next]_vars PROVE ScriptInv'
<1>1. work' = work
  BY Steps, SlotAfter, ElseAfter
<1>2. CASE Runner
  BY <1>1, <1>2 DEF ScriptInv, Runner
<1>3. CASE ~ Runner
  <2>1. Quiet'
    BY <1>3, Steps, QuietSlot, QuietElse DEF ScriptInv
  <2> QED
    BY <2>1 DEF ScriptInv
<1> QED
  BY <1>2, <1>3

(* An upload that is done has every row in one of its batches.             *)
LEMMA Complete ==
  ASSUME Shape, CountInv, RunnerInv, ScriptInv PROVE UploadComplete
<1> SUFFICES ASSUME up.pc = "done"
             PROVE  /\ \A i \in 1 .. N :
                         Cardinality({b \in stored[up.job] : i \in Rows(b)}) = 1
                    /\ jobs[up.job].received = N
  BY DEF UploadComplete
<1> PICK j : j = up.job
  OBVIOUS
<1> PICK S : S = stored[j]
  OBVIOUS
<1> PICK p : p = up.plan
  OBVIOUS
<1>1. /\ j # None /\ j \in Jobs /\ p \in Seq(Batches) /\ p # <<>> /\ Runner
  BY DEF Shape, UpOK, UpFits, Upload, ScriptInv, Quiet
<1>2. /\ Stacked(S) /\ OnePerSeq(S) /\ S \in FinBatches /\ jobs[j].received = RowsOf(S)
      /\ UpPlaced
  BY <1>1, RunnerOf DEF RunnerInv
<1>3. Tiles(p, 1, N + 1) /\ up.next = Len(p) /\ Placed(up, S, reqs)
  BY <1>1, <1>2 DEF UpPlaced
<1> PICK l : l = Len(p)
  OBVIOUS
<1>4. l \in Nat /\ l > 0 /\ N \in Nat
  BY <1>1, Bounds
<1>5. Upto(S, l)
  BY <1>3 DEF Placed
<1>6. \A b \in S : b.seq \in Nat /\ b.first \in Nat /\ b.len \in Nat
  BY <1>2 DEF FinBatches, BatchRec
<1>7. \A b \in S : b.seq < l /\ b.seq + 1 \in 1 .. l
  <2> SUFFICES ASSUME NEW b \in S PROVE b.seq < l /\ b.seq + 1 \in 1 .. l
    OBVIOUS
  <2>1. b.seq < l /\ b.seq \in Nat
    BY <1>3, <1>6 DEF Placed, Planned
  <2> QED
    BY ONLY <1>4, <2>1
<1>10. \A b \in S : p[b.seq + 1].first = b.first /\ p[b.seq + 1].len = b.len
  <2> SUFFICES ASSUME NEW b \in S
               PROVE  p[b.seq + 1].first = b.first /\ p[b.seq + 1].len = b.len
    OBVIOUS
  <2>1. p[b.seq + 1] = [first |-> b.first, len |-> b.len]
    BY <1>3 DEF Placed, Planned
  <2> QED
    BY ONLY <2>1
<1>8. ASSUME NEW i \in 1 .. N PROVE Cardinality({b \in S : i \in Rows(b)}) = 1
  <2>1. i \in 1 .. (N + 1) - 1
    BY <1>4
  <2>2. PICK k \in 1 .. l : i \in Rows(p[k])
    BY <1>3, <2>1 DEF Tiles
  <2>3. k - 1 \in 0 .. l - 1
    BY <1>4
  <2>4. PICK c \in S : c.seq = k - 1
    BY <1>5, <2>3 DEF Upto
  <2>5. c.seq + 1 = k
    BY <2>4
  <2>6. ASSUME NEW b \in S PROVE i \in Rows(b) <=> b = c
    <3>1. b.seq + 1 \in 1 .. l
      BY <1>7
    <3> PICK m : m = b.seq + 1
      OBVIOUS
    <3>2. p[m].first = b.first /\ p[m].len = b.len
      BY <1>10
    <3>3. Rows(p[m]) = Rows(b)
      BY <3>2 DEF Rows
    <3>4. ASSUME b = c PROVE i \in Rows(b)
      <4>1. m = k
        BY <2>5, <3>4
      <4> QED
        BY <2>2, <3>3, <4>1
    <3>5. ASSUME i \in Rows(b), b # c PROVE FALSE
      <4>1. m # k
        <5> SUFFICES ASSUME m = k PROVE FALSE
          OBVIOUS
        <5>1. b.seq = c.seq
          BY <1>6, <2>4
        <5> QED
          BY <1>2, <3>5, <5>1 DEF OnePerSeq
      <4>2. p[m] \in Batches /\ p[k] \in Batches
        BY <1>1, <3>1
      <4>3. i \in Rows(p[m]) /\ i \in Rows(p[k])
        BY <2>2, <3>3, <3>5
      <4>4. m < k => p[m].first + p[m].len <= p[k].first
        BY <1>3, <3>1 DEF Tiles
      <4>5. k < m => p[k].first + p[k].len <= p[m].first
        BY <1>3, <3>1 DEF Tiles
      <4>6. /\ p[m].first <= i /\ i < p[m].first + p[m].len
            /\ p[k].first <= i /\ i < p[k].first + p[k].len
            /\ p[m].first \in Nat /\ p[m].len \in Nat /\ p[k].first \in Nat /\ p[k].len \in Nat
        BY <4>2, <4>3, BatchesAre
      <4>7. m \in Nat /\ k \in Nat /\ i \in Nat
        BY <3>1
      <4> QED
        BY ONLY <4>1, <4>4, <4>5, <4>6, <4>7
    <3> QED
      BY <3>4, <3>5
  <2>7. {b \in S : i \in Rows(b)} = {c}
    BY <2>6
  <2> QED
    BY <2>7, FS_Singleton
<1>9. jobs[j].received = N
  <2>1. l - 1 \in 0 .. l - 1 /\ l - 1 + 1 = l
    BY <1>4
  <2>2. PICK c \in S : c.seq = l - 1
    BY <1>5, <2>1 DEF Upto
  <2>3. FirstRow(S, l) = RowsOf(S) + 1
    BY <1>2, <1>7, FirstRowAll
  <2>4. c.seq + 1 = l
    BY <1>4, <2>2
  <2>5. FirstRow(S, l) = FirstRow(S, c.seq) + c.len /\ c.first = FirstRow(S, c.seq)
    BY <1>2, <2>4, FirstRowNext DEF Stacked
  <2>6. p[l].first = c.first /\ p[l].len = c.len
    BY <1>10, <2>4
  <2>7. p[l].first + p[l].len = N + 1
    BY <1>3 DEF Tiles
  <2>8. RowsOf(S) \in Nat
    BY <1>2, RowsOfAre
  <2>9. RowsOf(S) = N
    BY ONLY <1>4, <2>3, <2>5, <2>6, <2>7, <2>8
  <2> QED
    BY <1>2, <2>9
<1> QED
  BY <1>8, <1>9

ImportInv == Shape /\ CountInv /\ RunnerInv /\ ScriptInv

LEMMA ImportStep == ASSUME ImportInv, [Next]_vars PROVE ImportInv'
BY ShapeStep, CountStep, RunnerStepKeeps, ScriptStep DEF ImportInv

LEMMA ImportInit == Init => ImportInv
BY ShapeInit, CountInit, RunnerInit DEF ImportInv, ScriptInv, Quiet, Init, IdleUpload

LEMMA ImportHolds == Spec => []ImportInv
<1>1. Init => ImportInv
  BY ImportInit
<1>2. ImportInv /\ [Next]_vars => ImportInv'
  BY ImportStep
<1> QED
  BY <1>1, <1>2, PTL DEF Spec

LEMMA Exact == ASSUME ImportInv PROVE ImportExact
<1>1. TypeOK /\ CountersMatchBatches /\ UploadComplete
  BY ShapeTypes, CountsMatch, Complete DEF ImportInv
<1>2. RowNumbersMatch
  BY DEF ImportInv, RunnerInv, RowNumbersMatch, Stacked
<1> QED
  BY <1>1, <1>2 DEF ImportExact

(* Imports are exact: the counters of a job are the sums over its stored   *)
(* batches, one per seq (commitBatch's insert decides), a reject's number  *)
(* is its row of the file, and an upload the runner reports as finished    *)
(* has every row of the file in one stored batch, whatever was halved,     *)
(* sent twice, lost, cancelled or resumed on the way.                      *)
THEOREM ImportExactHolds == Spec => []ImportExact
<1>1. ImportInv => ImportExact
  BY Exact
<1> QED
  BY <1>1, ImportHolds, PTL

-----------------------------------------------------------------------------
(* What is paid for.                                                       *)
LEMMA SumChange ==
  ASSUME NEW S, IsFiniteSet(S), NEW f, NEW g, NEW y \in S,
         \A x \in S : f[x] \in Int, g[y] \in Int, \A x \in S \ {y} : g[x] = f[x]
  PROVE  /\ SumOf(g, S) + f[y] = SumOf(f, S) + g[y]
         /\ SumOf(f, S) \in Int /\ SumOf(g, S) \in Int
<1> PICK T : T = S \ {y}
  OBVIOUS
<1>1. IsFiniteSet(T) /\ \A x \in S : g[x] \in Int
  BY FS_Subset
<1>2. SumOf(f, S) = f[y] + SumOf(f, T) /\ SumOf(g, S) = g[y] + SumOf(g, T)
  BY <1>1, SumTake
<1>3. SumOf(f, T) = SumOf(g, T)
  BY <1>1, SumSame
<1>4. SumOf(f, T) \in Int /\ f[y] \in Int /\ g[y] \in Int
  BY <1>1, SumInt
<1> QED
  BY ONLY <1>2, <1>3, <1>4

LEMMA SumLess ==
  ASSUME NEW S, IsFiniteSet(S), NEW f, NEW g,
         \A x \in S : f[x] \in Int /\ g[x] \in Int /\ f[x] <= g[x]
  PROVE  SumOf(f, S) <= SumOf(g, S)
<1> DEFINE Q == {U \in SUBSET S : SumOf(f, U) <= SumOf(g, U)}
<1>1. {} \in Q
  BY SumEmpty
<1>2. ASSUME NEW U \in SUBSET S, U # {}, U \ {Pick(U)} \in Q PROVE U \in Q
  <2> PICK p : p = Pick(U)
    OBVIOUS
  <2>1. p \in U
    BY <1>2 DEF Pick
  <2> PICK V : V = U \ {p}
    OBVIOUS
  <2>2. IsFiniteSet(U) /\ IsFiniteSet(V)
    BY FS_Subset
  <2>3. SumOf(f, U) = f[p] + SumOf(f, V) /\ SumOf(g, U) = g[p] + SumOf(g, V)
    BY <2>1, <2>2, SumTake
  <2>4. SumOf(f, V) <= SumOf(g, V) /\ SumOf(f, V) \in Int /\ SumOf(g, V) \in Int
    BY <1>2, <2>2, SumInt
  <2>5. f[p] \in Int /\ g[p] \in Int /\ f[p] <= g[p]
    BY <2>1
  <2>6. SumOf(f, U) <= SumOf(g, U)
    BY ONLY <2>3, <2>4, <2>5
  <2> QED
    BY <2>6
<1> HIDE DEF Q
<1>3. \A U \in SUBSET S : U # {} /\ U \ {Pick(U)} \in Q => U \in Q
  BY <1>2
<1>4. \A U \in SUBSET S : U \in Q
  <2>1. IsFiniteSet(S)
    OBVIOUS
  <2> QED
    BY ONLY <1>1, <1>3, <2>1, PickInduction, Zenon
<1> QED
  BY <1>4 DEF Q

LEMMA SumZero ==
  ASSUME NEW S, IsFiniteSet(S), NEW f, \A x \in S : f[x] = 0
  PROVE  SumOf(f, S) = 0
<1> PICK m : m = [x \in S |-> 0]
  OBVIOUS
<1> DEFINE Q == {U \in SUBSET S : SumOf(m, U) = 0}
<1>1. {} \in Q
  BY SumEmpty
<1>2. ASSUME NEW U \in SUBSET S, U # {}, U \ {Pick(U)} \in Q PROVE U \in Q
  <2>1. Pick(U) \in U
    BY <1>2 DEF Pick
  <2>2. IsFiniteSet(U) /\ \A x \in U : m[x] \in Int
    BY FS_Subset
  <2>3. SumOf(m, U) = m[Pick(U)] + SumOf(m, U \ {Pick(U)})
    BY <2>1, <2>2, SumTake
  <2> QED
    BY <1>2, <2>1, <2>3
<1> HIDE DEF Q
<1>3. \A U \in SUBSET S : U # {} /\ U \ {Pick(U)} \in Q => U \in Q
  BY <1>2
<1>4. \A U \in SUBSET S : U \in Q
  <2>1. IsFiniteSet(S)
    OBVIOUS
  <2> QED
    BY ONLY <1>1, <1>3, <2>1, PickInduction, Zenon
<1>5. SumOf(m, S) = 0
  BY <1>4 DEF Q
<1>6. SumOf(f, S) = SumOf(m, S)
  BY SumSame
<1> QED
  BY <1>5, <1>6


(* The rows of a day: those of its jobs, and those a request has reserved  *)
(* for the job it is about to insert.                                      *)
Share(x, d) == IF x # None /\ x.day = d THEN N ELSE 0
Hold(r, d) == IF r.kind = "create" /\ r.pc = "insert" /\ r.day = d THEN N ELSE 0
Shares(x, d) == SumOf([j \in Ids |-> Share(x[j], d)], Ids)
Holds(q, d) == SumOf([s \in Slots |-> Hold(q[s], d)], Slots)

PaidInv == Runner => \A d \in Days : usage[d] >= Shares(jobs, d) + Holds(reqs, d)

(* The requests q differ from p at s at most.                              *)
OnlyAt(p, q, s) == s \in Slots /\ \A o \in Slots \ {s} : q[o] = p[o]

LEMMA HoldsChange ==
  ASSUME NEW p, NEW q, NEW s, OnlyAt(p, q, s), NEW d
  PROVE  /\ Holds(q, d) + Hold(p[s], d) = Holds(p, d) + Hold(q[s], d)
         /\ Holds(p, d) \in Int /\ Holds(q, d) \in Int
         /\ Hold(p[s], d) \in {0, N} /\ Hold(q[s], d) \in {0, N}
<1> PICK f : f = [o \in Slots |-> Hold(p[o], d)]
  OBVIOUS
<1> PICK g : g = [o \in Slots |-> Hold(q[o], d)]
  OBVIOUS
<1>1. /\ \A o \in Slots : f[o] \in Int /\ g[o] \in Int
      /\ f[s] = Hold(p[s], d) /\ g[s] = Hold(q[s], d) /\ s \in Slots /\ IsFiniteSet(Slots)
      /\ \A o \in Slots \ {s} : g[o] = f[o]
  BY Bounds DEF Hold, OnlyAt
<1>2. /\ SumOf(g, Slots) + f[s] = SumOf(f, Slots) + g[s]
      /\ SumOf(f, Slots) \in Int /\ SumOf(g, Slots) \in Int
  BY ONLY <1>1, SumChange
<1> QED
  BY <1>1, <1>2 DEF Holds, Hold

LEMMA SharesChange ==
  ASSUME NEW x, NEW y, NEW d, NEW j \in Ids,
         \A i \in Ids \ {j} : Share(y[i], d) = Share(x[i], d)
  PROVE  /\ Shares(y, d) + Share(x[j], d) = Shares(x, d) + Share(y[j], d)
         /\ Shares(x, d) \in Int /\ Shares(y, d) \in Int
<1> PICK f : f = [i \in Ids |-> Share(x[i], d)]
  OBVIOUS
<1> PICK g : g = [i \in Ids |-> Share(y[i], d)]
  OBVIOUS
<1>1. /\ \A i \in Ids : f[i] \in Int /\ g[i] \in Int
      /\ f[j] = Share(x[j], d) /\ g[j] = Share(y[j], d) /\ j \in Ids /\ IsFiniteSet(Ids)
      /\ \A i \in Ids \ {j} : g[i] = f[i]
  BY Bounds DEF Share
<1>2. /\ SumOf(g, Ids) + f[j] = SumOf(f, Ids) + g[j]
      /\ SumOf(f, Ids) \in Int /\ SumOf(g, Ids) \in Int
  BY ONLY <1>1, SumChange
<1> QED
  BY <1>1, <1>2 DEF Shares

LEMMA SharesSame ==
  ASSUME NEW x, NEW y, NEW d, \A j \in Ids : Share(y[j], d) = Share(x[j], d)
  PROVE  Shares(y, d) = Shares(x, d) /\ Shares(x, d) \in Int
<1> PICK f : f = [j \in Ids |-> Share(x[j], d)]
  OBVIOUS
<1>1. f = [j \in Ids |-> Share(y[j], d)] /\ \A j \in Ids : f[j] \in Int
  BY Bounds DEF Share
<1>2. SumOf(f, Ids) \in Int
  BY <1>1, Bounds, SumInt
<1>3. Shares(x, d) = SumOf(f, Ids) /\ Shares(y, d) = SumOf(f, Ids)
  BY <1>1 DEF Shares
<1> QED
  BY <1>2, <1>3

LEMMA SharesKept ==
  ASSUME Shape, JobsKept, NEW d
  PROVE  Shares(jobs', d) = Shares(jobs, d) /\ Shares(jobs, d) \in Int
<1> PICK x : x = jobs
  OBVIOUS
<1> PICK y : y = jobs'
  OBVIOUS
<1>1. \A j \in Ids : Share(y[j], d) = Share(x[j], d)
  BY DEF JobsKept, SameCounts, Jobs, Share
<1>2. Shares(y, d) = Shares(x, d) /\ Shares(x, d) \in Int
  BY <1>1, SharesSame
<1> QED
  BY <1>2

LEMMA UsageAfter ==
  ASSUME NEW s, AtSlotStep(s), ~ CreateTake(s), ~ CreateUndo(s), ~ Refund(s)
  PROVE  usage' = usage
<1>1. CASE StartCreate(s) \/ CreateStats(s) \/ CreateInsert(s) \/ StartMapping(s)
           \/ MappingRead(s) \/ MappingSet(s) \/ LoseAnswer(s) \/ Kill(s)
  BY <1>1 DEF StartCreate, CreateStats, CreateInsert, StartMapping, MappingRead, MappingSet,
     LoseAnswer, Kill, quotas
<1>2. CASE StartBatch(s) \/ TooLarge(s) \/ BatchJob(s) \/ BatchPrior(s) \/ Upsert(s)
           \/ Commit(s) \/ \E n \in Nat : SendAny(s, n)
  BY <1>2 DEF StartBatch, TooLarge, BatchJob, BatchPrior, Upsert, Commit, SendAny, quotas
<1>3. CASE SampleCheck(s) \/ SampleTake(s) \/ SampleTemplate(s) \/ SampleInsert(s)
           \/ SampleCommit(s)
  BY <1>3 DEF SampleCheck, SampleTake, SampleTemplate, SampleInsert, SampleCommit, quotas
<1>4. CASE SampleRoom(s) \/ SampleMark(s) \/ SampleUndo(s) \/ SampleFail(s)
           \/ \E sc \in Scenarios : StartSample(s, sc)
  BY <1>4 DEF SampleRoom, SampleMark, SampleUndo, SampleFail, StartSample, quotas
<1> QED
  BY <1>1, <1>2, <1>3, <1>4 DEF AtSlotStep, ServerStep

LEMMA HoldAfter ==
  ASSUME Shape, Runner, NEW s \in Slots, AtSlotStep(s), ~ CreateTake(s), NEW d
  PROVE  Hold(reqs'[s], d) = 0 \/ reqs' = reqs
<1>1. reqs[s].kind # "sample" /\ work # "sample"
  BY SampleAlone DEF Runner, Shape
<1>2. ~ SampleInsert(s) /\ ~ SampleCommit(s)
  BY <1>1 DEF SampleInsert, SampleCommit
<1>3. \/ reqs' = reqs \/ reqs'[s].kind # "create" \/ reqs'[s].pc # "insert"
  BY <1>2, SlotAfter DEF Moves, NoReq
<1> QED
  BY <1>3 DEF Hold

LEMMA TakePays ==
  ASSUME Shape, PaidInv, Runner, NEW s \in Slots, CreateTake(s), NEW d \in Days
  PROVE  usage'[d] >= Shares(jobs', d) + Holds(reqs', d)
<1> PICK r : r = reqs[s]
  OBVIOUS
<1>1. PICK t : t = [r EXCEPT !.pc = "insert", !.day = today]
  OBVIOUS
<1>2. /\ r.kind = "create" /\ r.pc = "take"
      /\ \/ AnswerError(s, FALSE) /\ usage' = usage
         \/ /\ usage' = [usage EXCEPT ![today] = @ + N]
            /\ reqs' = [reqs EXCEPT ![s] = t]
  BY <1>1 DEF CreateTake
<1>3. JobsKept
  <2>1. UNCHANGED jobVars
    BY DEF CreateTake
  <2> QED
    BY <2>1, JobsSame
<1>4. \A o \in Slots \ {s} : reqs'[o] = reqs[o]
  BY SlotAfter DEF AtSlotStep, ServerStep
<1>5. Shares(jobs', d) = Shares(jobs, d) /\ Shares(jobs, d) \in Int
  BY <1>3, SharesKept
<1>6. /\ Holds(reqs', d) + Hold(r, d) = Holds(reqs, d) + Hold(reqs'[s], d)
      /\ Holds(reqs, d) \in Int /\ Holds(reqs', d) \in Int
  <2> PICK q : q = reqs'
    OBVIOUS
  <2>1. OnlyAt(reqs, q, s)
    BY <1>4 DEF OnlyAt
  <2>2. /\ Holds(q, d) + Hold(reqs[s], d) = Holds(reqs, d) + Hold(q[s], d)
        /\ Holds(reqs, d) \in Int /\ Holds(q, d) \in Int
    BY ONLY <2>1, HoldsChange
  <2> QED
    BY <2>2
<1>7. Hold(r, d) = 0
  BY <1>2 DEF Hold
<1>8. usage[d] >= Shares(jobs, d) + Holds(reqs, d) /\ usage[d] \in Int
  BY DEF PaidInv, Shape, SpaceOK
<1>9. CASE AnswerError(s, FALSE) /\ usage' = usage
  <2>1. Hold(reqs'[s], d) = 0
    BY <1>9, EndIs DEF AnswerError, Hold, NoReq
  <2> QED
    BY <1>5, <1>6, <1>7, <1>8, <1>9, <2>1
<1>10. CASE usage' = [usage EXCEPT ![today] = @ + N] /\ reqs' = [reqs EXCEPT ![s] = t]
  <2>1. reqs'[s] = t /\ r \in Request /\ today \in Days
    BY <1>10, AtSlot DEF Shape, ReqsOK, SpaceOK
  <2>2. t.kind = "create" /\ t.pc = "insert" /\ t.day = today
    BY <1>1, <1>2, <2>1 DEF Request
  <2>3. Hold(reqs'[s], d) = IF d = today THEN N ELSE 0
    BY <2>1, <2>2 DEF Hold
  <2>4. usage'[d] = usage[d] + IF d = today THEN N ELSE 0
    BY <1>8, <1>10, <2>1, Bounds DEF Shape, SpaceOK
  <2>5. (IF d = today THEN N ELSE 0) \in Int
    BY Bounds
  <2> QED
    BY <1>5, <1>6, <1>7, <1>8, <2>3, <2>4, <2>5
<1> QED
  BY <1>2, <1>9, <1>10

LEMMA InsertPays ==
  ASSUME Shape, PaidInv, Runner, NEW s \in Slots, CreateInsert(s), NEW d \in Days
  PROVE  usage'[d] >= Shares(jobs', d) + Holds(reqs', d)
<1> PICK r : r = reqs[s]
  OBVIOUS
<1> PICK x : x = jobs
  OBVIOUS
<1> PICK y : y = jobs'
  OBVIOUS
<1>1. PICK j \in Ids \ Jobs :
        /\ Jobs' = Jobs \cup {j} /\ \A i \in Jobs : y[i] = x[i]
        /\ y[j] = NewJob("file", N, r.day) /\ y[j] \in Job
        /\ r.kind = "create" /\ r.pc = "insert" /\ reqs'[s] = NoReq
  BY CreateInsertAfter
<1>2. \A o \in Slots \ {s} : reqs'[o] = reqs[o]
  BY SlotAfter DEF AtSlotStep, ServerStep
<1>3. /\ \A i \in Ids \ {j} : Share(y[i], d) = Share(x[i], d)
      /\ Share(x[j], d) = 0 /\ Share(y[j], d) = Hold(r, d)
  <2>1. \A i \in Ids \ {j} : y[i] = x[i] \/ (y[i] = None /\ x[i] = None)
    BY <1>1 DEF Jobs
  <2>2. x[j] = None /\ y[j] # None
    BY <1>1 DEF Jobs
  <2>3. y[j].day = r.day
    BY <1>1 DEF NewJob
  <2> QED
    BY <1>1, <2>1, <2>2, <2>3 DEF Share, Hold
<1>4. /\ Shares(y, d) + Share(x[j], d) = Shares(x, d) + Share(y[j], d)
      /\ Shares(x, d) \in Int /\ Shares(y, d) \in Int
  BY <1>1, <1>3, SharesChange
<1>5. /\ Holds(reqs', d) + Hold(r, d) = Holds(reqs, d) + Hold(reqs'[s], d)
      /\ Holds(reqs, d) \in Int /\ Holds(reqs', d) \in Int /\ Hold(r, d) \in {0, N}
  <2> PICK q : q = reqs'
    OBVIOUS
  <2>1. OnlyAt(reqs, q, s)
    BY <1>2 DEF OnlyAt
  <2>2. /\ Holds(q, d) + Hold(reqs[s], d) = Holds(reqs, d) + Hold(q[s], d)
        /\ Holds(reqs, d) \in Int /\ Holds(q, d) \in Int /\ Hold(reqs[s], d) \in {0, N}
    BY ONLY <2>1, HoldsChange
  <2> QED
    BY <2>2
<1>6. Hold(reqs'[s], d) = 0
  BY <1>1 DEF Hold, NoReq
<1>7. usage' = usage
  BY DEF CreateInsert, quotas
<1>8. usage[d] >= Shares(x, d) + Holds(reqs, d) /\ usage[d] \in Int /\ N \in Int
  BY Bounds DEF PaidInv, Shape, SpaceOK
<1>9. Hold(r, d) \in Int
  BY <1>5, <1>8
<1>10. usage'[d] >= Shares(y, d) + Holds(reqs', d)
  <2>1. usage'[d] = usage[d]
    BY <1>7
  <2> QED
    BY ONLY <1>3, <1>4, <1>5, <1>6, <1>8, <1>9, <2>1
<1> QED
  BY <1>10

LEMMA UndoPays ==
  ASSUME Shape, PaidInv, Runner, NEW s \in Slots, CreateUndo(s), NEW d \in Days
  PROVE  usage'[d] >= Shares(jobs', d) + Holds(reqs', d)
<1> PICK r : r = reqs[s]
  OBVIOUS
<1>1. /\ r.kind = "create" /\ r.pc = "insert" /\ UNCHANGED jobVars /\ End(s)
      /\ usage' = [usage EXCEPT ![r.day] = @ - Min({@, N})]
  BY DEF CreateUndo, AnswerError
<1>2. Shares(jobs', d) = Shares(jobs, d) /\ Shares(jobs, d) \in Int
  BY <1>1, JobsSame, SharesKept
<1>3. /\ Holds(reqs', d) + Hold(r, d) = Holds(reqs, d) + Hold(reqs'[s], d)
      /\ Holds(reqs, d) \in Int /\ Holds(reqs', d) \in Int
  <2> PICK q : q = reqs'
    OBVIOUS
  <2>1. OnlyAt(reqs, q, s)
    BY <1>1, EndIs DEF OnlyAt
  <2>2. /\ Holds(q, d) + Hold(reqs[s], d) = Holds(reqs, d) + Hold(q[s], d)
        /\ Holds(reqs, d) \in Int /\ Holds(q, d) \in Int
    BY ONLY <2>1, HoldsChange
  <2> QED
    BY <2>2
<1>4. Hold(reqs'[s], d) = 0
  BY <1>1, EndIs DEF Hold, NoReq
<1>5. usage[d] >= Shares(jobs, d) + Holds(reqs, d) /\ usage[d] \in Nat /\ N \in Nat
  BY Bounds DEF PaidInv, Shape, SpaceOK
<1>6. usage'[d] \in Int /\ usage'[d] >= usage[d] - Hold(r, d) /\ Hold(r, d) \in Int
  <2>1. CASE d = r.day
    <3>1. usage'[d] = usage[d] - Min({usage[d], N})
      BY <1>1, <2>1 DEF Shape, SpaceOK
    <3>2. Min({usage[d], N}) \in Nat /\ Min({usage[d], N}) <= N
      BY <1>5, MinOfTwo
    <3>3. Hold(r, d) = N
      BY <1>1, <2>1 DEF Hold
    <3> QED
      BY <1>5, <3>1, <3>2, <3>3
  <2>2. CASE d # r.day
    <3>1. usage'[d] = usage[d]
      BY <1>1, <2>2 DEF Shape, SpaceOK
    <3>2. Hold(r, d) = 0
      BY <2>2 DEF Hold
    <3> QED
      BY <1>5, <3>1, <3>2
  <2> QED
    BY <2>1, <2>2
<1> QED
  BY <1>2, <1>3, <1>4, <1>5, <1>6

LEMMA CommitPays ==
  ASSUME Shape, NEW s \in Slots, Commit(s), NEW d
  PROVE  Shares(jobs', d) = Shares(jobs, d) /\ Shares(jobs, d) \in Int
<1> PICK r : r = reqs[s]
  OBVIOUS
<1>1. JobsKept \/ Stores(r)
  BY CommitAfter
<1>2. CASE JobsKept
  BY <1>2, SharesKept
<1>3. CASE Stores(r)
  <2> PICK x : x = jobs
    OBVIOUS
  <2> PICK y : y = jobs'
    OBVIOUS
  <2> PICK j : j = r.job
    OBVIOUS
  <2>1. /\ y[j] = Counted(x[j], r) /\ x[j] \in Job /\ r.len \in Nat /\ r.done \in BatchRec
        /\ \A i \in Ids \ {j} : y[i] = x[i]
    BY <1>3 DEF Stores, Request
  <2>2. y[j] \in Job /\ y[j].day = x[j].day
    BY <2>1, CountedOK
  <2>3. \A i \in Ids : Share(y[i], d) = Share(x[i], d)
    BY <2>1, <2>2, ImportAssumption DEF Share
  <2>4. Shares(y, d) = Shares(x, d) /\ Shares(x, d) \in Int
    BY <2>3, SharesSame
  <2> QED
    BY <2>4
<1> QED
  BY <1>1, <1>2, <1>3

LEMMA PaidSlot ==
  ASSUME Shape, RunnerInv, PaidInv, Runner, NEW s \in Slots, AtSlotStep(s), NEW d \in Days
  PROVE  usage'[d] >= Shares(jobs', d) + Holds(reqs', d)
<1>1. ~ Refund(s)
  <2> SUFFICES ASSUME Refund(s) PROVE FALSE
    OBVIOUS
  <2>1. reqs[s].kind = "batch" /\ reqs[s].pc = "refund"
    BY DEF Refund
  <2>2. Small(reqs[s])
    BY <2>1, BatchIs
  <2> QED
    BY <2>1, <2>2 DEF RunnerInv, Follows
<1>2. CASE CreateTake(s) \/ CreateInsert(s) \/ CreateUndo(s)
  BY <1>2, TakePays, InsertPays, UndoPays
<1>3. CASE ~ CreateTake(s) /\ ~ CreateInsert(s) /\ ~ CreateUndo(s)
  <2>1. usage' = usage
    BY <1>1, <1>3, UsageAfter
  <2>2. Shares(jobs', d) = Shares(jobs, d) /\ Shares(jobs, d) \in Int
    <3>1. CASE Commit(s)
      BY <3>1, CommitPays
    <3>2. CASE ~ Commit(s)
      <4>1. reqs[s].kind # "sample"
        BY SampleAlone DEF Runner, Shape
      <4>2. ~ ToNew(s) /\ ~ ToStore(s)
        BY <1>3, <3>2, <4>1 DEF ToNew, ToStore, SampleInsert, SampleCommit
      <4> QED
        BY <4>2, JobsAfter, SharesKept
    <3> QED
      BY <3>1, <3>2
  <2>3. /\ Holds(reqs', d) + Hold(reqs[s], d) = Holds(reqs, d) + Hold(reqs'[s], d)
        /\ Holds(reqs, d) \in Int /\ Holds(reqs', d) \in Int
        /\ Hold(reqs[s], d) \in {0, N} /\ Hold(reqs'[s], d) \in {0, N}
    <3> PICK q : q = reqs'
      OBVIOUS
    <3>1. OnlyAt(reqs, q, s)
      BY SlotAfter DEF OnlyAt
    <3>2. /\ Holds(q, d) + Hold(reqs[s], d) = Holds(reqs, d) + Hold(q[s], d)
          /\ Holds(reqs, d) \in Int /\ Holds(q, d) \in Int
          /\ Hold(reqs[s], d) \in {0, N} /\ Hold(q[s], d) \in {0, N}
      BY ONLY <3>1, HoldsChange
    <3> QED
      BY <3>2
  <2>4. Hold(reqs'[s], d) = 0 \/ Hold(reqs'[s], d) = Hold(reqs[s], d)
    <3>1. Hold(reqs'[s], d) = 0 \/ reqs' = reqs
      BY <1>3, HoldAfter
    <3> QED
      BY <3>1
  <2>5. usage[d] >= Shares(jobs, d) + Holds(reqs, d) /\ usage[d] \in Int /\ N \in Nat
    BY Bounds DEF PaidInv, Shape, SpaceOK
  <2>6. usage'[d] = usage[d]
    BY <2>1
  <2> QED
    BY ONLY <2>2, <2>3, <2>4, <2>5, <2>6
<1> QED
  BY <1>2, <1>3

LEMMA PaidStep ==
  ASSUME Shape, RunnerInv, PaidInv, [Next]_vars PROVE PaidInv'
<1>1. CASE ~ Runner
  <2>1. work' = work
    BY Steps, SlotAfter, ElseAfter
  <2> QED
    BY <1>1, <2>1 DEF PaidInv, Runner
<1>2. CASE Runner
  <2>1. ASSUME NEW s \in Slots, AtSlotStep(s) PROVE PaidInv'
    BY <1>2, <2>1, PaidSlot DEF PaidInv
  <2>2. ASSUME ElseStep \/ UNCHANGED vars PROVE PaidInv'
    <3>1. JobsKept /\ reqs' = reqs
      BY <2>2, ElseAfter
    <3>2. usage' = usage
      BY <2>2 DEF ElseStep, GetImport, StartRun, Cancel, EditMapping, ClearImports,
         ClearObjects, ClearTemplate, NextDay, GoStale, quotas, vars
    <3> QED
      BY <1>2, <3>1, <3>2, SharesKept DEF PaidInv
  <2> QED
    BY <2>1, <2>2, Steps
<1> QED
  BY <1>1, <1>2

LEMMA PaidInit == Init => PaidInv
<1> SUFFICES ASSUME Init, NEW d \in Days PROVE usage[d] >= Shares(jobs, d) + Holds(reqs, d)
  BY DEF PaidInv
<1>1. usage[d] = 0 /\ (\A j \in Ids : jobs[j] = None) /\ \A s \in Slots : reqs[s] = NoReq
  BY DEF Init
<1> PICK z : z = [x \in Ids |-> 0]
  OBVIOUS
<1> PICK o : o = [x \in Slots |-> 0]
  OBVIOUS
<1>2. Shares(jobs, d) = SumOf(z, Ids)
  BY <1>1 DEF Shares, Share
<1>3. Holds(reqs, d) = SumOf(o, Slots)
  BY <1>1 DEF Holds, Hold, NoReq
<1>4. SumOf(z, Ids) = 0 /\ SumOf(o, Slots) = 0
  BY Bounds, SumZero
<1> QED
  BY <1>1, <1>2, <1>3, <1>4


(* What a day's jobs received is at most their shares of its counter.      *)
LEMMA Paid == ASSUME Shape, CountInv, RunnerInv, PaidInv PROVE NeverUndercharged
<1> SUFFICES ASSUME Runner, NEW d \in Days
             PROVE  usage[d] >= MapThenSumSet(LAMBDA j : jobs[j].received,
                                              {j \in Jobs : jobs[j].day = d})
  BY DEF NeverUndercharged
<1>1. PICK S : S = {j \in Jobs : jobs[j].day = d}
  OBVIOUS
<1>2. PICK f : f = [j \in S |-> jobs[j].received]
  OBVIOUS
<1>3. PICK g : g = [j \in Ids |-> Share(jobs[j], d)]
  OBVIOUS
<1>4. PICK h : h = [s \in Slots |-> Hold(reqs[s], d)]
  OBVIOUS
<1>5. S \subseteq Ids /\ IsFiniteSet(Ids) /\ IsFiniteSet(S) /\ IsFiniteSet(Slots) /\ N \in Nat
  BY <1>1, Bounds, FS_Subset DEF Jobs
<1>6. ASSUME NEW j \in S PROVE f[j] \in Int /\ g[j] \in Int /\ f[j] <= g[j]
  <2> PICK R : R = RowsOf(stored[j])
    OBVIOUS
  <2>1. j \in Jobs /\ jobs[j].received = R /\ R \in Nat /\ R <= N
    BY <1>1, RunnerOf, StackedRows
  <2>2. f[j] = R /\ g[j] = N
    BY <1>1, <1>2, <1>3, <1>5, <2>1 DEF Share, Jobs
  <2> QED
    BY <1>5, <2>1, <2>2
<1>7. \A j \in Ids : g[j] \in Int /\ g[j] >= 0
  BY <1>3, <1>5 DEF Share
<1>8. \A s \in Slots : h[s] \in Int /\ h[s] >= 0
  BY <1>4, <1>5 DEF Hold
<1>9. SumOf(f, S) <= SumOf(g, S) /\ SumOf(f, S) \in Int
  BY ONLY <1>5, <1>6, SumLess, SumInt
<1>10. SumOf(g, S) <= SumOf(g, Ids) /\ SumOf(g, Ids) \in Int /\ SumOf(g, S) \in Int
  <2>1. \A j \in S : g[j] \in Int
    BY <1>5, <1>7
  <2> QED
    BY ONLY <1>5, <1>7, <2>1, SumWithin, SumInt
<1>11. SumOf(h, Slots) \in Int /\ SumOf(h, Slots) >= 0
  BY ONLY <1>5, <1>8, SumInt
<1>12. usage[d] >= SumOf(g, Ids) + SumOf(h, Slots) /\ usage[d] \in Int
  <2>1. Shares(jobs, d) = SumOf(g, Ids) /\ Holds(reqs, d) = SumOf(h, Slots)
    BY <1>3, <1>4 DEF Shares, Holds
  <2> QED
    BY <2>1 DEF PaidInv, Shape, SpaceOK
<1>13. MapThenSumSet(LAMBDA j : jobs[j].received, S) = SumOf(f, S)
  <2>1. MapThenSumSet(LAMBDA j : jobs[j].received, S) = SumOf([j \in S |-> jobs[j].received], S)
    BY DEF MapThenSumSet, MapThenFoldSet, SumOf, IsSum, Pick
  <2> QED
    BY <1>2, <2>1
<1>14. usage[d] >= SumOf(f, S)
  BY ONLY <1>9, <1>10, <1>11, <1>12
<1> QED
  BY <1>1, <1>13, <1>14

-----------------------------------------------------------------------------
(* What a sample load is charged.  A request is charged from the moment it *)
(* takes its rows of the seed budget until it is done or gives them back.  *)
ChargedPcs == {"template", "insert", "upsert", "commit", "failed", "undo"}

Charged(r) == r.kind = "sample" /\ r.pc \in ChargedPcs
Holder(r) == Charged(r) /\ r.job # None

Cost(r) == IF Charged(r) THEN SampleRows(r.scenario) ELSE 0
Worth(x) == IF x # None /\ x.kind = "sample" /\ x.status = "DONE" THEN x.total ELSE 0

CostOf(q) == SumOf([s \in Slots |-> Cost(q[s])], Slots)
WorthOf(x) == SumOf([j \in Ids |-> Worth(x[j])], Ids)

(* A charged request has a job of its own, which only it can finish.       *)
Owned(r, x) ==
  /\ r.job \in Ids /\ x[r.job] # None /\ x[r.job].kind = "sample"
  /\ x[r.job].status # "DONE" /\ x[r.job].total = SampleRows(r.scenario)

Owns(q, x) ==
  /\ \A s \in Slots : Holder(q[s]) => Owned(q[s], x)
  /\ \A s, t \in Slots : s # t /\ Holder(q[s]) /\ Holder(q[t]) => q[s].job # q[t].job

SampleOnly == \A j \in Jobs : jobs[j].kind = "sample" => work = "sample"

SeedInv ==
  /\ SampleOnly
  /\ work = "sample" => Owns(reqs, jobs) /\ seeds >= WorthOf(jobs) + CostOf(reqs)

CostsNat(q) == \A s \in Slots : Cost(q[s]) \in Nat
WorthsNat(x) == \A j \in Ids : Worth(x[j]) \in Nat

LEMMA FitsCost == ASSUME NEW r, NEW J, NEW w, Fits(r, J, w) PROVE Cost(r) \in Nat
<1>1. CASE Charged(r)
  <2>1. r.scenario \in Scenarios
    BY <1>1 DEF Charged, Fits, Carries
  <2> QED
    BY <1>1, <2>1, Bounds DEF Cost
<1>2. CASE ~ Charged(r)
  BY <1>2 DEF Cost
<1> QED
  BY <1>1, <1>2

LEMMA JobWorth == ASSUME NEW x \in Job \cup {None} PROVE Worth(x) \in Nat
BY ImportAssumption DEF Worth, Job

LEMMA NatNow ==
  /\ Shape => CostsNat(reqs) /\ WorthsNat(jobs) /\ seeds \in Nat
  /\ Shape' => CostsNat(reqs') /\ WorthsNat(jobs') /\ seeds' \in Nat
<1>1. ASSUME Shape PROVE CostsNat(reqs) /\ WorthsNat(jobs) /\ seeds \in Nat
  BY <1>1, FitsCost, JobWorth, Bounds DEF Shape, ReqsOK, StoreOK, SpaceOK, CostsNat, WorthsNat
<1>2. ASSUME Shape' PROVE CostsNat(reqs') /\ WorthsNat(jobs') /\ seeds' \in Nat
  <2> PICK q : q = reqs'
    OBVIOUS
  <2> PICK x : x = jobs'
    OBVIOUS
  <2>1. \A s \in Slots : Fits(q[s], Jobs', work')
    BY <1>2 DEF Shape, ReqsOK
  <2>2. \A j \in Ids : x[j] \in Job \cup {None}
    BY <1>2 DEF Shape, StoreOK
  <2>3. CostsNat(q) /\ WorthsNat(x)
    BY <2>1, <2>2, FitsCost, JobWorth DEF CostsNat, WorthsNat
  <2> QED
    BY <1>2, <2>3, Bounds DEF Shape, SpaceOK
<1> QED
  BY <1>1, <1>2

LEMMA CostChange ==
  ASSUME NEW p, NEW q, NEW s, OnlyAt(p, q, s), CostsNat(p), CostsNat(q)
  PROVE  /\ CostOf(q) + Cost(p[s]) = CostOf(p) + Cost(q[s])
         /\ CostOf(p) \in Int /\ CostOf(q) \in Int
         /\ Cost(p[s]) \in Nat /\ Cost(q[s]) \in Nat
<1> PICK f : f = [o \in Slots |-> Cost(p[o])]
  OBVIOUS
<1> PICK g : g = [o \in Slots |-> Cost(q[o])]
  OBVIOUS
<1>1. /\ \A o \in Slots : f[o] \in Int /\ g[o] \in Int
      /\ f[s] = Cost(p[s]) /\ g[s] = Cost(q[s]) /\ s \in Slots /\ IsFiniteSet(Slots)
      /\ \A o \in Slots \ {s} : g[o] = f[o]
      /\ Cost(p[s]) \in Nat /\ Cost(q[s]) \in Nat
  BY Bounds DEF OnlyAt, CostsNat
<1>2. /\ SumOf(g, Slots) + f[s] = SumOf(f, Slots) + g[s]
      /\ SumOf(f, Slots) \in Int /\ SumOf(g, Slots) \in Int
  BY ONLY <1>1, SumChange
<1> QED
  BY <1>1, <1>2 DEF CostOf

(* The jobs y differ in worth from x at j at most.                         *)
WorthAt(x, y, j) == j \in Ids /\ \A i \in Ids \ {j} : Worth(y[i]) = Worth(x[i])

LEMMA WorthChange ==
  ASSUME NEW x, NEW y, NEW j, WorthAt(x, y, j), WorthsNat(x), WorthsNat(y)
  PROVE  /\ WorthOf(y) + Worth(x[j]) = WorthOf(x) + Worth(y[j])
         /\ WorthOf(x) \in Int /\ WorthOf(y) \in Int
         /\ Worth(x[j]) \in Nat /\ Worth(y[j]) \in Nat
<1> PICK f : f = [i \in Ids |-> Worth(x[i])]
  OBVIOUS
<1> PICK g : g = [i \in Ids |-> Worth(y[i])]
  OBVIOUS
<1>1. /\ \A i \in Ids : f[i] \in Int /\ g[i] \in Int
      /\ f[j] = Worth(x[j]) /\ g[j] = Worth(y[j]) /\ j \in Ids /\ IsFiniteSet(Ids)
      /\ \A i \in Ids \ {j} : g[i] = f[i]
      /\ Worth(x[j]) \in Nat /\ Worth(y[j]) \in Nat
  BY Bounds DEF WorthAt, WorthsNat
<1>2. /\ SumOf(g, Ids) + f[j] = SumOf(f, Ids) + g[j]
      /\ SumOf(f, Ids) \in Int /\ SumOf(g, Ids) \in Int
  BY ONLY <1>1, SumChange
<1> QED
  BY <1>1, <1>2 DEF WorthOf

LEMMA WorthSame ==
  ASSUME NEW x, NEW y, \A j \in Ids : Worth(y[j]) = Worth(x[j]), WorthsNat(x)
  PROVE  WorthOf(y) = WorthOf(x) /\ WorthOf(x) \in Int
<1> PICK f : f = [j \in Ids |-> Worth(x[j])]
  OBVIOUS
<1>1. f = [j \in Ids |-> Worth(y[j])] /\ \A j \in Ids : f[j] \in Int
  BY DEF WorthsNat
<1>2. SumOf(f, Ids) \in Int
  BY <1>1, Bounds, SumInt
<1> QED
  BY <1>1, <1>2 DEF WorthOf

LEMMA WorthKept ==
  ASSUME Shape, JobsKept
  PROVE  /\ WorthOf(jobs') = WorthOf(jobs) /\ WorthOf(jobs) \in Int
         /\ \A r : Owned(r, jobs) => Owned(r, jobs')
<1> PICK x : x = jobs
  OBVIOUS
<1> PICK y : y = jobs'
  OBVIOUS
<1>1. \A j \in Ids : /\ (y[j] = None <=> x[j] = None)
                     /\ x[j] # None => SameCounts(x[j], y[j])
  BY DEF JobsKept, Jobs
<1>2. \A j \in Ids : Worth(y[j]) = Worth(x[j])
  BY <1>1 DEF SameCounts, Worth
<1>3. WorthOf(y) = WorthOf(x) /\ WorthOf(x) \in Int
  BY <1>2, WorthSame, NatNow
<1>4. \A r : Owned(r, x) => Owned(r, y)
  BY <1>1 DEF SameCounts, Owned
<1> QED
  BY <1>3, <1>4


(* A request that keeps the jobs as they are keeps what is charged, if it  *)
(* is charged for what it takes of the budget.                             *)
Advances(r, t) ==
  Holder(t) => Holder(r) /\ t.job = r.job /\ t.scenario = r.scenario

LEMMA SeedKept ==
  ASSUME Shape, Shape', SeedInv, work = "sample", work' = work, JobsKept,
         NEW s \in Slots, OnlyAt(reqs, reqs', s), Advances(reqs[s], reqs'[s]),
         seeds' + Cost(reqs[s]) >= seeds + Cost(reqs'[s])
  PROVE  SeedInv'
<1> PICK p : p = reqs
  OBVIOUS
<1> PICK q : q = reqs'
  OBVIOUS
<1> PICK x : x = jobs
  OBVIOUS
<1> PICK y : y = jobs'
  OBVIOUS
<1>1. WorthOf(y) = WorthOf(x) /\ WorthOf(x) \in Int /\ \A r : Owned(r, x) => Owned(r, y)
  BY WorthKept
<1>2. CostsNat(p) /\ CostsNat(q) /\ OnlyAt(p, q, s)
  BY NatNow
<1>3. seeds \in Nat /\ seeds' \in Nat
  BY NatNow
<1>4. /\ CostOf(q) + Cost(p[s]) = CostOf(p) + Cost(q[s])
      /\ CostOf(p) \in Int /\ CostOf(q) \in Int
      /\ Cost(p[s]) \in Nat /\ Cost(q[s]) \in Nat
  BY ONLY <1>2, CostChange
<1>5. seeds >= WorthOf(x) + CostOf(p) /\ Owns(p, x)
  BY DEF SeedInv
<1>6. seeds' + Cost(p[s]) >= seeds + Cost(q[s])
  OBVIOUS
<1>7. seeds' >= WorthOf(y) + CostOf(q)
  BY ONLY <1>1, <1>3, <1>4, <1>5, <1>6
<1>8. \A o \in Slots : Holder(q[o]) => /\ Holder(p[o]) /\ q[o].job = p[o].job
                                       /\ q[o].scenario = p[o].scenario
  BY DEF Advances, OnlyAt
<1>9. Owns(q, y)
  <2>1. ASSUME NEW o \in Slots, Holder(q[o]) PROVE Owned(q[o], y)
    <3>1. Owned(p[o], y) /\ q[o].job = p[o].job /\ q[o].scenario = p[o].scenario
      BY <1>1, <1>5, <1>8, <2>1 DEF Owns
    <3> QED
      BY <3>1 DEF Owned
  <2>2. \A o, t \in Slots : o # t /\ Holder(q[o]) /\ Holder(q[t]) => q[o].job # q[t].job
    BY <1>5, <1>8 DEF Owns
  <2> QED
    BY <2>1, <2>2 DEF Owns
<1> QED
  BY <1>7, <1>9 DEF SeedInv, SampleOnly

LEMMA SeedInsert ==
  ASSUME Shape, Shape', SeedInv, NEW s \in Slots, SampleInsert(s), OnlyAt(reqs, reqs', s),
         work' = work
  PROVE  SeedInv'
<1> PICK p : p = reqs
  OBVIOUS
<1> PICK q : q = reqs'
  OBVIOUS
<1> PICK x : x = jobs
  OBVIOUS
<1> PICK y : y = jobs'
  OBVIOUS
<1>1. PICK j \in Ids \ Jobs :
           /\ Jobs' = Jobs \cup {j} /\ \A i \in Jobs : y[i] = x[i]
           /\ y[j] = NewJob("sample", SampleRows(p[s].scenario), today) /\ y[j] \in Job
           /\ p[s].kind = "sample" /\ p[s].pc = "insert" /\ work = "sample"
           /\ q[s].kind = "sample" /\ q[s].pc = "upsert" /\ q[s].job = j
           /\ q[s].scenario = p[s].scenario
  BY SampleInsertAfter
<1>2. \A i \in Ids \ {j} : y[i] = x[i]
  BY <1>1 DEF Jobs
<1>3. /\ x[j] = None /\ y[j] # None /\ y[j].kind = "sample" /\ y[j].status = "RECEIVING"
      /\ y[j].total = SampleRows(p[s].scenario)
  <2>1. x[j] = None
    BY <1>1 DEF Jobs
  <2>2. y[j] # None
    BY <1>1, ImportAssumption
  <2>3. /\ y[j].kind = "sample" /\ y[j].status = "RECEIVING"
        /\ y[j].total = SampleRows(p[s].scenario)
    BY <1>1 DEF NewJob
  <2> QED
    BY <2>1, <2>2, <2>3
<1>4. CostsNat(p) /\ CostsNat(q) /\ OnlyAt(p, q, s)
  BY NatNow
<1>5. WorthAt(x, y, j) /\ WorthsNat(x) /\ WorthsNat(y)
  BY <1>2, NatNow DEF WorthAt
<1>6. /\ CostOf(q) + Cost(p[s]) = CostOf(p) + Cost(q[s])
      /\ CostOf(p) \in Int /\ CostOf(q) \in Int
      /\ Cost(p[s]) \in Nat /\ Cost(q[s]) \in Nat
  BY ONLY <1>4, CostChange
<1>7. /\ WorthOf(y) + Worth(x[j]) = WorthOf(x) + Worth(y[j])
      /\ WorthOf(x) \in Int /\ WorthOf(y) \in Int
  BY ONLY <1>5, WorthChange
<1>8. Worth(x[j]) = 0 /\ Worth(y[j]) = 0
  BY <1>3 DEF Worth
<1>9. Cost(p[s]) = Cost(q[s])
  BY <1>1 DEF Cost, Charged, ChargedPcs
<1>10. seeds \in Nat /\ seeds' = seeds
  BY NatNow DEF SampleInsert, quotas
<1>11. seeds >= WorthOf(x) + CostOf(p) /\ Owns(p, x)
  BY <1>1 DEF SeedInv
<1>12. seeds' >= WorthOf(y) + CostOf(q)
  BY ONLY <1>6, <1>7, <1>8, <1>9, <1>10, <1>11
<1>13. \A o \in Slots \ {s} : q[o] = p[o]
  BY DEF OnlyAt
<1>14. ASSUME NEW o \in Slots \ {s}, Holder(q[o]) PROVE Owned(q[o], y) /\ q[o].job # j
  <2>1. Owned(p[o], x)
    BY <1>11, <1>13, <1>14 DEF Owns
  <2>2. p[o].job # j /\ p[o].job \in Ids
    BY <1>3, <2>1 DEF Owned
  <2> QED
    BY <1>2, <1>13, <2>1, <2>2 DEF Owned
<1>15. Owned(q[s], y)
  BY <1>1, <1>3 DEF Owned
<1>16. \A o, t \in Slots : o # t /\ Holder(q[o]) /\ Holder(q[t]) => q[o].job # q[t].job
  BY <1>1, <1>11, <1>13, <1>14 DEF Owns
<1>17. Owns(q, y)
  BY <1>14, <1>15, <1>16 DEF Owns
<1> QED
  BY <1>1, <1>12, <1>17 DEF SeedInv, SampleOnly

LEMMA SeedCommit ==
  ASSUME Shape, Shape', SeedInv, NEW s \in Slots, SampleCommit(s), OnlyAt(reqs, reqs', s),
         work' = work
  PROVE  SeedInv'
<1> PICK p : p = reqs
  OBVIOUS
<1> PICK q : q = reqs'
  OBVIOUS
<1> PICK x : x = jobs
  OBVIOUS
<1> PICK y : y = jobs'
  OBVIOUS
<1> PICK j : j = p[s].job
  OBVIOUS
<1>1. /\ p[s].kind = "sample" /\ p[s].pc = "commit" /\ work = "sample" /\ Stores(p[s])
      /\ q[s].kind = "sample" /\ q[s].job = j /\ q[s].scenario = p[s].scenario
      /\ (p[s].last /\ q[s].pc = "room") \/ (~ p[s].last /\ q[s].pc = "upsert")
  BY SampleCommitAfter
<1>2. /\ y[j] = Counted(x[j], p[s]) /\ x[j] \in Job /\ p[s].len \in Nat
      /\ p[s].done \in BatchRec /\ j \in Ids /\ j \in Jobs
      /\ \A i \in Ids \ {j} : y[i] = x[i]
  BY <1>1 DEF Stores, Request, Jobs
<1>3. /\ y[j] \in Job /\ y[j].kind = x[j].kind /\ y[j].total = x[j].total
      /\ y[j].status = IF p[s].last /\ x[j].status = "RECEIVING" THEN "DONE" ELSE x[j].status
  BY <1>2, CountedOK
<1>4. CostsNat(p) /\ CostsNat(q) /\ OnlyAt(p, q, s)
  BY NatNow
<1>5. WorthAt(x, y, j) /\ WorthsNat(x) /\ WorthsNat(y)
  BY <1>2, NatNow DEF WorthAt
<1>6. /\ CostOf(q) + Cost(p[s]) = CostOf(p) + Cost(q[s])
      /\ CostOf(p) \in Int /\ CostOf(q) \in Int
      /\ Cost(p[s]) \in Nat /\ Cost(q[s]) \in Nat
  BY ONLY <1>4, CostChange
<1>7. /\ WorthOf(y) + Worth(x[j]) = WorthOf(x) + Worth(y[j])
      /\ WorthOf(x) \in Int /\ WorthOf(y) \in Int
      /\ Worth(x[j]) \in Nat /\ Worth(y[j]) \in Nat
  BY ONLY <1>5, WorthChange
<1>8. seeds \in Nat /\ seeds' = seeds
  BY NatNow DEF SampleCommit, quotas
<1>9. seeds >= WorthOf(x) + CostOf(p) /\ Owns(p, x)
  BY <1>1 DEF SeedInv
<1>10. j # None
  BY <1>2, Bounds
<1>11. Holder(p[s]) /\ Owned(p[s], x)
  <2>1. Holder(p[s])
    BY <1>1, <1>10 DEF Holder, Charged, ChargedPcs
  <2> QED
    BY <1>9, <2>1 DEF Owns
<1>12. Worth(x[j]) = 0 /\ Cost(p[s]) = SampleRows(p[s].scenario)
  BY <1>11 DEF Owned, Worth, Cost, Holder
<1>13. Worth(y[j]) + Cost(q[s]) <= Cost(p[s])
  <2>1. CASE p[s].last
    <3>1. Cost(q[s]) = 0
      BY <1>1, <2>1 DEF Cost, Charged, ChargedPcs
    <3>2. Worth(y[j]) = 0 \/ Worth(y[j]) = Cost(p[s])
      BY <1>3, <1>11, <1>12 DEF Worth, Owned
    <3> QED
      BY <1>6, <3>1, <3>2
  <2>2. CASE ~ p[s].last
    <3>1. Cost(q[s]) = Cost(p[s])
      BY <1>1, <1>12, <2>2 DEF Cost, Charged, ChargedPcs
    <3>2. Worth(y[j]) = 0
      BY <1>3, <1>11, <2>2 DEF Worth, Owned
    <3> QED
      BY <1>6, <3>1, <3>2
  <2> QED
    BY <2>1, <2>2
<1>14. seeds' >= WorthOf(y) + CostOf(q)
  BY ONLY <1>6, <1>7, <1>8, <1>9, <1>12, <1>13
<1>15. \A o \in Slots \ {s} : q[o] = p[o]
  BY DEF OnlyAt
<1>16. ASSUME NEW o \in Slots \ {s}, Holder(q[o]) PROVE Owned(q[o], y) /\ q[o].job # j
  <2>1. Owned(p[o], x) /\ p[o].job # j
    BY <1>9, <1>11, <1>15, <1>16 DEF Owns
  <2>2. p[o].job \in Ids
    BY <2>1 DEF Owned
  <2> QED
    BY <1>2, <1>15, <2>1, <2>2 DEF Owned
<1>17. ASSUME Holder(q[s]) PROVE Owned(q[s], y)
  <2>1. ~ p[s].last
    BY <1>1, <1>17 DEF Holder, Charged, ChargedPcs
  <2>2. y[j] # None
    BY <1>3, ImportAssumption
  <2> QED
    BY <1>1, <1>2, <1>3, <1>11, <2>1, <2>2 DEF Owned
<1>18. \A o, t \in Slots : o # t /\ Holder(q[o]) /\ Holder(q[t]) => q[o].job # q[t].job
  BY <1>1, <1>9, <1>15, <1>16 DEF Owns
<1>19. Owns(q, y)
  BY <1>16, <1>17, <1>18 DEF Owns
<1> QED
  BY <1>1, <1>14, <1>19 DEF SeedInv, SampleOnly

(* What becomes of the budget.                                             *)
LEMMA SeedsAfter ==
  ASSUME NEW s, AtSlotStep(s), ~ SampleTake(s), ~ SampleUndo(s)
  PROVE  seeds' = seeds
<1>1. CASE StartCreate(s) \/ CreateStats(s) \/ CreateTake(s) \/ CreateInsert(s)
           \/ CreateUndo(s) \/ StartMapping(s) \/ MappingRead(s) \/ MappingSet(s)
  BY <1>1 DEF StartCreate, CreateStats, CreateTake, CreateInsert, CreateUndo, StartMapping,
     MappingRead, MappingSet, quotas
<1>2. CASE StartBatch(s) \/ TooLarge(s) \/ BatchJob(s) \/ BatchPrior(s) \/ Upsert(s)
           \/ Commit(s) \/ Refund(s) \/ \E n \in Nat : SendAny(s, n)
  BY <1>2 DEF StartBatch, TooLarge, BatchJob, BatchPrior, Upsert, Commit, Refund, SendAny,
     quotas
<1>3. CASE SampleCheck(s) \/ SampleTemplate(s) \/ SampleInsert(s) \/ SampleCommit(s)
           \/ LoseAnswer(s) \/ Kill(s)
  BY <1>3 DEF SampleCheck, SampleTemplate, SampleInsert, SampleCommit, LoseAnswer, Kill, quotas
<1>4. CASE SampleRoom(s) \/ SampleMark(s) \/ SampleFail(s)
           \/ \E sc \in Scenarios : StartSample(s, sc)
  BY <1>4 DEF SampleRoom, SampleMark, SampleFail, StartSample, quotas
<1> QED
  BY <1>1, <1>2, <1>3, <1>4 DEF AtSlotStep, ServerStep

LEMMA SeedSums ==
  ASSUME NEW q, NEW x, CostsNat(q), WorthsNat(x)
  PROVE  /\ CostOf(q) \in Int /\ CostOf(q) >= 0 /\ WorthOf(x) \in Int /\ WorthOf(x) >= 0
         /\ \A s \in Slots : Cost(q[s]) <= CostOf(q)
<1> PICK f : f = [o \in Slots |-> Cost(q[o])]
  OBVIOUS
<1> PICK g : g = [j \in Ids |-> Worth(x[j])]
  OBVIOUS
<1>1. /\ \A o \in Slots : f[o] \in Int /\ f[o] >= 0
      /\ \A j \in Ids : g[j] \in Int /\ g[j] >= 0
      /\ IsFiniteSet(Slots) /\ IsFiniteSet(Ids)
  BY Bounds DEF CostsNat, WorthsNat
<1>2. SumOf(f, Slots) \in Int /\ SumOf(f, Slots) >= 0 /\ SumOf(g, Ids) \in Int /\ SumOf(g, Ids) >= 0
  BY ONLY <1>1, SumInt
<1>3. ASSUME NEW s \in Slots PROVE f[s] <= SumOf(f, Slots)
  <2> PICK T : T = Slots \ {s}
    OBVIOUS
  <2>1. IsFiniteSet(T) /\ \A o \in T : f[o] \in Int /\ f[o] >= 0
    BY <1>1, FS_Subset
  <2>2. SumOf(f, Slots) = f[s] + SumOf(f, T)
    BY <1>1, SumTake
  <2>3. SumOf(f, T) \in Int /\ SumOf(f, T) >= 0
    BY ONLY <2>1, SumInt
  <2>4. f[s] \in Int
    BY <1>1
  <2> QED
    BY ONLY <2>2, <2>3, <2>4
<1> QED
  BY <1>2, <1>3 DEF CostOf, WorthOf


LEMMA SeedSlot ==
  ASSUME Shape, Shape', SeedInv, work = "sample", NEW s \in Slots, AtSlotStep(s)
  PROVE  SeedInv'
<1> PICK r : r = reqs[s]
  OBVIOUS
<1> PICK t : t = reqs'[s]
  OBVIOUS
<1>1. /\ OnlyAt(reqs, reqs', s) /\ work' = work
      /\ r.kind \in {"none", "sample"} /\ t.kind \in {"none", "sample"}
      /\ Fits(r, Jobs, work)
  <2>1. OnlyAt(reqs, reqs', s) /\ work' = work
    BY SlotAfter DEF OnlyAt
  <2>2. Fits(r, Jobs, work) /\ Fits(t, Jobs', work')
    BY DEF Shape, ReqsOK
  <2> QED
    BY <2>1, <2>2 DEF Fits, Request, Belongs
<1>2. CASE SampleInsert(s)
  BY <1>1, <1>2, SeedInsert
<1>3. CASE SampleCommit(s)
  BY <1>1, <1>3, SeedCommit
<1>4. CASE ~ SampleInsert(s) /\ ~ SampleCommit(s)
  <2>1. JobsKept
    <3>1. ~ ToNew(s) /\ ~ ToStore(s)
      BY <1>1, <1>4 DEF ToNew, ToStore, CreateInsert, Commit
    <3> QED
      BY <3>1, JobsAfter
  <2>2. /\ CostOf(reqs) \in Int /\ WorthOf(jobs) \in Int /\ Cost(r) \in Nat /\ Cost(t) \in Nat
        /\ seeds \in Nat /\ seeds' \in Nat /\ WorthOf(jobs) >= 0 /\ CostOf(reqs) >= Cost(r)
    BY <1>1, NatNow, SeedSums DEF CostsNat
  <2>3. Advances(r, t) /\ seeds' + Cost(r) >= seeds + Cost(t)
    <3>1. CASE SampleTake(s)
      <4>1. r.kind = "sample" /\ r.pc = "take" /\ r.job = None
        BY <1>1, <3>1 DEF SampleTake, Fits, Carries
      <4>2. CASE End(s) /\ seeds' = seeds
        <5>1. t = NoReq
          BY <4>2, EndIs
        <5> QED
          BY <2>2, <4>2, <5>1 DEF Advances, Holder, Charged, Cost, NoReq
      <4>3. CASE Goto(s, "template") /\ seeds' = seeds + SampleRows(r.scenario)
        <5>1. t = [r EXCEPT !.pc = "template"] /\ r \in Request
          BY <1>1, <4>3 DEF Goto, Fits, Shape, ReqsOK
        <5>2. t.job = None /\ t.kind = "sample" /\ t.pc = "template" /\ t.scenario = r.scenario
          BY <4>1, <5>1, Moved
        <5>3. Cost(r) = 0 /\ Cost(t) = SampleRows(r.scenario)
          BY <4>1, <5>2 DEF Cost, Charged, ChargedPcs
        <5> QED
          BY <2>2, <4>3, <5>2, <5>3 DEF Advances, Holder
      <4> QED
        BY <3>1, <4>2, <4>3 DEF SampleTake
    <3>2. CASE SampleUndo(s)
      <4>1. r.kind = "sample" /\ r.pc = "undo" /\ t = NoReq
        BY <3>2, EndIs DEF SampleUndo
      <4>2. seeds' = seeds - Min({seeds, SampleRows(r.scenario)})
        BY <3>2 DEF SampleUndo
      <4>3. Cost(r) = SampleRows(r.scenario) /\ Cost(t) = 0
        BY <4>1 DEF Cost, Charged, ChargedPcs, NoReq
      <4>4. Min({seeds, Cost(r)}) \in Nat /\ Min({seeds, Cost(r)}) <= Cost(r)
        BY <2>2, MinOfTwo
      <4> QED
        BY <2>2, <4>1, <4>2, <4>3, <4>4 DEF Advances, Holder, Charged, NoReq
    <3>3. CASE ~ SampleTake(s) /\ ~ SampleUndo(s)
      <4>1. seeds' = seeds
        BY <3>3, SeedsAfter
      <4>2. \/ reqs' = reqs \/ t = NoReq
            \/ SampleFail(s) /\ Moves(s) /\ t.pc = "failed" /\ r.pc \in Guarded
            \/ SampleCheck(s) /\ Moves(s) /\ t.pc = "take" /\ r.pc = "check"
            \/ SampleTemplate(s) /\ Moves(s) /\ t.pc = "insert" /\ r.pc = "template"
            \/ SampleMark(s) /\ Moves(s) /\ t.pc = "undo" /\ r.pc = "failed"
            \/ t.kind = "sample" /\ t.pc = "check"
            \/ Upsert(s) /\ Moves(s) /\ r.pc = "upsert" /\ t.pc = "commit"
        BY <1>1, <1>4, <3>3, SlotAfter
      <4>3. Advances(r, t) /\ (Cost(t) = Cost(r) \/ Cost(t) = 0)
        BY <4>2 DEF Moves, Advances, Holder, Charged, ChargedPcs, Cost, NoReq, Guarded
      <4> QED
        BY <2>2, <4>1, <4>3
    <3> QED
      BY <3>1, <3>2, <3>3
  <2> QED
    BY <1>1, <2>1, <2>3, SeedKept
<1> QED
  BY <1>2, <1>3, <1>4

LEMMA SeedElse ==
  ASSUME Shape, SeedInv, ElseStep \/ UNCHANGED vars PROVE SeedInv'
<1> PICK q : q = reqs
  OBVIOUS
<1> PICK x : x = jobs
  OBVIOUS
<1> PICK y : y = jobs'
  OBVIOUS
<1>1. JobsKept /\ reqs' = q /\ work' = work
  BY ElseAfter
<1>2. seeds' = seeds
  BY DEF ElseStep, GetImport, StartRun, Cancel, EditMapping, ClearImports,
     ClearObjects, ClearTemplate, NextDay, GoStale, quotas, vars
<1>3. WorthOf(y) = WorthOf(x) /\ \A r : Owned(r, x) => Owned(r, y)
  BY <1>1, WorthKept
<1>4. Owns(q, x) => Owns(q, y)
  BY <1>3 DEF Owns
<1>5. work = "sample" => Owns(q, y) /\ seeds >= WorthOf(y) + CostOf(q)
  BY <1>3, <1>4 DEF SeedInv
<1>6. SampleOnly'
  BY <1>1 DEF SeedInv, SampleOnly, JobsKept, SameCounts
<1> QED
  BY <1>1, <1>2, <1>5, <1>6 DEF SeedInv

LEMMA SeedStep == ASSUME Shape, Shape', SeedInv, [Next]_vars PROVE SeedInv'
<1>1. ASSUME NEW s \in Slots, AtSlotStep(s), work # "sample" PROVE SeedInv'
  <2> PICK x : x = jobs
    OBVIOUS
  <2> PICK y : y = jobs'
    OBVIOUS
  <2>1. work' = work /\ reqs[s].kind # "sample"
    BY <1>1, SlotAfter, SampleAlone DEF Shape
  <2>2. SampleOnly'
    <3>1. CASE CreateInsert(s)
      <4>1. PICK j \in Ids \ Jobs :
              /\ Jobs' = Jobs \cup {j} /\ \A i \in Jobs : jobs'[i] = jobs[i]
              /\ jobs'[j] = NewJob("file", N, reqs[s].day)
        BY ONLY Shape, s \in Slots, <3>1, CreateInsertAfter
      <4>2. jobs'[j].kind = "file"
        BY <4>1 DEF NewJob
      <4> QED
        BY <2>1, <4>1, <4>2 DEF SeedInv, SampleOnly
    <3>2. CASE Commit(s)
      <4>1. CASE JobsKept
        BY <2>1, <4>1 DEF SeedInv, SampleOnly, JobsKept, SameCounts
      <4>2. CASE Stores(reqs[s])
        <5> PICK r : r = reqs[s]
          OBVIOUS
        <5> PICK j : j = r.job
          OBVIOUS
        <5>1. /\ y[j] = Counted(x[j], r) /\ x[j] \in Job /\ r.len \in Nat
              /\ r.done \in BatchRec /\ Jobs' = Jobs
              /\ \A i \in Ids \ {j} : y[i] = x[i]
          BY <4>2 DEF Stores, Request
        <5>2. y[j].kind = x[j].kind
          BY <5>1, CountedOK
        <5>3. \A i \in Jobs : y[i].kind = x[i].kind
          BY <5>1, <5>2 DEF Jobs
        <5> QED
          BY <2>1, <5>1, <5>3 DEF SeedInv, SampleOnly
      <4> QED
        BY <3>2, <4>1, <4>2, CommitAfter
    <3>3. CASE ~ CreateInsert(s) /\ ~ Commit(s)
      <4>1. ~ ToNew(s) /\ ~ ToStore(s)
        BY <2>1, <3>3 DEF ToNew, ToStore, SampleInsert, SampleCommit
      <4>2. JobsKept
        BY <1>1, <4>1, JobsAfter
      <4> QED
        BY <2>1, <4>2 DEF SeedInv, SampleOnly, JobsKept, SameCounts
    <3> QED
      BY <3>1, <3>2, <3>3
  <2> QED
    BY <1>1, <2>1, <2>2 DEF SeedInv
<1> QED
  BY <1>1, SeedSlot, SeedElse, Steps

LEMMA SeedInit == Init => SeedInv
<1> SUFFICES ASSUME Init PROVE SeedInv
  OBVIOUS
<1>1. seeds = 0 /\ (\A j \in Ids : jobs[j] = None) /\ \A s \in Slots : reqs[s] = NoReq
  BY DEF Init
<1>2. (\A j \in Ids : Worth(jobs[j]) = 0) /\ \A s \in Slots : Cost(reqs[s]) = 0
  BY <1>1 DEF Worth, Cost, Charged, NoReq
<1>3. WorthOf(jobs) = 0
  <2> PICK f : f = [j \in Ids |-> Worth(jobs[j])]
    OBVIOUS
  <2>1. SumOf(f, Ids) = 0
    BY <1>2, Bounds, SumZero
  <2> QED
    BY <2>1 DEF WorthOf
<1>4. CostOf(reqs) = 0
  <2> PICK f : f = [s \in Slots |-> Cost(reqs[s])]
    OBVIOUS
  <2>1. SumOf(f, Slots) = 0
    BY <1>2, Bounds, SumZero
  <2> QED
    BY <2>1 DEF CostOf
<1>5. Owns(reqs, jobs)
  BY <1>1 DEF Owns, Holder, Charged, NoReq
<1>6. SampleOnly
  BY <1>1 DEF SampleOnly, Jobs
<1> QED
  BY <1>1, <1>3, <1>4, <1>5, <1>6 DEF SeedInv

(* The loads that finished are jobs of worth.                              *)
LEMMA Seeded == ASSUME Shape, SeedInv PROVE SeedsCharged
<1>1. PICK S : S = {j \in Jobs : jobs[j].kind = "sample" /\ jobs[j].status = "DONE"}
  OBVIOUS
<1>2. PICK f : f = [j \in S |-> jobs[j].total]
  OBVIOUS
<1>3. PICK g : g = [j \in Ids |-> Worth(jobs[j])]
  OBVIOUS
<1>4. S \subseteq Ids /\ IsFiniteSet(Ids) /\ IsFiniteSet(S) /\ IsFiniteSet(Slots)
  BY <1>1, Bounds, FS_Subset DEF Jobs
<1>5. MapThenSumSet(LAMBDA j : jobs[j].total, S) = SumOf(f, S)
  <2>1. MapThenSumSet(LAMBDA j : jobs[j].total, S) = SumOf([j \in S |-> jobs[j].total], S)
    BY DEF MapThenSumSet, MapThenFoldSet, SumOf, IsSum, Pick
  <2> QED
    BY <1>2, <2>1
<1>6. seeds \in Nat
  BY NatNow
<1>7. seeds >= SumOf(f, S)
  <2>1. CASE work = "sample"
    <3>1. WorthOf(jobs) = SumOf(g, Ids)
      BY <1>3 DEF WorthOf
    <3>2. WorthOf(jobs) \in Int /\ WorthOf(jobs) >= 0 /\ CostOf(reqs) \in Int /\ CostOf(reqs) >= 0
      BY SeedSums, NatNow
    <3>3. seeds >= WorthOf(jobs)  + CostOf(reqs)
      BY <2>1 DEF SeedInv
    <3>4. \A j \in Ids : g[j] \in Int /\ g[j] >= 0
      BY <1>3, NatNow DEF WorthsNat
    <3>5. \A j \in S : f[j] = g[j]
      BY <1>1, <1>2, <1>3, <1>4 DEF Worth, Jobs
    <3>6. SumOf(f, S) = SumOf(g, S)
      BY ONLY <1>4, <3>5, SumSame
    <3>7. SumOf(g, S) <= SumOf(g, Ids)
      BY ONLY <1>4, <3>4, SumWithin
    <3>8. SumOf(g, S) \in Int
      <4>1. \A j \in S : g[j] \in Int
        BY <1>4, <3>4
      <4> QED
        BY ONLY <1>4, <4>1, SumInt
    <3> QED
      BY ONLY <1>6, <3>1, <3>2, <3>3, <3>6, <3>7, <3>8
  <2>2. CASE work # "sample"
    <3>1. S = {}
      BY <1>1, <2>2 DEF SeedInv, SampleOnly
    <3>2. SumOf(f, S) = 0
      BY <3>1, SumEmpty
    <3> QED
      BY <1>6, <3>2
  <2> QED
    BY <2>1, <2>2
<1> QED
  BY <1>1, <1>5, <1>7 DEF SeedsCharged


ChargeInv == ImportInv /\ PaidInv /\ SeedInv

LEMMA ChargeStep == ASSUME ChargeInv, [Next]_vars PROVE ChargeInv'
<1>1. ImportInv'
  BY ImportStep DEF ChargeInv
<1>2. Shape /\ Shape' /\ RunnerInv
  BY <1>1 DEF ChargeInv, ImportInv
<1>3. PaidInv' /\ SeedInv'
  BY <1>2, PaidStep, SeedStep DEF ChargeInv
<1> QED
  BY <1>1, <1>3 DEF ChargeInv

LEMMA Charges == ASSUME ChargeInv PROVE RowsCharged
BY Paid, Seeded DEF ChargeInv, ImportInv, RowsCharged

(* Nothing is imported for free: a day's counter (int_usage) never holds   *)
(* less than what the jobs created that day received, whichever way        *)
(* createImport's reservation, its undo and the last batch's refund        *)
(* interleave, and the seed budget never less than the rows of the sample  *)
(* loads that finished, whatever was given back for loads that failed.     *)
THEOREM RowsChargedHolds == Spec => []RowsCharged
<1>1. Init => ChargeInv
  BY ImportInit, PaidInit, SeedInit DEF ChargeInv
<1>2. ChargeInv /\ [Next]_vars => ChargeInv'
  BY ChargeStep
<1>3. ChargeInv => RowsCharged
  BY Charges
<1> QED
  BY <1>1, <1>2, <1>3, PTL DEF Spec

-----------------------------------------------------------------------------
(* A job that ended keeps its status.                                      *)
Ended == \A j \in Jobs : jobs[j].status # "RECEIVING" =>
           jobs'[j] # None /\ jobs'[j].status = jobs[j].status

LEMMA KeptEnded == ASSUME JobsKept PROVE Ended
BY DEF JobsKept, SameCounts, Ended, Jobs

LEMMA StoredEnded == ASSUME Shape, NEW r, Stores(r) PROVE Ended
<1> PICK x : x = jobs
  OBVIOUS
<1> PICK y : y = jobs'
  OBVIOUS
<1> PICK j : j = r.job
  OBVIOUS
<1>1. /\ y[j] = Counted(x[j], r) /\ x[j] \in Job /\ r.len \in Nat
      /\ r.done \in BatchRec /\ Jobs' = Jobs
      /\ \A i \in Ids \ {j} : y[i] = x[i]
  BY DEF Stores, Request
<1>2. x[j].status # "RECEIVING" => y[j].status = x[j].status
  BY <1>1, CountedOK
<1> QED
  BY <1>1, <1>2 DEF Ended, Jobs

LEMMA NewEnded ==
  ASSUME NEW j \in Ids \ Jobs, Jobs' = Jobs \cup {j}, \A i \in Jobs : jobs'[i] = jobs[i]
  PROVE  Ended
BY DEF Ended, Jobs

LEMMA EndedStep == ASSUME Shape, [Next]_vars PROVE Ended
<1>1. ASSUME NEW s \in Slots, AtSlotStep(s) PROVE Ended
  <2>1. CASE CreateInsert(s)
    <3>1. PICK j \in Ids \ Jobs : Jobs' = Jobs \cup {j} /\ \A i \in Jobs : jobs'[i] = jobs[i]
      BY ONLY Shape, s \in Slots, <2>1, CreateInsertAfter
    <3> QED
      BY <3>1, NewEnded
  <2>2. CASE SampleInsert(s)
    <3>1. PICK j \in Ids \ Jobs : Jobs' = Jobs \cup {j} /\ \A i \in Jobs : jobs'[i] = jobs[i]
      BY ONLY Shape, s \in Slots, <2>2, SampleInsertAfter
    <3> QED
      BY <3>1, NewEnded
  <2>3. CASE Commit(s) \/ SampleCommit(s)
    <3>1. JobsKept \/ Stores(reqs[s])
      BY <2>3, CommitAfter, SampleCommitAfter
    <3> QED
      BY <3>1, KeptEnded, StoredEnded
  <2>4. CASE ~ ToNew(s) /\ ~ ToStore(s)
    BY <1>1, <2>4, JobsAfter, KeptEnded
  <2> QED
    BY <2>1, <2>2, <2>3, <2>4 DEF ToNew, ToStore
<1>2. ASSUME ElseStep \/ UNCHANGED vars PROVE Ended
  BY <1>2, ElseAfter, KeptEnded
<1> QED
  BY <1>1, <1>2, Steps

(* A job that failed or finished stays so: a last batch in flight does not *)
(* revive a job that the clear or a failed load stopped (commitBatch       *)
(* finishes only a job that is RECEIVING, markFailed and clearWorkspace    *)
(* stop only such jobs).                                                   *)
THEOREM FinishedStaysHolds == Spec => FinishedStays
<1>1. Shape /\ [Next]_vars =>
        [\A j \in Jobs : jobs[j].status # "RECEIVING" =>
           jobs'[j] # None /\ jobs'[j].status = jobs[j].status]_vars
  BY EndedStep DEF Ended
<1>2. ImportInv => Shape
  BY DEF ImportInv
<1> QED
  BY <1>1, <1>2, ImportHolds, PTL DEF Spec, FinishedStays

=============================================================================

----------------------------- MODULE ImportJob -----------------------------
(***************************************************************************)
(* File imports and sample loads of one workspace (packages/integration),  *)
(* with the browser's upload runner (apps/web features/integration) and    *)
(* the workspace clear of api-gateway.                                     *)
(*                                                                         *)
(* The runner creates a job, which reserves its rows of the day's quota,   *)
(* sets the mapping and sends the file in batches, one after another.  A   *)
(* request whose answer does not come is sent again with the same seq      *)
(* while the first may still run: the batch's row in int_batch decides     *)
(* which of the two counts.  A D1 statement or batch is one step.          *)
(*                                                                         *)
(* Abstracted: cell values and transforms (a row is a key, or is refused   *)
(* by the mapping), links, file names, saved mappings and progress         *)
(* messages; the object graph is the set of its keys (module ObjectGraph   *)
(* has the writes in detail).                                              *)
(***************************************************************************)
EXTENDS Naturals, Sequences, FiniteSets, FiniteSetsExt, SequencesExt

CONSTANTS
    File,        \* the rows of the file: the key of each, or Refused
    Refused,
    RowBytes,    \* the size of each row
    BatchRows,   \* CE_LIMITS.batchRows (100)
    MaxBytes,    \* CE_LIMITS.maxBodyBytes as the runner plans with
    GatewayBytes,\* the largest body the gateway lets through
    Retries,     \* RETRY_DELAYS_MS (3)
    DailyRows,   \* config.importRowsDaily
    MaxObjects,  \* config.maxObjects
    MaxRejects,  \* MAX_STORED_REJECTS (200)
    Scenarios,   \* sample scenarios; a scenario's id is its template's
    ScenarioKeys,\* the keys of the rows of any scenario, in order
    SeedRows,    \* config.seedRowsDaily
    Workloads,   \* who is at work, see Init
    MaxJobs,     \* bound: jobs
    MaxReqs,     \* bound: requests at work on the server at once
    MaxRuns,     \* bound: times a person starts or resumes
    MaxFaults,   \* bound: answers lost, errors and killed requests
    None

N == Len(File)

Days == 0 .. 1
Status == {"RECEIVING", "DONE", "FAILED"}

\* A row of int_job.
Job ==
    [kind : {"file", "sample"}, status : Status, stale : BOOLEAN,
     mapped : BOOLEAN, total : Nat, received : Nat, upserted : Nat,
     skipped : Nat, rejected : Nat, day : Days]

\* A row larger than MaxBytes makes planBatches throw before anything is sent.
ASSUME ImportAssumption ==
    /\ N \in Nat \ {0} /\ BatchRows \in Nat \ {0}
    /\ RowBytes \in [1 .. N -> Nat]
    /\ \A r \in 1 .. N : RowBytes[r] <= MaxBytes
    /\ \A sc \in Scenarios : Len(ScenarioKeys[sc]) \in Nat
    /\ {MaxBytes, GatewayBytes, Retries, DailyRows, MaxObjects, MaxRejects,
        SeedRows, MaxJobs, MaxReqs, MaxRuns, MaxFaults} \subseteq Nat
    /\ Workloads \subseteq {"web", "clear", "script", "sample"}
    /\ None \notin Int /\ None \notin Job

VARIABLES
    jobs,     \* int_job, by id
    stored,   \* int_batch: the stored batches of each job
    rejects,  \* int_reject: the row numbers of each job
    usage,    \* int_usage: rows reserved, by day
    seeds,    \* int_usage of scope '*': sample rows loaded today
    graph,    \* the keys of the workspace's objects
    template, \* the template its ontology is a copy of
    reqs,     \* requests at work on the server
    up,       \* the UploadState of the page and where the runner is
    clear,    \* the step a workspace clear is at
    today,    \* the UTC day
    work,     \* the workload, fixed
    faults

jobVars == <<jobs, stored, rejects>>
quotas == <<usage, seeds>>
space == <<graph, template>>
env == <<clear, today, work, faults>>

vars == <<jobVars, quotas, space, reqs, up, env>>

\* The workloads keep the instances small: the runner at work while time
\* passes ("web") or while the workspace is cleared ("clear"), a script that
\* sends batches at once, and sample loads with a clear.
Runner == work \in {"web", "clear"}

Ids == 1 .. MaxJobs
Slots == 1 .. MaxReqs
Jobs == {j \in Ids : jobs[j] # None}

\* A planned batch: where it starts in the file and how many rows it has.
Rows(b) == b.first .. (b.first + b.len - 1)

\* A request at work: its kind, the step it is at, its job, its batch, and
\* what it has read or done so far.
NoReq ==
    [kind |-> "none", pc |-> "none", job |-> None, seq |-> 0, first |-> 1,
     len |-> 0, last |-> FALSE, snap |-> None, prior |-> {}, day |-> 0,
     done |-> None, scenario |-> None]

IdleUpload ==
    [pc |-> "idle", job |-> None, mapped |-> FALSE, plan |-> <<>>, next |-> 0,
     attempt |-> 0, req |-> None, runs |-> 0]

Init ==
    /\ jobs = [j \in Ids |-> None]
    /\ stored = [j \in Ids |-> {}]
    /\ rejects = [j \in Ids |-> {}]
    /\ usage = [d \in Days |-> 0]
    /\ seeds = 0
    /\ graph = {}
    /\ template = None
    /\ reqs = [s \in Slots |-> NoReq]
    /\ up = IdleUpload
    /\ clear = "idle"
    /\ today = 0
    /\ work \in Workloads
    /\ faults = 0

----------------------------------------------------------------------------
(* The plan *)

Batches ==
    {b \in [first : 1 .. N, len : 1 .. N] : b.first + b.len - 1 <= N}

Bytes(b) == SumFunctionOnSet(RowBytes, Rows(b))

Half(b) ==
    LET mid == (b.len + 1) \div 2 IN
    << [first |-> b.first, len |-> mid],
       [first |-> b.first + mid, len |-> b.len - mid] >>

\* splitToFit: a batch whose body is too large is halved until it fits.
SplitToFit[b \in Batches] ==
    IF Bytes(b) <= MaxBytes \/ b.len = 1 THEN <<b>>
    ELSE SplitToFit[Half(b)[1]] \o SplitToFit[Half(b)[2]]

\* planBatches: at most BatchRows rows each, in the order of the file.
PlanBatches ==
    LET chunk(i) == LET first == (i - 1) * BatchRows + 1 IN
                    [first |-> first,
                     len |-> Min({BatchRows, N - first + 1})]
    IN  FlattenSeq([i \in 1 .. ((N + BatchRows - 1) \div BatchRows) |->
                      SplitToFit[chunk(i)]])

\* A script sends every row on its own.
Plan ==
    IF work = "script" THEN [i \in 1 .. N |-> [first |-> i, len |-> 1]]
    ELSE PlanBatches

----------------------------------------------------------------------------
(* Requests.  Only the web client waits for an answer. *)

\* A new request takes the first free slot.
Free(s) == reqs[s] = NoReq /\ \A t \in 1 .. s - 1 : reqs[t] # NoReq

\* The request of a slot is the one the runner is waiting for.
Awaited(s) == up.req = s

\* The request in s goes on to another step.
Goto(s, place) == reqs' = [reqs EXCEPT ![s].pc = place]

End(s) == reqs' = [reqs EXCEPT ![s] = NoReq]

\* runUpload stops with an error the person sees; up keeps what was done.
Stopped == [up EXCEPT !.pc = "stopped", !.req = None, !.attempt = 0]

\* withRetry after an error: again with the same request, unless the error
\* is final or the retries are used up.  createImport is not retried.
AfterError(retryable) ==
    IF retryable /\ up.pc # "create" /\ up.attempt < Retries
    THEN [up EXCEPT !.req = None, !.attempt = @ + 1]
    ELSE Stopped

\* The server answers with an error.
AnswerError(s, retryable) ==
    /\ End(s)
    /\ up' = IF Awaited(s) THEN AfterError(retryable) ELSE up

\* The answer of a successful request.
AnswerOk(s, done) == up' = IF Awaited(s) THEN done ELSE up

----------------------------------------------------------------------------
(* POST /imports *)

StartCreate(s) ==
    /\ Free(s) /\ up.pc = "create" /\ up.req = None
    /\ reqs' = [reqs EXCEPT ![s] =
         [NoReq EXCEPT !.kind = "create", !.pc = "stats"]]
    /\ up' = [up EXCEPT !.req = s]
    /\ UNCHANGED <<jobVars, quotas, space, env>>

\* The headroom check reads the number of objects.
CreateStats(s) ==
    /\ reqs[s].kind = "create" /\ reqs[s].pc = "stats"
    /\ IF Cardinality(graph) >= MaxObjects
       THEN AnswerError(s, FALSE)
       ELSE Goto(s, "take") /\ UNCHANGED up
    /\ UNCHANGED <<jobVars, quotas, space, env>>

\* usage.take(importRowsRef(ctx, now), totalRows, importRowsDaily)
CreateTake(s) ==
    /\ reqs[s].kind = "create" /\ reqs[s].pc = "take"
    /\ IF usage[today] + N > DailyRows
       THEN AnswerError(s, FALSE) /\ UNCHANGED usage
       ELSE /\ usage' = [usage EXCEPT ![today] = @ + N]
            /\ reqs' = [reqs EXCEPT ![s].pc = "insert", ![s].day = today]
            /\ UNCHANGED up
    /\ UNCHANGED <<jobVars, space, env, seeds>>

NewJob(kind, total, day) ==
    [kind |-> kind, status |-> "RECEIVING", stale |-> FALSE, mapped |-> FALSE,
     total |-> total, received |-> 0, upserted |-> 0, skipped |-> 0,
     rejected |-> 0, day |-> day]

CreateInsert(s) ==
    /\ reqs[s].kind = "create" /\ reqs[s].pc = "insert"
    /\ \E j \in Ids \ Jobs :
         /\ \A i \in Ids \ Jobs : j <= i
         /\ jobs' = [jobs EXCEPT ![j] = NewJob("file", N, reqs[s].day)]
         /\ AnswerOk(s, [up EXCEPT !.pc = "mapping", !.req = None, !.job = j])
    /\ End(s)
    /\ UNCHANGED <<quotas, space, env, stored, rejects>>

\* The insert fails: the reservation is given back.
CreateUndo(s) ==
    /\ reqs[s].kind = "create" /\ reqs[s].pc = "insert"
    /\ faults < MaxFaults /\ faults' = faults + 1
    /\ usage' = [usage EXCEPT ![reqs[s].day] = @ - Min({@, N})]
    /\ AnswerError(s, TRUE)
    /\ UNCHANGED <<jobVars, space, seeds, clear, today, work>>

----------------------------------------------------------------------------
(* PUT /imports/{id}/mapping *)

StartMapping(s) ==
    /\ Free(s) /\ up.pc = "mapping" /\ up.req = None
    /\ reqs' = [reqs EXCEPT ![s] =
         [NoReq EXCEPT !.kind = "mapping", !.pc = "read", !.job = up.job]]
    /\ up' = [up EXCEPT !.req = s]
    /\ UNCHANGED <<jobVars, quotas, space, env>>

MappingRead(s) ==
    /\ reqs[s].kind = "mapping" /\ reqs[s].pc = "read"
    /\ IF jobs[reqs[s].job].received > 0
       THEN AnswerError(s, FALSE)
       ELSE Goto(s, "set") /\ UNCHANGED up
    /\ UNCHANGED <<jobVars, quotas, space, env>>

\* setMapping's UPDATE tests received = 0 again.
MappingSet(s) ==
    LET j == reqs[s].job IN
    /\ reqs[s].kind = "mapping" /\ reqs[s].pc = "set"
    /\ IF jobs[j].received > 0
       THEN AnswerError(s, FALSE) /\ UNCHANGED jobs
       ELSE /\ jobs' = [jobs EXCEPT ![j].mapped = TRUE, ![j].stale = FALSE]
            /\ AnswerOk(s, [up EXCEPT !.pc = "batches", !.req = None,
                              !.mapped = TRUE, !.attempt = 0])
            /\ End(s)
    /\ UNCHANGED <<quotas, space, env, stored, rejects>>

----------------------------------------------------------------------------
(* POST /imports/{id}/batches *)

BatchReq(seq) ==
    LET b == up.plan[seq + 1] IN
    [NoReq EXCEPT !.kind = "batch", !.pc = "job", !.job = up.job, !.seq = seq,
       !.first = b.first, !.len = b.len, !.last = (seq = Len(up.plan) - 1)]

\* The runner sends one batch and waits; a script that uses the API may have
\* several on the way.
StartBatch(s) ==
    /\ Runner /\ Free(s) /\ up.pc = "batches" /\ up.req = None
    /\ up.next < Len(up.plan)
    /\ reqs' = [reqs EXCEPT ![s] = BatchReq(up.next)]
    /\ up' = [up EXCEPT !.req = s]
    /\ UNCHANGED <<jobVars, quotas, space, env>>

SendAny(s, seq) ==
    /\ work = "script" /\ Free(s) /\ up.pc = "batches"
    /\ seq \in 0 .. Len(up.plan) - 1
    /\ reqs' = [reqs EXCEPT ![s] = BatchReq(seq)]
    /\ UNCHANGED <<jobVars, quotas, space, env, up>>

\* The gateway refuses a body that is too large; the runner halves the batch
\* and sends the first half under the same seq.
TooLarge(s) ==
    LET r == reqs[s] IN
    /\ r.kind = "batch" /\ r.pc = "job" /\ Bytes(r) > GatewayBytes
    /\ End(s)
    /\ up' = IF ~Awaited(s) THEN up
             ELSE IF r.len > 1
             THEN [up EXCEPT !.req = None, !.attempt = 0,
                    !.plan = SubSeq(@, 1, r.seq) \o Half(@[r.seq + 1])
                               \o SubSeq(@, r.seq + 2, Len(@))]
             ELSE Stopped
    /\ UNCHANGED <<jobVars, quotas, space, env>>

\* requireJob: what the rest of the request knows of the job.
BatchJob(s) ==
    LET r == reqs[s] IN
    /\ r.kind = "batch" /\ r.pc = "job" /\ Bytes(r) <= GatewayBytes
    /\ reqs' = [reqs EXCEPT ![s].pc = "prior", ![s].snap = jobs[r.job]]
    /\ UNCHANGED <<jobVars, quotas, space, env, up>>

\* The keys earlier batches of the job wrote.
SeenKeys(prior) == UNION {b.keys : b \in prior}

\* Job row number of the first row: after the rows of the earlier batches.
FirstRow(prior, seq) ==
    MapThenSumSet(LAMBDA b : b.len, {b \in prior : b.seq < seq}) + 1

\* effectiveStatus: a job without a batch for 30 minutes reads as FAILED.
EffectiveStatus(job) ==
    IF job.status = "RECEIVING" /\ job.stale THEN "FAILED" ELSE job.status

Refuse(r) ==
    \/ r.snap.kind # "file"
    \/ EffectiveStatus(r.snap) # "RECEIVING"
    \/ ~r.snap.mapped
    \/ r.snap.received + r.len > r.snap.total

\* Mutant: done a batch too early.
NextBatchEarly ==
    [up EXCEPT !.next = @ + 1, !.req = None, !.attempt = 0,
       !.pc = IF up.next + 2 >= Len(up.plan) THEN "final" ELSE "batches"]

\* The runner goes on to the next batch, or is done.
NextBatch ==
    IF up.next + 1 = Len(up.plan)
    THEN [up EXCEPT !.next = @ + 1, !.req = None, !.attempt = 0,
            !.pc = "final"]
    ELSE [up EXCEPT !.next = @ + 1, !.req = None, !.attempt = 0]

\* A stored seq answers its first result; else the status, the mapping and
\* the reserved rows are checked on the job read before.
BatchPrior(s) ==
    LET r == reqs[s] IN
    /\ r.kind = "batch" /\ r.pc = "prior"
    /\ IF \E b \in stored[r.job] : b.seq = r.seq
       THEN End(s) /\ AnswerOk(s, NextBatch)
       ELSE IF Refuse(r)
       THEN AnswerError(s, FALSE)
       ELSE /\ reqs' = [reqs EXCEPT ![s].pc = "upsert", ![s].day = today,
                          ![s].prior = stored[r.job]]
            /\ UNCHANGED up
    /\ UNCHANGED <<jobVars, quotas, space, env>>

\* The keys of the rows of a request.
KeyOf(r, i) ==
    IF r.kind = "sample" THEN ScenarioKeys[r.scenario][i] ELSE File[i]

\* mapRows: a row the mapping refuses, or with a key seen before in the job,
\* is rejected.
Mapped(r) ==
    {i \in Rows(r) :
       /\ KeyOf(r, i) # Refused
       /\ KeyOf(r, i) \notin SeenKeys(r.prior)
       /\ \A h \in r.first .. i - 1 : KeyOf(r, h) # KeyOf(r, i)}

\* upsertBatch: new objects while there is room, in the order of the rows.
NewRows(r) == {i \in Mapped(r) : KeyOf(r, i) \notin graph}

OverLimit(r) ==
    {i \in NewRows(r) :
       Cardinality(graph) + Cardinality({h \in NewRows(r) : h <= i})
         > MaxObjects}

\* What ingestBatch makes of the answer.
Outcome(r) ==
    LET written == Mapped(r) \ OverLimit(r)
        row(i) == FirstRow(r.prior, r.seq) + i - r.first
    IN  [seq |-> r.seq, first |-> r.first, len |-> r.len,
         from |-> FirstRow(r.prior, r.seq),
         upserted |-> Cardinality(NewRows(r) \ OverLimit(r)),
         skipped |-> Cardinality(Mapped(r) \ NewRows(r)),
         keys |-> {KeyOf(r, i) : i \in written},
         rejects |-> {row(i) : i \in Rows(r) \ written}]

Upsert(s) ==
    LET r == reqs[s] IN
    /\ r.pc = "upsert"
    /\ graph' = graph \cup Outcome(r).keys
    /\ reqs' = [reqs EXCEPT ![s].pc = "commit", ![s].done = Outcome(r)]
    /\ UNCHANGED <<jobVars, quotas, env, template, up>>

----------------------------------------------------------------------------
(* commitBatch: one D1 batch, decided by whose row int_batch has. *)

Won(r) == ~\E b \in stored[r.job] : b.seq = r.seq

\* Mutant: the last batch finishes the job whatever its status.
CountedDone(job, r) ==
    [job EXCEPT !.received = @ + r.len, !.upserted = @ + r.done.upserted,
       !.skipped = @ + r.done.skipped,
       !.rejected = @ + Cardinality(r.done.rejects),
       !.status = IF r.last THEN "DONE" ELSE @, !.stale = FALSE]


Counted(job, r) ==
    [job EXCEPT !.received = @ + r.len, !.upserted = @ + r.done.upserted,
       !.skipped = @ + r.done.skipped,
       !.rejected = @ + Cardinality(r.done.rejects),
       !.status = IF r.last /\ @ = "RECEIVING" THEN "DONE" ELSE @,
       !.stale = FALSE]

\* int_reject takes no more than MAX_STORED_REJECTS rows of a job.
KeptRejects(old, new) ==
    old \cup {i \in new :
      Cardinality(old) + Cardinality({h \in new : h <= i}) <= MaxRejects}

CommitBatch(r) ==
    /\ stored' = [stored EXCEPT ![r.job] = @ \cup {r.done}]
    /\ jobs' = [jobs EXCEPT ![r.job] = Counted(@, r)]
    /\ rejects' = [rejects EXCEPT ![r.job] = KeptRejects(@, r.done.rejects)]


LoseBatch(r) == UNCHANGED jobVars

\* Mutant: the rows of the last batch itself are not counted.
UnusedBefore(r) ==
    IF r.last THEN r.snap.total - Min({r.snap.total, r.snap.received}) ELSE 0

\* Rows the last batch leaves unused, by what the request knows.
Unused(r) ==
    LET known == r.snap.received + r.len IN
    IF r.last /\ r.snap.total > known THEN r.snap.total - known ELSE 0

Commit(s) ==
    LET r == reqs[s] IN
    /\ r.kind = "batch" /\ r.pc = "commit"
    /\ IF Won(r) THEN CommitBatch(r) ELSE LoseBatch(r)
    /\ IF Won(r) /\ Unused(r) > 0 /\ r.snap.day = r.day
       THEN Goto(s, "refund") /\ UNCHANGED up
       ELSE End(s) /\ AnswerOk(s, NextBatch)
    /\ UNCHANGED <<quotas, space, env>>

\* usage.adjust(importRowsRef(ctx, now), -unused)
Refund(s) ==
    LET r == reqs[s] IN
    /\ r.kind = "batch" /\ r.pc = "refund"
    /\ usage' = [usage EXCEPT ![r.snap.day] = @ - Min({@, Unused(r)})]
    /\ End(s) /\ AnswerOk(s, NextBatch)
    /\ UNCHANGED <<jobVars, space, env, seeds>>

----------------------------------------------------------------------------
(* The person at the page *)

\* Run or resume.  Bound: a run that has to create a job finds a free id.
StartRun ==
    /\ work # "sample"
    /\ up.pc \in {"idle", "stopped"} /\ up.runs < MaxRuns
    /\ \/ up.job # None
       \/ Cardinality(Jobs)
            + Cardinality({s \in Slots : reqs[s].kind = "create"}) < MaxJobs
    /\ up' = [up EXCEPT !.runs = @ + 1,
         !.plan = IF @ = <<>> THEN Plan ELSE @,
         !.pc = CASE up.job = None -> "create"
                  [] up.job # None /\ ~up.mapped -> "mapping"
                  [] up.job # None /\ up.mapped /\ up.next < Len(up.plan) -> "batches"
                  [] OTHER -> "final"]
    /\ UNCHANGED <<jobVars, quotas, space, env, reqs>>

\* The person cancels: the runner stops, the server does not.
Cancel ==
    /\ Runner /\ up.pc \in {"create", "mapping", "batches", "final"}
    /\ up' = Stopped
    /\ UNCHANGED <<jobVars, quotas, space, env, reqs>>

\* The person changes the mapping: a job with batches keeps its own, the
\* next run starts another job.
EditMapping ==
    /\ Runner /\ up.pc = "stopped" /\ up.mapped
    /\ up' = IF up.next > 0 THEN [IdleUpload EXCEPT !.runs = up.runs]
             ELSE [up EXCEPT !.mapped = FALSE]
    /\ UNCHANGED <<jobVars, quotas, space, env, reqs>>

\* getImport: the job as it is in the end.
GetImport ==
    /\ up.pc = "final"
    /\ up' = [up EXCEPT !.pc = "done"]
    /\ UNCHANGED <<jobVars, quotas, space, env, reqs>>

----------------------------------------------------------------------------
(* POST /workspace/sample-data *)

StartSample(s, sc) ==
    /\ work = "sample" /\ Free(s) /\ up.runs < MaxRuns
    /\ reqs' = [reqs EXCEPT ![s] =
         [NoReq EXCEPT !.kind = "sample", !.pc = "check", !.scenario = sc]]
    /\ up' = [up EXCEPT !.runs = @ + 1]
    /\ UNCHANGED <<jobVars, quotas, space, env>>

\* Another scenario needs an empty workspace.  (The template and the number
\* of objects are read at once.)
SampleCheck(s) ==
    /\ reqs[s].kind = "sample" /\ reqs[s].pc = "check"
    /\ IF graph # {} /\ template # reqs[s].scenario
       THEN End(s) ELSE Goto(s, "take")
    /\ UNCHANGED <<jobVars, quotas, space, env, up>>

SampleRows(sc) == Len(ScenarioKeys[sc])

SampleTake(s) ==
    LET rows == SampleRows(reqs[s].scenario) IN
    /\ reqs[s].kind = "sample" /\ reqs[s].pc = "take"
    /\ IF seeds + rows > SeedRows
       THEN End(s) /\ UNCHANGED seeds
       ELSE Goto(s, "template") /\ seeds' = seeds + rows
    /\ UNCHANGED <<jobVars, space, env, usage, up>>

\* setTemplate
SampleTemplate(s) ==
    /\ reqs[s].kind = "sample" /\ reqs[s].pc = "template"
    /\ template' = reqs[s].scenario
    /\ Goto(s, "insert")
    /\ UNCHANGED <<jobVars, quotas, env, graph, up>>

\* The next chunk of the scenario's rows.
Chunk(r, seq, first) ==
    LET left == SampleRows(r.scenario) - first + 1 IN
    [r EXCEPT !.pc = "upsert", !.seq = seq, !.first = first,
       !.len = Min({BatchRows, left}), !.last = left <= BatchRows]

SampleInsert(s) ==
    LET r == reqs[s]
        job == NewJob("sample", SampleRows(r.scenario), today)
    IN
    /\ r.kind = "sample" /\ r.pc = "insert"
    /\ \E j \in Ids \ Jobs :
         /\ \A i \in Ids \ Jobs : j <= i
         /\ jobs' = [jobs EXCEPT ![j] = job]
         /\ reqs' = [reqs EXCEPT ![s] =
              Chunk([r EXCEPT !.job = j, !.snap = job], 0, 1)]
    /\ UNCHANGED <<quotas, space, env, stored, rejects, up>>

SampleCommit(s) ==
    LET r == reqs[s]
        after == [r EXCEPT !.snap = Counted(@, r), !.done = None,
                    !.prior = @ \cup {[r.done EXCEPT !.keys = {}]}]
    IN
    /\ r.kind = "sample" /\ r.pc = "commit"
    /\ CommitBatch(r)
    /\ reqs' = [reqs EXCEPT ![s] =
         IF r.last THEN [after EXCEPT !.pc = "room"]
         ELSE Chunk(after, r.seq + 1, r.first + r.len)]
    /\ UNCHANGED <<quotas, space, env, up>>

\* situation.resetForTemplate, and the answer.
SampleRoom(s) ==
    /\ reqs[s].kind = "sample" /\ reqs[s].pc = "room"
    /\ End(s)
    /\ UNCHANGED <<jobVars, quotas, space, env, up>>

\* The steps whose error gives the budget back.
Guarded == {"insert", "upsert", "commit"}

SampleFail(s) ==
    /\ reqs[s].kind = "sample" /\ reqs[s].pc \in Guarded
    /\ faults < MaxFaults /\ faults' = faults + 1
    /\ Goto(s, "failed")
    /\ UNCHANGED <<jobVars, quotas, space, up, clear, today, work>>

Fail(job) ==
    IF job.status = "RECEIVING"
    THEN [job EXCEPT !.status = "FAILED", !.stale = FALSE] ELSE job

\* jobs.markFailed
SampleMark(s) ==
    LET j == reqs[s].job IN
    /\ reqs[s].kind = "sample" /\ reqs[s].pc = "failed"
    /\ jobs' = IF j = None THEN jobs ELSE [jobs EXCEPT ![j] = Fail(@)]
    /\ Goto(s, "undo")
    /\ UNCHANGED <<quotas, space, env, stored, rejects, up>>

SampleUndo(s) ==
    /\ reqs[s].kind = "sample" /\ reqs[s].pc = "undo"
    /\ seeds' = seeds - Min({seeds, SampleRows(reqs[s].scenario)})
    /\ End(s)
    /\ UNCHANGED <<jobVars, space, env, usage, up>>

----------------------------------------------------------------------------
(* POST /workspace/clear: one service after another.  Bound: once. *)

\* integration.clearWorkspace: unfinished jobs fail.
ClearImports ==
    /\ clear = "idle" /\ work \in {"clear", "sample"}
    /\ jobs' = [j \in Ids |-> IF j \in Jobs THEN Fail(jobs[j]) ELSE None]
    /\ clear' = "objects"
    /\ UNCHANGED <<quotas, space, stored, rejects, reqs, up, today, work,
                   faults>>

ClearObjects ==
    /\ clear = "objects"
    /\ graph' = {}
    /\ clear' = "template"
    /\ UNCHANGED <<jobVars, quotas, template, reqs, up, today, work, faults>>

\* setTemplate(BLANK_TEMPLATE_ID), then the situation room.
ClearTemplate ==
    /\ clear = "template"
    /\ template' = None
    /\ clear' = "done"
    /\ UNCHANGED <<jobVars, quotas, graph, reqs, up, today, work, faults>>

----------------------------------------------------------------------------
(* Time and faults *)

NextDay ==
    /\ today = 0 /\ work = "web" /\ today' = 1
    /\ UNCHANGED <<jobVars, quotas, space, reqs, up, clear, work, faults>>

\* Half an hour without a batch.
GoStale(j) ==
    /\ work = "web" /\ j \in Jobs
    /\ jobs[j].status = "RECEIVING" /\ ~jobs[j].stale
    /\ jobs' = [jobs EXCEPT ![j].stale = TRUE]
    /\ UNCHANGED <<quotas, space, env, stored, rejects, reqs, up>>

\* The answer does not come; the request may go on.
LoseAnswer(s) ==
    /\ Awaited(s) /\ faults < MaxFaults /\ faults' = faults + 1
    /\ up' = AfterError(TRUE)
    /\ UNCHANGED <<jobVars, quotas, space, reqs, clear, today, work>>

\* A request is killed, or one of its calls fails and nothing catches it.
Kill(s) ==
    /\ reqs[s] # NoReq /\ faults < MaxFaults /\ faults' = faults + 1
    /\ AnswerError(s, TRUE)
    /\ UNCHANGED <<jobVars, quotas, space, clear, today, work>>

----------------------------------------------------------------------------
ServerStep(s) ==
    \/ CreateStats(s) \/ CreateTake(s) \/ CreateInsert(s)
    \/ MappingRead(s) \/ MappingSet(s)
    \/ TooLarge(s) \/ BatchJob(s) \/ BatchPrior(s) \/ Upsert(s) \/ Commit(s)
    \/ Refund(s)
    \/ SampleCheck(s) \/ SampleTake(s) \/ SampleTemplate(s)
    \/ SampleInsert(s) \/ SampleCommit(s) \/ SampleRoom(s) \/ SampleMark(s)
    \/ SampleUndo(s)

RunnerStep ==
    \/ \E s \in Slots : StartCreate(s) \/ StartMapping(s) \/ StartBatch(s)
    \/ GetImport

Next ==
    \/ RunnerStep
    \/ \E s \in Slots :
         \/ ServerStep(s) \/ CreateUndo(s) \/ SampleFail(s)
         \/ LoseAnswer(s) \/ Kill(s)
         \/ \E seq \in 0 .. N - 1 : SendAny(s, seq)
         \/ \E sc \in Scenarios : StartSample(s, sc)
    \/ StartRun \/ Cancel \/ EditMapping
    \/ ClearImports \/ ClearObjects \/ ClearTemplate
    \/ NextDay \/ \E j \in Ids : GoStale(j)

Spec == Init /\ [][Next]_vars

\* The server finishes its requests, and the runner's timers fire.
Fairness == WF_vars(RunnerStep) /\ \A s \in Slots : WF_vars(ServerStep(s))

FairSpec == Spec /\ Fairness

----------------------------------------------------------------------------
(* Properties *)

\* The shape of the state (int_job, int_batch, int_usage and UploadState):
\* a counter is never negative and a stored reject is a row of its job.
TypeOK ==
    /\ jobs \in [Ids -> Job \cup {None}]
    /\ \A j \in Jobs : Cardinality(rejects[j]) <= MaxRejects
    /\ \A j \in Ids \ Jobs : stored[j] = {} /\ rejects[j] = {}
    /\ usage \in [Days -> 0 .. DailyRows]
    /\ seeds \in 0 .. SeedRows
    /\ Cardinality(graph) <= MaxObjects
    /\ up.next \in 0 .. Len(up.plan) /\ up.attempt \in 0 .. Retries
    /\ up.job \in Ids \cup {None}

Sum(j, field) == MapThenSumSet(LAMBDA b : b[field], stored[j])

\* A batch that is sent again while its first attempt runs counts once: the
\* counters of a job (commitBatch) are the sums over its stored batches, one
\* per seq.
CountersMatchBatches ==
    \A j \in Jobs :
      /\ \A b, c \in stored[j] : b.seq = c.seq => b = c
      /\ jobs[j].received = Sum(j, "len")
      /\ jobs[j].upserted = Sum(j, "upserted")
      /\ jobs[j].skipped = Sum(j, "skipped")
      /\ jobs[j].rejected
           = MapThenSumSet(LAMBDA b : Cardinality(b.rejects), stored[j])

\* When the runner reports the import as finished, every row of the file is
\* in exactly one stored batch, whatever was halved, retried, cancelled or
\* resumed on the way (runUpload, submitBatch).
UploadComplete ==
    up.pc = "done" =>
      /\ \A i \in 1 .. N :
           Cardinality({b \in stored[up.job] : i \in Rows(b)}) = 1
      /\ jobs[up.job].received = N

\* The row numbers of the rejects the runner shows are rows of the file: a
\* batch's first row, counted from the stored batches before it, is where
\* the batch starts in the file.
RowNumbersMatch ==
    Runner => \A j \in Jobs : \A b \in stored[j] : b.from = b.first

\* Rows the workspace received are paid for: what a day's counter holds is
\* never less than what its jobs received (createImport's reservation, the
\* refund of the last batch).
NeverUndercharged ==
    Runner => \A d \in Days :
      usage[d] >= MapThenSumSet(LAMBDA j : jobs[j].received,
                                {j \in Jobs : jobs[j].day = d})

\* A sample load that finished stays charged to the day's seed budget.
SeedsCharged ==
    seeds >= MapThenSumSet(LAMBDA j : jobs[j].total,
               {j \in Jobs : jobs[j].kind = "sample" /\ jobs[j].status = "DONE"})

\* A job that failed or finished stays so: a last batch in flight does not
\* revive a job the clear stopped.
FinishedStays ==
    [][\A j \in Jobs : jobs[j].status # "RECEIVING" =>
         jobs'[j] # None /\ jobs'[j].status = jobs[j].status]_vars

\* An upload that runs ends: done, or stopped with an error to resume from
\* (withRetry's bound, halving on 413).
UploadEnds ==
    Runner /\ up.pc \in {"create", "mapping", "batches", "final"}
      ~> up.pc \in {"done", "stopped", "idle"}

\* An import is exact: counters are the sums over the stored batches, reject
\* numbers are rows of the file, and an upload reported as finished has every
\* row in one batch, whatever was halved, sent twice, cancelled or resumed.
ImportExact ==
    TypeOK /\ CountersMatchBatches /\ RowNumbersMatch /\ UploadComplete

\* Nothing is imported for free: neither rows of files nor sample loads.
RowsCharged == NeverUndercharged /\ SeedsCharged

\* Every upload comes to an end, and a job that ended is never revived.
EndsForGood == FinishedStays /\ UploadEnds
=============================================================================

-------------------------- MODULE Recommendation --------------------------
(***************************************************************************)
(* The decision engine's recommendations: packages/decision decides them   *)
(* (confirm or reject, exactly once, under an Idempotency-Key) and, on a   *)
(* confirmation, executes the best candidate with applyAction of           *)
(* packages/object-graph, a call to another Worker.                        *)
(*                                                                         *)
(* Every D1 statement is one step.  A decide call is a process (Callers);  *)
(* an applyAction request is a process of its own, because the object      *)
(* engine goes on with it when the caller has already been told that the   *)
(* call failed.  A caller may be killed between any two of its steps.      *)
(*                                                                         *)
(* Abstracted: who decides (a person of the workspace), texts, candidates  *)
(* (a ranking always starts with a candidate: ruleRanking orders them all  *)
(* and validateRanking refuses unknown ids), the reject reason, the push   *)
(* to the cockpit (best effort, never fails the call).                     *)
(***************************************************************************)
EXTENDS Naturals, Sequences, FiniteSets

CONSTANTS
    Recs,             \* recommendation ids (ULIDs, never reused)
    Keys,             \* Idempotency-Keys the clients send
    Callers,          \* concurrent decide calls
    Targets,          \* objects the best candidates act on
    TargetOf,         \* TargetOf[r]: the target of r's best candidate
    None,             \* no row, no key, no object
    ExecAttemptsMax,  \* DECISION_LIMITS.execAttemptsMax (3)
    MaxVersion,       \* bound: versions of an object
    MaxLost,          \* bound: applyAction calls reported as failed
    MaxDeaths,        \* bound: decide calls killed half way
    MaxClears         \* bound: uses of "clear workspace"

ASSUME ConstantsAssumption ==
    /\ TargetOf \in [Recs -> Targets]
    /\ None \notin Recs \cup Keys \cup Nat
    /\ ExecAttemptsMax \in Nat \ {0}
    /\ MaxVersion \in Nat \ {0} /\ MaxLost \in Nat
    /\ MaxDeaths \in Nat /\ MaxClears \in Nat

VARIABLES
    rec,       \* dec_recommendation: a row, or None
    fresh,     \* ids not given to a recommendation yet
    due,       \* recommendations whose expires_at has passed
    calls,     \* the decide calls in flight
    applies,   \* the applyAction requests in flight
    obj,       \* og_object: the version of each target, or None
    log,       \* og_action_log
    clearing,  \* "clear workspace" is between its two Workers
    lost, deaths, clears

vars == <<rec, fresh, due, calls, applies, obj, log, clearing,
          lost, deaths, clears>>

budgets == <<lost, deaths, clears>>

----------------------------------------------------------------------------
(* Rows, calls and requests *)

RecStatus == {"Proposed", "Confirmed", "Rejected", "Expired",
              "Executed", "ExecFailed"}

Outcomes == {"Executed", "Failed"}

Row == [status: RecStatus, key: Keys \cup {None},
        attempts: 0 .. ExecAttemptsMax, execution: Seq(Outcomes)]

\* "No row" is not a row.
ASSUME NoneAssumption == None \notin Row

NewRow == [status |-> "Proposed", key |-> None, attempts |-> 0,
           execution |-> <<>>]

Decisions == {"confirm", "reject"}

\* The places where a decide call waits for D1 or for applyAction.
Places == {"idle", "read", "expire", "claim", "reread", "begin", "load",
           "send", "wait", "finish"}

\* `due` is the clock the call read at its start, seen from expires_at;
\* `execution` and `attempt` come from the row read by run().
Call == [pc: Places, rec: Recs \cup {None}, key: Keys \cup {None},
         decision: Decisions, due: BOOLEAN, attempt: 0 .. ExecAttemptsMax,
         execution: Seq(Outcomes), outcome: Outcomes]

IdleCall == [pc |-> "idle", rec |-> None, key |-> None,
             decision |-> "reject", due |-> FALSE, attempt |-> 0,
             execution |-> <<>>, outcome |-> "Failed"]

\* The key of an execution, the same for every attempt: `${key}:0`.
ActionKey(call) == <<call.key, 0>>

Apply == [rec: Recs, key: Keys \X (0 .. ExecAttemptsMax),
          attempt: 1 .. ExecAttemptsMax, pc: {"find", "read", "commit", "again"},
          version: 0 .. MaxVersion]

LogEntry == [key: Keys \X (0 .. ExecAttemptsMax), rec: Recs,
             attempt: 1 .. ExecAttemptsMax]

Init ==
    /\ rec = [r \in Recs |-> None]
    /\ fresh = Recs
    /\ due = {}
    /\ calls = [c \in Callers |-> IdleCall]
    /\ applies = {}
    /\ obj = [t \in Targets |-> 1]
    /\ log = {}
    /\ clearing = FALSE
    /\ lost = 0 /\ deaths = 0 /\ clears = 0

----------------------------------------------------------------------------
(* Domain rules of a recommendation *)

IsDue(row, call) == row.status = "Proposed" /\ call.due

CanRetryExecution(row) ==
    row.status = "ExecFailed" /\ row.attempts < ExecAttemptsMax

\* Claimed, but the call that claimed it never began the execution.
Stalled(row) == row.status = "Confirmed" /\ row.attempts = 0

Expired(row) == [row EXCEPT !.status = "Expired"]

----------------------------------------------------------------------------
(* Steps of the decide call *)

Goto(c, place) == calls' = [calls EXCEPT ![c].pc = place]

Return(c) == calls' = [calls EXCEPT ![c] = IdleCall]

\* The row the call works on, as it is now.
RowOf(c) == rec[calls[c].rec]

SetRow(c, row) == rec' = [rec EXCEPT ![calls[c].rec] = row]

\* generateRecommendation stores the proposal; the graph it was computed
\* from was read before.
Generate(r) ==
    /\ r \in fresh
    /\ fresh' = fresh \ {r}
    /\ rec' = [rec EXCEPT ![r] = NewRow]
    /\ UNCHANGED <<due, calls, applies, obj, log, clearing, budgets>>

\* The clock passes expires_at (24 h).
PassExpiry(r) ==
    /\ r \notin due \cup fresh
    /\ due' = due \cup {r}
    /\ UNCHANGED <<rec, fresh, calls, applies, obj, log, clearing, budgets>>

\* list and get persist the expiry they evaluate (expireDue).
ExpireOnRead(r) ==
    /\ rec[r] # None
    /\ rec[r].status = "Proposed" /\ r \in due
    /\ rec' = [rec EXCEPT ![r] = Expired(rec[r])]
    /\ UNCHANGED <<fresh, due, calls, applies, obj, log, clearing, budgets>>

\* A person's decision (or its network retry, with the same key) arrives.
Decide(c, r, k, d) ==
    /\ calls[c].pc = "idle"
    /\ r \notin fresh
    /\ calls' = [calls EXCEPT ![c] =
                   [IdleCall EXCEPT !.pc = "read", !.rec = r, !.key = k,
                                    !.decision = d, !.due = (r \in due)]]
    /\ UNCHANGED <<rec, fresh, due, applies, obj, log, clearing, budgets>>

\* Same key: the stored result, or a bounded re-execution.
Replay(c) ==
    IF CanRetryExecution(RowOf(c)) \/ Stalled(RowOf(c))
    THEN Goto(c, "begin") ELSE Return(c)

Read(c) ==
    /\ calls[c].pc = "read"
    /\ \/ RowOf(c) = None /\ Return(c)
       \/ /\ RowOf(c) # None
          /\ \/ RowOf(c).key = calls[c].key /\ Replay(c)
             \/ RowOf(c).key \notin {calls[c].key, None} /\ Return(c)
             \/ /\ RowOf(c).key = None
                /\ \/ IsDue(RowOf(c), calls[c]) /\ Goto(c, "expire")
                   \/ /\ RowOf(c).status = "Proposed" /\ ~calls[c].due
                      /\ Goto(c, "claim")
                   \/ RowOf(c).status # "Proposed" /\ Return(c)
    /\ UNCHANGED <<rec, fresh, due, applies, obj, log, clearing, budgets>>

\* The expiry found by the decision is persisted, and it is a CONFLICT.
Expire(c) ==
    /\ calls[c].pc = "expire"
    /\ IF RowOf(c) # None /\ IsDue(RowOf(c), calls[c])
       THEN SetRow(c, Expired(RowOf(c))) ELSE UNCHANGED rec
    /\ Return(c)
    /\ UNCHANGED <<fresh, due, applies, obj, log, clearing, budgets>>

\* UNIQUE (tenant_id, decision_key)
KeyTaken(c) ==
    \E r \in Recs \ {calls[c].rec} :
        rec[r] # None /\ rec[r].key = calls[c].key

\* Mutant of Claimable.
ClaimableUndecided(c) == RowOf(c) # None /\ RowOf(c).key = None

Claimable(c) ==
    /\ RowOf(c) # None
    /\ RowOf(c).status = "Proposed" /\ RowOf(c).key = None

ClaimedStatus(call) ==
    IF call.decision = "confirm" THEN "Confirmed" ELSE "Rejected"

\* claimDecision: one conditional UPDATE decides who decides.
Claim(c) ==
    /\ calls[c].pc = "claim"
    /\ \/ /\ Claimable(c) /\ ~KeyTaken(c)
          /\ SetRow(c, [RowOf(c) EXCEPT !.status = ClaimedStatus(calls[c]),
                                        !.key = calls[c].key])
          /\ IF calls[c].decision = "confirm"
             THEN Goto(c, "begin") ELSE Return(c)
       \/ Claimable(c) /\ KeyTaken(c) /\ Return(c) /\ UNCHANGED rec
       \/ ~Claimable(c) /\ Goto(c, "reread") /\ UNCHANGED rec
    /\ UNCHANGED <<fresh, due, applies, obj, log, clearing, budgets>>

Reread(c) ==
    /\ calls[c].pc = "reread"
    /\ IF RowOf(c) # None /\ RowOf(c).key = calls[c].key
       THEN Replay(c) ELSE Return(c)
    /\ UNCHANGED <<rec, fresh, due, applies, obj, log, clearing, budgets>>

\* Mutant of MayBegin.
MayBeginAnyConfirmed(row, key) ==
    /\ row.key = key
    /\ row.attempts < ExecAttemptsMax
    /\ row.status \in {"Confirmed", "ExecFailed"}

\* The WHERE clause of beginExecution.
MayBegin(row, key) ==
    /\ row.key = key
    /\ row.attempts < ExecAttemptsMax
    /\ Stalled(row) \/ row.status = "ExecFailed"

Begin(c) ==
    /\ calls[c].pc = "begin"
    /\ IF RowOf(c) # None /\ MayBegin(RowOf(c), calls[c].key)
       THEN /\ SetRow(c, [RowOf(c) EXCEPT !.status = "Confirmed",
                                          !.attempts = @ + 1])
            /\ Goto(c, "load")
       ELSE Return(c) /\ UNCHANGED rec
    /\ UNCHANGED <<fresh, due, applies, obj, log, clearing, budgets>>

\* run() reads the row again; a row that is gone ends the call in an error.
Load(c) ==
    /\ calls[c].pc = "load"
    /\ IF RowOf(c) = None THEN Return(c)
       ELSE calls' = [calls EXCEPT ![c].pc = "send",
                                   ![c].attempt = RowOf(c).attempts,
                                   ![c].execution = RowOf(c).execution]
    /\ UNCHANGED <<rec, fresh, due, applies, obj, log, clearing, budgets>>

\* The applyAction request leaves for the object engine.
Send(c) ==
    /\ calls[c].pc = "send"
    /\ applies' = applies \cup
         {[rec |-> calls[c].rec, key |-> ActionKey(calls[c]),
           attempt |-> calls[c].attempt, pc |-> "find", version |-> 0]}
    /\ Goto(c, "wait")
    /\ UNCHANGED <<rec, fresh, due, obj, log, clearing, budgets>>

\* The caller is told that the call failed; the request may still be
\* running, or already have committed.
RpcFails(c) ==
    /\ calls[c].pc = "wait" /\ lost < MaxLost
    /\ lost' = lost + 1
    /\ calls' = [calls EXCEPT ![c].pc = "finish", ![c].outcome = "Failed"]
    /\ UNCHANGED <<rec, fresh, due, applies, obj, log, clearing,
                   deaths, clears>>

\* Mutant of FinalStatus.
FinalStatusOptimistic(outcome) == "Executed"

FinalStatus(outcome) ==
    IF outcome = "Executed" THEN "Executed" ELSE "ExecFailed"

\* Mutant of Finish.
FinishNever(c) ==
    /\ calls[c].pc = "finish"
    /\ Return(c)
    /\ UNCHANGED <<rec, fresh, due, applies, obj, log, clearing, budgets>>

\* finishExecution: outcome and history, unless the row has moved on.
Finish(c) ==
    /\ calls[c].pc = "finish"
    /\ IF RowOf(c) # None /\ RowOf(c).status = "Confirmed"
       THEN SetRow(c, [RowOf(c) EXCEPT
                         !.status = FinalStatus(calls[c].outcome),
                         !.execution = Append(calls[c].execution,
                                              calls[c].outcome)])
       ELSE UNCHANGED rec
    /\ Return(c)
    /\ UNCHANGED <<fresh, due, applies, obj, log, clearing, budgets>>

\* The Worker is killed, or a D1 statement of the call throws.
Die(c) ==
    /\ calls[c].pc # "idle" /\ deaths < MaxDeaths
    /\ deaths' = deaths + 1
    /\ Return(c)
    /\ UNCHANGED <<rec, fresh, due, applies, obj, log, clearing,
                   lost, clears>>

----------------------------------------------------------------------------
(* Steps of an applyAction request *)

Move(a, place) == applies' = (applies \ {a}) \cup {[a EXCEPT !.pc = place]}

\* The request ends; its caller, if it still waits, gets the outcome.
Answer(a, outcome) ==
    /\ applies' = applies \ {a}
    /\ calls' = [c \in Callers |->
         IF /\ calls[c].pc = "wait" /\ calls[c].rec = a.rec
            /\ calls[c].attempt = a.attempt
         THEN [calls[c] EXCEPT !.pc = "finish", !.outcome = outcome]
         ELSE calls[c]]

Prior(a) == {e \in log : e.key = a.key}

\* Another request under the same key is refused, a repeated one is not.
SameRequest(a) == \A e \in Prior(a) : TargetOf[e.rec] = TargetOf[a.rec]

Replayed(a) == IF SameRequest(a) THEN "Executed" ELSE "Failed"

FindByKey(a) ==
    /\ a.pc = "find"
    /\ IF Prior(a) # {} THEN Answer(a, Replayed(a))
       ELSE Move(a, "read") /\ UNCHANGED calls
    /\ UNCHANGED <<rec, fresh, due, obj, log, clearing, budgets>>

ReadTarget(a) ==
    /\ a.pc = "read"
    /\ IF obj[TargetOf[a.rec]] = None THEN Answer(a, "Failed")
       ELSE /\ applies' = (applies \ {a}) \cup
                 {[a EXCEPT !.pc = "commit",
                            !.version = obj[TargetOf[a.rec]]]}
            /\ UNCHANGED calls
    /\ UNCHANGED <<rec, fresh, due, obj, log, clearing, budgets>>

\* Tombstone, unknown action, unmet preconditions, limits, an error of D1.
Refuse(a) ==
    /\ a.pc \in {"read", "commit"}
    /\ Answer(a, "Failed")
    /\ UNCHANGED <<rec, fresh, due, obj, log, clearing, budgets>>

\* commitAction: one batch, guarded by the version that was read; the log
\* row's unique key makes it a duplicate only while that guard holds.
Guard(a) == obj[TargetOf[a.rec]] = a.version

CommitAction(a) ==
    /\ a.pc = "commit"
    /\ \/ /\ Guard(a) /\ Prior(a) = {} /\ a.version < MaxVersion
          /\ obj' = [obj EXCEPT ![TargetOf[a.rec]] = @ + 1]
          /\ log' = log \cup {[key |-> a.key, rec |-> a.rec,
                               attempt |-> a.attempt]}
          /\ Answer(a, "Executed")
       \/ /\ Guard(a) /\ Prior(a) # {}
          /\ Move(a, "again") /\ UNCHANGED <<calls, obj, log>>
       \/ /\ ~Guard(a)
          /\ Answer(a, "Failed") /\ UNCHANGED <<obj, log>>
    /\ UNCHANGED <<rec, fresh, due, clearing, budgets>>

\* The duplicate is answered with the result of the first execution.
ReplayAgain(a) ==
    /\ a.pc = "again"
    /\ Answer(a, IF Prior(a) # {} THEN Replayed(a) ELSE "Failed")
    /\ UNCHANGED <<rec, fresh, due, obj, log, clearing, budgets>>

----------------------------------------------------------------------------
(* The rest of the workspace *)

\* Another writer changes the target: patchObject, an import, an action.
Touch(t) ==
    /\ obj[t] \in 1 .. MaxVersion - 1
    /\ obj' = [obj EXCEPT ![t] = @ + 1]
    /\ UNCHANGED <<rec, fresh, due, calls, applies, log, clearing, budgets>>

\* An import that found the target before it was cleared writes it again,
\* under its old rid and at version 1.
Import(t) ==
    /\ obj[t] = None
    /\ obj' = [obj EXCEPT ![t] = 1]
    /\ UNCHANGED <<rec, fresh, due, calls, applies, log, clearing, budgets>>

Unexecuted(r) == rec[r] # None /\ rec[r].status # "Executed"

\* POST /workspace/clear: first DECISION.clearWorkspace ...
ClearDecisions ==
    /\ ~clearing /\ clears < MaxClears
    /\ clearing' = TRUE
    /\ clears' = clears + 1
    /\ rec' = [r \in Recs |-> IF Unexecuted(r) THEN None ELSE rec[r]]
    /\ UNCHANGED <<fresh, due, calls, applies, obj, log, lost, deaths>>

\* ... then OBJECTS.clearWorkspace, which keeps the action log.
ClearObjects ==
    /\ clearing
    /\ clearing' = FALSE
    /\ obj' = [t \in Targets |-> None]
    /\ UNCHANGED <<rec, fresh, due, calls, applies, log, budgets>>

\* The request that clears the workspace fails half way.
ClearStops ==
    /\ clearing
    /\ clearing' = FALSE
    /\ UNCHANGED <<rec, fresh, due, calls, applies, obj, log, budgets>>

----------------------------------------------------------------------------
CallStep(c) ==
    \/ Read(c) \/ Expire(c) \/ Claim(c) \/ Reread(c) \/ Begin(c)
    \/ Load(c) \/ Send(c) \/ Finish(c)

ApplyStep(a) ==
    \/ FindByKey(a) \/ ReadTarget(a) \/ Refuse(a) \/ CommitAction(a)
    \/ ReplayAgain(a)

Next ==
    \/ \E r \in Recs : Generate(r) \/ PassExpiry(r) \/ ExpireOnRead(r)
    \/ \E c \in Callers, r \in Recs, k \in Keys, d \in Decisions :
         Decide(c, r, k, d)
    \/ \E c \in Callers : CallStep(c) \/ RpcFails(c) \/ Die(c)
    \/ \E a \in applies : ApplyStep(a)
    \/ \E t \in Targets : Touch(t) \/ Import(t)
    \/ ClearDecisions \/ ClearObjects \/ ClearStops

Spec == Init /\ [][Next]_vars

\* The Workers runtime runs every call it does not kill to its end.
Fairness ==
    /\ \A c \in Callers : WF_vars(CallStep(c))
    /\ WF_vars(\E a \in applies : ApplyStep(a))

FairSpec == Spec /\ Fairness
----------------------------------------------------------------------------
(* Properties *)

\* Rows, calls and requests stay well formed; in particular no recommendation
\* is begun more often than DECISION_LIMITS.execAttemptsMax (beginExecution).
TypeOK ==
    /\ rec \in [Recs -> Row \cup {None}]
    /\ fresh \subseteq Recs /\ due \subseteq Recs
    /\ calls \in [Callers -> Call]
    /\ applies \subseteq Apply
    /\ obj \in [Targets -> (1 .. MaxVersion) \cup {None}]
    /\ log \subseteq LogEntry
    /\ clearing \in BOOLEAN
    /\ lost \in 0 .. MaxLost /\ deaths \in 0 .. MaxDeaths
    /\ clears \in 0 .. MaxClears

\* Call c is between beginExecution and finishExecution of r.
Executing(c, r) ==
    /\ calls[c].rec = r
    /\ calls[c].pc \in {"load", "send", "wait", "finish"}

\* No two calls execute the same recommendation at the same time, whatever
\* retries, kills and lost answers do: run() relies on it when it appends to
\* the history it has read.
OneExecution ==
    \A c, d \in Callers, r \in Recs :
        Executing(c, r) /\ Executing(d, r) => c = d

\* A confirmed recommendation changes the object graph at most once, though
\* applyAction runs up to three times and an abandoned request may overlap
\* its own retry.
AppliedOnce ==
    \A e, f \in log : e.rec = f.rec => e = f

\* "Executed" is only ever reported of an action that is in the action log
\* under the key of the decision.
ExecutedIsLogged ==
    \A r \in Recs :
        rec[r] # None /\ rec[r].status = "Executed" =>
            \E e \in log : e.key[1] = rec[r].key

\* What was rejected, what expired and what nobody decided changes no object
\* and is not about to.
OnlyConfirmedActs ==
    \A r \in Recs :
        /\ rec[r] # None
        /\ rec[r].status \in {"Proposed", "Rejected", "Expired"}
        => /\ \A e \in log : e.rec # r
           /\ \A a \in applies : a.rec # r

\* The history a failed recommendation shows has one entry per attempt, and
\* an executed one ends in its only success.
HistoryComplete ==
    \A r \in Recs :
        /\ rec[r] # None
        /\ rec[r].status \in {"Executed", "ExecFailed"}
        => /\ Len(rec[r].execution) = rec[r].attempts
           /\ \A i \in 1 .. Len(rec[r].execution) :
                 rec[r].execution[i] = "Executed"
                 <=> i = rec[r].attempts /\ rec[r].status = "Executed"

\* A decision is final: no step changes its key, turns it round or takes an
\* executed, rejected or expired recommendation anywhere but out of the table.
DecisionFinal ==
    [][\A r \in Recs :
         rec[r] # None /\ rec'[r] # None =>
            /\ rec[r].key # None => rec'[r].key = rec[r].key
            /\ rec[r].status \in {"Rejected", "Expired", "Executed"} =>
                 rec'[r] = rec[r]
            /\ rec'[r].status = "Proposed" => rec[r].status = "Proposed"]_vars

\* When no call is killed, every confirmation comes to an outcome (or is
\* cleared away), with two calls under the same key and lost answers too.
ConfirmedSettles ==
    \A r \in Recs :
        rec[r] # None /\ rec[r].status = "Confirmed"
        ~> \/ rec[r] = None \/ rec[r].status \in {"Executed", "ExecFailed"}
           \/ deaths > 0

\* The doc of the status machine: a confirmation leads to Executed or to
\* ExecFailed, and a failure can be executed again.  So a confirmation that
\* is not being executed can be begun by a retry.
ConfirmedResumable ==
    \A r \in Recs :
        /\ rec[r] # None /\ rec[r].status = "Confirmed"
        /\ \A c \in Callers : ~Executing(c, r)
        => MayBegin(rec[r], rec[r].key)

\* One recommendation, one action: no two calls execute it at once and its
\* action is in the log at most once, through retries, kills and lost
\* answers of applyAction (run).
ActsOnce == TypeOK /\ OneExecution /\ AppliedOnce

\* What a recommendation says of itself is what the action log says: only a
\* confirmed one acts, "Executed" has its log entry, and the history has one
\* entry for each attempt.
OutcomeTrue == OnlyConfirmedActs /\ ExecutedIsLogged /\ HistoryComplete
============================================================================

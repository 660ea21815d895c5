------------------------ MODULE RecommendationProofs ------------------------
(***************************************************************************)
(* Theorems about the recommendations, for every number of recommendations,*)
(* keys, concurrent decide calls, targets and attempts.                    *)
(***************************************************************************)
EXTENDS Recommendation, TLAPS

(* The places of a call between beginExecution and finishExecution.        *)
Running == {"load", "send", "wait", "finish"}

(* What a row says of itself: undecided without a key; each attempt begun  *)
(* but the running one has its entry, and only the last can be a success.  *)
AllFailed(s) == \A i \in 1 .. Len(s) : s[i] = "Failed"

RowOK(row) ==
  /\ row \in Row
  /\ row.status \in {"Proposed", "Expired"} <=> row.key = None
  /\ row.status \in {"Proposed", "Expired", "Rejected"} => row.attempts = 0
  /\ row.attempts = 0 => row.execution = <<>>
  /\ row.status = "Confirmed" /\ row.attempts > 0 =>
       Len(row.execution) = row.attempts - 1 /\ AllFailed(row.execution)
  /\ row.status = "ExecFailed" =>
       Len(row.execution) = row.attempts /\ AllFailed(row.execution)
  /\ row.status = "Executed" =>
       /\ Len(row.execution) = row.attempts
       /\ \A i \in 1 .. Len(row.execution) :
            row.execution[i] = "Executed" <=> i = row.attempts

(* A call under way: while it executes, its row is confirmed, begun and    *)
(* under its key, unless it was cleared away; the attempt and the history  *)
(* it has read are still the row's; a success it heard of is in the log.   *)
CallOK(x) ==
  /\ x \in Call
  /\ x.pc # "idle" => x.rec \in Recs \ fresh /\ x.key \in Keys
  /\ x.pc \in Running /\ rec[x.rec] # None =>
       /\ rec[x.rec].status = "Confirmed" /\ rec[x.rec].attempts > 0
       /\ rec[x.rec].key = x.key
  /\ x.pc \in {"send", "wait", "finish"} =>
       /\ x.attempt > 0
       /\ rec[x.rec] # None => /\ x.execution = rec[x.rec].execution
                               /\ x.attempt = rec[x.rec].attempts
  /\ x.pc = "finish" /\ x.outcome = "Executed" =>
       \E e \in log : e.key = ActionKey(x)

(* Whatever is done for a recommendation is done under one key, the row's. *)
ActsUnder(r, k) ==
  /\ rec[r] # None => rec[r].key = k
  /\ \A c \in Callers : calls[c].pc \in Running /\ calls[c].rec = r => calls[c].key = k
  /\ \A a \in applies : a.rec = r => a.key = <<k, 0>>
  /\ \A e \in log : e.rec = r => e.key = <<k, 0>>

(* Nothing is done for a recommendation that was not confirmed.            *)
Quiet(r) == (\A e \in log : e.rec # r) /\ (\A a \in applies : a.rec # r)

RowInv  == \A r \in Recs : rec[r] # None => RowOK(rec[r])
CallInv == \A c \in Callers : CallOK(calls[c])
RunInv  == \A c, d \in Callers :
             /\ calls[c].pc \in Running /\ calls[d].pc \in Running
             /\ calls[c].rec = calls[d].rec
             => c = d
KeyInv  == \A r \in Recs : \E k \in Keys \cup {None} : ActsUnder(r, k)
QuietInv ==
  \A r \in Recs :
    /\ rec[r] # None /\ rec[r].status \in {"Proposed", "Expired", "Rejected"} => Quiet(r)
    /\ r \in fresh => rec[r] = None /\ Quiet(r)
LogInv  == AppliedOnce /\ ExecutedIsLogged

IInv == TypeOK /\ RowInv /\ CallInv /\ RunInv /\ KeyInv /\ QuietInv /\ LogInv
(* The parts of a row, a call and a request.                               *)
LEMMA RowFacts ==
  \A row \in Row : /\ row # None /\ row.status \in RecStatus
                   /\ row.key \in Keys \cup {None}
                   /\ row.attempts \in 0 .. ExecAttemptsMax
                   /\ row.execution \in Seq(Outcomes)
BY NoneAssumption DEF Row

LEMMA CallFacts ==
  \A x \in Call : /\ x.pc \in Places /\ x.rec \in Recs \cup {None}
                  /\ x.key \in Keys \cup {None} /\ x.decision \in Decisions
                  /\ x.due \in BOOLEAN /\ x.attempt \in 0 .. ExecAttemptsMax
                  /\ x.execution \in Seq(Outcomes) /\ x.outcome \in Outcomes
BY DEF Call

(* A call at rest.                                                         *)
LEMMA IdleOK == CallOK(IdleCall) /\ IdleCall.pc = "idle"
<1>1. IdleCall \in Call /\ IdleCall.pc = "idle"
  BY ConstantsAssumption DEF IdleCall, Call, Places, Decisions, Outcomes
<1> HIDE DEF IdleCall
<1> QED
  BY <1>1 DEF CallOK, Running

(* Moving a call from one place to another where it claims no more.        *)
LEMMA GotoType ==
  ASSUME NEW x \in Call, NEW p \in Places
  PROVE  /\ [x EXCEPT !.pc = p] \in Call /\ [x EXCEPT !.pc = p].pc = p
         /\ [x EXCEPT !.pc = p].rec = x.rec /\ [x EXCEPT !.pc = p].key = x.key
         /\ [x EXCEPT !.pc = p].attempt = x.attempt
         /\ [x EXCEPT !.pc = p].execution = x.execution
         /\ [x EXCEPT !.pc = p].outcome = x.outcome
BY DEF Call

(* A step of one call that changes no row.                                 *)
LEMMA CallOnlyStep ==
  ASSUME IInv, TypeOK', NEW c \in Callers, NEW x, calls' = [calls EXCEPT ![c] = x],
         UNCHANGED <<rec, fresh, applies, log>>, CallOK(x),
         x.pc \in Running => /\ calls[c].pc \in Running /\ calls[c].rec = x.rec
                             /\ calls[c].key = x.key
  PROVE  IInv'
<1>0. calls \in [Callers -> Call]
  BY DEF IInv, TypeOK
<1>1. \A d \in Callers : calls'[d] = IF d = c THEN x ELSE calls[d]
  BY <1>0
<1>2. RowInv' /\ QuietInv' /\ LogInv'
  BY DEF IInv, RowInv, RowOK, QuietInv, Quiet, LogInv, AppliedOnce, ExecutedIsLogged, AllFailed
<1>3. \A d \in Callers : CallOK(calls'[d])
  BY <1>1 DEF IInv, CallInv
<1>4. CallInv'
  BY <1>3 DEF CallInv, CallOK
<1>5. RunInv'
  BY <1>1 DEF IInv, RunInv
<1>6. KeyInv'
  <2> SUFFICES ASSUME NEW r \in Recs PROVE \E k \in Keys \cup {None} : ActsUnder(r, k)'
    BY DEF KeyInv
  <2>1. PICK k \in Keys \cup {None} : ActsUnder(r, k)
    BY DEF IInv, KeyInv
  <2>2. ActsUnder(r, k)'
    BY <1>1, <2>1 DEF ActsUnder
  <2> QED
    BY <2>2
<1> QED
  BY <1>2, <1>4, <1>5, <1>6 DEF IInv

(* A step of one call that changes its row: from an undecided one, or      *)
(* under its key, with no other call executing it.                         *)
LEMMA RowStep ==
  ASSUME IInv, TypeOK', NEW c \in Callers, NEW x, calls' = [calls EXCEPT ![c] = x],
         NEW r \in Recs, NEW row, rec' = [rec EXCEPT ![r] = row], rec[r] # None,
         UNCHANGED <<fresh, applies, log>>, RowOK(row), CallOK(x)',
         rec[r].key # None => row.key = rec[r].key,
         calls[c].rec = r,
         \A d \in Callers : calls[d].pc \in Running /\ calls[d].rec = r => d = c,
         x.pc \in Running => x.rec = r /\ x.key = row.key,
         row.status \in {"Proposed", "Expired", "Rejected"} =>
           rec[r].status \in {"Proposed", "Expired", "Rejected"},
         row.status = "Executed" => \E e \in log : e.key[1] = row.key
  PROVE  IInv'
<1>0. calls \in [Callers -> Call] /\ rec \in [Recs -> Row \cup {None}]
  BY DEF IInv, TypeOK
<1>1. /\ \A d \in Callers : calls'[d] = IF d = c THEN x ELSE calls[d]
      /\ \A q \in Recs : rec'[q] = IF q = r THEN row ELSE rec[q]
      /\ row # None
  BY <1>0, RowFacts DEF RowOK
<1>2. \A q \in Recs : rec'[q] # None => RowOK(rec'[q])
  BY <1>1 DEF IInv, RowInv
<1>3. RowInv'
  BY <1>2 DEF RowInv, RowOK, AllFailed
<1>4. CallInv'
  <2> SUFFICES ASSUME NEW d \in Callers PROVE CallOK(calls[d])'
    BY DEF CallInv
  <2>1. CASE d = c
    BY <1>1, <2>1 DEF CallOK
  <2>2. CASE d # c
    <3>1. CallOK(calls[d]) /\ calls'[d] = calls[d]
      BY <1>1, <2>2 DEF IInv, CallInv
    <3>2. calls[d].pc \in Running => calls[d].rec # r
      BY <2>2
    <3>3. calls[d].pc \in Running => calls[d].rec \in Recs
      BY <3>1 DEF CallOK, Running
    <3>4. calls[d].pc \in Running => rec'[calls[d].rec] = rec[calls[d].rec]
      BY <1>1, <3>2, <3>3
    <3> QED
      BY <3>1, <3>4 DEF CallOK, Running
  <2> QED
    BY <2>1, <2>2
<1>5. RunInv'
  BY <1>1 DEF IInv, RunInv
<1>6. KeyInv'
  <2> SUFFICES ASSUME NEW q \in Recs PROVE \E k \in Keys \cup {None} : ActsUnder(q, k)'
    BY DEF KeyInv
  <2>1. PICK k \in Keys \cup {None} : ActsUnder(q, k)
    BY DEF IInv, KeyInv
  <2>2. CASE q # r
    <3>1. ActsUnder(q, k)'
      BY <1>1, <2>1, <2>2 DEF ActsUnder
    <3> QED
      BY <3>1
  <2>3. CASE q = r
    <3>1. row.key \in Keys \cup {None}
      BY RowFacts DEF RowOK
    <3>2. CASE rec[r].key # None
      <4>1. k = row.key
        BY <2>1, <2>3, <3>2 DEF ActsUnder
      <4>2. ActsUnder(q, k)'
        BY <1>1, <2>1, <2>3, <4>1 DEF ActsUnder
      <4> QED
        BY <4>2
    <3>3. CASE rec[r].key = None
      <4>1. rec[r].status \in {"Proposed", "Expired"}
        BY <3>3 DEF IInv, RowInv, RowOK
      <4>2. Quiet(r)
        BY <4>1 DEF IInv, QuietInv
      <4>3. ActsUnder(q, row.key)'
        BY <1>1, <2>3, <4>2 DEF ActsUnder, Quiet
      <4> QED
        BY <3>1, <4>3
    <3> QED
      BY <3>2, <3>3
  <2> QED
    BY <2>2, <2>3
<1>7. QuietInv'
  BY <1>1 DEF IInv, QuietInv, Quiet
<1>8. LogInv'
  BY <1>1 DEF IInv, LogInv, AppliedOnce, ExecutedIsLogged
<1> QED
  BY <1>3, <1>4, <1>5, <1>6, <1>7, <1>8 DEF IInv
(* A request that moves on keeps its recommendation, key and attempt.      *)
LEMMA MoveStep ==
  ASSUME IInv, TypeOK', NEW a \in applies, NEW b, b.rec = a.rec, b.key = a.key,
         applies' = (applies \ {a}) \cup {b}, UNCHANGED <<rec, fresh, calls, log>>
  PROVE  IInv'
<1>1. RowInv' /\ LogInv' /\ RunInv'
  BY DEF IInv, RowInv, RowOK, LogInv, AppliedOnce, ExecutedIsLogged, RunInv, AllFailed
<1>2. CallInv'
  BY DEF IInv, CallInv, CallOK
<1>3. KeyInv'
  <2> SUFFICES ASSUME NEW r \in Recs PROVE \E k \in Keys \cup {None} : ActsUnder(r, k)'
    BY DEF KeyInv
  <2>1. PICK k \in Keys \cup {None} : ActsUnder(r, k)
    BY DEF IInv, KeyInv
  <2>2. ActsUnder(r, k)'
    BY <2>1 DEF ActsUnder
  <2> QED
    BY <2>2
<1>4. QuietInv'
  BY DEF IInv, QuietInv, Quiet
<1> QED
  BY <1>1, <1>2, <1>3, <1>4 DEF IInv

(* The key of a request that runs is its recommendation's; the callers     *)
(* that wait for it ask under that key.                                    *)
LEMMA RequestKey ==
  ASSUME IInv, NEW a \in applies
  PROVE  /\ a \in Apply /\ a.rec \in Recs
         /\ \A c \in Callers : calls[c].pc \in Running /\ calls[c].rec = a.rec
              => a.key = ActionKey(calls[c])
         /\ \A e \in log : e.rec = a.rec => e.key = a.key
         /\ a.rec \notin fresh
         /\ rec[a.rec] # None => rec[a.rec].status \notin {"Proposed", "Expired", "Rejected"}
<1>1. a \in Apply /\ a.rec \in Recs
  BY DEF IInv, TypeOK, Apply
<1>2. PICK k \in Keys \cup {None} : ActsUnder(a.rec, k)
  BY <1>1 DEF IInv, KeyInv
<1> QED
  BY <1>1, <1>2 DEF ActsUnder, ActionKey, IInv, QuietInv, Quiet

(* A request ends: whoever waits for it hears of a success only when the   *)
(* action is in the log; the log gains at most the request's own entry,    *)
(* and only if it has none under its key.                                  *)
LEMMA AnswerStep ==
  ASSUME IInv, TypeOK', NEW a \in applies, NEW outcome \in Outcomes, Answer(a, outcome),
         UNCHANGED <<rec, fresh>>,
         \/ log' = log
         \/ /\ log' = log \cup {[key |-> a.key, rec |-> a.rec, attempt |-> a.attempt]}
            /\ Prior(a) = {},
         outcome = "Executed" => \E e \in log' : e.key = a.key
  PROVE  IInv'
<1>0. /\ applies' = applies \ {a}
      /\ calls' = [c \in Callers |->
           IF /\ calls[c].pc = "wait" /\ calls[c].rec = a.rec
              /\ calls[c].attempt = a.attempt
           THEN [calls[c] EXCEPT !.pc = "finish", !.outcome = outcome]
           ELSE calls[c]]
  BY DEF Answer
<1>1. calls \in [Callers -> Call]
  BY DEF IInv, TypeOK
<1>2. \A e \in log' : e \in log \/ (e.key = a.key /\ e.rec = a.rec)
  OBVIOUS
<1>3. \A e \in log : e \in log'
  OBVIOUS
<1>4. \A x \in Call : LET y == [x EXCEPT !.pc = "finish", !.outcome = outcome] IN
         /\ y \in Call /\ y.pc = "finish" /\ y.outcome = outcome /\ y.rec = x.rec
         /\ y.key = x.key /\ y.attempt = x.attempt /\ y.execution = x.execution
  BY DEF Call, Places
<1>5. ASSUME NEW c \in Callers
      PROVE  /\ calls'[c] \in Call
             /\ calls'[c].rec = calls[c].rec /\ calls'[c].key = calls[c].key
             /\ calls'[c].attempt = calls[c].attempt
             /\ calls'[c].execution = calls[c].execution
             /\ calls'[c].pc \in Running <=> calls[c].pc \in Running
             /\ calls'[c].pc \in {"send", "wait", "finish"}
                  <=> calls[c].pc \in {"send", "wait", "finish"}
             /\ calls'[c].pc # "idle" => calls[c].pc # "idle"
             /\ \/ calls'[c].pc = calls[c].pc /\ calls'[c].outcome = calls[c].outcome
                \/ /\ calls'[c].outcome = outcome /\ calls[c].rec = a.rec
                   /\ calls[c].pc = "wait"
  BY <1>0, <1>1, <1>4 DEF Running
<1>6. CallInv'
  <2> SUFFICES ASSUME NEW c \in Callers PROVE CallOK(calls[c])'
    BY DEF CallInv
  <2>1. CallOK(calls[c])
    BY DEF IInv, CallInv
  <2>2. ASSUME calls'[c].pc = "finish", calls'[c].outcome = "Executed"
        PROVE  \E e \in log' : e.key = ActionKey(calls'[c])
    <3>1. ActionKey(calls'[c]) = ActionKey(calls[c])
      BY <1>5 DEF ActionKey
    <3>2. CASE calls'[c].pc = calls[c].pc /\ calls'[c].outcome = calls[c].outcome
      BY <1>3, <2>1, <2>2, <3>1, <3>2 DEF CallOK
    <3>3. CASE calls'[c].outcome = outcome /\ calls[c].rec = a.rec /\ calls[c].pc = "wait"
      <4>1. a.key = ActionKey(calls[c])
        BY <3>3, RequestKey DEF Running
      <4> QED
        BY <2>2, <3>1, <3>3, <4>1
    <3> QED
      BY <1>5, <3>2, <3>3
  <2> QED
    BY <1>5, <2>1, <2>2 DEF CallOK, ActionKey
<1>7. RowInv'
  BY DEF IInv, RowInv, RowOK, AllFailed
<1>8. RunInv'
  BY <1>5 DEF IInv, RunInv
<1>9. KeyInv'
  <2> SUFFICES ASSUME NEW r \in Recs PROVE \E k \in Keys \cup {None} : ActsUnder(r, k)'
    BY DEF KeyInv
  <2>1. PICK k \in Keys \cup {None} : ActsUnder(r, k)
    BY DEF IInv, KeyInv
  <2>2. \A c \in Callers : calls'[c].pc \in Running /\ calls'[c].rec = r => calls'[c].key = k
    BY <1>5, <2>1 DEF ActsUnder
  <2>3. \A b \in applies' : b.rec = r => b.key = <<k, 0>>
    BY <1>0, <2>1 DEF ActsUnder
  <2>4. \A e \in log' : e.rec = r => e.key = <<k, 0>>
    BY <1>2, <2>1 DEF ActsUnder
  <2>5. ActsUnder(r, k)'
    BY <2>1, <2>2, <2>3, <2>4 DEF ActsUnder
  <2> QED
    BY <2>5
<1>10. QuietInv'
  BY <1>0, <1>2, RequestKey DEF IInv, QuietInv, Quiet
<1>11. AppliedOnce'
  <2> SUFFICES ASSUME NEW e \in log', NEW f \in log', e.rec = f.rec PROVE e = f
    BY DEF AppliedOnce
  <2>1. CASE log' = log
    BY <2>1 DEF IInv, LogInv, AppliedOnce
  <2>2. CASE /\ log' = log \cup {[key |-> a.key, rec |-> a.rec, attempt |-> a.attempt]}
             /\ Prior(a) = {}
    <3>1. \A g \in log : g.rec # a.rec
      BY <2>2, RequestKey DEF Prior
    <3> QED
      BY <2>2, <3>1 DEF IInv, LogInv, AppliedOnce
  <2> QED
    BY <2>1, <2>2
<1>12. ExecutedIsLogged'
  BY <1>3 DEF IInv, LogInv, ExecutedIsLogged
<1> QED
  BY <1>6, <1>7, <1>8, <1>9, <1>10, <1>11, <1>12 DEF IInv, LogInv

-----------------------------------------------------------------------------
(* The steps of an applyAction request.                                    *)
LEMMA RequestTypes ==
  ASSUME IInv, NEW a \in applies
  PROVE  /\ a \in Apply /\ a.rec \in Recs /\ TargetOf[a.rec] \in Targets
         /\ \A p \in {"find", "read", "commit", "again"} :
              LET b == [a EXCEPT !.pc = p] IN
              b \in Apply /\ b.rec = a.rec /\ b.key = a.key
         /\ \A v \in 0 .. MaxVersion :
              LET b == [a EXCEPT !.pc = "commit", !.version = v] IN
              b \in Apply /\ b.rec = a.rec /\ b.key = a.key
         /\ [key |-> a.key, rec |-> a.rec, attempt |-> a.attempt] \in LogEntry
<1>1. a \in Apply /\ a.rec \in Recs
  BY DEF IInv, TypeOK, Apply
<1>2. TargetOf[a.rec] \in Targets
  BY <1>1, ConstantsAssumption
<1> QED
  BY <1>1, <1>2 DEF Apply, LogEntry

(* An answer leaves calls and requests well formed.                        *)
LEMMA AnswerTypes ==
  ASSUME IInv, NEW a \in applies, NEW outcome \in Outcomes, Answer(a, outcome)
  PROVE  calls' \in [Callers -> Call] /\ applies' \subseteq Apply
<1>1. calls \in [Callers -> Call] /\ applies \subseteq Apply
  BY DEF IInv, TypeOK
<1>2. \A x \in Call : [x EXCEPT !.pc = "finish", !.outcome = outcome] \in Call
  BY DEF Call, Places
<1> QED
  BY <1>1, <1>2 DEF Answer

LEMMA ReplayedOutcome ==
  ASSUME NEW a PROVE Replayed(a) \in Outcomes
BY DEF Replayed, Outcomes

LEMMA PriorKey == ASSUME NEW a, Prior(a) # {} PROVE \E e \in log : e.key = a.key
BY DEF Prior

LEMMA RefusingStep ==
  ASSUME IInv, NEW a \in applies, NEW outcome \in Outcomes, Answer(a, outcome),
         UNCHANGED <<rec, fresh, due, obj, log, clearing, budgets>>,
         outcome = "Executed" => Prior(a) # {}
  PROVE  IInv'
<1>1. TypeOK'
  BY AnswerTypes DEF IInv, TypeOK, budgets
<1> QED
  BY <1>1, AnswerStep, PriorKey

LEMMA MovingStep ==
  ASSUME IInv, NEW a \in applies, NEW b \in Apply, b.rec = a.rec, b.key = a.key,
         applies' = (applies \ {a}) \cup {b},
         UNCHANGED <<rec, fresh, due, calls, obj, log, clearing, budgets>>
  PROVE  IInv'
<1>1. TypeOK'
  BY DEF IInv, TypeOK, budgets
<1> QED
  BY <1>1, MoveStep

LEMMA ApplyStepOK == ASSUME IInv, NEW a \in applies, ApplyStep(a) PROVE IInv'
<1>0. "Failed" \in Outcomes /\ "Executed" \in Outcomes /\ Replayed(a) \in Outcomes
  BY ReplayedOutcome DEF Outcomes
<1>1. CASE FindByKey(a)
  <2>1. CASE Prior(a) # {}
    BY <1>0, <1>1, <2>1, RefusingStep DEF FindByKey
  <2>2. CASE Prior(a) = {}
    BY <1>1, <2>2, MovingStep, RequestTypes DEF FindByKey, Move
  <2> QED
    BY <2>1, <2>2
<1>2. CASE ReadTarget(a)
  <2>1. CASE obj[TargetOf[a.rec]] = None
    BY <1>0, <1>2, <2>1, RefusingStep DEF ReadTarget
  <2>2. CASE obj[TargetOf[a.rec]] # None
    <3>0. TargetOf[a.rec] \in Targets
      BY RequestTypes
    <3>1. obj[TargetOf[a.rec]] \in 0 .. MaxVersion
      BY <2>2, <3>0, ConstantsAssumption DEF IInv, TypeOK
    <3> QED
      BY <1>2, <2>2, <3>1, MovingStep, RequestTypes DEF ReadTarget
  <2> QED
    BY <2>1, <2>2
<1>3. CASE Refuse(a)
  BY <1>0, <1>3, RefusingStep DEF Refuse
<1>4. CASE CommitAction(a)
  <2>1. CASE /\ Guard(a) /\ Prior(a) = {} /\ a.version < MaxVersion
             /\ obj' = [obj EXCEPT ![TargetOf[a.rec]] = @ + 1]
             /\ log' = log \cup {[key |-> a.key, rec |-> a.rec, attempt |-> a.attempt]}
             /\ Answer(a, "Executed")
    <3>1. UNCHANGED <<rec, fresh, due, clearing, budgets>>
      BY <1>4 DEF CommitAction
    <3>2. obj' \in [Targets -> (1 .. MaxVersion) \cup {None}]
      <4>0. a.version \in 0 .. MaxVersion /\ TargetOf[a.rec] \in Targets
        BY RequestTypes DEF Apply
      <4>1. obj[TargetOf[a.rec]] + 1 \in 1 .. MaxVersion
        BY <2>1, <4>0, ConstantsAssumption DEF Guard
      <4> QED
        BY <2>1, <4>0, <4>1 DEF IInv, TypeOK
    <3>3. TypeOK'
      BY <1>0, <2>1, <3>1, <3>2, AnswerTypes, RequestTypes DEF IInv, TypeOK, budgets
    <3>4. \E e \in log' : e.key = a.key
      <4> DEFINE new == [key |-> a.key, rec |-> a.rec, attempt |-> a.attempt]
      <4>1. new \in log' /\ new.key = a.key
        BY <2>1
      <4> QED
        BY <4>1
    <3>5. UNCHANGED <<rec, fresh>>
      BY <3>1
    <3> QED
      BY <1>0, <2>1, <3>3, <3>4, <3>5, AnswerStep
  <2>2. CASE Move(a, "again") /\ UNCHANGED <<calls, obj, log>>
    BY <1>4, <2>2, MovingStep, RequestTypes DEF CommitAction, Move
  <2>3. CASE Answer(a, "Failed") /\ UNCHANGED <<obj, log>>
    BY <1>0, <1>4, <2>3, RefusingStep DEF CommitAction
  <2> QED
    BY <1>4, <2>1, <2>2, <2>3 DEF CommitAction
<1>5. CASE ReplayAgain(a)
  <2> DEFINE o == IF Prior(a) # {} THEN Replayed(a) ELSE "Failed"
  <2>1. o \in Outcomes /\ (o = "Executed" => Prior(a) # {})
    BY <1>0
  <2>2. Answer(a, o) /\ UNCHANGED <<rec, fresh, due, obj, log, clearing, budgets>>
    BY <1>5 DEF ReplayAgain
  <2> HIDE DEF o
  <2> QED
    BY <2>1, <2>2, RefusingStep
<1> QED
  BY <1>1, <1>2, <1>3, <1>4, <1>5 DEF ApplyStep
-----------------------------------------------------------------------------
(* The steps of a decide call.                                             *)
LEMMA CallTypes ==
  ASSUME IInv, NEW c \in Callers
  PROVE  /\ calls \in [Callers -> Call] /\ CallOK(calls[c]) /\ calls[c] \in Call
         /\ calls[c].pc # "idle" =>
              /\ calls[c].rec \in Recs /\ calls[c].rec \notin fresh
              /\ calls[c].key \in Keys
              /\ RowOf(c) # None => RowOK(RowOf(c)) /\ RowOf(c) \in Row
BY DEF IInv, TypeOK, CallInv, CallOK, RowOf, RowInv, RowOK

(* Only the calls change.                                                  *)
LEMMA JustCall ==
  ASSUME IInv, NEW c \in Callers, NEW x, calls' = [calls EXCEPT ![c] = x],
         UNCHANGED <<rec, fresh, due, applies, obj, log, clearing>>, CallOK(x),
         lost' \in 0 .. MaxLost, deaths' \in 0 .. MaxDeaths, clears' \in 0 .. MaxClears,
         x.pc \in Running => /\ calls[c].pc \in Running /\ calls[c].rec = x.rec
                             /\ calls[c].key = x.key
  PROVE  IInv'
<1>1. TypeOK'
  BY DEF IInv, TypeOK, CallOK
<1> QED
  BY <1>1, CallOnlyStep

LEMMA Budgets ==
  ASSUME IInv, UNCHANGED budgets
  PROVE  lost' \in 0 .. MaxLost /\ deaths' \in 0 .. MaxDeaths /\ clears' \in 0 .. MaxClears
BY DEF IInv, TypeOK, budgets

LEMMA ReturnStep ==
  ASSUME IInv, NEW c \in Callers, Return(c),
         UNCHANGED <<rec, fresh, due, applies, obj, log, clearing>>,
         lost' \in 0 .. MaxLost, deaths' \in 0 .. MaxDeaths, clears' \in 0 .. MaxClears
  PROVE  IInv'
BY IdleOK, JustCall DEF Return, Running

(* Going on to a place where nothing is executed.                          *)
LEMMA GotoStep ==
  ASSUME IInv, NEW c \in Callers, NEW p \in {"read", "expire", "claim", "reread", "begin"},
         calls[c].pc # "idle", Goto(c, p),
         UNCHANGED <<rec, fresh, due, applies, obj, log, clearing, budgets>>
  PROVE  IInv'
<1> DEFINE x == [calls[c] EXCEPT !.pc = p]
<1>0. calls[c] \in Call /\ p \in Places
  BY CallTypes DEF Places
<1>1. x \in Call /\ x.pc = p /\ x.rec = calls[c].rec /\ x.key = calls[c].key
  BY <1>0, GotoType
<1>2. calls' = [calls EXCEPT ![c] = x]
  BY DEF Goto
<1> HIDE DEF x
<1>3. CallOK(x) /\ x.pc \notin Running
  BY <1>1, CallTypes DEF CallOK, Running
<1> QED
  BY <1>2, <1>3, JustCall, Budgets

LEMMA ReplayStep ==
  ASSUME IInv, NEW c \in Callers, calls[c].pc # "idle", Replay(c),
         UNCHANGED <<rec, fresh, due, applies, obj, log, clearing, budgets>>
  PROVE  IInv'
BY GotoStep, ReturnStep, Budgets DEF Replay

LEMMA DecideOK ==
  ASSUME IInv, NEW c \in Callers, NEW r \in Recs, NEW k \in Keys, NEW d \in Decisions,
         Decide(c, r, k, d)
  PROVE  IInv'
<1> DEFINE late == r \in due
           x == [IdleCall EXCEPT !.pc = "read", !.rec = r, !.key = k,
                                 !.decision = d, !.due = late]
<1>1. IdleCall \in Call /\ late \in BOOLEAN
  BY IdleOK DEF CallOK
<1>2. calls' = [calls EXCEPT ![c] = x] /\ r \notin fresh
  BY DEF Decide
<1> HIDE DEF late
<1>3. x \in Call /\ x.pc = "read" /\ x.rec = r /\ x.key = k
  BY <1>1 DEF Call, Places
<1> HIDE DEF x
<1>4. CallOK(x) /\ x.pc \notin Running
  BY <1>2, <1>3 DEF CallOK, Running
<1>5. UNCHANGED <<rec, fresh, due, applies, obj, log, clearing, budgets>>
  BY DEF Decide
<1> QED
  BY <1>2, <1>4, <1>5, JustCall, Budgets

LEMMA ReadOK == ASSUME IInv, NEW c \in Callers, Read(c) PROVE IInv'
<1>1. calls[c].pc # "idle" /\ UNCHANGED <<rec, fresh, due, applies, obj, log, clearing, budgets>>
  BY DEF Read
<1>2. Return(c) \/ Replay(c) \/ Goto(c, "expire") \/ Goto(c, "claim")
  BY DEF Read
<1> QED
  BY <1>1, <1>2, ReturnStep, ReplayStep, GotoStep, Budgets

LEMMA RereadOK == ASSUME IInv, NEW c \in Callers, Reread(c) PROVE IInv'
<1>1. calls[c].pc # "idle" /\ UNCHANGED <<rec, fresh, due, applies, obj, log, clearing, budgets>>
  BY DEF Reread
<1>2. Return(c) \/ Replay(c)
  BY DEF Reread
<1> QED
  BY <1>1, <1>2, ReturnStep, ReplayStep, Budgets

(* A row written by a call that is not, or no longer, executing it.        *)
LEMMA WriteRow ==
  ASSUME IInv, NEW c \in Callers, calls[c].pc # "idle", NEW x, calls' = [calls EXCEPT ![c] = x],
         NEW row, SetRow(c, row), RowOf(c) # None, RowOK(row), CallOK(x)',
         UNCHANGED <<fresh, due, applies, obj, log, clearing, budgets>>,
         RowOf(c).key # None => row.key = RowOf(c).key,
         \A d \in Callers : calls[d].pc \in Running /\ calls[d].rec = calls[c].rec => d = c,
         x.pc \in Running => x.rec = calls[c].rec /\ x.key = row.key,
         row.status \in {"Proposed", "Expired", "Rejected"} =>
           RowOf(c).status \in {"Proposed", "Expired", "Rejected"},
         row.status = "Executed" => \E e \in log : e.key[1] = row.key
  PROVE  IInv'
<1>1. calls[c].rec \in Recs /\ RowOf(c) = rec[calls[c].rec]
  BY CallTypes DEF RowOf
<1>2. rec' = [rec EXCEPT ![calls[c].rec] = row]
  BY DEF SetRow
<1>3. TypeOK'
  BY <1>2 DEF IInv, TypeOK, RowOK, CallOK, budgets
<1>. PICK r : r = calls[c].rec
  OBVIOUS
<1>4. r \in Recs /\ rec' = [rec EXCEPT ![r] = row] /\ rec[r] # None /\ calls[c].rec = r
  BY <1>1, <1>2
<1>5. /\ UNCHANGED <<fresh, applies, log>>
      /\ rec[r].key # None => row.key = rec[r].key
      /\ \A d \in Callers : calls[d].pc \in Running /\ calls[d].rec = r => d = c
      /\ x.pc \in Running => x.rec = r /\ x.key = row.key
      /\ row.status \in {"Proposed", "Expired", "Rejected"} =>
           rec[r].status \in {"Proposed", "Expired", "Rejected"}
  BY <1>1
<1> QED
  BY ZenonT(40), <1>3, <1>4, <1>5, RowStep

(* Nobody executes a row that is not confirmed, or not begun.              *)
LEMMA NobodyRuns ==
  ASSUME IInv, NEW c \in Callers, calls[c].pc # "idle", RowOf(c) # None,
         RowOf(c).status # "Confirmed" \/ RowOf(c).attempts = 0
  PROVE  \A d \in Callers : ~(calls[d].pc \in Running /\ calls[d].rec = calls[c].rec)
<1> SUFFICES ASSUME NEW d \in Callers, calls[d].pc \in Running, calls[d].rec = calls[c].rec
             PROVE  FALSE
  OBVIOUS
<1>1. CallOK(calls[d]) /\ rec[calls[d].rec] = RowOf(c)
  BY CallTypes DEF RowOf
<1> QED
  BY <1>1 DEF CallOK

(* An undecided row expires.                                               *)
LEMMA ExpiredOK ==
  ASSUME NEW row, RowOK(row), row.status = "Proposed"
  PROVE  RowOK(Expired(row)) /\ Expired(row).status = "Expired" /\ Expired(row).key = None
<1> DEFINE new == Expired(row)
<1>1. row \in Row /\ row.key = None /\ row.attempts = 0 /\ row.execution = <<>>
  BY DEF RowOK
<1>2. /\ new \in Row /\ new.status = "Expired" /\ new.key = None
      /\ new.attempts = 0 /\ new.execution = <<>>
  BY <1>1 DEF Expired, Row, RecStatus
<1> HIDE DEF new
<1>3. RowOK(new)
  BY <1>2 DEF RowOK
<1> QED
  BY <1>2, <1>3 DEF new

LEMMA ExpireOK == ASSUME IInv, NEW c \in Callers, Expire(c) PROVE IInv'
<1>0. /\ calls[c].pc # "idle" /\ Return(c)
      /\ UNCHANGED <<fresh, due, applies, obj, log, clearing, budgets>>
  BY DEF Expire
<1>1. CASE RowOf(c) # None /\ IsDue(RowOf(c), calls[c])
  <2> DEFINE row == Expired(RowOf(c))
  <2>1. RowOK(RowOf(c)) /\ RowOf(c).status = "Proposed" /\ RowOf(c).key = None
    BY <1>0, <1>1, CallTypes DEF IsDue, RowOK
  <2>2. RowOK(row) /\ row.status = "Expired"
    BY <2>1, ExpiredOK
  <2>3. SetRow(c, row)
    BY <1>1 DEF Expire
  <2> HIDE DEF row
  <2>4. CallOK(IdleCall)' /\ IdleCall.pc \notin Running
    BY <1>0, IdleOK DEF CallOK, Running
  <2>5. \A d \in Callers : calls[d].pc \in Running /\ calls[d].rec = calls[c].rec => d = c
    BY <1>0, <1>1, <2>1, NobodyRuns
  <2>6. calls' = [calls EXCEPT ![c] = IdleCall]
    BY <1>0 DEF Return
  <2> QED
    BY <1>0, <1>1, <2>1, <2>2, <2>3, <2>4, <2>5, <2>6, WriteRow
<1>2. CASE UNCHANGED rec
  BY <1>0, <1>2, ReturnStep, Budgets
<1> QED
  BY <1>1, <1>2 DEF Expire
(* claimDecision: the undecided row gets its key and its decision.         *)
ClaimedRow(old, s, k) == [old EXCEPT !.status = s, !.key = k]

LEMMA ClaimedOK ==
  ASSUME NEW old, RowOK(old), old.status = "Proposed", NEW k \in Keys,
         NEW s \in {"Confirmed", "Rejected"}
  PROVE  /\ RowOK(ClaimedRow(old, s, k)) /\ ClaimedRow(old, s, k).status = s
         /\ ClaimedRow(old, s, k).key = k
<1> PICK row : row = ClaimedRow(old, s, k)
  OBVIOUS
<1>1. old \in Row /\ old.attempts = 0 /\ old.execution = <<>> /\ k # None
  BY ConstantsAssumption DEF RowOK
<1>2. /\ row \in Row /\ row.status = s /\ row.key = k
      /\ row.attempts = 0 /\ row.execution = <<>>
  <2>1. row = [status |-> s, key |-> k, attempts |-> 0, execution |-> <<>>]
    BY <1>1 DEF ClaimedRow, Row
  <2> QED
    BY <2>1, ConstantsAssumption DEF Row, RecStatus
<1> QED
  BY <1>1, <1>2 DEF RowOK

LEMMA ClaimOK == ASSUME IInv, NEW c \in Callers, Claim(c) PROVE IInv'
<1>0. /\ calls[c].pc # "idle"
      /\ UNCHANGED <<fresh, due, applies, obj, log, clearing, budgets>>
      /\ calls[c] \in Call /\ calls[c].key \in Keys /\ calls[c].rec \in Recs
      /\ calls[c].rec \notin fresh
  BY CallTypes DEF Claim
<1>1. CASE /\ Claimable(c)
           /\ SetRow(c, [RowOf(c) EXCEPT !.status = ClaimedStatus(calls[c]),
                                         !.key = calls[c].key])
           /\ Goto(c, "begin") \/ Return(c)
  <2> PICK s : s = ClaimedStatus(calls[c])
    OBVIOUS
  <2> PICK k : k = calls[c].key
    OBVIOUS
  <2> PICK old : old = RowOf(c)
    OBVIOUS
  <2> PICK row : row = ClaimedRow(old, s, k)
    OBVIOUS
  <2>1. /\ RowOf(c) # None /\ RowOK(RowOf(c)) /\ RowOf(c).status = "Proposed"
        /\ RowOf(c).key = None
    BY <1>0, <1>1, CallTypes DEF Claimable
  <2>2. s \in {"Confirmed", "Rejected"} /\ k \in Keys
    BY <1>0 DEF ClaimedStatus
  <2>3. RowOK(row) /\ row.status = s /\ row.key = k
    <3>1. RowOK(old) /\ old.status = "Proposed"
      BY <2>1
    <3> QED
      BY <2>2, <3>1, ClaimedOK
  <2>4. SetRow(c, row)
    BY <1>1 DEF ClaimedRow
  <2>5. PICK x : /\ calls' = [calls EXCEPT ![c] = x] /\ x \in Call
                 /\ x.pc \in {"begin", "idle"}
                 /\ x.pc = "begin" => x.rec = calls[c].rec /\ x.key = k
    <3>1. CASE Goto(c, "begin")
      <4>1. [calls[c] EXCEPT !.pc = "begin"] \in Call
            /\ [calls[c] EXCEPT !.pc = "begin"].pc = "begin"
            /\ [calls[c] EXCEPT !.pc = "begin"].rec = calls[c].rec
            /\ [calls[c] EXCEPT !.pc = "begin"].key = calls[c].key
        BY <1>0, GotoType DEF Places
      <4> QED
        BY <3>1, <4>1 DEF Goto
    <3>2. CASE Return(c)
      BY <3>2, IdleOK DEF Return, CallOK
    <3> QED
      BY <1>1, <3>1, <3>2
  <2>6. CallOK(x)' /\ x.pc \notin Running
    BY <1>0, <2>2, <2>5 DEF CallOK, Running
  <2>7. \A d \in Callers : calls[d].pc \in Running /\ calls[d].rec = calls[c].rec => d = c
    BY <1>0, <2>1, NobodyRuns
  <2> QED
    BY <1>0, <2>1, <2>2, <2>3, <2>4, <2>5, <2>6, <2>7, WriteRow
<1>2. CASE UNCHANGED rec /\ (Return(c) \/ Goto(c, "reread"))
  BY <1>0, <1>2, ReturnStep, GotoStep, Budgets
<1> QED
  BY <1>1, <1>2 DEF Claim

(* beginExecution: one attempt more, whose history is that of the others.  *)
BegunRow(old) == [old EXCEPT !.status = "Confirmed", !.attempts = @ + 1]

LEMMA BegunOK ==
  ASSUME NEW old, RowOK(old), NEW k \in Keys, MayBegin(old, k)
  PROVE  /\ RowOK(BegunRow(old)) /\ BegunRow(old).status = "Confirmed"
         /\ BegunRow(old).key = k /\ BegunRow(old).attempts > 0
<1> PICK row : row = BegunRow(old)
  OBVIOUS
<1>1. /\ old \in Row /\ old.key = k /\ k # None /\ old.attempts < ExecAttemptsMax
      /\ old.attempts \in 0 .. ExecAttemptsMax /\ ExecAttemptsMax \in Nat
      /\ Len(old.execution) = old.attempts /\ AllFailed(old.execution)
  <2>1. CASE Stalled(old)
    BY <2>1, RowFacts, ConstantsAssumption DEF RowOK, MayBegin, Stalled, AllFailed
  <2>2. CASE old.status = "ExecFailed"
    BY <2>2, RowFacts, ConstantsAssumption DEF RowOK, MayBegin
  <2> QED
    BY <2>1, <2>2 DEF MayBegin
<1>2. /\ row \in Row /\ row.status = "Confirmed" /\ row.key = k
      /\ row.attempts = old.attempts + 1 /\ row.execution = old.execution
  <2> PICK n : n = old.attempts + 1
    OBVIOUS
  <2>1. n \in 0 .. ExecAttemptsMax /\ "Confirmed" \in RecStatus
    BY <1>1 DEF RecStatus
  <2>2. row = [status |-> "Confirmed", key |-> k, attempts |-> n,
                execution |-> old.execution]
    BY <1>1 DEF BegunRow, Row
  <2>3. old.execution \in Seq(Outcomes)
    BY <1>1, RowFacts
  <2> QED
    BY <1>1, <2>1, <2>2, <2>3 DEF Row
<1> QED
  BY <1>1, <1>2 DEF RowOK

LEMMA BeginOK == ASSUME IInv, NEW c \in Callers, Begin(c) PROVE IInv'
<1>0. /\ calls[c].pc # "idle"
      /\ UNCHANGED <<fresh, due, applies, obj, log, clearing, budgets>>
      /\ calls[c] \in Call /\ calls[c].key \in Keys /\ calls[c].rec \in Recs
      /\ calls[c].rec \notin fresh
  BY CallTypes DEF Begin
<1>1. CASE RowOf(c) # None /\ MayBegin(RowOf(c), calls[c].key)
  <2> PICK k : k = calls[c].key
    OBVIOUS
  <2> PICK old : old = RowOf(c)
    OBVIOUS
  <2> PICK row : row = BegunRow(old)
    OBVIOUS
  <2> PICK x : x = [calls[c] EXCEPT !.pc = "load"]
    OBVIOUS
  <2>1. RowOK(RowOf(c)) /\ MayBegin(RowOf(c), k) /\ RowOf(c).key = k
    BY <1>0, <1>1, CallTypes DEF MayBegin
  <2>2. RowOK(row) /\ row.status = "Confirmed" /\ row.key = k /\ row.attempts > 0
    <3>1. RowOK(old) /\ MayBegin(old, k) /\ k \in Keys
      BY <1>0, <2>1
    <3> QED
      BY <3>1, BegunOK
  <2>3. SetRow(c, row) /\ calls' = [calls EXCEPT ![c] = x]
    BY <1>1 DEF Begin, Goto, BegunRow
  <2>4. x \in Call /\ x.pc = "load" /\ x.rec = calls[c].rec /\ x.key = k
    BY <1>0, GotoType DEF Places
  <2>5. rec'[calls[c].rec] = row
    BY <1>0, <2>3 DEF SetRow, IInv, TypeOK
  <2>6. CallOK(x)'
    <3>1. (x.pc # "idle" => x.rec \in Recs \ fresh /\ x.key \in Keys)'
      BY <1>0, <2>4
    <3>2. /\ rec'[x.rec].status = "Confirmed" /\ rec'[x.rec].attempts > 0
          /\ rec'[x.rec].key = x.key
      BY <2>2, <2>4, <2>5
    <3> QED
      BY <2>4, <3>1, <3>2 DEF CallOK
  <2>7. \A d \in Callers : calls[d].pc \in Running /\ calls[d].rec = calls[c].rec => d = c
    BY <1>0, <1>1, NobodyRuns DEF MayBegin, Stalled
  <2> QED
    BY <1>0, <1>1, <2>1, <2>2, <2>3, <2>4, <2>6, <2>7, WriteRow
<1>2. CASE UNCHANGED rec /\ Return(c)
  BY <1>0, <1>2, ReturnStep, Budgets
<1> QED
  BY <1>1, <1>2 DEF Begin

LEMMA LoadOK == ASSUME IInv, NEW c \in Callers, Load(c) PROVE IInv'
<1>0. /\ calls[c].pc = "load"
      /\ UNCHANGED <<rec, fresh, due, applies, obj, log, clearing, budgets>>
      /\ calls[c] \in Call /\ CallOK(calls[c])
      /\ calls[c].key \in Keys /\ calls[c].rec \in Recs
  BY CallTypes DEF Load
<1>1. CASE RowOf(c) = None
  BY <1>0, <1>1, ReturnStep, Budgets DEF Load
<1>2. CASE RowOf(c) # None
  <2> PICK x : x = [calls[c] EXCEPT !.pc = "send", !.attempt = RowOf(c).attempts,
                                    !.execution = RowOf(c).execution]
    OBVIOUS
  <2>1. RowOf(c) \in Row /\ RowOf(c) = rec[calls[c].rec]
    BY <1>0, <1>2, CallTypes DEF RowOf
  <2>2. /\ x \in Call /\ x.pc = "send" /\ x.rec = calls[c].rec /\ x.key = calls[c].key
        /\ x.attempt = RowOf(c).attempts /\ x.execution = RowOf(c).execution
    BY <1>0, <2>1, RowFacts DEF Call, Places
  <2>3. calls' = [calls EXCEPT ![c] = x]
    BY <1>2 DEF Load
  <2>4. CallOK(x)
    BY <1>0, <1>2, <2>1, <2>2 DEF CallOK, Running
  <2> QED
    BY <1>0, <2>2, <2>3, <2>4, JustCall, Budgets DEF Running
<1> QED
  BY <1>1, <1>2

LEMMA RpcFailsOK == ASSUME IInv, NEW c \in Callers, RpcFails(c) PROVE IInv'
<1> PICK x : x = [calls[c] EXCEPT !.pc = "finish", !.outcome = "Failed"]
  OBVIOUS
<1>0. /\ calls[c].pc = "wait" /\ calls[c] \in Call /\ CallOK(calls[c])
      /\ UNCHANGED <<rec, fresh, due, applies, obj, log, clearing, deaths, clears>>
      /\ lost' \in 0 .. MaxLost /\ calls' = [calls EXCEPT ![c] = x]
  <2>1. calls[c] \in Call /\ CallOK(calls[c])
    BY CallTypes
  <2>2. lost \in 0 .. MaxLost /\ MaxLost \in Nat
    BY ConstantsAssumption DEF IInv, TypeOK
  <2>3. lost' \in 0 .. MaxLost
    BY <2>2 DEF RpcFails
  <2> QED
    BY <2>1, <2>3 DEF RpcFails
<1>1. /\ x \in Call /\ x.pc = "finish" /\ x.outcome = "Failed" /\ x.rec = calls[c].rec
      /\ x.key = calls[c].key /\ x.attempt = calls[c].attempt
      /\ x.execution = calls[c].execution
  BY <1>0 DEF Call, Places, Outcomes
<1>2. CallOK(x)
  BY <1>0, <1>1 DEF CallOK, Running
<1>3. deaths' \in 0 .. MaxDeaths /\ clears' \in 0 .. MaxClears
  BY <1>0 DEF IInv, TypeOK
<1> QED
  BY <1>0, <1>1, <1>2, <1>3, JustCall DEF Running

LEMMA DieOK == ASSUME IInv, NEW c \in Callers, Die(c) PROVE IInv'
<1>1. lost' \in 0 .. MaxLost /\ deaths' \in 0 .. MaxDeaths /\ clears' \in 0 .. MaxClears
  BY ConstantsAssumption DEF Die, IInv, TypeOK
<1> QED
  BY <1>1, ReturnStep DEF Die

(* The applyAction request leaves: under the key of its call.              *)
LEMMA SendOK == ASSUME IInv, NEW c \in Callers, Send(c) PROVE IInv'
<1> PICK x : x = [calls[c] EXCEPT !.pc = "wait"]
  OBVIOUS
<1> PICK b : b = [rec |-> calls[c].rec, key |-> ActionKey(calls[c]),
                  attempt |-> calls[c].attempt, pc |-> "find", version |-> 0]
  OBVIOUS
<1> PICK r : r = calls[c].rec
  OBVIOUS
<1>0. /\ calls[c].pc = "send" /\ calls[c] \in Call /\ CallOK(calls[c])
      /\ calls[c].key \in Keys /\ r \in Recs /\ r \notin fresh
      /\ calls[c].attempt > 0
  BY CallTypes DEF Send, CallOK
<1>1. /\ UNCHANGED <<rec, fresh, due, obj, log, clearing, budgets>>
      /\ applies' = applies \cup {b} /\ calls' = [calls EXCEPT ![c] = x]
  BY DEF Send, Goto
<1>2. /\ x \in Call /\ x.pc = "wait" /\ x.rec = r /\ x.key = calls[c].key
      /\ x.attempt = calls[c].attempt /\ x.execution = calls[c].execution
      /\ x.outcome = calls[c].outcome
  BY <1>0, GotoType DEF Places
<1>3. b \in Apply /\ b.rec = r /\ b.key = <<calls[c].key, 0>>
  <2>1. calls[c].attempt \in 1 .. ExecAttemptsMax
    BY <1>0, CallFacts, ConstantsAssumption
  <2>2. /\ <<calls[c].key, 0>> \in Keys \X (0 .. ExecAttemptsMax)
        /\ 0 \in 0 .. MaxVersion
    BY <1>0, ConstantsAssumption
  <2> QED
    BY <1>0, <2>1, <2>2 DEF Apply, ActionKey
<1>4. calls \in [Callers -> Call]
  BY DEF IInv, TypeOK
<1>5. TypeOK'
  BY <1>1, <1>2, <1>3, <1>4 DEF IInv, TypeOK, budgets
<1>6. \A d \in Callers : calls'[d] = IF d = c THEN x ELSE calls[d]
  BY <1>1, <1>4
<1>7. RowInv' /\ LogInv'
  BY <1>1 DEF IInv, RowInv, RowOK, LogInv, AppliedOnce, ExecutedIsLogged, AllFailed
<1>8. CallInv'
  <2>1. CallOK(x)
    BY <1>0, <1>2 DEF CallOK, Running
  <2>2. \A d \in Callers : CallOK(calls'[d])
    BY <1>6, <2>1 DEF IInv, CallInv
  <2> QED
    BY <1>1, <2>2 DEF CallInv, CallOK
<1>9. RunInv'
  <2>1. \A d \in Callers : /\ calls'[d].pc \in Running => calls[d].pc \in Running
                           /\ calls'[d].rec = calls[d].rec
    BY <1>0, <1>2, <1>6 DEF Running
  <2> QED
    BY <2>1 DEF IInv, RunInv
<1>10. KeyInv'
  <2> SUFFICES ASSUME NEW q \in Recs PROVE \E k \in Keys \cup {None} : ActsUnder(q, k)'
    BY DEF KeyInv
  <2>1. PICK k \in Keys \cup {None} : ActsUnder(q, k)
    BY DEF IInv, KeyInv
  <2>2. q = r => calls[c].key = k
    BY <1>0, <2>1 DEF ActsUnder, Running
  <2>3. \A d \in Callers : calls'[d].pc \in Running /\ calls'[d].rec = q => calls'[d].key = k
    BY <1>2, <1>6, <2>1, <2>2 DEF ActsUnder
  <2>4. \A a \in applies' : a.rec = q => a.key = <<k, 0>>
    BY <1>1, <1>3, <2>1, <2>2 DEF ActsUnder
  <2>5. ActsUnder(q, k)'
    BY <1>1, <2>1, <2>3, <2>4 DEF ActsUnder
  <2> QED
    BY <2>5
<1>11. QuietInv'
  <2>1. rec[r] # None => rec[r].status = "Confirmed"
    BY <1>0 DEF CallOK, Running
  <2> QED
    BY <1>0, <1>1, <1>3, <2>1 DEF IInv, QuietInv, Quiet
<1> QED
  BY <1>5, <1>7, <1>8, <1>9, <1>10, <1>11 DEF IInv

(* finishExecution: the attempt's outcome ends the history.                *)
FinishedRow(old, o) ==
  [old EXCEPT !.status = FinalStatus(o), !.execution = Append(old.execution, o)]

LEMMA FinishedOK ==
  ASSUME NEW old, RowOK(old), old.status = "Confirmed", old.attempts > 0,
         NEW o \in Outcomes
  PROVE  /\ RowOK(FinishedRow(old, o)) /\ FinishedRow(old, o).status = FinalStatus(o)
         /\ FinishedRow(old, o).key = old.key
         /\ FinishedRow(old, o).status \in {"Executed", "ExecFailed"}
<1> PICK row : row = FinishedRow(old, o)
  OBVIOUS
<1> PICK s : s = Append(old.execution, o)
  OBVIOUS
<1> PICK t : t = FinalStatus(o)
  OBVIOUS
<1>1. /\ old \in Row /\ old.execution \in Seq(Outcomes) /\ AllFailed(old.execution)
      /\ Len(old.execution) = old.attempts - 1 /\ old.key # None
      /\ old.attempts \in Nat
  BY RowFacts, ConstantsAssumption DEF RowOK
<1>2. /\ s \in Seq(Outcomes) /\ Len(s) = old.attempts /\ s[old.attempts] = o
      /\ \A i \in 1 .. Len(s) : i # old.attempts => s[i] = "Failed"
  BY <1>1 DEF AllFailed
<1>3. t \in RecStatus /\ t \in {"Executed", "ExecFailed"} /\ (t = "Executed" <=> o = "Executed")
  BY DEF FinalStatus, RecStatus
<1>4. /\ row \in Row /\ row.status = t /\ row.key = old.key
      /\ row.attempts = old.attempts /\ row.execution = s
  <2>1. row = [status |-> t, key |-> old.key, attempts |-> old.attempts, execution |-> s]
    BY <1>1 DEF FinishedRow, Row
  <2>2. old.key \in Keys \cup {None} /\ old.attempts \in 0 .. ExecAttemptsMax
    BY <1>1, RowFacts
  <2> QED
    BY <1>2, <1>3, <2>1, <2>2 DEF Row
<1>5. row.status = "ExecFailed" => AllFailed(row.execution)
  BY <1>2, <1>3, <1>4 DEF AllFailed, Outcomes
<1>6. row.status = "Executed" =>
        \A i \in 1 .. Len(row.execution) : row.execution[i] = "Executed" <=> i = row.attempts
  BY <1>2, <1>3, <1>4
<1> QED
  BY <1>1, <1>2, <1>3, <1>4, <1>5, <1>6 DEF RowOK

LEMMA FinishOK == ASSUME IInv, NEW c \in Callers, Finish(c) PROVE IInv'
<1>0. /\ calls[c].pc = "finish" /\ Return(c) /\ CallOK(calls[c])
      /\ calls[c] \in Call /\ calls[c].rec \in Recs
      /\ UNCHANGED <<fresh, due, applies, obj, log, clearing, budgets>>
  BY CallTypes DEF Finish
<1>1. CASE RowOf(c) # None /\ RowOf(c).status = "Confirmed"
  <2> PICK old : old = RowOf(c)
    OBVIOUS
  <2> PICK o : o = calls[c].outcome
    OBVIOUS
  <2> PICK row : row = FinishedRow(old, o)
    OBVIOUS
  <2>1. /\ RowOK(old) /\ old = rec[calls[c].rec] /\ o \in Outcomes
        /\ old # None /\ old.status = "Confirmed"
    BY <1>0, <1>1, CallTypes, CallFacts DEF RowOf
  <2>2. old.attempts > 0 /\ old.key = calls[c].key /\ calls[c].execution = old.execution
    BY <1>0, <2>1 DEF CallOK, Running
  <2>3. /\ RowOK(row) /\ row.status = FinalStatus(o) /\ row.key = old.key
        /\ row.status \in {"Executed", "ExecFailed"}
    BY <2>1, <2>2, FinishedOK
  <2>4. SetRow(c, row)
    BY <1>1, <2>2 DEF Finish, FinishedRow
  <2>5. row.status = "Executed" => \E e \in log : e.key[1] = row.key
    <3>1. row.status = "Executed" => o = "Executed"
      BY <2>3 DEF FinalStatus
    <3>2. row.status = "Executed" => \E e \in log : e.key = ActionKey(calls[c])
      BY <1>0, <3>1 DEF CallOK
    <3> QED
      BY <2>2, <2>3, <3>2 DEF ActionKey
  <2>6. CallOK(IdleCall)' /\ IdleCall.pc \notin Running
    BY <1>0, IdleOK DEF CallOK, Running
  <2>7. \A d \in Callers : calls[d].pc \in Running /\ calls[d].rec = calls[c].rec => d = c
    BY <1>0 DEF IInv, RunInv, Running
  <2>8. calls' = [calls EXCEPT ![c] = IdleCall]
    BY <1>0 DEF Return
  <2>9. /\ calls[c].pc # "idle" /\ RowOf(c) # None
        /\ RowOf(c).key # None => row.key = RowOf(c).key
        /\ row.status \notin {"Proposed", "Expired", "Rejected"}
    BY <1>0, <1>1, <2>3
  <2> QED
    BY <1>0, <2>3, <2>4, <2>5, <2>6, <2>7, <2>8, <2>9, WriteRow
<1>2. CASE UNCHANGED rec
  BY <1>0, <1>2, ReturnStep, Budgets
<1> QED
  BY <1>1, <1>2 DEF Finish

-----------------------------------------------------------------------------
(* The steps of everybody else.                                            *)

(* A step that changes no row, no call, no request and no log entry.       *)
LEMMA ElsewhereStep ==
  ASSUME IInv, TypeOK', UNCHANGED <<rec, fresh, calls, applies, log>>
  PROVE  IInv'
<1>1. RowInv' /\ QuietInv' /\ LogInv' /\ RunInv'
  BY DEF IInv, RowInv, RowOK, QuietInv, Quiet, LogInv, AppliedOnce, ExecutedIsLogged,
         RunInv, AllFailed
<1>2. CallInv'
  BY DEF IInv, CallInv, CallOK
<1>3. KeyInv'
  BY DEF IInv, KeyInv, ActsUnder
<1> QED
  BY <1>1, <1>2, <1>3 DEF IInv

LEMMA NewRowOK == RowOK(NewRow) /\ NewRow.status = "Proposed" /\ NewRow.key = None
<1>1. /\ NewRow \in Row /\ NewRow.status = "Proposed" /\ NewRow.key = None
      /\ NewRow.attempts = 0 /\ NewRow.execution = <<>>
  BY ConstantsAssumption DEF NewRow, Row, RecStatus
<1> HIDE DEF NewRow
<1> QED
  BY <1>1 DEF RowOK

(* A proposal is stored under an id nobody has used.                       *)
LEMMA GenerateOK == ASSUME IInv, NEW r \in Recs, Generate(r) PROVE IInv'
<1> PICK row : row = NewRow
  OBVIOUS
<1>0. RowOK(row) /\ row # None /\ row.status = "Proposed" /\ row.key = None
  BY NewRowOK, RowFacts DEF RowOK
<1>1. /\ r \in fresh /\ fresh' = fresh \ {r} /\ rec' = [rec EXCEPT ![r] = row]
      /\ UNCHANGED <<due, calls, applies, obj, log, clearing, budgets>>
  BY DEF Generate
<1>2. /\ rec \in [Recs -> Row \cup {None}] /\ rec[r] = None /\ Quiet(r)
  BY <1>1 DEF IInv, TypeOK, QuietInv
<1>3. \A q \in Recs : rec'[q] = IF q = r THEN row ELSE rec[q]
  BY <1>1, <1>2
<1>4. TypeOK'
  BY <1>0, <1>1 DEF IInv, TypeOK, RowOK, budgets
<1>5. RowInv'
  <2>1. \A q \in Recs : rec'[q] # None => RowOK(rec'[q])
    BY <1>0, <1>3 DEF IInv, RowInv
  <2> QED
    BY <2>1 DEF RowInv, RowOK, AllFailed
<1>6. CallInv'
  <2> SUFFICES ASSUME NEW c \in Callers PROVE CallOK(calls[c])'
    BY DEF CallInv
  <2>1. CallOK(calls[c]) /\ calls'[c] = calls[c]
    BY <1>1 DEF IInv, CallInv
  <2>2. calls[c].pc # "idle" => /\ calls[c].rec \in Recs \ fresh'
                                /\ rec'[calls[c].rec] = rec[calls[c].rec]
    BY <1>1, <1>3, <2>1 DEF CallOK
  <2> QED
    BY <1>1, <2>1, <2>2 DEF CallOK, Running
<1>7. RunInv'
  BY <1>1 DEF IInv, RunInv
<1>8. KeyInv'
  <2> SUFFICES ASSUME NEW q \in Recs PROVE \E k \in Keys \cup {None} : ActsUnder(q, k)'
    BY DEF KeyInv
  <2>1. CASE q # r
    <3>1. PICK k \in Keys \cup {None} : ActsUnder(q, k)
      BY DEF IInv, KeyInv
    <3>2. ActsUnder(q, k)'
      BY <1>1, <1>3, <2>1, <3>1 DEF ActsUnder
    <3> QED
      BY <3>2
  <2>2. CASE q = r
    <3>1. \A c \in Callers : calls[c].pc \in Running => calls[c].rec # r
      BY <1>1 DEF IInv, CallInv, CallOK, Running
    <3>2. ActsUnder(q, None)'
      BY <1>0, <1>1, <1>2, <1>3, <2>2, <3>1 DEF ActsUnder, Quiet
    <3> QED
      BY <3>2
  <2> QED
    BY <2>1, <2>2
<1>9. QuietInv'
  BY <1>1, <1>2, <1>3 DEF IInv, QuietInv, Quiet
<1>10. LogInv'
  BY <1>0, <1>1, <1>3 DEF IInv, LogInv, AppliedOnce, ExecutedIsLogged
<1> QED
  BY <1>4, <1>5, <1>6, <1>7, <1>8, <1>9, <1>10 DEF IInv

(* The expiry is persisted by a read of the row.                           *)
LEMMA ExpireOnReadOK == ASSUME IInv, NEW r \in Recs, ExpireOnRead(r) PROVE IInv'
<1> PICK old : old = rec[r]
  OBVIOUS
<1> PICK row : row = Expired(old)
  OBVIOUS
<1>0. /\ old # None /\ RowOK(old) /\ old.status = "Proposed" /\ old.key = None
      /\ rec' = [rec EXCEPT ![r] = row]
      /\ UNCHANGED <<fresh, due, calls, applies, obj, log, clearing, budgets>>
  BY DEF ExpireOnRead, IInv, RowInv, RowOK
<1>1. RowOK(row) /\ row.status = "Expired" /\ row.key = None /\ row # None
  BY <1>0, ExpiredOK, RowFacts DEF RowOK
<1>2. \A q \in Recs : rec'[q] = IF q = r THEN row ELSE rec[q]
  BY <1>0 DEF IInv, TypeOK
<1>3. TypeOK'
  BY <1>0, <1>1 DEF IInv, TypeOK, RowOK, budgets
<1>4. RowInv'
  <2>1. \A q \in Recs : rec'[q] # None => RowOK(rec'[q])
    BY <1>1, <1>2 DEF IInv, RowInv
  <2> QED
    BY <2>1 DEF RowInv, RowOK, AllFailed
<1>5. CallInv'
  <2> SUFFICES ASSUME NEW c \in Callers PROVE CallOK(calls[c])'
    BY DEF CallInv
  <2>1. CallOK(calls[c]) /\ calls'[c] = calls[c]
    BY <1>0 DEF IInv, CallInv
  <2>2. calls[c].pc \in Running => /\ calls[c].rec # r /\ calls[c].rec \in Recs
                                   /\ rec'[calls[c].rec] = rec[calls[c].rec]
    BY <1>0, <1>2, <2>1 DEF CallOK, Running
  <2> QED
    BY <1>0, <2>1, <2>2 DEF CallOK, Running
<1>6. RunInv'
  BY <1>0 DEF IInv, RunInv
<1>7. KeyInv'
  <2> SUFFICES ASSUME NEW q \in Recs PROVE \E k \in Keys \cup {None} : ActsUnder(q, k)'
    BY DEF KeyInv
  <2>1. PICK k \in Keys \cup {None} : ActsUnder(q, k)
    BY DEF IInv, KeyInv
  <2>2. rec'[q] # None => rec[q] # None /\ rec'[q].key = rec[q].key
    BY <1>0, <1>1, <1>2
  <2>3. ActsUnder(q, k)'
    BY <1>0, <2>1, <2>2 DEF ActsUnder
  <2> QED
    BY <2>3
<1>8. QuietInv'
  BY <1>0, <1>1, <1>2 DEF IInv, QuietInv, Quiet
<1>9. LogInv'
  BY <1>0, <1>1, <1>2 DEF IInv, LogInv, AppliedOnce, ExecutedIsLogged
<1> QED
  BY <1>3, <1>4, <1>5, <1>6, <1>7, <1>8, <1>9 DEF IInv

(* "Clear workspace" takes every row that did not execute; the calls on    *)
(* them, their requests and the action log stay.                           *)
LEMMA ClearDecisionsOK == ASSUME IInv, ClearDecisions PROVE IInv'
<1>0. /\ clearing' = TRUE /\ clears' = clears + 1 /\ clears < MaxClears
      /\ UNCHANGED <<fresh, due, calls, applies, obj, log, lost, deaths>>
      /\ rec \in [Recs -> Row \cup {None}]
  BY DEF ClearDecisions, IInv, TypeOK
<1>1. \A q \in Recs : rec'[q] = IF Unexecuted(q) THEN None ELSE rec[q]
  BY DEF ClearDecisions
<1>2. \A q \in Recs : rec'[q] # None => rec'[q] = rec[q] /\ rec[q] # None
  BY <1>1
<1>3. TypeOK'
  <2>1. rec' \in [Recs -> Row \cup {None}]
    BY <1>0 DEF ClearDecisions
  <2>2. clears' \in 0 .. MaxClears
    BY <1>0, ConstantsAssumption DEF IInv, TypeOK
  <2> QED
    BY <1>0, <2>1, <2>2 DEF IInv, TypeOK
<1>4. RowInv'
  <2>1. \A q \in Recs : rec'[q] # None => RowOK(rec'[q])
    BY <1>2 DEF IInv, RowInv
  <2> QED
    BY <2>1 DEF RowInv, RowOK, AllFailed
<1>5. CallInv'
  <2> SUFFICES ASSUME NEW c \in Callers PROVE CallOK(calls[c])'
    BY DEF CallInv
  <2>1. CallOK(calls[c]) /\ calls'[c] = calls[c]
    BY <1>0 DEF IInv, CallInv
  <2>2. calls[c].pc # "idle" /\ rec'[calls[c].rec] # None =>
          rec'[calls[c].rec] = rec[calls[c].rec]
    BY <1>2, <2>1 DEF CallOK
  <2> QED
    BY <1>0, <2>1, <2>2 DEF CallOK, Running
<1>6. RunInv'
  BY <1>0 DEF IInv, RunInv
<1>7. KeyInv'
  <2> SUFFICES ASSUME NEW q \in Recs PROVE \E k \in Keys \cup {None} : ActsUnder(q, k)'
    BY DEF KeyInv
  <2>1. PICK k \in Keys \cup {None} : ActsUnder(q, k)
    BY DEF IInv, KeyInv
  <2>2. ActsUnder(q, k)'
    BY <1>0, <1>2, <2>1 DEF ActsUnder
  <2> QED
    BY <2>2
<1>8. QuietInv'
  BY <1>0, <1>1, <1>2 DEF IInv, QuietInv, Quiet
<1>9. LogInv'
  BY <1>0, <1>2 DEF IInv, LogInv, AppliedOnce, ExecutedIsLogged
<1> QED
  BY <1>3, <1>4, <1>5, <1>6, <1>7, <1>8, <1>9 DEF IInv

-----------------------------------------------------------------------------
(* The invariant, and what it says of the recommendations.                 *)

LEMMA InitOK == Init => IInv
<1> SUFFICES ASSUME Init PROVE IInv
  OBVIOUS
<1>1. TypeOK
  <2>1. 1 \in (1 .. MaxVersion) \cup {None} /\ 0 \in 0 .. MaxLost
        /\ 0 \in 0 .. MaxDeaths /\ 0 \in 0 .. MaxClears
    BY ConstantsAssumption
  <2>2. IdleCall \in Call
    BY IdleOK DEF CallOK
  <2> QED
    BY <2>1, <2>2 DEF Init, TypeOK
<1>2. RowInv /\ QuietInv
  BY DEF Init, RowInv, QuietInv, Quiet
<1>3. CallInv
  BY IdleOK DEF Init, CallInv
<1>4. \A c \in Callers : calls[c].pc \notin Running
  BY IdleOK DEF Init, Running
<1>5. RunInv
  BY <1>4 DEF RunInv
<1>6. \A r \in Recs : ActsUnder(r, None)
  BY <1>4 DEF Init, ActsUnder
<1>7. KeyInv
  BY <1>6 DEF KeyInv
<1>8. LogInv
  BY DEF Init, LogInv, AppliedOnce, ExecutedIsLogged
<1> QED
  BY <1>1, <1>2, <1>3, <1>5, <1>7, <1>8 DEF IInv

LEMMA NextOK == IInv /\ [Next]_vars => IInv'
<1> SUFFICES ASSUME IInv, [Next]_vars PROVE IInv'
  OBVIOUS
<1>1. ASSUME NEW r \in Recs, Generate(r) PROVE IInv'
  BY <1>1, GenerateOK
<1>2. ASSUME NEW r \in Recs, PassExpiry(r) PROVE IInv'
  <2>1. TypeOK'
    BY <1>2 DEF PassExpiry, IInv, TypeOK, budgets
  <2> QED
    BY <1>2, <2>1, ElsewhereStep DEF PassExpiry
<1>3. ASSUME NEW r \in Recs, ExpireOnRead(r) PROVE IInv'
  BY <1>3, ExpireOnReadOK
<1>4. ASSUME NEW c \in Callers, NEW r \in Recs, NEW k \in Keys, NEW d \in Decisions,
             Decide(c, r, k, d)
      PROVE  IInv'
  BY <1>4, DecideOK
<1>5. ASSUME NEW c \in Callers, CallStep(c) PROVE IInv'
  BY <1>5, ReadOK, ExpireOK, ClaimOK, RereadOK, BeginOK, LoadOK, SendOK, FinishOK DEF CallStep
<1>6. ASSUME NEW c \in Callers, RpcFails(c) \/ Die(c) PROVE IInv'
  BY <1>6, RpcFailsOK, DieOK
<1>7. ASSUME NEW a \in applies, ApplyStep(a) PROVE IInv'
  BY <1>7, ApplyStepOK
<1>8. ASSUME NEW t \in Targets, Touch(t) PROVE IInv'
  <2>1. obj[t] \in 1 .. MaxVersion - 1 /\ obj' = [obj EXCEPT ![t] = @ + 1]
    BY <1>8 DEF Touch
  <2>2. obj[t] + 1 \in 1 .. MaxVersion
    BY <2>1, ConstantsAssumption
  <2>3. TypeOK'
    BY <1>8, <2>1, <2>2 DEF Touch, IInv, TypeOK, budgets
  <2> QED
    BY <1>8, <2>3, ElsewhereStep DEF Touch
<1>9. ASSUME NEW t \in Targets, Import(t) PROVE IInv'
  <2>1. TypeOK'
    BY <1>9, ConstantsAssumption DEF Import, IInv, TypeOK, budgets
  <2> QED
    BY <1>9, <2>1, ElsewhereStep DEF Import
<1>10. CASE ClearDecisions
  BY <1>10, ClearDecisionsOK
<1>11. CASE ClearObjects
  <2>1. TypeOK'
    BY <1>11 DEF ClearObjects, IInv, TypeOK, budgets
  <2> QED
    BY <1>11, <2>1, ElsewhereStep DEF ClearObjects
<1>12. CASE ClearStops
  <2>1. TypeOK'
    BY <1>12 DEF ClearStops, IInv, TypeOK, budgets
  <2> QED
    BY <1>12, <2>1, ElsewhereStep DEF ClearStops
<1>13. CASE UNCHANGED vars
  <2>1. TypeOK'
    BY <1>13 DEF vars, IInv, TypeOK, budgets
  <2> QED
    BY <1>13, <2>1, ElsewhereStep DEF vars
<1> QED
  BY <1>1, <1>2, <1>3, <1>4, <1>5, <1>6, <1>7, <1>8, <1>9, <1>10, <1>11, <1>12, <1>13 DEF Next

(* The rows, the calls, the requests and the action log agree in every     *)
(* state (IInv).                                                           *)
THEOREM Invariant == Spec => []IInv
BY InitOK, NextOK, PTL DEF Spec

(* One recommendation, one action: no two calls execute it at once, and    *)
(* the action log has its action at most once (begin_execution and the     *)
(* unique key of og_action_log).                                           *)
THEOREM ActsOnceHolds == Spec => []ActsOnce
<1>1. IInv => ActsOnce
  BY DEF IInv, ActsOnce, OneExecution, Executing, RunInv, Running, LogInv
<1> QED
  BY <1>1, Invariant, PTL

(* A recommendation tells the truth about itself: one that is undecided,   *)
(* rejected or expired has changed nothing, an executed one has its entry  *)
(* in the action log, and the history has one entry for each attempt.      *)
THEOREM OutcomeIsTrue == Spec => []OutcomeTrue
<1> SUFFICES ASSUME IInv PROVE OutcomeTrue
  BY Invariant, PTL
<1>1. OnlyConfirmedActs
  BY DEF IInv, QuietInv, Quiet, OnlyConfirmedActs
<1>2. HistoryComplete
  <2> SUFFICES ASSUME NEW r \in Recs, rec[r] # None,
                      rec[r].status \in {"Executed", "ExecFailed"}
               PROVE  /\ Len(rec[r].execution) = rec[r].attempts
                      /\ \A i \in 1 .. Len(rec[r].execution) :
                           rec[r].execution[i] = "Executed"
                           <=> i = rec[r].attempts /\ rec[r].status = "Executed"
    BY DEF HistoryComplete
  <2>1. RowOK(rec[r])
    BY DEF IInv, RowInv
  <2>2. CASE rec[r].status = "Executed"
    BY <2>1, <2>2 DEF RowOK
  <2>3. CASE rec[r].status = "ExecFailed"
    BY <2>1, <2>3 DEF RowOK, AllFailed
  <2> QED
    BY <2>2, <2>3
<1> QED
  BY <1>1, <1>2 DEF OutcomeTrue, IInv, LogInv

-----------------------------------------------------------------------------
(* What a step may do to a row.                                            *)
Kept(old, new) ==
  /\ old.key # None => new.key = old.key
  /\ old.status \in {"Rejected", "Expired", "Executed"} => new = old
  /\ new.status = "Proposed" => old.status = "Proposed"

(* Only a proposal, and a confirmed or failed execution, is written.       *)
LEMMA WrittenIsKept ==
  ASSUME IInv, NEW c \in Callers, NEW row, SetRow(c, row),
         calls[c].pc # "idle", RowOf(c) # None, Kept(RowOf(c), row)
  PROVE  \A r \in Recs : rec[r] # None /\ rec'[r] # None => Kept(rec[r], rec'[r])
<1>1. rec \in [Recs -> Row \cup {None}] /\ calls[c].rec \in Recs
  BY CallTypes DEF IInv, TypeOK
<1>2. \A r \in Recs : rec'[r] = IF r = calls[c].rec THEN row ELSE rec[r]
  BY <1>1 DEF SetRow
<1>3. \A old : Kept(old, old)
  BY DEF Kept
<1> QED
  BY <1>1, <1>2, <1>3 DEF RowOf

LEMMA StepKeeps ==
  ASSUME IInv, [Next]_vars
  PROVE  \A r \in Recs : rec[r] # None /\ rec'[r] # None => Kept(rec[r], rec'[r])
<1> DEFINE Goal == \A r \in Recs : rec[r] # None /\ rec'[r] # None => Kept(rec[r], rec'[r])
<1>0. \A old : Kept(old, old)
  BY DEF Kept
<1>1. CASE UNCHANGED rec
  BY <1>0, <1>1
<1>2. ASSUME NEW r \in Recs, Generate(r) PROVE Goal
  <2>1. rec[r] = None /\ rec' = [rec EXCEPT ![r] = NewRow]
        /\ rec \in [Recs -> Row \cup {None}]
    BY <1>2 DEF Generate, IInv, QuietInv, TypeOK
  <2>2. \A q \in Recs : q # r => rec'[q] = rec[q]
    BY <2>1
  <2> QED
    BY <1>0, <2>1, <2>2
<1>3. ASSUME NEW r \in Recs, ExpireOnRead(r) PROVE Goal
  <2> PICK row : row = Expired(rec[r])
    OBVIOUS
  <2>1. /\ rec[r].status = "Proposed" /\ rec[r] # None /\ rec' = [rec EXCEPT ![r] = row]
        /\ rec \in [Recs -> Row \cup {None}] /\ RowOK(rec[r])
    BY <1>3 DEF ExpireOnRead, IInv, RowInv, TypeOK
  <2>2. row.status = "Expired" /\ rec[r].key = None
    BY <2>1, ExpiredOK DEF RowOK
  <2>3. \A q \in Recs : rec'[q] = IF q = r THEN row ELSE rec[q]
    BY <2>1
  <2>4. Kept(rec[r], row)
    BY <2>1, <2>2 DEF Kept
  <2> QED
    BY <1>0, <2>3, <2>4
<1>4. ASSUME NEW c \in Callers, Expire(c) PROVE Goal
  <2>1. CASE RowOf(c) # None /\ IsDue(RowOf(c), calls[c])
    <3> PICK old : old = RowOf(c)
      OBVIOUS
    <3> PICK row : row = Expired(old)
      OBVIOUS
    <3>1. calls[c].pc # "idle" /\ SetRow(c, row) /\ RowOK(old) /\ old.status = "Proposed"
      BY <1>4, <2>1, CallTypes DEF Expire, IsDue
    <3>2. row.status = "Expired" /\ old.key = None
      BY <3>1, ExpiredOK DEF RowOK
    <3>3. Kept(RowOf(c), row)
      BY <3>1, <3>2 DEF Kept
    <3> QED
      BY <2>1, <3>1, <3>3, WrittenIsKept
  <2>2. CASE UNCHANGED rec
    BY <1>1, <2>2
  <2> QED
    BY <1>4, <2>1, <2>2 DEF Expire
<1>5. ASSUME NEW c \in Callers, Claim(c) PROVE Goal
  <2>1. CASE /\ Claimable(c)
             /\ SetRow(c, [RowOf(c) EXCEPT !.status = ClaimedStatus(calls[c]),
                                           !.key = calls[c].key])
    <3> PICK old : old = RowOf(c)
      OBVIOUS
    <3> PICK s : s = ClaimedStatus(calls[c])
      OBVIOUS
    <3> PICK k : k = calls[c].key
      OBVIOUS
    <3> PICK row : row = ClaimedRow(old, s, k)
      OBVIOUS
    <3>1. /\ calls[c].pc # "idle" /\ SetRow(c, row) /\ RowOK(old) /\ RowOf(c) # None
          /\ old.status = "Proposed" /\ old.key = None
      BY <1>5, <2>1, CallTypes DEF Claim, Claimable, ClaimedRow
    <3>2. s \in {"Confirmed", "Rejected"} /\ k \in Keys
      BY <3>1, CallTypes DEF ClaimedStatus
    <3>3. row.status # "Proposed"
      BY <3>1, <3>2, ClaimedOK
    <3>4. Kept(RowOf(c), row)
      BY <3>1, <3>3 DEF Kept
    <3> QED
      BY <3>1, <3>4, WrittenIsKept
  <2>2. CASE UNCHANGED rec
    BY <1>1, <2>2
  <2> QED
    BY <1>5, <2>1, <2>2 DEF Claim
<1>6. ASSUME NEW c \in Callers, Begin(c) PROVE Goal
  <2>1. CASE RowOf(c) # None /\ MayBegin(RowOf(c), calls[c].key)
    <3> PICK old : old = RowOf(c)
      OBVIOUS
    <3> PICK k : k = calls[c].key
      OBVIOUS
    <3> PICK row : row = BegunRow(old)
      OBVIOUS
    <3>1. /\ calls[c].pc # "idle" /\ SetRow(c, row) /\ RowOK(old) /\ k \in Keys
          /\ MayBegin(old, k)
      BY <1>6, <2>1, CallTypes DEF Begin, BegunRow
    <3>2. row.status = "Confirmed" /\ row.key = k /\ old.key = k
          /\ old.status \in {"Confirmed", "ExecFailed"}
      BY <3>1, BegunOK DEF MayBegin, Stalled
    <3>3. Kept(RowOf(c), row)
      BY <3>2 DEF Kept
    <3> QED
      BY <2>1, <3>1, <3>3, WrittenIsKept
  <2>2. CASE UNCHANGED rec
    BY <1>1, <2>2
  <2> QED
    BY <1>6, <2>1, <2>2 DEF Begin
<1>7. ASSUME NEW c \in Callers, Finish(c) PROVE Goal
  <2>1. CASE RowOf(c) # None /\ RowOf(c).status = "Confirmed"
    <3> PICK old : old = RowOf(c)
      OBVIOUS
    <3> PICK o : o = calls[c].outcome
      OBVIOUS
    <3> PICK row : row = FinishedRow(old, o)
      OBVIOUS
    <3>1. /\ calls[c].pc = "finish" /\ RowOK(old) /\ o \in Outcomes
          /\ CallOK(calls[c]) /\ old = rec[calls[c].rec]
      BY <1>7, <2>1, CallTypes, CallFacts DEF Finish, RowOf
    <3>2. old.attempts > 0 /\ calls[c].execution = old.execution
      BY <2>1, <3>1 DEF CallOK, Running
    <3>3. SetRow(c, row)
      BY <1>7, <2>1, <3>2 DEF Finish, FinishedRow
    <3>4. row.key = old.key /\ row.status \in {"Executed", "ExecFailed"}
      BY <2>1, <3>1, <3>2, FinishedOK
    <3>5. Kept(RowOf(c), row)
      BY <2>1, <3>4 DEF Kept
    <3> QED
      BY <2>1, <3>1, <3>3, <3>5, WrittenIsKept
  <2>2. CASE UNCHANGED rec
    BY <1>1, <2>2
  <2> QED
    BY <1>7, <2>1, <2>2 DEF Finish
<1>8. ASSUME ClearDecisions PROVE Goal
  BY <1>0, <1>8 DEF ClearDecisions
<1>9. ASSUME NEW c \in Callers,
             Read(c) \/ Reread(c) \/ Load(c) \/ Send(c) \/ RpcFails(c) \/ Die(c)
      PROVE  UNCHANGED rec
  BY <1>9 DEF Read, Reread, Load, Send, RpcFails, Die
<1>10. ASSUME NEW a \in applies, ApplyStep(a) PROVE UNCHANGED rec
  BY <1>10 DEF ApplyStep, FindByKey, ReadTarget, Refuse, CommitAction, ReplayAgain
<1>11. ASSUME NEW r \in Recs, PassExpiry(r) PROVE UNCHANGED rec
  BY <1>11 DEF PassExpiry
<1>12. ASSUME NEW c \in Callers, NEW r \in Recs, NEW k \in Keys, NEW d \in Decisions,
              Decide(c, r, k, d)
       PROVE  UNCHANGED rec
  BY <1>12 DEF Decide
<1>13. ASSUME NEW t \in Targets, Touch(t) \/ Import(t) PROVE UNCHANGED rec
  BY <1>13 DEF Touch, Import
<1>14. ClearObjects \/ ClearStops \/ UNCHANGED vars => UNCHANGED rec
  BY DEF ClearObjects, ClearStops, vars
<1> HIDE DEF Goal
<1>15. UNCHANGED rec => Goal
  BY <1>1 DEF Goal
<1>16. Goal
  <2>1. CASE \E r \in Recs : Generate(r) \/ PassExpiry(r) \/ ExpireOnRead(r)
    BY <1>2, <1>3, <1>11, <1>15, <2>1
  <2>2. CASE \E c \in Callers, r \in Recs, k \in Keys, d \in Decisions : Decide(c, r, k, d)
    BY <1>12, <1>15, <2>2
  <2>3. CASE \E c \in Callers : CallStep(c) \/ RpcFails(c) \/ Die(c)
    BY <1>4, <1>5, <1>6, <1>7, <1>9, <1>15, <2>3 DEF CallStep
  <2>4. CASE \E a \in applies : ApplyStep(a)
    BY <1>10, <1>15, <2>4
  <2>5. CASE \E t \in Targets : Touch(t) \/ Import(t)
    BY <1>13, <1>15, <2>5
  <2>6. CASE ClearDecisions \/ ClearObjects \/ ClearStops \/ UNCHANGED vars
    BY <1>8, <1>14, <1>15, <2>6
  <2> QED
    BY <2>1, <2>2, <2>3, <2>4, <2>5, <2>6 DEF Next
<1> QED
  BY <1>16 DEF Goal

(* A decision is final: whatever retries, expiry and late answers do, no   *)
(* step gives a decided recommendation another key, makes it a proposal    *)
(* again, or moves one that is rejected, expired or executed.              *)
THEOREM DecisionsAreFinal == Spec => DecisionFinal
<1>1. IInv /\ [Next]_vars =>
        [\A r \in Recs :
           rec[r] # None /\ rec'[r] # None =>
             /\ rec[r].key # None => rec'[r].key = rec[r].key
             /\ rec[r].status \in {"Rejected", "Expired", "Executed"} => rec'[r] = rec[r]
             /\ rec'[r].status = "Proposed" => rec[r].status = "Proposed"]_vars
  BY StepKeeps DEF Kept
<1> QED
  BY <1>1, Invariant, PTL DEF Spec, DecisionFinal
=============================================================================

--------------------------- MODULE TrialLifecycle ---------------------------
(***************************************************************************)
(* What the archive saga promises the owner of a trial, without ticks,     *)
(* ledgers, services or a bucket: data is kept until the owner was         *)
(* notified, the account closes only when nothing of it is left, and what  *)
(* is closed stays closed.  ArchiveSaga implements it.                     *)
(***************************************************************************)
CONSTANTS
  Tenants,   \* trial workspaces
  Legacy,    \* those an older version notified
  Row        \* rows a workspace may hold

VARIABLES
  stage,     \* "kept" until notified, then "noticed", "closed" at the end
  data,      \* rows held for the workspace
  access     \* workspaces somebody is signed in to

vars == <<stage, data, access>>

Init ==
  /\ stage = [t \in Tenants |-> IF t \in Legacy THEN "noticed" ELSE "kept"]
  /\ data \in [Tenants -> SUBSET Row]
  /\ access = Tenants \ Legacy

Store(t, r) ==
  /\ stage[t] # "closed"
  /\ data' = [data EXCEPT ![t] = @ \cup {r}]
  /\ UNCHANGED <<stage, access>>

SignIn(t) ==
  /\ stage[t] # "closed"
  /\ access' = access \cup {t}
  /\ UNCHANGED <<stage, data>>

SignOut(t) ==
  /\ access' = access \ {t}
  /\ UNCHANGED <<stage, data>>

(* The mail was sent, or the notice period is over (for several at once).  *)
Notice(S) ==
  /\ stage' = [t \in Tenants |->
       IF t \in S /\ stage[t] = "kept" THEN "noticed" ELSE stage[t]]
  /\ UNCHANGED <<data, access>>

Destroy(t, batch) ==
  /\ stage[t] = "noticed"
  /\ data' = [data EXCEPT ![t] = @ \ batch]
  /\ UNCHANGED <<stage, access>>

Close(t) ==
  /\ stage[t] = "noticed" /\ data[t] = {}
  /\ stage' = [stage EXCEPT ![t] = "closed"]
  /\ access' = access \ {t}
  /\ UNCHANGED data

Next ==
  \/ \E t \in Tenants : \/ \E r \in Row : Store(t, r)
                        \/ SignIn(t) \/ SignOut(t) \/ Close(t)
                        \/ \E batch \in SUBSET data[t] : Destroy(t, batch)
  \/ \E S \in SUBSET Tenants : Notice(S)

Spec == Init /\ [][Next]_vars
=============================================================================

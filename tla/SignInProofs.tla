---------------------------- MODULE SignInProofs ----------------------------
(***************************************************************************)
(* Theorems about signing in, for every number of addresses, requests and  *)
(* tabs, every workload and every value of the limits.                     *)
(***************************************************************************)
EXTENDS SignIn, FiniteSetTheorems, TLAPS

(* What a request is, at each of its steps.                                *)
Session == [id : Nat, email : Emails, token : Nat, exp : Nat]
Tabless == Tabs \cup {None}

Sending == [op : {"send"}, pc : {"take", "put"}, email : Emails, purpose : Purposes,
            at : 0 .. MaxTime, deliver : BOOLEAN]
Checking == [op : Purposes, email : Emails, tab : Tabs, at : 0 .. MaxTime,
             seen : BOOLEAN, usable : BOOLEAN, attempts : Nat,
             pc : {"fail", "verified", "bump", "workspace", "end"}]
Failed == [op : Purposes, pc : {"drop", "lock"}, email : Emails, at : 0 .. MaxTime,
           drop : BOOLEAN, lock : BOOLEAN]
Issuing == [op : {"signup", "login"}, pc : {"issue"}, email : Emails, tab : Tabs,
            end : Nat]
Finding == [op : {"refresh"}, pc : {"find", "replay"}, tab : Tabless, token : Nat,
            at : 0 .. MaxTime]
Reading == [op : {"refresh"}, pc : {"account", "workspace"}, tab : Tabless,
            at : 0 .. MaxTime, s : Session]
Rotating == [op : {"refresh"}, pc : {"rotate", "revoke"}, tab : Tabless, s : Session,
             exp : Nat]
Answering == [op : {"login", "refresh", "logout"}, pc : {"answer"}, tab : Tabless,
              sid : Nat, cookie : Nat]

Requests == {NoRequest} \cup Sending \cup Checking \cup Failed \cup Issuing
            \cup Finding \cup Reading \cup Rotating \cup Answering

(* A request holds secrets that were made, of accounts that exist.         *)
Opened(e) == account[e] # None

Holds(r) ==
  /\ r \in Checking /\ (r.op = "terminate" \/ r.pc = "workspace") => Opened(r.email)
  /\ r \in Checking /\ r.pc = "bump" => r.seen
  /\ r \in Issuing => Opened(r.email)
  /\ r \in Finding => r.token < fresh
  /\ r \in Reading \cup Rotating =>
       r.s.id < fresh /\ r.s.token < fresh /\ Opened(r.s.email)
  /\ r \in Answering => r.sid < fresh /\ r.cookie < fresh

ReqInv == /\ req = [q \in Reqs |-> req[q]]
          /\ \A q \in Reqs : req[q] \in Requests /\ Holds(req[q])

BaseInv ==
  /\ now \in 0 .. MaxTime /\ fresh \in Nat \ {0} /\ open \in BOOLEAN /\ lost \in BOOLEAN
  /\ left \in Workload

CodeInv ==
  /\ limit \in [Emails -> [Days -> [sends : 0 .. MaxSends, failures : Nat, until : Nat]]]
  /\ pending \in [Emails -> [Purposes -> {None} \cup Code]]
  /\ \A e \in Emails, p \in Purposes :
       pending[e][p] # None => pending[e][p].code \in 1 .. (fresh - 1)
  /\ mailed \subseteq [email : Emails, purpose : Purposes, code : 1 .. (fresh - 1)]

PeopleInv ==
  /\ account \in [Emails -> {None, "ok", "banned"}]
  /\ workspace \in [Emails -> {None} \cup Workspace]
  /\ usage \in [Days -> [signup : 0 .. DailyLimit, ip : 0 .. IpLimit]]
  /\ revoking \in [Emails -> Nat]
  /\ SlotsCounted

BrowserInv ==
  /\ jar \in 0 .. (fresh - 1)
  /\ tab \in [Tabs -> [st : {"idle", "waiting", "sent"}, sid : 0 .. (fresh - 1)]]
  /\ webLock \in Tabs \cup {None}

(* Sessions differ in id and token; what was exchanged or revoked is gone. *)
SessionInv ==
  /\ session \subseteq Session /\ IsFiniteSet(session)
  /\ \A s \in session : s.id \in 1 .. (fresh - 1) /\ s.token \in 1 .. (fresh - 1)
                        /\ Opened(s.email)
  /\ \A s, o \in session : s.id = o.id \/ s.token = o.token => s = o
  /\ rotated \subseteq [token : 1 .. (fresh - 1), family : 1 .. (fresh - 1), exp : Nat]
  /\ revoked \subseteq 1 .. (fresh - 1)
  /\ \A x \in exchanged : x = <<x[1], x[2]>> /\ x[1] \in 1 .. (fresh - 1)
  /\ \A s \in session, x \in exchanged : s.token # x[1]
  /\ TokensSpent

(* A family has one owner, and a refresh that was let through is let       *)
(* through still, or its sessions are about to be deleted.                 *)
Alive(s) == \E o \in session : o.id = s.id

LetThrough(r) ==
  /\ r \in Reading \cup Rotating =>
       /\ r.s.id > 0
       /\ \A o \in session : o.id = r.s.id => o.email = r.s.email
  /\ r \in Reading /\ r.pc = "workspace" /\ Alive(r.s) =>
       revoking[r.s.email] > 0 \/ account[r.s.email] = "ok"
  /\ r \in Rotating /\ r.pc = "rotate" /\ Alive(r.s) =>
       \/ revoking[r.s.email] > 0
       \/ account[r.s.email] = "ok" /\ workspace[r.s.email].status = "ACTIVE"

RefreshInv == \A q \in Reqs : LetThrough(req[q])

(* Used-up failures are locked, or a request is about to lock them.        *)
Locks(r, e, d) == r \in Failed /\ r.lock /\ r.email = e /\ Day(r.at) = d

LockInv ==
  \A e \in Emails, d \in Days :
    limit[e][d].failures >= MaxFailures =>
      limit[e][d].until > 0 \/ \E q \in Reqs : Locks(req[q], e, d)

(* A used-up code is gone, or a request is about to drop it.               *)
Drops(r, e, p) ==
  \/ /\ r \in Checking /\ r.pc = "fail" /\ r.seen /\ r.attempts >= MaxAttempts
     /\ r.email = e /\ r.op = p
  \/ r \in Failed /\ r.pc = "drop" /\ r.drop /\ r.email = e /\ r.op = p

DropInv ==
  \A e \in Emails, p \in Purposes :
    pending[e][p] # None /\ pending[e][p].attempts >= MaxAttempts =>
      \E q \in Reqs : Drops(req[q], e, p)

IInv == /\ BaseInv /\ ReqInv /\ CodeInv /\ PeopleInv /\ BrowserInv /\ SessionInv
        /\ RefreshInv /\ LockInv /\ DropInv
-----------------------------------------------------------------------------
(* Numbers and counting.                                                   *)

LEMMA DayFacts == \A t \in 0 .. MaxTime : Day(t) \in Days
<1> SUFFICES ASSUME NEW t \in 0 .. MaxTime PROVE t \div DayLength \in 0 .. (MaxTime \div DayLength)
  BY DEF Day, Days
<1>1. MaxTime \in Nat /\ DayLength \in Nat /\ DayLength > 0
  BY SignInAssumption
<1> QED
  BY <1>1

LEMMA MinFacts == \A m, n \in Nat : Min({m, n}) \in {m, n} /\ Min({m, n}) \in Nat
<1> SUFFICES ASSUME NEW m \in Nat, NEW n \in Nat
             PROVE  Min({m, n}) \in {m, n}
  OBVIOUS
<1>1. \E k \in {m, n} : \A l \in {m, n} : k <= l
  <2>1. CASE m <= n
    BY <2>1
  <2>2. CASE n <= m
    BY <2>2
  <2> QED
    BY <2>1, <2>2
<1> QED
  BY <1>1 DEF Min

(* Of elements with different numbers, the newest n are n at most.         *)
LEMMA NewestFew ==
  ASSUME NEW S, IsFiniteSet(S), NEW n \in Nat, \A s \in S : s.id \in Nat,
         \A s, o \in S : s.id = o.id => s = o
  PROVE  Cardinality(Newest(S, n)) <= n
<1> DEFINE After(s) == {o \in S : o.id > s.id}
<1> PICK new : new = Newest(S, n)
  OBVIOUS
<1>1. new \subseteq S /\ \A s \in new : Cardinality(After(s)) < n
  BY DEF Newest
<1>2. \A s \in S : IsFiniteSet(After(s)) /\ Cardinality(After(s)) \in Nat
  <2> TAKE s \in S
  <2>1. After(s) \in SUBSET S
    OBVIOUS
  <2>2. IsFiniteSet(After(s))
    BY <2>1, FS_Subset
  <2> QED
    BY <2>2, FS_CardinalityType
<1>3. \A s, t \in S : s.id < t.id => Cardinality(After(s)) # Cardinality(After(t))
  <2> SUFFICES ASSUME NEW s \in S, NEW t \in S, s.id < t.id,
                      Cardinality(After(s)) = Cardinality(After(t))
               PROVE  FALSE
    OBVIOUS
  <2>1. \A o \in S : o.id > t.id => o.id > s.id
    OBVIOUS
  <2>2. After(t) \in SUBSET After(s)
    BY <2>1
  <2>3. After(t) = After(s)
    BY <1>2, <2>2, FS_Subset
  <2>4. t \in After(s) /\ t \notin After(t)
    OBVIOUS
  <2> QED
    BY <2>3, <2>4
<1> PICK f : f = [s \in new |-> Cardinality(After(s)) + 1]
  OBVIOUS
<1>4. \A s \in new : f[s] = Cardinality(After(s)) + 1 /\ Cardinality(After(s)) \in Nat
                     /\ f[s] \in 1 .. n
  <2> TAKE s \in new
  <2>1. Cardinality(After(s)) \in Nat /\ Cardinality(After(s)) < n
    BY <1>1, <1>2
  <2> HIDE DEF After
  <2> QED
    BY <2>1
<1>5. \A s, t \in new : f[s] = f[t] => s = t
  <2> SUFFICES ASSUME NEW s \in new, NEW t \in new, f[s] = f[t] PROVE s = t
    OBVIOUS
  <2>1. Cardinality(After(s)) = Cardinality(After(t))
    <3> HIDE DEF After
    <3> QED
      BY <1>4
  <2>2. s \in S /\ t \in S /\ s.id \in Nat /\ t.id \in Nat
    BY <1>1
  <2>3. ~(s.id < t.id) /\ ~(t.id < s.id)
    <3> HIDE DEF After
    <3> QED
      BY <1>3, <2>1, <2>2
  <2> QED
    BY <2>2, <2>3
<1>6. f \in Injection(new, 1 .. n)
  <2> HIDE DEF After
  <2> QED
    BY <1>4, <1>5 DEF Injection, IsInjective
<1>7. IsFiniteSet(1 .. n) /\ Cardinality(1 .. n) = n
  BY FS_Interval
<1> QED
  BY <1>6, <1>7, FS_Injection

-----------------------------------------------------------------------------
(* Requests.                                                               *)

LEMMA NoRequestFacts ==
  /\ NoRequest \in Requests
  /\ NoRequest \notin Checking /\ NoRequest \notin Failed /\ NoRequest \notin Issuing
  /\ NoRequest \notin Finding /\ NoRequest \notin Reading /\ NoRequest \notin Rotating
  /\ NoRequest \notin Answering /\ NoRequest \notin Sending
<1>1. NoRequest.op = "none"
  BY DEF NoRequest
<1>2. NoRequest \in Requests
  BY DEF Requests
<1> HIDE DEF NoRequest
<1> QED
  BY <1>1, <1>2 DEF Checking, Failed, Issuing, Finding, Reading, Rotating, Answering,
                    Sending, Purposes

(* The step a request is at tells what it is.                              *)
LEMMA Steps ==
  ASSUME NEW r \in Requests
  PROVE  /\ r.op = "send" => r \in Sending
         /\ r.op \in Purposes /\ r.pc \in {"fail", "verified", "bump", "workspace", "end"}
              => r \in Checking
         /\ r.op \in Purposes /\ r.pc \in {"drop", "lock"} => r \in Failed
         /\ r.op \in {"signup", "login"} /\ r.pc = "issue" => r \in Issuing
         /\ r.op = "refresh" /\ r.pc \in {"find", "replay"} => r \in Finding
         /\ r.op = "refresh" /\ r.pc \in {"account", "workspace"} => r \in Reading
         /\ r.op = "refresh" /\ r.pc \in {"rotate", "revoke"} => r \in Rotating
         /\ r # NoRequest /\ r.pc = "answer" => r \in Answering
         /\ r.op = "refresh" => r \in Finding \cup Reading \cup Rotating \cup Answering
<1>1. NoRequest.op = "none"
  BY DEF NoRequest
<1> HIDE DEF NoRequest
<1> QED
  BY <1>1 DEF Requests, Checking, Failed, Issuing, Finding, Reading, Rotating, Answering,
              Sending, Purposes

(* ... and that it is nothing else.                                        *)
LEMMA OnlyOne ==
  ASSUME NEW r
  PROVE  /\ r \in Sending => r \notin Checking \cup Failed \cup Issuing \cup Finding
                                   \cup Reading \cup Rotating \cup Answering
         /\ r \in Checking => r \notin Failed \cup Issuing \cup Finding
                                   \cup Reading \cup Rotating \cup Answering
         /\ r \in Failed => r \notin Issuing \cup Finding
                                   \cup Reading \cup Rotating \cup Answering
         /\ r \in Issuing => r \notin Finding \cup Reading \cup Rotating \cup Answering
         /\ r \in Finding => r \notin Reading \cup Rotating \cup Answering
         /\ r \in Reading => r \notin Rotating \cup Answering
         /\ r \in Rotating => r \notin Answering
BY DEF Checking, Failed, Issuing, Finding, Reading, Rotating, Answering, Sending, Purposes

LEMMA Facts ==
  ASSUME IInv, NEW q \in Reqs
  PROVE  /\ req[q] \in Requests /\ Holds(req[q])
         /\ now \in 0 .. MaxTime /\ now \in Nat /\ fresh \in Nat /\ fresh > 0
         /\ MaxTime \in Nat
BY SignInAssumption DEF IInv, BaseInv, ReqInv

LEMMA HoldsKept ==
  ASSUME IInv, NEW r, Holds(r), fresh' \in Nat, fresh' >= fresh,
         \A e \in Emails : Opened(e) => Opened(e)', r \in Requests
  PROVE  Holds(r)'
<1>1. fresh \in Nat
  BY DEF IInv, BaseInv
<1>2. /\ r \in Checking \cup Issuing => r.email \in Emails
      /\ r \in Finding => r.token \in Nat
      /\ r \in Reading \cup Rotating =>
           r.s.id \in Nat /\ r.s.token \in Nat /\ r.s.email \in Emails
      /\ r \in Answering => r.sid \in Nat /\ r.cookie \in Nat
  BY DEF Checking, Issuing, Finding, Reading, Rotating, Answering, Session
<1> QED
  BY <1>1, <1>2 DEF Holds

LEMMA OneRequest ==
  ASSUME IInv, NEW q \in Reqs, NEW x, req' = [req EXCEPT ![q] = x],
         x \in Requests, Holds(x)', fresh' \in Nat, fresh' >= fresh,
         \A e \in Emails : Opened(e) => Opened(e)'
  PROVE  /\ ReqInv'
         /\ \A v \in Reqs : req'[v] = IF v = q THEN x ELSE req[v]
<1>1. \A v \in Reqs : req[v] \in Requests /\ Holds(req[v])
  BY DEF IInv, ReqInv
<1>2. /\ req' = [v \in Reqs |-> req'[v]]
      /\ \A v \in Reqs : req'[v] = IF v = q THEN x ELSE req[v]
  BY DEF IInv, ReqInv
<1>3. \A v \in Reqs : req'[v] \in Requests
  BY <1>1, <1>2
<1>4. \A v \in Reqs : Holds(req[v])'
  <2> TAKE v \in Reqs
  <2> PICK r : r = IF v = q THEN x ELSE req[v]
    OBVIOUS
  <2>1. Holds(r)'
    BY <1>1, HoldsKept
  <2>2. r = req'[v]
    BY <1>2
  <2> QED
    BY <2>1, <2>2 DEF Holds
<1> QED
  BY <1>2, <1>3, <1>4 DEF ReqInv

-----------------------------------------------------------------------------
(* What a step has to leave as it is.                                      *)

(* Nothing is forgotten: secrets only grow, and accounts stay.             *)
Grows == /\ fresh' \in Nat /\ fresh' >= fresh
         /\ \A e \in Emails : Opened(e) => Opened(e)'

(* A session of an old family is its owner's.                              *)
SameOwners ==
  \A o \in session' : o.id >= fresh \/ \E p \in session : p.id = o.id /\ p.email = o.email

(* Who may no longer refresh has no session, or soon has none.             *)
Eased ==
  \A e \in Emails : Opened(e) =>
    \/ \A o \in session' : o.email # e
    \/ revoking'[e] > 0
    \/ /\ ~(revoking[e] > 0)
       /\ account[e] = "ok" => account'[e] = "ok"
       /\ workspace[e].status = "ACTIVE" => workspace'[e].status = "ACTIVE"

LEMMA Wider ==
  ASSUME NEW m \in Nat, NEW n \in Nat, m <= n
  PROVE  1 .. (m - 1) \subseteq 1 .. (n - 1) /\ 0 .. (m - 1) \subseteq 0 .. (n - 1)
OBVIOUS

LEMMA FewerSameOwners == ASSUME session' \subseteq session PROVE SameOwners
BY DEF SameOwners

LEMMA SameEased == ASSUME UNCHANGED <<account, workspace, revoking>> PROVE Eased
BY DEF Eased

LEMMA SameGrows ==
  ASSUME IInv, UNCHANGED account, fresh' \in {fresh, fresh + 1} PROVE Grows
<1>1. fresh \in Nat
  BY DEF IInv, BaseInv
<1> QED
  BY <1>1 DEF Grows, Opened

LEMMA BaseKept ==
  ASSUME IInv, Grows, UNCHANGED <<now, open, lost>>, left' \in Workload
  PROVE  BaseInv'
<1>1. fresh \in Nat /\ fresh > 0
  BY DEF IInv, BaseInv
<1> QED
  BY <1>1 DEF IInv, BaseInv, Grows

LEMMA CodesKept ==
  ASSUME IInv, Grows, UNCHANGED codes
  PROVE  CodeInv'
<1>1. CodeInv /\ fresh \in Nat /\ fresh' \in Nat /\ fresh' >= fresh
  BY DEF IInv, BaseInv, Grows
<1>2. 1 .. (fresh - 1) \subseteq 1 .. (fresh' - 1)
  BY <1>1, Wider
<1>3. UNCHANGED <<limit, pending, mailed>>
  BY DEF codes
<1>4. mailed' \subseteq [email : Emails, purpose : Purposes, code : 1 .. (fresh' - 1)]
  BY <1>1, <1>2, <1>3 DEF CodeInv
<1> QED
  BY <1>1, <1>2, <1>3, <1>4 DEF CodeInv

LEMMA PeopleKept ==
  ASSUME IInv, UNCHANGED <<account, workspace, usage>>, revoking' \in [Emails -> Nat]
  PROVE  PeopleInv'
BY DEF IInv, PeopleInv, SlotsCounted

LEMMA BrowserKept ==
  ASSUME IInv, Grows, UNCHANGED browser
  PROVE  BrowserInv'
<1>1. BrowserInv /\ fresh \in Nat /\ fresh' \in Nat /\ fresh' >= fresh
  BY DEF IInv, BaseInv, Grows
<1>2. 0 .. (fresh - 1) \subseteq 0 .. (fresh' - 1)
  BY <1>1, Wider
<1>3. UNCHANGED <<jar, tab, webLock>>
  BY DEF browser
<1> QED
  BY <1>1, <1>2, <1>3 DEF BrowserInv

LEMMA SessionsGone ==
  ASSUME IInv, Grows, session' \subseteq session, rotated' \subseteq rotated,
         UNCHANGED exchanged, revoked' \subseteq 1 .. (fresh - 1),
         \A s \in session' : s.id \notin revoked'
  PROVE  SessionInv'
<1>1. SessionInv /\ fresh \in Nat /\ fresh' \in Nat /\ fresh' >= fresh
  BY DEF IInv, BaseInv, Grows
<1>2. 1 .. (fresh - 1) \subseteq 1 .. (fresh' - 1)
  BY <1>1, Wider
<1>3. session' \subseteq Session /\ IsFiniteSet(session')
  <2>1. session' \in SUBSET session
    OBVIOUS
  <2> QED
    BY <1>1, <2>1, FS_Subset DEF SessionInv
<1>4. \A s \in session' : s.id \in 1 .. (fresh' - 1) /\ s.token \in 1 .. (fresh' - 1)
                          /\ Opened(s.email)'
  <2> TAKE s \in session'
  <2>1. s \in session /\ s.email \in Emails
    BY <1>1 DEF SessionInv, Session
  <2> QED
    BY <1>1, <1>2, <2>1 DEF SessionInv, Grows
<1>5. rotated' \subseteq [token : 1 .. (fresh' - 1), family : 1 .. (fresh' - 1), exp : Nat]
  BY <1>1, <1>2 DEF SessionInv
<1>6. \A x \in exchanged' : x = <<x[1], x[2]>> /\ x[1] \in 1 .. (fresh' - 1)
  BY <1>1, <1>2 DEF SessionInv
<1>7. \A s \in session', x \in exchanged' : s.token # x[1]
  BY <1>1 DEF SessionInv
<1>8. \A s, o \in session' : s.id = o.id \/ s.token = o.token => s = o
  BY <1>1 DEF SessionInv
<1>9. TokensSpent'
  <2>1. TokensSpent
    BY <1>1 DEF SessionInv
  <2>2. ASSUME NEW e \in Emails PROVE Cardinality(Sessions(e)') <= MaxSessions
    <3> PICK new, old : new = Sessions(e)' /\ old = Sessions(e)
      OBVIOUS
    <3>1. new \in SUBSET old /\ old \in SUBSET session
      BY DEF Sessions
    <3>2. IsFiniteSet(old)
      BY <1>1, <3>1, FS_Subset DEF SessionInv
    <3>3. Cardinality(new) <= Cardinality(old)
      BY <3>1, <3>2, FS_Subset
    <3>4. IsFiniteSet(new)
      BY <3>1, <3>2, FS_Subset
    <3>5. Cardinality(new) \in Nat /\ Cardinality(old) \in Nat /\ MaxSessions \in Nat
      BY <3>2, <3>4, FS_CardinalityType, SignInAssumption
    <3>6. Cardinality(old) <= MaxSessions
      BY <2>1 DEF TokensSpent, SessionCap
    <3> QED
      BY <3>3, <3>5, <3>6
  <2>3. SessionCap'
    BY <2>2 DEF SessionCap
  <2> QED
    BY <2>1, <2>3 DEF TokensSpent, OneGrantPerToken, RevokedStays
<1>10. revoked' \subseteq 1 .. (fresh' - 1)
  BY <1>2
<1> QED
  BY <1>3, <1>4, <1>5, <1>6, <1>7, <1>8, <1>9, <1>10 DEF SessionInv

LEMMA SessionsKept ==
  ASSUME IInv, Grows, UNCHANGED <<store, exchanged, revoked>>
  PROVE  SessionInv'
<1>1. UNCHANGED <<session, rotated>>
  BY DEF store
<1>2. revoked \subseteq 1 .. (fresh - 1) /\ \A s \in session : s.id \notin revoked
  BY DEF IInv, SessionInv, TokensSpent, RevokedStays
<1>3. session' \subseteq session /\ rotated' \subseteq rotated /\ UNCHANGED exchanged
      /\ revoked' \subseteq 1 .. (fresh - 1) /\ \A s \in session' : s.id \notin revoked'
  BY <1>1, <1>2
<1> QED
  BY ONLY IInv, Grows, <1>3, SessionsGone

(* A refresh that goes on is let through as before.                        *)
LEMMA StaysThrough ==
  ASSUME IInv, Grows, SameOwners, Eased, NEW r, r \in Requests, Holds(r), LetThrough(r)
  PROVE  LetThrough(r)'
<1>1. /\ fresh \in Nat
      /\ \A o \in session : o.id \in Nat
  BY DEF IInv, BaseInv, SessionInv, Session
<1>2. CASE r \notin Reading \cup Rotating
  BY <1>2 DEF LetThrough
<1>3. CASE r \in Reading \cup Rotating
  <2>1. /\ r.s.id \in Nat /\ r.s.email \in Emails /\ r.s.id < fresh /\ Opened(r.s.email)
        /\ r.s.id > 0 /\ \A o \in session : o.id = r.s.id => o.email = r.s.email
    BY <1>3 DEF Holds, LetThrough, Reading, Rotating, Session
  <2>2. \A o \in session' : o.id = r.s.id =>
           o.email = r.s.email /\ \E p \in session : p.id = r.s.id
    BY <1>1, <2>1 DEF SameOwners
  <2>3. Alive(r.s)' => Alive(r.s) /\ \E o \in session' : o.email = r.s.email
    BY <2>2 DEF Alive
  <2>4. ASSUME Alive(r.s)'
        PROVE  \/ revoking'[r.s.email] > 0
               \/ /\ ~(revoking[r.s.email] > 0)
                  /\ account[r.s.email] = "ok" => account'[r.s.email] = "ok"
                  /\ workspace[r.s.email].status = "ACTIVE" =>
                       workspace'[r.s.email].status = "ACTIVE"
    BY <2>1, <2>3, <2>4 DEF Eased
  <2>5. r \in Reading /\ r.pc = "workspace" /\ Alive(r.s)' =>
          revoking'[r.s.email] > 0 \/ account'[r.s.email] = "ok"
    BY <2>3, <2>4 DEF LetThrough
  <2>6. r \in Rotating /\ r.pc = "rotate" /\ Alive(r.s)' =>
          \/ revoking'[r.s.email] > 0
          \/ account'[r.s.email] = "ok" /\ workspace'[r.s.email].status = "ACTIVE"
    BY <2>3, <2>4 DEF LetThrough
  <2> QED
    BY <2>1, <2>2, <2>5, <2>6 DEF LetThrough
<1> QED
  BY <1>2, <1>3

(* One request moves to x, or none does.                                   *)
LEMMA RequestMoves ==
  ASSUME IInv, Grows, SameOwners, Eased, NEW q \in Reqs, NEW x,
         req' = [req EXCEPT ![q] = x], x \in Requests, Holds(x)', LetThrough(x)'
  PROVE  /\ ReqInv' /\ RefreshInv'
         /\ \A v \in Reqs : req'[v] = IF v = q THEN x ELSE req[v]
<1>1. fresh' \in Nat /\ fresh' >= fresh /\ \A e \in Emails : Opened(e) => Opened(e)'
  BY DEF Grows
<1>2. ReqInv' /\ \A v \in Reqs : req'[v] = IF v = q THEN x ELSE req[v]
  BY <1>1, OneRequest
<1>3. \A v \in Reqs : LetThrough(req[v])'
  <2> TAKE v \in Reqs
  <2> PICK r : r = IF v = q THEN x ELSE req[v]
    OBVIOUS
  <2>1. v # q => r \in Requests /\ Holds(r) /\ LetThrough(r)
    BY DEF IInv, ReqInv, RefreshInv
  <2>2. LetThrough(r)'
    BY <2>1, StaysThrough
  <2>3. r = req'[v]
    BY <1>2
  <2> QED
    BY <2>2, <2>3 DEF LetThrough
<1> QED
  BY <1>2, <1>3 DEF RefreshInv

LEMMA NoneMoves ==
  ASSUME IInv, Grows, SameOwners, Eased, UNCHANGED req
  PROVE  ReqInv' /\ RefreshInv'
<1>1. \A v \in Reqs : Holds(req[v])' /\ LetThrough(req[v])'
  <2> TAKE v \in Reqs
  <2> PICK r : r = req[v]
    OBVIOUS
  <2>1. r \in Requests /\ Holds(r) /\ LetThrough(r)
    BY DEF IInv, ReqInv, RefreshInv
  <2>2. LetThrough(r)'
    BY <2>1, StaysThrough
  <2>3. fresh' \in Nat /\ fresh' >= fresh /\ \A e \in Emails : Opened(e) => Opened(e)'
    BY DEF Grows
  <2>4. Holds(r)'
    BY <2>1, <2>3, HoldsKept
  <2>5. r = req'[v]
    OBVIOUS
  <2> QED
    BY <2>2, <2>4, <2>5 DEF LetThrough, Holds
<1> QED
  BY <1>1 DEF IInv, ReqInv, RefreshInv

(* The locks and the drops that were due are still due, or done.           *)
LEMMA LocksKept ==
  ASSUME IInv, NEW q \in Reqs, NEW x,
         \A v \in Reqs : req'[v] = IF v = q THEN x ELSE req[v],
         \A e \in Emails, d \in Days : limit'[e][d].failures >= MaxFailures =>
           \/ limit'[e][d].until > 0
           \/ Locks(x, e, d)
           \/ /\ limit[e][d].failures >= MaxFailures /\ ~(limit[e][d].until > 0)
              /\ ~Locks(req[q], e, d)
  PROVE  LockInv'
<1> SUFFICES ASSUME NEW e \in Emails, NEW d \in Days, limit'[e][d].failures >= MaxFailures,
                    ~(limit'[e][d].until > 0)
             PROVE  \E v \in Reqs : Locks(req'[v], e, d)
  BY DEF LockInv
<1>1. CASE Locks(x, e, d)
  BY <1>1
<1>2. CASE limit[e][d].failures >= MaxFailures /\ ~(limit[e][d].until > 0)
           /\ ~Locks(req[q], e, d)
  <2>1. PICK v \in Reqs : Locks(req[v], e, d)
    BY <1>2 DEF IInv, LockInv
  <2>2. v # q
    BY <1>2, <2>1
  <2> QED
    BY <2>1, <2>2
<1> QED
  BY <1>1, <1>2

LEMMA DropsKept ==
  ASSUME IInv, NEW q \in Reqs, NEW x,
         \A v \in Reqs : req'[v] = IF v = q THEN x ELSE req[v],
         \A e \in Emails, p \in Purposes :
           pending'[e][p] # None /\ pending'[e][p].attempts >= MaxAttempts =>
             \/ Drops(x, e, p)
             \/ /\ pending[e][p] # None /\ pending[e][p].attempts >= MaxAttempts
                /\ ~Drops(req[q], e, p)
  PROVE  DropInv'
<1> SUFFICES ASSUME NEW e \in Emails, NEW p \in Purposes, pending'[e][p] # None,
                    pending'[e][p].attempts >= MaxAttempts
             PROVE  \E v \in Reqs : Drops(req'[v], e, p)
  BY DEF DropInv
<1>1. CASE Drops(x, e, p)
  BY <1>1
<1>2. CASE pending[e][p] # None /\ pending[e][p].attempts >= MaxAttempts
           /\ ~Drops(req[q], e, p)
  <2>1. PICK v \in Reqs : Drops(req[v], e, p)
    BY <1>2 DEF IInv, DropInv
  <2>2. v # q
    BY <1>2, <2>1
  <2> QED
    BY <2>1, <2>2
<1> QED
  BY <1>1, <1>2

LEMMA SameLocks ==
  ASSUME IInv, NEW q \in Reqs, NEW x, UNCHANGED <<limit, pending>>,
         \A v \in Reqs : req'[v] = IF v = q THEN x ELSE req[v],
         \A e, d : ~Locks(req[q], e, d), \A e, p : ~Drops(req[q], e, p)
  PROVE  LockInv' /\ DropInv'
<1>1. \A e \in Emails, d \in Days :
        \/ limit[e][d].failures >= MaxFailures => limit[e][d].until > 0
        \/ \E v \in Reqs : v # q /\ Locks(req[v], e, d)
  BY DEF IInv, LockInv
<1>2. \A e \in Emails, p \in Purposes :
        pending[e][p] # None /\ pending[e][p].attempts >= MaxAttempts =>
          \E v \in Reqs : v # q /\ Drops(req[v], e, p)
  BY DEF IInv, DropInv
<1> QED
  BY <1>1, <1>2 DEF LockInv, DropInv

LEMMA SpendKeeps ==
  ASSUME IInv, NEW kind \in {"send", "submit", "typo", "refresh", "logout", "lose",
                             "admin", "toggle", "tick"}, Spend(kind)
  PROVE  left' \in Workload
<1> PICK l : l = left
  OBVIOUS
<1>1. l \in Workload /\ l[kind] > 0 /\ left' = [l EXCEPT ![kind] = @ - 1]
  BY DEF IInv, BaseInv, Spend
<1>2. l[kind] \in Nat
  BY <1>1 DEF Workload
<1>3. l[kind] - 1 \in Nat
  BY <1>1, <1>2
<1>4. [l EXCEPT ![kind] = l[kind] - 1] \in Workload
  BY <1>1, <1>3 DEF Workload
<1> QED
  BY <1>1, <1>4
-----------------------------------------------------------------------------
(* Steps of one kind.                                                      *)

(* A request that has no lock and no drop to do.                           *)
Quiet(r) == r \notin Failed /\ (r \in Checking => r.pc # "fail")

LEMMA QuietFacts ==
  ASSUME NEW r, Quiet(r)
  PROVE  (\A e, d : ~Locks(r, e, d)) /\ (\A e, p : ~Drops(r, e, p))
BY DEF Quiet, Locks, Drops

LEMMA Free == ASSUME NEW r, r \notin Reading \cup Rotating PROVE LetThrough(r) /\ LetThrough(r)'
BY DEF LetThrough

(* Sessions are deleted, if anything, while one request goes on.           *)
LEMMA ShrinkStep ==
  ASSUME IInv, NEW q \in Reqs, NEW x, req' = [req EXCEPT ![q] = x],
         x \in Requests, Holds(x), LetThrough(x), Quiet(req[q]), left' \in Workload,
         UNCHANGED <<now, codes, people, rotated, fresh, revoking, browser, exchanged, lost>>,
         session' \subseteq session, revoked' \subseteq 1 .. (fresh - 1),
         \A s \in session' : s.id \notin revoked'
  PROVE  IInv'
<1>1. UNCHANGED <<now, limit, pending, account, workspace, usage, open, rotated, fresh,
                  revoking, exchanged, lost>>
  BY DEF people, codes
<1>2. Grows /\ SameOwners /\ Eased
  BY <1>1, SameGrows, FewerSameOwners, SameEased
<1>3. Holds(x)' /\ LetThrough(x)'
  <2>1. fresh' \in Nat /\ fresh' >= fresh /\ \A e \in Emails : Opened(e) => Opened(e)'
    BY <1>2 DEF Grows
  <2> QED
    BY <1>2, <2>1, HoldsKept, StaysThrough
<1>4. /\ ReqInv' /\ RefreshInv'
      /\ \A v \in Reqs : req'[v] = IF v = q THEN x ELSE req[v]
  BY <1>2, <1>3, RequestMoves
<1>5. BaseInv' /\ CodeInv' /\ BrowserInv'
  BY <1>1, <1>2, BaseKept, CodesKept, BrowserKept
<1>6. PeopleInv'
  <2>1. revoking' \in [Emails -> Nat]
    BY <1>1 DEF IInv, PeopleInv
  <2> QED
    BY <1>1, <2>1, PeopleKept
<1>7. SessionInv'
  <2>1. rotated' \subseteq rotated /\ UNCHANGED exchanged
    BY <1>1
  <2> QED
    BY <1>2, <2>1, SessionsGone
<1>8. LockInv' /\ DropInv'
  BY <1>1, <1>4, QuietFacts, SameLocks
<1> QED
  BY <1>4, <1>5, <1>6, <1>7, <1>8 DEF IInv

(* Only one request changes.                                               *)
LEMMA RequestOnly ==
  ASSUME IInv, NEW q \in Reqs, NEW x, req' = [req EXCEPT ![q] = x],
         x \in Requests, Holds(x), LetThrough(x), Quiet(req[q]), left' \in Workload,
         UNCHANGED <<now, codes, people, store, fresh, revoking, browser, history>>
  PROVE  IInv'
<1>1. /\ UNCHANGED <<now, codes, people, rotated, fresh, revoking, browser, exchanged, lost>>
      /\ session' \subseteq session
  BY DEF store, history
<1>2. revoked' \subseteq 1 .. (fresh - 1) /\ \A s \in session' : s.id \notin revoked'
  BY DEF IInv, SessionInv, TokensSpent, RevokedStays, store, history
<1> QED
  BY <1>1, <1>2, ShrinkStep

(* Codes and limits change, and one request.                               *)
LEMMA CodesOnly ==
  ASSUME IInv, NEW q \in Reqs, NEW x, req' = [req EXCEPT ![q] = x],
         x \in Requests, Holds(x), x \notin Reading \cup Rotating,
         UNCHANGED <<now, people, store, revoking, browser, left, history>>,
         fresh' \in {fresh, fresh + 1}, CodeInv',
         (\A v \in Reqs : req'[v] = IF v = q THEN x ELSE req[v]) => LockInv' /\ DropInv'
  PROVE  IInv'
<1>1. UNCHANGED <<now, account, workspace, usage, open, session, revoking, exchanged,
                  revoked, lost, left, store>>
  BY DEF people, store, history
<1>2. Grows /\ SameOwners /\ Eased
  BY <1>1, SameGrows, FewerSameOwners, SameEased
<1>3. Holds(x)' /\ LetThrough(x)'
  <2>1. fresh' \in Nat /\ fresh' >= fresh /\ \A e \in Emails : Opened(e) => Opened(e)'
    BY <1>2 DEF Grows
  <2> QED
    BY <2>1, HoldsKept, Free
<1>4. /\ ReqInv' /\ RefreshInv'
      /\ \A v \in Reqs : req'[v] = IF v = q THEN x ELSE req[v]
  BY <1>2, <1>3, RequestMoves
<1>5. left' \in Workload /\ revoking' \in [Emails -> Nat]
  BY <1>1 DEF IInv, BaseInv, PeopleInv
<1>6. BaseInv' /\ BrowserInv' /\ PeopleInv' /\ SessionInv'
  BY <1>1, <1>2, <1>5, BaseKept, BrowserKept, PeopleKept, SessionsKept
<1> QED
  BY <1>4, <1>6 DEF IInv
-----------------------------------------------------------------------------
(* Codes.                                                                  *)

LEMMA IdleFacts ==
  ASSUME NEW q, Idle(q) PROVE Quiet(req[q])
BY NoRequestFacts DEF Idle, Quiet

LEMMA SendCodeOK ==
  ASSUME IInv, NEW q \in Reqs, NEW e \in Emails, NEW p \in Purposes, SendCode(q, e, p)
  PROVE  IInv'
<1> PICK x : x = [op |-> "send", pc |-> "take", email |-> e, purpose |-> p, at |-> now,
                  deliver |-> (p = "signup") <=> (account[e] = None)]
  OBVIOUS
<1>1. /\ req' = [req EXCEPT ![q] = x] /\ Idle(q) /\ Spend("send")
      /\ UNCHANGED <<now, codes, people, store, fresh, revoking, browser, history>>
  BY DEF SendCode, Goto
<1>2. x \in Sending
  <2> PICK b : b = ((p = "signup") <=> (account[e] = None))
    OBVIOUS
  <2>1. x = [op |-> "send", pc |-> "take", email |-> e, purpose |-> p, at |-> now,
             deliver |-> b] /\ b \in BOOLEAN
    OBVIOUS
  <2>2. now \in 0 .. MaxTime
    BY Facts
  <2> QED
    BY <2>1, <2>2 DEF Sending
<1>3. x \in Requests /\ Holds(x) /\ LetThrough(x)
  <2>1. x \notin Reading \cup Rotating
    BY <1>2, OnlyOne
  <2> QED
    BY <1>2, <2>1, OnlyOne, Free DEF Requests, Holds
<1>4. Quiet(req[q]) /\ left' \in Workload
  BY <1>1, IdleFacts, SpendKeeps
<1> QED
  BY <1>1, <1>3, <1>4, RequestOnly

LEMMA LimitEdit ==
  ASSUME NEW e \in Emails, NEW d \in Days,
         NEW l \in [sends : 0 .. MaxSends, failures : Nat, until : Nat],
         limit \in [Emails -> [Days -> [sends : 0 .. MaxSends, failures : Nat, until : Nat]]],
         limit' = [limit EXCEPT ![e][d] = l]
  PROVE  /\ limit' \in [Emails -> [Days -> [sends : 0 .. MaxSends, failures : Nat, until : Nat]]]
         /\ \A f \in Emails, c \in Days :
              limit'[f][c] = IF f = e /\ c = d THEN l ELSE limit[f][c]
OBVIOUS

LEMMA TakeSendOK ==
  ASSUME IInv, NEW q \in Reqs, TakeSend(q)
  PROVE  IInv'
<1> PICK e, d, r : e = req[q].email /\ d = Day(req[q].at) /\ r = req[q]
  OBVIOUS
<1>1. r \in Sending /\ r.pc = "take" /\ e \in Emails /\ d \in Days
  <2>1. r \in Sending /\ r.pc = "take"
    BY Facts, Steps DEF TakeSend, At
  <2>2. r.at \in 0 .. MaxTime /\ r.email \in Emails
    BY <2>1 DEF Sending
  <2> QED
    BY <2>1, <2>2, DayFacts
<1>2. Quiet(r)
  BY <1>1, OnlyOne DEF Quiet
<1>3. /\ UNCHANGED <<now, pending, mailed, people, store, fresh, revoking, browser, left,
                     history>>
      /\ UNCHANGED <<now, people, store, revoking, browser, left, history>>
      /\ fresh' \in {fresh, fresh + 1}
  BY DEF TakeSend
<1>4. /\ \/ limit' = limit
         \/ limit[e][d].sends < MaxSends /\ limit' = [limit EXCEPT ![e][d].sends = @ + 1]
  BY DEF TakeSend, MayTake
<1>5. /\ CodeInv'
      /\ \A f \in Emails, c \in Days : limit'[f][c].failures = limit[f][c].failures
                                       /\ limit'[f][c].until = limit[f][c].until
  <2>1. /\ limit \in [Emails -> [Days -> [sends : 0 .. MaxSends, failures : Nat, until : Nat]]]
        /\ MaxSends \in Nat
    BY SignInAssumption DEF IInv, CodeInv
  <2>2. /\ limit' \in [Emails -> [Days -> [sends : 0 .. MaxSends, failures : Nat, until : Nat]]]
        /\ \A f \in Emails, c \in Days : limit'[f][c].failures = limit[f][c].failures
                                         /\ limit'[f][c].until = limit[f][c].until
    <3>1. CASE limit' = limit
      BY <2>1, <3>1
    <3>2. CASE limit[e][d].sends < MaxSends /\ limit' = [limit EXCEPT ![e][d].sends = @ + 1]
      <4> PICK l : l = [limit[e][d] EXCEPT !.sends = @ + 1]
        OBVIOUS
      <4>0. /\ limit[e][d] \in [sends : 0 .. MaxSends, failures : Nat, until : Nat]
            /\ limit[e][d].sends + 1 \in 0 .. MaxSends
        <5>1. limit[e][d] \in [sends : 0 .. MaxSends, failures : Nat, until : Nat]
          BY <1>1, <2>1
        <5> PICK b : b = limit[e][d]
          OBVIOUS
        <5>2. b \in [sends : 0 .. MaxSends, failures : Nat, until : Nat] /\ b.sends < MaxSends
          BY <3>2, <5>1
        <5>3. b.sends + 1 \in 0 .. MaxSends
          BY ONLY <2>1, <5>2
        <5> QED
          BY <5>1, <5>3
      <4>1. /\ l \in [sends : 0 .. MaxSends, failures : Nat, until : Nat]
            /\ l.failures = limit[e][d].failures /\ l.until = limit[e][d].until
        BY ONLY <4>0, l = [limit[e][d] EXCEPT !.sends = limit[e][d].sends + 1]
      <4>2. limit' = [limit EXCEPT ![e][d] = l]
        BY <3>2
      <4>3. /\ limit' \in [Emails -> [Days -> [sends : 0 .. MaxSends, failures : Nat,
                                               until : Nat]]]
            /\ \A f \in Emails, c \in Days :
                 limit'[f][c] = IF f = e /\ c = d THEN l ELSE limit[f][c]
        BY ONLY <1>1, <2>1, <4>1, <4>2, LimitEdit
      <4> QED
        BY ZenonT(40), <4>1, <4>3
    <3> QED
      BY <1>4, <3>1, <3>2
  <2> QED
    BY <1>3, <2>2 DEF IInv, CodeInv
<1>6. ASSUME NEW x, req' = [req EXCEPT ![q] = x], x \in Requests, Holds(x),
             x \notin Reading \cup Rotating
      PROVE  IInv'
  <2>1. ASSUME \A v \in Reqs : req'[v] = IF v = q THEN x ELSE req[v]
        PROVE  LockInv' /\ DropInv'
    <3>1. \A f \in Emails, c \in Days :
             limit'[f][c].failures >= MaxFailures =>
               \/ limit'[f][c].until > 0
               \/ Locks(x, f, c)
               \/ /\ limit[f][c].failures >= MaxFailures /\ ~(limit[f][c].until > 0)
                  /\ ~Locks(req[q], f, c)
      BY <1>2, <1>5, QuietFacts
    <3>2. \A f \in Emails, p \in Purposes :
             pending'[f][p] # None /\ pending'[f][p].attempts >= MaxAttempts =>
               \/ Drops(x, f, p)
               \/ /\ pending[f][p] # None /\ pending[f][p].attempts >= MaxAttempts
                  /\ ~Drops(req[q], f, p)
      BY <1>2, <1>3, QuietFacts
    <3>3. LockInv'
      BY ONLY IInv, <2>1, <3>1, LocksKept, q \in Reqs
    <3>4. DropInv'
      BY ONLY IInv, <2>1, <3>2, DropsKept, q \in Reqs
    <3> QED
      BY <3>3, <3>4
  <2>2. (\A v \in Reqs : req'[v] = IF v = q THEN x ELSE req[v]) => LockInv' /\ DropInv'
    BY <2>1
  <2>3. CodeInv'
    BY <1>5
  <2> QED
    BY ONLY IInv, <1>3, <1>6, <2>2, <2>3, CodesOnly, q \in Reqs
<1>7. CASE Done(q)
  BY <1>6, <1>7, NoRequestFacts DEF Done, Goto, Holds
<1>8. CASE Step(q, "put")
  <2> PICK x : x = [r EXCEPT !.pc = "put"]
    OBVIOUS
  <2>1. x \in Sending /\ req' = [req EXCEPT ![q] = x]
    BY <1>1, <1>8 DEF Step, Goto, Sending
  <2>2. x \in Requests /\ Holds(x) /\ x \notin Reading \cup Rotating
    BY <2>1, OnlyOne DEF Requests, Holds
  <2> QED
    BY <1>6, <2>1, <2>2
<1>9. Done(q) \/ Step(q, "put")
  BY DEF TakeSend
<1> QED
  BY <1>7, <1>8, <1>9
(* One code is put, changed or dropped.                                    *)
LEMMA PendingCodes ==
  ASSUME IInv, NEW e \in Emails, NEW p \in Purposes, NEW c \in {None} \cup Code,
         pending' = [pending EXCEPT ![e][p] = c],
         c # None => c.code \in 1 .. (fresh' - 1),
         UNCHANGED limit, fresh' \in {fresh, fresh + 1},
         mailed' \subseteq [email : Emails, purpose : Purposes, code : 1 .. (fresh' - 1)]
  PROVE  /\ CodeInv'
         /\ \A f \in Emails, k \in Purposes :
              pending'[f][k] = IF f = e /\ k = p THEN c ELSE pending[f][k]
<1>1. /\ pending \in [Emails -> [Purposes -> {None} \cup Code]]
      /\ \A f \in Emails, k \in Purposes :
           pending[f][k] # None => pending[f][k].code \in 1 .. (fresh - 1)
      /\ fresh \in Nat
  BY DEF IInv, BaseInv, CodeInv
<1>2. /\ pending' \in [Emails -> [Purposes -> {None} \cup Code]]
      /\ \A f \in Emails, k \in Purposes :
           pending'[f][k] = IF f = e /\ k = p THEN c ELSE pending[f][k]
  BY <1>1
<1>3. \A f \in Emails, k \in Purposes :
        pending'[f][k] # None => pending'[f][k].code \in 1 .. (fresh' - 1)
  <2> SUFFICES ASSUME NEW f \in Emails, NEW k \in Purposes, pending'[f][k] # None,
                      ~(f = e /\ k = p)
               PROVE  pending'[f][k].code \in 1 .. (fresh' - 1)
    BY <1>2
  <2>1. pending'[f][k] = pending[f][k] /\ pending[f][k].code \in 1 .. (fresh - 1)
    BY <1>1, <1>2
  <2>2. fresh' \in Nat /\ fresh <= fresh'
    BY <1>1
  <2>3. 1 .. (fresh - 1) \subseteq 1 .. (fresh' - 1)
    BY <1>1, <2>2, Wider
  <2> QED
    BY <2>1, <2>3
<1> QED
  BY <1>2, <1>3 DEF IInv, CodeInv

LEMMA PendingDue ==
  ASSUME IInv, NEW q \in Reqs, NEW x, NEW e \in Emails, NEW p \in Purposes, NEW c,
         \A f \in Emails, k \in Purposes :
           pending'[f][k] = IF f = e /\ k = p THEN c ELSE pending[f][k],
         UNCHANGED limit,
         \A f, d : Locks(req[q], f, d) => Locks(x, f, d),
         \A f, k : Drops(req[q], f, k) => Drops(x, f, k) \/ (f = e /\ k = p),
         c # None /\ c.attempts >= MaxAttempts =>
           Drops(x, e, p) \/ (pending[e][p] = c /\ ~Drops(req[q], e, p)),
         \A v \in Reqs : req'[v] = IF v = q THEN x ELSE req[v]
  PROVE  LockInv' /\ DropInv'
<1>1. \A f \in Emails, d \in Days : limit'[f][d].failures >= MaxFailures =>
        limit'[f][d].until > 0 \/ \E v \in Reqs : Locks(req'[v], f, d)
  <2> SUFFICES ASSUME NEW f \in Emails, NEW d \in Days,
                      limit[f][d].failures >= MaxFailures, ~(limit[f][d].until > 0)
               PROVE  \E v \in Reqs : Locks(req'[v], f, d)
    OBVIOUS
  <2>1. PICK v \in Reqs : Locks(req[v], f, d)
    BY DEF IInv, LockInv
  <2>2. CASE v = q
    BY <2>1, <2>2
  <2>3. CASE v # q
    BY <2>1, <2>3
  <2> QED
    BY <2>2, <2>3
<1>2. \A f \in Emails, k \in Purposes :
        pending'[f][k] # None /\ pending'[f][k].attempts >= MaxAttempts =>
          \/ Drops(x, f, k)
          \/ /\ pending[f][k] # None /\ pending[f][k].attempts >= MaxAttempts
             /\ ~Drops(req[q], f, k)
  <2> TAKE f \in Emails, k \in Purposes
  <2>1. CASE f = e /\ k = p
    BY <2>1
  <2>2. CASE ~(f = e /\ k = p)
    BY <2>2
  <2> QED
    BY <2>1, <2>2
<1>3. \A v \in Reqs : req'[v] = IF v = q THEN x ELSE req[v]
  OBVIOUS
<1>4. DropInv'
  BY ONLY IInv, <1>2, <1>3, DropsKept, q \in Reqs
<1> QED
  BY <1>1, <1>4 DEF LockInv

LEMMA PendingStep ==
  ASSUME IInv, NEW q \in Reqs, NEW x, req' = [req EXCEPT ![q] = x],
         x \in Requests, Holds(x), x \notin Reading \cup Rotating,
         NEW e \in Emails, NEW p \in Purposes, NEW c \in {None} \cup Code,
         pending' = [pending EXCEPT ![e][p] = c],
         c # None => c.code \in 1 .. (fresh' - 1),
         UNCHANGED <<now, limit, people, store, revoking, browser, left, history>>,
         fresh' \in {fresh, fresh + 1},
         mailed' \subseteq [email : Emails, purpose : Purposes, code : 1 .. (fresh' - 1)],
         \A f, d : Locks(req[q], f, d) => Locks(x, f, d),
         \A f, k : Drops(req[q], f, k) => Drops(x, f, k) \/ (f = e /\ k = p),
         c # None /\ c.attempts >= MaxAttempts =>
           Drops(x, e, p) \/ (pending[e][p] = c /\ ~Drops(req[q], e, p))
  PROVE  IInv'
<1>0. /\ pending' = [pending EXCEPT ![e][p] = c] /\ UNCHANGED limit
      /\ fresh' \in {fresh, fresh + 1}
      /\ c # None => c.code \in 1 .. (fresh' - 1)
      /\ mailed' \subseteq [email : Emails, purpose : Purposes, code : 1 .. (fresh' - 1)]
      /\ e \in Emails /\ p \in Purposes /\ c \in {None} \cup Code
  OBVIOUS
<1>1. /\ CodeInv'
      /\ \A f \in Emails, k \in Purposes :
           pending'[f][k] = IF f = e /\ k = p THEN c ELSE pending[f][k]
  BY ONLY ZenonT(40), IInv, <1>0, PendingCodes
<1>2. (\A v \in Reqs : req'[v] = IF v = q THEN x ELSE req[v]) => LockInv' /\ DropInv'
  BY <1>1, PendingDue
<1>3. UNCHANGED <<now, people, store, revoking, browser, left, history>>
  OBVIOUS
<1> QED
  BY <1>1, <1>2, <1>3, CodesOnly

LEMMA PutCodeOK ==
  ASSUME IInv, NEW q \in Reqs, PutCode(q)
  PROVE  IInv'
<1> PICK e, p, r, c : /\ e = req[q].email /\ p = req[q].purpose /\ r = req[q]
                      /\ c = [code |-> fresh, attempts |-> 0, exp |-> req[q].at + CodeTtl]
  OBVIOUS
<1>1. /\ r \in Sending /\ e \in Emails /\ p \in Purposes /\ r.at \in Nat
      /\ fresh \in Nat /\ fresh > 0
  <2>1. r \in Sending
    BY Facts, Steps DEF PutCode, At
  <2> QED
    BY <2>1, Facts DEF Sending
<1>2. c \in Code /\ c.code = fresh /\ c.attempts = 0
  BY <1>1, SignInAssumption DEF Code
<1>3. /\ pending' = [pending EXCEPT ![e][p] = c] /\ fresh' = fresh + 1
      /\ UNCHANGED <<now, limit, people, store, revoking, browser, left, history>>
      /\ req' = [req EXCEPT ![q] = NoRequest]
      /\ mailed' \in {mailed, mailed \cup {[email |-> e, purpose |-> p, code |-> fresh]}}
  BY DEF PutCode, Done, Goto
<1>4. mailed' \subseteq [email : Emails, purpose : Purposes, code : 1 .. (fresh' - 1)]
  <2>1. mailed \subseteq [email : Emails, purpose : Purposes, code : 1 .. (fresh - 1)]
    BY DEF IInv, CodeInv
  <2>2. 1 .. (fresh - 1) \subseteq 1 .. (fresh' - 1) /\ fresh \in 1 .. (fresh' - 1)
    BY <1>1, <1>3, Wider
  <2>3. mailed \subseteq [email : Emails, purpose : Purposes, code : 1 .. (fresh' - 1)]
    BY <2>1, <2>2
  <2>4. [email |-> e, purpose |-> p, code |-> fresh]
          \in [email : Emails, purpose : Purposes, code : 1 .. (fresh' - 1)]
    BY <1>1, <2>2
  <2> QED
    BY <1>3, <2>3, <2>4
<1>5. /\ NoRequest \in Requests /\ Holds(NoRequest) /\ NoRequest \notin Reading \cup Rotating
      /\ fresh' \in {fresh, fresh + 1}
  BY <1>3, NoRequestFacts DEF Holds
<1>6. /\ \A f, d : Locks(req[q], f, d) => Locks(NoRequest, f, d)
      /\ \A f, k : Drops(req[q], f, k) => Drops(NoRequest, f, k) \/ (f = e /\ k = p)
  BY <1>1, OnlyOne, QuietFacts DEF Quiet
<1>7. c \in {None} \cup Code /\ e \in Emails /\ p \in Purposes
  BY <1>1, <1>2
<1>8. /\ c # None => c.code \in 1 .. (fresh' - 1)
      /\ c # None /\ c.attempts >= MaxAttempts =>
           Drops(NoRequest, e, p) \/ (pending[e][p] = c /\ ~Drops(req[q], e, p))
  BY <1>1, <1>2, <1>3, SignInAssumption
<1> QED
  BY ONLY IInv, q \in Reqs, <1>3, <1>4, <1>5, <1>6, <1>7, <1>8, PendingStep

LEMMA SubmitOK ==
  ASSUME IInv, NEW q \in Reqs, NEW t \in Tabs, NEW e \in Emails, NEW p \in Purposes,
         NEW code, Submit(q, t, e, p, code)
  PROVE  IInv'
<1> PICK c : c = pending[e][p]
  OBVIOUS
<1> PICK seen, usable, pc :
      /\ seen = (c # None) /\ usable = Usable(c)
      /\ pc = IF ~Usable(c) THEN "fail" ELSE IF c.code = code THEN "verified" ELSE "bump"
  OBVIOUS
<1> PICK x : x = [op |-> p, email |-> e, tab |-> t, at |-> now, seen |-> seen,
                  usable |-> usable, attempts |-> MaxAttempts, pc |-> pc]
  OBVIOUS
<1>1. /\ req' = [req EXCEPT ![q] = x] /\ Idle(q)
      /\ UNCHANGED <<now, codes, people, store, fresh, revoking, browser, history>>
      /\ p = "terminate" => account[e] = "ok"
      /\ Spend(IF code = 0 THEN "typo" ELSE "submit")
  BY DEF Submit, Goto
<1>2. /\ seen \in BOOLEAN /\ usable \in BOOLEAN /\ pc \in {"fail", "verified", "bump"}
      /\ pc = "bump" => seen
  BY DEF Usable
<1>3. x \in Checking
  BY <1>2, Facts, SignInAssumption DEF Checking
<1>4. x \in Requests /\ Holds(x) /\ LetThrough(x)
  <2>1. x \notin Issuing \cup Finding \cup Reading \cup Rotating \cup Answering
    BY <1>3, OnlyOne
  <2>2. p = "terminate" => Opened(e)
    BY <1>1, NoneAssumption DEF Opened
  <2>3. x.op = p /\ x.pc = pc /\ x.email = e /\ x.seen = seen
    OBVIOUS
  <2> HIDE DEF Checking
  <2> QED
    BY <1>2, <1>3, <2>1, <2>2, <2>3, Free DEF Requests, Holds
<1>5. Quiet(req[q]) /\ left' \in Workload
  BY <1>1, IdleFacts, SpendKeeps
<1> QED
  BY <1>1, <1>4, <1>5, RequestOnly
LEMMA BumpAttemptsOK ==
  ASSUME IInv, NEW q \in Reqs, BumpAttempts(q)
  PROVE  IInv'
<1> PICK e, p, r, c : e = req[q].email /\ p = req[q].op /\ r = req[q] /\ c = pending[e][p]
  OBVIOUS
<1>1. /\ r \in Checking /\ r.pc = "bump" /\ r.seen /\ e \in Emails /\ p \in Purposes
      /\ r.op = p /\ r.email = e /\ Holds(r)
  <2>1. r \in Checking /\ r.pc = "bump" /\ Holds(r)
    BY Facts, Steps DEF BumpAttempts, At
  <2> QED
    BY <2>1 DEF Checking, Holds
<1>2. /\ UNCHANGED <<now, limit, people, store, revoking, browser, left, history>>
      /\ fresh' \in {fresh, fresh + 1} /\ fresh' = fresh /\ mailed' = mailed
  BY DEF BumpAttempts
<1>3. /\ pending \in [Emails -> [Purposes -> {None} \cup Code]]
      /\ c \in {None} \cup Code
      /\ c # None => c.code \in 1 .. (fresh' - 1)
      /\ mailed' \subseteq [email : Emails, purpose : Purposes, code : 1 .. (fresh' - 1)]
  BY <1>1, <1>2 DEF IInv, CodeInv
<1>4. ASSUME NEW n \in Nat, NEW x, x = [r EXCEPT !.pc = "fail", !.attempts = n]
      PROVE  /\ x \in Requests /\ Holds(x) /\ x \notin Reading \cup Rotating
             /\ n >= MaxAttempts => Drops(x, e, p)
             /\ x \in Checking
  <2>1. x \in Checking /\ x.pc = "fail" /\ x.attempts = n
    BY <1>1, <1>4 DEF Checking
  <2>2. x.op = p /\ x.email = e /\ x.seen = r.seen
    BY <1>1, <1>4 DEF Checking
  <2>3. x \notin Issuing \cup Finding \cup Reading \cup Rotating \cup Answering
    BY <2>1, OnlyOne
  <2> QED
    BY <1>1, <2>1, <2>2, <2>3 DEF Requests, Holds, Drops
<1>5. \A f, d : ~Locks(req[q], f, d)
  BY <1>1, OnlyOne DEF Locks
<1>6. \A f, k : ~Drops(req[q], f, k)
  BY <1>1, OnlyOne DEF Drops
<1>7. CASE c = None
  <2> PICK x : x = [r EXCEPT !.pc = "fail"]
    OBVIOUS
  <2>1. r.attempts \in Nat /\ x = [r EXCEPT !.pc = "fail", !.attempts = r.attempts]
    BY <1>1 DEF Checking
  <2>2. x \in Requests /\ Holds(x) /\ x \notin Reading \cup Rotating
    BY <1>4, <2>1
  <2>3. req' = [req EXCEPT ![q] = x] /\ pending' = pending
    BY <1>7 DEF BumpAttempts, Step, Goto
  <2>4. pending' = [pending EXCEPT ![e][p] = c]
    BY <1>1, <1>3, <2>3
  <2>5. /\ \A f, d : Locks(req[q], f, d) => Locks(x, f, d)
        /\ \A f, k : Drops(req[q], f, k) => Drops(x, f, k) \/ (f = e /\ k = p)
        /\ c # None /\ c.attempts >= MaxAttempts =>
             Drops(x, e, p) \/ (pending[e][p] = c /\ ~Drops(req[q], e, p))
    BY <1>5, <1>6, <1>7
  <2>6. /\ e \in Emails /\ p \in Purposes /\ c \in {None} \cup Code
        /\ c # None => c.code \in 1 .. (fresh' - 1)
    BY <1>1, <1>3
  <2>7. mailed' \subseteq [email : Emails, purpose : Purposes, code : 1 .. (fresh' - 1)]
    BY <1>3
  <2>8. req' = [req EXCEPT ![q] = x]
    BY <2>3
  <2> QED
    BY ONLY IInv, q \in Reqs, <1>2, <2>2, <2>4, <2>5, <2>6, <2>7, <2>8, PendingStep
<1>8. CASE c # None
  <2> PICK n, k : n = c.attempts + 1 /\ k = [c EXCEPT !.attempts = n]
    OBVIOUS
  <2> PICK x : x = [r EXCEPT !.pc = "fail", !.attempts = n]
    OBVIOUS
  <2>1. /\ n \in Nat /\ k \in Code /\ k.attempts = n /\ k.code = c.code
    <3>1. c \in Code /\ n = c.attempts + 1 /\ k = [c EXCEPT !.attempts = n]
      BY <1>3, <1>8
    <3>2. n \in Nat
      BY ONLY <3>1 DEF Code
    <3> QED
      BY ONLY <3>1, <3>2 DEF Code
  <2>2. /\ x \in Requests /\ Holds(x) /\ x \notin Reading \cup Rotating
        /\ n >= MaxAttempts => Drops(x, e, p)
    BY <1>4, <2>1
  <2>3. req' = [req EXCEPT ![q] = x] /\ pending' = [pending EXCEPT ![e][p].attempts = @ + 1]
    BY <1>8 DEF BumpAttempts, Goto, Bumped
  <2>4. pending' = [pending EXCEPT ![e][p] = k]
    BY <1>1, <1>3, <2>3
  <2>5. /\ \A f, d : Locks(req[q], f, d) => Locks(x, f, d)
        /\ \A f, j : Drops(req[q], f, j) => Drops(x, f, j) \/ (f = e /\ j = p)
        /\ k # None /\ k.attempts >= MaxAttempts =>
             Drops(x, e, p) \/ (pending[e][p] = k /\ ~Drops(req[q], e, p))
    BY <1>5, <1>6, <2>1, <2>2
  <2>6. /\ e \in Emails /\ p \in Purposes /\ k \in {None} \cup Code
        /\ k # None => k.code \in 1 .. (fresh' - 1)
    BY <1>1, <1>3, <1>8, <2>1
  <2>7. mailed' \subseteq [email : Emails, purpose : Purposes, code : 1 .. (fresh' - 1)]
    BY <1>3
  <2>8. x \in Requests /\ Holds(x) /\ x \notin Reading \cup Rotating
    BY <2>2
  <2>9. req' = [req EXCEPT ![q] = x]
    BY <2>3
  <2> QED
    BY ONLY IInv, q \in Reqs, <1>2, <2>4, <2>5, <2>6, <2>7, <2>8, <2>9, PendingStep
<1> QED
  BY <1>7, <1>8

LEMMA RecordFailureOK ==
  ASSUME IInv, NEW q \in Reqs, RecordFailure(q)
  PROVE  IInv'
<1> PICK e, d, r : e = req[q].email /\ d = Day(req[q].at) /\ r = req[q]
  OBVIOUS
<1> PICK drop, lock : /\ drop = (r.seen /\ DropsCode(r))
                      /\ lock = LocksEmail(limit[e][d].failures + 1)
  OBVIOUS
<1> PICK x : x = [op |-> r.op, pc |-> "drop", email |-> e, at |-> r.at,
                  drop |-> drop, lock |-> lock]
  OBVIOUS
<1>1. /\ r \in Checking /\ r.pc = "fail" /\ e \in Emails /\ d \in Days
      /\ r.at \in 0 .. MaxTime /\ r.op \in Purposes
  <2>1. r \in Checking /\ r.pc = "fail"
    BY Facts, Steps DEF RecordFailure, At
  <2>2. r.at \in 0 .. MaxTime /\ r.email \in Emails /\ r.op \in Purposes
    BY <2>1 DEF Checking
  <2> QED
    BY <2>1, <2>2, DayFacts
<1>2. drop \in BOOLEAN /\ lock \in BOOLEAN
  BY <1>1 DEF LocksEmail, Checking
<1>3. x \in Failed
  BY <1>1, <1>2 DEF Failed
<1>4. x \in Requests /\ Holds(x) /\ x \notin Reading \cup Rotating
  BY <1>3, OnlyOne DEF Requests, Holds
<1>5. /\ req' = [req EXCEPT ![q] = x]
      /\ limit' = [limit EXCEPT ![e][d].failures = @ + 1]
      /\ UNCHANGED <<now, people, store, revoking, browser, left, history>>
      /\ fresh' \in {fresh, fresh + 1} /\ fresh' = fresh /\ mailed' = mailed
      /\ pending' = pending
  BY DEF RecordFailure, Goto
<1>6. limit \in [Emails -> [Days -> [sends : 0 .. MaxSends, failures : Nat, until : Nat]]]
  BY DEF IInv, CodeInv
<1>7. PICK l : l = [limit[e][d] EXCEPT !.failures = @ + 1]
  OBVIOUS
<1>8. l \in [sends : 0 .. MaxSends, failures : Nat, until : Nat]
      /\ l.failures = limit[e][d].failures + 1
  <2>1. limit[e][d] \in [sends : 0 .. MaxSends, failures : Nat, until : Nat]
    BY <1>1, <1>6
  <2>2. l = [limit[e][d] EXCEPT !.failures = limit[e][d].failures + 1]
    BY <1>7
  <2> QED
    BY ONLY <2>1, <2>2
<1>9. limit' = [limit EXCEPT ![e][d] = l]
  BY <1>5, <1>7
<1>10. /\ limit' \in [Emails -> [Days -> [sends : 0 .. MaxSends, failures : Nat, until : Nat]]]
       /\ \A f \in Emails, c \in Days :
            limit'[f][c] = IF f = e /\ c = d THEN l ELSE limit[f][c]
  BY ONLY <1>1, <1>6, <1>8, <1>9, LimitEdit
<1>11. CodeInv'
  BY <1>5, <1>10 DEF IInv, CodeInv
<1>12. ASSUME \A v \in Reqs : req'[v] = IF v = q THEN x ELSE req[v]
       PROVE  LockInv' /\ DropInv'
  <2>1. \A f \in Emails, c \in Days : limit'[f][c].failures >= MaxFailures =>
          \/ limit'[f][c].until > 0
          \/ Locks(x, f, c)
          \/ /\ limit[f][c].failures >= MaxFailures /\ ~(limit[f][c].until > 0)
             /\ ~Locks(req[q], f, c)
    <3> TAKE f \in Emails, c \in Days
    <3>1. CASE f = e /\ c = d
      <4>1. limit'[f][c].failures = limit[e][d].failures + 1
        BY <1>1, <1>8, <1>10, <3>1
      <4>2. lock = (limit[e][d].failures + 1 >= MaxFailures)
        BY DEF LocksEmail
      <4>3. x.lock = lock /\ x.email = e /\ x.at = r.at
        OBVIOUS
      <4> QED
        BY <1>3, <3>1, <4>1, <4>2, <4>3 DEF Locks
    <3>2. CASE ~(f = e /\ c = d)
      BY <1>1, <1>10, <3>2, OnlyOne DEF Locks
    <3> QED
      BY <3>1, <3>2
  <2>2. LockInv'
    BY ONLY IInv, q \in Reqs, <1>12, <2>1, LocksKept
  <2>3. \A f, p : Drops(r, f, p) => Drops(x, f, p)
    <3>1. x.drop = drop /\ x.email = e /\ x.op = r.op /\ x.pc = "drop"
      OBVIOUS
    <3>2. r.seen /\ r.attempts >= MaxAttempts => drop
      BY DEF DropsCode
    <3> QED
      BY <1>1, <1>3, <3>1, <3>2, OnlyOne DEF Drops
  <2>4. \A f \in Emails, p \in Purposes :
           pending'[f][p] # None /\ pending'[f][p].attempts >= MaxAttempts =>
             \/ Drops(x, f, p)
             \/ /\ pending[f][p] # None /\ pending[f][p].attempts >= MaxAttempts
                /\ ~Drops(req[q], f, p)
    BY <1>5, <2>3
  <2>5. DropInv'
    BY ONLY IInv, q \in Reqs, <1>12, <2>4, DropsKept
  <2> QED
    BY <2>2, <2>5
<1>13. (\A v \in Reqs : req'[v] = IF v = q THEN x ELSE req[v]) => LockInv' /\ DropInv'
  BY <1>12
<1> QED
  BY ONLY IInv, q \in Reqs, <1>4, <1>5, <1>11, <1>13, CodesOnly
LEMMA DropCodeOK ==
  ASSUME IInv, NEW q \in Reqs, DropCode(q)
  PROVE  IInv'
<1> PICK e, p, r : e = req[q].email /\ p = req[q].op /\ r = req[q]
  OBVIOUS
<1> PICK c : c = IF r.drop THEN None ELSE pending[e][p]
  OBVIOUS
<1> PICK x : x = IF r.lock THEN [r EXCEPT !.pc = "lock"] ELSE NoRequest
  OBVIOUS
<1>1. /\ r \in Failed /\ r.pc = "drop" /\ e \in Emails /\ p \in Purposes
      /\ r.email = e /\ r.op = p /\ r.drop \in BOOLEAN /\ r.lock \in BOOLEAN
  <2>1. r \in Failed /\ r.pc = "drop"
    BY Facts, Steps DEF DropCode, At
  <2> QED
    BY <2>1 DEF Failed
<1>2. /\ UNCHANGED <<now, limit, people, store, revoking, browser, left, history>>
      /\ fresh' \in {fresh, fresh + 1} /\ fresh' = fresh /\ mailed' = mailed
  BY DEF DropCode
<1>3. /\ pending \in [Emails -> [Purposes -> {None} \cup Code]]
      /\ c \in {None} \cup Code
      /\ c # None => c.code \in 1 .. (fresh' - 1)
      /\ mailed' \subseteq [email : Emails, purpose : Purposes, code : 1 .. (fresh' - 1)]
  BY <1>1, <1>2 DEF IInv, CodeInv
<1>4. pending' = [pending EXCEPT ![e][p] = c]
  <2>1. CASE r.drop
    BY <2>1 DEF DropCode
  <2>2. CASE ~r.drop
    BY <1>1, <1>3, <2>2 DEF DropCode
  <2> QED
    BY <1>1, <2>1, <2>2
<1>5. req' = [req EXCEPT ![q] = x]
  BY DEF DropCode, Step, Goto, Done
<1>6. /\ x \in Requests /\ Holds(x) /\ x \notin Reading \cup Rotating
      /\ \A f, d : Locks(req[q], f, d) => Locks(x, f, d)
  <2>1. CASE r.lock
    <3>1. /\ x \in Failed /\ x.pc = "lock" /\ x.email = r.email /\ x.op = r.op
          /\ x.at = r.at /\ x.lock
      BY <1>1, <2>1 DEF Failed
    <3> QED
      BY <3>1, OnlyOne DEF Requests, Holds, Locks
  <2>2. CASE ~r.lock
    BY <2>2, NoRequestFacts DEF Locks, Holds
  <2> QED
    BY <1>1, <2>1, <2>2
<1>7. \A f, k : Drops(req[q], f, k) => r.drop /\ f = e /\ k = p
  BY <1>1, OnlyOne DEF Drops
<1>8. /\ \A f, k : Drops(req[q], f, k) => Drops(x, f, k) \/ (f = e /\ k = p)
      /\ c # None /\ c.attempts >= MaxAttempts =>
           Drops(x, e, p) \/ (pending[e][p] = c /\ ~Drops(req[q], e, p))
  BY <1>7
<1>9. e \in Emails /\ p \in Purposes
  BY <1>1
<1> QED
  BY ONLY IInv, q \in Reqs, <1>2, <1>3, <1>4, <1>5, <1>6, <1>8, <1>9, PendingStep

LEMMA LockEmailOK ==
  ASSUME IInv, NEW q \in Reqs, LockEmail(q)
  PROVE  IInv'
<1> PICK e, d, r, u : /\ e = req[q].email /\ d = Day(req[q].at) /\ r = req[q]
                      /\ u = req[q].at + LockFor
  OBVIOUS
<1>1. /\ r \in Failed /\ r.pc = "lock" /\ e \in Emails /\ d \in Days
      /\ r.email = e /\ Day(r.at) = d /\ u \in Nat /\ u > 0
  <2>1. r \in Failed /\ r.pc = "lock"
    BY Facts, Steps DEF LockEmail, At
  <2>2. r.at \in 0 .. MaxTime /\ r.email \in Emails /\ LockFor \in Nat /\ LockFor > 0
        /\ MaxTime \in Nat
    BY <2>1, SignInAssumption DEF Failed
  <2> QED
    BY <2>1, <2>2, DayFacts
<1>2. /\ req' = [req EXCEPT ![q] = NoRequest]
      /\ limit' = [limit EXCEPT ![e][d].until = u]
      /\ UNCHANGED <<now, people, store, revoking, browser, left, history>>
      /\ fresh' \in {fresh, fresh + 1} /\ fresh' = fresh /\ mailed' = mailed
      /\ pending' = pending
  BY DEF LockEmail, Goto, Done
<1>3. limit \in [Emails -> [Days -> [sends : 0 .. MaxSends, failures : Nat, until : Nat]]]
  BY DEF IInv, CodeInv
<1>4. PICK l : l = [limit[e][d] EXCEPT !.until = u]
  OBVIOUS
<1>5. l \in [sends : 0 .. MaxSends, failures : Nat, until : Nat] /\ l.until = u
  <2>1. limit[e][d] \in [sends : 0 .. MaxSends, failures : Nat, until : Nat] /\ u \in Nat
    BY <1>1, <1>3
  <2> QED
    BY <1>4, <2>1
<1>6. limit' = [limit EXCEPT ![e][d] = l]
  BY <1>2, <1>4
<1>7. /\ limit' \in [Emails -> [Days -> [sends : 0 .. MaxSends, failures : Nat, until : Nat]]]
      /\ \A f \in Emails, c \in Days :
           limit'[f][c] = IF f = e /\ c = d THEN l ELSE limit[f][c]
  BY ONLY <1>1, <1>3, <1>5, <1>6, LimitEdit
<1>8. CodeInv'
  BY <1>2, <1>7 DEF IInv, CodeInv
<1>9. ASSUME \A v \in Reqs : req'[v] = IF v = q THEN NoRequest ELSE req[v]
      PROVE  LockInv' /\ DropInv'
  <2>1. \A f \in Emails, c \in Days : limit'[f][c].failures >= MaxFailures =>
          \/ limit'[f][c].until > 0
          \/ Locks(NoRequest, f, c)
          \/ /\ limit[f][c].failures >= MaxFailures /\ ~(limit[f][c].until > 0)
             /\ ~Locks(req[q], f, c)
    <3> TAKE f \in Emails, c \in Days
    <3>1. CASE f = e /\ c = d
      <4>1. limit'[f][c].until = u
        BY <1>5, <1>7, <3>1
      <4> QED
        BY <1>1, <4>1
    <3>2. CASE ~(f = e /\ c = d)
      <4>1. limit'[f][c] = limit[f][c] /\ ~Locks(req[q], f, c)
        BY <1>1, <1>7, <3>2 DEF Locks
      <4> QED
        BY <4>1
    <3> QED
      BY <3>1, <3>2
  <2>2. LockInv'
    BY ONLY IInv, q \in Reqs, <1>9, <2>1, LocksKept
  <2>3. \A f, p : ~Drops(req[q], f, p)
    BY <1>1, OnlyOne DEF Drops
  <2>4. \A f \in Emails, p \in Purposes :
           pending'[f][p] # None /\ pending'[f][p].attempts >= MaxAttempts =>
             \/ Drops(NoRequest, f, p)
             \/ /\ pending[f][p] # None /\ pending[f][p].attempts >= MaxAttempts
                /\ ~Drops(req[q], f, p)
    BY <1>2, <2>3
  <2>5. DropInv'
    BY ONLY IInv, q \in Reqs, <1>9, <2>4, DropsKept
  <2> QED
    BY <2>2, <2>5
<1>10. (\A v \in Reqs : req'[v] = IF v = q THEN NoRequest ELSE req[v]) => LockInv' /\ DropInv'
  BY <1>9
<1>11. NoRequest \in Requests /\ Holds(NoRequest) /\ NoRequest \notin Reading \cup Rotating
  BY NoRequestFacts DEF Holds
<1> QED
  BY ONLY IInv, q \in Reqs, <1>2, <1>8, <1>10, <1>11, CodesOnly

(* A code that was verified is consumed.                                   *)
LEMMA Consumes ==
  ASSUME IInv, NEW q \in Reqs, NEW x, req' = [req EXCEPT ![q] = x],
         x = NoRequest \/ (x \in Checking /\ Holds(x)), req[q] \in Checking,
         req[q].pc = "verified", pending' = [pending EXCEPT ![req[q].email][req[q].op] = None],
         UNCHANGED <<now, limit, mailed, people, store, fresh, revoking, browser, left, history>>
  PROVE  IInv'
<1> PICK e, p, c : e = req[q].email /\ p = req[q].op /\ c = None
  OBVIOUS
<1>1. /\ e \in Emails /\ p \in Purposes /\ c \in {None} \cup Code
      /\ pending' = [pending EXCEPT ![e][p] = c]
      /\ c # None => c.code \in 1 .. (fresh' - 1)
  BY DEF Checking
<1>2. x \in Requests /\ Holds(x) /\ x \notin Reading \cup Rotating
  <2>1. CASE x = NoRequest
    BY <2>1, NoRequestFacts DEF Holds
  <2>2. CASE x \in Checking /\ Holds(x)
    BY <2>2, OnlyOne DEF Requests
  <2> QED
    BY <2>1, <2>2
<1>3. /\ \A f, d : Locks(req[q], f, d) => Locks(x, f, d)
      /\ \A f, k : Drops(req[q], f, k) => Drops(x, f, k) \/ (f = e /\ k = p)
      /\ c # None /\ c.attempts >= MaxAttempts =>
           Drops(x, e, p) \/ (pending[e][p] = c /\ ~Drops(req[q], e, p))
  BY OnlyOne DEF Locks, Drops
<1>4. /\ UNCHANGED <<now, limit, people, store, revoking, browser, left, history>>
      /\ fresh' \in {fresh, fresh + 1}
      /\ mailed' \subseteq [email : Emails, purpose : Purposes, code : 1 .. (fresh' - 1)]
  BY DEF IInv, CodeInv
<1>5. req' = [req EXCEPT ![q] = x]
  OBVIOUS
<1> QED
  BY ONLY IInv, q \in Reqs, <1>1, <1>2, <1>3, <1>4, <1>5, PendingStep

LEMMA ConsumeLoginOK ==
  ASSUME IInv, NEW q \in Reqs, ConsumeLogin(q)
  PROVE  IInv'
<1> PICK r, x : /\ r = req[q]
                /\ x = IF account[req[q].email] = "ok" THEN [req[q] EXCEPT !.pc = "workspace"]
                       ELSE NoRequest
  OBVIOUS
<1>1. r \in Checking /\ r.pc = "verified" /\ r.op = "login"
  BY Facts, Steps DEF ConsumeLogin, At, Purposes
<1>2. /\ req' = [req EXCEPT ![q] = x]
      /\ pending' = [pending EXCEPT ![req[q].email][req[q].op] = None]
      /\ UNCHANGED <<now, limit, mailed, people, store, fresh, revoking, browser, left, history>>
  BY <1>1 DEF ConsumeLogin, Step, Goto, Done
<1>3. x = NoRequest \/ (x \in Checking /\ Holds(x))
  <2> SUFFICES ASSUME account[r.email] = "ok" PROVE x \in Checking /\ Holds(x)
    OBVIOUS
  <2>1. x \in Checking /\ x.pc = "workspace" /\ x.email = r.email
    BY <1>1 DEF Checking
  <2>2. Opened(x.email)
    BY <2>1, NoneAssumption DEF Opened
  <2> QED
    BY <2>1, <2>2, OnlyOne DEF Holds
<1> QED
  BY <1>1, <1>2, <1>3, Consumes

LEMMA ConsumeTerminateOK ==
  ASSUME IInv, NEW q \in Reqs, ConsumeTerminate(q)
  PROVE  IInv'
<1> PICK r, x : r = req[q] /\ x = [req[q] EXCEPT !.pc = "end"]
  OBVIOUS
<1>1. r \in Checking /\ r.pc = "verified" /\ r.op = "terminate" /\ Holds(r)
  BY Facts, Steps DEF ConsumeTerminate, At, Purposes
<1>2. /\ req' = [req EXCEPT ![q] = x]
      /\ pending' = [pending EXCEPT ![req[q].email][req[q].op] = None]
      /\ UNCHANGED <<now, limit, mailed, people, store, fresh, revoking, browser, left, history>>
  BY <1>1 DEF ConsumeTerminate, Step, Goto
<1>3. x \in Checking /\ x.pc = "end" /\ x.email = r.email
  BY <1>1 DEF Checking
<1>4. Holds(x)
  BY <1>1, <1>3, OnlyOne DEF Holds
<1> QED
  BY <1>1, <1>2, <1>3, <1>4, Consumes

(* An account has its workspace.                                           *)
LEMMA OwnWorkspace ==
  ASSUME IInv, NEW e \in Emails
  PROVE  (Opened(e) <=> workspace[e] # None) /\ (Opened(e) => workspace[e] \in Workspace)
BY DEF IInv, PeopleInv, SlotsCounted, Opened

LEMMA ReadWorkspaceOK ==
  ASSUME IInv, NEW q \in Reqs, ReadWorkspace(q)
  PROVE  IInv'
<1> PICK r, x : /\ r = req[q]
                /\ x = IF TrialUsable(workspace[req[q].email], now)
                       THEN [op |-> "login", pc |-> "issue", email |-> req[q].email,
                             tab |-> req[q].tab, end |-> workspace[req[q].email].end]
                       ELSE NoRequest
  OBVIOUS
<1>1. r \in Checking /\ r.pc = "workspace" /\ r.op = "login" /\ Holds(r)
  BY Facts, Steps DEF ReadWorkspace, At, Purposes
<1>2. /\ req' = [req EXCEPT ![q] = x]
      /\ UNCHANGED <<now, codes, people, store, fresh, revoking, browser, left, history>>
      /\ UNCHANGED <<now, codes, people, store, fresh, revoking, browser, history>>
  BY DEF ReadWorkspace, Goto, Done
<1>3. r.email \in Emails /\ r.tab \in Tabs /\ Opened(r.email)
  BY <1>1 DEF Checking, Holds
<1>4. x = NoRequest \/ (x \in Issuing /\ x.email = r.email)
  <2> PICK n : n = workspace[r.email].end
    OBVIOUS
  <2>1. n \in Nat
    BY <1>3, OwnWorkspace DEF Workspace
  <2>2. \/ x = NoRequest
        \/ x = [op |-> "login", pc |-> "issue", email |-> r.email, tab |-> r.tab, end |-> n]
    OBVIOUS
  <2> QED
    BY <1>3, <2>1, <2>2 DEF Issuing
<1>5. x \in Requests /\ Holds(x) /\ LetThrough(x)
  <2>1. CASE x = NoRequest
    BY <2>1, NoRequestFacts, Free DEF Holds
  <2>2. CASE x \in Issuing /\ x.email = r.email
    BY <1>3, <2>2, OnlyOne, Free DEF Holds, Requests
  <2> QED
    BY <1>4, <2>1, <2>2
<1>6. Quiet(req[q]) /\ left' \in Workload
  BY <1>1, <1>2, OnlyOne DEF Quiet, IInv, BaseInv
<1> QED
  BY <1>2, <1>5, <1>6, RequestOnly
-----------------------------------------------------------------------------
(* Accounts, workspaces and the sign-ups of a day.                         *)

Slots(d) == {e \in Emails : workspace[e] # None /\ workspace[e].day = d}

LEMMA SignUpStep ==
  ASSUME IInv, Grows, Eased, PeopleInv', NEW q \in Reqs, NEW x,
         req' = [req EXCEPT ![q] = x],
         x = NoRequest \/ (x \in Issuing /\ Opened(x.email)'),
         req[q] \in Checking, req[q].pc = "verified",
         pending' = [pending EXCEPT ![req[q].email][req[q].op] = None],
         UNCHANGED <<now, limit, mailed, open, store, fresh, revoking, browser, left, history>>
  PROVE  IInv'
<1> PICK e, p, c : e = req[q].email /\ p = req[q].op /\ c = None
  OBVIOUS
<1>1. UNCHANGED <<session, rotated, exchanged, revoked, lost, limit>> /\ fresh' = fresh
  BY DEF store, history
<1>2. x \in Requests /\ x \notin Reading \cup Rotating /\ Holds(x)' /\ LetThrough(x)'
  <2>1. CASE x = NoRequest
    BY <2>1, NoRequestFacts, Free DEF Holds
  <2>2. CASE x \in Issuing /\ Opened(x.email)'
    BY <2>2, OnlyOne, Free DEF Requests, Holds
  <2> QED
    BY <2>1, <2>2
<1>3. SameOwners
  BY <1>1, FewerSameOwners
<1>4. /\ ReqInv' /\ RefreshInv'
      /\ \A v \in Reqs : req'[v] = IF v = q THEN x ELSE req[v]
  BY <1>2, <1>3, RequestMoves
<1>5. left' \in Workload /\ UNCHANGED <<now, open, lost>>
      /\ UNCHANGED <<store, exchanged, revoked>> /\ UNCHANGED browser
  BY <1>1 DEF IInv, BaseInv
<1>6. BaseInv' /\ BrowserInv' /\ SessionInv'
  BY <1>5, BaseKept, BrowserKept, SessionsKept
<1>7. /\ e \in Emails /\ p \in Purposes /\ c \in {None} \cup Code
      /\ pending' = [pending EXCEPT ![e][p] = c]
      /\ c # None => c.code \in 1 .. (fresh' - 1)
      /\ UNCHANGED limit /\ fresh' \in {fresh, fresh + 1}
      /\ mailed' \subseteq [email : Emails, purpose : Purposes, code : 1 .. (fresh' - 1)]
  BY <1>1 DEF Checking, IInv, CodeInv
<1>8. /\ CodeInv'
      /\ \A f \in Emails, k \in Purposes :
           pending'[f][k] = IF f = e /\ k = p THEN c ELSE pending[f][k]
  BY ONLY ZenonT(40), IInv, <1>7, PendingCodes
<1>9. /\ \A f, d : Locks(req[q], f, d) => Locks(x, f, d)
      /\ \A f, k : Drops(req[q], f, k) => Drops(x, f, k) \/ (f = e /\ k = p)
      /\ c # None /\ c.attempts >= MaxAttempts =>
           Drops(x, e, p) \/ (pending[e][p] = c /\ ~Drops(req[q], e, p))
  BY OnlyOne DEF Locks, Drops
<1>10. /\ \A f \in Emails, k \in Purposes :
            pending'[f][k] = IF f = e /\ k = p THEN c ELSE pending[f][k]
       /\ \A v \in Reqs : req'[v] = IF v = q THEN x ELSE req[v]
       /\ e \in Emails /\ p \in Purposes /\ UNCHANGED limit
  BY <1>4, <1>7, <1>8
<1>11. LockInv' /\ DropInv'
  BY ONLY IInv, q \in Reqs, <1>9, <1>10, PendingDue
<1> QED
  BY <1>4, <1>6, <1>8, <1>11 DEF IInv

LEMMA IpFacts ==
  ASSUME NEW u \in [signup : 0 .. DailyLimit, ip : 0 .. IpLimit]
  PROVE  /\ IpCounted(u) \in [signup : 0 .. DailyLimit, ip : 0 .. IpLimit]
         /\ IpCounted(u).signup = u.signup
         /\ u.signup < DailyLimit =>
              /\ SlotTaken(u) \in [signup : 0 .. DailyLimit, ip : 0 .. IpLimit]
              /\ SlotTaken(u).signup = u.signup + 1
<1>1. IpLimit \in Nat /\ DailyLimit \in Nat /\ u.signup \in Nat
  BY SignInAssumption
<1> PICK v : v = IpCounted(u)
  OBVIOUS
<1>2. v \in [signup : 0 .. DailyLimit, ip : 0 .. IpLimit] /\ v.signup = u.signup
  <2>1. CASE u.ip < IpLimit
    BY <1>1, <2>1 DEF IpCounted
  <2>2. CASE ~(u.ip < IpLimit)
    BY <2>2 DEF IpCounted
  <2> QED
    BY <2>1, <2>2
<1>3. SlotTaken(u) = [v EXCEPT !.signup = v.signup + 1]
  BY DEF SlotTaken
<1> QED
  BY <1>1, <1>2, <1>3

LEMMA SignUpOK ==
  ASSUME IInv, NEW q \in Reqs, SignUp(q)
  PROVE  IInv'
<1> PICK e, d, r, t : e = req[q].email /\ d = Day(now) /\ r = req[q] /\ t = req[q].tab
  OBVIOUS
<1>1. /\ r \in Checking /\ r.pc = "verified" /\ r.op = "signup" /\ e \in Emails
      /\ t \in Tabs /\ now \in Nat /\ d \in Days /\ MaxTime \in Nat
  <2>1. r \in Checking /\ r.pc = "verified" /\ r.op = "signup"
    BY Facts, Steps DEF SignUp, At, Purposes
  <2> QED
    BY <2>1, Facts, DayFacts DEF Checking
<1>2. /\ pending' = [pending EXCEPT ![req[q].email][req[q].op] = None]
      /\ UNCHANGED <<now, limit, mailed, open, store, fresh, revoking, browser, left, history>>
      /\ UNCHANGED revoking /\ UNCHANGED store /\ fresh' = fresh
  BY <1>1 DEF SignUp
<1>3. /\ usage \in [Days -> [signup : 0 .. DailyLimit, ip : 0 .. IpLimit]]
      /\ account \in [Emails -> {None, "ok", "banned"}]
      /\ workspace \in [Emails -> {None} \cup Workspace]
      /\ revoking \in [Emails -> Nat] /\ SlotsCounted
      /\ fresh \in Nat
  BY DEF IInv, PeopleInv, BaseInv
<1>4. CASE Admitted /\ account[e] # None
  <2>1. /\ usage' = [usage EXCEPT ![d] = AfterDuplicate(@)]
        /\ req' = [req EXCEPT ![q] = NoRequest]
        /\ UNCHANGED <<account, workspace>>
    BY <1>4 DEF SignUp, Done, Goto
  <2>2. usage' = usage
    BY <1>1, <1>3, <2>1 DEF AfterDuplicate
  <2>3. UNCHANGED <<now, limit, mailed, people, store, fresh, revoking, browser, left, history>>
    BY <1>2, <2>1, <2>2 DEF people
  <2> QED
    BY <1>1, <1>2, <2>1, <2>3, Consumes
<1>5. CASE Admitted /\ account[e] = None
  <2> PICK u, w, x, old :
        /\ u = SlotTaken(usage[d])
        /\ w = [status |-> "ACTIVE", end |-> now + TrialFor, day |-> d]
        /\ x = [op |-> "signup", pc |-> "issue", email |-> e, tab |-> t,
                end |-> now + TrialFor]
        /\ old = Slots(d)
    OBVIOUS
  <2>1. /\ usage' = [usage EXCEPT ![d] = u]
        /\ account' = [account EXCEPT ![e] = "ok"]
        /\ workspace' = [workspace EXCEPT ![e] = w]
        /\ req' = [req EXCEPT ![q] = x]
    BY <1>5 DEF SignUp, Goto
  <2>2. /\ w \in Workspace /\ w.day = d /\ w # None /\ workspace[e] = None
        /\ x \in Issuing /\ x.email = e
    BY <1>1, <1>5, OwnWorkspace, SignInAssumption, NoneAssumption
       DEF Workspace, Issuing, Opened
  <2>3. /\ u \in [signup : 0 .. DailyLimit, ip : 0 .. IpLimit]
        /\ u.signup = usage[d].signup + 1
    <3>1. usage[d].signup < DailyLimit
      BY <1>5 DEF Admitted
    <3> QED
      BY <1>1, <1>3, <3>1, IpFacts
  <2>4. Cardinality(Slots(d)') = usage'[d].signup
    <3>1. Slots(d)' = old \cup {e} /\ e \notin old
      BY <1>1, <1>3, <2>1, <2>2 DEF Slots
    <3>2. old \in SUBSET Emails /\ IsFiniteSet(Emails)
      BY SignInAssumption DEF Slots
    <3>3. IsFiniteSet(old)
      BY <3>2, FS_Subset
    <3>4. Cardinality(old \cup {e}) = Cardinality(old) + 1
      BY <3>1, <3>3, FS_AddElement
    <3>5. usage[d].signup = Cardinality(old)
      BY <1>1, <1>3 DEF SlotsCounted, Slots
    <3>6. usage'[d].signup = u.signup
      BY <1>1, <1>3, <2>1
    <3> QED
      BY <2>3, <3>1, <3>4, <3>5, <3>6
  <2>5. \A c \in Days : c # d => Slots(c)' = Slots(c) /\ usage'[c] = usage[c]
    BY <1>1, <1>3, <2>1, <2>2 DEF Slots
  <2>6. SlotsCounted'
    <3>1. \A c \in Days : usage'[c].signup = Cardinality(Slots(c)')
      <4> TAKE c \in Days
      <4>1. c # d => usage[c].signup = Cardinality(Slots(c))
        BY <1>3 DEF SlotsCounted, Slots
      <4> QED
        BY <2>4, <2>5, <4>1
    <3>2. \A f \in Emails : account'[f] # None <=> workspace'[f] # None
      BY <1>1, <1>3, <2>1, <2>2, NoneAssumption DEF SlotsCounted
    <3> QED
      BY <3>1, <3>2 DEF SlotsCounted, Slots
  <2>7. PeopleInv'
    BY <1>1, <1>2, <1>3, <2>1, <2>2, <2>3, <2>6 DEF PeopleInv
  <2>8. Grows /\ Opened(e)'
    BY <1>1, <1>2, <1>3, <2>1, NoneAssumption DEF Grows, Opened
  <2>9. Eased
    BY <1>2, <1>3, <1>5, <2>1 DEF Eased, Opened
  <2>10. x = NoRequest \/ (x \in Issuing /\ Opened(x.email)')
    BY <2>2, <2>8
  <2> QED
    BY ONLY IInv, <2>7, <2>8, <2>9, <2>10, <2>1, <1>1, <1>2, q \in Reqs, r = req[q], SignUpStep
<1>6. CASE ~Admitted
  <2>1. /\ usage' = [usage EXCEPT ![d] = IpCounted(@)]
        /\ req' = [req EXCEPT ![q] = NoRequest]
        /\ UNCHANGED <<account, workspace>>
    BY <1>6 DEF SignUp, Done, Goto
  <2> PICK u : u = IpCounted(usage[d])
    OBVIOUS
  <2>2. /\ u \in [signup : 0 .. DailyLimit, ip : 0 .. IpLimit]
        /\ u.signup = usage[d].signup
    BY <1>1, <1>3, IpFacts
  <2>3. /\ usage' \in [Days -> [signup : 0 .. DailyLimit, ip : 0 .. IpLimit]]
        /\ \A c \in Days : usage'[c].signup = usage[c].signup
    <3>1. usage' = [usage EXCEPT ![d] = u]
      BY <2>1
    <3> QED
      BY <1>1, <1>3, <2>2, <3>1
  <2>4. SlotsCounted'
    BY <1>3, <2>1, <2>3 DEF SlotsCounted
  <2>5. PeopleInv'
    BY <1>2, <1>3, <2>1, <2>3, <2>4 DEF PeopleInv
  <2>6. Grows /\ Eased
    BY <1>2, <1>3, <2>1, SameGrows, SameEased
  <2>7. NoRequest = NoRequest \/ (NoRequest \in Issuing /\ Opened(NoRequest.email)')
    OBVIOUS
  <2> QED
    BY ONLY IInv, <2>5, <2>6, <2>7, <2>1, <1>1, <1>2, q \in Reqs, r = req[q], SignUpStep
<1> QED
  BY <1>4, <1>5, <1>6
(* An account and its trial change, or its sessions are due to go.         *)
LEMMA AccountChanges ==
  ASSUME IInv, NEW e \in Emails, Opened(e), UNCHANGED <<usage, fresh>>,
         NEW w \in Workspace, w.day = workspace[e].day,
         workspace' = [workspace EXCEPT ![e] = w],
         NEW a \in {"ok", "banned"}, account' = [account EXCEPT ![e] = a],
         NEW n \in Nat, revoking' = [revoking EXCEPT ![e] = n],
         n > 0 \/ /\ n = revoking[e]
                  /\ account[e] = "ok" => a = "ok"
                  /\ workspace[e].status = "ACTIVE" => w.status = "ACTIVE"
  PROVE  PeopleInv' /\ Grows /\ Eased
<1>1. /\ usage \in [Days -> [signup : 0 .. DailyLimit, ip : 0 .. IpLimit]]
      /\ account \in [Emails -> {None, "ok", "banned"}]
      /\ workspace \in [Emails -> {None} \cup Workspace]
      /\ revoking \in [Emails -> Nat] /\ SlotsCounted
      /\ fresh \in Nat
  BY DEF IInv, PeopleInv, BaseInv
<1>2. /\ workspace[e] # None /\ w # None /\ account[e] # None /\ a # None
  BY OwnWorkspace, NoneAssumption DEF Opened
<1>3. \A f \in Emails : /\ workspace'[f] = IF f = e THEN w ELSE workspace[f]
                        /\ account'[f] = IF f = e THEN a ELSE account[f]
                        /\ revoking'[f] = IF f = e THEN n ELSE revoking[f]
  BY <1>1
<1>4. \A d : Slots(d)' = Slots(d)
  BY <1>2, <1>3 DEF Slots
<1>5. SlotsCounted'
  <2>1. \A d \in Days : usage'[d].signup = Cardinality(Slots(d)')
    BY <1>1, <1>4 DEF SlotsCounted, Slots
  <2>2. \A f \in Emails : account'[f] # None <=> workspace'[f] # None
    BY <1>1, <1>2, <1>3 DEF SlotsCounted
  <2> QED
    BY <2>1, <2>2 DEF SlotsCounted, Slots
<1>6. PeopleInv'
  BY <1>1, <1>5 DEF PeopleInv
<1>7. Grows
  BY <1>1, <1>2, <1>3 DEF Grows, Opened
<1>8. Eased
  BY <1>3 DEF Eased
<1> QED
  BY <1>6, <1>7, <1>8

(* No request changes.                                                     *)
LEMMA NoRequestStep ==
  ASSUME IInv, Grows, Eased, PeopleInv', CodeInv', DropInv', UNCHANGED <<req, limit>>,
         UNCHANGED <<exchanged, revoked, lost, browser, fresh>>, session' \subseteq session,
         rotated' \subseteq rotated, now' \in 0 .. MaxTime, open' \in BOOLEAN,
         left' \in Workload
  PROVE  IInv'
<1>1. ReqInv' /\ RefreshInv'
  BY FewerSameOwners, NoneMoves
<1>2. BaseInv'
  BY DEF IInv, BaseInv
<1>3. BrowserInv'
  BY BrowserKept
<1>4. SessionInv'
  <2>1. revoked' \subseteq 1 .. (fresh - 1) /\ \A s \in session' : s.id \notin revoked'
    BY DEF IInv, SessionInv, TokensSpent, RevokedStays
  <2> QED
    BY <2>1, SessionsGone
<1>5. LockInv'
  BY DEF IInv, LockInv
<1> QED
  BY <1>1, <1>2, <1>3, <1>4, <1>5 DEF IInv

LEMMA SameCodes ==
  ASSUME IInv, UNCHANGED <<codes, fresh, req>>
  PROVE  CodeInv' /\ DropInv'
BY DEF IInv, CodeInv, DropInv, codes

LEMMA SamePeople ==
  ASSUME IInv, UNCHANGED <<people, fresh, revoking>>
  PROVE  PeopleInv' /\ Grows /\ Eased
<1>1. UNCHANGED <<account, workspace, usage, fresh, revoking>>
  BY DEF people
<1>2. revoking' \in [Emails -> Nat] /\ fresh' \in {fresh, fresh + 1}
  BY <1>1 DEF IInv, PeopleInv
<1> QED
  BY <1>1, <1>2, PeopleKept, SameGrows, SameEased

(* EndedAt and expireDue leave a workspace of the same day.                *)
LEMMA EndedWorkspace ==
  ASSUME IInv, NEW w \in Workspace, NEW n \in Nat
  PROVE  /\ [w EXCEPT !.status = "EXPIRED"] \in Workspace
         /\ [w EXCEPT !.status = "EXPIRED"].day = w.day
         /\ EndedAt(w) \in Workspace /\ EndedAt(w).day = w.day
         /\ [w EXCEPT !.status = "ACTIVE", !.end = n] \in Workspace
         /\ [w EXCEPT !.status = "ACTIVE", !.end = n].day = w.day
<1>1. now \in Nat
  BY SignInAssumption DEF IInv, BaseInv
<1>2. [w EXCEPT !.status = "EXPIRED"] \in Workspace
      /\ [w EXCEPT !.status = "EXPIRED"].day = w.day
  BY DEF Workspace
<1>3. EndedAt(w) \in Workspace /\ EndedAt(w).day = w.day
  BY <1>1 DEF Workspace, EndedAt
<1>4. [w EXCEPT !.status = "ACTIVE", !.end = n] \in Workspace
      /\ [w EXCEPT !.status = "ACTIVE", !.end = n].day = w.day
  BY DEF Workspace
<1> QED
  BY <1>2, <1>3, <1>4

LEMMA EndTrialOK ==
  ASSUME IInv, NEW q \in Reqs, EndTrial(q)
  PROVE  IInv'
<1> PICK e, r : e = req[q].email /\ r = req[q]
  OBVIOUS
<1>1. /\ r \in Checking /\ r.pc = "end" /\ Holds(r) /\ e \in Emails /\ Opened(e)
      /\ r.op = "terminate"
  <2>1. r \in Checking /\ r.pc = "end" /\ r.op = "terminate" /\ Holds(r)
    BY Facts, Steps DEF EndTrial, At, Purposes
  <2> QED
    BY <2>1 DEF Checking, Holds
<1>2. /\ req' = [req EXCEPT ![q] = NoRequest]
      /\ UNCHANGED <<now, codes, account, usage, open, store, fresh, browser, left, history>>
  BY DEF EndTrial, Done, Goto
<1>3. UNCHANGED <<limit, pending, mailed, account, usage, open, session, rotated, fresh,
                  exchanged, revoked, lost, left, now, browser>>
  BY <1>2 DEF codes, store, history
<1>4. account[e] \in {"ok", "banned"} /\ revoking[e] \in Nat /\ workspace[e] \in Workspace
      /\ account \in [Emails -> {None, "ok", "banned"}]
      /\ workspace \in [Emails -> {None} \cup Workspace]
      /\ revoking \in [Emails -> Nat]
  BY <1>1, OwnWorkspace DEF IInv, PeopleInv, Opened
<1>5. PeopleInv' /\ Grows /\ Eased
  <2>1. CASE workspace[e].status = "ACTIVE"
    <3> PICK w, n, a : w = EndedAt(workspace[e]) /\ n = revoking[e] + 1 /\ a = account[e]
      OBVIOUS
    <3>1. /\ workspace' = [workspace EXCEPT ![e] = w]
          /\ revoking' = [revoking EXCEPT ![e] = n]
      BY <2>1 DEF EndTrial
    <3>2. w \in Workspace /\ w.day = workspace[e].day
      BY <1>4, EndedWorkspace
    <3>3. n \in Nat /\ n > 0 /\ a \in {"ok", "banned"}
      BY <1>4
    <3>4. account' = [account EXCEPT ![e] = a] /\ UNCHANGED <<usage, fresh>>
      BY <1>3, <1>4
    <3> QED
      BY <1>1, <3>1, <3>2, <3>3, <3>4, AccountChanges
  <2>2. CASE workspace[e].status # "ACTIVE"
    <3>1. UNCHANGED <<people, fresh, revoking>>
      BY <1>3, <2>2 DEF EndTrial, people
    <3> QED
      BY <3>1, SamePeople
  <2> QED
    BY <2>1, <2>2
<1>6. /\ NoRequest \in Requests /\ Holds(NoRequest)' /\ LetThrough(NoRequest)'
      /\ Quiet(req[q])
  BY <1>1, NoRequestFacts, Free, OnlyOne DEF Holds, Quiet
<1>7. /\ ReqInv' /\ RefreshInv'
      /\ \A v \in Reqs : req'[v] = IF v = q THEN NoRequest ELSE req[v]
  <2>1. SameOwners
    BY <1>3, FewerSameOwners
  <2> QED
    BY <1>2, <1>5, <1>6, <2>1, RequestMoves
<1>8. LockInv' /\ DropInv'
  <2>1. (\A e_1, d : ~Locks(req[q], e_1, d)) /\ (\A e_1, p : ~Drops(req[q], e_1, p))
    BY <1>6, QuietFacts
  <2>2. UNCHANGED <<limit, pending>>
    BY <1>3
  <2> QED
    BY <1>7, <2>1, <2>2, SameLocks
<1>9. UNCHANGED <<store, exchanged, revoked>> /\ left' \in Workload
      /\ UNCHANGED <<now, open, lost>> /\ UNCHANGED codes /\ UNCHANGED browser
  BY <1>2, <1>3 DEF IInv, BaseInv
<1>10. BaseInv' /\ CodeInv' /\ BrowserInv' /\ SessionInv'
  BY <1>5, <1>9, BaseKept, CodesKept, BrowserKept, SessionsKept
<1> QED
  BY <1>5, <1>7, <1>8, <1>10 DEF IInv

LEMMA ExpireOK ==
  ASSUME IInv, NEW e \in Emails, Expire(e)
  PROVE  IInv'
<1> PICK w, n, a : /\ w = [workspace[e] EXCEPT !.status = "EXPIRED"]
                   /\ n = revoking[e] + 1 /\ a = account[e]
  OBVIOUS
<1>1. /\ workspace' = [workspace EXCEPT ![e] = w]
      /\ revoking' = [revoking EXCEPT ![e] = n]
      /\ workspace[e] # None
      /\ UNCHANGED <<now, codes, account, usage, open, store, fresh, req, browser, left, history>>
  BY DEF Expire, Trials
<1>2. Opened(e) /\ account[e] \in {"ok", "banned"} /\ revoking[e] \in Nat
      /\ workspace[e] \in Workspace /\ account \in [Emails -> {None, "ok", "banned"}]
  BY <1>1, OwnWorkspace DEF IInv, PeopleInv, Opened
<1>3. UNCHANGED <<usage, fresh>> /\ account' = [account EXCEPT ![e] = a]
  BY <1>1, <1>2
<1>4. w \in Workspace /\ w.day = workspace[e].day
  BY <1>2, EndedWorkspace
<1>5. n \in Nat /\ n > 0 /\ a \in {"ok", "banned"}
  BY <1>2
<1>6. PeopleInv' /\ Grows /\ Eased
  BY <1>1, <1>2, <1>3, <1>4, <1>5, AccountChanges
<1>7. UNCHANGED <<codes, fresh, req>>
  BY <1>1
<1>8. /\ UNCHANGED <<req, limit>> /\ UNCHANGED <<exchanged, revoked, lost, browser, fresh>>
      /\ session' \subseteq session /\ rotated' \subseteq rotated
      /\ now' \in 0 .. MaxTime /\ open' \in BOOLEAN /\ left' \in Workload
  BY <1>1 DEF codes, store, history, IInv, BaseInv
<1> QED
  BY <1>6, <1>7, <1>8, SameCodes, NoRequestStep

LEMMA AdminActsOK ==
  ASSUME IInv, NEW e \in Emails, NEW kind \in left.kinds, AdminActs(e, kind)
  PROVE  IInv'
<1> PICK w, n, a :
      /\ w = CASE kind = "end" /\ workspace[e].status = "ACTIVE" -> EndedAt(workspace[e])
               [] kind = "move" -> [workspace[e] EXCEPT !.status = "ACTIVE", !.end = now + 1]
               [] OTHER -> workspace[e]
      /\ n = CASE kind = "end" /\ e \in Trials("ACTIVE") -> revoking[e] + 2
               [] kind = "unban" -> revoking[e]
               [] OTHER -> revoking[e] + 1
      /\ a = CASE kind = "ban" -> "banned" [] kind = "unban" -> "ok" [] OTHER -> account[e]
  OBVIOUS
<1>1. /\ workspace' = [workspace EXCEPT ![e] = w]
      /\ revoking' = [revoking EXCEPT ![e] = n]
      /\ account' = [account EXCEPT ![e] = a]
      /\ account[e] # None /\ Spend("admin")
      /\ UNCHANGED <<now, codes, usage, open, store, fresh, req, browser, history>>
  BY DEF AdminActs
<1>2. Opened(e) /\ account[e] \in {"ok", "banned"} /\ revoking[e] \in Nat
      /\ workspace[e] \in Workspace /\ now + 1 \in Nat
      /\ kind \in {"end", "move", "ban", "unban", "revoke"}
  BY <1>1, OwnWorkspace, SignInAssumption DEF IInv, PeopleInv, BaseInv, Opened, Workload
<1>3. w \in Workspace /\ w.day = workspace[e].day
  BY <1>2, EndedWorkspace
<1>4. n \in Nat /\ a \in {"ok", "banned"}
  BY <1>2
<1>5. n > 0 \/ /\ n = revoking[e]
               /\ account[e] = "ok" => a = "ok"
               /\ workspace[e].status = "ACTIVE" => w.status = "ACTIVE"
  BY <1>2
<1>6. UNCHANGED <<usage, fresh>>
  BY <1>1
<1>7. PeopleInv' /\ Grows /\ Eased
  BY ONLY IInv, e \in Emails, <1>1, <1>2, <1>3, <1>4, <1>5, <1>6, AccountChanges
<1>8. UNCHANGED <<codes, fresh, req>> /\ left' \in Workload
  BY <1>1, SpendKeeps
<1>9. /\ UNCHANGED <<req, limit>> /\ UNCHANGED <<exchanged, revoked, lost, browser, fresh>>
      /\ session' \subseteq session /\ rotated' \subseteq rotated
      /\ now' \in 0 .. MaxTime /\ open' \in BOOLEAN
  BY <1>1 DEF codes, store, history, IInv, BaseInv
<1> QED
  BY <1>7, <1>8, <1>9, SameCodes, NoRequestStep

LEMMA RevokeUserOK ==
  ASSUME IInv, NEW e \in Emails, RevokeUser(e)
  PROVE  IInv'
<1>1. /\ session' = session \ Sessions(e) /\ revoking' = [revoking EXCEPT ![e] = @ - 1]
      /\ revoking[e] > 0
      /\ UNCHANGED <<now, codes, people, rotated, fresh, req, browser, left, history>>
  BY DEF RevokeUser
<1>2. UNCHANGED <<account, workspace, usage, open, limit, exchanged, revoked, lost>>
  BY <1>1 DEF people, codes, history
<1>3. revoking \in [Emails -> Nat]
  BY DEF IInv, PeopleInv
<1>4. revoking' \in [Emails -> Nat]
  <2>1. revoking[e] - 1 \in Nat
    BY <1>1, <1>3
  <2> QED
    BY <1>1, <1>3, <2>1
<1>5. PeopleInv'
  BY <1>2, <1>4, PeopleKept
<1>6. Grows
  BY <1>1, <1>2, SameGrows
<1>7. Eased
  BY <1>1, <1>2, <1>3 DEF Eased, Sessions
<1>8. UNCHANGED <<codes, fresh, req>>
  BY <1>1
<1>9. /\ UNCHANGED <<req, limit>> /\ UNCHANGED <<exchanged, revoked, lost, browser, fresh>>
      /\ session' \subseteq session /\ rotated' \subseteq rotated
      /\ now' \in 0 .. MaxTime /\ open' \in BOOLEAN /\ left' \in Workload
  BY <1>1, <1>2 DEF IInv, BaseInv
<1> QED
  BY <1>5, <1>6, <1>7, <1>8, <1>9, SameCodes, NoRequestStep

LEMMA ToggleSignupOK ==
  ASSUME IInv, ToggleSignup
  PROVE  IInv'
<1>1. /\ Spend("toggle") /\ open' = ~open
      /\ UNCHANGED <<now, codes, account, workspace, usage, store, fresh, req, revoking,
                     browser, history>>
  BY DEF ToggleSignup
<1>2. PeopleInv' /\ Grows /\ Eased
  <2>1. UNCHANGED <<account, workspace, usage>> /\ revoking' \in [Emails -> Nat]
        /\ fresh' \in {fresh, fresh + 1}
    BY <1>1 DEF IInv, PeopleInv
  <2> QED
    BY <1>1, <2>1, PeopleKept, SameGrows, SameEased
<1>3. UNCHANGED <<codes, fresh, req>> /\ left' \in Workload
  BY <1>1, SpendKeeps
<1>4. /\ UNCHANGED <<req, limit>> /\ UNCHANGED <<exchanged, revoked, lost, browser, fresh>>
      /\ session' \subseteq session /\ rotated' \subseteq rotated
      /\ now' \in 0 .. MaxTime /\ open' \in BOOLEAN
  BY <1>1 DEF codes, store, history, IInv, BaseInv
<1> QED
  BY <1>2, <1>3, <1>4, SameCodes, NoRequestStep

LEMMA TickOK ==
  ASSUME IInv, Tick
  PROVE  IInv'
<1>1. /\ Spend("tick") /\ now < MaxTime /\ now' = now + 1
      /\ UNCHANGED <<codes, people, store, fresh, req, revoking, browser, history>>
  BY DEF Tick
<1>2. PeopleInv' /\ Grows /\ Eased
  BY <1>1, SamePeople
<1>3. UNCHANGED <<codes, fresh, req>> /\ left' \in Workload
  BY <1>1, SpendKeeps
<1>4. /\ UNCHANGED <<req, limit>> /\ UNCHANGED <<exchanged, revoked, lost, browser, fresh>>
      /\ session' \subseteq session /\ rotated' \subseteq rotated /\ open' \in BOOLEAN
  BY <1>1 DEF codes, store, history, people, IInv, BaseInv
<1>5. now' \in 0 .. MaxTime
  BY <1>1, SignInAssumption DEF IInv, BaseInv
<1> QED
  BY <1>2, <1>3, <1>4, <1>5, SameCodes, NoRequestStep

LEMMA SweepOK ==
  ASSUME IInv, Sweep
  PROVE  IInv'
<1>1. /\ UNCHANGED <<now, limit, mailed, people, fresh, req, revoking, browser, left, history>>
      /\ session' \subseteq session /\ rotated' \subseteq rotated
      /\ pending' = [e \in Emails |-> [p \in Purposes |->
            IF pending[e][p] # None /\ pending[e][p].exp < now - CodeSlack
            THEN None ELSE pending[e][p]]]
  BY DEF Sweep
<1>2. PeopleInv' /\ Grows /\ Eased
  BY <1>1, SamePeople
<1>3. \A e \in Emails, p \in Purposes : pending'[e][p] \in {None, pending[e][p]}
  BY <1>1
<1>4. CodeInv'
  BY <1>1, <1>3 DEF IInv, CodeInv
<1>5. DropInv'
  BY <1>1, <1>3 DEF IInv, DropInv
<1>6. /\ UNCHANGED <<req, limit>> /\ UNCHANGED <<exchanged, revoked, lost, browser, fresh>>
      /\ now' \in 0 .. MaxTime /\ open' \in BOOLEAN /\ left' \in Workload
  BY <1>1 DEF history, people, IInv, BaseInv
<1> QED
  BY <1>1, <1>2, <1>4, <1>5, <1>6, NoRequestStep
-----------------------------------------------------------------------------
(* The browser.                                                            *)

(* The browser changes, and one request.                                   *)
LEMMA BrowserStep ==
  ASSUME IInv, NEW q \in Reqs, NEW x, req' = [req EXCEPT ![q] = x],
         x \in Requests, Holds(x), LetThrough(x), Quiet(req[q]), left' \in Workload,
         UNCHANGED <<now, codes, people, store, fresh, revoking, exchanged, revoked>>,
         BrowserInv', lost' \in BOOLEAN
  PROVE  IInv'
<1>1. UNCHANGED <<limit, pending, session, rotated, open>>
  BY DEF people, store, codes
<1>2. PeopleInv' /\ Grows /\ Eased
  BY SamePeople
<1>3. SameOwners
  BY <1>1, FewerSameOwners
<1>4. Holds(x)' /\ LetThrough(x)'
  <2>1. fresh' \in Nat /\ fresh' >= fresh /\ \A e \in Emails : Opened(e) => Opened(e)'
    BY <1>2 DEF Grows, IInv, BaseInv
  <2> QED
    BY <1>2, <1>3, <2>1, HoldsKept, StaysThrough
<1>5. /\ ReqInv' /\ RefreshInv'
      /\ \A v \in Reqs : req'[v] = IF v = q THEN x ELSE req[v]
  BY <1>2, <1>3, <1>4, RequestMoves
<1>6. CodeInv' /\ SessionInv'
  BY <1>2, CodesKept, SessionsKept
<1>7. LockInv' /\ DropInv'
  BY <1>1, <1>5, QuietFacts, SameLocks
<1>8. BaseInv'
  BY <1>1 DEF IInv, BaseInv
<1> QED
  BY <1>2, <1>5, <1>6, <1>7, <1>8 DEF IInv

LEMMA WantRefreshOK ==
  ASSUME IInv, NEW t \in Tabs, WantRefresh(t)
  PROVE  IInv'
<1>1. /\ Spend("refresh") /\ tab' = [tab EXCEPT ![t].st = "waiting"]
      /\ UNCHANGED <<now, codes, people, store, fresh, req, revoking, jar, webLock, history>>
  BY DEF WantRefresh
<1>2. PeopleInv' /\ Grows /\ Eased
  BY <1>1, SamePeople
<1>3. BrowserInv'
  BY <1>1 DEF IInv, BrowserInv
<1>4. UNCHANGED <<limit, pending, mailed, session, rotated, open, exchanged, revoked, lost>>
      /\ UNCHANGED <<codes, fresh, req>> /\ UNCHANGED <<store, exchanged, revoked>>
  BY <1>1 DEF people, store, codes, history
<1>5. CodeInv' /\ DropInv' /\ SessionInv'
  BY <1>2, <1>4, SameCodes, SessionsKept
<1>6. ReqInv' /\ RefreshInv'
  <2>1. SameOwners
    BY <1>4, FewerSameOwners
  <2> QED
    BY <1>1, <1>2, <2>1, NoneMoves
<1>7. LockInv'
  BY <1>4 DEF IInv, LockInv
<1>8. BaseInv'
  BY <1>1, <1>4, SpendKeeps DEF IInv, BaseInv
<1> QED
  BY <1>2, <1>3, <1>5, <1>6, <1>7, <1>8 DEF IInv

(* What a refused refresh answers.                                         *)
LEMMA RefusedFacts ==
  ASSUME IInv, NEW r, r.tab \in Tabless
  PROVE  Refused(r) \in Requests /\ Holds(Refused(r)) /\ LetThrough(Refused(r))
<1>1. fresh > 0
  BY DEF IInv, BaseInv
<1> PICK x : x = Refused(r)
  OBVIOUS
<1>2. x \in Answering /\ x.sid = 0 /\ x.cookie = 0
  BY DEF Refused, Answering
<1>3. x \in Requests /\ Holds(x) /\ LetThrough(x)
  BY <1>1, <1>2, OnlyOne, Free DEF Requests, Holds
<1> QED
  BY <1>3

LEMMA SendRefreshOK ==
  ASSUME IInv, NEW t \in Tabs, NEW q \in Reqs, SendRefresh(t, q)
  PROVE  IInv'
<1> PICK r, x : /\ r = [op |-> "refresh", pc |-> "find", tab |-> t, token |-> jar, at |-> now]
                /\ x = IF jar = 0 THEN Refused(r) ELSE r
  OBVIOUS
<1>1. /\ Idle(q) /\ webLock' = t /\ tab' = [tab EXCEPT ![t].st = "sent"]
      /\ req' = [req EXCEPT ![q] = x]
      /\ UNCHANGED <<now, codes, people, store, fresh, revoking, jar, left, history>>
  BY DEF SendRefresh, Goto
<1>2. jar \in 0 .. (fresh - 1) /\ fresh \in Nat /\ now \in 0 .. MaxTime
  BY DEF IInv, BaseInv, BrowserInv
<1>3. r \in Finding /\ r.token < fresh /\ r.tab \in Tabless
  BY <1>2 DEF Finding, Tabless
<1>4. x \in Requests /\ Holds(x) /\ LetThrough(x)
  <2>1. r \in Requests /\ Holds(r) /\ LetThrough(r)
    BY <1>3, OnlyOne, Free DEF Requests, Holds
  <2>2. Refused(r) \in Requests /\ Holds(Refused(r)) /\ LetThrough(Refused(r))
    BY <1>3, RefusedFacts
  <2> QED
    BY <2>1, <2>2
<1>5. BrowserInv'
  BY <1>1 DEF IInv, BrowserInv
<1>6. Quiet(req[q]) /\ left' \in Workload /\ lost' \in BOOLEAN
      /\ UNCHANGED <<now, codes, people, store, fresh, revoking, exchanged, revoked>>
  BY <1>1, IdleFacts DEF IInv, BaseInv, history
<1> QED
  BY <1>1, <1>4, <1>5, <1>6, BrowserStep

LEMMA AnswerOK ==
  ASSUME IInv, NEW q \in Reqs, Answer(q)
  PROVE  IInv'
<1> PICK r : r = req[q]
  OBVIOUS
<1>1. r \in Answering /\ Holds(r)
  <2>1. r # NoRequest /\ r.pc = "answer" /\ r \in Requests /\ Holds(r)
    BY Facts DEF Answer, Idle
  <2> QED
    BY <2>1, Steps
<1>2. /\ r.sid \in 0 .. (fresh - 1) /\ r.cookie \in 0 .. (fresh - 1) /\ r.tab \in Tabless
      /\ fresh \in Nat
  <2>1. r.sid \in Nat /\ r.cookie \in Nat /\ r.sid < fresh /\ r.cookie < fresh
        /\ fresh \in Nat /\ r.tab \in Tabless
    BY <1>1, Facts DEF Answering, Holds
  <2> QED
    BY <2>1
<1>3. /\ req' = [req EXCEPT ![q] = NoRequest]
      /\ UNCHANGED <<now, codes, people, store, fresh, revoking, left, history>>
  BY DEF Answer, Done, Goto
<1>4. BrowserInv'
  <2>1. /\ jar \in 0 .. (fresh - 1)
        /\ tab \in [Tabs -> [st : {"idle", "waiting", "sent"}, sid : 0 .. (fresh - 1)]]
        /\ webLock \in Tabs \cup {None}
    BY DEF IInv, BrowserInv
  <2>2. CASE r.tab = None
    BY <1>3, <2>1, <2>2 DEF Answer, browser, BrowserInv
  <2>3. CASE r.tab # None
    <3> PICK t, st, n : /\ t = r.tab /\ n = r.sid
                        /\ st = IF r.op = "refresh" THEN "idle" ELSE tab[r.tab].st
      OBVIOUS
    <3>1. t \in Tabs /\ st \in {"idle", "waiting", "sent"} /\ n \in 0 .. (fresh - 1)
      BY <1>2, <2>1, <2>3 DEF Tabless
    <3>2. /\ jar' = r.cookie
          /\ tab' = [tab EXCEPT ![r.tab].sid = r.sid,
                                ![r.tab].st = IF r.op = "refresh" THEN "idle" ELSE @]
          /\ webLock' \in {None, webLock}
      BY <2>3 DEF Answer
    <3> PICK k, l : k = [tab[t] EXCEPT !.sid = n] /\ l = [k EXCEPT !.st = st]
      OBVIOUS
    <3>3. l \in [st : {"idle", "waiting", "sent"}, sid : 0 .. (fresh - 1)]
      <4>1. k \in [st : {"idle", "waiting", "sent"}, sid : 0 .. (fresh - 1)]
        BY <2>1, <3>1
      <4> QED
        BY <3>1, <4>1
    <3>4. tab' \in [Tabs -> [st : {"idle", "waiting", "sent"}, sid : 0 .. (fresh - 1)]]
      <4>1. tab' = [tab EXCEPT ![t] = l]
        BY <2>1, <3>1, <3>2
      <4> QED
        BY <2>1, <3>1, <3>3, <4>1
    <3> QED
      BY <1>2, <1>3, <2>1, <3>2, <3>4 DEF BrowserInv
  <2> QED
    BY <2>2, <2>3
<1>5. /\ NoRequest \in Requests /\ Holds(NoRequest) /\ LetThrough(NoRequest)
      /\ Quiet(req[q])
  BY <1>1, NoRequestFacts, Free, OnlyOne DEF Holds, Quiet
<1>6. left' \in Workload /\ lost' \in BOOLEAN
      /\ UNCHANGED <<now, codes, people, store, fresh, revoking, exchanged, revoked>>
  BY <1>3 DEF IInv, BaseInv, history
<1> QED
  BY <1>3, <1>4, <1>5, <1>6, BrowserStep

LEMMA LoseRefreshOK ==
  ASSUME IInv, NEW q \in Reqs, LoseRefresh(q)
  PROVE  IInv'
<1> PICK r, x : r = req[q] /\ x = [req[q] EXCEPT !.tab = None]
  OBVIOUS
<1>1. /\ r \in Finding \cup Reading \cup Rotating \cup Answering /\ r \in Requests
      /\ Holds(r) /\ r.tab # None /\ LetThrough(r)
  BY Facts, Steps DEF LoseRefresh, IInv, RefreshInv
<1>2. /\ req' = [req EXCEPT ![q] = x] /\ Spend("lose") /\ lost' = TRUE
      /\ tab' = [tab EXCEPT ![r.tab] = [st |-> "idle", sid |-> 0]]
      /\ webLock' \in {None, webLock}
      /\ UNCHANGED <<now, codes, people, store, fresh, revoking, jar, exchanged, revoked>>
  BY DEF LoseRefresh, Goto
<1>3. x \in Requests /\ Holds(x) /\ LetThrough(x)
  <2>1. CASE r \in Finding
    <3>1. x \in Finding /\ x.token = r.token
      BY <2>1 DEF Finding, Tabless
    <3> QED
      BY <1>1, <2>1, <3>1, OnlyOne, Free DEF Requests, Holds
  <2>2. CASE r \in Reading
    <3>1. x \in Reading /\ x.s = r.s /\ x.pc = r.pc
      BY <2>2 DEF Reading, Tabless
    <3> QED
      BY <1>1, <2>2, <3>1, OnlyOne DEF Requests, Holds, LetThrough
  <2>3. CASE r \in Rotating
    <3>1. x \in Rotating /\ x.s = r.s /\ x.pc = r.pc
      BY <2>3 DEF Rotating, Tabless
    <3> QED
      BY <1>1, <2>3, <3>1, OnlyOne DEF Requests, Holds, LetThrough
  <2>4. CASE r \in Answering
    <3>1. x \in Answering /\ x.sid = r.sid /\ x.cookie = r.cookie
      BY <2>4 DEF Answering, Tabless
    <3> QED
      BY <1>1, <2>4, <3>1, OnlyOne, Free DEF Requests, Holds
  <2> QED
    BY <1>1, <2>1, <2>2, <2>3, <2>4
<1>4. BrowserInv'
  <2>1. 0 \in 0 .. (fresh - 1)
    BY DEF IInv, BaseInv
  <2> QED
    BY <1>2, <2>1 DEF IInv, BrowserInv
<1>5. Quiet(req[q]) /\ left' \in Workload /\ lost' \in BOOLEAN
  BY <1>1, <1>2, SpendKeeps, OnlyOne DEF Quiet
<1> QED
  BY <1>2, <1>3, <1>4, <1>5, BrowserStep
-----------------------------------------------------------------------------
(* Refreshes.                                                              *)

LEMMA Unrevoked ==
  ASSUME IInv
  PROVE  /\ revoked \subseteq 1 .. (fresh - 1) /\ session \subseteq Session
         /\ \A s \in session : s.id \notin revoked /\ s.id \in 1 .. (fresh - 1)
BY DEF IInv, SessionInv, TokensSpent, RevokedStays

(* A refresh has no lock and no drop to do.                                *)
LEMMA RefreshQuiet ==
  ASSUME NEW r, r \in Finding \cup Reading \cup Rotating \cup Answering PROVE Quiet(r)
BY OnlyOne DEF Quiet

LEMMA FindSessionOK ==
  ASSUME IInv, NEW q \in Reqs, FindSession(q)
  PROVE  IInv'
<1> PICK r : r = req[q]
  OBVIOUS
<1>1. /\ r \in Finding /\ r.pc = "find" /\ Holds(r) /\ r.tab \in Tabless
      /\ r.token \in Nat /\ r.at \in 0 .. MaxTime /\ r.token < fresh
  <2>1. r \in Finding /\ r.pc = "find" /\ Holds(r)
    BY Facts, Steps DEF FindSession, At
  <2> QED
    BY <2>1 DEF Finding, Holds
<1>2. /\ UNCHANGED <<now, codes, people, rotated, fresh, revoking, browser, left, history>>
      /\ UNCHANGED <<now, codes, people, rotated, fresh, revoking, browser, exchanged, lost>>
      /\ UNCHANGED revoked /\ left' \in Workload /\ Quiet(req[q])
  BY <1>1, RefreshQuiet DEF FindSession, history, IInv, BaseInv
<1>3. ASSUME NEW x, req' = [req EXCEPT ![q] = x], x \in Requests, Holds(x), LetThrough(x),
             session' \subseteq session
      PROVE  IInv'
  <2>1. revoked' \subseteq 1 .. (fresh - 1) /\ \A s \in session' : s.id \notin revoked'
    BY <1>2, <1>3, Unrevoked
  <2> QED
    BY ONLY IInv, q \in Reqs, <1>2, <1>3, <2>1, ShrinkStep
<1>4. CASE Step(q, "replay") /\ UNCHANGED session
  <2> PICK x : x = [r EXCEPT !.pc = "replay"]
    OBVIOUS
  <2>1. x \in Finding /\ x.token = r.token /\ req' = [req EXCEPT ![q] = x]
    BY <1>1, <1>4 DEF Step, Goto, Finding
  <2>2. x \in Requests /\ Holds(x) /\ LetThrough(x)
    BY <1>1, <2>1, OnlyOne, Free DEF Requests, Holds
  <2> QED
    BY <1>3, <1>4, <2>1, <2>2
<1>5. ASSUME NEW s \in session, session' = session \ {s}, Goto(q, Refused(req[q]))
      PROVE  IInv'
  <2> PICK x : x = Refused(r)
    OBVIOUS
  <2>1. x \in Requests /\ Holds(x) /\ LetThrough(x)
    BY <1>1, RefusedFacts
  <2> QED
    BY <1>3, <1>5, <2>1 DEF Goto
<1>6. ASSUME NEW s \in session, UNCHANGED session,
             Goto(q, [op |-> "refresh", pc |-> "account", tab |-> req[q].tab,
                      at |-> req[q].at, s |-> s])
      PROVE  IInv'
  <2> PICK x : x = [op |-> "refresh", pc |-> "account", tab |-> r.tab, at |-> r.at, s |-> s]
    OBVIOUS
  <2>1. /\ s \in Session /\ s.id \in Nat /\ s.id > 0 /\ s.id < fresh
        /\ s.token \in Nat /\ s.token < fresh /\ Opened(s.email)
        /\ \A o \in session : o.id = s.id => o = s
    BY <1>6, Facts DEF IInv, SessionInv, Session
  <2>2. x \in Reading /\ x.pc = "account" /\ x.s = s
    BY <1>1, <2>1 DEF Reading
  <2>3. x \in Requests /\ Holds(x) /\ LetThrough(x)
    BY <2>1, <2>2, OnlyOne DEF Requests, Holds, LetThrough
  <2> QED
    BY <1>3, <1>6, <2>3 DEF Goto
<1> QED
  BY <1>4, <1>5, <1>6 DEF FindSession

LEMMA ReplayedOK ==
  ASSUME IInv, NEW q \in Reqs, Replayed(q)
  PROVE  IInv'
<1> PICK r, fam, x : /\ r = req[q] /\ x = Refused(req[q])
                     /\ fam = {k.family : k \in {y \in rotated : y.token = req[q].token}}
  OBVIOUS
<1>1. r \in Finding /\ r.tab \in Tabless
  <2>1. r \in Finding
    BY Facts, Steps DEF Replayed, At
  <2> QED
    BY <2>1 DEF Finding
<1>2. /\ session' = session \ UNION {Revokes(f) : f \in fam}
      /\ revoked' = revoked \cup fam /\ req' = [req EXCEPT ![q] = x]
      /\ UNCHANGED <<now, codes, people, rotated, fresh, revoking, browser, left, exchanged, lost>>
  BY DEF Replayed, Goto
<1>3. /\ UNCHANGED <<now, codes, people, rotated, fresh, revoking, browser, exchanged, lost>>
      /\ left' \in Workload /\ Quiet(req[q])
  BY <1>1, <1>2, RefreshQuiet DEF IInv, BaseInv
<1>4. x \in Requests /\ Holds(x) /\ LetThrough(x)
  BY <1>1, RefusedFacts
<1>5. fam \subseteq 1 .. (fresh - 1)
  BY DEF IInv, SessionInv
<1>6. /\ session' \subseteq session /\ revoked' \subseteq 1 .. (fresh - 1)
      /\ \A s \in session' : s.id \notin revoked'
  <2>1. session' \subseteq session /\ revoked' \subseteq 1 .. (fresh - 1)
    BY <1>2, <1>5, Unrevoked
  <2>2. ASSUME NEW s \in session' PROVE s.id \notin fam
    <3>1. s \in session /\ \A f \in fam : s \notin Revokes(f)
      BY <1>2, <2>2
    <3> QED
      BY <3>1 DEF Revokes, Family
  <2> QED
    BY <1>2, <2>1, <2>2, Unrevoked
<1> QED
  BY ONLY IInv, q \in Reqs, <1>2, <1>3, <1>4, <1>6, ShrinkStep

LEMMA RefreshAccountOK ==
  ASSUME IInv, NEW q \in Reqs, RefreshAccount(q)
  PROVE  IInv'
<1> PICK r : r = req[q]
  OBVIOUS
<1>1. /\ r \in Reading /\ r.pc = "account" /\ Holds(r) /\ LetThrough(r) /\ r.tab \in Tabless
      /\ r \in Requests
  <2>1. r \in Reading /\ r.pc = "account" /\ Holds(r) /\ LetThrough(r) /\ r \in Requests
    BY Facts, Steps DEF RefreshAccount, At, IInv, RefreshInv
  <2> QED
    BY <2>1 DEF Reading
<1>2. /\ UNCHANGED <<now, codes, people, rotated, fresh, revoking, browser, exchanged, lost>>
      /\ UNCHANGED revoked /\ left' \in Workload /\ Quiet(req[q])
  BY <1>1, RefreshQuiet DEF RefreshAccount, history, IInv, BaseInv
<1>3. PICK x : /\ req' = [req EXCEPT ![q] = x] /\ session' \subseteq session
               /\ x \in Requests /\ Holds(x) /\ LetThrough(x)
  <2>1. CASE account[r.s.email] = "ok"
    <3> PICK x : x = [r EXCEPT !.pc = "workspace"]
      OBVIOUS
    <3>1. x \in Reading /\ x.s = r.s /\ x.pc = "workspace"
      BY <1>1 DEF Reading
    <3>2. x \in Requests /\ Holds(x) /\ LetThrough(x)
      BY <1>1, <2>1, <3>1, OnlyOne DEF Requests, Holds, LetThrough
    <3>3. req' = [req EXCEPT ![q] = x] /\ session' \subseteq session
      BY <2>1 DEF RefreshAccount, Step, Goto
    <3> QED
      BY <3>2, <3>3
  <2>2. CASE account[r.s.email] # "ok"
    <3> PICK x : x = Refused(r)
      OBVIOUS
    <3>1. x \in Requests /\ Holds(x) /\ LetThrough(x)
      BY <1>1, RefusedFacts
    <3>2. req' = [req EXCEPT ![q] = x] /\ session' \subseteq session
      BY <2>2 DEF RefreshAccount, Goto
    <3> QED
      BY <3>1, <3>2
  <2> QED
    BY <2>1, <2>2
<1>4. revoked' \subseteq 1 .. (fresh - 1) /\ \A s \in session' : s.id \notin revoked'
  BY <1>2, <1>3, Unrevoked
<1> QED
  BY ONLY IInv, q \in Reqs, <1>2, <1>3, <1>4, ShrinkStep

LEMMA RefreshWorkspaceOK ==
  ASSUME IInv, NEW q \in Reqs, RefreshWorkspace(q)
  PROVE  IInv'
<1> PICK r, w : r = req[q] /\ w = workspace[req[q].s.email]
  OBVIOUS
<1>1. /\ r \in Reading /\ r.pc = "workspace" /\ Holds(r) /\ LetThrough(r)
      /\ r.tab \in Tabless /\ r.s \in Session /\ Opened(r.s.email)
  <2>1. r \in Reading /\ r.pc = "workspace" /\ Holds(r) /\ LetThrough(r)
    BY Facts, Steps DEF RefreshWorkspace, At, IInv, RefreshInv
  <2> QED
    BY <2>1 DEF Reading, Holds
<1>2. /\ UNCHANGED <<now, codes, people, store, fresh, revoking, browser, history>>
      /\ left' \in Workload /\ Quiet(req[q])
  BY <1>1, RefreshQuiet DEF RefreshWorkspace, IInv, BaseInv
<1>3. PICK x : /\ req' = [req EXCEPT ![q] = x]
               /\ x \in Requests /\ Holds(x) /\ LetThrough(x)
  <2>1. CASE TrialUsable(w, r.at)
    <3> PICK n : n = Min({r.s.exp, w.end})
      OBVIOUS
    <3> PICK x : x = [op |-> "refresh", pc |-> "rotate", tab |-> r.tab, s |-> r.s, exp |-> n]
      OBVIOUS
    <3>1. n \in Nat
      <4>1. r.s.exp \in Nat /\ w.end \in Nat
        BY <1>1, OwnWorkspace DEF Session, Workspace
      <4> QED
        BY <4>1, MinFacts
    <3>2. x \in Rotating /\ x.s = r.s /\ x.pc = "rotate"
      BY <1>1, <3>1 DEF Rotating
    <3>3. w.status = "ACTIVE"
      BY <2>1 DEF TrialUsable
    <3>4. x \in Requests /\ Holds(x) /\ LetThrough(x)
      BY <1>1, <3>2, <3>3, OnlyOne DEF Requests, Holds, LetThrough
    <3>5. req' = [req EXCEPT ![q] = x]
      BY <2>1 DEF RefreshWorkspace, Goto
    <3> QED
      BY <3>4, <3>5
  <2>2. CASE ~TrialUsable(w, r.at)
    <3> PICK x : x = Refused(r)
      OBVIOUS
    <3>1. x \in Requests /\ Holds(x) /\ LetThrough(x)
      BY <1>1, RefusedFacts
    <3>2. req' = [req EXCEPT ![q] = x]
      BY <2>2 DEF RefreshWorkspace, Goto
    <3> QED
      BY <3>1, <3>2
  <2> QED
    BY <2>1, <2>2
<1>4. UNCHANGED <<now, codes, people, store, fresh, revoking, browser, history>>
  BY <1>2
<1> QED
  BY ONLY IInv, q \in Reqs, <1>2, <1>3, <1>4, RequestOnly

LEMMA RevokeFamilyOK ==
  ASSUME IInv, NEW q \in Reqs, RevokeFamily(q)
  PROVE  IInv'
<1> PICK r, x : r = req[q] /\ x = Refused(req[q])
  OBVIOUS
<1>1. /\ r \in Rotating /\ r.tab \in Tabless /\ r.s.id \in 1 .. (fresh - 1)
  <2>1. r \in Rotating /\ Holds(r) /\ LetThrough(r) /\ fresh \in Nat
    BY Facts, Steps DEF RevokeFamily, At, IInv, RefreshInv
  <2>2. r.s.id \in Nat /\ r.s.id > 0 /\ r.s.id < fresh /\ r.tab \in Tabless
    BY <2>1 DEF Rotating, Session, Holds, LetThrough
  <2> QED
    BY <2>1, <2>2
<1>2. /\ session' = session \ Revokes(r.s.id) /\ revoked' = revoked \cup {r.s.id}
      /\ req' = [req EXCEPT ![q] = x]
      /\ UNCHANGED <<now, codes, people, rotated, fresh, revoking, browser, left, exchanged, lost>>
  BY DEF RevokeFamily, Goto
<1>3. /\ UNCHANGED <<now, codes, people, rotated, fresh, revoking, browser, exchanged, lost>>
      /\ left' \in Workload /\ Quiet(req[q])
  BY <1>1, <1>2, RefreshQuiet DEF IInv, BaseInv
<1>4. x \in Requests /\ Holds(x) /\ LetThrough(x)
  BY <1>1, RefusedFacts
<1>5. /\ session' \subseteq session /\ revoked' \subseteq 1 .. (fresh - 1)
      /\ \A s \in session' : s.id \notin revoked'
  BY <1>1, <1>2, Unrevoked DEF Revokes, Family
<1> QED
  BY ONLY IInv, q \in Reqs, <1>2, <1>3, <1>4, <1>5, ShrinkStep

LEMMA LogoutOK ==
  ASSUME IInv, NEW q \in Reqs, NEW t \in Tabs, Logout(q, t)
  PROVE  IInv'
<1> PICK x : x = [op |-> "logout", pc |-> "answer", tab |-> t, sid |-> 0, cookie |-> 0]
  OBVIOUS
<1>1. /\ session' = session \ Family(tab[t].sid) /\ req' = [req EXCEPT ![q] = x]
      /\ Idle(q) /\ Spend("logout")
      /\ UNCHANGED <<now, codes, people, rotated, fresh, revoking, browser, history>>
  BY DEF Logout, Goto
<1>2. /\ UNCHANGED <<now, codes, people, rotated, fresh, revoking, browser, exchanged, lost>>
      /\ left' \in Workload /\ Quiet(req[q]) /\ session' \subseteq session
  BY <1>1, SpendKeeps, IdleFacts DEF history
<1>3. x \in Requests /\ Holds(x) /\ LetThrough(x)
  <2>1. x \in Answering /\ x.sid = 0 /\ x.cookie = 0
    BY DEF Answering, Tabless
  <2> QED
    BY <2>1, OnlyOne, Free DEF Requests, Holds, IInv, BaseInv
<1>4. revoked' \subseteq 1 .. (fresh - 1) /\ \A s \in session' : s.id \notin revoked'
  BY <1>1, <1>2, Unrevoked DEF history
<1> QED
  BY ONLY IInv, q \in Reqs, <1>1, <1>2, <1>3, <1>4, ShrinkStep
(* A session is replaced by one with a new token.                          *)
LEMMA IssueOK ==
  ASSUME IInv, NEW q \in Reqs, Issue(q)
  PROVE  IInv'
<1> PICK r, e, s, x, old, kept :
      /\ r = req[q] /\ e = req[q].email
      /\ s = [id |-> fresh, email |-> req[q].email, token |-> fresh,
              exp |-> Min({now + TrialFor, req[q].end})]
      /\ x = [op |-> "login", pc |-> "answer", tab |-> req[q].tab, sid |-> fresh,
              cookie |-> fresh]
      /\ old = Sessions(req[q].email) /\ kept = Keeps(Sessions(req[q].email) \cup {s})
  OBVIOUS
<1>1. /\ r \in Issuing /\ r.tab \in Tabs /\ e \in Emails /\ Opened(e) /\ r.end \in Nat
  <2>1. r \in Issuing /\ Holds(r)
    BY Facts, Steps DEF Issue, At
  <2> QED
    BY <2>1 DEF Issuing, Holds
<1>2. /\ session' = (session \ old) \cup kept /\ req' = [req EXCEPT ![q] = x]
      /\ fresh' = fresh + 1
      /\ UNCHANGED <<now, codes, people, rotated, revoking, browser, left, history>>
  BY DEF Issue, Goto
<1>3. UNCHANGED <<now, open, lost, account, workspace, usage, revoking, limit, pending, codes,
                  browser, rotated, exchanged, revoked, left>>
  BY <1>2 DEF codes, people, history
<1>4. /\ fresh \in Nat /\ fresh > 0 /\ session \subseteq Session /\ IsFiniteSet(session)
      /\ now \in Nat
  BY Facts DEF IInv, SessionInv
<1>5. /\ s \in Session /\ s.id = fresh /\ s.token = fresh /\ s.email = e
  <2> PICK n : n = Min({now + TrialFor, req[q].end})
    OBVIOUS
  <2>1. n \in Nat
    BY <1>1, <1>4, MinFacts, SignInAssumption
  <2> QED
    BY <1>1, <1>4, <2>1 DEF Session
<1>6. /\ old \subseteq session /\ \A o \in session : o \in old <=> o.email = e
  BY DEF Sessions
<1>7. kept \subseteq old \cup {s}
  BY DEF Keeps, Newest
<1>8. \A o \in session' : o \in session \/ o = s
  BY <1>2, <1>6, <1>7
<1>9. Grows
  BY <1>2, <1>3, SameGrows
<1>10. SameOwners /\ Eased
  <2>1. SameOwners
    BY <1>4, <1>5, <1>8 DEF SameOwners
  <2> QED
    BY <1>3, <2>1, SameEased
<1>11. x \in Requests /\ Holds(x)' /\ LetThrough(x)'
  <2>1. x \in Answering /\ x.sid = fresh /\ x.cookie = fresh
    BY <1>1, <1>4 DEF Answering, Tabless
  <2>2. fresh < fresh'
    BY <1>2, <1>4
  <2> QED
    BY <2>1, <2>2, OnlyOne, Free DEF Requests, Holds
<1>12. /\ ReqInv' /\ RefreshInv'
       /\ \A v \in Reqs : req'[v] = IF v = q THEN x ELSE req[v]
  <2>1. req' = [req EXCEPT ![q] = x]
    BY <1>2
  <2> QED
    BY ONLY IInv, q \in Reqs, <1>9, <1>10, <1>11, <2>1, RequestMoves
<1>13. LockInv' /\ DropInv'
  <2>1. Quiet(req[q])
    BY <1>1, OnlyOne DEF Quiet
  <2> QED
    BY <1>3, <1>12, <2>1, QuietFacts, SameLocks
<1>14. SessionInv'
  <2>0. /\ \A o \in session : o.id \in 1 .. (fresh - 1) /\ o.token \in 1 .. (fresh - 1)
                              /\ Opened(o.email) /\ o \in Session
        /\ \A o, p \in session : o.id = p.id \/ o.token = p.token => o = p
        /\ rotated \subseteq [token : 1 .. (fresh - 1), family : 1 .. (fresh - 1), exp : Nat]
        /\ revoked \subseteq 1 .. (fresh - 1)
        /\ \A y \in exchanged : y = <<y[1], y[2]>> /\ y[1] \in 1 .. (fresh - 1)
        /\ \A o \in session, y \in exchanged : o.token # y[1]
        /\ OneGrantPerToken /\ RevokedStays /\ SessionCap
    BY DEF IInv, SessionInv, TokensSpent
  <2>1. 1 .. (fresh - 1) \subseteq 1 .. (fresh' - 1) /\ fresh \in 1 .. (fresh' - 1)
        /\ fresh \notin 1 .. (fresh - 1)
    <3>1. fresh' \in Nat /\ fresh <= fresh'
      BY <1>2, <1>4
    <3> QED
      BY <1>2, <1>4, <3>1, Wider
  <2>2. session' \subseteq Session /\ IsFiniteSet(session')
    <3>1. IsFiniteSet(session \cup {s}) /\ session' \in SUBSET (session \cup {s})
      BY <1>4, <1>8, FS_AddElement
    <3>2. IsFiniteSet(session')
      BY <3>1, FS_Subset
    <3> QED
      BY <1>4, <1>5, <1>8, <3>2
  <2>3. \A o \in session' : o.id \in 1 .. (fresh' - 1) /\ o.token \in 1 .. (fresh' - 1)
                            /\ Opened(o.email)'
    <3> TAKE o \in session'
    <3>1. CASE o \in session
      BY <1>3, <2>0, <2>1, <3>1 DEF Opened
    <3>2. CASE o = s
      BY <1>1, <1>3, <1>5, <2>1, <3>2 DEF Opened
    <3> QED
      BY <1>8, <3>1, <3>2
  <2>4. \A o, p \in session' : o.id = p.id \/ o.token = p.token => o = p
    BY <1>5, <1>8, <2>0, <2>1
  <2>5. rotated' \subseteq [token : 1 .. (fresh' - 1), family : 1 .. (fresh' - 1), exp : Nat]
    BY <1>3, <2>0, <2>1
  <2>6. revoked' \subseteq 1 .. (fresh' - 1)
    BY <1>3, <2>0, <2>1
  <2>7. \A y \in exchanged' : y = <<y[1], y[2]>> /\ y[1] \in 1 .. (fresh' - 1)
    BY <1>3, <2>0, <2>1
  <2>8. \A o \in session', y \in exchanged' : o.token # y[1]
    BY <1>3, <1>5, <1>8, <2>0, <2>1
  <2>9. OneGrantPerToken'
    BY <1>3, <2>0 DEF OneGrantPerToken
  <2>10. RevokedStays'
    BY <1>3, <1>5, <1>8, <2>0, <2>1 DEF RevokedStays
  <2>11. SessionCap'
    <3> SUFFICES ASSUME NEW f \in Emails PROVE Cardinality(Sessions(f)') <= MaxSessions
      BY DEF SessionCap
    <3>1. CASE f = e
      <4> PICK S : S = old \cup {s}
        OBVIOUS
      <4>1. Sessions(f)' = kept
        BY <1>2, <1>5, <1>6, <1>7, <3>1 DEF Sessions
      <4>2. IsFiniteSet(S)
        <5>1. old \in SUBSET session
          BY <1>6
        <5>2. IsFiniteSet(old)
          BY <1>4, <5>1, FS_Subset
        <5> QED
          BY <5>2, FS_AddElement
      <4>3. /\ \A o \in S : o.id \in Nat
            /\ \A o, p \in S : o.id = p.id => o = p
        <5>1. \A o \in S : o \in session \/ o = s
          BY <1>6
        <5>2. \A o \in session : o.id # fresh /\ o.id \in Nat
          BY <2>0, <2>1 DEF Session
        <5>3. \A o, p \in session : o.id = p.id => o = p
          BY <2>0
        <5>4. s.id = fresh /\ fresh \in Nat
          BY <1>4, <1>5
        <5>5. \A o \in S : o.id \in Nat
          BY ONLY <5>1, <5>2, <5>4
        <5>6. \A o, p \in S : o.id = p.id => o = p
          BY ONLY <5>1, <5>2, <5>3, <5>4
        <5> QED
          BY <5>5, <5>6
      <4>4. MaxSessions \in Nat
        BY SignInAssumption
      <4>5. Cardinality(Newest(S, MaxSessions)) <= MaxSessions
        BY ONLY <4>2, <4>3, <4>4, NewestFew
      <4> QED
        BY <4>1, <4>5 DEF Keeps
    <3>2. CASE f # e
      <4>1. Sessions(f)' = Sessions(f)
        BY <1>2, <1>5, <1>6, <1>7, <3>2 DEF Sessions
      <4> QED
        BY <2>0, <4>1 DEF SessionCap
    <3> QED
      BY <3>1, <3>2
  <2> QED
    BY <2>2, <2>3, <2>4, <2>5, <2>6, <2>7, <2>8, <2>9, <2>10, <2>11 DEF SessionInv, TokensSpent
<1>15. BaseInv' /\ CodeInv' /\ BrowserInv' /\ PeopleInv'
  <2>1. UNCHANGED <<now, open, lost>> /\ left' \in Workload /\ UNCHANGED codes
        /\ UNCHANGED browser /\ UNCHANGED <<account, workspace, usage>>
        /\ revoking' \in [Emails -> Nat]
    BY <1>3 DEF IInv, BaseInv, PeopleInv
  <2> QED
    BY <1>9, <2>1, BaseKept, CodesKept, BrowserKept, PeopleKept
<1> QED
  BY <1>12, <1>13, <1>14, <1>15 DEF IInv
(* The row a refresh replaces, when there is one.                          *)
LEMMA RotatedRow ==
  ASSUME IInv, NEW q \in Reqs, req[q] \in Rotating, Rotates(req[q].s) # {}
  PROVE  \E o \in session : /\ o.id = req[q].s.id /\ o.token = req[q].s.token
                            /\ o.email = req[q].s.email /\ Rotates(req[q].s) = {o}
<1> PICK s : s = req[q].s
  OBVIOUS
<1>1. PICK o \in Rotates(s) : TRUE
  OBVIOUS
<1>2. o \in session /\ o.id = s.id /\ o.token = s.token
  BY <1>1 DEF Rotates, Family
<1>3. o.email = s.email
  BY <1>2 DEF IInv, RefreshInv, LetThrough
<1>4. \A p \in Rotates(s) : p = o
  BY <1>2 DEF Rotates, Family, IInv, SessionInv
<1>5. Rotates(s) = {o}
  BY <1>1, <1>4
<1> QED
  BY <1>2, <1>3, <1>5

LEMMA RotateOK ==
  ASSUME IInv, NEW q \in Reqs, Rotate(q)
  PROVE  IInv'
<1> PICK r, s : r = req[q] /\ s = req[q].s
  OBVIOUS
<1>1. /\ r \in Rotating /\ r.pc = "rotate" /\ Holds(r) /\ LetThrough(r) /\ r.tab \in Tabless
      /\ s \in Session /\ r.exp \in Nat /\ s.id < fresh /\ s.token < fresh /\ Opened(s.email)
      /\ r.s = s
  <2>1. r \in Rotating /\ r.pc = "rotate" /\ Holds(r) /\ LetThrough(r)
    BY Facts, Steps DEF Rotate, At, IInv, RefreshInv
  <2> QED
    BY <2>1 DEF Rotating, Holds
<1>2. /\ UNCHANGED <<now, codes, people, revoking, browser, left, revoked, lost>>
      /\ Quiet(req[q]) /\ left' \in Workload
  BY <1>1, RefreshQuiet DEF Rotate, IInv, BaseInv
<1>3. CASE Rotates(s) = {}
  <2> PICK x : x = [r EXCEPT !.pc = "revoke"]
    OBVIOUS
  <2>1. req' = [req EXCEPT ![q] = x] /\ UNCHANGED <<store, exchanged, fresh>>
    BY <1>3 DEF Rotate, Step, Goto
  <2>2. x \in Rotating /\ x.s = s /\ x.pc = "revoke"
    BY <1>1 DEF Rotating
  <2>3. x \in Requests /\ Holds(x) /\ LetThrough(x)
    BY <1>1, <2>2, OnlyOne DEF Requests, Holds, LetThrough
  <2>4. UNCHANGED <<now, codes, people, store, fresh, revoking, browser, history>>
    BY <1>2, <2>1 DEF history
  <2> QED
    BY <1>2, <2>1, <2>3, <2>4, RequestOnly
<1>4. CASE Rotates(s) # {}
  <2>1. PICK o \in session : /\ o.id = s.id /\ o.token = s.token
                             /\ o.email = s.email /\ Rotates(s) = {o}
    BY <1>1, <1>4, RotatedRow
  <2> PICK new, x, gone :
        /\ new = [s EXCEPT !.token = fresh, !.exp = r.exp]
        /\ x = [op |-> "refresh", pc |-> "answer", tab |-> r.tab, sid |-> s.id,
                cookie |-> fresh]
        /\ gone = [token |-> s.token, family |-> s.id, exp |-> s.exp]
    OBVIOUS
  <2>2. /\ session' = (session \ {o}) \cup {new}
        /\ rotated' = rotated \cup {gone}
        /\ exchanged' = exchanged \cup {<<s.token, fresh>>}
        /\ fresh' = fresh + 1 /\ req' = [req EXCEPT ![q] = x]
    BY <1>4, <2>1 DEF Rotate, Goto
  <2>3. UNCHANGED <<now, open, lost, account, workspace, usage, revoking, limit, pending, codes,
                    browser, revoked, left>>
    BY <1>2 DEF codes, people
  <2>4. fresh \in Nat /\ fresh > 0 /\ session \subseteq Session /\ IsFiniteSet(session)
    BY Facts DEF IInv, SessionInv
  <2>5. /\ new \in Session /\ new.id = s.id /\ new.token = fresh /\ new.email = s.email
    BY <1>1, <2>4 DEF Session
  <2>6. \A p \in session' : p \in session \/ p = new
    BY <2>2
  <2>7. Grows
    BY <2>2, <2>3, SameGrows
  <2>8. SameOwners /\ Eased
    <3>1. SameOwners
      BY <2>1, <2>5, <2>6 DEF SameOwners
    <3> QED
      BY <2>3, <3>1, SameEased
  <2>9. x \in Requests /\ Holds(x)' /\ LetThrough(x)'
    <3>1. x \in Answering /\ x.sid = s.id /\ x.cookie = fresh
      BY <1>1, <2>4 DEF Answering, Session
    <3>2. fresh < fresh' /\ s.id < fresh'
      BY <1>1, <2>2, <2>4 DEF Session
    <3> QED
      BY <3>1, <3>2, OnlyOne, Free DEF Requests, Holds
  <2>10. /\ ReqInv' /\ RefreshInv'
         /\ \A v \in Reqs : req'[v] = IF v = q THEN x ELSE req[v]
    <3>1. req' = [req EXCEPT ![q] = x]
      BY <2>2
    <3> QED
      BY ONLY IInv, q \in Reqs, <2>7, <2>8, <2>9, <3>1, RequestMoves
  <2>11. LockInv' /\ DropInv'
    BY <1>2, <2>3, <2>10, QuietFacts, SameLocks
  <2>12. SessionInv'
    <3>0. /\ \A p \in session : p.id \in 1 .. (fresh - 1) /\ p.token \in 1 .. (fresh - 1)
                                /\ Opened(p.email) /\ p \in Session
          /\ \A p, v \in session : p.id = v.id \/ p.token = v.token => p = v
          /\ rotated \subseteq [token : 1 .. (fresh - 1), family : 1 .. (fresh - 1), exp : Nat]
          /\ revoked \subseteq 1 .. (fresh - 1)
          /\ \A y \in exchanged : y = <<y[1], y[2]>> /\ y[1] \in 1 .. (fresh - 1)
          /\ \A p \in session, y \in exchanged : p.token # y[1]
          /\ OneGrantPerToken /\ RevokedStays /\ SessionCap
      BY DEF IInv, SessionInv, TokensSpent
    <3>1. 1 .. (fresh - 1) \subseteq 1 .. (fresh' - 1) /\ fresh \in 1 .. (fresh' - 1)
          /\ fresh \notin 1 .. (fresh - 1)
      <4>1. fresh' \in Nat /\ fresh <= fresh'
        BY <2>2, <2>4
      <4> QED
        BY <2>2, <2>4, <4>1, Wider
    <3>2. session' \subseteq Session /\ IsFiniteSet(session')
      <4>1. IsFiniteSet(session \cup {new}) /\ session' \in SUBSET (session \cup {new})
        BY <2>4, <2>6, FS_AddElement
      <4>2. IsFiniteSet(session')
        BY <4>1, FS_Subset
      <4> QED
        BY <2>4, <2>5, <2>6, <4>2
    <3>3. \A p \in session' : p.id \in 1 .. (fresh' - 1) /\ p.token \in 1 .. (fresh' - 1)
                              /\ Opened(p.email)'
      <4> TAKE p \in session'
      <4>1. CASE p \in session
        BY <2>3, <3>0, <3>1, <4>1 DEF Opened
      <4>2. CASE p = new
        BY <1>1, <2>1, <2>3, <2>5, <3>0, <3>1, <4>2 DEF Opened
      <4> QED
        BY <2>6, <4>1, <4>2
    <3>4. \A p, v \in session' : p.id = v.id \/ p.token = v.token => p = v
      <4>1. \A p \in session' : p = new \/ (p \in session /\ p # o)
        BY <2>2
      <4>2. \A p \in session : p # o => p.id # new.id /\ p.token # new.token
        <5>1. \A p \in session : p.token # fresh
          BY <3>0, <3>1
        <5>2. \A p \in session : p.id = o.id => p = o
          BY <3>0
        <5> QED
          BY <2>1, <2>5, <5>1, <5>2
      <4>3. \A p, v \in session : p.id = v.id \/ p.token = v.token => p = v
        BY <3>0
      <4> QED
        BY ONLY <4>1, <4>2, <4>3
    <3>5. rotated' \subseteq [token : 1 .. (fresh' - 1), family : 1 .. (fresh' - 1), exp : Nat]
      <4>1. gone \in [token : 1 .. (fresh' - 1), family : 1 .. (fresh' - 1), exp : Nat]
        <5>1. s.token \in 1 .. (fresh' - 1) /\ s.id \in 1 .. (fresh' - 1) /\ s.exp \in Nat
          BY <1>1, <2>1, <3>0, <3>1 DEF Session
        <5> QED
          BY <5>1
      <4> QED
        BY <2>2, <3>0, <3>1, <4>1
    <3>6. revoked' \subseteq 1 .. (fresh' - 1)
      BY <2>3, <3>0, <3>1
    <3> PICK y0 : y0 = <<s.token, fresh>>
      OBVIOUS
    <3>7. /\ exchanged' = exchanged \cup {y0}
          /\ y0[1] = s.token /\ y0[2] = fresh /\ y0 = <<y0[1], y0[2]>>
      BY <2>2
    <3>8. \A y \in exchanged' : y = <<y[1], y[2]>> /\ y[1] \in 1 .. (fresh' - 1)
      <4> TAKE y \in exchanged'
      <4>1. CASE y \in exchanged
        BY <3>0, <3>1, <4>1
      <4>2. CASE y = y0
        BY <2>1, <3>0, <3>1, <3>7, <4>2
      <4> QED
        BY <3>7, <4>1, <4>2
    <3>9. \A p \in session', y \in exchanged' : p.token # y[1]
      <4> TAKE p \in session', y \in exchanged'
      <4>1. s.token \in 1 .. (fresh - 1) /\ (y \in exchanged => y[1] \in 1 .. (fresh - 1))
        BY <2>1, <3>0
      <4>2. CASE p = new
        BY <2>5, <3>1, <3>7, <4>1, <4>2
      <4>3. CASE p \in session /\ p # o /\ y = y0
        BY <2>1, <3>0, <3>7, <4>3
      <4>4. CASE p \in session /\ y \in exchanged
        BY <3>0, <4>4
      <4> QED
        BY <2>2, <3>7, <4>2, <4>3, <4>4
    <3>10. OneGrantPerToken'
      <4>1. \A y \in exchanged : y[1] # y0[1]
        BY <2>1, <3>0, <3>7
      <4>2. \A y, z \in exchanged : y[1] = z[1] => y = z
        BY <3>0 DEF OneGrantPerToken
      <4>3. \A y \in exchanged' : y \in exchanged \/ y = y0
        BY <3>7
      <4>4. \A y, z \in exchanged' : y[1] = z[1] => y = z
        BY ONLY <4>1, <4>2, <4>3
      <4> QED
        BY <4>4 DEF OneGrantPerToken
    <3>11. RevokedStays'
      BY <2>1, <2>3, <2>5, <2>6, <3>0 DEF RevokedStays
    <3>12. SessionCap'
      <4> SUFFICES ASSUME NEW f \in Emails PROVE Cardinality(Sessions(f)') <= MaxSessions
        BY DEF SessionCap
      <4> PICK old : old = Sessions(f)
        OBVIOUS
      <4>1. old \in SUBSET session /\ Cardinality(old) <= MaxSessions /\ MaxSessions \in Nat
        BY <3>0, SignInAssumption DEF Sessions, SessionCap
      <4>2. IsFiniteSet(old) /\ Cardinality(old) \in Nat
        BY <2>4, <4>1, FS_Subset, FS_CardinalityType
      <4>3. CASE f = s.email
        <5> PICK rest : rest = old \ {o}
          OBVIOUS
        <5>1. Sessions(f)' = rest \cup {new} /\ o \in old
          BY <2>1, <2>2, <2>5, <4>3 DEF Sessions
        <5>2. IsFiniteSet(rest) /\ Cardinality(rest) = Cardinality(old) - 1
          BY <4>2, <5>1, FS_RemoveElement
        <5>3. Cardinality(rest \cup {new}) <= Cardinality(rest) + 1
          <6>1. CASE new \in rest
            <7>1. rest \cup {new} = rest
              BY <6>1
            <7>2. Cardinality(rest) \in Nat
              BY <5>2, FS_CardinalityType
            <7>3. Cardinality(rest \cup {new}) = Cardinality(rest)
              BY <7>1
            <7> QED
              BY <7>2, <7>3
          <6>2. CASE new \notin rest
            <7>1. Cardinality(rest) \in Nat
              BY <5>2, FS_CardinalityType
            <7>2. Cardinality(rest \cup {new}) = Cardinality(rest) + 1
              BY <5>2, <6>2, FS_AddElement
            <7> QED
              BY <7>1, <7>2
          <6> QED
            BY <6>1, <6>2
        <5>4. IsFiniteSet(rest \cup {new})
          BY <5>2, FS_AddElement
        <5>5. Cardinality(rest \cup {new}) \in Nat
          BY <5>4, FS_CardinalityType
        <5> QED
          BY <4>1, <4>2, <5>1, <5>2, <5>3, <5>5
      <4>4. CASE f # s.email
        <5>1. Sessions(f)' = Sessions(f)
          BY <2>1, <2>2, <2>5, <4>4 DEF Sessions
        <5> QED
          BY <4>1, <5>1
      <4> QED
        BY <4>3, <4>4
    <3> QED
      BY <3>2, <3>3, <3>4, <3>5, <3>6, <3>8, <3>9, <3>10, <3>11, <3>12
         DEF SessionInv, TokensSpent
  <2>13. BaseInv' /\ CodeInv' /\ BrowserInv' /\ PeopleInv'
    <3>1. UNCHANGED <<now, open, lost>> /\ left' \in Workload /\ UNCHANGED codes
          /\ UNCHANGED browser /\ UNCHANGED <<account, workspace, usage>>
          /\ revoking' \in [Emails -> Nat]
      BY <1>2, <2>3 DEF IInv, PeopleInv
    <3> QED
      BY <2>7, <3>1, BaseKept, CodesKept, BrowserKept, PeopleKept
  <2> QED
    BY <2>10, <2>11, <2>12, <2>13 DEF IInv
<1> QED
  BY <1>3, <1>4
-----------------------------------------------------------------------------
(* The invariant.                                                          *)

LEMMA InitOK == Init => IInv
<1> SUFFICES ASSUME Init PROVE IInv
  OBVIOUS
<1> PICK M, sent : M = left.members /\ sent = Cardinality(left.inbox)
  OBVIOUS
<1>1. /\ left \in Workload /\ M \subseteq Emails /\ left.inbox \subseteq Purposes
      /\ \A e, f \in M : e = f
      /\ sent \in 0 .. MaxSends
      /\ Cardinality(M) <= DailyLimit /\ Cardinality(M) <= IpLimit
  <2>1. left \in Workloads
    BY DEF Init
  <2>2. left \in Workload
    BY <2>1, WorkloadAssumption
  <2>3. left.members \subseteq Emails /\ left.inbox \subseteq Purposes
    BY <2>2 DEF Workload
  <2> QED
    BY <2>1, <2>2, <2>3, WorkloadAssumption
<1>2. IsFiniteSet(M) /\ Cardinality(M) \in Nat
  <2>1. M \in SUBSET Emails /\ IsFiniteSet(Emails)
    BY <1>1, SignInAssumption
  <2>2. IsFiniteSet(M)
    BY <2>1, FS_Subset
  <2> QED
    BY <2>2, FS_CardinalityType
<1>3. /\ MaxTime \in Nat /\ MaxSends \in Nat /\ CodeTtl \in Nat /\ TrialFor \in Nat
      /\ DailyLimit \in Nat /\ IpLimit \in Nat /\ MaxSessions \in Nat /\ MaxSessions > 0
      /\ MaxFailures \in Nat /\ MaxFailures > 0 /\ MaxAttempts \in Nat /\ MaxAttempts > 0
      /\ DayLength \in Nat /\ DayLength > 0
  BY SignInAssumption
<1>4. 0 \in Days
  <2>1. MaxTime \div DayLength \in Nat
    BY <1>3
  <2> QED
    BY <2>1 DEF Days
<1>5. /\ now = 0 /\ fresh = 3 /\ open = TRUE /\ lost = FALSE /\ webLock = None
      /\ rotated = {} /\ exchanged = {} /\ revoked = {}
      /\ req = [q \in Reqs |-> NoRequest] /\ revoking = [e \in Emails |-> 0]
      /\ account = [e \in Emails |-> IF e \in M THEN "ok" ELSE None]
      /\ jar = (IF M = {} THEN 0 ELSE 1) /\ tab = [t \in Tabs |-> [st |-> "idle", sid |-> jar]]
      /\ mailed = {[email |-> e, purpose |-> p, code |-> 2] : e \in M, p \in left.inbox}
      /\ session = {[id |-> 1, email |-> e, token |-> 1, exp |-> TrialFor] : e \in M}
  BY DEF Init
<1>6. BaseInv
  <2>1. now \in 0 .. MaxTime /\ fresh \in Nat \ {0}
    BY <1>3, <1>5
  <2>2. open \in BOOLEAN /\ lost \in BOOLEAN
    BY <1>5
  <2> QED
    BY <1>1, <2>1, <2>2 DEF BaseInv
<1>7. ReqInv /\ RefreshInv
  <2>1. \A q \in Reqs : req[q] = NoRequest
    BY <1>5
  <2>2. NoRequest \in Requests /\ Holds(NoRequest) /\ LetThrough(NoRequest)
    BY NoRequestFacts, Free DEF Holds
  <2>3. req = [q \in Reqs |-> req[q]]
    BY <1>5
  <2> QED
    BY <2>1, <2>2, <2>3 DEF ReqInv, RefreshInv
<1>8. CodeInv
  <2>1. limit \in [Emails -> [Days -> [sends : 0 .. MaxSends, failures : Nat, until : Nat]]]
    <3> DEFINE L(e, d) == [ZeroLimit EXCEPT !.sends =
                             IF e \in left.members /\ d = 0 THEN sent ELSE 0]
    <3>1. \A e \in Emails, d \in Days :
             L(e, d) \in [sends : 0 .. MaxSends, failures : Nat, until : Nat]
      BY <1>1, <1>3 DEF ZeroLimit
    <3>2. limit = [e \in Emails |-> [d \in Days |-> L(e, d)]]
      BY DEF Init
    <3> HIDE DEF L
    <3> QED
      BY <3>1, <3>2
  <2>2. /\ pending \in [Emails -> [Purposes -> {None} \cup Code]]
        /\ \A e \in Emails, p \in Purposes :
             pending[e][p] # None => pending[e][p].code \in 1 .. (fresh - 1)
    <3> PICK c : c = [code |-> 2, attempts |-> 0, exp |-> CodeTtl]
      OBVIOUS
    <3>1. c \in Code /\ c.code = 2
      BY <1>3 DEF Code
    <3>2. pending = [e \in Emails |-> [p \in Purposes |->
                       IF e \in left.members /\ p \in left.inbox THEN c ELSE None]]
      BY DEF Init
    <3>3. \A e \in Emails, p \in Purposes : pending[e][p] \in {c, None}
      BY <3>2
    <3> QED
      BY <1>5, <3>1, <3>2, <3>3
  <2>3. mailed \subseteq [email : Emails, purpose : Purposes, code : 1 .. (fresh - 1)]
    BY <1>1, <1>5
  <2> QED
    BY <2>1, <2>2, <2>3 DEF CodeInv
<1>9. PeopleInv
  <2> PICK w, u : /\ w = [status |-> "ACTIVE", end |-> TrialFor, day |-> 0]
                  /\ u = Cardinality(left.members)
    OBVIOUS
  <2>1. w \in Workspace /\ w.day = 0 /\ w # None
    BY <1>3, <1>4, NoneAssumption DEF Workspace
  <2>2. workspace = [e \in Emails |-> IF e \in M THEN w ELSE None]
    BY DEF Init
  <2>3. \A d \in Days : /\ d = 0 => usage[d] = [signup |-> u, ip |-> u]
                        /\ d # 0 => usage[d] = [signup |-> 0, ip |-> 0]
    <3> DEFINE n(d) == IF d = 0 THEN u ELSE 0
    <3>1. usage = [d \in Days |-> [signup |-> n(d), ip |-> n(d)]]
      BY DEF Init
    <3>2. \A d \in Days : usage[d] = [signup |-> n(d), ip |-> n(d)]
      <4> HIDE DEF n
      <4> QED
        BY <3>1
    <3>3. n(0) = u /\ \A d : d # 0 => n(d) = 0
      OBVIOUS
    <3> HIDE DEF n
    <3> QED
      BY <3>2, <3>3
  <2>4. u = Cardinality(M) /\ u \in 0 .. DailyLimit /\ u \in 0 .. IpLimit
    BY <1>1, <1>2, <1>3
  <2>5. usage \in [Days -> [signup : 0 .. DailyLimit, ip : 0 .. IpLimit]]
    <3>1. \A d \in Days : usage[d] \in [signup : 0 .. DailyLimit, ip : 0 .. IpLimit]
      BY <1>3, <2>3, <2>4
    <3>2. usage = [d \in Days |-> usage[d]]
      BY DEF Init
    <3> QED
      BY <3>1, <3>2
  <2>6. \A d \in Days : usage[d].signup = Cardinality(Slots(d))
    <3> TAKE d \in Days
    <3>1. CASE d = 0
      <4>1. Slots(d) = M
        BY <1>1, <2>1, <2>2, <3>1 DEF Slots
      <4> QED
        BY <2>3, <2>4, <3>1, <4>1
    <3>2. CASE d # 0
      <4>1. Slots(d) = {}
        BY <2>1, <2>2, <3>2 DEF Slots
      <4> QED
        BY <2>3, <3>2, <4>1, FS_EmptySet
    <3> QED
      BY <3>1, <3>2
  <2>7. \A e \in Emails : account[e] # None <=> workspace[e] # None
    BY <1>5, <2>1, <2>2, NoneAssumption
  <2>8. SlotsCounted
    BY <2>6, <2>7 DEF SlotsCounted, Slots
  <2> QED
    BY <1>5, <2>1, <2>2, <2>5, <2>8 DEF PeopleInv
<1>10. BrowserInv
  BY <1>5 DEF BrowserInv
<1>11. SessionInv
  <2>1. \A s \in session : s.id = 1 /\ s.token = 1 /\ s.email \in M /\ s \in Session
    BY <1>1, <1>3, <1>5 DEF Session
  <2>2. \A s, o \in session : s = o
    <3> SUFFICES ASSUME NEW s \in session, NEW o \in session PROVE s = o
      OBVIOUS
    <3>1. PICK e \in M : s = [id |-> 1, email |-> e, token |-> 1, exp |-> TrialFor]
      BY <1>5
    <3>2. PICK f \in M : o = [id |-> 1, email |-> f, token |-> 1, exp |-> TrialFor]
      BY <1>5
    <3> QED
      BY <1>1, <3>1, <3>2
  <2>3. \A S \in SUBSET session : IsFiniteSet(S) /\ Cardinality(S) <= 1
    <3> TAKE S \in SUBSET session
    <3>1. CASE S = {}
      BY <3>1, FS_EmptySet
    <3>2. CASE S # {}
      <4>1. PICK s \in S : S = {s}
        BY <2>2, <3>2
      <4>2. IsFiniteSet({s}) /\ Cardinality({s}) = 1
        BY FS_Singleton
      <4> QED
        BY <4>1, <4>2
    <3> QED
      BY <3>1, <3>2
  <2>4. SessionCap
    <3> SUFFICES ASSUME NEW e \in Emails PROVE Cardinality(Sessions(e)) <= MaxSessions
      BY DEF SessionCap
    <3> PICK S : S = Sessions(e)
      OBVIOUS
    <3>1. S \in SUBSET session
      BY DEF Sessions
    <3>2. IsFiniteSet(S) /\ Cardinality(S) <= 1
      BY <2>3, <3>1
    <3>3. Cardinality(S) \in Nat
      BY <3>2, FS_CardinalityType
    <3> QED
      BY <1>3, <3>2, <3>3
  <2>5. TokensSpent
    BY <1>5, <2>4 DEF TokensSpent, OneGrantPerToken, RevokedStays
  <2>6. \A s \in session : s.id \in 1 .. (fresh - 1) /\ s.token \in 1 .. (fresh - 1)
                           /\ Opened(s.email)
    BY <1>1, <1>5, <2>1, NoneAssumption DEF Opened
  <2>7. IsFiniteSet(session) /\ session \subseteq Session
    BY <2>1, <2>3
  <2> QED
    BY <1>5, <2>2, <2>5, <2>6, <2>7 DEF SessionInv
<1>12. LockInv
  <2>1. \A e \in Emails, d \in Days : limit[e][d].failures = 0
    BY DEF Init, ZeroLimit
  <2> QED
    BY <1>3, <2>1 DEF LockInv
<1>13. DropInv
  <2>1. \A e \in Emails, p \in Purposes : pending[e][p] # None => pending[e][p].attempts = 0
    BY DEF Init
  <2> QED
    BY <1>3, <2>1 DEF DropInv
<1> QED
  BY <1>6, <1>7, <1>8, <1>9, <1>10, <1>11, <1>12, <1>13 DEF IInv

LEMMA NextOK == IInv /\ [Next]_vars => IInv'
<1> SUFFICES ASSUME IInv, [Next]_vars PROVE IInv'
  OBVIOUS
<1>1. ASSUME NEW q \in Reqs, CodeStep(q) PROVE IInv'
  BY <1>1, TakeSendOK, PutCodeOK, BumpAttemptsOK, RecordFailureOK, DropCodeOK, LockEmailOK,
     SignUpOK, ConsumeLoginOK, ReadWorkspaceOK, IssueOK, ConsumeTerminateOK, EndTrialOK
     DEF CodeStep
<1>2. ASSUME NEW q \in Reqs, RefreshStep(q) PROVE IInv'
  BY <1>2, FindSessionOK, ReplayedOK, RefreshAccountOK, RefreshWorkspaceOK, RotateOK,
     RevokeFamilyOK DEF RefreshStep
<1>3. left.who \subseteq Emails /\ left.purposes \subseteq Purposes /\ left.from \subseteq Tabs
  BY DEF IInv, BaseInv, Workload
<1>4. ASSUME NEW q \in Reqs, NEW e \in left.who, NEW p \in left.purposes, SendCode(q, e, p)
      PROVE  IInv'
  BY <1>3, <1>4, SendCodeOK
<1>5. ASSUME NEW q \in Reqs, NEW e \in left.who, NEW p \in left.purposes,
             NEW t \in left.from, NEW c, Submit(q, t, e, p, c)
      PROVE  IInv'
  BY <1>3, <1>5, SubmitOK
<1>6. CASE UNCHANGED vars
  <2>1. /\ UNCHANGED <<now, codes, people, store, fresh, req, revoking, browser, left, history>>
    BY <1>6 DEF vars
  <2>2. /\ UNCHANGED <<req, limit>> /\ UNCHANGED <<exchanged, revoked, lost, browser, fresh>>
        /\ session' \subseteq session /\ rotated' \subseteq rotated
        /\ now' \in 0 .. MaxTime /\ open' \in BOOLEAN /\ left' \in Workload
    BY <2>1 DEF codes, people, store, history, IInv, BaseInv
  <2> QED
    BY <2>1, <2>2, SamePeople, SameCodes, NoRequestStep
<1> QED
  BY <1>1, <1>2, <1>4, <1>5, <1>6, AnswerOK, LoseRefreshOK, WantRefreshOK, SendRefreshOK,
     LogoutOK, ExpireOK, RevokeUserOK, AdminActsOK, ToggleSignupOK, SweepOK, TickOK DEF Next

(* Codes, accounts, sessions, tabs and requests agree in every state.      *)
THEOREM Invariant == Spec => []IInv
BY InitOK, NextOK, PTL DEF Spec

(* A refresh token is exchanged once, a family revoked as replayed never   *)
(* has a session again, and no account has more than MaxSessions sessions  *)
(* (rotate, revokeFamily and create of the session repository).            *)
THEOREM TokensAreSpent == Spec => []TokensSpent
<1>1. IInv => TokensSpent
  BY DEF IInv, SessionInv
<1> QED
  BY <1>1, Invariant, PTL

-----------------------------------------------------------------------------
(* How far requests at once exceed the attempts of a code and the failures *)
(* of a day: by the requests that stand between a check and its counting.  *)

AtGuess(r, e, p) == r.op = p /\ r.pc = "bump" /\ r.email = e
AtCount(r, e, d) ==
  r.op \in Purposes /\ r.pc \in {"bump", "fail"} /\ r.email = e /\ Day(r.at) = d

(* The requests that will lock an address for a failure of the day.        *)
Locking(e, d) == {q \in Reqs : Locks(req[q], e, d)}

OnDay(d) == {t \in 0 .. MaxTime : Day(t) = d}

Counts(e, d) ==
  /\ limit[e][d].until = 0 =>
       limit[e][d].failures < MaxFailures + Cardinality(Locking(e, d))
  /\ limit[e][d].until # 0 =>
       /\ limit[e][d].failures + Cardinality(Counting(e, d)) < MaxFailures + Cardinality(Reqs)
       /\ \A t \in OnDay(d) : limit[e][d].until > t

OverrunInv ==
  /\ GuessesBounded
  /\ LockFor >= DayLength => \A e \in Emails, d \in Days : Counts(e, d)

(* One failure counted for one request that has no longer to be counted.   *)
LEMMA OneMoved ==
  ASSUME NEW a \in Nat, NEW c \in Nat, NEW cc \in Nat, NEW m \in Nat, NEW r \in Nat,
         cc + 1 <= c, a + c < m + r
  PROVE  a + 1 + cc < m + r
OBVIOUS

(* Requests are finitely many, and so are those of them with something to  *)
(* do.                                                                     *)
LEMMA Few ==
  ASSUME NEW S \in SUBSET Reqs
  PROVE  /\ IsFiniteSet(S) /\ Cardinality(S) \in Nat /\ Cardinality(S) <= Cardinality(Reqs)
         /\ Cardinality(Reqs) \in Nat
         /\ \A T \in SUBSET S : Cardinality(T) <= Cardinality(S)
         /\ \A T \in SUBSET Reqs : S \cap T = {} =>
              Cardinality(S) + Cardinality(T) <= Cardinality(Reqs)
<1>1. IsFiniteSet(Reqs)
  BY SignInAssumption
<1>2. /\ IsFiniteSet(S) /\ Cardinality(S) \in Nat /\ Cardinality(S) <= Cardinality(Reqs)
      /\ Cardinality(Reqs) \in Nat
  BY <1>1, FS_Subset, FS_CardinalityType
<1>3. \A T \in SUBSET S : Cardinality(T) <= Cardinality(S)
  BY <1>2, FS_Subset
<1>4. ASSUME NEW T \in SUBSET Reqs, S \cap T = {}
      PROVE  Cardinality(S) + Cardinality(T) <= Cardinality(Reqs)
  <2>1. IsFiniteSet(T) /\ Cardinality(T) \in Nat
    BY <1>1, FS_Subset, FS_CardinalityType
  <2>2. Cardinality(S \cup T) = Cardinality(S) + Cardinality(T) - Cardinality(S \cap T)
    BY <1>2, <2>1, FS_Union
  <2>3. Cardinality(S \cap T) = 0
    BY <1>4, FS_EmptySet
  <2>4. S \cup T \in SUBSET Reqs
    OBVIOUS
  <2>5. Cardinality(S \cup T) <= Cardinality(Reqs)
    BY <1>1, <2>4, FS_Subset
  <2> QED
    BY <1>2, <2>1, <2>2, <2>3, <2>5
<1> QED
  BY <1>2, <1>3, <1>4

LEMMA Guesses ==
  ASSUME NEW e, NEW p \in Purposes
  PROVE  /\ Guessing(e, p) = {q \in Reqs : AtGuess(req[q], e, p)}
         /\ Guessing(e, p) \in SUBSET Reqs
BY DEF Guessing, AtGuess, At

LEMMA Counted ==
  ASSUME NEW e, NEW d
  PROVE  /\ Counting(e, d) = {q \in Reqs : AtCount(req[q], e, d)}
         /\ Counting(e, d) \in SUBSET Reqs
         /\ Locking(e, d) \in SUBSET Reqs
         /\ Counting(e, d) \cap Locking(e, d) = {}
<1>1. Counting(e, d) = {q \in Reqs : AtCount(req[q], e, d)}
  BY DEF Counting, AtCount, At
<1>2. \A r : AtCount(r, e, d) => ~Locks(r, e, d)
  BY DEF AtCount, Locks, Failed
<1> QED
  BY <1>1, <1>2 DEF Locking

(* What all but four steps do: a request goes on to where it has nothing   *)
(* to count, and one that has to lock still has.                           *)
Away(x) == ~(x.op \in Purposes /\ x.pc \in {"bump", "fail"})
KeepsLock(r, x) == \A e, d : Locks(r, e, d) => Locks(x, e, d)

CalmReq == \A q \in Reqs : req'[q] = req[q] \/ (Away(req'[q]) /\ KeepsLock(req[q], req'[q]))

CalmLimit ==
  \A e \in Emails, d \in Days : /\ limit'[e][d].failures = limit[e][d].failures
                                /\ limit'[e][d].until = limit[e][d].until

CalmCodes ==
  \A e \in Emails, p \in Purposes :
    pending'[e][p] = pending[e][p] \/ pending'[e][p] = None \/ pending'[e][p].attempts = 0

LEMMA LimitNumbers ==
  ASSUME IInv, NEW e \in Emails, NEW d \in Days
  PROVE  limit[e][d].failures \in Nat /\ limit[e][d].until \in Nat
BY DEF IInv, CodeInv

LEMMA Attempted ==
  ASSUME IInv, NEW e \in Emails, NEW p \in Purposes, pending[e][p] # None
  PROVE  pending[e][p].attempts \in Nat /\ pending[e][p].attempts + 1 \in Nat
<1>1. pending[e][p] \in Code
  BY DEF IInv, CodeInv
<1> QED
  BY <1>1 DEF Code

(* Fewer guesses under way, and no more attempts.                          *)
LEMMA GuessesKept ==
  ASSUME IInv, OverrunInv, CalmCodes,
         \A e \in Emails, p \in Purposes : Guessing(e, p)' \in SUBSET Guessing(e, p)
  PROVE  GuessesBounded'
<1> SUFFICES ASSUME NEW e \in Emails, NEW p \in Purposes, pending'[e][p] # None
             PROVE  pending'[e][p].attempts + Cardinality(Guessing(e, p)')
                      < MaxAttempts + Cardinality(Reqs)
  BY DEF GuessesBounded
<1> PICK now_, then : now_ = Guessing(e, p) /\ then = Guessing(e, p)'
  OBVIOUS
<1>1. now_ \in SUBSET Reqs /\ then \in SUBSET now_ /\ then \in SUBSET Reqs
  BY Guesses
<1>2. /\ Cardinality(now_) \in Nat /\ Cardinality(then) \in Nat
      /\ Cardinality(then) <= Cardinality(now_) /\ Cardinality(then) <= Cardinality(Reqs)
      /\ Cardinality(Reqs) \in Nat
  BY <1>1, Few
<1>3. MaxAttempts \in Nat /\ MaxAttempts > 0
  BY SignInAssumption
<1>4. CASE pending'[e][p].attempts = 0
  BY <1>2, <1>3, <1>4
<1>5. CASE pending'[e][p] = pending[e][p]
  <2>1. pending[e][p].attempts \in Nat
    BY <1>5, Attempted
  <2>2. pending[e][p].attempts + Cardinality(now_) < MaxAttempts + Cardinality(Reqs)
    BY <1>5 DEF OverrunInv, GuessesBounded
  <2> QED
    BY <1>2, <1>3, <1>5, <2>1, <2>2
<1> QED
  BY <1>4, <1>5 DEF CalmCodes

(* Fewer failures to count, and no request that forgets to lock.           *)
LEMMA CountsKept ==
  ASSUME IInv, NEW e \in Emails, NEW d \in Days, Counts(e, d),
         limit'[e][d].failures = limit[e][d].failures, limit'[e][d].until = limit[e][d].until,
         limit[e][d].until # 0 => Counting(e, d)' \in SUBSET Counting(e, d),
         limit[e][d].until = 0 => Locking(e, d) \in SUBSET Locking(e, d)'
  PROVE  Counts(e, d)'
<1>1. limit[e][d].failures \in Nat /\ MaxFailures \in Nat
  BY LimitNumbers, SignInAssumption
<1>2. CASE limit[e][d].until = 0
  <2>1. Locking(e, d)' \in SUBSET Reqs /\ Locking(e, d) \in SUBSET Reqs
    BY DEF Locking
  <2>2. /\ Cardinality(Locking(e, d)) <= Cardinality(Locking(e, d)')
        /\ Cardinality(Locking(e, d)) \in Nat /\ Cardinality(Locking(e, d)') \in Nat
    BY <1>2, <2>1, Few
  <2> QED
    BY <1>1, <1>2, <2>2 DEF Counts
<1>3. CASE limit[e][d].until # 0
  <2>1. Counting(e, d)' \in SUBSET Reqs /\ Counting(e, d) \in SUBSET Reqs
    BY DEF Counting
  <2>2. /\ Cardinality(Counting(e, d)') <= Cardinality(Counting(e, d))
        /\ Cardinality(Counting(e, d)) \in Nat /\ Cardinality(Counting(e, d)') \in Nat
        /\ Cardinality(Reqs) \in Nat
    BY <1>3, <2>1, Few
  <2> QED
    BY <1>1, <1>3, <2>2 DEF Counts, OnDay
<1> QED
  BY <1>2, <1>3

LEMMA Calm ==
  ASSUME IInv, OverrunInv, CalmReq, CalmLimit, CalmCodes
  PROVE  OverrunInv'
<1>1. \A q \in Reqs : \A e, p, d :
        /\ p \in Purposes /\ AtGuess(req'[q], e, p) => AtGuess(req[q], e, p)
        /\ AtCount(req'[q], e, d) => AtCount(req[q], e, d)
        /\ Locks(req[q], e, d) => Locks(req'[q], e, d)
  BY DEF CalmReq, Away, KeepsLock, AtGuess, AtCount
<1>2. \A e \in Emails, p \in Purposes : Guessing(e, p)' \in SUBSET Guessing(e, p)
  <2> TAKE e \in Emails, p \in Purposes
  <2>1. Guessing(e, p)' = {q \in Reqs : AtGuess(req'[q], e, p)}
    BY DEF Guessing, AtGuess, At
  <2> QED
    BY <1>1, <2>1, Guesses
<1>3. GuessesBounded'
  BY <1>2, GuessesKept
<1>4. ASSUME LockFor >= DayLength, NEW e \in Emails, NEW d \in Days
      PROVE  Counts(e, d)'
  <2>1. Counting(e, d)' = {q \in Reqs : AtCount(req'[q], e, d)}
    BY DEF Counting, AtCount, At
  <2>2. Locking(e, d)' = {q \in Reqs : Locks(req'[q], e, d)}
    BY DEF Locking, Locks
  <2>3. Counting(e, d)' \in SUBSET Counting(e, d) /\ Locking(e, d) \in SUBSET Locking(e, d)'
    BY <1>1, <2>1, <2>2, Counted DEF Locking
  <2>4. Counts(e, d)
    BY <1>4 DEF OverrunInv
  <2> QED
    BY <2>3, <2>4, CountsKept DEF CalmLimit
<1> QED
  BY <1>3, <1>4 DEF OverrunInv

LEMMA Moves ==
  ASSUME IInv, NEW q \in Reqs, NEW x, req' = [req EXCEPT ![q] = x], Away(x),
         KeepsLock(req[q], x)
  PROVE  CalmReq
<1>1. \A v \in Reqs : req'[v] = IF v = q THEN x ELSE req[v]
  BY DEF IInv, ReqInv
<1> QED
  BY <1>1 DEF CalmReq

(* Only a check of a code that failed has to lock.                         *)
LEMMA NoLock ==
  ASSUME NEW r, r.op \notin Purposes \/ r.pc \notin {"drop", "lock"}, NEW x
  PROVE  KeepsLock(r, x)
BY DEF KeepsLock, Locks, Failed

LEMMA SameRequests == ASSUME req' = req PROVE CalmReq
BY DEF CalmReq

LEMMA SameRows == ASSUME UNCHANGED <<limit, pending>> PROVE CalmLimit /\ CalmCodes
BY DEF CalmLimit, CalmCodes

LEMMA NobodyAway == Away(NoRequest) /\ NoRequest.op \notin Purposes
BY DEF Away, NoRequest, Purposes

(* Where each step of a request leads.                                     *)
LEMMA OnwardCodes ==
  ASSUME IInv, NEW q \in Reqs,
         \/ TakeSend(q) \/ PutCode(q) \/ SignUp(q) \/ ConsumeLogin(q) \/ ReadWorkspace(q)
         \/ Issue(q) \/ ConsumeTerminate(q) \/ EndTrial(q)
  PROVE  CalmReq
<1> PICK r : r = req[q]
  OBVIOUS
<1>0. r \in Requests
  BY Facts
<1>1. r.op \notin Purposes \/ r.pc \notin {"drop", "lock"}
  BY DEF TakeSend, PutCode, SignUp, ConsumeLogin, ReadWorkspace, Issue, ConsumeTerminate,
         EndTrial, At, Purposes
<1>2. ASSUME NEW x, req' = [req EXCEPT ![q] = x], Away(x) PROVE CalmReq
  BY <1>1, <1>2, NoLock, Moves
<1>3. CASE Done(q)
  BY <1>2, <1>3, NobodyAway DEF Done, Goto
<1>4. ASSUME NEW pc \in {"put", "workspace", "end"}, Step(q, pc),
             r \in Sending \/ r \in Checking
      PROVE  CalmReq
  <2> PICK x : x = [r EXCEPT !.pc = pc]
    OBVIOUS
  <2>1. x.pc = pc
    BY <1>4 DEF Sending, Checking
  <2> QED
    BY <1>2, <1>4, <2>1 DEF Step, Goto, Away
<1>5. CASE TakeSend(q)
  BY <1>0, <1>3, <1>4, <1>5, Steps DEF TakeSend, At
<1>6. CASE PutCode(q)
  BY <1>3, <1>6 DEF PutCode
<1>7. CASE SignUp(q)
  <2> PICK x : x = [op |-> "signup", pc |-> "issue", email |-> r.email, tab |-> r.tab,
                    end |-> now + TrialFor]
    OBVIOUS
  <2>1. Done(q) \/ req' = [req EXCEPT ![q] = x]
    BY <1>7 DEF SignUp, Goto
  <2>2. Away(x)
    BY DEF Away
  <2> QED
    BY <1>2, <1>3, <2>1, <2>2
<1>8. CASE ConsumeLogin(q)
  BY <1>0, <1>3, <1>4, <1>8, Steps DEF ConsumeLogin, At, Purposes
<1>9. CASE ReadWorkspace(q)
  <2> PICK x : x = [op |-> "login", pc |-> "issue", email |-> r.email, tab |-> r.tab,
                    end |-> workspace[r.email].end]
    OBVIOUS
  <2>1. Done(q) \/ req' = [req EXCEPT ![q] = x]
    BY <1>9 DEF ReadWorkspace, Goto
  <2>2. Away(x)
    BY DEF Away
  <2> QED
    BY <1>2, <1>3, <2>1, <2>2
<1>10. CASE Issue(q)
  <2> PICK x : x = [op |-> "login", pc |-> "answer", tab |-> r.tab, sid |-> fresh,
                    cookie |-> fresh]
    OBVIOUS
  <2>1. req' = [req EXCEPT ![q] = x]
    BY <1>10 DEF Issue, Goto
  <2>2. Away(x)
    BY DEF Away
  <2> QED
    BY <1>2, <2>1, <2>2
<1>11. CASE ConsumeTerminate(q)
  BY <1>0, <1>4, <1>11, Steps DEF ConsumeTerminate, At, Purposes
<1>12. CASE EndTrial(q)
  BY <1>3, <1>12 DEF EndTrial
<1> QED
  BY <1>5, <1>6, <1>7, <1>8, <1>9, <1>10, <1>11, <1>12

LEMMA OnwardRefresh ==
  ASSUME IInv, NEW q \in Reqs, RefreshStep(q) \/ LoseRefresh(q) \/ Answer(q)
  PROVE  CalmReq
<1> PICK r : r = req[q]
  OBVIOUS
<1>1. r.op \notin Purposes \/ r.pc \notin {"drop", "lock"}
  BY DEF RefreshStep, FindSession, Replayed, RefreshAccount, RefreshWorkspace, Rotate,
         RevokeFamily, LoseRefresh, Answer, At, Purposes
<1>2. ASSUME NEW x, req' = [req EXCEPT ![q] = x], Away(x) PROVE CalmReq
  BY <1>1, <1>2, NoLock, Moves
<1>3. CASE Answer(q)
  BY <1>2, <1>3, NobodyAway DEF Answer, Done, Goto
<1>4. ASSUME NEW x, req' = [req EXCEPT ![q] = x], x.op = "refresh" PROVE CalmReq
  BY <1>2, <1>4 DEF Away, Purposes
<1>5. CASE RefreshStep(q) \/ LoseRefresh(q)
  <2>1. r \in Finding \cup Reading \cup Rotating \cup Answering /\ r.op = "refresh"
    BY <1>5, Facts, Steps DEF RefreshStep, FindSession, Replayed, RefreshAccount,
       RefreshWorkspace, Rotate, RevokeFamily, LoseRefresh, At
  <2>2. Refused(r).op = "refresh"
    BY DEF Refused
  <2>3. \A pc : [r EXCEPT !.pc = pc].op = "refresh"
    BY <2>1 DEF Finding, Reading, Rotating, Answering
  <2>4. [r EXCEPT !.tab = None].op = "refresh"
    BY <2>1 DEF Finding, Reading, Rotating, Answering
  <2>5. \E x : req' = [req EXCEPT ![q] = x] /\ x.op = "refresh"
    <3>1. CASE FindSession(q)
      <4>1. \/ Step(q, "replay") \/ Goto(q, Refused(r))
            \/ \E s \in session : Goto(q, [op |-> "refresh", pc |-> "account", tab |-> r.tab,
                                           at |-> r.at, s |-> s])
        BY <3>1 DEF FindSession
      <4>2. \A s : [op |-> "refresh", pc |-> "account", tab |-> r.tab, at |-> r.at,
                    s |-> s].op = "refresh"
        OBVIOUS
      <4> QED
        BY <2>2, <2>3, <4>1, <4>2 DEF Step, Goto
    <3>2. CASE Replayed(q) \/ RevokeFamily(q)
      BY <2>2, <3>2 DEF Replayed, RevokeFamily, Goto
    <3>3. CASE RefreshAccount(q)
      BY <2>2, <2>3, <3>3 DEF RefreshAccount, Step, Goto
    <3>4. CASE RefreshWorkspace(q)
      <4> PICK x, w : /\ w = workspace[r.s.email]
                      /\ x = [op |-> "refresh", pc |-> "rotate", tab |-> r.tab,
                              s |-> r.s, exp |-> Min({r.s.exp, w.end})]
        OBVIOUS
      <4>1. req' = [req EXCEPT ![q] = x] \/ req' = [req EXCEPT ![q] = Refused(r)]
        BY <3>4 DEF RefreshWorkspace, Goto
      <4>2. x.op = "refresh"
        OBVIOUS
      <4> QED
        BY <2>2, <4>1, <4>2
    <3>5. CASE Rotate(q)
      <4> PICK x : x = [op |-> "refresh", pc |-> "answer", tab |-> r.tab, sid |-> r.s.id,
                        cookie |-> fresh]
        OBVIOUS
      <4>1. req' = [req EXCEPT ![q] = x] \/ Step(q, "revoke")
        BY <3>5 DEF Rotate, Goto
      <4>2. x.op = "refresh"
        OBVIOUS
      <4> QED
        BY <2>3, <4>1, <4>2 DEF Step, Goto
    <3>6. CASE LoseRefresh(q)
      BY <2>4, <3>6 DEF LoseRefresh, Goto
    <3> QED
      BY <1>5, <3>1, <3>2, <3>3, <3>4, <3>5, <3>6 DEF RefreshStep
  <2> QED
    BY <1>4, <2>5
<1> QED
  BY <1>3, <1>5

LEMMA Starts ==
  ASSUME IInv, NEW q \in Reqs, Idle(q), NEW x, req' = [req EXCEPT ![q] = x], Away(x)
  PROVE  CalmReq
BY NobodyAway, NoLock, Moves DEF Idle

LEMMA SomeoneStarts ==
  ASSUME IInv, NEW q \in Reqs, NEW t, NEW e, NEW p,
         SendCode(q, e, p) \/ SendRefresh(t, q) \/ Logout(q, t)
  PROVE  CalmReq
<1>1. CASE SendCode(q, e, p)
  <2> PICK x : x = [op |-> "send", pc |-> "take", email |-> e, purpose |-> p, at |-> now,
                    deliver |-> (p = "signup") <=> (account[e] = None)]
    OBVIOUS
  <2>1. req' = [req EXCEPT ![q] = x] /\ Idle(q)
    BY <1>1 DEF SendCode, Goto
  <2>2. Away(x)
    BY DEF Away
  <2> QED
    BY <2>1, <2>2, Starts
<1>2. CASE SendRefresh(t, q)
  <2> PICK r : r = [op |-> "refresh", pc |-> "find", tab |-> t, token |-> jar, at |-> now]
    OBVIOUS
  <2>1. Idle(q) /\ (req' = [req EXCEPT ![q] = r] \/ req' = [req EXCEPT ![q] = Refused(r)])
    BY <1>2 DEF SendRefresh, Goto
  <2>2. Away(r) /\ Away(Refused(r))
    BY DEF Away, Refused
  <2> QED
    BY <2>1, <2>2, Starts
<1>3. CASE Logout(q, t)
  <2> PICK x : x = [op |-> "logout", pc |-> "answer", tab |-> t, sid |-> 0, cookie |-> 0]
    OBVIOUS
  <2>1. req' = [req EXCEPT ![q] = x] /\ Idle(q)
    BY <1>3 DEF Logout, Goto
  <2>2. Away(x)
    BY DEF Away
  <2> QED
    BY <2>1, <2>2, Starts
<1> QED
  BY <1>1, <1>2, <1>3

(* A code is removed.                                                      *)
LEMMA CodeGone ==
  ASSUME IInv, NEW e, NEW p, pending' = [pending EXCEPT ![e][p] = None]
  PROVE  CalmCodes
<1>1. \A f \in Emails, k \in Purposes :
        pending'[f][k] = IF f = e /\ k = p THEN None ELSE pending[f][k]
  BY DEF IInv, CodeInv
<1> QED
  BY <1>1 DEF CalmCodes

LEMMA DropCodeCalm ==
  ASSUME IInv, OverrunInv, NEW q \in Reqs, DropCode(q)
  PROVE  OverrunInv'
<1> PICK r : r = req[q]
  OBVIOUS
<1>1. r \in Failed /\ r.pc = "drop"
  BY Facts, Steps DEF DropCode, At
<1>2. CalmCodes /\ CalmLimit
  BY CodeGone DEF DropCode, CalmCodes, CalmLimit
<1>3. CASE r.lock
  <2> PICK x : x = [r EXCEPT !.pc = "lock"]
    OBVIOUS
  <2>1. req' = [req EXCEPT ![q] = x]
    BY <1>3 DEF DropCode, Step, Goto
  <2>2. /\ x \in Failed /\ x.pc = "lock" /\ x.lock = r.lock /\ x.email = r.email
        /\ x.at = r.at
    BY <1>1 DEF Failed
  <2>3. Away(x) /\ KeepsLock(r, x)
    BY <2>2 DEF Away, KeepsLock, Locks
  <2> QED
    BY <1>2, <2>1, <2>3, Moves, Calm
<1>4. CASE ~r.lock
  <2>1. req' = [req EXCEPT ![q] = NoRequest]
    BY <1>4 DEF DropCode, Done, Goto
  <2>2. KeepsLock(r, NoRequest)
    BY <1>4 DEF KeepsLock, Locks
  <2> QED
    BY <1>2, <2>1, <2>2, NobodyAway, Moves, Calm
<1> QED
  BY <1>3, <1>4

LEMMA TakeSendCalm ==
  ASSUME IInv, OverrunInv, NEW q \in Reqs, TakeSend(q)
  PROVE  OverrunInv'
<1> PICK e, d : e = req[q].email /\ d = Day(req[q].at)
  OBVIOUS
<1>1. limit' = limit \/ limit' = [limit EXCEPT ![e][d].sends = @ + 1]
  BY DEF TakeSend
<1>2. limit \in [Emails -> [Days -> [sends : 0 .. MaxSends, failures : Nat, until : Nat]]]
  BY DEF IInv, CodeInv
<1>3. CalmLimit
  <2> SUFFICES ASSUME NEW f \in Emails, NEW c \in Days,
                      limit' = [limit EXCEPT ![e][d].sends = @ + 1]
               PROVE  /\ limit'[f][c].failures = limit[f][c].failures
                      /\ limit'[f][c].until = limit[f][c].until
    BY <1>1 DEF CalmLimit
  <2> PICK l : l = limit[f][c]
    OBVIOUS
  <2>1. l \in [sends : 0 .. MaxSends, failures : Nat, until : Nat]
    BY <1>2
  <2>2. limit'[f][c] = l \/ limit'[f][c] = [l EXCEPT !.sends = @ + 1]
    BY <1>2
  <2>3. /\ [l EXCEPT !.sends = @ + 1].failures = l.failures
        /\ [l EXCEPT !.sends = @ + 1].until = l.until
    BY <2>1
  <2> QED
    BY <2>2, <2>3
<1>4. CalmCodes
  BY DEF TakeSend, CalmCodes
<1> QED
  BY <1>3, <1>4, OnwardCodes, Calm

LEMMA PutCodeCalm ==
  ASSUME IInv, OverrunInv, NEW q \in Reqs, PutCode(q)
  PROVE  OverrunInv'
<1> PICK e, p, c : /\ e = req[q].email /\ p = req[q].purpose
                   /\ c = [code |-> fresh, attempts |-> 0, exp |-> req[q].at + CodeTtl]
  OBVIOUS
<1>1. pending' = [pending EXCEPT ![e][p] = c] /\ c.attempts = 0 /\ limit' = limit
  BY DEF PutCode
<1>2. \A f \in Emails, k \in Purposes :
        pending'[f][k] = c \/ pending'[f][k] = pending[f][k]
  BY <1>1 DEF IInv, CodeInv
<1>3. CalmCodes /\ CalmLimit
  BY <1>1, <1>2 DEF CalmCodes, CalmLimit
<1> QED
  BY <1>3, OnwardCodes, Calm

LEMMA SweepCalm ==
  ASSUME IInv, OverrunInv, Sweep
  PROVE  OverrunInv'
<1>1. CalmCodes /\ CalmLimit /\ CalmReq
  BY SameRequests DEF Sweep, CalmCodes, CalmLimit
<1> QED
  BY <1>1, Calm

(* The new check of a code is one of Reqs, and no lock was in its way.     *)
LEMMA SubmitCounts ==
  ASSUME IInv, OverrunInv, NEW q \in Reqs, NEW t, NEW e \in Emails, NEW p \in Purposes,
         NEW code, Submit(q, t, e, p, code)
  PROVE  OverrunInv'
<1> PICK c : c = pending[e][p]
  OBVIOUS
<1> PICK x : x = [op |-> p, email |-> e, tab |-> t, at |-> now,
                  seen |-> c # None, usable |-> Usable(c), attempts |-> MaxAttempts,
                  pc |-> IF ~Usable(c) THEN "fail"
                         ELSE IF c.code = code THEN "verified" ELSE "bump"]
  OBVIOUS
<1>1. /\ req' = [req EXCEPT ![q] = x] /\ Idle(q) /\ UNCHANGED <<limit, pending>>
      /\ ~Locked(e, now)
  BY DEF Submit, Goto, codes
<1>2. /\ x.op = p /\ x.email = e /\ x.at = now
      /\ x.pc \in {"fail", "verified", "bump"} /\ (x.pc = "bump" => Usable(c))
  OBVIOUS
<1>3. \A v \in Reqs : req'[v] = IF v = q THEN x ELSE req[v]
  BY <1>1 DEF IInv, ReqInv
<1>4. GuessesBounded'
  <2> SUFFICES ASSUME NEW f \in Emails, NEW k \in Purposes, pending[f][k] # None
               PROVE  pending[f][k].attempts + Cardinality(Guessing(f, k)')
                        < MaxAttempts + Cardinality(Reqs)
    BY <1>1 DEF GuessesBounded
  <2> PICK then : then = Guessing(f, k)'
    OBVIOUS
  <2>1. then = {v \in Reqs : AtGuess(req'[v], f, k)}
    BY DEF Guessing, AtGuess, At
  <2>2. then \in SUBSET Reqs
    BY <2>1
  <2>3. /\ Cardinality(then) \in Nat /\ Cardinality(then) <= Cardinality(Reqs)
        /\ Cardinality(Reqs) \in Nat /\ MaxAttempts \in Nat
    BY <2>2, Few, SignInAssumption
  <2>4. pending[f][k].attempts \in Nat
    BY Attempted
  <2>5. CASE f = e /\ k = p /\ x.pc = "bump"
    BY <1>2, <2>3, <2>4, <2>5 DEF Usable
  <2>6. CASE ~(f = e /\ k = p /\ x.pc = "bump")
    <3>1. then \in SUBSET Guessing(f, k)
      BY <1>2, <1>3, <2>1, <2>6, Guesses DEF AtGuess
    <3>2. Guessing(f, k) \in SUBSET Reqs
      BY Guesses
    <3>3. /\ Cardinality(then) <= Cardinality(Guessing(f, k))
          /\ Cardinality(Guessing(f, k)) \in Nat
      BY <3>1, <3>2, Few
    <3>4. pending[f][k].attempts + Cardinality(Guessing(f, k))
            < MaxAttempts + Cardinality(Reqs)
      BY DEF OverrunInv, GuessesBounded
    <3> QED
      BY <2>3, <2>4, <3>3, <3>4
  <2> QED
    BY <2>5, <2>6
<1>5. ASSUME LockFor >= DayLength, NEW f \in Emails, NEW d \in Days
      PROVE  Counts(f, d)'
  <2>1. Counts(f, d)
    BY <1>5 DEF OverrunInv
  <2>2. Counting(f, d)' = {v \in Reqs : AtCount(req'[v], f, d)}
    BY DEF Counting, AtCount, At
  <2>3. Locking(f, d) \in SUBSET Locking(f, d)'
    <3>1. ~Locks(req[q], f, d)
      BY <1>1, NoRequestFacts DEF Idle, Locks
    <3>2. Locking(f, d)' = {v \in Reqs : Locks(req'[v], f, d)}
      BY DEF Locking, Locks
    <3> QED
      BY <1>3, <3>1, <3>2 DEF Locking
  <2>4. ASSUME limit[f][d].until # 0 PROVE Counting(f, d)' \in SUBSET Counting(f, d)
    <3>1. \A s \in OnDay(d) : limit[f][d].until > s
      BY <2>1, <2>4 DEF Counts
    <3>2. now \in 0 .. MaxTime
      BY Facts
    <3>3. ~(f = e /\ Day(now) = d)
      BY <1>1, <3>1, <3>2 DEF Locked, OnDay
    <3>4. ~AtCount(x, f, d)
      BY <1>2, <3>3 DEF AtCount
    <3> QED
      BY <1>3, <2>2, <3>4, Counted
  <2> QED
    BY <1>1, <2>1, <2>3, <2>4, CountsKept
<1> QED
  BY <1>4, <1>5 DEF OverrunInv

(* One guess less under way, one attempt more.                             *)
LEMMA OneLess ==
  ASSUME NEW S \in SUBSET Reqs, NEW q \in S, NEW T \in SUBSET (S \ {q})
  PROVE  Cardinality(T) + 1 <= Cardinality(S) /\ Cardinality(T) \in Nat
<1>1. IsFiniteSet(S) /\ Cardinality(S) \in Nat
  BY Few
<1>2. Cardinality(S \ {q}) = Cardinality(S) - 1 /\ S \ {q} \in SUBSET Reqs
  BY <1>1, FS_RemoveElement
<1>3. Cardinality(T) <= Cardinality(S \ {q})
  BY <1>2, Few
<1>4. T \in SUBSET Reqs
  OBVIOUS
<1> QED
  BY <1>1, <1>2, <1>3, <1>4, Few

LEMMA BumpCounts ==
  ASSUME IInv, OverrunInv, NEW q \in Reqs, BumpAttempts(q)
  PROVE  OverrunInv'
<1> PICK e, p, r, c : e = req[q].email /\ p = req[q].op /\ r = req[q] /\ c = pending[e][p]
  OBVIOUS
<1>1. /\ r \in Checking /\ r.pc = "bump" /\ e \in Emails /\ p \in Purposes
      /\ r.op = p /\ r.email = e
  <2>1. r \in Checking /\ r.pc = "bump"
    BY Facts, Steps DEF BumpAttempts, At
  <2> QED
    BY <2>1 DEF Checking
<1>2. PICK x : /\ req' = [req EXCEPT ![q] = x]
               /\ x = [r EXCEPT !.pc = "fail"]
                  \/ x = [r EXCEPT !.pc = "fail", !.attempts = Bumped(c)]
  BY DEF BumpAttempts, Step, Goto
<1>3. x.pc = "fail" /\ x.op = p /\ x.email = e /\ x.at = r.at
  BY <1>1, <1>2 DEF Checking
<1>4. \A v \in Reqs : req'[v] = IF v = q THEN x ELSE req[v]
  BY <1>2 DEF IInv, ReqInv
<1>5. limit' = limit
  BY DEF BumpAttempts
<1>6. GuessesBounded'
  <2> SUFFICES ASSUME NEW f \in Emails, NEW k \in Purposes, pending'[f][k] # None
               PROVE  pending'[f][k].attempts + Cardinality(Guessing(f, k)')
                        < MaxAttempts + Cardinality(Reqs)
    BY DEF GuessesBounded
  <2> PICK then, before : then = Guessing(f, k)' /\ before = Guessing(f, k)
    OBVIOUS
  <2>1. /\ then = {v \in Reqs : AtGuess(req'[v], f, k)}
        /\ before = {v \in Reqs : AtGuess(req[v], f, k)}
    BY DEF Guessing, AtGuess, At
  <2>2. before \in SUBSET Reqs /\ then \in SUBSET (before \ {q}) /\ then \in SUBSET before
    BY <1>3, <1>4, <2>1 DEF AtGuess
  <2>3. /\ Cardinality(then) \in Nat /\ Cardinality(before) \in Nat
        /\ Cardinality(then) <= Cardinality(before) /\ Cardinality(Reqs) \in Nat
        /\ MaxAttempts \in Nat
    BY <2>2, Few, SignInAssumption
  <2>4. pending[f][k] # None =>
          /\ pending[f][k].attempts \in Nat
          /\ pending[f][k].attempts + Cardinality(before) < MaxAttempts + Cardinality(Reqs)
    BY Attempted DEF OverrunInv, GuessesBounded
  <2>5. pending \in [Emails -> [Purposes -> {None} \cup Code]]
    BY DEF IInv, CodeInv
  <2>6. CASE f = e /\ k = p /\ c # None
    <3>1. q \in before
      BY <1>1, <2>1, <2>6 DEF AtGuess
    <3>2. Cardinality(then) + 1 <= Cardinality(before)
      BY <2>2, <3>1, OneLess
    <3>3. c \in Code
      BY <1>1, <2>5, <2>6
    <3>4. pending' = [pending EXCEPT ![e][p].attempts = @ + 1]
      BY <2>6 DEF BumpAttempts
    <3>5. pending'[e][p] = [c EXCEPT !.attempts = @ + 1]
      BY <1>1, <2>5, <3>4
    <3>6. pending'[e][p].attempts = c.attempts + 1
      BY <3>3, <3>5 DEF Code
    <3> QED
      BY <2>3, <2>4, <2>6, <3>2, <3>6
  <2>7. CASE ~(f = e /\ k = p /\ c # None)
    <3>1. \/ pending' = pending
          \/ c # None /\ pending' = [pending EXCEPT ![e][p].attempts = @ + 1]
      BY DEF BumpAttempts
    <3>2. pending'[f][k] = pending[f][k]
      BY <1>1, <2>5, <2>7, <3>1
    <3> QED
      BY <2>3, <2>4, <3>2
  <2> QED
    BY <2>6, <2>7
<1>7. ASSUME LockFor >= DayLength, NEW f \in Emails, NEW d \in Days
      PROVE  Counts(f, d)'
  <2>1. Counts(f, d)
    BY <1>7 DEF OverrunInv
  <2>2. Counting(f, d)' = {v \in Reqs : AtCount(req'[v], f, d)}
    BY DEF Counting, AtCount, At
  <2>3. Locking(f, d)' = {v \in Reqs : Locks(req'[v], f, d)}
    BY DEF Locking, Locks
  <2>4. ~Locks(r, f, d) /\ (AtCount(x, f, d) => AtCount(r, f, d))
    BY <1>1, <1>3 DEF Locks, Failed, AtCount
  <2>5. Counting(f, d)' \in SUBSET Counting(f, d) /\ Locking(f, d) \in SUBSET Locking(f, d)'
    BY <1>4, <2>2, <2>3, <2>4, Counted DEF Locking
  <2> QED
    BY <1>5, <2>1, <2>5, CountsKept
<1> QED
  BY <1>6, <1>7 DEF OverrunInv

(* The failure that reaches the limit has a request that locks.            *)
LEMMA RecordCounts ==
  ASSUME IInv, OverrunInv, NEW q \in Reqs, RecordFailure(q)
  PROVE  OverrunInv'
<1> PICK e, d, r, n : /\ e = req[q].email /\ d = Day(req[q].at) /\ r = req[q]
                      /\ n = limit[e][d].failures + 1
  OBVIOUS
<1>1. /\ r \in Checking /\ r.pc = "fail" /\ e \in Emails /\ d \in Days /\ r.op \in Purposes
      /\ r.at \in 0 .. MaxTime /\ r.email = e
  <2>1. r \in Checking /\ r.pc = "fail"
    BY Facts, Steps DEF RecordFailure, At
  <2>2. r.at \in 0 .. MaxTime /\ r.email \in Emails /\ r.op \in Purposes
    BY <2>1 DEF Checking
  <2> QED
    BY <2>1, <2>2, DayFacts
<1> PICK drop, lock : drop = (r.seen /\ DropsCode(r)) /\ lock = LocksEmail(n)
  OBVIOUS
<1> PICK x : x = [op |-> r.op, pc |-> "drop", email |-> e, at |-> r.at,
                  drop |-> drop, lock |-> lock]
  OBVIOUS
<1>2. /\ req' = [req EXCEPT ![q] = x] /\ pending' = pending
      /\ limit' = [limit EXCEPT ![e][d].failures = @ + 1]
  BY DEF RecordFailure, Goto
<1>3. /\ x \in Failed /\ x.lock = lock /\ x.email = e /\ x.pc = "drop" /\ Day(x.at) = d
  <2>1. drop \in BOOLEAN /\ lock \in BOOLEAN
    BY <1>1 DEF LocksEmail, Checking
  <2> QED
    BY <1>1, <2>1 DEF Failed
<1>4. \A v \in Reqs : req'[v] = IF v = q THEN x ELSE req[v]
  BY <1>2 DEF IInv, ReqInv
<1>5. GuessesBounded'
  <2>1. \A f \in Emails, k \in Purposes : Guessing(f, k)' \in SUBSET Guessing(f, k)
    <3> TAKE f \in Emails, k \in Purposes
    <3>1. Guessing(f, k)' = {v \in Reqs : AtGuess(req'[v], f, k)}
      BY DEF Guessing, AtGuess, At
    <3> QED
      BY <1>3, <1>4, <3>1, Guesses DEF AtGuess
  <2> QED
    BY <1>2, <2>1, GuessesKept DEF CalmCodes
<1>6. limit \in [Emails -> [Days -> [sends : 0 .. MaxSends, failures : Nat, until : Nat]]]
  BY DEF IInv, CodeInv
<1>7. ASSUME NEW f \in Emails, NEW b \in Days
      PROVE  /\ limit'[f][b].until = limit[f][b].until
             /\ limit'[f][b].failures = IF f = e /\ b = d THEN n ELSE limit[f][b].failures
  <2> PICK l : l = limit[f][b]
    OBVIOUS
  <2>1. l \in [sends : 0 .. MaxSends, failures : Nat, until : Nat]
    BY <1>6
  <2>2. limit'[f][b] = IF f = e /\ b = d THEN [l EXCEPT !.failures = @ + 1] ELSE l
    BY <1>2, <1>6
  <2>3. /\ [l EXCEPT !.failures = @ + 1].failures = l.failures + 1
        /\ [l EXCEPT !.failures = @ + 1].until = l.until
    BY <2>1
  <2> QED
    BY <2>2, <2>3
<1>8. ASSUME LockFor >= DayLength, NEW f \in Emails, NEW b \in Days
      PROVE  Counts(f, b)'
  <2>1. Counts(f, b)
    BY <1>8 DEF OverrunInv
  <2> PICK C, CC, L, LL : /\ C = Counting(f, b) /\ CC = Counting(f, b)'
                          /\ L = Locking(f, b) /\ LL = Locking(f, b)'
    OBVIOUS
  <2>2. /\ C = {v \in Reqs : AtCount(req[v], f, b)} /\ CC = {v \in Reqs : AtCount(req'[v], f, b)}
        /\ L = {v \in Reqs : Locks(req[v], f, b)} /\ LL = {v \in Reqs : Locks(req'[v], f, b)}
    BY DEF Counting, AtCount, At, Locking, Locks
  <2>3. ~Locks(r, f, b) /\ ~AtCount(x, f, b)
    BY <1>1, <1>3 DEF Locks, Failed, AtCount
  <2>4. C \in SUBSET Reqs /\ CC \in SUBSET C /\ CC \in SUBSET (C \ {q}) /\ L \in SUBSET LL
        /\ LL \in SUBSET Reqs
    BY <1>4, <2>2, <2>3
  <2>7. limit'[f][b].until = limit[f][b].until /\ LL = Locking(f, b)' /\ CC = Counting(f, b)'
    BY <1>7
  <2>5. CASE ~(f = e /\ b = d)
    BY <1>7, <2>1, <2>4, <2>5, CountsKept
  <2>6. CASE f = e /\ b = d
    <3>1. limit[e][d].failures \in Nat /\ n \in Nat /\ limit[e][d].until \in Nat
          /\ MaxFailures \in Nat
      BY <1>1, LimitNumbers, SignInAssumption
    <3>0. limit'[e][d].failures = n /\ n = limit[e][d].failures + 1
      BY <1>1, <1>7
    <3>2. CASE limit[e][d].until = 0
      <4>1. /\ Cardinality(LL) \in Nat /\ Cardinality(L) <= Cardinality(LL)
        BY <2>4, Few
      <4>2. CASE n < MaxFailures
        <5>1. limit'[e][d].failures < MaxFailures + Cardinality(LL)
          BY <3>0, <3>1, <4>1, <4>2
        <5> QED
          BY <2>6, <2>7, <3>2, <5>1 DEF Counts
      <4>3. CASE n >= MaxFailures
        <5>1. Locks(x, e, d)
          BY <1>3, <4>3 DEF Locks, LocksEmail
        <5>2. q \in LL /\ L \in SUBSET (LL \ {q})
          BY <1>4, <2>2, <2>3, <2>4, <2>6, <5>1
        <5>3. Cardinality(L) + 1 <= Cardinality(LL) /\ Cardinality(L) \in Nat
          BY <2>4, <5>2, OneLess
        <5>4. limit[e][d].failures < MaxFailures + Cardinality(L)
          BY <2>1, <2>6, <3>2 DEF Counts
        <5>5. limit'[e][d].failures < MaxFailures + Cardinality(LL)
          BY <3>0, <3>1, <4>1, <5>3, <5>4
        <5> QED
          BY <2>6, <2>7, <3>2, <5>5 DEF Counts
      <4> QED
        BY <3>1, <4>2, <4>3
    <3>3. CASE limit[e][d].until # 0
      <4>1. q \in C
        BY <1>1, <2>2, <2>6 DEF AtCount
      <4>2. Cardinality(CC) + 1 <= Cardinality(C) /\ Cardinality(CC) \in Nat
            /\ Cardinality(C) \in Nat /\ Cardinality(Reqs) \in Nat
        BY <2>4, <4>1, OneLess, Few
      <4>3. /\ limit[e][d].failures + Cardinality(C) < MaxFailures + Cardinality(Reqs)
            /\ \A t \in OnDay(d) : limit[e][d].until > t
        BY <2>1, <2>6, <3>3 DEF Counts
      <4>4. limit'[e][d].failures + Cardinality(CC) < MaxFailures + Cardinality(Reqs)
        BY <3>0, <3>1, <4>2, <4>3, OneMoved
      <4> QED
        <5>1. limit'[f][b].failures + Cardinality(Counting(f, b)')
                < MaxFailures + Cardinality(Reqs)
          <6>1. limit'[f][b].failures + Cardinality(CC) < MaxFailures + Cardinality(Reqs)
            BY <2>6, <4>4
          <6> QED
            BY <2>7, <6>1
        <5>2. \A t \in OnDay(b) : limit'[f][b].until > t
          BY <2>6, <2>7, <4>3
        <5>3. limit'[f][b].until # 0
          BY <2>6, <2>7, <3>3
        <5> QED
          BY <5>1, <5>2, <5>3 DEF Counts, OnDay
    <3> QED
      BY <3>2, <3>3
  <2> QED
    BY <2>5, <2>6
<1> QED
  BY <1>5, <1>8 DEF OverrunInv

(* A lock reaches beyond the day of the failure it is set for.             *)
LEMMA LockReaches ==
  ASSUME NEW s \in 0 .. MaxTime, NEW t \in 0 .. MaxTime, Day(s) = Day(t), LockFor >= DayLength
  PROVE  s + LockFor > t
<1>1. MaxTime \in Nat /\ DayLength \in Nat /\ DayLength > 0 /\ LockFor \in Nat
  BY SignInAssumption
<1>2. s \in Nat /\ t \in Nat
  BY <1>1
<1>3. s = DayLength * (s \div DayLength) + (s % DayLength) /\ s % DayLength \in 0 .. (DayLength - 1)
  BY <1>1, <1>2
<1>4. t = DayLength * (t \div DayLength) + (t % DayLength) /\ t % DayLength \in 0 .. (DayLength - 1)
  BY <1>1, <1>2
<1>5. s \div DayLength = t \div DayLength
  BY DEF Day
<1> PICK m : m = DayLength * (s \div DayLength)
  OBVIOUS
<1>6. /\ s = m + (s % DayLength) /\ t = m + (t % DayLength)
      /\ s % DayLength \in Nat /\ t % DayLength \in Nat /\ t % DayLength < DayLength
  BY <1>1, <1>3, <1>4, <1>5
<1>7. m = s - (s % DayLength)
  BY <1>1, <1>2, <1>3
<1> QED
  BY <1>1, <1>2, <1>6, <1>7

LEMMA LockCounts ==
  ASSUME IInv, OverrunInv, NEW q \in Reqs, LockEmail(q)
  PROVE  OverrunInv'
<1> PICK e, d, r, u : /\ e = req[q].email /\ d = Day(req[q].at) /\ r = req[q]
                      /\ u = req[q].at + LockFor
  OBVIOUS
<1>1. /\ r \in Failed /\ r.pc = "lock" /\ e \in Emails /\ d \in Days
      /\ r.email = e /\ r.at \in 0 .. MaxTime /\ u \in Nat /\ u > 0
  <2>1. r \in Failed /\ r.pc = "lock"
    BY Facts, Steps DEF LockEmail, At
  <2>2. r.at \in 0 .. MaxTime /\ r.email \in Emails /\ LockFor \in Nat /\ LockFor > 0
        /\ MaxTime \in Nat
    BY <2>1, SignInAssumption DEF Failed
  <2> QED
    BY <2>1, <2>2, DayFacts
<1>2. /\ req' = [req EXCEPT ![q] = NoRequest] /\ pending' = pending
      /\ limit' = [limit EXCEPT ![e][d].until = u]
  BY DEF LockEmail, Goto, Done
<1>3. \A v \in Reqs : req'[v] = IF v = q THEN NoRequest ELSE req[v]
  BY <1>2 DEF IInv, ReqInv
<1>4. GuessesBounded'
  <2>1. \A f \in Emails, k \in Purposes : Guessing(f, k)' \in SUBSET Guessing(f, k)
    <3> TAKE f \in Emails, k \in Purposes
    <3>1. Guessing(f, k)' = {v \in Reqs : AtGuess(req'[v], f, k)}
      BY DEF Guessing, AtGuess, At
    <3>2. NoRequest.op # k
      BY NobodyAway
    <3> QED
      BY <1>3, <3>1, <3>2, Guesses DEF AtGuess
  <2> QED
    BY <1>2, <2>1, GuessesKept DEF CalmCodes
<1>5. limit \in [Emails -> [Days -> [sends : 0 .. MaxSends, failures : Nat, until : Nat]]]
  BY DEF IInv, CodeInv
<1>6. ASSUME NEW f \in Emails, NEW b \in Days
      PROVE  /\ limit'[f][b].failures = limit[f][b].failures
             /\ limit'[f][b].until = IF f = e /\ b = d THEN u ELSE limit[f][b].until
  <2> PICK l : l = limit[f][b]
    OBVIOUS
  <2>1. l \in [sends : 0 .. MaxSends, failures : Nat, until : Nat]
    BY <1>5
  <2>2. limit'[f][b] = IF f = e /\ b = d THEN [l EXCEPT !.until = u] ELSE l
    BY <1>2, <1>5
  <2>3. [l EXCEPT !.until = u].failures = l.failures /\ [l EXCEPT !.until = u].until = u
    BY <2>1
  <2> QED
    BY <2>2, <2>3
<1>7. ASSUME LockFor >= DayLength, NEW f \in Emails, NEW b \in Days
      PROVE  Counts(f, b)'
  <2>1. Counts(f, b)
    BY <1>7 DEF OverrunInv
  <2> PICK C, CC, L, LL : /\ C = Counting(f, b) /\ CC = Counting(f, b)'
                          /\ L = Locking(f, b) /\ LL = Locking(f, b)'
    OBVIOUS
  <2>2. /\ C = {v \in Reqs : AtCount(req[v], f, b)} /\ CC = {v \in Reqs : AtCount(req'[v], f, b)}
        /\ L = {v \in Reqs : Locks(req[v], f, b)} /\ LL = {v \in Reqs : Locks(req'[v], f, b)}
    BY DEF Counting, AtCount, At, Locking, Locks
  <2>3. ~AtCount(NoRequest, f, b) /\ (Locks(r, f, b) => f = e /\ b = d)
    BY NobodyAway DEF Locks, AtCount
  <2>4. /\ C \in SUBSET Reqs /\ CC \in SUBSET C /\ L \in SUBSET Reqs
        /\ ~(f = e /\ b = d) => L \in SUBSET LL
    BY <1>3, <2>2, <2>3
  <2>5. CASE ~(f = e /\ b = d)
    BY <1>6, <2>1, <2>4, <2>5, CountsKept
  <2>6. CASE f = e /\ b = d
    <3>1. limit[e][d].failures \in Nat /\ MaxFailures \in Nat /\ Cardinality(Reqs) \in Nat
          /\ Cardinality(C) \in Nat /\ Cardinality(CC) \in Nat /\ Cardinality(CC) <= Cardinality(C)
          /\ Cardinality(L) \in Nat
      BY <1>1, <2>4, LimitNumbers, SignInAssumption, Few
    <3>2. limit[e][d].failures + Cardinality(C) < MaxFailures + Cardinality(Reqs)
      <4>1. CASE limit[e][d].until # 0
        BY <2>1, <2>6, <4>1 DEF Counts
      <4>2. CASE limit[e][d].until = 0
        <5>1. limit[e][d].failures < MaxFailures + Cardinality(L)
          BY <2>1, <2>6, <4>2 DEF Counts
        <5>2. C \cap L = {}
          BY Counted
        <5>3. Cardinality(C) + Cardinality(L) <= Cardinality(Reqs)
          BY <2>4, <5>2, Few
        <5> QED
          BY <3>1, <5>1, <5>3
      <4> QED
        BY <4>1, <4>2
    <3>3. limit'[e][d].failures + Cardinality(CC) < MaxFailures + Cardinality(Reqs)
      BY <1>1, <1>6, <3>1, <3>2
    <3>4. \A t \in OnDay(d) : u > t
      BY <1>1, <1>7, LockReaches DEF OnDay
    <3>5. limit'[e][d].until = u /\ u # 0
      BY <1>1, <1>6
    <3> QED
      BY <2>6, <3>3, <3>4, <3>5 DEF Counts, OnDay
  <2> QED
    BY <2>5, <2>6
<1> QED
  BY <1>4, <1>7 DEF OverrunInv

LEMMA OverrunStart == Init => OverrunInv
<1> SUFFICES ASSUME Init PROVE OverrunInv
  OBVIOUS
<1>1. \A q \in Reqs : req[q] = NoRequest
  BY DEF Init
<1>2. \A e \in Emails, p \in Purposes : Guessing(e, p) = {}
  BY <1>1, NobodyAway DEF Guessing, At
<1>3. Cardinality({}) = 0 /\ Cardinality(Reqs) \in Nat
  BY FS_EmptySet, SignInAssumption, FS_CardinalityType
<1>4. /\ MaxAttempts \in Nat /\ MaxAttempts > 0 /\ MaxFailures \in Nat /\ MaxFailures > 0
  BY SignInAssumption
<1>5. \A e \in Emails, p \in Purposes : pending[e][p] # None => pending[e][p].attempts = 0
  BY DEF Init
<1>6. GuessesBounded
  BY <1>2, <1>3, <1>4, <1>5 DEF GuessesBounded
<1>7. \A e \in Emails, d \in Days : limit[e][d].until = 0 /\ limit[e][d].failures = 0
  BY DEF Init, ZeroLimit
<1>8. \A e \in Emails, d \in Days : Counts(e, d)
  <2> TAKE e \in Emails, d \in Days
  <2>1. Locking(e, d) \in SUBSET Reqs
    BY DEF Locking
  <2>2. Cardinality(Locking(e, d)) \in Nat
    BY <2>1, Few
  <2> QED
    BY <1>4, <1>7, <2>2 DEF Counts
<1> QED
  BY <1>6, <1>8 DEF OverrunInv

LEMMA OverrunStep == IInv /\ OverrunInv /\ [Next]_vars => OverrunInv'
<1> SUFFICES ASSUME IInv, OverrunInv, [Next]_vars PROVE OverrunInv'
  OBVIOUS
<1>1. ASSUME NEW q \in Reqs, CodeStep(q) PROVE OverrunInv'
  <2>1. CASE SignUp(q)
    <3>1. CalmCodes /\ CalmLimit
      BY <2>1, CodeGone DEF SignUp, CalmLimit
    <3> QED
      BY <2>1, <3>1, OnwardCodes, Calm
  <2>2. CASE ConsumeLogin(q)
    <3>1. CalmCodes /\ CalmLimit
      BY <2>2, CodeGone DEF ConsumeLogin, CalmLimit
    <3> QED
      BY <2>2, <3>1, OnwardCodes, Calm
  <2>3. CASE ConsumeTerminate(q)
    <3>1. CalmCodes /\ CalmLimit
      BY <2>3, CodeGone DEF ConsumeTerminate, CalmLimit
    <3> QED
      BY <2>3, <3>1, OnwardCodes, Calm
  <2>4. CASE ReadWorkspace(q) \/ Issue(q) \/ EndTrial(q)
    <3>1. UNCHANGED <<limit, pending>>
      BY <2>4 DEF ReadWorkspace, Issue, EndTrial, codes
    <3> QED
      BY <2>4, <3>1, OnwardCodes, SameRows, Calm
  <2> QED
    BY <1>1, <2>1, <2>2, <2>3, <2>4, TakeSendCalm, PutCodeCalm, BumpCounts, RecordCounts,
       DropCodeCalm, LockCounts DEF CodeStep
<1>2. ASSUME NEW q \in Reqs, RefreshStep(q) \/ LoseRefresh(q) \/ Answer(q) PROVE OverrunInv'
  <2>1. UNCHANGED <<limit, pending>>
    BY <1>2 DEF RefreshStep, FindSession, Replayed, RefreshAccount, RefreshWorkspace, Rotate,
                RevokeFamily, LoseRefresh, Answer, codes
  <2> QED
    BY <1>2, <2>1, OnwardRefresh, SameRows, Calm
<1>3. left.who \subseteq Emails /\ left.purposes \subseteq Purposes
  BY DEF IInv, BaseInv, Workload
<1>4. ASSUME NEW q \in Reqs, NEW e, NEW p, NEW t,
             SendCode(q, e, p) \/ SendRefresh(t, q) \/ Logout(q, t)
      PROVE  OverrunInv'
  <2>1. UNCHANGED <<limit, pending>>
    BY <1>4 DEF SendCode, SendRefresh, Logout, codes
  <2> QED
    BY <1>4, <2>1, SomeoneStarts, SameRows, Calm
<1>5. ASSUME NEW q \in Reqs, NEW e \in left.who, NEW p \in left.purposes, NEW t, NEW c,
             Submit(q, t, e, p, c)
      PROVE  OverrunInv'
  BY <1>3, <1>5, SubmitCounts
<1>6. ASSUME UNCHANGED <<req, limit, pending>> PROVE OverrunInv'
  BY <1>6, SameRequests, SameRows, Calm
<1>7. ASSUME NEW t \in Tabs, WantRefresh(t) PROVE OverrunInv'
  BY <1>6, <1>7 DEF WantRefresh, codes
<1>8. ASSUME NEW e \in Emails, Expire(e) \/ RevokeUser(e) PROVE OverrunInv'
  BY <1>6, <1>8 DEF Expire, RevokeUser, codes
<1>9. ASSUME NEW e \in Emails, NEW kind \in left.kinds, AdminActs(e, kind) PROVE OverrunInv'
  BY <1>6, <1>9 DEF AdminActs, codes
<1>10. CASE ToggleSignup \/ Tick \/ UNCHANGED vars
  BY <1>6, <1>10 DEF ToggleSignup, Tick, vars, codes
<1> QED
  BY <1>1, <1>2, <1>4, <1>5, <1>7, <1>8, <1>9, <1>10, SweepCalm DEF Next

LEMMA Overruns == Spec => []OverrunInv
BY OverrunStart, OverrunStep, Invariant, PTL DEF Spec

LEMMA FailuresFew == ASSUME IInv, OverrunInv PROVE FailuresBounded
<1> SUFFICES ASSUME LockFor >= DayLength, NEW e \in Emails, NEW d \in Days
             PROVE  limit[e][d].failures + Cardinality(Counting(e, d))
                      < MaxFailures + Cardinality(Reqs)
  BY DEF FailuresBounded
<1> PICK C, L : C = Counting(e, d) /\ L = Locking(e, d)
  OBVIOUS
<1>1. Counts(e, d) /\ limit[e][d].failures \in Nat /\ MaxFailures \in Nat
  BY LimitNumbers, SignInAssumption DEF OverrunInv
<1>2. C \in SUBSET Reqs /\ L \in SUBSET Reqs /\ C \cap L = {}
  BY Counted
<1>3. /\ Cardinality(C) \in Nat /\ Cardinality(L) \in Nat /\ Cardinality(Reqs) \in Nat
      /\ Cardinality(C) + Cardinality(L) <= Cardinality(Reqs)
  BY <1>2, Few
<1> QED
  BY <1>1, <1>3 DEF Counts

(* However many requests race: sends and sign-ups of a day stay within     *)
(* their limits, a used-up code is dropped and a used-up address locked    *)
(* once the checks of codes have ended, and the attempts of a code and the *)
(* failures of a day exceed their limits by the requests at once only.     *)
THEOREM LimitsAreExact == Spec => []LimitsExact
<1> SUFFICES ASSUME IInv, OverrunInv PROVE LimitsExact
  BY Invariant, Overruns, PTL
<1>1. TypeOK
  <2>0. fresh \in Nat
    BY DEF IInv, BaseInv
  <2>1. 1 .. (fresh - 1) \subseteq 1 .. fresh /\ 0 .. (fresh - 1) \subseteq 0 .. fresh
    BY <2>0
  <2>2. now \in 0 .. MaxTime /\ fresh \in Nat /\ open \in BOOLEAN /\ lost \in BOOLEAN
    BY DEF IInv, BaseInv
  <2>3. limit \in [Emails -> [Days -> [sends : 0 .. MaxSends, failures : Nat, until : Nat]]]
    BY DEF IInv, CodeInv
  <2>4. pending \in [Emails -> [Purposes -> {None} \cup
            [code : 1 .. fresh, attempts : Nat, exp : Nat]]]
    <3>1. \A e \in Emails, p \in Purposes : pending[e][p] \in {None} \cup
            [code : 1 .. fresh, attempts : Nat, exp : Nat]
      BY <2>1 DEF IInv, CodeInv, Code
    <3> QED
      BY <3>1 DEF IInv, CodeInv
  <2>5. mailed \subseteq [email : Emails, purpose : Purposes, code : 1 .. fresh]
    BY <2>1 DEF IInv, CodeInv
  <2>6. /\ account \in [Emails -> {None, "ok", "banned"}]
        /\ workspace \in [Emails -> {None} \cup
              [status : {"ACTIVE", "EXPIRED"}, end : Nat, day : Days]]
        /\ usage \in [Days -> [signup : 0 .. DailyLimit, ip : 0 .. IpLimit]]
        /\ revoking \in [Emails -> Nat]
    BY DEF IInv, PeopleInv, Workspace
  <2>7. session \subseteq [id : 1 .. fresh, email : Emails, token : 1 .. fresh, exp : Nat]
    <3> SUFFICES ASSUME NEW s \in session
                 PROVE  s \in [id : 1 .. fresh, email : Emails, token : 1 .. fresh, exp : Nat]
      OBVIOUS
    <3>1. s \in Session /\ s.id \in 1 .. fresh /\ s.token \in 1 .. fresh
      BY <2>1 DEF IInv, SessionInv
    <3> QED
      BY <3>1 DEF Session
  <2>8. rotated \subseteq [token : 1 .. fresh, family : 1 .. fresh, exp : Nat]
    BY <2>1 DEF IInv, SessionInv
  <2>9. \A q \in Reqs : Idle(q) \/ req[q].op \in Purposes \cup {"send", "refresh", "logout"}
    <3> TAKE q \in Reqs
    <3>1. req[q] \in Requests
      BY Facts
    <3> QED
      BY <3>1 DEF Idle, Requests, Sending, Checking, Failed, Issuing, Finding, Reading,
                  Rotating, Answering, Purposes
  <2>10. /\ jar \in 0 .. fresh /\ webLock \in Tabs \cup {None}
         /\ tab \in [Tabs -> [st : {"idle", "waiting", "sent"}, sid : 0 .. fresh]]
    BY <2>1 DEF IInv, BrowserInv
  <2> QED
    BY <2>2, <2>3, <2>4, <2>5, <2>6, <2>7, <2>8, <2>9, <2>10 DEF TypeOK
<1>2. SlotsCounted
  BY DEF IInv, PeopleInv
<1>3. \A q \in Reqs : ~Failing(q) => Quiet(req[q])
  BY NoRequestFacts DEF Failing, Idle, Quiet, Failed
<1>4. LockNotMissed
  BY <1>3, QuietFacts DEF LockNotMissed, IInv, LockInv
<1>5. ExhaustedDropped
  <2> SUFFICES ASSUME \A q \in Reqs : ~Failing(q), NEW e \in Emails, NEW p \in Purposes,
                      pending[e][p] # None
               PROVE  pending[e][p].attempts < MaxAttempts
    BY DEF ExhaustedDropped
  <2>1. ~(pending[e][p].attempts >= MaxAttempts)
    BY <1>3, QuietFacts DEF IInv, DropInv
  <2>2. pending[e][p].attempts \in Nat /\ MaxAttempts \in Nat
    BY SignInAssumption DEF IInv, CodeInv, Code
  <2> QED
    BY <2>1, <2>2
<1> QED
  BY <1>1, <1>2, <1>4, <1>5, FailuresFew DEF LimitsExact, OverrunInv

(* What a step that is no rotation leaves of the sessions.                 *)
LEMMA OnlyRotates ==
  ASSUME IInv, [Next]_vars, \A q \in Reqs : ~Rotate(q)
  PROVE  \A o \in session' : o \in session \/ o.id = fresh
<1>1. ASSUME NEW q \in Reqs, Issue(q) PROVE \A o \in session' : o \in session \/ o.id = fresh
  <2> PICK e, n : e = req[q].email /\ n = Min({now + TrialFor, req[q].end})
    OBVIOUS
  <2> PICK s : s = [id |-> fresh, email |-> e, token |-> fresh, exp |-> n]
    OBVIOUS
  <2>1. session' = (session \ Sessions(e)) \cup Keeps(Sessions(e) \cup {s})
    BY <1>1 DEF Issue
  <2>2. Keeps(Sessions(e) \cup {s}) \subseteq Sessions(e) \cup {s}
    BY DEF Keeps, Newest
  <2>3. Sessions(e) \subseteq session /\ s.id = fresh
    BY DEF Sessions
  <2> QED
    BY <2>1, <2>2, <2>3
<1>2. ASSUME NEW q \in Reqs, CodeStep(q), ~Issue(q) PROVE session' = session
  BY <1>2 DEF CodeStep, TakeSend, PutCode, BumpAttempts, RecordFailure, DropCode, LockEmail,
              SignUp, ConsumeLogin, ReadWorkspace, ConsumeTerminate, EndTrial, store
<1>3. ASSUME NEW q \in Reqs, RefreshStep(q) PROVE session' \subseteq session
  BY <1>3 DEF RefreshStep, FindSession, Replayed, RefreshAccount, RefreshWorkspace,
              RevokeFamily, store
<1>4. ASSUME NEW q \in Reqs, Answer(q) \/ LoseRefresh(q) PROVE session' = session
  BY <1>4 DEF Answer, LoseRefresh, store
<1>5. ASSUME NEW t \in Tabs,
             WantRefresh(t) \/ \E q \in Reqs : SendRefresh(t, q) \/ Logout(q, t)
      PROVE  session' \subseteq session
  BY <1>5 DEF WantRefresh, SendRefresh, Logout, store
<1>6. ASSUME NEW e \in Emails, Expire(e) \/ RevokeUser(e) PROVE session' \subseteq session
  BY <1>6 DEF Expire, RevokeUser, store
<1>7. ASSUME NEW e \in Emails, NEW kind \in left.kinds, AdminActs(e, kind)
      PROVE  session' = session
  BY <1>7 DEF AdminActs, store
<1>8. CASE ToggleSignup \/ Sweep \/ Tick
  BY <1>8 DEF ToggleSignup, Sweep, Tick, store
<1>9. CASE UNCHANGED vars
  BY <1>9 DEF vars, store
<1>10. ASSUME NEW q \in Reqs, NEW e, NEW p, SendCode(q, e, p) PROVE session' = session
  BY <1>10 DEF SendCode, store
<1>11. ASSUME NEW q \in Reqs, NEW e, NEW p, NEW t, NEW c, Submit(q, t, e, p, c)
       PROVE  session' = session
  BY <1>11 DEF Submit, store
<1> QED
  BY <1>1, <1>2, <1>3, <1>4, <1>5, <1>6, <1>7, <1>8, <1>9, <1>10, <1>11 DEF Next

(* A session gets a new token only while its account may sign in and its   *)
(* trial is active, or while the deletion of its sessions is still to run: *)
(* once deleteByUser has run, no refresh succeeds.                         *)
THEOREM EndedStaysOut == Spec => EndedNotRefreshed
<1>1. IInv /\ [Next]_vars =>
        [\A s \in session : (\E o \in session' : o.id = s.id /\ o.token # s.token) =>
            \/ revoking[s.email] > 0
            \/ account[s.email] = "ok" /\ workspace[s.email].status = "ACTIVE"]_vars
  <2> SUFFICES ASSUME IInv, [Next]_vars, NEW s \in session, NEW o \in session',
                      o.id = s.id, o.token # s.token
               PROVE  \/ revoking[s.email] > 0
                      \/ account[s.email] = "ok" /\ workspace[s.email].status = "ACTIVE"
    OBVIOUS
  <2>1. /\ \A p, v \in session : p.id = v.id => p = v
        /\ \A p \in session : p.id < fresh /\ p.id \in Nat
        /\ fresh \in Nat
    BY DEF IInv, BaseInv, SessionInv, Session
  <2>2. o \notin session /\ o.id # fresh
    BY <2>1
  <2>3. PICK q \in Reqs : Rotate(q)
    BY <2>2, OnlyRotates
  <2> PICK r : r = req[q]
    OBVIOUS
  <2>4. r \in Rotating /\ r.pc = "rotate" /\ LetThrough(r)
    BY <2>3, Facts, Steps DEF Rotate, At, IInv, RefreshInv
  <2>5. Rotates(r.s) # {}
    BY <2>2, <2>3 DEF Rotate, store
  <2>6. PICK p \in session : /\ p.id = r.s.id /\ p.email = r.s.email /\ Rotates(r.s) = {p}
    BY <2>4, <2>5, RotatedRow
  <2>7. o.id = r.s.id
    <3> PICK new : new = [r.s EXCEPT !.token = fresh, !.exp = r.exp]
      OBVIOUS
    <3>1. session' = (session \ {p}) \cup {new}
      BY <2>3, <2>5, <2>6 DEF Rotate
    <3>2. new.id = r.s.id
      BY <2>4 DEF Rotating, Session
    <3> QED
      BY <2>2, <3>1, <3>2
  <2>8. s = p /\ Alive(r.s)
    BY <2>1, <2>6, <2>7 DEF Alive
  <2> QED
    BY <2>4, <2>6, <2>8 DEF LetThrough
<1> QED
  BY <1>1, Invariant, PTL DEF Spec, EndedNotRefreshed

=============================================================================

------------------------------ MODULE SignIn ------------------------------
(***************************************************************************)
(* Signing in (packages/identity) and staying signed in (apps/web): the    *)
(* one-time codes, the admission of sign-ups, the sessions with their      *)
(* rotating refresh tokens, and the browser tabs that share one cookie.    *)
(*                                                                         *)
(* A request is a process of its own; one of its steps is one D1 statement *)
(* or batch, or several reads in a row none of which is binding.  A        *)
(* request that is refused before it writes changes nothing and is a       *)
(* stuttering step.  Secrets (codes, tokens) are fresh numbers.            *)
(*                                                                         *)
(* Abstracted: one IP address; signup_closed and signup_enabled are one    *)
(* flag; Turnstile and e-mail domains; the administrator, whose sign-in    *)
(* needs a passkey; the access token but for the session it names.         *)
(***************************************************************************)
EXTENDS Integers, FiniteSets, FiniteSetsExt

CONSTANTS
    Emails,       \* e-mail addresses, and the accounts they open
    Reqs,         \* requests at work at once
    Tabs,         \* tabs of one browser
    MaxAttempts,  \* OTP.maxAttemptsPerCode (5)
    MaxSends,     \* OTP.maxSendsPerDay (5)
    MaxFailures,  \* OTP.maxFailuresPerDay (10)
    CodeTtl,      \* OTP.ttlMs, in ticks
    Throttle,     \* OTP.resendThrottleMs, in ticks
    CodeSlack,    \* OTP.retentionMs - OTP.ttlMs, in ticks
    LockFor,      \* OTP.lockMs, in ticks
    MaxSessions,  \* limits.maxSessions
    TrialFor,     \* limits.trialHours, in ticks
    DayLength,    \* ticks of a day
    DailyLimit,   \* platform_setting signup_daily_limit
    ActiveLimit,  \* platform_setting active_workspace_limit
    BacklogLimit, \* purgeBacklogLimit
    IpLimit,      \* SIGNUPS_PER_IP_DAILY (2)
    Workloads,    \* bounds: how many steps of each kind may happen
    MaxTime,      \* bound: ticks
    None

ASSUME SignInAssumption ==
    /\ IsFiniteSet(Emails) /\ IsFiniteSet(Reqs) /\ IsFiniteSet(Tabs)
    /\ {MaxAttempts, MaxSends, MaxFailures, CodeTtl, Throttle, CodeSlack,
        LockFor, MaxSessions, TrialFor, DayLength, DailyLimit, ActiveLimit,
        BacklogLimit, IpLimit, MaxTime} \subseteq Nat
    /\ MaxAttempts > 0 /\ MaxFailures > 0 /\ MaxSessions > 0 /\ DayLength > 0
    /\ LockFor > 0

VARIABLES
    now,
    limit,      \* otp_limit
    pending,    \* pending_code
    mailed,     \* codes that reached their reader
    account,    \* user_account: None, "ok" or "banned" (and its address blocked)
    workspace,  \* workspace: None, or its status, trial end and first day
    usage,      \* usage_counter: sign-ups of the day, and of the IP
    open,       \* sign-up is enabled and not closed automatically
    session,    \* session
    rotated,    \* session_rotated
    fresh,      \* the next secret
    req,        \* the requests
    revoking,   \* deleteByUser calls still to run, per account
    jar,        \* the browser's refresh cookie, 0 for none
    tab,        \* the tabs
    webLock,    \* who holds the Web Lock od-refresh
    left,       \* what is left of the workload
    exchanged,  \* history: <<token, the token it was exchanged for>>
    revoked,    \* history: families revoked as replayed
    lost        \* history: an answer of a refresh did not reach its tab

codes == <<limit, pending, mailed>>
people == <<account, workspace, usage, open>>
store == <<session, rotated>>
browser == <<jar, tab, webLock>>
history == <<exchanged, revoked, lost>>
vars == <<now, codes, people, store, fresh, req, revoking, browser, left, history>>

Purposes == {"signup", "login", "terminate"}
Days == 0 .. MaxTime \div DayLength

(* utcDay. *)
Day(t) == t \div DayLength

(* Who is a member at first, with which codes in the mailbox; who asks for *)
(* codes of which purposes, and submits them from which tabs; what the     *)
(* administrator does; and how often each kind of step may still happen.   *)
Workload ==
    [members : SUBSET Emails, inbox : SUBSET Purposes, purposes : SUBSET Purposes,
     kinds : SUBSET {"end", "move", "ban", "unban", "revoke"},
     who : SUBSET Emails, from : SUBSET Tabs,
     send : Nat, submit : Nat, typo : Nat, refresh : Nat, logout : Nat,
     lose : Nat, admin : Nat, toggle : Nat, tick : Nat]

(* One member at most: the browser's cookie is this one's.                 *)
ASSUME WorkloadAssumption ==
    \A x \in Workloads :
        /\ x \in Workload
        /\ \A e, f \in x.members : e = f
        /\ Cardinality(x.members) <= DailyLimit
        /\ Cardinality(x.members) <= IpLimit
        /\ Cardinality(x.inbox) \in 0 .. MaxSends

Workspace == [status : {"ACTIVE", "EXPIRED"}, end : Nat, day : Days]

Code == [code : Nat, attempts : Nat, exp : Nat]

(* "No account", "no workspace" and "no code" are none of these.           *)
ASSUME NoneAssumption ==
    None \notin {"ok", "banned"} /\ None \notin Workspace /\ None \notin Code

ZeroLimit == [sends |-> 0, failures |-> 0, until |-> 0]

NoRequest == [op |-> "none"]

(* A member has an account, one session whose token is in the cookie, and, *)
(* when the workload says so, a login code in the mailbox.                 *)
Init ==
    /\ now = 0
    /\ left \in Workloads
    /\ limit = [e \in Emails |-> [d \in Days |-> [ZeroLimit EXCEPT !.sends =
                    IF e \in left.members /\ d = 0 THEN Cardinality(left.inbox) ELSE 0]]]
    /\ pending = [e \in Emails |-> [p \in Purposes |->
                    IF e \in left.members /\ p \in left.inbox
                    THEN [code |-> 2, attempts |-> 0, exp |-> CodeTtl]
                    ELSE None]]
    /\ mailed = {[email |-> e, purpose |-> p, code |-> 2] :
                    e \in left.members, p \in left.inbox}
    /\ account = [e \in Emails |-> IF e \in left.members THEN "ok" ELSE None]
    /\ workspace = [e \in Emails |-> IF e \in left.members
                      THEN [status |-> "ACTIVE", end |-> TrialFor, day |-> 0]
                      ELSE None]
    /\ usage = [d \in Days |-> LET n == IF d = 0 THEN Cardinality(left.members) ELSE 0
                               IN  [signup |-> n, ip |-> n]]
    /\ open = TRUE
    /\ session = {[id |-> 1, email |-> e, token |-> 1, exp |-> TrialFor] : e \in left.members}
    /\ rotated = {}
    /\ fresh = 3
    /\ req = [q \in Reqs |-> NoRequest]
    /\ revoking = [e \in Emails |-> 0]
    /\ jar = IF left.members = {} THEN 0 ELSE 1
    /\ tab = [t \in Tabs |-> [st |-> "idle", sid |-> jar]]
    /\ webLock = None
    /\ exchanged = {} /\ revoked = {} /\ lost = FALSE

-----------------------------------------------------------------------------
(* Requests. *)

Idle(q) == req[q] = NoRequest
At(q, op, pc) == req[q].op \in op /\ req[q].pc = pc
Goto(q, r) == req' = [req EXCEPT ![q] = r]
Done(q) == Goto(q, NoRequest)
Step(q, pc) == Goto(q, [req[q] EXCEPT !.pc = pc])

Spend(kind) == left[kind] > 0 /\ left' = [left EXCEPT ![kind] = @ - 1]

(* limits: the lock of any day counts, sends and failures only today's. *)
Locked(e, t) == \E d \in Days : limit[e][d].until > t

TrialUsableAny(w, t) == TRUE
TrialUsable(w, t) == w.status = "ACTIVE" /\ w.end > t

-----------------------------------------------------------------------------
(* Codes. *)

Trials(status) == {e \in Emails : workspace[e] # None /\ workspace[e].status = status}

(* precheck: admissionRefusal is null. *)
Admitted ==
    LET u == usage[Day(now)]
    IN  /\ open
        /\ u.signup < DailyLimit
        /\ Cardinality(Trials("ACTIVE")) < ActiveLimit
        /\ Cardinality(Trials("EXPIRED")) < BacklogLimit
        /\ u.ip < IpLimit

(* canResend: the code in place is older than the throttle. *)
CanResend(e, p) ==
    pending[e][p] # None => now - (pending[e][p].exp - CodeTtl) >= Throttle

(* sendCode and sendMeCode up to takeSend.  A code is only delivered to an *)
(* address that can use it.                                                *)
SendCode(q, e, p) ==
    /\ Idle(q) /\ Spend("send")
    /\ account[e] # "banned" /\ ~Locked(e, now)
    /\ limit[e][Day(now)].sends < MaxSends
    /\ p = "signup" => Admitted
    /\ p = "terminate" => account[e] = "ok"
    /\ CanResend(e, p)
    /\ Goto(q, [op |-> "send", pc |-> "take", email |-> e, purpose |-> p, at |-> now,
                deliver |-> (p = "signup") <=> (account[e] = None)])
    /\ UNCHANGED <<now, codes, people, store, fresh, revoking, browser, history>>

MayTake(l) == l.sends < MaxSends

(* takeSend. *)
TakeSend(q) ==
    /\ At(q, {"send"}, "take")
    /\ LET e == req[q].email
           d == Day(req[q].at)
       IN  IF MayTake(limit[e][d])
           THEN /\ limit' = [limit EXCEPT ![e][d].sends = @ + 1]
                /\ IF req[q].deliver THEN Step(q, "put") ELSE Done(q)
           ELSE Done(q) /\ UNCHANGED limit
    /\ UNCHANGED <<now, pending, mailed, people, store, fresh, revoking, browser, left, history>>

(* putPending, then the mail, which may not get out. *)
PutCode(q) ==
    /\ At(q, {"send"}, "put")
    /\ LET e == req[q].email
           p == req[q].purpose
       IN  /\ pending' = [pending EXCEPT ![e][p] =
                            [code |-> fresh, attempts |-> 0, exp |-> req[q].at + CodeTtl]]
           /\ mailed' \in {mailed, mailed \cup {[email |-> e, purpose |-> p, code |-> fresh]}}
    /\ fresh' = fresh + 1
    /\ Done(q)
    /\ UNCHANGED <<now, limit, people, store, revoking, browser, left, history>>

Usable(c) == c # None /\ c.exp > now /\ c.attempts < MaxAttempts

(* createSession and terminate: verify reads the limits and the pending    *)
(* code and compares.  code is one from a mail, or 0 for a mistyped one.   *)
Submit(q, t, e, p, code) ==
    /\ Idle(q)
    /\ Spend(IF code = 0 THEN "typo" ELSE "submit")
    /\ p = "terminate" => account[e] = "ok" /\ tab[t].sid # 0
    /\ ~Locked(e, now)
    /\ LET c == pending[e][p]
           r == [op |-> p, email |-> e, tab |-> t, at |-> now,
                 seen |-> c # None, usable |-> Usable(c), attempts |-> MaxAttempts,
                 pc |-> IF ~Usable(c) THEN "fail"
                        ELSE IF c.code = code THEN "verified" ELSE "bump"]
       IN  Goto(q, r)
    /\ UNCHANGED <<now, codes, people, store, fresh, revoking, browser, history>>

(* What RETURNING attempts answers for the code that is there now. *)
Bumped(c) == c.attempts + 1

(* bumpAttempts. *)
BumpAttempts(q) ==
    /\ At(q, Purposes, "bump")
    /\ LET e == req[q].email
           p == req[q].op
           c == pending[e][p]
       IN  IF c = None
           THEN Step(q, "fail") /\ UNCHANGED pending
           ELSE /\ pending' = [pending EXCEPT ![e][p].attempts = @ + 1]
                /\ Goto(q, [req[q] EXCEPT !.pc = "fail", !.attempts = Bumped(c)])
    /\ UNCHANGED <<now, limit, mailed, people, store, fresh, revoking, browser, left, history>>

(* onFailure. *)
DropsCode(r) == r.attempts >= MaxAttempts \/ ~r.usable
LocksEmailOnce(failures) == failures > MaxFailures
LocksEmail(failures) == failures >= MaxFailures

(* recordFailure answers the number of failures of the day. *)
RecordFailure(q) ==
    /\ At(q, Purposes, "fail")
    /\ LET e == req[q].email
           d == Day(req[q].at)
       IN  /\ limit' = [limit EXCEPT ![e][d].failures = @ + 1]
           /\ Goto(q, [op |-> req[q].op, pc |-> "drop", email |-> e, at |-> req[q].at,
                       drop |-> req[q].seen /\ DropsCode(req[q]),
                       lock |-> LocksEmail(limit[e][d].failures + 1)])
    /\ UNCHANGED <<now, pending, mailed, people, store, fresh, revoking, browser, left, history>>

(* deletePending: the code of the address, whichever it is now. *)
DropCode(q) ==
    /\ At(q, Purposes, "drop")
    /\ pending' = IF req[q].drop THEN [pending EXCEPT ![req[q].email][req[q].op] = None]
                  ELSE pending
    /\ IF req[q].lock THEN Step(q, "lock") ELSE Done(q)
    /\ UNCHANGED <<now, limit, mailed, people, store, fresh, revoking, browser, left, history>>

(* lock. *)
LockEmail(q) ==
    /\ At(q, Purposes, "lock")
    /\ limit' = [limit EXCEPT ![req[q].email][Day(req[q].at)].until = req[q].at + LockFor]
    /\ Done(q)
    /\ UNCHANGED <<now, pending, mailed, people, store, fresh, revoking, browser, left, history>>

-----------------------------------------------------------------------------
(* Sign-up and sign-in with a code that was verified. *)

Sessions(e) == {s \in session : s.email = e}

IpCounted(u) == IF u.ip < IpLimit THEN [u EXCEPT !.ip = @ + 1] ELSE u
SlotTaken(u) == [IpCounted(u) EXCEPT !.signup = @ + 1]

(* What a batch that fails on an address that has an account leaves. *)
AfterDuplicate(u) == u

(* AccountRepository.signup, one batch: the IP is counted first and stays  *)
(* counted when the sign-up turns out closed; an address that has an       *)
(* account undoes the batch.                                               *)
SignUp(q) ==
    /\ At(q, {"signup"}, "verified")
    /\ LET e == req[q].email
           d == Day(now)
       IN  /\ pending' = [pending EXCEPT ![e]["signup"] = None]
           /\ IF Admitted /\ account[e] # None
              THEN /\ usage' = [usage EXCEPT ![d] = AfterDuplicate(@)]
                   /\ Done(q)
                   /\ UNCHANGED <<account, workspace>>
              ELSE IF Admitted
              THEN /\ usage' = [usage EXCEPT ![d] = SlotTaken(@)]
                   /\ account' = [account EXCEPT ![e] = "ok"]
                   /\ workspace' = [workspace EXCEPT ![e] =
                        [status |-> "ACTIVE", end |-> now + TrialFor, day |-> d]]
                   /\ Goto(q, [op |-> "signup", pc |-> "issue", email |-> e,
                               tab |-> req[q].tab, end |-> now + TrialFor])
              ELSE /\ usage' = [usage EXCEPT ![d] = IpCounted(@)]
                   /\ Done(q)
                   /\ UNCHANGED <<account, workspace>>
    /\ UNCHANGED <<now, limit, mailed, open, store, fresh, revoking, browser, left, history>>

(* createSession, login: the account is read and the code consumed. *)
ConsumeLogin(q) ==
    /\ At(q, {"login"}, "verified")
    /\ LET e == req[q].email
       IN  /\ pending' = [pending EXCEPT ![e]["login"] = None]
           /\ IF account[e] = "ok" THEN Step(q, "workspace") ELSE Done(q)
    /\ UNCHANGED <<now, limit, mailed, people, store, fresh, revoking, browser, left, history>>

ReadWorkspace(q) ==
    /\ At(q, {"login"}, "workspace")
    /\ LET e == req[q].email
       IN  IF TrialUsable(workspace[e], now)
           THEN Goto(q, [op |-> "login", pc |-> "issue", email |-> e,
                         tab |-> req[q].tab, end |-> workspace[e].end])
           ELSE Done(q)
    /\ UNCHANGED <<now, codes, people, store, fresh, revoking, browser, left, history>>

(* The newest n sessions of a set. *)
Newest(S, n) == {s \in S : Cardinality({o \in S : o.id > s.id}) < n}

Keeps(S) == Newest(S, MaxSessions)

(* issue: the new session, of a family of its own, evicts the oldest. *)
Issue(q) ==
    /\ At(q, {"signup", "login"}, "issue")
    /\ LET e == req[q].email
           s == [id |-> fresh, email |-> e, token |-> fresh,
                 exp |-> Min({now + TrialFor, req[q].end})]
       IN  /\ session' = (session \ Sessions(e)) \cup Keeps(Sessions(e) \cup {s})
           /\ Goto(q, [op |-> "login", pc |-> "answer", tab |-> req[q].tab,
                       sid |-> s.id, cookie |-> s.token])
    /\ fresh' = fresh + 1
    /\ UNCHANGED <<now, codes, people, rotated, revoking, browser, left, history>>

-----------------------------------------------------------------------------
(* The end of a trial, by its owner, the cron or the administrator. *)

EndedAt(w) == [w EXCEPT !.status = "EXPIRED", !.end = now]

(* terminate: the code is consumed, then endTrial. *)
ConsumeTerminate(q) ==
    /\ At(q, {"terminate"}, "verified")
    /\ pending' = [pending EXCEPT ![req[q].email]["terminate"] = None]
    /\ Step(q, "end")
    /\ UNCHANGED <<now, limit, mailed, people, store, fresh, revoking, browser, left, history>>

EndTrial(q) ==
    /\ At(q, {"terminate"}, "end")
    /\ LET e == req[q].email
       IN  IF workspace[e].status = "ACTIVE"
           THEN /\ workspace' = [workspace EXCEPT ![e] = EndedAt(@)]
                /\ revoking' = [revoking EXCEPT ![e] = @ + 1]
           ELSE UNCHANGED <<workspace, revoking>>
    /\ Done(q)
    /\ UNCHANGED <<now, codes, account, usage, open, store, fresh, browser, left, history>>

(* expireDue. *)
Expire(e) ==
    /\ e \in Trials("ACTIVE") /\ workspace[e].end <= now
    /\ workspace' = [workspace EXCEPT ![e].status = "EXPIRED"]
    /\ revoking' = [revoking EXCEPT ![e] = @ + 1]
    /\ UNCHANGED <<now, codes, account, usage, open, store, fresh, req, browser, left, history>>

(* patchUser, deleteUser and revokeSessions up to the last revokeUser. *)
AdminActs(e, kind) ==
    /\ account[e] # None /\ Spend("admin")
    /\ workspace' = [workspace EXCEPT ![e] =
            CASE kind = "end" /\ @.status = "ACTIVE" -> EndedAt(@)
              [] kind = "move" -> [@ EXCEPT !.status = "ACTIVE", !.end = now + 1]
              [] OTHER -> @]
    /\ account' = [account EXCEPT ![e] =
            CASE kind = "ban" -> "banned" [] kind = "unban" -> "ok" [] OTHER -> @]
    /\ revoking' = [revoking EXCEPT ![e] =
            CASE kind = "end" /\ e \in Trials("ACTIVE") -> @ + 2
              [] kind = "unban" -> @
              [] OTHER -> @ + 1]
    /\ UNCHANGED <<now, codes, usage, open, store, fresh, req, browser, history>>

(* deleteByUser. *)
RevokeUser(e) ==
    /\ revoking[e] > 0
    /\ session' = session \ Sessions(e)
    /\ revoking' = [revoking EXCEPT ![e] = @ - 1]
    /\ UNCHANGED <<now, codes, people, rotated, fresh, req, browser, left, history>>

(* The administrator pauses or resumes sign-up; the analytics close it. *)
ToggleSignup ==
    /\ Spend("toggle")
    /\ open' = ~open
    /\ UNCHANGED <<now, codes, account, workspace, usage, store, fresh, req, revoking, browser, history>>

-----------------------------------------------------------------------------
(* Refresh tokens. *)

(* refreshAccessToken: the callers of a tab share one request. *)
WantRefresh(t) ==
    /\ tab[t].st = "idle" /\ Spend("refresh")
    /\ tab' = [tab EXCEPT ![t].st = "waiting"]
    /\ UNCHANGED <<now, codes, people, store, fresh, req, revoking, jar, webLock, history>>

(* withRefreshLock: the tabs take turns. *)
MayRefreshAny == TRUE
MayRefresh == webLock = None

Refused(r) == [op |-> "refresh", pc |-> "answer", tab |-> r.tab, sid |-> 0, cookie |-> 0]

(* The request carries the cookie of the moment it is sent. *)
SendRefresh(t, q) ==
    /\ tab[t].st = "waiting" /\ MayRefresh /\ Idle(q)
    /\ webLock' = t
    /\ tab' = [tab EXCEPT ![t].st = "sent"]
    /\ LET r == [op |-> "refresh", pc |-> "find", tab |-> t, token |-> jar, at |-> now]
       IN  Goto(q, IF jar = 0 THEN Refused(r) ELSE r)
    /\ UNCHANGED <<now, codes, people, store, fresh, revoking, jar, left, history>>

(* findByHash. *)
FindSession(q) ==
    /\ At(q, {"refresh"}, "find")
    /\ LET found == {s \in session : s.token = req[q].token}
       IN  \/ /\ found = {}
              /\ Step(q, "replay")
              /\ UNCHANGED session
           \/ \E s \in found :
                IF s.exp <= req[q].at
                THEN session' = session \ {s} /\ Goto(q, Refused(req[q]))
                ELSE /\ Goto(q, [op |-> "refresh", pc |-> "account", tab |-> req[q].tab,
                                 at |-> req[q].at, s |-> s])
                     /\ UNCHANGED session
    /\ UNCHANGED <<now, codes, people, rotated, fresh, revoking, browser, left, history>>

Family(f) == {s \in session : s.id = f}

(* revokeFamily deletes them all. *)
Revokes(f) == Family(f)

(* A token that was rotated before revokes its family. *)
Replayed(q) ==
    /\ At(q, {"refresh"}, "replay")
    /\ LET fam == {r.family : r \in {x \in rotated : x.token = req[q].token}}
       IN  /\ session' = session \ UNION {Revokes(f) : f \in fam}
           /\ revoked' = revoked \cup fam
    /\ Goto(q, Refused(req[q]))
    /\ UNCHANGED <<now, codes, people, rotated, fresh, revoking, browser, left, exchanged, lost>>

RefreshAccount(q) ==
    /\ At(q, {"refresh"}, "account")
    /\ LET e == req[q].s.email
       IN  IF account[e] = "ok"
           THEN Step(q, "workspace") /\ UNCHANGED session
           ELSE session' = session \ Sessions(e) /\ Goto(q, Refused(req[q]))
    /\ UNCHANGED <<now, codes, people, rotated, fresh, revoking, browser, left, history>>

RefreshWorkspace(q) ==
    /\ At(q, {"refresh"}, "workspace")
    /\ LET w == workspace[req[q].s.email]
       IN  IF TrialUsable(w, req[q].at)
           THEN Goto(q, [op |-> "refresh", pc |-> "rotate", tab |-> req[q].tab,
                         s |-> req[q].s, exp |-> Min({req[q].s.exp, w.end})])
           ELSE Goto(q, Refused(req[q]))
    /\ UNCHANGED <<now, codes, people, store, fresh, revoking, browser, left, history>>

(* The row rotate updates: the session, if it still has the token read. *)
RotatesBlind(s) == Family(s.id)
Rotates(s) == {o \in Family(s.id) : o.token = s.token}

Rotate(q) ==
    /\ At(q, {"refresh"}, "rotate")
    /\ LET s == req[q].s
           new == [s EXCEPT !.token = fresh, !.exp = req[q].exp]
       IN  IF Rotates(s) # {}
           THEN /\ session' = (session \ Rotates(s)) \cup {new}
                /\ rotated' = rotated \cup {[token |-> s.token, family |-> s.id, exp |-> s.exp]}
                /\ exchanged' = exchanged \cup {<<s.token, fresh>>}
                /\ fresh' = fresh + 1
                /\ Goto(q, [op |-> "refresh", pc |-> "answer", tab |-> req[q].tab,
                            sid |-> s.id, cookie |-> fresh])
           ELSE Step(q, "revoke") /\ UNCHANGED <<store, exchanged, fresh>>
    /\ UNCHANGED <<now, codes, people, revoking, browser, left, revoked, lost>>

(* A concurrent refresh rotated the token: treated as a replay. *)
RevokeFamily(q) ==
    /\ At(q, {"refresh"}, "revoke")
    /\ session' = session \ Revokes(req[q].s.id)
    /\ revoked' = revoked \cup {req[q].s.id}
    /\ Goto(q, Refused(req[q]))
    /\ UNCHANGED <<now, codes, people, rotated, fresh, revoking, browser, left, exchanged, lost>>

(* logout: the session the access token names. *)
Logout(q, t) ==
    /\ Idle(q) /\ tab[t].sid # 0 /\ Spend("logout")
    /\ session' = session \ Family(tab[t].sid)
    /\ Goto(q, [op |-> "logout", pc |-> "answer", tab |-> t, sid |-> 0, cookie |-> 0])
    /\ UNCHANGED <<now, codes, people, rotated, fresh, revoking, browser, history>>

Releases(r) == r.op = "refresh"

(* The answer sets or clears the cookie, whatever the cookie is by now,    *)
(* and hands the tab its session; the answer of a refresh frees the lock.  *)
Answer(q) ==
    /\ ~Idle(q) /\ req[q].pc = "answer"
    /\ LET r == req[q]
       IN  IF r.tab = None THEN UNCHANGED browser
           ELSE /\ jar' = r.cookie
                /\ tab' = [tab EXCEPT ![r.tab].sid = r.sid,
                                      ![r.tab].st = IF r.op = "refresh" THEN "idle" ELSE @]
                /\ webLock' = IF Releases(r) /\ webLock = r.tab THEN None ELSE webLock
    /\ Done(q)
    /\ UNCHANGED <<now, codes, people, store, fresh, revoking, left, history>>

(* The connection breaks, or the tab is closed and opened again, while the *)
(* server goes on: the tab ends up signed out and the cookie as it was.    *)
LoseRefresh(q) ==
    /\ ~Idle(q) /\ req[q].op = "refresh" /\ req[q].tab # None /\ Spend("lose")
    /\ tab' = [tab EXCEPT ![req[q].tab] = [st |-> "idle", sid |-> 0]]
    /\ webLock' = IF webLock = req[q].tab THEN None ELSE webLock
    /\ Goto(q, [req[q] EXCEPT !.tab = None])
    /\ lost' = TRUE
    /\ UNCHANGED <<now, codes, people, store, fresh, revoking, jar, exchanged, revoked>>

-----------------------------------------------------------------------------
(* sweep of the sessions and of the codes. *)
Sweep ==
    /\ session' = {s \in session : s.exp > now}
    /\ rotated' = {r \in rotated : r.exp > now}
    /\ pending' = [e \in Emails |-> [p \in Purposes |->
            IF pending[e][p] # None /\ pending[e][p].exp < now - CodeSlack
            THEN None ELSE pending[e][p]]]
    /\ UNCHANGED <<now, limit, mailed, people, fresh, req, revoking, browser, left, history>>

Tick ==
    /\ now < MaxTime /\ Spend("tick")
    /\ now' = now + 1
    /\ UNCHANGED <<codes, people, store, fresh, req, revoking, browser, history>>

CodeStep(q) ==
    \/ TakeSend(q) \/ PutCode(q)
    \/ BumpAttempts(q) \/ RecordFailure(q) \/ DropCode(q) \/ LockEmail(q)
    \/ SignUp(q) \/ ConsumeLogin(q) \/ ReadWorkspace(q) \/ Issue(q)
    \/ ConsumeTerminate(q) \/ EndTrial(q)

RefreshStep(q) ==
    \/ FindSession(q) \/ Replayed(q) \/ RefreshAccount(q) \/ RefreshWorkspace(q)
    \/ Rotate(q) \/ RevokeFamily(q)

Next ==
    \/ \E q \in Reqs, e \in left.who, p \in left.purposes :
          \/ SendCode(q, e, p)
          \/ \E t \in left.from, c \in {0} \cup {m.code : m \in mailed} :
                /\ c # 0 => [email |-> e, purpose |-> p, code |-> c] \in mailed
                /\ Submit(q, t, e, p, c)
    \/ \E q \in Reqs : CodeStep(q) \/ RefreshStep(q) \/ Answer(q) \/ LoseRefresh(q)
    \/ \E t \in Tabs : WantRefresh(t) \/ \E q \in Reqs : SendRefresh(t, q) \/ Logout(q, t)
    \/ \E e \in Emails : Expire(e) \/ RevokeUser(e)
    \/ \E e \in Emails, kind \in left.kinds : AdminActs(e, kind)
    \/ ToggleSignup \/ Sweep \/ Tick

Spec == Init /\ [][Next]_vars

(* A request that runs goes on, its answer arrives unless it is lost, and  *)
(* a browser grants a free lock to a tab that waits.                       *)
FairSpec ==
    /\ Spec
    /\ \A q \in Reqs : WF_vars(CodeStep(q) \/ RefreshStep(q) \/ Answer(q))
    /\ \A t \in Tabs : WF_vars(\E q \in Reqs : SendRefresh(t, q))

-----------------------------------------------------------------------------
(* Properties. *)

Failing(q) == ~Idle(q) /\ req[q].pc \in {"bump", "fail", "drop", "lock"}

(* The rows have their shapes; sends and sign-ups stay within their daily  *)
(* limits however many requests race for the last one.                     *)
TypeOK ==
    /\ now \in 0 .. MaxTime /\ fresh \in Nat /\ open \in BOOLEAN /\ lost \in BOOLEAN
    /\ limit \in [Emails -> [Days -> [sends : 0 .. MaxSends, failures : Nat, until : Nat]]]
    /\ pending \in [Emails -> [Purposes -> {None} \cup
            [code : 1 .. fresh, attempts : Nat, exp : Nat]]]
    /\ mailed \subseteq [email : Emails, purpose : Purposes, code : 1 .. fresh]
    /\ account \in [Emails -> {None, "ok", "banned"}]
    /\ workspace \in [Emails -> {None} \cup
            [status : {"ACTIVE", "EXPIRED"}, end : Nat, day : Days]]
    /\ usage \in [Days -> [signup : 0 .. DailyLimit, ip : 0 .. IpLimit]]
    /\ session \subseteq [id : 1 .. fresh, email : Emails, token : 1 .. fresh, exp : Nat]
    /\ rotated \subseteq [token : 1 .. fresh, family : 1 .. fresh, exp : Nat]
    /\ \A q \in Reqs : Idle(q) \/ req[q].op \in Purposes \cup {"send", "refresh", "logout"}
    /\ revoking \in [Emails -> Nat]
    /\ jar \in 0 .. fresh
    /\ tab \in [Tabs -> [st : {"idle", "waiting", "sent"}, sid : 0 .. fresh]]
    /\ webLock \in Tabs \cup {None}

(* Whatever is submitted twice or at once, the sign-ups counted for a day  *)
(* are the workspaces opened on it, and an account has its workspace.      *)
SlotsCounted ==
    /\ \A d \in Days : usage[d].signup = Cardinality({e \in Emails :
            workspace[e] # None /\ workspace[e].day = d})
    /\ \A e \in Emails : account[e] # None <=> workspace[e] # None

(* Once no check of a code is in progress, an address with the day's       *)
(* failures used up is locked: of the checks that run at once, one locks.  *)
LockNotMissed ==
    (\A q \in Reqs : ~Failing(q)) =>
        \A e \in Emails, d \in Days :
            limit[e][d].failures >= MaxFailures => limit[e][d].until > 0

(* ... and no code that used up its attempts is left in place. *)
ExhaustedDropped ==
    (\A q \in Reqs : ~Failing(q)) =>
        \A e \in Emails, p \in Purposes :
            pending[e][p] # None => pending[e][p].attempts < MaxAttempts

(* The requests whose wrong guess at a code, whose failure of a day, is    *)
(* not counted yet.                                                        *)
Guessing(e, p) == {q \in Reqs : At(q, {p}, "bump") /\ req[q].email = e}
Counting(e, d) ==
    {q \in Reqs : /\ At(q, Purposes, "bump") \/ At(q, Purposes, "fail")
                  /\ req[q].email = e /\ Day(req[q].at) = d}

(* The attempts of a code are compared with MaxAttempts before they are    *)
(* counted, so requests at once may exceed it; but only these: a code      *)
(* takes fewer than MaxAttempts guesses and one per request at work.       *)
GuessesBounded ==
    \A e \in Emails, p \in Purposes : pending[e][p] # None =>
        pending[e][p].attempts + Cardinality(Guessing(e, p))
            < MaxAttempts + Cardinality(Reqs)

(* The same of the failures of a day, as a lock is as long as a day.       *)
FailuresBounded ==
    LockFor >= DayLength =>
        \A e \in Emails, d \in Days :
            limit[e][d].failures + Cardinality(Counting(e, d))
                < MaxFailures + Cardinality(Reqs)

(* A refresh token is exchanged at most once, whoever presents it. *)
OneGrantPerToken == \A x, y \in exchanged : x[1] = y[1] => x = y

(* A family that was revoked never has a session again. *)
RevokedStays == \A s \in session : s.id \notin revoked

(* The tabs never replay a token, unless an answer was lost: no session    *)
(* that is alive is revoked as replayed.                                   *)
ReplayOnlyAfterLoss ==
    [][revoked' # revoked /\ session' # session => lost]_vars

(* No account has more than MaxSessions sessions. *)
SessionCap == \A e \in Emails : Cardinality(Sessions(e)) <= MaxSessions

(* Once the sessions of an ended trial or a banned account are deleted, no *)
(* refresh succeeds, not even of a session a late sign-in still created.   *)
EndedNotRefreshed ==
    [][\A s \in session : (\E o \in session' : o.id = s.id /\ o.token # s.token) =>
            \/ revoking[s.email] > 0
            \/ account[s.email] = "ok" /\ workspace[s.email].status = "ACTIVE"]_vars

(* A tab that waits for the Web Lock gets its turn. *)
TurnComes == \A t \in Tabs : tab[t].st = "waiting" ~> tab[t].st # "waiting"

(* However many requests race, sends and sign-ups of a day stay exactly    *)
(* within their limits, a used-up code is dropped and a used-up address    *)
(* locked.  The attempts of a code and the failures of an address are only *)
(* exact for one request at a time: n requests at once get n - 1 guesses   *)
(* more than otp.ts:3-4 grants, and not one more than that.                *)
LimitsExact ==
    /\ TypeOK /\ SlotsCounted /\ LockNotMissed /\ ExhaustedDropped
    /\ GuessesBounded /\ FailuresBounded

(* Refresh tokens are spent once, what was revoked stays revoked, and no   *)
(* account collects sessions beyond its limit.                             *)
TokensSpent == OneGrantPerToken /\ RevokedStays /\ SessionCap

(* The tabs of a browser share one refresh: each gets its turn, and none   *)
(* presents what another has exchanged unless an answer was lost.          *)
RefreshShared == ReplayOnlyAfterLoss /\ TurnComes
=============================================================================

--------------------------- MODULE PlatformAdmin ---------------------------
(***************************************************************************)
(* The bootstrap administrator (packages/identity): the second factor with *)
(* its setup code, passkeys and recovery codes, the writes of the admin    *)
(* pages under an Idempotency-Key, the hash chain of the audit log, and    *)
(* the delayed changes the cron applies for operations.                    *)
(*                                                                         *)
(* A request is a process of its own; one of its steps is one D1 statement *)
(* or batch, or reads in a row none of which is binding.  A request that   *)
(* is refused before it writes changes nothing and is a stuttering step.   *)
(*                                                                         *)
(* Abstracted: row_hash to the row's id; the e-mail code before every      *)
(* sign-in and the step-up before a write, both further guards of the      *)
(* same kind; expiry of challenges and sessions; the settings to one value *)
(* and the blocked domains to another, set to the number of the            *)
(* confirmation (Idempotency-Key) they come from.                          *)
(***************************************************************************)
EXTENDS Integers, FiniteSets, FiniteSetsExt

CONSTANTS
    Reqs,          \* requests at work at once
    Keys,          \* Idempotency-Keys: openings of a confirmation dialog
    MinPasskeys,   \* PASSKEY_RULES.minPasskeys
    RecoveryCodes, \* PASSKEY_RULES.recoveryCodes (10)
    AppendRetries, \* APPEND_RETRIES (5)
    CoolDown,      \* PENDING_CHANGE_COOLDOWN_MS, in ticks
    Retention,     \* AUDIT_RETENTION_DAYS, in ticks
    Workloads,     \* bounds: how many steps of each kind may happen, until when
    None

ASSUME AdminAssumption ==
    /\ IsFiniteSet(Reqs)
    /\ Keys \subseteq Nat \ {0}
    /\ {MinPasskeys, RecoveryCodes, AppendRetries, CoolDown, Retention} \subseteq Nat
    /\ AppendRetries > 0 /\ RecoveryCodes > 0 /\ MinPasskeys > 0

(* Whether the administrator is set up, whether the authenticators count   *)
(* their signatures (some never do), which new credentials verify, how     *)
(* often each kind of step may happen, and the time at which it all ends.  *)
Workload ==
    [ready : BOOLEAN, counting : BOOLEAN, valid : SUBSET BOOLEAN, patch : Nat, put : Nat, register : Nat,
     assert : Nat, submit : Nat, remove : Nat, recover : Nat, change : Nat,
     fail : Nat, die : Nat, sweep : Nat, time : Nat \ {0}]

(* A confirmation is not repeated any more when its row is swept: that is  *)
(* after months.                                                           *)
ASSUME WorkloadAssumption ==
    \A x \in Workloads :
        /\ x \in Workload
        /\ x.sweep = 0 \/ x.time <= Retention \/ (x.patch = 0 /\ x.put = 0)

Settings == [value : Keys \cup {0}, version : Nat]

(* "No key" and "no result" are none of these. *)
ASSUME NoneAssumption == None \notin Keys /\ None \notin Settings

VARIABLES
    now,
    settings,   \* platform_setting: value and version (MAX(updated_at))
    domains,    \* blocked_domain
    audit,      \* admin_audit
    passkeys,   \* admin_passkey
    setupUsed,  \* system_flag setup_code_used
    codes,      \* admin_recovery_code
    challenges, \* webauthn_challenge
    sessions,   \* session
    address,    \* the administrator's e-mail address
    changes,    \* admin_pending_change
    fresh,      \* the next id or secret
    proofs,     \* what authenticators have signed
    req,        \* the requests
    cron,       \* the cron's pendingChanges
    left,       \* what is left of the workload
    answers,    \* history: <<key, result>> of successful writes
    grants,     \* history: <<proof, session>>
    mails,      \* history: <<change, address, time>> of delivered notices
    clean       \* history: no setup was killed half-way, no two adds overlapped

desk == <<settings, domains>>
factor == <<passkeys, setupUsed, codes, challenges>>
history == <<answers, grants, mails, clean>>
vars == <<now, desk, audit, factor, sessions, address, changes, fresh, proofs,
          req, cron, left, history>>

NoRequest == [op |-> "none"]
Resting == [pc |-> "rest", address |-> 0, todo |-> {}, cur |-> 0, time |-> 0]

(* The administrator is new, or has two passkeys, a session and codes. *)
Init ==
    /\ now = 1
    /\ left \in Workloads
    /\ settings = [value |-> 0, version |-> 0]
    /\ domains = 0
    /\ audit = {}
    /\ passkeys = IF left.ready THEN {[id |-> 1, count |-> 0], [id |-> 2, count |-> 0]} ELSE {}
    /\ setupUsed = left.ready
    /\ codes = IF left.ready THEN {[issue |-> 3, n |-> n, used |-> FALSE] : n \in 1 .. RecoveryCodes}
               ELSE {}
    /\ challenges = {}
    /\ sessions = IF left.ready THEN {[id |-> 4, amr |-> "passkey"]} ELSE {}
    /\ address = 0
    /\ changes = {}
    /\ fresh = 5
    /\ proofs = {}
    /\ req = [q \in Reqs |-> NoRequest]
    /\ cron = Resting
    /\ answers = {} /\ grants = {} /\ mails = {}
    /\ clean = [setup |-> TRUE, adds |-> TRUE]

-----------------------------------------------------------------------------
(* Requests. *)

Idle(q) == req[q] = NoRequest
At(q, pc) == req[q].op # "none" /\ req[q].pc = pc
Goto(q, r) == req' = [req EXCEPT ![q] = r]
Step(q, pc) == Goto(q, [req[q] EXCEPT !.pc = pc])
Done(q) == Goto(q, NoRequest)

Spend(kind) == left[kind] > 0 /\ left' = [left EXCEPT ![kind] = @ - 1]

(* What a request holds: its audit rows, what it has read and was given. *)
Request(op, pc) ==
    [op |-> op, pc |-> pc, key |-> None, result |-> None, head |-> 0, at |-> 0,
     tries |-> 0, rows |-> 1, saw |-> None, next |-> 0, proof |-> None, sid |-> 0]

-----------------------------------------------------------------------------
(* The audit chain. *)

Before(r, s) == r.at < s.at \/ (r.at = s.at /\ r.id < s.id)

(* latest, in (at, id) order. *)
Latest == {r \in audit : \A s \in audit : ~Before(r, s)}
HeadId == IF audit = {} THEN 0 ELSE (CHOOSE r \in Latest : TRUE).id
HeadAt == IF audit = {} THEN 0 ELSE (CHOOSE r \in Latest : TRUE).at

NextAtNow(clock) == clock
NextAt(clock) == Max({clock, HeadAt + 1})

(* append reads the head, by a clock that may be behind another's ... *)
ReadHead(q) ==
    /\ At(q, "head")
    /\ \E clock \in {now - 1, now} :
          Goto(q, [req[q] EXCEPT !.pc = "insert", !.head = HeadId, !.at = NextAt(clock)])
    /\ UNCHANGED <<now, desk, audit, factor, sessions, address, changes, fresh, proofs, cron, left, history>>

Seen(key) == {r \in audit : key # None /\ r.key = key}

(* idempotent: a concurrent first execution may have won the key. *)
OutcomeOwn(own, stored) == own
Outcome(own, stored) == stored

Answer(key, result) == answers' = answers \cup {<<key, result>>}

MayRetry(tries) == tries + 1 < AppendRetries

AfterRows(r) ==
    IF r.rows > 1 THEN "head"
    ELSE CASE r.op \in {"setup", "login", "recovery"} -> "issue"
           [] r.op = "add" -> "count"
           [] OTHER -> "end"

(* ... and inserts the row if it is still the head.  A row of the same key *)
(* answers in its place; a request that loses the head too often fails.    *)
InsertRow(q) ==
    /\ At(q, "insert")
    /\ LET r == req[q]
           row == [id |-> fresh, at |-> r.at, key |-> r.key, prev |-> r.head,
                   result |-> r.result]
       IN  CASE HeadId # r.head ->
                  /\ IF MayRetry(r.tries)
                     THEN Goto(q, [r EXCEPT !.pc = "head", !.tries = @ + 1])
                     ELSE Done(q)
                  /\ UNCHANGED <<audit, fresh, answers>>
             [] HeadId = r.head /\ Seen(r.key) # {} ->
                  /\ \E s \in Seen(r.key) : Answer(r.key, Outcome(r.result, s.result))
                  /\ Done(q)
                  /\ UNCHANGED <<audit, fresh>>
             [] OTHER ->
                  /\ audit' = audit \cup {row}
                  /\ fresh' = fresh + 1
                  /\ IF AfterRows(r) = "end"
                     THEN Done(q)
                     ELSE Goto(q, [r EXCEPT !.pc = AfterRows(r), !.rows = @ - 1, !.tries = 0])
                  /\ IF r.key # None THEN Answer(r.key, r.result) ELSE UNCHANGED answers
    /\ UNCHANGED <<now, desk, factor, sessions, address, changes, proofs, cron, left, grants, mails, clean>>

(* housekeeping. *)
SweepAudit ==
    /\ Spend("sweep")
    /\ audit' = {r \in audit : r.at >= now - Retention}
    /\ UNCHANGED <<now, desk, factor, sessions, address, changes, fresh, proofs, req, cron, history>>

-----------------------------------------------------------------------------
(* The gate in front of every call of the administrator. *)

SetupComplete == Cardinality(passkeys) >= MinPasskeys /\ codes # {}
RecoveryPending(s) == s.amr = "recovery"

(* gate, for a method in neither RECOVERY_METHODS nor SETUP_METHODS. *)
MayManage == SetupComplete /\ \E s \in sessions : ~RecoveryPending(s)

-----------------------------------------------------------------------------
(* Writes of the admin pages. *)

(* A page that shows the settings as they are now sends an edit of them, *)
(* for the first time or again.                                          *)
PatchSettings(q, k) ==
    /\ Idle(q) /\ Spend("patch")
    /\ MayManage
    /\ Goto(q, [Request("patch", "find") EXCEPT !.key = k, !.saw = settings])
    /\ UNCHANGED <<now, desk, audit, factor, sessions, address, changes, fresh, proofs, cron, history>>

PutBlockedDomains(q, k) ==
    /\ Idle(q) /\ Spend("put")
    /\ MayManage
    /\ Goto(q, [Request("put", "find") EXCEPT !.key = k])
    /\ UNCHANGED <<now, desk, audit, factor, sessions, address, changes, fresh, proofs, cron, history>>

(* idempotent: a replay answers what is stored. *)
FindByKey(q) ==
    /\ At(q, "find")
    /\ IF Seen(req[q].key) # {}
       THEN /\ \E s \in Seen(req[q].key) : Answer(req[q].key, s.result)
            /\ Done(q)
       ELSE /\ Step(q, IF req[q].op = "patch" THEN "read" ELSE "replace")
            /\ UNCHANGED answers
    /\ UNCHANGED <<now, desk, audit, factor, sessions, address, changes, fresh, proofs, cron, left, grants, mails, clean>>

NextVersionNow(version) == now
NextVersion(version) == Max({now, version + 1})

ReadSettings(q) ==
    /\ At(q, "read")
    /\ IF settings.version # req[q].saw.version
       THEN Done(q)
       ELSE Goto(q, [req[q] EXCEPT !.pc = "patch", !.next = NextVersion(settings.version)])
    /\ UNCHANGED <<now, desk, audit, factor, sessions, address, changes, fresh, proofs, cron, left, history>>

(* SettingsRepository.patch, a compare-and-set on the version. *)
PatchRow(q) ==
    /\ At(q, "patch")
    /\ IF settings.version # req[q].saw.version
       THEN Done(q) /\ UNCHANGED settings
       ELSE /\ settings' = [value |-> req[q].key, version |-> req[q].next]
            /\ Step(q, "dto")
    /\ UNCHANGED <<now, domains, audit, factor, sessions, address, changes, fresh, proofs, cron, left, history>>

(* replaceDomains. *)
ReplaceDomains(q) ==
    /\ At(q, "replace")
    /\ domains' = req[q].key
    /\ Step(q, "dto")
    /\ UNCHANGED <<now, settings, audit, factor, sessions, address, changes, fresh, proofs, cron, left, history>>

(* settingsDto, blockedDomains: what the request answers and stores. *)
ReadResult(q) ==
    /\ At(q, "dto")
    /\ Goto(q, [req[q] EXCEPT !.pc = "head",
                    !.result = IF req[q].op = "patch" THEN settings
                               ELSE [value |-> domains, version |-> 0]])
    /\ UNCHANGED <<now, desk, audit, factor, sessions, address, changes, fresh, proofs, cron, left, history>>

-----------------------------------------------------------------------------
(* Passkeys and recovery codes. *)

Passkey(id) == {p \in passkeys : p.id = id}
UnusedCodes == {c \in codes : ~c.used}

(* Times the authenticator of a passkey has signed. *)
Signed(id) == Cardinality({f \in proofs : f.kind = "assert" /\ f.id = id})

(* checkSetupCode. *)
SetupOpen == ~setupUsed /\ passkeys = {}

(* setupOptions, addOptions: a challenge, and what an authenticator answers *)
(* to it, a credential that verifies or not.                                *)
RegistrationOptions ==
    /\ Spend("register")
    /\ SetupOpen \/ sessions # {}
    /\ \E valid \in left.valid :
          proofs' = proofs \cup {[kind |-> "register", challenge |-> fresh, id |-> fresh,
                                 count |-> 0, valid |-> valid]}
    /\ challenges' = challenges \cup {fresh}
    /\ fresh' = fresh + 1
    /\ UNCHANGED <<now, desk, audit, passkeys, setupUsed, codes, sessions, address, changes, req, cron, history>>

(* assertionOptions: the same for signing in.  An authenticator that does *)
(* not count always answers 0.                                            *)
AssertionOptions(id) ==
    /\ Spend("assert")
    /\ Passkey(id) # {}
    /\ proofs' = proofs \cup {[kind |-> "assert", challenge |-> fresh, id |-> id,
                               count |-> IF left.counting THEN Signed(id) + 1 ELSE 0, valid |-> TRUE]}
    /\ challenges' = challenges \cup {fresh}
    /\ fresh' = fresh + 1
    /\ UNCHANGED <<now, desk, audit, passkeys, setupUsed, codes, sessions, address, changes, req, cron, history>>

(* setup, add and assertion get a credential, for the first time or again. *)
Setup(q, f) ==
    /\ Idle(q) /\ Spend("submit")
    /\ f.kind = "register" /\ SetupOpen
    /\ Goto(q, [Request("setup", "consume") EXCEPT !.proof = f, !.rows = 2])
    /\ UNCHANGED <<now, desk, audit, factor, sessions, address, changes, fresh, proofs, cron, history>>

Adding(q) == req[q].op = "add"

Add(q, s, f) ==
    /\ Idle(q) /\ Spend("submit")
    /\ f.kind = "register"
    /\ Goto(q, [Request("add", "consume") EXCEPT !.proof = f,
                                !.sid = IF RecoveryPending(s) THEN s.id ELSE 0])
    /\ clean' = [clean EXCEPT !.adds = @ /\ ~\E o \in Reqs : Adding(o)]
    /\ UNCHANGED <<now, desk, audit, factor, sessions, address, changes, fresh, proofs, cron, answers, grants, mails>>

Login(q, f) ==
    /\ Idle(q) /\ Spend("submit")
    /\ f.kind = "assert"
    /\ Goto(q, [Request("login", "consume") EXCEPT !.proof = f])
    /\ UNCHANGED <<now, desk, audit, factor, sessions, address, changes, fresh, proofs, cron, history>>

AfterConsume(op) == IF op = "login" THEN "passkey" ELSE "verify"

(* consume: the challenge is deleted if it is still there. *)
SpentNever(challenge) == challenges
Spent(challenge) == challenges \ {challenge}

ConsumeChallenge(q) ==
    /\ At(q, "consume")
    /\ challenges' = Spent(req[q].proof.challenge)
    /\ IF req[q].proof.challenge \in challenges
       THEN Step(q, AfterConsume(req[q].op))
       ELSE Done(q)
    /\ UNCHANGED <<now, desk, audit, passkeys, setupUsed, codes, sessions, address, changes, fresh, proofs, cron, left, history>>

(* verifyNew. *)
AfterVerify(op) == IF op = "setup" THEN "burn" ELSE "store"

VerifyNew(q) ==
    /\ At(q, "verify")
    /\ IF req[q].proof.valid /\ Passkey(req[q].proof.id) = {}
       THEN Step(q, AfterVerify(req[q].op))
       ELSE Done(q)
    /\ UNCHANGED <<now, desk, audit, factor, sessions, address, changes, fresh, proofs, cron, left, history>>

(* setFlagOnce: the setup code is burnt before the passkey is stored. *)
BurnSetupCode(q) ==
    /\ At(q, "burn")
    /\ setupUsed' = TRUE
    /\ IF setupUsed THEN Done(q) ELSE Step(q, "store")
    /\ UNCHANGED <<now, desk, audit, passkeys, codes, challenges, sessions, address, changes, fresh, proofs, cron, left, history>>

(* insert. *)
StorePasskey(q) ==
    /\ At(q, "store")
    /\ passkeys' = passkeys \cup {[id |-> req[q].proof.id, count |-> 0]}
    /\ Step(q, IF req[q].sid # 0 THEN "upgrade" ELSE "head")
    /\ UNCHANGED <<now, desk, audit, setupUsed, codes, challenges, sessions, address, changes, fresh, proofs, cron, left, history>>

(* upgradeRecovery. *)
UpgradeRecovery(q) ==
    /\ At(q, "upgrade")
    /\ sessions' = {IF s.id = req[q].sid THEN [s EXCEPT !.amr = "passkey"] ELSE s : s \in sessions}
    /\ Step(q, "head")
    /\ UNCHANGED <<now, desk, audit, factor, address, changes, fresh, proofs, cron, left, history>>

NeedsCodes == Cardinality(passkeys) >= MinPasskeys /\ UnusedCodes = {}

(* add counts the passkeys and the codes that are left ... *)
CountPasskeys(q) ==
    /\ At(q, "count")
    /\ IF NeedsCodes THEN Step(q, "codes") ELSE Done(q)
    /\ UNCHANGED <<now, desk, audit, factor, sessions, address, changes, fresh, proofs, cron, left, history>>

(* ... and replaces the codes: replaceRecoveryCodes. *)
IssueCodes(q) ==
    /\ At(q, "codes")
    /\ codes' = {[issue |-> fresh, n |-> n, used |-> FALSE] : n \in 1 .. RecoveryCodes}
    /\ fresh' = fresh + 1
    /\ Done(q)
    /\ UNCHANGED <<now, desk, audit, passkeys, setupUsed, challenges, sessions, address, changes, proofs, cron, left, history>>

Remove(q, id) ==
    /\ Idle(q) /\ Spend("remove")
    /\ MayManage /\ Passkey(id) # {}
    /\ Goto(q, [Request("remove", "delete") EXCEPT !.proof = id])
    /\ UNCHANGED <<now, desk, audit, factor, sessions, address, changes, fresh, proofs, cron, history>>

RemovableAtMin == Cardinality(passkeys) >= MinPasskeys
Removable == Cardinality(passkeys) > MinPasskeys

(* deleteKeeping. *)
DeleteKeeping(q) ==
    /\ At(q, "delete")
    /\ IF Removable /\ Passkey(req[q].proof) # {}
       THEN passkeys' = passkeys \ Passkey(req[q].proof) /\ Step(q, "head")
       ELSE Done(q) /\ UNCHANGED passkeys
    /\ UNCHANGED <<now, desk, audit, setupUsed, codes, challenges, sessions, address, changes, fresh, proofs, cron, left, history>>

SignCountOk(stored, next) == (stored = 0 /\ next = 0) \/ next > stored

(* assertion: find, and signCountOk. *)
FindPasskey(q) ==
    /\ At(q, "passkey")
    /\ LET f == req[q].proof
       IN  IF \E p \in Passkey(f.id) : SignCountOk(p.count, f.count)
           THEN \E p \in Passkey(f.id) : Goto(q, [req[q] EXCEPT !.pc = "counter", !.next = p.count])
           ELSE Done(q)
    /\ UNCHANGED <<now, desk, audit, factor, sessions, address, changes, fresh, proofs, cron, left, history>>

(* updateCounter, a compare-and-set on the counter that was read. *)
UpdateCounter(q) ==
    /\ At(q, "counter")
    /\ LET f == req[q].proof
       IN  IF \E p \in Passkey(f.id) : p.count = req[q].next
           THEN /\ passkeys' = (passkeys \ Passkey(f.id)) \cup {[id |-> f.id, count |-> f.count]}
                /\ Step(q, "head")
           ELSE Done(q) /\ UNCHANGED passkeys
    /\ UNCHANGED <<now, desk, audit, setupUsed, codes, challenges, sessions, address, changes, fresh, proofs, cron, left, history>>

(* recoveryLogin with a code of some issue. *)
Recover(q, issue, n) ==
    /\ Idle(q) /\ Spend("recover")
    /\ Goto(q, [Request("recovery", "code") EXCEPT !.proof = <<issue, n>>])
    /\ UNCHANGED <<now, desk, audit, factor, sessions, address, changes, fresh, proofs, cron, history>>

Accepts(c) == ~c.used

(* useRecoveryCode. *)
UseRecoveryCode(q) ==
    /\ At(q, "code")
    /\ LET mine == {c \in codes : <<c.issue, c.n>> = req[q].proof /\ Accepts(c)}
       IN  /\ codes' = (codes \ mine) \cup {[c EXCEPT !.used = TRUE] : c \in mine}
           /\ IF mine # {} THEN Step(q, "head") ELSE Done(q)
    /\ UNCHANGED <<now, desk, audit, passkeys, setupUsed, challenges, sessions, address, changes, fresh, proofs, cron, left, history>>

(* adminSession: SessionService.issue, once the sign-in is in the log. *)
Issue(q) ==
    /\ At(q, "issue")
    /\ LET r == req[q]
       IN  /\ sessions' = sessions \cup
                {[id |-> fresh, amr |-> IF r.op = "recovery" THEN "recovery" ELSE "passkey"]}
           /\ grants' = grants \cup
                {<<IF r.op = "recovery" THEN r.proof ELSE <<r.proof.challenge>>, fresh>>}
    /\ fresh' = fresh + 1
    /\ Done(q)
    /\ UNCHANGED <<now, desk, audit, factor, address, changes, proofs, cron, left, answers, mails, clean>>

-----------------------------------------------------------------------------
(* Delayed changes. *)

(* scripts/admin_pending_change.mjs: at least the cool-down away. *)
RequestChange(kind, delay) ==
    /\ Spend("change")
    /\ now + CoolDown + delay <= left.time
    /\ changes' = changes \cup
         {[id |-> fresh, kind |-> kind, requested |-> now, effective |-> now + CoolDown + delay,
           notified |-> 0, applied |-> 0]}
    /\ fresh' = fresh + 1
    /\ UNCHANGED <<now, desk, audit, factor, sessions, address, proofs, req, cron, history>>

CronAt(pc) == cron.pc = pc
Change(id) == CHOOSE c \in changes : c.id = id
Replace(id, d) == (changes \ {Change(id)}) \cup {d}

DueUnnoticed(c) ==
    c.applied = 0 /\ c.effective <= now /\ now >= c.requested + CoolDown
Due(c) ==
    /\ c.applied = 0 /\ c.effective <= now
    /\ c.notified # 0
    /\ now >= c.requested + CoolDown

(* Mutant: a change that is due already is not announced any more. *)
UnnotifiedUpcoming(c) == c.notified = 0 /\ c.applied = 0 /\ c.effective > now

Unnotified(c) == c.notified = 0 /\ c.applied = 0

(* pendingChanges, of which a run that finds nothing to do is left out: *)
(* the changes nobody was told of ...                                   *)
ReadUnnotified ==
    /\ CronAt("rest")
    /\ \E c \in changes : Unnotified(c) \/ Due(c)
    /\ cron' = [cron EXCEPT !.pc = "mail", !.address = address,
                    !.todo = {c.id : c \in {d \in changes : Unnotified(d)}}]
    /\ UNCHANGED <<now, desk, audit, factor, sessions, address, changes, fresh, proofs, req, left, history>>

(* ... are mailed to the address it has read, which may fail ... *)
MailNotice(id) ==
    /\ CronAt("mail") /\ id \in cron.todo
    /\ \/ /\ mails' = mails \cup {<<id, cron.address>>}
          /\ cron' = [cron EXCEPT !.pc = "notified", !.todo = @ \ {id}, !.cur = id]
          /\ UNCHANGED left
       \/ /\ Spend("fail")
          /\ cron' = [cron EXCEPT !.todo = @ \ {id}]
          /\ UNCHANGED mails
    /\ UNCHANGED <<now, desk, audit, factor, sessions, address, changes, fresh, proofs, req, answers, grants, clean>>

MarkNotified ==
    /\ CronAt("notified")
    /\ changes' = Replace(cron.cur, [Change(cron.cur) EXCEPT !.notified = now])
    /\ cron' = [cron EXCEPT !.pc = "mail"]
    /\ UNCHANGED <<now, desk, audit, factor, sessions, address, fresh, proofs, req, left, history>>

(* ... and those that are due are applied, one after the other. *)
ReadDue ==
    /\ CronAt("mail") /\ cron.todo = {}
    /\ cron' = [cron EXCEPT !.pc = "next", !.time = now,
                    !.todo = {c.id : c \in {d \in changes : Due(d)}}]
    /\ UNCHANGED <<now, desk, audit, factor, sessions, address, changes, fresh, proofs, req, left, history>>

ApplyNext(id) ==
    /\ CronAt("next") /\ id \in cron.todo
    /\ cron' = [cron EXCEPT !.todo = @ \ {id}, !.cur = id,
                    !.pc = IF Change(id).kind = "email" THEN "email" ELSE "passkeys"]
    /\ UNCHANGED <<now, desk, audit, factor, sessions, address, changes, fresh, proofs, req, left, history>>

CronEnds ==
    /\ CronAt("next") /\ cron.todo = {}
    /\ cron' = Resting
    /\ UNCHANGED <<now, desk, audit, factor, sessions, address, changes, fresh, proofs, req, left, history>>

(* replaceEmail; deleteAll, replaceRecoveryCodes([]) and clearFlag; then *)
(* revokeUser and markApplied.                                           *)
CronNext(pc) == cron' = [cron EXCEPT !.pc = pc]

ReplaceEmail ==
    /\ CronAt("email")
    /\ address' = cron.cur
    /\ CronNext("revoke")
    /\ UNCHANGED <<now, desk, audit, factor, sessions, changes, fresh, proofs, req, left, history>>

DeletePasskeys ==
    /\ CronAt("passkeys")
    /\ passkeys' = {}
    /\ CronNext("codes")
    /\ UNCHANGED <<now, desk, audit, setupUsed, codes, challenges, sessions, address, changes, fresh, proofs, req, left, history>>

AfterCodes == "flag"

DropCodes ==
    /\ CronAt("codes")
    /\ codes' = {}
    /\ CronNext(AfterCodes)
    /\ UNCHANGED <<now, desk, audit, passkeys, setupUsed, challenges, sessions, address, changes, fresh, proofs, req, left, history>>

ClearFlag ==
    /\ CronAt("flag")
    /\ setupUsed' = FALSE
    /\ CronNext("revoke")
    /\ UNCHANGED <<now, desk, audit, passkeys, codes, challenges, sessions, address, changes, fresh, proofs, req, left, history>>

RevokeUser ==
    /\ CronAt("revoke")
    /\ sessions' = {}
    /\ CronNext("applied")
    /\ UNCHANGED <<now, desk, audit, factor, address, changes, fresh, proofs, req, left, history>>

MarkApplied ==
    /\ CronAt("applied")
    /\ LET c == Change(cron.cur)
       IN  changes' = IF c.applied = 0 THEN Replace(cron.cur, [c EXCEPT !.applied = cron.time])
                      ELSE changes
    /\ CronNext("next")
    /\ UNCHANGED <<now, desk, audit, factor, sessions, address, fresh, proofs, req, left, history>>

-----------------------------------------------------------------------------
(* Faults and time. *)

(* A killed request. *)
Die(q) ==
    /\ ~Idle(q) /\ Spend("die")
    /\ Done(q)
    /\ clean' = [clean EXCEPT !.setup = @ /\ ~(req[q].op = "setup" /\ req[q].pc = "store")]
    /\ UNCHANGED <<now, desk, audit, factor, sessions, address, changes, fresh, proofs, cron, answers, grants, mails>>

(* A killed cron. *)
CronDies ==
    /\ ~CronAt("rest") /\ Spend("die")
    /\ cron' = Resting
    /\ UNCHANGED <<now, desk, audit, factor, sessions, address, changes, fresh, proofs, req, history>>

Tick ==
    /\ now < left.time
    /\ now' = now + 1
    /\ UNCHANGED <<desk, audit, factor, sessions, address, changes, fresh, proofs, req, cron, left, history>>

RequestNext(q) ==
    \/ ReadHead(q) \/ InsertRow(q)
    \/ FindByKey(q) \/ ReadSettings(q) \/ PatchRow(q) \/ ReplaceDomains(q) \/ ReadResult(q)
    \/ ConsumeChallenge(q) \/ VerifyNew(q) \/ BurnSetupCode(q) \/ StorePasskey(q)
    \/ UpgradeRecovery(q) \/ CountPasskeys(q) \/ IssueCodes(q) \/ DeleteKeeping(q)
    \/ FindPasskey(q) \/ UpdateCounter(q) \/ UseRecoveryCode(q) \/ Issue(q)

Begin(q) ==
    \/ \E k \in Keys : PatchSettings(q, k) \/ PutBlockedDomains(q, k)
    \/ \E f \in proofs : Setup(q, f) \/ Login(q, f) \/ \E s \in sessions : Add(q, s, f)
    \/ \E p \in passkeys : Remove(q, p.id)
    \/ \E c \in codes : Recover(q, c.issue, c.n)

CronNextStep ==
    \/ ReadUnnotified \/ MarkNotified \/ ReadDue \/ CronEnds
    \/ \E c \in changes : MailNotice(c.id) \/ ApplyNext(c.id)
    \/ ReplaceEmail \/ DeletePasskeys \/ DropCodes \/ ClearFlag \/ RevokeUser \/ MarkApplied

Next ==
    \/ \E q \in Reqs : Begin(q) \/ RequestNext(q) \/ Die(q)
    \/ RegistrationOptions
    \/ \E p \in passkeys : AssertionOptions(p.id)
    \/ \E kind \in {"email", "reset"}, delay \in {0, 1} : RequestChange(kind, delay)
    \/ SweepAudit
    \/ CronNextStep \/ CronDies
    \/ Tick

Spec == Init /\ [][Next]_vars

(* Time passes and the cron runs every two minutes; people owe nothing. *)
FairSpec == Spec /\ WF_vars(Tick) /\ WF_vars(CronNextStep)

-----------------------------------------------------------------------------
(* Properties. *)

Ids == 0 .. fresh - 1

(* Every table, request and the cron is well formed: there is one passkey  *)
(* per credential and at most one issue of recovery codes, and no request  *)
(* tries the audit row more often than append allows.                      *)
TypeOK ==
    /\ now \in 1 .. left.time /\ fresh \in Nat
    /\ settings \in Settings
    /\ domains \in Keys \cup {0}
    /\ audit \subseteq [id : Ids, at : Nat, key : Keys \cup {None}, prev : Ids,
                      result : {None} \cup Settings]
    /\ passkeys \subseteq [id : Ids, count : Nat]
    /\ \A p, r \in passkeys : p.id = r.id => p = r
    /\ setupUsed \in BOOLEAN
    /\ codes \subseteq [issue : Ids, n : 1 .. RecoveryCodes, used : BOOLEAN]
    /\ Cardinality(codes) \in {0, RecoveryCodes}
    /\ challenges \subseteq Ids
    /\ sessions \subseteq [id : Ids, amr : {"passkey", "recovery"}]
    /\ address \in Ids
    /\ changes \subseteq [id : Ids, kind : {"email", "reset"}, requested : Nat, effective : Nat,
                        notified : Nat, applied : Nat]
    /\ \A q \in Reqs : ~Idle(q) => req[q].tries < AppendRetries /\ req[q].rows \in 0 .. 2
    /\ cron.todo \subseteq Ids /\ cron.cur \in Ids

(* admin_audit is one chain however many requests append at once, in the   *)
(* order (at, id) that verifyChain reads it in: every row names the one    *)
(* before it.                                                              *)
ChainUnbroken ==
    \A s \in audit :
        LET earlier == {r \in audit : Before(r, s)}
        IN  earlier # {} =>
                \E r \in earlier : s.prev = r.id /\ \A t \in earlier : ~Before(r, t)

(* Whenever a confirmation that is sent again, or twice at once, succeeds, *)
(* it is answered the same (idempotent), also when another write changed   *)
(* what it reads.  A twin at work at once may be refused instead, as the   *)
(* version its page showed has moved (patchSettings): then it applied      *)
(* nothing.                                                                *)
SameAnswer == \A a, b \in answers : a[1] = b[1] => a[2] = b[2]

(* An edit of the settings only ever replaces the settings its page showed, *)
(* although their version is a clock that two edits may read alike.         *)
EditsWhatWasSeen ==
    [][\A q \in Reqs : At(q, "patch") /\ settings' # settings /\ req'[q] # req[q]
            => req[q].saw = settings]_vars

(* A signed challenge or a recovery code opens one session, however often  *)
(* and fast it is sent, also when the authenticator does not count and     *)
(* signCountOk lets every answer through: the challenge is consumed once.  *)
OneGrantPerProof == \A a, b \in grants : a[1] = b[1] => a = b

(* Whoever removes passkeys at once, at least MinPasskeys of them remain;  *)
(* only a reset takes the last ones.                                       *)
MinKept ==
    [][Cardinality(passkeys') < Cardinality(passkeys) =>
            Cardinality(passkeys') >= MinPasskeys \/ CronAt("passkeys")]_vars

(* While nothing is under way the administrator has a way in: the setup    *)
(* code or a passkey.  A setup killed between the flag and the passkey     *)
(* (clean.setup) does leave neither.                                       *)
WayIn ==
    /\ \A q \in Reqs : Idle(q)
    /\ CronAt("rest") /\ ~\E c \in changes : Due(c)
    /\ clean.setup
    => ~setupUsed \/ passkeys # {}

(* The recovery codes that were shown stay good until the last is used, as *)
(* long as no two passkeys are added at once (clean.adds).                 *)
ShownCodesStand ==
    [][\A q \in Reqs : At(q, "codes") /\ codes' # codes /\ req'[q] # req[q] /\ clean.adds
            => UnusedCodes = {}]_vars

(* No change takes effect before its notice got out and the cool-down is   *)
(* over, whichever run of the cron wrote what.                             *)
NoticedFirst ==
    \A c \in changes :
        c.applied # 0 \/ (c.kind = "email" /\ address = c.id)
        => now >= c.requested + CoolDown /\ \E m \in mails : m[1] = c.id

(* Every change is applied in the end, although mails fail and a cron may  *)
(* be killed.                                                              *)
ChangesApplied == <>[](\A c \in changes : c.applied # 0)

(* The audit log is one chain, and no table or request leaves its range.   *)
LogSound == TypeOK /\ ChainUnbroken

(* What is sent twice counts once: the successes of a confirmation have    *)
(* one answer, a signed challenge or recovery code opens one session.      *)
SentTwiceCountsOnce == SameAnswer /\ OneGrantPerProof

(* The second factor is never lost by accident: there is a way in, enough  *)
(* passkeys remain, and shown recovery codes stay good.                    *)
SecondFactorKept == []WayIn /\ MinKept /\ ShownCodesStand
=============================================================================

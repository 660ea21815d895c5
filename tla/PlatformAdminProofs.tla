------------------------ MODULE PlatformAdminProofs ------------------------
(***************************************************************************)
(* Theorems about the bootstrap administrator, for every number of         *)
(* requests and keys, every workload and every value of the limits.        *)
(***************************************************************************)
EXTENDS PlatformAdmin, Sequences, FiniteSetTheorems, TLAPS

(* What a request is, at each of its steps.                                *)
Proof == [kind : {"register", "assert"}, challenge : Nat, id : Nat, count : Nat,
          valid : BOOLEAN]

Operations == {"patch", "put", "setup", "add", "login", "remove", "recovery"}
Places == {"find", "read", "patch", "replace", "dto", "head", "insert", "consume",
           "verify", "burn", "store", "upgrade", "count", "codes", "delete",
           "passkey", "counter", "code", "issue"}

Shown == {None} \cup Nat \cup (Nat \X Nat) \cup Proof

Requests ==
    [op : Operations, pc : Places, key : Keys \cup {None},
     result : Settings \cup {None}, head : Nat, at : Nat,
     tries : 0 .. (AppendRetries - 1), rows : 0 .. 2, saw : Settings \cup {None},
     next : Nat, proof : Shown, sid : Nat]

Fits(r) ==
  /\ r.op = "patch" => r.pc \in {"find", "read", "patch", "dto", "head", "insert"}
                       /\ r.key \in Keys /\ r.saw \in Settings
  /\ r.op = "put" => r.pc \in {"find", "replace", "dto", "head", "insert"} /\ r.key \in Keys
  /\ r.op \notin {"patch", "put"} => r.key = None
  /\ r.op = "setup" => r.pc \in {"consume", "verify", "burn", "store", "head", "insert", "issue"}
                       /\ r.sid = 0
  /\ r.op = "add" => r.pc \in {"consume", "verify", "store", "upgrade", "head", "insert",
                               "count", "codes"}
  /\ r.op \in {"setup", "add"} => r.proof \in Proof /\ r.proof.id = r.proof.challenge
  /\ r.op = "login" => r.pc \in {"consume", "passkey", "counter", "head", "insert", "issue"}
                       /\ r.proof \in Proof
  /\ r.op = "remove" => r.pc \in {"delete", "head", "insert"} /\ r.proof \in Nat
  /\ r.op = "recovery" => r.pc \in {"code", "head", "insert", "issue"}
                          /\ r.proof \in Nat \X Nat
  /\ r.pc \notin {"issue", "count", "codes"} => r.rows > 0

Shape(r) == r = NoRequest \/ (r \in Requests /\ Fits(r))

(* What a sign-in or a new passkey shows for itself, and what is still     *)
(* good: challenges that stand and recovery codes that were not used.      *)
Shows(r) == r.op \in {"setup", "add", "login", "recovery"}
Evidence(r) == IF r.op = "recovery" THEN r.proof ELSE <<r.proof.challenge>>
Good == {<<c>> : c \in challenges} \cup {<<c.issue, c.n>> : c \in UnusedCodes}
Granted == {g[1] : g \in grants}

Used(r) == Shows(r) /\ r.pc \notin {"consume", "code"}

(* A request holds what was made, its audit row comes after the head it    *)
(* has read, its version after the settings it has seen, and its evidence  *)
(* is used up.                                                             *)
Ordered(r) == r.pc = "insert" => \A s \in audit : s.id = r.head => s.at < r.at

Informed(r) ==
  r.op = "patch" /\ r.pc \in {"find", "read", "patch"} =>
    /\ r.saw.version <= settings.version
    /\ r.saw.version = settings.version => r.saw = settings
    /\ r.pc = "patch" => r.next > r.saw.version

NewKey(r) == r.op \in {"setup", "add"} /\ r.pc \in {"burn", "store"} => Passkey(r.proof.id) = {}

Made(r) ==
  /\ r.head < fresh /\ r.sid < fresh
  /\ r.op \in {"setup", "add", "login"} => r.proof.id < fresh
  /\ Shows(r) => Evidence(r)[1] < fresh

UsedUp(r) == Used(r) => Evidence(r) \notin Good \cup Granted

Holds(r) == r = NoRequest \/ (Ordered(r) /\ Informed(r) /\ NewKey(r) /\ Made(r) /\ UsedUp(r))

ReqInv ==
  /\ req = [q \in Reqs |-> req[q]]
  /\ \A q \in Reqs : Shape(req[q]) /\ Holds(req[q])
  /\ \A p, q \in Reqs :
       /\ Used(req[p]) /\ Used(req[q]) /\ Evidence(req[p]) = Evidence(req[q])
       => p = q

BaseInv ==
  /\ now \in Nat \ {0} /\ fresh \in Nat \ {0}
  /\ left \in Workload /\ now <= left.time
  /\ settings \in Settings /\ domains \in Keys \cup {0}

Row == [id : 1 .. (fresh - 1), at : Nat, key : Keys \cup {None}, prev : Ids,
        result : {None} \cup Settings]

AuditInv ==
  /\ audit \subseteq Row
  /\ \A r, s \in audit : r.id = s.id \/ r.at = s.at => r = s
  /\ audit # {} => \E r \in audit : \A s \in audit : s.at <= r.at
  /\ ChainUnbroken

(* A key has one row, which holds its answer; nothing that has a key is    *)
(* swept.                                                                  *)
KeyInv ==
  /\ \A r, s \in audit : r.key # None /\ r.key = s.key => r = s
  /\ \A a \in answers : /\ a[1] \in Keys
                        /\ a = <<a[1], a[2]>>
                        /\ \E s \in audit : s.key = a[1] /\ s.result = a[2]
  /\ \/ left.sweep = 0
     \/ left.time <= Retention
     \/ /\ left.patch = 0 /\ left.put = 0
        /\ \A q \in Reqs : req[q].op \notin {"patch", "put"}
        /\ \A s \in audit : s.key = None

FactorInv ==
  /\ passkeys \subseteq [id : Ids, count : Nat] /\ IsFiniteSet(passkeys)
  /\ \A p, r \in passkeys : p.id = r.id => p = r
  /\ setupUsed \in BOOLEAN
  /\ challenges \subseteq Ids
  /\ proofs \subseteq Proof /\ IsFiniteSet(proofs)
  /\ \A f \in proofs : f.challenge < fresh /\ f.id < fresh
                       /\ (f.kind = "register" => f.id = f.challenge)
  /\ sessions \subseteq [id : Ids, amr : {"passkey", "recovery"}]

(* One issue of codes, of which some are used.                             *)
Issued(i, u) == {[issue |-> i, n |-> n, used |-> u[n]] : n \in 1 .. RecoveryCodes}

CodesInv ==
  \/ codes = {}
  \/ \E i \in Ids, u \in [1 .. RecoveryCodes -> BOOLEAN] : codes = Issued(i, u)

GrantInv ==
  /\ \A g \in grants : g = <<g[1], g[2]>> /\ g[1][1] \in Ids /\ g[1] \notin Good
  /\ OneGrantPerProof

AddInv ==
  clean.adds => /\ \A p, q \in Reqs : Adding(p) /\ Adding(q) => p = q
                /\ \A q \in Reqs : At(q, "codes") => UnusedCodes = {}

(* A change that was applied, or is being applied, was announced and due.  *)
Mailed(i) == \E m \in mails : m[1] = i
Known(i) == \E c \in changes : c.id = i
DueOf(i, kinds) == \E c \in changes : c.id = i /\ Due(c) /\ c.kind \in kinds
Kinds == {"email", "reset"}

CronOK(x) ==
  /\ x \in [pc : {"rest", "mail", "notified", "next", "email", "passkeys", "codes", "flag",
                  "revoke", "applied"},
            address : Ids, todo : SUBSET Ids, cur : Ids, time : Nat]
  /\ x.pc \in {"mail", "notified"} => \A i \in x.todo : Known(i)
  /\ x.pc = "notified" => Mailed(x.cur) /\ Known(x.cur)
  /\ x.pc \notin {"rest", "mail", "notified"} =>
       /\ x.time > 0
       /\ \A i \in x.todo : DueOf(i, Kinds)
       /\ x.pc # "next" => x.cur \notin x.todo /\ DueOf(x.cur, Kinds)
  /\ x.pc = "email" => DueOf(x.cur, {"email"})
  /\ x.pc \in {"passkeys", "codes", "flag"} => DueOf(x.cur, {"reset"})

ChangeInv ==
  /\ changes \subseteq [id : 1 .. (fresh - 1), kind : Kinds, requested : Nat,
                        effective : Nat, notified : Nat, applied : Nat]
  /\ \A c, d \in changes : c.id = d.id => c = d
  /\ \A c \in changes : c.notified # 0 => Mailed(c.id)
  /\ address \in Ids
  /\ NoticedFirst

CronInv == CronOK(cron)

(* Without setup code and passkeys, a setup is about to store one, a due   *)
(* reset is going to clear the flag, or a setup was killed in between.     *)
WillReset(c) ==
  Due(c) /\ c.kind = "reset" /\ ~(cron.pc \in {"revoke", "applied"} /\ cron.cur = c.id)

Storing(r) == r.op = "setup" /\ r.pc = "store"

WayInv ==
  /\ clean \in [setup : BOOLEAN, adds : BOOLEAN]
  /\ setupUsed /\ passkeys = {} /\ clean.setup =>
       (\E q \in Reqs : Storing(req[q])) \/ (\E c \in changes : WillReset(c))

IInv == /\ BaseInv /\ ReqInv /\ AuditInv /\ KeyInv /\ FactorInv /\ CodesInv /\ GrantInv
        /\ AddInv /\ ChangeInv /\ CronInv /\ WayInv
-----------------------------------------------------------------------------
(* Numbers.                                                                *)

LEMMA MaxFacts ==
  \A m, n \in Int : /\ Max({m, n}) \in {m, n}
                    /\ Max({m, n}) >= m /\ Max({m, n}) >= n
<1> SUFFICES ASSUME NEW m \in Int, NEW n \in Int
             PROVE  \E k \in {m, n} : \A l \in {m, n} : k >= l
  BY DEF Max
<1>1. CASE m >= n
  BY <1>1
<1>2. CASE n >= m
  BY <1>2
<1> QED
  BY <1>1, <1>2

LEMMA Wider ==
  \A m, n \in Nat : m <= n =>
    /\ 0 .. (m - 1) \subseteq 0 .. (n - 1) /\ 1 .. (m - 1) \subseteq 1 .. (n - 1)
OBVIOUS

-----------------------------------------------------------------------------
(* Requests.                                                               *)

LEMMA NoRequestFacts ==
  /\ NoRequest \notin Requests /\ NoRequest.op = "none"
  /\ Shape(NoRequest) /\ Holds(NoRequest) /\ Holds(NoRequest)'
  /\ ~Used(NoRequest) /\ ~Storing(NoRequest)
BY DEF NoRequest, Requests, Shape, Holds, Used, Shows, Storing, Operations

(* A request that is at some place is one.                                 *)
LEMMA AtFacts ==
  ASSUME IInv, NEW q \in Reqs, NEW p, At(q, p)
  PROVE  /\ req[q] \in Requests /\ Fits(req[q]) /\ req[q].pc = p
         /\ Ordered(req[q]) /\ Informed(req[q]) /\ NewKey(req[q]) /\ Made(req[q])
         /\ UsedUp(req[q])
<1>1. req[q].op # "none" /\ req[q].pc = p /\ Shape(req[q]) /\ Holds(req[q])
  BY DEF IInv, ReqInv, At
<1>2. req[q] # NoRequest
  BY <1>1, NoRequestFacts
<1> QED
  BY <1>1, <1>2 DEF Shape, Holds

(* What one request does, the others see, and their evidence differs.      *)
LEMMA OneRequest ==
  ASSUME ReqInv, NEW q \in Reqs, NEW x, req' = [req EXCEPT ![q] = x],
         Shape(x), Holds(x)',
         \A p \in Reqs : \A r : p # q /\ r = req[p] => Holds(r)',
         Used(x) => \A p \in Reqs : p # q /\ Used(req[p]) => Evidence(req[p]) # Evidence(x)
  PROVE  ReqInv'
<1>1. /\ req' = [p \in Reqs |-> req'[p]]
      /\ \A p \in Reqs : req'[p] = IF p = q THEN x ELSE req[p]
  BY DEF ReqInv
<1>2. \A p \in Reqs : Shape(req'[p])
  BY <1>1 DEF ReqInv
<1>3. \A p \in Reqs : Holds(req[p])'
  <2> TAKE p \in Reqs
  <2>1. PICK r : r = req[p]
    OBVIOUS
  <2>2. CASE p = q
    BY <1>1, <2>2 DEF Holds, Ordered, Informed, NewKey, Made, UsedUp
  <2>3. CASE p # q
    <3>1. Holds(r)' /\ req'[p] = r
      BY <1>1, <2>1, <2>3
    <3> QED
      BY <3>1 DEF Holds, Ordered, Informed, NewKey, Made, UsedUp
  <2> QED
    BY <2>2, <2>3
<1>4. \A o, p \in Reqs :
        Used(req'[o]) /\ Used(req'[p]) /\ Evidence(req'[o]) = Evidence(req'[p]) => o = p
  BY <1>1 DEF ReqInv
<1> QED
  BY <1>1, <1>2, <1>3, <1>4 DEF ReqInv, Shape, Used, Evidence, Shows

(* ... and of a step that is no request's.                                 *)
LEMMA NoRequestStep ==
  ASSUME ReqInv, UNCHANGED req, \A p \in Reqs : \A r : r = req[p] => Holds(r)'
  PROVE  ReqInv'
<1>1. \A p \in Reqs : Holds(req[p])'
  <2> TAKE p \in Reqs
  <2>1. PICK r : r = req[p]
    OBVIOUS
  <2>2. Holds(r)' /\ req'[p] = r
    BY <2>1
  <2> QED
    BY <2>2 DEF Holds, Ordered, Informed, NewKey, Made, UsedUp
<1> QED
  BY <1>1 DEF ReqInv, Shape, Used, Evidence, Shows

(* What a request holds stays true while it reads what it read.            *)
LEMMA HoldsSame ==
  ASSUME BaseInv, NEW r, Holds(r), Shape(r), fresh' \in Nat, fresh <= fresh',
         UNCHANGED <<audit, settings, passkeys, challenges, codes, grants>>
  PROVE  Holds(r)'
<1>1. Ordered(r)' = Ordered(r) /\ Informed(r)' = Informed(r) /\ NewKey(r)' = NewKey(r)
      /\ UsedUp(r)' = UsedUp(r)
  BY DEF Ordered, Informed, NewKey, UsedUp, Passkey, Good, Granted, UnusedCodes
<1>2. CASE r # NoRequest
  <2>1. r \in Requests /\ Fits(r) /\ Made(r)
    BY <1>2 DEF Holds, Shape
  <2>2. r.head \in Nat /\ r.sid \in Nat
    BY <2>1 DEF Requests
  <2>3. r.op \in {"setup", "add", "login"} => r.proof.id \in Nat /\ r.proof.challenge \in Nat
    BY <2>1 DEF Fits, Proof
  <2>4. Shows(r) => Evidence(r)[1] \in Nat
    <3>1. CASE r.op = "recovery"
      BY <2>1, <3>1 DEF Fits, Evidence
    <3>2. CASE r.op # "recovery"
      BY <2>3, <3>2 DEF Shows, Evidence
    <3> QED
      BY <3>1, <3>2
  <2>5. fresh \in Nat
    BY DEF BaseInv
  <2>6. Made(r)'
    BY <2>1, <2>2, <2>3, <2>4, <2>5 DEF Made
  <2> QED
    BY <1>1, <1>2, <2>6 DEF Holds
<1> QED
  BY <1>2 DEF Holds

(* The head of the chain is the row with the latest time.                  *)
LEMMA LatestFacts ==
  ASSUME AuditInv, audit # {}
  PROVE  \E h \in audit : /\ HeadId = h.id /\ HeadAt = h.at
                          /\ \A s \in audit : s.at <= h.at
<1>1. PICK h \in audit : \A s \in audit : s.at <= h.at
  BY DEF AuditInv
<1>2. \A s \in audit : s.at \in Nat /\ s.id \in Nat
  BY DEF AuditInv, Row
<1>3. h \in Latest
  <2>1. \A s \in audit : h.at <= s.at => s = h
    <3> TAKE s \in audit
    <3>1. s.at <= h.at /\ s.at \in Nat /\ h.at \in Nat
      BY <1>1, <1>2
    <3> QED
      BY <3>1 DEF AuditInv
  <2>2. \A s \in audit : ~Before(h, s)
    <3> TAKE s \in audit
    <3>1. CASE s = h
      BY <1>2, <3>1 DEF Before
    <3>2. CASE s # h
      <4>1. ~(h.at <= s.at) /\ s.at \in Nat /\ h.at \in Nat
        BY <1>2, <2>1, <3>2
      <4> QED
        BY <4>1 DEF Before
    <3> QED
      BY <3>1, <3>2
  <2> QED
    BY <2>2 DEF Latest
<1>4. \A s \in Latest : s = h
  <2> TAKE s \in Latest
  <2>1. s \in audit /\ ~Before(s, h)
    BY DEF Latest
  <2>2. s.at <= h.at /\ s.at \in Nat /\ h.at \in Nat
    BY <1>1, <1>2, <2>1
  <2>3. s.at = h.at
    BY <2>1, <2>2 DEF Before
  <2> QED
    BY <2>1, <2>3 DEF AuditInv
<1>5. (CHOOSE r \in Latest : TRUE) = h
  BY <1>3, <1>4
<1> QED
  BY <1>1, <1>5 DEF HeadId, HeadAt
-----------------------------------------------------------------------------
(* What a step leaves alone.                                               *)

Grows == fresh' \in Nat /\ fresh <= fresh'

LEMMA BaseKept ==
  ASSUME BaseInv, Grows, UNCHANGED <<now, desk>>, left' \in Workload, left'.time = left.time
  PROVE  BaseInv'
BY DEF BaseInv, Grows, desk

LEMMA AuditKept ==
  ASSUME BaseInv, AuditInv, Grows, UNCHANGED audit
  PROVE  AuditInv'
<1>1. 1 .. (fresh - 1) \subseteq 1 .. (fresh' - 1) /\ Ids \subseteq Ids'
  BY Wider DEF BaseInv, Grows, Ids
<1>2. audit' \subseteq Row'
  BY <1>1 DEF AuditInv, Row
<1> QED
  BY <1>2 DEF AuditInv, ChainUnbroken

LEMMA KeyKept ==
  ASSUME KeyInv, UNCHANGED <<audit, answers>>,
         left.sweep = 0 => left'.sweep = 0, left'.time = left.time,
         left.patch = 0 => left'.patch = 0, left.put = 0 => left'.put = 0,
         left.patch = 0 /\ left.put = 0 =>
           \A q \in Reqs : req[q].op \notin {"patch", "put"} => req'[q].op \notin {"patch", "put"}
  PROVE  KeyInv'
BY DEF KeyInv

LEMMA FactorKept ==
  ASSUME BaseInv, FactorInv, Grows,
         UNCHANGED <<passkeys, setupUsed, challenges, proofs, sessions>>
  PROVE  FactorInv'
<1>1. Ids \subseteq Ids'
  BY Wider DEF BaseInv, Grows, Ids
<1>2. passkeys' \subseteq [id : Ids', count : Nat]
      /\ sessions' \subseteq [id : Ids', amr : {"passkey", "recovery"}]
      /\ challenges' \subseteq Ids'
  BY <1>1 DEF FactorInv
<1>3. \A f \in proofs' : f.challenge < fresh' /\ f.id < fresh'
  <2> TAKE f \in proofs'
  <2>1. f \in proofs /\ f.challenge \in Nat /\ f.id \in Nat /\ fresh \in Nat
    BY DEF FactorInv, Proof, BaseInv
  <2> QED
    BY <2>1 DEF FactorInv, Grows
<1> QED
  BY <1>2, <1>3 DEF FactorInv

LEMMA CodesKept ==
  ASSUME BaseInv, CodesInv, Grows, UNCHANGED codes
  PROVE  CodesInv'
<1>1. Ids \subseteq Ids'
  BY Wider DEF BaseInv, Grows, Ids
<1>2. CASE codes = {}
  BY <1>2 DEF CodesInv
<1>3. CASE codes # {}
  <2>1. PICK i \in Ids, u \in [1 .. RecoveryCodes -> BOOLEAN] : codes = Issued(i, u)
    BY <1>3 DEF CodesInv
  <2>2. i \in Ids' /\ codes' = Issued(i, u)
    BY <1>1, <2>1
  <2> QED
    BY <2>2 DEF CodesInv, Issued
<1> QED
  BY <1>2, <1>3

LEMMA GrantKept ==
  ASSUME BaseInv, GrantInv, Grows, UNCHANGED grants, Good' \subseteq Good
  PROVE  GrantInv'
<1>1. Ids \subseteq Ids'
  BY Wider DEF BaseInv, Grows, Ids
<1> QED
  BY <1>1 DEF GrantInv, OneGrantPerProof

LEMMA ChangeKept ==
  ASSUME BaseInv, ChangeInv, Grows, UNCHANGED <<now, changes, mails, address>>
  PROVE  ChangeInv'
<1>1. 1 .. (fresh - 1) \subseteq 1 .. (fresh' - 1) /\ Ids \subseteq Ids'
  BY Wider DEF BaseInv, Grows, Ids
<1>2. changes' \subseteq [id : 1 .. (fresh' - 1), kind : Kinds, requested : Nat,
                        effective : Nat, notified : Nat, applied : Nat]
      /\ address' \in Ids'
  BY <1>1 DEF ChangeInv
<1>3. NoticedFirst'
  BY DEF ChangeInv, NoticedFirst
<1> QED
  BY <1>2, <1>3 DEF ChangeInv, Mailed

LEMMA CronKept ==
  ASSUME BaseInv, CronInv, Grows, UNCHANGED <<now, changes, mails, cron>>
  PROVE  CronInv'
<1>1. Ids \subseteq Ids'
  BY Wider DEF BaseInv, Grows, Ids
<1>2. cron' \in [pc : {"rest", "mail", "notified", "next", "email", "passkeys", "codes", "flag",
                       "revoke", "applied"},
                 address : Ids', todo : SUBSET Ids', cur : Ids', time : Nat]
  BY <1>1 DEF CronInv, CronOK
<1> QED
  BY <1>2 DEF CronInv, CronOK, Mailed, Known, DueOf, Due

LEMMA WayKept ==
  ASSUME WayInv, UNCHANGED <<now, clean, setupUsed, changes, cron>>,
         passkeys' = {} => passkeys = {},
         \A q \in Reqs : Storing(req[q]) => Storing(req'[q]) \/ passkeys' # {}
  PROVE  WayInv'
<1>1. \A c \in changes : WillReset(c) => WillReset(c)'
  BY DEF WillReset, Due
<1> QED
  BY <1>1 DEF WayInv, Storing

LEMMA AddKept ==
  ASSUME AddInv, clean' = clean, UnusedCodes = {} => UnusedCodes' = {},
         \A q \in Reqs : req'[q].op = "add" => req[q].op = "add",
         \A q \in Reqs : At(q, "codes")' => At(q, "codes") \/ UnusedCodes' = {}
  PROVE  AddInv'
BY DEF AddInv, Adding

(* A step of one request: what it needs to say of the tables it leaves     *)
(* alone and of itself.                                                    *)
LEMMA Leaves ==
  ASSUME IInv, Grows, NEW q \in Reqs, NEW x, req' = [req EXCEPT ![q] = x],
         UNCHANGED <<now, desk, left>>,
         x.op \in {req[q].op, "none"}
  PROVE  /\ BaseInv'
         /\ UNCHANGED audit => AuditInv'
         /\ UNCHANGED <<audit, answers>> => KeyInv'
         /\ UNCHANGED <<passkeys, setupUsed, challenges, proofs, sessions>> => FactorInv'
         /\ UNCHANGED codes => CodesInv'
         /\ UNCHANGED grants /\ Good' \subseteq Good => GrantInv'
         /\ UNCHANGED clean /\ (UnusedCodes = {} => UnusedCodes' = {})
              /\ (x.op = "none" \/ x.pc # "codes" \/ UnusedCodes' = {}) => AddInv'
         /\ UNCHANGED <<changes, mails, address>> => ChangeInv'
         /\ UNCHANGED <<changes, mails, cron>> => CronInv'
         /\ UNCHANGED <<clean, setupUsed, changes, cron>>
              /\ (passkeys' = {} => passkeys = {})
              /\ (Storing(req[q]) => Storing(x) \/ passkeys' # {}) => WayInv'
<1>1. \A p \in Reqs : req'[p] = IF p = q THEN x ELSE req[p]
  BY DEF IInv, ReqInv
<1>2. \A p \in Reqs : /\ req'[p].op \in {req[p].op, "none"}
                      /\ Storing(req[p]) /\ p # q => Storing(req'[p])
                      /\ At(p, "codes")' =>
                           (p # q /\ At(p, "codes")) \/ (x.op # "none" /\ x.pc = "codes")
  BY <1>1 DEF Storing, At
<1>3. BaseInv'
  BY BaseKept DEF IInv, BaseInv
<1>4. UNCHANGED audit => AuditInv'
  BY AuditKept DEF IInv
<1>5. UNCHANGED <<audit, answers>> => KeyInv'
  BY <1>2, KeyKept DEF IInv
<1>6. UNCHANGED <<passkeys, setupUsed, challenges, proofs, sessions>> => FactorInv'
  BY FactorKept DEF IInv
<1>7. UNCHANGED codes => CodesInv'
  BY CodesKept DEF IInv
<1>8. UNCHANGED grants /\ Good' \subseteq Good => GrantInv'
  BY GrantKept DEF IInv
<1>9. UNCHANGED clean /\ (UnusedCodes = {} => UnusedCodes' = {})
        /\ (x.op = "none" \/ x.pc # "codes" \/ UnusedCodes' = {}) => AddInv'
  BY <1>2, AddKept DEF IInv
<1>10. UNCHANGED <<changes, mails, address>> => ChangeInv'
  BY ChangeKept DEF IInv
<1>11. UNCHANGED <<changes, mails, cron>> => CronInv'
  BY CronKept DEF IInv
<1>12. UNCHANGED <<clean, setupUsed, changes, cron>>
         /\ (passkeys' = {} => passkeys = {})
         /\ (Storing(req[q]) => Storing(x) \/ passkeys' # {}) => WayInv'
  BY <1>1, <1>2, WayKept DEF IInv
<1> QED
  BY <1>3, <1>4, <1>5, <1>6, <1>7, <1>8, <1>9, <1>10, <1>11, <1>12
-----------------------------------------------------------------------------
(* Steps of a request that only read.                                      *)

Same == UNCHANGED <<desk, audit, factor, sessions, address, changes, proofs,
                    cron, answers, grants, mails>>

LEMMA ReadOnly ==
  ASSUME IInv, NEW q \in Reqs, NEW x, req' = [req EXCEPT ![q] = x],
         UNCHANGED <<now, desk, audit, factor, sessions, address, changes, fresh, proofs,
                     cron, left, history>>,
         x = NoRequest \/ (/\ x \in Requests /\ Fits(x) /\ x.op = req[q].op
                           /\ x.proof = req[q].proof /\ x.sid = req[q].sid
                           /\ x.head < fresh /\ Ordered(x) /\ Informed(x) /\ NewKey(x)
                           /\ Used(x) => Used(req[q])),
         Storing(req[q]) => Storing(x),
         x = NoRequest \/ x.pc # "codes" \/ UnusedCodes = {}
  PROVE  IInv'
<1>1. /\ UNCHANGED <<now, settings, domains, audit, passkeys, setupUsed, codes, challenges,
                     sessions, address, changes, fresh, proofs, cron, left, answers, grants,
                     mails, clean>>
      /\ fresh \in Nat
  BY DEF desk, factor, history, IInv, BaseInv
<1>2. Good' = Good /\ UnusedCodes' = UnusedCodes /\ Grows
  BY <1>1 DEF Good, UnusedCodes, Grows
<1>3. Shape(x) /\ Holds(x)
  <2>1. CASE x = NoRequest
    BY <2>1, NoRequestFacts
  <2>2. CASE x # NoRequest
    <3>1. Shape(req[q]) /\ Holds(req[q]) /\ req[q] # NoRequest
      <4>1. x.op \in Operations
        BY <2>2 DEF Requests
      <4>2. req[q].op # "none"
        BY <2>2, <4>1 DEF Operations
      <4> QED
        BY <4>2, NoRequestFacts DEF IInv, ReqInv
    <3>2. Made(req[q]) /\ UsedUp(req[q])
      BY <3>1 DEF Holds
    <3>3. Shows(x) = Shows(req[q]) /\ Evidence(x) = Evidence(req[q])
      BY <2>2 DEF Shows, Evidence
    <3>4. Made(x) /\ UsedUp(x)
      BY <2>2, <3>2, <3>3 DEF Made, UsedUp
    <3> QED
      BY <2>2, <3>4 DEF Shape, Holds
  <2> QED
    BY <2>1, <2>2
<1>4. \A r : Shape(r) /\ Holds(r) => Holds(r)'
  BY <1>1, <1>2, HoldsSame DEF IInv, Grows
<1>5. Used(x) => \A p \in Reqs : p # q /\ Used(req[p]) => Evidence(req[p]) # Evidence(x)
  <2> SUFFICES ASSUME Used(x) PROVE Evidence(x) = Evidence(req[q]) /\ Used(req[q])
    BY DEF IInv, ReqInv
  <2>1. x # NoRequest
    BY NoRequestFacts
  <2> QED
    BY <2>1 DEF Evidence
<1>6. ReqInv'
  <2>1. \A p \in Reqs : \A r : p # q /\ r = req[p] => Holds(r)'
    BY <1>4 DEF IInv, ReqInv
  <2> QED
    BY <1>3, <1>4, <1>5, <2>1, OneRequest DEF IInv
<1>7. x.op \in {req[q].op, "none"} /\ (x.op = "none" \/ x.pc # "codes" \/ UnusedCodes' = {})
  BY <1>2, NoRequestFacts
<1> QED
  BY <1>1, <1>2, <1>6, <1>7, Leaves DEF IInv, desk

LEMMA ReadHeadOK ==
  ASSUME IInv, NEW q \in Reqs, ReadHead(q)
  PROVE  IInv'
<1> PICK r : r = req[q]
  OBVIOUS
<1>1. r \in Requests /\ Fits(r) /\ r.pc = "head" /\ NewKey(r)
  BY AtFacts DEF ReadHead
<1>2. PICK clock \in {now - 1, now} :
        req' = [req EXCEPT ![q] = [r EXCEPT !.pc = "insert", !.head = HeadId,
                                            !.at = NextAt(clock)]]
  BY DEF ReadHead, Goto
<1> PICK x : x = [r EXCEPT !.pc = "insert", !.head = HeadId, !.at = NextAt(clock)]
  OBVIOUS
<1>3. clock \in Nat /\ fresh \in Nat \ {0}
  BY DEF IInv, BaseInv
<1>4. /\ HeadId \in Nat /\ HeadId < fresh
      /\ NextAt(clock) \in Nat /\ \A s \in audit : s.id = HeadId => s.at < NextAt(clock)
  <2>1. CASE audit = {}
    <3>1. HeadId = 0 /\ HeadAt = 0
      BY <2>1 DEF HeadId, HeadAt
    <3>2. NextAt(clock) = Max({clock, 1})
      BY <3>1 DEF NextAt
    <3>3. NextAt(clock) \in Nat
      BY <1>3, <3>2, MaxFacts
    <3> QED
      BY <1>3, <2>1, <3>1, <3>3
  <2>2. CASE audit # {}
    <3>1. PICK s \in audit : HeadId = s.id /\ HeadAt = s.at
      BY <2>2, LatestFacts DEF IInv
    <3>2. s.id \in Nat /\ s.at \in Nat /\ s.id < fresh
      BY <1>3, <3>1 DEF IInv, AuditInv, Row
    <3>3. NextAt(clock) \in Nat /\ NextAt(clock) >= s.at + 1
      <4> PICK n : n = s.at + 1
        OBVIOUS
      <4>1. n \in Int /\ n > 0 /\ clock \in Int /\ NextAt(clock) = Max({clock, n})
        BY <1>3, <3>1, <3>2 DEF NextAt
      <4>2. Max({clock, n}) \in Int /\ Max({clock, n}) >= n
        BY <4>1, MaxFacts
      <4> QED
        BY <4>1, <4>2
    <3>4. \A t \in audit : t.id = s.id => t = s
      BY DEF IInv, AuditInv
    <3> QED
      BY <3>1, <3>2, <3>3, <3>4
  <2> QED
    BY <2>1, <2>2
<1>5. /\ x \in Requests /\ x.op = r.op /\ x.pc = "insert" /\ x.proof = r.proof
      /\ x.sid = r.sid /\ x.head = HeadId /\ x.at = NextAt(clock) /\ x.key = r.key
      /\ x.rows = r.rows /\ x.saw = r.saw
  BY <1>1, <1>4 DEF Requests, Places
<1>6. Fits(x) /\ Ordered(x) /\ Informed(x) /\ NewKey(x) /\ (Used(x) => Used(r))
  <2>1. Fits(x)
    BY <1>1, <1>5 DEF Fits
  <2>2. Ordered(x) /\ Informed(x) /\ NewKey(x)
    BY <1>4, <1>5 DEF Ordered, Informed, NewKey
  <2> QED
    BY <1>1, <1>5, <2>1, <2>2 DEF Used, Shows
<1>7. req' = [req EXCEPT ![q] = x] /\ ~Storing(r)
  BY <1>1, <1>2 DEF Storing
<1>8. UNCHANGED <<now, desk, audit, factor, sessions, address, changes, fresh, proofs,
                  cron, left, history>>
  BY DEF ReadHead
<1> QED
  BY <1>4, <1>5, <1>6, <1>7, <1>8, ReadOnly

LEMMA ReadSettingsOK ==
  ASSUME IInv, NEW q \in Reqs, ReadSettings(q)
  PROVE  IInv'
<1> PICK r : r = req[q]
  OBVIOUS
<1>1. r \in Requests /\ Fits(r) /\ r.pc = "read" /\ Informed(r) /\ Made(r)
  BY AtFacts DEF ReadSettings
<1>2. r.op = "patch" /\ r.saw \in Settings /\ r.saw \in [value : Keys \cup {0}, version : Nat]
  BY <1>1 DEF Fits, Settings, Requests, Operations
<1>3. UNCHANGED <<now, desk, audit, factor, sessions, address, changes, fresh, proofs,
                  cron, left, history>> /\ ~Storing(r)
  BY <1>1 DEF ReadSettings, Storing
<1>4. CASE settings.version # r.saw.version
  BY <1>3, <1>4, ReadOnly, NoRequestFacts DEF ReadSettings, Done, Goto
<1>5. CASE settings.version = r.saw.version
  <2> PICK n : n = NextVersion(settings.version)
    OBVIOUS
  <2>1. n \in Nat /\ n > r.saw.version
    <3>1. now \in Int /\ settings.version + 1 \in Int /\ settings.version + 1 > 0
      BY <1>2, <1>5 DEF IInv, BaseInv
    <3> PICK v : v = settings.version + 1
      OBVIOUS
    <3>2. n = Max({now, v})
      BY DEF NextVersion
    <3>3. n \in Int /\ n >= v
      BY <3>1, <3>2, MaxFacts
    <3> QED
      BY <1>2, <1>5, <3>1, <3>3
  <2> PICK x : x = [r EXCEPT !.pc = "patch", !.next = n]
    OBVIOUS
  <2>2. /\ x \in Requests /\ x.op = "patch" /\ x.pc = "patch" /\ x.proof = r.proof
        /\ x.sid = r.sid /\ x.head = r.head /\ x.key = r.key /\ x.saw = r.saw /\ x.next = n
    BY <1>1, <1>2, <2>1 DEF Requests, Places
  <2>3. Fits(x) /\ Ordered(x) /\ NewKey(x) /\ ~Used(x) /\ x.head < fresh
    BY <1>1, <1>2, <2>2 DEF Fits, Ordered, NewKey, Used, Shows, Made
  <2>4. Informed(x)
    BY <1>1, <1>2, <2>1, <2>2 DEF Informed
  <2>5. req' = [req EXCEPT ![q] = x]
    BY <1>5 DEF ReadSettings, Goto
  <2> QED
    BY <1>2, <1>3, <2>2, <2>3, <2>4, <2>5, ReadOnly
<1> QED
  BY <1>4, <1>5

LEMMA ReadResultOK ==
  ASSUME IInv, NEW q \in Reqs, ReadResult(q)
  PROVE  IInv'
<1> PICK r : r = req[q]
  OBVIOUS
<1>1. r \in Requests /\ Fits(r) /\ r.pc = "dto" /\ Made(r)
  BY AtFacts DEF ReadResult
<1>2. r.op \in {"patch", "put"}
  BY <1>1 DEF Fits, Requests, Operations
<1> PICK y : y = IF r.op = "patch" THEN settings ELSE [value |-> domains, version |-> 0]
  OBVIOUS
<1>3. y \in Settings
  BY DEF IInv, BaseInv, Settings
<1> PICK x : x = [r EXCEPT !.pc = "head", !.result = y]
  OBVIOUS
<1>4. /\ x \in Requests /\ x.op = r.op /\ x.pc = "head" /\ x.proof = r.proof
      /\ x.sid = r.sid /\ x.head = r.head /\ x.key = r.key /\ x.saw = r.saw
      /\ x.rows = r.rows
  BY <1>1, <1>3 DEF Requests, Places
<1>5. Fits(x) /\ Ordered(x) /\ NewKey(x) /\ ~Used(x) /\ x.head < fresh /\ Informed(x)
  <2>1. r.rows > 0
    BY <1>1, <1>2 DEF Fits
  <2> QED
    BY <1>1, <1>2, <1>4, <2>1 DEF Fits, Ordered, NewKey, Used, Shows, Made, Informed
<1>6. req' = [req EXCEPT ![q] = x] /\ ~Storing(r)
  BY <1>1 DEF ReadResult, Goto, Storing
<1>7. UNCHANGED <<now, desk, audit, factor, sessions, address, changes, fresh, proofs,
                  cron, left, history>>
  BY DEF ReadResult
<1> QED
  BY <1>4, <1>5, <1>6, <1>7, ReadOnly

(* A request goes on to another place with what it has.                    *)
LEMMA Onward ==
  ASSUME NEW r \in Requests, NEW p \in Places
  PROVE  LET x == [r EXCEPT !.pc = p]
         IN  /\ x \in Requests /\ x.pc = p /\ x.op = r.op /\ x.key = r.key /\ x.saw = r.saw
             /\ x.proof = r.proof /\ x.sid = r.sid /\ x.head = r.head /\ x.at = r.at
             /\ x.next = r.next /\ x.rows = r.rows /\ x.result = r.result
BY DEF Requests

LEMMA VerifyNewOK ==
  ASSUME IInv, NEW q \in Reqs, VerifyNew(q)
  PROVE  IInv'
<1> PICK r : r = req[q]
  OBVIOUS
<1>1. r \in Requests /\ Fits(r) /\ r.pc = "verify" /\ Made(r)
  BY AtFacts DEF VerifyNew
<1>2. r.op \in {"setup", "add"}
  BY <1>1 DEF Fits, Requests, Operations
<1>3. UNCHANGED <<now, desk, audit, factor, sessions, address, changes, fresh, proofs,
                  cron, left, history>> /\ ~Storing(r)
  BY <1>1 DEF VerifyNew, Storing
<1>4. CASE req' = [req EXCEPT ![q] = NoRequest]
  BY <1>3, <1>4, ReadOnly, NoRequestFacts
<1>5. CASE Passkey(r.proof.id) = {} /\ Step(q, AfterVerify(r.op))
  <2> PICK p : p = AfterVerify(r.op)
    OBVIOUS
  <2>1. p \in Places /\ p \in {"burn", "store"} /\ (r.op = "add" => p = "store")
    BY DEF AfterVerify, Places
  <2> PICK x : x = [r EXCEPT !.pc = p]
    OBVIOUS
  <2>2. /\ x \in Requests /\ x.pc = p /\ x.op = r.op /\ x.key = r.key /\ x.saw = r.saw
        /\ x.proof = r.proof /\ x.sid = r.sid /\ x.head = r.head /\ x.rows = r.rows
    BY <1>1, <2>1, Onward
  <2>3. Fits(x) /\ Ordered(x) /\ NewKey(x) /\ Used(r) /\ x.head < fresh /\ Informed(x)
    BY <1>1, <1>2, <1>5, <2>1, <2>2 DEF Fits, Ordered, NewKey, Used, Shows, Made, Informed
  <2>4. req' = [req EXCEPT ![q] = x] /\ x.pc # "codes"
    BY <1>5, <2>1, <2>2 DEF Step, Goto
  <2> QED
    BY <1>3, <2>2, <2>3, <2>4, ReadOnly
<1> QED
  BY <1>4, <1>5 DEF VerifyNew, Done, Goto

LEMMA CountPasskeysOK ==
  ASSUME IInv, NEW q \in Reqs, CountPasskeys(q)
  PROVE  IInv'
<1> PICK r : r = req[q]
  OBVIOUS
<1>1. r \in Requests /\ Fits(r) /\ r.pc = "count" /\ Made(r)
  BY AtFacts DEF CountPasskeys
<1>2. r.op = "add"
  BY <1>1 DEF Fits, Requests, Operations
<1>3. UNCHANGED <<now, desk, audit, factor, sessions, address, changes, fresh, proofs,
                  cron, left, history>> /\ ~Storing(r)
  BY <1>1 DEF CountPasskeys, Storing
<1>4. CASE req' = [req EXCEPT ![q] = NoRequest]
  BY <1>3, <1>4, ReadOnly, NoRequestFacts
<1>5. CASE UnusedCodes = {} /\ Step(q, "codes")
  <2> PICK x : x = [r EXCEPT !.pc = "codes"]
    OBVIOUS
  <2>1. "codes" \in Places
    BY DEF Places
  <2>2. /\ x \in Requests /\ x.pc = "codes" /\ x.op = r.op /\ x.key = r.key /\ x.saw = r.saw
        /\ x.proof = r.proof /\ x.sid = r.sid /\ x.head = r.head /\ x.rows = r.rows
    BY <1>1, <2>1, Onward
  <2>3. Fits(x) /\ Ordered(x) /\ NewKey(x) /\ Used(r) /\ x.head < fresh /\ Informed(x)
    BY <1>1, <1>2, <2>2 DEF Fits, Ordered, NewKey, Used, Shows, Made, Informed
  <2>4. req' = [req EXCEPT ![q] = x]
    BY <1>5, <2>2 DEF Step, Goto
  <2> QED
    BY <1>3, <1>5, <2>2, <2>3, <2>4, ReadOnly
<1> QED
  BY <1>4, <1>5 DEF CountPasskeys, NeedsCodes, Done, Goto

LEMMA FindPasskeyOK ==
  ASSUME IInv, NEW q \in Reqs, FindPasskey(q)
  PROVE  IInv'
<1> PICK r : r = req[q]
  OBVIOUS
<1>1. r \in Requests /\ Fits(r) /\ r.pc = "passkey" /\ Made(r)
  BY AtFacts DEF FindPasskey
<1>2. r.op = "login"
  BY <1>1 DEF Fits, Requests, Operations
<1>3. UNCHANGED <<now, desk, audit, factor, sessions, address, changes, fresh, proofs,
                  cron, left, history>> /\ ~Storing(r)
  BY <1>1 DEF FindPasskey, Storing
<1>4. CASE req' = [req EXCEPT ![q] = NoRequest]
  BY <1>3, <1>4, ReadOnly, NoRequestFacts
<1>5. ASSUME NEW p \in Passkey(r.proof.id),
             req' = [req EXCEPT ![q] = [r EXCEPT !.pc = "counter", !.next = p.count]]
      PROVE  IInv'
  <2> PICK x : x = [r EXCEPT !.pc = "counter", !.next = p.count]
    OBVIOUS
  <2>1. p.count \in Nat
    BY DEF Passkey, IInv, FactorInv
  <2>2. /\ x \in Requests /\ x.pc = "counter" /\ x.op = r.op /\ x.key = r.key /\ x.saw = r.saw
        /\ x.proof = r.proof /\ x.sid = r.sid /\ x.head = r.head /\ x.rows = r.rows
    BY <1>1, <2>1 DEF Requests, Places
  <2>3. Fits(x) /\ Ordered(x) /\ NewKey(x) /\ Used(r) /\ x.head < fresh /\ Informed(x)
    BY <1>1, <1>2, <2>2 DEF Fits, Ordered, NewKey, Used, Shows, Made, Informed
  <2>4. req' = [req EXCEPT ![q] = x] /\ x.pc # "codes"
    BY <1>5, <2>2
  <2> QED
    BY <1>3, <2>2, <2>3, <2>4, ReadOnly
<1> QED
  BY <1>4, <1>5 DEF FindPasskey, Done, Goto
-----------------------------------------------------------------------------
(* The audit chain.                                                        *)

(* A row that is appended comes after all there are.                       *)
LEMMA ChainGrows ==
  ASSUME BaseInv, AuditInv, fresh' = fresh + 1, NEW r \in Requests, Ordered(r),
         r.pc = "insert", r.head < fresh, HeadId = r.head,
         NEW row, row = [id |-> fresh, at |-> r.at, key |-> r.key, prev |-> r.head,
                         result |-> r.result],
         audit' = audit \cup {row}
  PROVE  /\ AuditInv'
         /\ \A s \in audit : s.at < row.at
<1>1. fresh \in Nat /\ fresh > 0 /\ fresh' \in Nat
  BY DEF BaseInv
<1>2. row \in Row' /\ row.at \in Nat /\ row.id = fresh /\ row.prev = r.head /\ row.at = r.at
  BY <1>1 DEF Row, Requests, Ids
<1>3. audit \subseteq Row' /\ \A s \in audit : s.at \in Nat /\ s.id \in Nat /\ s.id < fresh
  <2>1. 1 .. (fresh - 1) \subseteq 1 .. (fresh' - 1) /\ Ids \subseteq Ids'
    BY <1>1, Wider DEF Ids
  <2>2. audit \subseteq Row'
    BY <2>1 DEF AuditInv, Row
  <2> QED
    BY <1>1, <2>2 DEF AuditInv, Row
<1>4. /\ \A s \in audit : s.at < row.at
      /\ audit # {} => \E h \in audit : h.id = r.head /\ \A t \in audit : t.at <= h.at
  <2>1. CASE audit = {}
    BY <2>1
  <2>2. CASE audit # {}
    <3>1. PICK h \in audit : HeadId = h.id /\ \A s \in audit : s.at <= h.at
      BY <2>2, LatestFacts
    <3>2. h.at < row.at /\ h.id = r.head
      BY <1>2, <3>1 DEF Ordered
    <3>3. \A s \in audit : s.at < row.at
      BY <1>2, <1>3, <3>1, <3>2
    <3> QED
      BY <3>1, <3>2, <3>3
  <2> QED
    BY <2>1, <2>2
<1>5. \A s, t \in audit' : s.id = t.id \/ s.at = t.at => s = t
  <2>1. \A s \in audit : s.id # row.id /\ s.at # row.at
    BY <1>1, <1>2, <1>3, <1>4
  <2> QED
    BY <2>1 DEF AuditInv
<1>6. \E h \in audit' : \A s \in audit' : s.at <= h.at
  BY <1>2, <1>3, <1>4
<1>7. \A s, t \in audit' : Before(t, s) <=> t.at < s.at
  <2> TAKE s, t \in audit'
  <2>1. s.at \in Nat /\ t.at \in Nat /\ s.id \in Nat /\ t.id \in Nat
    BY <1>1, <1>2, <1>3
  <2>2. s.at = t.at => s = t
    BY <1>5
  <2> QED
    BY <2>1, <2>2 DEF Before
<1>8. ChainUnbroken'
  <2> SUFFICES ASSUME NEW s \in audit', NEW u \in audit', Before(u, s)
               PROVE  \E h \in {v \in audit' : Before(v, s)} :
                        s.prev = h.id /\ \A t \in {v \in audit' : Before(v, s)} : ~Before(h, t)
    BY DEF ChainUnbroken
  <2>1. CASE s = row
    <3>1. u \in audit
      BY <1>2, <1>7, <2>1
    <3>2. PICK h \in audit : h.id = r.head /\ \A t \in audit : t.at <= h.at
      BY <1>4, <3>1
    <3>3. Before(h, s)
      BY <1>4, <1>7, <2>1, <3>2
    <3>4. \A t \in audit' : Before(t, s) => ~Before(h, t)
      <4> SUFFICES ASSUME NEW t \in audit', Before(t, s) PROVE ~(h.at < t.at)
        BY <1>7, <3>2
      <4>1. t \in audit
        BY <1>2, <1>7, <2>1
      <4> QED
        BY <1>3, <3>2, <4>1
    <3> QED
      BY <1>2, <2>1, <3>2, <3>3, <3>4
  <2>2. CASE s # row
    <3>1. s \in audit
      BY <2>2
    <3>2. \A v \in audit' : Before(v, s) => v \in audit
      <4> SUFFICES ~Before(row, s)
        OBVIOUS
      <4> QED
        BY <1>2, <1>3, <1>4, <1>7, <3>1
    <3>3. PICK h \in {v \in audit : Before(v, s)} :
             s.prev = h.id /\ \A t \in {v \in audit : Before(v, s)} : ~Before(h, t)
      BY <3>1, <3>2 DEF AuditInv, ChainUnbroken
    <3> QED
      BY <3>2, <3>3
  <2> QED
    BY <2>1, <2>2
<1> QED
  BY <1>2, <1>3, <1>4, <1>5, <1>6, <1>8 DEF AuditInv

(* append with a row that is the next.                                     *)
LEMMA Appends ==
  ASSUME IInv, NEW q \in Reqs, InsertRow(q), NEW r, r = req[q],
         HeadId = r.head, Seen(r.key) = {},
         audit' = audit \cup {[id |-> fresh, at |-> r.at, key |-> r.key,
                               prev |-> r.head, result |-> r.result]},
         fresh' = fresh + 1,
         IF AfterRows(r) = "end" THEN Done(q)
         ELSE Goto(q, [r EXCEPT !.pc = AfterRows(r), !.rows = @ - 1, !.tries = 0]),
         IF r.key # None THEN Answer(r.key, r.result) ELSE UNCHANGED answers
  PROVE  IInv'
<1>1. r \in Requests /\ Fits(r) /\ r.pc = "insert" /\ Made(r) /\ Ordered(r) /\ UsedUp(r)
  BY AtFacts DEF InsertRow
<1>2. /\ UNCHANGED <<now, desk, settings, domains, factor, passkeys, setupUsed, codes,
                     challenges, sessions, address, changes, proofs, cron, left, grants,
                     mails, clean>>
      /\ fresh \in Nat /\ fresh > 0 /\ Grows
  BY DEF InsertRow, desk, factor, IInv, BaseInv, Grows
<1>3. Good' = Good /\ UnusedCodes' = UnusedCodes /\ Granted' = Granted /\ ~Storing(r)
  BY <1>1, <1>2 DEF Good, UnusedCodes, Storing, Granted
<1> PICK row : row = [id |-> fresh, at |-> r.at, key |-> r.key, prev |-> r.head,
                      result |-> r.result]
  OBVIOUS
<1>4. /\ audit' = audit \cup {row} /\ row.id = fresh /\ row.key = r.key
      /\ row.result = r.result
  OBVIOUS
<1>5. AuditInv' /\ \A s \in audit : s.at < row.at
  BY <1>1, <1>4, ChainGrows DEF IInv, Made
<1>6. PICK x : /\ req' = [req EXCEPT ![q] = x]
               /\ \/ x = NoRequest
                  \/ /\ AfterRows(r) # "end"
                     /\ x = [r EXCEPT !.pc = AfterRows(r), !.rows = @ - 1, !.tries = 0]
  BY DEF Done, Goto
<1>7. \A o : Shape(o) /\ Holds(o) => Holds(o)'
  <2> SUFFICES ASSUME NEW o, Shape(o), Holds(o), o # NoRequest PROVE Holds(o)'
    BY DEF Holds
  <2>1. o \in Requests /\ Fits(o) /\ Ordered(o) /\ Informed(o) /\ NewKey(o) /\ Made(o)
        /\ UsedUp(o)
    BY DEF Shape, Holds
  <2>2. Ordered(o)'
    <3>1. o.head # row.id
      BY <1>2, <1>4, <2>1 DEF Made, Requests
    <3> QED
      BY <1>4, <2>1, <3>1 DEF Ordered
  <2>3. Informed(o)' /\ NewKey(o)' /\ UsedUp(o)'
    BY <1>2, <1>3, <2>1 DEF Informed, NewKey, Passkey, UsedUp
  <2>4. Made(o)'
    <3>1. o.head \in Nat /\ o.sid \in Nat
      BY <2>1 DEF Requests
    <3>2. o.op \in {"setup", "add", "login"} => o.proof.id \in Nat /\ o.proof.challenge \in Nat
      BY <2>1 DEF Fits, Proof
    <3>3. Shows(o) => Evidence(o)[1] \in Nat
      BY <2>1, <3>2 DEF Fits, Evidence, Shows
    <3> QED
      BY <1>2, <2>1, <3>1, <3>2, <3>3 DEF Made
  <2> QED
    BY <2>2, <2>3, <2>4 DEF Holds
<1>8. Shape(x) /\ Holds(x) /\ x.op \in {r.op, "none"} /\ (Used(x) => Evidence(x) = Evidence(r))
      /\ (x.op = "none" \/ x.pc # "codes")
  <2>1. CASE x = NoRequest
    BY <2>1, NoRequestFacts
  <2>2. CASE x # NoRequest
    <3> PICK p : p = AfterRows(r)
      OBVIOUS
    <3> PICK n : n = r.rows - 1
      OBVIOUS
    <3>1. /\ p \in {"head", "issue", "count"} /\ n \in 0 .. 2 /\ p \in Places
          /\ p = "head" => n > 0
          /\ p = "issue" => r.op \in {"setup", "login", "recovery"}
          /\ p = "count" => r.op = "add"
      <4>1. r.rows \in 0 .. 2 /\ r.rows > 0
        BY <1>1 DEF Requests, Fits
      <4>2. p = "head" => r.rows > 1
        BY DEF AfterRows
      <4>3. /\ p \in {"head", "issue", "count"}
            /\ p = "issue" => r.op \in {"setup", "login", "recovery"}
            /\ p = "count" => r.op = "add"
        BY <1>6, <2>2 DEF AfterRows
      <4> QED
        BY <4>1, <4>2, <4>3 DEF Places
    <3>2. x = [r EXCEPT !.pc = p, !.rows = n, !.tries = 0]
      BY <1>6, <2>2
    <3>3. /\ x \in Requests /\ x.pc = p /\ x.op = r.op /\ x.key = r.key /\ x.saw = r.saw
          /\ x.proof = r.proof /\ x.sid = r.sid /\ x.head = r.head /\ x.rows = n
      <4>1. 0 \in 0 .. (AppendRetries - 1)
        BY AdminAssumption
      <4> QED
        BY <1>1, <3>1, <3>2, <4>1 DEF Requests
    <3>4. Fits(x)
      BY <1>1, <3>1, <3>3 DEF Fits
    <3>5. Ordered(x) /\ NewKey(x) /\ Informed(x)
      BY <3>1, <3>3 DEF Ordered, NewKey, Informed
    <3>6. Evidence(x) = Evidence(r) /\ Shows(x) = Shows(r) /\ (Used(x) => Used(r))
      BY <1>1, <3>3 DEF Evidence, Shows, Used
    <3>7. Made(x) /\ UsedUp(x)
      BY <1>1, <3>3, <3>6 DEF Made, UsedUp
    <3> QED
      BY <3>1, <3>3, <3>4, <3>5, <3>6, <3>7 DEF Shape, Holds
  <2> QED
    BY <2>1, <2>2
<1>9. ReqInv'
  <2>1. ~Used(x) \/ (Used(r) /\ Evidence(x) = Evidence(r))
    <3>1. Used(x) => x # NoRequest
      BY NoRequestFacts
    <3> QED
      BY <1>1, <1>6, <1>8, <3>1, NoRequestFacts DEF Used, Shows
  <2>2. \A p \in Reqs : \A o : p # q /\ o = req[p] => Holds(o)'
    BY <1>7 DEF IInv, ReqInv
  <2>3. Used(x) => \A p \in Reqs : p # q /\ Used(req[p]) => Evidence(req[p]) # Evidence(x)
    BY <2>1 DEF IInv, ReqInv
  <2> QED
    BY <1>6, <1>7, <1>8, <2>2, <2>3, OneRequest DEF IInv
<1>10. KeyInv'
  <2>1. \A s \in audit : r.key # None => s.key # r.key
    BY DEF Seen
  <2>2. \A s, t \in audit' : s.key # None /\ s.key = t.key => s = t
    BY <1>4, <2>1 DEF IInv, KeyInv
  <2>3. \A a \in answers' : /\ a[1] \in Keys /\ a = <<a[1], a[2]>>
                            /\ \E t \in audit' : t.key = a[1] /\ t.result = a[2]
    <3>1. CASE r.key = None
      BY <1>4, <3>1 DEF IInv, KeyInv
    <3>2. CASE r.key # None
      <4>1. r.key \in Keys /\ answers' = answers \cup {<<r.key, r.result>>}
        BY <1>1, <3>2 DEF Requests, Answer
      <4> QED
        BY <1>4, <4>1 DEF IInv, KeyInv
    <3> QED
      BY <3>1, <3>2
  <2>4. /\ \A p \in Reqs : req'[p].op \in {req[p].op, "none"}
        /\ req[q].op \notin {"patch", "put"} => r.key = None
    BY <1>1, <1>6, <1>8 DEF IInv, ReqInv, Fits
  <2>5. left.patch = 0 /\ left.put = 0 /\ (\A p \in Reqs : req[p].op \notin {"patch", "put"})
        /\ (\A s \in audit : s.key = None)
        => (\A p \in Reqs : req'[p].op \notin {"patch", "put"}) /\ \A s \in audit' : s.key = None
    BY <1>4, <2>4
  <2> QED
    BY <1>2, <2>2, <2>3, <2>5 DEF IInv, KeyInv
<1> QED
  BY <1>2, <1>3, <1>5, <1>6, <1>8, <1>9, <1>10, Leaves DEF IInv
-----------------------------------------------------------------------------
(* Steps of a request that write.                                          *)

(* The other requests, where tables change that they do not look at.       *)
LEMMA MovesOn ==
  ASSUME IInv, NEW q \in Reqs, NEW x, req' = [req EXCEPT ![q] = x], Grows,
         Shape(x), Holds(x)',
         \A r : Shape(r) /\ Holds(r) => Holds(r)',
         ~Used(x) \/ (Used(req[q]) /\ Evidence(x) = Evidence(req[q]))
  PROVE  ReqInv'
<1>1. Used(x) => \A p \in Reqs : p # q /\ Used(req[p]) => Evidence(req[p]) # Evidence(x)
  BY DEF IInv, ReqInv
<1>2. \A p \in Reqs : \A r : p # q /\ r = req[p] => Holds(r)'
  BY DEF IInv, ReqInv
<1> QED
  BY <1>1, <1>2, OneRequest DEF IInv

LEMMA InsertRowOK ==
  ASSUME IInv, NEW q \in Reqs, InsertRow(q)
  PROVE  IInv'
<1> PICK r : r = req[q]
  OBVIOUS
<1>1. r \in Requests /\ Fits(r) /\ r.pc = "insert" /\ Made(r) /\ Ordered(r) /\ UsedUp(r)
  BY AtFacts DEF InsertRow
<1>2. /\ UNCHANGED <<now, desk, settings, domains, factor, passkeys, setupUsed, codes,
                     challenges, sessions, address, changes, proofs, cron, left, grants,
                     mails, clean>>
      /\ fresh \in Nat /\ fresh > 0
  BY DEF InsertRow, desk, factor, IInv, BaseInv
<1>3. Good' = Good /\ UnusedCodes' = UnusedCodes /\ ~Storing(r)
  BY <1>1, <1>2 DEF Good, UnusedCodes, Storing
<1>4. CASE req' = [req EXCEPT ![q] = NoRequest] /\ UNCHANGED <<audit, fresh, answers>>
  BY <1>2, <1>3, <1>4, ReadOnly, NoRequestFacts DEF history, factor
<1>5. CASE /\ MayRetry(r.tries) /\ UNCHANGED <<audit, fresh, answers>>
           /\ req' = [req EXCEPT ![q] = [r EXCEPT !.pc = "head", !.tries = @ + 1]]
  <2> PICK x : x = [r EXCEPT !.pc = "head", !.tries = @ + 1]
    OBVIOUS
  <2>1. r.tries + 1 \in 0 .. (AppendRetries - 1)
    BY <1>1, <1>5, AdminAssumption DEF MayRetry, Requests
  <2>2. /\ x \in Requests /\ x.pc = "head" /\ x.op = r.op /\ x.key = r.key /\ x.saw = r.saw
        /\ x.proof = r.proof /\ x.sid = r.sid /\ x.head = r.head /\ x.rows = r.rows
    BY <1>1, <2>1 DEF Requests, Places
  <2>3. Fits(x) /\ Ordered(x) /\ NewKey(x) /\ (Used(x) => Used(r)) /\ x.head < fresh /\ Informed(x)
    <3>1. Fits(x)
      BY <1>1, <2>2 DEF Fits
    <3> QED
      BY <1>1, <2>2, <3>1 DEF Ordered, NewKey, Used, Shows, Made, Informed
  <2>4. req' = [req EXCEPT ![q] = x] /\ x.pc # "codes"
    BY <1>5, <2>2
  <2> QED
    <3>1. UNCHANGED <<now, desk, audit, factor, sessions, address, changes, fresh, proofs,
                      cron, left, history>>
      BY <1>2, <1>5 DEF history
    <3> QED
      BY <1>3, <2>2, <2>3, <2>4, <3>1, ReadOnly
<1>6. CASE /\ HeadId = r.head /\ req' = [req EXCEPT ![q] = NoRequest]
           /\ \E s \in Seen(r.key) : Answer(r.key, Outcome(r.result, s.result))
           /\ UNCHANGED <<audit, fresh>>
  <2>2. PICK s \in audit : /\ r.key # None /\ s.key = r.key
                           /\ answers' = answers \cup {<<r.key, s.result>>}
    BY <1>6 DEF Seen, Answer, Outcome
  <2>3. Grows
    BY <1>2, <1>6 DEF Grows
  <2>4. ReqInv'
    <3>1. \A o : Shape(o) /\ Holds(o) => Holds(o)'
      BY <1>2, <1>6, <2>3, HoldsSame DEF IInv, Grows
    <3> QED
      BY <1>6, <2>3, <3>1, MovesOn, NoRequestFacts
  <2>5. KeyInv'
    <3>1. r.key \in Keys
      BY <1>1, <2>2 DEF Requests
    <3>2. /\ \A o, t \in audit' : o.key # None /\ o.key = t.key => o = t
          /\ \A p \in Reqs : req'[p] = IF p = q THEN NoRequest ELSE req[p]
      BY <1>6 DEF IInv, KeyInv, ReqInv
    <3>3. \A a \in answers' : /\ a[1] \in Keys /\ a = <<a[1], a[2]>>
                              /\ \E t \in audit' : t.key = a[1] /\ t.result = a[2]
      BY <1>6, <2>2, <3>1 DEF IInv, KeyInv
    <3> QED
      BY <1>2, <1>6, <3>2, <3>3, NoRequestFacts DEF IInv, KeyInv
  <2> QED
    BY <1>2, <1>3, <1>6, <2>3, <2>4, <2>5, Leaves, NoRequestFacts DEF IInv
<1>7. CASE /\ HeadId = r.head /\ Seen(r.key) = {}
           /\ audit' = audit \cup {[id |-> fresh, at |-> r.at, key |-> r.key,
                                    prev |-> r.head, result |-> r.result]}
           /\ fresh' = fresh + 1
           /\ IF AfterRows(r) = "end" THEN Done(q)
              ELSE Goto(q, [r EXCEPT !.pc = AfterRows(r), !.rows = @ - 1, !.tries = 0])
           /\ IF r.key # None THEN Answer(r.key, r.result) ELSE UNCHANGED answers
  BY <1>7, Appends DEF InsertRow
<1>8. HeadId # r.head \/ (HeadId = r.head /\ Seen(r.key) # {})
      \/ (HeadId = r.head /\ Seen(r.key) = {})
  OBVIOUS
<1> QED
  BY <1>4, <1>5, <1>6, <1>7, <1>8 DEF InsertRow, Done, Goto

LEMMA FindByKeyOK ==
  ASSUME IInv, NEW q \in Reqs, FindByKey(q)
  PROVE  IInv'
<1> PICK r : r = req[q]
  OBVIOUS
<1>1. r \in Requests /\ Fits(r) /\ r.pc = "find" /\ Made(r) /\ Informed(r)
  BY AtFacts DEF FindByKey
<1>2. /\ UNCHANGED <<now, desk, settings, domains, audit, factor, passkeys, setupUsed, codes,
                     challenges, sessions, address, changes, fresh, proofs, cron, left, grants,
                     mails, clean>>
      /\ fresh \in Nat /\ Grows /\ r.op \in {"patch", "put"} /\ r.key \in Keys
  BY <1>1 DEF FindByKey, desk, factor, IInv, BaseInv, Grows, Fits, Requests, Operations
<1>3. Good' = Good /\ UnusedCodes' = UnusedCodes /\ ~Storing(r)
  BY <1>1, <1>2 DEF Good, UnusedCodes, Storing
<1>4. CASE Seen(r.key) # {}
  <2>1. req' = [req EXCEPT ![q] = NoRequest]
    BY <1>4 DEF FindByKey, Done, Goto
  <2>2. PICK s \in audit : s.key = r.key /\ answers' = answers \cup {<<r.key, s.result>>}
    BY <1>4 DEF FindByKey, Seen, Answer
  <2>3. ReqInv'
    <3>1. \A o : Shape(o) /\ Holds(o) => Holds(o)'
      BY <1>2, HoldsSame DEF IInv, Grows
    <3> QED
      BY <1>2, <2>1, <3>1, MovesOn, NoRequestFacts
  <2>4. KeyInv'
    <3>1. /\ \A o, t \in audit' : o.key # None /\ o.key = t.key => o = t
          /\ \A p \in Reqs : req'[p] = IF p = q THEN NoRequest ELSE req[p]
      BY <1>2, <2>1 DEF IInv, KeyInv, ReqInv
    <3>2. \A a \in answers' : /\ a[1] \in Keys /\ a = <<a[1], a[2]>>
                              /\ \E t \in audit' : t.key = a[1] /\ t.result = a[2]
      BY <1>2, <2>2 DEF IInv, KeyInv
    <3> QED
      BY <1>2, <3>1, <3>2, NoRequestFacts DEF IInv, KeyInv
  <2> QED
    BY <1>2, <1>3, <2>1, <2>3, <2>4, Leaves, NoRequestFacts DEF IInv
<1>5. CASE Seen(r.key) = {}
  <2> PICK p : p = IF r.op = "patch" THEN "read" ELSE "replace"
    OBVIOUS
  <2> PICK x : x = [r EXCEPT !.pc = p]
    OBVIOUS
  <2>1. p \in Places /\ (r.op = "patch" => p = "read") /\ (r.op # "patch" => p = "replace")
    BY DEF Places
  <2>2. /\ x \in Requests /\ x.pc = p /\ x.op = r.op /\ x.key = r.key /\ x.saw = r.saw
        /\ x.proof = r.proof /\ x.sid = r.sid /\ x.head = r.head /\ x.rows = r.rows
    BY <1>1, <2>1, Onward
  <2>3. Fits(x) /\ Ordered(x) /\ NewKey(x) /\ ~Used(x) /\ x.head < fresh /\ Informed(x)
    BY <1>1, <1>2, <2>1, <2>2 DEF Fits, Ordered, NewKey, Used, Shows, Made, Informed
  <2>4. req' = [req EXCEPT ![q] = x] /\ UNCHANGED answers /\ x.pc # "codes"
    BY <1>5, <2>1, <2>2 DEF FindByKey, Step, Goto
  <2>5. UNCHANGED <<now, desk, audit, factor, sessions, address, changes, fresh, proofs,
                    cron, left, history>>
    BY <1>2, <2>4 DEF history
  <2> QED
    BY <1>3, <2>2, <2>3, <2>4, <2>5, ReadOnly
<1> QED
  BY <1>4, <1>5

LEMMA PatchRowOK ==
  ASSUME IInv, NEW q \in Reqs, PatchRow(q)
  PROVE  IInv'
<1> PICK r : r = req[q]
  OBVIOUS
<1>1. r \in Requests /\ Fits(r) /\ r.pc = "patch" /\ Made(r) /\ Informed(r)
  BY AtFacts DEF PatchRow
<1>2. /\ UNCHANGED <<now, domains, audit, factor, passkeys, setupUsed, codes,
                     challenges, sessions, address, changes, fresh, proofs, cron, left, history,
                     answers, grants, mails, clean>>
      /\ fresh \in Nat /\ Grows /\ r.op = "patch" /\ r.key \in Keys /\ r.saw \in Settings
  BY <1>1 DEF PatchRow, history, factor, IInv, BaseInv, Grows, Fits, Requests, Operations
<1>3. Good' = Good /\ UnusedCodes' = UnusedCodes /\ Granted' = Granted /\ ~Storing(r)
  BY <1>1, <1>2 DEF Good, UnusedCodes, Storing, Granted
<1>4. CASE settings.version # r.saw.version
  <2>1. req' = [req EXCEPT ![q] = NoRequest] /\ UNCHANGED settings
    BY <1>4 DEF PatchRow, Done, Goto
  <2>2. UNCHANGED <<now, desk, audit, factor, sessions, address, changes, fresh, proofs,
                    cron, left, history>>
    BY <1>2, <2>1 DEF desk
  <2> QED
    BY <1>3, <2>1, <2>2, ReadOnly, NoRequestFacts
<1>5. CASE settings.version = r.saw.version
  <2>1. /\ settings' = [value |-> r.key, version |-> r.next]
        /\ req' = [req EXCEPT ![q] = [r EXCEPT !.pc = "dto"]]
    BY <1>5 DEF PatchRow, Step, Goto
  <2> PICK x : x = [r EXCEPT !.pc = "dto"]
    OBVIOUS
  <2>2. settings'.version = r.next /\ r.next > settings.version /\ r.next \in Nat
        /\ settings.version \in Nat /\ settings' \in Settings
    <3>1. r.next \in Nat /\ settings \in Settings
      BY <1>1 DEF Requests, IInv, BaseInv
    <3> QED
      BY <1>1, <1>2, <1>5, <2>1, <3>1 DEF Informed, Settings
  <2>3. /\ x \in Requests /\ x.pc = "dto" /\ x.op = r.op /\ x.key = r.key /\ x.saw = r.saw
        /\ x.proof = r.proof /\ x.sid = r.sid /\ x.head = r.head /\ x.rows = r.rows
    <3>1. "dto" \in Places
      BY DEF Places
    <3> QED
      BY <1>1, <3>1, Onward
  <2>4. Fits(x) /\ Ordered(x)' /\ NewKey(x)' /\ ~Used(x) /\ Made(x)' /\ Informed(x)'
    <3>1. ~Shows(x) /\ ~Shows(r)
      BY <1>2, <2>3 DEF Shows
    <3> QED
      BY <1>1, <1>2, <2>3, <3>1 DEF Fits, Ordered, NewKey, Used, Made, Informed
  <2>5. Shape(x) /\ Holds(x)'
    BY <2>3, <2>4 DEF Shape, Holds, UsedUp
  <2>6. \A o : Shape(o) /\ Holds(o) => Holds(o)'
    <3> SUFFICES ASSUME NEW o, Shape(o), Holds(o), o # NoRequest PROVE Holds(o)'
      BY DEF Holds
    <3>1. o \in Requests /\ Fits(o) /\ Ordered(o) /\ Informed(o) /\ NewKey(o) /\ Made(o)
          /\ UsedUp(o)
      BY DEF Shape, Holds
    <3>2. Informed(o)'
      <4> SUFFICES ASSUME o.op = "patch", o.pc \in {"find", "read", "patch"}
                   PROVE  /\ o.saw.version <= settings'.version
                          /\ o.saw.version # settings'.version
                          /\ o.pc = "patch" => o.next > o.saw.version
        BY DEF Informed
      <4>1. o.saw.version \in Nat
        BY <3>1 DEF Fits, Settings
      <4> QED
        BY <2>2, <3>1, <4>1 DEF Informed
    <3>3. Ordered(o)' /\ NewKey(o)' /\ Made(o)' /\ UsedUp(o)'
      BY <1>2, <1>3, <3>1 DEF Ordered, NewKey, Passkey, Made, UsedUp
    <3> QED
      BY <3>2, <3>3 DEF Holds
  <2>7. ReqInv'
    BY <1>2, <2>1, <2>4, <2>5, <2>6, MovesOn
  <2>8. BaseInv'
    BY <1>2, <2>2 DEF IInv, BaseInv
  <2>9. KeyInv'
    <3>1. \A p \in Reqs : req'[p] = IF p = q THEN x ELSE req[p]
      BY <2>1 DEF IInv, ReqInv
    <3> QED
      BY <1>2, <2>3, <3>1 DEF IInv, KeyInv
  <2>10. AddInv' /\ WayInv'
    <3>1. \A p \in Reqs : req'[p] = IF p = q THEN x ELSE req[p]
      BY <2>1 DEF IInv, ReqInv
    <3>2. \A p \in Reqs : /\ req'[p].op = "add" => req[p].op = "add"
                          /\ At(p, "codes")' => At(p, "codes")
                          /\ Storing(req[p]) => Storing(req'[p])
      BY <1>2, <1>3, <2>3, <3>1 DEF At, Storing
    <3> QED
      BY <1>2, <1>3, <3>2, AddKept, WayKept DEF IInv
  <2> QED
    BY <1>2, <1>3, <2>7, <2>8, <2>9, <2>10, AuditKept, FactorKept, CodesKept, GrantKept,
       ChangeKept, CronKept DEF IInv
<1> QED
  BY <1>4, <1>5

LEMMA ReplaceDomainsOK ==
  ASSUME IInv, NEW q \in Reqs, ReplaceDomains(q)
  PROVE  IInv'
<1> PICK r : r = req[q]
  OBVIOUS
<1>1. r \in Requests /\ Fits(r) /\ r.pc = "replace" /\ Made(r) /\ Informed(r)
  BY AtFacts DEF ReplaceDomains
<1>2. /\ UNCHANGED <<now, settings, audit, factor, passkeys, setupUsed, codes,
                     challenges, sessions, address, changes, fresh, proofs, cron, left, history,
                     answers, grants, mails, clean>>
      /\ fresh \in Nat /\ Grows /\ r.op = "put" /\ r.key \in Keys /\ domains' = r.key
  BY <1>1 DEF ReplaceDomains, history, factor, IInv, BaseInv, Grows, Fits, Requests, Operations
<1>3. Good' = Good /\ UnusedCodes' = UnusedCodes /\ Granted' = Granted /\ ~Storing(r)
  BY <1>1, <1>2 DEF Good, UnusedCodes, Storing, Granted
<1> PICK x : x = [r EXCEPT !.pc = "dto"]
  OBVIOUS
<1>4. /\ x \in Requests /\ x.pc = "dto" /\ x.op = r.op /\ x.key = r.key /\ x.saw = r.saw
      /\ x.proof = r.proof /\ x.sid = r.sid /\ x.head = r.head /\ x.rows = r.rows
  <2>1. "dto" \in Places
    BY DEF Places
  <2> QED
    BY <1>1, <2>1, Onward
<1>5. \A o : Shape(o) /\ Holds(o) => Holds(o)'
  BY <1>2, HoldsSame DEF IInv, Grows
<1>6. Shape(x) /\ Holds(x) /\ ~Used(x)
  <2>1. ~Shows(x) /\ ~Shows(r)
    BY <1>2, <1>4 DEF Shows
  <2>2. Fits(x) /\ Ordered(x) /\ NewKey(x) /\ ~Used(x) /\ Made(x) /\ Informed(x)
    BY <1>1, <1>2, <1>4, <2>1 DEF Fits, Ordered, NewKey, Used, Made, Informed
  <2> QED
    BY <1>4, <2>2 DEF Shape, Holds, UsedUp
<1>7. req' = [req EXCEPT ![q] = x]
  BY DEF ReplaceDomains, Step, Goto
<1>8. ReqInv'
  BY <1>2, <1>5, <1>6, <1>7, MovesOn
<1>9. BaseInv'
  BY <1>2 DEF IInv, BaseInv
<1>10. \A p \in Reqs : req'[p] = IF p = q THEN x ELSE req[p]
  BY <1>7 DEF IInv, ReqInv
<1>11. KeyInv'
  BY <1>2, <1>4, <1>10 DEF IInv, KeyInv
<1>12. AddInv' /\ WayInv'
  <2>1. \A p \in Reqs : /\ req'[p].op = "add" => req[p].op = "add"
                        /\ At(p, "codes")' => At(p, "codes")
                        /\ Storing(req[p]) => Storing(req'[p])
    BY <1>2, <1>3, <1>4, <1>10 DEF At, Storing
  <2> QED
    BY <1>2, <1>3, <2>1, AddKept, WayKept DEF IInv
<1> QED
  BY <1>2, <1>3, <1>8, <1>9, <1>11, <1>12, AuditKept, FactorKept, CodesKept, GrantKept,
     ChangeKept, CronKept DEF IInv
-----------------------------------------------------------------------------
(* Sign-ins and passkeys.                                                  *)

(* The evidence a request shows is a pair or a single number.              *)
LEMMA EvidenceFacts ==
  ASSUME NEW r \in Requests, Fits(r), Shows(r)
  PROVE  IF r.op = "recovery" THEN Evidence(r) \in Nat \X Nat
         ELSE Evidence(r) = <<r.proof.challenge>> /\ r.proof.challenge \in Nat
BY DEF Fits, Shows, Evidence, Proof

LEMMA SinglesDiffer ==
  /\ \A a, b : <<a>> = <<b>> <=> a = b
  /\ \A a, b, c : <<a>> # <<b, c>>
  /\ \A a, b : <<a>>[1] = a /\ <<a, b>>[1] = a
<1>1. \A a, b, c : <<a>> # <<b, c>>
  <2> TAKE a, b, c
  <2>1. Len(<<a>>) = 1 /\ Len(<<b, c>>) = 2
    OBVIOUS
  <2> QED
    BY <2>1
<1> QED
  BY <1>1

LEMMA GoodFacts ==
  /\ \A a : <<a>> \in Good <=> a \in challenges
  /\ \A a, b : <<a, b>> \in Good <=>
       \E c \in codes : ~c.used /\ c.issue = a /\ c.n = b
<1>1. \A a : <<a>> \in Good <=> a \in challenges
  BY SinglesDiffer DEF Good
<1>2. \A a, b, c, d : <<a, b>> = <<c, d>> <=> a = c /\ b = d
  OBVIOUS
<1> QED
  BY <1>1, <1>2, SinglesDiffer DEF Good, UnusedCodes

LEMMA ConsumeChallengeOK ==
  ASSUME IInv, NEW q \in Reqs, ConsumeChallenge(q)
  PROVE  IInv'
<1> PICK r : r = req[q]
  OBVIOUS
<1>1. r \in Requests /\ Fits(r) /\ r.pc = "consume" /\ Made(r)
  BY AtFacts DEF ConsumeChallenge
<1>2. /\ UNCHANGED <<now, desk, settings, domains, audit, passkeys, setupUsed, codes, sessions,
                     address, changes, fresh, proofs, cron, left, history, answers, grants,
                     mails, clean>>
      /\ fresh \in Nat /\ Grows /\ r.op \in {"setup", "add", "login"}
      /\ challenges' = challenges \ {r.proof.challenge}
  BY <1>1 DEF ConsumeChallenge, Spent, desk, history, IInv, BaseInv, Grows, Fits, Requests,
     Operations
<1>3. Good' \subseteq Good /\ UnusedCodes' = UnusedCodes /\ Granted' = Granted /\ ~Storing(r)
  BY <1>1, <1>2 DEF Good, UnusedCodes, Storing, Granted
<1>4. Shows(r) /\ Evidence(r) = <<r.proof.challenge>>
  BY <1>2 DEF Shows, Evidence
<1>5. <<r.proof.challenge>> \notin Good'
  <2>1. (\A a : <<a>> \in Good <=> a \in challenges)'
    BY SinglesDiffer DEF Good
  <2> QED
    BY <1>2, <2>1
<1>6. PICK x : /\ req' = [req EXCEPT ![q] = x]
               /\ \/ x = NoRequest
                  \/ /\ r.proof.challenge \in challenges
                     /\ x = [r EXCEPT !.pc = AfterConsume(r.op)]
  BY DEF ConsumeChallenge, Done, Step, Goto
<1>7. \A o : Shape(o) /\ Holds(o) => Holds(o)'
  <2> SUFFICES ASSUME NEW o, Shape(o), Holds(o), o # NoRequest PROVE Holds(o)'
    BY DEF Holds
  <2> QED
    BY <1>2, <1>3 DEF Holds, Ordered, Informed, NewKey, Passkey, Made, UsedUp
<1>8. /\ Shape(x) /\ Holds(x)' /\ x.op \in {r.op, "none"}
      /\ x.op = "none" \/ x.pc # "codes"
      /\ Used(x) => r.proof.challenge \in challenges /\ Evidence(x) = Evidence(r)
  <2>1. CASE x = NoRequest
    BY <2>1, NoRequestFacts
  <2>2. CASE x # NoRequest
    <3> PICK p : p = AfterConsume(r.op)
      OBVIOUS
    <3>1. p \in Places /\ p = (IF r.op = "login" THEN "passkey" ELSE "verify")
      BY DEF AfterConsume, Places
    <3>2. /\ x \in Requests /\ x.pc = p /\ x.op = r.op /\ x.key = r.key /\ x.saw = r.saw
          /\ x.proof = r.proof /\ x.sid = r.sid /\ x.head = r.head /\ x.rows = r.rows
      <4>1. x = [r EXCEPT !.pc = p]
        BY <1>6, <2>2
      <4> QED
        BY <1>1, <3>1, <4>1, Onward
    <3>3. Fits(x) /\ Evidence(x) = Evidence(r)
      BY <1>1, <1>2, <3>1, <3>2 DEF Fits, Evidence
    <3>4. Evidence(r) \notin Granted
      <4> SUFFICES ASSUME NEW g \in grants, g[1] = Evidence(r) PROVE FALSE
        BY DEF Granted
      <4>1. g[1] \notin Good
        BY DEF IInv, GrantInv
      <4>2. r.proof.challenge \in challenges
        BY <1>6, <2>2
      <4> QED
        BY <1>4, <4>1, <4>2, GoodFacts
    <3>5. Ordered(x)' /\ Informed(x)' /\ NewKey(x)' /\ Made(x)' /\ UsedUp(x)'
      <4>1. Shows(x) = Shows(r)
        BY <3>2 DEF Shows
      <4>2. Made(x)'
        BY <1>1, <1>2, <3>2, <3>3, <4>1 DEF Made
      <4>3. UsedUp(x)'
        BY <1>3, <1>4, <1>5, <3>3, <3>4 DEF UsedUp
      <4> QED
        BY <1>2, <3>1, <3>2, <4>2, <4>3 DEF Ordered, Informed, NewKey
    <3> QED
      BY <1>6, <2>2, <3>1, <3>2, <3>3, <3>5 DEF Shape, Holds
  <2> QED
    BY <2>1, <2>2
<1>9. ReqInv'
  <2>1. Used(x) => \A p \in Reqs : p # q /\ Used(req[p]) => Evidence(req[p]) # Evidence(x)
    <3> SUFFICES ASSUME Used(x), NEW p \in Reqs, Used(req[p]) PROVE Evidence(req[p]) # Evidence(r)
      BY <1>8
    <3>1. Evidence(r) \in Good
      BY <1>4, <1>8, GoodFacts
    <3>2. UsedUp(req[p])
      BY NoRequestFacts DEF IInv, ReqInv, Holds
    <3> QED
      BY <3>1, <3>2 DEF UsedUp
  <2>2. \A p \in Reqs : \A o : p # q /\ o = req[p] => Holds(o)'
    BY <1>7 DEF IInv, ReqInv
  <2> QED
    BY <1>6, <1>8, <2>1, <2>2, OneRequest DEF IInv
<1>10. FactorInv'
  BY <1>2 DEF IInv, FactorInv, Ids
<1> QED
  BY <1>2, <1>3, <1>6, <1>8, <1>9, <1>10, Leaves DEF IInv

LEMMA BurnSetupCodeOK ==
  ASSUME IInv, NEW q \in Reqs, BurnSetupCode(q)
  PROVE  IInv'
<1> PICK r : r = req[q]
  OBVIOUS
<1>1. r \in Requests /\ Fits(r) /\ r.pc = "burn" /\ Made(r) /\ NewKey(r) /\ UsedUp(r)
  BY AtFacts DEF BurnSetupCode
<1>2. /\ UNCHANGED <<now, desk, settings, domains, audit, passkeys, codes, challenges, sessions,
                     address, changes, fresh, proofs, cron, left, history, answers, grants,
                     mails, clean>>
      /\ fresh \in Nat /\ Grows /\ r.op = "setup" /\ setupUsed' = TRUE
  BY <1>1 DEF BurnSetupCode, desk, history, IInv, BaseInv, Grows, Fits, Requests, Operations
<1>3. Good' = Good /\ UnusedCodes' = UnusedCodes /\ Granted' = Granted /\ ~Storing(r)
  BY <1>1, <1>2 DEF Good, UnusedCodes, Storing, Granted
<1>4. PICK x : /\ req' = [req EXCEPT ![q] = x]
               /\ \/ setupUsed /\ x = NoRequest
                  \/ x = [r EXCEPT !.pc = "store"]
  BY DEF BurnSetupCode, Done, Step, Goto
<1>5. /\ Shape(x) /\ Holds(x) /\ x.op \in {r.op, "none"}
      /\ x.op = "none" \/ x.pc # "codes"
      /\ Used(x) => Used(r) /\ Evidence(x) = Evidence(r)
      /\ setupUsed \/ Storing(x)
  <2>1. CASE x = NoRequest
    <3>1. x = [r EXCEPT !.pc = "store"] => x.op = r.op
      BY <1>1 DEF Requests
    <3> QED
      BY <1>2, <1>4, <2>1, <3>1, NoRequestFacts
  <2>2. CASE x # NoRequest
    <3>1. "store" \in Places
      BY DEF Places
    <3>2. /\ x \in Requests /\ x.pc = "store" /\ x.op = r.op /\ x.key = r.key /\ x.saw = r.saw
          /\ x.proof = r.proof /\ x.sid = r.sid /\ x.head = r.head /\ x.rows = r.rows
      <4>1. x = [r EXCEPT !.pc = "store"]
        BY <1>4, <2>2
      <4> QED
        BY <1>1, <3>1, <4>1, Onward
    <3>3. Fits(x) /\ Evidence(x) = Evidence(r) /\ Shows(x) = Shows(r) /\ Used(r) /\ Storing(x)
      BY <1>1, <1>2, <3>2 DEF Fits, Evidence, Shows, Used, Storing
    <3>4. Ordered(x) /\ Informed(x) /\ NewKey(x) /\ Made(x) /\ UsedUp(x)
      BY <1>1, <1>2, <3>2, <3>3 DEF Ordered, Informed, NewKey, Made, UsedUp
    <3> QED
      BY <3>2, <3>3, <3>4 DEF Shape, Holds
  <2> QED
    BY <2>1, <2>2
<1>6. \A o : Shape(o) /\ Holds(o) => Holds(o)'
  BY <1>2, HoldsSame DEF IInv, Grows
<1>7. ReqInv'
  <2>1. ~Used(x) \/ (Used(r) /\ Evidence(x) = Evidence(r))
    BY <1>5
  <2> QED
    BY <1>2, <1>4, <1>5, <1>6, <2>1, MovesOn
<1>8. FactorInv'
  BY <1>2 DEF IInv, FactorInv, Ids
<1>9. WayInv'
  <2>1. \A p \in Reqs : req'[p] = IF p = q THEN x ELSE req[p]
    BY <1>4 DEF IInv, ReqInv
  <2>2. CASE Storing(x)
    BY <1>2, <2>1, <2>2 DEF IInv, WayInv, Storing
  <2>3. CASE setupUsed
    <3>1. UNCHANGED setupUsed
      BY <1>2, <2>3
    <3>2. \A p \in Reqs : Storing(req[p]) => Storing(req'[p])
      BY <1>3, <2>1
    <3> QED
      BY <1>2, <3>1, <3>2, WayKept DEF IInv
  <2> QED
    BY <1>5, <2>2, <2>3
<1> QED
  BY <1>2, <1>3, <1>4, <1>5, <1>7, <1>8, <1>9, Leaves DEF IInv

LEMMA OnePasskey ==
  ASSUME FactorInv, NEW i
  PROVE  /\ Passkey(i) = {} \/ \E p \in passkeys : p.id = i /\ Passkey(i) = {p}
         /\ Passkey(i) = {} <=> \A p \in passkeys : p.id # i
BY DEF FactorInv, Passkey

LEMMA StorePasskeyOK ==
  ASSUME IInv, NEW q \in Reqs, StorePasskey(q)
  PROVE  IInv'
<1> PICK r : r = req[q]
  OBVIOUS
<1>1. r \in Requests /\ Fits(r) /\ r.pc = "store" /\ Made(r) /\ NewKey(r) /\ UsedUp(r)
  BY AtFacts DEF StorePasskey
<1> PICK k : k = [id |-> r.proof.id, count |-> 0]
  OBVIOUS
<1>2. /\ UNCHANGED <<now, desk, settings, domains, audit, setupUsed, codes, challenges, sessions,
                     address, changes, fresh, proofs, cron, left, history, answers, grants,
                     mails, clean>>
      /\ fresh \in Nat /\ Grows /\ r.op \in {"setup", "add"} /\ passkeys' = passkeys \cup {k}
  BY <1>1 DEF StorePasskey, desk, history, IInv, BaseInv, Grows, Fits, Requests, Operations
<1>3. Good' = Good /\ UnusedCodes' = UnusedCodes /\ Granted' = Granted
  BY <1>1, <1>2 DEF Good, UnusedCodes, Granted
<1>4. Used(r) /\ r.proof \in Proof /\ r.proof.id = r.proof.challenge
      /\ Evidence(r) = <<r.proof.challenge>> /\ Passkey(r.proof.id) = {}
      /\ r.proof.id \in Nat /\ r.proof.id < fresh
  BY <1>1, <1>2 DEF Used, Shows, Evidence, Fits, NewKey, Made, Proof
<1> PICK p : p = IF r.sid # 0 THEN "upgrade" ELSE "head"
  OBVIOUS
<1> PICK x : x = [r EXCEPT !.pc = p]
  OBVIOUS
<1>5. req' = [req EXCEPT ![q] = x]
  BY DEF StorePasskey, Step, Goto
<1>6. p \in Places /\ p \in {"upgrade", "head"} /\ (p = "upgrade" => r.op = "add")
  BY <1>1, <1>2 DEF Places, Fits
<1>7. /\ x \in Requests /\ x.pc = p /\ x.op = r.op /\ x.key = r.key /\ x.saw = r.saw
      /\ x.proof = r.proof /\ x.sid = r.sid /\ x.head = r.head /\ x.rows = r.rows
  BY <1>1, <1>6, Onward
<1>8. Shape(x) /\ Holds(x)' /\ Evidence(x) = Evidence(r)
  <2>1. Fits(x) /\ Evidence(x) = Evidence(r) /\ Shows(x) = Shows(r)
    BY <1>1, <1>2, <1>6, <1>7 DEF Fits, Evidence, Shows
  <2>2. Ordered(x)' /\ Informed(x)' /\ NewKey(x)' /\ Made(x)' /\ UsedUp(x)'
    BY <1>1, <1>2, <1>3, <1>4, <1>6, <1>7, <2>1 DEF Ordered, Informed, NewKey, Made, UsedUp
  <2> QED
    BY <1>7, <2>1, <2>2 DEF Shape, Holds
<1>9. \A o \in Reqs : \A t : o # q /\ t = req[o] => Holds(t)'
  <2> SUFFICES ASSUME NEW o \in Reqs, NEW t, o # q, t = req[o], t # NoRequest PROVE Holds(t)'
    BY DEF Holds
  <2>1. t \in Requests /\ Fits(t) /\ Ordered(t) /\ Informed(t) /\ NewKey(t) /\ Made(t)
        /\ UsedUp(t)
    BY DEF Shape, Holds, IInv, ReqInv
  <2>2. NewKey(t)'
    <3> SUFFICES ASSUME t.op \in {"setup", "add"}, t.pc \in {"burn", "store"}
                 PROVE  t.proof.id # k.id
      BY <1>2, <2>1 DEF NewKey, Passkey
    <3>1. Used(t) /\ Evidence(t) = <<t.proof.challenge>> /\ t.proof.id = t.proof.challenge
      BY <2>1 DEF Used, Shows, Evidence, Fits
    <3>2. Evidence(t) # Evidence(r)
      BY <1>4, <3>1 DEF IInv, ReqInv
    <3> QED
      BY <1>4, <3>1, <3>2
  <2> QED
    BY <1>2, <1>3, <2>1, <2>2 DEF Holds, Ordered, Informed, Made, UsedUp
<1>10. ReqInv'
  <2>1. Used(x) => \A o \in Reqs : o # q /\ Used(req[o]) => Evidence(req[o]) # Evidence(x)
    BY <1>4, <1>8 DEF IInv, ReqInv
  <2> QED
    BY <1>5, <1>8, <1>9, <2>1, OneRequest DEF IInv
<1>11. FactorInv'
  <2>1. k \in [id : Ids, count : Nat] /\ \A o \in passkeys : o.id # k.id
    BY <1>2, <1>4, OnePasskey DEF IInv, Ids
  <2>2. IsFiniteSet(passkeys')
    BY <1>2, FS_AddElement DEF IInv, FactorInv
  <2> QED
    BY <1>2, <2>1, <2>2 DEF IInv, FactorInv, Ids
<1>12. passkeys' # {}
  BY <1>2
<1> QED
  BY <1>2, <1>3, <1>5, <1>6, <1>7, <1>10, <1>11, <1>12, Leaves DEF IInv

LEMMA UpgradeRecoveryOK ==
  ASSUME IInv, NEW q \in Reqs, UpgradeRecovery(q)
  PROVE  IInv'
<1> PICK r : r = req[q]
  OBVIOUS
<1>1. r \in Requests /\ Fits(r) /\ r.pc = "upgrade" /\ Made(r) /\ UsedUp(r)
  BY AtFacts DEF UpgradeRecovery
<1>2. /\ UNCHANGED <<now, desk, settings, domains, audit, passkeys, setupUsed, codes, challenges,
                     address, changes, fresh, proofs, cron, left, history, answers, grants,
                     mails, clean>>
      /\ fresh \in Nat /\ Grows /\ r.op = "add"
  BY <1>1 DEF UpgradeRecovery, desk, factor, history, IInv, BaseInv, Grows, Fits, Requests, Operations
<1>3. Good' = Good /\ UnusedCodes' = UnusedCodes /\ Granted' = Granted /\ ~Storing(r)
  BY <1>1, <1>2 DEF Good, UnusedCodes, Granted, Storing
<1> PICK x : x = [r EXCEPT !.pc = "head"]
  OBVIOUS
<1>4. req' = [req EXCEPT ![q] = x]
  BY DEF UpgradeRecovery, Step, Goto
<1>5. /\ x \in Requests /\ x.pc = "head" /\ x.op = r.op /\ x.key = r.key /\ x.saw = r.saw
      /\ x.proof = r.proof /\ x.sid = r.sid /\ x.head = r.head /\ x.rows = r.rows
  <2>1. "head" \in Places
    BY DEF Places
  <2> QED
    BY <1>1, <2>1, Onward
<1>6. Shape(x) /\ Holds(x) /\ Used(r) /\ Evidence(x) = Evidence(r)
  <2>1. Fits(x) /\ Evidence(x) = Evidence(r) /\ Shows(x) = Shows(r) /\ Used(r)
    BY <1>1, <1>2, <1>5 DEF Fits, Evidence, Shows, Used
  <2>2. Ordered(x) /\ Informed(x) /\ NewKey(x) /\ Made(x) /\ UsedUp(x)
    BY <1>1, <1>2, <1>5, <2>1 DEF Ordered, Informed, NewKey, Made, UsedUp
  <2> QED
    BY <1>5, <2>1, <2>2 DEF Shape, Holds
<1>7. \A o : Shape(o) /\ Holds(o) => Holds(o)'
  BY <1>2, HoldsSame DEF IInv, Grows
<1>8. ReqInv'
  BY <1>2, <1>4, <1>6, <1>7, MovesOn
<1>9. FactorInv'
  <2>1. \A s \in sessions : [s EXCEPT !.amr = "passkey"] \in [id : Ids, amr : {"passkey", "recovery"}]
    BY DEF IInv, FactorInv
  <2>2. sessions' \subseteq [id : Ids, amr : {"passkey", "recovery"}]
    <3> SUFFICES ASSUME NEW t \in sessions' PROVE t \in [id : Ids, amr : {"passkey", "recovery"}]
      OBVIOUS
    <3>1. PICK s \in sessions : t = IF s.id = r.sid THEN [s EXCEPT !.amr = "passkey"] ELSE s
      BY DEF UpgradeRecovery
    <3> QED
      BY <2>1, <3>1 DEF IInv, FactorInv
  <2> QED
    BY <1>2, <2>2 DEF IInv, FactorInv, Ids
<1> QED
  BY <1>2, <1>3, <1>4, <1>5, <1>8, <1>9, Leaves DEF IInv

LEMMA DeleteKeepingOK ==
  ASSUME IInv, NEW q \in Reqs, DeleteKeeping(q)
  PROVE  /\ IInv'
         /\ passkeys' # passkeys =>
              Cardinality(passkeys') >= MinPasskeys \/ Cardinality(passkeys') >= Cardinality(passkeys)
<1> PICK r : r = req[q]
  OBVIOUS
<1>1. r \in Requests /\ Fits(r) /\ r.pc = "delete" /\ Made(r)
  BY AtFacts DEF DeleteKeeping
<1>2. /\ UNCHANGED <<now, desk, settings, domains, audit, setupUsed, codes, challenges, sessions,
                     address, changes, fresh, proofs, cron, left, history, answers, grants,
                     mails, clean>>
      /\ fresh \in Nat /\ Grows /\ r.op = "remove"
  BY <1>1 DEF DeleteKeeping, desk, history, IInv, BaseInv, Grows, Fits, Requests, Operations
<1>3. Good' = Good /\ UnusedCodes' = UnusedCodes /\ Granted' = Granted /\ ~Storing(r)
  BY <1>1, <1>2 DEF Good, UnusedCodes, Granted, Storing
<1>4. CASE req' = [req EXCEPT ![q] = NoRequest] /\ UNCHANGED passkeys
  BY <1>2, <1>3, <1>4, ReadOnly, NoRequestFacts DEF factor
<1>5. CASE /\ Removable /\ Passkey(r.proof) # {} /\ passkeys' = passkeys \ Passkey(r.proof)
           /\ req' = [req EXCEPT ![q] = [r EXCEPT !.pc = "head"]]
  <2>1. PICK p \in passkeys : passkeys' = passkeys \ {p}
    BY <1>5, OnePasskey DEF IInv
  <2>2. /\ IsFiniteSet(passkeys') /\ Cardinality(passkeys') = Cardinality(passkeys) - 1
        /\ Cardinality(passkeys) \in Nat /\ Cardinality(passkeys') >= MinPasskeys
    <3>1. IsFiniteSet(passkeys) /\ MinPasskeys \in Nat
      BY AdminAssumption DEF IInv, FactorInv
    <3>2. Cardinality(passkeys) \in Nat
      BY <3>1, FS_CardinalityType
    <3>3. IsFiniteSet(passkeys') /\ Cardinality(passkeys') = Cardinality(passkeys) - 1
      BY <2>1, <3>1, FS_RemoveElement
    <3> QED
      BY <1>5, <3>1, <3>2, <3>3 DEF Removable
  <2>3. passkeys' # {}
    BY <2>2, FS_EmptySet, AdminAssumption
  <2> PICK x : x = [r EXCEPT !.pc = "head"]
    OBVIOUS
  <2>4. /\ x \in Requests /\ x.pc = "head" /\ x.op = r.op /\ x.key = r.key /\ x.saw = r.saw
        /\ x.proof = r.proof /\ x.sid = r.sid /\ x.head = r.head /\ x.rows = r.rows
    <3>1. "head" \in Places
      BY DEF Places
    <3> QED
      BY <1>1, <3>1, Onward
  <2>5. Shape(x) /\ Holds(x)' /\ ~Used(x)
    <3>1. Fits(x) /\ ~Shows(x) /\ ~Shows(r)
      BY <1>1, <1>2, <2>4 DEF Fits, Shows
    <3>2. Ordered(x)' /\ Informed(x)' /\ NewKey(x)' /\ Made(x)' /\ UsedUp(x)' /\ ~Used(x)
      BY <1>1, <1>2, <2>4, <3>1 DEF Ordered, Informed, NewKey, Made, UsedUp, Used
    <3> QED
      BY <2>4, <3>1, <3>2 DEF Shape, Holds
  <2>6. \A o : Shape(o) /\ Holds(o) => Holds(o)'
    <3> SUFFICES ASSUME NEW o, Shape(o), Holds(o), o # NoRequest PROVE Holds(o)'
      BY DEF Holds
    <3>1. passkeys' \subseteq passkeys
      BY <1>5
    <3> QED
      BY <1>2, <1>3, <3>1 DEF Holds, Ordered, Informed, NewKey, Passkey, Made, UsedUp
  <2>7. ReqInv'
    BY <1>2, <1>5, <2>5, <2>6, MovesOn
  <2>8. FactorInv'
    BY <1>2, <2>1, <2>2 DEF IInv, FactorInv, Ids
  <2>9. IInv'
    BY <1>2, <1>3, <1>5, <2>3, <2>4, <2>7, <2>8, Leaves DEF IInv
  <2> QED
    BY <2>2, <2>9
<1> QED
  BY <1>4, <1>5 DEF DeleteKeeping, Done, Step, Goto

LEMMA UpdateCounterOK ==
  ASSUME IInv, NEW q \in Reqs, UpdateCounter(q)
  PROVE  IInv' /\ Cardinality(passkeys') = Cardinality(passkeys)
<1> PICK r : r = req[q]
  OBVIOUS
<1>1. r \in Requests /\ Fits(r) /\ r.pc = "counter" /\ Made(r) /\ UsedUp(r)
  BY AtFacts DEF UpdateCounter
<1>2. /\ UNCHANGED <<now, desk, settings, domains, audit, setupUsed, codes, challenges, sessions,
                     address, changes, fresh, proofs, cron, left, history, answers, grants,
                     mails, clean>>
      /\ fresh \in Nat /\ Grows /\ r.op = "login"
  BY <1>1 DEF UpdateCounter, desk, history, IInv, BaseInv, Grows, Fits, Requests, Operations
<1>3. Good' = Good /\ UnusedCodes' = UnusedCodes /\ Granted' = Granted /\ ~Storing(r)
  BY <1>1, <1>2 DEF Good, UnusedCodes, Granted, Storing
<1> PICK f : f = r.proof
  OBVIOUS
<1> PICK k : k = [id |-> f.id, count |-> f.count]
  OBVIOUS
<1>4. CASE req' = [req EXCEPT ![q] = NoRequest] /\ UNCHANGED passkeys
  BY <1>2, <1>3, <1>4, ReadOnly, NoRequestFacts DEF factor
<1>5. CASE /\ Passkey(f.id) # {} /\ passkeys' = (passkeys \ Passkey(f.id)) \cup {k}
           /\ req' = [req EXCEPT ![q] = [r EXCEPT !.pc = "head"]]
  <2>1. PICK p \in passkeys : p.id = f.id /\ Passkey(f.id) = {p}
    BY <1>5, OnePasskey DEF IInv
  <2>2. k \in [id : Ids, count : Nat] /\ k.id = p.id
    BY <1>1, <1>2, <2>1 DEF Fits, Proof, IInv, FactorInv
  <2>3. /\ passkeys' = (passkeys \ {p}) \cup {k} /\ k \notin passkeys \ {p}
        /\ \A o \in passkeys \ {p} : o.id # k.id
    BY <1>5, <2>1, <2>2 DEF Passkey
  <2>4. IsFiniteSet(passkeys') /\ Cardinality(passkeys') = Cardinality(passkeys)
    <3> PICK rest : rest = passkeys \ {p}
      OBVIOUS
    <3>1. IsFiniteSet(passkeys) /\ Cardinality(passkeys) \in Nat
      BY FS_CardinalityType DEF IInv, FactorInv
    <3>2. IsFiniteSet(rest) /\ Cardinality(rest) = Cardinality(passkeys) - 1
      BY <2>1, <3>1, FS_RemoveElement
    <3>3. IsFiniteSet(rest \cup {k}) /\ Cardinality(rest \cup {k}) = Cardinality(rest) + 1
      BY <2>3, <3>2, FS_AddElement
    <3> QED
      BY <2>3, <3>1, <3>2, <3>3
  <2>5. \A i : Passkey(i) = {} => (Passkey(i) = {})'
    <3> SUFFICES ASSUME NEW i, Passkey(i) = {} PROVE \A o \in passkeys' : o.id # i
      BY DEF Passkey
    <3>1. \A o \in passkeys : o.id # i
      BY DEF Passkey
    <3> QED
      BY <2>1, <2>2, <2>3, <3>1
  <2> PICK x : x = [r EXCEPT !.pc = "head"]
    OBVIOUS
  <2>6. /\ x \in Requests /\ x.pc = "head" /\ x.op = r.op /\ x.key = r.key /\ x.saw = r.saw
        /\ x.proof = r.proof /\ x.sid = r.sid /\ x.head = r.head /\ x.rows = r.rows
    <3>1. "head" \in Places
      BY DEF Places
    <3> QED
      BY <1>1, <3>1, Onward
  <2>7. Shape(x) /\ Holds(x)' /\ Used(r) /\ Evidence(x) = Evidence(r)
    <3>1. Fits(x) /\ Shows(x) /\ Shows(r) /\ Used(r) /\ Evidence(x) = Evidence(r)
      BY <1>1, <1>2, <2>6 DEF Fits, Shows, Used, Evidence
    <3>2. Ordered(x)' /\ Informed(x)' /\ NewKey(x)' /\ Made(x)' /\ UsedUp(x)'
      BY <1>1, <1>2, <1>3, <2>6, <3>1 DEF Ordered, Informed, NewKey, Made, UsedUp
    <3> QED
      BY <2>6, <3>1, <3>2 DEF Shape, Holds
  <2>8. \A o : Shape(o) /\ Holds(o) => Holds(o)'
    <3> SUFFICES ASSUME NEW o, Shape(o), Holds(o), o # NoRequest PROVE Holds(o)'
      BY DEF Holds
    <3>1. NewKey(o)'
      BY <2>5 DEF Holds, NewKey
    <3> QED
      BY <1>2, <1>3, <3>1 DEF Holds, Ordered, Informed, Made, UsedUp
  <2>9. ReqInv'
    BY <1>2, <1>5, <2>7, <2>8, MovesOn
  <2>10. FactorInv'
    BY <1>2, <2>2, <2>3, <2>4 DEF IInv, FactorInv, Ids
  <2>11. passkeys' # {}
    BY <2>3
  <2>12. IInv'
    BY <1>2, <1>3, <1>5, <2>6, <2>9, <2>10, <2>11, Leaves DEF IInv
  <2> QED
    BY <2>4, <2>12
<1> QED
  BY <1>4, <1>5 DEF UpdateCounter, Done, Step, Goto, Passkey

AsUsed(c) == [c EXCEPT !.used = TRUE]

LEMMA UsedFacts ==
  ASSUME NEW c \in [issue : Nat, n : Nat, used : BOOLEAN]
  PROVE  AsUsed(c) = [issue |-> c.issue, n |-> c.n, used |-> TRUE]
<1> PICK d : d = [c EXCEPT !.used = TRUE]
  OBVIOUS
<1>1. d = [issue |-> c.issue, n |-> c.n, used |-> TRUE]
  OBVIOUS
<1> QED
  BY <1>1 DEF AsUsed

LEMMA UseRecoveryCodeOK ==
  ASSUME IInv, NEW q \in Reqs, UseRecoveryCode(q)
  PROVE  IInv'
<1> PICK r : r = req[q]
  OBVIOUS
<1>1. r \in Requests /\ Fits(r) /\ r.pc = "code" /\ Made(r)
  BY AtFacts DEF UseRecoveryCode
<1> PICK mine : mine = {c \in codes : <<c.issue, c.n>> = r.proof /\ ~c.used}
  OBVIOUS
<1>2. /\ UNCHANGED <<now, desk, settings, domains, audit, passkeys, setupUsed, challenges,
                     sessions, address, changes, fresh, proofs, cron, left, history, answers,
                     grants, mails, clean>>
      /\ fresh \in Nat /\ Grows /\ r.op = "recovery"
      /\ codes' = (codes \ mine) \cup {AsUsed(c) : c \in mine}
  BY <1>1 DEF UseRecoveryCode, Accepts, AsUsed, desk, history, IInv, BaseInv, Grows, Fits, Requests,
     Operations
<1>3. CodesInv' /\ UnusedCodes' \subseteq UnusedCodes \ mine
  <2>1. CASE codes = {}
    <3>1. codes' = {}
      BY <1>2, <2>1
    <3> QED
      BY <3>1 DEF CodesInv, UnusedCodes
  <2>2. ASSUME NEW i \in Ids, NEW u \in [1 .. RecoveryCodes -> BOOLEAN], codes = Issued(i, u)
        PROVE  CodesInv' /\ UnusedCodes' \subseteq UnusedCodes \ mine
    <3> PICK v : v = [n \in 1 .. RecoveryCodes |-> u[n] \/ <<i, n>> = r.proof]
      OBVIOUS
    <3>1. v \in [1 .. RecoveryCodes -> BOOLEAN]
      OBVIOUS
    <3>2. \A c \in codes : \E n \in 1 .. RecoveryCodes : c = [issue |-> i, n |-> n, used |-> u[n]]
      BY <2>2 DEF Issued
    <3>3. \A n \in 1 .. RecoveryCodes : [issue |-> i, n |-> n, used |-> u[n]] \in codes
      BY <2>2 DEF Issued
    <3>4. \A c \in mine : AsUsed(c) = [issue |-> c.issue, n |-> c.n, used |-> TRUE]
      <4>1. mine \subseteq [issue : Nat, n : Nat, used : BOOLEAN]
        <5> SUFFICES ASSUME NEW c \in codes PROVE c \in [issue : Nat, n : Nat, used : BOOLEAN]
          OBVIOUS
        <5>1. PICK n \in 1 .. RecoveryCodes : c = [issue |-> i, n |-> n, used |-> u[n]]
          BY <3>2
        <5>2. i \in Nat /\ n \in Nat
          BY AdminAssumption DEF Ids
        <5> QED
          BY <5>1, <5>2
      <4> QED
        BY <4>1, UsedFacts
    <3>5. \A n \in 1 .. RecoveryCodes : [issue |-> i, n |-> n, used |-> v[n]] \in codes'
      <4> TAKE n \in 1 .. RecoveryCodes
      <4> PICK c : c = [issue |-> i, n |-> n, used |-> u[n]]
        OBVIOUS
      <4>1. c \in codes /\ c.issue = i /\ c.n = n /\ c.used = u[n]
        BY <3>3
      <4>2. CASE c \in mine
        BY <1>2, <3>4, <4>1, <4>2
      <4>3. CASE c \notin mine
        <5>1. v[n] = u[n]
          BY <4>1, <4>3
        <5> QED
          BY <1>2, <4>1, <4>3, <5>1
      <4> QED
        BY <4>2, <4>3
    <3>6. \A d \in codes' : \E n \in 1 .. RecoveryCodes : d = [issue |-> i, n |-> n, used |-> v[n]]
      <4> TAKE d \in codes'
      <4>1. PICK c \in codes : d = IF c \in mine THEN AsUsed(c) ELSE c
        BY <1>2
      <4>2. PICK n \in 1 .. RecoveryCodes : c = [issue |-> i, n |-> n, used |-> u[n]]
        BY <3>2
      <4>3. CASE c \in mine
        BY <3>4, <4>1, <4>2, <4>3
      <4>4. CASE c \notin mine
        <5>1. v[n] = u[n]
          BY <4>2, <4>4
        <5> QED
          BY <4>1, <4>2, <4>4, <5>1
      <4> QED
        BY <4>3, <4>4
    <3>7. codes' = Issued(i, v)
      BY <3>5, <3>6 DEF Issued
    <3>8. \A d \in codes' : ~d.used => d \in codes \ mine
      <4> SUFFICES ASSUME NEW c \in mine PROVE AsUsed(c).used
        BY <1>2
      <4> QED
        BY <3>4
    <3> QED
      BY <1>2, <3>1, <3>7, <3>8 DEF CodesInv, Issued, UnusedCodes, Ids
  <2> QED
    BY <2>1, <2>2 DEF IInv, CodesInv
<1>4. Good' \subseteq Good /\ Granted' = Granted /\ ~Storing(r)
  BY <1>1, <1>2, <1>3 DEF Good, Granted, Storing
<1>5. Shows(r) /\ Evidence(r) = r.proof /\ r.proof = <<r.proof[1], r.proof[2]>>
  BY <1>1, <1>2 DEF Shows, Evidence, Fits
<1>6. Evidence(r) \notin Good'
  <2>1. \A d \in UnusedCodes' : <<d.issue, d.n>> # r.proof
    BY <1>3 DEF UnusedCodes
  <2>2. \A c : <<c>> # r.proof
    BY <1>5, SinglesDiffer
  <2> QED
    BY <1>5, <2>1, <2>2 DEF Good
<1>7. mine # {} => Evidence(r) \in Good
  BY <1>5 DEF Good, UnusedCodes
<1>8. PICK x : /\ req' = [req EXCEPT ![q] = x]
               /\ \/ x = NoRequest
                  \/ mine # {} /\ x = [r EXCEPT !.pc = "head"]
  BY DEF UseRecoveryCode, Accepts, Done, Step, Goto
<1>9. \A o : Shape(o) /\ Holds(o) => Holds(o)'
  <2> SUFFICES ASSUME NEW o, Shape(o), Holds(o), o # NoRequest PROVE Holds(o)'
    BY DEF Holds
  <2> QED
    BY <1>2, <1>4 DEF Holds, Ordered, Informed, NewKey, Passkey, Made, UsedUp
<1>10. /\ Shape(x) /\ Holds(x)' /\ x.op \in {r.op, "none"}
       /\ x.op = "none" \/ x.pc # "codes"
       /\ Used(x) => mine # {} /\ Evidence(x) = Evidence(r)
  <2>1. CASE x = NoRequest
    BY <2>1, NoRequestFacts
  <2>2. CASE x # NoRequest
    <3>1. /\ x \in Requests /\ x.pc = "head" /\ x.op = r.op /\ x.key = r.key /\ x.saw = r.saw
          /\ x.proof = r.proof /\ x.sid = r.sid /\ x.head = r.head /\ x.rows = r.rows
      <4>1. x = [r EXCEPT !.pc = "head"] /\ "head" \in Places
        BY <1>8, <2>2 DEF Places
      <4> QED
        BY <1>1, <4>1, Onward
    <3>2. Fits(x) /\ Evidence(x) = Evidence(r)
      BY <1>1, <1>2, <3>1 DEF Fits, Evidence
    <3>3. Evidence(r) \notin Granted
      BY <1>7, <1>8, <2>2 DEF Granted, IInv, GrantInv
    <3>4. Ordered(x)' /\ Informed(x)' /\ NewKey(x)' /\ Made(x)' /\ UsedUp(x)'
      <4>1. Shows(x) = Shows(r)
        BY <3>1 DEF Shows
      <4>2. Made(x)'
        BY <1>1, <1>2, <3>1, <3>2, <4>1 DEF Made
      <4>3. UsedUp(x)'
        BY <1>4, <1>6, <3>2, <3>3 DEF UsedUp
      <4> QED
        BY <1>2, <3>1, <4>2, <4>3 DEF Ordered, Informed, NewKey
    <3> QED
      BY <1>8, <2>2, <3>1, <3>2, <3>4 DEF Shape, Holds
  <2> QED
    BY <2>1, <2>2
<1>11. ReqInv'
  <2>1. Used(x) => \A p \in Reqs : p # q /\ Used(req[p]) => Evidence(req[p]) # Evidence(x)
    <3> SUFFICES ASSUME Used(x), NEW p \in Reqs, Used(req[p]) PROVE Evidence(req[p]) # Evidence(r)
      BY <1>10
    <3>1. Evidence(r) \in Good
      BY <1>7, <1>10
    <3>2. UsedUp(req[p])
      BY NoRequestFacts DEF IInv, ReqInv, Holds
    <3> QED
      BY <3>1, <3>2 DEF UsedUp
  <2>2. \A p \in Reqs : \A o : p # q /\ o = req[p] => Holds(o)'
    BY <1>9 DEF IInv, ReqInv
  <2> QED
    BY <1>8, <1>10, <2>1, <2>2, OneRequest DEF IInv
<1> QED
  BY <1>2, <1>3, <1>4, <1>8, <1>10, <1>11, Leaves DEF IInv

(* What is new is nobody's evidence yet.                                   *)
LEMMA HoldsFresh ==
  ASSUME BaseInv, NEW o, Shape(o), Holds(o), fresh' = fresh + 1,
         UNCHANGED <<audit, settings, passkeys, grants>>,
         \A e \in Good' : e \in Good \/ e[1] = fresh
  PROVE  Holds(o)'
<1> SUFFICES ASSUME o # NoRequest PROVE Holds(o)'
  BY DEF Holds
<1>1. o \in Requests /\ Fits(o) /\ Ordered(o) /\ Informed(o) /\ NewKey(o) /\ Made(o)
      /\ UsedUp(o)
  BY DEF Shape, Holds
<1>2. fresh \in Nat
  BY DEF BaseInv
<1>3. Made(o)'
  <2>1. o.head \in Nat /\ o.sid \in Nat
    BY <1>1 DEF Requests
  <2>2. o.op \in {"setup", "add", "login"} => o.proof.id \in Nat /\ o.proof.challenge \in Nat
    BY <1>1 DEF Fits, Proof
  <2>3. Shows(o) => Evidence(o)[1] \in Nat
    BY <1>1, <2>2 DEF Fits, Evidence, Shows
  <2> QED
    BY <1>1, <1>2, <2>1, <2>2, <2>3 DEF Made
<1>4. UsedUp(o)'
  <2> SUFFICES ASSUME Used(o), Evidence(o) \in Good' \cup Granted' PROVE FALSE
    BY DEF UsedUp
  <2>1. Evidence(o)[1] < fresh
    BY <1>1 DEF Used, Made
  <2>2. Evidence(o)[1] \in Nat
    BY <1>1, EvidenceFacts DEF Used
  <2>3. Granted' = Granted /\ Evidence(o)[1] # fresh
    BY <1>2, <2>1, <2>2 DEF Granted
  <2> QED
    BY <1>1, <2>3 DEF UsedUp
<1> QED
  BY <1>1, <1>3, <1>4 DEF Holds, Ordered, Informed, NewKey, Passkey

LEMMA GrantFresh ==
  ASSUME BaseInv, GrantInv, fresh' = fresh + 1, UNCHANGED grants,
         \A e \in Good' : e \in Good \/ e[1] = fresh
  PROVE  GrantInv'
<1>1. fresh \in Nat
  BY DEF BaseInv
<1>2. Ids \subseteq Ids'
  BY <1>1, Wider DEF Ids
<1>3. \A g \in grants : g[1] \notin Good'
  <2> TAKE g \in grants
  <2>1. g[1] \notin Good /\ g[1][1] \in 0 .. (fresh - 1)
    BY DEF GrantInv, Ids
  <2> QED
    BY <1>1, <2>1
<1> QED
  BY <1>2, <1>3 DEF GrantInv, OneGrantPerProof

LEMMA IssueCodesOK ==
  ASSUME IInv, NEW q \in Reqs, IssueCodes(q)
  PROVE  IInv'
<1> PICK r : r = req[q]
  OBVIOUS
<1>1. r \in Requests /\ Fits(r) /\ r.pc = "codes"
  BY AtFacts DEF IssueCodes
<1>2. /\ UNCHANGED <<now, desk, settings, domains, audit, passkeys, setupUsed, challenges,
                     sessions, address, changes, proofs, cron, left, history, answers,
                     grants, mails, clean>>
      /\ fresh \in Nat /\ fresh > 0 /\ fresh' = fresh + 1 /\ Grows
      /\ req' = [req EXCEPT ![q] = NoRequest]
  BY DEF IssueCodes, Done, Goto, desk, history, IInv, BaseInv, Grows
<1>3. codes' = {[issue |-> fresh, n |-> n, used |-> FALSE] : n \in 1 .. RecoveryCodes}
  BY DEF IssueCodes
<1>4. CodesInv'
  <2> PICK u : u = [n \in 1 .. RecoveryCodes |-> FALSE]
    OBVIOUS
  <2>1. /\ u \in [1 .. RecoveryCodes -> BOOLEAN] /\ fresh \in Ids'
        /\ \A n \in 1 .. RecoveryCodes : u[n] = FALSE
    BY <1>2 DEF Ids
  <2>2. codes' = Issued(fresh, u)
    BY <1>3, <2>1 DEF Issued
  <2> QED
    BY <2>1, <2>2 DEF CodesInv, Issued
<1>5. \A e \in Good' : e \in Good \/ e[1] = fresh
  BY <1>2, <1>3, SinglesDiffer DEF Good, UnusedCodes
<1>6. \A o : Shape(o) /\ Holds(o) => Holds(o)'
  BY <1>2, <1>5, HoldsFresh DEF IInv
<1>7. ReqInv'
  BY <1>2, <1>6, MovesOn, NoRequestFacts
<1>8. GrantInv'
  BY <1>2, <1>5, GrantFresh DEF IInv
<1>9. \A p \in Reqs : req'[p] = IF p = q THEN NoRequest ELSE req[p]
  BY <1>2 DEF IInv, ReqInv
<1>10. AddInv'
  <2> SUFFICES ASSUME clean.adds
               PROVE  /\ \A o, p \in Reqs : req'[o].op = "add" /\ req'[p].op = "add" => o = p
                      /\ \A p \in Reqs : ~(req'[p].op # "none" /\ req'[p].pc = "codes")
    BY <1>2 DEF AddInv, Adding, At
  <2>1. \A o, p \in Reqs : req[o].op = "add" /\ req[p].op = "add" => o = p
    BY DEF IInv, AddInv, Adding
  <2>2. \A p \in Reqs : req[p].op # "none" /\ req[p].pc = "codes" => req[p].op = "add"
    <3> SUFFICES ASSUME NEW p \in Reqs, At(p, "codes") PROVE req[p].op = "add"
      BY DEF At
    <3>1. req[p] \in Requests /\ Fits(req[p]) /\ req[p].pc = "codes"
      BY AtFacts
    <3> QED
      BY <3>1 DEF Fits, Requests, Operations
  <2>3. req[q].op = "add"
    BY <2>2 DEF IssueCodes, At
  <2> QED
    BY <1>9, <2>1, <2>2, <2>3, NoRequestFacts
<1>11. ~Storing(r)
  BY <1>1 DEF Storing
<1> QED
  BY <1>2, <1>4, <1>7, <1>8, <1>10, <1>11, Leaves, NoRequestFacts DEF IInv

LEMMA IssueOK ==
  ASSUME IInv, NEW q \in Reqs, Issue(q)
  PROVE  IInv'
<1> PICK r : r = req[q]
  OBVIOUS
<1>1. r \in Requests /\ Fits(r) /\ r.pc = "issue" /\ Made(r) /\ UsedUp(r)
  BY AtFacts DEF Issue
<1>2. /\ UNCHANGED <<now, desk, settings, domains, audit, passkeys, setupUsed, codes, challenges,
                     address, changes, proofs, cron, left, answers, mails, clean>>
      /\ fresh \in Nat /\ fresh > 0 /\ fresh' = fresh + 1 /\ Grows
      /\ req' = [req EXCEPT ![q] = NoRequest]
  BY DEF Issue, Done, Goto, desk, factor, IInv, BaseInv, Grows
<1>3. r.op \in {"setup", "login", "recovery"} /\ Used(r) /\ ~Storing(r)
  BY <1>1 DEF Fits, Requests, Operations, Used, Shows, Storing
<1> PICK e : e = Evidence(r)
  OBVIOUS
<1>4. grants' = grants \cup {<<e, fresh>>}
  BY DEF Issue, Evidence
<1>5. Good' = Good /\ UnusedCodes' = UnusedCodes
  BY <1>2 DEF Good, UnusedCodes
<1>6. e \notin Good /\ e \notin Granted /\ e[1] \in Nat /\ e[1] < fresh
  <2>1. Shows(r)
    BY <1>3 DEF Used
  <2>2. e[1] \in Nat
    BY <1>1, <2>1, EvidenceFacts
  <2> QED
    BY <1>1, <1>3, <2>1, <2>2 DEF UsedUp, Made
<1>7. Granted' = Granted \cup {e}
  <2>1. \A g \in grants' : g \in grants \/ g[1] = e
    BY <1>4
  <2>2. \A g \in grants : g \in grants'
    BY <1>4
  <2>3. <<e, fresh>> \in grants' /\ <<e, fresh>>[1] = e
    BY <1>4
  <2> QED
    BY <2>1, <2>2, <2>3 DEF Granted
<1>8. \A p \in Reqs : \A o : p # q /\ o = req[p] => Holds(o)'
  <2> SUFFICES ASSUME NEW p \in Reqs, NEW o, p # q, o = req[p], o # NoRequest PROVE Holds(o)'
    BY DEF Holds
  <2>1. o \in Requests /\ Fits(o) /\ Ordered(o) /\ Informed(o) /\ NewKey(o) /\ Made(o)
        /\ UsedUp(o)
    BY DEF Shape, Holds, IInv, ReqInv
  <2>2. Made(o)'
    <3>1. o.head \in Nat /\ o.sid \in Nat
      BY <2>1 DEF Requests
    <3>2. o.op \in {"setup", "add", "login"} => o.proof.id \in Nat /\ o.proof.challenge \in Nat
      BY <2>1 DEF Fits, Proof
    <3>3. Shows(o) => Evidence(o)[1] \in Nat
      BY <2>1, <3>2 DEF Fits, Evidence, Shows
    <3> QED
      BY <1>2, <2>1, <3>1, <3>2, <3>3 DEF Made
  <2>3. UsedUp(o)'
    <3>1. Used(o) => Evidence(o) # e
      BY <1>3 DEF IInv, ReqInv
    <3> QED
      BY <1>5, <1>7, <2>1, <3>1 DEF UsedUp
  <2> QED
    BY <1>2, <2>1, <2>2, <2>3 DEF Holds, Ordered, Informed, NewKey, Passkey
<1>9. ReqInv'
  BY <1>2, <1>8, OneRequest, NoRequestFacts DEF IInv
<1>10. GrantInv'
  <2>1. Ids \subseteq Ids' /\ e[1] \in Ids'
    BY <1>2, <1>6, Wider DEF Grows, Ids
  <2>2. \A g \in grants' : g \in grants \/ (g = <<e, fresh>> /\ g[1] = e /\ g[2] = fresh)
    BY <1>4
  <2>3. \A g \in grants : g[1] # e
    BY <1>6 DEF Granted
  <2>4. \A g, h \in grants' : g[1] = h[1] => g = h
    BY <2>2, <2>3 DEF IInv, GrantInv, OneGrantPerProof
  <2>5. \A g \in grants' : g = <<g[1], g[2]>> /\ g[1][1] \in Ids' /\ g[1] \notin Good'
    BY <1>5, <1>6, <2>1, <2>2 DEF IInv, GrantInv
  <2> QED
    BY <2>4, <2>5 DEF GrantInv, OneGrantPerProof
<1>11. FactorInv'
  <2>1. Ids \subseteq Ids' /\ fresh \in Ids'
    BY <1>2, Wider DEF Grows, Ids
  <2>2. sessions' \subseteq [id : Ids', amr : {"passkey", "recovery"}]
    <3>1. \A s \in sessions : s \in [id : Ids', amr : {"passkey", "recovery"}]
      BY <2>1 DEF IInv, FactorInv
    <3>2. PICK s : /\ sessions' = sessions \cup {s}
                   /\ s = [id |-> fresh, amr |-> IF r.op = "recovery" THEN "recovery" ELSE "passkey"]
      BY DEF Issue
    <3>3. s \in [id : Ids', amr : {"passkey", "recovery"}]
      BY <2>1, <3>2
    <3> QED
      BY <3>1, <3>2, <3>3
  <2>3. passkeys' \subseteq [id : Ids', count : Nat] /\ challenges' \subseteq Ids'
    BY <1>2, <2>1 DEF IInv, FactorInv
  <2>4. \A f \in proofs' : f.challenge < fresh' /\ f.id < fresh'
    <3> TAKE f \in proofs'
    <3>1. f \in proofs /\ f.challenge \in Nat /\ f.id \in Nat
      BY <1>2 DEF IInv, FactorInv, Proof
    <3> QED
      BY <1>2, <3>1 DEF IInv, FactorInv
  <2> QED
    BY <1>2, <2>2, <2>3, <2>4 DEF IInv, FactorInv
<1> QED
  BY <1>2, <1>3, <1>5, <1>9, <1>10, <1>11, Leaves, NoRequestFacts DEF IInv
-----------------------------------------------------------------------------
(* The beginning and the end of a request.                                 *)

Steps == {"patch", "put", "register", "assert", "submit", "remove", "recover", "change",
          "fail", "die", "sweep"}

LEMMA SpendKeeps ==
  ASSUME BaseInv, NEW kind \in Steps, Spend(kind)
  PROVE  /\ left' \in Workload /\ left'.time = left.time
         /\ left[kind] > 0
         /\ \A k \in {"patch", "put", "sweep"} : left[k] = 0 => left'[k] = 0
<1> PICK l : l = left
  OBVIOUS
<1>1. l \in Workload /\ l[kind] > 0 /\ left' = [l EXCEPT ![kind] = @ - 1]
  BY DEF BaseInv, Spend
<1>2. l[kind] \in Nat
  BY <1>1 DEF Workload, Steps
<1> PICK n : n = l[kind] - 1
  OBVIOUS
<1>3. n \in Nat /\ left' = [l EXCEPT ![kind] = n]
  BY <1>1, <1>2
<1>4. /\ left' \in Workload /\ left'.time = l.time
      /\ \A k \in {"patch", "put", "sweep"} : k # kind => left'[k] = l[k]
  BY <1>1, <1>3 DEF Workload, Steps
<1> QED
  BY <1>1, <1>2, <1>4

LEMMA NewRequest ==
  ASSUME NEW op \in Operations, NEW p \in Places
  PROVE  LET r == Request(op, p)
         IN  /\ r \in Requests /\ r.op = op /\ r.pc = p /\ r.key = None /\ r.head = 0
             /\ r.rows = 1 /\ r.sid = 0 /\ r.proof = None /\ r.saw = None
<1>1. 0 \in 0 .. (AppendRetries - 1) /\ 1 \in 0 .. 2 /\ 0 \in Nat
  BY AdminAssumption
<1> QED
  BY <1>1 DEF Request, Requests, Shown

LEMMA Begins ==
  ASSUME IInv, NEW q \in Reqs, Idle(q), NEW kind \in Steps, Spend(kind),
         NEW x, req' = [req EXCEPT ![q] = x], x \in Requests, Fits(x), Holds(x), ~Used(x),
         UNCHANGED <<now, desk, audit, factor, sessions, address, changes, fresh, proofs,
                     cron, answers, grants, mails>>,
         x.op \in {"patch", "put"} => x.op = kind,
         x.pc \notin {"codes", "insert"},
         \/ x.op # "add" /\ clean' = clean
         \/ x.op = "add" /\ clean' = [clean EXCEPT !.adds = @ /\ ~\E o \in Reqs : Adding(o)]
  PROVE  IInv'
<1>1. /\ UNCHANGED <<now, desk, settings, domains, audit, factor, passkeys, setupUsed, codes,
                     challenges, sessions, address, changes, fresh, proofs, cron, answers, grants,
                     mails>>
      /\ fresh \in Nat /\ Grows
  BY DEF desk, factor, IInv, BaseInv, Grows
<1>2. Good' = Good /\ UnusedCodes' = UnusedCodes /\ Granted' = Granted
  BY <1>1 DEF Good, UnusedCodes, Granted
<1>3. /\ left' \in Workload /\ left'.time = left.time /\ left[kind] > 0
      /\ \A k \in {"patch", "put", "sweep"} : left[k] = 0 => left'[k] = 0
  BY SpendKeeps DEF IInv
<1>4. \A o : Shape(o) /\ Holds(o) => Holds(o)'
  BY <1>1, HoldsSame DEF IInv, Grows
<1>5. Shape(x)
  BY DEF Shape
<1>6. ReqInv'
  BY <1>1, <1>4, <1>5, MovesOn
<1>7. \A p \in Reqs : req'[p] = IF p = q THEN x ELSE req[p]
  BY DEF IInv, ReqInv
<1>8. req[q] = NoRequest /\ ~Storing(req[q]) /\ req[q].op = "none"
  BY NoRequestFacts DEF Idle
<1>9. KeyInv'
  <2>1. left.patch = 0 /\ left.put = 0 => x.op \notin {"patch", "put"}
    BY <1>3
  <2>2. left.patch = 0 /\ left.put = 0 /\ (\A p \in Reqs : req[p].op \notin {"patch", "put"})
        => \A p \in Reqs : req'[p].op \notin {"patch", "put"}
    BY <1>7, <2>1
  <2> QED
    BY <1>1, <1>3, <2>2 DEF IInv, KeyInv
<1>10. AddInv' /\ WayInv'
  <2>1. \A p \in Reqs : At(p, "codes")' => At(p, "codes")
    BY <1>7 DEF At
  <2>2. \A p \in Reqs : Storing(req[p]) => Storing(req'[p])
    BY <1>7, <1>8
  <2>3. CASE x.op # "add" /\ clean' = clean
    <3>1. \A p \in Reqs : req'[p].op = "add" => req[p].op = "add"
      BY <1>7, <2>3
    <3> QED
      BY <1>1, <1>2, <2>1, <2>2, <2>3, <3>1, AddKept, WayKept DEF IInv
  <2>4. CASE clean' = [clean EXCEPT !.adds = @ /\ ~\E o \in Reqs : Adding(o)]
    <3> PICK b : b = (clean.adds /\ ~\E o \in Reqs : Adding(o))
      OBVIOUS
    <3>1. clean \in [setup : BOOLEAN, adds : BOOLEAN] /\ b \in BOOLEAN
      BY DEF IInv, WayInv
    <3>2. clean' = [clean EXCEPT !.adds = b]
      BY <2>4
    <3>3. clean' \in [setup : BOOLEAN, adds : BOOLEAN] /\ clean'.setup = clean.setup
          /\ clean'.adds = b
      BY <3>1, <3>2
    <3>4. AddInv'
      <4> SUFFICES ASSUME b
                   PROVE  /\ \A o, p \in Reqs : req'[o].op = "add" /\ req'[p].op = "add" => o = p
                          /\ \A p \in Reqs : At(p, "codes")' => UnusedCodes' = {}
        BY <3>3 DEF AddInv, Adding
      <4>1. clean.adds /\ \A o \in Reqs : req[o].op # "add"
        BY DEF Adding
      <4>2. \A o, p \in Reqs : req'[o].op = "add" /\ req'[p].op = "add" => o = p
        BY <1>7, <4>1
      <4>3. \A p \in Reqs : At(p, "codes")' => UnusedCodes' = {}
        BY <1>2, <2>1, <4>1 DEF IInv, AddInv
      <4> QED
        BY <4>2, <4>3
    <3>5. \A c \in changes : WillReset(c) => WillReset(c)'
      BY <1>1 DEF WillReset, Due
    <3>6. WayInv'
      BY <1>1, <2>2, <3>3, <3>5 DEF IInv, WayInv, Storing
    <3> QED
      BY <3>4, <3>6
  <2> QED
    BY <2>3, <2>4
<1>11. BaseInv' /\ AuditInv' /\ FactorInv' /\ CodesInv' /\ GrantInv' /\ ChangeInv' /\ CronInv'
  BY <1>1, <1>2, <1>3, BaseKept, AuditKept, FactorKept, CodesKept, GrantKept, ChangeKept,
     CronKept DEF IInv
<1> QED
  BY <1>6, <1>9, <1>10, <1>11 DEF IInv

LEMMA PatchSettingsOK ==
  ASSUME IInv, NEW q \in Reqs, NEW k \in Keys, PatchSettings(q, k)
  PROVE  IInv'
<1> PICK r : r = Request("patch", "find")
  OBVIOUS
<1> PICK x : x = [r EXCEPT !.key = k, !.saw = settings]
  OBVIOUS
<1>1. r \in Requests /\ r.op = "patch" /\ r.pc = "find" /\ r.head = 0 /\ r.rows = 1 /\ r.sid = 0
  BY NewRequest DEF Operations, Places
<1>2. settings \in Settings /\ settings.version \in Nat /\ fresh \in Nat /\ fresh > 0
  BY DEF IInv, BaseInv, Settings
<1>3. /\ x \in Requests /\ x.op = "patch" /\ x.pc = "find" /\ x.head = 0 /\ x.rows = 1
      /\ x.sid = 0 /\ x.key = k /\ x.saw = settings
  BY <1>1, <1>2 DEF Requests
<1>4. Fits(x) /\ ~Shows(x)
  BY <1>2, <1>3 DEF Fits, Shows
<1>5. Holds(x) /\ ~Used(x)
  BY <1>2, <1>3, <1>4 DEF Holds, Ordered, Informed, NewKey, Made, UsedUp, Used
<1>6. /\ req' = [req EXCEPT ![q] = x] /\ Idle(q) /\ Spend("patch") /\ "patch" \in Steps
      /\ clean' = clean
      /\ UNCHANGED <<now, desk, audit, factor, sessions, address, changes, fresh, proofs,
                     cron, answers, grants, mails>>
  BY DEF PatchSettings, Goto, Steps, history
<1> QED
  BY <1>3, <1>4, <1>5, <1>6, Begins

LEMMA PutBlockedDomainsOK ==
  ASSUME IInv, NEW q \in Reqs, NEW k \in Keys, PutBlockedDomains(q, k)
  PROVE  IInv'
<1> PICK r : r = Request("put", "find")
  OBVIOUS
<1> PICK x : x = [r EXCEPT !.key = k]
  OBVIOUS
<1>1. r \in Requests /\ r.op = "put" /\ r.pc = "find" /\ r.head = 0 /\ r.rows = 1 /\ r.sid = 0
  BY NewRequest DEF Operations, Places
<1>2. fresh \in Nat /\ fresh > 0
  BY DEF IInv, BaseInv
<1>3. /\ x \in Requests /\ x.op = "put" /\ x.pc = "find" /\ x.head = 0 /\ x.rows = 1
      /\ x.sid = 0 /\ x.key = k
  BY <1>1 DEF Requests
<1>4. Fits(x) /\ ~Shows(x)
  BY <1>3 DEF Fits, Shows
<1>5. Holds(x) /\ ~Used(x)
  BY <1>2, <1>3, <1>4 DEF Holds, Ordered, Informed, NewKey, Made, UsedUp, Used
<1>6. /\ req' = [req EXCEPT ![q] = x] /\ Idle(q) /\ Spend("put") /\ "put" \in Steps
      /\ clean' = clean
      /\ UNCHANGED <<now, desk, audit, factor, sessions, address, changes, fresh, proofs,
                     cron, answers, grants, mails>>
  BY DEF PutBlockedDomains, Goto, Steps, history
<1> QED
  BY <1>3, <1>4, <1>5, <1>6, Begins

LEMMA SetupOK ==
  ASSUME IInv, NEW q \in Reqs, NEW f \in proofs, Setup(q, f)
  PROVE  IInv'
<1> PICK r : r = Request("setup", "consume")
  OBVIOUS
<1> PICK x : x = [r EXCEPT !.proof = f, !.rows = 2]
  OBVIOUS
<1>1. r \in Requests /\ r.op = "setup" /\ r.pc = "consume" /\ r.head = 0 /\ r.sid = 0
      /\ r.key = None
  BY NewRequest DEF Operations, Places
<1>2. /\ f \in Proof /\ f.id < fresh /\ f.challenge < fresh /\ f.id = f.challenge
      /\ fresh \in Nat /\ fresh > 0
  BY DEF IInv, FactorInv, BaseInv, Setup
<1>3. /\ x \in Requests /\ x.op = "setup" /\ x.pc = "consume" /\ x.head = 0 /\ x.rows = 2
      /\ x.sid = 0 /\ x.proof = f /\ x.key = None
  <2>1. f \in Shown /\ 2 \in 0 .. 2
    BY <1>2 DEF Shown
  <2> QED
    BY <1>1, <2>1 DEF Requests
<1>4. Fits(x) /\ Evidence(x) = <<f.challenge>>
  BY <1>2, <1>3 DEF Fits, Evidence
<1>5. Holds(x) /\ ~Used(x)
  BY <1>2, <1>3, <1>4 DEF Holds, Ordered, Informed, NewKey, Made, UsedUp, Used
<1>6. /\ req' = [req EXCEPT ![q] = x] /\ Idle(q) /\ Spend("submit") /\ "submit" \in Steps
      /\ clean' = clean
      /\ UNCHANGED <<now, desk, audit, factor, sessions, address, changes, fresh, proofs,
                     cron, answers, grants, mails>>
  BY DEF Setup, Goto, Steps, history
<1> QED
  BY <1>3, <1>4, <1>5, <1>6, Begins

LEMMA LoginOK ==
  ASSUME IInv, NEW q \in Reqs, NEW f \in proofs, Login(q, f)
  PROVE  IInv'
<1> PICK r : r = Request("login", "consume")
  OBVIOUS
<1> PICK x : x = [r EXCEPT !.proof = f]
  OBVIOUS
<1>1. r \in Requests /\ r.op = "login" /\ r.pc = "consume" /\ r.head = 0 /\ r.sid = 0
      /\ r.rows = 1 /\ r.key = None
  BY NewRequest DEF Operations, Places
<1>2. f \in Proof /\ f.id < fresh /\ f.challenge < fresh /\ fresh \in Nat /\ fresh > 0
  BY DEF IInv, FactorInv, BaseInv
<1>3. /\ x \in Requests /\ x.op = "login" /\ x.pc = "consume" /\ x.head = 0 /\ x.rows = 1
      /\ x.sid = 0 /\ x.proof = f /\ x.key = None
  BY <1>1, <1>2 DEF Requests, Shown
<1>4. Fits(x) /\ Evidence(x) = <<f.challenge>>
  BY <1>2, <1>3 DEF Fits, Evidence
<1>5. Holds(x) /\ ~Used(x)
  BY <1>2, <1>3, <1>4 DEF Holds, Ordered, Informed, NewKey, Made, UsedUp, Used
<1>6. /\ req' = [req EXCEPT ![q] = x] /\ Idle(q) /\ Spend("submit") /\ "submit" \in Steps
      /\ clean' = clean
      /\ UNCHANGED <<now, desk, audit, factor, sessions, address, changes, fresh, proofs,
                     cron, answers, grants, mails>>
  BY DEF Login, Goto, Steps, history
<1> QED
  BY <1>3, <1>4, <1>5, <1>6, Begins

LEMMA AddOK ==
  ASSUME IInv, NEW q \in Reqs, NEW f \in proofs, NEW s \in sessions, Add(q, s, f)
  PROVE  IInv'
<1> PICK r : r = Request("add", "consume")
  OBVIOUS
<1> PICK i : i = IF RecoveryPending(s) THEN s.id ELSE 0
  OBVIOUS
<1> PICK x : x = [r EXCEPT !.proof = f, !.sid = i]
  OBVIOUS
<1>1. r \in Requests /\ r.op = "add" /\ r.pc = "consume" /\ r.head = 0 /\ r.rows = 1
      /\ r.key = None
  BY NewRequest DEF Operations, Places
<1>2. /\ f \in Proof /\ f.id < fresh /\ f.challenge < fresh /\ f.id = f.challenge
      /\ fresh \in Nat /\ fresh > 0
  BY DEF IInv, FactorInv, BaseInv, Add
<1>3. i \in Nat /\ i < fresh
  <2>1. s.id \in 0 .. (fresh - 1)
    BY DEF IInv, FactorInv, Ids
  <2> QED
    BY <1>2, <2>1
<1>4. /\ x \in Requests /\ x.op = "add" /\ x.pc = "consume" /\ x.head = 0 /\ x.rows = 1
      /\ x.sid = i /\ x.proof = f /\ x.key = None
  <2>1. f \in Shown /\ i \in Nat /\ x = [r EXCEPT !.proof = f, !.sid = i]
    BY <1>2, <1>3 DEF Shown
  <2> QED
    BY ONLY <1>1, <2>1 DEF Requests
<1>5. Fits(x) /\ Evidence(x) = <<f.challenge>>
  BY <1>2, <1>4 DEF Fits, Evidence
<1>6. Holds(x) /\ ~Used(x)
  BY <1>2, <1>3, <1>4, <1>5 DEF Holds, Ordered, Informed, NewKey, Made, UsedUp, Used
<1>7. /\ req' = [req EXCEPT ![q] = x] /\ Idle(q) /\ Spend("submit") /\ "submit" \in Steps
      /\ clean' = [clean EXCEPT !.adds = @ /\ ~\E o \in Reqs : Adding(o)]
      /\ UNCHANGED <<now, desk, audit, factor, sessions, address, changes, fresh, proofs,
                     cron, answers, grants, mails>>
  BY DEF Add, Goto, Steps
<1> QED
  BY <1>4, <1>5, <1>6, <1>7, Begins

LEMMA RemoveOK ==
  ASSUME IInv, NEW q \in Reqs, NEW p \in passkeys, Remove(q, p.id)
  PROVE  IInv'
<1> PICK r : r = Request("remove", "delete")
  OBVIOUS
<1> PICK x : x = [r EXCEPT !.proof = p.id]
  OBVIOUS
<1>1. r \in Requests /\ r.op = "remove" /\ r.pc = "delete" /\ r.head = 0 /\ r.sid = 0
      /\ r.rows = 1 /\ r.key = None
  BY NewRequest DEF Operations, Places
<1>2. p.id \in Nat /\ fresh \in Nat /\ fresh > 0
  BY DEF IInv, FactorInv, BaseInv, Ids
<1>3. /\ x \in Requests /\ x.op = "remove" /\ x.pc = "delete" /\ x.head = 0 /\ x.rows = 1
      /\ x.sid = 0 /\ x.proof = p.id /\ x.key = None
  BY <1>1, <1>2 DEF Requests, Shown
<1>4. Fits(x) /\ ~Shows(x)
  BY <1>2, <1>3 DEF Fits, Shows
<1>5. Holds(x) /\ ~Used(x)
  BY <1>2, <1>3, <1>4 DEF Holds, Ordered, Informed, NewKey, Made, UsedUp, Used
<1>6. /\ req' = [req EXCEPT ![q] = x] /\ Idle(q) /\ Spend("remove") /\ "remove" \in Steps
      /\ clean' = clean
      /\ UNCHANGED <<now, desk, audit, factor, sessions, address, changes, fresh, proofs,
                     cron, answers, grants, mails>>
  BY DEF Remove, Goto, Steps, history
<1> QED
  BY <1>3, <1>4, <1>5, <1>6, Begins

LEMMA RecoverOK ==
  ASSUME IInv, NEW q \in Reqs, NEW c \in codes, Recover(q, c.issue, c.n)
  PROVE  IInv'
<1> PICK e : e = <<c.issue, c.n>>
  OBVIOUS
<1> PICK r : r = Request("recovery", "code")
  OBVIOUS
<1> PICK x : x = [r EXCEPT !.proof = e]
  OBVIOUS
<1>1. r \in Requests /\ r.op = "recovery" /\ r.pc = "code" /\ r.head = 0 /\ r.sid = 0
      /\ r.rows = 1 /\ r.key = None
  BY NewRequest DEF Operations, Places
<1>2. e \in Nat \X Nat /\ e[1] < fresh /\ fresh \in Nat /\ fresh > 0
  <2>1. PICK i \in Ids, u \in [1 .. RecoveryCodes -> BOOLEAN] : codes = Issued(i, u)
    BY DEF IInv, CodesInv
  <2>2. PICK n \in 1 .. RecoveryCodes : c = [issue |-> i, n |-> n, used |-> u[n]]
    BY <2>1 DEF Issued
  <2>3. c.issue = i /\ c.n = n /\ i \in 0 .. (fresh - 1) /\ n \in Nat
    BY <2>2, AdminAssumption DEF Ids
  <2>4. fresh \in Nat /\ fresh > 0
    BY DEF IInv, BaseInv
  <2> QED
    BY <2>3, <2>4
<1>3. /\ x \in Requests /\ x.op = "recovery" /\ x.pc = "code" /\ x.head = 0 /\ x.rows = 1
      /\ x.sid = 0 /\ x.proof = e /\ x.key = None
  BY <1>1, <1>2 DEF Requests, Shown
<1>4. Fits(x) /\ Evidence(x) = e
  BY <1>2, <1>3 DEF Fits, Evidence
<1>5. Holds(x) /\ ~Used(x)
  BY <1>2, <1>3, <1>4 DEF Holds, Ordered, Informed, NewKey, Made, UsedUp, Used
<1>6. /\ req' = [req EXCEPT ![q] = x] /\ Idle(q) /\ Spend("recover") /\ "recover" \in Steps
      /\ clean' = clean
      /\ UNCHANGED <<now, desk, audit, factor, sessions, address, changes, fresh, proofs,
                     cron, answers, grants, mails>>
  BY DEF Recover, Goto, Steps, history
<1> QED
  BY <1>3, <1>4, <1>5, <1>6, Begins

LEMMA DieOK ==
  ASSUME IInv, NEW q \in Reqs, Die(q)
  PROVE  IInv'
<1>1. /\ UNCHANGED <<now, desk, settings, domains, audit, factor, passkeys, setupUsed, codes,
                     challenges, sessions, address, changes, fresh, proofs, cron, answers, grants,
                     mails>>
      /\ fresh \in Nat /\ Grows /\ req' = [req EXCEPT ![q] = NoRequest]
  BY DEF Die, Done, Goto, desk, factor, IInv, BaseInv, Grows
<1>2. Good' = Good /\ UnusedCodes' = UnusedCodes
  BY <1>1 DEF Good, UnusedCodes
<1>3. /\ left' \in Workload /\ left'.time = left.time
      /\ \A k \in {"patch", "put", "sweep"} : left[k] = 0 => left'[k] = 0
  BY SpendKeeps DEF IInv, Die, Steps
<1>4. \A o : Shape(o) /\ Holds(o) => Holds(o)'
  BY <1>1, HoldsSame DEF IInv, Grows
<1>5. ReqInv'
  BY <1>1, <1>4, MovesOn, NoRequestFacts
<1>6. \A p \in Reqs : req'[p] = IF p = q THEN NoRequest ELSE req[p]
  BY <1>1 DEF IInv, ReqInv
<1>7. KeyInv'
  BY <1>1, <1>3, <1>6, NoRequestFacts DEF IInv, KeyInv
<1> PICK b : b = (clean.setup /\ ~Storing(req[q]))
  OBVIOUS
<1>8. /\ clean' \in [setup : BOOLEAN, adds : BOOLEAN] /\ clean'.adds = clean.adds
      /\ clean'.setup = b
  <2>1. clean \in [setup : BOOLEAN, adds : BOOLEAN] /\ b \in BOOLEAN
    BY DEF IInv, WayInv
  <2>2. clean' = [clean EXCEPT !.setup = b]
    BY DEF Die, Storing
  <2> QED
    BY <2>1, <2>2
<1>9. AddInv'
  BY <1>2, <1>6, <1>8, NoRequestFacts DEF IInv, AddInv, Adding, At
<1>10. WayInv'
  <2>1. \A c \in changes : WillReset(c) => WillReset(c)'
    BY <1>1 DEF WillReset, Due
  <2>2. b => \A p \in Reqs : Storing(req[p]) => Storing(req'[p])
    BY <1>6
  <2> QED
    BY <1>1, <1>8, <2>1, <2>2 DEF IInv, WayInv, Storing
<1> QED
  BY <1>1, <1>2, <1>3, <1>5, <1>7, <1>9, <1>10, BaseKept, AuditKept, FactorKept, CodesKept,
     GrantKept, ChangeKept, CronKept DEF IInv
-----------------------------------------------------------------------------
(* Steps that are no request's.                                            *)

(* They have no effect on the requests.                                    *)
LEMMA AddSame ==
  ASSUME AddInv, UNCHANGED <<req, clean>>, UnusedCodes = {} => UnusedCodes' = {}
  PROVE  AddInv'
BY DEF AddInv, Adding, At

(* A new challenge, and what an authenticator makes of it.                 *)
LEMMA NewChallenge ==
  ASSUME IInv, NEW kind \in Steps, Spend(kind), NEW f \in Proof,
         f.challenge = fresh, f.id <= fresh, f.kind = "register" => f.id = fresh,
         proofs' = proofs \cup {f}, challenges' = challenges \cup {fresh},
         fresh' = fresh + 1,
         UNCHANGED <<now, desk, audit, passkeys, setupUsed, codes, sessions, address, changes,
                     req, cron, history>>
  PROVE  IInv'
<1>1. /\ UNCHANGED <<now, desk, settings, domains, audit, passkeys, setupUsed, codes,
                     sessions, address, changes, req, cron, answers, grants, mails, clean>>
      /\ fresh \in Nat /\ Grows
  BY DEF desk, history, IInv, BaseInv, Grows
<1>2. UnusedCodes' = UnusedCodes
  BY <1>1 DEF UnusedCodes
<1>3. \A e \in Good' : e \in Good \/ e[1] = fresh
  BY <1>2, SinglesDiffer DEF Good
<1>4. /\ left' \in Workload /\ left'.time = left.time
      /\ \A k \in {"patch", "put", "sweep"} : left[k] = 0 => left'[k] = 0
  BY SpendKeeps DEF IInv
<1>5. ReqInv'
  <2>1. \A o : Shape(o) /\ Holds(o) => Holds(o)'
    BY <1>1, <1>3, HoldsFresh DEF IInv
  <2>2. \A p \in Reqs : \A r : r = req[p] => Holds(r)'
    BY <2>1 DEF IInv, ReqInv
  <2> QED
    BY <1>1, <2>2, NoRequestStep DEF IInv
<1>6. GrantInv'
  BY <1>1, <1>3, GrantFresh DEF IInv
<1>7. FactorInv'
  <2>1. Ids \subseteq Ids' /\ fresh \in Ids'
    BY <1>1, Wider DEF Grows, Ids
  <2>2. /\ passkeys' \subseteq [id : Ids', count : Nat] /\ challenges' \subseteq Ids'
        /\ sessions' \subseteq [id : Ids', amr : {"passkey", "recovery"}]
    BY <1>1, <2>1 DEF IInv, FactorInv
  <2>3. proofs' \subseteq Proof /\ IsFiniteSet(proofs')
    BY FS_AddElement DEF IInv, FactorInv
  <2>4. \A g \in proofs' : g.challenge < fresh' /\ g.id < fresh'
                           /\ (g.kind = "register" => g.id = g.challenge)
    <3> TAKE g \in proofs'
    <3>1. g \in Proof /\ g.challenge \in Nat /\ g.id \in Nat
      BY <2>3 DEF Proof
    <3>2. CASE g = f
      BY <1>1, <3>1, <3>2
    <3>3. CASE g \in proofs
      BY <1>1, <3>1, <3>3 DEF IInv, FactorInv
    <3> QED
      BY <3>2, <3>3
  <2> QED
    BY <1>1, <2>2, <2>3, <2>4 DEF IInv, FactorInv
<1>8. KeyInv' /\ WayInv'
  BY <1>1, <1>4, KeyKept, WayKept DEF IInv
<1> QED
  BY <1>1, <1>2, <1>4, <1>5, <1>6, <1>7, <1>8, BaseKept, AuditKept, CodesKept, AddSame,
     ChangeKept, CronKept DEF IInv

LEMMA RegistrationOptionsOK ==
  ASSUME IInv, RegistrationOptions
  PROVE  IInv'
<1>1. PICK valid \in left.valid :
        proofs' = proofs \cup {[kind |-> "register", challenge |-> fresh, id |-> fresh,
                                count |-> 0, valid |-> valid]}
  BY DEF RegistrationOptions
<1> PICK f : f = [kind |-> "register", challenge |-> fresh, id |-> fresh, count |-> 0,
                  valid |-> valid]
  OBVIOUS
<1>2. fresh \in Nat /\ valid \in BOOLEAN
  BY DEF IInv, BaseInv, Workload
<1>3. f \in Proof /\ f.challenge = fresh /\ f.id = fresh
  BY <1>2 DEF Proof
<1>4. f.id <= fresh /\ proofs' = proofs \cup {f}
  BY <1>1, <1>2, <1>3
<1>5. /\ Spend("register") /\ "register" \in Steps
      /\ challenges' = challenges \cup {fresh} /\ fresh' = fresh + 1
      /\ UNCHANGED <<now, desk, audit, passkeys, setupUsed, codes, sessions, address, changes,
                     req, cron, history>>
  BY DEF RegistrationOptions, Steps
<1> QED
  BY <1>3, <1>4, <1>5, NewChallenge

LEMMA AssertionOptionsOK ==
  ASSUME IInv, NEW p \in passkeys, AssertionOptions(p.id)
  PROVE  IInv'
<1> PICK n : n = IF left.counting THEN Signed(p.id) + 1 ELSE 0
  OBVIOUS
<1> PICK f : f = [kind |-> "assert", challenge |-> fresh, id |-> p.id, count |-> n,
                  valid |-> TRUE]
  OBVIOUS
<1>1. n \in Nat
  <2> PICK mine : mine = {g \in proofs : g.kind = "assert" /\ g.id = p.id}
    OBVIOUS
  <2>1. IsFiniteSet(mine)
    BY FS_Subset DEF IInv, FactorInv
  <2>2. Cardinality(mine) \in Nat /\ Signed(p.id) = Cardinality(mine)
    BY <2>1, FS_CardinalityType DEF Signed
  <2> QED
    BY <2>2
<1>2. fresh \in Nat /\ p.id \in Nat /\ p.id <= fresh
  <2>1. p.id \in 0 .. (fresh - 1) /\ fresh \in Nat
    BY DEF IInv, BaseInv, FactorInv, Ids
  <2> QED
    BY <2>1
<1>3. f \in Proof /\ f.challenge = fresh /\ f.id = p.id /\ f.kind # "register"
  BY <1>1, <1>2 DEF Proof
<1>4. f.id <= fresh /\ proofs' = proofs \cup {f}
  BY <1>2, <1>3 DEF AssertionOptions
<1>5. /\ Spend("assert") /\ "assert" \in Steps
      /\ challenges' = challenges \cup {fresh} /\ fresh' = fresh + 1
      /\ UNCHANGED <<now, desk, audit, passkeys, setupUsed, codes, sessions, address, changes,
                     req, cron, history>>
  BY DEF AssertionOptions, Steps
<1> QED
  BY <1>3, <1>4, <1>5, NewChallenge

LEMMA RequestChangeOK ==
  ASSUME IInv, NEW kind \in {"email", "reset"}, NEW delay \in {0, 1}, RequestChange(kind, delay)
  PROVE  IInv'
<1> PICK n : n = now + CoolDown + delay
  OBVIOUS
<1> PICK d : d = [id |-> fresh, kind |-> kind, requested |-> now, effective |-> n,
                  notified |-> 0, applied |-> 0]
  OBVIOUS
<1>1. /\ UNCHANGED <<now, desk, settings, domains, audit, factor, passkeys, setupUsed, codes,
                     challenges, sessions, address, proofs, req, cron, answers, grants, mails,
                     clean>>
      /\ fresh \in Nat /\ fresh > 0 /\ fresh' = fresh + 1 /\ Grows
      /\ changes' = changes \cup {d}
  BY DEF RequestChange, desk, factor, history, IInv, BaseInv, Grows
<1>2. UnusedCodes' = UnusedCodes /\ Good' = Good
  BY <1>1 DEF UnusedCodes, Good
<1>3. /\ left' \in Workload /\ left'.time = left.time
      /\ \A k \in {"patch", "put", "sweep"} : left[k] = 0 => left'[k] = 0
  BY SpendKeeps DEF IInv, RequestChange, Steps
<1>4. ReqInv'
  <2>1. \A o : Shape(o) /\ Holds(o) => Holds(o)'
    BY <1>1, HoldsSame DEF IInv, Grows
  <2>2. \A p \in Reqs : \A r : r = req[p] => Holds(r)'
    BY <2>1 DEF IInv, ReqInv
  <2> QED
    BY <1>1, <2>2, NoRequestStep DEF IInv
<1>5. Ids \subseteq Ids' /\ 1 .. (fresh - 1) \subseteq 1 .. (fresh' - 1) /\ fresh \in 1 .. (fresh' - 1)
  BY <1>1, Wider DEF Grows, Ids
<1>6. ChangeInv'
  <2>1. d \in [id : 1 .. (fresh' - 1), kind : Kinds, requested : Nat, effective : Nat,
               notified : Nat, applied : Nat]
        /\ d.id = fresh /\ d.applied = 0 /\ d.notified = 0
    <3>1. n \in Nat /\ now \in Nat
      BY AdminAssumption DEF IInv, BaseInv
    <3> QED
      BY <1>5, <3>1 DEF Kinds
  <2>2. \A c \in changes : /\ c \in [id : 1 .. (fresh' - 1), kind : Kinds, requested : Nat,
                                     effective : Nat, notified : Nat, applied : Nat]
                           /\ c.id # fresh
    BY <1>1, <1>5 DEF IInv, ChangeInv
  <2>3. address # fresh /\ address \in Ids'
    <3>1. address \in 0 .. (fresh - 1)
      BY DEF IInv, ChangeInv, Ids
    <3> QED
      BY <1>1, <1>5, <3>1 DEF Ids
  <2>4. \A b, c \in changes' : b.id = c.id => b = c
    BY <1>1, <2>1, <2>2 DEF IInv, ChangeInv
  <2>5. \A c \in changes' : c.notified # 0 => Mailed(c.id)'
    BY <1>1, <2>1 DEF IInv, ChangeInv, Mailed
  <2>6. NoticedFirst'
    <3> SUFFICES ASSUME NEW c \in changes',
                        c.applied # 0 \/ (c.kind = "email" /\ address = c.id)
                 PROVE  now >= c.requested + CoolDown /\ \E m \in mails : m[1] = c.id
      BY <1>1 DEF NoticedFirst
    <3>1. c \in changes
      BY <1>1, <2>1, <2>3
    <3> QED
      BY <3>1 DEF IInv, ChangeInv, NoticedFirst
  <2> QED
    BY <1>1, <2>1, <2>2, <2>3, <2>4, <2>5, <2>6 DEF ChangeInv
<1>7. CronInv'
  <2>1. cron' \in [pc : {"rest", "mail", "notified", "next", "email", "passkeys", "codes", "flag",
                         "revoke", "applied"},
                   address : Ids', todo : SUBSET Ids', cur : Ids', time : Nat]
    BY <1>1, <1>5 DEF IInv, CronInv, CronOK
  <2>2. \A i : Known(i) => Known(i)'
    BY <1>1 DEF Known
  <2>3. \A i, ks : DueOf(i, ks) => DueOf(i, ks)'
    BY <1>1 DEF DueOf, Due
  <2>4. \A i : Mailed(i) => Mailed(i)'
    BY <1>1 DEF Mailed
  <2> QED
    BY <1>1, <2>1, <2>2, <2>3, <2>4 DEF IInv, CronInv, CronOK, Kinds
<1>8. WayInv'
  <2>1. \A c \in changes : WillReset(c) => WillReset(c)' /\ c \in changes'
    BY <1>1 DEF WillReset, Due
  <2> QED
    BY <1>1, <2>1 DEF IInv, WayInv, Storing
<1>9. FactorInv' /\ KeyInv' /\ AddInv' /\ GrantInv'
  BY <1>1, <1>2, <1>3, FactorKept, KeyKept, AddSame, GrantKept DEF IInv
<1> QED
  BY <1>1, <1>3, <1>4, <1>6, <1>7, <1>8, <1>9, BaseKept, AuditKept, CodesKept DEF IInv

LEMMA SweepAuditOK ==
  ASSUME IInv, SweepAudit
  PROVE  IInv'
<1>1. /\ UNCHANGED <<now, desk, settings, domains, factor, passkeys, setupUsed, codes,
                     challenges, sessions, address, changes, fresh, proofs, req, cron, answers,
                     grants, mails, clean>>
      /\ fresh \in Nat /\ Grows /\ audit' = {r \in audit : r.at >= now - Retention}
  BY DEF SweepAudit, desk, factor, history, IInv, BaseInv, Grows
<1>2. UnusedCodes' = UnusedCodes /\ Good' = Good
  BY <1>1 DEF UnusedCodes, Good
<1>3. /\ left' \in Workload /\ left'.time = left.time /\ left.sweep > 0
      /\ \A k \in {"patch", "put", "sweep"} : left[k] = 0 => left'[k] = 0
  BY SpendKeeps DEF IInv, SweepAudit, Steps
<1>4. \A s \in audit : s.at \in Nat /\ s.id \in Nat
  BY DEF IInv, AuditInv, Row
<1>5. now \in Nat /\ Retention \in Nat
  BY AdminAssumption DEF IInv, BaseInv
<1>6. \A r, s \in audit : r \in audit' /\ r.at <= s.at => s \in audit'
  BY <1>1, <1>4, <1>5
<1>7. AuditInv'
  <2>1. audit' # {} => \E h \in audit' : \A s \in audit' : s.at <= h.at
    <3> SUFFICES ASSUME NEW r \in audit' PROVE \E h \in audit' : \A s \in audit' : s.at <= h.at
      OBVIOUS
    <3>1. PICK h \in audit : \A s \in audit : s.at <= h.at
      BY <1>1 DEF IInv, AuditInv
    <3> QED
      BY <1>1, <1>6, <3>1
  <2>2. ChainUnbroken'
    <3> SUFFICES ASSUME NEW s \in audit', NEW u \in audit', Before(u, s)
                 PROVE  \E h \in {v \in audit' : Before(v, s)} :
                          s.prev = h.id /\ \A t \in {v \in audit' : Before(v, s)} : ~Before(h, t)
      BY DEF ChainUnbroken
    <3>1. s \in audit /\ u \in audit
      BY <1>1
    <3>2. PICK h \in {v \in audit : Before(v, s)} :
             s.prev = h.id /\ \A t \in {v \in audit : Before(v, s)} : ~Before(h, t)
      BY <3>1 DEF IInv, AuditInv, ChainUnbroken
    <3>3. ~Before(h, u)
      BY <3>1, <3>2
    <3>4. u.at <= h.at
      BY <1>4, <3>1, <3>2, <3>3 DEF Before
    <3>5. h \in audit'
      BY <1>6, <3>1, <3>2, <3>4
    <3> QED
      BY <1>1, <3>2, <3>5
  <2>3. Row' = Row
    BY <1>1 DEF Row, Ids
  <2> QED
    BY <1>1, <2>1, <2>2, <2>3 DEF IInv, AuditInv
<1>8. KeyInv'
  <2>1. CASE left.time <= Retention
    <3>1. \A s \in audit : s.at >= now - Retention
      <4>1. now <= left.time /\ left.time \in Nat
        BY DEF IInv, BaseInv, Workload
      <4>2. now - Retention <= 0
        BY <1>5, <2>1, <4>1
      <4> QED
        BY <1>4, <1>5, <4>2
    <3>2. audit' = audit
      BY <1>1, <3>1
    <3> QED
      BY <1>1, <1>3, <2>1, <3>2 DEF IInv, KeyInv
  <2>2. CASE /\ left.patch = 0 /\ left.put = 0
             /\ \A q \in Reqs : req[q].op \notin {"patch", "put"}
             /\ \A s \in audit : s.key = None
    <3>1. answers = {}
      BY <2>2, NoneAssumption DEF IInv, KeyInv
    <3> QED
      BY <1>1, <1>3, <2>2, <3>1 DEF KeyInv
  <2> QED
    BY <1>3, <2>1, <2>2 DEF IInv, KeyInv
<1>9. ReqInv'
  <2>1. \A o : Holds(o) => Holds(o)'
    BY <1>1, <1>2 DEF Holds, Ordered, Informed, NewKey, Passkey, Made, UsedUp, Granted
  <2>2. \A p \in Reqs : \A r : r = req[p] => Holds(r)'
    BY <2>1 DEF IInv, ReqInv
  <2> QED
    BY <1>1, <2>2, NoRequestStep DEF IInv
<1>10. WayInv'
  BY <1>1, WayKept DEF IInv
<1> QED
  BY <1>1, <1>2, <1>3, <1>7, <1>8, <1>9, <1>10, BaseKept, FactorKept, CodesKept, GrantKept,
     AddSame, ChangeKept, CronKept DEF IInv
-----------------------------------------------------------------------------
(* The cron and the clock.                                                 *)

(* What the cron may do to the second factor and the sessions.             *)
LEMMA CronLeaves ==
  ASSUME IInv,
         UNCHANGED <<now, desk, audit, challenges, fresh, proofs, req, answers, grants, clean>>,
         left' \in Workload, left'.time = left.time,
         \A k \in {"patch", "put", "sweep"} : left[k] = 0 => left'[k] = 0,
         codes' \in {codes, {}}, passkeys' \in {passkeys, {}}, setupUsed' \in {setupUsed, FALSE},
         sessions' \in {sessions, {}},
         ChangeInv', CronInv', WayInv'
  PROVE  IInv'
<1>1. UNCHANGED <<settings, domains>> /\ fresh \in Nat /\ Grows
  BY DEF desk, IInv, BaseInv, Grows
<1>2. UnusedCodes' \subseteq UnusedCodes /\ Good' \subseteq Good /\ Granted' = Granted
  BY DEF UnusedCodes, Good, Granted
<1>3. \A o : Holds(o) => Holds(o)'
  BY <1>1, <1>2 DEF Holds, Ordered, Informed, NewKey, Passkey, Made, UsedUp
<1>4. ReqInv'
  <2>1. \A p \in Reqs : \A r : r = req[p] => Holds(r)'
    BY <1>3 DEF IInv, ReqInv
  <2> QED
    BY <2>1, NoRequestStep DEF IInv
<1>5. FactorInv'
  <2>1. passkeys' \subseteq passkeys /\ sessions' \subseteq sessions
        /\ IsFiniteSet(passkeys') /\ setupUsed' \in BOOLEAN
    BY FS_EmptySet DEF IInv, FactorInv
  <2> QED
    BY <2>1 DEF IInv, FactorInv, Ids
<1>6. CodesInv'
  BY <1>1, CodesKept DEF IInv, CodesInv
<1>7. KeyInv' /\ AddInv'
  <2>1. UnusedCodes = {} => UnusedCodes' = {}
    BY <1>2
  <2> QED
    BY <2>1, KeyKept, AddSame DEF IInv
<1> QED
  BY <1>1, <1>2, <1>4, <1>5, <1>6, <1>7, BaseKept, AuditKept, GrantKept DEF IInv

(* There is one change of an id.                                           *)
LEMMA ChangeFacts ==
  ASSUME ChangeInv, NEW c \in changes
  PROVE  /\ Change(c.id) = c
         /\ c.id \in Nat /\ c.id > 0 /\ c.id \in Ids /\ c.kind \in Kinds
<1>1. \A d \in changes : d.id = c.id <=> d = c
  BY DEF ChangeInv
<1>2. (CHOOSE d \in changes : d.id = c.id) = c
  BY <1>1
<1>3. c.id \in 1 .. (fresh - 1) /\ c.kind \in Kinds
  BY DEF ChangeInv
<1> QED
  BY <1>2, <1>3 DEF Change, Ids

Phases == {"rest", "mail", "notified", "next", "email", "passkeys", "codes", "flag",
           "revoke", "applied"}
Crons == [pc : Phases, address : Ids, todo : SUBSET Ids, cur : Ids, time : Nat]

LEMMA CronFacts ==
  ASSUME IInv
  PROVE  /\ cron \in Crons /\ address \in Ids /\ 0 \in Ids
         /\ \A x : CronOK(x) => x \in Crons
         /\ Resting \in Crons /\ CronOK(Resting)
BY DEF IInv, CronInv, CronOK, ChangeInv, BaseInv, Crons, Phases, Ids, Resting

(* The cron's own steps, where no table changes.                           *)
LEMMA CronOnly ==
  ASSUME IInv,
         UNCHANGED <<now, desk, audit, factor, sessions, address, changes, fresh, proofs, req,
                     left, answers, grants, clean>>,
         mails' = mails \/ \E i, a : mails' = mails \cup {<<i, a>>},
         NEW x, cron' = x, CronOK(x)',
         \A c \in changes : WillReset(c) => WillReset(c)'
  PROVE  IInv'
<1>1. /\ UNCHANGED <<passkeys, setupUsed, codes, challenges>> /\ left \in Workload
      /\ fresh \in Nat /\ Grows
  BY DEF factor, IInv, BaseInv, Grows
<1>2. mails \subseteq mails'
  OBVIOUS
<1>3. ChangeInv'
  BY <1>2 DEF IInv, ChangeInv, Mailed, NoticedFirst, Ids
<1>4. CronInv'
  BY DEF CronInv, CronOK, Mailed, Known, DueOf, Due
<1>5. WayInv'
  BY <1>1 DEF IInv, WayInv, Storing
<1> QED
  BY <1>1, <1>3, <1>4, <1>5, CronLeaves

LEMMA ReadUnnotifiedOK ==
  ASSUME IInv, ReadUnnotified
  PROVE  IInv'
<1>1. PICK ids : cron' = [cron EXCEPT !.pc = "mail", !.address = address, !.todo = ids]
                 /\ \A i \in ids : i \in Ids /\ Known(i)
  <2>1. \A i \in {c.id : c \in {d \in changes : Unnotified(d)}} : i \in Ids /\ Known(i)
    BY ChangeFacts DEF IInv, Known
  <2> QED
    BY <2>1, Zenon DEF ReadUnnotified
<1> PICK x : x = [cron EXCEPT !.pc = "mail", !.address = address, !.todo = ids]
  OBVIOUS
<1>2. /\ x \in Crons /\ x.pc = "mail" /\ x.todo = ids
  BY <1>1, CronFacts DEF Crons, Phases
<1>3. /\ UNCHANGED <<now, desk, audit, factor, sessions, address, changes, fresh, proofs, req,
                     left, answers, grants, clean>>
      /\ mails' = mails /\ cron' = x
  BY <1>1 DEF ReadUnnotified, history
<1>4. CronOK(x)'
  BY <1>1, <1>2, <1>3 DEF CronOK, Crons, Phases, Known, Ids
<1>5. \A c \in changes : WillReset(c) => WillReset(c)'
  BY <1>2, <1>3 DEF WillReset, Due
<1> QED
  BY <1>3, <1>4, <1>5, CronOnly

LEMMA ReadDueOK ==
  ASSUME IInv, ReadDue
  PROVE  IInv'
<1>1. PICK ids : cron' = [cron EXCEPT !.pc = "next", !.time = now, !.todo = ids]
                 /\ \A i \in ids : i \in Ids /\ DueOf(i, Kinds)
  <2>1. \A i \in {c.id : c \in {d \in changes : Due(d)}} : i \in Ids /\ DueOf(i, Kinds)
    BY ChangeFacts DEF IInv, DueOf
  <2> QED
    BY <2>1, Zenon DEF ReadDue
<1> PICK x : x = [cron EXCEPT !.pc = "next", !.time = now, !.todo = ids]
  OBVIOUS
<1>2. /\ x \in Crons /\ x.pc = "next" /\ x.todo = ids /\ x.time = now /\ now > 0
  <2>1. ids \in SUBSET Ids /\ now \in Nat /\ now > 0 /\ cron \in Crons
    BY <1>1, CronFacts DEF IInv, BaseInv
  <2> QED
    BY <2>1 DEF Crons, Phases
<1>3. /\ UNCHANGED <<now, desk, audit, factor, sessions, address, changes, fresh, proofs, req,
                     left, answers, grants, clean>>
      /\ mails' = mails /\ cron' = x
  BY <1>1 DEF ReadDue, history
<1>4. CronOK(x)'
  BY <1>1, <1>2, <1>3 DEF CronOK, Crons, Phases, DueOf, Due, Ids
<1>5. \A c \in changes : WillReset(c) => WillReset(c)'
  BY <1>2, <1>3 DEF WillReset, Due
<1> QED
  BY <1>3, <1>4, <1>5, CronOnly

LEMMA CronEndsOK ==
  ASSUME IInv, CronEnds
  PROVE  IInv'
<1>1. /\ UNCHANGED <<now, desk, audit, factor, sessions, address, changes, fresh, proofs, req,
                     left, answers, grants, clean>>
      /\ mails' = mails /\ cron' = Resting
  BY DEF CronEnds, history
<1>2. CronOK(Resting)'
  BY <1>1, CronFacts DEF CronOK, Resting, Ids
<1>3. \A c \in changes : WillReset(c) => WillReset(c)'
  BY <1>1 DEF WillReset, Due, Resting
<1> QED
  BY <1>1, <1>2, <1>3, CronOnly

LEMMA CronDiesOK ==
  ASSUME IInv, CronDies
  PROVE  IInv'
<1>1. /\ UNCHANGED <<now, desk, audit, factor, passkeys, setupUsed, codes, challenges, sessions,
                     address, changes, fresh, proofs, req, answers, grants, mails, clean>>
      /\ cron' = Resting /\ fresh \in Nat /\ Grows
  BY DEF CronDies, history, factor, IInv, BaseInv, Grows
<1>2. /\ left' \in Workload /\ left'.time = left.time
      /\ \A k \in {"patch", "put", "sweep"} : left[k] = 0 => left'[k] = 0
  BY SpendKeeps DEF IInv, CronDies, Steps
<1>3. CronInv'
  BY <1>1, CronFacts DEF CronInv, CronOK, Resting, Ids
<1>4. WayInv'
  <2>1. \A c \in changes : WillReset(c) => WillReset(c)'
    BY <1>1 DEF WillReset, Due, Resting
  <2> QED
    BY <1>1, <2>1 DEF IInv, WayInv, Storing
<1>5. ChangeInv'
  BY <1>1, ChangeKept DEF IInv
<1> QED
  BY <1>1, <1>2, <1>3, <1>4, <1>5, CronLeaves

LEMMA MailNoticeOK ==
  ASSUME IInv, NEW c \in changes, MailNotice(c.id)
  PROVE  IInv'
<1> PICK i : i = c.id
  OBVIOUS
<1> PICK rest : rest = cron.todo \ {i}
  OBVIOUS
<1>1. i \in Ids /\ Known(i) /\ rest \subseteq Ids /\ \A j \in rest : Known(j)
  BY ChangeFacts, CronFacts DEF IInv, Known, CronInv, CronOK, Crons, MailNotice, CronAt
<1>2. /\ UNCHANGED <<now, desk, audit, factor, sessions, address, changes, fresh, proofs, req,
                     answers, grants, clean>>
  BY DEF MailNotice
<1>3. CASE /\ mails' = mails \cup {<<i, cron.address>>} /\ UNCHANGED left
           /\ cron' = [cron EXCEPT !.pc = "notified", !.todo = rest, !.cur = i]
  <2> PICK x : x = [cron EXCEPT !.pc = "notified", !.todo = rest, !.cur = i]
    OBVIOUS
  <2>1. /\ x \in Crons /\ x.pc = "notified" /\ x.todo = rest /\ x.cur = i /\ cron' = x
    BY <1>1, <1>3, CronFacts DEF Crons, Phases
  <2>2. Mailed(i)'
    <3>1. <<i, cron.address>> \in mails' /\ <<i, cron.address>>[1] = i
      BY <1>3
    <3> QED
      BY <3>1 DEF Mailed
  <2>3. CronOK(x)'
    BY <1>1, <1>2, <2>1, <2>2 DEF CronOK, Crons, Phases, Known, Ids
  <2>4. \A d \in changes : WillReset(d) => WillReset(d)'
    BY <1>2, <2>1 DEF WillReset, Due
  <2> QED
    BY <1>2, <1>3, <2>1, <2>3, <2>4, CronOnly
<1>4. CASE Spend("fail") /\ UNCHANGED mails /\ cron' = [cron EXCEPT !.todo = rest]
  <2> PICK x : x = [cron EXCEPT !.todo = rest]
    OBVIOUS
  <2>1. /\ x \in Crons /\ x.pc = "mail" /\ x.todo = rest /\ cron' = x
    BY <1>1, <1>4, CronFacts DEF Crons, MailNotice, CronAt
  <2>2. /\ left' \in Workload /\ left'.time = left.time
        /\ \A k \in {"patch", "put", "sweep"} : left[k] = 0 => left'[k] = 0
    BY <1>4, SpendKeeps DEF IInv, Steps
  <2>3. UNCHANGED <<passkeys, setupUsed, codes, challenges>> /\ fresh \in Nat /\ Grows
    BY <1>2 DEF factor, IInv, BaseInv, Grows
  <2>4. CronInv'
    BY <1>1, <1>2, <2>1 DEF CronInv, CronOK, Crons, Phases, Known, Ids
  <2>5. WayInv'
    <3>1. \A d \in changes : WillReset(d) => WillReset(d)'
      BY <1>2, <2>1 DEF WillReset, Due
    <3> QED
      BY <1>2, <2>3, <3>1 DEF IInv, WayInv, Storing
  <2>6. ChangeInv'
    BY <1>2, <1>4, <2>3, ChangeKept DEF IInv
  <2> QED
    BY <1>2, <2>2, <2>3, <2>4, <2>5, <2>6, CronLeaves
<1> QED
  BY <1>3, <1>4 DEF MailNotice

LEMMA ApplyNextOK ==
  ASSUME IInv, NEW c \in changes, ApplyNext(c.id)
  PROVE  IInv'
<1> PICK i : i = c.id
  OBVIOUS
<1> PICK rest : rest = cron.todo \ {i}
  OBVIOUS
<1> PICK p : p = IF c.kind = "email" THEN "email" ELSE "passkeys"
  OBVIOUS
<1>1. /\ i \in Ids /\ Change(i) = c /\ c.kind \in {"email", "reset"} /\ rest \subseteq Ids
      /\ p \in {"email", "passkeys"}
  BY ChangeFacts, CronFacts DEF IInv, Crons, Kinds
<1>2. cron.pc = "next" /\ i \in cron.todo
  BY DEF ApplyNext, CronAt
<1>3. cron.time > 0 /\ \A j \in cron.todo : DueOf(j, Kinds)
  BY <1>2 DEF IInv, CronInv, CronOK
<1>4. Due(c)
  <2>1. PICK d \in changes : d.id = i /\ Due(d)
    BY <1>2, <1>3 DEF DueOf
  <2> QED
    BY <2>1 DEF IInv, ChangeInv
<1> PICK x : x = [cron EXCEPT !.todo = rest, !.cur = i, !.pc = p]
  OBVIOUS
<1>5. x \in Crons /\ x.pc = p /\ x.todo = rest /\ x.cur = i /\ x.time = cron.time
  BY <1>1, CronFacts DEF Crons, Phases
<1>6. /\ UNCHANGED <<now, desk, audit, factor, sessions, address, changes, fresh, proofs, req,
                     left, answers, grants, clean>>
      /\ mails' = mails /\ cron' = x
  BY <1>1 DEF ApplyNext, history
<1>7. /\ DueOf(i, Kinds)' /\ (p = "email" => DueOf(i, {"email"})')
      /\ (p = "passkeys" => DueOf(i, {"reset"})')
      /\ \A j \in rest : DueOf(j, Kinds)'
  BY <1>1, <1>3, <1>4, <1>6 DEF DueOf, Due, Kinds
<1>8. CronOK(x)'
  BY <1>1, <1>3, <1>5, <1>6, <1>7 DEF CronOK, Crons, Phases, Ids
<1>9. \A d \in changes : WillReset(d) => WillReset(d)'
  BY <1>1, <1>5, <1>6 DEF WillReset, Due
<1> QED
  BY <1>6, <1>8, <1>9, CronOnly

(* The change the cron is at.                                              *)
LEMMA AtChange ==
  ASSUME IInv, cron.pc \in {"notified", "email", "passkeys", "codes", "flag", "revoke", "applied"}
  PROVE  \E c \in changes :
           /\ c.id = cron.cur /\ Change(cron.cur) = c /\ c.kind \in Kinds
           /\ \A d \in changes : d.id = cron.cur => d = c
           /\ cron.pc = "notified" => Mailed(c.id)
           /\ cron.pc # "notified" => /\ Due(c) /\ Mailed(c.id) /\ cron.time > 0
                                      /\ cron.cur \notin cron.todo
           /\ cron.pc = "email" => c.kind = "email"
           /\ cron.pc \in {"passkeys", "codes", "flag"} => c.kind = "reset"
<1>1. CronOK(cron) /\ ChangeInv
  BY DEF IInv, CronInv
<1>2. PICK c \in changes :
        /\ c.id = cron.cur
        /\ cron.pc # "notified" => Due(c)
        /\ cron.pc = "email" => c.kind = "email"
        /\ cron.pc \in {"passkeys", "codes", "flag"} => c.kind = "reset"
  <2>1. CASE cron.pc = "notified"
    BY <1>1, <2>1 DEF CronOK, Known
  <2>2. CASE cron.pc = "email"
    BY <1>1, <2>2 DEF CronOK, DueOf
  <2>3. CASE cron.pc \in {"passkeys", "codes", "flag"}
    BY <1>1, <2>3 DEF CronOK, DueOf
  <2>4. CASE cron.pc \in {"revoke", "applied"}
    BY <1>1, <2>4 DEF CronOK, DueOf
  <2> QED
    BY <2>1, <2>2, <2>3, <2>4
<1>3. /\ Change(cron.cur) = c /\ c.kind \in Kinds
      /\ \A d \in changes : d.id = cron.cur => d = c
  BY <1>1, <1>2, ChangeFacts DEF ChangeInv
<1>4. cron.pc = "notified" => Mailed(c.id)
  BY <1>1, <1>2 DEF CronOK
<1>5. cron.pc # "notified" => Mailed(c.id)
  BY <1>1, <1>2 DEF ChangeInv, Due
<1>6. cron.pc # "notified" => cron.time > 0 /\ cron.cur \notin cron.todo
  BY <1>1 DEF CronOK
<1> QED
  BY <1>2, <1>3, <1>4, <1>5, <1>6

(* On to another place with the same change.                               *)
LEMMA CronMoves ==
  ASSUME IInv, NEW p \in Phases, CronNext(p)
  PROVE  /\ cron' \in Crons /\ cron'.pc = p /\ cron'.cur = cron.cur
         /\ cron'.todo = cron.todo /\ cron'.time = cron.time
BY CronFacts DEF CronNext, Crons

LEMMA MarkNotifiedOK ==
  ASSUME IInv, MarkNotified
  PROVE  IInv'
<1>1. cron.pc = "notified"
  BY DEF MarkNotified, CronAt
<1>2. PICK c \in changes : /\ c.id = cron.cur /\ Change(cron.cur) = c /\ Mailed(c.id)
                           /\ \A d \in changes : d.id = cron.cur => d = c
  BY <1>1, AtChange
<1> PICK d : d = [c EXCEPT !.notified = now]
  OBVIOUS
<1>3. c \in [id : 1 .. (fresh - 1), kind : Kinds, requested : Nat, effective : Nat,
             notified : Nat, applied : Nat] /\ now \in Nat /\ now # 0
  BY DEF IInv, BaseInv, ChangeInv
<1>4. /\ d \in [id : 1 .. (fresh - 1), kind : Kinds, requested : Nat, effective : Nat,
                notified : Nat, applied : Nat]
      /\ d.id = c.id /\ d.kind = c.kind /\ d.requested = c.requested
      /\ d.effective = c.effective /\ d.applied = c.applied /\ d.notified = now
  BY <1>3
<1>5. /\ UNCHANGED <<now, desk, audit, factor, passkeys, setupUsed, codes, challenges, sessions,
                     address, fresh, proofs, req, left, answers, grants, mails, clean>>
      /\ changes' = (changes \ {c}) \cup {d} /\ cron' = [cron EXCEPT !.pc = "mail"]
      /\ fresh \in Nat /\ left \in Workload
  BY <1>2 DEF MarkNotified, Replace, history, factor, IInv, BaseInv
<1>6. ChangeInv'
  <2>1. \A b, e \in changes' : b.id = e.id => b = e
    BY <1>2, <1>4, <1>5 DEF IInv, ChangeInv
  <2>2. \A e \in changes' : e.notified # 0 => Mailed(e.id)'
    BY <1>2, <1>4, <1>5 DEF IInv, ChangeInv, Mailed
  <2>3. NoticedFirst'
    <3> SUFFICES ASSUME NEW e \in changes',
                        e.applied # 0 \/ (e.kind = "email" /\ address = e.id)
                 PROVE  now >= e.requested + CoolDown /\ \E m \in mails : m[1] = e.id
      BY <1>5 DEF NoticedFirst
    <3>1. CASE e = d
      BY <1>4, <3>1 DEF IInv, ChangeInv, NoticedFirst
    <3>2. CASE e \in changes
      BY <3>2 DEF IInv, ChangeInv, NoticedFirst
    <3> QED
      BY <1>5, <3>1, <3>2
  <2>4. changes' \subseteq [id : 1 .. (fresh' - 1), kind : Kinds, requested : Nat,
                            effective : Nat, notified : Nat, applied : Nat]
    BY <1>4, <1>5 DEF IInv, ChangeInv
  <2> QED
    BY <1>5, <2>1, <2>2, <2>3, <2>4 DEF IInv, ChangeInv, Ids
<1>7. CronInv'
  <2>1. cron' \in Crons /\ cron'.pc = "mail" /\ cron'.todo = cron.todo
    BY <1>5, CronFacts DEF Crons, Phases
  <2>2. \A i : Known(i) => Known(i)'
    BY <1>4, <1>5 DEF Known
  <2>3. \A i \in cron.todo : Known(i)
    BY <1>1 DEF IInv, CronInv, CronOK
  <2> QED
    BY <1>5, <2>1, <2>2, <2>3 DEF CronInv, CronOK, Crons, Phases, Ids
<1>8. WayInv'
  <2>1. cron'.pc = "mail"
    BY <1>5, CronFacts DEF Crons, Phases
  <2>2. \A e \in changes : e # c /\ WillReset(e) => e \in changes' /\ WillReset(e)'
    BY <1>5, <2>1 DEF WillReset, Due
  <2>3. WillReset(c) => d \in changes' /\ WillReset(d)'
    BY <1>3, <1>4, <1>5, <2>1 DEF WillReset, Due
  <2> QED
    BY <1>5, <2>2, <2>3 DEF IInv, WayInv, Storing
<1> QED
  BY <1>5, <1>6, <1>7, <1>8, CronLeaves

LEMMA ReplaceEmailOK ==
  ASSUME IInv, ReplaceEmail
  PROVE  IInv'
<1>1. cron.pc = "email" /\ CronNext("revoke") /\ "revoke" \in Phases
  BY DEF ReplaceEmail, CronAt, Phases
<1>2. PICK c \in changes : /\ c.id = cron.cur /\ Due(c) /\ Mailed(c.id) /\ c.kind = "email"
                           /\ \A d \in changes : d.id = cron.cur => d = c
                           /\ cron.time > 0 /\ cron.cur \notin cron.todo
  BY <1>1, AtChange
<1>3. /\ UNCHANGED <<now, desk, audit, factor, passkeys, setupUsed, codes, challenges, sessions,
                     changes, fresh, proofs, req, left, answers, grants, mails, clean>>
      /\ address' = cron.cur /\ left \in Workload
  BY DEF ReplaceEmail, history, factor, IInv, BaseInv
<1>4. /\ cron' \in Crons /\ cron'.pc = "revoke" /\ cron'.cur = cron.cur
      /\ cron'.todo = cron.todo /\ cron'.time = cron.time
  BY <1>1, CronMoves
<1>5. ChangeInv'
  <2>1. NoticedFirst'
    <3> SUFFICES ASSUME NEW e \in changes, e.applied # 0 \/ (e.kind = "email" /\ cron.cur = e.id)
                 PROVE  now >= e.requested + CoolDown /\ \E m \in mails : m[1] = e.id
      BY <1>3 DEF NoticedFirst
    <3>1. CASE e = c
      BY <1>2, <3>1 DEF Due, Mailed
    <3>2. CASE e # c
      BY <1>2, <3>2 DEF IInv, ChangeInv, NoticedFirst
    <3> QED
      BY <3>1, <3>2
  <2>2. cron.cur \in Ids
    BY CronFacts DEF Crons
  <2> QED
    BY <1>3, <2>1, <2>2 DEF IInv, ChangeInv, Mailed, Ids
<1>6. CronInv'
  <2>1. DueOf(cron.cur, Kinds) /\ \A i \in cron.todo : DueOf(i, Kinds)
    BY <1>1 DEF IInv, CronInv, CronOK
  <2> QED
    BY <1>2, <1>3, <1>4, <2>1 DEF CronInv, CronOK, Crons, Phases, Ids, DueOf, Due
<1>7. WayInv'
  <2>1. \A d \in changes : WillReset(d) => WillReset(d)'
    BY <1>2, <1>3, <1>4 DEF WillReset, Due
  <2> QED
    BY <1>3, <2>1 DEF IInv, WayInv, Storing
<1> QED
  BY <1>3, <1>5, <1>6, <1>7, CronLeaves

(* The steps of a reset and the end of the sessions.                       *)
LEMMA CronGoesOn ==
  ASSUME IInv, NEW p \in {"codes", "flag", "revoke", "applied"}, CronNext(p),
         \/ p \in {"codes", "flag"} /\ cron.pc \in {"passkeys", "codes"}
         \/ p = "revoke" /\ cron.pc = "flag"
         \/ p = "applied" /\ cron.pc = "revoke",
         UNCHANGED <<now, changes, mails, fresh>>
  PROVE  CronInv'
<1>1. /\ cron' \in Crons /\ cron'.pc = p /\ cron'.cur = cron.cur
      /\ cron'.todo = cron.todo /\ cron'.time = cron.time
  BY CronMoves DEF Phases
<1>2. /\ \A i \in cron.todo : DueOf(i, Kinds)
      /\ cron.time > 0 /\ cron.cur \notin cron.todo /\ DueOf(cron.cur, Kinds)
      /\ p \in {"codes", "flag"} => DueOf(cron.cur, {"reset"})
  BY DEF IInv, CronInv, CronOK
<1>3. \A i, ks : DueOf(i, ks)' = DueOf(i, ks)
  BY DEF DueOf, Due
<1> QED
  BY <1>1, <1>2, <1>3 DEF CronInv, CronOK, Crons, Phases, Ids

LEMMA DeletePasskeysOK ==
  ASSUME IInv, DeletePasskeys
  PROVE  IInv'
<1>1. cron.pc = "passkeys" /\ CronNext("codes") /\ "codes" \in Phases
  BY DEF DeletePasskeys, CronAt, Phases
<1>2. PICK c \in changes : c.id = cron.cur /\ Due(c) /\ c.kind = "reset"
  BY <1>1, AtChange
<1>3. /\ UNCHANGED <<now, desk, audit, setupUsed, codes, challenges, sessions, address,
                     changes, fresh, proofs, req, left, answers, grants, mails, clean>>
      /\ passkeys' = {} /\ left \in Workload /\ fresh \in Nat /\ Grows
  BY DEF DeletePasskeys, history, IInv, BaseInv, Grows
<1>4. CronInv' /\ cron'.pc = "codes"
  BY <1>1, <1>3, CronGoesOn, CronMoves
<1>5. WayInv'
  <2>1. WillReset(c)' /\ c \in changes'
    BY <1>2, <1>3, <1>4 DEF WillReset, Due
  <2> QED
    BY <1>3, <2>1 DEF IInv, WayInv
<1>6. ChangeInv'
  BY <1>3, ChangeKept DEF IInv
<1>7. UNCHANGED desk /\ codes' \in {codes, {}} /\ passkeys' \in {passkeys, {}}
      /\ setupUsed' \in {setupUsed, FALSE} /\ sessions' \in {sessions, {}}
  BY <1>3
<1> QED
  BY <1>3, <1>4, <1>5, <1>6, <1>7, CronLeaves

LEMMA DropCodesOK ==
  ASSUME IInv, DropCodes
  PROVE  IInv'
<1>1. cron.pc = "codes" /\ CronNext("flag") /\ "flag" \in Phases
  BY DEF DropCodes, CronAt, Phases, AfterCodes
<1>3. /\ UNCHANGED <<now, desk, audit, setupUsed, passkeys, challenges, sessions, address,
                     changes, fresh, proofs, req, left, answers, grants, mails, clean>>
      /\ codes' = {} /\ left \in Workload /\ fresh \in Nat /\ Grows
  BY DEF DropCodes, history, IInv, BaseInv, Grows
<1>4. CronInv' /\ cron'.pc = "flag"
  BY <1>1, <1>3, CronGoesOn, CronMoves
<1>5. WayInv'
  <2>1. \A d \in changes : WillReset(d) => WillReset(d)'
    BY <1>3, <1>4 DEF WillReset, Due
  <2> QED
    BY <1>3, <2>1 DEF IInv, WayInv, Storing
<1>6. ChangeInv'
  BY <1>3, ChangeKept DEF IInv
<1>7. codes' \in {codes, {}} /\ passkeys' \in {passkeys, {}}
      /\ setupUsed' \in {setupUsed, FALSE} /\ sessions' \in {sessions, {}}
  BY <1>3
<1> QED
  BY <1>3, <1>4, <1>5, <1>6, <1>7, CronLeaves

LEMMA ClearFlagOK ==
  ASSUME IInv, ClearFlag
  PROVE  IInv'
<1>1. cron.pc = "flag" /\ CronNext("revoke") /\ "revoke" \in Phases
  BY DEF ClearFlag, CronAt, Phases
<1>3. /\ UNCHANGED <<now, desk, audit, passkeys, codes, challenges, sessions, address,
                     changes, fresh, proofs, req, left, answers, grants, mails, clean>>
      /\ setupUsed' = FALSE /\ left \in Workload /\ fresh \in Nat /\ Grows
  BY DEF ClearFlag, history, IInv, BaseInv, Grows
<1>4. CronInv'
  BY <1>1, <1>3, CronGoesOn
<1>5. WayInv'
  BY <1>3 DEF IInv, WayInv
<1>6. ChangeInv'
  BY <1>3, ChangeKept DEF IInv
<1>7. codes' \in {codes, {}} /\ passkeys' \in {passkeys, {}}
      /\ setupUsed' \in {setupUsed, FALSE} /\ sessions' \in {sessions, {}}
  BY <1>3
<1> QED
  BY <1>3, <1>4, <1>5, <1>6, <1>7, CronLeaves

LEMMA RevokeUserOK ==
  ASSUME IInv, RevokeUser
  PROVE  IInv'
<1>1. cron.pc = "revoke" /\ CronNext("applied") /\ "applied" \in Phases
  BY DEF RevokeUser, CronAt, Phases
<1>3. /\ UNCHANGED <<now, desk, audit, factor, passkeys, setupUsed, codes, challenges, address,
                     changes, fresh, proofs, req, left, answers, grants, mails, clean>>
      /\ sessions' = {} /\ left \in Workload /\ fresh \in Nat /\ Grows
  BY DEF RevokeUser, history, factor, IInv, BaseInv, Grows
<1>4. CronInv' /\ cron'.pc = "applied" /\ cron'.cur = cron.cur
  BY <1>1, <1>3, CronGoesOn, CronMoves
<1>5. WayInv'
  <2>1. \A d \in changes : WillReset(d) => WillReset(d)'
    BY <1>1, <1>3, <1>4 DEF WillReset, Due
  <2> QED
    BY <1>3, <2>1 DEF IInv, WayInv, Storing
<1>6. ChangeInv'
  BY <1>3, ChangeKept DEF IInv
<1>7. codes' \in {codes, {}} /\ passkeys' \in {passkeys, {}}
      /\ setupUsed' \in {setupUsed, FALSE} /\ sessions' \in {sessions, {}}
  BY <1>3
<1> QED
  BY <1>3, <1>4, <1>5, <1>6, <1>7, CronLeaves

LEMMA MarkAppliedOK ==
  ASSUME IInv, MarkApplied
  PROVE  IInv'
<1>1. cron.pc = "applied" /\ CronNext("next") /\ "next" \in Phases
  BY DEF MarkApplied, CronAt, Phases
<1>2. PICK c \in changes : /\ c.id = cron.cur /\ Change(cron.cur) = c /\ Mailed(c.id) /\ Due(c)
                           /\ \A d \in changes : d.id = cron.cur => d = c
                           /\ cron.time > 0 /\ cron.cur \notin cron.todo
  BY <1>1, AtChange
<1> PICK t : t = cron.time
  OBVIOUS
<1> PICK d : d = [c EXCEPT !.applied = t]
  OBVIOUS
<1>3. c \in [id : 1 .. (fresh - 1), kind : Kinds, requested : Nat, effective : Nat,
             notified : Nat, applied : Nat] /\ t \in Nat /\ t # 0
  BY <1>2, CronFacts DEF IInv, ChangeInv, Crons
<1>4. /\ d \in [id : 1 .. (fresh - 1), kind : Kinds, requested : Nat, effective : Nat,
                notified : Nat, applied : Nat]
      /\ d.id = c.id /\ d.kind = c.kind /\ d.requested = c.requested
      /\ d.effective = c.effective /\ d.notified = c.notified
  BY <1>3
<1>5. /\ UNCHANGED <<now, desk, audit, factor, passkeys, setupUsed, codes, challenges, sessions,
                     address, fresh, proofs, req, left, answers, grants, mails, clean>>
      /\ changes' = (changes \ {c}) \cup {d} /\ left \in Workload
  BY <1>2 DEF MarkApplied, Replace, Due, history, factor, IInv, BaseInv
<1>6. /\ cron' \in Crons /\ cron'.pc = "next" /\ cron'.todo = cron.todo
      /\ cron'.time = cron.time /\ cron'.cur = cron.cur
  BY <1>1, CronMoves
<1>7. ChangeInv'
  <2>1. \A b, e \in changes' : b.id = e.id => b = e
    BY <1>2, <1>4, <1>5 DEF IInv, ChangeInv
  <2>2. \A e \in changes' : e.notified # 0 => Mailed(e.id)'
    BY <1>2, <1>4, <1>5 DEF IInv, ChangeInv, Mailed
  <2>3. NoticedFirst'
    <3> SUFFICES ASSUME NEW e \in changes',
                        e.applied # 0 \/ (e.kind = "email" /\ address = e.id)
                 PROVE  now >= e.requested + CoolDown /\ \E m \in mails : m[1] = e.id
      BY <1>5 DEF NoticedFirst
    <3>1. CASE e = d
      BY <1>2, <1>4, <3>1 DEF Due, Mailed
    <3>2. CASE e \in changes
      BY <3>2 DEF IInv, ChangeInv, NoticedFirst
    <3> QED
      BY <1>5, <3>1, <3>2
  <2>4. changes' \subseteq [id : 1 .. (fresh' - 1), kind : Kinds, requested : Nat,
                            effective : Nat, notified : Nat, applied : Nat]
    BY <1>4, <1>5 DEF IInv, ChangeInv
  <2> QED
    BY <1>5, <2>1, <2>2, <2>3, <2>4 DEF IInv, ChangeInv, Ids
<1>8. CronInv'
  <2>1. \A i \in cron.todo : DueOf(i, Kinds)'
    <3> TAKE i \in cron.todo
    <3>1. PICK e \in changes : e.id = i /\ Due(e) /\ e.kind \in Kinds
      BY <1>1 DEF IInv, CronInv, CronOK, DueOf
    <3>2. e \in changes'
      BY <1>2, <1>5, <3>1
    <3> QED
      BY <1>5, <3>1, <3>2 DEF DueOf, Due
  <2> QED
    BY <1>2, <1>5, <1>6, <2>1 DEF CronInv, CronOK, Crons, Phases, Ids
<1>9. WayInv'
  <2>1. \A e \in changes : WillReset(e) => e \in changes' /\ WillReset(e)'
    BY <1>1, <1>2, <1>5, <1>6 DEF WillReset, Due
  <2> QED
    BY <1>5, <2>1 DEF IInv, WayInv, Storing
<1> QED
  BY <1>5, <1>7, <1>8, <1>9, CronLeaves

LEMMA TickOK ==
  ASSUME IInv, Tick
  PROVE  IInv'
<1>1. /\ UNCHANGED <<desk, settings, domains, audit, factor, passkeys, setupUsed, codes,
                     challenges, sessions, address, changes, fresh, proofs, req, cron, left,
                     answers, grants, mails, clean>>
      /\ now \in Nat /\ now < left.time /\ now' = now + 1 /\ fresh \in Nat /\ Grows
      /\ left \in Workload
  BY DEF Tick, desk, factor, history, IInv, BaseInv, Grows
<1>2. UnusedCodes' = UnusedCodes /\ Good' = Good
  BY <1>1 DEF UnusedCodes, Good
<1>3. BaseInv'
  <2>1. left.time \in Nat
    BY <1>1 DEF Workload
  <2> QED
    BY <1>1, <2>1 DEF IInv, BaseInv
<1>4. ReqInv'
  <2>1. \A o : Shape(o) /\ Holds(o) => Holds(o)'
    BY <1>1, HoldsSame DEF IInv, Grows
  <2>2. \A p \in Reqs : \A r : r = req[p] => Holds(r)'
    BY <2>1 DEF IInv, ReqInv
  <2> QED
    BY <1>1, <2>2, NoRequestStep DEF IInv
<1>5. \A c \in changes : /\ Due(c) => Due(c)'
                         /\ now >= c.requested + CoolDown => now' >= c.requested + CoolDown
  <2> TAKE c \in changes
  <2>1. c.requested \in Nat /\ c.effective \in Nat /\ CoolDown \in Nat
    BY AdminAssumption DEF IInv, ChangeInv
  <2> QED
    BY <1>1, <2>1 DEF Due
<1>6. ChangeInv'
  <2>1. NoticedFirst'
    BY <1>1, <1>5 DEF IInv, ChangeInv, NoticedFirst
  <2> QED
    BY <1>1, <2>1 DEF IInv, ChangeInv, Mailed, Ids
<1>7. CronInv'
  <2>1. \A i, ks : DueOf(i, ks) => DueOf(i, ks)'
    BY <1>1, <1>5 DEF DueOf
  <2> QED
    BY <1>1, <2>1 DEF IInv, CronInv, CronOK, Mailed, Known, Ids
<1>8. WayInv'
  <2>1. \A c \in changes : WillReset(c) => WillReset(c)'
    BY <1>1, <1>5 DEF WillReset
  <2> QED
    BY <1>1, <2>1 DEF IInv, WayInv, Storing
<1> QED
  BY <1>1, <1>2, <1>3, <1>4, <1>6, <1>7, <1>8, AuditKept, KeyKept, FactorKept, CodesKept,
     GrantKept, AddSame DEF IInv
-----------------------------------------------------------------------------
(* The invariant.                                                          *)

LEMMA InitOK == Init => IInv
<1> SUFFICES ASSUME Init PROVE IInv
  OBVIOUS
<1>1. /\ left \in Workload
      /\ left.sweep = 0 \/ left.time <= Retention \/ (left.patch = 0 /\ left.put = 0)
      /\ left.time \in Nat \ {0} /\ left.ready \in BOOLEAN
  BY WorkloadAssumption DEF Init, Workload
<1>2. /\ fresh = 5 /\ now = 1 /\ audit = {} /\ challenges = {} /\ changes = {} /\ proofs = {}
      /\ answers = {} /\ grants = {} /\ mails = {} /\ address = 0 /\ domains = 0
      /\ settings = [value |-> 0, version |-> 0] /\ cron = Resting /\ setupUsed = left.ready
      /\ req = [q \in Reqs |-> NoRequest] /\ clean = [setup |-> TRUE, adds |-> TRUE]
  BY DEF Init
<1>3. Ids = 0 .. 4 /\ 0 \in Ids /\ 1 \in Ids /\ 2 \in Ids /\ 3 \in Ids /\ 4 \in Ids
  BY <1>2 DEF Ids
<1>4. \A q \in Reqs : req[q] = NoRequest
  BY <1>2
<1>5. BaseInv
  BY <1>1, <1>2 DEF BaseInv, Settings
<1>6. ReqInv
  BY <1>2, <1>4, NoRequestFacts DEF ReqInv
<1>7. AuditInv
  BY <1>2 DEF AuditInv, ChainUnbroken
<1>8. KeyInv
  BY <1>1, <1>2, <1>4, NoRequestFacts DEF KeyInv
<1>9. FactorInv
  <2>1. CASE left.ready
    <3> PICK p1, p2 : p1 = [id |-> 1, count |-> 0] /\ p2 = [id |-> 2, count |-> 0]
      OBVIOUS
    <3>1. passkeys = {p1, p2} /\ sessions = {[id |-> 4, amr |-> "passkey"]}
      BY <2>1 DEF Init
    <3>2. p1 \in [id : Ids, count : Nat] /\ p2 \in [id : Ids, count : Nat] /\ p1.id # p2.id
      BY <1>3
    <3>3. IsFiniteSet(passkeys)
      <4>1. passkeys = ({} \cup {p1}) \cup {p2}
        BY <3>1
      <4> QED
        BY <4>1, FS_EmptySet, FS_AddElement
    <3>4. \A p, r \in passkeys : p.id = r.id => p = r
      BY <3>1, <3>2
    <3>5. sessions \subseteq [id : Ids, amr : {"passkey", "recovery"}]
      BY <1>3, <3>1
    <3>6. passkeys \subseteq [id : Ids, count : Nat] /\ IsFiniteSet(proofs)
      BY <1>2, <3>1, <3>2, FS_EmptySet
    <3> QED
      BY <1>1, <1>2, <3>3, <3>4, <3>5, <3>6 DEF FactorInv
  <2>2. CASE ~left.ready
    <3>1. passkeys = {} /\ sessions = {}
      BY <2>2 DEF Init
    <3>2. IsFiniteSet(passkeys) /\ IsFiniteSet(proofs)
      BY <1>2, <3>1, FS_EmptySet
    <3> QED
      BY <1>1, <1>2, <3>1, <3>2 DEF FactorInv
  <2> QED
    BY <2>1, <2>2
<1>10. CodesInv
  <2>1. CASE left.ready
    <3> PICK u : u = [n \in 1 .. RecoveryCodes |-> FALSE]
      OBVIOUS
    <3>1. u \in [1 .. RecoveryCodes -> BOOLEAN] /\ \A n \in 1 .. RecoveryCodes : u[n] = FALSE
      OBVIOUS
    <3>2. codes = {[issue |-> 3, n |-> n, used |-> FALSE] : n \in 1 .. RecoveryCodes}
      BY <2>1 DEF Init
    <3>3. codes = Issued(3, u)
      BY <3>1, <3>2 DEF Issued
    <3> QED
      BY <1>3, <3>1, <3>3 DEF CodesInv
  <2>2. CASE ~left.ready
    BY <2>2 DEF Init, CodesInv
  <2> QED
    BY <2>1, <2>2
<1>11. GrantInv
  BY <1>2 DEF GrantInv, OneGrantPerProof
<1>12. AddInv
  BY <1>4, NoRequestFacts DEF AddInv, Adding, At
<1>13. ChangeInv
  BY <1>2, <1>3 DEF ChangeInv, NoticedFirst
<1>14. CronInv
  BY <1>2, <1>3 DEF CronInv, CronOK, Resting
<1>15. WayInv
  <2>1. clean \in [setup : BOOLEAN, adds : BOOLEAN]
    BY <1>2
  <2>2. ~setupUsed \/ passkeys # {}
    BY <1>2 DEF Init
  <2> QED
    BY <2>1, <2>2 DEF WayInv
<1> QED
  BY <1>5, <1>6, <1>7, <1>8, <1>9, <1>10, <1>11, <1>12, <1>13, <1>14, <1>15 DEF IInv

LEMMA StandsStill == IInv /\ UNCHANGED vars => IInv'
<1> SUFFICES ASSUME IInv, UNCHANGED vars PROVE IInv'
  OBVIOUS
<1>1. /\ UNCHANGED <<now, desk, settings, domains, audit, factor, passkeys, setupUsed, codes,
                     challenges, sessions, address, changes, fresh, proofs, req, cron, left,
                     answers, grants, mails, clean>>
      /\ fresh \in Nat /\ Grows /\ left \in Workload
  BY DEF vars, desk, factor, history, IInv, BaseInv, Grows
<1>2. ChangeInv' /\ CronInv' /\ WayInv'
  BY <1>1, ChangeKept, CronKept, WayKept DEF IInv
<1> QED
  BY <1>1, <1>2, CronLeaves

LEMMA RequestOK ==
  ASSUME IInv, NEW q \in Reqs, RequestNext(q)
  PROVE  IInv'
BY ReadHeadOK, InsertRowOK, FindByKeyOK, ReadSettingsOK, PatchRowOK, ReplaceDomainsOK,
   ReadResultOK, ConsumeChallengeOK, VerifyNewOK, BurnSetupCodeOK, StorePasskeyOK,
   UpgradeRecoveryOK, CountPasskeysOK, IssueCodesOK, DeleteKeepingOK, FindPasskeyOK,
   UpdateCounterOK, UseRecoveryCodeOK, IssueOK DEF RequestNext

LEMMA BeginOK ==
  ASSUME IInv, NEW q \in Reqs, Begin(q)
  PROVE  IInv'
BY PatchSettingsOK, PutBlockedDomainsOK, SetupOK, LoginOK, AddOK, RemoveOK, RecoverOK DEF Begin

LEMMA CronStepOK ==
  ASSUME IInv, CronNextStep
  PROVE  IInv'
BY ReadUnnotifiedOK, MarkNotifiedOK, ReadDueOK, CronEndsOK, MailNoticeOK, ApplyNextOK,
   ReplaceEmailOK, DeletePasskeysOK, DropCodesOK, ClearFlagOK, RevokeUserOK, MarkAppliedOK
   DEF CronNextStep

LEMMA NextOK == IInv /\ [Next]_vars => IInv'
BY RequestOK, BeginOK, DieOK, RegistrationOptionsOK, AssertionOptionsOK, RequestChangeOK,
   SweepAuditOK, CronStepOK, CronDiesOK, TickOK, StandsStill DEF Next

(* The audit chain, the keys, what authenticators and codes prove, the     *)
(* delayed changes and the cron stay as the parts of IInv say, for every   *)
(* number of requests and every workload.                                  *)
THEOREM Invariant == Spec => []IInv
<1> QED
  BY InitOK, NextOK, PTL DEF Spec
-----------------------------------------------------------------------------
(* What follows from it.                                                   *)

LEMMA IssuedSize ==
  ASSUME NEW i, NEW u
  PROVE  Cardinality(Issued(i, u)) = RecoveryCodes
<1> PICK D : D = 1 .. RecoveryCodes
  OBVIOUS
<1> PICK f : f = [n \in D |-> [issue |-> i, n |-> n, used |-> u[n]]]
  OBVIOUS
<1>1. /\ \A n \in D : f[n] = [issue |-> i, n |-> n, used |-> u[n]] /\ f[n].n = n
      /\ Issued(i, u) = {f[n] : n \in D} /\ DOMAIN f = D
  BY DEF Issued
<1>2. f \in [D -> Issued(i, u)]
  BY <1>1
<1>3. f \in Bijection(D, Issued(i, u))
  <2>1. \A a, b \in D : f[a] = f[b] => a = b
    BY <1>1
  <2>2. \A t \in Issued(i, u) : \E s \in D : f[s] = t
    BY <1>1
  <2> QED
    BY <1>2, <2>1, <2>2 DEF Bijection, Injection, Surjection, IsInjective
<1>4. RecoveryCodes \in Nat /\ RecoveryCodes > 0
  BY AdminAssumption
<1>5. IsFiniteSet(D) /\ Cardinality(D) = RecoveryCodes
  <2>1. IsFiniteSet(D) /\ Cardinality(D) = IF 1 > RecoveryCodes THEN 0 ELSE RecoveryCodes - 1 + 1
    BY <1>4, FS_Interval
  <2> QED
    BY <1>4, <2>1
<1> QED
  BY <1>3, <1>5, FS_Bijection DEF ExistsBijection

(* Every table, request and the cron keeps its range: no request tries the *)
(* audit row more often than append allows, a credential has one passkey   *)
(* and there is at most one issue of codes; and however many requests      *)
(* append at once, admin_audit is one chain, in the order verifyChain      *)
(* reads it in.                                                            *)
THEOREM LogIsSound == Spec => []LogSound
<1>1. IInv => LogSound
  <2> SUFFICES ASSUME IInv PROVE LogSound
    OBVIOUS
  <2>1. now \in 1 .. left.time /\ fresh \in Nat /\ settings \in Settings
        /\ domains \in Keys \cup {0}
    <3>1. now \in Nat \ {0} /\ left.time \in Nat /\ now <= left.time
      BY DEF IInv, BaseInv, Workload
    <3> QED
      BY <3>1 DEF IInv, BaseInv
  <2>2. audit \subseteq [id : Ids, at : Nat, key : Keys \cup {None}, prev : Ids,
                         result : {None} \cup Settings]
    <3>1. 1 .. (fresh - 1) \subseteq Ids
      BY <2>1 DEF Ids
    <3> QED
      BY <3>1 DEF IInv, AuditInv, Row
  <2>3. /\ passkeys \subseteq [id : Ids, count : Nat]
        /\ \A p, r \in passkeys : p.id = r.id => p = r
        /\ setupUsed \in BOOLEAN /\ challenges \subseteq Ids
        /\ sessions \subseteq [id : Ids, amr : {"passkey", "recovery"}]
    BY DEF IInv, FactorInv
  <2>4. /\ codes \subseteq [issue : Ids, n : 1 .. RecoveryCodes, used : BOOLEAN]
        /\ Cardinality(codes) \in {0, RecoveryCodes}
    <3>1. CASE codes = {}
      BY <3>1, FS_EmptySet
    <3>2. ASSUME NEW i \in Ids, NEW u \in [1 .. RecoveryCodes -> BOOLEAN], codes = Issued(i, u)
          PROVE  /\ codes \subseteq [issue : Ids, n : 1 .. RecoveryCodes, used : BOOLEAN]
                 /\ Cardinality(codes) = RecoveryCodes
      <4>1. Cardinality(codes) = RecoveryCodes
        BY <3>2, IssuedSize
      <4>2. codes \subseteq [issue : Ids, n : 1 .. RecoveryCodes, used : BOOLEAN]
        BY <3>2 DEF Issued
      <4> QED
        BY <4>1, <4>2
    <3> QED
      BY <3>1, <3>2 DEF IInv, CodesInv
  <2>5. /\ address \in Ids
        /\ changes \subseteq [id : Ids, kind : {"email", "reset"}, requested : Nat, effective : Nat,
                              notified : Nat, applied : Nat]
    <3>1. 1 .. (fresh - 1) \subseteq Ids
      BY <2>1 DEF Ids
    <3> QED
      BY <3>1 DEF IInv, ChangeInv, Kinds
  <2>6. \A q \in Reqs : ~Idle(q) => req[q].tries < AppendRetries /\ req[q].rows \in 0 .. 2
    <3> SUFFICES ASSUME NEW q \in Reqs, ~Idle(q)
                 PROVE  req[q].tries < AppendRetries /\ req[q].rows \in 0 .. 2
      OBVIOUS
    <3>1. req[q] \in Requests
      BY DEF IInv, ReqInv, Shape, Idle
    <3>2. req[q].tries \in 0 .. (AppendRetries - 1) /\ req[q].rows \in 0 .. 2
      BY <3>1 DEF Requests
    <3>3. AppendRetries \in Nat
      BY AdminAssumption
    <3> QED
      BY <3>2, <3>3
  <2>7. cron.todo \subseteq Ids /\ cron.cur \in Ids
    BY DEF IInv, CronInv, CronOK
  <2>8. TypeOK
    BY <2>1, <2>2, <2>3, <2>4, <2>5, <2>6, <2>7 DEF TypeOK
  <2> QED
    BY <2>8 DEF LogSound, IInv, AuditInv
<1> QED
  BY <1>1, Invariant, PTL

(* A confirmation that is sent again has one answer and a signed challenge *)
(* or a recovery code opens one session, whatever runs in between.         *)
THEOREM SentTwiceIsOnce == Spec => []SentTwiceCountsOnce
<1>1. IInv => SentTwiceCountsOnce
  <2> SUFFICES ASSUME IInv PROVE SentTwiceCountsOnce
    OBVIOUS
  <2>1. SameAnswer
    <3> SUFFICES ASSUME NEW a \in answers, NEW b \in answers, a[1] = b[1] PROVE a[2] = b[2]
      BY DEF SameAnswer
    <3>1. PICK r \in audit : r.key = a[1] /\ r.result = a[2]
      BY DEF IInv, KeyInv
    <3>2. PICK s \in audit : s.key = b[1] /\ s.result = b[2]
      BY DEF IInv, KeyInv
    <3>3. r.key # None /\ r.key = s.key
      BY <3>1, <3>2, NoneAssumption DEF IInv, KeyInv
    <3> QED
      BY <3>1, <3>2, <3>3 DEF IInv, KeyInv
  <2> QED
    BY <2>1 DEF SentTwiceCountsOnce, IInv, GrantInv
<1> QED
  BY <1>1, Invariant, PTL

(* No delayed change takes effect before its notice got out and the        *)
(* cool-down is over, although a cron may be killed between any two steps. *)
THEOREM NoticedBeforeApplied == Spec => []NoticedFirst
<1>1. IInv => NoticedFirst
  BY DEF IInv, ChangeInv
<1> QED
  BY <1>1, Invariant, PTL

(* Which steps write the settings and which the passkeys.                  *)
LEMMA RequestWrites ==
  ASSUME NEW q \in Reqs, RequestNext(q)
  PROVE  /\ settings' = settings \/ PatchRow(q)
         /\ passkeys' = passkeys \/ StorePasskey(q) \/ DeleteKeeping(q) \/ UpdateCounter(q)
<1>1. CASE ReadHead(q)
  BY <1>1 DEF ReadHead, desk, factor
<1>2. CASE InsertRow(q)
  BY <1>2 DEF InsertRow, desk, factor
<1>3. CASE FindByKey(q)
  BY <1>3 DEF FindByKey, desk, factor
<1>4. CASE ReadSettings(q)
  BY <1>4 DEF ReadSettings, desk, factor
<1>5. CASE ReplaceDomains(q)
  BY <1>5 DEF ReplaceDomains, desk, factor
<1>6. CASE ReadResult(q)
  BY <1>6 DEF ReadResult, desk, factor
<1>7. CASE ConsumeChallenge(q)
  BY <1>7 DEF ConsumeChallenge, desk, factor
<1>8. CASE VerifyNew(q)
  BY <1>8 DEF VerifyNew, desk, factor
<1>9. CASE BurnSetupCode(q)
  BY <1>9 DEF BurnSetupCode, desk, factor
<1>10. CASE UpgradeRecovery(q)
  BY <1>10 DEF UpgradeRecovery, desk, factor
<1>11. CASE CountPasskeys(q)
  BY <1>11 DEF CountPasskeys, desk, factor
<1>12. CASE IssueCodes(q)
  BY <1>12 DEF IssueCodes, desk, factor
<1>13. CASE FindPasskey(q)
  <2>1. UNCHANGED <<desk, factor>>
    BY <1>13, Zenon DEF FindPasskey
  <2> QED
    BY <2>1 DEF desk, factor
<1>14. CASE UseRecoveryCode(q)
  BY <1>14 DEF UseRecoveryCode, desk, factor
<1>15. CASE Issue(q)
  BY <1>15 DEF Issue, desk, factor
<1>16. PatchRow(q) => passkeys' = passkeys
  BY DEF PatchRow, factor
<1>17. StorePasskey(q) => settings' = settings
  BY DEF StorePasskey, desk
<1>18. DeleteKeeping(q) => settings' = settings
  BY DEF DeleteKeeping, desk
<1>19. UpdateCounter(q) => settings' = settings
  BY DEF UpdateCounter, desk
<1> QED
  BY <1>1, <1>2, <1>3, <1>4, <1>5, <1>6, <1>7, <1>8, <1>9, <1>10, <1>11,
     <1>12, <1>13, <1>14, <1>15, <1>16, <1>17, <1>18, <1>19 DEF RequestNext

LEMMA BeginWrites ==
  ASSUME NEW q \in Reqs, Begin(q)
  PROVE  UNCHANGED <<settings, passkeys>>
<1>1. \A k : PatchSettings(q, k) => UNCHANGED <<settings, passkeys>>
  BY DEF PatchSettings, desk, factor
<1>2. \A k : PutBlockedDomains(q, k) => UNCHANGED <<settings, passkeys>>
  BY DEF PutBlockedDomains, desk, factor
<1>3. \A k : Setup(q, k) => UNCHANGED <<settings, passkeys>>
  BY DEF Setup, desk, factor
<1>4. \A k : Login(q, k) => UNCHANGED <<settings, passkeys>>
  BY DEF Login, desk, factor
<1>5. \A k : Remove(q, k) => UNCHANGED <<settings, passkeys>>
  BY DEF Remove, desk, factor
<1>6. \A k, l : Add(q, k, l) => UNCHANGED <<settings, passkeys>>
  BY DEF Add, desk, factor
<1>7. \A k, l : Recover(q, k, l) => UNCHANGED <<settings, passkeys>>
  BY DEF Recover, desk, factor
<1> QED
  BY <1>1, <1>2, <1>3, <1>4, <1>5, <1>6, <1>7 DEF Begin

LEMMA CronWrites ==
  ASSUME CronNextStep
  PROVE  settings' = settings /\ (passkeys' = passkeys \/ DeletePasskeys)
<1>1. CASE ReadUnnotified
  BY <1>1 DEF ReadUnnotified, desk, factor
<1>2. CASE MarkNotified
  BY <1>2 DEF MarkNotified, desk, factor
<1>3. CASE ReadDue
  BY <1>3 DEF ReadDue, desk, factor
<1>4. CASE CronEnds
  BY <1>4 DEF CronEnds, desk, factor
<1>5. CASE ReplaceEmail
  BY <1>5 DEF ReplaceEmail, desk, factor
<1>6. CASE DropCodes
  BY <1>6 DEF DropCodes, desk, factor
<1>7. CASE ClearFlag
  BY <1>7 DEF ClearFlag, desk, factor
<1>8. CASE RevokeUser
  BY <1>8 DEF RevokeUser, desk, factor
<1>9. CASE MarkApplied
  BY <1>9 DEF MarkApplied, desk, factor
<1>10. \A i : MailNotice(i) => UNCHANGED <<settings, passkeys>>
  BY DEF MailNotice, desk, factor
<1>11. \A i : ApplyNext(i) => UNCHANGED <<settings, passkeys>>
  BY DEF ApplyNext, desk, factor
<1>12. DeletePasskeys => settings' = settings
  BY DEF DeletePasskeys, desk
<1> QED
  BY <1>1, <1>2, <1>3, <1>4, <1>5, <1>6, <1>7, <1>8, <1>9, <1>10, <1>11,
     <1>12 DEF CronNextStep

LEMMA WhoWrites ==
  ASSUME [Next]_vars
  PROVE  /\ settings' = settings \/ \E q \in Reqs : PatchRow(q)
         /\ \/ passkeys' = passkeys
            \/ \E q \in Reqs : StorePasskey(q) \/ DeleteKeeping(q) \/ UpdateCounter(q)
            \/ DeletePasskeys
<1>1. \A q \in Reqs : Die(q) => UNCHANGED <<settings, passkeys>>
  BY DEF Die, desk, factor
<1>2. RegistrationOptions => UNCHANGED <<settings, passkeys>>
  BY DEF RegistrationOptions, desk
<1>3. \A i : AssertionOptions(i) => UNCHANGED <<settings, passkeys>>
  BY DEF AssertionOptions, desk
<1>4. \A k, d : RequestChange(k, d) => UNCHANGED <<settings, passkeys>>
  BY DEF RequestChange, desk, factor
<1>5. SweepAudit \/ CronDies \/ Tick \/ UNCHANGED vars => UNCHANGED <<settings, passkeys>>
  BY DEF SweepAudit, CronDies, Tick, vars, desk, factor
<1> QED
  BY <1>1, <1>2, <1>3, <1>4, <1>5, RequestWrites, BeginWrites, CronWrites DEF Next

(* SettingsRepository.patch compares a version, which is a clock: it still *)
(* replaces only the settings its page showed, for the next version is     *)
(* greater than the one that was read.                                     *)
THEOREM OnlyWhatWasSeen == Spec => EditsWhatWasSeen
<1>1. IInv /\ [Next]_vars =>
        [\A q \in Reqs : At(q, "patch") /\ settings' # settings /\ req'[q] # req[q]
            => req[q].saw = settings]_vars
  <2> SUFFICES ASSUME IInv, [Next]_vars, NEW q \in Reqs, At(q, "patch"), settings' # settings,
                      req'[q] # req[q]
               PROVE  req[q].saw = settings
    OBVIOUS
  <2>1. PICK p \in Reqs : PatchRow(p)
    BY WhoWrites
  <2>2. p = q
    <3>1. \E x : req' = [req EXCEPT ![p] = x]
      BY <2>1 DEF PatchRow, Done, Step, Goto
    <3> QED
      BY <3>1 DEF IInv, ReqInv
  <2>3. settings.version = req[q].saw.version
    BY <2>1, <2>2 DEF PatchRow
  <2>4. req[q] \in Requests /\ Fits(req[q]) /\ req[q].pc = "patch" /\ Informed(req[q])
    BY AtFacts
  <2>5. req[q].op = "patch"
    BY <2>4 DEF Fits, Requests, Operations
  <2> QED
    BY <2>3, <2>4, <2>5 DEF Informed
<1> QED
  BY <1>1, Invariant, PTL DEF Spec, EditsWhatWasSeen

(* While nothing is under way there is a way in, whoever removes passkeys  *)
(* at once leaves MinPasskeys of them, and the codes that were shown are   *)
(* replaced only when all of them are used.                                *)
THEOREM FactorIsKept == Spec => SecondFactorKept
<1>1. IInv => WayIn
  <2> SUFFICES ASSUME IInv, \A q \in Reqs : Idle(q), CronAt("rest"), ~\E c \in changes : Due(c),
                      clean.setup, setupUsed, passkeys = {}
               PROVE  FALSE
    BY DEF WayIn
  <2>1. \A q \in Reqs : ~Storing(req[q])
    BY NoRequestFacts DEF Idle
  <2>2. \A c \in changes : ~WillReset(c)
    BY DEF WillReset
  <2> QED
    BY <2>1, <2>2 DEF IInv, WayInv
<1>2. IInv /\ [Next]_vars =>
        [Cardinality(passkeys') < Cardinality(passkeys) =>
            Cardinality(passkeys') >= MinPasskeys \/ CronAt("passkeys")]_vars
  <2> SUFFICES ASSUME IInv, [Next]_vars, Cardinality(passkeys') < Cardinality(passkeys),
                      ~CronAt("passkeys")
               PROVE  Cardinality(passkeys') >= MinPasskeys
    OBVIOUS
  <2>1. /\ IsFiniteSet(passkeys) /\ Cardinality(passkeys) \in Nat
        /\ IsFiniteSet(passkeys') /\ Cardinality(passkeys') \in Nat
    BY NextOK, FS_CardinalityType DEF IInv, FactorInv
  <2>2. passkeys' # passkeys
    BY <2>1
  <2>3. PICK q \in Reqs : StorePasskey(q) \/ DeleteKeeping(q) \/ UpdateCounter(q)
    BY <2>2, WhoWrites DEF DeletePasskeys
  <2>4. CASE StorePasskey(q)
    <3>1. PICK k : passkeys' = passkeys \cup {k}
      BY <2>4 DEF StorePasskey
    <3>2. Cardinality(passkeys') >= Cardinality(passkeys)
      BY <2>1, <3>1, FS_AddElement
    <3> QED
      BY <2>1, <3>2
  <2>5. CASE DeleteKeeping(q)
    BY <2>1, <2>2, <2>5, DeleteKeepingOK
  <2>6. CASE UpdateCounter(q)
    BY <2>1, <2>6, UpdateCounterOK
  <2> QED
    BY <2>3, <2>4, <2>5, <2>6
<1>3. IInv => [\A q \in Reqs : At(q, "codes") /\ codes' # codes /\ req'[q] # req[q] /\ clean.adds
                   => UnusedCodes = {}]_vars
  BY DEF IInv, AddInv
<1> QED
  BY <1>1, <1>2, <1>3, Invariant, PTL DEF Spec, SecondFactorKept, MinKept, ShownCodesStand
=============================================================================

---------------------------- MODULE ArchiveSaga ----------------------------
(***************************************************************************)
(* The end of a trial (packages/identity, tenancy): the owner, the admin   *)
(* and the cron end trials; the cron drives the staged archive saga        *)
(* (ArchiveSagaService.tick) over the purge_ledger, the five data-owning   *)
(* services, the B2 bucket and the mailer; the owner, the admin and the    *)
(* cron delete finished archives (TrialService.finalDelete).               *)
(*                                                                         *)
(* A tick is a Worker invocation: every D1 statement, RPC and B2 call is a *)
(* step of its own, other invocations run in between, and the invocation   *)
(* may throw (the catch of tick()) or die at any of them.  Time is kept as *)
(* saturating ages; row contents, mail texts and tokens are left out.      *)
(***************************************************************************)
EXTENDS Integers, Sequences, FiniteSets

CONSTANTS
  Tenants,       \* trial workspaces
  Legacy,        \* those an older version left ARCHIVING without a ledger
  Ticks,         \* cron invocations that may overlap
  Services,      \* the services with a TenantLifecycle entry point
  ExportOrder,   \* EXPORT_ORDER
  PurgeOrder,    \* PURGE_ORDER
  Paged,         \* services whose export has several pages (object-graph)
  Row,           \* rows a workspace may hold: <<service, key>>
  PageRows,      \* rows of an export page
  PurgeRows,     \* PURGE_STEP_ROWS
  MaxParts,      \* MAX_STAGING_PARTS
  ZipRows,       \* rows that fit into MAX_ARCHIVE_BYTES
  Checked,       \* services that read their tombstone before they plan a write
  Guarded,       \* services whose write tests it in the same statement
  TokenTtl,      \* life of an access token          (15 min)
  RequestTtl,    \* how long a request outlives its token's check  (1 min)
  ArchiveDelay,  \* archiveDelayMin                  (16 min)
  ArchiveDays,   \* archiveDays                      (7 days)
  LinkTtl,       \* archiveLinkTtlS                  (7 days)
  Deleters,      \* who deletes archives: "cron", "person"
  ZipRule,       \* B2 lifecycle rule of archives/   (8 days)
  AdminExtends,  \* whether the admin moves trial ends in this instance
  MaxFaults,     \* bound: throws, kills, refused mails, lost parts
  MaxWrites      \* bound: writes of purge_ledger

N == Len(ExportOrder)

ASSUME OrderAssumption ==
  /\ ExportOrder \in Seq(Services) /\ PurgeOrder \in Seq(Services)
  /\ Len(ExportOrder) \in Nat \ {0}
  /\ Len(PurgeOrder) = Len(ExportOrder)
  /\ \A s \in Services : /\ \E i \in 1..Len(ExportOrder) : ExportOrder[i] = s
                         /\ \E i \in 1..Len(PurgeOrder) : PurgeOrder[i] = s

ASSUME BoundAssumption ==
  /\ {PageRows, PurgeRows, MaxParts, ZipRows, TokenTtl} \subseteq Nat \ {0}
  /\ {RequestTtl, ArchiveDelay, ArchiveDays, LinkTtl, ZipRule} \subseteq Nat
  /\ {MaxFaults, MaxWrites} \subseteq Nat
  /\ AdminExtends \in BOOLEAN
  /\ Paged \subseteq Services /\ Checked \subseteq Services
  /\ Guarded \subseteq Services /\ Legacy \subseteq Tenants
  /\ Deleters \subseteq {"cron", "person"}
  /\ Tenants # {} /\ Len(ExportOrder) =< MaxParts
  /\ Row \subseteq Services \X (Nat \ {0}) /\ IsFiniteSet(Row)

(* The wait after EXPIRED outlives every access token and the requests that *)
(* it let in (limits.ts: "access token TTL + 1 min").                      *)
Grace == TokenTtl + RequestTtl

ASSUME DelayAssumption ==
  /\ Grace =< ArchiveDelay /\ ArchiveDelay =< ArchiveDays
  /\ LinkTtl =< ZipRule /\ ZipRule > 1

VARIABLES
  ws,        \* workspace row: status, or "NONE" once deleted
  delMode,   \* workspace.delete_mode
  age,       \* time since workspace.expired_at (0 while the trial runs)
  sessions,  \* workspaces whose owner has a refresh session
  rows,      \* rows the services hold
  tomb,      \* services that wrote their tombstone for the workspace
  writes,    \* requests past their checks: <<workspace, row to store>>
  late,      \* history: rows stored in a service behind its tombstone
  ledger,    \* purge_ledger
  ledAge,    \* time since purge_ledger.expired_at
  clk,       \* logical clock stamping purge_ledger.updated_at
  staging,   \* staged export parts in B2: rows and truncation mark by number
  zip,       \* the ZIP in B2
  zipAge,    \* time since the ZIP was uploaded
  index,     \* workspaces with an archive_index row
  linkAge,   \* time since archive_index.created_at
  pc, at, copy, plan, buf, ok,   \* a tick: next call, tenant, ledger read,
                                 \* ledger to write, rows in hand, answer
  aged,      \* ticks time has passed in
  adm,       \* workspaces a deleteUser is between its two statements for
  dpc, dat,  \* finalDelete of the cron and of a person: next call, tenant
  faults,    \* faults so far
  moved,     \* history: workspaces extended while a tick opened their saga
  told,      \* history: workspaces whose owner got the last mail
  zipped     \* history: what the last ZIP contained

saga    == <<ledger, ledAge, clk>>
bucket  == <<staging, zip, zipAge>>
indexed == <<index, linkAge>>
tenancy == <<ws, delMode, age, sessions>>
data    == <<rows, tomb, writes, late>>
tick    == <<pc, at, copy, plan, buf, ok, aged>>
deletes == <<dpc, dat>>
history == <<moved, told, zipped>>
vars == <<saga, bucket, indexed, tenancy, data, tick, deletes, history,
          adm, faults>>

-----------------------------------------------------------------------------
Phases  == {"exporting", "exported", "mailed", "purging", "purged",
            "account_deleted"}
Modes   == {"archive", "no_archive", "empty"}
Ledger  == [phase: Phases \cup {"none"}, mode: Modes, svc: 1..(N + 1),
            cursor: Nat, parts: Nat, psvc: 1..N, upd: Nat]

(* A new ledger: nothing exported, nothing purged; and no ledger at all.   *)
NewLedger(phase, mode) ==
  [phase |-> phase, mode |-> mode, svc |-> 1, cursor |-> 0, parts |-> 0,
   psvc |-> 1, upd |-> 0]
Absent == NewLedger("none", "archive")

(* The call a tick makes next.                                             *)
Calls ==
  {"idle", "start", "count", "create", "mark", "skip", "page", "stage", "zip",
   "put", "head", "unstage", "mail", "unindex", "index", "send", "mailed",
   "purge", "stone", "verify", "account", "keep", "forget", "patch", "catch"}

(* An object in B2 (a staged part or the ZIP): its rows and whether it is  *)
(* marked truncated; here is FALSE when the key does not exist.            *)
Content == [here: BOOLEAN, rows: SUBSET Row, cut: BOOLEAN]
Gone    == [here |-> FALSE, rows |-> {}, cut |-> FALSE]
NoParts == [i \in 0..MaxParts |-> Gone]

AnyTenant  == CHOOSE t \in Tenants : TRUE
Unfinished == {t \in Tenants :
                 ledger[t].phase \notin {"none", "account_deleted"}}
Ended      == {t \in Tenants : ws[t] \in {"EXPIRED", "ARCHIVING"}}
RowsOf(t, s) == {r \in rows[t] : r[1] = s}

(* Workspaces in a saga, and those a tick has picked to open one for.      *)
Archiving == {t \in Tenants : ledger[t].phase # "none"}
             \cup {at[k] : k \in {j \in Ticks : pc[j] \in {"count", "create"}}}

-----------------------------------------------------------------------------
(* domain/archive_saga.ts *)

(* chooseMode *)
ChooseMode(deleteMode, total) ==
  IF deleteMode = "no_archive" THEN "no_archive"
  ELSE IF total = 0 THEN "empty" ELSE "archive"

(* Mutant: the part being written is not counted.                          *)
IsLastAllowedPartLate(svc, parts) == parts + (N - svc) >= MaxParts

(* isLastAllowedPart: every later service must still get a part.           *)
IsLastAllowedPart(svc, parts) == parts + 1 + (N - svc) >= MaxParts

(* advanceExport: stay on the service while it has a cursor.               *)
AdvanceExport(led, next) ==
  IF next # 0 THEN [led EXCEPT !.cursor = next]
              ELSE [led EXCEPT !.svc = @ + 1, !.cursor = 0]

(* advancePurge *)
AdvancePurge(led, done) ==
  IF ~done THEN [led EXCEPT !.phase = "purging"]
  ELSE IF led.psvc < N
       THEN [led EXCEPT !.phase = "purging", !.psvc = @ + 1]
       ELSE [led EXCEPT !.phase = "purged"]

(* exportTenant of one service: the rows after the cursor in key order, a  *)
(* full page leaves a cursor; a .json service always exports one page.     *)
ExportPage(t, s, cursor) ==
  LET after == {r \in RowsOf(t, s) : r[2] > cursor}
  IN  IF s \notin Paged THEN RowsOf(t, s)
      ELSE {r \in after : Cardinality({q \in after : q[2] < r[2]}) < PageRows}

NextCursor(s, page) ==
  IF s \notin Paged \/ Cardinality(page) < PageRows THEN {0}
  ELSE {i \in {r[2] : r \in page} : \A r \in page : r[2] =< i}

(* purgeTenant of one service: which rows one call deletes, and whether it *)
(* reports that none is left (object-graph stops when its budget is used). *)
PurgeBatches(t, s) ==
  IF s \notin Paged \/ Cardinality(RowsOf(t, s)) =< PurgeRows
  THEN {RowsOf(t, s)}
  ELSE {d \in SUBSET RowsOf(t, s) : Cardinality(d) = PurgeRows}

PurgeDone(s, batch) == s \notin Paged \/ Cardinality(batch) < PurgeRows

(* assembleFiles of the staged parts.                                      *)
Assemble(t, parts) ==
  [here |-> TRUE,
   rows |-> UNION {staging[t][i].rows : i \in 0..(parts - 1)},
   cut  |-> \E i \in 0..(parts - 1) : staging[t][i].cut]

(* fitToBudget: everything when it fits, otherwise cut and marked.         *)
Fits(c) ==
  IF Cardinality(c.rows) =< ZipRows THEN {c}
  ELSE {[here |-> TRUE, rows |-> s, cut |-> TRUE] :
          s \in {x \in SUBSET c.rows : Cardinality(x) = ZipRows}}

-----------------------------------------------------------------------------
Init ==
  /\ ws = [t \in Tenants |-> IF t \in Legacy THEN "ARCHIVING" ELSE "ACTIVE"]
  /\ delMode = [t \in Tenants |-> "null"]
  /\ age = [t \in Tenants |-> IF t \in Legacy THEN ArchiveDelay ELSE 0]
  /\ sessions = Tenants \ Legacy
  /\ rows \in [Tenants -> SUBSET Row]
  /\ tomb = [t \in Tenants |-> {}]
  /\ writes = {}
  /\ late = [t \in Tenants |-> {}]
  /\ ledger = [t \in Tenants |-> Absent]
  /\ ledAge = [t \in Tenants |-> 0]
  /\ clk = 0
  /\ staging = [t \in Tenants |-> NoParts]
  /\ zip = [t \in Tenants |-> Gone]
  /\ zipAge = [t \in Tenants |-> 0]
  /\ index = {}
  /\ linkAge = [t \in Tenants |-> 0]
  /\ pc = [k \in Ticks |-> "idle"]
  /\ at = [k \in Ticks |-> AnyTenant]
  /\ copy = [k \in Ticks |-> Absent]
  /\ plan = [k \in Ticks |-> Absent]
  /\ buf = [k \in Ticks |-> Gone]
  /\ ok = [k \in Ticks |-> FALSE]
  /\ aged = {}
  /\ adm = {}
  /\ dpc = [d \in Deleters |-> "idle"]
  /\ dat = [d \in Deleters |-> AnyTenant]
  /\ faults = 0
  /\ moved = {}
  /\ told = {}
  /\ zipped = [t \in Tenants |-> Gone]

-----------------------------------------------------------------------------
(* The workspace while the trial runs, and the ways it ends.               *)

(* A request of the owner to store row r: the access token, which is good   *)
(* while the trial runs and for TokenTtl after, and in some services the    *)
(* tombstone (counts().tombstoned of object-graph) are read first ...       *)
StartWrite(t, r) ==
  /\ ws[t] = "ACTIVE" \/ age[t] < TokenTtl
  /\ r[1] \in Checked => r[1] \notin tomb[t]
  /\ <<t, r>> \notin writes
  /\ writes' = writes \cup {<<t, r>>}
  /\ UNCHANGED <<tenancy, rows, tomb, late, saga, bucket, indexed, tick, deletes,
                 history, adm, faults>>

(* ... and the row is stored later, by a batch that tests no tombstone      *)
(* unless the service is Guarded; or the request fails.                     *)
CommitWrite(t, r) ==
  /\ <<t, r>> \in writes
  /\ writes' = writes \ {<<t, r>>}
  /\ \/ UNCHANGED <<rows, late>>
     \/ /\ r[1] \in Guarded => r[1] \notin tomb[t]
        /\ rows' = [rows EXCEPT ![t] = @ \cup {r}]
        /\ late' = IF r[1] \in tomb[t] /\ r \notin rows[t]
                   THEN [late EXCEPT ![t] = @ \cup {r}] ELSE late
  /\ UNCHANGED <<tenancy, tomb, saga, bucket, indexed, tick, deletes, history,
                 adm, faults>>

OwnerWrite(t, r) == StartWrite(t, r) \/ CommitWrite(t, r)

SignIn(t) ==
  /\ ws[t] = "ACTIVE" /\ t \notin sessions
  /\ sessions' = sessions \cup {t}
  /\ UNCHANGED <<ws, delMode, age, data, saga, bucket, indexed, tick, deletes,
                 history, adm, faults>>

(* workspaces.endTrial / expire, then afterExpiry: the refresh sessions go *)
(* unless the invocation dies after the first statement.                   *)
ToExpired(t) ==
  /\ ws' = [ws EXCEPT ![t] = "EXPIRED"]
  /\ age' = [age EXCEPT ![t] = 0]
  /\ sessions' \in {sessions \ {t}, sessions}

(* terminate by the owner, patchUser by the admin, or expireDue            *)
EndTrial(t) ==
  /\ ws[t] = "ACTIVE"
  /\ ToExpired(t)
  /\ UNCHANGED <<delMode, data, saga, bucket, indexed, tick, deletes, history,
                 adm, faults>>

(* patchUser with a later end: setTrialExpiry and the sessions revoked.    *)
SetTrialExpiry(t) ==
  /\ AdminExtends
  /\ ws[t] \in {"ACTIVE", "EXPIRED"} /\ ledger[t].phase = "none"
  /\ ws' = [ws EXCEPT ![t] = "ACTIVE"]
  /\ delMode' = [delMode EXCEPT ![t] = "null"]
  /\ age' = [age EXCEPT ![t] = 0]
  /\ sessions' \in {sessions \ {t}, sessions}
  /\ moved' = moved \cup ({t} \cap Archiving)
  /\ UNCHANGED <<data, saga, bucket, indexed, tick, deletes, told, zipped, adm,
                 faults>>

(* deleteUser, first statement: setDeleteMode.                             *)
DeleteUser(t, mode) ==
  /\ t \notin adm
  /\ ws[t] \in {"ACTIVE", "EXPIRED"} /\ ledger[t].phase = "none"
  /\ delMode' = [delMode EXCEPT ![t] = mode]
  /\ adm' = adm \cup {t}
  /\ UNCHANGED <<ws, age, sessions, data, saga, bucket, indexed, tick, deletes,
                 history, faults>>

(* deleteUser, the rest: endTrial (false unless ACTIVE) and revokeUser.    *)
DeleteUserEnd(t) ==
  /\ t \in adm
  /\ adm' = adm \ {t}
  /\ IF ws[t] = "ACTIVE" THEN ToExpired(t)
     ELSE /\ sessions' = sessions \ {t}
          /\ UNCHANGED <<ws, age>>
  /\ UNCHANGED <<delMode, data, saga, bucket, indexed, tick, deletes, history,
                 faults>>

(* The invocation serving deleteUser dies between the two.                 *)
DeleteUserDies(t) ==
  /\ t \in adm /\ faults < MaxFaults
  /\ adm' = adm \ {t}
  /\ faults' = faults + 1
  /\ UNCHANGED <<tenancy, data, saga, bucket, indexed, tick, deletes, history>>

-----------------------------------------------------------------------------
(* ArchiveSagaService: one tick k of the cron.                             *)

Goto(k, l) == pc' = [pc EXCEPT ![k] = l]

(* The tick returns: its local state is gone.                              *)
Return(k) ==
  /\ pc' = [pc EXCEPT ![k] = "idle"]
  /\ at' = [at EXCEPT ![k] = AnyTenant]
  /\ copy' = [copy EXCEPT ![k] = Absent]
  /\ plan' = [plan EXCEPT ![k] = Absent]
  /\ buf' = [buf EXCEPT ![k] = Gone]
  /\ ok' = [ok EXCEPT ![k] = FALSE]
  /\ aged' = aged \ {k}

(* The step ends in patch(led, ...) with the given ledger fields.          *)
PlanPatch(k, led) ==
  /\ plan' = [plan EXCEPT ![k] = led]
  /\ Goto(k, "patch")

(* ledgers.next(), ORDER BY updated_at: the step of the phase, or start(). *)
StepOf(led) ==
  CASE led.phase = "exporting" /\ led.mode # "archive" -> "skip"
    [] led.phase = "exporting" /\ led.mode = "archive" /\ led.svc =< N -> "page"
    [] led.phase = "exporting" /\ led.mode = "archive" /\ led.svc > N -> "zip"
    [] led.phase = "exported" -> "mail"
    [] led.phase \in {"mailed", "purging"} -> "purge"
    [] OTHER -> "verify"

ReadLedger(k) ==
  /\ pc[k] = "idle"
  /\ IF Unfinished = {}
     THEN Goto(k, "start") /\ UNCHANGED <<at, copy>>
     ELSE \E t \in Unfinished :
            /\ \A u \in Unfinished : ledger[t].upd =< ledger[u].upd
            /\ at' = [at EXCEPT ![k] = t]
            /\ copy' = [copy EXCEPT ![k] = ledger[t]]
            /\ Goto(k, StepOf(ledger[t]))
  /\ UNCHANGED <<plan, buf, ok, aged, tenancy, data, saga, bucket, indexed, deletes,
                 history, adm, faults>>

(* Mutant: the wait for the last access token is forgotten.                *)
CandidatesAtOnce ==
  {t \in Tenants : t \in Ended /\ ledger[t].phase = "none"}

(* start(): nextArchiveCandidate, ORDER BY expired_at.                     *)
Candidates ==
  {t \in Tenants : /\ t \in Ended
                   /\ age[t] >= ArchiveDelay
                   /\ ledger[t].phase = "none"}

Start(k) ==
  /\ pc[k] = "start"
  /\ \/ /\ Candidates = {}
        /\ Return(k)
        /\ UNCHANGED ledAge
     \/ \E t \in Candidates :
          /\ \A u \in Candidates : age[u] =< age[t]
          /\ at' = [at EXCEPT ![k] = t]
          /\ IF ws[t] = "ARCHIVING"
             THEN /\ plan' = [plan EXCEPT ![k] = NewLedger("mailed", "no_archive")]
                  /\ Goto(k, "create")
             ELSE /\ plan' = [plan EXCEPT ![k] =
                       NewLedger("exporting", ChooseMode(delMode[t], 1))]
                  /\ Goto(k, "count")
          /\ ledAge' = [ledAge EXCEPT ![t] = age[t]]
          /\ UNCHANGED <<copy, buf, ok, aged>>
  /\ UNCHANGED <<tenancy, data, ledger, clk, bucket, indexed, deletes, history, adm,
                 faults>>

(* countTenant of every service, with the delete_mode read before.         *)
Count(k) ==
  /\ pc[k] = "count"
  /\ plan' = [plan EXCEPT ![k] =
        NewLedger("exporting",
                  ChooseMode(plan[k].mode, Cardinality(rows[at[k]])))]
  /\ Goto(k, "create")
  /\ UNCHANGED <<at, copy, buf, ok, aged, tenancy, data, saga, bucket, indexed,
                 deletes, history, adm, faults>>

(* ledgers.create (ON CONFLICT DO NOTHING); a resumed saga marks nothing.  *)
Create(k) ==
  /\ pc[k] = "create" /\ clk < MaxWrites
  /\ IF ledger[at[k]].phase = "none"
     THEN /\ ledger' = [ledger EXCEPT ![at[k]] = [plan[k] EXCEPT !.upd = clk + 1]]
          /\ clk' = clk + 1
          /\ IF plan[k].phase = "mailed"
             THEN Return(k)
             ELSE Goto(k, "mark") /\ UNCHANGED <<at, copy, plan, buf, ok, aged>>
     ELSE Return(k) /\ UNCHANGED <<ledger, clk>>
  /\ UNCHANGED <<tenancy, data, ledAge, bucket, indexed, deletes, history, adm, faults>>

(* markArchiving *)
Mark(k) ==
  /\ pc[k] = "mark"
  /\ ws' = [ws EXCEPT ![at[k]] = IF @ = "EXPIRED" THEN "ARCHIVING" ELSE @]
  /\ Return(k)
  /\ UNCHANGED <<delMode, age, sessions, data, saga, bucket, indexed, deletes,
                 history, adm, faults>>

(* exportStep without an archive: straight to exported.                    *)
SkipExport(k) ==
  /\ pc[k] = "skip"
  /\ PlanPatch(k, [copy[k] EXCEPT !.phase = "exported"])
  /\ UNCHANGED <<at, copy, buf, ok, aged, tenancy, data, saga, bucket, indexed,
                 deletes, history, adm, faults>>

(* exportStep: one exportTenant page, cut at the last allowed part ...     *)
ReadPage(k) ==
  /\ pc[k] = "page"
  /\ LET led  == copy[k]
         s    == ExportOrder[led.svc]
         page == ExportPage(at[k], s, led.cursor)
     IN  \E next \in NextCursor(s, page) :
           LET cut == next # 0 /\ IsLastAllowedPart(led.svc, led.parts)
           IN  /\ buf' = [buf EXCEPT ![k] =
                             [here |-> TRUE, rows |-> page, cut |-> cut]]
               /\ plan' = [plan EXCEPT ![k] =
                    AdvanceExport([led EXCEPT !.parts = @ + 1],
                                  IF cut THEN 0 ELSE next)]
  /\ Goto(k, "stage")
  /\ UNCHANGED <<at, copy, ok, aged, tenancy, data, saga, bucket, indexed, deletes,
                 history, adm, faults>>

(* ... put as staging part number led.parts.                               *)
StagePart(k) ==
  /\ pc[k] = "stage"
  /\ staging' = [staging EXCEPT ![at[k]][copy[k].parts] = buf[k]]
  /\ Goto(k, "patch")
  /\ UNCHANGED <<at, copy, plan, buf, ok, aged, tenancy, data, saga, zip, zipAge,
                 indexed, deletes, history, adm, faults>>

(* Mutant: zipStep packs what it finds, a missing part restarts nothing.   *)
ReadPartsFound(k) ==
  /\ pc[k] = "zip"
  /\ \E c \in Fits(Assemble(at[k], copy[k].parts)) :
       buf' = [buf EXCEPT ![k] = c]
  /\ plan' = [plan EXCEPT ![k] = [copy[k] EXCEPT !.phase = "exported"]]
  /\ Goto(k, "put")
  /\ UNCHANGED <<at, copy, ok, aged, tenancy, data, saga, bucket, indexed, deletes,
                 history, adm, faults>>

(* zipStep: read every part; a missing one restarts the export ...         *)
ReadParts(k) ==
  /\ pc[k] = "zip"
  /\ IF \A i \in 0..(copy[k].parts - 1) : staging[at[k]][i].here
     THEN /\ \E c \in Fits(Assemble(at[k], copy[k].parts)) :
               buf' = [buf EXCEPT ![k] = c]
          /\ plan' = [plan EXCEPT ![k] = [copy[k] EXCEPT !.phase = "exported"]]
          /\ Goto(k, "put")
     ELSE /\ plan' = [plan EXCEPT ![k] =
               [copy[k] EXCEPT !.svc = 1, !.cursor = 0, !.parts = 0]]
          /\ Goto(k, "unstage")
          /\ UNCHANGED buf
  /\ UNCHANGED <<at, copy, ok, aged, tenancy, data, saga, bucket, indexed, deletes,
                 history, adm, faults>>

(* ... put the ZIP ...                                                     *)
PutZip(k) ==
  /\ pc[k] = "put"
  /\ zip' = [zip EXCEPT ![at[k]] = buf[k]]
  /\ zipAge' = [zipAge EXCEPT ![at[k]] = 0]
  /\ zipped' = [zipped EXCEPT ![at[k]] = buf[k]]
  /\ Goto(k, "head")
  /\ UNCHANGED <<at, copy, plan, buf, ok, aged, tenancy, data, saga, staging, indexed,
                 deletes, moved, told, adm, faults>>

(* ... HEAD it: another size or no object throws ...                       *)
HeadZip(k) ==
  /\ pc[k] = "head"
  /\ Goto(k, IF zip[at[k]] = buf[k] THEN "unstage" ELSE "catch")
  /\ UNCHANGED <<at, copy, plan, buf, ok, aged, tenancy, data, saga, bucket, indexed,
                 deletes, history, adm, faults>>

(* ... and delete the staging prefix.                                      *)
Unstage(k) ==
  /\ pc[k] = "unstage"
  /\ staging' = [staging EXCEPT ![at[k]] = NoParts]
  /\ Goto(k, "patch")
  /\ UNCHANGED <<at, copy, plan, buf, ok, aged, tenancy, data, saga, zip, zipAge,
                 indexed, deletes, history, adm, faults>>

(* mailStep: HEAD the ZIP; when it is gone the mail is a deletion notice.  *)
Mail(k) ==
  /\ pc[k] = "mail"
  /\ IF copy[k].mode = "archive" /\ ~zip[at[k]].here
     THEN /\ plan' = [plan EXCEPT ![k] = [copy[k] EXCEPT !.mode = "no_archive"]]
          /\ Goto(k, "unindex")
     ELSE /\ plan' = [plan EXCEPT ![k] = copy[k]]
          /\ Goto(k, IF copy[k].mode = "archive" THEN "index" ELSE "send")
  /\ UNCHANGED <<at, copy, buf, ok, aged, tenancy, data, saga, bucket, indexed,
                 deletes, history, adm, faults>>

(* archives.finalDelete: the index row, and the ledger of a finished saga. *)
DropIndex(t) ==
  /\ index' = index \ {t}
  /\ linkAge' = [linkAge EXCEPT ![t] = 0]
  /\ ledger' = [ledger EXCEPT ![t] =
       IF @.phase = "account_deleted" THEN Absent ELSE @]

MailZipGone(k) ==
  /\ pc[k] = "unindex"
  /\ DropIndex(at[k])
  /\ Goto(k, "send")
  /\ UNCHANGED <<at, copy, plan, buf, ok, aged, tenancy, data, ledAge, clk, bucket,
                 deletes, history, adm, faults>>

(* archives.upsert: a fresh token and a link of LinkTtl.                   *)
UpsertIndex(k) ==
  /\ pc[k] = "index"
  /\ index' = index \cup {at[k]}
  /\ linkAge' = [linkAge EXCEPT ![at[k]] = 0]
  /\ Goto(k, "send")
  /\ UNCHANGED <<at, copy, plan, buf, ok, aged, tenancy, data, saga, bucket, deletes,
                 history, adm, faults>>

(* notification.send: accepted, or refused; no contact once the account is *)
(* gone.                                                                   *)
Send(k) ==
  /\ pc[k] = "send"
  /\ \/ /\ ws[at[k]] # "NONE"
        /\ ok' = [ok EXCEPT ![k] = TRUE]
        /\ told' = told \cup {at[k]}
        /\ UNCHANGED faults
     \/ /\ ws[at[k]] = "NONE"
        /\ UNCHANGED <<ok, told, faults>>
     \/ /\ ws[at[k]] # "NONE" /\ faults < MaxFaults
        /\ faults' = faults + 1
        /\ UNCHANGED <<ok, told>>
  /\ Goto(k, "mailed")
  /\ UNCHANGED <<at, copy, plan, buf, aged, tenancy, data, saga, bucket, indexed,
                 deletes, moved, zipped, adm>>

(* Mutant: a refused mail counts as sent.                                  *)
MailResultAlways(k) ==
  /\ pc[k] = "mailed"
  /\ PlanPatch(k, [plan[k] EXCEPT !.phase = "mailed"])
  /\ UNCHANGED <<at, copy, buf, ok, aged, tenancy, data, saga, bucket, indexed,
                 deletes, history, adm, faults>>

(* mailed when the mail was accepted or archiveDays have passed.           *)
MailResult(k) ==
  /\ pc[k] = "mailed"
  /\ PlanPatch(k, IF ok[k] \/ ledAge[at[k]] > ArchiveDays
                  THEN [plan[k] EXCEPT !.phase = "mailed"] ELSE plan[k])
  /\ UNCHANGED <<at, copy, buf, ok, aged, tenancy, data, saga, bucket, indexed,
                 deletes, history, adm, faults>>

(* purgeStep: the daily budget refuses, or one purgeTenant call ...        *)
PurgeBudget(k) ==
  /\ pc[k] = "purge" /\ faults < MaxFaults
  /\ faults' = faults + 1
  /\ Return(k)
  /\ UNCHANGED <<tenancy, data, saga, bucket, indexed, deletes, history, adm>>

Purge(k) ==
  /\ pc[k] = "purge"
  /\ LET s == PurgeOrder[copy[k].psvc]
     IN  \E batch \in PurgeBatches(at[k], s) :
           /\ rows' = [rows EXCEPT ![at[k]] = @ \ batch]
           /\ late' = [late EXCEPT ![at[k]] = @ \ batch]
           /\ plan' = [plan EXCEPT ![k] =
                AdvancePurge(copy[k], PurgeDone(s, batch))]
           /\ Goto(k, IF PurgeDone(s, batch) THEN "stone" ELSE "patch")
  /\ UNCHANGED <<at, copy, buf, ok, aged, tenancy, tomb, writes, saga, bucket, indexed,
                 deletes, history, adm, faults>>

(* ... which writes the service's tombstone when it found nothing left.    *)
WriteTombstone(k) ==
  /\ pc[k] = "stone"
  /\ tomb' = [tomb EXCEPT ![at[k]] = @ \cup {PurgeOrder[copy[k].psvc]}]
  /\ Goto(k, "patch")
  /\ UNCHANGED <<at, copy, plan, buf, ok, aged, tenancy, rows, writes, late, saga, bucket,
                 indexed, deletes, history, adm, faults>>

(* countTenant of every service: those that still hold rows.               *)
Left(t) == {i \in 1..N : RowsOf(t, PurgeOrder[i]) # {}}

(* Mutant: deleteAccountStep without the count.                            *)
VerifyBlind(k) ==
  /\ pc[k] = "verify"
  /\ Goto(k, "account")
  /\ UNCHANGED <<plan, at, copy, buf, ok, aged, tenancy, data, saga, bucket, indexed,
                 deletes, history, adm, faults>>

(* deleteAccountStep: the first service that still counts rows is purged   *)
(* again ...                                                               *)
Verify(k) ==
  /\ pc[k] = "verify"
  /\ \/ \E i \in Left(at[k]) :
          /\ \A j \in Left(at[k]) : i =< j
          /\ PlanPatch(k, [copy[k] EXCEPT !.phase = "purging", !.psvc = i])
     \/ Left(at[k]) = {} /\ Goto(k, "account") /\ UNCHANGED plan
  /\ UNCHANGED <<at, copy, buf, ok, aged, tenancy, data, saga, bucket, indexed,
                 deletes, history, adm, faults>>

(* Mutant: the batch leaves the refresh sessions.                          *)
DeleteAccountKeepsSessions(k) ==
  /\ pc[k] = "account"
  /\ ws' = [ws EXCEPT ![at[k]] = "NONE"]
  /\ delMode' = [delMode EXCEPT ![at[k]] = "null"]
  /\ Goto(k, "keep")
  /\ UNCHANGED <<age, sessions, at, copy, plan, buf, ok, aged, data, saga, bucket,
                 indexed, deletes, history, adm, faults>>

(* ... otherwise workspaces.deleteAccount, in one batch ...                *)
DeleteAccount(k) ==
  /\ pc[k] = "account"
  /\ ws' = [ws EXCEPT ![at[k]] = "NONE"]
  /\ delMode' = [delMode EXCEPT ![at[k]] = "null"]
  /\ sessions' = sessions \ {at[k]}
  /\ Goto(k, "keep")
  /\ UNCHANGED <<age, at, copy, plan, buf, ok, aged, data, saga, bucket,
                 indexed, deletes, history, adm, faults>>

(* ... and the ledger stays only while the ZIP does.                       *)
KeepLedger(k) ==
  /\ pc[k] = "keep"
  /\ IF copy[k].mode = "archive" /\ at[k] \in index
     THEN PlanPatch(k, [copy[k] EXCEPT !.phase = "account_deleted"])
     ELSE Goto(k, "forget") /\ UNCHANGED plan
  /\ UNCHANGED <<at, copy, buf, ok, aged, tenancy, data, saga, bucket, indexed,
                 deletes, history, adm, faults>>

DeleteLedger(k) ==
  /\ pc[k] = "forget"
  /\ ledger' = [ledger EXCEPT ![at[k]] = Absent]
  /\ Return(k)
  /\ UNCHANGED <<tenancy, data, ledAge, clk, bucket, indexed, deletes, history,
                 adm, faults>>

(* Mutant: ledgers.update without the WHERE on updated_at.                 *)
PatchBlind(k) ==
  /\ pc[k] = "patch" /\ clk < MaxWrites
  /\ IF ledger[at[k]].phase # "none"
     THEN /\ ledger' = [ledger EXCEPT ![at[k]] = [plan[k] EXCEPT !.upd = clk + 1]]
          /\ clk' = clk + 1
     ELSE UNCHANGED <<ledger, clk>>
  /\ Return(k)
  /\ UNCHANGED <<tenancy, data, ledAge, bucket, indexed, deletes, history, adm,
                 faults>>

(* patch(): ledgers.update WHERE updated_at is still the one read.         *)
Patch(k) ==
  /\ pc[k] = "patch" /\ clk < MaxWrites
  /\ IF ledger[at[k]].phase # "none" /\ ledger[at[k]].upd = copy[k].upd
     THEN /\ ledger' = [ledger EXCEPT ![at[k]] = [plan[k] EXCEPT !.upd = clk + 1]]
          /\ clk' = clk + 1
     ELSE UNCHANGED <<ledger, clk>>
  /\ Return(k)
  /\ UNCHANGED <<tenancy, data, ledAge, bucket, indexed, deletes, history, adm,
                 faults>>

(* A call of step() throws.                                                *)
Throw(k) ==
  /\ pc[k] \notin {"idle", "start", "count", "create", "mark", "catch"}
  /\ faults < MaxFaults
  /\ faults' = faults + 1
  /\ Goto(k, "catch")
  /\ UNCHANGED <<at, copy, plan, buf, ok, aged, tenancy, data, saga, bucket, indexed,
                 deletes, history, adm>>

(* The catch of tick(): re-read the ledger, count the attempt.             *)
Catch(k) ==
  /\ pc[k] = "catch" /\ clk < MaxWrites
  /\ IF ledger[at[k]].phase # "none"
     THEN /\ ledger' = [ledger EXCEPT ![at[k]].upd = clk + 1]
          /\ clk' = clk + 1
     ELSE UNCHANGED <<ledger, clk>>
  /\ Return(k)
  /\ UNCHANGED <<tenancy, data, ledAge, bucket, indexed, deletes, history, adm,
                 faults>>

(* The invocation is killed, or start() throws: nothing is written.        *)
Die(k) ==
  /\ pc[k] # "idle" /\ faults < MaxFaults
  /\ faults' = faults + 1
  /\ Return(k)
  /\ UNCHANGED <<tenancy, data, saga, bucket, indexed, deletes, history, adm>>

Tick(k) ==
  \/ ReadLedger(k) \/ Start(k) \/ Count(k) \/ Create(k) \/ Mark(k)
  \/ SkipExport(k) \/ ReadPage(k) \/ StagePart(k)
  \/ ReadParts(k) \/ PutZip(k) \/ HeadZip(k) \/ Unstage(k)
  \/ Mail(k) \/ MailZipGone(k) \/ UpsertIndex(k) \/ Send(k) \/ MailResult(k)
  \/ Purge(k) \/ WriteTombstone(k)
  \/ Verify(k) \/ DeleteAccount(k) \/ KeepLedger(k) \/ DeleteLedger(k)
  \/ Patch(k) \/ Catch(k)

-----------------------------------------------------------------------------
(* TrialService.finalDelete, called by the owner's link, the admin (a      *)
(* "person") or finalDeleteDue (the "cron").                               *)

FindArchive(d, t) ==
  /\ dpc[d] = "idle" /\ t \in index
  /\ d = "cron" => linkAge[t] >= LinkTtl
  /\ dpc' = [dpc EXCEPT ![d] = "blob"]
  /\ dat' = [dat EXCEPT ![d] = t]
  /\ UNCHANGED <<tenancy, data, saga, bucket, indexed, tick, history, adm,
                 faults>>

(* blobs.deleteAllVersions *)
DeleteZip(d) ==
  /\ dpc[d] = "blob"
  /\ zip' = [zip EXCEPT ![dat[d]] = Gone]
  /\ zipAge' = [zipAge EXCEPT ![dat[d]] = 0]
  /\ dpc' = [dpc EXCEPT ![d] = "index"]
  /\ UNCHANGED <<dat, tenancy, data, saga, staging, indexed, tick, history, adm,
                 faults>>

(* archives.finalDelete *)
DeleteIndex(d) ==
  /\ dpc[d] = "index"
  /\ DropIndex(dat[d])
  /\ dpc' = [dpc EXCEPT ![d] = "idle"]
  /\ dat' = [dat EXCEPT ![d] = AnyTenant]
  /\ UNCHANGED <<tenancy, data, ledAge, clk, bucket, tick, history, adm,
                 faults>>

(* The invocation deleting the archive dies.                               *)
DeleteDies(d) ==
  /\ dpc[d] # "idle" /\ faults < MaxFaults
  /\ faults' = faults + 1
  /\ dpc' = [dpc EXCEPT ![d] = "idle"]
  /\ dat' = [dat EXCEPT ![d] = AnyTenant]
  /\ UNCHANGED <<tenancy, data, saga, bucket, indexed, tick, history, adm>>

(* Mutant: the cron never sweeps.                                          *)
DeleteOrphansNever ==
  /\ \E t \in Tenants : ledger[t].phase = "account_deleted" /\ t \notin index
  /\ UNCHANGED vars

(* ledgers.deleteOrphans: finished sagas whose archive is gone.            *)
DeleteOrphans ==
  /\ \E t \in Tenants : ledger[t].phase = "account_deleted" /\ t \notin index
  /\ ledger' = [t \in Tenants |->
       IF ledger[t].phase = "account_deleted" /\ t \notin index
       THEN Absent ELSE ledger[t]]
  /\ UNCHANGED <<tenancy, data, ledAge, clk, bucket, indexed, tick, deletes,
                 history, adm, faults>>

-----------------------------------------------------------------------------
(* Time and the bucket's lifecycle rules.                                  *)

(* f grows up to cap for the workspaces of S.                              *)
Older(f, S, cap) ==
  [t \in Tenants |-> IF t \in S /\ f[t] < cap THEN f[t] + 1 ELSE f[t]]

Uploaded == {t \in Tenants : zip[t].here}

(* An invocation of the cron lives minutes: time passes in it at most once. *)
(* A request is over within RequestTtl after its token is.                 *)
Advance ==
  /\ aged = {}
  /\ \A w \in writes : ws[w[1]] # "ACTIVE" => age[w[1]] + 1 < Grace
  /\ aged' = {k \in Ticks : pc[k] # "idle"}
  /\ age' = Older(age, {t \in Tenants : ws[t] # "ACTIVE"}, ArchiveDays + 1)
  /\ ledAge' = Older(ledAge, Archiving, ArchiveDays + 1)
  /\ linkAge' = Older(linkAge, index, LinkTtl)
  /\ zipAge' = Older(zipAge, Uploaded, ZipRule)
  /\ <<age', ledAge', linkAge', zipAge'>> # <<age, ledAge, linkAge, zipAge>>
  /\ UNCHANGED <<ws, delMode, sessions, data, ledger, clk, staging, zip, index,
                 pc, at, copy, plan, buf, ok, deletes, history, adm, faults>>

(* B2 hides a ZIP ZipRule after its upload, a staged part a day after.      *)
BucketRule(t) ==
  \/ /\ zip[t].here /\ zipAge[t] >= ZipRule
     /\ zip' = [zip EXCEPT ![t] = Gone]
     /\ zipAge' = [zipAge EXCEPT ![t] = 0]
     /\ UNCHANGED <<tenancy, data, saga, staging, indexed, tick, deletes,
                    history, adm, faults>>
  \/ /\ faults < MaxFaults /\ faults' = faults + 1
     /\ \E i \in 0..MaxParts :
          /\ staging[t][i].here
          /\ staging' = [staging EXCEPT ![t][i] = Gone]
     /\ UNCHANGED <<tenancy, data, saga, zip, zipAge, indexed, tick, deletes,
                    history, adm>>

Next ==
  \/ \E t \in Tenants :
       \/ \E r \in Row : OwnerWrite(t, r)
       \/ SignIn(t) \/ EndTrial(t) \/ SetTrialExpiry(t)
       \/ \E m \in {"archive", "no_archive"} : DeleteUser(t, m)
       \/ DeleteUserEnd(t) \/ DeleteUserDies(t)
       \/ BucketRule(t)
  \/ \E k \in Ticks : Tick(k) \/ PurgeBudget(k) \/ Throw(k) \/ Die(k)
  \/ \E d \in Deleters : \/ \E t \in Tenants : FindArchive(d, t)
                         \/ DeleteZip(d) \/ DeleteIndex(d) \/ DeleteDies(d)
  \/ DeleteOrphans
  \/ Advance

Spec == Init /\ [][Next]_vars

(* The cron fires every two minutes and time passes: ticks, the cron's     *)
(* final delete and the clock never stop, and a request that has begun is  *)
(* over some time.  People owe nothing.                                    *)
Fairness ==
  /\ \A k \in Ticks : WF_vars(Tick(k))
  /\ \A t \in Tenants : WF_vars(EndTrial(t)) /\ WF_vars(FindArchive("cron", t))
  /\ \A t \in Tenants : WF_vars(\E r \in Row : CommitWrite(t, r))
  /\ \A d \in Deleters : WF_vars(DeleteZip(d)) /\ WF_vars(DeleteIndex(d))
  /\ WF_vars(DeleteOrphans) /\ WF_vars(Advance)

FairSpec == Spec /\ Fairness

-----------------------------------------------------------------------------
(* Properties *)

TenancyOK ==
  /\ ws \in [Tenants -> {"ACTIVE", "EXPIRED", "ARCHIVING", "NONE"}]
  /\ delMode \in [Tenants -> {"null", "archive", "no_archive"}]
  /\ age \in [Tenants -> Nat] /\ sessions \subseteq Tenants
DataOK ==
  /\ rows \in [Tenants -> SUBSET Row] /\ tomb \in [Tenants -> SUBSET Services]
  /\ writes \subseteq Tenants \X Row /\ late \in [Tenants -> SUBSET Row]
SagaOK    == /\ ledger \in [Tenants -> Ledger]
             /\ ledAge \in [Tenants -> Nat] /\ clk \in Nat
BucketOK  == /\ staging \in [Tenants -> [0..MaxParts -> Content]]
             /\ zip \in [Tenants -> Content] /\ zipAge \in [Tenants -> Nat]
IndexedOK == index \subseteq Tenants /\ linkAge \in [Tenants -> Nat]
TickOK ==
  /\ pc \in [Ticks -> Calls] /\ at \in [Ticks -> Tenants]
  /\ copy \in [Ticks -> Ledger] /\ plan \in [Ticks -> Ledger]
  /\ buf \in [Ticks -> Content] /\ ok \in [Ticks -> BOOLEAN]
  /\ aged \subseteq Ticks
DeletesOK == /\ dpc \in [Deleters -> {"idle", "blob", "index"}]
             /\ dat \in [Deleters -> Tenants]
HistoryOK == /\ {moved, told} \subseteq SUBSET Tenants
             /\ zipped \in [Tenants -> Content]

(* Every variable keeps its type: the rows of workspace, purge_ledger and  *)
(* archive_index, the B2 objects and the local state of the invocations.   *)
TypeOK ==
  /\ TenancyOK /\ DataOK /\ SagaOK /\ BucketOK /\ IndexedOK
  /\ TickOK /\ DeletesOK /\ HistoryOK
  /\ adm \subseteq Tenants /\ faults \in Nat

(* What entitles the saga to destroy a workspace's data: the owner got the *)
(* archive (or deletion) mail, archiveDays have passed since the trial     *)
(* ended, or an older version had already mailed it.                       *)
Entitled(t) == t \in told \/ ledAge[t] > ArchiveDays \/ t \in Legacy

(* A row disappears from a service only once the owner was told, or could  *)
(* not be told for archiveDays, whatever ticks overlap, throw or die.      *)
NoticeBeforePurge ==
  [][\A t \in Tenants : rows[t] \ rows'[t] # {} => Entitled(t)]_vars

(* A row the purge deletes from a workspace that is being archived is in   *)
(* the ZIP that was uploaded, or that ZIP is marked truncated: no write of *)
(* a still valid token, and no overlap of ticks, slips between the export  *)
(* and the purge.                                                          *)
NothingLostUnarchived ==
  [][\A t \in Tenants : \A r \in rows[t] \ rows'[t] :
       ledger[t].mode = "archive" /\ ledger[t].phase # "none"
         => zipped[t].cut \/ r \in zipped[t].rows]_vars

(* A saga never goes back to an earlier stage: a tick that overslept does  *)
(* not undo what the next one did (the WHERE updated_at of ledgers.update).*)
Rank(phase) == CASE phase = "exporting" -> 1 [] phase = "exported" -> 2
                 [] phase = "mailed" -> 3 [] phase \in {"purging", "purged"} -> 4
                 [] phase = "account_deleted" -> 5 [] OTHER -> 6
SagaForward ==
  [][\A t \in Tenants : ledger[t].phase # "none" =>
       Rank(ledger[t].phase) =< Rank(ledger'[t].phase)]_vars

(* A ZIP is never overwritten by one that lacks a row of the first and is  *)
(* not marked truncated: a saga restarted or run twice cannot replace the  *)
(* archive with what the purge has left.  Only a workspace extended while  *)
(* a tick opened its saga may store rows between two exports.  This is     *)
(* about two invocations: with a third, one asleep in exportStep and one   *)
(* in zipStep until the purge has begun stage and pack what it has left.   *)
ZipNeverShrinks ==
  [][\A t \in Tenants \ moved : ws[t] # "ACTIVE" /\ zip[t].here /\ zip'[t].here =>
       zip'[t].cut \/ zip[t].rows \subseteq zip'[t].rows]_vars

(* A tick that overslept undoes nothing: neither the phase nor the ZIP.     *)
NothingUndone == SagaForward /\ ZipNeverShrinks

(* Once the account is deleted no session is left, and no row but those a   *)
(* request stored behind the tombstone that it had not seen (or that its    *)
(* service does not look at): whatever was stored before the tombstone, the *)
(* last count finds.  Such a row takes an extension of the trial while a    *)
(* tick opens its saga: otherwise every token and request is over by then.  *)
AccountDeletedClean ==
  \A t \in Tenants :
    /\ ws[t] = "NONE" => rows[t] \subseteq late[t] /\ t \notin sessions
    /\ t \notin moved => late[t] = {}

(* A saga never stages more than MAX_STAGING_PARTS parts, so zipStep stays *)
(* within its subrequests whatever restarts and overlaps happen.           *)
StagingBounded == \A t \in Tenants : ledger[t].parts =< MaxParts

(* A workspace in the saga is no longer ACTIVE: start() "mark[s] the       *)
(* workspace ARCHIVING".                                                   *)
ArchivingNotActive ==
  \A t \in Unfinished : ws[t] # "ACTIVE"

(* The saga has begun, or is over with the account: never undone.          *)
Begun(t) == ledger[t].phase # "none" \/ ws[t] = "NONE"

(* Entitled, in the form that later steps cannot undo: start() re-reads    *)
(* expired_at only for a saga that has not begun.                          *)
Cleared(t) == t \in told \/ t \in Legacy
              \/ (Begun(t) /\ ledAge[t] > ArchiveDays)

(* The saga implements the lifecycle promised to the owner: rows vanish    *)
(* only after the notice, the account closes only when every service is    *)
(* empty and with its sessions, nothing is stored or signed in to after.   *)
(* Rows that a request stored behind a tombstone are not among its data.   *)
Lifecycle == INSTANCE TrialLifecycle WITH
  stage  <- [t \in Tenants |-> IF ws[t] = "NONE" THEN "closed"
                               ELSE IF Cleared(t) THEN "noticed" ELSE "kept"],
  data   <- [t \in Tenants |-> rows[t] \ late[t]],
  access <- sessions
LifecycleKept == Lifecycle!Spec

(* An ended trial is eventually erased: workspace, rows, sessions, ledger, *)
(* archive index and ZIP are all gone.                                     *)
Erased(t) ==
  /\ ws[t] = "NONE" /\ rows[t] = {} /\ t \notin sessions
  /\ ledger[t].phase = "none" /\ t \notin index /\ ~zip[t].here
EventuallyErased ==
  \A t \in Tenants : ws[t] # "ACTIVE" ~> Erased(t)

(* The saga's state is well formed whatever ticks overlap: page and part   *)
(* arithmetic stays in range and the export never stages more parts than   *)
(* zipStep has subrequests for.                                            *)
SagaWellFormed == TypeOK /\ StagingBounded
=============================================================================

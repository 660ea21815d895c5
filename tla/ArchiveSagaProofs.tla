------------------------- MODULE ArchiveSagaProofs -------------------------
(***************************************************************************)
(* Theorems about the archive saga, for every number of workspaces, ticks, *)
(* services and rows.                                                      *)
(***************************************************************************)
EXTENDS ArchiveSaga, FiniteSetTheorems, WellFoundedInduction, TLAPS

(* A ledger that still has a staging part left for every service it has to *)
(* export: what isLastAllowedPart is for.                                  *)
Roomy == {led \in Ledger : led.parts + (N - led.svc) < MaxParts}

(* The ledgers stored, read and about to be written are all such, and a    *)
(* tick about to export a page has a service left to export.               *)
RoomInv ==
  /\ ledger \in [Tenants -> Roomy]
  /\ copy \in [Ticks -> Roomy] /\ plan \in [Ticks -> Roomy]
PageInv == \A k \in Ticks : pc[k] = "page" => copy[k].svc =< N
TypeInv == TypeOK /\ RoomInv /\ PageInv

(* There is a service, and a staging part for each.                        *)
LEMMA Sizes == N \in Nat /\ N >= 1 /\ MaxParts \in Nat /\ N =< MaxParts
BY OrderAssumption, BoundAssumption DEF N

(* The empty ledger, object and staging area have their types.             *)
LEMMA EmptyTypes == /\ Absent \in Roomy
                    /\ Gone \in Content
                    /\ NoParts \in [0..MaxParts -> Content]
BY Sizes DEF Absent, NewLedger, Roomy, Ledger, Phases, Modes, Gone, Content, NoParts

(* Some workspace exists.                                                  *)
LEMMA AnyTenantType == AnyTenant \in Tenants
BY BoundAssumption DEF AnyTenant

(* Such a ledger is a ledger.                                              *)
LEMMA RoomySubset == Roomy \subseteq Ledger
BY DEF Roomy

(* Changing a field other than the export's keeps the room.                *)
LEMMA LedgerUpdates ==
  ASSUME NEW led \in Roomy
  PROVE  /\ \A p \in Phases \cup {"none"} : [led EXCEPT !.phase = p] \in Roomy
         /\ \A x \in Modes : [led EXCEPT !.mode = x] \in Roomy
         /\ \A u \in Nat : [led EXCEPT !.upd = u] \in Roomy
         /\ [led EXCEPT !.svc = 1, !.cursor = 0, !.parts = 0] \in Roomy
         /\ \A i \in 1..N : [led EXCEPT !.phase = "purging", !.psvc = i] \in Roomy
<1>1. \A p \in Phases \cup {"none"} : [led EXCEPT !.phase = p] \in Roomy
  BY DEF Roomy, Ledger
<1>2. \A x \in Modes : [led EXCEPT !.mode = x] \in Roomy
  BY DEF Roomy, Ledger
<1>3. \A u \in Nat : [led EXCEPT !.upd = u] \in Roomy
  BY DEF Roomy, Ledger
<1>4. [led EXCEPT !.svc = 1, !.cursor = 0, !.parts = 0] \in Roomy
  <2> DEFINE a == [led EXCEPT !.svc = 1]
             b == [a EXCEPT !.cursor = 0]
             c == [b EXCEPT !.parts = 0]
  <2>1. a \in Ledger /\ a.svc = 1
    BY Sizes DEF Roomy, Ledger
  <2> HIDE DEF a
  <2>2. b \in Ledger /\ b.svc = 1
    BY <2>1 DEF Ledger
  <2> HIDE DEF b
  <2>3. c \in Ledger /\ c.svc = 1 /\ c.parts = 0
    BY <2>2 DEF Ledger
  <2> HIDE DEF c
  <2>4. c \in Roomy
    BY <2>3, Sizes DEF Roomy
  <2>5. [led EXCEPT !.svc = 1, !.cursor = 0, !.parts = 0] = c
    BY DEF a, b, c
  <2> QED
    BY <2>4, <2>5
<1>5. \A i \in 1..N : [led EXCEPT !.phase = "purging", !.psvc = i] \in Roomy
  <2> DEFINE a == [led EXCEPT !.phase = "purging"]
  <2>1. a \in Roomy
    BY <1>1 DEF Phases
  <2> HIDE DEF a
  <2>2. \A i \in 1..N : [a EXCEPT !.psvc = i] \in Roomy
    BY <2>1 DEF Roomy, Ledger
  <2>3. \A i \in 1..N : [led EXCEPT !.phase = "purging", !.psvc = i]
                          = [a EXCEPT !.psvc = i]
    BY DEF a
  <2> QED
    BY <2>2, <2>3
<1> QED
  BY <1>1, <1>2, <1>3, <1>4, <1>5

(* PURGE_ORDER names services.                                             *)
LEMMA PurgeOrderType ==
  ASSUME NEW i \in 1..N PROVE PurgeOrder[i] \in Services
<1>1. PurgeOrder \in Seq(Services) /\ Len(PurgeOrder) = N
  BY OrderAssumption DEF N
<1> QED
  BY <1>1

(* A new ledger is a ledger, whatever mode start() chose.                  *)
LEMMA NewLedgerType ==
  ASSUME NEW p \in Phases, NEW x \in Modes PROVE NewLedger(p, x) \in Roomy
BY Sizes DEF NewLedger, Roomy, Ledger

(* What chooseMode may return is a mode a ledger can have.                 *)
LEMMA ChooseModeType ==
  ASSUME NEW mode, NEW total PROVE ChooseMode(mode, total) \in Modes
BY DEF ChooseMode, Modes

(* Advancing a ledger leaves a ledger: the cursors stay in their orders.   *)
LEMMA AdvanceExportType ==
  ASSUME NEW led \in Roomy, led.svc =< N, NEW next \in Nat,
         next # 0 => ~ IsLastAllowedPart(led.svc, led.parts)
  PROVE  AdvanceExport([led EXCEPT !.parts = @ + 1], next) \in Roomy
<1> DEFINE more == [led EXCEPT !.parts = @ + 1]
<1>0. /\ more \in Ledger /\ more.parts = led.parts + 1 /\ more.svc = led.svc
      /\ led.parts \in Nat /\ led.svc \in 1..N
      /\ led.parts + (N - led.svc) < MaxParts
  BY Sizes DEF Roomy, Ledger
<1> HIDE DEF more
<1>1. CASE next # 0
  <2> DEFINE new == [more EXCEPT !.cursor = next]
  <2>1. new \in Ledger /\ new.parts = led.parts + 1 /\ new.svc = led.svc
    BY <1>0 DEF Ledger
  <2>2. led.parts + 1 + (N - led.svc) < MaxParts
    BY <1>0, <1>1, Sizes DEF IsLastAllowedPart
  <2>3. AdvanceExport(more, next) = new
    BY <1>1 DEF AdvanceExport
  <2> HIDE DEF new
  <2> QED
    BY <2>1, <2>2, <2>3 DEF Roomy, more
<1>2. CASE next = 0
  <2> DEFINE mid == [more EXCEPT !.svc = @ + 1]
             new == [mid EXCEPT !.cursor = 0]
  <2>0. mid \in Ledger /\ mid.parts = led.parts + 1 /\ mid.svc = led.svc + 1
    BY <1>0, Sizes DEF Ledger
  <2> HIDE DEF mid
  <2>1. new \in Ledger /\ new.parts = led.parts + 1 /\ new.svc = led.svc + 1
    BY <2>0 DEF Ledger
  <2>2. led.parts + 1 + (N - (led.svc + 1)) < MaxParts
    BY <1>0, Sizes
  <2>3. AdvanceExport(more, next) = new
    BY <1>2 DEF AdvanceExport, mid
  <2> HIDE DEF new
  <2> QED
    BY <2>1, <2>2, <2>3 DEF Roomy, more
<1> QED
  BY <1>1, <1>2

(* Advancing the purge keeps a ledger with room, whether or not it is done. *)
LEMMA AdvancePurgeType ==
  ASSUME NEW led \in Roomy, NEW done \in BOOLEAN
  PROVE  AdvancePurge(led, done) \in Roomy
<1>1. CASE ~ done
  BY <1>1 DEF AdvancePurge, Roomy, Ledger, Phases
<1>2. CASE done /\ led.psvc < N
  <2>1. led.psvc + 1 \in 1..N
    BY <1>2, Sizes DEF Roomy, Ledger
  <2>2. [led EXCEPT !.phase = "purging", !.psvc = led.psvc + 1] \in Roomy
    BY <2>1, LedgerUpdates, Zenon
  <2> QED
    BY <1>2, <2>2 DEF AdvancePurge
<1>3. CASE done /\ ~ led.psvc < N
  BY <1>3 DEF AdvancePurge, Roomy, Ledger, Phases
<1> QED
  BY <1>1, <1>2, <1>3

(* What fitToBudget leaves of an object is an object.                      *)
LEMMA FitsType == ASSUME NEW c \in Content PROVE Fits(c) \subseteq Content
<1>1. CASE Cardinality(c.rows) =< ZipRows
  BY <1>1 DEF Fits
<1>2. CASE ~ (Cardinality(c.rows) =< ZipRows)
  <2>1. \A s \in SUBSET c.rows : [here |-> TRUE, rows |-> s, cut |-> TRUE] \in Content
    BY DEF Content
  <2>2. Fits(c) = {[here |-> TRUE, rows |-> s, cut |-> TRUE] :
                     s \in {x \in SUBSET c.rows : Cardinality(x) = ZipRows}}
    BY <1>2 DEF Fits
  <2> QED
    BY <2>1, <2>2, Zenon
<1> QED
  BY <1>1, <1>2

(* Time only makes natural numbers grow.                                   *)
LEMMA OlderType ==
  ASSUME NEW f \in [Tenants -> Nat], NEW S, NEW cap
  PROVE  Older(f, S, cap) \in [Tenants -> Nat]
BY DEF Older

(* The initial state is well typed, and every ledger has room.             *)
LEMMA TypeInit == Init => TypeInv
<1> SUFFICES ASSUME Init PROVE TypeInv
  OBVIOUS
<1> USE EmptyTypes, AnyTenantType, BoundAssumption, RoomySubset DEF Init
<1>1. TenancyOK
  BY DEF TenancyOK
<1>2. DataOK /\ SagaOK /\ BucketOK /\ IndexedOK /\ HistoryOK /\ DeletesOK
  BY DEF DataOK, SagaOK, BucketOK, IndexedOK, HistoryOK, DeletesOK
<1>3. TickOK /\ RoomInv /\ PageInv
  BY DEF TickOK, Calls, RoomInv, PageInv
<1> QED
  BY <1>1, <1>2, <1>3 DEF TypeInv, TypeOK

(* The parts of the state an action leaves alone keep their types.         *)
LEMMA UnchangedTypes ==
  /\ TenancyOK /\ tenancy' = tenancy => TenancyOK'
  /\ DataOK /\ data' = data => DataOK'
  /\ SagaOK /\ saga' = saga => SagaOK'
  /\ BucketOK /\ bucket' = bucket => BucketOK'
  /\ IndexedOK /\ indexed' = indexed => IndexedOK'
  /\ TickOK /\ tick' = tick => TickOK'
  /\ DeletesOK /\ deletes' = deletes => DeletesOK'
  /\ HistoryOK /\ history' = history => HistoryOK'
<1>1. TenancyOK /\ tenancy' = tenancy => TenancyOK'
  BY DEF TenancyOK, tenancy
<1>2. DataOK /\ data' = data => DataOK'
  BY DEF DataOK, data
<1>3. SagaOK /\ saga' = saga => SagaOK'
  BY DEF SagaOK, saga
<1>4. BucketOK /\ bucket' = bucket => BucketOK'
  BY DEF BucketOK, bucket
<1>5. IndexedOK /\ indexed' = indexed => IndexedOK'
  BY DEF IndexedOK, indexed
<1>6. TickOK /\ tick' = tick => TickOK'
  BY DEF TickOK, tick
<1>7. DeletesOK /\ deletes' = deletes => DeletesOK'
  BY DEF DeletesOK, deletes
<1>8. HistoryOK /\ history' = history => HistoryOK'
  BY DEF HistoryOK, history
<1> QED
  BY <1>1, <1>2, <1>3, <1>4, <1>5, <1>6, <1>7, <1>8

(* Every action preserves the types.                                       *)
LEMMA TypeStep == TypeInv /\ [Next]_vars => TypeInv'
<1> SUFFICES ASSUME TypeInv PROVE [Next]_vars => TypeInv'
  OBVIOUS
<1> USE UnchangedTypes, RoomySubset DEF TypeInv, TypeOK, RoomInv, PageInv, saga
<1>1. ASSUME NEW t \in Tenants, \E r \in Row : OwnerWrite(t, r) PROVE TypeInv'
  BY <1>1 DEF OwnerWrite, StartWrite, CommitWrite, DataOK, data, TickOK, tick, Calls
<1>2. ASSUME NEW t \in Tenants, SignIn(t) PROVE TypeInv'
  BY <1>2 DEF SignIn, TenancyOK, tenancy, TickOK, tick, Calls
<1>3. ASSUME NEW t \in Tenants, EndTrial(t) PROVE TypeInv'
  BY <1>3 DEF EndTrial, ToExpired, TenancyOK, tenancy, TickOK, tick, Calls
<1>4. ASSUME NEW t \in Tenants, SetTrialExpiry(t) PROVE TypeInv'
  BY <1>4 DEF SetTrialExpiry, TenancyOK, tenancy, HistoryOK, TickOK, tick, Calls
<1>5. ASSUME NEW t \in Tenants, \E m \in {"archive", "no_archive"} : DeleteUser(t, m) PROVE TypeInv'
  BY <1>5 DEF DeleteUser, TenancyOK, tenancy, TickOK, tick, Calls
<1>6. ASSUME NEW t \in Tenants, DeleteUserEnd(t) PROVE TypeInv'
  BY <1>6 DEF DeleteUserEnd, ToExpired, TenancyOK, tenancy, TickOK, tick,
     Calls
<1>7. ASSUME NEW t \in Tenants, DeleteUserDies(t) PROVE TypeInv'
  BY <1>7 DEF DeleteUserDies, TickOK, tick, Calls
<1>8. ASSUME NEW t \in Tenants, BucketRule(t) PROVE TypeInv'
  <2>1. ASSUME zip' = [zip EXCEPT ![t] = Gone],
               zipAge' = [zipAge EXCEPT ![t] = 0], staging' = staging
        PROVE  BucketOK'
    BY <2>1, EmptyTypes DEF BucketOK
  <2>2. ASSUME \E i \in 0..MaxParts : staging' = [staging EXCEPT ![t][i] = Gone],
               zip' = zip, zipAge' = zipAge
        PROVE  BucketOK'
    <3>1. PICK i \in 0..MaxParts : staging' = [staging EXCEPT ![t][i] = Gone]
      BY <2>2
    <3>2. [staging[t] EXCEPT ![i] = Gone] \in [0..MaxParts -> Content]
      BY EmptyTypes DEF BucketOK
    <3>3. staging' \in [Tenants -> [0..MaxParts -> Content]]
      BY <3>1, <3>2 DEF BucketOK
    <3> QED
      BY <2>2, <3>3 DEF BucketOK
  <2>3. BucketOK'
    BY <1>8, <2>1, <2>2 DEF BucketRule
  <2> QED
    BY <1>8, <2>3 DEF BucketRule, TickOK, tick
<1>9. ASSUME NEW k \in Ticks, ReadLedger(k) PROVE TypeInv'
  BY <1>9 DEF ReadLedger, Goto, Unfinished, StepOf, TickOK, tick, Calls,
     SagaOK
<1>10. ASSUME NEW k \in Ticks, Start(k) PROVE TypeInv'
  <2>1. \A t \in Tenants :
          NewLedger("exporting", ChooseMode(delMode[t], 1)) \in Roomy
    BY NewLedgerType, ChooseModeType DEF Phases
  <2>2. NewLedger("mailed", "no_archive") \in Roomy
    BY NewLedgerType DEF Phases, Modes
  <2>3. TickOK'
    <3>1. CASE Return(k)
      BY <3>1, EmptyTypes, AnyTenantType DEF Return, TickOK, Calls
    <3>2. CASE ~ Return(k)
      BY <1>10, <2>1, <2>2, <3>2 DEF Start, Goto, TickOK, Calls, Candidates
    <3> QED
      BY <3>1, <3>2
  <2>4. SagaOK'
    BY <1>10 DEF Start, SagaOK, TenancyOK, Candidates
  <2>5. PageInv'
    BY <1>10 DEF Start, Goto, Return, TickOK
  <2>6. RoomInv'
    <3>1. CASE Return(k)
      BY <1>10, <3>1, EmptyTypes DEF Start, Return
    <3>2. CASE ~ Return(k)
      BY <1>10, <2>1, <2>2, <3>2 DEF Start, Candidates
    <3> QED
      BY <3>1, <3>2
  <2> QED
    BY <1>10, <2>3, <2>4, <2>5, <2>6 DEF Start
<1>11. ASSUME NEW k \in Ticks, Count(k) PROVE TypeInv'
  <2>1. NewLedger("exporting",
          ChooseMode(plan[k].mode, Cardinality(rows[at[k]]))) \in Roomy
    BY NewLedgerType, ChooseModeType DEF RoomInv, TickOK, Phases
  <2> QED
    BY <1>11, <2>1 DEF Count, Goto, TickOK, tick, Calls
<1>12. ASSUME NEW k \in Ticks, Create(k) PROVE TypeInv'
  <2>0. plan[k] \in Roomy /\ clk + 1 \in Nat
    BY DEF RoomInv, TickOK, SagaOK
  <2>1. [plan[k] EXCEPT !.upd = clk + 1] \in Roomy
    BY <2>0, LedgerUpdates, Zenon
  <2>2. TickOK' /\ PageInv'
    <3>1. CASE Return(k)
      BY <3>1, EmptyTypes, AnyTenantType DEF Return, TickOK, Calls
    <3>2. CASE ~ Return(k)
      BY <1>12, <3>2 DEF Create, Goto, TickOK, Calls
    <3> QED
      BY <3>1, <3>2
  <2>3. SagaOK'
    BY <1>12, <2>1 DEF Create, SagaOK, TickOK
  <2>4. RoomInv'
    BY <1>12, <2>1, EmptyTypes DEF Create, Goto, Return, TickOK
  <2> QED
    BY <1>12, <2>2, <2>3, <2>4 DEF Create
<1>13. ASSUME NEW k \in Ticks, Mark(k) PROVE TypeInv'
  BY <1>13, EmptyTypes, AnyTenantType DEF Mark, Return, TickOK, tick, Calls,
     TenancyOK, tenancy
<1>14. ASSUME NEW k \in Ticks, SkipExport(k) PROVE TypeInv'
  <2>1. [copy[k] EXCEPT !.phase = "exported"] \in Roomy
    BY LedgerUpdates DEF RoomInv, TickOK, Phases
  <2> QED
    BY <1>14, <2>1 DEF SkipExport, Goto, PlanPatch, TickOK, tick, Calls
<1>15. ASSUME NEW k \in Ticks, ReadPage(k) PROVE TypeInv'
  <2> DEFINE led  == copy[k]
             s    == ExportOrder[led.svc]
             page == ExportPage(at[k], s, led.cursor)
  <2>1. led \in Roomy /\ led.svc =< N /\ page \subseteq Row
    BY <1>15 DEF ReadPage, RoomInv, PageInv, TickOK, DataOK, ExportPage, RowsOf
  <2>2. PICK next \in NextCursor(s, page) :
          LET cut == next # 0 /\ IsLastAllowedPart(led.svc, led.parts)
          IN  /\ buf' = [buf EXCEPT ![k] =
                            [here |-> TRUE, rows |-> page, cut |-> cut]]
              /\ plan' = [plan EXCEPT ![k] =
                   AdvanceExport([led EXCEPT !.parts = @ + 1],
                                 IF cut THEN 0 ELSE next)]
    BY <1>15 DEF ReadPage
  <2>3. next \in Nat
    BY <2>1, <2>2, BoundAssumption DEF NextCursor
  <2> DEFINE cut == next # 0 /\ IsLastAllowedPart(led.svc, led.parts)
  <2>4. AdvanceExport([led EXCEPT !.parts = @ + 1], IF cut THEN 0 ELSE next) \in Roomy
    BY <2>1, <2>3, AdvanceExportType
  <2>5. [here |-> TRUE, rows |-> page, cut |-> cut] \in Content
    BY <2>1 DEF Content
  <2> HIDE DEF cut, page, s, led
  <2>6. TickOK'
    BY <1>15, <2>2, <2>4, <2>5 DEF ReadPage, Goto, TickOK, Calls, cut, page, s, led
  <2>7. RoomInv' /\ PageInv'
    BY <1>15, <2>2, <2>4 DEF ReadPage, Goto, TickOK, cut, page, s, led
  <2> QED
    BY <1>15, <2>6, <2>7 DEF ReadPage
<1>16. ASSUME NEW k \in Ticks, StagePart(k) PROVE TypeInv'
  BY <1>16 DEF StagePart, Goto, TickOK, tick, Calls, BucketOK, bucket
<1>17. ASSUME NEW k \in Ticks, ReadParts(k) PROVE TypeInv'
  <2>1. [copy[k] EXCEPT !.phase = "exported"] \in Roomy
    BY LedgerUpdates DEF RoomInv, Phases
  <2>2. [copy[k] EXCEPT !.svc = 1, !.cursor = 0, !.parts = 0] \in Roomy
    BY LedgerUpdates, Zenon DEF RoomInv
  <2>3. Assemble(at[k], copy[k].parts) \in Content
    <3>1. copy[k].parts \in 0..MaxParts
      BY Sizes DEF RoomInv, Roomy, Ledger
    <3>2. \A i \in 0..(copy[k].parts - 1) : staging[at[k]][i].rows \subseteq Row
      <4>1. staging[at[k]] \in [0..MaxParts -> Content]
        BY DEF BucketOK, TickOK
      <4>2. \A i \in 0..(copy[k].parts - 1) : i \in 0..MaxParts
        BY <3>1, Sizes
      <4> QED
        BY <4>1, <4>2 DEF Content
    <3> QED
      BY <3>2 DEF Assemble, Content
  <2>4. \A c \in Fits(Assemble(at[k], copy[k].parts)) : c \in Content
    BY <2>3, FitsType
  <2> QED
    BY <1>17, <2>1, <2>2, <2>4 DEF ReadParts, Goto, TickOK, tick, Calls
<1>18. ASSUME NEW k \in Ticks, PutZip(k) PROVE TypeInv'
  BY <1>18 DEF PutZip, Goto, TickOK, tick, Calls, BucketOK, bucket,
     HistoryOK, history
<1>19. ASSUME NEW k \in Ticks, HeadZip(k) PROVE TypeInv'
  BY <1>19 DEF HeadZip, Goto, TickOK, tick, Calls
<1>20. ASSUME NEW k \in Ticks, Unstage(k) PROVE TypeInv'
  BY <1>20, EmptyTypes DEF Unstage, Goto, TickOK, tick, Calls, BucketOK,
     bucket
<1>21. ASSUME NEW k \in Ticks, Mail(k) PROVE TypeInv'
  <2>1. [copy[k] EXCEPT !.mode = "no_archive"] \in Roomy
    BY LedgerUpdates DEF RoomInv, TickOK, Modes
  <2> QED
    BY <1>21, <2>1 DEF Mail, Goto, TickOK, tick, Calls
<1>22. ASSUME NEW k \in Ticks, MailZipGone(k) PROVE TypeInv'
  BY <1>22, EmptyTypes DEF MailZipGone, Goto, DropIndex, TickOK, tick, Calls,
     SagaOK, IndexedOK, indexed
<1>23. ASSUME NEW k \in Ticks, UpsertIndex(k) PROVE TypeInv'
  BY <1>23 DEF UpsertIndex, Goto, TickOK, tick, Calls, IndexedOK, indexed
<1>24. ASSUME NEW k \in Ticks, Send(k) PROVE TypeInv'
  <2>1. TickOK'
    BY <1>24 DEF Send, Goto, TickOK, Calls
  <2>2. HistoryOK'
    BY <1>24 DEF Send, HistoryOK, TickOK
  <2>3. faults' \in Nat
    BY <1>24 DEF Send
  <2> QED
    BY <1>24, <2>1, <2>2, <2>3 DEF Send, Goto, TickOK
<1>25. ASSUME NEW k \in Ticks, MailResult(k) PROVE TypeInv'
  <2>1. [plan[k] EXCEPT !.phase = "mailed"] \in Roomy /\ plan[k] \in Roomy
    BY LedgerUpdates DEF RoomInv, Phases
  <2> QED
    BY <1>25, <2>1 DEF MailResult, Goto, PlanPatch, TickOK, tick, Calls
<1>26. ASSUME NEW k \in Ticks, Purge(k) PROVE TypeInv'
  <2>1. \A done \in BOOLEAN : AdvancePurge(copy[k], done) \in Roomy
    BY AdvancePurgeType DEF RoomInv
  <2>2. PICK batch : /\ rows' = [rows EXCEPT ![at[k]] = @ \ batch]
                    /\ late' = [late EXCEPT ![at[k]] = @ \ batch]
                    /\ \E done \in BOOLEAN :
                         plan' = [plan EXCEPT ![k] = AdvancePurge(copy[k], done)]
    BY <1>26 DEF Purge, PurgeDone
  <2>3. TickOK'
    BY <1>26, <2>1, <2>2 DEF Purge, Goto, TickOK, Calls
  <2>4. DataOK'
    <3>1. tomb' = tomb /\ writes' = writes
      BY <1>26 DEF Purge
    <3>2. rows \in [Tenants -> SUBSET Row] /\ late \in [Tenants -> SUBSET Row]
      BY DEF DataOK
    <3>3. rows' \in [Tenants -> SUBSET Row]
      BY ONLY <2>2, <3>2
    <3>4. late' \in [Tenants -> SUBSET Row]
      BY ONLY <2>2, <3>2
    <3> QED
      BY <3>1, <3>3, <3>4 DEF DataOK
  <2>5. RoomInv' /\ PageInv'
    BY <1>26, <2>1, <2>2 DEF Purge, Goto, TickOK
  <2> QED
    BY <1>26, <2>3, <2>4, <2>5 DEF Purge
<1>27. ASSUME NEW k \in Ticks, WriteTombstone(k) PROVE TypeInv'
  <2>1. copy[k] \in Ledger
    BY RoomySubset DEF RoomInv
  <2>2. copy[k].psvc \in 1..N
    BY <2>1 DEF Ledger
  <2>3. PurgeOrder[copy[k].psvc] \in Services
    BY <2>2, PurgeOrderType
  <2> QED
    BY <1>27, <2>3 DEF WriteTombstone, Goto, TickOK, tick, Calls, DataOK, data
<1>28. ASSUME NEW k \in Ticks, Verify(k) PROVE TypeInv'
  <2>1. \A i \in Left(at[k]) :
          [copy[k] EXCEPT !.phase = "purging", !.psvc = i] \in Roomy
    BY LedgerUpdates DEF RoomInv, Left
  <2>2. TickOK' /\ RoomInv' /\ PageInv'
    <3>1. CASE Left(at[k]) = {}
      BY <1>28, <3>1 DEF Verify, Goto, TickOK, Calls
    <3>2. CASE Left(at[k]) # {}
      <4>1. PICK i \in Left(at[k]) :
              PlanPatch(k, [copy[k] EXCEPT !.phase = "purging", !.psvc = i])
        BY <1>28, <3>2 DEF Verify
      <4> QED
        BY <1>28, <2>1, <4>1 DEF Verify, PlanPatch, Goto, TickOK, Calls
    <3> QED
      BY <3>1, <3>2
  <2> QED
    BY <1>28, <2>2 DEF Verify
<1>29. ASSUME NEW k \in Ticks, DeleteAccount(k) PROVE TypeInv'
  BY <1>29 DEF DeleteAccount, Goto, TickOK, tick, Calls, TenancyOK, tenancy
<1>30. ASSUME NEW k \in Ticks, KeepLedger(k) PROVE TypeInv'
  <2>1. [copy[k] EXCEPT !.phase = "account_deleted"] \in Roomy
    BY LedgerUpdates DEF RoomInv, TickOK, Phases
  <2> QED
    BY <1>30, <2>1 DEF KeepLedger, Goto, PlanPatch, TickOK, tick, Calls
<1>31. ASSUME NEW k \in Ticks, DeleteLedger(k) PROVE TypeInv'
  BY <1>31, EmptyTypes, AnyTenantType DEF DeleteLedger, Return, TickOK, tick,
     Calls, SagaOK
<1>32. ASSUME NEW k \in Ticks, Patch(k) PROVE TypeInv'
  <2>0. plan[k] \in Roomy /\ clk + 1 \in Nat
    BY DEF RoomInv, TickOK, SagaOK
  <2>1. [plan[k] EXCEPT !.upd = clk + 1] \in Roomy
    BY <2>0, LedgerUpdates, Zenon
  <2>2. TickOK' /\ PageInv'
    BY <1>32, EmptyTypes, AnyTenantType DEF Patch, Return, TickOK, Calls
  <2>3. SagaOK'
    BY <1>32, <2>1 DEF Patch, SagaOK, TickOK
  <2>4. RoomInv'
    BY <1>32, <2>1, EmptyTypes DEF Patch, Return, TickOK
  <2> QED
    BY <1>32, <2>2, <2>3, <2>4 DEF Patch
<1>33. ASSUME NEW k \in Ticks, Catch(k) PROVE TypeInv'
  <2>0. ledger[at[k]] \in Roomy /\ clk + 1 \in Nat
    BY DEF RoomInv, TickOK, SagaOK
  <2>1. [ledger[at[k]] EXCEPT !.upd = clk + 1] \in Roomy
    BY <2>0, LedgerUpdates, Zenon
  <2>2. TickOK' /\ PageInv'
    BY <1>33, EmptyTypes, AnyTenantType DEF Catch, Return, TickOK, Calls
  <2>3. SagaOK'
    BY <1>33, <2>1 DEF Catch, SagaOK, TickOK
  <2>4. RoomInv'
    BY <1>33, <2>1, EmptyTypes DEF Catch, Return, TickOK
  <2> QED
    BY <1>33, <2>2, <2>3, <2>4 DEF Catch
<1>34. ASSUME NEW k \in Ticks, PurgeBudget(k) PROVE TypeInv'
  BY <1>34, EmptyTypes, AnyTenantType DEF PurgeBudget, Return, TickOK, tick,
     Calls
<1>35. ASSUME NEW k \in Ticks, Throw(k) PROVE TypeInv'
  BY <1>35 DEF Throw, Goto, TickOK, tick, Calls
<1>36. ASSUME NEW k \in Ticks, Die(k) PROVE TypeInv'
  BY <1>36, EmptyTypes, AnyTenantType DEF Die, Return, TickOK, tick, Calls
<1>37. ASSUME NEW d \in Deleters, NEW t \in Tenants, FindArchive(d, t) PROVE TypeInv'
  BY <1>37, EmptyTypes, AnyTenantType DEF FindArchive, DeletesOK, deletes,
     TickOK, tick, Calls
<1>38. ASSUME NEW d \in Deleters, DeleteZip(d) PROVE TypeInv'
  BY <1>38, EmptyTypes, AnyTenantType DEF DeleteZip, DeletesOK, deletes,
     BucketOK, bucket, TickOK, tick, Calls
<1>39. ASSUME NEW d \in Deleters, DeleteIndex(d) PROVE TypeInv'
  BY <1>39, EmptyTypes, AnyTenantType DEF DeleteIndex, DropIndex, DeletesOK,
     deletes, IndexedOK, indexed, SagaOK, TickOK, tick, Calls
<1>40. ASSUME NEW d \in Deleters, DeleteDies(d) PROVE TypeInv'
  BY <1>40, EmptyTypes, AnyTenantType DEF DeleteDies, DeletesOK, deletes,
     TickOK, tick, Calls
<1>41. ASSUME DeleteOrphans PROVE TypeInv'
  BY <1>41, EmptyTypes, AnyTenantType DEF DeleteOrphans, SagaOK,
     TickOK, tick, Calls
<1>42. ASSUME Advance PROVE TypeInv'
  <2>1. /\ age' \in [Tenants -> Nat] /\ ledAge' \in [Tenants -> Nat]
        /\ linkAge' \in [Tenants -> Nat] /\ zipAge' \in [Tenants -> Nat]
    BY <1>42, OlderType DEF Advance, TenancyOK, SagaOK, BucketOK, IndexedOK
  <2> QED
    BY <1>42, <2>1 DEF Advance, TenancyOK, SagaOK, BucketOK, IndexedOK, TickOK,
       tenancy, saga, bucket, indexed, tick
<1>43. CASE UNCHANGED vars
  BY <1>43 DEF vars, tick
<1> QED
  BY <1>1, <1>2, <1>3, <1>4, <1>5, <1>6, <1>7, <1>8, <1>9, <1>10, <1>11,
     <1>12, <1>13, <1>14, <1>15, <1>16, <1>17, <1>18, <1>19, <1>20, <1>21,
     <1>22, <1>23, <1>24, <1>25, <1>26, <1>27, <1>28, <1>29, <1>30, <1>31,
     <1>32, <1>33, <1>34, <1>35, <1>36, <1>37, <1>38, <1>39, <1>40, <1>41,
     <1>42, <1>43 DEF Next, Tick

(* Every value the saga, the trial service and their stores ever hold has  *)
(* its type: every ledger, index row, object and local variable.           *)
THEOREM TypeCorrect == Spec => []TypeOK
<1>1. TypeInv => TypeOK
  BY DEF TypeInv
<1> QED
  BY <1>1, TypeInit, TypeStep, PTL DEF Spec

(* A saga never stages more than MAX_STAGING_PARTS parts (exportStep with  *)
(* isLastAllowedPart), for any rows, page sizes, restarts and overlaps.    *)
THEOREM StagingBoundedHolds == Spec => []StagingBounded
<1>1. TypeInv => StagingBounded
  BY Sizes DEF TypeInv, RoomInv, Roomy, Ledger, StagingBounded
<1> QED
  BY <1>1, TypeInit, TypeStep, PTL DEF Spec

(* Both at once: the invariant the runs check, for every instance.         *)
THEOREM SagaWellFormedHolds == Spec => []SagaWellFormed
  BY TypeCorrect, StagingBoundedHolds, PTL DEF SagaWellFormed

-----------------------------------------------------------------------------
(* The argument for NoticeBeforePurge.                                     *)

(* The phases after the mail.                                              *)
Late == {"mailed", "purging", "purged", "account_deleted"}

TenantInv(t) ==
  /\ ledger[t].phase = "account_deleted" => ws[t] = "NONE"
  /\ ws[t] = "ARCHIVING" => Begun(t) \/ t \in Legacy
  /\ ledger[t].phase \in Late => Cleared(t)

TickInv(k) ==
  /\ copy[k].phase # "account_deleted"
  /\ copy[k].phase # "none" \/ pc[k] = "mark" => Begun(at[k])
  /\ copy[k].phase \in Late \/ plan[k].phase \in Late => Cleared(at[k])
  /\ plan[k].phase = "account_deleted" => ws[at[k]] = "NONE"
  /\ pc[k] \in {"keep", "forget"} => ws[at[k]] = "NONE"
  /\ ok[k] => at[k] \in told
  /\ pc[k] \in {"idle", "start"} =>
       copy[k].phase = "none" /\ plan[k].phase = "none" /\ ~ ok[k]
  /\ pc[k] \in {"purge", "stone", "verify", "account", "keep", "forget"} =>
       copy[k].phase \in Late
  /\ pc[k] \notin {"idle", "start", "count", "create", "mark", "catch"} =>
       copy[k].phase # "none"
  /\ pc[k] \in {"count", "create", "mark", "stage", "put", "head", "unstage",
                 "unindex", "index", "send", "mailed", "stone", "patch"} =>
       plan[k].phase # "none"

NoticeInv == (\A t \in Tenants : TenantInv(t)) /\ (\A k \in Ticks : TickInv(k))

(* What no step undoes.                                                    *)
Stable ==
  /\ \A t \in Tenants : /\ Begun(t) => Begun(t)'
                        /\ Cleared(t) => Cleared(t)'
                        /\ ws[t] = "NONE" => ws'[t] = "NONE"
  /\ told \subseteq told'

(* The local state of tick j is left alone.                                *)
SameTick(j) == /\ pc'[j] = pc[j] /\ at'[j] = at[j] /\ copy'[j] = copy[j]
               /\ plan'[j] = plan[j] /\ ok'[j] = ok[j]

(* A stable step keeps the invariant of a tick it leaves alone.            *)
LEMMA SameTickInv ==
  ASSUME TypeInv, NEW j \in Ticks, TickInv(j), Stable, SameTick(j)
  PROVE  TickInv(j)'
<1>1. at[j] \in Tenants
  BY DEF TypeInv, TypeOK, TickOK
<1>2. Cleared(at[j]) => Cleared(at[j])'
  BY <1>1 DEF Stable, SameTick, Cleared, Begun
<1>3. Begun(at[j]) => Begun(at[j])'
  BY <1>1 DEF Stable, SameTick, Begun
<1> QED
  BY <1>1, <1>2, <1>3 DEF TickInv, SameTick, Stable

(* A step that touches no workspace, ledger or mail is stable.             *)
LEMMA SameTenants ==
  ASSUME NoticeInv, UNCHANGED <<ws, ledger, ledAge, told>>
  PROVE  Stable /\ \A t \in Tenants : TenantInv(t)'
BY DEF NoticeInv, Stable, TenantInv, Begun, Cleared

(* The invariant is shown for the tick that moves; the others stay.        *)
LEMMA OneTickMoves ==
  ASSUME TypeInv, NoticeInv, Stable, \A t \in Tenants : TenantInv(t)',
         NEW k \in Ticks, TickInv(k)', \A j \in Ticks \ {k} : SameTick(j)
  PROVE  NoticeInv'
BY SameTickInv DEF NoticeInv

(* A stable step that moves no tick keeps the invariant.                   *)
LEMMA NoTickMoves ==
  ASSUME TypeInv, NoticeInv, Stable, \A t \in Tenants : TenantInv(t)',
         \A j \in Ticks : SameTick(j)
  PROVE  NoticeInv'
BY SameTickInv DEF NoticeInv

(* Only a saga past the mail is purged or verified.                        *)
LEMMA StepOfPhase ==
  ASSUME NEW led \in Ledger, led.phase \notin {"none", "account_deleted"}
  PROVE  /\ StepOf(led) \in {"skip", "page", "zip", "mail", "purge", "verify"}
         /\ StepOf(led) \in {"purge", "verify"} => led.phase \in Late
<1>1. CASE led.phase = "exporting"
  <2>1. led.svc \in Nat /\ N \in Nat
    BY Sizes DEF Ledger
  <2> QED
    BY <1>1, <2>1 DEF StepOf, Late
<1>2. CASE led.phase \in {"exported", "mailed", "purging", "purged"}
  BY <1>2 DEF StepOf, Late
<1> QED
  BY <1>1, <1>2 DEF Ledger, Phases

(* Every action keeps the invariant.                                       *)
LEMMA NoticeStep == TypeInv /\ NoticeInv /\ [Next]_vars => NoticeInv' /\ Stable
<1> SUFFICES ASSUME TypeInv, NoticeInv PROVE [Next]_vars => NoticeInv' /\ Stable
  OBVIOUS
<1>1. ASSUME NEW t \in Tenants, \E r \in Row : OwnerWrite(t, r) PROVE NoticeInv' /\ Stable
  <2>1. UNCHANGED <<ws, ledger, ledAge, told, pc, at, copy, plan, ok>>
    BY <1>1 DEF OwnerWrite, StartWrite, CommitWrite, saga, tenancy, tick, history
  <2> QED
    BY <2>1, SameTenants, NoTickMoves DEF SameTick
<1>2. ASSUME NEW t \in Tenants, SignIn(t) PROVE NoticeInv' /\ Stable
  <2>1. UNCHANGED <<ws, ledger, ledAge, told, pc, at, copy, plan, ok>>
    BY <1>2 DEF SignIn, saga, tenancy, tick, history
  <2> QED
    BY <2>1, SameTenants, NoTickMoves DEF SameTick
<1>3. ASSUME NEW t \in Tenants, \E m \in {"archive", "no_archive"} : DeleteUser(t, m) PROVE NoticeInv' /\ Stable
  <2>1. UNCHANGED <<ws, ledger, ledAge, told, pc, at, copy, plan, ok>>
    BY <1>3 DEF DeleteUser, saga, tenancy, tick, history
  <2> QED
    BY <2>1, SameTenants, NoTickMoves DEF SameTick
<1>4. ASSUME NEW t \in Tenants, DeleteUserDies(t) PROVE NoticeInv' /\ Stable
  <2>1. UNCHANGED <<ws, ledger, ledAge, told, pc, at, copy, plan, ok>>
    BY <1>4 DEF DeleteUserDies, saga, tenancy, tick, history
  <2> QED
    BY <2>1, SameTenants, NoTickMoves DEF SameTick
<1>5. ASSUME NEW t \in Tenants, BucketRule(t) PROVE NoticeInv' /\ Stable
  <2>1. UNCHANGED <<ws, ledger, ledAge, told, pc, at, copy, plan, ok>>
    BY <1>5 DEF BucketRule, saga, tenancy, tick, history
  <2> QED
    BY <2>1, SameTenants, NoTickMoves DEF SameTick
<1>6. ASSUME NEW d \in Deleters, NEW t \in Tenants, FindArchive(d, t) PROVE NoticeInv' /\ Stable
  <2>1. UNCHANGED <<ws, ledger, ledAge, told, pc, at, copy, plan, ok>>
    BY <1>6 DEF FindArchive, saga, tenancy, tick, history
  <2> QED
    BY <2>1, SameTenants, NoTickMoves DEF SameTick
<1>7. ASSUME NEW d \in Deleters, DeleteZip(d) PROVE NoticeInv' /\ Stable
  <2>1. UNCHANGED <<ws, ledger, ledAge, told, pc, at, copy, plan, ok>>
    BY <1>7 DEF DeleteZip, saga, tenancy, tick, history
  <2> QED
    BY <2>1, SameTenants, NoTickMoves DEF SameTick
<1>8. ASSUME NEW d \in Deleters, DeleteDies(d) PROVE NoticeInv' /\ Stable
  <2>1. UNCHANGED <<ws, ledger, ledAge, told, pc, at, copy, plan, ok>>
    BY <1>8 DEF DeleteDies, saga, tenancy, tick, history
  <2> QED
    BY <2>1, SameTenants, NoTickMoves DEF SameTick
<1>9. ASSUME NEW t \in Tenants, EndTrial(t) PROVE NoticeInv' /\ Stable
  <2>1. \A j \in Ticks : SameTick(j)
    BY <1>9 DEF EndTrial, tick, SameTick
  <2>2. Stable
    BY <1>9 DEF EndTrial, ToExpired, tenancy, saga, history, Stable, Begun,
       Cleared, NoticeInv, TenantInv, TypeInv, TypeOK, TenancyOK, SagaOK
  <2>3. \A u \in Tenants : TenantInv(u)'
    BY <1>9 DEF EndTrial, ToExpired, tenancy, saga, history, Begun, Cleared,
       NoticeInv, TenantInv, TypeInv, TypeOK, TenancyOK, SagaOK, Late
  <2> QED
    BY <2>1, <2>2, <2>3, NoTickMoves
<1>10. ASSUME NEW t \in Tenants, SetTrialExpiry(t) PROVE NoticeInv' /\ Stable
  <2>1. \A j \in Ticks : SameTick(j)
    BY <1>10 DEF SetTrialExpiry, tick, SameTick
  <2>2. Stable
    BY <1>10 DEF SetTrialExpiry, tenancy, saga, history, Stable, Begun,
       Cleared, NoticeInv, TenantInv, TypeInv, TypeOK, TenancyOK, SagaOK
  <2>3. \A u \in Tenants : TenantInv(u)'
    BY <1>10 DEF SetTrialExpiry, tenancy, saga, history, Begun, Cleared,
       NoticeInv, TenantInv, TypeInv, TypeOK, TenancyOK, SagaOK, Late
  <2> QED
    BY <2>1, <2>2, <2>3, NoTickMoves
<1>11. ASSUME NEW t \in Tenants, DeleteUserEnd(t) PROVE NoticeInv' /\ Stable
  <2>1. \A j \in Ticks : SameTick(j)
    BY <1>11 DEF DeleteUserEnd, tick, SameTick
  <2>2. Stable
    BY <1>11 DEF DeleteUserEnd, ToExpired, tenancy, saga, history, Stable,
       Begun, Cleared, NoticeInv, TenantInv, TypeInv, TypeOK, TenancyOK,
       SagaOK
  <2>3. \A u \in Tenants : TenantInv(u)'
    BY <1>11 DEF DeleteUserEnd, ToExpired, tenancy, saga, history, Begun,
       Cleared, NoticeInv, TenantInv, TypeInv, TypeOK, TenancyOK, SagaOK,
       Late
  <2> QED
    BY <2>1, <2>2, <2>3, NoTickMoves
<1>12. ASSUME NEW d \in Deleters, DeleteIndex(d) PROVE NoticeInv' /\ Stable
  <2>1. \A j \in Ticks : SameTick(j)
    BY <1>12 DEF DeleteIndex, tick, SameTick
  <2>2. Stable
    BY <1>12 DEF DeleteIndex, DropIndex, DeletesOK, tenancy, saga, history,
       Stable, Begun, Cleared, NoticeInv, TenantInv, TypeInv, TypeOK,
       TenancyOK, SagaOK
  <2>3. \A t \in Tenants : TenantInv(t)'
    BY <1>12 DEF DeleteIndex, DropIndex, DeletesOK, tenancy, saga, history,
       Begun, Cleared, NoticeInv, TenantInv, TypeInv, TypeOK, TenancyOK,
       SagaOK, Late
  <2> QED
    BY <2>1, <2>2, <2>3, NoTickMoves
<1>13. ASSUME DeleteOrphans PROVE NoticeInv' /\ Stable
  <2>1. \A j \in Ticks : SameTick(j)
    BY <1>13 DEF DeleteOrphans, tick, SameTick
  <2>2. Stable
    BY <1>13 DEF DeleteOrphans, tenancy, saga, history, Stable, Begun,
       Cleared, NoticeInv, TenantInv, TypeInv, TypeOK, TenancyOK, SagaOK
  <2>3. \A t \in Tenants : TenantInv(t)'
    BY <1>13 DEF DeleteOrphans, tenancy, saga, history, Begun, Cleared,
       NoticeInv, TenantInv, TypeInv, TypeOK, TenancyOK, SagaOK, Late
  <2> QED
    BY <2>1, <2>2, <2>3, NoTickMoves
<1>14. ASSUME Advance PROVE NoticeInv' /\ Stable
  <2>1. \A j \in Ticks : SameTick(j)
    BY <1>14 DEF Advance, tick, SameTick
  <2>2. /\ ws' = ws /\ ledger' = ledger /\ told' = told
        /\ \A t \in Tenants : ledAge[t] > ArchiveDays => ledAge'[t] > ArchiveDays
    <3>1. ArchiveDays \in Nat
      BY BoundAssumption
    <3> QED
      BY <1>14, <3>1 DEF Advance, Older, history, TypeInv, TypeOK, SagaOK
  <2>3. Stable
    BY <2>2 DEF Stable, Begun, Cleared
  <2>4. \A t \in Tenants : TenantInv(t)'
    BY <2>2, <2>3 DEF NoticeInv, TenantInv, Stable, Begun
  <2> QED
    BY <2>1, <2>3, <2>4, NoTickMoves
<1>15. ASSUME NEW k \in Ticks, ReadLedger(k) PROVE NoticeInv' /\ Stable
  <2>1. \A j \in Ticks \ {k} : SameTick(j)
    BY <1>15 DEF ReadLedger, Goto, tick, SameTick, TypeInv, TypeOK, TickOK
  <2>2. Stable /\ \A t \in Tenants : TenantInv(t)'
    BY <1>15, SameTenants DEF ReadLedger, Goto, saga, tenancy, tick, history
  <2>3. CASE Unfinished = {}
    <3>1. TickInv(k)'
      BY <1>15, <2>2, <2>3 DEF ReadLedger, Goto, TypeInv, TypeOK, TickOK, NoticeInv,
         TickInv, Late
    <3> QED
      BY <2>1, <2>2, <3>1, OneTickMoves
  <2>4. CASE Unfinished # {}
    <3>1. PICK t \in Unfinished :
            /\ at' = [at EXCEPT ![k] = t]
            /\ copy' = [copy EXCEPT ![k] = ledger[t]]
            /\ Goto(k, StepOf(ledger[t]))
      BY <1>15, <2>4 DEF ReadLedger
    <3>2. /\ at'[k] = t /\ copy'[k] = ledger[t] /\ pc'[k] = StepOf(ledger[t])
          /\ t \in Tenants /\ ledger[t].phase \notin {"none", "account_deleted"}
      BY <3>1 DEF Goto, Unfinished, TypeInv, TypeOK, TickOK
    <3>3. plan'[k].phase = "none" /\ ok'[k] = FALSE
      BY <1>15 DEF ReadLedger, NoticeInv, TickInv, TypeInv, TypeOK, TickOK
    <3>4. /\ Begun(t)' /\ (ledger[t].phase \in Late => Cleared(t)')
      BY <2>2, <3>2 DEF Stable, NoticeInv, TenantInv, Begun
    <3>5. ledger[t] \in Ledger
      BY <3>2 DEF TypeInv, TypeOK, SagaOK
    <3>6. /\ pc'[k] \in {"skip", "page", "zip", "mail", "purge", "verify"}
          /\ pc'[k] \in {"purge", "verify"} => ledger[t].phase \in Late
      BY <3>2, <3>5, StepOfPhase
    <3>7. Begun(at[k])' /\ (ledger[t].phase \in Late => Cleared(at[k])')
      BY <3>2, <3>4 DEF Begun, Cleared
    <3>8. TickInv(k)'
      BY <3>2, <3>3, <3>6, <3>7 DEF TickInv, Late
    <3> QED
      BY <2>1, <2>2, <3>8, OneTickMoves
  <2> QED
    BY <2>3, <2>4
<1>16. ASSUME NEW k \in Ticks, Start(k) PROVE NoticeInv' /\ Stable
  <2>1. \A j \in Ticks \ {k} : SameTick(j)
    BY <1>16 DEF Start, Goto, Return, tick, SameTick, TypeInv, TypeOK, TickOK
  <2>2. Stable /\ \A t \in Tenants : TenantInv(t)'
    <3>1. ws' = ws /\ ledger' = ledger /\ told' = told
      BY <1>16 DEF Start, tenancy, history
    <3>2. \A t \in Tenants : Begun(t) => ledAge'[t] = ledAge[t]
      BY <1>16 DEF Start, Begun, Candidates, Ended, TypeInv, TypeOK, SagaOK
    <3>3. Stable
      BY <3>1, <3>2 DEF Stable, Begun, Cleared
    <3> QED
      BY <3>1, <3>3 DEF Stable, NoticeInv, TenantInv, Begun
  <2>3. CASE Return(k)
    <3>1. TickInv(k)'
      BY <1>16, <2>2, <2>3 DEF Return, TickInv, Late, Absent, NewLedger, TypeInv, TypeOK,
         TickOK
    <3> QED
      BY <2>1, <2>2, <3>1, OneTickMoves
  <2>4. CASE ~ Return(k)
    <3>1. PICK t \in Candidates :
            /\ at' = [at EXCEPT ![k] = t]
            /\ IF ws[t] = "ARCHIVING"
               THEN /\ plan' = [plan EXCEPT ![k] = NewLedger("mailed", "no_archive")]
                    /\ Goto(k, "create")
               ELSE /\ plan' = [plan EXCEPT ![k] =
                         NewLedger("exporting", ChooseMode(delMode[t], 1))]
                    /\ Goto(k, "count")
      BY <1>16, <2>4 DEF Start
    <3>2. at'[k] = t /\ t \in Tenants /\ ~ Begun(t)
      BY <3>1 DEF Candidates, Ended, Begun, TypeInv, TypeOK, TickOK
    <3>3. copy'[k].phase = "none" /\ ok'[k] = FALSE
      BY <1>16, <2>4 DEF Start, NoticeInv, TickInv, TypeInv, TypeOK, TickOK
    <3>4. /\ plan'[k].phase \in {"mailed", "exporting"}
          /\ plan'[k].phase = "mailed" => ws[t] = "ARCHIVING"
          /\ pc'[k] \in {"create", "count"}
      BY <3>1 DEF NewLedger, Goto, TypeInv, TypeOK, TickOK
    <3>5. plan'[k].phase = "mailed" => Cleared(at[k])'
      BY <3>2, <3>4 DEF NoticeInv, TenantInv, Cleared
    <3>6. TickInv(k)'
      BY <3>3, <3>4, <3>5 DEF TickInv, Late
    <3> QED
      BY <2>1, <2>2, <3>6, OneTickMoves
  <2> QED
    BY <2>3, <2>4
<1>17. ASSUME NEW k \in Ticks, Count(k) PROVE NoticeInv' /\ Stable
  <2>1. \A j \in Ticks \ {k} : SameTick(j)
    BY <1>17 DEF Count, Goto, tick, SameTick, TypeInv, TypeOK, TickOK
  <2>2. Stable /\ \A t \in Tenants : TenantInv(t)'
    BY <1>17, SameTenants DEF Count, Goto, saga, tenancy, tick, history
  <2>3. TickInv(k)'
    BY <1>17, <2>2 DEF Count, Goto, NewLedger, ChooseMode, NoticeInv,
       TickInv, Stable, Begun, Cleared, Late, TypeInv, TypeOK, TickOK, SagaOK
  <2> QED
    BY <2>1, <2>2, <2>3, OneTickMoves
<1>18. ASSUME NEW k \in Ticks, Create(k) PROVE NoticeInv' /\ Stable
  <2>1. \A j \in Ticks \ {k} : SameTick(j)
    BY <1>18 DEF Create, Goto, Return, tick, SameTick, TypeInv, TypeOK,
       TickOK
  <2>2. Stable /\ \A t \in Tenants : TenantInv(t)'
    <3>1. CASE ledger' = ledger
      BY <1>18, <3>1, SameTenants DEF Create, tenancy, history
    <3>2. CASE ledger' # ledger
      <4> DEFINE t == at[k]
                 new == [plan[k] EXCEPT !.upd = clk + 1]
      <4>1. ledger[t].phase = "none" /\ ledger' = [ledger EXCEPT ![t] = new]
        BY <1>18, <3>2 DEF Create
      <4>2. t \in Tenants /\ new.phase = plan[k].phase /\ plan[k].phase # "none"
        BY <1>18 DEF Create, NoticeInv, TickInv, TypeInv, TypeOK, TickOK, Ledger
      <4>3. ws' = ws /\ ledAge' = ledAge /\ told' = told
        BY <1>18 DEF Create, tenancy, history
      <4>4. /\ ledger'[t].phase = plan[k].phase
            /\ \A u \in Tenants \ {t} : ledger'[u] = ledger[u]
        BY <4>1, <4>2 DEF TypeInv, TypeOK, SagaOK
      <4> HIDE DEF new, t
      <4>5. Stable
        BY <4>1, <4>2, <4>3, <4>4 DEF Stable, Begun, Cleared
      <4>6. /\ plan[k].phase \in Late => Cleared(t)
            /\ plan[k].phase = "account_deleted" => ws[t] = "NONE"
        BY DEF NoticeInv, TickInv, t
      <4>7. \A u \in Tenants : TenantInv(u)'
        BY <4>2, <4>3, <4>4, <4>5, <4>6 DEF NoticeInv, TenantInv, Stable, Begun
      <4> QED
        BY <4>5, <4>7
    <3> QED
      BY <3>1, <3>2
  <2>3. CASE Return(k)
    <3>1. TickInv(k)'
      BY <1>18, <2>2, <2>3 DEF Return, TickInv, Late, Absent, NewLedger, TypeInv, TypeOK,
         TickOK
    <3> QED
      BY <2>1, <2>2, <3>1, OneTickMoves
  <2>4. CASE ~ Return(k)
    <3>1. /\ pc'[k] = "mark" /\ at' = at /\ copy' = copy /\ plan' = plan /\ ok' = ok
          /\ ledger' = [ledger EXCEPT ![at[k]] = [plan[k] EXCEPT !.upd = clk + 1]]
      BY <1>18, <2>4 DEF Create, Goto, TypeInv, TypeOK, TickOK
    <3>2. plan[k].phase # "none" /\ at[k] \in Tenants
      BY <1>18 DEF Create, NoticeInv, TickInv, TypeInv, TypeOK, TickOK
    <3>3. ledger'[at[k]].phase = plan[k].phase
      BY <3>1, <3>2 DEF TypeInv, TypeOK, TickOK, SagaOK, Ledger
    <3>4. Begun(at[k])'
      BY <3>1, <3>2, <3>3 DEF Begun
    <3>5. /\ Cleared(at[k]) => Cleared(at[k])'
          /\ ws[at[k]] = "NONE" => ws'[at'[k]] = "NONE"
          /\ at[k] \in told => at'[k] \in told'
      BY <2>2, <3>1, <3>2 DEF Stable, Cleared, Begun
    <3>6. TickInv(k)'
      BY <1>18, <3>1, <3>2, <3>4, <3>5 DEF Create, NoticeInv, TickInv
    <3> QED
      BY <2>1, <2>2, <3>6, OneTickMoves
  <2> QED
    BY <2>3, <2>4
<1>19. ASSUME NEW k \in Ticks, Mark(k) PROVE NoticeInv' /\ Stable
  <2>1. \A j \in Ticks \ {k} : SameTick(j)
    BY <1>19 DEF Mark, Return, tick, SameTick, TypeInv, TypeOK, TickOK
  <2>2. Stable /\ \A t \in Tenants : TenantInv(t)'
    BY <1>19 DEF Mark, Return, tenancy, saga, history, Stable, Begun,
       Cleared, NoticeInv, TenantInv, TickInv, TypeInv, TypeOK, TenancyOK,
       SagaOK, TickOK, Late
  <2>3. TickInv(k)'
    BY <1>19, <2>2 DEF Mark, Return, NoticeInv, TickInv, Stable, Begun,
       Cleared, Late, TypeInv, TypeOK, TickOK, SagaOK, Absent, NewLedger
  <2> QED
    BY <2>1, <2>2, <2>3, OneTickMoves
<1>20. ASSUME NEW k \in Ticks, SkipExport(k) PROVE NoticeInv' /\ Stable
  <2>1. \A j \in Ticks \ {k} : SameTick(j)
    BY <1>20 DEF SkipExport, Goto, PlanPatch, tick, SameTick, TypeInv,
       TypeOK, TickOK
  <2>2. Stable /\ \A t \in Tenants : TenantInv(t)'
    BY <1>20, SameTenants DEF SkipExport, Goto, PlanPatch, saga, tenancy,
       tick, history
  <2>3. TickInv(k)'
    BY <1>20, <2>2 DEF SkipExport, Goto, PlanPatch, NoticeInv, TickInv,
       Stable, Begun, Cleared, Late, TypeInv, TypeOK, TickOK, SagaOK
  <2> QED
    BY <2>1, <2>2, <2>3, OneTickMoves
<1>21. ASSUME NEW k \in Ticks, ReadPage(k) PROVE NoticeInv' /\ Stable
  <2>1. \A j \in Ticks \ {k} : SameTick(j)
    BY <1>21 DEF ReadPage, Goto, tick, SameTick, TypeInv, TypeOK, TickOK
  <2>2. Stable /\ \A t \in Tenants : TenantInv(t)'
    BY <1>21, SameTenants DEF ReadPage, Goto, saga, tenancy, tick, history
  <2>3. TickInv(k)'
    BY <1>21, <2>2 DEF ReadPage, Goto, AdvanceExport, NoticeInv, TickInv,
       Stable, Begun, Cleared, Late, TypeInv, TypeOK, TickOK, SagaOK
  <2> QED
    BY <2>1, <2>2, <2>3, OneTickMoves
<1>22. ASSUME NEW k \in Ticks, StagePart(k) PROVE NoticeInv' /\ Stable
  <2>1. \A j \in Ticks \ {k} : SameTick(j)
    BY <1>22 DEF StagePart, Goto, tick, SameTick, TypeInv, TypeOK, TickOK
  <2>2. Stable /\ \A t \in Tenants : TenantInv(t)'
    BY <1>22, SameTenants DEF StagePart, Goto, saga, tenancy, tick, history
  <2>3. TickInv(k)'
    BY <1>22, <2>2 DEF StagePart, Goto, NoticeInv, TickInv, Stable, Begun,
       Cleared, Late, TypeInv, TypeOK, TickOK, SagaOK
  <2> QED
    BY <2>1, <2>2, <2>3, OneTickMoves
<1>23. ASSUME NEW k \in Ticks, ReadParts(k) PROVE NoticeInv' /\ Stable
  <2>1. \A j \in Ticks \ {k} : SameTick(j)
    BY <1>23 DEF ReadParts, Goto, tick, SameTick, TypeInv, TypeOK, TickOK
  <2>2. Stable /\ \A t \in Tenants : TenantInv(t)'
    BY <1>23, SameTenants DEF ReadParts, Goto, saga, tenancy, tick, history
  <2>3. TickInv(k)'
    <3>1. /\ Cleared(at[k]) => Cleared(at[k])'
          /\ Begun(at[k]) => Begun(at[k])'
          /\ at' = at /\ copy' = copy /\ ok' = ok /\ ws' = ws /\ told' = told
      BY <1>23, <2>2 DEF ReadParts, tenancy, history, Stable, TypeInv, TypeOK, TickOK, Cleared,
         Begun
    <3>2. plan'[k].phase \in {copy[k].phase, "exported"} /\ pc'[k] \in {"put", "unstage"}
      <4>1. /\ [copy[k] EXCEPT !.phase = "exported"].phase = "exported"
            /\ [copy[k] EXCEPT !.svc = 1, !.cursor = 0, !.parts = 0].phase
                = copy[k].phase
        BY DEF TypeInv, TypeOK, TickOK, Ledger
      <4> QED
        BY <1>23, <4>1 DEF ReadParts, Goto, TypeInv, TypeOK, TickOK
    <3> QED
      BY <1>23, <3>1, <3>2 DEF ReadParts, NoticeInv, TickInv, Late
  <2> QED
    BY <2>1, <2>2, <2>3, OneTickMoves
<1>24. ASSUME NEW k \in Ticks, PutZip(k) PROVE NoticeInv' /\ Stable
  <2>1. \A j \in Ticks \ {k} : SameTick(j)
    BY <1>24 DEF PutZip, Goto, tick, SameTick, TypeInv, TypeOK, TickOK
  <2>2. Stable /\ \A t \in Tenants : TenantInv(t)'
    BY <1>24, SameTenants DEF PutZip, Goto, saga, tenancy, tick, history
  <2>3. TickInv(k)'
    BY <1>24, <2>2 DEF PutZip, Goto, NoticeInv, TickInv, Stable, Begun,
       Cleared, Late, TypeInv, TypeOK, TickOK, SagaOK
  <2> QED
    BY <2>1, <2>2, <2>3, OneTickMoves
<1>25. ASSUME NEW k \in Ticks, HeadZip(k) PROVE NoticeInv' /\ Stable
  <2>1. \A j \in Ticks \ {k} : SameTick(j)
    BY <1>25 DEF HeadZip, Goto, tick, SameTick, TypeInv, TypeOK, TickOK
  <2>2. Stable /\ \A t \in Tenants : TenantInv(t)'
    BY <1>25, SameTenants DEF HeadZip, Goto, saga, tenancy, tick, history
  <2>3. TickInv(k)'
    BY <1>25, <2>2 DEF HeadZip, Goto, NoticeInv, TickInv, Stable, Begun,
       Cleared, Late, TypeInv, TypeOK, TickOK, SagaOK
  <2> QED
    BY <2>1, <2>2, <2>3, OneTickMoves
<1>26. ASSUME NEW k \in Ticks, Unstage(k) PROVE NoticeInv' /\ Stable
  <2>1. \A j \in Ticks \ {k} : SameTick(j)
    BY <1>26 DEF Unstage, Goto, tick, SameTick, TypeInv, TypeOK, TickOK
  <2>2. Stable /\ \A t \in Tenants : TenantInv(t)'
    BY <1>26, SameTenants DEF Unstage, Goto, saga, tenancy, tick, history
  <2>3. TickInv(k)'
    BY <1>26, <2>2 DEF Unstage, Goto, NoticeInv, TickInv, Stable, Begun,
       Cleared, Late, TypeInv, TypeOK, TickOK, SagaOK
  <2> QED
    BY <2>1, <2>2, <2>3, OneTickMoves
<1>27. ASSUME NEW k \in Ticks, Mail(k) PROVE NoticeInv' /\ Stable
  <2>1. \A j \in Ticks \ {k} : SameTick(j)
    BY <1>27 DEF Mail, Goto, tick, SameTick, TypeInv, TypeOK, TickOK
  <2>2. Stable /\ \A t \in Tenants : TenantInv(t)'
    BY <1>27, SameTenants DEF Mail, Goto, saga, tenancy, tick, history
  <2>3. TickInv(k)'
    <3>1. /\ Cleared(at[k]) => Cleared(at[k])'
          /\ Begun(at[k]) => Begun(at[k])'
          /\ at' = at /\ copy' = copy /\ ok' = ok /\ ws' = ws /\ told' = told
      BY <1>27, <2>2 DEF Mail, tenancy, history, Stable, TypeInv, TypeOK, TickOK, Cleared,
         Begun
    <3>2. plan'[k].phase = copy[k].phase /\ pc'[k] \in {"unindex", "index", "send"}
      BY <1>27 DEF Mail, Goto, TypeInv, TypeOK, TickOK, Ledger
    <3> QED
      BY <1>27, <3>1, <3>2 DEF Mail, NoticeInv, TickInv, Late
  <2> QED
    BY <2>1, <2>2, <2>3, OneTickMoves
<1>28. ASSUME NEW k \in Ticks, MailZipGone(k) PROVE NoticeInv' /\ Stable
  <2>1. \A j \in Ticks \ {k} : SameTick(j)
    BY <1>28 DEF MailZipGone, Goto, tick, SameTick, TypeInv, TypeOK, TickOK
  <2>2. Stable /\ \A t \in Tenants : TenantInv(t)'
    BY <1>28 DEF MailZipGone, Goto, DropIndex, tenancy, saga, history,
       Stable, Begun, Cleared, NoticeInv, TenantInv, TickInv, TypeInv,
       TypeOK, TenancyOK, SagaOK, TickOK, Late
  <2>3. TickInv(k)'
    BY <1>28, <2>2 DEF MailZipGone, Goto, DropIndex, NoticeInv, TickInv,
       Stable, Begun, Cleared, Late, TypeInv, TypeOK, TickOK, SagaOK
  <2> QED
    BY <2>1, <2>2, <2>3, OneTickMoves
<1>29. ASSUME NEW k \in Ticks, UpsertIndex(k) PROVE NoticeInv' /\ Stable
  <2>1. \A j \in Ticks \ {k} : SameTick(j)
    BY <1>29 DEF UpsertIndex, Goto, tick, SameTick, TypeInv, TypeOK, TickOK
  <2>2. Stable /\ \A t \in Tenants : TenantInv(t)'
    BY <1>29, SameTenants DEF UpsertIndex, Goto, saga, tenancy, tick, history
  <2>3. TickInv(k)'
    BY <1>29, <2>2 DEF UpsertIndex, Goto, NoticeInv, TickInv, Stable, Begun,
       Cleared, Late, TypeInv, TypeOK, TickOK, SagaOK
  <2> QED
    BY <2>1, <2>2, <2>3, OneTickMoves
<1>30. ASSUME NEW k \in Ticks, Send(k) PROVE NoticeInv' /\ Stable
  <2>1. \A j \in Ticks \ {k} : SameTick(j)
    BY <1>30 DEF Send, Goto, tick, SameTick, TypeInv, TypeOK, TickOK
  <2>2. Stable /\ \A t \in Tenants : TenantInv(t)'
    BY <1>30 DEF Send, Goto, tenancy, saga, history, Stable, Begun, Cleared,
       NoticeInv, TenantInv, TickInv, TypeInv, TypeOK, TenancyOK, SagaOK,
       TickOK, Late
  <2>3. TickInv(k)'
    BY <1>30, <2>2 DEF Send, Goto, NoticeInv, TickInv, Stable, Begun,
       Cleared, Late, TypeInv, TypeOK, TickOK, SagaOK
  <2> QED
    BY <2>1, <2>2, <2>3, OneTickMoves
<1>31. ASSUME NEW k \in Ticks, MailResult(k) PROVE NoticeInv' /\ Stable
  <2>1. \A j \in Ticks \ {k} : SameTick(j)
    BY <1>31 DEF MailResult, Goto, PlanPatch, tick, SameTick, TypeInv,
       TypeOK, TickOK
  <2>2. Stable /\ \A t \in Tenants : TenantInv(t)'
    BY <1>31, SameTenants DEF MailResult, Goto, PlanPatch, saga, tenancy,
       tick, history
  <2>3. TickInv(k)'
    BY <1>31, <2>2 DEF MailResult, Goto, PlanPatch, NoticeInv, TickInv,
       Stable, Begun, Cleared, Late, TypeInv, TypeOK, TickOK, SagaOK
  <2> QED
    BY <2>1, <2>2, <2>3, OneTickMoves
<1>32. ASSUME NEW k \in Ticks, Purge(k) PROVE NoticeInv' /\ Stable
  <2>1. \A j \in Ticks \ {k} : SameTick(j)
    BY <1>32 DEF Purge, Goto, tick, SameTick, TypeInv, TypeOK, TickOK
  <2>2. Stable /\ \A t \in Tenants : TenantInv(t)'
    BY <1>32, SameTenants DEF Purge, Goto, saga, tenancy, tick, history
  <2>3. TickInv(k)'
    BY <1>32, <2>2 DEF Purge, Goto, AdvancePurge, NoticeInv, TickInv, Stable,
       Begun, Cleared, Late, TypeInv, TypeOK, TickOK, SagaOK
  <2> QED
    BY <2>1, <2>2, <2>3, OneTickMoves
<1>33. ASSUME NEW k \in Ticks, WriteTombstone(k) PROVE NoticeInv' /\ Stable
  <2>1. \A j \in Ticks \ {k} : SameTick(j)
    BY <1>33 DEF WriteTombstone, Goto, tick, SameTick, TypeInv, TypeOK,
       TickOK
  <2>2. Stable /\ \A t \in Tenants : TenantInv(t)'
    BY <1>33, SameTenants DEF WriteTombstone, Goto, saga, tenancy, tick,
       history
  <2>3. TickInv(k)'
    BY <1>33, <2>2 DEF WriteTombstone, Goto, NoticeInv, TickInv, Stable,
       Begun, Cleared, Late, TypeInv, TypeOK, TickOK, SagaOK
  <2> QED
    BY <2>1, <2>2, <2>3, OneTickMoves
<1>34. ASSUME NEW k \in Ticks, Verify(k) PROVE NoticeInv' /\ Stable
  <2>1. \A j \in Ticks \ {k} : SameTick(j)
    BY <1>34 DEF Verify, Goto, PlanPatch, tick, SameTick, TypeInv, TypeOK,
       TickOK
  <2>2. Stable /\ \A t \in Tenants : TenantInv(t)'
    BY <1>34, SameTenants DEF Verify, Goto, PlanPatch, saga, tenancy, tick,
       history
  <2>3. TickInv(k)'
    <3>1. /\ Cleared(at[k]) => Cleared(at[k])'
          /\ Begun(at[k]) => Begun(at[k])'
          /\ at' = at /\ copy' = copy /\ ok' = ok /\ ws' = ws /\ told' = told
      BY <1>34, <2>2 DEF Verify, tenancy, history, Stable, TypeInv, TypeOK, TickOK, Cleared,
         Begun
    <3>2. plan'[k].phase \in {plan[k].phase, "purging"}
      <4>1. CASE Left(at[k]) = {}
        BY <1>34, <4>1 DEF Verify
      <4>2. CASE Left(at[k]) # {}
        <5>1. PICK i \in Left(at[k]) :
                PlanPatch(k, [copy[k] EXCEPT !.phase = "purging", !.psvc = i])
          BY <1>34, <4>2 DEF Verify
        <5>2. [copy[k] EXCEPT !.phase = "purging", !.psvc = i].phase = "purging"
          BY DEF TypeInv, TypeOK, TickOK, Ledger
        <5> QED
          BY <5>1, <5>2 DEF PlanPatch, TypeInv, TypeOK, TickOK
      <4> QED
        BY <4>1, <4>2
    <3>3. /\ pc'[k] \in {"patch", "account"}
          /\ pc'[k] = "patch" => plan'[k].phase = "purging"
      <4>1. CASE Left(at[k]) = {}
        BY <1>34, <4>1 DEF Verify, Goto, TypeInv, TypeOK, TickOK
      <4>2. CASE Left(at[k]) # {}
        <5>1. PICK i \in Left(at[k]) :
                PlanPatch(k, [copy[k] EXCEPT !.phase = "purging", !.psvc = i])
          BY <1>34, <4>2 DEF Verify
        <5>2. [copy[k] EXCEPT !.phase = "purging", !.psvc = i].phase = "purging"
          BY DEF TypeInv, TypeOK, TickOK, Ledger
        <5> QED
          BY <5>1, <5>2 DEF PlanPatch, Goto, TypeInv, TypeOK, TickOK
      <4> QED
        BY <4>1, <4>2
    <3> QED
      BY <1>34, <3>1, <3>2, <3>3 DEF Verify, NoticeInv, TickInv, Late
  <2> QED
    BY <2>1, <2>2, <2>3, OneTickMoves
<1>35. ASSUME NEW k \in Ticks, DeleteAccount(k) PROVE NoticeInv' /\ Stable
  <2>1. \A j \in Ticks \ {k} : SameTick(j)
    BY <1>35 DEF DeleteAccount, Goto, tick, SameTick, TypeInv, TypeOK, TickOK
  <2>2. Stable /\ \A t \in Tenants : TenantInv(t)'
    BY <1>35 DEF DeleteAccount, Goto, tenancy, saga, history, Stable, Begun,
       Cleared, NoticeInv, TenantInv, TickInv, TypeInv, TypeOK, TenancyOK,
       SagaOK, TickOK, Late
  <2>3. TickInv(k)'
    <3>1. /\ Cleared(at[k]) => Cleared(at[k])'
          /\ Begun(at[k]) => Begun(at[k])'
          /\ at' = at /\ copy' = copy /\ ok' = ok /\ plan' = plan /\ told' = told
      BY <1>35, <2>2 DEF DeleteAccount, history, Stable, TypeInv, TypeOK, TickOK,
         Cleared, Begun
    <3>2. pc'[k] = "keep" /\ ws'[at[k]] = "NONE"
      BY <1>35 DEF DeleteAccount, Goto, TypeInv, TypeOK, TickOK, TenancyOK
    <3> QED
      BY <1>35, <3>1, <3>2 DEF DeleteAccount, NoticeInv, TickInv, Late
  <2> QED
    BY <2>1, <2>2, <2>3, OneTickMoves
<1>36. ASSUME NEW k \in Ticks, KeepLedger(k) PROVE NoticeInv' /\ Stable
  <2>1. \A j \in Ticks \ {k} : SameTick(j)
    BY <1>36 DEF KeepLedger, Goto, PlanPatch, tick, SameTick, TypeInv,
       TypeOK, TickOK
  <2>2. Stable /\ \A t \in Tenants : TenantInv(t)'
    BY <1>36, SameTenants DEF KeepLedger, Goto, PlanPatch, saga, tenancy,
       tick, history
  <2>3. TickInv(k)'
    <3>1. /\ Cleared(at[k]) => Cleared(at[k])'
          /\ Begun(at[k]) => Begun(at[k])'
          /\ at' = at /\ copy' = copy /\ ok' = ok /\ ws' = ws /\ told' = told
      BY <1>36, <2>2 DEF KeepLedger, tenancy, history, Stable, TypeInv, TypeOK, TickOK, Cleared,
         Begun
    <3>2. \/ pc'[k] = "patch" /\ plan'[k].phase = "account_deleted"
          \/ pc'[k] = "forget" /\ plan' = plan
      BY <1>36 DEF KeepLedger, PlanPatch, Goto, TypeInv, TypeOK, TickOK, Ledger
    <3> QED
      BY <1>36, <3>1, <3>2 DEF KeepLedger, NoticeInv, TickInv, Late
  <2> QED
    BY <2>1, <2>2, <2>3, OneTickMoves
<1>37. ASSUME NEW k \in Ticks, DeleteLedger(k) PROVE NoticeInv' /\ Stable
  <2>1. \A j \in Ticks \ {k} : SameTick(j)
    BY <1>37 DEF DeleteLedger, Return, tick, SameTick, TypeInv, TypeOK,
       TickOK
  <2>2. Stable /\ \A t \in Tenants : TenantInv(t)'
    BY <1>37 DEF DeleteLedger, Return, tenancy, saga, history, Stable, Begun,
       Cleared, NoticeInv, TenantInv, TickInv, TypeInv, TypeOK, TenancyOK,
       SagaOK, TickOK, Late
  <2>3. TickInv(k)'
    BY <1>37, <2>2 DEF DeleteLedger, Return, NoticeInv, TickInv, Stable,
       Begun, Cleared, Late, TypeInv, TypeOK, TickOK, SagaOK, Absent,
       NewLedger
  <2> QED
    BY <2>1, <2>2, <2>3, OneTickMoves
<1>38. ASSUME NEW k \in Ticks, Patch(k) PROVE NoticeInv' /\ Stable
  <2>1. \A j \in Ticks \ {k} : SameTick(j)
    BY <1>38 DEF Patch, Return, tick, SameTick, TypeInv, TypeOK, TickOK
  <2>2. Stable /\ \A t \in Tenants : TenantInv(t)'
    <3>1. CASE ledger' = ledger
      BY <1>38, <3>1, SameTenants DEF Patch, tenancy, history
    <3>2. CASE ledger' # ledger
      <4> DEFINE t == at[k]
                 new == [plan[k] EXCEPT !.upd = clk + 1]
      <4>1. ledger[t].phase # "none" /\ ledger' = [ledger EXCEPT ![t] = new]
        BY <1>38, <3>2 DEF Patch
      <4>2. t \in Tenants /\ new.phase = plan[k].phase /\ plan[k].phase # "none"
        BY <1>38 DEF Patch, NoticeInv, TickInv, TypeInv, TypeOK, TickOK, Ledger
      <4>3. ws' = ws /\ ledAge' = ledAge /\ told' = told
        BY <1>38 DEF Patch, tenancy, history
      <4>4. /\ ledger'[t].phase = plan[k].phase
            /\ \A u \in Tenants \ {t} : ledger'[u] = ledger[u]
        BY <4>1, <4>2 DEF TypeInv, TypeOK, SagaOK
      <4> HIDE DEF new, t
      <4>5. Stable
        BY <4>1, <4>2, <4>3, <4>4 DEF Stable, Begun, Cleared
      <4>6. /\ plan[k].phase \in Late => Cleared(t)
            /\ plan[k].phase = "account_deleted" => ws[t] = "NONE"
        BY DEF NoticeInv, TickInv, t
      <4>7. \A u \in Tenants : TenantInv(u)'
        BY <4>2, <4>3, <4>4, <4>5, <4>6 DEF NoticeInv, TenantInv, Stable, Begun
      <4> QED
        BY <4>5, <4>7
    <3> QED
      BY <3>1, <3>2
  <2>3. TickInv(k)'
    BY <1>38, <2>2 DEF Patch, Return, NoticeInv, TickInv, Stable, Begun,
       Cleared, Late, TypeInv, TypeOK, TickOK, SagaOK, Absent, NewLedger
  <2> QED
    BY <2>1, <2>2, <2>3, OneTickMoves
<1>39. ASSUME NEW k \in Ticks, Catch(k) PROVE NoticeInv' /\ Stable
  <2>1. \A j \in Ticks \ {k} : SameTick(j)
    BY <1>39 DEF Catch, Return, tick, SameTick, TypeInv, TypeOK, TickOK
  <2>2. Stable /\ \A t \in Tenants : TenantInv(t)'
    <3>1. \A t \in Tenants : ledger'[t].phase = ledger[t].phase
      <4>1. /\ at[k] \in Tenants
            /\ [ledger[at[k]] EXCEPT !.upd = clk + 1].phase = ledger[at[k]].phase
        BY DEF TypeInv, TypeOK, SagaOK, TickOK, Ledger
      <4> QED
        BY <1>39, <4>1 DEF Catch, TypeInv, TypeOK, SagaOK
    <3>2. ws' = ws /\ ledAge' = ledAge /\ told' = told
      BY <1>39 DEF Catch, tenancy, history
    <3> QED
      BY <3>1, <3>2 DEF Stable, Begun, Cleared, NoticeInv, TenantInv
  <2>3. TickInv(k)'
    BY <1>39, <2>2 DEF Catch, Return, NoticeInv, TickInv, Stable, Begun,
       Cleared, Late, TypeInv, TypeOK, TickOK, SagaOK, Absent, NewLedger
  <2> QED
    BY <2>1, <2>2, <2>3, OneTickMoves
<1>40. ASSUME NEW k \in Ticks, PurgeBudget(k) PROVE NoticeInv' /\ Stable
  <2>1. \A j \in Ticks \ {k} : SameTick(j)
    BY <1>40 DEF PurgeBudget, Return, tick, SameTick, TypeInv, TypeOK, TickOK
  <2>2. Stable /\ \A t \in Tenants : TenantInv(t)'
    BY <1>40, SameTenants DEF PurgeBudget, Return, saga, tenancy, tick,
       history
  <2>3. TickInv(k)'
    BY <1>40, <2>2 DEF PurgeBudget, Return, NoticeInv, TickInv, Stable,
       Begun, Cleared, Late, TypeInv, TypeOK, TickOK, SagaOK, Absent,
       NewLedger
  <2> QED
    BY <2>1, <2>2, <2>3, OneTickMoves
<1>41. ASSUME NEW k \in Ticks, Throw(k) PROVE NoticeInv' /\ Stable
  <2>1. \A j \in Ticks \ {k} : SameTick(j)
    BY <1>41 DEF Throw, Goto, tick, SameTick, TypeInv, TypeOK, TickOK
  <2>2. Stable /\ \A t \in Tenants : TenantInv(t)'
    BY <1>41, SameTenants DEF Throw, Goto, saga, tenancy, tick, history
  <2>3. TickInv(k)'
    BY <1>41, <2>2 DEF Throw, Goto, NoticeInv, TickInv, Stable, Begun,
       Cleared, Late, TypeInv, TypeOK, TickOK, SagaOK
  <2> QED
    BY <2>1, <2>2, <2>3, OneTickMoves
<1>42. ASSUME NEW k \in Ticks, Die(k) PROVE NoticeInv' /\ Stable
  <2>1. \A j \in Ticks \ {k} : SameTick(j)
    BY <1>42 DEF Die, Return, tick, SameTick, TypeInv, TypeOK, TickOK
  <2>2. Stable /\ \A t \in Tenants : TenantInv(t)'
    BY <1>42, SameTenants DEF Die, Return, saga, tenancy, tick, history
  <2>3. TickInv(k)'
    BY <1>42, <2>2 DEF Die, Return, NoticeInv, TickInv, Stable, Begun,
       Cleared, Late, TypeInv, TypeOK, TickOK, SagaOK, Absent, NewLedger
  <2> QED
    BY <2>1, <2>2, <2>3, OneTickMoves
<1>43. CASE UNCHANGED vars
  <2>1. UNCHANGED <<ws, ledger, ledAge, told, pc, at, copy, plan, ok>>
    BY <1>43 DEF vars, saga, tenancy, tick, history
  <2> QED
    BY <2>1, SameTenants, NoTickMoves DEF SameTick
<1> QED
  BY <1>1, <1>2, <1>3, <1>4, <1>5, <1>6, <1>7, <1>8, <1>9, <1>10, <1>11,
     <1>12, <1>13, <1>14, <1>15, <1>16, <1>17, <1>18, <1>19, <1>20, <1>21,
     <1>22, <1>23, <1>24, <1>25, <1>26, <1>27, <1>28, <1>29, <1>30, <1>31,
     <1>32, <1>33, <1>34, <1>35, <1>36, <1>37, <1>38, <1>39, <1>40, <1>41,
     <1>42, <1>43 DEF Next, Tick

(* Only the purge deletes rows.                                            *)
LEMMA OnlyPurgeDeletes ==
  ASSUME TypeInv, [Next]_vars, NEW t \in Tenants, rows[t] \ rows'[t] # {}
  PROVE  \E k \in Ticks : Purge(k) /\ at[k] = t
<1>1. ~ UNCHANGED data
  BY DEF data
<1>2. \/ \E k \in Ticks : Purge(k)
      \/ \E k \in Ticks : WriteTombstone(k)
      \/ \E u \in Tenants, r \in Row : OwnerWrite(u, r)
  <2>1. ASSUME NEW k \in Ticks, Tick(k) PROVE Purge(k) \/ WriteTombstone(k)
    BY <1>1, <2>1 DEF Tick, ReadLedger, Start, Count, Create, Mark, SkipExport,
       ReadPage, StagePart, ReadParts, PutZip, HeadZip, Unstage, Mail,
       MailZipGone, UpsertIndex, Send, MailResult, Verify, DeleteAccount,
       KeepLedger, DeleteLedger, Patch, Catch
  <2>2. ASSUME NEW k \in Ticks PROVE ~ (PurgeBudget(k) \/ Throw(k) \/ Die(k))
    BY <1>1 DEF PurgeBudget, Throw, Die
  <2>3. ASSUME NEW u \in Tenants
        PROVE  ~ (SignIn(u) \/ EndTrial(u) \/ SetTrialExpiry(u) \/ DeleteUserEnd(u)
                  \/ DeleteUserDies(u) \/ BucketRule(u))
    BY <1>1 DEF SignIn, EndTrial, SetTrialExpiry, DeleteUserEnd, DeleteUserDies,
       BucketRule
  <2>4. ASSUME NEW u \in Tenants, NEW x PROVE ~ DeleteUser(u, x)
    BY <1>1 DEF DeleteUser
  <2>5. ASSUME NEW d \in Deleters
        PROVE  ~ (DeleteZip(d) \/ DeleteIndex(d) \/ DeleteDies(d))
    BY <1>1 DEF DeleteZip, DeleteIndex, DeleteDies
  <2>6. ASSUME NEW d \in Deleters, NEW u \in Tenants PROVE ~ FindArchive(d, u)
    BY <1>1 DEF FindArchive
  <2>7. ~ DeleteOrphans /\ ~ Advance /\ ~ UNCHANGED vars
    BY <1>1 DEF DeleteOrphans, Advance, vars
  <2> QED
    BY <2>1, <2>2, <2>3, <2>4, <2>5, <2>6, <2>7 DEF Next
<1>3. \A k \in Ticks : ~ WriteTombstone(k)
  BY DEF WriteTombstone
<1>4. \A u \in Tenants, r \in Row : ~ OwnerWrite(u, r)
  BY DEF OwnerWrite, StartWrite, CommitWrite, TypeInv, TypeOK, DataOK
<1>5. PICK k \in Ticks : Purge(k)
  BY <1>2, <1>3, <1>4
<1>6. at[k] = t
  BY <1>5 DEF Purge, TypeInv, TypeOK, DataOK
<1> QED
  BY <1>5, <1>6

(* At the start nobody was told and no saga has begun.                     *)
LEMMA NoticeInit == Init => NoticeInv
BY AnyTenantType DEF Init, NoticeInv, TenantInv, TickInv, Begun, Cleared, Late,
   Absent, NewLedger

(* No row of a workspace is deleted before its owner was told (or could    *)
(* not be told for archiveDays, or an older version had told them), for    *)
(* any number of workspaces, overlapping ticks, services and faults.       *)
THEOREM NoticeBeforePurgeHolds == Spec => NoticeBeforePurge
<1>1. Init => NoticeInv
  BY NoticeInit
<1>2. TypeInv /\ NoticeInv /\ [Next]_vars =>
        [\A t \in Tenants : rows[t] \ rows'[t] # {} => Entitled(t)]_vars
  <2> SUFFICES ASSUME TypeInv, NoticeInv, [Next]_vars, NEW t \in Tenants,
                      rows[t] \ rows'[t] # {}
               PROVE  Entitled(t)
    OBVIOUS
  <2>1. PICK k \in Ticks : Purge(k) /\ at[k] = t
    BY OnlyPurgeDeletes
  <2>2. Cleared(t)
    BY <2>1 DEF Purge, NoticeInv, TickInv
  <2> QED
    BY <2>2 DEF Cleared, Entitled
<1> QED
  BY <1>1, <1>2, TypeInit, TypeStep, NoticeStep, PTL DEF Spec, NoticeBeforePurge

-----------------------------------------------------------------------------
(***************************************************************************)
(* The archive saga implements TrialLifecycle, for every number of         *)
(* workspaces, overlapping ticks, services and rows: the account closes    *)
(* only when no service holds a row, and nothing comes back afterwards.    *)
(***************************************************************************)

(* The services a ledger has behind it have their tombstone in stones.     *)
Swept(led, stones) ==
  \A i \in 1..N : i < led.psvc \/ led.phase \in {"purged", "account_deleted"}
                    => PurgeOrder[i] \in stones

TenantSwept(t) ==
  /\ Swept(ledger[t], tomb[t])
  /\ ws[t] = "NONE" => /\ Services \subseteq tomb[t]
                       /\ rows[t] \subseteq late[t] /\ t \notin sessions

(* The purged service of a tick at "stone" still has no tombstone.         *)
TickSwept(k) ==
  /\ Swept(copy[k], tomb[at[k]])
  /\ pc[k] \notin {"stone", "catch"} => Swept(plan[k], tomb[at[k]])
  /\ pc[k] = "stone" =>
       Swept(plan[k], tomb[at[k]] \cup {PurgeOrder[copy[k].psvc]})
  /\ pc[k] \in {"verify", "account", "keep"} => copy[k].phase = "purged"
  /\ pc[k] = "account" => rows[at[k]] \subseteq late[at[k]]
  /\ pc[k] \in {"idle", "start"} => copy[k].psvc = 1 /\ plan[k].psvc = 1

SweepInv == (\A t \in Tenants : TenantSwept(t)) /\ (\A k \in Ticks : TickSwept(k))

(* Tombstones stay, and what a service with a tombstone gets is late.      *)
Growing ==
  \A t \in Tenants :
    /\ tomb[t] \subseteq tomb'[t]
    /\ Services \subseteq tomb[t] /\ rows[t] \subseteq late[t]
         => rows'[t] \subseteq late'[t]

(* The step that may end an account, and those that change data or access. *)
Plain == UNCHANGED <<rows, tomb, late, sessions>>
         /\ \A t \in Tenants : ws'[t] = "NONE" <=> ws[t] = "NONE"
AccessStep(t) == SignIn(t) \/ EndTrial(t) \/ SetTrialExpiry(t) \/ DeleteUserEnd(t)

-----------------------------------------------------------------------------
(* What a step may do to data, access and the account.                     *)
LEMMA Moves ==
  ASSUME TypeInv, [Next]_vars
  PROVE  \/ \E t \in Tenants, r \in Row : OwnerWrite(t, r)
         \/ \E t \in Tenants : AccessStep(t)
         \/ \E k \in Ticks : Purge(k) \/ WriteTombstone(k) \/ DeleteAccount(k)
         \/ Plain
<1>0. ws \in [Tenants -> {"ACTIVE", "EXPIRED", "ARCHIVING", "NONE"}]
  BY DEF TypeInv, TypeOK, TenancyOK
<1>1. ASSUME NEW k \in Ticks, Tick(k)
      PROVE  Purge(k) \/ WriteTombstone(k) \/ DeleteAccount(k) \/ Plain
  <2>1. CASE Mark(k)
    BY <1>0, <2>1 DEF Mark, Plain, data
  <2>2. CASE ReadLedger(k) \/ Start(k) \/ Count(k) \/ Create(k) \/ SkipExport(k)
             \/ ReadPage(k) \/ StagePart(k) \/ ReadParts(k) \/ PutZip(k)
             \/ HeadZip(k) \/ Unstage(k)
    BY <2>2 DEF ReadLedger, Start, Count, Create, SkipExport, ReadPage, StagePart,
       ReadParts, PutZip, HeadZip, Unstage, Plain, data, tenancy
  <2>3. CASE Mail(k) \/ MailZipGone(k) \/ UpsertIndex(k) \/ Send(k)
             \/ MailResult(k) \/ Verify(k) \/ KeepLedger(k) \/ DeleteLedger(k)
             \/ Patch(k) \/ Catch(k)
    BY <2>3 DEF Mail, MailZipGone, UpsertIndex, Send, MailResult, Verify,
       KeepLedger, DeleteLedger, Patch, Catch, Plain, data, tenancy
  <2> QED
    BY <1>1, <2>1, <2>2, <2>3 DEF Tick
<1>2. ASSUME NEW k \in Ticks, PurgeBudget(k) \/ Throw(k) \/ Die(k) PROVE Plain
  BY <1>2 DEF PurgeBudget, Throw, Die, Plain, data, tenancy
<1>3. ASSUME NEW t \in Tenants, DeleteUserDies(t) \/ BucketRule(t) PROVE Plain
  BY <1>3 DEF DeleteUserDies, BucketRule, Plain, data, tenancy
<1>4. ASSUME NEW t \in Tenants, NEW m, DeleteUser(t, m) PROVE Plain
  BY <1>4 DEF DeleteUser, Plain, data
<1>5. ASSUME NEW d \in Deleters, DeleteZip(d) \/ DeleteIndex(d) \/ DeleteDies(d)
      PROVE  Plain
  BY <1>5 DEF DeleteZip, DeleteIndex, DeleteDies, Plain, data, tenancy
<1>6. ASSUME NEW d \in Deleters, NEW t \in Tenants, FindArchive(d, t) PROVE Plain
  BY <1>6 DEF FindArchive, Plain, data, tenancy
<1>7. DeleteOrphans \/ Advance \/ UNCHANGED vars => Plain
  BY DEF DeleteOrphans, Advance, vars, Plain, data, tenancy
<1> QED
  BY <1>1, <1>2, <1>3, <1>4, <1>5, <1>6, <1>7 DEF Next, AccessStep

(* A step that signs in or out, or ends or moves a trial, closes nothing.  *)
LEMMA AccessMoves ==
  ASSUME TypeInv, NEW t \in Tenants, AccessStep(t)
  PROVE  /\ UNCHANGED <<rows, tomb, late, ledger, ledAge, told>>
         /\ \A u \in Tenants : ws'[u] = "NONE" <=> ws[u] = "NONE"
         /\ \/ sessions' = sessions \ {t} \/ sessions' = sessions
            \/ ws[t] # "NONE" /\ sessions' = sessions \cup {t}
<1>1. ws \in [Tenants -> {"ACTIVE", "EXPIRED", "ARCHIVING", "NONE"}]
  BY DEF TypeInv, TypeOK, TenancyOK
<1>2. CASE SignIn(t)
  BY <1>2 DEF SignIn, data, saga, history
<1>3. CASE EndTrial(t)
  BY <1>1, <1>3 DEF EndTrial, ToExpired, data, saga, history
<1>4. CASE SetTrialExpiry(t)
  BY <1>1, <1>4 DEF SetTrialExpiry, data, saga, history
<1>5. CASE DeleteUserEnd(t)
  BY <1>1, <1>5 DEF DeleteUserEnd, ToExpired, data, saga, history
<1> QED
  BY <1>2, <1>3, <1>4, <1>5 DEF AccessStep

LEMMA GrowingStep == ASSUME TypeInv, [Next]_vars PROVE Growing
<1>0. /\ rows \in [Tenants -> SUBSET Row] /\ tomb \in [Tenants -> SUBSET Services]
      /\ late \in [Tenants -> SUBSET Row]
      /\ at \in [Ticks -> Tenants] /\ \A r \in Row : r[1] \in Services
  BY BoundAssumption DEF TypeInv, TypeOK, DataOK, TickOK
<1>1. ASSUME NEW u \in Tenants, NEW r \in Row, OwnerWrite(u, r) PROVE Growing
  <2>1. CASE UNCHANGED <<rows, tomb, late>>
    BY <2>1 DEF Growing
  <2>2. ASSUME tomb' = tomb, rows' = [rows EXCEPT ![u] = @ \cup {r}],
               late' = IF r[1] \in tomb[u] /\ r \notin rows[u]
                       THEN [late EXCEPT ![u] = @ \cup {r}] ELSE late
        PROVE  Growing
    <3> SUFFICES ASSUME NEW t \in Tenants, Services \subseteq tomb[t],
                        rows[t] \subseteq late[t]
                 PROVE  rows'[t] \subseteq late'[t]
      BY <2>2 DEF Growing
    <3>1. CASE t # u
      BY <1>0, <2>2, <3>1
    <3>2. CASE t = u
      BY <1>0, <2>2, <3>2
    <3> QED
      BY <3>1, <3>2
  <2> QED
    BY <1>1, <2>1, <2>2 DEF OwnerWrite, StartWrite, CommitWrite
<1>2. CASE \E t \in Tenants : AccessStep(t)
  BY <1>2, AccessMoves DEF Growing
<1>3. CASE \E k \in Ticks : Purge(k)
  BY <1>0, <1>3 DEF Purge, Growing
<1>4. CASE \E k \in Ticks : WriteTombstone(k)
  BY <1>0, <1>4 DEF WriteTombstone, Growing
<1>5. CASE \E k \in Ticks : DeleteAccount(k)
  BY <1>5 DEF DeleteAccount, data, Growing
<1>6. CASE Plain
  BY <1>6 DEF Plain, Growing
<1> QED
  BY <1>1, <1>2, <1>3, <1>4, <1>5, <1>6, Moves

-----------------------------------------------------------------------------
(* What a step may do to ledgers and ticks.                                *)
FromTick(k, t) ==
  /\ at[k] = t /\ pc[k] \in {"create", "patch"}
  /\ ledger'[t].psvc = plan[k].psvc /\ ledger'[t].phase = plan[k].phase
SamePlace(a, b) == a.psvc = b.psvc /\ a.phase = b.phase

LEMMA LedgerMoves ==
  ASSUME TypeInv, [Next]_vars, NEW t \in Tenants
  PROVE  \/ SamePlace(ledger'[t], ledger[t])
         \/ ledger'[t] = Absent
         \/ \E k \in Ticks : FromTick(k, t)
<1>0. /\ ledger \in [Tenants -> Ledger] /\ at \in [Ticks -> Tenants]
      /\ plan \in [Ticks -> Ledger]
      /\ \A led \in Ledger : SamePlace([led EXCEPT !.upd = clk + 1], led)
  BY DEF TypeInv, TypeOK, SagaOK, TickOK, Ledger, SamePlace
<1> USE DEF SamePlace
<1>1. ASSUME NEW k \in Ticks, Create(k) \/ Patch(k)
      PROVE  SamePlace(ledger'[t], ledger[t]) \/ FromTick(k, t)
  <2> DEFINE new == [plan[k] EXCEPT !.upd = clk + 1]
  <2>1. ledger' = [ledger EXCEPT ![at[k]] = new] \/ ledger' = ledger
    BY <1>1 DEF Create, Patch
  <2>2. new.psvc = plan[k].psvc /\ new.phase = plan[k].phase
    BY <1>0
  <2>3. pc[k] \in {"create", "patch"}
    BY <1>1 DEF Create, Patch
  <2> HIDE DEF new
  <2> QED
    BY <1>0, <2>1, <2>2, <2>3 DEF FromTick
<1>2. ASSUME NEW k \in Ticks, Catch(k) PROVE SamePlace(ledger'[t], ledger[t])
  <2> DEFINE new == [ledger[at[k]] EXCEPT !.upd = clk + 1]
  <2>1. ledger' = [ledger EXCEPT ![at[k]] = new] \/ ledger' = ledger
    BY <1>2 DEF Catch
  <2>2. new.psvc = ledger[at[k]].psvc /\ new.phase = ledger[at[k]].phase
    BY <1>0
  <2> HIDE DEF new
  <2> QED
    BY <1>0, <2>1, <2>2
<1>3. ASSUME NEW k \in Ticks, MailZipGone(k) \/ DeleteLedger(k)
      PROVE  SamePlace(ledger'[t], ledger[t]) \/ ledger'[t] = Absent
  BY <1>0, <1>3 DEF MailZipGone, DropIndex, DeleteLedger
<1>4. ASSUME NEW k \in Ticks, Tick(k), ~ Create(k), ~ Patch(k), ~ Catch(k),
             ~ MailZipGone(k), ~ DeleteLedger(k)
      PROVE  ledger' = ledger
  BY <1>4 DEF Tick, ReadLedger, Start, Count, Mark, SkipExport, ReadPage,
     StagePart, ReadParts, PutZip, HeadZip, Unstage, Mail, UpsertIndex, Send,
     MailResult, Purge, WriteTombstone, Verify, DeleteAccount, KeepLedger, saga
<1>5. ASSUME NEW k \in Ticks, PurgeBudget(k) \/ Throw(k) \/ Die(k)
      PROVE  ledger' = ledger
  BY <1>5 DEF PurgeBudget, Throw, Die, saga
<1>6. ASSUME NEW u \in Tenants, (\E r \in Row : OwnerWrite(u, r)) \/ SignIn(u)
             \/ EndTrial(u) \/ SetTrialExpiry(u) \/ DeleteUserEnd(u)
             \/ DeleteUserDies(u) \/ BucketRule(u)
      PROVE  ledger' = ledger
  BY <1>6 DEF OwnerWrite, StartWrite, CommitWrite, SignIn, EndTrial, SetTrialExpiry, DeleteUserEnd,
     DeleteUserDies, BucketRule, saga
<1>7. ASSUME NEW u \in Tenants, NEW m, DeleteUser(u, m) PROVE ledger' = ledger
  BY <1>7 DEF DeleteUser, saga
<1>8. ASSUME NEW d \in Deleters, DeleteIndex(d)
      PROVE  ledger'[t] \in {ledger[t], Absent}
  BY <1>0, <1>8 DEF DeleteIndex, DropIndex
<1>9. ASSUME NEW d \in Deleters, DeleteZip(d) \/ DeleteDies(d)
      PROVE  ledger' = ledger
  BY <1>9 DEF DeleteZip, DeleteDies, saga
<1>10. ASSUME NEW d \in Deleters, NEW u \in Tenants, FindArchive(d, u)
       PROVE  ledger' = ledger
  BY <1>10 DEF FindArchive, saga
<1>11. DeleteOrphans => ledger'[t] \in {ledger[t], Absent}
  BY DEF DeleteOrphans
<1>12. Advance \/ UNCHANGED vars => ledger' = ledger
  BY DEF Advance, vars, saga
<1> QED
  BY <1>1, <1>2, <1>3, <1>4, <1>5, <1>6, <1>7, <1>8, <1>9, <1>10, <1>11, <1>12
     DEF Next

(* A tick moves alone: the others keep their local state.                  *)
TickStep(k) == Tick(k) \/ PurgeBudget(k) \/ Throw(k) \/ Die(k)

LEMMA OthersStay ==
  ASSUME TypeInv, [Next]_vars, NEW j \in Ticks
  PROVE  SameTick(j) \/ TickStep(j)
<1>0. /\ pc \in [Ticks -> Calls] /\ at \in [Ticks -> Tenants]
      /\ copy \in [Ticks -> Ledger] /\ plan \in [Ticks -> Ledger]
      /\ ok \in [Ticks -> BOOLEAN]
  BY DEF TypeInv, TypeOK, TickOK
<1>1. ASSUME NEW k \in Ticks, k # j, Tick(k) PROVE SameTick(j)
  <2>1. CASE ReadLedger(k) \/ Start(k) \/ Count(k) \/ Create(k) \/ Mark(k)
    BY <1>0, <1>1, <2>1 DEF ReadLedger, Start, Count, Create, Mark, Goto, Return,
       SameTick
  <2>2. CASE SkipExport(k) \/ ReadPage(k) \/ StagePart(k) \/ ReadParts(k)
             \/ PutZip(k) \/ HeadZip(k) \/ Unstage(k)
    BY <1>0, <1>1, <2>2 DEF SkipExport, ReadPage, StagePart, ReadParts, PutZip,
       HeadZip, Unstage, Goto, PlanPatch, SameTick
  <2>3. CASE Mail(k) \/ MailZipGone(k) \/ UpsertIndex(k) \/ Send(k)
             \/ MailResult(k)
    BY <1>0, <1>1, <2>3 DEF Mail, MailZipGone, UpsertIndex, Send, MailResult, Goto,
       PlanPatch, SameTick
  <2>4. CASE Purge(k) \/ WriteTombstone(k) \/ Verify(k) \/ DeleteAccount(k)
             \/ KeepLedger(k)
    BY <1>0, <1>1, <2>4 DEF Purge, WriteTombstone, Verify, DeleteAccount,
       KeepLedger, Goto, PlanPatch, SameTick
  <2>5. CASE DeleteLedger(k) \/ Patch(k) \/ Catch(k)
    BY <1>0, <1>1, <2>5 DEF DeleteLedger, Patch, Catch, Return, SameTick
  <2> QED
    BY <1>1, <2>1, <2>2, <2>3, <2>4, <2>5 DEF Tick
<1>2. ASSUME NEW k \in Ticks, k # j, PurgeBudget(k) \/ Throw(k) \/ Die(k)
      PROVE  SameTick(j)
  BY <1>0, <1>2 DEF PurgeBudget, Throw, Die, Return, Goto, SameTick
<1> USE DEF SameTick, tick
<1>3. ASSUME NEW u \in Tenants, (\E r \in Row : OwnerWrite(u, r)) \/ SignIn(u)
             \/ EndTrial(u) \/ SetTrialExpiry(u) \/ DeleteUserEnd(u)
             \/ DeleteUserDies(u) \/ BucketRule(u)
      PROVE  SameTick(j)
  BY <1>3 DEF OwnerWrite, StartWrite, CommitWrite, SignIn, EndTrial, SetTrialExpiry, DeleteUserEnd,
     DeleteUserDies, BucketRule
<1>4. ASSUME NEW u \in Tenants, NEW m, DeleteUser(u, m) PROVE SameTick(j)
  BY <1>4 DEF DeleteUser
<1>5. ASSUME NEW d \in Deleters, DeleteZip(d) \/ DeleteIndex(d) \/ DeleteDies(d)
      PROVE  SameTick(j)
  BY <1>5 DEF DeleteZip, DeleteIndex, DeleteDies
<1>6. ASSUME NEW d \in Deleters, NEW u \in Tenants, FindArchive(d, u)
      PROVE  SameTick(j)
  BY <1>6 DEF FindArchive
<1>7. DeleteOrphans \/ Advance \/ UNCHANGED vars => SameTick(j)
  BY DEF DeleteOrphans, Advance, vars
<1> QED
  BY <1>1, <1>2, <1>3, <1>4, <1>5, <1>6, <1>7 DEF Next, TickStep

-----------------------------------------------------------------------------
(* What the sweep needs to know of ledgers.                                *)
LEMMA SweptKept ==
  ASSUME NEW led, NEW new, NEW S, NEW T, Swept(led, S), S \subseteq T,
         new.psvc = led.psvc,
         new.phase = led.phase \/ new.phase \notin {"purged", "account_deleted"}
  PROVE  Swept(new, T)
BY DEF Swept

LEMMA SweptFresh ==
  ASSUME NEW led, NEW S, led.psvc = 1,
         led.phase \notin {"purged", "account_deleted"}
  PROVE  Swept(led, S)
BY Sizes DEF Swept

(* A ledger that is purged has every service behind it.                    *)
LEMMA SweptAll ==
  ASSUME NEW led, NEW S, Swept(led, S), led.phase = "purged"
  PROVE  Services \subseteq S /\ \A new : Swept(new, S)
<1>1. \A i \in 1..N : PurgeOrder[i] \in S
  BY DEF Swept
<1>2. \A s \in Services : \E i \in 1..N : PurgeOrder[i] = s
  BY OrderAssumption DEF N
<1> QED
  BY <1>1, <1>2 DEF Swept

(* advancePurge leaves a service behind only when it is done with it.      *)
LEMMA SweptAdvance ==
  ASSUME NEW led \in Ledger, NEW S, Swept(led, S)
  PROVE  /\ Swept(AdvancePurge(led, FALSE), S)
         /\ Swept(AdvancePurge(led, TRUE), S \cup {PurgeOrder[led.psvc]})
<1>0. led.psvc \in 1..N /\ N \in Nat
  BY Sizes DEF Ledger
<1>1. Swept(AdvancePurge(led, FALSE), S)
  <2>1. /\ AdvancePurge(led, FALSE).psvc = led.psvc
        /\ AdvancePurge(led, FALSE).phase = "purging"
    BY DEF AdvancePurge, Ledger
  <2> QED
    BY <2>1, SweptKept
<1>2. CASE led.psvc < N
  <2> DEFINE mid == [led EXCEPT !.phase = "purging"]
             new == [mid EXCEPT !.psvc = @ + 1]
  <2>0. mid \in Ledger /\ mid.psvc = led.psvc /\ mid.phase = "purging"
    BY DEF Ledger, Phases
  <2> HIDE DEF mid
  <2>1. new.psvc = led.psvc + 1 /\ new.phase = "purging"
    BY <2>0 DEF Ledger
  <2>2. AdvancePurge(led, TRUE) = new
    BY <1>2 DEF AdvancePurge, mid
  <2> HIDE DEF new
  <2>3. \A i \in 1..N : i < new.psvc => i < led.psvc \/ i = led.psvc
    BY <1>0, <2>1
  <2>4. Swept(new, S \cup {PurgeOrder[led.psvc]})
    BY <2>1, <2>3 DEF Swept
  <2> QED
    BY <1>1, <2>2, <2>4
<1>3. CASE ~ (led.psvc < N)
  <2>1. led.psvc = N
    BY <1>0, <1>3
  <2>2. \A i \in 1..N : i < N \/ i = N
    BY <1>0
  <2> DEFINE new == AdvancePurge(led, TRUE)
  <2> HIDE DEF new
  <2>3. \A i \in 1..N : i < led.psvc \/ i = led.psvc
    BY <2>1, <2>2
  <2>4. Swept(new, S \cup {PurgeOrder[led.psvc]})
    BY <2>3 DEF Swept
  <2> QED
    BY <1>1, <2>4 DEF new
<1> QED
  BY <1>1, <1>2, <1>3

(* A step of somebody else keeps a tick swept.                             *)
LEMMA OthersSwept ==
  ASSUME TypeInv, NEW j \in Ticks, TickSwept(j), Growing, SameTick(j)
  PROVE  TickSwept(j)'
<1>1. at[j] \in Tenants /\ at'[j] = at[j]
  BY DEF TypeInv, TypeOK, TickOK, SameTick
<1>2. tomb[at[j]] \subseteq tomb'[at[j]]
  BY <1>1 DEF Growing
<1>3. pc[j] = "account" => rows'[at[j]] \subseteq late'[at[j]]
  BY <1>1, SweptAll DEF TickSwept, Growing
<1>4. /\ pc'[j] = pc[j] /\ copy'[j] = copy[j] /\ plan'[j] = plan[j]
  BY DEF SameTick
<1>5. Swept(copy[j], tomb'[at[j]])
  BY <1>2, SweptKept DEF TickSwept
<1>6. pc[j] \notin {"stone", "catch"} => Swept(plan[j], tomb'[at[j]])
  BY <1>2, SweptKept DEF TickSwept
<1>7. pc[j] = "stone" =>
        Swept(plan[j], tomb'[at[j]] \cup {PurgeOrder[copy[j].psvc]})
  BY <1>2 DEF TickSwept, Swept
<1> QED
  BY <1>1, <1>3, <1>4, <1>5, <1>6, <1>7 DEF TickSwept

(* Only a purged saga is verified.                                         *)
LEMMA VerifyPurged ==
  ASSUME NEW led \in Ledger, led.phase \notin {"none", "account_deleted"},
         StepOf(led) = "verify"
  PROVE  led.phase = "purged"
<1>1. led.phase # "exporting"
  <2> SUFFICES ASSUME led.phase = "exporting" PROVE FALSE
    OBVIOUS
  <2>1. led.svc =< N \/ led.svc > N
    BY Sizes DEF Ledger
  <2> QED
    BY <2>1 DEF StepOf
<1>2. led.phase \notin {"exported", "mailed", "purging"}
  BY DEF StepOf
<1> QED
  BY <1>1, <1>2 DEF Ledger, Phases

(* The tick that moves stays swept.                                        *)
LEMMA MoverSwept ==
  ASSUME TypeInv, NoticeInv, SweepInv, Growing, NEW k \in Ticks, TickStep(k)
  PROVE  TickSwept(k)'
<1>0. /\ pc \in [Ticks -> Calls] /\ at \in [Ticks -> Tenants]
      /\ copy \in [Ticks -> Ledger] /\ plan \in [Ticks -> Ledger]
      /\ ledger \in [Tenants -> Ledger]
      /\ rows \in [Tenants -> SUBSET Row] /\ tomb \in [Tenants -> SUBSET Services]
  BY DEF TypeInv, TypeOK, TickOK, SagaOK, DataOK
<1>1. /\ TickSwept(k) /\ TickInv(k)
      /\ \A t \in Tenants : TenantSwept(t) /\ tomb[t] \subseteq tomb'[t]
  BY DEF SweepInv, NoticeInv, Growing
<1>2. /\ Absent.psvc = 1 /\ \A S : Swept(Absent, S)
  <2>1. Absent.psvc = 1 /\ Absent.phase = "none"
    BY DEF Absent, NewLedger
  <2> QED
    BY <2>1, SweptFresh
<1>3. ASSUME pc'[k] = "idle", copy'[k] = Absent, plan'[k] = Absent
      PROVE  TickSwept(k)'
  BY <1>2, <1>3 DEF TickSwept
<1>4. CASE Mark(k) \/ DeleteLedger(k) \/ Patch(k) \/ Catch(k) \/ PurgeBudget(k) \/ Die(k)
  BY <1>0, <1>3, <1>4 DEF Mark, DeleteLedger, Patch, Catch, PurgeBudget, Die, Return
(* Same workspace and ledgers: only the next call differs.                 *)
<1>5. ASSUME at' = at, copy' = copy, plan' = plan,
             pc[k] \notin {"idle", "start", "stone", "catch"},
             \/ pc'[k] \notin {"idle", "start", "stone", "verify", "account", "keep"}
             \/ pc[k] = "account" /\ pc'[k] = "keep"
      PROVE  TickSwept(k)'
  <2>1. at[k] \in Tenants
    BY <1>0
  <2>2. Swept(copy[k], tomb'[at[k]]) /\ Swept(plan[k], tomb'[at[k]])
    BY <1>1, <1>5, <2>1, SweptKept DEF TickSwept
  <2> QED
    BY <1>1, <1>5, <2>1, <2>2 DEF TickSwept
<1>6. CASE StagePart(k) \/ PutZip(k) \/ HeadZip(k) \/ Unstage(k)
           \/ UpsertIndex(k) \/ Send(k) \/ MailZipGone(k) \/ DeleteAccount(k)
  <2>1. at' = at /\ copy' = copy /\ plan' = plan
    BY <1>6 DEF StagePart, PutZip, HeadZip, Unstage, UpsertIndex, Send,
       MailZipGone, DeleteAccount
  <2>2. \/ /\ pc[k] \in {"stage", "put", "head", "unstage", "index", "send", "unindex"}
           /\ pc'[k] \in {"patch", "head", "unstage", "catch", "send", "mailed"}
        \/ pc[k] = "account" /\ pc'[k] = "keep"
    BY <1>0, <1>6 DEF StagePart, PutZip, HeadZip, Unstage, UpsertIndex, Send,
       MailZipGone, DeleteAccount, Goto
  <2> QED
    BY <1>5, <2>1, <2>2
<1>7. CASE Create(k)
  <2>1. pc[k] = "create"
    BY <1>7 DEF Create
  <2>2. \/ pc'[k] = "idle" /\ copy'[k] = Absent /\ plan'[k] = Absent
        \/ pc'[k] = "mark" /\ at' = at /\ copy' = copy /\ plan' = plan
    BY <1>0, <1>7 DEF Create, Return, Goto
  <2> QED
    BY <1>3, <1>5, <2>1, <2>2
<1>8. CASE Throw(k)
  <2>1. UNCHANGED <<at, copy, plan>> /\ pc'[k] = "catch"
    BY <1>0, <1>8 DEF Throw, Goto
  <2>2. Swept(copy[k], tomb'[at[k]])
    BY <1>0, <1>1, SweptKept DEF TickSwept
  <2> QED
    BY <2>1, <2>2 DEF TickSwept
<1>9. CASE WriteTombstone(k)
  <2>1. UNCHANGED <<at, copy, plan>> /\ pc'[k] = "patch" /\ pc[k] = "stone"
    BY <1>0, <1>9 DEF WriteTombstone, Goto
  <2>2. tomb'[at[k]] = tomb[at[k]] \cup {PurgeOrder[copy[k].psvc]}
    BY <1>0, <1>9 DEF WriteTombstone
  <2>3. Swept(copy[k], tomb'[at[k]]) /\ Swept(plan[k], tomb'[at[k]])
    BY <1>0, <1>1, <2>1, <2>2, SweptKept DEF TickSwept
  <2> QED
    BY <2>1, <2>3 DEF TickSwept
(* A new plan with the purge where the ledger read has it, or at its start. *)
<1>10. ASSUME UNCHANGED <<at, copy>>,
              pc[k] \notin {"idle", "start"},
              pc'[k] \notin {"idle", "start", "stone", "verify", "account", "keep"},
              Swept(plan'[k], tomb[at[k]])
       PROVE  TickSwept(k)'
  <2>1. at[k] \in Tenants
    BY <1>0
  <2>2. Swept(copy[k], tomb'[at[k]]) /\ Swept(plan'[k], tomb'[at[k]])
    BY <1>1, <1>10, <2>1, SweptKept DEF TickSwept
  <2> QED
    BY <1>1, <1>10, <2>1, <2>2 DEF TickSwept
<1>11. CASE Count(k)
  <2>1. plan'[k].psvc = 1 /\ plan'[k].phase = "exporting"
    BY <1>0, <1>11 DEF Count, NewLedger
  <2>2. Swept(plan'[k], tomb[at[k]])
    BY <2>1, SweptFresh
  <2> QED
    BY <1>0, <1>10, <1>11, <2>2 DEF Count, Goto
<1>12. ASSUME plan'[k].psvc = copy[k].psvc,
              plan'[k].phase = copy[k].phase
                \/ plan'[k].phase \notin {"purged", "account_deleted"}
       PROVE  Swept(plan'[k], tomb[at[k]])
  BY <1>1, <1>12, SweptKept DEF TickSwept
<1>13. CASE SkipExport(k)
  <2>1. plan'[k].psvc = copy[k].psvc /\ plan'[k].phase = "exported"
    BY <1>0, <1>13 DEF SkipExport, PlanPatch, Ledger
  <2> QED
    BY <1>0, <1>10, <1>12, <1>13, <2>1 DEF SkipExport, PlanPatch, Goto
<1>14. CASE ReadPage(k)
  <2>1. plan'[k].psvc = copy[k].psvc /\ plan'[k].phase = copy[k].phase
    BY <1>0, <1>14 DEF ReadPage, AdvanceExport, Ledger
  <2> QED
    BY <1>0, <1>10, <1>12, <1>14, <2>1 DEF ReadPage, Goto
<1>15. CASE ReadParts(k)
  <2>1. /\ plan'[k].psvc = copy[k].psvc
        /\ plan'[k].phase \in {copy[k].phase, "exported"}
    <3>1. /\ [copy[k] EXCEPT !.phase = "exported"].phase = "exported"
          /\ [copy[k] EXCEPT !.phase = "exported"].psvc = copy[k].psvc
          /\ [copy[k] EXCEPT !.svc = 1, !.cursor = 0, !.parts = 0].phase
                = copy[k].phase
          /\ [copy[k] EXCEPT !.svc = 1, !.cursor = 0, !.parts = 0].psvc
                = copy[k].psvc
      BY <1>0 DEF Ledger
    <3> QED
      BY <1>0, <1>15, <3>1 DEF ReadParts
  <2> QED
    BY <1>0, <1>10, <1>12, <1>15, <2>1 DEF ReadParts, Goto
<1>16. CASE Mail(k)
  <2>1. plan'[k].psvc = copy[k].psvc /\ plan'[k].phase = copy[k].phase
    BY <1>0, <1>16 DEF Mail, Ledger
  <2> QED
    BY <1>0, <1>10, <1>12, <1>16, <2>1 DEF Mail, Goto
<1>17. CASE MailResult(k)
  <2>1. \/ plan'[k] = plan[k]
        \/ plan'[k].psvc = plan[k].psvc /\ plan'[k].phase = "mailed"
    BY <1>0, <1>17 DEF MailResult, PlanPatch, Ledger
  <2>2. Swept(plan[k], tomb[at[k]])
    BY <1>1, <1>17 DEF MailResult, TickSwept
  <2>3. Swept(plan'[k], tomb[at[k]])
    BY <2>1, <2>2, SweptKept
  <2> QED
    BY <1>0, <1>10, <1>17, <2>3 DEF MailResult, PlanPatch, Goto
<1>18. CASE Verify(k)
  <2>1. UNCHANGED <<at, copy, rows, tomb>> /\ pc[k] = "verify" /\ at[k] \in Tenants
    BY <1>0, <1>18 DEF Verify, data
  <2>2. /\ copy[k].phase = "purged" /\ Swept(copy[k], tomb[at[k]])
        /\ Services \subseteq tomb[at[k]] /\ \A new : Swept(new, tomb[at[k]])
    BY <1>1, <2>1, SweptAll DEF TickSwept
  <2>3. CASE Left(at[k]) # {}
    <3>1. pc'[k] = "patch"
      BY <1>0, <1>18, <2>3 DEF Verify, PlanPatch, Goto
    <3> QED
      BY <1>10, <2>1, <2>2, <3>1
  <2>4. CASE Left(at[k]) = {}
    <3>1. pc'[k] = "account" /\ plan' = plan
      BY <1>0, <1>18, <2>4 DEF Verify, Goto
    <3>2. \A s \in Services : RowsOf(at[k], s) = {}
      <4>1. \A i \in 1..N : RowsOf(at[k], PurgeOrder[i]) = {}
        BY <2>4 DEF Left
      <4>2. \A s \in Services : \E i \in 1..N : PurgeOrder[i] = s
        BY OrderAssumption DEF N
      <4> QED
        BY <4>1, <4>2
    <3>3. rows[at[k]] = {}
      <4>1. \A r \in rows[at[k]] : r[1] \in Services
        BY <1>0, <2>1, BoundAssumption
      <4> QED
        BY <3>2, <4>1 DEF RowsOf
    <3> QED
      BY <2>1, <2>2, <3>1, <3>3 DEF TickSwept
  <2> QED
    BY <2>3, <2>4
<1>19. CASE KeepLedger(k)
  <2>1. /\ UNCHANGED <<at, copy>> /\ pc[k] = "keep"
        /\ pc'[k] \in {"patch", "forget"}
    BY <1>0, <1>19 DEF KeepLedger, PlanPatch, Goto
  <2>2. \A new : Swept(new, tomb[at[k]])
    BY <1>1, <2>1, SweptAll DEF TickSwept
  <2> QED
    BY <1>10, <2>1, <2>2
<1>20. CASE Purge(k)
  <2>1. /\ UNCHANGED <<at, copy, tomb>> /\ pc[k] = "purge" /\ at[k] \in Tenants
        /\ copy[k] \in Ledger
    BY <1>0, <1>20 DEF Purge
  <2>2. \/ plan'[k] = AdvancePurge(copy[k], FALSE) /\ pc'[k] = "patch"
        \/ plan'[k] = AdvancePurge(copy[k], TRUE) /\ pc'[k] = "stone"
    <3>1. PICK batch :
            /\ plan' = [plan EXCEPT ![k] = AdvancePurge(copy[k],
                          PurgeDone(PurgeOrder[copy[k].psvc], batch))]
            /\ pc' = [pc EXCEPT ![k] =
                 IF PurgeDone(PurgeOrder[copy[k].psvc], batch)
                 THEN "stone" ELSE "patch"]
      BY <1>20 DEF Purge, Goto
    <3>2. PurgeDone(PurgeOrder[copy[k].psvc], batch) \in BOOLEAN
      BY DEF PurgeDone
    <3> QED
      BY <1>0, <3>1, <3>2
  <2>3. Swept(copy[k], tomb[at[k]])
    BY <1>1 DEF TickSwept
  <2>4. /\ Swept(AdvancePurge(copy[k], FALSE), tomb[at[k]])
        /\ Swept(AdvancePurge(copy[k], TRUE),
                 tomb[at[k]] \cup {PurgeOrder[copy[k].psvc]})
    BY <2>1, <2>3, SweptAdvance
  <2> QED
    BY <2>1, <2>2, <2>3, <2>4 DEF TickSwept
<1>21. CASE ReadLedger(k)
  <2>1. CASE Unfinished = {}
    <3>1. UNCHANGED <<at, copy, plan, tomb>> /\ pc'[k] = "start" /\ pc[k] = "idle"
      BY <1>0, <1>21, <2>1 DEF ReadLedger, Goto, data
    <3> QED
      BY <1>1, <3>1 DEF TickSwept
  <2>2. CASE Unfinished # {}
    <3>1. PICK t \in Unfinished : /\ at'[k] = t /\ copy'[k] = ledger[t]
                                  /\ pc'[k] = StepOf(ledger[t])
      BY <1>0, <1>21, <2>2 DEF ReadLedger, Goto
    <3>2. /\ t \in Tenants /\ ledger[t] \in Ledger
          /\ ledger[t].phase \notin {"none", "account_deleted"}
      BY <1>0 DEF Unfinished
    <3>3. UNCHANGED <<plan, tomb>> /\ plan[k].psvc = 1 /\ plan[k].phase = "none"
      BY <1>1, <1>21 DEF ReadLedger, data, TickSwept, TickInv
    <3>4. Swept(plan[k], tomb[t]) /\ Swept(copy'[k], tomb[t])
      BY <1>1, <3>1, <3>2, <3>3, SweptFresh DEF TenantSwept
    <3>5. /\ pc'[k] \in {"skip", "page", "zip", "mail", "purge", "verify"}
          /\ pc'[k] = "verify" => copy'[k].phase = "purged"
      BY <3>1, <3>2, StepOfPhase, VerifyPurged
    <3> QED
      BY <3>1, <3>3, <3>4, <3>5 DEF TickSwept
  <2> QED
    BY <2>1, <2>2
<1>22. CASE Start(k)
  <2>1. CASE Candidates = {}
    BY <1>0, <1>3, <1>22, <2>1 DEF Start, Return
  <2>2. CASE Candidates # {}
    <3>1. /\ UNCHANGED copy /\ pc'[k] \in {"create", "count"}
          /\ plan'[k].psvc = 1 /\ plan'[k].phase \in {"mailed", "exporting"}
      BY <1>0, <1>22, <2>2 DEF Start, Goto, NewLedger
    <3>2. copy[k].psvc = 1 /\ copy[k].phase = "none"
      BY <1>1, <1>22 DEF Start, TickSwept, TickInv
    <3>3. \A S : Swept(copy[k], S) /\ Swept(plan'[k], S)
      BY <3>1, <3>2, SweptFresh
    <3> QED
      BY <3>1, <3>3 DEF TickSwept
  <2> QED
    BY <2>1, <2>2
<1> QED
  BY <1>4, <1>6, <1>7, <1>8, <1>9, <1>11, <1>13, <1>14, <1>15, <1>16, <1>17,
     <1>18, <1>19, <1>20, <1>21, <1>22 DEF TickStep, Tick

-----------------------------------------------------------------------------
(* The invariant of the sweep.                                             *)
LEMMA SweepInit == Init => SweepInv
<1> SUFFICES ASSUME Init PROVE SweepInv
  OBVIOUS
<1>1. Absent.psvc = 1 /\ Absent.phase = "none"
  BY DEF Absent, NewLedger
<1>2. \A S : Swept(Absent, S)
  BY <1>1, SweptFresh
<1>3. \A t \in Tenants : TenantSwept(t)
  BY <1>2 DEF Init, TenantSwept
<1>4. \A k \in Ticks : TickSwept(k)
  BY <1>1, <1>2 DEF Init, TickSwept
<1> QED
  BY <1>3, <1>4 DEF SweepInv

LEMMA SweepStep ==
  ASSUME TypeInv, NoticeInv, SweepInv, [Next]_vars PROVE SweepInv'
<1>1. Growing
  BY GrowingStep
<1>2. ASSUME NEW k \in Ticks PROVE TickSwept(k)'
  BY <1>1, OthersStay, OthersSwept, MoverSwept DEF SweepInv
<1>3. ASSUME NEW t \in Tenants PROVE TenantSwept(t)'
  <2>1. Swept(ledger'[t], tomb'[t])
    <3>1. tomb[t] \subseteq tomb'[t] /\ Swept(ledger[t], tomb[t])
      BY <1>1 DEF Growing, SweepInv, TenantSwept
    <3>2. CASE SamePlace(ledger'[t], ledger[t])
      BY <3>1, <3>2, SweptKept DEF SamePlace
    <3>3. CASE ledger'[t] = Absent
      <4>1. Absent.psvc = 1 /\ Absent.phase = "none"
        BY DEF Absent, NewLedger
      <4> QED
        BY <3>3, <4>1, SweptFresh
    <3>4. ASSUME NEW k \in Ticks, FromTick(k, t) PROVE Swept(ledger'[t], tomb'[t])
      <4>1. Swept(plan[k], tomb[t])
        BY <3>4 DEF FromTick, SweepInv, TickSwept
      <4> QED
        BY <3>1, <3>4, <4>1, SweptKept DEF FromTick
    <3> QED
      BY <3>2, <3>3, <3>4, LedgerMoves
  <2> DEFINE Empty == /\ Services \subseteq tomb[t]
                      /\ rows[t] \subseteq late[t] /\ t \notin sessions
  <2>2. ws'[t] = "NONE" => Empty'
    <3>0. /\ at \in [Ticks -> Tenants] /\ rows \in [Tenants -> SUBSET Row]
          /\ late \in [Tenants -> SUBSET Row]
          /\ ws \in [Tenants -> {"ACTIVE", "EXPIRED", "ARCHIVING", "NONE"}]
          /\ ws[t] = "NONE" => Empty
          /\ Services \subseteq tomb[t] /\ rows[t] \subseteq late[t]
               => Services \subseteq tomb'[t] /\ rows'[t] \subseteq late'[t]
      BY <1>1 DEF TypeInv, TypeOK, TickOK, DataOK, TenancyOK, SweepInv, TenantSwept,
         Growing
    <3>1. CASE \E u \in Tenants, r \in Row : OwnerWrite(u, r)
      <4>1. ws' = ws /\ sessions' = sessions
        BY <3>1 DEF OwnerWrite, StartWrite, CommitWrite, tenancy
      <4> QED
        BY <3>0, <4>1
    <3>2. CASE \E u \in Tenants : AccessStep(u)
      BY <3>0, <3>2, AccessMoves
    <3>3. CASE \E k \in Ticks : Purge(k) \/ WriteTombstone(k)
      <4>1. ws' = ws /\ sessions' = sessions
        BY <3>3 DEF Purge, WriteTombstone, tenancy
      <4> QED
        BY <3>0, <4>1
    <3>4. ASSUME NEW k \in Ticks, DeleteAccount(k), ws'[t] = "NONE" PROVE Empty'
      <4>1. /\ rows[at[k]] \subseteq late[at[k]] /\ Swept(copy[k], tomb[at[k]])
            /\ copy[k].phase = "purged"
        BY <3>4 DEF DeleteAccount, SweepInv, TickSwept
      <4>2. Services \subseteq tomb[at[k]]
        BY <4>1, SweptAll
      <4> QED
        BY <3>0, <3>4, <4>1, <4>2 DEF DeleteAccount, data
    <3>5. CASE Plain
      BY <3>0, <3>5 DEF Plain
    <3> QED
      BY <3>1, <3>2, <3>3, <3>4, <3>5, Moves
  <2> QED
    BY <2>1, <2>2 DEF TenantSwept
<1> QED
  BY <1>2, <1>3 DEF SweepInv

-----------------------------------------------------------------------------
(* The refinement.                                                         *)
StageOf(t) == IF ws[t] = "NONE" THEN "closed"
              ELSE IF Cleared(t) THEN "noticed" ELSE "kept"
Stage == [t \in Tenants |-> StageOf(t)]
Held  == [t \in Tenants |-> rows[t] \ late[t]]

(* A step that leaves data, access and closed accounts as they are gives   *)
(* notice to some workspaces, or to none.                                  *)
LEMMA PlainNotifies ==
  ASSUME Stable, Plain PROVE \E S \in SUBSET Tenants : Lifecycle!Notice(S)
<1> DEFINE S == {t \in Tenants : Stage'[t] # "kept"}
<1>1. \A t \in Tenants :
        Stage'[t] = IF t \in S /\ Stage[t] = "kept" THEN "noticed" ELSE Stage[t]
  BY DEF Stable, Plain, Stage, StageOf, Cleared, Begun
<1>2. Stage' = [t \in Tenants |-> Stage'[t]]
  BY DEF Stage, StageOf, Cleared, Begun
<1>3. Stage' = [t \in Tenants |->
         IF t \in S /\ Stage[t] = "kept" THEN "noticed" ELSE Stage[t]]
  BY <1>1, <1>2
<1>4. Held' = Held /\ sessions' = sessions
  BY DEF Plain, Held
<1>5. Lifecycle!Notice(S)
  BY <1>3, <1>4 DEF Lifecycle!Notice, Stage, StageOf, Cleared, Begun, Held
<1>6. S \in SUBSET Tenants
  OBVIOUS
<1> HIDE DEF S
<1> QED
  BY <1>5, <1>6 DEF Lifecycle!Notice

(* A step that tells nobody and begins or closes nothing keeps the stages. *)
LEMMA SameStage ==
  ASSUME UNCHANGED <<ledger, ledAge, told>>,
         \A t \in Tenants : ws'[t] = "NONE" <=> ws[t] = "NONE"
  PROVE  Stage' = Stage
BY DEF Stage, StageOf, Cleared, Begun

(* Every step of the saga is one of the lifecycle, or none.                *)
LEMMA LifecycleStep ==
  ASSUME TypeInv, NoticeInv, SweepInv, Stable, [Next]_vars
  PROVE  [Lifecycle!Next]_(Lifecycle!vars)
<1>0. /\ ws \in [Tenants -> {"ACTIVE", "EXPIRED", "ARCHIVING", "NONE"}]
      /\ rows \in [Tenants -> SUBSET Row] /\ late \in [Tenants -> SUBSET Row]
      /\ at \in [Ticks -> Tenants] /\ \A r \in Row : r[1] \in Services
  BY BoundAssumption DEF TypeInv, TypeOK, TenancyOK, DataOK, TickOK
<1>1. ASSUME NEW t \in Tenants, NEW r \in Row, OwnerWrite(t, r)
      PROVE  [Lifecycle!Next]_(Lifecycle!vars)
  <2>1. UNCHANGED <<ws, ledger, ledAge, told, sessions>>
    BY <1>1 DEF OwnerWrite, StartWrite, CommitWrite, tenancy, saga, history
  <2>2. Stage' = Stage
    BY <2>1, SameStage
  <2>3. CASE Held' = Held
    BY <2>1, <2>2, <2>3 DEF Lifecycle!vars, Stage, StageOf, Held
  <2>4. CASE Held' # Held
    <3>1. /\ rows' = [rows EXCEPT ![t] = @ \cup {r}]
          /\ late' = IF r[1] \in tomb[t] /\ r \notin rows[t]
                     THEN [late EXCEPT ![t] = @ \cup {r}] ELSE late
      BY <1>1, <2>4 DEF OwnerWrite, StartWrite, CommitWrite, Held
    <3>2. ~ (r[1] \in tomb[t] /\ r \notin rows[t])
      <4> SUFFICES ASSUME r[1] \in tomb[t], r \notin rows[t] PROVE Held' = Held
        BY <2>4
      <4>1. \A u \in Tenants : rows'[u] \ late'[u] = rows[u] \ late[u]
        BY <1>0, <3>1
      <4> QED
        BY <4>1 DEF Held
    <3>3. late' = late
      BY <3>1, <3>2
    <3>4. r \notin rows[t] /\ r \notin late[t]
      <4> SUFFICES ASSUME r \in rows[t] \/ r \in late[t] PROVE Held' = Held
        BY <2>4
      <4>1. \A u \in Tenants : rows'[u] \ late'[u] = rows[u] \ late[u]
        BY <1>0, <3>1, <3>3
      <4> QED
        BY <4>1 DEF Held
    <3>5. Stage[t] # "closed"
      BY <1>0, <3>2, <3>4 DEF SweepInv, TenantSwept, Stage, StageOf
    <3>6. Held' = [Held EXCEPT ![t] = @ \cup {r}]
      BY <1>0, <3>1, <3>3, <3>4 DEF Held
    <3>7. Lifecycle!Store(t, r)
      BY <2>1, <2>2, <3>5, <3>6 DEF Lifecycle!Store, Stage, StageOf, Held
    <3> QED
      BY <3>7 DEF Lifecycle!Next
  <2> QED
    BY <2>3, <2>4
<1>2. ASSUME NEW t \in Tenants, AccessStep(t)
      PROVE  [Lifecycle!Next]_(Lifecycle!vars)
  <2>1. Stage' = Stage /\ Held' = Held
    BY <1>2, AccessMoves, SameStage DEF Held
  <2>2. CASE sessions' = sessions
    BY <2>1, <2>2 DEF Lifecycle!vars, Stage, StageOf, Held
  <2>3. CASE sessions' = sessions \ {t}
    <3>1. Lifecycle!SignOut(t)
      BY <2>1, <2>3 DEF Lifecycle!SignOut, Stage, StageOf, Held
    <3> QED
      BY <3>1 DEF Lifecycle!Next
  <2>4. CASE ws[t] # "NONE" /\ sessions' = sessions \cup {t}
    <3>1. Stage[t] # "closed"
      BY <2>4 DEF Stage, StageOf
    <3>2. Lifecycle!SignIn(t)
      BY <2>1, <2>4, <3>1 DEF Lifecycle!SignIn, Stage, StageOf, Held
    <3> QED
      BY <3>2 DEF Lifecycle!Next
  <2> QED
    BY <1>2, <2>2, <2>3, <2>4, AccessMoves
<1>3. ASSUME NEW k \in Ticks, Purge(k) \/ WriteTombstone(k)
      PROVE  [Lifecycle!Next]_(Lifecycle!vars)
  <2>1. UNCHANGED <<ws, ledger, ledAge, told, sessions>>
    BY <1>3 DEF Purge, WriteTombstone, tenancy, saga, history
  <2>2. Stage' = Stage
    BY <2>1, SameStage
  <2>3. CASE Held' = Held
    BY <2>1, <2>2, <2>3 DEF Lifecycle!vars, Stage, StageOf, Held
  <2>4. CASE Held' # Held
    <3>0. Purge(k) /\ at[k] \in Tenants
      BY <1>0, <1>3, <2>4 DEF WriteTombstone, Held
    <3> PICK t \in Tenants : t = at[k]
      BY <3>0
    <3>1. PICK gone : /\ rows' = [rows EXCEPT ![t] = @ \ gone]
                      /\ late' = [late EXCEPT ![t] = @ \ gone]
      BY <3>0 DEF Purge
    <3> DEFINE batch == Held[t] \cap gone
    <3>2. Held' = [Held EXCEPT ![t] = @ \ batch]
      <4>1. \A u \in Tenants :
              rows'[u] \ late'[u] = IF u = t THEN (rows[t] \ late[t]) \ gone
                                    ELSE rows[u] \ late[u]
        BY <1>0, <3>1
      <4>2. (rows[t] \ late[t]) \ gone
              = (rows[t] \ late[t]) \ ((rows[t] \ late[t]) \cap gone)
        OBVIOUS
      <4> QED
        BY <4>1, <4>2 DEF Held
    <3>3. batch # {}
      <4> SUFFICES ASSUME batch = {} PROVE Held' = Held
        BY <2>4
      <4>1. \A u \in Tenants : Held'[u] = Held[u]
        BY <3>2 DEF Held
      <4> QED
        BY <4>1 DEF Held
    <3>4. Cleared(t) /\ ws[t] # "NONE"
      <4>1. Cleared(t)
        BY <3>0 DEF Purge, NoticeInv, TickInv
      <4>2. Held[t] # {}
        BY <3>3
      <4> QED
        BY <4>1, <4>2 DEF Held, SweepInv, TenantSwept
    <3>5. Stage[t] = "noticed"
      BY <3>4 DEF Stage, StageOf
    <3>6. PICK b : b = batch
      OBVIOUS
    <3> HIDE DEF batch
    <3>7. Lifecycle!Destroy(t, b)
      BY <2>1, <2>2, <3>2, <3>5, <3>6 DEF Lifecycle!Destroy, Stage, StageOf, Held
    <3>8. b \in SUBSET [u \in Tenants |-> rows[u] \ late[u]][t]
      BY <3>6 DEF Held, batch
    <3>9. \E c \in SUBSET [u \in Tenants |-> rows[u] \ late[u]][t] : Lifecycle!Destroy(t, c)
      BY <3>7, <3>8
    <3> QED
      BY <3>9 DEF Lifecycle!Next
  <2> QED
    BY <2>3, <2>4
<1>4. ASSUME NEW k \in Ticks, DeleteAccount(k), NEW t \in Tenants, t = at[k]
      PROVE  [Lifecycle!Next]_(Lifecycle!vars)
  <2>1. /\ ws' = [ws EXCEPT ![t] = "NONE"]
        /\ sessions' = sessions \ {t}
        /\ Held' = Held
        /\ UNCHANGED <<ledger, ledAge, told>>
    BY <1>0, <1>4 DEF DeleteAccount, data, saga, history, Held
  <2>2. Held[t] = {} /\ Cleared(t)
    BY <1>4 DEF DeleteAccount, SweepInv, TickSwept, NoticeInv, TickInv, Held
  <2>3. Stage' = [Stage EXCEPT ![t] = "closed"]
    BY <1>0, <2>1 DEF Stage, StageOf, Cleared, Begun
  <2>4. CASE ws[t] = "NONE"
    <3>1. Stage' = Stage /\ sessions' = sessions
      BY <2>1, <2>3, <2>4 DEF Stage, StageOf, SweepInv, TenantSwept
    <3> QED
      BY <2>1, <3>1 DEF Lifecycle!vars, Stage, StageOf, Held
  <2>5. CASE ws[t] # "NONE"
    <3>1. Stage[t] = "noticed"
      BY <2>1, <2>2, <2>5 DEF Stage, StageOf
    <3>2. Lifecycle!Close(t)
      BY <2>1, <2>2, <2>3, <3>1 DEF Lifecycle!Close, Stage, StageOf, Held
    <3> QED
      BY <2>1, <3>2 DEF Lifecycle!Next
  <2> QED
    BY <2>4, <2>5
<1>5. CASE Plain
  BY <1>5, PlainNotifies DEF Lifecycle!Next
<1>6. ASSUME NEW k \in Ticks, DeleteAccount(k)
      PROVE  [Lifecycle!Next]_(Lifecycle!vars)
  BY <1>0, <1>4, <1>6
<1> QED
  BY <1>1, <1>2, <1>3, <1>5, <1>6, Moves

(* The staged saga, with all its overlaps, kills and retries, does for     *)
(* every workspace only what TrialLifecycle allows.                        *)
THEOREM LifecycleImplemented == Spec => LifecycleKept
<1>1. Init => Lifecycle!Init
  <2> SUFFICES ASSUME Init PROVE Lifecycle!Init
    OBVIOUS
  <2>1. \A t \in Tenants : /\ ws[t] # "NONE" /\ ~ Begun(t)
                           /\ Cleared(t) <=> t \in Legacy
    BY DEF Init, Begun, Cleared, Absent, NewLedger
  <2>2. \A t \in Tenants :
          StageOf(t) = IF t \in Legacy THEN "noticed" ELSE "kept"
    BY <2>1 DEF StageOf
  <2> QED
    BY <2>2 DEF Init, Lifecycle!Init, StageOf, Held
<1> QED
  BY <1>1, NoticeInit, TypeInit, TypeStep, NoticeStep, SweepInit, SweepStep,
     LifecycleStep, PTL DEF Spec, LifecycleKept, Lifecycle!Spec

----------------------------------------------------------------------------
(***************************************************************************)
(* The archive is whole before anything is purged, and no saga goes back,  *)
(* for every number of workspaces, overlapping ticks, services, rows and   *)
(* parts.                                                                  *)
(*                                                                         *)
(* SagaForward rests on the stamp updated_at: a ledger that still has the  *)
(* stamp a tick read is the ledger it read (StampInv), and a tick that has *)
(* read another is behind (LagInv), so what it writes is refused.          *)
(*                                                                         *)
(* NothingLostUnarchived rests on the path of an export: the spots P[0],   *)
(* P[1], .. (service and cursor) a saga passes, one page apart.  Once the  *)
(* last access token has expired no row is stored (QuietInv), so every     *)
(* tick that reads page i finds what lies between P[i] and P[i + 1] and    *)
(* still exists, or marks the part truncated (StageInv); the parts up to   *)
(* the last spot are therefore all the workspace holds (ExportWhole), and  *)
(* so is each ZIP made of them (KeptInv).                                  *)
(***************************************************************************)

(* Of a set of rows one has the least key.                                 *)
LEMMA LeastKey ==
  ASSUME NEW A, A # {}, \A r \in A : r[2] \in Nat
  PROVE  \E r \in A : \A q \in A : r[2] =< q[2]
<1> DEFINE T == {r[2] : r \in A}
<1>1. T \subseteq Nat /\ T # {}
  OBVIOUS
<1>2. PICK R : R = {p \in Nat \X Nat : p[1] < p[2]}
  OBVIOUS
<1>3. IsWellFoundedOn(R, Nat)
  BY <1>2, NatLessThanWellFounded DEF OpToRel
<1> HIDE DEF T
<1>4. PICK x \in T : \A y \in T : ~ (<<y, x>> \in R)
  BY <1>1, <1>3, WFMin
<1>5. ASSUME NEW y \in T PROVE x =< y
  <2>1. x \in Nat /\ y \in Nat
    BY <1>1
  <2>2. <<y, x>> \in Nat \X Nat /\ <<y, x>>[1] = y /\ <<y, x>>[2] = x
    BY <2>1
  <2>3. ~ (y < x)
    BY <1>2, <1>4, <2>2
  <2> QED
    BY <2>1, <2>3
<1> QED
  BY <1>5 DEF T

(* The first rows of a page's size are all, when they are fewer.           *)
LEMMA SmallPage ==
  ASSUME NEW A, IsFiniteSet(A), \A r \in A : r[2] \in Nat, NEW n \in Nat,
         NEW B, B = {r \in A : Cardinality({q \in A : q[2] < r[2]}) < n},
         Cardinality(B) < n
  PROVE  B = A
<1> SUFFICES ASSUME A \ B # {} PROVE FALSE
  OBVIOUS
<1>1. PICK r \in A \ B : \A q \in A \ B : r[2] =< q[2]
  BY LeastKey
<1>2. {q \in A : q[2] < r[2]} \subseteq B
  <2> SUFFICES ASSUME NEW q \in A, q[2] < r[2], q \notin B PROVE FALSE
    OBVIOUS
  <2>1. r[2] =< q[2] /\ r[2] \in Nat /\ q[2] \in Nat
    BY <1>1
  <2> QED
    BY <2>1
<1>3. PICK C : C = {q \in A : q[2] < r[2]}
  OBVIOUS
<1>4. IsFiniteSet(B) /\ IsFiniteSet(C) /\ Cardinality(C) =< Cardinality(B)
  <2>1. IsFiniteSet(B)
    BY FS_Subset
  <2> QED
    BY <1>2, <1>3, <2>1, FS_Subset
<1>5. Cardinality(C) \in Nat /\ Cardinality(B) \in Nat
  BY <1>4, FS_CardinalityType
<1>6. ~ (Cardinality(C) < n)
  BY <1>1, <1>3
<1> QED
  BY <1>4, <1>5, <1>6

(* The argument for SagaForward.                                           *)

(* A tick that has read a ledger; what it is about to write.               *)
HasRead(k) == copy[k].phase # "none"
Writing == {"stage", "put", "head", "unstage", "unindex", "index", "send", "mailed",
            "stone", "patch"}
Mailing == {"mail", "unindex", "index", "send", "mailed"}

(* A ledger with the stamp that was read is the one that was read, and     *)
(* what a tick is about to write lies ahead of what it read.               *)
StampOf(k) ==
  HasRead(k) =>
    /\ copy[k].upd =< clk
    /\ ledger[at[k]].phase # "none" /\ ledger[at[k]].upd = copy[k].upd
       => ledger[at[k]] = copy[k]
    /\ pc[k] \in Writing =>
         /\ Rank(copy[k].phase) =< Rank(plan[k].phase)
         /\ plan[k].mode = "archive" => copy[k].mode = "archive"
StampInv ==
  (\A t \in Tenants : ledger[t].upd =< clk) /\ (\A k \in Ticks : StampOf(k))

(* Where a tick is, by the ledger it has read.                             *)
PlaceOf(k) ==
  /\ pc[k] \in {"page", "zip", "stage", "put", "head"}
     => copy[k].phase = "exporting" /\ copy[k].mode = "archive"
  /\ pc[k] = "skip" => copy[k].phase = "exporting" /\ copy[k].mode # "archive"
  /\ pc[k] \in {"put", "head"} => plan[k].phase = "exported"
  /\ pc[k] = "zip" => copy[k].svc = N + 1
  /\ pc[k] = "stage" => copy[k].svc =< N
  /\ pc[k] \in Mailing => copy[k].phase = "exported"
  /\ pc[k] \in {"create", "count", "mark"} => ~ HasRead(k)
  /\ pc[k] \in {"create", "count"} =>
       /\ plan[k].svc = 1 /\ plan[k].cursor = 0 /\ plan[k].parts = 0
       /\ (plan[k].phase = "exporting" \/ plan[k].mode = "no_archive")
PlaceInv == \A k \in Ticks : PlaceOf(k)

(* A tick lags behind its saga, which has lost no archive since, or the    *)
(* account is gone.                                                        *)
LagOf(k) ==
  HasRead(k) =>
    \/ ws[at[k]] = "NONE"
    \/ /\ ledger[at[k]].phase # "none"
       /\ Rank(copy[k].phase) =< Rank(ledger[at[k]].phase)
       /\ ledger[at[k]].mode = "archive" => copy[k].mode = "archive"
LagInv == \A k \in Ticks : LagOf(k)

-----------------------------------------------------------------------------
(* The argument for NothingLostUnarchived.                                 *)

(* Nothing is stored any more: every access token has expired, and the     *)
(* requests that it let in are over.                                       *)
Quiet(t) == ws[t] # "ACTIVE" /\ age[t] >= Grace

(* Its saga has begun, or a tick is about to open it.                      *)
Opened(t) == ws[t] = "NONE" \/ t \in Archiving

QuietOf(t) ==
  /\ t \notin moved => (Opened(t) => Quiet(t)) /\ late[t] = {}
  /\ tomb[t] # {} => Begun(t)
  /\ ws[t] = "ACTIVE" => age[t] = 0

(* A request that is under way has, or had lately, a valid token.          *)
InTime(w) == ws[w[1]] # "ACTIVE" => age[w[1]] < Grace

QuietInv ==
  /\ \A t \in Tenants : QuietOf(t)
  /\ \A w \in writes : InTime(w)
  /\ ~ AdminExtends => moved = {}

(* Where an export stands: the service and the cursor in it.  r comes      *)
(* before p; r is what is exported between p and q.                        *)
Spot == [svc : 1..(N + 1), cursor : Nat]
SpotOf(led) == [svc |-> led.svc, cursor |-> led.cursor]
FirstSpot == [svc |-> 1, cursor |-> 0]

Before(r, p) ==
  \E j \in 1..N : /\ ExportOrder[j] = r[1]
                  /\ j < p.svc \/ (j = p.svc /\ r[2] =< p.cursor)
Between(r, p, q) ==
  /\ r[1] = ExportOrder[p.svc] /\ r[2] > p.cursor
  /\ q.svc = p.svc => r[2] =< q.cursor

(* The rows from p on; one page takes part i of t's export from p to q.    *)
From(t, p) == {r \in RowsOf(t, ExportOrder[p.svc]) : r[2] > p.cursor}

Follows(t, p, i, q) ==
  LET s == ExportOrder[p.svc]
      page == ExportPage(t, s, p.cursor)
  IN  /\ p.svc =< N
      /\ \E next \in NextCursor(s, page) :
           q = IF next # 0 /\ ~ IsLastAllowedPart(p.svc, i)
               THEN [svc |-> p.svc, cursor |-> next]
               ELSE [svc |-> p.svc + 1, cursor |-> 0]

(* What stays true of p and q while rows are purged: a page from p still   *)
(* reaches q, or is marked truncated.                                      *)
Reaches(t, p, i, q) ==
  /\ p.svc =< N
  /\ \/ /\ q.svc = p.svc /\ ExportOrder[p.svc] \in Paged
        /\ Cardinality({r \in From(t, p) : r[2] < q.cursor}) < PageRows
     \/ /\ q.svc = p.svc + 1 /\ q.cursor = 0
        /\ \/ ExportOrder[p.svc] \notin Paged \/ IsLastAllowedPart(p.svc, i)
           \/ Cardinality(From(t, p)) < PageRows

(* The spots P[0], .. P[n] an export has passed: between them lies all     *)
(* that comes before them.                                                 *)
Path(P, n) ==
  /\ P \in [0..n -> Spot] /\ P[0] = FirstSpot
  /\ \A m \in 0..n, r \in Row : Before(r, P[m]) =>
       \E i \in 0..(m - 1) : Between(r, P[i], P[i + 1])

OnPath(led, P, n) == led.parts \in 0..n /\ P[led.parts] = SpotOf(led)

(* An object has what t still holds of part i.                             *)
Covers(t, c, P, i) ==
  c.cut \/ \A r \in rows[t] : Between(r, P[i], P[i + 1]) => r \in c.rows

Exports(led) == led.phase = "exporting" /\ led.mode = "archive"

TickExports(k, P, n) ==
  /\ Exports(copy[k]) => OnPath(copy[k], P, n)
  /\ /\ pc[k] \in {"stage", "unstage", "patch"} /\ Exports(plan[k])
     /\ ledger[at[k]] = copy[k]
     => OnPath(plan[k], P, n)
  /\ pc[k] = "stage" => copy[k].parts < n /\ Covers(at[k], buf[k], P, copy[k].parts)

Exported(t, P, n) ==
  /\ Path(P, n)
  /\ \A i \in 0..(n - 1) : Reaches(t, P[i], i, P[i + 1])
  /\ Exports(ledger[t]) => /\ OnPath(ledger[t], P, n)
                           /\ \A i \in 0..(n - 1) : Follows(t, P[i], i, P[i + 1])
  /\ \A k \in Ticks : at[k] = t => TickExports(k, P, n)
  /\ \A i \in 0..MaxParts : staging[t][i].here =>
       i < n /\ Covers(t, staging[t][i], P, i)

StagedOf(t) ==
  ws[t] # "NONE" => IF ledger[t].phase = "none" THEN staging[t] = NoParts
                    ELSE \E n \in Nat : \E P : Exported(t, P, n)
StageInv == \A t \in Tenants : StagedOf(t)

(* A packed ledger owes the ZIP, which has what t still holds.             *)
Packed == {"exported"} \cup Late
Owed(led) == led.phase \in Packed /\ led.mode = "archive"
Kept(t) == zipped[t].cut \/ rows[t] \subseteq zipped[t].rows

KeptInv ==
  /\ \A t \in Tenants : Owed(ledger[t]) => Kept(t)
  /\ \A k \in Ticks :
       /\ Owed(copy[k]) => Kept(at[k])
       /\ pc[k] \in Writing \ {"put"} /\ Owed(plan[k]) => Kept(at[k])
       /\ pc[k] = "put" => buf[k].cut \/ rows[at[k]] \subseteq buf[k].rows


-----------------------------------------------------------------------------
(* What a step does to a ledger ...                                        *)
SameLedger(new, led) ==
  /\ new.phase = led.phase /\ new.mode = led.mode
  /\ new.svc = led.svc /\ new.cursor = led.cursor /\ new.parts = led.parts

Written(t, led) == ledger'[t].upd = clk + 1 /\ clk' = clk + 1 /\ SameLedger(ledger'[t], led)

LedgerStep(t) ==
  \/ ledger'[t] = ledger[t] /\ clk' >= clk
  \/ ledger'[t] = Absent /\ ws[t] = "NONE" /\ clk' >= clk
  \/ ledger[t].phase # "none" /\ Written(t, ledger[t])
  \/ \E k \in Ticks : /\ at[k] = t /\ pc[k] = "create" /\ ledger[t].phase = "none"
                      /\ Written(t, plan[k])
  \/ \E k \in Ticks : /\ at[k] = t /\ pc[k] = "patch" /\ ledger[t].phase # "none"
                      /\ ledger[t].upd = copy[k].upd /\ Written(t, plan[k])

(* ... one of these, for every step.                                       *)
LEMMA LedgerSteps ==
  ASSUME TypeInv, NoticeInv, [Next]_vars, NEW t \in Tenants
  PROVE  LedgerStep(t)
<1>0. /\ ledger \in [Tenants -> Ledger] /\ at \in [Ticks -> Tenants] /\ clk \in Nat
      /\ plan \in [Ticks -> Ledger]
      /\ \A led \in Ledger : /\ SameLedger([led EXCEPT !.upd = clk + 1], led)
                             /\ [led EXCEPT !.upd = clk + 1].upd = clk + 1
  BY DEF TypeInv, TypeOK, SagaOK, TickOK, Ledger, SameLedger
<1>1. ASSUME NEW k \in Ticks, Create(k) \/ Patch(k) PROVE LedgerStep(t)
  <2> DEFINE new == [plan[k] EXCEPT !.upd = clk + 1]
  <2>1. \/ UNCHANGED <<ledger, clk>>
        \/ /\ ledger' = [ledger EXCEPT ![at[k]] = new] /\ clk' = clk + 1
           /\ \/ pc[k] = "create" /\ ledger[at[k]].phase = "none"
              \/ /\ pc[k] = "patch" /\ ledger[at[k]].phase # "none"
                 /\ ledger[at[k]].upd = copy[k].upd
    BY <1>1 DEF Create, Patch
  <2>2. SameLedger(new, plan[k]) /\ new.upd = clk + 1
    BY <1>0
  <2> HIDE DEF new
  <2>3. CASE UNCHANGED <<ledger, clk>> \/ at[k] # t
    BY <1>0, <2>1, <2>3 DEF LedgerStep
  <2>4. CASE ~ UNCHANGED <<ledger, clk>> /\ at[k] = t
    <3>1. ledger'[t] = new /\ clk' = clk + 1
      BY <1>0, <2>1, <2>4
    <3>2. Written(t, plan[k])
      BY <2>2, <3>1 DEF Written, SameLedger
    <3> QED
      BY <2>1, <2>4, <3>2 DEF LedgerStep
  <2> QED
    BY <2>3, <2>4
<1>2. ASSUME NEW k \in Ticks, Catch(k) PROVE LedgerStep(t)
  <2> DEFINE new == [ledger[at[k]] EXCEPT !.upd = clk + 1]
  <2>1. \/ UNCHANGED <<ledger, clk>>
        \/ /\ ledger' = [ledger EXCEPT ![at[k]] = new] /\ clk' = clk + 1
           /\ ledger[at[k]].phase # "none"
    BY <1>2 DEF Catch
  <2>2. SameLedger(new, ledger[at[k]]) /\ new.upd = clk + 1
    BY <1>0
  <2> HIDE DEF new
  <2>3. CASE UNCHANGED <<ledger, clk>> \/ at[k] # t
    BY <1>0, <2>1, <2>3 DEF LedgerStep
  <2>4. CASE ~ UNCHANGED <<ledger, clk>> /\ at[k] = t
    <3>1. ledger'[t] = new /\ clk' = clk + 1
      BY <1>0, <2>1, <2>4
    <3>2. Written(t, ledger[t])
      BY <2>2, <2>4, <3>1 DEF Written, SameLedger
    <3> QED
      BY <2>1, <2>4, <3>2 DEF LedgerStep
  <2> QED
    BY <2>3, <2>4
<1>3. ASSUME NEW u \in Tenants, DropIndex(u), UNCHANGED clk PROVE LedgerStep(t)
  <2>1. ledger[t].phase = "account_deleted" => ws[t] = "NONE"
    BY DEF NoticeInv, TenantInv
  <2>2. \/ ledger'[t] = ledger[t]
        \/ ledger'[t] = Absent /\ ledger[t].phase = "account_deleted"
    BY <1>0, <1>3 DEF DropIndex
  <2> QED
    BY <1>0, <1>3, <2>1, <2>2 DEF LedgerStep
<1>4. ASSUME NEW k \in Ticks, MailZipGone(k) PROVE LedgerStep(t)
  BY <1>0, <1>3, <1>4 DEF MailZipGone
<1>5. ASSUME NEW d \in Deleters, DeleteIndex(d) PROVE LedgerStep(t)
  <2>1. dat[d] \in Tenants
    BY DEF TypeInv, TypeOK, DeletesOK
  <2> QED
    BY <1>3, <1>5, <2>1 DEF DeleteIndex
<1>6. ASSUME NEW k \in Ticks, DeleteLedger(k) PROVE LedgerStep(t)
  <2>1. ws[at[k]] = "NONE"
    BY <1>6 DEF DeleteLedger, NoticeInv, TickInv
  <2> QED
    BY <1>0, <1>6, <2>1 DEF DeleteLedger, LedgerStep
<1>7. ASSUME DeleteOrphans PROVE LedgerStep(t)
  <2>1. ledger[t].phase = "account_deleted" => ws[t] = "NONE"
    BY DEF NoticeInv, TenantInv
  <2> QED
    BY <1>0, <1>7, <2>1 DEF DeleteOrphans, LedgerStep
<1>8. UNCHANGED <<ledger, clk>> => LedgerStep(t)
  BY <1>0 DEF LedgerStep
<1>9. ASSUME NEW k \in Ticks, Tick(k), ~ Create(k), ~ Patch(k), ~ Catch(k),
             ~ MailZipGone(k), ~ DeleteLedger(k)
      PROVE  UNCHANGED <<ledger, clk>>
  <2>1. CASE ReadLedger(k) \/ Start(k) \/ Count(k) \/ Mark(k) \/ SkipExport(k)
             \/ ReadPage(k) \/ StagePart(k) \/ ReadParts(k)
    BY <2>1 DEF ReadLedger, Start, Count, Mark, SkipExport, ReadPage, StagePart,
       ReadParts, saga
  <2>2. CASE PutZip(k) \/ HeadZip(k) \/ Unstage(k) \/ Mail(k) \/ UpsertIndex(k)
             \/ Send(k) \/ MailResult(k)
    BY <2>2 DEF PutZip, HeadZip, Unstage, Mail, UpsertIndex, Send, MailResult, saga
  <2>3. CASE DeleteAccount(k) \/ KeepLedger(k)
    BY <2>3 DEF DeleteAccount, KeepLedger, saga
  <2>4. CASE Purge(k) \/ WriteTombstone(k)
    BY <2>4 DEF Purge, WriteTombstone, saga
  <2>5. CASE Verify(k)
    BY <2>5, Zenon DEF Verify, saga
  <2> QED
    BY <1>9, <2>1, <2>2, <2>3, <2>4, <2>5 DEF Tick
<1>10. ASSUME NEW k \in Ticks, PurgeBudget(k) \/ Throw(k) \/ Die(k)
       PROVE  UNCHANGED <<ledger, clk>>
  BY <1>10 DEF PurgeBudget, Throw, Die, saga
<1>11. ASSUME NEW u \in Tenants, (\E r \in Row : OwnerWrite(u, r)) \/ SignIn(u)
              \/ EndTrial(u) \/ SetTrialExpiry(u) \/ DeleteUserEnd(u)
              \/ DeleteUserDies(u) \/ BucketRule(u)
       PROVE  UNCHANGED <<ledger, clk>>
  BY <1>11 DEF OwnerWrite, StartWrite, CommitWrite, SignIn, EndTrial, SetTrialExpiry, DeleteUserEnd,
     DeleteUserDies, BucketRule, saga
<1>12. ASSUME NEW u \in Tenants, NEW m, DeleteUser(u, m) PROVE UNCHANGED <<ledger, clk>>
  BY <1>12 DEF DeleteUser, saga
<1>13. ASSUME NEW d \in Deleters, DeleteZip(d) \/ DeleteDies(d)
       PROVE  UNCHANGED <<ledger, clk>>
  BY <1>13 DEF DeleteZip, DeleteDies, saga
<1>14. ASSUME NEW d \in Deleters, NEW u \in Tenants, FindArchive(d, u)
       PROVE  UNCHANGED <<ledger, clk>>
  BY <1>14 DEF FindArchive, saga
<1>15. Advance \/ UNCHANGED vars => UNCHANGED <<ledger, clk>>
  BY DEF Advance, vars, saga
<1> QED
  BY <1>1, <1>2, <1>4, <1>5, <1>6, <1>7, <1>8, <1>9, <1>10, <1>11, <1>12, <1>13,
     <1>14, <1>15 DEF Next

(* ... and to the rows a tick holds that it leaves alone.                  *)
LEMMA Alone ==
  ASSUME TypeInv, [Next]_vars, NEW j \in Ticks
  PROVE  (SameTick(j) /\ buf'[j] = buf[j]) \/ TickStep(j)
<1>1. buf \in [Ticks -> Content]
  BY DEF TypeInv, TypeOK, TickOK
<1>2. ASSUME NEW k \in Ticks, k # j, TickStep(k) PROVE buf'[j] = buf[j]
  <2>1. CASE ReadLedger(k) \/ Start(k) \/ Count(k) \/ Create(k) \/ Mark(k)
             \/ SkipExport(k) \/ ReadPage(k) \/ StagePart(k)
    BY <1>1, <1>2, <2>1 DEF ReadLedger, Start, Count, Create, Mark, SkipExport, ReadPage,
       StagePart, Return
  <2>2. CASE ReadParts(k) \/ PutZip(k) \/ HeadZip(k) \/ Unstage(k) \/ Mail(k)
             \/ MailZipGone(k) \/ UpsertIndex(k) \/ Send(k) \/ MailResult(k)
    BY <1>1, <1>2, <2>2 DEF ReadParts, PutZip, HeadZip, Unstage, Mail, MailZipGone, UpsertIndex,
       Send, MailResult
  <2>3. CASE Purge(k) \/ WriteTombstone(k) \/ DeleteAccount(k) \/ KeepLedger(k)
             \/ DeleteLedger(k) \/ Patch(k) \/ Catch(k)
    BY <1>1, <1>2, <2>3 DEF Purge, WriteTombstone, DeleteAccount, KeepLedger,
       DeleteLedger, Patch, Catch, Return
  <2>5. CASE Verify(k)
    BY <1>1, <1>2, <2>5, Zenon DEF Verify
  <2>4. CASE PurgeBudget(k) \/ Throw(k) \/ Die(k)
    BY <1>1, <1>2, <2>4 DEF PurgeBudget, Throw, Die, Return
  <2> QED
    BY <1>2, <2>1, <2>2, <2>3, <2>4, <2>5 DEF TickStep, Tick
<1> DEFINE locals == <<pc, at, copy, plan, buf, ok>>
<1>3. (\E k \in Ticks : TickStep(k)) \/ UNCHANGED locals
  <2>1. ASSUME NEW u \in Tenants, (\E r \in Row : OwnerWrite(u, r)) \/ SignIn(u)
               \/ EndTrial(u) \/ SetTrialExpiry(u) \/ DeleteUserEnd(u)
               \/ DeleteUserDies(u) \/ BucketRule(u)
        PROVE  UNCHANGED locals
    BY <2>1 DEF OwnerWrite, StartWrite, CommitWrite, SignIn, EndTrial, SetTrialExpiry, DeleteUserEnd,
       DeleteUserDies, BucketRule, tick
  <2>2. ASSUME NEW u \in Tenants, NEW m, DeleteUser(u, m) PROVE UNCHANGED locals
    BY <2>2 DEF DeleteUser, tick
  <2>3. ASSUME NEW d \in Deleters, DeleteZip(d) \/ DeleteIndex(d) \/ DeleteDies(d)
        PROVE  UNCHANGED locals
    BY <2>3 DEF DeleteZip, DeleteIndex, DeleteDies, tick
  <2>4. ASSUME NEW d \in Deleters, NEW u \in Tenants, FindArchive(d, u)
        PROVE  UNCHANGED locals
    BY <2>4 DEF FindArchive, tick
  <2>5. DeleteOrphans \/ Advance \/ UNCHANGED vars => UNCHANGED locals
    BY DEF DeleteOrphans, Advance, vars, tick
  <2> QED
    BY <2>1, <2>2, <2>3, <2>4, <2>5 DEF Next, TickStep
<1> QED
  BY <1>2, <1>3, OthersStay

-----------------------------------------------------------------------------
(* What a step of tick k does to its local state: it returns ...           *)
Back(k) == /\ pc'[k] = "idle" /\ at'[k] = AnyTenant
           /\ copy'[k] = Absent /\ plan'[k] = Absent /\ buf'[k] = Gone

(* ... reads a ledger, or finds none ...                                   *)
Begins(k) ==
  /\ pc[k] = "idle" /\ plan'[k] = plan[k] /\ buf'[k] = buf[k]
  /\ \/ pc'[k] = "start" /\ at'[k] = at[k] /\ copy'[k] = copy[k]
     \/ \E t \in Unfinished : /\ at'[k] = t /\ copy'[k] = ledger[t]
                              /\ pc'[k] = StepOf(ledger[t])

(* ... opens a saga ...                                                    *)
Opens(k) ==
  /\ \/ pc[k] = "start" /\ pc'[k] \in {"count", "create"} /\ at'[k] \in Candidates
     \/ pc[k] = "count" /\ pc'[k] = "create" /\ at'[k] = at[k]
  /\ copy'[k] = copy[k] /\ buf'[k] = buf[k]
  /\ \/ \E m \in Modes : plan'[k] = NewLedger("exporting", m)
     \/ plan'[k] = NewLedger("mailed", "no_archive")

(* ... goes on to its next call, to "head" once the ZIP is put ...         *)
Hops(k) ==
  /\ at'[k] = at[k] /\ copy'[k] = copy[k] /\ plan'[k] = plan[k] /\ buf'[k] = buf[k]
  /\ \/ /\ pc[k] \notin {"idle", "start", "count", "create", "mark", "catch"}
        /\ pc'[k] = "catch"
     \/ <<pc[k], pc'[k]>> \in
          {<<"create", "mark">>, <<"stage", "patch">>, <<"put", "head">>,
           <<"head", "unstage">>, <<"unstage", "patch">>, <<"unindex", "send">>,
           <<"index", "send">>, <<"send", "mailed">>, <<"stone", "patch">>,
           <<"verify", "account">>, <<"account", "keep">>, <<"keep", "forget">>}
  /\ pc'[k] = "head" => PutZip(k)

(* ... or decides what to write: from the call it makes and the ledger it  *)
(* has read, the next call and the phase and mode to write.                *)
Drafts(k, from, to, phase, mode) ==
  /\ pc[k] = from /\ pc'[k] = to /\ at'[k] = at[k] /\ copy'[k] = copy[k]
  /\ plan'[k].phase = phase /\ plan'[k].mode = mode

Decides(k) ==
  LET led == copy[k] IN
  \/ Drafts(k, "skip", "patch", "exported", led.mode)
  \/ Drafts(k, "page", "stage", led.phase, led.mode) /\ ReadPage(k)
  \/ Drafts(k, "zip", "put", "exported", led.mode) /\ ReadParts(k)
  \/ Drafts(k, "zip", "unstage", led.phase, led.mode) /\ ReadParts(k)
  \/ Drafts(k, "mail", "unindex", led.phase, "no_archive")
  \/ \E to \in {"index", "send"} : Drafts(k, "mail", to, led.phase, led.mode)
  \/ \E p \in {"mailed", plan[k].phase} : Drafts(k, "mailed", "patch", p, plan[k].mode)
  \/ \E to \in {"stone", "patch"}, p \in {"purging", "purged"} :
       Drafts(k, "purge", to, p, led.mode) /\ Purge(k)
  \/ Drafts(k, "verify", "patch", "purging", led.mode)
  \/ Drafts(k, "keep", "patch", "account_deleted", led.mode)

(* Every step of tick k is one of these.                                   *)
LEMMA TickTable ==
  ASSUME TypeInv, NEW k \in Ticks, TickStep(k)
  PROVE  Back(k) \/ Begins(k) \/ Opens(k) \/ Hops(k) \/ Decides(k)
<1>0. /\ pc \in [Ticks -> Calls] /\ at \in [Ticks -> Tenants]
      /\ copy \in [Ticks -> Ledger] /\ plan \in [Ticks -> Ledger]
      /\ buf \in [Ticks -> Content]
  BY DEF TypeInv, TypeOK, TickOK
<1> PICK led : led = copy[k]
  OBVIOUS
<1>00. led \in Ledger /\ plan[k] \in Ledger /\ led = copy[k]
  BY <1>0
<1>1. CASE Mark(k) \/ DeleteLedger(k) \/ Patch(k) \/ Catch(k) \/ PurgeBudget(k) \/ Die(k)
  BY <1>0, <1>1 DEF Mark, DeleteLedger, Patch, Catch, PurgeBudget, Die, Return, Back
<1>2. CASE ReadLedger(k)
  BY <1>0, <1>2 DEF ReadLedger, Goto, Begins
<1>3. CASE Start(k)
  <2>1. CASE Candidates = {}
    BY <1>0, <1>3, <2>1 DEF Start, Return, Back
  <2>2. CASE Candidates # {}
    <3>1. pc[k] = "start" /\ UNCHANGED <<copy, buf>>
      BY <1>3, <2>2 DEF Start
    <3>2. PICK t \in Candidates :
            /\ at' = [at EXCEPT ![k] = t]
            /\ \/ /\ plan' = [plan EXCEPT ![k] = NewLedger("mailed", "no_archive")]
                  /\ Goto(k, "create")
               \/ /\ plan' = [plan EXCEPT ![k] =
                               NewLedger("exporting", ChooseMode(delMode[t], 1))]
                  /\ Goto(k, "count")
      BY <1>3, <2>2 DEF Start
    <3>3. ChooseMode(delMode[t], 1) \in Modes
      BY ChooseModeType
    <3> QED
      BY <1>0, <3>1, <3>2, <3>3 DEF Opens, Goto
  <2> QED
    BY <2>1, <2>2
<1>4. CASE Count(k)
  <2>1. PICK m : /\ m \in Modes
                 /\ plan' = [plan EXCEPT ![k] = NewLedger("exporting", m)]
    BY <1>4, ChooseModeType DEF Count
  <2> QED
    BY <1>0, <1>4, <2>1 DEF Count, Opens, Goto
<1>5. CASE Create(k)
  BY <1>0, <1>5 DEF Create, Return, Goto, Back, Hops
<1>6. CASE StagePart(k) \/ PutZip(k) \/ HeadZip(k) \/ Unstage(k)
  <2>1. /\ UNCHANGED <<at, copy, plan, buf>>
        /\ \/ pc[k] = "stage" /\ pc'[k] = "patch"
           \/ pc[k] = "put" /\ pc'[k] = "head" /\ PutZip(k)
           \/ pc[k] = "head" /\ pc'[k] \in {"unstage", "catch"}
           \/ pc[k] = "unstage" /\ pc'[k] = "patch"
    BY <1>0, <1>6 DEF StagePart, PutZip, HeadZip, Unstage, Goto
  <2> QED
    BY <2>1 DEF Hops
<1>7. CASE MailZipGone(k) \/ UpsertIndex(k) \/ Send(k) \/ WriteTombstone(k) \/ DeleteAccount(k)
  <2>1. /\ UNCHANGED <<at, copy, plan, buf>>
        /\ \/ pc[k] = "unindex" /\ pc'[k] = "send"
           \/ pc[k] = "index" /\ pc'[k] = "send"
           \/ pc[k] = "send" /\ pc'[k] = "mailed"
           \/ pc[k] = "stone" /\ pc'[k] = "patch"
           \/ pc[k] = "account" /\ pc'[k] = "keep"
    BY <1>0, <1>7 DEF MailZipGone, UpsertIndex, Send, WriteTombstone, DeleteAccount, Goto
  <2> QED
    BY <2>1 DEF Hops
<1>8. CASE Throw(k)
  BY <1>0, <1>8 DEF Throw, Goto, Hops
<1>9. CASE SkipExport(k)
  <2>1. /\ plan'[k] = [led EXCEPT !.phase = "exported"] /\ UNCHANGED <<at, copy>>
        /\ pc[k] = "skip" /\ pc'[k] = "patch"
    BY <1>0, <1>00, <1>9 DEF SkipExport, PlanPatch, Goto
  <2>2. plan'[k].phase = "exported" /\ plan'[k].mode = led.mode
    BY <1>00, <2>1 DEF Ledger
  <2>3. Drafts(k, "skip", "patch", "exported", led.mode)
    BY <2>1, <2>2 DEF Drafts
  <2> QED
    BY <1>00, <2>3 DEF Decides
<1>10. CASE ReadPage(k)
  <2>1. /\ UNCHANGED <<at, copy>> /\ pc[k] = "page" /\ pc'[k] = "stage"
        /\ \E i : plan'[k] = AdvanceExport([led EXCEPT !.parts = @ + 1], i)
    BY <1>0, <1>00, <1>10 DEF ReadPage, Goto
  <2>2. PICK i : plan'[k] = AdvanceExport([led EXCEPT !.parts = @ + 1], i)
    BY <2>1
  <2>3. PICK more : more = [led EXCEPT !.parts = @ + 1]
    OBVIOUS
  <2>4. /\ more \in [phase: Phases \cup {"none"}, mode: Modes, svc: 1..(N + 1),
                     cursor: Nat, parts: Nat, psvc: 1..N, upd: Nat]
        /\ more.phase = led.phase /\ more.mode = led.mode
    BY <1>00, <2>3 DEF Ledger
  <2>5. plan'[k].phase = led.phase /\ plan'[k].mode = led.mode
    BY <2>2, <2>3, <2>4 DEF AdvanceExport
  <2>6. Drafts(k, "page", "stage", led.phase, led.mode)
    BY <2>1, <2>5 DEF Drafts
  <2> QED
    BY <1>00, <1>10, <2>6 DEF Decides
<1>11. CASE ReadParts(k)
  <2>1. /\ UNCHANGED <<at, copy>> /\ pc[k] = "zip"
        /\ \/ plan'[k] = [led EXCEPT !.phase = "exported"] /\ pc'[k] = "put"
           \/ /\ plan'[k] = [led EXCEPT !.svc = 1, !.cursor = 0, !.parts = 0]
              /\ pc'[k] = "unstage"
    BY <1>0, <1>00, <1>11 DEF ReadParts, Goto
  <2>2. CASE plan'[k] = [led EXCEPT !.phase = "exported"] /\ pc'[k] = "put"
    <3>1. plan'[k].phase = "exported" /\ plan'[k].mode = led.mode
      BY <1>00, <2>2 DEF Ledger
    <3>2. Drafts(k, "zip", "put", "exported", led.mode)
      BY <2>1, <2>2, <3>1 DEF Drafts
    <3> QED
      BY <1>00, <1>11, <3>2 DEF Decides
  <2>3. CASE /\ plan'[k] = [led EXCEPT !.svc = 1, !.cursor = 0, !.parts = 0]
             /\ pc'[k] = "unstage"
    <3>1. plan'[k].phase = led.phase /\ plan'[k].mode = led.mode
      BY <1>00, <2>3 DEF Ledger
    <3>2. Drafts(k, "zip", "unstage", led.phase, led.mode)
      BY <2>1, <2>3, <3>1 DEF Drafts
    <3> QED
      BY <1>00, <1>11, <3>2 DEF Decides
  <2> QED
    BY <2>1, <2>2, <2>3
<1>12. CASE Mail(k)
  <2>1. /\ UNCHANGED <<at, copy>> /\ pc[k] = "mail"
        /\ \/ plan'[k] = [led EXCEPT !.mode = "no_archive"] /\ pc'[k] = "unindex"
           \/ plan'[k] = led /\ pc'[k] \in {"index", "send"}
    BY <1>0, <1>00, <1>12 DEF Mail, Goto
  <2>2. CASE plan'[k] = [led EXCEPT !.mode = "no_archive"] /\ pc'[k] = "unindex"
    <3>1. plan'[k].phase = led.phase /\ plan'[k].mode = "no_archive"
      BY <1>00, <2>2 DEF Ledger
    <3>2. Drafts(k, "mail", "unindex", led.phase, "no_archive")
      BY <2>1, <2>2, <3>1 DEF Drafts
    <3> QED
      BY <1>00, <3>2 DEF Decides
  <2>3. CASE plan'[k] = led /\ pc'[k] \in {"index", "send"}
    BY <1>00, <2>1, <2>3 DEF Drafts, Decides
  <2> QED
    BY <2>1, <2>2, <2>3
<1>13. CASE MailResult(k)
  <2>1. /\ UNCHANGED <<at, copy>> /\ pc[k] = "mailed" /\ pc'[k] = "patch"
        /\ plan'[k] = [plan[k] EXCEPT !.phase = "mailed"] \/ plan'[k] = plan[k]
    BY <1>0, <1>13 DEF MailResult, PlanPatch, Goto
  <2>2. plan'[k].phase \in {"mailed", plan[k].phase} /\ plan'[k].mode = plan[k].mode
    BY <1>00, <2>1 DEF Ledger
  <2> QED
    BY <2>1, <2>2 DEF Drafts, Decides
<1>14. CASE Purge(k)
  <2>1. /\ UNCHANGED <<at, copy>> /\ pc[k] = "purge" /\ pc'[k] \in {"stone", "patch"}
        /\ \E d : plan'[k] = AdvancePurge(led, d)
    BY <1>0, <1>00, <1>14 DEF Purge, Goto
  <2>2. PICK d : plan'[k] = AdvancePurge(led, d)
    BY <2>1
  <2>3. plan'[k].phase \in {"purging", "purged"} /\ plan'[k].mode = led.mode
    <3>1. PICK mid : mid = [led EXCEPT !.phase = "purging"]
      OBVIOUS
    <3>2. mid \in Ledger /\ mid.phase = "purging" /\ mid.mode = led.mode
      BY <1>00, <3>1 DEF Ledger, Phases
    <3>3. PICK new : new = [mid EXCEPT !.psvc = @ + 1]
      OBVIOUS
    <3>4. new.phase = "purging" /\ new.mode = led.mode
      BY <3>2, <3>3 DEF Ledger
    <3>5. [led EXCEPT !.phase = "purging", !.psvc = @ + 1] = new
      BY <1>00, <3>1, <3>3 DEF Ledger
    <3>6. PICK end : end = [led EXCEPT !.phase = "purged"]
      OBVIOUS
    <3>7. end.phase = "purged" /\ end.mode = led.mode
      BY <1>00, <3>6 DEF Ledger
    <3> QED
      BY <2>2, <3>1, <3>2, <3>4, <3>5, <3>6, <3>7 DEF AdvancePurge
  <2> QED
    BY <1>00, <1>14, <2>1, <2>3 DEF Drafts, Decides
<1>15. CASE Verify(k)
  <2>1. /\ UNCHANGED <<at, copy, buf>> /\ pc[k] = "verify"
        /\ \/ pc'[k] = "account" /\ plan' = plan
           \/ /\ pc'[k] = "patch"
              /\ \E i : plan'[k] = [led EXCEPT !.phase = "purging", !.psvc = i]
    BY <1>0, <1>00, <1>15, ZenonT(40) DEF Verify, PlanPatch, Goto
  <2>2. UNCHANGED <<at, copy, buf>> /\ pc[k] = "verify"
    BY <2>1, Zenon
  <2>3. CASE pc'[k] = "account" /\ plan' = plan
    BY <2>2, <2>3 DEF Hops
  <2>4. ASSUME pc'[k] = "patch", NEW i,
               plan'[k] = [led EXCEPT !.phase = "purging", !.psvc = i]
        PROVE  Decides(k)
    <3>1. plan'[k].phase = "purging" /\ plan'[k].mode = led.mode
      BY <1>00, <2>4 DEF Ledger
    <3>2. pc'[k] = "patch"
      BY <2>4, Zenon
    <3>3. Drafts(k, "verify", "patch", "purging", led.mode)
      BY <2>2, <3>1, <3>2 DEF Drafts
    <3> QED
      BY <1>00, <3>3 DEF Decides
  <2> QED
    BY <2>1, <2>3, <2>4, Zenon
<1>16. CASE KeepLedger(k)
  <2>1. /\ UNCHANGED <<at, copy, buf>> /\ pc[k] = "keep"
        /\ \/ pc'[k] = "forget" /\ plan' = plan
           \/ /\ pc'[k] = "patch"
              /\ plan'[k] = [led EXCEPT !.phase = "account_deleted"]
    BY <1>0, <1>00, <1>16 DEF KeepLedger, PlanPatch, Goto
  <2>2. CASE pc'[k] = "forget" /\ plan' = plan
    BY <2>1, <2>2 DEF Hops
  <2>3. CASE pc'[k] = "patch" /\ plan'[k] = [led EXCEPT !.phase = "account_deleted"]
    <3>1. plan'[k].phase = "account_deleted" /\ plan'[k].mode = led.mode
      BY <1>00, <2>3 DEF Ledger
    <3>2. Drafts(k, "keep", "patch", "account_deleted", led.mode)
      BY <2>1, <2>3, <3>1 DEF Drafts
    <3> QED
      BY <1>00, <3>2 DEF Decides
  <2> QED
    BY <2>1, <2>2, <2>3
<1> QED
  BY <1>1, <1>2, <1>3, <1>4, <1>5, <1>6, <1>7, <1>8, <1>9, <1>10, <1>11, <1>12,
     <1>13, <1>14, <1>15, <1>16 DEF TickStep, Tick

-----------------------------------------------------------------------------
(* Which step a ledger calls for.                                          *)
LEMMA StepOfPlace ==
  ASSUME NEW led \in Ledger, led.phase \notin {"none", "account_deleted"},
         NEW l, l = StepOf(led)
  PROVE  /\ l \in {"skip", "page", "zip", "mail", "purge", "verify"}
         /\ l \in {"page", "zip"} => led.phase = "exporting" /\ led.mode = "archive"
         /\ l = "page" => led.svc =< N
         /\ l = "zip" => led.svc = N + 1
         /\ l = "skip" => led.phase = "exporting" /\ led.mode # "archive"
         /\ l = "mail" => led.phase = "exported"
         /\ l = "purge" => led.phase \in {"mailed", "purging"}
         /\ l = "verify" => led.phase = "purged"
<1>0. led.svc \in 1..(N + 1) /\ N \in Nat /\ led.phase \in Phases
  BY Sizes DEF Ledger
<1>1. CASE led.phase = "exporting" /\ led.mode = "archive"
  <2>1. led.svc =< N \/ (led.svc > N /\ led.svc = N + 1)
    BY <1>0
  <2> QED
    BY <1>0, <1>1, <2>1 DEF StepOf
<1>2. CASE led.phase = "exporting" /\ led.mode # "archive"
  BY <1>2 DEF StepOf
<1>3. CASE led.phase # "exporting"
  BY <1>0, <1>3 DEF StepOf, Phases
<1> QED
  BY <1>1, <1>2, <1>3

(* A new ledger starts at the first service.                               *)
LEMMA NewLedgerFields ==
  ASSUME NEW p, NEW m, NEW led, led = NewLedger(p, m)
  PROVE  /\ led.phase = p /\ led.mode = m /\ led.svc = 1
         /\ led.cursor = 0 /\ led.parts = 0 /\ led.upd = 0
BY DEF NewLedger

(* A tick is where its ledger calls for.                                   *)
LEMMA PlaceStep ==
  ASSUME TypeInv, NoticeInv, PlaceInv, [Next]_vars PROVE PlaceInv'
<1> SUFFICES ASSUME NEW k \in Ticks PROVE PlaceOf(k)'
  BY DEF PlaceInv
<1>0. /\ ledger \in [Tenants -> Ledger] /\ copy \in [Ticks -> Ledger]
      /\ plan \in [Ticks -> Ledger] /\ pc \in [Ticks -> Calls]
  BY DEF TypeInv, TypeOK, SagaOK, TickOK
<1>1. PlaceOf(k) /\ TickInv(k) /\ (pc[k] = "page" => copy[k].svc =< N)
  BY DEF PlaceInv, NoticeInv, TypeInv, PageInv
<1>2. CASE SameTick(k)
  BY <1>1, <1>2 DEF SameTick, HasRead, PlaceOf
<1>3. CASE Back(k)
  BY <1>3 DEF Back, Mailing, PlaceOf
<1>4. CASE Begins(k)
  <2>1. CASE pc'[k] = "start"
    BY <2>1 DEF Mailing, PlaceOf
  <2>2. ASSUME NEW t \in Unfinished, copy'[k] = ledger[t], pc'[k] = StepOf(ledger[t])
        PROVE  PlaceOf(k)'
    <3>1. /\ ledger[t] \in Ledger
          /\ ledger[t].phase \notin {"none", "account_deleted"}
      BY <1>0 DEF Unfinished
    <3> QED
      BY <2>2, <3>1, StepOfPlace DEF Mailing, PlaceOf
  <2> QED
    BY <1>4, <2>1, <2>2 DEF Begins
<1>5. CASE Opens(k)
  <2>1. ~ HasRead(k)'
    BY <1>1, <1>5 DEF Opens, HasRead, TickInv, PlaceOf
  <2>2. /\ plan'[k].svc = 1 /\ plan'[k].cursor = 0 /\ plan'[k].parts = 0
        /\ plan'[k].phase = "exporting" \/ plan'[k].mode = "no_archive"
    BY <1>5, NewLedgerFields DEF Opens
  <2> QED
    BY <1>5, <2>1, <2>2 DEF Opens, Mailing, PlaceOf
<1>6. CASE Hops(k)
  BY <1>1, <1>6 DEF Hops, Mailing, HasRead, PlaceOf
<1>7. CASE Decides(k)
  BY <1>1, <1>7 DEF Decides, Drafts, Mailing, HasRead, PlaceOf
<1> QED
  BY <1>2, <1>3, <1>4, <1>5, <1>6, <1>7, Alone, TickTable

-----------------------------------------------------------------------------
(* A stage has a rank.                                                     *)
LEMMA RankType == ASSUME NEW p PROVE Rank(p) \in 1..6
BY DEF Rank

(* What a tick read and is about to write.                                 *)
LEMMA ReadAndPlanned ==
  ASSUME NoticeInv, StampInv, NEW k \in Ticks, pc[k] = "patch"
  PROVE  /\ HasRead(k) /\ plan[k].phase # "none"
         /\ Rank(copy[k].phase) =< Rank(plan[k].phase)
         /\ plan[k].mode = "archive" => copy[k].mode = "archive"
         /\ ledger[at[k]].phase # "none" /\ ledger[at[k]].upd = copy[k].upd
            => ledger[at[k]] = copy[k]
<1>1. TickInv(k) /\ StampOf(k)
  BY DEF NoticeInv, StampInv
<1>2. HasRead(k) /\ plan[k].phase # "none"
  BY <1>1 DEF TickInv, HasRead
<1> QED
  BY <1>1, <1>2 DEF StampOf, Writing

(* A ledger only moves forward, and never becomes one of an archive; it is *)
(* deleted with the account.                                               *)
LEMMA LedgerForward ==
  ASSUME TypeInv, NoticeInv, StampInv, [Next]_vars,
         NEW t \in Tenants, ledger[t].phase # "none"
  PROVE  \/ ledger'[t] = Absent /\ ws[t] = "NONE"
         \/ /\ ledger'[t].phase # "none"
            /\ Rank(ledger[t].phase) =< Rank(ledger'[t].phase)
            /\ ledger'[t].mode = "archive" => ledger[t].mode = "archive"
<1>1. Rank(ledger[t].phase) \in Int
  BY RankType
<1>2. ASSUME NEW k \in Ticks, at[k] = t, pc[k] = "patch",
             ledger[t].upd = copy[k].upd, Written(t, plan[k])
      PROVE  /\ ledger'[t].phase # "none"
             /\ Rank(ledger[t].phase) =< Rank(ledger'[t].phase)
             /\ ledger'[t].mode = "archive" => ledger[t].mode = "archive"
  BY <1>2, ReadAndPlanned DEF Written, SameLedger
<1>3. ASSUME ledger'[t] = ledger[t] \/ Written(t, ledger[t])
      PROVE  /\ ledger'[t].phase # "none"
             /\ Rank(ledger[t].phase) =< Rank(ledger'[t].phase)
             /\ ledger'[t].mode = "archive" => ledger[t].mode = "archive"
  BY <1>1, <1>3 DEF Written, SameLedger
<1> QED
  BY <1>2, <1>3, LedgerSteps DEF LedgerStep

(* updated_at only grows, so a stamp read once is never given again to     *)
(* another ledger.                                                         *)
LEMMA StampStep ==
  ASSUME TypeInv, NoticeInv, SweepInv, PlaceInv, StampInv, [Next]_vars PROVE StampInv'
<1>0. /\ ledger \in [Tenants -> Ledger] /\ copy \in [Ticks -> Ledger]
      /\ plan \in [Ticks -> Ledger] /\ pc \in [Ticks -> Calls]
      /\ at \in [Ticks -> Tenants] /\ clk \in Nat
  BY DEF TypeInv, TypeOK, SagaOK, TickOK
<1>1. ASSUME NEW t \in Tenants
      PROVE  /\ ledger[t].upd \in Nat /\ ledger[t].upd =< clk
             /\ ledger'[t].upd =< clk' /\ clk =< clk' /\ clk' \in Nat
             /\ \/ ledger'[t] = ledger[t] \/ ledger'[t].phase = "none"
                \/ ledger'[t].upd = clk + 1
  <2>1. ledger[t].upd =< clk /\ ledger[t].upd \in Nat
    BY <1>0 DEF StampInv, Ledger
  <2>2. Absent.upd = 0 /\ Absent.phase = "none"
    BY DEF Absent, NewLedger
  <2>3. clk' \in Nat
    BY TypeStep DEF TypeInv, TypeOK, SagaOK
  <2> QED
    BY <1>0, <2>1, <2>2, <2>3, LedgerSteps DEF LedgerStep, Written
<1>2. ASSUME NEW k \in Ticks PROVE StampOf(k)'
  <2>0. /\ StampOf(k) /\ TickInv(k) /\ PlaceOf(k) /\ TickSwept(k)
        /\ copy[k] \in Ledger /\ copy[k].upd \in Nat /\ at[k] \in Tenants
    BY <1>0 DEF StampInv, NoticeInv, PlaceInv, SweepInv, Ledger
  <2>00. Absent.phase = "none"
    BY DEF Absent, NewLedger
  <2>1. ASSUME at'[k] = at[k], copy'[k] = copy[k], HasRead(k)
        PROVE  /\ copy'[k].upd =< clk'
               /\ ledger'[at'[k]].phase # "none" /\ ledger'[at'[k]].upd = copy'[k].upd
                  => ledger'[at'[k]] = copy'[k]
    BY <1>0, <1>1, <2>0, <2>1 DEF StampOf
  <2>2. CASE SameTick(k)
    BY <2>0, <2>1, <2>2 DEF SameTick, StampOf, HasRead
  <2>3. CASE Back(k)
    BY <2>00, <2>3 DEF Back, StampOf, HasRead
  <2>4. CASE Begins(k)
    <3>1. CASE pc'[k] = "start" /\ at'[k] = at[k] /\ copy'[k] = copy[k]
      BY <2>0, <2>4, <3>1 DEF Begins, TickInv, StampOf, HasRead
    <3>2. ASSUME NEW t \in Unfinished, at'[k] = t, copy'[k] = ledger[t],
                 pc'[k] = StepOf(ledger[t])
          PROVE  StampOf(k)'
      <4>1. /\ t \in Tenants /\ ledger[t] \in Ledger
            /\ ledger[t].phase \notin {"none", "account_deleted"}
        BY <1>0 DEF Unfinished
      <4>2. pc'[k] \notin Writing
        BY <3>2, <4>1, StepOfPlace DEF Writing
      <4>3. ledger[t].upd =< clk' /\ (ledger'[t].upd = ledger[t].upd => ledger'[t].upd # clk + 1)
        BY <1>0, <1>1, <4>1
      <4>4. copy'[k].upd =< clk'
        BY <3>2, <4>3
      <4>5. ledger'[at'[k]].phase # "none" /\ ledger'[at'[k]].upd = copy'[k].upd
              => ledger'[at'[k]] = copy'[k]
        BY <1>1, <3>2, <4>1, <4>3
      <4> QED
        BY <4>2, <4>4, <4>5 DEF StampOf
    <3> QED
      BY <2>4, <3>1, <3>2 DEF Begins
  <2>5. CASE Opens(k)
    BY <2>0, <2>5 DEF Opens, TickInv, PlaceOf, StampOf, HasRead
  <2>6. CASE Hops(k)
    <3>1. /\ pc'[k] \in Writing => pc[k] \in Writing
          /\ at'[k] = at[k] /\ copy'[k] = copy[k] /\ plan'[k] = plan[k]
      BY <2>6 DEF Hops, Writing
    <3> QED
      BY <2>0, <2>1, <3>1 DEF StampOf, HasRead
  <2>7. CASE Decides(k)
    <3>0. at'[k] = at[k] /\ copy'[k] = copy[k]
      BY <2>7 DEF Decides, Drafts
    <3>1. plan'[k].mode = "archive" => copy[k].mode = "archive"
      <4>1. pc[k] = "mailed" => HasRead(k)
        BY <2>0 DEF TickInv, HasRead
      <4> QED
        BY <2>0, <2>7, <4>1 DEF Decides, Drafts, StampOf, Writing
    <3>2. Rank(copy[k].phase) =< Rank(plan'[k].phase)
      <4>1. CASE plan'[k].phase = copy[k].phase
        BY <4>1, RankType
      <4>2. CASE pc[k] \in {"skip", "zip"}
        <5>1. copy[k].phase = "exporting" /\ plan'[k].phase \in {"exporting", "exported"}
          BY <2>0, <2>7, <4>2 DEF Decides, Drafts, PlaceOf
        <5> QED
          BY <5>1 DEF Rank
      <4>3. CASE pc[k] = "mailed"
        <5>1. copy[k].phase = "exported" /\ plan'[k].phase \in {plan[k].phase, "mailed"}
          BY <2>0, <2>7, <4>3 DEF Decides, Drafts, PlaceOf, Mailing
        <5>2. Rank(copy[k].phase) =< Rank(plan[k].phase)
          BY <2>0, <4>3, <5>1 DEF StampOf, HasRead, Writing
        <5> QED
          BY <5>1, <5>2 DEF Rank
      <4>4. CASE pc[k] = "purge"
        <5>1. copy[k].phase \in Late \ {"account_deleted"}
              /\ plan'[k].phase \in {"purging", "purged"}
          BY <2>0, <2>7, <4>4 DEF Decides, Drafts, TickInv
        <5> QED
          BY <5>1 DEF Rank, Late
      <4>5. CASE pc[k] \in {"verify", "keep"}
        <5>1. copy[k].phase = "purged" /\ plan'[k].phase \in {"purging", "account_deleted"}
          BY <2>0, <2>7, <4>5 DEF Decides, Drafts, TickSwept
        <5> QED
          BY <5>1 DEF Rank
      <4> QED
        BY <2>7, <4>1, <4>2, <4>3, <4>4, <4>5 DEF Decides, Drafts
    <3> QED
      BY <2>1, <3>0, <3>1, <3>2 DEF StampOf, HasRead
  <2> QED
    BY <2>2, <2>3, <2>4, <2>5, <2>6, <2>7, Alone, TickTable
<1> QED
  BY <1>1, <1>2 DEF StampInv

(* Ledgers move forward, so a tick stays behind.                           *)
LEMMA LagStep ==
  ASSUME TypeInv, NoticeInv, PlaceInv, StampInv, LagInv, Stable, [Next]_vars PROVE LagInv'
<1>0. /\ ledger \in [Tenants -> Ledger] /\ at \in [Ticks -> Tenants]
  BY DEF TypeInv, TypeOK, SagaOK, TickOK
<1> SUFFICES ASSUME NEW k \in Ticks PROVE LagOf(k)'
  BY DEF LagInv
<1>1. LagOf(k) /\ TickInv(k) /\ PlaceOf(k) /\ at[k] \in Tenants
  BY <1>0 DEF LagInv, NoticeInv, PlaceInv
<1>2. Absent.phase = "none"
  BY DEF Absent, NewLedger
<1>3. \A t \in Tenants : ws[t] = "NONE" => ws'[t] = "NONE"
  BY DEF Stable
<1>4. ASSUME at'[k] = at[k], copy'[k] = copy[k] PROVE LagOf(k)'
  <2>1. CASE ws[at[k]] = "NONE" \/ ~ HasRead(k)
    BY <1>1, <1>3, <1>4, <2>1 DEF LagOf, HasRead
  <2>2. CASE ws[at[k]] # "NONE" /\ HasRead(k)
    <3> PICK t : t = at[k]
      OBVIOUS
    <3>1. /\ ledger[t].phase # "none" /\ t \in Tenants /\ at'[k] = t
          /\ Rank(copy[k].phase) =< Rank(ledger[t].phase)
          /\ ledger[t].mode = "archive" => copy[k].mode = "archive"
      BY <1>1, <1>4, <2>2 DEF LagOf
    <3>2. /\ ledger'[t].phase # "none"
          /\ Rank(ledger[t].phase) =< Rank(ledger'[t].phase)
          /\ ledger'[t].mode = "archive" => ledger[t].mode = "archive"
      BY <2>2, <3>1, LedgerForward
    <3>3. Rank(copy[k].phase) =< Rank(ledger'[t].phase)
      BY <3>1, <3>2, RankType
    <3> QED
      BY <1>4, <3>1, <3>2, <3>3 DEF LagOf
  <2> QED
    BY <2>1, <2>2
<1>5. CASE SameTick(k) \/ Hops(k) \/ Decides(k)
  BY <1>4, <1>5 DEF SameTick, Hops, Decides, Drafts
<1>6. CASE Back(k)
  BY <1>2, <1>6 DEF Back, LagOf, HasRead
<1>7. CASE Begins(k)
  <2>1. ASSUME NEW t \in Unfinished, at'[k] = t, copy'[k] = ledger[t] PROVE LagOf(k)'
    <3>1. t \in Tenants /\ ledger[t].phase # "none"
      BY DEF Unfinished
    <3> QED
      BY <1>3, <2>1, <3>1, LedgerForward DEF LagOf
  <2> QED
    BY <1>4, <1>7, <2>1 DEF Begins
<1>8. CASE Opens(k)
  BY <1>1, <1>8 DEF Opens, TickInv, PlaceOf, LagOf, HasRead
<1> QED
  BY <1>5, <1>6, <1>7, <1>8, Alone, TickTable

(* The argument so far is inductive.                                       *)
ForwardInv == TypeInv /\ NoticeInv /\ SweepInv /\ PlaceInv /\ StampInv /\ LagInv

LEMMA ForwardInit == Init => ForwardInv
<1> SUFFICES ASSUME Init PROVE ForwardInv
  OBVIOUS
<1>1. TypeInv /\ NoticeInv /\ SweepInv
  BY TypeInit, NoticeInit, SweepInit
<1>2. Absent.phase = "none" /\ Absent.upd = 0
  BY DEF Absent, NewLedger
<1>3. PlaceInv
  BY DEF Init, PlaceInv, PlaceOf, Mailing, HasRead
<1>4. StampInv
  BY <1>2 DEF Init, StampInv, StampOf, HasRead
<1>5. LagInv
  BY <1>2 DEF Init, LagInv, LagOf, HasRead
<1> QED
  BY <1>1, <1>3, <1>4, <1>5 DEF ForwardInv

LEMMA ForwardStep == ForwardInv /\ [Next]_vars => ForwardInv' /\ Stable
<1> SUFFICES ASSUME ForwardInv, [Next]_vars PROVE ForwardInv' /\ Stable
  OBVIOUS
<1>1. TypeInv /\ NoticeInv /\ SweepInv /\ PlaceInv /\ StampInv /\ LagInv
  BY DEF ForwardInv
<1>2. TypeInv'
  BY <1>1, TypeStep
<1>3. NoticeInv' /\ Stable
  BY <1>1, NoticeStep
<1>4. SweepInv' /\ PlaceInv' /\ StampInv'
  BY <1>1, SweepStep, PlaceStep, StampStep
<1>5. LagInv'
  BY <1>1, <1>3, LagStep
<1> QED
  BY <1>2, <1>3, <1>4, <1>5 DEF ForwardInv

(* A saga never goes back to an earlier stage, however many ticks overlap, *)
(* oversleep, throw or die: ledgers.update compares updated_at.            *)
THEOREM SagaForwardHolds == Spec => SagaForward
<1>1. ForwardInv /\ [Next]_vars =>
        \A t \in Tenants : ledger[t].phase # "none" =>
          Rank(ledger[t].phase) =< Rank(ledger'[t].phase)
  <2> SUFFICES ASSUME ForwardInv, [Next]_vars, NEW t \in Tenants,
                      ledger[t].phase # "none"
               PROVE  Rank(ledger[t].phase) =< Rank(ledger'[t].phase)
    OBVIOUS
  <2>1. Absent.phase = "none" /\ Rank(ledger[t].phase) \in 1..6
    BY RankType DEF Absent, NewLedger
  <2>2. Rank("none") = 6
    BY DEF Rank
  <2> QED
    BY <2>1, <2>2, LedgerForward DEF ForwardInv
<1> QED
  BY <1>1, ForwardInit, ForwardStep, PTL DEF Spec, SagaForward

-----------------------------------------------------------------------------
(* What a step does to a workspace row: nothing, or it ends, moves, marks  *)
(* or deletes the trial, or time passes.                                   *)
TrialStep(t) ==
  \/ ws'[t] = ws[t] /\ age'[t] = age[t]
  \/ ws[t] = "ACTIVE" /\ ws'[t] = "EXPIRED" /\ age'[t] = 0
  \/ ws'[t] = "ACTIVE" /\ age'[t] = 0 /\ (Opened(t)' => t \in moved')
  \/ ws[t] = "EXPIRED" /\ ws'[t] = "ARCHIVING" /\ age'[t] = age[t]
  \/ ws'[t] = "NONE" /\ age'[t] = age[t]
  \/ ws[t] # "ACTIVE" /\ ws'[t] = ws[t] /\ age'[t] = age[t] + 1 /\ Advance

LEMMA TrialSteps ==
  ASSUME TypeInv, [Next]_vars, NEW t \in Tenants PROVE TrialStep(t)
<1>0. /\ ws \in [Tenants -> {"ACTIVE", "EXPIRED", "ARCHIVING", "NONE"}]
      /\ age \in [Tenants -> Nat] /\ at \in [Ticks -> Tenants]
  BY DEF TypeInv, TypeOK, TenancyOK, TickOK
<1>1. UNCHANGED <<ws, age>> => TrialStep(t)
  BY DEF TrialStep
<1>2. ASSUME NEW u \in Tenants, EndTrial(u) \/ DeleteUserEnd(u) PROVE TrialStep(t)
  BY <1>0, <1>2 DEF EndTrial, DeleteUserEnd, ToExpired, TrialStep
<1>3. ASSUME NEW u \in Tenants, (\E r \in Row : OwnerWrite(u, r)) \/ SignIn(u)
             \/ DeleteUserDies(u) \/ BucketRule(u)
      PROVE  UNCHANGED <<ws, age>>
  BY <1>3 DEF OwnerWrite, StartWrite, CommitWrite, SignIn, DeleteUserDies, BucketRule, tenancy
<1>4. ASSUME NEW u \in Tenants, SetTrialExpiry(u) PROVE TrialStep(t)
  <2>1. CASE u # t
    BY <1>0, <1>4, <2>1 DEF SetTrialExpiry, TrialStep
  <2>2. CASE u = t
    <3>1. ws'[t] = "ACTIVE" /\ age'[t] = 0 /\ UNCHANGED <<ledger, pc, at>>
      BY <1>0, <1>4, <2>2 DEF SetTrialExpiry, saga, tick
    <3>2. Archiving' = Archiving
      BY <3>1 DEF Archiving
    <3>3. t \in Archiving => t \in moved'
      BY <1>4, <2>2 DEF SetTrialExpiry
    <3> QED
      BY <3>1, <3>2, <3>3 DEF TrialStep, Opened
  <2> QED
    BY <2>1, <2>2
<1>5. ASSUME NEW u \in Tenants, NEW m, DeleteUser(u, m) PROVE UNCHANGED <<ws, age>>
  BY <1>5 DEF DeleteUser
<1>6. ASSUME NEW k \in Ticks, Mark(k) PROVE TrialStep(t)
  BY <1>0, <1>6 DEF Mark, TrialStep
<1>7. ASSUME NEW k \in Ticks, DeleteAccount(k) PROVE TrialStep(t)
  BY <1>0, <1>7 DEF DeleteAccount, TrialStep
<1>8. ASSUME NEW k \in Ticks, TickStep(k), ~ Mark(k), ~ DeleteAccount(k)
      PROVE  UNCHANGED <<ws, age>>
  <2>1. CASE ReadLedger(k) \/ Start(k) \/ Count(k) \/ Create(k) \/ SkipExport(k)
             \/ ReadPage(k) \/ StagePart(k) \/ ReadParts(k)
    BY <2>1 DEF ReadLedger, Start, Count, Create, SkipExport, ReadPage, StagePart,
       ReadParts, tenancy
  <2>2. CASE PutZip(k) \/ HeadZip(k) \/ Unstage(k) \/ Mail(k) \/ MailZipGone(k)
             \/ UpsertIndex(k) \/ Send(k) \/ MailResult(k)
    BY <2>2 DEF PutZip, HeadZip, Unstage, Mail, MailZipGone, UpsertIndex, Send,
       MailResult, tenancy
  <2>3. CASE Purge(k) \/ WriteTombstone(k)
    BY <2>3 DEF Purge, WriteTombstone, tenancy
  <2>4. CASE KeepLedger(k) \/ DeleteLedger(k) \/ Patch(k) \/ Catch(k)
    BY <2>4 DEF KeepLedger, DeleteLedger, Patch, Catch, tenancy
  <2>5. CASE Verify(k)
    BY <2>5, Zenon DEF Verify, tenancy
  <2>6. CASE PurgeBudget(k) \/ Throw(k) \/ Die(k)
    BY <2>6 DEF PurgeBudget, Throw, Die, tenancy
  <2> QED
    BY <1>8, <2>1, <2>2, <2>3, <2>4, <2>5, <2>6 DEF TickStep, Tick
<1>9. ASSUME NEW d \in Deleters, DeleteZip(d) \/ DeleteIndex(d) \/ DeleteDies(d)
      PROVE  UNCHANGED <<ws, age>>
  BY <1>9 DEF DeleteZip, DeleteIndex, DeleteDies, tenancy
<1>10. ASSUME NEW d \in Deleters, NEW u \in Tenants, FindArchive(d, u)
       PROVE  UNCHANGED <<ws, age>>
  BY <1>10 DEF FindArchive, tenancy
<1>11. DeleteOrphans \/ UNCHANGED vars => UNCHANGED <<ws, age>>
  BY DEF DeleteOrphans, vars, tenancy
<1>12. ASSUME Advance PROVE TrialStep(t)
  <2>1. /\ ws' = ws
        /\ \/ age'[t] = age[t]
           \/ ws[t] # "ACTIVE" /\ age'[t] = age[t] + 1
    BY <1>0, <1>12 DEF Advance, Older
  <2> QED
    BY <1>12, <2>1 DEF TrialStep
<1> QED
  BY <1>1, <1>2, <1>3, <1>4, <1>5, <1>6, <1>7, <1>8, <1>9, <1>10, <1>11, <1>12
     DEF Next, TickStep

(* What a step does to the requests and to who was moved.                  *)
LEMMA Requests ==
  ASSUME [Next]_vars
  PROVE  /\ moved \subseteq moved' /\ (~ AdminExtends => moved' = moved)
         /\ \/ writes' = writes
            \/ \E t \in Tenants, r \in Row : OwnerWrite(t, r)
<1> DEFINE Same == moved' = moved /\ writes' = writes
<1>1. ASSUME NEW t \in Tenants, NEW r \in Row, OwnerWrite(t, r) PROVE moved' = moved
  BY <1>1 DEF OwnerWrite, StartWrite, CommitWrite, history
<1>2. ASSUME NEW t \in Tenants, SetTrialExpiry(t)
      PROVE  moved \subseteq moved' /\ AdminExtends /\ writes' = writes
  BY <1>2 DEF SetTrialExpiry, data
<1>3. ASSUME NEW t \in Tenants, SignIn(t) \/ EndTrial(t) \/ DeleteUserEnd(t)
             \/ DeleteUserDies(t) \/ BucketRule(t)
      PROVE  Same
  BY <1>3 DEF SignIn, EndTrial, DeleteUserEnd, DeleteUserDies, BucketRule, data, history
<1>4. ASSUME NEW t \in Tenants, NEW m, DeleteUser(t, m) PROVE Same
  BY <1>4 DEF DeleteUser, data, history
<1>5. ASSUME NEW k \in Ticks, TickStep(k) PROVE Same
  <2>1. CASE ReadLedger(k) \/ Start(k) \/ Count(k) \/ Create(k) \/ Mark(k) \/ SkipExport(k)
             \/ ReadPage(k) \/ StagePart(k) \/ ReadParts(k)
    BY <2>1 DEF ReadLedger, Start, Count, Create, Mark, SkipExport, ReadPage, StagePart,
       ReadParts, data, history
  <2>2. CASE PutZip(k) \/ HeadZip(k) \/ Unstage(k) \/ Mail(k) \/ MailZipGone(k)
             \/ UpsertIndex(k) \/ Send(k) \/ MailResult(k)
    BY <2>2 DEF PutZip, HeadZip, Unstage, Mail, MailZipGone, UpsertIndex, Send,
       MailResult, data, history
  <2>3. CASE Purge(k) \/ WriteTombstone(k) \/ DeleteAccount(k)
    BY <2>3 DEF Purge, WriteTombstone, DeleteAccount, data, history
  <2>4. CASE KeepLedger(k) \/ DeleteLedger(k) \/ Patch(k) \/ Catch(k)
    BY <2>4 DEF KeepLedger, DeleteLedger, Patch, Catch, data, history
  <2>5. CASE Verify(k)
    BY <2>5, Zenon DEF Verify, data, history
  <2>6. CASE PurgeBudget(k) \/ Throw(k) \/ Die(k)
    BY <2>6 DEF PurgeBudget, Throw, Die, data, history
  <2> QED
    BY <1>5, <2>1, <2>2, <2>3, <2>4, <2>5, <2>6 DEF TickStep, Tick
<1>6. ASSUME NEW d \in Deleters, DeleteZip(d) \/ DeleteIndex(d) \/ DeleteDies(d)
      PROVE  Same
  BY <1>6 DEF DeleteZip, DeleteIndex, DeleteDies, data, history
<1>7. ASSUME NEW d \in Deleters, NEW u \in Tenants, FindArchive(d, u) PROVE Same
  BY <1>7 DEF FindArchive, data, history
<1>8. DeleteOrphans \/ Advance \/ UNCHANGED vars => Same
  BY DEF DeleteOrphans, Advance, vars, data, history
<1> HIDE DEF Same
<1>9. \/ Same
      \/ \E t \in Tenants, r \in Row : OwnerWrite(t, r)
      \/ \E t \in Tenants : SetTrialExpiry(t)
  BY <1>3, <1>4, <1>5, <1>6, <1>7, <1>8 DEF Next, TickStep
<1> QED
  BY <1>1, <1>2, <1>9 DEF Same

(* What a tick works on is a saga that has begun or is being opened.       *)
LEMMA AtOpened ==
  ASSUME NoticeInv, NEW k \in Ticks, at[k] \in Tenants,
         HasRead(k) \/ pc[k] \in {"count", "create", "mark"}
  PROVE  Opened(at[k])
<1>1. HasRead(k) \/ pc[k] = "mark" => Begun(at[k])
  BY DEF NoticeInv, TickInv, HasRead
<1> QED
  BY <1>1 DEF Begun, Opened, Archiving

(* A saga is opened by start(), for a candidate.                           *)
LEMMA OpenedStep ==
  ASSUME TypeInv, NoticeInv, [Next]_vars, NEW t \in Tenants, Opened(t)'
  PROVE  Opened(t) \/ t \in Candidates
<1>0. /\ at \in [Ticks -> Tenants] /\ at' \in [Ticks -> Tenants]
      /\ \A k \in Ticks : TickInv(k)
  BY TypeStep DEF TypeInv, TypeOK, TickOK, NoticeInv
<1>1. ASSUME ws'[t] = "NONE" PROVE Opened(t)
  <2>1. CASE \E u \in Tenants, r \in Row : OwnerWrite(u, r)
    BY <1>1, <2>1 DEF OwnerWrite, StartWrite, CommitWrite, tenancy, Opened
  <2>2. CASE \E u \in Tenants : AccessStep(u)
    BY <1>1, <2>2, AccessMoves DEF Opened
  <2>3. CASE \E k \in Ticks : Purge(k) \/ WriteTombstone(k)
    BY <1>1, <2>3 DEF Purge, WriteTombstone, tenancy, Opened
  <2>4. ASSUME NEW k \in Ticks, DeleteAccount(k), ws[t] # "NONE" PROVE Opened(t)
    <3>1. at[k] = t /\ HasRead(k)
      BY <1>0, <1>1, <2>4 DEF DeleteAccount, TickInv, HasRead
    <3> QED
      BY <3>1, AtOpened
  <2>5. CASE Plain
    BY <1>1, <2>5 DEF Plain, Opened
  <2> QED
    BY <2>1, <2>2, <2>3, <2>4, <2>5, Moves DEF Opened
<1>2. ASSUME ledger'[t].phase # "none" PROVE Opened(t)
  <2>1. Absent.phase = "none"
    BY DEF Absent, NewLedger
  <2>2. ledger[t].phase # "none" \/ \E k \in Ticks : at[k] = t /\ pc[k] = "create"
    BY <1>2, <2>1, LedgerSteps DEF LedgerStep
  <2> QED
    BY <2>2 DEF Opened, Archiving
<1>3. ASSUME NEW k \in Ticks, pc'[k] \in {"count", "create"}, at'[k] = t
      PROVE  Opened(t) \/ t \in Candidates
  <2>1. at[k] = t /\ (HasRead(k) \/ pc[k] \in {"count", "create", "mark"}) => Opened(t)
    BY AtOpened
  <2>2. CASE SameTick(k)
    BY <1>3, <2>1, <2>2 DEF SameTick
  <2>3. CASE Back(k)
    BY <1>3, <2>3 DEF Back
  <2>4. CASE Begins(k)
    <3>1. PICK u \in Unfinished : at'[k] = u
      BY <1>3, <2>4 DEF Begins
    <3> QED
      BY <1>3, <3>1 DEF Unfinished, Opened, Archiving
  <2>5. CASE Opens(k)
    BY <1>3, <2>1, <2>5 DEF Opens
  <2>6. CASE Hops(k)
    BY <1>3, <2>6 DEF Hops
  <2>7. CASE Decides(k)
    BY <1>3, <2>7 DEF Decides, Drafts
  <2> QED
    BY <2>2, <2>3, <2>4, <2>5, <2>6, <2>7, Alone, TickTable
<1> QED
  BY <1>1, <1>2, <1>3 DEF Opened, Archiving

(* In a quiet workspace rows only go, and only by the purge.               *)
LEMMA RowsGo ==
  ASSUME TypeInv, QuietInv, [Next]_vars, NEW t \in Tenants, Quiet(t)
  PROVE  /\ rows'[t] \subseteq rows[t]
         /\ rows'[t] = rows[t] \/ \E k \in Ticks : at[k] = t /\ Purge(k)
<1>0. /\ rows \in [Tenants -> SUBSET Row] /\ at \in [Ticks -> Tenants]
      /\ age[t] \in Nat /\ Grace \in Nat
  <2>1. Grace \in Nat
    BY BoundAssumption DEF Grace
  <2> QED
    BY <2>1 DEF TypeInv, TypeOK, DataOK, TickOK, TenancyOK
<1>1. ASSUME NEW u \in Tenants, NEW r \in Row, OwnerWrite(u, r) PROVE rows'[t] = rows[t]
  <2>1. CASE StartWrite(u, r)
    BY <2>1 DEF StartWrite
  <2>2. CASE CommitWrite(u, r)
    <3>1. InTime(<<u, r>>)
      BY <2>2 DEF CommitWrite, QuietInv
    <3>2. u # t
      BY <1>0, <3>1 DEF InTime, Quiet
    <3> QED
      BY <1>0, <2>2, <3>2 DEF CommitWrite
  <2> QED
    BY <1>1, <2>1, <2>2 DEF OwnerWrite
<1>2. CASE \E u \in Tenants : AccessStep(u)
  BY <1>2, AccessMoves
<1>3. ASSUME NEW k \in Ticks, Purge(k)
      PROVE  rows'[t] \subseteq rows[t] /\ (rows'[t] = rows[t] \/ at[k] = t)
  BY <1>0, <1>3 DEF Purge
<1>4. CASE \E k \in Ticks : WriteTombstone(k)
  BY <1>4 DEF WriteTombstone
<1>5. CASE \E k \in Ticks : DeleteAccount(k)
  BY <1>5 DEF DeleteAccount, data
<1>6. CASE Plain
  BY <1>6 DEF Plain
<1> QED
  BY <1>1, <1>2, <1>3, <1>4, <1>5, <1>6, Moves

(* No row is stored behind a tombstone in a workspace nobody moved.        *)
LEMMA NoneLate ==
  ASSUME TypeInv, NoticeInv, QuietInv, [Next]_vars, NEW t \in Tenants, t \notin moved
  PROVE  late'[t] = {}
<1>0. /\ late \in [Tenants -> SUBSET Row] /\ at \in [Ticks -> Tenants]
      /\ age[t] \in Nat /\ Grace \in Nat /\ late[t] = {} /\ QuietOf(t)
  <2>1. Grace \in Nat
    BY BoundAssumption DEF Grace
  <2>2. late[t] = {} /\ QuietOf(t)
    BY DEF QuietInv, QuietOf
  <2> QED
    BY <2>1, <2>2 DEF TypeInv, TypeOK, DataOK, TickOK, TenancyOK
<1>1. ASSUME NEW u \in Tenants, NEW r \in Row, OwnerWrite(u, r) PROVE late'[t] = {}
  <2>1. CASE late' = late
    BY <1>0, <2>1
  <2>2. ASSUME u = t, late' # late PROVE FALSE
    <3>1. <<t, r>> \in writes /\ r[1] \in tomb[t]
      BY <1>1, <2>2 DEF OwnerWrite, StartWrite, CommitWrite
    <3>2. InTime(<<t, r>>) /\ Begun(t)
      BY <1>0, <3>1 DEF QuietInv, QuietOf
    <3>3. Quiet(t)
      BY <1>0, <3>2 DEF QuietOf, Opened, Begun, Archiving
    <3> QED
      BY <1>0, <3>2, <3>3 DEF InTime, Quiet
  <2>3. ASSUME u # t PROVE late'[t] = late[t]
    BY <1>0, <1>1, <2>3 DEF OwnerWrite, StartWrite, CommitWrite
  <2> QED
    BY <1>0, <2>1, <2>2, <2>3
<1>2. CASE \E u \in Tenants : AccessStep(u)
  BY <1>0, <1>2, AccessMoves
<1>3. ASSUME NEW k \in Ticks, Purge(k) PROVE late'[t] = {}
  BY <1>0, <1>3 DEF Purge
<1>4. CASE \E k \in Ticks : WriteTombstone(k) \/ DeleteAccount(k)
  BY <1>0, <1>4 DEF WriteTombstone, DeleteAccount, data
<1>5. CASE Plain
  BY <1>0, <1>5 DEF Plain
<1> QED
  BY <1>1, <1>2, <1>3, <1>4, <1>5, Moves

(* A tombstone is written by a saga that has begun.                        *)
LEMMA StonesBegun ==
  ASSUME TypeInv, NoticeInv, QuietInv, Stable, [Next]_vars, NEW t \in Tenants,
         tomb'[t] # {}
  PROVE  Begun(t)'
<1>0. /\ tomb \in [Tenants -> SUBSET Services] /\ at \in [Ticks -> Tenants]
      /\ tomb[t] # {} => Begun(t)
  BY DEF TypeInv, TypeOK, DataOK, TickOK, QuietInv, QuietOf
<1>1. CASE tomb'[t] = tomb[t]
  BY <1>0, <1>1 DEF Stable
<1>2. CASE \E u \in Tenants, r \in Row : OwnerWrite(u, r)
  BY <1>1, <1>2 DEF OwnerWrite, StartWrite, CommitWrite
<1>3. CASE \E u \in Tenants : AccessStep(u)
  BY <1>1, <1>3, AccessMoves
<1>4. CASE \E k \in Ticks : Purge(k) \/ DeleteAccount(k)
  BY <1>1, <1>4 DEF Purge, DeleteAccount, data
<1>5. ASSUME NEW k \in Ticks, WriteTombstone(k), tomb'[t] # tomb[t] PROVE Begun(t)'
  <2>1. at[k] = t
    BY <1>0, <1>5 DEF WriteTombstone
  <2>2. Begun(t)
    BY <1>5, <2>1 DEF WriteTombstone, NoticeInv, TickInv
  <2> QED
    BY <2>2 DEF Stable
<1>6. CASE Plain
  BY <1>1, <1>6 DEF Plain
<1> QED
  BY <1>1, <1>2, <1>3, <1>4, <1>5, <1>6, Moves

(* A request is over in time: Advance waits for it.                        *)
LEMMA StillInTime ==
  ASSUME TypeInv, QuietInv, [Next]_vars, NEW w \in writes'
  PROVE  InTime(w)'
<1>0. /\ Grace \in Nat /\ Grace > 0 /\ TokenTtl \in Nat /\ TokenTtl =< Grace
      /\ age \in [Tenants -> Nat] /\ writes \subseteq Tenants \X Row
  <2>1. TokenTtl \in Nat \ {0} /\ RequestTtl \in Nat
    BY BoundAssumption
  <2>2. age \in [Tenants -> Nat] /\ writes \subseteq Tenants \X Row
    BY DEF TypeInv, TypeOK, TenancyOK, DataOK
  <2> QED
    BY <2>1, <2>2 DEF Grace
<1>1. ASSUME NEW t \in Tenants, NEW r \in Row, OwnerWrite(t, r) PROVE InTime(w)'
  <2>1. ws' = ws /\ age' = age
    BY <1>1 DEF OwnerWrite, StartWrite, CommitWrite, tenancy
  <2>2. w \in writes \/ (w = <<t, r>> /\ (ws[t] = "ACTIVE" \/ age[t] < TokenTtl))
    BY <1>1 DEF OwnerWrite, StartWrite, CommitWrite
  <2> QED
    BY <1>0, <2>1, <2>2 DEF QuietInv, InTime
<1>2. ASSUME w \in writes PROVE InTime(w)'
  <2> PICK t \in Tenants : t = w[1]
    BY <1>0, <1>2
  <2>1. /\ ws[t] # "ACTIVE" => age[t] < Grace
        /\ ws[t] = "ACTIVE" => age[t] = 0
    BY <1>2 DEF QuietInv, QuietOf, InTime
  <2>2. Advance => (ws[t] # "ACTIVE" => age[t] + 1 < Grace)
    BY <1>2 DEF Advance
  <2>3. ws'[t] # "ACTIVE" => age'[t] < Grace
    BY <1>0, <2>1, <2>2, TrialSteps DEF TrialStep
  <2> QED
    BY <2>3 DEF InTime
<1> QED
  BY <1>1, <1>2, Requests

(* A saga is opened and goes on in a quiet workspace, unless it was moved  *)
(* while it was opened: start() waits for archiveDelayMin, which is no     *)
(* less than an access token and a request that it let in last.            *)
LEMMA StaysQuiet ==
  ASSUME TypeInv, NoticeInv, QuietInv, [Next]_vars, NEW t \in Tenants,
         t \notin moved', Opened(t)'
  PROVE  Quiet(t)'
<1>0. /\ age \in [Tenants -> Nat] /\ {Grace, ArchiveDelay} \subseteq Nat
      /\ ws[t] \in {"ACTIVE", "EXPIRED", "ARCHIVING", "NONE"} /\ t \notin moved
  <2>1. {Grace, ArchiveDelay} \subseteq Nat
    BY BoundAssumption DEF Grace
  <2>2. t \notin moved
    BY Requests
  <2> QED
    BY <2>1, <2>2 DEF TypeInv, TypeOK, TenancyOK
<1>1. Quiet(t)
  <2>1. CASE Opened(t)
    BY <1>0, <2>1 DEF QuietInv, QuietOf
  <2>2. CASE t \in Candidates
    BY <1>0, <2>2, DelayAssumption DEF Candidates, Ended, Quiet
  <2> QED
    BY <2>1, <2>2, OpenedStep
<1> QED
  BY <1>0, <1>1, TrialSteps DEF TrialStep, Quiet

LEMMA QuietStep ==
  ASSUME TypeInv, NoticeInv, QuietInv, Stable, [Next]_vars PROVE QuietInv'
<1>1. ASSUME NEW t \in Tenants PROVE QuietOf(t)'
  <2>1. ws'[t] = "ACTIVE" => age'[t] = 0
    BY TrialSteps DEF TrialStep, QuietInv, QuietOf
  <2>2. t \notin moved' => late'[t] = {}
    BY Requests, NoneLate
  <2> QED
    BY <2>1, <2>2, StonesBegun, StaysQuiet DEF QuietOf
<1>2. ~ AdminExtends => moved' = {}
  BY Requests DEF QuietInv
<1> QED
  BY <1>1, <1>2, StillInTime DEF QuietInv

LEMMA QuietInit == Init => QuietInv
<1> SUFFICES ASSUME Init PROVE QuietInv
  OBVIOUS
<1>1. Absent.phase = "none"
  BY DEF Absent, NewLedger
<1>2. ASSUME NEW t \in Tenants PROVE ~ Opened(t)
  BY <1>1, <1>2 DEF Init, Opened, Archiving
<1> QED
  BY <1>2 DEF Init, QuietInv, QuietOf

(* Where the admin moves no trial end, sagas go on in quiet workspaces.    *)
LEMMA QuietNow ==
  ASSUME TypeInv, NoticeInv, QuietInv, ~ AdminExtends
  PROVE  /\ \A t \in Tenants : late[t] = {} /\ (ledger[t].phase # "none" => Quiet(t))
         /\ \A k \in Ticks : HasRead(k) => Quiet(at[k])
<1>1. \A t \in Tenants : late[t] = {} /\ (Opened(t) => Quiet(t))
  BY DEF QuietInv, QuietOf
<1>2. \A t \in Tenants : ledger[t].phase # "none" => Opened(t)
  BY DEF Opened, Archiving
<1>3. \A k \in Ticks : at[k] \in Tenants
  BY DEF TypeInv, TypeOK, TickOK
<1> QED
  BY <1>1, <1>2, <1>3, AtOpened

-----------------------------------------------------------------------------
(* An account that is gone has left no session and, but for what requests  *)
(* stored behind a tombstone, no row in any service.                       *)
THEOREM AccountDeletedCleanHolds == Spec => []AccountDeletedClean
<1>1. SweepInv /\ QuietInv => AccountDeletedClean
  BY DEF SweepInv, TenantSwept, QuietInv, QuietOf, AccountDeletedClean
<1> QED
  BY <1>1, NoticeInit, TypeInit, TypeStep, NoticeStep, SweepInit, SweepStep,
     QuietInit, QuietStep, PTL DEF Spec

-----------------------------------------------------------------------------
(* The pages of an export.                                                 *)
LEMMA RowKeys ==
  ASSUME TypeInv, NEW t \in Tenants
  PROVE  /\ IsFiniteSet(rows[t])
         /\ \A r \in rows[t] : r \in Row /\ r[2] \in Nat \ {0}
<1>1. rows[t] \subseteq Row
  BY DEF TypeInv, TypeOK, DataOK
<1> QED
  BY <1>1, BoundAssumption, FS_Subset

(* A page is the rows after the cursor, or those with less than a page     *)
(* before them; only a full page of a paged service has a next cursor.     *)
LEMMA PageRead ==
  ASSUME TypeInv, NEW t \in Tenants, NEW p \in Spot, p.svc =< N,
         NEW page, page = ExportPage(t, ExportOrder[p.svc], p.cursor),
         NEW next \in NextCursor(ExportOrder[p.svc], page)
  PROVE  /\ IsFiniteSet(From(t, p)) /\ next \in Nat
         /\ ExportOrder[p.svc] \notin Paged =>
              page = RowsOf(t, ExportOrder[p.svc]) /\ next = 0
         /\ ExportOrder[p.svc] \in Paged =>
              /\ page = {r \in From(t, p) :
                           Cardinality({q \in From(t, p) : q[2] < r[2]}) < PageRows}
              /\ next = 0 => page = From(t, p) /\ Cardinality(From(t, p)) < PageRows
              /\ next # 0 => \E r \in page : next = r[2]
<1> PICK s : s = ExportOrder[p.svc]
  OBVIOUS
<1> PICK A : A = From(t, p)
  OBVIOUS
<1>1. /\ A \subseteq rows[t] /\ IsFiniteSet(A)
      /\ \A r \in A : r[2] \in Nat /\ r[2] # 0
  <2>1. A \subseteq rows[t]
    BY DEF From, RowsOf
  <2> QED
    BY <2>1, RowKeys, FS_Subset
<1>2. s \notin Paged => page = RowsOf(t, s) /\ next = 0
  BY DEF ExportPage, NextCursor
<1>3. ASSUME s \in Paged
      PROVE  page = {r \in A : Cardinality({q \in A : q[2] < r[2]}) < PageRows}
  BY <1>3 DEF ExportPage, From
<1>4. ASSUME s \in Paged, next # 0 PROVE \E r \in page : next = r[2]
  BY <1>4 DEF NextCursor
<1>5. ASSUME s \in Paged, next = 0 PROVE page = A /\ Cardinality(A) < PageRows
  <2>1. Cardinality(page) < PageRows
    <3>1. \A r \in page : r[2] # 0
      BY <1>1, <1>3, <1>5
    <3> QED
      BY <1>5, <3>1 DEF NextCursor
  <2>2. PageRows \in Nat
    BY BoundAssumption
  <2>3. page = A
    BY <1>1, <1>3, <1>5, <2>1, <2>2, SmallPage
  <2> QED
    BY <2>1, <2>3
<1>6. next \in Nat
  <2>1. CASE s \in Paged /\ next # 0
    BY <1>1, <1>3, <1>4, <2>1
  <2>2. CASE ~ (s \in Paged /\ next # 0)
    BY <1>2, <2>2
  <2> QED
    BY <2>1, <2>2
<1> QED
  BY <1>1, <1>2, <1>3, <1>4, <1>5, <1>6

(* Where a page leads is determined by the rows, and reached.              *)
LEMMA FollowsOnce ==
  ASSUME NEW t, NEW p, NEW i, NEW q, NEW r, TypeInv, t \in Tenants, p \in Spot,
         Follows(t, p, i, q), Follows(t, p, i, r)
  PROVE  q = r
<1> PICK s : s = ExportOrder[p.svc]
  OBVIOUS
<1> PICK page : page = ExportPage(t, s, p.cursor)
  OBVIOUS
<1>1. \A a, b \in NextCursor(s, page) : a \in Nat /\ b \in Nat
  BY PageRead DEF Follows
<1>2. \A a, b \in NextCursor(s, page) : a = b
  <2> SUFFICES ASSUME NEW a \in NextCursor(s, page), NEW b \in NextCursor(s, page)
               PROVE  a = b
    OBVIOUS
  <2>1. a \in Nat /\ b \in Nat
    BY <1>1
  <2>2. (a = 0 /\ b = 0) \/ (a =< b /\ b =< a)
    BY DEF NextCursor
  <2> QED
    BY <2>1, <2>2
<1> QED
  BY <1>2 DEF Follows

(* Where a page leads, it reaches.                                         *)
LEMMA FollowsReaches ==
  ASSUME NEW t, NEW p, NEW i, NEW q, TypeInv, t \in Tenants, p \in Spot, Follows(t, p, i, q)
  PROVE  Reaches(t, p, i, q) /\ q \in Spot
<1> PICK s : s = ExportOrder[p.svc]
  OBVIOUS
<1> PICK page : page = ExportPage(t, s, p.cursor)
  OBVIOUS
<1>0. p.svc =< N /\ p.svc \in Nat /\ N \in Nat /\ p.svc >= 1 /\ p.svc + 1 \in 1..(N + 1)
  BY Sizes DEF Follows, Spot
<1>1. PICK next \in NextCursor(s, page) :
        q = IF next # 0 /\ ~ IsLastAllowedPart(p.svc, i)
            THEN [svc |-> p.svc, cursor |-> next]
            ELSE [svc |-> p.svc + 1, cursor |-> 0]
  BY DEF Follows
<1>2. /\ next \in Nat
      /\ s \notin Paged => next = 0
      /\ s \in Paged =>
           /\ page = {r \in From(t, p) :
                        Cardinality({x \in From(t, p) : x[2] < r[2]}) < PageRows}
           /\ next = 0 => Cardinality(From(t, p)) < PageRows
           /\ next # 0 => \E r \in page : next = r[2]
  BY <1>0, PageRead
<1>3. CASE next # 0 /\ ~ IsLastAllowedPart(p.svc, i)
  <2>1. q.svc = p.svc /\ q.cursor = next /\ q \in Spot
    BY <1>0, <1>1, <1>2, <1>3 DEF Spot
  <2>2. s \in Paged /\ Cardinality({r \in From(t, p) : r[2] < next}) < PageRows
    BY <1>2, <1>3
  <2> QED
    BY <1>0, <2>1, <2>2 DEF Reaches
<1>4. CASE ~ (next # 0 /\ ~ IsLastAllowedPart(p.svc, i))
  <2>1. q.svc = p.svc + 1 /\ q.cursor = 0 /\ q \in Spot
    BY <1>0, <1>1, <1>4 DEF Spot
  <2> QED
    BY <1>0, <1>2, <1>4, <2>1 DEF Reaches
<1> QED
  BY <1>3, <1>4

(* Fewer rows do not lead past it ...                                      *)
LEMMA ReachesStable ==
  ASSUME NEW t, NEW p, NEW i, NEW q, TypeInv, t \in Tenants, rows'[t] \subseteq rows[t],
         Reaches(t, p, i, q)
  PROVE  Reaches(t, p, i, q)'
<1>1. IsFiniteSet(rows[t]) /\ PageRows \in Nat
  BY RowKeys, BoundAssumption
<1>2. ASSUME NEW A, NEW B, B \subseteq A, A \subseteq rows[t], Cardinality(A) < PageRows
      PROVE  Cardinality(B) < PageRows
  <2>1. IsFiniteSet(A)
    BY <1>1, <1>2, FS_Subset
  <2>2. IsFiniteSet(B) /\ Cardinality(B) =< Cardinality(A)
    BY <1>2, <2>1, FS_Subset
  <2>3. Cardinality(A) \in Nat /\ Cardinality(B) \in Nat
    BY <2>1, <2>2, FS_CardinalityType
  <2> QED
    BY <1>1, <1>2, <2>2, <2>3
<1>3. From(t, p)' \subseteq From(t, p) /\ From(t, p) \subseteq rows[t]
  BY DEF From, RowsOf
<1>4. Cardinality(From(t, p)) < PageRows => Cardinality(From(t, p)') < PageRows
  BY <1>2, <1>3
<1>5. Cardinality({r \in From(t, p) : r[2] < q.cursor}) < PageRows
        => Cardinality({r \in From(t, p)' : r[2] < q.cursor}) < PageRows
  <2> PICK A : A = {r \in From(t, p) : r[2] < q.cursor}
    OBVIOUS
  <2> PICK B : B = {r \in From(t, p)' : r[2] < q.cursor}
    OBVIOUS
  <2>1. B \subseteq A /\ A \subseteq rows[t]
    BY <1>3
  <2> QED
    BY <1>2, <2>1
<1> QED
  BY <1>4, <1>5 DEF Reaches

(* ... and a page taken then has what there is up to it, or is marked.     *)
LEMMA PageCovers ==
  ASSUME TypeInv, NEW t \in Tenants, NEW p \in Spot, NEW i, NEW q \in Spot,
         Reaches(t, p, i, q), NEW s, s = ExportOrder[p.svc],
         NEW page, page = ExportPage(t, s, p.cursor), NEW next \in NextCursor(s, page),
         ~ (next # 0 /\ IsLastAllowedPart(p.svc, i)),
         NEW r \in rows[t], Between(r, p, q)
  PROVE  r \in page
<1>0. p.svc =< N /\ p.svc \in Nat /\ PageRows \in Nat
  <2>1. PageRows \in Nat
    BY BoundAssumption
  <2> QED
    BY <2>1 DEF Reaches, Spot
<1> PICK A : A = From(t, p)
  OBVIOUS
<1>1. /\ IsFiniteSet(A)
      /\ s \notin Paged => page = RowsOf(t, s)
      /\ s \in Paged =>
           /\ page = {x \in A : Cardinality({y \in A : y[2] < x[2]}) < PageRows}
           /\ next = 0 => page = A
  BY <1>0, PageRead
<1>2. r \in A /\ r \in RowsOf(t, s) /\ r[2] \in Nat /\ \A x \in A : x[2] \in Nat
  BY RowKeys DEF Between, From, RowsOf
<1>3. CASE s \notin Paged
  BY <1>1, <1>2, <1>3
<1> PICK B : B = {y \in A : y[2] < r[2]}
  OBVIOUS
<1>4. ASSUME NEW C, B \subseteq C, C \subseteq A, Cardinality(C) < PageRows, s \in Paged
      PROVE  r \in page
  <2>1. IsFiniteSet(C)
    BY <1>1, <1>4, FS_Subset
  <2>2. IsFiniteSet(B) /\ Cardinality(B) =< Cardinality(C)
    BY <1>4, <2>1, FS_Subset
  <2>3. Cardinality(C) \in Nat /\ Cardinality(B) \in Nat
    BY <2>1, <2>2, FS_CardinalityType
  <2>4. Cardinality(B) < PageRows
    BY <1>0, <1>4, <2>2, <2>3
  <2> QED
    BY <1>1, <1>2, <1>4, <2>4
<1>5. CASE s \in Paged /\ q.svc = p.svc
  <2> PICK C : C = {x \in A : x[2] < q.cursor}
    OBVIOUS
  <2>1. r[2] =< q.cursor /\ q.cursor \in Nat
    BY <1>5 DEF Between, Spot
  <2>2. B \subseteq C
    BY <1>2, <2>1
  <2>3. Cardinality(C) < PageRows
    BY <1>0, <1>5 DEF Reaches
  <2> QED
    BY <1>4, <1>5, <2>2, <2>3
<1>6. CASE s \in Paged /\ q.svc # p.svc
  <2>1. IsLastAllowedPart(p.svc, i) \/ Cardinality(A) < PageRows
    BY <1>6 DEF Reaches
  <2>2. CASE next = 0
    BY <1>1, <1>2, <1>6, <2>2
  <2>3. CASE Cardinality(A) < PageRows
    BY <1>4, <1>6, <2>3
  <2> QED
    BY <2>1, <2>2, <2>3
<1> QED
  BY <1>3, <1>5, <1>6

-----------------------------------------------------------------------------
(* What a page takes: it leads on from the spot the export had reached,    *)
(* and has all the rows up to where a page from there ever reached.        *)
LEMMA PageTaken ==
  ASSUME TypeInv, NEW k \in Ticks, ReadPage(k), NEW t, t = at[k],
         NEW led, led = copy[k], NEW new, new = plan'[k], NEW c, c = buf'[k]
  PROVE  /\ SpotOf(led) \in Spot
         /\ Follows(t, SpotOf(led), led.parts, SpotOf(new)) /\ new.parts = led.parts + 1
         /\ \A q \in Spot : Reaches(t, SpotOf(led), led.parts, q) =>
              c.cut \/ \A r \in rows[t] : Between(r, SpotOf(led), q) => r \in c.rows
<1>0. /\ t \in Tenants /\ led \in Ledger /\ led.svc =< N
      /\ plan \in [Ticks -> Ledger] /\ buf \in [Ticks -> Content]
  BY DEF TypeInv, TypeOK, TickOK, PageInv, ReadPage
<1> PICK p : p = SpotOf(led)
  OBVIOUS
<1> PICK s : s = ExportOrder[led.svc]
  OBVIOUS
<1> PICK page : page = ExportPage(t, s, led.cursor)
  OBVIOUS
<1>1. /\ p \in Spot /\ p.svc = led.svc /\ p.cursor = led.cursor
      /\ led.parts \in Nat /\ led.svc \in Nat
  BY <1>0, Sizes DEF SpotOf, Spot, Ledger
<1>2. PICK next \in NextCursor(s, page) :
        LET cut == next # 0 /\ IsLastAllowedPart(led.svc, led.parts)
        IN  /\ buf' = [buf EXCEPT ![k] = [here |-> TRUE, rows |-> page, cut |-> cut]]
            /\ plan' = [plan EXCEPT ![k] =
                 AdvanceExport([led EXCEPT !.parts = @ + 1], IF cut THEN 0 ELSE next)]
  BY DEF ReadPage
<1> PICK cut : cut = (next # 0 /\ IsLastAllowedPart(led.svc, led.parts))
  OBVIOUS
<1>3. /\ c.cut = cut /\ c.rows = page
      /\ new = AdvanceExport([led EXCEPT !.parts = @ + 1], IF cut THEN 0 ELSE next)
  BY <1>0, <1>2
<1>4. /\ new.parts = led.parts + 1
      /\ SpotOf(new) = IF next # 0 /\ ~ IsLastAllowedPart(led.svc, led.parts)
                       THEN [svc |-> led.svc, cursor |-> next]
                       ELSE [svc |-> led.svc + 1, cursor |-> 0]
  <2> PICK more : more = [led EXCEPT !.parts = @ + 1]
    OBVIOUS
  <2>1. /\ more \in [phase: Phases \cup {"none"}, mode: Modes, svc: 1..(N + 1),
                     cursor: Nat, parts: Nat, psvc: 1..N, upd: Nat]
        /\ more.svc = led.svc /\ more.parts = led.parts + 1
    BY <1>0, <1>1 DEF Ledger
  <2>2. CASE next # 0 /\ ~ cut
    <3>1. new = [more EXCEPT !.cursor = next]
      BY <1>3, <2>2 DEF AdvanceExport
    <3>2. new.svc = led.svc /\ new.cursor = next /\ new.parts = led.parts + 1
      BY <2>1, <3>1
    <3> QED
      BY <2>2, <3>2 DEF SpotOf
  <2>3. CASE ~ (next # 0 /\ ~ cut)
    <3>1. new = [more EXCEPT !.svc = @ + 1, !.cursor = 0]
      BY <1>3, <2>3 DEF AdvanceExport
    <3>2. new.svc = led.svc + 1 /\ new.cursor = 0 /\ new.parts = led.parts + 1
      BY <2>1, <3>1
    <3> QED
      BY <2>3, <3>2 DEF SpotOf
  <2> QED
    BY <2>2, <2>3
<1>5. Follows(t, p, led.parts, SpotOf(new))
  BY <1>0, <1>1, <1>4 DEF Follows
<1>6. ASSUME NEW q \in Spot, Reaches(t, p, led.parts, q), ~ c.cut,
             NEW r \in rows[t], Between(r, p, q)
      PROVE  r \in c.rows
  <2>1. /\ s = ExportOrder[p.svc] /\ page = ExportPage(t, s, p.cursor)
        /\ next \in NextCursor(s, page)
        /\ ~ (next # 0 /\ IsLastAllowedPart(p.svc, led.parts))
    BY <1>1, <1>3, <1>6
  <2>2. r \in page
    BY ONLY <1>0, <1>1, <1>6, <2>1, TypeInv, PageCovers
  <2> QED
    BY <1>3, <2>2
<1> QED
  BY <1>1, <1>4, <1>5, <1>6

(* What comes before the spot a page leads to.                             *)
LEMMA BeforeNext ==
  ASSUME NEW t, NEW i, NEW p \in Spot, NEW q, Reaches(t, p, i, q),
         NEW r \in Row, Before(r, q)
  PROVE  Before(r, p) \/ Between(r, p, q)
<1>0. /\ r[2] \in Nat \ {0} /\ p.svc \in Nat /\ p.cursor \in Nat /\ p.svc =< N /\ N \in Nat
      /\ 1 =< p.svc
  <2>1. r[2] \in Nat \ {0}
    BY BoundAssumption
  <2>2. p.svc =< N
    BY DEF Reaches
  <2> QED
    BY <2>1, <2>2, Sizes DEF Spot
<1>1. PICK j \in 1..N : /\ ExportOrder[j] = r[1]
                        /\ j < q.svc \/ (j = q.svc /\ r[2] =< q.cursor)
  BY DEF Before
<1>2. \/ q.svc = p.svc
      \/ q.svc = p.svc + 1 /\ q.cursor = 0
  BY DEF Reaches
<1>3. CASE j < p.svc
  BY <1>1, <1>3 DEF Before
<1>4. CASE j = p.svc
  <2>1. CASE r[2] =< p.cursor
    BY <1>1, <1>4, <2>1 DEF Before
  <2>2. CASE ~ (r[2] =< p.cursor)
    <3>1. r[2] > p.cursor /\ r[1] = ExportOrder[p.svc]
      BY <1>0, <1>1, <1>4, <2>2
    <3>2. q.svc = p.svc => r[2] =< q.cursor
      BY <1>0, <1>1, <1>4
    <3> QED
      BY <3>1, <3>2 DEF Between
  <2> QED
    BY <2>1, <2>2
<1>5. j < p.svc \/ j = p.svc
  BY <1>0, <1>1, <1>2
<1> QED
  BY <1>3, <1>4, <1>5

(* A page at the end of the path makes it longer.                          *)
LEMMA Extend ==
  ASSUME TypeInv, NEW t \in Tenants, NEW n \in Nat, NEW P, Exported(t, P, n),
         NEW q, Follows(t, P[n], n, q),
         NEW Q, Q = [m \in 0..(n + 1) |-> IF m =< n THEN P[m] ELSE q]
  PROVE  Exported(t, Q, n + 1)
<1>0. /\ P \in [0..n -> Spot] /\ P[0] = FirstSpot /\ P[n] \in Spot
      /\ \A m \in 0..n, r \in Row : Before(r, P[m]) =>
           \E i \in 0..(m - 1) : Between(r, P[i], P[i + 1])
  BY DEF Exported, Path
<1>1. Reaches(t, P[n], n, q) /\ q \in Spot
  BY <1>0, FollowsReaches
<1>2. /\ Q \in [0..(n + 1) -> Spot] /\ Q[n + 1] = q /\ \A m \in 0..n : Q[m] = P[m]
      /\ \A i \in 0..(n - 1) : Q[i] = P[i] /\ Q[i + 1] = P[i + 1]
  BY <1>0, <1>1
<1>3. Path(Q, n + 1)
  <2>1. Q[0] = FirstSpot
    BY <1>0, <1>2
  <2>2. ASSUME NEW m \in 0..(n + 1), NEW r \in Row, Before(r, Q[m])
        PROVE  \E i \in 0..(m - 1) : Between(r, Q[i], Q[i + 1])
    <3>1. ASSUME NEW l \in 0..n, Before(r, P[l])
          PROVE  \E i \in 0..(l - 1) : Between(r, Q[i], Q[i + 1])
      <4>1. PICK i \in 0..(l - 1) : Between(r, P[i], P[i + 1])
        BY <1>0, <3>1
      <4>2. i \in 0..(n - 1)
        OBVIOUS
      <4> QED
        BY <1>2, <4>1, <4>2
    <3>2. CASE m \in 0..n
      BY <1>2, <2>2, <3>1, <3>2
    <3>3. CASE m = n + 1
      <4>1. CASE Before(r, P[n])
        <5>1. PICK i \in 0..(n - 1) : Between(r, Q[i], Q[i + 1])
          BY <3>1, <4>1
        <5>2. i \in 0..(m - 1)
          BY <3>3
        <5> QED
          BY <5>1, <5>2
      <4>2. CASE Between(r, P[n], q)
        <5>1. Between(r, Q[n], Q[n + 1]) /\ n \in 0..(m - 1)
          BY <1>2, <3>3, <4>2
        <5> QED
          BY <5>1
      <4> QED
        BY <1>0, <1>1, <1>2, <2>2, <3>3, <4>1, <4>2, BeforeNext
    <3> QED
      BY <3>2, <3>3
  <2> QED
    BY <1>2, <2>1, <2>2 DEF Path
<1>4. \A i \in 0..n : Reaches(t, Q[i], i, Q[i + 1])
  <2> SUFFICES ASSUME NEW i \in 0..n PROVE Reaches(t, Q[i], i, Q[i + 1])
    OBVIOUS
  <2>1. CASE i = n
    BY <1>1, <1>2, <2>1
  <2>2. CASE i \in 0..(n - 1)
    BY <1>2, <2>2 DEF Exported
  <2> QED
    BY <2>1, <2>2
<1>5. \A led : OnPath(led, P, n) => OnPath(led, Q, n + 1)
  BY <1>2 DEF OnPath
<1>6. \A c : \A i \in 0..(n - 1) : Covers(t, c, P, i) => Covers(t, c, Q, i)
  BY <1>2 DEF Covers
<1>7. Exports(ledger[t]) => /\ OnPath(ledger[t], Q, n + 1)
                            /\ \A i \in 0..n : Follows(t, Q[i], i, Q[i + 1])
  <2> SUFFICES ASSUME Exports(ledger[t])
               PROVE  /\ OnPath(ledger[t], Q, n + 1)
                      /\ \A i \in 0..n : Follows(t, Q[i], i, Q[i + 1])
    OBVIOUS
  <2>1. OnPath(ledger[t], Q, n + 1)
    BY <1>5 DEF Exported
  <2>2. ASSUME NEW i \in 0..n PROVE Follows(t, Q[i], i, Q[i + 1])
    <3>1. CASE i = n
      BY <1>2, <3>1
    <3>2. CASE i \in 0..(n - 1)
      BY <1>2, <3>2 DEF Exported
    <3> QED
      BY <3>1, <3>2
  <2> QED
    BY <2>1, <2>2
<1>8. ASSUME NEW k \in Ticks, at[k] = t PROVE TickExports(k, Q, n + 1)
  <2>1. TickExports(k, P, n) /\ copy[k].parts \in Nat
    BY <1>8 DEF Exported, TypeInv, TypeOK, TickOK, Ledger
  <2>2. copy[k].parts < n => copy[k].parts < n + 1 /\ copy[k].parts \in 0..(n - 1)
    BY <2>1
  <2> QED
    BY <1>5, <1>6, <1>8, <2>1, <2>2 DEF TickExports
<1>9. ASSUME NEW i \in 0..MaxParts, staging[t][i].here
      PROVE  i < n + 1 /\ Covers(t, staging[t][i], Q, i)
  <2>1. i < n /\ Covers(t, staging[t][i], P, i)
    BY <1>9 DEF Exported
  <2>2. i \in 0..(n - 1) /\ i < n + 1
    BY <2>1, Sizes
  <2> QED
    BY <1>6, <2>1, <2>2
<1>10. (n + 1) - 1 = n
  OBVIOUS
<1> QED
  BY <1>3, <1>4, <1>7, <1>8, <1>9, <1>10 DEF Exported

-----------------------------------------------------------------------------
(* What a step does to staged parts.                                       *)
StagingStep(t) ==
  \A i \in 0..MaxParts :
    \/ staging'[t][i] = staging[t][i] \/ staging'[t][i] = Gone
    \/ \E k \in Ticks : /\ pc[k] = "stage" /\ at[k] = t /\ i = copy[k].parts
                        /\ staging'[t][i] = buf[k]

(* Every step does one of these to a part.                                 *)
LEMMA StagingSteps ==
  ASSUME TypeInv, [Next]_vars, NEW t \in Tenants PROVE StagingStep(t)
<1>0. /\ staging \in [Tenants -> [0..MaxParts -> Content]]
      /\ at \in [Ticks -> Tenants] /\ copy \in [Ticks -> Ledger]
  BY DEF TypeInv, TypeOK, BucketOK, TickOK
<1>1. staging' = staging => StagingStep(t)
  BY DEF StagingStep
<1>2. ASSUME NEW k \in Ticks, StagePart(k) PROVE StagingStep(t)
  BY <1>0, <1>2 DEF StagePart, StagingStep
<1>3. ASSUME NEW k \in Ticks, Unstage(k) PROVE StagingStep(t)
  BY <1>0, <1>3 DEF Unstage, StagingStep, NoParts
<1>4. ASSUME NEW u \in Tenants, BucketRule(u) PROVE StagingStep(t)
  <2>1. CASE staging' = staging
    BY <1>1, <2>1
  <2>2. CASE \E i \in 0..MaxParts : staging' = [staging EXCEPT ![u][i] = Gone]
    <3>1. PICK i \in 0..MaxParts : staging' = [staging EXCEPT ![u][i] = Gone]
      BY <2>2
    <3>2. CASE u = t
      <4>1. staging'[t] = [staging[t] EXCEPT ![i] = Gone]
        BY <1>0, <3>1, <3>2
      <4>2. staging[t] \in [0..MaxParts -> Content]
        BY <1>0
      <4> QED
        BY <4>1, <4>2 DEF StagingStep
    <3>3. CASE u # t
      BY <1>0, <3>1, <3>3 DEF StagingStep
    <3> QED
      BY <3>2, <3>3
  <2> QED
    BY <1>4, <2>1, <2>2 DEF BucketRule
<1>5. ASSUME NEW k \in Ticks, TickStep(k), ~ StagePart(k), ~ Unstage(k)
      PROVE  staging' = staging
  <2>1. CASE ReadLedger(k) \/ Start(k) \/ Count(k) \/ Create(k) \/ Mark(k)
             \/ SkipExport(k) \/ ReadPage(k) \/ ReadParts(k)
    BY <2>1 DEF ReadLedger, Start, Count, Create, Mark, SkipExport, ReadPage,
       ReadParts, bucket
  <2>2. CASE PutZip(k) \/ HeadZip(k) \/ Mail(k) \/ MailZipGone(k)
             \/ UpsertIndex(k) \/ Send(k) \/ MailResult(k)
    BY <2>2 DEF PutZip, HeadZip, Mail, MailZipGone, UpsertIndex, Send,
       MailResult, bucket
  <2>3. CASE Purge(k) \/ WriteTombstone(k) \/ DeleteAccount(k)
    BY <2>3 DEF Purge, WriteTombstone, DeleteAccount, bucket
  <2>4. CASE KeepLedger(k) \/ DeleteLedger(k) \/ Patch(k) \/ Catch(k)
    BY <2>4 DEF KeepLedger, DeleteLedger, Patch, Catch, bucket
  <2>5. CASE Verify(k)
    BY <2>5, Zenon DEF Verify, bucket
  <2>6. CASE PurgeBudget(k) \/ Throw(k) \/ Die(k)
    BY <2>6 DEF PurgeBudget, Throw, Die, bucket
  <2> QED
    BY <1>5, <2>1, <2>2, <2>3, <2>4, <2>5, <2>6 DEF TickStep, Tick
<1>6. ASSUME NEW u \in Tenants, (\E r \in Row : OwnerWrite(u, r)) \/ SignIn(u)
             \/ EndTrial(u) \/ SetTrialExpiry(u) \/ DeleteUserEnd(u)
             \/ DeleteUserDies(u)
      PROVE  staging' = staging
  BY <1>6 DEF OwnerWrite, StartWrite, CommitWrite, SignIn, EndTrial, SetTrialExpiry, DeleteUserEnd,
     DeleteUserDies, bucket
<1>7. ASSUME NEW u \in Tenants, NEW m, DeleteUser(u, m) PROVE staging' = staging
  BY <1>7 DEF DeleteUser, bucket
<1>8. ASSUME NEW d \in Deleters, DeleteZip(d) \/ DeleteIndex(d) \/ DeleteDies(d)
      PROVE  staging' = staging
  BY <1>8 DEF DeleteZip, DeleteIndex, DeleteDies, bucket
<1>9. ASSUME NEW d \in Deleters, NEW u \in Tenants, FindArchive(d, u)
      PROVE  staging' = staging
  BY <1>9 DEF FindArchive, bucket
<1>10. DeleteOrphans \/ Advance \/ UNCHANGED vars => staging' = staging
  BY DEF DeleteOrphans, Advance, vars, bucket
<1> QED
  BY <1>1, <1>2, <1>3, <1>4, <1>5, <1>6, <1>7, <1>8, <1>9, <1>10 DEF Next, TickStep

(* A tick that has read the ledger as it is after a step had read it as it *)
(* was before.                                                             *)
LEMMA StillCurrent ==
  ASSUME TypeInv, NoticeInv, StampInv, [Next]_vars, NEW k \in Ticks, HasRead(k),
         ledger'[at[k]] = copy[k]
  PROVE  ledger[at[k]] = copy[k]
<1> PICK t : t = at[k]
  OBVIOUS
<1>1. /\ t \in Tenants /\ copy[k].upd \in Nat /\ clk \in Nat
      /\ copy[k].upd =< clk /\ copy[k].phase # "none"
  BY DEF TypeInv, TypeOK, TickOK, SagaOK, Ledger, StampInv, StampOf, HasRead
<1>2. Absent.phase = "none" /\ copy[k].upd # clk + 1
  BY <1>1 DEF Absent, NewLedger
<1>3. ledger'[t] = copy[k]
  OBVIOUS
<1>4. LedgerStep(t)
  BY <1>1, LedgerSteps
<1> QED
  BY <1>1, <1>2, <1>3, <1>4 DEF LedgerStep, Written

(* A tick then about to write an export has read one.                      *)
LEMMA PlannedExport ==
  ASSUME NoticeInv', StampInv', NEW k \in Ticks, Exports(plan'[k]),
         pc'[k] \in {"stage", "unstage", "patch"}
  PROVE  Exports(copy'[k])
<1>1. TickInv(k)' /\ StampOf(k)'
  BY DEF NoticeInv, StampInv
<1>2. HasRead(k)'
  BY <1>1 DEF TickInv, HasRead
<1>3. /\ Rank(copy'[k].phase) =< Rank(plan'[k].phase)
      /\ plan'[k].mode = "archive" => copy'[k].mode = "archive"
  BY <1>1, <1>2 DEF StampOf, Writing
<1>4. Rank("exporting") = 1 /\ \A p : p # "exporting" => Rank(p) > 1
  BY DEF Rank
<1>5. copy'[k].phase # "exporting" =>
        Rank(copy'[k].phase) > 1 /\ Rank(copy'[k].phase) \in Int
  BY <1>4, RankType
<1> QED
  BY <1>3, <1>4, <1>5 DEF Exports

(* A path stays the path of each tick at work on the export.               *)
LEMMA TickExportsStep ==
  ASSUME ForwardInv, ForwardInv', [Next]_vars,
         NEW t \in Tenants, NEW n \in Nat, NEW P, Exported(t, P, n),
         rows'[t] \subseteq rows[t],
         NEW k \in Ticks, at'[k] = t,
         at[k] = t /\ ReadPage(k) => copy[k].parts < n
  PROVE  TickExports(k, P, n)'
<1>0. /\ TypeInv /\ NoticeInv /\ StampInv /\ PlaceInv /\ NoticeInv' /\ StampInv'
      /\ TickInv(k) /\ PlaceOf(k) /\ PlaceOf(k)' /\ TickInv(k)'
  BY DEF ForwardInv, NoticeInv, PlaceInv
<1>1. /\ 0 \in 0..n /\ P[0] = FirstSpot
      /\ Exports(ledger[t]) => /\ OnPath(ledger[t], P, n)
                               /\ \A i \in 0..(n - 1) : Follows(t, P[i], i, P[i + 1])
      /\ \A i \in 0..(n - 1) : Reaches(t, P[i], i, P[i + 1])
      /\ P \in [0..n -> Spot]
      /\ at[k] = t => TickExports(k, P, n)
  BY DEF Exported, Path
<1>2. pc'[k] \in {"stage", "unstage", "patch"} => HasRead(k)'
  BY <1>0 DEF TickInv, HasRead
<1>3. ASSUME NEW c, NEW i, Covers(t, c, P, i)
      PROVE  c.cut \/ \A r \in rows'[t] : Between(r, P[i], P[i + 1]) => r \in c.rows
  BY <1>3 DEF Covers
<1>13. Absent.phase = "none"
  BY DEF Absent, NewLedger
<1>4. ASSUME at[k] = t, copy'[k] = copy[k]
      PROVE  Exports(copy'[k]) => OnPath(copy'[k], P, n)
  BY <1>1, <1>4 DEF TickExports
<1>5. ASSUME at[k] = t, copy'[k] = copy[k], plan'[k] = plan[k], buf'[k] = buf[k],
             \/ pc'[k] = pc[k]
             \/ pc[k] \in {"stage", "unstage"} /\ pc'[k] = "patch"
             \/ pc'[k] \notin {"stage", "unstage", "patch"}
      PROVE  TickExports(k, P, n)'
  <2>1. ASSUME pc'[k] \in {"stage", "unstage", "patch"}, Exports(plan'[k]),
               ledger'[t] = copy'[k]
        PROVE  OnPath(plan'[k], P, n)
    <3>1. ledger[at[k]] = copy[k]
      BY <1>0, <1>2, <1>5, <2>1, StillCurrent DEF HasRead
    <3> QED
      BY <1>1, <1>5, <2>1, <3>1 DEF TickExports
  <2>2. ASSUME pc'[k] = "stage"
        PROVE  copy'[k].parts < n /\ Covers(at[k], buf[k], P, copy[k].parts)'
    <3> PICK c : c = buf[k]
      OBVIOUS
    <3> PICK i : i = copy[k].parts
      OBVIOUS
    <3>1. i < n /\ Covers(t, c, P, i)
      BY <1>1, <1>5, <2>2 DEF TickExports
    <3>2. c.cut \/ \A r \in rows'[t] : Between(r, P[i], P[i + 1]) => r \in c.rows
      BY <1>3, <3>1
    <3> QED
      BY <1>5, <3>1, <3>2 DEF Covers
  <2> QED
    BY <1>4, <1>5, <2>1, <2>2 DEF TickExports
<1>6. CASE SameTick(k) /\ buf'[k] = buf[k]
  BY <1>5, <1>6 DEF SameTick
<1>7. ASSUME copy'[k].phase = "none" PROVE TickExports(k, P, n)'
  BY <1>2, <1>7 DEF TickExports, Exports, HasRead
<1>8. CASE Back(k)
  BY <1>13, <1>7, <1>8 DEF Back
<1>9. CASE Opens(k)
  BY <1>0, <1>7, <1>9 DEF Opens, TickInv, PlaceOf, HasRead
<1>10. CASE Begins(k)
  <2>1. CASE copy'[k] = copy[k]
    BY <1>0, <1>7, <1>10, <2>1 DEF Begins, TickInv
  <2>2. ASSUME NEW u \in Unfinished, at'[k] = u, copy'[k] = ledger[u],
               pc'[k] = StepOf(ledger[u])
        PROVE  TickExports(k, P, n)'
    <3>1. u = t /\ copy'[k] = ledger[t]
      BY <2>2
    <3>2. pc'[k] \notin {"stage", "unstage", "patch"}
      BY <2>2, <1>0, StepOfPlace DEF Unfinished, TypeInv, TypeOK, SagaOK
    <3> QED
      BY <1>1, <3>1, <3>2 DEF TickExports
  <2> QED
    BY <1>10, <2>1, <2>2 DEF Begins
<1>11. CASE Hops(k)
  <2>1. at[k] = t /\ copy'[k] = copy[k] /\ plan'[k] = plan[k] /\ buf'[k] = buf[k]
    BY <1>11 DEF Hops
  <2>2. \/ pc[k] \in {"stage", "unstage"} /\ pc'[k] = "patch"
        \/ pc'[k] \notin {"stage", "unstage", "patch"}
        \/ pc[k] = "head" /\ pc'[k] = "unstage"
        \/ pc[k] = "stone" /\ pc'[k] = "patch"
    BY <1>11 DEF Hops
  <2>3. CASE pc[k] = "head" /\ pc'[k] = "unstage"
    <3>1. ~ Exports(plan'[k])
      BY <1>0, <2>1, <2>3 DEF PlaceOf, Exports
    <3> QED
      BY <1>4, <2>1, <2>3, <3>1 DEF TickExports
  <2>4. CASE pc[k] = "stone" /\ pc'[k] = "patch"
    <3>1. ~ Exports(copy'[k])
      BY <1>0, <2>1, <2>4 DEF TickInv, Exports, Late
    <3>2. ~ Exports(plan'[k])
      BY <1>0, <2>4, <3>1, PlannedExport
    <3> QED
      BY <2>4, <3>1, <3>2 DEF TickExports
  <2> QED
    BY <1>5, <2>1, <2>2, <2>3, <2>4
<1>12. CASE Decides(k)
  <2>1. at[k] = t /\ copy'[k] = copy[k]
    BY <1>12 DEF Decides, Drafts
  <2>2. CASE ~ (pc[k] = "page" /\ ReadPage(k)) /\ ~ (pc'[k] = "unstage" /\ ReadParts(k))
    <3>1. \/ pc'[k] \notin {"stage", "unstage", "patch"}
          \/ pc[k] \in {"skip", "mailed", "purge", "verify", "keep"} /\ pc'[k] = "patch"
      BY <1>12, <2>2 DEF Decides, Drafts
    <3>2. CASE pc'[k] \notin {"stage", "unstage", "patch"}
      BY <1>4, <2>1, <3>2 DEF TickExports
    <3>3. CASE pc[k] \in {"skip", "mailed", "purge", "verify", "keep"} /\ pc'[k] = "patch"
      <4>1. ~ Exports(copy'[k])
        BY <1>0, <2>1, <3>3 DEF TickInv, PlaceOf, Mailing, Exports, Late
      <4>2. ~ Exports(plan'[k])
        BY <1>0, <3>3, <4>1, PlannedExport
      <4> QED
        BY <3>3, <4>1, <4>2 DEF TickExports
    <3> QED
      BY <3>1, <3>2, <3>3
  <2>3. CASE pc'[k] = "unstage" /\ ReadParts(k)
    <3>1. pc[k] = "zip" /\ copy[k] \in Ledger
          /\ plan'[k] = [copy[k] EXCEPT !.svc = 1, !.cursor = 0, !.parts = 0]
      BY <1>0, <2>3 DEF ReadParts, Goto, TypeInv, TypeOK, TickOK
    <3>2. plan'[k].parts = 0 /\ SpotOf(plan'[k]) = FirstSpot
      BY <3>1 DEF SpotOf, FirstSpot, Ledger
    <3>3. OnPath(plan'[k], P, n)
      BY <1>1, <3>2 DEF OnPath
    <3> QED
      BY <1>4, <2>1, <2>3, <3>3 DEF TickExports
  <2>4. CASE pc[k] = "page" /\ ReadPage(k)
    <3> PICK led : led = copy[k]
      OBVIOUS
    <3> PICK new : new = plan'[k]
      OBVIOUS
    <3> PICK c : c = buf'[k]
      OBVIOUS
    <3> PICK i : i = led.parts
      OBVIOUS
    <3>1. /\ Follows(t, SpotOf(led), i, SpotOf(new)) /\ new.parts = i + 1
          /\ \A q \in Spot : Reaches(t, SpotOf(led), i, q) =>
               c.cut \/ \A r \in rows[t] : Between(r, SpotOf(led), q) => r \in c.rows
      BY <1>0, <2>1, <2>4, PageTaken
    <3>2. OnPath(led, P, n) /\ i < n /\ pc'[k] = "stage" /\ Exports(led)
      BY <1>0, <1>1, <2>1, <2>4, <1>12 DEF TickExports, PlaceOf, Exports, Decides, Drafts
    <3>3. /\ i \in 0..(n - 1) /\ i + 1 \in 0..n /\ SpotOf(led) = P[i]
          /\ P[i] \in Spot /\ P[i + 1] \in Spot
      BY <1>1, <3>2 DEF OnPath
    <3>4. ASSUME ledger'[t] = led PROVE OnPath(new, P, n)
      <4>1. ledger[at[k]] = copy[k]
        BY <1>0, <1>2, <2>1, <3>2, <3>4, StillCurrent DEF HasRead
      <4>2. Follows(t, P[i], i, P[i + 1])
        BY <1>1, <2>1, <3>2, <3>3, <4>1
      <4>3. SpotOf(new) = P[i + 1]
        BY <1>0, <3>1, <3>3, <4>2, FollowsOnce
      <4> QED
        BY <3>1, <3>3, <4>3 DEF OnPath
    <3>5. c.cut \/ \A r \in rows'[t] : Between(r, P[i], P[i + 1]) => r \in c.rows
      BY <1>1, <3>1, <3>3
    <3>6. pc'[k] = "stage" => copy'[k].parts < n /\ Covers(at[k], buf[k], P, copy[k].parts)'
      BY <2>1, <3>2, <3>5 DEF Covers
    <3> QED
      BY <1>4, <2>1, <3>2, <3>4, <3>6 DEF TickExports
  <2> QED
    BY <2>2, <2>3, <2>4
<1> QED
  BY <1>0, <1>6, <1>8, <1>9, <1>10, <1>11, <1>12, Alone, TickTable

-----------------------------------------------------------------------------
(* Where a page leads depends on the rows alone.                           *)
LEMMA FollowsSame ==
  ASSUME NEW t, NEW p, NEW i, NEW q, rows'[t] = rows[t], Follows(t, p, i, q)
  PROVE  Follows(t, p, i, q)'
<1>1. ExportPage(t, ExportOrder[p.svc], p.cursor)'
        = ExportPage(t, ExportOrder[p.svc], p.cursor)
  BY DEF ExportPage, RowsOf
<1> QED
  BY <1>1 DEF Follows

(* While a saga exports, nothing is purged.                                *)
LEMMA NoPurgeYet ==
  ASSUME ForwardInv, QuietInv, ~ AdminExtends, [Next]_vars, NEW t \in Tenants,
         ws[t] # "NONE", Exports(ledger[t])
  PROVE  rows'[t] = rows[t]
<1>1. Quiet(t) /\ TypeInv
  BY QuietNow DEF Exports, ForwardInv
<1>2. ASSUME NEW k \in Ticks, at[k] = t, Purge(k) PROVE FALSE
  <2>1. copy[k].phase \in Late /\ LagOf(k)
    BY <1>2 DEF Purge, ForwardInv, NoticeInv, TickInv, LagInv
  <2>2. HasRead(k)
    BY <2>1 DEF HasRead, Late
  <2>3. Rank(copy[k].phase) =< Rank(ledger[t].phase)
    BY <1>2, <2>1, <2>2 DEF LagOf
  <2>4. Rank("exporting") = 1 /\ \A p \in Late : Rank(p) \in 3..5
    BY DEF Rank, Late
  <2>5. ledger[t].phase = "exporting"
    BY DEF Exports
  <2> QED
    BY <2>1, <2>3, <2>4, <2>5
<1> QED
  BY <1>1, <1>2, RowsGo

(* A step on a workspace whose saga goes on keeps to its path, made longer *)
(* when a page is taken at its end.                                        *)
LEMMA LongEnough ==
  ASSUME ForwardInv, NEW t \in Tenants, \E n \in Nat : \E P : Exported(t, P, n)
  PROVE  \E n \in Nat : \E P : /\ Exported(t, P, n)
                               /\ \A k \in Ticks : at[k] = t /\ ReadPage(k) => copy[k].parts < n
<1>1. PICK n \in Nat : \E P : Exported(t, P, n)
  OBVIOUS
<1>2. PICK P : Exported(t, P, n)
  BY <1>1
<1>3. ASSUME NEW k \in Ticks, at[k] = t, ReadPage(k)
      PROVE  OnPath(copy[k], P, n) /\ copy[k].parts \in 0..n
  <2>1. Exports(copy[k])
    BY <1>3 DEF ForwardInv, PlaceInv, PlaceOf, ReadPage, Exports
  <2> QED
    BY <1>2, <1>3, <2>1 DEF Exported, TickExports, OnPath
<1>4. CASE \A k \in Ticks : at[k] = t /\ ReadPage(k) => copy[k].parts < n
  BY <1>2, <1>4
<1>5. ASSUME NEW k \in Ticks, at[k] = t, ReadPage(k), ~ (copy[k].parts < n)
      PROVE  \E m \in Nat : \E Q : /\ Exported(t, Q, m)
               /\ \A j \in Ticks : at[j] = t /\ ReadPage(j) => copy[j].parts < m
  <2>0. TypeInv
    BY DEF ForwardInv
  <2>1. copy[k].parts = n /\ SpotOf(copy[k]) = P[n]
    BY <1>3, <1>5 DEF OnPath
  <2> PICK led : led = copy[k]
    OBVIOUS
  <2> PICK new : new = plan'[k]
    OBVIOUS
  <2> PICK c : c = buf'[k]
    OBVIOUS
  <2>2. Follows(t, SpotOf(led), led.parts, SpotOf(new))
    BY <1>5, <2>0, PageTaken
  <2> PICK q : q = SpotOf(new)
    OBVIOUS
  <2> PICK Q : Q = [m \in 0..(n + 1) |-> IF m =< n THEN P[m] ELSE q]
    OBVIOUS
  <2>3. Follows(t, P[n], n, q)
    BY <2>1, <2>2
  <2>4. Exported(t, Q, n + 1)
    BY <1>2, <2>0, <2>3, Extend
  <2>5. \A j \in Ticks : at[j] = t /\ ReadPage(j) => copy[j].parts < n + 1
    BY <1>3
  <2>6. n + 1 \in Nat
    OBVIOUS
  <2> QED
    BY <2>4, <2>5, <2>6
<1> QED
  BY <1>4, <1>5

(* A saga that goes on keeps to a path long enough for the step.           *)
LEMMA ExportedStep ==
  ASSUME ForwardInv, ForwardInv', QuietInv, ~ AdminExtends, [Next]_vars,
         NEW t \in Tenants, ws[t] # "NONE", ledger[t].phase # "none",
         NEW n \in Nat, NEW P, Exported(t, P, n),
         \A k \in Ticks : at[k] = t /\ ReadPage(k) => copy[k].parts < n
  PROVE  Exported(t, P, n)'
<1>0. /\ TypeInv /\ NoticeInv /\ StampInv /\ Quiet(t)
      /\ staging \in [Tenants -> [0..MaxParts -> Content]]
  BY QuietNow DEF ForwardInv, TypeInv, TypeOK, BucketOK
<1>1. rows'[t] \subseteq rows[t]
  BY <1>0, RowsGo
<1>2. \A i \in 0..(n - 1) : Reaches(t, P[i], i, P[i + 1])'
  <2> SUFFICES ASSUME NEW i \in 0..(n - 1) PROVE Reaches(t, P[i], i, P[i + 1])'
    OBVIOUS
  <2>1. Reaches(t, P[i], i, P[i + 1])
    BY DEF Exported
  <2> QED
    BY <1>0, <1>1, <2>1, ReachesStable
<1>3. ASSUME Exports(ledger'[t])
      PROVE  /\ OnPath(ledger'[t], P, n)
             /\ \A i \in 0..(n - 1) : Follows(t, P[i], i, P[i + 1])'
  <2>1. Exports(ledger[t])
    <3>1. /\ Rank(ledger[t].phase) =< Rank(ledger'[t].phase)
          /\ ledger'[t].mode = "archive" => ledger[t].mode = "archive"
      BY <1>0, LedgerForward
    <3>2. Rank("exporting") = 1 /\ \A p : p # "exporting" => Rank(p) > 1
      BY DEF Rank
    <3>3. ledger[t].phase # "exporting" =>
            Rank(ledger[t].phase) > 1 /\ Rank(ledger[t].phase) \in Int
      BY <3>2, RankType
    <3> QED
      BY <1>3, <3>1, <3>2, <3>3 DEF Exports
  <2>2. ASSUME NEW led, OnPath(led, P, n), SameLedger(ledger'[t], led)
        PROVE  OnPath(ledger'[t], P, n)
    BY <2>2 DEF SameLedger, OnPath, SpotOf
  <2>3. OnPath(ledger'[t], P, n)
    <3>1. OnPath(ledger[t], P, n)
      BY <2>1 DEF Exported
    <3>2. ASSUME NEW k \in Ticks, at[k] = t, pc[k] = "patch",
                 ledger[t].upd = copy[k].upd, Written(t, plan[k])
          PROVE  OnPath(ledger'[t], P, n)
      <4>1. ledger[t] = copy[k]
        BY <1>0, <3>2, ReadAndPlanned
      <4>2. Exports(plan[k])
        BY <1>3, <3>2 DEF Written, SameLedger, Exports
      <4>3. OnPath(plan[k], P, n)
        BY <3>2, <4>1, <4>2 DEF Exported, TickExports
      <4> QED
        BY <2>2, <3>2, <4>3 DEF Written
    <3>3. Absent.phase = "none"
      BY DEF Absent, NewLedger
    <3> QED
      BY <1>0, <1>3, <2>2, <3>1, <3>2, <3>3, LedgerSteps DEF LedgerStep, Written, Exports
  <2>4. ASSUME NEW i \in 0..(n - 1) PROVE Follows(t, P[i], i, P[i + 1])'
    <3>1. Follows(t, P[i], i, P[i + 1]) /\ rows'[t] = rows[t]
      BY <2>1, NoPurgeYet DEF Exported
    <3> QED
      BY <3>1, FollowsSame
  <2> QED
    BY <2>3, <2>4
<1>4. ASSUME NEW k \in Ticks, at'[k] = t PROVE TickExports(k, P, n)'
  BY <1>1, <1>4, TickExportsStep
<1>5. ASSUME NEW i \in 0..MaxParts, staging'[t][i].here
      PROVE  i < n /\ Covers(t, staging[t][i], P, i)'
  <2> PICK c : c = staging'[t][i]
    OBVIOUS
  <2>1. i < n /\ Covers(t, c, P, i)
    <3>1. CASE c = staging[t][i]
      BY <1>5, <3>1 DEF Exported
    <3>2. c # Gone
      BY <1>5 DEF Gone
    <3>3. ASSUME NEW k \in Ticks, pc[k] = "stage", at[k] = t, i = copy[k].parts, c = buf[k]
          PROVE  i < n /\ Covers(t, c, P, i)
      BY <3>3 DEF Exported, TickExports
    <3> QED
      BY <1>0, <3>1, <3>2, <3>3, StagingSteps DEF StagingStep
  <2> QED
    BY <1>1, <2>1 DEF Covers
<1>6. Path(P, n)
  BY DEF Exported
<1> QED
  BY <1>2, <1>3, <1>4, <1>5, <1>6 DEF Exported

(* A workspace in the saga has a path, and its parts cover it: a new saga  *)
(* stages nothing before its first page, and one that goes on keeps to it. *)
LEMMA StageStep ==
  ASSUME ForwardInv, ForwardInv', Stable, QuietInv, StageInv, ~ AdminExtends, [Next]_vars
  PROVE  StageInv'
<1> SUFFICES ASSUME NEW t \in Tenants, ws'[t] # "NONE"
             PROVE  IF ledger'[t].phase = "none" THEN staging'[t] = NoParts
                    ELSE \E n \in Nat : \E P : Exported(t, P, n)'
  BY DEF StageInv, StagedOf
<1>0. /\ TypeInv /\ NoticeInv /\ StampInv /\ PlaceInv /\ LagInv
      /\ NoticeInv' /\ TypeInv'
      /\ ws[t] # "NONE" /\ StagedOf(t)
  BY DEF ForwardInv, Stable, StageInv
<1>1. Absent.phase = "none"
  BY DEF Absent, NewLedger
<1>2. CASE ledger[t].phase = "none"
  <2>1. ASSUME NEW k \in Ticks, at[k] = t PROVE ~ HasRead(k)
    BY <1>0, <1>2, <2>1 DEF LagInv, LagOf
  <2>2. staging'[t] = NoParts
    <3>1. staging[t] = NoParts /\ staging'[t] \in [0..MaxParts -> Content]
      BY <1>0, <1>2 DEF StagedOf, TypeInv, TypeOK, BucketOK
    <3>2. ~ \E k \in Ticks : pc[k] = "stage" /\ at[k] = t
      BY <1>0, <2>1 DEF NoticeInv, TickInv, HasRead
    <3>3. \A i \in 0..MaxParts : staging'[t][i] = Gone
      BY <1>0, <3>1, <3>2, StagingSteps DEF StagingStep, NoParts
    <3> QED
      BY <3>1, <3>3 DEF NoParts
  <2>3. CASE ledger'[t].phase = "none"
    BY <2>2, <2>3
  <2>4. CASE ledger'[t].phase # "none"
    <3>1. PICK j \in Ticks : at[j] = t /\ pc[j] = "create" /\ Written(t, plan[j])
      BY <1>0, <1>1, <1>2, <2>4, LedgerSteps DEF LedgerStep
    <3>2. ledger'[t].parts = 0 /\ SpotOf(ledger'[t]) = FirstSpot
      BY <1>0, <3>1 DEF PlaceInv, PlaceOf, Written, SameLedger, SpotOf, FirstSpot
    <3>3. ASSUME NEW k \in Ticks, at'[k] = t PROVE copy'[k].phase = "none"
      <4>1. CASE at[k] = t /\ copy'[k] = copy[k]
        BY <2>1, <4>1 DEF HasRead
      <4>2. CASE SameTick(k) \/ Hops(k) \/ Decides(k)
        BY <3>3, <4>1, <4>2 DEF SameTick, Hops, Decides, Drafts
      <4>3. CASE Back(k)
        BY <1>1, <4>3 DEF Back
      <4>4. CASE Begins(k)
        <5>1. t \notin Unfinished
          BY <1>2 DEF Unfinished
        <5> QED
          BY <3>3, <4>1, <4>4, <5>1 DEF Begins
      <4>5. CASE Opens(k)
        BY <1>0, <4>5 DEF Opens, NoticeInv, TickInv, PlaceInv, PlaceOf, HasRead
      <4> QED
        BY <1>0, <4>2, <4>3, <4>4, <4>5, Alone, TickTable
    <3> PICK P : P = [m \in 0..0 |-> FirstSpot]
      OBVIOUS
    <3>4. Path(P, 0)
      <4>1. FirstSpot \in Spot /\ P \in [0..0 -> Spot] /\ P[0] = FirstSpot
        BY Sizes DEF FirstSpot, Spot
      <4>2. ASSUME NEW r \in Row, Before(r, FirstSpot) PROVE FALSE
        <5>1. r[2] \in Nat \ {0}
          BY BoundAssumption
        <5> QED
          BY <4>2, <5>1 DEF Before, FirstSpot
      <4> QED
        BY <4>1, <4>2 DEF Path
    <3>5. OnPath(ledger'[t], P, 0)
      BY <3>2 DEF OnPath
    <3>6. ASSUME NEW k \in Ticks, at'[k] = t PROVE TickExports(k, P, 0)'
      <4>1. ~ HasRead(k)' /\ copy'[k].phase = "none"
        BY <3>3, <3>6 DEF HasRead
      <4>2. pc'[k] \notin {"stage", "unstage", "patch"}
        BY <1>0, <4>1 DEF NoticeInv, TickInv, HasRead
      <4> QED
        BY <4>1, <4>2 DEF TickExports, Exports
    <3>7. \A i \in 0..MaxParts : ~ staging'[t][i].here
      BY <2>2 DEF NoParts, Gone
    <3>8. Exported(t, P, 0)'
      BY <3>4, <3>5, <3>6, <3>7 DEF Exported
    <3> QED
      BY <2>4, <3>8
  <2> QED
    BY <2>3, <2>4
<1>3. CASE ledger[t].phase # "none"
  <2>1. ledger'[t].phase # "none"
    BY <1>0, <1>3, LedgerForward
  <2>2. \E n \in Nat : \E P : Exported(t, P, n)
    BY <1>0, <1>3 DEF StagedOf
  <2>3. PICK n \in Nat : \E P : /\ Exported(t, P, n)
               /\ \A k \in Ticks : at[k] = t /\ ReadPage(k) => copy[k].parts < n
    BY <2>2, LongEnough
  <2>4. PICK P : /\ Exported(t, P, n)
                 /\ \A k \in Ticks : at[k] = t /\ ReadPage(k) => copy[k].parts < n
    BY <2>3
  <2>5. Exported(t, P, n)'
    BY <1>0, <1>3, <2>4, ExportedStep
  <2> QED
    BY <2>1, <2>5
<1> QED
  BY <1>2, <1>3

-----------------------------------------------------------------------------
(* An export that has reached its end, with all its parts, is whole.       *)
LEMMA ExportWhole ==
  ASSUME TypeInv, NEW t \in Tenants, NEW n \in Nat, NEW P, Exported(t, P, n),
         NEW led \in Roomy, OnPath(led, P, n), led.svc = N + 1,
         \A i \in 0..(led.parts - 1) : staging[t][i].here,
         NEW c, c = Assemble(t, led.parts)
  PROVE  c.cut \/ rows[t] \subseteq c.rows
<1>0. /\ led.parts \in 0..n /\ P[led.parts].svc = N + 1 /\ N \in Nat /\ MaxParts \in Nat
      /\ led.parts =< MaxParts
  BY Sizes DEF OnPath, SpotOf, Roomy, Ledger
<1>1. /\ c.rows = UNION {staging[t][i].rows : i \in 0..(led.parts - 1)}
      /\ c.cut = \E i \in 0..(led.parts - 1) : staging[t][i].cut
  BY DEF Assemble
<1> SUFFICES ASSUME ~ c.cut, NEW r \in rows[t] PROVE r \in c.rows
  OBVIOUS
<1>2. Before(r, P[led.parts])
  <2>1. r \in Row /\ r[1] \in Services
    BY RowKeys, BoundAssumption
  <2>2. PICK j \in 1..N : ExportOrder[j] = r[1]
    BY <2>1, OrderAssumption DEF N
  <2> QED
    BY <1>0, <2>2 DEF Before
<1>3. PICK i \in 0..(led.parts - 1) : Between(r, P[i], P[i + 1])
  BY <1>0, <1>2, RowKeys DEF Exported, Path
<1>4. i \in 0..MaxParts /\ staging[t][i].here
  BY <1>0
<1>5. Covers(t, staging[t][i], P, i)
  BY <1>4 DEF Exported
<1>6. ~ staging[t][i].cut
  BY <1>1
<1> QED
  BY <1>1, <1>3, <1>5, <1>6 DEF Covers

(* What zipStep packs has all that is left, or is marked.                  *)
LEMMA PackedWhole ==
  ASSUME ForwardInv, SweepInv, QuietInv, StageInv, ~ AdminExtends,
         NEW k \in Ticks, ReadParts(k), pc'[k] = "put",
         NEW t, t = at[k], NEW c, c = buf'[k]
  PROVE  c.cut \/ rows[t] \subseteq c.rows
<1>0. /\ t \in Tenants /\ buf \in [Ticks -> Content] /\ copy[k] \in Roomy
      /\ pc \in [Ticks -> Calls] /\ PlaceOf(k) /\ pc[k] = "zip" /\ TypeInv
  BY DEF ForwardInv, TypeInv, TypeOK, TickOK, RoomInv, PlaceInv, ReadParts
<1> PICK led : led = copy[k]
  OBVIOUS
<1>1. /\ \A i \in 0..(led.parts - 1) : staging[t][i].here
      /\ c \in Fits(Assemble(t, led.parts))
  BY <1>0 DEF ReadParts, Goto
<1>2. rows[t] = {} \/ ws[t] # "NONE"
  BY <1>0, QuietNow DEF ForwardInv, SweepInv, TenantSwept
<1>3. CASE ws[t] # "NONE"
  <2>1. Exports(led) /\ led.svc = N + 1 /\ HasRead(k)
    BY <1>0 DEF PlaceOf, Exports, HasRead
  <2>2. ledger[t].phase # "none"
    BY <1>3, <2>1 DEF ForwardInv, LagInv, LagOf
  <2>3. PICK n \in Nat : \E P : Exported(t, P, n)
    BY <1>0, <1>3, <2>2 DEF StageInv, StagedOf
  <2>4. PICK P : Exported(t, P, n)
    BY <2>3
  <2>5. OnPath(led, P, n)
    BY <2>1, <2>4 DEF Exported, TickExports
  <2> PICK a : a = Assemble(t, led.parts)
    OBVIOUS
  <2>6. a.cut \/ rows[t] \subseteq a.rows
    BY <1>0, <1>1, <2>1, <2>4, <2>5, ExportWhole
  <2>7. c = a \/ c.cut
    BY <1>1 DEF Fits
  <2> QED
    BY <2>6, <2>7
<1> QED
  BY <1>2, <1>3

(* What a step does to the last ZIP.                                       *)
LEMMA ZipSteps ==
  ASSUME TypeInv, [Next]_vars, NEW t \in Tenants
  PROVE  \/ zipped'[t] = zipped[t]
         \/ \E k \in Ticks : pc[k] = "put" /\ at[k] = t /\ zipped'[t] = buf[k]
<1>0. zipped \in [Tenants -> Content] /\ at \in [Ticks -> Tenants]
  BY DEF TypeInv, TypeOK, HistoryOK, TickOK
<1>1. ASSUME NEW k \in Ticks, PutZip(k)
      PROVE  \/ zipped'[t] = zipped[t]
             \/ pc[k] = "put" /\ at[k] = t /\ zipped'[t] = buf[k]
  BY <1>0, <1>1 DEF PutZip
<1>2. ASSUME NEW k \in Ticks, TickStep(k), ~ PutZip(k) PROVE zipped' = zipped
  <2>1. CASE ReadLedger(k) \/ Start(k) \/ Count(k) \/ Create(k) \/ Mark(k)
             \/ SkipExport(k) \/ ReadPage(k) \/ StagePart(k) \/ ReadParts(k)
    BY <2>1 DEF ReadLedger, Start, Count, Create, Mark, SkipExport, ReadPage,
       StagePart, ReadParts, history
  <2>2. CASE HeadZip(k) \/ Unstage(k) \/ Mail(k) \/ MailZipGone(k)
             \/ UpsertIndex(k) \/ Send(k) \/ MailResult(k)
    BY <2>2 DEF HeadZip, Unstage, Mail, MailZipGone, UpsertIndex, Send,
       MailResult, history
  <2>3. CASE Purge(k) \/ WriteTombstone(k) \/ DeleteAccount(k)
    BY <2>3 DEF Purge, WriteTombstone, DeleteAccount, history
  <2>4. CASE KeepLedger(k) \/ DeleteLedger(k) \/ Patch(k) \/ Catch(k)
    BY <2>4 DEF KeepLedger, DeleteLedger, Patch, Catch, history
  <2>5. CASE Verify(k)
    BY <2>5, Zenon DEF Verify, history
  <2>6. CASE PurgeBudget(k) \/ Throw(k) \/ Die(k)
    BY <2>6 DEF PurgeBudget, Throw, Die, history
  <2> QED
    BY <1>2, <2>1, <2>2, <2>3, <2>4, <2>5, <2>6 DEF TickStep, Tick
<1>3. ASSUME NEW u \in Tenants, (\E r \in Row : OwnerWrite(u, r)) \/ SignIn(u)
             \/ EndTrial(u) \/ SetTrialExpiry(u) \/ DeleteUserEnd(u)
             \/ DeleteUserDies(u) \/ BucketRule(u)
      PROVE  zipped' = zipped
  BY <1>3 DEF OwnerWrite, StartWrite, CommitWrite, SignIn, EndTrial, SetTrialExpiry, DeleteUserEnd,
     DeleteUserDies, BucketRule, history
<1>4. ASSUME NEW u \in Tenants, NEW m, DeleteUser(u, m) PROVE zipped' = zipped
  BY <1>4 DEF DeleteUser, history
<1>5. ASSUME NEW d \in Deleters, DeleteZip(d) \/ DeleteIndex(d) \/ DeleteDies(d)
      PROVE  zipped' = zipped
  BY <1>5 DEF DeleteZip, DeleteIndex, DeleteDies, history
<1>6. ASSUME NEW d \in Deleters, NEW u \in Tenants, FindArchive(d, u)
      PROVE  zipped' = zipped
  BY <1>6 DEF FindArchive, history
<1>7. DeleteOrphans \/ Advance \/ UNCHANGED vars => zipped' = zipped
  BY DEF DeleteOrphans, Advance, vars, history
<1> QED
  BY <1>1, <1>2, <1>3, <1>4, <1>5, <1>6, <1>7 DEF Next, TickStep

(* The ZIP keeps what is left: rows only go, and a new ZIP has them too.   *)
LEMMA KeptStable ==
  ASSUME TypeInv, QuietInv, KeptInv, ~ AdminExtends, [Next]_vars,
         NEW t \in Tenants, Quiet(t), Kept(t)
  PROVE  Kept(t)'
<1>1. rows'[t] \subseteq rows[t]
  BY RowsGo
<1>2. CASE zipped'[t] = zipped[t]
  BY <1>1, <1>2 DEF Kept
<1>3. ASSUME NEW k \in Ticks, pc[k] = "put", at[k] = t, zipped'[t] = buf[k]
      PROVE  Kept(t)'
  <2>1. buf[k].cut \/ rows[t] \subseteq buf[k].rows
    BY <1>3 DEF KeptInv
  <2> QED
    BY <1>1, <1>3, <2>1 DEF Kept
<1> QED
  BY <1>2, <1>3, ZipSteps

(* What a packed ledger owes stays kept: a ledger gets there from a tick   *)
(* that has put the ZIP, and that ZIP was whole (PackedWhole).             *)
LEMMA KeptStep ==
  ASSUME ForwardInv, SweepInv, QuietInv, StageInv, KeptInv, ~ AdminExtends, [Next]_vars
  PROVE  KeptInv'
<1>0. /\ TypeInv /\ NoticeInv /\ StampInv /\ PlaceInv
      /\ at \in [Ticks -> Tenants]
  BY DEF ForwardInv, TypeInv, TypeOK, TickOK
<1>1. \A t \in Tenants : Quiet(t) /\ Kept(t) => Kept(t)'
  BY <1>0, KeptStable
<1>2. Absent.phase = "none" /\ ~ Owed(Absent)
  BY DEF Absent, NewLedger, Owed, Packed, Late
<1>3. ASSUME NEW t \in Tenants, Owed(ledger'[t]) PROVE Kept(t)'
  <2>1. ASSUME Owed(ledger[t]) PROVE Kept(t)'
    BY <1>0, <1>1, <2>1, QuietNow DEF KeptInv, Owed, Packed, Late
  <2>2. ASSUME NEW k \in Ticks, at[k] = t, pc[k] = "create" PROVE ~ Owed(plan[k])
    BY <1>0, <2>2 DEF PlaceInv, PlaceOf, Owed, Packed, Late
  <2>3. ASSUME NEW k \in Ticks, at[k] = t, pc[k] = "patch", Owed(plan[k]) PROVE Kept(t)'
    <3>1. Kept(t) /\ HasRead(k)
      BY <1>0, <2>3, ReadAndPlanned DEF KeptInv, Owed, Writing
    <3> QED
      BY <1>0, <1>1, <2>3, <3>1, QuietNow
  <2>4. \A led : SameLedger(ledger'[t], led) => Owed(led)
    BY <1>3 DEF SameLedger, Owed
  <2> QED
    BY <1>0, <1>2, <1>3, <2>1, <2>2, <2>3, <2>4, LedgerSteps DEF LedgerStep, Written
<1>4. ASSUME NEW k \in Ticks
      PROVE  /\ Owed(copy'[k]) => Kept(at[k])'
             /\ pc'[k] \in Writing \ {"put"} /\ Owed(plan'[k]) => Kept(at[k])'
             /\ pc'[k] = "put" => buf'[k].cut \/ rows'[at'[k]] \subseteq buf'[k].rows
  <2> PICK t : t = at[k]
    OBVIOUS
  <2>0. /\ TickInv(k) /\ PlaceOf(k) /\ StampOf(k) /\ t \in Tenants
        /\ HasRead(k) => Quiet(t)
        /\ Owed(copy[k]) => Kept(t) /\ HasRead(k)
        /\ pc[k] \in Writing \ {"put"} /\ Owed(plan[k]) => Kept(t)
        /\ pc[k] = "put" => buf[k].cut \/ rows[t] \subseteq buf[k].rows
        /\ pc[k] \in Writing => HasRead(k)
    BY <1>0, QuietNow DEF NoticeInv, TickInv, PlaceInv, StampInv, KeptInv, HasRead, Owed,
       Packed, Late, Writing
  <2>1. HasRead(k) => rows'[t] \subseteq rows[t]
    BY <1>0, <2>0, RowsGo
  <2>2. ASSUME at'[k] = t, Kept(t)' PROVE Kept(at[k])'
    BY <2>2 DEF Kept
  <2>3. ASSUME at'[k] = t, Kept(t), HasRead(k) PROVE Kept(at[k])'
    BY <1>1, <2>0, <2>2, <2>3
  <2>4. CASE SameTick(k) /\ buf'[k] = buf[k]
    BY <2>0, <2>1, <2>3, <2>4 DEF SameTick, Writing
  <2>5. CASE Back(k)
    BY <1>2, <2>5 DEF Back, Writing
  <2>6. CASE Begins(k)
    <3>1. CASE pc'[k] = "start" /\ copy'[k] = copy[k]
      BY <2>0, <2>6, <3>1 DEF Begins, TickInv, HasRead, Writing, Owed, Packed, Late
    <3>2. ASSUME NEW u \in Unfinished, at'[k] = u, copy'[k] = ledger[u],
                 pc'[k] = StepOf(ledger[u])
          PROVE  /\ Owed(copy'[k]) => Kept(at[k])'
                 /\ pc'[k] \notin Writing
      <4>1. u \in Tenants /\ ledger[u].phase \notin {"none", "account_deleted"}
        BY DEF Unfinished
      <4>2. pc'[k] \notin Writing
        BY <1>0, <3>2, <4>1, StepOfPlace DEF TypeInv, TypeOK, SagaOK, Writing
      <4>3. Owed(ledger[u]) => Kept(u)'
        BY <1>0, <1>1, <4>1, QuietNow DEF KeptInv, Owed
      <4> QED
        BY <3>2, <4>2, <4>3 DEF Kept
    <3> QED
      BY <2>6, <3>1, <3>2 DEF Begins, Writing
  <2>7. CASE Opens(k)
    <3>1. copy'[k].phase = "none" /\ pc'[k] \in {"count", "create"}
      BY <2>0, <2>7 DEF Opens, TickInv, PlaceOf, HasRead
    <3> QED
      BY <3>1 DEF Owed, Packed, Late, Writing
  <2>8. CASE Hops(k)
    <3>1. at'[k] = t /\ copy'[k] = copy[k] /\ plan'[k] = plan[k] /\ pc'[k] # "put"
      BY <2>8 DEF Hops
    <3>2. CASE pc'[k] = "head"
      <4>1. pc[k] = "put" /\ zipped'[t] = buf[k] /\ HasRead(k)
        BY <1>0, <2>0, <2>8, <3>2 DEF Hops, PutZip, TypeInv, TypeOK, HistoryOK, Writing
      <4>2. Kept(t)'
        BY <2>0, <2>1, <4>1 DEF Kept
      <4> QED
        BY <2>2, <3>1, <4>2
    <3>3. CASE pc'[k] # "head"
      <4>1. pc'[k] \in Writing => pc[k] \in Writing \ {"put"}
        BY <2>8, <3>3 DEF Hops, Writing
      <4> QED
        BY <2>0, <2>3, <3>1, <4>1
    <3> QED
      BY <3>2, <3>3
  <2>9. CASE Decides(k)
    <3>0. at'[k] = t /\ copy'[k] = copy[k]
      BY <2>9 DEF Decides, Drafts
    <3>1. Owed(copy'[k]) => Kept(at[k])'
      BY <2>0, <2>3, <3>0
    <3>2. CASE pc'[k] = "put"
      <4>1. ReadParts(k) /\ HasRead(k)
        BY <2>0, <2>9, <3>2 DEF Decides, Drafts, PlaceOf, HasRead
      <4> PICK c : c = buf'[k]
        OBVIOUS
      <4>2. c.cut \/ rows[t] \subseteq c.rows
        BY <3>2, <4>1, PackedWhole
      <4> QED
        BY <2>1, <3>0, <3>1, <3>2, <4>1, <4>2
    <3>3. ASSUME pc'[k] # "put", Owed(plan'[k]) PROVE Owed(copy[k])
      <4>1. CASE pc[k] = "mailed"
        <5>1. HasRead(k) /\ pc[k] \in Writing
          BY <2>0, <4>1 DEF Writing
        <5>2. copy[k].phase = "exported" /\ plan'[k].mode = plan[k].mode
          BY <2>0, <2>9, <4>1 DEF Decides, Drafts, PlaceOf, Mailing
        <5> QED
          BY <2>0, <3>3, <5>1, <5>2 DEF StampOf, Owed, Packed
      <4>2. CASE pc[k] # "mailed"
        BY <2>0, <2>9, <3>3, <4>2 DEF Decides, Drafts, PlaceOf, TickInv, Mailing, Owed,
           Packed, Late
      <4> QED
        BY <4>1, <4>2
    <3> QED
      BY <3>0, <3>1, <3>2, <3>3
  <2> QED
    BY <1>0, <2>4, <2>5, <2>6, <2>7, <2>8, <2>9, Alone, TickTable
<1> QED
  BY <1>3, <1>4 DEF KeptInv, Owed

-----------------------------------------------------------------------------
(* The argument for the archive is inductive where the admin leaves the    *)
(* trials alone.                                                           *)
ContentInv == ForwardInv /\ QuietInv /\ StageInv /\ KeptInv

LEMMA ContentInit == Init => ContentInv
<1> SUFFICES ASSUME Init PROVE ContentInv
  OBVIOUS
<1>1. Absent.phase = "none"
  BY DEF Absent, NewLedger
<1>2. QuietInv
  BY QuietInit
<1>3. StageInv
  BY <1>1 DEF Init, StageInv, StagedOf
<1>4. KeptInv
  BY <1>1 DEF Init, KeptInv, Owed, Packed, Late, Writing
<1> QED
  BY <1>2, <1>3, <1>4, ForwardInit DEF ContentInv

LEMMA ContentStep ==
  ASSUME ContentInv, ~ AdminExtends, [Next]_vars PROVE ContentInv'
<1>1. ForwardInv /\ QuietInv /\ StageInv /\ KeptInv
  BY DEF ContentInv
<1>2. TypeInv /\ NoticeInv /\ SweepInv
  BY <1>1 DEF ForwardInv
<1>3. ForwardInv' /\ Stable
  BY <1>1, ForwardStep
<1>4. QuietInv' /\ StageInv' /\ KeptInv'
  BY <1>1, <1>2, <1>3, QuietStep, StageStep, KeptStep
<1> QED
  BY <1>3, <1>4 DEF ContentInv

(* What the purge deletes of a workspace that is being archived is in the  *)
(* ZIP, or that ZIP is marked truncated, as long as the admin does not     *)
(* move the end of a trial (run saga_stale_candidate is that race).                                *)
THEOREM NothingLostUnarchivedHolds == ~ AdminExtends /\ Spec => NothingLostUnarchived
<1>1. ~ AdminExtends /\ ContentInv /\ [Next]_vars => ContentInv'
  BY ContentStep
<1>2. ~ AdminExtends /\ ContentInv /\ [Next]_vars =>
        \A t \in Tenants : \A r \in rows[t] \ rows'[t] :
          ledger[t].mode = "archive" /\ ledger[t].phase # "none"
            => zipped[t].cut \/ r \in zipped[t].rows
  <2> SUFFICES ASSUME ContentInv, ~ AdminExtends, [Next]_vars, NEW t \in Tenants,
                      NEW r \in rows[t] \ rows'[t], ledger[t].mode = "archive"
               PROVE  zipped[t].cut \/ r \in zipped[t].rows
    OBVIOUS
  <2>1. TypeInv /\ NoticeInv /\ SweepInv /\ QuietInv /\ LagInv /\ KeptInv
    BY DEF ContentInv, ForwardInv
  <2>2. PICK k \in Ticks : Purge(k) /\ at[k] = t
    BY <2>1, OnlyPurgeDeletes
  <2>3. copy[k].phase \in Late
    BY <2>1, <2>2 DEF Purge, NoticeInv, TickInv
  <2>4. ws[t] # "NONE"
    BY <2>1, QuietNow DEF SweepInv, TenantSwept
  <2>5. copy[k].mode = "archive"
    BY <2>1, <2>2, <2>3, <2>4 DEF LagInv, LagOf, HasRead, Late
  <2> QED
    BY <2>1, <2>2, <2>3, <2>5 DEF KeptInv, Owed, Kept, Packed
<1> SUFFICES ASSUME ~ AdminExtends PROVE Spec => NothingLostUnarchived
  OBVIOUS
<1>3. ContentInv /\ [Next]_vars => ContentInv'
  BY <1>1
<1>4. ContentInv /\ [Next]_vars =>
        \A t \in Tenants : \A r \in rows[t] \ rows'[t] :
          ledger[t].mode = "archive" /\ ledger[t].phase # "none"
            => zipped[t].cut \/ r \in zipped[t].rows
  BY <1>2
<1> QED
  BY <1>3, <1>4, ContentInit, PTL DEF Spec, NothingLostUnarchived
=============================================================================

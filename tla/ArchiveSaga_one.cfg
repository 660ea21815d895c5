SPECIFICATION FairSpec
CONSTANTS
  Tenants = {t1}
  Legacy = {}
  Ticks = {k1}
  PageRows = 1
  PurgeRows = 1
  MaxParts = 2
  ZipRows = 3
  TokenTtl = 1
  RequestTtl = 1
  ArchiveDelay = 2
  ArchiveDays = 2
  LinkTtl = 1
  Deleters = {"cron", "person"}
  ZipRule = 2
  AdminExtends = FALSE
  MaxFaults = 1
  MaxWrites = 20
  Services <- MCServices
  ExportOrder <- MCExportOrder
  PurgeOrder <- MCPurgeOrder
  Row <- MCFewRow
  Paged <- MCPaged
  Checked <- MCChecked
  Guarded <- MCGuarded
CHECK_DEADLOCK FALSE
INVARIANTS SagaWellFormed
PROPERTIES NoticeBeforePurge NothingLostUnarchived EventuallyErased

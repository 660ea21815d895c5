SPECIFICATION Spec
CONSTANTS
  Tenants = {t1}
  Legacy = {}
  Ticks = {k1}
  PageRows = 1
  PurgeRows = 1
  MaxParts = 3
  ZipRows = 3
  TokenTtl = 1
  RequestTtl = 0
  ArchiveDelay = 1
  ArchiveDays = 1
  LinkTtl = 1
  Deleters = {"person"}
  ZipRule = 2
  AdminExtends = TRUE
  MaxFaults = 0
  MaxWrites = 20
  Services <- MCServices
  ExportOrder <- MCExportOrder
  PurgeOrder <- MCPurgeOrder
  Row <- MCOneRow
  Paged <- MCPaged
  Checked <- MCChecked
  Guarded <- MCGuarded
INVARIANT ArchivingNotActive
CHECK_DEADLOCK FALSE

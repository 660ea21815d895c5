SPECIFICATION Spec
CONSTANTS
  Tenants = {t1}
  Legacy = {}
  Ticks = {k1, k2}
  PageRows = 2
  PurgeRows = 2
  MaxParts = 2
  ZipRows = 3
  TokenTtl = 1
  RequestTtl = 0
  ArchiveDelay = 1
  ArchiveDays = 1
  LinkTtl = 0
  Deleters = {}
  ZipRule = 2
  AdminExtends = TRUE
  MaxFaults = 0
  MaxWrites = 8
  Services <- MCServices
  ExportOrder <- MCExportOrder
  PurgeOrder <- MCPurgeOrder
  Row <- MCOneRow
  Paged <- MCPaged
  Checked <- MCChecked
  Guarded <- MCGuarded
SYMMETRY MCTickSymmetry
CHECK_DEADLOCK FALSE
INVARIANTS AccountDeletedClean
PROPERTIES NothingUndone LifecycleKept

CONSTANTS
  a = a b = b l = l x = x f = f p = p q = q blank = blank scenario = scenario
  w1 = w1 w2 = w2 load = load read = read
  None = None
  Names = {a, b, l, x, f}
  Kind <- MCKind
  Bodies <- MCBodies
  Edits <- MCEdits
  Deletions = {l, x}
  Templates = {blank, scenario}
  Template <- MCTemplate
  Blank = blank
  Pages = {w1, w2}
  Loaders = {load}
  Readers = {read}
  Workloads <- MCWorkloads
SYMMETRY Symmetric
SPECIFICATION Spec
INVARIANTS StoreSound ServedFresh
PROPERTIES EditsAddUp

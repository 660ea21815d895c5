--------------------------- MODULE OntologyProofs ---------------------------
(***************************************************************************)
(* Theorems about the ontology of a workspace, for every number of pages,  *)
(* loads, readers and versions, and for every set of definitions.          *)
(***************************************************************************)
EXTENDS Ontology, TLAPS

(* The types of the values the requests and the pages carry.               *)
AllBodies   == UNION {Bodies[n] : n \in Names}
Definitions == {d \in UNION {[S -> AllBodies] : S \in SUBSET Names} :
                  \A n \in DOMAIN d : d[n] \in Bodies[n]}

M           == work.maxEtag
RowsUpTo(m) == [tpl : Templates, def : Definitions, etag : 1 .. m]
Data        == [etag : 0 .. M, def : Definitions]
Schemas     == [def : Definitions, tpl : Templates, custom : BOOLEAN,
                etag : 0 .. M]

Codes == {None, "OK", "NOT_FOUND", "PRECONDITION_FAILED", "VALIDATION_FAILED"}

Requests ==
  [pc : {"idle", "load", "write", "answer", "row", "served"},
   name : Names \cup {None}, body : AllBodies \cup {None}, ifMatch : Nat,
   was : Data \cup {None}, tpl : Templates \cup {None}, insert : BOOLEAN,
   base : Nat, new : RowsUpTo(M + 1) \cup {None},
   code : Codes,
   etag : 0 .. M, set : Schemas \cup {None}, from : Nat \cup {None},
   got : Schemas \cup {None}]

PageStates ==
  [data : Data \cup {None}, name : Editable \cup {None},
   body : AllBodies \cup {None}, seen : AllBodies \cup {None},
   dirty : BOOLEAN]

(* What a put or a delete makes of a definition.                           *)
Change(r, def) == IF r.body = None THEN RemoveDef(def, r.name)
                  ELSE PutDef(def, r.name, r.body)

(* A put or delete under way, or answered, names its definition.           *)
AskedOK(r) ==
  r.pc \in {"load", "write"} \/ (r.pc = "answer" /\ r.code = "OK") =>
    /\ r.name \in Names
    /\ r.body = None => r.was # None
    /\ r.body # None => r.body \in Bodies[r.name]

(* A request about to write: it comes next after the version it read; if   *)
(* it found no row there may still be none, if it found one that row may   *)
(* have moved on but never back; and while its statement can still apply,  *)
(* the version it changes is the one it read.                              *)
WriteOK(c, r) ==
  /\ r.new \in RowsUpTo(M + 1) /\ r.new.etag = r.base + 1
  /\ ValidateOntology(r.new.def)
  /\ r.insert => r.base = 0
  /\ ~r.insert => IF row = None THEN tomb ELSE r.base <= row.etag
  /\ c \in Pages /\ (IF r.insert THEN row = None /\ ~tomb
                     ELSE row # None /\ row.etag = r.base) =>
       r.new.def = Change(r, Resolved.def)

ReqOK(c, r) ==
  /\ r \in Requests
  /\ r.pc = "idle" => r = Idle
  /\ c \in Readers => r.pc \in {"idle", "row", "served"}
  /\ c \notin Readers => r.pc \in {"idle", "load", "write", "answer"}
  /\ c \in Loaders /\ r.pc = "load" => r.tpl \in Templates
  /\ c \in Pages /\ r.pc # "idle" => page[c].data # None
  /\ c \in Pages => AskedOK(r)
  /\ r.pc = "write" => WriteOK(c, r)

(* A form with edits was loaded from an ontology the page has fetched.     *)
PageOK(g) ==
  /\ g \in PageStates
  /\ g.dirty => /\ g.data # None /\ g.name \in Editable
                /\ g.body \in Bodies[g.name]

StoreOK ==
  /\ work \in Workloads
  /\ row \in RowsUpTo(M) \cup {None}
  /\ row # None => ValidateOntology(row.def)
  /\ tomb \in BOOLEAN
  /\ tomb => row = None
  /\ \A e \in DOMAIN cache : cache[e] \in Schemas

IInv ==
  /\ StoreOK
  /\ req \in [Callers -> Requests]
  /\ \A c \in Callers : ReqOK(c, req[c])
  /\ page \in [Pages -> PageStates]
  /\ \A p \in Pages : PageOK(page[p])

(* A definition by its parts.                                              *)
LEMMA DefinitionParts ==
  \A d : d \in Definitions <=>
    \E S \in SUBSET Names : d \in [S -> AllBodies] /\ \A n \in S : d[n] \in Bodies[n]
BY DEF Definitions

(* A caller is a page, a load or a reader.                                 *)
LEMMA CallerKinds ==
  /\ \A c \in Pages : c \in Callers /\ c \notin Loaders /\ c \notin Readers
  /\ \A c \in Loaders : c \in Callers /\ c \notin Pages /\ c \notin Readers
  /\ \A c \in Readers : c \in Callers /\ c \notin Pages /\ c \notin Loaders
BY ConstantsAssumption DEF Callers

(* Putting and removing a definition leave an ontology; a template is one. *)
LEMMA PutType ==
  ASSUME NEW d \in Definitions, NEW n \in Names, NEW b \in Bodies[n]
  PROVE  PutDef(d, n, b) \in Definitions
<1>1. PICK S \in SUBSET Names : d \in [S -> AllBodies] /\ \A m \in S : d[m] \in Bodies[m]
  BY DefinitionParts
<1>2. b \in AllBodies
  BY DEF AllBodies
<1>3. PutDef(d, n, b) \in [S \cup {n} -> AllBodies]
  BY <1>1, <1>2 DEF PutDef
<1>4. \A m \in S \cup {n} : PutDef(d, n, b)[m] \in Bodies[m]
  BY <1>1 DEF PutDef
<1> QED
  BY <1>3, <1>4, DefinitionParts

LEMMA RemoveType ==
  ASSUME NEW d \in Definitions, NEW n PROVE RemoveDef(d, n) \in Definitions
<1>1. PICK S \in SUBSET Names : d \in [S -> AllBodies] /\ \A m \in S : d[m] \in Bodies[m]
  BY DefinitionParts
<1>3. RemoveDef(d, n) \in [S \ {n} -> AllBodies]
  BY <1>1 DEF RemoveDef
<1>4. \A m \in S \ {n} : RemoveDef(d, n)[m] \in Bodies[m]
  BY <1>1 DEF RemoveDef
<1> QED
  BY <1>3, <1>4, DefinitionParts

LEMMA TemplateType == \A t \in Templates : Template[t] \in Definitions
<1> SUFFICES ASSUME NEW t \in Templates PROVE Template[t] \in Definitions
  OBVIOUS
<1>1. PICK S \in SUBSET Names :
        /\ Template[t] \in [S -> UNION {Bodies[n] : n \in S}]
        /\ \A n \in S : Template[t][n] \in Bodies[n]
  BY ConstantsAssumption
<1>2. Template[t] \in [S -> AllBodies]
  BY <1>1 DEF AllBodies
<1> QED
  BY <1>1, <1>2, DefinitionParts

LEMMA EmptyType == <<>> \in Definitions
<1>1. <<>> \in [{} -> AllBodies]
  OBVIOUS
<1> QED
  BY <1>1, DefinitionParts

(* "Nothing" is not a row.                                                 *)
LEMMA NoneIsNoRow == \A m \in Nat : \A r \in RowsUpTo(m) : r # None
<1> SUFFICES ASSUME NEW m \in Nat, NEW r \in RowsUpTo(m) PROVE r # None
  OBVIOUS
<1>1. PICK S \in SUBSET Names :
        r.def \in [S -> AllBodies] /\ \A n \in S : r.def[n] \in Bodies[n]
  BY DefinitionParts DEF RowsUpTo
<1>2. r.def \in [S -> UNION {Bodies[n] : n \in S}]
  BY <1>1
<1>3. r \in [tpl : Templates, def : [S -> UNION {Bodies[n] : n \in S}], etag : Nat]
  BY <1>2 DEF RowsUpTo
<1> QED
  BY <1>3, NoneAssumption
LEMMA NoneIsNoData == M \in Nat => \A o \in Data : o # None
<1> SUFFICES ASSUME M \in Nat, NEW o \in Data PROVE o # None
  OBVIOUS
<1>1. PICK S \in SUBSET Names :
        o.def \in [S -> AllBodies] /\ \A n \in S : o.def[n] \in Bodies[n]
  BY DefinitionParts DEF Data
<1>2. o.def \in [S -> UNION {Bodies[n] : n \in S}]
  BY <1>1
<1>3. o \in [etag : Nat, def : [S -> UNION {Bodies[n] : n \in S}]]
  BY <1>2 DEF Data
<1> QED
  BY <1>3, NoneAssumption

-----------------------------------------------------------------------------
(* What IInv says of a version of the row, and of the etag.                *)
LEMMA ResolvedType ==
  ASSUME IInv
  PROVE  /\ M \in Nat /\ Resolved.tpl \in Templates
         /\ Resolved.def \in Definitions
         /\ Etag \in 0 .. M
         /\ row = None => Etag = 0
         /\ row # None => Etag = row.etag /\ row \in RowsUpTo(M)
<1>1. M \in Nat
  BY ConstantsAssumption DEF IInv, StoreOK, M
<1>2. CASE row = None
  BY <1>1, <1>2, ConstantsAssumption, TemplateType DEF Resolved, Etag
<1>3. CASE row # None
  BY <1>1, <1>3 DEF IInv, StoreOK, RowsUpTo, Resolved, Etag
<1> QED
  BY <1>1, <1>2, <1>3

(* A step of one request changes nothing else that IInv speaks of.         *)
LEMMA RequestStep ==
  ASSUME IInv, UNCHANGED <<row, tomb, page, work>>,
         \A e \in DOMAIN cache' : cache'[e] \in Schemas,
         NEW c \in Callers, NEW r, req' = [req EXCEPT ![c] = r], ReqOK(c, r)
  PROVE  IInv'
<1>1. Requests' = Requests /\ Schemas' = Schemas /\ M' = M /\ PageStates' = PageStates
  BY DEF Requests, Schemas, M, Data, PageStates
<1>2. StoreOK'
  BY <1>1 DEF IInv, StoreOK
<1>3. \A d, x : ReqOK(d, x)' <=> ReqOK(d, x)
  BY <1>1 DEF ReqOK, WriteOK, AskedOK, Resolved, Change
<1>4. req' \in [Callers -> Requests] /\ \A d \in Callers : ReqOK(d, req'[d])
  BY DEF IInv, ReqOK
<1>5. \A d \in Callers : ReqOK(d, req[d])'
  BY <1>3, <1>4 DEF ReqOK, WriteOK, AskedOK, Resolved, Change
<1>6. page' \in [Pages -> PageStates'] /\ \A p \in Pages : PageOK(page[p])'
  BY <1>1 DEF IInv, PageOK
<1> QED
  BY <1>1, <1>2, <1>4, <1>5, <1>6 DEF IInv

(* A step of one page changes nothing else, if what it has fetched stays.  *)
LEMMA PageStep ==
  ASSUME IInv, UNCHANGED <<row, tomb, cache, req, work>>,
         NEW p \in Pages, NEW g, page' = [page EXCEPT ![p] = g],
         PageOK(g), page[p].data # None => g.data # None
  PROVE  IInv'
<1>1. Requests' = Requests /\ Schemas' = Schemas /\ M' = M /\ PageStates' = PageStates
  BY DEF Requests, Schemas, M, Data, PageStates
<1>2. StoreOK'
  BY <1>1 DEF IInv, StoreOK
<1>3. page' \in [Pages -> PageStates] /\ \A q \in Pages : PageOK(page'[q])
  BY DEF IInv, PageOK
<1>4. \A q \in Pages : PageOK(page[q])'
  BY <1>1, <1>3 DEF PageOK
<1>5. ASSUME NEW d \in Callers PROVE ReqOK(d, req[d])'
  <2>1. ReqOK(d, req[d])
    BY DEF IInv
  <2>2. d \in Pages /\ req[d].pc # "idle" => page'[d].data # None
    BY <2>1 DEF IInv, ReqOK
  <2>3. WriteOK(d, req[d])' <=> WriteOK(d, req[d])
    BY <1>1 DEF WriteOK, Resolved, Change
  <2>4. AskedOK(req[d])' <=> AskedOK(req[d])
    BY DEF AskedOK
  <2> QED
    BY <1>1, <2>1, <2>2, <2>3, <2>4 DEF ReqOK
<1> QED
  BY <1>1, <1>2, <1>3, <1>4, <1>5 DEF IInv
(* A caller that asks for nothing, and one refused, are all right.         *)
LEMMA IdleOK == ASSUME IInv, NEW c \in Callers PROVE ReqOK(c, Idle)
BY ResolvedType, CallerKinds DEF ReqOK, Idle, Requests, Codes, AskedOK

LEMMA RefusedOK ==
  ASSUME IInv, NEW c \in Pages \cup Loaders, req[c].pc \in {"load", "write"},
         NEW code \in {"NOT_FOUND", "PRECONDITION_FAILED", "VALIDATION_FAILED"},
         UNCHANGED <<row, tomb, cache, page, work>>, Refused(c, code)
  PROVE  IInv'
<1> DEFINE r == [Idle EXCEPT !.pc = "answer", !.code = code]
<1>0. Idle \in Requests /\ code \in Codes
  BY ResolvedType DEF Idle, Requests, Codes
<1>1. r \in Requests /\ r.pc = "answer" /\ r.code = code
  BY ZenonT(40), <1>0 DEF Requests
<1>2. c \in Callers /\ c \notin Readers /\ ReqOK(c, req[c])
  BY CallerKinds DEF IInv
<1> HIDE DEF r
<1>3. ReqOK(c, r)
  BY <1>1, <1>2 DEF ReqOK, AskedOK
<1>4. req' = [req EXCEPT ![c] = r]
  BY DEF Refused, r
<1>5. \A e \in DOMAIN cache' : cache'[e] \in Schemas
  BY DEF IInv, StoreOK
<1> QED
  BY <1>2, <1>3, <1>4, <1>5, RequestStep

(* commit(): what passes the validation is what the request will write.    *)
LEMMA CommitOK ==
  ASSUME IInv, NEW c \in Pages \cup Loaders, req[c].pc = "load", ~tomb,
         NEW tpl \in Templates, NEW def \in Definitions,
         c \in Pages => def = Change(req[c], Resolved.def),
         UNCHANGED <<row, tomb, cache, page, work>>, Commit(c, tpl, def)
  PROVE  IInv'
<1>1. CASE ~ValidateOntology(def)
  BY <1>1, RefusedOK DEF Commit
<1>2. CASE ValidateOntology(def)
  <2> DEFINE new == [tpl |-> tpl, def |-> def, etag |-> Etag + 1]
             ins == row = None
             r   == [req[c] EXCEPT !.pc = "write", !.insert = ins,
                                   !.base = Etag, !.new = new]
  <2>1. c \in Callers /\ c \notin Readers /\ ReqOK(c, req[c]) /\ req[c] \in Requests
    BY CallerKinds DEF IInv
  <2>2. new \in RowsUpTo(M + 1) /\ Etag \in Nat /\ ins \in BOOLEAN
    BY ResolvedType DEF RowsUpTo
  <2>3. new.def = def /\ new.etag = Etag + 1 /\ (ins <=> row = None)
    OBVIOUS
  <2> HIDE DEF new, ins
  <2>4. /\ r \in Requests /\ r.pc = "write" /\ r.insert = ins
        /\ r.base = Etag /\ r.new = new
        /\ r.name = req[c].name /\ r.body = req[c].body /\ r.was = req[c].was
    BY ZenonT(40), <2>1, <2>2 DEF Requests
  <2> HIDE DEF r
  <2>5. Change(r, Resolved.def) = Change(req[c], Resolved.def)
    BY <2>4 DEF Change
  <2>6. WriteOK(c, r)
    BY <1>2, <2>2, <2>3, <2>4, <2>5, ResolvedType DEF WriteOK
  <2>7. ReqOK(c, r)
    BY <2>1, <2>4, <2>6 DEF ReqOK, AskedOK
  <2>8. req' = [req EXCEPT ![c] = r]
    BY <1>2 DEF Commit, ToWrite, r, new, ins
  <2>9. \A e \in DOMAIN cache' : cache'[e] \in Schemas
    BY DEF IInv, StoreOK
  <2> QED
    BY <2>1, <2>7, <2>8, <2>9, RequestStep
<1> QED
  BY <1>1, <1>2

LEMMA LoadForEditOK ==
  ASSUME IInv, UNCHANGED work, NEW c, LoadForEdit(c) PROVE IInv'
<1> DEFINE def == Resolved.def
           n == req[c].name
<1>0. /\ c \in Pages /\ req[c].pc = "load" /\ UNCHANGED <<row, tomb, cache, page, work>>
      /\ def \in Definitions /\ Resolved.tpl \in Templates
      /\ n \in Names /\ (req[c].body # None => req[c].body \in Bodies[n])
  BY ResolvedType, CallerKinds DEF LoadForEdit, IInv, ReqOK, AskedOK
<1>1. \/ Refused(c, "NOT_FOUND") \/ Refused(c, "PRECONDITION_FAILED")
      \/ Refused(c, "VALIDATION_FAILED")
      \/ ~tomb /\ req[c].body # None /\ Commit(c, Resolved.tpl, PutDef(def, n, req[c].body))
      \/ ~tomb /\ req[c].body = None /\ Commit(c, Resolved.tpl, RemoveDef(def, n))
  <2>1. CASE tomb
    BY <2>1 DEF LoadForEdit
  <2>2. CASE ~tomb /\ Etag # req[c].ifMatch
    BY <2>2 DEF LoadForEdit
  <2>3. CASE ~tomb /\ Etag = req[c].ifMatch /\ req[c].body # None
    BY <2>3 DEF LoadForEdit
  <2>4. CASE ~tomb /\ Etag = req[c].ifMatch /\ req[c].body = None
    BY <2>4 DEF LoadForEdit
  <2> QED
    BY <2>1, <2>2, <2>3, <2>4
<1>2. CASE \/ Refused(c, "NOT_FOUND") \/ Refused(c, "PRECONDITION_FAILED")
           \/ Refused(c, "VALIDATION_FAILED")
  BY <1>0, <1>2, RefusedOK
<1>3. CASE ~tomb /\ req[c].body # None /\ Commit(c, Resolved.tpl, PutDef(def, n, req[c].body))
  <2>1. PutDef(def, n, req[c].body) \in Definitions
    BY <1>0, <1>3, PutType
  <2>2. PutDef(def, n, req[c].body) = Change(req[c], def)
    BY <1>3 DEF Change
  <2> QED
    BY <1>0, <1>3, <2>1, <2>2, CommitOK
<1>4. CASE ~tomb /\ req[c].body = None /\ Commit(c, Resolved.tpl, RemoveDef(def, n))
  <2>1. RemoveDef(def, n) \in Definitions
    BY <1>0, RemoveType
  <2>2. RemoveDef(def, n) = Change(req[c], def)
    BY <1>4 DEF Change
  <2> QED
    BY <1>0, <1>4, <2>1, <2>2, CommitOK
<1> QED
  BY <1>1, <1>2, <1>3, <1>4

LEMMA StartTemplateOK ==
  ASSUME IInv, UNCHANGED work, NEW c, NEW t \in Templates, StartTemplate(c, t)
  PROVE  IInv'
<1> DEFINE r == [req[c] EXCEPT !.pc = "load", !.tpl = t]
<1>1. c \in Loaders /\ c \in Callers /\ c \notin Readers /\ c \notin Pages /\ req[c] \in Requests
  BY CallerKinds DEF StartTemplate, IInv
<1>2. r \in Requests /\ r.pc = "load" /\ r.tpl = t
  BY ZenonT(40), <1>1 DEF Requests
<1>3. req' = [req EXCEPT ![c] = r]
  BY DEF StartTemplate
<1> HIDE DEF r
<1>4. ReqOK(c, r)
  BY <1>1, <1>2 DEF ReqOK
<1>5. \A e \in DOMAIN cache' : cache'[e] \in Schemas
  BY DEF IInv, StoreOK, StartTemplate
<1> QED
  BY <1>1, <1>3, <1>4, <1>5, RequestStep DEF StartTemplate

LEMMA LoadForTemplateOK ==
  ASSUME IInv, UNCHANGED work, NEW c, LoadForTemplate(c) PROVE IInv'
<1>1. c \in Loaders /\ c \notin Pages /\ req[c].pc = "load" /\ req[c].tpl \in Templates
  BY CallerKinds DEF LoadForTemplate, IInv, ReqOK
<1>2. CASE tomb
  BY <1>1, <1>2, RefusedOK DEF LoadForTemplate
<1>3. CASE ~tomb
  <2>1. Template[req[c].tpl] \in Definitions
    BY <1>1, TemplateType
  <2>2. Commit(c, req[c].tpl, Template[req[c].tpl])
    BY <1>3 DEF LoadForTemplate
  <2>3. UNCHANGED <<row, tomb, cache, page, work>>
    BY DEF LoadForTemplate
  <2> QED
    BY <1>1, <1>3, <2>1, <2>2, <2>3, CommitOK
<1> QED
  BY <1>2, <1>3
(* The write: what an insert or an update leaves is the request's version, *)
(* and every other request that had read the row finds it moved on.        *)
LEMMA WriteTypes ==
  ASSUME IInv, NEW c \in Pages \cup Loaders, Write(c), Writable(c)
  PROVE  /\ req[c].new.etag = (IF row = None THEN 1 ELSE row.etag + 1)
         /\ req[c].new \in RowsUpTo(M) /\ row' = req[c].new /\ row' # None
         /\ ValidateOntology(row'.def) /\ ~tomb /\ Written(c)
         /\ row # None => row'.etag = row.etag + 1
<1> DEFINE e == IF row = None THEN 1 ELSE row.etag + 1
<1>1. ReqOK(c, req[c]) /\ req[c].pc = "write" /\ c \in Callers
  BY CallerKinds DEF IInv, Write
<1>2. /\ WriteOK(c, req[c]) /\ Etag < M /\ M \in Nat
      /\ req[c] \in Requests /\ req[c].insert \in BOOLEAN /\ req[c].base \in Nat
  BY <1>1, ResolvedType DEF ReqOK, Write, M, Requests
<1>3. CASE row = None
  <2>1. req[c].insert /\ ~tomb /\ req[c].base = 0 /\ Etag = 0
    BY <1>2, <1>3, ResolvedType DEF Writable, WriteOK
  <2>2. req[c].new \in RowsUpTo(M) /\ req[c].new.etag = 1
    BY <1>2, <2>1 DEF WriteOK, RowsUpTo
  <2> QED
    <3>1. row' = [req[c].new EXCEPT !.etag = 1] /\ Written(c)
      BY <1>3 DEF Write
    <3>2. row' = req[c].new
      BY <2>2, <3>1 DEF RowsUpTo
    <3> QED
      BY <1>2, <1>3, <2>1, <2>2, <3>1, <3>2, NoneIsNoRow DEF WriteOK
<1>4. CASE row # None
  <2>1. ~req[c].insert /\ row.etag = req[c].base /\ Etag = row.etag /\ row.etag \in Nat
    BY <1>2, <1>4, ResolvedType DEF Writable, WriteOK, RowsUpTo
  <2>2. req[c].new \in RowsUpTo(M) /\ req[c].new.etag = row.etag + 1
    BY <1>2, <2>1 DEF WriteOK, RowsUpTo
  <2>3. ~tomb
    BY <1>4 DEF IInv, StoreOK
  <2> QED
    <3>1. row' = [req[c].new EXCEPT !.etag = row.etag + 1] /\ Written(c)
      BY <1>4 DEF Write
    <3>2. row' = req[c].new
      BY <2>2, <3>1 DEF RowsUpTo
    <3> QED
      BY <1>2, <1>4, <2>3, <2>1, <2>2, <3>1, <3>2, NoneIsNoRow DEF WriteOK
<1> QED
  BY <1>3, <1>4

LEMMA WriteStepOK ==
  ASSUME IInv, UNCHANGED work, NEW c \in Pages \cup Loaders, Write(c) PROVE IInv'
<1>0. c \in Callers /\ c \notin Readers /\ req[c].pc = "write" /\ ReqOK(c, req[c])
  BY CallerKinds DEF IInv, Write
<1>1. CASE ~Writable(c)
  BY <1>0, <1>1, RefusedOK DEF Write
<1>2. CASE Writable(c)
  <2> DEFINE new == req[c].new
             set == CompiledOf(new)
             r   == [Idle EXCEPT !.pc = "answer", !.code = "OK",
                                 !.name = req[c].name, !.body = req[c].body,
                                 !.was = req[c].was, !.etag = new.etag, !.set = set]
  <2>1. /\ new \in RowsUpTo(M) /\ row' = new /\ row' # None /\ ValidateOntology(row'.def)
        /\ ~tomb /\ Written(c) /\ (row # None => row'.etag = row.etag + 1)
        /\ UNCHANGED <<tomb, cache, page, work>> /\ M \in Nat
    BY <1>2, WriteTypes, ResolvedType DEF Write
  <2>2. set \in Schemas
    BY <2>1 DEF CompiledOf, CompileOntology, Schemas, RowsUpTo
  <2>3. /\ Idle \in Requests /\ "OK" \in Codes /\ new.etag \in 0 .. M
        /\ req[c] \in Requests
    BY <1>0, <2>1, IdleOK DEF ReqOK, Codes, RowsUpTo
  <2>4. req' = [req EXCEPT ![c] = r]
    BY <2>1 DEF Written
  <2> HIDE DEF new, set
  <2>5. /\ r \in Requests /\ r.pc = "answer" /\ r.code = "OK"
        /\ r.name = req[c].name /\ r.body = req[c].body /\ r.was = req[c].was
    BY ZenonT(40), <2>2, <2>3 DEF Requests
  <2> HIDE DEF r
  <2>6. Requests' = Requests /\ Schemas' = Schemas /\ M' = M /\ PageStates' = PageStates
    BY <2>1 DEF Requests, Schemas, M, Data, PageStates
  <2>7. StoreOK'
    BY <2>1, <2>6 DEF IInv, StoreOK
  <2>8. req' \in [Callers -> Requests] /\ req'[c] = r
    BY <1>0, <2>4, <2>5 DEF IInv
  <2>9. ASSUME NEW d \in Callers PROVE ReqOK(d, req[d])'
    <3>1. CASE d = c
      <4>1. d \in Pages => AskedOK(req[d])' /\ page[d].data # None
        BY <1>0, <2>5, <2>8, <3>1 DEF AskedOK, ReqOK
      <4> QED
        BY <1>0, <2>1, <2>5, <2>6, <2>8, <3>1, <4>1 DEF ReqOK
    <3>2. CASE d # c
      <4>1. req'[d] = req[d] /\ ReqOK(d, req[d]) /\ req[d] \in Requests
        BY <2>4, <3>2 DEF IInv
      <4>2. req[d].pc = "write" => WriteOK(d, req[d])'
        <5> SUFFICES ASSUME req[d].pc = "write" PROVE WriteOK(d, req[d])'
          OBVIOUS
        <5>1. WriteOK(d, req[d]) /\ req[d].insert \in BOOLEAN /\ req[d].base \in Nat
          BY <4>1 DEF ReqOK, Requests
        <5>2. row # None => row.etag \in Nat
          BY ResolvedType DEF RowsUpTo
        <5>3. CASE row = None
          <6>1. req[d].insert
            BY <2>1, <5>1, <5>3 DEF WriteOK
          <6> QED
            BY <2>1, <2>6, <4>1, <5>1, <6>1 DEF WriteOK
        <5>4. CASE row # None
          <6>1. ~req[d].insert => req[d].base < row'.etag
            BY <2>1, <5>1, <5>2, <5>4 DEF WriteOK
          <6>2. ~req[d].insert => req[d].base <= row'.etag /\ row'.etag # req[d].base
            BY <2>1, <5>1, <5>2, <5>4, <6>1 DEF RowsUpTo
          <6> QED
            BY <2>1, <2>6, <4>1, <5>1, <6>2 DEF WriteOK
        <5> QED
          BY <5>3, <5>4
      <4> QED
        BY <2>1, <2>6, <4>1, <4>2 DEF ReqOK, AskedOK
    <3> QED
      BY <3>1, <3>2
  <2>10. page' \in [Pages -> PageStates'] /\ \A p \in Pages : PageOK(page[p])'
    BY <2>1, <2>6 DEF IInv, PageOK
  <2> QED
    BY <2>6, <2>7, <2>8, <2>9, <2>10 DEF IInv
<1> QED
  BY <1>1, <1>2

(* What an answered change puts into the cache is a schema.                *)
LEMMA RememberType ==
  ASSUME IInv, NEW c \in Callers, Remember(c)
  PROVE  \A e \in DOMAIN cache' : cache'[e] \in Schemas
<1>1. CASE UNCHANGED cache
  BY <1>1 DEF IInv, StoreOK
<1>2. CASE req[c].set # None /\ CacheSet(req[c].etag, req[c].set)
  <2>1. req[c].set \in Schemas
    BY <1>2 DEF IInv, Requests
  <2> QED
    BY <1>2, <2>1 DEF CacheSet, IInv, StoreOK
<1> QED
  BY <1>1, <1>2 DEF Remember

LEMMA AnswerLoaderOK ==
  ASSUME IInv, UNCHANGED work, NEW c \in Callers, AnswerLoader(c) PROVE IInv'
BY RememberType, IdleOK, RequestStep DEF AnswerLoader

LEMMA LoseAnswerOK ==
  ASSUME IInv, UNCHANGED work, NEW p \in Pages, LoseAnswer(p) PROVE IInv'
BY CallerKinds, RememberType, IdleOK, RequestStep DEF LoseAnswer

LEMMA ReadDoneOK ==
  ASSUME IInv, UNCHANGED work, NEW c \in Readers, ReadDone(c) PROVE IInv'
<1>1. \A e \in DOMAIN cache' : cache'[e] \in Schemas
  BY DEF IInv, StoreOK, ReadDone
<1> QED
  BY <1>1, CallerKinds, IdleOK, RequestStep DEF ReadDone
-----------------------------------------------------------------------------
(* The page's steps.                                                       *)
LEMMA FetchOK ==
  ASSUME IInv, UNCHANGED work, NEW p \in Pages, Fetch(p) PROVE IInv'
<1> DEFINE o == IF tomb THEN [etag |-> 0, def |-> <<>>]
                ELSE [etag |-> Etag, def |-> Resolved.def]
           g == IF page[p].dirty THEN [page[p] EXCEPT !.data = o]
                ELSE [NewPage EXCEPT !.data = o]
<1>1. o \in Data /\ M \in Nat
  BY ResolvedType, EmptyType DEF Data
<1>2. o # None
  BY <1>1, NoneIsNoData
<1>3. page[p] \in PageStates /\ PageOK(page[p]) /\ NewPage \in PageStates /\ ~NewPage.dirty
  BY DEF IInv, NewPage, PageStates
<1>4. page' = [page EXCEPT ![p] = g]
  BY DEF Fetch
<1> HIDE DEF o
<1>5. PageOK(g) /\ g.data # None
  BY <1>1, <1>2, <1>3 DEF PageOK, PageStates
<1> HIDE DEF g
<1> QED
  BY <1>4, <1>5, PageStep DEF Fetch

LEMMA EditOK ==
  ASSUME IInv, UNCHANGED work, NEW p \in Pages, NEW n \in Editable,
         NEW b \in Edits[n], Edit(p, n, b)
  PROVE  IInv'
<1> DEFINE old  == BodyIn(page[p].data.def, n)
           g    == IF page[p].dirty /\ page[p].name = n
                   THEN [page[p] EXCEPT !.body = b]
                   ELSE [page[p] EXCEPT !.name = n, !.body = b, !.dirty = TRUE,
                                        !.seen = old]
<1>1. /\ page[p] \in PageStates /\ PageOK(page[p]) /\ page[p].data # None
      /\ page[p].data \in Data
  BY DEF IInv, Edit, PageStates
<1>2. n \in Names /\ b \in Bodies[n] /\ b \in AllBodies
  BY ConstantsAssumption DEF Editable, AllBodies
<1>3. old \in AllBodies \cup {None}
  <2>1. PICK S \in SUBSET Names : page[p].data.def \in [S -> AllBodies]
    BY <1>1, DefinitionParts DEF Data
  <2> QED
    BY <2>1 DEF BodyIn
<1>4. page' = [page EXCEPT ![p] = g]
  BY DEF Edit
<1> HIDE DEF old
<1>5. PageOK(g) /\ g.data # None
  <2>1. CASE page[p].dirty /\ page[p].name = n
    BY <1>1, <1>2, <2>1 DEF PageOK, PageStates
  <2>2. CASE ~(page[p].dirty /\ page[p].name = n)
    BY <1>1, <1>2, <1>3, <2>2 DEF PageOK, PageStates
  <2> QED
    BY <2>1, <2>2
<1> HIDE DEF g
<1> QED
  BY <1>4, <1>5, PageStep DEF Edit

LEMMA DiscardOK ==
  ASSUME IInv, UNCHANGED work, NEW p \in Pages, Discard(p) PROVE IInv'
<1> DEFINE g == [page[p] EXCEPT !.name = None, !.body = None, !.seen = None,
                                !.dirty = FALSE]
<1>1. page[p] \in PageStates
  BY DEF IInv
<1>2. g \in PageStates /\ ~g.dirty /\ g.data = page[p].data
  BY <1>1 DEF PageStates
<1>3. page' = [page EXCEPT ![p] = g]
  BY DEF Discard
<1> HIDE DEF g
<1> QED
  BY <1>2, <1>3, PageStep DEF Discard, PageOK

LEMMA SaveOK ==
  ASSUME IInv, UNCHANGED work, NEW p \in Pages, Save(p) PROVE IInv'
<1> DEFINE r == [Idle EXCEPT !.pc = "load", !.name = page[p].name,
                             !.body = page[p].body, !.ifMatch = page[p].data.etag]
<1>1. /\ page[p] \in PageStates /\ page[p].data # None /\ page[p].data \in Data
      /\ page[p].name \in Names /\ page[p].body \in Bodies[page[p].name]
      /\ page[p].body \in AllBodies /\ page[p].body # None
  <2>1. /\ page[p] \in PageStates /\ page[p].data # None /\ page[p].data \in Data
        /\ page[p].name \in Names /\ page[p].body \in Bodies[page[p].name]
    BY DEF IInv, Save, PageOK, PageStates, Editable
  <2> QED
    BY <2>1, NoneAssumption DEF AllBodies
<1>2. p \in Callers /\ p \notin Readers /\ p \notin Loaders /\ Idle \in Requests
      /\ page[p].data.etag \in Nat
  BY <1>1, CallerKinds, IdleOK, ResolvedType DEF ReqOK, Data
<1>3. /\ r \in Requests /\ r.pc = "load" /\ r.name = page[p].name
      /\ r.body = page[p].body
  BY <1>1, <1>2 DEF Requests
<1>4. req' = [req EXCEPT ![p] = r]
  BY DEF Save
<1> HIDE DEF r
<1>5. AskedOK(r)
  BY <1>1, <1>3 DEF AskedOK
<1>6. ReqOK(p, r)
  BY <1>1, <1>2, <1>3, <1>5 DEF ReqOK
<1>7. \A e \in DOMAIN cache' : cache'[e] \in Schemas
  BY DEF IInv, StoreOK, Save
<1> QED
  BY <1>2, <1>4, <1>6, <1>7, RequestStep DEF Save

LEMMA DeleteOK ==
  ASSUME IInv, UNCHANGED work, NEW p \in Pages, NEW n \in Deletions, Delete(p, n)
  PROVE  IInv'
<1> DEFINE r == [Idle EXCEPT !.pc = "load", !.name = n,
                             !.ifMatch = page[p].data.etag, !.was = page[p].data]
<1>1. /\ page[p] \in PageStates /\ page[p].data # None /\ page[p].data \in Data
      /\ n \in Names
  BY ConstantsAssumption DEF IInv, Delete, PageStates, Editable
<1>2. p \in Callers /\ p \notin Readers /\ p \notin Loaders /\ Idle \in Requests
      /\ page[p].data.etag \in Nat /\ Idle.body = None
  <2>1. Idle.body = None
    BY DEF Idle
  <2> QED
    BY <1>1, <2>1, CallerKinds, IdleOK, ResolvedType DEF ReqOK, Data
<1>3. /\ r \in Requests /\ r.pc = "load" /\ r.name = n /\ r.body = None
      /\ r.was = page[p].data
  BY ZenonT(40), <1>1, <1>2 DEF Requests
<1>4. req' = [req EXCEPT ![p] = r]
  BY DEF Delete
<1> HIDE DEF r
<1>5. AskedOK(r)
  BY <1>1, <1>3 DEF AskedOK
<1>6. ReqOK(p, r)
  BY <1>1, <1>2, <1>3, <1>5 DEF ReqOK
<1>7. \A e \in DOMAIN cache' : cache'[e] \in Schemas
  BY DEF IInv, StoreOK, Delete
<1> QED
  BY <1>2, <1>4, <1>6, <1>7, RequestStep DEF Delete

(* The answer: what the page shows is its own change of what it knew.      *)
LEMMA AnswerPageOK ==
  ASSUME IInv, UNCHANGED work, NEW p \in Pages, AnswerPage(p) PROVE IInv'
<1> DEFINE g == IF req[p].code = "OK" THEN Saved(p) ELSE page[p]
<1>1. /\ p \in Callers /\ req[p].pc = "answer" /\ req[p] \in Requests
      /\ AskedOK(req[p]) /\ page[p].data # None /\ page[p] \in PageStates
      /\ PageOK(page[p]) /\ page[p].data \in Data /\ M \in Nat
  BY CallerKinds, ResolvedType DEF IInv, ReqOK, AnswerPage, PageStates
<1>2. PageOK(g) /\ g.data # None
  <2>1. CASE req[p].code = "OK"
    <3> DEFINE d == IF req[p].body = None THEN RemoveDef(req[p].was.def, req[p].name)
                    ELSE PutDef(page[p].data.def, req[p].name, req[p].body)
               o == [etag |-> req[p].etag, def |-> d]
    <3>1. d \in Definitions
      <4>1. CASE req[p].body = None
        <5>1. req[p].was \in Data
          BY <1>1, <2>1, <4>1 DEF AskedOK, Requests
        <5> QED
          BY <4>1, <5>1, RemoveType DEF Data
      <4>2. CASE req[p].body # None
        <5>1. /\ req[p].name \in Names /\ req[p].body \in Bodies[req[p].name]
              /\ page[p].data.def \in Definitions
          BY <1>1, <2>1, <4>2 DEF AskedOK, Data
        <5> QED
          BY <4>2, <5>1, PutType
      <4> QED
        BY <4>1, <4>2
    <3> HIDE DEF d
    <3>2. o \in Data
      BY <1>1, <3>1 DEF Requests, Data
    <3>3. o # None
      BY <1>1, <3>2, NoneIsNoData
    <3> HIDE DEF o
    <3>4. g = [NewPage EXCEPT !.data = o]
      BY <2>1 DEF Saved, o, d
    <3>5. NewPage \in PageStates /\ ~NewPage.dirty
      BY DEF NewPage, PageStates
    <3>6. [NewPage EXCEPT !.data = o] \in PageStates /\ ~[NewPage EXCEPT !.data = o].dirty
          /\ [NewPage EXCEPT !.data = o].data = o
      BY <3>2, <3>5 DEF PageStates
    <3> QED
      BY <3>3, <3>4, <3>6 DEF PageOK
  <2>2. CASE req[p].code # "OK"
    BY <1>1, <2>2
  <2> QED
    BY <2>1, <2>2
<1>3. page' = [page EXCEPT ![p] = g]
  BY DEF AnswerPage
<1> HIDE DEF g
<1>4. /\ UNCHANGED <<row, tomb, work>> /\ req' = [req EXCEPT ![p] = Idle]
      /\ \A e \in DOMAIN cache' : cache'[e] \in Schemas
  BY <1>1, RememberType DEF AnswerPage
<1>5. Requests' = Requests /\ Schemas' = Schemas /\ M' = M /\ PageStates' = PageStates
  BY <1>4 DEF Requests, Schemas, M, Data, PageStates
<1>6. StoreOK'
  BY <1>4, <1>5 DEF IInv, StoreOK
<1>7. page' \in [Pages -> PageStates] /\ \A q \in Pages : PageOK(page'[q])
  BY <1>2, <1>3 DEF IInv, PageOK
<1>8. \A q \in Pages : PageOK(page[q])'
  BY <1>5, <1>7 DEF PageOK
<1>9. req' \in [Callers -> Requests]
  BY <1>1, <1>4, IdleOK DEF IInv, ReqOK
<1>10. ASSUME NEW d \in Callers PROVE ReqOK(d, req[d])'
  <2>1. CASE d = p
    <3>1. req'[d] = Idle /\ ReqOK(d, Idle) /\ Idle.pc = "idle"
      BY <1>1, <1>4, <2>1, IdleOK DEF IInv, Idle
    <3> QED
      BY <1>5, <3>1 DEF ReqOK, AskedOK
  <2>2. CASE d # p
    <3>1. req'[d] = req[d] /\ ReqOK(d, req[d])
      BY <1>4, <2>2 DEF IInv
    <3>2. d \in Pages => page'[d] = page[d]
      BY <1>3, <2>2 DEF IInv
    <3>3. WriteOK(d, req[d])' <=> WriteOK(d, req[d])
      BY <1>4, <1>5, <3>1 DEF WriteOK, Resolved, Change
    <3> QED
      BY <1>5, <3>1, <3>2, <3>3 DEF ReqOK, AskedOK
  <2> QED
    BY <2>1, <2>2
<1> QED
  BY <1>5, <1>6, <1>7, <1>8, <1>9, <1>10 DEF IInv
-----------------------------------------------------------------------------
(* The reader's steps, the cache and the purge.                            *)
LEMMA SchemaTypes ==
  ASSUME IInv
  PROVE  /\ EmptyCompiled \in Schemas /\ CompiledTemplate \in Schemas
         /\ row # None => CompiledOf(row) \in Schemas
<1>1. M \in Nat /\ (row # None => row \in RowsUpTo(M)) /\ Blank \in Templates
  BY ResolvedType, ConstantsAssumption
<1>2. EmptyCompiled \in Schemas /\ CompiledTemplate \in Schemas
  BY <1>1, EmptyType, TemplateType
     DEF EmptyCompiled, CompiledTemplate, CompileOntology, Schemas
<1>3. row # None => CompiledOf(row) \in Schemas
  BY <1>1 DEF CompiledOf, CompileOntology, Schemas, RowsUpTo
<1> QED
  BY <1>2, <1>3

LEMMA ServedOK ==
  ASSUME IInv, UNCHANGED <<row, tomb, page, work>>, NEW c \in Readers,
         NEW got \in Schemas, Served(c, got),
         \A e \in DOMAIN cache' : cache'[e] \in Schemas
  PROVE  IInv'
<1> DEFINE f == IF req[c].from = None THEN Etag ELSE req[c].from
           r == [req[c] EXCEPT !.pc = "served", !.got = got, !.from = f]
<1>1. /\ c \in Callers /\ c \notin Pages /\ c \notin Loaders /\ req[c] \in Requests
      /\ Etag \in Nat
  BY CallerKinds, ResolvedType DEF IInv
<1>2. f \in Nat \cup {None}
  BY <1>1 DEF Requests
<1>3. req' = [req EXCEPT ![c] = r]
  BY DEF Served
<1> HIDE DEF f
<1>4. r \in Requests /\ r.pc = "served"
  <2> DEFINE q == [req[c] EXCEPT !.pc = "served", !.got = got]
  <2>1. q \in Requests /\ q.pc = "served"
    BY ZenonT(40), <1>1 DEF Requests
  <2>2. r = [q EXCEPT !.from = f]
    OBVIOUS
  <2> HIDE DEF q
  <2>3. [q EXCEPT !.from = f] \in Requests /\ [q EXCEPT !.from = f].pc = "served"
    BY <1>2, <2>1 DEF Requests
  <2> QED
    BY <2>2, <2>3
<1> HIDE DEF r
<1>5. ReqOK(c, r)
  BY <1>1, <1>4 DEF ReqOK
<1> QED
  BY <1>1, <1>3, <1>5, RequestStep

(* Head and load: what a reader finds in one statement and the cache.      *)
LEMMA HeadCases ==
  ASSUME NEW c, Head(c)
  PROVE  \/ tomb /\ Served(c, EmptyCompiled)
         \/ ~tomb /\ row = None /\ Served(c, CompiledTemplate)
         \/ ~tomb /\ row # None /\ row.etag \in DOMAIN cache
              /\ Served(c, cache[row.etag])
         \/ ~tomb /\ row # None
              /\ req' = [req EXCEPT ![c].pc = "row", ![c].from = Etag]
<1>1. CASE tomb
  BY <1>1 DEF Head
<1>2. CASE ~tomb /\ row = None
  BY <1>2 DEF Head
<1>3. CASE ~tomb /\ row # None
  BY <1>3 DEF Head, Cached
<1> QED
  BY <1>1, <1>2, <1>3

LEMMA LoadRowCases ==
  ASSUME NEW c, LoadRow(c)
  PROVE  \/ tomb /\ Served(c, EmptyCompiled) /\ UNCHANGED cache
         \/ ~tomb /\ row = None /\ Served(c, CompiledTemplate) /\ UNCHANGED cache
         \/ ~tomb /\ row # None /\ row.etag \in DOMAIN cache
              /\ Served(c, cache[row.etag]) /\ UNCHANGED cache
         \/ ~tomb /\ row # None /\ Served(c, CompiledOf(row))
              /\ CacheSet(row.etag, CompiledOf(row))
<1>1. CASE tomb
  BY <1>1 DEF LoadRow
<1>2. CASE ~tomb /\ row = None
  BY <1>2 DEF LoadRow
<1>3. CASE ~tomb /\ row # None
  BY <1>3 DEF LoadRow, Cached
<1> QED
  BY <1>1, <1>2, <1>3

LEMMA HeadOK ==
  ASSUME IInv, UNCHANGED work, NEW c \in Readers, Head(c) PROVE IInv'
<1>0. /\ UNCHANGED <<row, tomb, cache, page, work>>
      /\ \A e \in DOMAIN cache : cache[e] \in Schemas
      /\ \A e \in DOMAIN cache' : cache'[e] \in Schemas
  BY DEF Head, IInv, StoreOK
<1>1. CASE req' = [req EXCEPT ![c].pc = "row", ![c].from = Etag]
  <2> DEFINE r == [req[c] EXCEPT !.pc = "row", !.from = Etag]
  <2>1. /\ c \in Callers /\ c \notin Pages /\ c \notin Loaders /\ req[c] \in Requests
        /\ Etag \in Nat
    BY CallerKinds, ResolvedType DEF IInv
  <2>2. r \in Requests /\ r.pc = "row"
    BY ZenonT(40), <2>1 DEF Requests
  <2>3. req' = [req EXCEPT ![c] = r]
    BY <1>1
  <2> HIDE DEF r
  <2>4. ReqOK(c, r)
    BY <2>1, <2>2 DEF ReqOK
  <2> QED
    BY <1>0, <2>1, <2>3, <2>4, RequestStep
<1> QED
  BY <1>0, <1>1, HeadCases, SchemaTypes, ServedOK

LEMMA LoadRowOK ==
  ASSUME IInv, UNCHANGED work, NEW c \in Readers, LoadRow(c) PROVE IInv'
<1>0. /\ UNCHANGED <<row, tomb, page, work>>
      /\ \A e \in DOMAIN cache : cache[e] \in Schemas
  BY DEF LoadRow, IInv, StoreOK
<1>1. CASE UNCHANGED cache
  <2>1. \A e \in DOMAIN cache' : cache'[e] \in Schemas
    BY <1>0, <1>1
  <2>2. row # None => CompiledOf(row) \in Schemas
    BY SchemaTypes
  <2> QED
    BY <1>0, <2>1, <2>2, LoadRowCases, SchemaTypes, ServedOK
<1>2. CASE row # None /\ Served(c, CompiledOf(row)) /\ CacheSet(row.etag, CompiledOf(row))
  <2>1. CompiledOf(row) \in Schemas
    BY <1>2, SchemaTypes
  <2>2. \A e \in DOMAIN cache' : cache'[e] \in Schemas
    BY <1>0, <1>2, <2>1 DEF CacheSet
  <2> QED
    BY <1>0, <1>2, <2>1, <2>2, ServedOK
<1> QED
  BY <1>1, <1>2, LoadRowCases

LEMMA EvictOK == ASSUME IInv, UNCHANGED work, NEW e, Evict(e) PROVE IInv'
<1>1. UNCHANGED <<row, tomb, req, page, work>>
  BY DEF Evict
<1>2. Requests' = Requests /\ Schemas' = Schemas /\ M' = M /\ PageStates' = PageStates
  BY <1>1 DEF Requests, Schemas, M, Data, PageStates
<1>3. StoreOK'
  BY <1>1, <1>2 DEF IInv, StoreOK, Evict
<1>4. \A d \in Callers : ReqOK(d, req[d])'
  BY <1>1, <1>2 DEF IInv, ReqOK, WriteOK, AskedOK, Resolved, Change
<1>5. \A p \in Pages : PageOK(page[p])'
  BY <1>1, <1>2 DEF IInv, PageOK
<1> QED
  BY <1>1, <1>2, <1>3, <1>4, <1>5 DEF IInv

LEMMA PurgeOK == ASSUME IInv, UNCHANGED work, Purge PROVE IInv'
<1>1. row' = None /\ tomb' /\ UNCHANGED <<cache, req, page, work>> /\ tomb' \in BOOLEAN
  BY DEF Purge
<1>2. Requests' = Requests /\ Schemas' = Schemas /\ M' = M /\ PageStates' = PageStates
  BY <1>1 DEF Requests, Schemas, M, Data, PageStates
<1>3. StoreOK'
  BY <1>1, <1>2 DEF IInv, StoreOK
<1>4. ASSUME NEW d \in Callers PROVE ReqOK(d, req[d])'
  <2>1. ReqOK(d, req[d])
    BY DEF IInv
  <2>2. req[d].pc = "write" => WriteOK(d, req[d])'
    BY <1>1, <1>2, <2>1 DEF ReqOK, WriteOK
  <2> QED
    BY <1>1, <1>2, <2>1, <2>2 DEF ReqOK, AskedOK
<1>5. \A p \in Pages : PageOK(page[p])'
  BY <1>1, <1>2 DEF IInv, PageOK
<1> QED
  BY <1>1, <1>2, <1>3, <1>4, <1>5 DEF IInv

-----------------------------------------------------------------------------
(* The first states have the invariant, and every step keeps it.           *)
LEMMA InitOK == Init => IInv
<1> SUFFICES ASSUME Init PROVE IInv
  OBVIOUS
<1>0. M \in Nat /\ work \in Workloads /\ (work.copied # None => M > 0)
      /\ work.copied \in Templates \cup {None}
  BY ConstantsAssumption DEF Init, M
<1>1. row \in RowsUpTo(M) \cup {None} /\ (row # None => ValidateOntology(row.def))
  BY <1>0, TemplateType DEF Init, RowsUpTo
<1>2. StoreOK
  <2>1. DOMAIN cache = {}
    BY DEF Init
  <2>2. tomb = FALSE
    BY DEF Init
  <2> QED
    BY <1>0, <1>1, <2>1, <2>2 DEF StoreOK
<1>3. Idle \in Requests /\ NewPage \in PageStates /\ ~NewPage.dirty /\ Idle.pc = "idle"
  BY <1>0 DEF Idle, Requests, Codes, NewPage, PageStates
<1>4. req \in [Callers -> Requests] /\ \A c \in Callers : req[c] = Idle
  BY <1>3 DEF Init
<1>5. \A c \in Callers : ReqOK(c, req[c])
  BY <1>3, <1>4 DEF ReqOK, AskedOK
<1>6. page \in [Pages -> PageStates] /\ \A p \in Pages : PageOK(page[p])
  BY <1>3 DEF Init, PageOK
<1> QED
  BY <1>2, <1>4, <1>5, <1>6 DEF IInv

LEMMA NextOK == IInv /\ [Next]_vars => IInv'
<1> SUFFICES ASSUME IInv, [Next]_vars PROVE IInv'
  OBVIOUS
<1>1. CASE UNCHANGED vars
  <2>1. UNCHANGED <<row, tomb, cache, req, page, work>>
    BY <1>1 DEF vars
  <2>2. Requests' = Requests /\ Schemas' = Schemas /\ M' = M /\ PageStates' = PageStates
    BY <2>1 DEF Requests, Schemas, M, Data, PageStates
  <2>3. StoreOK'
    BY <2>1, <2>2 DEF IInv, StoreOK
  <2>4. \A d \in Callers : ReqOK(d, req[d])'
    BY <2>1, <2>2 DEF IInv, ReqOK, WriteOK, AskedOK, Resolved, Change
  <2>5. \A p \in Pages : PageOK(page[p])'
    BY <2>1, <2>2 DEF IInv, PageOK
  <2> QED
    BY <2>1, <2>2, <2>3, <2>4, <2>5 DEF IInv
<1>2. CASE Act /\ UNCHANGED work
  <2>1. CASE \E c \in Loaders \cap work.active :
               \/ \E t \in Templates : StartTemplate(c, t)
               \/ LoadForTemplate(c) \/ AnswerLoader(c)
    BY <1>2, <2>1, CallerKinds, StartTemplateOK, LoadForTemplateOK, AnswerLoaderOK
  <2>2. CASE \E p \in Pages \cap work.active :
               \/ Fetch(p) \/ Discard(p)
               \/ \E n \in Deletions : Delete(p, n)
               \/ \E n \in Editable : \E b \in Edits[n] : Edit(p, n, b)
               \/ Save(p) \/ LoadForEdit(p) \/ AnswerPage(p) \/ LoseAnswer(p)
    BY <1>2, <2>2, FetchOK, DiscardOK, DeleteOK, EditOK, SaveOK, LoadForEditOK,
       AnswerPageOK, LoseAnswerOK
  <2>3. CASE \E c \in Pages \cup Loaders : Write(c)
    BY <1>2, <2>3, WriteStepOK
  <2>4. CASE \E c \in Readers \cap work.active : Head(c) \/ LoadRow(c) \/ ReadDone(c)
    BY <1>2, <2>4, HeadOK, LoadRowOK, ReadDoneOK
  <2>5. CASE \E e \in 1 .. work.maxEtag : Evict(e)
    BY <1>2, <2>5, EvictOK
  <2>6. CASE Purge
    BY <1>2, <2>6, PurgeOK
  <2> QED
    BY <1>2, <2>1, <2>2, <2>3, <2>4, <2>5, <2>6 DEF Act
<1> QED
  BY <1>1, <1>2 DEF Next
(* The invariant holds in every state.                                     *)
THEOREM Invariant == Spec => []IInv
<1>1. Init => IInv
  BY InitOK
<1>2. IInv /\ [Next]_vars => IInv'
  BY NextOK
<1> QED
  BY <1>1, <1>2, PTL DEF Spec

(* Everything stored, cached, asked for and shown is well formed, and what *)
(* is stored is a valid ontology.                                          *)
LEMMA InvariantTypes == IInv => TypeOK
<1> SUFFICES ASSUME IInv PROVE TypeOK
  OBVIOUS
<1>1. \A d \in Definitions : IsDef(d)
  <2> SUFFICES ASSUME NEW d \in Definitions PROVE IsDef(d)
    OBVIOUS
  <2>1. PICK S \in SUBSET Names : d \in [S -> AllBodies] /\ \A n \in S : d[n] \in Bodies[n]
    BY DefinitionParts
  <2> QED
    BY <2>1 DEF IsDef
<1>2. row # None => /\ IsData(row) /\ row.etag > 0 /\ row.tpl \in Templates
                    /\ ValidateOntology(row.def)
  BY <1>1, ResolvedType DEF IInv, StoreOK, RowsUpTo, IsData, M
<1>3. \A e \in DOMAIN cache : IsData(cache[e])
  BY <1>1 DEF IInv, StoreOK, Schemas, IsData, M
<1>4. \A c \in Callers : req[c].pc \in {"idle", "load", "write", "answer", "row", "served"}
  BY DEF IInv, Requests
<1>5. \A p \in Pages :
         /\ page[p].data # None => IsData(page[p].data)
         /\ page[p].dirty => page[p].data # None /\ page[p].name \in Editable
  BY <1>1 DEF IInv, PageOK, PageStates, Data, IsData, M
<1> QED
  BY <1>2, <1>3, <1>4, <1>5 DEF TypeOK, IInv, StoreOK

(* referencesTo decides what the validation of the rest would: whether     *)
(* another definition names the one to be deleted.                         *)
LEMMA ReferencesExact ==
  ASSUME NEW d \in Definitions, ValidateOntology(d), NEW id \in DOMAIN d \cap Editable,
         Hinted(RemoveDef(d, id))
  PROVE  ReferencesTo(d, id) = {} <=> ValidateOntology(RemoveDef(d, id))
<1> DEFINE rest == RemoveDef(d, id)
<1>0. /\ id \in Names /\ DOMAIN d \subseteq Names
      /\ \A n \in DOMAIN d : d[n] \in Bodies[n]
      /\ Kind[id] \in {"object-types", "link-types", "action-types"}
  <2>1. PICK S \in SUBSET Names : d \in [S -> AllBodies] /\ \A n \in S : d[n] \in Bodies[n]
    BY DefinitionParts
  <2> QED
    BY <2>1, ConstantsAssumption DEF Editable
<1>1. /\ DOMAIN rest = DOMAIN d \ {id}
      /\ \A n \in DOMAIN d \ {id} : rest[n] = d[n]
      /\ Present(rest, "object-types") =
           IF Kind[id] = "object-types" THEN Present(d, "object-types") \ {id}
           ELSE Present(d, "object-types")
      /\ Present(rest, "link-types") =
           IF Kind[id] = "link-types" THEN Present(d, "link-types") \ {id}
           ELSE Present(d, "link-types")
  <2>1. /\ DOMAIN rest = DOMAIN d \ {id}
        /\ \A n \in DOMAIN d \ {id} : rest[n] = d[n]
    BY DEF RemoveDef
  <2>2. \A kind : Present(rest, kind) = IF Kind[id] = kind THEN Present(d, kind) \ {id}
                                        ELSE Present(d, kind)
    BY <2>1 DEF Present
  <2> QED
    BY <2>1, <2>2
<1> HIDE DEF rest
<1>2. \A n \in DOMAIN d :
         /\ \A s \in TypeSites : d[n].at[s] \subseteq Present(d, "object-types")
         /\ \A s \in LinkSites : d[n].at[s] \subseteq Present(d, "link-types")
  BY DEF ValidateOntology
<1>3. ValidateOntology(rest) <=>
        \A n \in DOMAIN d \ {id} :
          /\ \A s \in TypeSites : d[n].at[s] \subseteq Present(rest, "object-types")
          /\ \A s \in LinkSites : d[n].at[s] \subseteq Present(rest, "link-types")
  BY <1>1 DEF ValidateOntology, rest
<1>4. CASE Kind[id] = "object-types"
  <2>1. ReferencesTo(d, id) = {n \in DOMAIN d \ {id} : \E s \in TypeSites : id \in d[n].at[s]}
    BY <1>4 DEF ReferencesTo
  <2>2. ValidateOntology(rest) <=>
          \A n \in DOMAIN d \ {id} : \A s \in TypeSites : id \notin d[n].at[s]
    BY <1>1, <1>2, <1>3, <1>4
  <2> QED
    BY <2>1, <2>2 DEF rest
<1>5. CASE Kind[id] = "link-types"
  <2>1. ReferencesTo(d, id) = {n \in DOMAIN d : \E s \in LinkSites : id \in d[n].at[s]}
    BY <1>5 DEF ReferencesTo
  <2>2. \A s \in LinkSites : d[id].at[s] = {}
    BY <1>0, <1>5, SitesAssumption
  <2>3. ValidateOntology(rest) <=>
          \A n \in DOMAIN d \ {id} : \A s \in LinkSites : id \notin d[n].at[s]
    BY <1>1, <1>2, <1>3, <1>5
  <2> QED
    BY <2>1, <2>2, <2>3 DEF rest
<1>6. CASE Kind[id] = "action-types"
  <2>1. ReferencesTo(d, id) = {}
    BY <1>6 DEF ReferencesTo
  <2>2. ValidateOntology(rest)
    BY <1>1, <1>2, <1>3, <1>6
  <2> QED
    BY <2>1, <2>2 DEF rest
<1> QED
  BY <1>0, <1>4, <1>5, <1>6

(* Store soundness: the stored ontology stays valid after every edit, what *)
(* referencesTo lets go leaves it valid, and a purged workspace never gets *)
(* a row again, however requests, loads and the purge interleave.          *)
THEOREM StoreStaysSound == Spec => []StoreSound
<1>1. IInv => StoreSound
  <2> SUFFICES ASSUME IInv PROVE StoreSound
    OBVIOUS
  <2>1. PurgedStaysGone
    BY DEF IInv, StoreOK, PurgedStaysGone
  <2>2. row # None => row.def \in Definitions /\ ValidateOntology(row.def)
    BY ResolvedType DEF IInv, StoreOK, RowsUpTo
  <2>3. ReferencesAgree
    BY <2>2, ReferencesExact DEF ReferencesAgree
  <2> QED
    BY <2>1, <2>3, InvariantTypes DEF StoreSound
<1> QED
  BY <1>1, Invariant, PTL

(* No lost edit: what a put or delete stores is its own change of the      *)
(* version stored right before, whatever else runs at the same time.       *)
THEOREM EditsNeverLost == Spec => EditsAddUp
<1> DEFINE Good == \A p \in Pages :
             req[p].pc = "write" /\ req'[p].pc = "answer" /\ row' # row
             => row'.def = IF req[p].body = None
                           THEN RemoveDef(Resolved.def, req[p].name)
                           ELSE PutDef(Resolved.def, req[p].name, req[p].body)
<1>1. IInv /\ [Next]_vars => [Good]_vars
  <2> SUFFICES ASSUME IInv, Next, NEW p \in Pages,
                      req[p].pc = "write", req'[p].pc = "answer", row' # row
               PROVE  row'.def = Change(req[p], Resolved.def)
    BY DEF Change
  <2>1. PICK c \in Pages \cup Loaders : Write(c)
    BY DEF Next, Act, StartTemplate, LoadForTemplate, AnswerLoader, Fetch, Discard,
           Delete, Edit, Save, LoadForEdit, AnswerPage, LoseAnswer, Head, LoadRow,
           ReadDone, Evict, Purge
  <2>2. Writable(c)
    BY <2>1 DEF Write
  <2>3. row' = req[c].new /\ Written(c)
    BY <2>1, <2>2, WriteTypes
  <2>4. c = p
    BY <2>3, CallerKinds DEF Written, IInv
  <2>5. WriteOK(p, req[p])
    BY CallerKinds DEF IInv, ReqOK
  <2> QED
    BY <2>2, <2>3, <2>4, <2>5 DEF Writable, WriteOK
<1>2. Spec => [][Good]_vars
  BY <1>1, Invariant, PTL DEF Spec
<1> QED
  BY <1>2 DEF EditsAddUp
-----------------------------------------------------------------------------
(* The compiled schema: every version the workspace had stays in past, the *)
(* isolate's cache and the requests hold only such versions, and a reader  *)
(* under way started at one that is not later than the current one.        *)
Grown(h) == \A e \in DOMAIN past : e \in DOMAIN h /\ h[e] = past[e]

StoreHist ==
  /\ \E k \in Nat : DOMAIN past = 0 .. k /\ (~tomb => k = Etag)
  /\ past[0] = CompiledTemplate
  /\ \A e \in DOMAIN past : past[e].etag = e
  /\ row # None => past[row.etag] = CompiledOf(row)

CacheHist == \A e \in DOMAIN cache : e \in DOMAIN past /\ cache[e] = past[e]

CallerHist(c, r) ==
  /\ c \notin Readers /\ r.pc = "answer" /\ r.set # None =>
       r.etag \in DOMAIN past /\ r.set = past[r.etag]
  /\ r.pc = "row" => /\ r.from \in Nat
                     /\ tomb \/ (row # None /\ r.from =< row.etag)
  /\ r.pc = "served" =>
       \/ tomb /\ r.got = EmptyCompiled
       \/ /\ r.got.etag \in DOMAIN past /\ r.got.etag >= r.from
          /\ r.got = past[r.got.etag]

HistInv == IInv /\ StoreHist /\ CacheHist /\ \A c \in Callers : CallerHist(c, req[c])

(* What the current version is, in the history.                            *)
LEMMA Current ==
  ASSUME HistInv
  PROVE  /\ 0 \in DOMAIN past /\ past[0].etag = 0
         /\ row # None => /\ row.etag \in Nat /\ row.etag \in DOMAIN past
                          /\ past[row.etag].etag = row.etag
                          /\ past[row.etag] = CompiledOf(row) /\ Etag = row.etag
         /\ row = None => Etag = 0
<1>1. PICK k \in Nat : DOMAIN past = 0 .. k /\ (~tomb => k = Etag)
  BY DEF HistInv, StoreHist
<1>2. row # None => ~tomb /\ row.etag = Etag /\ row.etag \in Nat
  BY ResolvedType DEF HistInv, IInv, StoreOK, RowsUpTo
<1> QED
  BY <1>1, <1>2, ResolvedType DEF HistInv, StoreHist

(* A step of one request that only reads.                                  *)
LEMMA HistRequestStep ==
  ASSUME HistInv, IInv', UNCHANGED <<row, tomb, past>>, CacheHist',
         NEW c \in Callers, NEW r, req' = [req EXCEPT ![c] = r], CallerHist(c, r)
  PROVE  HistInv'
<1>1. StoreHist'
  BY DEF HistInv, StoreHist, CompiledTemplate, CompiledOf, CompileOntology, Etag, Resolved
<1>2. \A d \in Callers : CallerHist(d, req'[d])
  BY DEF HistInv, IInv
<1>3. \A d \in Callers : CallerHist(d, req[d])'
  BY <1>2 DEF CallerHist, EmptyCompiled
<1> QED
  BY <1>1, <1>3 DEF HistInv

(* A step that changes none of the requests.                               *)
LEMMA HistPageStep ==
  ASSUME HistInv, IInv', UNCHANGED <<row, tomb, past, req>>, CacheHist'
  PROVE  HistInv'
<1>1. StoreHist'
  BY DEF HistInv, StoreHist, CompiledTemplate, CompiledOf, CompileOntology, Etag, Resolved
<1>2. \A d \in Callers : CallerHist(d, req[d])'
  BY DEF HistInv, CallerHist, EmptyCompiled
<1> QED
  BY <1>1, <1>2 DEF HistInv

(* Nothing is cached by a request that is not an answered change.          *)
LEMMA HistQuietStep ==
  ASSUME HistInv, IInv', UNCHANGED <<row, tomb, past, cache>>, NEW c \in Callers,
         NEW r, req' = [req EXCEPT ![c] = r], r.pc \notin {"row", "served"},
         r.pc = "answer" => r.set = None
  PROVE  HistInv'
<1>1. CacheHist'
  BY DEF HistInv, CacheHist
<1>2. CallerHist(c, r)
  BY DEF CallerHist
<1> QED
  BY <1>1, <1>2, HistRequestStep

LEMMA RefusedHist ==
  ASSUME HistInv, IInv', UNCHANGED <<row, tomb, past, cache>>, NEW c \in Callers,
         NEW code, Refused(c, code)
  PROVE  HistInv'
<1> DEFINE r == [Idle EXCEPT !.pc = "answer", !.code = code]
<1>1. r.pc = "answer" /\ r.set = None
  BY DEF Idle
<1>2. req' = [req EXCEPT ![c] = r]
  BY DEF Refused
<1> HIDE DEF r
<1> QED
  BY <1>1, <1>2, HistQuietStep

LEMMA CommitHist ==
  ASSUME HistInv, IInv', UNCHANGED <<row, tomb, past, cache>>, NEW c \in Callers,
         NEW tpl, NEW def, Commit(c, tpl, def)
  PROVE  HistInv'
<1>1. CASE Refused(c, "VALIDATION_FAILED")
  BY <1>1, RefusedHist
<1>2. CASE ToWrite(c, tpl, def)
  <2> DEFINE r == [req[c] EXCEPT !.pc = "write", !.insert = (row = None), !.base = Etag,
                                 !.new = [tpl |-> tpl, def |-> def, etag |-> Etag + 1]]
  <2>1. req[c] \in Requests
    BY DEF HistInv, IInv
  <2>2. r.pc = "write"
    BY <2>1 DEF Requests
  <2>3. req' = [req EXCEPT ![c] = r]
    BY <1>2 DEF ToWrite
  <2> HIDE DEF r
  <2> QED
    BY <2>2, <2>3, HistQuietStep
<1> QED
  BY <1>1, <1>2 DEF Commit

LEMMA LoadHist ==
  ASSUME HistInv, IInv', NEW c \in Callers, LoadForEdit(c) \/ LoadForTemplate(c),
         UNCHANGED past
  PROVE  HistInv'
<1>1. UNCHANGED <<row, tomb, past, cache>>
  BY DEF LoadForEdit, LoadForTemplate
<1>2. \/ \E code : Refused(c, code)
      \/ \E tpl, def : Commit(c, tpl, def)
  <2>1. CASE LoadForTemplate(c)
    BY <2>1 DEF LoadForTemplate
  <2>2. CASE LoadForEdit(c)
    <3>1. CASE tomb
      BY <2>2, <3>1 DEF LoadForEdit
    <3>2. CASE ~tomb /\ Etag # req[c].ifMatch
      BY <2>2, <3>2 DEF LoadForEdit
    <3>3. CASE ~tomb /\ Etag = req[c].ifMatch /\ req[c].body # None
      BY <2>2, <3>3 DEF LoadForEdit
    <3>4. CASE ~tomb /\ Etag = req[c].ifMatch /\ req[c].body = None
      BY <2>2, <3>4 DEF LoadForEdit
    <3> QED
      BY <3>1, <3>2, <3>3, <3>4
  <2> QED
    BY <2>1, <2>2
<1> QED
  BY <1>1, <1>2, RefusedHist, CommitHist
(* An answered change caches the version it wrote.                         *)
LEMMA RememberHist ==
  ASSUME HistInv, NEW c \in Pages \cup Loaders, req[c].pc = "answer", Remember(c),
         UNCHANGED past
  PROVE  CacheHist'
<1>1. CASE UNCHANGED cache
  BY <1>1 DEF HistInv, CacheHist
<1>2. CASE req[c].set # None /\ CacheSet(req[c].etag, req[c].set)
  <2>1. req[c].etag \in DOMAIN past /\ req[c].set = past[req[c].etag]
    BY <1>2, CallerKinds DEF HistInv, CallerHist
  <2> QED
    BY <1>2, <2>1 DEF HistInv, CacheHist, CacheSet
<1> QED
  BY <1>1, <1>2 DEF Remember

LEMMA AnswerHist ==
  ASSUME HistInv, IInv', NEW c \in Pages \cup Loaders, req[c].pc = "answer", Remember(c),
         UNCHANGED <<row, tomb, past>>, req' = [req EXCEPT ![c] = Idle]
  PROVE  HistInv'
<1>1. CacheHist'
  BY RememberHist
<1>2. CallerHist(c, Idle) /\ c \in Callers
  BY CallerKinds DEF CallerHist, Idle
<1> QED
  BY <1>1, <1>2, HistRequestStep

(* A write adds a version after the current one and keeps the others.      *)
LEMMA WriteHist ==
  ASSUME HistInv, IInv', NEW c \in Pages \cup Loaders, Write(c), UNCHANGED work
  PROVE  HistInv'
<1>0. c \in Callers /\ c \notin Readers /\ IInv
  BY CallerKinds DEF HistInv
<1>1. CASE ~Writable(c)
  BY <1>0, <1>1, RefusedHist DEF Write
<1>2. CASE Writable(c)
  <2> DEFINE new == req[c].new
             e   == new.etag
             old == row
  <2>1. /\ row' = new /\ row' # None /\ ~tomb /\ Written(c) /\ UNCHANGED <<tomb, cache>>
        /\ new \in RowsUpTo(M) /\ e = (IF row = None THEN 1 ELSE row.etag + 1)
    BY <1>0, <1>2, WriteTypes DEF Write
  <2>2. new = [req[c].new EXCEPT !.etag = IF row = None THEN 1 ELSE row.etag + 1]
    BY <2>1 DEF RowsUpTo
  <2>3. past' = [x \in DOMAIN past \cup {e} |-> IF x = e THEN CompiledOf(new) ELSE past[x]]
    BY <1>2, <2>2 DEF Write
  <2>4. PICK k \in Nat : DOMAIN past = 0 .. k /\ k = Etag
    BY <2>1 DEF HistInv, StoreHist
  <2>5. e = k + 1 /\ Etag' = e
    BY <2>1, <2>4, Current DEF Etag, Resolved
  <2> HIDE DEF new, e
  <2>6. DOMAIN past' = 0 .. (k + 1) /\ Grown(past')
    BY <2>3, <2>4, <2>5 DEF Grown
  <2>7. past'[e] = CompiledOf(new) /\ CompiledOf(new).etag = e
    BY <2>3 DEF CompiledOf, CompileOntology, e
  <2>8. StoreHist'
    <3>0. past[0] = CompiledTemplate /\ 0 \in DOMAIN past
      BY Current DEF HistInv, StoreHist
    <3>1. past'[0] = CompiledTemplate'
      <4>1. past'[0] = past[0]
        BY <2>6, <3>0 DEF Grown
      <4>2. CompiledTemplate' = CompiledTemplate
        BY DEF CompiledTemplate, CompileOntology
      <4> QED
        BY <3>0, <4>1, <4>2
    <3>2. \A x \in DOMAIN past' : past'[x].etag = x
      BY <2>3, <2>5, <2>7 DEF HistInv, StoreHist
    <3>3. past'[row'.etag] = CompiledOf(row')
      BY <2>1, <2>7 DEF e, new
    <3> QED
      BY <2>1, <2>4, <2>5, <2>6, <3>1, <3>2, <3>3 DEF StoreHist, CompiledOf, CompileOntology
  <2>9. CacheHist'
    BY <2>1, <2>6 DEF HistInv, CacheHist, Grown
  <2>10. ASSUME NEW d \in Callers PROVE CallerHist(d, req[d])'
    <3>0. CallerHist(d, req[d])
      BY DEF HistInv
    <3>1. CASE d = c
      <4>1. req'[c] = [Idle EXCEPT !.pc = "answer", !.code = "OK",
                           !.name = req[c].name, !.body = req[c].body,
                           !.was = req[c].was, !.etag = req[c].new.etag,
                           !.set = CompiledOf(req[c].new)]
        BY <1>0, <2>1 DEF Written, IInv
      <4>2. /\ req'[c].pc = "answer" /\ req'[c].etag = e /\ req'[c].set = CompiledOf(new)
        BY <4>1 DEF Idle, e, new
      <4> QED
        BY <1>0, <2>3, <2>7, <3>1, <4>2 DEF CallerHist
    <3>2. CASE d # c
      <4>1. req'[d] = req[d] /\ UNCHANGED tomb
        BY <1>0, <2>1, <3>2 DEF Written, IInv
      <4>2. row # None => row.etag < row'.etag /\ row.etag \in Nat /\ row'.etag \in Nat
        BY <2>1, <2>4, <2>5, Current DEF e, new
      <4>3. req[d].pc = "row" => req[d].from \in Nat /\ req[d].from =< row'.etag
        BY <2>1, <3>0, <4>2 DEF CallerHist
      <4> QED
        BY <2>1, <2>6, <3>0, <4>1, <4>3 DEF CallerHist, Grown, EmptyCompiled
    <3> QED
      BY <3>1, <3>2
  <2> QED
    BY <2>8, <2>9, <2>10 DEF HistInv
<1> QED
  BY <1>1, <1>2

(* A reader is served the current version, or the empty schema.            *)
LEMMA ServedHist ==
  ASSUME HistInv, IInv', UNCHANGED <<row, tomb, past>>, CacheHist', NEW c \in Readers,
         NEW got, Served(c, got),
         \/ tomb /\ got = EmptyCompiled
         \/ ~tomb /\ got = past[Etag],
         tomb \/ req[c].from = None \/ (req[c].from \in Nat /\ req[c].from =< Etag)
  PROVE  HistInv'
<1> DEFINE f == IF req[c].from = None THEN Etag ELSE req[c].from
           r == [req[c] EXCEPT !.pc = "served", !.got = got, !.from = f]
<1>1. c \in Callers /\ c \notin Pages /\ c \notin Loaders /\ req[c] \in Requests /\ Etag \in Nat
  BY CallerKinds, ResolvedType DEF HistInv, IInv
<1>2. req' = [req EXCEPT ![c] = r]
  BY DEF Served
<1>3. tomb \/ f =< Etag
  BY <1>1
<1> HIDE DEF f
<1>4. r.pc = "served" /\ r.got = got /\ r.from = f
  BY <1>1 DEF Requests
<1> HIDE DEF r
<1>5. ~tomb => Etag \in DOMAIN past /\ past[Etag].etag = Etag
  BY Current
<1>6. CallerHist(c, r)
  BY <1>1, <1>3, <1>4, <1>5 DEF CallerHist
<1> QED
  BY <1>1, <1>2, <1>6, HistRequestStep

LEMMA HeadHist ==
  ASSUME HistInv, IInv', NEW c \in Readers, Head(c), UNCHANGED work PROVE HistInv'
<1>0. /\ UNCHANGED <<row, tomb, past, cache>> /\ CacheHist' /\ c \in Callers
      /\ req[c].from = None /\ req[c] \in Requests
  <2>1. req[c] = Idle /\ c \in Callers /\ req[c] \in Requests
    BY CallerKinds DEF Head, HistInv, IInv, ReqOK
  <2> QED
    BY <2>1 DEF Head, HistInv, CacheHist, Idle
<1>1. CASE ~tomb /\ row # None /\ req' = [req EXCEPT ![c].pc = "row", ![c].from = Etag]
  <2> DEFINE r == [req[c] EXCEPT !.pc = "row", !.from = Etag]
  <2>1. r.pc = "row" /\ r.from = Etag
    BY <1>0 DEF Requests
  <2>2. req' = [req EXCEPT ![c] = r]
    BY <1>1
  <2> HIDE DEF r
  <2>3. CallerHist(c, r)
    BY <1>1, <2>1, Current, CallerKinds DEF CallerHist
  <2> QED
    BY <1>0, <2>2, <2>3, HistRequestStep
<1>2. ~tomb /\ row = None => past[Etag] = CompiledTemplate
  BY Current DEF HistInv, StoreHist
<1>3. ~tomb /\ row # None /\ row.etag \in DOMAIN cache => past[Etag] = cache[row.etag]
  BY Current DEF HistInv, CacheHist
<1> QED
  BY <1>0, <1>1, <1>2, <1>3, HeadCases, ServedHist

LEMMA LoadRowHist ==
  ASSUME HistInv, IInv', NEW c \in Readers, LoadRow(c), UNCHANGED work PROVE HistInv'
<1>0. /\ UNCHANGED <<row, tomb, past>> /\ c \in Callers
      /\ req[c].from \in Nat /\ (tomb \/ (row # None /\ req[c].from =< Etag))
  <2>1. c \in Callers /\ req[c].pc = "row" /\ UNCHANGED <<row, tomb, past>>
    BY CallerKinds DEF LoadRow
  <2>2. CallerHist(c, req[c])
    BY <2>1 DEF HistInv
  <2>3. req[c].from \in Nat /\ (tomb \/ (row # None /\ req[c].from =< row.etag))
    BY <2>1, <2>2 DEF CallerHist
  <2>4. row # None => Etag = row.etag
    BY Current
  <2> QED
    BY <2>1, <2>3, <2>4
<1>1. UNCHANGED cache => CacheHist'
  BY <1>0 DEF HistInv, CacheHist
<1>2. CASE row # None /\ ~tomb /\ CacheSet(row.etag, CompiledOf(row)) /\ Served(c, CompiledOf(row))
  <2>1. CacheHist'
    BY <1>0, <1>2, Current DEF HistInv, CacheHist, CacheSet
  <2> QED
    BY <1>0, <1>2, <2>1, Current, ServedHist
<1>3. ~tomb /\ row = None => past[Etag] = CompiledTemplate
  BY Current DEF HistInv, StoreHist
<1>4. ~tomb /\ row # None /\ row.etag \in DOMAIN cache => past[Etag] = cache[row.etag]
  BY Current DEF HistInv, CacheHist
<1> QED
  BY <1>0, <1>1, <1>2, <1>3, <1>4, LoadRowCases, ServedHist

LEMMA HistInit == Init => HistInv
<1> SUFFICES ASSUME Init PROVE HistInv
  OBVIOUS
<1>1. IInv
  BY InitOK
<1>2. Etag \in Nat /\ past = [e \in 0 .. Etag |-> IF e = 0 THEN CompiledTemplate ELSE CompiledOf(row)]
  BY <1>1, ResolvedType DEF Init
<1>3. /\ row # None => row.etag = 1 /\ Etag = 1 /\ CompiledOf(row).etag = 1
      /\ row = None => Etag = 0
      /\ CompiledTemplate.etag = 0
  BY <1>1, ResolvedType DEF Init, CompiledOf, CompiledTemplate, CompileOntology
<1>4. StoreHist
  BY <1>2, <1>3 DEF StoreHist
<1>5. CacheHist
  <2>1. DOMAIN cache = {}
    BY DEF Init
  <2> QED
    BY <2>1 DEF CacheHist
<1>6. \A c \in Callers : req[c].pc = "idle"
  BY DEF Init, Idle
<1> QED
  BY <1>1, <1>4, <1>5, <1>6 DEF HistInv, CallerHist

LEMMA HistNext == HistInv /\ [Next]_vars => HistInv'
<1> SUFFICES ASSUME HistInv, [Next]_vars PROVE HistInv'
  OBVIOUS
<1>0. IInv'
  BY NextOK DEF HistInv
<1>1. CASE UNCHANGED vars
  BY <1>0, <1>1, HistPageStep DEF vars, HistInv, CacheHist
<1>2. CASE Act /\ UNCHANGED work
  <2>1. ASSUME NEW c \in Loaders, NEW t \in Templates, StartTemplate(c, t) PROVE HistInv'
    <3> DEFINE r == [req[c] EXCEPT !.pc = "load", !.tpl = t]
    <3>1. c \in Callers /\ req[c] \in Requests
      BY CallerKinds DEF HistInv, IInv
    <3>2. r.pc = "load"
      BY <3>1 DEF Requests
    <3>3. req' = [req EXCEPT ![c] = r] /\ UNCHANGED <<row, tomb, past, cache>>
      BY <2>1 DEF StartTemplate
    <3> HIDE DEF r
    <3> QED
      BY <1>0, <3>1, <3>2, <3>3, HistQuietStep
  <2>2. ASSUME NEW c \in Callers, LoadForTemplate(c) \/ LoadForEdit(c) PROVE HistInv'
    <3>1. UNCHANGED past
      BY <2>2 DEF LoadForEdit, LoadForTemplate
    <3> QED
      BY <1>0, <2>2, <3>1, LoadHist
  <2>3. ASSUME NEW c \in Loaders, AnswerLoader(c) PROVE HistInv'
    BY <1>0, <2>3, AnswerHist DEF AnswerLoader
  <2>4. ASSUME NEW p \in Pages, AnswerPage(p) \/ LoseAnswer(p) PROVE HistInv'
    BY <1>0, <2>4, AnswerHist DEF AnswerPage, LoseAnswer
  <2>5. ASSUME NEW p \in Pages, NEW n, NEW b, Fetch(p) \/ Discard(p) \/ Edit(p, n, b)
        PROVE  HistInv'
    <3>1. UNCHANGED <<row, tomb, past, req, cache>>
      BY <2>5 DEF Fetch, Discard, Edit
    <3> QED
      BY <1>0, <3>1, HistPageStep DEF HistInv, CacheHist
  <2>6. ASSUME NEW p \in Pages, NEW n, Delete(p, n) \/ Save(p) PROVE HistInv'
    <3> DEFINE saved   == [Idle EXCEPT !.pc = "load", !.name = page[p].name,
                             !.body = page[p].body, !.ifMatch = page[p].data.etag]
               deleted == [Idle EXCEPT !.pc = "load", !.name = n,
                             !.ifMatch = page[p].data.etag, !.was = page[p].data]
    <3>1. saved.pc = "load" /\ deleted.pc = "load"
      BY DEF Idle
    <3>2. /\ req' = [req EXCEPT ![p] = saved] \/ req' = [req EXCEPT ![p] = deleted]
          /\ UNCHANGED <<row, tomb, past, cache>>
      BY <2>6 DEF Delete, Save
    <3> HIDE DEF saved, deleted
    <3> QED
      BY <1>0, <3>1, <3>2, CallerKinds, HistQuietStep
  <2>7. ASSUME NEW c \in Pages \cup Loaders, Write(c) PROVE HistInv'
    BY <1>0, <1>2, <2>7, WriteHist
  <2>8. ASSUME NEW c \in Readers, Head(c) \/ LoadRow(c) PROVE HistInv'
    BY <1>0, <1>2, <2>8, HeadHist, LoadRowHist
  <2>9. ASSUME NEW c \in Readers, ReadDone(c) PROVE HistInv'
    <3>1. Idle.pc = "idle" /\ c \in Callers
      BY CallerKinds DEF Idle
    <3> QED
      BY <1>0, <2>9, <3>1, HistQuietStep DEF ReadDone
  <2>10. ASSUME NEW e, Evict(e) PROVE HistInv'
    <3>1. CacheHist' /\ UNCHANGED <<row, tomb, past, req>>
      BY <2>10 DEF Evict, HistInv, CacheHist
    <3> QED
      BY <1>0, <3>1, HistPageStep
  <2>11. ASSUME Purge PROVE HistInv'
    <3>1. row' = None /\ tomb' /\ UNCHANGED <<past, cache, req>>
      BY <2>11 DEF Purge
    <3>2. StoreHist' /\ CacheHist'
      BY <3>1 DEF HistInv, StoreHist, CacheHist, CompiledTemplate
    <3>3. ~tomb
      BY <2>11 DEF Purge
    <3>4. ASSUME NEW d \in Callers PROVE CallerHist(d, req[d])'
      <4>1. CallerHist(d, req[d])
        BY DEF HistInv
      <4>2. DOMAIN past' = DOMAIN past /\ past' = past /\ req'[d] = req[d]
        BY <3>1
      <4>3. req[d].pc = "row" => req[d].from \in Nat
        BY <4>1 DEF CallerHist
      <4>4. req[d].pc = "served" => /\ req[d].got.etag \in DOMAIN past
                                    /\ req[d].got.etag >= req[d].from
                                    /\ req[d].got = past[req[d].got.etag]
        BY <3>3, <4>1 DEF CallerHist
      <4>5. d \notin Readers /\ req[d].pc = "answer" /\ req[d].set # None =>
              req[d].etag \in DOMAIN past /\ req[d].set = past[req[d].etag]
        BY <4>1 DEF CallerHist
      <4> QED
        BY <3>1, <4>2, <4>3, <4>4, <4>5 DEF CallerHist
    <3> QED
      BY <1>0, <3>2, <3>4 DEF HistInv
  <2> QED
    BY <1>2, <2>1, <2>2, <2>3, <2>4, <2>5, <2>6, <2>7, <2>8, <2>9, <2>10, <2>11,
       CallerKinds DEF Act
<1> QED
  BY <1>1, <1>2 DEF Next

(* The compiled schema served is one the workspace really had between the  *)
(* call and its answer, whatever the isolate has cached, evicted and been  *)
(* told by requests that lost or won against others.                       *)
THEOREM ServedFreshHolds == Spec => []ServedFresh
<1>1. HistInv => ServedFresh
  <2> SUFFICES ASSUME HistInv, NEW c \in Readers, req[c].pc = "served"
               PROVE  \/ tomb /\ req[c].got = EmptyCompiled
                      \/ /\ req[c].got.etag \in DOMAIN past
                         /\ req[c].got.etag >= req[c].from
                         /\ req[c].got = past[req[c].got.etag]
    BY DEF ServedFresh
  <2> QED
    BY CallerKinds DEF HistInv, CallerHist
<1>2. Init => HistInv
  BY HistInit
<1>3. HistInv /\ [Next]_vars => HistInv'
  BY HistNext
<1> QED
  BY <1>1, <1>2, <1>3, PTL DEF Spec
=============================================================================

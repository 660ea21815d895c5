------------------------------ MODULE Ontology ------------------------------
(***************************************************************************)
(* The ontology of one workspace (packages/ontology) and the workbench     *)
(* page that edits it (apps/web pages/ontology): one row with an etag,     *)
(* copied from a template by the first change; put and delete with         *)
(* If-Match; setTemplate for the sample load and the clear; the compiled   *)
(* schema every other service asks for, cached per isolate by etag; the    *)
(* purge that ends it.                                                     *)
(*                                                                         *)
(* A D1 statement is one step, a request has its own copy of what it read. *)
(*                                                                         *)
(* Abstracted: a definition is a body out of a small set, of which only    *)
(* its properties and what it refers to is kept; malformed bodies (zod,    *)
(* duplicate names, keys, indexes, JSONLogic), which are refused before    *)
(* anything is read; the template version; the ont_template table, which   *)
(* nobody reads back; the 48 h after which a tombstone is swept.           *)
(***************************************************************************)
EXTENDS Naturals, FiniteSets

CONSTANTS
    Names,       \* api names of definitions
    Kind,        \* their DefKind; "fixed" is a function or a simulation KPI
    Bodies,      \* the bodies each name may have
    Edits,       \* the bodies of each name that users type in
    Deletions,   \* the names that users delete
    Templates,   \* built-in templates ...
    Template,    \* ... and their definitions
    Blank,       \* DEFAULT_TEMPLATE
    Pages,       \* open workbench pages
    Loaders,     \* sample loads and clears, which call setTemplate
    Readers,     \* services that call getCompiledSchema
    Workloads,   \* who is at work (active), on an untouched workspace or on
                 \* a copy of a template (copied), for how many versions of
                 \* the row (maxEtag, a bound)
    None

\* A body has props (of an object type), at: where it names other
\* definitions, and hints: properties that must exist in some type.
TypeSites == {"propRef", "from", "to", "target", "paramRef", "suggestType",
              "objectType", "returns"}
LinkSites == {"suggestLink", "effectLink"}

Editable == {n \in Names : Kind[n] # "fixed"}
Callers  == Pages \cup Loaders \cup Readers

ASSUME ConstantsAssumption ==
    /\ Kind \in [Names -> {"object-types", "link-types", "action-types",
                           "fixed"}]
    /\ \A n \in Names : Edits[n] \subseteq Bodies[n]
    /\ Deletions \subseteq Editable
    /\ Workloads \subseteq [active : SUBSET Callers,
                            copied : Templates \cup {None}, maxEtag : Nat]
    /\ \A w \in Workloads : w.copied # None => w.maxEtag > 0
    /\ Blank \in Templates
    /\ \A t \in Templates :
         \E S \in SUBSET Names :
            /\ Template[t] \in [S -> UNION {Bodies[n] : n \in S}]
            /\ \A n \in S : Template[t][n] \in Bodies[n]
    /\ Pages \cap Loaders = {} /\ Readers \cap (Pages \cup Loaders) = {}

\* validateObjectType, validateAction, linkTypes: only an action names links.
ASSUME SitesAssumption ==
    \A n \in Names : Kind[n] # "action-types" =>
        \A b \in Bodies[n] : \A s \in LinkSites : b.at[s] = {}

\* "Nothing" is no row, no ontology a page has fetched and no body.
ASSUME NoneAssumption ==
    \A S \in SUBSET Names :
        LET Defs == [S -> UNION {Bodies[n] : n \in S}] IN
        /\ None \notin [tpl : Templates, def : Defs, etag : Nat]
        /\ None \notin [etag : Nat, def : Defs]
        /\ \A n \in Names : None \notin Bodies[n]

VARIABLES
    row,     \* ont_workspace_schema: template, definition and etag, or None
    tomb,    \* the workspace has a tombstone
    cache,   \* MemoryCompiledCache of one isolate, for this workspace
    req,     \* the request each caller has in flight
    page,    \* the workbench pages
    work,    \* the workload
    past     \* history: what the workspace saw under each etag

vars == <<row, tomb, cache, req, page, work, past>>

-----------------------------------------------------------------------------
(* domain: definitions are functions from the names present to bodies *)

Present(def, kind) == {n \in DOMAIN def : Kind[n] = kind}

PutDef(def, n, body) ==
    [m \in DOMAIN def \cup {n} |-> IF m = n THEN body ELSE def[m]]

RemoveDef(def, n) == [m \in DOMAIN def \ {n} |-> def[m]]

\* validateOntology: every name and every hinted property resolves.
Hinted(def) ==
    UNION {def[n].hints : n \in DOMAIN def}
        \subseteq UNION {def[n].props : n \in DOMAIN def}

ValidateOntology(def) ==
    /\ \A n \in DOMAIN def :
         /\ \A s \in TypeSites : def[n].at[s] \subseteq Present(def, "object-types")
         /\ \A s \in LinkSites : def[n].at[s] \subseteq Present(def, "link-types")
    /\ Hinted(def)

\* Mutant: a function's return type does not hold its object type.
ReferencesToFew(def, id) ==
    CASE Kind[id] = "object-types" ->
           {n \in DOMAIN def \ {id} :
              \E s \in TypeSites \ {"returns"} : id \in def[n].at[s]}
      [] Kind[id] = "link-types" ->
           {n \in DOMAIN def : \E s \in LinkSites : id \in def[n].at[s]}
      [] OTHER -> {}

\* referencesTo: what still names a definition that is to be deleted.
ReferencesTo(def, id) ==
    CASE Kind[id] = "object-types" ->
           {n \in DOMAIN def \ {id} :
              \E s \in TypeSites : id \in def[n].at[s]}
      [] Kind[id] = "link-types" ->
           {n \in DOMAIN def : \E s \in LinkSites : id \in def[n].at[s]}
      [] OTHER -> {}

\* compileOntology keeps the definition and is labelled with its identity.
CompileOntology(def, tpl, custom, etag) ==
    [def |-> def, tpl |-> tpl, custom |-> custom, etag |-> etag]

EmptyCompiled == CompileOntology(<<>>, Blank, FALSE, 0)

CompiledTemplate == CompileOntology(Template[Blank], Blank, FALSE, 0)

CompiledOf(r) == CompileOntology(r.def, r.tpl, TRUE, r.etag)

\* resolve: what the workspace sees, apart from the tombstone.
Resolved ==
    IF row = None THEN [tpl |-> Blank, def |-> Template[Blank], etag |-> 0]
    ELSE row

Etag == Resolved.etag

-----------------------------------------------------------------------------
\* A request: what it asks (name, body, ifMatch, was, tpl), what it
\* read (insert, base), what it writes (new) and its answer (code, etag, set
\* or from, got).
Idle == [pc |-> "idle", name |-> None, body |-> None,
         ifMatch |-> 0, was |-> None, tpl |-> None, insert |-> FALSE,
         base |-> 0, new |-> None, code |-> None, etag |-> 0, set |-> None,
         from |-> None, got |-> None]

NewPage == [data |-> None, name |-> None, body |-> None, seen |-> None,
            dirty |-> FALSE]

\* A copy of a template was written by setTemplate, which validates it.
Init ==
    /\ work \in Workloads
    /\ work.copied # None => ValidateOntology(Template[work.copied])
    /\ row = IF work.copied = None THEN None
             ELSE [tpl |-> work.copied, def |-> Template[work.copied],
                   etag |-> 1]
    /\ tomb = FALSE
    /\ cache = <<>>
    /\ req = [c \in Callers |-> Idle]
    /\ page = [p \in Pages |-> NewPage]
    /\ past = [e \in 0 .. Etag |-> IF e = 0 THEN CompiledTemplate
                                  ELSE CompiledOf(row)]

-----------------------------------------------------------------------------
(* The requests that change the ontology.  A request keeps what it read    *)
(* (base, the etag, and whether there was a row) and what it will write.   *)

\* MemoryCompiledCache.set; the bounded LRU drops an entry at any time.
CacheSet(e, compiled) ==
    cache' = [x \in DOMAIN cache \cup {e} |->
                IF x = e THEN compiled ELSE cache[x]]

\* The request is answered without a change.
Refused(c, code) ==
    req' = [req EXCEPT ![c] = [Idle EXCEPT !.pc = "answer", !.code = code]]

\* What the row becomes once the request has read it.
ToWrite(c, tpl, def) ==
    req' = [req EXCEPT ![c].pc = "write",
                       ![c].insert = (row = None), ![c].base = Etag,
                       ![c].new = [tpl |-> tpl, def |-> def,
                                   etag |-> Etag + 1]]

\* commit(): validate, then write.
Commit(c, tpl, def) ==
    IF ValidateOntology(def) THEN ToWrite(c, tpl, def)
    ELSE Refused(c, "VALIDATION_FAILED")

\* putDefinition and deleteDefinition up to their first await's return.
LoadForEdit(c) ==
    /\ c \in Pages /\ req[c].pc = "load"
    /\ LET def == Resolved.def
           n == req[c].name IN
       CASE tomb -> Refused(c, "NOT_FOUND")
         [] ~tomb /\ Etag # req[c].ifMatch -> Refused(c, "PRECONDITION_FAILED")
         [] ~tomb /\ Etag = req[c].ifMatch /\ req[c].body # None ->
              Commit(c, Resolved.tpl, PutDef(def, n, req[c].body))
         [] OTHER ->
              IF n \notin DOMAIN def THEN Refused(c, "NOT_FOUND")
              ELSE IF ReferencesTo(def, n) # {}
                   THEN Refused(c, "VALIDATION_FAILED")
                   ELSE Commit(c, Resolved.tpl, RemoveDef(def, n))
    /\ UNCHANGED <<row, tomb, cache, page, past>>

\* A sample load or a clear switches the template ...
StartTemplate(c, tpl) ==
    /\ c \in Loaders /\ req[c].pc = "idle"
    /\ req' = [req EXCEPT ![c].pc = "load", ![c].tpl = tpl]
    /\ UNCHANGED <<row, tomb, cache, page, past>>

\* ... with setTemplate, which takes the etag it finds.
LoadForTemplate(c) ==
    /\ c \in Loaders /\ req[c].pc = "load"
    /\ IF tomb THEN Refused(c, "NOT_FOUND")
       ELSE Commit(c, req[c].tpl, Template[req[c].tpl])
    /\ UNCHANGED <<row, tomb, cache, page, past>>

\* Mutant: the UPDATE has no etag in its WHERE.
WritableAnyEtag(c) ==
    IF req[c].insert THEN row = None /\ ~tomb ELSE row # None

\* insertCopy (NOT EXISTS tombstone, ON CONFLICT DO NOTHING), update
\* (WHERE etag): whether the statement changes the row.
Writable(c) ==
    IF req[c].insert THEN row = None /\ ~tomb
    ELSE row # None /\ row.etag = req[c].base

\* The change is answered with the etag the request computed.
Written(c) ==
    req' = [req EXCEPT ![c] =
              [Idle EXCEPT !.pc = "answer", !.code = "OK",
                           !.name = req[c].name, !.body = req[c].body,
                           !.was = req[c].was, !.etag = req[c].new.etag,
                           !.set = CompiledOf(req[c].new)]]

\* Mutant: the cache is filled although the statement changed nothing.
WriteCaches(c) ==
    /\ req[c].pc = "write" /\ Etag < work.maxEtag
    /\ Written(c)
    /\ IF Writable(c)
       THEN /\ row' = req[c].new
            /\ past' = [e \in DOMAIN past \cup {row'.etag} |->
                          IF e = row'.etag THEN CompiledOf(row') ELSE past[e]]
       ELSE UNCHANGED <<row, past>>
    /\ UNCHANGED <<tomb, cache, page>>

Write(c) ==
    /\ req[c].pc = "write" /\ Etag < work.maxEtag
    /\ IF Writable(c)
       THEN LET new == [req[c].new EXCEPT !.etag =
                          IF row = None THEN 1 ELSE row.etag + 1] IN
            /\ row' = new
            /\ past' = [e \in DOMAIN past \cup {new.etag} |->
                          IF e = new.etag THEN CompiledOf(new) ELSE past[e]]
            /\ Written(c)
       ELSE /\ Refused(c, "PRECONDITION_FAILED")
            /\ UNCHANGED <<row, past>>
    /\ UNCHANGED <<tomb, cache, page>>

\* The statement has answered: the isolate caches what it wrote.  (Without
\* a reader nobody looks into the cache.)
Remember(c) ==
    IF req[c].set = None \/ Readers \cap work.active = {} THEN UNCHANGED cache
    ELSE CacheSet(req[c].etag, req[c].set)

AnswerLoader(c) ==
    /\ c \in Loaders /\ req[c].pc = "answer"
    /\ Remember(c)
    /\ req' = [req EXCEPT ![c] = Idle]
    /\ UNCHANGED <<row, tomb, page, past>>

-----------------------------------------------------------------------------
(* The workbench page (ontology_page.tsx): the ontology it has fetched and *)
(* one form, loaded from it until the user edits it.                       *)

BodyIn(def, n) == IF n \in DOMAIN def THEN def[n] ELSE None

\* GET /ontology and getOntology, on mount, when a stale query is used again
\* and when a settled change has invalidated it: the form follows what comes
\* unless it has edits.  The time an answer takes is left out: a later one
\* gives an older etag, with which the server refuses the save.
Fetch(p) ==
    /\ LET o == IF tomb THEN [etag |-> 0, def |-> <<>>]
                ELSE [etag |-> Etag, def |-> Resolved.def] IN
       page' = [page EXCEPT ![p] =
                  IF @.dirty THEN [@ EXCEPT !.data = o]
                  ELSE [NewPage EXCEPT !.data = o]]
    /\ UNCHANGED <<row, tomb, cache, req, past>>

\* The user edits a definition, an old one or a new one.
Edit(p, n, body) ==
    /\ req[p].pc = "idle" /\ page[p].data # None
    /\ page' = [page EXCEPT ![p] =
         IF @.dirty /\ @.name = n THEN [@ EXCEPT !.body = body]
         ELSE [@ EXCEPT !.name = n, !.body = body, !.dirty = TRUE,
                        !.seen = BodyIn(page[p].data.def, n)]]
    /\ page'[p].body # page'[p].seen
    /\ UNCHANGED <<row, tomb, cache, req, past>>

\* discard(); refreshAfterConflict() also fetches.
Discard(p) ==
    /\ page[p].dirty /\ req[p].pc = "idle"
    /\ page' = [page EXCEPT ![p] = [@ EXCEPT !.name = None, !.body = None,
                                            !.seen = None, !.dirty = FALSE]]
    /\ UNCHANGED <<row, tomb, cache, req, past>>

\* buildDef: the page's own checks, against the ontology it has fetched.
BuildDef(def, n, body) ==
    LET types == Present(def, "object-types") IN
    /\ body.at["propRef"] \subseteq types \cup {n}
    /\ body.at["from"] \cup body.at["to"] \cup body.at["target"] \subseteq types
    /\ body.at["effectLink"] \subseteq Present(def, "link-types")
    /\ \A t \in body.at["target"] : body.hints \subseteq def[t].props

\* onSave: If-Match is the etag of the ontology the page has by now.
Save(p) ==
    /\ page[p].dirty /\ req[p].pc = "idle"
    /\ page[p].seen = None => page[p].name \notin DOMAIN page[p].data.def
    /\ BuildDef(page[p].data.def, page[p].name, page[p].body)
    /\ req' = [req EXCEPT ![p] =
         [Idle EXCEPT !.pc = "load", !.name = page[p].name,
                      !.body = page[p].body,
                      !.ifMatch = page[p].data.etag]]
    /\ UNCHANGED <<row, tomb, cache, page, past>>

\* referencesTo of the page: the dialog offers no deletion of a type that
\* the links, actions and types it has fetched still name.
PageReferences(def, id) ==
    IF Kind[id] # "object-types" THEN {}
    ELSE {n \in DOMAIN def \ {id} :
            id \in UNION {def[n].at[s] : s \in {"from", "to", "target", "propRef"}}}

\* onDelete
Delete(p, n) ==
    /\ req[p].pc = "idle" /\ ~page[p].dirty /\ page[p].data # None
    /\ n \in DOMAIN page[p].data.def
    /\ PageReferences(page[p].data.def, n) = {}
    /\ req' = [req EXCEPT ![p] =
         [Idle EXCEPT !.pc = "load", !.name = n,
                      !.ifMatch = page[p].data.etag, !.was = page[p].data]]
    /\ UNCHANGED <<row, tomb, cache, page, past>>

\* withDefinition, and the form of what was saved.
Saved(p) ==
    [NewPage EXCEPT !.data =
       [etag |-> req[p].etag,
        def  |-> IF req[p].body = None THEN RemoveDef(req[p].was.def, req[p].name)
                 ELSE PutDef(page[p].data.def, req[p].name, req[p].body)]]

\* The answer; whatever it is, onSettled invalidates the query (Fetch).
\* After an error, a conflict too, the form keeps its edits.
AnswerPage(p) ==
    /\ req[p].pc = "answer"
    /\ Remember(p)
    /\ req' = [req EXCEPT ![p] = Idle]
    /\ page' = [page EXCEPT ![p] =
         IF req[p].code = "OK" THEN Saved(p) ELSE @]
    /\ UNCHANGED <<row, tomb, past>>

\* The answer does not reach the page, which sees a network error.
LoseAnswer(p) ==
    /\ req[p].pc = "answer"
    /\ Remember(p)
    /\ req' = [req EXCEPT ![p] = Idle]
    /\ UNCHANGED <<row, tomb, page, past>>

-----------------------------------------------------------------------------
(* getCompiledSchema, which every service calls before it reads or writes *)

Served(c, compiled) ==
    req' = [req EXCEPT ![c].pc = "served", ![c].got = compiled,
                       ![c].from = IF @ = None THEN Etag ELSE @]

\* MemoryCompiledCache.get
Cached(e) == IF e \in DOMAIN cache THEN cache[e] ELSE None

\* head(): the tombstone and the etag, then the cache ...
Head(c) ==
    /\ req[c].pc = "idle"
    /\ CASE tomb -> Served(c, EmptyCompiled)
         [] ~tomb /\ row = None -> Served(c, CompiledTemplate)
         [] OTHER ->
              LET hit == Cached(row.etag) IN
              IF hit # None THEN Served(c, hit)
              ELSE req' = [req EXCEPT ![c].pc = "row", ![c].from = Etag]
    /\ UNCHANGED <<row, tomb, cache, page, past>>

\* ... or load() and compiledOfRow, which fills the cache.
LoadRow(c) ==
    /\ req[c].pc = "row"
    /\ CASE tomb -> Served(c, EmptyCompiled) /\ UNCHANGED cache
         [] ~tomb /\ row = None -> Served(c, CompiledTemplate) /\ UNCHANGED cache
         [] OTHER ->
              LET hit == Cached(row.etag) IN
              IF hit # None THEN Served(c, hit) /\ UNCHANGED cache
              ELSE /\ Served(c, CompiledOf(row))
                   /\ CacheSet(row.etag, CompiledOf(row))
    /\ UNCHANGED <<row, tomb, page, past>>

ReadDone(c) ==
    /\ req[c].pc = "served"
    /\ req' = [req EXCEPT ![c] = Idle]
    /\ UNCHANGED <<row, tomb, cache, page, past>>

\* Another workspace's schema takes the place of an entry in the LRU; also,
\* a request served by another isolate leaves nothing in this one's cache.
Evict(e) ==
    /\ e \in DOMAIN cache
    /\ cache' = [x \in DOMAIN cache \ {e} |-> cache[x]]
    /\ UNCHANGED <<row, tomb, req, page, past>>

\* purgeTenant: the row goes and the tombstone comes in one batch.
Purge ==
    /\ ~tomb
    /\ row' = None /\ tomb' = TRUE
    /\ UNCHANGED <<cache, req, page, past>>

-----------------------------------------------------------------------------
Act ==
    \/ \E c \in Loaders \cap work.active :
         \/ \E t \in Templates : StartTemplate(c, t)
         \/ LoadForTemplate(c) \/ AnswerLoader(c)
    \/ \E p \in Pages \cap work.active :
         \/ Fetch(p) \/ Discard(p)
         \/ \E n \in Deletions : Delete(p, n)
         \/ \E n \in Editable : \E b \in Edits[n] : Edit(p, n, b)
         \/ Save(p) \/ LoadForEdit(p) \/ AnswerPage(p) \/ LoseAnswer(p)
    \/ \E c \in Pages \cup Loaders : Write(c)
    \/ \E c \in Readers \cap work.active : Head(c) \/ LoadRow(c) \/ ReadDone(c)
    \/ \E e \in 1 .. work.maxEtag : Evict(e)
    \/ Purge

Next == Act /\ UNCHANGED work

Spec == Init /\ [][Next]_vars
-----------------------------------------------------------------------------
(* Properties *)

IsDef(def) ==
    /\ DOMAIN def \subseteq Names
    /\ \A n \in DOMAIN def : def[n] \in Bodies[n]

IsData(d) == d.etag \in 0 .. work.maxEtag /\ IsDef(d.def)

\* The row, the caches, the requests and the pages stay well formed; a copy
\* has an etag of 1 or more and a stored definition is a valid ontology.
TypeOK ==
    /\ row # None => /\ IsData(row) /\ row.etag > 0 /\ row.tpl \in Templates
                     /\ ValidateOntology(row.def)
    /\ tomb \in BOOLEAN
    /\ \A e \in DOMAIN cache : IsData(cache[e])
    /\ \A c \in Callers :
         req[c].pc \in {"idle", "load", "write", "answer", "row",
                        "served"}
    /\ \A p \in Pages :
         /\ page[p].data # None => IsData(page[p].data)
         /\ page[p].dirty => page[p].data # None /\ page[p].name \in Editable

\* No edit is lost on the server: what a put or delete stores is its own
\* change on top of the version stored right before, whoever else edits or
\* switches the template at the same time (If-Match, UPDATE ... WHERE etag).
EditsAddUp ==
    [][\A p \in Pages :
         req[p].pc = "write" /\ req'[p].pc = "answer" /\ row' # row
         => row'.def = IF req[p].body = None
                       THEN RemoveDef(Resolved.def, req[p].name)
                       ELSE PutDef(Resolved.def, req[p].name, req[p].body)]_vars

\* getCompiledSchema answers with a version the workspace really had between
\* the call and its answer, complete and under its own etag, whatever the
\* isolate's cache holds; a purged workspace has no types.
ServedFresh ==
    \A c \in Readers : req[c].pc = "served" =>
        \/ tomb /\ req[c].got = EmptyCompiled
        \/ LET e == req[c].got.etag IN
           /\ e \in DOMAIN past /\ e >= req[c].from
           /\ req[c].got = past[e]

\* A purged workspace never gets a row again: a change that had read it
\* before the purge finds the tombstone, so countTenant stays 0.
PurgedStaysGone == tomb => row = None

\* referencesTo refuses a deletion exactly when the rest would not validate
\* (hinted properties aside, which validateOntology alone looks at).
ReferencesAgree ==
    row # None => \A id \in DOMAIN row.def \cap Editable :
        LET rest == RemoveDef(row.def, id) IN
        Hinted(rest) => (ReferencesTo(row.def, id) = {} <=> ValidateOntology(rest))

\* The stored ontology is sound: valid after every edit, which referencesTo
\* must foresee when it lets a type go, and gone for good after a purge.
StoreSound == TypeOK /\ ReferencesAgree /\ PurgedStaysGone
=============================================================================

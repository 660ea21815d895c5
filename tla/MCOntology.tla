---------------------------- MODULE MCOntology ----------------------------
(* A small instance of Ontology: two types, a link between them, an action *)
(* that relinks it and hints at a property, and a function.                *)
EXTENDS Ontology, TLC

CONSTANTS a, b, l, x, f, p, q, blank, scenario, w1, w2, load, read

Nowhere == [s \in TypeSites \cup LinkSites |-> {}]
Body(props, at, hints) ==
    [props |-> props, at |-> [s \in DOMAIN Nowhere |->
                                IF s \in DOMAIN at THEN at[s] ELSE {}],
     hints |-> hints]

TypeA == Body({p}, [propRef |-> {a}], {})
TypeB == Body({q}, <<>>, {})
LinkL == Body({}, [from |-> {a}, to |-> {b}], {})
ActX  == Body({}, [target |-> {a}, effectLink |-> {l}], {q})
FunF  == Body({}, [returns |-> {b}], {})

MCKind == (a :> "object-types") @@ (b :> "object-types") @@
          (l :> "link-types") @@ (x :> "action-types") @@ (f :> "fixed")

TypeA2 == Body({p, q}, <<>>, {})
ActX2  == Body({}, [target |-> {a}, suggestLink |-> {l}], {p})

MCEdits == [n \in Names |->
    CASE n = a -> {TypeA2} [] n = x -> {ActX2} [] OTHER -> {}]

MCBodies ==
    (a :> {TypeA, TypeA2}) @@ (b :> {TypeB}) @@ (l :> {LinkL}) @@
    (x :> {ActX, ActX2}) @@ (f :> {FunF})

MCTemplate ==
    (blank :> <<>>) @@
    (scenario :> ((a :> TypeA) @@ (b :> TypeB) @@ (l :> LinkL) @@
                  (x :> ActX) @@ (f :> FunF)))

Work(who, copied, max) == [active |-> who, copied |-> copied, maxEtag |-> max]

\* Two editors at once, on an untouched and on a loaded workspace; a switch
\* of the template against an editor and a reader.
MCWorkloads == {Work({w1, w2, load}, None, 2), Work({w1, w2}, scenario, 3),
                Work({w1, load, read}, None, 2),
                Work({w2, load, read}, None, 2)}

Symmetric == Permutations({w1, w2})
===========================================================================

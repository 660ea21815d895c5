-------------------------- MODULE MCObjectGraph ---------------------------
(* Small instances of ObjectGraph for TLC. *)
EXTENDS ObjectGraph, TLC

CONSTANTS a, b, c, d, e, p, q, w1, w2, w3

Row1(k, s, to) == [pk |-> k, set |-> s, to |-> to]
Upsert(rows) == [kind |-> "upsert", rows |-> rows]
Patch(k, s) == [kind |-> "patch", rows |-> <<Row1(k, s, None)>>]
Act(k, s, to) == [kind |-> "action", rows |-> <<Row1(k, s, to)>>]
Clear == [kind |-> "clear", rows |-> <<>>]

\* Two new objects with a link each; one new object; a link and changes of
\* objects that are there.
Imports ==
    { Upsert(<<Row1(c, p :> 1, a), Row1(d, p :> 1, b)>>),
      Upsert(<<Row1(e, p :> 1, None)>>),
      Upsert(<<Row1(a, q :> 2, b), Row1(b, p :> 2, None)>>) }

\* What the clear may meet: new objects, a change with a link.
ImportsAndClear ==
    { Upsert(<<Row1(a, q :> 2, b), Row1(c, p :> 1, None)>>),
      Upsert(<<Row1(b, p :> 1, None), Row1(a, p :> 1, None)>>),
      Clear }

\* Guarded writes of a and imports of other properties of it.
GuardedInputs ==
    { Patch(a, p :> 2), Patch(a, q :> 2), Act(a, p :> 1, b),
      Upsert(<<Row1(a, q :> 1, None), Row1(b, p :> 1, None)>>) }

\* A clear between the reads and the commits of an import and an action.
Revival ==
    (w1 :> {Upsert(<<Row1(a, q :> 1, None)>>)}) @@ (w2 :> {Act(a, p :> 2, b)})
    @@ (w3 :> {Clear})

\* Imports alone; patches, actions and a clear among imports; three requests
\* that overlap a clear.
Works ==
    { [asks |-> [w \in {w1, w2} |-> Imports], ops |-> 2, failures |-> 2],
      [asks |-> [w \in {w1, w2} |-> ImportsAndClear \cup GuardedInputs],
       ops |-> 2, failures |-> 2],
      [asks |-> Revival, ops |-> 3, failures |-> 1] }

NoLinks == {}
===========================================================================

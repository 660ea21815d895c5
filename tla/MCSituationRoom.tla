-------------------------- MODULE MCSituationRoom --------------------------
(* Small instances of SituationRoom for TLC. *)
EXTENDS SituationRoom

MCObjects == {[p |-> 1, q |-> 1], [p |-> 2, q |-> 1], [p |-> 2, q |-> 0]}

MCUserDefs ==
    {[trigger |-> "threshold", prop |-> "q", on |-> TRUE],
     [trigger |-> "threshold", prop |-> "q", on |-> FALSE],
     [trigger |-> "schedule", prop |-> "p", on |-> TRUE]}

Nothing == [write |-> 0, rids |-> Rids, dup |-> 0, fail |-> 0, call |-> 0, kinds |-> {},
            ack |-> 0, reset |-> 0, clear |-> 0, close |-> 0, purge |-> 0, tick |-> 0]

\* Deliveries, initializations and a clear or a reset at once ...
Events == [Nothing EXCEPT !.write = 2, !.call = 1, !.kinds = {"overview"}, !.clear = 1]
Reloads == [Nothing EXCEPT !.write = 2, !.rids = {1}, !.dup = 1, !.fail = 2, !.reset = 1]
\* ... alerts over time ...
Alerts == [Nothing EXCEPT !.write = 3, !.rids = {1}, !.ack = 1, !.tick = 2]
\* ... two people at the automations ...
Edits == [Nothing EXCEPT !.write = 1, !.rids = {1}, !.call = 2, !.kinds = {"create", "put", "delete"}, !.tick = 1]
\* ... and the end of the trial.
Trial == [Nothing EXCEPT !.write = 1, !.rids = {1}, !.call = 2, !.kinds = {"overview", "list", "create"},
                         !.fail = 1, !.close = 1, !.purge = 1, !.tick = 2]

MCWorkloads == {Events, Reloads, Alerts, Edits, Trial}
=============================================================================

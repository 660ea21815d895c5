-------------------------- MODULE MCPlatformAdmin --------------------------
(* Small instances of PlatformAdmin for TLC. *)
EXTENDS PlatformAdmin, TLC

CONSTANTS q1, q2, q3

Nothing == [ready |-> TRUE, counting |-> TRUE, valid |-> {TRUE}, patch |-> 0, put |-> 0, register |-> 0,
            assert |-> 0, submit |-> 0, remove |-> 0, recover |-> 0, change |-> 0,
            fail |-> 0, die |-> 0, sweep |-> 0, time |-> 1]

\* Edits of the settings and the blocked domains ...
Patches == [Nothing EXCEPT !.patch = 3, !.put = 1, !.time = 3]
Lists == [Nothing EXCEPT !.put = 3, !.die = 1]
\* ... the first passkeys ...
Setups == [Nothing EXCEPT !.ready = FALSE, !.valid = BOOLEAN, !.register = 3, !.submit = 4, !.die = 1]
\* ... signing in, with authenticators that count or do not, and recovering ...
SignIns == [Nothing EXCEPT !.assert = 2, !.submit = 3, !.sweep = 1, !.time = 3]
Uncounted == [Nothing EXCEPT !.counting = FALSE, !.assert = 2, !.submit = 3]
Recoveries == [Nothing EXCEPT !.recover = 3, !.register = 1, !.submit = 2]
\* ... passkeys that come and go ...
Removals == [Nothing EXCEPT !.register = 2, !.submit = 2, !.remove = 2]
\* ... and the changes of operations.
Changes == [Nothing EXCEPT !.change = 2, !.fail = 1, !.die = 1, !.time = 3]
Resets == [Nothing EXCEPT !.change = 1, !.register = 1, !.submit = 2, !.die = 1, !.time = 2]

MCWorkloads == {Patches, Lists, Setups, SignIns, Uncounted, Recoveries, Removals, Changes, Resets}

Symmetric == Permutations(Reqs)
=============================================================================

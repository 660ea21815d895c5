----------------------------- MODULE MCSignIn -----------------------------
(* Small instances of SignIn for TLC. *)
EXTENDS SignIn, TLC

CONSTANTS e1, e2, q1, q2, q3, t1, t2

Nothing == [members |-> {}, inbox |-> {}, purposes |-> {}, kinds |-> {}, who |-> {e1},
            from |-> {t1}, send |-> 0, submit |-> 0, typo |-> 0, refresh |-> 0,
            logout |-> 0, lose |-> 0, admin |-> 0, toggle |-> 0, tick |-> 0]
Member == [Nothing EXCEPT !.members = {e1}, !.inbox = {"login"}, !.purposes = {"login"}]

\* Sign-ups of two addresses, a code typed twice, sign-up paused meanwhile ...
Joining == [Nothing EXCEPT !.purposes = {"signup"}, !.who = {e1, e2}]
SignUps == [Joining EXCEPT !.send = 2, !.submit = 3, !.toggle = 1]
Sends == [Joining EXCEPT !.who = {e1}, !.send = 3, !.submit = 2, !.tick = 1]
\* ... codes asked for and mistyped, over the throttle and a day's end ...
Typos == [Member EXCEPT !.send = 1, !.submit = 1, !.typo = 3, !.tick = 2]
\* ... two tabs at the same cookie, with lost answers, sign-out and sign-in ...
Browsing == [Member EXCEPT !.from = {t1, t2}, !.submit = 1, !.refresh = 3, !.logout = 1, !.lose = 1]
\* ... and the end of the trial, its move or a ban meanwhile.
Endings == [Member EXCEPT !.inbox = {"login", "terminate"}, !.purposes = {"login", "terminate"},
                          !.submit = 2, !.refresh = 1, !.tick = 2]
Orders == [Member EXCEPT !.submit = 1, !.refresh = 2, !.admin = 1, !.tick = 1,
                         !.kinds = {"end", "move", "ban", "unban", "revoke"}]

MCWorkloads == {SignUps, Sends, Typos, Browsing, Endings, Orders}

=============================================================================

--------------------------- MODULE MCLiveStream ---------------------------
(* Small instances of LiveStream for TLC. *)
EXTENDS LiveStream

CONSTANTS a1, a2, b1, A, B

\* Two tabs of browser A and one of browser B.
MCBrowser == [t \in Tabs |-> IF t = b1 THEN B ELSE A]

Nothing == [k \in Kinds \cup {"tabs"} |-> IF k = "tabs" THEN {a1} ELSE 0]

\* Messages, a break and a failure ...
Breaks == [Nothing EXCEPT !["push"] = 3, !["drop"] = 1, !["fail"] = 1]
\* ... polling ...
Polls == [Nothing EXCEPT !["push"] = 2, !["fail"] = 3, !["poll"] = 1]
\* ... two tabs that share a connection ...
Shares == [Nothing EXCEPT !["tabs"] = {a1, a2}, !["push"] = 1, !["drop"] = 1]
\* ... that hide and leave ...
Hiding == [Nothing EXCEPT !["hide"] = 2, !["push"] = 1, !["drop"] = 1]
Leaving == [Nothing EXCEPT !["tabs"] = {a1, a2}, !["hide"] = 1, !["stop"] = 1]
\* ... the end of the trial and its extension ...
Ends == [Nothing EXCEPT !["tabs"] = {a1, a2}, !["end"] = 1, !["extend"] = 1]
\* ... and two browsers.
Devices == [Nothing EXCEPT !["tabs"] = {a1, b1}, !["push"] = 1, !["drop"] = 1]

MCWorkloads == {Breaks, Polls, Shares, Hiding, Leaving, Ends, Devices}
=============================================================================

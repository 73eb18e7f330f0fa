--------------------------- MODULE MCStdioBackend ---------------------------
(* StdioBackend for TLC: the ids the clients choose.                         *)
EXTENDS StdioBackend, TLC

CONSTANTS c1, c2, c3, i1, i2, i3

\* Two requests and a notification.
WithNotification == (c1 :> i1) @@ (c2 :> i2) @@ (c3 :> NoId)

\* Two clients that both count from the same number.
SharedIds == (c1 :> i1) @@ (c2 :> i1)
=============================================================================

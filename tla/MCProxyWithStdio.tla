--------------------------- MODULE MCProxyWithStdio ---------------------------
(* ProxyWithStdio for TLC. *)
EXTENDS ProxyWithStdio, TLC

CONSTANTS r1, r2, i1, i2

\* Every client numbers its requests apart from the others.
OwnIds == (r1 :> i1) @@ (r2 :> i2)

\* A result whose text is read.
OneText ==
  {[result |-> TRUE, readable |-> TRUE, dlp |-> FALSE, inj |-> 0]}
=============================================================================

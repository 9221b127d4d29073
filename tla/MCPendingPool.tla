--------------------------- MODULE MCPendingPool ---------------------------
(* Small instances of PendingPool for TLC. *)
EXTENDS PendingPool, TLC

CONSTANTS n1, n2, w1, w2, w3

\* w1 and w2 are a forwarded transaction and its re-forward, w3 is local
MCNonces == {n1, n2}
MCWaiters == {w1, w2, w3}
MCNonceOf == (w1 :> n1) @@ (w2 :> n1) @@ (w3 :> n2)
MCLocal == {w3}
\* One submission of each nonce, for the run of a lost round
MCLive == {w1, w3}
MCLiveNonceOf == (w1 :> n1) @@ (w3 :> n2)
=============================================================================

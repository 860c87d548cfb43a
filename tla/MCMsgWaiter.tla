---------------------------- MODULE MCMsgWaiter ----------------------------
EXTENDS MsgWaiter, TLC

CONSTANTS w1, w2, w3, r1, r2, r3, c1, c2, c3

\* One waiter and one responder per message, as the manager's tests use it.
OneEachWaitCid == (w1 :> c1) @@ (w2 :> c2) @@ (w3 :> c3)
OneEachRespCid == (r1 :> c1) @@ (r2 :> c2) @@ (r3 :> c3)

\* Two waiters of the same message, and its one receipt.
SharedWaitCid == (w1 :> c1) @@ (w2 :> c1)
SharedRespCid == (r1 :> c1)

\* Two waiters and two receipts of c1, one of each of c2.
SharedTwoWaitCid == (w1 :> c1) @@ (w2 :> c1) @@ (w3 :> c2)
SharedTwoRespCid == (r1 :> c1) @@ (r2 :> c1) @@ (r3 :> c2)

\* One waiter of c1 and two receipts of it.
OneWaitCid == (w1 :> c1)
TwoRespCid == (r1 :> c1) @@ (r2 :> c1)
=============================================================================

------------------------------- MODULE Mailbox -------------------------------
(***************************************************************************)
(* What the message-wait double promises its callers, with the maps and   *)
(* the channels abstracted away.  A waiter first waits, or is answered at  *)
(* once.  A waiter is answered with a receipt of its own message, and no   *)
(* receipt goes to two waiters.  close answers waiters that are waiting    *)
(* with Success, once.  It promises no more than that: no waiter is        *)
(* promised an answer, and a receipt may never be delivered.               *)
(***************************************************************************)
CONSTANTS Waiters, Responders, WaitCid, RespCid, None, Success

VARIABLES
    wst,     \* waiter: "idle", "waiting" or "done"
    agot,    \* the answer each waiter received (None before)
    aclosed  \* close has run

mbvars == <<wst, agot, aclosed>>

\* The receipts some waiter has received.
Delivered == {agot[w] : w \in Waiters} \cap Responders

MInit ==
    /\ wst = [w \in Waiters |-> "idle"]
    /\ agot = [w \in Waiters |-> None]
    /\ aclosed = FALSE

\* A waiter starts to wait.
Register(w) ==
    /\ wst[w] = "idle"
    /\ wst' = [wst EXCEPT ![w] = "waiting"]
    /\ UNCHANGED <<agot, aclosed>>

\* A waiter that has not been answered gets a receipt of its message that
\* nobody has received yet.
Deliver(w, r) ==
    /\ wst[w] \in {"idle", "waiting"}
    /\ RespCid[r] = WaitCid[w]
    /\ r \notin Delivered
    /\ wst' = [wst EXCEPT ![w] = "done"]
    /\ agot' = [agot EXCEPT ![w] = r]
    /\ UNCHANGED aclosed

\* close answers some of the waiting waiters with Success.
CloseAll ==
    /\ ~aclosed
    /\ aclosed' = TRUE
    /\ \E S \in SUBSET {w \in Waiters : wst[w] = "waiting"} :
          /\ wst' = [w \in Waiters |-> IF w \in S THEN "done" ELSE wst[w]]
          /\ agot' = [w \in Waiters |-> IF w \in S THEN Success ELSE agot[w]]

MNext ==
    \/ \E w \in Waiters : Register(w)
    \/ \E w \in Waiters, r \in Responders : Deliver(w, r)
    \/ CloseAll

MSpec == MInit /\ [][MNext]_mbvars

\* Every answer is a receipt of the waiter's own message or close's
\* Success, and no receipt is answered to two waiters.
ReceiptsMatch ==
    /\ \A w \in Waiters :
          agot[w] \in Responders => RespCid[agot[w]] = WaitCid[w]
    /\ \A v, w \in Waiters :
          (agot[v] \in Responders /\ agot[v] = agot[w]) => v = w

=============================================================================

--------------------------- MODULE MsgWaiterProofs ---------------------------
(***************************************************************************)
(* Proofs about the message-wait double (MsgWaiter) for every set of       *)
(* waiters, responders and cids.                                          *)
(*                                                                         *)
(* Refinement.  The double implements Mailbox under the mapping of        *)
(* MsgWaiter.  A step of the double is a Mailbox step only if the maps    *)
(* hold what the goroutines' states say.  (1) A registered channel        *)
(* belongs to a waiter parked in StateWaitMsg on that cid, so close and    *)
(* receiveMsgResponse answer only waiting waiters.  (2) A stored receipt   *)
(* is of its cid and no waiter has received it.  (3) A receipt a waiter   *)
(* returned is of the waiter's cid and its responder has started.  From   *)
(* (3), a responder that is just starting hands out a receipt nobody got. *)
(* MWInv is TypeOK together with (1)-(3); it holds whatever the cids.      *)
(***************************************************************************)
EXTENDS MsgWaiter, TLAPS

TypeFlags == closed \in BOOLEAN

TypeData ==
    /\ wpc \in [Waiters -> {"start", "recv", "done"}]
    /\ rpc \in [Responders -> {"start", "parked", "done"}]
    /\ got \in [Waiters -> Responders \cup {None, Success}]
    /\ waitingCalls \in [Cids -> Waiters \cup {None}]
    /\ waitingResponses \in [Cids -> Responders \cup {None}]
    /\ closing \subseteq Responders /\ doneClosed \subseteq Responders

\* (1) A registered channel is that of a waiter parked on its own cid.
CallsParked ==
    \A c \in Cids : waitingCalls[c] # None =>
        /\ wpc[waitingCalls[c]] = "recv"
        /\ WaitCid[waitingCalls[c]] = c

\* (2) A stored receipt is of its cid, and no waiter has it.
StoredUnreceived ==
    \A c \in Cids : waitingResponses[c] # None =>
        /\ RespCid[waitingResponses[c]] = c
        /\ rpc[waitingResponses[c]] # "start"
        /\ \A w \in Waiters : got[w] # waitingResponses[c]

\* (3) A received receipt is of the waiter's cid, from a started responder.
ReceivedMatch ==
    \A w \in Waiters : got[w] \in Responders =>
        /\ RespCid[got[w]] = WaitCid[w]
        /\ rpc[got[w]] # "start"

MWInv == TypeFlags /\ TypeData /\ CallsParked /\ StoredUnreceived /\ ReceivedMatch

\* The waiters close answers.
Held == {w \in Waiters : \E c \in Cids : waitingCalls[c] = w}

-----------------------------------------------------------------------------
(* MWInv is inductive: one lemma per action, each proving the type and    *)
(* the three conjuncts in steps of their own.                             *)

LEMMA InitMWInv == MWInit => MWInv
<1> SUFFICES ASSUME MWInit PROVE MWInv
  OBVIOUS
<1>1. TypeFlags
  BY Zenon DEF MWInit, TypeFlags
<1>2. TypeData
  BY MsgWaiterAssumption DEF MWInit, TypeData
<1>3. CallsParked /\ StoredUnreceived /\ ReceivedMatch
  BY MsgWaiterAssumption DEF MWInit, CallsParked, StoredUnreceived, ReceivedMatch
<1>4. QED
  BY <1>1, <1>2, <1>3 DEF MWInv

LEMMA StateWaitMsgMWInv ==
    ASSUME MWInv, NEW w \in Waiters, StateWaitMsg(w)
    PROVE  MWInv'
<1> DEFINE c == WaitCid[w]
<1> USE MsgWaiterAssumption DEF MWInv
<1>1. TypeFlags'
  BY Zenon DEF StateWaitMsg, TypeFlags
<1>2. CASE waitingResponses[c] # None
  <2> DEFINE r == waitingResponses[c]
  <2>1. /\ got' = [got EXCEPT ![w] = r]
        /\ closing' = closing \cup {r}
        /\ waitingResponses' = [waitingResponses EXCEPT ![c] = None]
        /\ wpc' = [wpc EXCEPT ![w] = "done"]
        /\ wpc[w] = "start"
        /\ UNCHANGED <<waitingCalls, rpc, doneClosed>>
    BY <1>2 DEF StateWaitMsg
  <2>2. r \in Responders /\ RespCid[r] = c /\ rpc[r] # "start"
    BY <1>2 DEF TypeData, StoredUnreceived
  <2>3. TypeData'
    BY <2>1, <2>2 DEF TypeData
  <2>4. CallsParked'
    BY <2>1 DEF TypeData, CallsParked
  <2>5. StoredUnreceived'
    BY <2>1, <2>2 DEF TypeData, StoredUnreceived
  <2>6. ReceivedMatch'
    BY <2>1, <2>2 DEF TypeData, ReceivedMatch
  <2>7. QED
    BY <1>1, <2>3, <2>4, <2>5, <2>6
<1>3. CASE waitingResponses[c] = None
  <2>1. /\ waitingCalls' = [waitingCalls EXCEPT ![c] = w]
        /\ wpc' = [wpc EXCEPT ![w] = "recv"]
        /\ wpc[w] = "start"
        /\ UNCHANGED <<got, closing, waitingResponses, rpc, doneClosed>>
    BY <1>3 DEF StateWaitMsg
  <2>2. TypeData'
    BY <2>1 DEF TypeData
  <2>3. CallsParked'
    BY <2>1 DEF TypeData, CallsParked
  <2>4. StoredUnreceived' /\ ReceivedMatch'
    BY <2>1 DEF TypeData, StoredUnreceived, ReceivedMatch
  <2>5. QED
    BY <1>1, <2>2, <2>3, <2>4
<1>4. QED
  BY <1>2, <1>3

LEMMA ReceiveMsgResponseMWInv ==
    ASSUME MWInv, NEW r \in Responders, ReceiveMsgResponse(r)
    PROVE  MWInv'
<1> DEFINE c == RespCid[r]
           w == waitingCalls[c]
<1> USE MsgWaiterAssumption DEF MWInv
<1>1. TypeFlags'
  BY Zenon DEF ReceiveMsgResponse, TypeFlags
<1>2. rpc[r] = "start"
  BY DEF ReceiveMsgResponse
<1>3. \A v \in Waiters : got[v] # r
  BY <1>2 DEF TypeData, ReceivedMatch
<1>4. CASE w # None
  <2>1. /\ waitingCalls' = [waitingCalls EXCEPT ![c] = None]
        /\ got' = [got EXCEPT ![w] = r]
        /\ wpc' = [wpc EXCEPT ![w] = "done"]
        /\ rpc' = [rpc EXCEPT ![r] = "done"]
        /\ UNCHANGED <<waitingResponses, closing, doneClosed>>
    BY <1>4 DEF ReceiveMsgResponse
  <2>2. w \in Waiters /\ wpc[w] = "recv" /\ WaitCid[w] = c
    BY <1>4 DEF TypeData, CallsParked
  <2>3. TypeData'
    BY <2>1, <2>2 DEF TypeData
  <2>4. CallsParked'
    BY <2>1, <2>2 DEF TypeData, CallsParked
  <2>5. StoredUnreceived'
    BY <1>2, <1>3, <2>1, <2>2 DEF TypeData, StoredUnreceived
  <2>6. ReceivedMatch'
    BY <2>1, <2>2 DEF TypeData, ReceivedMatch
  <2>7. QED
    BY <1>1, <2>3, <2>4, <2>5, <2>6
<1>5. CASE w = None
  <2>1. /\ waitingResponses' = [waitingResponses EXCEPT ![c] = r]
        /\ rpc' = [rpc EXCEPT ![r] = "parked"]
        /\ UNCHANGED <<waitingCalls, got, wpc, closing, doneClosed>>
    BY <1>5 DEF ReceiveMsgResponse
  <2>2. TypeData'
    BY <2>1 DEF TypeData
  <2>3. CallsParked'
    BY <2>1 DEF TypeData, CallsParked
  <2>4. StoredUnreceived'
    BY <1>3, <2>1 DEF TypeData, StoredUnreceived
  <2>5. ReceivedMatch'
    BY <1>2, <2>1 DEF TypeData, ReceivedMatch
  <2>6. QED
    BY <1>1, <2>2, <2>3, <2>4, <2>5
<1>6. QED
  BY <1>4, <1>5

LEMMA CloseDoneMWInv ==
    ASSUME MWInv, NEW r \in Responders, CloseDone(r)
    PROVE  MWInv'
<1>1. TypeFlags'
  BY Zenon DEF CloseDone, MWInv, TypeFlags
<1>2. QED
  BY <1>1 DEF CloseDone, MWInv, TypeData, CallsParked, StoredUnreceived, ReceivedMatch

LEMMA ResponderWakesMWInv ==
    ASSUME MWInv, NEW r \in Responders, ResponderWakes(r)
    PROVE  MWInv'
<1>1. TypeFlags'
  BY Zenon DEF ResponderWakes, MWInv, TypeFlags
<1>2. rpc' = [rpc EXCEPT ![r] = "done"] /\ rpc[r] = "parked"
  BY DEF ResponderWakes
<1>3. QED
  BY <1>1, <1>2 DEF ResponderWakes, MWInv, TypeData, CallsParked, StoredUnreceived, ReceivedMatch

LEMMA CloseMWInv ==
    ASSUME MWInv, Close
    PROVE  MWInv'
<1> USE MsgWaiterAssumption DEF MWInv
<1>1. TypeFlags'
  BY Zenon DEF Close, TypeFlags
<1>2. /\ got' = [v \in Waiters |-> IF v \in Held THEN Success ELSE got[v]]
      /\ wpc' = [v \in Waiters |-> IF v \in Held THEN "done" ELSE wpc[v]]
      /\ waitingCalls' = [c \in Cids |-> None]
      /\ UNCHANGED <<rpc, waitingResponses, closing, doneClosed>>
  BY DEF Close, Held
<1>3. TypeData'
  BY <1>2 DEF TypeData
<1>4. CallsParked'
  BY <1>2 DEF CallsParked
<1>5. StoredUnreceived' /\ ReceivedMatch'
  BY <1>2 DEF TypeData, StoredUnreceived, ReceivedMatch
<1>6. QED
  BY <1>1, <1>3, <1>4, <1>5

LEMMA NextMWInv == MWInv /\ [MWNext]_mwvars => MWInv'
<1> SUFFICES ASSUME MWInv, [MWNext]_mwvars PROVE MWInv'
  OBVIOUS
<1>1. CASE \E w \in Waiters : StateWaitMsg(w)
  BY <1>1, StateWaitMsgMWInv
<1>2. CASE \E r \in Responders : ReceiveMsgResponse(r)
  BY <1>2, ReceiveMsgResponseMWInv
<1>3. CASE \E r \in Responders : CloseDone(r)
  BY <1>3, CloseDoneMWInv
<1>4. CASE \E r \in Responders : ResponderWakes(r)
  BY <1>4, ResponderWakesMWInv
<1>5. CASE Close
  BY <1>5, CloseMWInv
<1>6. CASE UNCHANGED mwvars
  <2>1. TypeFlags'
    BY <1>6, Zenon DEF mwvars, MWInv, TypeFlags
  <2>2. QED
    BY <1>6, <2>1 DEF mwvars, MWInv, TypeData, CallsParked, StoredUnreceived, ReceivedMatch
<1>7. QED
  BY <1>1, <1>2, <1>3, <1>4, <1>5, <1>6 DEF MWNext

\* The double's maps agree with its goroutines in every reachable state:
\* registered channels are of parked waiters, stored receipts are of
\* their cid and unreceived, received receipts are of the waiter's cid.
THEOREM MWInvInvariant == MWSpec => []MWInv
BY InitMWInv, NextMWInv, PTL DEF MWSpec

\* Type correctness of the double.
THEOREM MWTypeCorrect == MWSpec => []MWTypeOK
<1>1. MWInv => MWTypeOK
  BY DEF MWInv, TypeFlags, TypeData, MWTypeOK
<1>2. QED
  BY <1>1, MWInvInvariant, PTL

-----------------------------------------------------------------------------
(* Refinement: each step of the double is a Mailbox step or leaves the    *)
(* mapped state alone.  StateWaitMsg taking a stored receipt and           *)
(* receiveMsgResponse handing its receipt over are Deliver steps, a        *)
(* registration is Register, close is CloseAll of the held waiters; the   *)
(* other steps only move responders and done channels.                    *)

LEMMA AbstractWstSet ==
    ASSUME TypeData, NEW w \in Waiters, NEW pc \in {"recv", "done"},
           wpc' = [wpc EXCEPT ![w] = pc]
    PROVE  AbstractWst' =
             [AbstractWst EXCEPT ![w] = IF pc = "recv" THEN "waiting" ELSE "done"]
<1>1. \A v \in Waiters \ {w} : AbstractWst'[v] = AbstractWst[v]
  BY DEF TypeData, AbstractWst
<1>2. AbstractWst'[w] = IF pc = "recv" THEN "waiting" ELSE "done"
  BY DEF TypeData, AbstractWst, WstOfPc
<1>3. QED
  BY <1>1, <1>2 DEF AbstractWst

LEMMA StateWaitMsgRefines ==
    ASSUME MWInv, NEW w \in Waiters, StateWaitMsg(w)
    PROVE  MB!MNext
<1> DEFINE c == WaitCid[w]
<1> USE MsgWaiterAssumption DEF MWInv
<1>1. AbstractWst[w] = "idle"
  BY DEF StateWaitMsg, AbstractWst, WstOfPc, TypeData
<1>2. CASE waitingResponses[c] # None
  <2> DEFINE r == waitingResponses[c]
  <2>1. r \in Responders /\ RespCid[r] = WaitCid[w] /\ r \notin MB!Delivered
    BY <1>2 DEF TypeData, StoredUnreceived, MB!Delivered
  <2>2. got' = [got EXCEPT ![w] = r] /\ wpc' = [wpc EXCEPT ![w] = "done"]
        /\ UNCHANGED closed
    BY <1>2 DEF StateWaitMsg
  <2>3. AbstractWst' = [AbstractWst EXCEPT ![w] = "done"]
    BY <2>2, AbstractWstSet
  <2>4. MB!Deliver(w, r)
    BY <1>1, <2>1, <2>2, <2>3 DEF MB!Deliver
  <2>5. QED
    BY <2>1, <2>4 DEF MB!MNext
<1>3. CASE waitingResponses[c] = None
  <2>1. wpc' = [wpc EXCEPT ![w] = "recv"] /\ UNCHANGED <<got, closed>>
    BY <1>3 DEF StateWaitMsg
  <2>2. AbstractWst' = [AbstractWst EXCEPT ![w] = "waiting"]
    BY <2>1, AbstractWstSet
  <2>3. MB!Register(w)
    BY <1>1, <2>1, <2>2 DEF MB!Register
  <2>4. QED
    BY <2>3 DEF MB!MNext
<1>4. QED
  BY <1>2, <1>3

LEMMA ReceiveMsgResponseRefines ==
    ASSUME MWInv, NEW r \in Responders, ReceiveMsgResponse(r)
    PROVE  MB!MNext \/ UNCHANGED MB!mbvars
<1> DEFINE c == RespCid[r]
           w == waitingCalls[c]
<1> USE MsgWaiterAssumption DEF MWInv
<1>1. CASE w # None
  <2>1. w \in Waiters /\ wpc[w] = "recv" /\ WaitCid[w] = RespCid[r]
    BY <1>1 DEF TypeData, CallsParked
  <2>2. AbstractWst[w] = "waiting"
    BY <2>1 DEF AbstractWst, WstOfPc
  <2>3. r \notin MB!Delivered
    BY DEF ReceiveMsgResponse, TypeData, ReceivedMatch, MB!Delivered
  <2>4. got' = [got EXCEPT ![w] = r] /\ wpc' = [wpc EXCEPT ![w] = "done"]
        /\ UNCHANGED closed
    BY <1>1 DEF ReceiveMsgResponse
  <2>5. AbstractWst' = [AbstractWst EXCEPT ![w] = "done"]
    BY <2>1, <2>4, AbstractWstSet
  <2>6. MB!Deliver(w, r)
    BY <2>1, <2>2, <2>3, <2>4, <2>5 DEF MB!Deliver
  <2>7. QED
    BY <2>1, <2>6 DEF MB!MNext
<1>2. CASE w = None
  BY <1>2 DEF ReceiveMsgResponse, MB!mbvars, AbstractWst, WstOfPc
<1>3. QED
  BY <1>1, <1>2

LEMMA CloseRefines ==
    ASSUME MWInv, Close
    PROVE  MB!MNext
<1> USE DEF MWInv
<1>1. /\ got' = [v \in Waiters |-> IF v \in Held THEN Success ELSE got[v]]
      /\ wpc' = [v \in Waiters |-> IF v \in Held THEN "done" ELSE wpc[v]]
      /\ ~closed /\ closed' = TRUE
  BY DEF Close, Held
<1>2. Held \in SUBSET {v \in Waiters : AbstractWst[v] = "waiting"}
  BY MsgWaiterAssumption DEF Held, TypeData, CallsParked, AbstractWst, WstOfPc
<1>3. AbstractWst' = [v \in Waiters |-> IF v \in Held THEN "done" ELSE AbstractWst[v]]
  BY <1>1 DEF TypeData, AbstractWst, WstOfPc
<1>4. MB!CloseAll
  BY <1>1, <1>2, <1>3 DEF MB!CloseAll
<1>5. QED
  BY <1>4 DEF MB!MNext

LEMMA StepRefines == MWInv /\ [MWNext]_mwvars => [MB!MNext]_MB!mbvars
<1> SUFFICES ASSUME MWInv, [MWNext]_mwvars PROVE [MB!MNext]_MB!mbvars
  OBVIOUS
<1>1. CASE \E w \in Waiters : StateWaitMsg(w)
  BY <1>1, StateWaitMsgRefines
<1>2. CASE \E r \in Responders : ReceiveMsgResponse(r)
  BY <1>2, ReceiveMsgResponseRefines
<1>3. CASE \E r \in Responders : CloseDone(r) \/ ResponderWakes(r)
  BY <1>3 DEF CloseDone, ResponderWakes, MB!mbvars, AbstractWst, WstOfPc
<1>4. CASE Close
  BY <1>4, CloseRefines
<1>5. CASE UNCHANGED mwvars
  BY <1>5 DEF mwvars, MB!mbvars, AbstractWst, WstOfPc
<1>6. QED
  BY <1>1, <1>2, <1>3, <1>4, <1>5 DEF MWNext

\* The double implements the mailbox for every set of waiters, responders
\* and cids, shared cids included: StateWaitMsg, receiveMsgResponse and
\* close answer a waiter only while it waits, only with a receipt of its
\* own cid that no other waiter got, or with close's Success.
THEOREM MWImplementsMailbox == MWSpec => ImplementsMailbox
<1>1. MWInit => MB!MInit
  BY DEF MWInit, MB!MInit, AbstractWst, WstOfPc
<1>2. QED
  BY <1>1, StepRefines, MWInvInvariant, PTL DEF MWSpec, ImplementsMailbox, MB!MSpec

=============================================================================

------------------------------ MODULE MsgWaiter ------------------------------
(***************************************************************************)
(* The message-wait double of the manager's tests (flowchmgr mock_test.go, *)
(* mockFlowchAPI): StateWaitMsg, receiveMsgResponse and close rendezvous   *)
(* through the maps waitingCalls and waitingResponses under the mutex lk.  *)
(*                                                                         *)
(* Each critical section of lk is one step.  The blocking parts outside it *)
(* are states of their own: a waiter parked on its unbuffered response     *)
(* channel ("recv"), a responder parked on its done channel ("parked"),    *)
(* and the goroutine StateWaitMsg starts to close that done channel.  A    *)
(* send on a waiter's channel made under lk completes at once, since the   *)
(* waiter registered that channel just before parking on it.               *)
(***************************************************************************)
EXTENDS FiniteSets

CONSTANTS
    Waiters,     \* goroutines calling StateWaitMsg
    Responders,  \* goroutines calling receiveMsgResponse, one receipt each
    Cids,        \* message cids
    WaitCid,     \* the cid each waiter waits for
    RespCid,     \* the cid each responder answers
    None,        \* an absent map entry
    Success      \* the receipt close sends (exit code 0)

ASSUME MsgWaiterAssumption ==
    /\ WaitCid \in [Waiters -> Cids]
    /\ RespCid \in [Responders -> Cids]
    /\ None \notin Waiters \cup Responders
    /\ Success \notin Responders \cup {None}

VARIABLES
    wpc,               \* waiter: "start", "recv" or "done"
    rpc,               \* responder: "start", "parked" or "done"
    got,               \* the receipt each waiter returned (None before)
    waitingCalls,      \* cid -> the waiter whose channel is registered
    waitingResponses,  \* cid -> the responder whose receipt is stored
    closing,           \* responders whose close(done) goroutine is pending
    doneClosed,        \* responders whose done channel is closed
    closed             \* close has run

mwvars == <<wpc, rpc, got, waitingCalls, waitingResponses, closing,
            doneClosed, closed>>

-----------------------------------------------------------------------------
MWInit ==
    /\ wpc = [w \in Waiters |-> "start"]
    /\ rpc = [r \in Responders |-> "start"]
    /\ got = [w \in Waiters |-> None]
    /\ waitingCalls = [c \in Cids |-> None]
    /\ waitingResponses = [c \in Cids |-> None]
    /\ closing = {} /\ doneClosed = {} /\ closed = FALSE

\* Mutant: StateWaitMsg registers without looking for a stored response.
StateWaitMsgIgnoresStored(w) ==
    /\ wpc[w] = "start"
    /\ waitingCalls' = [waitingCalls EXCEPT ![WaitCid[w]] = w]
    /\ wpc' = [wpc EXCEPT ![w] = "recv"]
    /\ UNCHANGED <<got, closing, waitingResponses, rpc, doneClosed, closed>>

\* StateWaitMsg under lk: a stored response for the cid is taken and
\* deleted, a goroutine is started to close its done channel, and the call
\* returns; otherwise the waiter's channel is registered, lk released, and
\* the waiter parks on the channel.
StateWaitMsg(w) ==
    LET c == WaitCid[w] IN
    /\ wpc[w] = "start"
    /\ IF waitingResponses[c] # None
         THEN /\ got' = [got EXCEPT ![w] = waitingResponses[c]]
              /\ closing' = closing \cup {waitingResponses[c]}
              /\ waitingResponses' = [waitingResponses EXCEPT ![c] = None]
              /\ wpc' = [wpc EXCEPT ![w] = "done"]
              /\ UNCHANGED waitingCalls
         ELSE /\ waitingCalls' = [waitingCalls EXCEPT ![c] = w]
              /\ wpc' = [wpc EXCEPT ![w] = "recv"]
              /\ UNCHANGED <<got, closing, waitingResponses>>
    /\ UNCHANGED <<rpc, doneClosed, closed>>

\* Mutant: the registration is not deleted once its waiter is answered.
ReceiveMsgResponseKeepsCall(r) ==
    LET c == RespCid[r]
        w == waitingCalls[c]
    IN
    /\ rpc[r] = "start"
    /\ IF w # None
         THEN /\ got' = [got EXCEPT ![w] = r]
              /\ wpc' = [wpc EXCEPT ![w] = "done"]
              /\ rpc' = [rpc EXCEPT ![r] = "done"]
              /\ UNCHANGED <<waitingCalls, waitingResponses>>
         ELSE /\ waitingResponses' = [waitingResponses EXCEPT ![c] = r]
              /\ rpc' = [rpc EXCEPT ![r] = "parked"]
              /\ UNCHANGED <<waitingCalls, got, wpc>>
    /\ UNCHANGED <<closing, doneClosed, closed>>

\* receiveMsgResponse under lk: a registered waiter of the cid is deleted
\* and handed the receipt on its channel; otherwise the receipt is stored
\* with a fresh done channel, lk released, and the responder parks on done.
ReceiveMsgResponse(r) ==
    LET c == RespCid[r]
        w == waitingCalls[c]
    IN
    /\ rpc[r] = "start"
    /\ IF w # None
         THEN /\ waitingCalls' = [waitingCalls EXCEPT ![c] = None]
              /\ got' = [got EXCEPT ![w] = r]
              /\ wpc' = [wpc EXCEPT ![w] = "done"]
              /\ rpc' = [rpc EXCEPT ![r] = "done"]
              /\ UNCHANGED waitingResponses
         ELSE /\ waitingResponses' = [waitingResponses EXCEPT ![c] = r]
              /\ rpc' = [rpc EXCEPT ![r] = "parked"]
              /\ UNCHANGED <<waitingCalls, got, wpc>>
    /\ UNCHANGED <<closing, doneClosed, closed>>

\* The goroutine started by StateWaitMsg closes the responder's done.
CloseDone(r) ==
    /\ r \in closing
    /\ closing' = closing \ {r}
    /\ doneClosed' = doneClosed \cup {r}
    /\ UNCHANGED <<wpc, rpc, got, waitingCalls, waitingResponses, closed>>

\* A parked responder returns once its done channel is closed.
ResponderWakes(r) ==
    /\ rpc[r] = "parked"
    /\ r \in doneClosed
    /\ rpc' = [rpc EXCEPT ![r] = "done"]
    /\ UNCHANGED <<wpc, got, waitingCalls, waitingResponses, closing,
                   doneClosed, closed>>

\* Mutant: close deletes the registrations without sending on them.
CloseWithoutSend ==
    /\ ~closed
    /\ closed' = TRUE
    /\ waitingCalls' = [c \in Cids |-> None]
    /\ UNCHANGED <<wpc, got, rpc, waitingResponses, closing, doneClosed>>

\* close (the tests' cleanup) under lk: every registered waiter is deleted
\* and sent a success receipt.
Close ==
    LET held == {w \in Waiters : \E c \in Cids : waitingCalls[c] = w} IN
    /\ ~closed
    /\ closed' = TRUE
    /\ got' = [w \in Waiters |-> IF w \in held THEN Success ELSE got[w]]
    /\ wpc' = [w \in Waiters |-> IF w \in held THEN "done" ELSE wpc[w]]
    /\ waitingCalls' = [c \in Cids |-> None]
    /\ UNCHANGED <<rpc, waitingResponses, closing, doneClosed>>

MWNext ==
    \/ \E w \in Waiters : StateWaitMsg(w)
    \/ \E r \in Responders : ReceiveMsgResponse(r) \/ CloseDone(r)
                             \/ ResponderWakes(r)
    \/ Close

\* Every goroutine runs; close is the test's last call and is not forced.
MWFairness ==
    /\ \A w \in Waiters : WF_mwvars(StateWaitMsg(w))
    /\ \A r \in Responders : /\ WF_mwvars(ReceiveMsgResponse(r))
                             /\ WF_mwvars(CloseDone(r))
                             /\ WF_mwvars(ResponderWakes(r))

MWSpec == MWInit /\ [][MWNext]_mwvars /\ MWFairness

-----------------------------------------------------------------------------
MWTypeOK ==
    /\ wpc \in [Waiters -> {"start", "recv", "done"}]
    /\ rpc \in [Responders -> {"start", "parked", "done"}]
    /\ got \in [Waiters -> Responders \cup {None, Success}]
    /\ waitingCalls \in [Cids -> Waiters \cup {None}]
    /\ waitingResponses \in [Cids -> Responders \cup {None}]
    /\ closing \subseteq Responders /\ doneClosed \subseteq Responders
    /\ closed \in BOOLEAN

\* No goroutine is parked on a channel nobody can reach: a waiter parked in
\* StateWaitMsg is still the registered waiter of its cid (so a later
\* receiveMsgResponse or close answers it), and a parked responder's receipt
\* is still stored for its cid or its done channel is being or was closed.
RegistrationsHeld ==
    /\ \A w \in Waiters :
          wpc[w] = "recv" => waitingCalls[WaitCid[w]] = w
    /\ \A r \in Responders :
          rpc[r] = "parked" =>
              \/ waitingResponses[RespCid[r]] = r
              \/ r \in closing \cup doneClosed

\* Specification, section 4.2: every waiter of a message is answered once
\* its receipt arrives, however many wait on the same cid.  StateWaitMsg
\* stores one channel per cid, and a second waiter's registration replaces
\* the first's.
WaitersAnswered ==
    \A w \in Waiters : wpc[w] = "recv" ~> wpc[w] = "done"

\* Every receipt handed to receiveMsgResponse is consumed and the call
\* returns.  close answers the registered waiters but leaves waitingResponses
\* alone and sets no closed flag: a receipt that arrives after close has
\* answered its waiter is stored, and its responder parks on a done channel
\* that no later waiter will close.
RespondersReturn ==
    \A r \in Responders : rpc[r] = "parked" ~> rpc[r] = "done"

-----------------------------------------------------------------------------
\* The refinement mapping: a waiter is idle before StateWaitMsg, waiting
\* while parked on its channel, and done once it has returned.
WstOfPc == [start |-> "idle", recv |-> "waiting", done |-> "done"]

AbstractWst == [w \in Waiters |-> WstOfPc[wpc[w]]]

MB == INSTANCE Mailbox WITH wst <- AbstractWst, agot <- got, aclosed <- closed

\* The double implements the mailbox: every waiter is answered with a
\* receipt of its own cid that no other waiter got, or with close's
\* Success while it was parked.  A stored receipt is taken once and
\* deleted, and a registration is deleted when it is answered.
ImplementsMailbox == MB!MSpec

=============================================================================

------------------------------ MODULE FlowchMgr ------------------------------
(***************************************************************************)
(* One flow channel between a payer node and a payee node, and the chain   *)
(* actor that anchors it.                                                  *)
(*                                                                         *)
(*  - the payer's FlowChannelManager record: confirmed, pending and queued *)
(*    funds, the add-funds message in flight (PendingWaitSentinel and the  *)
(*    delta remembered for it), the channel address, and per lane the      *)
(*    current nonce and the amount of the best voucher;                    *)
(*  - the vouchers the payer has signed, handed to the payee over a        *)
(*    transport that may lose, duplicate and reorder them;                 *)
(*  - the payee's FlowChannelManager record of the same channel (best      *)
(*    voucher per lane, and the increments AddVoucher has reported);       *)
(*  - the chain: the actor's funds, per-lane redeemed amount and nonce,    *)
(*    the settlement height and whether the channel has been collected.    *)
(*                                                                         *)
(* The manager package is not part of this source tree: its operations    *)
(* are modelled from the specification (section 4.1), as is the chain     *)
(* collaborator (section 6).                                               *)
(***************************************************************************)
EXTENDS Integers, FiniteSets, Functions

CONSTANTS
    Lanes,        \* the lane ids vouchers may name
    MaxAmount,    \* amounts (requested funds, voucher totals) are 1..MaxAmount
    MaxNonce,     \* bound on a lane's nonce
    MaxRequests,  \* bound on the GetOrCreate calls of a behaviour
    Window,       \* length of the settlement challenge window, in epochs
    MaxHeight     \* bound on the chain height

ASSUME ConstantsAssumption ==
    /\ IsFiniteSet(Lanes) /\ Lanes # {}
    /\ MaxAmount \in Nat \ {0}
    /\ MaxNonce \in Nat \ {0}
    /\ MaxRequests \in Nat
    /\ Window \in Nat \ {0}
    /\ MaxHeight \in Nat

Amounts == 1..MaxAmount
Nonces  == 1..MaxNonce
Voucher == [lane : Lanes, nonce : Nonces, amount : Amounts]

\* States of the add-funds (or create) message in flight.
MsgStates == {"none", "sent", "ok", "failed"}

VARIABLES
    \* payer's FlowChannelManager record
    confirmed, pending, queued, sentinel, pendingDelta, chAddr, nonce, best,
    \* vouchers signed by the payer and handed to the payee's transport
    issued,
    \* the in-flight funding message on the chain, and request counters
    msgState, nreq, lastMsg,
    \* chain actor state
    chainExists, chBalance, redeemed, laneNonce, settlingAt, height, collected,
    \* payee's FlowChannelManager record
    pbest, pnonce, credited

payer   == <<confirmed, pending, queued, sentinel, pendingDelta, chAddr, nonce, best>>
counters == <<msgState, nreq, lastMsg>>
chain   == <<chainExists, chBalance, redeemed, laneNonce, settlingAt, height, collected>>
payee   == <<pbest, pnonce, credited>>
vars    == <<payer, issued, counters, chain, payee>>

-----------------------------------------------------------------------------
(* Helpers.                                                                *)

\* Total of f over the lanes other than l.
OtherLanes(f, l) == SumFunctionOnSet(f, Lanes \ {l})

\* The channel has reached its settlement height: post-settlement state.
Settled == settlingAt # 0 /\ height >= settlingAt

-----------------------------------------------------------------------------
Init ==
    /\ confirmed = 0 /\ pending = 0 /\ queued = 0
    /\ sentinel = 0 /\ pendingDelta = 0 /\ chAddr = FALSE
    /\ nonce = [l \in Lanes |-> 0]
    /\ best  = [l \in Lanes |-> 0]
    /\ issued = {}
    /\ msgState = "none" /\ nreq = 0 /\ lastMsg = 0
    /\ chainExists = FALSE /\ chBalance = 0
    /\ redeemed = [l \in Lanes |-> 0]
    /\ laneNonce = [l \in Lanes |-> 0]
    /\ settlingAt = 0 /\ height = 0 /\ collected = FALSE
    /\ pbest = [l \in Lanes |-> 0]
    /\ pnonce = [l \in Lanes |-> 0]
    /\ credited = 0

-----------------------------------------------------------------------------
(* Payer: FlowChannelManager operations.                                   *)

\* GetOrCreate(from, to, amount): a no-op when confirmed+pending (+queued)
\* already covers amount.  Otherwise the shortfall is pushed as a create or
\* add-funds message and optimistically added to PendingAmount, remembering
\* the delta for the new sentinel; while a message is already in flight the
\* shortfall is queued (QueuedAmount: requested, not yet sent in a message).
GetOrCreate(amount) ==
    LET covered   == confirmed + pending + queued
        shortfall == amount - covered
    IN
    /\ nreq < MaxRequests
    /\ amount > covered
    /\ nreq' = nreq + 1
    /\ \/ /\ msgState = "none"
          /\ pending' = pending + shortfall
          /\ pendingDelta' = shortfall
          /\ lastMsg' = lastMsg + 1
          /\ sentinel' = lastMsg + 1
          /\ msgState' = "sent"
          /\ UNCHANGED queued
       \/ /\ msgState # "none"
          /\ queued' = queued + shortfall
          /\ UNCHANGED <<pending, pendingDelta, lastMsg, sentinel, msgState>>
    /\ UNCHANGED <<confirmed, chAddr, nonce, best, issued, chain, payee>>

\* Variant of MsgResolved that moves the delta to confirmed on success but
\* leaves it in pending as well.
MsgResolvedKeepsPending ==
    /\ msgState \in {"ok", "failed"}
    /\ confirmed' = IF msgState = "ok" THEN confirmed + pendingDelta ELSE confirmed
    /\ chAddr' = (chAddr \/ msgState = "ok")
    /\ pending' = IF msgState = "ok" THEN pending + queued
                  ELSE pending - pendingDelta + queued
    /\ IF queued > 0
         THEN /\ pendingDelta' = queued
              /\ queued' = 0
              /\ lastMsg' = lastMsg + 1
              /\ sentinel' = lastMsg + 1
              /\ msgState' = "sent"
         ELSE /\ pendingDelta' = 0
              /\ sentinel' = 0
              /\ msgState' = "none"
              /\ UNCHANGED <<queued, lastMsg>>
    /\ UNCHANGED <<nonce, best, issued, nreq, chain, payee>>

\* The manager's handling of the in-flight message's receipt (what
\* WaitReady waits for).  On success the first confirmation assigns the
\* channel address and the remembered delta moves from pending to confirmed;
\* on failure exactly that delta is rolled back.  A queued amount is then
\* sent as the next message.
MsgResolved ==
    /\ msgState \in {"ok", "failed"}
    /\ confirmed' = IF msgState = "ok" THEN confirmed + pendingDelta ELSE confirmed
    /\ chAddr' = (chAddr \/ msgState = "ok")
    /\ IF queued > 0
         THEN /\ pending' = pending - pendingDelta + queued
              /\ pendingDelta' = queued
              /\ queued' = 0
              /\ lastMsg' = lastMsg + 1
              /\ sentinel' = lastMsg + 1
              /\ msgState' = "sent"
         ELSE /\ pending' = pending - pendingDelta
              /\ pendingDelta' = 0
              /\ sentinel' = 0
              /\ msgState' = "none"
              /\ UNCHANGED <<queued, lastMsg>>
    /\ UNCHANGED <<nonce, best, issued, nreq, chain, payee>>

\* Variant of CreateVoucher that stamps the voucher with the lane's current
\* nonce instead of the newly allocated one.
CreateVoucherCurrentNonce(l, amount) ==
    /\ chAddr
    /\ nonce[l] < MaxNonce
    /\ amount + OtherLanes(best, l) <= confirmed + pending
    /\ nonce' = [nonce EXCEPT ![l] = @ + 1]
    /\ best'  = [best EXCEPT ![l] = amount]
    /\ issued' = issued \cup {[lane |-> l, nonce |-> nonce[l], amount |-> amount]}
    /\ UNCHANGED <<confirmed, pending, queued, sentinel, pendingDelta, chAddr,
                   counters, chain, payee>>

\* CreateVoucher(ref, lane, amount): amount is the lane's new cumulative
\* total.  It is refused (Shortfall, no state change) unless it fits in
\* confirmed+pending less the best vouchers of all the other lanes.  The
\* voucher takes the next nonce, becomes the lane's best, and is handed to
\* the payee.
CreateVoucher(l, amount) ==
    /\ chAddr
    /\ nonce[l] < MaxNonce
    /\ amount + OtherLanes(best, l) <= confirmed + pending
    /\ nonce' = [nonce EXCEPT ![l] = @ + 1]
    /\ best'  = [best EXCEPT ![l] = amount]
    /\ issued' = issued \cup {[lane |-> l, nonce |-> nonce[l] + 1, amount |-> amount]}
    /\ UNCHANGED <<confirmed, pending, queued, sentinel, pendingDelta, chAddr,
                   counters, chain, payee>>

-----------------------------------------------------------------------------
(* Chain: execution of pushed messages (external collaborator).            *)

\* The in-flight funding message executes.  A create message makes the
\* actor; an add-funds message fails once the channel is collected.  Any
\* message may fail (gas, sender balance).
FundingExecuted ==
    /\ msgState = "sent"
    /\ \/ /\ chAddr => ~collected
          /\ msgState' = "ok"
          /\ chainExists' = TRUE
          /\ chBalance' = chBalance + pendingDelta
       \/ /\ msgState' = "failed"
          /\ UNCHANGED <<chainExists, chBalance>>
    /\ UNCHANGED <<payer, issued, nreq, lastMsg, redeemed, laneNonce,
                   settlingAt, height, collected, payee>>

\* Mutant: the actor without its nonce check.
VoucherApplicableAnyNonce(v) ==
    /\ chainExists /\ ~collected /\ ~Settled
    /\ v.amount + OtherLanes(redeemed, v.lane) <= chBalance

\* The actor's UpdateChannelState for voucher v: refused after the
\* settlement height or collection, for a nonce not above the lane's, and
\* when the lanes' redeemed total would exceed the balance.
VoucherApplicable(v) ==
    /\ chainExists /\ ~collected /\ ~Settled
    /\ v.nonce > laneNonce[v.lane]
    /\ v.amount + OtherLanes(redeemed, v.lane) <= chBalance

ApplyVoucher(v) ==
    /\ redeemed'  = [redeemed  EXCEPT ![v.lane] = v.amount]
    /\ laneNonce' = [laneNonce EXCEPT ![v.lane] = v.nonce]

\* The payee's best voucher of lane l as a voucher record.
PayeeBest(l) == [lane |-> l, nonce |-> pnonce[l], amount |-> pbest[l]]

\* Payee submits its best voucher of a lane (voucher submit); the chain
\* applies it when applicable and otherwise leaves its state alone.
SubmitVoucher(l) ==
    /\ pnonce[l] > 0
    /\ VoucherApplicable(PayeeBest(l))
    /\ ApplyVoucher(PayeeBest(l))
    /\ UNCHANGED <<payer, issued, counters, chainExists, chBalance,
                   settlingAt, height, collected, payee>>

\* Either party settles: the challenge window opens.
Settle ==
    /\ chainExists /\ ~collected /\ settlingAt = 0
    /\ settlingAt' = height + Window
    /\ UNCHANGED <<payer, issued, counters, chainExists, chBalance, redeemed,
                   laneNonce, height, collected, payee>>

\* Collect after the settlement height.
Collect ==
    /\ Settled /\ ~collected
    /\ collected' = TRUE
    /\ UNCHANGED <<payer, issued, counters, chainExists, chBalance, redeemed,
                   laneNonce, settlingAt, height, payee>>

\* A new epoch.
Tick ==
    /\ height < MaxHeight
    /\ height' = height + 1
    /\ UNCHANGED <<payer, issued, counters, chainExists, chBalance, redeemed,
                   laneNonce, settlingAt, collected, payee>>

-----------------------------------------------------------------------------
(* Payee: FlowChannelManager.AddVoucher on a voucher that arrived.         *)

\* Variant of AddVoucher that checks the nonces but not that the amount
\* grows.
AddVoucherNoAmountCheck(v) ==
    /\ chainExists /\ ~collected /\ ~Settled
    /\ v.nonce > pnonce[v.lane]
    /\ v.nonce > laneNonce[v.lane]
    /\ credited' = credited + (v.amount - pbest[v.lane])
    /\ pbest'  = [pbest  EXCEPT ![v.lane] = v.amount]
    /\ pnonce' = [pnonce EXCEPT ![v.lane] = v.nonce]
    /\ UNCHANGED <<payer, issued, counters, chain>>

\* CheckValid re-reads the actor: the channel must exist and not be past
\* settlement, and the nonce must exceed both the stored and the on-chain
\* nonce of the lane.  The voucher replaces the lane's best only if its
\* amount is strictly greater; the increment is reported to the caller.
AddVoucher(v) ==
    /\ chainExists /\ ~collected /\ ~Settled
    /\ v.nonce > pnonce[v.lane]
    /\ v.nonce > laneNonce[v.lane]
    /\ v.amount > pbest[v.lane]
    /\ credited' = credited + (v.amount - pbest[v.lane])
    /\ pbest'  = [pbest  EXCEPT ![v.lane] = v.amount]
    /\ pnonce' = [pnonce EXCEPT ![v.lane] = v.nonce]
    /\ UNCHANGED <<payer, issued, counters, chain>>

-----------------------------------------------------------------------------
Next ==
    \/ \E a \in Amounts : GetOrCreate(a)
    \/ MsgResolved
    \/ \E l \in Lanes, a \in Amounts : CreateVoucher(l, a)
    \/ FundingExecuted
    \/ \E l \in Lanes : SubmitVoucher(l)
    \/ Settle
    \/ Collect
    \/ Tick
    \/ \E v \in issued : AddVoucher(v)

Spec == Init /\ [][Next]_vars

-----------------------------------------------------------------------------
(* Properties.                                                             *)

\* Every variable has the type the code gives it.
TypeOK ==
    /\ confirmed \in Nat /\ pending \in Nat /\ queued \in Nat
    /\ sentinel \in Nat /\ pendingDelta \in Nat /\ chAddr \in BOOLEAN
    /\ nonce \in [Lanes -> 0..MaxNonce]
    /\ best  \in [Lanes -> 0..MaxAmount]
    /\ issued \subseteq Voucher
    /\ msgState \in MsgStates /\ nreq \in Nat /\ lastMsg \in Nat
    /\ chainExists \in BOOLEAN /\ chBalance \in Nat
    /\ redeemed  \in [Lanes -> 0..MaxAmount]
    /\ laneNonce \in [Lanes -> 0..MaxNonce]
    /\ settlingAt \in Nat /\ height \in Nat /\ collected \in BOOLEAN
    /\ pbest  \in [Lanes -> 0..MaxAmount]
    /\ pnonce \in [Lanes -> 0..MaxNonce]
    /\ credited \in Nat

\* PendingAmount is exactly the delta remembered for the message in flight,
\* and a sentinel is recorded exactly while one is.
PendingIsDelta ==
    /\ (sentinel # 0) <=> (msgState # "none")
    /\ pending = IF msgState = "none" THEN 0 ELSE pendingDelta

\* ConfirmedAmount is what the actor holds, less a message the chain has
\* confirmed and the manager has not yet handled.
BalanceAgrees ==
    chBalance = confirmed + (IF msgState = "ok" THEN pendingDelta ELSE 0)

\* The channel address is known only for an actor that exists, and an
\* actor the payer does not know of yet was made by the message in flight.
AddressAgrees ==
    /\ msgState = "ok" => chainExists
    /\ chAddr => chainExists
    /\ (chainExists /\ ~chAddr) => msgState = "ok"

\* Funds accounting between the payer's record and the chain, across the
\* optimistic update of GetOrCreate, the chain's verdict and the handling
\* of the receipt (rollback of exactly the remembered delta on failure).
FundsAccounting == PendingIsDelta /\ BalanceAgrees /\ AddressAgrees

\* Per lane, the payer, the payee and the chain agree on the voucher
\* history: the chain's nonce is at most the payee's, which is at most the
\* payer's; what the payee holds and what the chain has redeemed are
\* vouchers the payer signed; and the chain never redeemed more on a lane
\* than the payee's best voucher of it (AddVoucher never downgrades a lane).
LaneAgreement ==
    \A l \in Lanes :
        /\ laneNonce[l] <= pnonce[l]
        /\ pnonce[l] <= nonce[l]
        /\ pnonce[l] > 0 => PayeeBest(l) \in issued
        /\ laneNonce[l] > 0 =>
             [lane |-> l, nonce |-> laneNonce[l], amount |-> redeemed[l]] \in issued
        /\ redeemed[l] <= pbest[l]

\* Once no add-funds message is in flight, the payee holds only vouchers
\* the channel can pay: the best vouchers of all lanes together are within
\* the confirmed funds.  CreateVoucher checks its lane total against
\* confirmed plus pending, and an add-funds message that then fails is
\* rolled back by MsgResolved without revisiting the vouchers signed
\* against it.
VouchersBacked == msgState # "sent" => SumFunction(pbest) <= confirmed

=============================================================================

---------------------------- MODULE SettlerProofs ----------------------------
(***************************************************************************)
(* Proofs about the settler composed with the channel (Settler), for      *)
(* every value of the constants.                                           *)
(*                                                                         *)
(* The lanes.  LaneAgreement and NoLaneRegression are about vouchers that  *)
(* change hands: the payee's best voucher of a lane, the chain's record of *)
(* the lane, and the vouchers the settler has snapshotted (todo) or pushed *)
(* and not yet seen executed.  A pushed message may land long after the   *)
(* payee has taken a better voucher, or after the chain has taken a later *)
(* submission of the same lane (PushError leaves messages running).  What *)
(* keeps the chain's record from going back is that all these vouchers    *)
(* are, per lane, ordered the same way by nonce and by amount: every one  *)
(* of them was the payee's best voucher when it was taken, and AddVoucher  *)
(* only ever raises both.  SInv states that order (HeldMonotone), that the *)
(* payee's best bounds them all (HeldBounded), that they were signed by    *)
(* the payer (HeldIssued, IssuedNonces), the channel's own inductive       *)
(* invariant IInv (FlowchMgrProofs) and the settler's types.               *)
(*                                                                         *)
(* One submission per lane.  Until a run returns on a push error,         *)
(* messageHandler returns only from wg.Wait, so every message in flight    *)
(* has a goroutine in wg that has not seen a receipt.  OSCore says so,     *)
(* with the snapshot holding one voucher per lane, none of a lane in       *)
(* flight; OSInv states it while the pushFailed history flag is down.      *)
(***************************************************************************)
EXTENDS Settler, FlowchMgrProofs

\* The chain's record of lane l as a voucher.
ChainBest(l) == [lane |-> l, nonce |-> laneNonce[l], amount |-> redeemed[l]]

\* Vouchers of the settler's snapshot and of its messages in flight.
SettlerVouchers == {m.v : m \in pushed} \cup todo

\* Every voucher some party holds or has in flight.
HeldVouchers ==
    SettlerVouchers \cup {PayeeBest(l) : l \in Lanes} \cup {ChainBest(l) : l \in Lanes}

\* The payer's nonce of a lane is at least that of every voucher it signed.
IssuedNonces == \A v \in issued : v.nonce <= nonce[v.lane]

\* The held vouchers are vouchers the payer signed (the payee's best and the
\* chain's record once they hold one).
HeldIssued ==
    /\ SettlerVouchers \subseteq issued
    /\ \A l \in Lanes : pnonce[l] > 0 => PayeeBest(l) \in issued
    /\ \A l \in Lanes : laneNonce[l] > 0 => ChainBest(l) \in issued

\* The payee's best voucher of a lane bounds every held voucher of it.
HeldBounded ==
    \A v \in HeldVouchers : v.nonce <= pnonce[v.lane] /\ v.amount <= pbest[v.lane]

\* Per lane, a held voucher with a higher nonce is for at least as much.
HeldMonotone ==
    \A v, w \in HeldVouchers :
        v.lane = w.lane /\ v.nonce <= w.nonce => v.amount <= w.amount

HeightBound == height <= MaxHeight

SInv ==
    /\ IInv /\ HeightBound /\ IssuedNonces
    /\ HeldIssued /\ HeldBounded /\ HeldMonotone
    /\ SettlerTypeOK

\* Message ids in flight are distinct.
PushedIdsDistinct == \A m1, m2 \in pushed : m1.id = m2.id => m1 = m2

\* A message in flight has a goroutine in the handler's WaitGroup that has
\* not seen its receipt.
PushedAwaited == \A m \in pushed : m.id \in wg /\ m.id \notin DOMAIN results

\* The snapshot holds one voucher per lane, none of a lane in flight.
TodoDistinct ==
    /\ \A v1, v2 \in todo : v1.lane = v2.lane => v1 = v2
    /\ hpc = "submit" => \A v \in todo, m \in pushed : v.lane # m.v.lane

OSCore ==
    /\ OneSubmissionPerLane /\ PushedIdsDistinct /\ PushedAwaited
    /\ (hpc = "idle" => wg = {})
    /\ TodoDistinct

-----------------------------------------------------------------------------
LEMMA InitSInv == SInit => SInv
<1> SUFFICES ASSUME SInit PROVE SInv
  OBVIOUS
<1>1. IInv
  BY InitIInv DEF SInit
<1>2. HeightBound /\ IssuedNonces
  BY ConstantsAssumption DEF SInit, Init, HeightBound, IssuedNonces
<1>3. HeldIssued
  BY DEF SInit, Init, HeldIssued, SettlerVouchers
<1>4. HeldBounded /\ HeldMonotone
  BY DEF SInit, Init, HeldBounded, HeldMonotone, HeldVouchers, SettlerVouchers,
         PayeeBest, ChainBest
<1>5. SettlerTypeOK
  BY ConstantsAssumption DEF SInit, Init, SettlerTypeOK, HandlerStates
<1>6. QED
  BY <1>1, <1>2, <1>3, <1>4, <1>5 DEF SInv

-----------------------------------------------------------------------------
(* Helpers for the step lemmas.                                           *)

\* The variables the lane conjuncts of SInv read, besides the settler's.
laneVars == <<issued, nonce, pbest, pnonce, laneNonce, redeemed>>

\* The settler's part of SInv holds after a step that changes neither the
\* settler nor what the lane conjuncts read, once IInv holds after it.
LEMMA QuietStep ==
    ASSUME SInv, IInv', HeightBound', UNCHANGED laneVars, UNCHANGED settler
    PROVE  SInv'
<1> USE DEF laneVars, settler
<1>1. IssuedNonces'
  BY DEF SInv, IssuedNonces
<1>2. HeldIssued'
  BY DEF SInv, HeldIssued, SettlerVouchers, PayeeBest, ChainBest
<1>3. HeldBounded' /\ HeldMonotone'
  BY DEF SInv, HeldBounded, HeldMonotone, HeldVouchers, SettlerVouchers,
         PayeeBest, ChainBest
<1>4. SettlerTypeOK'
  BY DEF SInv, SettlerTypeOK
<1>5. QED
  BY <1>1, <1>2, <1>3, <1>4 DEF SInv

\* Every held voucher is of a lane, with a natural nonce and amount.
LEMMA HeldTyped ==
    ASSUME SInv
    PROVE  \A w \in HeldVouchers : w.lane \in Lanes /\ w.nonce \in Nat /\ w.amount \in Nat
BY DEF SInv, HeldVouchers, HeldIssued, SettlerVouchers, PayeeBest, ChainBest,
       IInv, TypeData, Voucher, Nonces, Amounts

\* A step that only drops held vouchers, or replaces one by another held
\* one, keeps the payee's bound and the order.
LEMMA HeldShrinks ==
    ASSUME SInv, HeldVouchers' \subseteq HeldVouchers,
           UNCHANGED <<pnonce, pbest>>
    PROVE  HeldBounded' /\ HeldMonotone'
BY DEF SInv, HeldBounded, HeldMonotone

-----------------------------------------------------------------------------
(* The channel's steps that touch the lanes, each with the settler        *)
(* unchanged and the channel's own invariant already re-established.      *)

LEMMA TickSInv ==
    ASSUME SInv, IInv', Tick, UNCHANGED settler
    PROVE  SInv'
<1>1. HeightBound'
  BY ConstantsAssumption DEF SInv, IInv, TypeData, Tick, HeightBound
<1>2. QED
  BY <1>1, QuietStep DEF Tick, laneVars, payer, payee

LEMMA CreateVoucherSInv ==
    ASSUME SInv, IInv', NEW l \in Lanes, NEW a \in Amounts,
           CreateVoucher(l, a), UNCHANGED settler
    PROVE  SInv'
<1> DEFINE new == [lane |-> l, nonce |-> nonce[l] + 1, amount |-> a]
<1>1. /\ issued' = issued \cup {new}
      /\ nonce' = [nonce EXCEPT ![l] = @ + 1]
      /\ UNCHANGED <<pbest, pnonce, laneNonce, redeemed, height>>
  BY DEF CreateVoucher, chain, payee
<1>2. IssuedNonces'
  BY <1>1 DEF SInv, IInv, TypeData, IssuedNonces, Voucher, Nonces, Amounts
<1>3. HeldIssued'
  BY <1>1 DEF SInv, HeldIssued, SettlerVouchers, PayeeBest, ChainBest, settler
<1>4. HeldBounded' /\ HeldMonotone'
  BY <1>1 DEF SInv, HeldBounded, HeldMonotone, HeldVouchers, SettlerVouchers,
         PayeeBest, ChainBest, settler
<1>5. HeightBound' /\ SettlerTypeOK'
  BY <1>1 DEF SInv, HeightBound, SettlerTypeOK, settler
<1>6. QED
  BY <1>2, <1>3, <1>4, <1>5 DEF SInv

LEMMA SubmitVoucherSInv ==
    ASSUME SInv, IInv', NEW l \in Lanes, SubmitVoucher(l), UNCHANGED settler
    PROVE  SInv'
<1>1. /\ pnonce[l] > 0
      /\ laneNonce' = [laneNonce EXCEPT ![l] = pnonce[l]]
      /\ redeemed' = [redeemed EXCEPT ![l] = pbest[l]]
      /\ UNCHANGED <<issued, nonce, pbest, pnonce, height>>
  BY DEF SubmitVoucher, ApplyVoucher, PayeeBest, payer, payee
<1>2. \A k \in Lanes : ChainBest(k)' = IF k = l THEN PayeeBest(l) ELSE ChainBest(k)
  BY <1>1 DEF SInv, IInv, TypeData, ChainBest, PayeeBest
<1>3. HeldVouchers' \subseteq HeldVouchers
  BY <1>1, <1>2 DEF HeldVouchers, SettlerVouchers, PayeeBest, settler
<1>4. HeldBounded' /\ HeldMonotone'
  BY <1>1, <1>3, HeldShrinks
<1>5. HeldIssued'
  BY <1>1, <1>2 DEF SInv, IInv, TypeData, HeldIssued, SettlerVouchers, PayeeBest, settler
<1>6. HeightBound' /\ IssuedNonces' /\ SettlerTypeOK'
  BY <1>1 DEF SInv, HeightBound, IssuedNonces, SettlerTypeOK, settler
<1>7. QED
  BY <1>4, <1>5, <1>6 DEF SInv

LEMMA AddVoucherSInv ==
    ASSUME SInv, IInv', NEW v \in issued, AddVoucher(v), UNCHANGED settler
    PROVE  SInv'
<1> DEFINE l == v.lane
<1>1. /\ v \in Voucher /\ l \in Lanes
      /\ v = [lane |-> l, nonce |-> v.nonce, amount |-> v.amount]
  BY DEF SInv, IInv, TypeData, Voucher
<1>2. /\ v.nonce > pnonce[l] /\ v.amount > pbest[l]
      /\ pnonce' = [pnonce EXCEPT ![l] = v.nonce]
      /\ pbest' = [pbest EXCEPT ![l] = v.amount]
      /\ UNCHANGED <<issued, nonce, laneNonce, redeemed, height>>
  BY DEF AddVoucher, payer, chain
<1>3. \A k \in Lanes : PayeeBest(k)' = IF k = l THEN v ELSE PayeeBest(k)
  BY <1>1, <1>2 DEF SInv, IInv, TypeData, PayeeBest
<1>4. HeldVouchers' \subseteq HeldVouchers \cup {v}
  BY <1>2, <1>3 DEF HeldVouchers, SettlerVouchers, ChainBest, settler
<1>5. \A w \in HeldVouchers : w.lane \in Lanes /\ w.nonce \in Nat /\ w.amount \in Nat
  BY HeldTyped
<1>6. HeldBounded'
  BY <1>1, <1>2, <1>4, <1>5 DEF SInv, IInv, TypeData, HeldBounded, Voucher, Nonces, Amounts
<1>7. HeldMonotone'
  <2> SUFFICES ASSUME NEW w1 \in HeldVouchers', NEW w2 \in HeldVouchers',
                      w1.lane = w2.lane, w1.nonce <= w2.nonce
               PROVE  w1.amount <= w2.amount
    BY DEF HeldMonotone
  <2>1. CASE w1 \in HeldVouchers /\ w2 \in HeldVouchers
    BY <2>1 DEF SInv, HeldMonotone
  <2>2. CASE w1 \in HeldVouchers /\ w2 = v
    BY <1>1, <1>2, <1>5, <2>2 DEF SInv, IInv, TypeData, HeldBounded, Voucher, Nonces, Amounts
  <2>3. CASE w1 = v /\ w2 \in HeldVouchers
    BY <1>1, <1>2, <1>5, <2>3 DEF SInv, IInv, TypeData, HeldBounded, Voucher, Nonces, Amounts
  <2>4. CASE w1 = v /\ w2 = v
    BY <2>4, <1>1 DEF Voucher, Amounts
  <2>5. QED
    BY <1>4, <2>1, <2>2, <2>3, <2>4
<1>8. HeldIssued'
  BY <1>2, <1>3 DEF SInv, HeldIssued, SettlerVouchers, ChainBest, settler
<1>9. HeightBound' /\ IssuedNonces' /\ SettlerTypeOK'
  BY <1>2 DEF SInv, HeightBound, IssuedNonces, SettlerTypeOK, settler
<1>10. QED
  BY <1>6, <1>7, <1>8, <1>9 DEF SInv

\* Every step of the channel keeps SInv: its own invariant by NextIInv, the
\* lanes by the lemmas above, and the settler is left alone.
LEMMA ChannelSInv ==
    ASSUME SInv, ChannelStep
    PROVE  SInv'
<1>1. Next /\ UNCHANGED settler
  BY DEF ChannelStep, Next
<1>2. IInv'
  BY <1>1, NextIInv DEF SInv
<1>3. CASE \E a \in Amounts : GetOrCreate(a)
  <2>1. UNCHANGED laneVars /\ HeightBound'
    BY <1>3 DEF GetOrCreate, laneVars, chain, payee, SInv, HeightBound
  <2>2. QED
    BY <1>1, <1>2, <2>1, QuietStep
<1>4. CASE MsgResolved
  <2>1. UNCHANGED laneVars /\ HeightBound'
    BY <1>4 DEF MsgResolved, laneVars, chain, payee, SInv, HeightBound
  <2>2. QED
    BY <1>1, <1>2, <2>1, QuietStep
<1>5. CASE FundingExecuted
  <2>1. UNCHANGED laneVars /\ HeightBound'
    BY <1>5 DEF FundingExecuted, laneVars, payer, payee, SInv, HeightBound
  <2>2. QED
    BY <1>1, <1>2, <2>1, QuietStep
<1>6. CASE Settle
  <2>1. UNCHANGED laneVars /\ HeightBound'
    BY <1>6 DEF Settle, laneVars, payer, payee, SInv, HeightBound
  <2>2. QED
    BY <1>1, <1>2, <2>1, QuietStep
<1>7. CASE Collect
  <2>1. UNCHANGED laneVars /\ HeightBound'
    BY <1>7 DEF Collect, laneVars, payer, payee, SInv, HeightBound
  <2>2. QED
    BY <1>1, <1>2, <2>1, QuietStep
<1>8. CASE Tick
  BY <1>1, <1>2, <1>8, TickSInv
<1>9. CASE \E l \in Lanes, a \in Amounts : CreateVoucher(l, a)
  BY <1>1, <1>2, <1>9, CreateVoucherSInv
<1>10. CASE \E l \in Lanes : SubmitVoucher(l)
  BY <1>1, <1>2, <1>10, SubmitVoucherSInv
<1>11. CASE \E v \in issued : AddVoucher(v)
  BY <1>1, <1>2, <1>11, AddVoucherSInv
<1>12. QED
  BY <1>1, <1>3, <1>4, <1>5, <1>6, <1>7, <1>8, <1>9, <1>10, <1>11 DEF Next

-----------------------------------------------------------------------------
(* The settler's steps.                                                   *)

\* A settler step that leaves the channel alone keeps the channel's part.
LEMMA ChannelKept ==
    ASSUME SInv, UNCHANGED vars
    PROVE  IInv' /\ HeightBound' /\ IssuedNonces'
<1>1. IInv'
  BY StutterIInv DEF SInv
<1>2. QED
  BY <1>1 DEF SInv, HeightBound, IssuedNonces, vars, payer, chain

\* A step that changes neither the channel nor the settler's vouchers keeps
\* SInv once the settler's types hold after it.
LEMMA VouchersKept ==
    ASSUME SInv, UNCHANGED vars, UNCHANGED <<todo, pushed>>, SettlerTypeOK'
    PROVE  SInv'
<1>1. IInv' /\ HeightBound' /\ IssuedNonces'
  BY ChannelKept
<1>2. HeldIssued' /\ HeldBounded' /\ HeldMonotone'
  BY DEF SInv, HeldIssued, HeldBounded, HeldMonotone, HeldVouchers,
         SettlerVouchers, PayeeBest, ChainBest, vars, chain, payee
<1>3. QED
  BY <1>1, <1>2 DEF SInv

LEMMA HeadEventSInv ==
    ASSUME SInv, HeadEvent
    PROVE  SInv'
<1>1. /\ todo' = BestSpendableByLane
      /\ hpc' \in HandlerStates /\ lastFired' = height /\ skipped' = {}
      /\ UNCHANGED <<vars, wg, waiting, pushed, results, msgN>>
  BY DEF HeadEvent, HandlerStates
<1>2. BestSpendableByLane \subseteq issued
  BY DEF SInv, HeldIssued, BestSpendableByLane, Spendable
<1>3. IInv' /\ HeightBound' /\ IssuedNonces'
  BY <1>1, ChannelKept
<1>4. HeldVouchers' \subseteq HeldVouchers
  BY <1>1 DEF HeldVouchers, SettlerVouchers, BestSpendableByLane, PayeeBest,
              ChainBest, vars, chain, payee
<1>5. HeldBounded' /\ HeldMonotone'
  BY <1>1, <1>4, HeldShrinks DEF vars, payee
<1>6. HeldIssued'
  BY <1>1, <1>2 DEF SInv, HeldIssued, SettlerVouchers, PayeeBest, ChainBest,
                    vars, chain, payee
<1>7. SettlerTypeOK'
  BY <1>1, <1>2 DEF SInv, SettlerTypeOK, IInv, TypeData, HeightBound, vars
<1>8. QED
  BY <1>3, <1>5, <1>6, <1>7 DEF SInv

LEMMA MatcherErrorSInv ==
    ASSUME SInv, MatcherError
    PROVE  SInv'
<1>1. /\ lastFired' = height
      /\ UNCHANGED <<vars, hpc, todo, wg, waiting, pushed, results, msgN, skipped>>
  BY DEF MatcherError
<1>2. SettlerTypeOK'
  BY <1>1 DEF SInv, SettlerTypeOK, IInv, TypeData, HeightBound, vars, chain
<1>3. QED
  BY <1>1, <1>2, VouchersKept

LEMMA PushVoucherSInv ==
    ASSUME SInv, NEW v \in todo, PushVoucher(v)
    PROVE  SInv'
<1>1. /\ msgN' = msgN + 1
      /\ pushed' = pushed \cup {[id |-> msgN + 1, v |-> v]}
      /\ wg' = wg \cup {msgN + 1}
      /\ waiting' = waiting \cup {msgN + 1}
      /\ todo' = todo \ {v}
      /\ hpc' \in HandlerStates
      /\ UNCHANGED <<vars, results, lastFired, skipped>>
  BY DEF PushVoucher, HandlerStates
<1>2. IInv' /\ HeightBound' /\ IssuedNonces'
  BY <1>1, ChannelKept
<1>3. SettlerVouchers' \subseteq SettlerVouchers
  BY <1>1 DEF SettlerVouchers
<1>4. HeldVouchers' \subseteq HeldVouchers
  BY <1>1, <1>3 DEF HeldVouchers, PayeeBest, ChainBest, vars, chain, payee
<1>5. HeldBounded' /\ HeldMonotone'
  BY <1>1, <1>4, HeldShrinks DEF vars, payee
<1>6. HeldIssued'
  BY <1>1, <1>3 DEF SInv, HeldIssued, PayeeBest, ChainBest, vars, chain, payee
<1>7. SettlerTypeOK'
  BY <1>1 DEF SInv, SettlerTypeOK, HeldIssued, SettlerVouchers, vars
<1>8. QED
  BY <1>2, <1>5, <1>6, <1>7 DEF SInv

LEMMA PushErrorSInv ==
    ASSUME SInv, NEW v \in todo, PushError(v)
    PROVE  SInv'
<1>1. /\ todo' = {} /\ wg' = {} /\ hpc' = "idle"
      /\ skipped' = {u.lane : u \in todo \ {v}}
      /\ UNCHANGED <<vars, waiting, pushed, results, msgN, lastFired>>
  BY DEF PushError
<1>2. IInv' /\ HeightBound' /\ IssuedNonces'
  BY <1>1, ChannelKept
<1>3. HeldVouchers' \subseteq HeldVouchers
  BY <1>1 DEF HeldVouchers, SettlerVouchers, PayeeBest, ChainBest, vars, chain, payee
<1>4. HeldBounded' /\ HeldMonotone'
  BY <1>1, <1>3, HeldShrinks DEF vars, payee
<1>5. HeldIssued'
  BY <1>1 DEF SInv, HeldIssued, SettlerVouchers, PayeeBest, ChainBest, vars, chain, payee
<1>6. SettlerTypeOK'
  BY <1>1 DEF SInv, SettlerTypeOK, HandlerStates, Voucher, vars
<1>7. QED
  BY <1>2, <1>4, <1>5, <1>6 DEF SInv

\* The chain executes a message in flight: its voucher becomes the lane's
\* record when the actor takes it.  The voucher was held, so the record
\* stays among the held vouchers and the order is kept.
LEMMA ExecPushedSInv ==
    ASSUME SInv, NEW m \in pushed, ExecPushed(m)
    PROVE  SInv'
<1> DEFINE l == m.v.lane
<1>1. /\ m.v \in issued /\ m.v \in Voucher /\ l \in Lanes
      /\ m.v = [lane |-> l, nonce |-> m.v.nonce, amount |-> m.v.amount]
      /\ m.id \in 1..msgN
  BY DEF SInv, SettlerTypeOK, IInv, TypeData, Voucher
<1>2. /\ pushed' = pushed \ {m}
      /\ DOMAIN results' = DOMAIN results \cup {m.id}
      /\ UNCHANGED <<payer, issued, counters, chainExists, chBalance, settlingAt,
                     height, collected, payee, hpc, todo, wg, waiting, msgN,
                     lastFired, skipped>>
  BY DEF ExecPushed, Receipt
<1>3. \/ /\ redeemed' = [redeemed EXCEPT ![l] = m.v.amount]
         /\ laneNonce' = [laneNonce EXCEPT ![l] = m.v.nonce]
      \/ UNCHANGED <<redeemed, laneNonce>>
  BY DEF ExecPushed, ApplyVoucher
<1>4. \A k \in Lanes : ChainBest(k)' \in {ChainBest(k), m.v}
  BY <1>1, <1>3 DEF SInv, IInv, TypeData, ChainBest
<1>5. \A k \in Lanes : laneNonce'[k] > 0 => ChainBest(k)' \in issued
  BY <1>1, <1>3 DEF SInv, IInv, TypeData, HeldIssued, ChainBest, Voucher, Nonces
<1>6. IInv'
  <2>1. TypeFlags'
    BY <1>2, Zenon DEF SInv, IInv, TypeFlags, payer, payee
  <2>2. TypeData'
    BY <1>1, <1>2, <1>3 DEF SInv, IInv, TypeData, Voucher, Nonces, Amounts,
                            payer, counters, payee
  <2>3. FundsAccounting'
    BY <1>2 DEF SInv, IInv, FundsAccounting, PendingIsDelta, BalanceAgrees,
                AddressAgrees, payer, counters
  <2>4. QED
    BY <2>1, <2>2, <2>3 DEF IInv
<1>7. HeightBound' /\ IssuedNonces'
  BY <1>2 DEF SInv, HeightBound, IssuedNonces, payer
<1>8. SettlerVouchers' \subseteq SettlerVouchers
  BY <1>2 DEF SettlerVouchers
<1>9. HeldVouchers' \subseteq HeldVouchers
  BY <1>2, <1>4, <1>8 DEF HeldVouchers, SettlerVouchers, PayeeBest, payee
<1>10. HeldBounded' /\ HeldMonotone'
  BY <1>2, <1>9, HeldShrinks DEF payee
<1>11. HeldIssued'
  BY <1>2, <1>5, <1>8 DEF SInv, HeldIssued, PayeeBest, payee
<1>12. SettlerTypeOK'
  BY <1>1, <1>2 DEF SInv, SettlerTypeOK
<1>13. QED
  BY <1>6, <1>7, <1>10, <1>11, <1>12 DEF SInv

LEMMA WaitReturnsSInv ==
    ASSUME SInv, NEW id \in waiting, WaitReturns(id)
    PROVE  SInv'
<1>1. /\ waiting' = waiting \ {id} /\ wg' = wg \ {id}
      /\ UNCHANGED <<vars, hpc, todo, pushed, results, msgN, lastFired, skipped>>
  BY DEF WaitReturns
<1>2. SettlerTypeOK'
  BY <1>1 DEF SInv, SettlerTypeOK, vars
<1>3. QED
  BY <1>1, <1>2, VouchersKept

LEMMA WaitErrorSInv ==
    ASSUME SInv, NEW id \in waiting, WaitError(id)
    PROVE  SInv'
<1>1. /\ hpc' = "crashed"
      /\ UNCHANGED <<vars, todo, wg, waiting, pushed, results, msgN, lastFired,
                     skipped>>
  BY DEF WaitError
<1>2. SettlerTypeOK'
  BY <1>1 DEF SInv, SettlerTypeOK, HandlerStates, vars
<1>3. QED
  BY <1>1, <1>2, VouchersKept

LEMMA HandlerReturnsSInv ==
    ASSUME SInv, HandlerReturns
    PROVE  SInv'
<1>1. /\ hpc' = "idle"
      /\ UNCHANGED <<vars, todo, wg, waiting, pushed, results, msgN, lastFired,
                     skipped>>
  BY DEF HandlerReturns
<1>2. SettlerTypeOK'
  BY <1>1 DEF SInv, SettlerTypeOK, HandlerStates, vars
<1>3. QED
  BY <1>1, <1>2, VouchersKept

LEMMA StutterSInv ==
    ASSUME SInv, UNCHANGED allVars
    PROVE  SInv'
<1>1. SettlerTypeOK'
  BY DEF SInv, SettlerTypeOK, allVars, settler, vars, payer
<1>2. QED
  BY <1>1, VouchersKept DEF allVars, settler

-----------------------------------------------------------------------------
LEMMA SNextSInv == SInv /\ [SNext]_allVars => SInv'
<1> SUFFICES ASSUME SInv, [SNext]_allVars PROVE SInv'
  OBVIOUS
<1>1. CASE ChannelStep
  BY <1>1, ChannelSInv
<1>2. CASE HeadEvent
  BY <1>2, HeadEventSInv
<1>3. CASE MatcherError
  BY <1>3, MatcherErrorSInv
<1>4. CASE \E v \in todo : PushVoucher(v) \/ PushError(v)
  BY <1>4, PushVoucherSInv, PushErrorSInv
<1>5. CASE \E m \in pushed : ExecPushed(m)
  BY <1>5, ExecPushedSInv
<1>6. CASE \E id \in waiting : WaitReturns(id) \/ WaitError(id)
  BY <1>6, WaitReturnsSInv, WaitErrorSInv
<1>7. CASE HandlerReturns
  BY <1>7, HandlerReturnsSInv
<1>8. CASE UNCHANGED allVars
  BY <1>8, StutterSInv
<1>9. QED
  BY <1>1, <1>2, <1>3, <1>4, <1>5, <1>6, <1>7, <1>8 DEF SNext

THEOREM SInvInvariant == SSpec => []SInv
BY InitSInv, SNextSInv, PTL DEF SSpec

\* The settler's variables keep their types in every reachable state, for
\* every value of the constants, with any set of failures (settler_faults
\* and settler_terminates check it on small instances).
THEOREM SettlerTypeCorrect == SSpec => []SettlerTypeOK
BY SInvInvariant, PTL DEF SInv

LEMMA SInvLaneAgreement == SInv => LaneAgreement
<1> SUFFICES ASSUME SInv, NEW l \in Lanes
             PROVE  /\ laneNonce[l] <= pnonce[l]
                    /\ pnonce[l] <= nonce[l]
                    /\ pnonce[l] > 0 => PayeeBest(l) \in issued
                    /\ laneNonce[l] > 0 =>
                         [lane |-> l, nonce |-> laneNonce[l], amount |-> redeemed[l]] \in issued
                    /\ redeemed[l] <= pbest[l]
  BY DEF LaneAgreement
<1>1. ChainBest(l) \in HeldVouchers /\ PayeeBest(l) \in HeldVouchers
  BY DEF HeldVouchers
<1>2. laneNonce[l] <= pnonce[l] /\ redeemed[l] <= pbest[l]
  BY <1>1 DEF SInv, HeldBounded, ChainBest
<1>3. pnonce[l] <= nonce[l]
  <2>1. CASE pnonce[l] > 0
    BY <2>1 DEF SInv, HeldIssued, IssuedNonces, PayeeBest
  <2>2. CASE ~(pnonce[l] > 0)
    BY <2>2 DEF SInv, IInv, TypeData
  <2>3. QED
    BY <2>1, <2>2
<1>4. QED
  BY <1>2, <1>3 DEF SInv, HeldIssued, ChainBest

\* Per lane, the chain's nonce is at most the payee's, which is at most the
\* payer's; the payee's best voucher and the chain's record are vouchers the
\* payer signed; and the chain has never redeemed more on a lane than the
\* payee's best voucher of it.  This holds for every value of the constants
\* and with every failure the settler admits: messages of an earlier head
\* that messageHandler left running after a push error, executed after the
\* payee took a better voucher, included (settler_faults checks it).
THEOREM LaneAgreementInvariant == SSpec => []LaneAgreement
BY SInvInvariant, SInvLaneAgreement, PTL

-----------------------------------------------------------------------------
(* No lane regression, an action property.                                *)

LEMMA LanesKept ==
    ASSUME SInv, UNCHANGED <<laneNonce, redeemed>>
    PROVE  LanesGrow
BY DEF SInv, IInv, TypeData, LanesGrow

\* submit: the payee's best voucher, which bounds the chain's record.
LEMMA SubmitVoucherLanes ==
    ASSUME SInv, NEW k \in Lanes, SubmitVoucher(k)
    PROVE  LanesGrow
<1>1. /\ laneNonce' = [laneNonce EXCEPT ![k] = pnonce[k]]
      /\ redeemed' = [redeemed EXCEPT ![k] = pbest[k]]
  BY DEF SubmitVoucher, ApplyVoucher, PayeeBest
<1>2. laneNonce[k] <= pnonce[k] /\ redeemed[k] <= pbest[k]
  BY SInvLaneAgreement DEF LaneAgreement
<1>3. QED
  BY <1>1, <1>2 DEF SInv, IInv, TypeData, LanesGrow

\* A message in flight lands: the actor takes it only for a nonce above the
\* lane's, and a held voucher with a higher nonce is for at least as much.
LEMMA ExecPushedLanes ==
    ASSUME SInv, NEW m \in pushed, ExecPushed(m)
    PROVE  LanesGrow
<1> DEFINE k == m.v.lane
<1>1. CASE VoucherApplicable(m.v)
  <2>1. /\ laneNonce' = [laneNonce EXCEPT ![k] = m.v.nonce]
        /\ redeemed' = [redeemed EXCEPT ![k] = m.v.amount]
        /\ m.v.nonce > laneNonce[k]
    BY <1>1 DEF ExecPushed, ApplyVoucher, VoucherApplicable
  <2>2. m.v \in HeldVouchers /\ ChainBest(k) \in HeldVouchers /\ k \in Lanes
    BY DEF HeldVouchers, SettlerVouchers, SInv, SettlerTypeOK, IInv, TypeData, Voucher
  <2>3. m.v.amount >= redeemed[k]
    BY <2>1, <2>2, HeldTyped DEF SInv, HeldMonotone, ChainBest
  <2>4. QED
    BY <2>1, <2>3, HeldTyped, <2>2 DEF SInv, IInv, TypeData, LanesGrow
<1>2. CASE ~VoucherApplicable(m.v)
  BY <1>2, LanesKept DEF ExecPushed
<1>3. QED
  BY <1>1, <1>2

LEMMA SNextLanes ==
    ASSUME SInv, [SNext]_allVars
    PROVE  LanesGrow
<1>1. CASE ChannelStep
  <2>1. Next
    BY <1>1 DEF ChannelStep, Next
  <2>2. CASE \E k \in Lanes : SubmitVoucher(k)
    BY <2>2, SubmitVoucherLanes
  <2>3. CASE ~\E k \in Lanes : SubmitVoucher(k)
    <3>1. UNCHANGED <<laneNonce, redeemed>>
      BY <2>1, <2>3 DEF Next, GetOrCreate, MsgResolved, CreateVoucher,
                        FundingExecuted, Settle, Collect, Tick, AddVoucher, chain
    <3>2. QED
      BY <3>1, LanesKept
  <2>4. QED
    BY <2>2, <2>3
<1>2. CASE \E m \in pushed : ExecPushed(m)
  BY <1>2, ExecPushedLanes
<1>3. CASE ~ChannelStep /\ ~\E m \in pushed : ExecPushed(m)
  <2>1. UNCHANGED <<laneNonce, redeemed>>
    BY <1>3 DEF SNext, HeadEvent, MatcherError, PushVoucher, PushError,
                WaitReturns, WaitError, HandlerReturns, allVars, vars, chain
  <2>2. QED
    BY <2>1, LanesKept
<1>4. QED
  BY <1>1, <1>2, <1>3

\* The chain's record of a lane never goes back, for every value of the
\* constants and with every failure the settler admits: a submit message
\* that messageHandler left running (a push error returns without wg.Wait)
\* and that lands after a later, better voucher of its lane is rejected by
\* the actor's nonce check, and one it takes is for at least the lane's
\* redeemed amount (settler_faults checks it on a small instance).
THEOREM NoLaneRegressionHolds == SSpec => NoLaneRegression
<1>1. SInv /\ [SNext]_allVars => [LanesGrow]_allVars
  BY SNextLanes
<1>2. QED
  BY <1>1, SInvInvariant, PTL DEF SSpec, NoLaneRegression

\* Until a run returns on a push error.
OSInv == ~pushFailed => OSCore

-----------------------------------------------------------------------------
(* One submission per lane, until FlowchVoucherSubmit fails.             *)

LEMMA InitOSInv == SInit => OSInv
BY DEF SInit, OSInv, OSCore, OneSubmissionPerLane, PushedIdsDistinct, PushedAwaited,
       TodoDistinct

\* A step that changes no settler variable keeps OSCore.
LEMMA SettlerKeptOS ==
    ASSUME OSCore, UNCHANGED settler
    PROVE  OSCore'
BY DEF OSCore, OneSubmissionPerLane, PushedIdsDistinct, PushedAwaited,
       TodoDistinct, settler

LEMMA HeadEventOS ==
    ASSUME SInv, OSCore, HeadEvent
    PROVE  OSCore'
<1>1. /\ hpc = "idle" /\ todo' = BestSpendableByLane
      /\ hpc' = IF BestSpendableByLane = {} THEN "idle" ELSE "submit"
      /\ UNCHANGED <<wg, pushed, results>>
  BY DEF HeadEvent
<1>2. pushed = {}
  BY <1>1 DEF OSCore, PushedAwaited
<1>3. \A v1, v2 \in todo' : v1.lane = v2.lane => v1 = v2
  BY <1>1 DEF BestSpendableByLane, PayeeBest
<1>4. QED
  BY <1>1, <1>2, <1>3 DEF OSCore, OneSubmissionPerLane, PushedIdsDistinct,
                          PushedAwaited, TodoDistinct

LEMMA PushVoucherOS ==
    ASSUME SInv, OSCore, NEW v \in todo, PushVoucher(v)
    PROVE  OSCore'
<1> DEFINE m0 == [id |-> msgN + 1, v |-> v]
<1>1. /\ hpc = "submit"
      /\ pushed' = pushed \cup {m0}
      /\ wg' = wg \cup {msgN + 1}
      /\ todo' = todo \ {v}
      /\ hpc' \in {"wait", "submit"}
      /\ UNCHANGED results
  BY DEF PushVoucher
<1>2. /\ \A m \in pushed : m.id \in 1..msgN /\ m.v.lane # v.lane
      /\ DOMAIN results \subseteq 1..msgN
      /\ msgN \in Nat
  BY <1>1 DEF SInv, SettlerTypeOK, OSCore, TodoDistinct
<1>3. OneSubmissionPerLane' /\ PushedIdsDistinct'
  BY <1>1, <1>2 DEF OSCore, OneSubmissionPerLane, PushedIdsDistinct
<1>4. PushedAwaited'
  BY <1>1, <1>2 DEF OSCore, PushedAwaited
<1>5. TodoDistinct'
  BY <1>1, <1>2 DEF OSCore, TodoDistinct
<1>6. QED
  BY <1>1, <1>3, <1>4, <1>5 DEF OSCore

LEMMA ExecPushedOS ==
    ASSUME SInv, OSCore, NEW m \in pushed, ExecPushed(m)
    PROVE  OSCore'
<1>1. /\ pushed' = pushed \ {m}
      /\ DOMAIN results' = DOMAIN results \cup {m.id}
      /\ UNCHANGED <<hpc, todo, wg>>
  BY DEF ExecPushed, Receipt
<1>2. \A m2 \in pushed' : m2.id # m.id
  BY <1>1 DEF OSCore, PushedIdsDistinct
<1>3. QED
  BY <1>1, <1>2 DEF OSCore, OneSubmissionPerLane, PushedIdsDistinct,
                    PushedAwaited, TodoDistinct

LEMMA WaitReturnsOS ==
    ASSUME OSCore, NEW id \in waiting, WaitReturns(id)
    PROVE  OSCore'
<1>1. /\ id \in DOMAIN results /\ wg' = wg \ {id}
      /\ UNCHANGED <<hpc, todo, pushed, results>>
  BY DEF WaitReturns
<1>2. QED
  BY <1>1 DEF OSCore, OneSubmissionPerLane, PushedIdsDistinct, PushedAwaited,
              TodoDistinct

\* A step other than a push error, before any, keeps OSCore.
LEMMA SNextOSCore ==
    ASSUME SInv, OSCore, [SNext]_allVars, ~\E v \in todo : PushError(v)
    PROVE  OSCore'
<1>1. CASE ChannelStep
  BY <1>1, SettlerKeptOS DEF ChannelStep
<1>2. CASE HeadEvent
  BY <1>2, HeadEventOS
<1>3. CASE MatcherError
  BY <1>3 DEF MatcherError, OSCore, OneSubmissionPerLane, PushedIdsDistinct,
              PushedAwaited, TodoDistinct
<1>4. CASE \E v \in todo : PushVoucher(v)
  BY <1>4, PushVoucherOS
<1>6. CASE \E m \in pushed : ExecPushed(m)
  BY <1>6, ExecPushedOS
<1>7. CASE \E id \in waiting : WaitReturns(id)
  BY <1>7, WaitReturnsOS
<1>8. CASE \E id \in waiting : WaitError(id)
  BY <1>8 DEF WaitError, OSCore, OneSubmissionPerLane, PushedIdsDistinct,
              PushedAwaited, TodoDistinct
<1>9. CASE HandlerReturns
  BY <1>9 DEF HandlerReturns, OSCore, OneSubmissionPerLane, PushedIdsDistinct,
              PushedAwaited, TodoDistinct
<1>10. CASE UNCHANGED allVars
  BY <1>10, SettlerKeptOS DEF allVars
<1>11. QED
  BY <1>1, <1>2, <1>3, <1>4, <1>6, <1>7, <1>8, <1>9, <1>10 DEF SNext

\* Only a push error sets the history flag.
LEMMA FlagKept ==
    ASSUME [SNext]_allVars, ~\E v \in todo : PushError(v)
    PROVE  pushFailed' = pushFailed
<1>1. CASE ChannelStep
  BY <1>1 DEF ChannelStep, settler
<1>2. CASE ~ChannelStep
  BY <1>2 DEF SNext, HeadEvent, MatcherError, PushVoucher, ExecPushed,
              WaitReturns, WaitError, HandlerReturns, allVars, settler
<1>3. QED
  BY <1>1, <1>2

LEMMA SNextOS ==
    ASSUME SInv, OSInv, [SNext]_allVars
    PROVE  OSInv'
<1>1. CASE \E v \in todo : PushError(v)
  BY <1>1 DEF PushError, OSInv
<1>2. CASE ~\E v \in todo : PushError(v)
  <2>1. pushFailed' = pushFailed
    BY <1>2, FlagKept
  <2>2. CASE pushFailed
    BY <2>1, <2>2 DEF OSInv
  <2>3. CASE ~pushFailed
    BY <2>1, <2>3, <1>2, SNextOSCore DEF OSInv
  <2>4. QED
    BY <2>2, <2>3
<1>3. QED
  BY <1>1, <1>2

\* Whatever fails, two submit messages of one lane are in flight only
\* after a run of messageHandler has returned on a FlowchVoucherSubmit
\* error, for every value of the constants: until then each run returns
\* only from wg.Wait, after every message it pushed has a receipt, so a
\* later head's snapshot never re-pushes a lane still pending; a
\* StateWaitMsg error ends the process and a matcher error skips the head
\* (settler_faults checks it on two lanes with every fault).
THEOREM OneSubmissionUntilPushErrorInvariant ==
    SSpec => []OneSubmissionUntilPushError
<1>1. SInv /\ OSInv /\ [SNext]_allVars => OSInv'
  BY SNextOS
<1>2. SInit => OSInv
  BY InitOSInv
<1>3. OSInv => OneSubmissionUntilPushError
  BY DEF OSInv, OSCore, OneSubmissionUntilPushError
<1>4. QED
  BY <1>1, <1>2, <1>3, SInvInvariant, PTL DEF SSpec

=============================================================================

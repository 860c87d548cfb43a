--------------------------- MODULE FlowchMgrProofs ---------------------------
(***************************************************************************)
(* Proofs about FlowchMgr that hold for every value of the constants.      *)
(*                                                                         *)
(* TypeOK is not inductive by itself: MsgResolved subtracts the remembered *)
(* delta from PendingAmount, which stays a natural number only because     *)
(* PendingAmount equals that delta while a message is in flight.  So the   *)
(* inductive invariant is TypeOK /\ FundsAccounting.                       *)
(*                                                                         *)
(* The Boolean flags of TypeOK are proved by Zenon and its data part by    *)
(* the SMT backend: each action's lemma proves the two parts and the       *)
(* accounting in steps of their own.                                       *)
(***************************************************************************)
EXTENDS FlowchMgr, TLAPS

TypeFlags == chAddr \in BOOLEAN /\ chainExists \in BOOLEAN /\ collected \in BOOLEAN

TypeData ==
    /\ confirmed \in Nat /\ pending \in Nat /\ queued \in Nat
    /\ sentinel \in Nat /\ pendingDelta \in Nat
    /\ nonce \in [Lanes -> 0..MaxNonce]
    /\ best  \in [Lanes -> 0..MaxAmount]
    /\ issued \subseteq Voucher
    /\ msgState \in MsgStates /\ nreq \in Nat /\ lastMsg \in Nat
    /\ chBalance \in Nat
    /\ redeemed  \in [Lanes -> 0..MaxAmount]
    /\ laneNonce \in [Lanes -> 0..MaxNonce]
    /\ settlingAt \in Nat /\ height \in Nat
    /\ pbest  \in [Lanes -> 0..MaxAmount]
    /\ pnonce \in [Lanes -> 0..MaxNonce]
    /\ credited \in Nat

IInv == TypeFlags /\ TypeData /\ FundsAccounting

LEMMA TypeSplit == TypeOK <=> TypeFlags /\ TypeData
BY Zenon DEF TypeOK, TypeFlags, TypeData

LEMMA InitIInv == Init => IInv
<1> SUFFICES ASSUME Init PROVE IInv
  OBVIOUS
<1>1. TypeFlags
  BY Zenon DEF Init, TypeFlags
<1>2. TypeData
  BY ConstantsAssumption DEF Init, TypeData, MsgStates
<1>3. PendingIsDelta /\ BalanceAgrees
  BY DEF Init, PendingIsDelta, BalanceAgrees
<1>4. AddressAgrees
  BY Zenon DEF Init, AddressAgrees
<1>5. QED
  BY <1>1, <1>2, <1>3, <1>4 DEF IInv, FundsAccounting

-----------------------------------------------------------------------------
(* One lemma per action: the flags, the data, the arithmetic of the       *)
(* accounting and its address part each in a step of its own.             *)

LEMMA GetOrCreateIInv ==
    ASSUME IInv, NEW a \in Amounts, GetOrCreate(a)
    PROVE  IInv'
<1> USE DEF IInv, FundsAccounting
<1>1. TypeFlags'
  BY Zenon DEF GetOrCreate, TypeFlags, payer, counters, chain, payee
<1>2. TypeData'
  BY ConstantsAssumption DEF GetOrCreate, TypeData, Amounts, MsgStates, PendingIsDelta, payer, counters, chain, payee
<1>3. PendingIsDelta' /\ BalanceAgrees'
  <2>1. UNCHANGED <<confirmed, chBalance>>
    BY DEF GetOrCreate, chain
  <2>2. CASE msgState = "none"
    <3>1. /\ pending' = pending + (a - (confirmed + pending + queued))
          /\ pendingDelta' = a - (confirmed + pending + queued)
          /\ sentinel' = lastMsg + 1
          /\ msgState' = "sent"
      BY <2>2 DEF GetOrCreate
    <3>2. QED
      BY <2>1, <2>2, <3>1 DEF TypeData, PendingIsDelta, BalanceAgrees
  <2>3. CASE msgState # "none"
    BY <2>1, <2>3 DEF GetOrCreate, PendingIsDelta, BalanceAgrees
  <2>4. QED
    BY <2>2, <2>3
<1>4. AddressAgrees'
  BY Zenon DEF GetOrCreate, AddressAgrees, payer, counters, chain, payee
<1>5. QED
  BY <1>1, <1>2, <1>3, <1>4 DEF FundsAccounting

LEMMA MsgResolvedIInv ==
    ASSUME IInv, MsgResolved
    PROVE  IInv'
<1> USE DEF IInv, FundsAccounting
<1>1. TypeFlags'
  BY Zenon DEF MsgResolved, TypeFlags, payer, counters, chain, payee
<1>2. TypeData'
  BY DEF MsgResolved, TypeData, MsgStates, PendingIsDelta, payer, counters, chain, payee
<1>3. PendingIsDelta' /\ BalanceAgrees'
  BY DEF MsgResolved, TypeData, PendingIsDelta, BalanceAgrees, payer, counters, chain, payee
<1>4. AddressAgrees'
  BY Zenon DEF MsgResolved, AddressAgrees, payer, counters, chain, payee
<1>5. QED
  BY <1>1, <1>2, <1>3, <1>4 DEF FundsAccounting

LEMMA CreateVoucherIInv ==
    ASSUME IInv, NEW l \in Lanes, NEW a \in Amounts, CreateVoucher(l, a)
    PROVE  IInv'
<1> USE DEF IInv, FundsAccounting
<1>1. TypeFlags'
  BY Zenon DEF CreateVoucher, TypeFlags, payer, counters, chain, payee
<1>2. TypeData'
  BY ConstantsAssumption DEF CreateVoucher, TypeData, Voucher, Amounts, Nonces, payer, counters, chain, payee
<1>3. PendingIsDelta' /\ BalanceAgrees'
  BY DEF CreateVoucher, TypeData, PendingIsDelta, BalanceAgrees, payer, counters, chain, payee
<1>4. AddressAgrees'
  BY Zenon DEF CreateVoucher, AddressAgrees, payer, counters, chain, payee
<1>5. QED
  BY <1>1, <1>2, <1>3, <1>4 DEF FundsAccounting

LEMMA FundingExecutedIInv ==
    ASSUME IInv, FundingExecuted
    PROVE  IInv'
<1> USE DEF IInv, FundsAccounting
<1>1. /\ msgState = "sent"
      /\ UNCHANGED <<payer, issued, nreq, lastMsg, redeemed, laneNonce,
                     settlingAt, height, collected, payee>>
  BY DEF FundingExecuted
<1>2. CASE /\ msgState' = "ok" /\ chainExists' = TRUE
           /\ chBalance' = chBalance + pendingDelta
  <2>1. TypeFlags'
    BY <1>1, <1>2, Zenon DEF TypeFlags, payer, payee
  <2>2. TypeData'
    BY <1>1, <1>2 DEF TypeData, MsgStates, payer, payee
  <2>3. PendingIsDelta' /\ BalanceAgrees'
    BY <1>1, <1>2 DEF TypeData, PendingIsDelta, BalanceAgrees, payer
  <2>4. AddressAgrees'
    BY <1>1, <1>2, Zenon DEF AddressAgrees, payer
  <2>5. QED
    BY <2>1, <2>2, <2>3, <2>4 DEF FundsAccounting
<1>3. CASE msgState' = "failed" /\ UNCHANGED <<chainExists, chBalance>>
  <2>1. TypeFlags'
    BY <1>1, <1>3, Zenon DEF TypeFlags, payer, payee
  <2>2. TypeData'
    BY <1>1, <1>3 DEF TypeData, MsgStates, payer, payee
  <2>3. PendingIsDelta' /\ BalanceAgrees'
    BY <1>1, <1>3 DEF PendingIsDelta, BalanceAgrees, payer
  <2>4. AddressAgrees'
    BY <1>1, <1>3, Zenon DEF AddressAgrees, payer
  <2>5. QED
    BY <2>1, <2>2, <2>3, <2>4 DEF FundsAccounting
<1>4. QED
  BY <1>2, <1>3 DEF FundingExecuted

LEMMA SubmitVoucherIInv ==
    ASSUME IInv, NEW l \in Lanes, SubmitVoucher(l)
    PROVE  IInv'
<1> USE DEF IInv, FundsAccounting
<1>1. TypeFlags'
  BY Zenon DEF SubmitVoucher, TypeFlags, payer, counters, chain, payee
<1>2. TypeData'
  BY DEF SubmitVoucher, TypeData, ApplyVoucher, PayeeBest, payer, counters, chain, payee
<1>3. PendingIsDelta' /\ BalanceAgrees'
  BY DEF SubmitVoucher, TypeData, PendingIsDelta, BalanceAgrees, payer, counters, chain, payee
<1>4. AddressAgrees'
  BY Zenon DEF SubmitVoucher, AddressAgrees, payer, counters, chain, payee
<1>5. QED
  BY <1>1, <1>2, <1>3, <1>4 DEF FundsAccounting

LEMMA SettleIInv ==
    ASSUME IInv, Settle
    PROVE  IInv'
<1> USE DEF IInv, FundsAccounting
<1>1. TypeFlags'
  BY Zenon DEF Settle, TypeFlags, payer, counters, chain, payee
<1>2. TypeData'
  BY ConstantsAssumption DEF Settle, TypeData, payer, counters, chain, payee
<1>3. PendingIsDelta' /\ BalanceAgrees'
  BY DEF Settle, TypeData, PendingIsDelta, BalanceAgrees, payer, counters, chain, payee
<1>4. AddressAgrees'
  BY Zenon DEF Settle, AddressAgrees, payer, counters, chain, payee
<1>5. QED
  BY <1>1, <1>2, <1>3, <1>4 DEF FundsAccounting

LEMMA CollectIInv ==
    ASSUME IInv, Collect
    PROVE  IInv'
<1> USE DEF IInv, FundsAccounting
<1>1. TypeFlags'
  BY Zenon DEF Collect, TypeFlags, payer, counters, chain, payee
<1>2. TypeData'
  BY DEF Collect, TypeData, payer, counters, chain, payee
<1>3. PendingIsDelta' /\ BalanceAgrees'
  BY DEF Collect, TypeData, PendingIsDelta, BalanceAgrees, payer, counters, chain, payee
<1>4. AddressAgrees'
  BY Zenon DEF Collect, AddressAgrees, payer, counters, chain, payee
<1>5. QED
  BY <1>1, <1>2, <1>3, <1>4 DEF FundsAccounting

LEMMA TickIInv ==
    ASSUME IInv, Tick
    PROVE  IInv'
<1> USE DEF IInv, FundsAccounting
<1>1. TypeFlags'
  BY Zenon DEF Tick, TypeFlags, payer, counters, chain, payee
<1>2. TypeData'
  BY DEF Tick, TypeData, payer, counters, chain, payee
<1>3. PendingIsDelta' /\ BalanceAgrees'
  BY DEF Tick, TypeData, PendingIsDelta, BalanceAgrees, payer, counters, chain, payee
<1>4. AddressAgrees'
  BY Zenon DEF Tick, AddressAgrees, payer, counters, chain, payee
<1>5. QED
  BY <1>1, <1>2, <1>3, <1>4 DEF FundsAccounting

LEMMA AddVoucherIInv ==
    ASSUME IInv, NEW v \in issued, AddVoucher(v)
    PROVE  IInv'
<1> USE DEF IInv, FundsAccounting
<1>1. TypeFlags'
  BY Zenon DEF AddVoucher, TypeFlags, payer, counters, chain, payee
<1>2. TypeData'
  BY DEF AddVoucher, TypeData, Voucher, Amounts, Nonces, payer, counters, chain, payee
<1>3. PendingIsDelta' /\ BalanceAgrees'
  BY DEF AddVoucher, TypeData, PendingIsDelta, BalanceAgrees, payer, counters, chain, payee
<1>4. AddressAgrees'
  BY Zenon DEF AddVoucher, AddressAgrees, payer, counters, chain, payee
<1>5. QED
  BY <1>1, <1>2, <1>3, <1>4 DEF FundsAccounting

LEMMA StutterIInv ==
    ASSUME IInv, UNCHANGED vars
    PROVE  IInv'
BY Zenon DEF IInv, TypeFlags, TypeData, FundsAccounting, PendingIsDelta,
    BalanceAgrees, AddressAgrees, vars, payer, counters, chain, payee

-----------------------------------------------------------------------------
LEMMA NextIInv == IInv /\ [Next]_vars => IInv'
<1> SUFFICES ASSUME IInv, [Next]_vars PROVE IInv'
  OBVIOUS
<1>1. CASE \E a \in Amounts : GetOrCreate(a)
  BY <1>1, GetOrCreateIInv
<1>2. CASE MsgResolved
  BY <1>2, MsgResolvedIInv
<1>3. CASE \E l \in Lanes, a \in Amounts : CreateVoucher(l, a)
  BY <1>3, CreateVoucherIInv
<1>4. CASE FundingExecuted
  BY <1>4, FundingExecutedIInv
<1>5. CASE \E l \in Lanes : SubmitVoucher(l)
  BY <1>5, SubmitVoucherIInv
<1>6. CASE Settle
  BY <1>6, SettleIInv
<1>7. CASE Collect
  BY <1>7, CollectIInv
<1>8. CASE Tick
  BY <1>8, TickIInv
<1>9. CASE \E v \in issued : AddVoucher(v)
  BY <1>9, AddVoucherIInv
<1>10. CASE UNCHANGED vars
  BY <1>10, StutterIInv
<1>11. QED
  BY <1>1, <1>2, <1>3, <1>4, <1>5, <1>6, <1>7, <1>8, <1>9, <1>10 DEF Next

THEOREM IInvInvariant == Spec => []IInv
BY InitIInv, NextIInv, PTL DEF Spec

\* Every variable keeps its type in every reachable state, for every value
\* of the constants (the run settler_faults checks it on a small
\* instance).
THEOREM TypeCorrect == Spec => []TypeOK
BY IInvInvariant, TypeSplit, PTL DEF IInv

\* The payer's funds accounting agrees with the chain in every reachable
\* state: PendingAmount is the delta remembered for the message in flight,
\* ConfirmedAmount is the actor's balance less a confirmed, unhandled
\* message, and the channel address is known only for an existing actor.
THEOREM FundsAccountingInvariant == Spec => []FundsAccounting
BY IInvInvariant, PTL DEF IInv, FundsAccounting

=============================================================================

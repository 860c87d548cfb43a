--------------------------- MODULE DealFindProofs ---------------------------
(***************************************************************************)
(* Proofs about the deal wizard's find path (DealWizard), alone and        *)
(* composed with GetAsks's goroutines (DealFind), for every value of the   *)
(* constants.                                                              *)
(*                                                                         *)
(* The find case is reached only from the miner case with an empty         *)
(* maddrs, and from find the loop goes on to find-count, confirm, accept   *)
(* and execute, never back: so once candidate asks are collected, maddrs   *)
(* is the one list pickLoop picked from them, and the deals started are a  *)
(* prefix of it.  pickLoop's picks are a prefix of an enumeration of the   *)
(* candidates without repetition.                                          *)
(*                                                                         *)
(* For GetAsks, each throttle's slots taken equal its running workers:     *)
(* a launcher starts a miner not started before (StateListMiners lists     *)
(* each once, and phase 1 appends each of its miners once, its worker      *)
(* leaving the running set as it appends), and each worker gives its slot  *)
(* back on every path.                                                     *)
(***************************************************************************)
EXTENDS DealFind, FiniteSetTheorems, WellFoundedInduction, TLAPS

\* Once candidate asks are collected, the miners proposed and the deals
\* started are distinct candidates, and the loop does not go back.
FInv ==
    /\ cand \subseteq Miners
    /\ st \in {"find", "find-count"} => maddrs = <<>>
    /\ \A m \in cand : FitsAsk(m, ds)
    /\ st # "returned" => started = <<>>
    /\ cand # {} =>
          /\ st \in {"find-count", "confirm", "accept", "execute", "returned"}
          /\ maddrs \in Seq(cand) /\ IsInjective(maddrs)
          /\ started \in Seq(cand) /\ IsInjective(started)

\* GetAsks returns miners with power only.
AQPowered ==
    /\ next2 \in Nat \ {0} /\ live2 \subseteq Powered
    /\ withMinPower \in Seq(Powered) /\ wmp \in Seq(Powered)
    /\ asks \in Seq(Powered) /\ result \in Seq(Powered)

\* The miners each launcher has started a worker for.
Launched1 == {MinerList[i] : i \in 1..next1 - 1}
Launched2 == {wmp[i] : i \in 1..next2 - 1}

\* Each throttle holds one slot per running worker of its phase: a
\* launcher takes the slot of a miner not started before (StateListMiners
\* lists each miner once, and phase 1 appends each of its miners once),
\* and each worker gives back its own.
AQInv ==
    /\ AQTypeOK /\ AQPowered
    /\ IsFiniteSet(live1) /\ held1 = Cardinality(live1)
    /\ IsFiniteSet(live2) /\ held2 = Cardinality(live2)
    /\ live1 \subseteq Launched1 /\ Range(withMinPower) \subseteq Launched1
    /\ live1 \cap Range(withMinPower) = {}
    /\ IsInjective(withMinPower) /\ IsInjective(wmp)
    /\ next2 \in 1..Len(wmp) + 1 /\ live2 \subseteq Launched2
    /\ mpc \in {"list", "phase1", "err"} => next2 = 1 /\ live2 = {}

DFInv == FInv /\ AQInv

-----------------------------------------------------------------------------
\* A prefix of an injective sequence is an injective sequence.
LEMMA PrefixInjective ==
    ASSUME NEW S, NEW s \in Seq(S), IsInjective(s), NEW k \in 0..Len(s)
    PROVE  SubSeq(s, 1, k) \in Seq(S) /\ IsInjective(SubSeq(s, 1, k))
BY DEF IsInjective

\* Every enumeration of a finite set without repetition is an injective
\* sequence of its elements.
LEMMA SetToSeqsInjective ==
    ASSUME NEW S, IsFiniteSet(S), NEW s \in SetToSeqs(S)
    PROVE  s \in Seq(S) /\ IsInjective(s) /\ Len(s) = Cardinality(S)
<1>1. Cardinality(S) \in Nat
  BY FS_CardinalityType
<1>2. QED
  BY <1>1 DEF SetToSeqs, IsInjective

\* What pickLoop keeps is a sequence of distinct candidates, whatever the
\* count.
LEMMA PickAsksInjective ==
    ASSUME NEW c, IsFiniteSet(c), NEW n, NEW p \in PickAsks(c, n)
    PROVE  p \in Seq(c) /\ IsInjective(p)
<1>1. CASE n \in 1..Cardinality(c)
  <2>1. PICK s \in SetToSeqs(c) : p = SubSeq(s, 1, n)
    BY <1>1 DEF PickAsks
  <2>2. s \in Seq(c) /\ IsInjective(s) /\ Len(s) = Cardinality(c)
    BY SetToSeqsInjective
  <2>3. n \in 0..Len(s)
    BY <1>1, <2>2, FS_CardinalityType
  <2>4. QED
    BY <2>1, <2>2, <2>3, PrefixInjective
<1>2. CASE n \notin 1..Cardinality(c)
  BY <1>2, SetToSeqsInjective DEF PickAsks
<1>3. QED
  BY <1>1, <1>2
-----------------------------------------------------------------------------
LEMMA InitFInv == WInit => FInv
BY DEF WInit, FInv

\* A step of the loop before the find case: no candidates yet.
LEMMA EarlyFInv ==
    ASSUME FInv, Setup \/ Import \/ MinerAnswer
    PROVE  FInv'
<1>2. CASE Setup \/ Import
  BY <1>2 DEF FInv, Setup, Import, Return
<1>3. CASE MinerAnswer
  <2>1. cand = {} /\ cand' = {} /\ started' = <<>>
    BY <1>3 DEF FInv, MinerAnswer
  <2>2. st' \in {"find", "find-count"} => maddrs' = <<>>
    BY <1>3 DEF MinerAnswer
  <2>3. QED
    BY <2>1, <2>2 DEF FInv
<1>4. QED
  BY <1>2, <1>3 DEF FInv, Setup, Import, MinerAnswer

\* The find case with the asks of some miners: only asks that admit the
\* piece become candidates, and maddrs is still empty.
LEMMA FindWithFInv ==
    ASSUME FInv, NEW got \in SUBSET Miners, FindWith(got)
    PROVE  FInv'
<1>1. maddrs = <<>> /\ started = <<>> /\ UNCHANGED <<maddrs, started, ds>>
  BY DEF FInv, FindWith
<1>2. cand' \subseteq Miners /\ \A m \in cand' : FitsAsk(m, ds')
  BY DEF FInv, FindWith
<1>3. <<>> \in Seq(cand') /\ IsInjective(<<>>)
  BY DEF IsInjective
<1>4. st' = "find-count"
  BY DEF FindWith
<1>5. QED
  BY <1>1, <1>2, <1>3, <1>4 DEF FInv

LEMMA FindErrFInv ==
    ASSUME FInv, FindErr
    PROVE  FInv'
BY DEF FInv, FindErr, Return

\* find-count: maddrs, empty until now, becomes pickLoop's picks.
LEMMA FindCountFInv ==
    ASSUME FInv, FindCount
    PROVE  FInv'
<1>1. IsFiniteSet(cand)
  BY DealWizardAssumption, FS_Subset DEF FInv
<1>2. CASE \E n \in Counts : \E picked \in PickAsks(cand, n) :
             /\ dealCount' = n
             /\ maddrs' = maddrs \o picked
             /\ chosen' = Range(picked)
             /\ st' = "confirm"
             /\ UNCHANGED ret
  <2>0. PICK n \in Counts : \E picked \in PickAsks(cand, n) :
            maddrs' = maddrs \o picked /\ st' = "confirm"
    BY <1>2
  <2>1. PICK picked \in PickAsks(cand, n) :
            maddrs' = maddrs \o picked /\ st' = "confirm"
    BY <2>0
  <2>2. picked \in Seq(cand) /\ IsInjective(picked)
    BY <1>1, PickAsksInjective
  <2>3. maddrs' = picked
    BY <2>1, <2>2 DEF FInv, FindCount
  <2>4. QED
    BY <2>1, <2>2, <2>3 DEF FInv, FindCount
<1>3. CASE Return("err") /\ UNCHANGED <<dealCount, maddrs, chosen>>
  BY <1>3 DEF FInv, FindCount, Return
<1>4. QED
  BY <1>2, <1>3 DEF FindCount

\* execute: the deals started are a prefix of maddrs.
LEMMA ExecuteFInv ==
    ASSUME FInv, Execute
    PROVE  FInv'
<1>1. PICK k \in 0..Len(maddrs) : started' = SubSeq(maddrs, 1, k) /\ st' = "returned"
  BY DEF Execute, Return
<1>2. cand # {} => started' \in Seq(cand) /\ IsInjective(started')
  BY <1>1, PrefixInjective DEF FInv
<1>3. QED
  BY <1>1, <1>2 DEF FInv, Execute

LEMMA LaterFInv ==
    ASSUME FInv, Query \/ Confirm \/ Accept \/ CloseStdin \/ Interrupt
    PROVE  FInv'
BY DEF FInv, Query, Confirm, Accept, CloseStdin, Interrupt, Return

LEMMA WNextFInv ==
    ASSUME FInv, [WNext]_wvars
    PROVE  FInv'
<1>1. CASE Find
  BY <1>1, FindWithFInv, FindErrFInv DEF Find
<1>2. CASE UNCHANGED wvars
  BY <1>2 DEF FInv, wvars
<1>3. QED
  BY <1>1, <1>2, EarlyFInv, FindCountFInv, ExecuteFInv, LaterFInv DEF WNext
\* The find path's deals are distinct candidates, which admit the piece.
LEMMA FInvFindDeals ==
    ASSUME FInv
    PROVE  FindDealsFit /\ FindDealsDistinct
BY DEF FInv, FindDealsFit, FindDealsDistinct

THEOREM FInvInvariant == WSpec => []FInv
BY InitFInv, WNextFInv, PTL DEF WSpec

\* Every deal interactiveDeal starts on the find path goes to a miner whose
\* ask admits the piece's size, for every set of miners, asks and counts
\* (MCDealWizard.cfg checks it on two miners): the size filter of the find
\* case is the only way into candidateAsks, and pickLoop and the execute
\* case only take from it.
THEOREM FindDealsFitInvariant == WSpec => []FindDealsFit
BY FInvInvariant, FInvFindDeals, PTL

\* On the find path no miner is proposed two deals, whatever count the user
\* types, for every set of miners (MCDealWizard.cfg checks it): each round of
\* pickLoop takes a prefix of one shuffle of the candidates, and the count
\* it cannot meet keeps the last round's picks alone.
THEOREM FindDealsDistinctInvariant == WSpec => []FindDealsDistinct
BY FInvInvariant, FInvFindDeals, PTL

-----------------------------------------------------------------------------
\* The facts about MinerList the proofs use.
LEMMA MinerListFacts ==
    /\ Len(MinerList) \in Nat /\ DOMAIN MinerList = 1..Len(MinerList)
    /\ \A i, j \in 1..Len(MinerList) : i # j => MinerList[i] # MinerList[j]
    /\ Powered \subseteq Range(MinerList)
    /\ Throttle \in Nat \ {0}
BY AskQueryAssumption

\* AQTypeOK without the done flags, which the SMT backend handles badly
\* beside the rest; the flags are taken apart and put back with Zenon.
AQTypeData ==
    /\ mpc \in {"list", "phase1", "phase2", "returned", "err"}
    /\ next1 \in 1..Len(MinerList) + 1
    /\ live1 \subseteq Range(MinerList) /\ live2 \subseteq Range(MinerList)
    /\ held1 \in 0..Throttle /\ held2 \in 0..Throttle
    /\ withMinPower \in Seq(Powered) /\ wmp \in Seq(Powered)
    /\ asks \in Seq(Powered) /\ result \in Seq(Powered)

LEMMA AQTypeApart == AQTypeOK => AQTypeData
BY Zenon DEF AQTypeOK, AQTypeData

LEMMA AQTypeTogether ==
    AQTypeData' /\ done1' \in BOOLEAN /\ done2' \in BOOLEAN => AQTypeOK'
BY Zenon DEF AQTypeOK, AQTypeData

LEMMA InitAQInv == AQInit => AQInv
<1> SUFFICES ASSUME AQInit PROVE AQInv
  OBVIOUS
<1>1. IsFiniteSet({}) /\ Cardinality({}) = 0
  BY FS_EmptySet
<1>2. AQTypeOK /\ AQPowered
  <2>1. Len(MinerList) \in Nat /\ Throttle \in Nat
    BY MinerListFacts
  <2>2. done1 \in BOOLEAN /\ done2 \in BOOLEAN
    BY Zenon DEF AQInit
  <2>3. AQTypeData
    BY <2>1 DEF AQInit, AQTypeData
  <2>4. AQPowered
    BY DEF AQInit, AQPowered
  <2>5. QED
    BY <2>2, <2>3, <2>4, Zenon DEF AQTypeOK, AQTypeData
<1>3. Launched1 = {} /\ Launched2 = {} /\ Range(withMinPower) = {}
  BY DEF AQInit, Launched1, Launched2, Range
<1>4. IsInjective(withMinPower) /\ IsInjective(wmp)
  BY DEF AQInit, IsInjective
<1>5. QED
  BY <1>1, <1>2, <1>3, <1>4 DEF AQInit, AQInv

LEMMA InitDFInv == DFInit => DFInv
BY InitFInv, InitAQInv DEF DFInit, DFInv

\* A step that leaves the workers, the slots and the slices alone, and
\* leaves the caller's state, or moves it past phase 1.
LEMMA AQQuiet ==
    ASSUME AQInv,
           UNCHANGED <<next1, next2, live1, live2, held1, held2, withMinPower,
                       wmp, asks, result>>,
           mpc' \in {"list", "phase1", "phase2", "returned", "err"},
           done1' \in BOOLEAN, done2' \in BOOLEAN,
           mpc' \in {"list", "phase1", "err"} => mpc \in {"list", "phase1", "err"}
    PROVE  AQInv'
<1>1. AQTypeData
  BY AQTypeApart DEF AQInv
<1>2. AQTypeData'
  BY <1>1 DEF AQTypeData
<1>3. AQTypeOK'
  BY <1>2, AQTypeTogether
<1>4. QED
  BY <1>3 DEF AQInv, AQPowered, Launched1, Launched2

\* Phase 1's launcher starts the worker of a miner not started before, in
\* the slot it takes.
LEMMA Launch1AQInv ==
    ASSUME AQInv, Launch1
    PROVE  AQInv'
<1> DEFINE x == MinerList[next1]
<1>0. AQTypeData
  BY AQTypeApart DEF AQInv
<1>1. next1 \in 1..Len(MinerList) /\ Len(MinerList) \in Nat
  BY <1>0, MinerListFacts DEF AQTypeData, Launch1
<1>2. x \notin Launched1 /\ x \in Range(MinerList)
  BY <1>1, MinerListFacts DEF Launched1, Range
<1>3. Launched1' = Launched1 \cup {x} /\ Launched2' = Launched2
  BY <1>1 DEF Launched1, Launched2, Launch1
<1>4. IsFiniteSet(live1') /\ Cardinality(live1') = held1'
  BY <1>2, FS_AddElement DEF AQInv, Launch1
<1>5. AQTypeData'
  BY <1>0, <1>1, <1>2, MinerListFacts DEF AQTypeData, Launch1
<1>6. AQTypeOK'
  BY <1>5, AQTypeTogether, Zenon DEF AQInv, AQTypeOK, Launch1
<1>7. live1' \cap Range(withMinPower') = {}
  BY <1>2 DEF AQInv, Launch1
<1>8. QED
  BY <1>3, <1>4, <1>6, <1>7 DEF AQInv, AQPowered, Launch1

\* A phase 1 worker gives back its slot, and appends its miner at most
\* once, since it leaves the running workers as it does.
LEMMA Worker1AQInv ==
    ASSUME AQInv, NEW m \in live1, Worker1(m)
    PROVE  AQInv'
<1>0. AQTypeData
  BY AQTypeApart DEF AQInv
<1>1. IsFiniteSet(live1') /\ Cardinality(live1') = held1'
  BY FS_RemoveElement DEF AQInv, Worker1
<1>2. held1' \in 0..Throttle
  <2>1. Cardinality(live1') \in Nat
    BY <1>1, FS_CardinalityType
  <2>2. held1 \in 0..Throttle /\ held1' = held1 - 1
    BY <1>0 DEF AQTypeData, Worker1
  <2>3. QED
    BY <1>1, <2>1, <2>2, MinerListFacts
<1>3. Launched1' = Launched1 /\ Launched2' = Launched2
  BY DEF Launched1, Launched2, Worker1
<1>4. m \notin Range(withMinPower) /\ m \in Launched1
  BY DEF AQInv
<1>5. withMinPower' \in Seq(Powered) /\ IsInjective(withMinPower')
      /\ Range(withMinPower') \subseteq Launched1
      /\ live1' \cap Range(withMinPower') = {}
  <2>1. CASE m \in Powered /\ withMinPower' = Append(withMinPower, m)
    <3>0. withMinPower \in Seq(Powered) /\ IsInjective(withMinPower)
      BY DEF AQInv, AQPowered
    <3>1. Range(withMinPower') = Range(withMinPower) \cup {m}
      <4>1. DOMAIN withMinPower' = 1..Len(withMinPower) + 1
        BY <2>1, <3>0
      <4>2. QED
        BY <2>1, <3>0, <4>1 DEF Range
    <3>2. IsInjective(withMinPower')
      <4>2. \A i \in 1..Len(withMinPower) : withMinPower[i] # m
        BY <1>4, <3>0 DEF Range
      <4>3. QED
        BY <2>1, <3>0, <4>2 DEF IsInjective
    <3>3. QED
      BY <1>4, <2>1, <3>1, <3>2 DEF AQInv, AQPowered, Worker1
  <2>2. CASE UNCHANGED withMinPower
    BY <2>2 DEF AQInv, AQPowered, Worker1
  <2>3. QED
    BY <2>1, <2>2 DEF Worker1
<1>6. AQTypeData'
  BY <1>0, <1>2, <1>5 DEF AQTypeData, Worker1
<1>7. AQTypeOK'
  BY <1>6, AQTypeTogether, Zenon DEF AQInv, AQTypeOK, Worker1
<1>8. QED
  BY <1>1, <1>3, <1>5, <1>7 DEF AQInv, AQPowered, Worker1

\* The caller reads withMinPower: phase 2 starts from its first miner.
LEMMA Read1AQInv ==
    ASSUME AQInv, Read1
    PROVE  AQInv'
<1>0. AQTypeData
  BY AQTypeApart DEF AQInv
<1>1. next2 = 1 /\ live2 = {}
  BY DEF AQInv, Read1
<1>2. Launched2' = {} /\ Launched1' = Launched1
  BY <1>1 DEF Launched1, Launched2, Read1
<1>3. AQTypeData'
  BY <1>0 DEF AQTypeData, AQInv, AQPowered, Read1
<1>4. AQTypeOK'
  BY <1>3, AQTypeTogether, Zenon DEF AQInv, AQTypeOK, Read1
<1>5. QED
  BY <1>1, <1>2, <1>4 DEF AQInv, AQPowered, Read1

\* Phase 2's launcher starts the worker of a miner of wmp not started
\* before.
LEMMA Launch2AQInv ==
    ASSUME AQInv, Launch2
    PROVE  AQInv'
<1> DEFINE x == wmp[next2]
<1>0. AQTypeData
  BY AQTypeApart DEF AQInv
<1>1. next2 \in 1..Len(wmp)
  BY DEF AQInv, Launch2
<1>2. x \notin Launched2 /\ x \in Powered
  BY <1>1 DEF AQInv, AQPowered, Launched2, IsInjective
<1>3. Launched2' = Launched2 \cup {x} /\ Launched1' = Launched1
  BY <1>1 DEF Launched1, Launched2, Launch2
<1>4. IsFiniteSet(live2') /\ Cardinality(live2') = held2'
  BY <1>2, FS_AddElement DEF AQInv, Launch2
<1>5. live2' \subseteq Powered
  BY <1>2 DEF AQInv, AQPowered, Launch2
<1>6. AQTypeData'
  BY <1>0, <1>5, MinerListFacts DEF AQTypeData, Launch2
<1>7. AQTypeOK'
  BY <1>6, AQTypeTogether, Zenon DEF AQInv, AQTypeOK, Launch2
<1>8. QED
  BY <1>1, <1>3, <1>4, <1>5, <1>7 DEF AQInv, AQPowered, Launch2

\* A phase 2 worker gives back its slot and appends its miner, or not.
LEMMA Worker2AQInv ==
    ASSUME AQInv, NEW m \in live2, Worker2(m)
    PROVE  AQInv'
<1>0. AQTypeData
  BY AQTypeApart DEF AQInv
<1>1. IsFiniteSet(live2') /\ Cardinality(live2') = held2'
  BY FS_RemoveElement DEF AQInv, Worker2
<1>2. held2' \in 0..Throttle
  <2>1. Cardinality(live2') \in Nat
    BY <1>1, FS_CardinalityType
  <2>2. held2 \in 0..Throttle /\ held2' = held2 - 1
    BY <1>0 DEF AQTypeData, Worker2
  <2>3. QED
    BY <1>1, <2>1, <2>2, MinerListFacts
<1>3. Launched1' = Launched1 /\ Launched2' = Launched2
  BY DEF Launched1, Launched2, Worker2
<1>4. asks' \in Seq(Powered)
  <2>1. m \in Powered /\ asks \in Seq(Powered)
    BY DEF AQInv, AQPowered
  <2>2. CASE asks' = Append(asks, m)
    BY <2>1, <2>2
  <2>3. CASE UNCHANGED asks
    BY <2>1, <2>3
  <2>4. QED
    BY <2>2, <2>3 DEF Worker2
<1>5. AQTypeData'
  BY <1>0, <1>2, <1>4 DEF AQTypeData, Worker2
<1>6. AQTypeOK'
  BY <1>5, AQTypeTogether, Zenon DEF AQInv, AQTypeOK, Worker2
<1>7. QED
  BY <1>1, <1>3, <1>4, <1>6 DEF AQInv, AQPowered, Worker2

\* Every step of GetAsks's caller and goroutines keeps the slots in step
\* with the running workers.
LEMMA AQNextAQInv ==
    ASSUME AQInv, [AQNext]_aqvars
    PROVE  AQInv'
<1>1. CASE ListMiners
  BY <1>1, AQQuiet, Zenon DEF ListMiners, AQInv, AQTypeOK
<1>2. CASE Close1 \/ Close2
  BY <1>2, AQQuiet, Zenon DEF Close1, Close2, AQInv, AQTypeOK
<1>3. CASE ReturnAsks
  <2>1. AQTypeData /\ AQPowered
    BY AQTypeApart DEF AQInv
  <2>2. AQTypeData' /\ AQPowered'
    BY <1>3, <2>1 DEF ReturnAsks, AQTypeData, AQPowered
  <2>3. AQTypeOK'
    BY <1>3, <2>2, AQTypeTogether, Zenon DEF AQInv, AQTypeOK, ReturnAsks
  <2>4. QED
    BY <1>3, <2>2, <2>3 DEF ReturnAsks, AQInv, Launched1, Launched2
<1>4. CASE UNCHANGED aqvars
  BY <1>4 DEF AQInv, AQTypeOK, AQPowered, Launched1, Launched2, aqvars
<1>5. QED
  BY <1>1, <1>2, <1>3, <1>4, Launch1AQInv, Worker1AQInv, Read1AQInv,
     Launch2AQInv, Worker2AQInv DEF AQNext

\* find, composed: GetAsks returned miners with power, which the user may
\* also type.
LEMMA FindAsksDFInv ==
    ASSUME DFInv, FindAsks
    PROVE  DFInv'
<1>1. Range(result) \in SUBSET Miners
  BY DealFindAssumption DEF DFInv, AQInv, AQPowered, Range
<1>2. FInv'
  BY <1>1, FindWithFInv DEF DFInv, FindAsks
<1>3. AQInv'
  BY DEF DFInv, AQInv, AQTypeOK, AQPowered, Launched1, Launched2, FindAsks, aqvars
<1>4. QED
  BY <1>2, <1>3 DEF DFInv

LEMMA DFNextDFInv ==
    ASSUME DFInv, [DFNext]_dfvars
    PROVE  DFInv'
<1>1. CASE \/ WizardStep(Setup) \/ WizardStep(Import) \/ WizardStep(MinerAnswer)
           \/ WizardStep(FindCount) \/ WizardStep(Query) \/ WizardStep(Confirm)
           \/ WizardStep(Accept) \/ WizardStep(Execute)
           \/ WizardStep(CloseStdin) \/ WizardStep(Interrupt)
  <2>1. [WNext]_wvars /\ UNCHANGED aqvars
    BY <1>1 DEF WizardStep, WNext
  <2>2. QED
    BY <2>1, WNextFInv DEF DFInv, AQInv, AQTypeOK, AQPowered, Launched1, Launched2, aqvars
<1>2. CASE FindAsks
  BY <1>2, FindAsksDFInv
<1>3. CASE FindFails
  BY <1>3, FindErrFInv DEF DFInv, AQInv, AQTypeOK, AQPowered, Launched1, Launched2, aqvars, FindFails
<1>4. CASE \/ CallerStep(ListMiners) \/ CallerStep(Read1) \/ CallerStep(ReturnAsks)
           \/ GoroutineStep(Launch1) \/ GoroutineStep(Close1)
           \/ GoroutineStep(Launch2) \/ GoroutineStep(Close2)
           \/ \E m \in live1 : GoroutineStep(Worker1(m))
           \/ \E m \in live2 : GoroutineStep(Worker2(m))
  <2>1. [AQNext]_aqvars /\ UNCHANGED wvars
    BY <1>4 DEF CallerStep, GoroutineStep, AQNext
  <2>2. FInv'
    BY <2>1 DEF DFInv, FInv, wvars
  <2>3. QED
    BY <2>1, <2>2, AQNextAQInv DEF DFInv
<1>5. CASE UNCHANGED dfvars
  BY <1>5 DEF DFInv, FInv, AQInv, AQTypeOK, AQPowered, Launched1, Launched2, dfvars, wvars, aqvars
<1>6. QED
  BY <1>1, <1>2, <1>3, <1>4, <1>5 DEF DFNext

THEOREM DFInvInvariant == DFSpec => []DFInv
BY InitDFInv, DFNextDFInv, PTL DEF DFSpec

\* With GetAsks's goroutines running beside the wizard, every deal of the
\* find path still goes to a miner whose ask admits the piece, for every
\* list of miners and every throttle (the run dealfind checks it on three
\* listed miners): GetAsks returns only miners with power, whom the user
\* may also type, and the find case filters them by their asks.
THEOREM FindDealsFitComposed == DFSpec => []FindDealsFit
<1>1. DFInv => FindDealsFit
  BY FInvFindDeals DEF DFInv
<1>2. QED
  BY <1>1, DFInvInvariant, PTL

\* With GetAsks's goroutines running beside the wizard, no miner of the
\* find path is proposed two deals, for every list of miners and every
\* throttle (the run dealfind checks it): whatever GetAsks returns, the
\* candidates are a set and pickLoop enumerates it without repetition.
THEOREM FindDealsDistinctComposed == DFSpec => []FindDealsDistinct
<1>1. DFInv => FindDealsDistinct
  BY FInvFindDeals DEF DFInv
<1>2. QED
  BY <1>1, DFInvInvariant, PTL

\* GetAsks's throttles never hold a negative number of slots, nor more than
\* their capacity, and its slices hold only miners with power, for every
\* list of miners and every capacity, with the wizard running beside it
\* (the run dealfind checks it on three listed miners): each launcher takes
\* the slot of a miner it has not started before, and each worker gives
\* back exactly the slot its launcher took, on every path.
THEOREM AQTypeCorrect == DFSpec => []AQTypeOK
<1>1. DFInv => AQTypeOK
  BY DEF DFInv, AQInv
<1>2. QED
  BY <1>1, DFInvInvariant, PTL
-----------------------------------------------------------------------------
(***************************************************************************)
(* The wizard's types.  The miner case appends the fields of an answer     *)
(* before the first that does not parse: its place is the least index of   *)
(* a bad field, which exists since every non-empty set of naturals has a   *)
(* least element (the less-than relation on Nat is well founded).          *)
(***************************************************************************)

\* A non-empty set of naturals has a least element, and Min returns it.
LEMMA LeastNatural ==
    ASSUME NEW T \in SUBSET Nat, T # {}
    PROVE  Min(T) \in T /\ \A y \in T : Min(T) <= y
<1>1. PICK x \in T : \A y \in T : ~(<<y, x>> \in OpToRel(<, Nat))
  BY NatLessThanWellFounded, WFMin
<1>2. \A y \in T : y < x => <<y, x>> \in OpToRel(<, Nat)
  BY Zenon DEF OpToRel
<1>3. \A y \in T : ~(y < x)
  BY <1>1, <1>2, Zenon
<1>4. \E z \in T : \A y \in T : z <= y
  BY <1>3
<1>5. QED
  BY <1>4 DEF Min

\* An answer of at most MaxAnswer fields is a sequence.
LEMMA SeqOfSeq ==
    ASSUME NEW S, NEW n \in Nat, NEW s \in SeqOf(S, n)
    PROVE  s \in Seq(S) /\ Range(s) \subseteq S
BY DEF SeqOf, Range

\* What the miner case appends of an answer holds miners only.
LEMMA ParsedPrefixMiners ==
    ASSUME NEW ans \in Seq(Miners \cup {Bad})
    PROVE  ParsedPrefix(ans) \in Seq(Miners)
<1> DEFINE bad == {i \in DOMAIN ans : ans[i] = Bad}
<1>1. CASE bad = {}
  BY <1>1 DEF ParsedPrefix
<1>2. CASE bad # {}
  <2>1. Min(bad) \in bad /\ \A y \in bad : Min(bad) <= y
    BY <1>2, LeastNatural
  <2>2. \A i \in 1..Min(bad) - 1 : ans[i] \in Miners
    <3> SUFFICES ASSUME NEW i \in 1..Min(bad) - 1 PROVE ans[i] \in Miners
      OBVIOUS
    <3>1. Min(bad) \in 1..Len(ans)
      BY <2>1
    <3>2. i \in DOMAIN ans
      BY <3>1
    <3>3. ans[i] # Bad
      <4>1. SUFFICES ASSUME ans[i] = Bad PROVE FALSE
        OBVIOUS
      <4>2. i \in bad
        BY <3>2, <4>1
      <4>3. Min(bad) <= i
        BY <2>1, <4>2
      <4>4. QED
        BY <3>1, <4>3
    <3>4. QED
      BY <3>2, <3>3
  <2>3. QED
    BY <1>2, <2>1, <2>2 DEF ParsedPrefix
<1>3. QED
  BY <1>1, <1>2

\* WizardTypeOK without the eof flag, which the SMT backend handles badly
\* beside the rest; the flag is taken apart and put back with Zenon.
WTypeData ==
    /\ st \in WizardStates /\ ret \in {"none", "nil", "err"}
    /\ ds \in Sizes \cup {0}
    /\ maddrs \in Seq(Miners) /\ cand \subseteq Miners
    /\ dealCount \in Counts \cup {0}
    /\ started \in Seq(Miners) /\ chosen \subseteq Miners \cup {Bad}
    /\ rounds \in 0..MaxRounds

LEMMA WTypeApart == WizardTypeOK => WTypeData /\ eof \in BOOLEAN
BY Zenon DEF WizardTypeOK, WTypeData

LEMMA WTypeTogether == WTypeData' /\ eof' \in BOOLEAN => WizardTypeOK'
BY Zenon DEF WizardTypeOK, WTypeData

LEMMA InitWType == WInit => WizardTypeOK
<1> SUFFICES ASSUME WInit PROVE WizardTypeOK
  OBVIOUS
<1>1. eof \in BOOLEAN
  BY Zenon DEF WInit
<1>2. WTypeData
  BY DealWizardAssumption DEF WInit, WTypeData, WizardStates
<1>3. QED
  BY <1>1, <1>2, Zenon DEF WizardTypeOK, WTypeData

\* A step that leaves stdin as it was and keeps the other variables in
\* their types.
LEMMA WTypeKeepsEof ==
    ASSUME WizardTypeOK, WTypeData', eof' = eof
    PROVE  WizardTypeOK'
BY WTypeApart, WTypeTogether, Zenon

\* miner: the fields before the first bad one are appended to maddrs, and
\* the answer's fields, bad or not, are what it named.
LEMMA MinerAnswerWType ==
    ASSUME WizardTypeOK, MinerAnswer
    PROVE  WizardTypeOK'
<1>0. WTypeData
  BY WTypeApart
<1>1. PICK ans \in SeqOf(Miners \cup {Bad}, MaxAnswer) :
          /\ maddrs' = maddrs \o ParsedPrefix(ans)
          /\ IF Len(ParsedPrefix(ans)) = Len(ans)
               THEN /\ st' = IF maddrs' = <<>> THEN "find" ELSE "query"
                    /\ chosen' = Range(ans)
               ELSE UNCHANGED <<st, chosen>>
  BY DEF MinerAnswer
<1>2. ans \in Seq(Miners \cup {Bad}) /\ Range(ans) \subseteq Miners \cup {Bad}
  BY SeqOfSeq, DealWizardAssumption
<1>3. ParsedPrefix(ans) \in Seq(Miners)
  BY <1>2, ParsedPrefixMiners
<1>4. maddrs' \in Seq(Miners)
  BY <1>0, <1>1, <1>3 DEF WTypeData
<1>5. st' \in WizardStates /\ chosen' \subseteq Miners \cup {Bad}
  BY <1>0, <1>1, <1>2 DEF WTypeData, WizardStates
<1>6. rounds' \in 0..MaxRounds
  BY <1>0, DealWizardAssumption DEF MinerAnswer, WTypeData
<1>7. WTypeData'
  BY <1>0, <1>4, <1>5, <1>6 DEF MinerAnswer, WTypeData
<1>8. QED
  BY <1>7, WTypeKeepsEof DEF MinerAnswer

\* find-count: pickLoop's picks are candidates, hence miners.
LEMMA FindCountWType ==
    ASSUME WizardTypeOK, FindCount
    PROVE  WizardTypeOK'
<1>0. WTypeData
  BY WTypeApart
<1>1. IsFiniteSet(cand)
  BY <1>0, DealWizardAssumption, FS_Subset DEF WTypeData
<1>2. CASE \E n \in Counts : \E picked \in PickAsks(cand, n) :
             /\ dealCount' = n
             /\ maddrs' = maddrs \o picked
             /\ chosen' = Range(picked)
             /\ st' = "confirm"
             /\ UNCHANGED ret
  <2>1. PICK n \in Counts : \E picked \in PickAsks(cand, n) :
             /\ dealCount' = n
             /\ maddrs' = maddrs \o picked
             /\ chosen' = Range(picked)
             /\ st' = "confirm"
             /\ UNCHANGED ret
    BY <1>2
  <2>2. PICK picked \in PickAsks(cand, n) :
             /\ dealCount' = n
             /\ maddrs' = maddrs \o picked
             /\ chosen' = Range(picked)
             /\ st' = "confirm"
             /\ UNCHANGED ret
    BY <2>1
  <2>3. picked \in Seq(Miners)
    BY <1>0, <1>1, PickAsksInjective DEF WTypeData
  <2>4. Range(picked) \subseteq Miners
    BY <2>3 DEF Range
  <2>5. WTypeData'
    BY <1>0, <2>2, <2>3, <2>4 DEF FindCount, WTypeData, WizardStates
  <2>6. QED
    BY <2>5, WTypeKeepsEof DEF FindCount
<1>3. CASE Return("err") /\ UNCHANGED <<dealCount, maddrs, chosen>>
  <2>1. WTypeData'
    BY <1>0, <1>3 DEF FindCount, Return, WTypeData, WizardStates
  <2>2. QED
    BY <2>1, WTypeKeepsEof DEF FindCount
<1>4. QED
  BY <1>2, <1>3 DEF FindCount

\* execute: the deals started are a prefix of maddrs.
LEMMA ExecuteWType ==
    ASSUME WizardTypeOK, Execute
    PROVE  WizardTypeOK'
<1>0. WTypeData
  BY WTypeApart
<1>1. PICK k \in 0..Len(maddrs) :
          /\ started' = SubSeq(maddrs, 1, k)
          /\ Return(IF k = Len(maddrs) THEN "nil" ELSE "err")
  BY DEF Execute
<1>2. WTypeData'
  BY <1>0, <1>1 DEF Execute, Return, WTypeData, WizardStates
<1>3. QED
  BY <1>2, WTypeKeepsEof DEF Execute

\* find with the asks of some miners: the candidates stay miners.
LEMMA FindWithWType ==
    ASSUME WizardTypeOK, NEW got \in SUBSET Miners, FindWith(got)
    PROVE  WizardTypeOK'
<1>0. WTypeData
  BY WTypeApart
<1>1. WTypeData'
  BY <1>0 DEF FindWith, WTypeData, WizardStates
<1>2. QED
  BY <1>1, WTypeKeepsEof DEF FindWith

\* The cases that change only the loop's state and the return value.
LEMMA ControlWType ==
    ASSUME WizardTypeOK,
           Setup \/ Import \/ FindErr \/ Query \/ Confirm \/ Accept \/ Interrupt
    PROVE  WizardTypeOK'
<1>0. WTypeData
  BY WTypeApart
<1>1. WTypeData'
  BY <1>0, DealWizardAssumption
     DEF Setup, Import, FindErr, Query, Confirm, Accept, Interrupt, Return,
         WTypeData, WizardStates
<1>2. eof' = eof
  BY DEF Setup, Import, FindErr, Query, Confirm, Accept, Interrupt
<1>3. QED
  BY <1>1, <1>2, WTypeKeepsEof

LEMMA CloseStdinWType ==
    ASSUME WizardTypeOK, CloseStdin
    PROVE  WizardTypeOK'
<1>1. WTypeData'
  BY WTypeApart DEF CloseStdin, WTypeData
<1>2. eof' \in BOOLEAN
  BY Zenon DEF CloseStdin
<1>3. QED
  BY <1>1, <1>2, WTypeTogether

LEMMA WNextWType ==
    ASSUME WizardTypeOK, [WNext]_wvars
    PROVE  WizardTypeOK'
<1>1. CASE UNCHANGED wvars
  BY <1>1 DEF WizardTypeOK, wvars
<1>2. QED
  BY <1>1, MinerAnswerWType, FindCountWType, ExecuteWType, FindWithWType,
     ControlWType, CloseStdinWType DEF WNext, Find

\* The wizard's types hold on every path of the loop, for every set of
\* miners, sizes, counts and bounds on the answers: in particular the miner
\* case never puts a field that failed to parse into maddrs, since it stops
\* at the first one, and the deals go only to miners (MCDealWizard.cfg
\* checks it on two miners).
THEOREM WizardTypeCorrect == WSpec => []WizardTypeOK
BY InitWType, WNextWType, PTL DEF WSpec

\* GetAsks's steps leave the wizard's variables alone; its find case takes
\* miners with power, which the user may also type.
LEMMA DFNextWType ==
    ASSUME WizardTypeOK, DFInv, [DFNext]_dfvars
    PROVE  WizardTypeOK'
<1>1. CASE \/ WizardStep(Setup) \/ WizardStep(Import) \/ WizardStep(MinerAnswer)
           \/ WizardStep(FindCount) \/ WizardStep(Query) \/ WizardStep(Confirm)
           \/ WizardStep(Accept) \/ WizardStep(Execute)
           \/ WizardStep(CloseStdin) \/ WizardStep(Interrupt)
  <2>1. [WNext]_wvars
    BY <1>1 DEF WizardStep, WNext
  <2>2. QED
    BY <2>1, WNextWType
<1>2. CASE FindAsks
  <2>1. Range(result) \in SUBSET Miners
    BY DealFindAssumption DEF DFInv, AQInv, AQPowered, Range
  <2>2. QED
    BY <1>2, <2>1, FindWithWType DEF FindAsks
<1>3. CASE FindFails
  BY <1>3, ControlWType DEF FindFails
<1>4. CASE \/ CallerStep(ListMiners) \/ CallerStep(Read1) \/ CallerStep(ReturnAsks)
           \/ GoroutineStep(Launch1) \/ GoroutineStep(Close1)
           \/ GoroutineStep(Launch2) \/ GoroutineStep(Close2)
           \/ \E m \in live1 : GoroutineStep(Worker1(m))
           \/ \E m \in live2 : GoroutineStep(Worker2(m))
  <2>1. UNCHANGED wvars
    BY <1>4 DEF CallerStep, GoroutineStep
  <2>2. QED
    BY <2>1, WNextWType
<1>5. CASE UNCHANGED dfvars
  BY <1>5, WNextWType DEF dfvars
<1>6. QED
  BY <1>1, <1>2, <1>3, <1>4, <1>5 DEF DFNext

\* With GetAsks's goroutines running beside the wizard, the wizard's types
\* hold in every reachable state, for every list of miners and every
\* throttle (the run dealfind checks it on three listed miners): the miners
\* GetAsks returns are ones the user may type.
THEOREM WizardTypeCorrectComposed == DFSpec => []WizardTypeOK
<1>1. WizardTypeOK /\ DFInv /\ [DFNext]_dfvars => WizardTypeOK'
  BY DFNextWType
<1>2. DFInit => WizardTypeOK
  BY InitWType DEF DFInit
<1>3. QED
  BY <1>1, <1>2, DFInvInvariant, PTL DEF DFSpec
=============================================================================

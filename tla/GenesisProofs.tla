--------------------------- MODULE GenesisProofs ---------------------------
(***************************************************************************)
(* Proofs about the genesis tree MakeInitialStateTree builds (Genesis),    *)
(* for every template the seed tool can write.                             *)
(*                                                                         *)
(* GInv describes the tree's shape: its key addresses hold only accounts   *)
(* (createAccountActor and createMultisigAccount set accounts at keys, the *)
(* multisigs and the builtin actors go to ID addresses), and every         *)
(* multisig's signers are keys with accounts.                              *)
(*                                                                         *)
(* GenesisSupply needs SupplyInv: the foundation's address is free until   *)
(* CreateFoundation (the sum would otherwise count the replaced actor), and *)
(* the tree is finite with natural balances.  The sums are handled by the   *)
(* lemmas of SumLemmas.                                                     *)
(***************************************************************************)
EXTENDS Genesis, SumLemmas, TLAPS

\* A tree whose key addresses hold accounts and whose multisigs' signers
\* are keys with actors.
TreeOK(t) ==
    /\ \A k \in DOMAIN t \cap Keys : t[k].code = "account"
    /\ \A a \in DOMAIN t : t[a].code = "multisig" =>
          /\ Range(t[a].signers) \subseteq Keys
          /\ \A s \in Range(t[a].signers) : s \in DOMAIN t /\ t[s].code = "account"

GInv ==
    /\ accounts \in Seq(Entry)
    /\ \A p \in 1..Len(accounts) :
          accounts[p].type = "account" => accounts[p].owner \in Keys
    /\ i \in Nat \ {0} /\ idNext \in Nat
    /\ sp \in 1..4
    /\ gpc \in {"template", "accounts"} => sp = 1
    /\ gpc = "specials" => sp \in 1..3
    /\ TreeOK(tree)

\* The elements of a sequence of S are in S.
LEMMA SeqElements ==
    ASSUME NEW S, NEW s \in Seq(S)
    PROVE  \A r \in 1..Len(s) : s[r] \in S
OBVIOUS

\* createAccountActor keeps the tree's key addresses accounts.
LEMMA WithAccountOK ==
    ASSUME NEW t, TreeOK(t), NEW k \in Keys, NEW b
    PROVE  TreeOK(WithAccount(t, k, b))
BY DEF TreeOK, WithAccount

\* createMultisigAccount creates the signers' missing accounts before it
\* sets the multisig at its ID address.
LEMMA WithMultisigOK ==
    ASSUME NEW t, TreeOK(t), NEW ida \in Nat, NEW info,
           info.signers \in Seq(Keys)
    PROVE  TreeOK(WithMultisig(t, ida, info))
<1> DEFINE new == Range(info.signers) \ DOMAIN t
           t2  == [a \in DOMAIN t \cup new |->
                     IF a \in new THEN [code |-> "account", bal |-> 0,
                                        signers |-> <<>>, threshold |-> 0]
                                  ELSE t[a]]
<1>1. ida \notin Keys
  BY GenesisAssumption
<1>2. TreeOK(t2)
  BY DEF TreeOK, Range
<1>3. Range(info.signers) \subseteq DOMAIN t2 /\ Range(info.signers) \subseteq Keys
      /\ \A s \in Range(info.signers) : t2[s].code = "account"
  BY <1>2 DEF TreeOK, Range
<1>4. QED
  BY <1>1, <1>2, <1>3 DEF TreeOK, WithMultisig
-----------------------------------------------------------------------------
LEMMA InitGInv == GInit => GInv
BY GenesisAssumption DEF GInit, GInv, TreeOK

\* add-miner appends a key account per miner, owned by the miner's owner.
LEMMA AddMinerGInv ==
    ASSUME GInv, AddMiner
    PROVE  GInv'
<1>1. PICK file \in PresealFiles : \E order \in SetToSeqs(file) :
          IF AddMinerOrderOk(order)
            THEN /\ miners' = miners \o [p \in 1..Len(order) |-> order[p].id]
                 /\ accounts' = accounts \o
                      [p \in 1..Len(order) |-> KeyAccount(order[p].owner, MinerBalance)]
                 /\ UNCHANGED lostAdd
            ELSE /\ UNCHANGED <<miners, accounts>>
                 /\ lostAdd' = (lostAdd \/ NextMinerIds(file))
  BY DEF AddMiner
<1>2. PICK order \in SetToSeqs(file) :
          IF AddMinerOrderOk(order)
            THEN /\ miners' = miners \o [p \in 1..Len(order) |-> order[p].id]
                 /\ accounts' = accounts \o
                      [p \in 1..Len(order) |-> KeyAccount(order[p].owner, MinerBalance)]
                 /\ UNCHANGED lostAdd
            ELSE /\ UNCHANGED <<miners, accounts>>
                 /\ lostAdd' = (lostAdd \/ NextMinerIds(file))
  BY <1>1
<1>3. IsFiniteSet(file) /\ file \subseteq [id : Nat, owner : Keys]
  BY GenesisAssumption
<1>4. Cardinality(file) \in Nat
  BY <1>3, FS_CardinalityType
<1>5. order \in Seq(file) /\ Len(order) = Cardinality(file)
  BY <1>4 DEF SetToSeqs
<1> DEFINE added == [p \in 1..Len(order) |-> KeyAccount(order[p].owner, MinerBalance)]
<1>6. added \in Seq(Entry)
  <2>1. \A p \in 1..Len(order) : order[p].owner \in Keys
    BY <1>3, <1>5
  <2>2. \A k \in Keys : KeyAccount(k, MinerBalance) \in Entry
    BY GenesisAssumption DEF KeyAccount, Entry
  <2>3. Len(order) \in Nat
    BY <1>4, <1>5
  <2>4. QED
    BY <2>1, <2>2, <2>3
<1>7. \A p \in 1..Len(added) : added[p].type = "account" /\ added[p].owner \in Keys
  BY <1>3, <1>5 DEF KeyAccount
<1>8. CASE AddMinerOrderOk(order)
  <2>1. accounts' = accounts \o added
    BY <1>2, <1>8
  <2>2. accounts' \in Seq(Entry)
    BY <2>1, <1>6 DEF GInv
  <2>3. \A p \in 1..Len(accounts') :
          accounts'[p].type = "account" => accounts'[p].owner \in Keys
    <3>1. accounts \in Seq(Entry)
      BY DEF GInv
    <3>2. SUFFICES ASSUME NEW p \in 1..Len(accounts'),
                          accounts'[p].type = "account"
                   PROVE  accounts'[p].owner \in Keys
      OBVIOUS
    <3>3. CASE p <= Len(accounts)
      <4>1. accounts'[p] = accounts[p]
        BY <1>6, <2>1, <3>1, <3>3
      <4>2. QED
        BY <3>2, <3>3, <4>1 DEF GInv
    <3>4. CASE p > Len(accounts)
      <4>1. p - Len(accounts) \in 1..Len(added) /\ accounts'[p] = added[p - Len(accounts)]
        BY <1>6, <2>1, <3>1, <3>4
      <4>2. QED
        BY <1>7, <4>1
    <3>5. QED
      BY <3>1, <3>3, <3>4
  <2>4. QED
    BY <2>2, <2>3 DEF GInv, AddMiner
<1>9. CASE ~AddMinerOrderOk(order)
  BY <1>2, <1>9 DEF GInv, AddMiner
<1>10. QED
  BY <1>8, <1>9
\* add-msigs appends multisig entries, whose signers are the rows' keys.
LEMMA AddMsigsGInv ==
    ASSUME GInv, AddMsigs
    PROVE  GInv'
<1>1. PICK csv \in CsvFiles :
          IF \A r \in 1..Len(csv) : Len(csv[r].addrs) = csv[r].n
            THEN accounts' = accounts \o
                   [r \in 1..Len(csv) |->
                      [type |-> "multisig", owner |-> "none",
                       signers |-> csv[r].addrs, threshold |-> csv[r].m,
                       balance |-> csv[r].amount]]
            ELSE UNCHANGED accounts
  BY DEF AddMsigs
<1> DEFINE added == [r \in 1..Len(csv) |->
                      [type |-> "multisig", owner |-> "none",
                       signers |-> csv[r].addrs, threshold |-> csv[r].m,
                       balance |-> csv[r].amount]]
<1>2. csv \in Seq([addrs : Seq(Keys), n : Nat, m : Nat, amount : Nat])
  BY GenesisAssumption
<1>3. added \in Seq(Entry)
  <2>a. \A r \in 1..Len(csv) :
          csv[r] \in [addrs : Seq(Keys), n : Nat, m : Nat, amount : Nat]
    BY <1>2, SeqElements
  <2>0. \A r \in 1..Len(csv) :
          csv[r].addrs \in Seq(Keys) /\ csv[r].m \in Nat /\ csv[r].amount \in Nat
    BY <2>a
  <2>1. \A r \in 1..Len(csv) : added[r] \in Entry
    BY <2>0 DEF Entry
  <2>2. QED
    BY <1>2, <2>1
<1>4. CASE \A r \in 1..Len(csv) : Len(csv[r].addrs) = csv[r].n
  <2>1. accounts' = accounts \o added
    BY <1>1, <1>4
  <2>2. accounts \in Seq(Entry)
    BY DEF GInv
  <2>3. \A p \in 1..Len(accounts') :
          accounts'[p].type = "account" => accounts'[p].owner \in Keys
    <3>1. SUFFICES ASSUME NEW p \in 1..Len(accounts'),
                          accounts'[p].type = "account"
                   PROVE  accounts'[p].owner \in Keys
      OBVIOUS
    <3>2. CASE p <= Len(accounts)
      <4>1. accounts'[p] = accounts[p]
        BY <1>3, <2>1, <2>2, <3>2
      <4>2. QED
        BY <3>1, <3>2, <4>1 DEF GInv
    <3>3. CASE p > Len(accounts)
      <4>1. p - Len(accounts) \in 1..Len(added) /\ accounts'[p] = added[p - Len(accounts)]
        BY <1>3, <2>1, <2>2, <3>3
      <4>2. QED
        BY <3>1, <4>1
    <3>4. QED
      BY <2>2, <3>2, <3>3
  <2>4. QED
    BY <1>3, <2>1, <2>2, <2>3 DEF GInv, AddMsigs
<1>5. CASE ~\A r \in 1..Len(csv) : Len(csv[r].addrs) = csv[r].n
  BY <1>1, <1>5 DEF GInv, AddMsigs
<1>6. QED
  BY <1>4, <1>5

\* The tree starts with the builtin actors at an ID address.
LEMMA StartBuildGInv ==
    ASSUME GInv, StartBuild
    PROVE  GInv'
<1>1. Builtin \notin Keys
  BY GenesisAssumption DEF Builtin
<1>2. QED
  BY <1>1 DEF GInv, StartBuild, TreeOK

\* A key account is set at its owner's key.
LEMMA CreateAccountGInv ==
    ASSUME GInv, CreateAccount
    PROVE  GInv'
<1>1. i \in 1..Len(accounts) /\ accounts[i].owner \in Keys
  BY DEF GInv, CreateAccount
<1>2. TreeOK(tree')
  BY <1>1, WithAccountOK DEF GInv, CreateAccount
<1>3. QED
  BY <1>2 DEF GInv, CreateAccount

\* A multisig entry is set at the next multisig ID.
LEMMA CreateMsigGInv ==
    ASSUME GInv, CreateMsig
    PROVE  GInv'
<1>1. i \in 1..Len(accounts) /\ accounts \in Seq(Entry)
  BY DEF GInv, CreateMsig
<1>2. accounts[i].signers \in Seq(Keys)
  <2>1. accounts[i] \in Entry
    BY <1>1
  <2>2. QED
    BY <2>1 DEF Entry
<1>3. TreeOK(tree')
  BY <1>2, WithMultisigOK DEF GInv, CreateMsig
<1>4. QED
  BY <1>3 DEF GInv, CreateMsig

LEMMA AccountsDoneGInv ==
    ASSUME GInv, AccountsDone
    PROVE  GInv'
BY DEF GInv, AccountsDone

\* The governor, fundraising and team multisigs, at their fixed IDs.
LEMMA CreateSpecialGInv ==
    ASSUME GInv, CreateSpecial
    PROVE  GInv'
<1> DEFINE name == SpecialOrder[sp]
<1>1. sp \in 1..3 /\ name \in {"governor", "fundraising", "team"}
  BY DEF GInv, CreateSpecial, SpecialOrder
<1>2. Special[name].signers \in Seq(Keys) /\ SpecialAddr[name] \in Nat
  <2>1. Special[name] \in MsigInfo
    BY <1>1, GenesisAssumption DEF SpecialNames
  <2>2. SpecialAddr[name] \in Nat
    BY <1>1 DEF SpecialAddr
  <2>3. QED
    BY <2>1, <2>2 DEF MsigInfo
<1>3. CASE Special[name].type = "multisig"
  <2>1. TreeOK(tree')
    BY <1>2, <1>3, WithMultisigOK DEF GInv, CreateSpecial
  <2>2. sp' \in 1..4 /\ (gpc' = "specials" => sp' \in 1..3)
    BY <1>1, <1>3 DEF CreateSpecial, SpecialOrder
  <2>3. QED
    BY <1>3, <2>1, <2>2 DEF GInv, CreateSpecial
<1>4. CASE Special[name].type # "multisig"
  BY <1>4 DEF GInv, CreateSpecial
<1>5. QED
  BY <1>3, <1>4

\* The foundation's multisig, at its fixed ID, or an error.
LEMMA CreateFoundationGInv ==
    ASSUME GInv, CreateFoundation
    PROVE  GInv'
<1> DEFINE rest == TotalEpk - Allocated(tree)
           info == [Special["foundation"] EXCEPT !.balance = rest]
<1>1. info.signers \in Seq(Keys) /\ SpecialAddr["foundation"] \in Nat
  BY GenesisAssumption DEF MsigInfo, SpecialNames, SpecialAddr
<1>2. CASE rest < 0 \/ Special["foundation"].type # "multisig"
  BY <1>2 DEF GInv, CreateFoundation
<1>3. CASE ~(rest < 0 \/ Special["foundation"].type # "multisig")
  <2>1. tree' = WithMultisig(tree, SpecialAddr["foundation"], info)
    BY <1>3 DEF CreateFoundation
  <2>2. TreeOK(tree')
    BY <1>1, <2>1, WithMultisigOK DEF GInv
  <2>3. QED
    BY <1>3, <2>2 DEF GInv, CreateFoundation
<1>4. QED
  BY <1>2, <1>3

LEMMA GNextGInv ==
    ASSUME GInv, [GNext]_gvars
    PROVE  GInv'
<1>1. CASE UNCHANGED gvars
  BY <1>1 DEF GInv, TreeOK, gvars
<1>2. QED
  BY <1>1, AddMinerGInv, AddMsigsGInv, StartBuildGInv, CreateAccountGInv,
     CreateMsigGInv, AccountsDoneGInv, CreateSpecialGInv, CreateFoundationGInv
     DEF GNext

THEOREM GInvInvariant == GSpec => []GInv
BY InitGInv, GNextGInv, PTL DEF GSpec

-----------------------------------------------------------------------------
(* The supply.  The foundation is given TotalEpk less what ForEach finds    *)
(* allocated; that makes the finished tree's balances add up to TotalEpk    *)
(* only if the foundation's address is still free when it is set (the      *)
(* multisigs of the template take IDs from IdStart on, the other specials   *)
(* 1 to 3, the signers' new accounts keys), if the signers' new accounts    *)
(* hold nothing, and if every balance is a natural (the tree is finite, so  *)
(* ForEach's sum is one).                                                   *)

\* The balances of a tree: finitely many actors, each with a natural one.
TreeBalances(t) ==
    /\ IsFiniteSet(DOMAIN t)
    /\ \A a \in DOMAIN t : t[a].bal \in Nat

\* What the supply needs besides GInv: the template is edited only before
\* the build (i = 1 then), multisig IDs stay from IdStart on, the tree's
\* balances are naturals, and the foundation's address is free until it is
\* set, after which the balances add up to TotalEpk.
SupplyRest ==
    /\ miners \in Seq(Nat) /\ edits \in 0..MaxEdits
    /\ gpc \in {"template", "accounts", "specials", "foundation", "done", "err"}
    /\ i \in 1..Len(accounts) + 1
    /\ gpc = "template" => i = 1
    /\ idNext >= IdStart
    /\ TreeBalances(tree)
    /\ gpc # "done" => SpecialAddr["foundation"] \notin DOMAIN tree
    /\ gpc = "done" => Allocated(tree) = TotalEpk

SupplyInv == GInv /\ SupplyRest /\ lostAdd \in BOOLEAN

\* The signers of a multisig are finitely many.
LEMMA RangeFinite ==
    ASSUME NEW X, NEW s \in Seq(X)
    PROVE  IsFiniteSet(Range(s))
<1> DEFINE P == {n \in Nat : n <= Len(s) => IsFiniteSet({s[x] : x \in 1..n})}
<1>1. 0 \in P
  <2>1. {s[x] : x \in 1..0} = {}
    OBVIOUS
  <2>2. QED
    BY <2>1, FS_EmptySet
<1>2. ASSUME NEW n \in P PROVE n + 1 \in P
  <2> SUFFICES ASSUME n + 1 <= Len(s) PROVE IsFiniteSet({s[x] : x \in 1..n+1})
    OBVIOUS
  <2>1. IsFiniteSet({s[x] : x \in 1..n})
    OBVIOUS
  <2>2. {s[x] : x \in 1..n+1} = {s[x] : x \in 1..n} \cup {s[n+1]}
    OBVIOUS
  <2>3. IsFiniteSet({s[x] : x \in 1..n} \cup {s[n+1]})
    BY <2>1, FS_AddElement
  <2>4. QED
    BY <2>2, <2>3
<1>3. Nat \subseteq P
  BY <1>1, <1>2, NatSetInduction
<1>7. Len(s) \in Nat
  OBVIOUS
<1>4. IsFiniteSet({s[x] : x \in 1..Len(s)})
  BY <1>3, <1>7
<1>5. Range(s) = {s[x] : x \in 1..Len(s)}
  BY DEF Range
<1>6. QED
  BY <1>4, <1>5

\* createAccountActor adds at most one actor, with a natural balance.
LEMMA WithAccountBal ==
    ASSUME NEW t, TreeBalances(t), NEW k, NEW b \in Nat
    PROVE  /\ TreeBalances(WithAccount(t, k, b))
           /\ DOMAIN WithAccount(t, k, b) = DOMAIN t \cup {k}
BY FS_AddElement DEF TreeBalances, WithAccount

\* createMultisigAccount adds the signers' accounts and the multisig.
LEMMA WithMultisigBal ==
    ASSUME NEW t, TreeBalances(t), NEW ida, NEW info,
           info.signers \in Seq(Keys), info.balance \in Nat
    PROVE  /\ TreeBalances(WithMultisig(t, ida, info))
           /\ DOMAIN WithMultisig(t, ida, info)
                = DOMAIN t \cup Range(info.signers) \cup {ida}
<1>1. IsFiniteSet(Range(info.signers))
  BY RangeFinite
<1>2. IsFiniteSet(DOMAIN t \cup Range(info.signers))
  BY <1>1, FS_Union DEF TreeBalances
<1>3. IsFiniteSet(DOMAIN t \cup Range(info.signers) \cup {ida})
  BY <1>2, FS_AddElement
<1>4. DOMAIN WithMultisig(t, ida, info) = DOMAIN t \cup Range(info.signers) \cup {ida}
  BY DEF WithMultisig
<1>5. \A a \in DOMAIN WithMultisig(t, ida, info) : WithMultisig(t, ida, info)[a].bal \in Nat
  BY DEF WithMultisig, TreeBalances
<1>6. QED
  BY <1>3, <1>4, <1>5 DEF TreeBalances

\* Setting a multisig at a free ID address adds its balance to what
\* ForEach finds, and nothing else: the signers' new accounts hold 0.
LEMMA WithMultisigAllocated ==
    ASSUME NEW t, TreeBalances(t), NEW ida \in Nat, ida \notin DOMAIN t,
           NEW info, info.signers \in Seq(Keys), info.balance \in Nat
    PROVE  Allocated(WithMultisig(t, ida, info)) = Allocated(t) + info.balance
<1> DEFINE t3 == WithMultisig(t, ida, info)
           D  == DOMAIN t
           R  == Range(info.signers)
           D3 == D \cup R \cup {ida}
           g3 == [a \in D3 |-> t3[a].bal]
           f  == [a \in D |-> t[a].bal]
<1>1. TreeBalances(t3) /\ DOMAIN t3 = D3
  BY WithMultisigBal
<1>2. Allocated(t3) = SumFunctionOnSet(g3, D3)
  BY <1>1 DEF Allocated, SumFunction
<1>3. Allocated(t) = SumFunctionOnSet(f, D)
  BY DEF Allocated, SumFunction
<1>4. ida \notin R
  <2>1. ida \notin Keys
    BY GenesisAssumption
  <2>2. R \subseteq Keys
    BY DEF Range
  <2>3. QED
    BY <2>1, <2>2
<1>5. \A a \in D3 : g3[a] \in Int
  BY <1>1 DEF TreeBalances
<1>6. IsFiniteSet(D3) /\ IsFiniteSet(D \cup R) /\ IsFiniteSet(D)
  BY <1>1, FS_Subset DEF TreeBalances
<1> HIDE DEF t3, D, R, D3, g3, f
<1>7. SumFunctionOnSet(g3, D3) = g3[ida] + SumFunctionOnSet(g3, D3 \ {ida})
  <2>1. ida \in D3
    BY DEF D3
  <2>2. QED
    BY <1>5, <1>6, <2>1, SumRemove
<1>8. D3 \ {ida} = D \cup R
  BY <1>4 DEF D3, D
<1>9. g3[ida] = info.balance
  BY DEF WithMultisig, g3, t3, D3
<1>10. \A a \in (D \cup R) \ D : g3[a] = 0
  BY <1>4 DEF WithMultisig, g3, t3, D3, D, R
<1>11. SumFunctionOnSet(g3, D \cup R) = SumFunctionOnSet(g3, D)
  <2>1. \A a \in D \cup R : g3[a] \in Int
    BY <1>5 DEF D3
  <2>2. D \subseteq D \cup R
    OBVIOUS
  <2>3. QED
    BY <1>6, <1>10, <2>1, <2>2, SumDropZeros
<1>12. \A a \in D : g3[a] = f[a]
  BY <1>4 DEF WithMultisig, g3, t3, D3, D, R, f
<1>13. SumFunctionOnSet(g3, D) = SumFunctionOnSet(f, D)
  BY <1>6, <1>12, SumAgree
<1>14. SumFunctionOnSet(f, D) \in Int
  <2>1. \A a \in D : f[a] \in Int
    BY DEF TreeBalances, f, D
  <2>2. QED
    BY <1>6, <2>1, SumType
<1>15. SumFunctionOnSet(g3, D3 \ {ida}) = SumFunctionOnSet(f, D)
  BY <1>8, <1>11, <1>13
<1>16. Allocated(t3) = info.balance + Allocated(t)
  BY <1>2, <1>3, <1>7, <1>9, <1>15
<1>17. QED
  BY <1>3, <1>14, <1>16 DEF t3

\* ForEach's sum over a tree of natural balances is a natural.
LEMMA AllocatedNat ==
    ASSUME NEW t, TreeBalances(t)
    PROVE  Allocated(t) \in Nat
<1>1. \A a \in DOMAIN t : [b \in DOMAIN t |-> t[b].bal][a] \in Nat
  BY DEF TreeBalances
<1>2. QED
  BY <1>1, SumType DEF Allocated, SumFunction, TreeBalances

\* The fixed IDs: the foundation's is none of the other specials', and
\* below the template's multisig IDs; no key is an ID.
LEMMA FoundationAddrFree ==
    /\ SpecialAddr["foundation"] = 4
    /\ \A n \in {"governor", "fundraising", "team"} :
          SpecialAddr[n] \in Nat /\ SpecialAddr[n] # 4
    /\ 4 \notin Keys /\ Builtin # 4
BY GenesisAssumption DEF SpecialAddr, Builtin

LEMMA InitSupply == GInit => SupplyInv
<1> SUFFICES ASSUME GInit PROVE SupplyInv
  OBVIOUS
<1>1. TreeBalances(tree)
  BY FS_EmptySet DEF GInit, TreeBalances
<1>2. SupplyRest
  BY <1>1, GenesisAssumption DEF GInit, SupplyRest
<1>3. lostAdd \in BOOLEAN
  BY Zenon DEF GInit
<1>4. QED
  BY <1>2, <1>3, InitGInv, Zenon DEF SupplyInv

\* The seed tool edits the template only: the miner ids it appends are
\* the preseal files' ids, and the build has not started.
LEMMA AddMinerSupply ==
    ASSUME GInv, SupplyRest, AddMiner
    PROVE  SupplyRest'
<1>1. \E file \in PresealFiles : \E order \in SetToSeqs(file) :
         \/ miners' = miners \o [p \in 1..Len(order) |-> order[p].id]
         \/ miners' = miners
  BY DEF AddMiner
<1>2. PICK file \in PresealFiles : \E order \in SetToSeqs(file) :
         \/ miners' = miners \o [p \in 1..Len(order) |-> order[p].id]
         \/ miners' = miners
  BY <1>1
<1>3. PICK order \in SetToSeqs(file) :
         \/ miners' = miners \o [p \in 1..Len(order) |-> order[p].id]
         \/ miners' = miners
  BY <1>2
<1>4. IsFiniteSet(file) /\ file \subseteq [id : Nat, owner : Keys]
  BY GenesisAssumption
<1>5. order \in Seq(file)
  BY <1>4, FS_CardinalityType DEF SetToSeqs
<1>6. [p \in 1..Len(order) |-> order[p].id] \in Seq(Nat)
  BY <1>4, <1>5
<1>7. miners' \in Seq(Nat)
  <2>1. miners \in Seq(Nat)
    BY DEF SupplyRest
  <2>2. CASE miners' = miners \o [p \in 1..Len(order) |-> order[p].id]
    BY <1>6, <2>1, <2>2
  <2>3. QED
    BY <1>3, <2>1, <2>2
<1>8. accounts' \in Seq(Entry)
  BY AddMinerGInv DEF GInv
<1>9. edits' \in 0..MaxEdits /\ UNCHANGED <<gpc, i, idNext, tree>>
      /\ gpc = "template"
  BY GenesisAssumption DEF SupplyRest, AddMiner
<1>10. QED
  BY <1>7, <1>8, <1>9 DEF SupplyRest, TreeBalances, Allocated

LEMMA AddMsigsSupply ==
    ASSUME GInv, SupplyRest, AddMsigs
    PROVE  SupplyRest'
<1>1. accounts' \in Seq(Entry)
  BY AddMsigsGInv DEF GInv
<1>2. edits' \in 0..MaxEdits /\ UNCHANGED <<miners, gpc, i, idNext, tree>>
      /\ gpc = "template"
  BY GenesisAssumption DEF SupplyRest, AddMsigs
<1>3. QED
  BY <1>1, <1>2 DEF SupplyRest, TreeBalances, Allocated

\* The tree starts with the builtin actors alone, at ID 0.
LEMMA StartBuildSupply ==
    ASSUME GInv, SupplyRest, StartBuild
    PROVE  SupplyRest'
<1>1. DOMAIN tree' = {Builtin} /\ tree'[Builtin].bal = BuiltinBalance
  BY DEF StartBuild
<1>2. TreeBalances(tree')
  <2>1. IsFiniteSet({Builtin})
    BY FS_Singleton
  <2>2. QED
    BY <1>1, <2>1, GenesisAssumption DEF TreeBalances
<1>3. QED
  BY <1>1, <1>2, FoundationAddrFree DEF SupplyRest, StartBuild

\* A key account goes to its owner's key, never to an ID address.
LEMMA CreateAccountSupply ==
    ASSUME GInv, SupplyRest, CreateAccount
    PROVE  SupplyRest'
<1>1. i \in 1..Len(accounts) /\ accounts \in Seq(Entry)
  BY DEF GInv, CreateAccount
<1>2. accounts[i].owner \in Keys /\ accounts[i].balance \in Nat
  <2>1. accounts[i] \in Entry
    BY <1>1
  <2>2. accounts[i].balance \in Nat
    BY <2>1 DEF Entry
  <2>3. QED
    BY <1>1, <2>2 DEF GInv, CreateAccount
<1>3. TreeBalances(tree')
      /\ DOMAIN tree' = DOMAIN tree \cup {accounts[i].owner}
  BY <1>2, WithAccountBal DEF SupplyRest, CreateAccount
<1>4. SpecialAddr["foundation"] \notin DOMAIN tree'
  BY <1>2, <1>3, FoundationAddrFree DEF SupplyRest, CreateAccount
<1>5. QED
  BY <1>1, <1>3, <1>4 DEF SupplyRest, CreateAccount

\* A template multisig takes an ID from IdStart on, above the foundation's.
LEMMA CreateMsigSupply ==
    ASSUME GInv, SupplyRest, CreateMsig
    PROVE  SupplyRest'
<1>1. i \in 1..Len(accounts) /\ accounts \in Seq(Entry)
  BY DEF GInv, CreateMsig
<1>2. accounts[i].signers \in Seq(Keys) /\ accounts[i].balance \in Nat
  <2>1. accounts[i] \in Entry
    BY <1>1
  <2>2. QED
    BY <2>1 DEF Entry
<1>3. TreeBalances(tree')
      /\ DOMAIN tree' = DOMAIN tree \cup Range(accounts[i].signers) \cup {idNext}
  BY <1>2, WithMultisigBal DEF SupplyRest, CreateMsig
<1>4. idNext # 4 /\ Range(accounts[i].signers) \subseteq Keys
  BY <1>2, GenesisAssumption DEF SupplyRest, GInv, Range
<1>5. SpecialAddr["foundation"] \notin DOMAIN tree'
  BY <1>3, <1>4, FoundationAddrFree DEF SupplyRest, CreateMsig
<1>6. idNext' >= IdStart /\ i' \in 1..Len(accounts') + 1
  <2>1. idNext \in Nat /\ idNext >= IdStart /\ idNext' = idNext + 1
    BY DEF SupplyRest, GInv, CreateMsig
  <2>2. i' = i + 1 /\ accounts' = accounts
    BY DEF CreateMsig
  <2>3. QED
    BY <1>1, <2>1, <2>2, GenesisAssumption
<1>7. QED
  BY <1>3, <1>5, <1>6 DEF SupplyRest, CreateMsig

LEMMA AccountsDoneSupply ==
    ASSUME GInv, SupplyRest, AccountsDone
    PROVE  SupplyRest'
BY DEF SupplyRest, AccountsDone, TreeBalances, Allocated

\* The governor, fundraising and team multisigs take IDs 1 to 3.
LEMMA CreateSpecialSupply ==
    ASSUME GInv, SupplyRest, CreateSpecial
    PROVE  SupplyRest'
<1> DEFINE name == SpecialOrder[sp]
<1>1. name \in {"governor", "fundraising", "team"}
  BY DEF GInv, CreateSpecial, SpecialOrder
<1>2. Special[name].signers \in Seq(Keys) /\ Special[name].balance \in Nat
  BY <1>1, GenesisAssumption DEF MsigInfo, SpecialNames
<1>3. CASE Special[name].type = "multisig"
  <2>1. tree' = WithMultisig(tree, SpecialAddr[name], Special[name])
        /\ gpc' \in {"specials", "foundation"}
    BY <1>3 DEF CreateSpecial
  <2>2. TreeBalances(tree')
        /\ DOMAIN tree' = DOMAIN tree \cup Range(Special[name].signers)
                            \cup {SpecialAddr[name]}
    BY <1>2, <2>1, WithMultisigBal DEF SupplyRest
  <2>3. Range(Special[name].signers) \subseteq Keys
    BY <1>2 DEF Range
  <2>4. SpecialAddr["foundation"] \notin DOMAIN tree'
    BY <1>1, <2>1, <2>2, <2>3, FoundationAddrFree DEF SupplyRest, CreateSpecial
  <2>5. QED
    BY <2>1, <2>2, <2>4 DEF SupplyRest, CreateSpecial
<1>4. CASE Special[name].type # "multisig"
  BY <1>4 DEF SupplyRest, CreateSpecial, TreeBalances, Allocated
<1>5. QED
  BY <1>3, <1>4

\* The foundation gets TotalEpk less what ForEach found, at its free
\* address: the finished tree's balances add up to TotalEpk.
LEMMA CreateFoundationSupply ==
    ASSUME GInv, SupplyRest, CreateFoundation
    PROVE  SupplyRest'
<1> DEFINE rest == TotalEpk - Allocated(tree)
           info == [Special["foundation"] EXCEPT !.balance = rest]
<1>1. Allocated(tree) \in Nat
  BY AllocatedNat DEF SupplyRest
<1>2. CASE rest < 0 \/ Special["foundation"].type # "multisig"
  BY <1>2 DEF SupplyRest, CreateFoundation, TreeBalances, Allocated
<1>3. CASE ~(rest < 0 \/ Special["foundation"].type # "multisig")
  <2>1. tree' = WithMultisig(tree, SpecialAddr["foundation"], info)
        /\ gpc' = "done"
    BY <1>3 DEF CreateFoundation
  <2>0. Special["foundation"] \in MsigInfo
    BY GenesisAssumption DEF SpecialNames
  <2>a. info.signers = Special["foundation"].signers /\ info.balance = rest
    BY <2>0 DEF MsigInfo
  <2>b. Special["foundation"].signers \in Seq(Keys)
    BY <2>0 DEF MsigInfo
  <2>c. rest \in Nat
    BY <1>1, <1>3, GenesisAssumption
  <2>2. info.signers \in Seq(Keys) /\ info.balance = rest /\ rest \in Nat
    BY <2>a, <2>b, <2>c
  <2> HIDE DEF info, rest
  <2>3. SpecialAddr["foundation"] \in Nat
        /\ SpecialAddr["foundation"] \notin DOMAIN tree
    BY FoundationAddrFree DEF SupplyRest, CreateFoundation
  <2>4. TreeBalances(tree')
    BY <2>1, <2>2, WithMultisigBal DEF SupplyRest
  <2>5. Allocated(tree') = Allocated(tree) + rest
    BY <2>1, <2>2, <2>3, WithMultisigAllocated DEF SupplyRest
  <2>6. Allocated(tree') = TotalEpk
    BY <1>1, <2>5, GenesisAssumption DEF rest
  <2>7. QED
    BY <2>1, <2>4, <2>6 DEF SupplyRest, CreateFoundation
<1>4. QED
  BY <1>2, <1>3

\* add-miner's lost-file flag stays a Boolean.
LEMMA LostAddBool ==
    ASSUME lostAdd \in BOOLEAN, [GNext]_gvars
    PROVE  lostAdd' \in BOOLEAN
BY Zenon DEF GNext, gvars, AddMiner, AddMsigs, StartBuild, CreateAccount,
   CreateMsig, AccountsDone, CreateSpecial, CreateFoundation

LEMMA GNextSupply ==
    ASSUME SupplyInv, [GNext]_gvars
    PROVE  SupplyInv'
<1>1. GInv /\ SupplyRest /\ lostAdd \in BOOLEAN
  BY Zenon DEF SupplyInv
<1>2. GInv'
  BY <1>1, GNextGInv
<1>3. SupplyRest'
  <2>1. CASE UNCHANGED gvars
    BY <1>1, <2>1 DEF SupplyRest, gvars, TreeBalances, Allocated
  <2>2. QED
    BY <1>1, <2>1, AddMinerSupply, AddMsigsSupply, StartBuildSupply,
       CreateAccountSupply, CreateMsigSupply, AccountsDoneSupply,
       CreateSpecialSupply, CreateFoundationSupply DEF GNext
<1>4. lostAdd' \in BOOLEAN
  BY <1>1, LostAddBool
<1>5. QED
  BY <1>2, <1>3, <1>4, Zenon DEF SupplyInv

THEOREM SupplyInvariant == GSpec => []SupplyInv
BY InitSupply, GNextSupply, PTL DEF GSpec

\* The genesis supply is TotalEpk, for every template the seed tool writes
\* and every total (the run genesis_supply checks it on three keys):
\* MakeInitialStateTree gives the foundation TotalEpk less the sum ForEach
\* finds, at an address nothing took before, and the signers' accounts it
\* creates along the way hold nothing.
THEOREM GenesisSupplyInvariant == GSpec => []GenesisSupply
<1>1. SupplyInv => GenesisSupply
  BY DEF SupplyInv, SupplyRest, GenesisSupply
<1>2. QED
  BY <1>1, SupplyInvariant, PTL

\* Every state of the seed tool and of MakeInitialStateTree is well typed:
\* in particular every balance of the tree is a natural, the foundation's
\* included, since an over-allocation fails genesis before the foundation
\* is set (the run genesis_supply checks it).
THEOREM GenesisTypeCorrect == GSpec => []GenesisTypeOK
<1>1. SupplyInv => GenesisTypeOK
  <2> SUFFICES ASSUME SupplyInv PROVE GenesisTypeOK
    OBVIOUS
  <2>1. GInv /\ SupplyRest /\ lostAdd \in BOOLEAN
    BY Zenon DEF SupplyInv
  <2>2. /\ accounts \in Seq(Entry) /\ miners \in Seq(Nat)
        /\ edits \in 0..MaxEdits
        /\ gpc \in {"template", "accounts", "specials", "foundation", "done", "err"}
        /\ i \in 1..Len(accounts) + 1 /\ sp \in 1..Len(SpecialOrder) + 1
        /\ idNext \in Nat
        /\ \A a \in DOMAIN tree : tree[a].bal \in Nat
    BY <2>1 DEF GInv, SupplyRest, TreeBalances, SpecialOrder
  <2>3. QED
    BY <2>1, <2>2, Zenon DEF GenesisTypeOK
<1>2. QED
  BY <1>1, SupplyInvariant, PTL
=============================================================================

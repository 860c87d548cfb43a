------------------------------- MODULE Genesis -------------------------------
(***************************************************************************)
(* The genesis allocation: the template the seed tool edits               *)
(* (cmd/epik-seed/genesis.go, add-miner and add-msigs) and the initial     *)
(* state tree MakeInitialStateTree builds from it                          *)
(* (chain/gen/genesis/genesis.go).                                          *)
(*                                                                         *)
(* The template is a list of account entries (a key account with an owner, *)
(* or a multisig with signers and a threshold) and a list of miner ids; the *)
(* special multisigs (governor, fundraising, team, foundation) are         *)
(* constants, as gen_actors.go defines them.  The state tree maps actor   *)
(* addresses to actors.  A key's account lives at the ID address the init *)
(* actor registered for it (SetupInitActor, not in this tree, assigns one  *)
(* distinct ID per key), so a key stands for its ID address; multisigs of  *)
(* the template take the IDs after the keys', in order.  The builtin      *)
(* actors created before the accounts are one actor holding their          *)
(* balances.  Encoding, the HAMT and the block header are left out.        *)
(***************************************************************************)
EXTENDS Integers, SequencesExt

CONSTANTS
    Keys,          \* account keys
    PresealFiles,  \* preseal files add-miner may read: sets of [id, owner]
    CsvFiles,      \* multisig CSV files add-msigs may read: sequences of rows
    MinerStart,    \* genesis2.MinerStart
    MinerBalance,  \* what add-miner gives each miner's owner (2002 EPK)
    Special,       \* name -> the template's special multisig
    BuiltinBalance,\* the balances of the builtin actors (reward, ...)
    TotalEpk,      \* EpkBase * EpkPrecision
    IdStart,       \* the first ID after the keys' (from SetupInitActor)
    MaxEdits       \* seed-tool commands run on the template

SpecialNames == {"governor", "fundraising", "team", "foundation"}

\* The order MakeInitialStateTree creates the special multisigs in, before
\* the foundation's.
SpecialOrder == <<"governor", "fundraising", "team">>

\* A multisig of a template: its signers' keys, threshold and balance.
MsigInfo == [type : {"multisig", "account"}, signers : Seq(Keys),
             threshold : Nat, balance : Nat]

ASSUME GenesisAssumption ==
    /\ \A f \in PresealFiles :
          IsFiniteSet(f) /\ f \subseteq [id : Nat, owner : Keys]
    /\ \A c \in CsvFiles :
          c \in Seq([addrs : Seq(Keys), n : Nat, m : Nat, amount : Nat])
    /\ MinerStart \in Nat /\ MinerBalance \in Nat
    /\ Special \in [SpecialNames -> MsigInfo]
    /\ BuiltinBalance \in Nat /\ TotalEpk \in Nat /\ MaxEdits \in Nat
    /\ IdStart \in Nat /\ IdStart > 4
    \* keys' IDs come before idStart and differ from the fixed IDs
    /\ Keys \cap Nat = {}

\* Template account entries.  A key account has an owner and no signers.
Entry == [type : {"account", "multisig"}, owner : Keys \cup {"none"},
          signers : Seq(Keys), threshold : Nat, balance : Nat]

KeyAccount(k, b) ==
    [type |-> "account", owner |-> k, signers |-> <<>>, threshold |-> 0,
     balance |-> b]

\* Actor addresses: keys (their ID addresses), the template's multisig IDs
\* from IdStart on, and the fixed IDs of the builtin actors and of the
\* special multisigs.
Builtin == 0
SpecialAddr == [governor |-> 1, fundraising |-> 2, team |-> 3, foundation |-> 4]

VARIABLES
    accounts,  \* template.Accounts
    miners,    \* the ids of template.Miners
    edits,     \* seed-tool commands run so far
    lostAdd,   \* ghost: add-miner rejected a file of the next miner ids
    gpc,       \* "template", then MakeInitialStateTree: "accounts",
               \* "specials", "foundation", "done" or "err"
    i,         \* the accounts loop's index
    sp,        \* the index into SpecialOrder
    idNext,    \* idStart: the next multisig ID
    tree       \* the state tree: address -> actor

gvars == <<accounts, miners, edits, lostAdd, gpc, i, sp, idNext, tree>>

-----------------------------------------------------------------------------
(* The seed tool.                                                          *)

\* add-miner walks the preseal map in Go's map order: the miner at position
\* p of that order must have the id after the p-1 miners added before it.
\* The template is written only after the loop, so an error changes nothing.
AddMinerOrderOk(order) ==
    \A p \in 1..Len(order) : order[p].id = MinerStart + Len(miners) + p

\* A preseal file of the next ids, one miner each (in some order).
NextMinerIds(file) ==
    \E order \in SetToSeqs(file) : AddMinerOrderOk(order)

AddMiner ==
    /\ gpc = "template" /\ edits < MaxEdits
    /\ edits' = edits + 1
    /\ \E file \in PresealFiles : \E order \in SetToSeqs(file) :
          IF AddMinerOrderOk(order)
            THEN /\ miners' = miners \o [p \in 1..Len(order) |-> order[p].id]
                 /\ accounts' = accounts \o
                      [p \in 1..Len(order) |-> KeyAccount(order[p].owner, MinerBalance)]
                 /\ UNCHANGED lostAdd
            ELSE /\ UNCHANGED <<miners, accounts>>
                 /\ lostAdd' = (lostAdd \/ NextMinerIds(file))
    /\ UNCHANGED <<gpc, i, sp, idNext, tree>>

\* add-msigs appends one multisig entry per row, its threshold the row's M;
\* a row whose N is not its number of addresses fails the command.
AddMsigs ==
    /\ gpc = "template" /\ edits < MaxEdits
    /\ edits' = edits + 1
    /\ \E csv \in CsvFiles :
          IF \A r \in 1..Len(csv) : Len(csv[r].addrs) = csv[r].n
            THEN accounts' = accounts \o
                   [r \in 1..Len(csv) |->
                      [type |-> "multisig", owner |-> "none",
                       signers |-> csv[r].addrs, threshold |-> csv[r].m,
                       balance |-> csv[r].amount]]
            ELSE UNCHANGED accounts
    /\ UNCHANGED <<miners, lostAdd, gpc, i, sp, idNext, tree>>

-----------------------------------------------------------------------------
(* MakeInitialStateTree.                                                   *)

\* createMultisigAccount: each signer without an actor (GetActor of its
\* key fails) gets an account of balance 0, one that has an actor is kept;
\* every signer is listed, repeats included.  The multisig is then set at
\* ida with the template's balance.
WithMultisig(t, ida, info) ==
    LET new == Range(info.signers) \ DOMAIN t
        t2  == [a \in DOMAIN t \cup new |->
                  IF a \in new THEN [code |-> "account", bal |-> 0,
                                     signers |-> <<>>, threshold |-> 0]
                               ELSE t[a]]
    IN [a \in DOMAIN t2 \cup {ida} |->
          IF a = ida THEN [code |-> "multisig", bal |-> info.balance,
                           signers |-> info.signers,
                           threshold |-> info.threshold]
                     ELSE t2[a]]

\* SetActor of an account: whatever was at its address is replaced.
WithAccount(t, k, b) ==
    [a \in DOMAIN t \cup {k} |->
       IF a = k THEN [code |-> "account", bal |-> b, signers |-> <<>>,
                      threshold |-> 0]
                ELSE t[a]]

\* The sum of the balances ForEach visits.
Allocated(t) == SumFunction([a \in DOMAIN t |-> t[a].bal])

\* genesis car: MakeGenesis starts MakeInitialStateTree with the builtin
\* actors set; the init actor's idStart follows the keys' IDs.
StartBuild ==
    /\ gpc = "template"
    /\ gpc' = "accounts"
    /\ tree' = [a \in {Builtin} |->
                  [code |-> "builtin", bal |-> BuiltinBalance,
                   signers |-> <<>>, threshold |-> 0]]
    /\ UNCHANGED <<accounts, miners, edits, lostAdd, i, sp, idNext>>

\* The loop over template.Accounts: a key account is set at its key's ID.
CreateAccount ==
    /\ gpc = "accounts" /\ i <= Len(accounts)
    /\ accounts[i].type = "account"
    /\ tree' = WithAccount(tree, accounts[i].owner, accounts[i].balance)
    /\ i' = i + 1
    /\ UNCHANGED <<accounts, miners, edits, lostAdd, gpc, sp, idNext>>

\* A multisig entry takes the next ID (idStart++).
CreateMsig ==
    /\ gpc = "accounts" /\ i <= Len(accounts)
    /\ accounts[i].type = "multisig"
    /\ tree' = WithMultisig(tree, idNext, accounts[i])
    /\ idNext' = idNext + 1
    /\ i' = i + 1
    /\ UNCHANGED <<accounts, miners, edits, lostAdd, gpc, sp>>

AccountsDone ==
    /\ gpc = "accounts" /\ i > Len(accounts)
    /\ gpc' = "specials"
    /\ UNCHANGED <<accounts, miners, edits, lostAdd, i, sp, idNext, tree>>

\* The governor, fundraising and team multisigs at their fixed addresses;
\* an entry that is not a multisig fails genesis.
CreateSpecial ==
    /\ gpc = "specials"
    /\ LET name == SpecialOrder[sp] IN
       IF Special[name].type = "multisig"
         THEN /\ tree' = WithMultisig(tree, SpecialAddr[name], Special[name])
              /\ sp' = sp + 1
              /\ gpc' = IF sp = Len(SpecialOrder) THEN "foundation" ELSE "specials"
         ELSE /\ gpc' = "err"
              /\ UNCHANGED <<tree, sp>>
    /\ UNCHANGED <<accounts, miners, edits, lostAdd, i, idNext>>

\* Mutant: the tree is not flushed before ForEach, which then sees only
\* the builtin actors.
CreateFoundationNoFlush ==
    /\ gpc = "foundation"
    /\ LET rest == TotalEpk - BuiltinBalance IN
       IF rest < 0 \/ Special["foundation"].type # "multisig"
         THEN gpc' = "err" /\ UNCHANGED tree
         ELSE /\ tree' = WithMultisig(tree, SpecialAddr["foundation"],
                           [Special["foundation"] EXCEPT !.balance = rest])
              /\ gpc' = "done"
    /\ UNCHANGED <<accounts, miners, edits, lostAdd, i, sp, idNext>>

\* Mutant: an over-allocation is not caught, and the foundation is given
\* a negative balance.
CreateFoundationNoCheck ==
    /\ gpc = "foundation"
    /\ LET rest == TotalEpk - Allocated(tree) IN
       IF Special["foundation"].type # "multisig"
         THEN gpc' = "err" /\ UNCHANGED tree
         ELSE /\ tree' = WithMultisig(tree, SpecialAddr["foundation"],
                           [Special["foundation"] EXCEPT !.balance = rest])
              /\ gpc' = "done"
    /\ UNCHANGED <<accounts, miners, edits, lostAdd, i, sp, idNext>>

\* The tree is flushed and ForEach sums every balance; the foundation gets
\* what is left of TotalEpk, and an over-allocation fails genesis.
CreateFoundation ==
    /\ gpc = "foundation"
    /\ LET rest == TotalEpk - Allocated(tree) IN
       IF rest < 0 \/ Special["foundation"].type # "multisig"
         THEN gpc' = "err" /\ UNCHANGED tree
         ELSE /\ tree' = WithMultisig(tree, SpecialAddr["foundation"],
                           [Special["foundation"] EXCEPT !.balance = rest])
              /\ gpc' = "done"
    /\ UNCHANGED <<accounts, miners, edits, lostAdd, i, sp, idNext>>

GInit ==
    /\ accounts = <<>> /\ miners = <<>> /\ edits = 0 /\ lostAdd = FALSE
    /\ gpc = "template" /\ i = 1 /\ sp = 1 /\ idNext = IdStart
    /\ tree = <<>>

GNext ==
    \/ AddMiner \/ AddMsigs \/ StartBuild
    \/ CreateAccount \/ CreateMsig \/ AccountsDone \/ CreateSpecial
    \/ CreateFoundation

\* Genesis is one sequential run: every enabled step is taken.
GSpec == GInit /\ [][GNext]_gvars /\ WF_gvars(GNext)

-----------------------------------------------------------------------------
GenesisTypeOK ==
    /\ accounts \in Seq(Entry) /\ miners \in Seq(Nat)
    /\ edits \in 0..MaxEdits /\ lostAdd \in BOOLEAN
    /\ gpc \in {"template", "accounts", "specials", "foundation", "done", "err"}
    /\ i \in 1..Len(accounts) + 1 /\ sp \in 1..Len(SpecialOrder) + 1
    /\ idNext \in Nat
    /\ \A a \in DOMAIN tree : tree[a].bal \in Nat

\* The genesis supply is TotalEpk: the balances of the finished tree add up
\* to it, since the foundation is given exactly what ForEach did not find
\* allocated (the tree is flushed first so that ForEach sees every actor).
GenesisSupply ==
    gpc = "done" => Allocated(tree) = TotalEpk

\* add-miner logs "Giving <owner> some initial balance" for every miner: an
\* owner's account ends with the balances of all template entries naming
\* it.  SetActor replaces an earlier account of the same key, so the owner
\* of two miners gets one allowance and the foundation the other.
OwnersCredited ==
    gpc = "done" =>
      \A k \in {accounts[p].owner : p \in {q \in 1..Len(accounts) :
                                             accounts[q].type = "account"}} :
        tree[k].bal =
          SumFunction([p \in {q \in 1..Len(accounts) :
                                accounts[q].type = "account"
                                /\ accounts[q].owner = k} |->
                         accounts[p].balance])

\* Every multisig of the genesis tree is one its actor would accept: at
\* least one signer, no signer twice, and a threshold between 1 and the
\* number of signers.  createMultisigAccount writes the state directly, and
\* add-msigs checks only N against the addresses.
MultisigsWellFormed ==
    \A a \in DOMAIN tree : tree[a].code = "multisig" =>
        /\ IsInjective(tree[a].signers)
        /\ tree[a].threshold \in 1..Len(tree[a].signers)

\* add-miner accepts a preseal file holding the next miner ids, one miner
\* each.  It checks each miner against the next id while ranging over the
\* file's map, whose order Go randomises.
AddMinerAcceptsNextIds ==
    ~lostAdd

=============================================================================

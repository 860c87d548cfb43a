-------------------------- MODULE BlockstoreProofs --------------------------
(***************************************************************************)
(* Proofs about the buffered blockstore (Blockstore) for every set of      *)
(* cids and sizes.                                                         *)
(*                                                                         *)
(* HasTracksCalls is inductive as it stands, with the types: each write    *)
(* call adds the block to the buffer, or finds it in the base, before it   *)
(* reports it stored; DeleteBlock reports a block gone only after both     *)
(* stores' deletes returned; a failing call withdraws what the caller was  *)
(* told about its blocks; and a write to the base by another user only     *)
(* adds a block.                                                           *)
(***************************************************************************)
EXTENDS Blockstore, TLAPS

BSInv == BSTypeOK /\ HasTracksCalls

LEMMA InitBSInv == BSInit => BSInv
BY DEF BSInit, BSInv, BSTypeOK, HasTracksCalls, Has

LEMMA PutBSInv ==
    ASSUME BSInv, NEW c \in Cids, Put(c)
    PROVE  BSInv'
BY DEF BSInv, BSTypeOK, HasTracksCalls, Has, Put

LEMMA PutManyBSInv ==
    ASSUME BSInv, NEW S \in SUBSET Cids, PutMany(S)
    PROVE  BSInv'
BY DEF BSInv, BSTypeOK, HasTracksCalls, Has, PutMany

\* A block DeleteBlock reports gone is in neither store; one whose delete
\* failed is no longer reported stored, whichever store still holds it.
LEMMA DeleteBlockBSInv ==
    ASSUME BSInv, NEW c \in Cids, DeleteBlock(c)
    PROVE  BSInv'
BY DEF BSInv, BSTypeOK, HasTracksCalls, Has, DeleteBlock

LEMMA BaseWriteBSInv ==
    ASSUME BSInv, NEW c \in Cids, BaseWrite(c)
    PROVE  BSInv'
BY DEF BSInv, BSTypeOK, HasTracksCalls, Has, BaseWrite

LEMMA BSNextBSInv == BSInv /\ [BSNext]_bsvars => BSInv'
<1> SUFFICES ASSUME BSInv, [BSNext]_bsvars PROVE BSInv'
  OBVIOUS
<1>1. CASE \E c \in Cids : Put(c)
  BY <1>1, PutBSInv
<1>2. CASE \E c \in Cids : DeleteBlock(c)
  BY <1>2, DeleteBlockBSInv
<1>3. CASE \E c \in Cids : BaseWrite(c)
  BY <1>3, BaseWriteBSInv
<1>4. CASE \E S \in SUBSET Cids : S # {} /\ PutMany(S)
  BY <1>4, PutManyBSInv
<1>5. CASE UNCHANGED bsvars
  BY <1>5 DEF BSInv, BSTypeOK, HasTracksCalls, Has, bsvars
<1>6. QED
  BY <1>1, <1>2, <1>3, <1>4, <1>5 DEF BSNext

THEOREM BSInvInvariant == BSSpec => []BSInv
BY InitBSInv, BSNextBSInv, PTL DEF BSSpec

\* Has reflects the last successful write call on every block, for every
\* set of cids, with failing store calls and writes to the base by its
\* other users: a block Put or PutMany reported stored is found, whether it
\* went to the buffer or was already in the base, and a block DeleteBlock
\* reported gone is not, until it is written again (blockstore_calls checks
\* it on three cids).
THEOREM HasTracksCallsInvariant == BSSpec => []HasTracksCalls
BY BSInvInvariant, PTL DEF BSInv

=============================================================================

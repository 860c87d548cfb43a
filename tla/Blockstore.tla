----------------------------- MODULE Blockstore -----------------------------
(***************************************************************************)
(* BufferedBlockstore (blockstore/buffered.go): a read store (the base,    *)
(* shared with the rest of the node) and a write store (an in-memory       *)
(* buffer).  Writes go to the buffer unless the base already has the       *)
(* block; reads look in the buffer first (Get, Has, View) or in the base   *)
(* first (GetSize); deletes go to both.                                    *)
(*                                                                         *)
(* A store holds a set of cids; content addressing fixes each block's      *)
(* size (BlockSize).  Reads are operators giving what the call returns.    *)
(* The ghost variables told and gone record what successful calls told the *)
(* caller: the block was stored, or deleted.  With StoreFaults an          *)
(* underlying store call may return an error other than ErrNotFound.       *)
(***************************************************************************)
EXTENDS Integers, FiniteSets

CONSTANTS
    Cids,         \* block cids
    BlockSize,    \* cid -> the length of its block's data
    Viewable,     \* both stores implement Viewer
    StoreFaults   \* underlying store calls may fail

ASSUME BlockstoreAssumption ==
    /\ BlockSize \in [Cids -> Nat]
    /\ Viewable \in BOOLEAN
    /\ StoreFaults \in BOOLEAN

\* What a read returns when the block is in neither store.
NotFound == -1

VARIABLES
    read,    \* cids the base store holds
    write,   \* cids the buffer holds
    told,    \* ghost: cids a successful Put or PutMany stored
    gone     \* ghost: cids a successful DeleteBlock removed

bsvars == <<read, write, told, gone>>

-----------------------------------------------------------------------------
(* Reads.                                                                  *)

\* Has: the buffer, then the base.
Has(c) == c \in write \/ c \in read

\* Get: the buffer; on ErrNotFound, the base.  Its result is the block's
\* size, standing for the block.
Get(c) == IF c \in write \/ c \in read THEN BlockSize[c] ELSE NotFound

\* View: with both stores viewable, the buffer's View and on ErrNotFound
\* the base's; otherwise Get.
View(c) ==
    IF Viewable
      THEN IF c \in write THEN BlockSize[c]
           ELSE IF c \in read THEN BlockSize[c] ELSE NotFound
      ELSE Get(c)

\* GetSize: the base; on ErrNotFound or a size of zero, the buffer.
GetSize(c) ==
    LET s == IF c \in read THEN BlockSize[c] ELSE NotFound IN
    IF s = NotFound \/ s = 0
      THEN IF c \in write THEN BlockSize[c] ELSE NotFound
      ELSE s

-----------------------------------------------------------------------------
BSInit ==
    /\ read = {} /\ write = {}
    /\ told = {} /\ gone = {}

\* Put: read.Has; a block the base has is not written again; otherwise
\* write.Put.  A failing call returns its error.
Put(c) ==
    \/ /\ c \in read
       /\ told' = told \cup {c}
       /\ gone' = gone \ {c}
       /\ UNCHANGED <<read, write>>
    \/ /\ c \notin read
       /\ write' = write \cup {c}
       /\ told' = told \cup {c}
       /\ gone' = gone \ {c}
       /\ UNCHANGED read
    \/ /\ StoreFaults
       /\ told' = told \ {c} /\ gone' = gone \ {c}
       /\ UNCHANGED <<read, write>>

\* PutMany: straight to the buffer.
PutMany(S) ==
    \/ /\ write' = write \cup S
       /\ told' = told \cup S
       /\ gone' = gone \ S
       /\ UNCHANGED read
    \/ /\ StoreFaults
       /\ told' = told \ S /\ gone' = gone \ S
       /\ UNCHANGED <<read, write>>

\* Mutant: DeleteBlock that deletes from the base only.
DeleteBlockBaseOnly(c) ==
    \/ /\ read' = read \ {c}
       /\ gone' = gone \cup {c}
       /\ told' = told \ {c}
       /\ UNCHANGED write
    \/ /\ StoreFaults
       /\ told' = told \ {c} /\ gone' = gone \ {c}
       /\ \/ UNCHANGED <<read, write>>
          \/ /\ read' = read \ {c}
             /\ UNCHANGED write

\* DeleteBlock: read.DeleteBlock, then write.DeleteBlock; an error of the
\* first returns before the second runs.
DeleteBlock(c) ==
    \/ /\ read' = read \ {c}
       /\ write' = write \ {c}
       /\ gone' = gone \cup {c}
       /\ told' = told \ {c}
    \/ /\ StoreFaults
       /\ told' = told \ {c} /\ gone' = gone \ {c}
       /\ \/ UNCHANGED <<read, write>>
          \/ /\ read' = read \ {c}
             /\ UNCHANGED write

\* Another user of the base store (chain sync, the VM's flush) writes a
\* block to it directly.
BaseWrite(c) ==
    /\ read' = read \cup {c}
    /\ gone' = gone \ {c}
    /\ UNCHANGED <<write, told>>

BSNext ==
    \/ \E c \in Cids : Put(c) \/ DeleteBlock(c) \/ BaseWrite(c)
    \/ \E S \in SUBSET Cids : S # {} /\ PutMany(S)

BSSpec == BSInit /\ [][BSNext]_bsvars

-----------------------------------------------------------------------------
BSTypeOK ==
    /\ read \subseteq Cids /\ write \subseteq Cids
    /\ told \subseteq Cids /\ gone \subseteq Cids

\* The reads agree on every block, whichever store holds it: Has finds what
\* Get returns, View returns what Get does (the fallback at line 111 says
\* so), and GetSize gives the size of the block Get returns.
ReadsAgree ==
    \A c \in Cids :
        /\ Has(c) <=> Get(c) # NotFound
        /\ View(c) = Get(c)
        /\ GetSize(c) = Get(c)

\* Has reflects the last successful write call on the block: a block a Put
\* or PutMany stored is found, whether it went to the buffer or was already
\* in the base, and a block DeleteBlock removed is not, until it is
\* written again.
HasTracksCalls ==
    \A c \in Cids : /\ c \in told => Has(c)
                    /\ c \in gone => ~Has(c)

=============================================================================

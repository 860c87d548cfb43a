------------------------------ MODULE AskQuery ------------------------------
(***************************************************************************)
(* GetAsks of the command-line client (cli/client.go): collect the storage *)
(* asks of every miner with minimum power, in two phases.  In each phase a *)
(* launcher goroutine walks a list of miners, takes a slot of a throttle   *)
(* channel (capacity Throttle, 50 in the code) and starts one worker per   *)
(* miner; a worker calls the node, appends to a shared slice under lk, and *)
(* releases its slot (deferred).  The launcher closes done when its loop   *)
(* ends; the caller waits for done and then reads the slice.  The          *)
(* WaitGroup of each phase is Added to but never waited on.               *)
(*                                                                         *)
(* Phase 1 keeps the miners whose StateMinerPower says HasMinPower;        *)
(* phase 2 keeps the asks of those whose StateMinerInfo and two            *)
(* ClientQueryAsk calls succeed (each with a 4-second timeout).  A worker  *)
(* is one step: its calls, the append under lk and the slot's release.     *)
(* The progress lines printed every 150ms are left out.                    *)
(***************************************************************************)
EXTENDS Naturals, Sequences, FiniteSets, Functions

CONSTANTS
    MinerList,  \* what StateListMiners returns, in order
    Powered,    \* miners whose power has HasMinPower
    Throttle    \* the capacity of each phase's throttle channel

ASSUME AskQueryAssumption ==
    /\ MinerList \in Seq(Range(MinerList))
    /\ \A i, j \in DOMAIN MinerList : i # j => MinerList[i] # MinerList[j]
    /\ Powered \subseteq Range(MinerList)
    /\ Throttle \in Nat \ {0}

VARIABLES
    mpc,           \* the caller: "list", "phase1", "phase2", "returned", "err"
    next1, next2,  \* each launcher's loop index
    live1, live2,  \* miners whose worker of that phase is running
    held1, held2,  \* slots of each phase's throttle channel taken
    done1, done2,  \* each phase's done channel is closed
    withMinPower,  \* phase 1's shared slice
    wmp,           \* the caller's read of withMinPower
    asks,          \* phase 2's shared slice (the miners whose asks it holds)
    result         \* the slice GetAsks returned

aqvars == <<mpc, next1, next2, live1, live2, held1, held2, done1, done2,
            withMinPower, wmp, asks, result>>

-----------------------------------------------------------------------------
AQInit ==
    /\ mpc = "list"
    /\ next1 = 1 /\ next2 = 1 /\ live1 = {} /\ live2 = {}
    /\ held1 = 0 /\ held2 = 0
    /\ done1 = FALSE /\ done2 = FALSE
    /\ withMinPower = <<>> /\ wmp = <<>> /\ asks = <<>> /\ result = <<>>

\* StateListMiners: its error is returned; otherwise phase 1's launcher
\* starts.
ListMiners ==
    /\ mpc = "list"
    /\ mpc' \in {"phase1", "err"}
    /\ UNCHANGED <<next1, next2, live1, live2, held1, held2, done1, done2,
                   withMinPower, wmp, asks, result>>

\* Mutant: the launcher does not wait for a free slot.
Launch1NoThrottle ==
    /\ mpc \notin {"list", "err"}
    /\ next1 <= Len(MinerList)
    /\ held1' = held1 + 1
    /\ live1' = live1 \cup {MinerList[next1]}
    /\ next1' = next1 + 1
    /\ UNCHANGED <<mpc, next2, live2, held2, done1, done2, withMinPower, wmp,
                   asks, result>>

\* Phase 1's launcher: the next miner takes a slot (blocking while the
\* throttle is full) and its worker starts.
Launch1 ==
    /\ mpc \notin {"list", "err"}
    /\ next1 <= Len(MinerList)
    /\ held1 < Throttle
    /\ held1' = held1 + 1
    /\ live1' = live1 \cup {MinerList[next1]}
    /\ next1' = next1 + 1
    /\ UNCHANGED <<mpc, next2, live2, held2, done1, done2, withMinPower, wmp,
                   asks, result>>

\* The launcher's loop has ended: close(done), deferred, runs without
\* waiting for the workers.
Close1 ==
    /\ mpc \notin {"list", "err"}
    /\ next1 > Len(MinerList) /\ ~done1
    /\ done1' = TRUE
    /\ UNCHANGED <<mpc, next1, next2, live1, live2, held1, held2, done2,
                   withMinPower, wmp, asks, result>>

\* A phase 1 worker: StateMinerPower, and a miner with minimum power is
\* appended; an error returns.  The slot is released.
Worker1(m) ==
    /\ m \in live1
    /\ live1' = live1 \ {m}
    /\ held1' = held1 - 1
    /\ \/ m \in Powered /\ withMinPower' = Append(withMinPower, m)
       \/ UNCHANGED withMinPower
    /\ UNCHANGED <<mpc, next1, next2, live2, held2, done1, done2, wmp, asks,
                   result>>

\* The caller, once done is closed, reads withMinPower and starts phase 2.
Read1 ==
    /\ mpc = "phase1" /\ done1
    /\ wmp' = withMinPower
    /\ mpc' = "phase2"
    /\ UNCHANGED <<next1, next2, live1, live2, held1, held2, done1, done2,
                   withMinPower, asks, result>>

Launch2 ==
    /\ mpc \in {"phase2", "returned"}
    /\ next2 <= Len(wmp)
    /\ held2 < Throttle
    /\ held2' = held2 + 1
    /\ live2' = live2 \cup {wmp[next2]}
    /\ next2' = next2 + 1
    /\ UNCHANGED <<mpc, next1, live1, held1, done1, done2, withMinPower, wmp,
                   asks, result>>

Close2 ==
    /\ mpc \in {"phase2", "returned"}
    /\ next2 > Len(wmp) /\ ~done2
    /\ done2' = TRUE
    /\ UNCHANGED <<mpc, next1, next2, live1, live2, held1, held2, done1,
                   withMinPower, wmp, asks, result>>

\* Mutant: the slot is released at the end of the worker, not deferred, so
\* a worker that returns on an error keeps it.
Worker2KeepsSlot(m) ==
    /\ m \in live2
    /\ live2' = live2 \ {m}
    /\ \/ asks' = Append(asks, m) /\ held2' = held2 - 1
       \/ UNCHANGED <<asks, held2>>
    /\ UNCHANGED <<mpc, next1, next2, live1, held1, done1, done2,
                   withMinPower, wmp, result>>

\* A phase 2 worker: StateMinerInfo (with a peer id) and ClientQueryAsk
\* twice; any error or timeout returns, otherwise the ask is appended.
\* The slot is released.
Worker2(m) ==
    /\ m \in live2
    /\ live2' = live2 \ {m}
    /\ held2' = held2 - 1
    /\ \/ asks' = Append(asks, m)
       \/ UNCHANGED asks
    /\ UNCHANGED <<mpc, next1, next2, live1, held1, done1, done2,
                   withMinPower, wmp, result>>

\* The caller, once done is closed, returns asks.
ReturnAsks ==
    /\ mpc = "phase2" /\ done2
    /\ result' = asks
    /\ mpc' = "returned"
    /\ UNCHANGED <<next1, next2, live1, live2, held1, held2, done1, done2,
                   withMinPower, wmp, asks>>

AQNext ==
    \/ ListMiners \/ Launch1 \/ Close1 \/ Read1
    \/ Launch2 \/ Close2 \/ ReturnAsks
    \/ \E m \in live1 : Worker1(m)
    \/ \E m \in live2 : Worker2(m)

\* Every goroutine runs: the caller, both launchers and every worker.
AQFairness ==
    /\ WF_aqvars(ListMiners) /\ WF_aqvars(Read1) /\ WF_aqvars(ReturnAsks)
    /\ WF_aqvars(Launch1) /\ WF_aqvars(Close1)
    /\ WF_aqvars(Launch2) /\ WF_aqvars(Close2)
    /\ \A m \in Range(MinerList) : WF_aqvars(Worker1(m)) /\ WF_aqvars(Worker2(m))

AQSpec == AQInit /\ [][AQNext]_aqvars /\ AQFairness

-----------------------------------------------------------------------------
AQTypeOK ==
    /\ mpc \in {"list", "phase1", "phase2", "returned", "err"}
    /\ next1 \in 1..Len(MinerList) + 1
    /\ live1 \subseteq Range(MinerList) /\ live2 \subseteq Range(MinerList)
    /\ held1 \in 0..Throttle /\ held2 \in 0..Throttle
    /\ done1 \in BOOLEAN /\ done2 \in BOOLEAN
    /\ withMinPower \in Seq(Powered) /\ wmp \in Seq(Powered)
    /\ asks \in Seq(Powered) /\ result \in Seq(Powered)

\* A slice is read only after every worker that appends to it is done: the
\* caller reads withMinPower and asks with no worker of their phase live.
\* done is closed when the last worker starts, not when it ends, so the
\* read races with the appends still running and misses their miners.
ReadsAfterWorkers ==
    /\ mpc \in {"phase2", "returned"} => live1 = {}
    /\ mpc = "returned" => live2 = {}

=============================================================================

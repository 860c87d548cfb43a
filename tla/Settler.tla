------------------------------- MODULE Settler -------------------------------
(***************************************************************************)
(* The payee node's payment-channel settler (flowchmgr/settler), composed  *)
(* with the channel of FlowchMgr.                                          *)
(*                                                                         *)
(* The head-change feed (chain/events, not in this source tree) is         *)
(* modelled from the specification: once the Settle message is            *)
(* MessageConfidence+1 epochs deep, the matcher is re-evaluated on every   *)
(* new head until the window expires, and each head's handler runs to      *)
(* completion before the next head is dispatched.  The handler is          *)
(* messageHandler: it takes BestSpendableByLane, pushes one submit message *)
(* per lane in map order, starts one goroutine per pushed message that     *)
(* waits for its receipt, and waits for them all (sync.WaitGroup).         *)
(*                                                                         *)
(* Faults selects the failures a run admits: "push" (FlowchVoucherSubmit   *)
(* returns an error), "wait" (StateWaitMsg returns an error) and "matcher" *)
(* (FlowchList or FlowchStatus returns an error).                          *)
(***************************************************************************)
EXTENDS FlowchMgr

CONSTANTS
    Confidence,   \* epochs the Settle message must be buried: MessageConfidence+1
    Faults        \* the failures this run admits

ASSUME SettlerAssumption ==
    /\ Confidence \in Nat
    /\ Faults \subseteq {"push", "wait", "matcher"}

\* Settler states: idle between heads, pushing the snapshot's vouchers,
\* blocked in wg.Wait, or the process died of a panic.
HandlerStates == {"idle", "submit", "wait", "crashed"}

VARIABLES
    hpc,        \* the handler's state
    todo,       \* vouchers of the snapshot not yet pushed in this run
    wg,         \* ids of this run's goroutines that have not called wg.Done
    waiting,    \* ids of every live waiting goroutine, this run's or earlier
    pushed,     \* submit messages pushed and not yet executed: [id, v]
    results,    \* id -> TRUE (exit code 0) or FALSE, for executed messages
    msgN,       \* last message id used
    lastFired,  \* the last head the handler ran for
    skipped,    \* lanes of a run that returned early without pushing them
    pushFailed  \* history: some run has returned on a FlowchVoucherSubmit error

settler == <<hpc, todo, wg, waiting, pushed, results, msgN, lastFired, skipped,
             pushFailed>>
allVars == <<vars, settler>>

-----------------------------------------------------------------------------
(* BestSpendableByLane (flowchmgr, modelled from the specification): per   *)
(* lane, the payee's best voucher when the chain can still take it.        *)
Spendable(l) == pnonce[l] > 0 /\ pnonce[l] > laneNonce[l]

BestSpendableByLane == {PayeeBest(l) : l \in {k \in Lanes : Spendable(k)}}

\* The Settle message is buried deep enough for the feed to call back.
SettleConfirmed ==
    settlingAt # 0 /\ height >= settlingAt - Window + Confidence

-----------------------------------------------------------------------------
SInit ==
    /\ Init
    /\ hpc = "idle" /\ todo = {} /\ wg = {} /\ waiting = {}
    /\ pushed = {} /\ results = <<>> /\ msgN = 0 /\ lastFired = 0
    /\ skipped = {} /\ pushFailed = FALSE

\* Mutant: the callback is taken off the feed after its first head (check
\* or messageHandler reporting that no more events are wanted).
HeadEventOnce ==
    /\ hpc = "idle"
    /\ SettleConfirmed /\ ~Settled
    /\ lastFired = 0
    /\ lastFired' = height
    /\ todo' = BestSpendableByLane
    /\ hpc' = IF BestSpendableByLane = {} THEN "idle" ELSE "submit"
    /\ skipped' = {}
    /\ UNCHANGED <<vars, wg, waiting, pushed, results, msgN, pushFailed>>

\* A new head while the Settle message is confirmed and the window open:
\* the matcher accepts it (method Settle, a tracked inbound channel) and
\* messageHandler snapshots BestSpendableByLane.  With nothing to submit,
\* wg.Wait returns at once.
HeadEvent ==
    /\ hpc = "idle"
    /\ SettleConfirmed /\ ~Settled
    /\ lastFired < height
    /\ lastFired' = height
    /\ todo' = BestSpendableByLane
    /\ hpc' = IF BestSpendableByLane = {} THEN "idle" ELSE "submit"
    /\ skipped' = {}
    /\ UNCHANGED <<vars, wg, waiting, pushed, results, msgN, pushFailed>>

\* The matcher's FlowchList or FlowchStatus call fails: this head is not
\* handled.
MatcherError ==
    /\ "matcher" \in Faults
    /\ hpc = "idle"
    /\ SettleConfirmed /\ ~Settled
    /\ lastFired < height
    /\ lastFired' = height
    /\ UNCHANGED <<vars, hpc, todo, wg, waiting, pushed, results, msgN, skipped,
                   pushFailed>>

\* Mutant: the message id is taken before the counter is advanced.
PushVoucherStaleId(v) ==
    /\ hpc = "submit"
    /\ v \in todo
    /\ msgN' = msgN + 1
    /\ pushed' = pushed \cup {[id |-> msgN, v |-> v]}
    /\ wg' = wg \cup {msgN}
    /\ waiting' = waiting \cup {msgN}
    /\ todo' = todo \ {v}
    /\ hpc' = IF todo \ {v} = {} THEN "wait" ELSE "submit"
    /\ UNCHANGED <<vars, results, lastFired, skipped, pushFailed>>

\* One iteration of the loop over bestByLane: FlowchVoucherSubmit pushes
\* the voucher and a goroutine starts waiting for the message.
PushVoucher(v) ==
    /\ hpc = "submit"
    /\ v \in todo
    /\ msgN' = msgN + 1
    /\ pushed' = pushed \cup {[id |-> msgN + 1, v |-> v]}
    /\ wg' = wg \cup {msgN + 1}
    /\ waiting' = waiting \cup {msgN + 1}
    /\ todo' = todo \ {v}
    /\ hpc' = IF todo \ {v} = {} THEN "wait" ELSE "submit"
    /\ UNCHANGED <<vars, results, lastFired, skipped, pushFailed>>

\* FlowchVoucherSubmit returns an error: messageHandler returns at once,
\* leaving the rest of the snapshot unpushed and not waiting for the
\* goroutines it has started.
PushError(v) ==
    /\ "push" \in Faults
    /\ hpc = "submit"
    /\ v \in todo
    /\ skipped' = {u.lane : u \in todo \ {v}}
    /\ todo' = {}
    /\ wg' = {}
    /\ hpc' = "idle"
    /\ pushFailed' = TRUE
    /\ UNCHANGED <<vars, waiting, pushed, results, msgN, lastFired>>

\* The receipts with that of message id, exit code 0 or not, added.
Receipt(id, ok) ==
    [x \in DOMAIN results \cup {id} |-> IF x = id THEN ok ELSE results[x]]

\* The chain executes a pushed submit message: the actor's
\* UpdateChannelState takes the voucher when applicable, and the receipt
\* records the exit code.
ExecPushed(m) ==
    /\ m \in pushed
    /\ pushed' = pushed \ {m}
    /\ IF VoucherApplicable(m.v)
         THEN /\ ApplyVoucher(m.v)
              /\ results' = Receipt(m.id, TRUE)
         ELSE /\ UNCHANGED <<redeemed, laneNonce>>
              /\ results' = Receipt(m.id, FALSE)
    /\ UNCHANGED <<payer, issued, counters, chainExists, chBalance, settlingAt,
                   height, collected, payee, hpc, todo, wg, waiting, msgN,
                   lastFired, skipped, pushFailed>>

\* Mutant: wg.Done only on a successful receipt (not deferred).
WaitReturnsOnSuccess(id) ==
    /\ hpc # "crashed"
    /\ id \in waiting
    /\ id \in DOMAIN results
    /\ waiting' = waiting \ {id}
    /\ wg' = IF results[id] THEN wg \ {id} ELSE wg
    /\ UNCHANGED <<vars, hpc, todo, pushed, results, msgN, lastFired, skipped,
                   pushFailed>>

\* A goroutine's StateWaitMsg returns the receipt; a non-zero exit code is
\* logged; wg.Done runs (deferred).
WaitReturns(id) ==
    /\ hpc # "crashed"
    /\ id \in waiting
    /\ id \in DOMAIN results
    /\ waiting' = waiting \ {id}
    /\ wg' = wg \ {id}
    /\ UNCHANGED <<vars, hpc, todo, pushed, results, msgN, lastFired, skipped,
                   pushFailed>>

\* StateWaitMsg returns an error: it is logged, then msgLookup (nil) is
\* dereferenced for its exit code and the goroutine panics, which ends the
\* process.
WaitError(id) ==
    /\ "wait" \in Faults
    /\ hpc # "crashed"
    /\ id \in waiting
    /\ hpc' = "crashed"
    /\ UNCHANGED <<vars, todo, wg, waiting, pushed, results, msgN, lastFired,
                   skipped, pushFailed>>

\* Mutant: messageHandler returns without wg.Wait.
HandlerReturnsNoWait ==
    /\ hpc = "wait"
    /\ hpc' = "idle"
    /\ UNCHANGED <<vars, todo, wg, waiting, pushed, results, msgN, lastFired,
                   skipped, pushFailed>>

\* wg.Wait returns once every goroutine of the run is done.
HandlerReturns ==
    /\ hpc = "wait"
    /\ wg = {}
    /\ hpc' = "idle"
    /\ UNCHANGED <<vars, todo, wg, waiting, pushed, results, msgN, lastFired,
                   skipped, pushFailed>>

\* The channel's other actors keep going while the settler runs; a
\* crashed process stops the payee's side, the chain goes on.
ChannelStep ==
    /\ \/ Next /\ hpc # "crashed"
       \/ /\ hpc = "crashed"
          /\ \/ FundingExecuted \/ Settle \/ Collect \/ Tick
             \/ \E a \in Amounts : GetOrCreate(a)
             \/ MsgResolved
             \/ \E l \in Lanes, a \in Amounts : CreateVoucher(l, a)
    /\ UNCHANGED settler

SNext ==
    \/ ChannelStep
    \/ HeadEvent
    \/ MatcherError
    \/ \E v \in todo : PushVoucher(v) \/ PushError(v)
    \/ \E m \in pushed : ExecPushed(m)
    \/ \E id \in waiting : WaitReturns(id) \/ WaitError(id)
    \/ HandlerReturns

\* The settler's own steps are weakly fair (its goroutines run), and the
\* chain eventually executes every message pushed to it.
SFairness ==
    /\ WF_allVars(HeadEvent)
    /\ WF_allVars(\E v \in todo : PushVoucher(v))
    /\ WF_allVars(\E m \in pushed : ExecPushed(m))
    /\ WF_allVars(\E id \in waiting : WaitReturns(id))
    /\ WF_allVars(HandlerReturns)

SSpec == SInit /\ [][SNext]_allVars /\ SFairness

-----------------------------------------------------------------------------
\* The settler's types (pushFailed is a history flag, not program state).
SettlerTypeOK ==
    /\ hpc \in HandlerStates
    /\ todo \subseteq Voucher
    /\ wg \subseteq 1..msgN
    /\ waiting \subseteq 1..msgN
    /\ \A m \in pushed : m.id \in 1..msgN /\ m.v \in issued
    /\ DOMAIN results \subseteq 1..msgN
    /\ msgN \in Nat /\ lastFired \in 0..MaxHeight
    /\ skipped \subseteq Lanes

\* At most one submit message per lane is in flight at a time, across heads:
\* messageHandler blocks in wg.Wait until every message it pushed has a
\* receipt, so the next head's snapshot never re-pushes a lane whose
\* previous submission is still pending.
OneSubmissionPerLane ==
    \A m1, m2 \in pushed : m1.v.lane = m2.v.lane => m1 = m2

\* Across heads and whatever else fails, two submit messages of one lane are
\* in flight only after some run of messageHandler has returned on a
\* FlowchVoucherSubmit error: until then every run returns from wg.Wait,
\* after each message it pushed has a receipt, a StateWaitMsg error kills
\* the process and a matcher error skips the head.
OneSubmissionUntilPushError ==
    ~pushFailed => OneSubmissionPerLane

\* Every run of messageHandler returns: each pushed message is executed,
\* each goroutine's StateWaitMsg returns and calls wg.Done, so wg.Wait does
\* not block the head-change feed forever.
HandlerTerminates ==
    hpc \in {"submit", "wait"} ~> hpc = "idle"

\* A step after which no lane's nonce or redeemed amount on chain is lower.
LanesGrow ==
    \A l \in Lanes : laneNonce'[l] >= laneNonce[l] /\ redeemed'[l] >= redeemed[l]

\* The chain's record of a lane never goes back: a submit message from an
\* earlier head (left running when messageHandler returned early) that lands
\* after a later, better voucher of its lane is rejected, so neither the
\* lane's nonce nor its redeemed amount decreases.
NoLaneRegression == [][LanesGrow]_allVars

\* Specification, section 4.3 and scenario D: the matcher re-fires on each
\* new head until the window expires, so a lane that is spendable when a
\* head the handler has not yet seen arrives inside the window (a voucher
\* added after an earlier head, or a lane an earlier run did not redeem)
\* is taken into a handler run, unless it stops being spendable or the
\* window closes first.  check returns more = true and the handler is
\* registered with NoTimeout for this.
SpendableLanesPickedUp ==
    \A l \in Lanes :
        (SettleConfirmed /\ ~Settled /\ Spendable(l) /\ lastFired < height)
          ~> \/ l \in {v.lane : v \in todo}
             \/ \E m \in pushed : m.v.lane = l
             \/ ~Spendable(l) \/ Settled

\* Specification, section 4.3: one lane's submission failure is logged and
\* does not block or cancel the others.  messageHandler returns on the first
\* FlowchVoucherSubmit error, so later lanes of the map are never pushed.
PartialFailureTolerant ==
    skipped = {}

\* Specification, section 4.3: a failed lane is logged.  After StateWaitMsg
\* fails, the goroutine reads msgLookup.Receipt of a nil msgLookup.
WaitErrorLogged ==
    hpc # "crashed"

=============================================================================

------------------------------ MODULE FlowchCli ------------------------------
(***************************************************************************)
(* The flowch commands of the command-line client that push a chain        *)
(* message and wait for it (cli/flowch.go): settle, collect and voucher    *)
(* submit, composed with the channel of FlowchMgr.  Each command pushes    *)
(* its message through the node (FlowchSettle, FlowchCollect,              *)
(* FlowchVoucherSubmit), calls StateWaitMsg, and reports the receipt's     *)
(* exit code.  The chain executes the message later, on its own; the wait  *)
(* may end in an error (the request context is cancelled, the connection   *)
(* drops) while the message is still pending.                              *)
(*                                                                         *)
(* The commands replace the atomic Settle, Collect and SubmitVoucher of    *)
(* FlowchMgr: here the push, the execution and the report are separate     *)
(* steps.  CliFaults selects the failures a run admits: "push" (the node   *)
(* refuses the push) and "wait" (StateWaitMsg returns an error).           *)
(***************************************************************************)
EXTENDS FlowchMgr

CONSTANTS
    CliCmds,    \* the commands invoked, once each
    CliFaults   \* the failures this run admits

ASSUME CliAssumption ==
    /\ CliCmds \subseteq {"settle", "collect", "submit"}
    /\ CliFaults \subseteq {"push", "wait"}

VARIABLES
    cpc,    \* command -> "idle", "wait" (in StateWaitMsg) or "done"
    cres,   \* command -> what it returned: "none", "ok" (nil) or "err"
    cexit,  \* command -> its message: "none", "pending", "ok" or "failed"
    cv      \* the voucher the submit command was given

cli == <<cpc, cres, cexit, cv>>
cliVars == <<vars, cli>>

NoVoucher == [lane |-> CHOOSE l \in Lanes : TRUE, nonce |-> 0, amount |-> 0]

-----------------------------------------------------------------------------
CInit ==
    /\ Init
    /\ cpc = [k \in CliCmds |-> "idle"]
    /\ cres = [k \in CliCmds |-> "none"]
    /\ cexit = [k \in CliCmds |-> "none"]
    /\ cv = NoVoucher

\* FlowchSettle, FlowchCollect or FlowchVoucherSubmit returns an error: the
\* command returns it.
PushFails(k) ==
    /\ "push" \in CliFaults
    /\ cpc[k] = "idle"
    /\ cpc' = [cpc EXCEPT ![k] = "done"]
    /\ cres' = [cres EXCEPT ![k] = "err"]
    /\ UNCHANGED <<vars, cexit, cv>>

\* settle / collect: the message is pushed and the command waits for it.
PushCmd(k) ==
    /\ k \in {"settle", "collect"}
    /\ cpc[k] = "idle"
    /\ cpc' = [cpc EXCEPT ![k] = "wait"]
    /\ cexit' = [cexit EXCEPT ![k] = "pending"]
    /\ UNCHANGED <<vars, cres, cv>>

\* voucher submit: the voucher given on the command line (one the payee
\* holds as its best for a lane) is pushed and the command waits.
PushSubmit(l) ==
    /\ cpc["submit"] = "idle"
    /\ pnonce[l] > 0
    /\ cv' = PayeeBest(l)
    /\ cpc' = [cpc EXCEPT !["submit"] = "wait"]
    /\ cexit' = [cexit EXCEPT !["submit"] = "pending"]
    /\ UNCHANGED <<vars, cres>>

\* The chain executes a pending command message; the actor method runs
\* when its conditions hold and the receipt's exit code is non-zero
\* otherwise.
ExecSettle ==
    /\ cexit["settle"] = "pending"
    /\ IF chainExists /\ ~collected /\ settlingAt = 0
         THEN /\ settlingAt' = height + Window
              /\ cexit' = [cexit EXCEPT !["settle"] = "ok"]
         ELSE /\ UNCHANGED settlingAt
              /\ cexit' = [cexit EXCEPT !["settle"] = "failed"]
    /\ UNCHANGED <<payer, issued, counters, chainExists, chBalance, redeemed,
                   laneNonce, height, collected, payee, cpc, cres, cv>>

ExecCollect ==
    /\ cexit["collect"] = "pending"
    /\ IF Settled /\ ~collected
         THEN /\ collected' = TRUE
              /\ cexit' = [cexit EXCEPT !["collect"] = "ok"]
         ELSE /\ UNCHANGED collected
              /\ cexit' = [cexit EXCEPT !["collect"] = "failed"]
    /\ UNCHANGED <<payer, issued, counters, chainExists, chBalance, redeemed,
                   laneNonce, settlingAt, height, payee, cpc, cres, cv>>

ExecSubmit ==
    /\ cexit["submit"] = "pending"
    /\ IF VoucherApplicable(cv)
         THEN /\ ApplyVoucher(cv)
              /\ cexit' = [cexit EXCEPT !["submit"] = "ok"]
         ELSE /\ UNCHANGED <<redeemed, laneNonce>>
              /\ cexit' = [cexit EXCEPT !["submit"] = "failed"]
    /\ UNCHANGED <<payer, issued, counters, chainExists, chBalance,
                   settlingAt, height, collected, payee, cpc, cres, cv>>

\* Mutant: the command reports success without looking at the exit code.
WaitReturnsIgnoresExit(k) ==
    /\ cpc[k] = "wait"
    /\ cexit[k] \in {"ok", "failed"}
    /\ cpc' = [cpc EXCEPT ![k] = "done"]
    /\ cres' = [cres EXCEPT ![k] = "ok"]
    /\ UNCHANGED <<vars, cexit, cv>>

\* StateWaitMsg returns the receipt: exit code 0 is reported as success,
\* any other as an error.
WaitReturns(k) ==
    /\ cpc[k] = "wait"
    /\ cexit[k] \in {"ok", "failed"}
    /\ cpc' = [cpc EXCEPT ![k] = "done"]
    /\ cres' = [cres EXCEPT ![k] = IF cexit[k] = "ok" THEN "ok" ELSE "err"]
    /\ UNCHANGED <<vars, cexit, cv>>

\* StateWaitMsg returns an error.  voucher submit returns it; settle and
\* collect return nil.  The message stays pending on the chain.
WaitFails(k) ==
    /\ "wait" \in CliFaults
    /\ cpc[k] = "wait"
    /\ cpc' = [cpc EXCEPT ![k] = "done"]
    /\ cres' = [cres EXCEPT ![k] = IF k = "submit" THEN "err" ELSE "ok"]
    /\ UNCHANGED <<vars, cexit, cv>>

\* The channel's other actors: the payer's manager, the payee's AddVoucher,
\* the chain's funding and epochs, and the other party settling or
\* collecting from its own node.
ChannelStep ==
    /\ \/ \E a \in Amounts : GetOrCreate(a)
       \/ MsgResolved
       \/ \E l \in Lanes, a \in Amounts : CreateVoucher(l, a)
       \/ FundingExecuted
       \/ Tick
       \/ Settle
       \/ Collect
       \/ \E v \in issued : AddVoucher(v)
    /\ UNCHANGED cli

CNext ==
    \/ ChannelStep
    \/ \E k \in CliCmds : PushFails(k) \/ WaitReturns(k) \/ WaitFails(k)
    \/ \E k \in CliCmds \ {"submit"} : PushCmd(k)
    \/ "submit" \in CliCmds /\ \E l \in Lanes : PushSubmit(l)
    \/ "settle" \in CliCmds /\ ExecSettle
    \/ "collect" \in CliCmds /\ ExecCollect
    \/ "submit" \in CliCmds /\ ExecSubmit

CSpec == CInit /\ [][CNext]_cliVars

-----------------------------------------------------------------------------
\* Specification, section 5: chain and network errors surface to the
\* caller, and a confirmation timeout is not a success.  A command that
\* returns nil has a message the chain executed with exit code 0.
CliReportsTruthfully ==
    \A k \in CliCmds : cres[k] = "ok" => cexit[k] = "ok"

\* voucher submit reports success only for a message the chain executed
\* with exit code 0, whatever fails and whatever the other commands do: it
\* returns StateWaitMsg's error, and otherwise the receipt's exit code, for
\* a message that another party's settle or a better voucher may make the
\* chain reject between the push and its execution.
SubmitReportsTruthfully ==
    "submit" \in CliCmds => (cres["submit"] = "ok" => cexit["submit"] = "ok")

=============================================================================

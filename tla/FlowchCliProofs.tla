-------------------------- MODULE FlowchCliProofs --------------------------
(***************************************************************************)
(* Proofs about the flowch commands that push a message and wait for it    *)
(* (FlowchCli), for every value of the constants.                          *)
(*                                                                         *)
(* A command's result is set once, when it finishes, from what it saw:     *)
(* before that it is "none".  A receipt, once the chain has executed the   *)
(* message, does not change, since the chain executes only a pending       *)
(* message.  So a command that reported success from its receipt keeps    *)
(* an executed, successful message.  The one way to report success        *)
(* without a receipt is settle or collect swallowing StateWaitMsg's error *)
(* (the run cli_reports shows it); voucher submit returns that error, so  *)
(* the theorem is about voucher submit, beside any other commands and     *)
(* with every fault.                                                       *)
(***************************************************************************)
EXTENDS FlowchCli, TLAPS

CliTypeOK ==
    /\ cpc \in [CliCmds -> {"idle", "wait", "done"}]
    /\ cres \in [CliCmds -> {"none", "ok", "err"}]
    /\ cexit \in [CliCmds -> {"none", "pending", "ok", "failed"}]

\* A command that has not finished has returned nothing.
ResultAtEnd == \A k \in CliCmds : cpc[k] # "done" => cres[k] = "none"

CInv == CliTypeOK /\ ResultAtEnd /\ SubmitReportsTruthfully

LEMMA InitCInv == CInit => CInv
BY DEF CInit, CInv, CliTypeOK, ResultAtEnd, SubmitReportsTruthfully

\* A step that leaves the commands alone.
LEMMA CliKept ==
    ASSUME CInv, UNCHANGED cli
    PROVE  CInv'
BY DEF CInv, CliTypeOK, ResultAtEnd, SubmitReportsTruthfully, cli

\* A push: the command goes from idle to waiting (or to done with an
\* error), its message pending.
LEMMA PushCInv ==
    ASSUME CInv, NEW k \in CliCmds,
           \/ PushFails(k)
           \/ PushCmd(k)
           \/ k = "submit" /\ \E l \in Lanes : PushSubmit(l)
    PROVE  CInv'
BY DEF CInv, CliTypeOK, ResultAtEnd, SubmitReportsTruthfully, PushFails, PushCmd,
       PushSubmit

\* The chain executes a pending message: no command has reported success
\* on a pending message.
LEMMA ExecCInv ==
    ASSUME CInv,
           \/ "settle" \in CliCmds /\ ExecSettle
           \/ "collect" \in CliCmds /\ ExecCollect
           \/ "submit" \in CliCmds /\ ExecSubmit
    PROVE  CInv'
BY DEF CInv, CliTypeOK, ResultAtEnd, SubmitReportsTruthfully, ExecSettle,
       ExecCollect, ExecSubmit

LEMMA WaitCInv ==
    ASSUME CInv, NEW k \in CliCmds,
           WaitReturns(k) \/ WaitFails(k)
    PROVE  CInv'
<1>1. CASE WaitReturns(k)
  BY <1>1 DEF CInv, CliTypeOK, ResultAtEnd, SubmitReportsTruthfully, WaitReturns
<1>2. CASE WaitFails(k)
  BY <1>2 DEF CInv, CliTypeOK, ResultAtEnd, SubmitReportsTruthfully, WaitFails
<1>3. QED
  BY <1>1, <1>2

LEMMA CNextCInv ==
    ASSUME CInv, [CNext]_cliVars
    PROVE  CInv'
<1>1. CASE ChannelStep
  BY <1>1, CliKept DEF ChannelStep
<1>2. CASE \E k \in CliCmds : PushFails(k) \/ WaitReturns(k) \/ WaitFails(k)
  BY <1>2, PushCInv, WaitCInv
<1>3. CASE \E k \in CliCmds \ {"submit"} : PushCmd(k)
  BY <1>3, PushCInv
<1>4. CASE "submit" \in CliCmds /\ \E l \in Lanes : PushSubmit(l)
  BY <1>4, PushCInv
<1>5. CASE \/ "settle" \in CliCmds /\ ExecSettle
           \/ "collect" \in CliCmds /\ ExecCollect
           \/ "submit" \in CliCmds /\ ExecSubmit
  BY <1>5, ExecCInv
<1>6. CASE UNCHANGED cliVars
  BY <1>6, CliKept DEF cliVars
<1>7. QED
  BY <1>1, <1>2, <1>3, <1>4, <1>5, <1>6 DEF CNext

\* voucher submit returns nil only for a message the chain executed with
\* exit code 0, for every value of the constants, with push and wait
\* errors and settle and collect running beside it (cli_submit_wait_error
\* checks it on a small instance): the command returns StateWaitMsg's
\* error, reports its receipt's exit code otherwise, and a receipt does not
\* change once the chain has executed the message.
THEOREM SubmitReportsTruthfullyInvariant == CSpec => []SubmitReportsTruthfully
<1>1. CInv /\ [CNext]_cliVars => CInv'
  BY CNextCInv
<1>2. QED
  BY <1>1, InitCInv, PTL DEF CSpec, CInv
=============================================================================

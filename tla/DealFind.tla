------------------------------ MODULE DealFind ------------------------------
(***************************************************************************)
(* The interactive deal wizard with GetAsks running inside its find case   *)
(* (cli/client.go).  The wizard's goroutine calls GetAsks and is blocked   *)
(* in it until it returns: the steps of GetAsks's caller (listing the      *)
(* miners, reading withMinPower, returning asks) happen only while the     *)
(* wizard is in find.  The launchers and workers GetAsks starts are        *)
(* goroutines of their own; nothing waits for them, so they may still run  *)
(* after GetAsks has returned.  The wizard's steps leave GetAsks's         *)
(* variables alone, and GetAsks's steps the wizard's, except the find case *)
(* itself, which reads what GetAsks returned.                              *)
(***************************************************************************)
EXTENDS DealWizard, AskQuery

\* GetAsks returns asks of miners the user may also type.
ASSUME DealFindAssumption == Powered \subseteq Miners

dfvars == <<wvars, aqvars>>

\* The wizard before its loop; GetAsks not yet called.
DFInit == WInit /\ AQInit

\* A wizard step outside GetAsks.
WizardStep(A) == A /\ UNCHANGED aqvars

\* A step of GetAsks's caller: the wizard's goroutine, in the find case.
CallerStep(A) == st = "find" /\ A /\ UNCHANGED wvars

\* A step of a launcher or worker goroutine GetAsks started.
GoroutineStep(A) == A /\ UNCHANGED wvars

\* find: GetAsks has returned asks; they go through the size filter.
FindAsks ==
    /\ mpc = "returned"
    /\ FindWith(Range(result))
    /\ UNCHANGED aqvars

\* find: GetAsks has returned StateListMiners's error.
FindFails ==
    /\ mpc = "err"
    /\ FindErr
    /\ UNCHANGED aqvars

DFNext ==
    \/ WizardStep(Setup) \/ WizardStep(Import) \/ WizardStep(MinerAnswer)
    \/ WizardStep(FindCount) \/ WizardStep(Query) \/ WizardStep(Confirm)
    \/ WizardStep(Accept) \/ WizardStep(Execute)
    \/ WizardStep(CloseStdin) \/ WizardStep(Interrupt)
    \/ FindAsks \/ FindFails
    \/ CallerStep(ListMiners) \/ CallerStep(Read1) \/ CallerStep(ReturnAsks)
    \/ GoroutineStep(Launch1) \/ GoroutineStep(Close1)
    \/ GoroutineStep(Launch2) \/ GoroutineStep(Close2)
    \/ \E m \in live1 : GoroutineStep(Worker1(m))
    \/ \E m \in live2 : GoroutineStep(Worker2(m))

\* The wizard's steps that wait for no input are weakly fair, and so is
\* accept once stdin is closed; the user's answers, closing stdin and
\* Ctrl-C are not.  Every goroutine of GetAsks is weakly fair.
DFFairness ==
    /\ WF_dfvars(WizardStep(Setup)) /\ WF_dfvars(WizardStep(Query))
    /\ WF_dfvars(WizardStep(Confirm)) /\ WF_dfvars(WizardStep(Execute))
    /\ WF_dfvars(WizardStep(eof /\ Accept))
    /\ WF_dfvars(FindAsks) /\ WF_dfvars(FindFails)
    /\ WF_dfvars(CallerStep(ListMiners)) /\ WF_dfvars(CallerStep(Read1))
    /\ WF_dfvars(CallerStep(ReturnAsks))
    /\ WF_dfvars(GoroutineStep(Launch1)) /\ WF_dfvars(GoroutineStep(Close1))
    /\ WF_dfvars(GoroutineStep(Launch2)) /\ WF_dfvars(GoroutineStep(Close2))
    /\ \A m \in Range(MinerList) :
          /\ WF_dfvars(GoroutineStep(Worker1(m)))
          /\ WF_dfvars(GoroutineStep(Worker2(m)))

DFSpec == DFInit /\ [][DFNext]_dfvars /\ DFFairness

-----------------------------------------------------------------------------
\* The find case ends: GetAsks returns to the wizard.  Each launcher blocks
\* on a full throttle until a worker gives its slot back, so this needs
\* every worker to release its slot on every path, the error returns
\* included (the release is deferred), and each launcher to close done.
FindEnds ==
    st = "find" ~> st # "find"

=============================================================================

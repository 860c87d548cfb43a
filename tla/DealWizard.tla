----------------------------- MODULE DealWizard -----------------------------
(***************************************************************************)
(* The interactive storage-deal wizard of the command-line client          *)
(* (cli/client.go, interactiveDeal): a loop over a state variable that     *)
(* prompts on stdin and calls the node.  Each iteration first returns if   *)
(* the request context is cancelled, then runs the case of the current     *)
(* state.                                                                  *)
(*                                                                         *)
(* One action per case.  A read of stdin either returns the user's line or *)
(* fails; after stdin is closed (eof) every read fails.  A failed read, or *)
(* a line that does not parse, in the import, miner and find-count cases   *)
(* ends the iteration with "continue" and leaves every variable as it was: *)
(* a stuttering step, so those cases are written only for the lines that   *)
(* change something.  Printing is left out, and so is the ask list, which  *)
(* only the commented-out price display reads.                             *)
(***************************************************************************)
EXTENDS Integers, SequencesExt

CONSTANTS
    Miners,      \* miner addresses the user may type or GetAsks may return
    Bad,         \* a field of the miner answer that does not parse
    MinSize,     \* miner -> the MinPieceSize of its ask
    MaxSize,     \* miner -> the MaxPieceSize of its ask
    Sizes,       \* piece sizes ClientDealPieceCID may compute
    Counts,      \* deal counts the user may type (ParseInt succeeds)
    MaxAnswer,   \* fields in one miner answer
    MaxRounds    \* times the user answers the miner prompt

ASSUME DealWizardAssumption ==
    /\ IsFiniteSet(Miners) /\ Bad \notin Miners
    /\ MinSize \in [Miners -> Nat] /\ MaxSize \in [Miners -> Nat]
    /\ Sizes \subseteq Nat \ {0}
    /\ Counts \subseteq Int
    /\ MaxAnswer \in Nat /\ MaxRounds \in Nat

WizardStates ==
    {"setup", "import", "miner", "find", "find-count", "query", "confirm",
     "accept", "execute", "returned"}

VARIABLES
    st,         \* the loop's state variable ("setup" before the loop)
    ret,        \* what interactiveDeal returned: "none", "nil" or "err"
    eof,        \* stdin is closed: every read fails
    ds,         \* ds.PieceSize (0 before the import case sets it)
    maddrs,     \* the miners deals will be made with, in order
    cand,       \* candidateAsks, as the miners whose asks they are
    dealCount,  \* the parsed deal count
    started,    \* miners ClientStartDeal was called for, in order
    chosen,     \* ghost: the miners the user's last complete answer named,
                \* or the miners the find path picked
    rounds      \* miner answers given so far (bounded by MaxRounds)

wvars == <<st, ret, eof, ds, maddrs, cand, dealCount, started, chosen, rounds>>

-----------------------------------------------------------------------------
\* The fields of a miner answer parsed before the first that fails.
ParsedPrefix(ans) ==
    LET bad == {i \in DOMAIN ans : ans[i] = Bad} IN
    IF bad = {} THEN ans ELSE SubSeq(ans, 1, Min(bad) - 1)

\* The find case keeps the asks whose size bounds admit the piece.
FitsAsk(m, size) == MinSize[m] <= size /\ MaxSize[m] >= size

\* Mutant: pickedAsks is not reset between rounds, so a count the first
\* round cannot meet is met with the second round's picks appended.
PickAsksNoReset(c, n) ==
    IF n \in 1..Cardinality(c)
      THEN {SubSeq(s, 1, n) : s \in SetToSeqs(c)}
      ELSE IF n \in 1..2 * Cardinality(c)
        THEN {SubSeq(s \o t, 1, n) : s, t \in SetToSeqs(c)}
        ELSE SetToSeqs(c)

\* pickLoop: 64 rounds, each shuffling candidateAsks and taking asks until
\* dealCount are picked.  A count in 1..|candidates| breaks out of the
\* first round with that many; any other count never matches, and the last
\* round's pickedAsks, all the candidates, is kept.
PickAsks(c, n) ==
    IF n \in 1..Cardinality(c)
      THEN {SubSeq(s, 1, n) : s \in SetToSeqs(c)}
      ELSE SetToSeqs(c)

Return(r) == st' = "returned" /\ ret' = r

-----------------------------------------------------------------------------
WInit ==
    /\ st = "setup" /\ ret = "none" /\ eof = FALSE /\ ds = 0
    /\ maddrs = <<>> /\ cand = {} /\ dealCount = 0 /\ started = <<>>
    /\ chosen = {} /\ rounds = 0

\* Before the loop: the from address is parsed or the default wallet
\* address fetched, and its balance read; an error is returned.
Setup ==
    /\ st = "setup"
    /\ \/ st' = "import" /\ UNCHANGED ret
       \/ Return("err")
    /\ UNCHANGED <<eof, ds, maddrs, cand, dealCount, started, chosen, rounds>>

\* import: a data cid is read and parsed, and ClientDealPieceCID computes
\* the piece size; its error is returned.
Import ==
    /\ st = "import" /\ ~eof
    /\ \/ \E s \in Sizes : ds' = s /\ st' = "miner" /\ UNCHANGED ret
       \/ Return("err") /\ UNCHANGED ds
    /\ UNCHANGED <<eof, maddrs, cand, dealCount, started, chosen, rounds>>

\* Mutant: a field that fails to parse is appended all the same.
MinerAnswerKeepsBad ==
    /\ st = "miner" /\ ~eof
    /\ rounds < MaxRounds
    /\ rounds' = rounds + 1
    /\ \E ans \in SeqOf(Miners \cup {Bad}, MaxAnswer) :
          /\ maddrs' = maddrs \o ans
          /\ st' = IF maddrs' = <<>> THEN "find" ELSE "query"
          /\ chosen' = Range(ans)
    /\ UNCHANGED <<ret, eof, ds, cand, dealCount, started>>

\* miner: each field of the answer is parsed and appended to maddrs; a
\* field that fails to parse restarts the loop in this state, keeping the
\* fields appended before it.  An answer with no miners goes to find.
MinerAnswer ==
    /\ st = "miner" /\ ~eof
    /\ rounds < MaxRounds
    /\ rounds' = rounds + 1
    /\ \E ans \in SeqOf(Miners \cup {Bad}, MaxAnswer) :
          LET ok == ParsedPrefix(ans) IN
          /\ maddrs' = maddrs \o ok
          /\ IF Len(ok) = Len(ans)
               THEN /\ st' = IF maddrs' = <<>> THEN "find" ELSE "query"
                    /\ chosen' = Range(ans)
               ELSE UNCHANGED <<st, chosen>>
    /\ UNCHANGED <<ret, eof, ds, cand, dealCount, started>>

\* Mutant: the find case keeps asks below the piece's size too.
FindWithNoMaxCheck(got) ==
    /\ st = "find"
    /\ cand' = cand \cup {m \in got : MinSize[m] <= ds}
    /\ st' = "find-count"
    /\ UNCHANGED <<ret, eof, ds, maddrs, dealCount, started, chosen, rounds>>

\* find, once GetAsks has returned the asks of the miners got: those whose
\* bounds admit the piece are appended to candidateAsks.
FindWith(got) ==
    /\ st = "find"
    /\ cand' = cand \cup {m \in got : FitsAsk(m, ds)}
    /\ st' = "find-count"
    /\ UNCHANGED <<ret, eof, ds, maddrs, dealCount, started, chosen, rounds>>

\* find: GetAsks's error (of StateListMiners) is returned.
FindErr ==
    /\ st = "find"
    /\ Return("err")
    /\ UNCHANGED <<eof, ds, maddrs, cand, dealCount, started, chosen, rounds>>

\* find with GetAsks abstracted: it returns the asks of any subset of the
\* miners (AskQuery, and its composition with the wizard in DealFind,
\* show which), or its error.
Find ==
    \/ \E got \in SUBSET Miners : FindWith(got)
    \/ FindErr

\* find-count: the count is read and parsed (a parse error is returned),
\* the asks are picked, and their miners appended to maddrs.
FindCount ==
    /\ st = "find-count" /\ ~eof
    /\ \/ \E n \in Counts : \E picked \in PickAsks(cand, n) :
             /\ dealCount' = n
             /\ maddrs' = maddrs \o picked
             /\ chosen' = Range(picked)
             /\ st' = "confirm"
             /\ UNCHANGED ret
       \/ Return("err") /\ UNCHANGED <<dealCount, maddrs, chosen>>
    /\ UNCHANGED <<eof, ds, cand, started, rounds>>

\* query: StateMinerInfo and ClientQueryAsk for each miner of maddrs in
\* order; the first failure goes back to the miner case, maddrs kept.
Query ==
    /\ st = "query"
    /\ \/ st' = "confirm"
       \/ st' = "miner"
    /\ UNCHANGED <<ret, eof, ds, maddrs, cand, dealCount, started, chosen, rounds>>

\* confirm: the proposal is printed.
Confirm ==
    /\ st = "confirm"
    /\ st' = "accept"
    /\ UNCHANGED <<ret, eof, ds, maddrs, cand, dealCount, started, chosen, rounds>>

\* accept: a read error is returned; "no" returns nil, "yes" goes on, and
\* any other answer asks again.
Accept ==
    /\ st = "accept"
    /\ \/ eof /\ Return("err")
       \/ ~eof /\ Return("nil")
       \/ ~eof /\ st' = "execute" /\ UNCHANGED ret
    /\ UNCHANGED <<eof, ds, maddrs, cand, dealCount, started, chosen, rounds>>

\* execute: ClientStartDeal for each miner of maddrs in order; the first
\* error (of the call or of GetCidEncoder) is returned.
Execute ==
    /\ st = "execute"
    /\ \E k \in 0..Len(maddrs) :
          /\ started' = SubSeq(maddrs, 1, k)
          /\ Return(IF k = Len(maddrs) THEN "nil" ELSE "err")
    /\ UNCHANGED <<eof, ds, maddrs, cand, dealCount, chosen, rounds>>

\* Stdin is closed (end of piped input, or Ctrl-D).
CloseStdin ==
    /\ st # "returned" /\ ~eof
    /\ eof' = TRUE
    /\ UNCHANGED <<st, ret, ds, maddrs, cand, dealCount, started, chosen, rounds>>

\* The request context is cancelled (Ctrl-C): the next check at the top
\* of the loop, or the node call in progress, returns its error.
Interrupt ==
    /\ st \notin {"setup", "returned"}
    /\ Return("err")
    /\ UNCHANGED <<eof, ds, maddrs, cand, dealCount, started, chosen, rounds>>

WNext ==
    \/ Setup \/ Import \/ MinerAnswer \/ Find \/ FindCount \/ Query
    \/ Confirm \/ Accept \/ Execute \/ CloseStdin \/ Interrupt

\* The wizard's own steps, which wait for no input, are weakly fair; the
\* user's answers, closing stdin and Ctrl-C are not.
WFairness ==
    /\ WF_wvars(Setup) /\ WF_wvars(Find) /\ WF_wvars(Query)
    /\ WF_wvars(Confirm) /\ WF_wvars(Execute)
    /\ WF_wvars(eof /\ Accept)

WSpec == WInit /\ [][WNext]_wvars /\ WFairness

-----------------------------------------------------------------------------
WizardTypeOK ==
    /\ st \in WizardStates /\ ret \in {"none", "nil", "err"}
    /\ eof \in BOOLEAN /\ ds \in Sizes \cup {0}
    /\ maddrs \in Seq(Miners) /\ cand \subseteq Miners
    /\ dealCount \in Counts \cup {0}
    /\ started \in Seq(Miners) /\ chosen \subseteq Miners \cup {Bad}
    /\ rounds \in 0..MaxRounds

\* On the find path (candidate asks were collected), every deal is
\* proposed to a miner whose ask admits the piece's size: the size filter
\* of the find case reaches the deals through pickLoop.
FindDealsFit ==
    cand # {} => \A i \in 1..Len(started) : FitsAsk(started[i], ds)

\* On the find path no miner is proposed two deals: pickLoop resets
\* pickedAsks at every round, so a count it cannot meet does not pile up
\* the rounds' picks.
FindDealsDistinct ==
    cand # {} => IsInjective(started)

\* The prompt "Deals to make (1)": a finished find path proposes at most
\* the deals the user asked for.  A count of 0 (or below) never matches
\* len(pickedAsks) and every candidate gets a deal.
DealCountHonoured ==
    (cand # {} /\ st = "returned") => Len(started) <= Max({dealCount, 0})

\* The prompt "Miner Addresses": deals go only to miners the answer that
\* led to them named.  maddrs is never reset, so the miners of an answer
\* with a bad field, or of a query that failed, are proposed deals after
\* the user answered again.
AnswerHonoured ==
    \A i \in 1..Len(started) : started[i] \in chosen

\* The wizard ends once stdin is closed.  The import, miner and find-count
\* cases "continue" on a read error, so at end of input the loop spins.
EndsOnEof ==
    eof ~> st = "returned"

=============================================================================

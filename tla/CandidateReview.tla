--------------------------- MODULE CandidateReview ---------------------------
(***************************************************************************)
(* From a closed candle to a proposal in the owner's chat.  A scan confirms *)
(* its candle with the agent and records a candidate (SpotGuard.scan); the *)
(* owner presses REVIEW, and the extension spawns a command that has the   *)
(* agent review the candidate, creates the proposal and sends its buttons  *)
(* (review_candidate_with_agent_os).  A watchdog of the extension kills a  *)
(* command that takes too long.                                            *)
(*                                                                         *)
(* Scans and commands are processes over one ledger; each waits for the    *)
(* agent, which reads the market at one moment and is judged at a later    *)
(* one.  Readiness, policy and sizing are a choice: they accept or skip.   *)
(***************************************************************************)
EXTENDS ProposalLedger

CONSTANTS
    CandleOf,         \* the candle whose close each candidate stands for
    CandleLength,     \* market.interval in ticks: candle k closes at k of them
    Cooldown,         \* market.candidate_cooldown_minutes
    MaxDispatches     \* bound on the reviews the owner asks for

ASSUME ReviewAssumption ==
    /\ CandleOf \in [Candidates -> Nat \ {0}]
    /\ CandleLength \in Nat \ {0}
    /\ Cooldown \in Nat
    /\ MaxDispatches \in Nat
    /\ None \notin {"failed", "declined", "skipped", "undelivered", "delivered"}

VARIABLES
    pc,           \* where the process of each call is
    job,          \* the candidate it works on
    attempt,      \* which call of the agent it is in
    read,         \* when the agent read the market for it
    made,         \* the proposal it created
    verdict,      \* what its command printed before it exited
    handler,      \* the extension's side of the dispatch
    shown,        \* proposals whose buttons have reached the owner
    dispatches    \* reviews asked for so far

process == <<pc, job, attempt, read, made, verdict>>
locals  == <<process, handler, shown, dispatches>>
allVars == <<vars, locals>>

Scanning  == {"confirm", "confirming", "insert"}
Reviewing == {"begin", "ask", "asking", "approved", "propose", "deliver"}
Verdicts  == {None, "failed", "declined", "skipped", "undelivered", "delivered"}

ReviewInit ==
    /\ Init
    /\ pc = [w \in Workers |-> "off"]
    /\ job = [w \in Workers |-> None]
    /\ attempt = [w \in Workers |-> 0]
    /\ read = [w \in Workers |-> None]
    /\ made = [w \in Workers |-> None]
    /\ verdict = [w \in Workers |-> None]
    /\ handler = [w \in Workers |-> "idle"]
    /\ shown = {}
    /\ dispatches = 0

(***************************************************************************)
(* Local steps.                                                            *)
(***************************************************************************)
Go(w, label) ==
    /\ pc' = [pc EXCEPT ![w] = label]
    /\ UNCHANGED <<job, attempt, read, made, verdict>>

\* The command prints its result and exits; the result and the proposal are
\* all that is left of it.
Exit(w, v) ==
    /\ pc' = [pc EXCEPT ![w] = "exited"]
    /\ verdict' = [verdict EXCEPT ![w] = v]
    /\ attempt' = [attempt EXCEPT ![w] = 0]
    /\ read' = [read EXCEPT ![w] = None]
    /\ UNCHANGED <<job, made>>

\* The process forgets everything.
Clear(w) ==
    /\ pc' = [pc EXCEPT ![w] = "off"]
    /\ job' = [job EXCEPT ![w] = None]
    /\ attempt' = [attempt EXCEPT ![w] = 0]
    /\ read' = [read EXCEPT ![w] = None]
    /\ made' = [made EXCEPT ![w] = None]
    /\ verdict' = [verdict EXCEPT ![w] = None]

CallAgent(w) ==
    /\ pc' = [pc EXCEPT ![w] = IF @ = "confirm" THEN "confirming" ELSE "asking"]
    /\ read' = [read EXCEPT ![w] = now]
    /\ UNCHANGED <<job, attempt, made, verdict>>

(***************************************************************************)
(* Candles.                                                                *)
(***************************************************************************)
\* The last candle that has closed by time t.
Closed(t) == t \div CandleLength

\* A candle that has just closed does not count as closed for another
\* codex.close_grace_seconds, a part of a tick.
CountedClosed ==
    {Closed(now)} \cup (IF now % CandleLength = 0 THEN {Closed(now) - 1} ELSE {})

\* _validate_confirmation_payload: the agent read closed candles and the one
\* that was forming; which of them count as closed is decided by the clock
\* after the agent's process has ended, so the forming one may be taken, and
\* the last closed one left out.
Observed(w) ==
    {IF last > Closed(read[w]) THEN Closed(read[w]) + 1 ELSE last : last \in CountedClosed}

\* Close time and prices are compared with those the scan stored; a forming
\* candle has the values of none.
Matches(w) ==
    /\ CandleOf[job[w]] \in Observed(w)
    /\ CandleOf[job[w]] = Closed(read[w])

CreatedAt(c) == candExpires[c] - CandidateTTL

\* has_recent_candidate: all candidates here are of one symbol.
Recent ==
    {c \in Candidates : /\ candStatus[c] \in {"ACTIVE", "PROPOSED"}
                        /\ CreatedAt(c) >= now - Cooldown}

(***************************************************************************)
(* A scan.                                                                 *)
(***************************************************************************)
BeginScan(w, c) ==
    /\ pc[w] = "off" /\ handler[w] = "idle"
    /\ CandleOf[c] = Closed(now)
    /\ Recent = {}
    /\ pc' = [pc EXCEPT ![w] = "confirm"]
    /\ job' = [job EXCEPT ![w] = c]
    /\ UNCHANGED <<vars, attempt, read, made, verdict, handler, shown, dispatches>>

AskConfirmation(w) ==
    /\ pc[w] = "confirm"
    /\ CallAgent(w)
    /\ UNCHANGED <<vars, handler, shown, dispatches>>

Confirm(w) ==
    /\ pc[w] = "confirming"
    /\ Matches(w)
    /\ Go(w, "insert")
    /\ UNCHANGED <<vars, handler, shown, dispatches>>

\* create_candidate; whoever inserted it tells the owner, which ends the scan.
RecordCandidate(w) ==
    /\ pc[w] = "insert"
    /\ \/ CreateCandidate(job[w])
       \/ candStatus[job[w]] # "ABSENT" /\ UNCHANGED vars
    /\ Clear(w)
    /\ UNCHANGED <<handler, shown, dispatches>>

\* The confirmation fails or mismatches, the message is not sent, a crash.
EndScan(w) ==
    /\ pc[w] \in Scanning
    /\ Clear(w)
    /\ UNCHANGED <<vars, handler, shown, dispatches>>

(***************************************************************************)
(* A review: the command.                                                  *)
(***************************************************************************)
\* The owner presses a button or types the command, for any candidate of the
\* chat and as often as he likes; the extension spawns a command.
Dispatch(w, c) ==
    /\ pc[w] = "off" /\ handler[w] = "idle"
    /\ candStatus[c] # "ABSENT"
    /\ dispatches < MaxDispatches
    /\ dispatches' = dispatches + 1
    /\ pc' = [pc EXCEPT ![w] = "begin"]
    /\ job' = [job EXCEPT ![w] = c]
    /\ attempt' = [attempt EXCEPT ![w] = 1]
    /\ handler' = [handler EXCEPT ![w] = "waiting"]
    /\ UNCHANGED <<vars, read, made, verdict, shown>>

\* The status is read once, without housekeeping.
ReadCandidate(w) ==
    /\ pc[w] = "begin"
    /\ candStatus[job[w]] = "ACTIVE"
    /\ Go(w, "ask")
    /\ UNCHANGED <<vars, handler, shown, dispatches>>

AskAgent(w) ==
    /\ pc[w] = "ask"
    /\ CallAgent(w)
    /\ UNCHANGED <<vars, handler, shown, dispatches>>

\* Mutant: every empty answer is asked for again.
AskAgain(w) ==
    /\ pc[w] = "asking"
    /\ Go(w, "ask")
    /\ UNCHANGED <<vars, handler, shown, dispatches>>

\* An empty final answer is asked for once more.
RetryEmpty(w) ==
    /\ pc[w] = "asking"
    /\ attempt[w] = 1
    /\ pc' = [pc EXCEPT ![w] = "ask"]
    /\ attempt' = [attempt EXCEPT ![w] = 2]
    /\ UNCHANGED <<vars, job, read, made, verdict, handler, shown, dispatches>>

\* Mutant: the reviewed candle is not compared with the candidate's.
DecideOnAnyCandle(w) ==
    /\ pc[w] = "asking"
    /\ Go(w, "approved")
    /\ UNCHANGED <<vars, handler, shown, dispatches>>

\* APPROVE goes on; REJECT and NO_TRADE end the command.
Decide(w) ==
    /\ pc[w] = "asking"
    /\ Matches(w)
    /\ Go(w, "approved") \/ Exit(w, "declined")
    /\ UNCHANGED <<vars, handler, shown, dispatches>>

\* LIVE is not ready, or the policy refuses: the review stands without proposal.
Skip(w) ==
    /\ pc[w] \in {"approved", "propose"}
    /\ Exit(w, "skipped")
    /\ UNCHANGED <<vars, handler, shown, dispatches>>

\* active_proposal_count, with its housekeeping.
CheckSlots(w) ==
    /\ pc[w] = "approved"
    /\ Housekeep
    /\ IF Cardinality(ActiveIn(HousekeptStatus)) < MaxActive
       THEN Go(w, "propose") ELSE Exit(w, "failed")
    /\ UNCHANGED <<handler, shown, dispatches>>

Propose(w, p) ==
    /\ pc[w] = "propose"
    /\ CreateProposal(p, job[w])
    /\ made' = [made EXCEPT ![w] = p]
    /\ pc' = [pc EXCEPT ![w] = "deliver"]
    /\ attempt' = [attempt EXCEPT ![w] = 0]
    /\ read' = [read EXCEPT ![w] = None]
    /\ UNCHANGED <<job, verdict, handler, shown, dispatches>>

\* notify_proposal: the message arrives, or the channel is switched off, or it
\* arrives although the sender gave up waiting for it.
Deliver(w) ==
    /\ pc[w] = "deliver"
    /\ status[made[w]] = "PENDING"
    /\ \/ shown' = shown \cup {made[w]} /\ Exit(w, "delivered")
       \/ UNCHANGED shown /\ Exit(w, "undelivered")
       \/ shown' = shown \cup {made[w]} /\ Exit(w, "failed")
    /\ UNCHANGED <<vars, handler, dispatches>>

\* Any exception, printed as an error: the agent fails or times out, a candle
\* mismatches, the ledger or the messenger refuses.  Or the command dies.
Fail(w) ==
    /\ pc[w] \in Reviewing
    /\ Exit(w, "failed")
    /\ UNCHANGED <<vars, handler, shown, dispatches>>

(***************************************************************************)
(* A review: the extension.                                                *)
(***************************************************************************)
\* The watchdog decides to end the command's tree, and then does: SIGTERM, and
\* SIGKILL three seconds later.
Watchdog(w) ==
    /\ handler[w] = "waiting" /\ pc[w] # "exited"
    /\ handler' = [handler EXCEPT ![w] = "stopping"]
    /\ UNCHANGED <<vars, process, shown, dispatches>>

Terminate(w) ==
    /\ handler[w] = "stopping" /\ pc[w] # "exited"
    /\ Exit(w, "failed")
    /\ UNCHANGED <<vars, handler, shown, dispatches>>

\* Mutant: whether the buttons were delivered is not asked.
ReplyToProposal(w) ==
    CASE verdict[w] \in {"delivered", "undelivered"} -> "silent"
      [] verdict[w] \in {"declined", "skipped"}      -> "decision"
      [] OTHER                                       -> "failed"

\* renderReviewResult: no answer if the proposal's own message was delivered;
\* what a stopped command has printed counts like that of any other.
ReplyTo(w) ==
    CASE verdict[w] = "delivered"               -> "silent"
      [] verdict[w] \in {"declined", "skipped"} -> "decision"
      [] OTHER                                  -> "failed"

\* Mutant: the answer does not wait for the end of the command's tree.
AnswerOnTimeout(w) ==
    /\ handler[w] # "idle"
    /\ pc[w] = "exited" \/ handler[w] = "stopping"
    /\ handler' = [handler EXCEPT ![w] = "idle"]
    /\ IF pc[w] = "exited" THEN Clear(w) ELSE UNCHANGED process
    /\ UNCHANGED <<vars, shown, dispatches>>

\* The callback of execFile runs when the command has exited, and waits for a
\* termination that has begun.
Answer(w) ==
    /\ handler[w] # "idle" /\ pc[w] = "exited"
    /\ handler' = [handler EXCEPT ![w] = "idle"]
    /\ Clear(w)
    /\ UNCHANGED <<vars, shown, dispatches>>

\* The clock, and the owner on another way.
Surroundings ==
    \/ Tick
    \/ \E c \in Candidates : DismissCandidate(c)
    \/ \E p \in Proposals : RejectProposal(p)

ScanStep(w) ==
    \/ AskConfirmation(w)
    \/ Confirm(w)
    \/ RecordCandidate(w)
    \/ EndScan(w)

ReviewStep(w) ==
    \/ ReadCandidate(w)
    \/ AskAgent(w)
    \/ RetryEmpty(w)
    \/ Decide(w)
    \/ Skip(w)
    \/ CheckSlots(w)
    \/ \E p \in Proposals : Propose(w, p)
    \/ Deliver(w)
    \/ Fail(w)

ReviewNext ==
    \/ \E w \in Workers, c \in Candidates : BeginScan(w, c) \/ Dispatch(w, c)
    \/ \E w \in Workers :
          ScanStep(w) \/ ReviewStep(w) \/ Watchdog(w) \/ Terminate(w) \/ Answer(w)
    \/ Surroundings /\ UNCHANGED locals

\* Every wait of the command has a timeout (codex.timeout_seconds, 20 s for a
\* message, 8 s for the ledger's lock), after which it goes on or raises; the
\* extension's callbacks are run by its event loop.
ReviewFairness ==
    \A w \in Workers :
        /\ WF_allVars(ReviewStep(w))
        /\ WF_allVars(Terminate(w))
        /\ WF_allVars(Answer(w))

ReviewSpec == ReviewInit /\ [][ReviewNext]_allVars /\ ReviewFairness

-----------------------------------------------------------------------------
(***************************************************************************)
(* Properties.                                                             *)
(***************************************************************************)
\* Nothing runs behind the owner's back: once the extension has answered, the
\* command it spawned can create and send nothing more.
AnsweredMeansEnded ==
    \A w \in Workers : pc[w] \in Reviewing \cup {"exited"} => handler[w] # "idle"

\* On the two routes that ask the agent, the scan and the review of a candidate:
\* a candidate is recorded, and a proposal made of it, only by a process whose
\* agent read the market when the candidate's candle was the last one closed,
\* however long agent, retry and ledger took.  (A manual `proposal create`, the
\* demonstration and a scan of synthetic or fixture data ask no agent and are
\* not in this specification.)
RestsOnItsCandle ==
    [][\A c \in Candidates :
        \/ candStatus[c] = "ABSENT" /\ candStatus'[c] = "ACTIVE"
        \/ candStatus[c] = "ACTIVE" /\ candStatus'[c] = "PROPOSED"
        => \E w \in Workers :
              /\ pc[w] # pc'[w] /\ job[w] = c
              /\ read[w] # None /\ Closed(read[w]) = CandleOf[c]]_allVars

\* The extension keeps silent only if the buttons of the proposal that its
\* command made have reached the owner.
SilenceMeansButtons ==
    [][\A w \in Workers :
        handler[w] # "idle" /\ handler'[w] = "idle" /\ ReplyTo(w) = "silent"
            => made[w] \in shown /\ source[made[w]] = job[w]]_allVars

\* Whatever agent, ledger and messenger do, and whether or not the watchdog
\* fires, the owner gets an answer to each review he asked for.
ReviewIsAnswered ==
    \A w \in Workers : handler[w] # "idle" ~> handler[w] = "idle"

=============================================================================

----------------------------- MODULE LiveSession -----------------------------
(***************************************************************************)
(* The switches behind a LIVE entry: the authorization with its            *)
(* challenges, the arm file, the proofs of a preflight, the prepared       *)
(* tickets and the risk epoch.  Each is kept in a row, an event or a file  *)
(* of its own, and nothing locks two of them.                              *)
(*                                                                         *)
(* A process is one call of a command or a button.  A step is one          *)
(* transaction, one file operation or one network exchange, with the reads *)
(* that directly precede it.                                               *)
(***************************************************************************)
EXTENDS Naturals, Sequences, FiniteSets, SequencesExt

CONSTANTS
    Workers,        \* processes that run at the same time
    Entries,        \* LIVE BUY proposals
    AuthTime,       \* lifetime of an authorization and of its arm
    ChallengeTime,  \* lifetime of a challenge
    TicketTime,     \* lifetime of a prepared session
    ProofTime,      \* lifetime of the decimal transport proof
    BlockTime,      \* length of a rate-limit block with a known end
    ArmTime,        \* lifetime of an arm set on the command line
    MaxTime, MaxGrants, MaxTickets, MaxEpochEvents, MaxLaunches,  \* bounds
    SharedSymbol,   \* the session's symbol is the one of the decimal proof
    None,           \* NULL, an absent file, no event
    Unknown         \* a block without a known end

ASSUME SessionAssumption ==
    /\ {AuthTime, ChallengeTime, TicketTime, ProofTime, BlockTime, ArmTime} \subseteq Nat \ {0}
    /\ {MaxTime, MaxGrants, MaxTickets, MaxEpochEvents, MaxLaunches} \subseteq Nat
    /\ SharedSymbol \in BOOLEAN
    /\ None \notin Nat /\ Unknown \notin Nat \cup {None}

VARIABLES
    now,        \* the clock
    enabled,    \* live.enabled in the configuration file
    challenge,  \* when the open challenge of each operation ends
    grants,     \* rows of live_authorizations, oldest first
    arm,        \* the arm file
    permission, \* the newest trade permission proof
    decimal,    \* when the newest decimal transport proof ends
    circuit,    \* when the rate-limit block ends
    ticket,     \* the newest live.session_prepared
    spent,      \* the ticket named by the newest consumed event
    void,       \* the ticket named by the newest invalidated event
    recovery,   \* the newest live.recovery_session_prepared
    epochs,     \* the live.risk_epoch events
    entry,      \* status of each LIVE BUY proposal
    sent,       \* whether its order was written to the exchange
    seen,       \* what held at some moment since it was claimed (history)
    launched,   \* number of calls so far (bound)
    proc        \* the calls in progress

files == <<enabled, arm, circuit>>
proofs == <<permission, decimal>>
tickets == <<ticket, spent, void, recovery>>
orders == <<entry, sent, seen>>
vars == <<now, files, challenge, grants, proofs, tickets, epochs, orders, launched, proc>>

-----------------------------------------------------------------------------
(* What the tables, events and files say.                                  *)

Operations == {"ACTIVATE", "DEACTIVATE"}
Commands == {"activate", "deactivate", "prepare", "arm", "disarm", "disable",
             "verify", "verifyDecimal", "recover", "armRecovery", "finalize", "propose", "approve"}

InForce(g) == grants[g].status = "ACTIVE"

\* active_live_authorization: the newest ACTIVE row, 0 when there is none.
ActiveGrant ==
    IF \E g \in DOMAIN grants : InForce(g)
    THEN CHOOSE g \in DOMAIN grants : InForce(g) /\ \A h \in DOMAIN grants : InForce(h) => h <= g
    ELSE 0

Unexpired(g) == g # 0 /\ grants[g].expires > now

Armed == arm # None /\ arm.expires > now
FullArm == Armed /\ arm.scope = "FULL"
ExitOnly == Armed /\ arm.scope = "EXIT_ONLY"

Blocked == circuit # None /\ (circuit = Unknown \/ circuit > now)

\* The effective epoch is the one whose newest event is newest: the last event.
NoEpoch == [id |-> 0, status |-> "NONE"]
Effective == IF epochs = <<>> THEN NoEpoch ELSE Last(epochs)
NextEpochId == 1 + Cardinality({epochs[i].id : i \in DOMAIN epochs})

\* A permission proof is checked against an authorization when there is one,
\* and only for its expiry when there is none.
PermissionValid(proof, g) ==
    /\ proof # None
    /\ proof.expires > now
    /\ g # 0 => /\ proof.grant = g
                /\ proof.expires <= grants[g].expires
                /\ Unexpired(g)

DecimalValid(ends) == ends # None /\ ends > now

TicketValid(t) ==
    /\ t # None /\ t.expires > now
    /\ ~Blocked
    /\ PermissionValid(permission, 0)
    /\ DecimalValid(decimal)
    /\ t.id \notin {spent, void}

PendingExpired == [e \in Entries |-> IF entry[e] = "PENDING" THEN "EXPIRED" ELSE entry[e]]

(***************************************************************************)
(* A process: its next step and command, the gate it stands at, the step   *)
(* after an excursion, its proposal, the configuration it was started      *)
(* with, and what it has read: the authorization of the gate and of the    *)
(* preflight, proofs, arm, market, readiness so far, epoch and ticket.     *)
(***************************************************************************)
Idle == [at |-> "idle", cmd |-> None, phase |-> None, next |-> None, entry |-> None,
         on |-> FALSE, grant |-> 0, active |-> 0, perm |-> None, dec |-> None,
         armed |-> FALSE, ok |-> FALSE, fresh |-> FALSE, again |-> FALSE,
         market |-> FALSE, held |-> NoEpoch, ticket |-> None]

FirstStep ==
    [activate |-> "confirm", deactivate |-> "confirmOff", prepare |-> "preflight",
     verify |-> "verify", verifyDecimal |-> "attestDecimal",
     arm |-> "armCheck", disarm |-> "armOff", disable |-> "switchOff",
     recover |-> "recoverRead", armRecovery |-> "armRecovery",
     finalize |-> "finalizeRead", propose |-> "gate", approve |-> "gate"]

At(w, label) == proc[w].at = label
Become(w, p) == proc' = [proc EXCEPT ![w] = p]
Goto(w, label) == Become(w, [proc[w] EXCEPT !.at = label])
Finish(w) == Become(w, Idle)

Epoch(id, status) == [id |-> id, status |-> status]

\* A new installation; or a session that was activated before, whose epoch is
\* active, on hold with a recovery prepared, or active again after that.
Init ==
    /\ now = 0
    /\ challenge = [o \in Operations |-> None]
    /\ \/ /\ enabled = FALSE /\ grants = <<>> /\ arm = None
          /\ permission = None /\ decimal = None /\ epochs = <<>> /\ recovery = None
       \/ /\ enabled = TRUE
          /\ grants = <<[status |-> "ACTIVE", expires |-> AuthTime]>>
          /\ arm = [scope |-> "FULL", expires |-> AuthTime]
          /\ permission = [grant |-> 1, expires |-> AuthTime]
          /\ decimal = ProofTime
          /\ \/ /\ epochs = <<Epoch(1, "ACTIVE")>> /\ recovery = None
             \/ /\ epochs \in {<<Epoch(1, "RECONCILE")>>, <<Epoch(1, "CLOSED"), Epoch(2, "ACTIVE")>>}
                /\ recovery = [epoch |-> 1, expires |-> TicketTime]
    /\ circuit = None
    /\ ticket = None /\ spent = 0 /\ void = 0
    /\ entry \in [Entries -> CASE ~enabled         -> {"ABSENT"}
                              [] recovery = None  -> {"ABSENT", "PENDING"}
                              [] OTHER            -> {"PENDING"}]
    /\ sent = [e \in Entries |-> FALSE]
    /\ seen = [e \in Entries |-> {}]
    /\ launched = 0
    /\ proc = [w \in Workers |-> Idle]

-----------------------------------------------------------------------------
(* The environment.                                                        *)

Tick ==
    /\ now < MaxTime
    /\ now' = now + 1
    /\ UNCHANGED <<files, challenge, grants, proofs, tickets, epochs, orders, launched, proc>>

\* request_live_activation and request_live_deactivation; not once nobody is
\* left to confirm (bound).
RequestChallenge(o) ==
    /\ launched < MaxLaunches
    /\ challenge' = [challenge EXCEPT ![o] = now + ChallengeTime]
    /\ UNCHANGED <<now, files, grants, proofs, tickets, epochs, orders, launched, proc>>

\* The operator removes the rate-limit file.
ClearCircuit ==
    /\ circuit' = None
    /\ UNCHANGED <<now, enabled, arm, challenge, grants, proofs, tickets, epochs, orders, launched, proc>>

\* A crash, or an exception that leaves the call.
Stop(w) ==
    /\ ~At(w, "idle")
    /\ Finish(w)
    /\ UNCHANGED <<now, files, challenge, grants, proofs, tickets, epochs, orders, launched>>

\* An exchange answers with a rate limit: with the end of the block or without.
Trip == circuit' \in {Unknown, now + BlockTime}

-----------------------------------------------------------------------------
(* An elapsed authorization is expired by whoever meets it first: every    *)
(* constructor, and every entry gate.  The rest of the expiry follows in   *)
(* steps of its own, and nobody repeats it.                                *)

ExpireThen(w, p) ==
    /\ IF ActiveGrant # 0 /\ ~Unexpired(ActiveGrant)
       THEN /\ grants' = [grants EXCEPT ![ActiveGrant].status = "EXPIRED"]
            /\ Become(w, [p EXCEPT !.at = "disarmExpired", !.next = p.at])
       ELSE /\ UNCHANGED grants
            /\ Become(w, p)
    /\ UNCHANGED <<now, files, challenge, proofs, tickets, epochs, entry, sent>>

Launch(w, c, e) ==
    /\ At(w, "idle")
    /\ launched < MaxLaunches
    /\ launched' = launched + 1
    /\ UNCHANGED seen
    /\ (e # None) <=> (c \in {"propose", "approve"})
    /\ ExpireThen(w, [Idle EXCEPT !.at = FirstStep[c], !.cmd = c, !.entry = e, !.on = enabled,
                                  !.phase = CASE c = "propose" -> "propose"
                                              [] c = "approve" -> "claim"
                                              [] OTHER -> None])

DisarmExpired(w) ==
    /\ At(w, "disarmExpired")
    /\ arm' = None
    /\ Goto(w, "invalidateExpired")
    /\ UNCHANGED <<now, enabled, circuit, challenge, grants, proofs, tickets, epochs, orders, launched>>

InvalidateExpired(w) ==
    /\ At(w, "invalidateExpired")
    /\ entry' = PendingExpired
    /\ Become(w, [proc[w] EXCEPT !.at = proc[w].next, !.next = None])
    /\ UNCHANGED <<now, files, challenge, grants, proofs, tickets, epochs, sent, seen, launched>>

-----------------------------------------------------------------------------
(* prepare_live_session: read, probe, attest what is missing, and leave an *)
(* epoch and a ticket.  An activation, the operator and the entry gate     *)
(* call it.                                                                *)

Leave(w, label) ==
    Become(w, [proc[w] EXCEPT !.at = label, !.perm = None, !.dec = None, !.active = 0,
                              !.armed = FALSE, !.ok = FALSE, !.market = FALSE])

Commanded(w) == proc[w].cmd \in {"prepare", "verify", "verifyDecimal"}

PreflightDone(w, ok) ==
    CASE proc[w].cmd = "activate" -> Leave(w, IF ok THEN "armFull" ELSE "revoke")
      [] Commanded(w)             -> Finish(w)
      [] OTHER                    -> Leave(w, "status")

\* The entry gate swallows an exception of its refresh.
PreflightRaises(w) ==
    IF proc[w].cmd = "activate" \/ Commanded(w) THEN Finish(w) ELSE Leave(w, "status")

Preflight(w) ==
    /\ At(w, "preflight")
    /\ \/ PreflightDone(w, FALSE)          \* blocked, or no backend
       \/ /\ ~Blocked
          /\ Become(w, [proc[w] EXCEPT !.at = "probe", !.perm = permission, !.dec = decimal,
                                       !.active = ActiveGrant, !.armed = Armed])
    /\ UNCHANGED <<now, files, challenge, grants, proofs, tickets, epochs, orders, launched>>

\* The permission is tested again when its proof or the account does not show it.
Probe(w) ==
    /\ At(w, "probe")
    /\ \/ /\ Trip
          /\ PreflightDone(w, FALSE)
       \/ \E account, rest \in BOOLEAN :
            LET p == proc[w]
                current == DecimalValid(p.dec)
            IN  /\ UNCHANGED circuit
                /\ Become(w, [p EXCEPT
                       !.ok = account /\ rest /\ p.on, !.perm = None,
                       !.dec = IF current THEN p.dec ELSE None,
                       !.at = IF ~account \/ ~PermissionValid(p.perm, p.active) THEN "attest"
                              ELSE IF current THEN "conclude" ELSE "attestDecimal"])
    /\ UNCHANGED <<now, enabled, arm, challenge, grants, proofs, tickets, epochs, orders, launched>>

\* verify_live_trade_permission and verify_live_decimal_transport make one order
\* test each, for an authorization that is in force and with market data.
VerifyPermission(w) ==
    /\ At(w, "verify")
    /\ IF ActiveGrant = 0 THEN Finish(w)
       ELSE Become(w, [proc[w] EXCEPT !.at = "attest", !.active = ActiveGrant])
    /\ UNCHANGED <<now, files, challenge, grants, proofs, tickets, epochs, orders, launched>>

\* What becomes of an order test: refused or broken before it is sent, refused by
\* the other side or lost, answered with a rate limit, or passed.
PermissionAnswers == {"RAISED", "FAILURE", "LIMITED", "SUCCESS"}
DecimalAnswers == {"RAISED", "FAILURE", "LIMITED", "SUCCESS"}

Limited(answer) == IF answer = "LIMITED" THEN Trip ELSE UNCHANGED circuit

\* A verification ends with its order test, a preflight goes on.
AfterTest(w, answer, label) ==
    CASE answer = "RAISED"                      -> PreflightRaises(w)
      [] answer = "LIMITED"                     -> PreflightDone(w, FALSE)
      [] Commanded(w) /\ proc[w].cmd # "prepare" -> Finish(w)
      [] OTHER -> Become(w, [proc[w] EXCEPT !.at = label, !.market = (label = "attestDecimal"),
                                            !.ok = @ /\ answer = "SUCCESS"])

\* The proof it leaves names the authorization read before; without one the
\* preflight raises after the test.
Attest(w) ==
    /\ At(w, "attest")
    /\ \E answer \in PermissionAnswers :
         LET p == proc[w]
             outcome == IF answer = "SUCCESS" /\ p.active = 0 THEN "RAISED" ELSE answer
         IN  /\ Limited(outcome)
             /\ permission' = IF outcome = "SUCCESS"
                              THEN [grant |-> p.active, expires |-> grants[p.active].expires]
                              ELSE permission
             /\ AfterTest(w, outcome, IF p.dec = None THEN "attestDecimal" ELSE "conclude")
    /\ UNCHANGED <<now, enabled, arm, challenge, grants, decimal, tickets, epochs, orders, launched>>

\* Market data is at hand when the permission was tested just before, when it is
\* read for another symbol, and for a verification.
HasMarket(w) == proc[w].market \/ ~SharedSymbol \/ proc[w].cmd = "verifyDecimal"

AttestDecimal(w) ==
    /\ At(w, "attestDecimal")
    /\ \E answer \in DecimalAnswers :
         LET outcome == IF HasMarket(w) THEN answer ELSE "RAISED"
         IN  /\ Limited(outcome)
             /\ decimal' = IF outcome = "SUCCESS" THEN now + ProofTime ELSE decimal
             /\ AfterTest(w, outcome, "conclude")
    /\ UNCHANGED <<now, enabled, arm, challenge, grants, permission, tickets, epochs, orders, launched>>

\* An epoch and a ticket only when the arm is the one thing that was missing.
Conclude(w) ==
    /\ At(w, "conclude")
    /\ LET ok == proc[w].ok /\ ~Blocked
       IN  IF ok /\ ~proc[w].armed THEN Goto(w, "epochRead") ELSE PreflightDone(w, ok)
    /\ UNCHANGED <<now, files, challenge, grants, proofs, tickets, epochs, orders, launched>>

\* _ensure_live_risk_epoch reads the newest event and appends one later.
EpochRead(w) ==
    /\ At(w, "epochRead")
    /\ CASE Effective.status = "ACTIVE"    -> Goto(w, "ticket")
         [] Effective.status = "RECONCILE" -> PreflightRaises(w)
         [] OTHER                          -> Goto(w, "epochAppend")
    /\ UNCHANGED <<now, files, challenge, grants, proofs, tickets, epochs, orders, launched>>

EpochAppend(w) ==
    /\ At(w, "epochAppend")
    /\ Len(epochs) < MaxEpochEvents
    /\ epochs' = Append(epochs, Epoch(NextEpochId, "ACTIVE"))
    /\ Goto(w, "ticket")
    /\ UNCHANGED <<now, files, challenge, grants, proofs, tickets, orders, launched>>

LeaveTicket(w) ==
    /\ At(w, "ticket")
    /\ LET id == IF ticket = None THEN 1 ELSE ticket.id + 1
       IN  /\ id <= MaxTickets
           /\ ticket' = [id |-> id, expires |-> now + TicketTime]
    /\ PreflightDone(w, TRUE)
    /\ UNCHANGED <<now, files, challenge, grants, proofs, spent, void, recovery, epochs, orders, launched>>

PreflightStep(w) ==
    \/ VerifyPermission(w) \/ Preflight(w) \/ Probe(w) \/ Attest(w) \/ AttestDecimal(w) \/ Conclude(w)
    \/ EpochRead(w) \/ EpochAppend(w) \/ LeaveTicket(w)

-----------------------------------------------------------------------------
(* Activation and deactivation from Telegram.                              *)

Usable(o) == challenge[o] # None /\ challenge[o] > now

\* A consumed challenge is never open again.
Consume(o) == challenge' = [challenge EXCEPT ![o] = None]

ConfirmActivation(w) ==
    /\ At(w, "confirm")
    /\ IF Usable("ACTIVATE")
       THEN /\ Consume("ACTIVATE")
            /\ Goto(w, IF proc[w].on THEN "grant" ELSE "enable")
       ELSE /\ Finish(w)
            /\ UNCHANGED challenge
    /\ UNCHANGED <<now, files, grants, proofs, tickets, epochs, orders, launched>>

EnableLive(w) ==
    /\ At(w, "enable")
    /\ enabled' = TRUE
    /\ Become(w, [proc[w] EXCEPT !.at = "grant", !.on = TRUE])
    /\ UNCHANGED <<now, arm, circuit, challenge, grants, proofs, tickets, epochs, orders, launched>>

Revoked(g) == IF g.status = "ACTIVE" THEN [g EXCEPT !.status = "REVOKED"] ELSE g

\* A grant renews: the rows before it that are in force are revoked.
Grant(w) ==
    /\ At(w, "grant")
    /\ Len(grants) < MaxGrants
    /\ grants' = Append([g \in DOMAIN grants |-> Revoked(grants[g])],
                        [status |-> "ACTIVE", expires |-> now + AuthTime])
    /\ Goto(w, "preflight")
    /\ UNCHANGED <<now, files, challenge, proofs, tickets, epochs, orders, launched>>

\* revoke_live_authorization ends whatever is in force, if anything.
RevokeNewest ==
    grants' = IF ActiveGrant = 0 THEN grants ELSE [grants EXCEPT ![ActiveGrant].status = "REVOKED"]

PreflightFailed(w) ==
    /\ At(w, "revoke")
    /\ RevokeNewest
    /\ Finish(w)
    /\ UNCHANGED <<now, files, challenge, proofs, tickets, epochs, orders, launched>>

ArmFull(w) ==
    /\ At(w, "armFull")
    /\ arm' = [scope |-> "FULL", expires |-> now + AuthTime]
    /\ Goto(w, "final")
    /\ UNCHANGED <<now, enabled, circuit, challenge, grants, proofs, tickets, epochs, orders, launched>>

\* verify_readiness: what the exchange and the stored proofs show.
Verified(healthy) ==
    /\ healthy /\ ~Blocked
    /\ PermissionValid(permission, ActiveGrant)
    /\ DecimalValid(decimal)

\* readiness: every check at once.
ExecutionReady(verified, on, armed) == verified /\ on /\ armed

\* What live_status finds, given what the network says: not the authorization.
StatusReady(w, healthy) == ExecutionReady(Verified(healthy), proc[w].on, Armed)

FinalStatus(w) ==
    /\ At(w, "final")
    /\ \E healthy \in BOOLEAN : IF StatusReady(w, healthy) THEN Finish(w) ELSE Goto(w, "armOff")
    /\ UNCHANGED <<now, files, challenge, grants, proofs, tickets, epochs, orders, launched>>

ConfirmDeactivation(w) ==
    /\ At(w, "confirmOff")
    /\ IF Usable("DEACTIVATE")
       THEN /\ Consume("DEACTIVATE")
            /\ Goto(w, "revokeUser")
       ELSE /\ Finish(w)
            /\ UNCHANGED challenge
    /\ UNCHANGED <<now, files, grants, proofs, tickets, epochs, orders, launched>>

RevokeByUser(w) ==
    /\ At(w, "revokeUser")
    /\ RevokeNewest
    /\ Goto(w, "armOff")
    /\ UNCHANGED <<now, files, challenge, proofs, tickets, epochs, orders, launched>>

\* Shared by a deactivation, a failed activation and the command line.
Disarm(w) ==
    /\ At(w, "armOff")
    /\ arm' = None
    /\ CASE proc[w].cmd = "deactivate" -> Goto(w, "invalidate")
         [] proc[w].cmd = "activate"   -> Finish(w)
         [] OTHER                      -> Goto(w, "voidTicket")
    /\ UNCHANGED <<now, enabled, circuit, challenge, grants, proofs, tickets, epochs, orders, launched>>

InvalidatePending(w) ==
    /\ At(w, "invalidate")
    /\ entry' = PendingExpired
    /\ Finish(w)
    /\ UNCHANGED <<now, files, challenge, grants, proofs, tickets, epochs, sent, seen, launched>>

TelegramStep(w) ==
    \/ ConfirmActivation(w) \/ EnableLive(w) \/ Grant(w) \/ PreflightFailed(w)
    \/ ArmFull(w) \/ FinalStatus(w)
    \/ ConfirmDeactivation(w) \/ RevokeByUser(w) \/ Disarm(w) \/ InvalidatePending(w)

-----------------------------------------------------------------------------
(* The operator's commands.                                                *)

SwitchOff(w) ==
    /\ At(w, "switchOff")
    /\ enabled' = FALSE
    /\ Goto(w, "armOff")
    /\ UNCHANGED <<now, arm, circuit, challenge, grants, proofs, tickets, epochs, orders, launched>>

VoidTicket(w) ==
    /\ At(w, "voidTicket")
    /\ void' = IF ticket = None THEN void ELSE ticket.id
    /\ Finish(w)
    /\ UNCHANGED <<now, files, challenge, grants, proofs, ticket, spent, recovery, epochs, orders, launched>>

ArmCheck(w) ==
    /\ At(w, "armCheck")
    /\ IF proc[w].on /\ TicketValid(ticket)
       THEN Become(w, [proc[w] EXCEPT !.at = "armTicket", !.ticket = ticket.id])
       ELSE Finish(w)
    /\ UNCHANGED <<now, files, challenge, grants, proofs, tickets, epochs, orders, launched>>

ArmWithTicket(w) ==
    /\ At(w, "armTicket")
    /\ arm' = [scope |-> "FULL", expires |-> now + ArmTime]
    /\ Goto(w, "spendTicket")
    /\ UNCHANGED <<now, enabled, circuit, challenge, grants, proofs, tickets, epochs, orders, launched>>

SpendTicket(w) ==
    /\ At(w, "spendTicket")
    /\ spent' = proc[w].ticket
    /\ Finish(w)
    /\ UNCHANGED <<now, files, challenge, grants, proofs, ticket, void, recovery, epochs, orders, launched>>

\* prepare_live_recovery_session: the epoch is read before the exchange is.
RecoverRead(w) ==
    /\ At(w, "recoverRead")
    /\ IF ~Blocked /\ Effective.status = "RECONCILE"
       THEN Become(w, [proc[w] EXCEPT !.at = "recoverTicket", !.held = Effective])
       ELSE Finish(w)
    /\ UNCHANGED <<now, files, challenge, grants, proofs, tickets, epochs, orders, launched>>

\* Without active protection or valid proofs the call raises: Stop.
RecoverTicket(w) ==
    /\ At(w, "recoverTicket")
    /\ PermissionValid(permission, 0) /\ DecimalValid(decimal)
    /\ recovery' = [epoch |-> proc[w].held.id, expires |-> now + TicketTime]
    /\ Finish(w)
    /\ UNCHANGED <<now, files, challenge, grants, proofs, ticket, spent, void, epochs, orders, launched>>

\* arm_live_recovery: nothing remembers that the ticket was used.
ArmRecovery(w) ==
    /\ At(w, "armRecovery")
    /\ proc[w].on /\ recovery # None /\ recovery.expires > now /\ ~Blocked
    /\ arm' = [scope |-> "EXIT_ONLY", expires |-> now + ArmTime]
    /\ Finish(w)
    /\ UNCHANGED <<now, enabled, circuit, challenge, grants, proofs, tickets, epochs, orders, launched>>

\* finalize_live_risk_epoch: refused while an entry is pending or executing.
FinalizeRead(w) ==
    /\ At(w, "finalizeRead")
    /\ IF /\ Effective.status \in {"ACTIVE", "RECONCILE"} /\ ~Blocked
          /\ \A e \in Entries : entry[e] \notin {"PENDING", "EXECUTING"}
       THEN Become(w, [proc[w] EXCEPT !.at = "finalizeAppend", !.held = Effective])
       ELSE Finish(w)
    /\ UNCHANGED <<now, files, challenge, grants, proofs, tickets, epochs, orders, launched>>

\* Open orders or a tradable balance on the exchange raise: Stop.
FinalizeAppend(w) ==
    /\ At(w, "finalizeAppend")
    /\ Len(epochs) < MaxEpochEvents
    /\ epochs' = Append(epochs, [proc[w].held EXCEPT !.status = "CLOSED"])
    /\ Finish(w)
    /\ UNCHANGED <<now, files, challenge, grants, proofs, tickets, orders, launched>>

OperatorStep(w) ==
    \/ SwitchOff(w) \/ VoidTicket(w) \/ ArmCheck(w) \/ ArmWithTicket(w) \/ SpendTicket(w)
    \/ RecoverRead(w) \/ RecoverTicket(w) \/ ArmRecovery(w)
    \/ FinalizeRead(w) \/ FinalizeAppend(w)


-----------------------------------------------------------------------------
(* The gate every entry passes when it is proposed, when it is approved    *)
(* and once more right before its order is written: the authorization,     *)
(* the readiness and the limits, in that order.  live_entry_readiness      *)
(* expires an elapsed authorization, then derives one decision from a row, *)
(* two events and a file that it reads one after the other.  A proposal    *)
(* and a claim ask it twice in a row.                                      *)

ActiveEntry(e) == entry[e] \in {"PENDING", "EXECUTING"}

\* Leaving the gate with a refusal: a claim refuses its proposal in the
\* ledger, an execution fails it, a proposal has written nothing yet.
Refuse(w) ==
    LET p == proc[w]
    IN  /\ entry' = IF p.phase # "propose" /\ ActiveEntry(p.entry)
                    THEN [entry EXCEPT ![p.entry] = "REFUSED"] ELSE entry
        /\ Finish(w)

\* What the gate asks about, and the history of it: what held at some reading
\* of the gate between the claim and the order.
Facts ==
    (IF Unexpired(ActiveGrant) THEN {"grant"} ELSE {})
    \cup (IF FullArm THEN {"arm"} ELSE {})
    \cup (IF PermissionValid(permission, ActiveGrant) THEN {"permission"} ELSE {})
    \cup (IF DecimalValid(decimal) THEN {"decimal"} ELSE {})
    \cup (IF Effective.status = "ACTIVE" THEN {"epoch"} ELSE {})
    \cup (IF ~Blocked THEN {"clear"} ELSE {})

Witness(w) ==
    seen' = IF proc[w].phase = "execute" THEN [seen EXCEPT ![proc[w].entry] = @ \cup Facts] ELSE seen

Gate(w) ==
    /\ At(w, "gate")
    /\ LET p == proc[w]
           enter == [p EXCEPT !.at = "status", !.fresh = TRUE, !.grant = ActiveGrant]
           status == entry[p.entry]
           turnedAway == /\ ~p.again
                         /\ CASE p.phase = "propose" -> status # "ABSENT" \/ ~p.on \/ ~Armed \/ ExitOnly
                              [] p.phase = "claim"   -> status # "PENDING"
                              [] p.phase = "execute" -> status # "EXECUTING"
       IN  IF turnedAway
           THEN /\ Finish(w)
                /\ UNCHANGED <<now, files, challenge, grants, proofs, tickets, epochs, entry, sent>>
           ELSE ExpireThen(w, IF Unexpired(ActiveGrant) \/ ActiveGrant = 0 THEN enter
                              ELSE [enter EXCEPT !.at = "record"])
    /\ Witness(w)
    /\ UNCHANGED launched

Record(w) ==
    /\ At(w, "record")
    /\ Become(w, [proc[w] EXCEPT !.at = "status", !.grant = ActiveGrant])
    /\ Witness(w)
    /\ UNCHANGED <<now, files, challenge, grants, proofs, tickets, epochs, entry, sent, launched>>

\* live_status, and one refresh when the decimal proof alone went stale.
Status(w) ==
    /\ At(w, "status")
    /\ LET p == proc[w]
           answered(ok) ==
               IF /\ p.fresh /\ p.grant # 0 /\ ~Blocked
                  /\ PermissionValid(permission, ActiveGrant)
                  /\ decimal # None /\ ~DecimalValid(decimal)
               THEN Become(w, [p EXCEPT !.at = "preflight", !.fresh = FALSE])
               ELSE Become(w, [p EXCEPT !.at = "decide", !.fresh = FALSE, !.ok = ok])
       IN  \/ /\ \E healthy \in BOOLEAN : answered(StatusReady(w, healthy))
              /\ UNCHANGED circuit
           \/ /\ ~Blocked /\ Trip
              /\ Become(w, [p EXCEPT !.at = "decide", !.fresh = FALSE, !.ok = FALSE])
    /\ Witness(w)
    /\ UNCHANGED <<now, enabled, arm, challenge, grants, proofs, tickets, epochs, entry, sent, launched>>

\* Mutant: the authorization is left to the proof that names it.
ReadyByProofs(w) ==
    /\ proc[w].ok /\ FullArm
    /\ PermissionValid(permission, ActiveGrant) /\ DecimalValid(decimal)

\* The decision reads the arm and the proofs again, not the authorization.
Ready(w) ==
    /\ proc[w].ok
    /\ Unexpired(proc[w].grant)
    /\ FullArm
    /\ PermissionValid(permission, ActiveGrant) /\ DecimalValid(decimal)

Decide(w) ==
    /\ At(w, "decide")
    /\ LET p == proc[w]
       IN  \/ /\ Ready(w)
              /\ \/ /\ p.phase # "execute" /\ ~p.again
                    /\ Become(w, [p EXCEPT !.at = "gate", !.again = TRUE, !.ok = FALSE])
                 \/ /\ p.phase = "execute" \/ p.again
                    /\ Become(w, [p EXCEPT !.at = "limits", !.again = FALSE, !.ok = FALSE])
              /\ UNCHANGED entry
           \/ /\ ~Ready(w)
              /\ Refuse(w)
    /\ Witness(w)
    /\ UNCHANGED <<now, files, challenge, grants, proofs, tickets, epochs, sent, launched>>

\* The account, the open orders and the session's accounting: a balance that
\* no protection explains also puts the epoch on hold.  A recovery arm that
\* appears before an execution makes the call raise and stops nothing else.
Limits(w) ==
    /\ At(w, "limits")
    /\ LET p == proc[w]
       IN  \/ /\ p.phase = "execute" /\ ExitOnly
              /\ Finish(w)
              /\ UNCHANGED entry
           \/ /\ \/ p.phase = "execute" /\ Armed /\ ~ExitOnly
                 \/ p.phase # "execute" /\ ~ExitOnly
              /\ \/ /\ Effective.status = "ACTIVE"
                    /\ Goto(w, "commit")
                 \/ Goto(w, "holdRead")
              /\ UNCHANGED entry
           \/ Refuse(w)
    /\ Witness(w)
    /\ UNCHANGED <<now, files, challenge, grants, proofs, tickets, epochs, sent, launched>>

\* _mark_live_epoch_reconcile appends the epoch it read, with another status.
HoldRead(w) ==
    /\ At(w, "holdRead")
    /\ Become(w, [proc[w] EXCEPT !.held = Effective,
                                 !.at = IF Effective.status = "ACTIVE" THEN "holdAppend" ELSE "refuse"])
    /\ UNCHANGED <<now, files, challenge, grants, proofs, tickets, epochs, orders, launched>>

HoldAppend(w) ==
    /\ At(w, "holdAppend")
    /\ Len(epochs) < MaxEpochEvents
    /\ epochs' = Append(epochs, [proc[w].held EXCEPT !.status = "RECONCILE"])
    /\ Goto(w, "refuse")
    /\ UNCHANGED <<now, files, challenge, grants, proofs, tickets, orders, launched>>

RefuseHeld(w) ==
    /\ At(w, "refuse")
    /\ Refuse(w)
    /\ UNCHANGED <<now, files, challenge, grants, proofs, tickets, epochs, sent, seen, launched>>

\* The proposal is stored.
Propose(w) ==
    /\ At(w, "commit") /\ proc[w].phase = "propose"
    /\ entry' = IF entry[proc[w].entry] = "ABSENT"
                THEN [entry EXCEPT ![proc[w].entry] = "PENDING"] ELSE entry
    /\ Finish(w)
    /\ UNCHANGED <<now, files, challenge, grants, proofs, tickets, epochs, sent, seen, launched>>

\* claim_proposal: one transaction, only from PENDING.  The caller executes.
ClaimEntry(w) ==
    /\ At(w, "commit") /\ proc[w].phase = "claim"
    /\ IF entry[proc[w].entry] = "PENDING"
       THEN /\ entry' = [entry EXCEPT ![proc[w].entry] = "EXECUTING"]
            /\ Become(w, [proc[w] EXCEPT !.at = "gate", !.phase = "execute"])
       ELSE /\ Finish(w)
            /\ UNCHANGED entry
    /\ UNCHANGED <<now, files, challenge, grants, proofs, tickets, epochs, sent, seen, launched>>

\* The order is written; what becomes of it is LiveExecution's subject.
Write(w) ==
    /\ At(w, "commit") /\ proc[w].phase = "execute"
    /\ sent' = [sent EXCEPT ![proc[w].entry] = TRUE]
    /\ entry' = IF entry[proc[w].entry] = "EXECUTING"
                THEN [entry EXCEPT ![proc[w].entry] = "EXECUTED"] ELSE entry
    /\ Finish(w)
    /\ UNCHANGED <<now, files, challenge, grants, proofs, tickets, epochs, seen, launched>>

EntryStep(w) ==
    \/ Gate(w) \/ Record(w) \/ Status(w) \/ Decide(w) \/ Limits(w)
    \/ HoldRead(w) \/ HoldAppend(w) \/ RefuseHeld(w)
    \/ Propose(w) \/ ClaimEntry(w) \/ Write(w)

-----------------------------------------------------------------------------

Next ==
    \/ Tick
    \/ \E o \in Operations : RequestChallenge(o)
    \/ ClearCircuit
    \/ \E w \in Workers :
         \/ Stop(w)
         \/ \E c \in Commands, e \in Entries \cup {None} : Launch(w, c, e)
         \/ DisarmExpired(w) \/ InvalidateExpired(w)
         \/ PreflightStep(w) \/ TelegramStep(w) \/ OperatorStep(w) \/ EntryStep(w)

Spec == Init /\ [][Next]_vars

-----------------------------------------------------------------------------
(* Properties.                                                             *)

FactNames == {"grant", "arm", "permission", "decimal", "epoch", "clear"}

\* The gate reads six things that nobody locks, and any of them may change
\* before the next is read and before the order is written.  What the gate
\* still promises: no order of an entry is written unless, since its claim,
\* the authorization was in force, the arm was full, the permission proof valid
\* and, while an authorization was in force, of that one, the decimal proof
\* valid, the newest epoch active and no rate limit in force, each at some
\* moment (execute_live, live_entry_readiness, _validate_live_entry_limits).
SentVouched == \A e \in Entries : sent[e] => seen[e] = FactNames

=============================================================================

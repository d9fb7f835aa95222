-------------------------- MODULE LiveSessionProofs --------------------------
(***************************************************************************)
(* Theorem about LiveSession, for any number of calls, entries, grants,    *)
(* tickets and epochs and for every lifetime: no order of an entry is      *)
(* written unless each of the five switches was seen in force after its    *)
(* claim.                                                                  *)
(***************************************************************************)
EXTENDS LiveSession, FiniteSetTheorems, TLAPS

Deciding == {"decide", "limits", "commit"}
Excursion == {"disarmExpired", "invalidateExpired"}
Ordinary == {"idle", "preflight", "probe", "attest", "verify", "attestDecimal",
             "conclude", "epochRead", "epochAppend", "ticket", "confirm", "enable",
             "grant", "revoke", "armFull", "final", "confirmOff", "revokeUser",
             "armOff", "invalidate", "switchOff", "voidTicket", "armCheck",
             "armTicket", "spendTicket", "recoverRead", "recoverTicket",
             "armRecovery", "finalizeRead", "finalizeAppend", "gate", "record",
             "status", "holdRead", "holdAppend", "refuse"}
Labels == Ordinary \cup Deciding \cup Excursion

\* Where a call goes on after it expired an authorization.
Resumes == {"confirm", "confirmOff", "preflight", "verify", "attestDecimal",
            "armCheck", "armOff", "switchOff", "recoverRead", "armRecovery",
            "finalizeRead", "gate", "record"}

Phases == {"propose", "claim", "execute"}
Instants == Nat \cup {None}
Rows == [status : {"ACTIVE", "EXPIRED", "REVOKED"}, expires : Nat]
Proofs == {None} \cup [grant : Nat, expires : Nat]
EpochEvents == [id : Nat, status : {"NONE", "ACTIVE", "RECONCILE", "CLOSED"}]
Calls == [at : Labels, cmd : Commands \cup {None}, phase : Phases \cup {None},
          next : Resumes \cup {None}, entry : Entries \cup {None}, on : BOOLEAN,
          grant : Nat, active : Nat, perm : Proofs, dec : Instants,
          armed : BOOLEAN, ok : BOOLEAN, fresh : BOOLEAN, again : BOOLEAN,
          market : BOOLEAN, held : EpochEvents, ticket : Instants]

SessionType ==
    /\ now \in Nat
    /\ enabled \in BOOLEAN
    /\ grants \in Seq(Rows)
    /\ permission \in Proofs
    /\ decimal \in Instants
    /\ ticket \in {None} \cup [id : Nat, expires : Nat]
    /\ epochs \in Seq(EpochEvents)
    /\ sent \in [Entries -> BOOLEAN]
    /\ seen \in [Entries -> SUBSET FactNames]
    /\ proc \in [Workers -> Calls]

\* What the gate of an execution has established on its way to the order: the
\* authorization it has read was in force when it was read, if it is now.
Evidence(p, facts) ==
    /\ p.at # "gate" /\ p.grant # 0 /\ grants[p.grant].expires > now => "grant" \in facts
    /\ p.at = "decide" /\ p.ok => "clear" \in facts
    /\ p.at = "limits" => {"grant", "arm", "permission", "decimal", "clear"} \subseteq facts
    /\ p.at = "commit" => facts = FactNames

CallInv(w) ==
    /\ proc[w].grant <= Len(grants) /\ proc[w].active <= Len(grants)
    /\ proc[w].at \in Excursion => proc[w].next \in Resumes
    /\ proc[w].phase = "execute" /\ proc[w].entry \in Entries =>
         Evidence(proc[w], seen[proc[w].entry])

\* A grant ends those before it.
NewestInForce == \A g \in 1..Len(grants) : InForce(g) => g = Len(grants)

SessionInv ==
    /\ SessionType
    /\ NewestInForce
    /\ \A w \in Workers : CallInv(w)
    /\ SentVouched

-----------------------------------------------------------------------------
(***************************************************************************)
(* Steps of one call.                                                      *)
(***************************************************************************)

\* Rows are added and end, but their term stays; what was seen stays seen.
Grows ==
    /\ now <= now'
    /\ Len(grants) <= Len(grants')
    /\ \A g \in 1..Len(grants) : grants'[g].expires = grants[g].expires
    /\ \A e \in Entries : seen[e] \subseteq seen'[e]

LEMMA OneCall ==
    ASSUME SessionInv, NEW w \in Workers, SessionType', Grows,
           \A v \in Workers \ {w} : proc'[v] = proc[v],
           NewestInForce', CallInv(w)', SentVouched'
    PROVE  SessionInv'
<1>1. ASSUME NEW v \in Workers \ {w} PROVE CallInv(v)'
  <2> DEFINE p == proc[v]
  <2>1. CallInv(v) /\ p \in Calls /\ proc'[v] = p
    BY DEF SessionInv, SessionType
  <2>2. p.grant \in Nat /\ p.active \in Nat /\ Len(grants) \in Nat /\ Len(grants') \in Nat
    BY <2>1 DEF Calls, SessionInv, SessionType
  <2>3. p.grant <= Len(grants') /\ p.active <= Len(grants')
    BY <2>1, <2>2 DEF CallInv, Grows
  <2>4. ASSUME p.phase = "execute", p.entry \in Entries
        PROVE  Evidence(proc[v], seen[p.entry])'
    <3>1. Evidence(p, seen[p.entry]) /\ seen[p.entry] \subseteq seen'[p.entry]
      BY <2>1, <2>4 DEF CallInv, Grows
    <3>2. p.grant # 0 => grants'[p.grant].expires = grants[p.grant].expires
      BY <2>1, <2>2 DEF CallInv, Grows
    <3>3. p.grant # 0 => grants[p.grant].expires \in Nat
      <4>1. p.grant # 0 => p.grant \in 1..Len(grants)
        BY <2>1, <2>2 DEF CallInv
      <4>2. \A g \in 1..Len(grants) : grants[g] \in Rows
        BY DEF SessionInv, SessionType
      <4> QED BY <4>1, <4>2 DEF Rows
    <3>4. now \in Nat /\ now' \in Nat /\ now <= now'
      BY DEF SessionInv, SessionType, Grows
    <3>5. seen'[p.entry] \subseteq FactNames
      BY <2>4 DEF SessionType
    <3>6. p.grant # 0 /\ grants'[p.grant].expires > now' => grants[p.grant].expires > now
      BY <3>2, <3>3, <3>4
    <3>7. (p.at # "gate" /\ p.grant # 0 /\ grants'[p.grant].expires > now'
              => "grant" \in seen'[p.entry])
      BY <3>1, <3>6 DEF Evidence
    <3> QED BY <2>1, <3>1, <3>5, <3>7 DEF Evidence
  <2> QED BY <2>1, <2>3, <2>4 DEF CallInv
<1> QED BY <1>1 DEF SessionInv

\* A call that ends, or goes on with the authorization and the proposal it has
\* and not yet to where the gate decides.
GoesOn(w, q) ==
    /\ q \in Calls
    /\ proc[w].at # "gate"
    /\ q.phase = proc[w].phase /\ q.entry = proc[w].entry /\ q.grant = proc[w].grant
    /\ q.active \in {0, proc[w].active, ActiveGrant}
    /\ q.at \in Ordinary \/ (q.at \in Excursion /\ q.next \in Resumes)

Plain(w) == \E q : Become(w, q) /\ (q = Idle \/ GoesOn(w, q))

LEMMA ActiveGrantType ==
    ASSUME SessionInv
    PROVE  /\ ActiveGrant \in Nat /\ ActiveGrant <= Len(grants)
           /\ ActiveGrant # 0 => ActiveGrant = Len(grants) /\ InForce(ActiveGrant)
<1>1. DOMAIN grants = 1..Len(grants) /\ Len(grants) \in Nat
  BY DEF SessionInv, SessionType
<1>2. CASE \E g \in DOMAIN grants : InForce(g)
  <2>1. Len(grants) \in DOMAIN grants /\ InForce(Len(grants))
    BY <1>1, <1>2 DEF SessionInv, NewestInForce
  <2>2. \A h \in DOMAIN grants : InForce(h) => h <= Len(grants)
    BY <1>1
  <2>3. /\ ActiveGrant \in DOMAIN grants /\ InForce(ActiveGrant)
    BY <1>2, <2>1, <2>2 DEF ActiveGrant
  <2>4. ActiveGrant = Len(grants)
    BY <1>1, <2>3 DEF SessionInv, NewestInForce
  <2> QED BY <1>1, <2>3, <2>4
<1>3. CASE ~ \E g \in DOMAIN grants : InForce(g)
  BY <1>1, <1>3 DEF ActiveGrant
<1> QED BY <1>2, <1>3

LEMMA PlainType ==
    ASSUME SessionInv, NEW w \in Workers, Plain(w)
    PROVE  proc' \in [Workers -> Calls]
<1>1. Idle \in Calls
  BY DEF Idle, Calls, NoEpoch, Proofs, Instants, EpochEvents, Labels, Ordinary
<1> QED BY <1>1 DEF Plain, Become, GoesOn, SessionInv, SessionType

LEMMA PlainStep ==
    ASSUME SessionInv, NEW w \in Workers, SessionType', Plain(w),
           UNCHANGED <<now, seen, sent>>, Grows, NewestInForce'
    PROVE  SessionInv'
<1>1. /\ CallInv(w) /\ proc[w] \in Calls /\ proc \in [Workers -> Calls]
      /\ ActiveGrant \in Nat /\ ActiveGrant <= Len(grants)
  BY ActiveGrantType DEF SessionInv, SessionType
<1>2. Len(grants) \in Nat /\ Len(grants') \in Nat /\ Len(grants) <= Len(grants')
  BY DEF SessionInv, SessionType, Grows
<1>3. PICK q : Become(w, q) /\ (q = Idle \/ GoesOn(w, q))
  BY DEF Plain
<1>4. proc'[w] = q /\ \A v \in Workers \ {w} : proc'[v] = proc[v]
  BY <1>1, <1>3 DEF Become
<1>5. CASE q = Idle
  <2>1. CallInv(w)'
    BY <1>2, <1>4, <1>5 DEF CallInv, Idle, Evidence, Excursion
  <2> QED BY <1>4, <2>1, OneCall DEF SessionInv, SentVouched
<1>6. CASE GoesOn(w, q)
  <2>1. q.grant <= Len(grants') /\ q.active <= Len(grants')
    <3>1. /\ proc[w].grant \in Nat /\ proc[w].grant <= Len(grants)
          /\ proc[w].active \in Nat /\ proc[w].active <= Len(grants)
      BY <1>1 DEF CallInv, Calls
    <3>2. q.grant = proc[w].grant /\ q.active \in {0, proc[w].active, ActiveGrant}
      BY <1>6 DEF GoesOn
    <3> QED BY <1>1, <1>2, <3>1, <3>2
  <2>2. ASSUME q.phase = "execute", q.entry \in Entries
        PROVE  Evidence(proc[w], seen[q.entry])'
    <3>1. Evidence(proc[w], seen[q.entry]) /\ seen' = seen /\ now' = now
      BY <1>1, <1>6, <2>2 DEF CallInv, GoesOn
    <3>2. q.grant # 0 => grants'[q.grant].expires = grants[q.grant].expires
      BY <1>1, <1>2, <1>6 DEF CallInv, Calls, Grows, GoesOn
    <3>3. q.grant = proc[w].grant /\ proc[w].at # "gate"
      BY <1>6 DEF GoesOn
    <3>4. q.at \notin {"decide", "limits", "commit"}
      BY <1>6 DEF GoesOn, Ordinary, Excursion
    <3> QED BY <1>4, <3>1, <3>2, <3>3, <3>4 DEF Evidence
  <2>3. q.at \in Excursion => q.next \in Resumes
    BY <1>6 DEF GoesOn, Ordinary, Excursion
  <2>4. CallInv(w)'
    BY <1>4, <2>1, <2>2, <2>3 DEF CallInv
  <2> QED BY <1>4, <2>4, OneCall DEF SessionInv, SentVouched
<1> QED BY <1>3, <1>5, <1>6

\* Most steps leave the authorizations and the history alone.
Calm == UNCHANGED <<now, grants, seen, sent>>

Stored ==
    /\ enabled' \in BOOLEAN
    /\ permission' \in Proofs
    /\ decimal' \in Instants
    /\ ticket' \in {None} \cup [id : Nat, expires : Nat]
    /\ epochs' \in Seq(EpochEvents)

LEMMA CalmStep ==
    ASSUME SessionInv, NEW w \in Workers, Plain(w), Calm, Stored
    PROVE  SessionInv'
<1>1. Grows
  BY DEF Calm, Grows, SessionInv, SessionType
<1>2. NewestInForce'
  BY DEF Calm, SessionInv, NewestInForce, InForce
<1>3. SessionType'
  BY PlainType DEF Calm, Stored, SessionInv, SessionType
<1> QED BY <1>1, <1>2, <1>3, PlainStep DEF Calm

\* The ways a call goes on.
LEMMA FinishPlain == ASSUME NEW w \in Workers, Finish(w) PROVE Plain(w)
BY DEF Finish, Plain

LEMMA GotoPlain ==
    ASSUME SessionInv, NEW w \in Workers, proc[w].at # "gate",
           NEW label \in Ordinary, Goto(w, label)
    PROVE  Plain(w)
<1> DEFINE q == [proc[w] EXCEPT !.at = label]
<1>1. proc[w] \in Calls /\ label \in Labels
  BY DEF SessionInv, SessionType, Labels
<1>2. q \in Calls
  BY <1>1 DEF Calls
<1>3. /\ q.at = label /\ q.phase = proc[w].phase /\ q.entry = proc[w].entry
      /\ q.grant = proc[w].grant /\ q.active = proc[w].active
  BY <1>1 DEF Calls
<1>4. GoesOn(w, q)
  <2> HIDE DEF q
  <2> QED BY <1>2, <1>3 DEF GoesOn
<1> QED BY <1>4 DEF Goto, Plain

LEMMA LeavePlain ==
    ASSUME SessionInv, NEW w \in Workers, proc[w].at # "gate",
           NEW label \in Ordinary, Leave(w, label)
    PROVE  Plain(w)
<1> DEFINE q == [proc[w] EXCEPT !.at = label, !.perm = None, !.dec = None, !.active = 0,
                                !.armed = FALSE, !.ok = FALSE, !.market = FALSE]
<1>1. proc[w] \in Calls /\ label \in Labels
  BY DEF SessionInv, SessionType, Labels
<1>2. q \in Calls
  BY <1>1 DEF Calls, Proofs, Instants
<1>3. /\ q.at = label /\ q.phase = proc[w].phase /\ q.entry = proc[w].entry
      /\ q.grant = proc[w].grant /\ q.active = 0
  BY <1>1 DEF Calls
<1>4. GoesOn(w, q)
  <2> HIDE DEF q
  <2> QED BY <1>2, <1>3 DEF GoesOn
<1> QED BY <1>4 DEF Leave, Plain

LEMMA PreflightEnds ==
    ASSUME SessionInv, NEW w \in Workers, proc[w].at # "gate",
           PreflightRaises(w) \/ \E ok \in BOOLEAN : PreflightDone(w, ok)
    PROVE  Plain(w)
<1>1. CASE Finish(w)
  BY <1>1, FinishPlain
<1>2. ASSUME NEW label \in {"armFull", "revoke", "status"}, Leave(w, label) PROVE Plain(w)
  BY <1>2, LeavePlain DEF Ordinary
<1> QED BY <1>1, <1>2 DEF PreflightRaises, PreflightDone

LEMMA GatePasses ==
    ASSUME SessionInv
    PROVE  /\ enabled \in BOOLEAN /\ permission \in Proofs /\ decimal \in Instants
           /\ ticket \in {None} \cup [id : Nat, expires : Nat]
           /\ epochs \in Seq(EpochEvents) /\ ActiveGrant \in Nat /\ now \in Nat
BY ActiveGrantType DEF SessionInv, SessionType

-----------------------------------------------------------------------------
(***************************************************************************)
(* prepare_live_session and the verifications of the command line.         *)
(***************************************************************************)
LEMMA VerifyPermissionInv ==
    ASSUME SessionInv, NEW w \in Workers, VerifyPermission(w) PROVE SessionInv'
<1> DEFINE q == [proc[w] EXCEPT !.at = "attest", !.active = ActiveGrant]
<1>1. proc[w] \in Calls /\ proc[w].at = "verify" /\ "attest" \in Labels
  BY DEF VerifyPermission, At, SessionInv, SessionType, Labels, Ordinary
<1>2. q \in Calls
  BY <1>1, GatePasses DEF Calls
<1>3. /\ q.at = "attest" /\ q.phase = proc[w].phase /\ q.entry = proc[w].entry
      /\ q.grant = proc[w].grant /\ q.active = ActiveGrant
  BY <1>1 DEF Calls
<1>4. GoesOn(w, q)
  <2> HIDE DEF q
  <2> QED BY <1>1, <1>2, <1>3 DEF GoesOn, Ordinary
<1>5. Plain(w)
  BY <1>4, FinishPlain DEF VerifyPermission, Plain
<1>6. Calm /\ Stored
  BY GatePasses DEF VerifyPermission, Calm, Stored, files, proofs, tickets, orders
<1> QED BY <1>5, <1>6, CalmStep

LEMMA PreflightInv == ASSUME SessionInv, NEW w \in Workers, Preflight(w) PROVE SessionInv'
<1> DEFINE q == [proc[w] EXCEPT !.at = "probe", !.perm = permission, !.dec = decimal,
                                !.active = ActiveGrant, !.armed = Armed]
<1>1. proc[w] \in Calls /\ proc[w].at = "preflight" /\ "probe" \in Labels /\ Armed \in BOOLEAN
  BY DEF Preflight, At, SessionInv, SessionType, Labels, Ordinary, Armed
<1>2. q \in Calls
  BY <1>1, GatePasses DEF Calls
<1>3. /\ q.at = "probe" /\ q.phase = proc[w].phase /\ q.entry = proc[w].entry
      /\ q.grant = proc[w].grant /\ q.active = ActiveGrant
  BY <1>1 DEF Calls
<1>4. GoesOn(w, q)
  <2> HIDE DEF q
  <2> QED BY <1>1, <1>2, <1>3 DEF GoesOn, Ordinary
<1>5. Plain(w)
  BY <1>1, <1>4, PreflightEnds DEF Preflight, Plain
<1>6. Calm /\ Stored
  BY GatePasses DEF Preflight, Calm, Stored, files, proofs, tickets, orders
<1> QED BY <1>5, <1>6, CalmStep

LEMMA ProbeInv == ASSUME SessionInv, NEW w \in Workers, Probe(w) PROVE SessionInv'
<1>1. proc[w] \in Calls /\ proc[w].at = "probe"
  BY DEF Probe, At, SessionInv, SessionType
<1>2. ASSUME NEW account \in BOOLEAN, NEW rest \in BOOLEAN,
             NEW label \in {"attest", "conclude", "attestDecimal"},
             NEW ends \in {proc[w].dec, None},
             Become(w, [proc[w] EXCEPT !.ok = account /\ rest /\ proc[w].on, !.perm = None,
                                       !.dec = ends, !.at = label])
      PROVE  Plain(w)
  <2> DEFINE q == [proc[w] EXCEPT !.ok = account /\ rest /\ proc[w].on, !.perm = None,
                                  !.dec = ends, !.at = label]
  <2>1. label \in Ordinary /\ label \in Labels
    BY DEF Labels, Ordinary
  <2>2. (account /\ rest /\ proc[w].on) \in BOOLEAN
    OBVIOUS
  <2>3. q \in Calls
    <3>1. ends \in Instants /\ None \in Proofs
      BY <1>1 DEF Calls, Instants, Proofs
    <3> HIDE DEF DecimalValid
    <3> DEFINE able == account /\ rest /\ proc[w].on
    <3> HIDE DEF able
    <3>2. able \in BOOLEAN
      BY <2>2 DEF able
    <3>3. [proc[w] EXCEPT !.ok = able, !.perm = None, !.dec = ends, !.at = label] \in Calls
      BY <1>1, <2>1, <3>1, <3>2 DEF Calls
    <3> QED BY <3>3 DEF able
  <2>4. /\ q.at = label /\ q.phase = proc[w].phase /\ q.entry = proc[w].entry
        /\ q.grant = proc[w].grant /\ q.active = proc[w].active
    BY <1>1 DEF Calls
  <2>5. GoesOn(w, q)
    <3> HIDE DEF q
    <3> QED BY <1>1, <2>1, <2>3, <2>4 DEF GoesOn
  <2> QED BY <1>2, <2>5 DEF Plain
<1>3. Plain(w)
  <2>1. CASE PreflightDone(w, FALSE)
    BY <1>1, <2>1, PreflightEnds
  <2>2. CASE ~ PreflightDone(w, FALSE)
    <3>1. PICK account \in BOOLEAN, rest \in BOOLEAN :
            Become(w, [proc[w] EXCEPT
                !.ok = account /\ rest /\ proc[w].on, !.perm = None,
                !.dec = IF DecimalValid(proc[w].dec) THEN proc[w].dec ELSE None,
                !.at = IF ~account \/ ~PermissionValid(proc[w].perm, proc[w].active)
                       THEN "attest"
                       ELSE IF DecimalValid(proc[w].dec) THEN "conclude" ELSE "attestDecimal"])
      BY <2>2 DEF Probe
    <3> QED BY <1>2, <3>1
  <2> QED BY <2>1, <2>2
<1>4. Calm /\ Stored
  BY GatePasses DEF Probe, Calm, Stored, files, proofs, tickets, orders
<1> QED BY <1>3, <1>4, CalmStep

\* An order test ends its call or lets it go on.
LEMMA AfterTestPlain ==
    ASSUME SessionInv, NEW w \in Workers, proc[w].at # "gate", NEW answer,
           NEW label \in {"attestDecimal", "conclude"}, AfterTest(w, answer, label)
    PROVE  Plain(w)
<1> DEFINE q == [proc[w] EXCEPT !.at = label, !.market = (label = "attestDecimal"),
                                !.ok = @ /\ answer = "SUCCESS"]
<1>1. proc[w] \in Calls /\ label \in Labels /\ label \in Ordinary
  BY DEF SessionInv, SessionType, Labels, Ordinary
<1>2. q \in Calls
  <2>1. (label = "attestDecimal") \in BOOLEAN /\ (proc[w].ok /\ answer = "SUCCESS") \in BOOLEAN
    OBVIOUS
  <2> DEFINE first == label = "attestDecimal"
             good == proc[w].ok /\ answer = "SUCCESS"
  <2>2. first \in BOOLEAN /\ good \in BOOLEAN
    BY <2>1
  <2> HIDE DEF first, good
  <2>3. [proc[w] EXCEPT !.at = label, !.market = first, !.ok = good] \in Calls
    BY <1>1, <2>2 DEF Calls
  <2> QED BY <2>3 DEF first, good
<1>3. /\ q.at = label /\ q.phase = proc[w].phase /\ q.entry = proc[w].entry
      /\ q.grant = proc[w].grant /\ q.active = proc[w].active
  BY <1>1 DEF Calls
<1>4. GoesOn(w, q)
  <2> HIDE DEF q
  <2> QED BY <1>1, <1>2, <1>3 DEF GoesOn
<1>5. CASE PreflightRaises(w) \/ PreflightDone(w, FALSE)
  BY <1>5, PreflightEnds
<1>6. CASE Finish(w)
  BY <1>6, FinishPlain
<1>7. CASE Become(w, q)
  BY <1>4, <1>7 DEF Plain
<1> QED BY <1>5, <1>6, <1>7 DEF AfterTest

LEMMA AttestInv == ASSUME SessionInv, NEW w \in Workers, Attest(w) PROVE SessionInv'
<1>1. proc[w] \in Calls /\ proc[w].at = "attest" /\ CallInv(w)
  BY DEF Attest, At, SessionInv, SessionType
<1>2. PICK answer \in PermissionAnswers :
        LET p == proc[w]
            outcome == IF answer = "SUCCESS" /\ p.active = 0 THEN "RAISED" ELSE answer
        IN  /\ permission' = IF outcome = "SUCCESS"
                             THEN [grant |-> p.active, expires |-> grants[p.active].expires]
                             ELSE permission
            /\ AfterTest(w, outcome, IF p.dec = None THEN "attestDecimal" ELSE "conclude")
  BY DEF Attest
<1>3. Plain(w)
  BY <1>1, <1>2, AfterTestPlain
<1>4. permission' \in Proofs
  <2>1. proc[w].active # 0 => proc[w].active \in 1..Len(grants)
    BY <1>1 DEF Calls, CallInv, SessionInv, SessionType
  <2>2. \A g \in 1..Len(grants) : grants[g].expires \in Nat
    <3>1. \A g \in 1..Len(grants) : grants[g] \in Rows
      BY DEF SessionInv, SessionType
    <3> QED BY <3>1 DEF Rows
  <2>3. proc[w].active \in Nat
    BY <1>1 DEF Calls
  <2> QED BY <1>2, <2>1, <2>2, <2>3, GatePasses DEF Proofs
<1>5. Calm /\ Stored
  BY <1>4, GatePasses DEF Attest, Calm, Stored, files, proofs, tickets, orders
<1> QED BY <1>3, <1>5, CalmStep

LEMMA AttestDecimalInv ==
    ASSUME SessionInv, NEW w \in Workers, AttestDecimal(w) PROVE SessionInv'
<1>1. proc[w].at = "attestDecimal"
  BY DEF AttestDecimal, At
<1>2. PICK answer :
        LET outcome == IF HasMarket(w) THEN answer ELSE "RAISED"
        IN  /\ decimal' = IF outcome = "SUCCESS" THEN now + ProofTime ELSE decimal
            /\ AfterTest(w, outcome, "conclude")
  BY DEF AttestDecimal
<1>3. Plain(w)
  BY <1>1, <1>2, AfterTestPlain
<1>4. decimal' \in Instants
  BY <1>2, GatePasses, SessionAssumption DEF Instants
<1>5. Calm /\ Stored
  BY <1>4, GatePasses DEF AttestDecimal, Calm, Stored, files, proofs, tickets, orders
<1> QED BY <1>3, <1>5, CalmStep

LEMMA ConcludeInv ==
    ASSUME SessionInv, NEW w \in Workers, Conclude(w) \/ EpochRead(w) PROVE SessionInv'
<1>1. proc[w].at # "gate"
  BY DEF Conclude, EpochRead, At
<1>2. \/ PreflightRaises(w) \/ \E ok \in BOOLEAN : PreflightDone(w, ok)
      \/ \E label \in {"epochRead", "ticket", "epochAppend"} : Goto(w, label)
  <2>1. CASE Conclude(w)
    <3>1. (proc[w].ok /\ ~Blocked) \in BOOLEAN
      OBVIOUS
    <3> QED BY <2>1, <3>1 DEF Conclude
  <2>2. CASE EpochRead(w)
    BY <2>2 DEF EpochRead
  <2> QED BY <2>1, <2>2
<1>3. Plain(w)
  BY <1>1, <1>2, PreflightEnds, GotoPlain DEF Ordinary
<1>4. Calm /\ Stored
  BY GatePasses DEF Conclude, EpochRead, Calm, Stored, files, proofs, tickets, orders
<1> QED BY <1>3, <1>4, CalmStep

\* An epoch gets a number of its own.
LEMMA EpochIds == ASSUME SessionInv PROVE NextEpochId \in Nat
<1> DEFINE ids == {epochs[i].id : i \in DOMAIN epochs}
           f   == [i \in 1..Len(epochs) |-> epochs[i].id]
<1>1. DOMAIN epochs = 1..Len(epochs) /\ Len(epochs) \in Nat
  BY DEF SessionInv, SessionType
<1>2. f \in Surjection(1..Len(epochs), ids)
  BY <1>1 DEF Surjection
<1>3. IsFiniteSet(1..Len(epochs))
  BY <1>1, FS_Interval
<1>4. IsFiniteSet(ids)
  <2> HIDE DEF ids, f
  <2> QED BY <1>2, <1>3, FS_Surjection
<1>5. Cardinality(ids) \in Nat
  BY <1>4, FS_CardinalityType
<1> QED BY <1>5 DEF NextEpochId

LEMMA EpochAppendInv ==
    ASSUME SessionInv, NEW w \in Workers, EpochAppend(w) PROVE SessionInv'
<1>1. Plain(w)
  BY GotoPlain DEF EpochAppend, At, Ordinary
<1>2. epochs' \in Seq(EpochEvents)
  BY EpochIds, GatePasses DEF EpochAppend, Epoch, EpochEvents
<1>3. Calm /\ Stored
  BY <1>2, GatePasses DEF EpochAppend, Calm, Stored, files, proofs, tickets, orders
<1> QED BY <1>1, <1>3, CalmStep

LEMMA LeaveTicketInv ==
    ASSUME SessionInv, NEW w \in Workers, LeaveTicket(w) PROVE SessionInv'
<1>1. Plain(w)
  BY PreflightEnds DEF LeaveTicket, At
<1>2. ticket' \in [id : Nat, expires : Nat]
  <2>1. now + TicketTime \in Nat
    BY GatePasses, SessionAssumption
  <2>2. (IF ticket = None THEN 1 ELSE ticket.id + 1) \in Nat
    BY GatePasses
  <2> QED BY <2>1, <2>2 DEF LeaveTicket
<1>3. Calm /\ Stored
  BY <1>2, GatePasses DEF LeaveTicket, Calm, Stored, files, proofs, tickets, orders
<1> QED BY <1>1, <1>3, CalmStep

LEMMA PreflightStepInv ==
    ASSUME SessionInv, NEW w \in Workers, PreflightStep(w) PROVE SessionInv'
BY VerifyPermissionInv, PreflightInv, ProbeInv, AttestInv, AttestDecimalInv, ConcludeInv,
   EpochAppendInv, LeaveTicketInv DEF PreflightStep

-----------------------------------------------------------------------------
(***************************************************************************)
(* Activation and deactivation, and the operator's commands.               *)
(***************************************************************************)
LEMMA QuietCommand ==
    ASSUME SessionInv, NEW w \in Workers,
           \/ ConfirmActivation(w) \/ ArmFull(w) \/ FinalStatus(w) \/ ConfirmDeactivation(w)
           \/ Disarm(w) \/ InvalidatePending(w)
           \/ SwitchOff(w) \/ VoidTicket(w) \/ ArmWithTicket(w) \/ SpendTicket(w)
           \/ RecoverTicket(w) \/ ArmRecovery(w)
    PROVE  SessionInv'
<1>1. /\ proc[w].at # "gate"
      /\ \/ Finish(w)
         \/ \E label \in {"grant", "enable", "final", "armOff", "revokeUser", "invalidate",
                          "voidTicket", "spendTicket"} : Goto(w, label)
  <2>1. CASE ConfirmActivation(w) \/ ArmFull(w) \/ FinalStatus(w)
    BY <2>1 DEF ConfirmActivation, ArmFull, FinalStatus, At
  <2>2. CASE ConfirmDeactivation(w) \/ Disarm(w) \/ InvalidatePending(w)
    BY <2>2 DEF ConfirmDeactivation, Disarm, InvalidatePending, At
  <2>3. CASE SwitchOff(w) \/ VoidTicket(w) \/ ArmWithTicket(w)
    BY <2>3 DEF SwitchOff, VoidTicket, ArmWithTicket, At
  <2>4. CASE SpendTicket(w) \/ RecoverTicket(w) \/ ArmRecovery(w)
    BY <2>4 DEF SpendTicket, RecoverTicket, ArmRecovery, At
  <2> QED BY <2>1, <2>2, <2>3, <2>4
<1>2. Plain(w)
  BY <1>1, FinishPlain, GotoPlain DEF Ordinary
<1>3. Calm /\ Stored
  <2> USE GatePasses DEF Calm, Stored, files, proofs, tickets, orders
  <2>1. CASE ConfirmActivation(w) \/ ArmFull(w) \/ FinalStatus(w) \/ ConfirmDeactivation(w)
    BY <2>1 DEF ConfirmActivation, ArmFull, FinalStatus, ConfirmDeactivation
  <2>2. CASE Disarm(w) \/ InvalidatePending(w) \/ SwitchOff(w) \/ VoidTicket(w)
    BY <2>2 DEF Disarm, InvalidatePending, SwitchOff, VoidTicket
  <2>3. CASE ArmWithTicket(w) \/ SpendTicket(w) \/ RecoverTicket(w) \/ ArmRecovery(w)
    BY <2>3 DEF ArmWithTicket, SpendTicket, RecoverTicket, ArmRecovery
  <2> QED BY <2>1, <2>2, <2>3
<1> QED BY <1>2, <1>3, CalmStep

\* Steps that keep what they read.
LEMMA ReadingCommand ==
    ASSUME SessionInv, NEW w \in Workers,
           EnableLive(w) \/ ArmCheck(w) \/ RecoverRead(w) \/ FinalizeRead(w)
    PROVE  SessionInv'
<1>1. proc[w] \in Calls
  BY DEF SessionInv, SessionType
<1>2. Effective \in EpochEvents
  <2>1. epochs # <<>> => Last(epochs) \in EpochEvents
    BY GatePasses DEF Last
  <2> QED BY <2>1 DEF Effective, NoEpoch, EpochEvents
<1>3. ASSUME proc[w].at # "gate", NEW q \in Calls, Become(w, q), q.at \in Ordinary,
             q.phase = proc[w].phase, q.entry = proc[w].entry, q.grant = proc[w].grant,
             q.active = proc[w].active
      PROVE  Plain(w)
  BY <1>3 DEF Plain, GoesOn
<1>4. Plain(w)
  <2>1. CASE EnableLive(w)
    <3> DEFINE q == [proc[w] EXCEPT !.at = "grant", !.on = TRUE]
    <3>1. q \in Calls
      BY <1>1 DEF Calls, Labels, Ordinary
    <3>2. /\ q.at = "grant" /\ q.phase = proc[w].phase /\ q.entry = proc[w].entry
          /\ q.grant = proc[w].grant /\ q.active = proc[w].active
      BY <1>1 DEF Calls
    <3>3. Become(w, q) /\ proc[w].at # "gate"
      BY <2>1 DEF EnableLive, At
    <3> HIDE DEF q
    <3> QED BY <1>3, <3>1, <3>2, <3>3 DEF Ordinary
  <2>2. CASE ArmCheck(w)
    <3> DEFINE q == [proc[w] EXCEPT !.at = "armTicket", !.ticket = ticket.id]
    <3>1. CASE Finish(w)
      BY <3>1, FinishPlain
    <3>2. CASE ticket # None /\ Become(w, q)
      <4>1. ticket.id \in Instants
        BY <3>2, GatePasses DEF Instants
      <4>2. q \in Calls
        BY <1>1, <4>1 DEF Calls, Labels, Ordinary
      <4>3. /\ q.at = "armTicket" /\ q.phase = proc[w].phase /\ q.entry = proc[w].entry
            /\ q.grant = proc[w].grant /\ q.active = proc[w].active
        BY <1>1 DEF Calls
      <4>4. Become(w, q) /\ proc[w].at # "gate"
        BY <2>2, <3>2 DEF ArmCheck, At
      <4> HIDE DEF q
      <4> QED BY <1>3, <4>2, <4>3, <4>4 DEF Ordinary
    <3> QED BY <2>2, <3>1, <3>2 DEF ArmCheck, TicketValid
  <2>3. ASSUME NEW label \in {"recoverTicket", "finalizeAppend"}, proc[w].at # "gate",
               Become(w, [proc[w] EXCEPT !.at = label, !.held = Effective])
        PROVE  Plain(w)
    <3> DEFINE q == [proc[w] EXCEPT !.at = label, !.held = Effective]
    <3>0. label \in Ordinary /\ label \in Labels
      BY DEF Labels, Ordinary
    <3>1. q \in Calls
      BY <1>1, <1>2, <3>0 DEF Calls
    <3>2. /\ q.at = label /\ q.phase = proc[w].phase /\ q.entry = proc[w].entry
          /\ q.grant = proc[w].grant /\ q.active = proc[w].active
      BY <1>1 DEF Calls
    <3>3. Become(w, q) /\ proc[w].at # "gate"
      BY <2>3
    <3> HIDE DEF q
    <3> QED BY <1>3, <3>0, <3>1, <3>2, <3>3
  <2>4. CASE RecoverRead(w) \/ FinalizeRead(w)
    BY <2>3, <2>4, FinishPlain DEF RecoverRead, FinalizeRead, At
  <2> QED BY <2>1, <2>2, <2>4
<1>5. Calm /\ Stored
  BY GatePasses DEF EnableLive, ArmCheck, RecoverRead, FinalizeRead, Calm, Stored, files,
     proofs, tickets, orders
<1> QED BY <1>4, <1>5, CalmStep

LEMMA FinalizeAppendInv ==
    ASSUME SessionInv, NEW w \in Workers, FinalizeAppend(w) PROVE SessionInv'
<1>1. Plain(w)
  BY FinishPlain DEF FinalizeAppend
<1>2. epochs' \in Seq(EpochEvents)
  <2>1. proc[w].held \in EpochEvents
    BY DEF SessionInv, SessionType, Calls
  <2>2. [proc[w].held EXCEPT !.status = "CLOSED"] \in EpochEvents
    BY <2>1 DEF EpochEvents
  <2> QED BY <2>2, GatePasses DEF FinalizeAppend
<1>3. Calm /\ Stored
  BY <1>2, GatePasses DEF FinalizeAppend, Calm, Stored, files, proofs, tickets, orders
<1> QED BY <1>1, <1>3, CalmStep

\* Rows that end keep their term.
LEMMA EndingStep ==
    ASSUME SessionInv, NEW ended \in {"EXPIRED", "REVOKED"},
           grants' = [grants EXCEPT ![ActiveGrant].status = ended],
           ActiveGrant # 0
    PROVE  /\ grants' \in Seq(Rows) /\ Len(grants') = Len(grants)
           /\ \A g \in 1..Len(grants) : grants'[g].expires = grants[g].expires
           /\ NewestInForce'
<1>1. ActiveGrant \in 1..Len(grants) /\ ActiveGrant = Len(grants)
  BY ActiveGrantType
<1>2. grants \in Seq(Rows) /\ \A g \in 1..Len(grants) : grants[g] \in Rows
  BY DEF SessionInv, SessionType
<1> DEFINE row == [grants[ActiveGrant] EXCEPT !.status = ended]
<1>3. row \in Rows /\ row.expires = grants[ActiveGrant].expires /\ row.status = ended
  BY <1>1, <1>2 DEF Rows
<1>4. grants' = [grants EXCEPT ![ActiveGrant] = row]
  OBVIOUS
<1>5. /\ grants' \in Seq(Rows) /\ Len(grants') = Len(grants)
      /\ \A g \in 1..Len(grants) : grants'[g] = IF g = ActiveGrant THEN row ELSE grants[g]
  <2> HIDE DEF row
  <2> QED BY <1>1, <1>2, <1>3, <1>4
<1>6. \A g \in 1..Len(grants) : grants'[g].expires = grants[g].expires
  <2> HIDE DEF row
  <2> QED BY <1>3, <1>5
<1>7. NewestInForce'
  <2> HIDE DEF row
  <2> QED BY <1>1, <1>3, <1>5 DEF SessionInv, NewestInForce, InForce
<1> QED BY <1>5, <1>6, <1>7

LEMMA RevokeInv ==
    ASSUME SessionInv, NEW w \in Workers, PreflightFailed(w) \/ RevokeByUser(w)
    PROVE  SessionInv'
<1>1. Plain(w)
  BY FinishPlain, GotoPlain DEF PreflightFailed, RevokeByUser, At, Ordinary
<1>2. RevokeNewest /\ UNCHANGED <<now, seen, sent, enabled, permission, decimal, ticket, epochs>>
  BY DEF PreflightFailed, RevokeByUser, files, proofs, tickets, orders
<1>3. grants' \in Seq(Rows) /\ Grows /\ NewestInForce'
  <2>0. grants \in Seq(Rows) /\ now \in Nat /\ Len(grants) \in Nat /\ NewestInForce
    BY DEF SessionInv, SessionType
  <2>1. CASE ActiveGrant = 0
    BY <1>2, <2>0, <2>1 DEF RevokeNewest, Grows, NewestInForce, InForce
  <2>2. CASE ActiveGrant # 0
    BY <1>2, <2>0, <2>2, EndingStep DEF RevokeNewest, Grows
  <2> QED BY <2>1, <2>2
<1>4. SessionType'
  BY <1>1, <1>2, <1>3, PlainType DEF SessionInv, SessionType
<1> QED BY <1>1, <1>2, <1>3, <1>4, PlainStep

LEMMA GrantInv == ASSUME SessionInv, NEW w \in Workers, Grant(w) PROVE SessionInv'
<1> DEFINE old == [g \in DOMAIN grants |-> Revoked(grants[g])]
           new == [status |-> "ACTIVE", expires |-> now + AuthTime]
<1>1. Plain(w)
  BY GotoPlain DEF Grant, At, Ordinary
<1>2. UNCHANGED <<now, seen, sent, enabled, permission, decimal, ticket, epochs>>
  BY DEF Grant, files, proofs, tickets, orders
<1>3. grants \in Seq(Rows) /\ now \in Nat /\ Len(grants) \in Nat
      /\ \A g \in 1..Len(grants) : grants[g] \in Rows
  BY DEF SessionInv, SessionType
<1>4. \A g \in 1..Len(grants) :
        /\ Revoked(grants[g]) \in Rows /\ Revoked(grants[g]).expires = grants[g].expires
        /\ Revoked(grants[g]).status # "ACTIVE"
  BY <1>3 DEF Rows, Revoked
<1>5. old \in Seq(Rows) /\ Len(old) = Len(grants)
      /\ \A g \in 1..Len(grants) : old[g] = Revoked(grants[g])
  BY <1>3, <1>4
<1>6. new \in Rows /\ new.status = "ACTIVE"
  BY <1>3, SessionAssumption DEF Rows
<1>7. /\ grants' \in Seq(Rows) /\ Len(grants') = Len(grants) + 1
      /\ \A g \in 1..Len(grants) : grants'[g] = Revoked(grants[g])
  <2>1. grants' = Append(old, new)
    BY DEF Grant
  <2> HIDE DEF old, new
  <2> QED BY <1>3, <1>5, <1>6, <2>1
<1>8. Grows
  BY <1>2, <1>3, <1>4, <1>7 DEF Grows
<1>9. NewestInForce'
  BY <1>3, <1>4, <1>7 DEF NewestInForce, InForce
<1>10. SessionType'
  BY <1>1, <1>2, <1>7, PlainType DEF SessionInv, SessionType
<1> QED BY <1>1, <1>2, <1>8, <1>9, <1>10, PlainStep

LEMMA CommandStepInv ==
    ASSUME SessionInv, NEW w \in Workers, TelegramStep(w) \/ OperatorStep(w)
    PROVE  SessionInv'
BY QuietCommand, ReadingCommand, FinalizeAppendInv, RevokeInv, GrantInv
   DEF TelegramStep, OperatorStep

-----------------------------------------------------------------------------
(***************************************************************************)
(* Launches and expiries.                                                  *)
(***************************************************************************)

\* What a reading of the gate adds to the history.
LEMMA WitnessGrows ==
    ASSUME SessionInv, NEW w \in Workers, seen' = seen \/ Witness(w)
    PROVE  /\ seen' \in [Entries -> SUBSET FactNames]
           /\ \A e \in Entries : seen[e] \subseteq seen'[e]
           /\ Witness(w) /\ proc[w].phase = "execute" /\ proc[w].entry \in Entries =>
                seen'[proc[w].entry] = seen[proc[w].entry] \cup Facts
<1>1. seen \in [Entries -> SUBSET FactNames]
  BY DEF SessionInv, SessionType
<1>2. Facts \subseteq FactNames
  BY DEF Facts, FactNames
<1> HIDE DEF Facts
<1>3. CASE seen' = seen /\ ~ Witness(w)
  BY <1>1, <1>3
<1>4. CASE Witness(w)
  <2>1. CASE proc[w].phase = "execute" /\ proc[w].entry \in Entries
    BY <1>1, <1>2, <1>4, <2>1 DEF Witness
  <2>2. CASE ~ (proc[w].phase = "execute" /\ proc[w].entry \in Entries)
    BY <1>1, <1>4, <2>2 DEF Witness
  <2> QED BY <2>1, <2>2
<1> QED BY <1>3, <1>4

\* A step of the gate, and any other that leaves the authorizations alone.
LEMMA GateStep ==
    ASSUME SessionInv, NEW w \in Workers, NEW q \in Calls, Become(w, q),
           UNCHANGED <<now, enabled, permission, decimal, ticket, epochs, grants, sent>>,
           seen' = seen \/ Witness(w),
           q.grant <= Len(grants), q.active <= Len(grants),
           q.at \in Excursion => q.next \in Resumes,
           \/ Evidence(q, {})
           \/ /\ q.phase = proc[w].phase /\ q.entry = proc[w].entry
              /\ q.phase = "execute" /\ q.entry \in Entries =>
                   \/ Evidence(q, seen[q.entry])
                   \/ Witness(w) /\ Evidence(q, seen[q.entry] \cup Facts)
    PROVE  SessionInv'
<1>1. /\ proc \in [Workers -> Calls] /\ seen' \in [Entries -> SUBSET FactNames]
      /\ \A e \in Entries : seen[e] \subseteq seen'[e]
  BY WitnessGrows DEF SessionInv, SessionType
<1>2. proc' \in [Workers -> Calls] /\ proc'[w] = q /\ \A v \in Workers \ {w} : proc'[v] = proc[v]
  BY <1>1 DEF Become
<1>3. SessionType'
  BY <1>1, <1>2 DEF SessionInv, SessionType
<1>4. Grows /\ NewestInForce' /\ Len(grants) \in Nat
  BY <1>1 DEF Grows, SessionInv, SessionType, NewestInForce, InForce
<1>5. SentVouched'
  <2>1. ASSUME NEW e \in Entries, seen[e] = FactNames PROVE seen'[e] = FactNames
    BY <1>1, <2>1
  <2> QED BY <2>1 DEF SessionInv, SentVouched
<1>6. ASSUME q.phase = "execute", q.entry \in Entries
      PROVE  Evidence(q, seen'[q.entry])
  <2>1. PICK facts : Evidence(q, facts) /\ facts \subseteq seen'[q.entry]
    <3>1. CASE Evidence(q, {})
      BY <3>1
    <3>2. CASE Evidence(q, seen[q.entry])
      BY <1>1, <1>6, <3>2
    <3>3. CASE /\ q.phase = proc[w].phase /\ q.entry = proc[w].entry
               /\ Witness(w) /\ Evidence(q, seen[q.entry] \cup Facts)
      BY <1>6, <3>3, WitnessGrows
    <3> QED BY <1>6, <3>1, <3>2, <3>3
  <2>2. seen'[q.entry] \subseteq FactNames
    BY <1>1, <1>6
  <2> QED BY <2>1, <2>2 DEF Evidence
<1>7. CallInv(w)'
  <2>1. Evidence(q, seen'[q.entry]) => Evidence(proc[w], seen[q.entry])'
    BY <1>2 DEF Evidence
  <2> QED BY <1>2, <1>4, <1>6, <2>1 DEF CallInv
<1> QED BY <1>2, <1>3, <1>4, <1>5, <1>7, OneCall

\* Whoever meets an elapsed authorization expires it; it is no evidence any more.
LEMMA ElapsedStep ==
    ASSUME SessionInv, NEW w \in Workers, NEW p \in Calls, ExpireThen(w, p),
           ActiveGrant # 0, ~ Unexpired(ActiveGrant), seen' = seen \/ Witness(w),
           p.at \in Resumes, p.grant \in {0, ActiveGrant}, p.active <= Len(grants)
    PROVE  SessionInv'
<1> DEFINE q == [p EXCEPT !.at = "disarmExpired", !.next = p.at]
<1>1. /\ proc \in [Workers -> Calls] /\ seen' \in [Entries -> SUBSET FactNames]
      /\ \A e \in Entries : seen[e] \subseteq seen'[e] /\ seen[e] \subseteq FactNames
      /\ now \in Nat /\ grants \in Seq(Rows) /\ Len(grants) \in Nat
  BY WitnessGrows DEF SessionInv, SessionType
<1>2. /\ grants' = [grants EXCEPT ![ActiveGrant].status = "EXPIRED"]
      /\ Become(w, q)
      /\ UNCHANGED <<now, enabled, permission, decimal, ticket, epochs, sent>>
  BY DEF ExpireThen, files, proofs, tickets
<1>3. /\ grants' \in Seq(Rows) /\ Len(grants') = Len(grants)
      /\ \A g \in 1..Len(grants) : grants'[g].expires = grants[g].expires
      /\ NewestInForce'
  BY <1>2, EndingStep
<1>4. "disarmExpired" \in Labels
  BY DEF Labels, Excursion
<1>5. q \in Calls /\ q.at = "disarmExpired" /\ q.next = p.at /\ q.grant = p.grant /\ q.active = p.active
  BY <1>4 DEF Calls
<1> HIDE DEF q
<1>6. proc' \in [Workers -> Calls] /\ proc'[w] = q /\ \A v \in Workers \ {w} : proc'[v] = proc[v]
  BY <1>1, <1>2, <1>5 DEF Become
<1>7. SessionType' /\ Grows
  BY <1>1, <1>2, <1>3, <1>6 DEF SessionInv, SessionType, Grows
<1>8. SentVouched'
  <2>1. ASSUME NEW e \in Entries, seen[e] = FactNames PROVE seen'[e] = FactNames
    BY <1>1, <2>1
  <2> QED BY <1>2, <2>1 DEF SessionInv, SentVouched
<1>9. CallInv(w)'
  <2>1. ActiveGrant \in 1..Len(grants) /\ ActiveGrant \in Nat /\ ActiveGrant <= Len(grants)
    BY ActiveGrantType
  <2>2. grants[ActiveGrant] \in Rows
    BY <1>1, <2>1
  <2>3. ~ (grants[ActiveGrant].expires > now)
    BY DEF Unexpired
  <2>4. ~ (grants'[ActiveGrant].expires > now')
    BY <1>2, <1>3, <2>1, <2>3
  <2>5. q.grant # 0 => ~ (grants'[q.grant].expires > now')
    BY <1>5, <2>4
  <2>6. Evidence(proc[w], seen[q.entry])'
    BY <1>5, <1>6, <2>5 DEF Evidence
  <2>7. q.grant <= Len(grants') /\ q.active <= Len(grants')
    BY <1>1, <1>3, <1>5, <2>1
  <2> QED BY <1>5, <1>6, <2>6, <2>7 DEF CallInv
<1> QED BY <1>3, <1>6, <1>7, <1>8, <1>9, OneCall

LEMMA LaunchInv ==
    ASSUME SessionInv, NEW w \in Workers, NEW c \in Commands,
           NEW e \in Entries \cup {None}, Launch(w, c, e)
    PROVE  SessionInv'
<1> DEFINE phase == CASE c = "propose" -> "propose"
                      [] c = "approve" -> "claim"
                      [] OTHER -> None
           label == FirstStep[c]
           p == [Idle EXCEPT !.at = label, !.cmd = c, !.entry = e, !.on = enabled, !.phase = phase]
<1>1. ExpireThen(w, p) /\ UNCHANGED seen
  BY DEF Launch
<1>2. label \in Resumes
  BY DEF Commands, FirstStep, Resumes
<1>3. label \in Labels
  BY <1>2 DEF Resumes, Labels, Ordinary
<1>4. phase \in Phases \cup {None}
  BY DEF Phases
<1>5. Idle \in Calls /\ Idle.grant = 0 /\ Idle.active = 0
  BY DEF Idle, Calls, NoEpoch, Proofs, Instants, EpochEvents, Labels, Ordinary
<1> HIDE DEF label, phase
<1>6. p \in Calls /\ p.at = label /\ p.grant = 0 /\ p.active = 0
  BY <1>3, <1>4, <1>5, GatePasses DEF Calls
<1> HIDE DEF p
<1>7. Len(grants) \in Nat
  BY DEF SessionInv, SessionType
<1>8. CASE ActiveGrant # 0 /\ ~ Unexpired(ActiveGrant)
  BY <1>1, <1>2, <1>6, <1>7, <1>8, ElapsedStep
<1>9. CASE ~ (ActiveGrant # 0 /\ ~ Unexpired(ActiveGrant))
  <2>1. Become(w, p) /\ UNCHANGED <<now, enabled, permission, decimal, ticket, epochs, grants, sent>>
    BY <1>1, <1>9 DEF ExpireThen, files, proofs, tickets
  <2>2. p.at \notin Excursion /\ p.at \notin Deciding
    BY <1>2, <1>6 DEF Resumes, Excursion, Deciding
  <2>3. Evidence(p, {})
    BY <1>6, <2>2 DEF Evidence, Deciding
  <2>4. p.grant <= Len(grants) /\ p.active <= Len(grants)
    BY <1>6, <1>7
  <2> QED BY <1>1, <1>6, <2>1, <2>2, <2>3, <2>4, GateStep
<1> QED BY <1>8, <1>9

LEMMA ExcursionInv ==
    ASSUME SessionInv, NEW w \in Workers, DisarmExpired(w) \/ InvalidateExpired(w)
    PROVE  SessionInv'
<1>1. proc[w] \in Calls /\ CallInv(w)
  BY DEF SessionInv, SessionType
<1>2. Plain(w)
  <2>1. CASE DisarmExpired(w)
    <3> DEFINE q == [proc[w] EXCEPT !.at = "invalidateExpired"]
    <3>0. "invalidateExpired" \in Labels
      BY DEF Labels, Excursion
    <3>1. /\ q \in Calls /\ q.at = "invalidateExpired" /\ q.phase = proc[w].phase
          /\ q.entry = proc[w].entry /\ q.grant = proc[w].grant /\ q.active = proc[w].active
          /\ q.next = proc[w].next
      BY <1>1, <3>0 DEF Calls
    <3>2. Become(w, q) /\ proc[w].at = "disarmExpired"
      BY <2>1 DEF DisarmExpired, Goto, At
    <3>3. proc[w].next \in Resumes
      BY <1>1, <3>2 DEF CallInv, Excursion
    <3> HIDE DEF q
    <3> QED BY <3>1, <3>2, <3>3 DEF Plain, GoesOn, Excursion
  <2>2. CASE InvalidateExpired(w)
    <3> DEFINE q == [proc[w] EXCEPT !.at = proc[w].next, !.next = None]
    <3>1. proc[w].at = "invalidateExpired" /\ Become(w, q)
      BY <2>2 DEF InvalidateExpired, At
    <3>2. proc[w].next \in Resumes
      BY <1>1, <3>1 DEF CallInv, Excursion
    <3>3. proc[w].next \in Ordinary /\ proc[w].next \in Labels
      BY <3>2 DEF Resumes, Ordinary, Labels
    <3>4. /\ q \in Calls /\ q.at = proc[w].next /\ q.phase = proc[w].phase
          /\ q.entry = proc[w].entry /\ q.grant = proc[w].grant /\ q.active = proc[w].active
      BY <1>1, <3>3 DEF Calls
    <3> HIDE DEF q
    <3> QED BY <3>1, <3>3, <3>4 DEF Plain, GoesOn
  <2> QED BY <2>1, <2>2
<1>3. Calm /\ Stored
  BY GatePasses DEF DisarmExpired, InvalidateExpired, Calm, Stored, files, proofs, tickets, orders
<1> QED BY <1>2, <1>3, CalmStep

-----------------------------------------------------------------------------
(***************************************************************************)
(* The gate.                                                               *)
(***************************************************************************)

\* A refusal and an exception end the call.
LEMMA GateEnds ==
    ASSUME SessionInv, NEW w \in Workers, Finish(w), seen' = seen \/ Witness(w),
           UNCHANGED <<now, enabled, permission, decimal, ticket, epochs, grants, sent>>
    PROVE  SessionInv'
<1>1. Idle \in Calls
  BY DEF Idle, Calls, NoEpoch, Proofs, Instants, EpochEvents, Labels, Ordinary
<1>2. Idle.at = "idle" /\ Idle.grant = 0 /\ Idle.active = 0
  BY DEF Idle
<1>3. Evidence(Idle, {}) /\ Idle.at \notin Excursion
  BY <1>2 DEF Evidence, Excursion
<1>4. Len(grants) \in Nat
  BY DEF SessionInv, SessionType
<1>5. Idle.grant <= Len(grants) /\ Idle.active <= Len(grants)
  BY <1>2, <1>4
<1>6. Become(w, Idle)
  BY DEF Finish
<1> HIDE DEF Facts
<1> QED BY <1>1, <1>3, <1>5, <1>6, GateStep

\* An authorization that is in force when it is read is seen in force.
LEMMA GateReads ==
    ASSUME SessionInv
    PROVE  /\ ActiveGrant # 0 /\ grants[ActiveGrant].expires > now => "grant" \in Facts
           /\ ~ Blocked => "clear" \in Facts
           /\ FullArm => "arm" \in Facts
           /\ PermissionValid(permission, ActiveGrant) => "permission" \in Facts
           /\ DecimalValid(decimal) => "decimal" \in Facts
           /\ Effective.status = "ACTIVE" => "epoch" \in Facts
BY DEF Facts, Unexpired

LEMMA RecordInv ==
    ASSUME SessionInv, NEW w \in Workers, Record(w) PROVE SessionInv'
<1> DEFINE q == [proc[w] EXCEPT !.at = "status", !.grant = ActiveGrant]
<1>1. proc[w] \in Calls /\ CallInv(w) /\ "status" \in Labels
  BY DEF SessionInv, SessionType, Labels, Ordinary
<1>2. ActiveGrant \in Nat /\ ActiveGrant <= Len(grants)
  BY ActiveGrantType
<1>3. /\ q \in Calls /\ q.at = "status" /\ q.grant = ActiveGrant /\ q.active = proc[w].active
      /\ q.phase = proc[w].phase /\ q.entry = proc[w].entry
  BY <1>1, <1>2 DEF Calls
<1>4. /\ Become(w, q) /\ Witness(w)
      /\ UNCHANGED <<now, enabled, permission, decimal, ticket, epochs, grants, sent>>
  BY DEF Record, files, proofs, tickets
<1> HIDE DEF q
<1>5. Evidence(q, seen[q.entry] \cup Facts)
  <2> HIDE DEF Facts
  <2> QED BY <1>3, GateReads DEF Evidence
<1>6. q.active <= Len(grants) /\ q.at \notin Excursion
  BY <1>1, <1>3 DEF CallInv, Excursion
<1> QED BY <1>2, <1>3, <1>4, <1>5, <1>6, GateStep

LEMMA GateInv ==
    ASSUME SessionInv, NEW w \in Workers, Gate(w) PROVE SessionInv'
<1> DEFINE enter == [proc[w] EXCEPT !.at = "status", !.fresh = TRUE, !.grant = ActiveGrant]
           late == [enter EXCEPT !.at = "record"]
<1>1. proc[w] \in Calls /\ CallInv(w) /\ {"status", "record"} \subseteq Labels
  BY DEF SessionInv, SessionType, Labels, Ordinary
<1>2. ActiveGrant \in Nat /\ ActiveGrant <= Len(grants)
  BY ActiveGrantType
<1>3. /\ enter \in Calls /\ enter.at = "status" /\ enter.grant = ActiveGrant
      /\ enter.active = proc[w].active /\ enter.phase = proc[w].phase /\ enter.entry = proc[w].entry
  BY <1>1, <1>2 DEF Calls
<1>4. /\ late \in Calls /\ late.at = "record" /\ late.grant = ActiveGrant
      /\ late.active = proc[w].active
  <2> HIDE DEF enter
  <2> QED BY <1>1, <1>3 DEF Calls
<1>5. Witness(w)
  BY DEF Gate
<1>6. \/ /\ Finish(w)
         /\ UNCHANGED <<now, enabled, permission, decimal, ticket, epochs, grants, sent>>
      \/ ExpireThen(w, IF Unexpired(ActiveGrant) \/ ActiveGrant = 0 THEN enter ELSE late)
  BY DEF Gate, files, proofs, tickets
<1>7. proc[w].active <= Len(grants)
  BY <1>1 DEF CallInv
<1> HIDE DEF enter, late
<1>8. CASE /\ Finish(w)
           /\ UNCHANGED <<now, enabled, permission, decimal, ticket, epochs, grants, sent>>
  BY <1>5, <1>8, GateEnds
<1>9. CASE /\ Unexpired(ActiveGrant) \/ ActiveGrant = 0
           /\ ExpireThen(w, enter)
  <2>1. /\ Become(w, enter)
        /\ UNCHANGED <<now, enabled, permission, decimal, ticket, epochs, grants, sent>>
    BY <1>9 DEF ExpireThen, files, proofs, tickets
  <2>2. Evidence(enter, seen[enter.entry] \cup Facts)
    <3> HIDE DEF Facts
    <3> QED BY <1>3, GateReads DEF Evidence
  <2>3. enter.at \notin Excursion
    BY <1>3 DEF Excursion
  <2> QED BY <1>2, <1>3, <1>5, <1>7, <2>1, <2>2, <2>3, GateStep
<1>10. CASE /\ ~ Unexpired(ActiveGrant) /\ ActiveGrant # 0
            /\ ExpireThen(w, late)
  BY <1>4, <1>5, <1>7, <1>10, ElapsedStep DEF Resumes
<1> QED BY <1>6, <1>8, <1>9, <1>10

LEMMA StatusInv ==
    ASSUME SessionInv, NEW w \in Workers, Status(w) PROVE SessionInv'
<1>1. proc[w] \in Calls /\ CallInv(w) /\ proc[w].at = "status"
  BY DEF Status, At, SessionInv, SessionType
<1>2. /\ Witness(w)
      /\ UNCHANGED <<now, enabled, permission, decimal, ticket, epochs, grants, sent>>
  BY DEF Status, files, proofs, tickets
<1>3. proc[w].grant <= Len(grants) /\ proc[w].active <= Len(grants)
  BY <1>1 DEF CallInv
<1>4. CASE Become(w, [proc[w] EXCEPT !.at = "preflight", !.fresh = FALSE])
  <2> DEFINE q == [proc[w] EXCEPT !.at = "preflight", !.fresh = FALSE]
  <2>1. "preflight" \in Labels
    BY DEF Labels, Ordinary
  <2>2. /\ q \in Calls /\ q.at = "preflight" /\ q.grant = proc[w].grant
        /\ q.active = proc[w].active /\ q.phase = proc[w].phase /\ q.entry = proc[w].entry
    BY <1>1, <2>1 DEF Calls
  <2>3. Become(w, q)
    BY <1>4
  <2> HIDE DEF q
  <2>4. q.phase = "execute" /\ q.entry \in Entries => Evidence(q, seen[q.entry])
    BY <1>1, <2>2 DEF CallInv, Evidence
  <2>5. q.at \notin Excursion
    BY <2>2 DEF Excursion
  <2> QED BY <1>2, <1>3, <2>2, <2>3, <2>4, <2>5, GateStep
<1>5. ASSUME NEW ok \in BOOLEAN, ok => ~ Blocked,
             Become(w, [proc[w] EXCEPT !.at = "decide", !.fresh = FALSE, !.ok = ok])
      PROVE  SessionInv'
  <2> DEFINE q == [proc[w] EXCEPT !.at = "decide", !.fresh = FALSE, !.ok = ok]
  <2>1. "decide" \in Labels
    BY DEF Labels, Deciding
  <2>2. q \in Calls
    BY <1>1, <2>1 DEF Calls
  <2>6. /\ q.at = "decide" /\ q.grant = proc[w].grant /\ q.ok = ok
        /\ q.active = proc[w].active /\ q.phase = proc[w].phase /\ q.entry = proc[w].entry
    BY <1>1, <2>1 DEF Calls
  <2>3. Become(w, q)
    BY <1>5
  <2> HIDE DEF q
  <2>4. q.phase = "execute" /\ q.entry \in Entries => Evidence(q, seen[q.entry] \cup Facts)
    <3> HIDE DEF Facts
    <3> QED BY <1>1, <1>5, <2>2, <2>6, GateReads DEF CallInv, Evidence
  <2>5. q.at \notin Excursion
    BY <2>6 DEF Excursion
  <2> QED BY <1>2, <1>3, <2>2, <2>6, <2>3, <2>4, <2>5, GateStep
<1>6. \A healthy \in BOOLEAN :
        StatusReady(w, healthy) \in BOOLEAN /\ (StatusReady(w, healthy) => ~ Blocked)
  BY DEF StatusReady, ExecutionReady, Verified
<1>7. \/ Become(w, [proc[w] EXCEPT !.at = "preflight", !.fresh = FALSE])
      \/ \E ok \in BOOLEAN :
           /\ ok => ~ Blocked
           /\ Become(w, [proc[w] EXCEPT !.at = "decide", !.fresh = FALSE, !.ok = ok])
  <2> HIDE DEF StatusReady, Become
  <2> QED BY <1>6 DEF Status
<1> QED BY <1>4, <1>5, <1>7

LEMMA DecideInv ==
    ASSUME SessionInv, NEW w \in Workers, Decide(w) PROVE SessionInv'
<1>1. proc[w] \in Calls /\ CallInv(w) /\ proc[w].at = "decide"
  BY DEF Decide, At, SessionInv, SessionType
<1>2. /\ Witness(w)
      /\ UNCHANGED <<now, enabled, permission, decimal, ticket, epochs, grants, sent>>
  BY DEF Decide, files, proofs, tickets
<1>3. proc[w].grant <= Len(grants) /\ proc[w].active <= Len(grants)
  BY <1>1 DEF CallInv
<1>4. CASE Refuse(w)
  BY <1>2, <1>4, GateEnds DEF Refuse
<1>5. CASE Become(w, [proc[w] EXCEPT !.at = "gate", !.again = TRUE, !.ok = FALSE])
  <2> DEFINE q == [proc[w] EXCEPT !.at = "gate", !.again = TRUE, !.ok = FALSE]
  <2>1. "gate" \in Labels
    BY DEF Labels, Ordinary
  <2>2. q \in Calls /\ q.at = "gate" /\ q.grant = proc[w].grant /\ q.active = proc[w].active
    BY <1>1, <2>1 DEF Calls
  <2>3. Become(w, q)
    BY <1>5
  <2> HIDE DEF q
  <2>4. Evidence(q, {}) /\ q.at \notin Excursion
    BY <2>2 DEF Evidence, Excursion
  <2> QED BY <1>2, <1>3, <2>2, <2>3, <2>4, GateStep
<1>6. CASE /\ Ready(w)
           /\ Become(w, [proc[w] EXCEPT !.at = "limits", !.again = FALSE, !.ok = FALSE])
  <2> DEFINE q == [proc[w] EXCEPT !.at = "limits", !.again = FALSE, !.ok = FALSE]
  <2>1. "limits" \in Labels
    BY DEF Labels, Deciding
  <2>2. /\ q \in Calls /\ q.at = "limits" /\ q.grant = proc[w].grant
        /\ q.active = proc[w].active /\ q.phase = proc[w].phase /\ q.entry = proc[w].entry
    BY <1>1, <2>1 DEF Calls
  <2>3. Become(w, q)
    BY <1>6
  <2> HIDE DEF q
  <2>4. ASSUME q.phase = "execute", q.entry \in Entries
        PROVE  Evidence(q, seen[q.entry] \cup Facts)
    <3>1. {"grant", "clear"} \subseteq seen[q.entry]
      BY <1>1, <1>6, <2>2, <2>4 DEF CallInv, Evidence, Ready, Unexpired
    <3>2. {"arm", "permission", "decimal"} \subseteq Facts
      BY <1>6, GateReads DEF Ready
    <3> HIDE DEF Facts
    <3> QED BY <2>2, <3>1, <3>2 DEF Evidence
  <2>5. q.at \notin Excursion
    BY <2>2 DEF Excursion
  <2> QED BY <1>2, <1>3, <2>2, <2>3, <2>4, <2>5, GateStep
<1>7. \/ Refuse(w)
      \/ Become(w, [proc[w] EXCEPT !.at = "gate", !.again = TRUE, !.ok = FALSE])
      \/ /\ Ready(w)
         /\ Become(w, [proc[w] EXCEPT !.at = "limits", !.again = FALSE, !.ok = FALSE])
  BY DEF Decide
<1> QED BY <1>4, <1>5, <1>6, <1>7

LEMMA LimitsInv ==
    ASSUME SessionInv, NEW w \in Workers, Limits(w) PROVE SessionInv'
<1>1. proc[w] \in Calls /\ CallInv(w) /\ proc[w].at = "limits"
  BY DEF Limits, At, SessionInv, SessionType
<1>2. /\ Witness(w)
      /\ UNCHANGED <<now, enabled, permission, decimal, ticket, epochs, grants, sent>>
  BY DEF Limits, files, proofs, tickets
<1>3. proc[w].grant <= Len(grants) /\ proc[w].active <= Len(grants)
  BY <1>1 DEF CallInv
<1>4. CASE Refuse(w) \/ Finish(w)
  BY <1>2, <1>4, GateEnds DEF Refuse
<1>5. ASSUME NEW label \in {"commit", "holdRead"}, Goto(w, label),
             label = "commit" => Effective.status = "ACTIVE"
      PROVE  SessionInv'
  <2> DEFINE q == [proc[w] EXCEPT !.at = label]
  <2>1. label \in Labels /\ label \notin Excursion
    BY DEF Labels, Deciding, Ordinary, Excursion
  <2>2. /\ q \in Calls /\ q.at = label /\ q.grant = proc[w].grant
        /\ q.active = proc[w].active /\ q.phase = proc[w].phase /\ q.entry = proc[w].entry
    BY <1>1, <2>1 DEF Calls
  <2>3. Become(w, q)
    BY <1>5 DEF Goto
  <2> HIDE DEF q
  <2>4. ASSUME q.phase = "execute", q.entry \in Entries
        PROVE  Evidence(q, seen[q.entry] \cup Facts)
    <3>1. /\ {"grant", "arm", "permission", "decimal", "clear"} \subseteq seen[q.entry]
          /\ seen[q.entry] \subseteq FactNames
      BY <1>1, <2>2, <2>4 DEF CallInv, Evidence, SessionInv, SessionType
    <3>2. Facts \subseteq FactNames
      BY DEF Facts, FactNames
    <3>3. label = "commit" => "epoch" \in Facts
      BY <1>5, GateReads
    <3> HIDE DEF Facts
    <3>4. label = "commit" => seen[q.entry] \cup Facts = FactNames
      BY <3>1, <3>2, <3>3 DEF FactNames
    <3> QED BY <2>2, <3>1, <3>4 DEF Evidence
  <2> QED BY <1>2, <1>3, <2>1, <2>2, <2>3, <2>4, GateStep
<1>6. \/ Refuse(w) \/ Finish(w)
      \/ \E label \in {"commit", "holdRead"} :
           Goto(w, label) /\ (label = "commit" => Effective.status = "ACTIVE")
  BY DEF Limits
<1> QED BY <1>4, <1>5, <1>6

LEMMA HoldInv ==
    ASSUME SessionInv, NEW w \in Workers, HoldRead(w) \/ HoldAppend(w) \/ RefuseHeld(w)
    PROVE  SessionInv'
<1>1. proc[w] \in Calls
  BY DEF SessionInv, SessionType
<1>2. Effective \in EpochEvents
  <2>1. epochs # <<>> => Last(epochs) \in EpochEvents
    BY GatePasses DEF Last
  <2> QED BY <2>1 DEF Effective, NoEpoch, EpochEvents
<1>3. CASE HoldRead(w)
  <2> DEFINE label == IF Effective.status = "ACTIVE" THEN "holdAppend" ELSE "refuse"
             q == [proc[w] EXCEPT !.held = Effective, !.at = label]
  <2>1. label \in Ordinary /\ label \in Labels
    BY DEF Labels, Ordinary
  <2>2. Become(w, q) /\ proc[w].at # "gate"
    BY <1>3 DEF HoldRead, At
  <2> HIDE DEF label
  <2>3. /\ q \in Calls /\ q.at = label /\ q.grant = proc[w].grant
        /\ q.active = proc[w].active /\ q.phase = proc[w].phase /\ q.entry = proc[w].entry
    BY <1>1, <1>2, <2>1 DEF Calls
  <2> HIDE DEF q
  <2>4. Plain(w)
    BY <2>1, <2>2, <2>3 DEF Plain, GoesOn
  <2>5. Calm /\ Stored
    BY <1>3, GatePasses DEF HoldRead, Calm, Stored, files, proofs, tickets, orders
  <2> QED BY <2>4, <2>5, CalmStep
<1>4. CASE HoldAppend(w)
  <2>1. Plain(w)
    BY <1>4, GotoPlain DEF HoldAppend, At, Ordinary
  <2>2. epochs' \in Seq(EpochEvents)
    <3>1. [proc[w].held EXCEPT !.status = "RECONCILE"] \in EpochEvents
      BY <1>1 DEF Calls, EpochEvents
    <3> QED BY <1>4, <3>1, GatePasses DEF HoldAppend
  <2>3. Calm /\ Stored
    BY <1>4, <2>2, GatePasses DEF HoldAppend, Calm, Stored, files, proofs, tickets, orders
  <2> QED BY <2>1, <2>3, CalmStep
<1>5. CASE RefuseHeld(w)
  <2>1. /\ Finish(w) /\ seen' = seen
        /\ UNCHANGED <<now, enabled, permission, decimal, ticket, epochs, grants, sent>>
    BY <1>5 DEF RefuseHeld, Refuse, files, proofs, tickets
  <2> QED BY <2>1, GateEnds
<1> QED BY <1>3, <1>4, <1>5

LEMMA CommitInv ==
    ASSUME SessionInv, NEW w \in Workers, Propose(w) \/ ClaimEntry(w) PROVE SessionInv'
<1>1. proc[w] \in Calls /\ CallInv(w)
  BY DEF SessionInv, SessionType
<1>2. /\ seen' = seen
      /\ UNCHANGED <<now, enabled, permission, decimal, ticket, epochs, grants, sent>>
  BY DEF Propose, ClaimEntry, files, proofs, tickets
<1>3. CASE Finish(w)
  BY <1>2, <1>3, GateEnds
<1>4. CASE Become(w, [proc[w] EXCEPT !.at = "gate", !.phase = "execute"])
  <2> DEFINE q == [proc[w] EXCEPT !.at = "gate", !.phase = "execute"]
  <2>1. "gate" \in Labels /\ "execute" \in Phases
    BY DEF Labels, Ordinary, Phases
  <2>2. q \in Calls /\ q.at = "gate" /\ q.grant = proc[w].grant /\ q.active = proc[w].active
    BY <1>1, <2>1 DEF Calls
  <2>3. Become(w, q)
    BY <1>4
  <2> HIDE DEF q
  <2>4. Evidence(q, {}) /\ q.at \notin Excursion
    BY <2>2 DEF Evidence, Excursion
  <2> QED BY <1>1, <1>2, <2>2, <2>3, <2>4, GateStep DEF CallInv
<1> QED BY <1>3, <1>4 DEF Propose, ClaimEntry

LEMMA WriteInv ==
    ASSUME SessionInv, NEW w \in Workers, Write(w) PROVE SessionInv'
<1>1. proc[w] \in Calls /\ CallInv(w) /\ proc[w].at = "commit" /\ proc[w].phase = "execute"
  BY DEF Write, At, SessionInv, SessionType
<1>2. UNCHANGED <<now, enabled, permission, decimal, ticket, epochs, grants, seen>>
  BY DEF Write, files, proofs, tickets
<1>3. /\ sent \in [Entries -> BOOLEAN] /\ sent' = [sent EXCEPT ![proc[w].entry] = TRUE]
      /\ \A e \in Entries : sent[e] => seen[e] = FactNames
  BY DEF Write, SessionInv, SessionType, SentVouched
<1>4. proc[w].entry \in Entries => seen[proc[w].entry] = FactNames
  BY <1>1 DEF CallInv, Evidence
<1>5. sent' \in [Entries -> BOOLEAN] /\ SentVouched'
  BY <1>2, <1>3, <1>4 DEF SentVouched
<1>6. Finish(w) /\ Plain(w)
  BY FinishPlain DEF Write
<1>7. SessionType' /\ Grows /\ NewestInForce'
  BY <1>2, <1>5, <1>6, PlainType
     DEF SessionInv, SessionType, Grows, NewestInForce, InForce
<1>8. proc'[w] = Idle /\ \A v \in Workers \ {w} : proc'[v] = proc[v]
  BY <1>6 DEF Finish, Become, SessionInv, SessionType
<1>9. CallInv(w)'
  <2>1. Len(grants) \in Nat
    BY DEF SessionInv, SessionType
  <2> QED BY <1>2, <1>8, <2>1 DEF CallInv, Idle, Evidence, Excursion
<1> QED BY <1>5, <1>7, <1>8, <1>9, OneCall

LEMMA EntryStepInv ==
    ASSUME SessionInv, NEW w \in Workers, EntryStep(w) PROVE SessionInv'
BY GateInv, RecordInv, StatusInv, DecideInv, LimitsInv, HoldInv, CommitInv, WriteInv
   DEF EntryStep

-----------------------------------------------------------------------------
(***************************************************************************)
(* The environment, and the invariant.                                     *)
(***************************************************************************)
LEMMA StopInv == ASSUME SessionInv, NEW w \in Workers, Stop(w) PROVE SessionInv'
<1>1. Plain(w)
  BY FinishPlain DEF Stop
<1>2. Calm /\ Stored
  BY GatePasses DEF Stop, Calm, Stored, files, proofs, tickets, orders
<1> QED BY <1>1, <1>2, CalmStep

\* Time and what the calls do not look at here.
LEMMA EnvironmentInv ==
    ASSUME SessionInv, now' \in Nat, now <= now',
           UNCHANGED <<enabled, grants, proofs, ticket, epochs, sent, seen, proc>>
    PROVE  SessionInv'
<1>1. SessionType' /\ NewestInForce' /\ SentVouched'
  BY DEF SessionInv, SessionType, NewestInForce, InForce, SentVouched, proofs
<1>2. ASSUME NEW w \in Workers PROVE CallInv(w)'
  <2>1. proc[w] \in Calls /\ CallInv(w)
    BY DEF SessionInv, SessionType
  <2>2. now \in Nat /\ proc[w].grant \in Nat /\ proc[w].grant <= Len(grants)
    BY <2>1 DEF SessionInv, SessionType, Calls, CallInv
  <2>3. proc[w].grant # 0 => grants[proc[w].grant].expires \in Nat
    <3>1. \A g \in 1..Len(grants) : grants[g] \in Rows
      BY DEF SessionInv, SessionType
    <3>2. Len(grants) \in Nat
      BY DEF SessionInv, SessionType
    <3>3. proc[w].grant # 0 => proc[w].grant \in 1..Len(grants)
      BY <2>2, <3>2
    <3> QED BY <3>1, <3>3 DEF Rows
  <2>4. proc[w].grant # 0 /\ grants[proc[w].grant].expires > now'
          => grants[proc[w].grant].expires > now
    BY <2>2, <2>3
  <2>5. \A facts : Evidence(proc[w], facts) => Evidence(proc[w], facts)'
    BY <2>4 DEF Evidence
  <2> QED BY <2>1, <2>5 DEF CallInv
<1> QED BY <1>1, <1>2 DEF SessionInv

LEMMA SessionInit == ASSUME Init PROVE SessionInv
<1>1. Idle \in Calls /\ Idle.at = "idle" /\ Idle.grant = 0 /\ Idle.active = 0
  BY DEF Idle, Calls, NoEpoch, Proofs, Instants, EpochEvents, Labels, Ordinary
<1>2. proc = [w \in Workers |-> Idle] /\ proc \in [Workers -> Calls]
  BY <1>1 DEF Init
<1>3. /\ now = 0 /\ ticket = None
      /\ sent \in [Entries -> BOOLEAN] /\ seen \in [Entries -> SUBSET FactNames]
      /\ \A e \in Entries : ~ sent[e]
  BY DEF Init
<1>4. AuthTime \in Nat /\ ProofTime \in Nat
  BY SessionAssumption
<1>5. /\ enabled \in BOOLEAN /\ permission \in Proofs /\ decimal \in Instants
      /\ epochs \in Seq(EpochEvents) /\ grants \in Seq(Rows)
      /\ NewestInForce
  <2>1. CASE grants = <<>>
    <3>1. permission = None /\ decimal = None /\ epochs = <<>> /\ enabled = FALSE
      BY <2>1 DEF Init
    <3>2. <<>> \in Seq(EpochEvents) /\ <<>> \in Seq(Rows) /\ Len(<<>>) = 0
      OBVIOUS
    <3>3. NewestInForce
      BY <2>1, <3>2 DEF NewestInForce
    <3> QED BY <2>1, <3>1, <3>2, <3>3 DEF Proofs, Instants
  <2>2. CASE grants # <<>>
    <3>1. /\ enabled = TRUE /\ grants = <<[status |-> "ACTIVE", expires |-> AuthTime]>>
          /\ permission = [grant |-> 1, expires |-> AuthTime] /\ decimal = ProofTime
          /\ epochs \in {<<Epoch(1, "ACTIVE")>>, <<Epoch(1, "RECONCILE")>>,
                         <<Epoch(1, "CLOSED"), Epoch(2, "ACTIVE")>>}
      BY <2>2 DEF Init
    <3>2. [status |-> "ACTIVE", expires |-> AuthTime] \in Rows
      BY <1>4 DEF Rows
    <3>3. \A i \in {1, 2} : \A s \in {"ACTIVE", "RECONCILE", "CLOSED"} : Epoch(i, s) \in EpochEvents
      BY DEF Epoch, EpochEvents
    <3>4. epochs \in Seq(EpochEvents)
      <4>1. ASSUME NEW e \in EpochEvents, NEW f \in EpochEvents
            PROVE  <<e>> \in Seq(EpochEvents) /\ <<e, f>> \in Seq(EpochEvents)
        OBVIOUS
      <4>2. Epoch(1, "ACTIVE") \in EpochEvents /\ Epoch(1, "RECONCILE") \in EpochEvents
            /\ Epoch(1, "CLOSED") \in EpochEvents /\ Epoch(2, "ACTIVE") \in EpochEvents
        BY <3>3
      <4> QED BY <3>1, <4>1, <4>2
    <3>5. grants \in Seq(Rows) /\ NewestInForce
      BY <3>1, <3>2 DEF NewestInForce
    <3> QED BY <1>4, <3>1, <3>4, <3>5 DEF Proofs, Instants
  <2> QED BY <2>1, <2>2
<1>6. SessionType
  BY <1>2, <1>3, <1>5 DEF SessionType
<1>7. \A w \in Workers : CallInv(w)
  <2>1. Len(grants) \in Nat
    BY <1>5
  <2> QED BY <1>1, <1>2, <2>1 DEF CallInv, Evidence, Excursion
<1> QED BY <1>3, <1>5, <1>6, <1>7 DEF SessionInv, SentVouched

\* An authorization that is in force is the newest, what a call carries of one
\* exists, and each decision of the gate has what it rests on in the history.
THEOREM SessionInvariant == Spec => []SessionInv
<1>1. Init => SessionInv
  BY SessionInit
<1>2. SessionInv /\ [Next]_vars => SessionInv'
  <2> SUFFICES ASSUME SessionInv, [Next]_vars PROVE SessionInv'
    OBVIOUS
  <2>0. now \in Nat
    BY DEF SessionInv, SessionType
  <2>1. CASE Tick
    BY <2>0, <2>1, EnvironmentInv DEF Tick, files, tickets, orders
  <2>2. CASE \E o \in Operations : RequestChallenge(o)
    BY <2>0, <2>2, EnvironmentInv DEF RequestChallenge, files, tickets, orders
  <2>3. CASE ClearCircuit
    BY <2>0, <2>3, EnvironmentInv DEF ClearCircuit, tickets, orders
  <2>4. ASSUME NEW w \in Workers,
               \/ Stop(w)
               \/ \E c \in Commands, e \in Entries \cup {None} : Launch(w, c, e)
               \/ DisarmExpired(w) \/ InvalidateExpired(w)
        PROVE  SessionInv'
    BY <2>4, StopInv, LaunchInv, ExcursionInv
  <2>5. ASSUME NEW w \in Workers,
               PreflightStep(w) \/ TelegramStep(w) \/ OperatorStep(w) \/ EntryStep(w)
        PROVE  SessionInv'
    BY <2>5, PreflightStepInv, CommandStepInv, EntryStepInv
  <2>6. CASE UNCHANGED vars
    BY <2>0, <2>6, EnvironmentInv DEF vars, files, tickets, orders
  <2> QED BY <2>1, <2>2, <2>3, <2>4, <2>5, <2>6 DEF Next
<1> QED BY <1>1, <1>2, PTL DEF Spec

\* An order of an entry is written only after the authorization, the arm, the
\* decimal proof, the epoch and the absence of a rate limit were each seen in
\* force since the claim (execute_live, live_entry_readiness).
THEOREM OrdersAreVouched == Spec => []SentVouched
<1>1. SessionInv => SentVouched
  BY DEF SessionInv
<1> QED BY <1>1, SessionInvariant, PTL

=============================================================================

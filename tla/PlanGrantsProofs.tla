-------------------------- MODULE PlanGrantsProofs --------------------------
(***************************************************************************)
(* Proofs about PlanGrants, for any number of accounts, requests in        *)
(* flight, checkouts and events, and any lengths.                          *)
(***************************************************************************)
EXTENDS PlanGrants, TLAPS

LEMMA LaterIsNat ==
  ASSUME NEW a \in Nat, NEW b \in Nat
  PROVE  Later(a, b) \in Nat /\ Later(a, b) >= a /\ Later(a, b) >= b
BY DEF Later

LEMMA HeldIsNat ==
  ASSUME NEW row \in Grant
  PROVE  Held(row) \in Nat /\ Held(row) <= row.expires
BY DEF Held, Grant

\* The end extendPlanGrant reads is the greatest end a live row holds.
LEMMA LatestIsGreatest ==
  ASSUME NEW rows \in [Sources -> Grant]
  PROVE  /\ Latest(rows) \in Nat
         /\ \A s \in Sources : Held(rows[s]) <= Latest(rows)
         /\ \A b \in Nat : (\A s \in Sources : Held(rows[s]) <= b) => Latest(rows) <= b
<1>1. \A s \in Sources : Held(rows[s]) \in Nat
  BY HeldIsNat
<1>2. QED
  BY <1>1, SMT DEF Latest, Later, Sources

LEMMA SetPlanGrantType ==
  ASSUME NEW rows \in [Sources -> Grant], NEW s \in Sources,
         NEW forever \in BOOLEAN, NEW end \in Nat
  PROVE  SetPlanGrant(rows, s, forever, end) \in [Sources -> Grant]
BY DEF SetPlanGrant, Grant

LEMMA RevokeGrantsType ==
  ASSUME NEW rows \in [Sources -> Grant], NEW now \in Nat
  PROVE  RevokeGrants(rows, now) \in [Sources -> Grant]
<1> DEFINE stopped == [s \in Sources |->
                         IF Running(rows[s], now) THEN [rows[s] EXCEPT !.revoked = TRUE]
                         ELSE rows[s]]
           admin == IF ~stopped["admin"].exists
                    THEN [exists |-> TRUE, forever |-> FALSE, expires |-> now, revoked |-> TRUE]
                    ELSE [stopped["admin"] EXCEPT
                            !.forever = FALSE,
                            !.expires = IF @ > now \/ stopped["admin"].forever THEN now ELSE @]
<1>1. stopped \in [Sources -> Grant]
  BY DEF Grant
<1>2. admin \in Grant
  BY <1>1 DEF Grant, Sources
<1>3. RevokeGrants(rows, now) = [stopped EXCEPT !["admin"] = admin]
  BY DEF RevokeGrants
<1> HIDE DEF stopped, admin
<1>4. QED
  BY <1>1, <1>2, <1>3

LEMMA ArrivedType ==
  ASSUME NEW op \in Ops, NEW u \in Users, NEW e \in Events \cup {NoEvent},
         op = "webhook" => e \in Events, NEW from \in Nat, NEW length \in Nat
  PROVE  Arrived(op, u, e, from, length) \in Request
BY DEF Arrived, Request

LEMMA ArriveType ==
  ASSUME TypeOK, NEW h \in Handlers, NEW q \in Request, Arrive(h, q)
  PROVE  TypeOK'
BY DEF TypeOK, Arrive, stripe, history

LEMMA FinishType ==
  ASSUME TypeOK, NEW h \in Handlers, Finish(h)
  PROVE  /\ request' \in [Handlers -> Request \cup {Idle}]
         /\ lock' \in [Users -> Handlers \cup {NoHandler}]
BY DEF TypeOK, Finish

LEMMA ExtendType ==
  ASSUME TypeOK, NEW q \in Request, NEW s \in Sources, Extend(q, s)
  PROVE  /\ grant' \in [Users -> [Sources -> Grant]]
         /\ given' \in [Users -> Nat]
         /\ ExtendExpiry(q.latest, q.from, q.length) \in Nat
<1> DEFINE end == ExtendExpiry(q.latest, q.from, q.length)
<1>1. end \in Nat
  <2>1. q.latest \in Nat /\ q.from \in Nat /\ q.length \in Nat
    BY DEF Request
  <2>2. Later(q.latest, q.from) \in Nat
    BY <2>1, LaterIsNat
  <2>3. QED
    BY <2>1, <2>2 DEF ExtendExpiry
<1>2. SetPlanGrant(grant[q.user], s, FALSE, end) \in [Sources -> Grant]
  BY <1>1, SetPlanGrantType DEF TypeOK, Request
<1>3. grant' \in [Users -> [Sources -> Grant]]
  BY <1>2 DEF Extend, TypeOK
<1>4. given' \in [Users -> Nat]
  BY DEF Extend, TypeOK, Request
<1>5. QED
  BY <1>1, <1>3, <1>4

LEMMA AuditedType ==
  ASSUME TypeOK, NEW q \in Request, q.op \in AdminOps, NEW plan, NEW rows
  PROVE  Audited(q, plan, rows) \in Seq(AuditEntry)
<1>1. IsPro(plan, rows, q.from) \in BOOLEAN
  BY DEF IsPro
<1>2. [op |-> q.op, user |-> q.user, before |-> q.before,
       after |-> IsPro(plan, rows, q.from)] \in AuditEntry
  BY <1>1 DEF AuditEntry, Request
<1>3. QED
  BY <1>2 DEF Audited, TypeOK

LEMMA ReadUnderLockType ==
  ASSUME TypeOK, NEW q \in Request
  PROVE  ReadUnderLock(q) \in Request
<1>1. Latest(grant[q.user]) \in Nat
  BY LatestIsGreatest DEF TypeOK, Request
<1>2. IsPro(storedPlan[q.user], grant[q.user], q.from) \in BOOLEAN
  BY DEF IsPro
<1>3. IsPermanent(storedPlan[q.user], grant[q.user]) \in BOOLEAN
  BY DEF IsPermanent
<1>4. QED
  BY <1>1, <1>2, <1>3 DEF ReadUnderLock, Request

LEMMA InitType == Init => TypeOK
<1> SUFFICES ASSUME Init PROVE TypeOK
  OBVIOUS
<1>1. NoGrant \in Grant
  BY DEF NoGrant, Grant
<1>2. PICK manual \in [Users -> ManualRows] :
        /\ grant = [u \in Users |-> [s \in Sources |->
                      IF s = "manual" THEN manual[u] ELSE NoGrant]]
        /\ given = [u \in Users |-> manual[u].expires]
  BY DEF Init
<1>3. \A u \in Users : manual[u] \in Grant
  BY PlanGrantsAssumption
<1>4. grant \in [Users -> [Sources -> Grant]] /\ given \in [Users -> Nat]
  BY <1>1, <1>2, <1>3 DEF Grant
<1>5. QED
  BY <1>4, PlanGrantsAssumption DEF Init, TypeOK, Unpaid

\* The columns keep their types and every request its shape, through every
\* handler, crash and rollback.
THEOREM TypeCorrect == Spec => []TypeOK
<1>1. TypeOK /\ [Next]_vars => TypeOK'
  <2> SUFFICES ASSUME TypeOK, [Next]_vars PROVE TypeOK'
    OBVIOUS
  <2>1. CASE Tick
    BY <2>1, PlanGrantsAssumption DEF TypeOK, Tick, stripe, history
  <2>2. ASSUME NEW u \in Users, RequestDeletion(u) \/ CancelDeletion(u) PROVE TypeOK'
    BY <2>2 DEF TypeOK, RequestDeletion, CancelDeletion, stripe, history
  <2>3. ASSUME NEW u \in Users, HardDelete(u) PROVE TypeOK'
    <3>1. [s \in Sources |-> NoGrant] \in [Sources -> Grant]
      BY DEF NoGrant, Grant
    <3>2. payment' \in SUBSET Payment
      <4>1. ASSUME NEW p \in payment PROVE [p EXCEPT !.user = NoUser] \in Payment
        BY DEF TypeOK, Payment
      <4>2. QED
        BY <2>3, <4>1 DEF TypeOK, HardDelete
    <3>3. QED
      BY <2>3, <3>1, <3>2 DEF TypeOK, HardDelete, stripe
  <2>4. ASSUME NEW c \in Checkouts, StartCheckout(c) PROVE TypeOK'
    BY <2>4 DEF TypeOK, StartCheckout, history
  <2>5. ASSUME NEW e \in Events, Pay(e) PROVE TypeOK'
    BY <2>5 DEF TypeOK, Pay, history
  <2>6. ASSUME NEW h \in Handlers, NEW e \in Events, Deliver(h, e) PROVE TypeOK'
    <3>1. Arrived("webhook", Buyer[CheckoutOf[e]], e, paidAt[e], PassLength) \in Request
      BY <2>6, ArrivedType, PlanGrantsAssumption DEF Deliver, TypeOK, Ops, Unpaid
    <3>2. QED
      BY <2>6, <3>1, ArriveType DEF Deliver
  <2>7. ASSUME NEW h \in Handlers, NEW u \in Users, SignIn(h, u) PROVE TypeOK'
    <3>1. Arrived("og", u, NoEvent, clock, OgLength) \in Request
      BY ArrivedType, PlanGrantsAssumption DEF TypeOK, Ops
    <3>2. QED
      BY <2>7, <3>1, ArriveType DEF SignIn
  <2>8. ASSUME NEW h \in Handlers, NEW op \in AdminOps, NEW u \in Users,
               NEW days \in GrantDays \cup {0, PassLength}, AskAdmin(h, op, u, days)
        PROVE  TypeOK'
    <3>1. days \in Nat
      BY PlanGrantsAssumption
    <3>2. op \in Ops /\ op # "webhook" /\ clock \in Nat
      BY DEF AdminOps, Ops, TypeOK
    <3>3. Arrived(op, u, NoEvent, clock, days) \in Request
      BY <3>1, <3>2, ArrivedType
    <3>4. QED
      BY <2>8, <3>3, ArriveType DEF AskAdmin
  <2>9. ASSUME NEW h \in Handlers, TakeLock(h) PROVE TypeOK'
    <3>1. request[h] \in Request
      BY <2>9 DEF TypeOK, TakeLock
    <3>2. ReadUnderLock(request[h]) \in Request
      BY <3>1, ReadUnderLockType
    <3>3. QED
      BY <2>9, <3>1, <3>2 DEF TypeOK, TakeLock, stripe, history
  <2>10. ASSUME NEW h \in Handlers, Refuse(h) \/ Crash(h) PROVE TypeOK'
    <3>1. Finish(h)
      BY <2>10 DEF Refuse, Crash
    <3>2. crashes' \in 0 .. MaxCrashes
      BY <2>10, PlanGrantsAssumption DEF Refuse, Crash, TypeOK
    <3>3. QED
      BY <2>10, <3>1, <3>2, FinishType DEF TypeOK, Refuse, Crash, stripe, history
  <2>11. ASSUME NEW h \in Handlers, Commit(h) PROVE TypeOK'
    <3> DEFINE q == request[h]
    <3>1. q \in Request /\ Finish(h)
      BY <2>11 DEF Commit, ApplyOrphan, ApplyEvent, GrantOgPass, AdminGrant,
                   AdminExtend, AdminRevoke, TypeOK
    <3>2. /\ request' \in [Handlers -> Request \cup {Idle}]
          /\ lock' \in [Users -> Handlers \cup {NoHandler}]
      BY <3>1, FinishType
    <3>3. CASE ApplyOrphan(h)
      <4>1. payment' \in SUBSET Payment
        BY <3>1, <3>3, PlanGrantsAssumption DEF ApplyOrphan, TypeOK, Payment, Request
      <4>2. QED
        BY <3>2, <3>3, <4>1 DEF ApplyOrphan, TypeOK, stripe, history
    <3>4. CASE ApplyEvent(h)
      <4>1. CASE AlreadyPaid(q.event)
        BY <3>2, <3>4, <4>1 DEF ApplyEvent, TypeOK, stripe
      <4>2. CASE ~AlreadyPaid(q.event)
        <5>1. /\ grant' \in [Users -> [Sources -> Grant]]
              /\ given' \in [Users -> Nat]
              /\ ExtendExpiry(q.latest, q.from, q.length) \in Nat
          BY <3>1, <3>4, <4>2, ExtendType DEF ApplyEvent, Sources
        <5>2. payment' \in SUBSET Payment
          BY <3>1, <3>4, <4>2, <5>1, PlanGrantsAssumption
          DEF ApplyEvent, TypeOK, Payment, Request
        <5>3. QED
          BY <3>2, <3>4, <5>1, <5>2 DEF ApplyEvent, TypeOK, stripe
      <4>3. QED
        BY <4>1, <4>2
    <3>5. CASE GrantOgPass(h)
      <4>1. grant' \in [Users -> [Sources -> Grant]] /\ given' \in [Users -> Nat]
        BY <3>1, <3>5, ExtendType DEF GrantOgPass, Sources
      <4>2. ogGiven' \in [Users -> Nat]
        BY <3>1, <3>5 DEF GrantOgPass, TypeOK, Request
      <4>3. QED
        BY <3>2, <3>5, <4>1, <4>2 DEF GrantOgPass, TypeOK, stripe
    <3>6. CASE AdminGrant(h)
      <4> DEFINE forever == q.op = "grantForever"
                 end == IF forever THEN 0 ELSE ExtendExpiry(0, q.from, q.length)
                 rows == SetPlanGrant(grant[q.user], "admin", forever, end)
      <4>1. end \in Nat
        BY <3>1, LaterIsNat DEF ExtendExpiry, Request
      <4>2. rows \in [Sources -> Grant]
        BY <3>1, <4>1, SetPlanGrantType DEF TypeOK, Request, Sources
      <4>3. audit' \in Seq(AuditEntry)
        BY <3>1, <3>6, AuditedType DEF AdminGrant, AdminOps
      <4>4. grant' \in [Users -> [Sources -> Grant]] /\ given' \in [Users -> Nat]
        BY <3>1, <3>6, <4>2 DEF AdminGrant, TypeOK, Request
      <4>5. QED
        BY <3>2, <3>6, <4>3, <4>4 DEF AdminGrant, TypeOK, stripe
    <3>7. CASE AdminExtend(h)
      <4>1. grant' \in [Users -> [Sources -> Grant]] /\ given' \in [Users -> Nat]
        BY <3>1, <3>7, ExtendType DEF AdminExtend, Sources
      <4>2. audit' \in Seq(AuditEntry)
        BY <3>1, <3>7, AuditedType DEF AdminExtend, AdminOps
      <4>3. QED
        BY <3>2, <3>7, <4>1, <4>2 DEF AdminExtend, TypeOK, stripe
    <3>8. CASE AdminRevoke(h)
      <4>1. RevokeGrants(grant[q.user], q.from) \in [Sources -> Grant]
        BY <3>1, RevokeGrantsType DEF TypeOK, Request
      <4>2. audit' \in Seq(AuditEntry)
        BY <3>1, <3>8, AuditedType DEF AdminRevoke, AdminOps
      <4>3. QED
        BY SMTT(40), <3>1, <3>2, <3>8, <4>1, <4>2 DEF AdminRevoke, TypeOK, stripe, Request
    <3>9. QED
      BY <2>11, <3>3, <3>4, <3>5, <3>6, <3>7, <3>8 DEF Commit
  <2>12. CASE UNCHANGED vars
    BY <2>12 DEF TypeOK, vars
  <2>13. QED
    BY <2>1, <2>2, <2>3, <2>4, <2>5, <2>6, <2>7, <2>8, <2>9, <2>10, <2>11, <2>12
    DEF Next
<1>2. QED
  BY InitType, <1>1, PTL DEF Spec

-----------------------------------------------------------------------------
LEMMA FinishKeepsReadsCurrent ==
  ASSUME TypeOK, ReadsStayCurrent, NEW h \in Handlers, Finish(h),
         \A u \in Users : lock[u] # h => grant'[u] = grant[u]
  PROVE  ReadsStayCurrent'
<1> SUFFICES ASSUME NEW g \in Handlers, request'[g] # Idle, request'[g].pc = "locked"
             PROVE  /\ lock'[request'[g].user] = g
                    /\ request'[g].latest = Latest(grant'[request'[g].user])
  BY DEF ReadsStayCurrent
<1>1. g # h /\ request'[g] = request[g]
  BY DEF Finish, TypeOK
<1>2. request[g] \in Request
  BY <1>1 DEF TypeOK
<1>3. request[g].user \in Users
  BY <1>2 DEF Request
<1>4. lock[request[g].user] = g /\ request[g].latest = Latest(grant[request[g].user])
  BY <1>1 DEF ReadsStayCurrent
<1>5. lock'[request[g].user] = g
  BY <1>1, <1>3, <1>4 DEF Finish
<1>6. grant'[request[g].user] = grant[request[g].user]
  BY <1>1, <1>3, <1>4
<1>7. QED
  BY <1>1, <1>4, <1>5, <1>6

\* Under the row lock no read goes stale: the end of Pro a request read is
\* the end it extends, for any number of concurrent requests.
THEOREM ReadsStayCurrentAlways == Spec => []ReadsStayCurrent
<1>1. Init => ReadsStayCurrent
  BY DEF Init, ReadsStayCurrent
<1>2. TypeOK /\ ReadsStayCurrent /\ [Next]_vars => ReadsStayCurrent'
  <2> SUFFICES ASSUME TypeOK, ReadsStayCurrent, [Next]_vars PROVE ReadsStayCurrent'
    OBVIOUS
  <2>1. CASE UNCHANGED <<grant, lock, request>>
    BY <2>1 DEF ReadsStayCurrent
  <2>2. ASSUME NEW h \in Handlers, NEW q, q.pc = "waiting", Arrive(h, q)
        PROVE  ReadsStayCurrent'
    BY <2>2 DEF ReadsStayCurrent, Arrive, TypeOK
  <2>3. ASSUME NEW h \in Handlers, TakeLock(h) PROVE ReadsStayCurrent'
    <3>1. request[h] \in Request
      BY <2>3 DEF TakeLock, TypeOK
    <3>2. /\ request'[h].user = request[h].user
          /\ request'[h].latest = Latest(grant[request[h].user])
          /\ lock'[request[h].user] = h
      BY <2>3, <3>1 DEF TakeLock, ReadUnderLock, TypeOK, Request
    <3>3. ASSUME NEW g \in Handlers \ {h}, request'[g] # Idle, request'[g].pc = "locked"
          PROVE  /\ lock'[request'[g].user] = g
                 /\ request'[g].latest = Latest(grant'[request'[g].user])
      <4>1. request'[g] = request[g] /\ grant' = grant
        BY <2>3 DEF TakeLock, TypeOK
      <4>2. lock[request[g].user] = g /\ request[g].latest = Latest(grant[request[g].user])
        BY <3>3, <4>1 DEF ReadsStayCurrent
      <4>3. request[g].user # request[h].user
        BY <2>3, <4>2, PlanGrantsAssumption DEF TakeLock
      <4>4. QED
        BY <2>3, <4>1, <4>2, <4>3 DEF TakeLock, TypeOK
    <3>4. QED
      BY <2>3, <3>2, <3>3 DEF ReadsStayCurrent, TakeLock
  <2>4. ASSUME NEW u \in Users, HardDelete(u) PROVE ReadsStayCurrent'
    <3>1. lock' = lock /\ request' = request /\ lock[u] = NoHandler
      BY <2>4 DEF HardDelete
    <3>2. \A w \in Users \ {u} : grant'[w] = grant[w]
      BY <2>4 DEF HardDelete, TypeOK
    <3>3. ASSUME NEW g \in Handlers, request[g] # Idle, request[g].pc = "locked"
          PROVE  request[g].user \in Users \ {u}
      <4>1. request[g] \in Request
        BY <3>3 DEF TypeOK
      <4>2. lock[request[g].user] = g
        BY <3>3 DEF ReadsStayCurrent
      <4>3. QED
        BY <3>1, <4>1, <4>2, PlanGrantsAssumption DEF Request
    <3>4. QED
      BY <3>1, <3>2, <3>3 DEF ReadsStayCurrent
  <2>5. ASSUME NEW h \in Handlers, Refuse(h) \/ Crash(h) \/ ApplyOrphan(h)
        PROVE  ReadsStayCurrent'
    <3>1. Finish(h) /\ grant' = grant
      BY <2>5 DEF Refuse, Crash, ApplyOrphan
    <3>2. QED
      BY <3>1, FinishKeepsReadsCurrent
  <2>6. ASSUME NEW h \in Handlers, Commit(h), ~ApplyOrphan(h) PROVE ReadsStayCurrent'
    <3>1. /\ request[h] \in Request /\ request[h].pc = "locked" /\ Finish(h)
      BY <2>6 DEF Commit, ApplyEvent, GrantOgPass, AdminGrant, AdminExtend,
                  AdminRevoke, TypeOK
    <3>2. lock[request[h].user] = h
      BY <3>1 DEF ReadsStayCurrent, Request, Idle
    <3>3. grant' = grant \/ \A u \in Users \ {request[h].user} : grant'[u] = grant[u]
      BY <2>6, <3>1 DEF Commit, ApplyEvent, GrantOgPass, AdminGrant, AdminExtend,
                        AdminRevoke, Extend, TypeOK
    <3>4. \A u \in Users : lock[u] # h => grant'[u] = grant[u]
      BY <3>2, <3>3
    <3>5. QED
      BY <3>1, <3>4, FinishKeepsReadsCurrent
  <2>7. QED
    <3>1. CASE Tick \/ UNCHANGED vars
      BY <2>1, <3>1 DEF Tick, vars
    <3>2. CASE \E u \in Users : RequestDeletion(u) \/ CancelDeletion(u)
      BY <2>1, <3>2 DEF RequestDeletion, CancelDeletion
    <3>3. CASE (\E c \in Checkouts : StartCheckout(c)) \/ (\E e \in Events : Pay(e))
      BY <2>1, <3>3 DEF StartCheckout, Pay
    <3>4. ASSUME NEW h \in Handlers,
                 \/ \E e \in Events : Deliver(h, e)
                 \/ \E u \in Users : SignIn(h, u)
                 \/ \E op \in AdminOps, u \in Users, days \in GrantDays \cup {0, PassLength} :
                      AskAdmin(h, op, u, days)
          PROVE  ReadsStayCurrent'
      BY <2>2, <3>4 DEF Deliver, SignIn, AskAdmin, Arrived
    <3>5. QED
      BY <2>3, <2>4, <2>5, <2>6, <3>1, <3>2, <3>3, <3>4 DEF Next
<1>3. QED
  BY <1>1, <1>2, TypeCorrect, PTL DEF Spec

-----------------------------------------------------------------------------
\* What a request carries is what happened: no moment of it lies in the future,
\* and a webhook's pass counts from its payment, for the buyer of that checkout.
RequestsCarryTheirCause ==
  /\ \A e \in Events : paidAt[e] <= clock
  /\ \A h \in Handlers : request[h] # Idle =>
       /\ request[h].from <= clock
       /\ request[h].op = "webhook" =>
            /\ request[h].user = Buyer[CheckoutOf[request[h].event]]
            /\ request[h].from = paidAt[request[h].event]
            /\ request[h].length = PassLength

LEMMA RequestsCarryTheirCauseStep ==
  TypeOK /\ RequestsCarryTheirCause /\ [Next]_vars => RequestsCarryTheirCause'
<1> SUFFICES ASSUME TypeOK, RequestsCarryTheirCause, [Next]_vars
             PROVE  RequestsCarryTheirCause'
  OBVIOUS
<1>1. ASSUME UNCHANGED <<clock, paidAt>>, NEW h \in Handlers, NEW q,
             \A g \in Handlers \ {h} : request'[g] = request[g],
             request'[h] = q,
             \/ q = Idle
             \/ /\ q.from <= clock
                /\ q.op = "webhook" => /\ q.user = Buyer[CheckoutOf[q.event]]
                                       /\ q.from = paidAt[q.event]
                                       /\ q.length = PassLength
      PROVE  RequestsCarryTheirCause'
  BY <1>1 DEF RequestsCarryTheirCause
<1>2. ASSUME NEW h \in Handlers, Finish(h), UNCHANGED <<clock, paidAt>>
      PROVE  RequestsCarryTheirCause'
  <2>1. request'[h] = Idle /\ \A g \in Handlers \ {h} : request'[g] = request[g]
    BY <1>2 DEF Finish, TypeOK
  <2>2. QED
    BY <1>1, <1>2, <2>1
<1>3. CASE Tick
  <2>1. clock \in Nat /\ clock' = clock + 1 /\ UNCHANGED <<paidAt, request>>
    BY <1>3 DEF Tick, stripe, TypeOK
  <2>2. \A e \in Events : paidAt[e] \in Int
    BY DEF TypeOK, Unpaid
  <2>3. ASSUME NEW h \in Handlers, request[h] # Idle PROVE request[h].from \in Nat
    <3>1. request[h] \in Request
      BY <2>3 DEF TypeOK
    <3>2. QED
      BY <3>1 DEF Request
  <2>4. /\ \A e \in Events : paidAt[e] <= clock + 1
        /\ \A h \in Handlers : request[h] # Idle => request[h].from <= clock + 1
    BY <2>1, <2>2, <2>3 DEF RequestsCarryTheirCause
  <2>5. QED
    BY <2>1, <2>4 DEF RequestsCarryTheirCause
<1>4. ASSUME NEW e \in Events, Pay(e) PROVE RequestsCarryTheirCause'
  <2>1. /\ \A d \in Events \ {e} : paidAt'[d] = paidAt[d]
        /\ paidAt'[e] = clock /\ paidAt[e] = Unpaid
        /\ clock' = clock /\ request' = request
    BY <1>4 DEF Pay, TypeOK
  <2>2. ASSUME NEW h \in Handlers, request[h] # Idle, request[h].op = "webhook"
        PROVE  request[h].event \in Events \ {e}
    <3>1. request[h] \in Request
      BY <2>2 DEF TypeOK
    <3>2. request[h].event \in Events /\ request[h].from \in Nat
      BY <2>2, <3>1 DEF Request
    <3>3. QED
      BY <2>1, <2>2, <3>2 DEF RequestsCarryTheirCause, Unpaid
  <2>3. \A d \in Events : paidAt'[d] <= clock'
    <3>1. clock \in Int
      BY DEF TypeOK
    <3>2. QED
      BY <2>1, <3>1 DEF RequestsCarryTheirCause
  <2>4. ASSUME NEW h \in Handlers, request[h] # Idle
        PROVE  /\ request[h].from <= clock'
               /\ request[h].op = "webhook" =>
                    /\ request[h].user = Buyer[CheckoutOf[request[h].event]]
                    /\ request[h].from = paidAt'[request[h].event]
                    /\ request[h].length = PassLength
    BY <2>1, <2>2, <2>4 DEF RequestsCarryTheirCause
  <2>5. QED
    BY <2>1, <2>3, <2>4 DEF RequestsCarryTheirCause
<1>5. ASSUME NEW h \in Handlers, NEW e \in Events, Deliver(h, e)
      PROVE  RequestsCarryTheirCause'
  <2> DEFINE q == Arrived("webhook", Buyer[CheckoutOf[e]], e, paidAt[e], PassLength)
  <2>1. /\ request'[h] = q /\ \A g \in Handlers \ {h} : request'[g] = request[g]
        /\ UNCHANGED <<clock, paidAt>>
    BY <1>5 DEF Deliver, Arrive, TypeOK, stripe
  <2>2. /\ q.from = paidAt[e] /\ q.user = Buyer[CheckoutOf[e]] /\ q.event = e
        /\ q.length = PassLength
    BY DEF Arrived
  <2>3. q.from <= clock
    BY <2>2 DEF RequestsCarryTheirCause
  <2> HIDE DEF q
  <2>4. QED
    BY <1>1, <2>1, <2>2, <2>3
<1>6. ASSUME NEW h \in Handlers, NEW op \in Ops \ {"webhook"}, NEW u \in Users, NEW n,
             Arrive(h, Arrived(op, u, NoEvent, clock, n))
      PROVE  RequestsCarryTheirCause'
  <2> DEFINE q == Arrived(op, u, NoEvent, clock, n)
  <2>1. /\ request'[h] = q /\ \A g \in Handlers \ {h} : request'[g] = request[g]
        /\ UNCHANGED <<clock, paidAt>>
    BY <1>6 DEF Arrive, TypeOK, stripe
  <2>2. q.from = clock /\ q.op = op
    BY DEF Arrived
  <2>3. q.from <= clock
    BY <2>2 DEF TypeOK
  <2> HIDE DEF q
  <2>4. QED
    BY <1>1, <2>1, <2>2, <2>3
<1>7. ASSUME NEW h \in Handlers, TakeLock(h) PROVE RequestsCarryTheirCause'
  <2>1. request[h] \in Request /\ request[h] # Idle
    BY <1>7 DEF TakeLock, TypeOK
  <2>2. /\ request'[h] = ReadUnderLock(request[h])
        /\ \A g \in Handlers \ {h} : request'[g] = request[g]
        /\ UNCHANGED <<clock, paidAt>>
    BY <1>7 DEF TakeLock, TypeOK, stripe
  <2>3. /\ ReadUnderLock(request[h]).from = request[h].from
        /\ ReadUnderLock(request[h]).op = request[h].op
        /\ ReadUnderLock(request[h]).user = request[h].user
        /\ ReadUnderLock(request[h]).event = request[h].event
        /\ ReadUnderLock(request[h]).length = request[h].length
    BY <2>1 DEF ReadUnderLock, Request
  <2>4. QED
    BY <1>1, <2>1, <2>2, <2>3 DEF RequestsCarryTheirCause
<1>8. ASSUME NEW h \in Handlers, Refuse(h) \/ Crash(h) \/ Commit(h)
      PROVE  RequestsCarryTheirCause'
  <2>1. Finish(h) /\ UNCHANGED <<clock, paidAt>>
    BY <1>8 DEF Refuse, Crash, Commit, ApplyOrphan, ApplyEvent, GrantOgPass, AdminGrant,
                AdminExtend, AdminRevoke, stripe
  <2>2. QED
    BY <1>2, <2>1
<1>9. CASE UNCHANGED <<clock, paidAt, request>>
  BY <1>9 DEF RequestsCarryTheirCause
<1>10. QED
  <2>1. CASE UNCHANGED vars
    BY <1>9, <2>1 DEF vars
  <2>2. CASE \E u \in Users : RequestDeletion(u) \/ CancelDeletion(u) \/ HardDelete(u)
    BY <1>9, <2>2 DEF RequestDeletion, CancelDeletion, HardDelete, stripe
  <2>3. CASE \E c \in Checkouts : StartCheckout(c)
    BY <1>9, <2>3 DEF StartCheckout
  <2>4. ASSUME NEW h \in Handlers, NEW u \in Users, SignIn(h, u)
        PROVE  RequestsCarryTheirCause'
    BY <1>6, <2>4 DEF SignIn, Ops
  <2>5. ASSUME NEW h \in Handlers, NEW op \in AdminOps, NEW u \in Users, NEW days,
               AskAdmin(h, op, u, days)
        PROVE  RequestsCarryTheirCause'
    BY <1>6, <2>5 DEF AskAdmin, Ops, AdminOps
  <2>6. QED
    BY <1>3, <1>4, <1>5, <1>7, <1>8, <2>1, <2>2, <2>3, <2>4, <2>5 DEF Next

\* A request never carries a moment from the future, and a webhook always
\* carries the payment it reports.
LEMMA RequestsCarryTheirCauseAlways == Spec => []RequestsCarryTheirCause
<1>1. Init => RequestsCarryTheirCause
  BY DEF Init, RequestsCarryTheirCause, Unpaid
<1>2. QED
  BY <1>1, RequestsCarryTheirCauseStep, TypeCorrect, PTL DEF Spec

-----------------------------------------------------------------------------
\* Replacing one row moves the end of Pro no further than the new row's end.
LEMMA SetPlanGrantLatest ==
  ASSUME NEW rows \in [Sources -> Grant], NEW s \in Sources, NEW forever \in BOOLEAN,
         NEW end \in Nat, NEW b \in Nat, Latest(rows) <= b, end <= b
  PROVE  Latest(SetPlanGrant(rows, s, forever, end)) <= b
<1> DEFINE new == SetPlanGrant(rows, s, forever, end)
<1>1. new \in [Sources -> Grant]
  BY SetPlanGrantType
<1>2. ASSUME NEW r \in Sources PROVE Held(new[r]) <= b
  <2>1. CASE r = s
    BY <2>1 DEF SetPlanGrant, Held
  <2>2. CASE r # s
    <3>1. new[r] = rows[r]
      BY <2>2 DEF SetPlanGrant
    <3>2. Held(rows[r]) <= Latest(rows) /\ Latest(rows) \in Nat
      BY LatestIsGreatest
    <3>3. Held(rows[r]) \in Nat
      BY HeldIsNat
    <3>4. QED
      BY <3>1, <3>2, <3>3
  <2>3. QED
    BY <2>1, <2>2
<1> HIDE DEF new
<1>3. Latest(new) <= b
  BY <1>1, <1>2, LatestIsGreatest
<1>4. QED
  BY <1>3 DEF new

\* After a revoke no live row ends later than the revoke.
LEMMA RevokeGrantsLatest ==
  ASSUME NEW rows \in [Sources -> Grant], NEW now \in Nat
  PROVE  /\ Latest(RevokeGrants(rows, now)) <= now
         /\ \A s \in Sources : ~Running(RevokeGrants(rows, now)[s], now)
         /\ Held(RevokeGrants(rows, now)["billing"]) <= Held(rows["billing"])
<1> DEFINE stopped == [s \in Sources |->
                         IF Running(rows[s], now) THEN [rows[s] EXCEPT !.revoked = TRUE]
                         ELSE rows[s]]
           admin == IF ~stopped["admin"].exists
                    THEN [exists |-> TRUE, forever |-> FALSE, expires |-> now, revoked |-> TRUE]
                    ELSE [stopped["admin"] EXCEPT
                            !.forever = FALSE,
                            !.expires = IF @ > now \/ stopped["admin"].forever THEN now ELSE @]
           new == RevokeGrants(rows, now)
<1>1. stopped \in [Sources -> Grant]
  BY DEF Grant
<1>2. ASSUME NEW s \in Sources
      PROVE  ~Running(stopped[s], now) /\ Held(stopped[s]) <= now /\ Held(stopped[s]) <= Held(rows[s])
  <2>1. rows[s] \in Grant /\ Held(rows[s]) \in Nat
    BY HeldIsNat
  <2>2. CASE Running(rows[s], now)
    <3>1. stopped[s] = [rows[s] EXCEPT !.revoked = TRUE]
      BY <2>2
    <3>2. stopped[s].revoked
      BY <2>1, <3>1 DEF Grant
    <3>3. QED
      BY <2>1, <3>2 DEF Running, Live, Held
  <2>3. CASE ~Running(rows[s], now)
    <3>1. stopped[s] = rows[s]
      BY <2>3
    <3>2. QED
      BY <2>1, <2>3, <3>1 DEF Running, Live, Held, Grant
  <2>4. QED
    BY <2>2, <2>3
<1>3. ~Running(admin, now) /\ Held(admin) <= now
  <2>1. stopped["admin"] \in Grant
    BY <1>1 DEF Sources
  <2>2. admin.expires <= now /\ ~admin.forever /\ admin \in Grant
    <3>1. CASE ~stopped["admin"].exists
      BY <3>1 DEF Grant
    <3>2. CASE stopped["admin"].exists
      <4> DEFINE row == stopped["admin"]
                 end == IF row.expires > now \/ row.forever THEN now ELSE row.expires
      <4>1. end \in Nat /\ end <= now
        BY <2>1 DEF Grant
      <4>2. admin = [row EXCEPT !.forever = FALSE, !.expires = end]
        BY <3>2
      <4> HIDE DEF end, row
      <4>3. row \in Grant
        BY <2>1 DEF row
      <4>4. admin.expires = end /\ admin.forever = FALSE /\ admin \in Grant
        <5> HIDE DEF admin
        <5>1. /\ DOMAIN row = {"exists", "revoked", "forever", "expires"}
              /\ row.exists \in BOOLEAN /\ row.revoked \in BOOLEAN
          BY <4>3 DEF Grant
        <5>2. admin.expires = end /\ admin.forever = FALSE
          BY <4>2, <5>1
        <5>3. admin \in Grant
          BY <4>1, <4>2, <4>3 DEF Grant
        <5>4. QED
          BY <5>2, <5>3
      <4>5. QED
        BY <4>1, <4>4
    <3>3. QED
      BY <3>1, <3>2
  <2> HIDE DEF admin
  <2>3. QED
    BY <2>2 DEF Running, Held, Grant
<1>4. new = [stopped EXCEPT !["admin"] = admin]
  BY DEF RevokeGrants
<1>5. \A s \in Sources : new[s] = IF s = "admin" THEN admin ELSE stopped[s]
  BY <1>1, <1>4
<1>6. new \in [Sources -> Grant]
  BY RevokeGrantsType
<1> HIDE DEF new, admin, stopped
<1>7. \A s \in Sources : Held(new[s]) <= now /\ ~Running(new[s], now)
  BY <1>2, <1>3, <1>5
<1>8. Latest(new) <= now
  BY <1>6, <1>7, LatestIsGreatest
<1>9. Held(new["billing"]) <= Held(rows["billing"])
  BY <1>2, <1>5 DEF Sources
<1>10. QED
  BY <1>7, <1>8, <1>9 DEF new

-----------------------------------------------------------------------------
LEMMA ExtendNeverOutruns ==
  ASSUME TypeOK, ReadsStayCurrent, RequestsCarryTheirCause, ProNeverOutrunsWhatWasGiven,
         NEW h \in Handlers, request[h] # Idle, request[h].pc = "locked",
         NEW s \in Sources, Extend(request[h], s), clock' = clock
  PROVE  ProNeverOutrunsWhatWasGiven'
<1> DEFINE q == request[h]
           end == ExtendExpiry(q.latest, q.from, q.length)
<1>1. q \in Request
  BY DEF TypeOK
<1>2. /\ q.user \in Users /\ q.latest \in Nat /\ q.from \in Nat /\ q.length \in Nat
      /\ clock \in Nat /\ given[q.user] \in Nat
  BY <1>1 DEF Request, TypeOK
<1>3. q.latest = Latest(grant[q.user]) /\ q.from <= clock
  BY DEF ReadsStayCurrent, RequestsCarryTheirCause
<1>4. Latest(grant[q.user]) <= clock + given[q.user]
  BY <1>2 DEF ProNeverOutrunsWhatWasGiven
<1>5. end \in Nat /\ end <= clock + given[q.user] + q.length
  BY <1>2, <1>3, <1>4 DEF ExtendExpiry, Later
<1>6. Latest(grant[q.user]) <= clock + given[q.user] + q.length
  BY <1>2, <1>3, <1>4
<1>7. clock + given[q.user] + q.length \in Nat
  BY <1>2
<1>8. /\ grant' = [grant EXCEPT ![q.user] = SetPlanGrant(grant[q.user], s, FALSE, end)]
      /\ given' = [given EXCEPT ![q.user] = given[q.user] + q.length]
  BY DEF Extend
<1>9. grant[q.user] \in [Sources -> Grant]
  BY <1>2 DEF TypeOK
<1> HIDE DEF end, q
<1>10. Latest(SetPlanGrant(grant[q.user], s, FALSE, end)) <= clock + given[q.user] + q.length
  BY <1>5, <1>6, <1>7, <1>9, SetPlanGrantLatest
<1>11. \A u \in Users : Latest(grant'[u]) <= clock + given'[u]
  <2> SUFFICES ASSUME NEW u \in Users PROVE Latest(grant'[u]) <= clock + given'[u]
    OBVIOUS
  <2>1. CASE u = q.user
    <3>1. grant'[u] = SetPlanGrant(grant[q.user], s, FALSE, end)
      BY <1>8, <2>1 DEF TypeOK
    <3>2. given'[u] = given[q.user] + q.length
      BY <1>8, <2>1 DEF TypeOK
    <3>3. clock + given'[u] = clock + given[q.user] + q.length
      BY <1>2, <3>2
    <3>4. QED
      BY <1>10, <3>1, <3>3
  <2>2. CASE u # q.user
    <3>1. grant'[u] = grant[u] /\ given'[u] = given[u]
      BY <1>8, <2>2 DEF TypeOK
    <3>2. QED
      BY <3>1 DEF ProNeverOutrunsWhatWasGiven
  <2>3. QED
    BY <2>1, <2>2
<1>12. QED
  BY <1>11 DEF ProNeverOutrunsWhatWasGiven

\* However requests interleave, crash and repeat, nobody is on Pro past the
\* days that were given to them since their Pro last ended.
THEOREM ProNeverOutruns == Spec => []ProNeverOutrunsWhatWasGiven
<1>1. Init => ProNeverOutrunsWhatWasGiven
  <2> SUFFICES ASSUME Init, NEW u \in Users PROVE Latest(grant[u]) <= clock + given[u]
    BY DEF ProNeverOutrunsWhatWasGiven
  <2>1. PICK manual \in [Users -> ManualRows] :
          /\ grant = [w \in Users |-> [s \in Sources |->
                        IF s = "manual" THEN manual[w] ELSE NoGrant]]
          /\ given = [w \in Users |-> manual[w].expires]
    BY DEF Init
  <2>2. manual[u] \in Grant /\ clock = 0 /\ given[u] = manual[u].expires
    BY <2>1, PlanGrantsAssumption DEF Init
  <2>3. Held(manual[u]) <= given[u] /\ given[u] \in Nat /\ Held(manual[u]) \in Nat
    BY <2>2, HeldIsNat DEF Grant
  <2>4. \A s \in Sources : Held(grant[u][s]) <= given[u]
    BY <2>1, <2>3 DEF Held, Live, NoGrant
  <2>5. grant[u] \in [Sources -> Grant]
    BY InitType DEF TypeOK
  <2>6. Latest(grant[u]) <= given[u]
    BY <2>3, <2>4, <2>5, LatestIsGreatest
  <2>7. QED
    BY <2>2, <2>3, <2>6, <2>5, LatestIsGreatest
<1>2. /\ TypeOK /\ ReadsStayCurrent /\ RequestsCarryTheirCause
      /\ ProNeverOutrunsWhatWasGiven /\ [Next]_vars
      => ProNeverOutrunsWhatWasGiven'
  <2> SUFFICES ASSUME TypeOK, ReadsStayCurrent, RequestsCarryTheirCause,
                      ProNeverOutrunsWhatWasGiven, [Next]_vars
               PROVE  ProNeverOutrunsWhatWasGiven'
    OBVIOUS
  <2>1. CASE UNCHANGED <<clock, grant, given>>
    BY <2>1 DEF ProNeverOutrunsWhatWasGiven
  <2>2. CASE Tick
    <3>1. clock \in Nat /\ clock' = clock + 1 /\ UNCHANGED <<grant, given>>
      BY <2>2 DEF Tick, TypeOK, history
    <3>2. \A u \in Users : Latest(grant[u]) \in Nat /\ given[u] \in Nat
      BY LatestIsGreatest DEF TypeOK
    <3>3. QED
      BY <3>1, <3>2 DEF ProNeverOutrunsWhatWasGiven
  <2>3. ASSUME NEW u \in Users, HardDelete(u) PROVE ProNeverOutrunsWhatWasGiven'
    <3>1. Latest([s \in Sources |-> NoGrant]) = 0
      BY DEF Latest, Later, Held, Live, NoGrant, Sources
    <3>2. QED
      BY <2>3, <3>1 DEF HardDelete, ProNeverOutrunsWhatWasGiven, TypeOK
  <2>4. ASSUME NEW h \in Handlers, ApplyEvent(h) \/ GrantOgPass(h) \/ AdminExtend(h)
        PROVE  ProNeverOutrunsWhatWasGiven'
    <3>1. /\ request[h] # Idle /\ request[h].pc = "locked" /\ clock' = clock
          /\ UNCHANGED <<grant, given>> \/ \E s \in Sources : Extend(request[h], s)
      BY <2>4 DEF ApplyEvent, GrantOgPass, AdminExtend, Sources
    <3>2. QED
      BY <2>1, <3>1, ExtendNeverOutruns
  <2>5. ASSUME NEW h \in Handlers, AdminGrant(h) \/ AdminRevoke(h)
        PROVE  ProNeverOutrunsWhatWasGiven'
    <3> DEFINE q == request[h]
               forever == q.op = "grantForever"
               end == IF forever THEN 0 ELSE ExtendExpiry(0, q.from, q.length)
    <3>1. q \in Request /\ q # Idle /\ clock' = clock
      BY <2>5 DEF AdminGrant, AdminRevoke, TypeOK
    <3>2. /\ q.user \in Users /\ q.from \in Nat /\ q.length \in Nat /\ q.from <= clock
          /\ given[q.user] \in Nat /\ clock \in Nat /\ grant[q.user] \in [Sources -> Grant]
      BY <3>1 DEF Request, TypeOK, RequestsCarryTheirCause
    <3>3. CASE AdminGrant(h)
      <4>1. end \in Nat /\ end <= clock + given[q.user] + q.length
        BY <3>2 DEF ExtendExpiry, Later
      <4>2. /\ grant' = [grant EXCEPT ![q.user] = SetPlanGrant(grant[q.user], "admin", forever, end)]
            /\ given' = [given EXCEPT ![q.user] = given[q.user] + q.length]
        BY <3>3 DEF AdminGrant
      <4>3. /\ Latest(grant[q.user]) <= clock + given[q.user] + q.length
            /\ clock + given[q.user] + q.length \in Nat
        BY <3>2, LatestIsGreatest DEF ProNeverOutrunsWhatWasGiven
      <4>4. forever \in BOOLEAN /\ "admin" \in Sources
        BY DEF Sources
      <4> HIDE DEF q, forever, end
      <4>5. Latest(SetPlanGrant(grant[q.user], "admin", forever, end))
              <= clock + given[q.user] + q.length
        BY <3>2, <4>1, <4>3, <4>4, SetPlanGrantLatest
      <4>6. QED
        BY SMTT(40), <3>1, <3>2, <4>2, <4>5 DEF ProNeverOutrunsWhatWasGiven, TypeOK
    <3>4. CASE AdminRevoke(h)
      <4>1. /\ grant' = [grant EXCEPT ![q.user] = RevokeGrants(grant[q.user], q.from)]
            /\ given' = [given EXCEPT ![q.user] = 0]
        BY <3>4 DEF AdminRevoke
      <4>2. Latest(RevokeGrants(grant[q.user], q.from)) <= q.from
        BY <3>2, RevokeGrantsLatest
      <4>3. Latest(RevokeGrants(grant[q.user], q.from)) \in Nat
        BY <3>2, RevokeGrantsType, LatestIsGreatest
      <4> HIDE DEF q
      <4>4. QED
        BY <3>1, <3>2, <4>1, <4>2, <4>3 DEF ProNeverOutrunsWhatWasGiven, TypeOK
    <3>5. QED
      BY <2>5, <3>3, <3>4
  <2>6. QED
    BY <2>1, <2>2, <2>3, <2>4, <2>5
    DEF Next, vars, history, RequestDeletion, CancelDeletion, StartCheckout, Pay, Deliver,
        SignIn, AskAdmin, Arrive, TakeLock, Refuse, Crash, Commit, ApplyOrphan
<1>3. QED
  BY <1>1, <1>2, TypeCorrect, ReadsStayCurrentAlways, RequestsCarryTheirCauseAlways, PTL DEF Spec

-----------------------------------------------------------------------------
\* What ran out by one moment does not run at a later one.
LEMMA RunningFades ==
  ASSUME NEW row \in Grant, NEW s \in Nat, NEW t \in Nat, s <= t, ~Running(row, s)
  PROVE  ~Running(row, t)
BY DEF Running, Live, Grant

LEMMA AuditedLast ==
  ASSUME TypeOK, NEW q \in Request, NEW plan, NEW rows, audit' = Audited(q, plan, rows)
  PROVE  audit'[Len(audit')].op = q.op /\ audit'[Len(audit')].user = q.user
BY DEF Audited, TypeOK

\* A committed revoke leaves no running Pro row and no stored Pro Plan, although
\* it ends Pro at a moment taken before it waited for the lock.
THEOREM RevokeEndsProAlways == Spec => RevokeEndsPro
<1> DEFINE Revoked(u) == /\ Len(audit') = Len(audit) + 1
                         /\ audit'[Len(audit')].op = "revoke"
                         /\ audit'[Len(audit')].user = u
           Ended == \A u \in Users : Revoked(u) => ~IsPro(storedPlan'[u], grant'[u], clock')
<1>1. TypeOK /\ RequestsCarryTheirCause /\ [Next]_vars => Ended
  <2> SUFFICES ASSUME TypeOK, RequestsCarryTheirCause, [Next]_vars,
                      NEW u \in Users, Revoked(u)
               PROVE  ~IsPro(storedPlan'[u], grant'[u], clock')
    OBVIOUS
  <2>1. audit' # audit
    BY DEF TypeOK
  <2>2. PICK h \in Handlers : AdminGrant(h) \/ AdminExtend(h) \/ AdminRevoke(h)
    BY <2>1 DEF Next, vars, history, Tick, RequestDeletion, CancelDeletion, HardDelete,
                StartCheckout, Pay, Deliver, SignIn, AskAdmin, Arrive, TakeLock, Refuse,
                Crash, Commit, ApplyOrphan, ApplyEvent, GrantOgPass
  <2> DEFINE q == request[h]
             rows == RevokeGrants(grant[q.user], q.from)
  <2>3. q \in Request /\ q # Idle
    BY <2>2 DEF AdminGrant, AdminExtend, AdminRevoke, TypeOK
  <2>4. q.op = "revoke" /\ q.user = u
    BY <2>2, <2>3, AuditedLast DEF AdminGrant, AdminExtend, AdminRevoke
  <2>5. AdminRevoke(h)
    BY <2>2, <2>4 DEF AdminGrant, AdminExtend
  <2>6. grant'[u] = rows /\ storedPlan'[u] = "free" /\ clock' = clock
    BY <2>4, <2>5 DEF AdminRevoke, TypeOK
  <2>7. q.from \in Nat /\ q.from <= clock /\ clock \in Nat /\ grant[u] \in [Sources -> Grant]
    BY <2>3 DEF Request, TypeOK, RequestsCarryTheirCause
  <2>8. rows \in [Sources -> Grant] /\ \A s \in Sources : ~Running(rows[s], q.from)
    BY <2>4, <2>7, RevokeGrantsType, RevokeGrantsLatest
  <2> HIDE DEF q, rows
  <2>9. \A s \in Sources : ~Running(rows[s], clock)
    BY <2>7, <2>8, RunningFades
  <2>10. QED
    BY <2>6, <2>9 DEF IsPro
<1>2. QED
  BY <1>1, TypeCorrect, RequestsCarryTheirCauseAlways, PTL DEF Spec, RevokeEndsPro

-----------------------------------------------------------------------------
\* The marker grantOgPassIfEligible looks for: an OG grant leaves a row that no
\* later write removes while the account exists, and whoever is about to give
\* one has found no row.
OgMarked ==
  /\ \A u \in Users : \/ ogGiven[u] = 0
                      \/ ogGiven[u] = 1 /\ (HasOgGrant(grant[u]) \/ account[u] = "gone")
  /\ \A h \in Handlers : request[h] # Idle /\ request[h].pc = "locked" =>
       /\ account[request[h].user] # "gone"
       /\ request[h].op = "og" => ~HasOgGrant(grant[request[h].user])

\* No write to the rows of an account takes its OG row away.
LEMMA MarkerStays ==
  ASSUME NEW rows \in [Sources -> Grant], HasOgGrant(rows)
  PROVE  /\ \A s \in Sources, forever \in BOOLEAN, end \in Nat :
              HasOgGrant(SetPlanGrant(rows, s, forever, end))
         /\ \A now \in Nat : HasOgGrant(RevokeGrants(rows, now))
<1>1. "og-grant" \in Sources /\ "admin" \in Sources /\ "og-grant" # "admin"
  BY DEF Sources
<1>2. ASSUME NEW s \in Sources, NEW forever \in BOOLEAN, NEW end \in Nat
      PROVE  HasOgGrant(SetPlanGrant(rows, s, forever, end))
  BY <1>1 DEF HasOgGrant, SetPlanGrant
<1>3. ASSUME NEW now \in Nat PROVE HasOgGrant(RevokeGrants(rows, now))
  <2>1. RevokeGrants(rows, now)["og-grant"]
          = IF Running(rows["og-grant"], now) THEN [rows["og-grant"] EXCEPT !.revoked = TRUE]
            ELSE rows["og-grant"]
    BY <1>1 DEF RevokeGrants
  <2>2. rows["og-grant"] \in Grant
    BY <1>1
  <2>3. QED
    BY <2>1, <2>2 DEF HasOgGrant, Grant
<1>4. QED
  BY <1>2, <1>3

\* A commit ends the only locked request of its User, so what the other locked
\* requests found still holds.
LEMMA FinishKeepsMarks ==
  ASSUME TypeOK, ReadsStayCurrent, OgMarked, NEW h \in Handlers, Finish(h),
         account' = account, \A u \in Users : lock[u] # h => grant'[u] = grant[u]
  PROVE  \A g \in Handlers : request'[g] # Idle /\ request'[g].pc = "locked" =>
           /\ account'[request'[g].user] # "gone"
           /\ request'[g].op = "og" => ~HasOgGrant(grant'[request'[g].user])
<1> SUFFICES ASSUME NEW g \in Handlers, request'[g] # Idle, request'[g].pc = "locked"
             PROVE  /\ account'[request'[g].user] # "gone"
                    /\ request'[g].op = "og" => ~HasOgGrant(grant'[request'[g].user])
  OBVIOUS
<1>1. g # h /\ request'[g] = request[g]
  BY DEF Finish, TypeOK
<1>2. request[g].user \in Users
  BY <1>1 DEF TypeOK, Request
<1>3. lock[request[g].user] = g
  BY <1>1 DEF ReadsStayCurrent
<1>4. grant'[request[g].user] = grant[request[g].user]
  BY <1>1, <1>2, <1>3
<1>5. QED
  BY <1>1, <1>4 DEF OgMarked

LEMMA OgMarkedStep ==
  ASSUME TypeOK, ReadsStayCurrent, OgMarked, [Next]_vars
  PROVE  OgMarked'
<1>1. CASE UNCHANGED <<account, grant, request, ogGiven>>
  BY <1>1 DEF OgMarked
<1>2. ASSUME NEW u \in Users, RequestDeletion(u) \/ CancelDeletion(u) PROVE OgMarked'
  <2>1. /\ UNCHANGED <<grant, request, ogGiven>>
        /\ \A w \in Users : account'[w] = "gone" <=> account[w] = "gone"
    BY <1>2 DEF RequestDeletion, CancelDeletion, TypeOK, history
  <2>2. \A h \in Handlers : request[h] # Idle => request[h].user \in Users
    BY DEF TypeOK, Request
  <2>3. QED
    BY <2>1, <2>2 DEF OgMarked
<1>3. ASSUME NEW u \in Users, HardDelete(u) PROVE OgMarked'
  <2>1. /\ account'[u] = "gone" /\ UNCHANGED <<request, ogGiven>> /\ lock[u] = NoHandler
        /\ \A w \in Users \ {u} : account'[w] = account[w] /\ grant'[w] = grant[w]
    BY <1>3 DEF HardDelete, TypeOK
  <2>2. ASSUME NEW h \in Handlers, request[h] # Idle, request[h].pc = "locked"
        PROVE  request[h].user \in Users \ {u}
    <3>1. request[h].user \in Users
      BY <2>2 DEF TypeOK, Request
    <3>2. lock[request[h].user] = h
      BY <2>2 DEF ReadsStayCurrent
    <3>3. QED
      BY <2>1, <3>1, <3>2, PlanGrantsAssumption
  <2>3. QED
    BY <2>1, <2>2 DEF OgMarked
<1>4. ASSUME NEW h \in Handlers, NEW q, q.pc = "waiting", Arrive(h, q) PROVE OgMarked'
  BY <1>4 DEF OgMarked, Arrive, TypeOK, history
<1>5. ASSUME NEW h \in Handlers, TakeLock(h) PROVE OgMarked'
  <2>1. request[h] \in Request
    BY <1>5 DEF TakeLock, TypeOK
  <2>2. /\ request'[h].user = request[h].user /\ request'[h].op = request[h].op
        /\ UNCHANGED <<account, grant, ogGiven>>
        /\ \A g \in Handlers \ {h} : request'[g] = request[g]
    BY <1>5, <2>1 DEF TakeLock, ReadUnderLock, TypeOK, Request, history
  <2>3. /\ account[request[h].user] # "gone"
        /\ request[h].op = "og" => ~HasOgGrant(grant[request[h].user])
    BY <1>5 DEF TakeLock
  <2>4. QED
    BY <2>2, <2>3 DEF OgMarked
<1>6. ASSUME NEW h \in Handlers, Refuse(h) \/ Crash(h) \/ ApplyOrphan(h) PROVE OgMarked'
  <2>1. Finish(h) /\ UNCHANGED <<account, grant, ogGiven>>
    BY <1>6 DEF Refuse, Crash, ApplyOrphan, history
  <2>2. QED
    BY <2>1, FinishKeepsMarks DEF OgMarked
<1>7. ASSUME NEW h \in Handlers, Commit(h), ~ApplyOrphan(h) PROVE OgMarked'
  <2> DEFINE q == request[h]
             Given(rows) == \/ \E s \in Sources, forever \in BOOLEAN, end \in Nat :
                                 rows = SetPlanGrant(grant[q.user], s, forever, end)
                            \/ \E now \in Nat : rows = RevokeGrants(grant[q.user], now)
  <2>1. /\ q \in Request /\ q # Idle /\ q.pc = "locked" /\ Finish(h) /\ account' = account
    BY <1>7 DEF Commit, ApplyEvent, GrantOgPass, AdminGrant, AdminExtend, AdminRevoke, TypeOK
  <2>2. q.user \in Users /\ q.from \in Nat /\ q.length \in Nat /\ q.latest \in Nat
    BY <2>1 DEF Request
  <2>3. lock[q.user] = h
    BY <2>1 DEF ReadsStayCurrent
  <2>4. ExtendExpiry(q.latest, q.from, q.length) \in Nat /\ ExtendExpiry(0, q.from, q.length) \in Nat
    BY <2>2 DEF ExtendExpiry, Later
  <2>5. \/ grant' = grant
        \/ \E rows : Given(rows) /\ grant' = [grant EXCEPT ![q.user] = rows]
    <3>1. CASE \E s \in Sources : Extend(q, s)
      BY <2>4, <3>1 DEF Extend
    <3>2. CASE AdminGrant(h)
      BY <2>4, <3>2 DEF AdminGrant, Sources
    <3>3. CASE AdminRevoke(h)
      BY <2>2, <3>3 DEF AdminRevoke
    <3>4. QED
      BY <1>7, <3>1, <3>2, <3>3 DEF Commit, ApplyEvent, GrantOgPass, AdminExtend, Sources
  <2>6. \A u \in Users \ {q.user} : grant'[u] = grant[u]
    BY <2>5 DEF TypeOK
  <2>7. HasOgGrant(grant[q.user]) => HasOgGrant(grant'[q.user])
    <3> SUFFICES ASSUME HasOgGrant(grant[q.user]), grant' # grant
                 PROVE  HasOgGrant(grant'[q.user])
      OBVIOUS
    <3>1. PICK rows : Given(rows) /\ grant' = [grant EXCEPT ![q.user] = rows]
      BY <2>5
    <3>2. grant[q.user] \in [Sources -> Grant] /\ grant'[q.user] = rows
      BY <2>2, <3>1 DEF TypeOK
    <3>3. HasOgGrant(rows)
      BY <3>1, <3>2, MarkerStays
    <3>4. QED
      BY <3>2, <3>3
  <2>8. \A g \in Handlers : request'[g] # Idle /\ request'[g].pc = "locked" =>
           /\ account'[request'[g].user] # "gone"
           /\ request'[g].op = "og" => ~HasOgGrant(grant'[request'[g].user])
    BY <2>1, <2>3, <2>6, FinishKeepsMarks
  <2>9. CASE ogGiven' = ogGiven
    BY <2>1, <2>6, <2>7, <2>8, <2>9 DEF OgMarked
  <2>10. CASE GrantOgPass(h)
    <3>1. ogGiven[q.user] = 0
      BY <2>1, <2>2, <2>10 DEF OgMarked, GrantOgPass
    <3>2. ogGiven' = [ogGiven EXCEPT ![q.user] = 1]
      BY <2>2, <2>10, <3>1 DEF GrantOgPass, TypeOK
    <3>3. HasOgGrant(grant'[q.user])
      BY <2>2, <2>10 DEF GrantOgPass, Extend, SetPlanGrant, HasOgGrant, TypeOK, Sources
    <3> HIDE DEF q
    <3>4. \A u \in Users : \/ ogGiven'[u] = 0
                           \/ ogGiven'[u] = 1 /\ (HasOgGrant(grant'[u]) \/ account'[u] = "gone")
      BY <2>1, <2>2, <2>6, <3>2, <3>3 DEF OgMarked, TypeOK
    <3>5. QED
      BY <2>8, <3>4 DEF OgMarked
  <2>11. QED
    BY <1>7, <2>9, <2>10 DEF Commit, ApplyEvent, AdminGrant, AdminExtend, AdminRevoke
<1>8. ASSUME NEW h \in Handlers,
             \/ \E e \in Events : Deliver(h, e)
             \/ \E u \in Users : SignIn(h, u)
             \/ \E op \in AdminOps, u \in Users, days \in GrantDays \cup {0, PassLength} :
                  AskAdmin(h, op, u, days)
      PROVE  OgMarked'
  BY <1>4, <1>8 DEF Deliver, SignIn, AskAdmin, Arrived
<1>9. CASE Tick \/ UNCHANGED vars \/ (\E c \in Checkouts : StartCheckout(c)) \/ (\E e \in Events : Pay(e))
  BY <1>1, <1>9 DEF Tick, vars, StartCheckout, Pay, history
<1>10. QED
  BY <1>2, <1>3, <1>5, <1>6, <1>7, <1>8, <1>9 DEF Next

\* The OG pass is given once per User, ever: past concurrent sign-ins, crashes
\* between the check and the commit, revokes and the end of the account.
THEOREM OgPassOnceAlways == Spec => []OgPassOnce
<1>1. Init => OgMarked
  BY DEF Init, OgMarked
<1>2. OgMarked => OgPassOnce
  <2> SUFFICES ASSUME OgMarked, NEW u \in Users PROVE ogGiven[u] <= 1
    BY DEF OgPassOnce
  <2>1. ogGiven[u] = 0 \/ ogGiven[u] = 1
    BY DEF OgMarked
  <2>2. QED
    BY <2>1
<1>3. QED
  BY <1>1, <1>2, OgMarkedStep, TypeCorrect, ReadsStayCurrentAlways, PTL DEF Spec

-----------------------------------------------------------------------------
(* PlanGrants implements PaidTime.                                         *)

\* The refinement mapping's two expressions.
Credited == {p.checkout : p \in {r \in payment : r.passExpiresAt > 0}}
PaidUntil == [u \in Users |-> Held(grant[u]["billing"])]

LEMMA CreditedMember ==
  ASSUME NEW c
  PROVE  c \in Credited <=> \E p \in payment : p.passExpiresAt > 0 /\ p.checkout = c
BY DEF Credited

\* A write to the rows of another source leaves the paid time alone.
LEMMA OtherSourceKeepsPaidTime ==
  ASSUME TypeOK, NEW w \in Users, NEW s \in Sources \ {"billing"}, NEW forever, NEW end,
         grant' = [grant EXCEPT ![w] = SetPlanGrant(grant[w], s, forever, end)]
  PROVE  PaidUntil' = PaidUntil
<1>1. "billing" \in Sources
  BY DEF Sources
<1>2. \A u \in Users : grant'[u]["billing"] = grant[u]["billing"]
  BY <1>1 DEF SetPlanGrant, TypeOK
<1>3. QED
  BY <1>2 DEF PaidUntil

\* A hard delete clears the user of a payment and nothing else of it.
LEMMA HardDeleteEnds ==
  ASSUME TypeOK, NEW u \in Users, HardDelete(u)
  PROVE  Paid!End(u)
<1>1. Credited' = Credited
  <2> DEFINE Cleared(p) == IF p.user = u THEN [p EXCEPT !.user = NoUser] ELSE p
  <2>1. payment' = {Cleared(p) : p \in payment}
    BY DEF HardDelete
  <2>2. \A p \in payment : /\ Cleared(p).checkout = p.checkout
                           /\ Cleared(p).passExpiresAt = p.passExpiresAt
    BY DEF TypeOK, Payment
  <2> HIDE DEF Cleared
  <2>3. QED
    BY <2>1, <2>2 DEF Credited
<1>2. "billing" \in Sources
  BY DEF Sources
<1>3. PaidUntil'[u] = 0 /\ \A w \in Users \ {u} : PaidUntil'[w] = PaidUntil[w]
  BY <1>2 DEF HardDelete, PaidUntil, Held, Live, NoGrant, TypeOK
<1>4. PaidUntil[u] \in Nat
  BY <1>2, HeldIsNat DEF PaidUntil, TypeOK
<1>5. PaidUntil'[u] <= PaidUntil[u]
  BY <1>3, <1>4
<1>6. ended' = [ended EXCEPT ![u] = @ + 1] /\ paidAt' = paidAt
  BY DEF HardDelete, stripe
<1>7. QED
  BY <1>1, <1>3, <1>5, <1>6 DEF Paid!End, Credited, PaidUntil

LEMMA RevokeEndsPaidTime ==
  ASSUME TypeOK, NEW h \in Handlers, AdminRevoke(h)
  PROVE  Paid!End(request[h].user)
<1> DEFINE u == request[h].user
           rows == RevokeGrants(grant[u], request[h].from)
<1>1. request[h] \in Request
  BY DEF AdminRevoke, TypeOK
<1>2. u \in Users /\ request[h].from \in Nat /\ grant[u] \in [Sources -> Grant]
  BY <1>1 DEF Request, TypeOK
<1>3. /\ grant' = [grant EXCEPT ![u] = rows] /\ ended' = [ended EXCEPT ![u] = @ + 1]
      /\ paidAt' = paidAt /\ payment' = payment
  BY DEF AdminRevoke, stripe
<1>4. Held(rows["billing"]) <= Held(grant[u]["billing"])
  BY <1>2, RevokeGrantsLatest
<1> HIDE DEF u, rows
<1>5. PaidUntil'[u] <= PaidUntil[u] /\ \A w \in Users \ {u} : PaidUntil'[w] = PaidUntil[w]
  BY <1>2, <1>3, <1>4 DEF PaidUntil, TypeOK
<1>6. Credited' = Credited
  BY <1>3 DEF Credited
<1>7. QED
  BY <1>3, <1>5, <1>6 DEF Paid!End, Credited, PaidUntil, u

\* A recorded payment credits its checkout for the first time, with a pass that
\* starts no earlier than the payment and than the paid time already held.
LEMMA ApplyEventCredits ==
  ASSUME TypeOK, ReadsStayCurrent, RequestsCarryTheirCause,
         NEW h \in Handlers, ApplyEvent(h),
         NEW e \in Events, e = request[h].event, ~AlreadyPaid(e)
  PROVE  Paid!Credit(e)
<1> DEFINE q == request[h]
           c == CheckoutOf[e]
           end == ExtendExpiry(q.latest, q.from, q.length)
           row == [event |-> e, checkout |-> c, user |-> q.user, passExpiresAt |-> end]
<1>1. q \in Request /\ q # Idle /\ q.pc = "locked" /\ q.op = "webhook"
  BY DEF ApplyEvent, TypeOK
<1>2. /\ e \in Events /\ q.user \in Users /\ q.from \in Nat /\ q.latest \in Nat
      /\ paidAt[e] \in Nat \cup {Unpaid}
  BY <1>1 DEF Request, TypeOK
<1>3. q.user = Buyer[c] /\ q.from = paidAt[e] /\ q.length = PassLength
  BY <1>1 DEF RequestsCarryTheirCause
<1>4. q.latest = Latest(grant[q.user])
  BY <1>1 DEF ReadsStayCurrent
<1>5. PassLength \in Nat /\ PassLength > 0
  BY PlanGrantsAssumption
<1>6. "billing" \in Sources /\ grant[q.user] \in [Sources -> Grant]
  BY <1>2 DEF Sources, TypeOK
<1>7. Held(grant[q.user]["billing"]) <= q.latest /\ Held(grant[q.user]["billing"]) \in Nat
  BY <1>4, <1>6, LatestIsGreatest, HeldIsNat
<1>8. /\ end \in Nat /\ end > 0 /\ end >= paidAt[e] + PassLength
      /\ end >= Held(grant[q.user]["billing"]) + PassLength
  BY <1>2, <1>3, <1>5, <1>7 DEF ExtendExpiry, Later
<1>9. /\ payment' = payment \cup {row}
      /\ grant' = [grant EXCEPT ![q.user] = SetPlanGrant(grant[q.user], "billing", FALSE, end)]
      /\ UNCHANGED <<paidAt, ended>>
  BY DEF ApplyEvent, Extend, stripe
<1>10. c \notin Credited
  BY CreditedMember DEF AlreadyPaid
<1>11. Credited' = Credited \cup {c}
  <2>1. row.checkout = c /\ row.passExpiresAt = end
    OBVIOUS
  <2> HIDE DEF row, c, end
  <2>2. QED
    BY <1>8, <1>9, <2>1 DEF Credited
<1>12. grant'[q.user]["billing"] = [exists |-> TRUE, forever |-> FALSE, expires |-> end,
                                   revoked |-> FALSE]
  BY <1>2, <1>6, <1>9 DEF SetPlanGrant, TypeOK
<1>13. PaidUntil'[q.user] = end
  BY <1>2, <1>12 DEF PaidUntil, Held, Live
<1>14. \A w \in Users \ {q.user} : PaidUntil'[w] = PaidUntil[w]
  BY <1>9 DEF PaidUntil, TypeOK
<1>15. PaidUntil[q.user] = Held(grant[q.user]["billing"])
  BY <1>2 DEF PaidUntil
<1>16. paidAt[e] # -1
  BY <1>2, <1>3
<1> HIDE DEF q, c, end, row
<1>17. /\ PaidUntil'[Buyer[c]] >= PaidUntil[Buyer[c]] + PassLength
       /\ PaidUntil'[Buyer[c]] >= paidAt[e] + PassLength
       /\ \A w \in Users \ {Buyer[c]} : PaidUntil'[w] = PaidUntil[w]
  BY <1>3, <1>8, <1>13, <1>14, <1>15
<1>18. QED
  BY <1>9, <1>10, <1>11, <1>16, <1>17 DEF Paid!Credit, Credited, PaidUntil, c

\* Where the four mapped values stand still, so does PaidTime.
LEMMA PaidStutters ==
  ASSUME UNCHANGED <<paidAt, payment, ended>>, PaidUntil' = PaidUntil
  PROVE  UNCHANGED Paid!vars
BY DEF Paid!vars, PaidUntil

LEMMA PaidStep ==
  ASSUME TypeOK, ReadsStayCurrent, RequestsCarryTheirCause, [Next]_vars
  PROVE  [Paid!Next]_Paid!vars
<1>1. CASE UNCHANGED <<paidAt, payment, ended, grant>>
  BY <1>1, PaidStutters DEF PaidUntil
<1>2. ASSUME NEW e \in Events, Pay(e) PROVE Paid!Pay(e)
  <2>1. paidAt[e] = -1 /\ paidAt' = [paidAt EXCEPT ![e] = clock]
    BY <1>2 DEF Pay, Unpaid
  <2>2. \A d \in Events \ {e} : paidAt'[d] = paidAt[d]
    BY <2>1 DEF TypeOK
  <2>3. UNCHANGED <<payment, grant, ended>>
    BY <1>2 DEF Pay, history
  <2>4. QED
    BY <2>1, <2>2, <2>3 DEF Paid!Pay
<1>3. ASSUME NEW h \in Handlers, ApplyOrphan(h) PROVE UNCHANGED Paid!vars
  <2>1. Credited' = Credited
    BY <1>3 DEF ApplyOrphan, Credited
  <2>2. UNCHANGED <<paidAt, grant, ended>>
    BY <1>3 DEF ApplyOrphan, stripe, history
  <2>3. QED
    BY <2>1, <2>2 DEF Paid!vars, Credited
<1>4. ASSUME NEW h \in Handlers, GrantOgPass(h) \/ AdminGrant(h) \/ AdminExtend(h)
      PROVE  UNCHANGED Paid!vars
  <2>1. UNCHANGED <<paidAt, payment, ended>>
    BY <1>4 DEF GrantOgPass, AdminGrant, AdminExtend, stripe
  <2>2. request[h].user \in Users
    BY <1>4 DEF GrantOgPass, AdminGrant, AdminExtend, TypeOK, Request
  <2>3. {"admin", "og-grant"} \subseteq Sources \ {"billing"}
    BY DEF Sources
  <2>4. PaidUntil' = PaidUntil
    <3>1. ASSUME NEW s \in {"admin", "og-grant"}, Extend(request[h], s)
          PROVE  PaidUntil' = PaidUntil
      BY <2>2, <2>3, <3>1, OtherSourceKeepsPaidTime DEF Extend
    <3>2. CASE AdminGrant(h)
      BY <2>2, <2>3, <3>2, OtherSourceKeepsPaidTime DEF AdminGrant
    <3>3. QED
      BY <1>4, <3>1, <3>2 DEF GrantOgPass, AdminExtend
  <2>5. QED
    BY <2>1, <2>4, PaidStutters
<1>5. ASSUME NEW h \in Handlers, ApplyEvent(h) PROVE [Paid!Next]_Paid!vars
  <2>1. CASE AlreadyPaid(request[h].event)
    BY <1>1, <1>5, <2>1 DEF ApplyEvent, stripe
  <2>2. CASE ~AlreadyPaid(request[h].event)
    <3>1. request[h].event \in Events
      BY <1>5 DEF ApplyEvent, TypeOK, Request
    <3>2. ASSUME NEW e \in Events, e = request[h].event PROVE Paid!Next
      <4>1. Paid!Credit(e)
        BY <1>5, <2>2, <3>2, ApplyEventCredits
      <4>2. QED
        BY <4>1 DEF Paid!Next
    <3>3. QED
      BY <3>1, <3>2
  <2>3. QED
    BY <2>1, <2>2
<1>6. ASSUME NEW h \in Handlers, AdminRevoke(h) PROVE Paid!Next
  <2>1. request[h].user \in Users
    BY <1>6 DEF AdminRevoke, TypeOK, Request
  <2>2. QED
    BY <1>6, <2>1, RevokeEndsPaidTime DEF Paid!Next
<1>7. ASSUME NEW u \in Users, HardDelete(u) PROVE Paid!Next
  BY <1>7, HardDeleteEnds DEF Paid!Next
<1>8. CASE \E e \in Events : Pay(e)
  BY <1>2, <1>8 DEF Paid!Next
<1>9. CASE \/ Tick \/ UNCHANGED vars
           \/ \E u \in Users : RequestDeletion(u) \/ CancelDeletion(u)
           \/ \E c \in Checkouts : StartCheckout(c)
           \/ \E h \in Handlers : \E q : Arrive(h, q)
           \/ \E h \in Handlers : TakeLock(h) \/ Refuse(h) \/ Crash(h)
  <2>1. UNCHANGED <<paidAt, payment, ended, grant>>
    BY <1>9 DEF vars, stripe, history, Tick, RequestDeletion, CancelDeletion, StartCheckout,
                Arrive, TakeLock, Refuse, Crash
  <2>2. QED
    BY <1>1, <2>1
<1>10. ASSUME NEW h \in Handlers,
              \/ \E e \in Events : Deliver(h, e)
              \/ \E u \in Users : SignIn(h, u)
              \/ \E op \in AdminOps, u \in Users, days \in GrantDays \cup {0, PassLength} :
                   AskAdmin(h, op, u, days)
       PROVE  \E q : Arrive(h, q)
  BY <1>10 DEF Deliver, SignIn, AskAdmin
<1>11. ASSUME NEW h \in Handlers, Commit(h) PROVE [Paid!Next]_Paid!vars
  BY <1>3, <1>4, <1>5, <1>6, <1>11 DEF Commit
<1>12. QED
  BY <1>7, <1>8, <1>9, <1>10, <1>11 DEF Next

\* What buying a pass promises holds of the rows, locks and requests that
\* implement it: each checkout credited once, no paid day lost.
THEOREM PaidTimeImplemented == Spec => PaidTimeKept
<1>1. Init => Paid!Init
  <2> SUFFICES ASSUME Init PROVE Paid!Init
    OBVIOUS
  <2>1. \A u \in Users : grant[u]["billing"] = NoGrant
    <3>1. PICK manual \in [Users -> ManualRows] :
            grant = [u \in Users |-> [s \in Sources |->
                       IF s = "manual" THEN manual[u] ELSE NoGrant]]
      BY DEF Init
    <3>2. QED
      BY <3>1 DEF Sources
  <2>2. payment = {} /\ paidAt = [e \in Events |-> -1] /\ ended = [u \in Users |-> 0]
    BY DEF Init, Unpaid
  <2>3. QED
    BY <2>1, <2>2 DEF Paid!Init, Held, Live, NoGrant
<1>2. QED
  BY <1>1, PaidStep, TypeCorrect, ReadsStayCurrentAlways, RequestsCarryTheirCauseAlways, PTL
  DEF Spec, PaidTimeKept, Paid!Spec

-----------------------------------------------------------------------------
(* Only audited steps take Pro time away.                                  *)

\* Payments and the OG pass never write an open-ended row, and whether Pro was
\* permanent is still what a locked request read: an extension that was not
\* refused replaces no permanent row.
PermanenceIsCurrent ==
  /\ \A u \in Users : ~grant[u]["billing"].forever /\ ~grant[u]["og-grant"].forever
  /\ \A h \in Handlers : request[h] # Idle /\ request[h].pc = "locked" =>
       request[h].permanent = IsPermanent(storedPlan[request[h].user], grant[request[h].user])

LEMMA SetPlanGrantKeepsEnded ==
  ASSUME NEW rows \in [Sources -> Grant], NEW s \in Sources, NEW forever \in BOOLEAN,
         NEW end \in Nat, s = "admin" \/ ~forever,
         ~rows["billing"].forever, ~rows["og-grant"].forever
  PROVE  LET new == SetPlanGrant(rows, s, forever, end)
         IN  ~new["billing"].forever /\ ~new["og-grant"].forever
<1>1. {"billing", "og-grant"} \subseteq Sources
  BY DEF Sources
<1>2. QED
  BY <1>1 DEF SetPlanGrant

LEMMA RevokeKeepsEnded ==
  ASSUME NEW rows \in [Sources -> Grant], NEW now \in Nat,
         ~rows["billing"].forever, ~rows["og-grant"].forever
  PROVE  LET new == RevokeGrants(rows, now)
         IN  ~new["billing"].forever /\ ~new["og-grant"].forever
<1>1. ASSUME NEW s \in {"billing", "og-grant"}
      PROVE  RevokeGrants(rows, now)[s] = IF Running(rows[s], now)
                                          THEN [rows[s] EXCEPT !.revoked = TRUE] ELSE rows[s]
  BY DEF RevokeGrants, Sources
<1>2. \A s \in {"billing", "og-grant"} : rows[s] \in Grant
  BY DEF Sources
<1>3. QED
  BY <1>1, <1>2 DEF Grant

LEMMA FinishKeepsPermanence ==
  ASSUME TypeOK, ReadsStayCurrent, PermanenceIsCurrent, NEW h \in Handlers, Finish(h),
         \A u \in Users : lock[u] # h => grant'[u] = grant[u] /\ storedPlan'[u] = storedPlan[u]
  PROVE  \A g \in Handlers : request'[g] # Idle /\ request'[g].pc = "locked" =>
           request'[g].permanent
             = IsPermanent(storedPlan'[request'[g].user], grant'[request'[g].user])
<1> SUFFICES ASSUME NEW g \in Handlers, request'[g] # Idle, request'[g].pc = "locked"
             PROVE  request'[g].permanent
                      = IsPermanent(storedPlan'[request'[g].user], grant'[request'[g].user])
  OBVIOUS
<1>1. g # h /\ request'[g] = request[g]
  BY DEF Finish, TypeOK
<1>2. request[g].user \in Users /\ lock[request[g].user] = g
  BY <1>1 DEF TypeOK, Request, ReadsStayCurrent
<1>3. /\ grant'[request[g].user] = grant[request[g].user]
      /\ storedPlan'[request[g].user] = storedPlan[request[g].user]
  BY <1>1, <1>2
<1>4. QED
  BY <1>1, <1>3 DEF PermanenceIsCurrent

LEMMA PermanenceStep ==
  ASSUME TypeOK, ReadsStayCurrent, PermanenceIsCurrent, [Next]_vars
  PROVE  PermanenceIsCurrent'
<1>1. CASE UNCHANGED <<storedPlan, grant, request>>
  BY <1>1 DEF PermanenceIsCurrent
<1>2. ASSUME NEW u \in Users, HardDelete(u) PROVE PermanenceIsCurrent'
  <2>1. /\ request' = request /\ lock[u] = NoHandler
        /\ grant'[u] = [s \in Sources |-> NoGrant]
        /\ \A w \in Users \ {u} : storedPlan'[w] = storedPlan[w] /\ grant'[w] = grant[w]
    BY <1>2 DEF HardDelete, TypeOK
  <2>2. ASSUME NEW h \in Handlers, request[h] # Idle, request[h].pc = "locked"
        PROVE  request[h].user \in Users \ {u}
    <3>1. request[h].user \in Users
      BY <2>2 DEF TypeOK, Request
    <3>2. lock[request[h].user] = h
      BY <2>2 DEF ReadsStayCurrent
    <3>3. QED
      BY <2>1, <3>1, <3>2, PlanGrantsAssumption
  <2>3. ~grant'[u]["billing"].forever /\ ~grant'[u]["og-grant"].forever
    BY <2>1 DEF Sources, NoGrant
  <2>4. QED
    BY <2>1, <2>2, <2>3 DEF PermanenceIsCurrent
<1>3. ASSUME NEW h \in Handlers, NEW q, q.pc = "waiting", Arrive(h, q)
      PROVE  PermanenceIsCurrent'
  BY <1>3 DEF PermanenceIsCurrent, Arrive, TypeOK
<1>4. ASSUME NEW h \in Handlers, TakeLock(h) PROVE PermanenceIsCurrent'
  <2>1. request[h] \in Request
    BY <1>4 DEF TakeLock, TypeOK
  <2>2. /\ request'[h].user = request[h].user
        /\ request'[h].permanent
             = IsPermanent(storedPlan[request[h].user], grant[request[h].user])
        /\ UNCHANGED <<storedPlan, grant>>
        /\ \A g \in Handlers \ {h} : request'[g] = request[g]
    BY <1>4, <2>1 DEF TakeLock, ReadUnderLock, TypeOK, Request
  <2>3. QED
    BY <2>2 DEF PermanenceIsCurrent
<1>5. ASSUME NEW h \in Handlers, Refuse(h) \/ Crash(h) \/ ApplyOrphan(h)
      PROVE  PermanenceIsCurrent'
  <2>1. Finish(h) /\ UNCHANGED <<storedPlan, grant>>
    BY <1>5 DEF Refuse, Crash, ApplyOrphan
  <2>2. QED
    BY <2>1, FinishKeepsPermanence DEF PermanenceIsCurrent
<1>6. ASSUME NEW h \in Handlers, Commit(h), ~ApplyOrphan(h) PROVE PermanenceIsCurrent'
  <2> DEFINE q == request[h]
             rows == grant[q.user]
             new == grant'[q.user]
  <2>1. q \in Request /\ q # Idle /\ q.pc = "locked" /\ Finish(h)
    BY <1>6 DEF Commit, ApplyEvent, GrantOgPass, AdminGrant, AdminExtend, AdminRevoke, TypeOK
  <2>2. q.user \in Users /\ q.from \in Nat /\ q.length \in Nat /\ q.latest \in Nat
    BY <2>1 DEF Request
  <2>3. lock[q.user] = h
    BY <2>1 DEF ReadsStayCurrent
  <2>4. ExtendExpiry(q.latest, q.from, q.length) \in Nat /\ ExtendExpiry(0, q.from, q.length) \in Nat
    BY <2>2 DEF ExtendExpiry, Later
  <2>5. rows \in [Sources -> Grant] /\ ~rows["billing"].forever /\ ~rows["og-grant"].forever
    BY <2>2 DEF PermanenceIsCurrent, TypeOK
  <2>6. \A u \in Users \ {q.user} : grant'[u] = grant[u] /\ storedPlan'[u] = storedPlan[u]
    BY <1>6, <2>1 DEF Commit, ApplyEvent, GrantOgPass, AdminGrant, AdminExtend, AdminRevoke,
                      Extend, TypeOK
  <2>7. ~new["billing"].forever /\ ~new["og-grant"].forever
    <3>1. ASSUME NEW s \in Sources, Extend(q, s)
          PROVE  ~new["billing"].forever /\ ~new["og-grant"].forever
      <4>1. new = SetPlanGrant(rows, s, FALSE, ExtendExpiry(q.latest, q.from, q.length))
        BY <2>2, <3>1 DEF Extend, TypeOK
      <4>2. QED
        BY <2>4, <2>5, <4>1, SetPlanGrantKeepsEnded
    <3>2. CASE AdminGrant(h)
      <4> DEFINE forever == q.op = "grantForever"
                 end == IF forever THEN 0 ELSE ExtendExpiry(0, q.from, q.length)
      <4>1. new = SetPlanGrant(rows, "admin", forever, end)
        BY <2>2, <3>2 DEF AdminGrant, TypeOK
      <4>2. end \in Nat /\ forever \in BOOLEAN /\ "admin" \in Sources
        BY <2>4 DEF Sources
      <4> HIDE DEF end, forever, new
      <4>3. QED
        BY <2>5, <4>1, <4>2, SetPlanGrantKeepsEnded
    <3>3. CASE AdminRevoke(h)
      <4>1. new = RevokeGrants(rows, q.from)
        BY <2>2, <3>3 DEF AdminRevoke, TypeOK
      <4>2. QED
        BY <2>2, <2>5, <4>1, RevokeKeepsEnded
    <3>4. CASE grant' = grant
      BY <2>5, <3>4
    <3>5. QED
      BY <1>6, <3>1, <3>2, <3>3, <3>4
      DEF Commit, ApplyEvent, GrantOgPass, AdminExtend, Sources
  <2>8. \A u \in Users : ~grant'[u]["billing"].forever /\ ~grant'[u]["og-grant"].forever
    BY <2>6, <2>7 DEF PermanenceIsCurrent
  <2> HIDE DEF q
  <2>9. \A g \in Handlers : request'[g] # Idle /\ request'[g].pc = "locked" =>
           request'[g].permanent
             = IsPermanent(storedPlan'[request'[g].user], grant'[request'[g].user])
    BY <2>1, <2>3, <2>6, FinishKeepsPermanence
  <2>10. QED
    BY <2>8, <2>9 DEF PermanenceIsCurrent
<1>7. ASSUME NEW h \in Handlers,
             \/ \E e \in Events : Deliver(h, e)
             \/ \E u \in Users : SignIn(h, u)
             \/ \E op \in AdminOps, u \in Users, days \in GrantDays \cup {0, PassLength} :
                  AskAdmin(h, op, u, days)
      PROVE  PermanenceIsCurrent'
  BY <1>3, <1>7 DEF Deliver, SignIn, AskAdmin, Arrived
<1>8. CASE \/ Tick \/ UNCHANGED vars
           \/ \E u \in Users : RequestDeletion(u) \/ CancelDeletion(u)
           \/ (\E c \in Checkouts : StartCheckout(c)) \/ (\E e \in Events : Pay(e))
  BY <1>1, <1>8 DEF Tick, vars, RequestDeletion, CancelDeletion, StartCheckout, Pay
<1>9. QED
  BY <1>2, <1>4, <1>5, <1>6, <1>7, <1>8 DEF Next

\* An extension ends no earlier than what was held, and replaces no permanent row.
LEMMA ExtensionOnlyAdds ==
  ASSUME NEW rows \in [Sources -> Grant], NEW s \in Sources, NEW end \in Nat,
         end >= Latest(rows), NEW plan, IsPermanent(plan, rows) => ~rows[s].forever
  PROVE  LET new == SetPlanGrant(rows, s, FALSE, end)
         IN  /\ ~(Latest(new) < Latest(rows))
             /\ IsPermanent(plan, rows) => IsPermanent(plan, new)
<1> DEFINE new == SetPlanGrant(rows, s, FALSE, end)
<1>1. new \in [Sources -> Grant]
  BY SetPlanGrantType
<1>2. new[s] = [exists |-> TRUE, forever |-> FALSE, expires |-> end, revoked |-> FALSE]
  BY DEF SetPlanGrant
<1>3. \A r \in Sources \ {s} : new[r] = rows[r]
  BY DEF SetPlanGrant
<1> HIDE DEF new
<1>4. Held(new[s]) = end
  BY <1>2 DEF Held, Live
<1>5. end <= Latest(new) /\ Latest(new) \in Nat /\ Latest(rows) \in Nat
  BY <1>1, <1>4, LatestIsGreatest
<1>6. ~(Latest(new) < Latest(rows))
  BY <1>5
<1>7. IsPermanent(plan, rows) => IsPermanent(plan, new)
  BY <1>3 DEF IsPermanent
<1>8. QED
  BY <1>6, <1>7 DEF new

\* Pro time is cut from u by this step.
Cut(u) ==
  /\ account'[u] # "gone"
  /\ \/ Latest(grant'[u]) < Latest(grant[u])
     \/ IsPermanent(storedPlan[u], grant[u]) /\ ~IsPermanent(storedPlan'[u], grant'[u])

LEMMA UntouchedIsNotCut ==
  ASSUME TypeOK, NEW u \in Users, grant'[u] = grant[u], storedPlan'[u] = storedPlan[u]
  PROVE  ~Cut(u)
<1>1. Latest(grant[u]) \in Nat
  BY LatestIsGreatest DEF TypeOK
<1>2. ~(Latest(grant'[u]) < Latest(grant[u]))
  BY <1>1
<1>3. QED
  BY <1>2 DEF Cut

LEMMA ExtendDoesNotCut ==
  ASSUME TypeOK, ReadsStayCurrent, PermanenceIsCurrent, NEW u \in Users,
         NEW h \in Handlers, request[h] # Idle, request[h].pc = "locked",
         NEW s \in Sources, Extend(request[h], s), storedPlan' = storedPlan,
         s \in {"billing", "og-grant"} \/ ~request[h].permanent
  PROVE  ~Cut(u)
<1> DEFINE q == request[h]
           rows == grant[q.user]
           end == ExtendExpiry(q.latest, q.from, q.length)
<1>1. q.user \in Users /\ q.from \in Nat /\ q.length \in Nat /\ q.latest \in Nat
  BY DEF TypeOK, Request
<1>2. CASE u # q.user
  BY <1>1, <1>2, UntouchedIsNotCut DEF Extend, TypeOK
<1>3. CASE u = q.user
  <2>1. rows \in [Sources -> Grant] /\ q.latest = Latest(rows)
    BY <1>1 DEF TypeOK, ReadsStayCurrent
  <2>2. end \in Nat /\ end >= Latest(rows)
    BY <1>1, <2>1 DEF ExtendExpiry, Later
  <2>3. IsPermanent(storedPlan[u], rows) => ~rows[s].forever
    <3>1. CASE s \in {"billing", "og-grant"}
      BY <1>1, <3>1 DEF PermanenceIsCurrent
    <3>2. CASE ~q.permanent
      BY <1>3, <3>2 DEF PermanenceIsCurrent
    <3>3. QED
      BY <3>1, <3>2
  <2>4. grant'[u] = SetPlanGrant(rows, s, FALSE, end)
    BY <1>1, <1>3 DEF Extend, TypeOK
  <2> HIDE DEF q, end
  <2>5. QED
    BY <1>3, <2>1, <2>2, <2>3, <2>4, ExtensionOnlyAdds DEF Cut
<1>4. QED
  BY <1>2, <1>3

\* Webhooks, OG passes and extensions only ever add Pro time: what is taken away
\* from a User was a grant or a revoke with its audit entry, or the end of the
\* account.
THEOREM OnlyAuditedStepsCutProAlways == Spec => OnlyAuditedStepsCutPro
<1> DEFINE AuditedCut(u) == /\ Len(audit') = Len(audit) + 1
                            /\ audit'[Len(audit')].user = u
                            /\ audit'[Len(audit')].op \in {"grant", "grantForever", "revoke"}
           Ours == \A u \in Users : Cut(u) => AuditedCut(u)
<1>1. Init => PermanenceIsCurrent
  <2> SUFFICES ASSUME Init PROVE PermanenceIsCurrent
    OBVIOUS
  <2>1. PICK manual \in [Users -> ManualRows] :
          grant = [u \in Users |-> [s \in Sources |->
                     IF s = "manual" THEN manual[u] ELSE NoGrant]]
    BY DEF Init
  <2>2. QED
    BY <2>1 DEF Init, PermanenceIsCurrent, NoGrant, Sources
<1>2. TypeOK /\ ReadsStayCurrent /\ PermanenceIsCurrent /\ [Next]_vars => Ours
  <2> SUFFICES ASSUME TypeOK, ReadsStayCurrent, PermanenceIsCurrent, [Next]_vars,
                      NEW u \in Users, Cut(u)
               PROVE  AuditedCut(u)
    OBVIOUS
  <2>1. grant'[u] # grant[u] \/ storedPlan'[u] # storedPlan[u]
    BY UntouchedIsNotCut
  <2>2. ~HardDelete(u) /\ \A w \in Users \ {u} : ~HardDelete(w)
    BY <2>1 DEF HardDelete, TypeOK, Cut
  <2>3. PICK h \in Handlers : \/ ApplyEvent(h) \/ GrantOgPass(h) \/ AdminExtend(h)
                              \/ AdminGrant(h) \/ AdminRevoke(h)
    BY <2>1, <2>2
    DEF Next, vars, Tick, RequestDeletion, CancelDeletion, StartCheckout, Pay, Deliver,
        SignIn, AskAdmin, Arrive, TakeLock, Refuse, Crash, Commit, ApplyOrphan
  <2> DEFINE q == request[h]
  <2>4. q \in Request /\ q # Idle /\ q.pc = "locked"
    BY <2>3 DEF ApplyEvent, GrantOgPass, AdminGrant, AdminExtend, AdminRevoke, TypeOK
  <2>5. ~ApplyEvent(h) /\ ~GrantOgPass(h)
    BY <2>1, <2>4, ExtendDoesNotCut DEF ApplyEvent, GrantOgPass, Sources
  <2>6. ~AdminExtend(h)
    <3>1. AdminExtend(h) => ~q.permanent /\ Extend(q, "admin") /\ storedPlan' = storedPlan
      BY DEF AdminExtend, Conflict
    <3>2. QED
      BY <2>4, <3>1, ExtendDoesNotCut DEF Sources
  <2>7. CASE AdminGrant(h)
    <3>1. q.user = u
      BY <2>1, <2>7 DEF AdminGrant, TypeOK
    <3>2. QED
      BY <2>4, <2>7, <3>1, AuditedLast DEF AdminGrant, Audited, TypeOK
  <2>8. CASE AdminRevoke(h)
    <3>1. q.user = u
      BY <2>1, <2>8 DEF AdminRevoke, TypeOK
    <3>2. QED
      BY <2>4, <2>8, <3>1, AuditedLast DEF AdminRevoke, Audited, TypeOK
  <2>9. QED
    BY <2>3, <2>5, <2>6, <2>7, <2>8
<1>3. QED
  BY <1>1, <1>2, PermanenceStep, TypeCorrect, ReadsStayCurrentAlways, PTL
  DEF Spec, OnlyAuditedStepsCutPro, Cut

\* The panel's label and the gates agree on every combination of rows and
\* stored Plan, reached or not, so in every state.
THEOREM LabelAgreesAlways == Spec => []KindAgreesWithGate
<1>1. ASSUME NEW plan, NEW rows, NEW t
      PROVE  PlanKind(plan, rows, t) \in {"pro_paid", "pro_admin", "pro_og"}
               <=> IsPro(plan, rows, t)
  BY SMT DEF PlanKind, IsPro, Sources
<1>2. KindAgreesWithGate
  BY <1>1 DEF KindAgreesWithGate
<1>3. QED
  BY <1>2, PTL

=============================================================================

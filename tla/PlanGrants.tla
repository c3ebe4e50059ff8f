----------------------------- MODULE PlanGrants -----------------------------
(***************************************************************************)
(* Who is on Pro, until when, and what may change it (ADR 0039): the Pro   *)
(* Plan rows of the "entitlement" table, the "payment" table that makes    *)
(* the Stripe webhook idempotent, the once-only OG grant, and the admin    *)
(* panel's grant, extend and revoke.                                       *)
(*                                                                         *)
(* Every writer is an API request that opens a transaction, takes the      *)
(* User row lock (select ... for update), reads, writes and commits.  A    *)
(* request is a Handler that moves idle -> waiting -> locked -> idle; the  *)
(* values it read before it wrote live in its record, so that a read made  *)
(* too early would be used too late here exactly as in the program.        *)
(***************************************************************************)
EXTENDS Integers, Sequences

CONSTANTS
  Users,          \* accounts
  Handlers,       \* API requests in flight at once
  Checkouts,      \* Stripe Checkout Sessions
  Events,         \* Stripe event ids
  Buyer,          \* [Checkouts -> Users], the client_reference_id
  CheckoutOf,     \* [Events -> Checkouts], the session an event reports
  PassLength,     \* OFFER_GRANTS.pro_year_pass.days and EXTEND_DAYS (365)
  OgLength,       \* OG_GRANT_LENGTH (three months)
  GrantDays,      \* lengths an admin may give
  Veterans,       \* Users with createdAt < BILLING_LAUNCHED_AT
  LaunchedAt,     \* BILLING_LAUNCHED_AT
  ManualRows,     \* 'manual' rows an operator may have written beforehand
  Leavers,        \* bound: the Users who may ask for deletion
  MaxTime,        \* bound on the clock
  MaxAudit,       \* bound on the audited admin actions
  MaxCrashes,     \* bound on the requests that die before they commit
  NoUser, NoHandler, NoEvent

Sources == {"manual", "admin", "billing", "og-grant"}
Unpaid == -1

VARIABLES
  clock,       \* wall clock, in days
  account,     \* [Users -> "active" | "pending" | "gone"]
  storedPlan,  \* [Users -> "free" | "pro"], the column user.plan
  grant,       \* [Users -> [Sources -> Grant]], rows with plan = 'pro'
  payment,     \* the rows of the payment table
  open,        \* checkouts Stripe has a session for
  paidAt,      \* [Events -> time of the event, or Unpaid]
  request,     \* [Handlers -> Request or Idle]
  lock,        \* [Users -> the Handler holding the row lock, or NoHandler]
  audit,       \* admin_audit_entry, oldest first
  crashes,     \* requests that died so far
  ogGiven,     \* history: OG grants committed per User
  given,       \* history: Pro days given per User since Pro last ended
  ended        \* history: revokes and hard deletes per User

vars == <<clock, account, storedPlan, grant, payment, open, paidAt, request,
          lock, audit, crashes, ogGiven, given, ended>>
stripe == <<open, paidAt>>
history == <<ogGiven, given, ended>>

----------------------------------------------------------------------------
(* Rows and requests. A null expires_at is the flag `forever`; `revoked`   *)
(* is deleted_at not null.                                                 *)
Grant == [exists: BOOLEAN, forever: BOOLEAN, expires: Nat, revoked: BOOLEAN]
NoGrant == [exists |-> FALSE, forever |-> FALSE, expires |-> 0, revoked |-> FALSE]

ASSUME PlanGrantsAssumption ==
  /\ NoUser \notin Users /\ NoHandler \notin Handlers /\ NoEvent \notin Events
  /\ Buyer \in [Checkouts -> Users] /\ CheckoutOf \in [Events -> Checkouts]
  /\ PassLength \in Nat \ {0} /\ OgLength \in Nat \ {0}
  /\ GrantDays \subseteq Nat \ {0} /\ Veterans \subseteq Users /\ Leavers \subseteq Users
  /\ ManualRows \subseteq Grant
  /\ LaunchedAt \in Nat /\ MaxTime \in Nat /\ MaxAudit \in Nat
  /\ MaxCrashes \in Nat

Ops == {"webhook", "og", "grant", "grantForever", "extend", "revoke"}
AdminOps == {"grant", "grantForever", "extend", "revoke"}
Idle == [pc |-> "idle"]

\* `from` is the moment the request's time counts from: the event's created
\* time for a webhook, `new Date()` taken before the lock for the others.
\* `latest`, `before` and `permanent` are what it read under the lock.
Request ==
  {q \in [pc: {"waiting", "locked"}, op: Ops, user: Users, event: Events \cup {NoEvent},
          from: Nat, length: Nat, latest: Nat, before: BOOLEAN, permanent: BOOLEAN] :
     q.op = "webhook" => q.event \in Events}

Arrived(op, u, e, from, length) ==
  [pc |-> "waiting", op |-> op, user |-> u, event |-> e, from |-> from,
   length |-> length, latest |-> 0, before |-> FALSE, permanent |-> FALSE]

Payment ==
  [event: Events, checkout: Checkouts, user: Users \cup {NoUser}, passExpiresAt: Nat]

AuditEntry == [op: AdminOps, user: Users, before: BOOLEAN, after: BOOLEAN]

Later(a, b) == IF a >= b THEN a ELSE b

Live(row) == row.exists /\ ~row.revoked

\* PRO_GRANTS_SQL: a row that counts at time t.
Running(row, t) == Live(row) /\ (row.forever \/ row.expires > t)

\* resolvePlanStatus: the Plan in effect is Pro.
IsPro(plan, rows, t) ==
  \/ plan = "pro"
  \/ \E s \in Sources : Running(rows[s], t)

\* PRO_PERMANENT_SQL.
IsPermanent(plan, rows) ==
  \/ plan = "pro"
  \/ \E s \in Sources : Live(rows[s]) /\ rows[s].forever

\* Mutant: a hand-written row is not counted as a comp.
PlanKindWithoutManual(plan, rows, t) ==
  IF Running(rows["billing"], t) THEN "pro_paid"
  ELSE IF plan = "pro" \/ Running(rows["admin"], t) THEN "pro_admin"
  ELSE IF Running(rows["og-grant"], t) THEN "pro_og"
  ELSE IF \E s \in Sources : rows[s].exists THEN "pro_expired"
  ELSE "free"

\* PLAN_KIND_SQL: the admin panel's label.
PlanKind(plan, rows, t) ==
  IF Running(rows["billing"], t) THEN "pro_paid"
  ELSE IF plan = "pro" \/ Running(rows["admin"], t) \/ Running(rows["manual"], t)
       THEN "pro_admin"
  ELSE IF Running(rows["og-grant"], t) THEN "pro_og"
  ELSE IF \E s \in Sources : rows[s].exists THEN "pro_expired"
  ELSE "free"

\* The end a live row contributes to max("expires_at"); a null is skipped.
Held(row) == IF Live(row) /\ ~row.forever THEN row.expires ELSE 0

\* extendPlanGrant's select: the end of the time held, whatever its source.
Latest(rows) ==
  Later(Later(Held(rows["manual"]), Held(rows["admin"])),
        Later(Held(rows["billing"]), Held(rows["og-grant"])))

\* Mutant: the length counts from the payment alone.
ExpiryFromPayment(current, from, length) == from + length

\* extendExpiry: the length counts from the later of `from` and the end of
\* the time already held.
ExtendExpiry(current, from, length) == Later(current, from) + length

\* setPlanGrant: replace the source's row and revive a revoked one.
SetPlanGrant(rows, source, forever, expires) ==
  [rows EXCEPT ![source] = [exists |-> TRUE, forever |-> forever,
                            expires |-> expires, revoked |-> FALSE]]

\* Mutant: a pass that was paid for outlives the revoke.
RevokeAllButPaid(rows, now) ==
  [s \in Sources |-> IF s # "billing" /\ Running(rows[s], now)
                     THEN [rows[s] EXCEPT !.revoked = TRUE] ELSE rows[s]]

\* revoke: soft-delete the running rows, then upsert the admin row, revoked
\* when it is new and never later than now.
RevokeGrants(rows, now) ==
  LET stopped == [s \in Sources |->
                  IF Running(rows[s], now) THEN [rows[s] EXCEPT !.revoked = TRUE]
                  ELSE rows[s]]
      admin == IF ~stopped["admin"].exists
               THEN [exists |-> TRUE, forever |-> FALSE, expires |-> now, revoked |-> TRUE]
               ELSE [stopped["admin"] EXCEPT
                       !.forever = FALSE,
                       !.expires = IF @ > now \/ stopped["admin"].forever THEN now ELSE @]
  IN [stopped EXCEPT !["admin"] = admin]

\* hasOgGrant: any row, expired and soft-deleted ones included.
HasOgGrant(rows) == rows["og-grant"].exists

\* Mutant: only the event id is unique.
AlreadyPaidByEvent(e) == \E p \in payment : p.event = e

\* The unique keys of payment: the event id and the checkout ref.
AlreadyPaid(e) ==
  \E p \in payment : p.event = e \/ p.checkout = CheckoutOf[e]

----------------------------------------------------------------------------
(* The state a deployment starts from when billing goes live: no Pro row   *)
(* except what an operator wrote by hand.                                  *)
Init ==
  /\ clock = 0
  /\ account = [u \in Users |-> "active"]
  /\ storedPlan \in [Users -> {"free", "pro"}]
  /\ \E manual \in [Users -> ManualRows] :
       /\ grant = [u \in Users |-> [s \in Sources |->
                     IF s = "manual" THEN manual[u] ELSE NoGrant]]
       /\ given = [u \in Users |-> manual[u].expires]
  /\ payment = {}
  /\ open = {}
  /\ paidAt = [e \in Events |-> Unpaid]
  /\ request = [h \in Handlers |-> Idle]
  /\ lock = [u \in Users |-> NoHandler]
  /\ audit = <<>>
  /\ crashes = 0
  /\ ogGiven = [u \in Users |-> 0]
  /\ ended = [u \in Users |-> 0]

----------------------------------------------------------------------------
(* Accounts, checkouts and time.                                           *)
Tick ==
  /\ clock < MaxTime
  /\ clock' = clock + 1
  /\ UNCHANGED <<account, storedPlan, grant, payment, stripe, request, lock,
                 audit, crashes, history>>

\* UsersService.remove and cancelDeletion.
RequestDeletion(u) ==
  /\ u \in Leavers
  /\ account[u] = "active"
  /\ account' = [account EXCEPT ![u] = "pending"]
  /\ UNCHANGED <<clock, storedPlan, grant, payment, stripe, request, lock,
                 audit, crashes, history>>

CancelDeletion(u) ==
  /\ account[u] = "pending"
  /\ account' = [account EXCEPT ![u] = "active"]
  /\ UNCHANGED <<clock, storedPlan, grant, payment, stripe, request, lock,
                 audit, crashes, history>>

\* hardDeleteExpiredAccounts: the delete waits for the row lock; entitlements
\* cascade, payments stay with the user cleared.
HardDelete(u) ==
  /\ account[u] = "pending"
  /\ lock[u] = NoHandler
  /\ account' = [account EXCEPT ![u] = "gone"]
  /\ storedPlan' = [storedPlan EXCEPT ![u] = "free"]
  /\ grant' = [grant EXCEPT ![u] = [s \in Sources |-> NoGrant]]
  /\ given' = [given EXCEPT ![u] = 0]
  /\ ended' = [ended EXCEPT ![u] = @ + 1]
  /\ payment' = {IF p.user = u THEN [p EXCEPT !.user = NoUser] ELSE p : p \in payment}
  /\ UNCHANGED <<clock, stripe, request, lock, audit, crashes, ogGiven>>

\* startCheckout: only an active account gets a Checkout Session.
StartCheckout(c) ==
  /\ c \notin open
  /\ account[Buyer[c]] = "active"
  /\ open' = open \cup {c}
  /\ UNCHANGED <<clock, account, storedPlan, grant, payment, paidAt, request,
                 lock, audit, crashes, history>>

\* Stripe (external): the session completes and an event reports it. The two
\* unique columns of payment allow for a second event about the same session.
Pay(e) ==
  /\ CheckoutOf[e] \in open
  /\ paidAt[e] = Unpaid
  /\ paidAt' = [paidAt EXCEPT ![e] = clock]
  /\ UNCHANGED <<clock, account, storedPlan, grant, payment, open, request,
                 lock, audit, crashes, history>>

----------------------------------------------------------------------------
(* Requests arrive.                                                        *)
Arrive(h, q) ==
  /\ request[h] = Idle
  /\ request' = [request EXCEPT ![h] = q]
  /\ UNCHANGED <<clock, account, storedPlan, grant, payment, stripe, lock,
                 audit, crashes, history>>

\* Stripe delivers an event, late, again, or out of order.
Deliver(h, e) ==
  /\ paidAt[e] # Unpaid
  /\ Arrive(h, Arrived("webhook", Buyer[CheckoutOf[e]], e, paidAt[e], PassLength))

\* grantOgPassIfEligible up to its unlocked hasOgGrant, on a login or a
\* billing status read.
SignIn(h, u) ==
  /\ account[u] # "gone"
  /\ u \in Veterans
  /\ clock >= LaunchedAt
  /\ ~HasOgGrant(grant[u])
  /\ Arrive(h, Arrived("og", u, NoEvent, clock, OgLength))

\* The days an admin action gives: EXTEND_DAYS, or the input's days.
AdminLengths(op) ==
  CASE op = "grant" -> GrantDays
    [] op = "extend" -> {PassLength}
    [] OTHER -> {0}

\* AdminProService.grant, extend and revoke, up to act's `now`.
AskAdmin(h, op, u, days) ==
  /\ Len(audit) < MaxAudit
  /\ days \in AdminLengths(op)
  /\ Arrive(h, Arrived(op, u, NoEvent, clock, days))

----------------------------------------------------------------------------
(* Inside the transaction.                                                 *)

\* What the request reads once it holds the lock.
ReadUnderLock(q) ==
  [q EXCEPT !.pc = "locked",
            !.latest = Latest(grant[q.user]),
            !.before = IsPro(storedPlan[q.user], grant[q.user], q.from),
            !.permanent = IsPermanent(storedPlan[q.user], grant[q.user])]

\* Mutants: select without for update; the OG marker is not re-checked.
TakeLockWithoutWaiting(h) ==
  /\ request[h] # Idle
  /\ request[h].pc = "waiting"
  /\ account[request[h].user] # "gone"
  /\ request[h].op = "og" => ~HasOgGrant(grant[request[h].user])
  /\ lock' = [lock EXCEPT ![request[h].user] = h]
  /\ request' = [request EXCEPT ![h] = ReadUnderLock(request[h])]
  /\ UNCHANGED <<clock, account, storedPlan, grant, payment, stripe, audit,
                 crashes, history>>

TakeLockTrustingFirstCheck(h) ==
  /\ request[h] # Idle
  /\ request[h].pc = "waiting"
  /\ account[request[h].user] # "gone"
  /\ lock[request[h].user] = NoHandler
  /\ lock' = [lock EXCEPT ![request[h].user] = h]
  /\ request' = [request EXCEPT ![h] = ReadUnderLock(request[h])]
  /\ UNCHANGED <<clock, account, storedPlan, grant, payment, stripe, audit,
                 crashes, history>>

\* select ... for update returns the row. The OG path re-checks its marker.
TakeLock(h) ==
  /\ request[h] # Idle
  /\ request[h].pc = "waiting"
  /\ account[request[h].user] # "gone"
  /\ lock[request[h].user] = NoHandler
  /\ request[h].op = "og" => ~HasOgGrant(grant[request[h].user])
  /\ lock' = [lock EXCEPT ![request[h].user] = h]
  /\ request' = [request EXCEPT ![h] = ReadUnderLock(request[h])]
  /\ UNCHANGED <<clock, account, storedPlan, grant, payment, stripe, audit,
                 crashes, history>>

\* act's 409s, from what was read under the lock.
Conflict(q) ==
  \/ q.op \in {"grant", "grantForever"} /\ storedPlan[q.user] = "pro"
  \/ q.op = "extend" /\ q.permanent
  \/ q.op = "revoke" /\ ~q.before

\* Mutant: the request stays in a state nothing moves it out of.
FinishHalfway(h) ==
  /\ request' = [request EXCEPT ![h] = [pc |-> "committed"]]
  /\ lock' = [u \in Users |-> IF lock[u] = h THEN NoHandler ELSE lock[u]]

Finish(h) ==
  /\ request' = [request EXCEPT ![h] = Idle]
  /\ lock' = [u \in Users |-> IF lock[u] = h THEN NoHandler ELSE lock[u]]

\* The request ends without a write: no such User, the OG marker is already
\* there, or a 409.
Refuse(h) ==
  LET q == request[h]
  IN /\ q # Idle
     /\ \/ q.pc = "waiting" /\ account[q.user] = "gone" /\ q.op # "webhook"
        \/ /\ q.pc = "waiting" /\ q.op = "og"
           /\ lock[q.user] = NoHandler /\ HasOgGrant(grant[q.user])
        \/ q.pc = "locked" /\ Conflict(q)
     /\ Finish(h)
     /\ UNCHANGED <<clock, account, storedPlan, grant, payment, stripe, audit,
                    crashes, history>>

\* The process dies or the connection drops: the transaction rolls back.
Crash(h) ==
  /\ request[h] # Idle
  /\ crashes < MaxCrashes
  /\ crashes' = crashes + 1
  /\ Finish(h)
  /\ UNCHANGED <<clock, account, storedPlan, grant, payment, stripe, audit, history>>

\* applyEvent for a User who no longer exists: recorded without a grant.
ApplyOrphan(h) ==
  LET q == request[h]
  IN /\ q # Idle
     /\ q.pc = "waiting" /\ q.op = "webhook" /\ account[q.user] = "gone"
     /\ payment' = IF AlreadyPaid(q.event) THEN payment
                   ELSE payment \cup {[event |-> q.event, checkout |-> CheckoutOf[q.event],
                                       user |-> NoUser, passExpiresAt |-> 0]}
     /\ Finish(h)
     /\ UNCHANGED <<clock, account, storedPlan, grant, stripe, audit, crashes, history>>

\* extendPlanGrant's write, from the end it read under the lock.
Extend(q, source) ==
  LET end == ExtendExpiry(q.latest, q.from, q.length)
  IN /\ grant' = [grant EXCEPT ![q.user] = SetPlanGrant(@, source, FALSE, end)]
     /\ given' = [given EXCEPT ![q.user] = @ + q.length]

\* Mutant: who is Pro for ever has nothing to extend, so nothing is recorded.
ApplyEventUnlessPermanent(h) ==
  LET q == request[h]
  IN /\ q # Idle
     /\ q.pc = "locked" /\ q.op = "webhook"
     /\ IF AlreadyPaid(q.event) \/ q.permanent
        THEN UNCHANGED <<payment, grant, given>>
        ELSE /\ payment' = payment \cup
                  {[event |-> q.event, checkout |-> CheckoutOf[q.event], user |-> q.user,
                    passExpiresAt |-> ExtendExpiry(q.latest, q.from, q.length)]}
             /\ Extend(q, "billing")
     /\ Finish(h)
     /\ UNCHANGED <<clock, account, storedPlan, stripe, audit, crashes, ogGiven, ended>>

\* applyEvent: the payment insert decides whether the pass is extended.
ApplyEvent(h) ==
  LET q == request[h]
      end == ExtendExpiry(q.latest, q.from, q.length)
  IN /\ q # Idle
     /\ q.pc = "locked" /\ q.op = "webhook"
     /\ IF AlreadyPaid(q.event)
        THEN UNCHANGED <<payment, grant, given>>  \* "duplicate"
        ELSE /\ payment' = payment \cup
                  {[event |-> q.event, checkout |-> CheckoutOf[q.event],
                    user |-> q.user, passExpiresAt |-> end]}
             /\ Extend(q, "billing")
     /\ Finish(h)
     /\ UNCHANGED <<clock, account, storedPlan, stripe, audit, crashes, ogGiven, ended>>

GrantOgPass(h) ==
  LET q == request[h]
  IN /\ q # Idle
     /\ q.pc = "locked" /\ q.op = "og"
     /\ Extend(q, "og-grant")
     /\ ogGiven' = [ogGiven EXCEPT ![q.user] = @ + 1]
     /\ Finish(h)
     /\ UNCHANGED <<clock, account, storedPlan, payment, stripe, audit, crashes, ended>>

\* The audit row, with the Plan in effect before and after the change.
Audited(q, plan, rows) ==
  Append(audit, [op |-> q.op, user |-> q.user, before |-> q.before,
                 after |-> IsPro(plan, rows, q.from)])

AdminGrant(h) ==
  LET q == request[h]
      forever == q.op = "grantForever"
      end == IF forever THEN 0 ELSE ExtendExpiry(0, q.from, q.length)
      rows == SetPlanGrant(grant[q.user], "admin", forever, end)
  IN /\ q # Idle
     /\ q.pc = "locked" /\ q.op \in {"grant", "grantForever"} /\ ~Conflict(q)
     /\ grant' = [grant EXCEPT ![q.user] = rows]
     /\ given' = [given EXCEPT ![q.user] = @ + q.length]
     /\ audit' = Audited(q, storedPlan[q.user], rows)
     /\ Finish(h)
     /\ UNCHANGED <<clock, account, storedPlan, payment, stripe, crashes, ogGiven, ended>>

AdminExtend(h) ==
  LET q == request[h]
  IN /\ q # Idle
     /\ q.pc = "locked" /\ q.op = "extend" /\ ~Conflict(q)
     /\ Extend(q, "admin")
     /\ audit' = Audited(q, storedPlan[q.user], grant'[q.user])
     /\ Finish(h)
     /\ UNCHANGED <<clock, account, storedPlan, payment, stripe, crashes, ogGiven, ended>>

\* Mutant: the rows are revoked and a stored Pro Plan is forgotten.
RevokeRowsOnly(h) ==
  LET q == request[h]
      rows == RevokeGrants(grant[q.user], q.from)
  IN /\ q # Idle
     /\ q.pc = "locked" /\ q.op = "revoke" /\ ~Conflict(q)
     /\ grant' = [grant EXCEPT ![q.user] = rows]
     /\ given' = [given EXCEPT ![q.user] = 0]
     /\ ended' = [ended EXCEPT ![q.user] = @ + 1]
     /\ audit' = Audited(q, "free", rows)
     /\ Finish(h)
     /\ UNCHANGED <<clock, account, storedPlan, payment, stripe, crashes, ogGiven>>

\* Ends Pro now: the rows, and a stored Pro Plan. The history starts over.
AdminRevoke(h) ==
  LET q == request[h]
      rows == RevokeGrants(grant[q.user], q.from)
  IN /\ q # Idle
     /\ q.pc = "locked" /\ q.op = "revoke" /\ ~Conflict(q)
     /\ grant' = [grant EXCEPT ![q.user] = rows]
     /\ storedPlan' = [storedPlan EXCEPT ![q.user] = "free"]
     /\ given' = [given EXCEPT ![q.user] = 0]
     /\ ended' = [ended EXCEPT ![q.user] = @ + 1]
     /\ audit' = Audited(q, "free", rows)
     /\ Finish(h)
     /\ UNCHANGED <<clock, account, payment, stripe, crashes, ogGiven>>

----------------------------------------------------------------------------
Commit(h) ==
  \/ ApplyOrphan(h) \/ ApplyEvent(h) \/ GrantOgPass(h)
  \/ AdminGrant(h) \/ AdminExtend(h) \/ AdminRevoke(h)

Next ==
  \/ Tick
  \/ \E u \in Users : RequestDeletion(u) \/ CancelDeletion(u) \/ HardDelete(u)
  \/ \E c \in Checkouts : StartCheckout(c)
  \/ \E e \in Events : Pay(e)
  \/ \E h \in Handlers :
       \/ \E e \in Events : Deliver(h, e)
       \/ \E u \in Users : SignIn(h, u)
       \/ \E op \in AdminOps, u \in Users, days \in GrantDays \cup {0, PassLength} :
            AskAdmin(h, op, u, days)
       \/ TakeLock(h) \/ Refuse(h) \/ Crash(h) \/ Commit(h)

Spec == Init /\ [][Next]_vars

\* Stripe redelivers an event until it is answered 200; Postgres queues the
\* waiters of a row lock; a request that holds it runs on.  Nothing is fair
\* about crashing, paying, signing in or administering.
Fairness ==
  /\ \A e \in Events : SF_vars(~AlreadyPaid(e) /\ \E h \in Handlers : Deliver(h, e))
  /\ \A h \in Handlers : SF_vars(TakeLock(h)) /\ WF_vars(Refuse(h) \/ Commit(h))

FairSpec == Spec /\ Fairness

----------------------------------------------------------------------------
(* Properties.                                                             *)

\* The type invariant: the columns and the requests in flight.
TypeOK ==
  /\ clock \in 0 .. MaxTime
  /\ account \in [Users -> {"active", "pending", "gone"}]
  /\ storedPlan \in [Users -> {"free", "pro"}]
  /\ grant \in [Users -> [Sources -> Grant]]
  /\ lock \in [Users -> Handlers \cup {NoHandler}]
  /\ request \in [Handlers -> Request \cup {Idle}]
  /\ payment \in SUBSET Payment
  /\ open \in SUBSET Checkouts
  /\ paidAt \in [Events -> Nat \cup {Unpaid}]
  /\ audit \in Seq(AuditEntry)
  /\ crashes \in 0 .. MaxCrashes
  /\ ogGiven \in [Users -> Nat] /\ given \in [Users -> Nat] /\ ended \in [Users -> Nat]

\* The row lock does its work (applyEvent, grantOgPassIfEligible, act): a
\* request between its read and its write is alone, and the end of Pro it
\* read is still the end of Pro, so no two grants extend from the same end.
ReadsStayCurrent ==
  \A h \in Handlers :
    (request[h] # Idle /\ request[h].pc = "locked") =>
      /\ lock[request[h].user] = h
      /\ request[h].latest = Latest(grant[request[h].user])

\* Pro is never worth more than what was given: it ends at most `given` days
\* from now, counted since Pro was last ended.  Two extensions of the same
\* stale end, a revoke that misses a row or a revoked row revived with its
\* old end would each break it.
ProNeverOutrunsWhatWasGiven ==
  \A u \in Users : Latest(grant[u]) <= clock + given[u]

\* grantOgPassIfEligible: "Once per User, ever", for concurrent sign-ins,
\* crashes between the check and the commit, and after a revoke.
OgPassOnce == \A u \in Users : ogGiven[u] <= 1

\* plan-status.ts: "an admin list can never disagree with what a gate
\* decides": the panel's label says Pro exactly when the gates do.
KindAgreesWithGate ==
  \A u \in Users :
    PlanKind(storedPlan[u], grant[u], clock) \in {"pro_paid", "pro_admin", "pro_og"}
      <=> IsPro(storedPlan[u], grant[u], clock)

\* admin-pro.service.ts: a revoke "ends Pro now", whatever was committed
\* between the moment it was asked for and the moment it got the lock.
RevokeEndsPro ==
  [][\A u \in Users :
       (/\ Len(audit') = Len(audit) + 1
        /\ audit'[Len(audit')].op = "revoke"
        /\ audit'[Len(audit')].user = u)
       => ~IsPro(storedPlan'[u], grant'[u], clock')]_vars

\* Nothing but an audited admin action (or the end of the account) takes Pro
\* time away from a User: webhooks, OG passes and extensions only add.
OnlyAuditedStepsCutPro ==
  [][\A u \in Users :
       (/\ account'[u] # "gone"
        /\ \/ Latest(grant'[u]) < Latest(grant[u])
           \/ IsPermanent(storedPlan[u], grant[u]) /\ ~IsPermanent(storedPlan'[u], grant'[u]))
       => /\ Len(audit') = Len(audit) + 1
          /\ audit'[Len(audit')].user = u
          /\ audit'[Len(audit')].op \in {"grant", "grantForever", "revoke"}]_vars

\* The paid time a User holds is what PaidTime promises: the refinement maps
\* a credited checkout to its payment row with a pass_expires_at, and the
\* paid time to the live billing row.
Paid == INSTANCE PaidTime WITH
  credited <- {p.checkout : p \in {r \in payment : r.passExpiresAt > 0}},
  until <- [u \in Users |-> Held(grant[u]["billing"])]

PaidTimeKept == Paid!Spec

\* A payment is never forgotten: every event Stripe reports ends in a payment
\* row, through crashes, duplicates and other requests for the same lock.
EveryPaymentSettles ==
  \A e \in Events : (paidAt[e] # Unpaid) ~> AlreadyPaid(e)

=============================================================================

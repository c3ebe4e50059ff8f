-------------------------- MODULE RouteClaimsProofs --------------------------
(***************************************************************************)
(* Proofs about RouteClaims, for any number of accounts, tabs, requests    *)
(* and LocalRoutes, and any cap.                                           *)
(***************************************************************************)
EXTENDS RouteClaims, FiniteSetTheorems, WellFoundedInduction, TLAPS

\* A claim that has LocalRoutes left takes one of them next.
LEMMA OldestIsPending ==
  ASSUME NEW pending \in SUBSET LocalRoute, pending # {}
  PROVE  Oldest(pending) \in pending
<1> DEFINE ids == {r.id : r \in pending}
           Less == OpToRel(<, Nat)
<1>1. ids \subseteq Nat /\ ids # {}
  BY DEF LocalRoute, LocalIds
<1>2. PICK least \in ids : \A i \in ids : ~(<<i, least>> \in Less)
  BY <1>1, NatLessThanWellFounded, WFMin
<1>3. \A i \in ids : least <= i
  <2>1. \A i, j \in Nat : i < j => <<i, j>> \in Less
    BY DEF OpToRel
  <2> HIDE DEF ids, Less
  <2>2. ASSUME NEW i \in ids PROVE least <= i
    <3>1. i \in Nat /\ least \in Nat
      BY <1>1
    <3>2. ~(<<i, least>> \in Less)
      BY <1>2
    <3>3. ~(i < least)
      BY <2>1, <3>1, <3>2
    <3>4. QED
      BY <3>1, <3>3
  <2>3. QED
    BY <2>2
<1>4. PICK r \in pending : r.id = least
  BY <1>2
<1>5. \A q \in pending : r.id <= q.id
  BY <1>3, <1>4
<1>6. QED
  BY <1>5 DEF Oldest

-----------------------------------------------------------------------------
(* Types.                                                                  *)

\* A claim between two LocalRoutes still has one to send.
ClaimsHaveWork ==
  \A t \in Tabs : claim[t].pc \in {"next", "await"} => claim[t].pending # {}

LEMMA ListedType ==
  ASSUME NEW routes \in [LocalIds -> Nat]
  PROVE  Listed(routes) \in SUBSET LocalRoute
BY DEF Listed, LocalRoute

Phases == {"arrived", "unseen", "waiting", "inserting", "collided"} \cup Answers

LEMMA MovedType ==
  ASSUME NEW q \in Request, NEW pc \in Phases
  PROVE  /\ [q EXCEPT !.pc = pc] \in Request
         /\ [q EXCEPT !.tab = NoTab] \in Request
         /\ \A b \in BOOLEAN : [q EXCEPT !.pc = pc, !.unlimited = b] \in Request
BY DEF Request, Phases

LEMMA AnswerType ==
  ASSUME TypeOK, NEW h \in Handlers, request[h] \in Request, NEW outcome \in Answers,
         Answer(h, outcome)
  PROVE  request' \in [Handlers -> Request \cup {Idle}]
<1>1. outcome \in Phases
  BY DEF Phases
<1>2. [request[h] EXCEPT !.pc = outcome] \in Request
  BY <1>1, MovedType
<1>3. request' = [request EXCEPT ![h] = IF request[h].tab = NoTab THEN Idle
                                        ELSE [request[h] EXCEPT !.pc = outcome]]
  BY DEF Answer
<1>4. QED
  BY <1>2, <1>3 DEF TypeOK

LEMMA StepType ==
  ASSUME TypeOK, NEW h \in Handlers, request[h] \in Request, NEW pc \in Phases, Step(h, pc)
  PROVE  request' \in [Handlers -> Request \cup {Idle}]
<1>1. request' = [request EXCEPT ![h] = [request[h] EXCEPT !.pc = pc]]
  BY DEF Step
<1>2. QED
  BY <1>1, MovedType DEF TypeOK

LEMMA OrphanedType ==
  ASSUME TypeOK, NEW h \in Handlers, request[h] \in Request, Orphaned(h)
  PROVE  request' \in [Handlers -> Request \cup {Idle}]
<1>1. "arrived" \in Phases
  BY DEF Phases
<1>2. \/ request' = [request EXCEPT ![h] = Idle]
      \/ request' = [request EXCEPT ![h] = [request[h] EXCEPT !.tab = NoTab]]
  BY DEF Orphaned
<1>3. QED
  BY <1>1, <1>2, MovedType DEF TypeOK

\* The row an insert adds.
NewRow(q) == [id |-> Cardinality(rows) + 1, user |-> q.user, ref |-> q.ref,
              content |-> q.content, deleted |-> FALSE, capped |-> ~q.unlimited]

LEMMA NewRowType ==
  ASSUME TypeOK, IsFiniteSet(rows), NEW q \in Request
  PROVE  NewRow(q) \in Row
BY FS_CardinalityType DEF NewRow, Row, Request

\* Types, and the facts about them that are not types.
Shape == TypeOK /\ ClaimsHaveWork /\ IsFiniteSet(rows)

LEMMA ServeShape ==
  ASSUME Shape, NEW h \in Handlers, Serve(h)
  PROVE  Shape'
<1>1. request[h] # Idle /\ request[h] \in Request
  BY DEF Serve, FindReplay, ReadPlan, LockAndCount, Insert, FindWinner, At, TypeOK, Shape
<1>2. UNCHANGED <<pro, session, stored, tabs, counts>>
  BY DEF Serve, FindReplay, ReadPlan, LockAndCount, Insert, FindWinner
<1>3. {"unseen", "inserting", "collided", "waiting"} \subseteq Phases
      /\ {"ok", "limit", "error"} \subseteq Answers
  BY DEF Phases, Answers
<1>4. request' \in [Handlers -> Request \cup {Idle}]
  <2>1. CASE ReadPlan(h)
    <3> DEFINE b == request[h].user \in pro
               pc == IF b THEN "inserting" ELSE "waiting"
    <3>1. request' = [request EXCEPT ![h] = [request[h] EXCEPT !.pc = pc, !.unlimited = b]]
      BY <2>1 DEF ReadPlan
    <3>2. pc \in Phases /\ b \in BOOLEAN
      BY <1>3
    <3> HIDE DEF b, pc
    <3>3. QED
      BY <1>1, <3>1, <3>2, MovedType DEF TypeOK, Shape
  <2>2. CASE FindWinner(h)
    <3>1. \E outcome \in Answers : Answer(h, outcome)
      BY <1>3, <2>2 DEF FindWinner
    <3>2. QED
      BY <1>1, <3>1, AnswerType DEF Shape
  <2>3. CASE FindReplay(h) \/ LockAndCount(h) \/ Insert(h)
    <3>1. (\E outcome \in Answers : Answer(h, outcome)) \/ \E pc \in Phases : Step(h, pc)
      BY <1>3, <2>3 DEF FindReplay, LockAndCount, Insert
    <3>2. QED
      BY <1>1, <3>1, AnswerType, StepType DEF Shape
  <2>4. QED
    BY <2>1, <2>2, <2>3 DEF Serve
<1>5. lock' \in [Users -> SUBSET Handlers]
  BY <1>1 DEF Serve, FindReplay, ReadPlan, LockAndCount, Insert, FindWinner, TypeOK, Shape
<1>6. rows' \in SUBSET Row /\ IsFiniteSet(rows')
  <2>1. rows' = rows \/ rows' = rows \cup {NewRow(request[h])}
    BY DEF Serve, FindReplay, ReadPlan, LockAndCount, FindWinner, Insert, NewRow
  <2>2. rows \in SUBSET Row /\ IsFiniteSet(rows) /\ NewRow(request[h]) \in Row
    BY <1>1, NewRowType DEF TypeOK, Shape
  <2>3. IsFiniteSet(rows \cup {NewRow(request[h])})
    BY <2>2, FS_AddElement
  <2>4. QED
    BY <2>1, <2>2, <2>3
<1>7. QED
  BY <1>2, <1>4, <1>5, <1>6 DEF TypeOK, ClaimsHaveWork, tabs, counts, Shape

LEMMA AccountShape ==
  ASSUME Shape,
         \/ \E h \in Handlers, u \in Users : DirectSave(h, u)
         \/ \E r \in rows : SoftDelete(r) \/ RestoreRoute(r)
         \/ \E u \in Users : PlanChanges(u)
  PROVE  Shape'
<1>1. ASSUME NEW h \in Handlers, NEW u \in Users, DirectSave(h, u) PROVE Shape'
  <2>1. Received(NoTab, u, NoRef, 0) \in Request
    BY DEF Received, Request
  <2>2. request' \in [Handlers -> Request \cup {Idle}]
    BY <1>1, <2>1 DEF DirectSave, Shape, TypeOK
  <2>3. QED
    BY <1>1, <2>2 DEF DirectSave, Shape, TypeOK, ClaimsHaveWork, tabs, counts
<1>2. ASSUME NEW r \in rows, NEW new, new \in Row, rows' = (rows \ {r}) \cup {new},
             admin' = admin + 1,
             UNCHANGED <<request, lock, pro, session, stored, tabs, minted, edits, losses,
                         signOuts, discarded>>
      PROVE  Shape'
  <2>1. rows' \in SUBSET Row
    BY <1>2 DEF Shape, TypeOK
  <2>2. IsFiniteSet(rows')
    BY <1>2, FS_RemoveElement, FS_AddElement DEF Shape
  <2>3. QED
    BY <1>2, <2>1, <2>2 DEF Shape, TypeOK, ClaimsHaveWork, tabs
<1>3. ASSUME NEW r \in rows, SoftDelete(r) \/ RestoreRoute(r) PROVE Shape'
  <2>1. r \in Row
    BY DEF Shape, TypeOK
  <2>2. /\ [r EXCEPT !.deleted = TRUE] \in Row
        /\ [r EXCEPT !.deleted = FALSE, !.capped = FALSE] \in Row
    BY <2>1 DEF Row
  <2>3. QED
    BY <1>2, <1>3, <2>2 DEF SoftDelete, RestoreRoute
<1>4. ASSUME NEW u \in Users, PlanChanges(u) PROVE Shape'
  BY <1>4 DEF PlanChanges, Shape, TypeOK, ClaimsHaveWork, tabs
<1>5. QED
  BY <1>1, <1>3, <1>4

LEMMA ReadDeviceType ==
  ASSUME Shape, NEW t \in Tabs, NEW routes, ReadDevice(t, routes)
  PROVE  /\ routes \in [LocalIds -> Nat] /\ losses' \in Nat
         /\ UNCHANGED <<minted, edits, signOuts, admin, discarded>>
BY DEF ReadDevice, Lose, counts, Shape, TypeOK

LEMMA DeviceShape ==
  ASSUME Shape, NEW t \in Tabs,
         \/ Hydrate(t) \/ EndSave(t) \/ FailSave(t)
         \/ \E fromDraft \in BOOLEAN : BeginSave(t, fromDraft)
         \/ \E l \in LocalIds \cup {NoRef} : Bind(t, l)
         \/ \E l \in LocalIds : Discard(t, l)
  PROVE  Shape'
<1>1. CASE Hydrate(t)
  BY <1>1, ReadDeviceType DEF Hydrate, Shape, TypeOK, ClaimsHaveWork, api
<1>2. CASE EndSave(t)
  <2>1. /\ saving[t] \in Saving /\ saving[t].route \in LocalRoute
        /\ saving[t].before \in [LocalIds -> Nat]
    BY <1>2 DEF EndSave, Shape, TypeOK, Saving
  <2>2. saving[t].route.id \in LocalIds /\ saving[t].route.content \in Nat
    BY <2>1 DEF LocalRoute
  <2>3. /\ stored' \in [LocalIds -> Nat] /\ list' \in [Tabs -> [LocalIds -> Nat]]
        /\ bound' \in [Tabs -> LocalIds \cup {NoRef}]
        /\ saving' \in [Tabs -> Saving \cup {NotSaving}]
    BY <1>2, <2>1, <2>2 DEF EndSave, Shape, TypeOK
  <2>4. QED
    BY <1>2, <2>3 DEF EndSave, Shape, TypeOK, ClaimsHaveWork, api, counts
<1>3. CASE FailSave(t)
  BY <1>3 DEF FailSave, Lose, Shape, TypeOK, ClaimsHaveWork, api
<1>4. ASSUME NEW fromDraft \in BOOLEAN, BeginSave(t, fromDraft) PROVE Shape'
  <2> DEFINE existing == fromDraft /\ bound[t] # NoRef /\ list[t][bound[t]] # Absent
             id == IF existing THEN bound[t] ELSE minted + 1
             route == [id |-> id, content |-> edits + 1]
  <2>1. /\ id \in LocalIds /\ minted' = (IF existing THEN minted ELSE minted + 1)
        /\ edits' = edits + 1
        /\ saving' = [saving EXCEPT ![t] = [pc |-> "put", route |-> route,
                                            before |-> list[t], fromDraft |-> fromDraft]]
        /\ UNCHANGED <<api, session, stored, signedIn, list, hydrated, bound, claim, losses,
                       signOuts, admin, discarded>>
    BY <1>4 DEF BeginSave
  <2>2. minted' \in 0 .. LocalRoutes /\ edits' \in Nat
    BY <2>1 DEF Shape, TypeOK, LocalIds
  <2>3. route \in LocalRoute
    BY <2>1 DEF LocalRoute, Shape, TypeOK
  <2> HIDE DEF existing, id, route
  <2>4. saving' \in [Tabs -> Saving \cup {NotSaving}]
    BY <2>1, <2>3 DEF Shape, TypeOK, Saving
  <2>5. QED
    BY <2>1, <2>2, <2>4 DEF Shape, TypeOK, ClaimsHaveWork, api
<1>5. ASSUME NEW l \in LocalIds \cup {NoRef}, Bind(t, l) PROVE Shape'
  BY <1>5 DEF Bind, Shape, TypeOK, ClaimsHaveWork, api, counts
<1>6. ASSUME NEW l \in LocalIds, Discard(t, l) PROVE Shape'
  BY <1>6 DEF Discard, Remove, Shape, TypeOK, ClaimsHaveWork, api, Absent
<1>7. QED
  BY <1>1, <1>2, <1>3, <1>4, <1>5, <1>6

LEMMA SessionShape ==
  ASSUME Shape, NEW t \in Tabs, (\E u \in Users : SignIn(t, u)) \/ SignOut(t) \/ Notice(t)
  PROVE  Shape'
<1>1. ASSUME NEW u \in Users \cup {NoUser}, Shows(t, u),
             session' \in Users \cup {NoUser}, signOuts' \in Nat,
             UNCHANGED <<api, stored, list, hydrated, bound, saving, minted, edits, losses,
                         admin, discarded>>
      PROVE  Shape'
  <2>1. [pc |-> "starting", pending |-> {}] \in Claim
    BY DEF Claim
  <2>2. signedIn' \in [Tabs -> Users \cup {NoUser}] /\ claim' \in [Tabs -> Claim]
    BY <1>1, <2>1 DEF Shows, Shape, TypeOK
  <2>3. ClaimsHaveWork'
    BY <1>1 DEF Shows, Shape, TypeOK, ClaimsHaveWork
  <2>4. QED
    BY <1>1, <2>2, <2>3 DEF Shape, TypeOK, api
<1>2. ASSUME NEW u \in Users, SignIn(t, u) PROVE Shape'
  BY <1>1, <1>2 DEF SignIn, Shape, TypeOK, counts
<1>3. CASE SignOut(t)
  BY <1>1, <1>3 DEF SignOut, Shape, TypeOK
<1>4. CASE Notice(t)
  BY <1>1, <1>4 DEF Notice, Shape, TypeOK, counts
<1>5. QED
  BY <1>2, <1>3, <1>4

LEMMA ClaimShape ==
  ASSUME Shape, NEW t \in Tabs,
         \/ StartClaim(t) \/ SendUnauthorized(t)
         \/ \E h \in Handlers : \/ SendClaim(t, h) \/ Claimed(t, h) \/ StopClaim(t, h)
                                \/ LoseConnection(t, h) \/ FailRemove(t, h)
  PROVE  Shape'
<1>1. NoClaim \in Claim /\ NoClaim.pc = "off"
  BY DEF NoClaim, Claim
<1>2. CASE StartClaim(t)
  <2>1. PICK routes : /\ ReadDevice(t, routes) /\ list' = [list EXCEPT ![t] = routes]
                      /\ claim' = [claim EXCEPT ![t] =
                           IF Listed(routes) = {} THEN NoClaim
                           ELSE [pc |-> "next", pending |-> Listed(routes)]]
    BY <1>2 DEF StartClaim
  <2>2. /\ routes \in [LocalIds -> Nat] /\ losses' \in Nat
        /\ UNCHANGED <<minted, edits, signOuts, admin, discarded>>
    BY <2>1, ReadDeviceType
  <2>3. [pc |-> "next", pending |-> Listed(routes)] \in Claim
    BY <2>2, ListedType DEF Claim
  <2>4. list' \in [Tabs -> [LocalIds -> Nat]] /\ claim' \in [Tabs -> Claim]
    BY <1>1, <2>1, <2>2, <2>3 DEF Shape, TypeOK
  <2>5. ClaimsHaveWork'
    BY <1>1, <2>1 DEF Shape, TypeOK, ClaimsHaveWork
  <2>6. QED
    BY <1>2, <2>2, <2>4, <2>5 DEF StartClaim, Shape, TypeOK, api
<1>3. CASE SendUnauthorized(t)
  BY <1>1, <1>3 DEF SendUnauthorized, Shape, TypeOK, ClaimsHaveWork, api, counts
<1>4. ASSUME NEW h \in Handlers, SendClaim(t, h) PROVE Shape'
  <2> DEFINE r == Oldest(claim[t].pending)
  <2>1. claim[t] \in Claim /\ claim[t].pc = "next"
    BY <1>4 DEF SendClaim, Shape, TypeOK
  <2>2. r \in LocalRoute
    BY <2>1, OldestIsPending DEF Shape, ClaimsHaveWork, Claim
  <2>3. session \in Users
    BY <1>4 DEF SendClaim, Shape, TypeOK
  <2>4. /\ request' = [request EXCEPT ![h] = Received(t, session, r.id, r.content)]
        /\ claim' = [claim EXCEPT ![t] = [claim[t] EXCEPT !.pc = "await"]]
    BY <1>4 DEF SendClaim
  <2> HIDE DEF r
  <2>5. Received(t, session, r.id, r.content) \in Request
    BY <2>2, <2>3 DEF Received, Request, LocalRoute
  <2>6. request' \in [Handlers -> Request \cup {Idle}]
    BY <2>4, <2>5 DEF Shape, TypeOK
  <2>7. [claim[t] EXCEPT !.pc = "await"] \in Claim
        /\ [claim[t] EXCEPT !.pc = "await"].pending = claim[t].pending
    BY <2>1 DEF Claim
  <2>8. claim' \in [Tabs -> Claim] /\ ClaimsHaveWork'
    BY <2>1, <2>4, <2>7 DEF Shape, TypeOK, ClaimsHaveWork
  <2>9. QED
    BY <1>4, <2>6, <2>8 DEF SendClaim, Shape, TypeOK, counts
<1>5. ASSUME NEW h \in Handlers, Claimed(t, h) PROVE Shape'
  <2> DEFINE rest == claim[t].pending \ {Oldest(claim[t].pending)}
             next == IF rest = {} THEN NoClaim ELSE [pc |-> "next", pending |-> rest]
  <2>1. claim' = [claim EXCEPT ![t] = next]
    BY <1>5 DEF Claimed
  <2>2. rest \in SUBSET LocalRoute
    BY DEF Shape, TypeOK, Claim
  <2> HIDE DEF rest
  <2>3. next \in Claim /\ (next.pc \in {"next", "await"} => next.pending # {})
    BY <1>1, <2>2 DEF Claim
  <2> HIDE DEF next
  <2>4. claim' \in [Tabs -> Claim] /\ ClaimsHaveWork'
    BY <2>1, <2>3 DEF Shape, TypeOK, ClaimsHaveWork
  <2>5. /\ request' \in [Handlers -> Request \cup {Idle}]
        /\ stored' \in [LocalIds -> Nat] /\ list' \in [Tabs -> [LocalIds -> Nat]]
        /\ bound' \in [Tabs -> LocalIds \cup {NoRef}]
    BY <1>5 DEF Claimed, Remove, Shape, TypeOK, Absent
  <2>6. QED
    BY <1>5, <2>4, <2>5 DEF Claimed, Shape, TypeOK, counts
<1>6. ASSUME NEW h \in Handlers, StopClaim(t, h) \/ FailRemove(t, h) \/ LoseConnection(t, h)
      PROVE  Shape'
  <2>1. claim' = [claim EXCEPT ![t] = NoClaim]
    BY <1>6 DEF StopClaim, FailRemove, LoseConnection
  <2>2. claim' \in [Tabs -> Claim] /\ ClaimsHaveWork'
    BY <1>1, <2>1 DEF Shape, TypeOK, ClaimsHaveWork
  <2>3. request[h] \in Request
    BY <1>6 DEF StopClaim, FailRemove, LoseConnection, At, Shape, TypeOK
  <2>4. request' \in [Handlers -> Request \cup {Idle}]
    <3>1. CASE LoseConnection(t, h)
      BY <2>3, <3>1, OrphanedType DEF LoseConnection, Shape
    <3>2. CASE StopClaim(t, h) \/ FailRemove(t, h)
      BY <3>2 DEF StopClaim, FailRemove, Shape, TypeOK
    <3>3. QED
      BY <1>6, <3>1, <3>2
  <2>5. /\ losses' \in Nat
        /\ UNCHANGED <<rows, lock, pro, session, stored, signedIn, list, hydrated, bound,
                       saving, minted, edits, signOuts, admin, discarded>>
    BY <1>6 DEF StopClaim, FailRemove, LoseConnection, Lose, counts, Shape, TypeOK
  <2>6. QED
    BY <2>2, <2>4, <2>5 DEF Shape, TypeOK
<1>7. QED
  BY <1>2, <1>3, <1>4, <1>5, <1>6

LEMMA ReloadShape ==
  ASSUME Shape, NEW t \in Tabs, Reload(t)
  PROVE  Shape'
<1> DEFINE s == saving[t]
<1>1. request' \in [Handlers -> Request \cup {Idle}]
  <2>1. CASE request' = request
    BY <2>1 DEF Shape, TypeOK
  <2>2. CASE request' # request
    <3>1. PICK h \in Handlers : request[h] # Idle /\ Orphaned(h)
      BY <2>2 DEF Reload
    <3>2. request[h] \in Request
      BY <3>1 DEF Shape, TypeOK
    <3>3. QED
      BY <3>1, <3>2, OrphanedType DEF Shape
  <2>3. QED
    BY <2>1, <2>2
<1>2. stored' \in [LocalIds -> Nat]
  <2>1. CASE stored' = stored
    BY <2>1 DEF Shape, TypeOK
  <2>2. CASE stored' # stored
    <3>1. s # NotSaving /\ stored' = [stored EXCEPT ![s.route.id] = s.route.content]
      BY <2>2 DEF Reload
    <3>2. s.route \in LocalRoute
      BY <3>1 DEF Shape, TypeOK, Saving
    <3>3. s.route.content \in Nat
      BY <3>2 DEF LocalRoute
    <3>4. QED
      BY <3>1, <3>3 DEF Shape, TypeOK
  <2>3. QED
    BY <2>1, <2>2
<1>3. /\ list' \in [Tabs -> [LocalIds -> Nat]] /\ hydrated' \in SUBSET Tabs
      /\ bound' \in [Tabs -> LocalIds \cup {NoRef}]
      /\ saving' \in [Tabs -> Saving \cup {NotSaving}]
      /\ signedIn' \in [Tabs -> Users \cup {NoUser}] /\ losses' \in Nat
  BY DEF Reload, Shape, TypeOK, Absent
<1>4. /\ NoClaim \in Claim /\ NoClaim.pc = "off"
      /\ [pc |-> "starting", pending |-> {}] \in Claim
  BY DEF NoClaim, Claim
<1>5. claim' \in [Tabs -> Claim] /\ ClaimsHaveWork'
  BY <1>4 DEF Reload, Shape, TypeOK, ClaimsHaveWork
<1>6. QED
  BY <1>1, <1>2, <1>3, <1>5 DEF Reload, Shape, TypeOK

LEMMA ShapeHolds == Init => Shape
<1>1. NoClaim \in Claim /\ NoClaim.pc = "off"
  BY DEF NoClaim, Claim
<1>2. QED
  BY <1>1, FS_EmptySet, RouteClaimsAssumption
     DEF Init, Shape, TypeOK, ClaimsHaveWork, Absent, NoRef

LEMMA ShapeStep == Shape /\ [Next]_vars => Shape'
<1> SUFFICES ASSUME Shape, [Next]_vars PROVE Shape'
  OBVIOUS
<1>1. CASE UNCHANGED vars
  BY <1>1 DEF vars, api, tabs, counts, Shape, TypeOK, ClaimsHaveWork
<1>2. ASSUME NEW h \in Handlers, Serve(h) \/ \E u \in Users : DirectSave(h, u) PROVE Shape'
  BY <1>2, ServeShape, AccountShape
<1>3. ASSUME NEW t \in Tabs, RunClaim(t) PROVE Shape'
  BY <1>3, ClaimShape DEF RunClaim
<1>4. QED
  BY <1>1, <1>2, <1>3, AccountShape, DeviceShape, SessionShape, ClaimShape, ReloadShape
     DEF Next

\* Every state is well typed: no request loses its account or its LocalRoute
\* on the way, and no claim in progress runs out of LocalRoutes.
THEOREM TypeCorrect == Spec => []TypeOK
<1>1. Shape => TypeOK
  BY DEF Shape
<1>2. QED
  BY <1>1, ShapeHolds, ShapeStep, PTL DEF Spec

-----------------------------------------------------------------------------
(* What a step does to the rows, the row locks and the requests.           *)

\* Rows change by an insert, a delete or a restore only, and locks by a count
\* or an insert.
LEMMA RowsChange ==
  ASSUME [Next]_vars
  PROVE  \/ rows' = rows /\ lock' = lock
         \/ \E h \in Handlers : Insert(h) \/ (LockAndCount(h) /\ rows' = rows)
         \/ \E r \in rows : SoftDelete(r) \/ RestoreRoute(r)
<1> DEFINE Quiet == rows' = rows /\ lock' = lock
<1>1. ASSUME NEW h \in Handlers, Serve(h) \/ \E u \in Users : DirectSave(h, u)
      PROVE  Quiet \/ Insert(h) \/ (LockAndCount(h) /\ rows' = rows)
  BY <1>1 DEF Serve, FindReplay, ReadPlan, LockAndCount, FindWinner, DirectSave
<1>2. ASSUME NEW u \in Users, PlanChanges(u) PROVE Quiet
  BY <1>2 DEF PlanChanges
<1>3. ASSUME NEW t \in Tabs,
             \/ Hydrate(t) \/ EndSave(t) \/ FailSave(t)
             \/ \E fromDraft \in BOOLEAN : BeginSave(t, fromDraft)
             \/ \E l \in LocalIds \cup {NoRef} : Bind(t, l)
             \/ \E l \in LocalIds : Discard(t, l)
      PROVE  Quiet
  BY <1>3 DEF Hydrate, EndSave, FailSave, BeginSave, Bind, Discard, api
<1>4. ASSUME NEW t \in Tabs,
             \/ SignOut(t) \/ Notice(t) \/ Reload(t) \/ RunClaim(t)
             \/ \E u \in Users : SignIn(t, u)
             \/ \E h \in Handlers : LoseConnection(t, h) \/ FailRemove(t, h)
      PROVE  Quiet
  BY <1>4 DEF SignOut, Notice, Reload, RunClaim, StartClaim, SendUnauthorized, SendClaim,
              Claimed, StopClaim, SignIn, LoseConnection, FailRemove, api
<1>5. CASE UNCHANGED vars
  BY <1>5 DEF vars, api
<1>6. QED
  BY <1>1, <1>2, <1>3, <1>4, <1>5 DEF Next

\* A request is served, begins, ends, is abandoned or stays as it is.
LEMMA RequestStep ==
  ASSUME Shape, [Next]_vars, NEW g \in Handlers
  PROVE  \/ Serve(g)
         \/ request'[g] = request[g]
         \/ request'[g].pc \in {"idle", "arrived"}
         \/ request[g] # Idle /\ request'[g] = [request[g] EXCEPT !.tab = NoTab]
<1> DEFINE Goal == \/ request'[g] = request[g]
                   \/ request'[g].pc \in {"idle", "arrived"}
                   \/ request[g] # Idle /\ request'[g] = [request[g] EXCEPT !.tab = NoTab]
<1> USE DEF Shape, TypeOK
<1>1. Idle.pc = "idle"
  BY DEF Idle
<1>2. ASSUME NEW h \in Handlers, Serve(h), g # h PROVE Goal
  BY <1>2 DEF Serve, FindReplay, ReadPlan, LockAndCount, Insert, FindWinner, Answer, Step
<1>3. ASSUME NEW h \in Handlers, NEW u \in Users, DirectSave(h, u) PROVE Goal
  BY <1>3 DEF DirectSave, Received
<1>4. ASSUME NEW r \in rows, SoftDelete(r) \/ RestoreRoute(r) PROVE Goal
  BY <1>4 DEF SoftDelete, RestoreRoute
<1>5. ASSUME NEW u \in Users, PlanChanges(u) PROVE Goal
  BY <1>5 DEF PlanChanges
<1>6. ASSUME NEW t \in Tabs,
             \/ Hydrate(t) \/ EndSave(t) \/ FailSave(t) \/ SignOut(t) \/ Notice(t)
             \/ \E fromDraft \in BOOLEAN : BeginSave(t, fromDraft)
             \/ \E l \in LocalIds \cup {NoRef} : Bind(t, l)
             \/ \E l \in LocalIds : Discard(t, l)
             \/ \E u \in Users : SignIn(t, u)
             \/ StartClaim(t) \/ SendUnauthorized(t)
      PROVE  request' = request
  BY <1>6 DEF Hydrate, EndSave, FailSave, SignOut, Notice, BeginSave, Bind, Discard, SignIn,
              StartClaim, SendUnauthorized, api
<1>7. ASSUME NEW t \in Tabs, NEW h \in Handlers, SendClaim(t, h) PROVE Goal
  BY <1>7 DEF SendClaim, Received
<1>8. ASSUME NEW t \in Tabs, NEW h \in Handlers,
             Claimed(t, h) \/ StopClaim(t, h) \/ FailRemove(t, h)
      PROVE  Goal
  BY <1>1, <1>8 DEF Claimed, StopClaim, FailRemove
<1>9. ASSUME NEW h \in Handlers, request[h] # Idle, Orphaned(h) PROVE Goal
  BY <1>1, <1>9 DEF Orphaned
<1>10. ASSUME NEW t \in Tabs, Reload(t) PROVE Goal
  BY <1>9, <1>10 DEF Reload
<1>11. ASSUME NEW t \in Tabs, NEW h \in Handlers, LoseConnection(t, h) PROVE Goal
  BY <1>9, <1>11 DEF LoseConnection
<1>12. UNCHANGED vars => Goal
  BY DEF vars, api
<1>13. QED
  BY <1>2, <1>3, <1>4, <1>5, <1>6, <1>7, <1>8, <1>10, <1>11, <1>12 DEF Next, RunClaim

\* What serving a request leaves of it.
LEMMA Served ==
  ASSUME Shape, NEW h \in Handlers, Serve(h)
  PROVE  /\ request[h] \in Request
         /\ \/ request'[h] = Idle /\ request[h].tab = NoTab
            \/ /\ request'[h].user = request[h].user /\ request'[h].ref = request[h].ref
               /\ request'[h].tab = request[h].tab /\ request'[h] # Idle
         /\ request'[h].pc = "ok" =>
              \/ FindReplay(h) \/ FindWinner(h)
              \/ Insert(h) /\ rows' = rows \cup {NewRow(request[h])}
         /\ request'[h].pc = "inserting" => LockAndCount(h) \/ request'[h].unlimited
<1>1. request[h] # Idle /\ request[h] \in Request
  BY DEF Serve, FindReplay, ReadPlan, LockAndCount, Insert, FindWinner, At, TypeOK, Shape
<1>2. ASSUME NEW pc, pc # "idle", Step(h, pc) \/ Answer(h, pc)
      PROVE  \/ request'[h] = Idle /\ request[h].tab = NoTab
             \/ /\ request'[h].user = request[h].user /\ request'[h].ref = request[h].ref
                /\ request'[h].tab = request[h].tab /\ request'[h].pc = pc
                /\ request'[h] # Idle
  <2>1. \/ request'[h] = Idle /\ request[h].tab = NoTab
        \/ request'[h] = [request[h] EXCEPT !.pc = pc]
    BY <1>1, <1>2 DEF Step, Answer, Shape, TypeOK
  <2>2. CASE request'[h] = [request[h] EXCEPT !.pc = pc]
    <3>1. /\ request'[h].user = request[h].user /\ request'[h].ref = request[h].ref
          /\ request'[h].tab = request[h].tab /\ request'[h].pc = pc
      BY <1>1, <2>2 DEF Request
    <3>2. QED
      BY <1>2, <3>1 DEF Idle
  <2>3. QED
    BY <2>1, <2>2
<1>3. CASE ReadPlan(h)
  <2> DEFINE b == request[h].user \in pro
             pc == IF b THEN "inserting" ELSE "waiting"
  <2>1. request'[h] = [request[h] EXCEPT !.pc = pc, !.unlimited = b]
    BY <1>3 DEF ReadPlan, Shape, TypeOK
  <2>2. /\ request'[h].user = request[h].user /\ request'[h].ref = request[h].ref
        /\ request'[h].tab = request[h].tab /\ request'[h].pc = pc
        /\ request'[h].unlimited = b
    BY <1>1, <2>1 DEF Request
  <2>3. pc # "ok" /\ pc # "idle" /\ (pc = "inserting" => b)
    OBVIOUS
  <2> HIDE DEF b, pc
  <2>4. request'[h] # Idle
    BY <2>2, <2>3 DEF Idle
  <2>5. QED
    BY <1>1, <2>2, <2>3, <2>4
<1>4. Idle.pc = "idle"
  BY DEF Idle
<1>5. CASE FindReplay(h)
  BY <1>1, <1>2, <1>4, <1>5 DEF FindReplay
<1>6. CASE LockAndCount(h)
  BY <1>1, <1>2, <1>4, <1>6 DEF LockAndCount
<1>7. CASE Insert(h)
  BY <1>1, <1>2, <1>4, <1>7 DEF Insert, NewRow
<1>8. CASE FindWinner(h)
  <2>1. Answer(h, "ok") \/ Answer(h, "error")
    BY <1>8 DEF FindWinner
  <2>2. QED
    BY <1>1, <1>2, <1>4, <1>8, <2>1
<1>9. QED
  BY <1>3, <1>5, <1>6, <1>7, <1>8 DEF Serve

-----------------------------------------------------------------------------
(* The route table.                                                        *)

LEMMA NeverDuplicateStep ==
  ASSUME Shape, ClaimsNeverDuplicate, [Next]_vars
  PROVE  ClaimsNeverDuplicate'
<1>1. CASE rows' = rows
  BY <1>1 DEF ClaimsNeverDuplicate
<1>2. ASSUME NEW h \in Handlers, Insert(h), rows' # rows PROVE ClaimsNeverDuplicate'
  <2> DEFINE q == request[h]
  <2>1. rows' = rows \cup {NewRow(q)} /\ (q.ref # NoRef => Of(q.user, q.ref) = {})
    BY <1>2 DEF Insert, NewRow
  <2>2. NewRow(q).user = q.user /\ NewRow(q).ref = q.ref
    BY DEF NewRow
  <2>3. QED
    BY <2>1, <2>2 DEF ClaimsNeverDuplicate, Of
<1>3. ASSUME NEW r \in rows, SoftDelete(r) \/ RestoreRoute(r) PROVE ClaimsNeverDuplicate'
  <2>1. r \in Row
    BY DEF Shape, TypeOK
  <2>2. ASSUME NEW new, rows' = (rows \ {r}) \cup {new}, new.user = r.user, new.ref = r.ref
        PROVE  ClaimsNeverDuplicate'
    BY <2>2 DEF ClaimsNeverDuplicate
  <2>3. /\ [r EXCEPT !.deleted = TRUE].user = r.user
        /\ [r EXCEPT !.deleted = TRUE].ref = r.ref
        /\ [r EXCEPT !.deleted = FALSE, !.capped = FALSE].user = r.user
        /\ [r EXCEPT !.deleted = FALSE, !.capped = FALSE].ref = r.ref
    BY <2>1 DEF Row
  <2>4. QED
    BY <1>3, <2>2, <2>3 DEF SoftDelete, RestoreRoute
<1>4. QED
  BY <1>1, <1>2, <1>3, RowsChange

\* However often a LocalRoute is sent, by however many tabs, with answers
\* lost and Routes deleted in between, an account gets one Route for it: the
\* lookup alone does not see to that, the unique key over deleted rows does.
THEOREM NeverDuplicates == Spec => []ClaimsNeverDuplicate
<1>1. Init => ClaimsNeverDuplicate
  BY DEF Init, ClaimsNeverDuplicate
<1>2. Shape /\ ClaimsNeverDuplicate /\ [Next]_vars => ClaimsNeverDuplicate'
  BY NeverDuplicateStep
<1>3. QED
  BY <1>1, <1>2, ShapeHolds, ShapeStep, PTL DEF Spec

-----------------------------------------------------------------------------
(* The cap.                                                                *)

\* A save the cap let through, before its insert.
CountedIn(h) == At(h, "inserting") /\ ~request[h].unlimited

\* The Routes a User saved under the cap.
Capped(u) == {r \in Visible(u) : r.capped}

\* A counted-in save still holds its User's row lock, alone, and still fits.
CountedInFits ==
  \A h \in Handlers :
    CountedIn(h) => /\ lock[request[h].user] = {h}
                    /\ Cardinality(Capped(request[h].user)) < Limit

LEMMA CountedInByLock ==
  ASSUME Shape, [Next]_vars, NEW g \in Handlers, CountedIn(g)'
  PROVE  \/ LockAndCount(g)
         \/ CountedIn(g) /\ request'[g].user = request[g].user
<1>1. request'[g].pc = "inserting" /\ ~request'[g].unlimited
  BY DEF CountedIn, At
<1>2. CASE request[g] # Idle /\ request'[g] = [request[g] EXCEPT !.tab = NoTab]
  <2>1. request[g] \in Request
    BY <1>2 DEF Shape, TypeOK
  <2>2. QED
    BY <1>1, <1>2, <2>1 DEF CountedIn, At, Request
<1>3. QED
  BY <1>1, <1>2, RequestStep, Served DEF CountedIn, At

\* Rows only leave Capped(u), or none changes.
LEMMA FewerCapped ==
  ASSUME Shape, NEW u, Capped(u)' \subseteq Capped(u)
  PROVE  /\ Cardinality(Capped(u)') <= Cardinality(Capped(u))
         /\ Cardinality(Capped(u)) \in Nat /\ Cardinality(Capped(u)') \in Nat
<1>1. IsFiniteSet(Capped(u))
  BY FS_Subset DEF Shape, Capped, Visible
<1>2. QED
  BY <1>1, FS_Subset, FS_CardinalityType

WithinCap == CountedInFits /\ CapHolds

LEMMA WithinCapStep ==
  ASSUME Shape, WithinCap, [Next]_vars
  PROVE  WithinCap'
<1> USE RouteClaimsAssumption
<1>1. ASSUME NEW u \in Users PROVE Cardinality(Capped(u)) <= Limit
  BY DEF WithinCap, CapHolds, Capped
<1>0. ASSUME \A u \in Users : Cardinality(Capped(u)') <= Limit,
             \A h \in Handlers, u \in Users :
               (CountedIn(h)' /\ u = request'[h].user)
               => lock'[u] = {h} /\ Cardinality(Capped(u)') < Limit
      PROVE  WithinCap'
  <2>1. \A h \in Handlers : CountedIn(h)' => request'[h].user \in Users
    BY ShapeStep DEF CountedIn, At, Shape, TypeOK, Request
  <2>2. CountedInFits'
    BY <1>0, <2>1 DEF CountedInFits, Capped, Visible
  <2>3. CapHolds'
    BY <1>0 DEF CapHolds, Capped
  <2>4. QED
    BY <2>2, <2>3 DEF WithinCap
<1>2. ASSUME lock' = lock, \A h \in Handlers : ~(LockAndCount(h) /\ CountedIn(h)'),
             \A u \in Users : Capped(u)' \subseteq Capped(u)
      PROVE  WithinCap'
  <2>1. ASSUME NEW u \in Users PROVE Cardinality(Capped(u)') <= Limit
    BY <1>1, <1>2, FewerCapped, <2>1
  <2>2. ASSUME NEW h \in Handlers, NEW u \in Users, CountedIn(h)', u = request'[h].user
        PROVE  lock'[u] = {h} /\ Cardinality(Capped(u)') < Limit
    <3>1. CountedIn(h) /\ u = request[h].user
      BY <1>2, <2>2, CountedInByLock
    <3>2. lock[u] = {h} /\ Cardinality(Capped(u)) < Limit
      BY <3>1 DEF WithinCap, CountedInFits
    <3>3. /\ Cardinality(Capped(u)') <= Cardinality(Capped(u))
          /\ Cardinality(Capped(u)) \in Nat /\ Cardinality(Capped(u)') \in Nat
      BY <1>2, FewerCapped
    <3>4. QED
      BY <1>2, <3>2, <3>3
  <2>3. QED
    BY <1>0, <2>1, <2>2
<1>3. rows' = rows => \A u \in Users : Capped(u)' \subseteq Capped(u)
  BY DEF Capped, Visible
<1>4. ASSUME NEW r \in rows, SoftDelete(r) \/ RestoreRoute(r)
      PROVE  \A u \in Users : Capped(u)' \subseteq Capped(u)
  <2>1. r \in Row
    BY DEF Shape, TypeOK
  <2>2. /\ [r EXCEPT !.deleted = TRUE].deleted = TRUE
        /\ [r EXCEPT !.deleted = FALSE, !.capped = FALSE].capped = FALSE
    BY <2>1 DEF Row
  <2>3. QED
    BY <1>4, <2>2 DEF SoftDelete, RestoreRoute, Capped, Visible
<1>5. ASSUME NEW h \in Handlers, LockAndCount(h) PROVE WithinCap'
  <2>1. request[h] \in Request /\ request[h].pc = "waiting" /\ rows' = rows
    BY <1>5 DEF LockAndCount, At, Shape, TypeOK
  <2>2. CASE Cardinality(Visible(request[h].user)) >= Limit
    <3>1. Answer(h, "limit") /\ lock' = lock
      BY <1>5, <2>2 DEF LockAndCount
    <3>2. ASSUME NEW g \in Handlers, LockAndCount(g), CountedIn(g)' PROVE FALSE
      <4>1. request[g].pc = "waiting" /\ request'[g].pc = "inserting"
        BY <3>2 DEF LockAndCount, CountedIn, At
      <4>2. g = h
        BY <3>1, <4>1 DEF Answer, Shape, TypeOK
      <4>3. request'[h].pc \in {"idle", "limit"}
        BY <2>1, <3>1 DEF Answer, Idle, Shape, TypeOK, Request
      <4>4. QED
        BY <4>1, <4>2, <4>3
    <3>3. QED
      BY <1>2, <1>3, <2>1, <3>1, <3>2
  <2>3. CASE ~(Cardinality(Visible(request[h].user)) >= Limit)
    <3> DEFINE v == request[h].user
    <3>0. Step(h, "inserting") /\ lock' = [lock EXCEPT ![v] = {h}]
      BY <1>5, <2>3 DEF LockAndCount
    <3>1. v \in Users /\ lock[v] = {} /\ Cardinality(Visible(v)) < Limit
      <4>1. v \in Users /\ lock[v] = {}
        BY <1>5, <2>1 DEF LockAndCount, Request
      <4>2. IsFiniteSet(Visible(v))
        BY FS_Subset DEF Shape, Visible
      <4>3. QED
        BY <2>3, <4>1, <4>2, FS_CardinalityType
    <3>2. \A u \in Users : Capped(u)' = Capped(u)
      BY <2>1 DEF Capped, Visible
    <3>3. \A g \in Handlers : g # h => request'[g] = request[g]
      BY <3>0 DEF Step, Shape, TypeOK
    <3>4. request'[h].user = v
      BY <2>1, <3>0 DEF Step, Shape, TypeOK, Request
    <3>5. ASSUME NEW u \in Users, u = v
          PROVE  lock'[u] = {h} /\ Cardinality(Capped(u)') < Limit
      <4>1. IsFiniteSet(Visible(u)) /\ Capped(u) \subseteq Visible(u)
        BY FS_Subset DEF Shape, Visible, Capped
      <4>2. Cardinality(Capped(u)) <= Cardinality(Visible(u))
            /\ Cardinality(Capped(u)) \in Nat /\ Cardinality(Visible(u)) \in Nat
        BY <4>1, FS_Subset, FS_CardinalityType
      <4>3. Cardinality(Visible(u)) < Limit
        BY <3>1, <3>5 DEF Visible
      <4>4. lock'[u] = {h}
        BY <3>0, <3>5 DEF Shape, TypeOK
      <4>5. QED
        BY <3>2, <4>2, <4>3, <4>4
    <3>6. ASSUME NEW g \in Handlers, g # h, NEW u \in Users, CountedIn(g)', u = request'[g].user
          PROVE  lock'[u] = {g} /\ Cardinality(Capped(u)') < Limit
      <4>1. CountedIn(g) /\ u = request[g].user
        BY <3>3, <3>6 DEF CountedIn, At
      <4>2. lock[u] = {g} /\ Cardinality(Capped(u)) < Limit
        BY <4>1 DEF WithinCap, CountedInFits
      <4>3. u # v
        BY <3>1, <4>2
      <4>4. lock'[u] = lock[u]
        BY <3>0, <4>3 DEF Shape, TypeOK
      <4>5. QED
        BY <3>2, <4>2, <4>4
    <3> HIDE DEF v
    <3>7. QED
      BY <1>0, <1>1, <3>2, <3>4, <3>5, <3>6
  <2>4. QED
    BY <2>2, <2>3
<1>6. ASSUME NEW h \in Handlers, Insert(h) PROVE WithinCap'
  <2> DEFINE v == request[h].user
             new == NewRow(request[h])
  <2>1. /\ request[h] \in Request /\ request[h].pc = "inserting" /\ CountedIn(h) = ~request[h].unlimited
        /\ v \in Users /\ lock' = [lock EXCEPT ![v] = @ \ {h}]
    BY <1>6 DEF Insert, At, Shape, TypeOK, Request, CountedIn
  <2>2. ASSUME NEW g \in Handlers, CountedIn(g)'
        PROVE  CountedIn(g) /\ request'[g].user = request[g].user /\ g # h
    <3>1. request'[h].pc # "inserting"
      BY <1>6, <2>1 DEF Insert, Step, Answer, Idle, Shape, TypeOK, Request
    <3>2. \A k \in Handlers : k # h => request'[k] = request[k]
      BY <1>6 DEF Insert, Step, Answer, Shape, TypeOK
    <3>3. QED
      BY <2>2, <3>1, <3>2 DEF CountedIn, At
  <2>3. rows' = rows \/ rows' = rows \cup {new}
    BY <1>6 DEF Insert, NewRow
  <2>4. new.user = v /\ new.capped = ~request[h].unlimited
    BY DEF NewRow
  <2> HIDE DEF new
  <2>5. ASSUME NEW u \in Users
        PROVE  \/ Capped(u)' \subseteq Capped(u)
               \/ u = v /\ CountedIn(h) /\ Capped(u)' = Capped(u) \cup {new}
    BY <2>1, <2>3, <2>4 DEF Capped, Visible
  <2>6. ASSUME NEW u \in Users PROVE Cardinality(Capped(u)') <= Limit
    <3>1. CASE Capped(u)' \subseteq Capped(u)
      BY <1>1, <3>1, FewerCapped
    <3>2. CASE u = v /\ CountedIn(h) /\ Capped(u)' = Capped(u) \cup {new}
      <4>1. Cardinality(Capped(u)) < Limit
        BY <3>2 DEF WithinCap, CountedInFits, Capped, Visible
      <4>2. IsFiniteSet(Capped(u))
        BY FS_Subset DEF Shape, Capped, Visible
      <4>3. /\ Cardinality(Capped(u)) \in Nat
            /\ \/ Cardinality(Capped(u)') = Cardinality(Capped(u))
               \/ Cardinality(Capped(u)') = Cardinality(Capped(u)) + 1
        BY <3>2, <4>2, FS_AddElement, FS_CardinalityType
      <4>4. QED
        BY <4>1, <4>3
    <3>3. QED
      BY <2>5, <3>1, <3>2
  <2>7. ASSUME NEW g \in Handlers, NEW u \in Users, CountedIn(g)', u = request'[g].user
        PROVE  lock'[u] = {g} /\ Cardinality(Capped(u)') < Limit
    <3>1. CountedIn(g) /\ u = request[g].user /\ g # h
      BY <2>2, <2>7
    <3>2. lock[u] = {g} /\ Cardinality(Capped(u)) < Limit
      BY <3>1 DEF WithinCap, CountedInFits
    <3>3. u = v => ~CountedIn(h)
      BY <3>1, <3>2 DEF WithinCap, CountedInFits
    <3>4. lock'[u] = {g}
      BY <2>1, <3>1, <3>2 DEF Shape, TypeOK
    <3>5. /\ Cardinality(Capped(u)') <= Cardinality(Capped(u))
          /\ Cardinality(Capped(u)) \in Nat /\ Cardinality(Capped(u)') \in Nat
      BY <2>5, <3>3, FewerCapped
    <3>6. QED
      BY <3>2, <3>4, <3>5
  <2>8. QED
    BY <1>0, <2>6, <2>7
<1>7. CASE rows' = rows /\ lock' = lock /\ \A h \in Handlers : ~LockAndCount(h)
  BY <1>2, <1>3, <1>7
<1>8. ASSUME NEW r \in rows, SoftDelete(r) \/ RestoreRoute(r) PROVE WithinCap'
  <2>1. lock' = lock
    BY <1>8 DEF SoftDelete, RestoreRoute
  <2>2. QED
    BY <1>2, <1>4, <1>5, <1>8, <2>1
<1>9. QED
  BY <1>5, <1>6, <1>7, <1>8, RowsChange

\* The cap holds whatever unlimited saves, restores, deletes and Plan changes
\* do between a count and its insert: a counted-in save keeps the row lock
\* that no other count gets past, and nobody else adds a row that counts.
THEOREM CapAlwaysHolds == Spec => []CapHolds
<1>1. Init => WithinCap
  <2>1. Init => CountedInFits
    BY DEF Init, CountedInFits, CountedIn, At
  <2>2. ASSUME Init, NEW u \in Users PROVE Cardinality({r \in Visible(u) : r.capped}) <= Limit
    <3>1. {r \in Visible(u) : r.capped} = {}
      BY <2>2 DEF Init, Visible
    <3>2. QED
      BY <3>1, FS_EmptySet, RouteClaimsAssumption
  <2>3. QED
    BY <2>1, <2>2 DEF WithinCap, CapHolds
<1>2. Shape /\ WithinCap /\ [Next]_vars => WithinCap'
  BY WithinCapStep
<1>3. WithinCap => CapHolds
  BY DEF WithinCap
<1>4. QED
  BY <1>1, <1>2, <1>3, ShapeHolds, ShapeStep, PTL DEF Spec

-----------------------------------------------------------------------------
(* What leaves the device.                                                 *)

\* An answer that a Route was saved is about one that is there.
OkIsHeld ==
  \A h \in Handlers :
    (At(h, "ok") /\ request[h].ref # NoRef) => \E r \in rows : r.ref = request[h].ref

SavesHaveContent ==
  \A t \in Tabs : saving[t] # NotSaving => saving[t].route.content # Absent

Held == OkIsHeld /\ SavesHaveContent

\* The account never forgets that it was sent a LocalRoute.
LEMMA RefsKept ==
  ASSUME Shape, [Next]_vars, NEW ref, \E r \in rows : r.ref = ref
  PROVE  \E r \in rows' : r.ref = ref
<1>1. ASSUME NEW r \in rows, SoftDelete(r) \/ RestoreRoute(r)
      PROVE  \E s \in rows' : s.ref = ref
  <2>1. r \in Row
    BY DEF Shape, TypeOK
  <2>2. /\ [r EXCEPT !.deleted = TRUE].ref = r.ref
        /\ [r EXCEPT !.deleted = FALSE, !.capped = FALSE].ref = r.ref
    BY <2>1 DEF Row
  <2>3. PICK q \in rows : q.ref = ref
    OBVIOUS
  <2>4. CASE q = r
    <3>1. \/ [r EXCEPT !.deleted = TRUE] \in rows'
          \/ [r EXCEPT !.deleted = FALSE, !.capped = FALSE] \in rows'
      BY <1>1 DEF SoftDelete, RestoreRoute
    <3>2. QED
      BY <2>2, <2>3, <2>4, <3>1
  <2>5. CASE q # r
    <3>1. q \in rows'
      BY <1>1, <2>5 DEF SoftDelete, RestoreRoute
    <3>2. QED
      BY <2>3, <3>1
  <2>6. QED
    BY <2>4, <2>5
<1>2. ASSUME NEW h \in Handlers, Insert(h) PROVE rows \subseteq rows'
  BY <1>2 DEF Insert
<1>3. QED
  BY <1>1, <1>2, RowsChange

LEMMA OkIsHeldStep ==
  ASSUME Shape, OkIsHeld, [Next]_vars
  PROVE  OkIsHeld'
<1> SUFFICES ASSUME NEW g \in Handlers, At(g, "ok")', request'[g].ref # NoRef
             PROVE  \E r \in rows' : r.ref = request'[g].ref
  BY DEF OkIsHeld
<1>1. request'[g].pc = "ok"
  BY DEF At
<1>2. ASSUME At(g, "ok"), request'[g].ref = request[g].ref
      PROVE  \E r \in rows' : r.ref = request'[g].ref
  <2>1. PICK ref : ref = request[g].ref
    OBVIOUS
  <2>2. \E r \in rows : r.ref = ref
    BY <1>2, <2>1 DEF OkIsHeld
  <2>3. \E r \in rows' : r.ref = ref
    BY <2>2, RefsKept
  <2>4. QED
    BY <1>2, <2>1, <2>3
<1>3. CASE request'[g] = request[g]
  BY <1>1, <1>2, <1>3 DEF At
<1>4. CASE request[g] # Idle /\ request'[g] = [request[g] EXCEPT !.tab = NoTab]
  <2>1. request[g] \in Request
    BY <1>4 DEF Shape, TypeOK
  <2>2. request[g].pc = "ok" /\ request'[g].ref = request[g].ref
    BY <1>1, <1>4, <2>1 DEF Request
  <2>3. QED
    BY <1>2, <1>4, <2>2 DEF At
<1>5. CASE Serve(g)
  <2>1. request'[g] # Idle
    BY <1>1 DEF Idle
  <2>2. request'[g].ref = request[g].ref /\ request[g] \in Request
    BY <1>5, <2>1, Served
  <2>3. CASE FindReplay(g) \/ FindWinner(g)
    <3>1. FindByClientRef(request[g].user, request[g].ref) # {}
      BY <1>1, <2>2, <2>3
         DEF FindReplay, FindWinner, Answer, Step, Idle, Shape, TypeOK, Request
    <3>2. \E r \in rows : r.ref = request[g].ref
      BY <3>1 DEF FindByClientRef, Of
    <3>3. rows' = rows
      BY <2>3 DEF FindReplay, FindWinner
    <3>4. QED
      BY <2>2, <3>2, <3>3
  <2>4. CASE rows' = rows \cup {NewRow(request[g])}
    <3>1. NewRow(request[g]).ref = request[g].ref
      BY DEF NewRow
    <3>2. NewRow(request[g]) \in rows'
      BY <2>4
    <3>3. QED
      BY <2>2, <3>1, <3>2
  <2>5. QED
    BY <1>1, <1>5, <2>3, <2>4, Served
<1>6. QED
  BY <1>1, <1>3, <1>4, <1>5, RequestStep

\* The device and the saves under way change in a few steps only.
LEMMA StoredChange ==
  ASSUME [Next]_vars
  PROVE  \/ stored' = stored /\ saving' = saving
         \/ \E t \in Tabs :
              \/ EndSave(t) \/ FailSave(t) \/ Reload(t)
              \/ \E fromDraft \in BOOLEAN : BeginSave(t, fromDraft)
              \/ \E l \in LocalIds : Discard(t, l)
              \/ \E h \in Handlers : Claimed(t, h)
<1> DEFINE Quiet == stored' = stored /\ saving' = saving
<1>1. ASSUME NEW h \in Handlers, Serve(h) \/ \E u \in Users : DirectSave(h, u) PROVE Quiet
  BY <1>1 DEF Serve, FindReplay, ReadPlan, LockAndCount, Insert, FindWinner, DirectSave, tabs
<1>2. ASSUME NEW u \in Users, PlanChanges(u) PROVE Quiet
  BY <1>2 DEF PlanChanges, tabs
<1>3. ASSUME NEW r \in rows, SoftDelete(r) \/ RestoreRoute(r) PROVE Quiet
  BY <1>3 DEF SoftDelete, RestoreRoute, tabs
<1>4. ASSUME NEW t \in Tabs,
             \/ Hydrate(t) \/ SignOut(t) \/ Notice(t)
             \/ \E l \in LocalIds \cup {NoRef} : Bind(t, l)
             \/ \E u \in Users : SignIn(t, u)
             \/ StartClaim(t) \/ SendUnauthorized(t)
             \/ \E h \in Handlers : \/ SendClaim(t, h) \/ StopClaim(t, h)
                                    \/ LoseConnection(t, h) \/ FailRemove(t, h)
      PROVE  Quiet
  BY <1>4 DEF Hydrate, SignOut, Notice, Bind, SignIn, StartClaim, SendUnauthorized, SendClaim,
              StopClaim, LoseConnection, FailRemove
<1>5. CASE UNCHANGED vars
  BY <1>5 DEF vars, tabs
<1>6. QED
  BY <1>1, <1>2, <1>3, <1>4, <1>5 DEF Next, RunClaim

LEMMA SavesHaveContentStep ==
  ASSUME Shape, SavesHaveContent, [Next]_vars
  PROVE  SavesHaveContent'
<1>1. ASSUME NEW t \in Tabs, NEW fromDraft \in BOOLEAN, BeginSave(t, fromDraft)
      PROVE  SavesHaveContent'
  <2>1. /\ \A other \in Tabs : other # t => saving'[other] = saving[other]
        /\ saving'[t].route.content = edits + 1
    BY <1>1 DEF BeginSave, Shape, TypeOK
  <2>2. edits + 1 # Absent
    BY DEF Shape, TypeOK, Absent
  <2>3. QED
    BY <2>1, <2>2 DEF SavesHaveContent
<1>2. ASSUME NEW t \in Tabs, saving' = [saving EXCEPT ![t] = NotSaving]
      PROVE  SavesHaveContent'
  BY <1>2 DEF SavesHaveContent, Shape, TypeOK
<1>3. ASSUME NEW t \in Tabs,
             (\E l \in LocalIds : Discard(t, l)) \/ (\E h \in Handlers : Claimed(t, h))
      PROVE  saving' = saving
  BY <1>3 DEF Discard, Claimed
<1>4. ASSUME NEW t \in Tabs, EndSave(t) \/ FailSave(t) \/ Reload(t)
      PROVE  SavesHaveContent'
  BY <1>2, <1>4 DEF EndSave, FailSave, Reload
<1>5. saving' = saving => SavesHaveContent'
  BY DEF SavesHaveContent
<1>6. QED
  BY <1>1, <1>3, <1>4, <1>5, StoredChange

LEMMA LeavesStep ==
  ASSUME Shape, Held, [Next]_vars, NEW l \in LocalIds, stored[l] # Absent, stored'[l] = Absent
  PROVE  l \in discarded' \/ \E r \in rows' : r.ref = l
<1>1. ASSUME NEW t \in Tabs, EndSave(t) \/ Reload(t) PROVE FALSE
  <2> DEFINE s == saving[t]
  <2>1. s # NotSaving /\ stored' = [stored EXCEPT ![s.route.id] = s.route.content]
    BY <1>1 DEF EndSave, Reload
  <2>2. s.route.content # Absent
    BY <2>1 DEF Held, SavesHaveContent
  <2> HIDE DEF s
  <2>3. QED
    BY <2>1, <2>2 DEF Shape, TypeOK
<1>2. ASSUME NEW t \in Tabs, NEW k \in LocalIds, Discard(t, k) PROVE l \in discarded'
  BY <1>2 DEF Discard, Remove, Shape, TypeOK
<1>3. ASSUME NEW t \in Tabs, NEW h \in Handlers, Claimed(t, h)
      PROVE  \E r \in rows' : r.ref = l
  <2>1. l = request[h].ref /\ At(h, "ok") /\ rows' = rows
    BY <1>3 DEF Claimed, Remove, Shape, TypeOK
  <2>2. l # NoRef
    BY DEF LocalIds, NoRef
  <2>3. QED
    BY <2>1, <2>2 DEF Held, OkIsHeld
<1>4. ASSUME NEW t \in Tabs, FailSave(t) \/ \E fromDraft \in BOOLEAN : BeginSave(t, fromDraft)
      PROVE  FALSE
  BY <1>4 DEF FailSave, BeginSave
<1>5. QED
  BY <1>1, <1>2, <1>3, <1>4, StoredChange

\* No LocalRoute leaves the device but by hand, or because the account has a
\* Route for it: an answer that says so stays true until the tab reads it,
\* however late, because rows are only ever soft-deleted.
THEOREM NothingIsLost == Spec => LeavesDeviceOnlyWhenHeld
<1>1. Init => Held
  BY DEF Init, Held, OkIsHeld, SavesHaveContent, At
<1>2. Shape /\ Held /\ [Next]_vars => Held'
  BY OkIsHeldStep, SavesHaveContentStep DEF Held
<1>3. Shape /\ Held /\ [Next]_vars =>
        [\A l \in LocalIds :
           (stored[l] # Absent /\ stored'[l] = Absent)
           => l \in discarded' \/ \E r \in rows' : r.ref = l]_vars
  BY LeavesStep
<1>4. QED
  BY <1>1, <1>2, <1>3, ShapeHolds, ShapeStep, PTL DEF Spec, LeavesDeviceOnlyWhenHeld

-----------------------------------------------------------------------------
(* A claim and the request it awaits.                                      *)

Waits(t, h) == request[h] # Idle /\ request[h].tab = t

\* ClaimAwaitsItsOwnAnswer of one tab, without counting.
AwaitsItsOwn(t) ==
  /\ \A h \in Handlers :
       Waits(t, h) => claim[t].pc = "await" /\ request[h].ref = Oldest(claim[t].pending).id
  /\ \A g, h \in Handlers : Waits(t, g) /\ Waits(t, h) => g = h
  /\ claim[t].pc = "await" => \E h \in Handlers : Waits(t, h)

LEMMA StillAwaits ==
  ASSUME NEW t \in Tabs, AwaitsItsOwn(t), claim'[t] = claim[t],
         \A h \in Handlers : /\ Waits(t, h)' <=> Waits(t, h)
                             /\ Waits(t, h) => request'[h].ref = request[h].ref
  PROVE  AwaitsItsOwn(t)'
BY DEF AwaitsItsOwn, Oldest

LEMMA AwaitsNothing ==
  ASSUME NEW t \in Tabs, claim'[t].pc # "await", \A h \in Handlers : ~Waits(t, h)'
  PROVE  AwaitsItsOwn(t)'
BY DEF AwaitsItsOwn

\* A step of one request and at most one tab leaves the other tabs alone.
LEMMA OthersAwait ==
  ASSUME Shape, NEW t \in Tabs, AwaitsItsOwn(t), claim'[t] = claim[t],
         NEW h \in Handlers, NEW q, request' = [request EXCEPT ![h] = q],
         ~Waits(t, h), q = Idle \/ q.tab # t
  PROVE  AwaitsItsOwn(t)'
<1>1. \A g \in Handlers : g # h => request'[g] = request[g]
  BY DEF Shape, TypeOK
<1>2. request'[h] = q
  BY DEF Shape, TypeOK
<1>3. ~Waits(t, h)'
  BY <1>2 DEF Waits
<1>4. QED
  BY <1>1, <1>3, StillAwaits DEF Waits

AllAwait == \A t \in Tabs : AwaitsItsOwn(t)

\* The claim of t ends its request h, by taking the answer or giving it up.
LEMMA RequestEnds ==
  ASSUME Shape, AllAwait, NEW t \in Tabs, NEW h \in Handlers, Waits(t, h),
         NEW q, request' = [request EXCEPT ![h] = q], q = Idle \/ q.tab = NoTab,
         claim'[t].pc # "await", \A other \in Tabs : other # t => claim'[other] = claim[other]
  PROVE  AllAwait'
<1>1. request'[h] = q /\ \A g \in Handlers : g # h => request'[g] = request[g]
  BY DEF Shape, TypeOK
<1>2. \A g \in Handlers : ~Waits(t, g)'
  BY <1>1, RouteClaimsAssumption DEF AllAwait, AwaitsItsOwn, Waits
<1>3. AwaitsItsOwn(t)'
  BY <1>2, AwaitsNothing
<1>4. ASSUME NEW other \in Tabs, other # t PROVE AwaitsItsOwn(other)'
  <2>1. ~Waits(other, h) /\ (q = Idle \/ q.tab # other)
    BY <1>4, RouteClaimsAssumption DEF Waits
  <2>2. QED
    BY <1>4, <2>1, OthersAwait DEF AllAwait
<1>5. QED
  BY <1>3, <1>4 DEF AllAwait

\* A claim that is not waiting starts, goes on or ends without a request.
LEMMA ClaimMoves ==
  ASSUME Shape, AllAwait, NEW t \in Tabs, request' = request, claim[t].pc # "await",
         claim'[t].pc # "await", \A other \in Tabs : other # t => claim'[other] = claim[other]
  PROVE  AllAwait'
<1>1. \A h \in Handlers : ~Waits(t, h)
  BY DEF AllAwait, AwaitsItsOwn
<1>2. AwaitsItsOwn(t)'
  BY <1>1, AwaitsNothing DEF Waits
<1>3. ASSUME NEW other \in Tabs, other # t PROVE AwaitsItsOwn(other)'
  BY <1>3, StillAwaits DEF AllAwait, Waits
<1>4. QED
  BY <1>2, <1>3 DEF AllAwait

LEMMA AllAwaitQuiet ==
  ASSUME AllAwait, request' = request, claim' = claim
  PROVE  AllAwait'
<1>1. ASSUME NEW t \in Tabs PROVE AwaitsItsOwn(t)'
  BY StillAwaits DEF AllAwait, Waits
<1>2. QED
  BY <1>1 DEF AllAwait

LEMMA AllAwaitServe ==
  ASSUME Shape, AllAwait, NEW h \in Handlers, Serve(h)
  PROVE  AllAwait'
<1>1. claim' = claim /\ \A g \in Handlers : g # h => request'[g] = request[g]
  BY DEF Serve, FindReplay, ReadPlan, LockAndCount, Insert, FindWinner, Answer, Step, tabs, Shape,
         TypeOK
<1>2. \/ request'[h] = Idle /\ request[h].tab = NoTab
      \/ /\ request'[h].ref = request[h].ref /\ request'[h].tab = request[h].tab
         /\ request'[h] # Idle
  BY Served
<1>3. request[h] # Idle
  BY DEF Serve, FindReplay, ReadPlan, LockAndCount, Insert, FindWinner, At
<1>4. ASSUME NEW t \in Tabs PROVE AwaitsItsOwn(t)'
  <2>1. t # NoTab
    BY RouteClaimsAssumption
  <2>2. ASSUME NEW g \in Handlers
        PROVE  /\ Waits(t, g)' <=> Waits(t, g)
               /\ Waits(t, g) => request'[g].ref = request[g].ref
    BY <1>1, <1>2, <1>3, <2>1 DEF Waits
  <2>3. QED
    BY <1>1, <2>2, StillAwaits DEF AllAwait
<1>5. QED
  BY <1>4 DEF AllAwait

LEMMA AllAwaitSend ==
  ASSUME Shape, AllAwait, NEW t \in Tabs, NEW h \in Handlers, SendClaim(t, h)
  PROVE  AllAwait'
<1> DEFINE r == Oldest(claim[t].pending)
           q == Received(t, session, r.id, r.content)
<1>1. /\ request' = [request EXCEPT ![h] = q] /\ request[h] = Idle /\ claim[t].pc = "next"
      /\ claim' = [claim EXCEPT ![t] = [claim[t] EXCEPT !.pc = "await"]]
  BY DEF SendClaim
<1>2. q.tab = t /\ q.ref = r.id /\ q.pc = "arrived"
  BY DEF Received
<1>3. q # Idle
  BY <1>2 DEF Idle
<1>4. claim'[t].pc = "await" /\ claim'[t].pending = claim[t].pending
  BY <1>1 DEF Shape, TypeOK, Claim
<1>5. Oldest(claim'[t].pending) = r
  BY <1>4
<1> HIDE DEF q, r
<1>6. request'[h] = q /\ \A g \in Handlers : g # h => request'[g] = request[g]
  BY <1>1 DEF Shape, TypeOK
<1>7. \A g \in Handlers : Waits(t, g)' <=> g = h
  BY <1>1, <1>2, <1>3, <1>6 DEF AllAwait, AwaitsItsOwn, Waits
<1>8. AwaitsItsOwn(t)'
  BY <1>2, <1>4, <1>5, <1>6, <1>7 DEF AwaitsItsOwn
<1>9. ASSUME NEW other \in Tabs, other # t PROVE AwaitsItsOwn(other)'
  <2>1. claim'[other] = claim[other] /\ ~Waits(other, h) /\ q.tab # other
    BY <1>1, <1>2, <1>9 DEF Shape, TypeOK, Waits
  <2>2. QED
    BY <1>1, <2>1, OthersAwait DEF AllAwait
<1>10. QED
  BY <1>8, <1>9 DEF AllAwait

\* An abandoned request is over, or is served for nobody.
LEMMA OrphanedRequest ==
  ASSUME NEW h \in Handlers, request[h] # Idle, Shape, Orphaned(h)
  PROVE  \E q : request' = [request EXCEPT ![h] = q] /\ (q = Idle \/ q.tab = NoTab)
<1> DEFINE q == [request[h] EXCEPT !.tab = NoTab]
<1>1. q.tab = NoTab
  BY DEF Shape, TypeOK, Request
<1>2. request' = [request EXCEPT ![h] = Idle] \/ request' = [request EXCEPT ![h] = q]
  BY DEF Orphaned
<1> HIDE DEF q
<1>3. QED
  BY <1>1, <1>2

LEMMA AllAwaitClaim ==
  ASSUME Shape, AllAwait, NEW t \in Tabs,
         \/ StartClaim(t) \/ SendUnauthorized(t)
         \/ \E h \in Handlers : \/ Claimed(t, h) \/ StopClaim(t, h)
                                \/ LoseConnection(t, h) \/ FailRemove(t, h)
  PROVE  AllAwait'
<1>1. NoClaim.pc = "off"
  BY DEF NoClaim
<1>2. CASE StartClaim(t) \/ SendUnauthorized(t)
  <2>1. request' = request /\ claim[t].pc # "await"
    BY <1>2 DEF StartClaim, SendUnauthorized, api
  <2>2. claim'[t].pc # "await" /\ \A other \in Tabs : other # t => claim'[other] = claim[other]
    BY <1>1, <1>2 DEF StartClaim, SendUnauthorized, Shape, TypeOK
  <2>3. QED
    BY <2>1, <2>2, ClaimMoves
<1>3. ASSUME NEW h \in Handlers,
             Claimed(t, h) \/ StopClaim(t, h) \/ FailRemove(t, h) \/ LoseConnection(t, h)
      PROVE  AllAwait'
  <2>1. Waits(t, h)
    BY <1>3 DEF Claimed, StopClaim, FailRemove, LoseConnection, At, Waits
  <2>2. PICK q : request' = [request EXCEPT ![h] = q] /\ (q = Idle \/ q.tab = NoTab)
    BY <1>3, <2>1, OrphanedRequest DEF Claimed, StopClaim, FailRemove, LoseConnection
  <2>3. claim'[t].pc # "await" /\ \A other \in Tabs : other # t => claim'[other] = claim[other]
    BY <1>1, <1>3 DEF Claimed, StopClaim, FailRemove, LoseConnection, Shape, TypeOK
  <2>4. QED
    BY <2>1, <2>2, <2>3, RequestEnds
<1>4. QED
  BY <1>2, <1>3

LEMMA AllAwaitReload ==
  ASSUME Shape, AllAwait, NEW t \in Tabs, Reload(t)
  PROVE  AllAwait'
<1>1. claim'[t].pc # "await" /\ \A other \in Tabs : other # t => claim'[other] = claim[other]
  BY DEF Reload, NoClaim, Shape, TypeOK
<1>2. CASE \A h \in Handlers : ~Waits(t, h)
  <2>1. request' = request /\ claim[t].pc # "await"
    BY <1>2 DEF Reload, Waits, AllAwait, AwaitsItsOwn
  <2>2. QED
    BY <1>1, <2>1, ClaimMoves
<1>3. CASE \E h \in Handlers : Waits(t, h)
  <2>1. PICK h \in Handlers : Waits(t, h) /\ Orphaned(h)
    BY <1>3 DEF Reload, Waits
  <2>2. PICK q : request' = [request EXCEPT ![h] = q] /\ (q = Idle \/ q.tab = NoTab)
    BY <2>1, OrphanedRequest DEF Waits
  <2>3. QED
    BY <1>1, <2>1, <2>2, RequestEnds
<1>4. QED
  BY <1>2, <1>3

LEMMA AllAwaitShows ==
  ASSUME Shape, AllAwait, NEW t \in Tabs, NEW u, Shows(t, u), request' = request
  PROVE  AllAwait'
<1>1. CASE claim' = claim
  BY <1>1, AllAwaitQuiet
<1>2. CASE claim' # claim
  <2>1. claim[t].pc = "off" /\ claim' = [claim EXCEPT ![t] = [pc |-> "starting", pending |-> {}]]
    BY <1>2 DEF Shows
  <2>2. QED
    BY <2>1, ClaimMoves DEF Shape, TypeOK
<1>3. QED
  BY <1>1, <1>2

LEMMA AllAwaitStep ==
  ASSUME Shape, AllAwait, [Next]_vars
  PROVE  AllAwait'
<1>1. ASSUME NEW h \in Handlers, NEW u \in Users, DirectSave(h, u) PROVE AllAwait'
  <2>1. /\ request' = [request EXCEPT ![h] = Received(NoTab, u, NoRef, 0)]
        /\ request[h] = Idle /\ claim' = claim
    BY <1>1 DEF DirectSave, tabs
  <2>2. ASSUME NEW t \in Tabs PROVE AwaitsItsOwn(t)'
    <3>1. Received(NoTab, u, NoRef, 0).tab # t /\ ~Waits(t, h)
      BY <2>1, RouteClaimsAssumption DEF Received, Waits
    <3>2. QED
      BY <2>1, <3>1, OthersAwait DEF AllAwait
  <2>3. QED
    BY <2>2 DEF AllAwait
<1>2. ASSUME NEW r \in rows, SoftDelete(r) \/ RestoreRoute(r) PROVE AllAwait'
  BY <1>2, AllAwaitQuiet DEF SoftDelete, RestoreRoute, tabs
<1>3. ASSUME NEW u \in Users, PlanChanges(u) PROVE AllAwait'
  BY <1>3, AllAwaitQuiet DEF PlanChanges, tabs
<1>4. ASSUME NEW t \in Tabs,
             \/ Hydrate(t) \/ EndSave(t) \/ FailSave(t)
             \/ \E fromDraft \in BOOLEAN : BeginSave(t, fromDraft)
             \/ \E l \in LocalIds \cup {NoRef} : Bind(t, l)
             \/ \E l \in LocalIds : Discard(t, l)
      PROVE  AllAwait'
  BY <1>4, AllAwaitQuiet DEF Hydrate, EndSave, FailSave, BeginSave, Bind, Discard, api
<1>5. ASSUME NEW t \in Tabs, (\E u \in Users : SignIn(t, u)) \/ SignOut(t) \/ Notice(t)
      PROVE  AllAwait'
  <2>1. request' = request /\ \E u \in Users \cup {NoUser} : Shows(t, u)
    BY <1>5 DEF SignIn, SignOut, Notice, api, Shape, TypeOK
  <2>2. QED
    BY <2>1, AllAwaitShows
<1>6. ASSUME NEW t \in Tabs, RunClaim(t) PROVE AllAwait'
  BY <1>6, AllAwaitClaim, AllAwaitSend DEF RunClaim
<1>7. ASSUME NEW t \in Tabs, \/ Reload(t)
                            \/ \E h \in Handlers : LoseConnection(t, h) \/ FailRemove(t, h)
      PROVE  AllAwait'
  BY <1>7, AllAwaitClaim, AllAwaitReload
<1>8. CASE UNCHANGED vars
  BY <1>8, AllAwaitQuiet DEF vars, api, tabs
<1>9. QED
  BY <1>1, <1>2, <1>3, <1>4, <1>5, <1>6, <1>7, <1>8, AllAwaitServe DEF Next

\* A tab that was reloaded, lost its connection or signed out and in again
\* never takes the answer to an earlier request for the one it awaits: it has
\* at most one request of its own, and that one is about the LocalRoute it
\* removes next.
THEOREM AnswersMatch == Spec => []ClaimAwaitsItsOwnAnswer
<1>1. Init => AllAwait
  BY DEF Init, AllAwait, AwaitsItsOwn, Waits, NoClaim
<1>2. Shape /\ AllAwait /\ [Next]_vars => AllAwait'
  BY AllAwaitStep
<1>3. ASSUME AllAwait PROVE ClaimAwaitsItsOwnAnswer
  <2> SUFFICES ASSUME NEW t \in Tabs, claim[t].pc = "await"
               PROVE  Cardinality({h \in Handlers : Waits(t, h)}) = 1
    BY <1>3 DEF AllAwait, AwaitsItsOwn, ClaimAwaitsItsOwnAnswer, Waits
  <2>1. PICK h \in Handlers : {g \in Handlers : Waits(t, g)} = {h}
    BY <1>3 DEF AllAwait, AwaitsItsOwn
  <2>2. QED
    BY <2>1, FS_Singleton
<1>4. QED
  BY <1>1, <1>2, <1>3, ShapeHolds, ShapeStep, PTL DEF Spec
=============================================================================

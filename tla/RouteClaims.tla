----------------------------- MODULE RouteClaims -----------------------------
(***************************************************************************)
(* The saved-Route cap and the claim of a device's LocalRoutes (ADR 0039). *)
(*                                                                         *)
(* A signed-out browser keeps LocalRoutes in IndexedDB; each tab holds a   *)
(* copy of that list in its store.  When someone signs in, every tab       *)
(* replays its LocalRoutes, oldest first, as POST /routes with the device  *)
(* id as clientRef, and removes each one the API answers for.  The API     *)
(* looks the clientRef up, checks the cap under the User row lock unless   *)
(* the Plan is unlimited, and inserts; the unique (user, clientRef) key    *)
(* decides races.  Requests, replies and tabs may be lost between any two  *)
(* of these steps.                                                         *)
(***************************************************************************)
EXTENDS Integers, FiniteSets

CONSTANTS
  Users,        \* accounts
  Tabs,         \* tabs of one browser
  Handlers,     \* POST /routes requests in flight at once
  Limit,        \* FREE_SAVED_ROUTE_LIMIT
  StartsPro,    \* Users on an unlimited Plan at the start
  LocalRoutes,  \* bound: LocalRoutes ever minted on the device
  MaxEdits,     \* bound on the saves on the device
  MaxDirect,    \* bound on the saves into an account
  MaxLosses,    \* bound on the lost connections, device errors and reloads
  MaxSignOuts,  \* bound on the sign-outs
  MaxAdmin,     \* bound on the deletes, restores and Plan changes
  NoUser, NoTab

\* Device ids in the order they were minted, which is createdAt order.
LocalIds == 1 .. LocalRoutes
NoRef == 0
Absent == 0

ASSUME RouteClaimsAssumption ==
  /\ NoUser \notin Users /\ NoTab \notin Tabs /\ StartsPro \subseteq Users
  /\ Limit \in Nat \ {0} /\ LocalRoutes \in Nat /\ MaxEdits \in Nat /\ MaxDirect \in Nat
  /\ MaxLosses \in Nat /\ MaxSignOuts \in Nat /\ MaxAdmin \in Nat

VARIABLES
  \* the API
  rows,       \* the route table
  request,    \* [Handlers -> Request or Idle]
  lock,       \* [Users -> holds the row lock: a set of at most one Handler]
  pro,        \* Users whose Plan unlocks unlimited_saved_routes
  \* the browser
  session,    \* the User the cookie is for, or NoUser
  stored,     \* [LocalIds -> content in IndexedDB, or Absent]
  \* its tabs
  signedIn,   \* [Tabs -> the User the tab shows, or NoUser]
  list,       \* [Tabs -> [LocalIds -> content]], useLocalRoutesStore.routes
  hydrated,   \* Tabs whose list was read from IndexedDB
  bound,      \* [Tabs -> boundLocalId, or NoRef]
  saving,     \* [Tabs -> a save awaiting IndexedDB, or NotSaving]
  claim,      \* [Tabs -> the claim in flight]
  \* history and bounds
  minted, edits, losses, signOuts, admin,
  discarded   \* LocalIds deleted on the device by hand

api == <<rows, request, lock, pro>>
tabs == <<signedIn, list, hydrated, bound, saving, claim>>
counts == <<minted, edits, losses, signOuts, admin, discarded>>
vars == <<api, session, stored, tabs, counts>>

----------------------------------------------------------------------------
(* Rows, requests and claims. `capped` marks a row counted in under the    *)
(* free cap and never restored since: history, for CapHolds.               *)
Row == [id: Nat, user: Users, ref: LocalIds \cup {NoRef}, content: Nat,
        deleted: BOOLEAN, capped: BOOLEAN]

Idle == [pc |-> "idle"]
Answers == {"ok", "limit", "error"}
Request == [pc: {"arrived", "unseen", "waiting", "inserting", "collided"} \cup Answers,
            tab: Tabs \cup {NoTab}, user: Users, ref: LocalIds \cup {NoRef},
            content: Nat, unlimited: BOOLEAN]

LocalRoute == [id: LocalIds, content: Nat]
NotSaving == [pc |-> "no"]
Saving == [pc: {"put"}, route: LocalRoute, before: [LocalIds -> Nat], fromDraft: BOOLEAN]

\* inFlight: "off" is null; "starting" may still have to hydrate; "next" is
\* between two LocalRoutes, "await" between a request and its answer.
Claim == [pc: {"off", "starting", "next", "await"}, pending: SUBSET LocalRoute]
NoClaim == [pc |-> "off", pending |-> {}]

Of(user, ref) == {r \in rows : r.user = user /\ r.ref = ref}
Visible(user) == {r \in rows : r.user = user /\ ~r.deleted}  \* the softDelete filter

\* findByClientRef: the softDelete filter applies to it like to any read.
FindByClientRef(user, ref) == Of(user, ref) \cap Visible(user)

Listed(routes) ==
  {[id |-> l, content |-> routes[l]] : l \in {k \in LocalIds : routes[k] # Absent}}
Oldest(pending) == CHOOSE r \in pending : \A q \in pending : r.id <= q.id

Init ==
  /\ rows = {} /\ request = [h \in Handlers |-> Idle] /\ lock = [u \in Users |-> {}]
  /\ pro = StartsPro
  /\ session = NoUser /\ stored = [l \in LocalIds |-> Absent]
  /\ signedIn = [t \in Tabs |-> NoUser]
  /\ list = [t \in Tabs |-> [l \in LocalIds |-> Absent]]
  /\ hydrated = {} /\ bound = [t \in Tabs |-> NoRef]
  /\ saving = [t \in Tabs |-> NotSaving] /\ claim = [t \in Tabs |-> NoClaim]
  /\ minted = 0 /\ edits = 0 /\ losses = 0 /\ signOuts = 0 /\ admin = 0
  /\ discarded = {}

----------------------------------------------------------------------------
(* POST /routes.                                                           *)
Received(tab, user, ref, content) ==
  [pc |-> "arrived", tab |-> tab, user |-> user, ref |-> ref, content |-> content,
   unlimited |-> FALSE]

At(h, pc) == request[h] # Idle /\ request[h].pc = pc

Step(h, pc) == request' = [request EXCEPT ![h].pc = pc]

\* Mutant: the answer is left in a state no tab reads.
AnswerUnread(h, outcome) == request' = [request EXCEPT ![h].pc = "answered"]

\* The answer waits for its tab; one nobody waits for is dropped.
Answer(h, outcome) ==
  request' = [request EXCEPT ![h] = IF @.tab = NoTab THEN Idle ELSE [@ EXCEPT !.pc = outcome]]

\* create: a replayed clientRef returns its Route before the cap check.
FindReplay(h) ==
  LET q == request[h]
  IN /\ At(h, "arrived")
     /\ IF q.ref # NoRef /\ FindByClientRef(q.user, q.ref) # {}
        THEN Answer(h, "ok")
        ELSE Step(h, "unseen")
     /\ UNCHANGED <<rows, lock, pro, session, stored, tabs, counts>>

\* saveWithinRouteAllowance: can(user, "unlimited_saved_routes"), unlocked.
ReadPlan(h) ==
  LET unlimited == request[h].user \in pro
  IN /\ At(h, "unseen")
     /\ request' = [request EXCEPT ![h].pc = IF unlimited THEN "inserting" ELSE "waiting",
                                   ![h].unlimited = unlimited]
     /\ UNCHANGED <<rows, lock, pro, session, stored, tabs, counts>>

\* Mutant: the count is not behind the row lock.
CountWithoutLock(h) ==
  LET u == request[h].user
  IN /\ At(h, "waiting")
     /\ IF Cardinality(Visible(u)) >= Limit
        THEN Answer(h, "limit")
        ELSE Step(h, "inserting")
     /\ UNCHANGED <<rows, lock, pro, session, stored, tabs, counts>>

\* select ... for update, then the count; at the cap the transaction ends.
LockAndCount(h) ==
  LET u == request[h].user
  IN /\ At(h, "waiting")
     /\ lock[u] = {}
     /\ IF Cardinality(Visible(u)) >= Limit
        THEN Answer(h, "limit") /\ UNCHANGED lock
        ELSE Step(h, "inserting") /\ lock' = [lock EXCEPT ![u] = {h}]
     /\ UNCHANGED <<rows, pro, session, stored, tabs, counts>>

\* Mutant: there is no unique key on (user, clientRef).
InsertWithoutKey(h) ==
  LET q == request[h]
  IN /\ At(h, "inserting")
     /\ rows' = rows \cup {[id |-> Cardinality(rows) + 1, user |-> q.user, ref |-> q.ref,
                            content |-> q.content, deleted |-> FALSE,
                            capped |-> ~q.unlimited]}
     /\ Answer(h, "ok")
     /\ lock' = [lock EXCEPT ![q.user] = @ \ {h}]
     /\ UNCHANGED <<pro, session, stored, tabs, counts>>

\* The insert and its commit. The unique key sees soft-deleted rows too.
Insert(h) ==
  LET q == request[h]
  IN /\ At(h, "inserting")
     /\ IF q.ref # NoRef /\ Of(q.user, q.ref) # {}
        THEN Step(h, "collided") /\ UNCHANGED rows
        ELSE /\ rows' = rows \cup {[id |-> Cardinality(rows) + 1, user |-> q.user,
                                    ref |-> q.ref, content |-> q.content,
                                    deleted |-> FALSE, capped |-> ~q.unlimited]}
             /\ Answer(h, "ok")
     /\ lock' = [lock EXCEPT ![q.user] = @ \ {h}]
     /\ UNCHANGED <<pro, session, stored, tabs, counts>>

\* create's catch: the loser returns the winner's Route, if it can see it.
FindWinner(h) ==
  LET q == request[h]
  IN /\ At(h, "collided")
     /\ Answer(h, IF FindByClientRef(q.user, q.ref) # {} THEN "ok" ELSE "error")
     /\ UNCHANGED <<rows, lock, pro, session, stored, tabs, counts>>

\* A save into the account: the save modal, a library import, the CLI.
DirectSave(h, u) ==
  /\ request[h] = Idle
  /\ Cardinality({r \in rows : r.ref = NoRef})
       + Cardinality({g \in Handlers : request[g] # Idle /\ request[g].ref = NoRef}) < MaxDirect
  /\ request' = [request EXCEPT ![h] = Received(NoTab, u, NoRef, 0)]
  /\ UNCHANGED <<rows, lock, pro, session, stored, tabs, counts>>

\* RoutesService.remove and AdminService.softDeleteRoute; restoreRoute.
SoftDelete(r) ==
  /\ admin < MaxAdmin /\ ~r.deleted
  /\ rows' = (rows \ {r}) \cup {[r EXCEPT !.deleted = TRUE]}
  /\ admin' = admin + 1
  /\ UNCHANGED <<request, lock, pro, session, stored, tabs, minted, edits, losses,
                 signOuts, discarded>>

RestoreRoute(r) ==
  /\ admin < MaxAdmin /\ r.deleted
  /\ rows' = (rows \ {r}) \cup {[r EXCEPT !.deleted = FALSE, !.capped = FALSE]}
  /\ admin' = admin + 1
  /\ UNCHANGED <<request, lock, pro, session, stored, tabs, minted, edits, losses,
                 signOuts, discarded>>

\* The Plan starts or ends (PlanGrants says when).
PlanChanges(u) ==
  /\ admin < MaxAdmin
  /\ pro' = (pro \ {u}) \cup ({u} \ pro)
  /\ admin' = admin + 1
  /\ UNCHANGED <<rows, request, lock, session, stored, tabs, minted, edits, losses,
                 signOuts, discarded>>

----------------------------------------------------------------------------
(* The LocalRoutes of a tab.                                               *)

\* A lost connection, or IndexedDB refusing a read or a write.
Lose ==
  /\ losses < MaxLosses
  /\ losses' = losses + 1
  /\ UNCHANGED <<minted, edits, signOuts, admin, discarded>>

\* hydrate: the list is read once; a failed read is not tried again before
\* the tab reloads.
ReadDevice(t, routes) ==
  \/ routes = (IF t \in hydrated THEN list[t] ELSE stored) /\ UNCHANGED counts
  \/ t \notin hydrated /\ routes = list[t] /\ Lose

\* useLocalRoutes: the list is read on first use.
Hydrate(t) ==
  /\ t \notin hydrated
  /\ \E routes \in {stored, list[t]} :
       ReadDevice(t, routes) /\ list' = [list EXCEPT ![t] = routes]
  /\ hydrated' = hydrated \cup {t}
  /\ UNCHANGED <<api, session, stored, signedIn, bound, saving, claim>>

\* save, up to its await: a LocalRoute the draft is bound to is updated in
\* place, anything else gets a new id. Only signed-out visitors save here,
\* and a new one only under the cap.
BeginSave(t, fromDraft) ==
  LET existing == fromDraft /\ bound[t] # NoRef /\ list[t][bound[t]] # Absent
      id == IF existing THEN bound[t] ELSE minted + 1
  IN /\ signedIn[t] = NoUser /\ saving[t] = NotSaving /\ edits < MaxEdits
     /\ id \in LocalIds
     /\ ~existing => Cardinality(Listed(list[t])) < Limit
     /\ minted' = IF existing THEN minted ELSE minted + 1
     /\ edits' = edits + 1
     /\ saving' = [saving EXCEPT ![t] =
          [pc |-> "put", route |-> [id |-> id, content |-> edits + 1],
           before |-> list[t], fromDraft |-> fromDraft]]
     /\ UNCHANGED <<api, session, stored, signedIn, list, hydrated, bound, claim, losses,
                    signOuts, admin, discarded>>

\* The put is done: the list read before the await is written back.
EndSave(t) ==
  LET s == saving[t]
  IN /\ s # NotSaving
     /\ stored' = [stored EXCEPT ![s.route.id] = s.route.content]
     /\ list' = [list EXCEPT ![t] = [s.before EXCEPT ![s.route.id] = s.route.content]]
     /\ bound' = IF s.fromDraft THEN [bound EXCEPT ![t] = s.route.id] ELSE bound
     /\ saving' = [saving EXCEPT ![t] = NotSaving]
     /\ UNCHANGED <<api, session, signedIn, hydrated, claim, counts>>

\* The put fails: nothing is saved, and the visitor is told.
FailSave(t) ==
  /\ saving[t] # NotSaving
  /\ saving' = [saving EXCEPT ![t] = NotSaving]
  /\ Lose
  /\ UNCHANGED <<api, session, stored, signedIn, list, hydrated, bound, claim>>

\* The draft is replaced, or a LocalRoute is opened.
Bind(t, l) ==
  /\ l # NoRef => list[t][l] # Absent
  /\ bound[t] # l
  /\ bound' = [bound EXCEPT ![t] = l]
  /\ UNCHANGED <<api, session, stored, signedIn, list, hydrated, saving, claim, counts>>

\* Mutant: the LocalRoute stays in IndexedDB.
RemoveFromList(t, l) ==
  /\ list' = [list EXCEPT ![t][l] = Absent]
  /\ bound' = [bound EXCEPT ![t] = IF @ = l THEN NoRef ELSE @]
  /\ UNCHANGED stored

\* remove: off the device, the list and the binding.
Remove(t, l) ==
  /\ stored' = [stored EXCEPT ![l] = Absent]
  /\ list' = [list EXCEPT ![t][l] = Absent]
  /\ bound' = [bound EXCEPT ![t] = IF @ = l THEN NoRef ELSE @]

\* The delete button of the device's list.
Discard(t, l) ==
  /\ list[t][l] # Absent
  /\ Remove(t, l)
  /\ discarded' = discarded \cup {l}
  /\ UNCHANGED <<api, session, signedIn, hydrated, saving, claim, minted, edits, losses,
                 signOuts, admin>>

----------------------------------------------------------------------------
(* Signing in, and the claim it starts.                                    *)

\* Mutant: a claim in flight is not joined but started over.
ShowsAnew(t, u) ==
  /\ signedIn' = [signedIn EXCEPT ![t] = u]
  /\ claim' = IF u # NoUser
              THEN [claim EXCEPT ![t] = [pc |-> "starting", pending |-> {}]]
              ELSE claim

\* useClaimLocalRoutes: its effect runs when the tab's User changes; a claim
\* in flight is joined.
Shows(t, u) ==
  /\ signedIn' = [signedIn EXCEPT ![t] = u]
  /\ claim' = IF u # NoUser /\ claim[t].pc = "off"
              THEN [claim EXCEPT ![t] = [pc |-> "starting", pending |-> {}]]
              ELSE claim

SignIn(t, u) ==
  /\ session = NoUser /\ signedIn[t] = NoUser
  /\ session' = u
  /\ Shows(t, u)
  /\ UNCHANGED <<api, stored, list, hydrated, bound, saving, counts>>

SignOut(t) ==
  /\ signedIn[t] # NoUser /\ signOuts < MaxSignOuts
  /\ session' = NoUser
  /\ Shows(t, NoUser)
  /\ signOuts' = signOuts + 1
  /\ UNCHANGED <<api, stored, list, hydrated, bound, saving, minted, edits, losses, admin,
                 discarded>>

\* The storage event of another tab's sign-in or sign-out.
Notice(t) ==
  /\ signedIn[t] # session
  /\ Shows(t, session)
  /\ UNCHANGED <<api, session, stored, list, hydrated, bound, saving, counts>>

\* runClaim: hydrate if need be, then the pending list, fixed from here on.
StartClaim(t) ==
  /\ claim[t].pc = "starting"
  /\ \E routes \in {stored, list[t]} :
       /\ ReadDevice(t, routes)
       /\ list' = [list EXCEPT ![t] = routes]
       /\ claim' = [claim EXCEPT ![t] =
            IF Listed(routes) = {} THEN NoClaim
            ELSE [pc |-> "next", pending |-> Listed(routes)]]
  /\ hydrated' = hydrated \cup {t}
  /\ UNCHANGED <<api, session, stored, signedIn, bound, saving>>

\* Mutant: the LocalRoute is removed as its request leaves.
SendAndForget(t, h) ==
  LET r == Oldest(claim[t].pending)
  IN /\ claim[t].pc = "next" /\ session # NoUser /\ request[h] = Idle
     /\ request' = [request EXCEPT ![h] = Received(t, session, r.id, r.content)]
     /\ claim' = [claim EXCEPT ![t].pc = "await"]
     /\ Remove(t, r.id)
     /\ UNCHANGED <<rows, lock, pro, session, signedIn, hydrated, saving, counts>>

\* createRoute for the oldest one, with the cookie the browser has by then.
SendClaim(t, h) ==
  LET r == Oldest(claim[t].pending)
  IN /\ claim[t].pc = "next" /\ session # NoUser /\ request[h] = Idle
     /\ request' = [request EXCEPT ![h] = Received(t, session, r.id, r.content)]
     /\ claim' = [claim EXCEPT ![t].pc = "await"]
     /\ UNCHANGED <<rows, lock, pro, session, stored, signedIn, list, hydrated, bound,
                    saving, counts>>

\* A 401: nobody is signed in any more.
SendUnauthorized(t) ==
  /\ claim[t].pc = "next" /\ session = NoUser
  /\ claim' = [claim EXCEPT ![t] = NoClaim]
  /\ UNCHANGED <<api, session, stored, signedIn, list, hydrated, bound, saving, counts>>

\* The account holds it: it leaves the device and the claim goes on.
Claimed(t, h) ==
  LET rest == claim[t].pending \ {Oldest(claim[t].pending)}
  IN /\ At(h, "ok") /\ request[h].tab = t
     /\ request' = [request EXCEPT ![h] = Idle]
     /\ Remove(t, request[h].ref)
     /\ claim' = [claim EXCEPT ![t] =
          IF rest = {} THEN NoClaim ELSE [pc |-> "next", pending |-> rest]]
     /\ UNCHANGED <<rows, lock, pro, session, signedIn, hydrated, saving, counts>>

\* The account holds it but IndexedDB cannot delete it: the claim rejects.
FailRemove(t, h) ==
  /\ At(h, "ok") /\ request[h].tab = t
  /\ request' = [request EXCEPT ![h] = Idle]
  /\ claim' = [claim EXCEPT ![t] = NoClaim]
  /\ Lose
  /\ UNCHANGED <<rows, lock, pro, session, stored, signedIn, list, hydrated, bound, saving>>

\* The cap or a failure ends the claim; the rest waits for a next sign-in.
StopClaim(t, h) ==
  /\ At(h, "limit") \/ At(h, "error")
  /\ request[h].tab = t
  /\ request' = [request EXCEPT ![h] = Idle]
  /\ claim' = [claim EXCEPT ![t] = NoClaim]
  /\ UNCHANGED <<rows, lock, pro, session, stored, signedIn, list, hydrated, bound,
                 saving, counts>>

\* Nobody waits for h any more: it may never have arrived, its answer is
\* dropped, or it runs on.
Orphaned(h) ==
  \/ /\ request[h].pc \in {"arrived"} \cup Answers
     /\ request' = [request EXCEPT ![h] = Idle]
  \/ /\ request[h].pc \notin Answers
     /\ request' = [request EXCEPT ![h].tab = NoTab]

LoseConnection(t, h) ==
  /\ request[h] # Idle /\ request[h].tab = t
  /\ Orphaned(h)
  /\ claim' = [claim EXCEPT ![t] = NoClaim]
  /\ Lose
  /\ UNCHANGED <<rows, lock, pro, session, stored, signedIn, list, hydrated, bound, saving>>

\* The tab reloads: its store starts over, the binding comes back from
\* localStorage, which the tabs share, and a session resumes its claim. A
\* save in flight may or may not have reached IndexedDB. Only the reloads
\* that interrupt a claim are bounded.
Reload(t) ==
  LET mine == {h \in Handlers : request[h] # Idle /\ request[h].tab = t}
      s == saving[t]
  IN /\ claim[t] = NoClaim \/ losses < MaxLosses
     /\ losses' = IF claim[t] = NoClaim THEN losses ELSE losses + 1
     /\ IF mine = {} THEN UNCHANGED request ELSE \E h \in mine : Orphaned(h)
     /\ \/ UNCHANGED stored
        \/ s # NotSaving /\ stored' = [stored EXCEPT ![s.route.id] = s.route.content]
     /\ list' = [list EXCEPT ![t] = [l \in LocalIds |-> Absent]]
     /\ hydrated' = hydrated \ {t}
     /\ \E other \in Tabs : bound' = [bound EXCEPT ![t] = bound[other]]
     /\ saving' = [saving EXCEPT ![t] = NotSaving]
     /\ signedIn' = [signedIn EXCEPT ![t] = session]
     /\ claim' = [claim EXCEPT ![t] =
          IF session = NoUser THEN NoClaim ELSE [pc |-> "starting", pending |-> {}]]
     /\ UNCHANGED <<rows, lock, pro, session, minted, edits, signOuts, admin, discarded>>

----------------------------------------------------------------------------
Serve(h) ==
  FindReplay(h) \/ ReadPlan(h) \/ LockAndCount(h) \/ Insert(h) \/ FindWinner(h)

RunClaim(t) ==
  \/ StartClaim(t) \/ SendUnauthorized(t)
  \/ \E h \in Handlers : SendClaim(t, h) \/ Claimed(t, h) \/ StopClaim(t, h)

Next ==
  \/ \E h \in Handlers : Serve(h) \/ \E u \in Users : DirectSave(h, u)
  \/ \E r \in rows : SoftDelete(r) \/ RestoreRoute(r)
  \/ \E u \in Users : PlanChanges(u)
  \/ \E t \in Tabs :
       \/ Hydrate(t) \/ EndSave(t) \/ FailSave(t) \/ SignOut(t) \/ Notice(t) \/ Reload(t)
       \/ \E fromDraft \in BOOLEAN : BeginSave(t, fromDraft)
       \/ \E l \in LocalIds \cup {NoRef} : Bind(t, l)
       \/ \E l \in LocalIds : Discard(t, l)
       \/ \E u \in Users : SignIn(t, u)
       \/ RunClaim(t)
       \/ \E h \in Handlers : LoseConnection(t, h) \/ FailRemove(t, h)

Spec == Init /\ [][Next]_vars

\* Postgres queues the waiters of a row lock and a request runs on; a tab's
\* callbacks run; the owner keeps coming back signed in. Nothing is fair
\* about losing connections, editing, deleting or signing out.
Fairness ==
  /\ \A h \in Handlers : SF_vars(Serve(h))
  /\ \A t \in Tabs :
       /\ SF_vars(RunClaim(t)) /\ WF_vars(EndSave(t))
       /\ SF_vars(claim[t] = NoClaim /\ session # NoUser /\ Reload(t))
       /\ WF_vars(\E u \in Users : SignIn(t, u)) /\ WF_vars(Notice(t))

FairSpec == Spec /\ Fairness

----------------------------------------------------------------------------
(* Properties.                                                             *)

\* The type invariant: rows, requests in flight and the tabs' stores.
TypeOK ==
  /\ rows \in SUBSET Row
  /\ request \in [Handlers -> Request \cup {Idle}]
  /\ lock \in [Users -> SUBSET Handlers]
  /\ pro \in SUBSET Users
  /\ session \in Users \cup {NoUser}
  /\ stored \in [LocalIds -> Nat]
  /\ signedIn \in [Tabs -> Users \cup {NoUser}]
  /\ list \in [Tabs -> [LocalIds -> Nat]]
  /\ hydrated \in SUBSET Tabs
  /\ bound \in [Tabs -> LocalIds \cup {NoRef}]
  /\ saving \in [Tabs -> Saving \cup {NotSaving}]
  /\ claim \in [Tabs -> Claim]
  /\ minted \in 0 .. LocalRoutes /\ edits \in Nat /\ losses \in Nat
  /\ signOuts \in Nat /\ admin \in Nat
  /\ discarded \in SUBSET LocalIds

\* ADR 0039: "concurrent saves cannot overshoot". The Routes a free User
\* saved under the cap never outnumber it, whatever unlimited saves, restores
\* and Plan changes happen between a count and its insert.
CapHolds ==
  \A u \in Users : Cardinality({r \in Visible(u) : r.capped}) <= Limit

\* claimLocalRoutes: "a claim can never duplicate", through lost answers,
\* second tabs, reloads and deleted Routes.
ClaimsNeverDuplicate ==
  \A r, s \in rows : (r.ref # NoRef /\ r.user = s.user /\ r.ref = s.ref) => r = s

\* The answer a claim awaits is about the LocalRoute it removes next: after
\* an abandoned request, an old answer never removes another LocalRoute.
ClaimAwaitsItsOwnAnswer ==
  \A t \in Tabs :
    LET mine == {h \in Handlers : request[h] # Idle /\ request[h].tab = t}
    IN /\ claim[t].pc # "await" => mine = {}
       /\ claim[t].pc = "await" =>
            /\ Cardinality(mine) = 1
            /\ \A h \in mine : request[h].ref = Oldest(claim[t].pending).id

\* "A LocalRoute leaves the device only once the account holds it", unless
\* it was deleted by hand.
LeavesDeviceOnlyWhenHeld ==
  [][\A l \in LocalIds :
       (stored[l] # Absent /\ stored'[l] = Absent)
       => l \in discarded' \/ \E r \in rows' : r.ref = l]_vars

\* The same for what the LocalRoute held when it left: the account has that
\* content, not an older one.
LeavesDeviceAsLastSaved ==
  [][\A l \in LocalIds :
       (stored[l] # Absent /\ stored'[l] = Absent)
       => \/ l \in discarded'
          \/ \E r \in rows' : r.ref = l /\ r.content = stored[l]]_vars

\* Every LocalRoute gets off the device: claimed now or at a later sign-in.
EveryLocalRouteIsClaimed ==
  \A l \in LocalIds : (stored[l] # Absent) ~> (stored[l] = Absent)

=============================================================================

# Routess in TLA+

Routess plans outdoor routes. A browser app draws a route along the road
network, keeps it on the device until someone signs in, and an API stores it,
bills the Pro Plan, shares, navigates and recommends. This directory holds TLA+
modules of the parts of that program in which several actors meet: requests that
wait for a row lock, webhooks that arrive twice, tabs that replay what another
tab already sent, edits made while the routing engine still answers the edit
before. Each module is written from the code it names; `PROJECT.json` maps
definition by definition to the source lines.

| Module | Subject | Kind |
|---|---|---|
| `PlanGrants` | Pro Plan rows, Stripe payments, OG pass, admin actions | detailed specification |
| `PaidTime` | what buying a pass promises | abstract specification, implemented by `PlanGrants` |
| `RouteClaims` | the saved-Route cap, LocalRoutes and their claim | detailed specification |
| `RoutePath` | the draft's waypoints, path, history and route computations | detailed specification |
| `DraftBinding` | which LocalRoute or Route the draft's next save overwrites | detailed specification |
| `RouteRecord` | a Route's row, its updates and the columns derived from it | detailed specification, part of `AccountLife` |
| `AccountLife` | deletion, cancellation, restore and purge of an account, its sessions and its Routes | detailed specification, EXTENDS `RouteRecord` |
| `NavigationEngine` | the pure reducer of turn-by-turn navigation | operators, part of `Navigation` |
| `Navigation` | sessions, fixes, Rejoins and the resume snapshot around the engine | detailed specification, EXTENDS `NavigationEngine` |
| `PlanGrantsProofs`, `RouteClaimsProofs`, `RoutePathProofs`, `DraftBindingProofs`, `AccountLifeProofs`, `NavigationProofs` | theorems about the module each is named after | TLAPS proofs |
| `RouteLineProofs`, `RoutePatchProofs` | what the operators of `RoutePath` compute: the engine's line and the walk along it; trim, splice and keep | TLAPS proofs that `RoutePathProofs` EXTENDS |
| `MCPlanGrants`, `MCRouteClaims`, `MCRoutePath`, `MCDraftBinding`, `MCAccountLife`, `MCNavigation` | small instances | model-checking modules |

To run them: `tlc -config RouteClaimsTabs.cfg MCRouteClaims` (a `.cfg` is named
after the module it instantiates) and `tlapm PlanGrantsProofs.tla`.

## 1. The system

The repository is a monorepo. `apps/api` is a NestJS server over Postgres
(MikroORM, READ COMMITTED transactions, a global `softDelete` filter on every
entity that has a `deleted_at`, ADR 0012) and Redis. `apps/web` is a React
application whose state lives in Zustand stores, some persisted to
`localStorage`, and in IndexedDB. `packages/core` holds the logic the web app
and the API share. The routing engine (Valhalla), Stripe, the mail server and
the geocoder are services it calls.

### Components

| Component | State | Operations | Speaks to | What makes it hard, and what must hold | Model |
|---|---|---|---|---|---|
| Plan grants and billing (`billing.service`, `entitlements.service`, `plan-status`) | `entitlement` rows per User and source, `payment` rows, `user.plan` | checkout, webhook, OG pass at sign-in and status reads, status resolution | Stripe; every gate reads the status | redelivered, duplicated and late webhooks; two grants extending one end; crash between payment and grant. Each payment is credited once and nothing paid is lost. | `PlanGrants`, `PaidTime` |
| Admin Pro and audit (`admin-pro.service`) | the same rows, `admin_audit_entry` | grant, extend, revoke | billing, through the row lock | `now` is read before the lock. A revoke ends Pro, each cut is audited, the panel agrees with the gates. | `PlanGrants` |
| Saved-Route cap and idempotent creation (`routes.service`) | `route` rows, unique (user, clientRef) | POST /routes, delete, restore | the User row lock; entitlements | count and insert race; a replay races the first request. Capped saves stay under the cap; one Route per clientRef. | `RouteClaims` |
| Device LocalRoutes and their claim (`features/localRoutes`) | IndexedDB, one store per tab, the shared session cookie | save, bind, delete, claim on sign-in | POST /routes | lost answers, two tabs, sign-out mid-claim, reload. Nothing leaves the device before an account holds it, and everything gets there in the end. | `RouteClaims` |
| Route draft (`RouteDraftEditor`, `RouteCalculationService`, `core/stores/routing`, `core/history`) | waypoints, path, undo and redo stacks, mode, binding | add, move, insert, remove, reverse, reorder, clear, undo, redo, load, save | routing engine, localStorage, POST and PATCH /routes | overlapping edits, stale answers, rollbacks after an await, loads and saves that answer late, reload. The line on the map belongs to the waypoints; a save overwrites the draft's own Route. | `RoutePath` (editor, history, computations), `DraftBinding` (mode, binding, loads, saves) |
| Route record (`routes.service`, `surface-composition`, `places`) | `route` row and its derived columns | PATCH, visibility, listing | fire-and-forget derivations | a late derivation overwrites a newer geometry's; two updates decide by the row each has loaded | `RouteRecord` (updates, derivations) |
| Accounts (`users.service`, `admin.service`) | `user.deleted_at`, `deletion_status` and its date, soft-deleted Routes | request, cancel, hard delete by cron, admin delete and restore | all owned rows, sessions, analytics erasure | statements of two requests interleave, the process stops between them; the cron's window between read and delete. Account, Routes and sessions stay in step. | `AccountLife`; payments of a deleted account in `PlanGrants` |
| Authentication (`auth`) | sessions, e-mail tokens, personal access tokens | sign-up, verify, sign-in, roll, revoke | mail, Google | a deletion revokes the sessions it read while logins go on | sessions and sign-in in `AccountLife` |
| Social (`social`, `profiles`) | follows, shares, notifications | follow, share, save a shared Route | mail | hourly mail limit counted before and stamped after an await | not modelled |
| Weekly digest | `weeklyDigestLastSentAt` per recipient | the cron run | mail | overlapping runs; once a week | not modelled |
| Cache, quotas, throttling | Redis counters | hit, expire | every endpoint | increment and expiry are two commands | not modelled |
| Navigation (`core/navigation`, `navigationStore`, `useNavigationController`) | the session: progress, next cue, off-route state, Rejoin; a resume snapshot in localStorage | start, fix, reroute, Rejoin, dismiss, resume | geolocation, routing and cue services | repeated fixes, crossings, dwell, answers after the end or for the ride before, a reload. A cue is heard once and in order; an ended ride stays ended. | `NavigationEngine`, `Navigation` |
| Collections, preferences, generation, routing and cue proxies, external routes, web shell, CLI, landing and docs sites, telemetry and mail transport | | | | CRUD without a protocol, floating-point geometry, stateless calls or pure I/O | not modelled, `PROJECT.json` says why for each |

### How the modelled parts meet

- The *User row lock* (`select ... for update` on the `user` row) is the one
  lock of the API. Webhook, OG pass and admin actions take it in `PlanGrants`;
  a capped save takes it in `RouteClaims`. The Plan decides whether a save is
  capped at all, and is read outside that lock.
- A claim is a sequence of ordinary saves with the device id as `clientRef`.
  The browser knows of an answer only when it arrives; the cookie, not the tab,
  decides whose account a request is for.
- A draft becomes a LocalRoute or a Route when it is saved. `RouteClaims` knows of
  the draft only `bound`, `RoutePath` only its geometry; `DraftBinding` joins
  draft, history, LocalRoutes and Routes and leaves the geometry out.
- A Route's row is written by its owner's requests, by derivations nobody awaits and
  by whatever happens to the account: `AccountLife` EXTENDS `RouteRecord`, its
  request steps call the statements of that module, and both write the same rows.
- The navigation host calls a pure engine: `Navigation` EXTENDS `NavigationEngine`,
  whose operators are functions of a session and a fix.

## 2. PlanGrants and PaidTime

**State.** `grant[u][source]` is the Pro row of a User for one of the four
sources, with `expires_at` (null is `forever`) and `deleted_at` (`revoked`);
`payment` is the table; `storedPlan` the column `user.plan`; `lock` the row lock;
`audit` the audit entries. `paidAt` and `open` are Stripe's side. `ogGiven`,
`given` and `ended` are history for the properties: what was ever given, and how
often Pro was ended.

**Requests.** A handler goes *waiting → locked → idle*. What the code reads
before it takes the lock is read on arrival (`from`, the moment `act` and the OG
pass call `new Date()`), what it reads under the lock is read by `TakeLock`
(`latest`, `before`, `permanent`), and a commit writes from those values. A read
made too early in the program would be used too late in the model as well.

| Code | Actions |
|---|---|
| `BillingService.handleWebhook`, `applyEvent` | `Deliver`, `TakeLock`, `ApplyEvent`, `ApplyOrphan` (the buyer is hard-deleted), `Refuse` (already recorded) |
| `grantOgPassIfEligible` | `SignIn`, `TakeLock`, `GrantOgPass`, `Refuse` |
| `AdminProService.grant/extend/revoke` through `act` | `AskAdmin`, `TakeLock`, `AdminGrant`, `AdminExtend`, `AdminRevoke`, `Refuse` (the conflicts) |
| `setPlanGrant`, `extendPlanGrant`, the updates in `AdminProService.revoke` | `SetPlanGrant`, `ExtendExpiry`, `RevokeGrants` |
| `PRO_GRANTS_SQL`, `PRO_PERMANENT_SQL`, `PLAN_KIND_SQL`, `resolvePlanStatus` | `Running`, `IsPermanent`, `PlanKind`, `IsPro` |
| account deletion, cancellation, cron | `RequestDeletion`, `CancelDeletion`, `HardDelete` |
| the process dies inside its transaction | `Crash` |

**Runs.**

| Run | Instance | Shows |
|---|---|---|
| `plan_billing` (614k states) | one veteran User, 2 handlers, 2 checkouts, 3 events (the first checkout is reported twice), clock 0..2, pass 2 days, OG pass 1 day, 1 crash, deletion | reads stay current under the lock; the OG pass is given once; only audited steps cut Pro; `PlanGrants` implements `PaidTime` |
| `plan_admin` (377k states) | one User who may have the account deleted, with or without a hand-written open-ended row, 2 handlers, 1 checkout, 2 admin actions, 1 crash | Pro never outruns what was given; the label agrees with the gates; a revoke ends Pro now; every payment settles, through crashed deliveries and with the buyer's account gone |

One User is enough: a request touches the rows of one User only, and locks are
per User. Two handlers give every pair of requests in every order around the
lock, and three events cover the two ways a delivery can be a repeat (same event,
same checkout). The lengths differ (2 and 1) so that a swap of pass and OG pass
shows. The proofs drop all of these bounds for the properties they cover.

**Refinement.** `PaidTime` knows neither rows nor requests: a checkout is credited
at most once, a credit moves the end of the paid time at least a pass beyond both
the payment and what was held, and paid time shrinks only when Pro is ended.
`Paid == INSTANCE PaidTime WITH credited <- {checkouts of payments with a
pass_expires_at}, until <- [the live billing row's end]`, and `PaidTimeKept ==
Paid!Spec` is checked as a property.

**Fairness.** Stripe redelivers an event until it is answered 200 (SF on
`Deliver` while the event is not recorded); Postgres queues the waiters of a row
lock, so a waiting request gets it although others keep arriving (SF on
`TakeLock`); a request that holds the lock runs on (WF on `Refuse` and
`Commit`), crashes apart. Nothing is fair about crashing, paying, signing in or
administering.

## 3. RouteClaims

**State.** On the API `rows` (with `deleted` for the soft delete), the requests in
flight, the row lock and the Plans. In the browser the cookie's `session`, and
`stored`, the IndexedDB contents. Per tab `signedIn` (what the tab shows),
`list` (its copy of the store), `hydrated`, `bound`, a `saving` in flight and the
`claim`. A Route's data is a content number that each save on the device
increases. LocalRoutes are numbered in the order of their `createdAt`.

| Code | Actions |
|---|---|
| `RoutesService.create` with `findByClientRef`, the Plan check, `assertCanSaveRoute` under the lock, the insert and its unique-key fallback | `FindReplay`, `ReadPlan`, `LockAndCount`, `Insert`, `FindWinner`: one step between every two awaits |
| soft delete, restore, Plan changes elsewhere | `SoftDelete`, `RestoreRoute`, `PlanChanges` |
| `localRoutesStore` save, remove, hydrate | `BeginSave`, `EndSave`, `FailSave`, `Hydrate`, `Discard`, `Bind` |
| sign-in, sign-out, another tab noticing the session | `SignIn`, `SignOut`, `Notice` |
| `claimLocalRoutes` | `StartClaim`, `SendClaim`, `SendUnauthorized`, `Claimed`, `FailRemove`, `StopClaim` |
| the network and the browser | `LoseConnection` (the request may not have arrived, may run on, or only its answer is lost), `Reload` |

**Runs.**

| Run | Instance | Shows |
|---|---|---|
| `claims_tabs` (358k states) | 2 tabs, 2 handlers, cap 1, 1 LocalRoute, 1 direct save, 2 deletes, restores or Plan changes, 1 loss | capped saves never outnumber the cap; a clientRef never makes two Routes; nothing leaves the device unheld |
| `claims_liveness` (39k states) | 1 tab, 2 LocalRoutes, cap 2, 1 sign-out, 1 loss | every LocalRoute ends in the account; an awaited answer is about the LocalRoute it removes, after a sign-out or a reload in the middle of a claim as well |
| `claims_stale_content` (violation) | 1 LocalRoute saved twice | the content that leaves is not always the content saved last |
| `claims_deleted_blocks` (violation) | 1 LocalRoute, 1 delete | a claimed and then deleted Route blocks its own replay for ever |

`CapHolds` counts only Routes that were counted in under the cap: restores,
unlimited saves and a Plan that ends afterwards legitimately exceed it, as
ADR 0039 says. The cap is at the number of rows that can arise, so that both
sides of it are reached; one lost connection yields each of its three outcomes,
and a second one only repeats them. In `claims_liveness` the cap fits every
LocalRoute, since a full account rightly keeps the rest on the device.

**Fairness.** A request runs on and Postgres queues lock waiters (SF on `Serve`);
a tab's callbacks run (SF on `RunClaim`, WF on `EndSave`); the owner keeps coming
back: `SignIn` and `Notice` (WF) and a page load while signed in with no claim
running (SF). This last assumption is about the person and is what "the next
sign-in retries them" promises against. Nothing is fair about losing connections,
editing, deleting or signing out.

## 4. RoutePath

**State.** The draft (`waypoints`, `path`), its history (`past`, `future`) and
`edit`, the edits that await an answer. An edit remembers what the code's
closures remember: `next`, the waypoints it asked for; `prev`, the state captured
before it; the index and coordinate its rollback needs. `disturbed` and `lost` are
history: an edit came while another was awaited; the last computation failed, its
page went away, or nothing was routed although the path may not fit, in the two ways of
section 8. A click may land anywhere, on the path too: the draft's own line, a loop
closing or an out-and-back.

| Code | Definitions and actions |
|---|---|
| `addWaypoint` before and after its road check | `AddWaypoint`, `Place` |
| `moveWaypoint`, `removeWaypoint`, `insertWaypointOnRoute` | `MoveWaypoint`, `RemoveWaypoint`, `InsertWaypointOnRoute` with `InsertIndex` |
| `reverse` and PlanPanel's remove, reorder and way back; SearchModal's new start or end | `Rearrange` over `Reorderings` and `Replacements` |
| `reset` and PlanPanel's clear, `recalculate`, `undo`, `redo` | `Reset`, `Recalculate`, `Undo`, `Redo` |
| `loadWaypoints`, with the saved path or routed anew, with or without a snapshot | `Load` |
| `recomputeLocal` and `patchRoute` | `RecomputeLocal`; `Plan` with `Anchors`, `IsPureOnPathInsertion`, `DeadViaInsideKeptSpan`, `Restored`, `Patch`, `Splice` |
| `getRoute`, `routeInputsMatch`, the failure path | `Recompute`, `Answer`, `Discard`, `FailSegment`, `FailRoute` |
| `recordSnapshot`, `undoStep`, `redoStep` | `SaveSnapshot`, `Undo`, `Redo` |
| the persisted store after a page load | `Reload` |

Places are integers on a line and the engine walks the line, so the route from 1
to 3 passes 2 and a route 1, 3, 1 turns back. This is the least geometry in which
a path has an interior, a detour is visible, and a place can lie on the path twice.

**Runs.**

| Run | Instance | Shows |
|---|---|---|
| `route_path_edits` (976k states) | places 1..3, two drafts to open or load, 3 operations, 2 edits awaited at once, history of depth 2, 1 failed computation, 1 reload | the history keeps its cap; a stale path is being recomputed; rollbacks take back their own edit; edits made in turn leave no detour |
| `route_path_detour` (violation) | the same without failures and reloads | edits made on top of each other can leave one |

The drafts are an empty one and a round trip, which passes each of its places twice;
three operations reach an edit, its undo and its redo, and each pair of overlapping
edits followed by a third. No fairness: every property is about safety.

## 5. DraftBinding

**State.** `draft`, `mode`, `past` and `future` are the routing store; `bound`
and `depth` (`loadedAtUndoDepth`) belong to `localRoutesStore`; `local` and
`server` say which work each LocalRoute and each Route holds. Waypoints are
abstracted to the *work* they belong to: editing stays in a work; drawing on an empty
draft and importing begin one. That is exactly what the properties tell apart:
whether a save overwrites a Route with something that is not its own next version.
`pending`, `claim` and `refs` are the claim of the LocalRoutes: what is still to be sent,
the LocalRoute whose delete is awaited with what was decided of the draft before, and
the Routes already made (the idempotent `clientRef`). `redone`, `trimmed` and `kept` are
history.

| Code | Actions |
|---|---|
| edits, clear and unload of `RouteDraftEditor` and `PlanPanel` | `Draw`, `Edit`, `RemoveLast`, `Clear`, `Unload` |
| `undo`, `redo`, other updates of the store | `Undo`, `Redo`, `Touch` |
| the subscription of `localRoutesStore` to the draft and its history | `Settle`, in every action that changes either |
| `loadWaypoints` from the library, the device, GPX and links | `Load` in `OpenRoute`, `OpenLocal`, `FinishOpen`, `Import`, `LinkArrives` |
| `save` and `remove` on the device | `BeginSaveLocal`, `EndSaveLocal`, `FailSaveLocal`, `RemoveLocal` |
| PATCH, POST, their answers and `applySavedRoute`; deleting a Route | `Patch`, `Post`, `Answered`, `Unanswered`, `DeleteRoute` |
| `claimLocalRoutes` from the answer on, started by a sign-in or a resumed session | `SignInOrOut`, `ClaimAnswered` (with `draftIsThisRoute`), `EndClaim` after the awaited delete, `FailClaim` |
| boot and `useRouteDraftRehydration` | `Reload`, `CheckDraft` |

**Runs.**

| Run | Instance | Shows |
|---|---|---|
| `draft_binding` (1.28M states) | history of depth 2, 1 LocalRoute, 1 Route, 2 works, 1 save, open or claim in flight, 1 reload, 1 sign-in or sign-out | above the last load the history is the draft's own; an undo of an edit keeps the binding; binding and mode go wrong only in the named ways |
| `draft_shared` (violation) | the same with a Route in the account at the start | a shared Route does not always load unbound |

A depth of 2 puts the cap one edit away from a load, so the depth shifts below it;
two works are what it takes for a save to hit the wrong one. Deadlock is checked in
`draft_binding`: `Touch` is always possible, as in the program.

`BindingLostOnlyLate` and `ModeLostOnlyLate` are statements of what *can* go wrong.
Each excuse is behaviour of the code and narrow: the answer to a save of another work
than the draft's (`applySavedRoute`, `onLoadLocalRoute`); a claim whose draft was replaced
while the delete was awaited, or whose Route is not what the device held; an undo or redo
over a load, which moves the waypoints and leaves the mode (the binding is dropped by
then); GPX, shared links and payloads, which leave the mode. What is left to them: a draft
bound to a LocalRoute but of another work is not turned into its Route, an undo above the
last load keeps the mode right, and so does every other step.

## 6. AccountLife and RouteRecord

**State.** `account` is the user row as far as deletion reads it; `sessions` and
`routes` are the rows; `job` the derivations in flight; `request` the requests,
each with its next statement and the row it loaded; `purge` the cron. MikroORM
writes on flush the columns that differ from what it *loaded*: `Column(stored,
loaded, wanted)` says so, and it is what decides which of two overlapping requests
wins. `apart`, `cut`, `missed` and `old` are history.

| Code | Actions |
|---|---|
| `UsersService.remove`, `cancelDeletion` | `Remove`, `FindRoutes`, `FlushUser`, `ReadSessions`, `RevokeSessions`; `CancelDeletion`, `FlushUser`, `RestoreRoutes` |
| `AdminService.softDeleteUser`, `restoreUser` | `SoftDeleteUser`, `HideRoutes`, `FlushUser`, ...; `RestoreUser`, `RestoreRoutes`, `FlushUser` |
| `AuthService.googleAuth`, `EmailAuthService.login`, `SessionService` | `GoogleAuth`, `ReviveUser`, `RestoreRoutes`, `FlushUser`, `CreateSession`; `Login`, `CreateSession`; `EndSession` |
| `RoutesService.create`, `update`, `remove`, `hardDelete`, the admin's pair | `Create`, `InsertRoute`; `Update`, `FlushRoute`; `RemoveRoute`, `HardDeleteRoute`, `SoftDeleteRoute`, `RestoreRoute` |
| `deriveForRoute` of surfaces and Places | `LoadForDerivation`, `WriteDerived`, `DerivationFails` |
| `hardDeleteExpiredAccounts` | `ReadExpired`, `DeleteExpired`, `PurgeFails`, `NextDay` |
| the process stops | `Crash`, `DerivationFails`, `PurgeFails` |

**Run.**

| Run | Instance | Shows |
|---|---|---|
| `account_life` (678k states) | 2 handlers, 2 Routes, 3 geometries of which two share a start, 2 sessions, 2 derivations of a kind in flight, 4 requests or interruptions (a save counts twice), 1 day, no grace | a pending deletion has its date; Routes follow their account; derived columns follow the geometry; a deletion ends the sessions it found; an expired deletion is carried out |

Two handlers give every pair of overlapping requests, and four operations a deletion, its
cancellation, a second deletion and a crash. Three geometries are the fewest with a
change that moves the start, one that does not, and a way back over a third: with two,
an update that goes back to the geometry of a row loaded earlier hides that a Place was
never derived again. A grace window of 0 and one day give both sides of the
comparison.

**Fairness.** WF on `ReadExpired`, `DeleteExpired` and `NextDay`: the cron runs every
night and days pass. `PurgeFails` is bounded; a purge that failed every night would
carry out nothing. Requests need none: the liveness property is about the cron.

## 7. NavigationEngine and Navigation

**State.** `session` is the store's `active` with the engine's state, `reading` the last
position of the location service, `snapshot` the resume snapshot and `lastWrite` its
throttle; `starting` are sessions whose cues are being fetched, `requests` Rejoins
being computed. `heard`, `stray` and `finished` are history.

| Code | Definitions and actions |
|---|---|
| `path.ts`: projection with its window and fallback | `Foot`, `Nearest`, `Around`, `ProjectOntoPath` |
| `engine.ts`: `advanceNavigation`, `announceCues`, arrival, `forceRejoin`, `applyRejoin` | `AdvanceNavigation` with `Follow`, `Stray`, `StrayFromConnector`; `NextCues`, `AnnounceCues`, `Arrives`, `ForceRejoin`, `ApplyRejoin` |
| `navigationStore.ts` | `Start`, `SetEngine`, `WriteSnapshot`, `Dismiss` |
| `useNavigationController.ts`, `LocationService` | `Locate`, `Relocate`, `Reroute`, `RequestRejoin`, `Rejoined`, `NotRejoined` |
| `startNavigation.ts`, `ResumeNavBanner.tsx` | `Navigate`, `CuesArrive`, `CuesFail`, `Resume`, `DismissResume` |
| reload, swipe-kill, an old snapshot | `Reload` |

Geometry is a grid with unit segments, so a projection falls on a grid point and squared
distances are whole numbers. A fix's speed matters only through how far ahead a
cue is announced, so the model gives it as that pair of reaches. When one step's
result has to be named once and used several times the operator is a set of one element.

**Run.**

| Run | Instance | Shows |
|---|---|---|
| `navigation` (852k states) | a loop that crosses its own way out, 2 cues, fixes on the crossing, on a corner of the loop and at the end, which is off the route for a rider who has not been on the loop; dwell 1, 2 taps on Navigate, 1 reload, 1 failed snapshot write, clock 0..1 | cues are heard once each way and in order; rerouting waits for the dwell; ended sessions stay ended and are not offered again; the snapshot is of the session that runs |

The crossing lies at 1 and at 5 along the path, so a fix on it jumps back behind a cue
already heard, or is taken for the other pass when the window falls back to the whole
path; the cues, at 3 and 6, are far enough apart that each is prepared and then called,
and the reach of a fix decides between the two. Of a ride the run hears, for instance,
the first cue's "prepare" and "now", then a jump back along the path, then the second's
"now"; a rider strays at the end of the path before the loop, with nothing, with "prepare"
and with "now" heard. Two sessions are what it takes for a late Rejoin, late cues
or a snapshot to meet the wrong one. Rejoin requests of a session that ended stay in
flight and land on the next one, as in the code.

## 8. What the code does against its own words

Each run that ends in a violation checks one property, and its trace is the finding.

1. **A replayed claim loses the newer content** (`claims_stale_content`,
   `claimLocalRoutes.ts:65`). The first claim's answer is lost; the LocalRoute is
   edited on the device; the replay answers with the Route as first sent; the
   claim removes the LocalRoute by its id. The same happens to a save made while
   the claim is in flight.
2. **A deleted Route blocks the claims behind it** (`claims_deleted_blocks`,
   `routes.service.ts:100`). `findByClientRef` does not see soft-deleted Routes,
   the unique key does. If the Route is deleted before the device saw the answer,
   each retry violates the key, finds no winner and rethrows, and the loop stops
   there at every sign-in.
3. **Overlapping edits leave a detour** (`route_path_detour`,
   `RouteCalculationService.ts:429`). An edit made while another is being computed
   splices into the path from before both; the first answer is discarded, and with
   it the leg it was going to replace.
4. **A shared Route loads into the Route being edited** (`draft_shared`,
   `RouteDraftEditor.ts:451`). `loadFromRouteRef` never sets the mode, so a draft that
   was editing one's own Route becomes someone else's Route under the same mode,
   and the next Save PATCHes one's own Route with it.

Further behaviour met while modelling, which the properties excuse by name:

- `isPureOnPathInsertion` looks at each inserted waypoint alone. Its comment ("The path
  is already correct; nothing needs routing", `RouteCalculationService.ts:294-295`) is
  right for one (`InsertOne` proves it) and not for several in a leg: in a draft
  1, 3, 2, 4 load the straight route 1, 4 and undo. The waypoints are 1, 3, 2, 4 again,
  all of them on the line, which stays straight (`lost`, set by `RecomputeLocal` where a
  plan "keep" brings more than one waypoint).
- `addWaypoint` patches from the state before its road check, whatever came since. If a
  waypoint is moved or removed during the check, the click can make the draft look like
  the one the path was drawn for, or like an insertion on it, and nothing is routed. In a
  draft 1, 2, 3 click at 3 and remove the old 3 while the check runs: the waypoints are
  1, 2, 3 again ("same"), the path has been cut back to 2 by then and stays so. The comment
  "A waypoint appended at either end is a user edit whose leg must be routed"
  (`RouteCalculationService.ts:295-298`) holds on a draft nobody changed meanwhile
  (`AppendedWaypointIsRouted`) and not here (`lost`).
- A claim decides that the draft is the claimed LocalRoute, awaits the delete and then
  sets the mode without another look (`claimLocalRoutes.ts:62-66`). A draft loaded in
  between is turned into the new Route, and the next Save PATCHes it with another work;
  the comment above (28-30) says "when the open draft is still exactly the claimed
  LocalRoute". `ModeLostOnlyLate` names this as an exception.
- An update that finds the composition null when it loads does not clear one written
  since, and two overlapping updates can leave a Place of the wrong start with no
  derivation to come: both decide by the row they loaded (`missed`). A late surface
  derivation can thus do what the comment in `RoutesService.update` rules out ("Stale
  composition must never render against new geometry").
- The purge does not look at an account again after the analytics await: one that its
  owner restores in between is deleted. No property excuses or catches it.
- Cancelling, restoring and signing in again bring back Routes that had been deleted one
  by one (`apart`); a deletion misses Routes created after it looked. Overlapping or
  interrupted deletions and restores leave account and Routes out of step (`cut`): a
  deletion that overlaps a cancellation can end deleted and not pending.
- A login in flight across a deletion leaves a live session behind, and `ADR 0017`'s
  "signing back in" cancels a deletion with Google only.
- A Rejoin that arrives late applies to whatever session runs, one that already follows
  its route again included. A request that fails leaves the session off route with
  nothing to ask again but the reroute button. Arriving does not clear the
  snapshot; a second tap on Navigate replaces a running session; a loop may be
  finished as soon as three quarters of it are behind the rider and the end is near.
- Undoing a load lowers the undo depth, so a binding made after it is dropped by the
  next undo; a reload that trims the history unbinds early. Redoing past a load after
  a save lets the next save overwrite another LocalRoute.

## 9. What is proved

All proofs are for every value of the constants that satisfies the named
assumptions (`PlanGrantsAssumption`, `RouteClaimsAssumption`,
`RoutePathAssumption`, `DraftBindingAssumption`, `AccountLifeAssumption`,
`EngineAssumption`, `NavigationAssumption`): any set of Users, handlers, tabs, Routes,
paths, cues, fixes, any lengths, caps and bounds. Two more say that a marker is not
a value it stands beside: `NoRejoinAssumption` and `NoneAssumption`. TLC evaluates
all of them in the runs.

**PlanGrantsProofs.**

- `TypeCorrect` : `Spec => []TypeOK`.
- `ReadsStayCurrentAlways`. Inductive on top of `TypeOK`: only the holder of a
  User's lock writes that User's rows, and every path that releases the lock ends
  the request. Hard deletion takes the row itself, so it needs the lock free.
- `ProNeverOutruns`. `Latest(grant[u]) <= clock + given[u]` is not inductive alone:
  an extension writes `Later(latest, from) + length`, and this is bounded only
  because `latest` is still the end of Pro (`ReadsStayCurrent`) and `from` is not
  in the future (`RequestsCarryTheirCause`, a lemma that says so of every request). The
  conjunction of the four is the inductive invariant. A row-by-row lemma bounds the maximum over the sources.
- `RevokeEndsProAlways`. Every source's row is revoked by the commit and the label
  is written in the same transaction; the lemma is that no row `RevokeGrants`
  leaves can run.
- `OgPassOnceAlways`. The count of passes given needs `OgMarked`: whoever was given
  one has a row for it, revoked or not. Nothing deletes rows except hard deletion,
  after which nobody signs in to that account.
- `OnlyAuditedStepsCutProAlways`. An extension writes an end computed from the
  `latest` it read, so it could cut Pro only if that were out of date; and it skips
  the permanent case by a read of its own, which `PermanenceIsCurrent` keeps true
  until the commit.
- `LabelAgreesAlways`. The two classifications agree on every combination of rows,
  reached or not.
- `PaidTimeImplemented` : `Spec => Paid!Spec`. Init maps to Init; each action maps
  to `Credit`, to an end of Pro or to a stutter. `ApplyEvent` is the interesting
  step: the credit lies a pass beyond what was held because the billing row's end
  is at most the `latest` read under the lock.

**RouteClaimsProofs.** The base is `Shape`: `TypeOK`, finitely many rows, and no
claim between two LocalRoutes without one to send (`ClaimsHaveWork`, which gives
`Oldest` a value). Two lemmas say once and for all what a step can do to the rows
and locks (`RowsChange`) and to a request (`RequestStep`).

- `TypeCorrect` : `Spec => []TypeOK`.
- `NeverDuplicates`. Inductive by itself: an insert checks the key over deleted rows
  too, and a delete or restore replaces a row by one with the same key.
- `CapAlwaysHolds`. The cap alone is not inductive: an insert comes after its count.
  `CountedInFits` says of each save between the two that it alone holds its User's
  lock and that one more row still fits. Another count cannot get past the lock,
  an unlimited save or a restore adds no row that counts, a delete only takes away.
- `NothingIsLost`. `OkIsHeld`: a request answered with a Route has a row for its
  clientRef, and keeps it because rows are only soft-deleted. `SavesHaveContent`
  keeps the late write of a save apart from a removal.
- `AnswersMatch`. Per tab, `AwaitsItsOwn`: its one waiting request is about the
  oldest pending LocalRoute, and a claim that does not wait has none. Giving up a
  request always detaches it from its tab in the same step.

**RoutePathProofs, on RoutePatchProofs and RouteLineProofs.** The inductive invariant
is `PathInv`: `StoreInv`, `EditsInv`, `RoutesInv`, `CountsInv`,
`StalePathIsBeingRouted` and `TurnInv`.

- `HistoryStaysBounded`. `undo` and `redo` keep `Len(past) + Len(future)`, a
  snapshot clears the future and trims the past. That needs the stacks to be
  sequences of waypoint lists, which in turn needs every edit to leave a list of
  places: `StoreInv`.
- `RollbacksAreExact`. `EditsInv` says what each awaited edit remembers: the added
  place is the last of `next`, and a move's `prev.waypoints` is `next` with the old
  coordinate put back. The guard `InputsMatch` (nothing else changed the waypoints
  meanwhile) then makes the rollback exact, although the code removes "the last"
  and writes "at the index" after an await.
- `TypeCorrect` : `Spec => []TypeOK`. That `path` stays a list of places is a fact about
  what trim and splice compute. `RoutesInv`: an awaited computation is for two waypoints
  or more, and a segment's old path runs through its old waypoints, so that the anchors
  its slices are cut at are there.
- `StalePathAlwaysRouted`. Plan by plan: a trimmed path, an answer and a kept path run
  through the new waypoints, a plan that routes leaves an edit awaiting for them as they
  are, and what is discarded was for others. `Place` patches from the state before its
  road check, whatever came since. If the waypoints are those of then, its click is an
  append and routed wherever it lies; a plan that routes nothing is possible only on a
  draft changed meanwhile, which sets `lost` (`PlaceRoutes`).
- `AppendedWaypointIsRouted`. The forward walk `Seen` has used up the old list when it comes
  to an appended place, so `isPureOnPathInsertion` finds it in the last slot and refuses,
  and what is longer than the old list is not the same. It says of the plan what the comment at `RouteCalculationService.ts:295-298` says.
- `NoDetourInTurn`. The property speaks of settled drafts only. `TurnInv` says what holds
  on the way: at most one edit is awaited, it knows the draft as it is, a segment's old
  path makes no detour, and while only a road check is awaited the path there is makes
  none. No detour is `Fitted`: the walk along the path finds the waypoints, and between
  two of its anchors the path never turns.

`RouteLineProofs` proves the walk and the engine's line: `Anchors` finds the earliest
embedding, `Route` of a list is fitted to it (`RouteFits`), a fitted line stays on its
waypoints' own route (`FittedIsCovered`). `RoutePatchProofs` proves what each short cut
of `patchRoute` makes of a fitted path, and these are theorems of their own: the trim of
a restore (`RestoredFits`), the spliced segment (`SpliceFits`), the kept path (`InsertOne`,
`KeepFits`). The subtle part is that cutting and inserting moves anchors: the forward walk
may meet a waypoint sooner on the new line than on the old one. `Fitting` settles it:
if a line never turns between the places of some embedding, it never does between
those of the walk's. All of them assume only that the places have no holes (`Unbroken`), which
`RoutePathAssumption` states of `Places`: the line is the model's geometry, section 10.

The library's induction theorems take an operator, which the provers cannot instantiate,
so `RouteLineProofs` derives induction over a set of naturals (`UpTo`, `DownTo`) from their
well-foundedness. The recursive functions `Route`, `Anchors` and `Seen` are
unfolded by that.

**DraftBindingProofs.**

- `TypeCorrect` : `Spec => []TypeOK`, with the cap of the two stacks together.
- `HistoryIsTheDrafts`. The property says nothing while the draft is empty, so an undo
  onto an emptied draft would lose it. The invariant is `HistoryInv`: above `depth`
  every run of non-empty snapshots is of one work, whatever the draft is now
  (`RunsAgree`), and the topmost one is the draft's (`TopIsOwn`).
- `UndoKeepsTheBinding`. `KeptFits`: `depth + kept <= Len(past)` unless a reload trimmed
  the history. The snapshots since the draft was bound lie above the load, at the cap
  too, where each new snapshot shifts `depth` and drops one from below.
- `BindingIsLostOnlyLate`, `ModeIsLostOnlyLate` : action by action, on top of
  `TypeOK` and `HistoryInv`, which tells what an undo brings back: above the last load
  only the draft's own work. The mode needs two more facts, `ModeInv`: no Route has a number
  that is still to be given (`RoutesCounted`), so a claim or a POST never writes the Route
  that is edited; and a draft that a claim is to turn into its Route held what the
  LocalRoute did when that was decided (`OwnIsSaved`).

**AccountLifeProofs.**

- `TypeCorrect` : `Spec => []TypeOK`.
- `PendingDeletionIsDated`. Inductive on top of the shapes (`AInv`): status and date are
  separate columns, each written only where it differs from what the request loaded,
  and the proof goes through what every pair of writers can leave of the two.
- `DeletionLeavesNoOldSession`. `OldSessionsEnd`: between its flush and its revocation,
  each session that was live at the flush is among those the request has read, or no
  longer live. Revoked is for ever.
- `RoutesKeepInStep`. While one deletion or restore runs alone, the rows are between two
  states: `Phase` says for each statement which half is done; `FollowInv` is the
  property with these phases, and `RequestsStaged` that a request is at a statement of
  its own operation.
- `DerivedColumnsFollow`. Inductive on top of `RecordInv` (`JobsFormed`: a derivation
  has its Route, and the geometry it asked about); the proof follows each column
  through a flush of a row loaded earlier. It was this proof that showed
  that two geometries are too few for TLC to see the overlapping updates of section 8;
  the run has had three since.

**NavigationProofs.**

- `TypeCorrect` : `Spec => []TypeOK`, over any paths: a projection lands on a segment
  of the path.
- `SnapshotIsCurrent`, `EndedIsGone`, `EndedIsFinal`. `Sound` and `Sessions`: the engine
  in the store and the one on disk keep to their paths. `UsedOnce`: a session that is
  still to start is neither the running one, nor the one on disk, nor one the rider has
  ended.
- `CuesAreInOrder`. The order alone is not inductive. `Told`: what was heard is of cues
  up to the next one and up to `prepared`, or `announced` for "now"; the next cue
  never moves back.
- `ReroutesAfterDwell`. `Astray`: the time the engine counts its dwell from is the time
  of a fix in `stray`, on the path and on the connector, through resume as well.

**Only model-checked.** Liveness (`EveryPaymentSettles`, `EveryLocalRouteIsClaimed`,
`ExpiredDeletionsAreCarriedOut`) is beyond the prover. Every invariant and every other
action property of the passing runs is a theorem.

## 10. Abstractions

- *Every bounded model may stop* when its budgets are used up, so deadlock
  checking is off; the program itself stops only when nobody uses it.
- *PlanGrants.* A length is a number of days; three calendar months and a
  pass of 365 days are two constants. Feature rows (no code writes them) and the
  lookup of prices are left out. An account is hard-deleted only while pending.
- *RouteClaims.* A Route is its content number. Hydrating and listing are atomic.
  `capped` on a row is history. A direct save stands for the web, the CLI and
  saving a shared Route alike.
- *RoutePath.* A place is within the anchor tolerance of itself only; drafts are
  drawn by hand or loaded with the path such a draft was saved with (no densified
  loads, and the path of `Load` is the engine's own for those waypoints); coordinates are not snapped by the answer;
  the engine is online (no straight-line routes); distances and elevation,
  which no decision reads, are left out. A reload can leave the old path in
  place: nothing recomputes it, and the properties excuse it through `lost`.
- *DraftBinding.* The confirm dialogs before a load replaces a draft, the name and
  baseline the mode carries and a second tab on the same localStorage are left out. A
  reload loses at most the history: the store that fits the quota in no form
  (`routing.ts:255`), which leaves an older snapshot on disk, is not modelled. The order
  in which a claim takes LocalRoutes, and one account after another, are in `RouteClaims`.
- *AccountLife.* One account; the rolling expiry of a session is a session that may end
  at any time; a second pod's cron would repeat the same deletes. Personal access
  tokens, e-mail tokens and passwords are left out.
- *Navigation.* Remaining distance, ETA, bearing, mute, follow and the voice are displays.
  `end` of the store is never called. Readings come in time order except for the location
  service's repeats: it stamps each as it arrives, and drops those that come less than
  `updateInterval` after the last one or nearer to it than `distanceFilter`
  (`LocationService.ts`), which only thins them out.

## 11. Not modelled

The map covers a small share of the repository, and most of the rest has nothing a
state machine would add to: screens and map rendering, locale catalogues, landing and
documentation sites, DTOs and migrations, the CLI. Of the parts with logic of their own:

- *Route generation, routing, cue and place proxies, external routes* are stateless or
  offline computations over floating-point geometry.
- *Weekly digest, share e-mails, sign-up tokens.* Each reads, awaits a mail and stamps, in
  three lines; what can go wrong is written down as hazards in `PROJECT.json`, each with
  the line and what protects it. Scheduled digest runs are kept apart by the chart's
  `concurrencyPolicy`.
- *Cache, quotas, throttling.* Counters that fail open by design; the quota's key names the
  day, so that a lost expiry does not carry over.
- *Collections, follows, preferences.* Rows written whole, the last one wins.
- *Route visibility and publication*, listings and the batch backfills.
- *In the modelled parts:* densified drafts and snapping in the editor, calendar months in
  the length of a grant, Stripe's delayed payments, lockout and password reset.

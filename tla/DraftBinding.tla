----------------------------- MODULE DraftBinding -----------------------------
(***************************************************************************)
(* What a save of the RouteDraft overwrites (ADR 0017, ADR 0039).  A draft *)
(* in mode editing(routeId) is PATCHed onto that Route; an unsaved one is  *)
(* saved on the device, over the LocalRoute it is bound to, or becomes a   *)
(* new Route.  Mode and binding live beside the waypoints: the undo        *)
(* history holds waypoints only, and localRoutesStore follows the history  *)
(* by a depth, loadedAtUndoDepth, to notice that an undo went past a load. *)
(*                                                                         *)
(* Waypoints are abstracted to the work they belong to: editing stays in a *)
(* work, drawing on an empty draft or importing begins one.  Saves, opens  *)
(* and links land later, on whatever the draft is by then.                 *)
(***************************************************************************)
EXTENDS Integers, Sequences, FiniteSets

CONSTANTS
  MaxDepth,     \* DEFAULT_MAX_DEPTH
  SavedRoutes,  \* Routes in the account at the start
  MaxRoutes,    \* bound on the Routes ever in the account
  MaxLocals,    \* bound on the LocalRoutes ever on the device
  MaxWorks,     \* bound on the works ever begun
  MaxReloads,   \* bound on the reloads
  MaxSwitches,  \* bound on the sign-ins and sign-outs
  MaxInFlight   \* bound on the saves, opens and claims in flight at once

ASSUME DraftBindingAssumption ==
  /\ MaxDepth \in Nat \ {0, 1}
  /\ SavedRoutes \in Nat /\ MaxRoutes \in Nat /\ SavedRoutes <= MaxRoutes
  /\ MaxLocals \in Nat /\ MaxWorks \in Nat /\ SavedRoutes <= MaxWorks
  /\ MaxReloads \in Nat /\ MaxSwitches \in Nat /\ MaxInFlight \in Nat

RouteIds == 1 .. MaxRoutes
LocalIds == 1 .. MaxLocals
Works == 1 .. MaxWorks
None == 0             \* no waypoints, no Route, not bound, mode unsaved

Drafts == Works \cup {None}
Links == {"ref", "payload", "external"}

VARIABLES
  \* routingStore, persisted
  draft,     \* the work of the waypoints
  mode,      \* the Route that is edited, None for unsaved
  past,      \* history.past
  future,    \* history.future
  \* localRoutesStore
  bound,     \* boundLocalId, persisted
  depth,     \* loadedAtUndoDepth, persisted
  local,     \* [LocalIds -> the work a LocalRoute holds]
  \* the account
  server,    \* [RouteIds -> the work a Route holds]
  signedIn,
  \* in flight
  requests,  \* PATCH and POST /routes
  saving,    \* a save awaiting IndexedDB
  opening,   \* LocalRoutes awaiting the routing of their waypoints
  link,      \* booted, and what the address bar asks for, if anything, not loaded
  \* claimLocalRoutes
  pending,   \* [LocalIds -> what is still to be sent, as read at the start]
  claim,     \* the LocalRoute whose delete is awaited after its answer
  refs,      \* [LocalIds -> the Route the account made of it]
  checked,   \* useRouteDraftRehydration has run
  \* history and bounds
  redone,    \* a redo went into another work since the last load
  trimmed,   \* the undo history was dropped since the last load
  kept,      \* snapshots on top of `past` taken since the draft was bound
  works, routes, locals, reloads, switches

bind == <<bound, depth, kept>>
stacks == <<past, future>>
claims == <<pending, claim, refs>>
flight == <<requests, saving, opening, link, pending, claim, refs>>
counts == <<works, routes, locals, reloads, switches>>
vars == <<draft, mode, stacks, bind, local, server, signedIn, flight, checked,
          redone, trimmed, counts>>

Request == [route: RouteIds \cup {None}, work: Works]
NotSaving == [id |-> None, work |-> None]
Saving == [id: LocalIds, work: Works] \cup {NotSaving}
NotClaimed == [id |-> None, route |-> None, own |-> None, saved |-> None]
\* `own` is the work of the draft that is this LocalRoute, None when it is not;
\* `saved` what the LocalRoute held then.
Claim == [id: LocalIds, route: RouteIds, own: Drafts, saved: Drafts] \cup {NotClaimed}
NothingPending == [l \in LocalIds |-> None]

InFlight ==
  Cardinality(requests) + Cardinality(opening) + (IF saving = NotSaving THEN 0 ELSE 1)
    + (IF pending = NothingPending THEN 0 ELSE 1)

Init ==
  /\ draft = None /\ mode = None /\ past = <<>> /\ future = <<>>
  /\ bound = None /\ depth = 0 /\ local = [l \in LocalIds |-> None]
  /\ server = [r \in RouteIds |-> IF r <= SavedRoutes THEN r ELSE None]
  /\ signedIn \in BOOLEAN
  /\ requests = {} /\ saving = NotSaving /\ opening = {} /\ link = FALSE
  /\ pending = NothingPending /\ claim = NotClaimed
  /\ refs = [l \in LocalIds |-> None]
  /\ checked = TRUE /\ redone = FALSE /\ trimmed = FALSE /\ kept = 0
  /\ works = SavedRoutes /\ routes = SavedRoutes /\ locals = 0 /\ reloads = 0
  /\ switches = 0

----------------------------------------------------------------------------
(* HistoryManager (packages/core/src/history).                             *)
Top(stack) == stack[Len(stack)]
Pop(stack) == SubSeq(stack, 1, Len(stack) - 1)

\* Mutant: the history has no cap.
RecordedUncapped == Append(past, draft)

\* recordSnapshot: at the cap the oldest snapshot is dropped.
AtCap == Len(past) = MaxDepth
Recorded == Append(IF AtCap THEN Tail(past) ELSE past, draft)

\* History: the number of snapshots since the draft was bound, when `taken`
\* are taken, or given back.
Keep(taken) ==
  kept' = IF bound' # bound \/ bound' = None THEN 0
          ELSE IF kept + taken < 0 THEN 0
          ELSE IF kept + taken > MaxDepth THEN MaxDepth ELSE kept + taken

\* The binding, unless the draft was cleared or is a Route now.
StillBound == IF (draft # None /\ draft' = None) \/ mode' # None THEN None ELSE bound

\* Mutant: the depth is not shifted when a snapshot is dropped.
SettleUnshifted(dropped, taken) ==
  /\ IF Len(past') < depth
     THEN bound' = None /\ depth' = Len(past')
     ELSE bound' = StillBound /\ depth' = depth
  /\ Keep(taken)

\* Mutant: an undo below the last load keeps the binding.
SettleAlwaysBound(dropped, taken) ==
  /\ depth' = IF dropped /\ depth > 0 THEN depth - 1 ELSE depth
  /\ bound' = StillBound
  /\ Keep(taken)

\* What localRoutesStore's subscription makes of an update of the draft, its
\* history and mode; `dropped` tells that the oldest snapshot went.
Settle(dropped, taken) ==
  LET shifted == IF dropped /\ depth > 0 THEN depth - 1 ELSE depth
  IN /\ IF Len(past') < shifted
        THEN bound' = None /\ depth' = Len(past')
        ELSE bound' = StillBound /\ depth' = shifted
     /\ Keep(taken)

----------------------------------------------------------------------------
(* Edits (RouteDraftEditor, PlanPanel).                                    *)
Edited(work, next) ==
  /\ past' = Recorded /\ future' = <<>>
  /\ draft' = work /\ mode' = next
  /\ Settle(AtCap, 1)
  /\ UNCHANGED <<local, server, signedIn, flight, checked, redone, trimmed, routes, locals, reloads, switches>>

\* The work of the Route that is edited, None when there is none.
RouteWork == IF mode = None THEN None ELSE server[mode]

\* The first waypoint: of the Route that is edited, or of a new work.
Draw ==
  /\ draft = None
  /\ \/ RouteWork # None /\ Edited(RouteWork, mode) /\ UNCHANGED works
     \/ /\ RouteWork = None /\ works < MaxWorks
        /\ works' = works + 1 /\ Edited(works + 1, mode)

Edit == draft # None /\ Edited(draft, mode) /\ UNCHANGED works

\* The last waypoint is removed: the mode stays.
RemoveLast == draft # None /\ Edited(None, mode) /\ UNCHANGED works

\* handleClear, and reset: clearWaypoints leaves the mode, too.
Clear == Edited(None, None) /\ UNCHANGED works

\* handleUnload.
Unload ==
  /\ mode # None /\ mode' = None
  /\ UNCHANGED <<draft, stacks>> /\ Settle(FALSE, 0)
  /\ UNCHANGED <<local, server, signedIn, flight, checked, redone, trimmed, counts>>

Undo ==
  /\ past # <<>>
  /\ draft' = Top(past) /\ past' = Pop(past) /\ future' = Append(future, draft)
  /\ UNCHANGED mode /\ Settle(FALSE, -1)
  /\ UNCHANGED <<local, server, signedIn, flight, checked, redone, trimmed, counts>>

Redo ==
  /\ future # <<>>
  /\ draft' = Top(future) /\ future' = Pop(future) /\ past' = Append(past, draft)
  /\ redone' = (redone \/ (draft # None /\ draft' # None /\ draft' # draft))
  /\ UNCHANGED mode /\ Settle(FALSE, 1)
  /\ UNCHANGED <<local, server, signedIn, flight, checked, trimmed, counts>>

\* Any other update of the routing store: a path, metrics, an activity.
Touch ==
  /\ UNCHANGED <<draft, mode, stacks>> /\ Settle(FALSE, 0)
  /\ UNCHANGED <<local, server, signedIn, flight, checked, redone, trimmed, counts>>

----------------------------------------------------------------------------
(* Loads (RouteDraftEditor.loadWaypoints and its callers).                 *)

\* Mutant: a load leaves the undo depth alone.
LoadWithoutDepth(work, snapshot) ==
  /\ past' = IF snapshot THEN Recorded ELSE past
  /\ future' = IF snapshot THEN <<>> ELSE future
  /\ draft' = work /\ depth' = depth
  /\ redone' = FALSE /\ trimmed' = FALSE /\ kept' = 0
  /\ UNCHANGED <<local, server, signedIn, requests, saving, claims, routes, locals, reloads,
                 switches>>

\* The snapshot, draftReplaced, then the waypoints.
Load(work, snapshot) ==
  /\ past' = IF snapshot THEN Recorded ELSE past
  /\ future' = IF snapshot THEN <<>> ELSE future
  /\ draft' = work /\ depth' = Len(past')
  /\ redone' = FALSE /\ trimmed' = FALSE /\ kept' = 0
  /\ UNCHANGED <<local, server, signedIn, requests, saving, claims, routes, locals, reloads,
                 switches>>

NewWork == works < MaxWorks /\ works' = works + 1

\* loadFromApiRoute, from the library.
OpenRoute(r) ==
  /\ signedIn /\ server[r] # None
  /\ Load(server[r], TRUE) /\ bound' = None /\ mode' = r
  /\ UNCHANGED <<opening, link, checked, works>>

\* loadFromLocalRoute, signed in or not: bound once it is loaded, at once when its geometry is
\* stored and after the routing of its waypoints otherwise.
OpenLocal(l) ==
  /\ local[l] # None
  /\ Load(local[l], TRUE) /\ mode' = None
  /\ \/ bound' = l /\ UNCHANGED opening
     \/ InFlight < MaxInFlight /\ bound' = None /\ opening' = opening \cup {l}
  /\ UNCHANGED <<link, checked, works>>

\* onLoadLocalRoute's then: bind, when the routing succeeded.
FinishOpen(l) ==
  /\ l \in opening
  /\ opening' = opening \ {l}
  /\ bound' = l \/ UNCHANGED bound
  /\ Keep(0)
  /\ UNCHANGED <<draft, mode, stacks, depth, local, server, signedIn, requests, saving, link, claims,
                 checked, redone, trimmed, counts>>

\* loadFromGpx, and a load of bare waypoints: the mode stays.
Import ==
  /\ NewWork
  /\ Load(works', TRUE) /\ bound' = None /\ UNCHANGED mode
  /\ UNCHANGED <<opening, link, checked>>

\* loadFromShareLink and loadFromExternalRoute at boot: a legacy payload takes
\* no snapshot, only an ExternalRoute leaves the mode.
LinkArrives(kind) ==
  /\ link /\ link' = FALSE
  /\ NewWork
  /\ Load(works', kind # "payload") /\ bound' = None
  /\ mode' = IF kind = "external" THEN None ELSE mode
  /\ UNCHANGED <<opening, checked>>

----------------------------------------------------------------------------
(* Saves on the device (localRoutesStore.ts).                              *)

\* save, up to its await.
BeginSaveLocal ==
  LET existing == bound # None /\ local[bound] # None
      id == IF existing THEN bound ELSE locals + 1
  IN /\ ~signedIn /\ mode = None /\ draft # None /\ saving = NotSaving
     /\ InFlight < MaxInFlight /\ id \in LocalIds
     /\ locals' = IF existing THEN locals ELSE id
     /\ saving' = [id |-> id, work |-> draft]
     /\ UNCHANGED <<draft, mode, stacks, bind, local, server, signedIn, requests, opening, link,
                    claims, checked, redone, trimmed, works, routes, reloads, switches>>

\* The put is done: the draft is bound to it.
EndSaveLocal ==
  /\ saving # NotSaving /\ saving' = NotSaving
  /\ local' = [local EXCEPT ![saving.id] = saving.work]
  /\ bound' = saving.id /\ Keep(0)
  /\ UNCHANGED <<draft, mode, stacks, depth, server, signedIn, requests, opening, link, claims,
                 checked, redone, trimmed, counts>>

FailSaveLocal ==
  /\ saving # NotSaving /\ saving' = NotSaving
  /\ UNCHANGED <<draft, mode, stacks, bind, local, server, signedIn, requests, opening, link, claims,
                 checked, redone, trimmed, counts>>

\* remove, by hand.
RemoveLocal(l) ==
  /\ local[l] # None
  /\ local' = [local EXCEPT ![l] = None]
  /\ bound' = (IF bound = l THEN None ELSE bound) /\ Keep(0)
  /\ UNCHANGED <<draft, mode, stacks, depth, server, signedIn, flight, checked, redone,
                 trimmed, counts>>

----------------------------------------------------------------------------
(* Saves into the account (PlanPanel, SaveModal, applySavedRoute).         *)
Send(request) ==
  /\ draft # None /\ InFlight < MaxInFlight
  /\ requests' = requests \cup {request}
  /\ UNCHANGED <<draft, mode, stacks, bind, local, server, signedIn, saving, opening, link,
                 claims, checked, redone, trimmed, works, locals, reloads, switches>>

Posting == {q \in requests : q.route = None}

\* handleSaveClick in editing mode: one PATCH at a time.
Patch ==
  /\ mode # None /\ requests \subseteq Posting
  /\ Send([route |-> mode, work |-> draft])
  /\ UNCHANGED routes

\* handleSave of the modal, and handleDuplicate.
Post ==
  /\ signedIn /\ Posting = {}
  /\ Send([route |-> None, work |-> draft])
  /\ UNCHANGED routes

\* The server's part: a Route of the account is written, or a new one made.
Written(q, r) ==
  /\ signedIn
  /\ \/ r = q.route /\ server[r] # None /\ UNCHANGED routes
     \/ q.route = None /\ r = routes + 1 /\ routes' = r
  /\ server' = [server EXCEPT ![r] = q.work]

\* onSuccess: applySavedRoute binds what the draft is by now.
Answered(q, r) ==
  /\ Written(q, r)
  /\ requests' = requests \ {q}
  /\ mode' = r
  /\ UNCHANGED <<draft, stacks>> /\ Settle(FALSE, 0)
  /\ UNCHANGED <<local, signedIn, saving, opening, link, claims, checked, redone, trimmed,
                 works, locals, reloads, switches>>

\* The request is refused or lost, or only its answer is.
Unanswered(q) ==
  /\ requests' = requests \ {q}
  /\ \/ UNCHANGED <<server, routes>>
     \/ \E r \in RouteIds : Written(q, r)
  /\ UNCHANGED <<draft, mode, stacks, bind, local, signedIn, saving, opening, link, claims,
                 checked, redone, trimmed, works, locals, reloads, switches>>

\* useDeleteRoute's onSuccess; on another device, the draft keeps its mode.
DeleteRoute(r) ==
  /\ server[r] # None
  /\ server' = [server EXCEPT ![r] = None]
  /\ UNCHANGED <<draft, stacks>>
  /\ \/ signedIn /\ mode' = (IF mode = r THEN None ELSE mode) /\ Settle(FALSE, 0)
     \/ UNCHANGED <<mode, bind>>
  /\ UNCHANGED <<local, signedIn, flight, checked, redone, trimmed, counts>>

\* Signing in starts a claim, unless one still runs.
SignInOrOut ==
  /\ switches < MaxSwitches /\ switches' = switches + 1
  /\ signedIn' = ~signedIn
  /\ pending' = IF signedIn' /\ pending = NothingPending THEN local ELSE pending
  /\ UNCHANGED <<draft, mode, stacks, bind, local, server, requests, saving, opening, link,
                 claim, refs, checked, redone, trimmed, works, routes, locals, reloads>>

----------------------------------------------------------------------------
(* The claim of the LocalRoutes (claimLocalRoutes.ts), one after the other.  *)

\* The server's part: a Route per LocalRoute, or the one there is already.
ClaimWritten(l, r) ==
  /\ signedIn /\ claim = NotClaimed /\ pending[l] # None
  /\ \/ /\ refs[l] = None /\ r = routes + 1
        /\ routes' = r /\ refs' = [refs EXCEPT ![l] = r]
        /\ server' = [server EXCEPT ![r] = pending[l]]
     \/ refs[l] = r /\ server[r] # None /\ UNCHANGED <<routes, refs, server>>

\* Mutant: a draft bound to the LocalRoute counts as it, whatever it holds.
ClaimAnsweredByBinding(l, r) ==
  /\ ClaimWritten(l, r)
  /\ \E own \in {None} \cup (IF bound = l THEN {draft} ELSE {}) :
       claim' = [id |-> l, route |-> r, own |-> own, saved |-> local[l]]
  /\ UNCHANGED <<draft, mode, stacks, bind, local, signedIn, requests, saving, opening, link,
                 pending, checked, redone, trimmed, works, locals, reloads, switches>>

\* The answer: draftIsThisRoute is decided, the delete awaited. A draft edited
\* since its save is of the same work and not saved.
ClaimAnswered(l, r) ==
  /\ ClaimWritten(l, r)
  /\ \E own \in {None} \cup (IF bound = l /\ local[l] = draft THEN {draft} ELSE {}) :
       claim' = [id |-> l, route |-> r, own |-> own, saved |-> local[l]]
  /\ UNCHANGED <<draft, mode, stacks, bind, local, signedIn, requests, saving, opening, link,
                 pending, checked, redone, trimmed, works, locals, reloads, switches>>

\* The LocalRoute is gone, and the draft becomes the Route if it was decided so.
EndClaim ==
  /\ claim # NotClaimed /\ claim' = NotClaimed
  /\ local' = [local EXCEPT ![claim.id] = None]
  /\ pending' = [pending EXCEPT ![claim.id] = None]
  /\ UNCHANGED <<draft, stacks>>
  /\ \/ claim.own # None /\ mode' = claim.route /\ Settle(FALSE, 0)
     \/ /\ claim.own = None /\ UNCHANGED <<mode, depth>>
        /\ bound' = (IF bound = claim.id THEN None ELSE bound) /\ Keep(0)
  /\ UNCHANGED <<server, signedIn, requests, saving, opening, link, refs, checked, redone,
                 trimmed, counts>>

\* A request is refused or lost, or only its answer is, or the delete fails: the
\* rest waits for the next sign-in.
FailClaim ==
  /\ pending # NothingPending /\ pending' = NothingPending /\ claim' = NotClaimed
  /\ \/ UNCHANGED <<routes, refs, server>>
     \/ \E l \in LocalIds, r \in RouteIds : ClaimWritten(l, r)
  /\ UNCHANGED <<draft, mode, stacks, bind, local, signedIn, requests, saving, opening, link,
                 checked, redone, trimmed, works, locals, reloads, switches>>

----------------------------------------------------------------------------
(* Boot.                                                                   *)

\* useRouteDraftRehydration, once per boot: the list of Routes has come, or
\* nobody is signed in.
CheckDraft ==
  /\ ~checked /\ checked' = TRUE
  /\ mode' = IF signedIn /\ RouteWork # None THEN mode ELSE None
  /\ UNCHANGED <<draft, stacks>> /\ Settle(FALSE, 0)
  /\ UNCHANGED <<local, server, signedIn, flight, redone, trimmed, counts>>

\* A reload: both stores come back from localStorage, the routing store
\* without its history when it had outgrown the quota. What was in flight, a
\* delete on the device too, may still have been done; a session resumed claims
\* what the device holds.
Reload ==
  /\ reloads < MaxReloads /\ reloads' = reloads + 1
  /\ \/ UNCHANGED <<stacks, trimmed>>
     \/ past' = <<>> /\ future' = <<>> /\ trimmed' = TRUE
  /\ \/ UNCHANGED <<server, routes, refs>>
     \/ \E q \in requests, r \in RouteIds : Written(q, r) /\ UNCHANGED refs
     \/ \E l \in LocalIds, r \in RouteIds : ClaimWritten(l, r)
  /\ \/ UNCHANGED local
     \/ saving # NotSaving /\ local' = [local EXCEPT ![saving.id] = saving.work]
     \/ \E l \in LocalIds : local' = [local EXCEPT ![l] = None]
  /\ requests' = {} /\ saving' = NotSaving /\ opening' = {} /\ claim' = NotClaimed
  /\ pending' = IF signedIn THEN local' ELSE NothingPending
  /\ checked' = (mode = None)
  /\ link' = TRUE
  /\ UNCHANGED <<draft, mode, bind, signedIn, redone, works, locals, switches>>

Next ==
  \/ Draw \/ Edit \/ RemoveLast \/ Clear \/ Unload \/ Undo \/ Redo \/ Touch
  \/ \E r \in RouteIds : OpenRoute(r) \/ DeleteRoute(r)
  \/ \E l \in LocalIds : OpenLocal(l) \/ FinishOpen(l) \/ RemoveLocal(l)
  \/ Import \/ \E kind \in Links : LinkArrives(kind)
  \/ BeginSaveLocal \/ EndSaveLocal \/ FailSaveLocal
  \/ Patch \/ Post
  \/ \E q \in requests : Unanswered(q) \/ \E r \in RouteIds : Answered(q, r)
  \/ \E l \in LocalIds, r \in RouteIds : ClaimAnswered(l, r)
  \/ EndClaim \/ FailClaim \/ SignInOrOut \/ CheckDraft \/ Reload

Spec == Init /\ [][Next]_vars

----------------------------------------------------------------------------
(* Properties.                                                             *)

\* Every variable stays in its range; the history stays under its cap.
TypeOK ==
  /\ draft \in Drafts /\ mode \in RouteIds \cup {None}
  /\ past \in Seq(Drafts) /\ future \in Seq(Drafts)
  /\ Len(past) + Len(future) <= MaxDepth
  /\ bound \in LocalIds \cup {None} /\ depth \in 0 .. MaxDepth
  /\ local \in [LocalIds -> Drafts] /\ server \in [RouteIds -> Drafts]
  /\ signedIn \in BOOLEAN /\ checked \in BOOLEAN
  /\ requests \subseteq Request /\ saving \in Saving /\ opening \subseteq LocalIds
  /\ pending \in [LocalIds -> Drafts] /\ claim \in Claim
  /\ refs \in [LocalIds -> RouteIds \cup {None}]
  /\ link \in BOOLEAN /\ redone \in BOOLEAN /\ trimmed \in BOOLEAN /\ kept \in 0 .. MaxDepth
  /\ works \in 0 .. MaxWorks /\ routes \in 0 .. MaxRoutes /\ locals \in 0 .. MaxLocals
  /\ reloads \in 0 .. MaxReloads /\ switches \in 0 .. MaxSwitches

\* Above the last load, and above the last time the draft was empty, the undo
\* history holds the draft's own work: this is what makes the undo depth a
\* sound test, at the cap of the history and after a trimmed reload as well
\* (localRoutesStore.ts draftReplaced and its subscription).
HistoryAboveLoadIsOwn ==
  draft # None /\ ~redone =>
    \A i \in depth + 1 .. Len(past) :
      (\A j \in i .. Len(past) : past[j] # None) => past[i] = draft

\* "saving again updates it in place": the LocalRoute a save would overwrite
\* holds the draft's own work.
DraftIsItsLocalRoute ==
  bound # None => draft # None /\ (local[bound] # None => local[bound] = draft)

\* The binding to a LocalRoute goes wrong only through an answer that lands
\* on a draft replaced meanwhile, or a redo into another work.
BindingLostOnlyLate ==
  [][ DraftIsItsLocalRoute /\ ~DraftIsItsLocalRoute'
      => \/ EndSaveLocal \/ \E l \in LocalIds : FinishOpen(l)
         \/ Redo \/ (redone /\ Undo)
         \/ (Reload /\ saving # NotSaving) ]_vars

\* The Route a save would PATCH holds the draft's own work.
DraftIsItsRoute == draft # None /\ RouteWork # None => RouteWork = draft

\* The mode goes wrong only through the answer to a save or a claim that lands
\* on a draft replaced meanwhile, a claim of less than was saved on the device, an
\* undo or redo over a load, or a load that leaves the mode alone. An undo above
\* the last load keeps it right, and so does a claim of the draft as it is saved.
ModeLostOnlyLate ==
  [][ DraftIsItsRoute /\ ~DraftIsItsRoute'
      => \/ \E q \in requests :
              q.work # draft /\ (Unanswered(q) \/ \E r \in RouteIds : Answered(q, r))
         \/ EndClaim /\ (claim.own # draft \/ claim.saved # server[claim.route])
         \/ Undo /\ (redone \/ draft = None \/ Len(past) <= depth)
         \/ Redo /\ (redone' \/ draft = None)
         \/ Import \/ LinkArrives("ref") \/ LinkArrives("payload")
         \/ (Reload /\ \E q \in requests : q.work # draft) ]_vars

\* Undoing an edit made since the draft was bound to a LocalRoute keeps it
\* bound, also when the load itself has fallen off the capped history.
UndoOfAnEditKeepsTheBinding ==
  [][ Undo /\ kept > 0 /\ draft' # None /\ mode = None /\ ~trimmed => bound' = bound ]_vars

\* loadFromRouteRef: someone else's Route "loads unbound and saves as a new
\* route".
SharedRoutesLoadUnbound == [][ LinkArrives("ref") => mode' = None ]_vars
=============================================================================

----------------------------- MODULE Navigation -----------------------------
(***************************************************************************)
(* The host of the NavigationSession: the store with its resume snapshot   *)
(* (navigationStore.ts), the controller that feeds it fixes and asks for   *)
(* Rejoins (useNavigationController.ts), and the ways a session starts.    *)
(*                                                                         *)
(* Cues are fetched before a session starts and a Rejoin is computed while *)
(* it runs; both answer later, to whatever the store holds by then.  The   *)
(* location service repeats its last reading on every change of its state. *)
(* A reload or a swipe-kill loses everything but the snapshot.             *)
(***************************************************************************)
EXTENDS NavigationEngine, FiniteSets

CONSTANTS
  Interval,    \* SNAPSHOT_WRITE_INTERVAL_MS
  MaxTime,     \* bound on the clock
  MaxStarts,   \* bound on the taps on Navigate
  MaxReloads,  \* bound on the reloads
  MaxErrors,   \* bound on the snapshot writes that fail
  NoSession, NoReading

ASSUME NavigationAssumption ==
  /\ Interval \in Nat /\ MaxTime \in Nat /\ MaxStarts \in Nat
  /\ MaxReloads \in Nat /\ MaxErrors \in Nat

VARIABLES
  now,
  reading,    \* the location service's last position, or NoReading
  \* the store
  session,    \* `active`: [id, route, engine], or NoSession
  seen,       \* lastFix is set: it is the last reading
  lastWrite,  \* lastSnapshotWriteMs, Never for 0
  snapshot,   \* the resume snapshot in localStorage, or NoSession
  \* in flight
  starting,   \* sessions whose cues are being fetched
  requests,   \* Rejoins being computed
  \* history and bounds
  heard,      \* Cues spoken to this session, in order
  stray,      \* times of the fixes since the last one on what is followed
  finished,   \* sessions the rider ended
  failed,     \* the last snapshot write failed
  starts, reloads, errors

counts == <<starts, reloads, errors>>
history == <<heard, stray, finished>>
disk == <<lastWrite, snapshot, failed>>
vars == <<now, reading, session, seen, disk, starting, requests, history, counts>>

Times == 0 .. MaxTime
Ids == 1 .. MaxStarts
Fix == [p: Points, at: Times]
Active == [id: Ids, route: Routes, engine: Session]
ASSUME NoneAssumption == NoSession \notin Active /\ NoReading \notin Fix

\* `own`: asked by the screen that is still mounted, whose ref it holds.
Request == [asked: Ids, from: Points, to: Grid, target: Nat, own: BOOLEAN]

Live == session # NoSession /\ session.engine.status # "ended"
rejoinInFlight == \E q \in requests : q.own

Init ==
  /\ now = 0 /\ reading = NoReading
  /\ session = NoSession /\ seen = FALSE /\ lastWrite = Never /\ snapshot = NoSession
  /\ starting = {} /\ requests = {}
  /\ heard = <<>> /\ stray = {} /\ finished = {} /\ failed = FALSE
  /\ starts = 0 /\ reloads = 0 /\ errors = 0

Tick ==
  /\ now < MaxTime
  /\ now' = now + 1
  /\ UNCHANGED <<reading, session, seen, disk, starting, requests, history, counts>>

----------------------------------------------------------------------------
(* navigationStore.ts.                                                     *)

\* writeSnapshot, the last write being at `last`: throttled, and best effort.
WriteSnapshot(active, last) ==
  \/ /\ last # Never /\ now - last < Interval
     /\ lastWrite' = last
     /\ UNCHANGED <<snapshot, failed, errors>>
  \/ /\ last = Never \/ now - last >= Interval
     /\ lastWrite' = now
     /\ \/ snapshot' = active /\ failed' = FALSE /\ UNCHANGED errors
        \/ errors < MaxErrors /\ errors' = errors + 1 /\ failed' = TRUE /\ UNCHANGED snapshot

\* setEngine.
SetEngine(engine) ==
  LET next == [session EXCEPT !.engine = engine]
  IN session' = next /\ WriteSnapshot(next, lastWrite)

\* Mutant: the throttle of the session before still counts.
StartThrottled(active) ==
  /\ session' = active /\ seen' = FALSE
  /\ WriteSnapshot(active, lastWrite)

\* start: the first write is never throttled.
Start(active) ==
  /\ session' = active /\ seen' = FALSE
  /\ WriteSnapshot(active, Never)

\* Mutant: the last fix is kept for the next session.
DismissKeepingFix ==
  /\ session # NoSession
  /\ session' = NoSession /\ snapshot' = NoSession
  /\ requests' = {[q EXCEPT !.own = FALSE] : q \in requests}
  /\ finished' = finished \cup {session.id}
  /\ heard' = <<>> /\ stray' = {}
  /\ UNCHANGED <<now, reading, seen, lastWrite, failed, starting, counts>>

\* dismiss: the screen unmounts, its ref goes with it.
Dismiss ==
  /\ session # NoSession
  /\ session' = NoSession /\ seen' = FALSE /\ snapshot' = NoSession
  /\ requests' = {[q EXCEPT !.own = FALSE] : q \in requests}
  /\ finished' = finished \cup {session.id}
  /\ heard' = <<>> /\ stray' = {}
  /\ UNCHANGED <<now, reading, lastWrite, failed, starting, counts>>

----------------------------------------------------------------------------
(* useNavigationController.ts.                                             *)

\* requestRejoin: one at a time; another one is dropped.
RequestRejoin(asks, from) ==
  LET target == RejoinTarget(session.route, session.engine)
  IN requests' = IF ~asks \/ rejoinInFlight THEN requests
                 ELSE requests \cup {[asked |-> session.id, from |-> from,
                                      to |-> PathOf[session.route][target + 1],
                                      target |-> target, own |-> TRUE]}

\* History: is the fix on what the session follows?
OnTrack(fix) ==
  \E m \in Projections[session.route][fix.p][session.engine.segment] :
    IF session.engine.status = "rejoining"
    THEN m.off <= OnRoute \/ OnConnector(session.engine.rejoin, fix.p)
    ELSE m.off <= OffRoute

\* onLocationUpdate: every update of the service advances a live session.
OnLocationUpdate(fix) ==
  \E reach \in Reaches : \E out \in AdvanceNavigation(session.route, session.engine, fix, reach) :
    /\ seen' = TRUE
    /\ IF session.engine.status = "offRoute" /\ out.session = session.engine
       THEN UNCHANGED <<session, disk, errors>>     \* the same object
       ELSE SetEngine(out.session)
    /\ RequestRejoin(out.asks, fix.p)
    /\ heard' = IF out.says = {} THEN heard ELSE Append(heard, CHOOSE s \in out.says : TRUE)
    /\ stray' = IF OnTrack(fix) THEN {} ELSE stray \cup {fix.at}
    /\ UNCHANGED <<starting, finished, starts, reloads>>

Locate(p) ==
  LET fix == [p |-> p, at |-> now]
  IN /\ reading' = fix
     /\ IF Live THEN OnLocationUpdate(fix)
        ELSE UNCHANGED <<session, seen, disk, starting, requests, history, counts>>
     /\ UNCHANGED now

\* An error, or tracking that starts, repeats the last reading.
Relocate ==
  /\ Live /\ reading # NoReading
  /\ OnLocationUpdate(reading)
  /\ UNCHANGED <<now, reading>>

\* requestRejoin, the reroute button.
Reroute ==
  /\ Live /\ seen
  /\ LET out == ForceRejoin(session.engine, reading)
     IN SetEngine(out.session) /\ RequestRejoin(out.asks, reading.p)
  /\ stray' = {}
  /\ UNCHANGED <<now, reading, seen, starting, heard, finished, starts, reloads>>

\* Mutant: a Rejoin goes to the session held when it was asked for.
RejoinedIntoHeld(q) ==
  /\ requests' = requests \ {q}
  /\ IF session # NoSession
     THEN /\ SetEngine(ApplyRejoin([session.engine EXCEPT !.status = "offRoute"], q.from, q.to, q.target))
          /\ stray' = {}
     ELSE UNCHANGED <<session, disk, errors, stray>>
  /\ UNCHANGED <<now, reading, seen, starting, heard, finished, starts, reloads>>

\* Mutant: it is saved for that session, whatever runs now.
RejoinedIntoSnapshot(q) ==
  /\ requests' = requests \ {q}
  /\ IF Live
     THEN /\ SetEngine(ApplyRejoin(session.engine, q.from, q.to, q.target))
          /\ stray' = {}
     ELSE /\ snapshot' = [id |-> q.asked, route |-> CHOOSE r \in Routes : TRUE,
                          engine |-> ApplyRejoin(Started, q.from, q.to, q.target)]
          /\ UNCHANGED <<session, lastWrite, failed, errors, stray>>
  /\ UNCHANGED <<now, reading, seen, starting, heard, finished, starts, reloads>>

\* A Rejoin is there: it goes to the session the store holds now.
Rejoined(q) ==
  /\ requests' = requests \ {q}
  /\ IF Live
     THEN /\ SetEngine(ApplyRejoin(session.engine, q.from, q.to, q.target))
          /\ stray' = {}
     ELSE UNCHANGED <<session, disk, errors, stray>>
  /\ UNCHANGED <<now, reading, seen, starting, heard, finished, starts, reloads>>

\* Offline, refused or failed: the session stays off route.
NotRejoined(q) ==
  /\ requests' = requests \ {q}
  /\ UNCHANGED <<now, reading, session, seen, disk, starting, history, counts>>

----------------------------------------------------------------------------
(* startNavigation.ts and ResumeNavBanner.tsx.                             *)
Navigate(r) ==
  /\ session = NoSession /\ starts < MaxStarts
  /\ starting' = starting \cup {[id |-> starts + 1, route |-> r]}
  /\ starts' = starts + 1
  /\ UNCHANGED <<now, reading, session, seen, disk, requests, history, reloads, errors>>

\* The cues are there: the session starts, over one that runs as well.
CuesArrive(s) ==
  /\ starting' = starting \ {s}
  /\ Start([id |-> s.id, route |-> s.route, engine |-> Started])
  /\ heard' = <<>> /\ stray' = {}
  /\ UNCHANGED <<now, reading, requests, finished, starts, reloads>>

\* No cues, no session: offline, or the Plan does not unlock navigation.
CuesFail(s) ==
  /\ starting' = starting \ {s}
  /\ UNCHANGED <<now, reading, session, seen, disk, requests, history, counts>>

\* The banner shows what loadNavigationSnapshot finds when no session runs.
Resumable == session = NoSession /\ snapshot # NoSession

\* History: the fix a session remembers to have gone astray at.
StrayOf(e) ==
  {t \in Times : IF e.status = "rejoining" THEN t = e.rejoin.since ELSE t = e.since}

\* resumeNavigation: where the session was when the snapshot was written, or
\* nowhere when the snapshot has grown too old meanwhile.
Resume ==
  /\ Resumable
  /\ \/ /\ Start(snapshot)
        /\ heard' = <<>> /\ stray' = StrayOf(snapshot.engine)
     \/ /\ snapshot' = NoSession
        /\ UNCHANGED <<session, seen, lastWrite, failed, errors, heard, stray>>
  /\ UNCHANGED <<now, reading, starting, requests, finished, starts, reloads>>

DismissResume ==
  /\ Resumable
  /\ snapshot' = NoSession
  /\ finished' = finished \cup {snapshot.id}
  /\ UNCHANGED <<now, reading, session, seen, lastWrite, failed, starting, requests,
                 heard, stray, counts>>

\* A reload or a swipe-kill, and what loadNavigationSnapshot makes of the
\* snapshot: one of an ended session, or one too old, is dropped.
Reload ==
  /\ reloads < MaxReloads
  /\ reloads' = reloads + 1
  /\ session' = NoSession /\ seen' = FALSE /\ reading' = NoReading /\ lastWrite' = Never
  /\ requests' = {} /\ starting' = {} /\ heard' = <<>> /\ stray' = {}
  /\ \/ snapshot' = NoSession
     \/ snapshot # NoSession /\ snapshot.engine.status # "ended" /\ UNCHANGED snapshot
  /\ UNCHANGED <<now, finished, failed, starts, errors>>

Next ==
  \/ Tick
  \/ \E p \in Points : Locate(p)
  \/ Relocate
  \/ Reroute
  \/ \E q \in requests : Rejoined(q) \/ NotRejoined(q)
  \/ \E r \in Routes : Navigate(r)
  \/ \E s \in starting : CuesArrive(s) \/ CuesFail(s)
  \/ Dismiss \/ Resume \/ DismissResume
  \/ Reload

Spec == Init /\ [][Next]_vars

----------------------------------------------------------------------------
Spoken == (Nat \ {0}) \X Stages

\* Every variable stays in its range.
TypeOK ==
  /\ now \in Times
  /\ reading \in Fix \cup {NoReading} /\ session \in Active \cup {NoSession} /\ seen \in BOOLEAN
  /\ lastWrite \in Times \cup {Never} /\ snapshot \in Active \cup {NoSession}
  /\ failed \in BOOLEAN
  /\ starting \subseteq [id: Ids, route: Routes] /\ requests \subseteq Request
  /\ heard \in Seq(Spoken) /\ stray \subseteq Times /\ finished \subseteq Ids
  /\ starts \in 0 .. MaxStarts /\ reloads \in 0 .. MaxReloads /\ errors \in 0 .. MaxErrors
  /\ session = NoSession => ~seen
  /\ seen => reading # NoReading

\* A session speaks every Cue at most twice, "prepare" before "now", and in
\* the order of the route, however the fixes jump: back along the route, over
\* a crossing, off the path and onto it again (engine.ts announceCues).
CuesHeardInRouteOrder ==
  \A i, j \in 1 .. Len(heard) :
    i < j => \/ heard[i][1] < heard[j][1]
             \/ heard[i][1] = heard[j][1] /\ heard[i][2] = "prepare" /\ heard[j][2] = "now"

\* The snapshot on disk is of the session that runs, not of one it replaced,
\* unless the last write failed (navigationStore.ts start, setEngine).
SnapshotIsOfThisSession ==
  session # NoSession /\ ~failed => snapshot # NoSession /\ snapshot.id = session.id

\* A session the rider has ended is never offered for resuming, whatever is
\* still in flight when it ends (navigationStore.ts dismiss, ResumeNavBanner).
EndedByRiderIsGone == snapshot # NoSession => snapshot.id \notin finished

\* Only fixes that stayed off what the session follows for the whole dwell
\* make it leave the route by itself (engine.ts advanceNavigation).
RerouteOnlyAfterDwell ==
  [][ \/ session = NoSession \/ session' = NoSession \/ session'.id # session.id
      \/ session.engine.status = "offRoute" \/ session'.engine.status # "offRoute"
      \/ Reroute
      \/ \E a, b \in stray' : b - a >= Dwell ]_vars

\* An ended session stays as it ended, until it is dismissed or another one
\* starts: no fix and no late Rejoin brings it back.
EndedStaysEnded ==
  [][ session # NoSession /\ session.engine.status = "ended"
      => \/ session' = session \/ session' = NoSession \/ session'.id # session.id ]_vars
=============================================================================

-------------------------- MODULE NavigationEngine --------------------------
(***************************************************************************)
(* The NavigationSession brain (ADR 0038, packages/core/src/navigation): a *)
(* pure reducer from a session and a position fix to the next session and  *)
(* what the host must do.  Geometry is a grid: a RoutePath is a sequence   *)
(* of grid points one unit apart, a fix is a grid point, and a distance    *)
(* from a path is kept squared.  The thresholds of NAV_DEFAULT_CONFIG are  *)
(* constants, in grid units.  A fix's speed only sets how far ahead a cue  *)
(* is announced, so it is given as those two reaches.                      *)
(***************************************************************************)
EXTENDS Integers, Sequences

CONSTANTS
  Routes,        \* the plans that may be navigated
  PathOf,        \* [Routes -> the RoutePath]
  CuesOf,        \* [Routes -> distanceAlong of each Cue, in order]
  Points,        \* where a fix may be
  Reaches,       \* [near, far]: nowMeters and prepareMeters at some speed
  OnRoute,       \* onRouteDistanceMeters, squared
  OffRoute,      \* offRouteDistanceMeters, squared
  Trust,         \* WINDOW_TRUST_METERS, squared
  Window,        \* PROJECTION_WINDOW_SEGMENTS
  Dwell,         \* offRouteDwellMs
  Ahead,         \* rejoinAheadMeters
  Tolerance,     \* cuePassedToleranceMeters
  MinProgress,   \* arrivalMinProgress, in percent
  ArrivalReach,  \* arrivalDistanceMeters, squared
  NoRejoin

Grid == Int \X Int

ASSUME EngineAssumption ==
  /\ PathOf \in [Routes -> Seq(Grid)] /\ \A r \in Routes : Len(PathOf[r]) >= 2
  /\ CuesOf \in [Routes -> Seq(Nat)]
  /\ Points \subseteq Grid
  /\ Reaches \subseteq {reach \in [near: Nat, far: Nat] : reach.near <= reach.far}
  /\ {OnRoute, OffRoute, Trust, Window, Ahead, Tolerance, MinProgress, ArrivalReach} \subseteq Nat
  /\ Dwell \in Nat \ {0} /\ OnRoute <= OffRoute

Never == -1                        \* null, for a time
NoTimes == Nat \cup {Never}

Statuses == {"following", "offRoute", "rejoining", "ended"}
Rejoin == [from: Grid, to: Grid, target: Nat, since: NoTimes]
ASSUME NoRejoinAssumption == NoRejoin \notin Rejoin
Session == [status: Statuses, along: Nat, segment: Nat \ {0},
            next: Nat \ {0}, prepared: Nat, announced: Nat,
            since: NoTimes, rejoin: Rejoin \cup {NoRejoin}, arrived: BOOLEAN]
Stages == {"prepare", "now"}

Started ==
  [status |-> "following", along |-> 0, segment |-> 1,
   next |-> 1, prepared |-> 0, announced |-> 0,
   since |-> Never, rejoin |-> NoRejoin, arrived |-> FALSE]

----------------------------------------------------------------------------
(* path.ts.                                                                *)
SqDist(a, b) == (a[1] - b[1]) * (a[1] - b[1]) + (a[2] - b[2]) * (a[2] - b[2])

Segments(r) == 1 .. Len(PathOf[r]) - 1
TotalOf(r) == Len(PathOf[r]) - 1

\* projectOntoSegment: on a unit segment the nearest grid point is an end.
Foot(r, i, p) ==
  LET a == PathOf[r][i]
      b == PathOf[r][i + 1]
  IN IF (p[1] - a[1]) * (b[1] - a[1]) + (p[2] - a[2]) * (b[2] - a[2]) >= 1 THEN i + 1 ELSE i

OffSegment(r, i, p) == SqDist(p, PathOf[r][Foot(r, i, p)])

\* scan: the nearest segment, the first of several.
Nearest(r, p, scanned) ==
  {i \in scanned : \A j \in scanned : \/ OffSegment(r, i, p) < OffSegment(r, j, p)
                                      \/ OffSegment(r, i, p) = OffSegment(r, j, p) /\ i <= j}

Around(r, hint) == {i \in Segments(r) : hint - Window <= i /\ i <= hint + Window}

\* projectOntoPath: a window around the hint, everything when that is poor.
\* A set of one element.
ProjectOntoPath(r, p, hint) ==
  LET windowed == {i \in Nearest(r, p, Around(r, hint)) :
                     OffSegment(r, i, p) <= Trust \/ Around(r, hint) = Segments(r)}
      found == IF windowed # {} THEN windowed ELSE Nearest(r, p, Segments(r))
  IN {[segment |-> i, along |-> Foot(r, i, p) - 1, off |-> OffSegment(r, i, p)] : i \in found}

\* The same as a table, which TLC computes once.
Projections ==
  [r \in Routes |-> [p \in Points |-> [hint \in Segments(r) |-> ProjectOntoPath(r, p, hint)]]]

----------------------------------------------------------------------------
(* engine.ts.                                                              *)
Result(e, says, asks) == [session |-> e, says |-> says, asks |-> asks]

\* rejoinTarget: ahead of the last on-route position, within the path.
RejoinTarget(r, e) == IF e.along + Ahead <= TotalOf(r) THEN e.along + Ahead ELSE TotalOf(r)

\* The routed connector, as the routing service may draw it: across, then up.
Span(a, b) == (a .. b) \cup (b .. a)
Connector(from, to) ==
  {<<x, from[2]>> : x \in Span(from[1], to[1])} \cup {<<to[1], y>> : y \in Span(from[2], to[2])}
OnConnector(c, p) == \E q \in Connector(c.from, c.to) : SqDist(p, q) <= OffRoute

\* The cues before `next` are passed; a set of one element.
NextCues(r, e) ==
  LET cues == CuesOf[r]
      ahead == {n \in e.next .. Len(cues) : cues[n] >= e.along - Tolerance}
  IN IF ahead = {} THEN {IF e.next > Len(cues) THEN e.next ELSE Len(cues) + 1}
     ELSE {n \in ahead : \A m \in ahead : n <= m}

\* Mutant: saying "now" does not count as having prepared.
AnnounceUnprepared(r, e, n, reach) ==
  LET toCue == CuesOf[r][n] - e.along
      moved == [e EXCEPT !.next = n]
  IN IF n > Len(CuesOf[r]) THEN Result(moved, {}, FALSE)
     ELSE IF toCue <= reach.near /\ e.announced < n
     THEN Result([moved EXCEPT !.announced = n], {<<n, "now">>}, FALSE)
     ELSE IF toCue <= reach.far /\ e.prepared < n
     THEN Result([moved EXCEPT !.prepared = n], {<<n, "prepare">>}, FALSE)
     ELSE Result(moved, {}, FALSE)

\* announceCues, from `n` on: at most one stage of one cue for one fix.
AnnounceCues(r, e, n, reach) ==
  LET toCue == CuesOf[r][n] - e.along
      moved == [e EXCEPT !.next = n]
  IN IF n > Len(CuesOf[r]) THEN Result(moved, {}, FALSE)
     ELSE IF toCue <= reach.near /\ e.announced < n
     THEN Result([moved EXCEPT !.announced = n, !.prepared = IF @ < n THEN n ELSE @],
                 {<<n, "now">>}, FALSE)
     ELSE IF toCue <= reach.far /\ e.prepared < n
     THEN Result([moved EXCEPT !.prepared = n], {<<n, "prepare">>}, FALSE)
     ELSE Result(moved, {}, FALSE)

\* checkArrival: far enough along, and near the end.
Arrives(r, e, p) ==
  /\ 100 * e.along >= MinProgress * TotalOf(r)
  /\ SqDist(p, PathOf[r][Len(PathOf[r])]) <= ArrivalReach

\* Mutant: the time the rider went astray is kept.
FollowSinceAstray(r, e, m, fix, reach) ==
  LET on == [e EXCEPT !.status = "following", !.rejoin = NoRejoin,
                      !.along = m.along, !.segment = m.segment]
  IN {LET said == AnnounceCues(r, on, n, reach)
      IN IF Arrives(r, on, fix.p)
         THEN [said EXCEPT !.session.status = "ended", !.session.arrived = TRUE]
         ELSE said : n \in NextCues(r, on)}

\* Following the path at `m`, then the cues, then the arrival.
Follow(r, e, m, fix, reach) ==
  LET on == [e EXCEPT !.status = "following", !.since = Never, !.rejoin = NoRejoin,
                      !.along = m.along, !.segment = m.segment]
  IN {LET said == AnnounceCues(r, on, n, reach)
      IN IF Arrives(r, on, fix.p)
         THEN [said EXCEPT !.session.status = "ended", !.session.arrived = TRUE]
         ELSE said : n \in NextCues(r, on)}

\* since ?? fix.timestampMs
Since(time, fix) == IF time = Never THEN fix.at ELSE time

\* Off the path: dwell, then ask for a Rejoin once.
Stray(r, e, fix) ==
  LET since == Since(e.since, fix)
  IN IF e.status = "offRoute" THEN Result(e, {}, FALSE)
     ELSE IF fix.at - since >= Dwell
     THEN Result([e EXCEPT !.status = "offRoute", !.since = since], {}, TRUE)
     ELSE Result([e EXCEPT !.since = since], {}, FALSE)

\* Off the path and off the connector: dwell, then ask for a fresh one.
StrayFromConnector(r, e, fix) ==
  LET since == Since(e.rejoin.since, fix)
  IN IF fix.at - since >= Dwell
     THEN Result([e EXCEPT !.status = "offRoute", !.rejoin = NoRejoin, !.since = fix.at], {}, TRUE)
     ELSE Result([e EXCEPT !.rejoin.since = since], {}, FALSE)

\* advanceNavigation; a set of one element.
AdvanceNavigation(r, e, fix, reach) ==
  UNION {CASE e.status = "ended" -> {Result(e, {}, FALSE)}
           [] e.status = "rejoining" ->
                IF m.off <= OnRoute THEN Follow(r, e, m, fix, reach)
                ELSE IF OnConnector(e.rejoin, fix.p)
                THEN {Result([e EXCEPT !.rejoin.since = Never], {}, FALSE)}
                ELSE {StrayFromConnector(r, e, fix)}
           [] OTHER ->
                IF m.off > OffRoute THEN {Stray(r, e, fix)} ELSE Follow(r, e, m, fix, reach)
         : m \in Projections[r][fix.p][e.segment]}

\* forceRejoin: the reroute button skips the dwell.
ForceRejoin(e, fix) ==
  IF e.status = "ended" THEN Result(e, {}, FALSE)
  ELSE Result([e EXCEPT !.status = "offRoute", !.since = fix.at, !.rejoin = NoRejoin], {}, TRUE)

\* applyRejoin.
ApplyRejoin(e, from, to, target) ==
  IF e.status = "ended" THEN e
  ELSE [e EXCEPT !.status = "rejoining", !.since = Never,
                 !.rejoin = [from |-> from, to |-> to, target |-> target, since |-> Never]]
=============================================================================

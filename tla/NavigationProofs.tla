--------------------------- MODULE NavigationProofs ---------------------------
(***************************************************************************)
(* Proofs about NavigationEngine and Navigation, for any paths and cues,   *)
(* thresholds, points and numbers of starts, reloads and failed writes.    *)
(***************************************************************************)
EXTENDS Navigation, SequenceTheorems, TLAPS

----------------------------------------------------------------------------
(* Paths and projections *)

LEMMA PathType ==
  ASSUME NEW r \in Routes
  PROVE  /\ PathOf[r] \in Seq(Grid) /\ Len(PathOf[r]) \in Nat /\ Len(PathOf[r]) >= 2
         /\ \A i \in 1 .. Len(PathOf[r]) : PathOf[r][i] \in Grid
         /\ CuesOf[r] \in Seq(Nat) /\ Len(CuesOf[r]) \in Nat
         /\ \A n \in 1 .. Len(CuesOf[r]) : CuesOf[r][n] \in Nat
         /\ TotalOf(r) \in Nat
<1>1. PathOf[r] \in Seq(Grid) /\ CuesOf[r] \in Seq(Nat) /\ Len(PathOf[r]) >= 2
  BY EngineAssumption
<1>2. Len(PathOf[r]) \in Nat /\ Len(CuesOf[r]) \in Nat
  BY <1>1, LenProperties
<1>3. /\ \A i \in 1 .. Len(PathOf[r]) : PathOf[r][i] \in Grid
      /\ \A n \in 1 .. Len(CuesOf[r]) : CuesOf[r][n] \in Nat
  BY <1>1, ElementOfSeq
<1>4. QED
  BY <1>1, <1>2, <1>3 DEF TotalOf

LEMMA SegmentType ==
  ASSUME NEW r \in Routes, NEW i \in Segments(r)
  PROVE  /\ i \in Nat \ {0} /\ i \in 1 .. Len(PathOf[r]) /\ i + 1 \in 1 .. Len(PathOf[r])
BY PathType DEF Segments

LEMMA OffSegmentType ==
  ASSUME NEW r \in Routes, NEW i \in Segments(r), NEW p \in Grid
  PROVE  Foot(r, i, p) \in {i, i + 1} /\ OffSegment(r, i, p) \in Int
<1>1. Foot(r, i, p) \in {i, i + 1}
  BY DEF Foot
<1>2. PathOf[r][Foot(r, i, p)] \in Grid
  BY <1>1, PathType, SegmentType
<1>3. \A a, b \in Grid : SqDist(a, b) \in Int
  <2>1. ASSUME NEW x \in Int, NEW y \in Int PROVE x * x + y * y \in Int
    BY <2>1
  <2>2. ASSUME NEW a \in Grid, NEW b \in Grid PROVE a[1] - b[1] \in Int /\ a[2] - b[2] \in Int
    BY <2>2 DEF Grid
  <2>3. QED
    BY <2>1, <2>2 DEF SqDist
<1>4. QED
  BY <1>1, <1>2, <1>3 DEF OffSegment

\* scan returns one segment.
LEMMA OneNearest ==
  ASSUME NEW r \in Routes, NEW p \in Grid, NEW scanned \in SUBSET Segments(r),
         NEW i \in Nearest(r, p, scanned), NEW j \in Nearest(r, p, scanned)
  PROVE  i = j
<1>1. i \in scanned /\ j \in scanned
  BY DEF Nearest
<1>2. OffSegment(r, i, p) \in Int /\ OffSegment(r, j, p) \in Int /\ i \in Int /\ j \in Int
  BY <1>1, OffSegmentType, SegmentType
<1>3. /\ OffSegment(r, i, p) < OffSegment(r, j, p) \/ (OffSegment(r, i, p) = OffSegment(r, j, p) /\ i <= j)
      /\ OffSegment(r, j, p) < OffSegment(r, i, p) \/ (OffSegment(r, j, p) = OffSegment(r, i, p) /\ j <= i)
  BY <1>1 DEF Nearest
<1>4. QED
  BY <1>2, <1>3

Projection(r) == [segment: Segments(r), along: Nat, off: Int]

LEMMA ProjectionType ==
  ASSUME NEW r \in Routes, NEW p \in Grid, NEW hint \in Segments(r),
         NEW m \in ProjectOntoPath(r, p, hint)
  PROVE  m \in Projection(r)
<1>1. PICK i \in Segments(r) : m = [segment |-> i, along |-> Foot(r, i, p) - 1, off |-> OffSegment(r, i, p)]
  BY DEF ProjectOntoPath, Nearest, Around
<1>2. Foot(r, i, p) - 1 \in Nat /\ OffSegment(r, i, p) \in Int
  <2>1. Foot(r, i, p) \in {i, i + 1} /\ OffSegment(r, i, p) \in Int
    BY OffSegmentType
  <2>2. i \in Nat \ {0}
    BY SegmentType
  <2>3. QED
    BY <2>1, <2>2
<1>3. QED
  BY <1>1, <1>2 DEF Projection

\* A fix projects onto one place of the path.
LEMMA OneProjection ==
  ASSUME NEW r \in Routes, NEW p \in Grid, NEW hint \in Segments(r),
         NEW m \in ProjectOntoPath(r, p, hint), NEW n \in ProjectOntoPath(r, p, hint)
  PROVE  m = n
<1> DEFINE windowed == {i \in Nearest(r, p, Around(r, hint)) :
                          OffSegment(r, i, p) <= Trust \/ Around(r, hint) = Segments(r)}
           found == IF windowed # {} THEN windowed ELSE Nearest(r, p, Segments(r))
           at(i) == [segment |-> i, along |-> Foot(r, i, p) - 1, off |-> OffSegment(r, i, p)]
<1>1. PICK i \in found : m = at(i)
  BY DEF ProjectOntoPath
<1>2. PICK j \in found : n = at(j)
  BY DEF ProjectOntoPath
<1>3. i = j
  <2>1. CASE windowed # {}
    <3>1. i \in Nearest(r, p, Around(r, hint)) /\ j \in Nearest(r, p, Around(r, hint))
      BY <2>1
    <3>2. Around(r, hint) \in SUBSET Segments(r)
      BY DEF Around
    <3>3. QED
      BY <3>1, <3>2, OneNearest
  <2>2. CASE windowed = {}
    BY <2>2, OneNearest
  <2>3. QED
    BY <2>1, <2>2
<1>4. QED
  BY <1>1, <1>2, <1>3

LEMMA ProjectionsAre ==
  ASSUME NEW r \in Routes, NEW p \in Points, NEW hint \in Segments(r)
  PROVE  Projections[r][p][hint] = ProjectOntoPath(r, p, hint)
BY DEF Projections

----------------------------------------------------------------------------
(* Cues *)

\* How the cues of `e` move on to `f` while `says` is spoken: the next cue, the
\* last one prepared and the last one announced never go back, and what is
\* spoken lies ahead of what was.
Moves(e, f, says) ==
  /\ f.next >= e.next /\ f.prepared >= e.prepared /\ f.announced >= e.announced
  /\ says # {} =>
       \E n \in Nat \ {0}, stage \in Stages :
         /\ says = {<<n, stage>>} /\ e.next <= n /\ f.next = n /\ f.prepared >= n
         /\ \/ stage = "now" /\ e.announced < n /\ f.announced = n
            \/ stage = "prepare" /\ e.prepared < n

LEMMA NextCueType ==
  ASSUME NEW r \in Routes, NEW e \in Session, NEW n \in NextCues(r, e)
  PROVE  n \in Nat \ {0} /\ n >= e.next
<1>1. e.next \in Nat \ {0} /\ Len(CuesOf[r]) \in Nat
  BY PathType DEF Session
<1> DEFINE cues == CuesOf[r]
           ahead == {k \in e.next .. Len(cues) : cues[k] >= e.along - Tolerance}
<1>2. CASE ahead = {}
  <2>1. n = IF e.next > Len(cues) THEN e.next ELSE Len(cues) + 1
    BY <1>2 DEF NextCues
  <2>2. QED
    BY <1>1, <2>1
<1>3. CASE ahead # {}
  <2>1. n \in e.next .. Len(cues)
    BY <1>3 DEF NextCues
  <2>2. QED
    BY <1>1, <2>1
<1>4. QED
  BY <1>2, <1>3

\* Announcing a cue moves nothing else.
SamePlace(e, f) == f.status = e.status /\ f.since = e.since /\ f.segment = e.segment

Announced(e, out) ==
  /\ out.session \in Session /\ out.asks = FALSE
  /\ Moves(e, out.session, out.says) /\ SamePlace(e, out.session)

LEMMA AnnounceOutcome ==
  ASSUME NEW r \in Routes, NEW e \in Session, NEW n \in Nat \ {0}, n >= e.next, NEW reach \in Reaches
  PROVE  Announced(e, AnnounceCues(r, e, n, reach))
<1> DEFINE out == AnnounceCues(r, e, n, reach)
<1> SUFFICES /\ out.session \in Session /\ out.asks = FALSE
             /\ Moves(e, out.session, out.says) /\ SamePlace(e, out.session)
  BY DEF Announced
<1> DEFINE now1 == [e EXCEPT !.next = n, !.announced = n, !.prepared = IF e.prepared < n THEN n ELSE e.prepared]
           prep1 == [e EXCEPT !.next = n, !.prepared = n]
           none1 == [e EXCEPT !.next = n]
<1>1. e.announced \in Nat /\ e.prepared \in Nat /\ e.next \in Nat
  BY DEF Session
<1>a. now1 \in Session /\ now1.next = n /\ now1.announced = n /\ now1.prepared >= n /\ now1.prepared >= e.prepared
  <2> DEFINE b == IF e.prepared < n THEN n ELSE e.prepared
  <2>1. b \in Nat /\ b >= n /\ b >= e.prepared
    BY <1>1
  <2>2. now1 = [e EXCEPT !.next = n, !.announced = n, !.prepared = b]
    OBVIOUS
  <2> HIDE DEF b, now1
  <2>3. QED
    BY <2>1, <2>2 DEF Session
<1>b. prep1 \in Session /\ prep1.next = n /\ prep1.announced = e.announced /\ prep1.prepared = n
  BY <1>1 DEF Session
<1>c. none1 \in Session /\ none1.next = n /\ none1.announced = e.announced /\ none1.prepared = e.prepared
  BY <1>1 DEF Session
<1>3. SamePlace(e, now1) /\ SamePlace(e, prep1) /\ SamePlace(e, none1)
  BY DEF Session, SamePlace
<1>6. \/ e.announced < n /\ out = Result(now1, {<<n, "now">>}, FALSE)
      \/ e.prepared < n /\ out = Result(prep1, {<<n, "prepare">>}, FALSE)
      \/ out = Result(none1, {}, FALSE)
  BY DEF AnnounceCues
<1> HIDE DEF now1, prep1, none1, out
<1>7. CASE e.announced < n /\ out = Result(now1, {<<n, "now">>}, FALSE)
  <2>1. Moves(e, now1, {<<n, "now">>})
    BY <1>1, <1>a, <1>7 DEF Moves, Stages
  <2>2. out.session = now1 /\ out.says = {<<n, "now">>} /\ out.asks = FALSE
    BY <1>7 DEF Result
  <2>3. Moves(e, out.session, out.says)
    BY <2>1, <2>2, Zenon
  <2>4. QED
    BY <1>a, <1>3, <2>2, <2>3
<1>8. CASE e.prepared < n /\ out = Result(prep1, {<<n, "prepare">>}, FALSE)
  <2>1. Moves(e, prep1, {<<n, "prepare">>})
    BY <1>1, <1>b, <1>8 DEF Moves, Stages
  <2>2. out.session = prep1 /\ out.says = {<<n, "prepare">>} /\ out.asks = FALSE
    BY <1>8 DEF Result
  <2>3. Moves(e, out.session, out.says)
    BY <2>1, <2>2, Zenon
  <2>4. QED
    BY <1>b, <1>3, <2>2, <2>3
<1>9. CASE out = Result(none1, {}, FALSE)
  <2>1. Moves(e, none1, {})
    BY <1>1, <1>c DEF Moves
  <2>2. out.session = none1 /\ out.says = {} /\ out.asks = FALSE
    BY <1>9 DEF Result
  <2>3. Moves(e, out.session, out.says)
    BY <2>1, <2>2, Zenon
  <2>4. QED
    BY <1>c, <1>3, <2>2, <2>3
<1>10. QED
  BY <1>6, <1>7, <1>8, <1>9

----------------------------------------------------------------------------
(* One fix *)

\* A session within its path, whose Rejoin is there when it follows one, and
\* whose time astray is a time.
Sound(r, e) ==
  /\ e \in Session /\ e.segment \in Segments(r)
  /\ e.status = "following" => e.since \in Times \cup {Never}
  /\ e.status = "rejoining" => e.rejoin \in Rejoin /\ e.rejoin.since \in Times \cup {Never}

\* The time `e` remembers to have gone astray at, when it follows something.
AstraySince(e, t) ==
  \/ e.status = "following" /\ t = e.since
  \/ e.status = "rejoining" /\ t = e.rejoin.since

\* What a fix makes of that time: on what is followed it is forgotten, off it
\* it is kept or begins, and after the dwell the session leaves the route.
Strays(e, f, on, at) ==
  /\ \A t \in Times : AstraySince(f, t) => ~on /\ (t = at \/ AstraySince(e, t))
  /\ f.status = "offRoute" /\ e.status # "offRoute" =>
       ~on /\ \E t \in Times : AstraySince(e, t) /\ at - t >= Dwell
  /\ e.status = "ended" => f = e

\* The fix is on what `e` follows, when it projects to `m`.
On(e, m, p) ==
  IF e.status = "rejoining" THEN m.off <= OnRoute \/ OnConnector(e.rejoin, p) ELSE m.off <= OffRoute

\* Back on the path, or there.
Followed(r, e, out) ==
  /\ Sound(r, out.session) /\ out.asks = FALSE /\ Moves(e, out.session, out.says)
  /\ out.session.status \in {"following", "ended"}
  /\ out.session.status = "following" => out.session.since = Never

\* As announced, or arrived as well.
Becomes(said, out) ==
  out \in {said, [said EXCEPT !.session.status = "ended", !.session.arrived = TRUE]}

LEMMA SaidOutcome ==
  ASSUME NEW r \in Routes, NEW on \in Session, on.status = "following", on.since = Never,
         on.segment \in Segments(r), NEW n \in Nat \ {0}, n >= on.next, NEW reach \in Reaches,
         NEW said, said = AnnounceCues(r, on, n, reach),
         NEW out, Becomes(said, out)
  PROVE  Followed(r, on, out)
<1>1. /\ said.session \in Session /\ said.asks = FALSE /\ Moves(on, said.session, said.says)
      /\ said.session.status = "following" /\ said.session.since = Never
      /\ said.session.segment \in Segments(r)
  <2>1. Announced(on, said)
    BY AnnounceOutcome
  <2>2. QED
    BY <2>1 DEF Announced, SamePlace
<1>2. said = [session |-> said.session, says |-> said.says, asks |-> said.asks]
  BY DEF AnnounceCues, Result
<1>3. CASE out = said
  BY <1>1, <1>3 DEF Sound, Followed
<1>4. CASE out = [said EXCEPT !.session.status = "ended", !.session.arrived = TRUE]
  <2> DEFINE f == [said.session EXCEPT !.status = "ended", !.arrived = TRUE]
  <2>1. out.session = f /\ out.says = said.says /\ out.asks = said.asks
    BY <1>2, <1>4
  <2>2. /\ f \in Session /\ f.status = "ended" /\ f.segment = said.session.segment
        /\ f.next = said.session.next /\ f.prepared = said.session.prepared
        /\ f.announced = said.session.announced
    BY <1>1 DEF Session, Statuses
  <2> HIDE DEF f
  <2>3. Moves(on, f, said.says)
    BY <1>1, <2>2 DEF Moves
  <2>4. Sound(r, f)
    BY <1>1, <2>2 DEF Sound
  <2>5. QED
    BY <1>1, <2>1, <2>2, <2>3, <2>4 DEF Followed
<1>5. QED
  BY <1>3, <1>4 DEF Becomes

LEMMA FollowOutcome ==
  ASSUME NEW r \in Routes, NEW e, Sound(r, e), NEW m \in Projection(r), NEW fix \in Fix,
         NEW reach \in Reaches, NEW out \in Follow(r, e, m, fix, reach), e.status # "ended"
  PROVE  Followed(r, e, out)
<1> DEFINE on == [e EXCEPT !.status = "following", !.since = Never, !.rejoin = NoRejoin,
                           !.along = m.along, !.segment = m.segment]
<1>1. m.along \in Nat /\ m.segment \in Segments(r) /\ m.segment \in Nat \ {0} /\ Never \in NoTimes
  BY SegmentType DEF Projection, NoTimes
<1>2. /\ on \in Session /\ on.status = "following" /\ on.since = Never /\ on.segment = m.segment
      /\ on.next = e.next /\ on.prepared = e.prepared /\ on.announced = e.announced
  BY <1>1 DEF Session, Sound, Statuses
<1>3. PICK n \in NextCues(r, on) :
        out \in LET said == AnnounceCues(r, on, n, reach)
                IN {said, [said EXCEPT !.session.status = "ended", !.session.arrived = TRUE]}
  BY DEF Follow
<1> HIDE DEF on
<1>4. n \in Nat \ {0} /\ n >= on.next
  BY <1>2, NextCueType
<1> DEFINE said == AnnounceCues(r, on, n, reach)
<1>5. said = AnnounceCues(r, on, n, reach) /\ Becomes(said, out)
  BY <1>3 DEF Becomes
<1> HIDE DEF said
<1>6. on.segment \in Segments(r)
  BY <1>1, <1>2
<1>7. Followed(r, on, out)
  BY <1>2, <1>4, <1>5, <1>6, SaidOutcome
<1>8. Moves(e, out.session, out.says)
  BY <1>2, <1>7 DEF Followed, Moves
<1>9. QED
  BY <1>7, <1>8 DEF Followed

LEMMA StrayOutcome ==
  ASSUME NEW r \in Routes, NEW e, Sound(r, e), NEW fix \in Fix,
         e.status \in {"following", "offRoute"}, NEW out, out = Stray(r, e, fix)
  PROVE  /\ Sound(r, out.session) /\ out.asks \in BOOLEAN /\ out.says = {}
         /\ Strays(e, out.session, FALSE, fix.at) /\ Moves(e, out.session, {})
<1> DEFINE since == Since(e.since, fix)
<1>1. e \in Session /\ e.segment \in Segments(r) /\ fix.at \in Times /\ Times \subseteq Nat
  BY NavigationAssumption DEF Sound, Fix, Times
<1>2. Moves(e, e, {}) /\ (e.status = "offRoute" => Strays(e, e, FALSE, fix.at))
  BY <1>1 DEF Moves, Session, Strays, AstraySince
<1>3. CASE e.status = "offRoute"
  BY <1>2, <1>3 DEF Stray, Result
<1>4. CASE e.status = "following"
  <2>1. /\ since \in Times /\ since \in NoTimes /\ (since = fix.at \/ since = e.since)
        /\ e.since \in Times \cup {Never}
    BY <1>1, <1>4 DEF Since, Sound, NoTimes
  <2> HIDE DEF since
  <2>2. CASE fix.at - since >= Dwell
    <3> DEFINE f == [e EXCEPT !.status = "offRoute", !.since = since]
    <3>1. out.session = f /\ out.says = {} /\ out.asks = TRUE
      BY <1>4, <2>2 DEF Stray, since, Result
    <3>2. /\ f \in Session /\ f.status = "offRoute" /\ f.segment = e.segment
          /\ f.next = e.next /\ f.prepared = e.prepared /\ f.announced = e.announced
      BY <1>1, <2>1 DEF Session, Statuses
    <3> HIDE DEF f
    <3>3. since = e.since
      BY <1>1, <2>1, <2>2, EngineAssumption
    <3>4. Strays(e, f, FALSE, fix.at)
      BY <1>4, <2>1, <2>2, <3>2, <3>3 DEF Strays, AstraySince
    <3>5. Sound(r, f) /\ Moves(e, f, {})
      BY <1>1, <3>2 DEF Sound, Moves, Session
    <3>6. QED
      BY <3>1, <3>4, <3>5
  <2>3. CASE ~(fix.at - since >= Dwell)
    <3> DEFINE f == [e EXCEPT !.since = since]
    <3>1. out.session = f /\ out.says = {} /\ out.asks = FALSE
      BY <1>4, <2>3 DEF Stray, since, Result
    <3>2. /\ f \in Session /\ f.status = "following" /\ f.segment = e.segment /\ f.since = since
          /\ f.next = e.next /\ f.prepared = e.prepared /\ f.announced = e.announced
      BY <1>1, <1>4, <2>1 DEF Session
    <3> HIDE DEF f
    <3>3. Strays(e, f, FALSE, fix.at)
      BY <1>4, <2>1, <3>2 DEF Strays, AstraySince
    <3>4. Sound(r, f) /\ Moves(e, f, {})
      BY <1>1, <2>1, <3>2 DEF Sound, Moves, Session
    <3>5. QED
      BY <3>1, <3>3, <3>4
  <2>4. QED
    BY <2>2, <2>3
<1>5. QED
  BY <1>3, <1>4

LEMMA StrayFromConnectorOutcome ==
  ASSUME NEW r \in Routes, NEW e, Sound(r, e), NEW fix \in Fix, e.status = "rejoining",
         NEW out, out = StrayFromConnector(r, e, fix)
  PROVE  /\ Sound(r, out.session) /\ out.asks \in BOOLEAN /\ out.says = {}
         /\ Strays(e, out.session, FALSE, fix.at) /\ Moves(e, out.session, {})
<1> DEFINE since == Since(e.rejoin.since, fix)
<1>1. e \in Session /\ e.segment \in Segments(r) /\ fix.at \in Times /\ Times \subseteq Nat
  BY NavigationAssumption DEF Sound, Fix, Times
<1>2. /\ since \in Times /\ since \in NoTimes /\ (since = fix.at \/ since = e.rejoin.since)
      /\ e.rejoin.since \in Times \cup {Never} /\ e.rejoin \in Rejoin
  BY <1>1 DEF Since, Sound, NoTimes
<1> HIDE DEF since
<1>3. CASE fix.at - since >= Dwell
  <2> DEFINE f == [e EXCEPT !.status = "offRoute", !.rejoin = NoRejoin, !.since = fix.at]
  <2>1. out.session = f /\ out.says = {} /\ out.asks = TRUE
    BY <1>3 DEF StrayFromConnector, since, Result
  <2>2. /\ f \in Session /\ f.status = "offRoute" /\ f.segment = e.segment
        /\ f.next = e.next /\ f.prepared = e.prepared /\ f.announced = e.announced
    BY <1>1 DEF Session, Statuses, NoTimes
  <2> HIDE DEF f
  <2>3. since = e.rejoin.since
    BY <1>1, <1>2, <1>3, EngineAssumption
  <2>4. Strays(e, f, FALSE, fix.at)
    BY <1>2, <1>3, <2>2, <2>3 DEF Strays, AstraySince
  <2>5. Sound(r, f) /\ Moves(e, f, {})
    BY <1>1, <2>2 DEF Sound, Moves, Session
  <2>6. QED
    BY <2>1, <2>4, <2>5
<1>4. CASE ~(fix.at - since >= Dwell)
  <2> DEFINE c == [e.rejoin EXCEPT !.since = since]
             f == [e EXCEPT !.rejoin = c]
  <2>1. out.session = f /\ out.says = {} /\ out.asks = FALSE
    BY <1>4 DEF StrayFromConnector, since, Result
  <2>2. c \in Rejoin /\ c.since = since
    BY <1>2 DEF Rejoin
  <2> HIDE DEF c
  <2>3. /\ f \in Session /\ f.status = "rejoining" /\ f.segment = e.segment /\ f.rejoin = c
        /\ f.next = e.next /\ f.prepared = e.prepared /\ f.announced = e.announced
    BY <1>1, <2>2 DEF Session
  <2> HIDE DEF f
  <2>4. Strays(e, f, FALSE, fix.at)
    BY <1>2, <2>2, <2>3 DEF Strays, AstraySince
  <2>5. Sound(r, f) /\ Moves(e, f, {})
    BY <1>1, <1>2, <2>2, <2>3 DEF Sound, Moves, Session
  <2>6. QED
    BY <2>1, <2>4, <2>5
<1>5. QED
  BY <1>3, <1>4

\* On the connector the time astray is forgotten.
LEMMA OnConnectorOutcome ==
  ASSUME NEW r \in Routes, NEW e, Sound(r, e), e.status = "rejoining", NEW at \in Times,
         NEW on, NEW f, f = [e EXCEPT !.rejoin.since = Never]
  PROVE  Sound(r, f) /\ Strays(e, f, on, at) /\ Moves(e, f, {})
<1> DEFINE c == [e.rejoin EXCEPT !.since = Never]
<1>1. e \in Session /\ e.segment \in Segments(r) /\ e.rejoin \in Rejoin
  BY DEF Sound
<1>2. c \in Rejoin /\ c.since = Never
  BY <1>1 DEF Rejoin, NoTimes
<1>3. f = [e EXCEPT !.rejoin = c]
  OBVIOUS
<1> HIDE DEF c
<1>4. /\ f \in Session /\ f.status = "rejoining" /\ f.segment = e.segment /\ f.rejoin = c
      /\ f.next = e.next /\ f.prepared = e.prepared /\ f.announced = e.announced
  BY <1>1, <1>2, <1>3 DEF Session
<1>5. Never \notin Times
  BY DEF Times, Never
<1>6. Strays(e, f, on, at)
  BY <1>2, <1>4, <1>5 DEF Strays, AstraySince
<1>7. Sound(r, f)
  BY <1>1, <1>2, <1>4 DEF Sound
<1>8. Moves(e, f, {})
  BY <1>1, <1>4 DEF Moves, Session
<1>9. QED
  BY <1>6, <1>7, <1>8

\* Whatever becomes of a fix.
LEMMA AdvanceOutcome ==
  ASSUME NEW r \in Routes, NEW e, Sound(r, e), NEW fix \in Fix, NEW reach \in Reaches,
         NEW out \in AdvanceNavigation(r, e, fix, reach)
  PROVE  /\ Sound(r, out.session) /\ out.asks \in BOOLEAN /\ Moves(e, out.session, out.says)
         /\ \E m \in Projections[r][fix.p][e.segment] : Strays(e, out.session, On(e, m, fix.p), fix.at)
<1>1. /\ e \in Session /\ e.segment \in Segments(r) /\ e.status \in Statuses
      /\ fix.p \in Points /\ fix.p \in Grid /\ fix.at \in Times
  BY EngineAssumption DEF Sound, Session, Fix
<1>2. PICK m \in Projections[r][fix.p][e.segment] :
        out \in CASE e.status = "ended" -> {Result(e, {}, FALSE)}
                  [] e.status = "rejoining" ->
                       IF m.off <= OnRoute THEN Follow(r, e, m, fix, reach)
                       ELSE IF OnConnector(e.rejoin, fix.p)
                       THEN {Result([e EXCEPT !.rejoin.since = Never], {}, FALSE)}
                       ELSE {StrayFromConnector(r, e, fix)}
                  [] OTHER ->
                       IF m.off > OffRoute THEN {Stray(r, e, fix)} ELSE Follow(r, e, m, fix, reach)
  BY DEF AdvanceNavigation
<1>3. m \in Projection(r) /\ m.off \in Int
  <2>1. m \in Projection(r)
    BY <1>1, <1>2, ProjectionsAre, ProjectionType
  <2>2. QED
    BY <2>1 DEF Projection
<1>f. ASSUME out \in Follow(r, e, m, fix, reach), e.status # "ended", On(e, m, fix.p)
      PROVE  /\ Sound(r, out.session) /\ out.asks \in BOOLEAN /\ Moves(e, out.session, out.says)
             /\ Strays(e, out.session, On(e, m, fix.p), fix.at)
  <2>1. Followed(r, e, out)
    BY <1>3, <1>f, FollowOutcome
  <2>2. Never \notin Times
    BY DEF Times, Never
  <2>3. Strays(e, out.session, On(e, m, fix.p), fix.at)
    BY <1>f, <2>1, <2>2 DEF Strays, AstraySince, Followed
  <2>4. QED
    BY <2>1, <2>3 DEF Followed
<1>4. CASE e.status = "ended"
  <2>1. out.session = e /\ out.says = {} /\ out.asks = FALSE
    BY <1>2, <1>4 DEF Result
  <2>2. Strays(e, e, On(e, m, fix.p), fix.at) /\ Moves(e, e, {})
    BY <1>1, <1>4 DEF Strays, AstraySince, Moves, Session
  <2>3. QED
    BY <1>2, <2>1, <2>2
<1>5. CASE e.status = "rejoining"
  <2>1. CASE m.off <= OnRoute
    <3>1. out \in Follow(r, e, m, fix, reach) /\ On(e, m, fix.p)
      BY <1>2, <1>5, <2>1 DEF On
    <3>2. QED
      BY <1>2, <1>5, <1>f, <3>1
  <2>2. CASE ~(m.off <= OnRoute) /\ OnConnector(e.rejoin, fix.p)
    <3>1. out.session = [e EXCEPT !.rejoin.since = Never] /\ out.says = {} /\ out.asks = FALSE
      BY <1>2, <1>5, <2>2 DEF Result
    <3>2. QED
      <4>1. /\ Sound(r, out.session) /\ Strays(e, out.session, On(e, m, fix.p), fix.at)
            /\ Moves(e, out.session, {})
        BY <1>1, <1>5, <3>1, OnConnectorOutcome
      <4>2. QED
        BY <1>2, <3>1, <4>1
  <2>3. CASE ~(m.off <= OnRoute) /\ ~OnConnector(e.rejoin, fix.p)
    <3>1. out = StrayFromConnector(r, e, fix)
      BY <1>2, <1>5, <2>3
    <3>2. On(e, m, fix.p) = FALSE
      BY <1>5, <2>3 DEF On
    <3>3. QED
      BY <1>2, <1>5, <3>1, <3>2, StrayFromConnectorOutcome
  <2>4. QED
    BY <2>1, <2>2, <2>3
<1>6. CASE e.status \in {"following", "offRoute"}
  <2>1. CASE m.off > OffRoute
    <3>1. out = Stray(r, e, fix)
      BY <1>2, <1>6, <2>1
    <3>2. On(e, m, fix.p) = FALSE
      BY <1>3, <1>6, <2>1, EngineAssumption DEF On
    <3>3. QED
      BY <1>2, <1>6, <3>1, <3>2, StrayOutcome
  <2>2. CASE ~(m.off > OffRoute)
    <3>1. out \in Follow(r, e, m, fix, reach)
      BY <1>2, <1>6, <2>2
    <3>2. m.off <= OffRoute
      BY <1>3, <2>2, EngineAssumption
    <3>3. On(e, m, fix.p)
      BY <1>6, <3>2 DEF On
    <3>4. QED
      BY <1>2, <1>6, <1>f, <3>1, <3>3
  <2>3. QED
    BY <2>1, <2>2
<1>7. QED
  BY <1>1, <1>4, <1>5, <1>6 DEF Statuses

----------------------------------------------------------------------------
(* The store *)

\* The running session and the one on disk keep to their paths.
Sessions ==
  /\ session # NoSession => Sound(session.route, session.engine)
  /\ snapshot # NoSession => Sound(snapshot.route, snapshot.engine)

\* What a write leaves on disk.
Wrote(active, first) ==
  \/ snapshot' = active /\ ~failed'
  \/ snapshot' = snapshot /\ failed'
  \/ snapshot' = snapshot /\ failed' = failed /\ ~first

DiskType ==
  lastWrite' \in Times \cup {Never} /\ failed' \in BOOLEAN /\ errors' \in 0 .. MaxErrors

LEMMA WriteOutcome ==
  ASSUME TypeOK, NEW active, NEW last \in Times \cup {Never}, WriteSnapshot(active, last)
  PROVE  DiskType /\ Wrote(active, last = Never)
<1>1. now \in Times /\ errors \in 0 .. MaxErrors /\ failed \in BOOLEAN
  BY DEF TypeOK
<1>2. CASE last # Never /\ now - last < Interval /\ lastWrite' = last /\ UNCHANGED <<snapshot, failed, errors>>
  BY <1>1, <1>2 DEF DiskType, Wrote
<1>3. CASE lastWrite' = now /\ snapshot' = active /\ failed' = FALSE /\ UNCHANGED errors
  BY <1>1, <1>3 DEF DiskType, Wrote
<1>4. CASE lastWrite' = now /\ errors < MaxErrors /\ errors' = errors + 1 /\ failed' = TRUE /\ UNCHANGED snapshot
  <2>1. errors' \in 0 .. MaxErrors
    BY <1>1, <1>4, NavigationAssumption
  <2>2. QED
    BY <1>1, <1>4, <2>1 DEF DiskType, Wrote
<1>5. QED
  BY <1>2, <1>3, <1>4 DEF WriteSnapshot

\* The session's engine becomes `f`.
Drives(f) ==
  /\ session' = [session EXCEPT !.engine = f] /\ DiskType
  /\ \/ UNCHANGED <<snapshot, failed>>
     \/ Wrote(session', FALSE)

LEMMA SetEngineOutcome ==
  ASSUME TypeOK, NEW f, SetEngine(f) PROVE Drives(f)
<1>1. session' = [session EXCEPT !.engine = f] /\ WriteSnapshot(session', lastWrite)
  BY DEF SetEngine
<1>2. lastWrite \in Times \cup {Never}
  BY DEF TypeOK
<1>3. DiskType /\ Wrote(session', lastWrite = Never)
  BY <1>1, <1>2, WriteOutcome
<1>4. Wrote(session', FALSE)
  BY <1>3 DEF Wrote
<1>5. QED
  BY <1>1, <1>3, <1>4 DEF Drives

LEMMA DrivesOutcome ==
  ASSUME TypeOK, Sessions, session # NoSession, NEW f, Drives(f), Sound(session.route, f)
  PROVE  /\ session' \in Active /\ session' # NoSession
         /\ session'.id = session.id /\ session'.route = session.route /\ session'.engine = f
         /\ snapshot' \in Active \cup {NoSession} /\ snapshot' \in {snapshot, session'}
         /\ DiskType /\ Sessions'
<1>1. session \in Active /\ f \in Session /\ snapshot \in Active \cup {NoSession}
  BY DEF TypeOK, Sound
<1>2. /\ session' \in Active
      /\ session'.id = session.id /\ session'.route = session.route /\ session'.engine = f
  BY <1>1 DEF Drives, Active
<1>3. session' # NoSession
  BY <1>2, NoneAssumption
<1>4. snapshot' \in {snapshot, session'} /\ DiskType
  BY DEF Drives, Wrote
<1>5. Sessions'
  <2>1. session'.route = session.route /\ Sound(session'.route, session'.engine)
    BY <1>2
  <2>2. CASE snapshot' = snapshot
    BY <2>1, <2>2 DEF Sessions
  <2>3. CASE snapshot' = session'
    BY <2>1, <2>3 DEF Sessions
  <2>4. QED
    BY <1>4, <2>2, <2>3
<1>6. QED
  BY <1>1, <1>2, <1>3, <1>4, <1>5

\* What an update of the location does.
LEMMA LocationOutcome ==
  ASSUME TypeOK, Sessions, Live, NEW fix \in Fix, OnLocationUpdate(fix)
  PROVE  \E out :
           /\ Drives(out.session) /\ Sound(session.route, out.session)
           /\ Moves(session.engine, out.session, out.says)
           /\ Strays(session.engine, out.session, OnTrack(fix), fix.at)
           /\ out.asks \in BOOLEAN /\ RequestRejoin(out.asks, fix.p)
           /\ heard' = IF out.says = {} THEN heard ELSE Append(heard, CHOOSE s \in out.says : TRUE)
           /\ stray' = (IF OnTrack(fix) THEN {} ELSE stray \cup {fix.at})
           /\ seen' = TRUE /\ UNCHANGED <<starting, finished, starts, reloads>>
<1> DEFINE r == session.route
           e == session.engine
<1>1. /\ session \in Active /\ r \in Routes /\ e \in Session /\ Sound(r, e) /\ e.segment \in Segments(r)
      /\ fix.p \in Points /\ fix.p \in Grid
  BY EngineAssumption DEF TypeOK, Live, Sessions, Active, Sound, Fix
<1>2. PICK reach, out :
        /\ reach \in Reaches /\ out \in AdvanceNavigation(r, e, fix, reach)
        /\ seen' = TRUE
        /\ IF e.status = "offRoute" /\ out.session = e
           THEN UNCHANGED <<session, disk, errors>>
           ELSE SetEngine(out.session)
        /\ RequestRejoin(out.asks, fix.p)
        /\ heard' = IF out.says = {} THEN heard ELSE Append(heard, CHOOSE s \in out.says : TRUE)
        /\ stray' = IF OnTrack(fix) THEN {} ELSE stray \cup {fix.at}
        /\ UNCHANGED <<starting, finished, starts, reloads>>
  BY DEF OnLocationUpdate
<1>3. /\ Sound(r, out.session) /\ out.asks \in BOOLEAN /\ Moves(e, out.session, out.says)
      /\ \E m \in Projections[r][fix.p][e.segment] : Strays(e, out.session, On(e, m, fix.p), fix.at)
  BY <1>1, <1>2, AdvanceOutcome
<1>4. Drives(out.session)
  <2>1. CASE e.status = "offRoute" /\ out.session = e
    <3>1. UNCHANGED <<session, snapshot, failed, lastWrite, errors>>
      BY <1>2, <2>1 DEF disk
    <3>2. [session EXCEPT !.engine = out.session] = session
      BY <1>1, <2>1 DEF Active
    <3>3. DiskType
      BY <3>1 DEF DiskType, TypeOK
    <3>4. QED
      BY <3>1, <3>2, <3>3 DEF Drives
  <2>2. CASE SetEngine(out.session)
    BY <2>2, SetEngineOutcome
  <2>3. QED
    BY <1>2, <2>1, <2>2
<1>5. Strays(e, out.session, OnTrack(fix), fix.at)
  <2>1. PICK m \in Projections[r][fix.p][e.segment] : Strays(e, out.session, On(e, m, fix.p), fix.at)
    BY <1>3
  <2>2. \A k \in Projections[r][fix.p][e.segment] : k = m
    BY <1>1, <2>1, ProjectionsAre, OneProjection
  <2>3. OnTrack(fix) <=> On(e, m, fix.p)
    BY <2>1, <2>2 DEF OnTrack, On
  <2>4. QED
    BY <2>1, <2>3 DEF Strays
<1>6. QED
  BY <1>2, <1>3, <1>4, <1>5

----------------------------------------------------------------------------
(* Types *)

LEMMA RequestType ==
  ASSUME TypeOK, session # NoSession, NEW from \in Points, NEW asks, RequestRejoin(asks, from)
  PROVE  requests' \subseteq Request
<1> DEFINE r == session.route
           target == RejoinTarget(r, session.engine)
<1>1. session.id \in Ids /\ r \in Routes /\ session.engine.along \in Nat /\ requests \subseteq Request
  BY DEF TypeOK, Active, Session
<1>2. target \in Nat /\ target + 1 \in 1 .. Len(PathOf[r])
  <2> DEFINE n == Len(PathOf[r])
             a == session.engine.along
  <2>1. n \in Nat /\ n >= 2 /\ a \in Nat /\ Ahead \in Nat
    BY <1>1, PathType, EngineAssumption
  <2>2. target = IF a + Ahead <= n - 1 THEN a + Ahead ELSE n - 1
    BY DEF RejoinTarget, TotalOf
  <2> HIDE DEF n, a, target
  <2>3. target \in Nat /\ target + 1 \in 1 .. n
    BY <2>1, <2>2
  <2>4. QED
    BY <2>3 DEF n
<1>3. PathOf[r][target + 1] \in Grid
  BY <1>1, <1>2, PathType
<1>4. [asked |-> session.id, from |-> from, to |-> PathOf[r][target + 1], target |-> target,
       own |-> TRUE] \in Request
  BY <1>1, <1>2, <1>3 DEF Request
<1>5. QED
  BY <1>1, <1>4 DEF RequestRejoin

LEMMA StartedIsSound ==
  ASSUME NEW r \in Routes PROVE Sound(r, Started)
<1>1. 1 \in Segments(r)
  BY PathType DEF Segments
<1>2. Started \in Session
  BY DEF Started, Session, Statuses, NoTimes
<1>3. QED
  BY <1>1, <1>2 DEF Sound, Started

LEMMA ApplyRejoinIsSound ==
  ASSUME NEW r \in Routes, NEW e, Sound(r, e), NEW q \in Request
  PROVE  LET f == ApplyRejoin(e, q.from, q.to, q.target) IN
         /\ Sound(r, f) /\ Moves(e, f, {}) /\ \A t \in Times : ~AstraySince(f, t) \/ f = e
         /\ e.status = "ended" => f = e
<1>1. e \in Session /\ e.segment \in Segments(r)
  BY DEF Sound
<1>2. CASE e.status = "ended"
  BY <1>1, <1>2 DEF ApplyRejoin, Moves, Session
<1>3. CASE e.status # "ended"
  <2> DEFINE c == [from |-> q.from, to |-> q.to, target |-> q.target, since |-> Never]
             f == [e EXCEPT !.status = "rejoining", !.since = Never, !.rejoin = c]
  <2>1. c \in Rejoin /\ c.since = Never
    BY EngineAssumption DEF Request, Rejoin, NoTimes
  <2>2. ApplyRejoin(e, q.from, q.to, q.target) = f
    BY <1>3 DEF ApplyRejoin
  <2> HIDE DEF c
  <2>3. /\ f \in Session /\ f.status = "rejoining" /\ f.rejoin = c /\ f.segment = e.segment
        /\ f.next = e.next /\ f.prepared = e.prepared /\ f.announced = e.announced
    BY <1>1, <2>1 DEF Session, Statuses, NoTimes
  <2> HIDE DEF f
  <2>4. Never \notin Times
    BY DEF Times, Never
  <2>5. Sound(r, f)
    BY <1>1, <2>1, <2>3 DEF Sound
  <2>6. Moves(e, f, {})
    BY <1>1, <2>3 DEF Moves, Session
  <2>7. \A t \in Times : ~AstraySince(f, t)
    BY <2>1, <2>3, <2>4 DEF AstraySince
  <2>8. QED
    BY <1>3, <2>2, <2>5, <2>6, <2>7
<1>4. QED
  BY <1>2, <1>3

LEMMA ForceRejoinIsSound ==
  ASSUME NEW r \in Routes, NEW e, Sound(r, e), NEW fix \in Fix
  PROVE  LET f == ForceRejoin(e, fix).session IN
         /\ Sound(r, f) /\ Moves(e, f, {})
         /\ e.status # "ended" => f.status = "offRoute"
         /\ e.status = "ended" => f = e
<1>1. e \in Session /\ e.segment \in Segments(r) /\ fix.at \in NoTimes
  BY NavigationAssumption DEF Sound, Fix, Times, NoTimes
<1>2. CASE e.status = "ended"
  BY <1>1, <1>2 DEF ForceRejoin, Result, Moves, Session
<1>3. CASE e.status # "ended"
  <2> DEFINE f == [e EXCEPT !.status = "offRoute", !.since = fix.at, !.rejoin = NoRejoin]
  <2>1. ForceRejoin(e, fix).session = f
    BY <1>3 DEF ForceRejoin, Result
  <2>2. /\ f \in Session /\ f.status = "offRoute" /\ f.segment = e.segment
        /\ f.next = e.next /\ f.prepared = e.prepared /\ f.announced = e.announced
    BY <1>1 DEF Session, Statuses
  <2> HIDE DEF f
  <2>3. Sound(r, f) /\ Moves(e, f, {})
    BY <1>1, <2>2 DEF Sound, Moves, Session
  <2>4. QED
    BY <1>3, <2>1, <2>2, <2>3
<1>4. QED
  BY <1>2, <1>3

\* The rest of the type, when the session and the disk are as they should be.
LEMMA HeardType ==
  ASSUME TypeOK, NEW e, NEW out, Moves(e, out.session, out.says),
         heard' = IF out.says = {} THEN heard ELSE Append(heard, CHOOSE s \in out.says : TRUE)
  PROVE  heard' \in Seq(Spoken)
<1>1. heard \in Seq(Spoken)
  BY DEF TypeOK
<1>2. CASE out.says = {}
  BY <1>1, <1>2
<1>3. CASE out.says # {}
  <2>1. PICK n \in Nat \ {0}, stage \in Stages : out.says = {<<n, stage>>}
    BY <1>3 DEF Moves
  <2>2. (CHOOSE s \in out.says : TRUE) \in out.says
    BY <1>3
  <2>3. heard' = Append(heard, <<n, stage>>) /\ <<n, stage>> \in Spoken
    BY <1>3, <2>1, <2>2 DEF Spoken
  <2> DEFINE h == heard
             v == <<n, stage>>
  <2>4. h \in Seq(Spoken) /\ v \in Spoken
    BY <1>1, <2>3
  <2> HIDE DEF h, v
  <2>5. Append(h, v) \in Seq(Spoken)
    BY <2>4, AppendProperties
  <2>6. QED
    BY <2>3, <2>5 DEF h, v
<1>4. QED
  BY <1>2, <1>3

NInv == TypeOK /\ Sessions

LEMMA DrivenType ==
  ASSUME NInv, session # NoSession, NEW f, Drives(f), Sound(session.route, f),
         now' = now, reading' \in Fix, seen' \in BOOLEAN,
         requests' \subseteq Request, heard' \in Seq(Spoken), stray' \subseteq Times,
         UNCHANGED <<starting, finished, starts, reloads>>
  PROVE  NInv'
<1>1. /\ session' \in Active /\ session' # NoSession /\ snapshot' \in Active \cup {NoSession}
      /\ DiskType /\ Sessions'
  BY DrivesOutcome DEF NInv
<1>2. reading' # NoReading
  BY NoneAssumption
<1>3. QED
  BY <1>1, <1>2 DEF NInv, TypeOK, DiskType

LEMMA LocatedType ==
  ASSUME NInv, Live, NEW fix \in Fix, OnLocationUpdate(fix), reading' \in Fix, now' = now
  PROVE  NInv'
<1>1. PICK out :
        /\ Drives(out.session) /\ Sound(session.route, out.session)
        /\ Moves(session.engine, out.session, out.says)
        /\ RequestRejoin(out.asks, fix.p)
        /\ heard' = IF out.says = {} THEN heard ELSE Append(heard, CHOOSE s \in out.says : TRUE)
        /\ stray' = (IF OnTrack(fix) THEN {} ELSE stray \cup {fix.at})
        /\ seen' = TRUE /\ UNCHANGED <<starting, finished, starts, reloads>>
  BY LocationOutcome DEF NInv
<1>2. session # NoSession /\ fix.p \in Points /\ fix.at \in Times /\ stray \subseteq Times /\ TypeOK
  BY DEF Live, Fix, NInv, TypeOK
<1>3. requests' \subseteq Request
  BY <1>1, <1>2, RequestType
<1>4. heard' \in Seq(Spoken)
  BY <1>1, <1>2, HeardType
<1>5. stray' \subseteq Times
  BY <1>1, <1>2
<1>6. QED
  BY <1>1, <1>2, <1>3, <1>4, <1>5, DrivenType

\* A session starts, from its beginning or from the snapshot.
LEMMA StartedType ==
  ASSUME TypeOK, NEW active \in Active, Sound(active.route, active.engine), Start(active)
  PROVE  /\ session' = active /\ session' # NoSession /\ seen' = FALSE
         /\ snapshot' \in {snapshot, session'} /\ DiskType /\ Wrote(session', TRUE)
<1>1. session' = active /\ seen' = FALSE /\ WriteSnapshot(active, Never)
  BY DEF Start
<1>2. DiskType /\ Wrote(active, Never = Never)
  BY <1>1, WriteOutcome
<1>3. snapshot' \in {snapshot, session'} /\ Wrote(session', TRUE)
  BY <1>1, <1>2 DEF Wrote
<1>4. QED
  BY <1>1, <1>2, <1>3, NoneAssumption

LEMMA StepKeepsTypes ==
  ASSUME NInv, [Next]_vars PROVE NInv'
<1>t. TypeOK /\ Sessions /\ <<>> \in Seq(Spoken)
  BY EmptySeq DEF NInv
<1>u. session \in Active \cup {NoSession} /\ snapshot \in Active \cup {NoSession}
  BY <1>t DEF TypeOK
<1>1. CASE Tick
  <2>1. now' \in Times
    BY <1>1, <1>t, NavigationAssumption DEF Tick, TypeOK, Times
  <2>2. QED
    BY <1>1, <1>t, <2>1 DEF Tick, NInv, TypeOK, Sessions, disk, history, counts
<1>2. ASSUME NEW p \in Points, Locate(p) PROVE NInv'
  <2> DEFINE fix == [p |-> p, at |-> now]
  <2>1. fix \in Fix /\ reading' = fix /\ now' = now
    BY <1>2, <1>t DEF Locate, Fix, TypeOK
  <2> HIDE DEF fix
  <2>2. CASE Live
    BY <1>2, <2>1, <2>2, LocatedType DEF Locate, fix
  <2>3. CASE ~Live
    <3>1. reading' # NoReading
      BY <2>1, NoneAssumption
    <3>2. QED
      BY <1>2, <1>t, <2>1, <2>3, <3>1 DEF Locate, NInv, TypeOK, Sessions, disk, history, counts
  <2>4. QED
    BY <2>2, <2>3
<1>3. CASE Relocate
  <2>1. reading \in Fix
    BY <1>3, <1>t DEF Relocate, TypeOK
  <2>2. QED
    BY <1>3, <2>1, LocatedType DEF Relocate
<1>4. CASE Reroute
  <2> DEFINE out == ForceRejoin(session.engine, reading)
  <2>1. session # NoSession /\ reading \in Fix /\ reading.p \in Points /\ Sound(session.route, session.engine)
    BY <1>4, <1>t DEF Reroute, Live, TypeOK, Fix, Sessions
  <2>2. session.route \in Routes
    BY <1>u, <2>1 DEF Active
  <2>3. Sound(session.route, out.session)
    BY <2>1, <2>2, ForceRejoinIsSound
  <2>4. SetEngine(out.session) /\ RequestRejoin(out.asks, reading.p)
    BY <1>4 DEF Reroute
  <2> HIDE DEF out
  <2>5. Drives(out.session) /\ requests' \subseteq Request
    BY <1>t, <2>1, <2>4, SetEngineOutcome, RequestType
  <2>6. QED
    BY <1>4, <1>t, <2>1, <2>3, <2>5, DrivenType DEF Reroute, TypeOK
<1>5. ASSUME NEW q \in requests, Rejoined(q) \/ NotRejoined(q) PROVE NInv'
  <2>1. CASE Rejoined(q) /\ Live
    <3>1. session # NoSession /\ Sound(session.route, session.engine) /\ q \in Request
      BY <1>t, <2>1 DEF Live, TypeOK, Sessions
    <3>2. session.route \in Routes
      BY <1>u, <3>1 DEF Active
    <3> DEFINE f == ApplyRejoin(session.engine, q.from, q.to, q.target)
    <3>3. Sound(session.route, f)
      BY <3>1, <3>2, ApplyRejoinIsSound
    <3>4. SetEngine(f)
      BY <2>1 DEF Rejoined
    <3> HIDE DEF f
    <3>5. Drives(f)
      BY <1>t, <3>4, SetEngineOutcome
    <3>6. QED
      <4>1. CASE reading' # NoReading
        BY <1>t, <2>1, <3>1, <3>3, <3>5, <4>1, DrivenType DEF Rejoined, TypeOK
      <4>2. CASE reading' = NoReading
        <5>1. /\ session' \in Active /\ session' # NoSession /\ snapshot' \in Active \cup {NoSession}
              /\ DiskType /\ Sessions'
          BY <1>t, <3>1, <3>3, <3>5, DrivesOutcome
        <5>2. QED
          BY <1>t, <2>1, <4>2, <5>1 DEF Rejoined, NInv, TypeOK, DiskType
      <4>3. QED
        BY <4>1, <4>2
  <2>2. CASE Rejoined(q) /\ ~Live
    BY <1>t, <2>2 DEF Rejoined, NInv, TypeOK, Sessions, disk
  <2>3. CASE NotRejoined(q)
    BY <1>t, <2>3 DEF NotRejoined, NInv, TypeOK, Sessions, disk, history, counts
  <2>4. QED
    BY <1>5, <2>1, <2>2, <2>3
<1>6. ASSUME NEW r \in Routes, Navigate(r) PROVE NInv'
  <2>1. starts' \in 0 .. MaxStarts /\ [id |-> starts + 1, route |-> r] \in [id: Ids, route: Routes]
    BY <1>6, <1>t, NavigationAssumption DEF Navigate, TypeOK, Ids
  <2>2. starting' \subseteq [id: Ids, route: Routes]
    BY <1>6, <1>t, <2>1 DEF Navigate, TypeOK
  <2>3. QED
    BY <1>6, <1>t, <2>1, <2>2 DEF Navigate, NInv, TypeOK, Sessions, disk, history
<1>7. ASSUME NEW s \in starting, CuesArrive(s) PROVE NInv'
  <2> DEFINE active == [id |-> s.id, route |-> s.route, engine |-> Started]
  <2>1. s.id \in Ids /\ s.route \in Routes
    BY <1>t DEF TypeOK
  <2>2. active \in Active /\ Sound(active.route, active.engine) /\ Start(active)
    BY <1>7, <2>1, StartedIsSound DEF Active, Sound, CuesArrive
  <2> HIDE DEF active
  <2>3. /\ session' = active /\ session' # NoSession /\ seen' = FALSE
        /\ snapshot' \in {snapshot, session'} /\ DiskType
    BY <1>t, <2>2, StartedType
  <2>4. Sessions'
    BY <1>t, <2>2, <2>3 DEF Sessions
  <2>5. QED
    BY <1>7, <1>t, <2>2, <2>3, <2>4 DEF CuesArrive, NInv, TypeOK, DiskType
<1>8. ASSUME NEW s \in starting, CuesFail(s) PROVE NInv'
  BY <1>8, <1>t DEF CuesFail, NInv, TypeOK, Sessions, disk, history, counts
<1>9. CASE Dismiss
  <2>1. session.id \in Ids
    BY <1>9, <1>u DEF Dismiss, Active
  <2>2. requests' \subseteq Request
    BY <1>9, <1>t DEF Dismiss, TypeOK, Request
  <2>3. QED
    BY <1>9, <1>t, <2>1, <2>2 DEF Dismiss, NInv, TypeOK, Sessions, counts
<1>10. CASE Resume
  <2>1. CASE Start(snapshot) /\ heard' = <<>> /\ stray' = StrayOf(snapshot.engine)
    <3>1. snapshot \in Active /\ Sound(snapshot.route, snapshot.engine)
      BY <1>10, <1>t, <1>u DEF Resume, Resumable, Sessions
    <3>2. /\ session' = snapshot /\ session' # NoSession /\ seen' = FALSE
          /\ snapshot' = snapshot /\ DiskType
      BY <1>t, <2>1, <3>1, StartedType
    <3>3. stray' \subseteq Times
      BY <2>1 DEF StrayOf
    <3>4. Sessions'
      BY <1>t, <3>1, <3>2 DEF Sessions
    <3>5. QED
      BY <1>10, <1>t, <2>1, <3>1, <3>2, <3>3, <3>4 DEF Resume, NInv, TypeOK, DiskType
  <2>2. CASE /\ snapshot' = NoSession
             /\ UNCHANGED <<session, seen, lastWrite, failed, errors, heard, stray>>
    BY <1>10, <1>t, <2>2 DEF Resume, NInv, TypeOK, Sessions
  <2>3. QED
    BY <1>10, <2>1, <2>2 DEF Resume
<1>11. CASE DismissResume
  <2>1. snapshot.id \in Ids
    BY <1>11, <1>u DEF DismissResume, Resumable, Active
  <2>2. QED
    BY <1>11, <1>t, <2>1 DEF DismissResume, NInv, TypeOK, Sessions, counts
<1>12. CASE Reload
  <2>1. reloads' \in 0 .. MaxReloads
    BY <1>12, <1>t, NavigationAssumption DEF Reload, TypeOK
  <2>2. snapshot' \in {NoSession, snapshot}
    BY <1>12 DEF Reload
  <2>3. Sessions'
    BY <1>12, <1>t, <2>2 DEF Reload, Sessions
  <2>4. QED
    BY <1>12, <1>t, <1>u, <2>1, <2>2, <2>3 DEF Reload, NInv, TypeOK
<1>13. CASE UNCHANGED vars
  BY <1>13, <1>t DEF vars, NInv, TypeOK, Sessions, disk, history, counts
<1>14. QED
  BY <1>1, <1>2, <1>3, <1>4, <1>5, <1>6, <1>7, <1>8, <1>9, <1>10, <1>11, <1>12, <1>13 DEF Next

LEMMA InitTypes ==
  ASSUME Init PROVE NInv
<1>1. 0 \in Times /\ 0 \in 0 .. MaxStarts /\ 0 \in 0 .. MaxReloads /\ 0 \in 0 .. MaxErrors
  BY NavigationAssumption DEF Times
<1>2. heard \in Seq(Spoken)
  BY EmptySeq DEF Init
<1>3. QED
  BY <1>1, <1>2 DEF Init, NInv, TypeOK, Sessions

\* Every variable keeps its type, and a position is known once a session has
\* seen one (navigationStore, useNavigationController).
THEOREM TypeCorrect == Spec => []TypeOK
<1>1. NInv => TypeOK
  BY DEF NInv
<1>2. QED
  BY <1>1, InitTypes, StepKeepsTypes, PTL DEF Spec

----------------------------------------------------------------------------
(* What a step does to the session *)

Rests ==
  /\ UNCHANGED <<session, heard, stray>>
  /\ UNCHANGED <<snapshot, failed>> \/ (session = NoSession /\ snapshot' = NoSession)

\* It takes a fix.
Heeds(fix, out) ==
  /\ Drives(out.session) /\ Sound(session.route, out.session)
  /\ Moves(session.engine, out.session, out.says)
  /\ Strays(session.engine, out.session, OnTrack(fix), fix.at)
  /\ heard' = IF out.says = {} THEN heard ELSE Append(heard, CHOOSE s \in out.says : TRUE)
  /\ stray' = (IF OnTrack(fix) THEN {} ELSE stray \cup {fix.at})

\* It takes a Rejoin, or the rider asks for one.
Turns(f) ==
  /\ Drives(f) /\ Sound(session.route, f) /\ Moves(session.engine, f, {})
  /\ heard' = heard /\ \A t \in Times : ~AstraySince(f, t)
  /\ f.status = "offRoute" => Reroute

Leaves == session' = NoSession /\ heard' = <<>> /\ snapshot' \in {snapshot, NoSession}

\* A session starts where none, or another one, was.
Starts(active) ==
  /\ active \in Active /\ session' = active /\ session' # NoSession
  /\ Sound(active.route, active.engine)
  /\ snapshot' \in {snapshot, session'} /\ Wrote(session', TRUE)
  /\ heard' = <<>> /\ \A t \in Times : AstraySince(active.engine, t) => t \in stray'

LEMMA StepCases ==
  ASSUME NInv, [Next]_vars
  PROVE  \/ Rests
         \/ Leaves
         \/ Live /\ \E fix, out : fix \in Fix /\ Heeds(fix, out)
         \/ Live /\ \E f : Turns(f)
         \/ \E s \in starting : CuesArrive(s) /\ Starts([id |-> s.id, route |-> s.route, engine |-> Started])
         \/ Resume /\ Starts(snapshot)
<1>t. TypeOK /\ Sessions /\ session \in Active \cup {NoSession} /\ snapshot \in Active \cup {NoSession}
  BY DEF NInv, TypeOK
<1>l. ASSUME Live, NEW fix \in Fix, OnLocationUpdate(fix)
      PROVE  \E out : Heeds(fix, out)
  <2>1. PICK out :
           /\ Drives(out.session) /\ Sound(session.route, out.session)
           /\ Moves(session.engine, out.session, out.says)
           /\ Strays(session.engine, out.session, OnTrack(fix), fix.at)
           /\ heard' = IF out.says = {} THEN heard ELSE Append(heard, CHOOSE s \in out.says : TRUE)
           /\ stray' = (IF OnTrack(fix) THEN {} ELSE stray \cup {fix.at})
    BY <1>l, <1>t, LocationOutcome
  <2>2. QED
    BY <2>1 DEF Heeds
<1>1. CASE Tick
  BY <1>1 DEF Tick, Rests, disk, history
<1>2. ASSUME NEW p \in Points, Locate(p) PROVE Rests \/ (Live /\ \E fix, out : fix \in Fix /\ Heeds(fix, out))
  <2> DEFINE fix == [p |-> p, at |-> now]
  <2>1. fix \in Fix
    BY <1>2, <1>t DEF Fix, TypeOK
  <2> HIDE DEF fix
  <2>2. CASE Live
    <3>1. OnLocationUpdate(fix)
      BY <1>2, <2>2 DEF Locate, fix
    <3>2. QED
      BY <1>l, <2>1, <2>2, <3>1
  <2>3. CASE ~Live
    BY <1>2, <2>3 DEF Locate, Rests, disk, history
  <2>4. QED
    BY <2>2, <2>3
<1>3. CASE Relocate
  <2>1. reading \in Fix
    BY <1>3, <1>t DEF Relocate, TypeOK
  <2>2. QED
    BY <1>3, <1>l, <2>1 DEF Relocate
<1>4. CASE Reroute
  <2> DEFINE f == ForceRejoin(session.engine, reading).session
  <2>1. session # NoSession /\ reading \in Fix /\ Sound(session.route, session.engine)
    BY <1>4, <1>t DEF Reroute, Live, TypeOK, Sessions
  <2>2. session.route \in Routes
    BY <1>t, <2>1 DEF Active
  <2>3. Sound(session.route, f) /\ Moves(session.engine, f, {}) /\ f.status = "offRoute"
    BY <1>4, <2>1, <2>2, ForceRejoinIsSound DEF Reroute, Live
  <2>4. SetEngine(f)
    BY <1>4 DEF Reroute
  <2> HIDE DEF f
  <2>5. Drives(f) /\ heard' = heard /\ \A t \in Times : ~AstraySince(f, t)
    BY <1>4, <1>t, <2>3, <2>4, SetEngineOutcome DEF Reroute, AstraySince
  <2>6. Turns(f) /\ Live
    BY <1>4, <2>3, <2>5 DEF Turns, Reroute
  <2>7. QED
    BY <2>6
<1>5. ASSUME NEW q \in requests, Rejoined(q) \/ NotRejoined(q)
      PROVE  Rests \/ (Live /\ \E f : Turns(f))
  <2>1. CASE Rejoined(q) /\ Live
    <3> DEFINE f == ApplyRejoin(session.engine, q.from, q.to, q.target)
    <3>1. session # NoSession /\ Sound(session.route, session.engine) /\ q \in Request
      BY <1>t, <2>1 DEF Live, TypeOK, Sessions
    <3>2. session.route \in Routes
      BY <1>t, <3>1 DEF Active
    <3>3. Sound(session.route, f) /\ Moves(session.engine, f, {})
      BY <3>1, <3>2, ApplyRejoinIsSound
    <3>4. f.status = "rejoining" /\ f.rejoin.since = Never
      <4>1. session.engine.status # "ended" /\ session.engine \in Session
        BY <2>1, <3>1 DEF Live, Sound
      <4>2. QED
        BY <4>1 DEF ApplyRejoin, Session
    <3>5. SetEngine(f) /\ heard' = heard
      BY <2>1 DEF Rejoined
    <3> HIDE DEF f
    <3>6. Never \notin Times
      BY DEF Times, Never
    <3>7. \A t \in Times : ~AstraySince(f, t)
      BY <3>4, <3>6 DEF AstraySince
    <3>8. Turns(f)
      BY <1>t, <3>3, <3>4, <3>5, <3>7, SetEngineOutcome DEF Turns
    <3>9. QED
      BY <2>1, <3>8
  <2>2. CASE ~(Rejoined(q) /\ Live)
    BY <1>5, <2>2 DEF Rejoined, NotRejoined, Rests, disk, history
  <2>3. QED
    BY <2>1, <2>2
<1>6. ASSUME NEW r \in Routes, Navigate(r) PROVE Rests
  BY <1>6 DEF Navigate, Rests, disk, history
<1>7. ASSUME NEW s \in starting, CuesArrive(s)
      PROVE  Starts([id |-> s.id, route |-> s.route, engine |-> Started])
  <2> DEFINE active == [id |-> s.id, route |-> s.route, engine |-> Started]
  <2>1. s.id \in Ids /\ s.route \in Routes
    BY <1>t DEF TypeOK
  <2>2. active \in Active /\ Sound(active.route, active.engine) /\ Start(active)
    BY <1>7, <2>1, StartedIsSound DEF Active, Sound, CuesArrive
  <2>3. active.engine.status = "following" /\ active.engine.since = Never
    BY DEF Started
  <2> HIDE DEF active
  <2>4. Never \notin Times
    BY DEF Times, Never
  <2>5. \A t \in Times : ~AstraySince(active.engine, t)
    BY <2>3, <2>4 DEF AstraySince
  <2>6. heard' = <<>>
    BY <1>7 DEF CuesArrive
  <2>7. Starts(active)
    BY <1>t, <2>2, <2>5, <2>6, StartedType DEF Starts
  <2>8. QED
    BY <2>7 DEF active
<1>8. ASSUME NEW s \in starting, CuesFail(s) PROVE Rests
  BY <1>8 DEF CuesFail, Rests, disk, history
<1>9. CASE Dismiss
  BY <1>9 DEF Dismiss, Leaves
<1>10. CASE Resume
  <2>1. CASE Start(snapshot) /\ heard' = <<>> /\ stray' = StrayOf(snapshot.engine)
    <3>1. snapshot \in Active /\ Sound(snapshot.route, snapshot.engine)
      BY <1>10, <1>t DEF Resume, Resumable, Sessions
    <3>2. \A t \in Times : AstraySince(snapshot.engine, t) => t \in stray'
      BY <2>1 DEF StrayOf, AstraySince
    <3>3. Starts(snapshot)
      BY <1>t, <2>1, <3>1, <3>2, StartedType DEF Starts
    <3>4. QED
      BY <1>10, <3>3
  <2>2. CASE /\ snapshot' = NoSession
             /\ UNCHANGED <<session, seen, lastWrite, failed, errors, heard, stray>>
    BY <1>10, <2>2 DEF Resume, Resumable, Rests
  <2>3. QED
    BY <1>10, <2>1, <2>2 DEF Resume
<1>11. CASE DismissResume
  BY <1>11 DEF DismissResume, Resumable, Rests
<1>12. CASE Reload
  BY <1>12 DEF Reload, Leaves
<1>13. CASE UNCHANGED vars
  BY <1>13 DEF vars, Rests, disk, history
<1>14. QED
  BY <1>1, <1>2, <1>3, <1>4, <1>5, <1>6, <1>7, <1>8, <1>9, <1>10, <1>11, <1>12, <1>13 DEF Next

----------------------------------------------------------------------------
(* The snapshot *)

\* Driving on, or starting, the session keeps its place on disk.
LEMMA DrivesSame ==
  ASSUME NInv, Live, NEW f, Drives(f), Sound(session.route, f)
  PROVE  session' # NoSession /\ session'.id = session.id /\ session'.engine = f
BY DrivesOutcome DEF NInv, Live

LEMMA StepKeepsSnapshot ==
  ASSUME NInv, SnapshotIsOfThisSession, [Next]_vars PROVE SnapshotIsOfThisSession'
<1>d. ASSUME Live, NEW f, Drives(f), Sound(session.route, f) PROVE SnapshotIsOfThisSession'
  <2>1. session # NoSession /\ session' # NoSession /\ session'.id = session.id
    BY <1>d, DrivesSame DEF Live
  <2>2. CASE UNCHANGED <<snapshot, failed>>
    BY <2>1, <2>2 DEF SnapshotIsOfThisSession
  <2>3. CASE Wrote(session', FALSE)
    BY <2>1, <2>3 DEF Wrote, SnapshotIsOfThisSession
  <2>4. QED
    BY <1>d, <2>2, <2>3 DEF Drives
<1>1. CASE Rests
  BY <1>1 DEF Rests, SnapshotIsOfThisSession
<1>2. CASE Leaves
  BY <1>2 DEF Leaves, SnapshotIsOfThisSession
<1>3. ASSUME Live, NEW fix, NEW out, Heeds(fix, out) PROVE SnapshotIsOfThisSession'
  BY <1>3, <1>d DEF Heeds
<1>4. ASSUME Live, NEW f, Turns(f) PROVE SnapshotIsOfThisSession'
  BY <1>4, <1>d DEF Turns
<1>5. ASSUME NEW active, Starts(active) PROVE SnapshotIsOfThisSession'
  BY <1>5 DEF Starts, Wrote, SnapshotIsOfThisSession
<1>6. QED
  BY <1>1, <1>2, <1>3, <1>4, <1>5, StepCases

\* What is on disk is of the session that runs, unless a write has failed
\* (navigationStore writeSnapshot, start, setEngine).
THEOREM SnapshotIsCurrent == Spec => []SnapshotIsOfThisSession
<1>1. Init => SnapshotIsOfThisSession
  BY DEF Init, SnapshotIsOfThisSession
<1>2. QED
  BY <1>1, InitTypes, StepKeepsTypes, StepKeepsSnapshot, PTL DEF Spec

----------------------------------------------------------------------------
(* Sessions the rider has ended *)

\* A session is used once: those to come are neither the running one, nor the
\* one on disk, nor one the rider has ended.
UsedOnce ==
  /\ \A t \in finished : t <= starts
  /\ \A s \in starting :
       /\ s.id <= starts /\ s.id \notin finished
       /\ session # NoSession => s.id # session.id
       /\ snapshot # NoSession => s.id # snapshot.id
       /\ \A t \in starting : s.id = t.id => s = t
  /\ session # NoSession => session.id <= starts /\ session.id \notin finished
  /\ snapshot # NoSession => snapshot.id <= starts /\ snapshot.id \notin finished

LEMMA StepKeepsUsedOnce ==
  ASSUME NInv, UsedOnce, [Next]_vars PROVE UsedOnce'
<1>t. /\ session \in Active \cup {NoSession} /\ snapshot \in Active \cup {NoSession}
      /\ starting \subseteq [id: Ids, route: Routes] /\ starts \in Nat /\ finished \subseteq Ids
      /\ Ids \subseteq Nat
  BY NavigationAssumption DEF NInv, TypeOK, Ids
<1>d. ASSUME Live, NEW f, Drives(f), Sound(session.route, f), UNCHANGED <<starting, finished, starts>>
      PROVE  UsedOnce'
  <2>1. session # NoSession /\ session' # NoSession /\ session'.id = session.id
    BY <1>d, DrivesSame DEF Live
  <2>2. snapshot' \in {snapshot, session'}
    BY <1>d DEF Drives, Wrote
  <2>3. CASE snapshot' = snapshot
    BY <1>d, <2>1, <2>3 DEF UsedOnce
  <2>4. CASE snapshot' = session'
    BY <1>d, <2>1, <2>4 DEF UsedOnce
  <2>5. QED
    BY <2>2, <2>3, <2>4
<1>r. ASSUME session' \in {session, NoSession}, snapshot' \in {snapshot, NoSession},
             starting' \subseteq starting, UNCHANGED <<finished, starts>>
      PROVE  UsedOnce'
  <2>1. CASE session' = session /\ snapshot' = snapshot
    BY <1>r, <2>1 DEF UsedOnce
  <2>2. CASE session' = session /\ snapshot' = NoSession
    BY <1>r, <2>2 DEF UsedOnce
  <2>3. CASE session' = NoSession /\ snapshot' = snapshot
    BY <1>r, <2>3 DEF UsedOnce
  <2>4. CASE session' = NoSession /\ snapshot' = NoSession
    BY <1>r, <2>4 DEF UsedOnce
  <2>5. QED
    BY <1>r, <2>1, <2>2, <2>3, <2>4
<1>l. ASSUME Live, NEW fix \in Fix, OnLocationUpdate(fix) PROVE UsedOnce'
  <2>1. PICK out : /\ Drives(out.session) /\ Sound(session.route, out.session)
                   /\ UNCHANGED <<starting, finished, starts>>
    BY <1>l, LocationOutcome DEF NInv
  <2>2. QED
    BY <1>d, <1>l, <2>1
<1>1. CASE Tick
  BY <1>1, <1>r DEF Tick, disk, history, counts
<1>2. ASSUME NEW p \in Points, Locate(p) PROVE UsedOnce'
  <2> DEFINE fix == [p |-> p, at |-> now]
  <2>1. fix \in Fix
    BY <1>2 DEF Fix, NInv, TypeOK
  <2> HIDE DEF fix
  <2>2. CASE Live
    BY <1>2, <1>l, <2>1, <2>2 DEF Locate, fix
  <2>3. CASE ~Live
    BY <1>2, <1>r, <2>3 DEF Locate, disk, history, counts
  <2>4. QED
    BY <2>2, <2>3
<1>3. CASE Relocate
  BY <1>3, <1>l DEF Relocate, NInv, TypeOK
<1>4. CASE Reroute \/ \E q \in requests : Rejoined(q) \/ NotRejoined(q)
  <2>1. UNCHANGED <<starting, finished, starts>>
    BY <1>4 DEF Reroute, Rejoined, NotRejoined, history, counts
  <2>2. CASE Rests
    BY <1>r, <2>1, <2>2 DEF Rests
  <2>3. CASE Leaves
    BY <1>r, <2>1, <2>3 DEF Leaves
  <2>4. ASSUME Live, NEW fix, NEW out, Heeds(fix, out) PROVE UsedOnce'
    BY <1>d, <2>1, <2>4 DEF Heeds
  <2>5. ASSUME Live, NEW f, Turns(f) PROVE UsedOnce'
    BY <1>d, <2>1, <2>5 DEF Turns
  <2>6. ASSUME NEW s \in starting, CuesArrive(s) PROVE UsedOnce'
    <3>1. s \in starting /\ starting' = starting \ {s}
      BY <2>6 DEF CuesArrive
    <3>2. QED
      BY <2>1, <3>1
  <2>7. CASE Resume /\ Starts(snapshot)
    <3>1. session' = snapshot /\ snapshot' = snapshot /\ session = NoSession /\ snapshot # NoSession
      BY <2>7 DEF Starts, Resume, Resumable
    <3>2. QED
      BY <2>1, <3>1 DEF UsedOnce
  <2>8. QED
    BY <2>2, <2>3, <2>4, <2>5, <2>6, <2>7, StepCases
<1>5. ASSUME NEW r \in Routes, Navigate(r) PROVE UsedOnce'
  <2> DEFINE s == [id |-> starts + 1, route |-> r]
  <2>1. /\ starts' = starts + 1 /\ starting' = starting \cup {s} /\ s.id = starts + 1
        /\ UNCHANGED <<session, snapshot, finished>>
    BY <1>5 DEF Navigate, disk, history
  <2> HIDE DEF s
  <2>2. \A t \in finished : t <= starts' /\ t # s.id
    BY <1>t, <2>1 DEF UsedOnce
  <2>3. \A t \in starting : t.id \in Nat /\ t.id <= starts
    BY <1>t DEF UsedOnce
  <2>4. /\ session # NoSession => session.id \in Nat /\ session.id <= starts
        /\ snapshot # NoSession => snapshot.id \in Nat /\ snapshot.id <= starts
    BY <1>t DEF UsedOnce, Active
  <2>5. /\ session' # NoSession => session'.id <= starts' /\ session'.id \notin finished'
        /\ snapshot' # NoSession => snapshot'.id <= starts' /\ snapshot'.id \notin finished'
    BY <1>t, <2>1, <2>4 DEF UsedOnce
  <2>6. ASSUME NEW a \in starting'
        PROVE  /\ a.id <= starts' /\ a.id \notin finished'
               /\ session' # NoSession => a.id # session'.id
               /\ snapshot' # NoSession => a.id # snapshot'.id
               /\ \A b \in starting' : a.id = b.id => a = b
    <3>1. CASE a = s
      BY <1>t, <2>1, <2>2, <2>3, <2>4, <3>1
    <3>2. CASE a \in starting
      <4>1. a.id <= starts' /\ a.id # s.id
        BY <1>t, <2>1, <2>3, <3>2
      <4>2. QED
        BY <2>1, <3>2, <4>1 DEF UsedOnce
    <3>3. QED
      BY <2>1, <3>1, <3>2
  <2>7. QED
    BY <2>1, <2>2, <2>5, <2>6 DEF UsedOnce
<1>6. ASSUME NEW s \in starting, CuesArrive(s) PROVE UsedOnce'
  <2> DEFINE active == [id |-> s.id, route |-> s.route, engine |-> Started]
  <2>1. /\ session' = active /\ starting' = starting \ {s} /\ UNCHANGED <<finished, starts>>
        /\ active.id = s.id
    BY <1>6 DEF CuesArrive, Start
  <2>2. snapshot' \in {snapshot, session'}
    BY <1>6 DEF CuesArrive, Start, WriteSnapshot
  <2> HIDE DEF active
  <2>3. \A a \in starting' : a \in starting /\ a.id # s.id
    BY <2>1 DEF UsedOnce
  <2>4. CASE snapshot' = snapshot
    BY <2>1, <2>3, <2>4 DEF UsedOnce
  <2>5. CASE snapshot' = session'
    BY <2>1, <2>3, <2>5 DEF UsedOnce
  <2>6. QED
    BY <2>2, <2>4, <2>5
<1>7. ASSUME NEW s \in starting, CuesFail(s) PROVE UsedOnce'
  BY <1>7, <1>r DEF CuesFail, disk, history, counts
<1>8. CASE Dismiss
  <2>1. /\ session # NoSession /\ session' = NoSession /\ snapshot' = NoSession
        /\ finished' = finished \cup {session.id} /\ UNCHANGED <<starting, starts>>
    BY <1>8 DEF Dismiss, counts
  <2>2. QED
    BY <2>1 DEF UsedOnce
<1>9. CASE Resume
  <2>1. UNCHANGED <<starting, finished, starts>> /\ session = NoSession /\ snapshot # NoSession
    BY <1>9 DEF Resume, Resumable
  <2>2. CASE Start(snapshot)
    <3>1. session' = snapshot /\ snapshot' = snapshot
      BY <2>2 DEF Start, WriteSnapshot
    <3>2. QED
      BY <2>1, <3>1 DEF UsedOnce
  <2>3. CASE snapshot' = NoSession /\ session' = session
    BY <1>r, <2>1, <2>3
  <2>4. QED
    BY <1>9, <2>2, <2>3 DEF Resume
<1>10. CASE DismissResume
  <2>1. /\ session = NoSession /\ session' = NoSession /\ snapshot # NoSession /\ snapshot' = NoSession
        /\ finished' = finished \cup {snapshot.id} /\ UNCHANGED <<starting, starts>>
    BY <1>10 DEF DismissResume, Resumable, counts
  <2>2. QED
    BY <2>1 DEF UsedOnce
<1>11. CASE Reload
  <2>1. starting' \subseteq starting
    BY <1>11 DEF Reload
  <2>2. QED
    BY <1>11, <1>r, <2>1 DEF Reload
<1>12. CASE UNCHANGED vars
  BY <1>12, <1>r DEF vars, disk, history, counts
<1>13. QED
  BY <1>1, <1>2, <1>3, <1>4, <1>5, <1>6, <1>7, <1>8, <1>9, <1>10, <1>11, <1>12 DEF Next

LEMMA InitUsedOnce ==
  ASSUME Init PROVE UsedOnce
BY DEF Init, UsedOnce

\* A session the rider has ended is never offered for resuming
\* (navigationStore dismiss, ResumeNavBanner).
THEOREM EndedIsGone == Spec => []EndedByRiderIsGone
<1>1. UsedOnce => EndedByRiderIsGone
  BY DEF UsedOnce, EndedByRiderIsGone
<1>2. QED
  BY <1>1, InitTypes, InitUsedOnce, StepKeepsTypes, StepKeepsUsedOnce, PTL DEF Spec

LEMMA EndedStays ==
  ASSUME NInv, UsedOnce, [Next]_vars, session # NoSession, session.engine.status = "ended"
  PROVE  session' = session \/ session' = NoSession \/ session'.id # session.id
<1>1. ~Live
  BY DEF Live
<1>2. ASSUME NEW s \in starting, Starts([id |-> s.id, route |-> s.route, engine |-> Started])
      PROVE  session'.id # session.id
  BY <1>2 DEF Starts, UsedOnce
<1>3. ~Resume
  BY DEF Resume, Resumable
<1>4. QED
  BY <1>1, <1>2, <1>3, StepCases DEF Rests, Leaves

\* No fix and no late Rejoin brings an ended session back (engine.ts,
\* useNavigationController).
THEOREM EndedIsFinal == Spec => EndedStaysEnded
<1>1. NInv /\ UsedOnce /\ [Next]_vars =>
        [session # NoSession /\ session.engine.status = "ended"
           => \/ session' = session \/ session' = NoSession \/ session'.id # session.id]_vars
  BY EndedStays
<1>2. QED
  BY <1>1, InitTypes, InitUsedOnce, StepKeepsTypes, StepKeepsUsedOnce, PTL DEF Spec, EndedStaysEnded

----------------------------------------------------------------------------
(* The Cues *)

\* What `e` remembers of a Cue that was spoken.
Remembers(e, c) ==
  c[1] <= e.next /\ c[1] <= e.prepared /\ (c[2] = "now" => c[1] <= e.announced)

\* All that was spoken is remembered.  The order alone is not inductive.
Told ==
  \A j \in 1 .. Len(heard) : session # NoSession /\ Remembers(session.engine, heard[j])

CueInv == Told /\ CuesHeardInRouteOrder

LEMMA NothingHeard ==
  ASSUME heard' = <<>> PROVE CueInv'
BY EmptySeq DEF CueInv, Told, CuesHeardInRouteOrder

LEMMA RemembersMore ==
  ASSUME NEW e \in Session, NEW f \in Session, NEW says, Moves(e, f, says),
         NEW c \in Spoken, Remembers(e, c)
  PROVE  Remembers(f, c)
<1>1. c[1] \in Nat
  BY DEF Spoken
<1>2. QED
  BY <1>1 DEF Remembers, Moves, Session

LEMMA HeedingKeepsCues ==
  ASSUME NInv, CueInv, Live, NEW fix \in Fix, NEW out, Heeds(fix, out) PROVE CueInv'
<1> DEFINE e == session.engine
           f == out.session
<1>1. /\ session # NoSession /\ session' # NoSession /\ session'.engine = f
      /\ e \in Session /\ f \in Session /\ Moves(e, f, out.says)
  BY DrivesSame DEF Live, Heeds, NInv, Sessions, Sound
<1>2. heard \in Seq(Spoken) /\ Len(heard) \in Nat /\ \A j \in 1 .. Len(heard) : heard[j] \in Spoken
  <2>1. heard \in Seq(Spoken)
    BY DEF NInv, TypeOK
  <2>2. QED
    BY <2>1, LenProperties, ElementOfSeq
<1>3. \A j \in 1 .. Len(heard) : Remembers(e, heard[j]) /\ Remembers(f, heard[j])
  BY <1>1, <1>2, RemembersMore DEF CueInv, Told
<1>4. CASE out.says = {}
  <2>1. heard' = heard
    BY <1>4 DEF Heeds
  <2>2. QED
    BY <1>1, <1>3, <2>1 DEF CueInv, Told, CuesHeardInRouteOrder
<1>5. CASE out.says # {}
  <2>1. PICK n \in Nat \ {0}, stage \in Stages :
          /\ out.says = {<<n, stage>>} /\ e.next <= n /\ f.next = n /\ f.prepared >= n
          /\ \/ stage = "now" /\ e.announced < n /\ f.announced = n
             \/ stage = "prepare" /\ e.prepared < n
    BY <1>1, <1>5 DEF Moves
  <2> DEFINE c == <<n, stage>>
             h == heard
             len == Len(h)
  <2>2. heard' = Append(heard, c) /\ c \in Spoken /\ c[1] = n /\ c[2] = stage
    <3>1. (CHOOSE s \in out.says : TRUE) \in out.says
      BY <1>5
    <3>2. QED
      BY <1>5, <2>1, <3>1 DEF Heeds, Spoken
  <2>3. /\ h \in Seq(Spoken) /\ len \in Nat /\ heard' = Append(h, c) /\ c \in Spoken
        /\ \A j \in 1 .. len : h[j] \in Spoken /\ Remembers(e, h[j]) /\ Remembers(f, h[j])
    BY <1>2, <1>3, <2>2
  <2> HIDE DEF c, h
  <2>4. /\ Len(heard') = len + 1 /\ heard'[len + 1] = c
        /\ \A j \in 1 .. len : heard'[j] = h[j]
    BY <2>3, AppendProperties
  <2>5. /\ e.announced \in Nat /\ e.prepared \in Nat /\ e.next \in Nat
        /\ f.announced \in Nat /\ f.prepared \in Nat
    BY <1>1 DEF Session
  <2>6. Remembers(f, c)
    BY <2>1, <2>2, <2>5 DEF Remembers, Stages
  <2>7. \A j \in 1 .. len : \/ h[j][1] < c[1]
                            \/ h[j][1] = c[1] /\ h[j][2] = "prepare" /\ c[2] = "now"
    <3>1. SUFFICES ASSUME NEW j \in 1 .. len
                   PROVE  \/ h[j][1] < n
                          \/ h[j][1] = n /\ h[j][2] = "prepare" /\ stage = "now"
      BY <2>2
    <3>2. h[j][1] \in Nat /\ h[j][2] \in {"prepare", "now"}
      BY <2>3 DEF Spoken, Stages
    <3>3. h[j][1] <= e.next /\ h[j][1] <= e.prepared /\ (h[j][2] = "now" => h[j][1] <= e.announced)
      BY <2>3 DEF Remembers
    <3>4. CASE stage = "prepare" /\ e.prepared < n
      BY <2>5, <3>2, <3>3, <3>4
    <3>5. CASE stage = "now" /\ e.announced < n
      <4>1. CASE h[j][2] = "now"
        BY <2>5, <3>2, <3>3, <3>5, <4>1
      <4>2. CASE h[j][2] = "prepare"
        <5>1. h[j][1] < n \/ h[j][1] = n
          BY <2>1, <2>5, <3>2, <3>3
        <5>2. QED
          BY <3>5, <4>2, <5>1
      <4>3. QED
        BY <3>2, <4>1, <4>2
    <3>6. QED
      BY <2>1, <3>4, <3>5
  <2>8. Told'
    <3>1. ASSUME NEW j \in 1 .. len + 1 PROVE Remembers(f, heard'[j])
      <4>1. j = len + 1 \/ j \in 1 .. len
        BY <2>3
      <4>2. QED
        BY <2>3, <2>4, <2>6, <4>1
    <3>2. QED
      BY <1>1, <2>4, <3>1 DEF Told
  <2>9. CuesHeardInRouteOrder'
    <3>1. SUFFICES ASSUME NEW i \in 1 .. len + 1, NEW j \in 1 .. len + 1, i < j
                   PROVE  \/ heard'[i][1] < heard'[j][1]
                          \/ heard'[i][1] = heard'[j][1] /\ heard'[i][2] = "prepare" /\ heard'[j][2] = "now"
      BY <2>4 DEF CuesHeardInRouteOrder
    <3>2. i \in 1 .. len
      BY <2>3, <3>1
    <3>3. CASE j = len + 1
      BY <2>4, <2>7, <3>2, <3>3
    <3>4. CASE j # len + 1
      <4>1. j \in 1 .. len
        BY <2>3, <3>4
      <4>2. QED
        BY <2>4, <3>1, <3>2, <4>1 DEF CueInv, CuesHeardInRouteOrder, h
    <3>5. QED
      BY <3>3, <3>4
  <2>10. QED
    BY <2>8, <2>9 DEF CueInv
<1>6. QED
  BY <1>4, <1>5

LEMMA StepKeepsCues ==
  ASSUME NInv, CueInv, [Next]_vars PROVE CueInv'
<1>1. CASE Rests
  BY <1>1 DEF Rests, CueInv, Told, CuesHeardInRouteOrder
<1>2. CASE Leaves
  BY <1>2, NothingHeard DEF Leaves
<1>3. ASSUME Live, NEW fix \in Fix, NEW out, Heeds(fix, out) PROVE CueInv'
  BY <1>3, HeedingKeepsCues
<1>4. ASSUME Live, NEW f, Turns(f) PROVE CueInv'
  <2>1. /\ session # NoSession /\ session' # NoSession /\ session'.engine = f
        /\ session.engine \in Session /\ f \in Session /\ Moves(session.engine, f, {}) /\ heard' = heard
    BY <1>4, DrivesSame DEF Live, Turns, NInv, Sessions, Sound
  <2>2. \A j \in 1 .. Len(heard) : heard[j] \in Spoken
    <3>1. heard \in Seq(Spoken)
      BY DEF NInv, TypeOK
    <3>2. QED
      BY <3>1, ElementOfSeq
  <2>3. \A j \in 1 .. Len(heard) : Remembers(f, heard[j])
    BY <2>1, <2>2, RemembersMore DEF CueInv, Told
  <2>4. QED
    BY <2>1, <2>3 DEF CueInv, Told, CuesHeardInRouteOrder
<1>5. ASSUME NEW active, Starts(active) PROVE CueInv'
  BY <1>5, NothingHeard DEF Starts
<1>6. QED
  BY <1>1, <1>2, <1>3, <1>4, <1>5, StepCases

LEMMA InitCues ==
  ASSUME Init PROVE CueInv
BY EmptySeq DEF Init, CueInv, Told, CuesHeardInRouteOrder

\* Every Cue is spoken at most twice, "prepare" before "now", in the order of
\* the route, wherever the fixes jump to (engine.ts announceCues).
THEOREM CuesAreInOrder == Spec => []CuesHeardInRouteOrder
<1>1. CueInv => CuesHeardInRouteOrder
  BY DEF CueInv
<1>2. QED
  BY <1>1, InitTypes, InitCues, StepKeepsTypes, StepKeepsCues, PTL DEF Spec

----------------------------------------------------------------------------
(* The dwell *)

\* The time a session remembers to have gone astray at is that of a fix since
\* the last one on what it follows.
Astray ==
  session # NoSession => \A t \in Times : AstraySince(session.engine, t) => t \in stray

LEMMA HeedingKeepsAstray ==
  ASSUME NInv, Astray, Live, NEW fix \in Fix, NEW out, Heeds(fix, out)
  PROVE  /\ Astray'
         /\ session.engine.status # "offRoute" /\ session'.engine.status = "offRoute" =>
              \E a, b \in stray' : b - a >= Dwell
<1>1. /\ session # NoSession /\ session' # NoSession /\ session'.engine = out.session
      /\ Strays(session.engine, out.session, OnTrack(fix), fix.at)
      /\ stray' = (IF OnTrack(fix) THEN {} ELSE stray \cup {fix.at})
  BY DrivesSame DEF Live, Heeds
<1>2. ASSUME NEW t \in Times, AstraySince(out.session, t) PROVE t \in stray'
  <2>1. ~OnTrack(fix) /\ (t = fix.at \/ AstraySince(session.engine, t))
    BY <1>1, <1>2 DEF Strays
  <2>2. QED
    BY <1>1, <2>1 DEF Astray
<1>3. ASSUME session.engine.status # "offRoute", out.session.status = "offRoute"
      PROVE  \E a, b \in stray' : b - a >= Dwell
  <2>1. ~OnTrack(fix)
    BY <1>1, <1>3 DEF Strays
  <2>2. PICK t \in Times : AstraySince(session.engine, t) /\ fix.at - t >= Dwell
    BY <1>1, <1>3 DEF Strays
  <2>3. t \in stray' /\ fix.at \in stray'
    BY <1>1, <2>1, <2>2 DEF Astray
  <2>4. QED
    BY <2>2, <2>3
<1>4. QED
  BY <1>1, <1>2, <1>3 DEF Astray

LEMMA StepKeepsAstray ==
  ASSUME NInv, Astray, [Next]_vars PROVE Astray'
<1>1. CASE Rests
  BY <1>1 DEF Rests, Astray
<1>2. CASE Leaves
  BY <1>2 DEF Leaves, Astray
<1>3. ASSUME Live, NEW fix \in Fix, NEW out, Heeds(fix, out) PROVE Astray'
  BY <1>3, HeedingKeepsAstray
<1>4. ASSUME Live, NEW f, Turns(f) PROVE Astray'
  <2>1. session'.engine = f /\ \A t \in Times : ~AstraySince(f, t)
    BY <1>4, DrivesSame DEF Turns
  <2>2. QED
    BY <2>1 DEF Astray
<1>5. ASSUME NEW active, Starts(active) PROVE Astray'
  BY <1>5 DEF Starts, Astray
<1>6. QED
  BY <1>1, <1>2, <1>3, <1>4, <1>5, StepCases

LEMMA LeavesAfterDwell ==
  ASSUME NInv, UsedOnce, Astray, [Next]_vars, session # NoSession, session' # NoSession,
         session'.id = session.id, session.engine.status # "offRoute",
         session'.engine.status = "offRoute", ~Reroute
  PROVE  \E a, b \in stray' : b - a >= Dwell
<1>1. ~Rests /\ ~Leaves /\ ~Resume
  BY DEF Rests, Leaves, Resume, Resumable
<1>2. ASSUME NEW s \in starting, Starts([id |-> s.id, route |-> s.route, engine |-> Started])
      PROVE  FALSE
  BY <1>2 DEF Starts, UsedOnce
<1>3. ASSUME Live, NEW f, Turns(f) PROVE FALSE
  BY <1>3, DrivesSame DEF Turns
<1>4. QED
  BY <1>1, <1>2, <1>3, HeedingKeepsAstray, StepCases

\* Only fixes off what the session follows, for the whole dwell, make it leave
\* the route by itself (engine.ts advanceNavigation).
THEOREM ReroutesAfterDwell == Spec => RerouteOnlyAfterDwell
<1>1. Init => Astray
  BY DEF Init, Astray
<1>2. NInv /\ UsedOnce /\ Astray /\ [Next]_vars =>
        [\/ session = NoSession \/ session' = NoSession \/ session'.id # session.id
         \/ session.engine.status = "offRoute" \/ session'.engine.status # "offRoute"
         \/ Reroute
         \/ \E a, b \in stray' : b - a >= Dwell]_vars
  BY LeavesAfterDwell
<1>3. QED
  BY <1>1, <1>2, InitTypes, InitUsedOnce, StepKeepsTypes, StepKeepsUsedOnce, StepKeepsAstray,
     PTL DEF Spec, RerouteOnlyAfterDwell
=============================================================================

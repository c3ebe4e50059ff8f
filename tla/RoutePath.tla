----------------------------- MODULE RoutePath -------------------------------
(***************************************************************************)
(* The RouteDraft editor: waypoint edits, the undo history, and the route  *)
(* computations that keep the RoutePath in step with them.                 *)
(*                                                                         *)
(* Every edit changes the waypoints at once and awaits the routing engine; *)
(* nothing stops the next edit meanwhile.  An answer for waypoints that    *)
(* have since changed is discarded.  An edit is patched: only the legs it  *)
(* touched are routed and spliced into the path captured before it; undo   *)
(* and redo may trim that path instead, and any anomaly recomputes all.    *)
(*                                                                         *)
(* Places lie on a line and the engine walks it, so a path runs over every *)
(* place between two waypoints and a detour shows.  A place is within      *)
(* ANCHOR_TOLERANCE_KM of itself only.  Drafts are drawn by hand or loaded *)
(* with the path such a draft was saved with, their waypoints are routed   *)
(* and not snapped, and the engine is online.                              *)
(***************************************************************************)
EXTENDS Integers, SequencesExt

CONSTANTS
  Places,       \* coordinates, a line of integers
  Slots,        \* edits awaiting a reply at once
  MaxDepth,     \* DEFAULT_MAX_DEPTH of the history
  StartDrafts,  \* the waypoints a session may open with
  MaxEdits,     \* bound on the user's operations
  MaxFailures,  \* bound on the failed computations
  MaxReloads    \* bound on the page reloads

ASSUME RoutePathAssumption ==
  /\ Places \subseteq Int /\ \A a, b \in Places : a .. b \subseteq Places
  /\ StartDrafts \subseteq Seq(Places) /\ MaxDepth \in Nat \ {0}
  /\ MaxEdits \in Nat /\ MaxFailures \in Nat /\ MaxReloads \in Nat

VARIABLES
  waypoints, path,      \* the draft
  past, future,         \* its history
  edit,                 \* [Slots -> an edit awaiting a reply, or Idle]
  edits, failures, reloads,
  disturbed,  \* an edit or a reload came while another edit was awaited
  lost        \* the last computation failed or went with its page, or nothing was
              \* routed for waypoints the path may not lie on in order: a restore put
              \* several back in one leg, or a click landed on a draft changed meanwhile

draft == <<waypoints, path, past, future>>
counts == <<edits, failures, reloads>>
vars == <<draft, edit, counts, disturbed, lost>>

Waypoints == Seq(Places)
PreEditState == [waypoints: Waypoints, path: Seq(Places)]
NoState == [waypoints |-> <<>>, path |-> <<>>]
Idle == [pc |-> "idle"]
\* "add" and "move" take the edit back when the route fails; "plain" does not.
Edit == [pc: {"locating", "segment", "full"}, kind: {"add", "move", "plain"},
         next: Waypoints, prev: PreEditState, index: Nat, coord: Places \cup {0}]

----------------------------------------------------------------------------
(* The engine.                                                             *)
Leg(a, b) == IF a <= b THEN [i \in 1 .. b - a + 1 |-> a + i - 1]
                       ELSE [i \in 1 .. a - b + 1 |-> a - i + 1]

Route(stops) ==
  LET upTo[n \in 1 .. Len(stops)] ==
        IF n = 1 THEN <<stops[1]>> ELSE upTo[n - 1] \o Tail(Leg(stops[n - 1], stops[n]))
  IN  upTo[Len(stops)]

----------------------------------------------------------------------------
(* patchRoute.                                                             *)
Off == 0
Least(S) == CHOOSE i \in S : \A j \in S : i <= j

\* anchorIndices: the forward walk; Off from the first waypoint off the path.
Anchors(stops, line) ==
  LET at[k \in 0 .. Len(stops)] ==
        IF k = 0 THEN 1
        ELSE LET from == at[k - 1]
                 hits == {i \in from .. Len(line) : line[i] = stops[k]}
             IN  IF from = Off \/ hits = {} THEN Off ELSE Least(hits)
  IN  at

OnPath(stops, line) == Anchors(stops, line)[Len(stops)] # Off

CommonPrefix(a, b) ==
  CHOOSE n \in 0 .. Len(a) : /\ n <= Len(b) /\ \A i \in 1 .. n : a[i] = b[i]
                             /\ n < Len(a) /\ n < Len(b) => a[n + 1] # b[n + 1]
CommonSuffix(a, b, prefix) ==
  LET match(n) == a[Len(a) + 1 - n] = b[Len(b) + 1 - n]
      most == (IF Len(a) < Len(b) THEN Len(a) ELSE Len(b)) - prefix
  IN  CHOOSE n \in 0 .. most : (\A i \in 1 .. n : match(i)) /\ (n < most => ~match(n + 1))

\* How many of prev's waypoints have appeared, in order, in the first n of next.
Seen(prev, next) ==
  LET seen[n \in 0 .. Len(next)] ==
        IF n = 0 THEN 0
        ELSE LET before == seen[n - 1]
             IN  IF before < Len(prev) /\ next[n] = prev[before + 1] THEN before + 1 ELSE before
  IN  seen

\* Mutant: a waypoint added at either end counts, too, where the path passes it.
OnPathAtEnds(prev, next, line) ==
  /\ Len(next) > Len(prev) /\ OnPath(prev, line)
  /\ LET seen == Seen(prev, next)
     IN  /\ seen[Len(next)] = Len(prev)
         /\ \A n \in 1 .. Len(next) : seen[n] = seen[n - 1] => next[n] \in ToSet(line)

IsPureOnPathInsertion(prev, next, line) ==
  /\ Len(next) > Len(prev) /\ OnPath(prev, line)
  /\ LET seen == Seen(prev, next)
         anchors == Anchors(prev, line)
     IN  /\ seen[Len(next)] = Len(prev)
         /\ \A n \in 1 .. Len(next) : seen[n] = seen[n - 1] =>
              /\ seen[n] \in 1 .. Len(prev) - 1
              /\ \E i \in anchors[seen[n]] .. anchors[seen[n] + 1] : line[i] = next[n]

\* Mutant: the dead via's detour stays on the map.
NoDeadVia(prev, next, line, first, last) == FALSE

\* A waypoint of prev that next lacks sits inside the slice that would be kept.
DeadViaInsideKeptSpan(prev, next, line, first, last) ==
  LET seen == Seen(next, prev)
  IN  \/ ~OnPath(prev, line)
      \/ \E n \in 1 .. Len(prev) :
           seen[n] = seen[n - 1] /\ first < Anchors(prev, line)[n] /\ Anchors(prev, line)[n] < last

\* What a restore keeps of the path, or <<>> where it has to route.
Restored(prev, next, line) ==
  LET first == Anchors(next, line)[1]
      last == Anchors(next, line)[Len(next)]
  IN  IF OnPath(next, line) /\ last > first
         /\ ~DeadViaInsideKeptSpan(prev, next, line, first, last)
      THEN SubSeq(line, first, last) ELSE <<>>

\* The legs to route (segment) and the slices of the old path around them.
Patch(prev, next, line) ==
  LET prefix == CommonPrefix(prev, next)
      suffix == CommonSuffix(prev, next, prefix)
      legs == IF suffix = 0 THEN 0 ELSE suffix - 1
      from == IF prefix = 0 THEN 1 ELSE prefix
      anchors == Anchors(prev, line)
  IN  [segment |-> SubSeq(next, from, Len(next) - legs),
       before |-> IF prefix = 0 THEN <<>> ELSE SubSeq(line, 1, anchors[from]),
       after |-> IF suffix = 0 THEN <<>> ELSE SubSeq(line, anchors[Len(prev) - legs], Len(line))]

\* The legs' own endpoints give way to the kept path's.
Splice(patch) ==
  LET middle == Route(patch.segment)
      head == IF patch.before = <<>> THEN middle ELSE Tail(middle)
      whole == IF patch.after = <<>> \/ head = <<>> THEN head ELSE Front(head)
  IN  patch.before \o whole \o patch.after

\* What patchRoute does before it first awaits the engine.
Plan(prev, next, restore) ==
  LET old == prev.waypoints
  IN  CASE Len(next) < 2 -> "clear"
        [] Len(next) >= 2 /\ (Len(old) < 2 \/ Len(prev.path) < 2) -> "full"
        [] OTHER ->
             IF IsPureOnPathInsertion(old, next, prev.path) THEN "keep"
             ELSE IF restore /\ Len(Restored(old, next, prev.path)) >= 2 THEN "trim"
             ELSE IF old = next THEN "same"
             ELSE IF ~OnPath(old, prev.path) \/ Len(Patch(old, next, prev.path).segment) < 2
             THEN "full" ELSE "segment"

----------------------------------------------------------------------------
(* The store and its history.                                              *)
Current == [waypoints |-> waypoints, path |-> path]  \* capturePreEditState

\* Mutant: the length is checked before the snapshot goes on.
SaveThenTrim ==
  /\ past' = (IF Len(past) <= MaxDepth THEN Append(past, waypoints)
              ELSE Append(Tail(past), waypoints))
  /\ future' = <<>>

\* recordSnapshot.
SaveSnapshot ==
  /\ past' = (IF Len(past) < MaxDepth THEN Append(past, waypoints)
              ELSE Append(Tail(past), waypoints))
  /\ future' = <<>>

Init ==
  /\ waypoints \in StartDrafts
  /\ path = IF Len(waypoints) < 2 THEN <<>> ELSE Route(waypoints)
  /\ past = <<>> /\ future = <<>>
  /\ edit = [s \in Slots |-> Idle]
  /\ edits = 0 /\ failures = 0 /\ reloads = 0
  /\ disturbed = FALSE /\ lost = FALSE

Awaited == {s \in Slots : edit[s] # Idle}

\* One more operation of the user's.
Operate ==
  /\ edits < MaxEdits /\ edits' = edits + 1
  /\ disturbed' = (disturbed \/ Awaited # {})
  /\ UNCHANGED <<failures, reloads>>

Awaiting(pc, kind, next, prev, index, coord) ==
  [pc |-> pc, kind |-> kind, next |-> next, prev |-> prev, index |-> index, coord |-> coord]

\* getRoute for the waypoints the store now holds.
Recompute(s) ==
  /\ IF Len(waypoints') < 2
     THEN path' = <<>> /\ UNCHANGED edit
     ELSE /\ edit' = [edit EXCEPT ![s] =
                        Awaiting("full", "plain", waypoints', NoState, 0, 0)]
          /\ UNCHANGED path
  /\ lost' = FALSE

\* recomputeLocal for the waypoints the store now holds.
RecomputeLocal(s, kind, prev, index, coord, restore) ==
  LET plan == Plan(prev, waypoints', restore)
  IN  /\ path' = CASE plan = "clear" -> <<>>
                   [] plan = "trim" -> Restored(prev.waypoints, waypoints', prev.path)
                   [] OTHER -> path
      /\ edit' = [edit EXCEPT ![s] =
                    IF plan \in {"segment", "full"}
                    THEN Awaiting(plan, kind, waypoints', prev, index, coord) ELSE Idle]
      /\ lost' = \/ lost /\ plan = "same"
                 \/ plan = "keep" /\ Len(waypoints') > Len(prev.waypoints) + 1
                 \/ plan \in {"keep", "same"} /\ waypoints # prev.waypoints

----------------------------------------------------------------------------
(* The edits.                                                              *)

\* addWaypoint, up to the road check; the road a click is moved to may be one
\* the route takes.
AddWaypoint(s, c) ==
  /\ edit[s] = Idle /\ Operate
  /\ SaveSnapshot
  /\ edit' = [edit EXCEPT ![s] = Awaiting("locating", "add", <<>>, Current, 0, c)]
  /\ UNCHANGED <<waypoints, path, lost>>

\* ... and from the road check's answer on.
Place(s) ==
  /\ edit[s] # Idle /\ edit[s].pc = "locating"
  /\ waypoints' = Append(waypoints, edit[s].coord)
  /\ RecomputeLocal(s, "add", edit[s].prev, 0, edit[s].coord, FALSE)
  /\ UNCHANGED <<past, future, counts, disturbed>>

RemoveWaypoint(s, i) ==
  /\ edit[s] = Idle /\ Operate /\ SaveSnapshot
  /\ waypoints' = RemoveAt(waypoints, i)
  /\ RecomputeLocal(s, "plain", Current, 0, 0, FALSE)

MoveWaypoint(s, i, c) ==
  /\ edit[s] = Idle /\ Operate /\ SaveSnapshot
  /\ c # waypoints[i] /\ waypoints' = ReplaceAt(waypoints, i, c)
  /\ RecomputeLocal(s, "move", Current, i, waypoints[i], FALSE)

\* insertWaypointOnRoute's place for a click at c: the last leg found while
\* the search along the path came closer, and the end where it found none.
InsertIndex(c) ==
  LET lastAt(p) == SelectLastInSeq(path, LAMBDA q : q = p)
      leg(i) == {j \in 1 .. Len(waypoints) - 1 :
                   /\ lastAt(waypoints[j]) \in 1 .. i
                   /\ \/ i < lastAt(waypoints[j + 1])
                      \/ j = Len(waypoints) - 1}
      off(i) == LET gap(p) == IF p < c THEN c - p ELSE p - c
                IN  IF gap(path[i]) < gap(path[i + 1]) THEN gap(path[i]) ELSE gap(path[i + 1])
      found == {i \in 1 .. Len(path) - 1 : leg(i) # {} /\ \A k \in 1 .. i - 1 : off(i) < off(k)}
  IN  IF found = {} THEN Len(waypoints) + 1
      ELSE Least(leg(CHOOSE i \in found : \A k \in found : k <= i)) + 1

InsertWaypointOnRoute(s, c) ==
  /\ edit[s] = Idle /\ Operate
  /\ Len(waypoints) >= 1 /\ Len(path) >= 2 /\ c \in ToSet(path) \ ToSet(waypoints)
  /\ SaveSnapshot
  /\ \E i \in 1 .. Len(waypoints) + 1 :
       i = InsertIndex(c) /\ waypoints' = InsertAt(waypoints, i, c)
  /\ RecomputeLocal(s, "plain", Current, 0, 0, FALSE)

\* What reverse and PlanPanel make of the waypoints before a recalculation: one
\* removed from the list or dragged to another place in it, all of them turned
\* round, the way back to the start.
Reorderings ==
  LET n == Len(waypoints)
  IN  {RemoveAt(waypoints, i) : i \in 1 .. n}
      \cup {InsertAt(RemoveAt(waypoints, m[1]), m[2], waypoints[m[1]]) :
               m \in {m \in (1 .. n) \X (1 .. n) : m[1] # m[2]}}
      \cup (IF n < 2 THEN {} ELSE {Reverse(waypoints)})
      \cup (IF n < 2 \/ waypoints[1] = waypoints[n] THEN {}
            ELSE {Append(waypoints, waypoints[1])})

\* ... and SearchModal: another start, end or shared point of a loop.
Replacements ==
  LET n == Len(waypoints)
      withStart(c) == IF n = 0 THEN <<c>> ELSE ReplaceAt(waypoints, 1, c)
      withEnd(c) == IF n < 2 THEN Append(waypoints, c) ELSE ReplaceAt(waypoints, n, c)
  IN  UNION {{withStart(c), withEnd(c), ReplaceAt(withStart(c), Len(withStart(c)), c)} :
               c \in Places}

Rearrange(s) ==
  /\ edit[s] = Idle /\ Operate /\ SaveSnapshot
  /\ waypoints' \in Reorderings \cup Replacements /\ Recompute(s)

\* reset, and PlanPanel's handleClear.
Reset ==
  /\ Operate /\ SaveSnapshot
  /\ waypoints' = <<>> /\ path' = <<>> /\ lost' = FALSE
  /\ UNCHANGED edit

\* loadWaypoints of a route drawn by hand: with the path it was saved with, or
\* routed anew.  Links to bare waypoints take no snapshot.
Load(s, next) ==
  /\ edit[s] = Idle /\ Operate
  /\ SaveSnapshot \/ UNCHANGED <<past, future>>
  /\ waypoints' = next /\ lost' = FALSE
  /\ \/ Len(next) < 2 /\ path' = <<>> /\ UNCHANGED edit
     \/ Len(next) >= 2 /\ Len(Route(next)) >= 2 /\ path' = Route(next) /\ UNCHANGED edit
     \/ /\ Len(next) >= 2 /\ path' = <<>>
        /\ edit' = [edit EXCEPT ![s] = Awaiting("full", "plain", next, NoState, 0, 0)]

Recalculate(s) ==
  /\ edit[s] = Idle /\ Operate
  /\ UNCHANGED <<waypoints, past, future>> /\ Recompute(s)

Undo(s) ==
  /\ edit[s] = Idle /\ Operate /\ past # <<>>
  /\ waypoints' = Last(past) /\ past' = Front(past) /\ future' = Append(future, waypoints)
  /\ RecomputeLocal(s, "plain", Current, 0, 0, TRUE)

Redo(s) ==
  /\ edit[s] = Idle /\ Operate /\ future # <<>>
  /\ waypoints' = Last(future) /\ future' = Front(future) /\ past' = Append(past, waypoints)
  /\ RecomputeLocal(s, "plain", Current, 0, 0, TRUE)

----------------------------------------------------------------------------
(* The engine's answers.                                                   *)
Computing(s) == edit[s] # Idle /\ edit[s].pc \in {"segment", "full"}

\* Mutant: only the number of waypoints is compared.
SameLength(s) == Len(waypoints) = Len(edit[s].next)

\* routeInputsMatch.
InputsMatch(s) == waypoints = edit[s].next

Discard(s) ==
  /\ Computing(s) /\ ~InputsMatch(s)
  /\ edit' = [edit EXCEPT ![s] = Idle]
  /\ UNCHANGED <<draft, counts, disturbed, lost>>

\* A segment that leaves less than a leg goes on to a full recompute.
Answer(s) ==
  LET e == edit[s]
      line == IF e.pc = "full" THEN Route(e.next)
              ELSE Splice(Patch(e.prev.waypoints, e.next, e.prev.path))
  IN  /\ Computing(s) /\ InputsMatch(s)
      /\ IF e.pc = "segment" /\ Len(line) < 2
         THEN edit' = [edit EXCEPT ![s].pc = "full"] /\ UNCHANGED <<path, lost>>
         ELSE edit' = [edit EXCEPT ![s] = Idle] /\ path' = line /\ lost' = FALSE
      /\ UNCHANGED <<waypoints, past, future, counts, disturbed>>

FailOnce == failures < MaxFailures /\ failures' = failures + 1 /\ UNCHANGED <<edits, reloads>>

\* Mutant: a failed segment is left without the full recompute.
FailSegmentForGood(s) ==
  /\ Computing(s) /\ edit[s].pc = "segment" /\ InputsMatch(s) /\ FailOnce
  /\ edit' = [edit EXCEPT ![s].pc = "failed"]
  /\ UNCHANGED <<draft, disturbed, lost>>

FailSegment(s) ==
  /\ Computing(s) /\ edit[s].pc = "segment" /\ InputsMatch(s) /\ FailOnce
  /\ edit' = [edit EXCEPT ![s].pc = "full"]
  /\ UNCHANGED <<draft, disturbed, lost>>

\* The path goes; addWaypoint takes its waypoint back and recomputes, and
\* moveWaypoint puts the old coordinate back.
FailRoute(s) ==
  LET e == edit[s]
  IN  /\ Computing(s) /\ e.pc = "full" /\ InputsMatch(s) /\ FailOnce
      /\ waypoints' = CASE e.kind = "add" -> Front(waypoints)
                        [] e.kind = "move" -> ReplaceAt(waypoints, e.index, e.coord)
                        [] OTHER -> waypoints
      /\ path' = <<>>
      /\ IF e.kind = "add" /\ Len(waypoints') >= 2
         THEN /\ edit' = [edit EXCEPT ![s] =
                            Awaiting("full", "plain", waypoints', NoState, 0, 0)]
              /\ lost' = FALSE
         ELSE edit' = [edit EXCEPT ![s] = Idle] /\ lost' = TRUE
      /\ UNCHANGED <<past, future, disturbed>>

\* The persisted draft and history survive; what was awaited does not.
Reload ==
  /\ reloads < MaxReloads /\ reloads' = reloads + 1
  /\ edit' = [s \in Slots |-> Idle]
  /\ disturbed' = (disturbed \/ Awaited # {}) /\ lost' = (lost \/ Awaited # {})
  /\ UNCHANGED <<draft, edits, failures>>

----------------------------------------------------------------------------
EditStep(s) ==
  \/ \E c \in Places : AddWaypoint(s, c) \/ InsertWaypointOnRoute(s, c)
  \/ \E i \in 1 .. Len(waypoints) :
       RemoveWaypoint(s, i) \/ \E c \in Places : MoveWaypoint(s, i, c)
  \/ \E next \in StartDrafts : Load(s, next)
  \/ Rearrange(s) \/ Recalculate(s) \/ Undo(s) \/ Redo(s)

EngineStep(s) ==
  \/ Place(s) \/ Discard(s) \/ Answer(s) \/ FailSegment(s) \/ FailRoute(s)

Next == (\E s \in Slots : EditStep(s) \/ EngineStep(s)) \/ Reset \/ Reload

Spec == Init /\ [][Next]_vars

----------------------------------------------------------------------------
(* Properties.                                                             *)

TypeOK ==
  /\ waypoints \in Waypoints /\ path \in Seq(Places)
  /\ past \in Seq(Waypoints) /\ future \in Seq(Waypoints)
  /\ edit \in [Slots -> Edit \cup {Idle}]
  /\ edits \in 0 .. MaxEdits /\ failures \in 0 .. MaxFailures /\ reloads \in 0 .. MaxReloads
  /\ disturbed \in BOOLEAN /\ lost \in BOOLEAN

\* The undo and redo stacks together never outgrow the cap: redo does not trim
\* the stack it grows, and relies on undo and the snapshots to have left room.
HistoryBounded == Len(past) + Len(future) <= MaxDepth

\* A route line that does not run through the waypoints in their order is being
\* recomputed for them as they are, and so is a missing one: an answer is only
\* ever discarded because a later edit awaits its own, and a click on the path is
\* routed as any other.  Where it fails is named by `lost`: the code gives up after
\* a failure, keeps the path for several waypoints restored at once, and takes a
\* click for an insertion, or for nothing, when its draft has changed during the
\* road check.
StalePathIsBeingRouted ==
  \/ lost \/ \E s \in Slots : Computing(s) /\ edit[s].next = waypoints
  \/ IF Len(waypoints) < 2 THEN path = <<>> ELSE path # <<>> /\ OnPath(waypoints, path)

\* A failed edit takes back exactly what it did, whatever else was edited.
FailedEditTakesBackItself ==
  [][\A s \in Slots : FailRoute(s) =>
       /\ edit[s].kind = "add" => waypoints = Append(waypoints', edit[s].coord)
       /\ edit[s].kind = "move" => waypoints' = edit[s].prev.waypoints]_vars

\* Once nothing is awaited the route leads nowhere its waypoints do not send
\* it: a via that was removed, moved or undone leaves no detour behind.
NoDetourLeft ==
  Awaited = {} /\ ~lost /\ path # <<>> => ToSet(path) \subseteq ToSet(Route(waypoints))

\* ... where each edit was made after the one before it had settled.
NoDetourLeftInTurn == disturbed \/ NoDetourLeft
=============================================================================

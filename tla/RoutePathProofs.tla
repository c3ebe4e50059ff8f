--------------------------- MODULE RoutePathProofs ----------------------------
(***************************************************************************)
(* Proofs about RoutePath, for any places, any number of edits in flight,  *)
(* any depth of the history and any opening drafts.                        *)
(*                                                                         *)
(* The inductive invariant is PathInv, in six parts: the history           *)
(* (StoreInv), what an awaited edit has done (EditsInv) and may still      *)
(* route (RoutesInv), the counters (CountsInv), that a path off its        *)
(* waypoints is being routed (StalePathIsBeingRouted), and that edits made *)
(* in turn leave none with a detour (TurnInv).  What the plans of          *)
(* patchRoute make of a path comes from RoutePatchProofs.                  *)
(***************************************************************************)
EXTENDS RoutePatchProofs

(* The helpers on sequences keep lists of waypoints lists of waypoints.    *)

LEMMA AppendType ==
  ASSUME NEW S, NEW s \in Seq(S), NEW e \in S
  PROVE  Append(s, e) \in Seq(S) /\ Len(Append(s, e)) = Len(s) + 1
OBVIOUS

LEMMA RemoveType ==
  ASSUME NEW S, NEW s \in Seq(S), NEW i \in 1 .. Len(s)
  PROVE  RemoveAt(s, i) \in Seq(S) /\ Len(RemoveAt(s, i)) = Len(s) - 1
<1> DEFINE a == SubSeq(s, 1, i - 1)
           b == SubSeq(s, i + 1, Len(s))
<1>1. Len(s) \in Nat /\ i \in Int /\ i - 1 \in Int /\ i + 1 \in Int /\ 1 <= i /\ i <= Len(s)
  BY LenProperties
<1>2. \A k \in 1 .. Len(s) : s[k] \in S
  BY ElementOfSeq
<1>3. a \in Seq(S) /\ Len(a) = i - 1
  <2>1. \A k \in 1 .. i - 1 : s[k] \in S
    BY <1>1, <1>2
  <2>2. a \in Seq(S) /\ Len(a) = IF 1 <= i - 1 THEN i - 1 - 1 + 1 ELSE 0
    BY <1>1, <2>1, SubSeqProperties
  <2> HIDE DEF a
  <2>3. QED
    BY <1>1, <2>2
<1>4. b \in Seq(S) /\ Len(b) = Len(s) - i
  <2>1. \A k \in i + 1 .. Len(s) : s[k] \in S
    BY <1>1, <1>2
  <2>2. b \in Seq(S) /\ Len(b) = IF i + 1 <= Len(s) THEN Len(s) - (i + 1) + 1 ELSE 0
    BY <1>1, <2>1, SubSeqProperties
  <2> HIDE DEF b
  <2>3. QED
    BY <1>1, <2>2
<1> HIDE DEF a, b
<1>5. a \o b \in Seq(S) /\ Len(a \o b) = Len(a) + Len(b)
  BY <1>3, <1>4, ConcatProperties
<1>6. RemoveAt(s, i) = a \o b
  BY DEF RemoveAt, a, b
<1>7. Len(a) + Len(b) = Len(s) - 1
  BY <1>1, <1>3, <1>4
<1>8. QED
  BY <1>5, <1>6, <1>7, Zenon

LEMMA InsertType ==
  ASSUME NEW S, NEW s \in Seq(S), NEW i \in 1 .. Len(s) + 1, NEW e \in S
  PROVE  InsertAt(s, i, e) \in Seq(S)
BY DEF InsertAt

LEMMA ReverseType ==
  ASSUME NEW S, NEW s \in Seq(S)
  PROVE  Reverse(s) \in Seq(S)
BY DEF Reverse

LEMMA TailType ==
  ASSUME NEW S, NEW s \in Seq(S), s # <<>>
  PROVE  Tail(s) \in Seq(S) /\ Len(Tail(s)) = Len(s) - 1
BY HeadTailProperties

LEMMA FrontType ==
  ASSUME NEW S, NEW s \in Seq(S), s # <<>>
  PROVE  Front(s) \in Seq(S) /\ Len(Front(s)) = Len(s) - 1 /\ Last(s) \in S
<1>1. Len(s) \in Nat /\ Len(s) >= 1
  BY EmptySeq, LenProperties
<1>2. \A i \in 1 .. Len(s) : s[i] \in S
  BY ElementOfSeq
<1>3. \A i \in 1 .. Len(s) - 1 : s[i] \in S
  BY <1>1, <1>2
<1>4. /\ SubSeq(s, 1, Len(s) - 1) \in Seq(S)
      /\ Len(SubSeq(s, 1, Len(s) - 1)) = IF 1 <= Len(s) - 1 THEN Len(s) - 1 - 1 + 1 ELSE 0
  BY <1>1, <1>3, SubSeqProperties
<1>5. Len(s) \in 1 .. Len(s) /\ (IF 1 <= Len(s) - 1 THEN Len(s) - 1 - 1 + 1 ELSE 0) = Len(s) - 1
  <2>1. \A n \in Nat : n >= 1 =>
          n \in 1 .. n /\ (IF 1 <= n - 1 THEN n - 1 - 1 + 1 ELSE 0) = n - 1
    OBVIOUS
  <2>2. QED
    BY <1>1, <2>1, Zenon
<1>6. s[Len(s)] \in S
  BY <1>2, <1>5
<1>7. QED
  BY <1>4, <1>5, <1>6 DEF Front, Last

LEMMA FrontOfAppend ==
  ASSUME NEW S, NEW s \in Seq(S), NEW e \in S
  PROVE  Front(Append(s, e)) = s
<1>1. Len(s) \in Nat /\ Append(s, e) \in Seq(S) /\ Len(Append(s, e)) = Len(s) + 1
  BY AppendType, LenProperties
<1>2. \A i \in 1 .. Len(s) : Append(s, e)[i] = s[i] /\ s[i] \in S
  BY ElementOfSeq
<1> DEFINE front == SubSeq(Append(s, e), 1, Len(s))
<1>3. front \in Seq(S) /\ Len(front) = Len(s) /\ \A i \in 1 .. Len(s) : front[i] = s[i]
  <2>1. \A i \in 1 .. Len(s) : Append(s, e)[i] \in S
    BY <1>2
  <2>2. /\ front \in Seq(S) /\ Len(front) = (IF 1 <= Len(s) THEN Len(s) - 1 + 1 ELSE 0)
        /\ \A i \in 1 .. Len(s) - 1 + 1 : front[i] = Append(s, e)[1 + i - 1]
    BY <1>1, <2>1, SubSeqProperties
  <2> HIDE DEF front
  <2>3. QED
    BY <1>1, <1>2, <2>2
<1> HIDE DEF front
<1>4. front = s
  BY <1>3, SeqEqual
<1>5. QED
  BY <1>1, <1>4 DEF Front, front

LEMMA ReplaceType ==
  ASSUME NEW S, NEW s \in Seq(S), NEW i \in Nat, NEW e \in S
  PROVE  ReplaceAt(s, i, e) \in Seq(S) /\ Len(ReplaceAt(s, i, e)) = Len(s)
<1>1. ReplaceAt(s, i, e) \in [1 .. Len(s) -> S] /\ Len(s) \in Nat
  BY LenProperties DEF ReplaceAt
<1>2. QED
  BY <1>1

\* Putting the old element back undoes a replacement.
LEMMA ReplaceBack ==
  ASSUME NEW S, NEW s \in Seq(S), NEW i \in 1 .. Len(s), NEW e \in S
  PROVE  ReplaceAt(ReplaceAt(s, i, e), i, s[i]) = s
<1>1. s \in [1 .. Len(s) -> S]
  BY LenProperties
<1>2. QED
  BY <1>1 DEF ReplaceAt

LEMMA RearrangementTypes ==
  ASSUME waypoints \in Seq(Places)
  PROVE  Reorderings \cup Replacements \subseteq Seq(Places)
<1> DEFINE n == Len(waypoints)
           withStart(c) == IF n = 0 THEN <<c>> ELSE ReplaceAt(waypoints, 1, c)
           withEnd(c) == IF n < 2 THEN Append(waypoints, c) ELSE ReplaceAt(waypoints, n, c)
<1>1. n \in Nat
  BY LenProperties
<1>2. ASSUME NEW i \in 1 .. n
      PROVE  /\ RemoveAt(waypoints, i) \in Seq(Places) /\ waypoints[i] \in Places
             /\ Len(RemoveAt(waypoints, i)) = n - 1
  BY RemoveType, ElementOfSeq
<1>3. ASSUME NEW i \in 1 .. n, NEW j \in 1 .. n
      PROVE  InsertAt(RemoveAt(waypoints, i), j, waypoints[i]) \in Seq(Places)
  <2> DEFINE w == RemoveAt(waypoints, i)
  <2>1. w \in Seq(Places) /\ waypoints[i] \in Places /\ Len(w) = n - 1
    BY <1>2
  <2>2. j \in 1 .. Len(w) + 1
    BY <1>1, <2>1
  <2> HIDE DEF w
  <2>3. InsertAt(w, j, waypoints[i]) \in Seq(Places)
    BY <2>1, <2>2, InsertType
  <2>4. QED
    BY <2>3 DEF w
<1>4. Reverse(waypoints) \in Seq(Places)
  BY ReverseType
<1>5. ASSUME ~ (n < 2) PROVE Append(waypoints, waypoints[1]) \in Seq(Places)
  <2>1. 1 \in 1 .. n
    BY <1>1, <1>5
  <2>2. waypoints[1] \in Places
    BY <1>2, <2>1
  <2>3. QED
    BY <2>2, AppendType
<1>6. ASSUME NEW c \in Places
      PROVE  {withStart(c), withEnd(c), ReplaceAt(withStart(c), Len(withStart(c)), c)}
               \subseteq Seq(Places)
  <2> DEFINE w == withStart(c)
  <2>1. w \in Seq(Places)
    BY ReplaceType
  <2>2. withEnd(c) \in Seq(Places)
    BY <1>1, AppendType, ReplaceType
  <2> HIDE DEF w
  <2>3. Len(w) \in Nat
    BY <2>1, LenProperties
  <2>4. ReplaceAt(w, Len(w), c) \in Seq(Places)
    BY <2>1, <2>3, ReplaceType
  <2>5. QED
    BY <2>1, <2>2, <2>4 DEF w
<1> HIDE DEF withStart, withEnd
<1>7. Reorderings \cup Replacements =
        {RemoveAt(waypoints, i) : i \in 1 .. n}
        \cup {InsertAt(RemoveAt(waypoints, k[1]), k[2], waypoints[k[1]]) :
                 k \in {k \in (1 .. n) \X (1 .. n) : k[1] # k[2]}}
        \cup (IF n < 2 THEN {} ELSE {Reverse(waypoints)})
        \cup (IF n < 2 \/ waypoints[1] = waypoints[n] THEN {}
              ELSE {Append(waypoints, waypoints[1])})
        \cup UNION {{withStart(c), withEnd(c), ReplaceAt(withStart(c), Len(withStart(c)), c)} :
                       c \in Places}
  BY DEF Reorderings, Replacements, withStart, withEnd
<1> HIDE DEF n
<1>8. {RemoveAt(waypoints, i) : i \in 1 .. n} \subseteq Seq(Places)
  BY <1>2
<1>9. {InsertAt(RemoveAt(waypoints, k[1]), k[2], waypoints[k[1]]) :
         k \in {k \in (1 .. n) \X (1 .. n) : k[1] # k[2]}} \subseteq Seq(Places)
  BY <1>3
<1>10. UNION {{withStart(c), withEnd(c), ReplaceAt(withStart(c), Len(withStart(c)), c)} :
                c \in Places} \subseteq Seq(Places)
  BY <1>6
<1>11. /\ (IF n < 2 THEN {} ELSE {Reverse(waypoints)}) \subseteq Seq(Places)
       /\ (IF n < 2 \/ waypoints[1] = waypoints[n] THEN {}
           ELSE {Append(waypoints, waypoints[1])}) \subseteq Seq(Places)
  BY <1>4, <1>5
<1>12. QED
  BY <1>7, <1>8, <1>9, <1>10, <1>11

----------------------------------------------------------------------------
(* The history.                                                            *)

\* What the history rests on: lists of waypoints, and room for each redo.
StoreInv ==
  /\ waypoints \in Waypoints /\ past \in Seq(Waypoints) /\ future \in Seq(Waypoints)
  /\ HistoryBounded

\* What an edit still awaited has done: an add appended its waypoint, and a
\* move put one coordinate for another.
EditInv(e) ==
  /\ e = Awaiting(e.pc, e.kind, e.next, e.prev, e.index, e.coord)
  /\ e.kind = "add" =>
       /\ e.coord \in Places
       /\ e.pc # "locating" => \E w \in Waypoints : e.next = Append(w, e.coord)
  /\ e.kind = "move" =>
       /\ e.prev.waypoints \in Waypoints
       /\ e.index \in 1 .. Len(e.prev.waypoints)
       /\ e.coord = e.prev.waypoints[e.index]
       /\ \E c \in Places : e.next = ReplaceAt(e.prev.waypoints, e.index, c)
  /\ e.pc = "locating" => e.kind = "add"

EditsInv ==
  /\ edit = [s \in Slots |-> edit[s]]
  /\ \A s \in Slots : edit[s] # Idle => EditInv(edit[s])

LEMMA SnapshotKeepsBound ==
  ASSUME RoutePathAssumption, StoreInv, SaveSnapshot
  PROVE  past' \in Seq(Waypoints) /\ future' \in Seq(Waypoints)
         /\ Len(past') + Len(future') <= MaxDepth
<1>1. /\ past \in Seq(Waypoints) /\ waypoints \in Waypoints /\ Len(past) \in Nat
      /\ Len(future) \in Nat /\ Len(past) <= MaxDepth /\ MaxDepth \in Nat \ {0}
  BY LenProperties DEF StoreInv, HistoryBounded, RoutePathAssumption
<1>2. future' = <<>> /\ future' \in Seq(Waypoints) /\ Len(future') = 0
  BY EmptySeq DEF SaveSnapshot
<1>3. CASE Len(past) < MaxDepth
  <2>1. past' = Append(past, waypoints)
    BY <1>3 DEF SaveSnapshot
  <2>2. past' \in Seq(Waypoints) /\ Len(past') = Len(past) + 1
    BY <1>1, <2>1, AppendType
  <2>3. QED
    BY <1>1, <1>2, <1>3, <2>2
<1>4. CASE ~(Len(past) < MaxDepth)
  <2>1. past # <<>> /\ Len(past) = MaxDepth
    BY <1>1, <1>4, EmptySeq
  <2>2. past' = Append(Tail(past), waypoints)
    BY <1>4 DEF SaveSnapshot
  <2>3. Tail(past) \in Seq(Waypoints) /\ Len(Tail(past)) = Len(past) - 1
    BY <1>1, <2>1, TailType
  <2>4. past' \in Seq(Waypoints) /\ Len(past') = Len(past) - 1 + 1
    BY <1>1, <2>2, <2>3, AppendType
  <2>5. QED
    BY <1>1, <1>2, <2>1, <2>4
<1>5. QED
  BY <1>3, <1>4

LEMMA UndoTypes ==
  ASSUME StoreInv, past # <<>>
  PROVE  /\ Last(past) \in Waypoints /\ Front(past) \in Seq(Waypoints)
         /\ Append(future, waypoints) \in Seq(Waypoints)
         /\ Len(Front(past)) + Len(Append(future, waypoints)) = Len(past) + Len(future)
<1>1. Last(past) \in Waypoints /\ Front(past) \in Seq(Waypoints) /\ Len(Front(past)) = Len(past) - 1
  BY FrontType DEF StoreInv
<1>2. Append(future, waypoints) \in Seq(Waypoints) /\ Len(Append(future, waypoints)) = Len(future) + 1
  BY AppendType DEF StoreInv
<1>3. Len(past) \in Nat /\ Len(future) \in Nat
  BY LenProperties DEF StoreInv
<1>4. QED
  BY <1>1, <1>2, <1>3

LEMMA RedoTypes ==
  ASSUME StoreInv, future # <<>>
  PROVE  /\ Last(future) \in Waypoints /\ Front(future) \in Seq(Waypoints)
         /\ Append(past, waypoints) \in Seq(Waypoints)
         /\ Len(Append(past, waypoints)) + Len(Front(future)) = Len(past) + Len(future)
<1>1. Last(future) \in Waypoints /\ Front(future) \in Seq(Waypoints)
      /\ Len(Front(future)) = Len(future) - 1
  BY FrontType DEF StoreInv
<1>2. Append(past, waypoints) \in Seq(Waypoints) /\ Len(Append(past, waypoints)) = Len(past) + 1
  BY AppendType DEF StoreInv
<1>3. Len(past) \in Nat /\ Len(future) \in Nat
  BY LenProperties DEF StoreInv
<1>4. QED
  BY <1>1, <1>2, <1>3

\* Every step keeps the waypoints and both stacks lists, and the stacks bounded.
LEMMA StoreStep ==
  ASSUME RoutePathAssumption, StoreInv, EditsInv, [Next]_vars
  PROVE  StoreInv'
<1> USE DEF HistoryBounded
<1>1. ASSUME SaveSnapshot, waypoints' \in Waypoints PROVE StoreInv'
  BY <1>1, SnapshotKeepsBound DEF StoreInv
<1>2. ASSUME UNCHANGED <<past, future>>, waypoints' \in Waypoints PROVE StoreInv'
  BY <1>2 DEF StoreInv
<1>3. waypoints \in Seq(Places) /\ Waypoints = Seq(Places)
  BY DEF StoreInv, Waypoints
<1>4. ASSUME NEW s \in Slots, NEW c \in Places, AddWaypoint(s, c) PROVE StoreInv'
  BY <1>1, <1>4 DEF AddWaypoint, StoreInv
<1>5. ASSUME NEW s \in Slots, NEW c \in Places, InsertWaypointOnRoute(s, c) PROVE StoreInv'
  <2>1. PICK i \in 1 .. Len(waypoints) + 1 : waypoints' = InsertAt(waypoints, i, c)
    BY <1>5 DEF InsertWaypointOnRoute
  <2>2. waypoints' \in Waypoints
    BY <1>3, <2>1, InsertType
  <2>3. QED
    BY <1>1, <1>5, <2>2 DEF InsertWaypointOnRoute
<1>6. ASSUME NEW s \in Slots, Rearrange(s) PROVE StoreInv'
  BY <1>1, <1>3, <1>6, RearrangementTypes DEF Rearrange
<1>7. ASSUME NEW s \in Slots, NEW i \in 1 .. Len(waypoints), RemoveWaypoint(s, i)
      PROVE  StoreInv'
  BY <1>1, <1>3, <1>7, RemoveType DEF RemoveWaypoint
<1>8. ASSUME NEW s \in Slots, NEW i \in 1 .. Len(waypoints), NEW c \in Places,
             MoveWaypoint(s, i, c)
      PROVE  StoreInv'
  <2>1. ReplaceAt(waypoints, i, c) \in Waypoints
    BY <1>3, ReplaceType
  <2>2. QED
    BY <1>1, <1>8, <2>1 DEF MoveWaypoint
<1>9. ASSUME NEW s \in Slots, NEW next \in StartDrafts, Load(s, next) PROVE StoreInv'
  <2>1. waypoints' \in Waypoints
    BY <1>9 DEF Load, RoutePathAssumption, Waypoints
  <2>2. QED
    BY <1>1, <1>2, <1>9, <2>1 DEF Load
<1>10. ASSUME NEW s \in Slots, Recalculate(s) PROVE StoreInv'
  BY <1>2, <1>10 DEF Recalculate, StoreInv
<1>11. ASSUME NEW s \in Slots, Undo(s) PROVE StoreInv'
  BY <1>11, UndoTypes DEF Undo, StoreInv
<1>12. ASSUME NEW s \in Slots, Redo(s) PROVE StoreInv'
  BY <1>12, RedoTypes DEF Redo, StoreInv
<1>13. ASSUME NEW s \in Slots, Place(s) PROVE StoreInv'
  <2>1. EditInv(edit[s]) /\ edit[s].pc = "locating"
    BY <1>13 DEF Place, EditsInv
  <2>2. edit[s].coord \in Places
    BY <2>1 DEF EditInv
  <2>3. Append(waypoints, edit[s].coord) \in Waypoints
    BY <1>3, <2>2, AppendType
  <2>4. QED
    BY <1>2, <1>13, <2>3 DEF Place
<1>14. ASSUME NEW s \in Slots, Discard(s) \/ Answer(s) \/ FailSegment(s) PROVE StoreInv'
  BY <1>2, <1>14 DEF Discard, Answer, FailSegment, StoreInv, draft
<1>15. ASSUME NEW s \in Slots, FailRoute(s) PROVE StoreInv'
  <2> DEFINE e == edit[s]
  <2>1. EditInv(e) /\ waypoints = e.next /\ e.pc = "full"
    BY <1>15 DEF FailRoute, Computing, InputsMatch, EditsInv
  <2>2. waypoints' = CASE e.kind = "add" -> Front(waypoints)
                       [] e.kind = "move" -> ReplaceAt(waypoints, e.index, e.coord)
                       [] OTHER -> waypoints
    BY <1>15 DEF FailRoute
  <2> HIDE DEF e
  <2>3. ASSUME e.kind = "add" PROVE waypoints' \in Waypoints
    <3>1. e.coord \in Places /\ \E w \in Waypoints : e.next = Append(w, e.coord)
      BY <2>1, <2>3 DEF EditInv
    <3>2. PICK w \in Waypoints : waypoints = Append(w, e.coord)
      BY <2>1, <3>1
    <3>3. Front(waypoints) = w
      BY <1>3, <3>1, <3>2, FrontOfAppend
    <3>4. QED
      BY <2>2, <2>3, <3>3
  <2>4. ASSUME e.kind = "move" PROVE waypoints' \in Waypoints
    <3>1. /\ e.prev.waypoints \in Seq(Places) /\ e.index \in 1 .. Len(e.prev.waypoints)
          /\ e.coord = e.prev.waypoints[e.index]
      BY <1>3, <2>1, <2>4 DEF EditInv
    <3>2. e.coord \in Places /\ e.index \in Nat
      BY <3>1, ElementOfSeq
    <3>3. ReplaceAt(waypoints, e.index, e.coord) \in Waypoints
      BY <1>3, <3>2, ReplaceType
    <3>4. QED
      BY <2>2, <2>4, <3>3
  <2>5. ASSUME e.kind # "add", e.kind # "move" PROVE waypoints' \in Waypoints
    BY <1>3, <2>2, <2>5
  <2>6. waypoints' \in Waypoints
    BY <2>3, <2>4, <2>5
  <2>7. QED
    BY <1>2, <1>15, <2>6 DEF FailRoute
<1>16. CASE Reset
  <2>1. <<>> \in Waypoints
    BY <1>3, EmptySeq
  <2>2. QED
    BY <1>1, <1>16, <2>1 DEF Reset
<1>17. CASE Reload
  BY <1>2, <1>17 DEF Reload, draft, StoreInv
<1>18. CASE UNCHANGED vars
  BY <1>2, <1>18 DEF vars, draft, StoreInv
<1>19. QED
  BY <1>4, <1>5, <1>6, <1>7, <1>8, <1>9, <1>10, <1>11, <1>12, <1>13, <1>14, <1>15, <1>16,
     <1>17, <1>18 DEF Next, EditStep, EngineStep

----------------------------------------------------------------------------
(* The edits.                                                              *)

LEMMA AwaitingFields ==
  ASSUME NEW pc, NEW kind, NEW next, NEW prev, NEW index, NEW coord
  PROVE  LET e == Awaiting(pc, kind, next, prev, index, coord)
         IN  /\ e.pc = pc /\ e.kind = kind /\ e.next = next /\ e.prev = prev
             /\ e.index = index /\ e.coord = coord /\ e # Idle
             /\ e = Awaiting(e.pc, e.kind, e.next, e.prev, e.index, e.coord)
BY DEF Awaiting, Idle

LEMMA PlainEdit ==
  ASSUME NEW pc \in {"segment", "full"}, NEW next, NEW prev, NEW index, NEW coord
  PROVE  EditInv(Awaiting(pc, "plain", next, prev, index, coord))
BY AwaitingFields DEF EditInv

\* One slot at a time: the others' edits stay as they are.
LEMMA OneEdit ==
  ASSUME EditsInv, NEW s \in Slots, NEW e, e = Idle \/ EditInv(e),
         edit' = [edit EXCEPT ![s] = e]
  PROVE  EditsInv'
<1>1. edit' = [t \in Slots |-> IF t = s THEN e ELSE edit[t]]
  BY DEF EditsInv
<1>2. \A t \in Slots : edit'[t] = IF t = s THEN e ELSE edit[t]
  BY <1>1
<1>3. edit' = [t \in Slots |-> edit'[t]]
  BY <1>1
<1>4. \A t \in Slots : edit'[t] # Idle => EditInv(edit'[t])
  BY <1>2 DEF EditsInv
<1>5. QED
  BY <1>3, <1>4 DEF EditsInv

\* A patch leaves an edit that routes a segment or everything, or none.
LEMMA LocalEdit ==
  ASSUME EditsInv, NEW s \in Slots, NEW kind, NEW prev, NEW index, NEW coord,
         NEW restore, RecomputeLocal(s, kind, prev, index, coord, restore),
         \A pc \in {"segment", "full"} :
           EditInv(Awaiting(pc, kind, waypoints', prev, index, coord))
  PROVE  EditsInv'
<1> DEFINE plan == Plan(prev, waypoints', restore)
           e == IF plan \in {"segment", "full"}
                THEN Awaiting(plan, kind, waypoints', prev, index, coord) ELSE Idle
<1>1. edit' = [edit EXCEPT ![s] = e]
  BY DEF RecomputeLocal
<1>2. e = Idle \/ EditInv(e)
  <2> HIDE DEF plan
  <2>1. QED
    OBVIOUS
<1> HIDE DEF e
<1>3. QED
  BY <1>1, <1>2, OneEdit

LEMMA PlainLocalEdit ==
  ASSUME EditsInv, NEW s \in Slots, NEW prev, NEW restore,
         RecomputeLocal(s, "plain", prev, 0, 0, restore)
  PROVE  EditsInv'
<1>1. \A pc \in {"segment", "full"} : EditInv(Awaiting(pc, "plain", waypoints', prev, 0, 0))
  BY PlainEdit
<1>2. QED
  BY <1>1, LocalEdit

LEMMA RecomputedEdit ==
  ASSUME EditsInv, NEW s \in Slots, Recompute(s)
  PROVE  EditsInv'
<1>1. CASE UNCHANGED edit
  BY <1>1 DEF EditsInv
<1>2. CASE edit' = [edit EXCEPT ![s] = Awaiting("full", "plain", waypoints', NoState, 0, 0)]
  <2>1. EditInv(Awaiting("full", "plain", waypoints', NoState, 0, 0))
    BY PlainEdit
  <2>2. QED
    BY <1>2, <2>1, OneEdit
<1>3. QED
  BY <1>1, <1>2 DEF Recompute

LEMMA FullNow ==
  ASSUME EditsInv, NEW s \in Slots, Computing(s), edit' = [edit EXCEPT ![s].pc = "full"]
  PROVE  EditsInv'
<1> DEFINE e == edit[s]
           f == Awaiting("full", e.kind, e.next, e.prev, e.index, e.coord)
<1>1. EditInv(e) /\ e.pc # "locating"
  BY DEF Computing, EditsInv
<1>2. edit' = [edit EXCEPT ![s] = [e EXCEPT !.pc = "full"]]
  OBVIOUS
<1>3. [e EXCEPT !.pc = "full"] = f
  <2>1. e = Awaiting(e.pc, e.kind, e.next, e.prev, e.index, e.coord)
    BY <1>1 DEF EditInv
  <2> HIDE DEF e
  <2>2. QED
    BY <2>1 DEF Awaiting
<1>4. EditInv(f)
  <2>1. /\ f.pc = "full" /\ f.kind = e.kind /\ f.next = e.next /\ f.prev = e.prev
        /\ f.index = e.index /\ f.coord = e.coord
        /\ f = Awaiting(f.pc, f.kind, f.next, f.prev, f.index, f.coord)
    BY AwaitingFields
  <2> HIDE DEF e, f
  <2>2. QED
    BY <1>1, <2>1 DEF EditInv
<1> HIDE DEF f
<1>5. edit' = [edit EXCEPT ![s] = f]
  BY <1>2, <1>3
<1>6. QED
  BY <1>4, <1>5, OneEdit

\* Every step leaves each awaited edit with what it did.
LEMMA EditsStep ==
  ASSUME StoreInv, EditsInv, [Next]_vars
  PROVE  EditsInv'
<1>1. ASSUME NEW s \in Slots, edit' = [edit EXCEPT ![s] = Idle] PROVE EditsInv'
  BY <1>1, OneEdit
<1>2. ASSUME UNCHANGED edit PROVE EditsInv'
  BY <1>2 DEF EditsInv
<1>3. ASSUME NEW s \in Slots, NEW c \in Places, AddWaypoint(s, c) PROVE EditsInv'
  <2> DEFINE e == Awaiting("locating", "add", <<>>, Current, 0, c)
  <2>1. edit' = [edit EXCEPT ![s] = e]
    BY <1>3 DEF AddWaypoint
  <2>2. EditInv(e)
    BY AwaitingFields DEF EditInv
  <2> HIDE DEF e
  <2>3. QED
    BY <2>1, <2>2, OneEdit
<1>4. ASSUME NEW s \in Slots, Place(s) PROVE EditsInv'
  <2> DEFINE c == edit[s].coord
             prev == edit[s].prev
  <2>1. c \in Places
    BY <1>4 DEF Place, EditsInv, EditInv
  <2>2. waypoints' = Append(waypoints, c) /\ waypoints \in Waypoints
    BY <1>4 DEF Place, StoreInv
  <2>3. RecomputeLocal(s, "add", prev, 0, c, FALSE)
    BY <1>4 DEF Place
  <2> HIDE DEF c, prev
  <2>4. ASSUME NEW pc \in {"segment", "full"}
        PROVE  EditInv(Awaiting(pc, "add", waypoints', prev, 0, c))
    <3> DEFINE f == Awaiting(pc, "add", waypoints', prev, 0, c)
    <3>1. /\ f.pc = pc /\ f.kind = "add" /\ f.next = waypoints' /\ f.coord = c
          /\ f = Awaiting(f.pc, f.kind, f.next, f.prev, f.index, f.coord)
      BY AwaitingFields
    <3> HIDE DEF f
    <3>2. EditInv(f)
      BY <2>1, <2>2, <3>1 DEF EditInv
    <3>3. QED
      BY <3>2 DEF f
  <2>5. QED
    BY <2>3, <2>4, LocalEdit
<1>5. ASSUME NEW s \in Slots, NEW i \in 1 .. Len(waypoints), NEW c \in Places,
             MoveWaypoint(s, i, c)
      PROVE  EditsInv'
  <2>1. /\ waypoints' = ReplaceAt(waypoints, i, c) /\ waypoints \in Waypoints
        /\ RecomputeLocal(s, "move", Current, i, waypoints[i], FALSE)
    BY <1>5 DEF MoveWaypoint, StoreInv
  <2>2. Current.waypoints = waypoints
    BY DEF Current
  <2>3. ASSUME NEW pc \in {"segment", "full"}
        PROVE  EditInv(Awaiting(pc, "move", waypoints', Current, i, waypoints[i]))
    <3> DEFINE f == Awaiting(pc, "move", waypoints', Current, i, waypoints[i])
    <3>1. /\ f.pc = pc /\ f.kind = "move" /\ f.next = waypoints' /\ f.prev = Current
          /\ f.index = i /\ f.coord = waypoints[i]
          /\ f = Awaiting(f.pc, f.kind, f.next, f.prev, f.index, f.coord)
      BY AwaitingFields
    <3> HIDE DEF f
    <3>2. EditInv(f)
      BY <2>1, <2>2, <3>1 DEF EditInv
    <3>3. QED
      BY <3>2 DEF f
  <2>4. QED
    BY <2>1, <2>3, LocalEdit
<1>6. ASSUME NEW s \in Slots, NEW i, RemoveWaypoint(s, i) PROVE EditsInv'
  BY <1>6, PlainLocalEdit DEF RemoveWaypoint
<1>7. ASSUME NEW s \in Slots, NEW c, InsertWaypointOnRoute(s, c) PROVE EditsInv'
  BY <1>7, PlainLocalEdit DEF InsertWaypointOnRoute
<1>8. ASSUME NEW s \in Slots, Undo(s) \/ Redo(s) PROVE EditsInv'
  BY <1>8, PlainLocalEdit DEF Undo, Redo
<1>9. ASSUME NEW s \in Slots, Rearrange(s) PROVE EditsInv'
  BY <1>9, RecomputedEdit DEF Rearrange
<1>10. ASSUME NEW s \in Slots, Recalculate(s) PROVE EditsInv'
  BY <1>10, RecomputedEdit DEF Recalculate
<1>11. ASSUME NEW s \in Slots, Discard(s) PROVE EditsInv'
  BY <1>1, <1>11 DEF Discard
<1>12. ASSUME NEW s \in Slots, Answer(s) PROVE EditsInv'
  BY <1>1, <1>12, FullNow DEF Answer
<1>13. ASSUME NEW s \in Slots, FailSegment(s) PROVE EditsInv'
  BY <1>13, FullNow DEF FailSegment
<1>14. ASSUME NEW s \in Slots, FailRoute(s) PROVE EditsInv'
  <2>1. \/ edit' = [edit EXCEPT ![s] = Idle]
        \/ edit' = [edit EXCEPT ![s] = Awaiting("full", "plain", waypoints', NoState, 0, 0)]
    BY <1>14 DEF FailRoute
  <2>2. EditInv(Awaiting("full", "plain", waypoints', NoState, 0, 0))
    BY PlainEdit
  <2>3. QED
    BY <1>1, <2>1, <2>2, OneEdit
<1>15. CASE Reset
  BY <1>2, <1>15 DEF Reset
<1>16. CASE Reload
  BY <1>16 DEF Reload, EditsInv
<1>17. CASE UNCHANGED vars
  BY <1>2, <1>17 DEF vars
<1>18. ASSUME NEW s \in Slots, NEW next, Load(s, next) PROVE EditsInv'
  <2>1. EditInv(Awaiting("full", "plain", next, NoState, 0, 0))
    BY PlainEdit
  <2>2. QED
    BY <1>2, <1>18, <2>1, OneEdit DEF Load
<1>19. QED
  BY <1>3, <1>4, <1>5, <1>6, <1>7, <1>8, <1>9, <1>10, <1>11, <1>12, <1>13, <1>14, <1>15,
     <1>16, <1>17, <1>18 DEF Next, EditStep, EngineStep

\* What a failed edit takes back is what it did, by what it remembers: the
\* failure only counts while the waypoints are the ones it left.
LEMMA FailureStep ==
  ASSUME StoreInv, EditsInv, NEW s \in Slots, FailRoute(s)
  PROVE  /\ edit[s].kind = "add" => waypoints = Append(waypoints', edit[s].coord)
         /\ edit[s].kind = "move" => waypoints' = edit[s].prev.waypoints
<1> DEFINE e == edit[s]
<1>1. EditInv(e) /\ waypoints = e.next /\ e.pc = "full"
  BY DEF FailRoute, Computing, InputsMatch, EditsInv
<1>2. /\ e.kind = "add" => waypoints' = Front(waypoints)
      /\ e.kind = "move" => waypoints' = ReplaceAt(waypoints, e.index, e.coord)
  BY DEF FailRoute
<1> HIDE DEF e
<1>3. ASSUME e.kind = "add" PROVE waypoints = Append(waypoints', e.coord)
  <2>1. e.coord \in Places /\ \E w \in Waypoints : e.next = Append(w, e.coord)
    BY <1>1, <1>3 DEF EditInv
  <2>2. PICK w \in Seq(Places) : waypoints = Append(w, e.coord)
    BY <1>1, <2>1 DEF Waypoints
  <2>3. waypoints' = w
    BY <1>2, <1>3, <2>1, <2>2, FrontOfAppend
  <2>4. QED
    BY <2>2, <2>3
<1>4. ASSUME e.kind = "move" PROVE waypoints' = e.prev.waypoints
  <2>1. /\ e.prev.waypoints \in Seq(Places) /\ e.index \in 1 .. Len(e.prev.waypoints)
        /\ e.coord = e.prev.waypoints[e.index]
        /\ \E c \in Places : e.next = ReplaceAt(e.prev.waypoints, e.index, c)
    BY <1>1, <1>4 DEF EditInv, Waypoints
  <2>2. PICK c \in Places : waypoints = ReplaceAt(e.prev.waypoints, e.index, c)
    BY <1>1, <2>1
  <2>3. QED
    BY <1>2, <1>4, <2>1, <2>2, ReplaceBack
<1>5. QED
  BY <1>3, <1>4 DEF e

LEMMA InvAtStart ==
  ASSUME RoutePathAssumption, Init
  PROVE  StoreInv /\ EditsInv
<1>1. waypoints \in Waypoints /\ <<>> \in Seq(Waypoints) /\ Len(<<>>) = 0 /\ MaxDepth \in Nat
  BY EmptySeq DEF Init, RoutePathAssumption, Waypoints
<1>2. StoreInv
  BY <1>1 DEF Init, StoreInv, HistoryBounded
<1>3. EditsInv
  BY DEF Init, EditsInv
<1>4. QED
  BY <1>2, <1>3

----------------------------------------------------------------------------
(* What each plan of patchRoute makes of the path.                         *)

LEMMA PlacesUnbroken == Unbroken(Places)
BY RoutePathAssumption DEF Unbroken

LEMMA PlanFacts ==
  ASSUME NEW prev \in PreEditState, NEW next \in Waypoints, NEW restore
  PROVE  LET old == prev.waypoints
             line == prev.path
             plan == Plan(prev, next, restore)
         IN  /\ plan \in {"clear", "full", "keep", "trim", "same", "segment"}
             /\ plan = "clear" => Len(next) < 2
             /\ plan # "clear" => Len(next) >= 2
             /\ plan \in {"keep", "trim", "same", "segment"} => Len(old) >= 2 /\ Len(line) >= 2
             /\ plan = "keep" => IsPureOnPathInsertion(old, next, line)
             /\ plan = "trim" => restore /\ Len(Restored(old, next, line)) >= 2
             /\ plan = "same" => old = next
             /\ plan = "segment" => OnPath(old, line) /\ Len(Patch(old, next, line).segment) >= 2
<1>1. /\ prev.waypoints \in Seq(Places) /\ prev.path \in Seq(Places) /\ next \in Seq(Places)
  BY DEF PreEditState, Waypoints
<1>2. Len(prev.waypoints) \in Nat /\ Len(prev.path) \in Nat /\ Len(next) \in Nat
  BY <1>1, LenProperties
<1>3. CASE Len(next) < 2
  BY <1>2, <1>3 DEF Plan
<1>4. CASE Len(next) >= 2 /\ (Len(prev.waypoints) < 2 \/ Len(prev.path) < 2)
  BY <1>2, <1>4 DEF Plan
<1> DEFINE segment == Patch(prev.waypoints, next, prev.path).segment
<1>5. CASE Len(next) >= 2 /\ ~ (Len(prev.waypoints) < 2 \/ Len(prev.path) < 2)
  <2> DEFINE old == prev.waypoints
             line == prev.path
             plan == Plan(prev, next, restore)
  <2>1. plan = IF IsPureOnPathInsertion(old, next, line) THEN "keep"
               ELSE IF restore /\ Len(Restored(old, next, line)) >= 2 THEN "trim"
               ELSE IF old = next THEN "same"
               ELSE IF ~ OnPath(old, line) \/ Len(segment) < 2
               THEN "full" ELSE "segment"
    BY <1>2, <1>5 DEF Plan
  <2>2. ~ (Len(segment) < 2) /\ OnPath(old, line) => Len(segment) >= 2
    <3>1. segment \in Seq(Places)
      BY <1>1, PlacesUnbroken, PatchSegment
    <3> HIDE DEF segment
    <3>2. Len(segment) \in Nat
      BY <3>1, LenProperties
    <3>3. QED
      BY <3>2
  <2>3. ~ (Len(old) < 2) => Len(old) >= 2
    BY <1>2
  <2>4. ~ (Len(line) < 2) => Len(line) >= 2
    BY <1>2
  <2> HIDE DEF plan, old, line, segment
  <2>5. Len(next) >= 2 /\ ~ (Len(next) < 2) /\ Len(old) >= 2 /\ Len(line) >= 2
    BY <1>2, <1>5, <2>3, <2>4 DEF old, line
  <2>6. QED
    BY <2>1, <2>2, <2>5 DEF plan, old, line, segment
<1>6. QED
  BY <1>2, <1>3, <1>4, <1>5

----------------------------------------------------------------------------
(* Types, and what an awaited edit may still route.                        *)

\* An edit still awaited: it routes at least a leg, and a segment of it fits
\* the path it was captured with.
AwaitedRoute(e) ==
  /\ e \in Edit
  /\ e.pc # "locating" => Len(e.next) >= 2
  /\ e.pc = "segment" =>
       /\ OnPath(e.prev.waypoints, e.prev.path)
       /\ Len(Patch(e.prev.waypoints, e.next, e.prev.path).segment) >= 2

RoutesInv ==
  /\ path \in Seq(Places)
  /\ \A s \in Slots : edit[s] # Idle => AwaitedRoute(edit[s])

LEMMA AwaitingIsEdit ==
  ASSUME NEW pc \in {"locating", "segment", "full"}, NEW kind \in {"add", "move", "plain"},
         NEW next \in Waypoints, NEW prev \in PreEditState, NEW index \in Nat,
         NEW coord \in Places \cup {0}
  PROVE  Awaiting(pc, kind, next, prev, index, coord) \in Edit
BY DEF Awaiting, Edit

LEMMA EditFields ==
  ASSUME NEW e \in Edit
  PROVE  /\ e.pc \in {"locating", "segment", "full"} /\ e.kind \in {"add", "move", "plain"}
         /\ e.next \in Waypoints /\ e.prev \in PreEditState /\ e.index \in Nat
         /\ e.coord \in Places \cup {0}
         /\ e.prev.waypoints \in Waypoints /\ e.prev.path \in Seq(Places)
BY DEF Edit, PreEditState

LEMMA CurrentState ==
  ASSUME StoreInv, RoutesInv
  PROVE  /\ Current \in PreEditState /\ Current.waypoints = waypoints /\ Current.path = path
         /\ NoState \in PreEditState
         /\ waypoints \in Seq(Places) /\ path \in Seq(Places) /\ Waypoints = Seq(Places)
<1>1. <<>> \in Seq(Places)
  BY EmptySeq
<1>2. QED
  BY <1>1 DEF StoreInv, RoutesInv, Current, NoState, PreEditState, Waypoints

\* One slot at a time: the others' edits stay as they are.
LEMMA SlotSet ==
  ASSUME EditsInv, NEW s \in Slots, NEW e, edit' = [edit EXCEPT ![s] = e]
  PROVE  \A t \in Slots : edit'[t] = IF t = s THEN e ELSE edit[t]
BY DEF EditsInv

LEMMA OneRoute ==
  ASSUME EditsInv, RoutesInv, NEW s \in Slots, NEW e, e = Idle \/ AwaitedRoute(e),
         edit' = [edit EXCEPT ![s] = e], path' \in Seq(Places)
  PROVE  RoutesInv'
<1>1. \A t \in Slots : edit'[t] = IF t = s THEN e ELSE edit[t]
  BY SlotSet
<1>2. QED
  BY <1>1 DEF RoutesInv

LEMMA NoRoute ==
  ASSUME RoutesInv, UNCHANGED edit, path' \in Seq(Places)
  PROVE  RoutesInv'
BY DEF RoutesInv

LEMMA FullRoute ==
  ASSUME NEW next \in Waypoints, Len(next) >= 2
  PROVE  AwaitedRoute(Awaiting("full", "plain", next, NoState, 0, 0))
<1> DEFINE e == Awaiting("full", "plain", next, NoState, 0, 0)
<1>1. NoState \in PreEditState
  BY EmptySeq DEF NoState, PreEditState, Waypoints
<1>2. e \in Edit
  BY <1>1, AwaitingIsEdit
<1>3. e.pc = "full" /\ e.next = next
  BY AwaitingFields
<1> HIDE DEF e
<1>4. QED
  BY <1>2, <1>3 DEF AwaitedRoute, e

LEMMA LocalRoute ==
  ASSUME EditsInv, RoutesInv, waypoints' \in Waypoints,
         NEW s \in Slots, NEW kind \in {"add", "move", "plain"}, NEW prev \in PreEditState,
         NEW index \in Nat, NEW coord \in Places \cup {0}, NEW restore,
         RecomputeLocal(s, kind, prev, index, coord, restore)
  PROVE  RoutesInv'
<1> DEFINE next == waypoints'
           plan == Plan(prev, next, restore)
           old == prev.waypoints
           e == IF plan \in {"segment", "full"}
                THEN Awaiting(plan, kind, next, prev, index, coord) ELSE Idle
           f == Awaiting(plan, kind, next, prev, index, coord)
<1>1. /\ edit' = [edit EXCEPT ![s] = e]
      /\ path' = CASE plan = "clear" -> <<>>
                   [] plan = "trim" -> Restored(old, next, prev.path)
                   [] OTHER -> path
  BY DEF RecomputeLocal
<1>2. /\ plan \in {"clear", "full", "keep", "trim", "same", "segment"}
      /\ plan # "clear" => Len(next) >= 2
      /\ plan \in {"keep", "trim", "same", "segment"} => Len(old) >= 2
      /\ plan = "trim" => Len(Restored(old, next, prev.path)) >= 2
      /\ plan = "segment" =>
           OnPath(old, prev.path) /\ Len(Patch(old, next, prev.path).segment) >= 2
  BY PlanFacts
<1>3. /\ old \in Seq(Places) /\ prev.path \in Seq(Places) /\ next \in Seq(Places)
      /\ path \in Seq(Places) /\ <<>> \in Seq(Places)
  BY EmptySeq DEF PreEditState, Waypoints, RoutesInv
<1>4. Len(old) \in Nat /\ Len(next) \in Nat
  BY <1>3, LenProperties
<1> HIDE DEF plan, next, old
<1>5. plan = "trim" => Restored(old, next, prev.path) \in Seq(Places)
  BY <1>2, <1>3, <1>4, PlacesUnbroken, RestoredFits
<1>6. path' \in Seq(Places)
  BY <1>1, <1>2, <1>3, <1>5
<1>7. ASSUME plan \in {"segment", "full"} PROVE AwaitedRoute(f)
  <2>1. f \in Edit
    BY <1>7, AwaitingIsEdit DEF next
  <2>2. f.pc = plan /\ f.next = next /\ f.prev = prev
    BY AwaitingFields
  <2>3. Len(next) >= 2
    BY <1>2, <1>7
  <2> HIDE DEF f
  <2>4. QED
    BY <1>2, <1>7, <2>1, <2>2, <2>3 DEF AwaitedRoute, old
<1>8. e = Idle \/ AwaitedRoute(e)
  BY <1>7
<1> HIDE DEF e, f
<1>9. QED
  BY <1>1, <1>6, <1>8, OneRoute

LEMMA AllRoute ==
  ASSUME EditsInv, RoutesInv, waypoints' \in Waypoints, NEW s \in Slots, Recompute(s)
  PROVE  RoutesInv'
<1>1. <<>> \in Seq(Places) /\ path \in Seq(Places) /\ Len(waypoints') \in Nat
  BY EmptySeq, LenProperties DEF RoutesInv, Waypoints
<1>2. CASE Len(waypoints') < 2
  BY <1>1, <1>2, NoRoute DEF Recompute
<1>3. CASE ~ (Len(waypoints') < 2)
  <2>1. AwaitedRoute(Awaiting("full", "plain", waypoints', NoState, 0, 0))
    BY <1>1, <1>3, FullRoute
  <2>2. QED
    BY <1>1, <1>3, <2>1, OneRoute DEF Recompute
<1>4. QED
  BY <1>2, <1>3

\* What an answer draws.
LEMMA AnsweredLine ==
  ASSUME NEW e \in Edit, AwaitedRoute(e), e.pc \in {"segment", "full"}
  PROVE  LET line == IF e.pc = "full" THEN Route(e.next)
                     ELSE Splice(Patch(e.prev.waypoints, e.next, e.prev.path))
         IN  /\ line \in Seq(Places) /\ OnPath(e.next, line)
             /\ e.pc = "full" => Fitted(e.next, line) /\ line # <<>>
             /\ e.pc = "segment" /\ Fitted(e.prev.waypoints, e.prev.path) => Fitted(e.next, line)
<1>1. /\ e.next \in Seq(Places) /\ e.prev.waypoints \in Seq(Places) /\ e.prev.path \in Seq(Places)
  BY EditFields DEF Waypoints
<1>2. Len(e.next) >= 2 /\ Len(e.next) \in Nat
  BY <1>1, LenProperties DEF AwaitedRoute
<1>3. CASE e.pc = "full"
  <2>1. Len(e.next) >= 1
    BY <1>2
  <2>2. Fitted(e.next, Route(e.next)) /\ Route(e.next) \in Seq(Places)
    BY <1>1, <2>1, PlacesUnbroken, RouteFits
  <2>3. Route(e.next) # <<>>
    BY <1>1, <2>1, PlacesUnbroken, RouteNotEmpty
  <2>4. QED
    BY <1>3, <2>2, <2>3 DEF Fitted
<1>4. CASE e.pc = "segment"
  <2>1. /\ OnPath(e.prev.waypoints, e.prev.path)
        /\ Len(Patch(e.prev.waypoints, e.next, e.prev.path).segment) >= 2
    BY <1>4 DEF AwaitedRoute
  <2>2. LET r == Splice(Patch(e.prev.waypoints, e.next, e.prev.path))
        IN  r \in Seq(Places) /\ OnPath(e.next, r)
            /\ (Fitted(e.prev.waypoints, e.prev.path) => Fitted(e.next, r))
    BY <1>1, <2>1, PlacesUnbroken, SpliceFits
  <2>3. QED
    BY <1>4, <2>2
<1>5. QED
  BY <1>3, <1>4

\* Every step keeps what is awaited routable, and the path a list of places.
LEMMA RoutesStep ==
  ASSUME StoreInv, EditsInv, RoutesInv, StoreInv', [Next]_vars
  PROVE  RoutesInv'
<1>1. /\ Current \in PreEditState /\ Current.waypoints = waypoints /\ Current.path = path
      /\ waypoints \in Seq(Places) /\ path \in Seq(Places) /\ Waypoints = Seq(Places)
      /\ <<>> \in Seq(Places)
  BY CurrentState, EmptySeq
<1>2. waypoints' \in Waypoints
  BY DEF StoreInv
<1>3. ASSUME NEW s \in Slots, edit' = [edit EXCEPT ![s] = Idle], path' \in Seq(Places)
      PROVE  RoutesInv'
  BY <1>3, OneRoute
<1>4. ASSUME NEW s \in Slots, NEW c \in Places, AddWaypoint(s, c) PROVE RoutesInv'
  <2> DEFINE e == Awaiting("locating", "add", <<>>, Current, 0, c)
  <2>1. edit' = [edit EXCEPT ![s] = e] /\ path' = path
    BY <1>4 DEF AddWaypoint
  <2>2. e \in Edit
    BY <1>1, AwaitingIsEdit
  <2>3. e.pc = "locating" /\ e.coord = c /\ e.prev = Current
    BY AwaitingFields
  <2> HIDE DEF e
  <2>4. AwaitedRoute(e)
    BY <1>1, <2>1, <2>2, <2>3 DEF AwaitedRoute
  <2>5. QED
    BY <1>1, <2>1, <2>4, OneRoute
<1>5. ASSUME NEW s \in Slots, Place(s) PROVE RoutesInv'
  <2>1. edit[s] \in Edit /\ edit[s].pc = "locating"
    BY <1>5 DEF Place, RoutesInv, AwaitedRoute
  <2>2. edit[s].prev \in PreEditState /\ edit[s].coord \in Places \cup {0}
    BY <2>1, EditFields
  <2>3. RecomputeLocal(s, "add", edit[s].prev, 0, edit[s].coord, FALSE)
    BY <1>5 DEF Place
  <2>4. QED
    BY <1>2, <2>2, <2>3, LocalRoute
<1>6. ASSUME NEW s \in Slots, NEW i \in 1 .. Len(waypoints), NEW c \in Places,
             MoveWaypoint(s, i, c)
      PROVE  RoutesInv'
  <2>1. RecomputeLocal(s, "move", Current, i, waypoints[i], FALSE)
    BY <1>6 DEF MoveWaypoint
  <2>2. waypoints[i] \in Places \cup {0} /\ i \in Nat
    BY <1>1, ElementOfSeq
  <2>3. QED
    BY <1>1, <1>2, <2>1, <2>2, LocalRoute
<1>7. ASSUME NEW s \in Slots, NEW restore, RecomputeLocal(s, "plain", Current, 0, 0, restore)
      PROVE  RoutesInv'
  BY <1>1, <1>2, <1>7, LocalRoute
<1>8. ASSUME NEW s \in Slots, NEW i, RemoveWaypoint(s, i) PROVE RoutesInv'
  BY <1>7, <1>8 DEF RemoveWaypoint
<1>9. ASSUME NEW s \in Slots, NEW c, InsertWaypointOnRoute(s, c) PROVE RoutesInv'
  BY <1>7, <1>9 DEF InsertWaypointOnRoute
<1>10. ASSUME NEW s \in Slots, Undo(s) \/ Redo(s) PROVE RoutesInv'
  BY <1>7, <1>10 DEF Undo, Redo
<1>11. ASSUME NEW s \in Slots, Rearrange(s) \/ Recalculate(s) PROVE RoutesInv'
  BY <1>2, <1>11, AllRoute DEF Rearrange, Recalculate
<1>12. ASSUME NEW s \in Slots, NEW next \in StartDrafts, Load(s, next) PROVE RoutesInv'
  <2>1. /\ waypoints' = next
        /\ \/ Len(next) < 2 /\ path' = <<>> /\ UNCHANGED edit
           \/ Len(next) >= 2 /\ path' = Route(next) /\ UNCHANGED edit
           \/ /\ Len(next) >= 2 /\ path' = <<>>
              /\ edit' = [edit EXCEPT ![s] = Awaiting("full", "plain", next, NoState, 0, 0)]
    BY <1>12 DEF Load
  <2>2. next \in Seq(Places) /\ Len(next) \in Nat
    BY <1>1, <1>2, <2>1, LenProperties
  <2>3. Len(next) >= 2 => Route(next) \in Seq(Places)
    BY <2>2, PlacesUnbroken, RouteFits
  <2>4. Len(next) >= 2 => AwaitedRoute(Awaiting("full", "plain", next, NoState, 0, 0))
    BY <1>1, <2>2, FullRoute
  <2>5. QED
    BY <1>1, <2>1, <2>3, <2>4, NoRoute, OneRoute
<1>13. ASSUME NEW s \in Slots, Computing(s)
       PROVE  /\ edit[s] \in Edit /\ AwaitedRoute(edit[s]) /\ edit[s].pc \in {"segment", "full"}
              /\ AwaitedRoute([edit[s] EXCEPT !.pc = "full"])
  <2> DEFINE e == edit[s]
             f == [e EXCEPT !.pc = "full"]
  <2>1. AwaitedRoute(e) /\ e.pc \in {"segment", "full"} /\ e \in Edit
    BY <1>13 DEF Computing, RoutesInv, AwaitedRoute
  <2> HIDE DEF e
  <2>2. f \in Edit /\ f.pc = "full" /\ f.next = e.next
    BY <2>1 DEF Edit
  <2>3. Len(e.next) >= 2
    BY <2>1 DEF AwaitedRoute
  <2> HIDE DEF f
  <2>4. AwaitedRoute(f)
    BY <2>2, <2>3 DEF AwaitedRoute
  <2>5. QED
    BY <2>1, <2>4 DEF e, f
<1>14. ASSUME NEW s \in Slots, Computing(s), edit' = [edit EXCEPT ![s].pc = "full"], path' = path
       PROVE  RoutesInv'
  <2>1. edit' = [edit EXCEPT ![s] = [edit[s] EXCEPT !.pc = "full"]]
    BY <1>14
  <2>2. QED
    BY <1>1, <1>13, <1>14, <2>1, OneRoute
<1>15. ASSUME NEW s \in Slots, Discard(s) PROVE RoutesInv'
  BY <1>1, <1>3, <1>15 DEF Discard, draft
<1>16. ASSUME NEW s \in Slots, Answer(s) PROVE RoutesInv'
  <2> DEFINE e == edit[s]
             line == IF e.pc = "full" THEN Route(e.next)
                     ELSE Splice(Patch(e.prev.waypoints, e.next, e.prev.path))
  <2>1. /\ Computing(s)
        /\ \/ edit' = [edit EXCEPT ![s].pc = "full"] /\ path' = path
           \/ edit' = [edit EXCEPT ![s] = Idle] /\ path' = line
    BY <1>16 DEF Answer
  <2>2. line \in Seq(Places)
    BY <1>13, <2>1, AnsweredLine
  <2> HIDE DEF line
  <2>3. QED
    BY <1>3, <1>14, <2>1, <2>2
<1>17. ASSUME NEW s \in Slots, FailSegment(s) PROVE RoutesInv'
  BY <1>14, <1>17 DEF FailSegment, draft
<1>18. ASSUME NEW s \in Slots, FailRoute(s) PROVE RoutesInv'
  <2>1. /\ path' = <<>>
        /\ \/ edit' = [edit EXCEPT ![s] = Idle]
           \/ /\ Len(waypoints') >= 2
              /\ edit' = [edit EXCEPT ![s] = Awaiting("full", "plain", waypoints', NoState, 0, 0)]
    BY <1>18 DEF FailRoute
  <2>2. Len(waypoints') >= 2 =>
          AwaitedRoute(Awaiting("full", "plain", waypoints', NoState, 0, 0))
    BY <1>2, FullRoute
  <2>3. QED
    BY <1>1, <1>3, <2>1, <2>2, OneRoute
<1>19. CASE Reset
  BY <1>1, <1>19, NoRoute DEF Reset
<1>20. CASE Reload
  BY <1>1, <1>20 DEF Reload, RoutesInv, draft
<1>21. CASE UNCHANGED vars
  BY <1>1, <1>21, NoRoute DEF vars, draft
<1>22. QED
  BY <1>4, <1>5, <1>6, <1>8, <1>9, <1>10, <1>11, <1>12, <1>15, <1>16, <1>17, <1>18, <1>19,
     <1>20, <1>21 DEF Next, EditStep, EngineStep

\* The counters, and the two flags.
CountsInv ==
  /\ edits \in 0 .. MaxEdits /\ failures \in 0 .. MaxFailures /\ reloads \in 0 .. MaxReloads
  /\ disturbed \in BOOLEAN /\ lost \in BOOLEAN

LEMMA CountsStep ==
  ASSUME CountsInv, [Next]_vars
  PROVE  CountsInv'
<1>1. MaxEdits \in Nat /\ MaxFailures \in Nat /\ MaxReloads \in Nat
  BY RoutePathAssumption DEF RoutePathAssumption
<1>2. ASSUME Operate, lost' \in BOOLEAN PROVE CountsInv'
  BY <1>1, <1>2 DEF CountsInv, Operate
<1>3. ASSUME UNCHANGED <<counts, disturbed>>, lost' \in BOOLEAN PROVE CountsInv'
  BY <1>3 DEF CountsInv, counts
<1>4. ASSUME FailOnce, UNCHANGED disturbed, lost' \in BOOLEAN PROVE CountsInv'
  BY <1>1, <1>4 DEF CountsInv, FailOnce
<1>5. lost \in BOOLEAN
  BY DEF CountsInv
<1>6. ASSUME NEW s, NEW kind, NEW prev, NEW index, NEW coord, NEW restore,
             RecomputeLocal(s, kind, prev, index, coord, restore)
      PROVE  lost' \in BOOLEAN
  BY <1>5, <1>6 DEF RecomputeLocal
<1>7. ASSUME NEW s, Recompute(s) PROVE lost' \in BOOLEAN
  BY <1>7 DEF Recompute
<1>8. ASSUME NEW s \in Slots, EditStep(s) PROVE CountsInv'
  <2>1. ASSUME NEW c, AddWaypoint(s, c) \/ InsertWaypointOnRoute(s, c) PROVE CountsInv'
    BY <1>2, <1>5, <1>6, <2>1 DEF AddWaypoint, InsertWaypointOnRoute
  <2>2. ASSUME NEW i, RemoveWaypoint(s, i) PROVE CountsInv'
    BY <1>2, <1>6, <2>2 DEF RemoveWaypoint
  <2>3. ASSUME NEW i, NEW c, MoveWaypoint(s, i, c) PROVE CountsInv'
    BY <1>2, <1>6, <2>3 DEF MoveWaypoint
  <2>4. ASSUME NEW next, Load(s, next) PROVE CountsInv'
    BY <1>2, <2>4 DEF Load
  <2>5. CASE Rearrange(s) \/ Recalculate(s)
    BY <1>2, <1>7, <2>5 DEF Rearrange, Recalculate
  <2>6. CASE Undo(s) \/ Redo(s)
    BY <1>2, <1>6, <2>6 DEF Undo, Redo
  <2>7. QED
    BY <1>8, <2>1, <2>2, <2>3, <2>4, <2>5, <2>6 DEF EditStep
<1>9. ASSUME NEW s \in Slots, EngineStep(s) PROVE CountsInv'
  <2>1. CASE Place(s)
    BY <1>3, <1>6, <2>1 DEF Place
  <2>2. CASE Discard(s) \/ Answer(s)
    BY <1>3, <1>5, <2>2 DEF Discard, Answer
  <2>3. CASE FailSegment(s) \/ FailRoute(s)
    BY <1>4, <1>5, <2>3 DEF FailSegment, FailRoute
  <2>4. QED
    BY <1>9, <2>1, <2>2, <2>3 DEF EngineStep
<1>10. CASE Reset
  BY <1>2, <1>10 DEF Reset
<1>11. CASE Reload
  <2>1. lost' \in BOOLEAN /\ disturbed' \in BOOLEAN
    BY <1>5, <1>11 DEF Reload, CountsInv
  <2>2. QED
    BY <1>1, <1>11, <2>1 DEF Reload, CountsInv
<1>12. CASE UNCHANGED vars
  BY <1>12 DEF vars, counts, CountsInv
<1>13. QED
  BY <1>8, <1>9, <1>10, <1>11, <1>12 DEF Next

----------------------------------------------------------------------------
(* The path runs through the waypoints, or is being routed for them.       *)

OnRoute(w, p) == IF Len(w) < 2 THEN p = <<>> ELSE p # <<>> /\ OnPath(w, p)
Routing(s) == Computing(s) /\ edit[s].next = waypoints

LEMMA RoutedAs ==
  StalePathIsBeingRouted <=>
    lost \/ (\E s \in Slots : Routing(s)) \/ OnRoute(waypoints, path)
BY DEF StalePathIsBeingRouted, Routing, OnRoute

\* An edit awaited for the waypoints there now are makes up for any path.
LEMMA RoutedNow ==
  ASSUME EditsInv, NEW s \in Slots, NEW pc \in {"segment", "full"}, NEW kind, NEW prev,
         NEW index, NEW coord,
         edit' = [edit EXCEPT ![s] = Awaiting(pc, kind, waypoints', prev, index, coord)]
  PROVE  StalePathIsBeingRouted'
<1> DEFINE e == Awaiting(pc, kind, waypoints', prev, index, coord)
<1>1. edit' = [edit EXCEPT ![s] = e]
  OBVIOUS
<1>2. e # Idle /\ e.pc = pc /\ e.next = waypoints'
  BY AwaitingFields
<1> HIDE DEF e
<1>3. edit'[s] = e
  BY <1>1, SlotSet
<1>4. Computing(s)' /\ (edit[s].next)' = waypoints'
  BY <1>2, <1>3 DEF Computing
<1>5. QED
  BY <1>4 DEF StalePathIsBeingRouted

\* While nothing it speaks of changes but a slot that routed nothing.
LEMMA RoutedStill ==
  ASSUME EditsInv, StalePathIsBeingRouted, UNCHANGED <<waypoints, path, lost>>,
         NEW s \in Slots, ~ Routing(s), NEW e, edit' = [edit EXCEPT ![s] = e]
  PROVE  StalePathIsBeingRouted'
<1>1. \A t \in Slots : edit'[t] = IF t = s THEN e ELSE edit[t]
  BY SlotSet
<1>2. \A t \in Slots : Routing(t) => Routing(t)'
  BY <1>1 DEF Routing, Computing
<1>3. QED
  BY <1>2 DEF StalePathIsBeingRouted, Routing

LEMMA RoutedByLine ==
  ASSUME OnRoute(waypoints', path')
  PROVE  StalePathIsBeingRouted'
BY DEF OnRoute, StalePathIsBeingRouted

LEMMA LongEnough ==
  ASSUME NEW S, NEW s \in Seq(S), Len(s) >= 2
  PROVE  s # <<>> /\ ~ (Len(s) < 2)
<1>1. Len(s) \in Nat
  BY LenProperties
<1>2. QED
  BY <1>1, EmptySeq

\* A patch of the draft as it is.
LEMMA RoutedLocally ==
  ASSUME StoreInv, EditsInv, RoutesInv, StalePathIsBeingRouted, waypoints' \in Waypoints,
         NEW s \in Slots, edit[s] = Idle, NEW kind, NEW index, NEW coord, NEW restore,
         RecomputeLocal(s, kind, Current, index, coord, restore)
  PROVE  StalePathIsBeingRouted'
<1> DEFINE next == waypoints'
           plan == Plan(Current, next, restore)
<1>1. /\ edit' = [edit EXCEPT ![s] = IF plan \in {"segment", "full"}
                                     THEN Awaiting(plan, kind, next, Current, index, coord)
                                     ELSE Idle]
      /\ path' = CASE plan = "clear" -> <<>>
                   [] plan = "trim" -> Restored(waypoints, next, path)
                   [] OTHER -> path
      /\ lost' = \/ lost /\ plan = "same"
                 \/ plan = "keep" /\ Len(next) > Len(waypoints) + 1
  BY CurrentState DEF RecomputeLocal
<1>2. /\ Current \in PreEditState /\ Current.waypoints = waypoints /\ Current.path = path
      /\ waypoints \in Seq(Places) /\ path \in Seq(Places) /\ next \in Seq(Places)
  BY CurrentState DEF Waypoints
<1>3. /\ plan \in {"clear", "full", "keep", "trim", "same", "segment"}
      /\ plan = "clear" => Len(next) < 2
      /\ plan # "clear" => Len(next) >= 2
      /\ plan \in {"keep", "trim", "same", "segment"} => Len(waypoints) >= 2 /\ Len(path) >= 2
      /\ plan = "keep" => IsPureOnPathInsertion(waypoints, next, path)
      /\ plan = "trim" => Len(Restored(waypoints, next, path)) >= 2
      /\ plan = "same" => waypoints = next
  BY <1>2, PlanFacts
<1>4. Len(waypoints) \in Nat /\ Len(next) \in Nat
  BY <1>2, LenProperties
<1> HIDE DEF plan
<1>5. CASE plan = "clear"
  <2>1. OnRoute(waypoints', path')
    BY <1>1, <1>3, <1>5 DEF OnRoute
  <2>2. QED
    BY <2>1, RoutedByLine
<1>6. CASE plan \in {"segment", "full"}
  <2>1. edit' = [edit EXCEPT ![s] = Awaiting(plan, kind, waypoints', Current, index, coord)]
    BY <1>1, <1>6
  <2>2. QED
    BY <1>6, <2>1, RoutedNow
<1>7. CASE plan = "keep"
  <2>1. IsPureOnPathInsertion(waypoints, next, path) /\ Len(next) > Len(waypoints) /\ path' = path
    BY <1>1, <1>3, <1>7 DEF IsPureOnPathInsertion
  <2>2. CASE Len(next) > Len(waypoints) + 1
    <3>1. lost'
      BY <1>1, <1>7, <2>2
    <3>2. QED
      BY <3>1 DEF StalePathIsBeingRouted
  <2>3. CASE ~ (Len(next) > Len(waypoints) + 1)
    <3>1. Len(next) = Len(waypoints) + 1
      BY <1>4, <2>1, <2>3
    <3>2. waypoints \in Seq(Int) /\ next \in Seq(Int) /\ path \in Seq(Int)
      BY <1>2, PlacesUnbroken, IntSeq
    <3>3. OnPath(next, path)
      BY <2>1, <3>1, <3>2, InsertOne
    <3>4. ~ (Len(next) < 2) /\ path # <<>>
      BY <1>2, <1>3, <1>7, LongEnough
    <3>5. OnRoute(waypoints', path')
      BY <2>1, <3>3, <3>4 DEF OnRoute
    <3>6. QED
      BY <3>5, RoutedByLine
  <2>4. QED
    BY <2>2, <2>3
<1>8. CASE plan = "trim"
  <2>1. path' = Restored(waypoints, next, path) /\ Len(Restored(waypoints, next, path)) >= 2
    BY <1>1, <1>3, <1>8
  <2>2. Len(waypoints) >= 1 /\ Len(next) >= 1
    BY <1>3, <1>4, <1>8
  <2>3. Restored(waypoints, next, path) \in Seq(Places) /\ OnPath(next, Restored(waypoints, next, path))
    BY <1>2, <2>1, <2>2, PlacesUnbroken, RestoredFits
  <2>4. ~ (Len(next) < 2) /\ Restored(waypoints, next, path) # <<>>
    BY <1>2, <1>3, <1>8, <2>1, <2>3, LongEnough
  <2>5. OnRoute(waypoints', path')
    BY <2>1, <2>3, <2>4 DEF OnRoute
  <2>6. QED
    BY <2>5, RoutedByLine
<1>9. CASE plan = "same"
  <2>1. waypoints' = waypoints /\ path' = path /\ (lost' <=> lost) /\ edit' = [edit EXCEPT ![s] = Idle]
    BY <1>1, <1>3, <1>9
  <2>2. ~ Routing(s)
    BY DEF Routing, Computing
  <2>3. \A t \in Slots : edit'[t] = IF t = s THEN Idle ELSE edit[t]
    BY <2>1, SlotSet
  <2>4. \A t \in Slots : Routing(t) => Routing(t)'
    BY <2>1, <2>2, <2>3 DEF Routing, Computing
  <2>5. QED
    BY <2>1, <2>4 DEF StalePathIsBeingRouted, Routing
<1>10. QED
  BY <1>3, <1>5, <1>6, <1>7, <1>8, <1>9

LEMMA RoutedAnew ==
  ASSUME EditsInv, NEW s \in Slots, Recompute(s)
  PROVE  StalePathIsBeingRouted'
<1>1. CASE Len(waypoints') < 2
  <2>1. OnRoute(waypoints', path')
    BY <1>1 DEF Recompute, OnRoute
  <2>2. QED
    BY <2>1, RoutedByLine
<1>2. CASE ~ (Len(waypoints') < 2)
  BY <1>2, RoutedNow DEF Recompute
<1>3. QED
  BY <1>1, <1>2

\* A click made to a draft that is still the same is routed; only one made to
\* a draft that has changed since may not be.
LEMMA PlaceRoutes ==
  ASSUME StoreInv, EditsInv, RoutesInv, NEW s \in Slots, Place(s), waypoints' \in Waypoints
  PROVE  \/ Plan(edit[s].prev, waypoints', FALSE) \in {"clear", "segment", "full"}
         \/ /\ Plan(edit[s].prev, waypoints', FALSE) \in {"keep", "same"}
            /\ waypoints # edit[s].prev.waypoints
<1> DEFINE prev == edit[s].prev
           c == edit[s].coord
           next == waypoints'
           plan == Plan(prev, next, FALSE)
           old == prev.waypoints
<1>1. edit[s] \in Edit /\ c \in Places /\ next = Append(waypoints, c)
  BY DEF Place, RoutesInv, AwaitedRoute, EditsInv, EditInv
<1>2. prev \in PreEditState /\ old \in Seq(Places) /\ prev.path \in Seq(Places)
  BY <1>1, EditFields DEF Waypoints
<1>3. plan \in {"clear", "full", "keep", "trim", "same", "segment"} /\ plan # "trim"
  BY <1>2, PlanFacts
<1> HIDE DEF prev, c, plan, next
<1>4. old \in Seq(Int) /\ prev.path \in Seq(Int) /\ c \in Int
  <2>1. c \in Int
    BY <1>1, PlacesUnbroken DEF Unbroken
  <2>2. QED
    BY <1>2, <2>1, PlacesUnbroken, IntSeq
<1>5. CASE waypoints = old
  <2>1. plan \in {"clear", "segment", "full"}
    BY <1>1, <1>4, <1>5, AppendedWaypointIsRouted DEF plan
  <2>2. QED
    BY <2>1 DEF plan, prev, next
<1>6. CASE waypoints # old
  BY <1>3, <1>6 DEF plan, prev, next
<1>7. QED
  BY <1>5, <1>6

\* Every step leaves the path through the waypoints or a routing for them.
LEMMA RoutedStep ==
  ASSUME StoreInv, EditsInv, RoutesInv, StalePathIsBeingRouted, StoreInv', [Next]_vars
  PROVE  StalePathIsBeingRouted'
<1>1. waypoints' \in Waypoints /\ waypoints \in Seq(Places) /\ Waypoints = Seq(Places)
  BY CurrentState DEF StoreInv
<1>2. ASSUME NEW s \in Slots, NEW c, AddWaypoint(s, c) PROVE StalePathIsBeingRouted'
  <2>1. ~ Routing(s)
    BY <1>2 DEF AddWaypoint, Routing, Computing
  <2>2. QED
    BY <1>2, <2>1, RoutedStill DEF AddWaypoint
<1>3. ASSUME NEW s \in Slots, NEW c, InsertWaypointOnRoute(s, c) PROVE StalePathIsBeingRouted'
  BY <1>1, <1>3, RoutedLocally DEF InsertWaypointOnRoute
<1>4. ASSUME NEW s \in Slots, NEW i, RemoveWaypoint(s, i) PROVE StalePathIsBeingRouted'
  BY <1>1, <1>4, RoutedLocally DEF RemoveWaypoint
<1>5. ASSUME NEW s \in Slots, NEW i, NEW c, MoveWaypoint(s, i, c) PROVE StalePathIsBeingRouted'
  BY <1>1, <1>5, RoutedLocally DEF MoveWaypoint
<1>6. ASSUME NEW s \in Slots, Undo(s) PROVE StalePathIsBeingRouted'
  BY <1>1, <1>6, RoutedLocally DEF Undo
<1>7. ASSUME NEW s \in Slots, Redo(s) PROVE StalePathIsBeingRouted'
  BY <1>1, <1>7, RoutedLocally DEF Redo
<1>8. ASSUME NEW s \in Slots, Rearrange(s) \/ Recalculate(s) PROVE StalePathIsBeingRouted'
  BY <1>8, RoutedAnew DEF Rearrange, Recalculate
<1>9. ASSUME NEW s \in Slots, NEW next, Load(s, next) PROVE StalePathIsBeingRouted'
  <2>1. waypoints' = next /\ next \in Seq(Places) /\ Len(next) \in Nat
    BY <1>1, <1>9, LenProperties DEF Load
  <2>2. CASE Len(next) < 2 /\ path' = <<>>
    BY <2>1, <2>2, RoutedByLine DEF OnRoute
  <2>3. CASE Len(next) >= 2 /\ path' = Route(next)
    <3>1. Len(next) >= 1
      BY <2>1, <2>3
    <3>2. OnPath(next, Route(next)) /\ Route(next) # <<>>
      BY <2>1, <3>1, PlacesUnbroken, RouteFits, RouteNotEmpty DEF Fitted
    <3>3. OnRoute(waypoints', path')
      BY <2>1, <2>3, <3>2 DEF OnRoute
    <3>4. QED
      BY <3>3, RoutedByLine
  <2>4. CASE edit' = [edit EXCEPT ![s] = Awaiting("full", "plain", next, NoState, 0, 0)]
    BY <2>1, <2>4, RoutedNow
  <2>5. QED
    BY <1>9, <2>2, <2>3, <2>4 DEF Load
<1>10. ASSUME NEW s \in Slots, Place(s) PROVE StalePathIsBeingRouted'
  <2> DEFINE prev == edit[s].prev
             coord == edit[s].coord
             plan == Plan(prev, waypoints', FALSE)
  <2>1. \/ plan \in {"clear", "segment", "full"}
        \/ plan \in {"keep", "same"} /\ waypoints # prev.waypoints
    BY <1>1, <1>10, PlaceRoutes
  <2>2. /\ path' = CASE plan = "clear" -> <<>>
                     [] plan = "trim" -> Restored(prev.waypoints, waypoints', prev.path)
                     [] OTHER -> path
        /\ edit' = [edit EXCEPT ![s] = IF plan \in {"segment", "full"}
                                       THEN Awaiting(plan, "add", waypoints', prev, 0, coord)
                                       ELSE Idle]
    BY <1>10 DEF Place, RecomputeLocal
  <2>3. plan = "clear" => Len(waypoints') < 2
    BY <1>1, <1>10, PlanFacts, EditFields DEF Place, RoutesInv, AwaitedRoute
  <2>7. plan \in {"keep", "same"} /\ waypoints # prev.waypoints => lost'
    BY <1>10 DEF Place, RecomputeLocal
  <2> HIDE DEF prev, coord, plan
  <2>4. CASE plan = "clear"
    <3>1. OnRoute(waypoints', path')
      BY <2>2, <2>3, <2>4 DEF OnRoute
    <3>2. QED
      BY <3>1, RoutedByLine
  <2>5. CASE plan \in {"segment", "full"}
    BY <2>2, <2>5, RoutedNow
  <2>6. QED
    BY <2>1, <2>4, <2>5, <2>7 DEF StalePathIsBeingRouted
<1>11. ASSUME NEW s \in Slots, Discard(s) PROVE StalePathIsBeingRouted'
  <2>1. ~ Routing(s)
    BY <1>11 DEF Discard, InputsMatch, Routing
  <2>2. QED
    BY <1>11, <2>1, RoutedStill DEF Discard, draft
<1>12. ASSUME NEW s \in Slots, Computing(s), InputsMatch(s), UNCHANGED waypoints,
              edit' = [edit EXCEPT ![s].pc = "full"]
       PROVE  StalePathIsBeingRouted'
  <2> DEFINE e == edit[s]
             f == [e EXCEPT !.pc = "full"]
  <2>1. edit' = [edit EXCEPT ![s] = f]
    BY <1>12
  <2> HIDE DEF e, f
  <2>2. edit'[s] = f
    BY <2>1 DEF EditsInv
  <2>3. e \in Edit /\ e.next = waypoints
    BY <1>12 DEF Computing, InputsMatch, RoutesInv, AwaitedRoute, e
  <2>4. f.pc = "full" /\ f.next = waypoints /\ f # Idle
    <3>1. f.pc = "full" /\ f.next = waypoints
      BY <2>3 DEF Edit, f
    <3>2. Idle.pc = "idle"
      BY DEF Idle
    <3>3. QED
      BY <3>1, <3>2
  <2>5. Routing(s)'
    BY <1>12, <2>2, <2>4 DEF Routing, Computing
  <2>6. QED
    BY <2>5 DEF Routing, StalePathIsBeingRouted
<1>13. ASSUME NEW s \in Slots, Answer(s) PROVE StalePathIsBeingRouted'
  <2> DEFINE e == edit[s]
             line == IF e.pc = "full" THEN Route(e.next)
                     ELSE Splice(Patch(e.prev.waypoints, e.next, e.prev.path))
  <2>1. /\ Computing(s) /\ InputsMatch(s) /\ UNCHANGED waypoints
        /\ IF e.pc = "segment" /\ Len(line) < 2 THEN edit' = [edit EXCEPT ![s].pc = "full"]
           ELSE path' = line
    BY <1>13 DEF Answer
  <2>2. AwaitedRoute(e) /\ e \in Edit /\ e.pc \in {"segment", "full"} /\ e.next = waypoints
    BY <2>1 DEF Computing, InputsMatch, RoutesInv, AwaitedRoute
  <2>3. line \in Seq(Places) /\ OnPath(e.next, line) /\ (e.pc = "full" => line # <<>>)
    BY <2>2, AnsweredLine
  <2>4. Len(e.next) >= 2 /\ e.next \in Seq(Places)
    BY <1>1, <2>2 DEF AwaitedRoute
  <2> HIDE DEF line, e
  <2>5. CASE e.pc = "segment" /\ Len(line) < 2
    BY <1>12, <2>1, <2>5
  <2>6. CASE ~ (e.pc = "segment" /\ Len(line) < 2)
    <3>1. line # <<>>
      BY <2>2, <2>3, <2>6, EmptySeq
    <3>2. OnRoute(waypoints', path')
      BY <2>1, <2>2, <2>3, <2>4, <2>6, <3>1, LongEnough DEF OnRoute
    <3>3. QED
      BY <3>2, RoutedByLine
  <2>7. QED
    BY <2>5, <2>6
<1>14. ASSUME NEW s \in Slots, FailSegment(s) PROVE StalePathIsBeingRouted'
  BY <1>12, <1>14 DEF FailSegment, draft
<1>15. ASSUME NEW s \in Slots, FailRoute(s) PROVE StalePathIsBeingRouted'
  <2>1. \/ lost'
        \/ edit' = [edit EXCEPT ![s] = Awaiting("full", "plain", waypoints', NoState, 0, 0)]
    BY <1>15 DEF FailRoute
  <2>2. lost' => StalePathIsBeingRouted'
    BY DEF StalePathIsBeingRouted
  <2>3. QED
    BY <2>1, <2>2, RoutedNow
<1>16. CASE Reset
  <2>1. Len(<<>>) = 0
    BY EmptySeq
  <2>2. OnRoute(waypoints', path')
    BY <1>16, <2>1 DEF Reset, OnRoute
  <2>3. QED
    BY <2>2, RoutedByLine
<1>17. CASE Reload
  <2>1. UNCHANGED <<waypoints, path>> /\ (lost' <=> (lost \/ Awaited # {}))
    BY <1>17 DEF Reload, draft
  <2>2. (\E s \in Slots : Routing(s)) => Awaited # {}
    BY DEF Routing, Computing, Awaited
  <2>3. QED
    BY <2>1, <2>2 DEF StalePathIsBeingRouted, Routing
<1>18. CASE UNCHANGED vars
  BY <1>18 DEF vars, draft, StalePathIsBeingRouted, Computing
<1>19. QED
  BY <1>2, <1>3, <1>4, <1>5, <1>6, <1>7, <1>8, <1>9, <1>10, <1>11, <1>13, <1>14, <1>15,
     <1>16, <1>17, <1>18 DEF Next, EditStep, EngineStep

----------------------------------------------------------------------------
(* Edits made in turn leave no detour.                                     *)

\* A path that is there and runs through the waypoints makes no detour.
Quiet(w, p) == p = <<>> \/ ~ OnPath(w, p) \/ Fitted(w, p)

\* What an awaited edit knows of the draft while no other edit came: a road
\* check the draft itself, a computation the waypoints, and a segment that the
\* path it splices into makes no detour.
InTurn(e, w, p) ==
  /\ e.pc = "locating" => e.prev = [waypoints |-> w, path |-> p]
  /\ e.pc # "locating" => e.next = w
  /\ e.pc = "segment" => Fitted(e.prev.waypoints, e.prev.path)

TurnInv ==
  \/ disturbed
  \/ /\ \A s, t \in Awaited : s = t
     /\ \A s \in Awaited : InTurn(edit[s], waypoints, path)
     /\ (\A s \in Awaited : edit[s].pc = "locating") => Quiet(waypoints, path)

Alone(s) == \A t \in Slots : t # s => edit[t] = Idle

LEMMA AloneTurn ==
  ASSUME EditsInv, NEW s \in Slots, Alone(s), NEW e, edit' = [edit EXCEPT ![s] = e],
         e # Idle => InTurn(e, waypoints', path'),
         e = Idle \/ e.pc = "locating" => Quiet(waypoints', path')
  PROVE  TurnInv'
<1>1. \A t \in Slots : edit'[t] = IF t = s THEN e ELSE edit[t]
  BY SlotSet
<1>2. \A t \in Slots : edit'[t] # Idle => t = s
  BY <1>1 DEF Alone
<1>3. \A t \in Awaited' : t = s /\ edit'[t] = e /\ e # Idle
  BY <1>1, <1>2 DEF Awaited
<1>4. \A t, u \in Awaited' : t = u
  BY <1>3
<1>5. \A t \in Awaited' : InTurn(edit'[t], waypoints', path')
  BY <1>3
<1>6. ASSUME \A t \in Awaited' : edit'[t].pc = "locating" PROVE Quiet(waypoints', path')
  <2>1. CASE e = Idle
    BY <2>1
  <2>2. CASE e # Idle
    <3>1. s \in Awaited' /\ edit'[s] = e
      BY <1>1, <2>2 DEF Awaited
    <3>2. QED
      BY <1>6, <3>1
  <2>3. QED
    BY <2>1, <2>2
<1>7. QED
  BY <1>4, <1>5, <1>6 DEF TurnInv

LEMMA SettledTurn ==
  ASSUME UNCHANGED edit, Awaited = {}, Quiet(waypoints', path')
  PROVE  TurnInv'
<1>1. Awaited' = {}
  BY DEF Awaited
<1>2. QED
  BY <1>1 DEF TurnInv

LEMMA OnlyOne ==
  ASSUME TurnInv, ~ disturbed, NEW s \in Slots, edit[s] # Idle
  PROVE  /\ Alone(s) /\ InTurn(edit[s], waypoints, path)
         /\ edit[s].pc = "locating" => Quiet(waypoints, path)
BY DEF TurnInv, Alone, Awaited

LEMMA NoneAwaited ==
  ASSUME TurnInv, Operate, ~ disturbed'
  PROVE  Awaited = {} /\ Quiet(waypoints, path) /\ \A s \in Slots : Alone(s) /\ edit[s] = Idle
BY DEF TurnInv, Operate, Alone, Awaited

LEMMA FullTurn ==
  ASSUME EditsInv, NEW s \in Slots, Alone(s), NEW next, waypoints' = next, NEW kind, NEW prev,
         NEW index, NEW coord, edit' = [edit EXCEPT ![s] = Awaiting("full", kind, next, prev, index, coord)]
  PROVE  TurnInv'
<1> DEFINE e == Awaiting("full", kind, next, prev, index, coord)
<1>1. e # Idle /\ e.pc = "full" /\ e.next = next
  BY AwaitingFields
<1>2. edit' = [edit EXCEPT ![s] = e]
  OBVIOUS
<1> HIDE DEF e
<1>3. InTurn(e, waypoints', path')
  BY <1>1 DEF InTurn
<1>4. QED
  BY <1>1, <1>2, <1>3, AloneTurn

\* A patch of a path without a detour makes none, whichever way it goes.
LEMMA LocalTurn ==
  ASSUME StoreInv, EditsInv, RoutesInv, waypoints' \in Waypoints,
         NEW s \in Slots, Alone(s), NEW kind, NEW prev \in PreEditState, prev.path = path,
         Quiet(prev.waypoints, prev.path), NEW index, NEW coord, NEW restore,
         RecomputeLocal(s, kind, prev, index, coord, restore)
  PROVE  TurnInv'
<1> DEFINE next == waypoints'
           old == prev.waypoints
           plan == Plan(prev, next, restore)
           f == Awaiting(plan, kind, next, prev, index, coord)
           e == IF plan \in {"segment", "full"} THEN f ELSE Idle
<1>1. /\ edit' = [edit EXCEPT ![s] = e]
      /\ path' = CASE plan = "clear" -> <<>>
                   [] plan = "trim" -> Restored(old, next, path)
                   [] OTHER -> path
  BY DEF RecomputeLocal
<1>2. /\ old \in Seq(Places) /\ path \in Seq(Places) /\ next \in Seq(Places)
  BY DEF PreEditState, Waypoints, RoutesInv
<1>3. /\ plan \in {"clear", "full", "keep", "trim", "same", "segment"}
      /\ plan # "clear" => Len(next) >= 2
      /\ plan \in {"keep", "trim", "same", "segment"} => Len(old) >= 2 /\ Len(path) >= 2
      /\ plan = "keep" => IsPureOnPathInsertion(old, next, path)
      /\ plan = "trim" => Len(Restored(old, next, path)) >= 2
      /\ plan = "same" => old = next
      /\ plan = "segment" => OnPath(old, path)
  BY PlanFacts
<1>4. Len(old) \in Nat /\ Len(next) \in Nat
  BY <1>2, LenProperties
<1>5. f # Idle /\ f.pc = plan /\ f.next = next /\ f.prev = prev
  BY AwaitingFields
<1> HIDE DEF plan, old, f
<1>6. plan \in {"keep", "trim", "same", "segment"} => path # <<>>
  BY <1>2, <1>3, LongEnough
<1>7. OnPath(old, path) /\ path # <<>> => Fitted(old, path)
  BY DEF Quiet, old
<1>8. CASE plan \in {"segment", "full"}
  <2>1. InTurn(f, waypoints', path')
    BY <1>3, <1>5, <1>6, <1>7, <1>8 DEF InTurn, old
  <2>2. QED
    BY <1>1, <1>5, <1>8, <2>1, AloneTurn
<1>9. CASE plan \notin {"segment", "full"}
  <2>1. edit' = [edit EXCEPT ![s] = Idle]
    BY <1>1, <1>9
  <2>2. ASSUME plan = "clear" PROVE Quiet(waypoints', path')
    BY <1>1, <2>2 DEF Quiet
  <2>3. ASSUME plan = "same" PROVE Quiet(waypoints', path')
    BY <1>1, <1>3, <2>3 DEF Quiet, old
  <2>4. ASSUME plan = "keep" PROVE Quiet(waypoints', path')
    <3>1. IsPureOnPathInsertion(old, next, path) /\ path' = path
      BY <1>1, <1>3, <2>4
    <3>2. OnPath(old, path)
      BY <3>1 DEF IsPureOnPathInsertion
    <3>3. old \in Seq(Int) /\ next \in Seq(Int) /\ path \in Seq(Int)
      BY <1>2, PlacesUnbroken, IntSeq
    <3>4. Fitted(old, path)
      BY <1>6, <1>7, <2>4, <3>2
    <3>5. OnPath(next, path) => Fitted(next, path)
      BY <3>1, <3>3, <3>4, KeepFits
    <3>6. QED
      BY <3>1, <3>5 DEF Quiet
  <2>5. ASSUME plan = "trim" PROVE Quiet(waypoints', path')
    <3>1. Len(old) >= 1 /\ Len(next) >= 1 /\ Len(Restored(old, next, path)) >= 2
      BY <1>3, <1>4, <2>5
    <3>2. OnPath(old, path) /\ (Fitted(old, path) => Fitted(next, Restored(old, next, path)))
      BY <1>2, <3>1, PlacesUnbroken, RestoredFits
    <3>3. Fitted(next, Restored(old, next, path))
      BY <1>6, <1>7, <2>5, <3>2
    <3>4. QED
      BY <1>1, <2>5, <3>3 DEF Quiet
  <2>6. Quiet(waypoints', path')
    BY <1>3, <1>9, <2>2, <2>3, <2>4, <2>5
  <2>7. QED
    BY <2>1, <2>6, AloneTurn
<1>10. QED
  BY <1>8, <1>9

LEMMA AllTurn ==
  ASSUME EditsInv, TurnInv, Operate, NEW s \in Slots, Recompute(s)
  PROVE  TurnInv'
<1>1. CASE disturbed'
  BY <1>1 DEF TurnInv
<1>2. CASE ~ disturbed'
  <2>1. Awaited = {} /\ Alone(s)
    BY <1>2, NoneAwaited
  <2>2. CASE Len(waypoints') < 2
    BY <2>1, <2>2, SettledTurn DEF Recompute, Quiet
  <2>3. CASE ~ (Len(waypoints') < 2)
    BY <2>1, <2>3, FullTurn DEF Recompute
  <2>4. QED
    BY <2>2, <2>3
<1>3. QED
  BY <1>1, <1>2

\* Every step leaves the draft without a detour, or another edit came meanwhile.
LEMMA TurnStep ==
  ASSUME StoreInv, EditsInv, RoutesInv, TurnInv, StoreInv', [Next]_vars
  PROVE  TurnInv'
<1>1. /\ Current \in PreEditState /\ Current.waypoints = waypoints /\ Current.path = path
      /\ waypoints \in Seq(Places) /\ path \in Seq(Places) /\ Waypoints = Seq(Places)
      /\ waypoints' \in Waypoints
  BY CurrentState DEF StoreInv
<1>2. disturbed' => TurnInv'
  BY DEF TurnInv
<1>3. ASSUME NEW s \in Slots, NEW c, AddWaypoint(s, c), ~ disturbed' PROVE TurnInv'
  <2> DEFINE e == Awaiting("locating", "add", <<>>, Current, 0, c)
  <2>1. edit' = [edit EXCEPT ![s] = e] /\ UNCHANGED <<waypoints, path>> /\ Operate
    BY <1>3 DEF AddWaypoint
  <2>2. e.pc = "locating" /\ e.prev = Current
    BY AwaitingFields
  <2> HIDE DEF e
  <2>3. Alone(s) /\ Quiet(waypoints, path)
    BY <1>3, <2>1, NoneAwaited
  <2>4. InTurn(e, waypoints', path') /\ Quiet(waypoints', path')
    BY <2>1, <2>2, <2>3 DEF InTurn, Current
  <2>5. QED
    BY <2>1, <2>3, <2>4, AloneTurn
<1>4. ASSUME NEW s \in Slots, NEW kind, NEW index, NEW coord, NEW restore, Operate,
             RecomputeLocal(s, kind, Current, index, coord, restore), ~ disturbed'
      PROVE  TurnInv'
  <2>1. Alone(s) /\ Quiet(waypoints, path)
    BY <1>4, NoneAwaited
  <2>2. QED
    BY <1>1, <1>4, <2>1, LocalTurn
<1>5. ASSUME NEW s \in Slots, EditStep(s), ~ disturbed' PROVE TurnInv'
  <2>1. ASSUME NEW c, InsertWaypointOnRoute(s, c) PROVE TurnInv'
    BY <1>4, <1>5, <2>1 DEF InsertWaypointOnRoute
  <2>2. ASSUME NEW i, RemoveWaypoint(s, i) PROVE TurnInv'
    BY <1>4, <1>5, <2>2 DEF RemoveWaypoint
  <2>3. ASSUME NEW i, NEW c, MoveWaypoint(s, i, c) PROVE TurnInv'
    BY <1>4, <1>5, <2>3 DEF MoveWaypoint
  <2>4. CASE Undo(s) \/ Redo(s)
    BY <1>4, <1>5, <2>4 DEF Undo, Redo
  <2>5. CASE Rearrange(s) \/ Recalculate(s)
    BY <2>5, AllTurn DEF Rearrange, Recalculate
  <2>6. ASSUME NEW next, Load(s, next) PROVE TurnInv'
    <3>1. /\ Operate /\ waypoints' = next
          /\ \/ path' = <<>> /\ UNCHANGED edit
             \/ Len(next) >= 2 /\ path' = Route(next) /\ UNCHANGED edit
             \/ edit' = [edit EXCEPT ![s] = Awaiting("full", "plain", next, NoState, 0, 0)]
      BY <2>6 DEF Load
    <3>2. Awaited = {} /\ Alone(s)
      BY <1>5, <3>1, NoneAwaited
    <3>3. next \in Seq(Places) /\ Len(next) \in Nat
      BY <1>1, <3>1, LenProperties
    <3>4. CASE path' = <<>> /\ UNCHANGED edit
      BY <3>2, <3>4, SettledTurn DEF Quiet
    <3>5. CASE Len(next) >= 2 /\ path' = Route(next) /\ UNCHANGED edit
      <4>1. Len(next) >= 1
        BY <3>3, <3>5
      <4>2. Fitted(next, Route(next))
        BY <3>3, <4>1, PlacesUnbroken, RouteFits
      <4>3. QED
        BY <3>1, <3>2, <3>5, <4>2, SettledTurn DEF Quiet
    <3>6. CASE edit' = [edit EXCEPT ![s] = Awaiting("full", "plain", next, NoState, 0, 0)]
      BY <3>1, <3>2, <3>6, FullTurn
    <3>7. QED
      BY <3>1, <3>4, <3>5, <3>6
  <2>7. QED
    BY <1>3, <1>5, <2>1, <2>2, <2>3, <2>4, <2>5, <2>6 DEF EditStep
<1>6. ASSUME NEW s \in Slots, Place(s), ~ disturbed' PROVE TurnInv'
  <2>1. edit[s] # Idle /\ edit[s].pc = "locating" /\ ~ disturbed
    BY <1>6 DEF Place
  <2>2. Alone(s) /\ edit[s].prev = Current /\ Quiet(waypoints, path)
    BY <2>1, OnlyOne DEF InTurn, Current
  <2>3. RecomputeLocal(s, "add", Current, 0, edit[s].coord, FALSE)
    BY <1>6, <2>2 DEF Place
  <2>4. QED
    BY <1>1, <2>2, <2>3, LocalTurn
<1>7. ASSUME NEW s \in Slots, Discard(s), ~ disturbed' PROVE TurnInv'
  <2>1. Computing(s) /\ edit[s].next # waypoints /\ ~ disturbed
    BY <1>7 DEF Discard, InputsMatch
  <2>2. edit[s] # Idle /\ edit[s].pc # "locating"
    BY <2>1 DEF Computing
  <2>3. InTurn(edit[s], waypoints, path)
    BY <2>1, <2>2, OnlyOne
  <2>4. QED
    BY <2>1, <2>2, <2>3 DEF InTurn
<1>8. ASSUME NEW s \in Slots, Computing(s), UNCHANGED <<waypoints, path, disturbed>>, ~ disturbed',
             edit' = [edit EXCEPT ![s].pc = "full"]
      PROVE  TurnInv'
  <2> DEFINE e == edit[s]
             f == [e EXCEPT !.pc = "full"]
  <2>1. e # Idle /\ e \in Edit /\ e.pc # "locating" /\ AwaitedRoute(e)
    BY <1>8 DEF Computing, RoutesInv, AwaitedRoute
  <2>2. Alone(s) /\ InTurn(e, waypoints, path)
    BY <1>8, <2>1, OnlyOne
  <2>3. edit' = [edit EXCEPT ![s] = f]
    BY <1>8
  <2> HIDE DEF e
  <2>4. f.pc = "full" /\ f.next = waypoints'
    BY <1>8, <2>1, <2>2 DEF Edit, InTurn
  <2>5. Idle.pc = "idle"
    BY DEF Idle
  <2> HIDE DEF f
  <2>6. InTurn(f, waypoints', path') /\ f # Idle
    BY <2>4, <2>5 DEF InTurn
  <2>7. QED
    BY <2>2, <2>3, <2>4, <2>6, AloneTurn
<1>9. ASSUME NEW s \in Slots, Answer(s), ~ disturbed' PROVE TurnInv'
  <2> DEFINE e == edit[s]
             line == IF e.pc = "full" THEN Route(e.next)
                     ELSE Splice(Patch(e.prev.waypoints, e.next, e.prev.path))
  <2>1. /\ Computing(s) /\ UNCHANGED <<waypoints, disturbed>> /\ e.next = waypoints
        /\ \/ edit' = [edit EXCEPT ![s].pc = "full"] /\ UNCHANGED path
           \/ edit' = [edit EXCEPT ![s] = Idle] /\ path' = line
    BY <1>9 DEF Answer, InputsMatch
  <2>2. AwaitedRoute(e) /\ e \in Edit /\ e.pc \in {"segment", "full"} /\ e # Idle
    BY <2>1 DEF Computing, RoutesInv, AwaitedRoute
  <2>3. Alone(s) /\ InTurn(e, waypoints, path)
    BY <1>9, <2>1, <2>2, OnlyOne
  <2>4. /\ e.pc = "full" => Fitted(e.next, line)
        /\ e.pc = "segment" /\ Fitted(e.prev.waypoints, e.prev.path) => Fitted(e.next, line)
    BY <2>2, AnsweredLine
  <2> HIDE DEF e, line
  <2>5. Fitted(waypoints', line)
    BY <2>1, <2>2, <2>3, <2>4 DEF InTurn
  <2>6. CASE edit' = [edit EXCEPT ![s].pc = "full"] /\ UNCHANGED path
    BY <1>8, <1>9, <2>1, <2>6
  <2>7. CASE edit' = [edit EXCEPT ![s] = Idle] /\ path' = line
    BY <2>3, <2>5, <2>7, AloneTurn DEF Quiet
  <2>8. QED
    BY <2>1, <2>6, <2>7
<1>10. ASSUME NEW s \in Slots, FailSegment(s), ~ disturbed' PROVE TurnInv'
  BY <1>8, <1>10 DEF FailSegment, draft
<1>11. ASSUME NEW s \in Slots, FailRoute(s), ~ disturbed' PROVE TurnInv'
  <2>1. /\ edit[s] # Idle /\ ~ disturbed /\ path' = <<>>
        /\ \/ edit' = [edit EXCEPT ![s] = Idle]
           \/ edit' = [edit EXCEPT ![s] = Awaiting("full", "plain", waypoints', NoState, 0, 0)]
    BY <1>11 DEF FailRoute, Computing
  <2>2. Alone(s)
    BY <2>1, OnlyOne
  <2>3. Quiet(waypoints', path')
    BY <2>1 DEF Quiet
  <2>4. CASE edit' = [edit EXCEPT ![s] = Idle]
    BY <2>2, <2>3, <2>4, AloneTurn
  <2>5. QED
    BY <2>1, <2>2, <2>4, FullTurn
<1>12. CASE Reset /\ ~ disturbed'
  <2>1. Awaited = {}
    BY <1>12, NoneAwaited DEF Reset
  <2>2. QED
    BY <1>12, <2>1, SettledTurn DEF Reset, Quiet
<1>13. CASE Reload /\ ~ disturbed'
  <2>1. Awaited = {} /\ ~ disturbed /\ UNCHANGED <<waypoints, path>>
    BY <1>13 DEF Reload, draft
  <2>2. Awaited' = {}
    BY <1>13 DEF Reload, Awaited
  <2>3. QED
    BY <2>1, <2>2 DEF TurnInv
<1>14. CASE UNCHANGED vars
  BY <1>14 DEF vars, draft, TurnInv, Awaited
<1>15. QED
  BY <1>2, <1>5, <1>6, <1>7, <1>9, <1>10, <1>11, <1>12, <1>13, <1>14 DEF Next, EngineStep

\* A draft opens with its route.
LEMMA RoutedAtStart ==
  ASSUME Init
  PROVE  RoutesInv /\ CountsInv /\ StalePathIsBeingRouted /\ TurnInv
<1>1. /\ waypoints \in Seq(Places) /\ Len(waypoints) \in Nat /\ <<>> \in Seq(Places)
      /\ path = IF Len(waypoints) < 2 THEN <<>> ELSE Route(waypoints)
  BY RoutePathAssumption, LenProperties, EmptySeq DEF Init, RoutePathAssumption
<1>2. Awaited = {} /\ \A s \in Slots : edit[s] = Idle
  BY DEF Init, Awaited
<1>3. Len(waypoints) >= 2 => /\ Fitted(waypoints, path) /\ OnPath(waypoints, path)
                             /\ path \in Seq(Places) /\ path # <<>>
  <2>1. SUFFICES ASSUME Len(waypoints) >= 2
                 PROVE  /\ Fitted(waypoints, path) /\ OnPath(waypoints, path)
                        /\ path \in Seq(Places) /\ path # <<>>
    OBVIOUS
  <2>2. Len(waypoints) >= 1 /\ path = Route(waypoints)
    BY <1>1, <2>1
  <2>3. QED
    BY <1>1, <2>2, PlacesUnbroken, RouteFits, RouteNotEmpty DEF Fitted
<1>4. Len(waypoints) >= 2 \/ (Len(waypoints) < 2 /\ path = <<>>)
  BY <1>1
<1>5. path \in Seq(Places) /\ Quiet(waypoints, path) /\ OnRoute(waypoints, path)
  BY <1>1, <1>3, <1>4 DEF Quiet, OnRoute
<1>6. RoutesInv
  BY <1>2, <1>5 DEF RoutesInv
<1>7. CountsInv
  <2>1. MaxEdits \in Nat /\ MaxFailures \in Nat /\ MaxReloads \in Nat
    BY RoutePathAssumption DEF RoutePathAssumption
  <2>2. edits \in 0 .. MaxEdits /\ failures \in 0 .. MaxFailures /\ reloads \in 0 .. MaxReloads
    BY <2>1 DEF Init
  <2>3. disturbed \in BOOLEAN /\ lost \in BOOLEAN
    BY DEF Init
  <2>4. QED
    BY <2>2, <2>3 DEF CountsInv
<1>8. StalePathIsBeingRouted
  BY <1>5, RoutedAs
<1>9. TurnInv
  BY <1>2, <1>5 DEF TurnInv
<1>10. QED
  BY <1>6, <1>7, <1>8, <1>9

\* The inductive invariant.
PathInv ==
  StoreInv /\ EditsInv /\ RoutesInv /\ CountsInv /\ StalePathIsBeingRouted /\ TurnInv

LEMMA PathInvAlways == Spec => []PathInv
<1>1. Init => PathInv
  BY InvAtStart, RoutedAtStart, RoutePathAssumption DEF PathInv
<1>2. PathInv /\ [Next]_vars => PathInv'
  BY StoreStep, EditsStep, RoutesStep, CountsStep, RoutedStep, TurnStep, RoutePathAssumption
     DEF PathInv
<1>3. QED
  BY <1>1, <1>2, PTL DEF Spec

----------------------------------------------------------------------------
(* The theorems.                                                           *)

\* The undo and redo stacks of the routing store stay within the cap of
\* HistoryManager, although only recordSnapshot trims.
THEOREM HistoryStaysBounded == Spec => []HistoryBounded
<1>1. Init => StoreInv /\ EditsInv
  BY InvAtStart, RoutePathAssumption
<1>2. StoreInv /\ EditsInv /\ [Next]_vars => StoreInv' /\ EditsInv'
  BY StoreStep, EditsStep, RoutePathAssumption
<1>3. StoreInv => HistoryBounded
  BY DEF StoreInv
<1>4. QED
  BY <1>1, <1>2, <1>3, PTL DEF Spec

\* addWaypoint's rollback removes the waypoint it added and no other, and
\* moveWaypoint's restores the list it changed, whatever was edited meanwhile.
THEOREM RollbacksAreExact == Spec => FailedEditTakesBackItself
<1>1. Init => StoreInv /\ EditsInv
  BY InvAtStart, RoutePathAssumption
<1>2. StoreInv /\ EditsInv /\ [Next]_vars => StoreInv' /\ EditsInv'
  BY StoreStep, EditsStep, RoutePathAssumption
<1> DEFINE Exact ==
      \A s \in Slots : FailRoute(s) =>
        /\ edit[s].kind = "add" => waypoints = Append(waypoints', edit[s].coord)
        /\ edit[s].kind = "move" => waypoints' = edit[s].prev.waypoints
<1>3. StoreInv /\ EditsInv /\ [Next]_vars => [Exact]_vars
  BY FailureStep
<1> HIDE DEF Exact
<1>4. Spec => [][Exact]_vars
  BY <1>1, <1>2, <1>3, PTL DEF Spec
<1>5. QED
  BY <1>4 DEF Exact, FailedEditTakesBackItself

\* The draft's waypoints, path and history are lists of places, and what is
\* awaited is an edit of them, whatever the engine answers.
THEOREM TypeCorrect == Spec => []TypeOK
<1>1. PathInv => TypeOK
  <2>1. SUFFICES ASSUME PathInv PROVE TypeOK
    OBVIOUS
  <2>2. \A s \in Slots : edit[s] \in Edit \cup {Idle}
    BY <2>1 DEF PathInv, RoutesInv, AwaitedRoute
  <2>3. edit \in [Slots -> Edit \cup {Idle}]
    BY <2>1, <2>2 DEF PathInv, EditsInv
  <2>4. QED
    BY <2>1, <2>3 DEF TypeOK, PathInv, StoreInv, RoutesInv, CountsInv
<1>2. QED
  BY <1>1, PathInvAlways, PTL

\* A route line that does not run through the waypoints is always being
\* recomputed for them as they are, wherever a click lands: unless the last
\* computation failed, several waypoints were restored into one leg, or a click
\* was placed on a draft that had changed during its road check.
THEOREM StalePathAlwaysRouted == Spec => []StalePathIsBeingRouted
<1>1. PathInv => StalePathIsBeingRouted
  BY DEF PathInv
<1>2. QED
  BY <1>1, PathInvAlways, PTL

\* Edits made one after the other leave no detour on the map: what patchRoute
\* keeps, trims and splices leads nowhere the waypoints do not send it.
THEOREM NoDetourInTurn == Spec => []NoDetourLeftInTurn
<1>1. PathInv => NoDetourLeftInTurn
  <2>1. SUFFICES ASSUME PathInv, ~ disturbed, Awaited = {}, ~ lost, path # <<>>
                 PROVE  ToSet(path) \subseteq ToSet(Route(waypoints))
    BY DEF NoDetourLeftInTurn, NoDetourLeft
  <2>2. waypoints \in Seq(Places) /\ path \in Seq(Places) /\ Len(waypoints) \in Nat
    BY <2>1, CurrentState, LenProperties DEF PathInv
  <2>3. ~ \E s \in Slots : Routing(s)
    BY <2>1 DEF Awaited, Routing, Computing
  <2>4. OnRoute(waypoints, path)
    BY <2>1, <2>3, RoutedAs DEF PathInv
  <2>5. Len(waypoints) >= 1 /\ OnPath(waypoints, path)
    BY <2>1, <2>2, <2>4 DEF OnRoute
  <2>6. Fitted(waypoints, path)
    BY <2>1, <2>5 DEF PathInv, TurnInv, Quiet
  <2>7. path \in Seq(Int)
    BY <2>2, PlacesUnbroken, IntSeq
  <2>8. QED
    BY <2>2, <2>5, <2>6, <2>7, PlacesUnbroken, FittedIsCovered
<1>2. QED
  BY <1>1, PathInvAlways, PTL
===============================================================================

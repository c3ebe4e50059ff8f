-------------------------- MODULE DraftBindingProofs --------------------------
(***************************************************************************)
(* Proofs about DraftBinding, for any length of the undo history and any   *)
(* number of works, Routes and LocalRoutes.                                *)
(***************************************************************************)
EXTENDS DraftBinding, SequenceTheorems, TLAPS

USE DraftBindingAssumption

----------------------------------------------------------------------------
(* The stacks *)

LEMMA RecordedProperties ==
  ASSUME TypeOK
  PROVE  LET d == IF AtCap THEN 1 ELSE 0 IN
         /\ Recorded \in Seq(Drafts)
         /\ Len(Recorded) = Len(past) + 1 - d
         /\ Len(Recorded) \in 1 .. MaxDepth
         /\ \A i \in 1 .. Len(Recorded) - 1 : Recorded[i] = past[i + d]
         /\ Recorded[Len(Recorded)] = draft
<1>1. past \in Seq(Drafts) /\ Len(past) \in Nat /\ Len(past) <= MaxDepth /\ draft \in Drafts
  BY LenProperties DEF TypeOK
<1>2. CASE AtCap
  <2>1. past # <<>>
    BY <1>1, <1>2, EmptySeq DEF AtCap
  <2>2. /\ Tail(past) \in Seq(Drafts) /\ Len(Tail(past)) = Len(past) - 1
        /\ \A i \in 1 .. Len(Tail(past)) : Tail(past)[i] = past[i + 1]
    BY <1>1, <2>1, HeadTailProperties
  <2>3. Recorded = Append(Tail(past), draft)
    BY <1>2 DEF Recorded
  <2> DEFINE t == Tail(past)
  <2> HIDE DEF t
  <2>4. /\ Append(t, draft) \in Seq(Drafts) /\ Len(Append(t, draft)) = Len(t) + 1
        /\ \A i \in 1 .. Len(t) : Append(t, draft)[i] = t[i]
        /\ Append(t, draft)[Len(t) + 1] = draft
    BY <1>1, <2>2, AppendProperties DEF t
  <2>5. QED
    BY <1>1, <1>2, <2>2, <2>3, <2>4 DEF AtCap, t
<1>3. CASE ~AtCap
  <2>1. Recorded = Append(past, draft)
    BY <1>3 DEF Recorded
  <2>2. /\ Append(past, draft) \in Seq(Drafts) /\ Len(Append(past, draft)) = Len(past) + 1
        /\ \A i \in 1 .. Len(past) : Append(past, draft)[i] = past[i]
        /\ Append(past, draft)[Len(past) + 1] = draft
    BY <1>1, AppendProperties
  <2>3. QED
    BY <1>1, <1>3, <2>1, <2>2 DEF AtCap
<1>4. QED
  BY <1>2, <1>3

LEMMA PopProperties ==
  ASSUME NEW stack \in Seq(Drafts), stack # <<>>
  PROVE  /\ Len(stack) \in Nat \ {0}
         /\ Top(stack) \in Drafts /\ Top(stack) = stack[Len(stack)]
         /\ Pop(stack) \in Seq(Drafts) /\ Len(Pop(stack)) = Len(stack) - 1
         /\ \A i \in 1 .. Len(stack) - 1 : Pop(stack)[i] = stack[i]
<1>1. Len(stack) \in Nat \ {0}
  BY EmptySeq
<1>2. \A i \in 1 .. Len(stack) : stack[i] \in Drafts
  BY ElementOfSeq
<1>3. /\ SubSeq(stack, 1, Len(stack) - 1) \in Seq(Drafts)
      /\ Len(SubSeq(stack, 1, Len(stack) - 1)) = IF 1 <= Len(stack) - 1 THEN Len(stack) - 1 - 1 + 1 ELSE 0
      /\ \A i \in 1 .. Len(stack) - 1 - 1 + 1 : SubSeq(stack, 1, Len(stack) - 1)[i] = stack[1 + i - 1]
  BY <1>1, <1>2, SubSeqProperties
<1>4. Len(stack) - 1 - 1 + 1 = Len(stack) - 1 /\ \A i \in 1 .. Len(stack) - 1 : 1 + i - 1 = i
  BY <1>1
<1>5. /\ Pop(stack) \in Seq(Drafts) /\ Len(Pop(stack)) = Len(stack) - 1
      /\ \A i \in 1 .. Len(stack) - 1 : Pop(stack)[i] = stack[i]
  BY <1>1, <1>3, <1>4 DEF Pop
<1>6. Len(stack) \in 1 .. Len(stack)
  BY <1>1
<1>7. QED
  BY <1>1, <1>2, <1>5, <1>6 DEF Top

----------------------------------------------------------------------------
(* Types *)

LEMMA KeepType ==
  ASSUME TypeOK, NEW taken \in {-1, 0, 1}, Keep(taken)
  PROVE  kept' \in 0 .. MaxDepth
BY DEF Keep, TypeOK

LEMMA SettleType ==
  ASSUME TypeOK, NEW dropped \in BOOLEAN, NEW taken \in {-1, 0, 1}, Settle(dropped, taken),
         Len(past') \in 0 .. MaxDepth
  PROVE  /\ bound' \in LocalIds \cup {None}
         /\ depth' \in 0 .. MaxDepth
         /\ kept' \in 0 .. MaxDepth
<1>1. kept' \in 0 .. MaxDepth
  BY KeepType DEF Settle
<1>2. depth \in 0 .. MaxDepth /\ bound \in LocalIds \cup {None}
  BY DEF TypeOK
<1>3. QED
  BY <1>1, <1>2 DEF Settle, StillBound

LEMMA EditedType ==
  ASSUME TypeOK, NEW work \in Drafts, NEW next \in RouteIds \cup {None}, Edited(work, next),
         works' \in 0 .. MaxWorks
  PROVE  TypeOK'
<1>1. past' \in Seq(Drafts) /\ Len(past') \in 1 .. MaxDepth
  BY RecordedProperties DEF Edited
<1>2. future' \in Seq(Drafts) /\ Len(future') = 0
  BY EmptySeq DEF Edited
<1>3. bound' \in LocalIds \cup {None} /\ depth' \in 0 .. MaxDepth /\ kept' \in 0 .. MaxDepth
  <2>1. AtCap \in BOOLEAN /\ Settle(AtCap, 1)
    BY DEF Edited, AtCap
  <2>2. Len(past') \in 0 .. MaxDepth
    BY <1>1
  <2>3. QED
    BY <2>1, <2>2, SettleType
<1>4. QED
  BY <1>1, <1>2, <1>3 DEF Edited, TypeOK, flight

LEMMA LoadType ==
  ASSUME TypeOK, NEW work \in Drafts, NEW snapshot \in BOOLEAN, Load(work, snapshot),
         bound' \in LocalIds \cup {None}, mode' \in RouteIds \cup {None},
         opening' \subseteq LocalIds, link' \in BOOLEAN, checked' \in BOOLEAN, works' \in 0 .. MaxWorks
  PROVE  TypeOK'
<1>1. past' \in Seq(Drafts) /\ Len(past') \in 0 .. MaxDepth
  BY RecordedProperties, LenProperties DEF Load, TypeOK
<1>2. future' \in Seq(Drafts) /\ Len(past') + Len(future') <= MaxDepth
  BY RecordedProperties, EmptySeq DEF Load, TypeOK
<1>3. depth' \in 0 .. MaxDepth /\ kept' \in 0 .. MaxDepth
  BY <1>1 DEF Load
<1>4. /\ draft' \in Drafts /\ redone' \in BOOLEAN /\ trimmed' \in BOOLEAN
      /\ UNCHANGED <<local, server, signedIn, requests, saving, pending, claim, refs>>
      /\ UNCHANGED <<routes, locals, reloads, switches>>
  BY DEF Load, claims
<1>5. QED
  BY <1>1, <1>2, <1>3, <1>4 DEF TypeOK

LEMMA WrittenType ==
  ASSUME TypeOK, NEW q \in Request, NEW r \in RouteIds, Written(q, r)
  PROVE  server' \in [RouteIds -> Drafts] /\ routes' \in 0 .. MaxRoutes
BY DEF Written, TypeOK, Request, Drafts, RouteIds

LEMMA ClaimWrittenType ==
  ASSUME TypeOK, NEW l \in LocalIds, NEW r \in RouteIds, ClaimWritten(l, r)
  PROVE  /\ server' \in [RouteIds -> Drafts] /\ routes' \in 0 .. MaxRoutes
         /\ refs' \in [LocalIds -> RouteIds \cup {None}]
<1>1. pending[l] \in Drafts
  BY DEF TypeOK
<1>2. CASE refs[l] = None /\ r = routes + 1 /\ routes' = r
           /\ refs' = [refs EXCEPT ![l] = r] /\ server' = [server EXCEPT ![r] = pending[l]]
  BY <1>1, <1>2 DEF TypeOK, RouteIds
<1>3. CASE UNCHANGED <<routes, refs, server>>
  BY <1>3 DEF TypeOK
<1>4. QED
  BY <1>2, <1>3 DEF ClaimWritten

LEMMA RouteWorkType ==
  ASSUME TypeOK PROVE RouteWork \in Drafts
BY DEF RouteWork, TypeOK, Drafts

LEMMA StepPreservesType ==
  ASSUME TypeOK, [Next]_vars PROVE TypeOK'
<1>t. /\ past \in Seq(Drafts) /\ future \in Seq(Drafts) /\ Len(past) \in Nat /\ Len(future) \in Nat
      /\ Len(past) + Len(future) <= MaxDepth
  BY LenProperties DEF TypeOK
<1>s. ASSUME NEW dropped \in BOOLEAN, NEW taken \in {-1, 0, 1}, Settle(dropped, taken), UNCHANGED stacks
      PROVE  bound' \in LocalIds \cup {None} /\ depth' \in 0 .. MaxDepth /\ kept' \in 0 .. MaxDepth
  BY <1>t, <1>s, SettleType DEF stacks
<1>1. CASE Draw
  <2>1. CASE RouteWork # None /\ Edited(RouteWork, mode) /\ UNCHANGED works
    BY <2>1, EditedType, RouteWorkType DEF TypeOK
  <2>2. CASE RouteWork = None /\ works < MaxWorks /\ works' = works + 1 /\ Edited(works + 1, mode)
    <3>1. works + 1 \in Drafts /\ works' \in 0 .. MaxWorks
      BY <2>2 DEF TypeOK, Drafts, Works
    <3>2. QED
      BY <2>2, <3>1, EditedType DEF TypeOK
  <2>3. QED
    BY <1>1, <2>1, <2>2 DEF Draw
<1>2. CASE Edit \/ RemoveLast \/ Clear
  <2>1. None \in Drafts /\ draft \in Drafts /\ None \in RouteIds \cup {None}
    BY DEF TypeOK, Drafts
  <2>2. QED
    BY <1>2, <2>1, EditedType DEF Edit, RemoveLast, Clear, TypeOK
<1>3. CASE Unload
  BY <1>3, <1>s DEF Unload, TypeOK, stacks, flight, counts
<1>4. CASE Undo
  <2>1. /\ Top(past) \in Drafts /\ Pop(past) \in Seq(Drafts) /\ Len(Pop(past)) = Len(past) - 1
        /\ Len(past) \in Nat \ {0}
    BY <1>4, <1>t, PopProperties DEF Undo
  <2>2. Append(future, draft) \in Seq(Drafts) /\ Len(Append(future, draft)) = Len(future) + 1
    BY <1>t, AppendProperties DEF TypeOK
  <2>3. bound' \in LocalIds \cup {None} /\ depth' \in 0 .. MaxDepth /\ kept' \in 0 .. MaxDepth
    <3>1. Len(past') \in 0 .. MaxDepth
      BY <1>4, <1>t, <2>1 DEF Undo
    <3>2. Settle(FALSE, -1)
      BY <1>4 DEF Undo
    <3>3. QED
      BY <3>1, <3>2, SettleType
  <2>4. QED
    BY <1>4, <1>t, <2>1, <2>2, <2>3 DEF Undo, TypeOK, flight, counts
<1>5. CASE Redo
  <2>1. /\ Top(future) \in Drafts /\ Pop(future) \in Seq(Drafts) /\ Len(Pop(future)) = Len(future) - 1
        /\ Len(future) \in Nat \ {0}
    BY <1>5, <1>t, PopProperties DEF Redo
  <2>2. Append(past, draft) \in Seq(Drafts) /\ Len(Append(past, draft)) = Len(past) + 1
    BY <1>t, AppendProperties DEF TypeOK
  <2>3. bound' \in LocalIds \cup {None} /\ depth' \in 0 .. MaxDepth /\ kept' \in 0 .. MaxDepth
    <3>1. Len(past') \in 0 .. MaxDepth
      BY <1>5, <1>t, <2>1, <2>2 DEF Redo
    <3>2. Settle(FALSE, 1)
      BY <1>5 DEF Redo
    <3>3. QED
      BY <3>1, <3>2, SettleType
  <2>4. redone' \in BOOLEAN
    BY <1>5 DEF Redo, TypeOK
  <2>5. QED
    BY <1>5, <1>t, <2>1, <2>2, <2>3, <2>4 DEF Redo, TypeOK, flight, counts
<1>6. CASE Touch
  BY <1>6, <1>s DEF Touch, TypeOK, stacks, flight, counts
<1>7. ASSUME NEW r \in RouteIds, OpenRoute(r) PROVE TypeOK'
  <2>1. server[r] \in Drafts
    BY DEF TypeOK
  <2>2. QED
    BY <1>7, <2>1, LoadType DEF OpenRoute, TypeOK
<1>8. ASSUME NEW r \in RouteIds, DeleteRoute(r) PROVE TypeOK'
  <2>1. server' \in [RouteIds -> Drafts]
    BY <1>8 DEF DeleteRoute, TypeOK, Drafts
  <2>2. mode' \in RouteIds \cup {None}
    BY <1>8 DEF DeleteRoute, TypeOK
  <2>3. bound' \in LocalIds \cup {None} /\ depth' \in 0 .. MaxDepth /\ kept' \in 0 .. MaxDepth
    BY <1>8, <1>s DEF DeleteRoute, TypeOK, bind
  <2>4. QED
    BY <1>8, <2>1, <2>2, <2>3 DEF DeleteRoute, TypeOK, stacks, flight, counts
<1>9. ASSUME NEW l \in LocalIds, OpenLocal(l) PROVE TypeOK'
  <2>1. local[l] \in Drafts /\ bound' \in LocalIds \cup {None} /\ opening' \subseteq LocalIds
    BY <1>9 DEF OpenLocal, TypeOK
  <2>2. QED
    BY <1>9, <2>1, LoadType DEF OpenLocal, TypeOK
<1>10. ASSUME NEW l \in LocalIds, FinishOpen(l) PROVE TypeOK'
  <2>1. kept' \in 0 .. MaxDepth
    BY <1>10, KeepType DEF FinishOpen
  <2>2. QED
    BY <1>10, <2>1 DEF FinishOpen, TypeOK, stacks, claims, counts
<1>11. ASSUME NEW l \in LocalIds, RemoveLocal(l) PROVE TypeOK'
  <2>1. kept' \in 0 .. MaxDepth
    BY <1>11, KeepType DEF RemoveLocal
  <2>2. QED
    BY <1>11, <2>1 DEF RemoveLocal, TypeOK, stacks, flight, counts, Drafts
<1>12. CASE Import
  <2>1. works' \in Drafts /\ works' \in 0 .. MaxWorks
    BY <1>12 DEF Import, NewWork, TypeOK, Drafts, Works
  <2>2. QED
    BY <1>12, <2>1, LoadType DEF Import, TypeOK
<1>13. ASSUME NEW kind \in Links, LinkArrives(kind) PROVE TypeOK'
  <2>1. works' \in Drafts /\ works' \in 0 .. MaxWorks
    BY <1>13 DEF LinkArrives, NewWork, TypeOK, Drafts, Works
  <2>2. (kind # "payload") \in BOOLEAN /\ link' \in BOOLEAN /\ mode' \in RouteIds \cup {None}
    BY <1>13 DEF LinkArrives, TypeOK
  <2>3. QED
    BY <1>13, <2>1, <2>2, LoadType DEF LinkArrives, TypeOK
<1>14. CASE BeginSaveLocal
  <2>1. saving' \in Saving /\ locals' \in 0 .. MaxLocals
    BY <1>14 DEF BeginSaveLocal, TypeOK, Saving, Drafts, LocalIds
  <2>2. QED
    BY <1>14, <2>1 DEF BeginSaveLocal, TypeOK, stacks, bind, claims
<1>15. CASE EndSaveLocal \/ FailSaveLocal
  <2>1. saving # NotSaving /\ saving \in Saving => saving.id \in LocalIds /\ saving.work \in Works
    BY DEF Saving
  <2>2. local' \in [LocalIds -> Drafts] /\ bound' \in LocalIds \cup {None} /\ saving' \in Saving
    BY <1>15, <2>1 DEF EndSaveLocal, FailSaveLocal, TypeOK, bind, Drafts, Saving
  <2>3. kept' \in 0 .. MaxDepth
    BY <1>15, KeepType DEF EndSaveLocal, FailSaveLocal, TypeOK, bind
  <2>4. QED
    BY <1>15, <2>2, <2>3 DEF EndSaveLocal, FailSaveLocal, TypeOK, stacks, bind, claims, counts
<1>16. CASE Patch \/ Post
  <2>1. draft # None => draft \in Works
    BY DEF TypeOK, Drafts
  <2>2. requests' \subseteq Request
    BY <1>16, <2>1 DEF Patch, Post, Send, TypeOK, Request
  <2>3. QED
    BY <1>16, <2>2 DEF Patch, Post, Send, TypeOK, stacks, bind, claims
<1>17. ASSUME NEW q \in requests, Unanswered(q) PROVE TypeOK'
  <2>1. q \in Request /\ requests' \subseteq Request
    BY <1>17 DEF Unanswered, TypeOK
  <2>2. server' \in [RouteIds -> Drafts] /\ routes' \in 0 .. MaxRoutes
    BY <1>17, <2>1, WrittenType DEF Unanswered, TypeOK
  <2>3. QED
    BY <1>17, <2>1, <2>2 DEF Unanswered, TypeOK, stacks, bind, claims
<1>18. ASSUME NEW q \in requests, NEW r \in RouteIds, Answered(q, r) PROVE TypeOK'
  <2>1. q \in Request /\ requests' \subseteq Request
    BY <1>18 DEF Answered, TypeOK
  <2>2. server' \in [RouteIds -> Drafts] /\ routes' \in 0 .. MaxRoutes
    BY <1>18, <2>1, WrittenType DEF Answered
  <2>3. bound' \in LocalIds \cup {None} /\ depth' \in 0 .. MaxDepth /\ kept' \in 0 .. MaxDepth
    BY <1>18, <1>s DEF Answered
  <2>4. QED
    BY <1>18, <2>1, <2>2, <2>3 DEF Answered, TypeOK, stacks, claims
<1>19. CASE SignInOrOut
  <2>1. pending' \in [LocalIds -> Drafts] /\ signedIn' \in BOOLEAN /\ switches' \in 0 .. MaxSwitches
    BY <1>19 DEF SignInOrOut, TypeOK
  <2>2. QED
    BY <1>19, <2>1 DEF SignInOrOut, TypeOK, stacks, bind
<1>20. CASE CheckDraft
  <2>1. mode' \in RouteIds \cup {None}
    BY <1>20 DEF CheckDraft, TypeOK
  <2>2. bound' \in LocalIds \cup {None} /\ depth' \in 0 .. MaxDepth /\ kept' \in 0 .. MaxDepth
    BY <1>20, <1>s DEF CheckDraft
  <2>3. QED
    BY <1>20, <2>1, <2>2 DEF CheckDraft, TypeOK, stacks, flight, counts
<1>21. CASE Reload
  <2>1. /\ past' \in Seq(Drafts) /\ future' \in Seq(Drafts) /\ trimmed' \in BOOLEAN
        /\ Len(past') + Len(future') <= MaxDepth
    <3>1. CASE UNCHANGED <<stacks, trimmed>>
      BY <1>t, <3>1 DEF TypeOK, stacks
    <3>2. CASE past' = <<>> /\ future' = <<>> /\ trimmed' = TRUE
      BY <3>2, EmptySeq
    <3>3. QED
      BY <1>21, <3>1, <3>2 DEF Reload
  <2>2. /\ server' \in [RouteIds -> Drafts] /\ routes' \in 0 .. MaxRoutes
        /\ refs' \in [LocalIds -> RouteIds \cup {None}]
    <3>1. CASE UNCHANGED <<server, routes, refs>>
      BY <3>1 DEF TypeOK
    <3>2. CASE \E q \in requests, r \in RouteIds : Written(q, r) /\ UNCHANGED refs
      BY <3>2, WrittenType DEF TypeOK
    <3>3. CASE \E l \in LocalIds, r \in RouteIds : ClaimWritten(l, r)
      BY <3>3, ClaimWrittenType
    <3>4. QED
      BY <1>21, <3>1, <3>2, <3>3 DEF Reload
  <2>3. local' \in [LocalIds -> Drafts]
    <3>1. saving # NotSaving /\ saving \in Saving => saving.work \in Works
      BY DEF Saving
    <3>2. QED
      BY <1>21, <3>1 DEF Reload, TypeOK, Drafts
  <2>4. /\ reloads' \in 0 .. MaxReloads /\ saving' \in Saving /\ checked' \in BOOLEAN
        /\ pending' \in [LocalIds -> Drafts] /\ claim' \in Claim
    BY <1>21, <2>3 DEF Reload, TypeOK, Saving, Claim, NothingPending, Drafts
  <2>5. QED
    BY <1>21, <2>1, <2>2, <2>3, <2>4 DEF Reload, TypeOK, bind
<1>22. CASE UNCHANGED vars
  BY <1>22 DEF vars, TypeOK, stacks, bind, flight, counts
<1>24. ASSUME NEW l \in LocalIds, NEW r \in RouteIds, ClaimAnswered(l, r) PROVE TypeOK'
  <2>1. /\ server' \in [RouteIds -> Drafts] /\ routes' \in 0 .. MaxRoutes
        /\ refs' \in [LocalIds -> RouteIds \cup {None}]
    BY <1>24, ClaimWrittenType DEF ClaimAnswered
  <2>2. claim' \in Claim
    <3>1. local[l] \in Drafts /\ draft \in Drafts /\ None \in Drafts
      BY DEF TypeOK, Drafts
    <3>2. QED
      BY <1>24, <3>1 DEF ClaimAnswered, Claim
  <2>3. QED
    BY <1>24, <2>1, <2>2 DEF ClaimAnswered, TypeOK, stacks, bind
<1>25. CASE EndClaim
  <2>1. claim.id \in LocalIds /\ claim.route \in RouteIds
    BY <1>25 DEF EndClaim, TypeOK, Claim
  <2>2. local' \in [LocalIds -> Drafts] /\ pending' \in [LocalIds -> Drafts] /\ claim' \in Claim
    BY <1>25 DEF EndClaim, TypeOK, Drafts, Claim
  <2>3. CASE claim.own # None /\ mode' = claim.route /\ Settle(FALSE, 0)
    <3>1. bound' \in LocalIds \cup {None} /\ depth' \in 0 .. MaxDepth /\ kept' \in 0 .. MaxDepth
      BY <1>25, <1>s, <2>3 DEF EndClaim
    <3>2. QED
      BY <1>25, <2>1, <2>2, <2>3, <3>1 DEF EndClaim, TypeOK, stacks, counts
  <2>4. CASE /\ UNCHANGED <<mode, depth>>
             /\ bound' = (IF bound = claim.id THEN None ELSE bound) /\ Keep(0)
    <3>1. kept' \in 0 .. MaxDepth
      BY <2>4, KeepType
    <3>2. QED
      BY <1>25, <2>2, <2>4, <3>1 DEF EndClaim, TypeOK, stacks, counts
  <2>5. QED
    BY <1>25, <2>3, <2>4 DEF EndClaim
<1>26. CASE FailClaim
  <2>1. /\ server' \in [RouteIds -> Drafts] /\ routes' \in 0 .. MaxRoutes
        /\ refs' \in [LocalIds -> RouteIds \cup {None}]
    BY <1>26, ClaimWrittenType DEF FailClaim, TypeOK
  <2>2. pending' \in [LocalIds -> Drafts] /\ claim' \in Claim
    BY <1>26 DEF FailClaim, NothingPending, Claim, Drafts
  <2>3. QED
    BY <1>26, <2>1, <2>2 DEF FailClaim, TypeOK, stacks, bind
<1>27. QED
  BY <1>1, <1>2, <1>3, <1>4, <1>5, <1>6, <1>7, <1>8, <1>9, <1>10, <1>11, <1>12, <1>13, <1>14,
     <1>15, <1>16, <1>17, <1>18, <1>19, <1>20, <1>21, <1>22, <1>24, <1>25, <1>26 DEF Next

LEMMA InitType ==
  ASSUME Init PROVE TypeOK
<1>1. past \in Seq(Drafts) /\ future \in Seq(Drafts) /\ Len(past) = 0 /\ Len(future) = 0
  BY EmptySeq DEF Init
<1>2. server \in [RouteIds -> Drafts]
  <2>1. \A r \in RouteIds : r <= SavedRoutes => r \in Drafts
    BY DEF RouteIds, Drafts, Works
  <2>2. QED
    BY <2>1 DEF Init, Drafts
<1>3. /\ draft \in Drafts /\ local \in [LocalIds -> Drafts] /\ saving \in Saving /\ link \in BOOLEAN
      /\ pending \in [LocalIds -> Drafts] /\ claim \in Claim
      /\ refs \in [LocalIds -> RouteIds \cup {None}]
  BY DEF Init, Drafts, Saving, NothingPending, Claim
<1>4. /\ 0 \in 0 .. MaxDepth /\ SavedRoutes \in 0 .. MaxWorks /\ SavedRoutes \in 0 .. MaxRoutes
      /\ 0 \in 0 .. MaxLocals /\ 0 \in 0 .. MaxReloads /\ 0 \in 0 .. MaxSwitches
  OBVIOUS
<1>5. signedIn \in BOOLEAN /\ checked \in BOOLEAN /\ redone \in BOOLEAN /\ trimmed \in BOOLEAN
  BY DEF Init
<1>6. /\ mode \in RouteIds \cup {None} /\ bound \in LocalIds \cup {None}
      /\ requests \subseteq Request /\ opening \subseteq LocalIds
  BY DEF Init
<1>7. depth \in 0 .. MaxDepth /\ kept \in 0 .. MaxDepth
  BY <1>4 DEF Init
<1>8. /\ works \in 0 .. MaxWorks /\ routes \in 0 .. MaxRoutes /\ locals \in 0 .. MaxLocals
      /\ reloads \in 0 .. MaxReloads /\ switches \in 0 .. MaxSwitches
  BY <1>4 DEF Init
<1>9. Len(past) + Len(future) <= MaxDepth
  BY <1>1
<1>10. QED
  BY <1>1, <1>2, <1>3, <1>5, <1>6, <1>7, <1>8, <1>9 DEF TypeOK

\* Every variable keeps its type, and both stacks together stay under the
\* history's cap (HistoryManager, routingStore, localRoutesStore).
THEOREM TypeCorrect == Spec => []TypeOK
BY InitType, StepPreservesType, PTL DEF Spec

----------------------------------------------------------------------------
(* The history above the last load *)

\* Snapshots i .. k of the history, none of them of an empty draft.
Run(i, k) == \A j \in i .. k : past[j] # None

\* A run above the last load is of one work, and reaches the draft when it
\* ends the history.  The first part is what survives an undo that lands on
\* an emptied draft, of which HistoryAboveLoadIsOwn says nothing.
RunsAgree ==
  ~redone => \A i, k \in depth + 1 .. Len(past) : i <= k /\ Run(i, k) => past[i] = past[k]
TopIsOwn ==
  ~redone /\ draft # None /\ depth < Len(past) /\ past[Len(past)] # None => past[Len(past)] = draft

HistoryInv == RunsAgree /\ TopIsOwn

LEMMA PastType ==
  ASSUME TypeOK
  PROVE  /\ past \in Seq(Drafts) /\ Len(past) \in Nat /\ Len(past) <= MaxDepth
         /\ future \in Seq(Drafts) /\ depth \in Nat /\ depth <= MaxDepth
         /\ kept \in Nat /\ kept <= MaxDepth
BY LenProperties DEF TypeOK

LEMMA HistoryIsOwn ==
  ASSUME TypeOK, HistoryInv PROVE HistoryAboveLoadIsOwn
<1>1. SUFFICES ASSUME draft # None, ~redone, NEW i \in depth + 1 .. Len(past), Run(i, Len(past))
               PROVE  past[i] = draft
  BY DEF HistoryAboveLoadIsOwn, Run
<1>2. Len(past) \in depth + 1 .. Len(past) /\ Len(past) \in i .. Len(past) /\ depth < Len(past)
  BY <1>1, PastType
<1>3. past[i] = past[Len(past)]
  BY <1>1, <1>2, PastType DEF HistoryInv, RunsAgree
<1>4. past[Len(past)] # None
  BY <1>1, <1>2 DEF Run
<1>5. QED
  BY <1>1, <1>2, <1>3, <1>4 DEF HistoryInv, TopIsOwn

\* At the depth of the history there is nothing to say.
LEMMA HistoryBelow ==
  ASSUME Len(past') \in Nat, depth' \in Nat, depth' >= Len(past') PROVE HistoryInv'
<1>1. depth' + 1 .. Len(past') = {} /\ ~(depth' < Len(past'))
  OBVIOUS
<1>2. QED
  BY <1>1 DEF HistoryInv, RunsAgree, TopIsOwn

\* Where an element of the new history was, and what lies above a new depth.
LEMMA Shifted ==
  ASSUME NEW n \in Nat, NEW m \in Nat, NEW p \in Nat, NEW q \in Nat, NEW d \in {0, 1},
         m = n + 1 - d, q + d >= p, NEW i \in q + 1 .. m, NEW k \in q + 1 .. m, i < k
  PROVE  i \in 1 .. m - 1 /\ i + d \in p + 1 .. n
OBVIOUS

LEMMA Below ==
  ASSUME NEW m \in Nat, NEW q \in Nat, NEW k \in q + 1 .. m, k # m
  PROVE  k \in 1 .. m - 1
OBVIOUS

LEMMA Above ==
  ASSUME NEW n \in Nat, NEW p \in Nat, NEW q \in Nat, q >= p
  PROVE  \A i \in q + 1 .. n : i \in p + 1 .. n
OBVIOUS

\* The history grows by a snapshot of the draft, the d oldest ones dropped,
\* and the draft stays, is emptied, was empty, or is marked as redone.
LEMMA HistoryGrows ==
  ASSUME TypeOK, HistoryInv, NEW d \in {0, 1},
         Len(past') \in Nat, Len(past') = Len(past) + 1 - d,
         \A i \in 1 .. Len(past') - 1 : past'[i] = past[i + d],
         past'[Len(past')] = draft,
         depth' \in Nat, depth' + d >= depth \/ depth' >= Len(past'),
         redone \/ (draft # None /\ draft' # None /\ draft' # draft) => redone'
  PROVE  HistoryInv'
<1>t. Len(past) \in Nat /\ depth \in Nat
  BY PastType
<1>0. CASE depth' >= Len(past')
  BY <1>0, HistoryBelow
<1>p. CASE redone'
  BY <1>p DEF HistoryInv, RunsAgree, TopIsOwn
<1>1. CASE ~redone' /\ depth' < Len(past')
  <2>r. ~redone /\ depth' + d >= depth /\ ~(draft # None /\ draft' # None /\ draft' # draft)
    <3>1. ~redone /\ ~(draft # None /\ draft' # None /\ draft' # draft)
      BY <1>1, Zenon
    <3>2. depth' + d >= depth
      BY <1>1, <1>t
    <3>3. QED
      BY <3>1, <3>2
  <2>2. ASSUME NEW i \in depth' + 1 .. Len(past'), NEW k \in depth' + 1 .. Len(past'), i <= k,
               \A j \in i .. k : past'[j] # None
        PROVE  past'[i] = past'[k]
    <3>1. CASE i = k
      BY <3>1
    <3>2. CASE i < k
      <4> DEFINE last == IF k = Len(past') THEN Len(past) ELSE k + d
      <4>1. /\ i \in 1 .. Len(past') - 1 /\ i + d \in depth + 1 .. Len(past)
            /\ last \in depth + 1 .. Len(past) /\ i + d <= last
        <5>1. i \in 1 .. Len(past') - 1 /\ i + d \in depth + 1 .. Len(past)
          BY <1>t, <2>r, <2>2, <3>2, Shifted
        <5>2. CASE k = Len(past')
          BY <1>t, <1>1, <2>r, <2>2, <3>2, <5>1, <5>2
        <5>3. CASE k # Len(past')
          <6>1. k \in Nat /\ k < Len(past') /\ i < k /\ k \in depth' + 1 .. Len(past')
            BY <1>t, <2>2, <3>2, <5>3
          <6>2. last = k + d /\ i + d <= last
            BY <1>t, <5>1, <5>3, <6>1
          <6>3. k + d \in depth + 1 .. Len(past)
            BY <1>t, <1>1, <2>r, <6>1, SMTT(30)
          <6>4. QED
            BY <5>1, <6>2, <6>3
        <5>4. QED
          BY <5>1, <5>2, <5>3
      <4>2. ASSUME NEW j \in i + d .. last PROVE past[j] # None
        <5>1. j - d \in i .. k /\ j - d \in 1 .. Len(past') - 1 /\ (j - d) + d = j
          BY <1>t, <1>1, <2>r, <2>2, <3>2, <4>1, SMTT(40)
        <5>2. QED
          BY <2>2, <5>1
      <4>3. past'[i] = past[i + d]
        BY <4>1
      <4>4. past[i + d] = past[last]
        BY <1>1, <2>r, <4>1, <4>2 DEF HistoryInv, RunsAgree, Run
      <4>5. CASE k # Len(past')
        <5>1. k \in 1 .. Len(past') - 1
          BY <2>2, <4>5, Below
        <5>2. QED
          BY <4>3, <4>4, <4>5, <5>1
      <4>6. CASE k = Len(past')
        <5>1. draft # None
          BY <2>2, <4>6
        <5>2. depth < Len(past) /\ past[Len(past)] # None
          <6>1. last = Len(past) /\ depth < Len(past) /\ last \in i + d .. last
            BY <1>t, <4>1, <4>6
          <6>2. QED
            BY <4>2, <6>1, Zenon
        <5>3. draft = past[Len(past)]
          BY <2>r, <5>1, <5>2, Zenon DEF HistoryInv, TopIsOwn
        <5>4. last = Len(past) /\ past'[k] = draft
          BY <1>1, <4>6
        <5>5. QED
          BY <4>3, <4>4, <5>3, <5>4
      <4>7. QED
        BY <4>5, <4>6
    <3>3. QED
      BY <1>t, <2>2, <3>1, <3>2
  <2>3. draft' # None /\ past'[Len(past')] # None => past'[Len(past')] = draft'
    BY <1>1, <2>r
  <2>4. RunsAgree'
    BY <2>2 DEF RunsAgree, Run
  <2>5. TopIsOwn'
    BY <2>3 DEF TopIsOwn
  <2>6. QED
    BY <2>4, <2>5 DEF HistoryInv
<1>2. QED
  BY <1>0, <1>p, <1>1, <1>t

\* The history is as it was, the depth no lower, and so is the draft.
LEMMA HistoryStays ==
  ASSUME TypeOK, HistoryInv, past' = past, depth' \in Nat, depth' >= depth \/ depth' >= Len(past),
         draft' = draft, redone' = redone
  PROVE  HistoryInv'
<1>t. Len(past) \in Nat /\ depth \in Nat
  BY PastType
<1>0. CASE depth' >= Len(past')
  BY <1>0, <1>t, HistoryBelow
<1>1. CASE depth' < Len(past')
  <2>1. depth' >= depth /\ depth < Len(past)
    BY <1>t, <1>1
  <2> DEFINE n == Len(past)
  <2>2. Len(past') = n /\ n \in Nat
    BY <1>t
  <2> HIDE DEF n
  <2>3. \A i \in depth' + 1 .. n : i \in depth + 1 .. n
    BY <1>t, <2>1, <2>2, Above
  <2>4. ASSUME ~redone, NEW i \in depth' + 1 .. n, NEW k \in depth' + 1 .. n, i <= k, Run(i, k)
        PROVE  past[i] = past[k]
    BY <2>3, <2>4 DEF HistoryInv, RunsAgree, n
  <2>5. ASSUME NEW i \in depth' + 1 .. Len(past'), NEW k \in depth' + 1 .. Len(past'), i <= k,
               ~redone', Run(i, k)'
        PROVE  past'[i] = past'[k]
    <3>1. i \in depth' + 1 .. n /\ k \in depth' + 1 .. n
      BY <2>2, <2>5
    <3>2. Run(i, k) /\ ~redone
      BY <2>5 DEF Run
    <3>3. QED
      BY <2>4, <2>5, <3>1, <3>2
  <2>6. RunsAgree'
    <3>1. ~redone' => \A i, k \in depth' + 1 .. Len(past') : i <= k /\ Run(i, k)' => past'[i] = past'[k]
      <4>1. HAVE ~redone'
      <4>2. TAKE i, k \in depth' + 1 .. Len(past')
      <4>3. HAVE i <= k /\ Run(i, k)'
      <4>4. QED
        BY <2>5, <4>1, <4>3, ZenonT(30)
    <3>2. QED
      BY <3>1, Zenon DEF RunsAgree
  <2>7. TopIsOwn'
    BY <2>1 DEF HistoryInv, TopIsOwn
  <2>8. QED
    BY <2>6, <2>7 DEF HistoryInv
<1>2. QED
  BY <1>0, <1>1, <1>t

LEMMA UndoKeepsHistory ==
  ASSUME TypeOK, HistoryInv, Undo PROVE HistoryInv'
<1>1. /\ past' = Pop(past) /\ Len(past) \in Nat \ {0} /\ Len(past') = Len(past) - 1
      /\ \A i \in 1 .. Len(past) - 1 : past'[i] = past[i]
      /\ draft' = past[Len(past)] /\ redone' = redone
  BY PastType, PopProperties DEF Undo
<1>2. depth \in Nat /\ (depth' = depth \/ depth' = Len(past'))
  BY PastType DEF Undo, Settle
<1>3. CASE depth' >= Len(past')
  BY <1>1, <1>2, <1>3, HistoryBelow
<1>4. CASE depth' = depth /\ depth < Len(past')
  <2>1. ASSUME ~redone, NEW i \in depth + 1 .. Len(past'), NEW k \in depth + 1 .. Len(past'), i <= k,
               \A j \in i .. k : past'[j] # None
        PROVE  past'[i] = past'[k]
    <3>1. /\ i \in depth + 1 .. Len(past) /\ k \in depth + 1 .. Len(past)
          /\ \A j \in i .. k : j \in 1 .. Len(past) - 1
      BY <1>1, <1>2, <2>1
    <3>2. past'[i] = past[i] /\ past'[k] = past[k] /\ Run(i, k)
      BY <1>1, <1>2, <2>1, <3>1 DEF Run
    <3>3. QED
      BY <2>1, <3>1, <3>2 DEF HistoryInv, RunsAgree
  <2>2. ASSUME ~redone, draft' # None, past'[Len(past')] # None
        PROVE  past'[Len(past')] = draft'
    <3>1. /\ Len(past) - 1 \in depth + 1 .. Len(past) /\ Len(past) \in depth + 1 .. Len(past)
          /\ \A j \in Len(past) - 1 .. Len(past) : j = Len(past) - 1 \/ j = Len(past)
          /\ Len(past) - 1 \in 1 .. Len(past) - 1 /\ Len(past) - 1 <= Len(past)
      <4> DEFINE n == Len(past)
      <4>1. n \in Nat \ {0} /\ depth \in Nat /\ depth < n - 1
        BY <1>1, <1>2, <1>4
      <4> HIDE DEF n
      <4>2. /\ n - 1 \in depth + 1 .. n /\ n \in depth + 1 .. n /\ n - 1 \in 1 .. n - 1 /\ n - 1 <= n
            /\ \A j \in n - 1 .. n : j = n - 1 \/ j = n
        BY <4>1
      <4>3. QED
        BY <4>2 DEF n
    <3>2. past'[Len(past')] = past[Len(past) - 1]
      BY <1>1, <3>1
    <3>3. Run(Len(past) - 1, Len(past))
      BY <1>1, <2>2, <3>1, <3>2 DEF Run
    <3>4. QED
      BY <1>1, <2>2, <3>1, <3>2, <3>3 DEF HistoryInv, RunsAgree
  <2>3. QED
    BY <1>1, <1>4, <2>1, <2>2 DEF HistoryInv, RunsAgree, TopIsOwn, Run
<1>5. QED
  BY <1>1, <1>2, <1>3, <1>4

LEMMA EditedKeepsHistory ==
  ASSUME TypeOK, HistoryInv, NEW work, NEW next, Edited(work, next),
         draft = None \/ work = None \/ work = draft
  PROVE  HistoryInv'
<1> DEFINE d == IF AtCap THEN 1 ELSE 0
<1>1. /\ Len(past') \in Nat /\ Len(past') = Len(past) + 1 - d
      /\ \A i \in 1 .. Len(past') - 1 : past'[i] = past[i + d]
      /\ past'[Len(past')] = draft
  BY RecordedProperties DEF Edited
<1>2. depth \in Nat
  BY PastType
<1>3. depth' \in Nat /\ (depth' + d >= depth \/ depth' >= Len(past'))
  <2>1. CASE AtCap
    BY <1>1, <1>2, <2>1 DEF Edited, Settle
  <2>2. CASE ~AtCap
    BY <1>1, <1>2, <2>2 DEF Edited, Settle
  <2>3. QED
    BY <2>1, <2>2
<1>4. draft' = work /\ redone' = redone
  BY DEF Edited
<1> HIDE DEF d
<1>5. d \in {0, 1}
  BY DEF d
<1>6. QED
  BY <1>1, <1>3, <1>4, <1>5, HistoryGrows

LEMMA RedoKeepsHistory ==
  ASSUME TypeOK, HistoryInv, Redo PROVE HistoryInv'
<1>1. /\ Len(past') = Len(past) + 1 /\ past'[Len(past) + 1] = draft
      /\ \A i \in 1 .. Len(past) : past'[i] = past[i]
      /\ Len(past) \in Nat
  BY PastType, AppendProperties DEF Redo, TypeOK
<1>2. depth' \in Nat /\ (depth' >= depth \/ depth' >= Len(past'))
  BY <1>1, PastType DEF Redo, Settle
<1>3. redone \/ (draft # None /\ draft' # None /\ draft' # draft) => redone'
  BY DEF Redo
<1>4. /\ Len(past') \in Nat /\ Len(past') = Len(past) + 1 - 0
      /\ \A i \in 1 .. Len(past') - 1 : past'[i] = past[i + 0]
      /\ past'[Len(past')] = draft /\ (depth' + 0 >= depth \/ depth' >= Len(past'))
  BY <1>1, <1>2, PastType
<1>5. QED
  BY <1>2, <1>3, <1>4, HistoryGrows

LEMMA StepKeepsHistory ==
  ASSUME TypeOK, TypeOK', HistoryInv, [Next]_vars PROVE HistoryInv'
<1>t. /\ Len(past) \in Nat /\ depth \in Nat /\ depth' \in Nat /\ Len(past') \in Nat
  BY LenProperties, PastType DEF TypeOK
<1>s. ASSUME Settle(FALSE, 0), past' = past, draft' = draft, redone' = redone PROVE HistoryInv'
  <2>1. depth' = depth \/ depth' = Len(past)
    BY <1>s DEF Settle
  <2>2. QED
    BY <1>s, <1>t, <2>1, HistoryStays
<1>a. ASSUME UNCHANGED <<past, depth, draft, redone>> PROVE HistoryInv'
  BY <1>a, <1>t, HistoryStays
<1>l. ASSUME NEW work, NEW snapshot, Load(work, snapshot) PROVE HistoryInv'
  BY <1>l, <1>t, HistoryBelow DEF Load
<1>1. CASE Draw
  BY <1>1, EditedKeepsHistory DEF Draw
<1>2. CASE Edit \/ RemoveLast \/ Clear
  BY <1>2, EditedKeepsHistory DEF Edit, RemoveLast, Clear
<1>3. CASE Unload \/ Touch \/ CheckDraft
  BY <1>3, <1>s DEF Unload, Touch, CheckDraft, stacks
<1>4. CASE Undo
  BY <1>4, UndoKeepsHistory
<1>5. CASE Redo
  BY <1>5, RedoKeepsHistory
<1>6. ASSUME NEW r \in RouteIds, OpenRoute(r) \/ DeleteRoute(r) PROVE HistoryInv'
  <2>1. CASE OpenRoute(r)
    BY <1>l, <2>1 DEF OpenRoute
  <2>2. CASE DeleteRoute(r)
    BY <1>a, <1>s, <2>2 DEF DeleteRoute, stacks, bind
  <2>3. QED
    BY <1>6, <2>1, <2>2
<1>7. ASSUME NEW l \in LocalIds, OpenLocal(l) \/ FinishOpen(l) \/ RemoveLocal(l) PROVE HistoryInv'
  BY <1>a, <1>l, <1>7 DEF OpenLocal, FinishOpen, RemoveLocal, stacks
<1>8. CASE Import \/ \E kind \in Links : LinkArrives(kind)
  BY <1>l, <1>8 DEF Import, LinkArrives
<1>9. CASE BeginSaveLocal \/ EndSaveLocal \/ FailSaveLocal \/ Patch \/ Post \/ SignInOrOut
  BY <1>a, <1>9 DEF BeginSaveLocal, EndSaveLocal, FailSaveLocal, Patch, Post, Send, SignInOrOut,
                    stacks, bind
<1>10. ASSUME NEW q \in requests, Unanswered(q) PROVE HistoryInv'
  BY <1>a, <1>10 DEF Unanswered, stacks, bind
<1>11. ASSUME NEW q \in requests, NEW r \in RouteIds, Answered(q, r) PROVE HistoryInv'
  BY <1>s, <1>11 DEF Answered, stacks
<1>12. CASE Reload
  <2>1. CASE UNCHANGED <<stacks, trimmed>>
    BY <1>a, <1>12, <2>1 DEF Reload, stacks, bind
  <2>2. CASE past' = <<>>
    BY <1>t, <2>2, EmptySeq, HistoryBelow
  <2>3. QED
    BY <1>12, <2>1, <2>2 DEF Reload
<1>13. CASE UNCHANGED vars
  BY <1>a, <1>13 DEF vars, stacks, bind
<1>14. ASSUME NEW l \in LocalIds, NEW r \in RouteIds, ClaimAnswered(l, r) PROVE HistoryInv'
  BY <1>a, <1>14 DEF ClaimAnswered, stacks, bind
<1>15. CASE EndClaim
  BY <1>a, <1>s, <1>15 DEF EndClaim, stacks
<1>16. CASE FailClaim
  BY <1>a, <1>16 DEF FailClaim, stacks, bind
<1>17. QED
  BY <1>1, <1>2, <1>3, <1>4, <1>5, <1>6, <1>7, <1>8, <1>9, <1>10, <1>11, <1>12, <1>13, <1>14,
     <1>15, <1>16 DEF Next

LEMMA InitHistory ==
  ASSUME Init PROVE HistoryInv
BY EmptySeq DEF Init, HistoryInv, RunsAgree, TopIsOwn

\* Above the last load and the last time the draft was empty, the undo history
\* holds the draft's own work (localRoutesStore, draftReplaced).
THEOREM HistoryIsTheDrafts == Spec => []HistoryAboveLoadIsOwn
<1>1. Init => TypeOK /\ HistoryInv
  BY InitType, InitHistory
<1>2. TypeOK /\ HistoryInv /\ [Next]_vars => (TypeOK /\ HistoryInv)'
  BY StepPreservesType, StepKeepsHistory
<1>3. TypeOK /\ HistoryInv => HistoryAboveLoadIsOwn
  BY HistoryIsOwn
<1>4. QED
  BY <1>1, <1>2, <1>3, PTL DEF Spec

----------------------------------------------------------------------------
(* The snapshots since the draft was bound *)

\* They fit between the depth of the last load and the top of the history.
KeptFits == ~trimmed => depth + kept <= Len(past)

\* What Keep and Settle make of the numbers.
LEMMA KeepArith ==
  ASSUME NEW kept1 \in Nat, NEW k \in Nat, NEW t \in {-1, 0, 1}, NEW b \in BOOLEAN,
         kept1 = IF b THEN 0
                 ELSE IF k + t < 0 THEN 0 ELSE IF k + t > MaxDepth THEN MaxDepth ELSE k + t
  PROVE  kept1 = 0 \/ kept1 <= k + t
OBVIOUS

LEMMA SettledFits ==
  ASSUME TypeOK, KeptFits, NEW dropped \in BOOLEAN, NEW taken \in {-1, 0, 1},
         Settle(dropped, taken), trimmed' = trimmed, Len(past') \in Nat,
         Len(past') = IF dropped THEN Len(past) ELSE Len(past) + taken,
         dropped => taken = 1 /\ Len(past) = MaxDepth
  PROVE  KeptFits'
<1>1. /\ Len(past) \in Nat /\ depth \in Nat /\ kept \in Nat
  BY PastType
<1>2. kept' \in 0 .. MaxDepth /\ (kept' = 0 \/ kept' <= kept + taken)
  <2>1. Keep(taken)
    BY DEF Settle
  <2>2. kept' \in 0 .. MaxDepth
    BY <2>1, KeepType
  <2>3. kept' = 0 \/ kept' <= kept + taken
    BY <1>1, <2>1, <2>2 DEF Keep
  <2>4. QED
    BY <2>2, <2>3
<1>3. CASE trimmed'
  BY <1>3 DEF KeptFits
<1>4. CASE ~trimmed'
  <2> DEFINE shifted == IF dropped /\ depth > 0 THEN depth - 1 ELSE depth
  <2>1. \/ Len(past') < shifted /\ depth' = Len(past') /\ bound' = None
        \/ Len(past') >= shifted /\ depth' = shifted
    BY <1>1 DEF Settle
  <2>2. ~trimmed /\ depth + kept <= Len(past)
    BY <1>4 DEF KeptFits
  <2>3. CASE dropped
    <3>1. Len(past') = MaxDepth /\ taken = 1 /\ depth' = shifted /\ shifted \in Nat
      BY <1>1, <2>1, <2>2, <2>3
    <3>2. depth' + kept' <= Len(past')
      BY <1>1, <1>2, <2>2, <2>3, <3>1
    <3>3. QED
      BY <3>2 DEF KeptFits
  <2>4. CASE ~dropped
    <3>1. shifted = depth /\ Len(past') = Len(past) + taken
      BY <2>4
    <3>2. depth' + kept' <= Len(past')
      BY <1>1, <1>2, <2>1, <2>2, <3>1
    <3>3. QED
      BY <3>2 DEF KeptFits
  <2>5. QED
    BY <2>3, <2>4
<1>5. QED
  BY <1>3, <1>4

LEMMA EditedFits ==
  ASSUME TypeOK, KeptFits, NEW work, NEW next, Edited(work, next) PROVE KeptFits'
<1>1. /\ Len(past') \in Nat /\ Len(past') = Len(past) + 1 - (IF AtCap THEN 1 ELSE 0)
  BY RecordedProperties DEF Edited
<1>2. Len(past) \in Nat /\ (AtCap => Len(past) = MaxDepth) /\ AtCap \in BOOLEAN
  BY PastType DEF AtCap
<1>3. Len(past') = IF AtCap THEN Len(past) ELSE Len(past) + 1
  BY <1>1, <1>2
<1>4. Settle(AtCap, 1) /\ trimmed' = trimmed
  BY DEF Edited
<1>5. QED
  BY <1>1, <1>2, <1>3, <1>4, SettledFits

LEMMA StepKeepsFit ==
  ASSUME TypeOK, TypeOK', KeptFits, [Next]_vars PROVE KeptFits'
<1>t. /\ Len(past) \in Nat /\ depth \in Nat /\ depth' \in Nat /\ Len(past') \in Nat /\ kept \in Nat
  BY LenProperties, PastType DEF TypeOK
<1>s. ASSUME Settle(FALSE, 0), past' = past, trimmed' = trimmed PROVE KeptFits'
  <2>1. Len(past') = Len(past) + 0
    BY <1>s, <1>t
  <2>2. QED
    BY <1>s, <1>t, <2>1, SettledFits
<1>k. ASSUME Keep(0), UNCHANGED <<past, depth, trimmed>> PROVE KeptFits'
  <2>1. kept' = 0 \/ kept' <= kept
    BY <1>k, <1>t DEF Keep
  <2>2. kept' \in Nat
    BY <1>k, KeepType
  <2>3. QED
    BY <1>k, <1>t, <2>1, <2>2 DEF KeptFits
<1>a. ASSUME UNCHANGED <<past, depth, kept, trimmed>> PROVE KeptFits'
  BY <1>a DEF KeptFits
<1>l. ASSUME NEW work, NEW snapshot, Load(work, snapshot) PROVE KeptFits'
  BY <1>l, <1>t DEF Load, KeptFits
<1>1. CASE Draw \/ Edit \/ RemoveLast \/ Clear
  BY <1>1, EditedFits DEF Draw, Edit, RemoveLast, Clear
<1>2. CASE Unload \/ Touch \/ CheckDraft
  BY <1>2, <1>s DEF Unload, Touch, CheckDraft, stacks
<1>3. CASE Undo
  <2>1. past' = Pop(past) /\ Len(past') = Len(past) - 1
    BY <1>3, PastType, PopProperties DEF Undo
  <2>2. Settle(FALSE, -1) /\ trimmed' = trimmed /\ Len(past') = Len(past) + (-1)
    BY <1>3, <1>t, <2>1 DEF Undo
  <2>3. QED
    BY <1>t, <2>2, SettledFits
<1>4. CASE Redo
  <2>1. Len(past') = Len(past) + 1
    BY <1>4, PastType, AppendProperties DEF Redo, TypeOK
  <2>2. Settle(FALSE, 1) /\ trimmed' = trimmed
    BY <1>4 DEF Redo
  <2>3. QED
    BY <1>t, <2>1, <2>2, SettledFits
<1>5. ASSUME NEW r \in RouteIds, OpenRoute(r) \/ DeleteRoute(r) PROVE KeptFits'
  <2>1. CASE OpenRoute(r)
    BY <1>l, <2>1 DEF OpenRoute
  <2>2. CASE DeleteRoute(r)
    BY <1>a, <1>s, <2>2 DEF DeleteRoute, stacks, bind
  <2>3. QED
    BY <1>5, <2>1, <2>2
<1>6. ASSUME NEW l \in LocalIds, OpenLocal(l) \/ FinishOpen(l) \/ RemoveLocal(l) PROVE KeptFits'
  BY <1>k, <1>l, <1>6 DEF OpenLocal, FinishOpen, RemoveLocal, stacks
<1>7. CASE Import \/ \E kind \in Links : LinkArrives(kind)
  BY <1>l, <1>7 DEF Import, LinkArrives
<1>8. CASE EndSaveLocal
  BY <1>k, <1>8 DEF EndSaveLocal, stacks
<1>9. CASE BeginSaveLocal \/ FailSaveLocal \/ Patch \/ Post \/ SignInOrOut
  BY <1>a, <1>9 DEF BeginSaveLocal, FailSaveLocal, Patch, Post, Send, SignInOrOut, stacks, bind
<1>10. ASSUME NEW q \in requests, Unanswered(q) PROVE KeptFits'
  BY <1>a, <1>10 DEF Unanswered, stacks, bind
<1>11. ASSUME NEW q \in requests, NEW r \in RouteIds, Answered(q, r) PROVE KeptFits'
  BY <1>s, <1>11 DEF Answered, stacks
<1>12. CASE Reload
  <2>1. CASE UNCHANGED <<stacks, trimmed>>
    BY <1>a, <1>12, <2>1 DEF Reload, stacks, bind
  <2>2. CASE trimmed'
    BY <2>2 DEF KeptFits
  <2>3. QED
    BY <1>12, <2>1, <2>2 DEF Reload
<1>13. CASE UNCHANGED vars
  BY <1>a, <1>13 DEF vars, stacks, bind
<1>14. ASSUME NEW l \in LocalIds, NEW r \in RouteIds, ClaimAnswered(l, r) PROVE KeptFits'
  BY <1>a, <1>14 DEF ClaimAnswered, stacks, bind
<1>15. CASE EndClaim
  BY <1>k, <1>s, <1>15 DEF EndClaim, stacks
<1>16. CASE FailClaim
  BY <1>a, <1>16 DEF FailClaim, stacks, bind
<1>17. QED
  BY <1>1, <1>2, <1>3, <1>4, <1>5, <1>6, <1>7, <1>8, <1>9, <1>10, <1>11, <1>12, <1>13, <1>14,
     <1>15, <1>16 DEF Next

LEMMA UndoOfAnEdit ==
  ASSUME TypeOK, KeptFits, Undo, kept > 0, draft' # None, mode = None, ~trimmed
  PROVE  bound' = bound
<1>1. /\ Len(past) \in Nat /\ depth \in Nat /\ kept \in Nat
  BY PastType
<1>2. Len(past') = Len(past) - 1
  BY PastType, PopProperties DEF Undo
<1>3. depth + kept <= Len(past)
  BY DEF KeptFits
<1>4. ~(Len(past') < depth)
  BY <1>1, <1>2, <1>3
<1>5. bound' = StillBound
  BY <1>4 DEF Undo, Settle
<1>6. QED
  BY <1>5 DEF Undo, StillBound

\* An undo of an edit made since the draft was bound to a LocalRoute leaves it
\* bound, whatever fell off the capped history (localRoutesStore).
THEOREM UndoKeepsTheBinding == Spec => UndoOfAnEditKeepsTheBinding
<1>1. Init => TypeOK /\ KeptFits
  <2>1. Init => KeptFits
    BY EmptySeq DEF Init, KeptFits
  <2>2. QED
    BY <2>1, InitType
<1>2. TypeOK /\ KeptFits /\ [Next]_vars => (TypeOK /\ KeptFits)'
  BY StepPreservesType, StepKeepsFit
<1>3. TypeOK /\ KeptFits /\ [Next]_vars =>
        [Undo /\ kept > 0 /\ draft' # None /\ mode = None /\ ~trimmed => bound' = bound]_vars
  BY UndoOfAnEdit
<1>4. QED
  BY <1>1, <1>2, <1>3, PTL DEF Spec, UndoOfAnEditKeepsTheBinding

----------------------------------------------------------------------------
(* How the binding and the mode are lost *)

\* The draft goes no further than its own work, or leaves the LocalRoute.
LEMMA SettledBinding ==
  ASSUME DraftIsItsLocalRoute, NEW dropped, NEW taken, Settle(dropped, taken), local' = local,
         draft # None => draft' = draft \/ draft' = None \/ bound' = None
  PROVE  DraftIsItsLocalRoute'
<1>1. bound' = None \/ bound' = StillBound
  BY DEF Settle
<1>2. CASE bound' = None
  BY <1>2 DEF DraftIsItsLocalRoute
<1>3. CASE bound' # None
  <2>1. bound' = bound /\ bound # None /\ ~(draft # None /\ draft' = None)
    BY <1>1, <1>3 DEF StillBound
  <2>2. draft # None /\ draft' = draft
    BY <1>3, <2>1 DEF DraftIsItsLocalRoute
  <2>3. QED
    BY <2>1, <2>2 DEF DraftIsItsLocalRoute
<1>4. QED
  BY <1>2, <1>3

\* An undo from a draft of some work that stays bound stays in that work.
LEMMA UndoStaysInWork ==
  ASSUME TypeOK, HistoryInv, ~redone, Undo, draft # None
  PROVE  draft' = draft \/ draft' = None \/ bound' = None
<1>1. /\ Len(past) \in Nat \ {0} /\ depth \in Nat /\ Len(past') = Len(past) - 1
      /\ draft' = past[Len(past)]
  BY PastType, PopProperties DEF Undo
<1>2. CASE Len(past') < depth
  BY <1>2 DEF Undo, Settle
<1>3. CASE ~(Len(past') < depth)
  <2>1. depth < Len(past)
    BY <1>1, <1>3
  <2>2. QED
    BY <1>1, <2>1 DEF HistoryInv, TopIsOwn
<1>4. QED
  BY <1>2, <1>3

Late ==
  \/ EndSaveLocal \/ \E l \in LocalIds : FinishOpen(l)
  \/ Redo \/ (redone /\ Undo)
  \/ (Reload /\ saving # NotSaving)

LEMMA StepKeepsBinding ==
  ASSUME TypeOK, TypeOK', HistoryInv, [Next]_vars, DraftIsItsLocalRoute, ~Late
  PROVE  DraftIsItsLocalRoute'
<1>s. ASSUME Settle(FALSE, 0), local' = local, draft' = draft PROVE DraftIsItsLocalRoute'
  BY <1>s, SettledBinding
<1>a. ASSUME UNCHANGED <<draft, bound, local>> PROVE DraftIsItsLocalRoute'
  BY <1>a DEF DraftIsItsLocalRoute
<1>b. ASSUME bound' = None PROVE DraftIsItsLocalRoute'
  BY <1>b DEF DraftIsItsLocalRoute
<1>e. ASSUME NEW work, NEW next, Edited(work, next), draft = None \/ work \in {None, draft}
      PROVE  DraftIsItsLocalRoute'
  <2>1. Settle(AtCap, 1) /\ local' = local /\ draft' = work
    BY <1>e DEF Edited
  <2>2. QED
    BY <1>e, <2>1, SettledBinding
<1>1. CASE Draw \/ Edit \/ RemoveLast \/ Clear
  BY <1>1, <1>e DEF Draw, Edit, RemoveLast, Clear
<1>2. CASE Unload \/ Touch \/ CheckDraft
  BY <1>2, <1>s DEF Unload, Touch, CheckDraft
<1>3. CASE Undo
  <2>1. ~redone
    BY <1>3 DEF Late
  <2>2. Settle(FALSE, -1) /\ local' = local
    BY <1>3 DEF Undo
  <2>3. QED
    BY <1>3, <2>1, <2>2, UndoStaysInWork, SettledBinding
<1>4. CASE Redo
  BY <1>4 DEF Late
<1>5. ASSUME NEW r \in RouteIds, OpenRoute(r) \/ DeleteRoute(r) PROVE DraftIsItsLocalRoute'
  <2>1. CASE OpenRoute(r)
    BY <1>b, <2>1 DEF OpenRoute
  <2>2. CASE DeleteRoute(r)
    BY <1>a, <1>s, <2>2 DEF DeleteRoute, bind
  <2>3. QED
    BY <1>5, <2>1, <2>2
<1>6. ASSUME NEW l \in LocalIds, OpenLocal(l) PROVE DraftIsItsLocalRoute'
  <2>1. draft' = local[l] /\ local[l] # None /\ local' = local /\ (bound' = l \/ bound' = None)
    BY <1>6 DEF OpenLocal, Load
  <2>2. QED
    BY <2>1 DEF DraftIsItsLocalRoute
<1>7. ASSUME NEW l \in LocalIds, FinishOpen(l) PROVE FALSE
  BY <1>7 DEF Late
<1>8. ASSUME NEW l \in LocalIds, RemoveLocal(l) PROVE DraftIsItsLocalRoute'
  <2>1. CASE bound = l
    BY <1>b, <1>8, <2>1 DEF RemoveLocal
  <2>2. CASE bound # l
    <3>1. draft' = draft /\ bound' = bound /\ (bound # None => local'[bound] = local[bound])
      BY <1>8, <2>2 DEF RemoveLocal, TypeOK
    <3>2. QED
      BY <3>1 DEF DraftIsItsLocalRoute
  <2>3. QED
    BY <2>1, <2>2
<1>9. CASE Import \/ \E kind \in Links : LinkArrives(kind)
  BY <1>b, <1>9 DEF Import, LinkArrives
<1>10. CASE EndSaveLocal
  BY <1>10 DEF Late
<1>11. CASE BeginSaveLocal \/ FailSaveLocal \/ Patch \/ Post \/ SignInOrOut
  BY <1>a, <1>11 DEF BeginSaveLocal, FailSaveLocal, Patch, Post, Send, SignInOrOut, bind
<1>12. ASSUME NEW q \in requests, Unanswered(q) PROVE DraftIsItsLocalRoute'
  BY <1>a, <1>12 DEF Unanswered, bind
<1>13. ASSUME NEW q \in requests, NEW r \in RouteIds, Answered(q, r) PROVE DraftIsItsLocalRoute'
  BY <1>s, <1>13 DEF Answered
<1>14. CASE Reload
  <2>1. saving = NotSaving
    BY <1>14 DEF Late
  <2>2. bound' = bound /\ draft' = draft
    BY <1>14 DEF Reload, bind
  <2>3. bound # None => local'[bound] = local[bound] \/ local'[bound] = None
    BY <1>14, <2>1 DEF Reload, TypeOK
  <2>4. QED
    BY <2>2, <2>3 DEF DraftIsItsLocalRoute
<1>15. CASE UNCHANGED vars
  BY <1>a, <1>15 DEF vars, bind
<1>16. ASSUME NEW l \in LocalIds, NEW r \in RouteIds, ClaimAnswered(l, r)
       PROVE  DraftIsItsLocalRoute'
  BY <1>a, <1>16 DEF ClaimAnswered, bind
<1>17. CASE EndClaim
  <2>1. claim.id \in LocalIds /\ claim.route # None
    <3>1. claim \in [id: LocalIds, route: RouteIds, own: Drafts, saved: Drafts]
      BY <1>17 DEF EndClaim, TypeOK, Claim
    <3>2. claim.id \in LocalIds /\ claim.route \in RouteIds
      BY <3>1
    <3>3. QED
      BY <3>2 DEF RouteIds, None
  <2>2. CASE mode' = claim.route /\ Settle(FALSE, 0)
    <3>1. bound' = None
      BY <2>1, <2>2 DEF Settle, StillBound
    <3>2. QED
      BY <1>b, <3>1
  <2>3. CASE bound' = (IF bound = claim.id THEN None ELSE bound)
    <3>1. CASE bound = claim.id
      BY <1>b, <2>3, <3>1
    <3>2. CASE bound # claim.id
      <4>1. draft' = draft /\ bound' = bound /\ (bound # None => local'[bound] = local[bound])
        BY <1>17, <2>3, <3>2 DEF EndClaim, TypeOK
      <4>2. QED
        BY <4>1 DEF DraftIsItsLocalRoute
    <3>3. QED
      BY <3>1, <3>2
  <2>4. QED
    BY <1>17, <2>2, <2>3 DEF EndClaim
<1>18. CASE FailClaim
  BY <1>a, <1>18 DEF FailClaim, bind
<1>19. QED
  BY <1>1, <1>2, <1>3, <1>4, <1>5, <1>6, <1>7, <1>8, <1>9, <1>10, <1>11, <1>12, <1>13, <1>14,
     <1>15, <1>16, <1>17, <1>18 DEF Next

\* The LocalRoute a save would overwrite stays the draft's own work but for an
\* answer that lands late or a redo into another work (localRoutesStore).
THEOREM BindingIsLostOnlyLate == Spec => BindingLostOnlyLate
<1>1. Init => TypeOK /\ HistoryInv
  BY InitType, InitHistory
<1>2. TypeOK /\ HistoryInv /\ [Next]_vars => (TypeOK /\ HistoryInv)'
  BY StepPreservesType, StepKeepsHistory
<1>3. TypeOK /\ TypeOK' /\ HistoryInv /\ [Next]_vars =>
        [DraftIsItsLocalRoute /\ ~DraftIsItsLocalRoute'
           => \/ EndSaveLocal \/ \E l \in LocalIds : FinishOpen(l)
              \/ Redo \/ (redone /\ Undo)
              \/ (Reload /\ saving # NotSaving)]_vars
  BY StepKeepsBinding DEF Late
<1>4. QED
  BY <1>1, <1>2, <1>3, PTL DEF Spec, BindingLostOnlyLate

\* The draft is emptied, kept, or its mode left, and the Routes are not written.
LEMMA KeptRoute ==
  ASSUME DraftIsItsRoute, server' = server, mode' = mode \/ mode' = None,
         draft' = draft \/ draft' = None
  PROVE  DraftIsItsRoute'
<1>1. CASE mode' = None
  BY <1>1 DEF DraftIsItsRoute, RouteWork
<1>2. CASE mode' = mode
  BY <1>2 DEF DraftIsItsRoute, RouteWork
<1>3. QED
  BY <1>1, <1>2

\* A new Route's number is not that of the Route that is edited.
RoutesCounted ==
  /\ mode <= routes /\ claim.route <= routes
  /\ \A r \in RouteIds : server[r] # None => r <= routes
\* The draft that a claim is to turn into its Route held what the LocalRoute did.
OwnIsSaved == claim.own \in {None, claim.saved}
ModeInv == RoutesCounted /\ OwnIsSaved

LEMMA WrittenIsCounted ==
  ASSUME TypeOK, RoutesCounted, NEW q \in Request, NEW r \in RouteIds, Written(q, r)
  PROVE  /\ r <= routes' /\ routes <= routes'
         /\ \A o \in RouteIds : server'[o] # None => o <= routes'
<1>1. routes \in Nat /\ routes' \in Nat /\ r \in Nat
  BY DEF Written, TypeOK, RouteIds
<1>2. r <= routes' /\ routes <= routes'
  BY <1>1 DEF Written, RoutesCounted
<1>3. ASSUME NEW o \in RouteIds, server'[o] # None PROVE o <= routes'
  BY <1>1, <1>2, <1>3 DEF Written, RoutesCounted, TypeOK, RouteIds
<1>4. QED
  BY <1>2, <1>3

\* A claim makes a new Route, or finds the one it made.
LEMMA ClaimWrittenIsCounted ==
  ASSUME TypeOK, RoutesCounted, NEW l \in LocalIds, NEW r \in RouteIds, ClaimWritten(l, r)
  PROVE  /\ r <= routes' /\ routes <= routes'
         /\ \A o \in RouteIds : server'[o] # None => o <= routes'
         /\ mode # None => server'[mode] = server[mode]
<1>1. routes \in Nat /\ routes' \in Nat /\ r \in Nat /\ (mode # None => mode \in RouteIds)
  BY DEF ClaimWritten, TypeOK, RouteIds
<1>2. CASE r = routes + 1 /\ routes' = r /\ server' = [server EXCEPT ![r] = pending[l]]
  BY <1>1, <1>2 DEF RoutesCounted, TypeOK, RouteIds
<1>3. CASE server[r] # None /\ UNCHANGED <<routes, refs, server>>
  BY <1>1, <1>3 DEF RoutesCounted
<1>4. QED
  BY <1>2, <1>3 DEF ClaimWritten

LEMMA StepKeepsModeInv ==
  ASSUME TypeOK, TypeOK', ModeInv, [Next]_vars PROVE ModeInv'
<1>t. /\ routes \in Nat /\ routes' \in Nat /\ None \in Nat /\ mode \in Nat /\ claim.route \in Nat
      /\ NotClaimed.route = None /\ NotClaimed.own = None
  <2>1. NotClaimed.route = None /\ NotClaimed.own = None
    BY DEF NotClaimed
  <2>2. claim.route \in RouteIds \cup {None}
    <3>1. CASE claim = NotClaimed
      BY <2>1, <3>1
    <3>2. CASE claim \in [id: LocalIds, route: RouteIds, own: Drafts, saved: Drafts]
      BY <3>2
    <3>3. QED
      BY <3>1, <3>2 DEF TypeOK, Claim
  <2>3. /\ routes \in 0 .. MaxRoutes /\ routes' \in 0 .. MaxRoutes
        /\ mode \in RouteIds \cup {None}
    BY DEF TypeOK
  <2>4. QED
    BY <2>1, <2>2, <2>3 DEF RouteIds, None
<1>n. None <= routes'
  BY <1>t DEF None
<1>a. ASSUME UNCHANGED <<claim, routes, server>>, mode' \in {mode, None} PROVE ModeInv'
  BY <1>a, <1>n DEF ModeInv, RoutesCounted, OwnIsSaved
<1>1. CASE \/ Draw \/ Edit \/ RemoveLast \/ Clear \/ Unload \/ Undo \/ Redo \/ Touch \/ CheckDraft
  BY <1>a, <1>1 DEF Draw, Edit, RemoveLast, Clear, Edited, Unload, Undo, Redo, Touch, CheckDraft,
                    flight, counts
<1>2. ASSUME NEW r \in RouteIds, OpenRoute(r) PROVE ModeInv'
  BY <1>2 DEF OpenRoute, Load, ModeInv, RoutesCounted, OwnIsSaved, claims
<1>3. ASSUME NEW r \in RouteIds, DeleteRoute(r) PROVE ModeInv'
  <2>1. claim' = claim /\ routes' = routes /\ mode' \in {mode, None}
    BY <1>3 DEF DeleteRoute, flight, counts
  <2>2. \A o \in RouteIds : server'[o] # None => server[o] # None
    BY <1>3 DEF DeleteRoute, TypeOK
  <2>3. QED
    BY <1>n, <2>1, <2>2 DEF ModeInv, RoutesCounted, OwnIsSaved
<1>4. ASSUME NEW l \in LocalIds, OpenLocal(l) \/ FinishOpen(l) \/ RemoveLocal(l) PROVE ModeInv'
  BY <1>a, <1>4 DEF OpenLocal, Load, FinishOpen, RemoveLocal, claims, flight, counts
<1>5. CASE Import \/ \E kind \in Links : LinkArrives(kind)
  BY <1>a, <1>5 DEF Import, LinkArrives, Load, claims
<1>6. CASE \/ BeginSaveLocal \/ EndSaveLocal \/ FailSaveLocal \/ Patch \/ Post \/ SignInOrOut
  BY <1>a, <1>6 DEF BeginSaveLocal, EndSaveLocal, FailSaveLocal, Patch, Post, Send, SignInOrOut,
                    claims, counts
<1>7. ASSUME NEW q \in requests, Unanswered(q) PROVE ModeInv'
  <2>1. q \in Request /\ claim' = claim /\ mode' = mode
    BY <1>7 DEF Unanswered, TypeOK, claims
  <2>2. /\ routes <= routes'
        /\ \A o \in RouteIds : server'[o] # None => o <= routes'
    BY <1>7, <1>t, <2>1, WrittenIsCounted DEF Unanswered, ModeInv, RoutesCounted
  <2>3. QED
    BY <1>t, <2>1, <2>2 DEF ModeInv, RoutesCounted, OwnIsSaved
<1>8. ASSUME NEW q \in requests, NEW r \in RouteIds, Answered(q, r) PROVE ModeInv'
  <2>1. q \in Request /\ claim' = claim /\ mode' = r
    BY <1>8 DEF Answered, TypeOK, claims
  <2>2. /\ routes <= routes' /\ r <= routes'
        /\ \A o \in RouteIds : server'[o] # None => o <= routes'
    BY <1>8, <2>1, WrittenIsCounted DEF Answered, ModeInv
  <2>3. QED
    BY <1>t, <2>1, <2>2 DEF ModeInv, RoutesCounted, OwnIsSaved
<1>9. ASSUME NEW l \in LocalIds, NEW r \in RouteIds, ClaimAnswered(l, r) PROVE ModeInv'
  <2>1. /\ routes <= routes' /\ r <= routes' /\ mode' = mode
        /\ \A o \in RouteIds : server'[o] # None => o <= routes'
    BY <1>9, ClaimWrittenIsCounted DEF ClaimAnswered, ModeInv
  <2>2. claim'.route = r /\ claim'.own \in {None, claim'.saved}
    BY <1>9 DEF ClaimAnswered
  <2>3. QED
    BY <1>t, <2>1, <2>2 DEF ModeInv, RoutesCounted, OwnIsSaved
<1>10. CASE EndClaim
  <2>1. /\ claim' = NotClaimed /\ mode' \in {mode, claim.route}
        /\ routes' = routes /\ server' = server
    BY <1>10 DEF EndClaim, counts
  <2>2. QED
    BY <1>t, <1>n, <2>1 DEF ModeInv, RoutesCounted, OwnIsSaved
<1>11. CASE FailClaim
  <2>1. /\ claim' = NotClaimed /\ mode' = mode /\ routes <= routes'
        /\ \A o \in RouteIds : server'[o] # None => o <= routes'
    BY <1>11, <1>t, ClaimWrittenIsCounted DEF FailClaim, ModeInv, RoutesCounted
  <2>2. QED
    BY <1>t, <1>n, <2>1 DEF ModeInv, RoutesCounted, OwnIsSaved
<1>12. CASE Reload
  <2>1. claim' = NotClaimed /\ mode' = mode /\ requests \subseteq Request
    BY <1>12 DEF Reload, TypeOK
  <2>2. /\ routes <= routes'
        /\ \A o \in RouteIds : server'[o] # None => o <= routes'
    BY <1>12, <1>t, <2>1, WrittenIsCounted, ClaimWrittenIsCounted DEF Reload, ModeInv, RoutesCounted
  <2>3. QED
    BY <1>t, <1>n, <2>1, <2>2 DEF ModeInv, RoutesCounted, OwnIsSaved
<1>13. CASE UNCHANGED vars
  BY <1>a, <1>13 DEF vars, flight, counts
<1>14. QED
  BY <1>1, <1>2, <1>3, <1>4, <1>5, <1>6, <1>7, <1>8, <1>9, <1>10, <1>11, <1>12, <1>13 DEF Next

LEMMA InitMode ==
  ASSUME Init PROVE ModeInv
<1>1. \A r \in RouteIds : server[r] # None => r <= SavedRoutes
  BY DEF Init
<1>2. claim.route = None /\ claim.own = None /\ mode = None /\ routes = SavedRoutes
  BY DEF Init, NotClaimed
<1>3. None <= SavedRoutes
  BY DEF None
<1>4. QED
  BY <1>1, <1>2, <1>3 DEF ModeInv, RoutesCounted, OwnIsSaved

LateForMode ==
  \/ \E q \in requests :
       q.work # draft /\ (Unanswered(q) \/ \E r \in RouteIds : Answered(q, r))
  \/ EndClaim /\ (claim.own # draft \/ claim.saved # server[claim.route])
  \/ Undo /\ (redone \/ draft = None \/ Len(past) <= depth)
  \/ Redo /\ (redone' \/ draft = None)
  \/ Import \/ LinkArrives("ref") \/ LinkArrives("payload")
  \/ (Reload /\ \E q \in requests : q.work # draft)

\* What is written is what the draft holds.
LEMMA OwnWork ==
  ASSUME TypeOK, DraftIsItsRoute, NEW q \in Request, q.work = draft, NEW r \in RouteIds, Written(q, r),
         draft' = draft, mode' \in {mode, r}
  PROVE  DraftIsItsRoute'
<1>1. server' = [server EXCEPT ![r] = draft]
  BY DEF Written
<1>2. server'[r] = draft
  BY <1>1 DEF TypeOK
<1>3. CASE mode' = r
  BY <1>2, <1>3 DEF DraftIsItsRoute, RouteWork, RouteIds, None
<1>4. CASE mode' # r /\ mode' = mode
  <2>1. mode # None => server'[mode] = server[mode]
    BY <1>1, <1>4 DEF TypeOK
  <2>2. QED
    BY <1>4, <2>1 DEF DraftIsItsRoute, RouteWork
<1>5. QED
  BY <1>3, <1>4

LEMMA StepKeepsRoute ==
  ASSUME TypeOK, HistoryInv, ModeInv, [Next]_vars, DraftIsItsRoute, ~LateForMode
  PROVE  DraftIsItsRoute'
<1>a. ASSUME UNCHANGED <<draft, mode, server>> PROVE DraftIsItsRoute'
  BY <1>a, KeptRoute
<1>n. ASSUME mode' = None PROVE DraftIsItsRoute'
  BY <1>n DEF DraftIsItsRoute, RouteWork
<1>c. ASSUME NEW l \in LocalIds, NEW r \in RouteIds, ClaimWritten(l, r), UNCHANGED <<draft, mode>>
      PROVE  DraftIsItsRoute'
  <2>1. mode # None => server'[mode] = server[mode]
    BY <1>c, ClaimWrittenIsCounted DEF ModeInv
  <2>2. QED
    BY <1>c, <2>1 DEF DraftIsItsRoute, RouteWork
<1>1. CASE Draw
  <2>1. CASE RouteWork # None /\ Edited(RouteWork, mode)
    BY <2>1 DEF Edited, DraftIsItsRoute, RouteWork
  <2>2. CASE RouteWork = None /\ Edited(works + 1, mode)
    BY <2>2 DEF Edited, DraftIsItsRoute, RouteWork
  <2>3. QED
    BY <1>1, <2>1, <2>2 DEF Draw
<1>2. CASE Edit \/ RemoveLast \/ Clear
  BY <1>2, KeptRoute DEF Edit, RemoveLast, Clear, Edited
<1>3. CASE Unload \/ Touch \/ CheckDraft
  BY <1>3, KeptRoute DEF Unload, Touch, CheckDraft
<1>4. CASE Undo
  <2>1. ~redone /\ draft # None /\ ~(Len(past) <= depth)
    BY <1>4 DEF LateForMode
  <2>2. depth < Len(past)
    BY <2>1, PastType
  <2>3. draft' = past[Len(past)]
    BY <1>4, PastType, PopProperties DEF Undo
  <2>4. draft' = draft \/ draft' = None
    BY <2>1, <2>2, <2>3 DEF HistoryInv, TopIsOwn
  <2>5. QED
    BY <1>4, <2>4, KeptRoute DEF Undo
<1>5. CASE Redo
  <2>1. ~redone' /\ draft # None
    BY <1>5 DEF LateForMode
  <2>2. draft' = draft \/ draft' = None
    BY <1>5, <2>1 DEF Redo
  <2>3. QED
    BY <1>5, <2>2, KeptRoute DEF Redo
<1>6. ASSUME NEW r \in RouteIds, OpenRoute(r) PROVE DraftIsItsRoute'
  <2>1. draft' = server[r] /\ mode' = r /\ server' = server
    BY <1>6 DEF OpenRoute, Load
  <2>2. QED
    BY <2>1 DEF DraftIsItsRoute, RouteWork
<1>7. ASSUME NEW r \in RouteIds, DeleteRoute(r) PROVE DraftIsItsRoute'
  <2>1. draft' = draft /\ (mode' = None \/ mode' = mode)
    BY <1>7 DEF DeleteRoute
  <2>2. CASE mode' = None
    BY <1>n, <2>2
  <2>3. CASE mode' = mode /\ mode # None
    <3>1. server'[mode] = server[mode] \/ server'[mode] = None
      BY <1>7, <2>3 DEF DeleteRoute, TypeOK
    <3>2. QED
      BY <2>1, <2>3, <3>1 DEF DraftIsItsRoute, RouteWork
  <2>4. QED
    BY <2>1, <2>2, <2>3
<1>8. ASSUME NEW l \in LocalIds, OpenLocal(l) \/ FinishOpen(l) \/ RemoveLocal(l)
      PROVE  DraftIsItsRoute'
  BY <1>a, <1>n, <1>8 DEF OpenLocal, FinishOpen, RemoveLocal
<1>9. CASE Import
  BY <1>9 DEF LateForMode
<1>10. ASSUME NEW kind \in Links, LinkArrives(kind) PROVE DraftIsItsRoute'
  <2>1. kind = "external"
    BY <1>10 DEF LateForMode, Links
  <2>2. QED
    BY <1>n, <1>10, <2>1 DEF LinkArrives
<1>11. CASE BeginSaveLocal \/ EndSaveLocal \/ FailSaveLocal \/ Patch \/ Post \/ SignInOrOut
  BY <1>a, <1>11 DEF BeginSaveLocal, EndSaveLocal, FailSaveLocal, Patch, Post, Send, SignInOrOut
<1>12. ASSUME NEW q \in requests, Unanswered(q) \/ \E r \in RouteIds : Answered(q, r)
       PROVE  DraftIsItsRoute'
  <2>1. q \in Request /\ q.work = draft
    BY <1>12 DEF LateForMode, TypeOK
  <2>2. CASE Unanswered(q)
    BY <1>a, <2>1, <2>2, OwnWork DEF Unanswered
  <2>3. ASSUME NEW r \in RouteIds, Answered(q, r) PROVE DraftIsItsRoute'
    BY <2>1, <2>3, OwnWork DEF Answered
  <2>4. QED
    BY <1>12, <2>2, <2>3
<1>13. ASSUME NEW l \in LocalIds, NEW r \in RouteIds, ClaimAnswered(l, r) PROVE DraftIsItsRoute'
  BY <1>c, <1>13 DEF ClaimAnswered
<1>14. CASE EndClaim
  <2>1. claim.own = draft /\ claim.saved = server[claim.route] /\ draft' = draft /\ server' = server
    BY <1>14 DEF EndClaim, LateForMode
  <2>2. CASE draft = None
    BY <2>1, <2>2 DEF DraftIsItsRoute
  <2>3. CASE draft # None
    <3>1. mode' = claim.route
      BY <1>14, <2>1, <2>3 DEF EndClaim
    <3>2. draft = server[claim.route]
      BY <2>1, <2>3 DEF ModeInv, OwnIsSaved
    <3>3. QED
      BY <2>1, <3>1, <3>2 DEF DraftIsItsRoute, RouteWork
  <2>4. QED
    BY <2>2, <2>3
<1>15. CASE FailClaim
  BY <1>a, <1>c, <1>15 DEF FailClaim
<1>16. CASE Reload
  <2>1. draft' = draft /\ mode' = mode /\ \A q \in requests : q \in Request /\ q.work = draft
    BY <1>16 DEF LateForMode, Reload, TypeOK
  <2>2. CASE server' = server
    BY <1>a, <2>1, <2>2
  <2>3. ASSUME NEW q \in requests, NEW r \in RouteIds, Written(q, r) PROVE DraftIsItsRoute'
    BY <2>1, <2>3, OwnWork
  <2>4. QED
    BY <1>c, <1>16, <2>1, <2>2, <2>3 DEF Reload
<1>17. CASE UNCHANGED vars
  BY <1>a, <1>17 DEF vars
<1>18. QED
  BY <1>1, <1>2, <1>3, <1>4, <1>5, <1>6, <1>7, <1>8, <1>9, <1>10, <1>11, <1>12, <1>13, <1>14,
     <1>15, <1>16, <1>17 DEF Next

\* The Route a save would PATCH stays the draft's own work but for an answer to
\* another draft, an undo or redo over a load and a load that leaves the mode:
\* an undo above the last load keeps it right, and a claim that finds the draft as
\* it is saved (applySavedRoute, claimLocalRoutes, RouteDraftEditor, useDeleteRoute,
\* useRouteDraftRehydration).
THEOREM ModeIsLostOnlyLate == Spec => ModeLostOnlyLate
<1>1. Init => TypeOK /\ HistoryInv /\ ModeInv
  BY InitType, InitHistory, InitMode
<1>2. TypeOK /\ HistoryInv /\ ModeInv /\ [Next]_vars => (TypeOK /\ HistoryInv /\ ModeInv)'
  BY StepPreservesType, StepKeepsHistory, StepKeepsModeInv
<1>3. TypeOK /\ HistoryInv /\ ModeInv /\ [Next]_vars =>
        [DraftIsItsRoute /\ ~DraftIsItsRoute'
           => \/ \E q \in requests :
                   q.work # draft /\ (Unanswered(q) \/ \E r \in RouteIds : Answered(q, r))
              \/ EndClaim /\ (claim.own # draft \/ claim.saved # server[claim.route])
              \/ Undo /\ (redone \/ draft = None \/ Len(past) <= depth)
              \/ Redo /\ (redone' \/ draft = None)
              \/ Import \/ LinkArrives("ref") \/ LinkArrives("payload")
              \/ (Reload /\ \E q \in requests : q.work # draft)]_vars
  BY StepKeepsRoute DEF LateForMode
<1>4. QED
  BY <1>1, <1>2, <1>3, PTL DEF Spec, ModeLostOnlyLate
=============================================================================

----------------------------- MODULE RouteRecord -----------------------------
(***************************************************************************)
(* The row of a saved Route and the two columns the API derives from its   *)
(* geometry after the answer was sent: the surface composition (ADR 0032)  *)
(* and the Place.                                                          *)
(*                                                                         *)
(* RoutesService.update loads the row, assigns what was sent and flushes:  *)
(* MikroORM writes the columns that differ from what it loaded, and no     *)
(* other.  It then starts the derivations without awaiting them.  Each     *)
(* reads the row again, asks a provider about that geometry and writes the *)
(* answer, whatever the row holds by then.                                 *)
(***************************************************************************)
EXTENDS Naturals, FiniteSets

CONSTANTS
  Routes,      \* ids of the account's Routes
  Geometries,  \* geometries a Route may have
  StartOf,     \* [Geometries -> where it starts]
  MaxJobs,     \* bound on the derivations of one kind in flight
  None         \* null, or a field that was not sent

Kinds == {"surface", "place"}

\* What a derivation of kind k makes of a geometry: a composition is as good
\* as the geometry it was traced on, a Place as the point it was geocoded at.
Source(k, g) == IF k = "surface" THEN g ELSE StartOf[g]
Sources == Geometries \cup {StartOf[g] : g \in Geometries}

VARIABLES
  routes,  \* [Routes -> row]
  job,     \* [Kinds -> [1 .. MaxJobs -> a derivation in flight, or NoJob]]
  missed   \* history: <<kind, Route>> whose last derivation came late or failed,
           \* or was not started because another update overtook the flush

recordVars == <<routes, job, missed>>

\* state: "unused" before the insert, "hidden" when deleted_at is set, "gone"
\* once the row was deleted.
Row == [state: {"unused", "live", "hidden", "gone"}, geometry: Geometries,
        derived: [Kinds -> Sources \cup {None}]]

Job == [at: {"free", "queued", "asked"}, route: Routes \cup {None},
        geometry: Geometries \cup {None}, had: Sources \cup {None}]
NoJob == [at |-> "free", route |-> None, geometry |-> None, had |-> None]

RecordTypeOK ==
  /\ routes \in [Routes -> Row]
  /\ job \in [Kinds -> [1 .. MaxJobs -> Job]]
  /\ missed \subseteq Kinds \X Routes

Live(r) == routes[r].state = "live"
Hidden(r) == routes[r].state = "hidden"

\* The derived column says something about another geometry than the row's.
StaleRow(row, k) == row.derived[k] \notin {None, Source(k, row.geometry)}
Stale(r, k) == routes[r].state # "gone" /\ StaleRow(routes[r], k)

------------------------------------------------------------------------------
(* Statements *)

\* A column at a flush: written only if the entity changed it.
Column(stored, loaded, wanted) == IF wanted = loaded THEN stored ELSE wanted

\* update ... set deleted_at on the Routes of S that have a row.
SetState(S, state) ==
  [r \in Routes |-> IF r \in S /\ routes[r].state \in {"live", "hidden"}
                      THEN [routes[r] EXCEPT !.state = state] ELSE routes[r]]

FreeJobs(k) == {i \in 1 .. MaxJobs : job[k][i] = NoJob}

\* Start the derivations of kinds K for Route r.  Bound: a free slot of each.
Derive(K, r) ==
  /\ \A k \in K : FreeJobs(k) # {}
  /\ job' = [k \in Kinds |->
       IF k \in K
         THEN [job[k] EXCEPT ![CHOOSE i \in FreeJobs(k) : TRUE] =
                [NoJob EXCEPT !.at = "queued", !.route = r]]
         ELSE job[k]]

\* createNew's insert: the columns are null, both derivations start.
InsertRow(r, g) ==
  /\ routes[r].state = "unused"
  /\ routes' = [routes EXCEPT ![r] =
       [state |-> "live", geometry |-> g, derived |-> [k \in Kinds |-> None]]]
  /\ Derive(Kinds, r)
  /\ UNCHANGED missed

\* Mutant: the composition of the old geometry is kept until the next one.
UpdatedKeepingSurface(stored, loaded, sent) ==
  [stored EXCEPT !.geometry = IF sent = None THEN @ ELSE Column(@, loaded.geometry, sent)]

\* update's flush of the row it loaded with the geometry it was sent, if any.
Updated(stored, loaded, sent) ==
  [stored EXCEPT
    !.geometry = IF sent = None THEN @ ELSE Column(@, loaded.geometry, sent),
    !.derived["surface"] =
      IF sent = None THEN @ ELSE Column(@, loaded.derived["surface"], None)]

\* The derivations update starts, from what the entity holds after the flush.
ToDerive(loaded, sent) ==
  {k \in Kinds :
    IF k = "surface" THEN sent # None \/ loaded.derived[k] = None
    ELSE \/ loaded.derived[k] = None
         \/ sent # None /\ StartOf[sent] # StartOf[loaded.geometry]}

\* An update decides by the row it loaded.  When another one changed it since,
\* a derivation that is now due may not be started, and a composition written
\* since is not cleared.
FlushRow(r, loaded, sent) ==
  LET row == routes[r]
      overtaken == row.geometry # loaded.geometry \/ row.derived # loaded.derived
      stored == IF row.state = "gone" THEN row ELSE Updated(row, loaded, sent)
  IN
  /\ routes' = [routes EXCEPT ![r] = stored]
  /\ Derive(ToDerive(loaded, sent), r)
  /\ missed' = (missed \ (ToDerive(loaded, sent) \X {r}))
               \cup {<<k, r>> : k \in {k \in Kinds : overtaken /\ StaleRow(stored, k)}}

------------------------------------------------------------------------------
(* The derivations: SurfaceCompositionService.deriveForRoute and           *)
(* PlacesService.derivePlaceForRoute                                       *)

\* A derivation that ends without a value leaves the column as it is.
EndJob(k, i) ==
  /\ job' = [job EXCEPT ![k][i] = NoJob]
  /\ missed' = IF StaleRow(routes'[job[k][i].route], k)
                 THEN missed \cup {<<k, job[k][i].route>>}
                 ELSE missed \ {<<k, job[k][i].route>>}

\* The row as the derivation reads it; a deleted Route is not found.
LoadForDerivation(k, i) ==
  /\ job[k][i].at = "queued"
  /\ UNCHANGED routes
  /\ LET r == job[k][i].route IN
     \/ /\ Live(r)
        /\ job' = [job EXCEPT ![k][i] = [@ EXCEPT !.at = "asked", !.geometry = routes[r].geometry,
                                                 !.had = routes[r].derived[k]]]
        /\ UNCHANGED missed
     \/ ~Live(r) /\ EndJob(k, i)

\* The provider answered: the flush writes a value that differs from the one
\* loaded, to a row that still exists.
WriteDerived(k, i) ==
  LET j == job[k][i] IN
  /\ j.at = "asked"
  /\ routes' = IF routes[j.route].state = "gone" THEN routes
               ELSE [routes EXCEPT ![j.route].derived[k] =
                      Column(@, j.had, Source(k, j.geometry))]
  /\ EndJob(k, i)

\* Fail-open: no answer, an error, or a process that stops.
DerivationFails(k, i) ==
  /\ job[k][i].at # "free"
  /\ UNCHANGED routes
  /\ EndJob(k, i)

DerivationStep ==
  \E k \in Kinds, i \in 1 .. MaxJobs :
    LoadForDerivation(k, i) \/ WriteDerived(k, i) \/ DerivationFails(k, i)

\* A derived column that is about another geometry is one whose derivation
\* came late, failed or was overlooked by updates that overlap, or a Place
\* whose derivation is still to come.  A composition is never merely pending:
\* update clears it ("stale composition must never render against new
\* geometry", RoutesService.update).
DerivedFollowsGeometry ==
  \A r \in Routes, k \in Kinds :
    Stale(r, k) =>
      \/ <<k, r>> \in missed
      \/ k = "place" /\ \E i \in 1 .. MaxJobs : job[k][i] # NoJob /\ job[k][i].route = r
=============================================================================

-------------------------- MODULE AccountLifeProofs --------------------------
(***************************************************************************)
(* Proofs about AccountLife and the RouteRecord it holds, for any number   *)
(* of requests, sessions, Routes and derivations in flight.                *)
(***************************************************************************)
EXTENDS AccountLife, TLAPS

------------------------------------------------------------------------------
(* The record: types *)

\* A derivation in flight has a Route, and a geometry once it asked.
JobsFormed ==
  \A k \in Kinds, i \in 1 .. MaxJobs :
    /\ job[k][i].at # "free" => job[k][i].route \in Routes
    /\ job[k][i].at = "asked" => job[k][i].geometry \in Geometries

RecordInv == RecordTypeOK /\ JobsFormed

LEMMA SourceType ==
  ASSUME NEW k \in Kinds, NEW g \in Geometries
  PROVE  Source(k, g) \in Sources
BY DEF Source, Sources

LEMMA NewRowType == NewRow \in Row
BY AccountLifeAssumption DEF NewRow, Row

LEMMA NoJobType == NoJob \in Job
BY DEF NoJob, Job

LEMMA SetStateType ==
  ASSUME routes \in [Routes -> Row], NEW S, NEW state \in {"live", "hidden", "gone"}
  PROVE  SetState(S, state) \in [Routes -> Row]
BY DEF SetState, Row

\* SetState moves rows between states and changes nothing else of them.
LEMMA SetStateKeeps ==
  ASSUME routes \in [Routes -> Row], NEW S, NEW state \in {"live", "hidden", "gone"},
         NEW r \in Routes
  PROVE  /\ SetState(S, state)[r].geometry = routes[r].geometry
         /\ SetState(S, state)[r].derived = routes[r].derived
         /\ SetState(S, state)[r].state =
              IF r \in S /\ routes[r].state \in {"live", "hidden"} THEN state ELSE routes[r].state
BY DEF SetState, Row

LEMMA UpdatedType ==
  ASSUME NEW stored \in Row, NEW loaded \in Row, NEW sent \in Geometries \cup {None}
  PROVE  Updated(stored, loaded, sent) \in Row
<1> DEFINE g == IF sent = None THEN stored.geometry ELSE Column(stored.geometry, loaded.geometry, sent)
           c == IF sent = None THEN stored.derived["surface"]
                ELSE Column(stored.derived["surface"], loaded.derived["surface"], None)
           d == [stored.derived EXCEPT !["surface"] = c]
<1>1. g \in Geometries
  BY DEF Column, Row
<1>2. c \in Sources \cup {None}
  BY DEF Column, Row, Kinds
<1>3. d \in [Kinds -> Sources \cup {None}]
  BY <1>2 DEF Row
<1>4. Updated(stored, loaded, sent) = [stored EXCEPT !.geometry = g, !.derived = d]
  BY DEF Updated, Row
<1>5. QED
  BY <1>1, <1>3, <1>4 DEF Row

LEMMA UpdatedFields ==
  ASSUME NEW stored \in Row, NEW loaded \in Row, NEW sent \in Geometries \cup {None}
  PROVE  /\ Updated(stored, loaded, sent).state = stored.state
         /\ Updated(stored, loaded, sent).geometry =
              IF sent = None THEN stored.geometry ELSE Column(stored.geometry, loaded.geometry, sent)
         /\ Updated(stored, loaded, sent).derived["place"] = stored.derived["place"]
         /\ Updated(stored, loaded, sent).derived["surface"] =
              IF sent = None THEN stored.derived["surface"]
              ELSE Column(stored.derived["surface"], loaded.derived["surface"], None)
BY DEF Updated, Row, Kinds

\* Derive puts a queued derivation of r in one free slot of each kind.
LEMMA DeriveType ==
  ASSUME RecordInv, NEW K \in SUBSET Kinds, NEW r \in Routes, Derive(K, r)
  PROVE  /\ job' \in [Kinds -> [1 .. MaxJobs -> Job]]
         /\ JobsFormed'
         /\ \A k \in Kinds, i \in 1 .. MaxJobs :
              job[k][i] # NoJob => job'[k][i] = job[k][i]
         /\ \A k \in K : \E i \in 1 .. MaxJobs : job'[k][i] # NoJob /\ job'[k][i].route = r
<1> DEFINE new == [NoJob EXCEPT !.at = "queued", !.route = r]
           slot(k) == CHOOSE i \in FreeJobs(k) : TRUE
<1>1. new \in Job /\ new # NoJob /\ new.route = r /\ new.at = "queued"
  BY DEF NoJob, Job
<1>2. ASSUME NEW k \in K
      PROVE  slot(k) \in FreeJobs(k)
  BY DEF Derive
<1>3. job' = [k \in Kinds |-> IF k \in K THEN [job[k] EXCEPT ![slot(k)] = new] ELSE job[k]]
  BY DEF Derive
<1> HIDE DEF slot, new
<1>4. \A k \in K : slot(k) \in 1 .. MaxJobs /\ job[k][slot(k)] = NoJob
  BY <1>2 DEF FreeJobs
<1>5. job \in [Kinds -> [1 .. MaxJobs -> Job]]
  BY DEF RecordInv, RecordTypeOK
<1>6. job' \in [Kinds -> [1 .. MaxJobs -> Job]]
  BY <1>1, <1>3, <1>4, <1>5
<1>7. ASSUME NEW k \in Kinds, NEW i \in 1 .. MaxJobs, job'[k][i] # job[k][i]
      PROVE  job[k][i] = NoJob /\ job'[k][i] = new
  BY <1>3, <1>4, <1>5, <1>7
<1>8. ASSUME NEW k \in K
      PROVE  \E i \in 1 .. MaxJobs : job'[k][i] # NoJob /\ job'[k][i].route = r
  <2>1. job'[k][slot(k)] = new
    BY <1>3, <1>4, <1>5
  <2>2. QED
    BY <1>1, <1>4, <2>1
<1>9. JobsFormed'
  BY <1>1, <1>7 DEF JobsFormed, RecordInv
<1>10. QED
  BY <1>6, <1>7, <1>8, <1>9

LEMMA InsertRowType ==
  ASSUME RecordInv, NEW r \in Routes, NEW g \in Geometries, InsertRow(r, g)
  PROVE  RecordInv'
<1> DEFINE row == [state |-> "live", geometry |-> g, derived |-> [k \in Kinds |-> None]]
<1>1. row \in Row
  BY DEF Row
<1>2. routes' = [routes EXCEPT ![r] = row] /\ missed' = missed
  BY DEF InsertRow
<1> HIDE DEF row
<1>3. routes' \in [Routes -> Row]
  BY <1>1, <1>2 DEF RecordInv, RecordTypeOK
<1>4. Derive(Kinds, r)
  BY DEF InsertRow
<1>5. job' \in [Kinds -> [1 .. MaxJobs -> Job]] /\ JobsFormed'
  BY <1>4, DeriveType
<1>6. QED
  BY <1>2, <1>3, <1>5 DEF RecordInv, RecordTypeOK

LEMMA FlushRowType ==
  ASSUME RecordInv, NEW r \in Routes, NEW loaded \in Row, NEW sent \in Geometries \cup {None},
         FlushRow(r, loaded, sent)
  PROVE  RecordInv'
<1> DEFINE stored == IF routes[r].state = "gone" THEN routes[r] ELSE Updated(routes[r], loaded, sent)
<1>1. routes[r] \in Row
  BY DEF RecordInv, RecordTypeOK
<1>2. stored \in Row
  BY <1>1, UpdatedType
<1>3. routes' = [routes EXCEPT ![r] = stored]
  BY DEF FlushRow
<1>4. Derive(ToDerive(loaded, sent), r)
  BY DEF FlushRow
<1>5. ToDerive(loaded, sent) \in SUBSET Kinds
  BY DEF ToDerive
<1>6. missed' \subseteq Kinds \X Routes
  BY <1>5 DEF FlushRow, RecordInv, RecordTypeOK
<1> HIDE DEF stored
<1>7. routes' \in [Routes -> Row]
  BY <1>2, <1>3 DEF RecordInv, RecordTypeOK
<1>8. job' \in [Kinds -> [1 .. MaxJobs -> Job]] /\ JobsFormed'
  BY <1>4, <1>5, DeriveType
<1>9. QED
  BY <1>6, <1>7, <1>8 DEF RecordInv, RecordTypeOK

\* How a step of a derivation moves its slot, the rows and the misses.
LEMMA DerivationMoves ==
  ASSUME RecordInv, NEW k \in Kinds, NEW i \in 1 .. MaxJobs,
         LoadForDerivation(k, i) \/ WriteDerived(k, i) \/ DerivationFails(k, i)
  PROVE  LET j == job[k][i] IN
         /\ j.route \in Routes
         /\ \/ /\ UNCHANGED <<routes, missed>>
               /\ \E q \in Job : /\ q.at = "asked" /\ q.route = j.route /\ q.geometry \in Geometries
                                 /\ job' = [job EXCEPT ![k][i] = q]
            \/ UNCHANGED routes /\ EndJob(k, i)
            \/ /\ EndJob(k, i)
               /\ \E d \in Sources \cup {None} :
                    routes' = [routes EXCEPT ![j.route].derived[k] = d]
<1> DEFINE j == job[k][i]
<1>2. job[k][i].at # "free"
  BY DEF LoadForDerivation, WriteDerived, DerivationFails
<1>3. j.route \in Routes
  BY <1>2 DEF RecordInv, RecordTypeOK, JobsFormed
<1>4. j \in Job /\ routes[j.route] \in Row
  BY <1>3 DEF RecordInv, RecordTypeOK
<1>5. CASE LoadForDerivation(k, i)
  <2>1. CASE Live(j.route) /\ UNCHANGED missed /\
             job' = [job EXCEPT ![k][i] = [@ EXCEPT !.at = "asked",
                                             !.geometry = routes[j.route].geometry,
                                             !.had = routes[j.route].derived[k]]]
    <3> DEFINE q == [j EXCEPT !.at = "asked", !.geometry = routes[j.route].geometry,
                              !.had = routes[j.route].derived[k]]
    <3>1. q \in Job /\ q.at = "asked" /\ q.route = j.route /\ q.geometry \in Geometries
      BY <1>4 DEF Job, Row
    <3>2. job' = [job EXCEPT ![k][i] = q]
      BY <2>1 DEF RecordInv, RecordTypeOK
    <3>3. QED
      BY <1>3, <1>5, <2>1, <3>1, <3>2 DEF LoadForDerivation
  <2>2. CASE ~Live(j.route) /\ EndJob(k, i)
    BY <1>3, <1>5, <2>2 DEF LoadForDerivation
  <2>3. QED
    BY <1>5, <2>1, <2>2 DEF LoadForDerivation
<1>6. CASE WriteDerived(k, i)
  <2>1. EndJob(k, i)
    BY <1>6 DEF WriteDerived
  <2>2. CASE routes[j.route].state = "gone"
    BY <1>3, <1>6, <2>1, <2>2 DEF WriteDerived
  <2>3. CASE routes[j.route].state # "gone"
    <3> DEFINE d == Column(routes[j.route].derived[k], j.had, Source(k, j.geometry))
    <3>1. j.geometry \in Geometries
      BY <1>6 DEF RecordInv, JobsFormed, WriteDerived
    <3>2. d \in Sources \cup {None}
      BY <1>4, <3>1, SourceType DEF Column, Row
    <3>3. routes' = [routes EXCEPT ![j.route].derived[k] = d]
      BY <1>3, <1>6, <2>3 DEF WriteDerived
    <3>4. QED
      BY <1>3, <2>1, <3>2, <3>3
  <2>4. QED
    BY <2>2, <2>3
<1>7. CASE DerivationFails(k, i)
  BY <1>3, <1>7 DEF DerivationFails
<1>8. QED
  BY <1>5, <1>6, <1>7

LEMMA EndJobType ==
  ASSUME RecordInv, NEW k \in Kinds, NEW i \in 1 .. MaxJobs, job[k][i].route \in Routes,
         EndJob(k, i), routes' \in [Routes -> Row]
  PROVE  RecordInv'
<1>1. job' = [job EXCEPT ![k][i] = NoJob]
  BY DEF EndJob
<1>2. job' \in [Kinds -> [1 .. MaxJobs -> Job]] /\ JobsFormed'
  BY <1>1, NoJobType DEF RecordInv, RecordTypeOK, JobsFormed, NoJob
<1>3. missed' \subseteq Kinds \X Routes
  BY DEF EndJob, RecordInv, RecordTypeOK
<1>4. QED
  BY <1>2, <1>3 DEF RecordInv, RecordTypeOK

LEMMA DerivedSetType ==
  ASSUME routes \in [Routes -> Row], NEW r \in Routes, NEW k \in Kinds,
         NEW d \in Sources \cup {None}, routes' = [routes EXCEPT ![r].derived[k] = d]
  PROVE  /\ routes' \in [Routes -> Row]
         /\ \A s \in Routes : routes'[s].geometry = routes[s].geometry
                              /\ routes'[s].state = routes[s].state
         /\ \A s \in Routes, l \in Kinds :
              <<s, l>> # <<r, k>> => routes'[s].derived[l] = routes[s].derived[l]
<1> DEFINE row == [routes[r] EXCEPT !.derived = [@ EXCEPT ![k] = d]]
<1>1. row \in Row /\ row.geometry = routes[r].geometry /\ row.state = routes[r].state
      /\ \A l \in Kinds : l # k => row.derived[l] = routes[r].derived[l]
  BY DEF Row
<1>2. routes' = [routes EXCEPT ![r] = row]
  BY DEF Row
<1> HIDE DEF row
<1>3. QED
  BY <1>1, <1>2

LEMMA DerivationType ==
  ASSUME RecordInv, DerivationStep
  PROVE  RecordInv'
<1>1. PICK k \in Kinds, i \in 1 .. MaxJobs :
        LoadForDerivation(k, i) \/ WriteDerived(k, i) \/ DerivationFails(k, i)
  BY DEF DerivationStep
<1> DEFINE j == job[k][i]
<1>2. j.route \in Routes
  BY <1>1, DerivationMoves
<1>3. CASE UNCHANGED <<routes, missed>> /\
           \E q \in Job : /\ q.at = "asked" /\ q.route = j.route /\ q.geometry \in Geometries
                          /\ job' = [job EXCEPT ![k][i] = q]
  BY <1>2, <1>3 DEF RecordInv, RecordTypeOK, JobsFormed
<1>4. CASE UNCHANGED routes /\ EndJob(k, i)
  BY <1>2, <1>4, EndJobType DEF RecordInv, RecordTypeOK
<1>5. CASE EndJob(k, i) /\ \E d \in Sources \cup {None} :
             routes' = [routes EXCEPT ![j.route].derived[k] = d]
  <2>1. routes' \in [Routes -> Row]
    BY <1>2, <1>5, DerivedSetType DEF RecordInv, RecordTypeOK
  <2>2. QED
    BY <1>2, <1>5, <2>1, EndJobType
<1>6. QED
  BY <1>1, <1>3, <1>4, <1>5, DerivationMoves

------------------------------------------------------------------------------
(* The record: a derived column follows its geometry *)

LEMMA NoneIsNoSource == None \notin Sources
BY AccountLifeAssumption

\* A step that changes no geometry, no derived column, no job and no miss.
LEMMA FollowsWhenRowsKeep ==
  ASSUME DerivedFollowsGeometry, UNCHANGED <<job, missed>>,
         \A r \in Routes : /\ routes'[r].geometry = routes[r].geometry
                           /\ routes'[r].derived = routes[r].derived
                           /\ routes[r].state = "gone" => routes'[r].state = "gone"
  PROVE  DerivedFollowsGeometry'
BY DEF DerivedFollowsGeometry, Stale, StaleRow

LEMMA FollowsInsertRow ==
  ASSUME RecordInv, DerivedFollowsGeometry, NEW r \in Routes, NEW g \in Geometries, InsertRow(r, g)
  PROVE  DerivedFollowsGeometry'
<1>1. Derive(Kinds, r)
  BY DEF InsertRow
<1>2. \A k \in Kinds, i \in 1 .. MaxJobs : job[k][i] # NoJob => job'[k][i] = job[k][i]
  BY <1>1, DeriveType
<1>3. SUFFICES ASSUME NEW s \in Routes, NEW k \in Kinds, Stale(s, k)'
               PROVE  \/ <<k, s>> \in missed'
                      \/ k = "place" /\ \E i \in 1 .. MaxJobs : job'[k][i] # NoJob /\ job'[k][i].route = s
  BY DEF DerivedFollowsGeometry
<1>4. s # r
  BY <1>3 DEF InsertRow, Stale, StaleRow, RecordInv, RecordTypeOK
<1>5. Stale(s, k)
  BY <1>3, <1>4 DEF InsertRow, Stale, StaleRow, RecordInv, RecordTypeOK
<1>6. QED
  BY <1>2, <1>5 DEF DerivedFollowsGeometry, InsertRow

\* A flush of the row as it was loaded leaves a composition that was stale
\* before, and a Place that was stale before or is derived anew.
LEMMA UpdatedStale ==
  ASSUME NEW row \in Row, NEW loaded \in Row, NEW sent \in Geometries \cup {None},
         row.geometry = loaded.geometry, row.derived = loaded.derived,
         NEW k \in Kinds, StaleRow(Updated(row, loaded, sent), k), k \notin ToDerive(loaded, sent)
  PROVE  StaleRow(row, k)
<1> DEFINE new == Updated(row, loaded, sent)
<1>1. /\ new.geometry = IF sent = None THEN row.geometry ELSE sent
      /\ new.derived["place"] = row.derived["place"]
      /\ new.derived["surface"] = IF sent = None THEN row.derived["surface"] ELSE None
  BY UpdatedFields DEF Column
<1>2. CASE k = "surface"
  BY <1>1, <1>2 DEF StaleRow, ToDerive
<1>3. CASE k = "place"
  <2>1. sent = None \/ StartOf[sent] = StartOf[loaded.geometry]
    BY <1>3 DEF ToDerive
  <2>2. Source("place", new.geometry) = Source("place", row.geometry)
    BY <1>1, <2>1 DEF Source
  <2>3. QED
    BY <1>1, <1>3, <2>2 DEF StaleRow
<1>4. QED
  BY <1>2, <1>3 DEF Kinds

LEMMA FollowsFlushRow ==
  ASSUME RecordInv, DerivedFollowsGeometry, NEW r \in Routes, NEW loaded \in Row,
         NEW sent \in Geometries \cup {None}, FlushRow(r, loaded, sent)
  PROVE  DerivedFollowsGeometry'
<1> DEFINE row == routes[r]
           stored == IF row.state = "gone" THEN row ELSE Updated(row, loaded, sent)
           overtaken == row.geometry # loaded.geometry \/ row.derived # loaded.derived
           due == ToDerive(loaded, sent)
<1>1. /\ routes' = [routes EXCEPT ![r] = stored]
      /\ Derive(due, r)
      /\ missed' = (missed \ (due \X {r}))
                   \cup {<<k, r>> : k \in {k \in Kinds : overtaken /\ StaleRow(stored, k)}}
  BY DEF FlushRow
<1>2. due \in SUBSET Kinds
  BY DEF ToDerive
<1>3. /\ \A k \in Kinds, i \in 1 .. MaxJobs : job[k][i] # NoJob => job'[k][i] = job[k][i]
      /\ \A k \in due : \E i \in 1 .. MaxJobs : job'[k][i] # NoJob /\ job'[k][i].route = r
  BY <1>1, <1>2, DeriveType
<1>4. row \in Row
  BY DEF RecordInv, RecordTypeOK
<1>5. SUFFICES ASSUME NEW s \in Routes, NEW k \in Kinds, Stale(s, k)'
               PROVE  \/ <<k, s>> \in missed'
                      \/ k = "place" /\ \E i \in 1 .. MaxJobs : job'[k][i] # NoJob /\ job'[k][i].route = s
  BY DEF DerivedFollowsGeometry
<1>6. CASE s # r
  <2>1. Stale(s, k)
    BY <1>1, <1>5, <1>6 DEF Stale, RecordInv, RecordTypeOK
  <2>2. QED
    BY <1>1, <1>3, <1>6, <2>1 DEF DerivedFollowsGeometry
<1>7. CASE s = r
  <2>1. StaleRow(stored, k) /\ row.state # "gone" /\ stored = Updated(row, loaded, sent)
    BY <1>1, <1>4, <1>5, <1>7, UpdatedFields DEF Stale, RecordInv, RecordTypeOK
  <2>2. CASE overtaken
    BY <1>1, <1>7, <2>1, <2>2
  <2>3. CASE ~overtaken /\ k \in due
    <3>1. CASE k = "place"
      BY <1>3, <1>7, <2>3, <3>1
    <3>2. CASE k = "surface"
      <4>1. stored.derived["surface"] = None
        <5>1. CASE sent # None
          BY <1>4, <2>1, <2>3, <5>1, UpdatedFields DEF Column
        <5>2. CASE sent = None
          BY <1>4, <2>1, <2>3, <3>2, <5>2, UpdatedFields DEF ToDerive
        <5>3. QED
          BY <5>1, <5>2
      <4>2. QED
        BY <2>1, <3>2, <4>1 DEF StaleRow
    <3>3. QED
      BY <3>1, <3>2 DEF Kinds
  <2>4. CASE ~overtaken /\ k \notin due
    <3>1. StaleRow(row, k)
      BY <1>4, <2>1, <2>4, UpdatedStale
    <3>2. <<k, r>> \in missed => <<k, r>> \in missed'
      BY <1>1, <2>4
    <3>3. QED
      BY <1>3, <1>7, <2>1, <3>1, <3>2 DEF DerivedFollowsGeometry, Stale
  <2>5. QED
    BY <2>2, <2>3, <2>4
<1>8. QED
  BY <1>6, <1>7

LEMMA FollowsEndJob ==
  ASSUME RecordInv, DerivedFollowsGeometry, NEW k \in Kinds, NEW i \in 1 .. MaxJobs,
         job[k][i].route \in Routes, EndJob(k, i),
         \A s \in Routes, l \in Kinds :
           <<l, s>> # <<k, job[k][i].route>> => (Stale(s, l)' => Stale(s, l))
  PROVE  DerivedFollowsGeometry'
<1> DEFINE r == job[k][i].route
<1>1. /\ job' = [job EXCEPT ![k][i] = NoJob]
      /\ missed' = IF StaleRow(routes'[r], k) THEN missed \cup {<<k, r>>} ELSE missed \ {<<k, r>>}
  BY DEF EndJob
<1>2. SUFFICES ASSUME NEW s \in Routes, NEW l \in Kinds, Stale(s, l)'
               PROVE  \/ <<l, s>> \in missed'
                      \/ l = "place" /\ \E n \in 1 .. MaxJobs : job'[l][n] # NoJob /\ job'[l][n].route = s
  BY DEF DerivedFollowsGeometry
<1>3. CASE l = k /\ s = r
  BY <1>1, <1>2, <1>3 DEF Stale
<1>4. CASE <<l, s>> # <<k, r>>
  <2>1. Stale(s, l)
    BY <1>2, <1>4
  <2>2. CASE <<l, s>> \in missed
    BY <1>1, <1>4, <2>2
  <2>3. ASSUME l = "place", NEW n \in 1 .. MaxJobs, job[l][n] # NoJob, job[l][n].route = s
        PROVE  job'[l][n] = job[l][n]
    <3>1. ~(l = k /\ n = i)
      BY <1>4, <2>3
    <3>2. QED
      BY <1>1, <3>1 DEF RecordInv, RecordTypeOK
  <2>4. QED
    BY <2>1, <2>2, <2>3 DEF DerivedFollowsGeometry
<1>5. QED
  BY <1>3, <1>4

LEMMA FollowsDerivation ==
  ASSUME RecordInv, DerivedFollowsGeometry, DerivationStep
  PROVE  DerivedFollowsGeometry'
<1>1. PICK k \in Kinds, i \in 1 .. MaxJobs :
        LoadForDerivation(k, i) \/ WriteDerived(k, i) \/ DerivationFails(k, i)
  BY DEF DerivationStep
<1> DEFINE j == job[k][i]
<1>2. j.route \in Routes
  BY <1>1, DerivationMoves
<1>3. CASE UNCHANGED <<routes, missed>> /\
           \E q \in Job : /\ q.at = "asked" /\ q.route = j.route /\ q.geometry \in Geometries
                          /\ job' = [job EXCEPT ![k][i] = q]
  <2>1. PICK q \in Job : q.at = "asked" /\ q.route = j.route /\ job' = [job EXCEPT ![k][i] = q]
    BY <1>3
  <2>2. \A l \in Kinds, n \in 1 .. MaxJobs :
          job[l][n] # NoJob => job'[l][n] # NoJob /\ job'[l][n].route = job[l][n].route
    BY <2>1 DEF RecordInv, RecordTypeOK, NoJob
  <2>3. \A s \in Routes, l \in Kinds : Stale(s, l)' <=> Stale(s, l)
    BY <1>3 DEF Stale, StaleRow
  <2>4. QED
    BY <1>3, <2>2, <2>3 DEF DerivedFollowsGeometry
<1>4. CASE UNCHANGED routes /\ EndJob(k, i)
  <2>1. \A s \in Routes, l \in Kinds : Stale(s, l)' => Stale(s, l)
    BY <1>4 DEF Stale, StaleRow
  <2>2. QED
    BY <1>2, <1>4, <2>1, FollowsEndJob
<1>5. CASE EndJob(k, i) /\ \E d \in Sources \cup {None} :
             routes' = [routes EXCEPT ![j.route].derived[k] = d]
  <2>1. \A s \in Routes, l \in Kinds :
          <<l, s>> # <<k, j.route>> => (Stale(s, l)' => Stale(s, l))
    <3>0. /\ \A s \in Routes : routes'[s].geometry = routes[s].geometry /\ routes'[s].state = routes[s].state
          /\ \A s \in Routes, l \in Kinds :
               <<s, l>> # <<j.route, k>> => routes'[s].derived[l] = routes[s].derived[l]
      <4>1. PICK d \in Sources \cup {None} : routes' = [routes EXCEPT ![j.route].derived[k] = d]
        BY <1>5
      <4>2. routes \in [Routes -> Row]
        BY DEF RecordInv, RecordTypeOK
      <4> HIDE DEF j
      <4>3. QED
        BY SMTT(30), <1>2, <4>1, <4>2, DerivedSetType
    <3>1. \A s \in Routes : routes'[s].geometry = routes[s].geometry /\ routes'[s].state = routes[s].state
      BY <3>0
    <3>2. \A s \in Routes, l \in Kinds :
            <<l, s>> # <<k, j.route>> => routes'[s].derived[l] = routes[s].derived[l]
      BY <3>0
    <3>3. QED
      BY <3>1, <3>2 DEF Stale, StaleRow
  <2>2. QED
    BY <1>2, <1>5, <2>1, FollowsEndJob
<1>6. QED
  BY <1>1, <1>3, <1>4, <1>5, DerivationMoves

------------------------------------------------------------------------------
(* The account: types *)

\* A request about a Route names it; an insert has its geometry.
Formed(req) ==
  /\ req.at = "insertRoute" => req.route \in Routes /\ req.sent \in Geometries
  /\ req.at = "flushRoute" => req.route \in Routes

RequestsFormed == \A h \in Handlers : request[h] # Idle => Formed(request[h])

AInv == TypeOK /\ JobsFormed /\ RequestsFormed

LEMMA IdleIsNoRequest == Idle \notin Request
BY DEF Idle, Request

LEMMA LoadedType ==
  ASSUME TypeOK, NEW op \in Operations, NEW at \in Steps
  PROVE  /\ Loaded(op, at) \in Request
         /\ Loaded(op, at).op = op /\ Loaded(op, at).at = at
         /\ Loaded(op, at).user = account /\ Loaded(op, at).old = {}
         /\ Loaded(op, at).sessions = {} /\ Loaded(op, at).found = {}
BY NewRowType DEF Loaded, Request, TypeOK

\* The request after one of its statements.
LEMMA NextStepType ==
  ASSUME NEW req \in Request, NEW at \in Steps
  PROVE  /\ [req EXCEPT !.at = at] \in Request
         /\ [req EXCEPT !.at = at].at = at
         /\ [req EXCEPT !.at = at].op = req.op
         /\ [req EXCEPT !.at = at].user = req.user
         /\ [req EXCEPT !.at = at].since = req.since
         /\ [req EXCEPT !.at = at].found = req.found
         /\ [req EXCEPT !.at = at].sessions = req.sessions
         /\ [req EXCEPT !.at = at].old = req.old
BY DEF Request

LEMMA ReceiveType ==
  ASSUME AInv, NEW h \in Handlers, NEW req \in Request, Formed(req), Receive(h, req)
  PROVE  AInv'
<1>1. /\ request' = [request EXCEPT ![h] = req]
      /\ ops' \in 0 .. MaxOps
      /\ cut' \in BOOLEAN
      /\ UNCHANGED <<recordVars, account, sessions, purge, day, apart>>
  BY AccountLifeAssumption DEF Receive, AInv, TypeOK, Writer, WriterInFlight
<1>2. TypeOK'
  BY <1>1 DEF AInv, TypeOK, RecordTypeOK, recordVars
<1>3. RequestsFormed'
  BY <1>1 DEF AInv, TypeOK, RequestsFormed
<1>4. JobsFormed'
  BY <1>1 DEF AInv, JobsFormed, recordVars
<1>5. QED
  BY <1>2, <1>3, <1>4 DEF AInv

LEMMA ArrivalType ==
  ASSUME AInv, NEW h \in Handlers, Arrival(h)
  PROVE  AInv'
<1> USE DEF Operations, Steps
<1>t. TypeOK
  BY DEF AInv
<1>1. ASSUME NEW op \in Operations, NEW at \in Steps \ {"insertRoute", "flushRoute"},
             Receive(h, Loaded(op, at))
      PROVE  AInv'
  <2>1. Loaded(op, at) \in Request /\ Formed(Loaded(op, at))
    BY <1>t, LoadedType DEF Formed
  <2>2. QED
    BY <1>1, <2>1, ReceiveType
<1>2. CASE Remove(h)
  BY <1>1, <1>2 DEF Remove
<1>3. CASE CancelDeletion(h)
  BY <1>1, <1>3 DEF CancelDeletion
<1>4. CASE GoogleAuth(h)
  <2>1. PICK at \in {"reviveUser", "createSession"} : Receive(h, Loaded("googleAuth", at))
    BY <1>4 DEF GoogleAuth
  <2>2. QED
    BY <1>1, <2>1
<1>5. CASE Login(h)
  BY <1>1, <1>5 DEF Login
<1>6. CASE SoftDeleteUser(h)
  BY <1>1, <1>6 DEF SoftDeleteUser
<1>7. CASE RestoreUser(h)
  BY <1>1, <1>7 DEF RestoreUser
<1>8. ASSUME NEW r \in Routes, NEW g \in Geometries, Create(h, r, g)
      PROVE  AInv'
  <2> DEFINE req == [Loaded("create", "insertRoute") EXCEPT !.route = r, !.sent = g]
  <2>1. Loaded("create", "insertRoute") \in Request /\ Loaded("create", "insertRoute").at = "insertRoute"
    BY <1>t, LoadedType
  <2>2. req \in Request /\ Formed(req)
    BY <2>1 DEF Request, Formed
  <2>3. QED
    BY <1>8, <2>2, ReceiveType DEF Create
<1>9. ASSUME NEW r \in Routes, NEW sent \in Geometries \cup {None}, Update(h, r, sent)
      PROVE  AInv'
  <2> DEFINE req == [Loaded("update", "flushRoute") EXCEPT !.route = r, !.loaded = routes[r], !.sent = sent]
  <2>1. Loaded("update", "flushRoute") \in Request /\ Loaded("update", "flushRoute").at = "flushRoute"
    BY <1>t, LoadedType
  <2>2. req \in Request /\ Formed(req)
    BY <1>t, <2>1 DEF Request, Formed, TypeOK, RecordTypeOK
  <2>3. QED
    BY <1>9, <2>2, ReceiveType DEF Update
<1>10. QED
  BY <1>2, <1>3, <1>4, <1>5, <1>6, <1>7, <1>8, <1>9 DEF Arrival

\* What a request becomes when it goes on or ends.
LEMMA StepType ==
  ASSUME AInv, NEW h \in Handlers, request[h] # Idle,
         \/ Finish(h)
         \/ \E at \in Steps \ {"insertRoute", "flushRoute"} : Goto(h, at)
  PROVE  request' \in [Handlers -> Request \cup {Idle}] /\ RequestsFormed'
<1>1. CASE Finish(h)
  BY <1>1 DEF Finish, AInv, TypeOK, RequestsFormed
<1>2. ASSUME NEW at \in Steps \ {"insertRoute", "flushRoute"}, Goto(h, at)
      PROVE  request' \in [Handlers -> Request \cup {Idle}] /\ RequestsFormed'
  <2> DEFINE req == [request[h] EXCEPT !.at = at]
  <2>1. req \in Request /\ req.at = at
    BY NextStepType DEF AInv, TypeOK
  <2>2. request' = [request EXCEPT ![h] = req]
    BY <1>2 DEF Goto, AInv, TypeOK
  <2> HIDE DEF req
  <2>3. QED
    BY <2>1, <2>2 DEF AInv, TypeOK, RequestsFormed, Formed
<1>3. QED
  BY <1>1, <1>2

\* A statement that leaves the record alone.
LEMMA AloneType ==
  ASSUME AInv, UNCHANGED <<recordVars, ops>>,
         request' \in [Handlers -> Request \cup {Idle}], RequestsFormed',
         account' \in Account, sessions' \in [Sessions -> {"unused", "live", "revoked"}],
         UNCHANGED <<purge, day, cut>>, apart' \subseteq Routes
  PROVE  AInv'
BY DEF AInv, TypeOK, RecordTypeOK, JobsFormed, recordVars

\* A statement that moves Routes between states.
LEMMA RowsType ==
  ASSUME AInv, UNCHANGED <<job, missed, ops>>, routes' \in [Routes -> Row],
         request' \in [Handlers -> Request \cup {Idle}], RequestsFormed',
         account' \in Account, sessions' \in [Sessions -> {"unused", "live", "revoked"}],
         UNCHANGED <<purge, day, cut>>, apart' \subseteq Routes
  PROVE  AInv'
BY DEF AInv, TypeOK, RecordTypeOK, JobsFormed

LEMMA FlushedFields ==
  ASSUME TypeOK, NEW req \in Request
  PROVE  LET clears == req.user.pending /\ req.op \in {"cancelDeletion", "restoreUser"} IN
         /\ Flushed(req).deleted = Column(account.deleted, req.user.deleted, req.op \in {"remove", "softDeleteUser"})
         /\ Flushed(req).pending = IF req.op = "remove" THEN Column(account.pending, req.user.pending, TRUE)
                                   ELSE IF clears THEN FALSE ELSE account.pending
         /\ Flushed(req).asked = IF req.op = "remove" THEN req.since
                                 ELSE IF clears THEN Column(account.asked, req.user.asked, None) ELSE account.asked
BY DEF Flushed, TypeOK, Account

LEMMA FlushedType ==
  ASSUME TypeOK, NEW req \in Request
  PROVE  /\ Flushed(req) \in Account
         /\ Flushed(req).exists = account.exists
<1> DEFINE clears == req.user.pending /\ req.op \in {"cancelDeletion", "restoreUser"}
           deleted == Column(account.deleted, req.user.deleted, req.op \in {"remove", "softDeleteUser"})
           pending == IF req.op = "remove" THEN Column(account.pending, req.user.pending, TRUE)
                      ELSE IF clears THEN FALSE ELSE account.pending
           asked == IF req.op = "remove" THEN req.since
                    ELSE IF clears THEN Column(account.asked, req.user.asked, None) ELSE account.asked
<1>1. account \in Account /\ req.user \in Account /\ req.since \in Days
  BY DEF TypeOK, Request
<1>2. deleted \in BOOLEAN
  <2>1. account.deleted \in BOOLEAN
    BY <1>1 DEF Account
  <2>2. \A w \in BOOLEAN : \A l : Column(account.deleted, l, w) \in BOOLEAN
    BY <2>1 DEF Column
  <2>3. (req.op \in {"remove", "softDeleteUser"}) \in BOOLEAN
    OBVIOUS
  <2>4. QED
    BY <2>2, <2>3, Zenon
<1>3. pending \in BOOLEAN
  BY <1>1 DEF Column, Account
<1>4. asked \in Days \cup {None}
  BY <1>1 DEF Column, Account
<1>5. Flushed(req) = [account EXCEPT !.deleted = deleted, !.pending = pending, !.asked = asked]
  BY <1>1, FlushedFields DEF Flushed, Account
<1> HIDE DEF deleted, pending, asked
<1>6. QED
  BY <1>1, <1>2, <1>3, <1>4, <1>5 DEF Account

\* What FlushUser does to the requests.
LEMMA FlushUserRequest ==
  ASSUME AInv, NEW h \in Handlers, FlushUser(h)
  PROVE  /\ request[h] \in Request /\ request[h].at = "flushUser"
         /\ request' \in [Handlers -> Request \cup {Idle}] /\ RequestsFormed'
         /\ \A g \in Handlers : g # h => request'[g] = request[g]
         /\ Deleting(h) =>
              /\ request'[h] \in Request /\ request'[h].at = "readSessions"
              /\ request'[h].op = request[h].op
              /\ request'[h].user = request[h].user
              /\ request'[h].old = {s \in Sessions : sessions[s] = "live"}
         /\ request[h].op = "cancelDeletion" =>
              /\ request'[h].at = "restoreRoutes" /\ request'[h].op = "cancelDeletion"
              /\ request'[h].user = request[h].user
         /\ request[h].op = "googleAuth" =>
              /\ request'[h].at = "createSession" /\ request'[h].op = "googleAuth"
         /\ ~Deleting(h) /\ request[h].op \notin {"cancelDeletion", "googleAuth"} => request'[h] = Idle
<1>1. request[h] \in Request /\ request[h].at = "flushUser" /\ request[h] # Idle
      /\ request \in [Handlers -> Request \cup {Idle}]
  BY IdleIsNoRequest DEF FlushUser, At, AInv, TypeOK
<1>2. CASE Deleting(h)
  <2> DEFINE req == [request[h] EXCEPT !.at = "readSessions", !.old = {s \in Sessions : sessions[s] = "live"}]
  <2>1. /\ req \in Request /\ req.at = "readSessions" /\ req.op = request[h].op
        /\ req.user = request[h].user /\ req.old = {s \in Sessions : sessions[s] = "live"}
    BY <1>1 DEF Request, Steps
  <2>2. request' = [request EXCEPT ![h] = req]
    <3>1. request' = [request EXCEPT ![h].at = "readSessions",
                                     ![h].old = {s \in Sessions : sessions[s] = "live"}]
      BY <1>2, SMT DEF FlushUser, Deleting
    <3>2. QED
      BY <1>1, <3>1
  <2> HIDE DEF req
  <2>3. request' \in [Handlers -> Request \cup {Idle}] /\ RequestsFormed'
    BY <1>1, <2>1, <2>2 DEF AInv, RequestsFormed, Formed
  <2>4. QED
    BY <1>1, <1>2, <2>1, <2>2, <2>3 DEF Deleting
<1>3. CASE ~Deleting(h)
  <2>1. \/ request[h].op = "cancelDeletion" /\ Goto(h, "restoreRoutes")
        \/ request[h].op = "googleAuth" /\ Goto(h, "createSession")
        \/ request[h].op \notin {"cancelDeletion", "googleAuth"} /\ Finish(h)
    BY <1>3, SMT DEF FlushUser
  <2>2. request' \in [Handlers -> Request \cup {Idle}] /\ RequestsFormed'
    BY <1>1, <2>1, StepType DEF Steps
  <2>3. \A at \in Steps : Goto(h, at) =>
          /\ request'[h].at = at /\ request'[h].op = request[h].op /\ request'[h].user = request[h].user
    BY <1>1, NextStepType DEF Goto
  <2>4. QED
    BY <1>1, <1>3, <2>1, <2>2, <2>3 DEF Goto, Finish, Steps
<1>4. QED
  BY <1>2, <1>3

LEMMA StatementType ==
  ASSUME AInv, NEW h \in Handlers, Statement(h)
  PROVE  AInv'
<1> USE DEF Steps, Operations
<1>t. TypeOK /\ RecordInv
  BY DEF AInv, RecordInv, TypeOK
<1>a. request[h] \in Request /\ request[h] # Idle
  BY <1>t DEF Statement, FindRoutes, HideRoutes, RestoreRoutes, ReviveUser, FlushUser, ReadSessions,
              RevokeSessions, CreateSession, InsertRoute, FlushRoute, At, TypeOK
<1>1. CASE FindRoutes(h)
  <2> DEFINE req == [request[h] EXCEPT !.at = "flushUser", !.found = {r \in Routes : Live(r)}]
  <2>1. req \in Request /\ req.at = "flushUser"
    BY <1>a DEF Request
  <2>2. request' = [request EXCEPT ![h] = req]
    BY <1>1, <1>t DEF FindRoutes, TypeOK
  <2> HIDE DEF req
  <2>3. request' \in [Handlers -> Request \cup {Idle}] /\ RequestsFormed'
    BY <1>t, <2>1, <2>2 DEF AInv, TypeOK, RequestsFormed, Formed
  <2>4. QED
    BY <1>1, <1>t, <2>3, AloneType DEF FindRoutes, accountVars, TypeOK
<1>2. CASE HideRoutes(h)
  BY <1>2, <1>a, <1>t, StepType, SetStateType, RowsType DEF HideRoutes, TypeOK, RecordTypeOK
<1>3. CASE RestoreRoutes(h)
  <2>1. Finish(h) \/ Goto(h, "flushUser")
    BY <1>3 DEF RestoreRoutes
  <2>2. QED
    BY <1>3, <1>a, <1>t, <2>1, StepType, SetStateType, RowsType DEF RestoreRoutes, TypeOK, RecordTypeOK
<1>4. CASE ReviveUser(h)
  <2>1. Goto(h, "flushUser") \/ Goto(h, "restoreRoutes")
    BY <1>4 DEF ReviveUser
  <2>2. account' \in Account
    BY <1>4, <1>t DEF ReviveUser, TypeOK, Account
  <2>3. QED
    BY <1>4, <1>a, <1>t, <2>1, <2>2, StepType, AloneType DEF ReviveUser, TypeOK
<1>5. CASE FlushUser(h)
  <2>1. account' \in Account
    BY <1>5, <1>a, <1>t, FlushedType DEF FlushUser, TypeOK
  <2>2. routes' \in [Routes -> Row]
    BY <1>5, <1>t, SetStateType DEF FlushUser, TypeOK, RecordTypeOK
  <2>3. request' \in [Handlers -> Request \cup {Idle}] /\ RequestsFormed'
    BY <1>5, FlushUserRequest
  <2>4. apart' \subseteq Routes
    BY <1>5, <1>t DEF FlushUser, TypeOK
  <2>5. QED
    BY <1>5, <1>t, <2>1, <2>2, <2>3, <2>4, RowsType DEF FlushUser, TypeOK
<1>6. CASE ReadSessions(h)
  <2> DEFINE req == [request[h] EXCEPT !.at = "revokeSessions", !.sessions = {s \in Sessions : sessions[s] = "live"}]
  <2>1. req \in Request /\ req.at = "revokeSessions"
    BY <1>a DEF Request
  <2>2. request' = [request EXCEPT ![h] = req]
    BY <1>6, <1>t DEF ReadSessions, TypeOK
  <2> HIDE DEF req
  <2>3. request' \in [Handlers -> Request \cup {Idle}] /\ RequestsFormed'
    BY <1>t, <2>1, <2>2 DEF AInv, TypeOK, RequestsFormed, Formed
  <2>4. QED
    BY <1>6, <1>t, <2>3, AloneType DEF ReadSessions, accountVars, TypeOK
<1>7. CASE RevokeSessions(h)
  BY <1>7, <1>a, <1>t, StepType, AloneType DEF RevokeSessions, TypeOK
<1>8. CASE CreateSession(h)
  <2>1. sessions' \in [Sessions -> {"unused", "live", "revoked"}]
    BY <1>8, <1>t DEF CreateSession, TypeOK
  <2>2. QED
    BY <1>8, <1>a, <1>t, <2>1, StepType, AloneType DEF CreateSession, TypeOK
<1>9. CASE InsertRoute(h)
  <2>1. request[h].route \in Routes /\ request[h].sent \in Geometries
    BY <1>9, <1>a DEF InsertRoute, At, AInv, RequestsFormed, Formed
  <2>2. RecordInv' /\ apart' \subseteq Routes
    BY <1>9, <1>t, <2>1, InsertRowType DEF InsertRoute, RecordInv, RecordTypeOK, JobsFormed, recordVars, TypeOK
  <2>3. request' \in [Handlers -> Request \cup {Idle}] /\ RequestsFormed'
    BY <1>9, <1>a, StepType DEF InsertRoute
  <2>4. QED
    BY <1>9, <1>t, <2>2, <2>3 DEF InsertRoute, AInv, TypeOK, RecordInv
<1>10. CASE FlushRoute(h)
  <2>1. request[h].route \in Routes
    BY <1>10, <1>a DEF FlushRoute, At, AInv, RequestsFormed, Formed
  <2>2. RecordInv'
    BY <1>10, <1>a, <1>t, <2>1, FlushRowType DEF FlushRoute, Request
  <2>3. request' \in [Handlers -> Request \cup {Idle}] /\ RequestsFormed'
    BY <1>10, <1>a, StepType DEF FlushRoute
  <2>4. QED
    BY <1>10, <1>t, <2>2, <2>3 DEF FlushRoute, AInv, TypeOK, RecordInv, accountVars
<1>11. QED
  BY <1>1, <1>2, <1>3, <1>4, <1>5, <1>6, <1>7, <1>8, <1>9, <1>10 DEF Statement

LEMMA RowsOneByOne ==
  ASSUME routes \in [Routes -> Row], NEW r \in Routes, NEW state \in {"live", "hidden", "gone"},
         routes' = [routes EXCEPT ![r].state = state]
  PROVE  /\ routes' \in [Routes -> Row]
         /\ \A s \in Routes : /\ routes'[s].geometry = routes[s].geometry
                              /\ routes'[s].derived = routes[s].derived
                              /\ routes'[s].state = IF s = r THEN state ELSE routes[s].state
BY DEF Row

\* The statements on one Route have this in common.
LEMMA OneRouteSets ==
  ASSUME NEW r \in Routes, OneRoute(r)
  PROVE  \E state \in {"live", "hidden", "gone"} :
           SetRoute(r, TRUE, state) /\ routes[r].state \in {"live", "hidden"}
<1>1. CASE RemoveRoute(r)
  BY <1>1 DEF RemoveRoute, SetRoute, Live
<1>2. CASE HardDeleteRoute(r)
  BY <1>2 DEF HardDeleteRoute, SetRoute, Live, Hidden
<1>3. CASE SoftDeleteRoute(r)
  BY <1>3 DEF SoftDeleteRoute, SetRoute, Live
<1>4. CASE RestoreRoute(r)
  BY <1>4 DEF RestoreRoute, SetRoute, Hidden
<1>5. QED
  BY <1>1, <1>2, <1>3, <1>4 DEF OneRoute

LEMMA InitType ==
  ASSUME Init PROVE AInv
<1>1. account \in Account
  BY DEF Init, Account
<1>2. routes \in [Routes -> Row]
  <2> DEFINE d == [k \in Kinds |-> Source(k, FirstGeometry)]
             row == [NewRow EXCEPT !.state = "live", !.derived = d]
  <2>1. d \in [Kinds -> Sources]
    BY AccountLifeAssumption, SourceType
  <2>2. row \in Row /\ NewRow \in Row
    BY <2>1, NewRowType DEF Row
  <2>3. routes = [r \in Routes |-> IF r = FirstRoute THEN row ELSE NewRow]
    BY DEF Init
  <2> HIDE DEF row
  <2>4. QED
    BY <2>2, <2>3
<1>3. RecordTypeOK /\ JobsFormed
  BY <1>2, NoJobType DEF Init, RecordTypeOK, JobsFormed, NoJob
<1>4. RequestsFormed /\ request \in [Handlers -> Request \cup {Idle}]
  BY DEF Init, RequestsFormed
<1>5. TypeOK
  <2>1. sessions \in [Sessions -> {"unused", "live", "revoked"}]
    BY DEF Init
  <2>2. day \in Days /\ ops \in 0 .. MaxOps
    <3>1. day = 0 /\ ops = 0
      BY DEF Init
    <3>2. MaxTime \in Nat /\ MaxOps \in Nat
      BY AccountLifeAssumption
    <3>3. QED
      BY <3>1, <3>2 DEF Days
  <2>3. purge \in {"idle", "erasing"} /\ apart \subseteq Routes /\ cut \in BOOLEAN
    BY DEF Init
  <2>4. QED
    BY <1>1, <1>3, <1>4, <2>1, <2>2, <2>3 DEF TypeOK
<1>6. QED
  BY <1>3, <1>4, <1>5 DEF AInv

LEMMA StepPreservesType ==
  ASSUME AInv, [Next]_vars PROVE AInv'
<1>t. TypeOK /\ RecordInv
  BY DEF AInv, RecordInv, TypeOK
<1>1. ASSUME NEW h \in Handlers, Arrival(h) PROVE AInv'
  BY <1>1, ArrivalType
<1>2. ASSUME NEW h \in Handlers, Statement(h) PROVE AInv'
  BY <1>2, StatementType
<1>3. ASSUME NEW h \in Handlers, Crash(h) PROVE AInv'
  <2>1. request' \in [Handlers -> Request \cup {Idle}] /\ RequestsFormed'
    BY <1>3, StepType DEF Crash
  <2>2. cut' \in BOOLEAN /\ ops' \in 0 .. MaxOps
    BY <1>3, <1>t, AccountLifeAssumption DEF Crash, TypeOK, Writer
  <2>3. QED
    BY <1>3, <2>1, <2>2 DEF Crash, AInv, TypeOK, RecordTypeOK, JobsFormed, recordVars
<1>4. ASSUME NEW r \in Routes, OneRoute(r) PROVE AInv'
  <2>1. PICK state \in {"live", "hidden", "gone"} : SetRoute(r, TRUE, state)
    BY <1>4, OneRouteSets
  <2>2. routes' \in [Routes -> Row]
    BY <1>t, <2>1, RowsOneByOne DEF SetRoute, TypeOK, RecordTypeOK
  <2>3. ops' \in 0 .. MaxOps /\ apart' \subseteq Routes
    BY <1>t, <2>1, AccountLifeAssumption DEF SetRoute, TypeOK
  <2>4. QED
    BY <2>1, <2>2, <2>3 DEF SetRoute, AInv, TypeOK, RecordTypeOK, JobsFormed, RequestsFormed
<1>5. ASSUME NEW s \in Sessions, EndSession(s) PROVE AInv'
  BY <1>5, AccountLifeAssumption DEF EndSession, AInv, TypeOK, RecordTypeOK, JobsFormed, RequestsFormed, recordVars
<1>6. CASE ReadExpired
  BY <1>6 DEF ReadExpired, AInv, TypeOK, RecordTypeOK, JobsFormed, RequestsFormed, recordVars
<1>7. CASE DeleteExpired
  <2>1. routes' \in [Routes -> Row]
    BY <1>7, <1>t, SetStateType DEF DeleteExpired, TypeOK, RecordTypeOK
  <2>2. account' \in Account /\ sessions' \in [Sessions -> {"unused", "live", "revoked"}]
    BY <1>7, <1>t DEF DeleteExpired, TypeOK, Account
  <2>3. QED
    BY <1>7, <2>1, <2>2 DEF DeleteExpired, AInv, TypeOK, RecordTypeOK, JobsFormed, RequestsFormed
<1>8. CASE PurgeFails
  BY <1>8, AccountLifeAssumption DEF PurgeFails, AInv, TypeOK, RecordTypeOK, JobsFormed, RequestsFormed, recordVars
<1>9. CASE NextDay
  BY <1>9, AccountLifeAssumption DEF NextDay, AInv, TypeOK, RecordTypeOK, JobsFormed, RequestsFormed, recordVars, Days
<1>10. CASE Derivation
  <2>1. RecordInv'
    BY <1>10, <1>t, DerivationType DEF Derivation
  <2>2. QED
    BY <1>10, <2>1 DEF Derivation, AInv, TypeOK, RequestsFormed, accountVars, RecordInv
<1>11. CASE UNCHANGED vars
  BY <1>11 DEF vars, accountVars, recordVars, AInv, TypeOK, RecordTypeOK, JobsFormed, RequestsFormed
<1>12. QED
  BY <1>1, <1>2, <1>3, <1>4, <1>5, <1>6, <1>7, <1>8, <1>9, <1>10, <1>11 DEF Next, Purge

\* Every variable keeps its type: UsersService, AuthService, AdminService and
\* RoutesService over the tables they write, whatever overlaps.
THEOREM TypeCorrect == Spec => []TypeOK
<1>1. Init => AInv
  BY InitType
<1>2. AInv /\ [Next]_vars => AInv'
  BY StepPreservesType
<1>3. AInv => TypeOK
  BY DEF AInv
<1>4. QED
  BY <1>1, <1>2, <1>3, PTL DEF Spec

------------------------------------------------------------------------------
(* What a derived column says *)

LEMMA StepPreservesFollows ==
  ASSUME AInv, DerivedFollowsGeometry, [Next]_vars PROVE DerivedFollowsGeometry'
<1>t. TypeOK /\ RecordInv /\ routes \in [Routes -> Row]
  BY DEF AInv, RecordInv, TypeOK, RecordTypeOK
<1>0. ASSUME UNCHANGED recordVars PROVE DerivedFollowsGeometry'
  BY <1>0, FollowsWhenRowsKeep DEF recordVars
<1>s. ASSUME UNCHANGED <<job, missed>>, NEW S, NEW state \in {"live", "hidden", "gone"},
             routes' = SetState(S, state)
      PROVE  DerivedFollowsGeometry'
  <2>1. \A r \in Routes : /\ routes'[r].geometry = routes[r].geometry
                          /\ routes'[r].derived = routes[r].derived
                          /\ routes[r].state = "gone" => routes'[r].state = "gone"
    BY <1>t, <1>s, SetStateKeeps
  <2>2. QED
    BY <1>s, <2>1, FollowsWhenRowsKeep
<1>1. ASSUME NEW h \in Handlers, Arrival(h) PROVE DerivedFollowsGeometry'
  BY <1>0, <1>1 DEF Arrival, Remove, CancelDeletion, GoogleAuth, Login, SoftDeleteUser, RestoreUser,
                    Create, Update, Receive
<1>2. ASSUME NEW h \in Handlers, Statement(h) PROVE DerivedFollowsGeometry'
  <2>1. CASE FindRoutes(h) \/ ReviveUser(h) \/ ReadSessions(h) \/ RevokeSessions(h) \/ CreateSession(h)
    BY <1>0, <2>1 DEF FindRoutes, ReviveUser, ReadSessions, RevokeSessions, CreateSession
  <2>2. CASE HideRoutes(h)
    BY <1>s, <2>2 DEF HideRoutes
  <2>3. CASE RestoreRoutes(h)
    BY <1>s, <2>3 DEF RestoreRoutes
  <2>4. CASE FlushUser(h)
    <3>1. CASE request[h].op = "remove"
      BY <1>s, <2>4, <3>1 DEF FlushUser
    <3>2. CASE request[h].op # "remove"
      BY <1>0, <2>4, <3>2 DEF FlushUser, recordVars
    <3>3. QED
      BY <3>1, <3>2
  <2>5. CASE InsertRoute(h)
    <3>1. request[h].route \in Routes /\ request[h].sent \in Geometries
      BY <2>5 DEF InsertRoute, At, AInv, RequestsFormed, Formed
    <3>2. QED
      BY <1>0, <1>t, <2>5, <3>1, FollowsInsertRow DEF InsertRoute, recordVars
  <2>6. CASE FlushRoute(h)
    <3>1. request[h].route \in Routes /\ request[h] \in Request
      BY <1>t, <2>6 DEF FlushRoute, At, AInv, TypeOK, RequestsFormed, Formed
    <3>2. QED
      BY <1>t, <2>6, <3>1, FollowsFlushRow DEF FlushRoute, Request
  <2>7. QED
    BY <1>2, <2>1, <2>2, <2>3, <2>4, <2>5, <2>6 DEF Statement
<1>3. ASSUME NEW r \in Routes, OneRoute(r) PROVE DerivedFollowsGeometry'
  <2>1. PICK state \in {"live", "hidden", "gone"} :
          SetRoute(r, TRUE, state) /\ routes[r].state \in {"live", "hidden"}
    BY <1>3, OneRouteSets
  <2>2. \A s \in Routes : /\ routes'[s].geometry = routes[s].geometry
                          /\ routes'[s].derived = routes[s].derived
                          /\ routes[s].state = "gone" => routes'[s].state = "gone"
    BY <1>t, <2>1, RowsOneByOne DEF SetRoute
  <2>3. QED
    BY <2>1, <2>2, FollowsWhenRowsKeep DEF SetRoute
<1>4. CASE DeleteExpired
  BY <1>4, <1>s DEF DeleteExpired
<1>5. CASE Derivation
  BY <1>5, <1>t, FollowsDerivation DEF Derivation
<1>6. CASE \/ \E h \in Handlers : Crash(h)
           \/ \E s \in Sessions : EndSession(s)
           \/ ReadExpired \/ PurgeFails \/ NextDay \/ UNCHANGED vars
  BY <1>0, <1>6 DEF Crash, EndSession, ReadExpired, PurgeFails, NextDay, vars
<1>7. QED
  BY <1>1, <1>2, <1>3, <1>4, <1>5, <1>6 DEF Next, Purge

LEMMA InitFollows ==
  ASSUME Init PROVE DerivedFollowsGeometry
<1>1. SUFFICES ASSUME NEW r \in Routes, NEW k \in Kinds PROVE ~Stale(r, k)
  BY DEF DerivedFollowsGeometry
<1>2. CASE r = FirstRoute
  <2>1. routes[r].geometry = FirstGeometry /\ routes[r].derived[k] = Source(k, FirstGeometry)
    BY <1>2 DEF Init, NewRow
  <2>2. QED
    BY <2>1 DEF Stale, StaleRow
<1>3. CASE r # FirstRoute
  BY <1>3 DEF Init, Stale, StaleRow, NewRow
<1>4. QED
  BY <1>2, <1>3

\* A derived column about another geometry is one whose derivation came late,
\* failed or was overlooked by overlapping updates, or a Place still to come.
THEOREM DerivedColumnsFollow == Spec => []DerivedFollowsGeometry
<1>1. Init => AInv /\ DerivedFollowsGeometry
  BY InitType, InitFollows
<1>2. AInv /\ DerivedFollowsGeometry /\ [Next]_vars => (AInv /\ DerivedFollowsGeometry)'
  BY StepPreservesType, StepPreservesFollows
<1>3. QED
  BY <1>1, <1>2, PTL DEF Spec

------------------------------------------------------------------------------
(* The pending deletion and the purge *)

LEMMA DayIsNotNone == None \notin Days
BY AccountLifeAssumption DEF Days

\* The steps that write the user row, and what the purge reads of it.
LEMMA AccountMoves ==
  ASSUME AInv, [Next]_vars
  PROVE  \/ UNCHANGED account
         \/ \E h \in Handlers : ReviveUser(h)
         \/ \E h \in Handlers : FlushUser(h)
         \/ DeleteExpired
<1>1. ASSUME NEW h \in Handlers, Arrival(h) PROVE UNCHANGED account
  BY <1>1 DEF Arrival, Remove, CancelDeletion, GoogleAuth, Login, SoftDeleteUser, RestoreUser,
              Create, Update, Receive
<1>2. ASSUME NEW h \in Handlers, Statement(h)
      PROVE  UNCHANGED account \/ ReviveUser(h) \/ FlushUser(h)
  BY <1>2 DEF Statement, FindRoutes, HideRoutes, RestoreRoutes, ReadSessions, RevokeSessions,
              CreateSession, InsertRoute, FlushRoute, accountVars
<1>3. ASSUME NEW r \in Routes, OneRoute(r) PROVE UNCHANGED account
  BY <1>3, OneRouteSets DEF SetRoute
<1>4. CASE \/ \E h \in Handlers : Crash(h)
           \/ \E s \in Sessions : EndSession(s)
           \/ ReadExpired \/ PurgeFails \/ NextDay \/ Derivation \/ UNCHANGED vars
  BY <1>4 DEF Crash, EndSession, ReadExpired, PurgeFails, NextDay, Derivation, vars, accountVars
<1>5. QED
  BY <1>1, <1>2, <1>3, <1>4 DEF Next, Purge

LEMMA FlushUserKeepsDate ==
  ASSUME AInv, PendingHasItsDate, NEW h \in Handlers, FlushUser(h)
  PROVE  PendingHasItsDate'
<1>1. request[h] \in Request /\ TypeOK
  BY FlushUserRequest DEF AInv
<1>2. CASE account.exists
  <2>1. account' = Flushed(request[h])
    BY <1>2 DEF FlushUser
  <2>2. request[h].since # None
    BY <1>1, DayIsNotNone DEF Request
  <2>3. QED
    BY <1>1, <2>1, <2>2, FlushedFields DEF PendingHasItsDate
<1>3. CASE ~account.exists
  BY <1>3 DEF FlushUser, PendingHasItsDate
<1>4. QED
  BY <1>2, <1>3

LEMMA StepKeepsDate ==
  ASSUME AInv, PendingHasItsDate, [Next]_vars PROVE PendingHasItsDate'
<1>1. CASE UNCHANGED account
  BY <1>1 DEF PendingHasItsDate
<1>2. ASSUME NEW h \in Handlers, ReviveUser(h) PROVE PendingHasItsDate'
  BY <1>2 DEF ReviveUser, PendingHasItsDate, AInv, TypeOK, Account
<1>3. ASSUME NEW h \in Handlers, FlushUser(h) PROVE PendingHasItsDate'
  BY <1>3, FlushUserKeepsDate
<1>4. CASE DeleteExpired
  BY <1>4 DEF DeleteExpired, PendingHasItsDate, AInv, TypeOK, Account
<1>5. QED
  BY <1>1, <1>2, <1>3, <1>4, AccountMoves

\* A pending deletion keeps the day it was asked for, through any overlap of
\* deletions, cancellations and restores (UsersService, AdminService).
THEOREM PendingDeletionIsDated == Spec => []PendingHasItsDate
<1>1. Init => AInv /\ PendingHasItsDate
  <2>1. ASSUME Init PROVE ~account.pending
    BY <2>1 DEF Init
  <2>2. QED
    BY <2>1, InitType DEF PendingHasItsDate
<1>2. AInv /\ PendingHasItsDate /\ [Next]_vars => (AInv /\ PendingHasItsDate)'
  BY StepPreservesType, StepKeepsDate
<1>3. QED
  BY <1>1, <1>2, PTL DEF Spec

------------------------------------------------------------------------------
(* Sessions across a deletion *)

\* The sessions a deletion found live stay used until it has read them, and
\* are among those it read or already revoked until it has revoked them.
OldSessionsEnd ==
  \A h \in Handlers : request[h] # Idle =>
    /\ request[h].at = "readSessions" => \A s \in request[h].old : sessions[s] # "unused"
    /\ request[h].at = "revokeSessions" =>
         \A s \in request[h].old : s \in request[h].sessions \/ sessions[s] = "revoked"

\* What may happen to sessions and requests other than h's in a step of h.
LEMMA OldSessionsKeep ==
  ASSUME AInv, OldSessionsEnd,
         \A s \in Sessions : /\ sessions[s] # "unused" => sessions'[s] # "unused"
                             /\ sessions[s] = "revoked" => sessions'[s] = "revoked",
         NEW g \in Handlers, request'[g] = request[g], request[g] # Idle
  PROVE  /\ request'[g].at = "readSessions" => \A s \in request'[g].old : sessions'[s] # "unused"
         /\ request'[g].at = "revokeSessions" =>
              \A s \in request'[g].old : s \in request'[g].sessions \/ sessions'[s] = "revoked"
<1>1. request[g] \in Request
  BY DEF AInv, TypeOK
<1>2. request[g].old \subseteq Sessions
  BY <1>1 DEF Request
<1>3. QED
  BY <1>2 DEF OldSessionsEnd

\* No step brings a session back to life or to its unused state.
LEMMA SessionsMoveOn ==
  ASSUME AInv, [Next]_vars, NEW s \in Sessions
  PROVE  /\ sessions[s] # "unused" => sessions'[s] # "unused"
         /\ sessions[s] = "revoked" => sessions'[s] = "revoked"
<1>t. sessions \in [Sessions -> {"unused", "live", "revoked"}]
  BY DEF AInv, TypeOK
<1>1. ASSUME NEW h \in Handlers, Arrival(h) PROVE UNCHANGED sessions
  BY <1>1 DEF Arrival, Remove, CancelDeletion, GoogleAuth, Login, SoftDeleteUser, RestoreUser,
              Create, Update, Receive
<1>2. ASSUME NEW h \in Handlers, Statement(h)
      PROVE  UNCHANGED sessions \/ RevokeSessions(h) \/ CreateSession(h)
  BY <1>2 DEF Statement, FindRoutes, HideRoutes, RestoreRoutes, ReviveUser, FlushUser, ReadSessions,
              InsertRoute, FlushRoute, accountVars
<1>3. ASSUME NEW h \in Handlers, RevokeSessions(h)
      PROVE  sessions'[s] = IF s \in request[h].sessions THEN "revoked" ELSE sessions[s]
  BY <1>3 DEF RevokeSessions
<1>4. ASSUME NEW h \in Handlers, CreateSession(h)
      PROVE  sessions'[s] = sessions[s] \/ (sessions[s] = "unused" /\ sessions'[s] = "live")
  <2>1. CASE UNCHANGED sessions
    BY <2>1
  <2>2. ASSUME NEW u \in Sessions, sessions[u] = "unused", sessions' = [sessions EXCEPT ![u] = "live"]
        PROVE  sessions'[s] = sessions[s] \/ (sessions[s] = "unused" /\ sessions'[s] = "live")
    BY <1>t, <2>2
  <2>3. QED
    BY <1>4, <2>1, <2>2 DEF CreateSession
<1>5. ASSUME NEW r \in Routes, OneRoute(r) PROVE UNCHANGED sessions
  BY <1>5, OneRouteSets DEF SetRoute
<1>6. CASE \/ \E h \in Handlers : Crash(h)
           \/ ReadExpired \/ PurgeFails \/ NextDay \/ Derivation \/ UNCHANGED vars
  BY <1>6 DEF Crash, ReadExpired, PurgeFails, NextDay, Derivation, vars, accountVars
<1>7. ASSUME NEW u \in Sessions, EndSession(u)
      PROVE  sessions'[s] = sessions[s] \/ sessions'[s] = "revoked"
  BY <1>7, <1>t DEF EndSession
<1>8. CASE DeleteExpired
  BY <1>8 DEF DeleteExpired
<1>9. QED
  BY <1>1, <1>2, <1>3, <1>4, <1>5, <1>6, <1>7, <1>8 DEF Next, Purge

LEMMA StepEndsOldSessions ==
  ASSUME AInv, OldSessionsEnd, [Next]_vars PROVE OldSessionsEnd'
<1>t. TypeOK
  BY DEF AInv
<1>k. \A g \in Handlers : request'[g] = request[g] /\ request[g] # Idle =>
        /\ request'[g].at = "readSessions" => \A s \in request'[g].old : sessions'[s] # "unused"
        /\ request'[g].at = "revokeSessions" =>
             \A s \in request'[g].old : s \in request'[g].sessions \/ sessions'[s] = "revoked"
  BY SessionsMoveOn, OldSessionsKeep
<1>0. ASSUME UNCHANGED request PROVE OldSessionsEnd'
  BY <1>0, <1>k DEF OldSessionsEnd
<1>h. ASSUME NEW h \in Handlers, \A g \in Handlers : g # h => request'[g] = request[g],
             \/ request'[h] = Idle
             \/ request'[h].at \notin {"readSessions", "revokeSessions"}
      PROVE  OldSessionsEnd'
  BY <1>h, <1>k DEF OldSessionsEnd
<1>g. ASSUME NEW h \in Handlers, request[h] # Idle,
             Finish(h) \/ \E at \in Steps \ {"readSessions", "revokeSessions"} : Goto(h, at)
      PROVE  OldSessionsEnd'
  <2>1. request[h] \in Request /\ request \in [Handlers -> Request \cup {Idle}]
    BY <1>t, <1>g DEF TypeOK
  <2>2. \A g \in Handlers : g # h => request'[g] = request[g]
    BY <1>g, <2>1 DEF Finish, Goto
  <2>3. request'[h] = Idle \/ request'[h].at \notin {"readSessions", "revokeSessions"}
    <3>1. CASE Finish(h)
      BY <2>1, <3>1 DEF Finish
    <3>2. ASSUME NEW at \in Steps \ {"readSessions", "revokeSessions"}, Goto(h, at)
          PROVE  request'[h].at = at
      <4>1. request'[h] = [request[h] EXCEPT !.at = at]
        BY <2>1, <3>2 DEF Goto
      <4>2. QED
        BY <2>1, <4>1, NextStepType
    <3>3. QED
      BY <1>g, <3>1, <3>2
  <2>4. QED
    BY <1>h, <2>2, <2>3
<1>1. ASSUME NEW h \in Handlers, Arrival(h) PROVE OldSessionsEnd'
  <2>1. PICK req : Receive(h, req) /\ req.at \notin {"readSessions", "revokeSessions"}
    <3>1. \A op \in Operations, at \in Steps :
            Loaded(op, at) \in Request /\ Loaded(op, at).at = at
      BY <1>t, LoadedType
    <3>2. ASSUME NEW r, NEW g, Create(h, r, g)
          PROVE  \E req : Receive(h, req) /\ req.at \notin {"readSessions", "revokeSessions"}
      <4>1. [Loaded("create", "insertRoute") EXCEPT !.route = r, !.sent = g].at = "insertRoute"
        BY <3>1 DEF Request, Operations, Steps
      <4>2. QED
        BY <3>2, <4>1 DEF Create
    <3>3. ASSUME NEW r, NEW g, Update(h, r, g)
          PROVE  \E req : Receive(h, req) /\ req.at \notin {"readSessions", "revokeSessions"}
      <4>1. [Loaded("update", "flushRoute") EXCEPT !.route = r, !.loaded = routes[r], !.sent = g].at = "flushRoute"
        BY <3>1 DEF Request, Operations, Steps
      <4>2. QED
        BY <3>3, <4>1 DEF Update
    <3>4. CASE GoogleAuth(h)
      <4>1. PICK at \in {"reviveUser", "createSession"} : Receive(h, Loaded("googleAuth", at))
        BY <3>4 DEF GoogleAuth
      <4>2. QED
        BY <3>1, <4>1 DEF Operations, Steps
    <3>5. CASE Remove(h) \/ CancelDeletion(h) \/ Login(h) \/ SoftDeleteUser(h) \/ RestoreUser(h)
      BY <3>1, <3>5 DEF Remove, CancelDeletion, Login, SoftDeleteUser, RestoreUser, Operations, Steps
    <3>6. QED
      BY <1>1, <3>2, <3>3, <3>4, <3>5 DEF Arrival
  <2>2. request' = [request EXCEPT ![h] = req]
    BY <2>1 DEF Receive
  <2>3. QED
    BY <1>h, <1>t, <2>1, <2>2 DEF TypeOK
<1>2. ASSUME NEW h \in Handlers, Statement(h) PROVE OldSessionsEnd'
  <2>0. request[h] # Idle
    BY <1>2 DEF Statement, FindRoutes, HideRoutes, RestoreRoutes, ReviveUser, FlushUser, ReadSessions,
                RevokeSessions, CreateSession, InsertRoute, FlushRoute, At
  <2>a. request[h] \in Request /\ request \in [Handlers -> Request \cup {Idle}]
    BY <1>t, <2>0 DEF TypeOK
  <2>1. CASE FindRoutes(h)
    <3> DEFINE req == [request[h] EXCEPT !.at = "flushUser", !.found = {r \in Routes : Live(r)}]
    <3>1. req.at = "flushUser"
      BY <2>a DEF Request
    <3>2. request' = [request EXCEPT ![h] = req]
      BY <2>1, <2>a DEF FindRoutes
    <3> HIDE DEF req
    <3>3. QED
      BY <1>h, <2>a, <3>1, <3>2
  <2>2. CASE FlushUser(h)
    <3>1. CASE Deleting(h)
      <4>1. /\ request'[h].at = "readSessions"
            /\ request'[h].old = {s \in Sessions : sessions[s] = "live"}
            /\ \A g \in Handlers : g # h => request'[g] = request[g]
            /\ sessions' = sessions
        BY <2>2, <3>1, FlushUserRequest DEF FlushUser
      <4>2. QED
        BY <1>k, <4>1 DEF OldSessionsEnd
    <3>2. CASE ~Deleting(h)
      BY <1>h, <2>2, <3>2, FlushUserRequest
    <3>3. QED
      BY <3>1, <3>2
  <2>3. CASE ReadSessions(h)
    <3> DEFINE live == {s \in Sessions : sessions[s] = "live"}
               req == [request[h] EXCEPT !.at = "revokeSessions", !.sessions = live]
    <3>1. req.at = "revokeSessions" /\ req.sessions = live /\ req.old = request[h].old
      BY <2>a DEF Request
    <3>2. request' = [request EXCEPT ![h] = req] /\ sessions' = sessions
      BY <2>3, <2>a DEF ReadSessions, accountVars
    <3>3. \A s \in request[h].old : s \in live \/ sessions[s] = "revoked"
      <4>1. \A s \in request[h].old : s \in Sessions /\ sessions[s] # "unused"
        BY <2>3, <2>a, <2>0 DEF ReadSessions, At, OldSessionsEnd, Request
      <4>2. QED
        BY <1>t, <4>1 DEF TypeOK
    <3> HIDE DEF req, live
    <3>4. request'[h] = req /\ \A g \in Handlers : g # h => request'[g] = request[g]
      BY <2>a, <3>2
    <3>5. QED
      BY <1>k, <3>1, <3>2, <3>3, <3>4 DEF OldSessionsEnd
  <2>4. CASE \/ HideRoutes(h) \/ RestoreRoutes(h) \/ ReviveUser(h) \/ RevokeSessions(h)
             \/ CreateSession(h) \/ InsertRoute(h) \/ FlushRoute(h)
    <3>1. Finish(h) \/ Goto(h, "flushUser") \/ Goto(h, "restoreRoutes")
      BY <2>4 DEF HideRoutes, RestoreRoutes, ReviveUser, RevokeSessions, CreateSession, InsertRoute, FlushRoute
    <3>2. QED
      BY <1>g, <2>0, <3>1 DEF Steps
  <2>5. QED
    BY <1>2, <2>1, <2>2, <2>3, <2>4 DEF Statement
<1>3. ASSUME NEW h \in Handlers, Crash(h) PROVE OldSessionsEnd'
  BY <1>3, <1>g DEF Crash
<1>4. ASSUME NEW r \in Routes, OneRoute(r) PROVE OldSessionsEnd'
  BY <1>4, <1>0, OneRouteSets DEF SetRoute
<1>5. CASE \/ \E s \in Sessions : EndSession(s)
           \/ ReadExpired \/ DeleteExpired \/ PurgeFails \/ NextDay \/ Derivation \/ UNCHANGED vars
  BY <1>0, <1>5 DEF EndSession, ReadExpired, DeleteExpired, PurgeFails, NextDay, Derivation, vars
<1>6. QED
  BY <1>1, <1>2, <1>3, <1>4, <1>5 DEF Next, Purge

\* When remove or softDeleteUser has revoked the sessions, none of those live
\* when the deletion took effect still is
\* (AuthService.invalidateUserSessions).
THEOREM DeletionLeavesNoOldSession == Spec => DeletionEndsSessions
<1>1. Init => AInv /\ OldSessionsEnd
  BY InitType DEF Init, OldSessionsEnd
<1>2. AInv /\ OldSessionsEnd /\ [Next]_vars => (AInv /\ OldSessionsEnd)'
  BY StepPreservesType, StepEndsOldSessions
<1>3. ASSUME AInv, OldSessionsEnd, NEW h \in Handlers, RevokeSessions(h), NEW s \in request[h].old
      PROVE  sessions'[s] # "live"
  <2>1. request[h] \in Request /\ request[h].at = "revokeSessions" /\ request[h] # Idle
    BY <1>3 DEF RevokeSessions, At, AInv, TypeOK
  <2>2. s \in Sessions /\ (s \in request[h].sessions \/ sessions[s] = "revoked")
    BY <1>3, <2>1 DEF OldSessionsEnd, Request
  <2>3. QED
    BY <1>3, <2>2 DEF RevokeSessions
<1>4. AInv /\ OldSessionsEnd /\ [Next]_vars =>
        [\A h \in Handlers : RevokeSessions(h) => \A s \in request[h].old : sessions'[s] # "live"]_vars
  BY <1>3
<1>5. QED
  BY <1>1, <1>2, <1>4, PTL DEF Spec, DeletionEndsSessions

------------------------------------------------------------------------------
(* The Routes and their account *)

\* The statements a request of each kind may come to; found is only filled by
\* remove.
Staged(q) ==
  /\ q.op \in {"login", "create", "update"} => q.at \in {"createSession", "insertRoute", "flushRoute"}
  /\ q.op = "remove" => q.at \in {"findRoutes", "flushUser", "readSessions", "revokeSessions"}
  /\ q.op = "softDeleteUser" => q.at \in {"hideRoutes", "flushUser", "readSessions", "revokeSessions"}
  /\ q.op = "restoreUser" => q.at \in {"restoreRoutes", "flushUser"}
  /\ q.op = "cancelDeletion" => q.at \in {"flushUser", "restoreRoutes"}
  /\ q.op = "googleAuth" =>
       \/ q.at = "createSession"
       \/ q.user.deleted /\ q.at \in {"reviveUser", "restoreRoutes", "flushUser"}
  /\ q.op # "remove" => q.found = {}

RequestsStaged == \A h \in Handlers : request[h] # Idle => Staged(request[h])

LiveApart(S) == \A r \in Routes : Live(r) => r \in apart \cup S
HiddenApart == \A r \in Routes : Hidden(r) => r \in apart
InStep == /\ account.deleted => LiveApart({})
          /\ ~account.deleted /\ ~account.pending => HiddenApart

\* How far a deletion or restore that runs alone has come.
Phase(q) ==
  /\ q.op = "remove" =>
       /\ q.at = "findRoutes" => InStep /\ ~q.user.deleted
       /\ q.at = "flushUser" => ~q.user.deleted /\ LiveApart(q.found)
       /\ q.at \in {"readSessions", "revokeSessions"} => InStep
  /\ q.op = "softDeleteUser" =>
       /\ q.at = "hideRoutes" => ~q.user.deleted
       /\ q.at = "flushUser" => ~q.user.deleted /\ LiveApart({})
       /\ q.at \in {"readSessions", "revokeSessions"} => InStep
  /\ q.op = "restoreUser" =>
       /\ account.deleted = q.user.deleted
       /\ q.at = "flushUser" => HiddenApart
  /\ q.op = "cancelDeletion" => ~account.deleted /\ ~q.user.deleted
  /\ q.op = "googleAuth" =>
       /\ q.at = "reviveUser" => account.pending = q.user.pending
       /\ q.at = "restoreRoutes" => ~account.deleted
       /\ q.at = "flushUser" => ~account.deleted /\ (account.pending \/ HiddenApart)
       /\ q.at = "createSession" => InStep

FollowInv ==
  account.exists /\ ~cut =>
    /\ \A g, h \in Handlers : Writer(request[g]) /\ Writer(request[h]) => g = h
    /\ ~WriterInFlight => InStep
    /\ \A h \in Handlers : Writer(request[h]) => Phase(request[h])

LEMMA IdleIsNoWriter == ~Writer(Idle)
BY DEF Writer, Idle

LEMMA StagedWhenArrived ==
  ASSUME AInv, RequestsStaged, NEW h \in Handlers, NEW req \in Request, Staged(req), Receive(h, req)
  PROVE  RequestsStaged'
<1>1. request' = [request EXCEPT ![h] = req]
  BY DEF Receive
<1>2. QED
  BY <1>1 DEF RequestsStaged, AInv, TypeOK

\* What an arrival adds: the request and its kind.
LEMMA ArrivalReceives ==
  ASSUME AInv, NEW h \in Handlers, Arrival(h)
  PROVE  \E req \in Request :
           /\ Receive(h, req) /\ Staged(req) /\ req.user = account
           /\ req.op \in {"remove", "cancelDeletion", "softDeleteUser"} => ~account.deleted
           /\ req.op = "remove" => req.at = "findRoutes"
           /\ req.op = "cancelDeletion" => req.at = "flushUser"
           /\ req.op = "softDeleteUser" => req.at = "hideRoutes"
           /\ req.op = "restoreUser" => req.at = "restoreRoutes"
           /\ req.op = "googleAuth" => req.at = IF account.deleted THEN "reviveUser" ELSE "createSession"
<1> USE DEF Operations, Steps
<1>t. \A op \in Operations, at \in Steps :
        /\ Loaded(op, at) \in Request /\ Loaded(op, at).op = op /\ Loaded(op, at).at = at
        /\ Loaded(op, at).user = account /\ Loaded(op, at).found = {}
  BY LoadedType DEF AInv
<1>1. CASE Remove(h)
  BY SMTT(30), <1>1, <1>t DEF Remove, Authenticated, Staged
<1>2. CASE CancelDeletion(h)
  BY SMTT(30), <1>2, <1>t DEF CancelDeletion, Authenticated, Staged
<1>3. CASE SoftDeleteUser(h)
  BY SMTT(30), <1>3, <1>t DEF SoftDeleteUser, Staged
<1>4. CASE RestoreUser(h)
  BY SMTT(30), <1>4, <1>t DEF RestoreUser, Staged
<1>5. CASE Login(h)
  BY SMTT(30), <1>5, <1>t DEF Login, Staged
<1>6. CASE GoogleAuth(h)
  <2>1. CASE account.deleted
    BY <1>6, <1>t, <2>1 DEF GoogleAuth, Staged
  <2>2. CASE ~account.deleted
    BY <1>6, <1>t, <2>2 DEF GoogleAuth, Staged
  <2>3. QED
    BY <2>1, <2>2
<1>7. ASSUME NEW r \in Routes, NEW g \in Geometries, Create(h, r, g)
      PROVE  \E req \in Request : Receive(h, req) /\ Staged(req) /\ req.user = account /\ req.op = "create"
  <2> DEFINE q == Loaded("create", "insertRoute")
             req == [q EXCEPT !.route = r, !.sent = g]
  <2>1. q \in Request /\ q.op = "create" /\ q.at = "insertRoute" /\ q.user = account /\ q.found = {}
    BY <1>t
  <2>2. Receive(h, req)
    BY <1>7 DEF Create
  <2> HIDE DEF q
  <2>3. /\ req \in Request /\ req.op = "create" /\ req.at = "insertRoute"
        /\ req.user = account /\ req.found = {}
    BY <2>1 DEF Request
  <2> HIDE DEF req
  <2>4. QED
    BY <2>2, <2>3 DEF Staged
<1>8. ASSUME NEW r \in Routes, NEW sent \in Geometries \cup {None}, Update(h, r, sent)
      PROVE  \E req \in Request : Receive(h, req) /\ Staged(req) /\ req.user = account /\ req.op = "update"
  <2> DEFINE q == Loaded("update", "flushRoute")
             req == [q EXCEPT !.route = r, !.loaded = routes[r], !.sent = sent]
  <2>1. q \in Request /\ q.op = "update" /\ q.at = "flushRoute" /\ q.user = account /\ q.found = {}
    BY <1>t
  <2>2. routes[r] \in Row
    BY DEF AInv, TypeOK, RecordTypeOK
  <2>3. Receive(h, req)
    BY <1>8 DEF Update
  <2> HIDE DEF q
  <2>4. /\ req \in Request /\ req.op = "update" /\ req.at = "flushRoute"
        /\ req.user = account /\ req.found = {}
    BY <2>1, <2>2 DEF Request
  <2> HIDE DEF req
  <2>5. QED
    BY <2>3, <2>4 DEF Staged
<1>9. QED
  BY <1>1, <1>2, <1>3, <1>4, <1>5, <1>6, <1>7, <1>8 DEF Arrival

\* Nothing but single Routes moves, and those are set apart.
Aside ==
  /\ UNCHANGED account
  /\ apart \subseteq apart'
  /\ \A r \in Routes : routes'[r].state = routes[r].state \/ r \in apart'

LEMMA AsideKeepsStep ==
  ASSUME Aside
  PROVE  /\ InStep => InStep'
         /\ HiddenApart => HiddenApart'
         /\ \A S : LiveApart(S) => LiveApart(S)'
BY DEF Aside, InStep, HiddenApart, LiveApart, Live, Hidden

LEMMA AsideKeepsPhase ==
  ASSUME Aside, NEW q, Phase(q)
  PROVE  Phase(q)'
BY AsideKeepsStep DEF Phase, Aside

\* A step aside in which deletions and restores neither start nor go on.
LEMMA AsideFollows ==
  ASSUME FollowInv, Aside, cut => cut',
         \A g \in Handlers : \/ request'[g] = request[g]
                             \/ ~Writer(request[g]) /\ ~Writer(request'[g])
  PROVE  FollowInv'
<1>1. \A g \in Handlers : Writer(request[g])' <=> Writer(request[g])
  BY DEF Writer
<1>2. WriterInFlight' <=> WriterInFlight
  BY <1>1 DEF WriterInFlight
<1>3. \A g \in Handlers : Writer(request[g]) => request'[g] = request[g]
  OBVIOUS
<1>4. \A g \in Handlers : Writer(request[g]) /\ Phase(request[g]) => Phase(request[g])'
  <2>1. SUFFICES ASSUME NEW g \in Handlers, Writer(request[g]), Phase(request[g])
                 PROVE  Phase(request[g])'
    OBVIOUS
  <2>2. request'[g] = request[g]
    BY <1>3, <2>1
  <2>3. QED
    BY <2>1, <2>2, AsideKeepsStep DEF Phase, Aside
<1>5. account' = account
  BY DEF Aside
<1>6. QED
  BY <1>1, <1>2, <1>4, <1>5, AsideKeepsStep DEF FollowInv

\* A step of h after which it is no deletion or restore, or the account is in
\* step again; cut marks the overlaps, so h was the only one.
LEMMA WriterEnds ==
  ASSUME FollowInv, NEW h \in Handlers, Writer(request[h]), cut' = cut,
         account.exists' => account.exists,
         \A g \in Handlers : g # h => request'[g] = request[g],
         account.exists /\ ~cut => IF Writer(request'[h]) THEN Phase(request[h])' ELSE InStep'
  PROVE  FollowInv'
<1>1. SUFFICES ASSUME account'.exists, ~cut'
               PROVE  /\ \A g, f \in Handlers : Writer(request'[g]) /\ Writer(request'[f]) => g = f
                      /\ ~WriterInFlight' => InStep'
                      /\ \A g \in Handlers : Writer(request'[g]) => Phase(request[g])'
  BY DEF FollowInv, Writer
<1>2. \A g \in Handlers : Writer(request[g]) => g = h
  BY <1>1 DEF FollowInv
<1>3. \A g \in Handlers : Writer(request'[g]) => g = h
  BY <1>2
<1>4. ~WriterInFlight' => ~Writer(request'[h])
  BY DEF WriterInFlight, Writer
<1>5. QED
  BY <1>1, <1>3, <1>4

LEMMA ArrivalStaged ==
  ASSUME AInv, RequestsStaged, NEW h \in Handlers, Arrival(h)
  PROVE  RequestsStaged'
BY ArrivalReceives, StagedWhenArrived

LEMMA ArrivalFollows ==
  ASSUME AInv, FollowInv, NEW h \in Handlers, Arrival(h)
  PROVE  FollowInv'
<1>1. PICK req \in Request :
           /\ Receive(h, req) /\ Staged(req) /\ req.user = account
           /\ req.op \in {"remove", "cancelDeletion", "softDeleteUser"} => ~account.deleted
           /\ req.op = "remove" => req.at = "findRoutes"
           /\ req.op = "cancelDeletion" => req.at = "flushUser"
           /\ req.op = "softDeleteUser" => req.at = "hideRoutes"
           /\ req.op = "restoreUser" => req.at = "restoreRoutes"
           /\ req.op = "googleAuth" => req.at = IF account.deleted THEN "reviveUser" ELSE "createSession"
  BY ArrivalReceives
<1>2. /\ request[h] = Idle /\ request' = [request EXCEPT ![h] = req]
      /\ cut' = (cut \/ (Writer(req) /\ WriterInFlight))
      /\ UNCHANGED <<account, routes, apart>>
  BY <1>1 DEF Receive, recordVars
<1>3. request'[h] = req /\ \A g \in Handlers : g # h => request'[g] = request[g]
  BY <1>2 DEF AInv, TypeOK
<1>4. Aside
  BY <1>2 DEF Aside
<1>5. CASE ~Writer(req)
  BY <1>2, <1>3, <1>4, <1>5, IdleIsNoWriter, AsideFollows
<1>6. CASE Writer(req)
  <2>1. SUFFICES ASSUME account.exists, ~cut, ~WriterInFlight
                 PROVE  FollowInv'
    BY <1>2, <1>6 DEF FollowInv
  <2>2. \A g \in Handlers : Writer(request'[g]) => g = h
    BY <1>3, <2>1 DEF WriterInFlight
  <2>3. InStep
    BY <2>1 DEF FollowInv
  <2>4. InStep' /\ Phase(req)'
    BY <1>1, <1>2, <2>3 DEF InStep, LiveApart, HiddenApart, Live, Hidden, Phase
  <2>5. QED
    BY <1>3, <2>2, <2>4 DEF FollowInv, Phase, WriterInFlight
<1>7. QED
  BY <1>5, <1>6

\* The request of a statement, and what is left of it afterwards.
LEMMA GoesOn ==
  ASSUME AInv, NEW h \in Handlers, request[h] # Idle
  PROVE  /\ request[h] \in Request /\ request[h].user \in Account
         /\ \A at \in Steps : Goto(h, at) =>
              /\ request'[h].at = at /\ request'[h].op = request[h].op
              /\ request'[h].user = request[h].user /\ request'[h].found = request[h].found
              /\ \A g \in Handlers : g # h => request'[g] = request[g]
         /\ Finish(h) => request'[h] = Idle /\ \A g \in Handlers : g # h => request'[g] = request[g]
<1>1. request[h] \in Request /\ request \in [Handlers -> Request \cup {Idle}]
  BY DEF AInv, TypeOK
<1>2. ASSUME NEW at \in Steps, Goto(h, at)
      PROVE  /\ request'[h].at = at /\ request'[h].op = request[h].op
             /\ request'[h].user = request[h].user /\ request'[h].found = request[h].found
             /\ \A g \in Handlers : g # h => request'[g] = request[g]
  <2>1. request'[h] = [request[h] EXCEPT !.at = at] /\ \A g \in Handlers : g # h => request'[g] = request[g]
    BY <1>1, <1>2 DEF Goto
  <2>2. QED
    BY <1>1, <2>1, NextStepType
<1>3. Finish(h) => request'[h] = Idle /\ \A g \in Handlers : g # h => request'[g] = request[g]
  BY <1>1 DEF Finish
<1>4. QED
  BY <1>1, <1>2, <1>3 DEF Request

\* FindRoutes and ReadSessions fill one field of the request as they go on.
LEMMA FillsIn ==
  ASSUME AInv, NEW h \in Handlers, FindRoutes(h) \/ ReadSessions(h)
  PROVE  /\ request[h] \in Request /\ request[h] # Idle
         /\ request'[h].op = request[h].op /\ request'[h].user = request[h].user
         /\ FindRoutes(h) => /\ request[h].at = "findRoutes" /\ request'[h].at = "flushUser"
                             /\ request'[h].found = {r \in Routes : Live(r)}
         /\ ReadSessions(h) => /\ request[h].at = "readSessions" /\ request'[h].at = "revokeSessions"
                               /\ request'[h].found = request[h].found
         /\ \A g \in Handlers : g # h => request'[g] = request[g]
         /\ UNCHANGED <<routes, account, apart, cut>>
<1>1. request[h] \in Request /\ request[h] # Idle /\ request \in [Handlers -> Request \cup {Idle}]
  BY DEF FindRoutes, ReadSessions, At, AInv, TypeOK
<1>2. ASSUME FindRoutes(h)
      PROVE  /\ request'[h].op = request[h].op /\ request'[h].user = request[h].user
             /\ request'[h].at = "flushUser" /\ request'[h].found = {r \in Routes : Live(r)}
             /\ \A g \in Handlers : g # h => request'[g] = request[g]
  <2> DEFINE live == {r \in Routes : Live(r)}
             req == [request[h] EXCEPT !.at = "flushUser", !.found = live]
  <2>1. request' = [request EXCEPT ![h] = req]
    BY <1>1, <1>2 DEF FindRoutes
  <2> HIDE DEF live
  <2>2. req.op = request[h].op /\ req.user = request[h].user /\ req.at = "flushUser" /\ req.found = live
    BY <1>1 DEF Request
  <2> HIDE DEF req
  <2>3. QED
    BY <1>1, <2>1, <2>2 DEF live
<1>3. ASSUME ReadSessions(h)
      PROVE  /\ request'[h].op = request[h].op /\ request'[h].user = request[h].user
             /\ request'[h].at = "revokeSessions" /\ request'[h].found = request[h].found
             /\ \A g \in Handlers : g # h => request'[g] = request[g]
  <2> DEFINE live == {s \in Sessions : sessions[s] = "live"}
             req == [request[h] EXCEPT !.at = "revokeSessions", !.sessions = live]
  <2>1. request' = [request EXCEPT ![h] = req]
    BY <1>1, <1>3 DEF ReadSessions
  <2> HIDE DEF live
  <2>2. /\ req.op = request[h].op /\ req.user = request[h].user /\ req.at = "revokeSessions"
        /\ req.found = request[h].found
    BY <1>1 DEF Request
  <2> HIDE DEF req
  <2>3. QED
    BY <1>1, <2>1, <2>2
<1>4. UNCHANGED <<routes, account, apart, cut>>
  BY DEF FindRoutes, ReadSessions, recordVars, accountVars
<1>5. QED
  BY <1>1, <1>2, <1>3, <1>4 DEF FindRoutes, ReadSessions, At

LEMMA StatementStaged ==
  ASSUME AInv, RequestsStaged, NEW h \in Handlers, Statement(h)
  PROVE  RequestsStaged'
<1> USE DEF Steps
<1>0. request[h] # Idle
  BY DEF Statement, FindRoutes, HideRoutes, RestoreRoutes, ReviveUser, FlushUser, ReadSessions,
         RevokeSessions, CreateSession, InsertRoute, FlushRoute, At
<1>1. Staged(request[h])
  BY <1>0 DEF RequestsStaged
<1>f. ASSUME Finish(h) PROVE RequestsStaged'
  BY <1>0, <1>f, GoesOn DEF RequestsStaged
<1>2. CASE FindRoutes(h) \/ ReadSessions(h)
  <2>1. request[h].op \in Operations
    BY <1>2, FillsIn DEF Request
  <2>2. Staged(request[h])'
    <3>1. CASE FindRoutes(h)
      BY <1>1, <2>1, <3>1, FillsIn DEF Staged, Operations
    <3>2. CASE ReadSessions(h)
      BY <1>1, <2>1, <3>2, FillsIn DEF Staged, Operations
    <3>3. QED
      BY <1>2, <3>1, <3>2
  <2>3. QED
    BY <1>2, <2>2, FillsIn DEF RequestsStaged, Staged
<1>3. CASE HideRoutes(h)
  BY <1>0, <1>1, <1>3, GoesOn DEF RequestsStaged, Staged, HideRoutes, At
<1>4. CASE RestoreRoutes(h)
  <2>1. CASE request[h].op = "cancelDeletion"
    BY <1>f, <1>4, <2>1 DEF RestoreRoutes
  <2>2. CASE request[h].op # "cancelDeletion"
    BY <1>0, <1>1, <1>4, <2>2, GoesOn DEF RequestsStaged, Staged, RestoreRoutes, At
  <2>3. QED
    BY <2>1, <2>2
<1>5. CASE ReviveUser(h)
  <2>1. Goto(h, "flushUser") \/ Goto(h, "restoreRoutes")
    BY <1>5 DEF ReviveUser
  <2>2. QED
    BY <1>0, <1>1, <1>5, <2>1, GoesOn DEF RequestsStaged, Staged, ReviveUser, At
<1>6. CASE FlushUser(h)
  <2>1. CASE Deleting(h)
    <3>1. request'[h].found = request[h].found
      <4>1. request[h] \in Request /\ request \in [Handlers -> Request \cup {Idle}]
        BY <1>0 DEF AInv, TypeOK
      <4>2. request' = [request EXCEPT ![h].at = "readSessions",
                                       ![h].old = {s \in Sessions : sessions[s] = "live"}]
        BY <1>6, <2>1, SMT DEF FlushUser, Deleting
      <4>3. QED
        BY <4>1, <4>2 DEF Request
    <3>2. QED
      BY <1>1, <1>6, <2>1, <3>1, FlushUserRequest DEF RequestsStaged, Staged, Deleting
  <2>2. CASE ~Deleting(h)
    <3>1. \/ request[h].op = "cancelDeletion" /\ Goto(h, "restoreRoutes")
          \/ request[h].op = "googleAuth" /\ Goto(h, "createSession")
          \/ Finish(h)
      BY <1>6, <2>2, SMT DEF FlushUser
    <3>2. QED
      BY <1>0, <1>1, <1>f, <3>1, GoesOn DEF RequestsStaged, Staged
  <2>3. QED
    BY <2>1, <2>2
<1>7. CASE RevokeSessions(h) \/ CreateSession(h) \/ InsertRoute(h) \/ FlushRoute(h)
  BY <1>f, <1>7 DEF RevokeSessions, CreateSession, InsertRoute, FlushRoute
<1>8. QED
  BY <1>2, <1>3, <1>4, <1>5, <1>6, <1>7 DEF Statement

\* The user flush of a deletion or restore that runs alone.
LEMMA FlushUserFollows ==
  ASSUME AInv, RequestsStaged, FollowInv, NEW h \in Handlers, FlushUser(h)
  PROVE  FollowInv'
<1> DEFINE q == request[h]
<1>1. /\ q \in Request /\ q.at = "flushUser" /\ q # Idle /\ q.user \in Account
      /\ q.op \in Operations /\ Staged(q)
  BY FlushUserRequest, IdleIsNoRequest DEF Request, RequestsStaged
<1>2. Writer(q)
  BY <1>1 DEF Staged, Writer, Operations
<1>3. /\ cut' = cut /\ apart' = apart \ q.found
      /\ \A g \in Handlers : g # h => request'[g] = request[g]
      /\ account.exists => account' = Flushed(q)
      /\ ~account.exists => account' = account
  BY FlushUserRequest DEF FlushUser
<1>4. account'.exists = account.exists
  BY <1>1, <1>3, FlushedType DEF AInv
<1>5. SUFFICES ASSUME account.exists, ~cut
               PROVE  IF Writer(request'[h]) THEN Phase(request[h])' ELSE InStep'
  BY <1>2, <1>3, <1>4, WriterEnds
<1>6. Phase(q)
  BY <1>2, <1>5 DEF FollowInv
<1>7. account' = Flushed(q) /\ account.deleted \in BOOLEAN
  BY <1>3, <1>5 DEF AInv, TypeOK, Account
<1>8. /\ account'.deleted = Column(account.deleted, q.user.deleted, q.op \in {"remove", "softDeleteUser"})
      /\ q.op = "googleAuth" => account'.pending = account.pending
  BY <1>1, <1>7, FlushedFields DEF AInv
<1>9. CASE q.op = "remove"
  <2>1. account'.deleted
    BY <1>6, <1>1, <1>8, <1>9 DEF Phase, Column
  <2>2. routes' = SetState(q.found, "hidden") /\ LiveApart(q.found)
    BY <1>1, <1>6, <1>9 DEF FlushUser, Phase
  <2>3. LiveApart({})'
    <3>1. SUFFICES ASSUME NEW r \in Routes, routes'[r].state = "live" PROVE r \in apart'
      BY DEF LiveApart, Live
    <3>2. routes[r].state = "live" /\ r \notin q.found
      BY <2>2, <3>1, SetStateKeeps DEF AInv, TypeOK, RecordTypeOK
    <3>3. QED
      BY <1>3, <2>2, <3>2 DEF LiveApart, Live
  <2>4. InStep'
    BY <2>1, <2>3 DEF InStep
  <2>5. request'[h].op = "remove" /\ request'[h].at = "readSessions"
    BY <1>9, FlushUserRequest DEF Deleting
  <2>6. QED
    BY <2>4, <2>5 DEF Phase
<1>10. CASE q.op # "remove"
  <2>1. routes' = routes /\ apart' = apart
    BY <1>1, <1>3, <1>10 DEF FlushUser, Staged
  <2>2. /\ LiveApart({})' <=> LiveApart({})
        /\ HiddenApart' <=> HiddenApart
    BY <2>1 DEF LiveApart, HiddenApart, Live, Hidden
  <2>3. CASE q.op = "softDeleteUser"
    <3>1. account'.deleted /\ LiveApart({})'
      BY <1>1, <1>6, <1>8, <2>2, <2>3 DEF Phase, Column
    <3>2. request'[h].op = "softDeleteUser" /\ request'[h].at = "readSessions"
      BY <2>3, FlushUserRequest DEF Deleting
    <3>3. QED
      BY <3>1, <3>2 DEF Phase, InStep
  <2>4. CASE q.op = "restoreUser"
    <3>1. ~account'.deleted
      BY <1>6, <1>8, <2>4 DEF Phase, Column
    <3>2. HiddenApart'
      BY <1>1, <1>6, <2>2, <2>4 DEF Phase
    <3>3. request'[h] = Idle
      BY <2>4, FlushUserRequest DEF Deleting
    <3>4. QED
      BY <3>1, <3>2, <3>3, IdleIsNoWriter DEF InStep
  <2>5. CASE q.op = "cancelDeletion"
    <3>1. ~account'.deleted /\ ~q.user.deleted
      BY <1>6, <1>8, <2>5 DEF Phase, Column
    <3>2. /\ request'[h].op = "cancelDeletion" /\ request'[h].at = "restoreRoutes"
          /\ request'[h].user = q.user
      BY <2>5, FlushUserRequest
    <3>3. QED
      BY <3>1, <3>2 DEF Phase, Writer
  <2>6. CASE q.op = "googleAuth"
    <3>1. ~account'.deleted /\ (account'.pending \/ HiddenApart')
      BY <1>1, <1>6, <1>8, <2>2, <2>6 DEF Phase, Column
    <3>2. request'[h].op = "googleAuth" /\ request'[h].at = "createSession"
      BY <2>6, FlushUserRequest
    <3>3. InStep'
      BY <3>1 DEF InStep
    <3>4. QED
      BY <3>2, <3>3 DEF Phase
  <2>7. QED
    BY <1>1, <1>10, <2>3, <2>4, <2>5, <2>6 DEF Staged, Operations
<1>11. QED
  BY <1>9, <1>10

LEMMA StatementFollows ==
  ASSUME AInv, RequestsStaged, FollowInv, NEW h \in Handlers, Statement(h)
  PROVE  FollowInv'
<1> DEFINE q == request[h]
<1> USE DEF Steps
<1>t. routes \in [Routes -> Row] /\ account \in Account
  BY DEF AInv, TypeOK, RecordTypeOK
<1>0. q # Idle
  BY DEF Statement, FindRoutes, HideRoutes, RestoreRoutes, ReviveUser, FlushUser, ReadSessions,
         RevokeSessions, CreateSession, InsertRoute, FlushRoute, At
<1>1. Staged(q) /\ q \in Request /\ q.user \in Account /\ q.op \in Operations
  BY <1>0, GoesOn DEF RequestsStaged, Request
<1>p. Writer(q) /\ account.exists /\ ~cut => Phase(q)
  BY DEF FollowInv
<1>2. CASE FindRoutes(h)
  <2>1. /\ q.op = "remove" /\ Writer(q)
    BY <1>1, <1>2, FillsIn DEF Staged, Writer, Operations
  <2>2. /\ request'[h].op = "remove" /\ request'[h].at = "flushUser"
        /\ request'[h].user = q.user /\ request'[h].found = {r \in Routes : Live(r)}
    BY <1>2, <2>1, FillsIn
  <2>3. account.exists /\ ~cut => Phase(request[h])'
    BY <1>2, <1>p, <2>1, <2>2, FillsIn DEF Phase, LiveApart, Live
  <2>4. QED
    BY <1>2, <2>1, <2>2, <2>3, FillsIn, WriterEnds DEF Writer
<1>3. CASE HideRoutes(h)
  <2>1. q.op = "softDeleteUser" /\ Writer(q) /\ q.at = "hideRoutes"
    BY <1>1, <1>3 DEF Staged, Writer, HideRoutes, At, Operations
  <2>2. /\ request'[h].op = "softDeleteUser" /\ request'[h].at = "flushUser"
        /\ request'[h].user = q.user /\ \A g \in Handlers : g # h => request'[g] = request[g]
        /\ UNCHANGED <<account, cut>>
    BY <1>0, <1>3, <2>1, GoesOn DEF HideRoutes
  <2>3. LiveApart({})'
    BY <1>3, <1>t, SetStateKeeps DEF LiveApart, Live, HideRoutes
  <2>4. account.exists /\ ~cut => Phase(request[h])'
    BY <1>p, <2>1, <2>2, <2>3 DEF Phase
  <2>5. QED
    BY <2>1, <2>2, <2>4, WriterEnds DEF Writer
<1>4. CASE RestoreRoutes(h)
  <2>1. /\ q.op \in {"restoreUser", "cancelDeletion", "googleAuth"} /\ Writer(q) /\ q.at = "restoreRoutes"
        /\ q.op = "googleAuth" => q.user.deleted
    BY <1>1, <1>4 DEF Staged, Writer, RestoreRoutes, At, Operations
  <2>2. UNCHANGED <<account, cut>> /\ \A g \in Handlers : g # h => request'[g] = request[g]
    <3>1. Finish(h) \/ Goto(h, "flushUser")
      BY <1>4 DEF RestoreRoutes
    <3>2. QED
      BY <1>0, <1>4, <3>1, GoesOn DEF RestoreRoutes
  <2>3. HiddenApart'
    BY <1>4, <1>t, SetStateKeeps DEF HiddenApart, Hidden, RestoreRoutes
  <2>4. SUFFICES ASSUME account.exists, ~cut
                 PROVE  IF Writer(request'[h]) THEN Phase(request[h])' ELSE InStep'
    BY <2>1, <2>2, WriterEnds
  <2>5. CASE q.op = "cancelDeletion"
    <3>1. request'[h] = Idle
      BY <1>0, <1>4, <2>5, GoesOn DEF RestoreRoutes
    <3>2. ~account.deleted
      BY <1>p, <2>1, <2>4, <2>5 DEF Phase
    <3>3. QED
      BY <2>2, <2>3, <3>1, <3>2, IdleIsNoWriter DEF InStep
  <2>6. CASE q.op # "cancelDeletion"
    <3>1. /\ request'[h].op = q.op /\ request'[h].at = "flushUser" /\ request'[h].user = q.user
      BY <1>0, <1>4, <2>6, GoesOn DEF RestoreRoutes
    <3>2. Phase(request[h])'
      BY <1>p, <2>1, <2>2, <2>3, <2>4, <2>6, <3>1 DEF Phase
    <3>3. Writer(request'[h])
      BY <2>1, <3>1 DEF Writer
    <3>4. QED
      BY <3>2, <3>3
  <2>7. QED
    BY <2>5, <2>6
<1>5. CASE ReviveUser(h)
  <2>1. q.op = "googleAuth" /\ Writer(q) /\ q.at = "reviveUser" /\ q.user.deleted
    BY <1>1, <1>5 DEF Staged, Writer, ReviveUser, At, Operations
  <2>2. /\ request'[h].op = "googleAuth" /\ request'[h].user = q.user
        /\ request'[h].at = IF q.user.pending THEN "flushUser" ELSE "restoreRoutes"
        /\ \A g \in Handlers : g # h => request'[g] = request[g]
        /\ UNCHANGED cut
    <3>1. CASE q.user.pending
      BY <1>0, <1>5, <2>1, <3>1, GoesOn DEF ReviveUser
    <3>2. CASE ~q.user.pending
      BY <1>0, <1>5, <2>1, <3>2, GoesOn DEF ReviveUser
    <3>3. QED
      BY <3>1, <3>2
  <2>3. /\ account'.exists = account.exists /\ account'.pending = account.pending
        /\ account.exists => account'.deleted = FALSE
    BY <1>5, <1>t DEF ReviveUser, Account
  <2>4. account.exists /\ ~cut => Phase(request[h])'
    BY <1>p, <2>1, <2>2, <2>3 DEF Phase
  <2>5. QED
    BY <2>1, <2>2, <2>3, <2>4, WriterEnds DEF Writer
<1>6. CASE FlushUser(h)
  BY <1>6, FlushUserFollows
<1>7. CASE ReadSessions(h)
  <2>1. q.op \in {"remove", "softDeleteUser"} /\ Writer(q)
    BY <1>1, <1>7, FillsIn DEF Staged, Writer, Operations
  <2>2. Aside
    BY <1>7, FillsIn DEF Aside
  <2>3. account.exists /\ ~cut => InStep'
    BY <1>7, <1>p, <2>1, <2>2, FillsIn, AsideKeepsStep DEF Phase
  <2>4. Writer(request'[h]) /\ (account.exists /\ ~cut => Phase(request[h])')
    BY <1>7, <2>1, <2>3, FillsIn DEF Phase, Writer
  <2>5. QED
    BY <1>7, <2>1, <2>4, FillsIn, WriterEnds
<1>8. CASE RevokeSessions(h) \/ CreateSession(h)
  <2>1. request'[h] = Idle /\ \A g \in Handlers : g # h => request'[g] = request[g]
    BY <1>0, <1>8, GoesOn DEF RevokeSessions, CreateSession
  <2>2. Aside /\ UNCHANGED <<account, cut>>
    BY <1>8 DEF Aside, RevokeSessions, CreateSession, recordVars
  <2>3. CASE ~Writer(q)
    BY <2>1, <2>2, <2>3, IdleIsNoWriter, AsideFollows
  <2>4. CASE Writer(q)
    <3>1. q.at \in {"revokeSessions", "createSession"}
      BY <1>8 DEF RevokeSessions, CreateSession, At
    <3>2. account.exists /\ ~cut => InStep
      BY <1>1, <1>p, <2>4, <3>1 DEF Phase, Staged, Writer, Operations
    <3>3. QED
      BY <2>1, <2>2, <2>4, <3>2, AsideKeepsStep, IdleIsNoWriter, WriterEnds
  <2>5. QED
    BY <2>3, <2>4
<1>9. CASE InsertRoute(h) \/ FlushRoute(h)
  <2>1. ~Writer(q) /\ request'[h] = Idle /\ \A g \in Handlers : g # h => request'[g] = request[g]
    BY <1>0, <1>1, <1>9, GoesOn DEF InsertRoute, FlushRoute, At, Staged, Writer, Operations
  <2>2. UNCHANGED <<account, cut>>
    BY <1>9 DEF InsertRoute, FlushRoute, accountVars
  <2>3. Aside
    <3>1. CASE InsertRoute(h)
      BY <1>t, <3>1 DEF InsertRoute, Aside, InsertRow, recordVars
    <3>2. CASE FlushRoute(h)
      <4>1. q.route \in Routes /\ q.loaded \in Row /\ q.sent \in Geometries \cup {None}
        BY <1>0, <1>1, <3>2 DEF AInv, RequestsFormed, Formed, FlushRoute, At, Request
      <4>2. \A r \in Routes : routes'[r].state = routes[r].state
        BY <1>t, <3>2, <4>1, UpdatedFields DEF FlushRoute, FlushRow
      <4>3. QED
        BY <3>2, <4>2 DEF Aside, FlushRoute, accountVars
    <3>3. QED
      BY <1>9, <3>1, <3>2
  <2>4. QED
    BY <2>1, <2>2, <2>3, IdleIsNoWriter, AsideFollows
<1>10. QED
  BY <1>2, <1>3, <1>4, <1>5, <1>6, <1>7, <1>8, <1>9 DEF Statement

LEMMA StepFollows ==
  ASSUME AInv, RequestsStaged, FollowInv, [Next]_vars
  PROVE  RequestsStaged' /\ FollowInv'
<1>t. routes \in [Routes -> Row] /\ account \in Account
  BY DEF AInv, TypeOK, RecordTypeOK
<1>a. ASSUME UNCHANGED <<request, cut>>, Aside PROVE RequestsStaged' /\ FollowInv'
  <2>1. FollowInv'
    BY <1>a, AsideFollows
  <2>2. QED
    BY <1>a, <2>1 DEF RequestsStaged
<1>1. ASSUME NEW h \in Handlers, Arrival(h) PROVE RequestsStaged' /\ FollowInv'
  BY <1>1, ArrivalStaged, ArrivalFollows
<1>2. ASSUME NEW h \in Handlers, Statement(h) PROVE RequestsStaged' /\ FollowInv'
  BY <1>2, StatementStaged, StatementFollows
<1>3. ASSUME NEW h \in Handlers, Crash(h) PROVE RequestsStaged' /\ FollowInv'
  <2>1. /\ request[h] # Idle /\ request'[h] = Idle
        /\ \A g \in Handlers : g # h => request'[g] = request[g]
    BY <1>3, GoesOn DEF Crash
  <2>2. RequestsStaged'
    BY <2>1 DEF RequestsStaged
  <2>3. CASE Writer(request[h])
    <3>1. cut'
      BY <1>3, <2>3 DEF Crash, Writer
    <3>2. QED
      BY <2>2, <3>1 DEF FollowInv
  <2>4. CASE ~Writer(request[h])
    <3>1. Aside
      BY <1>3 DEF Crash, Aside, recordVars
    <3>2. cut => cut'
      BY <1>3 DEF Crash
    <3>3. FollowInv'
      BY <2>1, <2>4, <3>1, <3>2, IdleIsNoWriter, AsideFollows
    <3>4. QED
      BY <2>2, <3>3
  <2>5. QED
    BY <2>2, <2>3, <2>4
<1>4. ASSUME NEW r \in Routes, OneRoute(r) PROVE RequestsStaged' /\ FollowInv'
  <2>1. PICK state \in {"live", "hidden", "gone"} : SetRoute(r, TRUE, state)
    BY <1>4, OneRouteSets
  <2>2. Aside /\ UNCHANGED <<request, cut>>
    BY <1>t, <2>1, RowsOneByOne DEF SetRoute, Aside
  <2>3. QED
    BY <1>a, <2>2
<1>5. CASE DeleteExpired
  <2>1. ~account'.exists
    BY <1>5, <1>t DEF DeleteExpired, Account
  <2>2. QED
    BY <1>5, <2>1 DEF FollowInv, RequestsStaged, DeleteExpired
<1>6. CASE Derivation
  <2>1. \A r \in Routes : routes'[r].state = routes[r].state
    <3>1. PICK k \in Kinds, i \in 1 .. MaxJobs :
            LoadForDerivation(k, i) \/ WriteDerived(k, i) \/ DerivationFails(k, i)
      BY <1>6 DEF Derivation, DerivationStep
    <3>2. RecordInv
      BY DEF AInv, RecordInv, TypeOK
    <3>3. \/ routes' = routes
          \/ job[k][i].route \in Routes /\ \E d \in Sources \cup {None} :
                routes' = [routes EXCEPT ![job[k][i].route].derived[k] = d]
      BY <3>1, <3>2, DerivationMoves
    <3>4. QED
      BY <1>t, <3>3, DerivedSetType
  <2>2. QED
    BY <1>6, <1>a, <2>1 DEF Derivation, Aside, accountVars
<1>7. CASE \/ \E s \in Sessions : EndSession(s)
           \/ ReadExpired \/ PurgeFails \/ NextDay \/ UNCHANGED vars
  <2>1. Aside /\ UNCHANGED <<request, cut>>
    BY <1>7 DEF Aside, EndSession, ReadExpired, PurgeFails, NextDay, vars, accountVars, recordVars
  <2>2. QED
    BY <1>a, <2>1
<1>8. QED
  BY <1>1, <1>2, <1>3, <1>4, <1>5, <1>6, <1>7 DEF Next, Purge

LEMMA InitFollowsAccount ==
  ASSUME Init PROVE RequestsStaged /\ FollowInv
<1>1. \A h \in Handlers : request[h] = Idle
  BY DEF Init
<1>2. ~account.deleted /\ \A r \in Routes : ~Hidden(r)
  <2>1. ~account.deleted
    BY DEF Init
  <2>2. \A r \in Routes : routes[r].state \in {"live", "unused"}
    BY DEF Init, NewRow
  <2>3. QED
    BY <2>1, <2>2 DEF Hidden
<1>3. InStep
  BY <1>2 DEF InStep, HiddenApart
<1>4. QED
  BY <1>1, <1>3, IdleIsNoWriter DEF RequestsStaged, FollowInv

\* One at a time, deletions and restores keep account and Routes in step:
\* remove, cancelDeletion, googleAuth, softDeleteUser and restoreUser.
THEOREM RoutesKeepInStep == Spec => []RoutesFollowTheirAccount
<1>1. Init => AInv /\ RequestsStaged /\ FollowInv
  BY InitType, InitFollowsAccount
<1>2. AInv /\ RequestsStaged /\ FollowInv /\ [Next]_vars => (AInv /\ RequestsStaged /\ FollowInv)'
  BY StepPreservesType, StepFollows
<1>3. FollowInv => RoutesFollowTheirAccount
  <2>1. ASSUME FollowInv, account.exists, ~cut, ~WriterInFlight
        PROVE  /\ account.deleted => \A r \in Routes : Live(r) => r \in apart
               /\ ~account.deleted /\ ~account.pending => \A r \in Routes : Hidden(r) => r \in apart
    BY <2>1 DEF FollowInv, InStep, LiveApart, HiddenApart
  <2>2. QED
    BY <2>1 DEF RoutesFollowTheirAccount
<1>4. QED
  BY <1>1, <1>2, <1>3, PTL DEF Spec
=============================================================================

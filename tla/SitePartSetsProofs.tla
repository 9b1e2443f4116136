------------------------- MODULE SitePartSetsProofs -------------------------
(***************************************************************************)
(* The named sets of Header and Footer, for any number of sets,            *)
(* administrators, revisions and releases: rows keep their types, what is  *)
(* published is compiled once and stays so, saves and publications act on  *)
(* what their author saw, and a shell that is served stays served.         *)
(***************************************************************************)
EXTENDS SitePartSets, TLAPS

\* The numbers of a row: a set that is not stored has none, and no revision is ahead of
\* the lock version.
RowsAreSound ==
    \A s \in Sets, k \in Kinds :
        LET row == part[s][k]
        IN  /\ ~Stored(s) => row = [lock_version |-> 0, current_revision |-> 0,
                                    active_revision |-> 0]
            /\ Stored(s) => /\ 1 <= row.current_revision
                            /\ row.current_revision <= row.lock_version
                            /\ row.active_revision <= row.current_revision

\* A lock version somebody holds is not ahead of the row, and as long as the row is at
\* it, the revision that was on the screen is the current one.
Holds(s, k, lock, revision) ==
    /\ lock <= part[s][k].lock_version
    /\ lock = part[s][k].lock_version => revision = part[s][k].current_revision

TabsAreSound ==
    \A a \in Admins : tab[a].set # None =>
        /\ Stored(tab[a].set)
        /\ \A k \in Kinds : Holds(tab[a].set, k, tab[a].lock_version[k], tab[a].revision[k])

\* A request that publishes is about a stored set, runs in some release, and holds the
\* lock versions of its screen. Nobody publishes one part of an element set.
RequestIsSound(q, stored, row) ==
    /\ q.step # "idle" => q.set \in Sets
    /\ q.step \in {"header", "set", "part", "historical"} =>
          stored[q.set].stored /\ q.compiler >= 1
    /\ q.step \in {"header", "set", "part"} =>
          \A k \in Kinds :
             /\ q.expects[k] <= row[q.set][k].lock_version
             /\ q.expects[k] = row[q.set][k].lock_version
                  => q.seen[k] = row[q.set][k].current_revision
    /\ q.step = "part" => q.set \notin Elements
    /\ q.step = "historical" => q.source[q.kind] >= 1

RequestsAreSound == \A a \in Admins : RequestIsSound(request[a], sets, part)

\* The inductive invariant.
SetsInvariant ==
    /\ TypeOK
    /\ RowsAreSound
    /\ TabsAreSound
    /\ RequestsAreSound
    /\ ArtifactsAreSound
-----------------------------------------------------------------------------
(* What a step does to the rows of the parts *)

RowMoves(row, next) ==
    /\ next.current_revision \in {row.current_revision, row.current_revision + 1}
    /\ next.active_revision \in {row.active_revision, row.current_revision}
    /\ next = row \/ next.lock_version = row.lock_version + 1

\* Rows are created, or they move with their lock versions. No set goes away.
PartsMove ==
    /\ sets' \in [Sets -> SetRow]
    /\ part' \in [Sets -> [Kinds -> PartRow]]
    /\ \A s \in Sets :
          /\ Stored(s) => /\ sets'[s].stored
                          /\ \A k \in Kinds : RowMoves(part[s][k], part'[s][k])
          /\ ~Stored(s) => \/ ~sets'[s].stored /\ part'[s] = part[s]
                           \/ sets'[s].stored /\ \A k \in Kinds : part'[s][k] = createPart(k)

\* Artifacts are added, for revisions that had none, and a revision that becomes public
\* has its own.
ArtifactsMove ==
    /\ artifacts \subseteq artifacts'
    /\ artifacts' \subseteq ArtifactRow
    /\ ArtifactsAreImmutable'
    /\ \A s \in Sets, k \in Kinds :
          Stored(s) /\ part'[s][k].active_revision # part[s][k].active_revision =>
              \E r \in artifacts' : /\ r.set = s /\ r.kind = k
                                    /\ r.source_revision = part'[s][k].active_revision

\* A new revision of a part.
LEMMA RevisedRow ==
  ASSUME SetsAssumption, NEW row \in PartRow, row.lock_version < MaxLock,
         row.current_revision <= row.lock_version
  PROVE  /\ RevisedPart(row) \in PartRow
         /\ RevisedPart(row).lock_version = row.lock_version + 1
         /\ RevisedPart(row).current_revision = row.current_revision + 1
         /\ RevisedPart(row).active_revision = row.active_revision
<1> DEFINE current == row.current_revision + 1
           lock == row.lock_version + 1
<1>1. current \in 0 .. MaxLock /\ lock \in 0 .. MaxLock
  BY DEF PartRow, SetsAssumption
<1>2. RevisedPart(row) = [row EXCEPT !.current_revision = current, !.lock_version = lock]
  BY DEF RevisedPart
<1> HIDE DEF current, lock
<1>3. /\ RevisedPart(row) \in PartRow
      /\ RevisedPart(row).lock_version = lock
      /\ RevisedPart(row).current_revision = current
      /\ RevisedPart(row).active_revision = row.active_revision
  BY <1>1, <1>2 DEF PartRow
<1>4. QED
  BY <1>3 DEF current, lock

\* A part that publishes its current revision.
LEMMA PublishedRow ==
  ASSUME SetsAssumption, NEW row \in PartRow,
         row.active_revision # row.current_revision => row.lock_version < MaxLock
  PROVE  /\ PublishedPart(row) \in PartRow
         /\ PublishedPart(row) = row \/ PublishedPart(row).lock_version = row.lock_version + 1
         /\ PublishedPart(row).current_revision = row.current_revision
         /\ PublishedPart(row).active_revision = row.current_revision
<1>1. CASE row.active_revision = row.current_revision
  BY <1>1 DEF PublishedPart
<1>2. CASE row.active_revision # row.current_revision
  <2> DEFINE lock == row.lock_version + 1
  <2>1. lock \in 0 .. MaxLock
    BY <1>2 DEF PartRow, SetsAssumption
  <2>2. PublishedPart(row) = [row EXCEPT !.active_revision = row.current_revision,
                                         !.lock_version = lock]
    BY <1>2 DEF PublishedPart
  <2> HIDE DEF lock
  <2>3. /\ PublishedPart(row) \in PartRow
        /\ PublishedPart(row).lock_version = lock
        /\ PublishedPart(row).current_revision = row.current_revision
        /\ PublishedPart(row).active_revision = row.current_revision
    BY <2>1, <2>2 DEF PartRow
  <2>4. QED
    BY <2>3 DEF lock
<1>3. QED
  BY <1>1, <1>2

\* Requests that only read, and screens, leave the three tables alone.
LEMMA TablesStand ==
  ASSUME SetsInvariant, UNCHANGED <<sets, part, artifacts>>
  PROVE  PartsMove /\ ArtifactsMove
BY DEF SetsInvariant, TypeOK, PartsMove, ArtifactsMove, RowMoves, Stored,
       ArtifactsAreSound, ArtifactsAreImmutable

\* The sets change and nothing is published.
LEMMA CreateAndActivateMove ==
  ASSUME SetsInvariant, NEW a \in Admins,
         createSet(a) \/ \E s \in Sets : activateSet(a, s)
  PROVE  PartsMove /\ ArtifactsMove
<1>1. sets \in [Sets -> SetRow] /\ part \in [Sets -> [Kinds -> PartRow]] /\ artifacts' = artifacts
  BY DEF SetsInvariant, TypeOK, createSet, activateSet
<1>2. CASE createSet(a)
  <2>1. PICK s \in Sets : s = request[a].set /\ ~Stored(s)
    BY <1>2 DEF createSet, SetsInvariant, RequestsAreSound, RequestIsSound, Stored
  <2> DEFINE new == [stored |-> TRUE, is_active |-> request[a].first]
             parts == [k \in Kinds |-> createPart(k)]
  <2>2. new \in SetRow /\ new.stored
    BY DEF SetRow, SetsInvariant, TypeOK, Request
  <2>3. parts \in [Kinds -> PartRow]
    BY SetsAssumption DEF createPart, PartRow, SetsAssumption
  <2>4. sets' = [sets EXCEPT ![s] = new] /\ part' = [part EXCEPT ![s] = parts]
    BY <1>2, <2>1 DEF createSet
  <2>5. \A k \in Kinds : parts[k] = createPart(k)
    OBVIOUS
  <2> HIDE DEF new, parts
  <2>6. \A t \in Sets : t # s => sets'[t] = sets[t] /\ part'[t] = part[t]
    BY <1>1, <2>4
  <2>7. sets'[s] = new /\ part'[s] = parts
    BY <1>1, <2>4
  <2>8. PartsMove
    BY <1>1, <2>1, <2>2, <2>3, <2>4, <2>5, <2>6, <2>7 DEF PartsMove, RowMoves, Stored
  <2>9. ArtifactsMove
    BY <1>1, <2>1, <2>6 DEF ArtifactsMove, Stored, SetsInvariant, TypeOK, ArtifactsAreSound,
       ArtifactsAreImmutable
  <2>10. QED
    BY <2>8, <2>9
<1>3. ASSUME NEW s \in Sets, activateSet(a, s)
      PROVE  PartsMove /\ ArtifactsMove
  <2>1. sets' = [t \in Sets |-> [sets[t] EXCEPT !.is_active = (t = s)]] /\ part' = part
    BY <1>3 DEF activateSet
  <2>2. \A t \in Sets : sets'[t] \in SetRow /\ sets'[t].stored = sets[t].stored
    BY <1>1, <2>1 DEF SetRow
  <2>3. QED
    BY <1>1, <2>1, <2>2 DEF PartsMove, RowMoves, ArtifactsMove, Stored, SetsInvariant, TypeOK,
       ArtifactsAreSound, ArtifactsAreImmutable
<1>4. QED
  BY <1>2, <1>3

\* Saves of one part, or of both: what is published stays.
LEMMA SavesMove ==
  ASSUME SetsInvariant, NEW a \in Admins, NEW s \in Sets,
         saveSetDraft(a, s) \/ \E k \in Kinds : saveDraft(a, s, k)
  PROVE  PartsMove /\ ArtifactsMove
<1>1. sets \in [Sets -> SetRow] /\ part \in [Sets -> [Kinds -> PartRow]]
  BY DEF SetsInvariant, TypeOK
<1>2. Stored(s) /\ sets' = sets /\ artifacts' = artifacts
  BY DEF saveSetDraft, saveDraft
<1>3. \A k \in Kinds : part[s][k].current_revision <= part[s][k].lock_version
  BY <1>2 DEF SetsInvariant, RowsAreSound
<1>4. \A k \in Kinds :
         part[s][k].lock_version < MaxLock =>
            /\ RevisedPart(part[s][k]) \in PartRow
            /\ RevisedPart(part[s][k]).active_revision = part[s][k].active_revision
            /\ RowMoves(part[s][k], RevisedPart(part[s][k]))
  BY <1>1, <1>3, RevisedRow, SetsAssumption DEF RowMoves
<1>5. /\ part' \in [Sets -> [Kinds -> PartRow]]
      /\ \A t \in Sets : t # s => part'[t] = part[t]
      /\ \A k \in Kinds : \/ part'[s][k] = part[s][k]
                          \/ /\ part[s][k].lock_version < MaxLock
                             /\ part'[s][k] = RevisedPart(part[s][k])
  <2>1. CASE saveSetDraft(a, s)
    <3> DEFINE parts == [k \in Kinds |-> RevisedPart(part[s][k])]
    <3>1. parts \in [Kinds -> PartRow] /\ \A k \in Kinds : part[s][k].lock_version < MaxLock
      BY <1>4, <2>1 DEF saveSetDraft
    <3>2. part' = [part EXCEPT ![s] = parts]
      BY <2>1 DEF saveSetDraft
    <3>3. \A k \in Kinds : parts[k] = RevisedPart(part[s][k])
      OBVIOUS
    <3> HIDE DEF parts
    <3>4. QED
      BY <1>1, <3>1, <3>2, <3>3
  <2>2. ASSUME NEW k \in Kinds, saveDraft(a, s, k)
        PROVE  <1>5!1 /\ <1>5!2 /\ <1>5!3
    <3> DEFINE row == RevisedPart(part[s][k])
    <3>1. row \in PartRow /\ part[s][k].lock_version < MaxLock
      BY <1>4, <2>2 DEF saveDraft
    <3>2. part' = [part EXCEPT ![s][k] = row]
      BY <2>2 DEF saveDraft
    <3> HIDE DEF row
    <3>3. /\ part' \in [Sets -> [Kinds -> PartRow]]
          /\ \A t \in Sets : t # s => part'[t] = part[t]
          /\ \A j \in Kinds : part'[s][j] = IF j = k THEN row ELSE part[s][j]
      BY <1>1, <3>1, <3>2
    <3>4. QED
      BY <3>1, <3>3 DEF row
  <2>3. QED
    BY <2>1, <2>2
<1>6. PartsMove
  BY <1>1, <1>2, <1>4, <1>5 DEF PartsMove, RowMoves, Stored
<1>7. ArtifactsMove
  <2>1. \A t \in Sets, k \in Kinds : part'[t][k].active_revision = part[t][k].active_revision
    BY <1>4, <1>5
  <2>2. QED
    BY <1>2, <2>1 DEF ArtifactsMove, SetsInvariant, TypeOK, ArtifactsAreSound,
       ArtifactsAreImmutable
<1>8. QED
  BY <1>6, <1>7
\* A publication: the revision that is compiled becomes the active one, and its artifact
\* is the one it has or a first one.
LEMMA PublicationMoves ==
  ASSUME SetsInvariant, NEW a \in Admins, publishSet(a) \/ publish(a)
  PROVE  PartsMove /\ ArtifactsMove
<1> DEFINE q == request[a]
           s == q.set
           published == {k \in Kinds : part'[s][k] # part[s][k]}
           Fresh(k) == ArtifactOf(s, k, part[s][k].current_revision, q.compiler)
<1>1. sets \in [Sets -> SetRow] /\ part \in [Sets -> [Kinds -> PartRow]]
  BY DEF SetsInvariant, TypeOK
<1>2. s \in Sets /\ Stored(s) /\ sets' = sets /\ q.compiler \in 1 .. MaxCompiler /\ q.kind \in Kinds
  BY SetsAssumption DEF publishSet, publish, SetsInvariant, TypeOK, RequestsAreSound,
     RequestIsSound, Stored, Request, SetsAssumption
<1>3. PICK which \in SUBSET Kinds :
         /\ \A k \in which : Publishable(q, k)
         /\ artifacts' = artifacts \cup {Fresh(k) : k \in which}
         /\ part' \in [Sets -> [Kinds -> PartRow]]
         /\ \A t \in Sets : t # s => part'[t] = part[t]
         /\ \A k \in Kinds : part'[s][k] = IF k \in which THEN PublishedPart(part[s][k])
                                           ELSE part[s][k]
  <2>1. \A k \in Kinds : Publishable(q, k) => PublishedPart(part[s][k]) \in PartRow
    BY <1>1, <1>2, PublishedRow, SetsAssumption DEF Publishable
  <2>2. CASE publishSet(a)
    <3> DEFINE parts == [k \in Kinds |-> PublishedPart(part[s][k])]
    <3>1. parts \in [Kinds -> PartRow] /\ \A k \in Kinds : Publishable(q, k)
      BY <2>1, <2>2 DEF publishSet
    <3>2. part' = [part EXCEPT ![s] = parts]
      BY <2>2 DEF publishSet
    <3>3. \A k \in Kinds : parts[k] = PublishedPart(part[s][k])
      OBVIOUS
    <3>4. artifacts' = artifacts \cup {Fresh(k) : k \in Kinds}
      BY <2>2 DEF publishSet
    <3> HIDE DEF parts, Fresh, q
    <3>5. /\ part' \in [Sets -> [Kinds -> PartRow]]
          /\ \A t \in Sets : t # s => part'[t] = part[t]
          /\ \A k \in Kinds : part'[s][k] = PublishedPart(part[s][k])
      BY <1>1, <1>2, <3>1, <3>2, <3>3
    <3>6. QED
      BY <3>1, <3>4, <3>5
  <2>3. CASE publish(a)
    <3> DEFINE row == PublishedPart(part[s][q.kind])
    <3>1. row \in PartRow /\ Publishable(q, q.kind)
      BY <1>2, <2>1, <2>3 DEF publish
    <3>2. part' = [part EXCEPT ![s][q.kind] = row]
      BY <2>3 DEF publish
    <3>3. artifacts' = artifacts \cup {Fresh(k) : k \in {q.kind}}
      BY <2>3 DEF publish
    <3>4. row = PublishedPart(part[s][q.kind])
      OBVIOUS
    <3> HIDE DEF row, Fresh
    <3>5. /\ part' \in [Sets -> [Kinds -> PartRow]]
          /\ \A t \in Sets : t # s => part'[t] = part[t]
          /\ \A j \in Kinds : part'[s][j] = IF j = q.kind THEN row ELSE part[s][j]
      BY <1>1, <1>2, <3>1, <3>2
    <3>6. \A k \in {q.kind} : Publishable(q, k)
      BY <3>1
    <3>7. {q.kind} \in SUBSET Kinds
      BY <1>2
    <3>8. \A j \in Kinds : part'[s][j] = IF j \in {q.kind} THEN PublishedPart(part[s][j])
                                         ELSE part[s][j]
      BY <3>4, <3>5
    <3>9. QED
      BY <3>3, <3>5, <3>6, <3>7, <3>8
  <2>4. QED
    BY <2>2, <2>3
<1> HIDE DEF q
<1>4. \A k \in which :
         /\ part[s][k] \in PartRow
         /\ part[s][k].current_revision \in 1 .. MaxLock
         /\ PublishedPart(part[s][k]).active_revision = part[s][k].current_revision
         /\ RowMoves(part[s][k], PublishedPart(part[s][k]))
         /\ Storable(s, k, part[s][k].current_revision, q.compiler)
  <2> SUFFICES ASSUME NEW k \in which
               PROVE  <1>4!(k)
    OBVIOUS
  <2>1. Publishable(q, k) /\ k \in Kinds
    BY <1>3
  <2>2. part[s][k] \in PartRow
    BY <1>1, <1>2, <2>1
  <2>3. part[s][k].current_revision \in 1 .. MaxLock
    BY <1>2, <2>1, <2>2, SetsAssumption DEF SetsInvariant, RowsAreSound, PartRow, SetsAssumption
  <2>4. Storable(s, k, part[s][k].current_revision, q.compiler)
    BY <2>1 DEF Publishable
  <2>5. part[s][k].active_revision # part[s][k].current_revision
          => part[s][k].lock_version < MaxLock
    BY <2>1 DEF Publishable
  <2>6. QED
    BY <2>2, <2>3, <2>4, <2>5, PublishedRow, SetsAssumption DEF RowMoves
<1>5. PartsMove
  BY <1>1, <1>2, <1>3, <1>4 DEF PartsMove, RowMoves, Stored
<1>6. \A k \in which : /\ Fresh(k) \in ArtifactRow
                       /\ Fresh(k).set = s /\ Fresh(k).kind = k
                       /\ Fresh(k).source_revision = part[s][k].current_revision
                       /\ Fresh(k).compiler_version = q.compiler
  BY <1>2, <1>3, <1>4 DEF ArtifactOf, ArtifactRow
<1> HIDE DEF Fresh
<1>7. artifacts' \subseteq ArtifactRow /\ artifacts \subseteq artifacts'
  BY <1>3, <1>6 DEF SetsInvariant, TypeOK
<1>8. ASSUME NEW r \in artifacts', NEW p \in artifacts', r.set = p.set, r.kind = p.kind,
             r.source_revision = p.source_revision
      PROVE  r = p
  <2>1. r.compiler_version = p.compiler_version
    <3>1. CASE r \in artifacts /\ p \in artifacts
      BY <1>8, <3>1 DEF SetsInvariant, ArtifactsAreSound, ArtifactsAreImmutable
    <3>2. ASSUME NEW k \in which, r = Fresh(k), p \in artifacts
          PROVE  r.compiler_version = p.compiler_version
      BY <1>4, <1>6, <1>8, <3>2 DEF Storable
    <3>3. ASSUME NEW k \in which, p = Fresh(k), r \in artifacts
          PROVE  r.compiler_version = p.compiler_version
      BY <1>4, <1>6, <1>8, <3>3 DEF Storable
    <3>4. ASSUME NEW k \in which, NEW j \in which, p = Fresh(k), r = Fresh(j)
          PROVE  r.compiler_version = p.compiler_version
      BY <1>6, <3>4
    <3>5. QED
      BY <1>3, <3>1, <3>2, <3>3, <3>4
  <2>2. r \in ArtifactRow /\ p \in ArtifactRow
    BY <1>7
  <2>3. QED
    BY <1>8, <2>1, <2>2 DEF ArtifactRow
<1>9. ASSUME NEW t \in Sets, NEW k \in Kinds,
             part'[t][k].active_revision # part[t][k].active_revision
      PROVE  \E r \in artifacts' : /\ r.set = t /\ r.kind = k
                                   /\ r.source_revision = part'[t][k].active_revision
  <2>1. t = s /\ k \in which
    BY <1>3, <1>9
  <2>2. Fresh(k) \in artifacts'
    BY <1>3, <2>1
  <2>3. QED
    BY <1>3, <1>4, <1>6, <2>1, <2>2
<1>10. ArtifactsMove
  BY <1>7, <1>8, <1>9 DEF ArtifactsMove, ArtifactsAreImmutable
<1>11. QED
  BY <1>5, <1>10

\* The upgrade writes an artifact for the revision that is active.
LEMMA HistoricalMoves ==
  ASSUME SetsInvariant, NEW a \in Admins, prepareHistorical(a)
  PROVE  PartsMove /\ ArtifactsMove
<1> DEFINE q == request[a]
           n == part[q.set][q.kind].active_revision
           fresh == ArtifactOf(q.set, q.kind, n, q.compiler)
<1>1. /\ q.set \in Sets /\ q.kind \in Kinds /\ q.compiler \in 1 .. MaxCompiler
      /\ n \in 1 .. MaxLock
  <2>1. q \in Request /\ q.set \in Sets /\ q.compiler >= 1 /\ q.source[q.kind] >= 1 /\ n = q.source[q.kind]
    BY DEF prepareHistorical, SetsInvariant, RequestsAreSound, RequestIsSound, TypeOK
  <2>2. q.kind \in Kinds /\ q.source \in [Kinds -> 0 .. MaxLock] /\ q.compiler \in 0 .. MaxCompiler
    BY <2>1 DEF Request
  <2>3. QED
    BY <2>1, <2>2, SetsAssumption DEF SetsAssumption
<1>2. artifacts' = artifacts \cup {fresh} /\ Storable(q.set, q.kind, n, q.compiler)
  BY DEF prepareHistorical
<1>3. sets' = sets /\ part' = part
  BY DEF prepareHistorical
<1>4. /\ fresh \in ArtifactRow /\ fresh.set = q.set /\ fresh.kind = q.kind
      /\ fresh.source_revision = n /\ fresh.compiler_version = q.compiler
  BY <1>1 DEF ArtifactOf, ArtifactRow
<1> HIDE DEF q, n, fresh
<1>5. PartsMove
  BY <1>3 DEF SetsInvariant, TypeOK, PartsMove, RowMoves, Stored
<1>6. artifacts' \subseteq ArtifactRow /\ artifacts \subseteq artifacts'
  BY <1>2, <1>4 DEF SetsInvariant, TypeOK
<1>7. ASSUME NEW r \in artifacts', NEW p \in artifacts', r.set = p.set, r.kind = p.kind,
             r.source_revision = p.source_revision
      PROVE  r = p
  <2>1. r.compiler_version = p.compiler_version
    <3>1. CASE r \in artifacts /\ p \in artifacts
      BY <1>7, <3>1 DEF SetsInvariant, ArtifactsAreSound, ArtifactsAreImmutable
    <3>2. CASE r = fresh \/ p = fresh
      BY <1>2, <1>4, <1>7, <3>2 DEF Storable
    <3>3. QED
      BY <1>2, <3>1, <3>2
  <2>2. r \in ArtifactRow /\ p \in ArtifactRow
    BY <1>6
  <2>3. QED
    BY <1>7, <2>1, <2>2 DEF ArtifactRow
<1>8. ArtifactsMove
  BY <1>3, <1>6, <1>7 DEF ArtifactsMove, ArtifactsAreImmutable
<1>9. QED
  BY <1>5, <1>8

\* Every step moves the tables so.
LEMMA TablesMove ==
  ASSUME SetsInvariant, [Next]_vars
  PROVE  PartsMove /\ ArtifactsMove
<1>1. CASE UNCHANGED <<sets, part, artifacts>>
  BY <1>1, TablesStand
<1>2. CASE ~UNCHANGED <<sets, part, artifacts>>
  <2>1. \E a \in Admins :
           \/ createSet(a) \/ publishSet(a) \/ publish(a) \/ prepareHistorical(a)
           \/ \E s \in Sets : \/ activateSet(a, s) \/ saveSetDraft(a, s)
                              \/ \E k \in Kinds : saveDraft(a, s, k)
    BY <1>2 DEF Next, vars, Deploy, ReadHeader, ReadFooter, Abandon, ReadPart, Load,
       CreateReads, missingPublications
  <2>2. QED
    BY <2>1, CreateAndActivateMove, SavesMove, PublicationMoves, HistoricalMoves
<1>3. QED
  BY <1>1, <1>2
-----------------------------------------------------------------------------
(* The inductive invariant is kept *)

LEMMA SetsInit == Init => SetsInvariant
<1> SUFFICES ASSUME Init
             PROVE  SetsInvariant
  OBVIOUS
<1> USE SetsAssumption
<1>1. PICK migrated \in SUBSET (Sets \ Elements) :
         /\ sets = [s \in Sets |-> [stored |-> s \in migrated, is_active |-> s \in migrated]]
         /\ part = [s \in Sets |-> [k \in Kinds |->
                     IF s \in migrated
                     THEN [lock_version |-> 2, current_revision |-> 1, active_revision |-> 1]
                     ELSE [lock_version |-> 0, current_revision |-> 0,
                           active_revision |-> 0]]]
  BY DEF Init
<1>2. artifacts = {} /\ compiler = 1
      /\ tab = [a \in Admins |-> [set |-> None, lock_version |-> Zero, revision |-> Zero]]
      /\ request = [a \in Admins |-> Idle]
  BY DEF Init
<1>3. sets \in [Sets -> SetRow]
  BY <1>1 DEF SetRow
<1>4. \A s \in Sets, k \in Kinds :
         part[s][k] = IF s \in migrated
                      THEN [lock_version |-> 2, current_revision |-> 1, active_revision |-> 1]
                      ELSE [lock_version |-> 0, current_revision |-> 0, active_revision |-> 0]
  BY <1>1
<1>5. part \in [Sets -> [Kinds -> PartRow]]
  BY <1>1 DEF PartRow, SetsAssumption
<1>6. Zero \in [Kinds -> 0 .. MaxLock]
  BY DEF Zero, SetsAssumption
<1>7. tab \in [Admins -> Tab] /\ \A a \in Admins : tab[a].set = None
  BY <1>2, <1>6 DEF Tab
<1>8. request \in [Admins -> Request] /\ \A a \in Admins : request[a].step = "idle"
  BY <1>2, <1>6 DEF Request, Idle, Kinds, SetsAssumption
<1>9. TypeOK
  BY <1>2, <1>3, <1>5, <1>7, <1>8 DEF TypeOK, SetsAssumption
<1>10. \A s \in Sets : Stored(s) <=> s \in migrated
  BY <1>1 DEF Stored
<1>11. RowsAreSound
  BY <1>4, <1>10 DEF RowsAreSound
<1>12. TabsAreSound /\ RequestsAreSound
  BY <1>7, <1>8 DEF TabsAreSound, RequestsAreSound, RequestIsSound
<1>13. ArtifactsAreSound
  BY <1>2, <1>4 DEF ArtifactsAreSound, PublishedIsCompiled, ArtifactsAreImmutable
<1>14. QED
  BY <1>9, <1>11, <1>12, <1>13 DEF SetsInvariant

(* Rows that only move forward stay sound. *)
LEMMA RowsKept ==
  ASSUME SetsInvariant, PartsMove
  PROVE  RowsAreSound'
<1> SUFFICES ASSUME NEW s \in Sets, NEW k \in Kinds
             PROVE  /\ ~sets'[s].stored => part'[s][k] = [lock_version |-> 0,
                                     current_revision |-> 0, active_revision |-> 0]
                    /\ sets'[s].stored =>
                         /\ 1 <= part'[s][k].current_revision
                         /\ part'[s][k].current_revision <= part'[s][k].lock_version
                         /\ part'[s][k].active_revision <= part'[s][k].current_revision
  BY DEF RowsAreSound, Stored
<1>1. part[s][k] \in PartRow /\ part'[s][k] \in PartRow
  BY DEF SetsInvariant, TypeOK, PartsMove
<1>2. CASE Stored(s)
  <2>1. sets'[s].stored /\ RowMoves(part[s][k], part'[s][k])
    BY <1>2 DEF PartsMove
  <2>2. /\ 1 <= part[s][k].current_revision
        /\ part[s][k].current_revision <= part[s][k].lock_version
        /\ part[s][k].active_revision <= part[s][k].current_revision
    BY <1>2 DEF SetsInvariant, RowsAreSound
  <2>3. QED
    BY <1>1, <2>1, <2>2 DEF RowMoves, PartRow
<1>3. CASE ~Stored(s)
  BY <1>3 DEF PartsMove, SetsInvariant, RowsAreSound, createPart
<1>4. QED
  BY <1>2, <1>3

\* What somebody holds stays true while rows move with their lock versions.
LEMMA HoldsKept ==
  ASSUME SetsInvariant, PartsMove, NEW s \in Sets, Stored(s), NEW k \in Kinds,
         NEW lock \in 0 .. MaxLock, NEW revision, Holds(s, k, lock, revision)
  PROVE  /\ lock <= part'[s][k].lock_version
         /\ lock = part'[s][k].lock_version => revision = part'[s][k].current_revision
<1>1. part[s][k] \in PartRow /\ part'[s][k] \in PartRow /\ RowMoves(part[s][k], part'[s][k])
  BY DEF SetsInvariant, TypeOK, PartsMove
<1>2. part[s][k].lock_version \in 0 .. MaxLock /\ MaxLock \in Nat
  BY <1>1, SetsAssumption DEF PartRow, SetsAssumption
<1>3. QED
  BY <1>1, <1>2 DEF Holds, RowMoves

\* Screens and requests that stay as they are stay sound.
LEMMA TabKept ==
  ASSUME SetsInvariant, PartsMove, NEW a \in Admins, tab[a].set # None
  PROVE  /\ tab[a].set \in Sets /\ sets'[tab[a].set].stored
         /\ \A k \in Kinds :
              /\ tab[a].lock_version[k] <= part'[tab[a].set][k].lock_version
              /\ tab[a].lock_version[k] = part'[tab[a].set][k].lock_version
                   => tab[a].revision[k] = part'[tab[a].set][k].current_revision
<1>1. tab[a] \in Tab
  BY DEF SetsInvariant, TypeOK
<1>2. tab[a].set \in Sets /\ \A k \in Kinds : tab[a].lock_version[k] \in 0 .. MaxLock
  BY <1>1 DEF Tab
<1>3. Stored(tab[a].set)
      /\ \A k \in Kinds : Holds(tab[a].set, k, tab[a].lock_version[k], tab[a].revision[k])
  BY DEF SetsInvariant, TabsAreSound
<1>4. sets'[tab[a].set].stored
  BY <1>2, <1>3 DEF PartsMove
<1>5. QED
  BY <1>2, <1>3, <1>4, HoldsKept

(* What a tab has loaded stays a state its rows were in. *)
LEMMA TabsKept ==
  ASSUME SetsInvariant, PartsMove, [Next]_vars
  PROVE  tab' \in [Admins -> Tab] /\ TabsAreSound'
<1>1. CASE tab' = tab
  BY <1>1, TabKept DEF SetsInvariant, TypeOK, TabsAreSound, Holds, Stored
<1>2. ASSUME NEW a \in Admins, NEW s \in Sets, Load(a, s)
      PROVE  tab' \in [Admins -> Tab] /\ TabsAreSound'
  <2> DEFINE new == [set |-> s, lock_version |-> [k \in Kinds |-> part[s][k].lock_version],
                     revision |-> [k \in Kinds |-> part[s][k].current_revision]]
  <2>1. part[s] \in [Kinds -> PartRow] /\ tab \in [Admins -> Tab]
    BY DEF SetsInvariant, TypeOK
  <2>2. new \in Tab
    BY <2>1 DEF Tab, PartRow
  <2>3. tab' = [tab EXCEPT ![a] = new]
    BY <1>2 DEF Load
  <2>4. /\ new.set = s
        /\ \A k \in Kinds : /\ new.lock_version[k] = part[s][k].lock_version
                            /\ new.revision[k] = part[s][k].current_revision
    OBVIOUS
  <2> HIDE DEF new
  <2>5. tab' \in [Admins -> Tab] /\ \A b \in Admins : tab'[b] = IF b = a THEN new ELSE tab[b]
    BY <2>1, <2>2, <2>3
  <2>6. part' = part /\ sets' = sets /\ Stored(s)
    BY <1>2 DEF Load
  <2>7. \A k \in Kinds : part[s][k].lock_version <= part[s][k].lock_version
    BY <2>1, SetsAssumption DEF PartRow, SetsAssumption
  <2>8. TabsAreSound'
    BY <2>4, <2>5, <2>6, <2>7 DEF SetsInvariant, TabsAreSound, Holds, Stored
  <2>9. QED
    BY <2>5, <2>8
<1>3. QED
  BY <1>1, <1>2 DEF Next, vars, createSet, ReadHeader, ReadFooter, publishSet, publish,
     prepareHistorical, Abandon, ReadPart, CreateReads, activateSet, saveSetDraft, saveDraft,
     missingPublications, Deploy
(* A request that waits stays sound while others write. *)
LEMMA RequestKept ==
  ASSUME SetsInvariant, PartsMove, NEW a \in Admins
  PROVE  RequestIsSound(request[a], sets', part')
<1> DEFINE q == request[a]
<1>1. q \in Request /\ RequestIsSound(q, sets, part)
  BY DEF SetsInvariant, TypeOK, RequestsAreSound
<1> HIDE DEF q
<1>2. CASE q.step \in {"header", "set", "part"}
  <2>1. q.set \in Sets /\ Stored(q.set) /\ \A k \in Kinds : q.expects[k] \in 0 .. MaxLock
    BY <1>1, <1>2 DEF RequestIsSound, Request, Stored
  <2>2. \A k \in Kinds : Holds(q.set, k, q.expects[k], q.seen[k])
    BY <1>1, <1>2 DEF RequestIsSound, Holds
  <2>3. \A k \in Kinds :
           /\ q.expects[k] <= part'[q.set][k].lock_version
           /\ q.expects[k] = part'[q.set][k].lock_version
                => q.seen[k] = part'[q.set][k].current_revision
    BY <2>1, <2>2, HoldsKept
  <2>4. sets'[q.set].stored
    BY <2>1 DEF PartsMove
  <2>5. RequestIsSound(q, sets', part')
    BY <1>1, <1>2, <2>3, <2>4 DEF RequestIsSound
  <2>6. QED
    BY <2>5 DEF q
<1>3. CASE q.step \notin {"header", "set", "part"}
  <2>1. q.step = "historical" => sets'[q.set].stored
    BY <1>1 DEF RequestIsSound, PartsMove, Stored
  <2>2. RequestIsSound(q, sets', part')
    BY <1>1, <1>3, <2>1 DEF RequestIsSound
  <2>3. QED
    BY <2>2 DEF q
<1>4. QED
  BY <1>2, <1>3

\* One request is replaced by a sound one.
LEMMA RequestReplaced ==
  ASSUME SetsInvariant, PartsMove, NEW a \in Admins, NEW q \in Request,
         RequestIsSound(q, sets', part'), request' = [request EXCEPT ![a] = q]
  PROVE  request' \in [Admins -> Request] /\ RequestsAreSound'
<1>1. request \in [Admins -> Request]
  BY DEF SetsInvariant, TypeOK
<1>2. /\ request' \in [Admins -> Request]
      /\ \A b \in Admins : request'[b] = IF b = a THEN q ELSE request[b]
  BY <1>1
<1>3. \A b \in Admins : RequestIsSound(request'[b], sets', part')
  BY <1>2, RequestKept
<1>4. QED
  BY <1>2, <1>3 DEF RequestsAreSound

\* A request that starts to publish holds what its screen holds.
LEMMA RequestedIsSound ==
  ASSUME SetsInvariant, UNCHANGED <<sets, part>>, NEW a \in Admins, tab[a].set # None,
         NEW step \in {"header", "part"}, NEW kind \in Kinds,
         step = "part" => tab[a].set \notin Elements
  PROVE  /\ Requested(a, step, kind) \in Request
         /\ RequestIsSound(Requested(a, step, kind), sets', part')
<1> DEFINE q == Requested(a, step, kind)
           n == part[tab[a].set][kind].current_revision
           source == [Zero EXCEPT ![kind] = n]
<1>1. tab[a] \in Tab /\ compiler \in 1 .. MaxCompiler /\ part \in [Sets -> [Kinds -> PartRow]]
  BY DEF SetsInvariant, TypeOK
<1>2. /\ tab[a].set \in Sets
      /\ tab[a].lock_version \in [Kinds -> 0 .. MaxLock]
      /\ tab[a].revision \in [Kinds -> 0 .. MaxLock]
  BY <1>1 DEF Tab
<1>3. n \in 0 .. MaxLock
  BY <1>1, <1>2 DEF PartRow
<1>4. Zero \in [Kinds -> 0 .. MaxLock]
  BY SetsAssumption DEF Zero, SetsAssumption
<1>5. source \in [Kinds -> 0 .. MaxLock]
  BY <1>3, <1>4
<1>6. q = [step |-> step, set |-> tab[a].set, kind |-> kind, first |-> FALSE,
           expects |-> tab[a].lock_version, seen |-> tab[a].revision,
           source |-> source, compiler |-> compiler]
  BY DEF Requested
<1> HIDE DEF q, source
<1>7. q \in Request
  BY <1>1, <1>2, <1>5, <1>6, SetsAssumption DEF Request, SetsAssumption
<1>8. /\ q.step = step /\ q.set = tab[a].set /\ q.expects = tab[a].lock_version
      /\ q.seen = tab[a].revision /\ q.compiler = compiler
  BY <1>6
<1>9. /\ sets[tab[a].set].stored
      /\ \A k \in Kinds :
           /\ tab[a].lock_version[k] <= part[tab[a].set][k].lock_version
           /\ tab[a].lock_version[k] = part[tab[a].set][k].lock_version
                => tab[a].revision[k] = part[tab[a].set][k].current_revision
  BY DEF SetsInvariant, TabsAreSound, Holds, Stored
<1>10. compiler >= 1
  BY <1>1, SetsAssumption DEF SetsAssumption
<1>11. RequestIsSound(q, sets', part')
  BY <1>2, <1>8, <1>9, <1>10 DEF RequestIsSound
<1>12. QED
  BY <1>7, <1>11 DEF q

\* The Footer is read after the Header: the request only remembers one revision more.
LEMMA ReadFooterKeeps ==
  ASSUME SetsInvariant, PartsMove, NEW a \in Admins, ReadFooter(a)
  PROVE  request' \in [Admins -> Request] /\ RequestsAreSound'
<1> DEFINE q == request[a]
           n == part[q.set]["footer"].current_revision
           source == [q.source EXCEPT !["footer"] = n]
           next == [q EXCEPT !.step = "set", !.source = source]
<1>1. q \in Request /\ q.step = "header" /\ RequestIsSound(q, sets', part')
      /\ request \in [Admins -> Request]
  BY RequestKept DEF SetsInvariant, TypeOK, ReadFooter
<1>2. q.set \in Sets /\ q.source \in [Kinds -> 0 .. MaxLock]
  BY <1>1 DEF RequestIsSound, Request
<1>3. n \in 0 .. MaxLock
  BY <1>2 DEF SetsInvariant, TypeOK, PartRow, Kinds
<1>4. source \in [Kinds -> 0 .. MaxLock]
  BY <1>2, <1>3
<1>5. request' = [request EXCEPT ![a] = next]
  <2>1. request' = [request EXCEPT ![a].step = "set", ![a].source["footer"] = n]
    BY DEF ReadFooter
  <2>2. QED
    BY <1>1, <1>2, <2>1 DEF Request
<1> HIDE DEF source, q
<1>6. next \in Request
  BY <1>1, <1>4 DEF Request
<1>7. /\ next.step = "set" /\ next.set = q.set /\ next.compiler = q.compiler
      /\ next.expects = q.expects /\ next.seen = q.seen
  BY <1>1 DEF Request
<1> HIDE DEF next
<1>8. RequestIsSound(next, sets', part')
  BY <1>1, <1>7 DEF RequestIsSound
<1>9. QED
  BY <1>5, <1>6, <1>8, RequestReplaced
(* An administrator without a request is sound. *)
LEMMA IdleIsSound == Idle \in Request /\ RequestIsSound(Idle, sets', part')
<1>1. Zero \in [Kinds -> 0 .. MaxLock]
  BY SetsAssumption DEF Zero, SetsAssumption
<1>2. QED
  BY <1>1, SetsAssumption DEF Idle, Request, RequestIsSound, Kinds, SetsAssumption

(* Reading whether a set is the first keeps the requests sound. *)
LEMMA CreateReadsKeeps ==
  ASSUME SetsInvariant, PartsMove, NEW a \in Admins, NEW s \in Sets, CreateReads(a, s)
  PROVE  request' \in [Admins -> Request] /\ RequestsAreSound'
<1> DEFINE first == s \notin Elements /\ ~\E t \in Sets : sets[t].is_active
           next == [Idle EXCEPT !.step = "creating", !.set = s, !.first = first]
<1>1. request' = [request EXCEPT ![a] = next]
  BY DEF CreateReads
<1>2. first \in BOOLEAN
  OBVIOUS
<1> HIDE DEF first
<1>3. next \in Request /\ next.step = "creating" /\ next.set = s
  BY <1>2, IdleIsSound DEF Request
<1> HIDE DEF next
<1>4. RequestIsSound(next, sets', part')
  BY <1>3 DEF RequestIsSound
<1>5. QED
  BY <1>1, <1>3, <1>4, RequestReplaced

(* A request for the publications that are missing starts sound. *)
LEMMA MissingKeeps ==
  ASSUME SetsInvariant, PartsMove, NEW a \in Admins, NEW s \in Sets, NEW k \in Kinds,
         missingPublications(a, s, k)
  PROVE  request' \in [Admins -> Request] /\ RequestsAreSound'
<1> DEFINE lock == part[s][k].lock_version
           n == part[s][k].active_revision
           expects == [Zero EXCEPT ![k] = lock]
           source == [Zero EXCEPT ![k] = n]
           next == [Idle EXCEPT !.step = "historical", !.set = s, !.kind = k,
                                !.expects = expects, !.source = source,
                                !.compiler = compiler]
<1>1. part[s][k] \in PartRow /\ compiler \in 1 .. MaxCompiler
  BY DEF SetsInvariant, TypeOK
<1>2. Zero \in [Kinds -> 0 .. MaxLock] /\ Idle.expects = Zero /\ Idle.source = Zero
  BY SetsAssumption DEF Zero, Idle, SetsAssumption
<1>3. lock \in 0 .. MaxLock /\ n \in 0 .. MaxLock /\ n # 0
  BY <1>1 DEF PartRow, missingPublications
<1>4. expects \in [Kinds -> 0 .. MaxLock] /\ source \in [Kinds -> 0 .. MaxLock] /\ source[k] = n
  BY <1>2, <1>3
<1>5. request' = [request EXCEPT ![a] = next]
  BY <1>2 DEF missingPublications, Idle
<1> HIDE DEF expects, source
<1>6. compiler \in 0 .. MaxCompiler /\ compiler >= 1
  BY <1>1, SetsAssumption DEF SetsAssumption
<1>7. /\ next \in Request /\ next.step = "historical" /\ next.set = s /\ next.kind = k
      /\ next.source = source /\ next.compiler = compiler
  BY <1>4, <1>6, IdleIsSound DEF Request
<1> HIDE DEF next
<1>8. sets'[s].stored
  <2>1. Stored(s)
    BY <1>3 DEF SetsInvariant, RowsAreSound
  <2>2. QED
    BY <2>1 DEF PartsMove
<1>9. source[k] >= 1
  BY <1>3, <1>4, SetsAssumption DEF SetsAssumption
<1>10. RequestIsSound(next, sets', part')
  BY <1>6, <1>7, <1>8, <1>9 DEF RequestIsSound
<1>11. QED
  BY <1>5, <1>7, <1>10, RequestReplaced

(* Every step keeps the requests sound. *)
LEMMA RequestsKept ==
  ASSUME SetsInvariant, PartsMove, [Next]_vars
  PROVE  request' \in [Admins -> Request] /\ RequestsAreSound'
<1>1. CASE request' = request
  BY <1>1, RequestKept DEF SetsInvariant, TypeOK, RequestsAreSound
<1>2. ASSUME NEW a \in Admins, request' = [request EXCEPT ![a] = Idle]
      PROVE  request' \in [Admins -> Request] /\ RequestsAreSound'
  BY <1>2, IdleIsSound, RequestReplaced
<1>3. ASSUME NEW a \in Admins, ReadHeader(a)
      PROVE  request' \in [Admins -> Request] /\ RequestsAreSound'
  <2>1. /\ UNCHANGED <<sets, part>> /\ tab[a].set # None
        /\ request' = [request EXCEPT ![a] = Requested(a, "header", "header")]
    BY <1>3 DEF ReadHeader
  <2>2. QED
    BY <2>1, RequestedIsSound, RequestReplaced DEF Kinds
<1>4. ASSUME NEW a \in Admins, NEW k \in Kinds, ReadPart(a, k)
      PROVE  request' \in [Admins -> Request] /\ RequestsAreSound'
  <2>1. /\ UNCHANGED <<sets, part>> /\ tab[a].set # None /\ tab[a].set \notin Elements
        /\ request' = [request EXCEPT ![a] = Requested(a, "part", k)]
    BY <1>4 DEF ReadPart
  <2>2. QED
    BY <2>1, RequestedIsSound, RequestReplaced
<1>5. CASE Next
  <2>1. CASE \E a \in Admins : \/ createSet(a) \/ publishSet(a) \/ publish(a)
                               \/ prepareHistorical(a) \/ Abandon(a)
    BY <1>2, <2>1 DEF createSet, publishSet, publish, prepareHistorical, Abandon
  <2>2. CASE \E a \in Admins : ReadHeader(a) \/ \E k \in Kinds : ReadPart(a, k)
    BY <1>3, <1>4, <2>2
  <2>3. CASE \E a \in Admins : ReadFooter(a)
    BY <2>3, ReadFooterKeeps
  <2>4. CASE \E a \in Admins, s \in Sets :
                CreateReads(a, s) \/ \E k \in Kinds : missingPublications(a, s, k)
    BY <2>4, CreateReadsKeeps, MissingKeeps
  <2>5. CASE \/ Deploy
             \/ \E a \in Admins, s \in Sets :
                   \/ Load(a, s) \/ activateSet(a, s) \/ saveSetDraft(a, s)
                   \/ \E k \in Kinds : saveDraft(a, s, k)
    BY <1>1, <2>5 DEF Deploy, Load, activateSet, saveSetDraft, saveDraft
  <2>6. QED
    BY <1>5, <2>1, <2>2, <2>3, <2>4, <2>5 DEF Next
<1>6. QED
  BY <1>1, <1>5 DEF vars

\* What is active stays compiled: nothing becomes active without its artifact.
LEMMA CompiledKept ==
  ASSUME SetsInvariant, PartsMove, ArtifactsMove
  PROVE  PublishedIsCompiled'
<1> SUFFICES ASSUME NEW s \in Sets, NEW k \in Kinds, part'[s][k].active_revision # 0
             PROVE  \/ HasArtifact(s, k)'
                    \/ /\ part'[s][k].active_revision = 1
                       /\ s \notin Elements /\ part'[s][k].lock_version > 1
  BY DEF PublishedIsCompiled
<1>1. part[s][k] \in PartRow /\ part'[s][k] \in PartRow
  BY DEF SetsInvariant, TypeOK, PartsMove
<1>2. Stored(s)
  BY DEF PartsMove, SetsInvariant, RowsAreSound, createPart
<1>3. CASE part'[s][k].active_revision # part[s][k].active_revision
  BY <1>2, <1>3 DEF ArtifactsMove, HasArtifact
<1>4. CASE part'[s][k].active_revision = part[s][k].active_revision
  <2>1. \/ HasArtifact(s, k)
        \/ /\ part[s][k].active_revision = 1
           /\ s \notin Elements /\ part[s][k].lock_version > 1
    BY <1>4 DEF SetsInvariant, ArtifactsAreSound, PublishedIsCompiled
  <2>2. HasArtifact(s, k) => HasArtifact(s, k)'
    BY <1>4 DEF HasArtifact, ArtifactsMove
  <2>3. RowMoves(part[s][k], part'[s][k])
    BY <1>2 DEF PartsMove
  <2>4. part[s][k].lock_version > 1 => part'[s][k].lock_version > 1
    BY <1>1, <2>3, SetsAssumption DEF RowMoves, PartRow, SetsAssumption
  <2>5. QED
    BY <1>4, <2>1, <2>2, <2>4
<1>5. QED
  BY <1>3, <1>4

(* Every step keeps the invariant of the sets. *)
LEMMA SetsStep == SetsInvariant /\ [Next]_vars => SetsInvariant'
<1> SUFFICES ASSUME SetsInvariant, [Next]_vars
             PROVE  SetsInvariant'
  OBVIOUS
<1>1. PartsMove /\ ArtifactsMove
  BY TablesMove
<1>2. compiler' \in 1 .. MaxCompiler
  <2>1. compiler \in 1 .. MaxCompiler
    BY DEF SetsInvariant, TypeOK
  <2>2. compiler' = compiler \/ (compiler < MaxCompiler /\ compiler' = compiler + 1)
    BY DEF Next, vars, Deploy, createSet, ReadHeader, ReadFooter, publishSet, publish,
       prepareHistorical, Abandon, ReadPart, Load, CreateReads, activateSet, saveSetDraft,
       saveDraft, missingPublications
  <2>3. QED
    BY <2>1, <2>2, SetsAssumption DEF SetsAssumption
<1>3. TypeOK'
  BY <1>1, <1>2, TabsKept, RequestsKept DEF TypeOK, PartsMove, ArtifactsMove
<1>4. ArtifactsAreSound'
  BY <1>1, CompiledKept DEF ArtifactsAreSound, ArtifactsMove
<1>5. QED
  BY <1>1, <1>3, <1>4, RowsKept, TabsKept, RequestsKept DEF SetsInvariant

(* The rows, tabs, requests and artifacts of Header and Footer sets fit together always: the repository's
   locks and the services' order of reading and writing leave none of them behind. *)
THEOREM SetsAreSound == Spec => []SetsInvariant
BY SetsInit, SetsStep, PTL DEF Spec
-----------------------------------------------------------------------------
(* The theorems *)

\* The tables and the requests keep their types.
THEOREM SetTypesAreCorrect == Spec => []TypeOK
<1>1. SetsInvariant => TypeOK
  BY DEF SetsInvariant
<1>2. QED
  BY <1>1, SetsAreSound, PTL

\* What is public has its compiled artifact, the one it always had, through every release.
THEOREM ArtifactsStaySound == Spec => []ArtifactsAreSound
<1>1. SetsInvariant => ArtifactsAreSound
  BY DEF SetsInvariant
<1>2. QED
  BY <1>1, SetsAreSound, PTL

\* A served shell stays served, except that a set may be created.
THEOREM ServedShellsStay == Spec => ServedShellStays
<1> DEFINE Stays == (\E s \in Sets : Served(s))
                      /\ (\A s \in Sets : sets'[s].stored = sets[s].stored)
                    => (\E s \in Sets : Served(s))'
<1>1. SetsInvariant /\ [Next]_vars => [Stays]_vars
  <2> SUFFICES ASSUME SetsInvariant, [Next]_vars, NEW s \in Sets, Served(s),
                      \A t \in Sets : sets'[t].stored = sets[t].stored
               PROVE  \E t \in Sets : Served(t)'
    OBVIOUS
  <2>1. PartsMove /\ ArtifactsMove
    BY TablesMove
  <2>2. \A t \in Sets, k \in Kinds : HasArtifact(t, k) => HasArtifact(t, k)'
    <3> SUFFICES ASSUME NEW t \in Sets, NEW k \in Kinds, HasArtifact(t, k)
                 PROVE  HasArtifact(t, k)'
      OBVIOUS
    <3>1. part[t][k].active_revision # 0
      BY SetsAssumption DEF SetsInvariant, TypeOK, HasArtifact, ArtifactRow, SetsAssumption
    <3>2. Stored(t)
      BY <3>1 DEF SetsInvariant, RowsAreSound
    <3>3. QED
      BY <2>1, <3>2 DEF ArtifactsMove, HasArtifact
  <2>3. CASE \E a \in Admins, t \in Sets : activateSet(a, t)
    <3>1. PICK a \in Admins, t \in Sets : activateSet(a, t)
      BY <2>3
    <3>2. \A u \in Sets : sets'[u].is_active <=> u = t
      BY <3>1 DEF activateSet, SetsInvariant, TypeOK, SetRow
    <3>3. \A k \in Kinds : HasArtifact(t, k)'
      BY <2>2, <3>1 DEF activateSet
    <3>4. QED
      BY <3>2, <3>3 DEF Served, ActiveSets
  <2>4. CASE \E a \in Admins : createSet(a)
    <3>1. PICK a \in Admins : createSet(a)
      BY <2>4
    <3>2. request[a].set \in Sets /\ ~Stored(request[a].set)
      BY <3>1 DEF createSet, SetsInvariant, RequestsAreSound, RequestIsSound
    <3>3. sets'[request[a].set].stored
      BY <3>1, <3>2 DEF createSet, SetsInvariant, TypeOK
    <3>4. QED
      BY <3>2, <3>3 DEF Stored
  <2>5. CASE sets' = sets
    <3>1. ActiveSets' = ActiveSets
      BY <2>5 DEF ActiveSets
    <3>2. QED
      BY <2>2, <3>1 DEF Served
  <2>6. QED
    BY <2>3, <2>4, <2>5 DEF Next, vars, Deploy, ReadHeader, ReadFooter, publishSet, publish,
       prepareHistorical, Abandon, ReadPart, Load, CreateReads, saveSetDraft, saveDraft,
       missingPublications
<1>2. QED
  BY <1>1, SetsAreSound, PTL DEF Spec, ServedShellStays
\* Only publications move what is active, and a publication of one part is not of elements.
LEMMA WhoPublishes ==
  ASSUME SetsInvariant, [Next]_vars, NEW s \in Sets, Stored(s), NEW k \in Kinds,
         part'[s][k].active_revision # part[s][k].active_revision
  PROVE  \E a \in Admins :
           /\ request[a].set = s
           /\ request[a].step \in {"set", "part"}
           /\ Publishable(request[a], k)
           /\ part'[s][k] = PublishedPart(part[s][k])
           /\ request[a].step = "set" => \A j \in Kinds : part'[s][j] = PublishedPart(part[s][j])
<1>1. part \in [Sets -> [Kinds -> PartRow]]
  BY DEF SetsInvariant, TypeOK
<1>2. part' # part
  OBVIOUS
<1>3. ASSUME NEW a \in Admins, createSet(a)
      PROVE  FALSE
  <2>1. request[a].set # s
    BY <1>3 DEF createSet
  <2>2. part'[s] = part[s]
    BY <1>1, <1>3, <2>1 DEF createSet
  <2>3. QED
    BY <2>2
<1>4. ASSUME NEW a \in Admins, NEW t \in Sets,
             saveSetDraft(a, t) \/ \E j \in Kinds : saveDraft(a, t, j)
      PROVE  FALSE
  <2>1. Stored(t)
    BY <1>4 DEF saveSetDraft, saveDraft
  <2>2. RevisedPart(part[s][k]).active_revision = part[s][k].active_revision
    BY <1>1 DEF RevisedPart, PartRow
  <2>3. part'[s][k] = part[s][k] \/ part'[s][k] = RevisedPart(part[s][k])
    BY <1>1, <1>4 DEF saveSetDraft, saveDraft
  <2>4. QED
    BY <2>2, <2>3
<1>5. PICK a \in Admins : publishSet(a) \/ publish(a)
  BY <1>2, <1>3, <1>4 DEF Next, vars, Deploy, ReadHeader, ReadFooter, prepareHistorical,
     Abandon, ReadPart, Load, CreateReads, activateSet, missingPublications
<1>6. request[a].set \in Sets /\ request[a].kind \in Kinds
  BY <1>5 DEF publishSet, publish, SetsInvariant, TypeOK, RequestsAreSound, RequestIsSound,
     Request
<1>7. CASE publishSet(a)
  <2> DEFINE t == request[a].set
             parts == [j \in Kinds |-> PublishedPart(part[t][j])]
  <2>1. part' = [part EXCEPT ![t] = parts]
    BY <1>7 DEF publishSet
  <2>2. \A j \in Kinds : parts[j] = PublishedPart(part[t][j])
    OBVIOUS
  <2> HIDE DEF parts
  <2>3. t = s
    BY <1>1, <2>1
  <2>4. \A j \in Kinds : part'[s][j] = PublishedPart(part[s][j])
    BY <1>1, <2>1, <2>2, <2>3
  <2>5. QED
    BY <1>7, <2>3, <2>4 DEF publishSet
<1>8. CASE publish(a)
  <2> DEFINE t == request[a].set
             j == request[a].kind
             row == PublishedPart(part[t][j])
  <2>1. part' = [part EXCEPT ![t][j] = row]
    BY <1>8 DEF publish
  <2> HIDE DEF row
  <2>2. t = s /\ j = k
    BY <1>1, <2>1
  <2>3. part'[s][k] = row
    BY <1>1, <2>1, <2>2
  <2>4. part'[s][k] = PublishedPart(part[s][k])
    BY <2>2, <2>3 DEF row
  <2>5. QED
    BY <1>8, <2>2, <2>4 DEF publish
<1>9. QED
  BY <1>5, <1>7, <1>8
\* Only saves move a current revision, each with the lock versions of its screen.
LEMMA WhoSaves ==
  ASSUME SetsInvariant, [Next]_vars, NEW s \in Sets, Stored(s), NEW k \in Kinds,
         part'[s][k].current_revision # part[s][k].current_revision
  PROVE  \E a \in Admins : \A j \in Kinds :
           part'[s][j].current_revision # part[s][j].current_revision => assertLock(a, s, j)
<1>1. part \in [Sets -> [Kinds -> PartRow]]
  BY DEF SetsInvariant, TypeOK
<1>2. part' # part
  OBVIOUS
<1>3. ASSUME NEW a \in Admins, createSet(a)
      PROVE  FALSE
  <2>1. request[a].set # s
    BY <1>3 DEF createSet
  <2>2. part'[s] = part[s]
    BY <1>1, <1>3, <2>1 DEF createSet
  <2>3. QED
    BY <2>2
<1>4. ASSUME NEW a \in Admins, publishSet(a) \/ publish(a)
      PROVE  FALSE
  <2>1. PublishedPart(part[s][k]).current_revision = part[s][k].current_revision
    BY <1>1 DEF PublishedPart, PartRow
  <2>2. part'[s][k] = part[s][k] \/ part'[s][k] = PublishedPart(part[s][k])
    BY <1>1, <1>4 DEF publishSet, publish
  <2>3. QED
    BY <2>1, <2>2
<1>5. PICK a \in Admins, t \in Sets : saveSetDraft(a, t) \/ \E j \in Kinds : saveDraft(a, t, j)
  BY <1>2, <1>3, <1>4 DEF Next, vars, Deploy, ReadHeader, ReadFooter, prepareHistorical,
     Abandon, ReadPart, Load, CreateReads, activateSet, missingPublications
<1>6. CASE saveSetDraft(a, t)
  <2>1. t = s
    BY <1>1, <1>6 DEF saveSetDraft
  <2>2. QED
    BY <1>6, <2>1 DEF saveSetDraft
<1>7. ASSUME NEW j \in Kinds, saveDraft(a, t, j)
      PROVE  \A i \in Kinds : part'[s][i].current_revision # part[s][i].current_revision
                                => assertLock(a, s, i)
  <2> DEFINE row == RevisedPart(part[t][j])
  <2>1. part' = [part EXCEPT ![t][j] = row] /\ assertLock(a, t, j)
    BY <1>7 DEF saveDraft
  <2> HIDE DEF row
  <2>2. \A i \in Kinds : part'[s][i] # part[s][i] => t = s /\ i = j
    BY <1>1, <2>1
  <2>3. QED
    BY <2>1, <2>2
<1>8. QED
  BY <1>5, <1>6, <1>7

\* A part becomes public with the revision its publisher had on the screen, and a save
\* builds on the revision its author had there.
THEOREM WhatIsWrittenWasSeen == Spec => ActsOnWhatWasSeen
<1> DEFINE Published == \A s \in Sets, k \in Kinds :
             Stored(s) /\ part'[s][k].active_revision # part[s][k].active_revision =>
                \E a \in Admins : /\ request[a].set = s
                                  /\ request[a].seen[k] = part'[s][k].active_revision
           Saved == \A s \in Sets, k \in Kinds :
             Stored(s) /\ part'[s][k].current_revision # part[s][k].current_revision =>
                \E a \in Admins : /\ tab[a].set = s
                                  /\ \A j \in Kinds :
                                       part'[s][j].current_revision # part[s][j].current_revision
                                         => tab[a].revision[j] = part[s][j].current_revision
<1>1. SetsInvariant /\ [Next]_vars => [Published]_vars
  <2> SUFFICES ASSUME SetsInvariant, [Next]_vars, NEW s \in Sets, NEW k \in Kinds, Stored(s),
                      part'[s][k].active_revision # part[s][k].active_revision
               PROVE  \E a \in Admins : /\ request[a].set = s
                                        /\ request[a].seen[k] = part'[s][k].active_revision
    OBVIOUS
  <2>1. PICK a \in Admins :
          /\ request[a].set = s /\ request[a].step \in {"set", "part"}
          /\ Publishable(request[a], k) /\ part'[s][k] = PublishedPart(part[s][k])
    BY WhoPublishes
  <2>2. request[a].seen[k] = part[s][k].current_revision
    BY <2>1 DEF SetsInvariant, RequestsAreSound, RequestIsSound, Publishable
  <2>3. part[s][k] \in PartRow
    BY DEF SetsInvariant, TypeOK
  <2>4. PublishedPart(part[s][k]).active_revision = part[s][k].current_revision
    BY <2>3 DEF PublishedPart, PartRow
  <2>5. QED
    BY <2>1, <2>2, <2>4
<1>2. SetsInvariant /\ [Next]_vars => [Saved]_vars
  <2> SUFFICES ASSUME SetsInvariant, [Next]_vars, NEW s \in Sets, NEW k \in Kinds, Stored(s),
                      part'[s][k].current_revision # part[s][k].current_revision
               PROVE  \E a \in Admins : /\ tab[a].set = s
                                        /\ \A j \in Kinds :
                                             part'[s][j].current_revision # part[s][j].current_revision
                                               => tab[a].revision[j] = part[s][j].current_revision
    OBVIOUS
  <2>1. PICK a \in Admins : \A j \in Kinds :
           part'[s][j].current_revision # part[s][j].current_revision => assertLock(a, s, j)
    BY WhoSaves
  <2>2. tab[a].set = s
    BY <2>1 DEF assertLock
  <2>3. s # None
    BY SetsAssumption DEF SetsAssumption
  <2>4. \A j \in Kinds : assertLock(a, s, j) => tab[a].revision[j] = part[s][j].current_revision
    BY <2>2, <2>3 DEF assertLock, SetsInvariant, TabsAreSound, Holds
  <2>5. QED
    BY <2>1, <2>2, <2>4
<1>3. QED
  BY <1>1, <1>2, SetsAreSound, PTL
     DEF Spec, ActsOnWhatWasSeen, PublishesWhatWasSeen, SavesBuildOnWhatWasSeen

\* An element set is published whole: no request publishes one part of it.
THEOREM ElementSetsArePublishedWhole == Spec => ElementSetsPublishWhole
<1> DEFINE Whole == \A s \in Elements :
             (\E k \in Kinds : part'[s][k].active_revision # part[s][k].active_revision) =>
                \A k \in Kinds : part'[s][k].active_revision = part[s][k].current_revision
<1>1. SetsInvariant /\ [Next]_vars => [Whole]_vars
  <2> SUFFICES ASSUME SetsInvariant, [Next]_vars, NEW s \in Elements, NEW k \in Kinds,
                      part'[s][k].active_revision # part[s][k].active_revision,
                      NEW j \in Kinds
               PROVE  part'[s][j].active_revision = part[s][j].current_revision
    OBVIOUS
  <2>1. s \in Sets
    BY SetsAssumption DEF SetsAssumption
  <2>2. PartsMove
    BY TablesMove
  <2>3. Stored(s)
    <3>1. SUFFICES ASSUME ~Stored(s)
                   PROVE  FALSE
      OBVIOUS
    <3>2. part[s][k].active_revision = 0
      BY <2>1, <3>1 DEF SetsInvariant, RowsAreSound
    <3>3. part'[s] = part[s] \/ part'[s][k] = createPart(k)
      BY <2>1, <2>2, <3>1 DEF PartsMove
    <3>4. QED
      BY <3>2, <3>3 DEF createPart
  <2>4. PICK a \in Admins :
           /\ request[a].set = s /\ request[a].step \in {"set", "part"}
           /\ request[a].step = "set" => \A i \in Kinds : part'[s][i] = PublishedPart(part[s][i])
    BY <2>1, <2>3, WhoPublishes
  <2>5. request[a].step = "set"
    BY <2>4 DEF SetsInvariant, RequestsAreSound, RequestIsSound
  <2>6. part[s][j] \in PartRow
    BY <2>1 DEF SetsInvariant, TypeOK
  <2>7. PublishedPart(part[s][j]).active_revision = part[s][j].current_revision
    BY <2>6 DEF PublishedPart, PartRow
  <2>8. QED
    BY <2>4, <2>5, <2>7
<1>2. QED
  BY <1>1, SetsAreSound, PTL DEF Spec, ElementSetsPublishWhole
=============================================================================

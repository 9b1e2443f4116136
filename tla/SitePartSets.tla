---------------------------- MODULE SitePartSets ----------------------------
(***************************************************************************)
(* The named Header and Footer sets of one locale: g7pb_site_part_sets,    *)
(* g7pb_site_parts, g7pb_site_part_artifacts, the transactions of          *)
(* EloquentSitePartRepository, and SitePartService, which compiles a part  *)
(* before the transaction that publishes it. A revision is immutable, so   *)
(* its number stands for its content.                                      *)
(***************************************************************************)
EXTENDS Naturals, FiniteSets

CONSTANTS Sets,         \* set ids
          Elements,     \* the sets whose parts are element documents (v2)
          Admins,       \* administrators, one request each
          None,         \* SQL NULL
          MaxSets,      \* bound on the sets there are at one time
          MaxLock,      \* bound on lock_version
          MaxCompiler   \* bound on the compiler versions deployed

ASSUME SetsAssumption == /\ None \notin Sets
                         /\ Elements \subseteq Sets
                         /\ MaxSets \in Nat \ {0}
                         /\ MaxLock \in Nat \ {0, 1}
                         /\ MaxCompiler \in Nat \ {0}

VARIABLES sets,       \* g7pb_site_part_sets
          part,       \* g7pb_site_parts, a header and a footer for each set
          artifacts,  \* g7pb_site_part_artifacts, the set of rows
          compiler,   \* the compiler version deployed
          tab,        \* the set each administrator has on the screen
          request     \* the request each administrator has in flight

vars == <<sets, part, artifacts, compiler, tab, request>>
-----------------------------------------------------------------------------
Kinds == {"header", "footer"}

SetRow == [stored : BOOLEAN, is_active : BOOLEAN]

\* active_revision 0 is NULL: never published.
PartRow == [lock_version : 0 .. MaxLock, current_revision : 0 .. MaxLock,
            active_revision : 0 .. MaxLock]

ArtifactRow == [set : Sets, kind : Kinds, source_revision : 1 .. MaxLock,
                compiler_version : 1 .. MaxCompiler]

Tab == [set : Sets \cup {None}, lock_version : [Kinds -> 0 .. MaxLock],
        revision : [Kinds -> 0 .. MaxLock]]

\* "expects" and "seen" come with the request from the screen; "source" is what
\* the server read and compiles, with the compiler it was started with.
Request == [step     : {"idle", "creating", "header", "set", "part", "historical"},
            set      : Sets \cup {None},
            kind     : Kinds,
            first    : BOOLEAN,
            expects  : [Kinds -> 0 .. MaxLock],
            seen     : [Kinds -> 0 .. MaxLock],
            source   : [Kinds -> 0 .. MaxLock],
            compiler : 0 .. MaxCompiler]

Zero == [k \in Kinds |-> 0]

Idle == [step |-> "idle", set |-> None, kind |-> "header", first |-> FALSE,
         expects |-> Zero, seen |-> Zero, source |-> Zero, compiler |-> 0]

Stored(s) == sets[s].stored

HasArtifact(s, k) ==
    \E r \in artifacts : /\ r.set = s /\ r.kind = k
                         /\ r.source_revision = part[s][k].active_revision

\* Mutated: an artifact that exists is written again.
StorableAlways(s, k, revision, version) == TRUE

\* SitePartArtifactPort::store, for one part: the row of this revision is there
\* already and was compiled by this compiler, or it is not there.
Storable(s, k, revision, version) ==
    \A r \in artifacts :
        r.set = s /\ r.kind = k /\ r.source_revision = revision
            => r.compiler_version = version

ArtifactOf(s, k, revision, version) ==
    [set |-> s, kind |-> k, source_revision |-> revision, compiler_version |-> version]

\* The current revision becomes the active one; a part that has nothing new to
\* publish keeps its lock version.
PublishedPart(row) ==
    IF row.active_revision = row.current_revision THEN row
    ELSE [row EXCEPT !.active_revision = row.current_revision, !.lock_version = @ + 1]

RevisedPart(row) ==
    [row EXCEPT !.current_revision = @ + 1, !.lock_version = @ + 1]
-----------------------------------------------------------------------------
\* A fresh install, or a site whose Header and Footer were published before
\* there were sets and artifacts: the migrations made them the active set.
Init ==
    \E migrated \in SUBSET (Sets \ Elements) :
        /\ Cardinality(migrated) <= 1
        /\ sets = [s \in Sets |-> [stored    |-> s \in migrated,
                                   is_active |-> s \in migrated]]
        /\ part = [s \in Sets |-> [k \in Kinds |->
                    IF s \in migrated
                    THEN [lock_version |-> 2, current_revision |-> 1,
                          active_revision |-> 1]
                    ELSE [lock_version |-> 0, current_revision |-> 0,
                          active_revision |-> 0]]]
        /\ artifacts = {}
        /\ compiler = 1
        /\ tab = [a \in Admins |-> [set |-> None, lock_version |-> Zero,
                                    revision |-> Zero]]
        /\ request = [a \in Admins |-> Idle]

Load(a, s) ==
    /\ Stored(s)
    /\ tab' = [tab EXCEPT ![a] =
            [set |-> s, lock_version |-> [k \in Kinds |-> part[s][k].lock_version],
             revision |-> [k \in Kinds |-> part[s][k].current_revision]]]
    /\ UNCHANGED <<sets, part, artifacts, compiler, request>>

\* createSet looks, with a plain SELECT, for an active set of the locale.
\* Element sets never become active by themselves.
CreateReads(a, s) ==
    /\ request[a].step = "idle"
    /\ ~Stored(s)
    /\ Cardinality({t \in Sets : Stored(t) \/ \E b \in Admins : request[b].set = t}
                        \cup {s}) <= MaxSets
    /\ request' = [request EXCEPT ![a] = [Idle EXCEPT !.step = "creating", !.set = s,
            !.first = s \notin Elements /\ ~\E t \in Sets : sets[t].is_active]]
    /\ UNCHANGED <<sets, part, artifacts, compiler, tab>>

\* Mutated: the part is published as it is created; its columns stay NULL.
createPartPublished(k) ==
    [lock_version |-> 1, current_revision |-> 1, active_revision |-> 1]
createPartUnset(k) ==
    [lock_version |-> 1, current_revision |-> None, active_revision |-> None]

createPart(k) == [lock_version |-> 1, current_revision |-> 1, active_revision |-> 0]

\* Then it inserts the set and its two parts.
createSet(a) ==
    LET s == request[a].set
    IN  /\ request[a].step = "creating"
        /\ ~Stored(s)
        /\ sets' = [sets EXCEPT ![s] = [stored |-> TRUE, is_active |-> request[a].first]]
        /\ part' = [part EXCEPT ![s] = [k \in Kinds |-> createPart(k)]]
        /\ request' = [request EXCEPT ![a] = Idle]
        /\ UNCHANGED <<artifacts, compiler, tab>>

\* Mutated: the artifacts are not looked for.
activateSetUnprepared(a, s) ==
    /\ Stored(s)
    /\ \A k \in Kinds : part[s][k].active_revision # 0
    /\ sets' = [t \in Sets |-> [sets[t] EXCEPT !.is_active = (t = s)]]
    /\ UNCHANGED <<part, artifacts, compiler, tab, request>>

\* Locks the sets of the locale, not the parts.
activateSet(a, s) ==
    /\ Stored(s)
    /\ \A k \in Kinds : part[s][k].active_revision # 0 /\ HasArtifact(s, k)
    /\ sets' = [t \in Sets |-> [sets[t] EXCEPT !.is_active = (t = s)]]
    /\ UNCHANGED <<part, artifacts, compiler, tab, request>>
-----------------------------------------------------------------------------
(* Drafts *)

assertLock(a, s, k) == /\ tab[a].set = s
                       /\ tab[a].lock_version[k] = part[s][k].lock_version

saveDraft(a, s, k) ==
    /\ Stored(s)
    /\ assertLock(a, s, k)
    /\ part[s][k].lock_version < MaxLock
    /\ part' = [part EXCEPT ![s][k] = RevisedPart(@)]
    /\ UNCHANGED <<sets, artifacts, compiler, tab, request>>

\* Mutated: the lock version of the footer is not compared.
saveSetDraftByHeader(a, s) ==
    /\ Stored(s)
    /\ assertLock(a, s, "header")
    /\ \A k \in Kinds : part[s][k].lock_version < MaxLock
    /\ part' = [part EXCEPT ![s] = [k \in Kinds |-> RevisedPart(part[s][k])]]
    /\ UNCHANGED <<sets, artifacts, compiler, tab, request>>

\* Both parts or neither.
saveSetDraft(a, s) ==
    /\ Stored(s)
    /\ \A k \in Kinds : assertLock(a, s, k) /\ part[s][k].lock_version < MaxLock
    /\ part' = [part EXCEPT ![s] = [k \in Kinds |-> RevisedPart(part[s][k])]]
    /\ UNCHANGED <<sets, artifacts, compiler, tab, request>>
-----------------------------------------------------------------------------
(* Publication: read and compile, then compare and write *)

Requested(a, step, kind) ==
    [step |-> step, set |-> tab[a].set, kind |-> kind, first |-> FALSE,
     expects |-> tab[a].lock_version, seen |-> tab[a].revision,
     source |-> [Zero EXCEPT ![kind] = part[tab[a].set][kind].current_revision],
     compiler |-> compiler]

ReadHeader(a) ==
    /\ request[a].step = "idle"
    /\ tab[a].set # None
    /\ request' = [request EXCEPT ![a] = Requested(a, "header", "header")]
    /\ UNCHANGED <<sets, part, artifacts, compiler, tab>>

ReadFooter(a) ==
    /\ request[a].step = "header"
    /\ request' = [request EXCEPT ![a].step = "set",
            ![a].source["footer"] = part[request[a].set]["footer"].current_revision]
    /\ UNCHANGED <<sets, part, artifacts, compiler, tab>>

\* Mutated: what is published was compiled, but perhaps never shown.
PublishableUnseen(q, k) ==
    LET row == part[q.set][k]
    IN  /\ row.current_revision = q.source[k]
        /\ Storable(q.set, k, row.current_revision, q.compiler)
        /\ row.active_revision # row.current_revision => row.lock_version < MaxLock

\* The lock version the request expects, and the revision that was compiled.
Publishable(q, k) ==
    LET row == part[q.set][k]
    IN  /\ row.lock_version = q.expects[k]
        /\ row.current_revision = q.source[k]
        /\ Storable(q.set, k, row.current_revision, q.compiler)
        /\ row.active_revision # row.current_revision => row.lock_version < MaxLock

publishSet(a) ==
    LET q == request[a]
        s == q.set
    IN  /\ q.step = "set"
        /\ \A k \in Kinds : Publishable(q, k)
        /\ part' = [part EXCEPT ![s] = [k \in Kinds |-> PublishedPart(part[s][k])]]
        /\ artifacts' = artifacts \cup
                {ArtifactOf(s, k, part[s][k].current_revision, q.compiler) : k \in Kinds}
        /\ request' = [request EXCEPT ![a] = Idle]
        /\ UNCHANGED <<sets, compiler, tab>>

\* Mutated: an element part is published like an older one.
ReadAnyPart(a, k) ==
    /\ request[a].step = "idle"
    /\ tab[a].set # None
    /\ request' = [request EXCEPT ![a] = Requested(a, "part", k)]
    /\ UNCHANGED <<sets, part, artifacts, compiler, tab>>

\* One part alone. The service and the transaction both refuse element parts.
ReadPart(a, k) ==
    /\ request[a].step = "idle"
    /\ tab[a].set # None
    /\ tab[a].set \notin Elements
    /\ request' = [request EXCEPT ![a] = Requested(a, "part", k)]
    /\ UNCHANGED <<sets, part, artifacts, compiler, tab>>

publish(a) ==
    LET q == request[a]
        s == q.set
        k == q.kind
    IN  /\ q.step = "part"
        /\ Publishable(q, k)
        /\ part' = [part EXCEPT ![s][k] = PublishedPart(@)]
        /\ artifacts' = artifacts \cup
                {ArtifactOf(s, k, part[s][k].current_revision, q.compiler)}
        /\ request' = [request EXCEPT ![a] = Idle]
        /\ UNCHANGED <<sets, compiler, tab>>

\* A test fails, the compiler refuses the document, or the request dies.
Abandon(a) ==
    /\ request[a].step # "idle"
    /\ request' = [request EXCEPT ![a] = Idle]
    /\ UNCHANGED <<sets, part, artifacts, compiler, tab>>
-----------------------------------------------------------------------------
(* SitePartArtifactUpgrade: artifacts for what was published without one *)

missingPublications(a, s, k) ==
    /\ request[a].step = "idle"
    /\ part[s][k].active_revision # 0
    /\ ~HasArtifact(s, k)
    /\ request' = [request EXCEPT ![a] = [Idle EXCEPT
            !.step = "historical", !.set = s, !.kind = k,
            !.expects[k] = part[s][k].lock_version,
            !.source[k] = part[s][k].active_revision,
            !.compiler = compiler]]
    /\ UNCHANGED <<sets, part, artifacts, compiler, tab>>

prepareHistorical(a) ==
    LET q == request[a]
        row == part[q.set][q.kind]
    IN  /\ q.step = "historical"
        /\ row.active_revision = q.source[q.kind]
        /\ row.lock_version = q.expects[q.kind]
        /\ Storable(q.set, q.kind, row.active_revision, q.compiler)
        /\ artifacts' = artifacts \cup
                {ArtifactOf(q.set, q.kind, row.active_revision, q.compiler)}
        /\ request' = [request EXCEPT ![a] = Idle]
        /\ UNCHANGED <<sets, part, compiler, tab>>

\* A release with another compiler is deployed.
Deploy == /\ compiler < MaxCompiler
          /\ compiler' = compiler + 1
          /\ UNCHANGED <<sets, part, artifacts, tab, request>>
-----------------------------------------------------------------------------
Next ==
    \/ Deploy
    \/ \E a \in Admins :
         \/ createSet(a)
         \/ ReadHeader(a)
         \/ ReadFooter(a)
         \/ publishSet(a)
         \/ publish(a)
         \/ prepareHistorical(a)
         \/ Abandon(a)
         \/ \E k \in Kinds : ReadPart(a, k)
         \/ \E s \in Sets :
              \/ Load(a, s)
              \/ CreateReads(a, s)
              \/ activateSet(a, s)
              \/ saveSetDraft(a, s)
              \/ \E k \in Kinds : saveDraft(a, s, k) \/ missingPublications(a, s, k)

Spec == Init /\ [][Next]_vars
-----------------------------------------------------------------------------
(* What the public site shows *)

ActiveSets == {s \in Sets : sets[s].is_active}

\* findPublishedSet and PublicSiteShellController, one statement: the Header
\* and the Footer of the active set if there is exactly one and both are
\* compiled, and otherwise no shell.
Served(s) == ActiveSets = {s} /\ \A k \in Kinds : HasArtifact(s, k)
-----------------------------------------------------------------------------
(* Properties *)

TypeOK ==
    /\ sets \in [Sets -> SetRow]
    /\ part \in [Sets -> [Kinds -> PartRow]]
    /\ artifacts \subseteq ArtifactRow
    /\ compiler \in 1 .. MaxCompiler
    /\ tab \in [Admins -> Tab]
    /\ request \in [Admins -> Request]

\* No artifact is missing for what was published since there are artifacts,
\* whatever publish, publishSet, prepareHistorical and a new compiler do: only
\* the first revision of a migrated part can be without one.
PublishedIsCompiled ==
    \A s \in Sets, k \in Kinds :
        part[s][k].active_revision # 0 =>
            \/ HasArtifact(s, k)
            \/ /\ part[s][k].active_revision = 1
               /\ s \notin Elements /\ part[s][k].lock_version > 1

\* A revision has one artifact: to publish it again with a newer compiler is
\* refused, so a page of the old release never shows output of the new one.
ArtifactsAreImmutable ==
    \A r, q \in artifacts :
        r.set = q.set /\ r.kind = q.kind /\ r.source_revision = q.source_revision
            => r = q

\* What is public has its compiled artifact, the one it always had.
ArtifactsAreSound == PublishedIsCompiled /\ ArtifactsAreImmutable

\* A shell that is served stays served while administrators save, publish and
\* activate, and while a release is deployed. (Creating a set can take it away:
\* see OneActiveSet.)
ServedShellStays ==
    [][(\E s \in Sets : Served(s)) /\ (\A s \in Sets : sets'[s].stored = sets[s].stored)
         => (\E s \in Sets : Served(s))']_vars

\* A part becomes public with the revision its publisher had on the screen: a
\* draft another administrator saved meanwhile is not published along.
PublishesWhatWasSeen ==
    [][\A s \in Sets, k \in Kinds :
         Stored(s) /\ part'[s][k].active_revision # part[s][k].active_revision =>
            \E a \in Admins : /\ request[a].set = s
                              /\ request[a].seen[k] = part'[s][k].active_revision]_vars

\* A save of a part builds on the revision its author had on the screen, for
\* both parts of a set at once too.
SavesBuildOnWhatWasSeen ==
    [][\A s \in Sets, k \in Kinds :
         Stored(s) /\ part'[s][k].current_revision # part[s][k].current_revision =>
            \E a \in Admins : /\ tab[a].set = s
                              /\ \A j \in Kinds :
                                   part'[s][j].current_revision # part[s][j].current_revision
                                     => tab[a].revision[j] = part[s][j].current_revision]_vars

\* Publications and saves act on what their author saw.
ActsOnWhatWasSeen == PublishesWhatWasSeen /\ SavesBuildOnWhatWasSeen

\* An element set is published whole: Header and Footer go public together,
\* each with its current revision.
ElementSetsPublishWhole ==
    [][\A s \in Elements :
         (\E k \in Kinds : part'[s][k].active_revision # part[s][k].active_revision) =>
            \A k \in Kinds :
                part'[s][k].active_revision = part[s][k].current_revision]_vars

\* A locale has at most one active set: findPublishedSet counts on it.
OneActiveSet == Cardinality(ActiveSets) <= 1
=============================================================================

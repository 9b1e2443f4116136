-------------------------- MODULE StructurePartPair --------------------------
(***************************************************************************)
(* The precise editor of a Header and a Footer: StructureSitePartHost and  *)
(* the SitePartPairEditor it mounts, two StructureEditors that are saved   *)
(* one by one and published together, and SitePartRecovery, against a      *)
(* server that another administrator writes to. "Another set" is modelled  *)
(* as opening the same set anew.                                           *)
(***************************************************************************)
EXTENDS Naturals, FiniteSets

CONSTANTS PartDocs,     \* documents of a part
          FirstPartDoc, \* the document both parts start from
          MaxPartLock,  \* bound on a lock version
          MaxPartEdits  \* bound on the edits of a part in one session

ASSUME StructurePartPairAssumption ==
    FirstPartDoc \in PartDocs /\ MaxPartLock \in Nat \ {0} /\ MaxPartEdits \in Nat

VARIABLES pairServer,  \* the two rows of the set
          pairHost,    \* StructureSitePartHost
          pairEditor,  \* the SitePartPairEditor that is mounted
          partCalls    \* its requests, and those of the ones before it

pairVars == <<pairServer, pairHost, pairEditor, partCalls>>
-----------------------------------------------------------------------------
PartKinds == {"header", "footer"}
NoPartDoc == "no document"
OptionalDoc == PartDocs \cup {NoPartDoc}
PairLocks == 0 .. MaxPartLock

\* active: the lock version the published revision was saved with, 0 for none.
PartRow == [lock : PairLocks, draft : PartDocs, live : OptionalDoc, active : PairLocks]

\* lock and active are of live.current.pair, token of the StructureEditor.
PartEditor == [lock : PairLocks, active : PairLocks, token : PairLocks, doc : PartDocs,
               edits : 0 .. MaxPartEdits, dirty : BOOLEAN, pending : BOOLEAN]

PairEditor == [parts : [PartKinds -> PartEditor], shown : PartKinds, preview : BOOLEAN,
               busy : BOOLEAN]

\* One call of each kind of request: the lock versions it sends, what it writes
\* and what was known of the publication.
PartCall == [kind : {"save", "publish", "restore"}, part : PartKinds, mine : BOOLEAN,
             at : {"sent", "answered"}, locks : [PartKinds -> PairLocks], doc : OptionalDoc,
             edits : 0 .. MaxPartEdits, active : PairLocks,
             answer : [PartKinds -> [lock : PairLocks, active : PairLocks]]]

NoLocks == [k \in PartKinds |-> 0]
NoAnswer == [k \in PartKinds |-> [lock |-> 0, active |-> 0]]

Parts == pairEditor.parts

\* The StructureEditor of a part is readonly.
PartReadonly(k) == \/ pairHost = "loading" \/ pairEditor.busy \/ pairEditor.preview
                   \/ pairEditor.shown # k

MyPartCalls == {c \in partCalls : c.mine}

\* The editor with another state of a part.
WithPart(k, part) == [pairEditor EXCEPT !.parts = [Parts EXCEPT ![k] = part]]

AnyPending == \E k \in PartKinds : Parts[k].pending
-----------------------------------------------------------------------------
PairInit ==
    /\ pairServer = [k \in PartKinds |-> [lock |-> 1, draft |-> FirstPartDoc,
                                          live |-> NoPartDoc, active |-> 0]]
    /\ pairHost = "loading"
    /\ pairEditor = [parts |-> [k \in PartKinds |->
                         [lock |-> 0, active |-> 0, token |-> 0, doc |-> FirstPartDoc,
                          edits |-> 0, dirty |-> FALSE, pending |-> FALSE]],
                     shown |-> "header", preview |-> FALSE, busy |-> FALSE]
    /\ partCalls = {}

\* The pair editor mounts on the parts the server has (both are read at once).
OpenedPair ==
    [parts |-> [k \in PartKinds |->
        [lock |-> pairServer[k].lock, active |-> pairServer[k].active,
         token |-> pairServer[k].lock, doc |-> pairServer[k].draft, edits |-> 0,
         dirty |-> FALSE, pending |-> FALSE]],
     shown |-> "header", preview |-> FALSE, busy |-> FALSE]

\* load() answers; a failure leaves the pair that was open where it is. Nobody
\* hears the answers to an editor that is gone, and a save or a restoration of
\* it that still arrives is one of OtherSavesPart.
PairLoaded ==
    /\ pairHost = "loading"
    /\ pairHost' = "open"
    /\ \/ /\ pairEditor' = OpenedPair
          /\ partCalls' = {[c EXCEPT !.mine = FALSE] : 
                                 c \in {o \in partCalls : o.kind = "publish" /\ o.at = "sent"}}
       \/ Parts["header"].lock # 0 /\ UNCHANGED <<pairEditor, partCalls>>
    /\ UNCHANGED pairServer

\* select(): another set is loaded, after a question when there is unsaved work.
SelectPair ==
    /\ pairHost = "open" /\ partCalls = MyPartCalls
    /\ pairHost' = "loading"
    /\ UNCHANGED <<pairServer, pairEditor, partCalls>>

ShowPart(k) ==
    /\ pairHost = "open" /\ ~pairEditor.busy /\ ~AnyPending
    /\ k # pairEditor.shown \/ pairEditor.preview
    /\ pairEditor' = [pairEditor EXCEPT !.shown = k, !.preview = FALSE]
    /\ UNCHANGED <<pairServer, pairHost, partCalls>>

\* The one button that is never disabled.
TogglePairPreview ==
    /\ pairHost = "open"
    /\ pairEditor' = [pairEditor EXCEPT !.preview = ~@]
    /\ UNCHANGED <<pairServer, pairHost, partCalls>>

ChangePart(k, d) ==
    /\ ~PartReadonly(k) /\ d # Parts[k].doc /\ Parts[k].edits < MaxPartEdits
    /\ pairEditor' = WithPart(k, [Parts[k] EXCEPT !.doc = d, !.edits = @ + 1, !.dirty = TRUE])
    /\ UNCHANGED <<pairServer, pairHost, partCalls>>

CallOf(kind, k, doc, active, locks) ==
    [kind |-> kind, part |-> k, mine |-> TRUE, at |-> "sent", doc |-> doc, locks |-> locks,
     edits |-> Parts[k].edits, active |-> active, answer |-> NoAnswer]

\* drafts[kind].save: with the token of its editor.
SavePart(k) ==
    /\ ~PartReadonly(k) /\ ~Parts[k].pending
    /\ pairEditor' = WithPart(k, [Parts[k] EXCEPT !.pending = TRUE])
    /\ partCalls' = partCalls \cup
          {CallOf("save", k, Parts[k].doc, 0, [NoLocks EXCEPT ![k] = Parts[k].token])}
    /\ UNCHANGED <<pairServer, pairHost>>

\* Mutated: the part that is shown is clean.
MayPublishShown == ~Parts[pairEditor.shown].dirty /\ ~AnyPending

\* Neither part has changes, neither is being saved.
MayPublishPair == ~AnyPending /\ \A k \in PartKinds : ~Parts[k].dirty

\* operate("publish"), with the lock versions of both parts. operate("activate")
\* waits in the same way and changes neither part.
PublishPair ==
    /\ pairHost = "open" /\ ~pairEditor.busy /\ MayPublishPair
    /\ pairEditor' = [pairEditor EXCEPT !.busy = TRUE]
    /\ partCalls' = partCalls \cup
          {CallOf("publish", "header", NoPartDoc, 0, [k \in PartKinds |-> Parts[k].lock])}
    /\ UNCHANGED <<pairServer, pairHost>>

\* A revision of the part that is shown is chosen and confirmed. The editors are
\* readonly until its answer; the preview can still be opened and closed.
RestorePart(d) ==
    LET k == pairEditor.shown
    IN  /\ ~PartReadonly(k) /\ ~AnyPending /\ ~Parts[k].dirty
        /\ pairEditor' = [pairEditor EXCEPT !.busy = TRUE]
        /\ partCalls' = partCalls \cup
              {CallOf("restore", k, d, Parts[k].active, [NoLocks EXCEPT ![k] = Parts[k].lock])}
        /\ UNCHANGED <<pairServer, pairHost>>
-----------------------------------------------------------------------------
(* The server *)

\* Mutated: only the part that is named first is compared.
PartAcceptsHeader(c, k) ==
    /\ k = "header" => c.locks[k] = pairServer[k].lock
    /\ pairServer[k].lock < MaxPartLock

PartAccepts(c, k) == c.locks[k] = pairServer[k].lock /\ pairServer[k].lock < MaxPartLock

PartSaved(row, d) == [row EXCEPT !.lock = @ + 1, !.draft = d]

\* A part that has nothing new keeps its version.
PartPublished(row) == IF row.live = row.draft THEN row
                      ELSE [row EXCEPT !.lock = @ + 1, !.live = row.draft, !.active = row.lock]

HandlePartCall(c) ==
    /\ c \in partCalls /\ c.at = "sent"
    /\ \/ /\ c.kind # "publish" /\ PartAccepts(c, c.part)
          /\ pairServer' = [pairServer EXCEPT ![c.part] = PartSaved(@, c.doc)]
       \/ /\ c.kind = "publish" /\ \A k \in PartKinds : PartAccepts(c, k)
          /\ pairServer' = [k \in PartKinds |-> PartPublished(pairServer[k])]
       \/ UNCHANGED pairServer
    /\ \E answered \in BOOLEAN :
         /\ answered => pairServer' # pairServer
         /\ partCalls' = (partCalls \ {c}) \cup
               {[o EXCEPT !.at = "answered",
                    !.answer = IF ~answered THEN NoAnswer ELSE
                        [k \in PartKinds |-> [lock |-> pairServer'[k].lock,
                                              active |-> pairServer'[k].active]]] : o \in {c} \cap MyPartCalls}
    /\ UNCHANGED <<pairHost, pairEditor>>

CallSucceeded(c) == c.answer # NoAnswer
-----------------------------------------------------------------------------
(* Answers *)

\* Mutated: an editor keeps the token of its own last save.
TokenOfSaves(token, lock) == token

\* Mutated: the token is the version after the one of the answer.
TokenAhead(token, lock) == lock + 1

\* The effect on serverRevision: the greater of the two.
TokenAfter(token, lock) == IF lock > token THEN lock ELSE token

WithLock(part, lock) == [part EXCEPT !.lock = lock, !.token = TokenAfter(@, lock)]

\* Mutated: the answer of a save is about what is in the editor.
PartCleanAlways(c, part) == FALSE

\* Readonly meanwhile, the session reports it stale: changed as before.
PartDirtyAfter(c, part) ==
    IF PartReadonly(c.part) THEN part.dirty ELSE part.edits # c.edits

\* Mutated: the end of a failed save is not noticed.
PartStillPending(part) == part

\* finally: the part is not pending any more.
PartFailed(part) == [part EXCEPT !.pending = FALSE]

PartSaveAnswered(c) ==
    /\ c \in partCalls /\ c.at = "answered" /\ c.kind = "save"
    /\ partCalls' = partCalls \ {c}
    /\ pairEditor' = WithPart(c.part,
          IF CallSucceeded(c)
          THEN [WithLock(Parts[c.part], c.answer[c.part].lock) EXCEPT
                    !.dirty = PartDirtyAfter(c, Parts[c.part]), !.pending = FALSE]
          ELSE PartFailed(Parts[c.part]))
    /\ UNCHANGED <<pairServer, pairHost>>

\* The response has to show both parts published as they were asked for.
PartPublishAnswered(c) ==
    /\ c \in partCalls /\ c.at = "answered" /\ c.kind = "publish"
    /\ partCalls' = partCalls \ {c}
    /\ pairEditor' = [pairEditor EXCEPT
          !.busy = FALSE,
          !.parts = IF CallSucceeded(c)
                    THEN [k \in PartKinds |->
                            [WithLock(Parts[k], c.answer[k].lock) EXCEPT
                                !.active = c.answer[k].active]]
                    ELSE @]
    /\ UNCHANGED <<pairServer, pairHost>>

\* same(context, read()), and the publication is the one that was known.
Restored(c) == /\ ~pairEditor.preview /\ pairEditor.shown = c.part /\ pairHost = "open"
               /\ ~Parts[c.part].dirty /\ Parts[c.part].lock = c.locks[c.part]
               /\ Parts[c.part].active = c.active

\* The editor of the part mounts anew on the restored document; the other part
\* keeps its changes and its history.
PartRestoreAnswered(c) ==
    /\ c \in partCalls /\ c.at = "answered" /\ c.kind = "restore"
    /\ partCalls' = partCalls \ {c}
    /\ pairEditor' = [WithPart(c.part,
             IF CallSucceeded(c) /\ c.active = c.answer[c.part].active /\ Restored(c)
             THEN [Parts[c.part] EXCEPT !.lock = c.answer[c.part].lock,
                                        !.token = c.answer[c.part].lock,
                                        !.doc = c.doc, !.dirty = FALSE]
             ELSE Parts[c.part]) EXCEPT !.busy = FALSE]
    /\ UNCHANGED <<pairServer, pairHost>>
-----------------------------------------------------------------------------
OtherSavesPart(k, d) ==
    /\ pairServer[k].lock < MaxPartLock - 1 /\ d # pairServer[k].draft
    /\ pairServer' = [pairServer EXCEPT ![k] = PartSaved(@, d)]
    /\ UNCHANGED <<pairHost, pairEditor, partCalls>>

PairAnswers(c) == PartSaveAnswered(c) \/ PartPublishAnswered(c) \/ PartRestoreAnswered(c)

PairNext ==
    \/ PairLoaded \/ SelectPair \/ TogglePairPreview \/ PublishPair
    \/ \E k \in PartKinds : ShowPart(k) \/ SavePart(k)
    \/ \E d \in PartDocs : \/ RestorePart(d)
                           \/ \E k \in PartKinds : ChangePart(k, d) \/ OtherSavesPart(k, d)
    \/ \E c \in partCalls : HandlePartCall(c) \/ PairAnswers(c)

PairSpec == PairInit /\ [][PairNext]_pairVars

\* Requests are answered or fail.
PairFairness == /\ WF_pairVars(PairLoaded)
                /\ WF_pairVars(\E c \in partCalls : HandlePartCall(c) \/ PairAnswers(c))
-----------------------------------------------------------------------------
(* Properties *)

\* Every variable keeps its type.
PairTypeOK == /\ pairServer \in [PartKinds -> PartRow] /\ pairHost \in {"loading", "open"}
              /\ pairEditor \in PairEditor /\ partCalls \subseteq PartCall

\* "초안 저장됨": a part without changes is the draft of the server, while nobody
\* else has written it, whatever was saved, published, restored or previewed in
\* between (SitePartPairEditor status).
CleanPartsAreStored ==
    \A k \in PartKinds :
        Parts[k].lock # 0 /\ ~Parts[k].dirty /\ Parts[k].lock = pairServer[k].lock
            => Parts[k].doc = pairServer[k].draft

\* "Header·Footer 함께 발행" of the pair that is open makes public both documents
\* that are on the screen at that moment, and neither alone.
PublishesBothScreens ==
    [][\A c \in partCalls :
          c.mine /\ c.kind = "publish" /\ HandlePartCall(c) /\ pairServer' # pairServer
              => \A k \in PartKinds : pairServer'[k].live = Parts[k].doc]_pairVars

\* The next save of a part sends the newest lock version this page was told, by
\* whichever operation: no conflict with oneself.
TokensAreNewest == \A k \in PartKinds : Parts[k].token = Parts[k].lock

\* Nothing is written over the work of another administrator: a request of this
\* page changes a draft only from the version the page was told of.
PartsAreCompared ==
    [][\A c \in partCalls, k \in PartKinds :
          HandlePartCall(c) /\ pairServer'[k] # pairServer[k]
              => c.locks[k] = pairServer[k].lock]_pairVars

\* Neither part stays readonly or pending for good.
PairSettles == /\ []<>(~pairEditor.busy)
               /\ \A k \in PartKinds : []<>(~Parts[k].pending)
=============================================================================

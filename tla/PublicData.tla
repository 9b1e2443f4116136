----------------------------- MODULE PublicData -----------------------------
(***************************************************************************)
(* A block of a public page that shows data of the site: publicDataRuntime *)
(* with its controls, under the page's runtime that boots it whenever the  *)
(* host replaces or changes the page's markup, and again when the session  *)
(* of the visitor changes. DOM records wait in "records" until the mutation *)
(* observer runs; an answer that comes first takes them itself (flush).    *)
(***************************************************************************)
EXTENDS Naturals, FiniteSets, Sequences

CONSTANTS Blocks,       \* nodes of the document that can be the block
          Inputs,       \* values of the attributes a block is read from
          MembersOnly,  \* the ones that ask for a member
          MaxSessions,  \* bound on the session changes that are announced
          MaxDomEdits,  \* bound on the changes of the document
          MaxJobs       \* bound on the requests for data

ASSUME PublicDataAssumption ==
    /\ MembersOnly \subseteq Inputs
    /\ MaxSessions \in Nat /\ MaxDomEdits \in Nat /\ MaxJobs \in Nat \ {0}

VARIABLES visitor,      \* who the browser's session is of
          block,        \* the block as it is in the document
          dataRuntime,  \* the DataRuntime of the document and its DataState
          dataJobs      \* loadBlock calls that wait for an answer

publicDataVars == <<visitor, block, dataRuntime, dataJobs>>
-----------------------------------------------------------------------------
Audiences == {"guest", "member"}

\* Two rows come in an answer; the search of the archive finds the first only.
AllRows == <<"first", "second">>
Queries == {"everything", "first only"}
Matching(query) == IF query = "everything" THEN AllRows ELSE <<"first">>

\* Every page of the list has one row.
RowsOn(query, page) == {Matching(query)[page]}
PageCount(query) == Len(Matching(query))

NoContent == [inputs |-> "none", session |-> 0]
Contents == {NoContent} \cup [inputs : Inputs, session : 0 .. MaxSessions]

\* records: for the observer of the data runtime. due: the page's own observer has
\* them too. query: what the search field of the block holds. visible: the rows not hidden.
Block == [node : Blocks, inputs : Inputs, edits : 0 .. MaxDomEdits,
          records : SUBSET {"removed", "attributes", "controls"}, due : BOOLEAN,
          shows : Contents, hidden : BOOLEAN, busy : BOOLEAN, ready : BOOLEAN,
          query : Queries, visible : SUBSET {"first", "second"}]

\* The state of the block: inputs as they were read, rows once they are there,
\* the page its pagination is on. Job 0: the block has no state.
DataState == [job : 0 .. MaxJobs, node : Blocks, inputs : Inputs, rows : BOOLEAN,
              controls : BOOLEAN, page : 1 .. 2]
DataRuntime == [session : 0 .. MaxSessions, jobs : 0 .. MaxJobs, state : DataState]

DataJob == [id : 1 .. MaxJobs, inputs : Inputs, session : 0 .. MaxSessions,
            at : {"audience", "data"}]

NoDataState(state) == state.job = 0
-----------------------------------------------------------------------------
\* What a pass over the block leaves.
Pass == [block |-> block, state |-> dataRuntime.state, session |-> dataRuntime.session,
         last |-> dataRuntime.jobs, jobs |-> dataJobs]

NoState(state) == [state EXCEPT !.job = 0, !.rows = FALSE, !.controls = FALSE]

\* Mutated: aria-busy is left to the answer.
RetiredBusy(pass) == [pass EXCEPT !.block = [pass.block EXCEPT !.ready = FALSE],
                                  !.state = NoState(pass.state)]

\* retireData: the rows stay on the screen, nobody is waiting for new ones.
RetiredData(pass) == [pass EXCEPT !.block = [pass.block EXCEPT !.busy = FALSE, !.ready = FALSE],
                                  !.state = NoState(pass.state)]

\* Mutated: a block is the same while its node is in the document.
ChangedByNode(pass) == pass.state.node # pass.block.node

\* The node was taken out (and perhaps put back), or an attribute was written.
ChangedData(pass) == \/ pass.state.node # pass.block.node
                     \/ pass.block.records \cap {"removed", "attributes"} # {}
                     \/ pass.state.inputs # pass.block.inputs

\* reconcile, with the records that wait.
Reconciled(pass) ==
    LET seen == [pass EXCEPT !.block = [pass.block EXCEPT !.records = {}]]
    IN  IF NoDataState(pass.state) THEN seen
        ELSE IF ChangedData(pass) THEN RetiredData(seen)
        ELSE IF "controls" \in pass.block.records
             THEN [seen EXCEPT !.state = [pass.state EXCEPT !.controls = FALSE]]
        ELSE seen

\* connectArchive: the first page of what the search field asks for.
ConnectedArchive(pass) ==
    IF ~pass.state.rows \/ pass.state.controls THEN pass
    ELSE [pass EXCEPT !.state = [pass.state EXCEPT !.controls = TRUE, !.page = 1],
                      !.block = [pass.block EXCEPT !.visible = RowsOn(pass.block.query, 1)]]

\* bootDynamicData: a state that is there keeps its request.
BootedData(pass) ==
    LET id == pass.last + 1
        asks == pass.block.inputs \in MembersOnly
        job == [id |-> id, inputs |-> pass.block.inputs, session |-> pass.session,
                at |-> IF asks THEN "audience" ELSE "data"]
    IN  IF ~NoDataState(pass.state) THEN ConnectedArchive(pass)
        ELSE [pass EXCEPT
                !.last = id,
                !.state = [job |-> id, node |-> pass.block.node, inputs |-> pass.block.inputs,
                           rows |-> FALSE, controls |-> FALSE, page |-> 1],
                !.jobs = pass.jobs \cup {job},
                !.block = IF asks THEN pass.block
                          ELSE [pass.block EXCEPT !.hidden = FALSE, !.busy = TRUE]]

Takes(pass) ==
    /\ block' = pass.block /\ dataJobs' = pass.jobs
    /\ dataRuntime' = [session |-> pass.session, jobs |-> pass.last, state |-> pass.state]

\* A boot may need one more request.
JobsLeft == dataRuntime.jobs < MaxJobs
-----------------------------------------------------------------------------
FreshBlock(n, i) == [node |-> n, inputs |-> i, edits |-> 0, records |-> {}, due |-> FALSE,
                     shows |-> NoContent, hidden |-> FALSE, busy |-> FALSE, ready |-> FALSE,
                     query |-> "everything", visible |-> {}]

\* The page after startPageEffects has booted it.
PublicDataInit ==
    /\ visitor \in Audiences
    /\ \E n \in Blocks, i \in Inputs :
          LET booted == BootedData(
                  [block |-> FreshBlock(n, i), session |-> 0, last |-> 0, jobs |-> {},
                   state |-> [job |-> 0, node |-> n, inputs |-> i, rows |-> FALSE,
                              controls |-> FALSE, page |-> 1]])
          IN  /\ block = booted.block /\ dataJobs = booted.jobs
              /\ dataRuntime = [session |-> 0, jobs |-> booted.last, state |-> booted.state]

MayEdit == block.edits < MaxDomEdits

\* The host renders the page anew: another node, as it was compiled.
HostReplacesBlock(n, i) ==
    /\ MayEdit /\ n # block.node
    /\ block' = [FreshBlock(n, i) EXCEPT !.edits = block.edits + 1, !.records = {"removed"},
                                         !.due = TRUE]
    /\ UNCHANGED <<visitor, dataRuntime, dataJobs>>

\* The host moves the node: it is taken out and put back with what it shows.
HostMovesBlock ==
    /\ MayEdit
    /\ block' = [block EXCEPT !.edits = @ + 1, !.records = @ \cup {"removed"}, !.due = TRUE]
    /\ UNCHANGED <<visitor, dataRuntime, dataJobs>>

HostWritesInputs(i) ==
    /\ MayEdit
    /\ block' = [block EXCEPT !.edits = @ + 1, !.inputs = i,
                              !.records = @ \cup {"attributes"}, !.due = TRUE]
    /\ UNCHANGED <<visitor, dataRuntime, dataJobs>>

HostReplacesControls ==
    /\ MayEdit
    /\ block' = [block EXCEPT !.edits = @ + 1, !.query = "everything",
                              !.records = @ \cup {"controls"}, !.due = TRUE]
    /\ UNCHANGED <<visitor, dataRuntime, dataJobs>>

\* The observers run: the data runtime reconciles, the page's boots everything.
ObserversRun ==
    /\ block.due /\ JobsLeft
    /\ LET seen == Reconciled(Pass)
       IN  Takes(BootedData([seen EXCEPT !.block = [seen.block EXCEPT !.due = FALSE]]))
    /\ UNCHANGED visitor

\* Somebody logs in or out, here or in another tab.
SessionChanges(who) ==
    /\ who # visitor
    /\ visitor' = who
    /\ UNCHANGED <<block, dataRuntime, dataJobs>>

\* Mutated: the page is booted for the new session, the old state is kept.
DisposedKept(pass) == [pass EXCEPT !.session = pass.session + 1]

\* disposePublicDataRuntime
DisposedData(pass) ==
    RetiredData([pass EXCEPT !.session = pass.session + 1,
                             !.block = [pass.block EXCEPT !.records = {}]])

\* sessionChanged: the data runtime is disposed of and booted for the new session.
SessionAnnounced ==
    /\ dataRuntime.session < MaxSessions /\ JobsLeft
    /\ Takes(BootedData(DisposedData(Pass)))
    /\ UNCHANGED visitor
-----------------------------------------------------------------------------
\* dataCurrent: after a flush the job is still the one of the block.
DataCurrent(j, pass) == pass.state.job = j.id

WithoutJob(j) == [Pass EXCEPT !.jobs = dataJobs \ {j}]

\* visitorAudience answers: no answer is a guest.
AudienceAnswered(j, who) ==
    LET pass == Reconciled(WithoutJob(j))
    IN  /\ j \in dataJobs /\ j.at = "audience" /\ who \in {visitor, "guest"}
        /\ Takes(IF ~DataCurrent(j, pass) THEN pass
                 ELSE IF who # "member"
                 THEN [pass EXCEPT !.block = [pass.block EXCEPT !.hidden = TRUE, !.ready = TRUE]]
                 ELSE [pass EXCEPT !.block = [pass.block EXCEPT !.hidden = FALSE, !.busy = TRUE],
                                   !.jobs = pass.jobs \cup {[j EXCEPT !.at = "data"]}])
        /\ UNCHANGED visitor

\* The rows are rendered, the controls are connected to them.
Rendered(j, pass) ==
    [pass EXCEPT !.block = [pass.block EXCEPT !.shows = [inputs |-> j.inputs, session |-> j.session],
                                              !.busy = FALSE, !.ready = TRUE],
                 !.state = [pass.state EXCEPT !.rows = TRUE]]

DataAnswered(j) ==
    LET pass == Reconciled(WithoutJob(j))
    IN  /\ j \in dataJobs /\ j.at = "data"
        /\ Takes(IF DataCurrent(j, pass) THEN ConnectedArchive(Rendered(j, pass)) ELSE pass)
        /\ UNCHANGED visitor

\* The request fails, or its answer cannot be rendered: an empty list and a message.
Apologized(pass) ==
    [pass EXCEPT !.block = [pass.block EXCEPT !.shows = NoContent, !.visible = {},
                                              !.busy = FALSE, !.ready = TRUE]]

DataFailed(j) ==
    LET pass == Reconciled(WithoutJob(j))
    IN  /\ j \in dataJobs /\ j.at = "data"
        /\ Takes(IF DataCurrent(j, pass) THEN Apologized(pass) ELSE pass)
        /\ UNCHANGED visitor

\* apply of the archive's filters: the first page of what matches.
Search(query) ==
    /\ dataRuntime.state.controls /\ "controls" \notin block.records /\ query # block.query
    /\ block' = [block EXCEPT !.query = query, !.visible = RowsOn(query, 1)]
    /\ dataRuntime' = [dataRuntime EXCEPT !.state.page = 1]
    /\ UNCHANGED <<visitor, dataJobs>>

\* nextPage and previousPage: their buttons are disabled at the ends of the list.
TurnPage(page) ==
    /\ dataRuntime.state.controls /\ "controls" \notin block.records
    /\ page \in 1 .. PageCount(block.query)
    /\ dataRuntime.state.page \in {page - 1, page + 1}
    /\ block' = [block EXCEPT !.visible = RowsOn(block.query, page)]
    /\ dataRuntime' = [dataRuntime EXCEPT !.state.page = page]
    /\ UNCHANGED <<visitor, dataJobs>>
-----------------------------------------------------------------------------
DataAnswers(j) == \/ DataAnswered(j) \/ DataFailed(j)
                  \/ \E who \in Audiences : AudienceAnswered(j, who)

PublicDataNext ==
    \/ HostMovesBlock \/ HostReplacesControls \/ ObserversRun \/ SessionAnnounced
    \/ \E page \in 1 .. 2 : TurnPage(page)
    \/ \E n \in Blocks, i \in Inputs : HostReplacesBlock(n, i)
    \/ \E i \in Inputs : HostWritesInputs(i)
    \/ \E who \in Audiences : SessionChanges(who)
    \/ \E q \in Queries : Search(q)
    \/ \E j \in dataJobs : DataAnswers(j)

\* Observers run and requests end.
PublicDataFairness == /\ WF_publicDataVars(ObserversRun)
                      /\ WF_publicDataVars(\E j \in dataJobs : DataAnswers(j))

PublicDataSpec == PublicDataInit /\ [][PublicDataNext]_publicDataVars /\ PublicDataFairness
-----------------------------------------------------------------------------
(* Properties *)

\* Every variable keeps its type.
PublicDataTypeOK == /\ visitor \in Audiences /\ block \in Block
                    /\ dataRuntime \in DataRuntime /\ dataJobs \subseteq DataJob

\* A block that says it is ready and is not hidden shows what was asked for with
\* the attributes it has, in the session the page knows of, or a message: never a
\* late answer about other attributes or for another visitor; and the rows that
\* its controls ask for, one page of them (data-g7pb-data-ready).
ReadyIsCurrent ==
    block.ready /\ ~block.hidden /\ ~block.due =>
        /\ ~block.busy
        /\ block.shows = NoContent \/ block.shows = [inputs |-> block.inputs,
                                                     session |-> dataRuntime.session]
        /\ dataRuntime.state.controls =>
              block.visible = RowsOn(block.query, dataRuntime.state.page)

AtRest == block.ready /\ ~block.busy

\* Whatever the host does to the page, the block comes to an end: ready, and not
\* waiting for an answer that nobody takes.
DataSettles == <>[]AtRest
=============================================================================

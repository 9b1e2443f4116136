------------------------ MODULE PublicScreensProofs ------------------------
(***************************************************************************)
(* The screens of MCPublicScreens keep what their components promise. Each *)
(* component has an invariant that its steps keep (first the lemmas about  *)
(* its helpers, then one for each handler); the last section puts them     *)
(* together, since a step of the browser is a step of one component.       *)
(***************************************************************************)
EXTENDS MCPublicScreens, SequenceTheorems, TLAPS
-----------------------------------------------------------------------------
(***************************************************************************)
(* Public data blocks.                                                       *)
(* A request is of the state that started it, and nothing is shown before its *)
(* answer: ReadyIsCurrent alone does not say what an answer on its way will find. *)
(* The invariant is said of every pass, since a handler runs several helpers. *)
(***************************************************************************)

Passes == [block : Block, state : DataState, session : 0 .. MaxSessions, last : 0 .. MaxJobs,
           jobs : SUBSET DataJob]

\* A request belongs to the state that started it, and nothing is shown before its answer.
JobsAreAimed(p) ==
    \A j \in p.jobs :
        /\ j.id <= p.last
        /\ j.id = p.state.job =>
             /\ j.inputs = p.state.inputs /\ j.session = p.session
             /\ ~p.block.ready /\ ~p.state.rows /\ ~p.state.controls
        /\ \A k \in p.jobs : k.id = j.id => k = j

\* What is ready was asked for by the state; the rows are the page its controls are on.
ShowsTheState(p) ==
    /\ p.state.job = 0 => ~p.block.ready /\ ~p.state.rows /\ ~p.state.controls
    /\ p.block.ready /\ ~p.block.hidden =>
         /\ ~p.block.busy
         /\ p.block.shows = NoContent
            \/ p.block.shows = [inputs |-> p.state.inputs, session |-> p.session]
    /\ p.state.controls /\ "removed" \notin p.block.records /\ "controls" \notin p.block.records
         => p.block.visible = RowsOn(p.block.query, p.state.page)

PassIsSound(p) == p \in Passes /\ JobsAreAimed(p) /\ ShowsTheState(p)

\* The state is of the block as it is.
StateIsOfBlock(p) == p.state.node = p.block.node /\ p.state.inputs = p.block.inputs

DataInv == /\ PublicDataTypeOK /\ PassIsSound(Pass)
           /\ ~block.due => Pass.block.records = {} /\ Pass.state.job # 0 /\ StateIsOfBlock(Pass)
-----------------------------------------------------------------------------
\* What the invariant says of the page: data is shown only of the state as it is.
LEMMA DataPromises == DataInv => PublicDataTypeOK /\ ReadyIsCurrent
BY DEF DataInv, PassIsSound, Pass, StateIsOfBlock, ReadyIsCurrent, ShowsTheState

\* The bounds are numbers with room for the first of each.
LEMMA DataNumbers ==
  /\ MaxJobs \in Nat /\ 0 \in 0 .. MaxJobs /\ 0 \in 0 .. MaxSessions
  /\ MaxSessions \in Nat /\ MaxDomEdits \in Nat /\ 1 <= MaxJobs /\ 1 \in 1 .. 2 /\ 2 \in 1 .. 2
BY PublicDataAssumption

\* A page of the list is one row of it.
LEMMA RowsOfPage ==
  ASSUME NEW query \in Queries
  PROVE  /\ 1 \in 1 .. PageCount(query)
         /\ \A turned \in 1 .. PageCount(query) :
               turned \in 1 .. 2 /\ RowsOn(query, turned) \in SUBSET {"first", "second"}
<1>1. CASE query = "everything"
  BY <1>1 DEF Matching, AllRows, PageCount, RowsOn
<1>2. CASE query # "everything"
  BY <1>2 DEF Matching, PageCount, RowsOn
<1> QED
  BY <1>1, <1>2

\* A state nobody waits for.
LEMMA NoStateFields ==
  ASSUME NEW s \in DataState
  PROVE  /\ NoState(s) \in DataState /\ NoState(s).job = 0 /\ ~NoState(s).rows
         /\ ~NoState(s).controls
BY DataNumbers DEF NoState, DataState

\* The parts of a pass.
LEMMA PassFields ==
  ASSUME NEW p \in Passes
  PROVE  /\ p.block \in Block /\ p.state \in DataState /\ p.session \in 0 .. MaxSessions
         /\ p.last \in 0 .. MaxJobs /\ p.jobs \in SUBSET DataJob
BY DEF Passes

\* Giving up the state makes any pass sound whose jobs were told apart.
LEMMA RetiredPass ==
  ASSUME NEW p \in Passes,
         \A j \in p.jobs : j.id <= p.last /\ \A k \in p.jobs : k.id = j.id => k = j
  PROVE  LET r == RetiredData(p)
         IN  /\ PassIsSound(r) /\ r.state.job = 0 /\ r.last = p.last /\ r.session = p.session
             /\ r.jobs = p.jobs /\ r.block.records = p.block.records /\ r.block.due = p.block.due
<1> DEFINE b == [p.block EXCEPT !.busy = FALSE, !.ready = FALSE]
           s == NoState(p.state)
           r == [p EXCEPT !.block = b, !.state = s]
<1>1. RetiredData(p) = r
  BY DEF RetiredData
<1>2. s \in DataState /\ s.job = 0 /\ ~s.rows /\ ~s.controls
  BY PassFields, NoStateFields
<1>3. /\ b \in Block /\ b.ready = FALSE /\ b.records = p.block.records /\ b.due = p.block.due
  BY PassFields DEF Block
<1> HIDE DEF b, s
<1>4. r \in Passes /\ r.block = b /\ r.state = s /\ r.last = p.last /\ r.session = p.session
      /\ r.jobs = p.jobs
  BY <1>2, <1>3 DEF Passes
<1> HIDE DEF r
<1>5. \A j \in r.jobs : j.id # 0
  BY <1>4 DEF Passes, DataJob
<1>6. JobsAreAimed(r)
  BY <1>2, <1>4, <1>5 DEF JobsAreAimed
<1>7. ShowsTheState(r)
  BY <1>2, <1>3, <1>4 DEF ShowsTheState
<1> QED
  BY <1>1, <1>2, <1>3, <1>4, <1>6, <1>7 DEF PassIsSound

\* What reconcile leaves: no records, and a state only of the block as it is.
LEMMA ReconciledPass ==
  ASSUME NEW p, PassIsSound(p)
  PROVE  LET r == Reconciled(p)
         IN  /\ PassIsSound(r) /\ r.block.records = {} /\ r.last = p.last /\ r.session = p.session
             /\ r.jobs = p.jobs /\ r.block.due = p.block.due
             /\ r.state.job # 0 => /\ StateIsOfBlock(r) /\ r.state.job = p.state.job
                                   /\ r.state.inputs = p.state.inputs /\ r.block.ready = p.block.ready
                                   /\ r.state.rows = p.state.rows
                                   /\ r.state.controls => p.state.controls
             /\ p.block.records = {} /\ StateIsOfBlock(p) => r.state.job = p.state.job
<1> DEFINE b == [p.block EXCEPT !.records = {}]
           seen == [p EXCEPT !.block = b]
           t == [p.state EXCEPT !.controls = FALSE]
           freed == [seen EXCEPT !.state = t]
           r == Reconciled(p)
<1>1. p \in Passes /\ JobsAreAimed(p) /\ ShowsTheState(p)
  BY DEF PassIsSound
<1>2. r = IF NoDataState(p.state) THEN seen
          ELSE IF ChangedData(p) THEN RetiredData(seen)
          ELSE IF "controls" \in p.block.records THEN freed ELSE seen
  BY DEF Reconciled
<1>3. /\ b \in Block /\ b.records = {} /\ b.node = p.block.node /\ b.inputs = p.block.inputs
      /\ b.shows = p.block.shows /\ b.hidden = p.block.hidden /\ b.busy = p.block.busy
      /\ b.ready = p.block.ready /\ b.query = p.block.query /\ b.visible = p.block.visible
      /\ b.due = p.block.due
  BY <1>1, PassFields DEF Block
<1>4. /\ t \in DataState /\ t.job = p.state.job /\ t.node = p.state.node /\ t.rows = p.state.rows
      /\ t.inputs = p.state.inputs /\ t.controls = FALSE /\ t.page = p.state.page
  BY <1>1, PassFields DEF DataState
<1> HIDE DEF b, t
<1>5. seen \in Passes /\ seen.block = b /\ seen.state = p.state /\ seen.last = p.last
      /\ seen.session = p.session /\ seen.jobs = p.jobs
  BY <1>1, <1>3 DEF Passes
<1> HIDE DEF seen
<1>6. freed \in Passes /\ freed.block = b /\ freed.state = t /\ freed.last = p.last
      /\ freed.session = p.session /\ freed.jobs = p.jobs
  BY <1>4, <1>5 DEF Passes
<1> HIDE DEF freed, r
<1>7. JobsAreAimed(seen)
  BY <1>1, <1>3, <1>5 DEF JobsAreAimed
<1>8. CASE NoDataState(p.state)
  BY <1>2, <1>8, <1>1, <1>3, <1>5, <1>7 DEF NoDataState, ShowsTheState, PassIsSound, r
<1>9. CASE ~NoDataState(p.state) /\ ChangedData(p)
  BY <1>2, <1>9, <1>7, <1>5, <1>3, RetiredPass DEF JobsAreAimed, ChangedData, StateIsOfBlock, r
<1>10. CASE ~NoDataState(p.state) /\ ~ChangedData(p)
  <2>1. /\ p.state.node = p.block.node /\ p.state.inputs = p.block.inputs
        /\ "removed" \notin p.block.records
    BY <1>10 DEF ChangedData
  <2>2. CASE "controls" \in p.block.records
    BY <1>2, <1>10, <2>2, <1>1, <1>3, <1>4, <1>6, <2>1 DEF JobsAreAimed, ShowsTheState, NoDataState,
       StateIsOfBlock, PassIsSound, r
  <2>3. CASE "controls" \notin p.block.records
    BY <1>2, <1>10, <2>3, <1>1, <1>3, <1>5, <2>1, <1>7 DEF ShowsTheState, StateIsOfBlock,
       PassIsSound, r
  <2> QED
    BY <2>2, <2>3
<1> QED
  BY <1>8, <1>9, <1>10

\* Controls are connected to rows, once no request waits.
LEMMA ConnectedPass ==
  ASSUME NEW p, PassIsSound(p), \A j \in p.jobs : p.state.rows => j.id # p.state.job
  PROVE  LET c == ConnectedArchive(p)
         IN  /\ PassIsSound(c) /\ c.block.records = p.block.records /\ c.block.due = p.block.due
             /\ c.state.job = p.state.job /\ (StateIsOfBlock(p) => StateIsOfBlock(c))
             /\ c.session = p.session /\ c.jobs = p.jobs
<1> DEFINE s == [p.state EXCEPT !.controls = TRUE, !.page = 1]
           visible == RowsOn(p.block.query, 1)
           b == [p.block EXCEPT !.visible = visible]
           n == [p EXCEPT !.state = s, !.block = b]
<1>1. p \in Passes /\ JobsAreAimed(p) /\ ShowsTheState(p)
  BY DEF PassIsSound
<1>2. CASE ~p.state.rows \/ p.state.controls
  BY <1>1, <1>2 DEF ConnectedArchive
<1>3. CASE ~(~p.state.rows \/ p.state.controls)
  <2>1. ConnectedArchive(p) = n
    BY <1>3 DEF ConnectedArchive
  <2>2. p.block.query \in Queries
    BY <1>1, PassFields DEF Block
  <2>3. visible \in SUBSET {"first", "second"}
    BY <2>2, RowsOfPage
  <2>4. /\ s \in DataState /\ s.job = p.state.job /\ s.node = p.state.node /\ s.rows = p.state.rows
        /\ s.inputs = p.state.inputs /\ s.controls = TRUE /\ s.page = 1
    BY <1>1, PassFields, DataNumbers DEF DataState
  <2> HIDE DEF s, visible
  <2>5. /\ b \in Block /\ b.records = p.block.records /\ b.node = p.block.node
        /\ b.inputs = p.block.inputs /\ b.shows = p.block.shows /\ b.hidden = p.block.hidden
        /\ b.busy = p.block.busy /\ b.ready = p.block.ready /\ b.query = p.block.query
        /\ b.visible = visible /\ b.due = p.block.due
    BY <1>1, <2>3, PassFields DEF Block
  <2> HIDE DEF b
  <2>6. n \in Passes /\ n.block = b /\ n.state = s /\ n.last = p.last /\ n.session = p.session
        /\ n.jobs = p.jobs
    BY <1>1, <2>4, <2>5 DEF Passes
  <2> HIDE DEF n
  <2>7. JobsAreAimed(n)
    BY <1>1, <1>3, <2>4, <2>5, <2>6 DEF JobsAreAimed
  <2>8. ShowsTheState(n)
    BY <1>1, <1>3, <2>4, <2>5, <2>6 DEF ShowsTheState, visible
  <2>9. StateIsOfBlock(p) => StateIsOfBlock(n)
    BY <2>4, <2>5, <2>6 DEF StateIsOfBlock
  <2> QED
    BY <2>1, <2>4, <2>5, <2>6, <2>7, <2>8, <2>9 DEF PassIsSound
<1> QED
  BY <1>2, <1>3

\* A boot leaves a state of the block as it is.
LEMMA BootedPass ==
  ASSUME NEW p, PassIsSound(p), p.block.records = {}, p.last < MaxJobs,
         p.state.job # 0 => StateIsOfBlock(p)
  PROVE  LET b == BootedData(p)
         IN  /\ PassIsSound(b) /\ b.block.records = {} /\ b.block.due = p.block.due
             /\ b.state.job # 0 /\ StateIsOfBlock(b) /\ b.session = p.session
<1> DEFINE id == p.last + 1
           asks == p.block.inputs \in MembersOnly
           job == [id |-> id, inputs |-> p.block.inputs, session |-> p.session,
                   at |-> IF asks THEN "audience" ELSE "data"]
           s == [job |-> id, node |-> p.block.node, inputs |-> p.block.inputs,
                 rows |-> FALSE, controls |-> FALSE, page |-> 1]
           b == IF asks THEN p.block ELSE [p.block EXCEPT !.hidden = FALSE, !.busy = TRUE]
           jobs == p.jobs \cup {job}
           n == [p EXCEPT !.last = id, !.state = s, !.jobs = jobs, !.block = b]
<1>1. p \in Passes /\ JobsAreAimed(p) /\ ShowsTheState(p)
  BY DEF PassIsSound
<1>2. CASE ~NoDataState(p.state)
  BY <1>2, <1>1, ConnectedPass DEF BootedData, NoDataState, JobsAreAimed
<1>3. CASE NoDataState(p.state)
  <2>1. BootedData(p) = n /\ p.state.job = 0
    BY <1>3 DEF BootedData, NoDataState
  <2>2. /\ id \in 0 .. MaxJobs /\ id \in 1 .. MaxJobs /\ id # 0
        /\ \A m \in 1 .. MaxJobs : m <= p.last => m <= id /\ m # id
        /\ id <= id
    BY <1>1, DataNumbers, PassFields
  <2>3. p.block.node \in Blocks /\ p.block.inputs \in Inputs
    BY <1>1, PassFields DEF Block
  <2> HIDE DEF id
  <2>4. /\ job \in DataJob /\ job.id = id /\ job.inputs = p.block.inputs /\ job.session = p.session
    BY <1>1, <2>2, <2>3, PassFields DEF DataJob
  <2>5. /\ s \in DataState /\ s.job = id /\ s.node = p.block.node /\ s.inputs = p.block.inputs
        /\ s.rows = FALSE /\ s.controls = FALSE
    BY <2>2, <2>3, DataNumbers DEF DataState
  <2>6. /\ b \in Block /\ b.ready = p.block.ready /\ b.records = p.block.records
        /\ b.node = p.block.node /\ b.inputs = p.block.inputs /\ b.due = p.block.due
    BY <1>1, PassFields DEF Block
  <2> HIDE DEF job, s, b
  <2>7. jobs \in SUBSET DataJob
    BY <1>1, <2>4, PassFields
  <2> HIDE DEF jobs
  <2>8. n \in Passes /\ n.block = b /\ n.state = s /\ n.last = id /\ n.session = p.session
        /\ n.jobs = jobs
    BY <1>1, <2>2, <2>5, <2>6, <2>7 DEF Passes
  <2> HIDE DEF n
  <2>9. ~p.block.ready
    BY <1>1, <2>1 DEF ShowsTheState
  <2>10. \A j \in p.jobs : j.id <= id /\ j.id # id /\ \A k \in p.jobs : k.id = j.id => k = j
    BY <1>1, <2>2, PassFields DEF JobsAreAimed, DataJob
  <2>11. JobsAreAimed(n)
    BY <2>2, <2>4, <2>5, <2>6, <2>8, <2>9, <2>10 DEF JobsAreAimed, jobs
  <2>12. ShowsTheState(n)
    BY <2>2, <2>5, <2>6, <2>8, <2>9 DEF ShowsTheState
  <2>13. StateIsOfBlock(n)
    BY <2>5, <2>6, <2>8 DEF StateIsOfBlock
  <2> QED
    BY <2>1, <2>2, <2>5, <2>6, <2>8, <2>11, <2>12, <2>13 DEF PassIsSound
<1> QED
  BY <1>2, <1>3
-----------------------------------------------------------------------------
\* The pass that a handler starts with is the state as it is.
LEMMA PassOfState ==
  /\ Pass.block = block /\ Pass.state = dataRuntime.state /\ Pass.session = dataRuntime.session
  /\ Pass.last = dataRuntime.jobs /\ Pass.jobs = dataJobs
BY DEF Pass

\* A pass that was taken is the one the next starts from.
LEMMA TakenPass ==
  ASSUME NEW p, PassIsSound(p), Takes(p), visitor' \in Audiences,
         ~p.block.due => p.block.records = {} /\ p.state.job # 0 /\ StateIsOfBlock(p)
  PROVE  DataInv'
<1>1. p \in Passes
  BY DEF PassIsSound
<1>2. /\ block' = p.block /\ dataJobs' = p.jobs /\ dataRuntime'.session = p.session
      /\ dataRuntime'.jobs = p.last /\ dataRuntime'.state = p.state
      /\ dataRuntime' = [session |-> p.session, jobs |-> p.last, state |-> p.state]
  BY DEF Takes
<1>3. dataRuntime' \in DataRuntime
  BY <1>1, <1>2, PassFields DEF DataRuntime
<1>4. Pass' = p
  BY <1>1, <1>2 DEF Pass, Passes
<1>5. PublicDataTypeOK'
  BY <1>1, <1>2, <1>3, PassFields DEF PublicDataTypeOK
<1> QED
  BY <1>2, <1>4, <1>5 DEF DataInv

\* A document that was just booted.
LEMMA DataStarts == PublicDataInit => DataInv
<1> SUFFICES ASSUME PublicDataInit
             PROVE  DataInv
  OBVIOUS
<1>1. visitor \in Audiences
  BY DEF PublicDataInit
<1>2. PICK n \in Blocks, i \in Inputs :
         LET booted == BootedData(
                 [block |-> FreshBlock(n, i), session |-> 0, last |-> 0, jobs |-> {},
                  state |-> [job |-> 0, node |-> n, inputs |-> i, rows |-> FALSE,
                             controls |-> FALSE, page |-> 1]])
         IN  /\ block = booted.block /\ dataJobs = booted.jobs
             /\ dataRuntime = [session |-> 0, jobs |-> booted.last, state |-> booted.state]
  BY DEF PublicDataInit
<1> DEFINE f == FreshBlock(n, i)
           s == [job |-> 0, node |-> n, inputs |-> i, rows |-> FALSE, controls |-> FALSE, page |-> 1]
           p == [block |-> f, session |-> 0, last |-> 0, jobs |-> {}, state |-> s]
           b == BootedData(p)
<1>3. /\ f \in Block /\ f.records = {} /\ f.ready = FALSE
  BY DataNumbers DEF FreshBlock, Block, Contents, Queries
<1>4. s \in DataState /\ s.job = 0 /\ s.rows = FALSE /\ s.controls = FALSE
  BY DataNumbers DEF DataState
<1>5. block = b.block /\ dataJobs = b.jobs
      /\ dataRuntime = [session |-> 0, jobs |-> b.last, state |-> b.state]
  BY <1>2
<1> HIDE DEF f, s
<1>6. p \in Passes /\ p.block = f /\ p.state = s /\ p.jobs = {} /\ p.last = 0 /\ p.session = 0
  BY <1>3, <1>4, DataNumbers DEF Passes
<1> HIDE DEF p
<1>7. PassIsSound(p)
  BY <1>3, <1>4, <1>6 DEF PassIsSound, JobsAreAimed, ShowsTheState
<1>8. p.last < MaxJobs
  BY <1>6, DataNumbers
<1>9. PassIsSound(b) /\ b.block.records = {} /\ b.state.job # 0 /\ StateIsOfBlock(b)
      /\ b.session = 0
  BY <1>3, <1>4, <1>6, <1>7, <1>8, BootedPass
<1> HIDE DEF b
<1>11. b \in Passes
  BY <1>9 DEF PassIsSound
<1>12. dataRuntime.session = 0 /\ dataRuntime.jobs = b.last /\ dataRuntime.state = b.state
  BY <1>5
<1>13. Pass = b
  BY <1>5, <1>9, <1>11, <1>12 DEF Pass, Passes
<1>14. dataRuntime \in DataRuntime
  BY <1>5, <1>11, PassFields, DataNumbers DEF DataRuntime
<1>15. PublicDataTypeOK
  BY <1>1, <1>5, <1>11, <1>14, PassFields DEF PublicDataTypeOK
<1> QED
  BY <1>9, <1>13, <1>15 DEF DataInv
-----------------------------------------------------------------------------
\* The host changes the page.
LEMMA HostKeepsData ==
  ASSUME DataInv, UNCHANGED <<visitor, dataRuntime, dataJobs>>,
         block' \in Block, block'.due = TRUE,
         block'.ready => block'.ready = block.ready /\ block'.hidden = block.hidden
                         /\ block'.busy = block.busy /\ block'.shows = block.shows,
         \/ "removed" \in block'.records \/ "controls" \in block'.records
         \/ /\ block'.records = block.records \cup {"attributes"}
            /\ block'.visible = block.visible /\ block'.query = block.query
  PROVE  DataInv'
<1>1. PassIsSound(Pass) /\ PublicDataTypeOK
  BY DEF DataInv
<1>2. Pass \in Passes /\ JobsAreAimed(Pass) /\ ShowsTheState(Pass)
  BY <1>1 DEF PassIsSound
<1>3. /\ Pass'.block = block' /\ Pass'.state = Pass.state /\ Pass'.session = Pass.session
      /\ Pass'.last = Pass.last /\ Pass'.jobs = Pass.jobs
  BY DEF Pass
<1>4. Pass' \in Passes
  BY <1>2 DEF Pass, Passes
<1>5. JobsAreAimed(Pass')
  BY <1>2, <1>3, PassOfState DEF JobsAreAimed
<1>6. ShowsTheState(Pass')
  BY <1>2, <1>3, PassOfState DEF ShowsTheState
<1>7. PassIsSound(Pass)'
  BY <1>4, <1>5, <1>6 DEF PassIsSound, JobsAreAimed, ShowsTheState
<1>8. PublicDataTypeOK'
  BY <1>1 DEF PublicDataTypeOK
<1> QED
  BY <1>7, <1>8 DEF DataInv

\* The host writes to the block or its controls: nothing is ready until it is booted again.
LEMMA EditsKeepData ==
  ASSUME DataInv,
         \/ HostMovesBlock \/ HostReplacesControls
         \/ \E n \in Blocks, i \in Inputs : HostReplacesBlock(n, i)
         \/ \E i \in Inputs : HostWritesInputs(i)
  PROVE  DataInv'
<1> DEFINE edits == block.edits + 1
<1>1. block \in Block /\ UNCHANGED <<visitor, dataRuntime, dataJobs>>
  BY DEF DataInv, PublicDataTypeOK, HostMovesBlock, HostReplacesControls, HostReplacesBlock,
     HostWritesInputs
<1>2. edits \in 0 .. MaxDomEdits
  <2>1. block.edits < MaxDomEdits
    BY DEF MayEdit, HostMovesBlock, HostReplacesControls, HostReplacesBlock, HostWritesInputs
  <2>2. block.edits \in 0 .. MaxDomEdits
    BY <1>1 DEF Block
  <2> QED
    BY <2>1, <2>2, DataNumbers
<1>3. ASSUME HostMovesBlock
      PROVE  DataInv'
  BY <1>3, <1>1, <1>2, HostKeepsData DEF HostMovesBlock, Block
<1>4. ASSUME HostReplacesControls
      PROVE  DataInv'
  BY <1>4, <1>1, <1>2, HostKeepsData DEF HostReplacesControls, Block, Queries
<1>5. ASSUME NEW n \in Blocks, NEW i \in Inputs, HostReplacesBlock(n, i)
      PROVE  DataInv'
  BY <1>5, <1>2, <1>1, DataNumbers, HostKeepsData DEF HostReplacesBlock, FreshBlock, Block,
     Contents, Queries
<1>6. ASSUME NEW i \in Inputs, HostWritesInputs(i)
      PROVE  DataInv'
  BY <1>6, <1>1, <1>2, HostKeepsData DEF HostWritesInputs, Block
<1> QED
  BY <1>3, <1>4, <1>5, <1>6

\* The observers, and a session that was announced.
LEMMA ObserversKeepData ==
  ASSUME DataInv, ObserversRun
  PROVE  DataInv'
<1> DEFINE r == Reconciled(Pass)
           b == [r.block EXCEPT !.due = FALSE]
           n == [r EXCEPT !.block = b]
           p == BootedData(n)
<1>1. PassIsSound(Pass) /\ visitor' \in Audiences
  BY DEF DataInv, PublicDataTypeOK, ObserversRun
<1>2. Takes(p) /\ dataRuntime.jobs < MaxJobs
  BY DEF ObserversRun, JobsLeft
<1>3. /\ PassIsSound(r) /\ r.block.records = {} /\ r.last = Pass.last
      /\ r.state.job # 0 => StateIsOfBlock(r)
  BY <1>1, ReconciledPass
<1> HIDE DEF r
<1>4. r \in Passes /\ JobsAreAimed(r) /\ ShowsTheState(r)
  BY <1>3 DEF PassIsSound
<1>5. /\ b \in Block /\ b.due = FALSE /\ b.records = r.block.records /\ b.node = r.block.node
      /\ b.inputs = r.block.inputs /\ b.shows = r.block.shows /\ b.hidden = r.block.hidden
      /\ b.busy = r.block.busy /\ b.ready = r.block.ready /\ b.query = r.block.query
      /\ b.visible = r.block.visible
  BY <1>4, PassFields DEF Block
<1> HIDE DEF b
<1>6. n \in Passes /\ n.block = b /\ n.state = r.state /\ n.last = r.last
      /\ n.session = r.session /\ n.jobs = r.jobs
  BY <1>4, <1>5 DEF Passes
<1> HIDE DEF n
<1>7. PassIsSound(n) /\ (n.state.job # 0 => StateIsOfBlock(n))
  BY <1>3, <1>4, <1>5, <1>6 DEF PassIsSound, JobsAreAimed, ShowsTheState, StateIsOfBlock
<1>8. n.last < MaxJobs /\ n.block.records = {}
  BY <1>2, <1>3, <1>5, <1>6, PassOfState
<1>9. /\ PassIsSound(p) /\ p.block.records = {} /\ p.state.job # 0 /\ StateIsOfBlock(p)
  BY <1>7, <1>8, BootedPass
<1> HIDE DEF p
<1> QED
  BY <1>1, <1>2, <1>9, TakenPass

\* A new session makes every request of the old one late.
LEMMA SessionKeepsData ==
  ASSUME DataInv, SessionAnnounced
  PROVE  DataInv'
<1> DEFINE session1 == Pass.session + 1
           b == [Pass.block EXCEPT !.records = {}]
           n == [Pass EXCEPT !.session = session1, !.block = b]
           r == RetiredData(n)
           p == BootedData(r)
<1>1. PassIsSound(Pass) /\ visitor' \in Audiences
  BY DEF DataInv, PublicDataTypeOK, SessionAnnounced
<1>2. Takes(p) /\ dataRuntime.jobs < MaxJobs /\ dataRuntime.session < MaxSessions
  BY DEF SessionAnnounced, JobsLeft, DisposedData
<1>3. Pass \in Passes /\ JobsAreAimed(Pass)
  BY <1>1 DEF PassIsSound
<1>4. session1 \in 0 .. MaxSessions
  BY <1>2, <1>3, PassFields, PassOfState, DataNumbers
<1> HIDE DEF session1
<1>5. b \in Block /\ b.records = {} /\ b.due = Pass.block.due
  BY <1>3, PassFields DEF Block
<1> HIDE DEF b
<1>6. n \in Passes /\ n.block = b /\ n.last = Pass.last /\ n.jobs = Pass.jobs
  BY <1>3, <1>4, <1>5 DEF Passes
<1> HIDE DEF n
<1>7. \A j \in n.jobs : j.id <= n.last /\ \A k \in n.jobs : k.id = j.id => k = j
  BY <1>3, <1>6 DEF JobsAreAimed
<1>8. /\ PassIsSound(r) /\ r.state.job = 0 /\ r.last = n.last /\ r.block.records = n.block.records
  BY <1>6, <1>7, RetiredPass
<1> HIDE DEF r
<1>9. r.last < MaxJobs /\ r.block.records = {}
  BY <1>2, <1>5, <1>6, <1>8, PassOfState
<1>10. /\ PassIsSound(p) /\ p.block.records = {} /\ p.state.job # 0 /\ StateIsOfBlock(p)
  BY <1>8, <1>9, BootedPass
<1> HIDE DEF p
<1> QED
  BY <1>1, <1>2, <1>10, TakenPass
-----------------------------------------------------------------------------
\* What an answer finds after it has taken the records itself.
LEMMA AnsweredPass ==
  ASSUME DataInv, NEW j \in dataJobs
  PROVE  LET r == Reconciled(WithoutJob(j))
         IN  /\ PassIsSound(r) /\ \A k \in r.jobs : k.id # j.id
             /\ ~r.block.due => r.block.records = {} /\ r.state.job # 0 /\ StateIsOfBlock(r)
             /\ DataCurrent(j, r) =>
                  /\ r.state.job # 0 /\ j.inputs = r.state.inputs /\ j.session = r.session
                  /\ ~r.block.ready /\ ~r.state.rows /\ ~r.state.controls
                  /\ j \in DataJob /\ j.id <= r.last
<1> DEFINE jobs == dataJobs \ {j}
           w == [Pass EXCEPT !.jobs = jobs]
           r == Reconciled(w)
<1>1. Pass \in Passes /\ JobsAreAimed(Pass) /\ ShowsTheState(Pass)
  BY DEF DataInv, PassIsSound
<1>2. WithoutJob(j) = w
  BY DEF WithoutJob
<1>3. jobs \in SUBSET DataJob /\ j \in DataJob /\ j.id # 0
  BY <1>1, PassFields, PassOfState DEF DataJob
<1>4. /\ j.id <= Pass.last
      /\ j.id = Pass.state.job =>
             /\ j.inputs = Pass.state.inputs /\ j.session = Pass.session
             /\ ~Pass.block.ready /\ ~Pass.state.rows /\ ~Pass.state.controls
      /\ \A k \in jobs : k \in Pass.jobs /\ k.id # j.id
  BY <1>1, PassOfState DEF JobsAreAimed
<1> HIDE DEF jobs
<1>5. w \in Passes /\ w.block = Pass.block /\ w.state = Pass.state /\ w.last = Pass.last
      /\ w.session = Pass.session /\ w.jobs = jobs
  BY <1>1, <1>3 DEF Passes
<1> HIDE DEF w
<1>6. PassIsSound(w)
  BY <1>1, <1>4, <1>5 DEF PassIsSound, JobsAreAimed, ShowsTheState
<1>7. /\ PassIsSound(r) /\ r.block.records = {} /\ r.last = w.last /\ r.session = w.session
      /\ r.jobs = w.jobs /\ r.block.due = w.block.due
      /\ r.state.job # 0 => /\ StateIsOfBlock(r) /\ r.state.job = w.state.job
                            /\ r.state.inputs = w.state.inputs /\ r.block.ready = w.block.ready
                            /\ r.state.rows = w.state.rows
                            /\ r.state.controls => w.state.controls
      /\ w.block.records = {} /\ StateIsOfBlock(w) => r.state.job = w.state.job
  BY <1>6, ReconciledPass
<1> HIDE DEF r
<1>8. ~r.block.due => r.block.records = {} /\ r.state.job # 0 /\ StateIsOfBlock(r)
  BY <1>5, <1>7, PassOfState DEF DataInv, StateIsOfBlock
<1>9. DataCurrent(j, r) =>
        /\ r.state.job # 0 /\ j.inputs = r.state.inputs /\ j.session = r.session
        /\ ~r.block.ready /\ ~r.state.rows /\ ~r.state.controls
        /\ j \in DataJob /\ j.id <= r.last
  BY <1>3, <1>4, <1>5, <1>7 DEF DataCurrent
<1> QED
  BY <1>2, <1>4, <1>5, <1>7, <1>8, <1>9 DEF r

\* Whatever is written to the block of a current answer: nothing is claimed of a block that
\* is hidden or not ready, and no other answer is current.
LEMMA AudienceKeepsData ==
  ASSUME DataInv, NEW j \in dataJobs, NEW who \in Audiences, AudienceAnswered(j, who)
  PROVE  DataInv'
<1> DEFINE r == Reconciled(WithoutJob(j))
           hidden == [r.block EXCEPT !.hidden = TRUE, !.ready = TRUE]
           busy == [r.block EXCEPT !.hidden = FALSE, !.busy = TRUE]
           next == [j EXCEPT !.at = "data"]
           jobs == r.jobs \cup {next}
           n == [r EXCEPT !.block = hidden]
           m == [r EXCEPT !.block = busy, !.jobs = jobs]
<1>1. visitor' \in Audiences
  BY DEF DataInv, PublicDataTypeOK, AudienceAnswered
<1>2. /\ PassIsSound(r) /\ \A k \in r.jobs : k.id # j.id
      /\ ~r.block.due => r.block.records = {} /\ r.state.job # 0 /\ StateIsOfBlock(r)
      /\ DataCurrent(j, r) =>
           /\ r.state.job # 0 /\ j.inputs = r.state.inputs /\ j.session = r.session
           /\ ~r.block.ready /\ ~r.state.rows /\ ~r.state.controls
           /\ j \in DataJob /\ j.id <= r.last
  BY AnsweredPass
<1>3. Takes(IF ~DataCurrent(j, r) THEN r ELSE IF who # "member" THEN n ELSE m)
  BY DEF AudienceAnswered
<1> HIDE DEF r
<1>4. r \in Passes /\ JobsAreAimed(r) /\ ShowsTheState(r)
  BY <1>2 DEF PassIsSound
<1>5. CASE ~DataCurrent(j, r)
  BY <1>1, <1>2, <1>3, <1>5, TakenPass
<1>6. CASE DataCurrent(j, r) /\ who # "member"
  <2>1. /\ hidden \in Block /\ hidden.hidden = TRUE /\ hidden.records = r.block.records
        /\ hidden.node = r.block.node /\ hidden.inputs = r.block.inputs
        /\ hidden.query = r.block.query /\ hidden.visible = r.block.visible
        /\ hidden.due = r.block.due
    BY <1>4, PassFields DEF Block
  <2> HIDE DEF hidden
  <2>2. n \in Passes /\ n.block = hidden /\ n.state = r.state /\ n.last = r.last
        /\ n.session = r.session /\ n.jobs = r.jobs
    BY <1>4, <2>1 DEF Passes
  <2>3. Takes(n)
    BY <1>3, <1>6
  <2> HIDE DEF n
  <2>4. JobsAreAimed(n)
    BY <1>2, <1>4, <1>6, <2>2 DEF JobsAreAimed, DataCurrent
  <2>5. ShowsTheState(n)
    BY <1>2, <1>4, <1>6, <2>1, <2>2 DEF ShowsTheState
  <2>6. ~n.block.due => n.block.records = {} /\ n.state.job # 0 /\ StateIsOfBlock(n)
    BY <1>2, <2>1, <2>2 DEF StateIsOfBlock
  <2> QED
    BY <1>1, <2>2, <2>3, <2>4, <2>5, <2>6, TakenPass DEF PassIsSound
<1>7. CASE DataCurrent(j, r) /\ who = "member"
  <2>1. /\ busy \in Block /\ busy.ready = r.block.ready /\ busy.records = r.block.records
        /\ busy.node = r.block.node /\ busy.inputs = r.block.inputs
        /\ busy.query = r.block.query /\ busy.visible = r.block.visible
        /\ busy.due = r.block.due
    BY <1>4, PassFields DEF Block
  <2>2. next \in DataJob /\ next.id = j.id /\ next.inputs = j.inputs /\ next.session = j.session
    BY <1>2, <1>7 DEF DataJob
  <2> HIDE DEF busy, next
  <2>3. jobs \in SUBSET DataJob
    BY <1>4, <2>2, PassFields
  <2> HIDE DEF jobs
  <2>4. m \in Passes /\ m.block = busy /\ m.state = r.state /\ m.last = r.last
        /\ m.session = r.session /\ m.jobs = jobs
    BY <1>4, <2>1, <2>3 DEF Passes
  <2>5. Takes(m)
    BY <1>3, <1>7
  <2> HIDE DEF m
  <2>6. JobsAreAimed(m)
    BY <1>2, <1>4, <1>7, <2>1, <2>2, <2>4 DEF JobsAreAimed, jobs
  <2>7. ShowsTheState(m)
    BY <1>2, <1>4, <1>7, <2>1, <2>4 DEF ShowsTheState
  <2>8. ~m.block.due => m.block.records = {} /\ m.state.job # 0 /\ StateIsOfBlock(m)
    BY <1>2, <2>1, <2>4 DEF StateIsOfBlock
  <2> QED
    BY <1>1, <2>4, <2>5, <2>6, <2>7, <2>8, TakenPass DEF PassIsSound
<1> QED
  BY <1>5, <1>6, <1>7

\* loadBlock with rows: they are written if the answer is the one the state waits for.
LEMMA RowsKeepData ==
  ASSUME DataInv, NEW j \in dataJobs, DataAnswered(j)
  PROVE  DataInv'
<1> DEFINE r == Reconciled(WithoutJob(j))
           shows == [inputs |-> j.inputs, session |-> j.session]
           b == [r.block EXCEPT !.shows = shows, !.busy = FALSE, !.ready = TRUE]
           s == [r.state EXCEPT !.rows = TRUE]
           n == [r EXCEPT !.block = b, !.state = s]
           c == ConnectedArchive(n)
<1>1. visitor' \in Audiences
  BY DEF DataInv, PublicDataTypeOK, DataAnswered
<1>2. /\ PassIsSound(r) /\ \A k \in r.jobs : k.id # j.id
      /\ ~r.block.due => r.block.records = {} /\ r.state.job # 0 /\ StateIsOfBlock(r)
      /\ DataCurrent(j, r) =>
           /\ r.state.job # 0 /\ j.inputs = r.state.inputs /\ j.session = r.session
           /\ ~r.block.ready /\ ~r.state.rows /\ ~r.state.controls
           /\ j \in DataJob /\ j.id <= r.last
  BY AnsweredPass
<1>3. Takes(IF DataCurrent(j, r) THEN c ELSE r)
  BY DEF DataAnswered, Rendered
<1> HIDE DEF r
<1>4. r \in Passes /\ JobsAreAimed(r) /\ ShowsTheState(r)
  BY <1>2 DEF PassIsSound
<1>5. CASE ~DataCurrent(j, r)
  BY <1>1, <1>2, <1>3, <1>5, TakenPass
<1>6. CASE DataCurrent(j, r)
  <2>1. shows \in Contents /\ shows = [inputs |-> r.state.inputs, session |-> r.session]
    BY <1>2, <1>6 DEF DataJob, Contents
  <2> HIDE DEF shows
  <2>2. /\ b \in Block /\ b.shows = shows /\ b.busy = FALSE /\ b.records = r.block.records
        /\ b.node = r.block.node /\ b.inputs = r.block.inputs /\ b.due = r.block.due
    BY <1>4, <2>1, PassFields DEF Block
  <2>3. /\ s \in DataState /\ s.job = r.state.job /\ s.node = r.state.node /\ s.rows = TRUE
        /\ s.inputs = r.state.inputs /\ s.controls = r.state.controls
    BY <1>4, PassFields DEF DataState
  <2> HIDE DEF b, s
  <2>4. n \in Passes /\ n.block = b /\ n.state = s /\ n.last = r.last
        /\ n.session = r.session /\ n.jobs = r.jobs
    BY <1>4, <2>2, <2>3 DEF Passes
  <2> HIDE DEF n
  <2>5. \A k \in n.jobs : k.id # n.state.job
    BY <1>2, <1>6, <2>3, <2>4 DEF DataCurrent
  <2>6. JobsAreAimed(n)
    BY <1>4, <2>4, <2>5 DEF JobsAreAimed
  <2>7. ShowsTheState(n)
    BY <1>2, <1>6, <2>1, <2>2, <2>3, <2>4 DEF ShowsTheState
  <2>8. PassIsSound(n)
    BY <2>4, <2>6, <2>7 DEF PassIsSound
  <2>9. /\ PassIsSound(c) /\ c.block.records = n.block.records /\ c.block.due = n.block.due
        /\ c.state.job = n.state.job /\ (StateIsOfBlock(n) => StateIsOfBlock(c))
    BY <2>5, <2>8, ConnectedPass
  <2>10. Takes(c)
    BY <1>3, <1>6
  <2> HIDE DEF c
  <2>11. ~c.block.due => c.block.records = {} /\ c.state.job # 0 /\ StateIsOfBlock(c)
    BY <1>2, <2>2, <2>3, <2>4, <2>9 DEF StateIsOfBlock
  <2> QED
    BY <1>1, <2>9, <2>10, <2>11, TakenPass
<1> QED
  BY <1>5, <1>6

\* loadBlock without rows: the apology is of the state that asked, or nothing.
LEMMA ApologyKeepsData ==
  ASSUME DataInv, NEW j \in dataJobs, DataFailed(j)
  PROVE  DataInv'
<1> DEFINE r == Reconciled(WithoutJob(j))
           b == [r.block EXCEPT !.shows = NoContent, !.visible = {}, !.busy = FALSE, !.ready = TRUE]
           n == [r EXCEPT !.block = b]
<1>1. visitor' \in Audiences
  BY DEF DataInv, PublicDataTypeOK, DataFailed
<1>2. /\ PassIsSound(r) /\ \A k \in r.jobs : k.id # j.id
      /\ ~r.block.due => r.block.records = {} /\ r.state.job # 0 /\ StateIsOfBlock(r)
      /\ DataCurrent(j, r) =>
           /\ r.state.job # 0 /\ j.inputs = r.state.inputs /\ j.session = r.session
           /\ ~r.block.ready /\ ~r.state.rows /\ ~r.state.controls
           /\ j \in DataJob /\ j.id <= r.last
  BY AnsweredPass
<1>3. Takes(IF DataCurrent(j, r) THEN n ELSE r)
  BY DEF DataFailed, Apologized
<1> HIDE DEF r
<1>4. r \in Passes /\ JobsAreAimed(r) /\ ShowsTheState(r)
  BY <1>2 DEF PassIsSound
<1>5. CASE ~DataCurrent(j, r)
  BY <1>1, <1>2, <1>3, <1>5, TakenPass
<1>6. CASE DataCurrent(j, r)
  <2>1. NoContent \in Contents /\ {} \in SUBSET {"first", "second"}
    BY DEF Contents
  <2>2. /\ b \in Block /\ b.shows = NoContent /\ b.busy = FALSE /\ b.records = r.block.records
        /\ b.node = r.block.node /\ b.inputs = r.block.inputs /\ b.due = r.block.due
    BY <1>4, <2>1, PassFields DEF Block
  <2> HIDE DEF b
  <2>3. n \in Passes /\ n.block = b /\ n.state = r.state /\ n.last = r.last
        /\ n.session = r.session /\ n.jobs = r.jobs
    BY <1>4, <2>2 DEF Passes
  <2>4. Takes(n)
    BY <1>3, <1>6
  <2> HIDE DEF n
  <2>5. JobsAreAimed(n)
    BY <1>2, <1>4, <1>6, <2>3 DEF JobsAreAimed, DataCurrent
  <2>6. ShowsTheState(n)
    BY <1>2, <1>6, <2>2, <2>3 DEF ShowsTheState
  <2>7. ~n.block.due => n.block.records = {} /\ n.state.job # 0 /\ StateIsOfBlock(n)
    BY <1>2, <2>2, <2>3 DEF StateIsOfBlock
  <2> QED
    BY <1>1, <2>3, <2>4, <2>5, <2>6, <2>7, TakenPass DEF PassIsSound
<1> QED
  BY <1>5, <1>6
-----------------------------------------------------------------------------
\* The visitor searches the list or turns its page.
LEMMA ControlsKeepData ==
  ASSUME DataInv, NEW query \in Queries, NEW page1 \in 1 .. PageCount(query),
         dataRuntime.state.controls, UNCHANGED <<visitor, dataJobs>>,
         block' = [block EXCEPT !.query = query, !.visible = RowsOn(query, page1)],
         dataRuntime' = [dataRuntime EXCEPT !.state = [dataRuntime.state EXCEPT !.page = page1]]
  PROVE  DataInv'
<1> DEFINE visible == RowsOn(query, page1)
           s == [dataRuntime.state EXCEPT !.page = page1]
<1>1. /\ PassIsSound(Pass) /\ block \in Block /\ dataRuntime \in DataRuntime
      /\ visitor' \in Audiences /\ dataJobs \subseteq DataJob
  BY DEF DataInv, PublicDataTypeOK
<1>2. Pass \in Passes /\ JobsAreAimed(Pass) /\ ShowsTheState(Pass)
  BY <1>1 DEF PassIsSound
<1>3. dataRuntime.state \in DataState
  BY <1>1 DEF DataRuntime
<1>4. visible \in SUBSET {"first", "second"} /\ page1 \in 1 .. 2
  BY RowsOfPage
<1>5. /\ s \in DataState /\ s.job = dataRuntime.state.job /\ s.node = dataRuntime.state.node
      /\ s.rows = dataRuntime.state.rows /\ s.inputs = dataRuntime.state.inputs
      /\ s.controls = dataRuntime.state.controls /\ s.page = page1
  BY <1>3, <1>4 DEF DataState
<1> HIDE DEF s
<1>6. dataRuntime' = [dataRuntime EXCEPT !.state = s]
  BY DEF s
<1>7. dataRuntime' \in DataRuntime /\ dataRuntime'.state = s
      /\ dataRuntime'.session = dataRuntime.session /\ dataRuntime'.jobs = dataRuntime.jobs
  BY <1>1, <1>5, <1>6 DEF DataRuntime
<1> HIDE DEF visible
<1>8. block' = [block EXCEPT !.query = query, !.visible = visible]
  BY DEF visible
<1>9. /\ block' \in Block /\ block'.records = block.records /\ block'.node = block.node
      /\ block'.inputs = block.inputs /\ block'.shows = block.shows /\ block'.hidden = block.hidden
      /\ block'.busy = block.busy /\ block'.ready = block.ready /\ block'.query = query
      /\ block'.visible = visible /\ block'.due = block.due
  BY <1>1, <1>4, <1>8 DEF Block
<1> DEFINE n == [block |-> block', state |-> s, session |-> dataRuntime.session,
                 last |-> dataRuntime.jobs, jobs |-> dataJobs]
<1>10. n.block = block' /\ n.state = s /\ n.session = dataRuntime.session
       /\ n.last = dataRuntime.jobs /\ n.jobs = dataJobs
  OBVIOUS
<1>11. n \in Passes
  BY <1>1, <1>5, <1>9 DEF Passes, DataRuntime
<1>12. Takes(n)
  BY <1>1, <1>6, <1>7, <1>10 DEF Takes, DataRuntime
<1> HIDE DEF n
<1>13. JobsAreAimed(n)
  BY <1>2, <1>5, <1>9, <1>10, PassOfState DEF JobsAreAimed
<1>14. ShowsTheState(n)
  BY <1>2, <1>5, <1>9, <1>10, PassOfState DEF ShowsTheState, visible
<1>15. ~n.block.due => n.block.records = {} /\ n.state.job # 0 /\ StateIsOfBlock(n)
  BY <1>5, <1>9, <1>10, PassOfState DEF DataInv, StateIsOfBlock
<1> QED
  BY <1>1, <1>11, <1>12, <1>13, <1>14, <1>15, TakenPass DEF PassIsSound

\* Every step keeps the blocks sound.
LEMMA DataStays == DataInv /\ [PublicDataNext]_publicDataVars => DataInv'
<1> SUFFICES ASSUME DataInv, [PublicDataNext]_publicDataVars
             PROVE  DataInv'
  OBVIOUS
<1>1. CASE \/ HostMovesBlock \/ HostReplacesControls
           \/ \E n \in Blocks, i \in Inputs : HostReplacesBlock(n, i)
           \/ \E i \in Inputs : HostWritesInputs(i)
  BY <1>1, EditsKeepData
<1>2. CASE ObserversRun
  BY <1>2, ObserversKeepData
<1>3. CASE SessionAnnounced
  BY <1>3, SessionKeepsData
<1>4. ASSUME NEW who \in Audiences, SessionChanges(who)
      PROVE  DataInv'
  BY <1>4 DEF SessionChanges, DataInv, PublicDataTypeOK, Pass
<1>5. ASSUME NEW q \in Queries, Search(q)
      PROVE  DataInv'
  BY <1>5, RowsOfPage, ControlsKeepData DEF Search
<1>6. ASSUME NEW p \in 1 .. 2, TurnPage(p)
      PROVE  DataInv'
  <2>1. block \in Block /\ block.query \in Queries /\ p \in 1 .. PageCount(block.query)
    BY <1>6 DEF DataInv, PublicDataTypeOK, Block, TurnPage
  <2>2. block' = [block EXCEPT !.query = block.query, !.visible = RowsOn(block.query, p)]
    BY <1>6, <2>1 DEF TurnPage, Block
  <2>3. /\ dataRuntime.state.controls /\ UNCHANGED <<visitor, dataJobs>>
        /\ dataRuntime' = [dataRuntime EXCEPT !.state = [dataRuntime.state EXCEPT !.page = p]]
    BY <1>6 DEF TurnPage
  <2> QED
    BY <2>1, <2>2, <2>3, ControlsKeepData
<1>7. ASSUME NEW j \in dataJobs, DataAnswers(j)
      PROVE  DataInv'
  BY <1>7, AudienceKeepsData, RowsKeepData, ApologyKeepsData DEF DataAnswers
<1>8. CASE UNCHANGED publicDataVars
  BY <1>8 DEF publicDataVars, DataInv, PublicDataTypeOK, Pass
<1> QED
  BY <1>1, <1>2, <1>3, <1>4, <1>5, <1>6, <1>7, <1>8 DEF PublicDataNext
-----------------------------------------------------------------------------
(***************************************************************************)
(* Inquiry forms.                                                            *)
(* Where typed text is meanwhile: in the form that is mounted, in one that is *)
(* mounted though another has replaced it, in the draft of a boot that is due, or *)
(* in a form that was moved.                                                 *)
(***************************************************************************)

\* Two drafts that leave the same text in a form.
SameText(a, b) == a.text = b.text /\ (a.text # NoText => a = b)

\* What a boot may restore of a draft: nothing if it is of a form that was moved.
Restorable(d) == IF d.identity = Altered THEN NoDraft ELSE d

\* typed goes with a form: it was typed into one of its compiled form, or is nothing.
GoesWith(draft, n) == form.text[n] = draft.text
                      /\ (draft.text # NoText => draft.identity = form.markup[n])

InquiryTyped == /\ InquiryTypeOK
                /\ \A c \in sending : /\ c.text \in Texts
                                      /\ c.at = "accepted" => c.text \in inbox

\* Nodes that are not made yet are empty, and nothing is in the document that was not made.
NodesAreMade == /\ form.at <= form.made /\ mount.node <= form.made
                /\ \A n \in FormNodes : n > form.made => form.text[n] = NoText

\* Where the text is that the visitor may expect: in the form that is mounted, in one
\* that is still mounted though another has taken its place, in the draft that waits, or
\* in a form that was moved and waits to be mounted again.
TypedIsThere ==
    /\ ~form.due => mount.node = form.at /\ form.removed = {}
    /\ form.due => \/ mount.node = 0 \/ mount.node \in form.removed \/ mount.node # form.at
    /\ mount.node # 0 => retired = NoDraft
    /\ mount.node = 0 => mount.job = 0
    /\ form.at = 0 => typed = NoDraft
    /\ ~form.due => retired = NoDraft
    /\ mount.node # 0 => mount.identity \in {form.markup[mount.node], Altered}
    /\ form.at # 0 =>
         \/ mount.node = form.at /\ GoesWith(typed, form.at)
         \/ /\ mount.node \notin {0, form.at} /\ form.text[form.at] = NoText
            /\ ~form.written /\ SameText(typed, Restorable(DraftOf(form, mount)))
         \/ /\ mount.node = 0 /\ form.text[form.at] = NoText
            /\ ~form.written /\ SameText(typed, Restorable(retired))
         \/ mount.node = 0 /\ retired = NoDraft /\ GoesWith(typed, form.at)

InquiryInv == InquiryTyped /\ NodesAreMade /\ TypedIsThere
-----------------------------------------------------------------------------
\* What the invariant says of the form: text that was typed is in it, or on its way there.
LEMMA InquiryPromises == InquiryInv => InquiryTypeOK /\ TypedTextIsKept
BY DEF InquiryInv, InquiryTyped, TypedIsThere, TypedTextIsKept, GoesWith

\* The nodes that forms are made of are numbers; 0 is none.
LEMMA NodesOfForms ==
  /\ 1 \in FormNodes /\ FormNodes \subseteq 0 .. MaxForms /\ 0 \notin FormNodes
  /\ \A n \in 0 .. MaxForms : n # 0 => n \in FormNodes
  /\ 0 \in 0 .. MaxForms
BY InquiryFormsAssumption DEF FormNodes

\* A page with an empty form.
LEMMA InquiryStarts == InquiryInit => InquiryInv
<1> SUFFICES ASSUME InquiryInit
             PROVE  InquiryInv
  OBVIOUS
<1> USE DEF InquiryInit
<1>1. form \in Form
  BY NodesOfForms, InquiryFormsAssumption DEF Form, AnyText
<1>2. mount \in Mount
  BY NodesOfForms, InquiryFormsAssumption DEF Mount, Identities
<1>3. InquiryTyped
  BY <1>1, <1>2 DEF InquiryTyped, InquiryTypeOK, Draft
<1>4. NodesAreMade
  BY DEF NodesAreMade, FormNodes
<1>5. GoesWith(typed, 1)
  BY NodesOfForms DEF GoesWith, NoDraft
<1>6. TypedIsThere
  BY <1>5, NodesOfForms DEF TypedIsThere
<1> QED
  BY <1>3, <1>4, <1>6 DEF InquiryInv
-----------------------------------------------------------------------------
\* The draft of a mounted form carries its text, unless it is being sent.
LEMMA DraftOfType ==
  ASSUME form \in Form, mount \in Mount, mount.node # 0
  PROVE  /\ DraftOf(form, mount) \in Draft
         /\ form.text[mount.node] # NoText /\ mount.job = 0
               => /\ DraftOf(form, mount).text = form.text[mount.node]
                  /\ DraftOf(form, mount).identity = mount.identity
BY NodesOfForms DEF Mount, Form, AnyText, DraftOf, Draft

\* The fields of the form that a reconciliation leaves alone.
SameNodes(f, g) == /\ f.at = g.at /\ f.made = g.made /\ f.markup = g.markup /\ f.text = g.text
                   /\ f.written = g.written /\ f.due = g.due

\* Releasing a mount leaves the text and the place of the form alone.
LEMMA ReleasedFields ==
  ASSUME NEW f \in Form, NEW m \in Mount, m.node # 0
  PROVE  Released(f, m) \in Form /\ SameNodes(Released(f, m), f) /\ Released(f, m).removed = f.removed
BY NodesOfForms DEF Form, Mount, Released, SameNodes

IsKept == mount.node = 0 \/ (mount.node \notin form.removed /\ form.at = mount.node)

\* Reconciling either finds the form in its place, or takes a draft of it.
LEMMA ReconciledFields ==
  ASSUME InquiryTyped
  PROVE  LET s == ReconciledForm
         IN  /\ s = [form |-> s.form, mount |-> s.mount, retired |-> s.retired]
             /\ s.form \in Form /\ s.mount \in Mount /\ s.retired \in Draft
             /\ SameNodes(s.form, form) /\ s.form.removed = {}
             /\ IsKept => /\ s.mount = mount /\ s.retired = retired
                          /\ s.form = [form EXCEPT !.removed = {}]
             /\ ~IsKept => /\ s.mount.node = 0 /\ s.mount.job = 0
                           /\ s.retired = IF form.at = mount.node THEN retired
                                          ELSE DraftOf(form, mount)
<1> DEFINE seen == [form EXCEPT !.removed = {}]
           rel == Released(seen, mount)
           gone == [mount EXCEPT !.node = 0, !.job = 0]
           draft == IF form.at = mount.node THEN retired ELSE DraftOf(form, mount)
           s == ReconciledForm
<1>1. form \in Form /\ mount \in Mount /\ retired \in Draft
  BY DEF InquiryTyped, InquiryTypeOK
<1>2. seen \in Form /\ SameNodes(seen, form) /\ seen.removed = {}
  BY <1>1 DEF Form, SameNodes
<1>3. s = IF IsKept THEN [form |-> seen, mount |-> mount, retired |-> retired]
          ELSE [form |-> rel, mount |-> gone, retired |-> draft]
  BY DEF ReconciledForm, IsKept
<1> HIDE DEF seen
<1>4. gone \in Mount /\ gone.node = 0 /\ gone.job = 0
  <2>1. 0 \in 0 .. MaxForms /\ 0 \in 0 .. MaxPresses
    BY InquiryFormsAssumption
  <2> QED
    BY <1>1, <2>1 DEF Mount
<1> HIDE DEF gone
<1>5. ~IsKept => mount.node # 0
  BY DEF IsKept
<1>6. ~IsKept => rel \in Form /\ SameNodes(rel, form) /\ rel.removed = {} /\ draft \in Draft
  BY <1>1, <1>2, <1>5, ReleasedFields, DraftOfType DEF SameNodes
<1> HIDE DEF rel, draft, s
<1>7. CASE IsKept
  BY <1>3, <1>7, <1>1, <1>2 DEF seen, s
<1>8. CASE ~IsKept
  BY <1>3, <1>8, <1>1, <1>4, <1>6 DEF draft, s
<1> QED
  BY <1>7, <1>8

\* A form that is being waited for at its answer is mounted where it was, and no records of
\* the host wait.
LEMMA CurrentIsMounted ==
  ASSUME InquiryInv, NEW c \in sending, CurrentForm(c, ReconciledForm)
  PROVE  /\ ~form.due /\ form.at = c.node /\ form.at # 0 /\ mount.node = form.at
         /\ ReconciledForm.mount = mount /\ ReconciledForm.retired = retired
         /\ ReconciledForm.form = form
<1>1. InquiryTyped /\ TypedIsThere
  BY DEF InquiryInv
<1>2. c.node # 0
  BY <1>1, NodesOfForms DEF InquiryTyped, InquiryTypeOK, Sending
<1>3. ReconciledForm.mount.node = c.node
  BY DEF CurrentForm
<1>4. IsKept
  BY <1>1, <1>2, <1>3, ReconciledFields
<1>5. ReconciledForm.mount = mount /\ ReconciledForm.retired = retired
      /\ ReconciledForm.form = [form EXCEPT !.removed = {}]
  BY <1>1, <1>4, ReconciledFields
<1>6. mount.node = c.node /\ mount.node \notin form.removed /\ form.at = mount.node
  BY <1>2, <1>3, <1>4, <1>5 DEF IsKept
<1>7. ~form.due /\ form.removed = {}
  BY <1>1, <1>2, <1>6 DEF TypedIsThere
<1>8. [form EXCEPT !.removed = {}] = form
  BY <1>1, <1>7 DEF InquiryTyped, InquiryTypeOK, Form
<1> QED
  BY <1>2, <1>5, <1>6, <1>7, <1>8
-----------------------------------------------------------------------------
\* A reconciliation before the observers run loses nothing.
LEMMA ReconciliationKeepsText ==
  ASSUME InquiryInv, TakesForm(ReconciledForm), typed' = typed
  PROVE  /\ form' \in Form /\ mount' \in Mount /\ retired' \in Draft
         /\ form'.text = form.text /\ NodesAreMade' /\ TypedIsThere'
<1> DEFINE s == ReconciledForm
<1>1. InquiryTyped /\ TypedIsThere /\ NodesAreMade
  BY DEF InquiryInv
<1>2. form' = s.form /\ mount' = s.mount /\ retired' = s.retired
  BY DEF TakesForm
<1>3. /\ s.form \in Form /\ s.mount \in Mount /\ s.retired \in Draft
      /\ SameNodes(s.form, form) /\ s.form.removed = {}
      /\ IsKept => s.mount = mount /\ s.retired = retired
      /\ ~IsKept => /\ s.mount.node = 0 /\ s.mount.job = 0
                    /\ s.retired = IF form.at = mount.node THEN retired ELSE DraftOf(form, mount)
  BY <1>1, ReconciledFields
<1> HIDE DEF s
<1>4. /\ form'.at = form.at /\ form'.made = form.made /\ form'.markup = form.markup
      /\ form'.text = form.text /\ form'.written = form.written /\ form'.due = form.due
      /\ form'.removed = {}
  BY <1>2, <1>3 DEF SameNodes
<1>5. NodesAreMade'
  BY <1>1, <1>2, <1>3, <1>4, InquiryFormsAssumption DEF InquiryTyped, InquiryTypeOK, Form,
     FormNodes, NodesAreMade
<1>6. CASE IsKept
  BY <1>2, <1>3, <1>6, <1>1, <1>4, <1>5 DEF TypedIsThere, IsKept, GoesWith
<1>7. CASE ~IsKept
  <2>1. form.due /\ mount.node # 0
    BY <1>1, <1>7 DEF TypedIsThere, IsKept
  <2>2. retired = NoDraft
    BY <1>1, <2>1 DEF TypedIsThere
  <2>3. mount'.node = 0 /\ mount'.job = 0
        /\ retired' = IF form.at = mount.node THEN retired ELSE DraftOf(form, mount)
    BY <1>2, <1>3, <1>7
  <2>4. form.at # 0 =>
           \/ form'.text[form'.at] = NoText /\ ~form'.written /\ SameText(typed', Restorable(retired'))
           \/ retired' = NoDraft /\ GoesWith(typed, form.at)'
    BY <1>1, <1>4, <2>1, <2>2, <2>3 DEF TypedIsThere, GoesWith
  <2>5. TypedIsThere'
    BY <1>1, <1>4, <2>1, <2>3, <2>4 DEF TypedIsThere
  <2> QED
    BY <1>2, <1>3, <1>4, <1>5, <2>5
<1> QED
  BY <1>6, <1>7
-----------------------------------------------------------------------------
\* The host renders another form.
LEMMA ReplacedFormKeepsInquiry ==
  ASSUME InquiryInv, NEW m \in Markups, HostReplacesForm(m)
  PROVE  InquiryInv'
<1> DEFINE new == form.made + 1
           markup == [form.markup EXCEPT ![new] = m]
           removed == form.removed \cup {form.at}
           f == [form EXCEPT !.at = new, !.made = new, !.markup = markup, !.removed = removed,
                             !.written = FALSE, !.due = TRUE]
<1>1. /\ InquiryTyped /\ NodesAreMade /\ TypedIsThere
      /\ form \in Form /\ mount \in Mount /\ retired \in Draft /\ typed \in Draft
  BY DEF InquiryInv, InquiryTyped, InquiryTypeOK
<1>2. /\ form.at # 0 /\ form.made < MaxForms
      /\ typed' = IF HandsOver THEN typed ELSE NoDraft
      /\ mount' = mount /\ retired' = retired /\ sending' = sending /\ inbox' = inbox
  BY DEF HostReplacesForm
<1>3. /\ new \in FormNodes /\ new \in 0 .. MaxForms /\ new # 0 /\ new > form.made /\ new \in Nat
      /\ form.made \in Nat /\ form.at \in FormNodes
  BY <1>1, <1>2, InquiryFormsAssumption, NodesOfForms DEF Form, FormNodes
<1>4. form' = f
  BY <1>1 DEF HostReplacesForm, Form
<1> HIDE DEF new
<1>5. markup \in [FormNodes -> Markups] /\ removed \in SUBSET FormNodes /\ form.at \in removed
      /\ form.removed \subseteq removed
  BY <1>1, <1>3 DEF Form
<1>6. \A n \in FormNodes : n # new => markup[n] = form.markup[n]
  BY <1>1 DEF Form
<1> HIDE DEF markup, removed
<1>7. /\ form' \in Form /\ form'.at = new /\ form'.made = new /\ form'.markup = markup
      /\ form'.removed = removed /\ ~form'.written /\ form'.due /\ form'.text = form.text
  BY <1>1, <1>3, <1>4, <1>5 DEF Form
<1>8. typed' \in Draft
  BY <1>1, <1>2 DEF Draft
<1>9. InquiryTyped'
  BY <1>1, <1>2, <1>7, <1>8 DEF InquiryTyped, InquiryTypeOK
<1>10. mount.node <= form.made /\ mount.node \in Nat
  BY <1>1, InquiryFormsAssumption DEF NodesAreMade, Mount
<1>11. NodesAreMade'
  BY <1>1, <1>2, <1>3, <1>7, <1>10 DEF NodesAreMade, FormNodes
<1>12. form'.text[new] = NoText
  BY <1>1, <1>3, <1>7 DEF NodesAreMade
<1>13. mount.node # new
  BY <1>3, <1>10
<1>14. mount'.node # 0 => SameText(typed', Restorable(DraftOf(form', mount')))
  <2> SUFFICES ASSUME mount.node # 0
               PROVE  SameText(typed', Restorable(DraftOf(form', mount)))
    BY <1>2
  <2>1. mount.node \in FormNodes
    BY <1>1, NodesOfForms DEF Mount
  <2>2. DraftOf(form', mount) = DraftOf(form, mount)
    BY <1>6, <1>7, <1>13, <2>1 DEF DraftOf
  <2>3. CASE ~HandsOver
    <3>1. Restorable(DraftOf(form, mount)) = NoDraft
      BY <2>3 DEF HandsOver, DraftOf, Restorable
    <3> QED
      BY <1>2, <2>2, <2>3, <3>1 DEF SameText
  <2>4. CASE HandsOver
    <3>1. typed' = typed /\ mount.job = 0 /\ mount.identity # Altered
      BY <1>2, <2>4 DEF HandsOver
    <3>2. CASE mount.node = form.at
      <4>1. GoesWith(typed, form.at) /\ mount.identity = form.markup[form.at]
        BY <1>1, <1>2, <3>1, <3>2 DEF TypedIsThere
      <4>2. typed.text = NoText => Restorable(DraftOf(form, mount)) = NoDraft
        BY <3>1, <3>2, <4>1 DEF GoesWith, DraftOf, Restorable
      <4>3. typed.text # NoText => DraftOf(form, mount) = [identity |-> typed.identity, text |-> typed.text]
        BY <3>1, <3>2, <4>1 DEF GoesWith, DraftOf
      <4>4. typed = [identity |-> typed.identity, text |-> typed.text]
        BY <1>1 DEF Draft, NoDraft
      <4>5. typed.text # NoText => Restorable(DraftOf(form, mount)) = typed
        BY <3>1, <3>2, <4>1, <4>3, <4>4 DEF Restorable, GoesWith
      <4> QED
        BY <2>2, <3>1, <4>2, <4>5 DEF SameText, NoDraft
    <3>3. CASE mount.node # form.at
      BY <1>1, <1>2, <2>2, <3>1, <3>3 DEF TypedIsThere
    <3> QED
      BY <3>2, <3>3
  <2> QED
    BY <2>3, <2>4
<1>15. mount'.node = 0 => SameText(typed', Restorable(retired'))
  <2>1. ~HandsOver /\ mount.node = 0 => Restorable(retired) = NoDraft
    BY DEF HandsOver, Restorable
  <2> QED
    BY <1>1, <1>2, <2>1 DEF TypedIsThere, HandsOver, SameText
<1>16. mount'.node = 0 \/ mount'.node \notin {0, form'.at}
  BY <1>2, <1>7, <1>13
<1>17. mount'.node # 0 => mount'.identity \in {form'.markup[mount'.node], Altered}
  <2>1. mount.node # 0 => mount.node \in FormNodes
    BY <1>1, NodesOfForms DEF Mount
  <2> QED
    BY <1>1, <1>2, <1>6, <1>7, <1>13, <2>1 DEF TypedIsThere
<1>18. TypedIsThere'
  BY <1>1, <1>2, <1>3, <1>7, <1>12, <1>13, <1>14, <1>15, <1>16, <1>17 DEF TypedIsThere
<1> QED
  BY <1>9, <1>11, <1>18 DEF InquiryInv

\* The host takes the form away.
LEMMA RemovedFormKeepsInquiry ==
  ASSUME InquiryInv, HostRemovesForm
  PROVE  InquiryInv'
<1> DEFINE removed == form.removed \cup {form.at}
<1>1. /\ InquiryTyped /\ NodesAreMade /\ TypedIsThere
      /\ form \in Form /\ mount \in Mount
  BY DEF InquiryInv, InquiryTyped, InquiryTypeOK
<1>2. /\ form.at # 0 /\ form' = [form EXCEPT !.at = 0, !.removed = removed, !.due = TRUE]
      /\ typed' = NoDraft
      /\ mount' = mount /\ retired' = retired /\ sending' = sending /\ inbox' = inbox
  BY DEF HostRemovesForm
<1>3. form.at \in FormNodes /\ form.made \in Nat
  BY <1>1, <1>2, NodesOfForms DEF Form, FormNodes
<1>4. removed \in SUBSET FormNodes
  BY <1>1, <1>3 DEF Form
<1> HIDE DEF removed
<1>5. /\ form' \in Form /\ form'.at = 0 /\ form'.made = form.made /\ form'.due /\ form'.text = form.text
      /\ form'.markup = form.markup
  BY <1>1, <1>2, <1>4, NodesOfForms DEF Form
<1>6. InquiryTyped'
  BY <1>1, <1>2, <1>5 DEF InquiryTyped, InquiryTypeOK, Draft
<1>7. NodesAreMade'
  BY <1>1, <1>2, <1>3, <1>5 DEF NodesAreMade
<1>8. TypedIsThere'
  BY <1>1, <1>2, <1>5 DEF TypedIsThere
<1> QED
  BY <1>6, <1>7, <1>8 DEF InquiryInv

\* The host puts a form where there was none.
LEMMA InsertedFormKeepsInquiry ==
  ASSUME InquiryInv, HostInsertsForm
  PROVE  InquiryInv'
<1> DEFINE new == form.made + 1
<1>1. /\ InquiryTyped /\ NodesAreMade /\ TypedIsThere
      /\ form \in Form /\ mount \in Mount
  BY DEF InquiryInv, InquiryTyped, InquiryTypeOK
<1>2. /\ form.at = 0 /\ ~form.due /\ form.made < MaxForms
      /\ mount' = mount /\ retired' = retired /\ sending' = sending /\ inbox' = inbox /\ typed' = typed
  BY DEF HostInsertsForm
<1>3. /\ new \in FormNodes /\ new \in 0 .. MaxForms /\ new # 0 /\ new > form.made /\ new \in Nat
      /\ form.made \in Nat
  BY <1>1, <1>2, InquiryFormsAssumption, NodesOfForms DEF Form, FormNodes
<1>4. form' = [form EXCEPT !.at = new, !.made = new, !.written = FALSE, !.due = TRUE]
  BY <1>1 DEF HostInsertsForm, Form
<1> HIDE DEF new
<1>5. /\ form' \in Form /\ form'.at = new /\ form'.made = new /\ ~form'.written /\ form'.due
      /\ form'.text = form.text
  BY <1>1, <1>3, <1>4 DEF Form
<1>6. InquiryTyped'
  BY <1>1, <1>2, <1>5 DEF InquiryTyped, InquiryTypeOK
<1>7. typed = NoDraft /\ retired = NoDraft /\ mount.node = 0
  BY <1>1, <1>2 DEF TypedIsThere
<1>8. NodesAreMade'
  BY <1>1, <1>2, <1>3, <1>5, <1>7 DEF NodesAreMade, FormNodes
<1>9. form'.text[new] = NoText
  BY <1>1, <1>3, <1>5 DEF NodesAreMade
<1>10. TypedIsThere'
  BY <1>1, <1>2, <1>3, <1>5, <1>7, <1>9 DEF TypedIsThere, SameText, Restorable
<1> QED
  BY <1>6, <1>8, <1>10 DEF InquiryInv

\* The host moves the form: the observers see it removed and added.
LEMMA MovedFormKeepsInquiry ==
  ASSUME InquiryInv, HostMovesForm
  PROVE  InquiryInv'
<1> DEFINE removed == form.removed \cup {form.at}
<1>1. /\ InquiryTyped /\ NodesAreMade /\ TypedIsThere
      /\ form \in Form /\ mount \in Mount
  BY DEF InquiryInv, InquiryTyped, InquiryTypeOK
<1>2. /\ form.at # 0 /\ form' = [form EXCEPT !.removed = removed, !.due = TRUE]
      /\ mount' = mount /\ retired' = retired /\ sending' = sending /\ inbox' = inbox /\ typed' = typed
  BY DEF HostMovesForm
<1>3. form.at \in FormNodes
  BY <1>1, <1>2, NodesOfForms DEF Form
<1>4. removed \in SUBSET FormNodes /\ form.at \in removed
  BY <1>1, <1>3 DEF Form
<1> HIDE DEF removed
<1>5. /\ form' \in Form /\ form'.at = form.at /\ form'.made = form.made /\ form'.due
      /\ form'.text = form.text /\ form'.markup = form.markup /\ form'.removed = removed
      /\ form'.written = form.written
  BY <1>1, <1>2, <1>4 DEF Form
<1>6. InquiryTyped'
  BY <1>1, <1>2, <1>5 DEF InquiryTyped, InquiryTypeOK
<1>7. NodesAreMade'
  BY <1>1, <1>2, <1>5 DEF NodesAreMade
<1>8. DraftOf(form', mount') = DraftOf(form, mount)
  BY <1>2, <1>5 DEF DraftOf
<1>9. mount'.node = 0 \/ mount'.node \in form'.removed \/ mount'.node # form'.at
  BY <1>2, <1>4, <1>5
<1>10. TypedIsThere'
  BY <1>1, <1>2, <1>5, <1>8, <1>9 DEF TypedIsThere, GoesWith
<1> QED
  BY <1>6, <1>7, <1>10 DEF InquiryInv

\* The visitor types.
LEMMA TypingKeepsInquiry ==
  ASSUME InquiryInv, NEW t \in Texts, Type(t)
  PROVE  InquiryInv'
<1> DEFINE text == [form.text EXCEPT ![form.at] = t]
           draft == [identity |-> form.markup[form.at], text |-> t]
<1>1. /\ InquiryTyped /\ NodesAreMade /\ TypedIsThere
      /\ form \in Form /\ mount \in Mount
  BY DEF InquiryInv, InquiryTyped, InquiryTypeOK
<1>2. /\ form.at # 0 /\ ~form.due /\ typed' = draft
      /\ mount' = mount /\ retired' = retired /\ sending' = sending /\ inbox' = inbox
  BY DEF Type
<1>3. form.at \in FormNodes /\ form.markup[form.at] \in Markups /\ form.made \in Nat
  <2>1. form.at \in FormNodes /\ form.made \in FormNodes
    BY <1>1, <1>2, NodesOfForms DEF Form
  <2>2. FormNodes \subseteq Nat
    BY DEF FormNodes
  <2> QED
    BY <1>1, <2>1, <2>2 DEF Form
<1>4. draft \in Draft /\ draft.text = t /\ draft.identity = form.markup[form.at]
  BY <1>3 DEF Draft, Identities
<1>5. /\ text \in [FormNodes -> AnyText] /\ text[form.at] = t
      /\ \A n \in FormNodes : n # form.at => text[n] = form.text[n]
  BY <1>1, <1>3 DEF Form, AnyText
<1>6. form' = [form EXCEPT !.text = text]
  BY <1>1 DEF Type, Form
<1> HIDE DEF text, draft
<1>7. /\ form' \in Form /\ form'.at = form.at /\ form'.made = form.made /\ form'.due = form.due
      /\ form'.text = text /\ form'.markup = form.markup /\ form'.removed = form.removed
  BY <1>1, <1>5, <1>6 DEF Form
<1>8. InquiryTyped'
  BY <1>1, <1>2, <1>4, <1>7 DEF InquiryTyped, InquiryTypeOK
<1>9. NodesAreMade'
  BY <1>1, <1>3, <1>2, <1>5, <1>7 DEF NodesAreMade, FormNodes
<1>10. mount.node = form.at /\ retired = NoDraft /\ form.removed = {}
  BY <1>1, <1>2 DEF TypedIsThere
<1>11. GoesWith(typed, form.at)'
  BY <1>2, <1>4, <1>5, <1>7 DEF GoesWith
<1>12. TypedIsThere'
  BY <1>1, <1>2, <1>7, <1>10, <1>11 DEF TypedIsThere
<1> QED
  BY <1>8, <1>9, <1>12 DEF InquiryInv

\* The visitor sends the form.
LEMMA PressKeepsInquiry ==
  ASSUME InquiryInv, Press
  PROVE  InquiryInv'
<1> DEFINE job == mount.presses + 1
           disabled == [form.disabled EXCEPT ![form.at] = TRUE]
           c == [job |-> job, node |-> form.at, text |-> form.text[form.at], at |-> "csrf"]
<1>1. /\ InquiryTyped /\ NodesAreMade /\ TypedIsThere
      /\ form \in Form /\ mount \in Mount /\ sending \subseteq Sending
  BY DEF InquiryInv, InquiryTyped, InquiryTypeOK
<1>2. /\ form.at # 0 /\ ~form.due /\ mount.node = form.at /\ form.text[form.at] # NoText
      /\ mount.presses < MaxPresses /\ sending' = sending \cup {c}
      /\ retired' = retired /\ inbox' = inbox /\ typed' = typed
  BY DEF Press
<1>3. form.at \in FormNodes /\ form.text[form.at] \in Texts
  BY <1>1, <1>2, NodesOfForms DEF Form, AnyText
<1>4. job \in 1 .. MaxPresses /\ job \in 0 .. MaxPresses
  BY <1>1, <1>2, InquiryFormsAssumption DEF Mount
<1>5. disabled \in [FormNodes -> BOOLEAN]
  BY <1>1, <1>3 DEF Form
<1>6. mount' = [mount EXCEPT !.job = job, !.presses = job]
  BY <1>1 DEF Press, Mount
<1>7. form' = [form EXCEPT !.disabled = disabled]
  BY <1>1 DEF Press, Form
<1> HIDE DEF job, disabled
<1>8. c \in Sending /\ c.text \in Texts /\ c.at = "csrf"
  BY <1>3, <1>4 DEF Sending, AnyText
<1> HIDE DEF c
<1>9. mount' \in Mount /\ mount'.node = mount.node /\ mount'.identity = mount.identity
  BY <1>1, <1>4, <1>6 DEF Mount
<1>10. form' \in Form /\ SameNodes(form', form) /\ form'.removed = form.removed
  BY <1>1, <1>5, <1>7 DEF Form, SameNodes
<1>11. InquiryTyped'
  BY <1>1, <1>2, <1>8, <1>9, <1>10 DEF InquiryTyped, InquiryTypeOK
<1>12. NodesAreMade'
  BY <1>1, <1>9, <1>10 DEF NodesAreMade, SameNodes
<1>13. GoesWith(typed, form.at) /\ retired = NoDraft
  BY <1>1, <1>2 DEF TypedIsThere
<1>14. GoesWith(typed, form.at)'
  BY <1>2, <1>10, <1>13 DEF GoesWith, SameNodes
<1>15. TypedIsThere'
  BY <1>1, <1>2, <1>9, <1>10, <1>13, <1>14 DEF TypedIsThere, SameNodes
<1> QED
  BY <1>11, <1>12, <1>15 DEF InquiryInv
-----------------------------------------------------------------------------
\* What a boot leaves: the form that is there is mounted, and has the text of the draft or
\* its own.
LEMMA BootedFields ==
  ASSUME NEW s, s.form \in Form, s.mount \in Mount, s.retired \in Draft
  PROVE  LET b == BootedForm(s)
             at == s.form.at
         IN  /\ b.form \in Form /\ b.mount \in Mount /\ b.retired = NoDraft
             /\ b.form.at = at /\ b.form.made = s.form.made /\ b.form.markup = s.form.markup
             /\ b.form.due = FALSE /\ b.form.removed = s.form.removed
             /\ b.mount.identity = IF at # 0 /\ s.mount.node # at THEN InquiryIdentity(s.form)
                                   ELSE s.mount.identity
             /\ \A n \in FormNodes : n # at => b.form.text[n] = NoText
             /\ b.mount.node = (IF at = 0 THEN s.mount.node ELSE at) /\ b.mount.job = s.mount.job
             /\ at # 0 => b.form.text[at] = IF s.mount.node # at /\ Restores(s) THEN s.retired.text
                                            ELSE s.form.text[at]
<1> DEFINE b == BootedForm(s)
           f == s.form
           at == f.at
           mounts == f.at # 0 /\ s.mount.node # f.at
           own == [n \in FormNodes |-> IF n = f.at THEN f.text[n] ELSE NoText]
           text == IF mounts /\ Restores(s) THEN [own EXCEPT ![f.at] = s.retired.text] ELSE own
           written == f.written \/ mounts
           g == [f EXCEPT !.text = text, !.due = FALSE, !.written = written]
           identity == InquiryIdentity(f)
           mounted == IF mounts THEN [s.mount EXCEPT !.node = f.at, !.identity = identity] ELSE s.mount
<1>1. b = [form |-> g, mount |-> mounted, retired |-> NoDraft]
  <2>1. [f EXCEPT !.text = text, !.due = FALSE, !.written = @ \/ mounts] = g
    BY DEF Form
  <2> QED
    BY <2>1 DEF BootedForm
<1>2. b.form = g /\ b.mount = mounted /\ b.retired = NoDraft
  BY <1>1
<1> HIDE DEF b
<1>3. at # 0 => at \in FormNodes
  BY NodesOfForms DEF Form
<1>4. /\ own \in [FormNodes -> AnyText]
      /\ \A n \in FormNodes : own[n] = IF n = at THEN f.text[n] ELSE NoText
  BY DEF Form, AnyText
<1>5. s.retired.text \in AnyText
  BY DEF Draft, AnyText, NoDraft
<1> HIDE DEF own
<1>6. /\ text \in [FormNodes -> AnyText]
      /\ \A n \in FormNodes : n # at => text[n] = NoText
      /\ at # 0 => text[at] = IF s.mount.node # at /\ Restores(s) THEN s.retired.text
                              ELSE f.text[at]
  BY <1>3, <1>4, <1>5
<1>9. written \in BOOLEAN
  BY DEF Form
<1>10. mounts => identity \in Identities
  BY <1>3 DEF InquiryIdentity, Identities, Form
<1> HIDE DEF text, written, identity
<1>7. /\ g \in Form /\ g.at = at /\ g.made = f.made /\ g.markup = f.markup
      /\ g.due = FALSE /\ g.removed = f.removed /\ g.text = text
  BY <1>6, <1>9 DEF Form
<1> HIDE DEF g
<1>8. /\ mounted \in Mount /\ mounted.job = s.mount.job
      /\ mounted.node = (IF at = 0 THEN s.mount.node ELSE at)
      /\ mounted.identity = IF mounts THEN identity ELSE s.mount.identity
  BY <1>10 DEF Form, Mount
<1> HIDE DEF mounted
<1> QED
  BY <1>2, <1>6, <1>7, <1>8 DEF b, identity

\* The observers: whatever was put in place of a form has its text.
LEMMA ObserversKeepInquiry ==
  ASSUME InquiryInv, FormObserversRun
  PROVE  InquiryInv'
<1> DEFINE r == ReconciledForm
           b == BootedForm(r)
<1>1. /\ InquiryTyped /\ NodesAreMade /\ TypedIsThere
      /\ form \in Form /\ mount \in Mount /\ retired \in Draft /\ typed \in Draft
  BY DEF InquiryInv, InquiryTyped, InquiryTypeOK
<1>2. /\ form.due /\ sending' = sending /\ inbox' = inbox
      /\ typed' = IF form.at # 0 /\ form.markup[form.at] = typed.identity THEN typed ELSE NoDraft
      /\ TakesForm(BootedForm(ReconciledForm))
  BY DEF FormObserversRun
<1>3. /\ r = [form |-> r.form, mount |-> r.mount, retired |-> r.retired]
      /\ r.form \in Form /\ r.mount \in Mount /\ r.retired \in Draft
      /\ SameNodes(r.form, form) /\ r.form.removed = {}
      /\ IsKept => r.mount = mount /\ r.retired = retired
      /\ ~IsKept => /\ r.mount.node = 0 /\ r.mount.job = 0
                    /\ r.retired = IF form.at = mount.node THEN retired ELSE DraftOf(form, mount)
  BY <1>1, ReconciledFields
<1>7. /\ b.form \in Form /\ b.mount \in Mount /\ b.retired = NoDraft
      /\ b.form.at = form.at /\ b.form.made = form.made /\ b.form.markup = form.markup
      /\ b.form.due = FALSE /\ b.form.removed = {}
      /\ b.mount.identity = IF form.at # 0 /\ r.mount.node # form.at THEN InquiryIdentity(form)
                            ELSE r.mount.identity
      /\ \A n \in FormNodes : n # form.at => b.form.text[n] = NoText
      /\ b.mount.node = (IF form.at = 0 THEN r.mount.node ELSE form.at) /\ b.mount.job = r.mount.job
      /\ form.at # 0 => b.form.text[form.at] = IF r.mount.node # form.at /\ Restores(r)
                                               THEN r.retired.text ELSE form.text[form.at]
  <2>1. form.at # 0 => InquiryIdentity(r.form) = InquiryIdentity(form)
    BY <1>3 DEF InquiryIdentity, SameNodes
  <2> QED
    BY <1>3, <2>1, BootedFields DEF SameNodes
<1>8. form' = b.form /\ mount' = b.mount /\ retired' = b.retired
  BY <1>2 DEF TakesForm
<1> HIDE DEF b, r
<1>9. typed' \in Draft
  BY <1>1, <1>2 DEF Draft
<1>10. InquiryTyped'
  BY <1>1, <1>2, <1>7, <1>8, <1>9 DEF InquiryTyped, InquiryTypeOK, Draft
<1>11. form.at = 0 => r.mount.node = 0
  BY <1>3 DEF IsKept
<1>12. mount'.node = form'.at
  BY <1>7, <1>8, <1>11
<1>13. NodesAreMade'
  BY <1>1, <1>7, <1>8, <1>12 DEF NodesAreMade, Form, FormNodes
<1>14. form.at # 0 =>
          \/ r.mount.node = form.at /\ GoesWith(typed, form.at)
          \/ /\ r.mount.node = 0 /\ form.text[form.at] = NoText
             /\ ~form.written /\ SameText(typed, Restorable(r.retired))
          \/ r.mount.node = 0 /\ r.retired = NoDraft /\ GoesWith(typed, form.at)
  <2> SUFFICES ASSUME form.at # 0
               PROVE  \/ r.mount.node = form.at /\ GoesWith(typed, form.at)
                      \/ /\ r.mount.node = 0 /\ form.text[form.at] = NoText
                         /\ ~form.written /\ SameText(typed, Restorable(r.retired))
                      \/ r.mount.node = 0 /\ r.retired = NoDraft /\ GoesWith(typed, form.at)
    OBVIOUS
  <2>1. CASE IsKept
    BY <1>1, <1>3, <2>1 DEF TypedIsThere, IsKept
  <2>2. CASE ~IsKept
    BY <1>1, <2>2, <1>3 DEF IsKept, TypedIsThere
  <2> QED
    BY <2>1, <2>2
<1>15. Restores(r) <=> /\ r.retired # NoDraft /\ r.retired.identity # Altered
                        /\ r.retired.identity = InquiryIdentity(form)
  <2>1. InquiryIdentity(r.form) = InquiryIdentity(form)
    BY <1>3 DEF InquiryIdentity, SameNodes
  <2> QED
    BY <2>1 DEF Restores
<1>16. form.at # 0 => GoesWith(typed, form.at)'
  <2> SUFFICES ASSUME form.at # 0
               PROVE  /\ b.form.text[form.at] = typed'.text
                      /\ typed'.text # NoText => typed'.identity = form.markup[form.at]
    BY <1>7, <1>8 DEF GoesWith
  <2>1. typed'.text # NoText => typed' = typed /\ typed'.identity = form.markup[form.at]
    BY <1>2 DEF NoDraft
  <2>2. form.markup[form.at] = typed.identity => typed' = typed
    BY <1>2
  <2>3. form.markup[form.at] # typed.identity => typed'.text = NoText
    BY <1>2 DEF NoDraft
  <2>4. CASE r.mount.node = form.at /\ GoesWith(typed, form.at)
    BY <1>7, <2>1, <2>2, <2>3, <2>4 DEF GoesWith
  <2>5. CASE /\ r.mount.node = 0 /\ form.text[form.at] = NoText
             /\ ~form.written /\ SameText(typed, Restorable(r.retired))
    <3>1. b.form.text[form.at] = IF Restores(r) THEN r.retired.text ELSE NoText
      BY <1>7, <2>5
    <3>2. InquiryIdentity(form) = form.markup[form.at]
      BY <2>5 DEF InquiryIdentity
    <3>3. CASE r.retired.identity = Altered
      <4>1. typed.text = NoText /\ ~Restores(r)
        BY <2>5, <3>3, <1>15 DEF SameText, Restorable, NoDraft
      <4> QED
        BY <1>2, <2>1, <3>1, <4>1 DEF NoDraft
    <3>4. CASE r.retired.identity # Altered
      <4>1. SameText(typed, r.retired)
        BY <2>5, <3>4 DEF Restorable
      <4>2. CASE typed.text = NoText
        BY <1>2, <2>1, <3>1, <4>1, <4>2 DEF SameText
      <4>3. CASE typed.text # NoText
        BY <1>15, <2>1, <2>2, <2>3, <3>1, <3>2, <3>4, <4>1, <4>3 DEF SameText, NoDraft
      <4> QED
        BY <4>2, <4>3
    <3> QED
      BY <3>3, <3>4
  <2>6. CASE r.mount.node = 0 /\ r.retired = NoDraft /\ GoesWith(typed, form.at)
    BY <1>7, <1>15, <2>1, <2>2, <2>3, <2>6 DEF GoesWith
  <2> QED
    BY <1>14, <2>4, <2>5, <2>6
<1>17. mount'.node = 0 => mount'.job = 0
  <2>1. form.at = 0 => r.mount.job = 0
    BY <1>1, <1>3, <1>11 DEF TypedIsThere
  <2> QED
    BY <1>7, <1>8, <2>1
<1>18. form.at = 0 => typed' = NoDraft
  BY <1>2
<1>19. mount'.node # 0 => mount'.identity \in {form'.markup[mount'.node], Altered}
  <2>1. InquiryIdentity(form) \in {form.markup[form.at], Altered}
    BY DEF InquiryIdentity
  <2>2. r.mount.node = form.at /\ form.at # 0 => r.mount.identity \in {form.markup[form.at], Altered}
    BY <1>1, <1>3 DEF IsKept, TypedIsThere
  <2> QED
    BY <1>7, <1>8, <1>12, <2>1, <2>2
<1>20. TypedIsThere'
  BY <1>7, <1>8, <1>12, <1>16, <1>17, <1>18, <1>19 DEF TypedIsThere
<1> QED
  BY <1>10, <1>13, <1>20 DEF InquiryInv
-----------------------------------------------------------------------------
\* What the end of a current submission leaves.
LEMMA EndedFields ==
  ASSUME InquiryInv, NEW c \in sending, CurrentForm(c, ReconciledForm)
  PROVE  LET e == EndedForm(ReconciledForm)
         IN  /\ e.form \in Form /\ SameNodes(e.form, form) /\ e.form.removed = form.removed
             /\ e.mount \in Mount /\ e.mount.node = mount.node /\ e.mount.job = 0
             /\ e.mount.identity = mount.identity
             /\ e.retired = retired
<1> DEFINE e == EndedForm(ReconciledForm)
           disabled == [form.disabled EXCEPT ![mount.node] = FALSE]
           f == [form EXCEPT !.disabled = disabled]
           m == [mount EXCEPT !.job = 0]
<1>1. form \in Form /\ mount \in Mount
  BY DEF InquiryInv, InquiryTyped, InquiryTypeOK
<1>2. /\ ReconciledForm.mount = mount /\ ReconciledForm.retired = retired
      /\ ReconciledForm.form = form /\ form.at # 0 /\ mount.node = form.at
  BY CurrentIsMounted
<1>3. disabled \in [FormNodes -> BOOLEAN]
  BY <1>1, <1>2, NodesOfForms DEF Form
<1>4. [form EXCEPT !.disabled[mount.node] = FALSE] = f
  BY <1>1 DEF Form
<1>5. e = [form |-> f, mount |-> m, retired |-> retired]
  BY <1>2, <1>4 DEF EndedForm
<1>6. e.form = f /\ e.mount = m /\ e.retired = retired
  BY <1>5
<1> HIDE DEF disabled, e
<1>7. f \in Form /\ SameNodes(f, form) /\ f.removed = form.removed
  BY <1>1, <1>3 DEF Form, SameNodes
<1>8. m \in Mount /\ m.node = mount.node /\ m.job = 0 /\ m.identity = mount.identity
  BY <1>1, InquiryFormsAssumption DEF Mount
<1> HIDE DEF f, m
<1> QED
  BY <1>6, <1>7, <1>8 DEF e

\* The end of a submission leaves the text where it was.
LEMMA EndKeepsText ==
  ASSUME InquiryInv, NEW c \in sending, CurrentForm(c, ReconciledForm),
         TakesForm(EndedForm(ReconciledForm)), typed' = typed
  PROVE  form' \in Form /\ mount' \in Mount /\ retired' \in Draft /\ NodesAreMade' /\ TypedIsThere'
<1>1. NodesAreMade /\ TypedIsThere /\ retired \in Draft
  BY DEF InquiryInv, InquiryTyped, InquiryTypeOK
<1>2. /\ form' \in Form /\ SameNodes(form', form) /\ form'.removed = form.removed
      /\ mount' \in Mount /\ mount'.node = mount.node /\ mount'.job = 0
      /\ mount'.identity = mount.identity
      /\ retired' = retired
  BY EndedFields DEF TakesForm
<1>3. /\ ~form.due /\ form.at # 0 /\ mount.node = form.at
  BY CurrentIsMounted
<1>4. NodesAreMade'
  BY <1>1, <1>2 DEF NodesAreMade, SameNodes
<1>5. GoesWith(typed, form.at)
  BY <1>1, <1>3 DEF TypedIsThere
<1>6. GoesWith(typed, form.at)'
  BY <1>2, <1>5 DEF GoesWith, SameNodes
<1>7. TypedIsThere'
  BY <1>1, <1>2, <1>3, <1>6 DEF TypedIsThere, SameNodes
<1> QED
  BY <1>1, <1>2, <1>4, <1>7

\* The session's cookie has come, or not.
LEMMA CookieKeepsInquiry ==
  ASSUME InquiryInv, NEW c \in sending, NEW ok \in BOOLEAN, CsrfAnswered(c, ok)
  PROVE  InquiryInv'
<1> DEFINE p == [c EXCEPT !.at = "post"]
<1>1. InquiryTyped
  BY DEF InquiryInv
<1>2. typed' = typed /\ inbox' = inbox
  BY DEF CsrfAnswered
<1>3. p \in Sending /\ p.text = c.text /\ p.at = "post"
  BY <1>1 DEF InquiryTyped, InquiryTypeOK, Sending
<1>4. form' \in Form /\ mount' \in Mount /\ retired' \in Draft /\ NodesAreMade' /\ TypedIsThere'
  BY <1>2, ReconciliationKeepsText, EndKeepsText DEF CsrfAnswered
<1>5. sending' = sending \ {c} \/ sending' = (sending \ {c}) \cup {p}
  BY DEF CsrfAnswered
<1> HIDE DEF p
<1>6. InquiryTyped'
  BY <1>1, <1>2, <1>3, <1>4, <1>5 DEF InquiryTyped, InquiryTypeOK
<1> QED
  BY <1>4, <1>6 DEF InquiryInv

\* The server's part touches nothing of the page.
LEMMA ServerKeepsInquiry ==
  ASSUME InquiryInv, NEW c \in sending, NEW at \in {"accepted", "refused"},
         ServerHandlesInquiry(c, at)
  PROVE  InquiryInv'
<1> DEFINE p == [c EXCEPT !.at = at]
<1>1. InquiryTyped /\ NodesAreMade /\ TypedIsThere
  BY DEF InquiryInv
<1>2. /\ form' = form /\ mount' = mount /\ retired' = retired /\ typed' = typed
      /\ sending' = (sending \ {c}) \cup {p}
      /\ inbox' = inbox \/ inbox' = inbox \cup {c.text}
      /\ at = "accepted" => inbox' = inbox \cup {c.text}
  BY DEF ServerHandlesInquiry
<1>3. p \in Sending /\ p.text = c.text /\ p.at = at /\ c.text \in Texts
  BY <1>1 DEF InquiryTyped, InquiryTypeOK, Sending
<1> HIDE DEF p
<1>4. InquiryTyped'
  BY <1>1, <1>2, <1>3 DEF InquiryTyped, InquiryTypeOK
<1>5. NodesAreMade' /\ TypedIsThere'
  BY <1>1, <1>2 DEF NodesAreMade, TypedIsThere, GoesWith, DraftOf
<1> QED
  BY <1>4, <1>5 DEF InquiryInv

\* The answer: the form is emptied of nothing but what the server has.
LEMMA AnswerKeepsInquiry ==
  ASSUME InquiryInv, NEW c \in sending, InquiryAnswered(c)
  PROVE  InquiryInv' /\ (form'.text[c.node] # form.text[c.node] => form.text[c.node] \in inbox)
<1> DEFINE s == ReconciledForm
           current == CurrentForm(c, s)
           empties == current /\ c.at = "accepted" /\ Emptied(c, s)
<1>1. InquiryTyped /\ NodesAreMade /\ TypedIsThere
  BY DEF InquiryInv
<1>2. inbox' = inbox /\ sending' = sending \ {c}
      /\ typed' = IF empties /\ typed.text = c.text THEN NoDraft ELSE typed
  BY DEF InquiryAnswered
<1>3. c.text \in Texts /\ (c.at = "accepted" => c.text \in inbox) /\ c.node \in FormNodes
  BY <1>1 DEF InquiryTyped, InquiryTypeOK, Sending
<1>4. CASE ~current
  BY <1>2, <1>4, <1>1, ReconciliationKeepsText DEF InquiryAnswered, TakesForm, InquiryTyped,
     InquiryTypeOK, InquiryInv
<1>5. CASE current /\ ~empties
  BY <1>2, <1>5, <1>1, EndKeepsText, EndedFields DEF InquiryAnswered, TakesForm, InquiryTyped,
     InquiryTypeOK, SameNodes, InquiryInv
<1>6. CASE current /\ empties
  <2> DEFINE e == EndedForm(s)
             text == [form.text EXCEPT ![c.node] = NoText]
             f == [e.form EXCEPT !.text = text]
  <2>1. /\ form' = [e.form EXCEPT !.text[c.node] = NoText]
        /\ mount' = e.mount /\ retired' = e.retired
    BY <1>6 DEF InquiryAnswered
  <2>2. /\ e.form \in Form /\ SameNodes(e.form, form) /\ e.form.removed = form.removed
        /\ e.mount \in Mount /\ e.mount.node = mount.node /\ e.mount.job = 0
        /\ e.mount.identity = mount.identity
        /\ e.retired = retired
    BY <1>6, EndedFields
  <2>3. /\ ~form.due /\ form.at = c.node /\ form.at # 0 /\ mount.node = form.at
        /\ ReconciledForm.form = form
    BY <1>6, CurrentIsMounted
  <2> HIDE DEF e
  <2>4. form' = f
    BY <2>1, <2>2 DEF Form, SameNodes
  <2>5. text \in [FormNodes -> AnyText] /\ text[c.node] = NoText
        /\ \A n \in FormNodes : n # c.node => text[n] = form.text[n]
    BY <1>1, <1>3 DEF InquiryTyped, InquiryTypeOK, Form, AnyText
  <2>6. form.text[c.node] = c.text
    BY <1>6, <2>3 DEF Emptied
  <2> HIDE DEF text
  <2>7. /\ form' \in Form /\ form'.at = form.at /\ form'.made = form.made
        /\ form'.text = text /\ form'.markup = form.markup
        /\ form'.due = form.due /\ form'.removed = form.removed
    BY <2>2, <2>4, <2>5 DEF Form, SameNodes
  <2>8. GoesWith(typed, form.at) /\ retired = NoDraft /\ form.removed = {}
    BY <1>1, <2>3 DEF TypedIsThere
  <2>9. typed' = NoDraft
    BY <1>2, <1>6, <2>3, <2>6, <2>8 DEF GoesWith
  <2>10. InquiryTyped'
    BY <1>1, <1>2, <2>1, <2>2, <2>7, <2>9 DEF InquiryTyped, InquiryTypeOK, Draft
  <2>11. NodesAreMade'
    BY <1>1, <2>1, <2>2, <2>5, <2>7 DEF NodesAreMade
  <2>12. GoesWith(typed, form.at)'
    BY <2>3, <2>5, <2>7, <2>9 DEF GoesWith, NoDraft
  <2>13. TypedIsThere'
    BY <1>1, <2>1, <2>2, <2>3, <2>7, <2>8, <2>12 DEF TypedIsThere
  <2> QED
    BY <1>3, <1>6, <2>6, <2>10, <2>11, <2>13 DEF InquiryInv
<1> QED
  BY <1>4, <1>5, <1>6

\* Every step keeps the forms, and a form is cleared only by the server that has its text.
LEMMA InquiryStays ==
  ASSUME InquiryInv, [InquiryNext]_inquiryVars
  PROVE  /\ InquiryInv'
         /\ \A c \in sending : InquiryAnswered(c) /\ form'.text[c.node] # form.text[c.node]
                                  => form.text[c.node] \in inbox
<1>1. ASSUME InquiryNext PROVE InquiryInv'
  <2>1. CASE HostRemovesForm
    BY <2>1, RemovedFormKeepsInquiry
  <2>2. CASE HostInsertsForm
    BY <2>2, InsertedFormKeepsInquiry
  <2>3. CASE HostMovesForm
    BY <2>3, MovedFormKeepsInquiry
  <2>4. CASE FormObserversRun
    BY <2>4, ObserversKeepInquiry
  <2>5. CASE Press
    BY <2>5, PressKeepsInquiry
  <2>6. ASSUME NEW m \in Markups, HostReplacesForm(m)
        PROVE  InquiryInv'
    BY <2>6, ReplacedFormKeepsInquiry
  <2>7. ASSUME NEW t \in Texts, Type(t)
        PROVE  InquiryInv'
    BY <2>7, TypingKeepsInquiry
  <2>8. ASSUME NEW c \in sending, FormAnswers(c)
        PROVE  InquiryInv'
    BY <2>8, AnswerKeepsInquiry, CookieKeepsInquiry, ServerKeepsInquiry DEF FormAnswers
  <2> QED
    BY <1>1, <2>1, <2>2, <2>3, <2>4, <2>5, <2>6, <2>7, <2>8 DEF InquiryNext
<1>2. ASSUME UNCHANGED inquiryVars PROVE InquiryInv'
  BY <1>2 DEF inquiryVars, InquiryInv, InquiryTyped, InquiryTypeOK, NodesAreMade, TypedIsThere,
     GoesWith, DraftOf
<1> QED
  BY <1>1, <1>2, AnswerKeepsInquiry
-----------------------------------------------------------------------------
(***************************************************************************)
(* Shell of the site.                                                        *)
(* A refresh has one request on its way, of the token that was announced, and *)
(* the panel's request is of the transitions it was made in.                 *)
(***************************************************************************)

Refreshing(c) == c.kind \in {"user", "cart", "unread"}
OfPanel(c) == c.kind \in {"mark", "list"}

\* A refresh has one request on its way, for the session of its time.
RefreshesAreSingle ==
    /\ 1 <= shell.refresh /\ shell.transitions + 1 <= 2 * shell.refresh
    /\ \A c \in shellCalls : Refreshing(c) =>
         /\ c.id <= shell.refresh
         /\ c.id = shell.refresh => /\ c.kind = "user" => shell.transitions + 2 <= 2 * shell.refresh
                                    /\ session.announced => c.of = session.token
         /\ \A d \in shellCalls : Refreshing(d) /\ d.id = c.id => d = c

\* The request of the panel was sent in the session that is shown.
PanelIsOfItsSession ==
    \A c \in shellCalls : OfPanel(c) =>
        c.id <= panel.loads /\ (c.id = panel.request => c.at = shell.transitions)

ShellInv == SiteShellTypeOK /\ RefreshesAreSingle /\ PanelIsOfItsSession /\ ShowsOneAccount
-----------------------------------------------------------------------------
\* What the invariant says of the page: one account is shown.
LEMMA ShellPromises == ShellInv => SiteShellTypeOK /\ ShowsOneAccount
BY DEF ShellInv

\* The bounds are numbers with room for the first of each.
LEMMA ShellNumbers ==
  /\ MaxRefreshes \in Nat /\ 1 <= MaxRefreshes /\ MaxPanelLoads \in Nat /\ MaxLogouts \in Nat
  /\ 0 \in 0 .. MaxPanelLoads /\ 0 \in 0 .. MaxLogouts /\ 0 \in 0 .. MaxSignIns
  /\ 0 \in 0 .. 2 * MaxRefreshes /\ 1 \in 0 .. MaxRefreshes
  /\ \A n \in 1 .. MaxRefreshes : n \in 1 .. MaxRefreshes + MaxPanelLoads + MaxLogouts
  /\ \A n \in 1 .. MaxPanelLoads : n \in 1 .. MaxRefreshes + MaxPanelLoads + MaxLogouts
  /\ \A n \in 1 .. MaxLogouts : n \in 1 .. MaxRefreshes + MaxPanelLoads + MaxLogouts
BY SiteShellAssumption

\* A request carries the token and the count of transitions of its time.
LEMMA SentCall ==
  ASSUME session \in Session, shell \in Shell,
         NEW kind \in {"user", "cart", "unread", "mark", "list", "logout"},
         NEW id \in 1 .. MaxRefreshes + MaxPanelLoads + MaxLogouts
  PROVE  /\ Sent(kind, id) \in ShellCall /\ Sent(kind, id).kind = kind /\ Sent(kind, id).id = id
         /\ Sent(kind, id).of = session.token /\ Sent(kind, id).at = shell.transitions
BY DEF Session, Shell, Sent, ShellCall

\* The shell of a page that was just loaded.
LEMMA LoadedFields ==
  ASSUME NEW who \in Who
  PROVE  /\ LoadedShell \in Shell /\ LoadedShell.refresh = 1 /\ LoadedShell.transitions = 0
         /\ LoadedShell.uncertain
         /\ FirstCall(who) \in ShellCall /\ FirstCall(who).kind = "user" /\ FirstCall(who).id = 1
         /\ FirstCall(who).of = who
         /\ [FreshPanel EXCEPT !.mounted = TRUE] \in Panel
<1>1. 1 \in 1 .. MaxRefreshes + MaxPanelLoads + MaxLogouts
  BY ShellNumbers
<1>2. FirstCall(who) \in ShellCall /\ FirstCall(who).kind = "user" /\ FirstCall(who).id = 1
      /\ FirstCall(who).of = who
  BY <1>1, ShellNumbers DEF FirstCall, ShellCall
<1>3. LoadedShell \in Shell /\ LoadedShell.refresh = 1 /\ LoadedShell.transitions = 0
      /\ LoadedShell.uncertain
  BY ShellNumbers DEF LoadedShell, Shell, Who
<1>4. FreshPanel \in Panel
  BY ShellNumbers DEF FreshPanel, Panel
<1>5. [FreshPanel EXCEPT !.mounted = TRUE] \in Panel
  BY <1>4 DEF Panel
<1> QED
  BY <1>2, <1>3, <1>5

\* A page that has just been loaded for whoever the browser holds.
LEMMA LoadedShellIsSound ==
  ASSUME session' \in Session, logout' \in Logout, shell' = LoadedShell,
         panel' = [FreshPanel EXCEPT !.mounted = TRUE],
         shellCalls' = {FirstCall(session'.token)}
  PROVE  ShellInv'
<1> DEFINE who == session'.token
           first == FirstCall(who)
<1>1. who \in Who
  BY DEF Session
<1>2. /\ shell' \in Shell /\ shell'.refresh = 1 /\ shell'.transitions = 0 /\ shell'.uncertain
      /\ first \in ShellCall /\ first.kind = "user" /\ first.id = 1 /\ first.of = who
      /\ panel' \in Panel
  BY <1>1, LoadedFields
<1>3. shellCalls' = {first}
  OBVIOUS
<1> HIDE DEF first
<1>4. SiteShellTypeOK'
  BY <1>2, <1>3 DEF SiteShellTypeOK
<1>5. RefreshesAreSingle'
  BY <1>2, <1>3 DEF RefreshesAreSingle, Refreshing
<1>6. PanelIsOfItsSession'
  BY <1>2, <1>3 DEF PanelIsOfItsSession, OfPanel
<1>7. ShowsOneAccount'
  BY <1>2 DEF ShowsOneAccount
<1> QED
  BY <1>4, <1>5, <1>6, <1>7 DEF ShellInv
-----------------------------------------------------------------------------
\* A panel without a request.
LEMMA DisposedPanel ==
  ASSUME NEW p \in Panel
  PROVE  /\ DisposedRequest(p) \in Panel /\ DisposedRequest(p).request = 0
         /\ DisposedRequest(p).loads = p.loads /\ DisposedRequest(p).list = p.list
BY ShellNumbers DEF Panel, DisposedRequest

\* A transition: no request of the panel is current any more.
LEMMA TransitionKeepsPanel ==
  ASSUME SiteShellTypeOK, PanelIsOfItsSession, panel' = TransitionedPanel(panel),
         \A c \in shellCalls' : OfPanel(c) => c \in shellCalls
  PROVE  panel' \in Panel /\ PanelIsOfItsSession'
BY DisposedPanel DEF SiteShellTypeOK, TransitionedPanel, ShellCall, PanelIsOfItsSession

\* Another tab signs in or out: this one has not heard of it yet.
LEMMA OtherTabKeepsShell ==
  ASSUME ShellInv, NEW who \in Who, OtherTabSigns(who)
  PROVE  ShellInv'
<1> DEFINE signIns == session.changes + 1
<1>1. /\ SiteShellTypeOK /\ RefreshesAreSingle /\ PanelIsOfItsSession
      /\ UNCHANGED <<shell, panel, logout, shellCalls>>
  BY DEF ShellInv, OtherTabSigns
<1>2. signIns \in 0 .. MaxSignIns
  BY SiteShellAssumption DEF ShellInv, SiteShellTypeOK, Session, OtherTabSigns
<1>3. session' = [token |-> who, changes |-> signIns, announced |-> FALSE]
  BY DEF OtherTabSigns
<1> HIDE DEF signIns
<1>4. session' \in Session /\ session'.announced = FALSE
  BY <1>2, <1>3 DEF Session
<1>5. SiteShellTypeOK'
  BY <1>1, <1>4 DEF SiteShellTypeOK
<1>6. RefreshesAreSingle'
  BY <1>1, <1>4 DEF RefreshesAreSingle
<1>7. PanelIsOfItsSession'
  BY <1>1 DEF PanelIsOfItsSession
<1>8. ShowsOneAccount'
  BY <1>4 DEF ShowsOneAccount
<1> QED
  BY <1>5, <1>6, <1>7, <1>8 DEF ShellInv

\* The storage event, or a page that comes back: everything is asked for again.
LEMMA EventKeepsShell ==
  ASSUME ShellInv, StorageEvent \/ PageShown
  PROVE  ShellInv'
<1> DEFINE next == shell.refresh + 1
           moved == shell.transitions + 1
           first == Sent("user", next)
<1>1. /\ SiteShellTypeOK /\ RefreshesAreSingle /\ PanelIsOfItsSession
      /\ session \in Session /\ shell \in Shell /\ SessionEvent /\ UNCHANGED logout
  BY DEF ShellInv, SiteShellTypeOK, StorageEvent, PageShown, SessionEvent
<1>2. /\ shell.refresh \in Nat /\ shell.transitions \in Nat /\ shell.refresh < MaxRefreshes
      /\ shell.transitions + 1 <= 2 * shell.refresh /\ 1 <= shell.refresh
  BY <1>1, ShellNumbers DEF SessionEvent, StartsRefresh, Shell, RefreshesAreSingle
<1>3. /\ next \in 1 .. MaxRefreshes /\ next \in 0 .. MaxRefreshes /\ moved \in 0 .. 2 * MaxRefreshes
      /\ moved + 2 <= 2 * next /\ shell.refresh < next /\ next \in Nat /\ moved \in Nat
      /\ moved + 1 <= 2 * next
  BY <1>2, ShellNumbers
<1>4. shell' = [shell EXCEPT !.refresh = next, !.transitions = moved, !.uncertain = TRUE]
      /\ shellCalls' = shellCalls \cup {first} /\ panel' = TransitionedPanel(panel)
  BY <1>1 DEF SessionEvent, StartsRefresh
<1> HIDE DEF next, moved
<1>5. /\ first \in ShellCall /\ first.kind = "user" /\ first.id = next /\ first.of = session.token
  BY <1>1, <1>3, SentCall, ShellNumbers
<1>6. shell' \in Shell /\ shell'.refresh = next /\ shell'.transitions = moved /\ shell'.uncertain = TRUE
  BY <1>1, <1>3, <1>4 DEF Shell
<1> HIDE DEF first
<1>7. session' \in Session /\ session'.token = session.token
  BY <1>1 DEF StorageEvent, PageShown, Session
<1>8. panel' \in Panel /\ PanelIsOfItsSession'
  BY <1>5, <1>1, <1>4, TransitionKeepsPanel DEF OfPanel
<1>9. SiteShellTypeOK'
  BY <1>1, <1>4, <1>5, <1>6, <1>7, <1>8 DEF SiteShellTypeOK
<1>10. RefreshesAreSingle'
  BY <1>1, <1>2, <1>3, <1>4, <1>5, <1>6, <1>7, ShellNumbers DEF RefreshesAreSingle, SiteShellTypeOK,
     ShellCall
<1>11. ShowsOneAccount'
  BY <1>6 DEF ShowsOneAccount
<1> QED
  BY <1>8, <1>9, <1>10, <1>11 DEF ShellInv
-----------------------------------------------------------------------------
\* The answer that names the user: a refresh that ended certain shows who the browser has.
LEMMA UserAnswerKeepsShell ==
  ASSUME ShellInv, NEW c \in shellCalls, NEW user \in Who, UserAnswered(c, user)
  PROVE  ShellInv'
<1>1. /\ SiteShellTypeOK /\ RefreshesAreSingle /\ PanelIsOfItsSession /\ ShowsOneAccount
      /\ session \in Session /\ shell \in Shell /\ panel \in Panel /\ shellCalls \subseteq ShellCall
      /\ c.kind = "user" /\ user \in {c.of, Nobody} /\ session' = session /\ logout' = logout
  BY DEF ShellInv, SiteShellTypeOK, UserAnswered
<1>2. CASE ~CurrentRefresh(c)
  BY <1>2, <1>1 DEF UserAnswered, SiteShellTypeOK, PanelIsOfItsSession, ShowsOneAccount,
     RefreshesAreSingle, ShellInv
<1>3. CASE CurrentRefresh(c)
  <2> DEFINE named == [shell EXCEPT !.user = user, !.cart = Unknown, !.count = Unknown,
                                    !.uncertain = user # c.of]
             moved == shell.transitions + 1
             next == [Sent("cart", c.id) EXCEPT !.at = shell'.transitions]
  <2>1. /\ shell' = Published(named)
        /\ panel' = IF user = shell.identity THEN panel ELSE TransitionedPanel(panel)
        /\ shellCalls' = (shellCalls \ {c}) \cup {next}
    BY <1>3 DEF UserAnswered
  <2>2. /\ named \in Shell /\ named.user = user /\ named.cart = Unknown /\ named.count = Unknown
        /\ named.uncertain = (user # c.of) /\ named.identity = shell.identity
        /\ named.refresh = shell.refresh /\ named.transitions = shell.transitions
    BY <1>1 DEF Shell
  <2>3. c.id = shell.refresh /\ shell.transitions + 2 <= 2 * shell.refresh
        /\ (session.announced => c.of = session.token) /\ 1 <= shell.refresh
        /\ shell.refresh \in Nat /\ shell.transitions \in Nat
        /\ shell.refresh \in 1 .. MaxRefreshes
    BY <1>1, <1>3, ShellNumbers DEF CurrentRefresh, RefreshesAreSingle, Refreshing, Shell
  <2>4. moved \in 0 .. 2 * MaxRefreshes /\ moved + 1 <= 2 * shell.refresh
        /\ shell.transitions + 1 <= 2 * shell.refresh
    BY <2>3, ShellNumbers
  <2>5. shell' = IF user = shell.identity THEN named
                 ELSE [named EXCEPT !.identity = user, !.transitions = moved]
    BY <2>1, <2>2 DEF Published
  <2> HIDE DEF named, moved
  <2>6. /\ shell' \in Shell /\ shell'.user = user /\ shell'.cart = Unknown /\ shell'.count = Unknown
        /\ shell'.uncertain = (user # c.of) /\ shell'.refresh = shell.refresh
        /\ shell'.transitions + 1 <= 2 * shell.refresh
        /\ user = shell.identity => shell'.transitions = shell.transitions
    <3>1. CASE user = shell.identity
      BY <2>2, <2>4, <2>5, <3>1
    <3>2. CASE user # shell.identity
      BY <2>2, <2>4, <2>5, <3>2 DEF Shell
    <3> QED
      BY <3>1, <3>2
  <2>7. /\ next \in ShellCall /\ next.kind = "cart" /\ next.id = c.id /\ next.of = session.token
    BY <1>1, <2>3, <2>6, SentCall, ShellNumbers DEF Shell, ShellCall
  <2> HIDE DEF next
  <2>8. panel' \in Panel /\ PanelIsOfItsSession'
    BY <1>1, <2>7, <2>1, <2>6, TransitionKeepsPanel DEF OfPanel, PanelIsOfItsSession
  <2>9. SiteShellTypeOK'
    BY <1>1, <2>1, <2>6, <2>7, <2>8 DEF SiteShellTypeOK
  <2>10. RefreshesAreSingle'
    BY <1>1, <2>1, <2>3, <2>6, <2>7 DEF RefreshesAreSingle, Refreshing
  <2>11. ShowsOneAccount'
    BY <1>1, <2>3, <2>6 DEF ShowsOneAccount
  <2> QED
    BY <2>8, <2>9, <2>10, <2>11 DEF ShellInv
<1> QED
  BY <1>2, <1>3
-----------------------------------------------------------------------------
\* Another field of the shell is written; what the refreshes and the panel go by stays.
SameRefresh(s, t) == s.refresh = t.refresh /\ s.transitions = t.transitions

\* The number of the cart is of the session that asked.
LEMMA CartAnswerKeepsShell ==
  ASSUME ShellInv, NEW c \in shellCalls, NEW ok \in BOOLEAN, CartAnswered(c, ok)
  PROVE  ShellInv'
<1> DEFINE n == [shell EXCEPT !.cart = c.of]
           next == Sent("unread", c.id)
<1>1. /\ SiteShellTypeOK /\ RefreshesAreSingle /\ PanelIsOfItsSession /\ ShowsOneAccount
      /\ session \in Session /\ shell \in Shell /\ panel \in Panel /\ c \in ShellCall
      /\ c.kind = "cart" /\ session' = session /\ logout' = logout /\ panel' = panel
  BY DEF ShellInv, SiteShellTypeOK, CartAnswered
<1>2. /\ shellCalls' = (shellCalls \ {c}) \cup
                        (IF CurrentRefresh(c) /\ shell.user # Nobody THEN {next} ELSE {})
      /\ shell' = IF CurrentRefresh(c) /\ ok THEN n ELSE shell
  BY DEF CartAnswered
<1>3. c.of \in Who /\ c.id \in 1 .. MaxRefreshes + MaxPanelLoads + MaxLogouts
  BY <1>1 DEF ShellCall
<1>4. n \in Shell /\ SameRefresh(n, shell) /\ n.cart = c.of /\ n.count = shell.count
      /\ n.user = shell.user /\ n.uncertain = shell.uncertain
  BY <1>1, <1>3 DEF Shell, SameRefresh
<1>5. next \in ShellCall /\ next.kind = "unread" /\ next.id = c.id /\ next.of = session.token
  BY <1>1, <1>3, SentCall
<1> HIDE DEF n, next
<1>6. shell' \in Shell /\ SameRefresh(shell', shell)
  BY <1>1, <1>2, <1>4 DEF SameRefresh
<1>7. shellCalls' \subseteq (shellCalls \ {c}) \cup {next}
  BY <1>2
<1>8. SiteShellTypeOK'
  BY <1>1, <1>5, <1>6, <1>7 DEF SiteShellTypeOK
<1>9. RefreshesAreSingle'
  <2>1. \A d \in shellCalls \ {c} : Refreshing(d) => d.id # c.id
    BY <1>1 DEF RefreshesAreSingle, Refreshing
  <2>2. c.id <= shell.refresh
    BY <1>1 DEF RefreshesAreSingle, Refreshing
  <2>3. \A d, e \in shellCalls' : Refreshing(d) /\ Refreshing(e) /\ e.id = d.id => e = d
    BY <1>1, <1>5, <1>7, <2>1 DEF RefreshesAreSingle
  <2>4. \A d \in shellCalls' : Refreshing(d) =>
         /\ d.id <= shell'.refresh
         /\ d.id = shell'.refresh => /\ d.kind = "user" => shell'.transitions + 2 <= 2 * shell'.refresh
                                     /\ session'.announced => d.of = session'.token
    BY <1>1, <1>6, <1>5, <2>2, <1>7 DEF RefreshesAreSingle, SameRefresh
  <2> QED
    BY <1>1, <1>6, <2>3, <2>4 DEF RefreshesAreSingle, SameRefresh
<1>10. PanelIsOfItsSession'
  BY <1>1, <1>5, <1>6, <1>7 DEF PanelIsOfItsSession, OfPanel, SameRefresh
<1>11. ShowsOneAccount'
  BY <1>1, <1>2, <1>4 DEF RefreshesAreSingle, Refreshing, CurrentRefresh, ShowsOneAccount
<1> QED
  BY <1>8, <1>9, <1>10, <1>11 DEF ShellInv

\* A request less, and what the refreshes go by as it was.
LEMMA FewerCalls ==
  ASSUME SiteShellTypeOK, RefreshesAreSingle, session' = session, shell' \in Shell,
         SameRefresh(shell', shell), \A c \in shellCalls' : Refreshing(c) => c \in shellCalls
  PROVE  RefreshesAreSingle'
BY DEF RefreshesAreSingle, SameRefresh

\* The number of notifications is of the session that asked.
LEMMA UnreadAnswerKeepsShell ==
  ASSUME ShellInv, NEW c \in shellCalls, NEW ok \in BOOLEAN, UnreadAnswered(c, ok)
  PROVE  ShellInv'
<1> DEFINE n == [shell EXCEPT !.count = c.of]
<1>1. /\ SiteShellTypeOK /\ RefreshesAreSingle /\ PanelIsOfItsSession /\ ShowsOneAccount
      /\ session \in Session /\ shell \in Shell /\ c \in ShellCall /\ shellCalls \subseteq ShellCall
      /\ panel \in Panel /\ logout \in Logout
      /\ c.kind = "unread" /\ session' = session /\ logout' = logout /\ panel' = panel
      /\ shellCalls' = shellCalls \ {c}
      /\ shell' = IF CurrentRefresh(c) /\ ok THEN n ELSE shell
  BY DEF ShellInv, SiteShellTypeOK, UnreadAnswered
<1>2. c.of \in Who
  BY <1>1 DEF ShellCall
<1>3. n \in Shell /\ SameRefresh(n, shell) /\ n.count = c.of /\ n.cart = shell.cart
      /\ n.user = shell.user /\ n.uncertain = shell.uncertain
  BY <1>1, <1>2 DEF Shell, SameRefresh
<1> HIDE DEF n
<1>4. shell' \in Shell /\ SameRefresh(shell', shell)
  BY <1>1, <1>3 DEF SameRefresh
<1>5. SiteShellTypeOK' /\ RefreshesAreSingle'
  BY <1>1, <1>4, FewerCalls DEF SiteShellTypeOK
<1>6. PanelIsOfItsSession'
  BY <1>1, <1>4 DEF PanelIsOfItsSession, SameRefresh
<1>7. ShowsOneAccount'
  BY <1>1, <1>3 DEF RefreshesAreSingle, Refreshing, CurrentRefresh, ShowsOneAccount
<1> QED
  BY <1>5, <1>6, <1>7 DEF ShellInv

\* A refresh that fails shows a visitor that is not known.
LEMMA FailureKeepsShell ==
  ASSUME ShellInv, NEW c \in shellCalls, RefreshFails(c)
  PROVE  ShellInv'
<1> DEFINE n == [shell EXCEPT !.uncertain = TRUE]
<1>1. /\ SiteShellTypeOK /\ RefreshesAreSingle /\ PanelIsOfItsSession /\ ShowsOneAccount
      /\ session \in Session /\ shell \in Shell /\ shellCalls \subseteq ShellCall
      /\ panel \in Panel /\ logout \in Logout
      /\ session' = session /\ logout' = logout /\ panel' = panel
      /\ shellCalls' = shellCalls \ {c} /\ (shell' = n \/ shell' = shell)
  BY DEF ShellInv, SiteShellTypeOK, RefreshFails
<1>2. n \in Shell /\ SameRefresh(n, shell) /\ n.uncertain = TRUE
  BY <1>1 DEF Shell, SameRefresh
<1> HIDE DEF n
<1>3. shell' \in Shell /\ SameRefresh(shell', shell)
  BY <1>1, <1>2 DEF SameRefresh
<1>4. SiteShellTypeOK' /\ RefreshesAreSingle'
  BY <1>1, <1>3, FewerCalls DEF SiteShellTypeOK
<1>5. PanelIsOfItsSession' /\ ShowsOneAccount'
  BY <1>1, <1>2, <1>3 DEF PanelIsOfItsSession, SameRefresh, ShowsOneAccount
<1> QED
  BY <1>4, <1>5 DEF ShellInv
-----------------------------------------------------------------------------
\* The panel: whatever asks for a list asks in the session that is shown.
LEMMA LoadsKeepShell ==
  ASSUME ShellInv, NEW p \in Panel, p.loads = panel.loads,
         p.request \in {0, panel.request}, NEW kind \in {"mark", "list"}, Loads(p, kind),
         UNCHANGED <<session, shell, logout>>
  PROVE  ShellInv'
<1> DEFINE next == p.loads + 1
           sent == Sent(kind, next)
           n == [p EXCEPT !.loads = next, !.request = next, !.loading = TRUE, !.list = Unknown]
<1>1. /\ SiteShellTypeOK /\ RefreshesAreSingle /\ PanelIsOfItsSession /\ ShowsOneAccount
      /\ session \in Session /\ shell \in Shell /\ shellCalls \subseteq ShellCall
      /\ \A c \in shellCalls : c.id # 0 /\ c.id \in Nat
  BY ShellNumbers DEF ShellInv, SiteShellTypeOK, ShellCall
<1>2. CASE p.request # 0
  BY <1>2, <1>1 DEF Loads, SiteShellTypeOK, PanelIsOfItsSession, RefreshesAreSingle,
     ShowsOneAccount, ShellInv
<1>3. CASE p.request = 0
  <2>1. /\ p.loads < MaxPanelLoads /\ panel' = n /\ shellCalls' = shellCalls \cup {sent}
    BY <1>3 DEF Loads
  <2>2. /\ next \in 0 .. MaxPanelLoads /\ next \in 1 .. MaxPanelLoads /\ p.loads \in Nat
        /\ p.loads < next /\ next \in Nat
    BY <2>1, ShellNumbers DEF Panel
  <2>3. next \in 1 .. MaxRefreshes + MaxPanelLoads + MaxLogouts
    BY <2>2, ShellNumbers
  <2> HIDE DEF next
  <2>4. sent \in ShellCall /\ sent.kind = kind /\ sent.id = next /\ sent.at = shell.transitions
    BY <1>1, <2>3, SentCall
  <2> HIDE DEF sent
  <2>5. n \in Panel /\ n.loads = next /\ n.request = next
    BY <2>2 DEF Panel
  <2> HIDE DEF n
  <2>6. SiteShellTypeOK'
    BY <1>1, <2>1, <2>4, <2>5 DEF SiteShellTypeOK
  <2>7. PanelIsOfItsSession'
    BY <1>1, <2>2, <2>1, <2>4, <2>5 DEF PanelIsOfItsSession
  <2>8. ~Refreshing(sent)
    BY <2>4 DEF Refreshing
  <2>9. RefreshesAreSingle'
    BY <1>1, <2>1, <2>8, FewerCalls DEF SameRefresh
  <2>10. ShowsOneAccount'
    BY <1>1 DEF ShowsOneAccount
  <2> QED
    BY <2>6, <2>7, <2>9, <2>10 DEF ShellInv
<1> QED
  BY <1>2, <1>3

\* The panel alone changes, and keeps or gives up its request.
LEMMA PanelStepKeepsShell ==
  ASSUME ShellInv, panel' \in Panel, panel'.loads = panel.loads,
         panel'.request \in {0, panel.request}, shellCalls' \subseteq shellCalls,
         logout' \in Logout, UNCHANGED <<session, shell>>
  PROVE  ShellInv'
BY FewerCalls DEF ShellInv, SiteShellTypeOK, ShellCall, SameRefresh, PanelIsOfItsSession,
   ShowsOneAccount

\* The panel is opened, closed, mounted again: its request is given up or sent anew.
LEMMA PanelKeepsShell ==
  ASSUME ShellInv, PanelOpened \/ PanelClosed \/ ReadAllPressed \/ HostReplaced \/ HostMounted
  PROVE  ShellInv'
<1> DEFINE open == [panel EXCEPT !.remembered = TRUE]
           closed == [panel EXCEPT !.remembered = FALSE]
           mounted == [panel EXCEPT !.mounted = TRUE]
           replaced == [FreshPanel EXCEPT !.remembered = panel.remembered, !.loads = panel.loads]
           given == [logout EXCEPT !.pending = 0]
<1>1. panel \in Panel /\ logout \in Logout
  BY DEF ShellInv, SiteShellTypeOK
<1>2. /\ open \in Panel /\ open.loads = panel.loads /\ open.request = panel.request
      /\ closed \in Panel /\ closed.loads = panel.loads /\ closed.request = panel.request
      /\ mounted \in Panel /\ mounted.loads = panel.loads /\ mounted.request = panel.request
  BY <1>1 DEF Panel
<1>3. replaced \in Panel /\ replaced.loads = panel.loads /\ replaced.request = 0
  BY <1>1, ShellNumbers DEF Panel, FreshPanel
<1>4. given \in Logout
  BY <1>1, ShellNumbers DEF Logout
<1>5. CASE PanelOpened
  BY <1>5, <1>2, LoadsKeepShell DEF PanelOpened
<1>6. CASE PanelClosed
  BY <1>6, <1>1, <1>2, PanelStepKeepsShell DEF PanelClosed
<1>7. CASE ReadAllPressed
  BY <1>7, <1>1, LoadsKeepShell DEF ReadAllPressed
<1>8. CASE HostReplaced
  BY <1>8, <1>3, <1>4, PanelStepKeepsShell DEF HostReplaced
<1>9. CASE HostMounted
  BY <1>9, <1>2, <1>1, LoadsKeepShell, PanelStepKeepsShell DEF HostMounted
<1> QED
  BY <1>5, <1>6, <1>7, <1>8, <1>9

\* Notifications that were marked as read are loaded again, in the same session only.
LEMMA MarkKeepsShell ==
  ASSUME ShellInv, NEW c \in shellCalls, Marked(c)
  PROVE  ShellInv'
<1> DEFINE n == [shell EXCEPT !.count = Unknown]
           next == [c EXCEPT !.kind = "list"]
<1>1. /\ SiteShellTypeOK /\ RefreshesAreSingle /\ PanelIsOfItsSession /\ ShowsOneAccount
      /\ shell \in Shell /\ c \in ShellCall /\ c.kind = "mark"
      /\ session' = session /\ logout' = logout /\ panel' = panel
      /\ shellCalls' \subseteq (shellCalls \ {c}) \cup {next} /\ (shell' = n \/ shell' = shell)
  BY DEF ShellInv, SiteShellTypeOK, Marked
<1>2. n \in Shell /\ SameRefresh(n, shell) /\ n.count = Unknown /\ n.cart = shell.cart
      /\ n.user = shell.user /\ n.uncertain = shell.uncertain
  BY <1>1 DEF Shell, SameRefresh
<1>3. next \in ShellCall /\ next.kind = "list" /\ next.id = c.id /\ next.at = c.at
  BY <1>1 DEF ShellCall
<1> HIDE DEF n, next
<1>4. shell' \in Shell /\ SameRefresh(shell', shell)
  BY <1>1, <1>2 DEF SameRefresh
<1>5. ~Refreshing(next) /\ OfPanel(c)
  BY <1>1, <1>3 DEF Refreshing, OfPanel
<1>6. SiteShellTypeOK'
  BY <1>1, <1>3, <1>4 DEF SiteShellTypeOK
<1>7. RefreshesAreSingle'
  BY <1>1, <1>4, <1>5, FewerCalls
<1>8. PanelIsOfItsSession'
  BY <1>1, <1>3, <1>4, <1>5 DEF PanelIsOfItsSession, SameRefresh
<1>9. ShowsOneAccount'
  BY <1>1, <1>2 DEF ShowsOneAccount
<1> QED
  BY <1>6, <1>7, <1>8, <1>9 DEF ShellInv

\* What is painted was asked for in the session that is shown.
LEMMA ListKeepsShell ==
  ASSUME ShellInv, NEW c \in shellCalls, ListAnswered(c) \/ PanelLoadFails(c)
  PROVE  ShellInv' /\ (ListAnswered(c) /\ panel'.list # panel.list => c.at = shell.transitions)
<1> DEFINE painted == [panel EXCEPT !.list = c.of]
           message == [panel EXCEPT !.list = Unknown]
<1>1. /\ PanelIsOfItsSession /\ panel \in Panel /\ logout \in Logout /\ c \in ShellCall
      /\ shellCalls' = shellCalls \ {c} /\ UNCHANGED <<session, shell, logout>>
  BY DEF ShellInv, SiteShellTypeOK, ListAnswered, PanelLoadFails
<1>2. c.of \in Who
  BY <1>1 DEF ShellCall
<1>3. /\ painted \in Panel /\ painted.loads = panel.loads
      /\ message \in Panel /\ message.loads = panel.loads
  BY <1>1, <1>2 DEF Panel
<1>4. panel' \in {panel, DisposedRequest(painted), DisposedRequest(message)}
  BY DEF ListAnswered, PanelLoadFails
<1> HIDE DEF painted, message
<1>5. panel' \in Panel /\ panel'.loads = panel.loads /\ panel'.request \in {0, panel.request}
  BY <1>1, <1>3, <1>4, DisposedPanel
<1>6. ShellInv'
  BY <1>1, <1>5, PanelStepKeepsShell
<1>7. ASSUME ListAnswered(c), panel'.list # panel.list
      PROVE  c.at = shell.transitions
  BY <1>7, <1>1 DEF ListAnswered, PanelIsOfItsSession, OfPanel, CurrentRequest
<1> QED
  BY <1>6, <1>7
-----------------------------------------------------------------------------
\* The link is freed by the request it waits for.
LEMMA ClearedLink ==
  ASSUME logout \in Logout, NEW c
  PROVE  Cleared(c) \in Logout /\ [logout EXCEPT !.pending = 0] \in Logout
BY ShellNumbers DEF Logout, Cleared

\* Logging out is asked for.
LEMMA LinkKeepsShell ==
  ASSUME ShellInv, LogoutPressed
  PROVE  ShellInv'
<1> DEFINE next == logout.presses + 1
           sent == Sent("logout", next)
<1>1. /\ SiteShellTypeOK /\ RefreshesAreSingle /\ PanelIsOfItsSession /\ ShowsOneAccount
      /\ session \in Session /\ shell \in Shell /\ logout \in Logout
      /\ UNCHANGED <<session, shell, panel>>
      /\ logout.presses < MaxLogouts
      /\ logout' = [logout EXCEPT !.presses = next, !.pending = next]
      /\ shellCalls' = shellCalls \cup {sent}
  BY DEF ShellInv, SiteShellTypeOK, LogoutPressed
<1>2. next \in 0 .. MaxLogouts /\ next \in 1 .. MaxLogouts
  BY <1>1, ShellNumbers DEF Logout
<1>3. next \in 1 .. MaxRefreshes + MaxPanelLoads + MaxLogouts
  BY <1>2, ShellNumbers
<1> HIDE DEF next
<1>4. sent \in ShellCall /\ sent.kind = "logout"
  BY <1>1, <1>3, SentCall
<1> HIDE DEF sent
<1>5. logout' \in Logout
  BY <1>1, <1>2 DEF Logout
<1>6. ~Refreshing(sent) /\ ~OfPanel(sent)
  BY <1>4 DEF Refreshing, OfPanel
<1>7. SiteShellTypeOK'
  BY <1>1, <1>4, <1>5 DEF SiteShellTypeOK
<1>8. RefreshesAreSingle'
  BY <1>1, <1>6, FewerCalls DEF SameRefresh
<1>9. PanelIsOfItsSession' /\ ShowsOneAccount'
  BY <1>1, <1>6 DEF PanelIsOfItsSession, ShowsOneAccount
<1> QED
  BY <1>7, <1>8, <1>9 DEF ShellInv

\* The answer to logging out: a transition only of the session it was asked for.
LEMMA LogoutKeepsShell ==
  ASSUME ShellInv, NEW c \in shellCalls, LogoutAnswered(c) \/ LogoutFails(c)
  PROVE  ShellInv'
<1>1. session \in Session /\ panel \in Panel /\ logout \in Logout
  BY DEF ShellInv, SiteShellTypeOK
<1>2. Cleared(c) \in Logout /\ [logout EXCEPT !.pending = 0] \in Logout
  BY <1>1, ClearedLink
<1>3. CASE LogoutAnswered(c) /\ CurrentSession(c)
  BY <1>3, <1>1, <1>2, LoadedShellIsSound DEF LogoutAnswered, Session, Who
<1>4. CASE ~(LogoutAnswered(c) /\ CurrentSession(c))
  BY <1>4, <1>1, <1>2, PanelStepKeepsShell DEF LogoutAnswered, LogoutFails
<1> QED
  BY <1>3, <1>4
-----------------------------------------------------------------------------
\* The page is loaded and the first refresh is under way.
LEMMA ShellStarts == SiteShellInit => ShellInv
<1> SUFFICES ASSUME NEW who \in Who,
                    session = [token |-> who, changes |-> 0, announced |-> TRUE],
                    shell = LoadedShell,
                    panel = [FreshPanel EXCEPT !.mounted = TRUE],
                    logout = [presses |-> 0, pending |-> 0],
                    shellCalls = {FirstCall(who)}
             PROVE  ShellInv
  BY DEF SiteShellInit
<1> DEFINE first == FirstCall(who)
<1>1. session \in Session /\ session.token = who /\ logout \in Logout
  BY ShellNumbers DEF Session, Logout
<1>2. /\ shell \in Shell /\ shell.refresh = 1 /\ shell.transitions = 0 /\ shell.uncertain
      /\ first \in ShellCall /\ first.kind = "user" /\ first.id = 1 /\ first.of = who
      /\ panel \in Panel
  BY LoadedFields
<1>3. shellCalls = {first}
  OBVIOUS
<1> HIDE DEF first
<1>4. SiteShellTypeOK
  BY <1>1, <1>2, <1>3 DEF SiteShellTypeOK
<1>5. RefreshesAreSingle
  BY <1>1, <1>2, <1>3 DEF RefreshesAreSingle, Refreshing
<1>6. PanelIsOfItsSession
  BY <1>2, <1>3 DEF PanelIsOfItsSession, OfPanel
<1>7. ShowsOneAccount
  BY <1>2 DEF ShowsOneAccount
<1> QED
  BY <1>4, <1>5, <1>6, <1>7 DEF ShellInv

\* Every step keeps the shell, paints for its session and ends only its own login.
LEMMA ShellStays ==
  ASSUME ShellInv, [SiteShellNext]_shellVars
  PROVE  /\ ShellInv'
         /\ \A c \in shellCalls :
               ListAnswered(c) /\ panel'.list # panel.list => c.at = shell.transitions
         /\ session'.token = Nobody /\ session.token # Nobody /\ session'.changes = session.changes
               => \E c \in shellCalls : c.kind = "logout" /\ c.of = session.token
<1>1. ASSUME NEW who \in Who, OtherTabSigns(who)
      PROVE  ShellInv' /\ session'.changes # session.changes
  BY <1>1, SiteShellAssumption, OtherTabKeepsShell DEF ShellInv, SiteShellTypeOK, Session,
     OtherTabSigns
<1>2. ASSUME StorageEvent \/ PageShown
      PROVE  ShellInv' /\ session'.token = session.token
  BY <1>2, EventKeepsShell DEF ShellInv, SiteShellTypeOK, StorageEvent, PageShown, Session
<1>3. ASSUME PanelOpened \/ PanelClosed \/ ReadAllPressed \/ HostReplaced \/ HostMounted
      PROVE  ShellInv' /\ session' = session
  BY <1>3, PanelKeepsShell DEF PanelOpened, PanelClosed, ReadAllPressed, HostReplaced, HostMounted
<1>4. ASSUME LogoutPressed
      PROVE  ShellInv' /\ session' = session
  BY <1>4, LinkKeepsShell DEF LogoutPressed
<1>5. ASSUME NEW c \in shellCalls, ShellAnswers(c)
      PROVE  ShellInv'
  BY <1>5, UserAnswerKeepsShell, CartAnswerKeepsShell, UnreadAnswerKeepsShell, FailureKeepsShell,
     MarkKeepsShell, ListKeepsShell, LogoutKeepsShell DEF ShellAnswers
<1>6. ASSUME NEW c \in shellCalls, ShellAnswers(c), session' # session
      PROVE  \E d \in shellCalls : d.kind = "logout" /\ d.of = session.token
  <2>1. LogoutAnswered(c) /\ CurrentSession(c)
    BY <1>6 DEF ShellAnswers, UserAnswered, CartAnswered, UnreadAnswered, RefreshFails, Marked,
       ListAnswered, PanelLoadFails, LogoutAnswered, LogoutFails
  <2> QED
    BY <2>1 DEF LogoutAnswered, CurrentSession
<1>7. ASSUME UNCHANGED shellVars
      PROVE  ShellInv' /\ session' = session
  BY <1>7 DEF shellVars, ShellInv, SiteShellTypeOK, RefreshesAreSingle, PanelIsOfItsSession,
     ShowsOneAccount
<1>8. ShellInv'
  BY <1>1, <1>2, <1>3, <1>4, <1>5, <1>7 DEF SiteShellNext
<1>9. \A c \in shellCalls :
         ListAnswered(c) /\ panel'.list # panel.list => c.at = shell.transitions
  BY ListKeepsShell
<1>10. session'.token = Nobody /\ session.token # Nobody /\ session'.changes = session.changes
         => \E c \in shellCalls : c.kind = "logout" /\ c.of = session.token
  BY <1>1, <1>2, <1>3, <1>4, <1>6, <1>7 DEF SiteShellNext
<1> QED
  BY <1>8, <1>9, <1>10
-----------------------------------------------------------------------------
(***************************************************************************)
(* Menus and panels.                                                         *)
(* Handlers are chains of helpers on one surface; each helper keeps the surface *)
(* sound, or closes what is not.                                             *)
(***************************************************************************)

Surfaces == [page : Page, nav : Nav, tools : ToolState]

\* What PageStaysUsable says, of what a chain of handlers leaves; and that a menu that is
\* open is remembered as it is.
PanelsAgree(s) == s.tools.placed = s.tools.open
MenuIsAlone(s) == ~(s.nav.opened /\ s.tools.open # NoTool)
LocksOfMenu(s) == s.page.inert # {} => s.nav.opened /\ s.page.modal
MenuIsKept(s) == s.nav.opened => s.nav.snapshot.kept /\ s.nav.snapshot.submenu = s.nav.submenu

SurfaceIsSound(s) ==
    s \in Surfaces /\ PanelsAgree(s) /\ MenuIsAlone(s) /\ LocksOfMenu(s) /\ MenuIsKept(s)
-----------------------------------------------------------------------------
\* The fields of the page that no handler of the menu or the tools writes.
SamePage(n, s) ==
    /\ n.page.wide = s.page.wide /\ n.page.url = s.page.url /\ n.page.modal = s.page.modal
    /\ n.page.member = s.page.member /\ n.page.events = s.page.events

\* Only what the menu made inert is another.
LEMMA PageFields ==
  ASSUME NEW s \in Surfaces, NEW inert \in SUBSET Outside
  PROVE  LET n == [s EXCEPT !.page.inert = inert]
         IN  n \in Surfaces /\ SamePage(n, s) /\ n.page.inert = inert /\ n.nav = s.nav /\ n.tools = s.tools
BY DEF Surfaces, Page, SamePage

\* Only the menu is another.
LEMMA NavFields ==
  ASSUME NEW s \in Surfaces, NEW m \in Nav
  PROVE  LET n == [s EXCEPT !.nav = m]
         IN  n \in Surfaces /\ n.page = s.page /\ SamePage(n, s) /\ n.nav = m /\ n.tools = s.tools
BY DEF Surfaces, SamePage

\* Only the panels are another.
LEMMA ToolsFields ==
  ASSUME NEW s \in Surfaces, NEW t \in ToolState
  PROVE  LET n == [s EXCEPT !.tools = t]
         IN  n \in Surfaces /\ n.page = s.page /\ SamePage(n, s) /\ n.nav = s.nav /\ n.tools = t
BY DEF Surfaces, SamePage

\* Closing the menu gives the page back.
LEMMA MenuClosedFields ==
  ASSUME NEW s \in Surfaces
  PROVE  LET n == MenuClosed(s)
         IN  /\ n \in Surfaces /\ SamePage(n, s) /\ n.page.inert = {}
             /\ ~n.nav.opened /\ n.tools = s.tools
<1> DEFINE nav1 == [s.nav EXCEPT !.opened = FALSE, !.submenu = FALSE]
           s1 == [s EXCEPT !.nav = nav1]
           s2 == [s1 EXCEPT !.page.inert = {}]
           snapshot == [s2.nav.snapshot EXCEPT !.kept = FALSE, !.submenu = FALSE]
           nav2 == [s2.nav EXCEPT !.snapshot = snapshot]
           n == [s2 EXCEPT !.nav = nav2]
<1>1. s.nav \in Nav
  BY DEF Surfaces
<1>2. nav1 \in Nav /\ nav1.opened = FALSE
  BY <1>1 DEF Nav
<1>3. [s EXCEPT !.nav.opened = FALSE, !.nav.submenu = FALSE] = s1
  BY DEF Surfaces, Nav
<1> HIDE DEF nav1
<1>4. s1 \in Surfaces /\ SamePage(s1, s) /\ s1.nav = nav1 /\ s1.tools = s.tools
  BY <1>2, NavFields
<1>5. Unlocked(s1) = s2
  BY DEF Unlocked
<1> HIDE DEF s1
<1>6. s2 \in Surfaces /\ SamePage(s2, s1) /\ s2.page.inert = {} /\ s2.nav = nav1 /\ s2.tools = s.tools
  BY <1>4, PageFields
<1>7. Forgotten(s2) = n
  BY DEF Forgotten, Surfaces, Nav, Snapshot
<1> HIDE DEF s2
<1>8. s2.nav.snapshot \in Snapshot
  BY <1>2, <1>6 DEF Nav
<1>9. snapshot \in Snapshot
  BY <1>8 DEF Snapshot
<1> HIDE DEF snapshot
<1>10. nav2 \in Nav /\ nav2.opened = FALSE
  BY <1>2, <1>6, <1>9 DEF Nav
<1> HIDE DEF nav2
<1>11. n \in Surfaces /\ n.page = s2.page /\ SamePage(n, s2) /\ n.nav = nav2 /\ n.tools = s.tools
  BY <1>6, <1>10, NavFields
<1>12. MenuClosed(s) = n
  BY <1>3, <1>5, <1>7 DEF MenuClosed
<1> HIDE DEF n
<1> QED
  BY <1>4, <1>6, <1>10, <1>11, <1>12 DEF SamePage

\* Closing the panels leaves none open.
LEMMA ToolsClosedFields ==
  ASSUME NEW s \in Surfaces, PanelsAgree(s)
  PROVE  LET n == ToolsClosed(s)
         IN  /\ n \in Surfaces /\ n.page = s.page /\ SamePage(n, s) /\ n.nav = s.nav
             /\ n.tools.open = NoTool /\ PanelsAgree(n)
             /\ s.tools.memory = NoTool => n.tools.memory = NoTool
<1> DEFINE closed == [open |-> NoTool, placed |-> NoTool, memory |-> NoTool]
<1>1. closed \in ToolState /\ closed.open = NoTool /\ closed.placed = NoTool /\ closed.memory = NoTool
  BY DEF ToolState
<1> HIDE DEF closed
<1>2. CASE s.tools.open = NoTool
  BY <1>2 DEF ToolsClosed, SamePage
<1>3. CASE s.tools.open # NoTool
  BY <1>3, <1>1, ToolsFields DEF ToolsClosed, closed, PanelsAgree
<1> QED
  BY <1>2, <1>3

\* Opening the menu closes the panels and locks the page around it.
LEMMA MenuOpenedFields ==
  ASSUME NEW s \in Surfaces, PanelsAgree(s), NEW submenu \in BOOLEAN
  PROVE  LET n == MenuOpened(s, submenu)
         IN  /\ SurfaceIsSound(n) /\ SamePage(n, s)
             /\ n.nav.opened /\ n.nav.submenu = submenu
<1> DEFINE s1 == ToolsClosed(s)
           nav1 == [s1.nav EXCEPT !.opened = TRUE, !.submenu = submenu, !.dialog = s.page.modal]
           s2 == [s1 EXCEPT !.nav = nav1]
           inert == IF s2.page.modal THEN Outside ELSE {}
           s3 == [s2 EXCEPT !.page.inert = inert]
           snapshot == [kept |-> TRUE, submenu |-> s3.nav.submenu, url |-> s3.page.url]
           nav2 == [s3.nav EXCEPT !.snapshot = snapshot]
           n == [s3 EXCEPT !.nav = nav2]
<1>1. /\ s1 \in Surfaces /\ s1.page = s.page /\ SamePage(s1, s) /\ s1.tools.open = NoTool
      /\ PanelsAgree(s1)
  BY ToolsClosedFields
<1>2. [s1 EXCEPT !.nav.opened = TRUE, !.nav.submenu = submenu, !.nav.dialog = s.page.modal] = s2
  BY <1>1 DEF Surfaces, Nav
<1> HIDE DEF s1
<1>3. s1.nav \in Nav /\ s.page.modal \in BOOLEAN
  BY <1>1 DEF Surfaces, Page
<1>4. nav1 \in Nav /\ nav1.opened = TRUE /\ nav1.submenu = submenu
  BY <1>3 DEF Nav
<1> HIDE DEF nav1
<1>5. /\ s2 \in Surfaces /\ SamePage(s2, s1) /\ s2.nav = nav1 /\ s2.tools = s1.tools
  BY <1>1, <1>4, NavFields
<1>6. Locked(s2) = s3
  BY DEF Locked, Unlocked
<1>7. inert \in SUBSET Outside /\ (inert # {} => s2.page.modal)
  BY DEF Outside
<1> HIDE DEF s2, inert
<1>8. s3 \in Surfaces /\ SamePage(s3, s2) /\ s3.page.inert = inert /\ s3.nav = nav1 /\ s3.tools = s1.tools
  BY <1>5, <1>7, PageFields
<1>9. s3.nav.opened
  BY <1>4, <1>8
<1>10. Remembered(s3) = n
  BY <1>8, <1>9 DEF Remembered, Surfaces, Nav
<1> HIDE DEF s3
<1>11. snapshot \in Snapshot /\ snapshot.kept = TRUE /\ snapshot.submenu = submenu
  BY <1>4, <1>8 DEF Snapshot, Surfaces, Page
<1> HIDE DEF snapshot
<1>12. nav2 \in Nav /\ nav2.opened = TRUE /\ nav2.submenu = submenu /\ nav2.snapshot = snapshot
  BY <1>4, <1>8, <1>11 DEF Nav
<1> HIDE DEF nav2
<1>13. n \in Surfaces /\ n.page = s3.page /\ SamePage(n, s3) /\ n.nav = nav2 /\ n.tools = s1.tools
  BY <1>8, <1>12, NavFields
<1>14. MenuOpened(s, submenu) = n
  BY <1>2, <1>6, <1>10 DEF MenuOpened, s1
<1> HIDE DEF n
<1>15. SamePage(n, s)
  BY <1>1, <1>5, <1>8, <1>13 DEF SamePage
<1>16. SurfaceIsSound(n)
  BY <1>1, <1>5, <1>7, <1>8, <1>11, <1>12, <1>13, <1>15 DEF SurfaceIsSound, PanelsAgree,
     MenuIsAlone, LocksOfMenu, MenuIsKept, SamePage
<1> QED
  BY <1>12, <1>13, <1>14, <1>15, <1>16

\* Closing the menu mends whatever was wrong with it.
LEMMA ClosedMenuIsSound ==
  ASSUME NEW s \in Surfaces, PanelsAgree(s)
  PROVE  SurfaceIsSound(MenuClosed(s))
BY MenuClosedFields DEF SurfaceIsSound, PanelsAgree, MenuIsAlone, LocksOfMenu, MenuIsKept

\* Closing the panels leaves the menu as it is.
LEMMA ClosedToolsAreSound ==
  ASSUME NEW s, SurfaceIsSound(s)
  PROVE  SurfaceIsSound(ToolsClosed(s)) /\ ToolsClosed(s).nav = s.nav
BY ToolsClosedFields DEF SurfaceIsSound, MenuIsAlone, LocksOfMenu, MenuIsKept

\* Opening a panel closes the menu.
LEMMA OpenedToolIsSound ==
  ASSUME NEW s, SurfaceIsSound(s), NEW key \in Tools
  PROVE  SurfaceIsSound(ToolOpened(s, key)) /\ SamePage(ToolOpened(s, key), s)
<1> DEFINE s1 == IF s.nav.opened THEN MenuClosed(s) ELSE s
           opened == [open |-> key, placed |-> key, memory |-> key]
           n == [s1 EXCEPT !.tools = opened]
<1>1. s \in Surfaces /\ PanelsAgree(s)
  BY DEF SurfaceIsSound
<1>2. /\ s1 \in Surfaces /\ SamePage(s1, s) /\ ~s1.nav.opened /\ s1.page.inert = {}
  BY <1>1, MenuClosedFields DEF SurfaceIsSound, LocksOfMenu, SamePage
<1>3. opened \in ToolState /\ opened.placed = opened.open
  BY DEF ToolState
<1> HIDE DEF s1, opened
<1>4. n \in Surfaces /\ n.page = s1.page /\ SamePage(n, s1) /\ n.nav = s1.nav /\ n.tools = opened
  BY <1>2, <1>3, ToolsFields
<1>5. ToolOpened(s, key) = IF ~ToolShown(s, key) THEN s ELSE n
  BY DEF ToolOpened, s1, opened
<1> HIDE DEF n
<1>6. SurfaceIsSound(n) /\ SamePage(n, s)
  BY <1>2, <1>3, <1>4 DEF SurfaceIsSound, PanelsAgree, MenuIsAlone, LocksOfMenu, MenuIsKept,
     SamePage
<1>7. SamePage(s, s)
  BY DEF SamePage
<1> QED
  BY <1>5, <1>6, <1>7
-----------------------------------------------------------------------------
\* A menu that the host took away is remembered and unlocks the page.
LEMMA RetiredMenuIsSound ==
  ASSUME NEW s, SurfaceIsSound(s)
  PROVE  LET n == MenuRetired(s)
         IN  /\ SurfaceIsSound(n) /\ SamePage(n, s) /\ n.tools = s.tools
             /\ n.nav.snapshot = s.nav.snapshot
<1> DEFINE nav1 == [s.nav EXCEPT !.opened = FALSE, !.submenu = FALSE]
           s1 == [s EXCEPT !.nav = nav1]
           n == [s1 EXCEPT !.page.inert = {}]
<1>1. s \in Surfaces /\ s.nav \in Nav
  BY DEF SurfaceIsSound, Surfaces
<1>2. nav1 \in Nav /\ nav1.opened = FALSE /\ nav1.snapshot = s.nav.snapshot
  BY <1>1 DEF Nav
<1>3. [s EXCEPT !.nav.opened = FALSE, !.nav.submenu = FALSE] = s1
  BY <1>1 DEF Surfaces, Nav
<1> HIDE DEF nav1
<1>4. s1 \in Surfaces /\ SamePage(s1, s) /\ s1.nav = nav1 /\ s1.tools = s.tools
  BY <1>1, <1>2, NavFields
<1>5. MenuRetired(s) = n
  BY <1>3 DEF MenuRetired, Unlocked
<1> HIDE DEF s1
<1>6. n \in Surfaces /\ SamePage(n, s1) /\ n.page.inert = {} /\ n.nav = nav1 /\ n.tools = s.tools
  BY <1>4, PageFields
<1> HIDE DEF n
<1> QED
  BY <1>2, <1>4, <1>5, <1>6 DEF SurfaceIsSound, PanelsAgree, MenuIsAlone, LocksOfMenu, MenuIsKept,
     SamePage

\* Panels that are mounted again are opened only if they were.
LEMMA MountedToolsAreSound ==
  ASSUME NEW s, SurfaceIsSound(s)
  PROVE  LET n == ToolsMounted(s)
         IN  /\ SurfaceIsSound(n) /\ SamePage(n, s)
             /\ s.tools.memory = NoTool => n.nav = s.nav
<1> DEFINE tools1 == [s.tools EXCEPT !.open = NoTool, !.placed = NoTool]
           fresh == [s EXCEPT !.tools = tools1]
<1>1. s \in Surfaces /\ s.tools \in ToolState /\ s.tools.memory \in Tools \cup {NoTool}
  BY DEF SurfaceIsSound, Surfaces, ToolState
<1>2. tools1 \in ToolState /\ tools1.open = NoTool /\ tools1.placed = NoTool
  BY <1>1 DEF ToolState
<1>3. [s EXCEPT !.tools.open = NoTool, !.tools.placed = NoTool] = fresh
  BY <1>1 DEF Surfaces, ToolState
<1> HIDE DEF tools1
<1>4. fresh \in Surfaces /\ fresh.page = s.page /\ SamePage(fresh, s) /\ fresh.nav = s.nav
      /\ fresh.tools = tools1
  BY <1>1, <1>2, ToolsFields
<1>5. ToolsMounted(s) = IF s.tools.memory = NoTool THEN fresh ELSE ToolOpened(fresh, s.tools.memory)
  BY <1>3 DEF ToolsMounted
<1> HIDE DEF fresh
<1>6. SurfaceIsSound(fresh)
  BY <1>2, <1>4 DEF SurfaceIsSound, PanelsAgree, MenuIsAlone, LocksOfMenu, MenuIsKept
<1>7. CASE s.tools.memory = NoTool
  BY <1>4, <1>5, <1>6, <1>7
<1>8. CASE s.tools.memory # NoTool
  BY <1>1, <1>6, <1>8, <1>4, <1>5, OpenedToolIsSound DEF SamePage
<1> QED
  BY <1>7, <1>8

\* A boot of any parts brings the menu back as it was remembered.
LEMMA BootedIsSound ==
  ASSUME NEW s, SurfaceIsSound(s), NEW parts
  PROVE  /\ SurfaceIsSound(Booted(s, parts))
         /\ s.tools.memory = NoTool /\ s.nav.opened /\ ~s.page.wide
               /\ s.nav.snapshot.url = s.page.url
            => Booted(s, parts).nav.opened /\ Booted(s, parts).nav.submenu = s.nav.submenu
<1> DEFINE pruned == IF "menu" \in parts THEN MenuRetired(s) ELSE s
           mounted == IF "tools" \in parts THEN ToolsMounted(pruned) ELSE pruned
           n == IF "menu" \in parts THEN MenuMounted(mounted) ELSE mounted
           opens == /\ mounted.nav.snapshot.kept /\ mounted.nav.snapshot.url = mounted.page.url
                    /\ ~mounted.page.wide
<1>1. /\ SurfaceIsSound(pruned) /\ SamePage(pruned, s) /\ pruned.tools = s.tools
      /\ pruned.nav.snapshot = s.nav.snapshot
      /\ "menu" \notin parts => pruned.nav = s.nav
  BY RetiredMenuIsSound DEF SamePage
<1>2. Booted(s, parts) = n
  BY DEF Booted
<1> HIDE DEF pruned
<1>3. /\ SurfaceIsSound(mounted) /\ SamePage(mounted, s)
      /\ s.tools.memory = NoTool =>
            mounted.nav.snapshot = s.nav.snapshot /\ ("menu" \notin parts => mounted.nav = s.nav)
  BY <1>1, MountedToolsAreSound DEF SamePage
<1> HIDE DEF mounted
<1>4. mounted \in Surfaces /\ PanelsAgree(mounted) /\ mounted.nav.snapshot.submenu \in BOOLEAN
  BY <1>3 DEF SurfaceIsSound, Surfaces, Nav, Snapshot
<1>5. /\ SurfaceIsSound(MenuOpened(mounted, mounted.nav.snapshot.submenu))
      /\ MenuOpened(mounted, mounted.nav.snapshot.submenu).nav.opened
      /\ MenuOpened(mounted, mounted.nav.snapshot.submenu).nav.submenu = mounted.nav.snapshot.submenu
  BY <1>4, MenuOpenedFields
<1>6. SurfaceIsSound(MenuClosed(mounted))
  BY <1>4, ClosedMenuIsSound
<1>7. MenuMounted(mounted) = IF opens THEN MenuOpened(mounted, mounted.nav.snapshot.submenu)
                             ELSE MenuClosed(mounted)
  BY DEF MenuMounted
<1>8. SurfaceIsSound(n)
  BY <1>3, <1>5, <1>6, <1>7
<1>9. ASSUME s.tools.memory = NoTool, s.nav.opened, ~s.page.wide, s.nav.snapshot.url = s.page.url
      PROVE  n.nav.opened /\ n.nav.submenu = s.nav.submenu
  BY <1>9, <1>3, <1>5, <1>7 DEF SurfaceIsSound, MenuIsKept, SamePage
<1> QED
  BY <1>2, <1>8, <1>9
-----------------------------------------------------------------------------
PanelsAreSound == SurfaceIsSound(Surface)

\* The variables are the surface that a chain of handlers starts with.
LEMMA SurfaceOfVariables ==
  /\ Surface.page = page /\ Surface.nav = nav /\ Surface.tools = tools
  /\ PanelsAreSound => ShellPanelsTypeOK /\ PageStaysUsable
<1>1. Surface.page = page /\ Surface.nav = nav /\ Surface.tools = tools
  BY DEF Surface
<1> QED
  BY <1>1 DEF PanelsAreSound, SurfaceIsSound, Surfaces, PanelsAgree, MenuIsAlone, LocksOfMenu,
     ShellPanelsTypeOK, PageStaysUsable

\* A step that leaves a sound surface leaves the variables sound.
LEMMA ShownSurface ==
  ASSUME NEW s, SurfaceIsSound(s), Shows(s)
  PROVE  PanelsAreSound' /\ nav' = s.nav
BY DEF SurfaceIsSound, Surfaces, Shows, Surface, PanelsAreSound

\* A page that was just loaded.
LEMMA PanelsStart == ShellPanelsInit => PanelsAreSound
<1> SUFFICES ASSUME NEW wide \in BOOLEAN, NEW modal \in BOOLEAN, NEW member \in BOOLEAN,
                    NEW url \in Urls,
                    page = [wide |-> wide, url |-> url, modal |-> modal, member |-> member,
                            inert |-> {}, events |-> 0],
                    nav = [opened |-> FALSE, submenu |-> FALSE, dialog |-> FALSE,
                           snapshot |-> [kept |-> FALSE, submenu |-> FALSE, url |-> url]],
                    tools = [open |-> NoTool, placed |-> NoTool, memory |-> NoTool]
             PROVE  PanelsAreSound
  BY DEF ShellPanelsInit
<1>1. page \in Page /\ page.inert = {}
  BY ShellPanelsAssumption DEF Page, Outside
<1>2. nav \in Nav /\ nav.opened = FALSE
  BY DEF Nav, Snapshot
<1>3. tools \in ToolState /\ tools.open = NoTool /\ tools.placed = NoTool
  BY DEF ToolState
<1>4. Surface \in Surfaces
  BY <1>1, <1>2, <1>3 DEF Surface, Surfaces
<1> QED
  BY <1>1, <1>2, <1>3, <1>4, SurfaceOfVariables DEF PanelsAreSound, SurfaceIsSound, PanelsAgree,
     MenuIsAlone, LocksOfMenu, MenuIsKept

\* What the host or the browser does first: one of its events is counted, and fields of the
\* page are written that the others do not rely on.
LEMMA CountedIsSound ==
  ASSUME PanelsAreSound, PageEvent,
         NEW p \in Page, p.modal = page.modal, p.inert \subseteq page.inert,
         NEW s, s = [Surface EXCEPT !.page = p]
  PROVE  SurfaceIsSound(s) /\ s.page = p /\ s.nav = nav /\ s.tools = tools
<1>1. s \in Surfaces /\ s.page = p /\ s.nav = nav /\ s.tools = tools
  BY SurfaceOfVariables DEF ShellPanelsTypeOK, Surface, Surfaces
<1> QED
  BY <1>1, SurfaceOfVariables DEF PanelsAreSound, SurfaceIsSound, PanelsAgree, MenuIsAlone,
     LocksOfMenu, MenuIsKept

\* Every step keeps the page usable, and a menu that the host replaced comes back.
LEMMA PanelsStay ==
  PanelsAreSound /\ [ShellPanelsNext]_panelVars =>
      PanelsAreSound' /\ [\A parts \in SUBSET {"menu", "tools", "content"} :
                              HostReplaces(parts) /\ nav.opened /\ tools.memory = NoTool /\ ~page.wide
                              /\ nav.snapshot.url = page.url
                                 => nav'.opened /\ nav'.submenu = nav.submenu]_panelVars
<1> SUFFICES ASSUME PanelsAreSound, [ShellPanelsNext]_panelVars
             PROVE  /\ PanelsAreSound'
                    /\ \A parts \in SUBSET {"menu", "tools", "content"} :
                          HostReplaces(parts) /\ nav.opened /\ tools.memory = NoTool /\ ~page.wide
                          /\ nav.snapshot.url = page.url
                             => nav'.opened /\ nav'.submenu = nav.submenu
  OBVIOUS
<1>1. /\ page \in Page /\ nav \in Nav /\ tools \in ToolState /\ SurfaceIsSound(Surface)
      /\ Surface \in Surfaces /\ PanelsAgree(Surface)
      /\ Surface.page = page /\ Surface.nav = nav /\ Surface.tools = tools
      /\ page.events \in 0 .. MaxPageEvents /\ MaxPageEvents \in Nat
      /\ page.inert \subseteq Outside
  BY SurfaceOfVariables, ShellPanelsAssumption DEF ShellPanelsTypeOK, PanelsAreSound,
     SurfaceIsSound, Page
<1>2. PageEvent => page.events + 1 \in 0 .. MaxPageEvents
  BY <1>1 DEF PageEvent
<1>3. ASSUME NEW parts \in SUBSET {"menu", "tools", "content"}, HostReplaces(parts)
      PROVE  /\ PanelsAreSound'
             /\ nav.opened /\ tools.memory = NoTool /\ ~page.wide /\ nav.snapshot.url = page.url
                => nav'.opened /\ nav'.submenu = nav.submenu
  <2> DEFINE new == parts \cup (IF "menu" \in parts THEN {"toggle"} ELSE {})
             p == [page EXCEPT !.events = @ + 1, !.inert = @ \ new]
             s == [Surface EXCEPT !.page = p]
  <2>1. PageEvent /\ Shows(Booted([Counted EXCEPT !.page.inert = @ \ new], parts))
    BY <1>3 DEF HostReplaces
  <2>2. [Counted EXCEPT !.page.inert = @ \ new] = s
    BY DEF Counted, Surface
  <2>3. /\ p \in Page /\ p.modal = page.modal /\ p.inert \subseteq page.inert
        /\ p.wide = page.wide /\ p.url = page.url
    BY <1>1, <1>2, <2>1 DEF Page
  <2> HIDE DEF p
  <2>4. SurfaceIsSound(s) /\ s.page = p /\ s.nav = nav /\ s.tools = tools
    BY <2>1, <2>3, CountedIsSound
  <2> HIDE DEF s, new
  <2>5. SurfaceIsSound(Booted(s, parts))
    BY <2>4, BootedIsSound
  <2>6. PanelsAreSound' /\ nav' = Booted(s, parts).nav
    BY <2>1, <2>2, <2>5, ShownSurface
  <2> QED
    BY <2>3, <2>4, <2>6, BootedIsSound
<1>4. ASSUME Resized PROVE PanelsAreSound'
  <2> DEFINE p == [page EXCEPT !.events = @ + 1, !.wide = ~@]
             s == [Surface EXCEPT !.page = p]
             t == ToolsClosed(s)
  <2>1. PageEvent /\ Shows(LET u == ToolsClosed([Counted EXCEPT !.page.wide = ~@])
                           IN  IF u.nav.opened THEN MenuClosed(u) ELSE u)
    BY <1>4 DEF Resized
  <2>2. [Counted EXCEPT !.page.wide = ~@] = s
    BY DEF Counted, Surface
  <2>3. p \in Page /\ p.modal = page.modal /\ p.inert \subseteq page.inert
    BY <1>1, <1>2, <2>1 DEF Page
  <2> HIDE DEF p
  <2>4. SurfaceIsSound(s)
    BY <2>1, <2>3, CountedIsSound
  <2> HIDE DEF s
  <2>5. SurfaceIsSound(t)
    BY <2>4, ClosedToolsAreSound
  <2>6. SurfaceIsSound(MenuClosed(t))
    BY <2>5, ClosedMenuIsSound DEF SurfaceIsSound
  <2>7. Shows(IF t.nav.opened THEN MenuClosed(t) ELSE t)
    BY <2>1, <2>2
  <2> QED
    BY <2>5, <2>6, <2>7, ShownSurface
<1>5. ASSUME NEW url \in Urls, NEW popstate \in BOOLEAN, Navigates(url, popstate)
      PROVE  PanelsAreSound'
  BY <1>5, <1>1, <1>2, CountedIsSound, ClosedMenuIsSound, ShownSurface DEF Navigates, Counted,
     Surface, Page, SurfaceIsSound
<1>6. ASSUME AccountChanges PROVE PanelsAreSound'
  BY <1>6, <1>1, <1>2, CountedIsSound, ShownSurface DEF AccountChanges, Counted, Surface, Page
<1>7. ASSUME StyleChanges PROVE PanelsAreSound'
  <2> DEFINE p == [page EXCEPT !.events = @ + 1, !.modal = ~@]
             s == [Surface EXCEPT !.page = p]
             m == [nav EXCEPT !.dialog = ~page.modal]
             s1 == [s EXCEPT !.nav = m]
             inert == IF s1.page.modal THEN Outside ELSE {}
             s2 == [s1 EXCEPT !.page.inert = inert]
  <2>1. PageEvent /\ Shows(LET u == [Counted EXCEPT !.page.modal = ~@]
                           IN  IF nav.opened THEN Locked([u EXCEPT !.nav.dialog = ~page.modal]) ELSE u)
    BY <1>7 DEF StyleChanges
  <2>2. [Counted EXCEPT !.page.modal = ~@] = s
    BY DEF Counted, Surface
  <2>3. [s EXCEPT !.nav.dialog = ~page.modal] = s1
    BY DEF Surface
  <2>4. p \in Page /\ p.inert = page.inert
    BY <1>1, <1>2, <2>1 DEF Page
  <2> HIDE DEF p
  <2>5. s \in Surfaces /\ s.page = p /\ s.nav = nav /\ s.tools = tools
    BY <1>1, <2>4 DEF Surface, Surfaces
  <2>6. m \in Nav /\ m.opened = nav.opened /\ m.submenu = nav.submenu /\ m.snapshot = nav.snapshot
    BY <1>1 DEF Nav, Page
  <2> HIDE DEF s, m
  <2>7. s1 \in Surfaces /\ s1.page = p /\ s1.nav = m /\ s1.tools = tools
    BY <2>5, <2>6, NavFields
  <2>8. inert \in SUBSET Outside /\ (inert # {} => s1.page.modal)
    BY DEF Outside
  <2>9. Locked(s1) = s2
    BY DEF Locked, Unlocked
  <2> HIDE DEF s1, inert
  <2>10. s2 \in Surfaces /\ SamePage(s2, s1) /\ s2.page.inert = inert /\ s2.nav = m /\ s2.tools = tools
    BY <2>7, <2>8, PageFields
  <2> HIDE DEF s2
  <2>11. CASE nav.opened
    <3>1. SurfaceIsSound(s2)
      BY <1>1, <2>6, <2>8, <2>10, <2>11 DEF SurfaceIsSound, PanelsAgree, MenuIsAlone, LocksOfMenu,
         MenuIsKept, SamePage
    <3> QED
      BY <2>1, <2>2, <2>3, <2>9, <2>11, <3>1, ShownSurface
  <2>12. CASE ~nav.opened
    BY <1>1, <2>4, <2>5, <2>12, <2>1, <2>2, ShownSurface DEF SurfaceIsSound, PanelsAgree,
       MenuIsAlone, LocksOfMenu, MenuIsKept
  <2> QED
    BY <2>11, <2>12
<1>8. SurfaceIsSound(MenuClosed(Surface)) /\ SurfaceIsSound(ToolsClosed(Surface))
  BY <1>1, ClosedMenuIsSound, ClosedToolsAreSound
<1>9. ASSUME ToggleMenu PROVE PanelsAreSound'
  BY <1>1, <1>8, <1>9, MenuOpenedFields, ShownSurface DEF ToggleMenu
<1>10. ASSUME CloseMenu PROVE PanelsAreSound'
  BY <1>8, <1>10, ShownSurface DEF CloseMenu
<1>11. ASSUME ToggleSubmenu PROVE PanelsAreSound'
  <2> DEFINE m == [nav EXCEPT !.submenu = ~@]
             s == [Surface EXCEPT !.nav = m]
             snapshot == [kept |-> TRUE, submenu |-> m.submenu, url |-> page.url]
             k == [m EXCEPT !.snapshot = snapshot]
             n == [s EXCEPT !.nav = k]
  <2>1. nav.opened /\ Shows(Remembered([Surface EXCEPT !.nav.submenu = ~@]))
    BY <1>11 DEF ToggleSubmenu
  <2>2. [Surface EXCEPT !.nav.submenu = ~@] = s
    BY DEF Surface
  <2>3. m \in Nav /\ m.opened = nav.opened
    BY <1>1 DEF Nav
  <2> HIDE DEF m
  <2>4. s \in Surfaces /\ s.page = page /\ s.nav = m /\ s.tools = tools
    BY <1>1, <2>3, NavFields
  <2> HIDE DEF s
  <2>5. Remembered(s) = n
    BY <2>1, <2>3, <2>4 DEF Remembered, Surfaces, Nav
  <2>6. snapshot \in Snapshot /\ snapshot.kept = TRUE /\ snapshot.submenu = m.submenu
    BY <1>1, <2>3 DEF Snapshot, Nav, Page
  <2> HIDE DEF snapshot
  <2>7. k \in Nav /\ k.opened = nav.opened /\ k.submenu = m.submenu /\ k.snapshot = snapshot
    BY <2>3, <2>6 DEF Nav
  <2> HIDE DEF k
  <2>8. n \in Surfaces /\ n.page = page /\ n.nav = k /\ n.tools = tools
    BY <2>4, <2>7, NavFields
  <2> HIDE DEF n
  <2>9. SurfaceIsSound(n)
    BY <1>1, <2>1, <2>6, <2>7, <2>8 DEF SurfaceIsSound, PanelsAgree, MenuIsAlone, LocksOfMenu,
       MenuIsKept
  <2> QED
    BY <2>1, <2>2, <2>5, <2>9, ShownSurface
<1>12. ASSUME ClickContent PROVE PanelsAreSound'
  BY <1>8, <1>12, ClosedMenuIsSound, ShownSurface DEF SurfaceIsSound, ClickContent
<1>13. ASSUME NEW key \in Tools, ClickTool(key)
       PROVE  PanelsAreSound'
  BY <1>13, <1>1, <1>8, ClosedToolsAreSound, OpenedToolIsSound, ShownSurface DEF ClickTool
<1>14. ASSUME CloseTool PROVE PanelsAreSound'
  BY <1>8, <1>14, ShownSurface DEF CloseTool
<1>15. ASSUME UNCHANGED panelVars PROVE PanelsAreSound'
  BY <1>15, <1>1 DEF panelVars, Surface, PanelsAreSound
<1>16. PanelsAreSound'
  BY <1>3, <1>4, <1>5, <1>6, <1>7, <1>9, <1>10, <1>11, <1>12, <1>13, <1>14, <1>15 DEF
     ShellPanelsNext
<1> QED
  BY <1>3, <1>16
-----------------------------------------------------------------------------
(***************************************************************************)
(* Motion, sliders and tabs.                                                 *)
(* A number on its way is counted by frames, of a mount that moves things; what *)
(* the observers have left is settled unless the article is due.             *)
(***************************************************************************)

\* A number on its way is counted by frames, of a mount that moves things.
WholeCounter(c) == /\ c.text = "partial" => c.job
                   /\ c.job \/ c.observed => c.mounted /\ ~c.mountReduced

\* What the observers leave of each widget; a change makes the article due again.
Settled == /\ counter.mounted /\ ~counter.dirty /\ counter.mountRepeat = counter.repeat
           /\ slider.mounted => slider.present /\ slider.mountInputs = slider.inputs
           /\ ~slider.dirty /\ tabs.mounted /\ ~tabs.dirty

WidgetsInv == /\ PageWidgetsTypeOK /\ WholeCounter(counter)
              /\ loader.generation <= article.edits + (IF article.due THEN 0 ELSE 1)
              /\ tabs.mounted /\ ~tabs.dirty => tabs.shown = {tabs.selected}
              /\ ~article.due => Settled
-----------------------------------------------------------------------------
\* What the invariant says of the page: widgets show what the page has.
LEMMA WidgetsPromise == WidgetsInv => PageWidgetsTypeOK /\ WidgetsMatchThePage
BY DEF WidgetsInv, WholeCounter, Settled, WidgetsMatchThePage

\* The counter: what each step of the runtime leaves of it.
LEMMA RetiredCounter ==
  ASSUME NEW c \in Counter, WholeCounter(c)
  PROVE  /\ MotionRetired(c) \in Counter /\ WholeCounter(MotionRetired(c))
         /\ ~MotionRetired(c).mounted /\ MotionRetired(c).repeat = c.repeat
         /\ [MotionRetired(c) EXCEPT !.dirty = FALSE] \in Counter
         /\ WholeCounter([MotionRetired(c) EXCEPT !.dirty = FALSE])
         /\ [MotionRetired(c) EXCEPT !.dirty = FALSE].mounted = FALSE
         /\ [MotionRetired(c) EXCEPT !.dirty = FALSE].dirty = FALSE
         /\ [MotionRetired(c) EXCEPT !.dirty = FALSE].repeat = c.repeat
BY DEF Counter, WholeCounter, CountersStopped, MotionRetired

\* Reconciling unmounts a counter whose markup changed.
LEMMA ReconciledCounter ==
  ASSUME NEW c \in Counter, WholeCounter(c)
  PROVE  LET r == MotionReconciled(c)
         IN  /\ r \in Counter /\ WholeCounter(r) /\ ~r.dirty /\ r.repeat = c.repeat
             /\ r.mounted => r.mountRepeat = r.repeat /\ c.mounted /\ ~c.dirty
                             /\ r.mountReduced = c.mountReduced /\ r.job = c.job
                             /\ r.observed = c.observed /\ r.inview = c.inview /\ r.text = c.text
             /\ c.mounted /\ ~c.dirty /\ c.mountRepeat = c.repeat => r.mounted
<1> DEFINE r == MotionReconciled(c)
           d == [c EXCEPT !.dirty = FALSE]
<1>1. CASE c.mounted /\ (c.dirty \/ c.mountRepeat # c.repeat)
  BY <1>1, RetiredCounter DEF MotionReconciled, r
<1>2. CASE ~(c.mounted /\ (c.dirty \/ c.mountRepeat # c.repeat))
  BY <1>2 DEF MotionReconciled, Counter, WholeCounter, r
<1> QED
  BY <1>1, <1>2

\* Mounting takes the settings of the markup as it is.
LEMMA MountedCounter ==
  ASSUME NEW c \in Counter, WholeCounter(c), ~c.dirty, NEW reduced \in BOOLEAN,
         c.mounted => c.mountRepeat = c.repeat
  PROVE  LET m == MotionMounted(c, reduced)
         IN  /\ m \in Counter /\ WholeCounter(m) /\ m.mounted /\ ~m.dirty
             /\ m.mountRepeat = m.repeat
<1> DEFINE m == [c EXCEPT !.mounted = TRUE, !.mountRepeat = c.repeat, !.mountReduced = reduced,
                          !.observed = ~reduced]
<1>1. CASE c.mounted
  BY <1>1 DEF MotionMounted
<1>2. CASE ~c.mounted
  BY <1>2 DEF MotionMounted, Counter, WholeCounter
<1> QED
  BY <1>1, <1>2

\* A boot leaves the counter mounted with its settings.
LEMMA BootedCounter ==
  ASSUME NEW c \in Counter, WholeCounter(c), NEW reduced \in BOOLEAN
  PROVE  LET b == MotionBooted(c, reduced)
         IN  b \in Counter /\ WholeCounter(b) /\ b.mounted /\ ~b.dirty /\ b.mountRepeat = b.repeat
<1> DEFINE r == IF c.mounted /\ c.mountReduced # reduced
                THEN [MotionRetired(c) EXCEPT !.dirty = FALSE] ELSE MotionReconciled(c)
<1>1. /\ r \in Counter /\ WholeCounter(r) /\ ~r.dirty
      /\ r.mounted => r.mountRepeat = r.repeat
  BY RetiredCounter, ReconciledCounter
<1>2. MotionBooted(c, reduced) = MotionMounted(r, reduced)
  BY DEF MotionBooted
<1> HIDE DEF r
<1> QED
  BY <1>1, <1>2, MountedCounter

\* A counter that comes into view starts once.
LEMMA StartedCounter ==
  ASSUME NEW c \in Counter, WholeCounter(c), c.mounted, c.observed
  PROVE  LET a == [Activated(c) EXCEPT !.seen = "in", !.observed = c.repeat]
         IN  /\ a \in Counter /\ WholeCounter(a) /\ a.mounted /\ a.dirty = c.dirty
             /\ a.repeat = c.repeat /\ a.mountRepeat = c.mountRepeat
<1> DEFINE n == Activated(c)
           a == [n EXCEPT !.seen = "in", !.observed = c.repeat]
<1>1. c.repeat \in BOOLEAN
  BY DEF Counter
<1>2. /\ n \in Counter /\ n.mounted /\ n.dirty = c.dirty /\ n.repeat = c.repeat
      /\ n.mountRepeat = c.mountRepeat /\ n.mountReduced = c.mountReduced
      /\ n.text = "partial" => n.job
  <2>1. CASE c.inview /\ ~c.repeat
    BY <2>1 DEF Activated, WholeCounter
  <2>2. CASE ~(c.inview /\ ~c.repeat)
    BY <2>2 DEF Activated, Counter
  <2> QED
    BY <2>1, <2>2
<1> HIDE DEF n
<1>3. /\ a \in Counter /\ a.mounted = n.mounted /\ a.dirty = n.dirty /\ a.repeat = n.repeat
      /\ a.mountRepeat = n.mountRepeat /\ a.mountReduced = n.mountReduced
      /\ a.text = n.text /\ a.job = n.job
  BY <1>1, <1>2 DEF Counter
<1> HIDE DEF a
<1>4. ~c.mountReduced
  BY DEF WholeCounter
<1>5. WholeCounter(a)
  BY <1>2, <1>3, <1>4 DEF WholeCounter
<1> QED
  BY <1>2, <1>3, <1>5 DEF a, n

\* A counter that leaves the view is stopped.
LEMMA StoppedCounter ==
  ASSUME NEW c \in Counter, WholeCounter(c)
  PROVE  LET a == [CountersStopped(c) EXCEPT !.seen = "out", !.inview = FALSE]
             o == [c EXCEPT !.seen = "out"]
         IN  /\ a \in Counter /\ WholeCounter(a) /\ a.mounted = c.mounted /\ a.dirty = c.dirty
             /\ a.repeat = c.repeat /\ a.mountRepeat = c.mountRepeat
             /\ o \in Counter /\ WholeCounter(o) /\ o.mounted = c.mounted /\ o.dirty = c.dirty
             /\ o.repeat = c.repeat /\ o.mountRepeat = c.mountRepeat
BY DEF Counter, WholeCounter, CountersStopped

\* A callback of the counter leaves a whole one; when no records wait, it is still the one
\* the page has.
CounterStays == /\ counter' \in Counter /\ WholeCounter(counter')
                /\ counter.mounted /\ ~counter.dirty /\ counter.mountRepeat = counter.repeat
                     => /\ counter'.mounted /\ ~counter'.dirty
                        /\ counter'.mountRepeat = counter'.repeat

\* The observer of intersections reports.
LEMMA IntersectionKeepsCounter ==
  ASSUME WidgetsInv, Intersection
  PROVE  CounterStays
<1> DEFINE c == MotionReconciled(counter)
<1>1. counter \in Counter /\ WholeCounter(counter) /\ counter.observed
  BY DEF WidgetsInv, PageWidgetsTypeOK, Intersection
<1>2. /\ c \in Counter /\ WholeCounter(c) /\ ~c.dirty /\ c.repeat = counter.repeat
      /\ c.mounted => c.mountRepeat = c.repeat /\ c.observed = counter.observed
      /\ counter.mounted /\ ~counter.dirty /\ counter.mountRepeat = counter.repeat => c.mounted
  BY <1>1, ReconciledCounter
<1>3. counter' = IF ~c.mounted THEN c
                 ELSE IF article.onScreen
                 THEN [Activated(c) EXCEPT !.seen = "in", !.observed = c.repeat]
                 ELSE IF c.repeat
                 THEN [CountersStopped(c) EXCEPT !.seen = "out", !.inview = FALSE]
                 ELSE [c EXCEPT !.seen = "out"]
  BY DEF Intersection
<1> HIDE DEF c
<1>4. CASE ~c.mounted
  BY <1>2, <1>3, <1>4 DEF CounterStays
<1>5. CASE c.mounted /\ article.onScreen
  BY <1>3, <1>5, <1>1, <1>2, StartedCounter DEF CounterStays
<1>6. CASE c.mounted /\ ~article.onScreen
  BY <1>3, <1>6, <1>2, StoppedCounter DEF CounterStays
<1> QED
  BY <1>4, <1>5, <1>6

\* A frame of the number on its way.
LEMMA TickKeepsCounter ==
  ASSUME WidgetsInv, NEW last \in BOOLEAN, Tick(last)
  PROVE  CounterStays
<1> DEFINE c == MotionReconciled(counter)
           n == [c EXCEPT !.text = IF last THEN "counted" ELSE "partial", !.job = ~last]
<1>1. counter \in Counter /\ WholeCounter(counter) /\ counter.job
  BY DEF WidgetsInv, PageWidgetsTypeOK, Tick
<1>2. /\ c \in Counter /\ WholeCounter(c) /\ ~c.dirty /\ c.repeat = counter.repeat
      /\ c.mounted => c.mountRepeat = c.repeat /\ c.job = counter.job
      /\ counter.mounted /\ ~counter.dirty /\ counter.mountRepeat = counter.repeat => c.mounted
  BY <1>1, ReconciledCounter
<1>3. counter' = IF ~c.mounted THEN c ELSE n
  BY DEF Tick
<1> HIDE DEF c
<1>4. CASE ~c.mounted
  BY <1>2, <1>3, <1>4 DEF CounterStays
<1>5. CASE c.mounted
  BY <1>2, <1>3, <1>5, <1>1 DEF Counter, WholeCounter, CounterStays
<1> QED
  BY <1>4, <1>5
-----------------------------------------------------------------------------
\* A step of the counter alone.
LEMMA CounterStepKeepsWidgets ==
  ASSUME WidgetsInv, CounterStays, UNCHANGED <<article, slider, loader, tabs>>
  PROVE  WidgetsInv'
BY DEF WidgetsInv, PageWidgetsTypeOK, CounterStays, Settled

\* The script of the slider comes, or does not.
LEMMA ScriptKeepsWidgets ==
  ASSUME WidgetsInv, ScriptLoaded \/ ScriptFailed
  PROVE  WidgetsInv'
BY DEF WidgetsInv, PageWidgetsTypeOK, Loader, ScriptLoaded, ScriptFailed, Settled

\* A wait for the slider's script ends: the slider is mounted for the inputs of now.
LEMMA LoaderKeepsWidgets ==
  ASSUME WidgetsInv, NEW g \in loader.waiting, LoaderContinues(g)
  PROVE  WidgetsInv'
<1> DEFINE desired == loader.desired /\ (IsLatest(g) => slider.present)
           mounted == [slider EXCEPT !.dirty = FALSE, !.mounted = TRUE, !.mountInputs = slider.inputs]
           disposed == [slider EXCEPT !.mounted = FALSE]
           waiting == loader.waiting \ {g}
<1>1. loader \in Loader /\ slider \in Slider /\ UNCHANGED <<article, counter, tabs>>
  BY DEF WidgetsInv, PageWidgetsTypeOK, LoaderContinues
<1>2. desired \in BOOLEAN /\ waiting \in SUBSET (1 .. MaxWidgetEdits + 1)
  BY <1>1 DEF Loader
<1>3. loader' = [loader EXCEPT !.waiting = waiting, !.desired = desired]
  BY DEF LoaderContinues
<1>4. slider' = IF loader'.desired
                THEN IF IsLatest(g) THEN mounted ELSE slider
                ELSE disposed
  BY DEF LoaderContinues, SliderMounted, SliderDisposed
<1>5. desired => (IsLatest(g) => slider.present)
  OBVIOUS
<1> HIDE DEF desired, waiting
<1>6. loader' \in Loader /\ loader'.generation = loader.generation /\ loader'.desired = desired
  BY <1>1, <1>2, <1>3 DEF Loader
<1>7. /\ mounted \in Slider /\ mounted.present = slider.present /\ ~mounted.dirty
      /\ mounted.mountInputs = mounted.inputs
  BY <1>1 DEF Slider
<1>8. /\ disposed \in Slider /\ disposed.dirty = slider.dirty /\ ~disposed.mounted
  BY <1>1 DEF Slider
<1> HIDE DEF mounted, disposed
<1>9. /\ slider' \in Slider
      /\ ~slider.dirty /\ (slider.mounted => slider.present /\ slider.mountInputs = slider.inputs)
           => /\ ~slider'.dirty
              /\ slider'.mounted => slider'.present /\ slider'.mountInputs = slider'.inputs
  BY <1>4, <1>5, <1>6, <1>7, <1>1, <1>8
<1>10. ~article.due => Settled'
  BY <1>1, <1>9 DEF WidgetsInv, Settled
<1> QED
  BY <1>1, <1>6, <1>9, <1>10 DEF WidgetsInv, PageWidgetsTypeOK
-----------------------------------------------------------------------------
\* Tabs: one panel is shown as soon as they are mounted on the nodes that are there.
LEMMA SelectedTabs ==
  ASSUME NEW t \in Tabs, NEW n \in 1 .. 2
  PROVE  /\ Selected(t, n) \in Tabs /\ Selected(t, n).shown = {Selected(t, n).selected}
         /\ Selected(t, n).dirty = t.dirty /\ Selected(t, n).mounted = t.mounted
         /\ [Selected(t, n) EXCEPT !.mounted = TRUE] \in Tabs
         /\ [Selected(t, n) EXCEPT !.mounted = TRUE].mounted
         /\ [Selected(t, n) EXCEPT !.mounted = TRUE].dirty = t.dirty
         /\ [Selected(t, n) EXCEPT !.mounted = TRUE].shown
              = {[Selected(t, n) EXCEPT !.mounted = TRUE].selected}
BY DEF Selected, Tabs

\* Reconciling unmounts tabs whose markup changed.
LEMMA ReconciledTabs ==
  ASSUME NEW t \in Tabs
  PROVE  LET r == TabsReconciled(t)
         IN  /\ r \in Tabs /\ ~r.dirty /\ r.mounted = (t.mounted /\ ~t.dirty)
             /\ r.shown = t.shown /\ r.selected = t.selected
BY DEF TabsReconciled, Tabs

\* The visitor chooses a tab.
LEMMA SelectionKeepsWidgets ==
  ASSUME WidgetsInv, NEW n \in 1 .. 2, SelectTab(n)
  PROVE  WidgetsInv'
<1> DEFINE t == TabsReconciled(tabs)
<1>1. tabs \in Tabs /\ UNCHANGED <<article, counter, slider, loader>>
      /\ (tabs.mounted /\ ~tabs.dirty => tabs.shown = {tabs.selected})
  BY DEF WidgetsInv, PageWidgetsTypeOK, SelectTab
<1>2. tabs' = IF t.mounted THEN Selected(t, n) ELSE t
  BY DEF SelectTab
<1>3. t \in Tabs /\ ~t.dirty /\ t.mounted = (tabs.mounted /\ ~tabs.dirty)
      /\ t.shown = tabs.shown /\ t.selected = tabs.selected
  BY <1>1, ReconciledTabs
<1> HIDE DEF t
<1>4. /\ tabs' \in Tabs /\ ~tabs'.dirty /\ tabs'.mounted = t.mounted
      /\ tabs'.mounted => tabs'.shown = {tabs'.selected}
  <2>1. CASE t.mounted
    BY <1>3, <1>2, <2>1, SelectedTabs
  <2>2. CASE ~t.mounted
    BY <1>2, <1>3, <2>2
  <2> QED
    BY <2>1, <2>2
<1>5. ~article.due => Settled'
  BY <1>1, <1>3, <1>4 DEF WidgetsInv, Settled
<1> QED
  BY <1>1, <1>4, <1>5 DEF WidgetsInv, PageWidgetsTypeOK
-----------------------------------------------------------------------------
\* The host and the window.
LEMMA EditFields ==
  ASSUME WidgetsInv, Edit
  PROVE  /\ article' \in Article /\ article'.due = TRUE
         /\ loader.generation <= article'.edits + (IF article'.due THEN 0 ELSE 1)
<1> DEFINE edits == article.edits + 1
<1>1. article \in Article /\ article.edits < MaxWidgetEdits /\ article.edits \in Nat
      /\ loader.generation \in Nat
      /\ loader.generation <= article.edits + (IF article.due THEN 0 ELSE 1)
  BY PageWidgetsAssumption DEF WidgetsInv, PageWidgetsTypeOK, Article, Loader, Edit
<1>2. edits \in 0 .. MaxWidgetEdits /\ loader.generation <= edits
  BY <1>1, PageWidgetsAssumption
<1>3. article' = [article EXCEPT !.edits = edits, !.due = TRUE]
  BY DEF Edit
<1> HIDE DEF edits
<1>4. article' \in Article /\ article'.edits = edits /\ article'.due = TRUE
  BY <1>1, <1>2, <1>3 DEF Article
<1> QED
  BY <1>2, <1>4, <1>1

\* The host writes to the page: the article is due.
LEMMA HostKeepsWidgets ==
  ASSUME WidgetsInv,
         (\E present \in BOOLEAN : HostRendersPage(present)) \/ HostWritesMotion \/ HostWritesSlider
  PROVE  WidgetsInv'
<1>1. /\ counter \in Counter /\ WholeCounter(counter) /\ slider \in Slider /\ tabs \in Tabs
      /\ loader \in Loader /\ (tabs.mounted /\ ~tabs.dirty => tabs.shown = {tabs.selected})
  BY DEF WidgetsInv, PageWidgetsTypeOK
<1>2. Edit /\ loader' = loader
  BY DEF HostRendersPage, HostWritesMotion, HostWritesSlider
<1>3. /\ article' \in Article /\ article'.due = TRUE
      /\ loader.generation <= article'.edits + (IF article'.due THEN 0 ELSE 1)
  BY <1>2, EditFields
<1>4. counter' \in Counter /\ WholeCounter(counter')
  BY <1>1 DEF Counter, HostRendersPage, HostWritesMotion, HostWritesSlider, WholeCounter
<1>5. slider' \in Slider
  BY <1>1 DEF Slider, Configurations, HostRendersPage, HostWritesMotion, HostWritesSlider
<1>6. tabs' \in Tabs /\ (tabs'.mounted /\ ~tabs'.dirty => tabs'.shown = {tabs'.selected})
  <2>1. CASE tabs' = tabs
    BY <1>1, <2>1
  <2>2. CASE tabs' = [tabs EXCEPT !.shown = {1, 2}, !.dirty = TRUE]
    <3>1. {1, 2} \in SUBSET (1 .. 2)
      OBVIOUS
    <3>2. tabs' \in Tabs /\ tabs'.dirty = TRUE
      BY <1>1, <2>2, <3>1 DEF Tabs
    <3> QED
      BY <3>2
  <2> QED
    BY <2>1, <2>2 DEF HostRendersPage, HostWritesMotion, HostWritesSlider
<1> QED
  BY <1>1, <1>2, <1>3, <1>4, <1>5, <1>6 DEF WidgetsInv, PageWidgetsTypeOK

\* The block comes into view or leaves it, or the visitor wants less motion.
LEMMA WindowKeepsWidgets ==
  ASSUME WidgetsInv, Scroll \/ PreferenceChanges
  PROVE  WidgetsInv'
<1> DEFINE edits == article.edits + 1
<1>1. article \in Article /\ article.edits \in Nat /\ loader.generation \in Nat
      /\ loader.generation <= article.edits + (IF article.due THEN 0 ELSE 1)
      /\ UNCHANGED <<counter, slider, loader, tabs>>
  BY PageWidgetsAssumption DEF WidgetsInv, PageWidgetsTypeOK, Article, Loader, Scroll,
     PreferenceChanges
<1>2. article' \in Article /\ article'.due = article.due /\ article'.edits >= article.edits
      /\ article'.edits \in Nat
  <2>1. CASE Scroll
    <3>1. article' = [article EXCEPT !.onScreen = ~article.onScreen]
      BY <2>1 DEF Scroll
    <3>2. article' \in Article /\ article'.due = article.due /\ article'.edits = article.edits
      BY <1>1, <3>1 DEF Article
    <3> QED
      BY <1>1, <3>2
  <2>2. CASE PreferenceChanges
    <3>1. article' = [article EXCEPT !.reduced = ~article.reduced, !.edits = edits]
      BY <2>2 DEF PreferenceChanges
    <3>2. edits \in 0 .. MaxWidgetEdits /\ edits >= article.edits /\ edits \in Nat
      BY <1>1, <2>2, PageWidgetsAssumption DEF PreferenceChanges
    <3> HIDE DEF edits
    <3> QED
      BY <1>1, <3>1, <3>2 DEF Article
  <2> QED
    BY <2>1, <2>2
<1>3. loader.generation <= article'.edits + (IF article'.due THEN 0 ELSE 1)
  BY <1>1, <1>2
<1>4. ~article'.due => Settled'
  BY <1>1, <1>2 DEF WidgetsInv, Settled
<1> QED
  BY <1>1, <1>2, <1>3, <1>4 DEF WidgetsInv, PageWidgetsTypeOK

\* The page's observer boots what is there.
LEMMA BootKeepsWidgets ==
  ASSUME WidgetsInv, ObserversBoot
  PROVE  WidgetsInv'
<1>1. /\ article \in Article /\ counter \in Counter /\ WholeCounter(counter)
      /\ slider \in Slider /\ tabs \in Tabs /\ loader \in Loader
      /\ (tabs.mounted /\ ~tabs.dirty => tabs.shown = {tabs.selected})
  BY DEF WidgetsInv, PageWidgetsTypeOK
<1>2. article' \in Article /\ article'.due = FALSE /\ article'.edits = article.edits /\ article.due
  BY <1>1 DEF ObserversBoot, Article
<1>3. /\ counter' \in Counter /\ WholeCounter(counter') /\ counter'.mounted /\ ~counter'.dirty
      /\ counter'.mountRepeat = counter'.repeat
  BY <1>1, BootedCounter DEF Article, ObserversBoot
<1>4. /\ slider' \in Slider /\ ~slider'.dirty
      /\ slider'.mounted => slider'.present /\ slider'.mountInputs = slider'.inputs
  BY <1>1 DEF ObserversBoot, SliderPruned, Slider
<1>5. tabs' \in Tabs /\ tabs'.mounted /\ ~tabs'.dirty /\ tabs'.shown = {tabs'.selected}
  <2> DEFINE r == TabsReconciled(tabs)
  <2>1. /\ r \in Tabs /\ ~r.dirty /\ r.mounted = (tabs.mounted /\ ~tabs.dirty)
        /\ r.shown = tabs.shown /\ r.selected = tabs.selected
    BY <1>1, ReconciledTabs
  <2>2. tabs' = IF r.mounted THEN r ELSE [Selected(r, 1) EXCEPT !.mounted = TRUE]
    BY DEF ObserversBoot, TabsBooted
  <2> HIDE DEF r
  <2>3. CASE r.mounted
    BY <1>1, <2>1, <2>2, <2>3
  <2>4. CASE ~r.mounted
    <3> DEFINE m == [Selected(r, 1) EXCEPT !.mounted = TRUE]
    <3>1. tabs' = m /\ 1 \in 1 .. 2
      BY <2>2, <2>4
    <3>2. m \in Tabs /\ m.mounted /\ m.dirty = r.dirty /\ m.shown = {m.selected}
      BY <2>1, <3>1, SelectedTabs
    <3> HIDE DEF m
    <3> QED
      BY <2>1, <3>1, <3>2
  <2> QED
    BY <2>3, <2>4
<1>6. loader' \in Loader /\ loader'.generation = loader.generation + 1
  <2> DEFINE next == loader.generation + 1
             starts == slider.present /\ StartsLoad
             load == IF starts THEN "pending" ELSE loader.load
             loads == IF starts THEN loader.loads + 1 ELSE loader.loads
             waiting == IF slider.present THEN loader.waiting \cup {next} ELSE loader.waiting
  <2>1. loader' = [loader EXCEPT !.generation = next, !.desired = slider.present, !.load = load,
                                 !.loads = loads, !.waiting = waiting]
    BY DEF ObserversBoot, LoaderBooted
  <2>2. next \in 1 .. MaxWidgetEdits + 1 /\ next \in 0 .. MaxWidgetEdits + 1
    BY <1>1, <1>2, PageWidgetsAssumption DEF WidgetsInv, Article, Loader
  <2>3. load \in {"none", "pending", "done"} /\ slider.present \in BOOLEAN
    BY <1>1 DEF Loader, Slider
  <2>4. loads \in 0 .. MaxLoads
    BY <1>1, PageWidgetsAssumption DEF Loader, StartsLoad
  <2> HIDE DEF next, load, loads
  <2>5. waiting \in SUBSET (1 .. MaxWidgetEdits + 1)
    BY <1>1, <2>2 DEF Loader
  <2> HIDE DEF waiting
  <2>6. loader' \in Loader /\ loader'.generation = next
    BY <1>1, <2>1, <2>2, <2>3, <2>4, <2>5 DEF Loader
  <2> QED
    BY <2>6 DEF next
<1>7. loader'.generation <= article'.edits + (IF article'.due THEN 0 ELSE 1)
  BY <1>1, <1>2, <1>6, PageWidgetsAssumption DEF WidgetsInv, Article, Loader
<1> QED
  BY <1>2, <1>3, <1>4, <1>5, <1>6, <1>7 DEF WidgetsInv, PageWidgetsTypeOK, Settled
-----------------------------------------------------------------------------
\* A page that was just booted.
LEMMA WidgetsStart == PageWidgetsInit => WidgetsInv
<1> SUFFICES ASSUME NEW repeat \in BOOLEAN, NEW reduced \in BOOLEAN, NEW onScreen \in BOOLEAN,
                    NEW present \in BOOLEAN,
                    article = [edits |-> 0, reduced |-> reduced, onScreen |-> onScreen,
                               due |-> FALSE],
                    counter = MotionMounted(CompiledCounter(repeat), reduced),
                    slider = [present |-> present, inputs |-> "plain", dirty |-> FALSE,
                              mounted |-> FALSE, mountInputs |-> "plain"],
                    loader = [generation |-> 1, desired |-> present,
                              load |-> IF present THEN "pending" ELSE "none",
                              loads |-> IF present THEN 1 ELSE 0, error |-> FALSE,
                              waiting |-> IF present THEN {1} ELSE {}],
                    tabs = [shown |-> {1}, dirty |-> FALSE, mounted |-> TRUE, selected |-> 1]
             PROVE  WidgetsInv
  BY DEF PageWidgetsInit
<1>1. article \in Article /\ article.due = FALSE /\ article.edits = 0
  BY PageWidgetsAssumption DEF Article
<1>2. /\ counter \in Counter /\ WholeCounter(counter) /\ counter.mounted /\ ~counter.dirty
      /\ counter.mountRepeat = counter.repeat
  <2> DEFINE c == CompiledCounter(repeat)
  <2>1. c \in Counter /\ WholeCounter(c) /\ ~c.dirty /\ ~c.mounted
    BY DEF CompiledCounter, Counter, WholeCounter
  <2> HIDE DEF c
  <2> QED
    BY <2>1, MountedCounter DEF c
<1>3. slider \in Slider /\ ~slider.mounted /\ ~slider.dirty
  BY DEF Slider, Configurations
<1>4. loader \in Loader /\ loader.generation = 1
  BY PageWidgetsAssumption DEF Loader
<1>5. tabs \in Tabs /\ tabs.mounted /\ ~tabs.dirty /\ tabs.shown = {tabs.selected}
  BY DEF Tabs
<1> QED
  BY <1>1, <1>2, <1>3, <1>4, <1>5 DEF WidgetsInv, PageWidgetsTypeOK, Settled

\* Every step keeps the widgets true to the page.
LEMMA WidgetsStay == WidgetsInv /\ [PageWidgetsNext]_widgetVars => WidgetsInv'
<1> SUFFICES ASSUME WidgetsInv, [PageWidgetsNext]_widgetVars
             PROVE  WidgetsInv'
  OBVIOUS
<1>1. CASE Intersection
  BY <1>1, IntersectionKeepsCounter, CounterStepKeepsWidgets DEF Intersection
<1>2. ASSUME NEW last \in BOOLEAN, Tick(last)
      PROVE  WidgetsInv'
  BY <1>2, TickKeepsCounter, CounterStepKeepsWidgets DEF Tick
<1>3. CASE ScriptLoaded \/ ScriptFailed
  BY <1>3, ScriptKeepsWidgets
<1>4. ASSUME NEW g \in loader.waiting, LoaderContinues(g)
      PROVE  WidgetsInv'
  BY <1>4, LoaderKeepsWidgets
<1>5. ASSUME NEW n \in 1 .. 2, SelectTab(n)
      PROVE  WidgetsInv'
  BY <1>5, SelectionKeepsWidgets
<1>6. CASE (\E present \in BOOLEAN : HostRendersPage(present)) \/ HostWritesMotion \/ HostWritesSlider
  BY <1>6, HostKeepsWidgets
<1>7. CASE ObserversBoot
  BY <1>7, BootKeepsWidgets
<1>8. CASE Scroll \/ PreferenceChanges
  BY <1>8, WindowKeepsWidgets
<1>9. CASE UNCHANGED widgetVars
  BY <1>9 DEF widgetVars, WidgetsInv, PageWidgetsTypeOK, Settled
<1> QED
  BY <1>1, <1>2, <1>3, <1>4, <1>5, <1>6, <1>7, <1>8, <1>9 DEF PageWidgetsNext
-----------------------------------------------------------------------------
(***************************************************************************)
(* Manager of pages.                                                         *)
(* What the lists hold are versions of the server, the newest that was told of; *)
(* and one that is not the newest is due to be replaced by an answer on its way. *)
(***************************************************************************)

\* The types of the manager's records.
Dialog == [kind : Dialogs \cup {"none"}, doc : Docs \cup {{}}, lock : 0 .. MaxLock]
ManagerState == [filter : Filters, items : Listing, confirmed : Listing, loading : BOOLEAN,
                 failed : BOOLEAN, pending : SUBSET Keys, superseded : SUBSET Keys,
                 busy : SUBSET DialogKinds, dialog : Dialog, windows : SUBSET Slots,
                 away : BOOLEAN]
ListState == [state : {"none", "sent", "read"}, filter : Filters, read : Listing,
              missed : SUBSET Docs, frees : Keys \cup {"none"}]
Change == [kind : ListKinds \cup DialogKinds \cup {"none"}, doc : Docs \cup {{}},
           lock : 0 .. MaxLock, state : {"none", "sent", "done", "lost"},
           result : Resources, current : BOOLEAN]
Told == [seen : [Docs -> 0 .. MaxLock], untold : SUBSET Docs]

HasDocument(dialog) == dialog.kind # "none" => dialog.doc \in Docs

ManagerTyped ==
    /\ library \in Listing /\ manager \in ManagerState /\ list \in ListState
    /\ changes \in [Slots -> Change] /\ told \in Told
    /\ HasDocument(manager.dialog)
    /\ \A i \in Slots : IF changes[i].kind = "none" THEN changes[i].state = "none"
                       ELSE changes[i].doc \in Docs

\* What is shown of the documents.
SameLists(n, m) == /\ n.filter = m.filter /\ n.items = m.items /\ n.confirmed = m.confirmed
                   /\ n.failed = m.failed /\ n.away = m.away

IsManager(m) == m \in ManagerState /\ HasDocument(m.dialog)
-----------------------------------------------------------------------------
\* Each change of a list has the key of its control.
LEMMA KeysOfKinds ==
  \A kind \in ListKinds : KeyOf(kind) \in Keys
BY DEF Keys

\* The empty records have their types.
LEMMA EmptyTypes ==
  /\ Nothing \in Resources /\ NoListing \in Listing
  /\ NoDialog \in Dialog /\ HasDocument(NoDialog) /\ NoDialog.kind = "none"
  /\ NoChange \in Change /\ NoChange.kind = "none" /\ NoChange.state = "none"
  /\ NoList \in ListState /\ NoList.state = "none"
<1>1. 0 \in 0 .. MaxLock
  BY ManagerAssumption
<1>2. Nothing \in Resources
  BY <1>1 DEF Nothing, Resources
<1>3. NoListing \in Listing
  BY <1>2 DEF NoListing, Listing
<1>4. NoDialog \in Dialog /\ HasDocument(NoDialog) /\ NoDialog.kind = "none"
  BY <1>1 DEF NoDialog, Dialog, HasDocument
<1>5. NoChange \in Change /\ NoChange.kind = "none" /\ NoChange.state = "none"
  BY <1>1, <1>2 DEF NoChange, Change
<1>6. NoList \in ListState /\ NoList.state = "none"
  BY <1>3 DEF NoList, ListState, Filters
<1> QED
  BY <1>2, <1>3, <1>4, <1>5, <1>6

\* A list is asked for under a filter.
LEMMA ListForFields ==
  ASSUME NEW filter \in Filters, NEW key \in Keys \cup {"none"}
  PROVE  LET l == ListFor(filter, key)
         IN  l \in ListState /\ l.state = "sent" /\ l.filter = filter
BY EmptyTypes DEF ListFor, ListState

\* Leaving a dialog closes the windows that its requests had opened.
LEMMA LeavingFields ==
  ASSUME NEW m, IsManager(m), NEW kinds
  PROVE  LET n == Leaving(m, kinds)
         IN  /\ IsManager(n) /\ SameLists(n, m) /\ n.dialog = m.dialog
             /\ n.windows = m.windows \ Blank(kinds)
BY DEF Leaving, IsManager, ManagerState, SameLists

\* Only the dialog is another.
LEMMA DialogFields ==
  ASSUME NEW m, IsManager(m), NEW dialog \in Dialog, HasDocument(dialog)
  PROVE  LET n == [m EXCEPT !.dialog = dialog]
         IN  IsManager(n) /\ SameLists(n, m) /\ n.windows = m.windows
BY DEF IsManager, ManagerState, SameLists

\* A newer list leaves the lists shown alone until it comes.
LEMMA SupersedingFields ==
  ASSUME NEW m, IsManager(m), list \in ListState
  PROVE  LET n == [Superseding(m) EXCEPT !.loading = TRUE]
         IN  IsManager(n) /\ SameLists(n, m) /\ n.windows = m.windows
BY DEF IsManager, ManagerState, ListState, Superseding, SameLists

\* Freeing a control leaves the lists alone.
LEMMA FinishedFields ==
  ASSUME NEW m, IsManager(m), NEW key
  PROVE  LET n == Finished(m, key)
         IN  IsManager(n) /\ SameLists(n, m) /\ n.windows = m.windows
BY DEF Finished, IsManager, ManagerState, SameLists

\* A refusal leaves the lists alone.
LEMMA RefusedFields ==
  ASSUME NEW m, IsManager(m), NEW c
  PROVE  LET n == Refused(m, c)
         IN  IsManager(n) /\ SameLists(n, m) /\ n.windows = m.windows
BY FinishedFields DEF Refused, IsManager, ManagerState, SameLists

\* What is beneath a dialog is of the same document.
LEMMA BeneathIsDialog ==
  ASSUME NEW dialog \in Dialog, HasDocument(dialog)
  PROVE  Beneath(dialog) \in Dialog /\ HasDocument(Beneath(dialog))
BY EmptyTypes DEF Dialog, Dialogs, HasDocument, Beneath

\* What an answer does to its dialog leaves the lists alone.
LEMMA AnsweredFields ==
  ASSUME NEW m, IsManager(m), NEW c \in Change
  PROVE  LET n == Answered(m, c)
         IN  IsManager(n) /\ SameLists(n, m) /\ n.windows = m.windows
<1> DEFINE b == Beneath(m.dialog)
           r == [b EXCEPT !.lock = c.result.lock]
           dialog == IF c.kind \in {"save", "archive", "purge"} THEN NoDialog
                     ELSE IF c.kind = "restore" THEN r ELSE m.dialog
           n == [m EXCEPT !.busy = @ \ {c.kind}, !.dialog = dialog]
<1>1. m.dialog \in Dialog /\ HasDocument(m.dialog)
  BY DEF IsManager, ManagerState
<1>2. b \in Dialog /\ HasDocument(b) /\ c.result.lock \in 0 .. MaxLock
  BY <1>1, BeneathIsDialog DEF Change, Resources
<1>3. Answered(m, c) = IF ~c.current THEN m ELSE n
  BY DEF Answered
<1> HIDE DEF b
<1>4. r \in Dialog /\ HasDocument(r)
  BY <1>2 DEF Dialog, HasDocument
<1> HIDE DEF r
<1>5. dialog \in Dialog /\ HasDocument(dialog)
  BY <1>1, <1>4, EmptyTypes
<1> HIDE DEF dialog
<1>6. IsManager(n) /\ SameLists(n, m) /\ n.windows = m.windows
  BY <1>5 DEF IsManager, ManagerState, SameLists
<1>7. SameLists(m, m)
  BY DEF SameLists
<1> QED
  BY <1>3, <1>6, <1>7


\* retainConfirmed takes the newer of the two versions.
LEMMA RetainedType ==
  ASSUME NEW m, m.confirmed \in Listing, NEW d \in Docs, NEW r \in Resources
  PROVE  LET n == RetainConfirmed(m, d, r)
         IN  /\ n \in Resources /\ n.lock >= r.lock /\ n.lock >= m.confirmed[d].lock
             /\ n = r \/ (n = m.confirmed[d] /\ n.lock > r.lock)
             /\ n.lock \in Nat /\ r.lock \in Nat /\ m.confirmed[d].lock \in Nat
BY ManagerAssumption DEF Listing, Resources, RetainConfirmed

\* replaceResource: one document is replaced in both lists, never by an older version.
LEMMA ReplacedFields ==
  ASSUME NEW m, IsManager(m), NEW d \in Docs, NEW r \in Resources
  PROVE  LET n == Replaced(m, d, r)
             latest == RetainConfirmed(m, d, r)
             item(e) == IF e = d /\ m.items[e] # Nothing THEN latest ELSE m.items[e]
         IN  /\ IsManager(n) /\ n.filter = m.filter /\ n.failed = m.failed /\ n.away = m.away
             /\ n.windows = m.windows
             /\ \A e \in Docs : n.confirmed[e] = (IF e = d THEN latest ELSE m.confirmed[e])
             /\ \A e \in Docs : n.items[e] = (IF BelongsTo(item(e), m.filter) THEN item(e) ELSE Nothing)
<1> DEFINE latest == RetainConfirmed(m, d, r)
           item(e) == IF e = d /\ m.items[e] # Nothing THEN latest ELSE m.items[e]
           confirmed == [m.confirmed EXCEPT ![d] = latest]
           items == [e \in Docs |-> IF BelongsTo(item(e), m.filter) THEN item(e) ELSE Nothing]
           n == [m EXCEPT !.confirmed = confirmed, !.items = items]
<1>1. m.confirmed \in Listing /\ m.items \in Listing
  BY DEF IsManager, ManagerState
<1>2. latest \in Resources
  BY <1>1, RetainedType
<1>3. Replaced(m, d, r) = n
  BY DEF Replaced, ManagerState, IsManager
<1> HIDE DEF latest
<1>4. \A e \in Docs : item(e) \in Resources
  BY <1>1, <1>2 DEF Listing
<1> HIDE DEF item
<1>5. items \in Listing
  BY <1>4, EmptyTypes DEF Listing
<1>6. confirmed \in Listing /\ \A e \in Docs : confirmed[e] = (IF e = d THEN latest ELSE m.confirmed[e])
  BY <1>1, <1>2 DEF Listing
<1>7. \A e \in Docs : items[e] = (IF BelongsTo(item(e), m.filter) THEN item(e) ELSE Nothing)
  OBVIOUS
<1> HIDE DEF items, confirmed
<1>8. /\ IsManager(n) /\ n.filter = m.filter /\ n.failed = m.failed /\ n.away = m.away
      /\ n.windows = m.windows /\ n.confirmed = confirmed /\ n.items = items
  BY <1>5, <1>6 DEF IsManager, ManagerState
<1> HIDE DEF n
<1> QED
  BY <1>3, <1>6, <1>7, <1>8 DEF latest, item
-----------------------------------------------------------------------------
\* An accepted change whose answer is under way, and what the list learns from it.
IsResult(i) == changes[i].state = "done" /\ changes[i].kind \notin {"preview", "none"}
QuietKinds == {"save", "restore"}
Loud == {i \in Slots : IsResult(i) /\ changes[i].kind \in ListKinds}

\* What is shown is what was confirmed, and nothing newer was told.
ConfirmedIsLatest ==
    \A d \in Docs : /\ manager.confirmed[d].lock >= told.seen[d]
                    /\ manager.items[d] # Nothing => manager.items[d] = manager.confirmed[d]

\* A lock version names one state of a document: of two records with one lock, one
\* that the server has is the other one, too.
IsVersion(r, d) == r.lock < library[d].lock \/ r = library[d]

HoldsVersions ==
    \A d \in Docs :
        /\ IsVersion(Nothing, d) /\ IsVersion(manager.confirmed[d], d)
        /\ IsVersion(list.read[d], d)
        /\ \A i \in Slots : IsResult(i) /\ changes[i].kind # "duplicate" /\ changes[i].doc = d
                               => IsVersion(changes[i].result, d)

QuietIsActive ==
    \A i \in Slots : IsResult(i) /\ changes[i].kind \in QuietKinds
                        => changes[i].result.status = "active"

\* The page has the newest state of a document, or will have it from a quiet answer.
IsOnItsWay(d) ==
    \/ manager.confirmed[d] = library[d]
    \/ \E i \in Slots : /\ IsResult(i) /\ changes[i].kind \in QuietKinds
                        /\ changes[i].doc = d /\ changes[i].result = library[d]

\* r is in the list as the document is, but for a quiet change that is on its way.
IsFaithful(r, d) ==
    IF BelongsTo(library[d], manager.filter)
    THEN /\ r # Nothing
         /\ r = library[d] \/ (r.status = "active" /\ library[d].status = "active" /\ IsOnItsWay(d))
    ELSE r = Nothing

ShownIsFaithful ==
    (list.state = "none" /\ ~manager.failed /\ ~manager.away /\ Loud = {}) =>
        \A d \in Docs \ told.untold : IsFaithful(manager.items[d], d)

ListIsAimed == /\ list.state # "none" => list.filter = manager.filter
               /\ list.state = "none" => list = NoList

ReadIsFaithful ==
    list.state = "read" /\ ~manager.away =>
        \A d \in Docs \ list.missed :
            /\ Loud = {} => IsFaithful(list.read[d], d)
            /\ list.read[d] # Nothing /\ manager.confirmed[d].lock > list.read[d].lock
                  => manager.confirmed[d].status = "active"

ManagerIsTrue == /\ ConfirmedIsLatest /\ HoldsVersions /\ QuietIsActive
                 /\ ShownIsFaithful /\ ListIsAimed /\ ReadIsFaithful

ManagerInv == ManagerTyped /\ NoWindowIsLeftBlank /\ ManagerIsTrue
-----------------------------------------------------------------------------
\* What the invariant says of the list: no older version, no window left blank.
LEMMA ManagerPromises ==
  ManagerInv => /\ ManagerTypeOK /\ NoWindowIsLeftBlank /\ ShowsNoOlderVersion /\ QuietListIsTrue
<1> SUFFICES ASSUME ManagerInv
             PROVE  ManagerTypeOK /\ NoWindowIsLeftBlank /\ ShowsNoOlderVersion /\ QuietListIsTrue
  OBVIOUS
<1>1. ManagerTypeOK
  BY DEF ManagerInv, ManagerTyped, ManagerTypeOK, ManagerState, ListState, Change, Dialog
<1>2. NoWindowIsLeftBlank
  BY DEF ManagerInv
<1>3. ShowsNoOlderVersion
  BY DEF ManagerInv, ManagerIsTrue, ConfirmedIsLatest, ShowsNoOlderVersion
<1>4. QuietListIsTrue
  <2> SUFFICES ASSUME ~manager.away, ~manager.failed, list = NoList, Free = Slots,
                      NEW d \in Docs \ told.untold
               PROVE  manager.items[d] = IF BelongsTo(library[d], manager.filter)
                                         THEN library[d] ELSE Nothing
    BY DEF QuietListIsTrue
  <2>1. \A i \in Slots : changes[i].kind = "none"
    BY DEF Free
  <2>2. Loud = {}
    BY <2>1 DEF Loud, ListKinds
  <2>3. IsFaithful(manager.items[d], d)
    BY <2>2, EmptyTypes DEF ManagerInv, ManagerIsTrue, ShownIsFaithful
  <2>4. ~\E i \in Slots : changes[i].kind \in QuietKinds
    BY <2>1 DEF QuietKinds
  <2>5. IsOnItsWay(d) => manager.confirmed[d] = library[d]
    BY <2>4 DEF IsOnItsWay
  <2>6. manager.items[d] # Nothing => manager.items[d] = manager.confirmed[d]
    BY DEF ManagerInv, ManagerIsTrue, ConfirmedIsLatest
  <2> QED
    BY <2>3, <2>5, <2>6 DEF IsFaithful
<1> QED
  BY <1>1, <1>2, <1>3, <1>4

\* The manager as it is opened.
LEMMA ManagerStarts == ManagerInit => ManagerInv
<1> SUFFICES ASSUME ManagerInit
             PROVE  ManagerInv
  OBVIOUS
<1> USE DEF ManagerInit
<1>1. library \in Listing
  BY ManagerAssumption, EmptyTypes DEF Resources, Listing
<1>2. manager \in ManagerState /\ manager.items = NoListing /\ manager.confirmed = NoListing
      /\ manager.windows = {} /\ manager.dialog = NoDialog /\ manager.filter = "active"
  BY EmptyTypes DEF ManagerState, Filters
<1>3. list \in ListState /\ list.state = "sent" /\ list.filter = "active"
  BY ListForFields DEF Filters
<1>4. list.read = NoListing
  BY DEF ListFor, NoList
<1>5. changes \in [Slots -> Change] /\ \A i \in Slots : changes[i] = NoChange
  BY EmptyTypes
<1>6. told \in Told /\ \A d \in Docs : told.seen[d] = 0
  BY ManagerAssumption DEF Told
<1>7. ManagerTyped
  BY <1>1, <1>2, <1>3, <1>5, <1>6, EmptyTypes DEF ManagerTyped
<1>8. NoWindowIsLeftBlank
  BY <1>2 DEF NoWindowIsLeftBlank
<1>9. \A d \in Docs : NoListing[d] = Nothing /\ Nothing.lock = 0
  BY DEF NoListing, Nothing
<1>10. ConfirmedIsLatest
  BY <1>2, <1>6, <1>9 DEF ConfirmedIsLatest
<1>11. \A i \in Slots : ~IsResult(i)
  BY <1>5, EmptyTypes DEF IsResult
<1>12. HoldsVersions
  BY <1>2, <1>4, <1>9, <1>11 DEF HoldsVersions, IsVersion
<1> QED
  BY <1>2, <1>3, <1>7, <1>8, <1>10, <1>11, <1>12 DEF ManagerInv, ManagerIsTrue, QuietIsActive,
     ShownIsFaithful, ListIsAimed, ReadIsFaithful
-----------------------------------------------------------------------------
\* Steps that change nothing of what is shown, told or on its way.
SameResults ==
    \A i \in Slots : /\ IsResult(i)' <=> IsResult(i)
                     /\ IsResult(i) => /\ changes'[i].kind = changes[i].kind
                                       /\ changes'[i].doc = changes[i].doc
                                       /\ changes'[i].result = changes[i].result

\* A step that leaves the lists, the requests and the server alone keeps what they say.
LEMMA ListsAreKept ==
  ASSUME ManagerIsTrue, UNCHANGED <<library, list, told>>, SameLists(manager', manager), SameResults
  PROVE  ManagerIsTrue'
<1> USE DEF SameLists
<1>1. ConfirmedIsLatest'
  BY DEF ManagerIsTrue, ConfirmedIsLatest
<1>2. HoldsVersions'
  BY DEF ManagerIsTrue, HoldsVersions, SameResults, IsVersion
<1>3. QuietIsActive'
  BY DEF ManagerIsTrue, QuietIsActive, SameResults
<1>4. Loud' = Loud
  BY DEF Loud, SameResults
<1>5. \A d \in Docs : IsOnItsWay(d) => IsOnItsWay(d)'
  BY DEF IsOnItsWay, SameResults
<1>6. \A d \in Docs : /\ IsFaithful(manager.items[d], d) => IsFaithful(manager.items[d], d)'
                      /\ IsFaithful(list.read[d], d) => IsFaithful(list.read[d], d)'
  BY <1>5 DEF IsFaithful
<1>7. ShownIsFaithful'
  BY <1>4, <1>6 DEF ManagerIsTrue, ShownIsFaithful
<1>8. ReadIsFaithful'
  BY <1>4, <1>6 DEF ManagerIsTrue, ReadIsFaithful
<1>9. ListIsAimed'
  BY DEF ManagerIsTrue, ListIsAimed
<1> QED
  BY <1>1, <1>2, <1>3, <1>7, <1>8, <1>9 DEF ManagerIsTrue

\* A list that is asked for again will be true.
LEMMA ReloadIsTrue ==
  ASSUME ConfirmedIsLatest', HoldsVersions', QuietIsActive',
         list'.state = "sent", list'.filter = manager'.filter
  PROVE  ManagerIsTrue'
BY DEF ManagerIsTrue, ShownIsFaithful, ListIsAimed, ReadIsFaithful

\* reload asks for a list and leaves the ones shown alone.
LEMMA ReloadFields ==
  ASSUME NEW m, IsManager(m), list \in ListState, NEW key \in Keys \cup {"none"}, Reload(m, key)
  PROVE  /\ IsManager(manager') /\ SameLists(manager', m) /\ manager'.windows = m.windows
         /\ list' \in ListState /\ list'.state = "sent" /\ list'.filter = manager'.filter
         /\ list'.read = NoListing
BY SupersedingFields, ListForFields DEF Reload, IsManager, ManagerState, ListFor, NoList, SameLists

\* The other filter is chosen.
LEMMA SwitchKeepsManager ==
  ASSUME ManagerInv, NEW filter \in Filters, SwitchFilter(filter)
  PROVE  ManagerInv'
<1> DEFINE m == [manager EXCEPT !.filter = filter]
<1>1. ManagerTyped /\ ManagerIsTrue /\ NoWindowIsLeftBlank
  BY DEF ManagerInv
<1>2. /\ IsManager(m) /\ m.windows = manager.windows /\ m.confirmed = manager.confirmed
      /\ m.items = manager.items
  BY <1>1 DEF ManagerTyped, IsManager, ManagerState
<1>3. Reload(m, "none") /\ UNCHANGED <<library, changes, told>>
  BY DEF SwitchFilter
<1> HIDE DEF m
<1>4. /\ IsManager(manager') /\ SameLists(manager', m) /\ manager'.windows = m.windows
      /\ list' \in ListState /\ list'.state = "sent" /\ list'.filter = manager'.filter
      /\ list'.read = NoListing
  BY <1>1, <1>2, <1>3, ReloadFields DEF ManagerTyped
<1>5. ManagerTyped' /\ NoWindowIsLeftBlank'
  BY <1>1, <1>2, <1>3, <1>4 DEF ManagerTyped, IsManager, NoWindowIsLeftBlank
<1>6. ConfirmedIsLatest'
  BY <1>1, <1>2, <1>3, <1>4 DEF ManagerIsTrue, ConfirmedIsLatest, SameLists
<1>7. HoldsVersions'
  BY <1>1, <1>2, <1>3, <1>4 DEF ManagerIsTrue, HoldsVersions, SameLists, IsResult, IsVersion,
     NoListing
<1>8. QuietIsActive'
  BY <1>1, <1>3 DEF ManagerIsTrue, QuietIsActive, IsResult
<1> QED
  BY <1>4, <1>5, <1>6, <1>7, <1>8, ReloadIsTrue DEF ManagerInv

\* The server reads the list.
LEMMA ReadKeepsManager ==
  ASSUME ManagerInv, ReadList
  PROVE  ManagerInv'
<1> DEFINE read == [d \in Docs |-> IF BelongsTo(library[d], list.filter) THEN library[d] ELSE Nothing]
<1>1. ManagerTyped /\ ManagerIsTrue /\ NoWindowIsLeftBlank
  BY DEF ManagerInv
<1>2. list.state = "sent" /\ UNCHANGED <<library, manager, changes, told>>
  BY DEF ReadList
<1>3. read \in Listing
  BY <1>1, EmptyTypes DEF ManagerTyped, Listing
<1>4. \A d \in Docs : read[d] = IF BelongsTo(library[d], list.filter) THEN library[d] ELSE Nothing
  OBVIOUS
<1>5. list' = [list EXCEPT !.state = "read", !.read = read]
  BY DEF ReadList
<1> HIDE DEF read
<1>6. /\ list' \in ListState /\ list'.state = "read" /\ list'.read = read /\ list'.filter = list.filter
      /\ list'.missed = list.missed
  BY <1>1, <1>3, <1>5 DEF ManagerTyped, ListState
<1>7. ManagerTyped' /\ NoWindowIsLeftBlank'
  BY <1>1, <1>2, <1>6 DEF ManagerTyped, NoWindowIsLeftBlank
<1>8. list.filter = manager.filter
  BY <1>1, <1>2 DEF ManagerIsTrue, ListIsAimed
<1>9. ConfirmedIsLatest' /\ QuietIsActive'
  BY <1>1, <1>2 DEF ManagerIsTrue, ConfirmedIsLatest, QuietIsActive, IsResult
<1>10. HoldsVersions'
  BY <1>1, <1>2, <1>4, <1>6 DEF ManagerIsTrue, HoldsVersions, IsVersion, IsResult
<1>11. ShownIsFaithful' /\ ListIsAimed'
  BY <1>2, <1>6, <1>8 DEF ShownIsFaithful, ListIsAimed
<1>12. ReadIsFaithful'
  <2> SUFFICES ASSUME NEW d \in Docs
               PROVE  /\ IsFaithful(list.read[d], d)'
                      /\ read[d] # Nothing => ~(manager.confirmed[d].lock > read[d].lock)
    BY <1>2, <1>6 DEF ReadIsFaithful
  <2>1. library[d] = Nothing => ~BelongsTo(library[d], manager.filter)
    BY DEF Nothing, BelongsTo, Filters
  <2>2. IsFaithful(list.read[d], d)'
    BY <1>2, <1>4, <1>6, <1>8, <2>1 DEF IsFaithful
  <2>3. library[d].lock \in Nat /\ manager.confirmed[d].lock \in Nat
    BY <1>1, ManagerAssumption DEF ManagerTyped, Listing, Resources, ManagerState
  <2>4. ~(manager.confirmed[d].lock > library[d].lock)
    BY <1>1, <2>3 DEF ManagerIsTrue, HoldsVersions, IsVersion
  <2> QED
    BY <1>4, <2>2, <2>4
<1> QED
  BY <1>7, <1>9, <1>10, <1>11, <1>12 DEF ManagerInv, ManagerIsTrue

\* The list fails: what was shown stays.
LEMMA FailureKeepsManager ==
  ASSUME ManagerInv, ListFails
  PROVE  ManagerInv'
<1> DEFINE m == Finished(manager, list.frees)
<1>1. ManagerTyped /\ ManagerIsTrue /\ NoWindowIsLeftBlank
  BY DEF ManagerInv
<1>2. /\ manager' = [m EXCEPT !.loading = FALSE, !.failed = TRUE] /\ list' = NoList
      /\ UNCHANGED <<library, changes, told>>
  BY DEF ListFails
<1>3. IsManager(m) /\ SameLists(m, manager) /\ m.windows = manager.windows
  BY <1>1, FinishedFields DEF ManagerTyped, IsManager
<1> HIDE DEF m
<1>4. /\ IsManager(manager') /\ manager'.windows = m.windows /\ manager'.failed
      /\ manager'.items = m.items /\ manager'.confirmed = m.confirmed /\ manager'.filter = m.filter
  BY <1>2, <1>3 DEF IsManager, ManagerState
<1>5. ManagerTyped' /\ NoWindowIsLeftBlank'
  BY <1>1, <1>2, <1>3, <1>4, EmptyTypes DEF ManagerTyped, IsManager, NoWindowIsLeftBlank
<1>6. ConfirmedIsLatest' /\ QuietIsActive'
  BY <1>1, <1>2, <1>3, <1>4 DEF ManagerIsTrue, ConfirmedIsLatest, QuietIsActive, IsResult, SameLists
<1>7. HoldsVersions'
  BY <1>1, <1>2, <1>3, <1>4 DEF ManagerIsTrue, HoldsVersions, IsVersion, IsResult, SameLists,
     NoList, NoListing
<1> QED
  BY <1>2, <1>4, <1>5, <1>6, <1>7, EmptyTypes DEF ManagerInv, ManagerIsTrue, ShownIsFaithful,
     ListIsAimed, ReadIsFaithful
-----------------------------------------------------------------------------
\* What the page holds of a document after a list was read is the newer of the two.
LEMMA TakenItem ==
  ASSUME ManagerInv, NEW d \in Docs \ list.missed, list.state = "read", ~manager.away, Loud = {},
         NEW m, SameLists(m, manager)
  PROVE  LET r == RetainConfirmed(m, d, list.read[d])
             item == IF list.read[d] # Nothing /\ BelongsTo(r, m.filter) THEN r ELSE Nothing
         IN  IF BelongsTo(library[d], m.filter)
             THEN /\ item = r /\ r # Nothing
                  /\ \/ r = library[d]
                     \/ /\ r.status = "active" /\ library[d].status = "active"
                        /\ IsOnItsWay(d) /\ manager.confirmed[d] # library[d]
             ELSE item = Nothing
<1> DEFINE r == RetainConfirmed(m, d, list.read[d])
<1>1. ManagerTyped /\ ManagerIsTrue
  BY DEF ManagerInv
<1>2. /\ IsFaithful(list.read[d], d)
      /\ list.read[d] # Nothing /\ manager.confirmed[d].lock > list.read[d].lock
            => manager.confirmed[d].status = "active"
  BY <1>1 DEF ManagerIsTrue, ReadIsFaithful
<1>3. IsVersion(manager.confirmed[d], d) /\ IsVersion(list.read[d], d)
  BY <1>1 DEF ManagerIsTrue, HoldsVersions
<1>4. /\ library[d].lock \in Nat /\ list.read[d].lock \in Nat /\ manager.confirmed[d].lock \in Nat
  BY <1>1, ManagerAssumption DEF ManagerTyped, Listing, Resources, ManagerState, ListState
<1>5. r = IF manager.confirmed[d].lock > list.read[d].lock THEN manager.confirmed[d] ELSE list.read[d]
  BY DEF RetainConfirmed, SameLists
<1>6. m.filter = manager.filter
  BY DEF SameLists
<1>7. CASE ~BelongsTo(library[d], m.filter)
  BY <1>2, <1>6, <1>7 DEF IsFaithful
<1>8. CASE BelongsTo(library[d], m.filter)
  <2>1. list.read[d] # Nothing
    BY <1>2, <1>6, <1>8 DEF IsFaithful
  <2>2. CASE list.read[d] = library[d]
    BY <1>3, <1>4, <1>5, <2>2, <1>8, <2>1 DEF IsVersion
  <2>3. CASE list.read[d] # library[d]
    BY <1>2, <1>6, <1>8, <2>3, <1>5, <2>1, <1>3, <1>4 DEF IsFaithful, BelongsTo, Nothing, IsVersion
  <2> QED
    BY <2>2, <2>3
<1> QED
  BY <1>7, <1>8

\* The list comes: each document is the newer of the one read and the one confirmed.
LEMMA TakenListKeepsManager ==
  ASSUME ManagerInv, TakeList
  PROVE  ManagerInv'
<1> DEFINE f == Finished(manager, list.frees)
           m == [f EXCEPT !.loading = FALSE]
           retained == [d \in Docs |-> RetainConfirmed(m, d, list.read[d])]
           items == ItemsOf(m, list.read)
           seen == [d \in Docs |-> Higher(told.seen[d], list.read[d].lock)]
<1>1. ManagerTyped /\ ManagerIsTrue /\ NoWindowIsLeftBlank
  BY DEF ManagerInv
<1>2. /\ list.state = "read" /\ ~manager.away /\ list' = NoList
      /\ manager' = [m EXCEPT !.failed = FALSE, !.items = items, !.confirmed = retained]
      /\ told' = [untold |-> list.missed, seen |-> seen]
      /\ UNCHANGED <<library, changes>>
  BY DEF TakeList
<1>3. IsManager(f) /\ SameLists(f, manager) /\ f.windows = manager.windows
  BY <1>1, FinishedFields DEF ManagerTyped, IsManager
<1> HIDE DEF f
<1>4. IsManager(m) /\ SameLists(m, manager) /\ m.windows = manager.windows
  BY <1>3 DEF IsManager, ManagerState, SameLists
<1> HIDE DEF m
<1>5. list.read \in Listing /\ m.confirmed \in Listing /\ m.confirmed = manager.confirmed
  BY <1>1, <1>4 DEF ManagerTyped, ListState, IsManager, ManagerState, SameLists
<1>6. \A d \in Docs : RetainConfirmed(m, d, list.read[d]) \in Resources
  BY <1>5, RetainedType DEF Listing
<1>7. retained \in Listing /\ \A d \in Docs : retained[d] = RetainConfirmed(m, d, list.read[d])
  BY <1>6 DEF Listing
<1>8. \A d \in Docs : items[d] = LET r == RetainConfirmed(m, d, list.read[d])
                                IN IF list.read[d] # Nothing /\ BelongsTo(r, m.filter) THEN r ELSE Nothing
  BY DEF ItemsOf
<1>9. items \in Listing
  BY <1>6, EmptyTypes DEF ItemsOf, Listing
<1>10. seen \in [Docs -> 0 .. MaxLock]
       /\ \A d \in Docs : seen[d] = Higher(told.seen[d], list.read[d].lock)
  BY <1>1, <1>5, ManagerAssumption DEF ManagerTyped, Told, Listing, Resources, Higher
<1> HIDE DEF items, retained, seen
<1>11. /\ IsManager(manager') /\ manager'.windows = manager.windows /\ ~manager'.failed
       /\ manager'.items = items /\ manager'.confirmed = retained /\ manager'.filter = m.filter
       /\ manager'.away = m.away
  BY <1>2, <1>4, <1>7, <1>9 DEF IsManager, ManagerState
<1>12. told' \in Told /\ told'.seen = seen /\ told'.untold = list.missed
  BY <1>1, <1>2, <1>10 DEF Told, ManagerTyped, ListState
<1>13. ManagerTyped' /\ NoWindowIsLeftBlank'
  BY <1>1, <1>2, <1>11, <1>12, EmptyTypes DEF ManagerTyped, IsManager, NoWindowIsLeftBlank
<1>14. ConfirmedIsLatest'
  BY <1>11, <1>12, <1>5, <1>7, <1>1, <1>10, <1>8, RetainedType, ManagerAssumption DEF
     ConfirmedIsLatest, Listing, ManagerIsTrue, ManagerTyped, Told, Higher
<1>15. HoldsVersions'
  <2> SUFFICES ASSUME NEW d \in Docs
               PROVE  IsVersion(manager.confirmed[d], d)' /\ IsVersion(list.read[d], d)'
    BY <1>1, <1>2 DEF ManagerIsTrue, HoldsVersions, IsVersion, IsResult
  <2>1. retained[d] = list.read[d] \/ retained[d] = manager.confirmed[d]
    BY <1>5, <1>7 DEF RetainConfirmed
  <2> QED
    BY <1>1, <1>2, <1>11, <2>1 DEF ManagerIsTrue, HoldsVersions, IsVersion, NoList, NoListing
<1>16. QuietIsActive'
  BY <1>1, <1>2 DEF ManagerIsTrue, QuietIsActive, IsResult
<1>17. ListIsAimed' /\ ReadIsFaithful'
  BY <1>2, EmptyTypes DEF ListIsAimed, ReadIsFaithful
<1>18. ShownIsFaithful'
  BY <1>2, <1>12, <1>4, <1>7, <1>8, <1>11, TakenItem DEF ShownIsFaithful, Loud, IsResult,
     IsOnItsWay, IsFaithful
<1> QED
  BY <1>13, <1>14, <1>15, <1>16, <1>17, <1>18 DEF ManagerInv, ManagerIsTrue

\* The answer to a list that is not wanted any more.
LEMMA SupersededKeepsManager ==
  ASSUME ManagerInv, NEW key \in Keys, TakeSuperseded(key)
  PROVE  ManagerInv'
<1> DEFINE m == Finished(manager, key)
<1>1. ManagerTyped /\ ManagerIsTrue /\ NoWindowIsLeftBlank
  BY DEF ManagerInv
<1>2. /\ manager' = [m EXCEPT !.superseded = @ \ {key}]
      /\ UNCHANGED <<library, list, changes, told>>
  BY DEF TakeSuperseded
<1>3. IsManager(m) /\ SameLists(m, manager) /\ m.windows = manager.windows
  BY <1>1, FinishedFields DEF ManagerTyped, IsManager
<1> HIDE DEF m
<1>4. IsManager(manager') /\ SameLists(manager', m) /\ manager'.windows = m.windows
  BY <1>2, <1>3 DEF IsManager, ManagerState, SameLists
<1>5. ManagerTyped' /\ NoWindowIsLeftBlank'
  BY <1>1, <1>2, <1>3, <1>4 DEF ManagerTyped, IsManager, NoWindowIsLeftBlank
<1>6. SameLists(manager', manager) /\ SameResults
  BY <1>2, <1>3, <1>4 DEF SameLists, SameResults, IsResult
<1> QED
  BY <1>1, <1>2, <1>5, <1>6, ListsAreKept DEF ManagerInv

\* Giving up the requests of a dialog leaves their results alone.
LEMMA UnwaitedFields ==
  ASSUME changes \in [Slots -> Change], NEW kinds, changes' = Unwaited(kinds)
  PROVE  /\ changes' \in [Slots -> Change]
         /\ \A i \in Slots : /\ changes'[i].kind = changes[i].kind /\ changes'[i].doc = changes[i].doc
                             /\ changes'[i].state = changes[i].state
                             /\ changes'[i].result = changes[i].result
                             /\ changes[i].kind \notin kinds => changes'[i].current = changes[i].current
BY DEF Unwaited, Change

\* A dialog that opens or closes.
LEMMA DialogKeepsManager ==
  ASSUME ManagerInv, NEW kinds, NEW dialog \in Dialog, HasDocument(dialog),
         manager' = [Leaving(manager, kinds) EXCEPT !.dialog = dialog],
         changes' = Unwaited(kinds), UNCHANGED <<library, list, told>>
  PROVE  ManagerInv'
<1> DEFINE m == Leaving(manager, kinds)
<1>1. ManagerTyped /\ ManagerIsTrue /\ NoWindowIsLeftBlank
  BY DEF ManagerInv
<1>2. IsManager(m) /\ SameLists(m, manager) /\ m.windows = manager.windows \ Blank(kinds)
  BY <1>1, LeavingFields DEF ManagerTyped, IsManager
<1>3. manager' = [m EXCEPT !.dialog = dialog]
  OBVIOUS
<1> HIDE DEF m
<1>4. IsManager(manager') /\ SameLists(manager', m) /\ manager'.windows = m.windows
  BY <1>2, <1>3, DialogFields
<1>5. /\ changes' \in [Slots -> Change]
      /\ \A i \in Slots : /\ changes'[i].kind = changes[i].kind /\ changes'[i].doc = changes[i].doc
                          /\ changes'[i].state = changes[i].state
                          /\ changes'[i].result = changes[i].result
                          /\ changes[i].kind \notin kinds => changes'[i].current = changes[i].current
  BY <1>1, UnwaitedFields DEF ManagerTyped
<1>6. ManagerTyped'
  BY <1>1, <1>4, <1>5 DEF ManagerTyped, IsManager
<1>7. NoWindowIsLeftBlank'
  BY <1>1, <1>2, <1>4, <1>5 DEF NoWindowIsLeftBlank, ManagerTyped, ManagerState, Blank
<1>8. SameLists(manager', manager) /\ SameResults
  BY <1>2, <1>4, <1>5 DEF SameLists, SameResults, IsResult
<1> QED
  BY <1>1, <1>6, <1>7, <1>8, ListsAreKept DEF ManagerInv

\* A dialog shows a version that there may be.
LEMMA ShownIsLock ==
  ASSUME ManagerTyped, NEW d \in Docs
  PROVE  Shown(d, manager.dialog.lock) \in 0 .. MaxLock
BY DEF ManagerTyped, ManagerState, Dialog, Shown, Listing, Resources

\* A dialog is opened.
LEMMA OpenKeepsManager ==
  ASSUME ManagerInv, NEW kind \in Dialogs, NEW d \in Docs, OpenDialog(kind, d)
  PROVE  ManagerInv'
<1> DEFINE lock == IF kind = "create" THEN 0 ELSE Shown(d, manager.dialog.lock)
           dialog == [kind |-> kind, doc |-> d, lock |-> lock]
<1>1. lock \in 0 .. MaxLock
  BY ShownIsLock, ManagerAssumption DEF ManagerInv
<1>2. /\ manager' = [Leaving(manager, OwnedBy(kind)) EXCEPT !.dialog = dialog]
      /\ changes' = Unwaited(OwnedBy(kind)) /\ UNCHANGED <<library, list, told>>
  BY DEF OpenDialog
<1> HIDE DEF lock
<1>3. dialog \in Dialog /\ HasDocument(dialog)
  BY <1>1 DEF Dialog, HasDocument
<1> HIDE DEF dialog
<1> QED
  BY <1>2, <1>3, DialogKeepsManager

\* A dialog is closed.
LEMMA CloseKeepsManager ==
  ASSUME ManagerInv, CloseDialog
  PROVE  ManagerInv'
BY BeneathIsDialog, DialogKeepsManager DEF ManagerInv, ManagerTyped, ManagerState, CloseDialog

\* A request is sent: nobody has its answer yet.
LEMMA StartKeepsManager ==
  ASSUME ManagerInv, NEW kind \in ListKinds \cup DialogKinds, NEW d \in Docs, NEW lock \in 0 .. MaxLock,
         Start(kind, d, lock), UNCHANGED <<library, list, told>>
  PROVE  ManagerInv'
<1> DEFINE c == [kind |-> kind, doc |-> d, lock |-> lock, state |-> "sent",
                 result |-> Nothing, current |-> TRUE]
<1>1. ManagerTyped /\ ManagerIsTrue /\ NoWindowIsLeftBlank
  BY DEF ManagerInv
<1>2. PICK i \in Free : /\ changes' = [changes EXCEPT ![i] = c]
                        /\ manager' = IF kind \in ListKinds
                             THEN [manager EXCEPT !.pending = @ \cup {KeyOf(kind)}]
                             ELSE [manager EXCEPT !.busy = @ \cup {kind},
                                      !.windows = IF kind = "preview" THEN @ \cup {i} ELSE @]
  BY DEF Start
<1>3. c \in Change /\ c.kind = kind /\ c.state = "sent" /\ c.doc = d /\ c.current
  BY EmptyTypes DEF Change
<1> HIDE DEF c
<1>4. i \in Slots /\ changes[i].kind = "none"
  BY DEF Free
<1>5. /\ IsManager(manager') /\ SameLists(manager', manager)
      /\ manager'.windows = manager.windows
         \/ (kind = "preview" /\ manager'.windows = manager.windows \cup {i})
  <2>1. CASE kind \in ListKinds
    BY <1>1, <1>2, <2>1, KeysOfKinds DEF ManagerTyped, IsManager, ManagerState, SameLists
  <2>2. CASE kind \notin ListKinds
    BY <1>2, <2>2, <1>1, <1>4 DEF ManagerTyped, ManagerState, IsManager, SameLists
  <2> QED
    BY <2>1, <2>2
<1>6. /\ changes' \in [Slots -> Change] /\ changes'[i] = c
      /\ \A j \in Slots : j # i => changes'[j] = changes[j]
  BY <1>1, <1>2, <1>3, <1>4 DEF ManagerTyped
<1>7. ManagerTyped'
  BY <1>1, <1>3, <1>5, <1>6 DEF ManagerTyped, IsManager, ListKinds, DialogKinds
<1>8. i \notin manager.windows
  BY <1>1, <1>4 DEF NoWindowIsLeftBlank
<1>9. NoWindowIsLeftBlank'
  BY <1>1, <1>6, <1>8, <1>3, <1>5 DEF NoWindowIsLeftBlank, ManagerTyped, ManagerState
<1>10. SameResults
  BY <1>3, <1>4, <1>6 DEF SameResults, IsResult
<1> QED
  BY <1>1, <1>5, <1>7, <1>9, <1>10, ListsAreKept DEF ManagerInv

\* A change is sent from a dialog or the list.
LEMMA PressKeepsManager ==
  ASSUME ManagerInv, NEW kind \in (ListKinds \ {"home", "unarchive"}) \cup DialogKinds, PressKey(kind)
  PROVE  ManagerInv'
<1>1. ManagerTyped
  BY DEF ManagerInv
<1>2. manager.dialog.kind = DialogOf(kind)
  BY DEF PressKey
<1>3. DialogOf(kind) # "none"
  BY DEF DialogOf, ListKinds, DialogKinds
<1>4. manager.dialog.doc \in Docs /\ manager.dialog.lock \in 0 .. MaxLock
  BY <1>1, <1>2, <1>3 DEF ManagerTyped, HasDocument, ManagerState, Dialog
<1>5. Shown(manager.dialog.doc, manager.dialog.lock) \in 0 .. MaxLock
  BY <1>1, <1>4, ShownIsLock
<1>6. (IF kind \in {"save", "restore"} THEN Shown(manager.dialog.doc, manager.dialog.lock)
       ELSE manager.dialog.lock) \in 0 .. MaxLock
  BY <1>4, <1>5
<1> QED
  BY <1>4, <1>6, StartKeepsManager DEF PressKey

\* A change is sent from a row.
LEMMA RowKeepsManager ==
  ASSUME ManagerInv, NEW kind \in {"home", "unarchive"}, NEW d \in Docs, PressRow(kind, d)
  PROVE  ManagerInv'
<1>1. manager.items[d].lock \in 0 .. MaxLock
  BY DEF ManagerInv, ManagerTyped, ManagerState, Listing, Resources
<1> QED
  BY <1>1, StartKeepsManager DEF PressRow, ListKinds
-----------------------------------------------------------------------------
\* What the server has of a document only gets newer.
LibraryGrows == \A d \in Docs : library'[d] = library[d] \/ library'[d].lock > library[d].lock

\* A version of a document stays one while its versions grow.
LEMMA VersionsStay ==
  ASSUME ManagerTyped, ManagerTyped', LibraryGrows, NEW d \in Docs, NEW CONSTANT r,
         r.lock \in Nat, IsVersion(r, d)
  PROVE  r.lock < library'[d].lock \/ r = library'[d]
BY ManagerAssumption DEF ManagerTyped, Listing, Resources, LibraryGrows, IsVersion

\* The result of a change, at its lock version.
LEMMA NextVersion ==
  ASSUME ManagerTyped, NEW d \in Docs, NEW status \in {"active", "archived", "gone"},
         library[d].lock + 1 <= MaxLock
  PROVE  LET r == Next1(d, status)
         IN  r \in Resources /\ r.lock > library[d].lock /\ r.status = status
BY ManagerAssumption DEF ManagerTyped, Listing, Resources, Next1

\* What the server writes is newer than what it had.
LEMMA WrittenVersion ==
  ASSUME ManagerTyped, NEW c \in Change, c.doc \in Docs, Acceptable(c), Written(c).lock <= MaxLock
  PROVE  /\ Written(c) \in Resources /\ Written(c).lock > library[c.doc].lock
         /\ c.kind \in QuietKinds => library[c.doc].status = "active" /\ Written(c).status = "active"
<1>1. CASE c.kind = "create"
  <2>1. Written(c) = [lock |-> 1, status |-> "active"] /\ library[c.doc] = Nothing
    BY <1>1 DEF Written, Acceptable, Nothing
  <2> QED
    BY <1>1, <2>1, ManagerAssumption DEF Resources, Nothing, QuietKinds
<1>2. CASE c.kind = "archive"
  BY <1>2, NextVersion DEF Written, Next1, QuietKinds
<1>3. CASE c.kind = "purge"
  BY <1>3, NextVersion DEF Written, Next1, QuietKinds
<1>4. CASE c.kind \notin {"create", "archive", "purge"}
  BY <1>4, NextVersion DEF Written, Next1, Acceptable, Lockable, QuietKinds
<1> QED
  BY <1>1, <1>2, <1>3, <1>4

\* A document changes and the page is not told.
LEMMA UntoldKeepsTruth ==
  ASSUME ManagerInv, ManagerTyped', NEW d \in Docs, LibraryGrows,
         \A e \in Docs \ {d} : library'[e] = library[e],
         manager' = manager, list' = Missing(d), told' = [told EXCEPT !.untold = @ \cup {d}],
         SameResults
  PROVE  ManagerIsTrue'
<1>1. ManagerTyped /\ ManagerIsTrue
  BY DEF ManagerInv
<1>2. told'.seen = told.seen /\ told'.untold = told.untold \cup {d}
  BY <1>1 DEF ManagerTyped, Told
<1>3. /\ list'.state = list.state /\ list'.filter = list.filter /\ list'.read = list.read
      /\ list.state = "read" => list'.missed = list.missed \cup {d}
      /\ list.state # "read" => list' = list
  BY <1>1 DEF Missing, ManagerTyped, ListState
<1>4. ConfirmedIsLatest'
  BY <1>1, <1>2 DEF ManagerIsTrue, ConfirmedIsLatest
<1>5. HoldsVersions'
  <2> SUFFICES ASSUME NEW e \in Docs
               PROVE  /\ IsVersion(Nothing, e)' /\ IsVersion(manager.confirmed[e], e)'
                      /\ IsVersion(list.read[e], e)'
                      /\ \A i \in Slots : IsResult(i)' /\ changes'[i].kind # "duplicate"
                                          /\ changes'[i].doc = e
                                             => IsVersion(changes[i].result, e)'
    BY DEF HoldsVersions
  <2>1. /\ IsVersion(Nothing, e) /\ IsVersion(manager.confirmed[e], e) /\ IsVersion(list.read[e], e)
        /\ \A i \in Slots : IsResult(i) /\ changes[i].kind # "duplicate" /\ changes[i].doc = e
                               => IsVersion(changes[i].result, e)
    BY <1>1 DEF ManagerIsTrue, HoldsVersions
  <2>2. /\ Nothing.lock \in Nat /\ manager.confirmed[e].lock \in Nat /\ list.read[e].lock \in Nat
        /\ \A i \in Slots : changes[i].result.lock \in Nat
    BY <1>1, ManagerAssumption DEF ManagerTyped, ManagerState, ListState, Listing, Resources,
       Change, Nothing
  <2>3. IsVersion(Nothing, e)' /\ IsVersion(manager.confirmed[e], e)' /\ IsVersion(list.read[e], e)'
    BY <1>1, <1>3, <2>1, <2>2, VersionsStay DEF IsVersion
  <2>4. ASSUME NEW i \in Slots, IsResult(i)', changes'[i].kind # "duplicate", changes'[i].doc = e
        PROVE  IsVersion(changes[i].result, e)'
    BY <2>1, <2>4, <1>1, <2>2, VersionsStay DEF SameResults, IsVersion
  <2> QED
    BY <2>3, <2>4
<1>6. QuietIsActive'
  BY <1>1 DEF ManagerIsTrue, QuietIsActive, SameResults
<1>7. Loud' = Loud
  BY DEF Loud, SameResults
<1>8. \A e \in Docs \ {d} : IsOnItsWay(e) => IsOnItsWay(e)'
  BY DEF IsOnItsWay, SameResults
<1>9. \A e \in Docs \ {d} : /\ IsFaithful(manager.items[e], e) => IsFaithful(manager.items[e], e)'
                            /\ IsFaithful(list.read[e], e) => IsFaithful(list.read[e], e)'
  BY <1>3, <1>8 DEF IsFaithful
<1>10. ShownIsFaithful'
  BY <1>1, <1>2, <1>3, <1>7, <1>9 DEF ManagerIsTrue, ShownIsFaithful
<1>11. ReadIsFaithful'
  BY <1>1, <1>3, <1>7, <1>9 DEF ManagerIsTrue, ReadIsFaithful
<1>12. ListIsAimed'
  BY <1>1, <1>3 DEF ManagerIsTrue, ListIsAimed, NoList
<1> QED
  BY <1>4, <1>5, <1>6, <1>10, <1>11, <1>12 DEF ManagerIsTrue

\* A document that another session changed after the list was read.
LEMMA MissingFields ==
  ASSUME ManagerTyped, NEW d \in Docs
  PROVE  Missing(d) \in ListState
BY DEF ManagerTyped, ListState, Missing

\* A document of which this session was not told.
LEMMA UntoldFields ==
  ASSUME ManagerTyped, NEW d \in Docs
  PROVE  [told EXCEPT !.untold = @ \cup {d}] \in Told
BY DEF ManagerTyped, Told

\* Another session changes a document.
LEMMA OthersKeepManager ==
  ASSUME ManagerInv, NEW d \in Docs, OtherChanges(d)
  PROVE  ManagerInv'
<1>1. ManagerTyped /\ NoWindowIsLeftBlank
  BY DEF ManagerInv
<1>2. PICK status \in Filters \cup {"gone"} : library' = [library EXCEPT ![d] = Next1(d, status)]
  BY DEF OtherChanges
<1>3. /\ library[d].lock < MaxLock /\ list' = Missing(d) /\ told' = [told EXCEPT !.untold = @ \cup {d}]
      /\ manager' = manager /\ changes' = changes
  BY DEF OtherChanges
<1>4. library[d].lock \in Nat
  BY <1>1, ManagerAssumption DEF ManagerTyped, Listing, Resources
<1>5. Next1(d, status) \in Resources /\ Next1(d, status).lock > library[d].lock
  BY <1>1, <1>3, <1>4, NextVersion, ManagerAssumption DEF Filters
<1>6. /\ library' \in Listing /\ library'[d] = Next1(d, status)
      /\ \A e \in Docs \ {d} : library'[e] = library[e]
  BY <1>1, <1>2, <1>5 DEF ManagerTyped, Listing
<1>7. LibraryGrows
  BY <1>5, <1>6 DEF LibraryGrows
<1>8. ManagerTyped' /\ NoWindowIsLeftBlank'
  BY <1>1, <1>3, <1>6, MissingFields, UntoldFields DEF ManagerTyped, NoWindowIsLeftBlank
<1>9. SameResults
  BY <1>3 DEF SameResults, IsResult
<1> QED
  BY <1>3, <1>6, <1>7, <1>8, <1>9, UntoldKeepsTruth DEF ManagerInv
-----------------------------------------------------------------------------
\* One change under way becomes another one.
LEMMA ChangedFields ==
  ASSUME ManagerTyped, NEW i \in Slots, NEW c \in Change, changes' = [changes EXCEPT ![i] = c]
  PROVE  /\ changes' \in [Slots -> Change] /\ changes'[i] = c
         /\ \A j \in Slots \ {i} : changes'[j] = changes[j]
BY DEF ManagerTyped

\* The server accepts a change, and its answer is on its way.
LEMMA AcceptedKeepsTruth ==
  ASSUME ManagerInv, ManagerTyped', NEW i \in Slots, changes[i].state = "sent", NEW d \in Docs,
         changes'[i].state = "done", changes'[i].doc = d, changes'[i].kind = changes[i].kind,
         changes[i].kind \notin {"preview", "none"},
         changes[i].kind # "duplicate" => changes'[i].result = library'[d],
         \A j \in Slots \ {i} : changes'[j] = changes[j],
         library'[d].lock > library[d].lock, \A e \in Docs \ {d} : library'[e] = library[e],
         changes[i].kind \in QuietKinds =>
             library[d].status = "active" /\ library'[d].status = "active",
         UNCHANGED <<manager, list, told>>
  PROVE  ManagerIsTrue'
<1>1. ManagerTyped /\ ManagerIsTrue /\ LibraryGrows
  BY DEF ManagerInv, LibraryGrows
<1>2. /\ ~IsResult(i) /\ IsResult(i)'
      /\ \A j \in Slots \ {i} : IsResult(j)' <=> IsResult(j)
  BY DEF IsResult
<1>3. changes[i].kind \in QuietKinds \/ changes[i].kind \in ListKinds
  BY <1>1 DEF ManagerTyped, Change, DialogKinds, QuietKinds
<1>4. ConfirmedIsLatest' /\ ListIsAimed'
  BY <1>1 DEF ManagerIsTrue, ConfirmedIsLatest, ListIsAimed
<1>5. HoldsVersions'
  <2> SUFFICES ASSUME NEW e \in Docs
               PROVE  /\ IsVersion(Nothing, e)' /\ IsVersion(manager.confirmed[e], e)'
                      /\ IsVersion(list.read[e], e)'
                      /\ \A j \in Slots : IsResult(j)' /\ changes'[j].kind # "duplicate"
                                          /\ changes'[j].doc = e
                                             => IsVersion(changes[j].result, e)'
    BY DEF HoldsVersions
  <2>1. /\ IsVersion(Nothing, e) /\ IsVersion(manager.confirmed[e], e) /\ IsVersion(list.read[e], e)
        /\ \A j \in Slots : IsResult(j) /\ changes[j].kind # "duplicate" /\ changes[j].doc = e
                               => IsVersion(changes[j].result, e)
    BY <1>1 DEF ManagerIsTrue, HoldsVersions
  <2>2. /\ Nothing.lock \in Nat /\ manager.confirmed[e].lock \in Nat /\ list.read[e].lock \in Nat
        /\ \A j \in Slots : changes[j].result.lock \in Nat
    BY <1>1, ManagerAssumption DEF ManagerTyped, ManagerState, ListState, Listing, Resources,
       Change, Nothing
  <2>3. IsVersion(Nothing, e)' /\ IsVersion(manager.confirmed[e], e)' /\ IsVersion(list.read[e], e)'
    BY <1>1, <2>1, <2>2, VersionsStay DEF IsVersion
  <2>4. ASSUME NEW j \in Slots, IsResult(j)', changes'[j].kind # "duplicate", changes'[j].doc = e
        PROVE  IsVersion(changes[j].result, e)'
    <3>1. CASE j = i
      BY <2>4, <3>1 DEF IsVersion
    <3>2. CASE j # i
      BY <1>2, <2>1, <2>4, <3>2, <1>1, <2>2, VersionsStay DEF IsVersion
    <3> QED
      BY <3>1, <3>2
  <2> QED
    BY <2>3, <2>4
<1>6. QuietIsActive'
  BY <1>1, <1>2 DEF QuietIsActive, QuietKinds, ManagerIsTrue
<1>7. CASE changes[i].kind \in ListKinds
  BY <1>2, <1>7, <1>1, <1>4, <1>5, <1>6 DEF Loud, ManagerIsTrue, ShownIsFaithful, ReadIsFaithful
<1>8. CASE changes[i].kind \in QuietKinds
  <2>1. Loud' = Loud
    BY <1>8, <1>2 DEF ListKinds, QuietKinds, Loud
  <2>2. changes'[i].result = library'[d]
    BY <1>8 DEF QuietKinds
  <2>3. IsOnItsWay(d)'
    BY <1>2, <1>8, <2>2 DEF IsOnItsWay
  <2>4. \A e \in Docs \ {d} : IsOnItsWay(e) => IsOnItsWay(e)'
    <3> SUFFICES ASSUME NEW e \in Docs \ {d}, IsOnItsWay(e)
                 PROVE  IsOnItsWay(e)'
      OBVIOUS
    <3>1. CASE manager.confirmed[e] = library[e]
      BY <3>1 DEF IsOnItsWay
    <3>2. ASSUME NEW j \in Slots, IsResult(j), changes[j].kind \in QuietKinds, changes[j].doc = e,
                 changes[j].result = library[e]
          PROVE  IsOnItsWay(e)'
      BY <1>2, <3>2 DEF IsOnItsWay
    <3> QED
      BY <3>1, <3>2 DEF IsOnItsWay
  <2>5. ASSUME NEW e \in Docs, NEW CONSTANT r, IsFaithful(r, e)
        PROVE  IF BelongsTo(library'[e], manager'.filter)
               THEN /\ r # Nothing
                    /\ \/ r = library'[e]
                       \/ r.status = "active" /\ library'[e].status = "active" /\ IsOnItsWay(e)'
               ELSE r = Nothing
    BY <1>8, <2>3, <2>5, <2>4 DEF IsFaithful, BelongsTo
  <2>6. \A e \in Docs : /\ IsFaithful(manager.items[e], e) => IsFaithful(manager.items[e], e)'
                        /\ IsFaithful(list.read[e], e) => IsFaithful(list.read[e], e)'
    BY <2>5 DEF IsFaithful
  <2>7. ShownIsFaithful' /\ ReadIsFaithful'
    BY <1>1, <2>1, <2>6 DEF ManagerIsTrue, ShownIsFaithful, ReadIsFaithful
  <2> QED
    BY <1>4, <1>5, <1>6, <2>7 DEF ManagerIsTrue
<1> QED
  BY <1>3, <1>7, <1>8

\* The window of a preview stays as it was when a change of another kind goes on.
LEMMA WindowsStay ==
  ASSUME ManagerInv, NEW i \in Slots, \A j \in Slots \ {i} : changes'[j] = changes[j],
         manager'.windows \subseteq manager.windows,
         i \in manager'.windows => changes'[i].kind = "preview" /\ changes'[i].current
  PROVE  NoWindowIsLeftBlank'
BY DEF ManagerInv, ManagerTyped, ManagerState, NoWindowIsLeftBlank

\* The server accepts a change.
LEMMA AcceptKeepsManager ==
  ASSUME ManagerInv, NEW i \in Slots, Accept(i)
  PROVE  ManagerInv'
<1> DEFINE c == changes[i]
<1>1. ManagerTyped /\ ManagerIsTrue /\ c \in Change /\ c.state = "sent" /\ manager' = manager
  BY DEF ManagerInv, ManagerTyped, Accept
<1>2. c.kind # "none" /\ c.doc \in Docs
  BY <1>1 DEF ManagerTyped
<1>3. i \in manager.windows => c.kind = "preview" /\ c.current
  BY DEF ManagerInv, NoWindowIsLeftBlank
<1>4. ASSUME Acceptable(c), c.kind \notin {"duplicate", "preview"}, Written(c).lock <= MaxLock,
             library' = [library EXCEPT ![c.doc] = Written(c)]
      PROVE  /\ library' \in Listing /\ library'[c.doc] = Written(c)
             /\ Written(c) \in Resources /\ Written(c).lock > library[c.doc].lock
             /\ \A e \in Docs \ {c.doc} : library'[e] = library[e]
             /\ c.kind \in QuietKinds => library[c.doc].status = "active" /\ Written(c).status = "active"
  BY <1>1, <1>2, <1>4, WrittenVersion DEF ManagerTyped, Listing
<1>5. ASSUME Acceptable(c), c.kind \notin {"duplicate", "preview"}, Written(c).lock <= MaxLock,
             library' = [library EXCEPT ![c.doc] = Written(c)],
             changes' = [changes EXCEPT ![i].state = "done", ![i].result = Written(c)],
             UNCHANGED <<list, told>>
      PROVE  ManagerInv'
  <2> DEFINE w == Written(c)
             n == [c EXCEPT !.state = "done", !.result = w]
  <2>1. /\ library' \in Listing /\ library'[c.doc] = w /\ w \in Resources
        /\ w.lock > library[c.doc].lock /\ \A e \in Docs \ {c.doc} : library'[e] = library[e]
        /\ c.kind \in QuietKinds => library[c.doc].status = "active" /\ w.status = "active"
    BY <1>4, <1>5
  <2>2. changes' = [changes EXCEPT ![i] = n]
    BY <1>1, <1>5 DEF ManagerTyped, Change
  <2> HIDE DEF w
  <2>3. /\ n \in Change /\ n.state = "done" /\ n.result = w /\ n.kind = c.kind /\ n.doc = c.doc
        /\ n.current = c.current
    BY <1>1, <2>1 DEF Change
  <2> HIDE DEF n
  <2>4. /\ changes' \in [Slots -> Change] /\ changes'[i] = n
        /\ \A j \in Slots \ {i} : changes'[j] = changes[j]
    BY <1>1, <2>2, <2>3, ChangedFields
  <2>5. ManagerTyped'
    BY <1>1, <1>2, <1>5, <2>1, <2>3, <2>4 DEF ManagerTyped
  <2>6. NoWindowIsLeftBlank'
    BY <1>1, <1>3, <2>3, <2>4, WindowsStay
  <2>7. PICK d \in Docs : d = c.doc
    BY <1>2
  <2>8. /\ changes'[i].state = "done" /\ changes'[i].doc = d /\ changes'[i].kind = c.kind
        /\ changes'[i].result = library'[d] /\ c.kind \notin {"preview", "none"}
        /\ library'[d].lock > library[d].lock /\ \A e \in Docs \ {d} : library'[e] = library[e]
        /\ c.kind \in QuietKinds => library[d].status = "active" /\ library'[d].status = "active"
        /\ UNCHANGED <<manager, list, told>>
    BY <1>1, <1>2, <1>5, <2>1, <2>3, <2>4, <2>7
  <2>9. ManagerIsTrue'
    BY <1>1, <2>4, <2>5, <2>8, AcceptedKeepsTruth
  <2> QED
    BY <2>5, <2>6, <2>9 DEF ManagerInv
<1>6. ASSUME Acceptable(c), c.kind \notin {"duplicate", "preview"}, Written(c).lock <= MaxLock,
             library' = [library EXCEPT ![c.doc] = Written(c)],
             changes' = [changes EXCEPT ![i].state = "lost"],
             list' = Missing(c.doc), told' = [told EXCEPT !.untold = @ \cup {c.doc}]
      PROVE  ManagerInv'
  <2> DEFINE n == [c EXCEPT !.state = "lost"]
  <2>1. /\ library' \in Listing /\ library'[c.doc] = Written(c)
        /\ Written(c).lock > library[c.doc].lock /\ \A e \in Docs \ {c.doc} : library'[e] = library[e]
    BY <1>4, <1>6
  <2>2. changes' = [changes EXCEPT ![i] = n]
    BY <1>6
  <2>3. n \in Change /\ n.state = "lost" /\ n.kind = c.kind /\ n.doc = c.doc /\ n.current = c.current
    BY <1>1 DEF Change
  <2> HIDE DEF n
  <2>4. /\ changes' \in [Slots -> Change] /\ changes'[i] = n
        /\ \A j \in Slots \ {i} : changes'[j] = changes[j]
    BY <1>1, <2>2, <2>3, ChangedFields
  <2>5. list' \in ListState /\ told' \in Told
    BY <1>1, <1>2, <1>6, MissingFields, UntoldFields
  <2>6. ManagerTyped'
    BY <1>1, <1>2, <2>1, <2>3, <2>4, <2>5 DEF ManagerTyped
  <2>7. NoWindowIsLeftBlank'
    BY <1>1, <1>3, <2>3, <2>4, WindowsStay
  <2>8. LibraryGrows
    BY <2>1 DEF LibraryGrows
  <2>9. SameResults
    BY <1>1, <2>3, <2>4 DEF SameResults, IsResult
  <2>10. ManagerIsTrue'
    BY <1>1, <1>2, <1>6, <2>1, <2>6, <2>8, <2>9, UntoldKeepsTruth
  <2> QED
    BY <2>6, <2>7, <2>10 DEF ManagerInv
<1>7. ASSUME NEW d \in Docs, Acceptable(c), c.kind = "duplicate", library[d] = Nothing,
             library' = [library EXCEPT ![d] = [lock |-> 1, status |-> "active"]],
             changes' = [changes EXCEPT ![i].state = "done", ![i].doc = d], UNCHANGED <<list, told>>
      PROVE  ManagerInv'
  <2> DEFINE n == [c EXCEPT !.state = "done", !.doc = d]
             w == [lock |-> 1, status |-> "active"]
  <2>1. w \in Resources /\ w.lock > library[d].lock
    BY <1>7, ManagerAssumption DEF Resources, Nothing
  <2>2. changes' = [changes EXCEPT ![i] = n]
    BY <1>1, <1>7 DEF ManagerTyped, Change
  <2> HIDE DEF w
  <2>3. library' \in Listing /\ library'[d] = w /\ \A e \in Docs \ {d} : library'[e] = library[e]
    BY <1>1, <1>7, <2>1 DEF ManagerTyped, Listing, w
  <2>4. /\ n \in Change /\ n.state = "done" /\ n.kind = c.kind /\ n.doc = d /\ n.current = c.current
    BY <1>1 DEF Change
  <2> HIDE DEF n
  <2>5. /\ changes' \in [Slots -> Change] /\ changes'[i] = n
        /\ \A j \in Slots \ {i} : changes'[j] = changes[j]
    BY <1>1, <2>2, <2>4, ChangedFields
  <2>6. ManagerTyped'
    BY <1>1, <1>7, <2>3, <2>4, <2>5 DEF ManagerTyped
  <2>7. NoWindowIsLeftBlank'
    BY <1>1, <1>3, <2>4, <2>5, WindowsStay
  <2>8. c.kind \notin QuietKinds
    BY <1>7 DEF QuietKinds
  <2>9. ManagerIsTrue'
    BY <1>1, <1>7, <2>1, <2>3, <2>4, <2>5, <2>6, <2>8, AcceptedKeepsTruth
  <2> QED
    BY <2>6, <2>7, <2>9 DEF ManagerInv
<1>8. ASSUME c.kind = "preview", changes' = [changes EXCEPT ![i].state = "done"],
             UNCHANGED <<library, list, told>>
      PROVE  ManagerInv'
  <2> DEFINE n == [c EXCEPT !.state = "done"]
  <2>1. changes' = [changes EXCEPT ![i] = n]
    BY <1>8
  <2>2. n \in Change /\ n.kind = c.kind /\ n.doc = c.doc /\ n.current = c.current
    BY <1>1 DEF Change
  <2> HIDE DEF n
  <2>3. /\ changes' \in [Slots -> Change] /\ changes'[i] = n
        /\ \A j \in Slots \ {i} : changes'[j] = changes[j]
    BY <1>1, <2>1, <2>2, ChangedFields
  <2>4. ManagerTyped'
    BY <1>1, <1>2, <1>8, <2>2, <2>3 DEF ManagerTyped
  <2>5. NoWindowIsLeftBlank'
    BY <1>1, <1>3, <2>2, <2>3, WindowsStay
  <2>6. SameResults
    BY <1>8, <2>2, <2>3 DEF SameResults, IsResult
  <2>7. SameLists(manager', manager)
    BY <1>1 DEF SameLists
  <2> QED
    BY <1>1, <1>8, <2>4, <2>5, <2>6, <2>7, ListsAreKept DEF ManagerInv
<1> QED
  BY <1>5, <1>6, <1>7, <1>8 DEF Accept
-----------------------------------------------------------------------------
\* The versions that this session was told of only grow.
LEMMA SeenFields ==
  ASSUME ManagerTyped, NEW d \in Docs, NEW r \in Resources
  PROVE  LET t == SeenWith(d, r)
         IN  /\ t \in Told /\ t.untold = told.untold
             /\ \A e \in Docs : t.seen[e] = (IF e = d THEN Higher(told.seen[d], r.lock) ELSE told.seen[e])
BY DEF ManagerTyped, Told, Resources, Higher, SeenWith

\* What a result makes of what is confirmed: it is the latest, and a version.
LEMMA ReplacedIsLatest ==
  ASSUME ManagerInv, NEW i \in Slots, IsResult(i), changes[i].kind # "duplicate",
         NEW d \in Docs, d = changes[i].doc, NEW r \in Resources, r = changes[i].result
  PROVE  LET n == Replaced(manager, d, r)
             t == SeenWith(d, r)
         IN  \A e \in Docs : /\ n.confirmed[e].lock >= t.seen[e]
                             /\ n.items[e] # Nothing => n.items[e] = n.confirmed[e]
                             /\ IsVersion(n.confirmed[e], e)
<1> DEFINE n == Replaced(manager, d, r)
           t == SeenWith(d, r)
           latest == RetainConfirmed(manager, d, r)
           item(e) == IF e = d /\ manager.items[e] # Nothing THEN latest ELSE manager.items[e]
<1>1. ManagerTyped /\ ManagerIsTrue /\ IsManager(manager) /\ manager.confirmed \in Listing
  BY DEF ManagerInv, ManagerTyped, IsManager, ManagerState
<1>2. SUFFICES ASSUME NEW e \in Docs
               PROVE  /\ n.confirmed[e].lock >= t.seen[e]
                      /\ n.items[e] # Nothing => n.items[e] = n.confirmed[e]
                      /\ IsVersion(n.confirmed[e], e)
  OBVIOUS
<1>3. /\ n.confirmed[e] = (IF e = d THEN latest ELSE manager.confirmed[e])
      /\ n.items[e] = (IF BelongsTo(item(e), manager.filter) THEN item(e) ELSE Nothing)
  BY <1>1, ReplacedFields
<1>4. t.seen[e] = (IF e = d THEN Higher(told.seen[d], r.lock) ELSE told.seen[e])
  BY <1>1, SeenFields
<1>5. /\ latest.lock >= r.lock /\ latest.lock >= manager.confirmed[d].lock
      /\ latest = r \/ latest = manager.confirmed[d]
      /\ latest.lock \in Nat /\ r.lock \in Nat /\ manager.confirmed[d].lock \in Nat
  BY <1>1, RetainedType
<1>6. /\ manager.confirmed[e].lock >= told.seen[e]
      /\ manager.items[e] # Nothing => manager.items[e] = manager.confirmed[e]
      /\ IsVersion(manager.confirmed[e], e)
      /\ e = d => IsVersion(r, d)
  BY <1>1 DEF ManagerIsTrue, ConfirmedIsLatest, HoldsVersions
<1>7. told.seen[d] \in Nat
  BY <1>1, ManagerAssumption DEF ManagerTyped, Told
<1> HIDE DEF n, t, latest
<1>8. n.confirmed[e].lock >= t.seen[e]
  BY <1>3, <1>4, <1>5, <1>6, <1>7 DEF Higher
<1>9. IsVersion(n.confirmed[e], e)
  BY <1>3, <1>5, <1>6
<1>10. n.items[e] # Nothing => n.items[e] = n.confirmed[e]
  BY <1>3, <1>6
<1> QED
  BY <1>8, <1>9, <1>10

\* A request that was answered is no longer one.
LEMMA OtherEndedFields ==
  ASSUME ManagerTyped, NEW i \in Slots, changes' = Ended(i)
  PROVE  /\ changes' \in [Slots -> Change] /\ changes'[i] = NoChange
         /\ \A j \in Slots \ {i} : changes'[j] = changes[j]
         /\ ~IsResult(i)' /\ \A j \in Slots \ {i} : IsResult(j)' <=> IsResult(j)
BY EmptyTypes, ChangedFields DEF Ended, IsResult

\* Request and answer of a change that shows nothing: a refusal and a preview.
LEMMA EndKeepsManager ==
  ASSUME ManagerInv, NEW i \in Slots, ~IsResult(i), IsManager(manager'), SameLists(manager', manager),
         manager'.windows = manager.windows \ {i}, changes' = Ended(i),
         UNCHANGED <<library, list, told>>
  PROVE  ManagerInv'
BY OtherEndedFields, EmptyTypes, WindowsStay, ListsAreKept DEF ManagerInv, ManagerTyped, IsManager,
   SameResults

\* An answer that is taken leaves the versions of the other documents alone.
LEMMA OtherVersionsStay ==
  ASSUME ManagerInv, NEW i \in Slots, changes' = Ended(i), library' = library,
         list' = list \/ list'.read = NoListing,
         \A d \in Docs : manager'.confirmed[d].lock < library[d].lock \/ manager'.confirmed[d] = library[d]
  PROVE  HoldsVersions' /\ QuietIsActive'
<1>1. ManagerTyped /\ ManagerIsTrue
  BY DEF ManagerInv
<1>2. /\ \A j \in Slots \ {i} : changes'[j] = changes[j]
      /\ ~IsResult(i)' /\ \A j \in Slots \ {i} : IsResult(j)' <=> IsResult(j)
  BY <1>1, OtherEndedFields
<1>3. QuietIsActive'
  BY <1>1, <1>2 DEF ManagerIsTrue, QuietIsActive
<1>4. HoldsVersions'
  BY <1>1, <1>2 DEF HoldsVersions, IsVersion, ManagerIsTrue, NoListing
<1> QED
  BY <1>3, <1>4

\* The answer to a change of the list: it is shown and the list asked for again.
LEMMA ListedKeepsManager ==
  ASSUME ManagerInv, NEW i \in Slots, changes[i].state = "done",
         changes[i].kind \in {"home", "archive", "unarchive", "purge"},
         TakeListed(i), changes' = Ended(i), library' = library
  PROVE  ManagerInv'
<1> DEFINE c == changes[i]
           m == IF c.kind = "purge" THEN manager ELSE Replaced(manager, c.doc, c.result)
           n == Answered(m, c)
           key == KeyOf(c.kind)
<1>1. /\ ManagerTyped /\ ManagerIsTrue /\ IsManager(manager) /\ c \in Change /\ IsResult(i)
      /\ c.doc \in Docs /\ c.result \in Resources
  BY DEF ManagerInv, ManagerTyped, IsManager, Change, IsResult
<1>2. Reload(n, key) /\ told' = IF c.kind = "purge" THEN told ELSE SeenWith(c.doc, c.result)
  BY DEF TakeListed
<1>3. key \in Keys \cup {"none"}
  BY KeysOfKinds DEF ListKinds
<1>4. IsManager(m) /\ m.windows = manager.windows
  BY <1>1, ReplacedFields
<1>5. told' \in Told
  BY <1>1, <1>2, SeenFields DEF ManagerTyped
<1>6. \A e \in Docs : /\ m.confirmed[e].lock >= told'.seen[e]
                      /\ m.items[e] # Nothing => m.items[e] = m.confirmed[e]
                      /\ IsVersion(m.confirmed[e], e)
  <2>1. CASE c.kind = "purge"
    BY <1>1, <1>2, <2>1 DEF ManagerIsTrue, ConfirmedIsLatest, HoldsVersions
  <2>2. CASE c.kind # "purge"
    BY <1>1, <1>2, <2>2, ReplacedIsLatest
  <2> QED
    BY <2>1, <2>2
<1> HIDE DEF m
<1>7. IsManager(n) /\ SameLists(n, m) /\ n.windows = m.windows
  BY <1>1, <1>4, AnsweredFields
<1> HIDE DEF n, key
<1>8. /\ IsManager(manager') /\ SameLists(manager', n) /\ manager'.windows = n.windows
      /\ list' \in ListState /\ list'.state = "sent" /\ list'.filter = manager'.filter
      /\ list'.read = NoListing
  BY <1>1, <1>2, <1>3, <1>7, ReloadFields DEF ManagerTyped
<1>9. /\ changes' \in [Slots -> Change] /\ changes'[i] = NoChange
      /\ \A j \in Slots \ {i} : changes'[j] = changes[j]
  BY <1>1, OtherEndedFields
<1>10. ManagerTyped'
  BY <1>1, <1>5, <1>8, <1>9, EmptyTypes DEF ManagerTyped, IsManager
<1>11. i \notin manager.windows
  BY DEF ManagerInv, NoWindowIsLeftBlank
<1>12. NoWindowIsLeftBlank'
  BY <1>4, <1>7, <1>8, <1>9, <1>11, WindowsStay
<1>13. ConfirmedIsLatest'
  BY <1>6, <1>7, <1>8 DEF ConfirmedIsLatest, SameLists
<1>14. HoldsVersions' /\ QuietIsActive'
  BY <1>6, <1>7, <1>8, OtherVersionsStay DEF SameLists, IsVersion
<1> QED
  BY <1>8, <1>10, <1>12, <1>13, <1>14, ReloadIsTrue DEF ManagerInv

\* The answer to a new document.
LEMMA CreatedKeepsManager ==
  ASSUME ManagerInv, NEW i \in Slots, changes[i].state = "done", changes[i].kind \in Creating,
         TakeCreated(i), changes' = Ended(i), library' = library
  PROVE  ManagerInv'
<1>1. ManagerTyped /\ ManagerIsTrue /\ IsManager(manager) /\ told' = told
  BY DEF ManagerInv, ManagerTyped, IsManager, TakeCreated
<1>2. /\ changes' \in [Slots -> Change] /\ changes'[i] = NoChange
      /\ \A j \in Slots \ {i} : changes'[j] = changes[j]
  BY <1>1, OtherEndedFields
<1>3. i \notin manager.windows
  BY DEF ManagerInv, NoWindowIsLeftBlank, Creating
<1>4. /\ IsManager(manager') /\ manager'.windows = manager.windows /\ list' \in ListState
      /\ manager'.items = manager.items /\ manager'.confirmed = manager.confirmed
      /\ manager'.filter = manager.filter
      /\ \/ manager'.away /\ list' = list
         \/ list'.state = "sent" /\ list'.filter = manager'.filter /\ list'.read = NoListing
  <2>1. CASE changes[i].current
    BY <1>1, <2>1 DEF TakeCreated, ManagerTyped, IsManager, ManagerState
  <2>2. CASE ~changes[i].current
    BY <2>2, <1>1, KeysOfKinds, ReloadFields DEF Creating, ListKinds, KeyOf, TakeCreated,
       ManagerTyped, SameLists
  <2> QED
    BY <2>1, <2>2
<1>5. ManagerTyped'
  BY <1>1, <1>2, <1>4, EmptyTypes DEF ManagerTyped, IsManager
<1>6. NoWindowIsLeftBlank'
  BY <1>2, <1>3, <1>4, WindowsStay
<1>7. ConfirmedIsLatest'
  BY <1>1, <1>4 DEF ManagerIsTrue, ConfirmedIsLatest
<1>8. HoldsVersions' /\ QuietIsActive'
  BY <1>1, <1>4, OtherVersionsStay DEF ManagerIsTrue, HoldsVersions, IsVersion
<1>9. CASE manager'.away /\ list' = list
  BY <1>1, <1>4, <1>5, <1>6, <1>7, <1>8, <1>9 DEF ManagerInv, ManagerIsTrue, ShownIsFaithful,
     ListIsAimed, ReadIsFaithful
<1>10. CASE list'.state = "sent" /\ list'.filter = manager'.filter
  BY <1>5, <1>6, <1>7, <1>8, <1>10, ReloadIsTrue DEF ManagerInv
<1> QED
  BY <1>4, <1>9, <1>10

\* A quiet answer brings what was on its way.
LEMMA SavedItem ==
  ASSUME ManagerInv, NEW i \in Slots, IsResult(i), changes[i].kind \in QuietKinds,
         NEW d \in Docs, d = changes[i].doc
  PROVE  LET latest == RetainConfirmed(manager, d, changes[i].result)
         IN  /\ manager.confirmed[d] = library[d] \/ changes[i].result = library[d] => latest = library[d]
             /\ latest = manager.confirmed[d] \/ latest.status = "active"
<1> DEFINE r == changes[i].result
           k == manager.confirmed[d]
<1>1. ManagerTyped /\ ManagerIsTrue
  BY DEF ManagerInv
<1>2. changes[i].kind # "duplicate"
  BY DEF QuietKinds
<1>3. IsVersion(r, d) /\ IsVersion(k, d) /\ r.status = "active"
  BY <1>1, <1>2 DEF ManagerIsTrue, HoldsVersions, QuietIsActive
<1>4. r.lock \in Nat /\ k.lock \in Nat /\ library[d].lock \in Nat
  BY <1>1, ManagerAssumption DEF ManagerTyped, Change, ManagerState, Listing, Resources
<1>5. RetainConfirmed(manager, d, r) = IF k.lock > r.lock THEN k ELSE r
  BY DEF RetainConfirmed
<1> HIDE DEF r, k
<1> QED
  BY <1>3, <1>4, <1>5 DEF IsVersion, r, k

\* The answer to settings that were saved or restored: nothing is asked for again.
LEMMA SavedKeepsManager ==
  ASSUME ManagerInv, NEW i \in Slots, ~manager.away, changes[i].state = "done",
         changes[i].kind \in QuietKinds, TakeSaved(i), changes' = Ended(i), library' = library
  PROVE  ManagerInv'
<1> DEFINE c == changes[i]
           r == c.result
           m == Replaced(manager, c.doc, r)
<1>1. PICK d \in Docs : d = c.doc
  BY DEF ManagerInv, ManagerTyped, QuietKinds
<1> DEFINE latest == RetainConfirmed(manager, d, r)
           item(e) == IF e = d /\ manager.items[e] # Nothing THEN latest ELSE manager.items[e]
<1>2. /\ ManagerTyped /\ ManagerIsTrue /\ IsManager(manager) /\ c \in Change /\ IsResult(i)
      /\ r \in Resources
  BY DEF ManagerInv, ManagerTyped, IsManager, Change, IsResult, QuietKinds
<1>3. manager' = Answered(m, c) /\ told' = SeenWith(d, r) /\ list' = list
  BY <1>1 DEF TakeSaved
<1>4. /\ IsManager(m) /\ m.filter = manager.filter /\ m.failed = manager.failed /\ m.away = manager.away
      /\ m.windows = manager.windows
      /\ \A e \in Docs : m.confirmed[e] = (IF e = d THEN latest ELSE manager.confirmed[e])
      /\ \A e \in Docs : m.items[e] = (IF BelongsTo(item(e), manager.filter) THEN item(e) ELSE Nothing)
  BY <1>1, <1>2, ReplacedFields
<1>5. \A e \in Docs : /\ m.confirmed[e].lock >= told'.seen[e]
                      /\ m.items[e] # Nothing => m.items[e] = m.confirmed[e]
                      /\ IsVersion(m.confirmed[e], e)
  BY <1>1, <1>2, <1>3, ReplacedIsLatest DEF QuietKinds
<1> HIDE DEF m
<1>6. IsManager(manager') /\ SameLists(manager', m) /\ manager'.windows = m.windows
  BY <1>2, <1>3, <1>4, AnsweredFields
<1>7. told' \in Told /\ told'.untold = told.untold
  BY <1>2, <1>3, SeenFields
<1>8. /\ changes' \in [Slots -> Change] /\ changes'[i] = NoChange
      /\ \A j \in Slots \ {i} : changes'[j] = changes[j]
      /\ ~IsResult(i)' /\ \A j \in Slots \ {i} : IsResult(j)' <=> IsResult(j)
  BY <1>2, OtherEndedFields
<1>9. ManagerTyped'
  BY <1>2, <1>3, <1>6, <1>7, <1>8, EmptyTypes DEF ManagerTyped, IsManager
<1>10. i \notin manager.windows
  BY DEF ManagerInv, NoWindowIsLeftBlank, QuietKinds
<1>11. NoWindowIsLeftBlank'
  BY <1>4, <1>6, <1>8, <1>10, WindowsStay
<1>12. ConfirmedIsLatest'
  BY <1>5, <1>6 DEF ConfirmedIsLatest, SameLists
<1>13. HoldsVersions' /\ QuietIsActive'
  BY <1>3, <1>5, <1>6, OtherVersionsStay DEF SameLists, IsVersion
<1>14. Loud' = Loud
  BY <1>8 DEF Loud, QuietKinds, ListKinds
<1>15. /\ manager.confirmed[d] = library[d] \/ r = library[d] => latest = library[d]
       /\ latest = manager.confirmed[d] \/ latest.status = "active"
  BY <1>1, <1>2, SavedItem
<1> HIDE DEF latest
<1>16. ASSUME NEW e \in Docs, IsOnItsWay(e)
       PROVE  IsOnItsWay(e)' /\ (e = d => latest = library[d] \/ IsOnItsWay(e)')
  <2>1. CASE manager.confirmed[e] = library[e]
    BY <1>4, <1>6, <1>15, <2>1 DEF IsOnItsWay, SameLists
  <2>2. ASSUME NEW j \in Slots, IsResult(j), changes[j].kind \in QuietKinds, changes[j].doc = e,
               changes[j].result = library[e]
        PROVE  IsOnItsWay(e)'
    BY <1>1, <1>4, <1>6, <1>15, <2>2, <1>8 DEF IsOnItsWay, SameLists
  <2> QED
    BY <1>16, <2>1, <2>2 DEF IsOnItsWay
<1>17. manager'.filter = manager.filter
  BY <1>4, <1>6 DEF SameLists
<1>18. ShownIsFaithful'
  <2> SUFFICES ASSUME list.state = "none", ~manager.failed, Loud = {}, NEW e \in Docs \ told.untold
               PROVE  IsFaithful(manager.items[e], e)'
    BY <1>3, <1>4, <1>6, <1>7, <1>14 DEF ShownIsFaithful, SameLists
  <2>1. IsFaithful(manager.items[e], e)
    BY <1>2 DEF ManagerIsTrue, ShownIsFaithful
  <2>2. manager'.items[e] = IF BelongsTo(item(e), manager.filter) THEN item(e) ELSE Nothing
    BY <1>4, <1>6 DEF SameLists
  <2>3. manager.items[e] # Nothing => manager.items[e] = manager.confirmed[e]
    BY <1>2 DEF ManagerIsTrue, ConfirmedIsLatest
  <2>4. CASE ~BelongsTo(library[e], manager.filter)
    BY <2>1, <2>4, <1>17, <2>2 DEF IsFaithful
  <2>5. CASE BelongsTo(library[e], manager.filter)
    <3>1. /\ manager.items[e] # Nothing
          /\ \/ manager.items[e] = library[e]
             \/ /\ manager.items[e].status = "active" /\ library[e].status = "active"
                /\ IsOnItsWay(e)
      BY <2>1, <2>5 DEF IsFaithful
    <3>2. /\ item(e) # Nothing
          /\ \/ item(e) = library[e]
             \/ item(e).status = "active" /\ library[e].status = "active" /\ IsOnItsWay(e)'
      <4>1. CASE e # d
        BY <1>16, <3>1, <4>1
      <4>2. CASE e = d
        <5>1. item(e) = latest
          BY <3>1, <4>2
        <5>2. CASE manager.items[e] = library[e]
          BY <1>15, <2>3, <3>1, <4>2, <5>1, <5>2
        <5>3. CASE manager.items[e].status = "active" /\ library[e].status = "active" /\ IsOnItsWay(e)
          BY <1>15, <2>3, <3>1, <4>2, <5>3, <1>16, <5>1 DEF Nothing
        <5> QED
          BY <3>1, <5>2, <5>3
      <4> QED
        BY <4>1, <4>2
    <3>3. BelongsTo(item(e), manager.filter)
      BY <2>5, <3>2 DEF BelongsTo
    <3> QED
      BY <1>17, <2>2, <2>5, <3>2, <3>3 DEF IsFaithful
  <2> QED
    BY <2>4, <2>5
<1>19. ReadIsFaithful'
  BY <1>3, <1>14, <1>2, <1>16, <1>17, <1>4, <1>6, <1>15 DEF ReadIsFaithful, ManagerIsTrue,
     IsFaithful, SameLists
<1>20. ListIsAimed'
  BY <1>2, <1>3, <1>17 DEF ManagerIsTrue, ListIsAimed
<1> QED
  BY <1>9, <1>11, <1>12, <1>13, <1>18, <1>19, <1>20 DEF ManagerInv, ManagerIsTrue

\* The answer to a change is taken.
LEMMA TakeKeepsManager ==
  ASSUME ManagerInv, NEW i \in Slots, Take(i)
  PROVE  ManagerInv'
<1> DEFINE c == changes[i]
<1>1. ~manager.away /\ changes' = Ended(i) /\ library' = library /\ IsManager(manager)
  BY DEF Take, ManagerInv, ManagerTyped, IsManager
<1>2. ASSUME c.state \in {"sent", "lost"}, manager' = [Refused(manager, c) EXCEPT !.windows = @ \ {i}],
             UNCHANGED <<list, told>>
      PROVE  ManagerInv'
  BY <1>1, <1>2, RefusedFields, EndKeepsManager DEF IsManager, ManagerState, SameLists, IsResult
<1>3. ASSUME c.state = "done", c.kind = "preview", TakePreview(i)
      PROVE  ManagerInv'
  BY <1>3, <1>1, EndKeepsManager DEF TakePreview, IsManager, ManagerState, SameLists, IsResult
<1>4. ASSUME c.state = "done", c.kind \in Creating, TakeCreated(i)
      PROVE  ManagerInv'
  BY <1>1, <1>4, CreatedKeepsManager
<1>5. ASSUME c.state = "done", c.kind \in {"home", "archive", "unarchive", "purge"}, TakeListed(i)
      PROVE  ManagerInv'
  BY <1>1, <1>5, ListedKeepsManager
<1>6. ASSUME c.state = "done", c.kind \in DialogKinds \ {"preview"}, TakeSaved(i)
      PROVE  ManagerInv'
  BY <1>6, <1>1, SavedKeepsManager DEF DialogKinds, QuietKinds
<1> QED
  BY <1>2, <1>3, <1>4, <1>5, <1>6 DEF Take

\* Every step keeps the lists true.
LEMMA ManagerStays == ManagerInv /\ [ManagerNext]_managerVars => ManagerInv'
<1> SUFFICES ASSUME ManagerInv, [ManagerNext]_managerVars
             PROVE  ManagerInv'
  OBVIOUS
<1>1. CASE UNCHANGED managerVars
  <2>1. ManagerTyped /\ ManagerIsTrue /\ NoWindowIsLeftBlank
    BY DEF ManagerInv
  <2>2. /\ library' = library /\ manager' = manager /\ list' = list
        /\ changes' = changes /\ told' = told
    BY <1>1 DEF managerVars
  <2>3. ManagerTyped' /\ NoWindowIsLeftBlank'
    BY <2>1, <2>2 DEF ManagerTyped, NoWindowIsLeftBlank
  <2>4. SameResults /\ SameLists(manager', manager)
    BY <2>2 DEF SameResults, IsResult, SameLists
  <2> QED
    BY <2>1, <2>2, <2>3, <2>4, ListsAreKept DEF ManagerInv
<1>2. CASE ManagerNext
  BY <1>2, SwitchKeepsManager, ReadKeepsManager, TakenListKeepsManager, FailureKeepsManager,
     SupersededKeepsManager, OpenKeepsManager, CloseKeepsManager, PressKeepsManager,
     RowKeepsManager, AcceptKeepsManager, TakeKeepsManager, OthersKeepManager DEF ManagerNext
<1> QED
  BY <1>1, <1>2
-----------------------------------------------------------------------------
(***************************************************************************)
(* Boundary of Puck.                                                         *)
(* The entry Puck is at is its data, and the history is the wanted one unless *)
(* the entry that was refused is still to be taken back.                     *)
(***************************************************************************)

\* The entry that a history is at.
Current(history) == history.entries[history.index]
IsAt(history) == history.index \in 1 .. Len(history.entries)

SameStep(history, other) == history.entries = other.entries /\ history.index = other.index

BoundaryIsSound ==
    /\ PagesAreDocuments
    /\ IsAt(kernel.history) /\ Current(kernel.history) = kernel.data
    /\ IsAt(wanted) /\ Current(wanted) = hook.accepted
    /\ hook.api.version <= kernel.history.version
    /\ IF InRecovery(hook)
       THEN /\ hook.recovery.data = hook.accepted /\ SameStep(hook.recovery.history, wanted)
            /\ hook.recovery.history.version <= kernel.history.version
            /\ hook.repair <=> kernel.data # hook.accepted
            /\ ~hook.repair => /\ hook.api.version < kernel.history.version
                               /\ hook.recovery.history.version < kernel.history.version
       ELSE ~hook.repair /\ kernel.data = hook.accepted /\ SameStep(kernel.history, wanted)
-----------------------------------------------------------------------------
BoundaryInv == BoundaryTypeOK /\ BoundaryIsSound

\* What is after the current entry goes, and the new one is the current.
LEMMA EntryIsAdded ==
  ASSUME NEW S, NEW entries \in Seq(S), NEW index \in 1 .. Len(entries), NEW d \in S
  PROVE  LET more == Append(SubSeq(entries, 1, index), d)
         IN  more \in Seq(S) /\ Len(more) = index + 1 /\ more[index + 1] = d
<1>1. /\ index \in Int /\ 1 \in Int /\ \A i \in 1 .. index : entries[i] \in S
  BY ElementOfSeq, LenProperties
<1>2. SubSeq(entries, 1, index) \in Seq(S) /\ Len(SubSeq(entries, 1, index)) = index
  BY <1>1, SubSeqProperties
<1>3. /\ Append(SubSeq(entries, 1, index), d) \in Seq(S)
      /\ Len(Append(SubSeq(entries, 1, index), d)) = Len(SubSeq(entries, 1, index)) + 1
      /\ Append(SubSeq(entries, 1, index), d)[Len(SubSeq(entries, 1, index)) + 1] = d
  BY <1>2, AppendProperties
<1> QED
  BY <1>2, <1>3

\* recordHistory: what was ahead is dropped and the new entry is current.
LEMMA HistoryGrows ==
  ASSUME NEW h \in Histories, IsAt(h), NEW d \in Candidates
  PROVE  LET n == HistoryWith(h, d)
         IN  /\ n \in Histories /\ IsAt(n) /\ Current(n) = d
             /\ n.index = h.index + 1 /\ n.version = h.version + 1
             /\ n.entries = Append(SubSeq(h.entries, 1, h.index), d)
BY EntryIsAdded, LenProperties DEF Histories, IsAt, HistoryWith, Current

\* The editor as it is opened.
LEMMA BoundaryStarts == BoundaryInit => BoundaryInv
<1> SUFFICES ASSUME NEW d \in PlainPages, NEW structured \in BOOLEAN,
                    LET first == [entries |-> <<d>>, index |-> 1, version |-> 0]
                    IN  /\ kernel = [data |-> d, history |-> first]
                        /\ hook = [accepted |-> d, api |-> first, recovery |-> NoRecovery,
                                   repair |-> FALSE, shown |-> FALSE, canEdit |-> TRUE,
                                   structured |-> structured]
                        /\ owner = [page |-> d, structured |-> structured, published |-> NoPage]
                        /\ wanted = [entries |-> <<d>>, index |-> 1, inputs |-> 0]
             PROVE  BoundaryInv
  BY DEF BoundaryInit
<1> DEFINE first == [entries |-> <<d>>, index |-> 1, version |-> 0]
<1>1. d \in Candidates /\ d \in StructuredPages /\ MaxInputs \in Nat
  BY PuckBoundaryAssumption
<1>2. <<d>> \in Seq(Candidates) /\ Len(<<d>>) = 1 /\ <<d>>[1] = d
  BY <1>1
<1>3. first \in Histories
  BY <1>2 DEF Histories
<1>4. BoundaryTypeOK
  BY <1>1, <1>2, <1>3 DEF BoundaryTypeOK, Kernels, Hooks
<1>5. PagesAreDocuments
  BY <1>1 DEF PagesAreDocuments
<1>6. BoundaryIsSound
  BY <1>2, <1>5 DEF BoundaryIsSound, IsAt, Current, SameStep, InRecovery
<1> QED
  BY <1>4, <1>6 DEF BoundaryInv

\* What a change that is assessed leaves of the closure.
LEMMA AssessedFields ==
  ASSUME BoundaryInv, NEW d \in Candidates
  PROVE  LET h == Assessed(hook, d)
         IN  /\ h \in Hooks
             /\ h.api = hook.api /\ h.shown = hook.shown /\ h.canEdit = hook.canEdit
             /\ h.structured = hook.structured
             /\ Accepts(hook, d) => /\ h.accepted = d /\ h.repair = hook.repair
                                    /\ h.recovery = hook.recovery
             /\ ~Accepts(hook, d) =>
                   /\ h.accepted = hook.accepted /\ h.repair /\ InRecovery(h)
                   /\ InRecovery(hook) => h.recovery = hook.recovery
                   /\ ~InRecovery(hook) =>
                         h.recovery.data = hook.accepted /\ h.recovery.history = hook.api
<1> DEFINE kept == [data |-> hook.accepted, history |-> hook.api]
           recovery == IF InRecovery(hook) THEN hook.recovery ELSE kept
           accepting == [hook EXCEPT !.accepted = d]
           rejecting == [hook EXCEPT !.repair = TRUE, !.recovery = recovery]
<1>1. hook \in Hooks /\ hook.accepted \in Candidates /\ hook.api \in Histories
  BY DEF BoundaryInv, BoundaryTypeOK, Hooks
<1>2. kept \in [data : Candidates, history : Histories] /\ kept # NoRecovery
      /\ kept.data = hook.accepted /\ kept.history = hook.api
  BY <1>1, PuckBoundaryAssumption DEF NoRecovery
<1>3. recovery \in [data : Candidates, history : Histories] \cup {NoRecovery}
      /\ recovery # NoRecovery
  BY <1>1, <1>2 DEF Hooks, InRecovery
<1>4. /\ InRecovery(hook) => recovery = hook.recovery
      /\ ~InRecovery(hook) => recovery.data = hook.accepted /\ recovery.history = hook.api
  BY <1>2
<1>5. Assessed(hook, d) = IF Accepts(hook, d) THEN accepting ELSE rejecting
  BY DEF Assessed, Rejected
<1> HIDE DEF recovery, kept
<1>6. /\ accepting \in Hooks /\ accepting.accepted = d /\ accepting.api = hook.api
      /\ accepting.shown = hook.shown /\ accepting.canEdit = hook.canEdit
      /\ accepting.structured = hook.structured /\ accepting.repair = hook.repair
      /\ accepting.recovery = hook.recovery
  BY <1>1 DEF Hooks
<1>7. /\ rejecting \in Hooks /\ rejecting.accepted = hook.accepted /\ rejecting.api = hook.api
      /\ rejecting.shown = hook.shown /\ rejecting.canEdit = hook.canEdit
      /\ rejecting.structured = hook.structured /\ rejecting.repair
      /\ rejecting.recovery = recovery
  BY <1>1, <1>3 DEF Hooks
<1>8. InRecovery(rejecting)
  BY <1>3, <1>7 DEF InRecovery
<1> HIDE DEF accepting, rejecting
<1> QED
  BY <1>4, <1>5, <1>6, <1>7, <1>8

\* Every step keeps the page a document and Puck's history without what was refused.
LEMMA BoundaryStays == BoundaryInv /\ [BoundaryNext]_boundaryVars => BoundaryInv'
<1> SUFFICES ASSUME BoundaryInv, [BoundaryNext]_boundaryVars
             PROVE  BoundaryInv'
  OBVIOUS
<1>1. /\ kernel \in Kernels /\ hook \in Hooks /\ BoundaryIsSound
      /\ kernel.data \in Candidates /\ kernel.history \in Histories
      /\ kernel.history.entries \in Seq(Candidates) /\ kernel.history.version \in Nat
      /\ kernel.history.index \in Nat
      /\ hook.accepted \in Candidates /\ hook.api \in Histories /\ hook.api.version \in Nat
      /\ owner.page = hook.accepted /\ owner.structured = hook.structured
      /\ owner.page \in IF owner.structured THEN StructuredPages ELSE PlainPages
      /\ owner.published \in {NoPage} \cup StructuredPages
      /\ owner \in [page : Candidates, structured : BOOLEAN,
                     published : Candidates \cup {NoPage}]
      /\ wanted \in [entries : Seq(Candidates), index : Nat, inputs : 0 .. MaxInputs]
  BY DEF BoundaryInv, BoundaryTypeOK, BoundaryIsSound, PagesAreDocuments, Kernels, Hooks, Histories
<1>2. PlainPages \subseteq StructuredPages /\ StructuredPages \subseteq Candidates /\ MaxInputs \in Nat
  BY PuckBoundaryAssumption
\* What the page is given by a change.
<1>3. ASSUME NEW d \in Candidates, NEW h, h = Assessed(hook, d)
      PROVE  /\ Given(d) \in [page : Candidates, structured : BOOLEAN,
                               published : Candidates \cup {NoPage}]
             /\ Given(d).page = h.accepted /\ Given(d).structured = h.structured
             /\ h.accepted \in IF h.structured THEN StructuredPages ELSE PlainPages
             /\ Given(d).published = owner.published
  <2>1. /\ [owner EXCEPT !.page = d] \in [page : Candidates, structured : BOOLEAN,
                                          published : Candidates \cup {NoPage}]
        /\ [owner EXCEPT !.page = d].page = d
        /\ [owner EXCEPT !.page = d].structured = owner.structured
        /\ [owner EXCEPT !.page = d].published = owner.published
    BY <1>1
  <2>2. CASE Accepts(hook, d)
    <3>1. h.accepted = d /\ h.structured = hook.structured
      BY <1>3, <2>2, AssessedFields
    <3>2. d \in IF hook.structured THEN StructuredPages ELSE PlainPages
      BY <2>2 DEF Accepts
    <3> QED
      BY <1>1, <2>1, <2>2, <3>1, <3>2 DEF Given
  <2>3. CASE ~Accepts(hook, d)
    <3>1. h.accepted = hook.accepted /\ h.structured = hook.structured
      BY <1>3, <2>3, AssessedFields
    <3> QED
      BY <1>1, <2>3, <3>1 DEF Given
  <2> QED
    BY <2>2, <2>3
<1>4. ASSUME NEW d \in Candidates, PuckCommand(d)
      PROVE  BoundaryInv'
  <2> DEFINE h == Assessed(hook, d)
             history == HistoryWith(kernel.history, d)
             entries == Append(SubSeq(wanted.entries, 1, wanted.index), d)
  <2>1. /\ ~hook.repair /\ hook.api = kernel.history /\ wanted.inputs < MaxInputs
        /\ d # kernel.data
        /\ kernel' = [data |-> d, history |-> history] /\ hook' = h /\ owner' = Given(d)
        /\ wanted' = IF Accepts(hook, d)
                     THEN [entries |-> entries, index |-> wanted.index + 1, inputs |-> OneMoreInput]
                     ELSE [wanted EXCEPT !.inputs = OneMoreInput]
    BY <1>4 DEF PuckCommand, InputReady
  <2>2. ~InRecovery(hook)
    BY <1>1, <2>1 DEF BoundaryIsSound
  <2>3. /\ kernel.data = hook.accepted /\ kernel.history.entries = wanted.entries
        /\ kernel.history.index = wanted.index /\ IsAt(kernel.history)
        /\ Current(kernel.history) = kernel.data
    BY <1>1, <2>2 DEF BoundaryIsSound, SameStep
  <2>4. /\ history \in Histories /\ IsAt(history) /\ Current(history) = d
        /\ history.index = wanted.index + 1 /\ history.version = kernel.history.version + 1
        /\ history.entries = entries
    BY <1>1, <2>3, HistoryGrows
  <2>5. OneMoreInput \in 0 .. MaxInputs
    BY <1>1, <1>2, <2>1 DEF OneMoreInput
  <2>6. /\ h \in Hooks /\ h.api = hook.api /\ h.structured = hook.structured
        /\ Accepts(hook, d) => h.accepted = d /\ h.repair = hook.repair /\ h.recovery = hook.recovery
        /\ ~Accepts(hook, d) => /\ h.accepted = hook.accepted /\ h.repair /\ InRecovery(h)
                                /\ h.recovery.data = hook.accepted /\ h.recovery.history = hook.api
    BY <2>2, AssessedFields
  <2>7. /\ Given(d) \in [page : Candidates, structured : BOOLEAN,
                          published : Candidates \cup {NoPage}]
        /\ Given(d).page = h.accepted /\ Given(d).structured = h.structured
        /\ h.accepted \in IF h.structured THEN StructuredPages ELSE PlainPages
        /\ Given(d).published = owner.published
    BY <1>3
  <2> HIDE DEF h, history, entries
  <2>8. kernel' \in Kernels /\ kernel'.data = d /\ kernel'.history = history
    BY <2>1, <2>4 DEF Kernels
  <2>9. PagesAreDocuments'
    BY <1>1, <2>1, <2>7 DEF PagesAreDocuments
  <2>10. CASE Accepts(hook, d)
    <3>1. /\ wanted'.entries = history.entries /\ wanted'.index = history.index
          /\ wanted'.inputs = OneMoreInput
          /\ wanted' = [entries |-> history.entries, index |-> history.index,
                        inputs |-> OneMoreInput]
      BY <2>1, <2>4, <2>10
    <3>2. wanted' \in [entries : Seq(Candidates), index : Nat, inputs : 0 .. MaxInputs]
      BY <2>4, <2>5, <3>1 DEF Histories
    <3>3. BoundaryTypeOK'
      BY <2>1, <2>6, <2>7, <2>8, <3>2 DEF BoundaryTypeOK
    <3>4. hook'.repair = FALSE /\ ~InRecovery(hook') /\ hook'.accepted = d /\ hook'.api = hook.api
      BY <1>1, <2>1, <2>2, <2>6, <2>10 DEF InRecovery, Hooks
    <3>5. IsAt(wanted') /\ Current(wanted') = d
      BY <2>4, <3>1 DEF IsAt, Current
    <3>6. hook'.api.version <= kernel'.history.version
      BY <1>1, <2>1, <2>4, <2>8, <3>4
    <3>7. BoundaryIsSound'
      BY <2>4, <2>8, <2>9, <3>1, <3>4, <3>5, <3>6 DEF BoundaryIsSound, SameStep
    <3> QED
      BY <3>3, <3>7 DEF BoundaryInv
  <2>11. CASE ~Accepts(hook, d)
    <3>1. wanted'.entries = wanted.entries /\ wanted'.index = wanted.index
          /\ wanted' \in [entries : Seq(Candidates), index : Nat, inputs : 0 .. MaxInputs]
      BY <1>1, <2>1, <2>5, <2>11
    <3>2. BoundaryTypeOK'
      BY <2>1, <2>6, <2>7, <2>8, <3>1 DEF BoundaryTypeOK
    <3>3. /\ hook'.repair /\ InRecovery(hook') /\ hook'.accepted = hook.accepted
          /\ hook'.api = kernel.history /\ hook'.recovery.data = hook.accepted
          /\ hook'.recovery.history = kernel.history
      BY <2>1, <2>6, <2>11
    <3>4. IsAt(wanted') /\ Current(wanted') = hook.accepted
      BY <1>1, <3>1 DEF BoundaryIsSound, IsAt, Current
    <3>5. kernel.history.version <= kernel'.history.version
      BY <1>1, <2>4, <2>8
    <3>6. BoundaryIsSound'
      BY <2>1, <2>3, <2>4, <2>8, <2>9, <3>1, <3>3, <3>4, <3>5 DEF BoundaryIsSound, SameStep
    <3> QED
      BY <3>2, <3>6 DEF BoundaryInv
  <2> QED
    BY <2>10, <2>11
<1>5. ASSUME NEW to, PuckTravels(to)
      PROVE  BoundaryInv'
  <2> DEFINE d == kernel.history.entries[to]
             h == IF d = kernel.data THEN hook ELSE Assessed(hook, d)
             history == [kernel.history EXCEPT !.index = to]
  <2>1. /\ ~hook.repair /\ hook.api = kernel.history /\ wanted.inputs < MaxInputs
        /\ to \in 1 .. Len(kernel.history.entries)
        /\ kernel' = [data |-> d, history |-> history] /\ hook' = h /\ owner' = Given(d)
        /\ wanted' = [wanted EXCEPT !.index = IF Accepts(hook, d) THEN to ELSE @,
                                    !.inputs = OneMoreInput]
    BY <1>5 DEF PuckTravels, InputReady
  <2>2. ~InRecovery(hook)
    BY <1>1, <2>1 DEF BoundaryIsSound
  <2>3. /\ kernel.data = hook.accepted /\ kernel.history.entries = wanted.entries
        /\ kernel.history.index = wanted.index
    BY <1>1, <2>2 DEF BoundaryIsSound, SameStep
  <2>4. d \in Candidates /\ to \in Nat
    BY <1>1, <2>1, ElementOfSeq
  <2>5. /\ history \in Histories /\ history.entries = kernel.history.entries
        /\ history.index = to /\ history.version = kernel.history.version
        /\ IsAt(history) /\ Current(history) = d
    <3>1. /\ history \in Histories /\ history.entries = kernel.history.entries
          /\ history.index = to /\ history.version = kernel.history.version
      BY <1>1, <2>4 DEF Histories
    <3> QED
      BY <2>1, <3>1 DEF IsAt, Current
  <2>6. OneMoreInput \in 0 .. MaxInputs
    BY <1>1, <1>2, <2>1 DEF OneMoreInput
  <2>7. d = kernel.data => Accepts(hook, d)
    BY <1>1, <2>3 DEF Accepts
  <2>8. /\ h \in Hooks /\ h.api = hook.api /\ h.structured = hook.structured
        /\ Accepts(hook, d) => h.accepted = d /\ h.repair = hook.repair /\ h.recovery = hook.recovery
        /\ ~Accepts(hook, d) => /\ h.accepted = hook.accepted /\ h.repair /\ InRecovery(h)
                                /\ h.recovery.data = hook.accepted /\ h.recovery.history = hook.api
    BY <1>1, <2>2, <2>3, <2>4, <2>7, AssessedFields
  <2>9. /\ Given(d) \in [page : Candidates, structured : BOOLEAN,
                          published : Candidates \cup {NoPage}]
        /\ Given(d).page = h.accepted /\ Given(d).structured = h.structured
        /\ h.accepted \in IF h.structured THEN StructuredPages ELSE PlainPages
        /\ Given(d).published = owner.published
    <3>1. CASE d = kernel.data
      <4>1. Given(d) = owner /\ h = hook
        BY <2>3, <3>1 DEF Given
      <4> QED
        BY <1>1, <4>1
    <3>2. CASE d # kernel.data
      BY <1>3, <2>4, <3>2
    <3> QED
      BY <3>1, <3>2
  <2> HIDE DEF h, history, d
  <2>10. kernel' \in Kernels /\ kernel'.data = d /\ kernel'.history = history
    BY <2>1, <2>4, <2>5 DEF Kernels
  <2>11. PagesAreDocuments'
    BY <1>1, <2>1, <2>9 DEF PagesAreDocuments
  <2>12. /\ wanted' \in [entries : Seq(Candidates), index : Nat, inputs : 0 .. MaxInputs]
         /\ wanted'.entries = wanted.entries
         /\ wanted'.index = IF Accepts(hook, d) THEN to ELSE wanted.index
    BY <1>1, <2>1, <2>4, <2>6
  <2>13. BoundaryTypeOK'
    BY <2>1, <2>8, <2>9, <2>10, <2>12 DEF BoundaryTypeOK
  <2>14. CASE Accepts(hook, d)
    <3>1. /\ ~hook'.repair /\ ~InRecovery(hook') /\ hook'.accepted = d
          /\ hook'.api.version <= kernel'.history.version
      BY <1>1, <2>1, <2>2, <2>5, <2>8, <2>10, <2>14 DEF InRecovery
    <3>2. SameStep(kernel'.history, wanted')
      BY <2>3, <2>5, <2>10, <2>12, <2>14 DEF SameStep
    <3>3. IsAt(wanted') /\ Current(wanted') = d
      BY <2>5, <2>10, <3>2 DEF SameStep, IsAt, Current
    <3>4. BoundaryIsSound'
      BY <2>5, <2>10, <2>11, <3>1, <3>2, <3>3 DEF BoundaryIsSound
    <3> QED
      BY <2>13, <3>4 DEF BoundaryInv
  <2>15. CASE ~Accepts(hook, d)
    <3>1. /\ hook'.repair /\ InRecovery(hook') /\ hook'.accepted = hook.accepted
          /\ hook'.api = kernel.history /\ hook'.recovery.data = hook.accepted
          /\ hook'.recovery.history = kernel.history
      BY <2>1, <2>8, <2>15
    <3>2. IsAt(wanted') /\ Current(wanted') = hook.accepted /\ SameStep(kernel.history, wanted')
      BY <1>1, <2>3, <2>12, <2>15 DEF BoundaryIsSound, IsAt, Current, SameStep
    <3>3. kernel'.data # hook.accepted
      BY <2>3, <2>7, <2>10, <2>15
    <3>4. kernel.history.version <= kernel'.history.version
      BY <1>1, <2>5, <2>10
    <3>5. BoundaryIsSound'
      BY <2>5, <2>10, <2>11, <3>1, <3>2, <3>3, <3>4 DEF BoundaryIsSound
    <3> QED
      BY <2>13, <3>5 DEF BoundaryInv
  <2> QED
    BY <2>14, <2>15
\* The steps that leave the document as it was accepted.
<1>6. ASSUME hook'.accepted = hook.accepted, hook'.structured = hook.structured, owner' = owner
      PROVE  PagesAreDocuments'
  BY <1>1, <1>6 DEF PagesAreDocuments
<1>7. CASE RestoreAccepted
  <2> DEFINE history == HistoryWith(kernel.history, hook.recovery.data)
  <2>1. /\ hook.repair /\ hook' = [hook EXCEPT !.repair = FALSE] /\ UNCHANGED <<owner, wanted>>
        /\ kernel' = IF ~InRecovery(hook) THEN kernel
                     ELSE [data |-> hook.recovery.data, history |-> history]
    BY <1>7 DEF RestoreAccepted
  <2>2. /\ InRecovery(hook) /\ hook.recovery.data = hook.accepted
        /\ SameStep(hook.recovery.history, wanted) /\ IsAt(kernel.history)
        /\ hook.api.version <= kernel.history.version
        /\ hook.recovery.history.version <= kernel.history.version
        /\ IsAt(wanted) /\ Current(wanted) = hook.accepted
    BY <1>1, <2>1 DEF BoundaryIsSound
  <2>3. /\ history \in Histories /\ IsAt(history) /\ Current(history) = hook.accepted
        /\ history.version = kernel.history.version + 1
    BY <1>1, <2>2, HistoryGrows
  <2> HIDE DEF history
  <2>4. /\ hook' \in Hooks /\ hook'.accepted = hook.accepted /\ hook'.structured = hook.structured
        /\ hook'.api = hook.api /\ hook'.recovery = hook.recovery /\ hook'.repair = FALSE
    BY <1>1, <2>1 DEF Hooks
  <2>5. /\ kernel' \in Kernels /\ kernel'.data = hook.accepted /\ kernel'.history = history
    BY <1>1, <2>1, <2>2, <2>3 DEF Kernels
  <2>6. BoundaryTypeOK'
    BY <1>1, <2>1, <2>4, <2>5 DEF BoundaryTypeOK
  <2>7. hook.recovery.history.version \in Nat
    BY <1>1, <2>2 DEF Hooks, InRecovery, Histories
  <2>8. hook.api.version < history.version /\ hook.recovery.history.version < history.version
    BY <1>1, <2>2, <2>3, <2>7
  <2>9. hook.api.version <= history.version /\ hook.recovery.history.version <= history.version
    BY <1>1, <2>7, <2>8, <2>3 DEF Histories
  <2>10. InRecovery(hook')
    BY <2>2, <2>4 DEF InRecovery
  <2>11. BoundaryIsSound'
    <3>1. PagesAreDocuments'
      BY <1>6, <2>1, <2>4
    <3> QED
      BY <2>1, <2>2, <2>3, <2>4, <2>5, <2>8, <2>9, <2>10, <3>1 DEF BoundaryIsSound
  <2> QED
    BY <2>6, <2>11 DEF BoundaryInv
<1>8. CASE BoundaryRenders
  <2> DEFINE ends == /\ InRecovery(hook) /\ hook.api # kernel.history
                     /\ RepairIsWritten(hook, kernel.history)
             after == HistoryAfterRejected(hook.recovery.history, hook.recovery.data)
             history == [after EXCEPT !.version = kernel.history.version + 1]
  <2>1. CASE ends
    <3>1. /\ kernel' = [data |-> hook.recovery.data, history |-> history]
          /\ hook' = [hook EXCEPT !.api = kernel.history, !.recovery = NoRecovery, !.shown = TRUE]
          /\ UNCHANGED <<owner, wanted>>
      BY <1>8, <2>1 DEF BoundaryRenders
    <3>2. /\ InRecovery(hook) /\ kernel.history.entries[kernel.history.index] = hook.recovery.data
      BY <2>1 DEF RepairIsWritten
    <3>3. /\ hook.recovery.data = hook.accepted /\ SameStep(hook.recovery.history, wanted)
          /\ IsAt(wanted) /\ Current(wanted) = hook.accepted
          /\ ~hook.repair
      BY <1>1, <3>2 DEF BoundaryIsSound, Current
    <3>4. hook.recovery.history \in Histories
      BY <1>1, <3>2 DEF Hooks, InRecovery
    <3>5. after = hook.recovery.history
      BY <3>3 DEF HistoryAfterRejected, SameStep, Current
    <3>6. /\ history \in Histories /\ SameStep(history, wanted)
          /\ history.version = kernel.history.version + 1
      BY <1>1, <3>3, <3>4, <3>5 DEF Histories, SameStep
    <3> HIDE DEF history, after
    <3>7. /\ hook' \in Hooks /\ hook'.accepted = hook.accepted
          /\ hook'.structured = hook.structured /\ hook'.api = kernel.history
          /\ hook'.recovery = NoRecovery /\ hook'.repair = hook.repair
      BY <1>1, <3>1 DEF Hooks
    <3>8. /\ kernel' \in Kernels /\ kernel'.data = hook.accepted /\ kernel'.history = history
      BY <1>1, <3>1, <3>3, <3>6 DEF Kernels
    <3>9. BoundaryTypeOK'
      BY <1>1, <3>1, <3>7, <3>8 DEF BoundaryTypeOK
    <3>10. IsAt(history) /\ Current(history) = hook.accepted
      BY <3>3, <3>6 DEF IsAt, Current, SameStep
    <3>11. ~InRecovery(hook') /\ PagesAreDocuments'
      BY <1>6, <3>1, <3>7 DEF InRecovery
    <3>12. hook'.api.version <= kernel'.history.version
      BY <1>1, <3>6, <3>7, <3>8
    <3>13. BoundaryIsSound'
      BY <3>1, <3>3, <3>6, <3>7, <3>8, <3>10, <3>11, <3>12 DEF BoundaryIsSound
    <3> QED
      BY <3>9, <3>13 DEF BoundaryInv
  <2>2. CASE ~ends
    <3>1. /\ hook' = [hook EXCEPT !.api = kernel.history, !.shown = InRecovery(hook)]
          /\ UNCHANGED <<kernel, owner, wanted>>
      BY <1>8, <2>2 DEF BoundaryRenders
    <3>2. ~hook.repair => ~InRecovery(hook)
      <4> SUFFICES ASSUME ~hook.repair, InRecovery(hook)
                   PROVE  ends
        BY <2>2
      <4>1. /\ hook.api.version < kernel.history.version
            /\ hook.recovery.history.version < kernel.history.version
            /\ kernel.data = hook.accepted /\ hook.recovery.data = hook.accepted
            /\ Current(kernel.history) = kernel.data
        BY <1>1 DEF BoundaryIsSound
      <4>2. hook.recovery.history.version \in Nat
        BY <1>1 DEF Hooks, InRecovery, Histories
      <4>3. /\ hook.api.version # kernel.history.version
            /\ kernel.history.version # hook.recovery.history.version
        BY <1>1, <4>1, <4>2
      <4> QED
        BY <4>1, <4>3 DEF RepairIsWritten, Current
    <3>3. InRecovery(hook) \in BOOLEAN
      BY DEF InRecovery
    <3>4. /\ hook' \in Hooks /\ hook'.accepted = hook.accepted
          /\ hook'.structured = hook.structured /\ hook'.api = kernel.history
          /\ hook'.recovery = hook.recovery /\ hook'.repair = hook.repair
      BY <1>1, <3>1, <3>3 DEF Hooks
    <3>5. BoundaryTypeOK'
      BY <1>1, <3>1, <3>4 DEF BoundaryTypeOK, BoundaryInv
    <3>6. (InRecovery(hook') <=> InRecovery(hook)) /\ PagesAreDocuments'
      BY <1>6, <3>1, <3>4 DEF InRecovery
    <3>7. hook'.api.version <= kernel'.history.version
      BY <1>1, <3>1, <3>4
    <3>8. BoundaryIsSound'
      BY <1>1, <3>1, <3>2, <3>4, <3>6, <3>7 DEF BoundaryIsSound
    <3> QED
      BY <3>5, <3>8 DEF BoundaryInv
  <2> QED
    BY <2>1, <2>2
<1>9. ASSUME hook' \in Hooks, hook'.accepted = hook.accepted, hook'.api = hook.api,
             hook'.recovery = hook.recovery, hook'.repair = hook.repair,
             wanted' = [wanted EXCEPT !.inputs = OneMoreInput], wanted.inputs < MaxInputs,
             kernel' = kernel, PagesAreDocuments',
             owner' \in [page : Candidates, structured : BOOLEAN,
                         published : Candidates \cup {NoPage}]
      PROVE  BoundaryInv'
  <2>1. OneMoreInput \in 0 .. MaxInputs
    BY <1>1, <1>2, <1>9 DEF OneMoreInput
  <2>2. /\ wanted' \in [entries : Seq(Candidates), index : Nat, inputs : 0 .. MaxInputs]
        /\ wanted'.entries = wanted.entries /\ wanted'.index = wanted.index
    BY <1>1, <1>9, <2>1
  <2>3. BoundaryTypeOK'
    BY <1>1, <1>9, <2>2 DEF BoundaryTypeOK
  <2>4. BoundaryIsSound'
    BY <1>1, <1>9, <2>2 DEF BoundaryIsSound, IsAt, Current, SameStep, InRecovery
  <2> QED
    BY <2>3, <2>4 DEF BoundaryInv
<1>10. CASE ChangePermission
  <2>1. /\ hook' = [hook EXCEPT !.canEdit = ~@] /\ UNCHANGED <<kernel, owner>>
        /\ wanted' = [wanted EXCEPT !.inputs = OneMoreInput] /\ wanted.inputs < MaxInputs
    BY <1>10 DEF ChangePermission, InputReady
  <2>2. /\ hook' \in Hooks /\ hook'.accepted = hook.accepted /\ hook'.api = hook.api
        /\ hook'.recovery = hook.recovery /\ hook'.repair = hook.repair
        /\ hook'.structured = hook.structured
    BY <1>1, <2>1 DEF Hooks
  <2> QED
    BY <1>1, <1>6, <1>9, <2>1, <2>2
<1>11. CASE EnableStructure
  <2>1. /\ hook' = [hook EXCEPT !.structured = TRUE] /\ UNCHANGED kernel /\ ~hook.structured
        /\ owner' = [owner EXCEPT !.page = hook.accepted, !.structured = TRUE]
        /\ wanted' = [wanted EXCEPT !.inputs = OneMoreInput] /\ wanted.inputs < MaxInputs
    BY <1>11 DEF EnableStructure, InputReady
  <2>2. /\ hook' \in Hooks /\ hook'.accepted = hook.accepted /\ hook'.api = hook.api
        /\ hook'.recovery = hook.recovery /\ hook'.repair = hook.repair /\ hook'.structured = TRUE
    BY <1>1, <2>1 DEF Hooks
  <2>3. /\ owner' \in [page : Candidates, structured : BOOLEAN,
                        published : Candidates \cup {NoPage}]
        /\ owner'.page = hook.accepted /\ owner'.structured = TRUE
        /\ owner'.published = owner.published
    BY <1>1, <2>1
  <2>4. PagesAreDocuments'
    BY <1>1, <1>2, <2>1, <2>2, <2>3 DEF PagesAreDocuments
  <2> QED
    BY <1>9, <2>1, <2>2, <2>3, <2>4
<1>12. CASE PublishPuck
  <2> DEFINE d == kernel.data
             h == Assessed(hook, d)
             given == Given(d)
  <2>1. /\ hook' = h /\ UNCHANGED kernel /\ wanted.inputs < MaxInputs
        /\ owner' = IF Accepts(hook, d) THEN [given EXCEPT !.published = d] ELSE owner
        /\ wanted' = [wanted EXCEPT !.inputs = OneMoreInput]
    BY <1>12 DEF PublishPuck, PublishesAccepted
  <2>2. /\ h \in Hooks /\ h.api = hook.api /\ h.structured = hook.structured
        /\ Accepts(hook, d) => h.accepted = d /\ h.repair = hook.repair /\ h.recovery = hook.recovery
        /\ ~Accepts(hook, d) => /\ h.accepted = hook.accepted /\ h.repair
                                /\ InRecovery(hook) => h.recovery = hook.recovery
    BY <1>1, AssessedFields
  <2>3. /\ given \in [page : Candidates, structured : BOOLEAN,
                       published : Candidates \cup {NoPage}]
        /\ given.page = h.accepted /\ given.structured = h.structured
        /\ h.accepted \in IF h.structured THEN StructuredPages ELSE PlainPages
        /\ given.published = owner.published
    BY <1>1, <1>3
  <2>4. Accepts(hook, d) => d = hook.accepted
    BY <1>1 DEF Accepts, BoundaryIsSound
  <2>5. ~Accepts(hook, d) => InRecovery(hook) /\ hook.repair
    <3>1. SUFFICES ASSUME ~Accepts(hook, d) PROVE InRecovery(hook) /\ hook.repair
      OBVIOUS
    <3>2. d # hook.accepted
      BY <1>1, <3>1 DEF Accepts
    <3> QED
      BY <1>1, <3>2 DEF BoundaryIsSound
  <2>6. d \in Candidates /\ (Accepts(hook, d) => d \in StructuredPages)
    BY <1>1, <1>2 DEF Accepts
  <2> HIDE DEF d, h, given
  <2>7. /\ hook' \in Hooks /\ hook'.accepted = hook.accepted /\ hook'.api = hook.api
        /\ hook'.recovery = hook.recovery /\ (hook'.repair <=> hook.repair)
        /\ hook'.structured = hook.structured
    BY <2>1, <2>2, <2>4, <2>5
  <2>8. hook'.repair = hook.repair
    BY <1>1, <2>7 DEF Hooks
  <2>9. CASE Accepts(hook, d)
    <3>1. /\ owner' \in [page : Candidates, structured : BOOLEAN,
                          published : Candidates \cup {NoPage}]
          /\ owner'.page = h.accepted /\ owner'.structured = h.structured
          /\ owner'.published = d
      BY <2>1, <2>3, <2>6, <2>9
    <3>2. PagesAreDocuments'
      BY <2>1, <2>3, <2>6, <2>9, <3>1 DEF PagesAreDocuments
    <3> QED
      BY <1>9, <2>1, <2>7, <2>8, <3>1, <3>2
  <2>10. CASE ~Accepts(hook, d)
    <3>1. owner' = owner
      BY <2>1, <2>10
    <3> QED
      BY <1>1, <1>6, <1>9, <2>1, <2>7, <2>8, <3>1
  <2> QED
    BY <2>9, <2>10
<1>13. CASE UNCHANGED boundaryVars
  BY <1>13 DEF boundaryVars, BoundaryInv, BoundaryTypeOK, BoundaryIsSound, PagesAreDocuments,
               IsAt, Current, SameStep, InRecovery
<1> QED
  BY <1>4, <1>5, <1>7, <1>8, <1>10, <1>11, <1>12, <1>13 DEF BoundaryNext

\* What the invariant says of the page: it is a document, a refusal left nothing behind.
LEMMA BoundaryPromises == BoundaryInv => PagesAreDocuments /\ RefusalsLeaveNoTrace
BY DEF BoundaryInv, BoundaryIsSound, RefusalsLeaveNoTrace, BoundaryAtRest, SameStep
-----------------------------------------------------------------------------
(***************************************************************************)
(* The screens together.                                                     *)
(* A step of the browser is a step of one component, and the others wait.    *)
(***************************************************************************)

\* Every screen keeps the invariant of its component, whichever of them is open.
ScreensInv == /\ DataInv /\ InquiryInv /\ ShellInv /\ PanelsAreSound
              /\ WidgetsInv /\ ManagerInv /\ BoundaryInv

\* Whatever a step does to the browser, each component makes one of its own steps or none.
LEMMA ScreensStepApart ==
  ASSUME [ScreensNext]_<<screen, screens>>
  PROVE  /\ [PublicDataNext]_publicDataVars /\ [InquiryNext]_inquiryVars
         /\ [SiteShellNext]_shellVars /\ [ShellPanelsNext]_panelVars
         /\ [PageWidgetsNext]_widgetVars /\ [ManagerNext]_managerVars
         /\ [BoundaryNext]_boundaryVars
<1>1. CASE UNCHANGED <<screen, screens>>
  BY <1>1 DEF screens
<1>2. CASE ScreensNext
  BY <1>2 DEF Rest, ScreensNext
<1> QED
  BY <1>1, <1>2

\* The browser starts with every screen sound.
LEMMA ScreensStart == ScreensInit => ScreensInv
BY DataStarts, InquiryStarts, ShellStarts, PanelsStart, WidgetsStart, ManagerStarts, BoundaryStarts
   DEF ScreensInit, ScreensInv

\* Every step of the browser keeps every screen sound.
LEMMA ScreensStay == ScreensInv /\ [ScreensNext]_<<screen, screens>> => ScreensInv'
BY ScreensStepApart, DataStays, InquiryStays, ShellStays, PanelsStay, WidgetsStay, ManagerStays,
   BoundaryStays DEF ScreensInv

\* The inductive invariant of the browser: each screen is sound in every state.
THEOREM ScreensStaySound == ScreensSpec => []ScreensInv
BY ScreensStart, ScreensStay, PTL DEF ScreensSpec

\* What the invariant says of the screens, the three properties of a state at once.
LEMMA ScreensPromise == ScreensInv => ScreensTypeOK /\ ShowsNothingStale /\ NothingIsTaken
BY DataPromises, InquiryPromises, ShellPromises, SurfaceOfVariables, WidgetsPromise,
   ManagerPromises, BoundaryPromises DEF ScreensInv, BoundaryInv, ScreensTypeOK, ShowsNothingStale,
   NothingIsTaken

\* Every variable of every screen keeps its type.
THEOREM ScreenTypesAreCorrect == ScreensSpec => []ScreensTypeOK
BY ScreensStaySound, ScreensPromise, PTL

\* Whatever the host, the visitor and the answers do, and in whichever order, no data of other
\* attributes or another visitor is shown, nor the cart of another member, half a number, an
\* older version of a page than one that was told of, or what the editor refused.
THEOREM NothingStaleIsShown == ScreensSpec => []ShowsNothingStale
BY ScreensStaySound, ScreensPromise, PTL

\* The text that a visitor typed stays, the page around a menu stays usable, no window is opened
\* in vain, and the page editor has a document.
THEOREM NothingIsEverTaken == ScreensSpec => []NothingIsTaken
BY ScreensStaySound, ScreensPromise, PTL

\* An answer clears only a form whose text the server has, paints only the list of its session
\* and ends only the login it was asked to end; a menu that the host replaced comes back as it was.
THEOREM AnswersStayAimed == ScreensSpec => AnswersAreAimed
<1>1. ScreensInv /\ [ScreensNext]_<<screen, screens>> =>
        [\A c \in sending :
            InquiryAnswered(c) /\ form'.text[c.node] # form.text[c.node]
              => form.text[c.node] \in inbox]_inquiryVars
  BY ScreensStepApart, InquiryStays DEF ScreensInv
<1>2. ScreensInv /\ [ScreensNext]_<<screen, screens>> =>
        [\A c \in shellCalls :
            ListAnswered(c) /\ panel'.list # panel.list => c.at = shell.transitions]_shellVars
  BY ScreensStepApart, ShellStays DEF ScreensInv
<1>3. ScreensInv /\ [ScreensNext]_<<screen, screens>> =>
        [session'.token = Nobody /\ session.token # Nobody /\ session'.changes = session.changes
           => \E c \in shellCalls : c.kind = "logout" /\ c.of = session.token]_shellVars
  BY ScreensStepApart, ShellStays DEF ScreensInv
<1>4. ScreensInv /\ [ScreensNext]_<<screen, screens>> =>
        [\A parts \in SUBSET {"menu", "tools", "content"} :
            HostReplaces(parts) /\ nav.opened /\ tools.memory = NoTool /\ ~page.wide
            /\ nav.snapshot.url = page.url
              => nav'.opened /\ nav'.submenu = nav.submenu]_panelVars
  BY ScreensStepApart, PanelsStay DEF ScreensInv
<1>5. ScreensSpec => []ScreensInv /\ [][ScreensNext]_<<screen, screens>>
  BY ScreensStaySound, PTL DEF ScreensSpec
<1>6. ScreensSpec => OnlyAcceptedIsCleared
  BY <1>1, <1>5, PTL DEF OnlyAcceptedIsCleared
<1>7. ScreensSpec => PaintsForItsSession
  BY <1>2, <1>5, PTL DEF PaintsForItsSession
<1>8. ScreensSpec => LogsOutOneSession
  BY <1>3, <1>5, PTL DEF LogsOutOneSession
<1>9. ScreensSpec => MenuComesBack
  BY <1>4, <1>5, PTL DEF MenuComesBack
<1> QED
  BY <1>6, <1>7, <1>8, <1>9, PTL DEF AnswersAreAimed
=============================================================================

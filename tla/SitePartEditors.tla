--------------------------- MODULE SitePartEditors ---------------------------
(***************************************************************************)
(* The editors of a Header and a Footer with Puck: SitePartSetEditor under *)
(* SitePartWorkspace ("set": both parts, any of the sets) and              *)
(* SitePartEditor ("part": one part of the set that is active when it is   *)
(* opened), against a server that other administrators write to.           *)
(*                                                                         *)
(* A set stands for the parts an editor writes together: its version for   *)
(* their lock versions, which the server compares as one.                  *)
(***************************************************************************)
EXTENDS Naturals, FiniteSets

CONSTANTS ShellSets,        \* the sets of the locale
          FirstSet,         \* the one there is at first, published and in use
          NoShellSet,       \* none
          Shells,           \* contents of the parts
          DefaultShell,     \* the content of a new set
          MaxShellVersion,  \* bound on a lock version
          MaxShellEdits     \* bound on the edits of one editor

ASSUME SitePartEditorsAssumption ==
    /\ FirstSet \in ShellSets /\ NoShellSet \notin ShellSets /\ DefaultShell \in Shells
    /\ MaxShellVersion \in Nat \ {0} /\ MaxShellEdits \in Nat
    /\ "noShell" \notin Shells

VARIABLES shellServer,   \* the sets: version, draft, published content, active set
          workspace,     \* what SitePartWorkspace lists and selects
          shellEditor,   \* the editor that is mounted
          shellRequests  \* its requests, and those of the ones before it

partEditorVars == <<shellServer, workspace, shellEditor, shellRequests>>
-----------------------------------------------------------------------------
NoShell == "noShell"
OptionalShell == Shells \cup {NoShell}
ShellVersions == 0 .. MaxShellVersion

\* version 0: the set does not exist yet.
\* current: the sets whose published revision is the last one.
ShellServer == [version : [ShellSets -> ShellVersions], draft : [ShellSets -> OptionalShell],
                live : [ShellSets -> OptionalShell], current : SUBSET ShellSets,
                active : ShellSets \cup {NoShellSet}]

\* activating: the set that "use this set" was pressed for.
Workspace == [listed : SUBSET ShellSets, ready : SUBSET ShellSets,
              active : ShellSets \cup {NoShellSet}, pending : {"none", "load", "create"},
              activating : ShellSets \cup {NoShellSet}]

\* target: the set shown; version 0: its resource is not there. canvas is what
\* Puck shows, data what the editor would save: Puck reads its data prop once.
ShellEditor == [kind : {"set", "part"}, target : ShellSets \cup {NoShellSet},
                version : ShellVersions, canvas : OptionalShell, data : OptionalShell,
                dirty : BOOLEAN, edits : 0 .. MaxShellEdits]

\* answer 0 is an error; mine: the editor that asked is still mounted; publish:
\* the save was asked by the publish button; asked: what was on the canvas.
ShellRequest == [kind : {"load", "save", "publish"}, at : {"sent", "answered"},
                 target : ShellSets, shell : OptionalShell, edits : 0 .. MaxShellEdits,
                 expected : ShellVersions, answer : ShellVersions, mine : BOOLEAN,
                 publish : BOOLEAN, asked : OptionalShell]

Mine == {r \in shellRequests : r.mine}

\* loading, saving and busy: the mounted editor waits for an answer.
Waiting == Mine # {}

Opened == shellEditor.version # 0

IsSetEditor == shellEditor.kind = "set"
-----------------------------------------------------------------------------
NewRequest(kind, set) ==
    [kind |-> kind, at |-> "sent", target |-> set, shell |-> NoShell, edits |-> 0,
     expected |-> 0, answer |-> 0, mine |-> TRUE, publish |-> FALSE, asked |-> NoShell]

\* Mutated: the editor starts with no data instead of empty data.
FreshUnset(kind, set) == [kind |-> kind, target |-> set, version |-> 0, canvas |-> NoShell,
                          data |-> NoShellSet, dirty |-> FALSE, edits |-> 0]

Fresh(kind, set) == [kind |-> kind, target |-> set, version |-> 0, canvas |-> NoShell,
                     data |-> NoShell, dirty |-> FALSE, edits |-> 0]

\* Unmounting stops no request; nothing but the workspace hears the answer.
Orphaned == {[r EXCEPT !.mine = FALSE] : r \in {q \in shellRequests : q.kind # "load"}}

\* An editor mounts (key = the set) and loads. One of a single part asks for the
\* set that is active.
Mounts(kind, set) ==
    /\ shellEditor' = Fresh(kind, set)
    /\ shellRequests' = Orphaned \cup {NewRequest("load", set)}

Initially == [s \in ShellSets |-> IF s = FirstSet THEN DefaultShell ELSE NoShell]

SitePartEditorsInit ==
    \E kind \in {"set", "part"} :
        /\ shellServer = [version |-> [s \in ShellSets |-> IF s = FirstSet THEN 1 ELSE 0],
                          draft |-> Initially, live |-> Initially,
                          current |-> {FirstSet}, active |-> FirstSet]
        /\ workspace = [listed |-> {}, ready |-> {}, active |-> NoShellSet,
                        pending |-> IF kind = "set" THEN "load" ELSE "none",
                        activating |-> NoShellSet]
        /\ shellEditor = Fresh(kind, IF kind = "set" THEN NoShellSet ELSE FirstSet)
        /\ shellRequests = IF kind = "set" THEN {} ELSE {NewRequest("load", FirstSet)}
-----------------------------------------------------------------------------
(* The workspace *)

\* The server with another version, draft and published content of a set.
WithSet(s, version, draft, live, current) ==
    [version |-> [shellServer.version EXCEPT ![s] = version],
     draft |-> [shellServer.draft EXCEPT ![s] = draft],
     live |-> [shellServer.live EXCEPT ![s] = live],
     current |-> current, active |-> shellServer.active]

\* A draft is written, and the published revision is not the last one any more.
Drafted(s, d) == WithSet(s, shellServer.version[s] + 1, d, shellServer.live[s],
                         shellServer.current \ {s})

\* The draft becomes public, as a revision of its own unless it is published already.
DraftPublished(s) ==
    WithSet(s, IF s \in shellServer.current THEN shellServer.version[s]
               ELSE shellServer.version[s] + 1,
            shellServer.draft[s], shellServer.draft[s], shellServer.current \cup {s})

Stored == {s \in ShellSets : shellServer.version[s] # 0}

Ready == {s \in ShellSets : shellServer.live[s] # NoShell}

\* load(): the selected set of the list is opened.
WorkspaceLoaded ==
    /\ workspace.pending = "load"
    /\ workspace' = [workspace EXCEPT !.listed = Stored, !.ready = Ready, !.pending = "none",
                                      !.active = shellServer.active]
    /\ \E s \in Stored : Mounts("set", s)
    /\ UNCHANGED shellServer

\* Bound: the requests of at most one editor that was left are on their way.
NoOrphans == \A r \in shellRequests : r.mine

\* selectSet of an editor with changes has to be confirmed; changes that were
\* confirmed away are the administrator's choice.
SelectSet(s) ==
    /\ IsSetEditor /\ s \in workspace.listed \ {shellEditor.target}
    /\ NoOrphans
    /\ Mounts("set", s)
    /\ UNCHANGED <<shellServer, workspace>>

\* The dialog of a new set stays open while the set is edited.
AskCreateSet ==
    /\ IsSetEditor /\ workspace.pending = "none" /\ workspace.activating = NoShellSet
    /\ workspace' = [workspace EXCEPT !.pending = "create"]
    /\ UNCHANGED <<shellServer, shellEditor, shellRequests>>

CreateSetAnswered ==
    /\ workspace.pending = "create" /\ NoOrphans
    /\ \/ \E s \in ShellSets \ Stored :
            /\ shellServer' = WithSet(s, 1, DefaultShell, shellServer.live[s],
                                      shellServer.current)
            /\ workspace' = [workspace EXCEPT !.listed = @ \cup {s}, !.pending = "none"]
            /\ Mounts("set", s)
       \/ /\ workspace' = [workspace EXCEPT !.pending = "none"]
          /\ UNCHANGED <<shellServer, shellEditor, shellRequests>>

\* Mutated: a set that is not ready can be activated.
MayActivateAny(s) == s \in workspace.listed /\ s # workspace.active

\* The button and the handler both test what the list says.
MayActivate(s) == s \in workspace.ready /\ s # workspace.active

AskActivate ==
    /\ IsSetEditor /\ MayActivate(shellEditor.target)
    /\ ~\E r \in Mine : r.kind # "load"
    /\ workspace.activating = NoShellSet
    /\ workspace' = [workspace EXCEPT !.activating = shellEditor.target]
    /\ UNCHANGED <<shellServer, shellEditor, shellRequests>>

\* The set of the response is the one in use, in the list, whichever set is
\* open by then.
ActivateAnswered ==
    LET s == workspace.activating
    IN  /\ s # NoShellSet
        /\ \/ /\ s \in Ready
              /\ shellServer' = [shellServer EXCEPT !.active = s]
              /\ workspace' = [workspace EXCEPT !.active = s, !.activating = NoShellSet]
           \/ workspace' = [workspace EXCEPT !.activating = NoShellSet] /\ UNCHANGED shellServer
        /\ UNCHANGED <<shellEditor, shellRequests>>
-----------------------------------------------------------------------------
(* The editor *)

\* update(): Puck's onChange, after an edit, a preset or Undo and Redo, which
\* both work while a request is on its way.
EditShell(c) ==
    /\ Opened /\ c # shellEditor.canvas /\ shellEditor.edits < MaxShellEdits
    /\ shellEditor' = [shellEditor EXCEPT !.canvas = c, !.data = c, !.dirty = TRUE,
                                          !.edits = @ + 1]
    /\ UNCHANGED <<shellServer, workspace, shellRequests>>

\* save(): the document and its revision are copied before the request.
SaveOf(publish) ==
    [NewRequest("save", shellEditor.target) EXCEPT
        !.shell = shellEditor.data, !.edits = shellEditor.edits,
        !.expected = shellEditor.version, !.publish = publish,
        !.asked = shellEditor.data]

PublishOf(r, version) ==
    [r EXCEPT !.kind = "publish", !.at = "sent", !.expected = version, !.answer = 0,
              !.publish = FALSE]

\* The timer of 1.5 or 2 seconds is cleared while the editor waits.
MayAutosave == Opened /\ shellEditor.dirty /\ ~Waiting

AutosaveShell ==
    /\ MayAutosave
    /\ shellRequests' = shellRequests \cup {SaveOf(FALSE)}
    /\ UNCHANGED <<shellServer, workspace, shellEditor>>

SaveShell ==
    /\ Opened /\ ~Waiting
    /\ shellRequests' = shellRequests \cup {SaveOf(FALSE)}
    /\ UNCHANGED <<shellServer, workspace, shellEditor>>

\* publish(): with changes, save first.
PublishShell ==
    /\ Opened /\ ~Waiting
    /\ shellRequests' = shellRequests \cup
          {IF shellEditor.dirty THEN SaveOf(TRUE)
           ELSE PublishOf(SaveOf(FALSE), shellEditor.version)}
    /\ UNCHANGED <<shellServer, workspace, shellEditor>>
-----------------------------------------------------------------------------
(* The server *)

AnsweredWith(r, version) ==
    shellRequests' = (shellRequests \ {r}) \cup
                        {[r EXCEPT !.at = "answered", !.answer = version]}

\* Bound: one set is written, and only a publication makes its last version.
Room(s) == /\ shellServer.version[s] < MaxShellVersion - 1
           /\ \A t \in ShellSets \ {s} : shellServer.version[t] <= 1
RoomFor(r) == \/ Room(r.target)
              \/ r.kind = "publish" /\ shellServer.version[r.target] < MaxShellVersion

\* Mutated: the lock versions are not compared.
AcceptsStaleShell(r) == RoomFor(r)

\* Of a draft as of a publication, saveSetDraft and publishSet.
AcceptsShell(r) == r.expected = shellServer.version[r.target] /\ RoomFor(r)

HandleShell(r) ==
    /\ r \in shellRequests /\ r.at = "sent"
    /\ \/ /\ r.kind = "load"
          /\ shellRequests' = (shellRequests \ {r}) \cup
                {[r EXCEPT !.at = "answered", !.answer = shellServer.version[r.target],
                           !.shell = shellServer.draft[r.target]]}
          /\ UNCHANGED shellServer
       \/ /\ r.kind = "save" /\ AcceptsShell(r)
          /\ shellServer' = Drafted(r.target, r.shell)
          /\ \E lost \in BOOLEAN :
               AnsweredWith(r, IF lost THEN 0 ELSE shellServer'.version[r.target])
       \/ /\ r.kind = "publish" /\ AcceptsShell(r)
          /\ shellServer' = DraftPublished(r.target)
          /\ \E lost \in BOOLEAN :
               AnsweredWith(r, IF lost THEN 0 ELSE shellServer'.version[r.target])
       \/ AnsweredWith(r, 0) /\ UNCHANGED shellServer
    /\ UNCHANGED <<workspace, shellEditor>>
-----------------------------------------------------------------------------
(* Answers *)

LoadAnswered(r) ==
    /\ r \in shellRequests /\ r.kind = "load" /\ r.at = "answered"
    /\ shellEditor' = [shellEditor EXCEPT !.version = r.answer, !.canvas = r.shell,
                                          !.data = r.shell]
    /\ shellRequests' = shellRequests \ {r}
    /\ UNCHANGED <<shellServer, workspace>>

\* Mutated: the response is taken for the document on the canvas.
SavedEditorAlways(r) == [shellEditor EXCEPT !.version = r.answer, !.dirty = FALSE,
                                            !.data = r.shell]

\* Only an answer to what is still there makes the editor clean; either way the
\* lock version is the one of the answer.
SavedEditor(r) ==
    [shellEditor EXCEPT !.version = r.answer, !.dirty = (@ /\ shellEditor.edits # r.edits)]

\* Mutated: only a success ends the waiting.
WithoutAnswered(r) == IF r.answer = 0 THEN shellRequests ELSE shellRequests \ {r}

\* finally: the editor waits no more.
Without(r) == shellRequests \ {r}

\* onChanged: updatePart of the workspace, whichever editor asked.
Told(r) == workspace' = [workspace EXCEPT !.ready =
              IF r.kind = "publish" /\ r.target \in workspace.listed
              THEN @ \cup {r.target} ELSE @]

\* publish() goes on after its save. The set editor publishes what was saved;
\* the part editor refuses when the document moved meanwhile.
GoesOn(r) == /\ r.publish
             /\ shellEditor.kind = "set" \/ ~r.mine \/ shellEditor.edits = r.edits

SaveShellAnswered(r) ==
    /\ r \in shellRequests /\ r.kind = "save" /\ r.at = "answered"
    /\ shellEditor' = IF r.mine /\ r.answer # 0 THEN SavedEditor(r) ELSE shellEditor
    /\ shellRequests' = Without(r) \cup
                           IF r.answer # 0 /\ GoesOn(r) THEN {PublishOf(r, r.answer)} ELSE {}
    /\ UNCHANGED <<shellServer, workspace>>

\* applyResources(next, true) of the set editor: clean, whatever was edited.
PublishedSetEditor(r) == [shellEditor EXCEPT !.version = r.answer, !.dirty = FALSE,
                                             !.data = r.shell]

PublishShellAnswered(r) ==
    /\ r \in shellRequests /\ r.kind = "publish" /\ r.at = "answered"
    /\ shellEditor' = IF ~r.mine \/ r.answer = 0 THEN shellEditor
                      ELSE IF IsSetEditor THEN PublishedSetEditor(r) ELSE SavedEditor(r)
    /\ IF r.answer # 0 THEN Told(r) ELSE UNCHANGED workspace
    /\ shellRequests' = Without(r)
    /\ UNCHANGED shellServer
-----------------------------------------------------------------------------
(* Other administrators *)

\* Bound: they write the set that is open here.
OtherSavesShell(d) ==
    LET s == shellEditor.target
    IN  /\ s \in Stored /\ Room(s)
        /\ shellServer' = Drafted(s, d)
        /\ UNCHANGED <<workspace, shellEditor, shellRequests>>

SitePartEditorsNext ==
    \/ WorkspaceLoaded \/ AskCreateSet \/ CreateSetAnswered \/ AskActivate \/ ActivateAnswered
    \/ AutosaveShell \/ SaveShell \/ PublishShell
    \/ \E s \in ShellSets : SelectSet(s)
    \/ \E c \in Shells : EditShell(c) \/ OtherSavesShell(c)
    \/ \E r \in shellRequests : \/ HandleShell(r) \/ LoadAnswered(r)
                                \/ SaveShellAnswered(r) \/ PublishShellAnswered(r)

SitePartEditorsSpec == SitePartEditorsInit /\ [][SitePartEditorsNext]_partEditorVars

\* Timers fire, requests are answered or fail.
SitePartEditorsFairness ==
    /\ WF_partEditorVars(AutosaveShell)
    /\ WF_partEditorVars(\E r \in shellRequests :
          HandleShell(r) \/ LoadAnswered(r) \/ SaveShellAnswered(r) \/ PublishShellAnswered(r))
-----------------------------------------------------------------------------
(* Properties *)

\* Every variable keeps its type.
SitePartEditorsTypeOK == /\ shellServer \in ShellServer /\ workspace \in Workspace
                         /\ shellEditor \in ShellEditor /\ shellRequests \subseteq ShellRequest

\* What the editor would save is what the canvas shows, and "저장됨" is true:
\* while nobody else wrote the set, a clean canvas is the stored draft.
CleanCanvasIsStored ==
    Opened => /\ shellEditor.data = shellEditor.canvas
              /\ ~shellEditor.dirty
                    /\ shellEditor.version = shellServer.version[shellEditor.target]
                 => shellEditor.canvas = shellServer.draft[shellEditor.target]

\* The same of the part editor, whose publication leaves later edits alone.
CleanPartIsStored == ~IsSetEditor => CleanCanvasIsStored

\* A publication shows the public what was on the canvas when the button was
\* pressed (as the editor held it), and never what another administrator saved meanwhile.
PublishesThePressed ==
    [][\A s \in ShellSets : shellServer'.live[s] # shellServer.live[s]
          => \E r \in shellRequests : r.kind = "publish" /\ r.target = s
                 /\ shellServer'.live[s] = r.asked]_partEditorVars

\* What the workspace offers to activate is ready on the server, however old
\* its list is; so an activation fails only for reasons of the server's own.
OffersOnlyReady == MayActivate(shellEditor.target) => shellEditor.target \in Ready

\* The editor does not wait for an answer for good, and a change is saved or
\* tried to be saved: dirty work does not wait for the button.
ChangesAreTried == /\ []<>(~(Waiting /\ Opened))
                   /\ []<>(shellEditor.dirty /\ Opened
                              => \E r \in shellRequests : r.kind = "save")
=============================================================================

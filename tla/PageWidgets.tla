---------------------------- MODULE PageWidgets -----------------------------
(***************************************************************************)
(* The widgets of a public page that live in markup the host may replace:  *)
(* a counter that runs when it comes into view (publicMotion), a slider    *)
(* whose script is loaded when the page has one (publicSliderLoader and     *)
(* publicSliders) and a list of tabs (publicContentControls). Each keeps   *)
(* what it owns of its nodes and gives it back when they change. The        *)
(* mutation records of a change wait for the observers of the widgets and  *)
(* of the page, which then boots what is new; a callback that comes first  *)
(* takes the records of its widget itself.                                 *)
(***************************************************************************)
EXTENDS Naturals, FiniteSets

CONSTANTS MaxWidgetEdits, \* bound on the changes of the markup
          MaxLoads        \* bound on the loads of the slider script

ASSUME PageWidgetsAssumption == MaxWidgetEdits \in Nat /\ MaxLoads \in Nat \ {0}

VARIABLES article,         \* the window and the document as a whole
          counter,      \* the block with its MotionState
          slider,       \* the slider with its mount
          loader,       \* the SliderLoaderState of the document
          tabs          \* the list of tabs with its mount

widgetVars == <<article, counter, slider, loader, tabs>>
-----------------------------------------------------------------------------
\* due: records that wait for the page's observer.
Article == [edits : 0 .. MaxWidgetEdits, reduced : BOOLEAN, onScreen : BOOLEAN, due : BOOLEAN]

\* text: as it was written, on its way, or as it is formatted at the end. repeat: the
\* trigger attribute; the mount keeps the one it was read with, and the preference.
\* seen: the last entry of the intersection observer. job: frames are running. dirty:
\* records that wait for the observer of the widget.
Counter == [text : {"written", "partial", "counted"}, repeat : BOOLEAN, dirty : BOOLEAN,
            mounted : BOOLEAN, mountRepeat : BOOLEAN, mountReduced : BOOLEAN,
            observed : BOOLEAN, seen : {"nothing", "in", "out"}, inview : BOOLEAN,
            job : BOOLEAN]

\* The slider has two ways of being configured.
Configurations == {"plain", "changed"}
Slider == [present : BOOLEAN, inputs : Configurations, dirty : BOOLEAN,
           mounted : BOOLEAN, mountInputs : Configurations]

\* waiting: then-callbacks of the load, by the generation of their boot.
Loader == [generation : 0 .. MaxWidgetEdits + 1, desired : BOOLEAN,
           load : {"none", "pending", "done"}, loads : 0 .. MaxLoads, error : BOOLEAN,
           waiting : SUBSET (1 .. MaxWidgetEdits + 1)]

Tabs == [shown : SUBSET (1 .. 2), dirty : BOOLEAN, mounted : BOOLEAN, selected : 1 .. 2]
-----------------------------------------------------------------------------
\* Mutated: the frames are cancelled, the text is left where it is.
CountersStoppedShort(c) == [c EXCEPT !.job = FALSE]

\* stopCounters: the text is what it was.
CountersStopped(c) ==
    [c EXCEPT !.job = FALSE, !.text = IF c.mountReduced THEN @ ELSE "written"]

MotionRetired(c) ==
    [CountersStopped(c) EXCEPT !.mounted = FALSE, !.observed = FALSE, !.inview = FALSE,
                               !.seen = "nothing"]

\* reconcile of publicMotion: the records that wait, and the attributes.
MotionReconciled(c) ==
    IF c.mounted /\ (c.dirty \/ c.mountRepeat # c.repeat)
    THEN [MotionRetired(c) EXCEPT !.dirty = FALSE] ELSE [c EXCEPT !.dirty = FALSE]

\* bootPageMotion of what is not mounted: prepared and observed.
MotionMounted(c, reduced) ==
    IF c.mounted THEN c
    ELSE [c EXCEPT !.mounted = TRUE, !.mountRepeat = c.repeat, !.mountReduced = reduced,
                   !.observed = ~reduced]

\* Another preference disposes of the runtime.
MotionBooted(c, reduced) ==
    MotionMounted(IF c.mounted /\ c.mountReduced # reduced
                  THEN [MotionRetired(c) EXCEPT !.dirty = FALSE] ELSE MotionReconciled(c),
                  reduced)

\* activate: a block that has come into view once stays as it is.
Activated(c) == IF c.inview /\ ~c.repeat THEN c
                ELSE [c EXCEPT !.inview = TRUE, !.job = TRUE, !.text = "partial"]

\* An entry of the IntersectionObserver: the first one always, then the changes.
Intersection ==
    /\ counter.observed /\ counter.seen # (IF article.onScreen THEN "in" ELSE "out")
    /\ counter' =
         LET c == MotionReconciled(counter)
         IN  IF ~c.mounted THEN c
             ELSE IF article.onScreen
             THEN [Activated(c) EXCEPT !.seen = "in", !.observed = c.repeat]
             ELSE IF c.repeat
             THEN [CountersStopped(c) EXCEPT !.seen = "out", !.inview = FALSE]
             ELSE [c EXCEPT !.seen = "out"]
    /\ UNCHANGED <<article, slider, loader, tabs>>

\* tick: one of the frames is the last.
Tick(last) ==
    /\ counter.job
    /\ counter' = LET c == MotionReconciled(counter)
                  IN  IF ~c.mounted THEN c
                      ELSE [c EXCEPT !.text = IF last THEN "counted" ELSE "partial",
                                     !.job = ~last]
    /\ UNCHANGED <<article, slider, loader, tabs>>
-----------------------------------------------------------------------------
\* prune of publicSliders: the mount is given up with its nodes or its inputs.
SliderPruned(s) ==
    [s EXCEPT !.dirty = FALSE,
              !.mounted = @ /\ ~s.dirty /\ s.present /\ s.mountInputs = s.inputs]

SliderDisposed(s) == [s EXCEPT !.mounted = FALSE]

\* bootPageSliders of publicSliders.
SliderMounted(s) == [s EXCEPT !.dirty = FALSE, !.mounted = TRUE, !.mountInputs = s.inputs]

\* loadSliderApi: one script at a time, and none after it has registered. A load that
\* failed is tried again by the next boot.
StartsLoad == loader.load = "none" /\ loader.loads < MaxLoads

\* bootPageSliders of the loader.
LoaderBooted(present) ==
    loader' = [loader EXCEPT
                 !.generation = @ + 1, !.desired = present,
                 !.load = IF present /\ StartsLoad THEN "pending" ELSE @,
                 !.loads = IF present /\ StartsLoad THEN @ + 1 ELSE @,
                 !.waiting = IF present THEN @ \cup {loader.generation + 1} ELSE @]

ScriptLoaded ==
    /\ loader.load = "pending"
    /\ loader' = [loader EXCEPT !.load = "done", !.error = FALSE]
    /\ UNCHANGED <<article, counter, slider, tabs>>

\* The script is taken out; the callbacks that waited for it end.
ScriptFailed ==
    /\ loader.load = "pending"
    /\ loader' = [loader EXCEPT !.load = "none", !.error = TRUE, !.waiting = {}]
    /\ UNCHANGED <<article, counter, slider, tabs>>

\* Mutated: only the first callback mounts.
IsLatestFirst(g) == g = 1

IsLatest(g) == loader.generation = g

\* The then-callback of one boot.
LoaderContinues(g) ==
    /\ loader.load = "done" /\ g \in loader.waiting
    /\ loader' = [loader EXCEPT !.waiting = @ \ {g},
                                !.desired = @ /\ (IsLatest(g) => slider.present)]
    /\ slider' = IF loader'.desired
                 THEN IF IsLatest(g) THEN SliderMounted(slider) ELSE slider
                 ELSE SliderDisposed(slider)
    /\ UNCHANGED <<article, counter, tabs>>
-----------------------------------------------------------------------------
\* reconcile of publicContentControls.
TabsReconciled(t) == [t EXCEPT !.dirty = FALSE, !.mounted = @ /\ ~t.dirty]

\* Mutated: the panel that was selected is not hidden.
SelectedMore(t, n) == [t EXCEPT !.selected = n, !.shown = @ \cup {n}]

Selected(t, n) == [t EXCEPT !.selected = n, !.shown = {n}]

\* bootTabs: the initial tab of new nodes.
TabsBooted(t) ==
    LET ready == TabsReconciled(t)
    IN  IF ready.mounted THEN ready ELSE [Selected(ready, 1) EXCEPT !.mounted = TRUE]

SelectTab(n) ==
    /\ tabs.mounted /\ n # tabs.selected
    /\ tabs' = LET t == TabsReconciled(tabs) IN IF t.mounted THEN Selected(t, n) ELSE t
    /\ UNCHANGED <<article, counter, slider, loader>>
-----------------------------------------------------------------------------
CompiledCounter(repeat) ==
    [text |-> "written", repeat |-> repeat, dirty |-> FALSE, mounted |-> FALSE,
     mountRepeat |-> repeat, mountReduced |-> FALSE, observed |-> FALSE,
     seen |-> "nothing", inview |-> FALSE, job |-> FALSE]

\* The page after startPageEffects has booted it.
PageWidgetsInit ==
    \E repeat, reduced, onScreen, present \in BOOLEAN :
        /\ article = [edits |-> 0, reduced |-> reduced, onScreen |-> onScreen, due |-> FALSE]
        /\ counter = MotionMounted(CompiledCounter(repeat), reduced)
        /\ slider = [present |-> present, inputs |-> "plain", dirty |-> FALSE,
                     mounted |-> FALSE, mountInputs |-> "plain"]
        /\ loader = [generation |-> 1, desired |-> present,
                     load |-> IF present THEN "pending" ELSE "none",
                     loads |-> IF present THEN 1 ELSE 0, error |-> FALSE,
                     waiting |-> IF present THEN {1} ELSE {}]
        /\ tabs = [shown |-> {1}, dirty |-> FALSE, mounted |-> TRUE, selected |-> 1]

Edit == article.edits < MaxWidgetEdits /\ article' = [article EXCEPT !.edits = @ + 1, !.due = TRUE]

\* The host replaces the page: every node is new, as it was compiled. What is mounted
\* is mounted on nodes that are gone.
HostRendersPage(present) ==
    /\ Edit
    /\ counter' = [counter EXCEPT !.text = "written", !.dirty = TRUE]
    /\ slider' = [slider EXCEPT !.present = present, !.inputs = "plain", !.dirty = TRUE]
    /\ tabs' = [tabs EXCEPT !.shown = {1, 2}, !.dirty = TRUE]
    /\ UNCHANGED loader

\* The host writes one of the attributes the widgets are read from.
HostWritesMotion ==
    /\ Edit
    /\ counter' = [counter EXCEPT !.repeat = ~@]
    /\ UNCHANGED <<slider, loader, tabs>>

HostWritesSlider ==
    /\ Edit /\ slider.present
    /\ slider' = [slider EXCEPT !.inputs = IF @ = "plain" THEN "changed" ELSE "plain"]
    /\ UNCHANGED <<counter, loader, tabs>>

\* bootPageEffects; a page without a slider disposes of it.
ObserversBoot ==
    /\ article.due /\ article' = [article EXCEPT !.due = FALSE]
    /\ tabs' = TabsBooted(tabs)
    /\ LoaderBooted(slider.present)
    /\ slider' = SliderPruned(slider)
    /\ counter' = MotionBooted(counter, article.reduced)

\* The block is scrolled into view or out of it; the preference for less motion
\* changes, and is read at the next boot.
Scroll == /\ article' = [article EXCEPT !.onScreen = ~@]
          /\ UNCHANGED <<counter, slider, loader, tabs>>

PreferenceChanges ==
    /\ article.edits < MaxWidgetEdits
    /\ article' = [article EXCEPT !.reduced = ~@, !.edits = @ + 1]
    /\ UNCHANGED <<counter, slider, loader, tabs>>
-----------------------------------------------------------------------------
PageWidgetsNext ==
    \/ Intersection \/ Tick(TRUE) \/ Tick(FALSE) \/ ScriptLoaded \/ ScriptFailed
    \/ \E g \in loader.waiting : LoaderContinues(g)
    \/ \E n \in 1 .. 2 : SelectTab(n)
    \/ \E present \in BOOLEAN : HostRendersPage(present)
    \/ HostWritesMotion \/ HostWritesSlider \/ ObserversBoot \/ Scroll \/ PreferenceChanges

\* Observers and callbacks run, a script loads or fails.
PageWidgetsFairness ==
    /\ WF_widgetVars(ObserversBoot)
    /\ WF_widgetVars(\E g \in loader.waiting : LoaderContinues(g))
    /\ WF_widgetVars(ScriptLoaded \/ ScriptFailed)

PageWidgetsSpec == PageWidgetsInit /\ [][PageWidgetsNext]_widgetVars /\ PageWidgetsFairness
-----------------------------------------------------------------------------
(* Properties *)

\* Every variable keeps its type.
PageWidgetsTypeOK == /\ article \in Article /\ counter \in Counter /\ slider \in Slider
                     /\ loader \in Loader /\ tabs \in Tabs

\* A number that nobody counts any more is whole: as it was written, or counted to
\* its end, never where a job that was cancelled has left it; and once the observers
\* have run, what is mounted is the widget the page has, with one panel of the tabs.
WidgetsMatchThePage ==
    /\ ~counter.job => counter.text # "partial"
    /\ ~article.due =>
         /\ counter.mounted /\ counter.mountRepeat = counter.repeat
         /\ slider.mounted => slider.present /\ slider.mountInputs = slider.inputs
         /\ tabs.mounted /\ tabs.shown = {tabs.selected}

SliderMatches == IF slider.present THEN slider.mounted \/ loader.error ELSE ~slider.mounted

\* Whatever the host does meanwhile, a page that has a slider gets it mounted, unless
\* its script could not be loaded; a page without one has none.
SlidersComeUp == <>[]SliderMatches
=============================================================================

------------------------------- MODULE RoutePicker -------------------------------
(***************************************************************************)
(* Choosing where a button leads (RouteUrlField.tsx): the picker of a      *)
(* field of the inspector, which keeps what it was told while it is        *)
(* closed, and the one of the canvas, which is mounted anew each time. Its *)
(* effects ask for the catalog of routes, for the pages and for the        *)
(* targets of a route, and each answer makes them run again.               *)
(*                                                                         *)
(* Paths, labels, the search and the categories are left out. A value is 1 *)
(* if the lists offer it, 2 if it was typed, 0 if there is none.           *)
(***************************************************************************)
EXTENDS Naturals, Functions

CONSTANTS
    Routes,         \* the routes of the catalog
    SourcesOf,      \* for each route, its parameters and where their values come from
    NoRoute,        \* nothing is selected
    MaxRouteWork    \* steps of the user

ASSUME RoutePickerAssumption == NoRoute \notin Routes /\ MaxRouteWork \in Nat

VARIABLES
    routePicker,    \* the state of RouteUrlPicker, and the effects that will run
    routeCalls,     \* how many requests of each kind are on their way
    routeHistory    \* history: requests of this mount, the route a value was given for, and the link

routePickerVars == <<routePicker, routeCalls, routeHistory>>

TargetSources == {"board", "category", "product"}
RouteCalls == {"catalog", "page"} \cup TargetSources
Parameters == UNION {DOMAIN SourcesOf[r] : r \in Routes}
-----------------------------------------------------------------------------
FreshPicker(place, open) ==
    [place |-> place, open |-> open, readOnly |-> FALSE, catalog |-> FALSE, attempted |-> FALSE,
     loading |-> FALSE, failed |-> FALSE, selected |-> NoRoute, values |-> [p \in Parameters |-> 0],
     pages |-> FALSE, targets |-> [s \in TargetSources |-> "unknown"], waiting |-> {},
     due |-> {"catalog", "page", "targets"}, work |-> 0]

NoRequests == [c \in RouteCalls |-> 0]
NothingEntered == [asked |-> NoRequests, givenFor |-> [p \in Parameters |-> NoRoute], link |-> << >>]

\* What the effects depend on.
Depends(effect, p) ==
    CASE effect = "catalog" -> <<p.catalog, p.attempted, p.loading, p.open>>
      [] effect = "page"    -> <<p.pages, p.selected>>
      [] effect = "targets" -> <<p.selected, p.targets, p.waiting>>

\* A render runs the effects whose dependencies it changed.
Renders(p) ==
    routePicker' = [p EXCEPT !.due = {e \in {"catalog", "page", "targets"} : Depends(e, p) # Depends(e, routePicker)}]

SourcesOfSelected == IF routePicker.selected = NoRoute THEN {} ELSE Range(SourcesOf[routePicker.selected])

\* Mutated: what is being loaded is asked for again.
TargetsUnknown == {s \in TargetSources \cap SourcesOfSelected : routePicker.targets[s] = "unknown"}

\* The targets that are neither known nor on their way.
TargetsMissing ==
    {s \in TargetSources \cap SourcesOfSelected : routePicker.targets[s] = "unknown" /\ s \notin routePicker.waiting}

CatalogMissing ==
    routePicker.open /\ ~routePicker.catalog /\ ~routePicker.loading /\ ~routePicker.attempted

PagesMissing == "page" \in SourcesOfSelected /\ ~routePicker.pages

\* The effects run before anything else is rendered.
RunEffects ==
    /\ routePicker.due # {}
    /\ LET catalog == "catalog" \in routePicker.due /\ CatalogMissing
           targets == IF "targets" \in routePicker.due THEN TargetsMissing ELSE {}
           asks == targets \cup {c \in {"catalog"} : catalog}
                           \cup {c \in {"page"} : "page" \in routePicker.due /\ PagesMissing}
           More(count) == [c \in RouteCalls |-> IF c \in asks THEN count[c] + 1 ELSE count[c]]
       IN  /\ Renders([routePicker EXCEPT !.attempted = @ \/ catalog, !.loading = @ \/ catalog,
                                          !.failed = @ /\ ~catalog, !.waiting = @ \cup targets])
           /\ routeCalls' = More(routeCalls)
           /\ routeHistory' = [routeHistory EXCEPT !.asked = More(@)]
-----------------------------------------------------------------------------
(* Answers *)

Answered(c) == routePicker.due = {} /\ routeCalls[c] > 0 /\ routeCalls' = [routeCalls EXCEPT ![c] = @ - 1]
               /\ UNCHANGED routeHistory

CatalogAnswers ==
    /\ Answered("catalog")
    /\ \E ok \in BOOLEAN : Renders([routePicker EXCEPT !.catalog = ok, !.failed = ~ok, !.loading = FALSE])

\* A failure says nothing, and neither does a site without pages.
PagesAnswer ==
    /\ Answered("page")
    /\ \E some \in BOOLEAN : Renders([routePicker EXCEPT !.pages = IF some THEN TRUE ELSE @])

\* Mutated: a failure leaves the targets unknown.
TargetsAfter(answer) == IF answer = "failure" THEN "unknown" ELSE answer

\* A failure counts as a service without targets.
TargetsOf(answer) == IF answer = "failure" THEN "empty" ELSE answer

TargetsAnswer(s) ==
    /\ Answered(s)
    /\ \E answer \in {"some", "empty", "failure"} :
         Renders([routePicker EXCEPT !.targets[s] = TargetsOf(answer), !.waiting = @ \ {s}])
-----------------------------------------------------------------------------
(* The user *)

Works == routePicker.due = {} /\ routePicker.work < MaxRouteWork
Worked == [routePicker EXCEPT !.work = @ + 1]

\* The picker of the canvas is gone when it is dismissed, and its answers with it.
Dismissed(p) ==
    IF p.place = "canvas"
    THEN /\ routePicker' = [FreshPicker("canvas", FALSE) EXCEPT !.work = p.work, !.due = {}]
         /\ routeCalls' = NoRequests
    ELSE Renders([p EXCEPT !.open = FALSE]) /\ UNCHANGED routeCalls

Forgotten(history) == IF routePicker.place = "canvas" THEN [NothingEntered EXCEPT !.link = history.link] ELSE history

\* The button of the field, or the event of the canvas that names it; or the canvas
\* mounts a picker of its own.
OpenRoutes ==
    /\ Works /\ ~routePicker.open /\ ~routePicker.readOnly
    /\ IF routePicker.place = "canvas"
       THEN routePicker' = [FreshPicker("canvas", TRUE) EXCEPT !.work = Worked.work]
       ELSE Renders([Worked EXCEPT !.open = TRUE])
    /\ UNCHANGED <<routeCalls, routeHistory>>

CloseRoutes ==
    /\ Works /\ routePicker.open
    /\ Dismissed(Worked)
    /\ routeHistory' = Forgotten(routeHistory)

\* Mutated: the parameters of the route before stay.
EmptiedOfNone(values) == values

Emptied(values) == [p \in Parameters |-> 0]

\* choose: a route without parameters is linked at once, and another waits for its values.
ChooseRoute(r) ==
    /\ Works /\ routePicker.open /\ routePicker.catalog
    /\ IF DOMAIN SourcesOf[r] = {}
       THEN /\ Dismissed(Worked)
            /\ routeHistory' = [Forgotten(routeHistory) EXCEPT !.link = <<r>>]
       ELSE /\ Renders([Worked EXCEPT !.selected = r, !.values = Emptied(@)])
            /\ UNCHANGED <<routeCalls, routeHistory>>

\* A list offers its values only; an input takes any.
Offers(source) ==
    IF (source = "page" /\ routePicker.pages) \/ (source \in TargetSources /\ routePicker.targets[source] = "some")
    THEN {0, 1} ELSE {0, 2}

GiveValue(p) ==
    /\ Works /\ routePicker.open /\ routePicker.selected # NoRoute
    /\ p \in DOMAIN SourcesOf[routePicker.selected]
    /\ \E v \in Offers(SourcesOf[routePicker.selected][p]) : Renders([Worked EXCEPT !.values[p] = v])
    /\ routeHistory' = [routeHistory EXCEPT !.givenFor[p] = routePicker.selected]
    /\ UNCHANGED routeCalls

\* resolveRoutePath
Complete == routePicker.selected # NoRoute
            /\ \A p \in DOMAIN SourcesOf[routePicker.selected] : routePicker.values[p] # 0

\* apply
LinkRoute ==
    /\ Works /\ routePicker.open /\ Complete
    /\ Dismissed(Worked)
    /\ routeHistory' = [Forgotten(routeHistory) EXCEPT !.link = <<routePicker.selected, routePicker.values>>]

\* Another selection, a preview or a publication: the field may not be opened.
ToggleReadOnly ==
    /\ Works /\ routePicker.place = "field"
    /\ Renders([Worked EXCEPT !.readOnly = ~@])
    /\ UNCHANGED <<routeCalls, routeHistory>>
-----------------------------------------------------------------------------
RoutePickerOpened(place) ==
    /\ routePicker = FreshPicker(place, FALSE)
    /\ routeCalls = NoRequests
    /\ routeHistory = NothingEntered

RoutePickerInit == \E place \in {"field", "canvas"} : RoutePickerOpened(place)

RoutePickerNext ==
    \/ RunEffects
    \/ CatalogAnswers \/ PagesAnswer \/ \E s \in TargetSources : TargetsAnswer(s)
    \/ OpenRoutes \/ CloseRoutes \/ LinkRoute \/ ToggleReadOnly
    \/ \E r \in Routes : ChooseRoute(r)
    \/ \E p \in Parameters : GiveValue(p)
-----------------------------------------------------------------------------
(* Properties *)

\* Type invariant: the state of RouteUrlPicker.
RoutePickerTypeOK ==
    /\ routePicker.selected \in Routes \cup {NoRoute}
    /\ routePicker.values \in [Parameters -> 0..2]
    /\ routePicker.targets \in [TargetSources -> {"unknown", "empty", "some"}]
    /\ routePicker.waiting \subseteq TargetSources

\* The catalog and the targets of a source are asked for once, however often the picker is
\* opened and routes are chosen: no effect sets off itself again by what it sets.
AskedOnce == \A c \in RouteCalls \ {"page"} : routeHistory.asked[c] <= 1

\* What the picker says it loads is on its way, and where it says that there are no
\* targets it has asked for them.
SaysWhatItKnows ==
    /\ routePicker.loading => routeCalls["catalog"] > 0
    /\ \A s \in routePicker.waiting : routeCalls[s] > 0
    /\ routePicker.due = {} =>
          \A s \in TargetSources \cap SourcesOfSelected :
              routePicker.targets[s] = "unknown" => s \in routePicker.waiting

\* A value belongs to the route it was given for: parameters of two routes share names,
\* and a link is never made of the one route and the target of the other.
ValuesOfThisRoute ==
    \A p \in Parameters : routePicker.values[p] # 0 => routeHistory.givenFor[p] = routePicker.selected
=============================================================================

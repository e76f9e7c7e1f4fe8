------------------------------- MODULE Browsing ------------------------------
(***************************************************************************)
(* The pages with which Amphorae are found, created and looked at.  They   *)
(* share no state but through the server, whose part each page's module    *)
(* has; so a behaviour is one user's visit to one of them, of any length,  *)
(* and a property is checked on the page it is about.  Pages that do share *)
(* state (the list and the form that creates what it lists, in Library)    *)
(* are one visit.                                                          *)
(***************************************************************************)
EXTENDS Library, Search, CreateForm, Editing, MapView, AddSignal, Chart, ColorScheme,
        Autocomplete, CloudPage

VARIABLE visited     \* the page

browsingVars == <<visited, libraryVars, searchVars, formVars, editingVars,
                  mapVars, signalVars, chartVars, schemeVars, boxVars, pageVars>>

Visits == {"library", "search", "create", "detail", "map", "signals", "chart",
           "colours", "box", "cloud"}

\* A step of the page that is visited.
Visit(page, move, others) == visited = page /\ move /\ UNCHANGED <<visited, others>>

OffLibrary == <<searchVars, formVars, editingVars, mapVars, signalVars,
  chartVars, schemeVars, boxVars, pageVars>>
OffSearch == <<libraryVars, formVars, editingVars, mapVars, signalVars,
  chartVars, schemeVars, boxVars, pageVars>>
OffCreate == <<libraryVars, searchVars, editingVars, mapVars, signalVars,
  chartVars, schemeVars, boxVars, pageVars>>
OffDetail == <<libraryVars, searchVars, formVars, mapVars, signalVars,
  chartVars, schemeVars, boxVars, pageVars>>
OffMap == <<libraryVars, searchVars, formVars, editingVars, signalVars,
  chartVars, schemeVars, boxVars, pageVars>>
OffSignals == <<libraryVars, searchVars, formVars, editingVars, mapVars,
  chartVars, schemeVars, boxVars, pageVars>>
OffChart == <<libraryVars, searchVars, formVars, editingVars, mapVars,
  signalVars, schemeVars, boxVars, pageVars>>
OffColours == <<libraryVars, searchVars, formVars, editingVars, mapVars,
  signalVars, chartVars, boxVars, pageVars>>
OffBox == <<libraryVars, searchVars, formVars, editingVars, mapVars, signalVars,
  chartVars, schemeVars, pageVars>>
OffCloud == <<libraryVars, searchVars, formVars, editingVars, mapVars,
  signalVars, chartVars, schemeVars, boxVars>>

Init ==
  /\ visited \in Visits
  /\ LibraryInit /\ SearchInit /\ FormInit /\ EditingInit /\ MapInit /\ SignalInit /\ ChartInit
  /\ SchemeInit /\ BoxInit /\ CloudPageInit

Next ==
  \/ Visit("library", LibraryNext, OffLibrary)
  \/ Visit("search", SearchNext, OffSearch)
  \/ Visit("create", FormNext, OffCreate)
  \/ Visit("detail", EditingNext, OffDetail)
  \/ Visit("map", MapNext, OffMap)
  \/ Visit("signals", SignalNext, OffSignals)
  \/ Visit("chart", ChartNext, OffChart)
  \/ Visit("colours", SchemeNext, OffColours)
  \/ Visit("box", BoxNext, OffBox)
  \/ Visit("cloud", CloudPageNext, OffCloud)

\* The effects of a commit.
Effects ==
  \/ Visit("library", LibraryEffects, OffLibrary)
  \/ Visit("search", RunFindEffects, OffSearch)
  \/ Visit("detail", EditingEffects, OffDetail)
  \/ Visit("map", MapEffects, OffMap)

\* The answers pages wait for, and the timer of a cloud.
Answers ==
  \/ Visit("library", LibraryAnswers, OffLibrary)
  \/ Visit("search", SearchAnswers, OffSearch)
  \/ Visit("detail", EditingAnswers, OffDetail)
  \/ Visit("map", KeyAnswers, OffMap)
  \/ Visit("chart", ChartAnswers, OffChart)
  \/ Visit("cloud", Ticks, OffCloud)

\* React runs the effects of a commit; an answer, or a tick, is an event of its
\* own, which the browser takes in the end however busy the user is.  The user
\* need do nothing.
Fairness == WF_browsingVars(Effects) /\ SF_browsingVars(Answers)

Spec == Init /\ [][Next]_browsingVars /\ Fairness

\* What says that it is loading, or has yet to draw its map or its chart; a page
\* may load on when a request failed or was overtaken, unless it handles that.
Loading ==
  \/ list # Off /\ list.loading
  \/ find # Off /\ find.loading /\ findAsked # <<>> /\ ~findDisturbed
  \/ detail # Off /\ ops.isLoading
  \/ map # Off /\ ~map.map
  \/ chart # Off /\ graph = NoGraph /\ ~late
  \/ loading

\* No page loads for ever: whenever one loads, it has loaded later.
PagesAreShown == []<>~Loading

\* What is found, in a list of Amphorae or under a box that completes what is
\* typed, is of what was last asked for.
FoundIsAsked == FoundIsSearched /\ BoxIsTrue

\* What is drawn is of what is chosen, and drawn once: the map, the chart and the
\* colours of its lines.
DrawnIsChosen == OneMapIsDrawn /\ GraphIsSelected /\ ColoursAreAsSet
==============================================================================

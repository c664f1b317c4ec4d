---------------------------- MODULE Observability ----------------------------
(***************************************************************************)
(* The views of the dashboard that follow a choice of the operator: the    *)
(* log page (pages/LogsView.tsx), the history chart                        *)
(* (components/TelemetryChart.tsx) and the hardware inspector              *)
(* (components/HardwareInspector.tsx) with the node selected on the        *)
(* dashboard page.  Each fetches for what is chosen, on every change and   *)
(* on a timer, and writes whatever answer arrives into its state.          *)
(*                                                                         *)
(* What is shown is reduced to what it was fetched for.  Time is counted   *)
(* in seconds while the log stream is on the screen, since there two       *)
(* periods meet: App refreshes the containers, and the tail starts over    *)
(* whenever they are refreshed.                                            *)
(***************************************************************************)
EXTENDS Naturals, Requests

CONSTANTS
  Containers,      \* names of the containers, and log sources
  First,           \* the first running one
  Nodes,           \* the enrolled nodes
  Local,           \* node "local-lxc"
  Reporting,       \* nodes with metrics
  Refresh,         \* period of fetchAllData (App.tsx:118)
  TailPeriod,      \* period of the auto-tail (LogsView.tsx:76)
  Timers,          \* ids of intervals; bound: intervals that exist together
  MaxChoices       \* bound: choices of the operator and failed requests

ASSUME ObservabilityAssumption ==
  /\ First \in Containers /\ Local \in Reporting /\ Reporting \subseteq Nodes
  /\ Refresh \in Nat \ {0} /\ TailPeriod \in Nat \ {0} /\ MaxChoices \in Nat
  /\ None \notin Containers \cup Nodes \cup Timers /\ Containers \cap Nodes = {}

VARIABLES
  page,            \* currentTab: "dashboard", "logs" or "other"
  logTarget,       \* the container of the last "Logs" button, never cleared
  known,           \* has the first fetchAllData answered
  log,             \* the state of LogsView
  tails,           \* the intervals of the auto-tail, each with the source it polls
  tail,            \* the interval the effect's clean-up would clear
  refreshIn,       \* seconds until App refreshes again
  arriving,        \* is a refresh in flight
  logCalls,        \* what each running fetchLogs asked for
  chart,           \* the state of TelemetryChart
  chartCalls,      \* what each running fetchHistory asked for
  node,            \* selectedTelemetryNode
  inspector,       \* the state of HardwareInspector
  lookCalls,       \* the node each running fetchLive asked for
  choices          \* what the operator has done so far

tailVars == <<tails, tail>>
logVars == <<log, tailVars, logCalls>>
clockVars == <<refreshIn, arriving>>
chartVars == <<chart, chartCalls>>
nodeVars == <<node, inspector, lookCalls>>
viewVars == <<page, logTarget, known, logVars, clockVars, chartVars, nodeVars, choices>>

Sources == Containers \cup {"host"}
Ranges == {"1h", "24h"}
(* A node chosen in the chart's list is "host" or "host:id", a node the    *)
(* page passes as initialTarget is its bare id; both ask for the same.     *)
Targets == Containers \cup Nodes
Histories == Targets \X Ranges

(* None is no request.                                                     *)
ASSUME ViewRequests == None \notin Sources \cup Histories

NoTail == [source |-> None, in |-> 0]
Live(t) == tails[t].source # None
ClosedLog == [tab |-> "metrics", selected |-> None, shown |-> None, auto |-> TRUE, loading |-> FALSE]
ClosedChart == [target |-> None, range |-> "1h", metric |-> "cpu", shown |-> None, loading |-> FALSE]
ChartOn == chart.target # None
LogOn == page = "logs"

ViewTypeOK ==
  /\ page \in {"dashboard", "logs", "other"} /\ logTarget \in Containers \cup {None}
  /\ known \in BOOLEAN /\ arriving \in BOOLEAN
  /\ log \in [tab : {"metrics", "logs"}, selected : Sources \cup {None},
              shown : Sources \cup {None}, auto : BOOLEAN, loading : BOOLEAN]
  /\ tails \in [Timers -> [source : Sources \cup {None}, in : 0 .. TailPeriod]]
  /\ tail \in Timers \cup {None} /\ refreshIn \in 1 .. Refresh
  /\ logCalls \in [Calls -> Sources \cup {None}]
  /\ chart \in [target : Targets \cup {None}, range : Ranges, metric : {"cpu", "disk"},
                shown : Histories \cup {None}, loading : BOOLEAN]
  /\ chartCalls \in [Calls -> Histories \cup {None}]
  /\ node \in Nodes /\ inspector \in [open : BOOLEAN, live : Nodes \cup {None}]
  /\ lookCalls \in [Calls -> Nodes \cup {None}]
  /\ choices \in 0 .. MaxChoices

-----------------------------------------------------------------------------
(* Requests.  A view that is taken off the screen forgets its own: setting *)
(* the state of a component that is gone changes nothing.                  *)

(* fetchHistory up to its await.                                           *)
FetchHistory(next) ==
  /\ chartCalls' \in Start(chartCalls, <<next.target, next.range>>)
  /\ chart' = [next EXCEPT !.loading = TRUE]

(* A new chart starts on its initialTarget and fetches.                    *)
MountChart(t) ==
  /\ chart' = [ClosedChart EXCEPT !.target = t, !.loading = TRUE]
  /\ chartCalls' \in Start(NoCalls, <<t, "1h">>)

UnmountChart == chart' = ClosedChart /\ chartCalls' = NoCalls

(* fetchLive up to its await, for every node it may be called with.        *)
FetchLive(n) == lookCalls' \in Start(lookCalls, n)

-----------------------------------------------------------------------------
(* The log page.  The effect of the auto-tail: the clean-up of its last    *)
(* run clears the interval that run set; if the stream is on the screen    *)
(* and not paused, a new one is set, for the source of this render.        *)

Streams(l) == l.selected # None /\ l.tab = "logs"

ClearTail == IF tail = None THEN tails ELSE [tails EXCEPT ![tail] = NoTail]

TailEffect(next) ==
  IF Streams(next) /\ next.auto
    THEN \E t \in {u \in Timers : u # tail /\ ClearTail[u] = NoTail} :
           /\ tail' = t
           /\ tails' = [ClearTail EXCEPT ![t] = [source |-> next.selected, in |-> TailPeriod]]
    ELSE tail' = None /\ tails' = ClearTail

(* Mutant of TailDeps: the effect does not depend on the source.           *)
TailDepsWithoutSource(l) == <<l.auto, l.tab, l.selected = None>>

(* What the effect depends on, besides the containers.                     *)
TailDeps(l) == <<l.auto, l.selected, l.tab>>

(* A render with the state "next" and its effects; "fresh" if it comes     *)
(* with new containers. A change of the source or the tab fetches.         *)
Render(old, next, fresh) ==
  /\ IF fresh \/ TailDeps(next) # TailDeps(old) THEN TailEffect(next) ELSE UNCHANGED tailVars
  /\ IF Streams(next) /\ <<next.selected, next.tab>> # <<old.selected, old.tab>>
       THEN /\ log' = [next EXCEPT !.loading = TRUE]
            /\ logCalls' \in Start(logCalls, next.selected)
       ELSE log' = next /\ UNCHANGED logCalls
  /\ IF next.tab = old.tab THEN UNCHANGED chartVars
     ELSE IF next.tab = "metrics" THEN MountChart(Local) ELSE UnmountChart

(* The effect on initialSource and the containers: a container that was    *)
(* asked for by a "Logs" button is selected again at every refresh.        *)
Reconciled(target) ==
  CASE target # None -> [log EXCEPT !.selected = target, !.tab = "logs"]
    [] target = None /\ log.selected = None -> [log EXCEPT !.selected = First]
    [] OTHER -> log

Choose ==
  /\ choices < MaxChoices /\ choices' = choices + 1

(* The tabs of the page, its source list and the tail switch.              *)
LogChoice ==
  /\ Choose /\ LogOn
  /\ \/ \E t \in {"metrics", "logs"} \ {log.tab} : Render(log, [log EXCEPT !.tab = t], FALSE)
     \/ /\ log.tab = "logs"
        /\ \/ \E s \in Sources \ {log.selected} : Render(log, [log EXCEPT !.selected = s], FALSE)
           \/ Render(log, [log EXCEPT !.auto = ~@], FALSE)
  /\ UNCHANGED <<page, logTarget, known, clockVars, nodeVars>>

(* The refresh button: fetchLogs without the spinner.                      *)
RefreshLogs ==
  /\ Choose /\ LogOn /\ Streams(log)
  /\ logCalls' \in Start(logCalls, log.selected)
  /\ UNCHANGED <<page, logTarget, known, log, tailVars, clockVars, chartVars, nodeVars>>

(* An answer of fetchLogs, whatever is selected by now.                    *)
LogsAnswer(c) ==
  /\ logCalls[c] # None
  /\ logCalls' = [logCalls EXCEPT ![c] = None]
  /\ log' = [log EXCEPT !.shown = logCalls[c], !.loading = FALSE]
  /\ UNCHANGED <<page, logTarget, known, tailVars, clockVars, chartVars, nodeVars, choices>>

LogsFail(c) ==
  /\ Choose /\ logCalls[c] # None
  /\ logCalls' = [logCalls EXCEPT ![c] = None]
  /\ log' = [log EXCEPT !.loading = FALSE]
  /\ UNCHANGED <<page, logTarget, known, tailVars, clockVars, chartVars, nodeVars>>

(* A second passes on the log stream; an interval that is due goes first.  *)
Tick ==
  /\ LogOn /\ Streams(log)
  /\ \A t \in Timers : Live(t) => tails[t].in > 0
  /\ tails' = [t \in Timers |-> IF Live(t) THEN [tails[t] EXCEPT !.in = @ - 1] ELSE tails[t]]
  /\ refreshIn' = IF refreshIn = 1 THEN Refresh ELSE refreshIn - 1
  /\ arriving' = (arriving \/ refreshIn = 1)
  /\ UNCHANGED <<page, logTarget, known, log, tail, logCalls, chartVars, nodeVars, choices>>

(* An interval goes off: fetchLogs for the source it was set for.          *)
TailFires(t) ==
  /\ Live(t) /\ tails[t].in = 0
  /\ tails' = [tails EXCEPT ![t].in = TailPeriod]
  /\ logCalls' \in Start(logCalls, tails[t].source)
  /\ UNCHANGED <<page, logTarget, known, log, tail, clockVars, chartVars, nodeVars, choices>>

(* A refresh of App answers: a new array of containers is rendered.        *)
ContainersArrive ==
  /\ arriving \/ ~known
  /\ known' = TRUE /\ arriving' = FALSE
  /\ IF LogOn THEN Render(log, Reconciled(logTarget), TRUE)
              ELSE UNCHANGED <<logVars, chartVars>>
  /\ UNCHANGED <<page, logTarget, refreshIn, nodeVars, choices>>

-----------------------------------------------------------------------------
(* The chart.                                                              *)

IsContainer(t) == t \in Containers

(* The buttons of the four metrics: none for the disk of a container.      *)
MetricChoices == IF IsContainer(chart.target) THEN {"cpu"} ELSE {"cpu", "disk"}

ChartChoice ==
  /\ Choose /\ ChartOn
  /\ \/ \E t \in Targets \ {chart.target} : FetchHistory([chart EXCEPT !.target = t])
     \/ \E r \in Ranges \ {chart.range} : FetchHistory([chart EXCEPT !.range = r])
     \/ /\ \E m \in MetricChoices \ {chart.metric} : chart' = [chart EXCEPT !.metric = m]
        /\ UNCHANGED chartCalls
  /\ UNCHANGED <<page, logTarget, known, logVars, clockVars, nodeVars>>

(* Mutant of PollHistory: the interval keeps the range it was set up with. *)
PollFirstRange ==
  /\ ChartOn /\ chart' = [chart EXCEPT !.loading = TRUE]
  /\ chartCalls' \in Start(chartCalls, <<chart.target, "1h">>)
  /\ UNCHANGED <<page, logTarget, known, logVars, clockVars, nodeVars, choices>>

(* The 15-second interval, and the refresh button.                         *)
PollHistory ==
  /\ ChartOn /\ FetchHistory(chart)
  /\ UNCHANGED <<page, logTarget, known, logVars, clockVars, nodeVars, choices>>

(* An answer of fetchHistory, or a failure of it.                          *)
HistoryAnswer(c) ==
  /\ chartCalls[c] # None
  /\ chartCalls' = [chartCalls EXCEPT ![c] = None]
  /\ chart' = [chart EXCEPT !.shown = chartCalls[c], !.loading = FALSE]
  /\ UNCHANGED <<page, logTarget, known, logVars, clockVars, nodeVars, choices>>

(* Mutant of HistoryFails: the spinner is reset after an answer only.      *)
HistoryFailsKeepsSpinner(c) ==
  /\ Choose /\ chartCalls[c] # None
  /\ chartCalls' = [chartCalls EXCEPT ![c] = None]
  /\ UNCHANGED <<page, logTarget, known, logVars, clockVars, chart, nodeVars>>

HistoryFails(c) ==
  /\ Choose /\ chartCalls[c] # None
  /\ chartCalls' = [chartCalls EXCEPT ![c] = None]
  /\ chart' = [chart EXCEPT !.loading = FALSE]
  /\ UNCHANGED <<page, logTarget, known, logVars, clockVars, nodeVars>>

-----------------------------------------------------------------------------
(* The selected node of the dashboard page and its inspector.              *)

(* Mutant of ActiveMetrics: a node without metrics gives undefined.        *)
ActiveMetricsUndefined(n) == IF n \in Reporting THEN n ELSE "undefined"

ActiveMetrics(n) == IF n \in Reporting THEN n ELSE None

(* Another node: the inspector, closed, is given its metrics.              *)
SelectNode(n) ==
  /\ Choose /\ page = "dashboard" /\ ~inspector.open
  /\ node' = n
  /\ inspector' = IF ActiveMetrics(n) = ActiveMetrics(node) THEN inspector
                  ELSE [inspector EXCEPT !.live = ActiveMetrics(n)]
  /\ UNCHANGED <<page, logTarget, known, logVars, clockVars, chartVars, lookCalls>>

(* The button is there when the node has metrics; the effect fetches.      *)
OpenInspector ==
  /\ Choose /\ page = "dashboard" /\ ~inspector.open /\ ActiveMetrics(node) # None
  /\ inspector' = [inspector EXCEPT !.open = TRUE]
  /\ FetchLive(node)
  /\ UNCHANGED <<page, logTarget, known, logVars, clockVars, chartVars, node>>

(* What is on the screen is titled with the node and shows live's numbers. *)
InspectorShown == inspector.open /\ inspector.live # None

(* The cross, Escape, or a click beside it.                                *)
CloseInspector ==
  /\ Choose /\ inspector.open
  /\ inspector' = [inspector EXCEPT !.open = FALSE]
  /\ UNCHANGED <<page, logTarget, known, logVars, clockVars, chartVars, node, lookCalls>>

(* The 1-second interval of an open inspector.                             *)
PollLive ==
  /\ inspector.open /\ FetchLive(node)
  /\ UNCHANGED <<page, logTarget, known, logVars, clockVars, chartVars, node, inspector, choices>>

(* An answer of fetchLive; one without metrics is ignored.                 *)
LiveAnswer(c) ==
  /\ lookCalls[c] # None
  /\ lookCalls' = [lookCalls EXCEPT ![c] = None]
  /\ inspector' = IF lookCalls[c] \in Reporting
                    THEN [inspector EXCEPT !.live = lookCalls[c]] ELSE inspector
  /\ UNCHANGED <<page, logTarget, known, logVars, clockVars, chartVars, node, choices>>

(* App has new metrics of the selected node: the effect on initialMetrics. *)
MetricsArrive ==
  /\ page = "dashboard" /\ ActiveMetrics(node) # None
  /\ inspector' = [inspector EXCEPT !.live = ActiveMetrics(node)]
  /\ UNCHANGED <<page, logTarget, known, logVars, clockVars, chartVars, node, lookCalls, choices>>

-----------------------------------------------------------------------------
(* The pages.  Only the current one is mounted, with fresh state.          *)

MountLogs(target) ==
  /\ log' = IF target # None
              THEN [ClosedLog EXCEPT !.selected = target, !.tab = "logs", !.loading = TRUE]
              ELSE [ClosedLog EXCEPT !.selected = IF known THEN First ELSE None]
  /\ TailEffect(log')
  /\ logCalls' \in IF target # None THEN Start(NoCalls, target) ELSE {NoCalls}
  /\ IF target # None THEN UnmountChart ELSE MountChart(Local)

(* Taking it off the screen runs the clean-up.                             *)
CloseLogs == log' = ClosedLog /\ tail' = None /\ tails' = ClearTail /\ logCalls' = NoCalls

(* The navigation.  The dashboard starts on the local node.                *)
Go(p) ==
  /\ Choose /\ p # page /\ page' = p
  /\ IF p = "logs" THEN MountLogs(logTarget)
     ELSE CloseLogs /\ IF p = "dashboard" THEN MountChart(Local) ELSE UnmountChart
  /\ node' = Local
  /\ \E m \in {None} \cup (IF p = "dashboard" THEN {Local} ELSE {}) :
       inspector' = [open |-> FALSE, live |-> m]
  /\ lookCalls' = NoCalls
  /\ UNCHANGED <<logTarget, known, clockVars>>

(* handleOpenLogs, from a container on another page or in the palette.     *)
OpenLogs(c) ==
  /\ Choose
  /\ logTarget' = c /\ page' = "logs"
  /\ IF LogOn
       THEN \* only a change of initialSource runs the effect
            IF c # logTarget THEN Render(log, Reconciled(c), FALSE) ELSE UNCHANGED <<logVars, chartVars>>
       ELSE MountLogs(c)
  /\ node' = Local /\ inspector' = [open |-> FALSE, live |-> None] /\ lookCalls' = NoCalls
  /\ UNCHANGED <<known, clockVars>>

(* The chart widget is switched off and on: it starts again on the node    *)
(* that is selected now.                                                   *)
ToggleChart ==
  /\ Choose /\ page = "dashboard"
  /\ IF ChartOn THEN UnmountChart ELSE MountChart(node)
  /\ UNCHANGED <<page, logTarget, known, logVars, clockVars, nodeVars>>

ViewInit ==
  /\ page = "dashboard" /\ logTarget = None /\ known = FALSE
  /\ log = ClosedLog /\ logCalls = NoCalls
  /\ tails = [t \in Timers |-> NoTail] /\ tail = None
  /\ refreshIn = Refresh /\ arriving = FALSE
  /\ chart = [ClosedChart EXCEPT !.target = Local, !.loading = TRUE]
  /\ chartCalls \in Start(NoCalls, <<Local, "1h">>)
  /\ node = Local /\ inspector = [open |-> FALSE, live |-> None] /\ lookCalls = NoCalls
  /\ choices = 0

ViewNext ==
  \/ LogChoice \/ RefreshLogs \/ Tick \/ ContainersArrive
  \/ ChartChoice \/ PollHistory \/ ToggleChart
  \/ OpenInspector \/ CloseInspector \/ PollLive \/ MetricsArrive
  \/ \E c \in Calls : \/ LogsAnswer(c) \/ LogsFail(c)
                      \/ HistoryAnswer(c) \/ HistoryFails(c) \/ LiveAnswer(c)
  \/ \E t \in Timers : TailFires(t)
  \/ \E n \in Nodes : SelectNode(n)
  \/ \E p \in {"dashboard", "logs", "other"} : Go(p)
  \/ \E c \in Containers : OpenLogs(c)

ViewSpec == ViewInit /\ [][ViewNext]_viewVars

(* The timers go off, the server answers, time passes.                     *)
Fairness ==
  /\ WF_viewVars(Tick) /\ WF_viewVars(ContainersArrive)
  /\ SF_viewVars(PollHistory) /\ SF_viewVars(PollLive) /\ WF_viewVars(MetricsArrive)
  /\ \A t \in Timers : WF_viewVars(TailFires(t))
  /\ \A c \in Calls : /\ WF_viewVars(LogsAnswer(c)) /\ WF_viewVars(HistoryAnswer(c))
                       /\ WF_viewVars(LiveAnswer(c))

FairSpec == ViewSpec /\ Fairness

-----------------------------------------------------------------------------
(* While the stream is on the screen and not paused, exactly one interval  *)
(* exists and it polls the source that is selected now; otherwise there is *)
(* none. None piles up when the effect starts over, none survives the page,*)
(* none polls an earlier choice (LogsView.tsx:72-78).                      *)
Streaming == LogOn /\ Streams(log) /\ log.auto

OneTailTimer ==
  IF Streaming
    THEN \E t \in Timers : /\ tails[t].source = log.selected
                           /\ \A u \in Timers \ {t} : ~Live(u)
    ELSE \A t \in Timers : ~Live(t)

(* Not so, under "Live auto-tail polling interval" (LogsView.tsx:71) and   *)
(* the label "LIVE STREAMING" (LogsView.tsx:252): a stream that stays on   *)
(* is polled again and again. Every refresh of App starts the 3 seconds    *)
(* over, and App refreshes every 2.                                        *)
LiveStreaming == <>[]Streaming => []<><<\E t \in Timers : TailFires(t)>>_viewVars

(* No spinner turns for nothing: while one does, a request is under way    *)
(* that will stop it, however the choices, the timers and the page changed *)
(* since it was sent (LogsView.tsx:48-69, TelemetryChart.tsx:52-79).       *)
SpinnersEnd ==
  /\ log.loading => \E c \in Calls : logCalls[c] # None
  /\ chart.loading => \E c \in Calls : chartCalls[c] # None

(* Not so: a refresh leaves the source and the tab the operator chose      *)
(* alone, as "default source" (LogsView.tsx:26) and the name initialSource *)
(* say. After a "Logs" button each refresh goes back to its container.     *)
ChoiceKept ==
  [][LogOn /\ LogOn' /\ log.selected # None /\ choices' = choices
       => log'.selected = log.selected /\ log'.tab = log.tab]_viewVars

(* Late answers for an earlier choice do not stay: in the end the chart    *)
(* shows the history of its target and range (TelemetryChart.tsx:75-79)    *)
(* and an open inspector the node it is titled with                        *)
(* (HardwareInspector.tsx:30-56).                                          *)
ViewsSettle ==
  /\ <>[](ChartOn => chart.shown = <<chart.target, chart.range>>)
  /\ <>[](InspectorShown => inspector.live = node)
=============================================================================

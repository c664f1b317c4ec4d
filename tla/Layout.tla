-------------------------------- MODULE Layout --------------------------------
(***************************************************************************)
(* The layout of the overview page (pages/Dashboard.tsx): presets of       *)
(* widgets and the columns of the container table.  Each browser tab reads *)
(* them from the local storage when it shows the page and writes them back *)
(* in effects after they changed; the tabs share the storage, and the last *)
(* to write wins.                                                          *)
(***************************************************************************)
EXTENDS Naturals, Sequences

CONSTANTS
  Tabs,            \* browser tabs
  Widgets,         \* the widgets, "container_table" among them
  Presets,         \* DEFAULT_PRESETS: a sequence of presets
  Customs,         \* ids for presets of users, one for each moment
  Columns,         \* columns of the table
  DefaultColumns,  \* DEFAULT_COLUMNS
  InitialWidgets,  \* the widgets ticked in the form for a new preset
  FallbackWidgets, \* those of a new preset for which none is ticked
  MaxChanges,      \* bound: presets chosen or changed, and columns
  MaxFaults,       \* bound: writes the storage refuses
  None

Preset(id, custom, widgets) == [id |-> id, isCustom |-> custom, widgets |-> widgets]
IdsOf(presets) == {presets[i].id : i \in DOMAIN presets}
DefaultIds == IdsOf(Presets)
First == Presets[1].id

ASSUME LayoutAssumption ==
  /\ Presets \in Seq([id : DefaultIds, isCustom : {FALSE}, widgets : SUBSET Widgets])
  /\ Presets # <<>> /\ DefaultIds \cap Customs = {} /\ None \notin Tabs \cup DefaultIds \cup Customs
  /\ DefaultColumns \subseteq Columns /\ DefaultColumns # {}
  /\ InitialWidgets \subseteq Widgets /\ FallbackWidgets \subseteq Widgets
  /\ MaxFaults \in Nat /\ MaxChanges \in Nat

VARIABLES
  stored,          \* local storage: presets (<<>> if missing), active (None), columns ({})
  page,            \* [tab -> the state of its Dashboard]
  writer,          \* history: the tab whose write of the presets was the last
  known,           \* history: [tab -> the presets it has had since it was mounted]
  removed,         \* history: [tab -> those its operator has removed]
  used,            \* the ids that have been given to new presets
  changes,
  faults

vars == <<stored, page, writer, known, removed, used, changes, faults>>

PresetLists ==
  Seq([id : DefaultIds \cup Customs, isCustom : BOOLEAN, widgets : SUBSET Widgets])
Pages ==
  [mounted : BOOLEAN, presets : PresetLists, active : DefaultIds \cup Customs,
   columns : SUBSET Columns, unsaved : SUBSET {"presets", "columns"},
   modal : {None, "presets", "customize", "new"}, ticked : SUBSET Widgets]

TypeOK ==
  /\ stored \in [presets : PresetLists, active : DefaultIds \cup Customs \cup {None},
                 columns : SUBSET Columns]
  /\ page \in [Tabs -> Pages] /\ writer \in Tabs \cup {None}
  /\ known \in [Tabs -> SUBSET Customs] /\ removed \in [Tabs -> SUBSET Customs]
  /\ used \subseteq Customs /\ changes \in 0 .. MaxChanges /\ faults \in 0 .. MaxFaults
  /\ \A t \in Tabs : page[t].mounted => page[t].presets # <<>> /\ page[t].columns # {}

Unmounted ==
  [mounted |-> FALSE, presets |-> Presets, active |-> First, columns |-> DefaultColumns,
   unsaved |-> {}, modal |-> None, ticked |-> InitialWidgets]

Init ==
  /\ stored = [presets |-> <<>>, active |-> None, columns |-> {}]
  /\ page = [t \in Tabs |-> Unmounted]
  /\ writer = None /\ known = [t \in Tabs |-> {}] /\ removed = [t \in Tabs |-> {}]
  /\ used = {} /\ changes = 0 /\ faults = 0

-----------------------------------------------------------------------------
(* Showing and leaving the page, and its effects.                          *)

(* The state a new Dashboard starts with: what is stored, or the defaults. *)
LoadPresets == IF stored.presets = <<>> THEN Presets ELSE stored.presets
LoadActive == IF stored.active = None THEN First ELSE stored.active
LoadColumns == IF stored.columns = {} THEN DefaultColumns ELSE stored.columns

(* A new Dashboard; its effects are due.                                   *)
Mount(t) ==
  /\ ~page[t].mounted
  /\ page' = [page EXCEPT ![t] =
       [Unmounted EXCEPT !.mounted = TRUE, !.presets = LoadPresets, !.active = LoadActive,
                         !.columns = LoadColumns, !.unsaved = {"presets", "columns"}]]
  /\ known' = [known EXCEPT ![t] = IdsOf(LoadPresets) \cap Customs]
  /\ removed' = [removed EXCEPT ![t] = {}]
  /\ UNCHANGED <<stored, writer, used, changes, faults>>

(* Effects run before the next event of the tab is handled.                *)
Ready(t) == page[t].mounted /\ page[t].unsaved = {}

(* Another page is shown, or the tab is closed.                            *)
Unmount(t) ==
  /\ Ready(t)
  /\ page' = [page EXCEPT ![t] = Unmounted]
  /\ known' = [known EXCEPT ![t] = {}] /\ removed' = [removed EXCEPT ![t] = {}]
  /\ writer' = IF writer = t THEN None ELSE writer
  /\ UNCHANGED <<stored, used, changes, faults>>

(* The effect on [presets, activePresetId].  The first or the second write *)
(* may be refused, which is ignored.                                       *)
SavePresets(t) ==
  /\ "presets" \in page[t].unsaved
  /\ page' = [page EXCEPT ![t].unsaved = @ \ {"presets"}]
  /\ \/ /\ stored' = [stored EXCEPT !.presets = page[t].presets, !.active = page[t].active]
        /\ writer' = t /\ UNCHANGED faults
     \/ /\ faults < MaxFaults /\ faults' = faults + 1 /\ writer' = None
        /\ stored' \in {stored, [stored EXCEPT !.presets = page[t].presets]}
  /\ UNCHANGED <<known, removed, used, changes>>

(* The effect on [visibleColumns].                                         *)
SaveColumns(t) ==
  /\ "columns" \in page[t].unsaved
  /\ page' = [page EXCEPT ![t].unsaved = @ \ {"columns"}]
  /\ stored' = [stored EXCEPT !.columns = page[t].columns]
  /\ UNCHANGED <<writer, known, removed, used, changes, faults>>

Changing == changes < MaxChanges /\ changes' = changes + 1

-----------------------------------------------------------------------------
(* Presets.                                                                *)

(* The preset shown: the active one, or the first if there is none.        *)
ActivePreset(t) ==
  LET found == {i \in DOMAIN page[t].presets : page[t].presets[i].id = page[t].active} IN
    IF found = {} THEN page[t].presets[1]
    ELSE page[t].presets[CHOOSE i \in found : \A j \in found : i <= j]

(* Mutant of Change: the presets are missing in the dependencies.          *)
ChangeOfActive(t, presets, active, modal) ==
  page' = [page EXCEPT ![t].presets = presets, ![t].active = active, ![t].modal = modal,
                       ![t].unsaved = IF active # page[t].active THEN @ \cup {"presets"} ELSE @]

(* New presets, a new choice, another modal; the effect is due if one of   *)
(* its dependencies is another.                                            *)
Change(t, presets, active, modal) ==
  page' = [page EXCEPT ![t].presets = presets, ![t].active = active, ![t].modal = modal,
                       ![t].unsaved = IF presets # page[t].presets \/ active # page[t].active
                                        THEN @ \cup {"presets"} ELSE @]

(* The buttons of the toolbar and of the modals that only open and close.  *)
SetModal(t, modal) ==
  /\ Ready(t) /\ page[t].modal # modal
  /\ IF modal = "new" THEN page[t].modal = "presets"
     ELSE modal # None => page[t].modal = None
  /\ page' = [page EXCEPT ![t].modal = modal]
  /\ UNCHANGED <<stored, writer, known, removed, used, changes, faults>>

SelectPreset(t, id) ==
  /\ Ready(t) /\ Changing /\ page[t].modal = "presets" /\ id \in IdsOf(page[t].presets)
  /\ Change(t, page[t].presets, id, None)
  /\ UNCHANGED <<stored, writer, known, removed, used, faults>>

Toggled(S, x) == IF x \in S THEN S \ {x} ELSE S \cup {x}

(* handleToggleWidgetInActivePreset.                                       *)
ToggleWidget(t, w) ==
  /\ Ready(t) /\ Changing /\ page[t].modal = "customize"
  /\ LET shown == ActivePreset(t).id
         change(p) == IF p.id = shown THEN [p EXCEPT !.widgets = Toggled(@, w)] ELSE p
     IN Change(t, [i \in DOMAIN page[t].presets |-> change(page[t].presets[i])],
               page[t].active, "customize")
  /\ UNCHANGED <<stored, writer, known, removed, used, faults>>

(* The boxes of the form for a new preset.                                 *)
TickWidget(t, w) ==
  /\ Ready(t) /\ Changing /\ page[t].modal = "new"
  /\ page' = [page EXCEPT ![t].ticked = Toggled(@, w)]
  /\ UNCHANGED <<stored, writer, known, removed, used, faults>>

(* Mutant of CreatePreset: the new preset is added to the built-in ones.   *)
CreateBesideDefaults(t, id) ==
  /\ Ready(t) /\ Changing /\ page[t].modal = "new" /\ id \notin used
  /\ LET widgets == IF page[t].ticked = {} THEN FallbackWidgets ELSE page[t].ticked IN
       Change(t, Append(Presets, Preset(id, TRUE, widgets)), id, None)
  /\ used' = used \cup {id} /\ known' = [known EXCEPT ![t] = @ \cup {id}]
  /\ UNCHANGED <<stored, writer, removed, faults>>

(* handleCreatePreset.                                                     *)
CreatePreset(t, id) ==
  /\ Ready(t) /\ Changing /\ page[t].modal = "new" /\ id \notin used
  /\ LET widgets == IF page[t].ticked = {} THEN FallbackWidgets ELSE page[t].ticked IN
       Change(t, Append(page[t].presets, Preset(id, TRUE, widgets)), id, None)
  /\ used' = used \cup {id} /\ known' = [known EXCEPT ![t] = @ \cup {id}]
  /\ UNCHANGED <<stored, writer, removed, faults>>

(* presets.filter(p => p.id !== id).                                       *)
Without(presets, id) ==
  LET f[n \in 0 .. Len(presets)] ==
        IF n = 0 THEN <<>>
        ELSE IF presets[n].id = id THEN f[n - 1] ELSE Append(f[n - 1], presets[n])
  IN f[Len(presets)]

(* The button of the customizing modal, and handleDeletePreset.            *)
DeletePreset(t) ==
  /\ Ready(t) /\ Changing /\ page[t].modal = "customize" /\ ActivePreset(t).isCustom
  /\ LET id == ActivePreset(t).id IN
       /\ Change(t, Without(page[t].presets, id),
                 IF page[t].active = id THEN First ELSE page[t].active, "customize")
       /\ removed' = [removed EXCEPT ![t] = @ \cup {id}]
  /\ UNCHANGED <<stored, writer, known, used, faults>>

(* handleResetToDefaults.                                                  *)
ResetToDefaults(t) ==
  /\ Ready(t) /\ Changing /\ page[t].modal = "customize" /\ ~ActivePreset(t).isCustom
  /\ Change(t, Presets, First, None)
  /\ removed' = [removed EXCEPT ![t] = @ \cup (IdsOf(page[t].presets) \ DefaultIds)]
  /\ UNCHANGED <<stored, writer, known, used, faults>>

(* Mutant of ToggleColumn: the last column may go.                         *)
ToggleAnyColumn(t, c) ==
  /\ Ready(t) /\ Changing /\ page[t].modal = None /\ "container_table" \in ActivePreset(t).widgets
  /\ page' = [page EXCEPT ![t].columns = Toggled(@, c), ![t].unsaved = @ \cup {"columns"}]
  /\ UNCHANGED <<stored, writer, known, removed, used, faults>>

(* toggleColumn: the last column stays.                                    *)
ToggleColumn(t, c) ==
  /\ Ready(t) /\ Changing /\ page[t].modal = None /\ "container_table" \in ActivePreset(t).widgets
  /\ page[t].columns # {c}
  /\ page' = [page EXCEPT ![t].columns = Toggled(@, c), ![t].unsaved = @ \cup {"columns"}]
  /\ UNCHANGED <<stored, writer, known, removed, used, faults>>

-----------------------------------------------------------------------------
Next == \E t \in Tabs :
  \/ Mount(t) \/ Unmount(t) \/ SavePresets(t) \/ SaveColumns(t)
  \/ DeletePreset(t) \/ ResetToDefaults(t)
  \/ \E modal \in {None, "presets", "customize", "new"} : SetModal(t, modal)
  \/ \E id \in DefaultIds \cup Customs : SelectPreset(t, id)
  \/ \E w \in Widgets : ToggleWidget(t, w) \/ TickWidget(t, w)
  \/ \E id \in Customs : CreatePreset(t, id)
  \/ \E c \in Columns : ToggleColumn(t, c)

Spec == Init /\ [][Next]_vars

-----------------------------------------------------------------------------
(* What is stored is what the tab that wrote last shows, as long as its    *)
(* effect is not due: no change misses its effect (Dashboard.tsx:184).     *)
StoredIsShown ==
  \A t \in Tabs :
    (writer = t /\ page[t].mounted /\ "presets" \notin page[t].unsaved)
    => stored.presets = page[t].presets /\ stored.active = page[t].active

(* A custom preset vanishes from the storage only by a tab whose operator  *)
(* removed it or that was opened before it was there and writes its older  *)
(* list over it: never by a tab that had it (Dashboard.tsx:146, 186).      *)
LostOnlyByStaleTabs ==
  [][\A t \in Tabs, id \in Customs :
       (id \in IdsOf(stored.presets) /\ id \notin IdsOf(stored'.presets) /\ SavePresets(t))
       => id \in removed[t] \/ id \notin known[t]]_vars
=============================================================================

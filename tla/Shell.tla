-------------------------------- MODULE Shell ---------------------------------
(***************************************************************************)
(* The frame of the dashboard (web/src/App.tsx, Sidebar.tsx, Header.tsx,   *)
(* CommandPalette.tsx) around the assistant's drawer: tabs, the command    *)
(* palette and the keys.  Two listeners answer Cmd+K: MainLayout toggles   *)
(* the palette and the palette itself closes, so what a press does depends *)
(* on the order of the listeners and on React rendering between them.      *)
(***************************************************************************)
EXTENDS Chat

CONSTANT Tabs      \* the pages

ASSUME ShellAssumption == "dashboard" \in Tabs

VARIABLES
  currentTab,
  isCommandPaletteOpen,
  listeners        \* the owners of the keydown listeners, in calling order

shellVars == <<currentTab, isCommandPaletteOpen, listeners>>
vars == <<chatVars, shellVars>>

TypeOK ==
  /\ ChatTypeOK
  /\ currentTab \in Tabs /\ isCommandPaletteOpen \in BOOLEAN
  /\ listeners \in {<<"palette", "app">>, <<"app", "palette">>}

(* A child's effects run before its parent's: after the first render the   *)
(* palette listens first.  Every later render of MainLayout hands it a new *)
(* onClose, so its effect subscribes again, behind MainLayout's listener.  *)
Mounted == <<"palette", "app">>
Rendered == <<"app", "palette">>

Init ==
  /\ ChatInit
  /\ currentTab = "dashboard" /\ isCommandPaletteOpen = FALSE /\ listeners = Mounted

-----------------------------------------------------------------------------
(* One keydown event.  React renders after each listener that changed the  *)
(* state; the palette's old listener is then gone, and its new one is not  *)
(* called for this event.                                                  *)

(* Mutant of SetPalette: the palette subscribes once, when it mounts. *)
SetPaletteSubscribedOnce(k, open) == [k EXCEPT !.open = open]

SetPalette(k, open) ==
  IF k.open = open THEN k ELSE [open |-> open, order |-> Rendered, gone |-> {"palette"}]

Listener(k, owner) ==
  IF owner \in k.gone THEN k
  ELSE SetPalette(k, IF owner = "app" THEN ~k.open ELSE FALSE)

AfterK ==
  LET pressed == [open |-> isCommandPaletteOpen, order |-> listeners, gone |-> {}]
  IN Listener(Listener(pressed, listeners[1]), listeners[2])

(* Cmd+K.                                                                  *)
PressK ==
  /\ isCommandPaletteOpen' = AfterK.open /\ listeners' = AfterK.order
  /\ UNCHANGED <<chatVars, currentTab>>

(* Escape, the X of the palette.                                           *)
ClosePalette ==
  /\ isCommandPaletteOpen /\ isCommandPaletteOpen' = FALSE /\ listeners' = Rendered
  /\ UNCHANGED <<chatVars, currentTab>>

(* The search button of the header.                                        *)
OpenPalette ==
  /\ ~isCommandPaletteOpen /\ isCommandPaletteOpen' = TRUE /\ listeners' = Rendered
  /\ UNCHANGED <<chatVars, currentTab>>

-----------------------------------------------------------------------------
SetOpen(open) == isOpen' = open /\ UNCHANGED <<talkVars, sizeVars>>

(* Cmd+/, and the buttons of the header, the sidebar and the menu.         *)
ToggleChat ==
  /\ SetOpen(~isOpen) /\ listeners' = Rendered
  /\ UNCHANGED <<currentTab, isCommandPaletteOpen>>

(* The X of the drawer.                                                    *)
CloseChat ==
  /\ isOpen /\ SetOpen(FALSE) /\ listeners' = Rendered
  /\ UNCHANGED <<currentTab, isCommandPaletteOpen>>

(* A page of the sidebar, the dock or the menu.                            *)
SetCurrentTab(tab) ==
  /\ currentTab' = tab /\ listeners' = IF tab = currentTab THEN listeners ELSE Rendered
  /\ UNCHANGED <<chatVars, isCommandPaletteOpen>>

(* A page, an incident or the logs of a container in the palette.          *)
NavigateFromPalette(tab) ==
  /\ isCommandPaletteOpen /\ isCommandPaletteOpen' = FALSE
  /\ currentTab' = tab /\ listeners' = Rendered
  /\ UNCHANGED chatVars

(* "Ask Ophanim AI" in the palette.                                        *)
ChatFromPalette ==
  /\ isCommandPaletteOpen /\ isCommandPaletteOpen' = FALSE
  /\ SetOpen(TRUE) /\ listeners' = Rendered
  /\ UNCHANGED currentTab

(* A poll or an event of the socket renders MainLayout.                    *)
Render == listeners' = Rendered /\ UNCHANGED <<chatVars, currentTab, isCommandPaletteOpen>>

Reload ==
  /\ ReloadChat
  /\ currentTab' = "dashboard" /\ isCommandPaletteOpen' = FALSE /\ listeners' = Mounted

-----------------------------------------------------------------------------
Next ==
  \/ ChatNext /\ UNCHANGED shellVars
  \/ PressK \/ ClosePalette \/ OpenPalette
  \/ ToggleChat \/ CloseChat \/ ChatFromPalette
  \/ \E tab \in Tabs : SetCurrentTab(tab) \/ NavigateFromPalette(tab)
  \/ Render \/ Reload

Spec == Init /\ [][Next]_vars

(* The server answers or closes the connection after its WriteTimeout of   *)
(* 30 seconds (pkg/web/server.go:186), and fetch then rejects.             *)
Fairness == WF_vars(\E c \in calls : HandleReply(c) /\ UNCHANGED shellVars)

FairSpec == Spec /\ Fairness

-----------------------------------------------------------------------------
(* A press of Cmd+K, now, opens a closed palette and closes an open one,   *)
(* whichever of the two listeners comes first (App.tsx:146-155,            *)
(* CommandPalette.tsx:42-54).                                              *)
KeyTogglesOnce == AfterK.open # isCommandPaletteOpen
===============================================================================

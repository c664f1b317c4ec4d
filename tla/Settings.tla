------------------------------- MODULE Settings -------------------------------
(***************************************************************************)
(* The settings page (pages/SettingsView.tsx) and the handler it talks to  *)
(* (handleSettings of pkg/web/server.go).  The page keeps a copy of the    *)
(* server's settings in a form; loading, discovering models, saving and    *)
(* testing a channel are requests whose answers change the form while the  *)
(* operator goes on editing it.                                            *)
(*                                                                         *)
(* A model name or an endpoint is abstracted to the provider it belongs    *)
(* to (None is a blank endpoint), the numbers to one (temperature, in      *)
(* tenths).  The models offered for selection are not kept: the operator   *)
(* picks or types one that Offered names for the provider chosen.  The     *)
(* fields of the channels are left out: they go along with a test and are  *)
(* never saved.                                                            *)
(***************************************************************************)
EXTENDS Naturals, Requests

CONSTANTS
  Providers,       \* "gemini", "claude", "openai", "mistral", "ollama", "custom"
  Editable,        \* those whose endpoint may be edited
  Fixed,           \* those whose list of models does not depend on the endpoint
  Unlisted,        \* those ListAvailableModels does not name: "custom"
  Mixture,         \* of whom it lists some models then: gemini, ollama, openai, claude
  DefaultProvider, \* "gemini", whose model comes first in that list
  Keys,            \* API keys the operator may type
  MaxEdits         \* bound: what operators do, and failed requests

DefaultTemp == 2
Temps == {0, DefaultTemp}
Channels == {"discord", "telegram"}

ASSUME SettingsAssumption ==
  /\ Editable \subseteq Providers /\ Fixed \subseteq Providers
  /\ Unlisted \subseteq Providers /\ Mixture \subseteq Providers
  /\ DefaultProvider \in Mixture /\ MaxEdits \in Nat
  /\ None \notin Keys \cup Providers /\ None # <<>>

VARIABLES
  server,          \* s.llm's configuration and the thresholds
  version,         \* history: how often they have changed
  form,            \* the fields of the page
  base,            \* history: the version the form shows, 0 if it is no longer that
  crossed,         \* history: has a list come that is not of what was chosen then
  isLoading, isSaving, isFetchingModels, testing, status,   \* page state
  load,            \* the running fetchSettings: <<>> or the answer
  queries,         \* the running calls of fetchAvailableModels
  saves,           \* the running calls of handleSave
  tests,           \* the running calls of testChatOps
  timers,          \* running timeouts that clear the message
  edits

flags == <<isLoading, isSaving, isFetchingModels, testing, status>>
requests == <<load, queries, saves, tests, timers>>
history == <<version, base, crossed>>
vars == <<server, form, flags, requests, history, edits>>

Configs == [enabled : BOOLEAN, provider : Providers, model : Providers,
            endpoint : Providers \cup {None}, key : Keys \cup {None}, temp : Temps]
Forms == [provider : Providers, model : Providers, endpoint : Providers \cup {None},
          key : Keys \cup {None}, mask : Keys \cup {None}, temp : Temps]
Payloads == [enabled : BOOLEAN, provider : Providers, model : Providers,
             endpoint : Providers \cup {None}, key : Keys \cup {None}, temp : Temps,
             base : 0 .. MaxEdits + 1]
Loads == Configs \X (1 .. MaxEdits + 1)
Queries == Providers \X (Providers \cup {None}) \X Providers
Saves == [here : BOOLEAN, at : {"sent", "saved", "refused"}, body : Payloads]

(* None is no request.                                                     *)
ASSUME SettingsRequests == None \notin Loads \cup Queries \cup Saves

TypeOK ==
  /\ server \in Configs /\ form \in Forms
  /\ version \in 1 .. MaxEdits + 1 /\ base \in 0 .. MaxEdits + 1
  /\ crossed \in BOOLEAN
  /\ isLoading \in BOOLEAN /\ isSaving \in BOOLEAN /\ isFetchingModels \in BOOLEAN
  /\ testing \in Channels \cup {None} /\ status \in {None, "success", "error"}
  /\ load \in {None, <<>>} \cup Loads
  /\ queries \in [Calls -> Queries \cup {None}]
  /\ saves \in [Calls -> Saves \cup {None}]
  /\ tests \in SUBSET Channels
  /\ timers \in 0 .. MaxEdits /\ edits \in 0 .. MaxEdits

(* The form before anything is loaded.                                     *)
EmptyForm == [provider |-> DefaultProvider, model |-> DefaultProvider, endpoint |-> None,
              key |-> None, mask |-> None, temp |-> DefaultTemp]

Init ==
  /\ server \in {s \in Configs : s.model = s.provider /\ s.endpoint \in {s.provider, None}}
  /\ version = 1 /\ crossed = FALSE
  /\ form = EmptyForm /\ base = 0 /\ testing = None /\ status = None
  /\ isLoading = TRUE /\ isSaving = FALSE /\ isFetchingModels = FALSE
  /\ load = <<>> /\ queries = NoCalls /\ saves = NoCalls /\ tests = {}
  /\ timers = 0 /\ edits = 0

Act == edits < MaxEdits /\ edits' = edits + 1

-----------------------------------------------------------------------------
(* Server.                                                                 *)

(* GET: the settings of this moment, with a mask of the key.               *)
Get ==
  /\ load = <<>>
  /\ load' = <<server, version>>
  /\ UNCHANGED <<server, form, flags, queries, saves, tests, timers, history, edits>>

(* PUT of a payload: fields that are absent or blank keep their value.     *)
Merged(body) ==
  [enabled |-> body.enabled,
   provider |-> body.provider, model |-> body.model, endpoint |-> body.endpoint,
   key |-> IF body.key = None THEN server.key ELSE body.key, temp |-> body.temp]

Store(new) ==
  /\ server' = new
  /\ version' = IF new = server THEN version ELSE version + 1

Put(c) ==
  /\ saves[c] # None /\ saves[c].at = "sent"
  /\ Store(Merged(saves[c].body))
  /\ saves' = [saves EXCEPT ![c].at = "saved"]
  /\ UNCHANGED <<form, flags, load, queries, tests, timers, base, crossed, edits>>

(* Another operator saves from another browser.                            *)
SavedElsewhere ==
  /\ Act
  /\ \E p \in Providers, t \in Temps :
       Store([server EXCEPT !.enabled = TRUE, !.provider = p, !.model = p, !.endpoint = p,
                            !.temp = t])
  /\ UNCHANGED <<form, flags, requests, base, crossed>>

-----------------------------------------------------------------------------
(* fetchSettings.                                                          *)

(* Mutant of OrDefault: the default is forgotten.                          *)
OrUndefined(x) == IF x = 0 THEN None ELSE x

(* x || d of the page: zero and nothing are replaced by the default.       *)
OrDefault(x) == IF x = 0 THEN DefaultTemp ELSE x

(* Mutant of FetchSettings: the endpoint is not taken over.                *)
FetchWithoutEndpoint ==
  /\ load \notin {None, <<>>}
  /\ LET s == load[1] IN
       /\ form' = [form EXCEPT !.provider = s.provider, !.model = s.model,
                               !.mask = s.key, !.temp = OrDefault(s.temp)]
       /\ base' = load[2]
  /\ load' = None /\ isLoading' = FALSE
  /\ UNCHANGED <<server, version, crossed, isSaving, isFetchingModels, testing,
                 status, queries, saves, tests, timers, edits>>

(* The answer fills the form.                                              *)
FetchSettings ==
  /\ load \notin {None, <<>>}
  /\ LET s == load[1] IN
       /\ form' = [form EXCEPT !.provider = s.provider, !.model = s.model, !.endpoint = s.endpoint,
                               !.mask = s.key, !.temp = OrDefault(s.temp)]
       /\ base' = load[2]
  /\ load' = None /\ isLoading' = FALSE
  /\ UNCHANGED <<server, version, crossed, isSaving, isFetchingModels, testing,
                 status, queries, saves, tests, timers, edits>>

(* It fails: the form is shown with the defaults of the page.              *)
FetchSettingsFails ==
  /\ Act /\ load # None
  /\ load' = None /\ isLoading' = FALSE
  /\ UNCHANGED <<server, form, history, isSaving, isFetchingModels, testing, status,
                 queries, saves, tests, timers>>

-----------------------------------------------------------------------------
(* Editing.  The form is on the screen once the load has ended.            *)

Shown == ~isLoading

Edit(new) == form' = new /\ base' = 0

(* The models the operator picks from for p.                               *)
Offered(p) == IF p \in Unlisted THEN Mixture \cup {p} ELSE {p}

(* A field of the llm tab: the model by hand or from the list, the         *)
(* endpoint where it is not locked, the key, the slider.                   *)
EditField ==
  /\ Shown /\ Act
  /\ \/ \E m \in Offered(form.provider) \ {form.model} : Edit([form EXCEPT !.model = m])
     \/ /\ form.provider \in Editable /\ form.endpoint # form.provider
        /\ Edit([form EXCEPT !.endpoint = form.provider])
     \/ \E k \in (Keys \cup {None}) \ {form.key} : Edit([form EXCEPT !.key = k])
     \/ \E t \in Temps \ {form.temp} : Edit([form EXCEPT !.temp = t])
  /\ UNCHANGED <<server, flags, requests, version, crossed>>

(* fetchAvailableModels up to its await, with the provider given, the      *)
(* endpoint of the form as rendered, and that form's model.                *)
FetchAvailableModels(p) ==
  /\ \E c \in Free(queries) :
       queries' = [queries EXCEPT ![c] = <<p, form.endpoint, form.model>>]
  /\ isFetchingModels' = TRUE

(* The "Query Endpoint" button.                                            *)
QueryModels ==
  /\ Shown /\ Act /\ ~isFetchingModels
  /\ FetchAvailableModels(form.provider)
  /\ UNCHANGED <<server, form, history, isLoading, isSaving, testing, status, load, saves, tests, timers>>

(* Mutant of HandleProviderChange: the model is left alone.                *)
ProviderChangeKeepsModel(p) ==
  /\ Shown /\ Act /\ p # form.provider
  /\ Edit([form EXCEPT !.provider = p, !.endpoint = p])
  /\ FetchAvailableModels(p)
  /\ UNCHANGED <<server, version, crossed, isLoading, isSaving, testing, status, load, saves, tests, timers>>

(* Another provider: its default model and its endpoint, and a query that  *)
(* still names the endpoint of the provider before.                        *)
HandleProviderChange(p) ==
  /\ Shown /\ Act /\ p # form.provider
  /\ Edit([form EXCEPT !.provider = p, !.model = p, !.endpoint = p])
  /\ FetchAvailableModels(p)
  /\ UNCHANGED <<server, version, crossed, isLoading, isSaving, testing, status, load, saves, tests, timers>>

(* ListAvailableModels: the providers whose models are listed for p at an  *)
(* endpoint; a blank one means the endpoint saved, or else p's own.  For a *)
(* provider it has no case for the list is the same mixture everywhere.    *)
ListOf(p, endpoint) ==
  IF p \in Unlisted THEN Mixture
  ELSE IF p \in Fixed THEN {p}
  ELSE IF endpoint # None THEN {endpoint}
  ELSE IF server.endpoint # None THEN {server.endpoint} ELSE {p}

(* data.models[0].                                                         *)
FirstOf(list) == IF list = Mixture THEN DefaultProvider ELSE CHOOSE p \in list : TRUE

(* The list arrives.  The model of the form when the query was sent may be *)
(* in it, if any of its provider is; if it is not, the first of the list   *)
(* is the model now.                                                       *)
ModelsArrive(c) ==
  /\ queries[c] # None
  /\ LET list == ListOf(queries[c][1], queries[c][2])
     IN /\ \/ queries[c][3] \in list /\ UNCHANGED <<form, base>>
           \/ Edit([form EXCEPT !.model = FirstOf(list)])
        /\ crossed' = (crossed \/ list # ListOf(form.provider, form.provider))
  /\ queries' = [queries EXCEPT ![c] = None] /\ isFetchingModels' = FALSE
  /\ UNCHANGED <<server, version, isLoading, isSaving, testing, status, load, saves, tests, timers, edits>>

(* No list: an error, a status or an exception leaves a notice.            *)
NoModels(c) ==
  /\ queries[c] # None
  /\ queries' = [queries EXCEPT ![c] = None] /\ isFetchingModels' = FALSE
  /\ UNCHANGED <<server, form, history, isLoading, isSaving, testing, status, load, saves, tests, timers, edits>>

-----------------------------------------------------------------------------
(* handleSave.                                                             *)

(* What the form sends: the LLM always enabled, and the fields as shown.   *)
Payload ==
  [enabled |-> TRUE, provider |-> form.provider, model |-> form.model,
   endpoint |-> form.endpoint, key |-> form.key, temp |-> form.temp, base |-> base]

(* handleSave up to its await.  A blank key is left out of the payload.    *)
HandleSave(c) ==
  /\ Shown /\ Act /\ ~isSaving /\ saves[c] = None
  /\ isSaving' = TRUE /\ status' = None
  /\ saves' = [saves EXCEPT ![c] =
       [here |-> TRUE, at |-> "sent",
        body |-> Payload]]
  /\ UNCHANGED <<server, form, history, isLoading, isFetchingModels, testing, load, queries, tests, timers>>

(* The request fails on its way, or its answer does on the way back.       *)
Refuse(c) ==
  /\ Act /\ saves[c] # None /\ saves[c].at # "refused"
  /\ saves' = [saves EXCEPT ![c].at = "refused"]
  /\ UNCHANGED <<server, form, flags, load, queries, tests, timers, history>>

(* After a save with a key: its mask is shown and the field is cleared.    *)
SavedForm(key) == IF key = None THEN form ELSE [form EXCEPT !.mask = key, !.key = None]

(* The answer, its message, and the timeout that will clear a message.     *)
SaveEnds(c) ==
  /\ saves[c] # None /\ saves[c].at # "sent"
  /\ saves' = [saves EXCEPT ![c] = None]
  /\ LET ok == saves[c].at = "saved" IN
     IF saves[c].here
       THEN /\ form' = IF ok THEN SavedForm(saves[c].body.key) ELSE form
            /\ status' = IF ok THEN "success" ELSE "error"
            /\ isSaving' = FALSE /\ timers' = timers + 1
       ELSE UNCHANGED <<form, status, isSaving, timers>>
  /\ UNCHANGED <<server, history, isLoading, isFetchingModels, testing, load, queries, tests, edits>>

(* 5 seconds after some save: whatever message there is goes.              *)
Timeout ==
  /\ timers > 0 /\ timers' = timers - 1 /\ status' = None
  /\ UNCHANGED <<server, form, history, isLoading, isSaving, isFetchingModels, testing,
                 load, queries, saves, tests, edits>>

-----------------------------------------------------------------------------
(* testChatOps: one slot for the channel that is being tested, so a test   *)
(* of the other one enables the button again (a second test of a channel   *)
(* while one runs is left out: a bound).  The result is a text.            *)

TestChatOps(ch) ==
  /\ Shown /\ Act /\ testing # ch /\ ch \notin tests
  /\ testing' = ch /\ tests' = tests \cup {ch}
  /\ UNCHANGED <<server, form, history, isLoading, isSaving, isFetchingModels, status, load, queries, saves, timers>>

TestEnds(ch) ==
  /\ ch \in tests
  /\ tests' = tests \ {ch} /\ testing' = None
  /\ UNCHANGED <<server, form, history, isLoading, isSaving, isFetchingModels, status,
                 load, queries, saves, timers, edits>>

(* Another page and back: fresh state, and fetchSettings up to its await;  *)
(* saves under way go on.                                                  *)
Remount ==
  /\ Act
  /\ form' = EmptyForm /\ base' = 0 /\ testing' = None /\ status' = None
  /\ isLoading' = TRUE /\ isSaving' = FALSE /\ isFetchingModels' = FALSE
  /\ load' = <<>> /\ queries' = NoCalls /\ tests' = {} /\ timers' = 0
  /\ saves' = [c \in Calls |-> IF saves[c] = None THEN None ELSE [saves[c] EXCEPT !.here = FALSE]]
  /\ UNCHANGED <<server, version, crossed>>

Next ==
  \/ Get \/ SavedElsewhere \/ FetchSettings \/ FetchSettingsFails
  \/ EditField \/ QueryModels \/ Timeout \/ Remount
  \/ \E p \in Providers : HandleProviderChange(p)
  \/ \E c \in Calls : \/ ModelsArrive(c) \/ NoModels(c)
                      \/ HandleSave(c) \/ Put(c) \/ Refuse(c) \/ SaveEnds(c)
  \/ \E ch \in Channels : TestChatOps(ch) \/ TestEnds(ch)

Spec == Init /\ [][Next]_vars

-----------------------------------------------------------------------------
(* Saving what was loaded and not edited, with nobody saving in between,   *)
(* stores the settings as they were but for two fields: the page enables   *)
(* the LLM (SettingsView.tsx:180), whatever the deployment chose, and it   *)
(* has replaced a zero by its default (SettingsView.tsx:84).               *)
UntouchedSaveKeepsRest ==
  [][\A c \in Calls :
       (saves[c] # None /\ Put(c) /\ saves[c].body.base = version) =>
          server' = [server EXCEPT !.enabled = TRUE, !.temp = OrDefault(@)]]_vars

(* Nothing is left behind: a spinner turns, a button is disabled or a      *)
(* message stands only while a request of this mount of the page, or a     *)
(* timeout, is under way that ends it (SettingsView.tsx:73-253).           *)
BusyEnds ==
  /\ isLoading => load # None
  /\ isFetchingModels => \E c \in Calls : queries[c] # None
  /\ isSaving => \E c \in Calls : saves[c] # None /\ saves[c].here
  /\ testing # None => testing \in tests
  /\ status # None => timers > 0

(* The model on the form is one of its provider, unless an answer listed   *)
(* models of something else than what is chosen then (SettingsView.tsx:    *)
(* 104-171), or the provider is one for which the server lists the models  *)
(* of others (agent/llm.go:530-531).                                       *)
ModelOfProvider ==
  ~crossed => form.model = form.provider \/ form.provider \in Unlisted
=============================================================================

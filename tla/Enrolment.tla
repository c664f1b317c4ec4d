------------------------------ MODULE Enrolment ------------------------------
(***************************************************************************)
(* Enrolling, editing and deleting devices: the modal that enrols one      *)
(* (components/AddDeviceModal.tsx), the page that lists them               *)
(* (pages/DevicesView.tsx), handleDevices of pkg/web/server.go and the     *)
(* devices table of pkg/storage/sqlite.go.                                 *)
(*                                                                         *)
(* A token is a head (user, realm and token id of a Proxmox API token, or  *)
(* None) and a secret, with or without the prefix PVEAPIToken= of the      *)
(* header it goes into; so is a text in a field for secrets, where a whole *)
(* token may be pasted.  A device's id is the name it was enrolled with.   *)
(***************************************************************************)
EXTENDS Naturals, FiniteSets, Requests

CONSTANTS
  Types,           \* the kinds of device with a form: "proxmox", "prometheus", ...
  Names,           \* names of devices
  Addresses,       \* addresses and URLs
  Heads,           \* user@realm!tokenid
  DefaultHead,     \* "root@pam!ophanim"
  Secrets,         \* secrets
  Padded,          \* those with a "=" in them
  Stem,            \* [padded secret -> its part before the "="]
  Pasted,          \* the whole tokens operators may paste
  MaxActs          \* bound: what the operator opens, types, copies and enrols, and failures

(* The address field of each form of the modal; "monitor" has no form.     *)
FieldOf == [openwrt |-> "endpoint", prometheus |-> "endpoint",
            proxmox |-> "url", snmp |-> "ip_address"]

ASSUME EnrolmentAssumption ==
  /\ IsFiniteSet(Calls)
  /\ Types \subseteq DOMAIN FieldOf
  /\ DefaultHead \in Heads /\ Padded \subseteq Secrets
  /\ Stem \in [Padded -> Secrets \ Padded]
  /\ Pasted \subseteq [prefix : BOOLEAN, head : Heads, secret : Secrets]
  /\ MaxActs \in Nat /\ None \notin Names \cup Addresses \cup Heads \cup Secrets

VARIABLES
  table,           \* server: [id -> the device, or None]
  born,            \* history: how often each id was inserted
  crossed,         \* history: did an edit reach a later device of the same id
  shown,           \* the devices on the page
  isOpen, tab, form, loading, copiedType,          \* AddDeviceModal
  confirmDeleteId, isDeleting,                     \* DevicesView: deleting
  editing, editForm, isSaving,                     \* DevicesView: editing
  tokenCalls,      \* running calls of fetchToken
  copies,          \* running timeouts of copyToClipboard
  adds, deletes, saves,    \* running calls of handleManualAdd, handleDelete, handleSaveEdit
  acts

serverVars == <<table, born, crossed>>
modalVars == <<isOpen, tab, form, loading, copiedType, tokenCalls, copies, adds>>
deleteVars == <<confirmDeleteId, isDeleting, deletes>>
editVars == <<editing, editForm, isSaving, saves>>
vars == <<serverVars, shown, modalVars, deleteVars, editVars, acts>>

Tabs == Types \cup {"monitor"}
Snippets == {"docker", "binary", "openwrt"}

Tokens == [prefix : BOOLEAN, head : Heads \cup {None}, secret : Secrets \cup {None}]
Bare(s) == [prefix |-> FALSE, head |-> None, secret |-> s]
NoToken == Bare(None)
Devices == [name : Names, ip_address : Addresses \cup {None}, agent_type : Types,
            enroll_token : Tokens]
Forms == [name : Names \cup {None}, url : Addresses \cup {None}, endpoint : Addresses \cup {None},
          ip_address : Addresses \cup {None}, head : Heads, secret : Tokens]
EditForms == [name : Names, ip : Addresses \cup {None}, head : Heads, secret : Tokens,
              clean : BOOLEAN]
(* What an edit sends; as history the device it was made from.             *)
Edits == [id : Names, name : Names, ip : Addresses \cup {None}, token : Tokens,
          clean : BOOLEAN, of : Devices, birth : 1 .. MaxActs + 1]
(* Running calls; "here" is that the component still waits for the answer. *)
Adds == [at : {"sent", "answered"}, dev : Devices, here : BOOLEAN]
Deletes == [at : {"sent", "answered"}, id : Names, here : BOOLEAN]
Saves == [at : {"sent", "answered"}, body : Edits, here : BOOLEAN]

(* None is no request.                                                     *)
ASSUME EnrolmentRequests == None \notin Adds \cup Deletes \cup Saves

TypeOK ==
  /\ table \in [Names -> Devices \cup {None}] /\ born \in [Names -> 0 .. MaxActs + 1]
  /\ shown \in [Names -> [dev : Devices, birth : 1 .. MaxActs + 1] \cup {None}]
  /\ crossed \in BOOLEAN /\ isOpen \in BOOLEAN /\ loading \in BOOLEAN
  /\ tab \in Tabs /\ form \in Forms /\ copiedType \in Snippets \cup {None}
  /\ confirmDeleteId \in Names \cup {None} /\ isDeleting \in BOOLEAN /\ isSaving \in BOOLEAN
  /\ editing \in [id : Names, dev : Devices, birth : 1 .. MaxActs + 1] \cup {None}
  /\ editForm \in EditForms \cup {None}
  /\ tokenCalls \in 0 .. MaxActs /\ copies \in 0 .. MaxActs
  /\ adds \in [Calls -> Adds \cup {None}]
  /\ deletes \in [Calls -> Deletes \cup {None}]
  /\ saves \in [Calls -> Saves \cup {None}]
  /\ acts \in 0 .. MaxActs

(* The devices an earlier run, or a client of the API, may have left: the  *)
(* token of a Proxmox device may be a secret alone.                        *)
Enrolled(d) ==
  {x \in Devices :
     /\ x.name = d /\ x.ip_address # None
     /\ x.agent_type = "proxmox" <=> x.enroll_token.secret # None
     /\ x.enroll_token.prefix => x.enroll_token.head # None
     /\ x.enroll_token.head # None => x.enroll_token.secret # None}

Init ==
  /\ \E S \in SUBSET Names :
       /\ table \in {t \in [Names -> UNION {Enrolled(d) : d \in Names} \cup {None}] :
                       \A d \in Names : IF d \in S THEN t[d] \in Enrolled(d) ELSE t[d] = None}
       /\ born = [d \in Names |-> IF d \in S THEN 1 ELSE 0]
  /\ crossed = FALSE
  /\ shown = [d \in Names |-> None]
  /\ isOpen = FALSE /\ tab = "monitor" /\ loading = FALSE /\ copiedType = None
  /\ form = [name |-> None, url |-> None, endpoint |-> None, ip_address |-> None,
             head |-> DefaultHead, secret |-> NoToken]
  /\ confirmDeleteId = None /\ isDeleting = FALSE
  /\ editing = None /\ editForm = None /\ isSaving = FALSE
  /\ tokenCalls = 0 /\ copies = 0 /\ adds = NoCalls /\ deletes = NoCalls /\ saves = NoCalls
  /\ acts = 0

Act == acts < MaxActs /\ acts' = acts + 1

-----------------------------------------------------------------------------
(* Tokens.                                                                 *)

(* A whole token in the field for the secret is taken as it is.            *)
Composed(head, text) ==
  IF text.head # None THEN text ELSE [Bare(text.secret) EXCEPT !.head = head]

(* Mutant of Cut: the wrong part is taken, which plain secrets do not have. *)
CutUndefined(s) == IF s \in Padded THEN Stem[s] ELSE "undefined"

(* The secret a token is split into: split('=', 2) drops what follows the  *)
(* second "=".                                                             *)
Cut(s) == IF s \in Padded THEN Stem[s] ELSE s

(* Mutant of Parsed: the head is not taken apart.                          *)
ParsedSecret(token) == [head |-> DefaultHead, secret |-> Bare(token.secret)]

(* The fields the edit form makes of a token, without its prefix.          *)
Parsed(token) ==
  IF token.head # None THEN [head |-> token.head, secret |-> Bare(Cut(token.secret))]
                       ELSE [head |-> DefaultHead, secret |-> Bare(token.secret)]

(* getAuthHeader of the scraper, which is given no user: what a token      *)
(* authenticates as.  A secret alone is one of root's token.               *)
Header(token) ==
  <<IF token.head = None /\ token.secret \in Secrets \ Padded THEN DefaultHead ELSE token.head,
    token.secret>>

-----------------------------------------------------------------------------
(* Server: handleDevices and the table.                                    *)

(* Mutant of EnrollDevice: the type is updated too.                        *)
EnrollDeviceRetypes(dev) ==
  LET id == dev.name IN
    IF table[id] = None
      THEN /\ table' = [table EXCEPT ![id] = dev]
           /\ born' = [born EXCEPT ![id] = @ + 1]
      ELSE /\ table' = [table EXCEPT ![id].name = dev.name, ![id].ip_address = dev.ip_address,
                                     ![id].agent_type = dev.agent_type]
           /\ UNCHANGED born

(* EnrollDevice: an insert, or on a conflict of ids an update of the name  *)
(* and the address alone.                                                  *)
EnrollDevice(dev) ==
  LET id == dev.name IN
    IF table[id] = None
      THEN /\ table' = [table EXCEPT ![id] = dev]
           /\ born' = [born EXCEPT ![id] = @ + 1]
      ELSE /\ table' = [table EXCEPT ![id].name = dev.name, ![id].ip_address = dev.ip_address]
           /\ UNCHANGED born

Post(c) ==
  /\ adds[c] # None /\ adds[c].at = "sent"
  /\ EnrollDevice(adds[c].dev)
  /\ adds' = [adds EXCEPT ![c].at = "answered"]
  /\ UNCHANGED <<crossed, shown, isOpen, tab, form, loading, copiedType, tokenCalls, copies,
                 deleteVars, editVars, acts>>

(* UpdateDevice: a blank token is left out; no row, no change.             *)
UpdateDevice(id, name, ip, token) ==
  table' = IF table[id] = None THEN table
           ELSE [table EXCEPT ![id].name = name, ![id].ip_address = ip,
                              ![id].enroll_token = IF token = NoToken THEN @ ELSE token]

Put(c) ==
  /\ saves[c] # None /\ saves[c].at = "sent"
  /\ LET b == saves[c].body IN
       /\ UpdateDevice(b.id, b.name, b.ip, b.token)
       /\ crossed' = (crossed \/ b.birth # born[b.id])
  /\ saves' = [saves EXCEPT ![c].at = "answered"]
  /\ UNCHANGED <<born, shown, modalVars, deleteVars, editing, editForm, isSaving, acts>>

DeleteDevice(c) ==
  /\ deletes[c] # None /\ deletes[c].at = "sent"
  /\ table' = [table EXCEPT ![deletes[c].id] = None]
  /\ deletes' = [deletes EXCEPT ![c].at = "answered"]
  /\ UNCHANGED <<born, crossed, shown, modalVars, confirmDeleteId, isDeleting, editVars, acts>>

(* An answer without the effect: an error of the database, which POST      *)
(* discards and the others answer with status 500, or an invalid request.  *)
Unstored(calls, c) ==
  /\ Act /\ calls[c] # None /\ calls[c].at = "sent"
  /\ calls' = [calls EXCEPT ![c].at = "answered"]

NotStored(c) ==
  /\ \/ Unstored(adds, c) /\ UNCHANGED <<deletes, saves>>
     \/ Unstored(deletes, c) /\ UNCHANGED <<adds, saves>>
     \/ Unstored(saves, c) /\ UNCHANGED <<adds, deletes>>
  /\ UNCHANGED <<serverVars, shown, isOpen, tab, form, loading, copiedType, tokenCalls, copies,
                 confirmDeleteId, isDeleting, editing, editForm, isSaving>>

(* A request fails for the page that waits for it.  Nothing is under way   *)
(* any more, or the server has yet to carry it out.                        *)
Failed(calls, c) ==
  /\ calls[c] # None
  /\ \/ calls' = [calls EXCEPT ![c] = None]
     \/ /\ calls[c].at = "sent" /\ calls[c].here
        /\ calls' = [calls EXCEPT ![c].here = FALSE]

(* The list, as fetchAllData brings it.                                    *)
List == [d \in Names |-> IF table[d] = None THEN None ELSE [dev |-> table[d], birth |-> born[d]]]

Refresh ==
  /\ shown' = List
  /\ UNCHANGED <<serverVars, modalVars, deleteVars, editVars, acts>>

-----------------------------------------------------------------------------
(* AddDeviceModal: always mounted, so what it holds outlives its closing.  *)

(* The button that opens it, and the effect that fetches a token.          *)
Open ==
  /\ Act /\ ~isOpen /\ editing = None /\ tokenCalls < Cardinality(Calls)
  /\ isOpen' = TRUE /\ loading' = TRUE /\ tokenCalls' = tokenCalls + 1
  /\ UNCHANGED <<serverVars, shown, tab, form, copiedType, copies, adds, deleteVars, editVars>>

FetchTokenEnds ==
  /\ tokenCalls > 0 /\ tokenCalls' = tokenCalls - 1 /\ loading' = FALSE
  /\ UNCHANGED <<serverVars, shown, isOpen, tab, form, copiedType, copies, adds, deleteVars, editVars, acts>>

Close ==
  /\ isOpen /\ isOpen' = FALSE
  /\ UNCHANGED <<serverVars, shown, tab, form, loading, copiedType, tokenCalls, copies, adds, deleteVars, editVars, acts>>

SetTab(t) ==
  /\ isOpen /\ tab # t /\ tab' = t
  /\ UNCHANGED <<serverVars, shown, isOpen, form, loading, copiedType, tokenCalls, copies, adds, deleteVars, editVars, acts>>

(* The snippets of a tab.                                                  *)
SnippetsOf(t) == CASE t = "monitor" -> {"docker", "binary"}
                   [] t = "openwrt" -> {"openwrt"}
                   [] OTHER -> {}

CopyToClipboard(type) ==
  /\ Act /\ isOpen /\ type \in SnippetsOf(tab) /\ copies < Cardinality(Calls)
  /\ copiedType' = type /\ copies' = copies + 1
  /\ UNCHANGED <<serverVars, shown, isOpen, tab, form, loading, tokenCalls, adds, deleteVars, editVars>>

(* 2 seconds after some copy: whatever is marked is marked no longer.      *)
CopyTimeout ==
  /\ copies > 0 /\ copies' = copies - 1 /\ copiedType' = None
  /\ UNCHANGED <<serverVars, shown, isOpen, tab, form, loading, tokenCalls, adds, deleteVars, editVars, acts>>

(* What may be typed where a secret goes.                                  *)
Texts == {Bare(s) : s \in Secrets} \cup Pasted

(* The fields of the form of a tab, which the other tabs do not show.  The *)
(* community of the SNMP form is left out: nothing ever reads it.          *)
Typed(new) == form' = new /\ new # form

TypeForm ==
  /\ Act /\ isOpen /\ tab \in Types
  /\ \/ \E n \in Names : Typed([form EXCEPT !.name = n])
     \/ \E a \in Addresses : Typed([form EXCEPT ![FieldOf[tab]] = a])
     \/ /\ tab = "proxmox"
        /\ \/ \E h \in Heads : Typed([form EXCEPT !.head = h])
           \/ \E t \in Texts : Typed([form EXCEPT !.secret = t])
  /\ UNCHANGED <<serverVars, shown, isOpen, tab, loading, copiedType, tokenCalls, copies, adds, deleteVars, editVars>>

(* a || b of the page.                                                     *)
Or(a, b) == IF a = None THEN b ELSE a

(* The device the form enrols: the first address that is not blank.        *)
Payload ==
  [name |-> form.name, ip_address |-> Or(form.url, Or(form.ip_address, form.endpoint)),
   agent_type |-> tab,
   enroll_token |-> IF tab = "proxmox" THEN Composed(form.head, form.secret) ELSE NoToken]

(* The fields shown are filled in (their "required").                      *)
Complete ==
  /\ form.name # None /\ form[FieldOf[tab]] # None
  /\ tab = "proxmox" => form.secret # NoToken

(* handleManualAdd up to its await.  Nothing prevents a second submission. *)
HandleManualAdd(c) ==
  /\ Act /\ isOpen /\ tab \in Types /\ Complete /\ adds[c] = None
  /\ adds' = [adds EXCEPT ![c] = [at |-> "sent", dev |-> Payload, here |-> TRUE]]
  /\ UNCHANGED <<serverVars, shown, isOpen, tab, form, loading, copiedType, tokenCalls, copies, deleteVars, editVars>>

(* Its end, whatever the status: the modal closes, whoever has opened it   *)
(* since.                                                                  *)
AddEnds(c) ==
  /\ adds[c] # None /\ adds[c].at = "answered"
  /\ adds' = [adds EXCEPT ![c] = None]
  /\ isOpen' = IF adds[c].here THEN FALSE ELSE isOpen
  /\ UNCHANGED <<serverVars, shown, tab, form, loading, copiedType, tokenCalls, copies, deleteVars, editVars, acts>>

(* The request fails: the error is logged.                                 *)
AddFails(c) ==
  /\ Act /\ Failed(adds, c)
  /\ UNCHANGED <<serverVars, shown, isOpen, tab, form, loading, copiedType, tokenCalls, copies, deleteVars, editVars>>

-----------------------------------------------------------------------------
(* DevicesView.  A modal covers the cards.                                 *)

CardsReachable == ~isOpen /\ editing = None

(* The bin, or Cancel, of a card.                                          *)
Confirm(d) ==
  /\ CardsReachable /\ shown[d] # None
  /\ confirmDeleteId' = IF confirmDeleteId = d THEN None ELSE d
  /\ UNCHANGED <<serverVars, shown, modalVars, isDeleting, deletes, editVars, acts>>

HandleDelete(d, c) ==
  /\ CardsReachable /\ shown[d] # None
  /\ confirmDeleteId = d /\ ~isDeleting /\ deletes[c] = None
  /\ deletes' = [deletes EXCEPT ![c] = [at |-> "sent", id |-> d, here |-> TRUE]]
  /\ isDeleting' = TRUE
  /\ UNCHANGED <<serverVars, shown, modalVars, confirmDeleteId, editVars, acts>>

(* The answer, whatever its status, and the list after it, which may fail  *)
(* to come: the confirmation shown goes, be it that of another card.       *)
DeleteEnds(c) ==
  /\ deletes[c] # None /\ deletes[c].at = "answered"
  /\ shown' \in {List, shown}
  /\ confirmDeleteId' = IF deletes[c].here THEN None ELSE confirmDeleteId
  /\ isDeleting' = IF deletes[c].here THEN FALSE ELSE isDeleting
  /\ deletes' = [deletes EXCEPT ![c] = None]
  /\ UNCHANGED <<serverVars, modalVars, editVars, acts>>

(* The request fails: finally, and nothing else.                           *)
DeleteFails(c) ==
  /\ Act /\ Failed(deletes, c)
  /\ isDeleting' = IF deletes[c].here THEN FALSE ELSE isDeleting
  /\ UNCHANGED <<serverVars, shown, modalVars, confirmDeleteId, editVars>>

HandleStartEdit(d) ==
  /\ CardsReachable /\ shown[d] # None
  /\ editing' = [id |-> d, dev |-> shown[d].dev, birth |-> shown[d].birth]
  /\ LET p == Parsed(shown[d].dev.enroll_token) IN
       editForm' = [name |-> shown[d].dev.name, ip |-> shown[d].dev.ip_address,
                    head |-> p.head, secret |-> p.secret, clean |-> TRUE]
  /\ UNCHANGED <<serverVars, shown, modalVars, deleteVars, isSaving, saves, acts>>

Retyped(new) == editForm' = [new EXCEPT !.clean = FALSE] /\ new # editForm

TypeEdit ==
  /\ Act /\ editing # None
  /\ \/ \E n \in Names : Retyped([editForm EXCEPT !.name = n])
     \/ \E a \in Addresses \cup {None} : Retyped([editForm EXCEPT !.ip = a])
     \/ /\ editing.dev.agent_type = "proxmox"
        /\ \/ \E h \in Heads : Retyped([editForm EXCEPT !.head = h])
           \/ \E t \in Texts : Retyped([editForm EXCEPT !.secret = t])
  /\ UNCHANGED <<serverVars, shown, modalVars, deleteVars, editing, isSaving, saves>>

(* The cross and Cancel, also while the request runs.                      *)
CancelEdit ==
  /\ editing # None /\ editing' = None /\ editForm' = None
  /\ UNCHANGED <<serverVars, shown, modalVars, deleteVars, isSaving, saves, acts>>

(* The token an edit sends.                                                *)
FinalToken ==
  IF editing.dev.agent_type = "proxmox" THEN Composed(editForm.head, editForm.secret)
  ELSE editForm.secret

(* handleSaveEdit up to its await.                                         *)
HandleSaveEdit(c) ==
  /\ Act /\ editing # None /\ ~isSaving /\ saves[c] = None
  /\ saves' = [saves EXCEPT ![c] =
       [at |-> "sent", here |-> TRUE,
        body |-> [id |-> editing.id, name |-> editForm.name, ip |-> editForm.ip,
                  token |-> FinalToken, clean |-> editForm.clean,
                  of |-> editing.dev, birth |-> editing.birth]]]
  /\ isSaving' = TRUE
  /\ UNCHANGED <<serverVars, shown, modalVars, deleteVars, editing, editForm>>

(* The answer, whatever its status, and the list after it, which may fail  *)
(* to come: the edit form shown closes, be it that of another device.      *)
SaveEnds(c) ==
  /\ saves[c] # None /\ saves[c].at = "answered"
  /\ shown' \in {List, shown}
  /\ IF saves[c].here
       THEN editing' = None /\ editForm' = None /\ isSaving' = FALSE
       ELSE UNCHANGED <<editing, editForm, isSaving>>
  /\ saves' = [saves EXCEPT ![c] = None]
  /\ UNCHANGED <<serverVars, modalVars, deleteVars, acts>>

SaveFails(c) ==
  /\ Act /\ Failed(saves, c)
  /\ isSaving' = IF saves[c].here THEN FALSE ELSE isSaving
  /\ UNCHANGED <<serverVars, shown, modalVars, deleteVars, editing, editForm>>

(* Another page and back: a new DevicesView.                               *)
Remount ==
  /\ Act
  /\ confirmDeleteId' = None /\ isDeleting' = FALSE
  /\ editing' = None /\ editForm' = None /\ isSaving' = FALSE
  /\ deletes' = [c \in Calls |-> IF deletes[c] = None THEN None ELSE [deletes[c] EXCEPT !.here = FALSE]]
  /\ saves' = [c \in Calls |-> IF saves[c] = None THEN None ELSE [saves[c] EXCEPT !.here = FALSE]]
  /\ UNCHANGED <<serverVars, shown, modalVars>>

Next ==
  \/ Refresh \/ Open \/ FetchTokenEnds \/ Close \/ CopyTimeout \/ TypeForm
  \/ TypeEdit \/ CancelEdit \/ Remount
  \/ \E t \in Tabs : SetTab(t)
  \/ \E type \in Snippets : CopyToClipboard(type)
  \/ \E d \in Names : Confirm(d) \/ HandleStartEdit(d)
  \/ \E c \in Calls : \/ NotStored(c) \/ Post(c) \/ HandleManualAdd(c) \/ AddEnds(c) \/ AddFails(c)
                      \/ DeleteDevice(c) \/ DeleteEnds(c) \/ DeleteFails(c)
                      \/ Put(c) \/ HandleSaveEdit(c) \/ SaveEnds(c) \/ SaveFails(c)
                      \/ \E d \in Names : HandleDelete(d, c)

Spec == Init /\ [][Next]_vars

-----------------------------------------------------------------------------
(* A Proxmox device has a token with the secret its scraper needs, any     *)
(* other device has none, along all ways of enrolling, enrolling again and *)
(* editing; only an edit that was under way while its device was deleted   *)
(* and enrolled anew can break this (sqlite.go:1000, DevicesView.tsx:84).  *)
TokenFitsType ==
  crossed \/ \A d \in Names : table[d] # None =>
    (table[d].agent_type = "proxmox" <=> table[d].enroll_token.secret # None)

(* c stores an edit nobody typed into, of a device that is what it was.    *)
StoresUntouched(c) ==
  /\ saves[c] # None /\ Put(c) /\ ~crossed
  /\ saves[c].body.clean /\ table[saves[c].body.id] = saves[c].body.of

(* No more than the text of the token of d changes, and the scraper        *)
(* authenticates as before.                                                *)
AuthenticatesAsBefore(d) ==
  /\ table' = [table EXCEPT ![d].enroll_token = table'[d].enroll_token]
  /\ Header(table'[d].enroll_token) = Header(table[d].enroll_token)

(* Saving an edit nobody typed into may rewrite the token, dropping its    *)
(* prefix or adding a head, but what the form splits and composes          *)
(* (DevicesView.tsx:61-90) and what the scraper makes of the result        *)
(* (proxmox.go:95-119) agree: it authenticates as before, unless the       *)
(* secret has a "=" in it.                                                 *)
UntouchedEditAuthenticates ==
  [][\A c \in Calls :
       StoresUntouched(c) /\ saves[c].body.of.enroll_token.secret \notin Padded
         => AuthenticatesAsBefore(saves[c].body.id)]_vars

(* The credentials present are parsed (DevicesView.tsx:60, "Parse existing *)
(* Proxmox credentials if present"), those with a "=" in the secret too.   *)
SecretSurvivesEdit ==
  [][\A c \in Calls : StoresUntouched(c) => AuthenticatesAsBefore(saves[c].body.id)]_vars

(* Nothing is left behind: the modal's spinner turns, a delete or a save   *)
(* button is disabled and a snippet is marked as copied only while a       *)
(* request of this mount of the page, or a timeout, is under way that ends *)
(* it (AddDeviceModal.tsx:32-55, DevicesView.tsx:42-99).                   *)
BusyEnds ==
  /\ loading => tokenCalls > 0
  /\ isDeleting => \E c \in Calls : deletes[c] # None /\ deletes[c].here
  /\ isSaving => \E c \in Calls : saves[c] # None /\ saves[c].here
  /\ copiedType # None => copies > 0

(* The form for a Prometheus target enrols the address in its field        *)
(* "Metrics Endpoint URL" (AddDeviceModal.tsx:306).                        *)
FieldIsSubmitted ==
  [][\A c \in Calls :
       (adds[c] = None /\ adds'[c] # None /\ tab = "prometheus")
       => adds'[c].dev.ip_address = form.endpoint]_vars
=============================================================================

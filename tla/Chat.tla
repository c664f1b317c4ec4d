--------------------------------- MODULE Chat ---------------------------------
(***************************************************************************)
(* The assistant's drawer (web/src/components/AIChatDrawer.tsx) in one     *)
(* browser window: a conversation kept in localStorage, one request at a   *)
(* time to /api/chat, and a panel whose width the operator drags.  The     *)
(* drawer stays mounted while it is closed, so requests and conversation   *)
(* outlive it; a reload of the page ends the requests.                     *)
(*                                                                         *)
(* A message is its sender and the number of the question it asks or       *)
(* answers; an answer may be a reply or the text of an error.              *)
(***************************************************************************)
EXTENDS Naturals, FiniteSets, SequencesExt, FiniteSetsExt

CONSTANTS
  MaxAsked,        \* bound: questions asked
  MaxHistory,      \* messages sent along with a question (12 in the code)
  Quota,           \* messages localStorage has room for
  MinWidth, DefaultWidth, WidthStep, Margin,
                   \* 340, 480, 120 and 300 pixels in the code
  Screens          \* the widths the browser window may have

ASSUME ChatAssumption ==
  /\ MaxAsked \in Nat /\ MaxHistory \in Nat /\ Quota \in Nat \ {0}
  /\ MinWidth \in Nat /\ DefaultWidth \in Nat /\ WidthStep \in Nat /\ Margin \in Nat
  /\ MinWidth <= DefaultWidth
  /\ \A s \in Screens : s \in Nat /\ s >= DefaultWidth + Margin

VARIABLES
  messages, input, loading,
  calls,           \* the running calls of handleSend, past their first await
  isOpen,
  stored,          \* localStorage: ophanim_ai_chat_history
  width,           \* the state and its copy in localStorage
  isDragging,
  screen,          \* window.innerWidth
  asked,           \* history: questions asked so far
  forgotten,       \* history: the questions that were cleared away
  cut              \* history: was the conversation cleared or reloaded half-way

talkVars == <<messages, input, loading, calls, stored, asked, forgotten, cut>>
sizeVars == <<width, isDragging, screen>>
chatVars == <<talkVars, sizeVars, isOpen>>

Welcome == [sender |-> "assistant", q |-> 0]
Question(q) == [sender |-> "user", q |-> q]
Answer(q) == [sender |-> "assistant", q |-> q]
Messages == [sender : {"assistant", "user"}, q : 0 .. MaxAsked]
Asked(s) == {m.q : m \in {n \in ToSet(s) : n.sender = "user"}}
LastOf(s, n) == SubSeq(s, Max({1, Len(s) - n + 1}), Len(s))
MaxWidth == Max({MinWidth, screen - Margin})

ChatTypeOK ==
  /\ messages \in Seq(Messages) /\ messages # <<>>
  /\ input \in {"", "blank", "text"} /\ loading \in BOOLEAN /\ isOpen \in BOOLEAN
  /\ calls \subseteq [q : 1 .. MaxAsked, history : Seq(Messages)]
  /\ stored \in Seq(Messages) /\ Len(stored) <= Quota
  /\ width \in Nat /\ isDragging \in BOOLEAN /\ screen \in Screens
  /\ asked \in 0 .. MaxAsked /\ forgotten \subseteq 1 .. asked /\ cut \in BOOLEAN

(* The effect on messages: a conversation too long for localStorage is not *)
(* stored, and the exception is swallowed.                                 *)
Persist(m) == stored' = IF Len(m) <= Quota THEN m ELSE stored

ChatInit ==
  /\ messages = <<Welcome>> /\ stored = <<Welcome>>
  /\ input = "" /\ loading = FALSE /\ calls = {} /\ isOpen = FALSE
  /\ width = DefaultWidth /\ isDragging = FALSE /\ screen \in Screens
  /\ asked = 0 /\ forgotten = {} /\ cut = FALSE

-----------------------------------------------------------------------------
(* The conversation.                                                       *)

Type(text) ==
  /\ isOpen /\ input' = text
  /\ UNCHANGED <<messages, loading, calls, stored, asked, forgotten, cut, sizeVars, isOpen>>

(* The guard of handleSend, for the prompt of a button or for the field.   *)
CanSend(prompt) == (prompt \/ input = "text") /\ ~loading

(* Mutant of HistoryPayload: cut from the updated messages. *)
HistoryPayloadUpdated(old, updated) == LastOf(updated, MaxHistory)

(* historyPayload: the end of the conversation the question was asked in,  *)
(* which does not hold the question.                                       *)
HistoryPayload(old, updated) == LastOf(old, MaxHistory)

(* handleSend up to its await.                                             *)
HandleSend(prompt) ==
  /\ isOpen /\ CanSend(prompt)
  /\ asked < MaxAsked /\ asked' = asked + 1
  /\ messages' = Append(messages, Question(asked'))
  /\ Persist(messages')
  /\ input' = IF prompt THEN input ELSE ""
  /\ loading' = TRUE
  /\ calls' = calls \cup {[q |-> asked', history |-> HistoryPayload(messages, messages')]}
  /\ UNCHANGED <<forgotten, cut, sizeVars, isOpen>>

(* Mutant of WithAnswer: below the conversation the question was asked in. *)
WithAnswerStale(c) == c.history \o <<Question(c.q), Answer(c.q)>>

(* The answer goes below whatever is shown when it comes.                  *)
WithAnswer(c) == Append(messages, Answer(c.q))

(* Mutant of HandleReply: no finally. *)
HandleReplyKeepsLoading(c) ==
  /\ c \in calls /\ calls' = calls \ {c}
  /\ messages' = WithAnswer(c)
  /\ Persist(messages')
  /\ UNCHANGED <<input, loading, asked, forgotten, cut, sizeVars, isOpen>>

(* The rest of handleSend: a reply, a failure of the exchange, of its      *)
(* status or of its parsing all end in one more message, and in finally.   *)
HandleReply(c) ==
  /\ c \in calls /\ calls' = calls \ {c}
  /\ messages' = WithAnswer(c)
  /\ Persist(messages')
  /\ loading' = FALSE
  /\ UNCHANGED <<input, asked, forgotten, cut, sizeVars, isOpen>>

(* handleClearHistory; the effect stores the welcome again.                *)
HandleClearHistory ==
  /\ isOpen
  /\ messages' = <<Welcome>> /\ Persist(messages')
  /\ forgotten' = forgotten \cup Asked(messages)
  /\ cut' = (calls # {})
  /\ UNCHANGED <<input, loading, calls, asked, sizeVars, isOpen>>

(* The page is loaded again.                                               *)
ReloadChat ==
  /\ messages' = IF stored = <<>> THEN <<Welcome>> ELSE stored
  /\ Persist(messages')
  /\ input' = "" /\ loading' = FALSE /\ calls' = {} /\ isOpen' = FALSE
  /\ width' = Max({MinWidth, width}) /\ isDragging' = FALSE
  /\ cut' = (cut \/ messages'[Len(messages')].sender = "user")
  /\ UNCHANGED <<asked, forgotten, screen>>

-----------------------------------------------------------------------------
(* The panel.                                                              *)

HandleMouseDown ==
  /\ isOpen /\ isDragging' = TRUE
  /\ UNCHANGED <<talkVars, width, screen, isOpen>>

(* handleMouseMove with the pointer so far from the right edge.            *)
HandleMouseMove(newWidth) ==
  /\ isDragging
  /\ newWidth >= MinWidth /\ newWidth <= MaxWidth
  /\ width' = newWidth
  /\ UNCHANGED <<talkVars, isDragging, screen, isOpen>>

HandleMouseUp ==
  /\ isDragging /\ isDragging' = FALSE
  /\ UNCHANGED <<talkVars, width, screen, isOpen>>

(* The buttons +Wide and -Narrow.                                          *)
Wide ==
  /\ isOpen /\ width' = Min({screen - Margin, width + WidthStep})
  /\ UNCHANGED <<talkVars, isDragging, screen, isOpen>>

(* Mutant of Narrow: without the limit. *)
NarrowAway ==
  /\ isOpen /\ width' = width - WidthStep
  /\ UNCHANGED <<talkVars, isDragging, screen, isOpen>>

Narrow ==
  /\ isOpen /\ width' = Max({MinWidth, width - WidthStep})
  /\ UNCHANGED <<talkVars, isDragging, screen, isOpen>>

ResizeScreen(s) ==
  /\ screen' = s
  /\ UNCHANGED <<talkVars, width, isDragging, isOpen>>

ChatNext ==
  \/ \E text \in {"", "blank", "text"} : Type(text)
  \/ \E prompt \in BOOLEAN : HandleSend(prompt)
  \/ \E c \in calls : HandleReply(c)
  \/ HandleClearHistory
  \/ HandleMouseDown \/ HandleMouseUp \/ Wide \/ Narrow
  \/ \E s \in Screens : ResizeScreen(s) \/ \E w \in 0 .. s : HandleMouseMove(w)

-----------------------------------------------------------------------------
Alternates(s) == \A i \in 2 .. Len(s) : s[i].sender # s[i-1].sender

(* What the language model is sent is a dialogue: the two speakers take    *)
(* turns and the question comes once, unless the conversation was cleared  *)
(* or reloaded half-way (AIChatDrawer.tsx:144).                            *)
ModelSeesDialogue ==
  ~cut => \A c \in calls : Alternates(Append(c.history, Question(c.q)))

(* A question that was cleared away never comes back, neither with a late  *)
(* answer nor with a reload (AIChatDrawer.tsx:52-63).                      *)
ForgottenStaysForgotten == forgotten \cap (Asked(messages) \cup Asked(stored)) = {}

(* A question gets its answer or an error, and the drawer takes the next   *)
(* one (the finally of AIChatDrawer.tsx:198).                              *)
GetsAnswered == loading ~> ~loading
===============================================================================

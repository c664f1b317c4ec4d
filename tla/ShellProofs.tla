---------------------------- MODULE ShellProofs -----------------------------
(* Proofs of the safety properties of Shell and of Chat within it.         *)
EXTENDS Shell, SequenceTheorems, TLAPS

-----------------------------------------------------------------------------
(* Operators.                                                              *)

(* The greater and the smaller of two numbers.                             *)
LEMMA MaxMin ==
  ASSUME NEW a \in Int, NEW b \in Int
  PROVE  /\ Max({a, b}) = IF a >= b THEN a ELSE b
         /\ Min({a, b}) = IF a >= b THEN b ELSE a
<1>1. Max({a, b}) = IF a >= b THEN a ELSE b
  <2> DEFINE P(x) == x \in {a, b} /\ \A y \in {a, b} : x >= y
  <2>1. P(IF a >= b THEN a ELSE b)
    OBVIOUS
  <2>2. \A x, y : P(x) /\ P(y) => x = y
    OBVIOUS
  <2>3. Max({a, b}) = CHOOSE x \in {a, b} : \A y \in {a, b} : x >= y
    BY DEF Max
  <2>4. QED
    BY <2>1, <2>2, <2>3
<1>2. Min({a, b}) = IF a >= b THEN b ELSE a
  BY DEF Min
<1>3. QED
  BY <1>1, <1>2

(* The end of a dialogue is a dialogue.                                    *)
LEMMA EndOfDialogue ==
  ASSUME NEW s \in Seq(Messages), NEW n \in Nat
  PROVE  /\ LastOf(s, n) \in Seq(Messages)
         /\ Alternates(s) => Alternates(LastOf(s, n))
         /\ LastOf(s, n) # <<>> => LastOf(s, n)[Len(LastOf(s, n))] = s[Len(s)]
<1> DEFINE len == Len(s)
<1> DEFINE from == IF 1 >= len - n + 1 THEN 1 ELSE len - n + 1
<1> DEFINE t == LastOf(s, n)
<1>1. len \in Nat /\ len - n + 1 \in Int
  OBVIOUS
<1>2. t = SubSeq(s, from, len)
  <2> DEFINE b == len - n + 1
  <2>1. b \in Int /\ from = IF 1 >= b THEN 1 ELSE b
    BY <1>1
  <2>2. t = SubSeq(s, Max({1, b}), len)
    BY DEF LastOf
  <2> HIDE DEF b, t, from, len
  <2>3. Max({1, b}) = IF 1 >= b THEN 1 ELSE b
    BY <2>1, MaxMin
  <2>4. QED
    BY <2>1, <2>2, <2>3
<1>3. from \in Nat /\ from >= 1
  BY <1>1
<1> HIDE DEF from, len, t
<1>4. /\ t \in Seq(Messages) /\ Len(t) = IF from <= len THEN len - from + 1 ELSE 0
      /\ \A i \in 1 .. Len(t) : t[i] = s[from + i - 1]
  <2>1. \A i \in from .. len : s[i] \in Messages
    BY <1>1, <1>3 DEF len
  <2>2. from \in Int /\ len \in Int
    BY <1>1, <1>3
  <2>3. /\ SubSeq(s, from, len) \in Seq(Messages)
        /\ Len(SubSeq(s, from, len)) = IF from <= len THEN len - from + 1 ELSE 0
        /\ \A i \in 1 .. len - from + 1 : SubSeq(s, from, len)[i] = s[from + i - 1]
    BY <2>1, <2>2, SubSeqProperties
  <2>4. 1 .. Len(t) \subseteq 1 .. len - from + 1
    BY <1>2, <2>2, <2>3
  <2>5. QED
    BY <1>2, <2>3, <2>4
<1>5. ASSUME Alternates(s) PROVE Alternates(t)
  <2>1. SUFFICES ASSUME NEW i \in 2 .. Len(t) PROVE t[i].sender # t[i - 1].sender
    BY DEF Alternates
  <2> DEFINE j == from + i - 1
  <2>2. /\ i \in 1 .. Len(t) /\ i - 1 \in 1 .. Len(t) /\ j \in 2 .. len
        /\ from + i - 1 = j /\ from + (i - 1) - 1 = j - 1
    BY <1>1, <1>3, <1>4
  <2> HIDE DEF j
  <2>3. t[i] = s[j] /\ t[i - 1] = s[j - 1]
    BY <1>4, <2>2
  <2>4. QED
    BY <1>5, <2>2, <2>3 DEF Alternates, len
<1>6. t # <<>> => t[Len(t)] = s[len]
  BY <1>1, <1>3, <1>4
<1>7. QED
  BY <1>4, <1>5, <1>6 DEF t, len

(* A message of the other speaker continues it.                            *)
LEMMA AppendedDialogue ==
  ASSUME NEW s \in Seq(Messages), NEW m \in Messages, Alternates(s),
         s # <<>> => s[Len(s)].sender # m.sender
  PROVE  Alternates(Append(s, m))
<1> DEFINE t == Append(s, m)
<1>1. /\ Len(s) \in Nat /\ Len(t) = Len(s) + 1 /\ t[Len(s) + 1] = m
      /\ \A i \in 1 .. Len(s) : t[i] = s[i]
  OBVIOUS
<1> HIDE DEF t
<1>2. SUFFICES ASSUME NEW i \in 2 .. Len(t) PROVE t[i].sender # t[i - 1].sender
  BY DEF Alternates, t
<1>3. CASE i = Len(s) + 1
  <2>1. s # <<>> /\ t[i - 1] = s[Len(s)]
    BY <1>1, <1>3
  <2>2. QED
    BY <1>1, <1>3, <2>1
<1>4. CASE i # Len(s) + 1
  <2>1. i \in 2 .. Len(s) /\ t[i] = s[i] /\ t[i - 1] = s[i - 1]
    BY <1>1, <1>4
  <2>2. QED
    BY <2>1 DEF Alternates
<1>5. QED
  BY <1>3, <1>4

(* The questions of a longer conversation.                                 *)
LEMMA AskedAppended ==
  ASSUME NEW s \in Seq(Messages), NEW q \in 0 .. MaxAsked
  PROVE  /\ Asked(Append(s, Question(q))) = Asked(s) \cup {q}
         /\ Asked(Append(s, Answer(q))) = Asked(s)
         /\ Append(s, Question(q)) \in Seq(Messages) /\ Append(s, Answer(q)) \in Seq(Messages)
<1>1. ASSUME NEW m \in Messages
      PROVE  Append(s, m) \in Seq(Messages) /\ ToSet(Append(s, m)) = ToSet(s) \cup {m}
  <2> DEFINE t == Append(s, m)
  <2>1. /\ t \in Seq(Messages) /\ DOMAIN s = 1 .. Len(s) /\ DOMAIN t = 1 .. Len(s) + 1
        /\ Len(s) \in Nat /\ t[Len(s) + 1] = m /\ \A i \in 1 .. Len(s) : t[i] = s[i]
    OBVIOUS
  <2> HIDE DEF t
  <2>2. \A i \in DOMAIN t : i \in DOMAIN s \/ i = Len(s) + 1
    BY <2>1
  <2>3. ToSet(t) = ToSet(s) \cup {m}
    <3>1. ToSet(t) \subseteq ToSet(s) \cup {m}
      BY <2>1, <2>2 DEF ToSet
    <3>2. ToSet(s) \subseteq ToSet(t)
      BY <2>1 DEF ToSet
    <3>3. m \in ToSet(t)
      BY <2>1 DEF ToSet
    <3>4. QED
      BY <3>1, <3>2, <3>3
  <2>4. QED
    BY <2>1, <2>3 DEF t
<1>2. /\ Question(q) \in Messages /\ Question(q).sender = "user" /\ Question(q).q = q
      /\ Answer(q) \in Messages /\ Answer(q).sender = "assistant"
  BY DEF Question, Answer, Messages
<1>3. ToSet(Append(s, Question(q))) = ToSet(s) \cup {Question(q)}
  BY <1>1, <1>2
<1>4. ToSet(Append(s, Answer(q))) = ToSet(s) \cup {Answer(q)}
  BY <1>1, <1>2
<1>5. Asked(Append(s, Question(q))) = Asked(s) \cup {q}
  BY <1>2, <1>3 DEF Asked
<1>6. Asked(Append(s, Answer(q))) = Asked(s)
  BY <1>2, <1>4 DEF Asked
<1>7. QED
  BY <1>1, <1>2, <1>5, <1>6

(* The conversation a window starts with.                                  *)
LEMMA WelcomeFacts ==
  /\ <<Welcome>> \in Seq(Messages) /\ Len(<<Welcome>>) = 1 /\ <<Welcome>> # <<>>
  /\ <<Welcome>>[1].sender = "assistant" /\ Asked(<<Welcome>>) = {} /\ Alternates(<<Welcome>>)
<1>1. Welcome \in Messages /\ Welcome.sender = "assistant"
  BY ChatAssumption DEF Welcome, Messages
<1>2. /\ <<Welcome>> \in Seq(Messages) /\ Len(<<Welcome>>) = 1 /\ <<Welcome>> # <<>>
      /\ <<Welcome>>[1] = Welcome /\ DOMAIN <<Welcome>> = {1}
  BY <1>1
<1>3. ToSet(<<Welcome>>) = {Welcome}
  BY <1>2 DEF ToSet
<1>4. QED
  BY <1>1, <1>2, <1>3 DEF Asked, Alternates

-----------------------------------------------------------------------------
(* The inductive invariant.                                                *)

(* One call at a time, and the drawer shows it.                            *)
OneCall == (calls # {} => loading) /\ \A c, d \in calls : c = d

(* No question is shown, stored or under way before it is asked.           *)
QuestionsAsked ==
  /\ Asked(messages) \cup Asked(stored) \subseteq 1 .. asked
  /\ \A c \in calls : c.q \in 1 .. asked

(* What is shown and what is stored are dialogues; what is shown ends with *)
(* the question under way, if there is one.                                *)
Dialogue ==
  ~cut => /\ Alternates(messages) /\ Alternates(stored)
          /\ messages[Len(messages)].sender = IF calls = {} THEN "assistant" ELSE "user"

ChatInv ==
  /\ ChatTypeOK /\ OneCall /\ QuestionsAsked /\ Dialogue
  /\ ModelSeesDialogue /\ ForgottenStaysForgotten

(* The conversation of a step that shows m and stores it if there is room. *)
LEMMA Persisted ==
  ASSUME ChatTypeOK, NEW m \in Seq(Messages), Persist(m)
  PROVE  /\ stored' \in Seq(Messages) /\ Len(stored') <= Quota /\ stored' \in {stored, m}
  BY DEF ChatTypeOK, Persist

(* handleSend: the question goes below the conversation it is sent with.   *)
LEMMA SendKeeps ==
  ASSUME ChatInv, NEW prompt \in BOOLEAN, HandleSend(prompt)
  PROVE  ChatInv'
<1>0. /\ messages \in Seq(Messages) /\ messages # <<>> /\ stored \in Seq(Messages)
      /\ input \in {"", "blank", "text"} /\ isOpen \in BOOLEAN
      /\ width \in Nat /\ isDragging \in BOOLEAN /\ screen \in Screens
      /\ asked \in 0 .. MaxAsked /\ forgotten \subseteq 1 .. asked /\ cut \in BOOLEAN
      /\ ChatTypeOK
  BY DEF ChatInv, ChatTypeOK
<1> DEFINE q == asked + 1
<1> DEFINE call == [q |-> q, history |-> LastOf(messages, MaxHistory)]
<1>1. /\ q \in 1 .. MaxAsked /\ q \in 0 .. MaxAsked /\ 1 .. q = (1 .. asked) \cup {q}
      /\ q \notin 1 .. asked /\ q \in 1 .. q
  <2>1. asked < MaxAsked
    BY DEF HandleSend
  <2>2. asked \in Nat /\ MaxAsked \in Nat
    <3>1. asked \in 0 .. MaxAsked
      BY <1>0
    <3>2. QED
      BY <3>1, ChatAssumption
  <2>3. QED
    BY <2>1, <2>2
<1>2. /\ asked' = q /\ messages' = Append(messages, Question(q)) /\ Persist(messages')
      /\ input' \in {"", "blank", "text"} /\ loading' = TRUE
      /\ UNCHANGED <<forgotten, cut, width, isDragging, screen, isOpen>>
  BY <1>0 DEF HandleSend, sizeVars
<1>3. calls = {} /\ calls' = {call}
  BY DEF HandleSend, CanSend, ChatInv, OneCall, HistoryPayload
<1> HIDE DEF q
<1>4. /\ messages' \in Seq(Messages) /\ Asked(messages') = Asked(messages) \cup {q}
      /\ Len(messages') = Len(messages) + 1 /\ messages'[Len(messages')] = Question(q)
      /\ messages' # <<>>
  <2>1. Question(q) \in Messages
    BY <1>1 DEF Question, Messages
  <2>2. /\ Append(messages, Question(q)) \in Seq(Messages)
        /\ Asked(Append(messages, Question(q))) = Asked(messages) \cup {q}
    BY <1>0, <1>1, AskedAppended
  <2> DEFINE t == Append(messages, Question(q))
  <2>3. /\ Len(t) = Len(messages) + 1 /\ Len(messages) \in Nat /\ t # <<>>
        /\ t[Len(messages) + 1] = Question(q)
    <3>1. messages \in Seq(Messages)
      BY <1>0
    <3>2. QED
      BY <2>1, <3>1
  <2>5. messages' = t
    BY <1>2
  <2> HIDE DEF t
  <2>6. Len(messages') = Len(t) /\ messages'[Len(messages')] = t[Len(t)]
    BY <2>5
  <2>7. QED
    BY <2>2, <2>3, <2>5, <2>6 DEF t
<1>5. stored' \in Seq(Messages) /\ Len(stored') <= Quota /\ stored' \in {stored, messages'}
  BY <1>0, <1>2, <1>4, Persisted
<1>6. /\ LastOf(messages, MaxHistory) \in Seq(Messages)
      /\ Alternates(messages) => Alternates(LastOf(messages, MaxHistory))
      /\ LastOf(messages, MaxHistory) # <<>> =>
           LastOf(messages, MaxHistory)[Len(LastOf(messages, MaxHistory))] = messages[Len(messages)]
  BY <1>0, EndOfDialogue, ChatAssumption
<1>7. ChatTypeOK'
  <2>1. calls' \subseteq [q : 1 .. MaxAsked, history : Seq(Messages)]
    BY <1>1, <1>3, <1>6
  <2>2. forgotten' \subseteq 1 .. asked'
    BY <1>0, <1>1, <1>2
  <2>3. asked' \in 0 .. MaxAsked
    BY <1>1, <1>2
  <2>4. QED
    BY <1>0, <1>2, <1>4, <1>5, <2>1, <2>2, <2>3 DEF ChatTypeOK, Messages
<1>8. OneCall'
  BY <1>2, <1>3 DEF OneCall
<1>9. QuestionsAsked'
  <2>1. Asked(messages) \cup Asked(stored) \subseteq 1 .. asked
    BY DEF ChatInv, QuestionsAsked
  <2>2. Asked(messages)' = Asked(messages') /\ Asked(stored)' = Asked(stored')
    BY DEF Asked
  <2>3. QED
    <3>1. Asked(messages') \cup Asked(stored') \subseteq 1 .. q
      BY <1>1, <1>4, <1>5, <2>1
    <3>2. \A c \in calls' : c.q = q
      BY <1>3
    <3>3. QED
      BY <1>1, <1>2, <2>2, <3>1, <3>2 DEF QuestionsAsked
<1>10. ForgottenStaysForgotten'
  <2>1. Asked(messages)' = Asked(messages') /\ Asked(stored)' = Asked(stored')
    BY DEF Asked
  <2>2. forgotten \cap (Asked(messages) \cup Asked(stored)) = {}
    BY DEF ChatInv, ForgottenStaysForgotten
  <2>3. q \notin forgotten
    BY <1>0, <1>1
  <2>4. QED
    BY <1>2, <1>4, <1>5, <2>1, <2>2, <2>3 DEF ForgottenStaysForgotten
<1>11. ASSUME ~cut
       PROVE  /\ Alternates(messages') /\ Alternates(stored')
              /\ Alternates(Append(call.history, Question(q)))
  <2>1. /\ Alternates(messages) /\ Alternates(stored)
        /\ messages[Len(messages)].sender = "assistant"
    BY <1>3, <1>11 DEF ChatInv, Dialogue
  <2>2. Question(q) \in Messages /\ Question(q).sender = "user"
    BY <1>1 DEF Question, Messages
  <2>3. Alternates(messages')
    BY <1>0, <1>2, <2>1, <2>2, AppendedDialogue
  <2>4. Alternates(Append(call.history, Question(q)))
    BY <1>6, <2>1, <2>2, AppendedDialogue
  <2>5. QED
    BY <1>5, <2>1, <2>3, <2>4
<1>12. Dialogue'
  <2>1. calls' # {} /\ Question(q).sender = "user"
    BY <1>3 DEF Question
  <2>2. QED
    BY <1>2, <1>4, <1>11, <2>1 DEF Dialogue, Alternates
<1>13. ModelSeesDialogue'
  <2>1. call.q = q /\ cut' = cut
    BY <1>2
  <2>2. ~cut => \A c \in calls' : Alternates(Append(c.history, Question(c.q)))
    BY <1>3, <1>11, <2>1
  <2>3. QED
    BY <2>1, <2>2 DEF ModelSeesDialogue, Alternates, Question
<1>14. QED
  BY <1>7, <1>8, <1>9, <1>10, <1>12, <1>13 DEF ChatInv

(* The answer, or the error, goes below its question: one call runs at a   *)
(* time, and nothing but clearing changes the conversation meanwhile.      *)
LEMMA ReplyKeeps ==
  ASSUME ChatInv, NEW c \in calls, HandleReply(c)
  PROVE  ChatInv'
<1>0. /\ messages \in Seq(Messages) /\ messages # <<>> /\ stored \in Seq(Messages)
      /\ input \in {"", "blank", "text"} /\ isOpen \in BOOLEAN
      /\ calls \subseteq [q : 1 .. MaxAsked, history : Seq(Messages)]
      /\ width \in Nat /\ isDragging \in BOOLEAN /\ screen \in Screens
      /\ asked \in 0 .. MaxAsked /\ forgotten \subseteq 1 .. asked /\ cut \in BOOLEAN
      /\ ChatTypeOK
  BY DEF ChatInv, ChatTypeOK
<1>1. c.q \in 0 .. MaxAsked
  <2>1. c.q \in 1 .. MaxAsked
    BY <1>0
  <2>2. QED
    BY <2>1, ChatAssumption
<1>2. /\ messages' = Append(messages, Answer(c.q)) /\ Persist(messages') /\ loading' = FALSE
      /\ UNCHANGED <<input, asked, forgotten, cut, width, isDragging, screen, isOpen>>
  BY DEF HandleReply, WithAnswer, sizeVars
<1>3. calls' = {}
  BY DEF HandleReply, ChatInv, OneCall
<1>4. /\ messages' \in Seq(Messages) /\ Asked(messages') = Asked(messages)
      /\ messages'[Len(messages')] = Answer(c.q)
      /\ messages' # <<>>
  <2>1. Answer(c.q) \in Messages
    BY <1>1 DEF Answer, Messages
  <2>2. /\ Append(messages, Answer(c.q)) \in Seq(Messages)
        /\ Asked(Append(messages, Answer(c.q))) = Asked(messages)
    BY <1>0, <1>1, AskedAppended
  <2> DEFINE t == Append(messages, Answer(c.q))
  <2>3. /\ Len(t) = Len(messages) + 1 /\ Len(messages) \in Nat /\ t # <<>>
        /\ t[Len(messages) + 1] = Answer(c.q)
    <3>1. messages \in Seq(Messages)
      BY <1>0
    <3>2. QED
      BY <2>1, <3>1
  <2>5. messages' = t
    BY <1>2
  <2> HIDE DEF t
  <2>6. messages'[Len(messages')] = t[Len(t)]
    BY <2>5
  <2>7. QED
    BY <2>2, <2>3, <2>5, <2>6 DEF t
<1>5. stored' \in Seq(Messages) /\ Len(stored') <= Quota /\ stored' \in {stored, messages'}
  BY <1>0, <1>2, <1>4, Persisted
<1>6. Asked(messages)' = Asked(messages') /\ Asked(stored)' = Asked(stored')
  BY DEF Asked
<1>7. ChatTypeOK'
  BY <1>0, <1>2, <1>3, <1>4, <1>5 DEF ChatTypeOK, Messages
<1>8. OneCall'
  BY <1>3 DEF OneCall
<1>9. QuestionsAsked'
  BY <1>2, <1>3, <1>4, <1>5, <1>6 DEF ChatInv, QuestionsAsked
<1>10. ForgottenStaysForgotten'
  BY <1>2, <1>4, <1>5, <1>6 DEF ChatInv, ForgottenStaysForgotten
<1>11. ASSUME ~cut PROVE Alternates(messages') /\ Alternates(stored')
  <2>1. /\ Alternates(messages) /\ Alternates(stored)
        /\ messages[Len(messages)].sender = "user"
    BY <1>11 DEF ChatInv, Dialogue
  <2>2. Answer(c.q) \in Messages /\ Answer(c.q).sender = "assistant"
    BY <1>1 DEF Answer, Messages
  <2>3. Alternates(messages')
    BY <1>0, <1>2, <2>1, <2>2, AppendedDialogue
  <2>4. QED
    BY <1>5, <2>1, <2>3
<1>12. Dialogue'
  <2>1. Answer(c.q).sender = "assistant"
    BY DEF Answer
  <2>2. QED
    BY <1>2, <1>3, <1>4, <1>11, <2>1 DEF Dialogue, Alternates
<1>13. ModelSeesDialogue'
  BY <1>3 DEF ModelSeesDialogue
<1>14. QED
  BY <1>7, <1>8, <1>9, <1>10, <1>12, <1>13 DEF ChatInv

(* Clearing half-way sets cut, which excuses the answer that comes later.  *)
LEMMA ClearKeeps ==
  ASSUME ChatInv, HandleClearHistory
  PROVE  ChatInv'
<1>0. /\ stored \in Seq(Messages) /\ loading \in BOOLEAN
      /\ input \in {"", "blank", "text"} /\ isOpen \in BOOLEAN
      /\ calls \subseteq [q : 1 .. MaxAsked, history : Seq(Messages)]
      /\ width \in Nat /\ isDragging \in BOOLEAN /\ screen \in Screens
      /\ asked \in 0 .. MaxAsked /\ forgotten \subseteq 1 .. asked
      /\ Asked(messages) \subseteq 1 .. asked
  BY DEF ChatInv, ChatTypeOK, QuestionsAsked
<1>1. /\ messages' = <<Welcome>> /\ stored' = <<Welcome>>
      /\ forgotten' = forgotten \cup Asked(messages) /\ cut' = (calls # {})
      /\ UNCHANGED <<input, loading, calls, asked, width, isDragging, screen, isOpen>>
  BY WelcomeFacts, ChatAssumption DEF HandleClearHistory, Persist, sizeVars
<1>2. Asked(messages)' = {} /\ Asked(stored)' = {}
  BY <1>1, WelcomeFacts DEF Asked
<1>3. ChatTypeOK'
  <2>1. messages' \in Seq(Messages) /\ messages' # <<>> /\ stored' \in Seq(Messages)
    BY <1>1, WelcomeFacts
  <2>2. Len(stored') <= Quota
    BY <1>1, WelcomeFacts, ChatAssumption
  <2>3. forgotten' \subseteq 1 .. asked' /\ cut' \in BOOLEAN
    BY <1>0, <1>1
  <2>4. QED
    BY <1>0, <1>1, <2>1, <2>2, <2>3 DEF ChatTypeOK, Messages
<1>4. OneCall' /\ QuestionsAsked' /\ ForgottenStaysForgotten'
  BY <1>1, <1>2 DEF ChatInv, OneCall, QuestionsAsked, ForgottenStaysForgotten
<1>5. Dialogue' /\ ModelSeesDialogue'
  BY <1>1, WelcomeFacts DEF Dialogue, ModelSeesDialogue, Alternates
<1>6. QED
  BY <1>3, <1>4, <1>5 DEF ChatInv

(* A reload shows what was stored, and its questions were shown before.    *)
LEMMA ReloadKeeps ==
  ASSUME ChatInv, ReloadChat
  PROVE  ChatInv'
<1>0. /\ stored \in Seq(Messages) /\ width \in Nat /\ screen \in Screens
      /\ asked \in 0 .. MaxAsked /\ forgotten \subseteq 1 .. asked
      /\ ChatTypeOK
  BY DEF ChatInv, ChatTypeOK, QuestionsAsked
<1>1. /\ messages' = IF stored = <<>> THEN <<Welcome>> ELSE stored
      /\ Persist(messages')
      /\ input' = "" /\ loading' = FALSE /\ calls' = {} /\ isOpen' = FALSE
      /\ isDragging' = FALSE
      /\ cut' = (cut \/ messages'[Len(messages')].sender = "user")
      /\ UNCHANGED <<asked, forgotten, screen>>
  BY DEF ReloadChat
<1>2. width' \in Nat
  <2>1. MinWidth \in Nat /\ width' = Max({MinWidth, width})
    BY ChatAssumption DEF ReloadChat
  <2>2. QED
    BY <1>0, <2>1, MaxMin
<1>3. messages' \in Seq(Messages) /\ messages' # <<>>
  BY <1>0, <1>1, WelcomeFacts
<1>4. stored' \in Seq(Messages) /\ Len(stored') <= Quota /\ stored' \in {stored, messages'}
  BY <1>0, <1>1, <1>3, Persisted
<1>5. /\ Asked(messages)' = Asked(messages') /\ Asked(stored)' = Asked(stored')
      /\ Asked(messages') \subseteq Asked(stored) /\ Asked(stored') \subseteq Asked(stored)
  BY <1>1, <1>4, WelcomeFacts DEF Asked
<1>6. ChatTypeOK'
  BY <1>0, <1>1, <1>2, <1>3, <1>4 DEF ChatTypeOK, Messages
<1>7. OneCall' /\ ModelSeesDialogue'
  BY <1>1 DEF OneCall, ModelSeesDialogue
<1>8. QuestionsAsked' /\ ForgottenStaysForgotten'
  BY <1>1, <1>5 DEF ChatInv, QuestionsAsked, ForgottenStaysForgotten
<1>9. Dialogue'
  <2>1. ASSUME ~cut'
        PROVE  /\ Alternates(messages') /\ Alternates(stored')
               /\ messages'[Len(messages')].sender = "assistant"
    <3>1. Alternates(messages') /\ Alternates(stored')
      BY <1>1, <1>4, <2>1, WelcomeFacts DEF ChatInv, Dialogue
    <3>2. messages'[Len(messages')] \in Messages
      BY <1>3
    <3>3. QED
      BY <1>1, <2>1, <3>1, <3>2 DEF Messages
  <2>2. QED
    BY <1>1, <2>1 DEF Dialogue, Alternates
<1>10. QED
  BY <1>6, <1>7, <1>8, <1>9 DEF ChatInv

(* The panel and the field: nothing is said.                               *)
LEMMA PanelKeeps ==
  ASSUME ChatInv, UNCHANGED <<messages, loading, calls, stored, asked, forgotten, cut>>,
         input' \in {"", "blank", "text"}, isOpen' \in BOOLEAN,
         width' \in Nat, isDragging' \in BOOLEAN, screen' \in Screens
  PROVE  ChatInv'
<1>1. ChatTypeOK'
  BY DEF ChatInv, ChatTypeOK, Messages
<1>2. OneCall' /\ QuestionsAsked' /\ ForgottenStaysForgotten'
  BY DEF ChatInv, OneCall, QuestionsAsked, ForgottenStaysForgotten, Asked
<1>3. Dialogue' /\ ModelSeesDialogue'
  BY DEF ChatInv, Dialogue, ModelSeesDialogue, Alternates, Question
<1>4. QED
  BY <1>1, <1>2, <1>3 DEF ChatInv

(* Every step of the drawer.                                               *)
LEMMA ChatKeeps ==
  ASSUME ChatInv, ChatNext
  PROVE  ChatInv'
<1>0. /\ input \in {"", "blank", "text"} /\ isOpen \in BOOLEAN
      /\ width \in Nat /\ isDragging \in BOOLEAN /\ screen \in Screens
  BY DEF ChatInv, ChatTypeOK
<1>w. width \in Nat /\ screen \in Screens
  BY <1>0
<1> USE DEF talkVars, sizeVars
<1>1. CASE \E text \in {"", "blank", "text"} : Type(text)
  BY <1>0, <1>1, PanelKeeps DEF Type
<1>2. CASE HandleMouseDown \/ HandleMouseUp
  BY <1>0, <1>2, PanelKeeps DEF HandleMouseDown, HandleMouseUp
<1>3. CASE Wide
  <2> DEFINE a == screen - Margin
  <2> DEFINE b == width + WidthStep
  <2>1. a \in Nat /\ b \in Nat
    BY <1>w, ChatAssumption
  <2>2. width' = Min({a, b})
    BY <1>3 DEF Wide
  <2> HIDE DEF a, b
  <2>3. Min({a, b}) = IF a >= b THEN b ELSE a
    BY <2>1, MaxMin
  <2>4. width' \in Nat
    BY <2>1, <2>2, <2>3
  <2>5. QED
    BY <1>0, <1>3, <2>4, PanelKeeps DEF Wide
<1>4. CASE Narrow
  <2> DEFINE b == width - WidthStep
  <2>1. MinWidth \in Nat /\ b \in Int
    BY <1>w, ChatAssumption
  <2>2. width' = Max({MinWidth, b})
    BY <1>4 DEF Narrow
  <2> HIDE DEF b
  <2>3. Max({MinWidth, b}) = IF MinWidth >= b THEN MinWidth ELSE b
    BY <2>1, MaxMin
  <2>4. width' \in Nat
    BY <2>1, <2>2, <2>3
  <2>5. QED
    BY <1>0, <1>4, <2>4, PanelKeeps DEF Narrow
<1>5. ASSUME NEW s \in Screens, NEW w \in 0 .. s, HandleMouseMove(w) PROVE ChatInv'
  <2>1. w \in Nat
    BY ChatAssumption
  <2>2. QED
    BY <1>0, <1>5, <2>1, PanelKeeps DEF HandleMouseMove
<1>6. ASSUME NEW s \in Screens, ResizeScreen(s) PROVE ChatInv'
  BY <1>0, <1>6, PanelKeeps DEF ResizeScreen
<1>7. QED
  BY <1>1, <1>2, <1>3, <1>4, <1>5, <1>6, SendKeeps, ReplyKeeps, ClearKeeps DEF ChatNext

-----------------------------------------------------------------------------
(* The frame around the drawer.                                            *)

(* The palette listens first only while it has never been rendered since   *)
(* it was mounted, and then it is closed.                                  *)
OpenIsRendered == isCommandPaletteOpen => listeners = Rendered

FrameInv ==
  /\ currentTab \in Tabs /\ isCommandPaletteOpen \in BOOLEAN
  /\ listeners \in {Mounted, Rendered} /\ OpenIsRendered

(* One press, from a closed and from an open palette.                      *)
LEMMA PressToggles ==
  ASSUME FrameInv
  PROVE  AfterK.open = ~isCommandPaletteOpen /\ AfterK.order = Rendered
<1> DEFINE pressed == [open |-> isCommandPaletteOpen, order |-> listeners, gone |-> {}]
<1> DEFINE other == IF isCommandPaletteOpen THEN FALSE ELSE TRUE
<1> DEFINE toggled == [open |-> other, order |-> Rendered, gone |-> {"palette"}]
<1>1. isCommandPaletteOpen \in BOOLEAN /\ other = ~isCommandPaletteOpen
  BY DEF FrameInv
<1>2. Listener(pressed, "app") = toggled
  BY <1>1 DEF Listener, SetPalette
<1>3. Listener(toggled, "palette") = toggled
  BY DEF Listener
<1>4. ASSUME isCommandPaletteOpen = FALSE PROVE Listener(pressed, "palette") = pressed
  BY <1>4 DEF Listener, SetPalette
<1> DEFINE after == Listener(Listener(pressed, listeners[1]), listeners[2])
<1>5. AfterK = after
  BY DEF AfterK
<1> HIDE DEF pressed
<1>6. after = toggled
  <2> HIDE DEF toggled
  <2>1. CASE listeners = Rendered
    <3>1. listeners[1] = "app" /\ listeners[2] = "palette"
      BY <2>1 DEF Rendered
    <3>2. QED
      BY <1>2, <1>3, <3>1
  <2>2. CASE listeners # Rendered
    <3>1. listeners[1] = "palette" /\ listeners[2] = "app"
      BY <2>2 DEF FrameInv, Mounted
    <3>2. isCommandPaletteOpen = FALSE
      BY <2>2 DEF FrameInv, OpenIsRendered
    <3>3. QED
      BY <1>2, <1>4, <3>1, <3>2
  <2>3. QED
    BY <2>1, <2>2
<1>7. toggled.open = other /\ toggled.order = Rendered
  OBVIOUS
<1>8. AfterK = toggled
  BY <1>5, <1>6
<1> HIDE DEF toggled, other, after
<1>9. QED
  BY <1>1, <1>7, <1>8

(* What the invariant of the frame says of the properties.                 *)
LEMMA FrameTyped ==
  ASSUME ChatInv, FrameInv
  PROVE  TypeOK /\ KeyTogglesOnce
<1>1. TypeOK
  BY DEF ChatInv, FrameInv, TypeOK, Mounted, Rendered
<1>2. AfterK.open = ~isCommandPaletteOpen /\ isCommandPaletteOpen \in BOOLEAN
  BY PressToggles DEF FrameInv
<1>3. QED
  BY <1>1, <1>2 DEF KeyTogglesOnce

(* The first render.                                                       *)
LEMMA Started ==
  ASSUME Init
  PROVE  ChatInv /\ FrameInv
<1>1. /\ messages = <<Welcome>> /\ stored = <<Welcome>> /\ calls = {}
      /\ asked = 0 /\ forgotten = {} /\ cut = FALSE
  BY DEF Init, ChatInit
<1>2. ChatTypeOK
  <2>1. messages \in Seq(Messages) /\ messages # <<>> /\ stored \in Seq(Messages)
    BY <1>1, WelcomeFacts
  <2>2. Len(stored) <= Quota /\ asked \in 0 .. MaxAsked
    <3>1. Len(stored) = 1 /\ asked = 0
      BY <1>1, WelcomeFacts
    <3>2. QED
      BY <3>1, ChatAssumption
  <2>3. /\ forgotten \subseteq 1 .. asked
        /\ calls \subseteq [q : 1 .. MaxAsked, history : Seq(Messages)]
    BY <1>1
  <2>4. width \in Nat /\ screen \in Screens
    BY ChatAssumption DEF Init, ChatInit
  <2>5. input = "" /\ loading \in BOOLEAN /\ isOpen \in BOOLEAN /\ isDragging \in BOOLEAN
    BY DEF Init, ChatInit
  <2>6. QED
    BY <1>1, <2>1, <2>2, <2>3, <2>4, <2>5 DEF ChatTypeOK
<1>3. OneCall /\ QuestionsAsked /\ ForgottenStaysForgotten /\ ModelSeesDialogue
  BY <1>1, WelcomeFacts DEF OneCall, QuestionsAsked, ForgottenStaysForgotten, ModelSeesDialogue
<1>4. Dialogue
  BY <1>1, WelcomeFacts DEF Dialogue
<1>5. FrameInv
  BY ShellAssumption DEF Init, FrameInv, OpenIsRendered, Mounted
<1>6. QED
  BY <1>2, <1>3, <1>4, <1>5 DEF ChatInv

(* Opening and closing the drawer, and what leaves it alone.               *)
LEMMA DrawerMoves ==
  ASSUME ChatInv, UNCHANGED <<talkVars, sizeVars>>, isOpen' \in BOOLEAN
  PROVE  ChatInv'
<1>1. /\ input \in {"", "blank", "text"} /\ width \in Nat /\ isDragging \in BOOLEAN
      /\ screen \in Screens
  BY DEF ChatInv, ChatTypeOK
<1>2. QED
  BY <1>1, PanelKeeps DEF talkVars, sizeVars

(* Every step of the frame and of the drawer in it.                        *)
LEMMA StepKeeps ==
  ASSUME ChatInv, FrameInv, [Next]_vars
  PROVE  ChatInv' /\ FrameInv'
<1>0. isOpen \in BOOLEAN /\ isCommandPaletteOpen \in BOOLEAN
  BY DEF ChatInv, ChatTypeOK, FrameInv
<1>s. ASSUME UNCHANGED chatVars PROVE ChatInv'
  BY <1>0, <1>s, DrawerMoves DEF chatVars
<1>f. ASSUME listeners' = Rendered, currentTab' \in Tabs, isCommandPaletteOpen' \in BOOLEAN
      PROVE  FrameInv'
  BY <1>f DEF FrameInv, OpenIsRendered, Mounted, Rendered
<1>t. currentTab \in Tabs
  BY DEF FrameInv
<1>u. ASSUME UNCHANGED shellVars PROVE FrameInv'
  BY <1>u DEF shellVars, FrameInv, OpenIsRendered, Mounted, Rendered
<1>1. CASE ChatNext /\ UNCHANGED shellVars
  BY <1>1, <1>u, ChatKeeps
<1>2. CASE PressK
  <2>1. isCommandPaletteOpen' = ~isCommandPaletteOpen /\ listeners' = Rendered
    BY <1>2, PressToggles DEF PressK
  <2>2. UNCHANGED <<chatVars, currentTab>>
    BY <1>2 DEF PressK
  <2>3. isCommandPaletteOpen' \in BOOLEAN
    BY <1>0, <2>1
  <2>4. QED
    BY <1>s, <1>f, <1>t, <2>1, <2>2, <2>3
<1>3. CASE ClosePalette \/ OpenPalette \/ Render
  BY <1>0, <1>3, <1>s, <1>f, <1>t DEF ClosePalette, OpenPalette, Render
<1>4. CASE ToggleChat \/ CloseChat
  BY <1>0, <1>4, <1>f, <1>t, DrawerMoves DEF ToggleChat, CloseChat, SetOpen
<1>5. CASE ChatFromPalette
  BY <1>0, <1>5, <1>f, <1>t, DrawerMoves DEF ChatFromPalette, SetOpen
<1>6. ASSUME NEW tab \in Tabs, SetCurrentTab(tab) PROVE ChatInv' /\ FrameInv'
  <2>1. ChatInv'
    BY <1>6, <1>s DEF SetCurrentTab
  <2>2. /\ currentTab' = tab /\ isCommandPaletteOpen' = isCommandPaletteOpen
        /\ listeners' \in {listeners, Rendered}
    BY <1>6 DEF SetCurrentTab
  <2>3. QED
    BY <2>1, <2>2 DEF FrameInv, OpenIsRendered, Mounted, Rendered
<1>7. ASSUME NEW tab \in Tabs, NavigateFromPalette(tab) PROVE ChatInv' /\ FrameInv'
  BY <1>7, <1>s, <1>f DEF NavigateFromPalette
<1>8. CASE Reload
  <2>1. ChatInv'
    BY <1>8, ReloadKeeps DEF Reload
  <2>2. FrameInv'
    BY <1>8, ShellAssumption DEF Reload, FrameInv, OpenIsRendered, Mounted, Rendered
  <2>3. QED
    BY <2>1, <2>2
<1>9. CASE UNCHANGED vars
  BY <1>9, <1>s, <1>u DEF vars
<1>10. QED
  BY <1>1, <1>2, <1>3, <1>4, <1>5, <1>6, <1>7, <1>8, <1>9 DEF Next

(* The two invariants always hold.                                         *)
LEMMA InvAlways == Spec => [](ChatInv /\ FrameInv)
  BY Started, StepKeeps, PTL DEF Spec

(* Every variable of the drawer and of the frame keeps its type.           *)
THEOREM TypeCorrect == Spec => []TypeOK
  BY InvAlways, FrameTyped, PTL

(* The model is sent a dialogue that holds the question once, whatever was *)
(* asked, answered, dragged, closed or navigated before                    *)
(* (AIChatDrawer.tsx:144).                                                 *)
THEOREM DialogueSent == Spec => []ModelSeesDialogue
<1>1. ChatInv => ModelSeesDialogue
  BY DEF ChatInv
<1>2. QED
  BY <1>1, InvAlways, PTL

(* A cleared question never comes back (AIChatDrawer.tsx:52-63).           *)
THEOREM ForgottenForGood == Spec => []ForgottenStaysForgotten
<1>1. ChatInv => ForgottenStaysForgotten
  BY DEF ChatInv
<1>2. QED
  BY <1>1, InvAlways, PTL

(* One press of Cmd+K toggles the palette once, in every reachable order   *)
(* of the two listeners (App.tsx:146-155, CommandPalette.tsx:42-54).       *)
THEOREM PressTogglesOnce == Spec => []KeyTogglesOnce
  BY InvAlways, FrameTyped, PTL
=============================================================================

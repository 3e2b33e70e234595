-------------------------- MODULE DashboardProofs ---------------------------
(***************************************************************************)
(* Proofs about what the dashboard shows: the chats (Chat) and the views of a *)
(* remote host (RemoteViews), for any number of messages, sends, hosts,       *)
(* models and calls.                                                       *)
(*                                                                         *)
(* Chat.  The cache holds whole answers only, and answers keep apart.  The    *)
(* second rests on this: of the sends in progress one at most belongs to the  *)
(* component on screen, and while it does the last message is the place of    *)
(* its answer.                                                             *)
(*                                                                         *)
(* RemoteViews.  ViewsInv is inductive: a poll of /v1/info in flight asks the *)
(* host on screen, and the poll of a pull's row asks for the model the row    *)
(* names; the types alone are not inductive.                                *)
(***************************************************************************)
EXTENDS Chat, RemoteViews, SequenceTheorems, TLAPS

(* The cache never makes an entry up. *)
LEMMA StoreKeeps ==
    ASSUME NEW e, Store(e)
    PROVE  cache' \subseteq cache \cup {e}
<1>1. \A c \in With(e) : c \subseteq cache \cup {e}
  BY DEF With
<1> QED
  BY <1>1 DEF Store

(* Nothing but what was told is on its way to the cache, or in it. *)
CacheInv == CachedWhole /\ stores \subseteq told

(* CachedWhole: only the end of a stream sends to the cache, and it sends what *)
(* was told; the cache keeps some of what it had, and what it was sent.        *)
THEOREM CacheHoldsWholeAnswers == Spec => []CachedWhole
<1>1. Init => CacheInv
  BY DEF Init, CacheInv, CachedWhole
<1>2. CacheInv /\ [Next]_vars => CacheInv'
  <2> SUFFICES ASSUME CacheInv, [Next]_vars
               PROVE  CacheInv'
    OBVIOUS
  <2>1. ASSUME cache' \subseteq cache \cup stores, stores' \subseteq stores, told' = told
        PROVE  CacheInv'
    BY <2>1 DEF CacheInv, CachedWhole
  <2>2. CASE \/ Enter \/ Leave \/ Compress \/ CompressEnds \/ ClearChat \/ Send
             \/ (\E h \in Host : SelectHost(h)) \/ (\E w \in Text : Type(w))
             \/ (\E up \in BOOLEAN : ServiceSeen(up)) \/ (\E on \in BOOLEAN : SetPromptCacheConfig(on))
             \/ ClearPromptCache
    BY <2>1, <2>2 DEF Enter, Leave, Compress, CompressEnds, ClearChat, Send, SelectHost, Type,
                      ServiceSeen, SetPromptCacheConfig, ClearPromptCache
  <2>3. CASE \E s \in sends :
                \/ ReadConfig(s) \/ Responds(s) \/ ReadChunk(s) \/ SendFails(s)
                \/ StopSend(s) \/ Delta(s) \/ \E ok \in BOOLEAN : RemoteEnds(s, ok)
    BY <2>1, <2>3 DEF ReadConfig, Responds, ReadChunk, SendFails, StopSend, Aborted, Delta, RemoteEnds
  <2>4. CASE \E s \in sends : Lookup(s)
    <3> PICK s \in sends : Lookup(s)
      BY <2>4
    <3>1. cache' \subseteq cache /\ stores' = stores /\ told' = told
      BY DEF Lookup
    <3> QED
      BY <2>1, <3>1
  <2>5. CASE \E s \in sends : StreamEnds(s)
    BY <2>5 DEF StreamEnds, CacheInv, CachedWhole
  <2>6. CASE \E e \in stores : Store(e)
    <3> PICK e \in stores : Store(e)
      BY <2>6
    <3>1. cache' \subseteq cache \cup {e}
      BY StoreKeeps
    <3> QED
      BY <2>1, <3>1 DEF Store
  <2>7. CASE UNCHANGED vars
    BY <2>1, <2>7 DEF vars
  <2> QED
    BY <2>2, <2>3, <2>4, <2>5, <2>6, <2>7 DEF Next
<1>3. CacheInv => CachedWhole
  BY DEF CacheInv
<1> QED
  BY <1>1, <1>2, <1>3, PTL DEF Spec
-----------------------------------------------------------------------------
Pieces == [id : Id, host : Host \cup {None}, n : 1 .. MaxChunks]
Message == [role : {"user", "assistant"}, of : Id, host : Host \cup {None}, text : Seq(Pieces \cup Text)]

(* A send in progress of chat k, when c of them have begun and l were left. *)
IsSend(s, k, c, l) ==
    /\ s = [id |-> s.id, here |-> s.here, host |-> s.host, key |-> s.key, got |-> s.got, at |-> s.at]
    /\ s.id \in 1 .. c /\ s.here \in BOOLEAN /\ s.host \in Host \cup {None} /\ s.got \in 0 .. MaxChunks
    /\ s.at = "lookup" => k = "dashboard"
    /\ s.here \/ s.id \in l

(* AnswersApart of one message. *)
Apart(m, k, l) ==
    m.role = "assistant" =>
        /\ k = "remote" \/ OneAnswer(m.text)
        /\ k = "dashboard" \/ \A j \in DOMAIN m.text :
                                 m.text[j].id \in Id /\ (m.text[j].id = m.of \/ (k = "remote" /\ m.text[j].id \in l))

(* The last message is the place of the answer to s. *)
Awaits(ms, s) == ms # <<>> /\ ms[Len(ms)].role = "assistant" /\ ms[Len(ms)].of = s.id

ChatType == serial \in 0 .. MaxSends /\ host \in Host \cup {None} /\ input \in Text \cup {None}
            /\ messages \in Seq(Message)
Sends == /\ \A s \in sends : IsSend(s, kind, serial, left)
         /\ \A s \in sends : s.here => Awaits(messages, s)
         /\ \A s, t \in sends : s.here /\ t.here => s = t
Answers == \A i \in 1 .. Len(messages) : Apart(messages[i], kind, left)
Cached == \A e \in cache \cup stores : e.text \in Seq(Pieces) /\ OneAnswer(e.text)

ChatInv == ChatType /\ Sends /\ Answers /\ Cached

LEMMA AnswersAreApart == ChatInv => AnswersApart
  BY DEF ChatInv, ChatType, Answers, Apart, AnswersApart, Remote

(* What it means to write the text of the last message, and to take it away. *)
LEMMA SetLast ==
    ASSUME NEW ms \in Seq(Message), ms # <<>>, NEW t \in Seq(Pieces \cup Text)
    PROVE  LET new == [ms EXCEPT ![Len(ms)].text = t]
           IN  /\ new \in Seq(Message) /\ Len(new) = Len(ms)
               /\ \A i \in 1 .. Len(ms) - 1 : new[i] = ms[i]
               /\ new[Len(ms)].role = ms[Len(ms)].role /\ new[Len(ms)].of = ms[Len(ms)].of
               /\ new[Len(ms)].text = t
<1> DEFINE n == Len(ms)
           m == [ms[n] EXCEPT !.text = t]
<1>1. n \in Nat /\ n \in 1 .. n /\ ms[n] \in Message
  OBVIOUS
<1>2. m \in Message /\ m.role = ms[n].role /\ m.of = ms[n].of /\ m.text = t
  BY <1>1 DEF Message
<1>3. [ms EXCEPT ![n].text = t] = [ms EXCEPT ![n] = m]
  OBVIOUS
<1> HIDE DEF m
<1>4. [ms EXCEPT ![n] = m] \in Seq(Message) /\ Len([ms EXCEPT ![n] = m]) = n
  BY <1>1, <1>2
<1>5. [ms EXCEPT ![n] = m][n] = m /\ \A i \in 1 .. n - 1 : [ms EXCEPT ![n] = m][i] = ms[i]
  BY <1>1
<1> QED
  BY <1>2, <1>3, <1>4, <1>5

LEMMA DropLast ==
    ASSUME NEW ms \in Seq(Message), ms # <<>>
    PROVE  /\ Front(ms) \in Seq(Message) /\ Len(Front(ms)) = Len(ms) - 1
           /\ \A i \in 1 .. Len(ms) - 1 : Front(ms)[i] = ms[i]
<1>1. Len(ms) \in Nat /\ Len(ms) > 0 /\ \A i \in 1 .. Len(ms) - 1 : ms[i] \in Message
  OBVIOUS
<1> DEFINE n == Len(ms) - 1
<1>2. 1 \in Int /\ n \in Int /\ n >= 0 /\ n - 1 + 1 = n
  BY <1>1
<1>3. \A i \in 1 .. n : 1 + i - 1 = i
  BY <1>2
<1>4. \A i \in 1 .. n : ms[i] \in Message
  BY <1>1
<1> HIDE DEF n
<1>5. /\ SubSeq(ms, 1, n) \in Seq(Message)
      /\ Len(SubSeq(ms, 1, n)) = IF 1 <= n THEN n - 1 + 1 ELSE 0
      /\ \A i \in 1 .. n - 1 + 1 : SubSeq(ms, 1, n)[i] = ms[1 + i - 1]
  BY <1>2, <1>4, SubSeqProperties
<1>6. Len(SubSeq(ms, 1, n)) = n
  BY <1>2, <1>5
<1>7. \A i \in 1 .. n : SubSeq(ms, 1, n)[i] = ms[i]
  BY <1>2, <1>3, <1>5
<1>8. Front(ms) = SubSeq(ms, 1, n)
  BY DEF Front, n
<1> QED
  BY <1>5, <1>6, <1>7, <1>8 DEF n

(* What has been read of one answer. *)
LEMMA AnswerIsOne ==
    ASSUME NEW s, s.id \in Id, s.host \in Host \cup {None}, NEW n \in 0 .. MaxChunks
    PROVE  /\ Answer(s, n) \in Seq(Pieces) /\ OneAnswer(Answer(s, n))
           /\ \A j \in DOMAIN Answer(s, n) : Answer(s, n)[j].id = s.id
<1>1. n \in Nat /\ MaxChunks \in Nat
  BY ChatAssumption
<1>2. \A j \in 1 .. n : Piece(s, j) \in Pieces /\ Piece(s, j).id = s.id
  BY <1>1 DEF Piece, Pieces
<1>3. Answer(s, n) \in Seq(Pieces)
  BY <1>1, <1>2 DEF Answer
<1>4. ASSUME NEW j \in 1 .. n
      PROVE  Answer(s, n)[j] = [Head(Answer(s, n)) EXCEPT !.n = j]
  <2>1. Head(Answer(s, n)) = Piece(s, 1) /\ Answer(s, n)[j] = Piece(s, j)
    BY <1>1, <1>3, <1>4 DEF Answer
  <2> QED
    BY <2>1 DEF Piece
<1>5. DOMAIN Answer(s, n) = 1 .. n
  BY DEF Answer
<1> QED
  BY <1>2, <1>3, <1>4, <1>5 DEF OneAnswer, Answer
-----------------------------------------------------------------------------
(* Changes of the messages. *)

LEMMA OnScreen ==
    ASSUME ChatInv, messages # <<>>, NEW t \in Seq(Pieces \cup Text),
           messages' = [messages EXCEPT ![Len(messages)].text = t],
           kind' = kind, left' = left,
           kind = "remote" \/ OneAnswer(t),
           kind = "dashboard" \/ \A j \in DOMAIN t :
              t[j].id \in Id /\ (t[j].id = messages[Len(messages)].of \/ (kind = "remote" /\ t[j].id \in left))
    PROVE  /\ messages' \in Seq(Message) /\ Answers'
           /\ \A u : Awaits(messages, u) => Awaits(messages', u)
<1> DEFINE n == Len(messages)
           new == [messages EXCEPT ![Len(messages)].text = t]
<1>1. messages \in Seq(Message)
  BY DEF ChatInv, ChatType
<1>2. /\ new \in Seq(Message) /\ Len(new) = n
      /\ \A i \in 1 .. n - 1 : new[i] = messages[i]
      /\ new[n].role = messages[n].role /\ new[n].of = messages[n].of
      /\ new[n].text = t
  BY <1>1, SetLast
<1>3. messages' = new /\ n \in Nat
  BY <1>1
<1> HIDE DEF new, n
<1>4. /\ messages' \in Seq(Message) /\ Len(messages') = n /\ n \in Nat
      /\ \A i \in 1 .. n - 1 : messages'[i] = messages[i]
      /\ messages'[n].role = messages[n].role /\ messages'[n].of = messages[n].of
      /\ messages'[n].text = t
  BY <1>2, <1>3
<1> USE DEF n
<1>5. Apart(messages'[n], kind', left')
  BY <1>4 DEF Apart
<1>6. ASSUME NEW i \in 1 .. n
      PROVE  Apart(messages'[i], kind', left')
  <2>1. CASE i = n
    BY <1>5, <2>1
  <2>2. CASE i \in 1 .. n - 1
    BY <1>4, <2>2 DEF ChatInv, Answers
  <2> QED
    BY <1>4, <2>1, <2>2
<1>7. \A u : Awaits(messages, u) => Awaits(messages', u)
  BY <1>4 DEF Awaits
<1> QED
  BY <1>4, <1>6, <1>7 DEF Answers

LEMMA Taken ==
    ASSUME ChatInv, messages # <<>>, messages' = Front(messages), kind' = kind, left' = left
    PROVE  messages' \in Seq(Message) /\ Answers'
<1>1. /\ messages' \in Seq(Message) /\ Len(messages') = Len(messages) - 1 /\ Len(messages) \in Nat
      /\ \A i \in 1 .. Len(messages) - 1 : messages'[i] = messages[i]
  BY DropLast DEF ChatInv, ChatType
<1> QED
  BY <1>1 DEF ChatInv, Answers

LEMMA Untouched ==
    ASSUME ChatInv, messages' = messages, kind' = kind, left' = left
    PROVE  /\ messages' \in Seq(Message) /\ Answers'
           /\ \A u : Awaits(messages, u) => Awaits(messages', u)
  BY DEF ChatInv, ChatType, Answers

(* Changes of the sends: one of them goes on, or is over. *)

LEMMA GoesOn ==
    ASSUME ChatInv, NEW s \in sends, NEW t, sends' = (sends \ {s}) \cup {t},
           IsSend(t, kind, serial, left), t.id = s.id, t.here = s.here,
           kind' = kind, serial' = serial, left' = left,
           \A u : Awaits(messages, u) => Awaits(messages', u)
    PROVE  Sends'
<1>1. \A u \in sends' : IsSend(u, kind', serial', left')
  BY DEF ChatInv, Sends
<1>2. \A u \in sends' : u.here => Awaits(messages', u)
  BY DEF ChatInv, Sends, Awaits
<1>3. \A u, v \in sends' : u.here /\ v.here => u = v
  BY DEF ChatInv, Sends
<1> QED
  BY <1>1, <1>2, <1>3 DEF Sends

LEMMA IsOver ==
    ASSUME ChatInv, NEW s \in sends, Over(s), kind' = kind, serial' = serial, left' = left,
           s.here \/ \A u : Awaits(messages, u) => Awaits(messages', u)
    PROVE  Sends'
<1>1. sends' = sends \ {s}
  BY DEF Over
<1>2. \A u \in sends' : u.here => Awaits(messages', u)
  <2> SUFFICES ASSUME NEW u \in sends', u.here
               PROVE  Awaits(messages', u)
    OBVIOUS
  <2>1. ~s.here
    BY <1>1 DEF ChatInv, Sends
  <2> QED
    BY <1>1, <2>1 DEF ChatInv, Sends
<1> QED
  BY <1>1, <1>2 DEF ChatInv, Sends

LEMMA StageType ==
    ASSUME NEW s, IsSend(s, kind, serial, left), NEW at, at # "lookup"
    PROVE  LET t == [s EXCEPT !.at = at]
           IN  IsSend(t, kind, serial, left) /\ t.id = s.id /\ t.here = s.here
  BY DEF IsSend

LEMMA ReadType ==
    ASSUME NEW s, IsSend(s, kind, serial, left), s.got < MaxChunks
    PROVE  LET t == [s EXCEPT !.got = @ + 1]
           IN  IsSend(t, kind, serial, left) /\ t.id = s.id /\ t.here = s.here
<1>1. s.got + 1 \in 0 .. MaxChunks
  BY ChatAssumption DEF IsSend
<1> DEFINE t == [s EXCEPT !.got = @ + 1]
<1>2. /\ t = [id |-> s.id, here |-> s.here, host |-> s.host, key |-> s.key, got |-> s.got + 1, at |-> s.at]
  BY DEF IsSend
<1> HIDE DEF t
<1>3. t.id = s.id /\ t.here = s.here /\ t.host = s.host /\ t.key = s.key /\ t.got = s.got + 1 /\ t.at = s.at
  BY <1>2
<1> QED
  BY <1>1, <1>2, <1>3 DEF IsSend

(* Who a send of this chat is, and its message if it has one. *)
LEMMA Known ==
    ASSUME ChatInv, NEW s \in sends
    PROVE  /\ IsSend(s, kind, serial, left) /\ s.id \in Id /\ s.host \in Host \cup {None}
           /\ s.here => messages # <<>> /\ messages[Len(messages)].of = s.id
  BY ChatAssumption DEF ChatInv, ChatType, Sends, IsSend, Awaits, Id
-----------------------------------------------------------------------------
LEMMA ChatInit == Init => ChatInv
  BY ChatAssumption DEF Init, ChatInv, ChatType, Sends, Answers, Cached

(* What the user does beside sending leaves the sends alone, and what they say; *)
(* but a chat that is left or cleared has no messages, and no send of its own.  *)
(* What happens to the cache brings it no entry that was not on its way.        *)
LEMMA UserStep ==
    ASSUME ChatInv,
           \/ Enter \/ Leave \/ Compress \/ CompressEnds \/ ClearChat \/ ClearPromptCache
           \/ (\E h \in Host : SelectHost(h)) \/ (\E w \in Text : Type(w))
           \/ (\E up \in BOOLEAN : ServiceSeen(up)) \/ (\E on \in BOOLEAN : SetPromptCacheConfig(on))
           \/ \E e \in stores : Store(e)
    PROVE  ChatInv'
<1>1. ASSUME UNCHANGED <<kind, messages, sends, serial, left>>,
             cache' \subseteq cache \cup stores, stores' \subseteq stores,
             host' \in Host \cup {None}, input' \in Text \cup {None}
      PROVE  ChatInv'
  BY <1>1 DEF ChatInv, ChatType, Sends, Answers, Cached
<1>2. CASE \/ Enter \/ Compress \/ CompressEnds \/ ClearPromptCache
           \/ (\E h \in Host : SelectHost(h)) \/ (\E w \in Text : Type(w))
           \/ (\E up \in BOOLEAN : ServiceSeen(up) /\ ~open)
           \/ \E on \in BOOLEAN : SetPromptCacheConfig(on)
  BY <1>1, <1>2 DEF Enter, Compress, CompressEnds, SelectHost, Type, ClearPromptCache, ServiceSeen,
                    SetPromptCacheConfig, component, ChatInv, ChatType
<1>3. CASE \E e \in stores : Store(e)
  <2> PICK e \in stores : Store(e)
    BY <1>3
  <2>1. cache' \subseteq cache \cup {e}
    BY StoreKeeps
  <2> QED
    BY <1>1, <2>1 DEF Store, component, ChatInv, ChatType
<1>4. ASSUME Unmounted, UNCHANGED <<kind, host, serial, cache, stores>>
      PROVE  ChatInv'
  <2>1. messages' = <<>> /\ UNCHANGED <<kind, host, serial, cache, stores>> /\ input' = None
    BY <1>4 DEF Unmounted
  <2>2. \A u \in sends' : IsSend(u, kind', serial', left') /\ ~u.here
    <3> TAKE u \in sends'
    <3>1. PICK s \in sends : u = [s EXCEPT !.here = FALSE]
      BY <1>4 DEF Unmounted
    <3>2. IsSend(s, kind, serial, left) /\ s.id \in left'
      BY <1>4 DEF ChatInv, Sends, Unmounted
    <3> QED
      BY <2>1, <3>1, <3>2 DEF IsSend
  <2>3. Sends'
    BY <2>2 DEF Sends
  <2>4. ChatType' /\ Answers' /\ Cached'
    BY <2>1 DEF ChatInv, ChatType, Answers, Cached
  <2> QED
    BY <2>3, <2>4 DEF ChatInv
<1>5. CASE ClearChat
  <2>1. messages' = <<>> /\ UNCHANGED <<kind, host, input, sends, serial, cache, stores, left>>
    BY <1>5 DEF ClearChat
  <2>2. \A u \in sends : ~u.here
    BY <1>5 DEF ClearChat, Sending
  <2> QED
    BY <2>1, <2>2 DEF ChatInv, ChatType, Sends, Answers, Cached
<1>6. CASE Leave \/ \E up \in BOOLEAN : ServiceSeen(up) /\ open
  BY <1>4, <1>6 DEF Leave, ServiceSeen
<1> QED
  BY <1>2, <1>3, <1>5, <1>6

LEMMA SendStep == ASSUME ChatInv, Send PROVE ChatInv'
<1> DEFINE id == serial + 1
           asked == Append(messages, Turn("user", id, host, <<input>>))
           s == [id |-> id, here |-> TRUE, host |-> host, key |-> Wire(asked), got |-> 0,
                 at |-> CASE kind = "dashboard" -> "lookup" [] kind = "verify" -> "config"
                            [] OTHER -> "fetching"]
<1>1. /\ messages' = Append(asked, Turn("assistant", id, host, <<>>))
      /\ sends' = sends \cup {s} /\ serial' = id /\ input' = None
      /\ UNCHANGED <<kind, host, cache, stores, left>> /\ \A u \in sends : ~u.here
  BY DEF Send, Sending
<1>2. id \in Id /\ id \in 0 .. MaxSends /\ host \in Host \cup {None} /\ input \in Text
  BY ChatAssumption DEF Send, ChatInv, ChatType, Id
<1>3. /\ Turn("user", id, host, <<input>>) \in Message
      /\ Turn("assistant", id, host, <<>>) \in Message
  BY <1>2 DEF Turn, Message
<1>4. /\ messages \in Seq(Message) /\ Len(messages) \in Nat /\ messages' \in Seq(Message)
      /\ Len(messages') = Len(messages) + 2
      /\ \A i \in 1 .. Len(messages) : messages'[i] = messages[i]
      /\ messages'[Len(messages) + 1] = Turn("user", id, host, <<input>>)
      /\ messages'[Len(messages) + 2] = Turn("assistant", id, host, <<>>)
  <2>1. messages \in Seq(Message)
    BY DEF ChatInv, ChatType
  <2> HIDE DEF id
  <2> QED
    BY <1>1, <1>3, <2>1
<1>5. ChatType'
  BY <1>1, <1>2, <1>4 DEF ChatType
<1>6. Answers'
  <2> SUFFICES ASSUME NEW i \in 1 .. Len(messages')
               PROVE  Apart(messages'[i], kind', left')
    BY DEF Answers
  <2>1. CASE i \in 1 .. Len(messages)
    BY <1>1, <1>4, <2>1 DEF ChatInv, Answers
  <2>2. CASE i = Len(messages) + 1
    BY <1>4, <2>2 DEF Apart, Turn
  <2>3. CASE i = Len(messages) + 2
    <3>1. messages'[i].text = <<>>
      BY <1>4, <2>3 DEF Turn
    <3> QED
      BY <3>1 DEF Apart, OneAnswer
  <2> QED
    BY <1>4, <2>1, <2>2, <2>3
<1>7. Sends'
  <2>1. s.at = "lookup" => kind = "dashboard"
    OBVIOUS
  <2>2. /\ s = [id |-> s.id, here |-> s.here, host |-> s.host, key |-> s.key, got |-> s.got, at |-> s.at]
        /\ s.id = id /\ s.here = TRUE /\ s.host = host /\ s.got = 0
    OBVIOUS
  <2>3. s.got \in 0 .. MaxChunks /\ s.id \in 1 .. id
    BY <1>2, <2>2, ChatAssumption DEF Id
  <2>4. IsSend(s, kind', serial', left')
    <3> HIDE DEF s, id
    <3> QED
      BY <1>1, <1>2, <2>1, <2>2, <2>3 DEF IsSend
  <2>5. Awaits(messages', s)
    BY <1>4, <2>2 DEF Awaits, Turn
  <2>6. \A u \in sends : IsSend(u, kind', serial', left')
    <3> HIDE DEF s
    <3> QED
      BY <1>1, <1>2 DEF ChatInv, ChatType, Sends, IsSend
  <2> HIDE DEF s, id
  <2> QED
    BY <1>1, <2>2, <2>4, <2>5, <2>6 DEF Sends
<1>8. Cached'
  BY <1>1 DEF ChatInv, Cached
<1> QED
  BY <1>5, <1>6, <1>7, <1>8 DEF ChatInv
-----------------------------------------------------------------------------
(* The sends, action by action. *)

LEMMA Whole ==
    ASSUME ChatInv, messages' \in Seq(Message), Answers', Sends', Cached',
           serial' = serial, host' = host, input' = input
    PROVE  ChatInv'
  BY DEF ChatInv, ChatType

LEMMA SameCache == ASSUME ChatInv, cache' \subseteq cache, stores' \subseteq stores PROVE Cached'
  BY DEF ChatInv, Cached

(* A local send writes a whole text, or nothing if its component is gone. *)
LEMMA ShowsOne ==
    ASSUME ChatInv, NEW s \in sends, NEW t \in Seq(Pieces), Shows(s, t), OneAnswer(t),
           kind' = kind, left' = left,
           kind = "dashboard" \/ \A j \in DOMAIN t : t[j].id = s.id
    PROVE  /\ messages' \in Seq(Message) /\ Answers'
           /\ \A u : Awaits(messages, u) => Awaits(messages', u)
<1>1. CASE s.here
  <2>1. messages' = [messages EXCEPT ![Len(messages)].text = t]
    BY <1>1 DEF Shows
  <2>2. messages # <<>> /\ messages[Len(messages)].of = s.id /\ s.id \in Id
    BY <1>1, Known
  <2>3. t \in Seq(Pieces \cup Text)
    OBVIOUS
  <2>4. kind = "dashboard" \/ \A j \in DOMAIN t :
           t[j].id \in Id /\ (t[j].id = messages[Len(messages)].of \/ (kind = "remote" /\ t[j].id \in left))
    BY <2>2
  <2> QED
    BY <2>1, <2>2, <2>3, <2>4, OnScreen
<1>2. CASE ~s.here
  BY <1>2, Untouched DEF Shows
<1> QED
  BY <1>1, <1>2

LEMMA LookupStep == ASSUME ChatInv, NEW s \in sends, Lookup(s) PROVE ChatInv'
<1>1. /\ UNCHANGED <<kind, host, input, serial, stores, left>> /\ s.at = "lookup"
      /\ cache' \subseteq cache
  BY DEF Lookup
<1>2. Cached'
  BY <1>1, SameCache
<1>3. CASE \E e \in cache' : Shows(s, e.text) /\ Over(s)
  <2> PICK e \in cache' : Shows(s, e.text) /\ Over(s)
    BY <1>3
  <2>1. e.text \in Seq(Pieces) /\ OneAnswer(e.text)
    BY <1>1 DEF ChatInv, Cached
  <2>2. kind = "dashboard"
    BY <1>1, Known DEF IsSend
  <2>3. /\ messages' \in Seq(Message) /\ Answers'
        /\ \A u : Awaits(messages, u) => Awaits(messages', u)
    BY <1>1, <2>1, <2>2, ShowsOne
  <2>4. Sends'
    BY <1>1, <2>3, IsOver
  <2> QED
    BY <1>1, <1>2, <2>3, <2>4, Whole
<1>4. CASE Goes(s, "config") /\ UNCHANGED messages
  <2>1. /\ messages' \in Seq(Message) /\ Answers'
        /\ \A u : Awaits(messages, u) => Awaits(messages', u)
    BY <1>1, <1>4, Untouched
  <2> DEFINE t == [s EXCEPT !.at = "config"]
  <2>2. IsSend(t, kind, serial, left) /\ t.id = s.id /\ t.here = s.here
    BY Known, StageType
  <2>3. sends' = (sends \ {s}) \cup {t}
    BY <1>4 DEF Goes
  <2> HIDE DEF t
  <2>4. Sends'
    BY <1>1, <2>1, <2>2, <2>3, GoesOn
  <2> QED
    BY <1>1, <1>2, <2>1, <2>4, Whole
<1> QED
  BY <1>3, <1>4 DEF Lookup

(* ReadConfig and Responds. *)
LEMMA OnwardStep ==
    ASSUME ChatInv, NEW s \in sends, NEW at, at # "lookup", Goes(s, at),
           UNCHANGED <<kind, component, serial, cache, stores, left>>
    PROVE  ChatInv'
<1>1. UNCHANGED <<kind, host, input, messages, serial, cache, stores, left>>
  BY DEF component
<1>2. /\ messages' \in Seq(Message) /\ Answers'
      /\ \A u : Awaits(messages, u) => Awaits(messages', u)
  BY <1>1, Untouched
<1> DEFINE t == [s EXCEPT !.at = at]
<1>3. IsSend(t, kind, serial, left) /\ t.id = s.id /\ t.here = s.here
  BY Known, StageType
<1>4. sends' = (sends \ {s}) \cup {t}
  BY DEF Goes
<1> HIDE DEF t
<1>5. Sends'
  BY <1>1, <1>2, <1>3, <1>4, GoesOn
<1> QED
  BY <1>1, <1>2, <1>5, SameCache, Whole

LEMMA ReadChunkStep == ASSUME ChatInv, NEW s \in sends, ReadChunk(s) PROVE ChatInv'
<1>1. /\ UNCHANGED <<kind, host, input, serial, cache, stores, left>>
      /\ s.got < MaxChunks /\ Shows(s, Answer(s, s.got + 1))
  BY DEF ReadChunk
<1>2. IsSend(s, kind, serial, left) /\ s.id \in Id /\ s.host \in Host \cup {None}
  BY Known
<1>3. s.got + 1 \in 0 .. MaxChunks
  BY <1>1, <1>2, ChatAssumption DEF IsSend
<1> DEFINE a == Answer(s, s.got + 1)
<1>4. a \in Seq(Pieces) /\ OneAnswer(a) /\ \A j \in DOMAIN a : a[j].id = s.id
  BY <1>2, <1>3, AnswerIsOne
<1>5. Shows(s, a)
  BY <1>1
<1> HIDE DEF a
<1>6. /\ messages' \in Seq(Message) /\ Answers'
      /\ \A u : Awaits(messages, u) => Awaits(messages', u)
  BY <1>1, <1>4, <1>5, ShowsOne
<1> DEFINE t == [s EXCEPT !.got = @ + 1]
<1>7. IsSend(t, kind, serial, left) /\ t.id = s.id /\ t.here = s.here
  BY <1>1, <1>2, ReadType
<1>8. sends' = (sends \ {s}) \cup {t}
  BY DEF ReadChunk
<1> HIDE DEF t
<1>9. Sends'
  BY <1>1, <1>6, <1>7, <1>8, GoesOn
<1> QED
  BY <1>1, <1>6, <1>9, SameCache, Whole

LEMMA StreamEndsStep == ASSUME ChatInv, NEW s \in sends, StreamEnds(s) PROVE ChatInv'
<1>1. UNCHANGED <<kind, host, input, messages, serial, left>> /\ Over(s)
  BY DEF StreamEnds, component
<1>2. /\ messages' \in Seq(Message) /\ Answers'
      /\ \A u : Awaits(messages, u) => Awaits(messages', u)
  BY <1>1, Untouched
<1>3. Sends'
  BY <1>1, <1>2, IsOver
<1>4. Cached'
  <2>1. cache' = cache /\ stores' \subseteq stores \cup {Entry(s)}
    BY DEF StreamEnds
  <2>2. s.id \in Id /\ s.host \in Host \cup {None} /\ s.got \in 0 .. MaxChunks
    BY Known DEF IsSend
  <2>3. Answer(s, s.got) \in Seq(Pieces) /\ OneAnswer(Answer(s, s.got))
    BY <2>2, AnswerIsOne
  <2>4. Entry(s).text \in Seq(Pieces) /\ OneAnswer(Entry(s).text)
    BY <2>3 DEF Entry
  <2> HIDE DEF Entry
  <2> QED
    BY <2>1, <2>4 DEF ChatInv, Cached
<1> QED
  BY <1>1, <1>2, <1>3, <1>4, Whole

(* Either the last message goes with its send, or nothing happens to any. *)
LEMMA EndStep ==
    ASSUME ChatInv, NEW s \in sends, Over(s),
           UNCHANGED <<kind, host, input, serial, cache, stores, left>>,
           \/ s.here /\ messages' = Front(messages)
           \/ messages' = messages
    PROVE  ChatInv'
<1>1. CASE s.here /\ messages' = Front(messages)
  <2>1. messages # <<>>
    BY <1>1, Known
  <2>2. messages' \in Seq(Message) /\ Answers'
    BY <1>1, <2>1, Taken
  <2>3. Sends'
    BY <1>1, IsOver
  <2> QED
    BY <2>2, <2>3, SameCache, Whole
<1>2. CASE messages' = messages
  <2>1. /\ messages' \in Seq(Message) /\ Answers'
        /\ \A u : Awaits(messages, u) => Awaits(messages', u)
    BY <1>2, Untouched
  <2>2. Sends'
    BY <2>1, IsOver
  <2> QED
    BY <2>1, <2>2, SameCache, Whole
<1> QED
  BY <1>1, <1>2

(* An event is for the message of its own send, or its send was left. *)
LEMMA DeltaStep == ASSUME ChatInv, NEW s \in sends, Delta(s) PROVE ChatInv'
<1>1. /\ UNCHANGED <<kind, host, input, serial, cache, stores, left>>
      /\ kind = "remote" /\ s.got < MaxChunks
  BY DEF Delta, Remote
<1>2. IsSend(s, kind, serial, left) /\ s.id \in Id /\ s.host \in Host \cup {None}
  BY Known
<1> DEFINE t == [s EXCEPT !.got = @ + 1]
<1>3. IsSend(t, kind, serial, left) /\ t.id = s.id /\ t.here = s.here
  BY <1>1, <1>2, ReadType
<1>4. sends' = (sends \ {s}) \cup {t}
  BY DEF Delta
<1> HIDE DEF t
<1>5. /\ messages' \in Seq(Message) /\ Answers'
      /\ \A u : Awaits(messages, u) => Awaits(messages', u)
  <2>1. CASE messages' = messages
    BY <1>1, <2>1, Untouched
  <2>2. CASE /\ messages # <<>> /\ Last(messages).role = "assistant"
             /\ messages' = [messages EXCEPT ![Len(messages)].text = Append(@, Piece(s, s.got + 1))]
    <3> DEFINE m == messages[Len(messages)]
               p == Piece(s, s.got + 1)
               a == Append(m.text, p)
    <3>1. m \in Message /\ m.role = "assistant"
      BY <2>2 DEF ChatInv, ChatType, Last
    <3>2. s.got + 1 \in 1 .. MaxChunks
      BY <1>1, <1>2, ChatAssumption DEF IsSend
    <3>3. p \in Pieces /\ p.id = s.id
      BY <1>2, <3>2 DEF Piece, Pieces
    <3>4. m.text \in Seq(Pieces \cup Text)
      BY <3>1 DEF Message
    <3>5. s.id = m.of \/ s.id \in left
      BY <1>2, Known DEF IsSend
    <3>6. Len(messages) \in 1 .. Len(messages)
      BY <2>2 DEF ChatInv, ChatType
    <3>7. \A j \in DOMAIN m.text :
             m.text[j].id \in Id /\ (m.text[j].id = m.of \/ m.text[j].id \in left)
      <4>1. Apart(m, kind, left)
        BY <3>6 DEF ChatInv, Answers
      <4> HIDE DEF m
      <4> QED
        BY <1>1, <3>1, <4>1 DEF Apart
    <3>8. messages' = [messages EXCEPT ![Len(messages)].text = a]
      BY <2>2
    <3> HIDE DEF p
    <3>9. a \in Seq(Pieces \cup Text)
      BY <3>3, <3>4
    <3>10. \A j \in DOMAIN a : a[j].id \in Id /\ (a[j].id = m.of \/ a[j].id \in left)
      <4> HIDE DEF m
      <4>1. /\ Len(m.text) \in Nat /\ DOMAIN m.text = 1 .. Len(m.text)
            /\ DOMAIN a = 1 .. Len(m.text) + 1
            /\ a[Len(m.text) + 1] = p /\ \A j \in 1 .. Len(m.text) : a[j] = m.text[j]
        BY <3>3, <3>4
      <4> HIDE DEF a
      <4>2. ASSUME NEW j \in DOMAIN a
            PROVE  a[j] = p \/ (j \in DOMAIN m.text /\ a[j] = m.text[j])
        BY <4>1
      <4> QED
        BY <1>2, <3>3, <3>5, <3>7, <4>2
    <3> HIDE DEF a
    <3> QED
      BY <1>1, <2>2, <3>8, <3>9, <3>10, OnScreen
  <2> QED
    BY <2>1, <2>2 DEF Delta
<1>6. Sends'
  BY <1>1, <1>3, <1>4, <1>5, GoesOn
<1> QED
  BY <1>1, <1>5, <1>6, SameCache, Whole

LEMMA SendsStep ==
    ASSUME ChatInv, NEW s \in sends,
           \/ Lookup(s) \/ ReadConfig(s) \/ Responds(s) \/ ReadChunk(s) \/ StreamEnds(s)
           \/ SendFails(s) \/ StopSend(s) \/ Delta(s)
           \/ \E ok \in BOOLEAN : RemoteEnds(s, ok)
    PROVE  ChatInv'
<1>1. CASE ReadConfig(s)
  BY <1>1, OnwardStep DEF ReadConfig
<1>2. CASE Responds(s)
  BY <1>2, OnwardStep DEF Responds
<1>3. CASE SendFails(s)
  <2>1. (s.here /\ messages' = Front(messages)) \/ messages' = messages
    BY <1>3 DEF SendFails
  <2> QED
    BY <1>3, <2>1, EndStep DEF SendFails
<1>4. CASE StopSend(s)
  BY <1>4, EndStep DEF StopSend, Aborted, component
<1>5. ASSUME NEW ok \in BOOLEAN, RemoteEnds(s, ok)
      PROVE  ChatInv'
  <2>1. (s.here /\ messages' = Front(messages)) \/ messages' = messages
    BY <1>5 DEF RemoteEnds
  <2> QED
    BY <1>5, <2>1, EndStep DEF RemoteEnds
<1> QED
  BY <1>1, <1>2, <1>3, <1>4, <1>5, LookupStep, ReadChunkStep, StreamEndsStep, DeltaStep

LEMMA ChatStep == ChatInv /\ [Next]_vars => ChatInv'
<1> SUFFICES ASSUME ChatInv, [Next]_vars
             PROVE  ChatInv'
  OBVIOUS
<1>1. CASE UNCHANGED vars
  BY <1>1 DEF vars, component, ChatInv, ChatType, Sends, Answers, Cached
<1>2. CASE Next
  BY <1>2, UserStep, SendStep, SendsStep DEF Next
<1> QED
  BY <1>1, <1>2

(* AnswersApart: a local send writes its own answer, or a cached one, into its *)
(* own message; a remote one what its events bring, from itself or a left one.  *)
THEOREM AnswersKeptApart == Spec => []AnswersApart
<1>1. Init => ChatInv
  BY ChatInit
<1>2. ChatInv /\ [Next]_vars => ChatInv'
  BY ChatStep
<1>3. ChatInv => AnswersApart
  BY AnswersAreApart
<1> QED
  BY <1>1, <1>2, <1>3, PTL DEF Spec
-----------------------------------------------------------------------------
(* RemoteViews, whose calls are calls here. *)

\* A call fits the card on screen: a poll of /v1/info in flight asks the host on
\* screen, since an effect that is run again, or taken down, drops the one
\* before; a pull and the poll of its row name a model; and an answer is one
\* that the host gives.
Fits(c, h, r) ==
    /\ c.op = "info" => c.host = h /\ c.at \in {"sent", "failed", "running", "idle"}
    /\ c.op = "status" => /\ h \in RemoteHost /\ c.model \in Model /\ r.model \in Model
                          /\ c.at \in {"sent", "failed"} \cup Stage
    /\ c.op = "pull" => c.model \in Model
CallsFit == \A c \in calls : Fits(c, activeHost, row)
RowNamed == row.stage = "pulling" => row.model \in Model
ViewsInv == ViewsTypeOK /\ CallsFit /\ RowNamed

\* A call as it is made.
LEMMA ViewAskType ==
    ASSUME NEW op \in {"info", "list", "data", "serve", "stop", "pull", "status"},
           NEW h \in RemoteHost, NEW m \in Model \cup {Nothing}
    PROVE  Ask(op, h, m) \in Call /\ Ask(op, h, m).op = op /\ Ask(op, h, m).host = h
           /\ Ask(op, h, m).at = "sent" /\ Ask(op, h, m).model = m
BY DEF Ask, Call

\* A call as it is answered.
LEMMA ViewAnswerType ==
    ASSUME NEW c \in Call, NEW a,
           NEW at \in {"sent", "checked", "ok", "failed", "running", "idle"} \cup Stage,
           a = [c EXCEPT !.at = at]
    PROVE  a \in Call /\ a.op = c.op /\ a.host = c.host /\ a.model = c.model /\ a.at = at
BY DEF Call

\* The models of a host, as they are answered.
LEMMA ViewListType ==
    ASSUME NEW c \in Call, NEW a, NEW seen \in SUBSET Model,
           a = [c EXCEPT !.at = "ok", !.seen = seen]
    PROVE  a \in Call /\ a.op = c.op /\ a.host = c.host /\ a.model = c.model
BY DEF Call

\* Calls that are dropped leave the others as they are.
LEMMA CallsDropped ==
    ASSUME calls \subseteq Call, CallsFit, activeHost' = activeHost, row' = row, calls' \subseteq calls
    PROVE  calls' \subseteq Call /\ CallsFit'
BY DEF CallsFit, Fits

\* So does an answer.
LEMMA CallAnswered ==
    ASSUME calls \subseteq Call, CallsFit, activeHost' = activeHost, row' = row, NEW c \in calls, NEW a,
           Answered(c, a), a \in Call, a.op = c.op, a.host = c.host, a.model = c.model,
           c.op = "info" => a.at \in {"failed", "running", "idle"},
           c.op = "status" => a.at \in {"failed"} \cup Stage
    PROVE  calls' \subseteq Call /\ CallsFit'
BY DEF CallsFit, Answered, Fits

\* So does a call of the card on screen.
LEMMA CallAdded ==
    ASSUME calls \subseteq Call, CallsFit, activeHost' = activeHost, row' = row, activeHost \in RemoteHost,
           NEW op \in {"info", "list", "data", "serve", "stop", "pull", "status"},
           NEW m \in Model \cup {Nothing}, NEW cs, cs \subseteq calls,
           calls' = cs \cup {Ask(op, activeHost, m)},
           op \in {"pull", "status"} => m \in Model, op = "status" => row.model \in Model
    PROVE  calls' \subseteq Call /\ CallsFit'
<1>1. Ask(op, activeHost, m) \in Call /\ Fits(Ask(op, activeHost, m), activeHost, row)
      BY ViewAskType DEF Fits
<1> QED BY <1>1 DEF CallsFit

\* What a card asks when its effects run: about the host it is given.
LEMMA MountType ==
    ASSUME NEW t, NEW h \in RemoteHost \cup {Nothing}, NEW r
    PROVE  /\ MountCalls(t, h) \subseteq Call
           /\ \A c \in MountCalls(t, h) : Fits(c, h, r)
<1>1. CASE h = Nothing
      <2>1. MountCalls(t, h) = {}
            BY <1>1, Zenon DEF MountCalls
      <2> QED BY <2>1
<1>2. CASE h # Nothing
      <2>0. h \in RemoteHost /\ Nothing \in Model \cup {Nothing}
            BY <1>2
      <2>1. \A op \in {"info", "list", "data"} :
               Ask(op, h, Nothing) \in Call /\ Fits(Ask(op, h, Nothing), h, r)
            BY <2>0, ViewAskType DEF Fits
      <2>2. CASE t = "overview"
            <3>1. t # "models"
                  BY <2>2
            <3>2. MountCalls(t, h) = {Ask("info", h, Nothing), Ask("list", h, Nothing)}
                  BY <1>2, <2>2, <3>1, Zenon DEF MountCalls
            <3> QED BY <2>1, <3>2
      <2>3. CASE t = "models"
            <3>1. t # "overview"
                  BY <2>3
            <3>2. MountCalls(t, h) = {Ask("data", h, Nothing)}
                  BY <1>2, <2>3, <3>1, Zenon DEF MountCalls
            <3> QED BY <2>1, <3>2
      <2>4. CASE t # "overview" /\ t # "models"
            <3>1. MountCalls(t, h) = {}
                  BY <1>2, <2>4, Zenon DEF MountCalls
            <3> QED BY <3>1
      <2> QED BY <2>2, <2>3, <2>4
<1> QED BY <1>1, <1>2

\* The calls of a card that is gone are none of its polls.
LEMMA OrphanedType ==
    ASSUME calls \subseteq Call, CallsFit, NEW h, NEW r
    PROVE  Orphaned(calls) \subseteq Call /\ \A c \in Orphaned(calls) : Fits(c, h, r)
<1>1. ASSUME NEW c \in Orphaned(calls)
      PROVE  c \in Call /\ Fits(c, h, r)
      <2>1. PICK d \in calls : d.op \in {"serve", "stop", "pull"} /\ c = [d EXCEPT !.here = FALSE]
            BY <1>1 DEF Orphaned
      <2>2. \A here \in BOOLEAN : /\ [d EXCEPT !.here = here] \in Call
                                  /\ [d EXCEPT !.here = here].op = d.op
                                  /\ [d EXCEPT !.here = here].model = d.model
            <3>1. d \in Call
                  OBVIOUS
            <3> QED BY <3>1 DEF Call
      <2>3. FALSE \in BOOLEAN
            OBVIOUS
      <2>4. c \in Call /\ c.op = d.op /\ c.model = d.model
            BY <2>1, <2>2, <2>3, Zenon
      <2> QED BY <2>1, <2>4 DEF CallsFit, Fits
<1> QED BY <1>1

\* A card is taken down and another put up.
LEMMA RemountKeeps ==
    ASSUME ViewsInv, NEW t, NEW h \in RemoteHost \cup {Nothing}, Remount(t, h), activeHost' = h,
           tab' \in Tab,
           UNCHANGED remote
    PROVE  ViewsInv'
<1>1. calls' \subseteq Call /\ CallsFit'
      <2>1. calls' = Orphaned(calls) \cup MountCalls(t, h)
            BY DEF Remount
      <2>2. Orphaned(calls) \subseteq Call
            /\ \A c \in Orphaned(calls) : Fits(c, activeHost', row')
            BY OrphanedType DEF ViewsInv, ViewsTypeOK
      <2>3. MountCalls(t, h) \subseteq Call
            /\ \A c \in MountCalls(t, h) : Fits(c, activeHost', row')
            BY MountType
      <2> QED BY <2>1, <2>2, <2>3 DEF CallsFit
<1>2. /\ info' \in [of : RemoteHost \cup {Nothing}, phase : {"unknown", "idle", "running"}]
      /\ list' \subseteq Model
      /\ row' \in [of : RemoteHost \cup {Nothing}, model : Model \cup {Nothing}, stage : Stage]
      /\ RowNamed'
      BY DEF Remount, NoInfo, NoRow, Stage, RowNamed
<1>3. start' \in [open : BOOLEAN, model : Model \cup {Nothing}, busy : BOOLEAN]
      BY DEF Remount, EMPTY_START
<1>4. data' \in [of : RemoteHost \cup {Nothing}, models : SUBSET Model, err : BOOLEAN]
      BY DEF Remount, NoData
<1> QED BY <1>1, <1>2, <1>3, <1>4 DEF ViewsInv, ViewsTypeOK, remote

\* The card on screen is given another host.
LEMMA RehostKeeps ==
    ASSUME ViewsInv, NEW t, NEW h \in RemoteHost \cup {Nothing}, Rehost(t, h), activeHost' = h, tab' \in Tab,
           UNCHANGED remote
    PROVE  ViewsInv'
<1>1. calls' \subseteq Call /\ CallsFit'
      <2>1. calls' = TornDown(calls) \cup MountCalls(t, h)
            BY DEF Rehost
      <2>2. TornDown(calls) \subseteq calls
            /\ \A c \in TornDown(calls) : c.op \notin {"info", "status"}
            BY DEF TornDown, Polls
      <2>3. \A c \in TornDown(calls) : Fits(c, activeHost', row')
            BY <2>2 DEF ViewsInv, CallsFit, Fits
      <2>4. MountCalls(t, h) \subseteq Call
            /\ \A c \in MountCalls(t, h) : Fits(c, activeHost', row')
            BY MountType
      <2> QED BY <2>1, <2>2, <2>3, <2>4 DEF CallsFit, ViewsInv, ViewsTypeOK
<1>2. NoData \in [of : RemoteHost \cup {Nothing}, models : SUBSET Model, err : BOOLEAN]
      BY DEF NoData
<1>3. data' \in [of : RemoteHost \cup {Nothing}, models : SUBSET Model, err : BOOLEAN]
      BY <1>2 DEF Rehost, ViewsInv, ViewsTypeOK
<1> QED BY <1>1, <1>3 DEF ViewsInv, ViewsTypeOK, RowNamed, remote, Rehost, overview

\* The invariant holds initially.
LEMMA ViewsStart == ViewsInit => ViewsInv
<1> SUFFICES ASSUME ViewsInit
             PROVE  ViewsInv
    OBVIOUS
<1>1. /\ info \in [of : RemoteHost \cup {Nothing}, phase : {"unknown", "idle", "running"}]
      /\ row \in [of : RemoteHost \cup {Nothing}, model : Model \cup {Nothing}, stage : Stage]
      /\ RowNamed
      BY DEF ViewsInit, NoInfo, NoRow, Stage, RowNamed
<1>2. start \in [open : BOOLEAN, model : Model \cup {Nothing}, busy : BOOLEAN]
      BY DEF ViewsInit, EMPTY_START
<1>3. data \in [of : RemoteHost \cup {Nothing}, models : SUBSET Model, err : BOOLEAN]
      BY DEF ViewsInit, NoData
<1>4. /\ disk \in [RemoteHost -> SUBSET Model] /\ pulls \in [RemoteHost -> [Model -> Stage]]
      /\ downloader \in [RemoteHost -> [Model -> 0 .. 2]] /\ forgotten \in [RemoteHost -> SUBSET Model]
      BY DEF ViewsInit, Stage
<1>5. activeHost \in RemoteHost \cup {Nothing} /\ tab \in Tab /\ list \subseteq Model /\ calls = {}
      BY DEF ViewsInit, Tab
<1> QED BY <1>1, <1>2, <1>3, <1>4, <1>5 DEF ViewsInv, ViewsTypeOK, CallsFit

\* What the user does keeps the invariant.
LEMMA UserKeeps ==
    ASSUME ViewsInv, User
    PROVE  ViewsInv'
<1>0. calls \subseteq Call /\ CallsFit /\ RowNamed /\ activeHost \in RemoteHost \cup {Nothing} /\ tab \in Tab
      BY DEF ViewsInv, ViewsTypeOK
<1>a. Nothing \in Model \cup {Nothing}
      OBVIOUS
<1>1. ASSUME NEW h \in RemoteHost \cup {Nothing}, ChooseHost(h)
      PROVE  ViewsInv'
      <2>1. activeHost' = h /\ tab' = tab /\ UNCHANGED remote
            /\ (Remount(tab, h) \/ Rehost(tab, h))
            BY <1>1 DEF ChooseHost
      <2> QED BY <1>0, <2>1, RemountKeeps, RehostKeeps
<1>2. ASSUME NEW t \in Tab, OpenTab(t)
      PROVE  ViewsInv'
      BY <1>0, <1>2, RemountKeeps DEF OpenTab
<1>3. CASE ToggleStart
      <2>1. activeHost \in RemoteHost /\ activeHost' = activeHost /\ row' = row
            /\ calls' = calls \cup {Ask("list", activeHost, Nothing)}
            BY <1>0, <1>3 DEF ToggleStart, Shown, app, card
      <2>2. calls' \subseteq Call /\ CallsFit'
            BY <1>0, <1>a, <2>1, CallAdded
      <2>3. start' \in [open : BOOLEAN, model : Model \cup {Nothing}, busy : BOOLEAN]
            BY <1>3 DEF ToggleStart, ViewsInv, ViewsTypeOK
      <2> QED BY <1>3, <2>2, <2>3 DEF ToggleStart, ViewsInv, ViewsTypeOK, RowNamed, app,
                 remote, card
<1>4. ASSUME NEW m \in Model \cup {Nothing}, PickModel(m)
      PROVE  ViewsInv'
      <2>1. start' \in [open : BOOLEAN, model : Model \cup {Nothing}, busy : BOOLEAN]
            BY <1>4 DEF PickModel, ViewsInv, ViewsTypeOK
      <2>2. calls' \subseteq Call /\ CallsFit'
            BY <1>0, <1>4, CallsDropped DEF PickModel, app, card
      <2> QED BY <1>4, <2>1, <2>2 DEF PickModel, ViewsInv, ViewsTypeOK, RowNamed, app,
                 remote, card
<1>5. CASE SubmitStart
      <2>1. /\ activeHost \in RemoteHost /\ activeHost' = activeHost /\ row' = row /\ start.model \in Model \cup {Nothing}
            /\ calls' = calls \cup {Ask("serve", activeHost, start.model)}
            BY <1>0, <1>5 DEF SubmitStart, Shown, app, card, ViewsInv, ViewsTypeOK
      <2>2. calls' \subseteq Call /\ CallsFit'
            BY <1>0, <2>1, CallAdded
      <2>3. \A b \in BOOLEAN : [start EXCEPT !.busy = b]
                               \in [open : BOOLEAN, model : Model \cup {Nothing}, busy : BOOLEAN]
            BY DEF ViewsInv, ViewsTypeOK
      <2>4. start' \in [open : BOOLEAN, model : Model \cup {Nothing}, busy : BOOLEAN]
            <3>1. start' = [start EXCEPT !.busy = TRUE] /\ TRUE \in BOOLEAN
                  BY <1>5, Zenon DEF SubmitStart
            <3> QED BY <2>3, <3>1, Zenon
      <2> QED BY <1>5, <2>2, <2>4 DEF SubmitStart, ViewsInv, ViewsTypeOK, RowNamed, app,
                 remote, card
<1>6. CASE SubmitStop
      <2>1. activeHost \in RemoteHost /\ activeHost' = activeHost /\ row' = row
            /\ calls' = calls \cup {Ask("stop", activeHost, Nothing)}
            BY <1>0, <1>6 DEF SubmitStop, Shown, app, card
      <2>2. calls' \subseteq Call /\ CallsFit'
            BY <1>0, <1>a, <2>1, CallAdded
      <2> QED BY <1>6, <2>2 DEF SubmitStop, ViewsInv, ViewsTypeOK, RowNamed, app, remote,
                 overview, card
<1>7. ASSUME NEW m \in Model, StartPull(m)
      PROVE  ViewsInv'
      <2>1. activeHost \in RemoteHost /\ activeHost' = activeHost /\ row' = row
            /\ calls' = calls \cup {Ask("pull", activeHost, m)}
            BY <1>0, <1>7 DEF StartPull, Shown, app, card
      <2>2. calls' \subseteq Call /\ CallsFit'
            BY <1>0, <2>1, CallAdded
      <2> QED BY <1>7, <2>2 DEF StartPull, ViewsInv, ViewsTypeOK, RowNamed, app, remote,
                 overview, card
<1> QED BY <1>1, <1>2, <1>3, <1>4, <1>5, <1>6, <1>7 DEF User

\* What a host does with a call keeps the invariant.
LEMMA HostSideKeeps ==
    ASSUME ViewsInv, NEW c \in calls, HostSide(c) \/ Fails(c)
    PROVE  ViewsInv'
<1>0. calls \subseteq Call /\ CallsFit /\ RowNamed /\ c \in Call /\ Fits(c, activeHost, row)
      BY DEF ViewsInv, ViewsTypeOK, CallsFit
<1>1. c.host \in RemoteHost /\ c.model \in Model \cup {Nothing} /\ {} \in SUBSET Model
      BY <1>0 DEF Call
<1> DEFINE At == {"sent", "checked", "ok", "failed", "running", "idle"} \cup Stage
<1>2. ASSUME NEW at \in At, Answered(c, [c EXCEPT !.at = at]),
             c.op = "info" => at \in {"failed", "running", "idle"},
             c.op = "status" => at \in {"failed"} \cup Stage,
             UNCHANGED <<app, overview, card>>, UNCHANGED remote
      PROVE  ViewsInv'
      <2> DEFINE a == [c EXCEPT !.at = at]
      <2>0. a = [c EXCEPT !.at = at]
            OBVIOUS
      <2>2. activeHost' = activeHost /\ row' = row /\ Answered(c, a)
            BY <1>2 DEF app, card
      <2> HIDE DEF a
      <2>1. a \in Call /\ a.op = c.op /\ a.host = c.host /\ a.model = c.model /\ a.at = at
            BY <1>0, <2>0, ViewAnswerType
      <2>3. calls' \subseteq Call /\ CallsFit'
            BY <1>0, <1>2, <2>1, <2>2, CallAnswered
      <2> QED BY <1>2, <2>3 DEF ViewsInv, ViewsTypeOK, RowNamed, app, remote, overview,
                 card
<1>3. CASE Read(c)
      <2>1. CASE c.op = "info"
            <3>1. PICK phase \in {"running", "idle"} : Answered(c, [c EXCEPT !.at = phase])
                  BY <1>3, <2>1 DEF Read
            <3> QED BY <1>2, <1>3, <2>1, <3>1 DEF Read
      <2>2. CASE c.op # "info"
            <3> DEFINE s == disk[c.host]
                       a == [c EXCEPT !.at = "ok", !.seen = s]
            <3>1. Answered(c, a) /\ activeHost' = activeHost /\ row' = row /\ c.op \in {"list", "data"}
                  BY <1>3, <2>2 DEF Read, app, card
            <3>2. s \in SUBSET Model
                  BY <1>1 DEF ViewsInv, ViewsTypeOK
            <3> HIDE DEF s
            <3>3. a = [c EXCEPT !.at = "ok", !.seen = s]
                  OBVIOUS
            <3> HIDE DEF a
            <3>4. a \in Call /\ a.op = c.op /\ a.host = c.host /\ a.model = c.model
                  BY <1>0, <3>2, <3>3, ViewListType
            <3>5. calls' \subseteq Call /\ CallsFit'
                  BY <1>0, <3>1, <3>4, CallAnswered
            <3> QED BY <1>3, <3>5 DEF Read, ViewsInv, ViewsTypeOK, RowNamed, app, remote,
                       overview, card
      <2> QED BY <2>1, <2>2
<1>4. CASE Configure(c)
      BY <1>2, <1>4 DEF Configure
<1>5. CASE Fails(c)
      BY <1>2, <1>5 DEF Fails
<1>6. CASE PullCheck(c)
      <2> DEFINE at == IF pulls[c.host][c.model] = "pulling" THEN "pulling" ELSE "checked"
      <2>1. at \in At
            BY DEF Stage
      <2>2. Answered(c, [c EXCEPT !.at = at])
            BY <1>6 DEF PullCheck
      <2> HIDE DEF at
      <2> QED BY <1>2, <1>6, <2>1, <2>2 DEF PullCheck
<1>7. CASE PullStart(c)
      <2>0. "pulling" \in At /\ "pulling" \in Stage
            BY DEF Stage
      <2> DEFINE a == [c EXCEPT !.at = "pulling"]
      <2>1. a \in Call /\ a.op = c.op /\ a.host = c.host /\ a.model = c.model
            BY <1>0, <1>1, <2>0, ViewAnswerType
      <2>2. Answered(c, a) /\ activeHost' = activeHost /\ row' = row /\ c.op = "pull"
            BY <1>7 DEF PullStart, app, card
      <2> HIDE DEF a
      <2>3. calls' \subseteq Call /\ CallsFit'
            BY <1>0, <2>1, <2>2, CallAnswered
      <2>4. pulls' \in [RemoteHost -> [Model -> Stage]]
            BY <1>7, <2>0 DEF PullStart, ViewsInv, ViewsTypeOK
      <2>5. downloader' \in [RemoteHost -> [Model -> 0 .. 2]]
            <3>1. c.model \in Model
                  BY <1>0, <2>2 DEF Fits
            <3> DEFINE d == downloader[c.host]
                       n == d[c.model]
            <3>2. d \in [Model -> 0 .. 2] /\ n \in 0 .. 2 /\ n < 2
                  BY <1>1, <1>7, <3>1 DEF PullStart, ViewsInv, ViewsTypeOK
            <3>3. n + 1 \in 0 .. 2
                  BY <3>2
            <3>4. [d EXCEPT ![c.model] = n + 1] \in [Model -> 0 .. 2]
                  BY <3>2, <3>3
            <3>5. downloader' = [downloader EXCEPT ![c.host] = [d EXCEPT ![c.model] = n + 1]]
                  BY <1>7 DEF PullStart
            <3> HIDE DEF d, n
            <3> QED BY <3>4, <3>5 DEF ViewsInv, ViewsTypeOK
      <2>6. forgotten' \in [RemoteHost -> SUBSET Model]
            BY <1>7 DEF PullStart, ViewsInv, ViewsTypeOK
      <2> QED BY <1>7, <2>3, <2>4, <2>5, <2>6 DEF PullStart, ViewsInv, ViewsTypeOK, RowNamed, app,
                 overview, card
<1>8. CASE PullStatus(c)
      <2> DEFINE at == IF pulls[c.host][c.model] = "none" THEN "failed" ELSE pulls[c.host][c.model]
      <2>0. Answered(c, [c EXCEPT !.at = at]) /\ c.op = "status"
            BY <1>8 DEF PullStatus
      <2>1. at \in {"failed"} \cup Stage
            BY <1>0, <1>1, <2>0 DEF Fits, ViewsInv, ViewsTypeOK
      <2> HIDE DEF at
      <2> QED BY <1>2, <1>8, <2>0, <2>1 DEF PullStatus
<1> QED BY <1>3, <1>4, <1>5, <1>6, <1>7, <1>8 DEF HostSide

\* What the page does with an answer keeps the invariant.
LEMMA ArrivesKeeps ==
    ASSUME ViewsInv, NEW c \in calls, Arrives(c)
    PROVE  ViewsInv'
<1>0. calls \subseteq Call /\ CallsFit /\ RowNamed /\ c \in Call /\ Fits(c, activeHost, row)
      /\ activeHost \in RemoteHost \cup {Nothing}
      BY DEF ViewsInv, ViewsTypeOK, CallsFit
<1>1. c.host \in RemoteHost /\ c.model \in Model \cup {Nothing} /\ c.seen \in SUBSET Model
      BY <1>0 DEF Call
<1>2. ASSUME UNCHANGED <<app, row>>, calls' = calls \ {c}
      PROVE  calls' \subseteq Call /\ CallsFit' /\ activeHost' = activeHost /\ tab' = tab
      BY <1>0, <1>2, CallsDropped DEF app
<1>3. CASE InfoArrives(c)
      <2>1. c.at # "failed" => c.at \in {"running", "idle"}
            BY <1>0, <1>3 DEF InfoArrives, Fits
      <2>2. info' \in [of : RemoteHost \cup {Nothing}, phase : {"unknown", "idle", "running"}]
            BY <1>1, <1>3, <2>1 DEF InfoArrives, ViewsInv, ViewsTypeOK
      <2> QED BY <1>2, <1>3, <2>2 DEF InfoArrives, ViewsInv, ViewsTypeOK, RowNamed, remote,
                 card
<1>4. CASE ListArrives(c)
      BY <1>1, <1>2, <1>4 DEF ListArrives, ViewsInv, ViewsTypeOK, RowNamed, remote, card
<1>5. CASE StartAnswered(c)
      <2>1. \A b \in BOOLEAN : [start EXCEPT !.busy = b]
                               \in [open : BOOLEAN, model : Model \cup {Nothing}, busy : BOOLEAN]
            BY DEF ViewsInv, ViewsTypeOK
      <2>2. EMPTY_START \in [open : BOOLEAN, model : Model \cup {Nothing}, busy : BOOLEAN]
            BY DEF EMPTY_START
      <2>3. FALSE \in BOOLEAN
            OBVIOUS
      <2>4. start' = start \/ start' = EMPTY_START \/ start' = [start EXCEPT !.busy = FALSE]
            <3>1. start' = CASE ~c.here -> start
                             [] c.here /\ c.at = "ok" -> EMPTY_START
                             [] OTHER -> [start EXCEPT !.busy = FALSE]
                  BY <1>5 DEF StartAnswered
            <3>2. CASE ~c.here
                  BY <3>1, <3>2, Zenon
            <3>3. CASE c.here /\ c.at = "ok"
                  BY <3>1, <3>3, Zenon
            <3>4. CASE c.here /\ c.at # "ok"
                  BY <3>1, <3>4, Zenon
            <3> QED BY <3>2, <3>3, <3>4
      <2>5. start \in [open : BOOLEAN, model : Model \cup {Nothing}, busy : BOOLEAN]
            BY DEF ViewsInv, ViewsTypeOK
      <2>6. start' \in [open : BOOLEAN, model : Model \cup {Nothing}, busy : BOOLEAN]
            BY <2>1, <2>2, <2>3, <2>4, <2>5, Zenon
      <2> QED BY <1>2, <1>5, <2>6 DEF StartAnswered, ViewsInv, ViewsTypeOK, RowNamed, remote,
                 card
<1>6. CASE StopAnswered(c) \/ StatusFails(c)
      BY <1>2, <1>6 DEF StopAnswered, StatusFails, ViewsInv, ViewsTypeOK, RowNamed, remote,
         overview, card
<1>7. CASE DataArrives(c)
      <2>1. \A b \in BOOLEAN : [data EXCEPT !.err = b]
                               \in [of : RemoteHost \cup {Nothing}, models : SUBSET Model, err : BOOLEAN]
            BY DEF ViewsInv, ViewsTypeOK
      <2>2. \A b \in BOOLEAN : [of |-> c.host, models |-> c.seen, err |-> b]
                               \in [of : RemoteHost \cup {Nothing}, models : SUBSET Model, err : BOOLEAN]
            BY <1>1
      <2>3. TRUE \in BOOLEAN /\ FALSE \in BOOLEAN
            OBVIOUS
      <2>4. \/ data' = [data EXCEPT !.err = TRUE]
            \/ data' = [of |-> c.host, models |-> c.seen, err |-> FALSE]
            BY <1>7, Zenon DEF DataArrives
      <2>5. data' \in [of : RemoteHost \cup {Nothing}, models : SUBSET Model, err : BOOLEAN]
            BY <2>1, <2>2, <2>3, <2>4, Zenon
      <2> QED BY <1>2, <1>7, <2>5 DEF DataArrives, ViewsInv, ViewsTypeOK, RowNamed, remote,
                 overview
<1>8. CASE PullAnswered(c)
      <2>0. UNCHANGED <<app, remote, overview, data>> /\ c.model \in Model
            BY <1>0, <1>8 DEF PullAnswered, Fits
      <2>1. CASE c.here /\ c.at = "pulling"
            <3>1. row' = [of |-> c.host, model |-> c.model, stage |-> "pulling"]
                  /\ calls' = TornDown(calls \ {c})
                  BY <1>8, <2>1 DEF PullAnswered
            <3>2. row' \in [of : RemoteHost \cup {Nothing}, model : Model \cup {Nothing}, stage : Stage]
                  /\ RowNamed'
                  BY <1>1, <2>0, <3>1 DEF Stage, RowNamed
            <3>3. calls' \subseteq calls /\ \A d \in calls' : d.op \notin {"info", "status"}
                  BY <3>1 DEF TornDown, Polls
            <3>4. calls' \subseteq Call /\ CallsFit'
                  BY <1>0, <3>3 DEF CallsFit, Fits
            <3> QED BY <2>0, <3>2, <3>4 DEF ViewsInv, ViewsTypeOK, app, remote, overview
      <2>2. CASE ~(c.here /\ c.at = "pulling")
            <3>1. row' = row /\ calls' = calls \ {c}
                  BY <1>8, <2>2 DEF PullAnswered
            <3> QED BY <1>2, <2>0, <3>1 DEF ViewsInv, ViewsTypeOK, RowNamed, app, remote,
                       overview
      <2> QED BY <2>1, <2>2
<1>9. CASE RowArrives(c)
      <2>0. /\ UNCHANGED <<app, remote, overview, data>> /\ c.model \in Model
               /\ row.model \in Model
            /\ c.at \in Stage /\ row' = [row EXCEPT !.stage = c.at]
            /\ calls' = TornDown(calls \ {c})
                           \cup (IF c.at = "done" THEN {Ask("data", activeHost, Nothing)} ELSE {})
            BY <1>0, <1>9 DEF RowArrives, Fits
      <2>1. /\ row' \in [of : RemoteHost \cup {Nothing}, model : Model \cup {Nothing}, stage : Stage]
            /\ RowNamed'
            BY <2>0 DEF RowNamed, ViewsInv, ViewsTypeOK
      <2>2. /\ TornDown(calls \ {c}) \subseteq calls
            /\ \A d \in TornDown(calls \ {c}) : d.op \notin {"info", "status"}
            BY DEF TornDown, Polls
      <2>3. \A d \in TornDown(calls \ {c}) : d \in Call /\ Fits(d, activeHost', row')
            BY <1>0, <2>2 DEF CallsFit, Fits
      <2>4. Ask("data", activeHost, Nothing) \in Call /\ Fits(Ask("data", activeHost, Nothing), activeHost', row')
            <3>1. activeHost \in RemoteHost /\ Nothing \in Model \cup {Nothing}
                  BY <1>0, <1>9 DEF RowArrives, Fits
            <3> QED BY <3>1, ViewAskType DEF Fits
      <2>5. calls' \subseteq Call /\ CallsFit'
            BY <2>0, <2>3, <2>4 DEF CallsFit
      <2> QED BY <2>0, <2>1, <2>5 DEF ViewsInv, ViewsTypeOK, app, remote, overview
<1> QED BY <1>3, <1>4, <1>5, <1>6, <1>7, <1>8, <1>9 DEF Arrives


\* What is downloaded keeps the invariant.
LEMMA DownloadsKeep ==
    ASSUME ViewsInv, Downloads
    PROVE  ViewsInv'
<1>1. PICK h \in RemoteHost, m \in Model :
         Progress(h, m) \/ \E end \in {"done", "error"} : PullEnds(h, m, end)
      BY DEF Downloads
<1>2. /\ pulls \in [RemoteHost -> [Model -> Stage]] /\ disk \in [RemoteHost -> SUBSET Model]
      /\ downloader \in [RemoteHost -> [Model -> 0 .. 2]]
      BY DEF ViewsInv, ViewsTypeOK
<1>3. \A s \in Stage : [pulls EXCEPT ![h][m] = s] \in [RemoteHost -> [Model -> Stage]]
      BY <1>2
<1>4. "pulling" \in Stage /\ "done" \in Stage /\ "error" \in Stage
      BY DEF Stage
<1>5. CASE Progress(h, m)
      <2>1. pulls' \in [RemoteHost -> [Model -> Stage]]
            BY <1>3, <1>4, <1>5, Zenon DEF Progress
      <2> QED BY <1>5, <2>1 DEF Progress, ViewsInv, ViewsTypeOK, CallsFit, RowNamed, app,
                 overview, card
<1>6. ASSUME NEW end \in {"done", "error"}, PullEnds(h, m, end)
      PROVE  ViewsInv'
      <2>1. pulls' \in [RemoteHost -> [Model -> Stage]]
            BY <1>3, <1>4, <1>6 DEF PullEnds
      <2>2. disk' \in [RemoteHost -> SUBSET Model]
            BY <1>2, <1>6 DEF PullEnds
      <2>3. downloader' \in [RemoteHost -> [Model -> 0 .. 2]]
            <3> DEFINE d == downloader[h]
                       n == d[m]
            <3>1. d \in [Model -> 0 .. 2] /\ n \in 0 .. 2 /\ n > 0
                  BY <1>2, <1>6 DEF PullEnds
            <3>2. n - 1 \in 0 .. 2
                  BY <3>1
            <3>3. [d EXCEPT ![m] = n - 1] \in [Model -> 0 .. 2]
                  BY <3>1, <3>2
            <3>4. downloader' = [downloader EXCEPT ![h] = [d EXCEPT ![m] = n - 1]]
                  BY <1>6 DEF PullEnds
            <3> HIDE DEF d, n
            <3> QED BY <1>2, <3>3, <3>4
      <2> QED BY <1>6, <2>1, <2>2, <2>3
              DEF PullEnds, ViewsInv, ViewsTypeOK, CallsFit, RowNamed, app, overview, card
<1> QED BY <1>1, <1>5, <1>6

\* A host that starts its service again has an empty table, and fails the request
\* it was at work on.
LEMMA RestartKeeps ==
    ASSUME ViewsInv, NEW h \in RemoteHost, ServiceRestarts(h)
    PROVE  ViewsInv'
<1>0. calls \subseteq Call /\ CallsFit
      BY DEF ViewsInv, ViewsTypeOK
<1>1. pulls' \in [RemoteHost -> [Model -> Stage]]
      <2>1. [m \in Model |-> "none"] \in [Model -> Stage]
            BY DEF Stage
      <2> QED BY <2>1 DEF ServiceRestarts, ViewsInv, ViewsTypeOK
<1>2. downloader' \in [RemoteHost -> [Model -> 0 .. 2]]
      <2>1. [m \in Model |-> 0] \in [Model -> 0 .. 2]
            OBVIOUS
      <2> QED BY <2>1 DEF ServiceRestarts, ViewsInv, ViewsTypeOK
<1>3. forgotten' \in [RemoteHost -> SUBSET Model]
      <2> DEFINE lost == {m \in Model : pulls[h][m] # "none"}
      <2>1. lost \in SUBSET Model /\ forgotten \in [RemoteHost -> SUBSET Model]
            BY DEF ViewsInv, ViewsTypeOK
      <2>2. forgotten' = [forgotten EXCEPT ![h] = @ \cup lost]
            BY DEF ServiceRestarts
      <2> HIDE DEF lost
      <2> QED BY <2>1, <2>2
<1>4. activeHost' = activeHost /\ row' = row
      BY DEF ServiceRestarts, app, card
<1>5. ASSUME NEW c \in calls'
      PROVE  c \in Call /\ Fits(c, activeHost', row')
      <2>1. CASE c \in calls
            BY <1>0, <1>4, <2>1 DEF CallsFit
      <2>2. CASE c \notin calls
            <3>1. PICK d \in calls : c = [d EXCEPT !.at = "failed"]
                  BY <1>5, <2>2 DEF ServiceRestarts
            <3>2. c \in Call /\ c.op = d.op /\ c.host = d.host /\ c.model = d.model /\ c.at = "failed"
                  BY <1>0, <3>1, ViewAnswerType
            <3> QED BY <1>0, <1>4, <3>2 DEF CallsFit, Fits
      <2> QED BY <2>1, <2>2
<1>6. calls' \subseteq Call /\ CallsFit'
      BY <1>5 DEF CallsFit
<1> QED BY <1>1, <1>2, <1>3, <1>6
        DEF ServiceRestarts, ViewsInv, ViewsTypeOK, RowNamed, app, overview, card

\* So do the page's timers.
LEMMA TimersKeep ==
    ASSUME ViewsInv, Tick \/ PollPull
    PROVE  ViewsInv'
<1>0. /\ calls \subseteq Call /\ CallsFit /\ RowNamed /\ activeHost \in RemoteHost \cup {Nothing}
      /\ Nothing \in Model \cup {Nothing}
      BY DEF ViewsInv, ViewsTypeOK
<1>1. CASE Tick
      <2>1. activeHost \in RemoteHost /\ activeHost' = activeHost /\ row' = row
            /\ calls' = calls \cup {Ask("info", activeHost, Nothing)}
            BY <1>0, <1>1 DEF Tick, Shown, app, card
      <2>2. calls' \subseteq Call /\ CallsFit'
            BY <1>0, <2>1, CallAdded
      <2> QED BY <1>1, <2>2 DEF Tick, ViewsInv, ViewsTypeOK, RowNamed, app, remote,
                 overview, card
<1>2. CASE PollPull
      <2>1. /\ activeHost \in RemoteHost /\ activeHost' = activeHost /\ row' = row /\ row.model \in Model
            /\ calls' = calls \cup {Ask("status", activeHost, row.model)}
            BY <1>0, <1>2 DEF PollPull, Shown, RowNamed, app, card
      <2>2. calls' \subseteq Call /\ CallsFit'
            BY <1>0, <2>1, CallAdded
      <2> QED BY <1>2, <2>2 DEF PollPull, ViewsInv, ViewsTypeOK, RowNamed, app, remote,
                 overview, card
<1> QED BY <1>1, <1>2

\* Every step keeps the invariant.
LEMMA ViewsSteps == ViewsInv /\ [ViewsNext]_viewsVars => ViewsInv'
<1> SUFFICES ASSUME ViewsInv, [ViewsNext]_viewsVars
             PROVE  ViewsInv'
    OBVIOUS
<1>1. CASE User
      BY <1>1, UserKeeps
<1>2. CASE Downloads
      BY <1>2, DownloadsKeep
<1>3. CASE Tick \/ PollPull
      BY <1>3, TimersKeep
<1>4. ASSUME NEW c \in calls, HostSide(c) \/ Fails(c) \/ Arrives(c)
      PROVE  ViewsInv'
      BY <1>4, HostSideKeeps, ArrivesKeeps
<1>5. ASSUME NEW h \in RemoteHost, ServiceRestarts(h)
      PROVE  ViewsInv'
      BY <1>5, RestartKeeps
<1>6. CASE UNCHANGED viewsVars
      BY <1>6 DEF viewsVars, app, remote, overview, card, ViewsInv, ViewsTypeOK, CallsFit,
         RowNamed
<1> QED BY <1>1, <1>2, <1>3, <1>4, <1>5, <1>6 DEF ViewsNext

\* What is on screen, and every call, is what the code can hold.
THEOREM RemoteViewsTypeCorrect == ViewsSpec => []ViewsTypeOK
<1>1. ViewsInv => ViewsTypeOK
      BY DEF ViewsInv
<1> QED BY <1>1, ViewsStart, ViewsSteps, PTL DEF ViewsSpec

\* A step that leaves host and tab as they are keeps the overview on the host it
\* shows: only the answer to a poll changes it, and that poll calls this host.
LEMMA NeverStaleStep ==
    ASSUME ViewsInv, [ViewsNext]_viewsVars, info.of = activeHost, activeHost' = activeHost, tab' = tab
    PROVE  info'.of = activeHost
<1>1. CASE User
      <2>1. CASE \E h \in RemoteHost \cup {Nothing} : ChooseHost(h)
            BY <2>1 DEF ChooseHost
      <2>2. CASE \E t \in Tab : OpenTab(t)
            BY <2>2 DEF OpenTab
      <2>3. CASE \E m \in Model \cup {Nothing} : PickModel(m)
            BY <2>3 DEF PickModel
      <2>4. CASE ToggleStart \/ SubmitStart \/ SubmitStop
            BY <2>4 DEF ToggleStart, SubmitStart, SubmitStop, overview
      <2>5. CASE \E m \in Model : StartPull(m)
            BY <2>5 DEF StartPull, overview
      <2> QED BY <1>1, <2>1, <2>2, <2>3, <2>4, <2>5 DEF User
<1>2. CASE Downloads
      BY <1>2 DEF Downloads, Progress, PullEnds, overview
<1>3. CASE Tick \/ PollPull
      BY <1>3 DEF Tick, PollPull, overview
<1>4. ASSUME NEW c \in calls, HostSide(c) \/ Fails(c)
      PROVE  info'.of = activeHost
      BY <1>4 DEF HostSide, Fails, Read, Configure, PullCheck, PullStart,
         PullStatus, overview
<1>5. ASSUME NEW c \in calls, Arrives(c)
      PROVE  info'.of = activeHost
      <2>1. CASE InfoArrives(c)
            <3>1. c.host = activeHost
                  BY <2>1 DEF InfoArrives, ViewsInv, CallsFit, Fits
            <3> QED BY <2>1, <3>1 DEF InfoArrives
      <2>2. CASE ~InfoArrives(c)
            BY <1>5, <2>2 DEF Arrives, ListArrives, StartAnswered, StopAnswered,
               DataArrives,
               PullAnswered, RowArrives, StatusFails, overview
      <2> QED BY <2>1, <2>2
<1>6. CASE \E h \in RemoteHost : ServiceRestarts(h)
      BY <1>6 DEF ServiceRestarts, overview
<1>7. CASE UNCHANGED viewsVars
      BY <1>7 DEF viewsVars, overview
<1> QED BY <1>1, <1>2, <1>3, <1>4, <1>5, <1>6, <1>7 DEF ViewsNext

\* Once the overview shows the chosen host's state, no late answer puts another
\* host's in its place (the alive flags of the polling effects).
THEOREM NeverStale == ViewsSpec => NeverStaleAgain
<1>1. ViewsInv /\ [ViewsNext]_viewsVars
         => [info.of = activeHost /\ activeHost' = activeHost /\ tab' = tab => info'.of = activeHost]_viewsVars
      BY NeverStaleStep
<1> QED BY <1>1, ViewsStart, ViewsSteps, PTL DEF ViewsSpec, NeverStaleAgain
=============================================================================

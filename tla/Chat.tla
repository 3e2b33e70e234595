-------------------------------- MODULE Chat ---------------------------------
(***************************************************************************)
(* The chats of the desktop: with the local service on the dashboard            *)
(* (DashboardChat.tsx, with the prompt cache before it), with the server just     *)
(* deployed (VerifyChat.tsx), and with a remote host (RemoteChatCard in            *)
(* DashboardExplorer.tsx, RemoteChatStream in hostconn.go).                         *)
(*                                                                          *)
(* A send is an asynchronous function of the component that began it.  It goes on    *)
(* when the component is left: what it then tells the component is lost, what it       *)
(* stores is not.  A local chat writes into its last message what it has read; a        *)
(* remote one appends what events bring, of which only the host is looked at.            *)
(*                                                                          *)
(* The dashboard shows its chat while it believes the service to serve, and next to         *)
(* it the card of the prompt cache (PromptCacheCard.tsx); what the card shows, which          *)
(* may be four seconds old, is left out, and so is what it tunes but the switch.               *)
(* Which parameters an answer was asked for with is left out; the cache's key is                *)
(* the conversation, any two may be similar enough for a hit, and any entry may                 *)
(* have expired or be the one that was not used for longest (cache.go).                          *)
(***************************************************************************)
EXTENDS Naturals, Sequences, SequencesExt

CONSTANTS Text,      \* what the user may type
          Host,      \* remote hosts
          None,
          MaxSends,  \* bound on the messages sent
          MaxChunks  \* bound on the pieces of an answer

ASSUME ChatAssumption == None \notin Text \cup Host /\ MaxSends \in Nat /\ MaxChunks \in Nat

VARIABLES
    kind,        \* which of the chats this is
    open, host,  \* it is on screen; the active host
    input, compressing, messages,
    sends, serial,  \* sends in progress; sends begun
    serving,     \* the dashboard's last look found the service serving
    enabled, cache, \* the prompt cache: whether it is on, its entries
    stores,      \* answers on their way to the cache
    told,        \* history: the answers that came to their end
    left         \* history: the sends whose component was left

component == <<open, host, input, compressing, messages>>
vars == <<kind, serving, component, sends, serial, enabled, cache, stores, told, left>>

Kind == {"dashboard", "verify", "remote"}
Remote == kind = "remote"
Id == 1 .. MaxSends
Turn(role, id, h, text) == [role |-> role, of |-> id, host |-> h, text |-> text]
Piece(s, n) == [id |-> s.id, host |-> s.host, n |-> n]
Answer(s, n) == [i \in 1 .. n |-> Piece(s, i)]

\* A conversation as it is sent, and as it is a key: who said what.
Wire(turns) == [i \in DOMAIN turns |-> [role |-> turns[i].role, text |-> turns[i].text]]

TypeOK ==
    /\ kind \in Kind /\ open \in BOOLEAN /\ serving \in BOOLEAN /\ enabled \in BOOLEAN
    /\ host \in Host \cup {None} /\ (Remote <=> host # None)
    /\ input \in Text \cup {None} /\ compressing \in BOOLEAN /\ serial \in 0 .. MaxSends
    /\ \A i \in DOMAIN messages :
          messages[i].role \in {"user", "assistant"} /\ messages[i].of \in Id
    /\ left \subseteq 1 .. serial
    /\ \A s \in sends :
          s.id \in 1 .. serial /\ s.here \in BOOLEAN /\ s.got \in 0 .. MaxChunks
          /\ s.at \in {"lookup", "config", "fetching", "streaming"}

Init ==
    /\ kind \in Kind /\ open = FALSE
    /\ host \in (IF Remote THEN Host ELSE {None})
    /\ serving = FALSE /\ enabled \in (IF kind = "dashboard" THEN BOOLEAN ELSE {FALSE})
    /\ input = None /\ compressing = FALSE /\ messages = <<>>
    /\ sends = {} /\ serial = 0 /\ cache = {} /\ stores = {} /\ told = {} /\ left = {}

\* setSending: a component has at most one send of its own.
Sending == \E s \in sends : s.here
-----------------------------------------------------------------------------
(* The component. *)

Enter ==
    /\ ~open /\ open' = TRUE
    /\ kind = "dashboard" => serving
    /\ UNCHANGED <<kind, serving, host, input, compressing, messages, sends, serial, enabled, cache, stores, told, left>>

Unmounted ==
    /\ open' = FALSE
    /\ input' = None /\ compressing' = FALSE /\ messages' = <<>>
    /\ sends' = {[s EXCEPT !.here = FALSE] : s \in sends}
    /\ left' = left \cup {s.id : s \in sends}

\* Another tab or another page.
Leave ==
    /\ open /\ Unmounted
    /\ UNCHANGED <<kind, serving, host, serial, enabled, cache, stores, told>>

\* The dashboard looks at the service every two seconds; a look that fails
\* changes nothing.  A service that does not serve takes the chat off.
ServiceSeen(up) ==
    /\ kind = "dashboard" /\ up # serving /\ serving' = up
    /\ IF open THEN Unmounted ELSE UNCHANGED <<component, sends, left>>
    /\ UNCHANGED <<kind, host, serial, enabled, cache, stores, told>>

\* The card of one remote host becomes the card of another as it is.
SelectHost(h) ==
    /\ Remote /\ host' = h
    /\ UNCHANGED <<kind, serving, open, input, compressing, messages, sends, serial, enabled, cache, stores, told, left>>

\* A local chat's field is disabled while it sends.
Type(w) ==
    /\ open /\ (Remote \/ ~Sending) /\ input' = w
    /\ UNCHANGED <<kind, serving, open, host, compressing, messages, sends, serial, enabled, cache, stores, told, left>>

\* Send stays enabled meanwhile; what comes back takes the place of whatever is there.
Compress ==
    /\ open /\ kind = "dashboard" /\ ~Sending /\ ~compressing /\ input # None
    /\ compressing' = TRUE
    /\ UNCHANGED <<kind, serving, open, host, input, messages, sends, serial, enabled, cache, stores, told, left>>

CompressEnds ==
    /\ compressing /\ compressing' = FALSE
    /\ input' \in Text \cup {input}
    /\ UNCHANGED <<kind, serving, open, host, messages, sends, serial, enabled, cache, stores, told, left>>

ClearChat ==
    /\ open /\ kind # "verify" /\ ~Sending /\ messages # <<>>
    /\ messages' = <<>>
    /\ UNCHANGED <<kind, serving, open, host, input, compressing, sends, serial, enabled, cache, stores, told, left>>

\* send: the user's turn and an empty one for the answer, which is not sent.
Send ==
    /\ open /\ input # None /\ ~Sending /\ serial < MaxSends
    /\ LET id == serial + 1
           asked == Append(messages, Turn("user", id, host, <<input>>))
       IN  /\ messages' = Append(asked, Turn("assistant", id, host, <<>>))
           /\ sends' = sends \cup
                 {[id |-> id, here |-> TRUE, host |-> host, key |-> Wire(asked), got |-> 0,
                   at |-> CASE kind = "dashboard" -> "lookup" [] kind = "verify" -> "config"
                            [] OTHER -> "fetching"]}
           /\ serial' = id
    /\ input' = None
    /\ UNCHANGED <<kind, serving, open, host, compressing, enabled, cache, stores, told, left>>
-----------------------------------------------------------------------------
(* A local send. *)

Goes(s, at) == sends' = (sends \ {s}) \cup {[s EXCEPT !.at = at]}
Over(s) == sends' = sends \ {s}

\* Mutant: the messages outlive the component, and an old send still writes to them.
ShowsAnyway(s, text) ==
    messages' = IF messages # <<>> THEN [messages EXCEPT ![Len(messages)].text = text] ELSE messages

\* What the send makes of its component's last message, if there still is one.
Shows(s, text) ==
    messages' = IF s.here THEN [messages EXCEPT ![Len(messages)].text = text] ELSE messages

\* LookupPromptCache: entries past their age are dropped.  A failure counts as
\* a miss, and so does a cache that is off.
Lookup(s) ==
    /\ s.at = "lookup"
    /\ cache' \in (IF enabled THEN SUBSET cache ELSE {cache})
    /\ \/ enabled /\ \E e \in cache' : Shows(s, e.text) /\ Over(s)
       \/ Goes(s, "config") /\ UNCHANGED messages
    /\ UNCHANGED <<kind, serving, open, host, input, compressing, serial, enabled, stores, told, left>>

\* CurrentServeConfig, for the key of the API.  Stop does nothing before this is over.
ReadConfig(s) ==
    /\ s.at = "config" /\ Goes(s, "fetching")
    /\ UNCHANGED <<kind, serving, component, serial, enabled, cache, stores, told, left>>

Responds(s) ==
    /\ s.at = "fetching" /\ Goes(s, "streaming")
    /\ UNCHANGED <<kind, serving, component, serial, enabled, cache, stores, told, left>>

ReadChunk(s) ==
    /\ ~Remote /\ s.at = "streaming" /\ s.got < MaxChunks
    /\ sends' = (sends \ {s}) \cup {[s EXCEPT !.got = @ + 1]}
    /\ Shows(s, Answer(s, s.got + 1))
    /\ UNCHANGED <<kind, serving, open, host, input, compressing, serial, enabled, cache, stores, told, left>>

Entry(s) == [key |-> s.key, text |-> Answer(s, s.got)]

\* A local chat of the dashboard sends what it has read to the cache, and does
\* not wait for it.
StreamEnds(s) ==
    /\ ~Remote /\ s.at = "streaming" /\ Over(s)
    /\ stores' = IF kind = "dashboard" /\ s.got > 0 THEN stores \cup {Entry(s)} ELSE stores
    /\ told' = told \cup {Entry(s)}
    /\ UNCHANGED <<kind, serving, component, serial, enabled, cache, left>>

\* No key, no server, a refusal, a stream that breaks: the answer is taken away.
SendFails(s) ==
    /\ ~Remote /\ s.at # "lookup" /\ (s.at = "config" => kind = "dashboard") /\ Over(s)
    /\ messages' = IF s.here THEN Front(messages) ELSE messages
    /\ UNCHANGED <<kind, serving, open, host, input, compressing, serial, enabled, cache, stores, told, left>>

\* Mutant: what was read before the abort is stored as well.
AbortedStored(s) == stores' = stores \cup {Entry(s)}

Aborted(s) == stores' = stores

\* The user's Stop: what has been read stays, there is no error.
StopSend(s) ==
    /\ ~Remote /\ s.here /\ s.at \in {"fetching", "streaming"} /\ Over(s) /\ Aborted(s)
    /\ UNCHANGED <<kind, serving, component, serial, enabled, cache, told, left>>
-----------------------------------------------------------------------------
(* The prompt cache. *)

\* What the entries may be once e is one of them: it takes the place of the entry
\* of its key, or those that are too many make room.
With(e) ==
    LET same == {f \in cache : f.key = e.key}
    IN  IF same # {} THEN {(cache \ same) \cup {e}} ELSE {kept \cup {e} : kept \in SUBSET cache}

\* StorePromptCache, which may fail.
Store(e) ==
    /\ stores' = stores \ {e}
    /\ cache' \in {cache} \cup (IF enabled THEN With(e) ELSE {})
    /\ UNCHANGED <<kind, serving, component, sends, serial, enabled, told, left>>

\* The cache's card is on screen with the chat: Save, and Clear cache.
SetPromptCacheConfig(on) ==
    /\ open /\ kind = "dashboard" /\ enabled' = on
    /\ UNCHANGED <<kind, serving, component, sends, serial, cache, stores, told, left>>

ClearPromptCache ==
    /\ open /\ kind = "dashboard" /\ cache' = {}
    /\ UNCHANGED <<kind, serving, component, sends, serial, enabled, stores, told, left>>
-----------------------------------------------------------------------------
(* A remote send: RemoteChatStream, its events and its result. *)

\* The event carries the id of its host, not of what it answers.
ForUs(s) == open /\ host = s.host

Delta(s) ==
    /\ Remote /\ s.at = "streaming" /\ s.got < MaxChunks
    /\ sends' = (sends \ {s}) \cup {[s EXCEPT !.got = @ + 1]}
    /\ messages' =
          IF ForUs(s) /\ messages # <<>> /\ Last(messages).role = "assistant"
          THEN [messages EXCEPT ![Len(messages)].text = Append(@, Piece(s, s.got + 1))]
          ELSE messages
    /\ UNCHANGED <<kind, serving, open, host, input, compressing, serial, enabled, cache, stores, told, left>>

RemoteEnds(s, ok) ==
    /\ Remote /\ (ok => s.at = "streaming") /\ Over(s)
    /\ messages' =
          IF s.here /\ ~ok /\ messages # <<>> /\ Last(messages).role = "assistant" /\ Last(messages).text = <<>>
          THEN Front(messages) ELSE messages
    /\ UNCHANGED <<kind, serving, open, host, input, compressing, serial, enabled, cache, stores, told, left>>
-----------------------------------------------------------------------------
Next ==
    \/ Enter \/ Leave \/ Compress \/ CompressEnds \/ ClearChat \/ Send
    \/ \E h \in Host : SelectHost(h)
    \/ \E up \in BOOLEAN : ServiceSeen(up)
    \/ \E on \in BOOLEAN : SetPromptCacheConfig(on)
    \/ ClearPromptCache \/ \E e \in stores : Store(e)
    \/ \E w \in Text : Type(w)
    \/ \E s \in sends :
          \/ Lookup(s) \/ ReadConfig(s) \/ Responds(s) \/ ReadChunk(s) \/ StreamEnds(s)
          \/ SendFails(s) \/ StopSend(s) \/ Delta(s)
          \/ \E ok \in BOOLEAN : RemoteEnds(s, ok)

Spec == Init /\ [][Next]_vars
-----------------------------------------------------------------------------
OneAnswer(text) == \A j \in DOMAIN text : text[j] = [Head(text) EXCEPT !.n = j]

\* What stands as an answer is the beginning of one answer: the one to the turn
\* before it, or one from the cache.  In a remote chat there may be pieces among
\* it of sends whose component was left, and of no other.
AnswersApart ==
    \A i \in DOMAIN messages :
        LET m == messages[i]
            own == {id \in Id : id = m.of \/ (Remote /\ id \in left)}
        IN  m.role = "assistant" =>
                /\ Remote \/ OneAnswer(m.text)
                /\ kind = "dashboard" \/ \A j \in DOMAIN m.text : m.text[j].id \in own

\* An answer the cache can give is a whole one, and was given to just the
\* conversation it is filed under: none that was stopped, broke off, or was
\* asked for by a conversation that has gone on since.
CachedWhole == \A e \in cache : e \in told
=============================================================================

----------------------------- MODULE TurnStream -----------------------------
(***************************************************************************)
(* The reply of a turn on its way from the language model to the user:     *)
(* the OpenAI-compatible client (agentx/llm), the runtime goroutine that   *)
(* forwards its deltas (agentx/runtime.go), the turn that sanitizes,       *)
(* publishes and stores them (api/ws_chat.go, agentx/postprocess) and the  *)
(* web client that shows them (Nukara_Web/src/stores/chat.js).             *)
(*                                                                         *)
(* A text is a sequence of tokens.  A marker that opens hidden text is two *)
(* tokens, for a delta may end inside it: "[s" "s:" opens a status or      *)
(* emotion tag, "[m" "m:" a memory or system tag, both closed by "]"; "<t" *)
(* "t>" opens the model's thoughts, closed by "/>"; "<M" "M>" is the       *)
(* boundary between two messages.  "h" and "h." are hidden text, "h." with *)
(* the end of a sentence in it, "." ends a sentence, "_" is white space.   *)
(***************************************************************************)
EXTENDS Naturals, Sequences, SequencesExt, FiniteSets

CONSTANTS
  Words,        \* the tokens the user is meant to read
  Streams,      \* what the model may answer: sequences of event texts
  Modes,        \* the API modes tried in turn: "responses" or "chat"
  MaxAttempts,  \* openAICompatMaxRetryAttempts (openai_compat.go:19)
  RawCap,       \* capacity of the client's delta channel (openai_compat.go:127)
  DeltaCap,     \* capacity of the runtime's delta channel (runtime.go:103)
  MaxTurns,     \* bound: turns of the conversation
  MaxLoads,     \* bound: times the user opens the conversation
  MaxDrops      \* bound: times the client's connection breaks

ASSUME StreamAssumption ==
  /\ MaxAttempts \in Nat \ {0} /\ RawCap \in Nat \ {0} /\ DeltaCap \in Nat \ {0}
  /\ MaxTurns \in Nat /\ MaxLoads \in Nat /\ MaxDrops \in Nat
  /\ Modes \in Seq({"responses", "chat"}) \ {<<>>}

FirstHalves == {"[s", "[m", "<t", "<M"}
Second(t) == CASE t = "[s" -> "s:" [] t = "[m" -> "m:" [] t = "<t" -> "t>" [] t = "<M" -> "M>"
Fallback == <<"fallback">>

VARIABLES
  call,     \* the request to the model: state, modes left, attempt, whether its
            \* answer is deduplicated
  rest,     \* event texts the decoder has yet to read
  acc,      \* responsesAccumulated (openai_compat.go:289)
  raw, rawOpen,       \* the client's delta channel
  err,                \* the client's error channel: "none", "sent" or "closed"
  rt,       \* the runtime's goroutine: state, rawText, channels seen closed, delta in hand
  deltas, deltasOpen, final,   \* what the runtime hands to the turn
  turn,     \* processQueuedTurn: state, number, sanitizer, segments left to store
  late,     \* the turn's context has ended
  streamed, \* the text published in chunks by this turn
  answered, \* the answer to this turn's request, once it was read to its end
  stored,   \* SaveMessage: [turn, text]; the position is the message's id
  failed,   \* turns that ended in an error event
  wire,     \* events on their way to the client
  up,       \* the client's connection
  lost,     \* turns some of whose events the client missed
  drops,    \* connections broken so far
  view,     \* the client shows this conversation (chat.js conversationId)
  shown,    \* chat.js messages
  drafts,   \* chat.js streamDraftByReply
  typing,   \* chat.js isRemoteTyping
  loads,    \* loadMessages calls that wait for their answer
  opened    \* number of loadMessages calls so far

model == <<call, rest, acc, raw, rawOpen, err>>
pipe == <<rt, deltas, deltasOpen, final>>
reply == <<turn, late, streamed, stored, failed>>
link == <<wire, up, lost, drops>>
page == <<view, shown, drafts, typing, loads, opened>>
vars == <<model, pipe, answered, reply, link, page>>

-----------------------------------------------------------------------------
(* Texts.                                                                  *)

Blank(text) == \A i \in DOMAIN text : text[i] = "_"
HasPair(text, a, b) == \E i \in 2 .. Len(text) : text[i - 1] = a /\ text[i] = b

(* The fold of a text from the left, token by token.  FoldLeft of          *)
(* SequencesExt goes through the subsets of the domain, and a state bound  *)
(* by \in is computed once, too, where TLC asks whether a step is enabled. *)
Scan(op(_, _), base, text) ==
  LET state[i \in 0 .. Len(text)] ==
        IF i = 0 THEN base ELSE CHOOSE r \in {op(s, text[i]) : s \in {state[i - 1]}} : TRUE
  IN  state[Len(text)]

(* The text without the tokens at the given positions.                     *)
Without(text, positions) ==
  FlattenSeq([i \in DOMAIN text |-> IF i \in positions THEN <<>> ELSE <<text[i]>>])

(* strings.TrimSpace.                                                      *)
Trim(text) ==
  IF Blank(text) THEN <<>>
  ELSE LET kept == {i \in DOMAIN text : text[i] # "_"}
       IN  SubSeq(text, CHOOSE i \in kept : \A j \in kept : i <= j,
                        CHOOSE i \in kept : \A j \in kept : j <= i)

WordsOf(text) == SelectSeq(text, LAMBDA t : t \in Words)

(* Removes what the markers with second half in "opens" hide, up to and    *)
(* with "close"; an opened part that is never closed stays, as the regular *)
(* expressions of sanitize.go and emotion.go do not match it.              *)
Strip(text, opens, close) ==
  Without(text, {i \in DOMAIN text : \E j, k \in DOMAIN text :
                   /\ text[j] \in opens /\ text[k] = close
                   /\ i \in j - 1 .. k /\ \A l \in j .. k - 1 : text[l] # close})

StripThoughts(text) == Strip(text, {"t>"}, "/>")
SplitAt(text, cut(_)) ==
  LET Step(s, t) == IF cut(t) THEN Append(s, <<>>)
                    ELSE [s EXCEPT ![Len(s)] = Append(@, t)]
  IN  Scan(Step, << <<>> >>, text)

(* SplitSegments: at the boundaries when there are any, else after each    *)
(* sentence; the texts here are shorter than its limit of 80 runes.        *)
SplitSegments(text) ==
  LET pieces ==
        IF HasPair(text, "<M", "M>")
        THEN SplitAt(SelectSeq(text, LAMBDA t : t # "<M"), LAMBDA t : t = "M>")
        ELSE SplitAt(FlattenSeq([i \in DOMAIN text |->
                       IF text[i] \in {".", "h."} THEN <<text[i], "cut">> ELSE <<text[i]>>]),
                     LAMBDA t : t = "cut")
  IN  SelectSeq([i \in DOMAIN pieces |-> Trim(pieces[i])], LAMBDA p : p # <<>>)

(* SanitizeVisible: thoughts, closed tags and boundaries go.               *)
SanitizeVisible(text) ==
  Trim(SelectSeq(Strip(StripThoughts(text), {"s:", "m:"}, "]"), LAMBDA t : t \notin {"<M", "M>"}))

(* SanitizeLLMReply: thoughts and system tags go, status tags stay.        *)
SanitizeLLMReply(text) == Trim(Strip(StripThoughts(text), {"m:"}, "]"))

(* ExtractStatus: a status tag at the end is cut off, unless nothing else  *)
(* would be left.                                                          *)
ExtractStatus(text) ==
  LET opens == {i \in DOMAIN text : text[i] = "s:" /\ i > 1}
  IN  IF opens = {} \/ Last(text) # "]" THEN text
      ELSE LET first == CHOOSE i \in opens : \A j \in opens : i <= j
               head  == Trim(SubSeq(text, 1, first - 2))
           IN  IF head = <<>> THEN text ELSE head

(* stripVisibleTags: the opening marker alone is removed, in one delta.    *)
StripVisibleTags(delta) ==
  Without(delta, UNION {{i - 1, i} : i \in {j \in 2 .. Len(delta) : delta[j - 1] = "[s" /\ delta[j] = "s:"}})

(* StreamSanitizer.Push: what of carry and delta can be shown, and what is *)
(* kept for the next delta because a marker in it is unfinished.           *)
NewSanitizer == [out |-> <<>>, carry |-> <<>>, think |-> FALSE]
Push(san, delta) ==
  LET Plain(s, t) == IF t \in FirstHalves THEN [s EXCEPT !.carry = <<t>>] ELSE [s EXCEPT !.out = Append(@, t)]
      Step(s, t) ==
        CASE s.think -> [s EXCEPT !.think = (t # "/>")]
          [] ~s.think /\ Len(s.carry) > 1 ->
               [s EXCEPT !.carry = IF t = "]" THEN <<>> ELSE Append(@, t)]
          [] ~s.think /\ Len(s.carry) = 1 ->
               IF t # Second(s.carry[1])
               THEN Plain([s EXCEPT !.out = @ \o s.carry, !.carry = <<>>], t)
               ELSE [s EXCEPT !.think = (t = "t>"),
                              !.carry = IF t \in {"t>", "M>"} THEN <<>> ELSE Append(@, t)]
          [] OTHER -> Plain(s, t)
  IN  Scan(Step, [san EXCEPT !.out = <<>>], delta)

-----------------------------------------------------------------------------
(* The client of the language model.                                       *)

(* One mode failed: the next is tried, and when none is left StreamChat    *)
(* and with it StreamTurn return the error.                                *)
ModeFails ==
  call' = IF Len(call.modes) > 1
          THEN [call EXCEPT !.state = "asking", !.modes = Tail(@), !.attempt = 1]
          ELSE [call EXCEPT !.state = "failed"]

(* The request fails, or is answered with a status that is not retried; it *)
(* fails too when the context has ended.                                   *)
Refuse ==
  /\ call.state = "asking"
  /\ ModeFails
  /\ UNCHANGED <<rest, acc, raw, rawOpen, err, pipe, answered, reply, link, page>>

(* Status 429: wait and ask again, a bounded number of times.              *)
TooMany ==
  /\ call.state = "asking"
  /\ IF call.attempt = MaxAttempts THEN ModeFails ELSE call' = [call EXCEPT !.state = "waiting"]
  /\ UNCHANGED <<rest, acc, raw, rawOpen, err, pipe, answered, reply, link, page>>

(* The wait is over, or the context ended during it.                       *)
Retry ==
  /\ call.state = "waiting"
  /\ \/ call' = [call EXCEPT !.state = "asking", !.attempt = @ + 1]
     \/ late /\ ModeFails
  /\ UNCHANGED <<rest, acc, raw, rawOpen, err, pipe, answered, reply, link, page>>

(* What the decoder will read.  An event stream is a sequence of deltas,   *)
(* trimmed in chat mode, followed by an event with the whole text and      *)
(* deduplicated in responses mode; a JSON body is one text; the legacy     *)
(* agent's reply is cut into segments.                                     *)
Kinds == {"responses", "chat", "json", "legacy"}
Bodies == [s \in Streams, kind \in Kinds |->
  CASE kind = "responses" -> Append(s, FlattenSeq(s))
    [] kind = "chat"      -> [i \in DOMAIN s |-> Trim(s[i])]
    [] kind = "json"      -> <<Trim(FlattenSeq(s))>>
    [] kind = "legacy"    -> SplitSegments(FlattenSeq(s))]

(* Status 200: the decoder and the runtime's goroutine start.              *)
Answer ==
  /\ call.state = "asking" /\ ~late
  /\ \E s \in Streams, kind \in {Head(call.modes), "json", "legacy"} :
       /\ rest' = Bodies[s, kind]
       /\ answered' = [text |-> FlattenSeq(s), whole |-> FALSE]
       /\ call' = [call EXCEPT !.state = "streaming", !.dedupe = (kind = "responses")]
  /\ acc' = <<>> /\ raw' = <<>> /\ rawOpen' = TRUE /\ err' = "none"
  /\ rt' = [state |-> "on", text |-> <<>>, rawEnd |-> FALSE, errEnd |-> FALSE, hand |-> <<>>]
  /\ deltas' = <<>> /\ deltasOpen' = TRUE /\ final' = <<>>
  /\ turn' = [turn EXCEPT !.state = "reading"]
  /\ UNCHANGED <<late, streamed, stored, failed, link, page>>

(* The delta an event adds: in responses mode what was sent before is      *)
(* taken off its front.                                                    *)
DeltaOf(text) ==
  IF call.dedupe /\ IsPrefix(acc, text) THEN SubSeq(text, Len(acc) + 1, Len(text)) ELSE text

(* Fault: the event is sent although the channel is full.                  *)
EmitUnbounded ==
  /\ call.state = "streaming" /\ rest # <<>>
  /\ raw' = Append(raw, DeltaOf(Head(rest))) /\ acc' = acc \o DeltaOf(Head(rest))
  /\ rest' = Tail(rest)
  /\ UNCHANGED <<call, rawOpen, err, pipe, answered, reply, link, page>>

(* decodeSSEStream, decodeJSONResponse: the next text goes into the        *)
(* channel, unless it is blank.                                            *)
Emit ==
  /\ call.state = "streaming" /\ rest # <<>>
  /\ LET d == DeltaOf(Head(rest))
     IN  IF Blank(d) THEN UNCHANGED <<raw, acc>>
         ELSE Len(raw) < RawCap /\ raw' = Append(raw, d) /\ acc' = acc \o d
  /\ rest' = Tail(rest)
  /\ UNCHANGED <<call, rawOpen, err, pipe, answered, reply, link, page>>

(* Fault: a sender blocked on the full channel does not watch the context. *)
HangupUnlessBlocked(broken) ==
  /\ call.state = "streaming"
  /\ IF broken THEN rest = <<>> \/ Len(raw) < RawCap ELSE rest = <<>>
  /\ err' = IF broken THEN "sent" ELSE "closed"
  /\ rawOpen' = FALSE
  /\ answered' = [answered EXCEPT !.whole = ~broken]
  /\ call' = [call EXCEPT !.state = "over"]
  /\ UNCHANGED <<rest, acc, raw, pipe, reply, link, page>>

(* The body is read to its end, or breaks off: by the provider at any time *)
(* and, once the context has ended, by the reader or the blocked sender.   *)
(* The deferred calls close both channels.                                 *)
Hangup(broken) ==
  /\ call.state = "streaming"
  /\ broken \/ rest = <<>>
  /\ err' = IF broken THEN "sent" ELSE "closed"
  /\ rawOpen' = FALSE
  /\ answered' = [answered EXCEPT !.whole = ~broken]
  /\ call' = [call EXCEPT !.state = "over"]
  /\ UNCHANGED <<rest, acc, raw, pipe, reply, link, page>>

-----------------------------------------------------------------------------
(* The runtime's goroutine: a select over the context and both channels.   *)

outside == <<call, rest, acc, answered, reply, link, page>>

Selecting == rt.state = "on" /\ rt.hand = <<>> /\ ~(rt.rawEnd /\ rt.errEnd)

(* Hands over the final turn and closes its channels.                      *)
FinishWith(text) ==
  /\ final' = <<text>>
  /\ deltasOpen' = FALSE
  /\ rt' = [rt EXCEPT !.state = "over"]

TakeDelta ==
  /\ Selecting /\ raw # <<>>
  /\ LET d == Head(raw)
         visible == StripVisibleTags(d)
     IN  rt' = [rt EXCEPT !.text = @ \o d, !.hand = IF Blank(visible) THEN <<>> ELSE visible]
  /\ raw' = Tail(raw)
  /\ UNCHANGED <<outside, rawOpen, err, deltas, deltasOpen, final>>

(* deltaCh <- visible blocks while the channel is full, whatever the       *)
(* context does.                                                           *)
Forward ==
  /\ rt.state = "on" /\ rt.hand # <<>> /\ Len(deltas) < DeltaCap
  /\ deltas' = Append(deltas, rt.hand)
  /\ rt' = [rt EXCEPT !.hand = <<>>]
  /\ UNCHANGED <<outside, raw, rawOpen, err, deltasOpen, final>>

(* Fault: a closed channel is taken for an empty one.                      *)
RawEndsEarly ==
  /\ Selecting /\ ~rawOpen /\ ~rt.rawEnd
  /\ rt' = [rt EXCEPT !.rawEnd = TRUE]
  /\ raw' = <<>>
  /\ UNCHANGED <<outside, rawOpen, err, deltas, deltasOpen, final>>

RawEnds ==
  /\ Selecting /\ raw = <<>> /\ ~rawOpen /\ ~rt.rawEnd
  /\ rt' = [rt EXCEPT !.rawEnd = TRUE]
  /\ UNCHANGED <<outside, raw, rawOpen, err, deltas, deltasOpen, final>>

ErrEnds ==
  /\ Selecting /\ err # "none" /\ ~rt.errEnd
  /\ rt' = [rt EXCEPT !.errEnd = TRUE]
  /\ UNCHANGED <<outside, raw, rawOpen, err, deltas, deltasOpen, final>>

(* The context ends while the goroutine selects: a stock phrase replaces   *)
(* what was received.                                                      *)
GiveUp ==
  /\ Selecting /\ late
  /\ FinishWith(Fallback)
  /\ UNCHANGED <<outside, raw, rawOpen, err, deltas>>

(* The final turn made of the text received.                               *)
FinalText(text) ==
  LET full  == Trim(text)
      clean == Trim(ExtractStatus(SanitizeLLMReply(full)))
  IN  IF full = <<>> \/ SanitizeVisible(clean) = <<>> THEN Fallback ELSE clean

Finalize ==
  /\ rt.state = "on" /\ rt.hand = <<>> /\ rt.rawEnd /\ rt.errEnd
  /\ FinishWith(FinalText(rt.text))
  /\ UNCHANGED <<outside, raw, rawOpen, err, deltas>>

-----------------------------------------------------------------------------
(* The turn: processQueuedTurn.                                            *)

Typing(on) == [type |-> "typing", turn |-> turn'.n, on |-> on]
StreamStart == [type |-> "stream_start", turn |-> turn'.n]
StreamChunk(text) == [type |-> "stream_chunk", turn |-> turn'.n, text |-> text]
StreamEnd == [type |-> "stream_end", turn |-> turn'.n]
MessageEvent(id) == [type |-> "message", turn |-> turn'.n, id |-> id]
ErrorEvent == [type |-> "error", turn |-> turn'.n]

(* publishToUser, to a client whose connection is up.                      *)
Publish(events) ==
  /\ wire' = IF up THEN wire \o events ELSE wire
  /\ lost' = IF up \/ events = <<>> THEN lost ELSE lost \cup {turn'.n}
  /\ UNCHANGED <<up, drops>>

Begin ==
  /\ turn.state = "idle" /\ turn.n < MaxTurns
  /\ turn' = [state |-> "calling", n |-> turn.n + 1, san |-> NewSanitizer, todo |-> <<>>]
  /\ Publish(<<Typing(TRUE), StreamStart>>)
  /\ call' = [state |-> "asking", modes |-> Modes, attempt |-> 1, dedupe |-> FALSE]
  /\ rest' = <<>> /\ answered' = [text |-> <<>>, whole |-> FALSE] /\ streamed' = <<>> /\ late' = FALSE
  /\ UNCHANGED <<acc, raw, rawOpen, err, pipe, stored, failed, page>>

(* StreamTurn returned an error: no stream_end is sent.                    *)
Fail ==
  /\ turn.state = "calling" /\ call.state = "failed"
  /\ turn' = [turn EXCEPT !.state = "idle"]
  /\ Publish(<<ErrorEvent, Typing(FALSE)>>)
  /\ failed' = failed \cup {turn.n}
  /\ UNCHANGED <<model, pipe, answered, late, streamed, stored, page>>

ReadDelta ==
  /\ turn.state = "reading" /\ deltas # <<>>
  /\ deltas' = Tail(deltas)
  /\ LET san == Push(turn.san, Head(deltas))
         visible == IF Blank(san.out) THEN <<>> ELSE san.out
     IN  /\ turn' = [turn EXCEPT !.san = san]
         /\ streamed' = streamed \o visible
         /\ Publish(IF visible = <<>> THEN <<>> ELSE <<StreamChunk(visible)>>)
  /\ UNCHANGED <<model, rt, deltasOpen, final, answered, late, stored, failed, page>>

(* Both channels are closed: the final turn is cut into messages.          *)
ReadFinal ==
  /\ turn.state = "reading" /\ deltas = <<>> /\ ~deltasOpen
  /\ LET text == IF final = <<>> THEN Fallback ELSE Head(final)
         splits == SplitSegments(text)
         safe == [i \in DOMAIN splits |-> SanitizeVisible(splits[i])]
     IN  turn' = [turn EXCEPT !.state = "storing", !.todo = SelectSeq(safe, LAMBDA t : t # <<>>)]
  /\ Publish(<<StreamEnd>>)
  /\ UNCHANGED <<model, pipe, answered, late, streamed, stored, failed, page>>

StoreSegment ==
  /\ turn.state = "storing" /\ turn.todo # <<>>
  /\ stored' = Append(stored, [turn |-> turn.n, text |-> Head(turn.todo)])
  /\ turn' = [turn EXCEPT !.todo = Tail(@)]
  /\ Publish(<<MessageEvent(Len(stored'))>>)
  /\ UNCHANGED <<model, pipe, answered, late, streamed, failed, page>>

(* The status and the turn are stored; the subtasks start in a goroutine   *)
(* of their own; the context is cancelled.                                 *)
EndTurn ==
  /\ turn.state = "storing" /\ turn.todo = <<>>
  /\ turn' = [turn EXCEPT !.state = "idle"]
  /\ Publish(<<Typing(FALSE)>>)
  /\ late' = TRUE
  /\ UNCHANGED <<model, pipe, answered, streamed, stored, failed, page>>

(* 90 seconds after the turn began.                                        *)
Deadline ==
  /\ turn.state # "idle" /\ ~late
  /\ late' = TRUE
  /\ UNCHANGED <<model, pipe, answered, turn, streamed, stored, failed, link, page>>

-----------------------------------------------------------------------------
(* The web client (chat.js).  An entry of "shown" is a stored message, or  *)
(* the draft a stream is written into.                                     *)

Message(id) == [type |-> "message", id |-> id]
IsDraft(e, n) == e.type = "draft" /\ e.turn = n
DraftShown(n) == \E i \in DOMAIN shown : IsDraft(shown[i], n)

(* sanitizeDisplayText; the status tags are not its business.              *)
Displayed(text) == Trim(SelectSeq(StripThoughts(text), LAMBDA t : t \notin {"<M", "M>"}))

HandleStreamStart(e) ==
  /\ typing' = TRUE
  /\ drafts' = drafts \cup {e.turn}
  /\ shown' = IF DraftShown(e.turn) THEN shown
              ELSE Append(shown, [type |-> "draft", turn |-> e.turn, text |-> <<>>, live |-> TRUE])

HandleStreamChunk(e) ==
  /\ shown' = IF e.turn \notin drafts THEN shown
              ELSE [i \in DOMAIN shown |->
                      IF IsDraft(shown[i], e.turn)
                      THEN [shown[i] EXCEPT !.text = @ \o Displayed(e.text)] ELSE shown[i]]
  /\ UNCHANGED <<typing, drafts>>

HandleStreamEnd(e) ==
  /\ typing' = FALSE
  /\ shown' = IF e.turn \notin drafts THEN shown
              ELSE [i \in DOMAIN shown |->
                      IF IsDraft(shown[i], e.turn) THEN [shown[i] EXCEPT !.live = FALSE] ELSE shown[i]]
  /\ UNCHANGED drafts

(* The entries without the first draft of a turn.                          *)
WithoutDraft(entries, n) == RemoveFirstMatch(entries, LAMBDA x : IsDraft(x, n))

(* Fault: the draft stays.                                                 *)
HandleMessageBeside(e) ==
  /\ shown' = IF Message(e.id) \in ToSet(shown) THEN shown ELSE Append(shown, Message(e.id))
  /\ UNCHANGED <<typing, drafts>>

(* The first message of a reply takes the place of its draft; a message    *)
(* that is shown already is not shown again.                               *)
HandleMessage(e) ==
  /\ LET kept == IF e.turn \in drafts THEN WithoutDraft(shown, e.turn) ELSE shown
     IN  shown' = IF Message(e.id) \in ToSet(kept) THEN kept ELSE Append(kept, Message(e.id))
  /\ drafts' = drafts \ {e.turn}
  /\ UNCHANGED typing

(* Every handler but that of errors ignores a conversation that is not     *)
(* shown.                                                                  *)
Receive ==
  /\ wire # <<>>
  /\ LET e == Head(wire)
     IN  IF e.type = "error" THEN typing' = FALSE /\ UNCHANGED <<shown, drafts>>
         ELSE IF ~view THEN UNCHANGED <<typing, shown, drafts>>
         ELSE CASE e.type = "typing" -> typing' = e.on /\ UNCHANGED <<shown, drafts>>
                [] e.type = "stream_start" -> HandleStreamStart(e)
                [] e.type = "stream_chunk" -> HandleStreamChunk(e)
                [] e.type = "stream_end" -> HandleStreamEnd(e)
                [] e.type = "message" -> HandleMessage(e)
  /\ wire' = Tail(wire)
  /\ UNCHANGED <<model, pipe, answered, reply, up, lost, drops, view, loads, opened>>

(* loadMessages: the conversation is shown, and its messages requested.    *)
Open ==
  /\ ~view /\ opened < MaxLoads
  /\ view' = TRUE
  /\ opened' = opened + 1
  /\ loads' = loads \cup {[nr |-> opened, read |-> FALSE, upto |-> 0]}
  /\ UNCHANGED <<model, pipe, answered, reply, link, shown, drafts, typing>>

(* The server reads the list ...                                           *)
Serve(l) ==
  /\ ~l.read
  /\ loads' = (loads \ {l}) \cup {[l EXCEPT !.read = TRUE, !.upto = Len(stored)]}
  /\ UNCHANGED <<model, pipe, answered, reply, link, view, shown, drafts, typing, opened>>

(* ... and it replaces the messages when it arrives, whatever is shown by  *)
(* then.                                                                   *)
Loaded(l) ==
  /\ l.read
  /\ shown' = [i \in 1 .. l.upto |-> Message(i)]
  /\ loads' = loads \ {l}
  /\ UNCHANGED <<model, pipe, answered, reply, link, view, drafts, typing, opened>>

(* The page is left: clear().                                              *)
Leave ==
  /\ view
  /\ view' = FALSE
  /\ shown' = <<>> /\ drafts' = {} /\ typing' = FALSE
  /\ UNCHANGED <<model, pipe, answered, reply, link, loads, opened>>

(* The socket closes: what was on its way is lost.  onclose reports an     *)
(* error and connects again later.                                         *)
Disconnect ==
  /\ up /\ drops < MaxDrops
  /\ up' = FALSE /\ drops' = drops + 1
  /\ lost' = lost \cup {wire[i].turn : i \in DOMAIN wire}
  /\ wire' = <<>>
  /\ typing' = FALSE
  /\ UNCHANGED <<model, pipe, answered, reply, view, shown, drafts, loads, opened>>

Reconnect ==
  /\ ~up
  /\ up' = TRUE
  /\ UNCHANGED <<model, pipe, answered, reply, wire, lost, drops, page>>

-----------------------------------------------------------------------------
Init ==
  /\ call = [state |-> "over", modes |-> Modes, attempt |-> 1, dedupe |-> FALSE]
  /\ rest = <<>> /\ acc = <<>> /\ raw = <<>> /\ rawOpen = FALSE /\ err = "closed"
  /\ rt = [state |-> "over", text |-> <<>>, rawEnd |-> TRUE, errEnd |-> TRUE, hand |-> <<>>]
  /\ deltas = <<>> /\ deltasOpen = FALSE /\ final = <<>>
  /\ turn = [state |-> "idle", n |-> 0, san |-> NewSanitizer, todo |-> <<>>]
  /\ late = TRUE /\ streamed = <<>> /\ answered = [text |-> <<>>, whole |-> FALSE]
  /\ stored = <<>> /\ failed = {}
  /\ wire = <<>> /\ up = TRUE /\ lost = {} /\ drops = 0
  /\ view = TRUE /\ shown = <<>> /\ drafts = {} /\ typing = FALSE /\ loads = {} /\ opened = 0

Asking == Refuse \/ TooMany \/ Retry \/ Answer
Provider == Asking \/ Emit \/ \E broken \in BOOLEAN : Hangup(broken)
Runtime == TakeDelta \/ Forward \/ RawEnds \/ ErrEnds \/ GiveUp \/ Finalize
Serving == Fail \/ ReadDelta \/ ReadFinal \/ StoreSegment \/ EndTurn
Client == Receive \/ Open \/ Leave \/ \E l \in loads : Serve(l) \/ Loaded(l)

Next == Provider \/ Runtime \/ Begin \/ Serving \/ Deadline \/ Client \/ Disconnect \/ Reconnect

Spec == Init /\ [][Next]_vars

(* Goroutines run; a request is answered or times out; the timer of the    *)
(* context fires; a body whose context ended fails to be read.  Nothing is *)
(* assumed of the user, and not that an answer ever ends by itself.        *)
(* Where the steps of the runtime and the turn are enabled.  TLC takes too *)
(* long to find out by itself for steps that compute texts, so their weak  *)
(* fairness is written out below.                                          *)
RuntimeReady ==
  /\ rt.state = "on"
  /\ IF rt.hand # <<>> THEN Len(deltas) < DeltaCap
     ELSE \/ raw # <<>>
          \/ ~rawOpen /\ ~rt.rawEnd
          \/ err # "none" /\ ~rt.errEnd
          \/ rt.rawEnd /\ rt.errEnd
          \/ late
ServingReady ==
  \/ turn.state = "storing"
  \/ turn.state = "calling" /\ call.state = "failed"
  \/ turn.state = "reading" /\ (deltas # <<>> \/ ~deltasOpen)

Fairness ==
  /\ WF_vars(Asking)
  /\ WF_vars(late /\ Hangup(TRUE))
  /\ WF_vars(Deadline)
  /\ ([]<>~RuntimeReady \/ []<><<Runtime>>_vars)
  /\ ([]<>~ServingReady \/ []<><<Serving>>_vars)

FairSpec == Spec /\ Fairness

-----------------------------------------------------------------------------
TypeOK ==
  /\ call.state \in {"asking", "waiting", "failed", "streaming", "over"}
  /\ call.attempt \in 1 .. MaxAttempts /\ call.modes # <<>>
  /\ Len(raw) <= RawCap /\ Len(deltas) <= DeltaCap /\ Len(final) <= 1
  /\ err \in {"none", "sent", "closed"} /\ rt.state \in {"on", "over"}
  /\ turn.state \in {"idle", "calling", "reading", "storing"} /\ turn.n \in 0 .. MaxTurns
  /\ late \in BOOLEAN /\ failed \subseteq 1 .. turn.n /\ lost \subseteq 1 .. turn.n
  /\ up \in BOOLEAN /\ view \in BOOLEAN /\ typing \in BOOLEAN
  /\ drafts \subseteq 1 .. turn.n

StoredOf(n) == FlattenSeq([i \in DOMAIN stored |-> IF stored[i].turn = n THEN stored[i].text ELSE <<>>])
Ended == turn.state = "idle" /\ turn.n > 0

(* A turn that ends has told the user something: it stored a message, or   *)
(* it reported an error.  The check that a reply is not blank is made on   *)
(* the whole reply in runtime.go, the messages are cleaned one by one.     *)
TurnAnswered == Ended => (turn.n \in failed <=> StoredOf(turn.n) = <<>>)

(* What was shown as a stream is what is stored: the same words in the     *)
(* same order, however the answer was cut, cut short or delayed, unless    *)
(* the stock phrase replaced it.  Two status tags in one line are excepted *)
(* (ExtractStatus cuts from the first to the last).                        *)
StatusTags(text) == Cardinality({i \in DOMAIN text : text[i] = "s:"})
Kept == Ended /\ turn.n \notin failed /\ StoredOf(turn.n) # Fallback
StreamIsStored == Kept /\ StatusTags(rt.text) <= 1 => WordsOf(StoredOf(turn.n)) = WordsOf(streamed)

(* An answer that was read to its end by a runtime that did not give up is *)
(* stored whole, unless the deduplication of responses mode touched it.    *)
AnswerIsStored ==
  Kept /\ answered.whole /\ ~call.dedupe /\ StatusTags(answered.text) <= 1
    => WordsOf(StoredOf(turn.n)) = WordsOf(answered.text)

(* The three together: what the model answered, what was streamed and what *)
(* the conversation keeps of a turn agree, or the turn is reported failed. *)
ReplyIsKept == TurnAnswered /\ StreamIsStored /\ AnswerIsStored

(* The client shows no message twice, whatever loads and events bring.     *)
NothingTwice == \A i, j \in DOMAIN shown : shown[i] = shown[j] => i = j

(* Once its events have been handled no turn leaves a draft behind, except *)
(* one that failed after stream_start or whose events the client missed.   *)
NoDraftLeft ==
  Ended /\ wire = <<>> =>
    \A i \in DOMAIN shown : shown[i].type = "draft" => shown[i].turn \in failed \cup lost

(* The bot never seems to be typing when no turn runs.                     *)
TypingEnds == turn.state = "idle" /\ wire = <<>> => ~typing

(* The page, when the turns are over, is what the conversation holds.      *)
PageSettles == NothingTwice /\ NoDraftLeft /\ TypingEnds

(* Every turn ends, and the goroutines of the last one are not left behind *)
(* with their channels full.                                               *)
TurnSettles ==
  /\ []<>(turn.state = "idle")
  /\ []<>(call.state \in {"over", "failed"} /\ rt.state = "over")
=============================================================================

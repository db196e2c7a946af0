-------------------------- MODULE ChatConversation --------------------------
(***************************************************************************)
(* The mobile client's conversation (ChatBloc over ChatRepository),        *)
(* composed with the server's ChatStream.  Only the handler of the latest  *)
(* question emits: `restartable` cancels the emitter of the one before.    *)
(* Frames come in order; a question asks for its own stream.               *)
(***************************************************************************)
EXTENDS ChatStream

VARIABLES
  status,    \* ChatState.status
  messages,  \* ChatState.messages
  text,      \* tokens in the handler's buffer and in streamingAnswer
  current,   \* the request whose handler is running, or 0
  stopped,   \* its CancelToken has been cancelled
  left       \* the bloc is closed

clientVars == <<status, messages, text, current, stopped, left>>
vars == <<serverVars, clientVars>>

Message ==
  [role : {"user"}, of : Requests]
    \cup [role : {"assistant"}, of : Requests, text : 0..MaxTokens + 1, grounded : BOOLEAN]

TypeOK ==
  /\ ServerTypeOK
  /\ status \in {"idle", "streaming", "done", "error"}
  /\ messages \in Seq(Message)
  /\ text \in 0..MaxTokens + 1
  /\ current \in 0..MaxRequests
  /\ stopped \in BOOLEAN
  /\ left \in BOOLEAN
  /\ status = "streaming" <=> current # 0

Init ==
  /\ ServerInit
  /\ status = "idle"
  /\ messages = <<>>
  /\ text = 0
  /\ current = 0
  /\ stopped = FALSE
  /\ left = FALSE

(* _finished: the handler's last emit.                                     *)
Finished(grounded) ==
  /\ status' = "done"
  /\ messages' = Append(messages, [role |-> "assistant", of |-> current,
                                   text |-> text, grounded |-> grounded])
  /\ text' = 0 /\ current' = 0
  /\ UNCHANGED <<stopped, left>>

Failed ==
  /\ status' = "error"
  /\ text' = 0 /\ current' = 0
  /\ UNCHANGED <<messages, stopped, left>>

(* Variants: a question does not stop the handler before it; the handlers  *)
(* share one buffer.                                                       *)
SendQueued(r) ==
  /\ ~left
  /\ Post(r)
  /\ status' = "streaming"
  /\ messages' = Append(messages, [role |-> "user", of |-> r])
  /\ current' = IF current # 0 THEN current ELSE r
  /\ UNCHANGED <<text, stopped, left>>
SendSharing(r) ==
  /\ ~left
  /\ Post(r)
  /\ status' = "streaming"
  /\ messages' = Append(messages, [role |-> "user", of |-> r])
  /\ current' = r
  /\ stopped' = FALSE
  /\ UNCHANGED <<text, left>>

(* A question: it supersedes the one in flight, whose partial answer is    *)
(* dropped.                                                                *)
Send(r) ==
  /\ ~left
  /\ \A q \in Requests : q < r => pc[q] # "none"
  /\ Post(r)
  /\ status' = "streaming"
  /\ messages' = Append(messages, [role |-> "user", of |-> r])
  /\ text' = 0 /\ current' = r
  /\ stopped' = FALSE
  /\ UNCHANGED left

(* A frame reaches the running handler.                                    *)
Receive ==
  /\ current # 0
  /\ Take(current)
  /\ LET frame == sent[current][got[current] + 1] IN
       \/ /\ frame = "token"
          /\ text' = text + 1
          /\ UNCHANGED <<status, messages, current, stopped, left>>
       \/ frame \in {"grounded", "ungrounded"} /\ Finished(frame = "grounded")
       \/ frame \in {"error", "rejected"} /\ Failed

(* A stream nobody reads any more still empties the server's buffer.       *)
Discard(r) == r # current /\ Take(r) /\ UNCHANGED clientVars

(* The stream breaks off: with an exception, or as if it had ended.        *)
Cut ==
  /\ current # 0 /\ socket[current] = "cut"
  /\ Failed \/ Finished(FALSE)
  /\ UNCHANGED serverVars

(* CancelStream, and then the DioException it provokes; frames that are    *)
(* already here may come first.                                            *)
CancelStream ==
  /\ current # 0 /\ ~stopped
  /\ stopped' = TRUE
  /\ UNCHANGED <<serverVars, status, messages, text, current, left>>

Cancelled ==
  /\ current # 0 /\ stopped
  /\ Finished(FALSE)
  /\ UNCHANGED serverVars

(* close(): the emitter is cancelled, the state stays what it was; the     *)
(* status is of no interest any more.                                      *)
Leave ==
  /\ ~left
  /\ left' = TRUE
  /\ current' = 0 /\ text' = 0
  /\ status' = IF current # 0 THEN "idle" ELSE status
  /\ UNCHANGED <<serverVars, messages, stopped>>

Client ==
  \/ \E r \in Requests : Send(r) \/ Discard(r)
  \/ Receive \/ Cut \/ CancelStream \/ Cancelled \/ Leave

Next ==
  \/ Client
  \/ \E r \in Requests : Handler(r) /\ UNCHANGED clientVars

Spec == Init /\ [][Next]_vars

(* A client that is there reads what comes and notices a connection that   *)
(* is closed; it need not press any button.                                *)
LiveSpec ==
  /\ Spec
  /\ \A r \in Requests : HandlerFairness(r)
  /\ WF_vars(Receive) /\ WF_vars(Cut)

-----------------------------------------------------------------------------
(* An answer follows the question it answers: a superseded, cancelled or   *)
(* late stream never writes into the turn of another question.             *)
TranscriptPairs ==
  \A i \in 1..Len(messages) : messages[i].role = "assistant" =>
    i > 1 /\ messages[i - 1] = [role |-> "user", of |-> messages[i].of]

(* An answer shown as grounded is the whole answer the server judged, with *)
(* no token lost to a full buffer, a dead connection or a cancel.          *)
GroundedIsWhole ==
  \A i \in 1..Len(messages) :
    LET m == messages[i] IN
    m.role = "assistant" /\ m.grounded => m.text = answer[m.of]

(* The conversation never waits for ever.                                  *)
ClientSettles == status = "streaming" ~> status # "streaming"
=============================================================================

----------------------------- MODULE ChatStream -----------------------------
(***************************************************************************)
(* POST /chat of the API: one coroutine per request that loads the         *)
(* assistant, retrieves, passes or refuses at the threshold gate, and      *)
(* streams the answer as frames over a connection whose reader may be      *)
(* slow, wedged or gone, while a timer may end it from the side.           *)
(*                                                                         *)
(* A step runs from one await to the next; event-loop callbacks (the       *)
(* timer, a closing socket, a flushed buffer) come between.  Heartbeats    *)
(* are comments that no reader acts on: only their timer is kept.          *)
(***************************************************************************)
EXTENDS Integers, Sequences

CONSTANTS
  MaxRequests,  \* bound: requests made
  MaxTokens,    \* bound: text events of one answer
  HighWater     \* frames the response buffers before write() returns false

ASSUME StreamBounds == /\ MaxRequests \in Nat \ {0}
                       /\ MaxTokens \in Nat
                       /\ HighWater \in Nat \ {0}

Requests == 1..MaxRequests

VARIABLES
  pc,       \* the await each coroutine is at
  closed,   \* its flag `closed`
  timers,   \* heartbeat and maxTimer are armed
  aborted,  \* controller.signal.aborted
  ended,    \* res.writableEnded
  socket,   \* the connection
  sent,     \* frames written to it
  got,      \* how many of those the client has taken
  answer    \* text events in `answer`

serverVars == <<pc, closed, timers, aborted, ended, socket, sent, got, answer>>

Awaits == {"none", "load", "retrieve", "generate", "drain", "over"}

(* A token, a done frame that is grounded or not, an error frame, or an    *)
(* HTTP response with an error status.                                     *)
Terminal == {"grounded", "ungrounded", "error", "rejected"}
Frames == Terminal \cup {"token"}

ServerTypeOK ==
  /\ pc \in [Requests -> Awaits]
  /\ closed \in [Requests -> BOOLEAN]
  /\ timers \in [Requests -> BOOLEAN]
  /\ aborted \in [Requests -> BOOLEAN]
  /\ ended \in [Requests -> BOOLEAN]
  /\ socket \in [Requests -> {"none", "open", "cut"}]
  /\ sent \in [Requests -> Seq(Frames)]
  /\ got \in [Requests -> Nat]
  /\ \A r \in Requests : got[r] <= Len(sent[r])
  /\ answer \in [Requests -> 0..MaxTokens]

ServerInit ==
  /\ pc = [r \in Requests |-> "none"]
  /\ closed = [r \in Requests |-> FALSE]
  /\ timers = [r \in Requests |-> FALSE]
  /\ aborted = [r \in Requests |-> FALSE]
  /\ ended = [r \in Requests |-> FALSE]
  /\ socket = [r \in Requests |-> "none"]
  /\ sent = [r \in Requests |-> <<>>]
  /\ got = [r \in Requests |-> 0]
  /\ answer = [r \in Requests |-> 0]

Undelivered(r) == Len(sent[r]) - got[r]

(* safeWrite; what is written to a dead connection goes nowhere.           *)
SafeWrite(r, frames) ==
  sent' = [sent EXCEPT ![r] = IF closed[r] \/ ended[r] \/ socket[r] = "cut"
                              THEN @ ELSE @ \o frames]

(* end(): a no-op once `closed`.                                           *)
End(r) ==
  /\ closed' = [closed EXCEPT ![r] = TRUE]
  /\ timers' = [timers EXCEPT ![r] = @ /\ closed[r]]
  /\ ended' = [ended EXCEPT ![r] = TRUE]

Await(r, step) == pc' = [pc EXCEPT ![r] = step]

(* The coroutine returns because something ended the stream meanwhile.     *)
ReturnIfClosed(r) ==
  /\ closed[r]
  /\ Await(r, "over")
  /\ UNCHANGED <<closed, timers, ended, sent, answer>>

(* The last frames of a stream, end() and return.                          *)
Finish(r, frames) ==
  /\ ~closed[r]
  /\ SafeWrite(r, frames)
  /\ End(r)
  /\ Await(r, "over")
  /\ UNCHANGED answer

(* A request arrives, or is refused before the handler (no valid token, an *)
(* invalid body, the rate limit).                                          *)
Post(r) ==
  /\ pc[r] = "none"
  /\ socket' = [socket EXCEPT ![r] = "open"]
  /\ \/ Await(r, "load") /\ UNCHANGED <<ended, sent>>
     \/ /\ Await(r, "over")
        /\ ended' = [ended EXCEPT ![r] = TRUE]
        /\ sent' = [sent EXCEPT ![r] = <<"rejected">>]
  /\ UNCHANGED <<closed, timers, aborted, got, answer>>

(* Variants: no look at `closed` after the await; no maxTimer.             *)
LoadUnguarded(r) ==
  /\ pc[r] = "load"
  /\ \/ /\ timers' = [timers EXCEPT ![r] = TRUE]
        /\ Await(r, "retrieve")
        /\ UNCHANGED <<closed, ended, sent, answer>>
     \/ Finish(r, <<"rejected">>)
  /\ UNCHANGED <<aborted, socket, got>>
LoadUntimed(r) ==
  /\ pc[r] = "load"
  /\ \/ ReturnIfClosed(r)
     \/ ~closed[r] /\ Await(r, "retrieve") /\ UNCHANGED <<closed, timers, ended, sent, answer>>
  /\ UNCHANGED <<aborted, socket, got>>

(* The assistant is loaded: found and open to this caller, or not (404 and *)
(* 403 answer without end()), or the load throws (503).                    *)
Load(r) ==
  /\ pc[r] = "load"
  /\ \/ ReturnIfClosed(r)
     \/ /\ ~closed[r]
        /\ timers' = [timers EXCEPT ![r] = TRUE]
        /\ Await(r, "retrieve")
        /\ UNCHANGED <<closed, ended, sent, answer>>
     \/ /\ ~closed[r]
        /\ SafeWrite(r, <<"rejected">>)
        /\ ended' = [ended EXCEPT ![r] = TRUE]
        /\ Await(r, "over")
        /\ UNCHANGED <<closed, timers, answer>>
     \/ Finish(r, <<"rejected">>)
  /\ UNCHANGED <<aborted, socket, got>>

(* Retrieval, then the threshold gate: go on, refuse, or throw.            *)
Retrieve(r) ==
  /\ pc[r] = "retrieve"
  /\ \/ ReturnIfClosed(r)
     \/ /\ ~closed[r]
        /\ Await(r, "generate")
        /\ UNCHANGED <<closed, timers, ended, sent, answer>>
     \/ Finish(r, <<"token", "ungrounded">>)
     \/ Finish(r, <<"error">>)
  /\ UNCHANGED <<aborted, socket, got>>

(* res.write() returned false: the buffer is at its mark, or the           *)
(* connection is gone.                                                     *)
WriteRefused(r) == socket[r] = "cut" \/ Undelivered(r) + 1 >= HighWater

(* Variants: write() is never waited for; a refused write loses its token. *)
TextUnpaced(r) ==
  /\ ~closed[r] /\ answer[r] < MaxTokens
  /\ answer' = [answer EXCEPT ![r] = @ + 1]
  /\ SafeWrite(r, <<"token">>)
  /\ UNCHANGED <<pc, closed, timers, ended>>
TextDropping(r) ==
  /\ ~closed[r] /\ answer[r] < MaxTokens
  /\ answer' = [answer EXCEPT ![r] = @ + 1]
  /\ IF Undelivered(r) >= HighWater THEN UNCHANGED sent ELSE SafeWrite(r, <<"token">>)
  /\ UNCHANGED <<pc, closed, timers, ended>>

(* A text event: it joins the answer and goes out, and the loop waits if   *)
(* the write was refused.                                                  *)
Text(r) ==
  /\ ~closed[r] /\ answer[r] < MaxTokens
  /\ answer' = [answer EXCEPT ![r] = @ + 1]
  /\ SafeWrite(r, <<"token">>)
  /\ Await(r, IF WriteRefused(r) /\ ~aborted[r] THEN "drain" ELSE "generate")
  /\ UNCHANGED <<closed, timers, ended>>

(* The next event of the generation, or its end: an answer that cites a    *)
(* source is grounded, an empty one never is.                              *)
Generate(r) ==
  /\ pc[r] = "generate"
  /\ \/ ReturnIfClosed(r)
     \/ Text(r)
     \/ Finish(r, <<"error">>)
     \/ Finish(r, <<"ungrounded">>)
     \/ answer[r] > 0 /\ Finish(r, <<"grounded">>)
  /\ UNCHANGED <<aborted, socket, got>>

(* 'drain': the buffer is empty again.                                     *)
Drained(r) ==
  /\ pc[r] = "drain"
  /\ socket[r] = "open" /\ Undelivered(r) = 0
  /\ Await(r, "generate")
  /\ UNCHANGED <<closed, timers, aborted, ended, socket, sent, got, answer>>

(* Variant: drain() does not listen to the abort signal.                   *)
AbortUnheard(r) == Await(r, IF pc[r] = "drain" /\ socket[r] = "open" THEN "over" ELSE pc[r])

(* An abort wakes a waiting drain(); the loop then sees `closed`.          *)
AbortWakes(r) == Await(r, IF pc[r] = "drain" THEN "over" ELSE pc[r])

(* Variant: the timer reports and aborts, and leaves the end to the loop.  *)
TimeoutUnended(r) ==
  /\ timers[r]
  /\ SafeWrite(r, <<"error">>)
  /\ aborted' = [aborted EXCEPT ![r] = TRUE]
  /\ timers' = [timers EXCEPT ![r] = FALSE]
  /\ UNCHANGED <<pc, closed, ended, socket, got, answer>>

(* maxTimer: report, abort, end, destroy the socket.                       *)
Timeout(r) ==
  /\ timers[r]
  /\ SafeWrite(r, <<"error">>)
  /\ aborted' = [aborted EXCEPT ![r] = TRUE]
  /\ End(r)
  /\ socket' = [socket EXCEPT ![r] = "cut"]
  /\ AbortWakes(r)
  /\ UNCHANGED <<got, answer>>

(***************************************************************************)
(* The connection is gone (the client left, or the network did).           *)
(* The handler listens for it on the request, but since Node 16 a request  *)
(* emits 'close' once its body has been read: express.json() has read it,  *)
(* and the token check and the rate limiter were awaited, before the       *)
(* handler runs.  So the listener may or may not be told.  Untold, only a  *)
(* drain() that is waiting right now hears the response close.             *)
(***************************************************************************)
DisconnectHeard(r) ==
  /\ socket[r] = "open"
  /\ socket' = [socket EXCEPT ![r] = "cut"]
  /\ aborted' = [aborted EXCEPT ![r] = TRUE]
  /\ End(r)
  /\ AbortWakes(r)
  /\ UNCHANGED <<sent, got, answer>>

DisconnectUnheard(r) ==
  /\ socket[r] = "open"
  /\ socket' = [socket EXCEPT ![r] = "cut"]
  /\ Await(r, IF pc[r] = "drain" THEN "generate" ELSE pc[r])
  /\ UNCHANGED <<closed, timers, aborted, ended, sent, got, answer>>

(* The client's end takes a frame; those in flight outlive the connection. *)
Take(r) ==
  /\ got[r] < Len(sent[r])
  /\ got' = [got EXCEPT ![r] = @ + 1]
  /\ UNCHANGED <<pc, closed, timers, aborted, ended, socket, sent, answer>>

Handler(r) ==
  \/ Load(r) \/ Retrieve(r) \/ Generate(r) \/ Drained(r) \/ Timeout(r)
  \/ DisconnectHeard(r) \/ DisconnectUnheard(r)

(***************************************************************************)
(* What the event loop owes a handler: the awaited load and retrieval      *)
(* settle, timers fire, and an aborted generation ends.  A generation that *)
(* was not aborted may hang, and no reader is obliged to read.             *)
(***************************************************************************)
HandlerFairness(r) ==
  /\ WF_serverVars(Load(r))
  /\ WF_serverVars(Retrieve(r))
  /\ WF_serverVars(Generate(r) /\ aborted[r])
  /\ WF_serverVars(Timeout(r))

-----------------------------------------------------------------------------
(* A stream is tokens and then at most one terminal frame, whatever timer, *)
(* error event, exception or refusal raced to end it, and a response that  *)
(* ends on a live connection did say how.                                  *)
FramesWellFormed ==
  \A r \in Requests :
    /\ \A i \in 1..Len(sent[r]) - 1 : sent[r][i] = "token"
    /\ ended[r] /\ socket[r] = "open" =>
         sent[r] # <<>> /\ sent[r][Len(sent[r])] \in Terminal

(* No heartbeat or timer outlives its coroutine, on any of its exits.      *)
TimersStop == \A r \in Requests : pc[r] = "over" => ~timers[r]

(* Backpressure: a reader that stalls holds back at most the buffer's mark *)
(* of tokens and a terminal frame.                                         *)
BufferBounded == \A r \in Requests : Undelivered(r) <= HighWater + 1

(* A handler always returns, though the reader wedges, the client is lost  *)
(* without notice or the model never answers.                              *)
HandlerReturns == \A r \in Requests : pc[r] # "none" ~> pc[r] = "over"

(* "Client disconnect aborts the upstream Claude call (stops token         *)
(* billing)" (chat.ts).                                                    *)
DisconnectAborts ==
  \A r \in Requests : socket[r] = "cut" /\ pc[r] = "generate" => aborted[r]
=============================================================================

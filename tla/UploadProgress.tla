--------------------------- MODULE UploadProgress ---------------------------
(***************************************************************************)
(* One row of the admin page's upload list: it uploads a file, follows     *)
(* GET /documents/:id/events, and offers Retry, which uploads the file     *)
(* again as another document.  Composed of the page, one events handler    *)
(* per document, and DocumentLifecycle, which says how the document's row  *)
(* may change under the handler's polls.                                   *)
(***************************************************************************)
EXTENDS Integers, Sequences, FiniteSets

CONSTANTS
  MaxUploads,  \* bound: times the file is uploaded
  MaxWrites    \* bound: status changes of one document

ASSUME ProgressBounds == MaxUploads \in Nat \ {0} /\ MaxWrites \in Nat \ {0}

Docs == 1..MaxUploads

VARIABLES
  stage,     \* the document rows, as in DocumentLifecycle
  writes,    \* how often each has changed: the age of what a poll read
  stream,    \* the events handler of each document
  deaf,      \* its reader left before it listened for that
  reading,   \* polls in flight: what they read, and its age
  last,      \* lastStatus
  sent,      \* the frames written
  post,      \* the POST of each document
  item,      \* what the page's row shows
  watching,  \* the document whose EventSource the page holds, or 0
  got        \* frames the page has taken from each stream

rowVars == <<stage, writes>>
streamVars == <<stream, deaf, reading, last, sent>>
pageVars == <<post, item, watching, got>>
vars == <<rowVars, streamVars, pageVars>>

Lifecycle == INSTANCE DocumentLifecycle

InProgress == {"UPLOADED", "PARSING", "EMBEDDING"}
Settled == {"READY", "FAILED"}
Statuses == InProgress \cup Settled

(* A status frame carries the age of what it tells; the others end it.     *)
Ending == {"done", "timeout", "gone"}
Frame == [what : Statuses, age : 1..MaxWrites] \cup [what : Ending, age : {0}]
Last(what) == [what |-> what, age |-> 0]

TypeOK ==
  /\ stage \in [Docs -> Statuses \cup {"new", "deleted"}]
  /\ writes \in [Docs -> 0..MaxWrites]
  /\ stream \in [Docs -> {"none", "check", "open", "refused", "over"}]
  /\ deaf \subseteq Docs
  /\ \A d \in Docs : Cardinality(reading[d]) <= 1
  /\ last \in [Docs -> Statuses \cup {""}]
  /\ sent \in [Docs -> Seq(Frame)]
  /\ post \in [Docs -> {"none", "sent", "created", "over"}]
  /\ item \in Statuses \cup {"absent", "uploading", "error", "dropped"}
  /\ watching \in 0..MaxUploads
  /\ \A d \in Docs : got[d] \in 0..Len(sent[d])

Init ==
  /\ Lifecycle!Init
  /\ writes = [d \in Docs |-> 0]
  /\ stream = [d \in Docs |-> "none"]
  /\ deaf = {}
  /\ reading = [d \in Docs |-> {}]
  /\ last = [d \in Docs |-> ""]
  /\ sent = [d \in Docs |-> <<>>]
  /\ post = [d \in Docs |-> "none"]
  /\ item = "absent"
  /\ watching = 0
  /\ got = [d \in Docs |-> 0]

(* The worker, the reconciler, or a delete elsewhere changes the row.  Once *)
(* its stream is over nothing here reads it, and it may as well rest.      *)
RowChanges(d) ==
  /\ writes[d] < MaxWrites /\ stream[d] \in {"none", "check", "open"}
  /\ Lifecycle!Advance(d) \/ Lifecycle!Recover(d) \/ Lifecycle!Fail({d}) \/ Lifecycle!Delete(d)
  /\ writes' = [writes EXCEPT ![d] = @ + 1]
  /\ UNCHANGED <<streamVars, pageVars>>

(***************************************************************************)
(* The events handler.                                                     *)
(***************************************************************************)

(* end(): a poll still in flight will find the stream closed and return.   *)
End(d) ==
  /\ stream' = [stream EXCEPT ![d] = "over"]
  /\ reading' = [reading EXCEPT ![d] = {}]
Write(d, frames) == sent' = [sent EXCEPT ![d] = @ \o frames]

(* The document is looked up before anything listens; then headers go out, *)
(* the listeners and timers are set, and the first poll starts.            *)
Check(d) ==
  /\ stream[d] = "check"
  /\ \/ /\ stage[d] # "deleted"
        /\ stream' = [stream EXCEPT ![d] = "open"]
        /\ deaf' = IF watching = d THEN deaf ELSE deaf \cup {d}
     \/ /\ stream' = [stream EXCEPT ![d] = "refused"]
        /\ UNCHANGED deaf
  /\ UNCHANGED <<rowVars, reading, last, sent, pageVars>>

(* Variant: polls may overlap.                                             *)
TickOverlapping(d) ==
  /\ stream[d] = "open"
  /\ reading' = [reading EXCEPT ![d] = @ \cup {[what |-> stage[d], age |-> writes[d]]}]
  /\ UNCHANGED <<rowVars, stream, deaf, last, sent, pageVars>>

(* A poll, at once and then every second, never two at a time.             *)
Tick(d) ==
  /\ stream[d] = "open" /\ reading[d] = {}
  /\ reading' = [reading EXCEPT ![d] = {[what |-> stage[d], age |-> writes[d]]}]
  /\ UNCHANGED <<rowVars, stream, deaf, last, sent, pageVars>>

PollDone(d, snap) ==
  /\ reading' = [reading EXCEPT ![d] = @ \ {snap}]
  /\ UNCHANGED stream

Report(d, snap) ==
  /\ last' = [last EXCEPT ![d] = snap.what]
  /\ \/ snap.what \in InProgress /\ Write(d, <<snap>>) /\ PollDone(d, snap)
     \/ snap.what \in Settled /\ Write(d, <<snap, Last("done")>>) /\ End(d)

(* The poll's answer: an error frame if the document is gone, a status if  *)
(* it changed; a database error ends the stream without a frame.           *)
Answer(d) ==
  \E snap \in reading[d] :
    /\ \/ snap.what = "deleted" /\ Write(d, <<Last("gone")>>) /\ End(d) /\ UNCHANGED last
       \/ snap.what \notin {"deleted", last[d]} /\ Report(d, snap)
       \/ snap.what = last[d] /\ PollDone(d, snap) /\ UNCHANGED <<last, sent>>
       \/ End(d) /\ UNCHANGED <<last, sent>>
    /\ UNCHANGED <<rowVars, deaf, pageVars>>

(* Variant: the cap runs only until the first status.                      *)
MaxTimerIdle(d) ==
  /\ stream[d] = "open" /\ last[d] = ""
  /\ Write(d, <<Last("timeout")>>)
  /\ End(d)
  /\ UNCHANGED <<rowVars, deaf, last, pageVars>>

(* The hard cap of five minutes.                                           *)
MaxTimer(d) ==
  /\ stream[d] = "open"
  /\ Write(d, <<Last("timeout")>>)
  /\ End(d)
  /\ UNCHANGED <<rowVars, deaf, last, pageVars>>

(* The reader is gone, and the handler was listening.                      *)
ReaderCloses(d) ==
  /\ stream[d] = "open" /\ watching # d /\ d \notin deaf
  /\ End(d)
  /\ UNCHANGED <<rowVars, deaf, last, sent, pageVars>>

(***************************************************************************)
(* The page.  A patch of a row that was dropped changes nothing.           *)
(***************************************************************************)
Patch(s) == item' = IF item = "dropped" THEN "dropped" ELSE s

(* A file is added, or Retry is clicked: the file is posted.               *)
Upload(d) ==
  /\ item \in {"absent", "error", "FAILED"}
  /\ post[d] = "none" /\ \A e \in 1..d - 1 : post[e] # "none"
  /\ post' = [post EXCEPT ![d] = "sent"]
  /\ item' = "uploading"
  /\ UNCHANGED <<rowVars, streamVars, watching, got>>

(* The API stores the document.                                            *)
Arrive(d) ==
  /\ post[d] = "sent"
  /\ Lifecycle!Upload(d)
  /\ writes' = [writes EXCEPT ![d] = 1]
  /\ post' = [post EXCEPT ![d] = "created"]
  /\ UNCHANGED <<streamVars, item, watching, got>>

(* The page has the document's id and watches it, closing the stream it    *)
(* watched before.                                                         *)
Uploaded(d) ==
  /\ post[d] = "created"
  /\ post' = [post EXCEPT ![d] = "over"]
  /\ Patch("UPLOADED")
  /\ watching' = d
  /\ stream' = [stream EXCEPT ![d] = "check"]
  /\ UNCHANGED <<rowVars, deaf, reading, last, sent, got>>

(* The POST was refused, or its answer was lost.                           *)
UploadFails(d) ==
  /\ post[d] \in {"sent", "created"}
  /\ post' = [post EXCEPT ![d] = "over"]
  /\ Patch("error")
  /\ UNCHANGED <<rowVars, streamVars, watching, got>>

(* Variant: an error event closes the stream and says nothing.             *)
OnErrorSilent == watching' = 0 /\ UNCHANGED item

(* The 'error' listener: a settled row stays as it is.                     *)
OnError ==
  /\ watching' = 0
  /\ IF item \in Settled THEN UNCHANGED item ELSE Patch("error")

Incoming(d) == sent[d][got[d] + 1].what

(* A frame reaches the page.                                               *)
Receive ==
  LET d == watching IN
  /\ d # 0 /\ got[d] < Len(sent[d])
  /\ got' = [got EXCEPT ![d] = @ + 1]
  /\ \/ /\ Incoming(d) \notin Ending
        /\ Patch(Incoming(d))
        /\ UNCHANGED watching
     \/ Incoming(d) = "done" /\ watching' = 0 /\ item' = "dropped"
     \/ Incoming(d) = "timeout" /\ watching' = 0 /\ Patch("error")
     \/ Incoming(d) = "gone" /\ OnError
  /\ UNCHANGED <<rowVars, streamVars, post>>

(* The stream ended, was refused, or the connection broke.                 *)
StreamLost ==
  /\ watching # 0
  /\ OnError
  /\ UNCHANGED <<rowVars, streamVars, post, got>>

StreamEnded ==
  /\ watching # 0
  /\ \/ stream[watching] = "refused"
     \/ stream[watching] = "over" /\ got[watching] = Len(sent[watching])
  /\ StreamLost

Handler(d) == Check(d) \/ Tick(d) \/ Answer(d) \/ MaxTimer(d) \/ ReaderCloses(d)
Page(d) == Upload(d) \/ Arrive(d) \/ Uploaded(d) \/ UploadFails(d)

Next == \/ \E d \in Docs : RowChanges(d) \/ Handler(d) \/ Page(d)
        \/ Receive \/ StreamLost

Spec == Init /\ [][Next]_vars

(* Every query and every POST is answered, timers fire, and a browser      *)
(* hands over frames and the end of a stream.  Nothing obliges the row of  *)
(* the document to move, a connection to break, or a user to retry.        *)
LiveSpec ==
  /\ Spec
  /\ \A d \in Docs : WF_vars(Check(d)) /\ WF_vars(MaxTimer(d))
  /\ \A d \in Docs : WF_vars(Uploaded(d) \/ UploadFails(d))
  /\ WF_vars(Receive) /\ WF_vars(StreamEnded)

-----------------------------------------------------------------------------
(* A stream tells the row's history forward: never an older state of the   *)
(* row after a newer one, though the row fails, recovers and moves between *)
(* polls, and nothing after the frame that ends it; done follows the       *)
(* settled status it announces.                                            *)
StreamTellsHistory ==
  \A d \in Docs : \A i \in 1..Len(sent[d]) - 1 :
    LET f == sent[d][i]
        g == sent[d][i + 1]
    IN /\ f.what \notin Ending
       /\ g.what \notin Ending => f.age < g.age
       /\ g.what = "done" <=> f.what \in Settled

(* The page's row never spins on its own: while it shows progress, an      *)
(* upload is on its way or a stream is watched.                            *)
ProgressIsDriven ==
  item \in InProgress \cup {"uploading"} =>
    watching # 0 \/ \E d \in Docs : post[d] \in {"sent", "created"}

(* The page's row comes to an answer: settled, an error, or dropped.       *)
RowSettles ==
  item \in InProgress \cup {"uploading"} ~> item \in Settled \cup {"error", "dropped"}

(* Every events handler ends, though the ingestion hangs and the reader    *)
(* left before the handler listened.                                       *)
StreamEnds == \A d \in Docs : stream[d] = "open" ~> stream[d] = "over"

(* "Carry the failure reason so a FAILED row can show it (and offer        *)
(* Retry)" (page.tsx): a FAILED row stays until the user retries.          *)
FailedRowOffersRetry ==
  [][item = "FAILED" => item' \in {"FAILED", "uploading"}]_vars
=============================================================================

--------------------------- MODULE DocumentsPage ---------------------------
(***************************************************************************)
(* The documents page of the console: its list of stored documents, with   *)
(* Refresh and Delete, above it the rows of files being uploaded, and the  *)
(* event stream of each.  What a row shows of a stream is the subject of   *)
(* UploadProgress; here a row is uploading, in progress, failed (Retry     *)
(* offered, stream open), in error (Retry offered, stream closed) or gone. *)
(***************************************************************************)
EXTENDS Browser

CONSTANTS
  Files,      \* rows of the upload list
  PageLimit,  \* documents that one list reply holds
  LastDoc     \* bound: documents of the assistant, over all time

ASSUME DocumentsAssumption ==
  LastDoc \in Nat \ {0} /\ PageLimit \in Nat /\ None \notin Nat

Docs == 1..LastDoc

VARIABLES
  rows,      \* the document rows: unused, live or gone
  known,     \* page: the assistant is known
  list,      \* page: documents
  deleting,  \* page: deletingId, or None
  item,      \* page: the state of each upload row
  docOf,     \* page: its docId, or None
  stream     \* page: the document its EventSource follows, or None

documentsState == <<known, list, deleting, item, docOf, stream>>

DocumentsTypeOK ==
  /\ rows \in [Docs -> {"unused", "live", "gone"}]
  /\ known \in BOOLEAN /\ list \subseteq Docs
  /\ deleting \in Docs \cup {None}
  /\ item \in [Files -> {"new", "uploading", "progress", "failed", "error", "dropped"}]
  /\ docOf \in [Files -> Docs \cup {None}] /\ stream \in [Files -> Docs \cup {None}]

DocumentsUnmount ==
  /\ known' = FALSE /\ list' = {} /\ deleting' = None
  /\ item' = [f \in Files |-> "new"]
  /\ docOf' = [f \in Files |-> None] /\ stream' = [f \in Files |-> None]

(* One document is there before.                                           *)
DocumentsInit ==
  /\ rows = [d \in Docs |-> IF d = 1 THEN "live" ELSE "unused"]
  /\ known = FALSE /\ list = {} /\ deleting = None
  /\ item = [f \in Files |-> "new"]
  /\ docOf = [f \in Files |-> None] /\ stream = [f \in Files |-> None]

LiveDocs == {d \in Docs : rows[d] = "live"}
Create(d) == d = Cardinality({e \in Docs : rows[e] # "unused"}) + 1 /\ d \in Docs
             /\ rows' = [rows EXCEPT ![d] = "live"]
Remove(d) == rows' = [rows EXCEPT ![d] = IF @ = "live" THEN "gone" ELSE @]

(* inFlightDocIds: a document with an upload row is not listed as well.    *)
Shown == {f \in Files : item[f] \notin {"new", "dropped"}}
InItems == {docOf[f] : f \in Shown} \ {None}
Listed == list \ InItems

OnDocuments == place = "documents" /\ UNCHANGED <<jar, visit, place, landing>>

-----------------------------------------------------------------------------
(* The API's side.                                                         *)

ServeLoadDocuments(c) ==
  visit = "documents" /\ Served(c, "load") /\ Reply(c, "ok", {}) /\ UNCHANGED rows

(* The newest documents, up to the page size; the page asks for no more.   *)
Newest == {d \in LiveDocs : Cardinality({e \in LiveDocs : e > d}) < PageLimit}

ServeList(c) == Served(c, "list") /\ Reply(c, "ok", Newest) /\ UNCHANGED rows

ServeUpload(c) ==
  /\ Served(c, "upload")
  /\ \E d \in Docs : Create(d) /\ Reply(c, "ok", {d})

(* A delete of what is already gone answers 404.                           *)
ServeDelete(c) ==
  /\ Served(c, "delete")
  /\ \E d \in c.arg : Remove(d) /\ Reply(c, IF d \in LiveDocs THEN "ok" ELSE "notFound", {})

ServeDocuments(c) ==
  /\ ServeLoadDocuments(c) \/ ServeList(c) \/ ServeUpload(c) \/ ServeDelete(c)
  /\ UNCHANGED <<jar, visit, place, landing, current, documentsState>>

(* Another session uploads or deletes.                                     *)
DocumentsElsewhere ==
  /\ visit = "documents"
  /\ \E d \in Docs : Create(d) \/ (d \in LiveDocs /\ Remove(d))
  /\ calls' = Disturbed(calls) /\ current' = FALSE
  /\ UNCHANGED <<jar, visit, place, landing, documentsState>>

-----------------------------------------------------------------------------
(* The page.                                                               *)

(* The assistant is known, and the effect fetches its documents.           *)
DocumentsLoaded(c) ==
  /\ OnDocuments /\ c.op = "load" /\ Take(c)
  /\ IF c.reply = "ok" THEN known' = TRUE /\ calls' = Plus(calls \ {c}, "list", {}, jar)
                       ELSE Drop(c) /\ UNCHANGED known
  /\ UNCHANGED <<rows, current, list, deleting, item, docOf, stream>>

Refresh ==
  /\ OnDocuments /\ known
  /\ Send("list", {})
  /\ UNCHANGED <<rows, current, documentsState>>

(* Variant: a reply is merged into what is shown.                          *)
ListArrivesMerged(c) ==
  /\ OnDocuments /\ c.op = "list" /\ Take(c) /\ Drop(c)
  /\ IF c.reply = "ok" THEN list' = list \cup c.body /\ current' = c.quiet
                       ELSE UNCHANGED <<list, current>>
  /\ UNCHANGED <<rows, known, deleting, item, docOf, stream>>

(* Replies replace the list in the order they arrive.                      *)
ListArrives(c) ==
  /\ OnDocuments /\ c.op = "list" /\ Take(c) /\ Drop(c)
  /\ IF c.reply = "ok" THEN list' = c.body /\ current' = c.quiet
                       ELSE UNCHANGED <<list, current>>
  /\ UNCHANGED <<rows, known, deleting, item, docOf, stream>>

(* Only the button of the last document deleted is off meanwhile.          *)
DeleteDoc(d) ==
  /\ OnDocuments /\ d \in Listed /\ deleting # d
  /\ Send("delete", {d})
  /\ deleting' = d
  /\ UNCHANGED <<rows, current, known, list, item, docOf, stream>>

DocDeleted(c) ==
  /\ OnDocuments /\ c.op = "delete" /\ Take(c) /\ Drop(c)
  /\ list' = IF c.reply \in {"ok", "notFound"} THEN list \ c.arg ELSE list
  /\ deleting' = None
  /\ current' = (current /\ c.reply # "failed")
  /\ UNCHANGED <<rows, known, item, docOf, stream>>

(* A file is added, or Retry is clicked, which uploads it once more.       *)
UploadFile(f) ==
  /\ OnDocuments /\ known /\ item[f] \in {"new", "failed", "error"}
  /\ Send("upload", {f})
  /\ item' = [item EXCEPT ![f] = "uploading"]
  /\ UNCHANGED <<rows, current, known, list, deleting, docOf, stream>>

(* patch: a row that was dropped stays so.                                 *)
Patch(f, s) == item' = [item EXCEPT ![f] = IF @ = "dropped" THEN @ ELSE s]

(* The row takes the new document's id and follows its events.  A document *)
(* it had before is the row's no longer.                                   *)
FileUploaded(c) ==
  /\ OnDocuments /\ c.op = "upload" /\ Take(c) /\ Drop(c)
  /\ \E f \in c.arg :
       IF c.reply = "ok"
         THEN \E d \in c.body :
                /\ Patch(f, "progress")
                /\ docOf' = [docOf EXCEPT ![f] = IF item[f] = "dropped" THEN @ ELSE d]
                /\ stream' = [stream EXCEPT ![f] = d]
                /\ current' = (current /\ item[f] # "dropped" /\ docOf[f] = None)
         ELSE /\ Patch(f, "error")
              /\ current' = (current /\ c.reply # "failed")
              /\ UNCHANGED <<docOf, stream>>
  /\ UNCHANGED <<rows, known, list, deleting>>

(* A FAILED status, shortly before done.                                   *)
ToldFailed(f) ==
  /\ OnDocuments /\ stream[f] # None /\ item[f] = "progress"
  /\ Patch(f, "failed")
  /\ UNCHANGED <<rows, calls, current, known, list, deleting, docOf, stream>>

(* done: the row is dropped, and the list fetched that should have it now. *)
StreamDone(f) ==
  /\ OnDocuments /\ stream[f] # None
  /\ stream' = [stream EXCEPT ![f] = None]
  /\ item' = [item EXCEPT ![f] = "dropped"]
  /\ Send("list", {}) /\ current' = FALSE
  /\ UNCHANGED <<rows, known, list, deleting, docOf>>

(* The timeout event, or an error, which leaves a FAILED row alone.        *)
StreamBreaks(f) ==
  /\ OnDocuments /\ stream[f] # None
  /\ stream' = [stream EXCEPT ![f] = None]
  /\ Patch(f, "error") \/ (item[f] = "failed" /\ UNCHANGED item)
  /\ UNCHANGED <<rows, calls, current, known, list, deleting, docOf>>

DocumentsHears(c) == DocumentsLoaded(c) \/ ListArrives(c) \/ DocDeleted(c) \/ FileUploaded(c)
DocumentsClicks ==
  \/ Refresh \/ \E d \in Docs : DeleteDoc(d)
  \/ \E f \in Files : UploadFile(f) \/ ToldFailed(f) \/ StreamDone(f) \/ StreamBreaks(f)
DocumentsNext ==
  DocumentsClicks \/ DocumentsElsewhere \/ \E c \in calls : DocumentsHears(c) \/ ServeDocuments(c)

-----------------------------------------------------------------------------
(* With nothing in flight, and as long as there were no more documents     *)
(* than a reply holds, the list together with the upload rows shows every  *)
(* stored one, and the list none that is gone; unless the last list was    *)
(* overtaken by a write, an answer was lost, a row was retried, or another *)
(* session wrote.  A Refresh on a quiet page mends all of these, and a     *)
(* document left behind by a Retry is then listed.                         *)
DocumentsAreShown ==
  place = "documents" /\ current /\ calls = {} =>
    /\ Listed \subseteq LiveDocs
    /\ Cardinality({d \in Docs : rows[d] # "unused"}) <= PageLimit
         => LiveDocs \subseteq Listed \cup InItems
=============================================================================

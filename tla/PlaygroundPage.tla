--------------------------- MODULE PlaygroundPage ---------------------------
(***************************************************************************)
(* The playground of the console: a question is tested by two calls at     *)
(* once, the retrieval debug endpoint, which tells the verdict of the      *)
(* threshold gate, and the chat, which streams the answer.  Each reads the *)
(* threshold first and searches later.  The threshold is tuned with a      *)
(* slider and saved.                                                       *)
(***************************************************************************)
EXTENDS Browser

CONSTANTS
  Questions,
  Bars,      \* thresholds
  Scores     \* scores of the best chunk for a question

ASSUME BarsAssumption == Bars \cup Scores \subseteq Nat /\ Bars # {}

VARIABLES
  bar,        \* the assistant row: refusal_threshold
  top,        \* score of the best chunk for the question asked, or None
  ready,      \* page: the assistant is known
  threshold,  \* page: the persisted value, as far as it knows
  tuned,      \* page: the slider
  debug,      \* page: what the debug endpoint answered, or nothing
  answer,     \* page: the text of the answer: none, the refusal, or generated
  saving,     \* page: the Save button waits
  asked,      \* history: the question of the last test
  torn,       \* history: its two calls did not see one threshold and score
  old,        \* history: the calls whose threshold predates the last save
  overtaken   \* history: the page took such a value, or lost a save's answer

playgroundRows == <<bar, top>>
playgroundHistory == <<asked, torn, old, overtaken>>
playgroundState == <<ready, threshold, tuned, debug, answer, saving, playgroundHistory>>

Best == Scores \cup {None}
Verdict == [question : Questions, threshold : Bars, refuse : BOOLEAN]
Answers == {"none", "refusal", "generated"}

PlaygroundTypeOK ==
  /\ bar \in Bars /\ top \in Best
  /\ threshold \in Bars /\ tuned \in Bars
  /\ debug \subseteq Verdict /\ Cardinality(debug) <= 1
  /\ answer \in Answers /\ asked \in Questions \cup {None}
  /\ old \subseteq {"load", "retrieve", "patch"}
  /\ {ready, saving, torn, overtaken} \subseteq BOOLEAN

(* useState(0.35)                                                          *)
Default == CHOOSE b \in Bars : TRUE

(* The page, just mounted.                                                 *)
Blank(r, t, d, a, s) == r = FALSE /\ t = Default /\ d = {} /\ a = "none" /\ s = FALSE

PlaygroundInit ==
  /\ bar = Default /\ top = None
  /\ Blank(ready, threshold, debug, answer, saving) /\ tuned = Default
  /\ asked = None /\ torn = FALSE /\ old = {} /\ overtaken = FALSE

PlaygroundUnmount ==
  /\ Blank(ready', threshold', debug', answer', saving') /\ tuned' = Default
  /\ asked' = None /\ torn' = FALSE /\ old' = {} /\ overtaken' = FALSE

(* evaluateThreshold: no hit, or the best one below the bar.               *)
Refuses(score, t) == score = None \/ score < t

OnPlayground == place = "playground" /\ UNCHANGED <<jar, visit, place, landing, current>>

-----------------------------------------------------------------------------
(* The API's side.                                                         *)

(* Both halves of a test, until both have ended.                           *)
Running == InFlight(Tests) # {}

(* A half of the running test whose handler has not searched yet, or not   *)
(* even read the threshold.                                                *)
Searching(op) == \E c \in InFlight({op}) : c.reply = "pending"
Starting(op) == \E c \in InFlight({op}) : c.reply = "pending" /\ c.body = {}

ServeLoadPlayground(c) ==
  /\ visit = "playground" /\ Served(c, "load")
  /\ Reply(c, "ok", {bar})
  /\ UNCHANGED <<playgroundRows, playgroundHistory>>

(* Both handlers load the assistant first, with its threshold.             *)
ReadThreshold(c) ==
  /\ \E op \in Tests : Served(c, op)
  /\ Reply(c, "pending", {bar})
  /\ UNCHANGED <<playgroundRows, playgroundHistory>>

(* Then they search, and hold the best score against what they read.       *)
Searches(c, op, q, t) ==
  /\ c \in calls /\ c.op = op /\ c.reply = "pending"
  /\ q \in c.arg /\ t \in c.body
  /\ UNCHANGED <<playgroundRows, playgroundHistory>>

(* The retrieval of the chat, its gate, and no model.                      *)
ServeRetrieve(c) ==
  \E q \in Questions, t \in Bars :
    /\ Searches(c, "retrieve", q, t)
    /\ Reply(c, "ok", {[question |-> q, threshold |-> t, refuse |-> Refuses(top, t)]})

(* The chat, up to the end of its stream: the refusal of the gate, or what *)
(* the model generated, which is the very same refusal when it finds no    *)
(* answer in the sources.  An error or a cut may leave no text, or part.   *)
ServeChat(c) ==
  \E q \in Questions, t \in Bars :
    /\ Searches(c, "chat", q, t)
    /\ \E a \in {"none", "refusal"} \cup IF Refuses(top, t) THEN {} ELSE {"generated"} :
         Reply(c, "ok", {a})

(* Calls on their way to the page with a value of the threshold.           *)
Known(cs) ==
  {x \in cs : x.op \in {"load", "retrieve", "patch"} /\ x.heard
               /\ (x.reply = "ok" \/ x.body # {})}

(* The save lands, and such values are older.                              *)
ServeSaveThreshold(c) ==
  /\ visit = "playground" /\ Served(c, "patch")
  /\ bar' \in c.arg
  /\ Reply(c, "ok", {})
  /\ torn' = (torn \/ Starting("retrieve") # Starting("chat"))
  /\ old' = {x.op : x \in Known(calls \ {c})}
  /\ overtaken' = (overtaken \/ ~c.heard)
  /\ UNCHANGED <<top, asked>>

ServePlayground(c) ==
  /\ \/ ServeLoadPlayground(c) \/ ReadThreshold(c) \/ ServeRetrieve(c) \/ ServeChat(c)
     \/ ServeSaveThreshold(c)
  /\ UNCHANGED <<jar, visit, place, landing, current>>
  /\ UNCHANGED <<ready, threshold, tuned, debug, answer, saving>>

(* Documents are ingested or deleted, during a test (see Ask).             *)
PlaygroundElsewhere ==
  /\ visit = "playground" /\ Running
  /\ top' \in Best \ {top}
  /\ torn' = (torn \/ Searching("retrieve") # Searching("chat"))
  /\ UNCHANGED <<browserVars, bar, ready, threshold, tuned, debug, answer, saving>>
  /\ UNCHANGED <<asked, old, overtaken>>

-----------------------------------------------------------------------------
(* The page.                                                               *)

(* A threshold that was read arrives.                                      *)
Shows(c, t) ==
  /\ threshold' = t /\ tuned' = t
  /\ overtaken' = (c.op \in old)

PlaygroundLoaded(c) ==
  /\ OnPlayground /\ old' = old \ {c.op} /\ c.op = "load" /\ Take(c) /\ Drop(c)
  /\ IF c.reply = "ok"
       THEN ready' = TRUE /\ \E t \in c.body : Shows(c, t)
       ELSE UNCHANGED <<ready, threshold, tuned, overtaken>>
  /\ UNCHANGED <<playgroundRows, debug, answer, saving, asked, torn>>

(* Test: the answer of the last one is cleared, its verdict is not.  The   *)
(* question has any best score by now.                                     *)
Ask(q) ==
  /\ OnPlayground /\ ready /\ ~Running /\ Cardinality(calls) < MaxCalls
  /\ calls' = Plus(Plus(calls, "retrieve", {q}, jar), "chat", {q}, jar)
  /\ answer' = "none" /\ top' \in Best
  /\ asked' = q /\ torn' = FALSE
  /\ UNCHANGED <<bar, ready, threshold, tuned, debug, saving, old, overtaken>>

(* Variant of VerdictArrives: a failed retrieval leaves the last verdict.  *)
VerdictKept(c) ==
  /\ OnPlayground /\ old' = old \ {c.op} /\ c.op = "retrieve" /\ Take(c) /\ Drop(c)
  /\ IF c.reply = "ok"
       THEN debug' = c.body /\ \E v \in c.body : Shows(c, v.threshold)
       ELSE UNCHANGED <<debug, threshold, tuned, overtaken>>
  /\ UNCHANGED <<playgroundRows, ready, answer, saving, asked, torn>>

(* The verdict resets the slider, also one that was moved meanwhile.       *)
VerdictArrives(c) ==
  /\ OnPlayground /\ old' = old \ {c.op} /\ c.op = "retrieve" /\ Take(c) /\ Drop(c)
  /\ IF c.reply = "ok"
       THEN debug' = c.body /\ \E v \in c.body : Shows(c, v.threshold)
       ELSE debug' = {} /\ UNCHANGED <<threshold, tuned, overtaken>>
  /\ UNCHANGED <<playgroundRows, ready, answer, saving, asked, torn>>

AnswerArrives(c) ==
  /\ OnPlayground /\ c.op = "chat" /\ Take(c) /\ Drop(c)
  /\ IF c.reply = "ok" THEN answer' \in c.body ELSE UNCHANGED answer
  /\ UNCHANGED <<playgroundRows, ready, threshold, tuned, debug, saving, playgroundHistory>>

Slide ==
  /\ OnPlayground /\ debug # {}
  /\ tuned' \in Bars \ {tuned}
  /\ UNCHANGED <<playgroundRows, calls, ready, threshold, debug, answer, saving, playgroundHistory>>

Save ==
  /\ OnPlayground /\ debug # {} /\ ~saving /\ tuned # threshold
  /\ Send("patch", {tuned})
  /\ saving' = TRUE
  /\ UNCHANGED <<playgroundRows, ready, threshold, tuned, debug, answer, playgroundHistory>>

(* What is known of the stored threshold once a save is answered.          *)
SaveAnswered(c) ==
  overtaken' = CASE c.reply = "ok" -> "patch" \in old
                 [] c.reply = "failed" -> TRUE
                 [] OTHER -> overtaken

(* Variant of Saved: what the slider says when the answer comes.           *)
SavedSlider(c) ==
  /\ OnPlayground /\ old' = old \ {c.op} /\ c.op = "patch" /\ Take(c) /\ Drop(c)
  /\ threshold' = IF c.reply = "ok" THEN tuned ELSE threshold
  /\ saving' = FALSE /\ SaveAnswered(c)
  /\ UNCHANGED <<playgroundRows, ready, tuned, debug, answer, asked, torn>>

(* setThreshold takes the value that was saved, not the slider's.          *)
Saved(c) ==
  /\ OnPlayground /\ old' = old \ {c.op} /\ c.op = "patch" /\ Take(c) /\ Drop(c)
  /\ IF c.reply = "ok" THEN threshold' \in c.arg ELSE UNCHANGED threshold
  /\ saving' = FALSE /\ SaveAnswered(c)
  /\ UNCHANGED <<playgroundRows, ready, tuned, debug, answer, asked, torn>>

PlaygroundHears(c) == PlaygroundLoaded(c) \/ VerdictArrives(c) \/ AnswerArrives(c) \/ Saved(c)
PlaygroundClicks == (\E q \in Questions : Ask(q)) \/ Slide \/ Save
PlaygroundNext ==
  PlaygroundClicks \/ PlaygroundElsewhere \/ \E c \in calls : PlaygroundHears(c) \/ ServePlayground(c)

-----------------------------------------------------------------------------
(* "persisted value" (page.tsx): whenever the page has heard of every save *)
(* that landed, the threshold it holds is the stored one, also while tests *)
(* and further saves are under way.  What spoils it is named by overtaken: *)
(* a value read before a save landed that reached the page after the       *)
(* save's answer did, an answer that was lost, or a save of an earlier     *)
(* visit that lands only now; the next value read or saved mends all three.*)
ThresholdIsPersisted ==
  place = "playground" /\ ready /\ ~overtaken
  /\ (\A c \in InFlight({"patch"}) : c.reply = "pending") => threshold = bar

(* The debug endpoint mirrors the chat: once a test has ended, the verdict *)
(* beside the answer is of the same question, never left from a test       *)
(* before, and where it says refused no generated answer stands beside it, *)
(* unless a save or an ingestion came just between the two calls' reads.   *)
(* (The converse is not so: the model itself refuses what passed the gate.)*)
VerdictMatchesAnswer ==
  place = "playground" /\ ~Running =>
    \A v \in debug : v.question = asked /\ (v.refuse /\ ~torn => answer # "generated")
=============================================================================

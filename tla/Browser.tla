------------------------------ MODULE Browser ------------------------------
(***************************************************************************)
(* One tab of the admin console: its session cookie, the page it shows,    *)
(* and the calls its pages have in flight to the console's own route       *)
(* handlers, which attach the cookie's token and pass the call on to the   *)
(* API.  A page that is left hears no reply any more, but what it sent     *)
(* still runs.  The pages are modelled by the modules that extend this     *)
(* one; a behaviour visits one of them, beside the dashboard and sign-in.  *)
(* Whoever signs in is of the one tenant whose rows are modelled (tenants  *)
(* are told apart in Access).                                              *)
(***************************************************************************)
EXTENDS Naturals, FiniteSets

CONSTANTS
  None,
  MaxLists, \* bound: fetches of one list in flight together
  MaxCalls  \* bound: calls in flight when one more is sent

VARIABLES
  jar,      \* the session cookie: "none", a "token", or an "expired" one
  visit,    \* the data page this behaviour visits
  place,    \* the page shown
  landing,  \* ?next= of the login page
  calls,    \* calls in flight, answered or not
  current   \* history: what the page shows was read quietly (see Plus)

browserVars == <<jar, visit, place, landing, calls, current>>

DataPages == {"settings", "playground", "documents"}
SignInPages == {"login", "signup"}
Places == SignInPages \cup {"dashboard", visit}

Reads == {"load", "listKeys", "list"}
Tests == {"retrieve", "chat"}
Session == {"login", "signup", "logout"}
Writes == {"patch", "createKey", "revokeKey", "delete", "upload"}

(* A call: whether it carries a token that is good, how it was answered    *)
(* (and, till then, what its handler has read), whether its page still     *)
(* listens, and, for a read, whether it stayed quiet.                      *)
Replies == {"pending", "ok", "notFound", "refused", "failed"}
CallOK(c) ==
  /\ c.op \in Reads \cup Tests \cup Writes \cup Session
  /\ c.n \in 1..MaxLists
  /\ c.reply \in Replies
  /\ {c.valid, c.heard, c.quiet} \subseteq BOOLEAN

BrowserTypeOK ==
  /\ jar \in {"none", "token", "expired"}
  /\ visit \in DataPages /\ place \in Places
  /\ landing \in {"dashboard", visit}
  /\ current \in BOOLEAN
  /\ \A c \in calls : CallOK(c)

BrowserInit ==
  /\ jar = "none" /\ visit \in DataPages /\ place = "login" /\ landing = "dashboard"
  /\ calls = {} /\ current = FALSE

InFlight(ops) == {c \in calls : c.op \in ops}

(* The calls after one more is sent with the session: a write disturbs the *)
(* reads around it.                                                        *)
FreeNumbers(cs, op, arg) ==
  1..(IF op = "list" THEN MaxLists ELSE 1) \ {c.n : c \in {x \in cs : x.op = op /\ x.arg = arg}}
Disturbed(cs) == {[c EXCEPT !.quiet = FALSE] : c \in cs}
Plus(cs, op, arg, session) ==
  (IF op \in Writes THEN Disturbed(cs) ELSE cs) \cup
  {[op |-> op, arg |-> arg, valid |-> session = "token", reply |-> "pending", body |-> {},
    heard |-> TRUE,
    n |-> CHOOSE n \in FreeNumbers(cs, op, arg) : \A m \in FreeNumbers(cs, op, arg) : n <= m,
    quiet |-> op \in Reads /\ \A c \in cs : c.op \notin Writes]}

Send(op, arg) ==
  /\ Cardinality(calls) < MaxCalls /\ FreeNumbers(calls, op, arg) # {}
  /\ calls' = Plus(calls, op, arg, jar)

(* A call ends, and its page acts on the reply.                            *)
Take(c) == c \in calls /\ c.reply # "pending" /\ c.heard
Drop(c) == calls' = calls \ {c}

(* The API's answer to a call, with what it did.  Nobody waits for the     *)
(* answer to a page that was left.                                         *)
Reply(c, reply, body) ==
  calls' = (calls \ {c}) \cup
           IF c.heard \/ c.op \in Session
             THEN {[c EXCEPT !.reply = reply, !.body = body]} ELSE {}

(* The route handler finds no token, or the API refuses the one it gets.   *)
Unauthorized(c) == c.op \notin Session /\ ~c.valid
Refuse(c) ==
  /\ c \in calls /\ c.reply = "pending" /\ c.body = {} /\ Unauthorized(c)
  /\ Reply(c, "refused", {})
  /\ UNCHANGED <<jar, visit, place, landing, current>>
Served(c, op) ==
  c \in calls /\ c.reply = "pending" /\ c.body = {} /\ c.op = op /\ ~Unauthorized(c)

(* The call fails before it did anything, or its answer is lost: 502, 500, *)
(* or the browser reaches nobody.                                          *)
Fail(c) ==
  /\ c \in calls
  /\ c.reply = "pending" \/ (c.op \in Writes /\ c.reply \in {"ok", "notFound"})
  /\ Reply(c, "failed", {})
  /\ UNCHANGED <<jar, visit, place, landing, current>>

-----------------------------------------------------------------------------
(* The middleware: the cookie's presence decides, not its token.           *)
Admit(p) ==
  IF p \in SignInPages /\ jar # "none" THEN "dashboard"
  ELSE IF p \notin SignInPages /\ jar = "none" THEN "login"
  ELSE p

(* What is left of a page's calls: writes that have not reached the API,   *)
(* and what the sign-in forms and the sign-out button wait for, whose      *)
(* handlers go on without their page.                                      *)
Abandoned(cs) ==
  {[c EXCEPT !.heard = FALSE, !.quiet = FALSE] :
     c \in {x \in cs : x.op \in Session \/ (x.op \in Writes /\ x.reply = "pending")}}

(* The tab goes to page q, asked for p: a data page loads its assistant.   *)
Arrive(p, q, left, session) ==
  /\ place' = q
  /\ landing' = IF q = "login" /\ p = visit THEN visit ELSE "dashboard"
  /\ current' = FALSE
  /\ calls' = IF q = visit THEN Plus(left, "load", {}, session) ELSE left

(* A link is followed.                                                     *)
Go(p) ==
  /\ Arrive(p, Admit(p), Abandoned(calls), jar)
  /\ UNCHANGED <<jar, visit>>

(* A form is submitted, or Sign out clicked: once, while its button is on. *)
Submit(op) ==
  /\ op \in Session /\ place = IF op = "logout" THEN "dashboard" ELSE op
  /\ InFlight(Session) = {}
  /\ Send(op, {})
  /\ UNCHANGED <<jar, visit, place, landing, current>>

(* The credentials are checked, or the account is created.                 *)
ServeLogin(c) ==
  Served(c, "login") /\ \E reply \in {"ok", "refused"} : Reply(c, reply, {})

ServeSignup(c) ==
  Served(c, "signup") /\ \E reply \in {"ok", "refused"} : Reply(c, reply, {})

(* Asks nobody.                                                            *)
ServeLogout(c) == Served(c, "logout") /\ Reply(c, "ok", {})

ServeSession(c) ==
  /\ ServeLogin(c) \/ ServeSignup(c) \/ ServeLogout(c)
  /\ UNCHANGED <<jar, visit, place, landing, current>>

(* safeInternalPath of ?next=, from wherever the tab is by then; a signup  *)
(* does not ask.                                                           *)
NextPath(op) == IF op = "login" THEN landing ELSE "dashboard"

(* The cookie comes with the answer; then the form's handler navigates.    *)
SignedIn(c) ==
  /\ c \in calls /\ c.op \in {"login", "signup"} /\ c.reply = "ok"
  /\ jar' = "token"
  /\ Arrive(NextPath(c.op), NextPath(c.op), Abandoned(calls \ {c}), "token")
  /\ UNCHANGED visit

SignInFailed(c) ==
  /\ c \in calls /\ c.op \in {"login", "signup"} /\ c.reply \in {"refused", "failed"}
  /\ Drop(c)
  /\ UNCHANGED <<jar, visit, place, landing, current>>

(* Sign out is best effort: on to /login in any case, which the middleware *)
(* turns back while there is a cookie.                                     *)
SignedOut(c) ==
  /\ c \in calls /\ c.op = "logout" /\ c.reply # "pending"
  /\ jar' = IF c.reply = "ok" THEN "none" ELSE jar
  /\ Arrive("login", IF jar' = "none" THEN "login" ELSE "dashboard", Abandoned(calls \ {c}), jar')
  /\ UNCHANGED visit

(* The token expires, an hour after it was issued, in the cookie and in    *)
(* what already left with it; the cookie, set later, follows.              *)
Expire ==
  /\ jar = "token"
  /\ jar' = "expired"
  /\ calls' = {[c EXCEPT !.valid = FALSE] : c \in calls}
  /\ UNCHANGED <<visit, place, landing, current>>

CookieGone ==
  /\ jar = "expired"
  /\ jar' = "none"
  /\ UNCHANGED <<visit, place, landing, calls, current>>
=============================================================================

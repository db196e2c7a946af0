--------------------------- MODULE ConsoleProofs ---------------------------
(***************************************************************************)
(* What the pages of the console show, proved for any number of keys,      *)
(* thresholds, documents and calls in flight.                              *)
(***************************************************************************)
EXTENDS Console, FiniteSetTheorems, TLAPS

PageOps ==
  CASE visit = "settings" -> {"listKeys", "patch", "createKey", "revokeKey"}
    [] visit = "playground" -> {"retrieve", "chat", "patch"}
    [] OTHER -> {"list", "delete", "upload"}
Ops == Session \cup {"load"} \cup PageOps

(* Calls of which a page waits for one at a time.                          *)
Sole == {"load", "patch", "createKey"} \cup Tests

IsCall(c) ==
  /\ c = [op |-> c.op, arg |-> c.arg, valid |-> c.valid, reply |-> c.reply, body |-> c.body,
          heard |-> c.heard, n |-> c.n, quiet |-> c.quiet]
  /\ c.reply \in Replies /\ c.heard \in BOOLEAN /\ c.quiet \in BOOLEAN

(* A write names one thing, and what it made.                              *)
ArgOK(op, arg) == op \in {"patch", "revokeKey", "delete", "upload"} => \E v : arg = {v}
BodyOK(c) ==
  /\ c.op = "patch" => c.reply # "notFound"
  /\ c.op \in {"createKey", "upload"} /\ c.reply = "ok" => \E v : c.body = {v}

CallInv(c) ==
  /\ IsCall(c) /\ c.op \in Ops
  /\ c.quiet => c.op \in Reads
  /\ c.op \in Reads \cup Tests => c.heard
  /\ ArgOK(c.op, c.arg) /\ BodyOK(c)

(* A quiet read has no write beside it, and a current page none that it    *)
(* would not hear of.                                                      *)
BrowserInv ==
  /\ visit \in DataPages /\ place \in Places /\ landing \in {"dashboard", visit}
  /\ current \in BOOLEAN
  /\ current => place = visit
  /\ \A c \in calls : CallInv(c)
  /\ \A c, w \in calls : c.quiet => w.op \notin Writes
  /\ current => \A w \in calls : w.op \in Writes => w.heard
  /\ \A w, x \in calls : w.op \in Sole /\ w.op = x.op /\ w.heard /\ x.heard => w = x

-----------------------------------------------------------------------------
(* The call x is c with another reply, or other marks.                     *)
Becomes(x, c, reply, body, heard, quiet) ==
  /\ IsCall(x) /\ x.op = c.op /\ x.arg = c.arg
  /\ x.reply = reply /\ x.body = body /\ x.heard = heard /\ x.quiet = quiet

LEMMA Fields ==
  ASSUME NEW c, IsCall(c), NEW r \in Replies, NEW b, NEW a
  PROVE  /\ Becomes([c EXCEPT !.reply = r, !.body = b], c, r, b, c.heard, c.quiet)
         /\ Becomes([c EXCEPT !.quiet = FALSE], c, c.reply, c.body, c.heard, FALSE)
         /\ c.quiet = TRUE => [c EXCEPT !.quiet = TRUE] = c
         /\ Becomes([c EXCEPT !.valid = a], c, c.reply, c.body, c.heard, c.quiet)
         /\ Becomes([c EXCEPT !.heard = FALSE, !.quiet = FALSE], c, c.reply, c.body, FALSE, FALSE)
<1>1. /\ c = [op |-> c.op, arg |-> c.arg, valid |-> c.valid, reply |-> c.reply, body |-> c.body,
            heard |-> c.heard, n |-> c.n, quiet |-> c.quiet]
      /\ c.reply \in Replies /\ c.heard \in BOOLEAN /\ c.quiet \in BOOLEAN
  BY DEF IsCall
<1>2. Becomes([c EXCEPT !.reply = r, !.body = b], c, r, b, c.heard, c.quiet)
  <2>1. PICK x : x = [c EXCEPT !.reply = r, !.body = b]
    OBVIOUS
  <2>2. x = [op |-> c.op, arg |-> c.arg, valid |-> c.valid, reply |-> r, body |-> b,
            heard |-> c.heard, n |-> c.n, quiet |-> c.quiet]
    BY <1>1, <2>1
  <2>3. Becomes(x, c, r, b, c.heard, c.quiet)
    BY <1>1, <2>2 DEF Becomes, IsCall
  <2> QED
    BY <2>1, <2>3
<1>3. Becomes([c EXCEPT !.quiet = FALSE], c, c.reply, c.body, c.heard, FALSE)
  <2>1. PICK x : x = [c EXCEPT !.quiet = FALSE]
    OBVIOUS
  <2>2. x = [op |-> c.op, arg |-> c.arg, valid |-> c.valid, reply |-> c.reply, body |-> c.body,
            heard |-> c.heard, n |-> c.n, quiet |-> FALSE]
    BY <1>1, <2>1
  <2>3. Becomes(x, c, c.reply, c.body, c.heard, FALSE)
    BY <1>1, <2>2 DEF Becomes, IsCall
  <2> QED
    BY <2>1, <2>3
<1>4. Becomes([c EXCEPT !.valid = a], c, c.reply, c.body, c.heard, c.quiet)
  <2>1. PICK x : x = [c EXCEPT !.valid = a]
    OBVIOUS
  <2>2. x = [op |-> c.op, arg |-> c.arg, valid |-> a, reply |-> c.reply, body |-> c.body,
            heard |-> c.heard, n |-> c.n, quiet |-> c.quiet]
    BY <1>1, <2>1
  <2>3. Becomes(x, c, c.reply, c.body, c.heard, c.quiet)
    BY <1>1, <2>2 DEF Becomes, IsCall
  <2> QED
    BY <2>1, <2>3
<1>5. Becomes([c EXCEPT !.heard = FALSE, !.quiet = FALSE], c, c.reply, c.body, FALSE, FALSE)
  <2>1. PICK x : x = [c EXCEPT !.heard = FALSE, !.quiet = FALSE]
    OBVIOUS
  <2>2. x = [op |-> c.op, arg |-> c.arg, valid |-> c.valid, reply |-> c.reply, body |-> c.body,
            heard |-> FALSE, n |-> c.n, quiet |-> FALSE]
    BY <1>1, <2>1
  <2>3. Becomes(x, c, c.reply, c.body, FALSE, FALSE)
    BY <1>1, <2>2 DEF Becomes, IsCall
  <2> QED
    BY <2>1, <2>3
<1>6. c.quiet = TRUE => [c EXCEPT !.quiet = TRUE] = c
  BY <1>1
<1> QED
  BY <1>2, <1>3, <1>4, <1>5, <1>6

(* What is sent is a call that waits, quiet only without a write before.   *)
Adds(result, new, cs, op, arg) ==
  /\ IsCall(new) /\ new.op = op /\ new.arg = arg /\ new.reply = "pending" /\ new.body = {}
  /\ new.heard = TRUE
  /\ new.quiet => op \in Reads /\ \A c \in cs : c.op \notin Writes
  /\ result = (IF op \in Writes THEN Disturbed(cs) ELSE cs) \cup {new}

LEMMA PlusIs ==
  ASSUME NEW cs, NEW op, NEW arg, NEW session
  PROVE  \E new : Adds(Plus(cs, op, arg, session), new, cs, op, arg)
<1> DEFINE q == op \in Reads /\ \A c \in cs : c.op \notin Writes
           m == CHOOSE n \in FreeNumbers(cs, op, arg) : \A k \in FreeNumbers(cs, op, arg) : n <= k
           new == [op |-> op, arg |-> arg, valid |-> session = "token", reply |-> "pending", body |-> {},
                   heard |-> TRUE, n |-> m, quiet |-> q]
<1>1. Plus(cs, op, arg, session) = (IF op \in Writes THEN Disturbed(cs) ELSE cs) \cup {new}
  BY DEF Plus
<1>2. q \in BOOLEAN
  OBVIOUS
<1> HIDE DEF q, m
<1>3. IsCall(new)
  BY <1>2 DEF IsCall, Replies
<1>4. new.quiet => op \in Reads /\ \A c \in cs : c.op \notin Writes
  BY DEF q
<1>5. Adds(Plus(cs, op, arg, session), new, cs, op, arg)
  BY <1>1, <1>3, <1>4 DEF Adds
<1> QED
  BY <1>5

-----------------------------------------------------------------------------
(* What a step does to the calls.                                          *)
Like(x, c) == Becomes(x, c, c.reply, c.body, c.heard, x.quiet) /\ (x.quiet => c.quiet)
New(x, op, arg) ==
  IsCall(x) /\ x.op = op /\ x.arg = arg /\ x.reply = "pending" /\ x.body = {} /\ x.heard = TRUE

LEMMA LikeInv ==
  ASSUME NEW x, NEW c, CallInv(c), Like(x, c), visit' = visit
  PROVE  CallInv(x) /\ CallInv(x)'
<1>1. IsCall(x) /\ x.op = c.op /\ x.arg = c.arg /\ x.reply = c.reply /\ x.body = c.body
      /\ x.heard = c.heard
  BY DEF Like, Becomes
<1>2. (x.quiet => x.op \in Reads) /\ (x.op \in Reads \cup Tests => x.heard)
  BY <1>1 DEF Like, CallInv
<1>3. IsCall(x)' <=> IsCall(x)
  BY DEF IsCall, Replies
<1>4. Ops' = Ops
  BY DEF Ops, PageOps, Session
<1>5. BodyOK(x) /\ ArgOK(x.op, x.arg)
  BY <1>1 DEF CallInv, BodyOK, ArgOK
<1> QED
  BY <1>1, <1>2, <1>3, <1>4, <1>5 DEF CallInv, BodyOK, ArgOK

LEMMA DisturbedAre ==
  ASSUME NEW cs, \A c \in cs : IsCall(c)
  PROVE  /\ \A x \in Disturbed(cs) : ~x.quiet /\ \E c \in cs : Like(x, c) /\ x = [c EXCEPT !.quiet = FALSE]
         /\ \A c \in cs : \E x \in Disturbed(cs) : Like(x, c) /\ x = [c EXCEPT !.quiet = FALSE]
<1>1. ASSUME NEW c \in cs, NEW x, x = [c EXCEPT !.quiet = FALSE] PROVE Like(x, c) /\ ~x.quiet
  <2>1. Becomes(x, c, c.reply, c.body, c.heard, FALSE)
    BY <1>1, Fields DEF IsCall
  <2> QED
    BY <2>1 DEF Becomes, Like
<1>2. \A x : x \in Disturbed(cs) <=> \E c \in cs : x = [c EXCEPT !.quiet = FALSE]
  BY DEF Disturbed
<1> QED
  BY <1>1, <1>2

LEMMA Sent ==
  ASSUME BrowserInv, NEW op \in Ops, NEW arg, ArgOK(op, arg), NEW session,
         op \in Sole => \A w \in calls : w.op = op => ~w.heard,
         calls' = Plus(calls, op, arg, session),
         UNCHANGED <<visit, place, landing>>, current' \in BOOLEAN, current' => current
  PROVE  /\ BrowserInv'
         /\ \A x \in calls' : New(x, op, arg) \/ \E c \in calls : Like(x, c)
         /\ \A c \in calls : \E x \in calls' : Like(x, c)
         /\ \E x \in calls' : New(x, op, arg)
         /\ op \in Writes => \A x \in calls' : ~x.quiet
         /\ \A x \in calls' : x.quiet => (x \in calls \/ \A w \in calls : w.op \notin Writes)
<1> DEFINE kept == IF op \in Writes THEN Disturbed(calls) ELSE calls
<1>a. PICK new : Adds(Plus(calls, op, arg, session), new, calls, op, arg)
  BY PlusIs
<1>1. /\ IsCall(new) /\ new.op = op /\ new.arg = arg /\ new.reply = "pending" /\ new.body = {}
      /\ new.heard = TRUE
      /\ new.quiet => op \in Reads /\ \A c \in calls : c.op \notin Writes
      /\ calls' = kept \cup {new}
  BY <1>a DEF Adds
<1>2. New(new, op, arg)
  BY <1>1 DEF New
<1>3. \A c \in calls : CallInv(c) /\ IsCall(c) /\ c.quiet \in BOOLEAN
  BY DEF BrowserInv, CallInv, IsCall
<1>4. \A c \in calls : Like(c, c)
  BY <1>3 DEF Like, Becomes
<1>5. /\ \A x \in kept : \E c \in calls : Like(x, c) /\ (x = c \/ x = [c EXCEPT !.quiet = FALSE])
      /\ \A c \in calls : \E x \in kept : Like(x, c)
      /\ op \in Writes => \A x \in kept : ~x.quiet
      /\ op \notin Writes => kept = calls
  BY <1>3, <1>4, DisturbedAre
<1> HIDE DEF kept
<1>6. op \in Writes => ~new.quiet
  BY <1>1 DEF Reads, Writes
<1>7. CallInv(new)'
  <2>1. IsCall(new)' /\ Ops' = Ops /\ (new.quiet => new.op \in Reads) /\ new.heard
    BY <1>1 DEF IsCall, Ops, PageOps, Session, Replies
  <2>2. BodyOK(new) /\ ArgOK(new.op, new.arg)
    BY <1>1 DEF BodyOK
  <2> QED
    BY <1>1, <2>1, <2>2 DEF CallInv, BodyOK, ArgOK
<1>8. \A x \in calls' : CallInv(x)'
  BY <1>1, <1>3, <1>5, <1>7, LikeInv
<1>9. \A x \in kept : \E c \in calls : x.op = c.op /\ x.heard = c.heard /\ (x.quiet => c.quiet)
  BY <1>5 DEF Like, Becomes
<1>10. \A c, w \in calls' : c.quiet => w.op \notin Writes
  BY <1>1, <1>5, <1>6, <1>9 DEF BrowserInv
<1>11. current' => \A w \in calls' : w.op \in Writes => w.heard
  BY <1>1, <1>9 DEF BrowserInv
<1>12. \A w, x \in calls' : w.op \in Sole /\ w.op = x.op /\ w.heard /\ x.heard => w = x
  <2>1. ASSUME NEW w \in kept, NEW x \in kept, w.op \in Sole, w.op = x.op, w.heard, x.heard
        PROVE  w = x
    <3>1. PICK c \in calls : Like(w, c) /\ (w = c \/ w = [c EXCEPT !.quiet = FALSE])
      BY <1>5
    <3>2. PICK d \in calls : Like(x, d) /\ (x = d \/ x = [d EXCEPT !.quiet = FALSE])
      BY <1>5
    <3>3. c.op \in Sole /\ c.op = d.op /\ c.heard /\ d.heard
      BY <2>1, <3>1, <3>2 DEF Like, Becomes
    <3>4. c = d
      BY <3>3 DEF BrowserInv
    <3>5. CASE op \in Writes
      <4>1. ~w.quiet /\ ~x.quiet
        BY <1>5, <3>5
      <4> QED
        BY <1>3, <3>1, <3>2, <3>4, <4>1 DEF Like, Becomes, IsCall
    <3>6. CASE op \notin Writes
      BY <1>5, <2>1, <3>6 DEF BrowserInv
    <3> QED
      BY <3>5, <3>6
  <2>2. ASSUME NEW w \in kept, w.op \in Sole, w.op = op, w.heard PROVE FALSE
    BY <1>9, <2>2
  <2> QED
    BY <1>1, <2>1, <2>2
<1> QED
  <2>1. BrowserInv'
    BY <1>8, <1>10, <1>11, <1>12 DEF BrowserInv, Places
  <2> QED
    BY <1>1, <1>2, <1>5, <1>6, <2>1

LEMMA OpsKept ==
  ASSUME visit' = visit
  PROVE  /\ Ops' = Ops
         /\ \A x : CallInv(x)' <=> CallInv(x)
<1>1. Ops' = Ops
  BY DEF Ops, PageOps, Session
<1> QED
  BY <1>1 DEF CallInv, IsCall, BodyOK, ArgOK

(* An answer, or its loss.                                                 *)
LEMMA Replied ==
  ASSUME BrowserInv, NEW c \in calls, NEW r \in Replies, NEW b, Reply(c, r, b),
         c.op = "patch" => r # "notFound",
         c.op \in {"createKey", "upload"} /\ r = "ok" => \E v : b = {v},
         UNCHANGED <<visit, place, landing>>, current' = current
  PROVE  /\ BrowserInv'
         /\ \A x \in calls' : (x \in calls /\ x # c) \/ Becomes(x, c, r, b, c.heard, c.quiet)
         /\ \A x \in calls : x = c \/ x \in calls'
         /\ c.heard => \E x \in calls' : Becomes(x, c, r, b, c.heard, c.quiet)
<1> DEFINE new == [c EXCEPT !.reply = r, !.body = b]
<1>1. CallInv(c) /\ IsCall(c)
  BY DEF BrowserInv, CallInv
<1>2. Becomes(new, c, r, b, c.heard, c.quiet)
  BY <1>1, Fields
<1>3. /\ \A x \in calls' : (x \in calls /\ x # c) \/ x = new
      /\ \A x \in calls : x = c \/ x \in calls'
      /\ c.heard => new \in calls'
  BY DEF Reply
<1> HIDE DEF new
<1>4. new.op = c.op /\ new.heard = c.heard /\ new.quiet = c.quiet
  BY <1>2 DEF Becomes
<1>5. CallInv(new)
  <2>1. BodyOK(new) /\ ArgOK(new.op, new.arg)
    BY <1>1, <1>2 DEF Becomes, CallInv, BodyOK, ArgOK
  <2> QED
    BY <1>1, <1>2, <2>1 DEF Becomes, CallInv
<1>6. \A x \in calls' : CallInv(x)'
  BY <1>3, <1>5, OpsKept DEF BrowserInv
<1>7. \A x, w \in calls' : x.quiet => w.op \notin Writes
  BY <1>3, <1>4 DEF BrowserInv
<1>8. current' => \A w \in calls' : w.op \in Writes => w.heard
  BY <1>3, <1>4 DEF BrowserInv
<1>9. \A w, x \in calls' : w.op \in Sole /\ w.op = x.op /\ w.heard /\ x.heard => w = x
  BY <1>3, <1>4 DEF BrowserInv
<1> QED
  BY <1>2, <1>3, <1>6, <1>7, <1>8, <1>9 DEF BrowserInv, Places

(* A page takes a reply.                                                   *)
LEMMA Taken ==
  ASSUME BrowserInv, NEW c \in calls, Drop(c),
         UNCHANGED <<visit, place, landing>>, current' \in BOOLEAN,
         current' => current \/ (c.quiet /\ place = visit)
  PROVE  /\ BrowserInv'
         /\ \A x : x \in calls' <=> x \in calls /\ x # c
<1>1. \A x : x \in calls' <=> x \in calls /\ x # c
  BY DEF Drop
<1>2. \A x \in calls' : CallInv(x)'
  BY <1>1, OpsKept DEF BrowserInv
<1>3. /\ \A x, w \in calls' : x.quiet => w.op \notin Writes
      /\ \A w, x \in calls' : w.op \in Sole /\ w.op = x.op /\ w.heard /\ x.heard => w = x
  BY <1>1 DEF BrowserInv
<1>4. current' => \A w \in calls' : w.op \in Writes => w.heard
  BY <1>1 DEF BrowserInv
<1>5. current' => place' = visit'
  BY DEF BrowserInv
<1> QED
  BY <1>1, <1>2, <1>3, <1>4, <1>5 DEF BrowserInv, Places

(* Another session writes.                                                 *)
LEMMA WrittenElsewhere ==
  ASSUME BrowserInv, calls' = Disturbed(calls), UNCHANGED <<visit, place, landing>>, current' = FALSE
  PROVE  /\ BrowserInv'
         /\ \A x \in calls' : ~x.quiet /\ \E c \in calls : Like(x, c)
<1>1. \A c \in calls : CallInv(c) /\ IsCall(c)
  BY DEF BrowserInv, CallInv
<1>2. \A x \in calls' : ~x.quiet /\ \E c \in calls : Like(x, c) /\ x = [c EXCEPT !.quiet = FALSE]
  BY <1>1, DisturbedAre
<1>3. \A x \in calls' : CallInv(x)'
  BY <1>1, <1>2, LikeInv
<1>4. \A w, x \in calls' : w.op \in Sole /\ w.op = x.op /\ w.heard /\ x.heard => w = x
  <2> TAKE w, x \in calls'
  <2>1. PICK c \in calls : Like(w, c) /\ w = [c EXCEPT !.quiet = FALSE]
    BY <1>2
  <2>2. PICK d \in calls : Like(x, d) /\ x = [d EXCEPT !.quiet = FALSE]
    BY <1>2
  <2>3. w.op = c.op /\ x.op = d.op /\ w.heard = c.heard /\ x.heard = d.heard
    BY <2>1, <2>2 DEF Like, Becomes
  <2> QED
    BY <2>1, <2>2, <2>3 DEF BrowserInv
<1> QED
  BY <1>2, <1>3, <1>4 DEF BrowserInv, Places

(* The token expires.                                                      *)
LEMMA Expired ==
  ASSUME BrowserInv, Expire
  PROVE  /\ BrowserInv'
         /\ \A x \in calls' : \E c \in calls : Like(x, c)
         /\ \A c \in calls : \E x \in calls' : Like(x, c)
<1> DEFINE Aged(c) == [c EXCEPT !.valid = FALSE]
<1>1. calls' = {Aged(c) : c \in calls} /\ UNCHANGED <<visit, place, landing, current>>
  BY DEF Expire
<1>2. \A c \in calls : CallInv(c) /\ IsCall(c)
  BY DEF BrowserInv, CallInv
<1>3. ASSUME NEW c \in calls PROVE Like(Aged(c), c)
  <2>1. PICK x : x = [c EXCEPT !.valid = FALSE]
    OBVIOUS
  <2>2. Becomes(x, c, c.reply, c.body, c.heard, c.quiet)
    BY <1>2, <2>1, Fields DEF IsCall
  <2>3. Like(x, c)
    BY <2>2 DEF Becomes, Like
  <2>4. Like(c, c)
    BY <1>2 DEF Becomes, Like
  <2> QED
    BY <2>1, <2>3, <2>4
<1> HIDE DEF Aged
<1>4. /\ \A x \in calls' : \E c \in calls : Like(x, c) /\ x = Aged(c)
      /\ \A c \in calls : \E x \in calls' : Like(x, c)
  BY <1>1, <1>3
<1>5. \A x \in calls' : CallInv(x)'
  BY <1>1, <1>2, <1>4, LikeInv
<1>6. \A x \in calls' : \E c \in calls :
        x = Aged(c) /\ x.op = c.op /\ x.heard = c.heard /\ (x.quiet => c.quiet)
  BY <1>4 DEF Like, Becomes
<1>7. /\ \A x, w \in calls' : x.quiet => w.op \notin Writes
      /\ current' => \A w \in calls' : w.op \in Writes => w.heard
      /\ \A w, x \in calls' : w.op \in Sole /\ w.op = x.op /\ w.heard /\ x.heard => w = x
  BY <1>1, <1>6 DEF BrowserInv
<1> QED
  BY <1>1, <1>4, <1>5, <1>7 DEF BrowserInv, Places

(* The tab moves on, and hears of nothing it has asked before.             *)
Silent(x) == ~x.quiet /\ ~x.heard /\ x.op \in Session \cup Writes
LEMMA Moved ==
  ASSUME BrowserInv, NEW cs, cs \subseteq calls, NEW p, NEW q \in Places, NEW session,
         Arrive(p, q, Abandoned(cs), session), visit' = visit
  PROVE  /\ BrowserInv' /\ current' = FALSE
         /\ \A x \in calls' : Silent(x) \/ New(x, "load", {})
<1>1. \A c \in calls : CallInv(c) /\ IsCall(c)
  BY DEF BrowserInv, CallInv
<1>2. ASSUME NEW x \in Abandoned(cs)
      PROVE  /\ x.quiet = FALSE /\ x.heard = FALSE /\ x.op \in Session \cup Writes
             /\ x.op \notin Reads \cup Tests /\ CallInv(x)
  <2>1. PICK c \in calls : /\ c.op \in Session \cup Writes
                           /\ x = [c EXCEPT !.heard = FALSE, !.quiet = FALSE]
    BY DEF Abandoned
  <2>2. Becomes(x, c, c.reply, c.body, FALSE, FALSE)
    BY <1>1, <2>1, Fields DEF IsCall
  <2>3. BodyOK(x) /\ ArgOK(x.op, x.arg)
    BY <1>1, <2>2 DEF Becomes, CallInv, BodyOK, ArgOK
  <2>4. c.op \notin Reads \cup Tests
    BY <2>1 DEF Reads, Tests, Writes, Session
  <2> QED
    BY <1>1, <2>1, <2>2, <2>3, <2>4 DEF Becomes, CallInv
<1>3. PICK new : Adds(Plus(Abandoned(cs), "load", {}, session), new, Abandoned(cs), "load", {})
  BY PlusIs
<1>4. /\ New(new, "load", {})
      /\ new.quiet => \A x \in Abandoned(cs) : x.op \notin Writes
      /\ Plus(Abandoned(cs), "load", {}, session) = Abandoned(cs) \cup {new}
  BY <1>3 DEF Adds, New, Writes
<1>5. calls' \subseteq Abandoned(cs) \cup {new} /\ current' = FALSE /\ place' = q
      /\ landing' \in {"dashboard", visit}
  BY <1>4 DEF Arrive
<1>6. CallInv(new)
  BY <1>4 DEF CallInv, New, BodyOK, ArgOK, Ops, Reads
<1>7. \A x \in calls' : CallInv(x)'
  BY <1>2, <1>5, <1>6, OpsKept
<1>8. \A x \in calls' : Silent(x) \/ x = new
  BY <1>2, <1>5 DEF Silent
<1>9. \A x, w \in calls' : x.quiet => w.op \notin Writes
  BY <1>2, <1>4, <1>5 DEF New, Writes
<1>10. \A w, x \in calls' : w.op \in Sole /\ w.op = x.op /\ w.heard /\ x.heard => w = x
  BY <1>4, <1>8 DEF Silent
<1> QED
  BY <1>4, <1>5, <1>7, <1>8, <1>9, <1>10 DEF BrowserInv, Places

LEMMA MovedOn ==
  ASSUME BrowserInv, Move
  PROVE  /\ BrowserInv' /\ current' = FALSE /\ visit' = visit
         /\ \A x \in calls' : Silent(x) \/ New(x, "load", {})
<1>1. \A p \in Places : Admit(p) \in Places
  BY DEF Admit, Places, SignInPages
<1>2. \A op : NextPath(op) \in Places
  BY DEF NextPath, BrowserInv, Places
<1>3. ASSUME NEW p \in Places, Go(p)
      PROVE  /\ BrowserInv' /\ current' = FALSE /\ visit' = visit
             /\ \A x \in calls' : Silent(x) \/ New(x, "load", {})
  BY <1>1, <1>3, Moved DEF Go
<1>4. ASSUME NEW c \in calls, SignedIn(c)
      PROVE  /\ BrowserInv' /\ current' = FALSE /\ visit' = visit
             /\ \A x \in calls' : Silent(x) \/ New(x, "load", {})
  <2>1. calls \ {c} \subseteq calls
    OBVIOUS
  <2> QED
    BY <1>2, <1>4, <2>1, Moved DEF SignedIn
<1>5. ASSUME NEW c \in calls, SignedOut(c)
      PROVE  /\ BrowserInv' /\ current' = FALSE /\ visit' = visit
             /\ \A x \in calls' : Silent(x) \/ New(x, "load", {})
  <2>1. calls \ {c} \subseteq calls
    OBVIOUS
  <2>2. (IF jar' = "none" THEN "login" ELSE "dashboard") \in Places
    BY DEF Places, SignInPages
  <2> QED
    BY <1>5, <2>1, <2>2, Moved DEF SignedOut
<1> QED
  BY <1>3, <1>4, <1>5 DEF Move

(* What befalls calls whose page does nothing.                             *)
Weak(x, c) ==
  /\ x.op = c.op /\ x.arg = c.arg /\ x.heard = c.heard /\ (x.quiet => c.quiet)
  /\ \/ x.reply = c.reply /\ x.body = c.body
     \/ x.reply = "refused" /\ c.reply = "pending"
     \/ x.reply = "failed"
Weakly ==
  /\ \A x \in calls' : x.op \in Session \/ \E c \in calls : Weak(x, c)
  /\ \A c \in calls : c.heard /\ c.op \notin Session => \E x \in calls' : Weak(x, c)

LEMMA Stayed ==
  ASSUME BrowserInv, Stay
  PROVE  BrowserInv' /\ Weakly /\ UNCHANGED <<visit, current>>
<1>1. \A c \in calls : Weak(c, c)
  BY DEF Weak
<1>2. \A x, c : Like(x, c) => Weak(x, c)
  BY DEF Like, Weak, Becomes
<1>3. \A c \in calls : CallInv(c)
  BY DEF BrowserInv
<1>4. ASSUME NEW op, Submit(op) PROVE BrowserInv' /\ Weakly /\ UNCHANGED <<visit, current>>
  <2>1. op \in Session /\ op \in Ops /\ ArgOK(op, {}) /\ op \notin Sole
    BY <1>4 DEF Submit, Ops, ArgOK, Session, Sole, Tests
  <2>2. calls' = Plus(calls, op, {}, jar) /\ UNCHANGED <<visit, place, landing, current>>
    BY <1>4 DEF Submit, Send
  <2>3. current' \in BOOLEAN /\ (current' => current)
    BY <2>2 DEF BrowserInv
  <2>4. /\ BrowserInv'
        /\ \A x \in calls' : New(x, op, {}) \/ \E c \in calls : Like(x, c)
        /\ \A c \in calls : \E x \in calls' : Like(x, c)
    BY <2>1, <2>2, <2>3, Sent
  <2> QED
    BY <1>2, <2>1, <2>2, <2>4 DEF Weakly, New
<1>5. ASSUME NEW c \in calls, NEW r \in Replies \ {"notFound"}, Reply(c, r, {}),
             c.op \in Session \/ r = "failed" \/ (r = "refused" /\ c.reply = "pending"),
             UNCHANGED <<visit, place, landing, current>>
      PROVE  BrowserInv' /\ Weakly /\ UNCHANGED <<visit, current>>
  <2>1. c.op \in {"createKey", "upload"} /\ r = "ok" => FALSE
    BY <1>5 DEF Session
  <2>2. /\ BrowserInv'
        /\ \A x \in calls' : (x \in calls /\ x # c) \/ Becomes(x, c, r, {}, c.heard, c.quiet)
        /\ \A x \in calls : x = c \/ x \in calls'
        /\ c.heard => \E x \in calls' : Becomes(x, c, r, {}, c.heard, c.quiet)
    BY <1>5, <2>1, Replied
  <2>3. \A x : Becomes(x, c, r, {}, c.heard, c.quiet) => x.op = c.op /\ (c.op \in Session \/ Weak(x, c))
    BY <1>5 DEF Becomes, Weak
  <2> QED
    BY <1>1, <1>5, <2>2, <2>3 DEF Weakly
<1>6. ASSUME NEW c \in calls, ServeSession(c) PROVE BrowserInv' /\ Weakly /\ UNCHANGED <<visit, current>>
  <2>1. /\ c.op \in Session /\ \E r \in {"ok", "refused"} : Reply(c, r, {})
        /\ UNCHANGED <<visit, place, landing, current>>
    BY <1>6 DEF ServeSession, ServeLogin, ServeSignup, ServeLogout, Served, Session
  <2> QED
    BY <1>5, <2>1 DEF Replies
<1>7. ASSUME NEW c \in calls, Refuse(c) PROVE BrowserInv' /\ Weakly /\ UNCHANGED <<visit, current>>
  BY <1>5, <1>7 DEF Refuse, Replies
<1>8. ASSUME NEW c \in calls, Fail(c) PROVE BrowserInv' /\ Weakly /\ UNCHANGED <<visit, current>>
  BY <1>5, <1>8 DEF Fail, Replies
<1>9. ASSUME NEW c \in calls, SignInFailed(c) PROVE BrowserInv' /\ Weakly /\ UNCHANGED <<visit, current>>
  <2>1. /\ c.op \in Session /\ Drop(c) /\ UNCHANGED <<visit, place, landing, current>>
    BY <1>9 DEF SignInFailed, Session
  <2>2. current' \in BOOLEAN /\ (current' => current)
    BY <2>1 DEF BrowserInv
  <2>3. BrowserInv' /\ \A x : x \in calls' <=> x \in calls /\ x # c
    BY <2>1, <2>2, Taken
  <2> QED
    BY <1>1, <2>1, <2>3 DEF Weakly
<1>10. CASE Expire
  BY <1>2, <1>10, Expired DEF Expire, Weakly
<1>11. CASE CookieGone
  <2>1. UNCHANGED <<visit, place, landing, calls, current>>
    BY <1>11 DEF CookieGone
  <2>2. BrowserInv'
    BY <2>1, OpsKept DEF BrowserInv, Places
  <2> QED
    BY <1>1, <2>1, <2>2 DEF Weakly
<1> QED
  BY <1>4, <1>6, <1>7, <1>8, <1>9, <1>10, <1>11 DEF Stay

-----------------------------------------------------------------------------
(* No write is under way that the page will not, or not truly, hear of.    *)
Calm == current /\ \A w \in calls : w.op \in Writes => w.reply # "failed"
Answered(w) == w.reply \in {"ok", "notFound"}

(* The value a page shows is stored, or it waits to be told what is.       *)
PatchInv(cs, shown, stored) ==
  /\ \A w \in cs : w.op = "patch" =>
       /\ w.reply = "ok" => w.arg = {stored}
       /\ w.reply \in {"pending", "refused"} => shown = stored
  /\ (\A w \in cs : w.op # "patch") => shown = stored

(* A key is shown as it is, or the page waits for word of it.              *)
Reported(k) == listed[k] = IF keyState[k] = "live" THEN 1 ELSE 0
Settles(w, k) ==
  \/ w.op = "createKey" /\ w.reply = "ok" /\ k \in w.body
  \/ w.op = "revokeKey" /\ Answered(w) /\ k \in w.arg
KeysInv ==
  /\ \A w \in calls : w.op = "revokeKey" =>
       \A k \in Keys \cap w.arg : keyState[k] # "unused" /\ (Answered(w) => keyState[k] = "revoked")
  /\ \A w \in calls : w.op = "createKey" /\ w.reply = "ok" =>
       \A k \in Keys \cap w.body :
         keyState[k] = "live" /\ listed[k] = 0 /\ \A x \in calls : x.op = "revokeKey" => k \notin x.arg
  /\ \A k \in Keys : Reported(k) \/ \E w \in calls : Settles(w, k)

SettingsReads ==
  /\ \A c \in calls : c.quiet /\ c.reply = "ok" =>
       (c.op = "load" => c.body = {status}) /\ (c.op = "listKeys" => c.body = LiveKeys)
  /\ \A c \in calls : c.quiet /\ c.op = "listKeys" => assistant = status
  /\ \A c, d \in calls : c.op = "listKeys" => d.op # "load"
  /\ current => \A c \in calls : c.op # "load"
SettingsButtons ==
  \A w \in calls : w.heard => (w.op = "patch" => publishing) /\ (w.op = "createKey" => creating)

SettingsInv ==
  /\ keyState \in [Keys -> {"unused", "live", "revoked"}] /\ listed \in [Keys -> Nat]
  /\ visit = "settings" =>
       SettingsReads /\ SettingsButtons /\ (Calm => PatchInv(calls, assistant, status) /\ KeysInv)

LEMMA CalmBefore ==
  ASSUME BrowserInv, Weakly, current' = current, Calm'
  PROVE  /\ Calm
         /\ \A x \in calls' : x.op \in Writes => \E c \in calls : Weak(x, c) /\ x.reply # "failed"
         /\ \A c \in calls : c.op \in Writes => \E x \in calls' : Weak(x, c) /\ x.reply # "failed"
<1>1. \A x : x.op \in Writes => x.op \notin Session
  BY DEF Writes, Session
<1>2. \A c \in calls : c.op \in Writes => \E x \in calls' : Weak(x, c) /\ x.reply # "failed"
  <2> TAKE c \in calls
  <2> HAVE c.op \in Writes
  <2>1. c.heard
    BY DEF BrowserInv, Calm
  <2>2. PICK x \in calls' : Weak(x, c)
    BY <1>1, <2>1 DEF Weakly
  <2> QED
    BY <2>2 DEF Weak, Calm
<1>3. Calm
  BY <1>2 DEF Calm, Weak
<1> QED
  BY <1>1, <1>2, <1>3 DEF Weakly, Calm

LEMMA PatchWeakly ==
  ASSUME BrowserInv, Weakly, current' = current, Calm',
         NEW shown, NEW stored, PatchInv(calls, shown, stored)
  PROVE  PatchInv(calls', shown, stored)
BY CalmBefore DEF PatchInv, Weak, Writes

(* The calls to some operations are what they were.                        *)
View(x, c) == x.op = c.op /\ x.arg = c.arg /\ x.reply = c.reply /\ x.body = c.body
SameCalls(ops) ==
  /\ \A x \in calls' : x.op \in ops => \E c \in calls : View(x, c)
  /\ \A c \in calls : c.op \in ops => \E x \in calls' : View(x, c)

LEMMA SamePatch ==
  ASSUME SameCalls({"patch"}), NEW shown, NEW stored, PatchInv(calls, shown, stored)
  PROVE  PatchInv(calls', shown, stored)
BY DEF SameCalls, PatchInv, View

LEMMA SameKeys ==
  ASSUME SameCalls({"createKey", "revokeKey"}), KeysInv, keyState' = keyState, listed' = listed
  PROVE  KeysInv'
<1>1. /\ \A x \in calls' : x.op \in {"createKey", "revokeKey"} => \E c \in calls : View(x, c)
      /\ \A c \in calls : c.op \in {"createKey", "revokeKey"} => \E x \in calls' : View(x, c)
  BY DEF SameCalls
<1>2. \A x \in calls' : x.op = "revokeKey" =>
        \A k \in Keys \cap x.arg : keyState[k] # "unused" /\ (Answered(x) => keyState[k] = "revoked")
  BY <1>1 DEF KeysInv, View, Answered
<1>3. \A x \in calls' : x.op = "createKey" /\ x.reply = "ok" =>
        \A k \in Keys \cap x.body :
          keyState[k] = "live" /\ listed[k] = 0 /\ \A y \in calls' : y.op = "revokeKey" => k \notin y.arg
  BY <1>1 DEF KeysInv, View
<1>4. \A k \in Keys : Reported(k) \/ \E x \in calls' : Settles(x, k)
  BY <1>1 DEF KeysInv, View, Settles, Answered
<1> QED
  BY <1>2, <1>3, <1>4 DEF KeysInv, Reported

LEMMA SettingsMoved ==
  ASSUME BrowserInv, SettingsInv, Move
  PROVE  SettingsInv'
<1>1. /\ BrowserInv' /\ current' = FALSE /\ visit' = visit
      /\ \A x \in calls' : Silent(x) \/ New(x, "load", {})
  BY MovedOn
<1>2. keyState' = keyState /\ listed' \in [Keys -> Nat]
  BY DEF Move, SettingsUnmount, settingsRows
<1>3. SettingsReads'
  BY <1>1 DEF SettingsReads, Silent, New, Session, Writes
<1>4. SettingsButtons'
  BY <1>1 DEF SettingsButtons, Silent, New
<1> QED
  BY <1>1, <1>2, <1>3, <1>4 DEF SettingsInv, Calm

LEMMA SettingsStay ==
  ASSUME BrowserInv, SettingsInv, Stay
  PROVE  SettingsInv'
<1>1. BrowserInv' /\ Weakly /\ visit' = visit /\ current' = current
  BY Stayed
<1>2. UNCHANGED <<status, keyState, assistant, listed, publishing, creating, revoking>>
  BY DEF Stay, settingsVars, settingsRows, settingsState
<1> SUFFICES ASSUME visit = "settings"
             PROVE  SettingsReads' /\ SettingsButtons'
                    /\ (Calm' => PatchInv(calls', assistant', status') /\ KeysInv')
  BY <1>1, <1>2 DEF SettingsInv
<1>3. \A x \in calls' : x.op \in {"load", "listKeys", "patch", "createKey"} => \E c \in calls : Weak(x, c)
  BY <1>1 DEF Weakly, Session
<1>4. SettingsReads'
  BY <1>1, <1>2, <1>3 DEF SettingsReads, SettingsInv, LiveKeys, Weak
<1>5. SettingsButtons'
  BY <1>2, <1>3 DEF SettingsButtons, SettingsInv, Weak
<1>6. ASSUME Calm' PROVE PatchInv(calls', assistant', status')
  BY <1>1, <1>2, <1>6, CalmBefore, PatchWeakly DEF SettingsInv
<1>7. ASSUME Calm' PROVE KeysInv'
  <2>1. /\ Calm /\ KeysInv
        /\ \A x \in calls' : x.op \in Writes => \E c \in calls : Weak(x, c) /\ x.reply # "failed"
        /\ \A c \in calls : c.op \in Writes => \E x \in calls' : Weak(x, c) /\ x.reply # "failed"
    BY <1>1, <1>7, CalmBefore DEF SettingsInv
  <2>2. \A x \in calls' : x.op = "revokeKey" =>
          \A k \in Keys \cap x.arg : keyState[k] # "unused" /\ (Answered(x) => keyState[k] = "revoked")
    BY <2>1 DEF KeysInv, Weak, Answered, Writes
  <2>3. \A x \in calls' : x.op = "createKey" /\ x.reply = "ok" =>
          \A k \in Keys \cap x.body :
            keyState[k] = "live" /\ listed[k] = 0 /\ \A y \in calls' : y.op = "revokeKey" => k \notin y.arg
    BY <2>1 DEF KeysInv, Weak, Writes
  <2>4. \A k \in Keys : Reported(k) \/ \E x \in calls' : Settles(x, k)
    BY <2>1 DEF KeysInv, Weak, Settles, Answered, Writes
  <2> QED
    BY <1>2, <2>2, <2>3, <2>4 DEF KeysInv, Reported
<1> QED
  BY <1>4, <1>5, <1>6, <1>7

-----------------------------------------------------------------------------
(* The API's side of the settings page.                                    *)
LEMMA SettingsServed ==
  ASSUME BrowserInv, SettingsInv, NEW c \in calls, ServeSettings(c)
  PROVE  BrowserInv' /\ SettingsInv' /\ visit' = visit
<1>1. /\ UNCHANGED <<visit, place, landing, current>>
      /\ UNCHANGED <<assistant, listed, publishing, creating, revoking>>
      /\ c.reply = "pending" /\ CallInv(c)
  BY DEF ServeSettings, settingsState, BrowserInv, ServeLoadSettings, ServeListKeys,
         ServePatchStatus, ServeCreateKey, ServeRevokeKey, Served
<1>2. c.op \in {"listKeys", "createKey", "revokeKey"} => visit = "settings"
  BY <1>1 DEF CallInv, Ops, PageOps, Session
<1>3. visit = "settings"
  BY <1>2 DEF ServeSettings, ServeLoadSettings, ServeListKeys,
              ServePatchStatus, ServeCreateKey, ServeRevokeKey, Served
<1>4. /\ keyState \in [Keys -> {"unused", "live", "revoked"}] /\ listed \in [Keys -> Nat]
      /\ SettingsReads /\ SettingsButtons /\ (Calm => PatchInv(calls, assistant, status) /\ KeysInv)
  BY <1>3 DEF SettingsInv
<1>5. ASSUME NEW r \in {"ok", "notFound"}, NEW b, Reply(c, r, b), c.op = "patch" => r = "ok",
             c.op \in {"createKey", "upload"} => \E v : b = {v}
      PROVE  /\ BrowserInv' /\ SettingsButtons' /\ (Calm' => Calm)
             /\ \A x \in calls' : (x \in calls /\ x # c) \/ Becomes(x, c, r, b, c.heard, c.quiet)
             /\ \A x \in calls : x = c \/ x \in calls'
             /\ c.heard => \E x \in calls' : Becomes(x, c, r, b, c.heard, c.quiet)
             /\ \A ops : c.op \notin ops => SameCalls(ops)
  <2>1. /\ BrowserInv'
        /\ \A x \in calls' : (x \in calls /\ x # c) \/ Becomes(x, c, r, b, c.heard, c.quiet)
        /\ \A x \in calls : x = c \/ x \in calls'
        /\ c.heard => \E x \in calls' : Becomes(x, c, r, b, c.heard, c.quiet)
    BY <1>1, <1>5, Replied DEF Replies
  <2>2. SettingsButtons'
    BY <1>1, <1>4, <2>1 DEF SettingsButtons, Becomes
  <2>3. Calm' => Calm
    BY <1>1, <2>1 DEF Calm
  <2>4. \A ops : c.op \notin ops => SameCalls(ops)
    BY <2>1 DEF SameCalls, View, Becomes
  <2> QED
    BY <2>1, <2>2, <2>3, <2>4
<1>6. Calm /\ c.op \in Writes => c.heard
  BY DEF Calm, BrowserInv
<1>7. c.op \in Writes => \A x \in calls : ~x.quiet
  BY DEF BrowserInv
<1>8. CASE ServeLoadSettings(c)
  <2>1. Reply(c, "ok", {status}) /\ c.op = "load" /\ UNCHANGED <<status, keyState>>
    BY <1>8 DEF ServeLoadSettings, Served, settingsRows
  <2>2. /\ BrowserInv' /\ SettingsButtons' /\ (Calm' => Calm)
        /\ \A x \in calls' : (x \in calls /\ x # c) \/ Becomes(x, c, "ok", {status}, c.heard, c.quiet)
        /\ SameCalls({"patch"}) /\ SameCalls({"createKey", "revokeKey"})
    BY <1>5, <2>1
  <2>3. SettingsReads'
    BY <1>1, <1>4, <2>1, <2>2 DEF SettingsReads, LiveKeys, Becomes
  <2> QED
    BY <1>1, <1>4, <2>1, <2>2, <2>3, SamePatch, SameKeys DEF SettingsInv
<1>9. CASE ServeListKeys(c)
  <2>1. Reply(c, "ok", LiveKeys) /\ c.op = "listKeys" /\ UNCHANGED <<status, keyState>>
    BY <1>9 DEF ServeListKeys, Served, settingsRows
  <2>2. /\ BrowserInv' /\ SettingsButtons' /\ (Calm' => Calm)
        /\ \A x \in calls' : (x \in calls /\ x # c) \/ Becomes(x, c, "ok", LiveKeys, c.heard, c.quiet)
        /\ SameCalls({"patch"}) /\ SameCalls({"createKey", "revokeKey"})
    BY <1>5, <2>1
  <2>3. SettingsReads'
    BY <1>1, <1>4, <2>1, <2>2 DEF SettingsReads, LiveKeys, Becomes
  <2> QED
    BY <1>1, <1>4, <2>1, <2>2, <2>3, SamePatch, SameKeys DEF SettingsInv
<1>10. CASE ServePatchStatus(c)
  <2>1. Reply(c, "ok", {}) /\ c.op = "patch" /\ status' \in c.arg /\ keyState' = keyState
    BY <1>10 DEF ServePatchStatus, Served
  <2>2. /\ BrowserInv' /\ SettingsButtons' /\ (Calm' => Calm)
        /\ \A x \in calls' : (x \in calls /\ x # c) \/ Becomes(x, c, "ok", {}, c.heard, c.quiet)
        /\ c.heard => \E x \in calls' : Becomes(x, c, "ok", {}, c.heard, c.quiet)
        /\ SameCalls({"createKey", "revokeKey"})
    BY <1>5, <2>1
  <2>3. SettingsReads'
    BY <1>1, <1>4, <1>7, <2>1, <2>2 DEF SettingsReads, Becomes, Writes
  <2>4. c.arg = {status'}
    BY <1>1, <2>1 DEF CallInv, ArgOK
  <2>5. ASSUME Calm' PROVE PatchInv(calls', assistant', status')
    <3>1. c.heard /\ \A w \in calls : w.op = "patch" => w.heard
      BY <1>6, <2>1, <2>2, <2>5 DEF Writes, Calm, BrowserInv
    <3>2. \A w \in calls : w.op = "patch" => w = c
      BY <2>1, <3>1 DEF BrowserInv, Sole, Tests
    <3>3. \A x \in calls' : x.op = "patch" => x.arg = {status'} /\ x.reply = "ok"
      BY <2>2, <2>4, <3>2 DEF Becomes
    <3>4. \E x \in calls' : x.op = "patch"
      BY <2>1, <2>2, <3>1 DEF Becomes
    <3> QED
      BY <3>3, <3>4 DEF PatchInv
  <2> QED
    BY <1>1, <1>4, <2>1, <2>2, <2>3, <2>5, SameKeys DEF SettingsInv
<1>11. CASE ServeCreateKey(c)
  <2>1. PICK k \in Keys : Mint(k) /\ Reply(c, "ok", {k}) /\ c.op = "createKey" /\ status' = status
    BY <1>11 DEF ServeCreateKey, Served
  <2>2. keyState[k] = "unused" /\ keyState' = [keyState EXCEPT ![k] = "live"]
    BY <2>1 DEF Mint
  <2>3. /\ BrowserInv' /\ SettingsButtons' /\ (Calm' => Calm)
        /\ \A x \in calls' : (x \in calls /\ x # c) \/ Becomes(x, c, "ok", {k}, c.heard, c.quiet)
        /\ \A x \in calls : x = c \/ x \in calls'
        /\ c.heard => \E x \in calls' : Becomes(x, c, "ok", {k}, c.heard, c.quiet)
        /\ SameCalls({"patch"})
    BY <1>5, <2>1
  <2>4. SettingsReads'
    BY <1>1, <1>4, <1>7, <2>1, <2>3 DEF SettingsReads, Becomes, Writes
  <2>5. ASSUME Calm' PROVE KeysInv'
    <3>1. KeysInv /\ c.heard /\ \A w \in calls : w.op = "createKey" => w.heard
      BY <1>4, <1>6, <2>1, <2>3, <2>5 DEF Writes, Calm, BrowserInv
    <3>2. \A w \in calls : w.op = "createKey" => w = c
      BY <2>1, <3>1 DEF BrowserInv, Sole, Tests
    <3>3. \A x \in calls : x.op = "revokeKey" => k \notin x.arg
      BY <2>2, <3>1 DEF KeysInv
    <3>4. \A x \in calls' : x.op = "revokeKey" => x \in calls
      BY <2>1, <2>3 DEF Becomes
    <3>5. listed[k] = 0
      BY <1>1, <2>1, <2>2, <3>1, <3>2, <3>3 DEF KeysInv, Settles, Reported
    <3>6. \A x \in calls' : x.op = "revokeKey" =>
            \A j \in Keys \cap x.arg : keyState'[j] # "unused" /\ (Answered(x) => keyState'[j] = "revoked")
      BY <1>4, <2>2, <3>1, <3>3, <3>4 DEF KeysInv
    <3>7. \A x \in calls' : x.op = "createKey" /\ x.reply = "ok" =>
            \A j \in Keys \cap x.body :
              keyState'[j] = "live" /\ listed[j] = 0 /\ \A y \in calls' : y.op = "revokeKey" => j \notin y.arg
      BY <1>4, <2>2, <2>3, <3>2, <3>3, <3>4, <3>5 DEF Becomes
    <3>8. ASSUME NEW j \in Keys PROVE Reported(j)' \/ \E x \in calls' : Settles(x, j)
      <4>1. CASE j = k
        BY <2>1, <2>3, <3>1, <4>1 DEF Becomes, Settles
      <4>2. CASE j # k
        <5>1. keyState'[j] = keyState[j] /\ listed'[j] = listed[j]
          BY <1>1, <1>4, <2>2, <4>2
        <5> QED
          BY <1>1, <2>1, <2>3, <3>1, <5>1 DEF KeysInv, Reported, Settles, Answered
      <4> QED
        BY <4>1, <4>2
    <3> QED
      BY <1>1, <3>6, <3>7, <3>8 DEF KeysInv
  <2> QED
    BY <1>1, <1>4, <2>1, <2>2, <2>3, <2>4, <2>5, SamePatch DEF SettingsInv
<1>12. CASE ServeRevokeKey(c)
  <2>1. PICK k \in c.arg : /\ Erase(k) /\ c.op = "revokeKey" /\ status' = status
                          /\ Reply(c, IF k \in LiveKeys THEN "ok" ELSE "notFound", {})
    BY <1>12 DEF ServeRevokeKey, Served
  <2>2. PICK r \in {"ok", "notFound"} : Reply(c, r, {})
    BY <2>1
  <2>3. c.arg = {k}
    BY <1>1, <2>1 DEF CallInv, ArgOK
  <2>4. /\ \A j \in Keys : keyState'[j] = IF j = k /\ keyState[j] = "live" THEN "revoked" ELSE keyState[j]
        /\ keyState' \in [Keys -> {"unused", "live", "revoked"}]
    BY <1>4, <2>1 DEF Erase
  <2>5. /\ BrowserInv' /\ SettingsButtons' /\ (Calm' => Calm)
        /\ \A x \in calls' : (x \in calls /\ x # c) \/ Becomes(x, c, r, {}, c.heard, c.quiet)
        /\ \A x \in calls : x = c \/ x \in calls'
        /\ c.heard => \E x \in calls' : Becomes(x, c, r, {}, c.heard, c.quiet)
        /\ SameCalls({"patch"})
    BY <1>5, <2>1, <2>2
  <2>6. SettingsReads'
    BY <1>1, <1>4, <1>7, <2>1, <2>5 DEF SettingsReads, Becomes, Writes
  <2>7. ASSUME Calm' PROVE KeysInv'
    <3>1. KeysInv /\ c.heard
      BY <1>4, <1>6, <2>1, <2>5, <2>7 DEF Writes
    <3>2. k \in Keys => keyState'[k] = "revoked"
      BY <2>1, <2>3, <2>4, <3>1, <1>4 DEF KeysInv
    <3>3. \A x \in calls' : x.op = "revokeKey" =>
            \A j \in Keys \cap x.arg : keyState'[j] # "unused" /\ (Answered(x) => keyState'[j] = "revoked")
      <4> SUFFICES ASSUME NEW x \in calls', x.op = "revokeKey", NEW j \in Keys \cap x.arg
                   PROVE  keyState'[j] # "unused" /\ (Answered(x) => keyState'[j] = "revoked")
        OBVIOUS
      <4>1. CASE x \in calls
        <5>1. keyState[j] # "unused" /\ (Answered(x) => keyState[j] = "revoked")
          BY <3>1, <4>1 DEF KeysInv
        <5> QED
          BY ONLY <2>4, <5>1
      <4>2. CASE x \notin calls
        <5>1. x.arg = c.arg
          BY <2>5, <4>2 DEF Becomes
        <5>2. j = k
          BY <2>3, <5>1
        <5> QED
          BY <3>2, <5>2
      <4> QED
        BY <4>1, <4>2
    <3>4. \A x \in calls' : x.op = "createKey" => x \in calls
      BY <2>1, <2>5 DEF Becomes
    <3>5. \A x \in calls' : x.op = "revokeKey" => \E y \in calls : y.op = "revokeKey" /\ y.arg = x.arg
      BY <2>5 DEF Becomes
    <3>6. \A x \in calls' : x.op = "createKey" /\ x.reply = "ok" =>
            \A j \in Keys \cap x.body :
              keyState'[j] = "live" /\ listed[j] = 0 /\ \A y \in calls' : y.op = "revokeKey" => j \notin y.arg
      BY <2>1, <2>4, <3>1, <3>4, <3>5 DEF KeysInv
    <3>7. ASSUME NEW j \in Keys PROVE Reported(j)' \/ \E x \in calls' : Settles(x, j)
      <4>1. CASE j = k
        BY <2>1, <2>3, <2>5, <3>1, <4>1 DEF Becomes, Settles, Answered
      <4>2. CASE j # k
        <5>1. keyState'[j] = keyState[j] /\ listed'[j] = listed[j]
          BY <1>1, <2>4, <4>2
        <5> QED
          BY <1>1, <2>1, <2>5, <3>1, <5>1 DEF KeysInv, Reported, Settles, Answered
      <4> QED
        BY <4>1, <4>2
    <3> QED
      BY <1>1, <3>3, <3>6, <3>7 DEF KeysInv
  <2> QED
    BY <1>1, <1>4, <2>1, <2>4, <2>5, <2>6, <2>7, SamePatch DEF SettingsInv
<1> QED
  BY <1>1, <1>8, <1>9, <1>10, <1>11, <1>12 DEF ServeSettings

(* More keys are asked for, which keeps what is shown.                     *)
LEMMA KeysSent ==
  ASSUME \A x \in calls' : x.op \in {"createKey", "revokeKey"} =>
           \/ \E c \in calls : View(x, c)
           \/ /\ x.reply = "pending"
              /\ x.op = "revokeKey" => \A k \in Keys \cap x.arg :
                   keyState[k] # "unused" /\ \A c \in calls : c.op = "createKey" /\ c.reply = "ok" => k \notin c.body,
         \A c \in calls : c.op \in {"createKey", "revokeKey"} => \E x \in calls' : View(x, c),
         KeysInv, keyState' = keyState, listed' = listed
  PROVE  KeysInv'
<1>1. \A x \in calls' : x.op = "revokeKey" =>
        \A k \in Keys \cap x.arg : keyState[k] # "unused" /\ (Answered(x) => keyState[k] = "revoked")
  BY DEF KeysInv, View, Answered
<1>2. ASSUME NEW x \in calls', x.op = "createKey", x.reply = "ok", NEW k \in Keys \cap x.body
      PROVE  keyState[k] = "live" /\ listed[k] = 0 /\ \A y \in calls' : y.op = "revokeKey" => k \notin y.arg
  <2>1. PICK c \in calls : View(x, c)
    BY <1>2
  <2>2. c.op = "createKey" /\ c.reply = "ok" /\ k \in c.body
    BY <1>2, <2>1 DEF View
  <2> QED
    BY <2>2 DEF KeysInv, View
<1>3. \A k \in Keys : Reported(k) \/ \E x \in calls' : Settles(x, k)
  BY DEF KeysInv, View, Settles, Answered
<1> QED
  BY <1>1, <1>2, <1>3 DEF KeysInv, Reported

LEMMA OnSettingsPage ==
  ASSUME BrowserInv, SettingsInv, OnSettings
  PROVE  /\ visit = "settings" /\ UNCHANGED <<visit, place, landing>> /\ place = visit
         /\ keyState \in [Keys -> {"unused", "live", "revoked"}] /\ listed \in [Keys -> Nat]
         /\ SettingsReads /\ SettingsButtons /\ (Calm => PatchInv(calls, assistant, status) /\ KeysInv)
BY DEF OnSettings, BrowserInv, Places, SignInPages, SettingsInv

LEMMA SettingsClicked ==
  ASSUME BrowserInv, SettingsInv, SettingsClicks
  PROVE  BrowserInv' /\ SettingsInv' /\ visit' = visit
<1>1. /\ OnSettings /\ UNCHANGED <<status, keyState, assistant, listed, current>>
  BY DEF SettingsClicks, TogglePublish, CreateKey, RevokeKey, settingsRows
<1>2. /\ visit = "settings" /\ UNCHANGED <<visit, place, landing>>
      /\ keyState \in [Keys -> {"unused", "live", "revoked"}] /\ listed \in [Keys -> Nat]
      /\ SettingsReads /\ SettingsButtons /\ (Calm => PatchInv(calls, assistant, status) /\ KeysInv)
  BY <1>1, OnSettingsPage
<1>3. {"patch", "createKey", "revokeKey"} \subseteq Ops
  BY <1>2 DEF Ops, PageOps
<1>4. ASSUME NEW op \in {"patch", "createKey", "revokeKey"}, NEW arg, ArgOK(op, arg), Send(op, arg),
             op \in Sole => \A w \in calls : w.op = op => ~w.heard
      PROVE  /\ BrowserInv' /\ SettingsReads' /\ (Calm' => Calm)
             /\ \A x \in calls' : New(x, op, arg) \/ \E c \in calls : Like(x, c)
             /\ \A c \in calls : \E x \in calls' : Like(x, c)
             /\ \A ops : op \notin ops => SameCalls(ops)
  <2>1. current' \in BOOLEAN /\ (current' => current) /\ calls' = Plus(calls, op, arg, jar)
    BY <1>1, <1>4 DEF BrowserInv, Send
  <2>2. /\ BrowserInv'
        /\ \A x \in calls' : New(x, op, arg) \/ \E c \in calls : Like(x, c)
        /\ \A c \in calls : \E x \in calls' : Like(x, c)
        /\ op \in Writes => \A x \in calls' : ~x.quiet
    BY <1>2, <1>3, <1>4, <2>1, Sent
  <2>3. SettingsReads'
    <3>1. \A x \in calls' : ~x.quiet
      BY <2>2 DEF Writes
    <3>2. \A x \in calls' : x.op \in {"load", "listKeys"} => \E c \in calls : x.op = c.op
      BY <2>2 DEF New, Like, Becomes
    <3> QED
      BY <1>1, <1>2, <3>1, <3>2 DEF SettingsReads
  <2>4. \A x, c : Like(x, c) => View(x, c)
    BY DEF Like, Becomes, View
  <2>5. Calm' => Calm
    BY <1>1, <2>2, <2>4 DEF Calm, View
  <2>6. \A ops : op \notin ops => SameCalls(ops)
    BY <2>2, <2>4 DEF SameCalls, New
  <2> QED
    BY <2>2, <2>3, <2>5, <2>6
<1>5. CASE TogglePublish
  <2>1. PICK v : Send("patch", {v}) /\ publishing' = TRUE /\ ~publishing /\ creating' = creating
    BY <1>5 DEF TogglePublish
  <2>2. \A w \in calls : w.op = "patch" => ~w.heard
    BY <1>2, <2>1 DEF SettingsButtons
  <2>3. ArgOK("patch", {v})
    BY DEF ArgOK
  <2>4. /\ BrowserInv' /\ SettingsReads' /\ (Calm' => Calm)
        /\ \A x \in calls' : New(x, "patch", {v}) \/ \E c \in calls : Like(x, c)
        /\ \A c \in calls : \E x \in calls' : Like(x, c)
        /\ SameCalls({"createKey", "revokeKey"})
    BY <1>4, <2>1, <2>2, <2>3
  <2>5. SettingsButtons'
    BY <1>2, <2>1, <2>4 DEF SettingsButtons, New, Like, Becomes
  <2>6. ASSUME Calm' PROVE PatchInv(calls', assistant', status')
    <3>1. \A w \in calls : w.op # "patch"
      BY <2>2, <2>4, <2>6 DEF Calm, BrowserInv, Writes
    <3>2. assistant = status
      BY <1>2, <2>4, <2>6, <3>1 DEF PatchInv
    <3>3. \A x \in calls' : x.op = "patch" => x.reply = "pending"
      BY <2>4, <3>1 DEF New, Like, Becomes
    <3> QED
      BY <1>1, <3>2, <3>3 DEF PatchInv
  <2> QED
    BY <1>1, <1>2, <2>4, <2>5, <2>6, SameKeys DEF SettingsInv
<1>6. CASE CreateKey
  <2>1. Send("createKey", {}) /\ creating' = TRUE /\ ~creating /\ publishing' = publishing
    BY <1>6 DEF CreateKey
  <2>2. \A w \in calls : w.op = "createKey" => ~w.heard
    BY <1>2, <2>1 DEF SettingsButtons
  <2>3. ArgOK("createKey", {})
    BY DEF ArgOK
  <2>4. /\ BrowserInv' /\ SettingsReads' /\ (Calm' => Calm)
        /\ \A x \in calls' : New(x, "createKey", {}) \/ \E c \in calls : Like(x, c)
        /\ \A c \in calls : \E x \in calls' : Like(x, c)
        /\ SameCalls({"patch"})
    BY <1>4, <2>1, <2>2, <2>3
  <2>5. SettingsButtons'
    BY <1>2, <2>1, <2>4 DEF SettingsButtons, New, Like, Becomes
  <2>6. \A x, c : Like(x, c) => View(x, c)
    BY DEF Like, Becomes, View
  <2>7. ASSUME Calm' PROVE KeysInv'
    BY <1>1, <1>2, <2>4, <2>6, <2>7, KeysSent DEF New
  <2> QED
    BY <1>1, <1>2, <2>4, <2>5, <2>7, SamePatch DEF SettingsInv
<1>7. ASSUME NEW k \in Keys, RevokeKey(k) PROVE BrowserInv' /\ SettingsInv' /\ visit' = visit
  <2>1. Send("revokeKey", {k}) /\ listed[k] > 0 /\ UNCHANGED <<publishing, creating>>
    BY <1>7 DEF RevokeKey
  <2>2. ArgOK("revokeKey", {k})
    BY DEF ArgOK
  <2>3. /\ BrowserInv' /\ SettingsReads' /\ (Calm' => Calm)
        /\ \A x \in calls' : New(x, "revokeKey", {k}) \/ \E c \in calls : Like(x, c)
        /\ \A c \in calls : \E x \in calls' : Like(x, c)
        /\ SameCalls({"patch"})
    BY <1>4, <2>1, <2>2 DEF Sole, Tests
  <2>4. SettingsButtons'
    BY <1>2, <2>1, <2>3 DEF SettingsButtons, New, Like, Becomes
  <2>5. \A x, c : Like(x, c) => View(x, c)
    BY DEF Like, Becomes, View
  <2>6. ASSUME Calm' PROVE KeysInv'
    <3>1. KeysInv
      BY <1>2, <2>3, <2>6
    <3>2. listed[k] # 0
      BY <1>2, <2>1
    <3>3. \A c \in calls : c.op = "createKey" /\ c.reply = "ok" => k \notin c.body
      BY <3>1, <3>2 DEF KeysInv
    <3>4. keyState[k] # "unused"
      BY <3>1, <3>2, <3>3 DEF KeysInv, Reported, Settles
    <3>5. \A x : New(x, "revokeKey", {k}) => x.reply = "pending" /\ x.arg = {k}
      BY DEF New
    <3> QED
      BY <1>1, <2>3, <2>5, <3>1, <3>3, <3>4, <3>5, KeysSent
  <2> QED
    BY <1>1, <1>2, <2>3, <2>4, <2>6, SamePatch DEF SettingsInv
<1> QED
  BY <1>5, <1>6, <1>7 DEF SettingsClicks

LEMMA SettingsWritten ==
  ASSUME BrowserInv, SettingsInv, SettingsElsewhere
  PROVE  BrowserInv' /\ SettingsInv' /\ visit' = visit
<1>1. /\ visit = "settings" /\ UNCHANGED <<visit, place, landing, assistant, listed, publishing, creating>>
      /\ calls' = Disturbed(calls) /\ current' = FALSE
  BY DEF SettingsElsewhere, settingsState
<1>2. /\ BrowserInv'
      /\ \A x \in calls' : ~x.quiet /\ \E c \in calls : Like(x, c)
  BY <1>1, WrittenElsewhere
<1>3. keyState' \in [Keys -> {"unused", "live", "revoked"}] /\ listed' \in [Keys -> Nat]
  BY <1>1 DEF SettingsElsewhere, SettingsInv, Mint, Erase
<1>4. \A x \in calls' : ~x.quiet /\ \E c \in calls : x.op = c.op /\ x.heard = c.heard
  BY <1>2 DEF Like, Becomes
<1>5. SettingsReads' /\ SettingsButtons'
  BY <1>1, <1>4 DEF SettingsInv, SettingsReads, SettingsButtons
<1> QED
  BY <1>1, <1>2, <1>3, <1>5 DEF SettingsInv, Calm

(* The assistant is there: its keys are asked for, as quietly as it was.   *)
LEMMA KeysAsked ==
  ASSUME BrowserInv, visit = "settings", NEW c \in calls,
         calls' = {[x EXCEPT !.quiet = @ /\ c.quiet] : x \in Plus(calls \ {c}, "listKeys", {}, jar)},
         UNCHANGED <<visit, place, landing, current>>
  PROVE  /\ BrowserInv'
         /\ \A x \in calls' : x.quiet => c.quiet
         /\ \A x \in calls' : New(x, "listKeys", {}) \/ \E y \in calls \ {c} : Like(x, y)
         /\ \A y \in calls \ {c} : \E x \in calls' : Like(x, y)
<1> DEFINE Dim(x) == [x EXCEPT !.quiet = x.quiet /\ c.quiet]
<1>1. PICK new : Adds(Plus(calls \ {c}, "listKeys", {}, jar), new, calls \ {c}, "listKeys", {})
  BY PlusIs
<1>2. /\ IsCall(new) /\ new.op = "listKeys" /\ new.arg = {} /\ new.reply = "pending" /\ new.body = {}
      /\ new.heard = TRUE
      /\ new.quiet => \A w \in calls \ {c} : w.op \notin Writes
      /\ Plus(calls \ {c}, "listKeys", {}, jar) = (calls \ {c}) \cup {new}
  BY <1>1 DEF Adds, Writes
<1>3. calls' = {Dim(x) : x \in (calls \ {c}) \cup {new}}
  BY <1>2
<1>4. \A x \in calls : CallInv(x) /\ IsCall(x)
  BY DEF BrowserInv, CallInv
<1>5. CallInv(new)
  BY <1>2 DEF CallInv, BodyOK, ArgOK, Ops, PageOps, Reads
<1>6. ASSUME NEW x, IsCall(x) PROVE Like(Dim(x), x) /\ (Dim(x).quiet => c.quiet)
  <2>1. CASE x.quiet = TRUE /\ c.quiet = TRUE
    <3>1. Dim(x) = x
      <4>1. (x.quiet /\ c.quiet) = TRUE
        BY <2>1
      <4>2. [x EXCEPT !.quiet = TRUE] = x
        BY <1>6, <2>1, Fields DEF IsCall
      <4> QED
        BY <4>1, <4>2
    <3> QED
      BY <1>6, <2>1, <3>1 DEF Like, Becomes
  <2>2. CASE ~(x.quiet = TRUE /\ c.quiet = TRUE)
    <3>1. (x.quiet /\ c.quiet) = FALSE
      BY <1>4, <1>6, <2>2 DEF IsCall
    <3>2. Becomes([x EXCEPT !.quiet = FALSE], x, x.reply, x.body, x.heard, FALSE)
      BY <1>6, Fields DEF IsCall
    <3>3. Becomes(Dim(x), x, x.reply, x.body, x.heard, FALSE)
      BY <3>1, <3>2
    <3> HIDE DEF Dim
    <3> QED
      BY <3>3 DEF Like, Becomes
  <2> QED
    BY <2>1, <2>2
<1> HIDE DEF Dim
<1>7. /\ \A x \in calls' : \E y \in (calls \ {c}) \cup {new} : x = Dim(y) /\ Like(x, y) /\ (x.quiet => c.quiet)
      /\ \A y \in (calls \ {c}) \cup {new} : \E x \in calls' : Like(x, y)
  <2>1. \A x : x \in calls' <=> \E y \in (calls \ {c}) \cup {new} : x = Dim(y)
    BY <1>3
  <2>2. \A y \in (calls \ {c}) \cup {new} : Like(Dim(y), y) /\ (Dim(y).quiet => c.quiet)
    BY <1>2, <1>4, <1>6
  <2>3. ASSUME NEW x \in calls'
        PROVE  \E y \in (calls \ {c}) \cup {new} : x = Dim(y) /\ Like(x, y) /\ (x.quiet => c.quiet)
    <3>1. PICK y \in (calls \ {c}) \cup {new} : x = Dim(y)
      BY <2>1
    <3>2. Like(x, y) /\ (x.quiet => c.quiet)
      BY ONLY <2>2, <3>1
    <3> QED
      BY <3>1, <3>2
  <2>4. ASSUME NEW y \in (calls \ {c}) \cup {new} PROVE \E x \in calls' : Like(x, y)
    <3>1. Dim(y) \in calls' /\ Like(Dim(y), y)
      BY <2>1, <2>2
    <3> QED
      BY <3>1
  <2> QED
    BY <2>3, <2>4
<1>8. \A x : Like(x, new) => New(x, "listKeys", {})
  BY <1>2 DEF Like, Becomes, New
<1>9. \A x \in calls' : CallInv(x)'
  BY <1>4, <1>5, <1>7, LikeInv
<1>10. \A x \in calls' : \E y \in (calls \ {c}) \cup {new} :
         x = Dim(y) /\ x.op = y.op /\ x.heard = y.heard /\ (x.quiet => y.quiet)
  BY <1>7 DEF Like, Becomes
<1>11. \A x, w \in calls' : x.quiet => w.op \notin Writes
  <2>1. \A y, w \in (calls \ {c}) \cup {new} : y.quiet => w.op \notin Writes
    BY <1>2 DEF BrowserInv, Writes
  <2> QED
    BY <1>10, <2>1
<1>12. current' => \A w \in calls' : w.op \in Writes => w.heard
  BY <1>2, <1>10 DEF BrowserInv
<1>13. \A w, x \in calls' : w.op \in Sole /\ w.op = x.op /\ w.heard /\ x.heard => w = x
  <2>1. \A w, x \in (calls \ {c}) \cup {new} : w.op \in Sole /\ w.op = x.op /\ w.heard /\ x.heard => w = x
    BY <1>2 DEF BrowserInv, Sole, Tests
  <2> TAKE w, x \in calls'
  <2>2. PICK y \in (calls \ {c}) \cup {new} : w = Dim(y) /\ w.op = y.op /\ w.heard = y.heard
    BY <1>10
  <2>3. PICK z \in (calls \ {c}) \cup {new} : x = Dim(z) /\ x.op = z.op /\ x.heard = z.heard
    BY <1>10
  <2>4. w.op \in Sole /\ w.op = x.op /\ w.heard /\ x.heard => y = z
    BY <2>1, <2>2, <2>3
  <2> QED
    BY <2>2, <2>3, <2>4
<1>14. BrowserInv'
  BY <1>9, <1>11, <1>12, <1>13 DEF BrowserInv, Places
<1> QED
  BY <1>7, <1>8, <1>14

LEMMA SettingsHeard ==
  ASSUME BrowserInv, SettingsInv, NEW c \in calls, SettingsHears(c)
  PROVE  BrowserInv' /\ SettingsInv' /\ visit' = visit
<1>1. OnSettings /\ c.reply # "pending" /\ c.heard /\ UNCHANGED <<status, keyState>> /\ CallInv(c)
  BY DEF SettingsHears, SettingsLoaded, KeysLoaded, PublishAnswered, KeyCreated, KeyRevoked,
         Take, settingsRows, BrowserInv
<1>2. /\ visit = "settings" /\ UNCHANGED <<visit, place, landing>> /\ place = visit
      /\ keyState \in [Keys -> {"unused", "live", "revoked"}] /\ listed \in [Keys -> Nat]
      /\ SettingsReads /\ SettingsButtons /\ (Calm => PatchInv(calls, assistant, status) /\ KeysInv)
  BY <1>1, OnSettingsPage
<1>3. ASSUME Drop(c), current' \in BOOLEAN, current' => current \/ c.quiet
      PROVE  /\ BrowserInv'
             /\ \A x : x \in calls' <=> x \in calls /\ x # c
             /\ \A ops : c.op \notin ops => SameCalls(ops)
  <2>1. BrowserInv' /\ \A x : x \in calls' <=> x \in calls /\ x # c
    BY <1>2, <1>3, Taken
  <2> QED
    BY <2>1 DEF SameCalls, View
<1>4. CASE SettingsLoaded(c)
  <2>1. c.op = "load" /\ UNCHANGED <<current, listed, publishing, creating>> /\ current \in BOOLEAN
    BY <1>4 DEF SettingsLoaded, BrowserInv
  <2>2. ~current /\ \A d \in calls : d.op = "load" => d = c
    <3>1. \A d \in calls : d.op = "load" => d.heard
      BY DEF BrowserInv, CallInv, Reads
    <3> QED
      BY <1>1, <1>2, <2>1, <3>1 DEF SettingsReads, BrowserInv, Sole, Tests
  <2>3. CASE c.reply = "ok"
    <3>1. /\ assistant' \in c.body
          /\ calls' = {[x EXCEPT !.quiet = @ /\ c.quiet] : x \in Plus(calls \ {c}, "listKeys", {}, jar)}
      BY <1>4, <2>3 DEF SettingsLoaded
    <3>2. /\ BrowserInv'
          /\ \A x \in calls' : x.quiet => c.quiet
          /\ \A x \in calls' : New(x, "listKeys", {}) \/ \E y \in calls \ {c} : Like(x, y)
      BY <1>2, <2>1, <3>1, KeysAsked
    <3>3. c.quiet => assistant' = status
      BY <1>2, <2>1, <2>3, <3>1 DEF SettingsReads
    <3>4. \A x \in calls' : /\ x.op # "load"
                            /\ x.quiet /\ x.reply = "ok" => \E y \in calls : View(x, y) /\ y.quiet
                            /\ x.op \in {"patch", "createKey"} => \E y \in calls : View(x, y) /\ x.heard = y.heard
      BY <2>2, <3>2 DEF New, Like, Becomes, View
    <3>5. SettingsReads'
      BY <1>1, <1>2, <2>1, <2>2, <3>2, <3>3, <3>4 DEF SettingsReads, LiveKeys, View
    <3>6. SettingsButtons'
      BY <1>2, <2>1, <3>4 DEF SettingsButtons, View
    <3> QED
      BY <1>1, <1>2, <2>1, <2>2, <3>2, <3>5, <3>6 DEF SettingsInv, Calm
  <2>4. CASE c.reply # "ok"
    <3>1. Drop(c) /\ assistant' = assistant
      BY <1>4, <2>4 DEF SettingsLoaded
    <3>2. BrowserInv' /\ \A x : x \in calls' <=> x \in calls /\ x # c
      BY <1>3, <2>1, <3>1
    <3>3. SettingsReads' /\ SettingsButtons'
      BY <1>1, <1>2, <2>1, <3>1, <3>2 DEF SettingsReads, SettingsButtons, LiveKeys
    <3> QED
      BY <1>1, <1>2, <2>1, <2>2, <3>2, <3>3 DEF SettingsInv, Calm
  <2> QED
    BY <2>3, <2>4
<1>5. CASE KeysLoaded(c)
  <2>1. c.op = "listKeys" /\ Drop(c) /\ UNCHANGED <<assistant, publishing, creating>>
    BY <1>5 DEF KeysLoaded
  <2>2. /\ c.reply = "ok" => /\ listed' = [k \in Keys |-> IF k \in c.body THEN 1 ELSE 0]
                             /\ current' = c.quiet
        /\ c.reply # "ok" => UNCHANGED <<listed, current>>
    BY <1>5 DEF KeysLoaded
  <2>3. c.quiet \in BOOLEAN /\ current \in BOOLEAN
    BY <1>1 DEF CallInv, IsCall, BrowserInv
  <2>4. /\ BrowserInv' /\ \A x : x \in calls' <=> x \in calls /\ x # c
        /\ SameCalls({"patch"}) /\ SameCalls({"createKey", "revokeKey"})
    BY <1>3, <2>1, <2>2, <2>3
  <2>5. SettingsReads' /\ SettingsButtons'
    BY <1>1, <1>2, <2>1, <2>2, <2>4 DEF SettingsReads, SettingsButtons, LiveKeys
  <2>6. listed' \in [Keys -> Nat]
    BY <1>2, <2>2
  <2>7. CASE c.reply = "ok"
    <3>1. ASSUME Calm' PROVE PatchInv(calls', assistant', status') /\ KeysInv'
      <4>1. c.quiet /\ \A x \in calls : x.op \notin Writes
        BY <2>2, <2>7, <3>1 DEF Calm, BrowserInv
      <4>2. assistant = status /\ c.body = LiveKeys
        BY <1>2, <2>1, <2>7, <4>1 DEF SettingsReads
      <4>3. \A x \in calls' : x.op \notin {"patch", "createKey", "revokeKey"}
        BY <2>4, <4>1 DEF Writes
      <4>4. \A k \in Keys : Reported(k)'
        BY <1>1, <2>2, <2>7, <4>2 DEF Reported, LiveKeys
      <4> QED
        BY <1>1, <2>1, <4>2, <4>3, <4>4 DEF PatchInv, KeysInv
    <3> QED
      BY <1>1, <1>2, <2>4, <2>5, <2>6, <3>1 DEF SettingsInv
  <2>8. CASE c.reply # "ok"
    <3>1. Calm' => Calm
      BY <2>1, <2>2, <2>4, <2>8 DEF Calm, Writes
    <3> QED
      BY <1>1, <1>2, <2>1, <2>2, <2>4, <2>5, <2>6, <2>8, <3>1, SamePatch, SameKeys DEF SettingsInv
  <2> QED
    BY <2>7, <2>8
<1>6. ASSUME Drop(c), Doubt(c), c.op \in Writes
      PROVE  /\ BrowserInv'
             /\ SettingsReads' \/ assistant' # assistant
             /\ (Calm' => Calm /\ c.reply # "failed")
             /\ \A x : x \in calls' <=> x \in calls /\ x # c
             /\ \A ops : c.op \notin ops => SameCalls(ops)
  <2>1. current' \in BOOLEAN /\ (current' => current /\ c.reply # "failed")
    BY <1>6 DEF Doubt
  <2>2. /\ BrowserInv' /\ \A x : x \in calls' <=> x \in calls /\ x # c
        /\ \A ops : c.op \notin ops => SameCalls(ops)
    BY <1>3, <1>6, <2>1
  <2>3. Calm' => Calm /\ c.reply # "failed"
    BY <2>1, <2>2 DEF Calm
  <2>4. SettingsReads' \/ assistant' # assistant
    BY <1>1, <1>2, <2>1, <2>2 DEF SettingsReads, LiveKeys
  <2> QED
    BY <2>2, <2>3, <2>4
<1>7. CASE PublishAnswered(c)
  <2>1. /\ c.op = "patch" /\ Drop(c) /\ Doubt(c) /\ UNCHANGED <<listed, creating>>
        /\ IF c.reply = "ok" THEN assistant' \in c.arg ELSE assistant' = assistant
    BY <1>7 DEF PublishAnswered
  <2>2. /\ BrowserInv' /\ (Calm' => Calm /\ c.reply # "failed")
        /\ \A x : x \in calls' <=> x \in calls /\ x # c
        /\ SameCalls({"createKey", "revokeKey"})
    BY <1>6, <2>1 DEF Writes
  <2>3. \A x \in calls : x.op = "patch" /\ x.heard => x = c
    BY <1>1, <2>1 DEF BrowserInv, Sole, Tests
  <2>4. SettingsButtons'
    BY <1>2, <2>1, <2>2, <2>3 DEF SettingsButtons
  <2>5. SettingsReads'
    <3>1. \A x \in calls : ~x.quiet
      BY <2>1 DEF BrowserInv, Writes
    <3>2. current' => current
      BY <2>1 DEF Doubt
    <3> QED
      BY <1>1, <1>2, <2>2, <3>1, <3>2 DEF SettingsReads
  <2>6. ASSUME Calm' PROVE PatchInv(calls', assistant', status')
    <3>1. \A x \in calls' : x.op # "patch"
      BY <2>2, <2>3, <2>6 DEF Calm, BrowserInv, Writes
    <3>2. PatchInv(calls, assistant, status) /\ c.reply \in {"ok", "refused"}
      BY <1>1, <1>2, <2>1, <2>2, <2>6 DEF CallInv, BodyOK, IsCall, Replies
    <3>3. assistant' = status
      BY <2>1, <3>2 DEF PatchInv
    <3> QED
      BY <1>1, <3>1, <3>3 DEF PatchInv
  <2> QED
    BY <1>1, <1>2, <2>1, <2>2, <2>4, <2>5, <2>6, SameKeys DEF SettingsInv
<1>8. CASE KeyCreated(c)
  <2>1. /\ c.op = "createKey" /\ Drop(c) /\ Doubt(c) /\ UNCHANGED <<assistant, publishing>>
        /\ c.reply = "ok" => \E k \in c.body : listed' = [listed EXCEPT ![k] = @ + 1]
        /\ c.reply # "ok" => listed' = listed
    BY <1>8 DEF KeyCreated
  <2>2. /\ BrowserInv' /\ SettingsReads' /\ (Calm' => Calm /\ c.reply # "failed")
        /\ \A x : x \in calls' <=> x \in calls /\ x # c
        /\ SameCalls({"patch"})
    BY <1>6, <2>1 DEF Writes
  <2>3. \A x \in calls : x.op = "createKey" /\ x.heard => x = c
    BY <1>1, <2>1 DEF BrowserInv, Sole, Tests
  <2>4. SettingsButtons'
    BY <1>2, <2>1, <2>2, <2>3 DEF SettingsButtons
  <2>5. listed' \in [Keys -> Nat]
    BY <1>2, <2>1
  <2>6. ASSUME Calm' PROVE KeysInv'
    <3>1. KeysInv /\ \A x \in calls' : x.op # "createKey"
      BY <1>2, <2>2, <2>3, <2>6 DEF Calm, BrowserInv, Writes
    <3>2. \A x \in calls' : x.op = "revokeKey" =>
            \A k \in Keys \cap x.arg : keyState[k] # "unused" /\ (Answered(x) => keyState[k] = "revoked")
      BY <2>2, <3>1 DEF KeysInv
    <3>3. CASE c.reply = "ok"
      <4>1. PICK v \in c.body : listed' = [listed EXCEPT ![v] = @ + 1]
        BY <2>1, <3>3
      <4>2. c.body = {v}
        BY <1>1, <2>1, <3>3, <4>1 DEF CallInv, BodyOK
      <4>3. ASSUME NEW k \in Keys PROVE Reported(k)' \/ \E x \in calls' : Settles(x, k)
        <5>1. CASE k = v
          <6>1. keyState[k] = "live" /\ listed[k] = 0
            BY <2>1, <3>1, <3>3, <4>1, <5>1 DEF KeysInv
          <6> QED
            BY <1>1, <1>2, <4>1, <5>1, <6>1 DEF Reported
        <5>2. CASE k # v
          <6>1. listed'[k] = listed[k] /\ ~Settles(c, k)
            BY <1>2, <2>1, <4>1, <4>2, <5>2 DEF Settles
          <6> QED
            BY <1>1, <2>2, <3>1, <6>1 DEF KeysInv, Reported
        <5> QED
          BY <5>1, <5>2
      <4> QED
        BY <1>1, <3>1, <3>2, <4>3 DEF KeysInv
    <3>4. CASE c.reply # "ok"
      <4>1. \A k \in Keys : Reported(k) \/ \E x \in calls' : Settles(x, k)
        BY <2>1, <2>2, <3>1, <3>4 DEF KeysInv, Settles
      <4> QED
        BY <1>1, <2>1, <3>1, <3>2, <3>4, <4>1 DEF KeysInv, Reported
    <3> QED
      BY <3>3, <3>4
  <2> QED
    BY <1>1, <1>2, <2>1, <2>2, <2>4, <2>5, <2>6, SamePatch DEF SettingsInv
<1>9. CASE KeyRevoked(c)
  <2>1. /\ c.op = "revokeKey" /\ Drop(c) /\ Doubt(c) /\ UNCHANGED <<assistant, publishing, creating>>
        /\ listed' = [k \in Keys |-> IF Answered(c) /\ k \in c.arg THEN 0 ELSE listed[k]]
    BY <1>9 DEF KeyRevoked, Answered
  <2>2. /\ BrowserInv' /\ SettingsReads' /\ (Calm' => Calm /\ c.reply # "failed")
        /\ \A x : x \in calls' <=> x \in calls /\ x # c
        /\ SameCalls({"patch"})
    BY <1>6, <2>1 DEF Writes
  <2>3. SettingsButtons'
    BY <1>2, <2>1, <2>2 DEF SettingsButtons
  <2>4. listed' \in [Keys -> Nat]
    BY <1>2, <2>1
  <2>5. ASSUME Calm' PROVE KeysInv'
    <3>1. KeysInv
      BY <1>2, <2>2, <2>5
    <3>2. ASSUME NEW k \in Keys PROVE Reported(k)' \/ \E x \in calls' : Settles(x, k)
      <4>1. CASE Answered(c) /\ k \in c.arg
        <5>1. keyState[k] = "revoked" /\ listed'[k] = 0
          BY <2>1, <3>1, <4>1 DEF KeysInv
        <5> QED
          BY <1>1, <5>1 DEF Reported
      <4>2. CASE ~(Answered(c) /\ k \in c.arg)
        <5>1. listed'[k] = listed[k] /\ ~Settles(c, k)
          BY <2>1, <4>2 DEF Settles
        <5> QED
          BY <1>1, <2>2, <3>1, <5>1 DEF KeysInv, Reported
      <4> QED
        BY <4>1, <4>2
    <3>3. \A x \in calls' : x.op = "revokeKey" =>
            \A k \in Keys \cap x.arg : keyState[k] # "unused" /\ (Answered(x) => keyState[k] = "revoked")
      BY <2>2, <3>1 DEF KeysInv
    <3>4. \A x \in calls' : x.op = "createKey" /\ x.reply = "ok" =>
            \A k \in Keys \cap x.body :
              keyState[k] = "live" /\ listed'[k] = 0 /\ \A y \in calls' : y.op = "revokeKey" => k \notin y.arg
      BY <2>1, <2>2, <3>1 DEF KeysInv
    <3> QED
      BY <1>1, <3>2, <3>3, <3>4 DEF KeysInv
  <2> QED
    BY <1>1, <1>2, <2>1, <2>2, <2>3, <2>4, <2>5, SamePatch DEF SettingsInv
<1> QED
  BY <1>4, <1>5, <1>7, <1>8, <1>9 DEF SettingsHears
-----------------------------------------------------------------------------
(* The playground.  What a call has for the page, or for the gate.         *)
Carries(c, t) ==
  \/ c.op = "load" /\ c.reply = "ok" /\ t \in c.body
  \/ c.op = "retrieve" /\ c.reply = "pending" /\ t \in c.body
  \/ c.op = "retrieve" /\ c.reply = "ok" /\ \E v \in c.body : t = v.threshold
  \/ c.op = "patch" /\ c.heard /\ c.reply = "ok" /\ t \in c.arg

(* A save that landed, or may have, and the page has not heard of.         *)
Due == \E w \in calls : w.op = "patch" /\ w.heard /\ w.reply \in {"ok", "failed"}

SaveButton == \A w \in calls : w.op = "patch" /\ w.heard => saving
ThresholdInv ==
  /\ \A c \in calls : \A t : Carries(c, t) /\ c.op \notin old => t = bar
  /\ ready /\ ~overtaken /\ ~Due => threshold = bar

(* The threshold a half of the running test works with, or is to read; the *)
(* verdicts of the test, and whether its chat passed the gate.  A verdict  *)
(* of the test before counts only once this one's call has ended.          *)
Uses(op, t) ==
  \E c \in calls : c.op = op /\ c.reply = "pending" /\ (t \in c.body \/ (c.body = {} /\ t = bar))
Told(v) ==
  \/ \E c \in calls : c.op = "retrieve" /\ c.reply = "ok" /\ v \in c.body
  \/ (\A c \in calls : c.op # "retrieve") /\ v \in debug
Passed ==
  answer = "generated" \/ \E c \in calls : c.op = "chat" /\ c.reply = "ok" /\ "generated" \in c.body

(* As long as the test is not torn, what one half has found is what the    *)
(* other will find, or found.                                              *)
MirrorInv ==
  /\ \A t, u : Uses("retrieve", t) /\ Uses("chat", u) => t = u
  /\ \A v, u : Told(v) /\ v.refuse /\ Uses("chat", u) => Refuses(top, u)
  /\ \A t : Passed /\ Uses("retrieve", t) => ~Refuses(top, t)
  /\ \A v : Told(v) /\ Passed => ~v.refuse
TestInv ==
  /\ \A c \in calls : c.op = "retrieve" => c.arg = {asked}
  /\ \A v : Told(v) => v.question = asked
  /\ (\E c \in calls : c.op = "chat") => answer = "none"

PlaygroundInv ==
  visit = "playground" => SaveButton /\ ThresholdInv /\ TestInv /\ (~torn => MirrorInv)

LEMMA OneTest ==
  ASSUME BrowserInv, NEW c \in calls, NEW d \in calls, c.op \in Tests, c.op = d.op
  PROVE  c = d /\ c.heard
BY DEF BrowserInv, CallInv, Sole, Tests

(* A value on its way stays what it is, or is the stored one.              *)
LEMMA ThresholdKept ==
  ASSUME ThresholdInv, UNCHANGED <<bar, ready, threshold, overtaken>>, Due => Due',
         \A x \in calls' : \A t : Carries(x, t) /\ x.op \notin old' =>
           t = bar \/ \E c \in calls : Carries(c, t) /\ c.op \notin old
  PROVE  ThresholdInv'
<1>1. \A x \in calls' : \A t : Carries(x, t) /\ x.op \notin old' => t = bar'
  BY DEF ThresholdInv
<1>2. ready' /\ ~overtaken' /\ ~Due' => threshold' = bar'
  BY DEF ThresholdInv
<1> QED
  BY <1>1, <1>2 DEF ThresholdInv, Carries

LEMMA MirrorKept ==
  ASSUME ~torn => MirrorInv, ~torn' => ~torn, top' = top,
         \A op \in Tests : \A t : Uses(op, t)' => Uses(op, t),
         \A v : Told(v)' => Told(v), Passed' => Passed
  PROVE  ~torn' => MirrorInv'
<1>1. \A t : /\ Uses("retrieve", t)' => Uses("retrieve", t)
             /\ Uses("chat", t)' => Uses("chat", t)
             /\ Refuses(top, t)' <=> Refuses(top, t)
  BY DEF Tests, Refuses
<1> QED
  BY <1>1 DEF MirrorInv

(* What a step leaves of the calls of a test that it does not serve.       *)
Tested ==
  /\ \A x \in calls' : x.op \in Tests =>
       \E c \in calls : /\ x.op = c.op /\ x.arg = c.arg
                        /\ x.reply \in {"pending", "ok"} => x.reply = c.reply /\ x.body = c.body
  /\ \A c \in calls : c.op \in Tests => \E x \in calls' : x.op = c.op

LEMMA TestsKept ==
  ASSUME Tested, UNCHANGED <<bar, top, debug, answer, asked>>, ~torn' => ~torn,
         TestInv, ~torn => MirrorInv
  PROVE  TestInv' /\ (~torn' => MirrorInv')
<1>1. \A op \in Tests : \A t : Uses(op, t)' => Uses(op, t)
  BY DEF Tested, Uses, Tests
<1>2. \A v : Told(v)' => Told(v)
  BY DEF Tested, Told, Tests
<1>3. Passed' => Passed
  BY DEF Tested, Passed, Tests
<1>4. TestInv'
  BY <1>2 DEF Tested, TestInv, Tests
<1> QED
  BY <1>1, <1>2, <1>3, <1>4, MirrorKept

(* A test that has found nothing yet.                                      *)
LEMMA NothingFound ==
  ASSUME \A v : ~Told(v)', ~Passed',
         \A t, u : Uses("retrieve", t)' /\ Uses("chat", u)' => t = u
  PROVE  MirrorInv'
BY DEF MirrorInv

LEMMA PlaygroundMoved ==
  ASSUME BrowserInv, Move
  PROVE  PlaygroundInv'
<1>1. \A x \in calls' : Silent(x) \/ New(x, "load", {})
  BY MovedOn
<1>2. answer' = "none" /\ debug' = {} /\ ready' = FALSE
  BY DEF Move, PlaygroundUnmount, Blank
<1>3. \A x \in calls' : x.op \notin Tests /\ \A t : ~Carries(x, t)
  BY <1>1 DEF Silent, New, Carries, Tests, Session, Writes
<1>4. SaveButton'
  BY <1>1 DEF SaveButton, Silent, New
<1>5. ThresholdInv'
  BY <1>2, <1>3 DEF ThresholdInv, Carries
<1>6. \A v : ~Told(v)'
  BY <1>2, <1>3 DEF Told, Tests
<1>7. ~Passed' /\ \A t : ~Uses("retrieve", t)'
  BY <1>2, <1>3 DEF Passed, Uses, Tests
<1>8. TestInv'
  BY <1>3, <1>6 DEF TestInv, Tests
<1> QED
  BY <1>4, <1>5, <1>6, <1>7, <1>8, NothingFound DEF PlaygroundInv

LEMMA PlaygroundStay ==
  ASSUME BrowserInv, PlaygroundInv, Stay
  PROVE  PlaygroundInv'
<1>1. BrowserInv' /\ Weakly /\ visit' = visit
  BY Stayed
<1>2. UNCHANGED <<bar, top, ready, threshold, debug, answer, saving, asked, torn, old, overtaken>>
  BY DEF Stay, playgroundVars, playgroundRows, playgroundState, playgroundHistory
<1> SUFFICES ASSUME visit = "playground"
             PROVE  SaveButton' /\ ThresholdInv' /\ TestInv' /\ (~torn' => MirrorInv')
  BY <1>1 DEF PlaygroundInv
<1>3. \A x \in calls' : x.op \in {"load", "retrieve", "chat", "patch"} => \E c \in calls : Weak(x, c)
  BY <1>1 DEF Weakly, Session
<1>4. SaveButton'
  BY <1>2, <1>3 DEF SaveButton, PlaygroundInv, Weak
<1>5. Due => Due'
  <2> SUFFICES ASSUME NEW w \in calls, w.op = "patch", w.heard, w.reply \in {"ok", "failed"}
               PROVE  Due'
    BY DEF Due
  <2>1. PICK x \in calls' : Weak(x, w)
    BY <1>1 DEF Weakly, Session
  <2> QED
    BY <2>1 DEF Due, Weak
<1>6. \A x \in calls' : \A t : Carries(x, t) => \E c \in calls : Carries(c, t) /\ c.op = x.op
  BY <1>3 DEF Carries, Weak
<1>7. ThresholdInv'
  BY <1>2, <1>5, <1>6, ThresholdKept DEF PlaygroundInv
<1>8. Tested
  <2>1. ASSUME NEW c \in calls, c.op \in Tests PROVE \E x \in calls' : x.op = c.op
    <3>1. c.heard /\ c.op \notin Session
      BY <2>1 DEF BrowserInv, CallInv, Tests, Session
    <3> QED
      BY <1>1, <3>1 DEF Weakly, Weak
  <2>2. ASSUME NEW x \in calls', x.op \in Tests
        PROVE  \E c \in calls :
                 /\ x.op = c.op /\ x.arg = c.arg
                 /\ x.reply \in {"pending", "ok"} => x.reply = c.reply /\ x.body = c.body
    BY <1>3, <2>2 DEF Weak, Tests
  <2> QED
    BY <2>1, <2>2 DEF Tested
<1> QED
  BY <1>2, <1>4, <1>7, <1>8, TestsKept DEF PlaygroundInv

(* A handler answers, or notes what it read.                               *)
LEMMA PlaygroundReplied ==
  ASSUME BrowserInv, SaveButton, NEW c \in calls, NEW r \in {"ok", "pending"}, NEW b, Reply(c, r, b),
         c.op \in {"load", "retrieve", "chat", "patch"},
         UNCHANGED <<visit, place, landing, current, saving>>
  PROVE  /\ BrowserInv' /\ SaveButton'
         /\ \A x \in calls' : (x \in calls /\ x # c) \/ Becomes(x, c, r, b, c.heard, c.quiet)
         /\ \A x \in calls : x = c \/ x \in calls'
         /\ c.heard => \E x \in calls' : Becomes(x, c, r, b, c.heard, c.quiet)
         /\ c.op # "patch" => (Due => Due')
<1>1. /\ BrowserInv'
      /\ \A x \in calls' : (x \in calls /\ x # c) \/ Becomes(x, c, r, b, c.heard, c.quiet)
      /\ \A x \in calls : x = c \/ x \in calls'
      /\ c.heard => \E x \in calls' : Becomes(x, c, r, b, c.heard, c.quiet)
  BY Replied DEF Replies
<1>2. SaveButton'
  BY <1>1 DEF SaveButton, Becomes
<1>3. c.op # "patch" => (Due => Due')
  BY <1>1 DEF Due
<1> QED
  BY <1>1, <1>2, <1>3

(* Both handlers read the threshold that a half which starts is to use.    *)
LEMMA ThresholdRead ==
  ASSUME BrowserInv, visit = "playground", SaveButton, ThresholdInv, TestInv, ~torn => MirrorInv,
         NEW c \in calls, ReadThreshold(c), UNCHANGED <<visit, place, landing, current>>,
         UNCHANGED <<ready, threshold, debug, answer, saving>>
  PROVE  BrowserInv' /\ PlaygroundInv'
<1>1. /\ c.op \in Tests /\ c.reply = "pending" /\ c.body = {} /\ c.heard
      /\ Reply(c, "pending", {bar})
      /\ UNCHANGED <<bar, top, asked, torn, old, overtaken>>
  BY OneTest DEF ReadThreshold, Served, playgroundRows, playgroundHistory
<1>2. /\ BrowserInv' /\ SaveButton' /\ (Due => Due')
      /\ \A x \in calls' : (x \in calls /\ x # c) \/ Becomes(x, c, "pending", {bar}, c.heard, c.quiet)
      /\ \A x \in calls : x = c \/ x \in calls'
      /\ \E x \in calls' : Becomes(x, c, "pending", {bar}, c.heard, c.quiet)
  BY <1>1, PlaygroundReplied DEF Tests
<1>3. ThresholdInv'
  <2>1. \A x \in calls' : \A t : Carries(x, t) => t = bar \/ x \in calls
    BY <1>2 DEF Carries, Becomes
  <2> QED
    BY <1>1, <1>2, <2>1, ThresholdKept
<1>4. ASSUME NEW op \in Tests, NEW t, Uses(op, t)' PROVE Uses(op, t)
  <2>1. PICK x \in calls' : x.op = op /\ x.reply = "pending" /\ (t \in x.body \/ (x.body = {} /\ t = bar))
    BY <1>1, <1>4 DEF Uses
  <2>2. CASE x \in calls
    BY <2>1, <2>2 DEF Uses
  <2>3. CASE Becomes(x, c, "pending", {bar}, c.heard, c.quiet)
    BY <1>1, <2>1, <2>3 DEF Uses, Becomes
  <2> QED
    BY <1>2, <2>2, <2>3
<1>5. \A v : Told(v)' => Told(v)
  <2>1. (\A x \in calls' : x.op # "retrieve") => \A x \in calls : x.op # "retrieve"
    BY <1>2 DEF Becomes
  <2>2. \A x \in calls' : x.reply = "ok" => x \in calls
    BY <1>2 DEF Becomes
  <2> QED
    BY <2>1, <2>2 DEF Told
<1>6. Passed' => Passed
  BY <1>2 DEF Passed, Becomes
<1>7. TestInv'
  BY <1>1, <1>2, <1>5 DEF TestInv, Becomes
<1> QED
  BY <1>1, <1>2, <1>3, <1>4, <1>5, <1>6, <1>7, MirrorKept DEF PlaygroundInv

(* The verdict is of the threshold that the chat uses, or has used.        *)
LEMMA VerdictServed ==
  ASSUME BrowserInv, visit = "playground", SaveButton, ThresholdInv, TestInv, ~torn => MirrorInv,
         NEW c \in calls, ServeRetrieve(c), UNCHANGED <<visit, place, landing, current>>,
         UNCHANGED <<ready, threshold, debug, answer, saving>>
  PROVE  BrowserInv' /\ PlaygroundInv'
<1>1. PICK q \in Questions, t \in Bars :
        /\ Searches(c, "retrieve", q, t)
        /\ Reply(c, "ok", {[question |-> q, threshold |-> t, refuse |-> Refuses(top, t)]})
  BY DEF ServeRetrieve
<1> DEFINE verdict == [question |-> q, threshold |-> t, refuse |-> Refuses(top, t)]
<1>2. /\ c.op = "retrieve" /\ c.reply = "pending" /\ c.heard /\ q \in c.arg /\ t \in c.body
      /\ UNCHANGED <<bar, top, asked, torn, old, overtaken>>
  BY <1>1, OneTest DEF Searches, playgroundRows, playgroundHistory, Tests
<1>3. /\ verdict.question = asked /\ verdict.threshold = t /\ (verdict.refuse <=> Refuses(top, t))
      /\ Uses("retrieve", t) /\ Carries(c, t)
  BY <1>2 DEF TestInv, Uses, Carries
<1> HIDE DEF verdict
<1>4. /\ BrowserInv' /\ SaveButton' /\ (Due => Due')
      /\ \A x \in calls' : (x \in calls /\ x # c) \/ Becomes(x, c, "ok", {verdict}, c.heard, c.quiet)
      /\ \A x \in calls : x = c \/ x \in calls'
      /\ \E x \in calls' : Becomes(x, c, "ok", {verdict}, c.heard, c.quiet)
  BY <1>1, <1>2, PlaygroundReplied DEF verdict
<1>5. ThresholdInv'
  <2>1. \A x \in calls' : \A u : Carries(x, u) => x \in calls \/ (Carries(c, u) /\ c.op = x.op)
    BY <1>2, <1>3, <1>4 DEF Carries, Becomes
  <2> QED
    BY <1>2, <1>4, <2>1, ThresholdKept
<1>6. \A op \in Tests : \A u : Uses(op, u)' => Uses(op, u)
  BY <1>2, <1>4 DEF Uses, Becomes
<1>7. \A v : Told(v)' => Told(v) \/ v = verdict
  <2>1. \E x \in calls' : x.op = "retrieve"
    BY <1>2, <1>4 DEF Becomes
  <2> QED
    BY <1>4, <2>1 DEF Told, Becomes
<1>8. Passed' => Passed
  BY <1>2, <1>4 DEF Passed, Becomes
<1>9. TestInv'
  BY <1>2, <1>3, <1>4, <1>7 DEF TestInv, Becomes
<1>10. ASSUME ~torn' PROVE MirrorInv'
  <2>1. MirrorInv
    BY <1>2, <1>10
  <2>2. \A u : Uses("retrieve", u)' => Uses("retrieve", u)
    BY <1>6 DEF Tests
  <2>3. \A u : Uses("chat", u)' => Uses("chat", u) /\ u = t
    BY <1>3, <1>6, <2>1 DEF MirrorInv, Tests
  <2>4. \A u : Refuses(top, u)' <=> Refuses(top, u)
    BY <1>2 DEF Refuses
  <2>5. \A v, u : Told(v)' /\ v.refuse /\ Uses("chat", u)' => Refuses(top, u)'
    BY <1>3, <1>7, <2>1, <2>3, <2>4 DEF MirrorInv
  <2>6. \A v : Told(v)' /\ Passed' => ~v.refuse
    BY <1>3, <1>7, <1>8, <2>1 DEF MirrorInv
  <2> QED
    BY <1>8, <2>1, <2>2, <2>3, <2>4, <2>5, <2>6 DEF MirrorInv
<1> QED
  BY <1>4, <1>5, <1>9, <1>10 DEF PlaygroundInv

(* An answer is generated only where the verdict, given or to come, lets   *)
(* it pass.                                                                *)
LEMMA AnswerServed ==
  ASSUME BrowserInv, visit = "playground", SaveButton, ThresholdInv, TestInv, ~torn => MirrorInv,
         NEW c \in calls, ServeChat(c), UNCHANGED <<visit, place, landing, current>>,
         UNCHANGED <<ready, threshold, debug, answer, saving>>
  PROVE  BrowserInv' /\ PlaygroundInv'
<1>1. PICK q \in Questions, t \in Bars :
        /\ Searches(c, "chat", q, t)
        /\ \E a \in {"none", "refusal"} \cup IF Refuses(top, t) THEN {} ELSE {"generated"} :
             Reply(c, "ok", {a})
  BY DEF ServeChat
<1>2. PICK a : Reply(c, "ok", {a}) /\ (a = "generated" => ~Refuses(top, t))
  BY <1>1
<1>3. /\ c.op = "chat" /\ c.reply = "pending" /\ c.heard /\ Uses("chat", t)
      /\ UNCHANGED <<bar, top, asked, torn, old, overtaken>>
  BY <1>1, OneTest DEF Searches, playgroundRows, playgroundHistory, Tests, Uses
<1>4. /\ BrowserInv' /\ SaveButton' /\ (Due => Due')
      /\ \A x \in calls' : (x \in calls /\ x # c) \/ Becomes(x, c, "ok", {a}, c.heard, c.quiet)
      /\ \A x \in calls : x = c \/ x \in calls'
      /\ \E x \in calls' : Becomes(x, c, "ok", {a}, c.heard, c.quiet)
  BY <1>2, <1>3, PlaygroundReplied
<1>5. ThresholdInv'
  <2>1. \A x \in calls' : \A u : Carries(x, u) => x \in calls
    BY <1>3, <1>4 DEF Carries, Becomes
  <2> QED
    BY <1>3, <1>4, <2>1, ThresholdKept
<1>6. \A op \in Tests : \A u : Uses(op, u)' => Uses(op, u)
  BY <1>3, <1>4 DEF Uses, Becomes
<1>7. \A v : Told(v)' => Told(v)
  BY <1>3, <1>4 DEF Told, Becomes
<1>8. Passed' => Passed \/ ~Refuses(top, t)
  BY <1>2, <1>3, <1>4 DEF Passed, Becomes
<1>9. TestInv'
  BY <1>3, <1>4, <1>7 DEF TestInv, Becomes
<1>10. ASSUME ~torn' PROVE MirrorInv'
  <2>1. MirrorInv
    BY <1>3, <1>10
  <2>2. \A u : Uses("chat", u)' => Uses("chat", u)
    BY <1>6 DEF Tests
  <2>3. \A u : Uses("retrieve", u)' => Uses("retrieve", u) /\ u = t
    BY <1>3, <1>6, <2>1 DEF MirrorInv, Tests
  <2>4. \A u : Refuses(top, u)' <=> Refuses(top, u)
    BY <1>3 DEF Refuses
  <2>5. \A u : Passed' /\ Uses("retrieve", u)' => ~Refuses(top, u)'
    BY <1>8, <2>1, <2>3, <2>4 DEF MirrorInv
  <2>6. \A v : Told(v)' /\ Passed' => ~v.refuse
    BY <1>3, <1>7, <1>8, <2>1 DEF MirrorInv
  <2> QED
    BY <1>7, <2>1, <2>2, <2>3, <2>4, <2>5, <2>6 DEF MirrorInv
<1> QED
  BY <1>4, <1>5, <1>9, <1>10 DEF PlaygroundInv

(* A save lands: what it overtakes is marked, and a test with one half     *)
(* before and one after it is torn.                                        *)
LEMMA SaveServed ==
  ASSUME BrowserInv, visit = "playground", SaveButton, ThresholdInv, TestInv, ~torn => MirrorInv,
         NEW c \in calls, ServeSaveThreshold(c), UNCHANGED <<visit, place, landing, current>>,
         UNCHANGED <<ready, threshold, debug, answer, saving>>
  PROVE  BrowserInv' /\ PlaygroundInv'
<1>1. /\ c.op = "patch" /\ bar' \in c.arg /\ Reply(c, "ok", {})
      /\ torn' = (torn \/ Starting("retrieve") # Starting("chat"))
      /\ old' = {x.op : x \in Known(calls \ {c})}
      /\ overtaken' = (overtaken \/ ~c.heard)
      /\ UNCHANGED <<top, asked>>
  BY DEF ServeSaveThreshold, Served
<1>2. /\ BrowserInv' /\ SaveButton'
      /\ \A x \in calls' : (x \in calls /\ x # c) \/ Becomes(x, c, "ok", {}, c.heard, c.quiet)
      /\ \A x \in calls : x = c \/ x \in calls'
      /\ c.heard => \E x \in calls' : Becomes(x, c, "ok", {}, c.heard, c.quiet)
  BY <1>1, PlaygroundReplied
<1>3. c.arg = {bar'}
  BY <1>1 DEF BrowserInv, CallInv, ArgOK
<1>4. ThresholdInv'
  <2>1. ASSUME NEW x \in calls', NEW t, Carries(x, t), x.op \notin old' PROVE t = bar'
    <3>1. CASE x \in calls /\ x # c
      <4>1. x.heard /\ x.op \in {"load", "retrieve", "patch"} /\ (x.reply = "ok" \/ x.body # {})
        BY <2>1, <3>1 DEF Carries, BrowserInv, CallInv, Reads, Tests
      <4>2. x \in Known(calls \ {c})
        BY <3>1, <4>1 DEF Known
      <4> QED
        BY <1>1, <2>1, <4>2
    <3>2. CASE Becomes(x, c, "ok", {}, c.heard, c.quiet)
      BY <1>1, <1>3, <2>1, <3>2 DEF Carries, Becomes
    <3> QED
      BY <1>2, <3>1, <3>2
  <2>2. ~overtaken' => Due'
    BY <1>1, <1>2 DEF Due, Becomes
  <2> QED
    BY <2>1, <2>2 DEF ThresholdInv, Carries
<1>5. \A x : x.op \in Tests => (x \in calls' <=> x \in calls)
  BY <1>1, <1>2 DEF Tests, Becomes
<1>6. (\A v : Told(v)' => Told(v)) /\ (Passed' => Passed)
  BY <1>5 DEF Told, Passed, Tests
<1>7. TestInv'
  BY <1>1, <1>5, <1>6 DEF TestInv, Tests
<1>8. ASSUME ~torn' PROVE MirrorInv'
  <2>1. MirrorInv /\ (Starting("retrieve") <=> Starting("chat"))
    BY <1>1, <1>8
  <2>2. CASE ~Starting("retrieve") /\ ~Starting("chat")
    <3>1. \A op \in Tests : \A t : Uses(op, t)' => Uses(op, t)
      BY <1>5, <2>2 DEF Uses, Starting, InFlight, Tests
    <3> QED
      BY <1>1, <1>6, <1>8, <2>1, <3>1, MirrorKept
  <2>3. CASE Starting("retrieve") /\ Starting("chat")
    <3>1. PICK r \in calls : r.op = "retrieve" /\ r.reply = "pending" /\ r.body = {}
      BY <2>3 DEF Starting, InFlight
    <3>2. PICK k \in calls : k.op = "chat" /\ k.reply = "pending" /\ k.body = {}
      BY <2>3 DEF Starting, InFlight
    <3>3. \A x \in calls' : (x.op = "retrieve" => x = r) /\ (x.op = "chat" => x = k)
      BY <1>5, <3>1, <3>2, OneTest DEF Tests
    <3>4. r \in calls' /\ answer' = "none"
      BY <1>5, <3>1, <3>2 DEF TestInv, Tests
    <3>5. (\A v : ~Told(v)') /\ ~Passed'
      BY <3>1, <3>2, <3>3, <3>4 DEF Told, Passed
    <3>6. \A t, u : Uses("retrieve", t)' /\ Uses("chat", u)' => t = u
      BY <3>1, <3>2, <3>3 DEF Uses
    <3> QED
      BY <3>5, <3>6, NothingFound
  <2> QED
    BY <2>1, <2>2, <2>3
<1> QED
  BY <1>2, <1>4, <1>7, <1>8 DEF PlaygroundInv

LEMMA PlaygroundServed ==
  ASSUME BrowserInv, PlaygroundInv, NEW c \in calls, ServePlayground(c)
  PROVE  BrowserInv' /\ PlaygroundInv' /\ visit' = visit
<1>1. /\ UNCHANGED <<visit, place, landing, current>>
      /\ UNCHANGED <<ready, threshold, debug, answer, saving>> /\ CallInv(c)
  BY DEF ServePlayground, BrowserInv
<1>2. c.op \in Tests => visit = "playground"
  BY <1>1 DEF CallInv, Ops, PageOps, Session, Tests
<1>3. visit = "playground"
  BY <1>2 DEF ServePlayground, ServeLoadPlayground, ReadThreshold, ServeRetrieve, ServeChat,
              ServeSaveThreshold, Served, Searches, Tests
<1>4. SaveButton /\ ThresholdInv /\ TestInv /\ (~torn => MirrorInv)
  BY <1>3 DEF PlaygroundInv
<1>5. CASE ServeLoadPlayground(c)
  <2>1. /\ c.op = "load" /\ Reply(c, "ok", {bar})
        /\ UNCHANGED <<bar, top, asked, torn, old, overtaken>>
    BY <1>5 DEF ServeLoadPlayground, Served, playgroundRows, playgroundHistory
  <2>2. /\ BrowserInv' /\ SaveButton' /\ (Due => Due')
        /\ \A x \in calls' : (x \in calls /\ x # c) \/ Becomes(x, c, "ok", {bar}, c.heard, c.quiet)
        /\ \A x \in calls : x = c \/ x \in calls'
    BY <1>1, <1>4, <2>1, PlaygroundReplied
  <2>3. \A x \in calls' : \A t : Carries(x, t) => t = bar \/ x \in calls
    BY <2>1, <2>2 DEF Carries, Becomes
  <2>4. ThresholdInv'
    BY <1>1, <1>4, <2>1, <2>2, <2>3, ThresholdKept
  <2>5. Tested
    BY <2>1, <2>2 DEF Tested, Tests, Becomes
  <2> QED
    BY <1>1, <1>4, <2>1, <2>2, <2>4, <2>5, TestsKept DEF PlaygroundInv
<1> QED
  BY <1>1, <1>3, <1>4, <1>5, ThresholdRead, VerdictServed, AnswerServed, SaveServed
     DEF ServePlayground

(* Test: both calls are sent.                                              *)
LEMMA BothSent ==
  ASSUME BrowserInv, visit = "playground", NEW arg, \A w \in calls : w.op \notin Tests,
         calls' = Plus(Plus(calls, "retrieve", arg, jar), "chat", arg, jar),
         UNCHANGED <<visit, place, landing, current>>
  PROVE  /\ BrowserInv'
         /\ \A x \in calls' : x \in calls \/ New(x, "retrieve", arg) \/ New(x, "chat", arg)
         /\ \A x \in calls : x \in calls'
         /\ \E x \in calls' : New(x, "retrieve", arg)
<1>1. PICK r : Adds(Plus(calls, "retrieve", arg, jar), r, calls, "retrieve", arg)
  BY PlusIs
<1>2. PICK k : Adds(calls', k, Plus(calls, "retrieve", arg, jar), "chat", arg)
  BY PlusIs
<1>3. /\ New(r, "retrieve", arg) /\ New(k, "chat", arg)
      /\ ~r.quiet /\ ~k.quiet
      /\ calls' = calls \cup {r, k}
  BY <1>1, <1>2 DEF Adds, New, Writes, Reads
<1>4. CallInv(r) /\ CallInv(k)
  BY <1>3 DEF New, CallInv, BodyOK, ArgOK, Ops, PageOps
<1>5. \A x \in calls' : CallInv(x)'
  BY <1>3, <1>4, OpsKept DEF BrowserInv
<1>6. \A x, w \in calls' : x.quiet => w.op \notin Writes
  BY <1>3 DEF BrowserInv, New, Writes
<1>7. \A w \in calls' : w.op \in Writes => w \in calls
  BY <1>3 DEF New, Writes
<1>8. \A w, x \in calls' : w.op \in Sole /\ w.op = x.op /\ w.heard /\ x.heard => w = x
  BY <1>3 DEF BrowserInv, New, Tests
<1>9. BrowserInv'
  BY <1>5, <1>6, <1>7, <1>8 DEF BrowserInv, Places
<1> QED
  BY <1>3, <1>9

LEMMA OnPlaygroundPage ==
  ASSUME BrowserInv, PlaygroundInv, OnPlayground
  PROVE  /\ visit = "playground" /\ UNCHANGED <<visit, place, landing, current>> /\ place = visit
         /\ SaveButton /\ ThresholdInv /\ TestInv /\ (~torn => MirrorInv)
BY DEF OnPlayground, BrowserInv, Places, SignInPages, PlaygroundInv

LEMMA PlaygroundClicked ==
  ASSUME BrowserInv, PlaygroundInv, PlaygroundClicks
  PROVE  BrowserInv' /\ PlaygroundInv' /\ visit' = visit
<1>1. OnPlayground /\ UNCHANGED <<bar, ready, threshold, debug, old, overtaken>>
  BY DEF PlaygroundClicks, Ask, Slide, Save, playgroundRows, playgroundHistory
<1>2. /\ visit = "playground" /\ UNCHANGED <<visit, place, landing, current>> /\ place = visit
      /\ SaveButton /\ ThresholdInv /\ TestInv /\ (~torn => MirrorInv)
  BY <1>1, OnPlaygroundPage
<1>3. ASSUME NEW q \in Questions, Ask(q) PROVE BrowserInv' /\ PlaygroundInv'
  <2>1. /\ calls' = Plus(Plus(calls, "retrieve", {q}, jar), "chat", {q}, jar)
        /\ answer' = "none" /\ saving' = saving /\ asked' = q
        /\ \A x \in calls : x.op \notin Tests
    BY <1>3 DEF Ask, Running, InFlight
  <2>2. /\ BrowserInv'
        /\ \A x \in calls' : x \in calls \/ New(x, "retrieve", {q}) \/ New(x, "chat", {q})
        /\ \A x \in calls : x \in calls'
        /\ \E x \in calls' : New(x, "retrieve", {q})
    BY <1>2, <2>1, BothSent
  <2>3. SaveButton' /\ (Due => Due')
    BY <1>2, <2>1, <2>2 DEF SaveButton, Due, New
  <2>4. \A x \in calls' : \A t : Carries(x, t) => x \in calls
    BY <2>2 DEF Carries, New
  <2>5. ThresholdInv'
    BY <1>1, <1>2, <2>3, <2>4, ThresholdKept
  <2>6. \A x \in calls' : x.op \in Tests =>
          x.reply = "pending" /\ x.body = {} /\ (x.op = "retrieve" => x.arg = {q})
    BY <2>1, <2>2 DEF New
  <2>7. \A v : ~Told(v)'
    BY <2>2, <2>6 DEF Told, Tests, New
  <2>8. ~Passed' /\ \A t, u : Uses("retrieve", t)' /\ Uses("chat", u)' => t = u
    BY <2>1, <2>6 DEF Passed, Uses, Tests
  <2>9. TestInv'
    BY <2>1, <2>6, <2>7 DEF TestInv, Tests
  <2> QED
    BY <2>2, <2>3, <2>5, <2>7, <2>8, <2>9, NothingFound DEF PlaygroundInv
<1>4. CASE Slide
  <2>1. UNCHANGED <<calls, top, answer, saving, asked, torn>>
    BY <1>4 DEF Slide, playgroundRows, playgroundHistory
  <2>2. BrowserInv'
    BY <1>2, <2>1, OpsKept DEF BrowserInv, Places
  <2>3. SaveButton' /\ (Due => Due') /\ Tested
    BY <1>2, <2>1 DEF SaveButton, Due, Tested
  <2>4. ThresholdInv'
    BY <1>1, <1>2, <2>1, <2>3, ThresholdKept
  <2> QED
    BY <1>1, <1>2, <2>1, <2>2, <2>3, <2>4, TestsKept DEF PlaygroundInv
<1>5. CASE Save
  <2>1. /\ Send("patch", {tuned}) /\ ~saving /\ saving' = TRUE
        /\ UNCHANGED <<top, answer, asked, torn>>
    BY <1>5 DEF Save, playgroundRows, playgroundHistory
  <2>2. \A w \in calls : w.op = "patch" => ~w.heard
    BY <1>2, <2>1 DEF SaveButton
  <2>3. current' \in BOOLEAN /\ (current' => current) /\ calls' = Plus(calls, "patch", {tuned}, jar)
    BY <1>2, <2>1 DEF BrowserInv, Send
  <2>4. "patch" \in Ops /\ ArgOK("patch", {tuned})
    BY <1>2 DEF Ops, PageOps, ArgOK
  <2>5. /\ BrowserInv'
        /\ \A x \in calls' : New(x, "patch", {tuned}) \/ \E c \in calls : Like(x, c)
        /\ \A c \in calls : \E x \in calls' : Like(x, c)
    BY <1>2, <2>2, <2>3, <2>4, Sent
  <2>6. \A x, c : Like(x, c) => View(x, c) /\ x.heard = c.heard
    BY DEF Like, Becomes, View
  <2>7. SaveButton' /\ (Due => Due') /\ Tested
    BY <2>1, <2>5, <2>6 DEF SaveButton, Due, Tested, Tests, New, View
  <2>8. \A x \in calls' : \A t : Carries(x, t) => \E c \in calls : Carries(c, t) /\ c.op = x.op
    BY <2>5, <2>6 DEF Carries, New, View
  <2>9. ThresholdInv'
    BY <1>1, <1>2, <2>7, <2>8, ThresholdKept
  <2> QED
    BY <1>1, <1>2, <2>1, <2>5, <2>7, <2>9, TestsKept DEF PlaygroundInv
<1> QED
  BY <1>2, <1>3, <1>4, <1>5 DEF PlaygroundClicks

(* The corpus changes during a test.                                       *)
LEMMA PlaygroundShifted ==
  ASSUME BrowserInv, PlaygroundInv, PlaygroundElsewhere
  PROVE  BrowserInv' /\ PlaygroundInv' /\ visit' = visit
<1>1. /\ UNCHANGED <<visit, place, landing, calls, current>> /\ visit = "playground"
      /\ UNCHANGED <<bar, ready, threshold, debug, answer, saving, asked, old, overtaken>>
      /\ torn' = (torn \/ Searching("retrieve") # Searching("chat"))
  BY DEF PlaygroundElsewhere, browserVars
<1>2. SaveButton /\ ThresholdInv /\ TestInv /\ (~torn => MirrorInv)
  BY <1>1 DEF PlaygroundInv
<1>3. BrowserInv'
  BY <1>1, OpsKept DEF BrowserInv, Places
<1>4. SaveButton' /\ (Due => Due')
  BY <1>1, <1>2 DEF SaveButton, Due
<1>5. ThresholdInv'
  BY <1>1, <1>2, <1>4, ThresholdKept
<1>6. (\A v : Told(v)' <=> Told(v)) /\ (Passed' <=> Passed) /\ \A op, t : Uses(op, t)' <=> Uses(op, t)
  BY <1>1 DEF Told, Passed, Uses
<1>7. TestInv'
  BY <1>1, <1>2, <1>6 DEF TestInv
<1>8. ASSUME ~torn' PROVE MirrorInv'
  <2>1. MirrorInv /\ (Searching("retrieve") <=> Searching("chat"))
    BY <1>1, <1>2, <1>8
  <2>2. CASE ~Searching("retrieve") /\ ~Searching("chat")
    <3>1. \A t : ~Uses("retrieve", t) /\ ~Uses("chat", t)
      BY <2>2 DEF Uses, Searching, InFlight
    <3> QED
      BY <1>6, <2>1, <3>1 DEF MirrorInv
  <2>3. CASE Searching("retrieve") /\ Searching("chat")
    <3>1. PICK r \in calls : r.op = "retrieve" /\ r.reply = "pending"
      BY <2>3 DEF Searching, InFlight
    <3>2. PICK k \in calls : k.op = "chat" /\ k.reply = "pending"
      BY <2>3 DEF Searching, InFlight
    <3>3. \A x \in calls : (x.op = "retrieve" => x = r) /\ (x.op = "chat" => x = k)
      BY <3>1, <3>2, OneTest DEF Tests
    <3>4. (\A v : ~Told(v)) /\ ~Passed
      BY <1>2, <3>1, <3>2, <3>3 DEF Told, Passed, TestInv
    <3> QED
      BY <1>6, <2>1, <3>4, NothingFound DEF MirrorInv
  <2> QED
    BY <2>1, <2>2, <2>3
<1> QED
  BY <1>1, <1>3, <1>4, <1>5, <1>7, <1>8 DEF PlaygroundInv

LEMMA PlaygroundHeard ==
  ASSUME BrowserInv, PlaygroundInv, NEW c \in calls, PlaygroundHears(c)
  PROVE  BrowserInv' /\ PlaygroundInv' /\ visit' = visit
<1>1. /\ OnPlayground /\ c.reply # "pending" /\ c.heard /\ Drop(c) /\ UNCHANGED <<bar, top, asked, torn>>
      /\ CallInv(c)
      /\ old' = IF c.op = "chat" THEN old ELSE old \ {c.op}
  BY DEF PlaygroundHears, PlaygroundLoaded, VerdictArrives, AnswerArrives, Saved,
         Take, playgroundRows, playgroundHistory, BrowserInv
<1>2. /\ visit = "playground" /\ UNCHANGED <<visit, place, landing, current>> /\ place = visit
      /\ SaveButton /\ ThresholdInv /\ TestInv /\ (~torn => MirrorInv)
  BY <1>1, OnPlaygroundPage
<1>3. BrowserInv' /\ \A x : x \in calls' <=> x \in calls /\ x # c
  BY <1>1, <1>2, Taken DEF BrowserInv
<1>4. \A x \in calls' : \A t : Carries(x, t) /\ x.op \notin old' => x \in calls /\ x.op \notin old
  <2> TAKE x \in calls'
  <2> TAKE t
  <2> HAVE Carries(x, t) /\ x.op \notin old'
  <2>1. x.heard /\ x.op \in Sole /\ x \in calls /\ x # c
    BY <1>3 DEF Carries, Sole, BrowserInv, CallInv, Reads, Tests
  <2>2. x.op # c.op
    BY <1>1, <2>1 DEF BrowserInv
  <2> QED
    BY <1>1, <2>1, <2>2
<1>5. c.op # "patch" => (Due => Due') /\ (saving' = saving => SaveButton')
  BY <1>2, <1>3 DEF Due, SaveButton
<1>6. ASSUME NEW t, Carries(c, t), threshold' = t, overtaken' = (c.op \in old) PROVE ThresholdInv'
  <2>1. \A x \in calls' : \A u : Carries(x, u) /\ x.op \notin old' => u = bar'
    BY <1>1, <1>2, <1>4 DEF ThresholdInv
  <2>2. ~overtaken' => threshold' = bar'
    BY <1>1, <1>2, <1>6 DEF ThresholdInv
  <2> QED
    BY <2>1, <2>2 DEF ThresholdInv, Carries
<1>7. ASSUME UNCHANGED <<ready, threshold, overtaken>>, Due => Due' PROVE ThresholdInv'
  BY <1>1, <1>2, <1>4, <1>7, ThresholdKept
<1>8. ASSUME c.op \notin Tests, UNCHANGED <<debug, answer>> PROVE TestInv' /\ (~torn' => MirrorInv')
  <2>1. Tested
    BY <1>3, <1>8 DEF Tested
  <2> QED
    BY <1>1, <1>2, <1>8, <2>1, TestsKept
<1>9. \A op, t : Uses(op, t)' => Uses(op, t)
  BY <1>1, <1>3 DEF Uses
<1>10. CASE PlaygroundLoaded(c)
  <2>1. /\ c.op = "load" /\ UNCHANGED <<debug, answer, saving>>
        /\ c.reply = "ok" => \E t \in c.body : Shows(c, t)
        /\ c.reply # "ok" => UNCHANGED <<ready, threshold, overtaken>>
    BY <1>10 DEF PlaygroundLoaded
  <2>2. ThresholdInv'
    <3>1. CASE c.reply = "ok"
      BY <1>6, <2>1, <3>1 DEF Shows, Carries
    <3>2. CASE c.reply # "ok"
      BY <1>5, <1>7, <2>1, <3>2
    <3> QED
      BY <3>1, <3>2
  <2> QED
    BY <1>2, <1>3, <1>5, <1>8, <2>1, <2>2 DEF PlaygroundInv, Tests
<1>11. CASE VerdictArrives(c)
  <2>1. /\ c.op = "retrieve" /\ UNCHANGED <<ready, answer, saving>>
        /\ c.reply = "ok" => debug' = c.body /\ \E v \in c.body : Shows(c, v.threshold)
        /\ c.reply # "ok" => debug' = {} /\ UNCHANGED <<threshold, overtaken>>
    BY <1>11 DEF VerdictArrives
  <2>2. ThresholdInv'
    <3>1. CASE c.reply = "ok"
      <4>1. PICK v \in c.body : Shows(c, v.threshold)
        BY <2>1, <3>1
      <4>2. Carries(c, v.threshold)
        BY <2>1, <3>1, <4>1 DEF Carries
      <4> QED
        BY <1>6, <4>1, <4>2 DEF Shows
    <3>2. CASE c.reply # "ok"
      BY <1>5, <1>7, <2>1, <3>2
    <3> QED
      BY <3>1, <3>2
  <2>3. \A v : Told(v)' => Told(v)
    BY <1>3, <2>1 DEF Told
  <2>4. Passed' => Passed
    BY <1>3, <2>1 DEF Passed
  <2>5. TestInv'
    BY <1>1, <1>2, <1>3, <2>1, <2>3 DEF TestInv
  <2>6. ~torn' => MirrorInv'
    BY <1>1, <1>2, <1>9, <2>3, <2>4, MirrorKept
  <2> QED
    BY <1>2, <1>3, <1>5, <2>1, <2>2, <2>5, <2>6 DEF PlaygroundInv
<1>12. CASE AnswerArrives(c)
  <2>1. /\ c.op = "chat" /\ UNCHANGED <<ready, threshold, overtaken, debug, saving>>
        /\ c.reply = "ok" => answer' \in c.body
        /\ c.reply # "ok" => answer' = answer
    BY <1>12 DEF AnswerArrives, playgroundHistory
  <2>2. ThresholdInv'
    BY <1>5, <1>7, <2>1
  <2>3. \A v : Told(v)' => Told(v)
    BY <1>3, <2>1 DEF Told
  <2>4. Passed' => Passed
    BY <1>3, <2>1 DEF Passed
  <2>5. \A x \in calls' : x.op # "chat"
    BY <1>3, <2>1, OneTest DEF Tests
  <2>6. TestInv'
    BY <1>1, <1>2, <1>3, <2>3, <2>5 DEF TestInv
  <2>7. ~torn' => MirrorInv'
    BY <1>1, <1>2, <1>9, <2>3, <2>4, MirrorKept
  <2> QED
    BY <1>2, <1>3, <1>5, <2>1, <2>2, <2>6, <2>7 DEF PlaygroundInv
<1>13. CASE Saved(c)
  <2>1. /\ c.op = "patch" /\ UNCHANGED <<ready, debug, answer>> /\ SaveAnswered(c)
        /\ c.reply = "ok" => threshold' \in c.arg
        /\ c.reply # "ok" => threshold' = threshold
    BY <1>13 DEF Saved
  <2>2. \A x \in calls : x.op = "patch" /\ x.heard => x = c
    BY <1>1, <2>1 DEF BrowserInv, Sole, Tests
  <2>3. SaveButton'
    BY <1>3, <2>2 DEF SaveButton
  <2>4. ThresholdInv'
    <3>1. CASE c.reply = "ok"
      <4>1. Carries(c, threshold') /\ overtaken' = (c.op \in old)
        BY <1>1, <2>1, <3>1 DEF Carries, SaveAnswered
      <4> QED
        BY <1>6, <4>1
    <3>2. CASE c.reply = "failed"
      <4>1. overtaken'
        BY <2>1, <3>2 DEF SaveAnswered
      <4>2. \A x \in calls' : \A u : Carries(x, u) /\ x.op \notin old' => u = bar'
        BY <1>1, <1>2, <1>4 DEF ThresholdInv
      <4> QED
        BY <4>1, <4>2 DEF ThresholdInv, Carries
    <3>3. CASE c.reply \notin {"ok", "failed"}
      <4>1. ~Due /\ UNCHANGED <<threshold, overtaken>>
        BY <2>1, <2>2, <3>3 DEF Due, SaveAnswered
      <4> QED
        BY <1>7, <2>1, <4>1
    <3> QED
      BY <3>1, <3>2, <3>3
  <2> QED
    BY <1>2, <1>3, <1>8, <2>1, <2>3, <2>4 DEF PlaygroundInv, Tests
<1> QED
  BY <1>2, <1>10, <1>11, <1>12, <1>13 DEF PlaygroundHears

-----------------------------------------------------------------------------
(* The documents page.  Rows are handed out in order.                      *)
UsedDocs == {d \in Docs : rows[d] # "unused"}
RowsInv ==
  /\ rows \in [Docs -> {"unused", "live", "gone"}]
  /\ \E n \in 0..LastDoc : \A d \in Docs : rows[d] # "unused" <=> d <= n

LEMMA UsedAre ==
  ASSUME NEW n \in 0..LastDoc, \A d \in Docs : rows[d] # "unused" <=> d <= n
  PROVE  UsedDocs = 1..n /\ IsFiniteSet(UsedDocs) /\ Cardinality(UsedDocs) = n
<1>1. UsedDocs = 1..n
  BY DocumentsAssumption DEF UsedDocs, Docs
<1>2. IsFiniteSet(1..n) /\ Cardinality(1..n) = IF 1 > n THEN 0 ELSE n - 1 + 1
  BY FS_Interval, DocumentsAssumption
<1> QED
  BY <1>1, <1>2, DocumentsAssumption

LEMMA Created ==
  ASSUME RowsInv, NEW d, Create(d)
  PROVE  /\ d \in Docs /\ d \notin UsedDocs /\ RowsInv'
         /\ LiveDocs' = LiveDocs \cup {d} /\ UsedDocs \subseteq UsedDocs'
         /\ Cardinality(UsedDocs') <= PageLimit => Cardinality(UsedDocs) <= PageLimit
<1>1. PICK n \in 0..LastDoc : \A e \in Docs : rows[e] # "unused" <=> e <= n
  BY DEF RowsInv
<1>2. UsedDocs = 1..n /\ Cardinality(UsedDocs) = n
  BY <1>1, UsedAre
<1>3. d = n + 1 /\ d \in Docs /\ rows' = [rows EXCEPT ![d] = "live"]
  BY <1>2 DEF Create, UsedDocs
<1>4. d \notin UsedDocs /\ n + 1 \in 0..LastDoc
  BY <1>2, <1>3, DocumentsAssumption DEF Docs
<1>5. rows' \in [Docs -> {"unused", "live", "gone"}]
  BY <1>3 DEF RowsInv
<1>6. \A e \in Docs : rows'[e] # "unused" <=> e <= n + 1
  <2> TAKE e \in Docs
  <2>1. e \in Nat /\ n \in Nat
    BY DocumentsAssumption DEF Docs
  <2>2. CASE e = d
    BY <1>3, <2>1, <2>2 DEF RowsInv
  <2>3. CASE e # d
    <3>1. rows'[e] = rows[e]
      BY <1>3, <2>3 DEF RowsInv
    <3>2. e <= n + 1 <=> e <= n
      BY <1>3, <2>1, <2>3
    <3> QED
      BY <1>1, <3>1, <3>2
  <2> QED
    BY <2>2, <2>3
<1>7. Cardinality(UsedDocs') = n + 1
  <2>1. UsedDocs' = 1..(n + 1)
    BY <1>4, <1>6, DocumentsAssumption DEF UsedDocs, Docs
  <2>2. Cardinality(1..(n + 1)) = IF 1 > n + 1 THEN 0 ELSE n + 1 - 1 + 1
    BY FS_Interval, DocumentsAssumption
  <2> QED
    BY <2>1, <2>2, DocumentsAssumption
<1>8. LiveDocs' = LiveDocs \cup {d} /\ UsedDocs \subseteq UsedDocs'
  BY <1>3 DEF RowsInv, LiveDocs, UsedDocs, Docs
<1>9. n + 1 <= PageLimit => n <= PageLimit
  BY DocumentsAssumption
<1> QED
  BY <1>2, <1>3, <1>4, <1>5, <1>6, <1>7, <1>8, <1>9 DEF RowsInv, Docs

LEMMA Removed ==
  ASSUME RowsInv, NEW d, Remove(d)
  PROVE  RowsInv' /\ LiveDocs' = LiveDocs \ {d} /\ UsedDocs' = UsedDocs
<1>1. /\ \A e \in Docs : rows'[e] = IF e = d /\ rows[e] = "live" THEN "gone" ELSE rows[e]
      /\ rows' \in [Docs -> {"unused", "live", "gone"}]
  BY DEF Remove, RowsInv
<1>2. \A e \in Docs : rows'[e] # "unused" <=> rows[e] # "unused"
  BY <1>1
<1>3. LiveDocs' = LiveDocs \ {d} /\ UsedDocs' = UsedDocs
  BY <1>1 DEF LiveDocs, UsedDocs, Docs
<1> QED
  BY <1>1, <1>2, <1>3 DEF RowsInv, Docs

(* A reply holds all documents when there were no more than it can hold.   *)
LEMMA AllListed ==
  ASSUME RowsInv, Cardinality(UsedDocs) <= PageLimit
  PROVE  LiveDocs \subseteq Newest
<1>1. PICK n \in 0..LastDoc : \A e \in Docs : rows[e] # "unused" <=> e <= n
  BY DEF RowsInv
<1>2. IsFiniteSet(UsedDocs) /\ Cardinality(UsedDocs) = n /\ n \in Nat
  BY <1>1, UsedAre, DocumentsAssumption
<1> SUFFICES ASSUME NEW d \in LiveDocs
             PROVE  Cardinality({e \in LiveDocs : e > d}) < PageLimit
  BY DEF Newest
<1> DEFINE after == {e \in LiveDocs : e > d}
<1>3. after \in SUBSET UsedDocs /\ d \in UsedDocs /\ d \notin after
  BY DEF LiveDocs, UsedDocs, Docs
<1> HIDE DEF after
<1>4. Cardinality(after) <= n /\ Cardinality(after) # n /\ IsFiniteSet(after)
  BY <1>2, <1>3, FS_Subset
<1>5. Cardinality(after) \in Nat
  BY <1>4, FS_CardinalityType
<1>6. Cardinality(after) < PageLimit
  BY <1>2, <1>4, <1>5, DocumentsAssumption
<1> QED
  BY <1>6 DEF after

-----------------------------------------------------------------------------
Going(d) == \E w \in calls : w.op = "delete" /\ Answered(w) /\ d \in w.arg
Coming(d) == \E w \in calls : w.op = "upload" /\ w.reply = "ok" /\ d \in w.body

(* A document that is listed is stored, or the page waits for word that it *)
(* is not; one that is stored is listed or has a row, or the page waits    *)
(* for its id.                                                             *)
ListInv ==
  /\ \A d \in list : d \in LiveDocs \/ Going(d)
  /\ \A w \in calls : w.op = "delete" =>
       w.arg \subseteq UsedDocs /\ (Answered(w) => w.arg \cap LiveDocs = {})
  /\ Cardinality(UsedDocs) <= PageLimit =>
       \A d \in LiveDocs : d \in list \cup InItems \/ Coming(d)

ListReads == \A c \in calls : c.quiet /\ c.reply = "ok" /\ c.op = "list" => c.body = Newest
UploadArgs == \A w \in calls : w.op = "upload" /\ w.heard => w.arg \subseteq Files
RowItems == item = [f \in Files |-> item[f]] /\ docOf = [f \in Files |-> docOf[f]]

DocumentsInv ==
  /\ RowsInv /\ RowItems
  /\ visit = "documents" => ListReads /\ UploadArgs /\ (Calm => ListInv)

LEMMA ListKept ==
  ASSUME \A x \in calls' : x.op = "delete" =>
           (\E c \in calls : View(x, c)) \/ (x.reply = "pending" /\ x.arg \subseteq UsedDocs),
         \A c \in calls : c.op \in {"delete", "upload"} => \E x \in calls' : View(x, c),
         ListInv, rows' = rows, list' = list, InItems \subseteq InItems'
  PROVE  ListInv'
<1>1. UsedDocs' = UsedDocs /\ LiveDocs' = LiveDocs
  BY DEF UsedDocs, LiveDocs
<1>2. \A d \in list : d \in LiveDocs \/ \E x \in calls' : x.op = "delete" /\ Answered(x) /\ d \in x.arg
  BY DEF ListInv, Going, View, Answered
<1>3. \A x \in calls' : x.op = "delete" =>
        x.arg \subseteq UsedDocs /\ (Answered(x) => x.arg \cap LiveDocs = {})
  BY DEF ListInv, View, Answered
<1>4. Cardinality(UsedDocs) <= PageLimit =>
        \A d \in LiveDocs : d \in list \cup InItems' \/ Coming(d)'
  BY DEF ListInv, Coming, View
<1> QED
  BY <1>1, <1>2, <1>3, <1>4 DEF ListInv, Going

LEMMA SameRows ==
  ASSUME rows' = rows
  PROVE  (RowsInv' <=> RowsInv) /\ Newest' = Newest /\ LiveDocs' = LiveDocs /\ UsedDocs' = UsedDocs
BY DEF RowsInv, Newest, LiveDocs, UsedDocs, Docs

LEMMA DocumentsMoved ==
  ASSUME BrowserInv, DocumentsInv, Move
  PROVE  DocumentsInv'
<1>1. /\ current' = FALSE
      /\ \A x \in calls' : Silent(x) \/ New(x, "load", {})
  BY MovedOn
<1>2. /\ rows' = rows /\ item' = [f \in Files |-> "new"] /\ docOf' = [f \in Files |-> None]
  BY DEF Move, DocumentsUnmount
<1>3. ListReads' /\ UploadArgs'
  BY <1>1 DEF ListReads, UploadArgs, Silent, New
<1>4. RowItems'
  BY <1>2 DEF RowItems
<1> QED
  BY <1>1, <1>2, <1>3, <1>4, SameRows DEF DocumentsInv, Calm

LEMMA DocumentsStay ==
  ASSUME BrowserInv, DocumentsInv, Stay
  PROVE  DocumentsInv'
<1>1. BrowserInv' /\ Weakly /\ visit' = visit /\ current' = current
  BY Stayed
<1>2. UNCHANGED <<rows, known, list, deleting, item, docOf, stream>>
  BY DEF Stay, documentsVars, documentsState
<1>3. RowsInv' /\ RowItems' /\ Newest' = Newest /\ LiveDocs' = LiveDocs /\ UsedDocs' = UsedDocs
      /\ InItems' = InItems
  BY <1>2, SameRows DEF DocumentsInv, RowItems, InItems, Shown
<1> SUFFICES ASSUME visit = "documents"
             PROVE  ListReads' /\ UploadArgs' /\ (Calm' => ListInv')
  BY <1>1, <1>3 DEF DocumentsInv
<1>4. \A x \in calls' : x.op \in {"list", "upload", "delete"} => \E c \in calls : Weak(x, c)
  BY <1>1 DEF Weakly, Session
<1>5. ListReads' /\ UploadArgs'
  BY <1>3, <1>4 DEF DocumentsInv, ListReads, UploadArgs, Weak
<1>6. ASSUME Calm' PROVE ListInv'
  <2>1. /\ ListInv
        /\ \A x \in calls' : x.op \in Writes => \E c \in calls : Weak(x, c) /\ x.reply # "failed"
        /\ \A c \in calls : c.op \in Writes => \E x \in calls' : Weak(x, c) /\ x.reply # "failed"
    BY <1>1, <1>6, CalmBefore DEF DocumentsInv
  <2>2. \A d \in list : d \in LiveDocs \/ \E x \in calls' : x.op = "delete" /\ Answered(x) /\ d \in x.arg
    BY <2>1 DEF ListInv, Going, Weak, Answered, Writes
  <2>3. \A x \in calls' : x.op = "delete" =>
          x.arg \subseteq UsedDocs /\ (Answered(x) => x.arg \cap LiveDocs = {})
    BY <2>1 DEF ListInv, Weak, Answered, Writes
  <2>4. \A d : Coming(d) => Coming(d)'
    BY <2>1 DEF Coming, Weak, Writes
  <2> QED
    BY <1>2, <1>3, <2>1, <2>2, <2>3, <2>4 DEF ListInv, Going
<1> QED
  BY <1>5, <1>6

LEMMA DocumentsServed ==
  ASSUME BrowserInv, DocumentsInv, NEW c \in calls, ServeDocuments(c)
  PROVE  BrowserInv' /\ DocumentsInv' /\ visit' = visit
<1>1. /\ UNCHANGED <<visit, place, landing, current>>
      /\ UNCHANGED <<known, list, deleting, item, docOf, stream>>
      /\ c.reply = "pending" /\ CallInv(c)
  BY DEF ServeDocuments, documentsState, BrowserInv, ServeLoadDocuments, ServeList,
         ServeUpload, ServeDelete, Served
<1>2. c.op \in {"list", "upload", "delete"} => visit = "documents"
  BY <1>1 DEF CallInv, Ops, PageOps, Session, DataPages, BrowserInv
<1>3. visit = "documents"
  BY <1>2 DEF ServeDocuments, ServeLoadDocuments, ServeList, ServeUpload, ServeDelete, Served
<1>4. RowsInv /\ ListReads /\ UploadArgs /\ (Calm => ListInv)
  BY <1>3 DEF DocumentsInv
<1>5. RowItems' /\ InItems' = InItems
  BY <1>1 DEF DocumentsInv, RowItems, InItems, Shown
<1>6. ASSUME NEW r \in {"ok", "notFound"}, NEW b, Reply(c, r, b), c.op # "patch",
             c.op \in {"createKey", "upload"} => \E v : b = {v}
      PROVE  /\ BrowserInv' /\ UploadArgs'
             /\ Calm' => Calm /\ (c.op \in Writes => c.heard)
             /\ \A x \in calls' : (x \in calls /\ x # c) \/ Becomes(x, c, r, b, c.heard, c.quiet)
             /\ \A x \in calls : x = c \/ x \in calls'
             /\ c.heard => \E x \in calls' : Becomes(x, c, r, b, c.heard, c.quiet)
  <2>1. /\ BrowserInv'
        /\ \A x \in calls' : (x \in calls /\ x # c) \/ Becomes(x, c, r, b, c.heard, c.quiet)
        /\ \A x \in calls : x = c \/ x \in calls'
        /\ c.heard => \E x \in calls' : Becomes(x, c, r, b, c.heard, c.quiet)
    BY <1>1, <1>6, Replied DEF Replies
  <2>2. UploadArgs'
    BY <1>4, <2>1 DEF UploadArgs, Becomes
  <2>3. Calm' => Calm /\ (c.op \in Writes => c.heard)
    BY <1>1, <2>1 DEF Calm, BrowserInv
  <2> QED
    BY <2>1, <2>2, <2>3
<1>7. ASSUME NEW b, Reply(c, "ok", b), c.op \in {"load", "list"}, rows' = rows,
             c.op = "list" => b = Newest
      PROVE  BrowserInv' /\ DocumentsInv' /\ visit' = visit
  <2>1. /\ BrowserInv' /\ UploadArgs' /\ (Calm' => Calm)
        /\ \A x \in calls' : (x \in calls /\ x # c) \/ Becomes(x, c, "ok", b, c.heard, c.quiet)
        /\ \A x \in calls : x = c \/ x \in calls'
    BY <1>6, <1>7
  <2>2. ListReads'
    BY <1>4, <1>7, <2>1, SameRows DEF ListReads, Becomes
  <2>3. \A x : View(x, x)
    BY DEF View
  <2>4. ASSUME Calm' PROVE ListInv'
    <3>1. /\ \A x \in calls' : x.op = "delete" => \E d \in calls : View(x, d)
          /\ \A d \in calls : d.op \in {"delete", "upload"} => \E x \in calls' : View(x, d)
      BY <1>7, <2>1, <2>3 DEF Becomes
    <3> QED
      BY <1>1, <1>4, <1>5, <1>7, <2>1, <2>4, <3>1, ListKept
  <2> QED
    BY <1>1, <1>4, <1>5, <1>7, <2>1, <2>2, <2>4, SameRows DEF DocumentsInv
<1>8. CASE ServeLoadDocuments(c)
  BY <1>7, <1>8 DEF ServeLoadDocuments, Served
<1>9. CASE ServeList(c)
  BY <1>7, <1>9 DEF ServeList, Served
<1>10. CASE ServeUpload(c)
  <2>1. PICK d \in Docs : Create(d) /\ Reply(c, "ok", {d}) /\ c.op = "upload"
    BY <1>10 DEF ServeUpload, Served
  <2>2. /\ BrowserInv' /\ UploadArgs' /\ (Calm' => Calm /\ c.heard)
        /\ \A x \in calls' : (x \in calls /\ x # c) \/ Becomes(x, c, "ok", {d}, c.heard, c.quiet)
        /\ \A x \in calls : x = c \/ x \in calls'
        /\ c.heard => \E x \in calls' : Becomes(x, c, "ok", {d}, c.heard, c.quiet)
    BY <1>6, <2>1 DEF Writes
  <2>3. /\ d \notin UsedDocs /\ RowsInv'
        /\ LiveDocs' = LiveDocs \cup {d} /\ UsedDocs \subseteq UsedDocs'
        /\ Cardinality(UsedDocs') <= PageLimit => Cardinality(UsedDocs) <= PageLimit
    BY <1>4, <2>1, Created
  <2>4. ListReads'
    BY <2>1, <2>2 DEF ListReads, BrowserInv, Writes, Becomes
  <2>5. ASSUME Calm' PROVE ListInv'
    <3>1. ListInv /\ c.heard
      BY <1>4, <2>2, <2>5
    <3>2. \A x \in calls' : x.op = "delete" => x \in calls
      BY <2>1, <2>2 DEF Becomes
    <3>3. \A x \in calls : x.op = "delete" => x \in calls'
      BY <2>1, <2>2
    <3>4. \A e \in list' : e \in LiveDocs' \/ Going(e)'
      BY <1>1, <2>3, <3>1, <3>3 DEF ListInv, Going, Answered
    <3>5. \A x \in calls' : x.op = "delete" =>
            x.arg \subseteq UsedDocs' /\ (Answered(x) => x.arg \cap LiveDocs' = {})
      BY <2>3, <3>1, <3>2 DEF ListInv
    <3>6. Coming(d)'
      BY <2>1, <2>2, <3>1 DEF Coming, Becomes
    <3>7. \A e : Coming(e) => Coming(e)'
      BY <1>1, <2>2 DEF Coming
    <3>8. Cardinality(UsedDocs') <= PageLimit =>
            \A e \in LiveDocs' : e \in list' \cup InItems' \/ Coming(e)'
      BY <1>1, <1>5, <2>3, <3>1, <3>6, <3>7 DEF ListInv
    <3> QED
      BY <3>4, <3>5, <3>8 DEF ListInv, Answered
  <2> QED
    BY <1>1, <1>5, <2>2, <2>3, <2>4, <2>5 DEF DocumentsInv
<1>11. CASE ServeDelete(c)
  <2>1. PICK d \in c.arg : /\ Remove(d) /\ c.op = "delete"
                           /\ Reply(c, IF d \in LiveDocs THEN "ok" ELSE "notFound", {})
    BY <1>11 DEF ServeDelete, Served
  <2>2. PICK r \in {"ok", "notFound"} : Reply(c, r, {})
    BY <2>1
  <2>3. c.arg = {d}
    BY <1>1, <2>1 DEF CallInv, ArgOK
  <2>4. /\ BrowserInv' /\ UploadArgs' /\ (Calm' => Calm /\ c.heard)
        /\ \A x \in calls' : (x \in calls /\ x # c) \/ Becomes(x, c, r, {}, c.heard, c.quiet)
        /\ \A x \in calls : x = c \/ x \in calls'
        /\ c.heard => \E x \in calls' : Becomes(x, c, r, {}, c.heard, c.quiet)
    BY <1>6, <2>1, <2>2 DEF Writes
  <2>5. RowsInv' /\ LiveDocs' = LiveDocs \ {d} /\ UsedDocs' = UsedDocs
    BY <1>4, <2>1, Removed
  <2>6. ListReads'
    BY <2>1, <2>4 DEF ListReads, BrowserInv, Writes, Becomes
  <2>7. ASSUME Calm' PROVE ListInv'
    <3>1. ListInv /\ c.heard
      BY <1>4, <2>4, <2>7
    <3>2. Going(d)'
      BY <2>1, <2>4, <3>1 DEF Going, Becomes, Answered
    <3>3. \A e : (Going(e) => Going(e)') /\ (Coming(e) => Coming(e)')
      BY <1>1, <2>4 DEF Going, Coming, Answered
    <3>4. \A e \in list' : e \in LiveDocs' \/ Going(e)'
      BY <1>1, <2>5, <3>1, <3>2, <3>3 DEF ListInv
    <3>5. \A x \in calls' : x.op = "delete" =>
            x.arg \subseteq UsedDocs' /\ (Answered(x) => x.arg \cap LiveDocs' = {})
      BY <2>1, <2>3, <2>4, <2>5, <3>1 DEF ListInv, Becomes
    <3>6. Cardinality(UsedDocs') <= PageLimit =>
            \A e \in LiveDocs' : e \in list' \cup InItems' \/ Coming(e)'
      BY <1>1, <1>5, <2>5, <3>1, <3>3 DEF ListInv
    <3> QED
      BY <3>4, <3>5, <3>6 DEF ListInv, Answered
  <2> QED
    BY <1>1, <1>5, <2>4, <2>5, <2>6, <2>7 DEF DocumentsInv
<1> QED
  BY <1>8, <1>9, <1>10, <1>11 DEF ServeDocuments

LEMMA DocumentsWritten ==
  ASSUME BrowserInv, DocumentsInv, DocumentsElsewhere
  PROVE  BrowserInv' /\ DocumentsInv' /\ visit' = visit
<1>1. /\ visit = "documents" /\ UNCHANGED <<visit, place, landing, item, docOf>>
      /\ calls' = Disturbed(calls) /\ current' = FALSE
  BY DEF DocumentsElsewhere, documentsState
<1>2. /\ BrowserInv'
      /\ \A x \in calls' : ~x.quiet /\ \E c \in calls : Like(x, c)
  BY <1>1, WrittenElsewhere
<1>3. RowsInv'
  BY Created, Removed DEF DocumentsElsewhere, DocumentsInv
<1>4. \A x \in calls' : ~x.quiet /\ \E c \in calls : x.op = c.op /\ x.arg = c.arg /\ x.heard = c.heard
  BY <1>2 DEF Like, Becomes
<1>5. ListReads' /\ UploadArgs' /\ RowItems'
  BY <1>1, <1>4 DEF DocumentsInv, ListReads, UploadArgs, RowItems
<1> QED
  BY <1>1, <1>2, <1>3, <1>5 DEF DocumentsInv, Calm

(* The assistant is known: its documents are asked for.                    *)
LEMMA ListAsked ==
  ASSUME BrowserInv, visit = "documents", NEW c \in calls, c.op = "load",
         calls' = Plus(calls \ {c}, "list", {}, jar), UNCHANGED <<visit, place, landing, current>>
  PROVE  /\ BrowserInv'
         /\ \A x \in calls' : x \in calls \/ New(x, "list", {})
         /\ \A x \in calls : x = c \/ x \in calls'
<1>1. PICK new : Adds(calls', new, calls \ {c}, "list", {})
  BY PlusIs
<1>2. /\ New(new, "list", {}) /\ new.body = {}
      /\ new.quiet => \A w \in calls \ {c} : w.op \notin Writes
      /\ calls' = (calls \ {c}) \cup {new}
  BY <1>1 DEF Adds, New, Writes
<1>3. CallInv(new)
  BY <1>2 DEF New, CallInv, BodyOK, ArgOK, Ops, PageOps, Reads
<1>4. \A x \in calls' : CallInv(x)'
  BY <1>2, <1>3, OpsKept DEF BrowserInv
<1>5. \A x, w \in calls' : x.quiet => w.op \notin Writes
  BY <1>2 DEF BrowserInv, New, Writes
<1>6. \A w \in calls' : w.op \in Writes \cup Sole => w \in calls
  BY <1>2 DEF New, Writes, Sole, Tests
<1>7. BrowserInv'
  BY <1>4, <1>5, <1>6 DEF BrowserInv, Places
<1> QED
  BY <1>2, <1>7

LEMMA OnDocumentsPage ==
  ASSUME BrowserInv, DocumentsInv, OnDocuments
  PROVE  /\ visit = "documents" /\ UNCHANGED <<visit, place, landing>> /\ place = visit
         /\ RowsInv /\ RowItems /\ ListReads /\ UploadArgs /\ (Calm => ListInv)
BY DEF OnDocuments, BrowserInv, Places, SignInPages, DocumentsInv

(* A row changes, and is still shown.                                      *)
LEMMA RowChanges ==
  ASSUME RowItems, NEW f, NEW s, s \notin {"new", "dropped"} \/ s = item[f],
         item' = [item EXCEPT ![f] = s], docOf' = docOf
  PROVE  RowItems' /\ InItems \subseteq InItems'
<1>1. \A g \in Files : item'[g] = IF g = f THEN s ELSE item[g]
  BY DEF RowItems
<1>2. RowItems'
  BY DEF RowItems
<1>3. Shown \subseteq Shown'
  BY <1>1 DEF Shown
<1> QED
  BY <1>2, <1>3 DEF InItems

LEMMA DocumentsClicked ==
  ASSUME BrowserInv, DocumentsInv, DocumentsClicks
  PROVE  BrowserInv' /\ DocumentsInv' /\ visit' = visit
<1>1. OnDocuments /\ UNCHANGED <<rows, list, docOf>>
  BY DEF DocumentsClicks, Refresh, DeleteDoc, UploadFile, ToldFailed, StreamDone, StreamBreaks,
         documentsState
<1>2. /\ visit = "documents" /\ UNCHANGED <<visit, place, landing>> /\ place = visit
      /\ RowsInv /\ RowItems /\ ListReads /\ UploadArgs /\ (Calm => ListInv)
  BY <1>1, OnDocumentsPage
<1>3. RowsInv' /\ Newest' = Newest
  BY <1>1, <1>2, SameRows
<1>4. \A x, c : Like(x, c) => View(x, c) /\ x.heard = c.heard /\ (x.quiet => c.quiet)
  BY DEF Like, Becomes, View
<1>5. ASSUME NEW op \in {"list", "delete", "upload"}, NEW arg, ArgOK(op, arg), Send(op, arg),
             op = "upload" => arg \subseteq Files,
             op = "delete" /\ Calm => arg \subseteq UsedDocs,
             current' \in BOOLEAN, current' => current,
             RowItems', current' => InItems \subseteq InItems'
      PROVE  BrowserInv' /\ DocumentsInv' /\ visit' = visit
  <2>1. op \in Ops /\ op \notin Sole
    BY <1>2 DEF Ops, PageOps, Sole, Tests
  <2>2. calls' = Plus(calls, op, arg, jar)
    BY <1>5 DEF Send
  <2>3. /\ BrowserInv'
        /\ \A x \in calls' : New(x, op, arg) \/ \E c \in calls : Like(x, c)
        /\ \A c \in calls : \E x \in calls' : Like(x, c)
    BY <1>2, <1>5, <2>1, <2>2, Sent
  <2>4. ListReads' /\ UploadArgs'
    BY <1>2, <1>3, <1>4, <1>5, <2>3 DEF ListReads, UploadArgs, New, View
  <2>5. Calm' => Calm
    BY <1>4, <1>5, <2>3 DEF Calm, View
  <2>6. ASSUME Calm' PROVE ListInv'
    <3>1. Calm /\ ListInv /\ InItems \subseteq InItems'
      BY <1>2, <1>5, <2>5, <2>6 DEF Calm
    <3>2. \A x \in calls' : x.op = "delete" =>
            (\E c \in calls : View(x, c)) \/ (x.reply = "pending" /\ x.arg \subseteq UsedDocs)
      BY <1>4, <1>5, <2>3, <3>1 DEF New
    <3>3. \A c \in calls : \E x \in calls' : View(x, c)
      BY <1>4, <2>3
    <3> QED
      BY <1>1, <3>1, <3>2, <3>3, ListKept
  <2> QED
    BY <1>2, <1>3, <1>5, <2>3, <2>4, <2>6 DEF DocumentsInv
<1>6. ASSUME UNCHANGED <<calls, current>>, RowItems', InItems \subseteq InItems'
      PROVE  BrowserInv' /\ DocumentsInv' /\ visit' = visit
  <2>1. BrowserInv'
    BY <1>2, <1>6, OpsKept DEF BrowserInv, Places
  <2>2. ListReads' /\ UploadArgs' /\ (Calm' => Calm)
    BY <1>2, <1>3, <1>6 DEF ListReads, UploadArgs, Calm
  <2>3. ASSUME Calm' PROVE ListInv'
    <3>1. \A x : View(x, x)
      BY DEF View
    <3> QED
      BY <1>1, <1>2, <1>6, <2>2, <2>3, <3>1, ListKept
  <2> QED
    BY <1>2, <1>3, <1>6, <2>1, <2>2, <2>3 DEF DocumentsInv
<1>7. item' = item => RowItems' /\ InItems' = InItems
  BY <1>1, <1>2 DEF RowItems, InItems, Shown
<1>a. current' = current => current' \in BOOLEAN /\ (current' => current)
  BY DEF BrowserInv
<1>8. CASE Refresh
  <2>1. Send("list", {}) /\ UNCHANGED <<current, item>>
    BY <1>8 DEF Refresh, documentsState
  <2>2. ArgOK("list", {})
    BY DEF ArgOK
  <2> QED
    BY <1>5, <1>7, <1>a, <2>1, <2>2
<1>9. ASSUME NEW d \in Docs, DeleteDoc(d) PROVE BrowserInv' /\ DocumentsInv' /\ visit' = visit
  <2>1. Send("delete", {d}) /\ UNCHANGED <<current, item>> /\ d \in list
    BY <1>9 DEF DeleteDoc, Listed
  <2>2. LiveDocs \subseteq UsedDocs
    BY DEF LiveDocs, UsedDocs
  <2>3. Calm => d \in UsedDocs
    BY <1>2, <2>1, <2>2 DEF ListInv, Going
  <2>4. ArgOK("delete", {d})
    BY DEF ArgOK
  <2> QED
    BY <1>5, <1>7, <1>a, <2>1, <2>3, <2>4
<1>10. ASSUME NEW f \in Files, UploadFile(f) PROVE BrowserInv' /\ DocumentsInv' /\ visit' = visit
  <2>1. Send("upload", {f}) /\ current' = current /\ item' = [item EXCEPT ![f] = "uploading"]
    BY <1>10 DEF UploadFile
  <2>2. RowItems' /\ InItems \subseteq InItems'
    BY <1>1, <1>2, <2>1, RowChanges
  <2>3. ArgOK("upload", {f})
    BY DEF ArgOK
  <2> QED
    BY <1>5, <1>a, <2>1, <2>2, <2>3
<1>11. ASSUME NEW f \in Files, NEW s \in {"failed", "error"}, Patch(f, s), UNCHANGED <<calls, current>>
       PROVE  BrowserInv' /\ DocumentsInv' /\ visit' = visit
  <2>1. PICK t : t = IF item[f] = "dropped" THEN item[f] ELSE s
    OBVIOUS
  <2>2. item' = [item EXCEPT ![f] = t]
    BY <1>11, <2>1 DEF Patch
  <2>3. RowItems' /\ InItems \subseteq InItems'
    BY <1>1, <1>2, <2>1, <2>2, RowChanges
  <2> QED
    BY <1>6, <1>11, <2>3
<1>12. ASSUME NEW f \in Files, ToldFailed(f) PROVE BrowserInv' /\ DocumentsInv' /\ visit' = visit
  BY <1>11, <1>12 DEF ToldFailed
<1>13. ASSUME NEW f \in Files, StreamDone(f) PROVE BrowserInv' /\ DocumentsInv' /\ visit' = visit
  <2>1. Send("list", {}) /\ current' = FALSE /\ item' = [item EXCEPT ![f] = "dropped"]
    BY <1>13 DEF StreamDone
  <2>2. RowItems'
    BY <1>1, <1>2, <2>1 DEF RowItems
  <2> QED
    BY <1>5, <2>1, <2>2 DEF ArgOK
<1>14. ASSUME NEW f \in Files, StreamBreaks(f) PROVE BrowserInv' /\ DocumentsInv' /\ visit' = visit
  <2>1. UNCHANGED <<calls, current>> /\ (Patch(f, "error") \/ item' = item)
    BY <1>14 DEF StreamBreaks
  <2> QED
    BY <1>6, <1>7, <1>11, <2>1
<1> QED
  BY <1>8, <1>9, <1>10, <1>12, <1>13, <1>14 DEF DocumentsClicks

LEMMA DocumentsHeard ==
  ASSUME BrowserInv, DocumentsInv, NEW c \in calls, DocumentsHears(c)
  PROVE  BrowserInv' /\ DocumentsInv' /\ visit' = visit
<1>1. OnDocuments /\ c.reply # "pending" /\ c.heard /\ rows' = rows /\ CallInv(c)
  BY DEF DocumentsHears, DocumentsLoaded, ListArrives, DocDeleted, FileUploaded, Take, BrowserInv
<1>2. /\ visit = "documents" /\ UNCHANGED <<visit, place, landing>> /\ place = visit
      /\ RowsInv /\ RowItems /\ ListReads /\ UploadArgs /\ (Calm => ListInv)
  BY <1>1, OnDocumentsPage
<1>3. RowsInv' /\ Newest' = Newest /\ LiveDocs' = LiveDocs /\ UsedDocs' = UsedDocs
  BY <1>1, <1>2, SameRows
<1>4. ASSUME Drop(c), current' \in BOOLEAN, current' => current \/ c.quiet
      PROVE  /\ BrowserInv' /\ ListReads' /\ UploadArgs'
             /\ \A x : x \in calls' <=> x \in calls /\ x # c
  <2>1. BrowserInv' /\ \A x : x \in calls' <=> x \in calls /\ x # c
    BY <1>2, <1>4, Taken
  <2> QED
    BY <1>2, <1>3, <2>1 DEF ListReads, UploadArgs
<1>5. c.quiet \in BOOLEAN /\ current \in BOOLEAN
  BY <1>1 DEF CallInv, IsCall, BrowserInv
<1>6. \A x : View(x, x)
  BY DEF View
<1>7. UNCHANGED <<item, docOf>> => RowItems' /\ InItems' = InItems
  BY <1>2 DEF RowItems, InItems, Shown
<1>8. ASSUME c.op \in {"load", "list"}, UNCHANGED <<list, current, item, docOf>>,
             BrowserInv', ListReads', UploadArgs',
             \A x \in calls' : x \in calls \/ New(x, "list", {}),
             \A x \in calls : x = c \/ x \in calls'
      PROVE  BrowserInv' /\ DocumentsInv' /\ visit' = visit
  <2>1. /\ \A x \in calls' : x.op = "delete" => \E d \in calls : View(x, d)
        /\ \A d \in calls : d.op \in {"delete", "upload"} => \E x \in calls' : View(x, d)
    BY <1>6, <1>8 DEF New
  <2>2. Calm' => Calm
    BY <1>8 DEF Calm, Writes
  <2>3. Calm' => ListInv'
    BY <1>1, <1>2, <1>7, <1>8, <2>1, <2>2, ListKept
  <2> QED
    BY <1>2, <1>3, <1>7, <1>8, <2>3 DEF DocumentsInv
<1>9. CASE DocumentsLoaded(c)
  <2>1. /\ c.op = "load" /\ UNCHANGED <<list, current, item, docOf>>
        /\ c.reply = "ok" => calls' = Plus(calls \ {c}, "list", {}, jar)
        /\ c.reply # "ok" => Drop(c)
    BY <1>9 DEF DocumentsLoaded
  <2>2. CASE c.reply = "ok"
    <3>1. /\ BrowserInv'
          /\ \A x \in calls' : x \in calls \/ New(x, "list", {})
          /\ \A x \in calls : x = c \/ x \in calls'
      BY <1>2, <2>1, <2>2, ListAsked
    <3>2. ListReads' /\ UploadArgs'
      BY <1>2, <1>3, <3>1 DEF ListReads, UploadArgs, New
    <3> QED
      BY <1>8, <2>1, <3>1, <3>2
  <2>3. CASE c.reply # "ok"
    BY <1>4, <1>5, <1>8, <2>1, <2>3
  <2> QED
    BY <2>2, <2>3
<1>10. CASE ListArrives(c)
  <2>1. /\ c.op = "list" /\ Drop(c) /\ UNCHANGED <<item, docOf>>
        /\ c.reply = "ok" => list' = c.body /\ current' = c.quiet
        /\ c.reply # "ok" => UNCHANGED <<list, current>>
    BY <1>10 DEF ListArrives
  <2>2. /\ BrowserInv' /\ ListReads' /\ UploadArgs'
        /\ \A x : x \in calls' <=> x \in calls /\ x # c
    BY <1>4, <1>5, <2>1
  <2>3. CASE c.reply = "ok"
    <3>1. ASSUME Calm' PROVE ListInv'
      <4>1. c.quiet /\ \A x \in calls' : x.op \notin Writes
        BY <2>1, <2>2, <2>3, <3>1 DEF Calm, BrowserInv
      <4>2. list' = Newest
        BY <1>2, <2>1, <2>3, <4>1 DEF ListReads
      <4>3. Newest \subseteq LiveDocs /\ (Cardinality(UsedDocs) <= PageLimit => LiveDocs \subseteq Newest)
        BY <1>2, AllListed DEF Newest
      <4> QED
        BY <1>3, <4>1, <4>2, <4>3 DEF ListInv, Writes
    <3> QED
      BY <1>2, <1>3, <1>7, <2>1, <2>2, <3>1 DEF DocumentsInv
  <2>4. CASE c.reply # "ok"
    BY <1>8, <2>1, <2>2, <2>4
  <2> QED
    BY <2>3, <2>4
<1>11. CASE DocDeleted(c)
  <2>1. /\ c.op = "delete" /\ Drop(c) /\ UNCHANGED <<item, docOf>>
        /\ list' = IF Answered(c) THEN list \ c.arg ELSE list
        /\ current' = (current /\ c.reply # "failed")
    BY <1>11 DEF DocDeleted, Answered
  <2>2. /\ BrowserInv' /\ ListReads' /\ UploadArgs'
        /\ \A x : x \in calls' <=> x \in calls /\ x # c
    BY <1>4, <1>5, <2>1
  <2>3. ASSUME Calm' PROVE ListInv'
    <3>1. ListInv
      BY <1>2, <2>1, <2>2, <2>3 DEF Calm
    <3>2. \A d \in list' : d \in LiveDocs \/ \E w \in calls' : w.op = "delete" /\ Answered(w) /\ d \in w.arg
      BY <2>1, <2>2, <3>1 DEF ListInv, Going
    <3>3. \A w \in calls' : w.op = "delete" =>
            w.arg \subseteq UsedDocs /\ (Answered(w) => w.arg \cap LiveDocs = {})
      BY <2>2, <3>1 DEF ListInv
    <3>4. \A d : Coming(d) => Coming(d)'
      BY <2>1, <2>2 DEF Coming
    <3>5. \A d \in LiveDocs : d \in list => d \in list'
      BY <2>1, <3>1 DEF ListInv
    <3>6. Cardinality(UsedDocs) <= PageLimit =>
            \A d \in LiveDocs : d \in list' \cup InItems' \/ Coming(d)'
      BY <1>7, <2>1, <3>1, <3>4, <3>5 DEF ListInv
    <3> QED
      BY <1>3, <3>2, <3>3, <3>6 DEF ListInv, Going
  <2> QED
    BY <1>2, <1>3, <1>7, <2>1, <2>2, <2>3 DEF DocumentsInv
<1>12. CASE FileUploaded(c)
  <2>1. c.op = "upload" /\ Drop(c) /\ list' = list
    BY <1>12 DEF FileUploaded
  <2>2. PICK f \in c.arg :
          IF c.reply = "ok"
            THEN \E d \in c.body :
                   /\ Patch(f, "progress")
                   /\ docOf' = [docOf EXCEPT ![f] = IF item[f] = "dropped" THEN @ ELSE d]
                   /\ current' = (current /\ item[f] # "dropped" /\ docOf[f] = None)
            ELSE /\ Patch(f, "error")
                 /\ current' = (current /\ c.reply # "failed")
                 /\ docOf' = docOf
    BY <1>12 DEF FileUploaded
  <2>3. f \in Files
    BY <1>1, <1>2, <2>1 DEF UploadArgs
  <2>4. PICK s : /\ item' = [item EXCEPT ![f] = s]
                 /\ IF item[f] = "dropped" THEN s = item[f] ELSE s \in {"progress", "error"}
    <3>1. item' = [item EXCEPT ![f] = IF @ = "dropped" THEN @ ELSE IF c.reply = "ok" THEN "progress" ELSE "error"]
      BY <2>2 DEF Patch
    <3> QED
      BY <3>1
  <2>5. current' \in BOOLEAN /\ (current' => current /\ c.reply # "failed")
    BY <1>5, <2>2
  <2>6. /\ BrowserInv' /\ ListReads' /\ UploadArgs'
        /\ \A x : x \in calls' <=> x \in calls /\ x # c
    BY <1>4, <2>1, <2>5
  <2>7. RowItems'
    BY <1>2, <2>2, <2>4 DEF RowItems
  <2>8. ASSUME Calm' PROVE ListInv'
    <3>1. ListInv
      BY <1>2, <2>5, <2>6, <2>8 DEF Calm
    <3>2. \A d \in list : d \in LiveDocs \/ \E w \in calls' : w.op = "delete" /\ Answered(w) /\ d \in w.arg
      BY <2>1, <2>6, <3>1 DEF ListInv, Going
    <3>3. \A w \in calls' : w.op = "delete" =>
            w.arg \subseteq UsedDocs /\ (Answered(w) => w.arg \cap LiveDocs = {})
      BY <2>6, <3>1 DEF ListInv
    <3>4. \A d \in Docs : d \in InItems \/ Coming(d) => d \in InItems' \/ Coming(d)'
      <4>1. CASE c.reply = "ok"
        <5>1. PICK d \in c.body :
                /\ docOf' = [docOf EXCEPT ![f] = IF item[f] = "dropped" THEN @ ELSE d]
                /\ current' = (current /\ item[f] # "dropped" /\ docOf[f] = None)
          BY <2>2, <4>1
        <5>2. item[f] # "dropped" /\ docOf[f] = None /\ s \in {"progress", "error"}
          BY <2>4, <2>8, <5>1 DEF Calm
        <5>3. /\ \A g \in Files : item'[g] = IF g = f THEN s ELSE item[g]
              /\ \A g \in Files : docOf'[g] = IF g = f THEN d ELSE docOf[g]
          BY <1>2, <2>4, <5>1, <5>2 DEF RowItems
        <5>4. Shown \subseteq Shown' /\ f \in Shown'
          BY <2>3, <5>2, <5>3 DEF Shown
        <5>5. InItems \subseteq InItems'
          <6> SUFFICES ASSUME NEW g \in Shown, docOf[g] # None PROVE docOf[g] \in InItems'
            BY DEF InItems
          <6>1. g \in Files /\ g # f
            BY <5>2 DEF Shown
          <6>2. docOf'[g] = docOf[g] /\ g \in Shown'
            BY <5>3, <5>4, <6>1
          <6> QED
            BY <6>2 DEF InItems
        <5>6. c.body = {d}
          BY <1>1, <2>1, <4>1, <5>1 DEF CallInv, BodyOK
        <5>7. d # None => d \in InItems'
          BY <2>3, <5>3, <5>4 DEF InItems
        <5>8. \A e \in Docs : e # None
          BY DocumentsAssumption DEF Docs
        <5> QED
          BY <2>6, <5>5, <5>6, <5>7, <5>8 DEF Coming
      <4>2. CASE c.reply # "ok"
        <5>1. docOf' = docOf /\ (s \notin {"new", "dropped"} \/ s = item[f])
          BY <2>2, <2>4, <4>2
        <5>2. InItems \subseteq InItems'
          BY <1>2, <2>4, <5>1, RowChanges
        <5> QED
          BY <2>6, <4>2, <5>2 DEF Coming
      <4> QED
        BY <4>1, <4>2
    <3>5. Cardinality(UsedDocs) <= PageLimit =>
            \A d \in LiveDocs : d \in list \cup InItems' \/ Coming(d)'
      BY <3>1, <3>4 DEF ListInv, LiveDocs
    <3> QED
      BY <1>3, <2>1, <3>2, <3>3, <3>5 DEF ListInv, Going
  <2> QED
    BY <1>2, <1>3, <2>6, <2>7, <2>8 DEF DocumentsInv
<1> QED
  BY <1>9, <1>10, <1>11, <1>12 DEF DocumentsHears

-----------------------------------------------------------------------------
ConsoleInv == BrowserInv /\ SettingsInv /\ PlaygroundInv /\ DocumentsInv

LEMMA ConsoleStarts == Init => ConsoleInv
<1> SUFFICES ASSUME Init PROVE ConsoleInv
  OBVIOUS
<1>1. /\ visit \in DataPages /\ place = "login" /\ landing = "dashboard" /\ calls = {} /\ current = FALSE
      /\ keyState = [k \in Keys |-> "unused"] /\ listed = [k \in Keys |-> 0]
      /\ answer = "none" /\ debug = {} /\ ready = FALSE
      /\ rows = [d \in Docs |-> IF d = 1 THEN "live" ELSE "unused"]
      /\ item = [f \in Files |-> "new"] /\ docOf = [f \in Files |-> None]
  BY DEF Init, BrowserInit, SettingsInit, PlaygroundInit, Blank, DocumentsInit
<1>2. BrowserInv
  BY <1>1 DEF BrowserInv, Places, SignInPages
<1>3. SettingsInv
  BY <1>1 DEF SettingsInv, SettingsReads, SettingsButtons, Calm
<1>4. PlaygroundInv
  BY <1>1 DEF PlaygroundInv, SaveButton, ThresholdInv, TestInv, MirrorInv, Told, Passed, Uses
<1>5. RowsInv
  <2>1. 1 \in 0..LastDoc /\ \A d \in Docs : d <= 1 <=> d = 1
    BY DocumentsAssumption DEF Docs
  <2>2. \A d \in Docs : rows[d] # "unused" <=> d <= 1
    BY <1>1, <2>1
  <2>3. rows \in [Docs -> {"unused", "live", "gone"}]
    BY <1>1
  <2> QED
    BY <2>1, <2>2, <2>3 DEF RowsInv
<1>6. DocumentsInv
  BY <1>1, <1>5 DEF DocumentsInv, RowItems, ListReads, UploadArgs, Calm
<1> QED
  BY <1>2, <1>3, <1>4, <1>6 DEF ConsoleInv

(* A page's steps are taken only where it is visited.                      *)
LEMMA SettingsSteps ==
  ASSUME ConsoleInv, SettingsNext
  PROVE  BrowserInv' /\ SettingsInv' /\ visit' = visit /\ visit = "settings"
<1>1. BrowserInv' /\ SettingsInv' /\ visit' = visit
  BY SettingsClicked, SettingsWritten, SettingsHeard, SettingsServed DEF SettingsNext, ConsoleInv
<1>2. CASE SettingsClicks \/ \E c \in calls : SettingsHears(c)
  <2>1. place = "settings"
    BY <1>2 DEF SettingsClicks, TogglePublish, CreateKey, RevokeKey, SettingsHears, SettingsLoaded,
                KeysLoaded, PublishAnswered, KeyCreated, KeyRevoked, OnSettings
  <2> QED
    BY <1>1, <2>1 DEF ConsoleInv, BrowserInv, Places, SignInPages
<1>3. ASSUME NEW c \in calls, ServeSettings(c) PROVE visit = "settings"
  <2>1. c.op \in Ops
    BY DEF ConsoleInv, BrowserInv, CallInv
  <2> QED
    BY <1>3, <2>1 DEF ServeSettings, ServeLoadSettings, ServeListKeys, ServePatchStatus,
                      ServeCreateKey, ServeRevokeKey, Served, Ops, PageOps, Session
<1>4. CASE SettingsElsewhere
  BY <1>1, <1>4 DEF SettingsElsewhere
<1> QED
  BY <1>1, <1>2, <1>3, <1>4 DEF SettingsNext

LEMMA PlaygroundSteps ==
  ASSUME ConsoleInv, PlaygroundNext
  PROVE  BrowserInv' /\ PlaygroundInv' /\ visit' = visit /\ visit = "playground"
<1>1. BrowserInv' /\ PlaygroundInv' /\ visit' = visit
  BY PlaygroundClicked, PlaygroundShifted, PlaygroundHeard, PlaygroundServed
     DEF PlaygroundNext, ConsoleInv
<1>2. CASE PlaygroundClicks \/ \E c \in calls : PlaygroundHears(c)
  <2>1. place = "playground"
    BY <1>2 DEF PlaygroundClicks, Ask, Slide, Save, PlaygroundHears, PlaygroundLoaded,
                VerdictArrives, AnswerArrives, Saved, OnPlayground
  <2> QED
    BY <1>1, <2>1 DEF ConsoleInv, BrowserInv, Places, SignInPages
<1>3. ASSUME NEW c \in calls, ServePlayground(c) PROVE visit = "playground"
  <2>1. c.op \in Ops
    BY DEF ConsoleInv, BrowserInv, CallInv
  <2> QED
    BY <1>3, <2>1 DEF ServePlayground, ServeLoadPlayground, ReadThreshold, ServeRetrieve, ServeChat,
                      ServeSaveThreshold, Served, Searches, Tests, Ops, PageOps, Session
<1>4. CASE PlaygroundElsewhere
  BY <1>1, <1>4 DEF PlaygroundElsewhere
<1> QED
  BY <1>1, <1>2, <1>3, <1>4 DEF PlaygroundNext

LEMMA DocumentsSteps ==
  ASSUME ConsoleInv, DocumentsNext
  PROVE  BrowserInv' /\ DocumentsInv' /\ visit' = visit /\ visit = "documents"
<1>1. BrowserInv' /\ DocumentsInv' /\ visit' = visit
  BY DocumentsClicked, DocumentsWritten, DocumentsHeard, DocumentsServed
     DEF DocumentsNext, ConsoleInv
<1>2. CASE DocumentsClicks \/ \E c \in calls : DocumentsHears(c)
  <2>1. place = "documents"
    BY <1>2 DEF DocumentsClicks, Refresh, DeleteDoc, UploadFile, ToldFailed, StreamDone, StreamBreaks,
                DocumentsHears, DocumentsLoaded, ListArrives, DocDeleted, FileUploaded, OnDocuments
  <2> QED
    BY <1>1, <2>1 DEF ConsoleInv, BrowserInv, Places, SignInPages
<1>3. ASSUME NEW c \in calls, ServeDocuments(c) PROVE visit = "documents"
  <2>1. c.op \in Ops /\ visit \in DataPages
    BY DEF ConsoleInv, BrowserInv, CallInv
  <2> QED
    BY <1>3, <2>1 DEF ServeDocuments, ServeLoadDocuments, ServeList, ServeUpload, ServeDelete,
                      Served, Ops, PageOps, Session, DataPages
<1>4. CASE DocumentsElsewhere
  BY <1>1, <1>4 DEF DocumentsElsewhere
<1> QED
  BY <1>1, <1>2, <1>3, <1>4 DEF DocumentsNext

LEMMA ConsoleSteps == ConsoleInv /\ [Next]_vars => ConsoleInv'
<1> SUFFICES ASSUME ConsoleInv, [Next]_vars PROVE ConsoleInv'
  OBVIOUS
<1>1. BrowserInv /\ SettingsInv /\ PlaygroundInv /\ DocumentsInv
  BY DEF ConsoleInv
<1>2. CASE Move
  BY <1>1, <1>2, MovedOn, SettingsMoved, PlaygroundMoved, DocumentsMoved DEF ConsoleInv
<1>3. CASE Stay
  BY <1>1, <1>3, Stayed, SettingsStay, PlaygroundStay, DocumentsStay DEF ConsoleInv
<1>4. ASSUME UNCHANGED settingsVars, visit' = visit, visit # "settings" PROVE SettingsInv'
  BY <1>1, <1>4 DEF SettingsInv, settingsVars, settingsRows, settingsState
<1>5. ASSUME visit' = visit, visit # "playground" PROVE PlaygroundInv'
  BY <1>5 DEF PlaygroundInv
<1>6. ASSUME UNCHANGED documentsVars, visit' = visit, visit # "documents" PROVE DocumentsInv'
  BY <1>1, <1>6, SameRows DEF DocumentsInv, RowItems, documentsVars, documentsState
<1>7. CASE SettingsNext /\ UNCHANGED <<playgroundVars, documentsVars>>
  BY <1>1, <1>5, <1>6, <1>7, SettingsSteps DEF ConsoleInv
<1>8. CASE PlaygroundNext /\ UNCHANGED <<settingsVars, documentsVars>>
  BY <1>1, <1>4, <1>6, <1>8, PlaygroundSteps DEF ConsoleInv
<1>9. CASE DocumentsNext /\ UNCHANGED <<settingsVars, playgroundVars>>
  BY <1>1, <1>4, <1>5, <1>9, DocumentsSteps DEF ConsoleInv
<1>10. CASE UNCHANGED vars
  <2>1. /\ UNCHANGED <<visit, place, landing, calls, current>>
        /\ UNCHANGED settingsVars /\ UNCHANGED playgroundVars /\ UNCHANGED documentsVars
    BY <1>10 DEF vars, browserVars, settingsVars, playgroundVars, documentsVars
  <2>2. BrowserInv'
    BY <1>1, <2>1, OpsKept DEF BrowserInv, Places
  <2>3. SettingsInv'
    BY <1>1, <2>1 DEF SettingsInv, SettingsReads, SettingsButtons, Calm, PatchInv, KeysInv, Reported,
                      LiveKeys, Settles, Answered, settingsVars, settingsRows, settingsState
  <2>4. PlaygroundInv'
    <3>1. UNCHANGED <<bar, top, ready, threshold, debug, answer, saving, asked, torn, old, overtaken>>
      BY <2>1 DEF playgroundVars, playgroundRows, playgroundState, playgroundHistory
    <3>2. Tested /\ (Due => Due') /\ (SaveButton => SaveButton')
      BY <2>1, <3>1 DEF Tested, Due, SaveButton
    <3>3. ThresholdInv => ThresholdInv'
      BY <2>1, <3>1, <3>2, ThresholdKept
    <3> QED
      BY <1>1, <2>1, <3>1, <3>2, <3>3, TestsKept DEF PlaygroundInv
  <2>5. DocumentsInv'
    BY <1>1, <2>1, SameRows DEF DocumentsInv, RowItems, ListReads, UploadArgs, Calm, ListInv, Going,
                      Coming, Answered, InItems, Shown, documentsVars, documentsState
  <2> QED
    BY <2>2, <2>3, <2>4, <2>5 DEF ConsoleInv
<1> QED
  BY <1>2, <1>3, <1>7, <1>8, <1>9, <1>10 DEF Next

LEMMA ConsoleAlways == Spec => []ConsoleInv
BY ConsoleStarts, ConsoleSteps, PTL DEF Spec

-----------------------------------------------------------------------------
(* The settings page shows the publish state and the keys there are, each  *)
(* once, when nothing is in flight and its last reads were quiet, whatever *)
(* the overlap of its own creations, revocations and toggles.              *)
THEOREM SettingsPageIsCurrent == Spec => []SettingsAreCurrent
<1>1. ConsoleInv => SettingsAreCurrent
  <2> SUFFICES ASSUME ConsoleInv, place = "settings", current, calls = {}
               PROVE  /\ assistant = status
                      /\ \A k \in Keys : listed[k] = IF keyState[k] = "live" THEN 1 ELSE 0
    BY DEF SettingsAreCurrent
  <2>1. visit = "settings" /\ Calm
    BY DEF ConsoleInv, BrowserInv, Calm
  <2>2. PatchInv(calls, assistant, status) /\ KeysInv
    BY <2>1 DEF ConsoleInv, SettingsInv
  <2>3. assistant = status
    BY <2>2 DEF PatchInv
  <2>4. \A k \in Keys : Reported(k)
    BY <2>2 DEF KeysInv
  <2> QED
    BY <2>3, <2>4 DEF Reported
<1> QED
  BY <1>1, ConsoleAlways, PTL

(* Once the playground has heard of every save that landed, the threshold  *)
(* it holds is the stored one, also while tests and further saves run,     *)
(* unless the last value it took was read before a save landed, a save's   *)
(* answer was lost, or a save of an earlier visit landed.                  *)
THEOREM PlaygroundHoldsThreshold == Spec => []ThresholdIsPersisted
<1>1. ConsoleInv => ThresholdIsPersisted
  <2> SUFFICES ASSUME ConsoleInv, place = "playground", ready, ~overtaken,
                      \A c \in InFlight({"patch"}) : c.reply = "pending"
               PROVE  threshold = bar
    BY DEF ThresholdIsPersisted
  <2>1. visit = "playground"
    BY DEF ConsoleInv, BrowserInv, Places, SignInPages
  <2>2. ThresholdInv /\ ~Due
    BY <2>1 DEF ConsoleInv, PlaygroundInv, Due, InFlight
  <2> QED
    BY <2>2 DEF ThresholdInv
<1> QED
  BY <1>1, ConsoleAlways, PTL

(* After a test the verdict shown is of the question that was asked, and a *)
(* verdict that refuses has no generated answer beside it unless threshold *)
(* or score changed between the reads of its two calls.                    *)
THEOREM DebugMirrorsChat == Spec => []VerdictMatchesAnswer
<1>1. ConsoleInv => VerdictMatchesAnswer
  <2> SUFFICES ASSUME ConsoleInv, place = "playground", ~Running, NEW v \in debug
               PROVE  v.question = asked /\ (v.refuse /\ ~torn => answer # "generated")
    BY DEF VerdictMatchesAnswer
  <2>1. visit = "playground"
    BY DEF ConsoleInv, BrowserInv, Places, SignInPages
  <2>2. TestInv /\ (~torn => MirrorInv)
    BY <2>1 DEF ConsoleInv, PlaygroundInv
  <2>3. Told(v)
    BY DEF Told, Running, InFlight, Tests
  <2>4. v.question = asked
    BY <2>2, <2>3 DEF TestInv
  <2>5. v.refuse /\ ~torn => answer # "generated"
    BY <2>2, <2>3 DEF MirrorInv, Passed
  <2> QED
    BY <2>4, <2>5
<1> QED
  BY <1>1, ConsoleAlways, PTL

(* The documents page lists no document that is gone, and shows every      *)
(* stored one as long as a list reply could hold all there ever were, when *)
(* nothing is in flight and its last list was quiet.                       *)
THEOREM DocumentsPageShowsAll == Spec => []DocumentsAreShown
<1>1. ConsoleInv => DocumentsAreShown
  <2> SUFFICES ASSUME ConsoleInv, place = "documents", current, calls = {}
               PROVE  /\ Listed \subseteq LiveDocs
                      /\ Cardinality(UsedDocs) <= PageLimit => LiveDocs \subseteq Listed \cup InItems
    BY DEF DocumentsAreShown, UsedDocs
  <2>1. visit = "documents" /\ Calm
    BY DEF ConsoleInv, BrowserInv, Calm
  <2>2. ListInv
    BY <2>1 DEF ConsoleInv, DocumentsInv
  <2>3. list \subseteq LiveDocs
    BY <2>2 DEF ListInv, Going
  <2>4. Cardinality(UsedDocs) <= PageLimit => LiveDocs \subseteq list \cup InItems
    BY <2>2 DEF ListInv, Coming
  <2> QED
    BY <2>3, <2>4 DEF Listed
<1> QED
  BY <1>1, ConsoleAlways, PTL
=============================================================================

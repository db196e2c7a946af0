------------------------------- MODULE Access -------------------------------
(***************************************************************************)
(* Who may do what: accounts, sessions, API keys, publishing and the gate  *)
(* of the chat endpoint.  Several requests are in flight; each awaited     *)
(* database step of a handler is one action, and a transaction of          *)
(* withTenant is one action, its rows limited by row-level security.       *)
(*                                                                         *)
(* A tenant has the one assistant it is provisioned with (no route creates *)
(* another), so the assistant of tenant t is written t as well.            *)
(***************************************************************************)
EXTENDS FiniteSets

CONSTANTS Requests, Emails, Tenants, Keys, None

ASSUME NoneAssumption ==
  None \notin Tenants \cup Emails \cup Keys \cup {"DRAFT", "PUBLISHED"}

VARIABLES
  users,    \* app_user rows: email and tenant
  tenants,  \* tenant rows
  status,   \* assistant.status, by assistant
  keys,     \* api_key rows: assistant (and tenant) of each key
  minted,   \* keys that were ever generated (generateApiKey)
  sessions, \* tokens that were issued and have not expired
  call,     \* the request each caller has in flight
  revoked   \* history: keys whose revocation was answered with 204

rows == <<users, tenants, status, keys, minted>>
vars == <<rows, sessions, call, revoked>>

(* Claims of a token: `user` stands for the presence of sub.               *)
Admin(t) == [tenant |-> t, user |-> TRUE, assistant |-> None]
Consumer(t, a) == [tenant |-> t, user |-> FALSE, assistant |-> a]
Claims == {Admin(t) : t \in Tenants} \cup {Consumer(t, a) : t, a \in Tenants}

(* Variant: any token of the tenant is an admin session.                   *)
AnySession(c) == c.tenant # None

IsAdminSession(c) == c.user /\ c.assistant = None

Idle == [op |-> "idle"]
Exchanging(op, k, gone, a) == [op |-> op, key |-> k, gone |-> gone, assistant |-> a]
Chatting(op, c, a, shown) == [op |-> op, claims |-> c, assistant |-> a, shown |-> shown]

(* `gone`: the revocation was answered before the exchange began; `shown`: *)
(* the assistant was published at some moment since the chat began.        *)
Calls ==
  {Idle}
    \cup [op : {"signup"}, email : Emails]
    \cup [op : {"exchange"}, key : Keys, gone : BOOLEAN, assistant : {None}]
    \cup [op : {"resolved", "exchanged"}, key : Keys, gone : BOOLEAN, assistant : Tenants]
    \cup [op : {"patch"}, claims : Claims, assistant : Tenants,
          status : {"DRAFT", "PUBLISHED"}]
    \cup [op : {"create", "revoke"}, claims : Claims, assistant : Tenants, key : Keys]
    \cup [op : {"chat", "answered"}, claims : Claims, assistant : Tenants,
          shown : BOOLEAN]

TypeOK ==
  /\ users \subseteq [email : Emails, tenant : Tenants]
  /\ tenants \subseteq Tenants
  /\ status \in [Tenants -> {None, "DRAFT", "PUBLISHED"}]
  /\ keys \in [Keys -> Tenants \cup {None}]
  /\ minted \subseteq Keys
  /\ sessions \subseteq Claims
  /\ call \in [Requests -> Calls]
  /\ revoked \subseteq Keys

Init ==
  /\ users = {} /\ tenants = {} /\ minted = {}
  /\ status = [t \in Tenants |-> None]
  /\ keys = [k \in Keys |-> None]
  /\ sessions = {} /\ revoked = {}
  /\ call = [r \in Requests |-> Idle]

Registered(e) == \E u \in users : u.email = e

(* Rows a transaction of tenant t sees: the tenant_isolation policy.       *)
Visible(t, a) == a = t /\ status[a] # None

Begin(r, c) ==
  /\ call[r] = Idle
  /\ call' = [call EXCEPT ![r] = c]
  /\ UNCHANGED <<rows, sessions, revoked>>

End(r) == call' = [call EXCEPT ![r] = Idle]

Answered(r) ==
  /\ call[r].op \in {"exchanged", "answered"}
  /\ End(r)
  /\ UNCHANGED <<rows, sessions, revoked>>

-----------------------------------------------------------------------------
(* Signup: auth_create_tenant_and_owner looks the email up, then inserts   *)
(* the tenant, its owner and its assistant.                                *)

Signup(r, e) == ~Registered(e) /\ Begin(r, [op |-> "signup", email |-> e])

(* Variant: no unique index.                                               *)
NoUniqueIndex(e) == TRUE

(* The unique index on the email, and the row ids are fresh.               *)
EmailFree(e) == ~Registered(e)

CreateAccount(r, t) ==
  /\ call[r].op = "signup" /\ EmailFree(call[r].email)
  /\ t \notin tenants
  /\ users' = users \cup {[email |-> call[r].email, tenant |-> t]}
  /\ tenants' = tenants \cup {t}
  /\ status' = [status EXCEPT ![t] = "DRAFT"]
  /\ sessions' = sessions \cup {Admin(t)}
  /\ End(r)
  /\ UNCHANGED <<keys, minted, revoked>>

(* unique_violation: everything is rolled back, the answer is a 409.       *)
SignupLost(r) ==
  /\ call[r].op = "signup" /\ ~EmailFree(call[r].email)
  /\ End(r)
  /\ UNCHANGED <<rows, sessions, revoked>>

(* The owner's password verifies.  A login changes nothing but the tokens. *)
Login(e) ==
  /\ \E u \in users : u.email = e /\ sessions' = sessions \cup {Admin(u.tenant)}
  /\ UNCHANGED <<rows, call, revoked>>

Expire(c) ==
  /\ c \in sessions
  /\ sessions' = sessions \ {c}
  /\ UNCHANGED <<rows, call, revoked>>

-----------------------------------------------------------------------------
(* Administration: the token is verified and gated, then one transaction.  *)

MayAdminister(c) == c \in sessions /\ IsAdminSession(c)

Patch(r, c, a, s) ==
  /\ MayAdminister(c)
  /\ Begin(r, [op |-> "patch", claims |-> c, assistant |-> a, status |-> s])

(* Every chat in flight with the assistant sees it published meanwhile.    *)
Shown(a) ==
  [q \in Requests |->
     IF call[q].op = "chat" /\ call[q].assistant = a
       THEN Chatting("chat", call[q].claims, a, TRUE) ELSE call[q]]

ApplyPatch(r) ==
  LET a == call[r].assistant
      s == call[r].status
  IN /\ call[r].op = "patch"
     /\ IF Visible(call[r].claims.tenant, a)
          THEN /\ status' = [status EXCEPT ![a] = s]
               /\ call' = [(IF s = "PUBLISHED" THEN Shown(a) ELSE call)
                             EXCEPT ![r] = Idle]
          ELSE UNCHANGED status /\ End(r)
     /\ UNCHANGED <<users, tenants, keys, minted, sessions, revoked>>

CreateKey(r, c, a, k) ==
  /\ MayAdminister(c) /\ k \notin minted
  /\ call[r] = Idle
  /\ call' = [call EXCEPT ![r] = [op |-> "create", claims |-> c, assistant |-> a, key |-> k]]
  /\ minted' = minted \cup {k}
  /\ UNCHANGED <<users, tenants, status, keys, sessions, revoked>>

ApplyCreateKey(r) ==
  LET a == call[r].assistant
  IN /\ call[r].op = "create"
     /\ keys' = IF Visible(call[r].claims.tenant, a)
                  THEN [keys EXCEPT ![call[r].key] = a] ELSE keys
     /\ End(r)
     /\ UNCHANGED <<users, tenants, status, minted, sessions, revoked>>

RevokeKey(r, c, a, k) ==
  /\ MayAdminister(c) /\ k \in minted
  /\ Begin(r, [op |-> "revoke", claims |-> c, assistant |-> a, key |-> k])

(* Variant: the count is not looked at, a 404 becomes a 204.               *)
ApplyRevokeKeyUncounted(r) ==
  LET k == call[r].key
      a == call[r].assistant
      matches == Visible(call[r].claims.tenant, a) /\ keys[k] = a
  IN /\ call[r].op = "revoke"
     /\ keys' = IF matches THEN [keys EXCEPT ![k] = None] ELSE keys
     /\ revoked' = revoked \cup {k}
     /\ End(r)
     /\ UNCHANGED <<users, tenants, status, minted, sessions>>

(* deleteMany: 204 when a row went, 404 when none matched.                 *)
ApplyRevokeKey(r) ==
  LET k == call[r].key
      a == call[r].assistant
      matches == Visible(call[r].claims.tenant, a) /\ keys[k] = a
  IN /\ call[r].op = "revoke"
     /\ keys' = IF matches THEN [keys EXCEPT ![k] = None] ELSE keys
     /\ revoked' = IF matches THEN revoked \cup {k} ELSE revoked
     /\ End(r)
     /\ UNCHANGED <<users, tenants, status, minted, sessions>>

-----------------------------------------------------------------------------
(* Consumers: a key is exchanged for a token, and the token is chatted     *)
(* with.                                                                   *)

Exchange(r, k) ==
  /\ k \in minted
  /\ Begin(r, Exchanging("exchange", k, k \in revoked, None))

(* auth_resolve_api_key                                                    *)
ResolveKey(r) ==
  LET a == keys[call[r].key]
  IN /\ call[r].op = "exchange"
     /\ call' = [call EXCEPT ![r] =
                   IF a = None THEN Idle ELSE Exchanging("resolved", @.key, @.gone, a)]
     /\ UNCHANGED <<rows, sessions, revoked>>

(* The published check, then the signed token.                             *)
MintToken(r) ==
  LET a == call[r].assistant
  IN /\ call[r].op = "resolved"
     /\ IF Visible(a, a) /\ status[a] = "PUBLISHED"
          THEN /\ sessions' = sessions \cup {Consumer(a, a)}
               /\ call' = [call EXCEPT ![r] = Exchanging("exchanged", @.key, @.gone, a)]
          ELSE UNCHANGED sessions /\ End(r)
     /\ UNCHANGED <<rows, revoked>>

(* tenant.assistantId ?? body.assistantId                                  *)
Target(c, a) == IF c.assistant # None THEN c.assistant ELSE a

Chat(r, c, a) ==
  /\ c \in sessions
  /\ Begin(r, Chatting("chat", c, Target(c, a), status[Target(c, a)] = "PUBLISHED"))

(* Variant: the status is checked only when the key is exchanged.          *)
MayAnswerUnchecked(c, a) == Visible(c.tenant, a)

MayAnswer(c, a) ==
  /\ Visible(c.tenant, a)
  /\ c.assistant # None => status[a] = "PUBLISHED"

LoadAssistant(r) ==
  /\ call[r].op = "chat"
  /\ call' = [call EXCEPT ![r] =
                IF MayAnswer(@.claims, @.assistant)
                  THEN Chatting("answered", @.claims, @.assistant, @.shown) ELSE Idle]
  /\ UNCHANGED <<rows, sessions, revoked>>

Step(r) ==
  \/ \E e \in Emails : Signup(r, e)
  \/ \E t \in Tenants : CreateAccount(r, t)
  \/ SignupLost(r)
  \/ \E c \in Claims, a \in Tenants :
       \/ \E s \in {"DRAFT", "PUBLISHED"} : Patch(r, c, a, s)
       \/ \E k \in Keys : CreateKey(r, c, a, k) \/ RevokeKey(r, c, a, k)
       \/ Chat(r, c, a)
  \/ ApplyPatch(r)
  \/ ApplyRevokeKey(r)
  \/ ApplyCreateKey(r)
  \/ \E k \in Keys : Exchange(r, k)
  \/ ResolveKey(r)
  \/ MintToken(r)
  \/ LoadAssistant(r)
  \/ Answered(r)

Next ==
  \/ \E r \in Requests : Step(r)
  \/ \E e \in Emails : Login(e)
  \/ \E c \in Claims : Expire(c)

Spec == Init /\ [][Next]_vars

-----------------------------------------------------------------------------
(* Two people who sign up with one email at the same moment, each past the *)
(* lookup, leave one account, and every tenant has exactly one owner and   *)
(* its assistant: nothing of the loser's signup stays.                     *)
AccountsAreWhole ==
  /\ \A u, v \in users : u.email = v.email => u = v
  /\ \A t \in tenants : Cardinality({u \in users : u.tenant = t}) = 1 /\ status[t] # None

(* A key whose revocation was answered before an exchange began mints no   *)
(* token, whichever requests for other assistants are answered meanwhile.  *)
RevocationIsHonoured == \A r \in Requests : call[r].op = "exchanged" => ~call[r].gone

(* A consumer whose chat began after the assistant was unpublished gets no *)
(* answer, though its token was minted while it was published.             *)
UnpublishIsHonoured ==
  \A r \in Requests :
    call[r].op = "answered" /\ call[r].claims.assistant # None => call[r].shown

(* An assistant's status and its keys change only by a request that an     *)
(* admin session of its own tenant sent, or by the signup that created it. *)
OnlyOwnersAdminister ==
  [][\A a \in tenants :
       \/ status'[a] # status[a]
       \/ \E k \in Keys : keys'[k] # keys[k] /\ a \in {keys[k], keys'[k]}
       => \E r \in Requests :
            /\ call[r].op \in {"patch", "create", "revoke"}
            /\ call[r].claims = Admin(a)
            /\ call'[r] = Idle]_vars
=============================================================================

---------------------------- MODULE AccessProofs ----------------------------
(***************************************************************************)
(* The properties of Access, proved for every number of requests, emails,  *)
(* tenants and keys.                                                       *)
(***************************************************************************)
EXTENDS Access, FiniteSetTheorems, TLAPS

(* What a call that is at some step carries.                               *)
Begun == [op : {"exchange"}, key : Keys, gone : BOOLEAN, assistant : {None}]
Resolved ==
  [op : {"resolved", "exchanged"}, key : Keys, gone : BOOLEAN, assistant : Tenants]
Patches ==
  [op : {"patch"}, claims : Claims, assistant : Tenants, status : {"DRAFT", "PUBLISHED"}]
KeyCalls ==
  [op : {"create", "revoke"}, claims : Claims, assistant : Tenants, key : Keys]
Chats ==
  [op : {"chat", "answered"}, claims : Claims, assistant : Tenants, shown : BOOLEAN]

LEMMA CallShape ==
  ASSUME TypeOK, NEW r \in Requests
  PROVE  /\ call[r].op = "signup" => call[r].email \in Emails
         /\ call[r].op = "exchange" => call[r] \in Begun
         /\ call[r].op \in {"resolved", "exchanged"} => call[r] \in Resolved
         /\ call[r].op = "patch" => call[r] \in Patches
         /\ call[r].op \in {"create", "revoke"} => call[r] \in KeyCalls
         /\ call[r].op \in {"chat", "answered"} => call[r] \in Chats
<1>1. call[r] \in Calls
  BY DEF TypeOK
<1>2. CASE call[r] = Idle
  BY <1>2 DEF Idle
<1>3. CASE call[r] \in [op : {"signup"}, email : Emails]
  BY <1>3
<1>4. CASE call[r] \in Begun \cup Resolved
  BY <1>4 DEF Begun, Resolved
<1>5. CASE call[r] \in Patches
  BY <1>5 DEF Patches
<1>6. CASE call[r] \in KeyCalls
  BY <1>6 DEF KeyCalls
<1>7. CASE call[r] \in Chats
  BY <1>7 DEF Chats
<1> QED
  BY <1>1, <1>2, <1>3, <1>4, <1>5, <1>6, <1>7
     DEF Calls, Begun, Resolved, Patches, KeyCalls, Chats

LEMMA ClaimsShape ==
  ASSUME NEW c \in Claims
  PROVE  /\ c.tenant \in Tenants
         /\ c.assistant \in Tenants \cup {None}
         /\ IsAdminSession(c) => c = Admin(c.tenant)
BY NoneAssumption DEF Claims, Admin, Consumer, IsAdminSession

-----------------------------------------------------------------------------
(* What TypeOK, about claims and calls, needs of a step: one lemma for     *)
(* every action.                                                           *)
LEMMA TypeInit == Init => TypeOK
BY DEF Init, TypeOK, Calls

LEMMA TypeStep ==
  ASSUME TypeOK, NEW r \in Requests, Step(r)
  PROVE  TypeOK'
<1> USE NoneAssumption DEF TypeOK, rows, Begin, End
<1>1. ASSUME NEW e \in Emails, Signup(r, e) PROVE TypeOK'
  BY <1>1 DEF Signup, Calls
<1>2. ASSUME NEW t \in Tenants, CreateAccount(r, t) PROVE TypeOK'
  <2>1. call[r].email \in Emails
    BY <1>2, CallShape DEF CreateAccount
  <2>2. call' \in [Requests -> Calls]
    BY <1>2 DEF CreateAccount, Calls
  <2>3. sessions' \subseteq Claims
    BY <1>2 DEF CreateAccount, Claims
  <2> QED
    BY <1>2, <2>1, <2>2, <2>3 DEF CreateAccount
<1>3. CASE SignupLost(r)
  BY <1>3 DEF SignupLost, Calls
<1>4. ASSUME NEW c \in Claims, NEW a \in Tenants, NEW s \in {"DRAFT", "PUBLISHED"},
             Patch(r, c, a, s)
      PROVE  TypeOK'
  BY <1>4 DEF Patch, Calls
<1>5. ASSUME NEW c \in Claims, NEW a \in Tenants, NEW k \in Keys,
             CreateKey(r, c, a, k) \/ RevokeKey(r, c, a, k)
      PROVE  TypeOK'
  BY <1>5 DEF CreateKey, RevokeKey, Calls
<1>6. ASSUME NEW c \in Claims, NEW a \in Tenants, Chat(r, c, a) PROVE TypeOK'
  <2>1. Target(c, a) \in Tenants
    BY ClaimsShape DEF Target
  <2> QED
    BY <1>6, <2>1 DEF Chat, Chatting, Calls
<1>7. CASE ApplyPatch(r)
  <2>1. call[r] \in Patches
    BY <1>7, CallShape DEF ApplyPatch
  <2>2. Shown(call[r].assistant) \in [Requests -> Calls]
    <3> SUFFICES ASSUME NEW q \in Requests
                 PROVE  Shown(call[r].assistant)[q] \in Calls
      BY DEF Shown
    <3>1. CASE call[q].op = "chat"
      <4>1. call[q] \in Chats
        BY <3>1, CallShape
      <4>2. \A a \in Tenants : Chatting("chat", call[q].claims, a, TRUE) \in Chats
        BY <4>1 DEF Chats, Chatting
      <4>3. call[r].assistant \in Tenants
        BY <2>1 DEF Patches
      <4> QED
        BY <4>2, <4>3 DEF Shown, Calls, Chats
    <3>2. CASE call[q].op # "chat"
      BY <3>2 DEF Shown
    <3> QED
      BY <3>1, <3>2
  <2>3. call' \in [Requests -> Calls]
    BY <1>7, <2>2 DEF ApplyPatch, Calls
  <2> QED
    BY <1>7, <2>1, <2>3 DEF ApplyPatch, Patches
<1>8. CASE ApplyRevokeKey(r)
  <2>1. call[r] \in KeyCalls
    BY <1>8, CallShape DEF ApplyRevokeKey
  <2>2. call' \in [Requests -> Calls]
    BY <1>8 DEF ApplyRevokeKey, Calls
  <2> QED
    BY <1>8, <2>1, <2>2 DEF ApplyRevokeKey, KeyCalls
<1>9. CASE ApplyCreateKey(r)
  <2>1. call[r] \in KeyCalls
    BY <1>9, CallShape DEF ApplyCreateKey
  <2>2. call' \in [Requests -> Calls]
    BY <1>9 DEF ApplyCreateKey, Calls
  <2> QED
    BY <1>9, <2>1, <2>2 DEF ApplyCreateKey, KeyCalls
<1>10. ASSUME NEW k \in Keys, Exchange(r, k) PROVE TypeOK'
  BY <1>10 DEF Exchange, Exchanging, Calls
<1>11. CASE ResolveKey(r)
  <2>1. call[r] \in Begun
    BY <1>11, CallShape DEF ResolveKey
  <2>2. call'[r] \in Resolved \cup {Idle}
    BY <1>11, <2>1 DEF ResolveKey, Exchanging, Begun, Resolved
  <2> QED
    BY <1>11, <2>2 DEF ResolveKey, Calls, Resolved
<1>12. CASE MintToken(r)
  <2>1. call[r] \in Resolved
    BY <1>12, CallShape DEF MintToken
  <2>2. call'[r] \in Resolved \cup {Idle}
    BY <1>12, <2>1 DEF MintToken, Exchanging, Resolved
  <2>3. sessions' \subseteq Claims
    BY <1>12, <2>1 DEF MintToken, Resolved, Claims
  <2> QED
    BY <1>12, <2>2, <2>3 DEF MintToken, Calls, Resolved
<1>13. CASE LoadAssistant(r)
  <2>1. call[r] \in Chats
    BY <1>13, CallShape DEF LoadAssistant
  <2>2. call'[r] \in Chats \cup {Idle}
    BY <1>13, <2>1 DEF LoadAssistant, Chatting, Chats
  <2> QED
    BY <1>13, <2>2 DEF LoadAssistant, Calls, Chats
<1>14. CASE Answered(r)
  BY <1>14 DEF Answered, Calls
<1> QED
  BY <1>1, <1>2, <1>3, <1>4, <1>5, <1>6, <1>7, <1>8, <1>9, <1>10, <1>11, <1>12,
     <1>13, <1>14 DEF Step

LEMMA TypeNext == TypeOK /\ [Next]_vars => TypeOK'
<1> SUFFICES ASSUME TypeOK, [Next]_vars PROVE TypeOK'
  OBVIOUS
<1>1. ASSUME NEW r \in Requests, Step(r) PROVE TypeOK'
  BY <1>1, TypeStep
<1>2. ASSUME NEW e \in Emails, Login(e) PROVE TypeOK'
  BY <1>2 DEF Login, TypeOK, rows, Claims
<1>3. ASSUME NEW c \in Claims, Expire(c) PROVE TypeOK'
  BY <1>3 DEF Expire, TypeOK, rows
<1>4. CASE UNCHANGED vars
  BY <1>4 DEF vars, rows, TypeOK
<1> QED
  BY <1>1, <1>2, <1>3, <1>4 DEF Next

(* Every variable of the accounts, sessions and keys keeps its type; a     *)
(* token names a tenant and at most its one assistant.                     *)
THEOREM TypeCorrect == Spec => []TypeOK
BY TypeInit, TypeNext, PTL DEF Spec

-----------------------------------------------------------------------------
(* Accounts.  A tenant has a row, an owner and an assistant, or nothing.   *)
AccountInv ==
  /\ \A u, v \in users : u.email = v.email => u = v
  /\ \A u, v \in users : u.tenant = v.tenant => u = v
  /\ \A t \in Tenants : t \in tenants <=> \E u \in users : u.tenant = t
  /\ \A t \in Tenants : t \in tenants <=> status[t] # None

LEMMA AccountStep ==
  ASSUME TypeOK, AccountInv, NEW r \in Requests, Step(r)
  PROVE  AccountInv'
<1>1. ASSUME NEW t \in Tenants, CreateAccount(r, t) PROVE AccountInv'
  <2> DEFINE u == [email |-> call[r].email, tenant |-> t]
  <2>1. users' = users \cup {u} /\ tenants' = tenants \cup {t}
        /\ status' = [status EXCEPT ![t] = "DRAFT"]
    BY <1>1 DEF CreateAccount
  <2>2. \A v \in users : v.email # u.email /\ v.tenant # t
    BY <1>1 DEF CreateAccount, EmailFree, Registered, AccountInv, TypeOK
  <2>3. u.email = call[r].email /\ u.tenant = t
    OBVIOUS
  <2> HIDE DEF u
  <2>4. \A v, w \in users' : v.email = w.email => v = w
    BY <2>1, <2>2 DEF AccountInv
  <2>5. \A v, w \in users' : v.tenant = w.tenant => v = w
    BY <2>1, <2>2, <2>3 DEF AccountInv
  <2>6. \A s \in Tenants : s \in tenants' <=> \E v \in users' : v.tenant = s
    BY <2>1, <2>3 DEF AccountInv
  <2>7. \A s \in Tenants : s \in tenants' <=> status'[s] # None
    BY <2>1, NoneAssumption DEF AccountInv, TypeOK
  <2> QED
    BY <2>4, <2>5, <2>6, <2>7 DEF AccountInv
<1>2. CASE ApplyPatch(r)
  <2>1. call[r] \in Patches
    BY <1>2, CallShape DEF ApplyPatch
  <2>2. UNCHANGED <<users, tenants>>
    BY <1>2 DEF ApplyPatch
  <2>3. \A t \in Tenants : status'[t] # None <=> status[t] # None
    BY <1>2, <2>1, NoneAssumption DEF ApplyPatch, Patches, Visible, TypeOK
  <2> QED
    BY <2>2, <2>3 DEF AccountInv
<1>3. CASE UNCHANGED <<users, tenants, status>>
  BY <1>3 DEF AccountInv
<1> QED
  BY <1>1, <1>2, <1>3
     DEF Step, Signup, SignupLost, Patch, CreateKey, RevokeKey, Chat, Begin, End, rows,
         ApplyRevokeKey, ApplyCreateKey, Exchange, ResolveKey, MintToken, LoadAssistant,
         Answered

LEMMA AccountNext == TypeOK /\ AccountInv /\ [Next]_vars => AccountInv'
BY AccountStep DEF Next, Login, Expire, vars, rows, AccountInv

LEMMA AccountInvariant == Spec => []AccountInv
<1>1. Init => AccountInv
  BY DEF Init, AccountInv
<1> QED
  BY <1>1, AccountNext, TypeCorrect, PTL DEF Spec

(* Concurrent signups with one email leave one account, and a tenant is    *)
(* never without its one owner or its assistant.                           *)
THEOREM AccountsStayWhole == Spec => []AccountsAreWhole
<1>1. AccountInv /\ TypeOK => AccountsAreWhole
  <2> SUFFICES ASSUME AccountInv, TypeOK, NEW t \in tenants
               PROVE  Cardinality({u \in users : u.tenant = t}) = 1 /\ status[t] # None
    BY DEF AccountsAreWhole, AccountInv
  <2>1. t \in Tenants
    BY DEF TypeOK
  <2>2. PICK u \in users : u.tenant = t
    BY <2>1 DEF AccountInv
  <2>3. {v \in users : v.tenant = t} = {u}
    BY <2>2 DEF AccountInv
  <2> QED
    BY <2>1, <2>3, FS_Singleton DEF AccountInv
<1> QED
  BY <1>1, AccountInvariant, TypeCorrect, PTL

-----------------------------------------------------------------------------
(* Keys.  A key that is about to be stored has no row yet and is stored by *)
(* one request only; a revoked key is never stored again; and an exchange  *)
(* that began after its key's revocation does not get past resolving it.   *)
Creating(r, k) == call[r].op = "create" /\ call[r].key = k

KeyInv ==
  /\ \A k \in Keys : keys[k] # None => k \in minted
  /\ \A k \in revoked : k \in minted /\ keys[k] = None
  /\ \A r \in Requests, k \in Keys : Creating(r, k) =>
       k \in minted \ revoked /\ keys[k] = None
  /\ \A r, q \in Requests, k \in Keys : Creating(r, k) /\ Creating(q, k) => r = q
  /\ \A r \in Requests :
       /\ call[r].op = "exchange" /\ call[r].gone => call[r].key \in revoked
       /\ call[r].op \in {"resolved", "exchanged"} => ~call[r].gone

(* A step that leaves keys alone and sets the call of r to one that        *)
(* neither creates nor exchanges.                                          *)
LEMMA KeyFrame ==
  ASSUME KeyInv, NEW r \in Requests,
         UNCHANGED <<keys, minted, revoked>>,
         \A q \in Requests \ {r} :
           \/ call'[q] = call[q]
           \/ call[q].op = "chat" /\ call'[q].op = "chat",
         call'[r].op \notin {"create", "exchange", "resolved", "exchanged"}
  PROVE  KeyInv'
<1>1. \A q \in Requests, k \in Keys : Creating(q, k)' => Creating(q, k)
  BY DEF Creating
<1>2. \A q \in Requests :
        call'[q].op \in {"exchange", "resolved", "exchanged"} => call'[q] = call[q]
  OBVIOUS
<1> QED
  BY <1>1, <1>2 DEF KeyInv

LEMMA KeyStep ==
  ASSUME TypeOK, KeyInv, NEW r \in Requests, Step(r)
  PROVE  KeyInv'
<1> USE DEF rows, Begin, End, Idle
<1>1. ASSUME NEW e \in Emails, Signup(r, e) PROVE KeyInv'
  BY <1>1, KeyFrame DEF Signup, TypeOK
<1>2. ASSUME NEW t \in Tenants, CreateAccount(r, t) PROVE KeyInv'
  BY <1>2, KeyFrame DEF CreateAccount, TypeOK
<1>3. CASE SignupLost(r)
  BY <1>3, KeyFrame DEF SignupLost, TypeOK
<1>4. ASSUME NEW c \in Claims, NEW a \in Tenants, NEW s \in {"DRAFT", "PUBLISHED"},
             Patch(r, c, a, s)
      PROVE  KeyInv'
  BY <1>4, KeyFrame DEF Patch, TypeOK
<1>5. ASSUME NEW c \in Claims, NEW a \in Tenants, NEW k \in Keys, CreateKey(r, c, a, k)
      PROVE  KeyInv'
  <2>1. /\ call'[r].op = "create" /\ call'[r].key = k
        /\ \A q \in Requests \ {r} : call'[q] = call[q]
        /\ k \notin minted /\ minted' = minted \cup {k}
        /\ UNCHANGED <<keys, revoked>>
    BY <1>5 DEF CreateKey, TypeOK
  <2>2. \A q \in Requests, j \in Keys :
          Creating(q, j)' <=> (q = r /\ j = k) \/ (q # r /\ Creating(q, j))
    BY <2>1 DEF Creating
  <2>3. keys[k] = None /\ k \notin revoked
    BY <2>1 DEF KeyInv
  <2>4. \A q \in Requests : ~Creating(q, k)
    BY <2>1 DEF KeyInv
  <2> QED
    BY <2>1, <2>2, <2>3, <2>4 DEF KeyInv, TypeOK
<1>6. ASSUME NEW c \in Claims, NEW a \in Tenants, NEW k \in Keys, RevokeKey(r, c, a, k)
      PROVE  KeyInv'
  BY <1>6, KeyFrame DEF RevokeKey, TypeOK
<1>7. ASSUME NEW c \in Claims, NEW a \in Tenants, Chat(r, c, a) PROVE KeyInv'
  BY <1>7, KeyFrame DEF Chat, Chatting, TypeOK
<1>8. CASE ApplyPatch(r)
  <2>1. call'[r] = Idle
    BY <1>8 DEF ApplyPatch, Shown, TypeOK
  <2> DEFINE shown == Shown(call[r].assistant)
  <2>3. /\ DOMAIN shown = Requests
        /\ \A q \in Requests :
             shown[q] = call[q] \/ (call[q].op = "chat" /\ shown[q].op = "chat")
    BY DEF Shown, Chatting
  <2>4. \/ call' = [shown EXCEPT ![r] = Idle]
        \/ call' = [call EXCEPT ![r] = Idle]
    BY <1>8 DEF ApplyPatch
  <2> HIDE DEF shown
  <2>2. \A q \in Requests \ {r} :
          call'[q] = call[q] \/ (call[q].op = "chat" /\ call'[q].op = "chat")
    <3> SUFFICES ASSUME NEW q \in Requests \ {r}
                 PROVE  \/ call'[q] = call[q]
                        \/ call[q].op = "chat" /\ call'[q].op = "chat"
      OBVIOUS
    <3>1. call'[q] = shown[q] \/ call'[q] = call[q]
      BY <2>3, <2>4 DEF TypeOK
    <3> QED
      BY <2>3, <3>1
  <2> QED
    BY <1>8, <2>1, <2>2, KeyFrame DEF ApplyPatch
<1>9. CASE ApplyRevokeKey(r)
  <2> DEFINE k == call[r].key
  <2>1. k \in Keys /\ call[r].assistant \in Tenants
    BY <1>9, CallShape DEF ApplyRevokeKey, KeyCalls
  <2>2. \A q \in Requests, j \in Keys : Creating(q, j)' => q # r /\ Creating(q, j)
    BY <1>9 DEF ApplyRevokeKey, Creating, TypeOK
  <2>3. \A q \in Requests :
          call'[q].op \in {"exchange", "resolved", "exchanged"} => call'[q] = call[q]
    BY <1>9 DEF ApplyRevokeKey, TypeOK
  <2>4. CASE keys[k] = call[r].assistant /\ Visible(call[r].claims.tenant, call[r].assistant)
    <3>1. /\ keys' = [keys EXCEPT ![k] = None] /\ revoked' = revoked \cup {k}
          /\ UNCHANGED minted
      BY <1>9, <2>4 DEF ApplyRevokeKey
    <3>2. keys[k] # None
      BY <2>1, <2>4, NoneAssumption
    <3> HIDE DEF k
    <3> QED
      BY <2>1, <2>2, <2>3, <3>1, <3>2 DEF KeyInv, TypeOK
  <2>5. CASE ~(keys[k] = call[r].assistant
                 /\ Visible(call[r].claims.tenant, call[r].assistant))
    <3>1. UNCHANGED <<keys, revoked, minted>>
      BY <1>9, <2>5 DEF ApplyRevokeKey
    <3> QED
      BY <2>2, <2>3, <3>1 DEF KeyInv
  <2> QED
    BY <2>4, <2>5
<1>10. CASE ApplyCreateKey(r)
  <2>1. PICK k \in Keys : call[r].key = k /\ Creating(r, k)
    BY <1>10, CallShape DEF ApplyCreateKey, KeyCalls, Creating
  <2>2. \A q \in Requests, j \in Keys : Creating(q, j)' => q # r /\ Creating(q, j)
    BY <1>10 DEF ApplyCreateKey, Creating, TypeOK
  <2>3. \A q \in Requests :
          call'[q].op \in {"exchange", "resolved", "exchanged"} => call'[q] = call[q]
    BY <1>10 DEF ApplyCreateKey, TypeOK
  <2>4. /\ \A j \in Keys \ {k} : keys'[j] = keys[j]
        /\ UNCHANGED <<minted, revoked>>
    BY <1>10, <2>1 DEF ApplyCreateKey, TypeOK
  <2>5. k \in minted \ revoked /\ \A q \in Requests : ~Creating(q, k)'
    BY <2>1, <2>2 DEF KeyInv
  <2>6. \A j \in Keys : keys'[j] # None => j \in minted'
    BY <2>4, <2>5 DEF KeyInv
  <2>7. \A j \in revoked' : j \in minted' /\ keys'[j] = None
    BY <2>4, <2>5 DEF KeyInv, TypeOK
  <2>8. \A q \in Requests, j \in Keys : Creating(q, j)' =>
          j \in (minted \ revoked)' /\ keys'[j] = None
    BY <2>2, <2>4, <2>5 DEF KeyInv
  <2>9. \A p, q \in Requests, j \in Keys : Creating(p, j)' /\ Creating(q, j)' => p = q
    BY <2>2 DEF KeyInv
  <2>10. \A q \in Requests :
           /\ call'[q].op = "exchange" /\ call'[q].gone => call'[q].key \in revoked'
           /\ call'[q].op \in {"resolved", "exchanged"} => ~call'[q].gone
    BY <2>3, <2>4 DEF KeyInv
  <2> QED
    BY <2>6, <2>7, <2>8, <2>9, <2>10 DEF KeyInv
<1>11. ASSUME NEW k \in Keys, Exchange(r, k) PROVE KeyInv'
  <2>1. /\ call'[r] = Exchanging("exchange", k, k \in revoked, None)
        /\ \A q \in Requests \ {r} : call'[q] = call[q]
        /\ UNCHANGED <<keys, minted, revoked>>
    BY <1>11 DEF Exchange, TypeOK
  <2>2. /\ call'[r].op = "exchange" /\ call'[r].key = k
        /\ call'[r].gone = (k \in revoked)
    <3> DEFINE g == k \in revoked
    <3>1. call'[r] = Exchanging("exchange", k, g, None)
      BY <2>1
    <3> HIDE DEF g
    <3>2. call'[r].op = "exchange" /\ call'[r].key = k /\ call'[r].gone = g
      BY <3>1 DEF Exchanging
    <3> QED
      BY <3>2 DEF g
  <2>3. \A q \in Requests, j \in Keys : Creating(q, j)' => Creating(q, j)
    BY <2>1, <2>2 DEF Creating
  <2> QED
    BY <2>1, <2>2, <2>3 DEF KeyInv
<1>12. CASE ResolveKey(r)
  <2>1. call[r] \in Begun
    BY <1>12, CallShape DEF ResolveKey
  <2>2. /\ \/ call'[r] = Idle
           \/ /\ keys[call[r].key] # None
              /\ call'[r].op = "resolved" /\ call'[r].gone = call[r].gone
        /\ \A q \in Requests \ {r} : call'[q] = call[q]
        /\ UNCHANGED <<keys, minted, revoked>>
    BY <1>12 DEF ResolveKey, Exchanging, TypeOK
  <2> QED
    BY <2>1, <2>2 DEF KeyInv, Creating, Begun
<1>13. CASE MintToken(r)
  <2>1. /\ call[r].op = "resolved"
        /\ \/ call'[r] = Idle
           \/ call'[r].op = "exchanged" /\ call'[r].gone = call[r].gone
        /\ \A q \in Requests \ {r} : call'[q] = call[q]
        /\ UNCHANGED <<keys, minted, revoked>>
    BY <1>13 DEF MintToken, Exchanging, TypeOK
  <2> QED
    BY <2>1 DEF KeyInv, Creating
<1>14. CASE LoadAssistant(r)
  BY <1>14, KeyFrame DEF LoadAssistant, Chatting, TypeOK
<1>15. CASE Answered(r)
  BY <1>15, KeyFrame DEF Answered, TypeOK
<1> QED
  BY <1>1, <1>2, <1>3, <1>4, <1>5, <1>6, <1>7, <1>8, <1>9, <1>10, <1>11, <1>12,
     <1>13, <1>14, <1>15 DEF Step

LEMMA KeyNext == TypeOK /\ KeyInv /\ [Next]_vars => KeyInv'
BY KeyStep DEF Next, Login, Expire, vars, rows, KeyInv, Creating

(* A key whose revocation was answered before an exchange of it began      *)
(* mints no token.                                                         *)
THEOREM RevocationHolds == Spec => []RevocationIsHonoured
<1>1. Init => KeyInv
  BY DEF Init, KeyInv, Creating, Idle
<1>2. KeyInv => RevocationIsHonoured
  BY DEF KeyInv, RevocationIsHonoured
<1> QED
  BY <1>1, <1>2, KeyNext, TypeCorrect, PTL DEF Spec

-----------------------------------------------------------------------------
(* Publishing.  A chat that has not loaded its assistant yet was shown it  *)
(* published if it is published now; loading it keeps what was shown.      *)
ShownInv ==
  \A r \in Requests :
    /\ call[r].op = "chat" /\ status[call[r].assistant] = "PUBLISHED" => call[r].shown
    /\ call[r].op = "answered" /\ call[r].claims.assistant # None => call[r].shown

(* A step that publishes nothing and sets the call of r to one that is no  *)
(* chat.                                                                   *)
LEMMA ShownFrame ==
  ASSUME TypeOK, ShownInv, NEW r \in Requests,
         \A a \in Tenants : status'[a] = "PUBLISHED" => status[a] = "PUBLISHED",
         \A q \in Requests \ {r} : call'[q] = call[q],
         call'[r].op \notin {"chat", "answered"}
  PROVE  ShownInv'
<1>1. \A q \in Requests : call[q].op = "chat" => call[q].assistant \in Tenants
  BY CallShape DEF Chats
<1> QED
  BY <1>1 DEF ShownInv

LEMMA ShownStep ==
  ASSUME TypeOK, ShownInv, NEW r \in Requests, Step(r)
  PROVE  ShownInv'
<1> USE DEF rows, Begin, End, Idle
<1>1. ASSUME NEW e \in Emails, Signup(r, e) PROVE ShownInv'
  BY <1>1, ShownFrame DEF Signup, TypeOK
<1>2. ASSUME NEW t \in Tenants, CreateAccount(r, t) PROVE ShownInv'
  BY <1>2, ShownFrame DEF CreateAccount, TypeOK
<1>3. CASE SignupLost(r)
  BY <1>3, ShownFrame DEF SignupLost, TypeOK
<1>4. ASSUME NEW c \in Claims, NEW a \in Tenants, NEW s \in {"DRAFT", "PUBLISHED"},
             Patch(r, c, a, s)
      PROVE  ShownInv'
  BY <1>4, ShownFrame DEF Patch, TypeOK
<1>5. ASSUME NEW c \in Claims, NEW a \in Tenants, NEW k \in Keys,
             CreateKey(r, c, a, k) \/ RevokeKey(r, c, a, k)
      PROVE  ShownInv'
  BY <1>5, ShownFrame DEF CreateKey, RevokeKey, TypeOK
<1>6. ASSUME NEW c \in Claims, NEW a \in Tenants, Chat(r, c, a) PROVE ShownInv'
  <2> DEFINE b == Target(c, a)
             shown == status[b] = "PUBLISHED"
  <2>1. call'[r] = Chatting("chat", c, b, shown)
    BY <1>6 DEF Chat, TypeOK
  <2>2. (\A q \in Requests \ {r} : call'[q] = call[q]) /\ UNCHANGED status
    BY <1>6 DEF Chat, TypeOK
  <2> HIDE DEF shown, b
  <2>3. call'[r].op = "chat" /\ call'[r].assistant = b /\ call'[r].shown = shown
    BY <2>1 DEF Chatting
  <2> QED
    BY <2>2, <2>3 DEF ShownInv, shown
<1>7. CASE ApplyPatch(r)
  <2>1. PICK a \in Tenants, s \in {"DRAFT", "PUBLISHED"} :
          call[r].assistant = a /\ call[r].status = s
    BY <1>7, CallShape DEF ApplyPatch, Patches
  <2>2. CASE Visible(call[r].claims.tenant, a) /\ s = "PUBLISHED"
    <3> DEFINE shown == Shown(a)
    <3>1. /\ DOMAIN shown = Requests
          /\ \A q \in Requests :
               \/ /\ call[q].op = "chat" /\ call[q].assistant = a
                  /\ shown[q].op = "chat" /\ shown[q].shown
               \/ /\ ~(call[q].op = "chat" /\ call[q].assistant = a)
                  /\ shown[q] = call[q]
      BY DEF Shown, Chatting
    <3>2. call' = [shown EXCEPT ![r] = Idle] /\ status' = [status EXCEPT ![a] = s]
      BY <1>7, <2>1, <2>2 DEF ApplyPatch
    <3> HIDE DEF shown
    <3>3. \A q \in Requests \ {r} : call'[q] = shown[q]
      BY <3>1, <3>2
    <3>4. call'[r].op = "idle"
      BY <3>1, <3>2
    <3>5. \A b \in Tenants \ {a} : status'[b] = status[b]
      BY <3>2 DEF TypeOK
    <3>6. \A q \in Requests : call[q].op = "chat" => call[q].assistant \in Tenants
      BY CallShape DEF Chats
    <3> QED
      BY <3>1, <3>3, <3>4, <3>5, <3>6 DEF ShownInv
  <2>3. CASE ~(Visible(call[r].claims.tenant, a) /\ s = "PUBLISHED")
    <3>1. \A b \in Tenants : status'[b] = "PUBLISHED" => status[b] = "PUBLISHED"
      BY <1>7, <2>1, <2>3 DEF ApplyPatch, TypeOK
    <3>2. call' = [call EXCEPT ![r] = Idle]
      BY <1>7, <2>1, <2>3 DEF ApplyPatch
    <3> QED
      BY <3>1, <3>2, ShownFrame DEF TypeOK
  <2> QED
    BY <2>2, <2>3
<1>8. CASE ApplyRevokeKey(r)
  BY <1>8, ShownFrame DEF ApplyRevokeKey, TypeOK
<1>9. CASE ApplyCreateKey(r)
  BY <1>9, ShownFrame DEF ApplyCreateKey, TypeOK
<1>10. ASSUME NEW k \in Keys, Exchange(r, k) PROVE ShownInv'
  <2> DEFINE gone == k \in revoked
  <2>1. call' = [call EXCEPT ![r] = Exchanging("exchange", k, gone, None)]
        /\ UNCHANGED status
    BY <1>10 DEF Exchange
  <2> HIDE DEF gone
  <2>2. call'[r].op = "exchange"
    BY <2>1 DEF Exchanging, TypeOK
  <2> QED
    BY <2>1, <2>2, ShownFrame DEF TypeOK
<1>11. CASE ResolveKey(r)
  BY <1>11, ShownFrame DEF ResolveKey, Exchanging, TypeOK
<1>12. CASE MintToken(r)
  BY <1>12, ShownFrame DEF MintToken, Exchanging, TypeOK
<1>13. CASE LoadAssistant(r)
  <2>1. /\ call[r].op = "chat"
        /\ \/ call'[r] = Idle
           \/ /\ MayAnswer(call[r].claims, call[r].assistant)
              /\ call'[r].op = "answered"
              /\ call'[r].claims = call[r].claims
              /\ call'[r].shown = call[r].shown
        /\ \A q \in Requests \ {r} : call'[q] = call[q]
        /\ UNCHANGED status
    BY <1>13 DEF LoadAssistant, Chatting, TypeOK
  <2> QED
    BY <2>1 DEF ShownInv, MayAnswer
<1>14. CASE Answered(r)
  BY <1>14, ShownFrame DEF Answered, TypeOK
<1> QED
  BY <1>1, <1>2, <1>3, <1>4, <1>5, <1>6, <1>7, <1>8, <1>9, <1>10, <1>11, <1>12,
     <1>13, <1>14 DEF Step

LEMMA ShownNext == TypeOK /\ ShownInv /\ [Next]_vars => ShownInv'
BY ShownStep DEF Next, Login, Expire, vars, rows, ShownInv

(* A consumer whose chat began after the assistant was unpublished gets no *)
(* answer.                                                                 *)
THEOREM UnpublishHolds == Spec => []UnpublishIsHonoured
<1>1. Init => ShownInv
  BY DEF Init, ShownInv, Idle
<1>2. ShownInv => UnpublishIsHonoured
  BY DEF ShownInv, UnpublishIsHonoured
<1> QED
  BY <1>1, <1>2, ShownNext, TypeCorrect, PTL DEF Spec

-----------------------------------------------------------------------------
(* Administration.  The token was looked at when the request began, and    *)
(* the request carries its claims to the transaction.                      *)
AdminCalls == {"patch", "create", "revoke"}

AdminInv ==
  \A r \in Requests : call[r].op \in AdminCalls => IsAdminSession(call[r].claims)

(* A step that sets the call of r to one that is no administration, or to  *)
(* one with an admin session's claims.                                     *)
LEMMA AdminFrame ==
  ASSUME AdminInv, NEW r \in Requests,
         \A q \in Requests \ {r} :
           call'[q] = call[q] \/ call'[q].op \notin AdminCalls,
         call'[r].op \in AdminCalls => IsAdminSession(call'[r].claims)
  PROVE  AdminInv'
BY DEF AdminInv, IsAdminSession

LEMMA AdminStep ==
  ASSUME TypeOK, AdminInv, NEW r \in Requests, Step(r)
  PROVE  AdminInv'
<1> USE DEF rows, Begin, End, Idle, AdminCalls, MayAdminister
<1>1. ASSUME NEW e \in Emails, Signup(r, e) PROVE AdminInv'
  BY <1>1, AdminFrame DEF Signup, TypeOK
<1>2. ASSUME NEW t \in Tenants, CreateAccount(r, t) PROVE AdminInv'
  BY <1>2, AdminFrame DEF CreateAccount, TypeOK
<1>3. CASE SignupLost(r)
  BY <1>3, AdminFrame DEF SignupLost, TypeOK
<1>4. ASSUME NEW c \in Claims, NEW a \in Tenants, NEW s \in {"DRAFT", "PUBLISHED"},
             Patch(r, c, a, s)
      PROVE  AdminInv'
  BY <1>4, AdminFrame DEF Patch, TypeOK
<1>5. ASSUME NEW c \in Claims, NEW a \in Tenants, NEW k \in Keys,
             CreateKey(r, c, a, k) \/ RevokeKey(r, c, a, k)
      PROVE  AdminInv'
  BY <1>5, AdminFrame DEF CreateKey, RevokeKey, TypeOK
<1>6. ASSUME NEW c \in Claims, NEW a \in Tenants, Chat(r, c, a) PROVE AdminInv'
  <2> DEFINE b == Target(c, a)
             shown == status[b] = "PUBLISHED"
  <2>1. call' = [call EXCEPT ![r] = Chatting("chat", c, b, shown)]
    BY <1>6 DEF Chat
  <2> HIDE DEF shown, b
  <2>2. call'[r].op = "chat"
    BY <2>1 DEF Chatting, TypeOK
  <2> QED
    BY <2>1, <2>2, AdminFrame DEF TypeOK
<1>7. CASE ApplyPatch(r)
  <2> DEFINE shown == Shown(call[r].assistant)
  <2>1. /\ DOMAIN shown = Requests
        /\ \A q \in Requests : shown[q] = call[q] \/ shown[q].op = "chat"
    BY DEF Shown, Chatting
  <2>2. \/ call' = [shown EXCEPT ![r] = Idle]
        \/ call' = [call EXCEPT ![r] = Idle]
    BY <1>7 DEF ApplyPatch
  <2> HIDE DEF shown
  <2>3. /\ call'[r].op = "idle"
        /\ \A q \in Requests \ {r} : call'[q] = call[q] \/ call'[q] = shown[q]
    BY <2>1, <2>2 DEF TypeOK
  <2> QED
    BY <2>1, <2>3, AdminFrame
<1>8. CASE ApplyRevokeKey(r)
  BY <1>8, AdminFrame DEF ApplyRevokeKey, TypeOK
<1>9. CASE ApplyCreateKey(r)
  BY <1>9, AdminFrame DEF ApplyCreateKey, TypeOK
<1>10. ASSUME NEW k \in Keys, Exchange(r, k) PROVE AdminInv'
  <2> DEFINE gone == k \in revoked
  <2>1. call' = [call EXCEPT ![r] = Exchanging("exchange", k, gone, None)]
    BY <1>10 DEF Exchange
  <2> HIDE DEF gone
  <2>2. call'[r].op = "exchange"
    BY <2>1 DEF Exchanging, TypeOK
  <2> QED
    BY <2>1, <2>2, AdminFrame DEF TypeOK
<1>11. CASE ResolveKey(r)
  BY <1>11, AdminFrame DEF ResolveKey, Exchanging, TypeOK
<1>12. CASE MintToken(r)
  BY <1>12, AdminFrame DEF MintToken, Exchanging, TypeOK
<1>13. CASE LoadAssistant(r)
  BY <1>13, AdminFrame DEF LoadAssistant, Chatting, TypeOK
<1>14. CASE Answered(r)
  BY <1>14, AdminFrame DEF Answered, TypeOK
<1> QED
  BY <1>1, <1>2, <1>3, <1>4, <1>5, <1>6, <1>7, <1>8, <1>9, <1>10, <1>11, <1>12,
     <1>13, <1>14 DEF Step

LEMMA AdminNext == TypeOK /\ AdminInv /\ [Next]_vars => AdminInv'
BY AdminStep DEF Next, Login, Expire, vars, rows, AdminInv

(* What a step may do to the assistant and the keys of tenant a.           *)
Owned(a) ==
  \/ status'[a] # status[a]
  \/ \E k \in Keys : keys'[k] # keys[k] /\ a \in {keys[k], keys'[k]}
  => \E r \in Requests :
       call[r].op \in AdminCalls /\ call[r].claims = Admin(a) /\ call'[r] = Idle

LEMMA OwnedStep ==
  ASSUME TypeOK, KeyInv, AdminInv, [Next]_vars, NEW a \in tenants
  PROVE  Owned(a)
<1> USE DEF TypeOK
<1>1. ASSUME NEW r \in Requests, NEW t \in Tenants, CreateAccount(r, t) PROVE Owned(a)
  <2>1. a # t
    BY <1>1 DEF CreateAccount
  <2> QED
    BY <1>1, <2>1 DEF CreateAccount, Owned
<1>2. ASSUME NEW r \in Requests, ApplyPatch(r) PROVE Owned(a)
  <2>1. call[r] \in Patches
    BY <1>2, CallShape DEF ApplyPatch
  <2>2. call'[r] = Idle
    BY <1>2 DEF ApplyPatch, Shown, End
  <2>3. /\ UNCHANGED keys
        /\ status'[a] # status[a] => a = call[r].claims.tenant
    BY <1>2, <2>1 DEF ApplyPatch, Patches, Visible
  <2>4. call[r].claims = Admin(call[r].claims.tenant)
    BY <1>2, <2>1, ClaimsShape DEF ApplyPatch, AdminInv, AdminCalls, Patches
  <2> QED
    BY <1>2, <2>2, <2>3, <2>4 DEF ApplyPatch, Owned, AdminCalls
<1>3. ASSUME NEW r \in Requests, ApplyCreateKey(r) \/ ApplyRevokeKey(r) PROVE Owned(a)
  <2>1. call[r] \in KeyCalls
    BY <1>3, CallShape DEF ApplyCreateKey, ApplyRevokeKey
  <2>2. call'[r] = Idle
    BY <1>3 DEF ApplyCreateKey, ApplyRevokeKey, End
  <2>3. call[r].op = "create" => keys[call[r].key] = None
    BY <2>1 DEF KeyInv, Creating, KeyCalls
  <2>4. /\ UNCHANGED status
        /\ \A k \in Keys : keys'[k] # keys[k] /\ a \in {keys[k], keys'[k]} =>
             a = call[r].claims.tenant
    BY <1>3, <2>1, <2>3, NoneAssumption
       DEF ApplyCreateKey, ApplyRevokeKey, KeyCalls, Visible
  <2>5. call[r].claims = Admin(call[r].claims.tenant)
    BY <2>1, ClaimsShape DEF AdminInv, AdminCalls, KeyCalls
  <2> QED
    BY <1>3, <2>2, <2>4, <2>5 DEF ApplyCreateKey, ApplyRevokeKey, Owned, AdminCalls
<1>4. CASE UNCHANGED <<status, keys>>
  BY <1>4 DEF Owned
<1> QED
  BY <1>1, <1>2, <1>3, <1>4
     DEF Next, Step, Login, Expire, vars, rows, Signup, SignupLost, Patch, CreateKey,
         RevokeKey, Chat, Begin, End, Exchange, ResolveKey, MintToken, LoadAssistant,
         Answered

(* An assistant's status and keys change only by a request of an admin     *)
(* session of its own tenant, whatever ids other requests name.            *)
THEOREM OwnersAdminister == Spec => OnlyOwnersAdminister
<1>1. Init => AdminInv /\ KeyInv
  BY DEF Init, AdminInv, AdminCalls, KeyInv, Creating, Idle
<1>2. TypeOK /\ KeyInv /\ AdminInv /\ [Next]_vars =>
        [\A a \in tenants :
           \/ status'[a] # status[a]
           \/ \E k \in Keys : keys'[k] # keys[k] /\ a \in {keys[k], keys'[k]}
           => \E r \in Requests :
                /\ call[r].op \in {"patch", "create", "revoke"}
                /\ call[r].claims = Admin(a)
                /\ call'[r] = Idle]_vars
  BY OwnedStep DEF Owned, AdminCalls
<1> QED
  BY <1>1, <1>2, KeyNext, AdminNext, TypeCorrect, PTL DEF Spec, OnlyOwnersAdminister
=============================================================================

---------------------------- MODULE SettingsPage ----------------------------
(***************************************************************************)
(* The settings page of the console: publish or unpublish the assistant,   *)
(* list, create and revoke its API keys.  Another session of the tenant    *)
(* may change the same things.                                             *)
(***************************************************************************)
EXTENDS Browser

CONSTANT Keys  \* keys that may be minted

VARIABLES
  status,      \* the assistant row: DRAFT or PUBLISHED
  keyState,    \* the rows of api_key
  assistant,   \* page: the assistant's status, or None before it is loaded
  listed,      \* page: how many rows show each key
  publishing, creating, revoking  \* page: what its buttons wait for

settingsRows == <<status, keyState>>
settingsState == <<assistant, listed, publishing, creating, revoking>>

PublishStates == {"DRAFT", "PUBLISHED"}

SettingsTypeOK ==
  /\ status \in PublishStates
  /\ keyState \in [Keys -> {"unused", "live", "revoked"}]
  /\ assistant \in PublishStates \cup {None}
  /\ listed \in [Keys -> 0..2]
  /\ revoking \in Keys \cup {None}
  /\ publishing \in BOOLEAN /\ creating \in BOOLEAN

SettingsInit ==
  /\ status = "DRAFT" /\ keyState = [k \in Keys |-> "unused"]
  /\ assistant = None /\ listed = [k \in Keys |-> 0]
  /\ publishing = FALSE /\ creating = FALSE /\ revoking = None

(* What the page forgets when it is left.                                  *)
SettingsUnmount ==
  /\ assistant' = None /\ listed' = [k \in Keys |-> 0]
  /\ publishing' = FALSE /\ creating' = FALSE /\ revoking' = None

LiveKeys == {k \in Keys : keyState[k] = "live"}
Mint(k) == keyState[k] = "unused" /\ keyState' = [keyState EXCEPT ![k] = "live"]
Erase(k) == keyState' = [keyState EXCEPT ![k] = IF @ = "live" THEN "revoked" ELSE @]

OnSettings == place = "settings" /\ UNCHANGED <<jar, visit, place, landing>>

-----------------------------------------------------------------------------
(* The API's side of the page's calls.                                     *)

ServeLoadSettings(c) ==
  /\ visit = "settings" /\ Served(c, "load") /\ Reply(c, "ok", {status})
  /\ UNCHANGED settingsRows

ServeListKeys(c) ==
  /\ Served(c, "listKeys") /\ Reply(c, "ok", LiveKeys)
  /\ UNCHANGED settingsRows

ServePatchStatus(c) ==
  /\ visit = "settings" /\ Served(c, "patch")
  /\ \E s \in c.arg : status' = s
  /\ Reply(c, "ok", {})
  /\ UNCHANGED keyState

ServeCreateKey(c) ==
  /\ Served(c, "createKey")
  /\ \E k \in Keys : Mint(k) /\ Reply(c, "ok", {k})
  /\ UNCHANGED status

(* Revoking deletes the row; a second revocation finds none.               *)
ServeRevokeKey(c) ==
  /\ Served(c, "revokeKey")
  /\ \E k \in c.arg : Erase(k) /\ Reply(c, IF k \in LiveKeys THEN "ok" ELSE "notFound", {})
  /\ UNCHANGED status

ServeSettings(c) ==
  /\ \/ ServeLoadSettings(c) \/ ServeListKeys(c) \/ ServePatchStatus(c)
     \/ ServeCreateKey(c) \/ ServeRevokeKey(c)
  /\ UNCHANGED <<jar, visit, place, landing, current, settingsState>>

(* Another session of the tenant mints or revokes a key, or publishes.     *)
SettingsElsewhere ==
  /\ visit = "settings"
  /\ \/ (\E k \in Keys : Mint(k) \/ (k \in LiveKeys /\ Erase(k))) /\ UNCHANGED status
     \/ status' \in PublishStates \ {status} /\ UNCHANGED keyState
  /\ calls' = Disturbed(calls) /\ current' = FALSE
  /\ UNCHANGED <<jar, visit, place, landing, settingsState>>

-----------------------------------------------------------------------------
(* The page.                                                               *)

(* The assistant is there, and its keys are asked for.                     *)
SettingsLoaded(c) ==
  /\ OnSettings /\ c.op = "load" /\ Take(c)
  /\ IF c.reply = "ok"
       THEN /\ assistant' \in c.body
            /\ calls' = {[x EXCEPT !.quiet = @ /\ c.quiet] : x \in Plus(calls \ {c}, "listKeys", {}, jar)}
       ELSE Drop(c) /\ UNCHANGED assistant
  /\ UNCHANGED <<settingsRows, current, listed, publishing, creating, revoking>>

(* setKeys replaces what is shown, also what was created meanwhile.        *)
KeysLoaded(c) ==
  /\ OnSettings /\ c.op = "listKeys" /\ Take(c) /\ Drop(c)
  /\ IF c.reply = "ok"
       THEN /\ listed' = [k \in Keys |-> IF k \in c.body THEN 1 ELSE 0]
            /\ current' = c.quiet
       ELSE UNCHANGED <<listed, current>>
  /\ UNCHANGED <<settingsRows, assistant, publishing, creating, revoking>>

(* A write whose answer is lost may have been done.                        *)
Doubt(c) == current' = (current /\ c.reply # "failed")

TogglePublish ==
  /\ OnSettings /\ assistant # None /\ ~publishing
  /\ \E next \in PublishStates \ {assistant} : Send("patch", {next})
  /\ publishing' = TRUE
  /\ UNCHANGED <<settingsRows, current, assistant, listed, creating, revoking>>

PublishAnswered(c) ==
  /\ OnSettings /\ c.op = "patch" /\ Take(c) /\ Drop(c)
  /\ IF c.reply = "ok" THEN assistant' \in c.arg ELSE UNCHANGED assistant
  /\ publishing' = FALSE /\ Doubt(c)
  /\ UNCHANGED <<settingsRows, listed, creating, revoking>>

CreateKey ==
  /\ OnSettings /\ assistant # None /\ ~creating
  /\ Send("createKey", {})
  /\ creating' = TRUE
  /\ UNCHANGED <<settingsRows, current, assistant, listed, publishing, revoking>>

(* A row is added on top, whatever else changed meanwhile.                 *)
KeyCreated(c) ==
  /\ OnSettings /\ c.op = "createKey" /\ Take(c) /\ Drop(c)
  /\ IF c.reply = "ok"
       THEN \E k \in c.body : listed' = [listed EXCEPT ![k] = @ + 1]
       ELSE UNCHANGED listed
  /\ creating' = FALSE /\ Doubt(c)
  /\ UNCHANGED <<settingsRows, assistant, publishing, revoking>>

(* Only the button of the last key revoked is off meanwhile.               *)
RevokeKey(k) ==
  /\ OnSettings /\ listed[k] > 0 /\ revoking # k
  /\ Send("revokeKey", {k})
  /\ revoking' = k
  /\ UNCHANGED <<settingsRows, current, assistant, listed, publishing, creating>>

(* Variant of KeyRevoked: the row goes whatever the answer.                *)
KeyRevokedAlways(c) ==
  /\ OnSettings /\ c.op = "revokeKey" /\ Take(c) /\ Drop(c)
  /\ listed' = [k \in Keys |-> IF k \in c.arg THEN 0 ELSE listed[k]]
  /\ revoking' = None /\ Doubt(c)
  /\ UNCHANGED <<settingsRows, assistant, publishing, creating>>

KeyRevoked(c) ==
  /\ OnSettings /\ c.op = "revokeKey" /\ Take(c) /\ Drop(c)
  /\ listed' = [k \in Keys |->
       IF c.reply \in {"ok", "notFound"} /\ k \in c.arg THEN 0 ELSE listed[k]]
  /\ revoking' = None /\ Doubt(c)
  /\ UNCHANGED <<settingsRows, assistant, publishing, creating>>

SettingsHears(c) ==
  SettingsLoaded(c) \/ KeysLoaded(c) \/ PublishAnswered(c) \/ KeyCreated(c) \/ KeyRevoked(c)
SettingsClicks == TogglePublish \/ CreateKey \/ \E k \in Keys : RevokeKey(k)
SettingsNext ==
  SettingsClicks \/ SettingsElsewhere \/ \E c \in calls : SettingsHears(c) \/ ServeSettings(c)

-----------------------------------------------------------------------------
(* With nothing in flight the page shows the publish state and the keys    *)
(* there are, each once, unless its last list was overtaken by a write, an *)
(* answer was lost, or another session wrote: the creations, revocations   *)
(* and toggles of the page itself, in any overlap, leave it right.         *)
SettingsAreCurrent ==
  place = "settings" /\ current /\ calls = {} =>
    /\ assistant = status
    /\ \A k \in Keys : listed[k] = IF keyState[k] = "live" THEN 1 ELSE 0
=============================================================================

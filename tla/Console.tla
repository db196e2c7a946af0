------------------------------ MODULE Console ------------------------------
(***************************************************************************)
(* The admin console in one browser tab: sign-in and the middleware        *)
(* (Browser) composed with the three data pages.  The pages share the      *)
(* session, the calls in flight and what the API stores, and a page keeps  *)
(* nothing when it is left.                                                *)
(***************************************************************************)
EXTENDS SettingsPage, PlaygroundPage, DocumentsPage

vars == <<browserVars, settingsRows, settingsState, playgroundRows, playgroundState,
          rows, documentsState>>

settingsVars == <<settingsRows, settingsState>>
playgroundVars == <<playgroundRows, playgroundState>>
documentsVars == <<rows, documentsState>>

TypeOK == BrowserTypeOK /\ SettingsTypeOK /\ PlaygroundTypeOK /\ DocumentsTypeOK

Init == BrowserInit /\ SettingsInit /\ PlaygroundInit /\ DocumentsInit

(* The tab moves: whatever page it leaves is unmounted.                    *)
Move ==
  /\ (\E p \in Places : Go(p)) \/ \E c \in calls : SignedIn(c) \/ SignedOut(c)
  /\ SettingsUnmount /\ PlaygroundUnmount /\ DocumentsUnmount
  /\ UNCHANGED <<settingsRows, playgroundRows, rows>>

(* The rest of the session, and calls that fail, whatever their page.      *)
Stay ==
  /\ \/ \E op \in Session : Submit(op)
     \/ \E c \in calls : ServeSession(c) \/ SignInFailed(c) \/ Refuse(c) \/ Fail(c)
     \/ Expire \/ CookieGone
  /\ UNCHANGED <<settingsVars, playgroundVars, documentsVars>>

Next ==
  \/ Move \/ Stay
  \/ SettingsNext /\ UNCHANGED <<playgroundVars, documentsVars>>
  \/ PlaygroundNext /\ UNCHANGED <<settingsVars, documentsVars>>
  \/ DocumentsNext /\ UNCHANGED <<settingsVars, playgroundVars>>

Spec == Init /\ [][Next]_vars
=============================================================================

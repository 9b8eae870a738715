------------------------------ MODULE MCAccounts ------------------------------
(*****************************************************************************)
(* Accounts: the sessions and device grants of the server (AccountSessions), *)
(* its accounts, setups and application connections (Accounts), the choice   *)
(* of an account in a browser (BrowserAccounts), a browser's trust in its    *)
(* device (DeviceTrust) and the changes of a password, username or recovery  *)
(* key (CredentialChanges). A behaviour is about one of them, its part.      *)
(*****************************************************************************)
EXTENDS AccountSessions, TLC

CONSTANTS Parts,
          Ids, Names, Apps,            \* Accounts
          AllowRegistration, AppLimit,
          MaxReplaced,                 \* its MaxSecrets
          Tabs, MaxGenerations,        \* BrowserAccounts
          MaxFailures,
          MaxSignIns, MaxGrants,       \* DeviceTrust
          Editors, MaxTries, MaxEdits,
          Pages, Visitors, Flows,      \* CredentialChanges
          Kinds, Passwords, Logins,    \* Logins: its Names
          None

VARIABLES part,
          user, setup, app, posted, request,
          selection, generation, trusted, stored, forgotten, tab, action,
          crashes, failures,
          credential, trustGrant, revocation, online, signIn, edit, chosenPin,
          trustEndpoint, accepted, live, sent, answered, signIns, grants, edits,
          keyed, signedIn, pending, knownName, flow, shown, closes, lost

(* Each page that changes credentials is of a browser of its own.          *)
OwnSession == [p \in Pages |-> p]

Server == INSTANCE Accounts WITH MaxSecrets <- MaxReplaced
Browser == INSTANCE BrowserAccounts WITH MaxCrashes <- 0
Trust == INSTANCE DeviceTrust WITH grant <- trustGrant, endpoint <- trustEndpoint
Credentials == INSTANCE CredentialChanges WITH
    Sessions <- Pages, SessionOf <- OwnSession, Names <- Logins,
    MaxCloses <- 0, MaxLost <- 0, account <- keyed, sessions <- signedIn

ASSUME PartsAssumption ==
  /\ Server!AccountBounds
  /\ Browser!BrowserBounds
  /\ Trust!TrustBounds
  /\ Credentials!CredentialsAssumption

accountsVars == <<user, setup, app, posted, request>>
browserVars == <<selection, generation, trusted, stored, forgotten, tab,
                 action, crashes, failures>>
trustVars == <<credential, trustGrant, revocation, online, signIn, edit,
               chosenPin, trustEndpoint, accepted, live, sent, answered,
               signIns, grants, edits>>
credentialsVars == <<keyed, signedIn, pending, knownName, flow, shown, closes,
                     lost>>
everything == <<part, vars, accountsVars, browserVars, trustVars,
                 credentialsVars>>

(* Only component p moves; the others stay where they began.               *)
Only(p) ==
    /\ part = p /\ UNCHANGED part
    /\ IF p = "sessions" THEN TRUE ELSE UNCHANGED vars
    /\ IF p = "accounts" THEN TRUE ELSE UNCHANGED accountsVars
    /\ IF p = "browser" THEN TRUE ELSE UNCHANGED browserVars
    /\ IF p = "trust" THEN TRUE ELSE UNCHANGED trustVars
    /\ IF p = "credentials" THEN TRUE ELSE UNCHANGED credentialsVars

RootInit ==
    /\ part \in Parts /\ Init /\ Server!Init /\ Browser!Init /\ Trust!Init
    /\ Credentials!Init

SessionsStep == Only("sessions") /\ Next
AccountsStep == Only("accounts") /\ Server!Next
BrowserStep == Only("browser") /\ Browser!Next
TrustStep == Only("trust") /\ Trust!Next
CredentialsStep == Only("credentials") /\ Credentials!Next

RootNext == SessionsStep \/ AccountsStep \/ BrowserStep \/ TrustStep
            \/ CredentialsStep

RootSpec == RootInit /\ [][RootNext]_everything

(*****************************************************************************)
(* Accounts, CredentialChanges: names differ, one administrator stays,       *)
(* connections are current, and the password, the recovery key and the       *)
(* envelopes of an account fit together, whatever is answered when.          *)
(* (server/routes.ts, server/applications, crypto.worker.ts)                 *)
(*****************************************************************************)
AccountsSafe == Server!AccountsSafe /\ Credentials!CredentialsOpen

(*****************************************************************************)
(* BrowserAccounts, DeviceTrust: one account is open in a browser, signing   *)
(* out leaves nothing of it, and a grant the browser counts on was accepted. *)
(* (useSessionController.ts, deviceUnlock.ts)                                *)
(*****************************************************************************)
BrowserSafe == Browser!BrowserSafe /\ Trust!TrustSafe

(*****************************************************************************)
(* What was revoked or left stays so: a confirmed revocation ended its trust *)
(* (DeviceTrust, deviceUnlock.ts), a revoked connection never works again    *)
(* (Accounts, server/applications/routes.ts), and a tab that is left keeps   *)
(* its unsaved work unless the user discards it (BrowserAccounts,            *)
(* useSessionController.ts).                                                 *)
(*****************************************************************************)
EndingsHold ==
  Trust!ConfirmedRevocationsHold /\ Server!RevokedNeverWorks /\ Browser!UnsavedWorkIsKept

(*****************************************************************************)
(* CredentialChanges: a name is not given back to an account while someone   *)
(* recovers it under that name. server/routes.ts:308 compares the name and   *)
(* the recovery key, not the binding of the envelope the recovery fetched,   *)
(* which a change of the name, and one back, replaces.                       *)
(*****************************************************************************)
NoNameComesBack ==
    keyed'.name # keyed.name =>
      \A f \in Flows : Credentials!Running(f) /\ flow[f].kind = "recover" =>
        flow[f].account # keyed'.name

(*****************************************************************************)
(* The accounts, the browsers, the identifiers and the tabs are each         *)
(* interchangeable.                                                          *)
(*****************************************************************************)
Alike == Permutations(Users) \cup Permutations(Browsers) \cup Permutations(Ids)
           \cup Permutations(Tabs)
===============================================================================

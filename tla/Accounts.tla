------------------------------- MODULE Accounts -------------------------------
(* Who may use the server: accounts, their names and the one administrator,    *)
(* account setups waiting to be activated (routes.ts, admin/routes.ts), and    *)
(* application connections with their delegated access (applications/). The    *)
(* sessions of an account are AccountSessions' subject; "signed in" is the     *)
(* account being enabled. A request of the browser is one synchronous handler; *)
(* a request of an application is authenticated when its headers arrive and    *)
(* answered after its body did, so that anything may happen in between.        *)
EXTENDS Naturals, FiniteSets

CONSTANTS Ids,                \* account identities, each given out once
          Names,              \* usernames, up to case
          Apps,               \* connection identities, chosen by browsers
          AllowRegistration,  \* config.allowRegistration
          AppLimit,           \* active connections of an account
          MaxSecrets          \* changes of a credential, per account

AccountBounds == AllowRegistration \in BOOLEAN /\ AppLimit \in Nat /\ MaxSecrets \in Nat

VARIABLES user,     \* user[i]: the row of the account
          setup,    \* the account_setups rows
          app,      \* app[a]: the application_connections row
          posted,   \* registrations of a connection sent, by account: each may
                    \* be sent again later, when its answer was lost
          request   \* application requests authenticated and not yet answered

vars == <<user, setup, app, posted, request>>

Unused == [state |-> "unused"]
Deleted == [state |-> "deleted"]
NoApp == [row |-> FALSE]
Accounts == [state : {"enabled", "disabled"}, name : Names, role : {"admin", "user"}, secret : 0..MaxSecrets]
Setups == [name : Names, by : Ids, expired : BOOLEAN]
AppRows == [row : {TRUE}, owner : Ids, access : {"read", "read-write"}, revoked : BOOLEAN,
            removed : BOOLEAN, expiry : {"ahead", "idle", "absolute"}, proof : 0..MaxSecrets]

Init == /\ user = [i \in Ids |-> Unused]
        /\ setup = {}
        /\ app = [a \in Apps |-> NoApp]
        /\ posted = {} /\ request = {}

Rows == {i \in Ids : user[i].state \in {"enabled", "disabled"}}
SignedIn == {i \in Ids : user[i].state = "enabled"}
Admins == {i \in Rows : user[i].role = "admin"}
NameTaken(n) == \E i \in Rows : user[i].name = n
Reserved(n) == \E s \in setup : s.name = n
Pending == {s \in setup : ~s.expired}
Active(a) == app[a].row /\ ~app[a].revoked /\ app[a].expiry = "ahead"

-----------------------------------------------------------------------------
InsertUser(i, n, role) == /\ user[i] = Unused /\ ~NameTaken(n)
                          /\ user' = [user EXCEPT ![i] =
                               [state |-> "enabled", name |-> n, role |-> role, secret |-> 0]]

(* runRegistrationTransaction: the first account of the database. *)
Role == IF Rows = {} THEN "admin" ELSE "user"

(* Registration, after the setups that expired were dropped. *)
Register(i, n) ==
  /\ Rows = {} \/ AllowRegistration
  /\ \A s \in Pending : s.name # n
  /\ setup' = Pending
  /\ InsertUser(i, n, Role)
  /\ UNCHANGED <<app, posted, request>>

Activate(i, s) ==
  /\ s \in Pending
  /\ InsertUser(i, s.name, "user")
  /\ setup' = setup \ {s}
  /\ UNCHANGED <<app, posted, request>>

CreateSetup(i, n) ==
  /\ i \in SignedIn \cap Admins
  /\ ~NameTaken(n) /\ \A s \in Pending : s.name # n
  /\ setup' = Pending \cup {[name |-> n, by |-> i, expired |-> FALSE]}
  /\ UNCHANGED <<user, app, posted, request>>

DeleteSetup(i, s) == /\ i \in SignedIn \cap Admins /\ s \in setup
                     /\ setup' = setup \ {s}
                     /\ UNCHANGED <<user, app, posted, request>>

SetupExpires(s) == /\ s \in Pending
                   /\ setup' = (setup \ {s}) \cup {[s EXCEPT !.expired = TRUE]}
                   /\ UNCHANGED <<user, app, posted, request>>

(* A reserved name is refused, also by a setup that expired. *)
ChangeUsername(i, n) ==
  /\ i \in SignedIn /\ user[i].name # n
  /\ ~NameTaken(n) /\ ~Reserved(n)
  /\ user' = [user EXCEPT ![i].name = n]
  /\ UNCHANGED <<setup, app, posted, request>>

(* revokeApplicationConnections, alone or as the last part of                  *)
(* revokeUserCredentials.                                                      *)
RevokeApplicationConnections(i) ==
  app' = [a \in Apps |-> IF app[a].row /\ app[a].owner = i THEN [app[a] EXCEPT !.revoked = TRUE] ELSE app[a]]

(* The password is changed by its owner, or set with the recovery key. *)
ReplaceSecret(i) ==
  /\ i \in Rows /\ user[i].secret < MaxSecrets
  /\ user' = [user EXCEPT ![i].secret = @ + 1]
  /\ RevokeApplicationConnections(i)
  /\ UNCHANGED <<setup, posted, request>>

Disable(i, t) == /\ i \in SignedIn \cap Admins /\ t \in Rows \ {i}
                 /\ user' = [user EXCEPT ![t].state = "disabled"]
                 /\ RevokeApplicationConnections(t)
                 /\ UNCHANGED <<setup, posted, request>>

Enable(i, t) == /\ i \in SignedIn \cap Admins /\ t \in Rows
                /\ user' = [user EXCEPT ![t].state = "enabled"]
                /\ UNCHANGED <<setup, app, posted, request>>

(* Fault: an administrator may delete itself. *)
DeleteUserFault(i, t) ==
  /\ i \in SignedIn \cap Admins /\ t \in Rows
  /\ user' = [user EXCEPT ![t] = Deleted]
  /\ setup' = {s \in setup : s.by # t}
  /\ app' = [a \in Apps |-> IF app[a].row /\ app[a].owner = t THEN NoApp ELSE app[a]]
  /\ posted' = {p \in posted : p[1] # t}
  /\ UNCHANGED request

(* Deleting an account cascades to its setups and connections; not the last    *)
(* administrator, and not oneself.                                             *)
DeleteUser(i, t) ==
  /\ i \in SignedIn \cap Admins /\ t \in Rows \ {i}
  /\ t \in Admins => Cardinality(Admins) > 1
  /\ user' = [user EXCEPT ![t] = Deleted]
  /\ setup' = {s \in setup : s.by # t}
  /\ app' = [a \in Apps |-> IF app[a].row /\ app[a].owner = t THEN NoApp ELSE app[a]]
  /\ posted' = {p \in posted : p[1] # t}
  /\ UNCHANGED request

-----------------------------------------------------------------------------
(* POST application-connections, for the first time or again: a connection     *)
(* that exists is confirmed or refused, never written.                         *)
RegisterApplication(i, a, access) ==
  /\ i \in SignedIn /\ ~app[a].row
  /\ \A p \in posted : p[2] = a => p[1] = i
  /\ Cardinality({b \in Apps : Active(b) /\ app[b].owner = i}) < AppLimit
  /\ app' = [app EXCEPT ![a] = [row |-> TRUE, owner |-> i, access |-> access, revoked |-> FALSE,
               removed |-> FALSE, expiry |-> "ahead", proof |-> user[i].secret]]
  /\ posted' = posted \cup {<<i, a>>}
  /\ UNCHANGED <<user, setup, request>>

RevokeApplication(i, a) ==
  /\ i \in SignedIn /\ app[a].row /\ app[a].owner = i
  /\ app' = [app EXCEPT ![a].revoked = TRUE]
  /\ UNCHANGED <<user, setup, posted, request>>

RevokeAll(i) == /\ i \in SignedIn
                /\ RevokeApplicationConnections(i)
                /\ UNCHANGED <<user, setup, posted, request>>

(* Fault: removing the entry deletes the row. *)
RemoveRecordFault(i, a) ==
  /\ i \in SignedIn /\ app[a].row /\ app[a].owner = i /\ app[a].revoked
  /\ app' = [app EXCEPT ![a] = NoApp]
  /\ UNCHANGED <<user, setup, posted, request>>

(* A revoked connection is taken off the list; its row stays. *)
RemoveRecord(i, a) ==
  /\ i \in SignedIn /\ app[a].row /\ app[a].owner = i /\ app[a].revoked
  /\ app' = [app EXCEPT ![a].removed = TRUE]
  /\ UNCHANGED <<user, setup, posted, request>>

(* The idle timeout or the fixed expiry passes. *)
ApplicationExpires(a, how) ==
  /\ Active(a)
  /\ app' = [app EXCEPT ![a].expiry = how]
  /\ UNCHANGED <<user, setup, posted, request>>

(* cleanupOperationalRecords, ninety days after a connection was revoked or    *)
(* expired: no request and no registration of it is on the way that long.      *)
Cleanup ==
  /\ request = {}
  /\ app' = [a \in Apps |-> IF app[a].row /\ ~Active(a) THEN NoApp ELSE app[a]]
  /\ posted' = {p \in posted : Active(p[2])}
  /\ setup' = Pending
  /\ UNCHANGED <<user, request>>

(* authenticateApplication, before the body is read. *)
RequestArrives(a) ==
  /\ Active(a) /\ user[app[a].owner].state = "enabled" /\ a \notin request
  /\ request' = request \cup {a}
  /\ UNCHANGED <<user, setup, app, posted>>

(* The handler ran and onSend notes the use, unless the connection was revoked *)
(* meanwhile: its idle timeout starts over. Or the answer was an error.        *)
RequestEnds(a, ok) ==
  /\ a \in request
  /\ request' = request \ {a}
  /\ app' = IF ok /\ app[a].row /\ ~app[a].revoked /\ app[a].expiry = "idle"
            THEN [app EXCEPT ![a].expiry = "ahead"] ELSE app
  /\ UNCHANGED <<user, setup, posted>>

AccountStep ==
  \/ \E i \in Ids, n \in Names : Register(i, n) \/ CreateSetup(i, n) \/ ChangeUsername(i, n)
  \/ \E i \in Ids, s \in setup : Activate(i, s) \/ DeleteSetup(i, s)
  \/ \E s \in setup : SetupExpires(s)
  \/ \E i \in Ids : ReplaceSecret(i)
  \/ \E i, t \in Ids : Disable(i, t) \/ Enable(i, t) \/ DeleteUser(i, t)

ApplicationStep ==
  \/ \E i \in Ids, a \in Apps, access \in {"read", "read-write"} : RegisterApplication(i, a, access)
  \/ \E i \in Ids, a \in Apps : RevokeApplication(i, a) \/ RemoveRecord(i, a)
  \/ \E i \in Ids : RevokeAll(i)
  \/ \E a \in Apps, how \in {"idle", "absolute"} : ApplicationExpires(a, how)
  \/ \E a \in Apps : RequestArrives(a)
  \/ \E a \in Apps, ok \in BOOLEAN : RequestEnds(a, ok)

Next == AccountStep \/ ApplicationStep \/ Cleanup

Spec == Init /\ [][Next]_vars

-----------------------------------------------------------------------------
AccountsTypeOK ==
  /\ user \in [Ids -> Accounts \cup {Unused, Deleted}]
  /\ setup \subseteq Setups
  /\ app \in [Apps -> AppRows \cup {NoApp}]
  /\ posted \subseteq Ids \X Apps /\ request \subseteq Apps
  /\ \A s \in setup : s.by \in Rows
  /\ \A a \in Apps : app[a].row => app[a].owner \in Rows

(* A username leads to one account: no two accounts have it, and none has one  *)
(* that a setup still promises to somebody, whatever the order of              *)
(* registrations, setups, activations and renamings.                           *)
NamesAreUnique ==
  /\ \A i, j \in Rows : user[i].name = user[j].name => i = j
  /\ \A s, t \in setup : s.name = t.name => s = t
  /\ \A s \in Pending : ~NameTaken(s.name)

(* From the first registration on there is exactly one administrator, and it   *)
(* is enabled: nobody can lock everybody out of the administration.            *)
OneAdministrator == Rows # {} => \E i \in SignedIn : Admins = {i}

(* A connection that works was created with the account's present credential:  *)
(* a password change, a recovery or a disabling ended all the others.          *)
ApplicationsAreCurrent ==
  \A a \in Apps : Active(a) => /\ app[a].proof = user[app[a].owner].secret
                               /\ app[a].owner \in SignedIn

(* A connection that was revoked never works again, though its registration    *)
(* may be sent once more after its entry was removed, and though a request of  *)
(* it was under way ("Keep the revoked identity so delayed registration        *)
(* retries cannot recreate its grant", applications/routes.ts).                *)
RevokedNeverWorks ==
  [][\A a \in Apps : (\E p \in posted : p[2] = a) /\ (~app[a].row \/ app[a].revoked) => ~Active(a)']_vars

(* "An inactive connection cannot be renewed, a new one must be created"       *)
(* (docs/system-design.md, docs/application-connections.md).                   *)
InactiveStaysInactive ==
  [][\A a \in Apps : app[a].row /\ ~Active(a) /\ app'[a].row => ~Active(a)']_vars

(* The invariant that is checked. *)
AccountsSafe == AccountsTypeOK /\ NamesAreUnique /\ OneAdministrator /\ ApplicationsAreCurrent
=============================================================================

--------------------------- MODULE AccountSessions ---------------------------
(* Sign-in state of the server: the endpoints, sessions and device grants of   *)
(* auth/sessionService.ts, the routes that issue and revoke them, the session  *)
(* streams of the event hub and the hourly removal of inactive endpoints.      *)
(* Every request handler runs in one synchronous piece of a single Node        *)
(* process, so a handler is one action. A browser is its endpoint cookie; the  *)
(* row of trusted_endpoints for an account and a browser is endpoint[u][b].    *)
(* Clocks are abstract: an expiry, a day or a month may pass at any time.      *)
EXTENDS Naturals, Sequences, FiniteSets

CONSTANTS Users, Browsers, Grants,
          MaxSessions,     \* sessions the server issues
          MaxEnrolments,   \* successful registrations of a device grant
          MaxSecrets       \* changes of a credential, per account

ASSUME SessionBounds == MaxSessions \in Nat /\ MaxEnrolments \in Nat /\ MaxSecrets \in Nat

VARIABLES account,    \* account[u]: "none", "enabled", "disabled" or "deleted"
          endpoint,   \* endpoint[u][b]: the endpoint row, or NoRow
          grant,      \* grant[u][b]: the device_grants row of the endpoint, or NoRow
          sess,       \* sess[s]: the s-th session issued
          cookie,     \* cookie[b]: the session cookie of the browser, 0 before any
          streams,    \* the sessions with an event stream in the hub
          secret,     \* secret[u]: how often the credential of u was replaced
          enrolments  \* how many grants were registered

vars == <<account, endpoint, grant, sess, cookie, streams, secret, enrolments>>

NoRow == [row |-> FALSE]
Endpoints == {NoRow} \cup [row : {TRUE}, remembered : BOOLEAN, revoked : BOOLEAN, dayOld : BOOLEAN]
GrantRows == {NoRow} \cup [row : {TRUE}, id : Grants, expired : BOOLEAN,
                           issue : 1..MaxEnrolments, proof : 0..MaxSecrets]
Sessions == [user : Users, browser : Browsers, remembered : BOOLEAN,
             state : {"active", "expired", "revoked", "gone"}, proof : 0..MaxSecrets]

Init == /\ account = [u \in Users |-> "none"]
        /\ endpoint = [u \in Users |-> [b \in Browsers |-> NoRow]]
        /\ grant = [u \in Users |-> [b \in Browsers |-> NoRow]]
        /\ sess = <<>>
        /\ cookie = [b \in Browsers |-> 0]
        /\ streams = {}
        /\ secret = [u \in Users |-> 0]
        /\ enrolments = 0

Live(u, b) == endpoint[u][b].row /\ ~endpoint[u][b].revoked

Usable(s) == /\ sess[s].state = "active"
             /\ Live(sess[s].user, sess[s].browser)
             /\ account[sess[s].user] = "enabled"

SignedIn(b) == cookie[b] # 0 /\ Usable(cookie[b])
UserAt(b) == sess[cookie[b]].user

Resumable(u, b) == /\ grant[u][b].row /\ ~grant[u][b].expired
                   /\ Live(u, b) /\ endpoint[u][b].remembered
                   /\ account[u] = "enabled"

(* The UPDATE and DELETE statements, over the sessions, endpoints and grants   *)
(* they select.                                                                *)
Ended(S, to) == [s \in DOMAIN sess |-> IF s \in S THEN [sess[s] EXCEPT !.state = to] ELSE sess[s]]
Unended(S) == {s \in S : sess[s].state \in {"active", "expired"}}
SessionsOf(u) == {s \in DOMAIN sess : sess[s].user = u}
SessionsAt(u, b) == {s \in SessionsOf(u) : sess[s].browser = b}
Signed(row) == IF row.row THEN [row EXCEPT !.remembered = FALSE, !.revoked = TRUE] ELSE row

(* setSession: the endpoint row of this account and browser is reused and is   *)
(* no longer revoked, its grant goes unless the device stays remembered, and   *)
(* every other session of the browser, of any account, is retired.             *)
SetSession(u, b, remembered, proof) ==
  /\ Len(sess) < MaxSessions
  /\ LET retired == Unended({s \in DOMAIN sess : sess[s].browser = b})
         known == endpoint[u][b]
     IN /\ endpoint' = [endpoint EXCEPT ![u][b] =
             [row |-> TRUE, remembered |-> remembered, revoked |-> FALSE,
              dayOld |-> known.row /\ known.dayOld]]
        /\ grant' = IF ~remembered \/ (known.row /\ known.revoked)
                    THEN [grant EXCEPT ![u][b] = NoRow] ELSE grant
        /\ sess' = Append(Ended(retired, "revoked"),
             [user |-> u, browser |-> b, remembered |-> remembered, state |-> "active", proof |-> proof])
        /\ streams' = streams \ retired
        /\ cookie' = [cookie EXCEPT ![b] = Len(sess) + 1]

(* Registration or activation: a new account is signed in, not remembered. *)
Register(u, b) == /\ account[u] = "none"
                  /\ account' = [account EXCEPT ![u] = "enabled"]
                  /\ SetSession(u, b, FALSE, secret[u])
                  /\ UNCHANGED <<secret, enrolments>>

Login(u, b, remembered) == /\ account[u] = "enabled"
                           /\ SetSession(u, b, remembered, secret[u])
                           /\ UNCHANGED <<account, secret, enrolments>>

(* enroll: after the master password was verified, a remembered session stores *)
(* the device grant of its endpoint. The identity is the client's; it may be   *)
(* one a lost answer made it register again.                                   *)
Enroll(b, g) ==
  /\ SignedIn(b) /\ sess[cookie[b]].remembered
  /\ enrolments < MaxEnrolments
  /\ \A u \in Users, c \in Browsers : grant[u][c].row => grant[u][c].id # g
  /\ enrolments' = enrolments + 1
  /\ grant' = [grant EXCEPT ![UserAt(b)][b] = [row |-> TRUE, id |-> g, expired |-> FALSE,
                 issue |-> enrolments + 1, proof |-> secret[UserAt(b)]]]
  /\ UNCHANGED <<account, endpoint, sess, cookie, streams, secret>>

(* resume: the grant signs the browser in again, unless its session is still   *)
(* good (the expiries it may extend then are not modelled).                    *)
Resume(u, b) ==
  /\ Resumable(u, b)
  /\ ~(cookie[b] \in SessionsAt(u, b) /\ sess[cookie[b]].state = "active")
  /\ SetSession(u, b, TRUE, grant[u][b].proof)
  /\ UNCHANGED <<account, secret, enrolments>>

(* close: the session ends; the endpoint and its grant stay. *)
CloseSession(s) == /\ sess' = Ended(Unended({s}), "revoked")
                   /\ streams' = streams \ {s}

Close(b) == /\ SignedIn(b)
            /\ CloseSession(cookie[b])
            /\ UNCHANGED <<account, endpoint, grant, cookie, secret, enrolments>>

(* revokeEndpoint: grant, sessions and endpoint in one transaction, then the   *)
(* streams.                                                                    *)
RevokeEndpoint(u, b) ==
  /\ grant' = [grant EXCEPT ![u][b] = NoRow]
  /\ endpoint' = [endpoint EXCEPT ![u][b] = Signed(@)]
  /\ sess' = Ended(Unended(SessionsAt(u, b)), "revoked")
  /\ streams' = streams \ SessionsAt(u, b)

Logout(b) == /\ SignedIn(b)
             /\ RevokeEndpoint(UserAt(b), b)
             /\ UNCHANGED <<account, cookie, secret, enrolments>>

(* Fault: a revocation is carried out whatever grant it names. *)
RevokeBrowserGrantFault(u, b, g, s) ==
  /\ endpoint[u][b].row
  /\ RevokeEndpoint(u, b)
  /\ UNCHANGED <<account, cookie, secret, enrolments>>

(* revokeBrowserGrant: the delayed revocation a browser kept while offline. It *)
(* names the grant g it gave up; when the endpoint has no grant any more, it   *)
(* ends the session s it names, and the endpoint only if no session is left.   *)
RevokeBrowserGrant(u, b, g, s) ==
  /\ endpoint[u][b].row
  /\ \/ /\ grant[u][b].row /\ grant[u][b].id = g
        /\ RevokeEndpoint(u, b)
     \/ /\ ~grant[u][b].row
        /\ s \in SessionsAt(u, b) /\ sess[s].state # "gone"
        /\ IF \E t \in SessionsAt(u, b) \ {s} : sess[t].state = "active"
           THEN CloseSession(s) /\ UNCHANGED <<endpoint, grant>>
           ELSE RevokeEndpoint(u, b)
  /\ UNCHANGED <<account, cookie, secret, enrolments>>

(* The endpoint row is deleted; its sessions and its grant go with it. *)
DropEndpoint(u, b) ==
  /\ endpoint' = [endpoint EXCEPT ![u][b] = NoRow]
  /\ grant' = [grant EXCEPT ![u][b] = NoRow]
  /\ sess' = Ended(SessionsAt(u, b), "gone")

Inactive(u, b) == /\ \A s \in SessionsAt(u, b) : sess[s].state # "active"
                  /\ grant[u][b].row => grant[u][b].expired

(* DELETE /api/account/endpoints: another endpoint is removed when inactive or *)
(* revoked, else signed out, which an endpoint younger than a day may not do.  *)
RemoveEndpoint(b, other) ==
  /\ SignedIn(b) /\ other # b
  /\ LET u == UserAt(b)
     IN /\ endpoint[u][other].row
        /\ IF Inactive(u, other) \/ endpoint[u][other].revoked
           THEN DropEndpoint(u, other) /\ UNCHANGED streams
           ELSE endpoint[u][b].dayOld /\ RevokeEndpoint(u, other)
  /\ UNCHANGED <<account, cookie, secret, enrolments>>

(* Fault: the credentials of a recovered account keep their device grants and  *)
(* endpoints.                                                                  *)
RevokeUserCredentialsFault(u) ==
  /\ sess' = Ended(Unended(SessionsOf(u)), "revoked")
  /\ UNCHANGED <<grant, endpoint>>

(* revokeUserCredentials without an endpoint to keep. *)
RevokeUserCredentials(u) ==
  /\ grant' = [grant EXCEPT ![u] = [b \in Browsers |-> NoRow]]
  /\ sess' = Ended(Unended(SessionsOf(u)), "revoked")
  /\ endpoint' = [endpoint EXCEPT ![u] = [b \in Browsers |-> Signed(@[b])]]

(* The master password changes: the session that changed it and the grant of   *)
(* its endpoint stay, every other one of the account goes. They are then as    *)
(* good as the new password.                                                   *)
ChangePassword(b) ==
  /\ SignedIn(b) /\ secret[UserAt(b)] < MaxSecrets
  /\ LET u == UserAt(b)
         others == SessionsOf(u) \ {cookie[b]}
     IN /\ secret' = [secret EXCEPT ![u] = @ + 1]
        /\ grant' = [grant EXCEPT ![u] = [c \in Browsers |->
             IF c = b /\ @[c].row THEN [@[c] EXCEPT !.proof = secret[u] + 1] ELSE NoRow]]
        /\ sess' = [Ended(Unended(others), "revoked") EXCEPT ![cookie[b]].proof = secret[u] + 1]
        /\ endpoint' = [endpoint EXCEPT ![u] = [c \in Browsers |-> IF c = b THEN @[c] ELSE Signed(@[c])]]
        /\ streams' = streams \ others
  /\ UNCHANGED <<account, cookie, enrolments>>

(* The username changes: the other sessions and endpoints are revoked, but the *)
(* grants of those endpoints stay in the table.                                *)
ChangeUsername(b) ==
  /\ SignedIn(b) /\ secret[UserAt(b)] < MaxSecrets
  /\ LET u == UserAt(b)
         others == SessionsOf(u) \ {cookie[b]}
     IN /\ secret' = [secret EXCEPT ![u] = @ + 1]
        /\ grant' = IF grant[u][b].row THEN [grant EXCEPT ![u][b].proof = secret[u] + 1] ELSE grant
        /\ sess' = [Ended(Unended(others), "revoked") EXCEPT ![cookie[b]].proof = secret[u] + 1]
        /\ endpoint' = [endpoint EXCEPT ![u] = [c \in Browsers |-> IF c = b THEN @[c] ELSE Signed(@[c])]]
        /\ streams' = streams \ others
  /\ UNCHANGED <<account, cookie, enrolments>>

(* The recovery key sets a new password; nothing of the account stays signed   *)
(* in. A disabled account may be recovered too.                                *)
Recover(u) ==
  /\ account[u] \in {"enabled", "disabled"} /\ secret[u] < MaxSecrets
  /\ secret' = [secret EXCEPT ![u] = @ + 1]
  /\ RevokeUserCredentials(u)
  /\ streams' = streams \ SessionsOf(u)
  /\ UNCHANGED <<account, cookie, enrolments>>

Disable(u) ==
  /\ account[u] \in {"enabled", "disabled"}
  /\ account' = [account EXCEPT ![u] = "disabled"]
  /\ RevokeUserCredentials(u)
  /\ streams' = streams \ SessionsOf(u)
  /\ UNCHANGED <<cookie, secret, enrolments>>

Enable(u) ==
  /\ account[u] = "disabled"
  /\ account' = [account EXCEPT ![u] = "enabled"]
  /\ UNCHANGED <<endpoint, grant, sess, cookie, streams, secret, enrolments>>

DeleteUser(u) ==
  /\ account[u] \in {"enabled", "disabled"}
  /\ account' = [account EXCEPT ![u] = "deleted"]
  /\ endpoint' = [endpoint EXCEPT ![u] = [b \in Browsers |-> NoRow]]
  /\ grant' = [grant EXCEPT ![u] = [b \in Browsers |-> NoRow]]
  /\ sess' = Ended(SessionsOf(u), "gone")
  /\ streams' = streams \ SessionsOf(u)
  /\ UNCHANGED <<cookie, secret, enrolments>>

(* Time passes: a session or a grant expires, an endpoint is a day old. *)
SessionExpires(s) ==
  /\ sess[s].state = "active"
  /\ sess' = Ended({s}, "expired")
  /\ UNCHANGED <<account, endpoint, grant, cookie, streams, secret, enrolments>>

GrantExpires(u, b) ==
  /\ grant[u][b].row /\ ~grant[u][b].expired
  /\ grant' = [grant EXCEPT ![u][b].expired = TRUE]
  /\ UNCHANGED <<account, endpoint, sess, cookie, streams, secret, enrolments>>

EndpointAges(u, b) ==
  /\ endpoint[u][b].row /\ ~endpoint[u][b].dayOld
  /\ endpoint' = [endpoint EXCEPT ![u][b].dayOld = TRUE]
  /\ UNCHANGED <<account, grant, sess, cookie, streams, secret, enrolments>>

(* cleanupInactiveEndpoints, thirty days after the endpoint was revoked or     *)
(* last active.                                                                *)
CleanupEndpoint(u, b) ==
  /\ endpoint[u][b].row
  /\ endpoint[u][b].revoked \/ Inactive(u, b)
  /\ DropEndpoint(u, b)
  /\ UNCHANGED <<account, cookie, streams, secret, enrolments>>

(* GET sync/events: the stream of a signed-in browser joins the hub, and       *)
(* leaves it when the connection closes or when a heartbeat finds the session  *)
(* revoked, expired, removed or its account disabled.                          *)
OpenStream(b) == /\ SignedIn(b)
                 /\ streams' = streams \cup {cookie[b]}
                 /\ UNCHANGED <<account, endpoint, grant, sess, cookie, secret, enrolments>>

CloseStream(s) == /\ s \in streams
                  /\ streams' = streams \ {s}
                  /\ UNCHANGED <<account, endpoint, grant, sess, cookie, secret, enrolments>>

Heartbeat(s) ==
  /\ s \in streams
  /\ ~(sess[s].state = "active" /\ account[sess[s].user] = "enabled")
  /\ streams' = streams \ {s}
  /\ UNCHANGED <<account, endpoint, grant, sess, cookie, secret, enrolments>>

BrowserRequest(b) ==
  \/ \E u \in Users : Register(u, b)
  \/ \E u \in Users, remembered \in BOOLEAN : Login(u, b, remembered)
  \/ \E g \in Grants : Enroll(b, g)
  \/ \E u \in Users : Resume(u, b)
  \/ Close(b)
  \/ Logout(b)
  \/ \E u \in Users, g \in Grants, s \in DOMAIN sess : RevokeBrowserGrant(u, b, g, s)
  \/ \E other \in Browsers : RemoveEndpoint(b, other)
  \/ ChangePassword(b)
  \/ ChangeUsername(b)
  \/ OpenStream(b)

Administration(u) == Recover(u) \/ Disable(u) \/ Enable(u) \/ DeleteUser(u)

TimePasses ==
  \/ \E s \in DOMAIN sess : SessionExpires(s)
  \/ \E u \in Users, b \in Browsers : GrantExpires(u, b) \/ EndpointAges(u, b) \/ CleanupEndpoint(u, b)

Next == \/ \E b \in Browsers : BrowserRequest(b)
        \/ \E u \in Users : Administration(u)
        \/ TimePasses
        \/ \E s \in DOMAIN sess : CloseStream(s) \/ Heartbeat(s)

Spec == Init /\ [][Next]_vars

(* The heartbeat of a stream is a timer of the server that fires every 25 s.   *)
FairSpec == Spec /\ \A s \in 1..MaxSessions : WF_vars(s \in DOMAIN sess /\ Heartbeat(s))

-----------------------------------------------------------------------------
(* Every row refers to rows that exist: a grant and an unremoved session to    *)
(* the endpoint they belong to, a stream and a cookie to a session issued.     *)
SessionsTypeOK ==
  /\ account \in [Users -> {"none", "enabled", "disabled", "deleted"}]
  /\ endpoint \in [Users -> [Browsers -> Endpoints]]
  /\ grant \in [Users -> [Browsers -> GrantRows]]
  /\ sess \in Seq(Sessions) /\ Len(sess) <= MaxSessions
  /\ cookie \in [Browsers -> 0..Len(sess)]
  /\ streams \subseteq DOMAIN sess
  /\ secret \in [Users -> 0..MaxSecrets] /\ enrolments \in 0..MaxEnrolments
  /\ \A u \in Users, b \in Browsers : grant[u][b].row => endpoint[u][b].row
  /\ \A s \in DOMAIN sess : sess[s].state # "gone" => endpoint[sess[s].user][sess[s].browser].row

(* A browser is signed in to one account at a time, and only through its       *)
(* current cookie: setSession retires what was there, across accounts.         *)
OneSessionPerBrowser ==
  \A s \in DOMAIN sess : Usable(s) => cookie[sess[s].browser] = s

(* No session and no grant outlives the credential it was obtained with: after *)
(* a recovery, a disabling or a change of password or username, what can still *)
(* be used was proved with the present secret, or was where the change came    *)
(* from. Also for sessions a grant resumes later.                              *)
CredentialsAreCurrent ==
  /\ \A s \in DOMAIN sess : Usable(s) => sess[s].proof = secret[sess[s].user]
  /\ \A u \in Users, b \in Browsers : Resumable(u, b) => grant[u][b].proof = secret[u]

(* The hub keeps no stream of a session that was revoked; one whose session    *)
(* expired may wait for its heartbeat.                                         *)
StreamsFollowSessions == \A s \in streams : sess[s].state # "revoked"

(* A device grant that could no longer resume a session never can again: not   *)
(* when its endpoint is signed in to once more, nor when the account is        *)
(* enabled again. A device must register a grant anew with the password.       *)
CanResume(i) == \E u \in Users, b \in Browsers : Resumable(u, b) /\ grant[u][b].issue = i
RetiredGrantsStayRetired ==
  [][\A i \in 1..MaxEnrolments : i <= enrolments /\ ~CanResume(i) => ~CanResume(i)']_vars

(* A delayed revocation ends nothing newer than what it names: unless it names *)
(* the very grant the endpoint has, sessions issued after the one it names     *)
(* stay usable, and so does the grant.                                         *)
LateRevocationSparesNewerSignIns ==
  [][\A u \in Users, b \in Browsers, g \in Grants, s \in DOMAIN sess :
       RevokeBrowserGrant(u, b, g, s) /\ ~(grant[u][b].row /\ grant[u][b].id = g) =>
         /\ \A t \in DOMAIN sess : t > s /\ Usable(t) => Usable(t)'
         /\ \A c \in Browsers : Resumable(u, c) => Resumable(u, c)']_vars

(* A stream whose session is no longer valid is ended, if only by its          *)
(* heartbeat.                                                                  *)
StreamsEnd ==
  \A s \in 1..MaxSessions :
    [](s \in streams /\ sess[s].state # "active" => <>(s \notin streams))

(* What the checks and the proofs are about. *)
SessionsSafe == SessionsTypeOK /\ OneSessionPerBrowser /\ CredentialsAreCurrent /\ StreamsFollowSessions
EndedStaysEnded == RetiredGrantsStayRetired /\ LateRevocationSparesNewerSignIns
=============================================================================
